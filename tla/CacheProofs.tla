----------------------------- MODULE CacheProofs -----------------------------
(***************************************************************************)
(* Proofs about module Cache: the types, the coalescing of requests by the *)
(* cache lock, purges, the order of what is stored, and that requests do   *)
(* not send each other round in circles, for any number of requests.       *)
(***************************************************************************)
EXTENDS Cache, FiniteSetTheorems, TLAPS

LEMMA KindsOfStep ==
  ASSUME Next
  PROVE  \/ \E r \in Requests, p \in Paths, m \in BOOLEAN : Arrive(r, p, m)
         \/ \E r \in Requests : Purge(r)
         \/ \E r \in Requests : Hit(r) \/ Stale(r)
         \/ \E r \in Requests : Miss(r) \/ Wait(r) \/ Wake(r)
         \/ \E r \in Requests : LockTimeout(r)
         \/ \E r \in Requests : Answer(r)
         \/ \E r \in Requests : Admit(r)
         \/ \E r \in Requests : Store(r)
         \/ \E r \in Requests : Relay(r) \/ FetchFails(r)
         \/ Tick
BY DEF Next, Step

\* What an origin allows a response is a number of ticks, or nothing.
LEMMA OriginType ==
  ASSUME lesson \in Lessons, NEW p \in Paths
  PROVE  Origin(p).ttl \in Nat \cup {None} /\ Origin(p).swr \in Nat
BY SMTT(30) DEF Origin, Lessons, Paths, MockUpstream, DynamicUpstream, SlowUpstream,
      PurgedUpstream, VersionedUpstream

\* No lesson has both a lock and purges.
LEMMA LockOrPurge ==
  ASSUME lesson \in Lessons, Proxy.lock
  PROVE  ~Proxy.purge
BY DEF Lessons, Proxy, CacheProxy, CacheControlProxy, CacheLockProxy, PurgeProxy,
   SWRProxy

LEMMA ProxyKept ==
  ASSUME lesson' = lesson
  PROVE  Proxy' = Proxy /\ \A p \in Paths : Origin(p)' = Origin(p)
BY DEF Proxy, Origin

\* No step switches to another lesson.
LEMMA LessonKept ==
  ASSUME [Next]_vars
  PROVE  lesson' = lesson
BY KindsOfStep DEF vars, Arrive, Purge, Hit, Stale, Miss, Wait, Wake, LockTimeout,
   Answer, Admit, Store, Relay, FetchFails, Tick

\* A background update goes on only after its request has been answered, and
\* only a response that may be kept is written into the cache.
UpdateInv == \A r \in Requests : update[r] => pc[r] = "done"
WriteInv == \A r \in Requests :
  writing[r] # "none" => /\ Fetching(r) /\ got[r] # 0
                         /\ Origin(path[r]).ttl # None /\ late[r] # "bypass"
                         /\ writing[r] = "purged" => Proxy.purge
TaskInv == UpdateInv /\ WriteInv

LEMMA Start == Init => TypeOK /\ TaskInv
<1>1. Init => TypeOK
  BY CacheAssumption, SMTT(30) DEF Init, TypeOK, Entries, Paths, Lessons
<1>2. Init => TaskInv
  BY DEF Init, TaskInv, UpdateInv, WriteInv
<1> QED BY <1>1, <1>2

\* What a lookup may be answered with.
LEMMA FoundType ==
  ASSUME TypeOK, NEW r \in Requests, Fresh(r) \/ InWindow(r)
  PROVE  Found(r) \subseteq Nat
BY DEF TypeOK, Fresh, InWindow, Found, Writers, Entries

LEMMA NextType ==
  ASSUME TypeOK, TaskInv, [Next]_vars
  PROVE  TypeOK'
<1> USE DEF TypeOK, history
<1>1. ASSUME NEW r \in Requests, NEW p \in Paths, NEW m \in BOOLEAN, Arrive(r, p, m)
      PROVE  TypeOK'
  BY <1>1 DEF Arrive, store
<1>2. ASSUME NEW r \in Requests, Purge(r)
      PROVE  TypeOK'
  <2>1. Content(path[r]) \subseteq Nat
    BY DEF Content, Writers, Entries
  <2>2. gone' \in [Paths -> SUBSET Nat]
    BY <1>2, <2>1 DEF Purge
  <2> QED BY <1>2, <2>2 DEF Purge, Entries
<1>3. ASSUME NEW r \in Requests, Hit(r) \/ Stale(r)
      PROVE  TypeOK'
  <2>1. Found(r) \subseteq Nat
    BY <1>3, FoundType DEF Hit, Stale
  <2>2. /\ served' \in [Requests -> Nat]
        /\ pc' \in [Requests -> {"idle", "lookup", "wait", "fetch", "done"}]
    BY <1>3, <2>1 DEF Hit, Stale, Serve
  <2>3. CASE Hit(r)
    BY <2>3, <2>2 DEF Hit, store
  <2>4. CASE Stale(r)
    <3>1. /\ lock' \in [Paths -> Requests \cup {None}]
          /\ lockAge' \in [Paths -> 0..1]
      BY <2>4 DEF Stale, Take
    <3>2. update' \in [Requests -> BOOLEAN]
      <4>1. update' = update \/ update' = [update EXCEPT ![r] = TRUE]
        BY <2>4 DEF Stale
      <4> QED BY <4>1
    <3> QED BY <2>4, <2>2, <3>1, <3>2 DEF Stale
  <2> QED BY <1>3, <2>3, <2>4
<1>4. ASSUME NEW r \in Requests, Miss(r) \/ Wait(r) \/ Wake(r)
      PROVE  TypeOK'
  <2>1. CASE Miss(r)
    <3>1. lock' \in [Paths -> Requests \cup {None}] /\ lockAge' \in [Paths -> 0..1]
      BY <2>1 DEF Miss, Take
    <3> QED BY <2>1, <3>1 DEF Miss
  <2>2. CASE Wait(r) \/ Wake(r)
    BY <2>2 DEF Wait, Wake, store
  <2> QED BY <1>4, <2>1, <2>2
<1>5. ASSUME NEW r \in Requests, LockTimeout(r)
      PROVE  TypeOK'
  <2>1. lock' \in [Paths -> Requests \cup {None}] /\ lockAge' \in [Paths -> 0..1]
    BY <1>5 DEF LockTimeout, Take
  <2>2. late' \in [Requests -> {None, "bypass", "overtaken"}]
    BY <1>5 DEF LockTimeout
  <2> QED BY <1>5, <2>1, <2>2 DEF LockTimeout
<1>6. ASSUME NEW r \in Requests, Answer(r)
      PROVE  TypeOK'
  BY <1>6 DEF Answer, store
<1>7. ASSUME NEW r \in Requests, Admit(r)
      PROVE  TypeOK'
  BY <1>7 DEF Admit, Release
<1>8. ASSUME NEW r \in Requests, Store(r)
      PROVE  TypeOK'
  <2>1. cached' \in [Paths -> Entries]
    <3> DEFINE o == Origin(path[r])
               e == [version |-> got[r], age |-> 0, ttl |-> o.ttl, swr |-> o.swr]
    <3>1. o.ttl # None
      BY <1>8 DEF Store, TaskInv, WriteInv
    <3>2. e \in Entries
      BY <3>1, OriginType, CacheAssumption DEF Entries
    <3>3. cached' = [cached EXCEPT ![path[r]] = IF writing[r] = "purged" THEN @ ELSE e]
      BY <1>8 DEF Store
    <3> HIDE DEF e
    <3> QED BY <3>2, <3>3
  <2>2. PICK v \in {0, got[r]} : Finish(r, v)
    BY <1>8 DEF Store
  <2> QED BY <1>8, <2>1, <2>2 DEF Store, Finish
<1>9. ASSUME NEW r \in Requests, Relay(r) \/ FetchFails(r)
      PROVE  TypeOK'
  <2>1. PICK v \in {0, got[r]} : Finish(r, v)
    BY <1>9 DEF Relay, FetchFails
  <2>2. lock' \in [Paths -> Requests \cup {None}]
    BY <1>9 DEF Relay, FetchFails, Release
  <2> QED BY <1>9, <2>1, <2>2 DEF Relay, FetchFails, Finish
<1>10. CASE Tick
  <2>1. ASSUME NEW p \in Paths, cached[p] # None, cached[p].age # AgeCap
        PROVE  [cached[p] EXCEPT !.age = @ + 1] \in Entries
    <3> DEFINE E == [version : Nat, age : 0..AgeCap, ttl : Nat, swr : Nat]
    <3>1. cached[p] \in E
      BY <2>1 DEF Entries
    <3>2. ASSUME NEW e \in E, e.age # AgeCap
          PROVE  [e EXCEPT !.age = @ + 1] \in E
      BY <3>2, CacheAssumption, SMTT(30)
    <3> QED BY <2>1, <3>1, <3>2 DEF Entries
  <2>2. cached' \in [Paths -> Entries]
    BY <1>10, <2>1 DEF Tick
  <2> QED BY <1>10, <2>2 DEF Tick, task
<1>11. CASE UNCHANGED vars
  BY <1>11 DEF vars, task, store
<1> QED BY <1>1, <1>2, <1>3, <1>4, <1>5, <1>6, <1>7, <1>8, <1>9, <1>10, <1>11, KindsOfStep

\* A step that writes nothing new and ends no fetch.
LEMMA WriteKept ==
  ASSUME TypeOK, TaskInv, lesson' = lesson, UNCHANGED writing,
         \A r \in Requests : writing[r] # "none" =>
           /\ Fetching(r)' /\ got'[r] = got[r] /\ path'[r] = path[r]
           /\ late'[r] # "bypass"
  PROVE  WriteInv'
BY ProxyKept DEF TypeOK, TaskInv, WriteInv

\* The end of a fetch.
LEMMA FinishEnds ==
  ASSUME TypeOK, TaskInv, NEW r \in Requests, Fetching(r), NEW v, Finish(r, v)
  PROVE  /\ ~Fetching(r)' /\ writing'[r] = "none"
         /\ \A q \in Requests \ {r} : /\ Fetching(q)' = Fetching(q)
                                      /\ writing'[q] = writing[q]
         /\ UpdateInv'
BY DEF TypeOK, TaskInv, UpdateInv, Finish, Fetching

LEMMA NextTask ==
  ASSUME TypeOK, TaskInv, [Next]_vars
  PROVE  TaskInv'
<1> USE DEF TypeOK
<1>0. lesson' = lesson /\ Proxy' = Proxy /\ \A p \in Paths : Origin(p)' = Origin(p)
  BY LessonKept, ProxyKept
<1>1. ASSUME NEW r \in Requests, NEW p \in Paths, NEW m \in BOOLEAN, Arrive(r, p, m)
      PROVE  TaskInv'
  <2>1. writing[r] = "none"
    BY <1>1 DEF Arrive, TaskInv, WriteInv, UpdateInv, Fetching
  <2>2. WriteInv'
    BY <1>0, <1>1, <2>1, WriteKept DEF Arrive, TaskInv, WriteInv, Fetching
  <2> QED BY <1>1, <2>2 DEF Arrive, TaskInv, UpdateInv
<1>2. ASSUME NEW r \in Requests, Purge(r)
      PROVE  TaskInv'
  <2>1. \A q \in Requests : Fetching(q)' = Fetching(q)
    BY <1>2 DEF Purge, Fetching
  <2>2. \A q \in Requests : writing'[q] # "none" => writing[q] # "none"
    BY <1>2 DEF Purge, Writers
  <2>3. Proxy.purge /\ UNCHANGED <<got, path, late, update>>
    BY <1>2 DEF Purge
  <2>4. WriteInv'
    BY <1>0, <2>1, <2>2, <2>3 DEF TaskInv, WriteInv
  <2> QED BY <1>2, <2>4 DEF Purge, TaskInv, UpdateInv
<1>3. ASSUME NEW r \in Requests,
             Hit(r) \/ Stale(r) \/ Miss(r) \/ Wait(r) \/ Wake(r) \/ LockTimeout(r)
      PROVE  TaskInv'
  <2>1. /\ UNCHANGED <<path, got, writing>> /\ pc[r] \in {"lookup", "wait"}
        /\ \/ UNCHANGED update
           \/ update' = [update EXCEPT ![r] = TRUE] /\ pc' = [pc EXCEPT ![r] = "done"]
        /\ \E x \in {"lookup", "wait", "fetch", "done"} : pc' = [pc EXCEPT ![r] = x]
    BY <1>3 DEF Hit, Stale, Miss, Wait, Wake, LockTimeout, Missed, Lookup, Serve
  <2>2. ~Fetching(r) /\ writing[r] = "none" /\ ~update[r]
    BY <2>1 DEF TaskInv, WriteInv, UpdateInv, Fetching
  <2>3. \A q \in Requests \ {r} : Fetching(q)' = Fetching(q)
    BY <2>1 DEF Fetching
  <2>4. \A q \in Requests \ {r} : late'[q] # "bypass" \/ late[q] = "bypass"
    BY <1>3, CacheAssumption DEF Hit, Stale, Miss, Wait, Wake, LockTimeout
  <2>5. WriteInv'
    BY <1>0, <2>1, <2>2, <2>3, <2>4, WriteKept DEF TaskInv, WriteInv
  <2> QED BY <2>1, <2>2, <2>5 DEF TaskInv, UpdateInv
<1>4. ASSUME NEW r \in Requests, Answer(r)
      PROVE  TaskInv'
  <2>1. writing[r] = "none"
    BY <1>4 DEF Answer, TaskInv, WriteInv
  <2>2. WriteInv'
    BY <1>0, <1>4, <2>1, WriteKept DEF Answer, TaskInv, WriteInv, Fetching
  <2> QED BY <1>4, <2>2 DEF Answer, TaskInv, UpdateInv
<1>5. ASSUME NEW r \in Requests, Admit(r)
      PROVE  TaskInv'
  <2>1. UNCHANGED <<pc, update, got, path, late>> /\ Fetching(r) /\ got[r] # 0
        /\ Storable(r) /\ writing' = [writing EXCEPT ![r] = "open"]
    BY <1>5 DEF Admit
  <2>2. \A q \in Requests : Fetching(q)' = Fetching(q)
    BY <2>1 DEF Fetching
  <2>3. WriteInv'
    BY <1>0, <2>1, <2>2 DEF TaskInv, WriteInv, Storable
  <2> QED BY <2>1, <2>3 DEF TaskInv, UpdateInv
<1>6. ASSUME NEW r \in Requests, Store(r) \/ Relay(r) \/ FetchFails(r)
      PROVE  TaskInv'
  <2>1. Fetching(r) /\ UNCHANGED <<path, late, got>> /\ \E v : Finish(r, v)
    BY <1>6 DEF Store, Relay, FetchFails, TaskInv, WriteInv
  <2>2. /\ UpdateInv' /\ writing'[r] = "none"
        /\ \A q \in Requests \ {r} : Fetching(q)' = Fetching(q) /\ writing'[q] = writing[q]
    BY <2>1, FinishEnds
  <2>3. WriteInv'
    BY <1>0, <2>1, <2>2 DEF TaskInv, WriteInv
  <2> QED BY <2>2, <2>3 DEF TaskInv
<1>7. CASE Tick \/ UNCHANGED vars
  BY <1>0, <1>7, WriteKept DEF Tick, vars, task, TaskInv, WriteInv, UpdateInv, Fetching
<1> QED BY <1>1, <1>2, <1>3, <1>4, <1>5, <1>6, <1>7, KindsOfStep

----------------------------------------------------------------------------
LEMMA TypeAlways == Spec => [](TypeOK /\ TaskInv)
<1>1. TypeOK /\ TaskInv /\ [Next]_vars => (TypeOK /\ TaskInv)'
  BY NextType, NextTask
<1> QED BY Start, <1>1, PTL DEF Spec

\* The cache, its locks and the requests keep their types.
THEOREM TypeCorrect == Spec => []TypeOK
BY TypeAlways, PTL

----------------------------------------------------------------------------
(***************************************************************************)
(* Why the lock coalesces: a request that fetches, and whose lock has not  *)
(* timed out, holds the lock of its path until its response begins; then   *)
(* the lock is free, but whoever looks finds the entry that is written and *)
(* does not take it.                                                       *)
(***************************************************************************)
HeldInv == Proxy.lock => \A r \in Requests :
  Fetching(r) /\ late[r] = None =>
    lock[path[r]] = IF writing[r] = "none" THEN r ELSE None
WriterInv == Proxy.lock => \A r1, r2 \in Requests :
  writing[r1] # "none" /\ writing[r2] # "none" /\ path[r1] = path[r2]
    /\ late[r1] = None /\ late[r2] = None => r1 = r2
OwnerInv == \A p \in Paths : lock[p] # None =>
  Fetching(lock[p]) /\ path[lock[p]] = p /\ writing[lock[p]] = "none"
HolderInv == HeldInv /\ WriterInv /\ OwnerInv
LockInv == TaskInv /\ HolderInv

LEMMA LockStart == Init => LockInv
<1>1. Init => HeldInv /\ WriterInv
  BY DEF Init, HeldInv, WriterInv, Fetching
<1>2. Init => OwnerInv
  BY DEF Init, OwnerInv
<1> QED BY <1>1, <1>2, Start DEF LockInv, HolderInv

LEMMA Sole ==
  ASSUME TypeOK, LockInv
  PROVE  Coalesced
<1>1. ASSUME Proxy.lock, NEW r1 \in Requests, NEW r2 \in Requests, Fetching(r1),
             Fetching(r2), path[r1] = path[r2], late[r1] = None, late[r2] = None
      PROVE  r1 = r2
  <2>1. /\ lock[path[r1]] = IF writing[r1] = "none" THEN r1 ELSE None
        /\ lock[path[r1]] = IF writing[r2] = "none" THEN r2 ELSE None
    BY <1>1 DEF LockInv, HolderInv, HeldInv, WriterInv, OwnerInv
  <2>2. None \notin Requests
    BY CacheAssumption
  <2>3. CASE writing[r1] # "none" /\ writing[r2] # "none"
    BY <1>1, <2>3 DEF LockInv, HolderInv, HeldInv, WriterInv, OwnerInv
  <2> QED BY <2>1, <2>2, <2>3
<1> QED BY <1>1 DEF Coalesced, LockInv, HolderInv, HeldInv, WriterInv, OwnerInv

\* A request takes the lock: nobody who may keep others from it fetches.
LEMMA TakeHolds ==
  ASSUME TypeOK, LockInv, NEW r \in Requests, lesson' = lesson,
         UNCHANGED <<path, writing>>, ~Fetching(r), Fetching(r)',
         \A q \in Requests \ {r} : /\ Fetching(q)' = Fetching(q)
                                   /\ late'[q] = None => late[q] = None,
         Take(r),
         Proxy.lock => \A q \in Requests : Fetching(q) /\ path[q] = path[r] => late'[q] # None
  PROVE  HolderInv'
<1>0. Proxy' = Proxy /\ writing[r] = "none"
  BY ProxyKept DEF LockInv, TaskInv, WriteInv
<1>1. CASE Proxy.lock
  <2>1. lock' = [lock EXCEPT ![path[r]] = r]
    BY <1>1 DEF Take
  <2>2. ASSUME NEW q \in Requests, Fetching(q)', late'[q] = None
        PROVE  lock'[path[q]] = IF writing[q] = "none" THEN q ELSE None
    <3>1. CASE q = r
      BY <1>0, <2>1, <3>1 DEF TypeOK
    <3>2. CASE q # r
      <4>1. Fetching(q) /\ late[q] = None /\ path[q] # path[r]
        BY <1>1, <2>2, <3>2
      <4> QED BY <1>1, <2>1, <4>1 DEF TypeOK, LockInv, HolderInv, HeldInv, WriterInv, OwnerInv
    <3> QED BY <3>1, <3>2
  <2>3. ASSUME NEW r1 \in Requests, NEW r2 \in Requests, writing[r1] # "none",
               writing[r2] # "none", path[r1] = path[r2], late'[r1] = None,
               late'[r2] = None
        PROVE  r1 = r2
    <3>1. late[r1] = None /\ late[r2] = None
      BY <1>0, <2>3
    <3> QED BY <1>1, <2>3, <3>1 DEF LockInv, HolderInv, HeldInv, WriterInv,
       OwnerInv
  <2>4. ASSUME NEW p \in Paths, lock'[p] # None
        PROVE  Fetching(lock[p])' /\ path[lock'[p]] = p /\ writing[lock'[p]] = "none"
    <3>1. CASE p = path[r]
      BY <1>0, <2>1, <3>1 DEF TypeOK
    <3>2. CASE p # path[r]
      <4>1. lock'[p] = lock[p] /\ lock[p] \in Requests
        BY <2>1, <2>4, <3>2 DEF TypeOK
      <4>2. Fetching(lock[p]) /\ path[lock[p]] = p /\ writing[lock[p]] = "none"
        BY <2>4, <4>1 DEF LockInv, HolderInv, HeldInv, WriterInv, OwnerInv
      <4> QED BY <3>2, <4>1, <4>2
    <3> QED BY <3>1, <3>2
  <2>5. HeldInv' /\ WriterInv'
    BY <1>0, <2>2, <2>3 DEF HeldInv, WriterInv
  <2>6. OwnerInv'
    BY <2>4 DEF OwnerInv
  <2> QED BY <2>5, <2>6 DEF HolderInv
<1>2. CASE ~Proxy.lock
  <2>1. lock' = lock
    BY <1>2 DEF Take
  <2>2. ASSUME NEW p \in Paths, lock[p] # None
        PROVE  Fetching(lock[p])' /\ path[lock[p]] = p /\ writing[lock[p]] = "none"
    <3>1. /\ lock[p] \in Requests /\ Fetching(lock[p]) /\ path[lock[p]] = p
          /\ writing[lock[p]] = "none"
      BY <2>2 DEF TypeOK, LockInv, HolderInv, HeldInv, WriterInv, OwnerInv
    <3> QED BY <2>1, <3>1 DEF Fetching
  <2> QED BY <1>0, <1>2, <2>1, <2>2 DEF HolderInv, HeldInv, WriterInv, OwnerInv, Fetching
<1> QED BY <1>1, <1>2

\* A lookup that misses finds nobody writing.
LEMMA MissAlone ==
  ASSUME TypeOK, LockInv, NEW r \in Requests, Proxy.lock, Free(path[r]),
         Writers(path[r]) = {}
  PROVE  \A q \in Requests : Fetching(q) /\ path[q] = path[r] => late[q] # None
<1> SUFFICES ASSUME NEW q \in Requests, Fetching(q), path[q] = path[r], late[q] = None
             PROVE  FALSE
  OBVIOUS
<1>1. lock[path[r]] = None /\ None \notin Requests
  BY CacheAssumption DEF Free
<1>2. writing[q] # "none"
  BY <1>1 DEF LockInv, HolderInv, HeldInv, WriterInv, OwnerInv
<1>3. writing[q] # "purged"
  BY <1>2, LockOrPurge DEF TypeOK, LockInv, TaskInv, WriteInv
<1> QED BY <1>2, <1>3 DEF Writers, TypeOK

\* No lock changes hands, and whoever begins to fetch is past its lock.
LEMMA HolderKept ==
  ASSUME TypeOK, LockInv, lesson' = lesson, UNCHANGED lock,
         \A q \in Requests :
           /\ Fetching(q) => Fetching(q)' /\ path'[q] = path[q]
           /\ Fetching(q)' /\ late'[q] = None => Fetching(q) /\ late[q] = None
           /\ (writing'[q] = "none") = (writing[q] = "none")
  PROVE  HolderInv'
<1>0. Proxy' = Proxy
  BY ProxyKept
<1>1. \A q \in Requests : writing[q] # "none" => Fetching(q)
  BY DEF LockInv, TaskInv, WriteInv
<1>2. \A p \in Paths : lock[p] # None => lock[p] \in Requests
  BY DEF TypeOK
<1>3. ASSUME Proxy.lock, NEW q \in Requests, Fetching(q)', late'[q] = None
      PROVE  lock'[path'[q]] = IF writing'[q] = "none" THEN q ELSE None
  <2>1. Fetching(q) /\ late[q] = None /\ path'[q] = path[q]
    BY <1>3
  <2>2. lock[path[q]] = IF writing[q] = "none" THEN q ELSE None
    BY <1>3, <2>1 DEF LockInv, HolderInv, HeldInv, WriterInv, OwnerInv
  <2> QED BY <2>1, <2>2
<1>4. ASSUME Proxy.lock, NEW r1 \in Requests, NEW r2 \in Requests,
             writing'[r1] # "none", writing'[r2] # "none", path'[r1] = path'[r2],
             late'[r1] = None, late'[r2] = None
      PROVE  r1 = r2
  <2>1. \A q \in {r1, r2} : /\ writing[q] # "none" /\ Fetching(q) /\ Fetching(q)'
                            /\ path'[q] = path[q] /\ late[q] = None
    BY <1>1, <1>4
  <2> QED BY <1>4, <2>1 DEF LockInv, HolderInv, HeldInv, WriterInv, OwnerInv
<1>5. ASSUME NEW p \in Paths, lock[p] # None
      PROVE  /\ Fetching(lock[p])' /\ path'[lock[p]] = p /\ writing'[lock[p]] = "none"
  BY <1>2, <1>5 DEF LockInv, HolderInv, HeldInv, WriterInv, OwnerInv, Fetching
<1>6. HeldInv'
  BY <1>0, <1>3 DEF HeldInv
<1>7. WriterInv'
  BY <1>0, <1>4 DEF WriterInv
<1>8. OwnerInv'
  BY <1>5 DEF OwnerInv, Fetching
<1> QED BY <1>6, <1>7, <1>8 DEF HolderInv

\* A request frees its lock: its response begins, or its fetch is over.
LEMMA ReleaseHolds ==
  ASSUME TypeOK, LockInv, NEW r \in Requests, lesson' = lesson, Fetching(r),
         UNCHANGED <<path, late>>, Release(r),
         \A q \in Requests \ {r} : Fetching(q)' = Fetching(q) /\ writing'[q] = writing[q],
         \/ ~Fetching(r)' /\ writing'[r] = "none"
         \/ Fetching(r)' /\ writing[r] = "none" /\ writing'[r] # "none"
  PROVE  HolderInv'
<1>0. Proxy' = Proxy /\ None \notin Requests
  BY ProxyKept, CacheAssumption
<1>1. \A q \in Requests : writing[q] # "none" => Fetching(q)
  BY DEF LockInv, TaskInv, WriteInv
<1>2. \A p \in Paths : lock'[p] = IF p = path[r] /\ lock[p] = r THEN None ELSE lock[p]
  BY DEF Release, TypeOK
<1>3. ASSUME Proxy.lock, NEW q \in Requests \ {r}, Fetching(q), late[q] = None
      PROVE  lock'[path[q]] = IF writing[q] = "none" THEN q ELSE None
  <2>1. lock[path[q]] = IF writing[q] = "none" THEN q ELSE None
    BY <1>3 DEF LockInv, HolderInv, HeldInv, WriterInv, OwnerInv
  <2> QED BY <1>0, <1>2, <1>3, <2>1 DEF TypeOK
<1>4. ASSUME Proxy.lock, Fetching(r)', late[r] = None
      PROVE  /\ lock'[path[r]] = None /\ writing'[r] # "none"
             /\ \A q \in Requests \ {r} : writing[q] # "none" /\ late[q] = None
                                            => path[q] # path[r]
  <2>1. lock[path[r]] = r
    BY <1>4 DEF LockInv, HolderInv, HeldInv, WriterInv, OwnerInv
  <2>2. \A q \in Requests \ {r} : writing[q] # "none" /\ late[q] = None =>
          lock[path[q]] = None
    BY <1>1, <1>4 DEF LockInv, HolderInv, HeldInv, WriterInv, OwnerInv
  <2> QED BY <1>0, <1>2, <1>4, <2>1, <2>2 DEF TypeOK
<1>5. ASSUME Proxy.lock, NEW r1 \in Requests, NEW r2 \in Requests,
             writing'[r1] # "none", writing'[r2] # "none", path[r1] = path[r2],
             late[r1] = None, late[r2] = None
      PROVE  r1 = r2
  <2>1. CASE r1 # r /\ r2 # r
    BY <1>5, <2>1 DEF LockInv, HolderInv, HeldInv, WriterInv, OwnerInv
  <2>2. CASE r1 = r \/ r2 = r
    BY <1>4, <1>5, <2>2
  <2> QED BY <2>1, <2>2
<1>6. ASSUME NEW p \in Paths, lock'[p] # None
      PROVE  /\ Fetching(lock[p])' /\ path[lock'[p]] = p /\ writing'[lock'[p]] = "none"
  <2>1. /\ lock'[p] = lock[p] /\ lock[p] \in Requests /\ Fetching(lock[p])
        /\ path[lock[p]] = p /\ writing[lock[p]] = "none"
    BY <1>2, <1>6 DEF TypeOK, LockInv, HolderInv, HeldInv, WriterInv, OwnerInv
  <2>2. lock[p] # r
    BY <1>2, <1>6, <2>1
  <2> QED BY <2>1, <2>2
<1>7. ASSUME Proxy.lock, NEW q \in Requests, Fetching(q)', late[q] = None
      PROVE  lock'[path[q]] = IF writing'[q] = "none" THEN q ELSE None
  BY <1>3, <1>4, <1>7
<1>8. HeldInv'
  BY <1>0, <1>7 DEF HeldInv
<1>9. WriterInv'
  BY <1>0, <1>5 DEF WriterInv
<1>10. OwnerInv'
  BY <1>6 DEF OwnerInv
<1> QED BY <1>8, <1>9, <1>10 DEF HolderInv

LEMMA NextLock ==
  ASSUME TypeOK, LockInv, [Next]_vars
  PROVE  LockInv'
<1> SUFFICES HolderInv'
  BY NextTask DEF LockInv
<1> USE DEF TypeOK
<1>0. lesson' = lesson
  BY LessonKept
<1>1. ASSUME NEW r \in Requests, NEW p \in Paths, NEW m \in BOOLEAN, Arrive(r, p, m)
      PROVE  HolderInv'
  <2>1. ~Fetching(r) /\ ~update[r]
    BY <1>1 DEF Arrive, LockInv, TaskInv, UpdateInv, Fetching
  <2> QED BY <1>0, <1>1, <2>1, HolderKept DEF Arrive, store, Fetching
<1>2. ASSUME NEW r \in Requests, Purge(r)
      PROVE  HolderInv'
  <2>1. UNCHANGED <<lock, path, late>>
    BY <1>2 DEF Purge
  <2>2. \A q \in Requests : Fetching(q)' = Fetching(q)
    BY <1>2 DEF Purge, Fetching
  <2>3. \A q \in Requests : (writing'[q] = "none") = (writing[q] = "none")
    BY <1>2 DEF Purge, Writers
  <2> QED BY <1>0, <2>1, <2>2, <2>3, HolderKept
<1>3. ASSUME NEW r \in Requests, pc[r] \in {"lookup", "wait"}
      PROVE  ~Fetching(r) /\ ~update[r]
  BY <1>3 DEF LockInv, TaskInv, UpdateInv, Fetching
<1>4. ASSUME NEW r \in Requests, pc[r] \in {"lookup", "wait"},
             pc' = [pc EXCEPT ![r] = "done"] \/ pc' = [pc EXCEPT ![r] = "wait"]
               \/ pc' = [pc EXCEPT ![r] = "lookup"],
             UNCHANGED <<path, late, writing, update, lock>>
      PROVE  HolderInv'
  <2>1. \A q \in Requests : Fetching(q)' = Fetching(q)
    BY <1>3, <1>4 DEF Fetching
  <2> QED BY <1>0, <1>4, <2>1, HolderKept
<1>5. ASSUME NEW r \in Requests, Hit(r) \/ Wait(r) \/ Wake(r)
      PROVE  HolderInv'
  BY <1>4, <1>5 DEF Hit, Wait, Wake, Missed, Lookup, Serve, store
<1>6. ASSUME NEW r \in Requests, Stale(r)
      PROVE  HolderInv'
  <2>1. /\ pc[r] = "lookup" /\ pc' = [pc EXCEPT ![r] = "done"]
        /\ UNCHANGED <<path, late, writing>> /\ Writers(path[r]) = {}
    BY <1>6 DEF Stale, Lookup, Serve, InWindow
  <2>2. CASE ~Free(path[r])
    BY <1>4, <1>6, <2>1, <2>2 DEF Stale
  <2>3. CASE Free(path[r])
    <3>1. Take(r) /\ update' = [update EXCEPT ![r] = TRUE]
      BY <1>6, <2>3 DEF Stale
    <3>2. Fetching(r)' /\ \A q \in Requests \ {r} : Fetching(q)' = Fetching(q)
      BY <2>1, <3>1 DEF Fetching
    <3> QED BY <1>0, <1>3, <2>1, <2>3, <3>1, <3>2, MissAlone, TakeHolds
  <2> QED BY <2>2, <2>3
<1>7. ASSUME NEW r \in Requests, Miss(r)
      PROVE  HolderInv'
  <2>1. /\ pc[r] = "lookup" /\ pc' = [pc EXCEPT ![r] = "fetch"] /\ Take(r)
        /\ UNCHANGED <<path, late, writing, update>> /\ Free(path[r])
        /\ Writers(path[r]) = {}
    BY <1>7 DEF Miss, Missed, Lookup, Fresh
  <2>2. Fetching(r)' /\ \A q \in Requests \ {r} : Fetching(q)' = Fetching(q)
    BY <2>1 DEF Fetching
  <2> QED BY <1>0, <1>3, <2>1, <2>2, MissAlone, TakeHolds
<1>8. ASSUME NEW r \in Requests, LockTimeout(r)
      PROVE  HolderInv'
  <2> DEFINE h == lock[path[r]]
  <2>1. /\ pc[r] = "wait" /\ pc' = [pc EXCEPT ![r] = "fetch"]
        /\ UNCHANGED <<path, writing, update>> /\ h \in Requests
    BY <1>8 DEF LockTimeout
  <2>2. Fetching(r)' /\ \A q \in Requests \ {r} : Fetching(q)' = Fetching(q)
    BY <2>1 DEF Fetching
  <2>3. CASE late' = [late EXCEPT ![r] = "bypass"] /\ UNCHANGED <<lock, lockAge>>
    BY <1>0, <1>3, <2>1, <2>2, <2>3, CacheAssumption, HolderKept
  <2>4. CASE late' = [late EXCEPT ![h] = "overtaken"] /\ Take(r)
    <3>1. ASSUME Proxy.lock, NEW q \in Requests, Fetching(q), path[q] = path[r]
          PROVE  late'[q] # None
      <4>1. CASE late[q] = None
        BY <2>1, <2>4, <3>1, <4>1, CacheAssumption DEF LockInv, HolderInv, HeldInv, WriterInv,
           OwnerInv
      <4>2. CASE late[q] # None
        BY <2>1, <2>4, <4>2, CacheAssumption
      <4> QED BY <4>1, <4>2
    <3>2. \A q \in Requests : late'[q] = None => late[q] = None
      BY <2>1, <2>4, CacheAssumption
    <3> QED BY <1>0, <1>3, <2>1, <2>2, <2>4, <3>1, <3>2, TakeHolds
  <2> QED BY <1>8, <2>3, <2>4 DEF LockTimeout
<1>9. ASSUME NEW r \in Requests, Answer(r)
      PROVE  HolderInv'
  BY <1>0, <1>9, HolderKept DEF Answer, store, Fetching
<1>10. ASSUME NEW r \in Requests, Admit(r)
      PROVE  HolderInv'
  <2>1. /\ UNCHANGED <<pc, update, path, late>> /\ Fetching(r) /\ Release(r)
        /\ writing[r] = "none" /\ writing' = [writing EXCEPT ![r] = "open"]
    BY <1>10 DEF Admit
  <2>2. \A q \in Requests : Fetching(q)' = Fetching(q)
    BY <2>1 DEF Fetching
  <2> QED BY <1>0, <2>1, <2>2, ReleaseHolds
<1>11. ASSUME NEW r \in Requests, Store(r) \/ Relay(r) \/ FetchFails(r)
      PROVE  HolderInv'
  <2>1. Fetching(r) /\ UNCHANGED <<path, late>> /\ \E v : Finish(r, v)
    BY <1>11 DEF Store, Relay, FetchFails, LockInv, TaskInv, WriteInv
  <2>2. Release(r)
    <3>1. CASE Store(r)
      <4>1. lock' = lock /\ writing[r] # "none"
        BY <3>1 DEF Store
      <4>2. lock[path[r]] # r
        BY <4>1, CacheAssumption DEF LockInv, HolderInv, HeldInv, WriterInv,
           OwnerInv
      <4> QED BY <4>1, <4>2 DEF Release
    <3> QED BY <1>11, <3>1 DEF Relay, FetchFails
  <2>3. /\ ~Fetching(r)' /\ writing'[r] = "none"
        /\ \A q \in Requests \ {r} : Fetching(q)' = Fetching(q) /\ writing'[q] = writing[q]
    BY <2>1, FinishEnds DEF LockInv
  <2> QED BY <1>0, <2>1, <2>2, <2>3, ReleaseHolds
<1>12. CASE Tick \/ UNCHANGED vars
  BY <1>0, <1>12, HolderKept DEF Tick, vars, task, store, Fetching
<1> QED BY <1>1, <1>2, <1>5, <1>6, <1>7, <1>8, <1>9, <1>10, <1>11, <1>12, KindsOfStep

\* With a cache lock the origin gets one request per path at a time, and only a
\* request that fetches a path holds its lock.
THEOREM AlwaysCoalesced == Spec => []Coalesced
<1>1. TypeOK /\ LockInv => Coalesced
  BY Sole
<1>2. TypeOK /\ LockInv /\ [Next]_vars => LockInv'
  BY NextLock
<1> QED BY LockStart, TypeCorrect, <1>1, <1>2, PTL DEF Spec

----------------------------------------------------------------------------
(***************************************************************************)
(* Why a purge is final: every fetch brings a version of its own, which    *)
(* others can read only while it is written, and then from the cache; a    *)
(* purge takes it from both.  So what can be read has never been purged,   *)
(* and a request's own response was not when it came.                      *)
(***************************************************************************)
\* A request that has not been sent on to the origin has nothing from it.
FetchInv == \A r \in Requests :
  /\ pc[r] \in {"idle", "lookup", "wait"} => got[r] = 0
  /\ pc[r] = "idle" => served[r] = 0

\* Versions are given out in order, and none twice.
VersionInv ==
  /\ \A r \in Requests : got[r] <= version
  /\ \A r1, r2 \in Requests : got[r1] = got[r2] /\ got[r1] # 0 => r1 = r2
  /\ \A p \in Paths : cached[p] # None => cached[p].version \in 1..version
  /\ \A p \in Paths : gone[p] \subseteq 1..version

\* What a fetch has brought is not in the cache yet, and unless it was purged in
\* the making it was not purged; nor was what is in the cache.
StoreInv == \A p \in Paths :
  /\ \A r \in Requests : Fetching(r) /\ got[r] # 0 /\ writing[r] # "purged" =>
       /\ got[r] \notin gone[p]
       /\ cached[p] # None => got[r] # cached[p].version
  /\ cached[p] # None => cached[p].version \notin gone[p]

KnownInv == \A r \in Requests : /\ known[r] \subseteq gone[path[r]]
                                /\ got[r] \notin known[r]

PurgeInv == FetchInv /\ VersionInv /\ StoreInv /\ KnownInv /\ PurgedIsGone

LEMMA PurgeStart == Init => PurgeInv
BY DEF Init, PurgeInv, FetchInv, VersionInv, StoreInv, KnownInv, PurgedIsGone

\* Steps that neither store, purge nor answer: the cache and the versions stay.
QuietStep ==
  /\ UNCHANGED <<got, cached, version, gone>>
  /\ \A r \in Requests : Fetching(r)' /\ writing'[r] # "purged" =>
       (Fetching(r) /\ writing[r] # "purged") \/ got[r] = 0

LEMMA QuietKeeps ==
  ASSUME VersionInv, StoreInv, QuietStep
  PROVE  VersionInv' /\ StoreInv'
BY DEF VersionInv, StoreInv, QuietStep

\* Growing older leaves an entry its version.
LEMMA TickKeepsVersions ==
  ASSUME TypeOK, Tick
  PROVE  \A p \in Paths : cached'[p] # None =>
           cached[p] # None /\ cached'[p].version = cached[p].version
<1>1. \A e \in [version : Nat, age : 0..AgeCap, ttl : Nat, swr : Nat] :
        [e EXCEPT !.age = @ + 1].version = e.version
  OBVIOUS
<1>2. \A p \in Paths : cached[p] # None =>
        cached[p] \in [version : Nat, age : 0..AgeCap, ttl : Nat, swr : Nat]
  BY DEF TypeOK, Entries
<1> QED BY <1>1, <1>2 DEF Tick

\* What a lookup finds was not purged.
LEMMA FoundNotGone ==
  ASSUME TypeOK, LockInv, PurgeInv, NEW r \in Requests, Fresh(r) \/ InWindow(r),
         NEW v \in Found(r)
  PROVE  v \notin gone[path[r]]
<1>1. CASE Writers(path[r]) # {}
  <2>1. PICK w \in Requests : v = got[w] /\ writing[w] = "open"
    BY <1>1 DEF Found, Writers
  <2>2. Fetching(w) /\ got[w] # 0
    BY <2>1 DEF LockInv, TaskInv, WriteInv
  <2> QED BY <2>1, <2>2 DEF PurgeInv, StoreInv, TypeOK
<1>2. CASE Writers(path[r]) = {}
  <2>1. cached[path[r]] # None /\ v = cached[path[r]].version
    BY <1>2 DEF Found, Fresh, InWindow
  <2> QED BY <2>1 DEF PurgeInv, StoreInv, TypeOK
<1> QED BY <1>1, <1>2

\* A purge takes the kept entry and all that are being written.
LEMMA PurgeTakes ==
  ASSUME TypeOK, LockInv, PurgeInv, NEW r \in Requests, Purge(r)
  PROVE  VersionInv' /\ StoreInv'
<1> USE DEF TypeOK, PurgeInv
<1> DEFINE p == path[r]
<1>1. /\ UNCHANGED <<got, version>> /\ p \in Paths
      /\ cached' = [cached EXCEPT ![p] = None]
      /\ gone' = [gone EXCEPT ![p] = @ \cup Content(p)]
      /\ \A q \in Requests : writing'[q] = IF q \in Writers(p) THEN "purged" ELSE writing[q]
  BY DEF Purge
<1>2. \A q \in Requests : Fetching(q)' = Fetching(q)
  BY DEF Purge, Fetching
<1>3. \A q \in Writers(p) : got[q] \in 1..version
  BY DEF Writers, LockInv, TaskInv, WriteInv, VersionInv
<1>4. Content(p) \subseteq 1..version
  BY <1>3 DEF Content, VersionInv
<1>5. VersionInv'
  BY <1>1, <1>4 DEF VersionInv
<1>6. ASSUME NEW q \in Requests, Fetching(q), got[q] # 0, writing'[q] # "purged"
      PROVE  got[q] \notin Content(p) /\ writing[q] # "purged"
  <2>1. q \notin Writers(p) /\ writing[q] # "purged"
    BY <1>1, <1>6
  <2>2. \A w \in Writers(p) : got[w] # got[q]
    BY <1>6, <2>1 DEF VersionInv, Writers
  <2>3. cached[p] # None => got[q] # cached[p].version
    BY <1>6, <2>1 DEF StoreInv
  <2> QED BY <2>1, <2>2, <2>3 DEF Content
<1>7. StoreInv'
  BY <1>1, <1>2, <1>6 DEF StoreInv
<1> QED BY <1>5, <1>7

LEMMA NextPurge ==
  ASSUME TypeOK, LockInv, PurgeInv, [Next]_vars
  PROVE  PurgeInv'
<1> USE DEF TypeOK, PurgeInv, LockInv, TaskInv, UpdateInv
<1>1. ASSUME NEW r \in Requests, NEW p \in Paths, NEW m \in BOOLEAN, Arrive(r, p, m)
      PROVE  PurgeInv'
  <2>1. QuietStep
    BY <1>1 DEF Arrive, store, QuietStep, Fetching
  <2>2. FetchInv'
    BY <1>1 DEF Arrive, FetchInv
  <2>3. KnownInv'
    BY <1>1 DEF Arrive, KnownInv, FetchInv, VersionInv
  <2>4. PurgedIsGone'
    BY <1>1 DEF Arrive, PurgedIsGone, FetchInv, VersionInv
  <2> QED BY <2>1, <2>2, <2>3, <2>4, QuietKeeps
<1>2. ASSUME NEW r \in Requests, Purge(r)
      PROVE  PurgeInv'
  <2>1. FetchInv'
    BY <1>2 DEF Purge, FetchInv
  <2>2. KnownInv'
    BY <1>2 DEF Purge, KnownInv
  <2>3. PurgedIsGone'
    BY <1>2 DEF Purge, PurgedIsGone
  <2> QED BY <1>2, <2>1, <2>2, <2>3, PurgeTakes
<1>3. ASSUME NEW r \in Requests, Hit(r) \/ Stale(r)
      PROVE  PurgeInv'
  <2>1. pc[r] = "lookup" /\ (Fresh(r) \/ InWindow(r))
    BY <1>3 DEF Hit, Stale, Lookup
  <2>2. /\ UNCHANGED <<path, known, got, writing, cached, version, gone>>
        /\ pc' = [pc EXCEPT ![r] = "done"]
    BY <1>3 DEF Hit, Stale, Serve, store, history
  <2>3. QuietStep
    <3>1. \A q \in Requests \ {r} : update'[q] = update[q]
      BY <1>3 DEF Hit, Stale
    <3> QED BY <2>1, <2>2, <3>1 DEF QuietStep, Fetching, FetchInv
  <2>4. PICK v \in Found(r) : served' = [served EXCEPT ![r] = v]
    BY <1>3 DEF Hit, Stale, Serve
  <2>5. FetchInv'
    BY <2>1, <2>2, <2>4 DEF FetchInv
  <2>6. KnownInv'
    BY <2>2 DEF KnownInv
  <2>7. v \notin known[r]
    BY <2>1, FoundNotGone DEF KnownInv
  <2>8. PurgedIsGone'
    BY <2>2, <2>4, <2>7 DEF PurgedIsGone
  <2> QED BY <2>3, <2>5, <2>6, <2>8, QuietKeeps
<1>4. ASSUME NEW r \in Requests, Miss(r) \/ Wait(r) \/ Wake(r) \/ LockTimeout(r)
      PROVE  PurgeInv'
  <2>1. /\ UNCHANGED <<path, known, got, writing, served, update, cached, version, gone>>
        /\ pc[r] \in {"lookup", "wait"}
        /\ \E x \in {"lookup", "wait", "fetch"} : pc' = [pc EXCEPT ![r] = x]
    BY <1>4 DEF Miss, Wait, Wake, LockTimeout, Missed, Lookup, store, history
  <2>2. QuietStep
    BY <2>1 DEF QuietStep, Fetching, FetchInv
  <2>3. FetchInv'
    BY <2>1 DEF FetchInv
  <2>4. KnownInv' /\ PurgedIsGone'
    BY <2>1 DEF KnownInv, PurgedIsGone
  <2> QED BY <2>2, <2>3, <2>4, QuietKeeps
<1>5. ASSUME NEW r \in Requests, Answer(r)
      PROVE  PurgeInv'
  <2>1. FetchInv'
    BY <1>5 DEF Answer, FetchInv, Fetching
  <2>2. VersionInv'
    BY <1>5 DEF Answer, VersionInv, store, history
  <2>3. StoreInv'
    BY <1>5 DEF Answer, StoreInv, VersionInv, Fetching, store, history
  <2>4. version + 1 \notin known[r]
    BY DEF KnownInv, VersionInv
  <2>5. KnownInv' /\ PurgedIsGone'
    BY <1>5, <2>4 DEF Answer, KnownInv, PurgedIsGone, history
  <2> QED BY <2>1, <2>2, <2>3, <2>5
<1>6. ASSUME NEW r \in Requests, Admit(r)
      PROVE  PurgeInv'
  <2>1. /\ UNCHANGED <<pc, path, got, served, update, cached, version, gone, known>>
        /\ writing[r] = "none" /\ writing' = [writing EXCEPT ![r] = "open"]
    BY <1>6 DEF Admit, history
  <2>2. QuietStep
    BY <2>1 DEF QuietStep, Fetching
  <2>3. FetchInv' /\ KnownInv' /\ PurgedIsGone'
    BY <2>1 DEF FetchInv, KnownInv, PurgedIsGone
  <2> QED BY <2>2, <2>3, QuietKeeps
<1>7. ASSUME NEW r \in Requests, Fetching(r), NEW v \in {0, got[r]}, Finish(r, v),
             UNCHANGED <<path, got, version, gone, known>>
      PROVE  /\ FetchInv' /\ KnownInv' /\ PurgedIsGone'
             /\ ~Fetching(r)'
             /\ \A q \in Requests \ {r} : /\ Fetching(q)' = Fetching(q)
                                          /\ writing'[q] = writing[q]
  <2>1. FetchInv'
    BY <1>7 DEF Finish, FetchInv, Fetching
  <2>2. KnownInv'
    BY <1>7 DEF KnownInv
  <2>3. v \notin known[r]
    BY <1>7 DEF KnownInv, VersionInv
  <2>4. PurgedIsGone'
    BY <1>7, <2>3 DEF Finish, PurgedIsGone
  <2> QED BY <1>7, <2>1, <2>2, <2>4, FinishEnds
<1>8. ASSUME NEW r \in Requests, Store(r)
      PROVE  PurgeInv'
  <2>1. /\ Fetching(r) /\ got[r] # 0 /\ UNCHANGED <<path, got, version, gone, known>>
    BY <1>8 DEF Store, WriteInv, history
  <2>2. PICK v \in {0, got[r]} : Finish(r, v)
    BY <1>8 DEF Store
  <2>3. ASSUME NEW p \in Paths, cached'[p] # cached[p]
        PROVE  cached'[p].version = got[r] /\ writing[r] # "purged"
    BY <1>8, <2>3 DEF Store
  <2>4. VersionInv'
    BY <2>1, <2>3 DEF VersionInv
  <2>5. StoreInv'
    <3>1. writing[r] # "purged" => \A p \in Paths : got[r] \notin gone[p]
      BY <2>1 DEF StoreInv
    <3>2. ASSUME NEW p \in Paths, NEW q \in Requests, Fetching(q)', got[q] # 0,
                 writing'[q] # "purged"
          PROVE  /\ got[q] \notin gone[p]
                 /\ cached'[p] # None => got[q] # cached'[p].version
      <4>1. /\ q # r /\ Fetching(q) /\ got[q] # got[r] /\ writing[q] # "purged"
        BY <1>7, <2>1, <2>2, <3>2 DEF VersionInv
      <4> QED BY <2>3, <3>2, <4>1 DEF StoreInv
    <3>3. \A p \in Paths : cached'[p] # None => cached'[p].version \notin gone[p]
      BY <2>3, <3>1 DEF StoreInv
    <3> QED BY <2>1, <3>2, <3>3 DEF StoreInv
  <2> QED BY <1>7, <2>1, <2>2, <2>4, <2>5
<1>9. ASSUME NEW r \in Requests, Relay(r) \/ FetchFails(r)
      PROVE  PurgeInv'
  <2>1. Fetching(r) /\ UNCHANGED <<path, got, cached, version, gone, known>>
    BY <1>9 DEF Relay, FetchFails, history
  <2>2. PICK v \in {0, got[r]} : Finish(r, v)
    BY <1>9 DEF Relay, FetchFails
  <2>3. QuietStep
    BY <1>7, <2>1, <2>2 DEF QuietStep
  <2> QED BY <1>7, <2>1, <2>2, <2>3, QuietKeeps
<1>10. CASE Tick
  <2>1. UNCHANGED <<pc, path, got, writing, served, update, version, gone, known>>
    BY <1>10 DEF Tick, task, history
  <2>2. \A p \in Paths : cached'[p] # None =>
          cached[p] # None /\ cached'[p].version = cached[p].version
    BY <1>10, TickKeepsVersions
  <2>3. VersionInv'
    BY <2>1, <2>2 DEF VersionInv
  <2>4. \A r \in Requests : Fetching(r)' = Fetching(r)
    BY <2>1 DEF Fetching
  <2>5. StoreInv'
    BY <2>1, <2>2, <2>4 DEF StoreInv
  <2>6. FetchInv' /\ KnownInv' /\ PurgedIsGone'
    BY <2>1 DEF FetchInv, KnownInv, PurgedIsGone
  <2> QED BY <2>3, <2>5, <2>6
<1>11. CASE UNCHANGED vars
  BY <1>11 DEF vars, task, store, history, FetchInv, VersionInv, StoreInv, KnownInv,
     PurgedIsGone, Fetching
<1> QED BY <1>1, <1>2, <1>3, <1>4, <1>5, <1>6, <1>8, <1>9, <1>10, <1>11, KindsOfStep

\* No request that comes after a PURGE is answered with what it deleted, kept or
\* still being written.
THEOREM PurgedStaysGone == Spec => []PurgedIsGone
<1>1. PurgeInv => PurgedIsGone
  BY DEF PurgeInv
<1>2. TypeOK /\ LockInv /\ PurgeInv /\ [Next]_vars => PurgeInv'
  BY NextPurge
<1>3. TypeOK /\ LockInv /\ [Next]_vars => LockInv'
  BY NextLock
<1> QED BY LockStart, PurgeStart, TypeCorrect, <1>1, <1>2, <1>3, PTL DEF Spec

----------------------------------------------------------------------------
(***************************************************************************)
(* Why the lock keeps responses in order: while no lock has been taken     *)
(* over, what a holder has brought is newer than what its path has in the  *)
(* cache, since nobody else stores meanwhile, and it was sent on after     *)
(* that.                                                                   *)
(* A lock timeout is never forgotten: it strikes requests that fetch, or   *)
(* that are about to.                                                      *)
(***************************************************************************)
NoneOvertaken == \A r \in Requests : late[r] # "overtaken"
Holding(r)    == Fetching(r) /\ late[r] = None /\ got[r] # 0

LateInv  == \A r \in Requests : pc[r] \in {"idle", "lookup", "wait"} => late[r] = None
NewerInv == Proxy.lock /\ NoneOvertaken =>
  \A r \in Requests : Holding(r) /\ cached[path[r]] # None =>
    cached[path[r]].version <= got[r]
AgeInv   == LateInv /\ NewerInv

LEMMA AgeStart == Init => AgeInv
BY DEF Init, AgeInv, LateInv, NewerInv, Holding

\* A step that brings no holder and no entry keeps the order.
LEMMA NewerKept ==
  ASSUME NewerInv, Proxy' = Proxy, NoneOvertaken' => NoneOvertaken,
         \A r \in Requests : Holding(r)' =>
           Holding(r) /\ path'[r] = path[r] /\ got'[r] = got[r],
         \A r \in Requests : cached'[path[r]] # None =>
           cached[path[r]] # None
           /\ cached'[path[r]].version = cached[path[r]].version
  PROVE  NewerInv'
BY DEF NewerInv

LEMMA NextAge ==
  ASSUME TypeOK, LockInv, PurgeInv, AgeInv, [Next]_vars
  PROVE  AgeInv'
<1> USE DEF TypeOK, AgeInv, LockInv, TaskInv, UpdateInv, PurgeInv
<1>0. Proxy' = Proxy
  BY LessonKept, ProxyKept
<1>1. ASSUME NEW r \in Requests, NEW p \in Paths, NEW m \in BOOLEAN, Arrive(r, p, m)
      PROVE  AgeInv'
  <2>1. \A q \in Requests : Holding(q)' =>
          Holding(q) /\ path'[q] = path[q] /\ got'[q] = got[q]
    BY <1>1 DEF Arrive, Holding, Fetching, FetchInv
  <2>2. NewerInv'
    BY <1>0, <1>1, <2>1, NewerKept DEF Arrive, store, NoneOvertaken
  <2> QED BY <1>1, <2>2 DEF Arrive, LateInv
<1>2. ASSUME NEW r \in Requests, Purge(r)
      PROVE  AgeInv'
  <2>1. \A q \in Requests : Holding(q)' =>
          Holding(q) /\ path'[q] = path[q] /\ got'[q] = got[q]
    BY <1>2 DEF Purge, Holding, Fetching
  <2>2. NewerInv'
    BY <1>0, <1>2, <2>1, NewerKept DEF Purge, NoneOvertaken
  <2> QED BY <1>2, <2>2 DEF Purge, LateInv
<1>3. ASSUME NEW r \in Requests, Hit(r) \/ Stale(r) \/ Miss(r) \/ Wait(r) \/ Wake(r)
      PROVE  AgeInv'
  <2>1. /\ UNCHANGED <<path, got, cached, late>>
        /\ pc[r] \in {"lookup", "wait"}
        /\ \E x \in {"lookup", "wait", "fetch", "done"} : pc' = [pc EXCEPT ![r] = x]
        /\ \A q \in Requests \ {r} : update'[q] = update[q]
    BY <1>3 DEF Hit, Stale, Miss, Wait, Wake, Missed, Lookup, Serve, store
  <2>2. \A q \in Requests : Holding(q)' => Holding(q)
    BY <2>1 DEF Holding, Fetching, FetchInv
  <2>3. NewerInv'
    BY <1>0, <2>1, <2>2, NewerKept DEF NoneOvertaken
  <2>4. LateInv'
    BY <2>1 DEF LateInv
  <2> QED BY <2>3, <2>4
<1>4. ASSUME NEW r \in Requests, LockTimeout(r)
      PROVE  AgeInv'
  <2> DEFINE h == lock[path[r]]
  <2>1. h \in Requests /\ h # r /\ Fetching(h) /\ pc[r] = "wait"
    BY <1>4, CacheAssumption DEF LockTimeout, HolderInv, OwnerInv, Fetching
  <2>2. UNCHANGED <<path, got, cached, update>> /\ pc' = [pc EXCEPT ![r] = "fetch"]
    BY <1>4 DEF LockTimeout
  <2>3. CASE late' = [late EXCEPT ![r] = "bypass"]
    <3>1. NoneOvertaken' => NoneOvertaken
      BY <2>1, <2>3, CacheAssumption DEF NoneOvertaken, LateInv
    <3>2. \A q \in Requests : Holding(q)' => Holding(q)
      BY <2>1, <2>2, <2>3 DEF Holding, Fetching, FetchInv
    <3>3. NewerInv'
      BY <1>0, <2>2, <3>1, <3>2, NewerKept
    <3> QED BY <2>2, <2>3, <3>3 DEF LateInv
  <2>4. CASE late' = [late EXCEPT ![h] = "overtaken"]
    <3>1. ~NoneOvertaken'
      BY <2>1, <2>4 DEF NoneOvertaken
    <3>2. pc[h] \in {"fetch", "done"}
      BY <2>1 DEF Fetching
    <3> QED BY <2>1, <2>2, <2>4, <3>1, <3>2 DEF LateInv, NewerInv
  <2> QED BY <1>4, <2>3, <2>4 DEF LockTimeout
<1>5. ASSUME NEW r \in Requests, Answer(r)
      PROVE  AgeInv'
  <2>1. UNCHANGED <<pc, path, late, update, cached>> /\ got' = [got EXCEPT ![r] = version + 1]
    BY <1>5 DEF Answer, store
  <2>2. ASSUME NEW q \in Requests, Holding(q)', cached[path[q]] # None,
               Proxy.lock, NoneOvertaken
        PROVE  cached[path[q]].version <= got'[q]
    <3>1. CASE q = r
      <4>1. cached[path[q]].version \in 1..version
        BY <2>2 DEF VersionInv
      <4> QED BY <2>1, <3>1, <4>1
    <3>2. CASE q # r
      BY <2>1, <2>2, <3>2 DEF Holding, Fetching, NewerInv
    <3> QED BY <3>1, <3>2
  <2>3. NewerInv'
    BY <1>0, <2>1, <2>2 DEF NewerInv, NoneOvertaken
  <2> QED BY <2>1, <2>3 DEF LateInv
<1>6. ASSUME NEW r \in Requests, Store(r) \/ Relay(r) \/ FetchFails(r)
      PROVE  /\ LateInv' /\ UNCHANGED <<path, got, late>>
             /\ Fetching(r) /\ ~Fetching(r)'
             /\ \A q \in Requests \ {r} : Fetching(q)' = Fetching(q)
  <2>1. Fetching(r) /\ UNCHANGED <<path, got, late>> /\ \E v : Finish(r, v)
    BY <1>6 DEF Store, Relay, FetchFails, WriteInv
  <2>2. LateInv'
    BY <2>1 DEF Finish, LateInv
  <2> QED BY <2>1, <2>2, FinishEnds
<1>7. ASSUME NEW r \in Requests, Store(r)
      PROVE  AgeInv'
  <2>1. ASSUME Proxy.lock, NoneOvertaken, NEW q \in Requests, Holding(q)'
        PROVE  Holding(q) /\ cached'[path[q]] = cached[path[q]]
    <3>1. q # r /\ Holding(q)
      BY <1>6, <1>7, <2>1 DEF Holding
    <3>2. late[r] = None
      BY <1>7, <2>1 DEF Store, WriteInv, NoneOvertaken
    <3>3. path[q] # path[r]
      BY <1>6, <1>7, <2>1, <3>1, <3>2, Sole DEF Coalesced, Holding
    <3> QED BY <1>7, <3>1, <3>3 DEF Store
  <2>2. NewerInv'
    BY <1>0, <1>6, <1>7, <2>1 DEF NewerInv, NoneOvertaken
  <2> QED BY <1>6, <1>7, <2>2
<1>8. ASSUME NEW r \in Requests, Relay(r) \/ FetchFails(r)
      PROVE  AgeInv'
  <2>1. \A q \in Requests : Holding(q)' => Holding(q)
    BY <1>6, <1>8 DEF Holding
  <2>2. cached' = cached
    BY <1>8 DEF Relay, FetchFails
  <2>3. NewerInv'
    BY <1>0, <1>6, <1>8, <2>1, <2>2, NewerKept DEF NoneOvertaken
  <2> QED BY <1>6, <1>8, <2>3
<1>9. CASE Tick
  <2>1. UNCHANGED <<pc, path, got, late, update>>
    BY <1>9 DEF Tick, task
  <2>2. \A p \in Paths : cached'[p] # None =>
          cached[p] # None /\ cached'[p].version = cached[p].version
    BY <1>9, TickKeepsVersions
  <2>3. NewerInv'
    BY <1>0, <2>1, <2>2, NewerKept DEF NoneOvertaken, Holding, Fetching
  <2> QED BY <2>1, <2>3 DEF LateInv
<1>10. CASE UNCHANGED vars
  BY <1>0, <1>10, NewerKept DEF vars, task, store, NoneOvertaken, Holding, Fetching,
     LateInv
<1>11. ASSUME NEW r \in Requests, Admit(r)
      PROVE  AgeInv'
  <2>1. UNCHANGED <<pc, path, got, late, update, cached>>
    BY <1>11 DEF Admit
  <2>2. NewerInv'
    BY <1>0, <2>1, NewerKept DEF NoneOvertaken, Holding, Fetching
  <2> QED BY <2>1, <2>2 DEF LateInv
<1> QED BY <1>1, <1>2, <1>3, <1>4, <1>5, <1>7, <1>8, <1>9, <1>10, <1>11, KindsOfStep

\* Entries change by a purge, by a holder that stores and by growing older.
LEMMA StepStoresNewer ==
  ASSUME TypeOK, LockInv, PurgeInv, AgeInv, [Next]_vars, Proxy.lock, NoneOvertaken,
         NEW p \in Paths, cached[p] # None, cached'[p] # None
  PROVE  cached'[p].version >= cached[p].version
<1>1. cached[p].version \in Nat
  BY DEF PurgeInv, VersionInv
<1>2. ASSUME NEW r \in Requests, Store(r), cached'[p] # cached[p]
      PROVE  cached'[p].version >= cached[p].version
  <2>1. p = path[r] /\ cached'[p].version = got[r]
    BY <1>2 DEF Store, TypeOK
  <2>2. Holding(r)
    BY <1>2 DEF Store, LockInv, TaskInv, WriteInv, Holding, NoneOvertaken, TypeOK
  <2>3. cached[p].version <= got[r]
    BY <2>1, <2>2 DEF AgeInv, NewerInv
  <2> QED BY <1>1, <2>1, <2>3 DEF TypeOK
<1>3. CASE Tick
  BY <1>1, <1>3, TickKeepsVersions
<1>4. ASSUME NEW r \in Requests, Purge(r)
      PROVE  cached'[p] = cached[p]
  BY <1>4 DEF Purge, TypeOK
<1>5. CASE ~Tick /\ (\A r \in Requests : ~Store(r) /\ ~Purge(r))
  <2>1. cached' = cached
    BY <1>5, KindsOfStep DEF vars, Arrive, Hit, Stale, Miss, Wait, Wake, LockTimeout,
       Answer, Admit, Relay, FetchFails, store
  <2> QED BY <1>1, <2>1
<1> QED BY <1>1, <1>2, <1>3, <1>4, <1>5

\* Unless a lock is taken over no response replaces a newer one.
THEOREM NeverOlderContent == Spec => NoOlderContent
<1>1. TypeOK /\ LockInv /\ PurgeInv /\ AgeInv /\ [Next]_vars =>
        [Proxy.lock /\ (\A r \in Requests : late[r] # "overtaken") =>
           \A p \in Paths :
             cached[p] # None /\ cached'[p] # None =>
               cached'[p].version >= cached[p].version]_vars
  BY StepStoresNewer DEF NoneOvertaken
<1>2. TypeOK /\ LockInv /\ [Next]_vars => LockInv'
  BY NextLock
<1>3. TypeOK /\ LockInv /\ PurgeInv /\ [Next]_vars => PurgeInv'
  BY NextPurge
<1>4. TypeOK /\ LockInv /\ PurgeInv /\ AgeInv /\ [Next]_vars => AgeInv'
  BY NextAge
<1> QED BY LockStart, PurgeStart, AgeStart, TypeCorrect, <1>1, <1>2, <1>3, <1>4, PTL
        DEF Spec, NoOlderContent
----------------------------------------------------------------------------
(***************************************************************************)
(* Why nobody waits for ever: a request may look, wait and look again many *)
(* times over, but it is woken only when a fetch has ended, and each       *)
(* request fetches once.                                                   *)
(***************************************************************************)
\* What a request has ahead of it: to come, to find out whether it fetches, to
\* be answered by the origin, to begin to write, to end.
Stage(r) == IF pc[r] = "idle" THEN 5
            ELSE IF pc[r] \in {"lookup", "wait"} THEN 4
            ELSE IF ~Fetching(r) THEN 0
            ELSE IF got[r] = 0 THEN 3
            ELSE IF writing[r] = "none" THEN 2
            ELSE 1
\* What it can do about the lock while that stays as it is: be woken, and look.
Turn(r)  == IF pc[r] = "wait" /\ lock[path[r]] = None THEN 2
            ELSE IF pc[r] = "lookup" THEN 1
            ELSE 0

\* All that is left to do, in stages and in turns.
StagesLeft == {x \in Requests \X (1..5) : x[2] <= Stage(x[1])}
TurnsLeft  == {x \in Requests \X (1..2) : x[2] <= Turn(x[1])}

LEMMA StageType ==
  ASSUME NEW r \in Requests
  PROVE  Stage(r) \in 0..5 /\ Turn(r) \in 0..2
BY DEF Stage, Turn

LEMMA LeftFinite ==
  /\ IsFiniteSet(Requests \X (1..5)) /\ IsFiniteSet(Requests \X (1..2))
  /\ Cardinality(Requests \X (1..5)) = Cardinality(Requests) * 5
  /\ Cardinality(Requests \X (1..2)) = Cardinality(Requests) * 2
<1>1. IsFiniteSet(1..5) /\ Cardinality(1..5) = 5 /\ IsFiniteSet(1..2) /\ Cardinality(1..2) = 2
  <2>1. /\ IsFiniteSet(1..5) /\ Cardinality(1..5) = IF 1 > 5 THEN 0 ELSE 5 - 1 + 1
        /\ IsFiniteSet(1..2) /\ Cardinality(1..2) = IF 1 > 2 THEN 0 ELSE 2 - 1 + 1
    <3>1. 1 \in Int /\ 2 \in Int /\ 5 \in Int
      OBVIOUS
    <3> QED BY <3>1, FS_Interval, Zenon
  <2> QED BY <2>1
<1>2. IsFiniteSet(Requests)
  BY RequestsAssumption
<1> QED BY <1>1, <1>2, FS_Product

LEMMA FewerLeft ==
  ASSUME NEW S, NEW T, IsFiniteSet(S), T \subseteq S, T # S
  PROVE  Cardinality(T) < Cardinality(S)
<1>1. /\ IsFiniteSet(T) /\ Cardinality(T) <= Cardinality(S)
      /\ Cardinality(T) \in Nat /\ Cardinality(S) \in Nat
      /\ Cardinality(S) = Cardinality(T) => S = T
  BY FS_Subset, FS_CardinalityType
<1> QED BY <1>1

\* What one step of r does to the stages and turns of all requests.
LEMMA StageStep ==
  ASSUME TypeOK, LockInv, FetchInv, NEW r \in Requests,
         Step(r) \/ \E p \in Paths, m \in BOOLEAN : Arrive(r, p, m)
  PROVE  /\ \A q \in Requests \ {r} : Stage(q)' = Stage(q)
         /\ \/ Stage(r)' < Stage(r)
            \/ /\ Stage(r)' = Stage(r) /\ Turn(r)' < Turn(r)
               /\ \A q \in Requests \ {r} : Turn(q)' = Turn(q)
<1>0. /\ DOMAIN pc = Requests /\ DOMAIN update = Requests /\ DOMAIN got = Requests
      /\ DOMAIN path = Requests /\ DOMAIN writing = Requests
      /\ \A q \in Requests : update[q] => pc[q] = "done"
      /\ \A q \in Requests : got[q] \in Nat
      /\ pc[r] \in {"idle", "lookup", "wait"} => got[r] = 0
      /\ got[r] = 0 => writing[r] = "none"
  BY DEF TypeOK, LockInv, TaskInv, UpdateInv, WriteInv, FetchInv
<1>1. ASSUME \A q \in Requests \ {r} :
               /\ pc'[q] = pc[q] /\ update'[q] = update[q] /\ got'[q] = got[q]
               /\ (writing'[q] = "none") = (writing[q] = "none")
      PROVE  \A q \in Requests \ {r} : Stage(q)' = Stage(q)
  BY <1>1 DEF Stage, Fetching
<1>2. ASSUME NEW p \in Paths, NEW m \in BOOLEAN, Arrive(r, p, m)
      PROVE  /\ \A q \in Requests \ {r} : Stage(q)' = Stage(q)
             /\ Stage(r) = 5 /\ Stage(r)' = 4
  BY <1>0, <1>1, <1>2 DEF Arrive, Stage
<1>3. ASSUME Purge(r) \/ Hit(r)
      PROVE  /\ \A q \in Requests \ {r} : Stage(q)' = Stage(q)
             /\ Stage(r) = 4 /\ Stage(r)' = 0
  <2>1. /\ pc[r] = "lookup" /\ pc' = [pc EXCEPT ![r] = "done"]
        /\ UNCHANGED <<update, got>>
    BY <1>3 DEF Purge, Hit, Lookup, Serve
  <2>2. \A q \in Requests : (writing'[q] = "none") = (writing[q] = "none")
    BY <1>3 DEF Purge, Hit, Writers
  <2>3. \A q \in Requests \ {r} : Stage(q)' = Stage(q)
    BY <1>0, <1>1, <2>1, <2>2
  <2> QED BY <1>0, <2>1, <2>3 DEF Stage, Fetching
<1>4. ASSUME Stale(r)
      PROVE  /\ \A q \in Requests \ {r} : Stage(q)' = Stage(q)
             /\ Stage(r) = 4 /\ Stage(r)' \in {0, 3}
  <2>1. /\ pc[r] = "lookup" /\ pc' = [pc EXCEPT ![r] = "done"]
        /\ UNCHANGED <<got, writing>>
        /\ update' = update \/ update' = [update EXCEPT ![r] = TRUE]
    BY <1>4 DEF Stale, Lookup, Serve
  <2>2. \A q \in Requests \ {r} : Stage(q)' = Stage(q)
    BY <1>0, <1>1, <2>1
  <2> QED BY <1>0, <2>1, <2>2 DEF Stage, Fetching
<1>5. ASSUME Miss(r) \/ LockTimeout(r)
      PROVE  /\ \A q \in Requests \ {r} : Stage(q)' = Stage(q)
             /\ Stage(r) = 4 /\ Stage(r)' = 3
  <2>1. /\ pc[r] \in {"lookup", "wait"} /\ pc' = [pc EXCEPT ![r] = "fetch"]
        /\ UNCHANGED <<update, got, writing>>
    BY <1>5 DEF Miss, Missed, Lookup, LockTimeout
  <2> QED BY <1>0, <1>1, <2>1 DEF Stage, Fetching
<1>6. ASSUME Answer(r)
      PROVE  /\ \A q \in Requests \ {r} : Stage(q)' = Stage(q)
             /\ Stage(r) = 3 /\ Stage(r)' = 2
  <2>1. /\ Fetching(r) /\ got[r] = 0 /\ UNCHANGED <<pc, update, writing>>
        /\ got' = [got EXCEPT ![r] = version + 1] /\ version \in Nat
    BY <1>6 DEF Answer, TypeOK
  <2>2. got'[r] # 0 /\ \A q \in Requests \ {r} : got'[q] = got[q]
    BY <1>0, <2>1
  <2>3. pc[r] \notin {"idle", "lookup", "wait"} /\ writing[r] = "none"
    BY <1>0, <2>1 DEF Fetching
  <2> QED BY <1>1, <2>1, <2>2, <2>3 DEF Stage, Fetching
<1>7. ASSUME Admit(r)
      PROVE  /\ \A q \in Requests \ {r} : Stage(q)' = Stage(q)
             /\ Stage(r) = 2 /\ Stage(r)' = 1
  <2>1. /\ Fetching(r) /\ got[r] # 0 /\ UNCHANGED <<pc, update, got>>
        /\ writing[r] = "none" /\ writing' = [writing EXCEPT ![r] = "open"]
    BY <1>7 DEF Admit
  <2>2. pc[r] \notin {"idle", "lookup", "wait"}
    BY <1>0, <2>1
  <2>3. writing'[r] # "none" /\ \A q \in Requests \ {r} : writing'[q] = writing[q]
    BY <1>0, <2>1
  <2> QED BY <1>1, <2>1, <2>2, <2>3 DEF Stage, Fetching
<1>8. ASSUME Store(r) \/ Relay(r) \/ FetchFails(r)
      PROVE  /\ \A q \in Requests \ {r} : Stage(q)' = Stage(q)
             /\ Stage(r) \in {1, 2, 3} /\ Stage(r)' = 0
  <2>1. /\ Fetching(r) /\ got' = got /\ update' = [update EXCEPT ![r] = FALSE]
        /\ IF update[r] THEN pc' = pc ELSE pc' = [pc EXCEPT ![r] = "done"]
        /\ writing' = [writing EXCEPT ![r] = "none"]
    BY <1>8 DEF Store, Relay, FetchFails, Finish, LockInv, TaskInv, WriteInv
  <2>2. pc[r] \notin {"idle", "lookup", "wait"} /\ pc'[r] = "done" /\ ~update'[r]
    BY <1>0, <2>1 DEF Fetching
  <2>3. \A q \in Requests \ {r} : /\ pc'[q] = pc[q] /\ update'[q] = update[q]
                                  /\ got'[q] = got[q] /\ writing'[q] = writing[q]
    BY <1>0, <2>1
  <2> QED BY <1>1, <2>1, <2>2, <2>3 DEF Stage, Fetching
<1>9. ASSUME Wait(r) \/ Wake(r)
      PROVE  /\ \A q \in Requests \ {r} : Stage(q)' = Stage(q) /\ Turn(q)' = Turn(q)
             /\ Stage(r)' = Stage(r)
             /\ \/ Turn(r) = 1 /\ Turn(r)' = 0
                \/ Turn(r) = 2 /\ Turn(r)' = 1
  <2>1. /\ UNCHANGED <<update, got, writing, path, lock>>
        /\ \/ /\ pc[r] = "lookup" /\ lock[path[r]] # None
              /\ pc' = [pc EXCEPT ![r] = "wait"]
           \/ /\ pc[r] = "wait" /\ lock[path[r]] = None
              /\ pc' = [pc EXCEPT ![r] = "lookup"]
    BY <1>9 DEF Wait, Wake, Missed, Lookup, Free, store
  <2>2. \A q \in Requests \ {r} : pc'[q] = pc[q]
    BY <1>0, <2>1
  <2>3. \A q \in Requests \ {r} : Stage(q)' = Stage(q) /\ Turn(q)' = Turn(q)
    BY <2>1, <2>2 DEF Stage, Turn, Fetching
  <2> QED BY <1>0, <2>1, <2>3 DEF Stage, Turn
<1> QED BY <1>2, <1>3, <1>4, <1>5, <1>6, <1>7, <1>8, <1>9 DEF Step

\* There are never more than five stages and two turns left per request.
THEOREM RoundsAlwaysBounded ==
  Spec => [](/\ Cardinality(StagesLeft) \in 0..(Cardinality(Requests) * 5)
             /\ Cardinality(TurnsLeft) \in 0..(Cardinality(Requests) * 2))
<1>1. /\ Cardinality(StagesLeft) \in 0..(Cardinality(Requests) * 5)
      /\ Cardinality(TurnsLeft) \in 0..(Cardinality(Requests) * 2)
  <2>1. StagesLeft \subseteq Requests \X (1..5) /\ TurnsLeft \subseteq Requests \X (1..2)
    BY DEF StagesLeft, TurnsLeft
  <2>2. /\ Cardinality(StagesLeft) \in Nat /\ Cardinality(TurnsLeft) \in Nat
        /\ Cardinality(StagesLeft) <= Cardinality(Requests \X (1..5))
        /\ Cardinality(TurnsLeft) <= Cardinality(Requests \X (1..2))
    BY <2>1, LeftFinite, FS_Subset, FS_CardinalityType
  <2>3. Cardinality(Requests) \in Nat
    BY RequestsAssumption, FS_CardinalityType
  <2> QED BY <2>2, <2>3, LeftFinite
<1> QED BY <1>1, PTL

\* Every step of a request uses up a stage or, with all stages as they were, a
\* turn; time uses up neither.  So no chain of holders that fail, time out or
\* are overtaken can send the requests round for ever: between two ticks and
\* over all time they take finitely many steps.
RoundsRunOut ==
  [][/\ (\E r \in Requests : Step(r) \/ \E p \in Paths, m \in BOOLEAN : Arrive(r, p, m)) =>
          \/ Cardinality(StagesLeft)' < Cardinality(StagesLeft)
          \/ /\ Cardinality(StagesLeft)' = Cardinality(StagesLeft)
             /\ Cardinality(TurnsLeft)' < Cardinality(TurnsLeft)
     /\ Tick => UNCHANGED <<StagesLeft, TurnsLeft>>]_vars

\* No request is sent from lookup to wait and back for ever, whatever the others
\* do with the locks (the safety half of Ends).
THEOREM RoundsAlwaysRunOut == Spec => RoundsRunOut
<1>1. ASSUME TypeOK, LockInv, FetchInv, NEW r \in Requests,
             Step(r) \/ \E p \in Paths, m \in BOOLEAN : Arrive(r, p, m)
      PROVE  \/ Cardinality(StagesLeft)' < Cardinality(StagesLeft)
             \/ /\ Cardinality(StagesLeft)' = Cardinality(StagesLeft)
                /\ Cardinality(TurnsLeft)' < Cardinality(TurnsLeft)
  <2>1. /\ \A q \in Requests \ {r} : Stage(q)' = Stage(q)
        /\ \/ Stage(r)' < Stage(r)
           \/ /\ Stage(r)' = Stage(r) /\ Turn(r)' < Turn(r)
              /\ \A q \in Requests \ {r} : Turn(q)' = Turn(q)
    BY <1>1, StageStep
  <2>2. /\ Stage(r) \in 0..5 /\ Turn(r) \in 0..2
        /\ Stage(r)' \in 0..5 /\ Turn(r)' \in 0..2
    BY DEF Stage, Turn
  <2>3. IsFiniteSet(StagesLeft) /\ IsFiniteSet(TurnsLeft)
    <3>1. StagesLeft \subseteq Requests \X (1..5) /\ TurnsLeft \subseteq Requests \X (1..2)
      BY DEF StagesLeft, TurnsLeft
    <3> QED BY <3>1, LeftFinite, FS_Subset
  <2>4. CASE Stage(r)' < Stage(r)
    <3>1. PICK n \in 0..5 : Stage(r)' = n
      BY <2>2
    <3>2. PICK k \in 0..5 : Stage(r) = k
      BY <2>2
    <3>3. n < k
      BY <2>4, <3>1, <3>2
    <3>4. <<r, k>> \in StagesLeft /\ <<r, k>> \notin StagesLeft'
      BY <3>1, <3>2, <3>3 DEF StagesLeft
    <3>5. StagesLeft' \subseteq StagesLeft
      <4> SUFFICES ASSUME NEW x \in StagesLeft' PROVE x \in StagesLeft
        OBVIOUS
      <4>1. x \in Requests \X (1..5) /\ x[2] <= Stage(x[1])'
        BY DEF StagesLeft
      <4>2. CASE x[1] = r
        BY <3>1, <3>2, <3>3, <4>1, <4>2 DEF StagesLeft
      <4>3. CASE x[1] # r
        BY <2>1, <4>1, <4>3 DEF StagesLeft
      <4> QED BY <4>2, <4>3
    <3> QED BY <2>3, <3>4, <3>5, FewerLeft
  <2>5. CASE /\ Stage(r)' = Stage(r) /\ Turn(r)' < Turn(r)
             /\ \A q \in Requests \ {r} : Turn(q)' = Turn(q)
    <3>1. PICK n \in 0..2 : Turn(r)' = n
      BY <2>2
    <3>2. PICK k \in 0..2 : Turn(r) = k
      BY <2>2
    <3>3. n < k
      BY <2>5, <3>1, <3>2
    <3>4. <<r, k>> \in TurnsLeft /\ <<r, k>> \notin TurnsLeft'
      BY <3>1, <3>2, <3>3 DEF TurnsLeft
    <3>5. TurnsLeft' \subseteq TurnsLeft
      <4> SUFFICES ASSUME NEW x \in TurnsLeft' PROVE x \in TurnsLeft
        OBVIOUS
      <4>1. x \in Requests \X (1..2) /\ x[2] <= Turn(x[1])'
        BY DEF TurnsLeft
      <4>2. CASE x[1] = r
        BY <3>1, <3>2, <3>3, <4>1, <4>2 DEF TurnsLeft
      <4>3. CASE x[1] # r
        BY <2>5, <4>1, <4>3 DEF TurnsLeft
      <4> QED BY <4>2, <4>3
    <3>6. StagesLeft' = StagesLeft
      <4>1. \A q \in Requests : Stage(q)' = Stage(q)
        BY <2>1, <2>5
      <4>2. \A x \in Requests \X (1..5) : Stage(x[1])' = Stage(x[1])
        BY <4>1
      <4> QED BY <4>2 DEF StagesLeft
    <3> QED BY <2>3, <3>4, <3>5, <3>6, FewerLeft
  <2> QED BY <2>1, <2>4, <2>5
<1>2. ASSUME Tick PROVE UNCHANGED <<StagesLeft, TurnsLeft>>
  <2>1. UNCHANGED <<pc, path, got, writing, update, lock>>
    BY <1>2 DEF Tick, task
  <2> QED BY <2>1 DEF StagesLeft, TurnsLeft, Stage, Turn, Fetching
<1>3. TypeOK /\ LockInv /\ PurgeInv /\ [Next]_vars =>
        [/\ (\E r \in Requests : Step(r) \/ \E p \in Paths, m \in BOOLEAN : Arrive(r, p, m)) =>
              \/ Cardinality(StagesLeft)' < Cardinality(StagesLeft)
              \/ /\ Cardinality(StagesLeft)' = Cardinality(StagesLeft)
                 /\ Cardinality(TurnsLeft)' < Cardinality(TurnsLeft)
         /\ Tick => UNCHANGED <<StagesLeft, TurnsLeft>>]_vars
  BY <1>1, <1>2 DEF PurgeInv
<1>4. TypeOK /\ LockInv /\ [Next]_vars => LockInv'
  BY NextLock
<1>5. TypeOK /\ LockInv /\ PurgeInv /\ [Next]_vars => PurgeInv'
  BY NextPurge
<1> QED BY LockStart, PurgeStart, TypeCorrect, <1>3, <1>4, <1>5, PTL DEF Spec, RoundsRunOut
=============================================================================
