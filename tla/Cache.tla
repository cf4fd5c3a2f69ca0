------------------------------- MODULE Cache -------------------------------
(***************************************************************************)
(* The caching proxies of lessons 43 to 47, one of which the process runs: *)
(* requests look an entry up, fetch it, wait for the request that fetches  *)
(* it, are answered with a stale entry while it is refreshed, or purge it. *)
(*                                                                         *)
(* Pingora's cache is external, modelled as the lessons use it: a lookup   *)
(* that misses takes the key's lock or waits for its holder; the lock is   *)
(* free when the holder's response begins or its fetch fails, and one that *)
(* is older than its timeout no longer keeps others from fetching.         *)
(* MemCache shows an entry from its header on, while the body is written,  *)
(* and keeps it when the body is complete.                                 *)
(*                                                                         *)
(* Time passes in ticks of 5 seconds, and never between the header and the *)
(* body of a response: the origins send both in one write_all.             *)
(***************************************************************************)
EXTENDS Integers, FiniteSets

CONSTANTS
  Requests,
  AgeCap,      \* ages are counted up to this many ticks
  None

ASSUME CacheAssumption ==
  AgeCap \in Nat /\ None \notin Requests \cup {"bypass", "overtaken"}
ASSUME RequestsAssumption == IsFiniteSet(Requests)

VARIABLES
  lesson,      \* the example that runs
  \* a request
  pc, path, purges,
  late,        \* what a lock timeout made of it: None, "bypass" (it fetches
               \* without the cache) or "overtaken" (it lost its lock)
  got,         \* the version of the content it has from the origin
  writing,     \* its response is not being written into the cache ("none"), is
               \* and can be read ("open"), or was purged meanwhile ("purged")
  served,      \* the version it was answered with, 0 for none
  update,      \* the background update it started is under way
  \* the process
  cached,      \* path -> None or [version, age, ttl, swr]
  lock,        \* path -> the request that holds its lock
  lockAge,
  version,     \* CONTENT_VERSION of the origin
  \* history
  gone,        \* path -> versions that were purged
  known        \* request -> what had been purged when it came

task    == <<pc, path, purges, late, got, writing, served, update>>
store   == <<cached, lock, lockAge>>
history == <<gone, known>>
vars    == <<lesson, task, store, version, history>>

Lessons == 43..47
Paths   == {"/", "/short", "/long", "/no_store"}

----------------------------------------------------------------------------
(* What the lessons configure, and what their origins answer: the ticks    *)
(* for which a response is fresh (None: not to be stored) and for which it *)
(* may then be served stale.                                               *)

\* A proxy: whether it has a cache lock, hears PURGE, authorizes stale answers.
CacheProxy        == [lock |-> FALSE, purge |-> FALSE, stale |-> FALSE]
CacheControlProxy == [lock |-> FALSE, purge |-> FALSE, stale |-> FALSE]
CacheLockProxy    == [lock |-> TRUE,  purge |-> FALSE, stale |-> FALSE]
PurgeProxy        == [lock |-> FALSE, purge |-> TRUE,  stale |-> FALSE]
SWRProxy          == [lock |-> TRUE,  purge |-> FALSE, stale |-> TRUE]

MockUpstream      == [ttl |-> 12, swr |-> 0]
DynamicUpstream(p) ==
  [ttl |-> CASE p = "/short" -> 1 [] p = "/long" -> 12
             [] p = "/no_store" -> None [] OTHER -> 2,
   swr |-> 0]
SlowUpstream      == [ttl |-> 12, swr |-> 0]
PurgedUpstream    == [ttl |-> 60, swr |-> 0]
VersionedUpstream == [ttl |-> 1, swr |-> 2]

Proxy == CASE lesson = 43 -> CacheProxy      [] lesson = 44 -> CacheControlProxy
           [] lesson = 45 -> CacheLockProxy  [] lesson = 46 -> PurgeProxy
           [] lesson = 47 -> SWRProxy
Origin(p) == CASE lesson = 43 -> MockUpstream [] lesson = 44 -> DynamicUpstream(p)
               [] lesson = 45 -> SlowUpstream [] lesson = 46 -> PurgedUpstream
               [] lesson = 47 -> VersionedUpstream
----------------------------------------------------------------------------
Init ==
  /\ lesson \in Lessons
  /\ pc = [r \in Requests |-> "idle"]
  /\ path = [r \in Requests |-> "/"]
  /\ purges = [r \in Requests |-> FALSE]
  /\ late = [r \in Requests |-> None]
  /\ got = [r \in Requests |-> 0]
  /\ writing = [r \in Requests |-> "none"]
  /\ served = [r \in Requests |-> 0]
  /\ update = [r \in Requests |-> FALSE]
  /\ cached = [p \in Paths |-> None]
  /\ lock = [p \in Paths |-> None]
  /\ lockAge = [p \in Paths |-> 0]
  /\ version = 0
  /\ gone = [p \in Paths |-> {}]
  /\ known = [r \in Requests |-> {}]

\* A request comes in; its path is the cache key.  The paths only differ in
\* lesson 44, the method only matters in lesson 46.
Arrive(r, p, m) ==
  /\ pc[r] = "idle"
  /\ lesson # 44 => p = "/"
  /\ lesson # 46 => ~m
  /\ pc' = [pc EXCEPT ![r] = "lookup"]
  /\ path' = [path EXCEPT ![r] = p]
  /\ purges' = [purges EXCEPT ![r] = m]
  /\ known' = [known EXCEPT ![r] = gone[p]]
  /\ UNCHANGED <<lesson, late, got, writing, served, update, store, version, gone>>

\* The responses that are being written for p, and all the content there is.
Writers(p) == {w \in Requests : writing[w] = "open" /\ path[w] = p}
Content(p) == {got[w] : w \in Writers(p)} \cup
              (IF cached[p] = None THEN {} ELSE {cached[p].version})

\* (Mutant: what is being written stays, and is kept.)
MutantPurgeKept(r) ==
  /\ pc[r] = "lookup" /\ Proxy.purge /\ purges[r]
  /\ pc' = [pc EXCEPT ![r] = "done"]
  /\ cached' = [cached EXCEPT ![path[r]] = None]
  /\ gone' = [gone EXCEPT ![path[r]] = @ \cup Content(path[r])]
  /\ UNCHANGED <<lesson, path, purges, late, got, writing, served, update, lock,
                 lockAge, version, known>>

\* is_purge: the entry is deleted, and those that are being written, too; the
\* request goes no further.
Purge(r) ==
  /\ pc[r] = "lookup" /\ Proxy.purge /\ purges[r]
  /\ pc' = [pc EXCEPT ![r] = "done"]
  /\ cached' = [cached EXCEPT ![path[r]] = None]
  /\ writing' = [w \in Requests |->
                   IF w \in Writers(path[r]) THEN "purged" ELSE writing[w]]
  /\ gone' = [gone EXCEPT ![path[r]] = @ \cup Content(path[r])]
  /\ UNCHANGED <<lesson, path, purges, late, got, served, update, lock, lockAge,
                 version, known>>

Lookup(r) == pc[r] = "lookup" /\ ~(Proxy.purge /\ purges[r])

\* What a lookup finds: an entry that is being written, which is as new as can
\* be, before the one that is kept, which is fresh or may be served stale.
Fresh(r)    == LET e == cached[path[r]] IN
               Writers(path[r]) # {} \/ (e # None /\ e.age < e.ttl)
InWindow(r) == LET e == cached[path[r]] IN
               /\ Writers(path[r]) = {} /\ e # None
               /\ e.age >= e.ttl /\ e.age < e.ttl + e.swr
Found(r)    == LET W == Writers(path[r]) IN
               IF W # {} THEN {got[w] : w \in W} ELSE {cached[path[r]].version}

\* (Mutant: any lookup that misses fetches.)
MutantFree(p) == TRUE
Free(p) == Proxy.lock => lock[p] = None

Take(r) == IF Proxy.lock
           THEN /\ lock' = [lock EXCEPT ![path[r]] = r]
                /\ lockAge' = [lockAge EXCEPT ![path[r]] = 0]
           ELSE UNCHANGED <<lock, lockAge>>

Serve(r) ==
  /\ pc' = [pc EXCEPT ![r] = "done"]
  /\ \E v \in Found(r) : served' = [served EXCEPT ![r] = v]

Hit(r) ==
  /\ Lookup(r) /\ Fresh(r)
  /\ Serve(r)
  /\ UNCHANGED <<lesson, path, purges, late, got, writing, update, store, version,
                 history>>

\* should_serve_stale authorizes the answer; the request that gets the lock
\* starts the update.
Stale(r) ==
  /\ Lookup(r) /\ InWindow(r) /\ Proxy.stale
  /\ Serve(r)
  /\ IF Free(path[r])
     THEN Take(r) /\ update' = [update EXCEPT ![r] = TRUE]
     ELSE UNCHANGED <<lock, lockAge, update>>
  /\ UNCHANGED <<lesson, path, purges, late, got, writing, cached, version, history>>

Missed(r) == Lookup(r) /\ ~Fresh(r) /\ ~(InWindow(r) /\ Proxy.stale)

\* Nothing usable: the request fetches, or waits for the one that does.
Miss(r) ==
  /\ Missed(r) /\ Free(path[r])
  /\ pc' = [pc EXCEPT ![r] = "fetch"]
  /\ Take(r)
  /\ UNCHANGED <<lesson, path, purges, late, got, writing, served, update, cached,
                 version, history>>

Wait(r) ==
  /\ Missed(r) /\ ~Free(path[r])
  /\ pc' = [pc EXCEPT ![r] = "wait"]
  /\ UNCHANGED <<lesson, path, purges, late, got, writing, served, update, store,
                 version, history>>

\* The holder has finished: look again.
Wake(r) ==
  /\ pc[r] = "wait" /\ lock[path[r]] = None
  /\ pc' = [pc EXCEPT ![r] = "lookup"]
  /\ UNCHANGED <<lesson, path, purges, late, got, writing, served, update, store,
                 version, history>>

\* The lock is older than CACHE_LOCK's 5 seconds: the request fetches without
\* the cache, or takes the lock over from a holder that goes on.
LockTimeout(r) ==
  /\ pc[r] = "wait" /\ lock[path[r]] # None /\ lockAge[path[r]] >= 1
  /\ pc' = [pc EXCEPT ![r] = "fetch"]
  /\ \/ /\ late' = [late EXCEPT ![r] = "bypass"]
        /\ UNCHANGED <<lock, lockAge>>
     \/ /\ late' = [late EXCEPT ![lock[path[r]]] = "overtaken"]
        /\ Take(r)
  /\ UNCHANGED <<lesson, path, purges, got, writing, served, update, cached,
                 version, history>>

Fetching(r) == pc[r] = "fetch" \/ update[r]

\* The origin answers: the content gets its version.
Answer(r) ==
  /\ Fetching(r) /\ got[r] = 0
  /\ version' = version + 1
  /\ got' = [got EXCEPT ![r] = version + 1]
  /\ UNCHANGED <<lesson, pc, path, purges, late, writing, served, update, store,
                 history>>

\* The request's fetch or its update is over.
Finish(r, v) ==
  /\ writing' = [writing EXCEPT ![r] = "none"]
  /\ update' = [update EXCEPT ![r] = FALSE]
  /\ IF update[r] THEN UNCHANGED <<pc, served>>
     ELSE /\ pc' = [pc EXCEPT ![r] = "done"]
          /\ served' = [served EXCEPT ![r] = v]

\* (Mutant: a fetch that fails keeps its lock.)
MutantRelease(r) ==
  lock' = [lock EXCEPT ![path[r]] = IF @ = r /\ got[r] # 0 THEN None ELSE @]
\* Its lock, if it is still its own, is freed.
Release(r) ==
  lock' = [lock EXCEPT ![path[r]] = IF @ = r THEN None ELSE @]

\* response_cache_filter lets the response be kept for the time its
\* Cache-Control names, unless that forbids it or the request is past its lock.
Storable(r) == Origin(path[r]).ttl # None /\ late[r] # "bypass"

\* The header reaches the proxy: the entry can be read, and nobody needs to
\* wait any longer.
Admit(r) ==
  /\ Fetching(r) /\ got[r] # 0 /\ writing[r] = "none" /\ Storable(r)
  /\ writing' = [writing EXCEPT ![r] = "open"]
  /\ Release(r)
  /\ UNCHANGED <<lesson, pc, path, purges, late, got, served, update, cached,
                 lockAge, version, history>>

\* The body is complete: the entry is kept.  One that was purged is not there to
\* be finished: it is not kept, and its own client may be left without the end.
Store(r) ==
  /\ writing[r] # "none"
  /\ LET o == Origin(path[r]) IN
     cached' = [cached EXCEPT ![path[r]] =
                  IF writing[r] = "purged" THEN @
                  ELSE [version |-> got[r], age |-> 0, ttl |-> o.ttl, swr |-> o.swr]]
  /\ \E v \in {got[r]} \cup (IF writing[r] = "purged" THEN {0} ELSE {}) : Finish(r, v)
  /\ UNCHANGED <<lesson, path, purges, late, got, lock, lockAge, version, history>>

\* A response that is not to be kept passes through.
Relay(r) ==
  /\ Fetching(r) /\ got[r] # 0 /\ ~Storable(r)
  /\ Finish(r, got[r])
  /\ Release(r)
  /\ UNCHANGED <<lesson, path, purges, late, got, cached, lockAge, version, history>>

\* The fetch fails, before the header or behind it: the client gets an error
\* (should_serve_stale refuses a stale answer for an error), what was written of
\* the entry is dropped, and whoever waits looks again.
FetchFails(r) ==
  /\ Fetching(r)
  /\ Finish(r, 0)
  /\ Release(r)
  /\ UNCHANGED <<lesson, path, purges, late, got, cached, lockAge, version, history>>

Tick ==
  /\ \A r \in Requests : writing[r] = "none"
  /\ cached' = [p \in Paths |->
                  IF cached[p] = None \/ cached[p].age = AgeCap THEN cached[p]
                  ELSE [cached[p] EXCEPT !.age = @ + 1]]
  /\ lockAge' = [p \in Paths |-> IF lock[p] = None THEN 0 ELSE 1]
  /\ UNCHANGED <<lesson, task, lock, version, history>>

Step(r) ==
  \/ Purge(r) \/ Hit(r) \/ Stale(r) \/ Miss(r) \/ Wait(r) \/ Wake(r)
  \/ LockTimeout(r) \/ Answer(r) \/ Admit(r) \/ Store(r) \/ Relay(r)
  \/ FetchFails(r)

Next ==
  \/ \E r \in Requests, p \in Paths, m \in BOOLEAN : Arrive(r, p, m)
  \/ \E r \in Requests : Step(r)
  \/ Tick

Spec == Init /\ [][Next]_vars

\* Tasks are polled, and the mocks answer or the connection fails.
FairSpec == Spec /\ \A r \in Requests : WF_vars(Step(r))
----------------------------------------------------------------------------
Entries == [version : Nat, age : 0..AgeCap, ttl : Nat, swr : Nat] \cup {None}

\* The types of the cache, its locks and the requests that use it.
TypeOK ==
  /\ lesson \in Lessons
  /\ pc \in [Requests -> {"idle", "lookup", "wait", "fetch", "done"}]
  /\ path \in [Requests -> Paths]
  /\ purges \in [Requests -> BOOLEAN]
  /\ late \in [Requests -> {None, "bypass", "overtaken"}]
  /\ got \in [Requests -> Nat]
  /\ writing \in [Requests -> {"none", "open", "purged"}]
  /\ served \in [Requests -> Nat]
  /\ update \in [Requests -> BOOLEAN]
  /\ cached \in [Paths -> Entries]
  /\ lock \in [Paths -> Requests \cup {None}]
  /\ lockAge \in [Paths -> 0..1]
  /\ version \in Nat
  /\ gone \in [Paths -> SUBSET Nat]
  /\ known \in [Requests -> SUBSET Nat]

\* Request coalescing: with a cache lock the origin gets one request per path
\* at a time, however lookups, failures, updates and purges interleave, except
\* for those whose lock timed out; and a lock is always held by a request that
\* is fetching its path, so that nobody waits for nothing.
Coalesced ==
  /\ Proxy.lock =>
       \A r1, r2 \in Requests :
         Fetching(r1) /\ Fetching(r2) /\ path[r1] = path[r2]
         /\ late[r1] = None /\ late[r2] = None => r1 = r2
  /\ \A p \in Paths :
       lock[p] # None => Fetching(lock[p]) /\ path[lock[p]] = p

\* Unless it is taken over the lock also keeps an older response from replacing
\* a newer one that overtook it on the way from the origin.
NoOlderContent ==
  [][Proxy.lock /\ (\A r \in Requests : late[r] # "overtaken") =>
       \A p \in Paths :
         cached[p] # None /\ cached'[p] # None =>
           cached'[p].version >= cached[p].version]_vars

\* PURGE takes effect at once: no request that comes after it is answered with
\* what it deleted, though it fell between the header and the body of a response
\* that was being written.  (A fetch whose header comes after the purge is not
\* affected by it.)
PurgedIsGone == \A r \in Requests : served[r] \notin known[r]

\* Every request is answered or fails: no chain of lock holders that fail or
\* time out keeps one waiting for ever.
Ends == \A r \in Requests : pc[r] = "lookup" ~> pc[r] = "done"
=============================================================================
