------------------------------- MODULE Router -------------------------------
(***************************************************************************)
(* upstreams/router.rs: Router::new compiles the configured routes, one    *)
(* after the other, into a path tree, a list of regexes and a registry,    *)
(* and gives up at the first route it cannot use; match_request finds the  *)
(* route of a path and a host.                                             *)
(*                                                                         *)
(* A path is the sequence of its segments: "/" is <<"">>, "/a/" is         *)
(* <<"a", "">>.  In the path of a Prefix or Exact route the segment "{p}"  *)
(* is a parameter and a last segment "{*p}" a catch-all.  The tree is the  *)
(* matchit crate, which is external: Fits, Beats and Conflicts are what    *)
(* router.rs relies on.  Regexes and address blocks are given by the paths *)
(* and the addresses they match; those without a meaning do not parse.     *)
(***************************************************************************)
EXTENDS Integers, Sequences

CONSTANTS
  Routes,    \* RouteConf values
  Confs,     \* the conf.routes a configuration file may hold
  Paths,     \* request paths
  Hosts,     \* host names
  Matches,   \* valid regex -> the paths it matches
  Blocks,    \* valid address block -> the addresses in it
  None       \* Option::None

PathTypes == {"Prefix", "Exact", "Regex"}

\* A route: path is a sequence of segments, that of a Regex route has one, the
\* regex; rooted tells whether it starts with '/'; hostnames and access_control
\* are optional.
ASSUME ConfsAssumption ==
  /\ Confs \subseteq Seq(Routes)
  /\ \A route \in Routes :
       /\ route.path_type \in PathTypes /\ route.rooted \in BOOLEAN
       /\ route.path \in Seq(STRING)
  /\ Paths \subseteq Seq(STRING)

ASSUME NoneAssumption == None \notin {"Ok", "RouteError", "AclError"} \cup Nat

ASSUME BlocksAssumption == \A b \in DOMAIN Blocks : Blocks[b] # {}

VARIABLES
  conf,            \* the routes of the configuration
  idx,             \* how many of them the loop has gone through
  regex_routes,    \* sequence of [re, id]
  matchit_router,  \* set of [path, id]
  route_registry,  \* id -> RouteEntry
  result           \* what Router::new has returned, None while it runs

vars == <<conf, idx, regex_routes, matchit_router, route_registry, result>>

----------------------------------------------------------------------------
(* The path tree.                                                          *)

Param      == "{p}"
CatchAll   == "{*p}"
Literal(s) == s \notin {Param, CatchAll}

FitsSegment(s, x) == s = x \/ (s = Param /\ x # "")

\* A request path fits the path of a route: segment by segment, or up to a
\* catch-all, which takes a rest that is not empty.
Fits(p, path) ==
  LET n == Len(p) IN
  \/ /\ Len(path) = n
     /\ \A i \in 1..n : FitsSegment(p[i], path[i])
  \/ /\ n > 0 /\ p[n] = CatchAll
     /\ Len(path) >= n
     /\ \A i \in 1..(n - 1) : FitsSegment(p[i], path[i])
     /\ Len(path) = n => path[n] # ""

\* p and q part at segment i.
PartAt(p, q, i) ==
  /\ i \in 1..Len(p) /\ i \in 1..Len(q)
  /\ p[i] # q[i]
  /\ \A j \in 1..(i - 1) : p[j] = q[j]

\* Of two routes that fit, the one that is literal where they part wins.
Beats(p, q) ==
  \E i \in 1..Len(p) : PartAt(p, q, i) /\ Literal(p[i])

\* insert refuses a path that is there already, and one with a parameter where
\* another has a catch-all.
Conflicts(p, q) ==
  \/ p = q
  \/ \E i \in 1..Len(p) : PartAt(p, q, i) /\ {p[i], q[i]} = {Param, CatchAll}

\* A catch-all only ends a path.
WellFormed(p) == \A i \in 1..Len(p) : p[i] = CatchAll => i = Len(p)

\* matchit_router.at(path): the best entry, if any fits.
Fitting(path) == {t \in matchit_router : Fits(t.path, path)}
At(path) ==
  {t \in Fitting(path) :
     \A u \in Fitting(path) : u # t => Beats(t.path, u.path)}

----------------------------------------------------------------------------
(* Router::new.                                                            *)

\* The route cannot be compiled or inserted: RouteError.
Unusable(route) ==
  IF route.path_type = "Regex" THEN route.path \notin DOMAIN Matches
  ELSE \/ ~route.rooted
       \/ ~WellFormed(route.path)
       \/ \E t \in matchit_router : Conflicts(route.path, t.path)

Listed(route) ==
  IF route.access_control = None THEN {}
  ELSE route.access_control.deny \cup route.access_control.allow

\* (Mutant: blocks that do not parse are skipped.)
MutantSkipBadBlocks(route) == FALSE

\* Some address block does not parse: AclError.
BadAcl(route) == \E b \in Listed(route) : b \notin DOMAIN Blocks

\* The addresses of the blocks of a list.
Compile(blocks) == UNION {Blocks[b] : b \in blocks \cap DOMAIN Blocks}

\* The RouteEntry of a route.  No access_control, or one whose lists are both
\* empty, is None, here two empty sets.
Entry(route) ==
  [conf |-> route,
   deny |-> IF route.access_control = None THEN {}
            ELSE Compile(route.access_control.deny),
   allow |-> IF route.access_control = None THEN {}
             ELSE Compile(route.access_control.allow)]

Init ==
  /\ conf \in Confs
  /\ idx = 0
  /\ regex_routes = <<>>
  /\ matchit_router = {}
  /\ route_registry = <<>>
  /\ result = None

Current == conf[idx + 1]
Building == result = None /\ idx < Len(conf)

\* Router::new returns early: what was built so far is dropped.
RejectRoute ==
  /\ Building
  /\ Unusable(Current)
  /\ result' = "RouteError"
  /\ UNCHANGED <<conf, idx, regex_routes, matchit_router, route_registry>>

RejectAcl ==
  /\ Building
  /\ ~Unusable(Current) /\ BadAcl(Current)
  /\ result' = "AclError"
  /\ UNCHANGED <<conf, idx, regex_routes, matchit_router, route_registry>>

\* (Mutants: the route is registered under the id of the route before it; the
\* entry is that of the first route.)
MutantRegisterFirst(reg, id, route) ==
  [i \in DOMAIN reg \cup {id} |-> IF i = id THEN Entry(conf[1]) ELSE reg[i]]
MutantRegisterOffByOne(reg, id, route) ==
  [i \in DOMAIN reg \cup {id - 1} |-> IF i = id - 1 THEN Entry(route) ELSE reg[i]]

\* route_registry.insert(idx, route_entry).
Register(reg, id, route) ==
  [i \in DOMAIN reg \cup {id} |-> IF i = id THEN Entry(route) ELSE reg[i]]

\* One turn of the loop for a route that is fine.
AddRoute ==
  /\ Building
  /\ ~Unusable(Current) /\ ~BadAcl(Current)
  /\ IF Current.path_type = "Regex"
     THEN /\ regex_routes' = Append(regex_routes,
                                    [re |-> Current.path, id |-> idx + 1])
          /\ UNCHANGED matchit_router
     ELSE /\ matchit_router' = matchit_router \cup
                                 {[path |-> Current.path, id |-> idx + 1]}
          /\ UNCHANGED regex_routes
  /\ route_registry' = Register(route_registry, idx + 1, Current)
  /\ idx' = idx + 1
  /\ UNCHANGED <<conf, result>>

Finish ==
  /\ result = None /\ idx = Len(conf)
  /\ result' = "Ok"
  /\ UNCHANGED <<conf, idx, regex_routes, matchit_router, route_registry>>

Next == RejectRoute \/ RejectAcl \/ AddRoute \/ Finish

Spec == Init /\ [][Next]_vars

----------------------------------------------------------------------------
(* match_request.                                                          *)

\* validate_host: a route without hostnames takes any host, the others need
\* the request to name one of theirs.
ValidateHost(route, host) ==
  route.hostnames = None \/ (host # None /\ host \in route.hostnames)

Conf(id) == route_registry[id].conf

\* The positions of regex_routes that match path and host.
RegexHits(path, host) ==
  {k \in 1..Len(regex_routes) :
     /\ path \in Matches[regex_routes[k].re]
     /\ ValidateHost(Conf(regex_routes[k].id), host)}

\* (Mutant: an Exact route is not compared with the path.)
MutantExactIsPrefix(id, path) == FALSE

\* The tree's answer is an Exact route of another path.
NotExact(id, path) == Conf(id).path_type = "Exact" /\ path # Conf(id).path

\* (Mutant: the last regex that matches wins.)
MutantLastRegex(hits) == CHOOSE k \in hits : \A j \in hits : j <= k

FirstRegex(hits) == CHOOSE k \in hits : \A j \in hits : k <= j

\* (Mutant: a route of another host ends the search too.)
MutantNoFallThrough(path, host) ==
  LET tree == {t.id : t \in At(path)}
      fine == {id \in tree : ~NotExact(id, path) /\ ValidateHost(Conf(id), host)}
      hits == RegexHits(path, host)
  IN  IF fine # {} THEN CHOOSE id \in fine : TRUE
      ELSE IF tree # {} \/ hits = {} THEN None
      ELSE regex_routes[FirstRegex(hits)].id

\* The id of the matching entry.  The tree comes first; an Exact route that is
\* not the path ends the search, one of another host does not.
MatchRequest(path, host) ==
  LET tree == {t.id : t \in At(path)}
      hits == RegexHits(path, host)
  IN  IF \E id \in tree : NotExact(id, path) THEN None
      ELSE IF \E id \in tree : ValidateHost(Conf(id), host)
      THEN CHOOSE id \in tree : ValidateHost(Conf(id), host)
      ELSE IF hits = {} THEN None ELSE regex_routes[FirstRegex(hits)].id

----------------------------------------------------------------------------
Requesters == Hosts \cup {None}

\* The types of the tables Router::new builds.
TypeOK ==
  /\ conf \in Confs
  /\ idx \in 0..Len(conf)
  /\ regex_routes \in Seq([re : DOMAIN Matches, id : 1..idx])
  /\ \A t \in matchit_router : t.id \in 1..idx
  /\ DOMAIN route_registry = 1..idx
  /\ result \in {None, "Ok", "RouteError", "AclError"}

\* The tables agree: every id the tree or the regex list may answer is
\* registered, with the route whose path is indexed there, so that
\* self.route_registry[id] of match_request neither panics nor answers another
\* route's entry.
RegistryComplete ==
  /\ \A t \in matchit_router :
       /\ t.id \in DOMAIN route_registry
       /\ Conf(t.id) = conf[t.id] /\ Conf(t.id).path = t.path
  /\ \A k \in 1..Len(regex_routes) :
       /\ regex_routes[k].id \in DOMAIN route_registry
       /\ Conf(regex_routes[k].id) = conf[regex_routes[k].id]
       /\ Conf(regex_routes[k].id).path = regex_routes[k].re

\* A configured route accepts a request: path and host are what it asks for.
\* (A Prefix route asks for its own path, wildcards apart: gateway_full.yaml
\* says that it matches everything starting with it.)
Accepts(route, path, host) ==
  /\ ValidateHost(route, host)
  /\ CASE route.path_type = "Exact"  -> path = route.path
       [] route.path_type = "Prefix" -> Fits(route.path, path)
       [] route.path_type = "Regex"  -> path \in Matches[route.path]

\* match_request never sends a request to a route that does not accept it.
MatchSound ==
  result = "Ok" =>
    \A path \in Paths, host \in Requesters :
      LET id == MatchRequest(path, host)
      IN  id # None => Accepts(conf[id], path, host)

\* match_request refuses a request that some route accepts only because the
\* tree answered another route: an Exact one of another path, which hides
\* everything, or one of another host, which hides the tree's routes.
RefusalExplained ==
  result = "Ok" =>
    \A path \in Paths, host \in Requesters, i \in 1..Len(conf) :
      MatchRequest(path, host) = None /\ Accepts(conf[i], path, host) =>
        \E t \in At(path) :
          /\ t.id # i
          /\ \/ NotExact(t.id, path)
             \/ conf[i].path_type # "Regex" /\ ~ValidateHost(conf[t.id], host)

\* Of the regex routes that accept a request the first configured one gets it,
\* and none does if the tree's answer accepts it.
RegexInOrder ==
  result = "Ok" =>
    \A path \in Paths, host \in Requesters :
      LET id == MatchRequest(path, host)
      IN  id # None /\ conf[id].path_type = "Regex" =>
            /\ \A t \in At(path) : ~Accepts(conf[t.id], path, host)
            /\ \A j \in 1..(id - 1) :
                 conf[j].path_type = "Regex" => ~Accepts(conf[j], path, host)

\* A router that starts enforces every block of every list: one that does not
\* parse keeps the gateway from starting instead of opening the route.
AclFaithful ==
  result = "Ok" =>
    \A i \in 1..Len(conf) :
      conf[i].access_control # None =>
        LET a == conf[i].access_control IN
        /\ Listed(conf[i]) \subseteq DOMAIN Blocks
        /\ route_registry[i].deny = UNION {Blocks[b] : b \in a.deny}
        /\ route_registry[i].allow = UNION {Blocks[b] : b \in a.allow}
=============================================================================
