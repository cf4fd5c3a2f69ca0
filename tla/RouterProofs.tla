---------------------------- MODULE RouterProofs ----------------------------
(***************************************************************************)
(* What Router::new and match_request guarantee for every configuration.   *)
(*                                                                         *)
(* Built is the inductive invariant: after idx turns of the loop the       *)
(* registry holds exactly the entries of the first idx routes, each of     *)
(* them acceptable, and the tree and the regex list index them under their *)
(* own ids and by their own kind.  Indexed adds that no route is missing,  *)
(* that the list keeps the order of the file and that the tree has one     *)
(* answer for a path, which holds because Beats orders the routes that fit *)
(* it and do not conflict.                                                 *)
(***************************************************************************)
EXTENDS Router, WellFoundedInduction, TLAPS

\* The tree holds Prefix and Exact routes, the list Regex routes.
KindsInv ==
  /\ \A t \in matchit_router : conf[t.id].path_type # "Regex"
  /\ \A k \in 1..Len(regex_routes) :
       conf[regex_routes[k].id].path_type = "Regex"

EntriesInv ==
  \A i \in 1..idx : route_registry[i] = Entry(conf[i]) /\ ~BadAcl(conf[i])

DoneInv == result = "Ok" => idx = Len(conf)

Built == TypeOK /\ RegistryComplete /\ KindsInv /\ EntriesInv /\ DoneInv

\* Sequences over a set: their length, their elements, and a larger set.
LEMMA SeqFacts ==
  ASSUME NEW S, NEW s \in Seq(S)
  PROVE  /\ Len(s) \in Nat
         /\ \A i \in 1..Len(s) : s[i] \in S
  OBVIOUS

LEMMA SeqMonotone ==
  ASSUME NEW S, NEW T, S \subseteq T, NEW s \in Seq(S)
  PROVE  s \in Seq(T)
  OBVIOUS

LEMMA ConfLength ==
  ASSUME NEW c \in Confs
  PROVE  /\ Len(c) \in Nat
         /\ \A i \in 1..Len(c) : /\ c[i].path_type \in PathTypes
                               /\ c[i].path \in Seq(STRING)
<1>1. c \in Seq(Routes)
  BY ConfsAssumption
<1> QED
  BY <1>1, SeqFacts, ConfsAssumption

LEMMA InitBuilt == Init => Built
<1> SUFFICES ASSUME Init PROVE Built
  OBVIOUS
<1> USE DEF Init
<1>1. idx \in 0..Len(conf)
  BY ConfLength
<1>2. TypeOK
  BY <1>1 DEF TypeOK
<1> QED
  BY <1>2, NoneAssumption DEF Built, RegistryComplete, KindsInv, EntriesInv,
                              DoneInv

\* A turn that adds a route.
LEMMA AddRouteBuilt == Built /\ AddRoute => Built'
<1> SUFFICES ASSUME Built, AddRoute PROVE Built'
  OBVIOUS
<1> USE DEF Built, TypeOK, AddRoute, Building, Current
<1>1. /\ idx \in Nat /\ Len(conf) \in Nat
      /\ idx' = idx + 1 /\ idx' \in 0..Len(conf) /\ conf' = conf
      /\ result' = result /\ result = None
  BY ConfLength
<1>2. /\ DOMAIN route_registry' = 1..idx'
      /\ route_registry'[idx + 1] = Entry(conf[idx + 1])
      /\ \A i \in 1..idx : route_registry'[i] = route_registry[i]
  BY <1>1 DEF Register
<1>3. EntriesInv'
  <2> SUFFICES ASSUME NEW i \in 1..idx'
               PROVE  route_registry'[i] = Entry(conf[i]) /\ ~BadAcl(conf[i])
    BY <1>1 DEF EntriesInv, Entry, BadAcl, Listed
  <2>1. CASE i = idx + 1
    BY <1>2, <2>1
  <2>2. CASE i # idx + 1
    <3>1. i \in 1..idx
      BY <1>1, <2>2
    <3> QED
      BY <1>2, <3>1 DEF EntriesInv
  <2> QED
    BY <2>1, <2>2
<1>4. \A i \in 1..idx' : route_registry'[i].conf = conf[i]
  BY <1>1, <1>2 DEF EntriesInv, Entry
<1>7. regex_routes \in Seq([re : DOMAIN Matches, id : 1..idx'])
  <2> DEFINE S == [re : DOMAIN Matches, id : 1..idx]
             T == [re : DOMAIN Matches, id : 1..(idx')]
  <2>1. S \subseteq T
    BY <1>1
  <2>2. regex_routes \in Seq(S)
    OBVIOUS
  <2>3. regex_routes \in Seq(T)
    <3> HIDE DEF S, T
    <3> QED
      BY <2>1, <2>2, SeqMonotone
  <2> QED
    BY <2>3
<1>8. \A k \in 1..Len(regex_routes) : regex_routes[k].id \in 1..idx
  <2>1. \A k \in 1..Len(regex_routes) :
          regex_routes[k] \in [re : DOMAIN Matches, id : 1..idx]
    BY SeqFacts
  <2> QED
    BY <2>1
<1>9. RegistryComplete /\ \A t \in matchit_router : t.id \in 1..idx
  OBVIOUS
<1>5. CASE conf[idx + 1].path_type = "Regex"
  <2> DEFINE e == [re |-> conf[idx + 1].path, id |-> idx + 1]
  <2>1. regex_routes' = Append(regex_routes, e) /\ UNCHANGED matchit_router
    BY <1>5
  <2>2. e \in [re : DOMAIN Matches, id : 1..idx']
    BY <1>1, <1>5 DEF Unusable
  <2>3. regex_routes \in Seq([re : DOMAIN Matches, id : 1..idx'])
    BY <1>7
  <2>4. regex_routes' \in Seq([re : DOMAIN Matches, id : 1..idx'])
    BY <2>1, <2>2, <2>3
  <2>5. /\ Len(regex_routes') = Len(regex_routes) + 1
        /\ regex_routes'[Len(regex_routes) + 1] = e
        /\ \A k \in 1..Len(regex_routes) : regex_routes'[k] = regex_routes[k]
    BY <2>1, <2>2, <2>3
  <2>6. \A t \in matchit_router' : t.id \in 1..idx'
    BY <1>1, <2>1
  <2>7. \A k \in 1..Len(regex_routes') :
          \/ k \in 1..Len(regex_routes) /\ regex_routes'[k] = regex_routes[k]
          \/ regex_routes'[k] = e
    BY <2>3, <2>5
  <2>8. \A k \in 1..Len(regex_routes) : regex_routes[k].id \in 1..idx
    BY <1>8
  <2>9. RegistryComplete'
    <3> HIDE DEF Built, TypeOK, AddRoute, Building, Current
    <3>1. \A t \in matchit_router' : route_registry'[t.id].conf.path = t.path
      BY <1>2, <1>9, <2>1 DEF RegistryComplete, Conf
    <3>2. \A k \in 1..Len(regex_routes') :
            /\ regex_routes'[k].id \in 1..idx'
            /\ route_registry'[regex_routes'[k].id].conf.path
                 = regex_routes'[k].re
      <4> SUFFICES ASSUME NEW k \in 1..Len(regex_routes')
                   PROVE  /\ regex_routes'[k].id \in 1..idx'
                          /\ route_registry'[regex_routes'[k].id].conf.path
                               = regex_routes'[k].re
        OBVIOUS
      <4>1. CASE /\ k \in 1..Len(regex_routes)
                 /\ regex_routes'[k] = regex_routes[k]
        <5>1. regex_routes[k].id \in 1..idx
          BY <2>8, <4>1
        <5>2. route_registry[regex_routes[k].id].conf.path = regex_routes[k].re
          BY <1>9, <4>1 DEF RegistryComplete, Conf
        <5> QED
          BY <1>1, <1>2, <4>1, <5>1, <5>2
      <4>2. CASE regex_routes'[k] = e
        BY <1>1, <1>4, <4>2
      <4> QED
        BY <2>7, <4>1, <4>2
    <3> QED
      BY <1>1, <1>2, <1>4, <2>6, <3>1, <3>2 DEF RegistryComplete, Conf
  <2>10. KindsInv'
    BY <1>1, <1>5, <2>1, <2>7 DEF KindsInv
  <2> QED
    BY <1>1, <1>2, <1>3, <2>4, <2>6, <2>9, <2>10 DEF DoneInv
<1>6. CASE conf[idx + 1].path_type # "Regex"
  <2> DEFINE e == [path |-> conf[idx + 1].path, id |-> idx + 1]
  <2>1. matchit_router' = matchit_router \cup {e} /\ UNCHANGED regex_routes
    BY <1>6
  <2>2. \A t \in matchit_router' : t.id \in 1..idx'
    BY <1>1, <2>1
  <2>3. regex_routes' \in Seq([re : DOMAIN Matches, id : 1..idx'])
    BY <1>7, <2>1
  <2>4. \A k \in 1..Len(regex_routes) : regex_routes[k].id \in 1..idx
    BY <1>8
  <2>5. RegistryComplete'
    <3> HIDE DEF Built, TypeOK, AddRoute, Building, Current
    <3>1. \A t \in matchit_router' : route_registry'[t.id].conf.path = t.path
      <4> SUFFICES ASSUME NEW t \in matchit_router'
                   PROVE  route_registry'[t.id].conf.path = t.path
        OBVIOUS
      <4>1. CASE t = e
        BY <1>1, <1>4, <4>1
      <4>2. CASE t \in matchit_router
        <5>1. t.id \in 1..idx /\ route_registry[t.id].conf.path = t.path
          BY <1>9, <4>2 DEF RegistryComplete, Conf
        <5> QED
          BY <1>2, <5>1
      <4> QED
        BY <2>1, <4>1, <4>2
    <3>2. \A k \in 1..Len(regex_routes) :
            /\ regex_routes[k].id \in 1..idx'
            /\ route_registry'[regex_routes[k].id].conf.path = regex_routes[k].re
      BY <1>1, <1>2, <1>9, <2>4 DEF RegistryComplete, Conf
    <3> QED
      BY <1>1, <1>2, <1>4, <2>1, <2>2, <3>1, <3>2 DEF RegistryComplete, Conf
  <2>6. KindsInv'
    BY <1>1, <1>6, <2>1 DEF KindsInv
  <2> QED
    BY <1>1, <1>2, <1>3, <2>2, <2>3, <2>5, <2>6 DEF DoneInv
<1> QED
  BY <1>5, <1>6

LEMMA NextBuilt == Built /\ [Next]_vars => Built'
<1> SUFFICES ASSUME Built, [Next]_vars PROVE Built'
  OBVIOUS
<1> DEFINE Kept == UNCHANGED <<conf, idx, regex_routes, matchit_router,
                               route_registry>>
<1>1. ASSUME Kept, result' \in {None, "Ok", "RouteError", "AclError"}, DoneInv'
      PROVE  Built'
  BY <1>1 DEF Built, TypeOK, RegistryComplete, KindsInv, EntriesInv, Conf,
              Entry, BadAcl, Listed
<1>2. CASE AddRoute
  BY <1>2, AddRouteBuilt
<1>3. CASE RejectRoute \/ RejectAcl \/ Finish
  BY <1>1, <1>3 DEF RejectRoute, RejectAcl, Finish, DoneInv, Built, TypeOK
<1>4. CASE UNCHANGED vars
  BY <1>1, <1>4 DEF vars, Built, TypeOK, DoneInv
<1> QED
  BY <1>2, <1>3, <1>4 DEF Next

LEMMA BuiltAlways == Spec => []Built
  BY InitBuilt, NextBuilt, PTL DEF Spec

\* The tables of Router::new have their types.
THEOREM TypeCorrect == Spec => []TypeOK
<1>1. Built => TypeOK
  BY DEF Built
<1> QED
  BY <1>1, BuiltAlways, PTL

\* match_request's indexing of route_registry cannot panic, for any
\* configuration, and finds the entry of the route that was matched.
THEOREM RegistryAlwaysComplete == Spec => []RegistryComplete
<1>1. Built => RegistryComplete
  BY DEF Built
<1> QED
  BY <1>1, BuiltAlways, PTL

\* A router that was built enforces every configured address block.
THEOREM AclAlwaysFaithful == Spec => []AclFaithful
<1>1. Built => AclFaithful
  <2> SUFFICES ASSUME Built, result = "Ok",
                      NEW i \in 1..Len(conf), conf[i].access_control # None
               PROVE  LET a == conf[i].access_control IN
                      /\ Listed(conf[i]) \subseteq DOMAIN Blocks
                      /\ route_registry[i].deny = UNION {Blocks[b] : b \in a.deny}
                      /\ route_registry[i].allow = UNION {Blocks[b] : b \in a.allow}
    BY DEF AclFaithful
  <2> DEFINE a == conf[i].access_control
  <2>1. route_registry[i] = Entry(conf[i]) /\ ~BadAcl(conf[i])
    BY DEF Built, DoneInv, EntriesInv
  <2>2. Listed(conf[i]) \subseteq DOMAIN Blocks
    BY <2>1 DEF BadAcl
  <2>3. a.deny \cap DOMAIN Blocks = a.deny /\ a.allow \cap DOMAIN Blocks = a.allow
    BY <2>2 DEF Listed
  <2>4. /\ route_registry[i].deny = Compile(a.deny)
        /\ route_registry[i].allow = Compile(a.allow)
    BY <2>1 DEF Entry
  <2> QED
    BY <2>2, <2>3, <2>4 DEF Compile
<1> QED
  BY <1>1, BuiltAlways, PTL

\* A set of numbers that is not empty has a first one.
LEMMA FirstNumber ==
  ASSUME NEW S \in SUBSET Nat, S # {}
  PROVE  \E m \in S : \A k \in S : m <= k
<1>1. PICK m \in S : \A k \in S : ~(<<k, m>> \in OpToRel(<, Nat))
  BY NatLessThanWellFounded, WFMin
<1>2. \A k \in S : ~(k < m)
  BY <1>1 DEF OpToRel
<1> QED
  BY <1>2

LEMMA FirstIsHit ==
  ASSUME NEW n \in Nat, NEW hits \in SUBSET (1..n), hits # {}
  PROVE  FirstRegex(hits) \in hits
<1>1. hits \in SUBSET Nat
  OBVIOUS
<1>2. \E m \in hits : \A j \in hits : m <= j
  BY <1>1, FirstNumber
<1> QED
  BY <1>2 DEF FirstRegex

\* A route match_request answers accepts the request, for every configuration,
\* path and host.
THEOREM MatchAlwaysSound == Spec => []MatchSound
<1>1. Built => MatchSound
  <2> SUFFICES ASSUME Built, result = "Ok",
                      NEW path \in Paths, NEW host \in Requesters,
                      MatchRequest(path, host) # None
               PROVE  Accepts(conf[MatchRequest(path, host)], path, host)
    BY DEF MatchSound
  <2> DEFINE id   == MatchRequest(path, host)
             tree == {t.id : t \in At(path)}
             hits == RegexHits(path, host)
  <2>1. ~\E x \in tree : NotExact(x, path)
    BY DEF MatchRequest
  <2>2. CASE \E x \in tree : ValidateHost(Conf(x), host)
    <3>1. id \in tree /\ ValidateHost(Conf(id), host)
      BY <2>1, <2>2 DEF MatchRequest
    <3>2. PICK t \in At(path) : id = t.id
      BY <3>1
    <3>3. t \in matchit_router /\ Fits(t.path, path)
      BY <3>2 DEF At, Fitting
    <3>4. Conf(id) = conf[id] /\ conf[id].path = t.path
      BY <3>2, <3>3 DEF Built, RegistryComplete
    <3>5. conf[id].path_type \in {"Prefix", "Exact"}
      BY <3>2, <3>3, ConfLength DEF Built, KindsInv, TypeOK, PathTypes
    <3>6. conf[id].path_type = "Exact" => path = conf[id].path
      BY <2>1, <3>1, <3>4 DEF NotExact
    <3> QED
      BY <3>1, <3>3, <3>4, <3>5, <3>6 DEF Accepts
  <2>3. CASE ~\E x \in tree : ValidateHost(Conf(x), host)
    <3>1. hits # {} /\ id = regex_routes[FirstRegex(hits)].id
      BY <2>1, <2>3 DEF MatchRequest
    <3>2. Len(regex_routes) \in Nat
      BY DEF Built, TypeOK
    <3>3. FirstRegex(hits) \in hits
      BY <3>1, <3>2, FirstIsHit DEF RegexHits
    <3>4. PICK k \in 1..Len(regex_routes) :
            /\ id = regex_routes[k].id
            /\ path \in Matches[regex_routes[k].re]
            /\ ValidateHost(Conf(id), host)
      BY <3>1, <3>3 DEF RegexHits
    <3>5. /\ Conf(id) = conf[id] /\ conf[id].path = regex_routes[k].re
          /\ conf[id].path_type = "Regex"
      BY <3>4 DEF Built, RegistryComplete, KindsInv
    <3> QED
      BY <3>4, <3>5 DEF Accepts
  <2> QED
    BY <2>2, <2>3
<1> QED
  BY <1>1, BuiltAlways, PTL

----------------------------------------------------------------------------
(* The order of the paths that fit a request.                              *)

\* Two paths of routes either part somewhere or one begins the other.
LEMMA PartOrPrefix ==
  ASSUME NEW p \in Seq(STRING), NEW q \in Seq(STRING)
  PROVE  \/ \E i \in 1..Len(p) : PartAt(p, q, i)
         \/ \A i \in 1..Len(p) : i <= Len(q) => p[i] = q[i]
<1> DEFINE D == {i \in 1..Len(p) : i <= Len(q) /\ p[i] # q[i]}
<1>1. CASE D = {}
  BY <1>1
<1>2. CASE D # {}
  <2>1. D \in SUBSET Nat
    OBVIOUS
  <2>2. PICK m \in D : \A k \in D : m <= k
    <3> HIDE DEF D
    <3> QED BY <1>2, <2>1, FirstNumber
  <2>3. \A j \in 1..(m - 1) : p[j] = q[j]
    <3> SUFFICES ASSUME NEW j \in 1..(m - 1), p[j] # q[j] PROVE FALSE
      OBVIOUS
    <3>1. j \in D /\ j < m
      OBVIOUS
    <3> QED BY <2>1, <2>2, <3>1
  <2> QED BY <2>2, <2>3 DEF PartAt
<1> QED
  BY <1>1, <1>2

LEMMA SegmentFits ==
  ASSUME NEW s, NEW x, FitsSegment(s, x)
  PROVE  s = x \/ ~Literal(s)
  BY Zenon DEF FitsSegment, Literal

\* A literal segment of a route that fits is the path's.
LEMMA LiteralFits ==
  ASSUME NEW p \in Seq(STRING), NEW path \in Seq(STRING), Fits(p, path),
         NEW i \in 1..Len(p)
  PROVE  i <= Len(path) /\ (p[i] = path[i] \/ ~Literal(p[i]))
<1>1. CASE Len(path) = Len(p) /\ \A k \in 1..Len(p) : FitsSegment(p[k], path[k])
  BY <1>1, SegmentFits
<1>2. CASE /\ p[Len(p)] = CatchAll /\ Len(path) >= Len(p)
           /\ \A k \in 1..(Len(p) - 1) : FitsSegment(p[k], path[k])
  <2>1. CASE i = Len(p)
    BY <1>2, <2>1 DEF Literal
  <2>2. CASE i # Len(p)
    <3>1. i \in 1..(Len(p) - 1)
      BY <2>2
    <3> QED
      BY <1>2, <3>1, SegmentFits
  <2> QED BY <2>1, <2>2
<1> QED
  BY <1>1, <1>2 DEF Fits

\* Only a route with a catch-all fits a path longer than itself.
LEMMA LongerFits ==
  ASSUME NEW p \in Seq(STRING), NEW path \in Seq(STRING), Fits(p, path)
  PROVE  Len(path) = Len(p) \/ (Len(p) > 0 /\ p[Len(p)] = CatchAll /\ Len(path) >= Len(p))
  BY DEF Fits

LEMMA EarlyCatchAll ==
  ASSUME NEW p, NEW q, NEW l \in Nat, Len(p) \in Nat, Len(q) \in Nat, WellFormed(q),
         \A i \in 1..Len(p) : i <= Len(q) => p[i] = q[i],
         l = Len(p) \/ (Len(p) > 0 /\ p[Len(p)] = CatchAll /\ l >= Len(p)),
         l >= Len(q), Len(p) < Len(q)
  PROVE  FALSE
<1>1. Len(p) > 0 /\ p[Len(p)] = CatchAll
  OBVIOUS
<1>2. Len(p) \in 1..Len(p) /\ Len(p) \in 1..Len(q)
  BY <1>1
<1>3. q[Len(p)] = CatchAll
  BY <1>1, <1>2
<1> QED
  BY <1>2, <1>3 DEF WellFormed

\* Routes that differ, fit one path and do not conflict are ordered.
LEMMA BeatsTotal ==
  ASSUME NEW p \in Seq(STRING), NEW q \in Seq(STRING), NEW path \in Seq(STRING),
         Fits(p, path), Fits(q, path), WellFormed(p), WellFormed(q),
         p # q, ~Conflicts(p, q)
  PROVE  Beats(p, q) \/ Beats(q, p)
<1>1. CASE \E i \in 1..Len(p) : PartAt(p, q, i)
  <2>1. PICK i \in 1..Len(p) : PartAt(p, q, i)
    BY <1>1
  <2>2. i \in 1..Len(q) /\ p[i] # q[i] /\ PartAt(q, p, i)
    BY <2>1 DEF PartAt
  <2>3. /\ p[i] = path[i] \/ ~Literal(p[i])
        /\ q[i] = path[i] \/ ~Literal(q[i])
    BY <2>2, LiteralFits
  <2>4. {p[i], q[i]} # {Param, CatchAll}
    BY <2>1 DEF Conflicts
  <2>5. Literal(p[i]) \/ Literal(q[i])
    BY <2>2, <2>4 DEF Literal
  <2> QED
    BY <2>1, <2>2, <2>5 DEF Beats
<1>2. CASE \A i \in 1..Len(p) : i <= Len(q) => p[i] = q[i]
  <2>1. Len(p) # Len(q)
    BY <1>2
  <2>2. Len(p) \in Nat /\ Len(q) \in Nat /\ Len(path) \in Nat
    OBVIOUS
  <2>3. \/ Len(path) = Len(p)
        \/ Len(p) > 0 /\ p[Len(p)] = CatchAll /\ Len(path) >= Len(p)
    BY LongerFits
  <2>4. \/ Len(path) = Len(q)
        \/ Len(q) > 0 /\ q[Len(q)] = CatchAll /\ Len(path) >= Len(q)
    BY LongerFits
  <2>5. CASE Len(p) < Len(q)
    BY <1>2, <2>2, <2>3, <2>4, <2>5, EarlyCatchAll
  <2>6. CASE Len(q) < Len(p)
    <3>1. \A i \in 1..Len(q) : i <= Len(p) => q[i] = p[i]
      BY <1>2, <2>2, <2>6
    <3> QED
      BY <2>2, <2>3, <2>4, <2>6, <3>1, EarlyCatchAll
  <2> QED BY <2>1, <2>2, <2>5, <2>6
<1> QED
  BY <1>1, <1>2, PartOrPrefix

LEMMA BeatsAsymmetric ==
  ASSUME NEW p \in Seq(STRING), NEW q \in Seq(STRING), NEW path \in Seq(STRING),
         Fits(p, path), Fits(q, path), Beats(p, q), Beats(q, p)
  PROVE  FALSE
<1>1. PICK i \in 1..Len(p) : PartAt(p, q, i) /\ Literal(p[i])
  BY DEF Beats
<1>2. PICK k \in 1..Len(q) : PartAt(q, p, k) /\ Literal(q[k])
  BY DEF Beats
<1>3. i = k
  <2>1. /\ i \in Nat /\ k \in Nat /\ i > 0 /\ k > 0
        /\ p[i] # q[i] /\ \A j \in 1..(i - 1) : p[j] = q[j]
        /\ q[k] # p[k] /\ \A j \in 1..(k - 1) : q[j] = p[j]
    BY <1>1, <1>2 DEF PartAt
  <2>2. i \notin 1..(k - 1) /\ k \notin 1..(i - 1)
    BY <2>1
  <2> QED
    BY <2>1, <2>2
<1>4. p[i] = path[i] /\ q[i] = path[i]
  BY <1>1, <1>2, <1>3, LiteralFits
<1> QED
  BY <1>1, <1>4 DEF PartAt

LEMMA BeatsTransitive ==
  ASSUME NEW p \in Seq(STRING), NEW q \in Seq(STRING), NEW u \in Seq(STRING),
         NEW path \in Seq(STRING), Fits(p, path), Fits(q, path),
         Beats(p, q), Beats(q, u)
  PROVE  Beats(p, u)
<1>1. PICK i \in 1..Len(p) : PartAt(p, q, i) /\ Literal(p[i])
  BY DEF Beats
<1>2. PICK k \in 1..Len(q) : PartAt(q, u, k) /\ Literal(q[k])
  BY DEF Beats
<1>3. /\ i \in 1..Len(q) /\ p[i] # q[i] /\ \A j \in 1..(i - 1) : p[j] = q[j]
      /\ k \in 1..Len(u) /\ q[k] # u[k] /\ \A j \in 1..(k - 1) : q[j] = u[j]
  BY <1>1, <1>2 DEF PartAt
<1>4. CASE i < k
  <2>1. PartAt(p, u, i)
    BY <1>3, <1>4 DEF PartAt
  <2> QED BY <1>1, <2>1 DEF Beats
<1>5. CASE k < i
  <2>1. PartAt(p, u, k) /\ k \in 1..Len(p) /\ p[k] = q[k]
    BY <1>3, <1>5 DEF PartAt
  <2> QED BY <1>2, <2>1 DEF Beats
<1>6. CASE i = k
  <2>1. p[i] = path[i] /\ q[i] = path[i]
    BY <1>1, <1>2, <1>6, LiteralFits
  <2> QED BY <1>3, <2>1
<1> QED
  BY <1>4, <1>5, <1>6

----------------------------------------------------------------------------
(* The tree and the list as they are filled.                               *)

\* insert has let the routes of the tree in, one by one.
TreeInv ==
  /\ \A t \in matchit_router : t.path \in Seq(STRING) /\ WellFormed(t.path)
  /\ \A t, u \in matchit_router : t # u => ~Conflicts(t.path, u.path)

\* Whatever conflicts insert lets through, a path has one best entry.
TreeUnambiguous ==
  \A path \in Paths :
    Fitting(path) # {} => \E t \in At(path) : At(path) = {t}

\* Every route is in the table of its kind, regexes in the order of the file.
OrderInv ==
  /\ \A k, l \in 1..Len(regex_routes) : k < l => regex_routes[k].id < regex_routes[l].id
  /\ \A i \in 1..idx :
       IF conf[i].path_type = "Regex"
       THEN \E k \in 1..Len(regex_routes) : regex_routes[k].id = i
       ELSE \E t \in matchit_router : t.id = i

Indexed == Built /\ TreeInv /\ OrderInv /\ TreeUnambiguous

LEMMA ConflictsSymmetric ==
  ASSUME NEW p, NEW q, Conflicts(p, q)
  PROVE  Conflicts(q, p)
<1>1. CASE p = q
  BY <1>1 DEF Conflicts
<1>2. CASE \E i \in 1..Len(p) : PartAt(p, q, i) /\ {p[i], q[i]} = {Param, CatchAll}
  <2>1. PICK i \in 1..Len(p) : PartAt(p, q, i) /\ {p[i], q[i]} = {Param, CatchAll}
    BY <1>2
  <2>2. i \in 1..Len(q) /\ PartAt(q, p, i)
    BY <2>1 DEF PartAt
  <2>3. {q[i], p[i]} = {Param, CatchAll}
    BY <2>1
  <2> QED BY <2>2, <2>3 DEF Conflicts
<1> QED
  BY <1>1, <1>2 DEF Conflicts

LEMMA InitIndexed == Init => Indexed
<1> SUFFICES ASSUME Init PROVE Indexed
  OBVIOUS
<1>1. Built
  BY InitBuilt
<1>2. TreeInv /\ OrderInv /\ TreeUnambiguous
  BY DEF Init, TreeInv, OrderInv, TreeUnambiguous, Fitting
<1> QED BY <1>1, <1>2 DEF Indexed

\* t is the best entry of the tree M for a path.
Best(M, path, t) ==
  /\ t \in M /\ Fits(t.path, path)
  /\ \A u \in M : Fits(u.path, path) /\ u # t => Beats(t.path, u.path)

\* e may be added to the tree M.
Insertable(M, e) ==
  /\ e.path \in Seq(STRING) /\ WellFormed(e.path)
  /\ \A t \in M : /\ t.path \in Seq(STRING) /\ WellFormed(t.path)
                  /\ t # e /\ ~Conflicts(e.path, t.path)

\* insert of one more path keeps a best entry.
LEMMA InsertKeepsBest ==
  ASSUME NEW M, NEW e, NEW path \in Seq(STRING), Insertable(M, e),
         Fits(e.path, path), NEW b, Best(M, path, b)
  PROVE  Best(M \cup {e}, path, e) \/ Best(M \cup {e}, path, b)
<1> USE DEF Best, Insertable
<1>1. e.path # b.path
  BY DEF Conflicts
<1>2. Beats(e.path, b.path) \/ Beats(b.path, e.path)
  BY <1>1, BeatsTotal
<1>3. CASE Beats(b.path, e.path)
  BY <1>3
<1>4. CASE Beats(e.path, b.path)
  <2>1. \A u \in M : Fits(u.path, path) => Beats(e.path, u.path)
    <3> SUFFICES ASSUME NEW u \in M, Fits(u.path, path), u # b
                 PROVE  Beats(e.path, u.path)
      BY <1>4
    <3>1. Beats(b.path, u.path)
      OBVIOUS
    <3> QED BY <1>4, <3>1, BeatsTransitive
  <2> QED BY <2>1
<1> QED BY <1>2, <1>3, <1>4

LEMMA AddRouteIndexed == Indexed /\ AddRoute => Indexed'
<1> SUFFICES ASSUME Indexed, AddRoute PROVE Indexed'
  OBVIOUS
<1>1. Built'
  BY AddRouteBuilt DEF Indexed
<1>2. /\ idx \in Nat /\ Len(conf) \in Nat /\ idx' = idx + 1 /\ conf' = conf
      /\ idx + 1 \in 1..Len(conf)
  BY ConfLength DEF Indexed, Built, TypeOK, AddRoute, Building
<1>3. ~Unusable(conf[idx + 1]) /\ conf[idx + 1].path \in Seq(STRING)
  BY <1>2, ConfLength DEF AddRoute, Current, Indexed, Built, TypeOK
<1>4. Len(regex_routes) \in Nat /\ \A k \in 1..Len(regex_routes) : regex_routes[k].id \in 1..idx
  <2>1. regex_routes \in Seq([re : DOMAIN Matches, id : 1..idx])
    BY DEF Indexed, Built, TypeOK
  <2>2. \A k \in 1..Len(regex_routes) : regex_routes[k] \in [re : DOMAIN Matches, id : 1..idx]
    BY <2>1, SeqFacts
  <2> QED BY <2>1, <2>2
<1>5. CASE conf[idx + 1].path_type = "Regex"
  <2>1. /\ regex_routes' = Append(regex_routes, [re |-> conf[idx + 1].path, id |-> idx + 1])
        /\ matchit_router' = matchit_router
    BY <1>5 DEF AddRoute, Current
  <2>2. /\ Len(regex_routes') = Len(regex_routes) + 1
        /\ regex_routes'[Len(regex_routes) + 1].id = idx + 1
        /\ \A k \in 1..Len(regex_routes) : regex_routes'[k] = regex_routes[k]
    BY <1>4, <2>1 DEF Indexed, Built, TypeOK
  <2>3. OrderInv'
    <3>1. ASSUME NEW k \in 1..Len(regex_routes'), NEW l \in 1..Len(regex_routes'), k < l
          PROVE  regex_routes'[k].id < regex_routes'[l].id
      <4>1. k \in 1..Len(regex_routes)
        BY <1>4, <2>2, <3>1
      <4>2. CASE l = Len(regex_routes) + 1
        BY <1>2, <1>4, <2>2, <4>1, <4>2
      <4>3. CASE l \in 1..Len(regex_routes)
        BY <2>2, <3>1, <4>1, <4>3 DEF Indexed, OrderInv
      <4> QED BY <1>4, <2>2, <4>2, <4>3
    <3>2. ASSUME NEW i \in 1..idx'
          PROVE  IF conf[i].path_type = "Regex"
                 THEN \E k \in 1..Len(regex_routes') : regex_routes'[k].id = i
                 ELSE \E t \in matchit_router' : t.id = i
      <4>1. CASE i = idx + 1
        <5>1. Len(regex_routes) + 1 \in 1..Len(regex_routes')
          BY <1>4, <2>2
        <5> QED BY <1>5, <2>2, <4>1, <5>1
      <4>2. CASE i \in 1..idx /\ conf[i].path_type = "Regex"
        <5>1. PICK k \in 1..Len(regex_routes) : regex_routes[k].id = i
          BY <4>2 DEF Indexed, OrderInv
        <5>2. k \in 1..Len(regex_routes')
          BY <1>4, <2>2
        <5> QED BY <2>2, <4>2, <5>1, <5>2
      <4>3. CASE i \in 1..idx /\ conf[i].path_type # "Regex"
        BY <2>1, <4>3 DEF Indexed, OrderInv
      <4> QED BY <1>2, <4>1, <4>2, <4>3
    <3> QED BY <1>2, <3>1, <3>2 DEF OrderInv
  <2>4. TreeInv' /\ TreeUnambiguous'
    BY <2>1 DEF Indexed, TreeInv, TreeUnambiguous, Fitting, At
  <2> QED BY <1>1, <2>3, <2>4 DEF Indexed
<1>6. CASE conf[idx + 1].path_type # "Regex"
  <2> DEFINE e == [path |-> conf[idx + 1].path, id |-> idx + 1]
  <2>1. regex_routes' = regex_routes /\ matchit_router' = matchit_router \cup {e}
    BY <1>6 DEF AddRoute, Current
  <2>2. /\ e.path \in Seq(STRING) /\ WellFormed(e.path)
        /\ \A t \in matchit_router : ~Conflicts(e.path, t.path)
    BY <1>3, <1>6 DEF Unusable
  <2>3. OrderInv'
    <3>1. ASSUME NEW i \in 1..idx'
          PROVE  IF conf[i].path_type = "Regex"
                 THEN \E k \in 1..Len(regex_routes) : regex_routes[k].id = i
                 ELSE \E t \in matchit_router' : t.id = i
      <4>1. CASE i = idx + 1
        <5>1. e \in matchit_router' /\ e.id = i
          BY <2>1, <4>1
        <5> HIDE DEF e
        <5> QED BY <1>6, <4>1, <5>1
      <4>2. CASE i \in 1..idx
        BY <2>1, <4>2 DEF Indexed, OrderInv
      <4> QED BY <1>2, <4>1, <4>2
    <3>2. \A k, l \in 1..Len(regex_routes) : k < l => regex_routes[k].id < regex_routes[l].id
      BY DEF Indexed, OrderInv
    <3> QED BY <1>2, <2>1, <3>1, <3>2 DEF OrderInv
  <2>4. \A t \in matchit_router : t # e
    <3>1. \A t \in matchit_router : t.id \in 1..idx
      BY DEF Indexed, Built, TypeOK
    <3> QED BY <1>2, <3>1
  <2>5. /\ \A t \in matchit_router : t.path \in Seq(STRING) /\ WellFormed(t.path)
        /\ \A t, u \in matchit_router : t # u => ~Conflicts(t.path, u.path)
    BY DEF Indexed, TreeInv
  <2> HIDE DEF e
  <2>6. TreeInv'
    BY <2>1, <2>2, <2>5, ConflictsSymmetric DEF TreeInv
  <2>7. TreeUnambiguous'
    <3> SUFFICES ASSUME NEW path \in Paths, Fitting(path)' # {}
                 PROVE  \E t \in At(path)' : At(path)' = {t}
      BY DEF TreeUnambiguous
    <3>1. path \in Seq(STRING)
      BY ConfsAssumption
    <3>2. \E t : Best(matchit_router', path, t)
      <4>1. CASE Fitting(path) = {}
        <5>1. Fits(e.path, path) /\ \A u \in matchit_router : ~Fits(u.path, path)
          BY <2>1, <4>1 DEF Fitting
        <5>2. Best(matchit_router', path, e)
          BY <2>1, <5>1 DEF Best
        <5> QED BY <5>2
      <4>2. CASE Fitting(path) # {}
        <5>1. PICK b \in At(path) : At(path) = {b}
          BY <4>2 DEF Indexed, TreeUnambiguous
        <5>2. Best(matchit_router, path, b)
          BY <5>1 DEF At, Fitting, Best
        <5>3. CASE ~Fits(e.path, path)
          <6>1. Best(matchit_router', path, b)
            BY <2>1, <5>2, <5>3 DEF Best
          <6> QED BY <6>1
        <5>4. CASE Fits(e.path, path)
          <6>1. Insertable(matchit_router, e)
            BY <2>2, <2>4, <2>5 DEF Insertable
          <6> QED
            BY <2>1, <3>1, <5>2, <5>4, <6>1, InsertKeepsBest
        <5> QED BY <5>3, <5>4
      <4> QED BY <4>1, <4>2
    <3>3. PICK t \in At(path)' : TRUE
      BY <3>2 DEF At, Fitting, Best
    <3>4. At(path)' = {t}
      <4> SUFFICES ASSUME NEW u \in At(path)', u # t PROVE FALSE
        BY <3>3
      <4>1. Beats(t.path, u.path) /\ Beats(u.path, t.path)
        BY <3>3 DEF At
      <4>2. /\ t.path \in Seq(STRING) /\ u.path \in Seq(STRING)
            /\ Fits(t.path, path) /\ Fits(u.path, path)
        BY <2>6, <3>3 DEF At, Fitting, TreeInv
      <4> QED BY <3>1, <4>1, <4>2, BeatsAsymmetric
    <3> QED BY <3>3, <3>4
  <2> QED BY <1>1, <2>3, <2>6, <2>7 DEF Indexed
<1> QED BY <1>5, <1>6

LEMMA NextIndexed == Indexed /\ [Next]_vars => Indexed'
<1> SUFFICES ASSUME Indexed, [Next]_vars PROVE Indexed'
  OBVIOUS
<1>1. CASE AddRoute
  BY <1>1, AddRouteIndexed
<1>2. CASE UNCHANGED <<conf, idx, regex_routes, matchit_router>>
  <2>1. Built'
    BY NextBuilt DEF Indexed
  <2>2. TreeInv' /\ OrderInv' /\ TreeUnambiguous'
    BY <1>2 DEF Indexed, TreeInv, OrderInv, TreeUnambiguous, Fitting, At
  <2> QED BY <2>1, <2>2 DEF Indexed
<1> QED
  BY <1>1, <1>2 DEF Next, RejectRoute, RejectAcl, Finish, vars

LEMMA IndexedAlways == Spec => []Indexed
  BY InitIndexed, NextIndexed, PTL DEF Spec

LEMMA FirstIsLeast ==
  ASSUME NEW n \in Nat, NEW hits \in SUBSET (1..n), NEW k \in hits
  PROVE  FirstRegex(hits) \in hits /\ FirstRegex(hits) <= k
<1>1. hits \in SUBSET Nat /\ hits # {}
  OBVIOUS
<1>2. \E m \in hits : \A j \in hits : m <= j
  BY <1>1, FirstNumber
<1> QED
  BY <1>2 DEF FirstRegex

\* The tree's entries are those of the configured routes.
LEMMA TreeEntry ==
  ASSUME Built, NEW t \in matchit_router
  PROVE  /\ Conf(t.id) = conf[t.id] /\ conf[t.id].path = t.path
         /\ conf[t.id].path_type \in {"Prefix", "Exact"}
<1>1. t.id \in 1..Len(conf)
  BY ConfLength DEF Built, TypeOK
<1> QED
  BY <1>1, ConfLength DEF Built, TypeOK, RegistryComplete, KindsInv, PathTypes

\* A request that several regexes match goes to the first of the file, and only
\* if the tree has no route that accepts it.
THEOREM RegexAlwaysInOrder == Spec => []RegexInOrder
<1>1. Indexed => RegexInOrder
  <2> SUFFICES ASSUME Indexed, result = "Ok",
                      NEW path \in Paths, NEW host \in Requesters,
                      MatchRequest(path, host) # None,
                      conf[MatchRequest(path, host)].path_type = "Regex"
               PROVE  /\ \A t \in At(path) : ~Accepts(conf[t.id], path, host)
                      /\ \A j \in 1..(MatchRequest(path, host) - 1) :
                           conf[j].path_type = "Regex" => ~Accepts(conf[j], path, host)
    BY DEF RegexInOrder
  <2> DEFINE id   == MatchRequest(path, host)
             tree == {t.id : t \in At(path)}
             hits == RegexHits(path, host)
  <2>1. Built /\ OrderInv
    BY DEF Indexed
  <2>2. \A t \in At(path) : /\ Conf(t.id) = conf[t.id]
                            /\ conf[t.id].path_type # "Regex"
    BY <2>1, TreeEntry DEF At, Fitting
  <2>3. ~\E x \in tree : NotExact(x, path)
    BY DEF MatchRequest
  <2>4. ~\E x \in tree : ValidateHost(Conf(x), host)
    <3> SUFFICES ASSUME \E x \in tree : ValidateHost(Conf(x), host) PROVE FALSE
      OBVIOUS
    <3>1. id \in tree
      BY <2>3 DEF MatchRequest
    <3> QED BY <2>2, <3>1
  <2>5. hits # {} /\ id = regex_routes[FirstRegex(hits)].id
    BY <2>3, <2>4 DEF MatchRequest
  <2>6. \A t \in At(path) : ~Accepts(conf[t.id], path, host)
    BY <2>2, <2>4 DEF Accepts
  <2>7. Len(regex_routes) \in Nat /\ hits \in SUBSET (1..Len(regex_routes))
    BY <2>1 DEF Built, TypeOK, RegexHits
  <2>8. \A k \in 1..Len(regex_routes) :
          /\ regex_routes[k].id \in 1..idx
          /\ Conf(regex_routes[k].id) = conf[regex_routes[k].id]
          /\ conf[regex_routes[k].id].path = regex_routes[k].re
    BY <2>1 DEF Built, TypeOK, RegistryComplete
  <2>9. FirstRegex(hits) \in hits /\ \A k \in hits : FirstRegex(hits) <= k
    <3> HIDE DEF hits
    <3> QED BY <2>5, <2>7, FirstIsLeast
  <2>10. id \in 1..idx /\ idx \in Nat /\ idx = Len(conf)
    BY <2>1, <2>5, <2>7, <2>8, <2>9, ConfLength DEF Built, TypeOK, DoneInv
  <2>11. ASSUME NEW j \in 1..(id - 1), conf[j].path_type = "Regex",
                Accepts(conf[j], path, host)
         PROVE  FALSE
    <3>1. j \in 1..idx
      BY <2>10
    <3>2. PICK k \in 1..Len(regex_routes) : regex_routes[k].id = j
      BY <2>1, <2>11, <3>1 DEF OrderInv
    <3>3. path \in Matches[regex_routes[k].re] /\ ValidateHost(Conf(j), host)
      BY <2>8, <2>11, <3>2 DEF Accepts
    <3>4. k \in hits
      BY <3>2, <3>3 DEF RegexHits
    <3> HIDE DEF hits, id
    <3>5. FirstRegex(hits) <= k /\ FirstRegex(hits) \in 1..Len(regex_routes)
      BY <2>7, <2>9, <3>4
    <3>6. id <= j
      <4>1. CASE FirstRegex(hits) = k
        BY <2>5, <2>10, <3>2, <4>1
      <4>2. CASE FirstRegex(hits) < k
        BY <2>1, <2>5, <2>10, <3>2, <3>5, <4>2 DEF OrderInv
      <4> QED BY <2>7, <3>5, <4>1, <4>2
    <3> QED BY <2>10, <3>6
  <2> QED BY <2>6, <2>11
<1> QED
  BY <1>1, IndexedAlways, PTL

LEMMA FitsItself ==
  ASSUME NEW p \in Seq(STRING)
  PROVE  Fits(p, p)
<1>1. \A i \in 1..Len(p) : FitsSegment(p[i], p[i])
  BY Zenon DEF FitsSegment
<1> QED
  BY <1>1 DEF Fits

\* A request that some route accepts is refused only where the tree answers
\* another route, for every configuration.
THEOREM RefusalAlwaysExplained == Spec => []RefusalExplained
<1>1. Indexed => RefusalExplained
  <2> SUFFICES ASSUME Indexed, result = "Ok",
                      NEW path \in Paths, NEW host \in Requesters,
                      NEW i \in 1..Len(conf),
                      MatchRequest(path, host) = None, Accepts(conf[i], path, host)
               PROVE  \E t \in At(path) :
                        /\ t.id # i
                        /\ \/ NotExact(t.id, path)
                           \/ conf[i].path_type # "Regex" /\ ~ValidateHost(conf[t.id], host)
    BY DEF RefusalExplained
  <2> DEFINE tree == {t.id : t \in At(path)}
             hits == RegexHits(path, host)
  <2>1. Built /\ OrderInv /\ TreeUnambiguous /\ path \in Seq(STRING)
    BY ConfsAssumption DEF Indexed
  <2>2. \A t \in At(path) :
          /\ Conf(t.id) = conf[t.id] /\ t.id \in 1..Len(conf) /\ t.id \in Nat
          /\ conf[t.id].path = t.path /\ Fits(t.path, path)
          /\ conf[t.id].path_type \in {"Prefix", "Exact"}
    BY <2>1, TreeEntry, ConfLength DEF At, Fitting, Built, TypeOK
  <2>3. i \in 1..idx /\ idx = Len(conf) /\ ValidateHost(conf[i], host)
    BY <2>1 DEF Built, DoneInv, Accepts
  <2>4. \/ \E x \in tree : NotExact(x, path)
        \/ ~(\E x \in tree : ValidateHost(Conf(x), host)) /\ hits = {}
    <3> SUFFICES ASSUME ~\E x \in tree : NotExact(x, path)
                 PROVE  ~(\E x \in tree : ValidateHost(Conf(x), host)) /\ hits = {}
      OBVIOUS
    <3>1. ~\E x \in tree : ValidateHost(Conf(x), host)
      <4> SUFFICES ASSUME \E x \in tree : ValidateHost(Conf(x), host) PROVE FALSE
        OBVIOUS
      <4>1. None \in tree
        BY DEF MatchRequest
      <4> QED BY <2>2, <4>1, NoneAssumption
    <3>2. hits = {}
      <4> SUFFICES ASSUME hits # {} PROVE FALSE
        OBVIOUS
      <4>1. None = regex_routes[FirstRegex(hits)].id
        BY <3>1 DEF MatchRequest
      <4>2. Len(regex_routes) \in Nat /\ hits \in SUBSET (1..Len(regex_routes))
        BY <2>1 DEF Built, TypeOK, RegexHits
      <4>3. FirstRegex(hits) \in 1..Len(regex_routes)
        <5> HIDE DEF hits
        <5> QED BY <4>2, FirstIsHit
      <4>4. regex_routes[FirstRegex(hits)].id \in 1..idx
        BY <2>1, <4>3 DEF Built, TypeOK, RegistryComplete
      <4> QED BY <4>1, <4>4, NoneAssumption
    <3> QED BY <3>1, <3>2
  <2>5. CASE conf[i].path_type = "Regex"
    <3>1. PICK k \in 1..Len(regex_routes) : regex_routes[k].id = i
      BY <2>1, <2>3, <2>5 DEF OrderInv
    <3>2. Conf(i) = conf[i] /\ conf[i].path = regex_routes[k].re
      BY <2>1, <3>1 DEF Built, RegistryComplete
    <3>3. k \in hits
      BY <2>3, <2>5, <3>1, <3>2 DEF RegexHits, Accepts
    <3>4. PICK t \in At(path) : NotExact(t.id, path)
      BY <2>4, <3>3
    <3> QED BY <2>2, <2>5, <3>4
  <2>6. CASE conf[i].path_type # "Regex"
    <3>1. PICK t \in matchit_router : t.id = i
      BY <2>1, <2>3, <2>6 DEF OrderInv
    <3>2. t.path = conf[i].path /\ conf[i].path_type \in {"Prefix", "Exact"}
      BY <2>1, <3>1, TreeEntry
    <3>3. Fits(t.path, path)
      BY <2>1, <3>2, FitsItself DEF Accepts
    <3>4. PICK b \in At(path) : At(path) = {b}
      BY <2>1, <3>1, <3>3 DEF TreeUnambiguous, Fitting
    <3>5. NotExact(b.id, path) \/ ~ValidateHost(conf[b.id], host)
      BY <2>2, <2>4, <3>4
    <3>6. ~NotExact(i, path)
      <4>1. Conf(i) = conf[i]
        BY <2>1, <3>1, TreeEntry
      <4> QED BY <3>2, <4>1 DEF NotExact, Accepts
    <3>7. b.id # i
      BY <2>3, <3>5, <3>6
    <3> QED BY <2>6, <3>4, <3>5, <3>7
  <2> QED BY <2>5, <2>6
<1> QED
  BY <1>1, IndexedAlways, PTL

----------------------------------------------------------------------------
(* Which configurations a gateway starts with.                             *)

\* A route that can be compiled, and two that cannot be in one tree.
Readable(route) ==
  IF route.path_type = "Regex" THEN route.path \in DOMAIN Matches
  ELSE route.rooted /\ WellFormed(route.path)
Clash(i, j) ==
  /\ conf[i].path_type # "Regex" /\ conf[j].path_type # "Regex"
  /\ Conflicts(conf[i].path, conf[j].path)

\* What the routes have to be like, whatever their order.
Acceptable ==
  \A i \in 1..Len(conf) :
    /\ Readable(conf[i]) /\ ~BadAcl(conf[i])
    /\ \A j \in 1..Len(conf) \ {i} : ~Clash(i, j)

\* A route that insert or the regex compiler refuses after those before it.
Misfit(i) == ~Readable(conf[i]) \/ \E j \in 1..(i - 1) : Clash(i, j)

\* Router::new stops at the first route with a fault, and its error says which
\* of the two kinds of fault was found first.
FirstFault ==
  /\ \A i \in 1..idx : ~Misfit(i) /\ ~BadAcl(conf[i])
  /\ result = "RouteError" => idx < Len(conf) /\ Misfit(idx + 1)
  /\ result = "AclError" =>
       idx < Len(conf) /\ ~Misfit(idx + 1) /\ BadAcl(conf[idx + 1])

AcceptsExactly == result # None => (result = "Ok" <=> Acceptable)

\* The loop's test against the tree is one against the routes before.
LEMMA UnusableIsMisfit ==
  ASSUME Indexed, Building
  PROVE  Unusable(Current) <=> Misfit(idx + 1)
<1>1. /\ idx \in Nat /\ Len(conf) \in Nat /\ idx < Len(conf)
      /\ 1..((idx + 1) - 1) = 1..idx
  BY ConfLength DEF Indexed, Built, TypeOK, Building
<1>2. ASSUME NEW t \in matchit_router
      PROVE  /\ t.id \in 1..idx /\ conf[t.id].path = t.path
             /\ conf[t.id].path_type # "Regex"
  BY TreeEntry DEF Indexed, Built, TypeOK
<1>3. ASSUME NEW j \in 1..idx, conf[j].path_type # "Regex"
      PROVE  \E t \in matchit_router : t.path = conf[j].path
  <2>1. PICK t \in matchit_router : t.id = j
    BY <1>3 DEF Indexed, OrderInv
  <2> QED
    BY <1>2, <2>1
<1>4. CASE conf[idx + 1].path_type = "Regex"
  BY <1>4 DEF Unusable, Misfit, Readable, Clash, Current
<1>5. CASE conf[idx + 1].path_type # "Regex"
  <2>1. (\E t \in matchit_router : Conflicts(conf[idx + 1].path, t.path))
          <=> \E j \in 1..idx : Clash(idx + 1, j)
    BY <1>2, <1>3, <1>5 DEF Clash
  <2> QED
    BY <1>1, <1>5, <2>1 DEF Unusable, Misfit, Readable, Current
<1> QED
  BY <1>4, <1>5

LEMMA FirstFaultKept == Indexed /\ FirstFault /\ [Next]_vars => FirstFault'
<1> SUFFICES ASSUME Indexed, FirstFault, [Next]_vars PROVE FirstFault'
  OBVIOUS
<1>1. idx \in Nat /\ Len(conf) \in Nat
  BY ConfLength DEF Indexed, Built, TypeOK
<1>2. ASSUME conf' = conf, NEW i PROVE Misfit(i)' = Misfit(i)
  BY <1>2 DEF Misfit, Clash
<1>3. CASE RejectRoute
  <2>1. Misfit(idx + 1) /\ idx < Len(conf) /\ UNCHANGED <<conf, idx>>
        /\ result' = "RouteError"
    BY <1>3, UnusableIsMisfit DEF RejectRoute, Building
  <2> QED
    BY <1>2, <2>1 DEF FirstFault
<1>4. CASE RejectAcl
  <2>1. /\ ~Misfit(idx + 1) /\ idx < Len(conf) /\ UNCHANGED <<conf, idx>>
        /\ result' = "AclError" /\ BadAcl(conf[idx + 1])
    BY <1>4, UnusableIsMisfit DEF RejectAcl, Building, Current
  <2> QED
    BY <1>2, <2>1 DEF FirstFault
<1>5. CASE AddRoute
  <2>1. /\ ~Misfit(idx + 1) /\ ~BadAcl(conf[idx + 1]) /\ conf' = conf
        /\ idx' = idx + 1 /\ result' = None
    BY <1>5, UnusableIsMisfit DEF AddRoute, Building, Current
  <2>2. \A i \in 1..idx' : i \in 1..idx \/ i = idx + 1
    BY <1>1, <2>1
  <2>3. \A i \in 1..idx' : ~Misfit(i) /\ ~BadAcl(conf[i])
    BY <2>1, <2>2 DEF FirstFault
  <2> QED
    BY <1>2, <2>1, <2>3, NoneAssumption DEF FirstFault
<1>6. CASE Finish \/ UNCHANGED vars
  <2>1. UNCHANGED <<conf, idx>> /\ (result' = result \/ result' = "Ok")
    BY <1>6 DEF Finish, vars
  <2> QED
    BY <1>2, <2>1 DEF FirstFault
<1> QED
  BY <1>3, <1>4, <1>5, <1>6 DEF Next

\* Router::new gives up at the first route with a fault: the ones before it are
\* fine, and the error tells an unusable path from a bad access list.
THEOREM FirstFaultReported == Spec => []FirstFault
<1>1. Init => FirstFault
  BY NoneAssumption DEF Init, FirstFault
<1> QED
  BY <1>1, FirstFaultKept, IndexedAlways, PTL DEF Spec

\* The gateway starts with a configuration exactly if every route of it can be
\* compiled, no access list has a bad block and no two paths conflict: neither
\* an early return nor the order of the routes decides (Router::new).
THEOREM AlwaysAcceptsExactly == Spec => []AcceptsExactly
<1>1. Built /\ FirstFault => AcceptsExactly
  <2> SUFFICES ASSUME Built, FirstFault, result # None
               PROVE  result = "Ok" <=> Acceptable
    BY DEF AcceptsExactly
  <2>1. idx \in Nat /\ Len(conf) \in Nat /\ idx <= Len(conf)
        /\ result \in {"Ok", "RouteError", "AclError"}
    BY ConfLength DEF Built, TypeOK
  <2>2. CASE result = "Ok"
    <3>1. idx = Len(conf)
      BY <2>2 DEF Built, DoneInv
    <3>2. ASSUME NEW i \in 1..Len(conf)
          PROVE  Readable(conf[i]) /\ ~BadAcl(conf[i])
      BY <3>1 DEF FirstFault, Misfit
    <3>3. ASSUME NEW i \in 1..Len(conf), NEW j \in 1..Len(conf) \ {i}
          PROVE  ~Clash(i, j)
      <4>1. CASE j < i
        BY <2>1, <3>1, <4>1 DEF FirstFault, Misfit
      <4>2. CASE i < j
        <5>1. ~Clash(j, i)
          BY <2>1, <3>1, <4>2 DEF FirstFault, Misfit
        <5> QED
          BY <5>1, ConflictsSymmetric DEF Clash
      <4> QED
        BY <2>1, <4>1, <4>2
    <3> QED
      BY <2>2, <3>2, <3>3 DEF Acceptable
  <2>3. CASE result # "Ok"
    <3>1. idx + 1 \in 1..Len(conf) /\ (Misfit(idx + 1) \/ BadAcl(conf[idx + 1]))
      BY <2>1, <2>3 DEF FirstFault
    <3>2. ~Acceptable
      <4>1. CASE BadAcl(conf[idx + 1])
        BY <3>1, <4>1 DEF Acceptable
      <4>2. CASE ~Readable(conf[idx + 1])
        BY <3>1, <4>2 DEF Acceptable
      <4>3. CASE \E j \in 1..((idx + 1) - 1) : Clash(idx + 1, j)
        <5>1. PICK j \in 1..((idx + 1) - 1) : Clash(idx + 1, j)
          BY <4>3
        <5>2. j \in 1..Len(conf) \ {idx + 1}
          BY <2>1, <3>1
        <5> QED
          BY <3>1, <5>1, <5>2 DEF Acceptable
      <4> QED
        BY <3>1, <4>1, <4>2, <4>3 DEF Misfit
    <3> QED
      BY <2>3, <3>2
  <2> QED
    BY <2>2, <2>3
<1> QED
  BY <1>1, BuiltAlways, FirstFaultReported, PTL

----------------------------------------------------------------------------
(* What the gateway gets from match_request.                               *)

Denied(route)  == IF route.access_control = None THEN {} ELSE route.access_control.deny
Allowed(route) == IF route.access_control = None THEN {} ELSE route.access_control.allow

\* Entry id is that of a configured route that accepts the request, with the
\* addresses of every block of its lists; a list that has blocks has addresses,
\* so that IpRestrictionMiddleware does not take it for no list.
Enforces(id, path, host) ==
  LET e == route_registry[id] IN
  /\ id \in 1..Len(conf) /\ e.conf = conf[id]
  /\ Accepts(conf[id], path, host)
  /\ e.deny = UNION {Blocks[b] : b \in Denied(conf[id])}
  /\ e.allow = UNION {Blocks[b] : b \in Allowed(conf[id])}
  /\ Denied(conf[id]) # {} => e.deny # {}
  /\ Allowed(conf[id]) # {} => e.allow # {}

AnswerEnforced ==
  result = "Ok" =>
    \A path \in Paths, host \in Requesters :
      MatchRequest(path, host) # None =>
        Enforces(MatchRequest(path, host), path, host)

LEMMA AnswerIsId ==
  ASSUME Built, NEW path, NEW host, MatchRequest(path, host) # None
  PROVE  MatchRequest(path, host) \in 1..idx
<1> DEFINE id   == MatchRequest(path, host)
           tree == {t.id : t \in At(path)}
           hits == RegexHits(path, host)
<1>1. ~\E x \in tree : NotExact(x, path)
  BY DEF MatchRequest
<1>2. CASE \E x \in tree : ValidateHost(Conf(x), host)
  <2>1. id \in tree
    BY <1>1, <1>2 DEF MatchRequest
  <2> QED
    BY <2>1 DEF At, Fitting, Built, TypeOK
<1>3. CASE ~\E x \in tree : ValidateHost(Conf(x), host)
  <2>1. hits # {} /\ id = regex_routes[FirstRegex(hits)].id
    BY <1>1, <1>3 DEF MatchRequest
  <2>2. regex_routes \in Seq([re : DOMAIN Matches, id : 1..idx])
    BY DEF Built, TypeOK
  <2>3. Len(regex_routes) \in Nat
        /\ \A k \in 1..Len(regex_routes) : regex_routes[k] \in [re : DOMAIN Matches, id : 1..idx]
    BY <2>2, SeqFacts
  <2>4. FirstRegex(hits) \in hits
    BY <2>1, <2>3, FirstIsHit DEF RegexHits
  <2>5. FirstRegex(hits) \in 1..Len(regex_routes)
    BY <2>4 DEF RegexHits
  <2> QED
    BY <2>1, <2>3, <2>5
<1> QED
  BY <1>2, <1>3

\* A union of blocks that parse has an address.
LEMMA BlocksHaveAddresses ==
  ASSUME NEW S, S \subseteq DOMAIN Blocks, S # {}
  PROVE  UNION {Blocks[b] : b \in S} # {}
<1>1. PICK b \in S : Blocks[b] # {}
  BY BlocksAssumption
<1>2. PICK a \in Blocks[b] : TRUE
  BY <1>1
<1>3. a \in UNION {Blocks[x] : x \in S}
  BY <1>2
<1> QED
  BY <1>3

\* What match_request hands to the middlewares enforces what the configuration
\* says, for every configuration, path and host: the promise that Gateway's
\* Entries stand for.
THEOREM AnswerAlwaysEnforced == Spec => []AnswerEnforced
<1>1. Built /\ MatchSound /\ AclFaithful => AnswerEnforced
  <2> SUFFICES ASSUME Built, MatchSound, AclFaithful, result = "Ok",
                      NEW path \in Paths, NEW host \in Requesters,
                      MatchRequest(path, host) # None
               PROVE  Enforces(MatchRequest(path, host), path, host)
    BY DEF AnswerEnforced
  <2> DEFINE id == MatchRequest(path, host)
  <2>1. id \in 1..idx /\ idx = Len(conf)
    BY AnswerIsId DEF Built, DoneInv
  <2>2. Accepts(conf[id], path, host)
    BY DEF MatchSound
  <2> HIDE DEF id
  <2>3. route_registry[id] = Entry(conf[id])
    BY <2>1 DEF Built, EntriesInv
  <2>4. route_registry[id].conf = conf[id]
    BY <2>3 DEF Entry
  <2>5. /\ route_registry[id].deny = UNION {Blocks[b] : b \in Denied(conf[id])}
        /\ route_registry[id].allow = UNION {Blocks[b] : b \in Allowed(conf[id])}
        /\ Denied(conf[id]) \subseteq DOMAIN Blocks
        /\ Allowed(conf[id]) \subseteq DOMAIN Blocks
    <3>1. CASE conf[id].access_control = None
      BY <2>3, <3>1 DEF Entry, Denied, Allowed
    <3>2. CASE conf[id].access_control # None
      BY <2>1, <3>2 DEF AclFaithful, Denied, Allowed, Listed
    <3> QED
      BY <3>1, <3>2
  <2> QED
    BY <2>1, <2>2, <2>4, <2>5, BlocksHaveAddresses DEF Enforces, id
<1> QED
  BY <1>1, BuiltAlways, MatchAlwaysSound, AclAlwaysFaithful, PTL
=============================================================================
