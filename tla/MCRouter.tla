------------------------------ MODULE MCRouter ------------------------------
(***************************************************************************)
(* Instances of Router for TLC: every configuration of up to three of the  *)
(* routes below.                                                           *)
(***************************************************************************)
EXTENDS Router, TLC

CONSTANTS h1, h2, a1, a2

Route(type, path) ==
  [path_type |-> type, path |-> path, rooted |-> TRUE, hostnames |-> None,
   access_control |-> None]

Acl(deny, allow) == [deny |-> deny, allow |-> allow]

MCBlocks == [net1 |-> {a1}, all |-> {a1, a2}]
MCHosts == {h1, h2}

MCPaths == {<<"">>, <<"a">>, <<"a", "">>, <<"a", "b">>, <<"b">>, <<"{p}">>,
            <<"a", "b", "a">>}

MCMatches == <<"^/a(/b)?$">> :> {<<"a">>, <<"a", "b">>} @@ <<".*">> :> MCPaths

MCRoutes == {
  Route("Prefix", <<"">>),
  Route("Prefix", <<"a", "b">>),
  [Route("Prefix", <<"a", "{*p}">>) EXCEPT !.hostnames = {h1}],
  [Route("Prefix", <<"{p}">>) EXCEPT !.hostnames = {h1, h2}],
  Route("Prefix", <<"{*p}">>),
  Route("Exact", <<"{p}">>),
  [Route("Exact", <<"a">>) EXCEPT !.hostnames = {h2},
                                  !.access_control = Acl({"net1"}, {"all"})],
  Route("Exact", <<"a", "{p}">>),
  [Route("Prefix", <<"b">>) EXCEPT !.rooted = FALSE],
  [Route("Prefix", <<"b">>) EXCEPT !.access_control = Acl({}, {"net1", "bad"})],
  [Route("Regex", <<"^/a(/b)?$">>) EXCEPT !.hostnames = {h1}],
  [Route("Regex", <<".*">>) EXCEPT !.access_control = Acl({}, {})],
  Route("Regex", <<"[">>)}

MCConfs == UNION {[1..n -> MCRoutes] : n \in 0..3}
=============================================================================
