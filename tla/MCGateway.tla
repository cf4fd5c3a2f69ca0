----------------------------- MODULE MCGateway -----------------------------
(***************************************************************************)
(* Instances of Gateway for TLC: two clients, five routes, three upstreams *)
(* that are configured, bodies around the size limit.                      *)
(***************************************************************************)
EXTENDS Gateway, TLC

CONSTANTS c1, c2

MCClients == {c1, c2}

\* The chain of main.rs, and one with an arbitrary middleware in the middle.
MainChain == <<"metrics", "ip_restriction", "request_size">>
PluginChain == <<"metrics", "ip_restriction", "plugin", "request_size">>

NoPlugin == [h \in Hooks |-> {"Continue"}]
\* One that fails in any hook.
FailingPlugin == [h \in Hooks |-> {"Continue", "Err"}]
\* Any decision anywhere, except that a Stop of its logging hook, which would
\* keep MetricsMiddleware from being called, is left out.
AnyPlugin == [h \in Hooks |-> IF h = "logging" THEN {"Continue", "Err"}
                              ELSE Decisions]

Plain(route, upstream) ==
  [route |-> route, upstream |-> upstream, deny |-> {}, allow |-> {},
   pages |-> {}, addReq |-> {}, removeReq |-> {}, addResp |-> {},
   removeResp |-> {}, preserve |-> FALSE]

\* An open route with pages and header rules, a route with an ACL, and one with
\* an ACL and a page whose upstream id is not configured.
WebRoute == [Plain("web", "static") EXCEPT
               !.pages = {500, 502, 504}, !.addReq = {"x-gateway", "x-debug"},
               !.removeReq = {"x-debug"}, !.addResp = {"hsts"},
               !.removeResp = {"server", "hsts"}, !.preserve = TRUE]
ApiRoute == [Plain("api", "cluster") EXCEPT
               !.allow = {c1, c2}, !.deny = {c2}, !.removeReq = {"host-id"}]
StrayRoute == [Plain("stray", "missing") EXCEPT !.allow = {c1}, !.pages = {500}]

\* Routes whose headers cannot be inserted: the Host, for the SNI of an upstream
\* that is given by name, and a header of the response.
NamedRoute == Plain("named", "named")
OddRoute   == [Plain("odd", "static") EXCEPT !.preserve = TRUE, !.addResp = {"x odd"}]

MCEntries == {WebRoute, ApiRoute, StrayRoute, NamedRoute, OddRoute}
MCUpstreams == {"static", "cluster", "named"}
TwoUpstreams == {"static", "cluster"}
MCPools == {"cluster"}
MCHosts == {"named"}
MCMalformed == {"x odd", "odd sni"}
MCSni == [u \in MCUpstreams |-> CASE u = "cluster" -> "cluster-sni"
                                 [] u = "named" -> "odd sni" [] OTHER -> ""]
MCClientHeaders == {"Host", "x-debug", "host-id"}
MCReplyHeaders == {"server"}

In(e, c, b, d) == [entry |-> e, client |-> c, body |-> b, declared |-> d]

\* Every client for the routes with lists and every body for all of them; one
\* input for each of those whose headers cannot be inserted.
AllInputs ==
  [entry : {ApiRoute, StrayRoute}, client : MCClients \cup {None},
   body : 0..MaxBody, declared : BOOLEAN]
  \cup [entry : {WebRoute, None}, client : {c1}, body : 0..MaxBody, declared : BOOLEAN]
  \cup {In(NamedRoute, c1, 1, TRUE), In(OddRoute, c1, 1, TRUE)}

\* One input per way through the callbacks, for runs with two requests.
FewInputs == {In(WebRoute, c1, 2, TRUE), In(ApiRoute, c1, 3, FALSE),
              In(ApiRoute, c2, 0, FALSE), In(StrayRoute, c1, 0, FALSE),
              In(None, c1, 0, FALSE)}

Interchangeable == Permutations(Requests)
=============================================================================
