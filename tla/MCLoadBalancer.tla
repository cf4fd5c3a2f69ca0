--------------------------- MODULE MCLoadBalancer ---------------------------
(***************************************************************************)
(* Instances of LoadBalancer for TLC: two backends, two requests.          *)
(***************************************************************************)
EXTENDS LoadBalancer

CONSTANTS b1, b2, r1, r2

TwoBackends == {b1, b2}
StaticFound == {{b1, b2}}
\* A discovery whose answers grow, shrink, swap and empty the pool.
AnyFound == SUBSET {b1, b2}

MCKeys == {"", "s1", "s2"}
\* The rings repeat backends, as those of weighted backends do.
MCRing == [k \in MCKeys |-> IF k = "s1" THEN <<b1, b1, b2>> ELSE <<b2, b1, b2>>]

NoHash == [type |-> "none", name |-> ""]
CookieHash == [type |-> "cookie", name |-> "sid"]

Cookie(n, v) == [name |-> n, value |-> v]
Q(client, cookies) ==
  [client |-> client, cookies |-> cookies, uri |-> "", headers |-> <<>>]

\* The same session twice, once with another cookie before its own.
SessionInput ==
  [r \in {r1, r2} |->
     IF r = r1 THEN Q("s1", <<Cookie("sidecar", "s2"), Cookie("sid", "s1")>>)
               ELSE Q("s2", <<Cookie("sid", "s1"), Cookie("sid", "s2")>>)]
=============================================================================
