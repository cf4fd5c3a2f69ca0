----------------------------- MODULE MCProxies -----------------------------
(* The proxies of the lessons, on a small instance.                        *)
EXTENDS Proxies

\* Three requests where they compete, one where only the cluster changes;
\* they start over where a lesson keeps something about the attempt.
MCLoad(l) == CASE l \in {37, 38, 48} -> 3
               [] l \in 30..35 \cup {9, 12, 13, 19} -> 1
               [] OTHER -> 2
MCRetries(l) == IF l \in {12, 25, 29, 33, 40} THEN 1 ELSE 0
MCBodies  == UNION {[1..n -> Text] : n \in 0..3}
MCClients == {"good", "bad"}
MCKeys    == {100, 103}
MCOwner(k) == IF k % 3 = 0 THEN "blue" ELSE "green"
============================================================================
