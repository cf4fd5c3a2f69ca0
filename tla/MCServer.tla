------------------------------ MODULE MCServer ------------------------------
(***************************************************************************)
(* Instances of Server for TLC: up to two upstreams, which may share an id *)
(* and are of any source, and one listener.                                *)
(***************************************************************************)
EXTENDS Server

UpTo(n, S) == UNION {[1..k -> S] : k \in 0..n}
MCIds == {"a", "b"}
MCConfs ==
  [upstreams : UpTo(2, [id : MCIds, source : {"static", "dns", "uds"}]),
   listeners : UpTo(1, {"tcp", "tls"}),
   prometheus : BOOLEAN, grace : {None, 0, 1}]
=============================================================================
