--------------------------- MODULE MCClientPools ---------------------------
(* One connection per pool: two publications contend with an internal      *)
(* event for the one to events, and with two reads for those to usage.     *)
EXTENDS ClientPools

SmallKind ==
  [g \in Goroutines |->
     CASE g \in {"p1", "p2"} -> "publish" [] g = "i" -> "internal" [] g \in {"v1", "v2"} -> "read"]

SmallSize == [p \in Pools |-> 1]
=============================================================================
