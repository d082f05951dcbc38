----------------------------- MODULE MCGateway -----------------------------
(* Four loads of the replica: internal events that contend for the limiter,*)
(* one next to a batch and a request that is turned away, two batches      *)
(* against one limit next to a source, and two logins next to a batch that *)
(* is rejected.                                                            *)
EXTENDS Gateway, TLC

Event(bad, user, group) == [bad |-> bad, user |-> user, group |-> group]

Query(route, user, batch) ==
  [route |-> route, header |-> "bearer", user |-> user, group |-> "g",
   parses |-> TRUE, batch |-> batch]

(* Events with nobody's ids, with somebody else's, and a rejected one.     *)
Plain == Event(FALSE, "", "")
Forged == Event(FALSE, "v", "h")
Bad == Event(TRUE, "", "")

Internal(user) == Query("internal", user, <<Forged>>)

Load(i, j, k) == "i" :> i @@ "j" :> j @@ "k" :> k

SmallWorkloads == {
  Load(Internal("u"), Internal("v"), [Internal("u") EXCEPT !.parses = FALSE]),
  Load(Internal("u"), [Query("write", "u", <<>>) EXCEPT !.header = "other"],
       Query("write", "u", <<Forged, Plain, Bad>>)),
  Load(Query("source", "u", <<>>), Query("write", "u", <<Plain>>),
       Query("write", "u", <<Forged, Bad>>)),
  Load(Query("login", "v", <<>>), [Query("login", "v", <<>>) EXCEPT !.parses = FALSE],
       Query("write", "v", <<Bad, Plain>>))}

SmallLimit == [o \in {"u", ""} |-> IF o = "u" THEN 1 ELSE 2]
=============================================================================
