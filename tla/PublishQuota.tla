---------------------------- MODULE PublishQuota ----------------------------
(***************************************************************************)
(* What the publishing path promises, without calls, permits or replies:   *)
(* every request publishes part of its batch in one step, the published    *)
(* events of an owner never exceed his limit, and the answer, which always *)
(* comes, says whether anything was published.                             *)
(***************************************************************************)
EXTENDS Integers, FiniteSets

CONSTANTS Requests, Owners, Nobody, Limit, MaxBatch

VARIABLES
  owner,         \* whose limit a request counts against, Nobody's if none
  published,     \* request -> events of its batch in the stream
  verdict        \* request -> what the client was told

vars == <<owner, published, verdict>>

Init ==
  /\ owner \in [Requests -> Owners \cup {Nobody}]
  /\ published = [r \in Requests |-> 0]
  /\ verdict = [r \in Requests |-> "none"]

Counted(o, count) ==
  {u \in Requests \X (1..MaxBatch) : owner[u[1]] = o /\ u[2] <= count[u[1]]}

Publish(r, k) ==
  /\ verdict[r] = "none"
  /\ published[r] = 0
  /\ published' = [published EXCEPT ![r] = k]
  /\ owner[r] # Nobody => Cardinality(Counted(owner[r], published')) <= Limit[owner[r]]
  /\ UNCHANGED <<owner, verdict>>

Answer(r) ==
  /\ verdict[r] = "none"
  /\ verdict' = [verdict EXCEPT ![r] = IF published[r] > 0 THEN "accepted" ELSE "refused"]
  /\ UNCHANGED <<owner, published>>

Next == \E r \in Requests : Answer(r) \/ \E k \in 1..MaxBatch : Publish(r, k)

Spec == Init /\ [][Next]_vars

FairSpec == Spec /\ \A r \in Requests : WF_vars(Answer(r))
=============================================================================
