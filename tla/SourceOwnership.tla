-------------------------- MODULE SourceOwnership --------------------------
(***************************************************************************)
(* What the source handlers promise together, whoever asks for what at the *)
(* same time and whichever answers are lost: every request changes at most *)
(* one source, and at most once, however late; a source that is there is   *)
(* nobody's to take; only who owned it while he asks takes it away; and    *)
(* who is told of his change, or refused, is told the truth for good.      *)
(***************************************************************************)
CONSTANTS Requests, Sources, Users, Absent

VARIABLES
  asked,         \* request -> the change it asks for
  owner,         \* source -> its owner, or Absent
  since,         \* request -> owners of its source since it began
  changed,       \* requests whose change is made
  told           \* request -> what it was answered, or "none"

vars == <<owner, since, changed, told, asked>>

NoChange == [op |-> "none"]
Answers == {"changed", "refused", "unknown"}
Changes == [op : {"add", "remove"}, source : Sources, user : Users]

Init ==
  /\ asked \in [Requests -> Changes \cup {NoChange}]
  /\ owner \in [Sources -> Users \cup {Absent}]
  /\ since = [r \in Requests |-> {}]
  /\ changed = {}
  /\ told = [r \in Requests |-> "none"]

Begin(r) ==
  /\ told[r] = "none" /\ since[r] = {} /\ asked[r] # NoChange
  /\ since' = [since EXCEPT ![r] = {owner[asked[r].source]}]
  /\ UNCHANGED <<owner, changed, told, asked>>

(* The change that r asks for, which gives its source the owner o.         *)
Change(r, o) ==
  /\ r \notin changed /\ since[r] # {} /\ told[r] # "refused"
  /\ changed' = changed \cup {r}
  /\ owner' = [owner EXCEPT ![asked[r].source] = o]
  /\ since' = [q \in Requests |->
                 IF since[q] # {} /\ asked[q].source = asked[r].source
                 THEN since[q] \cup {o} ELSE since[q]]
  /\ UNCHANGED <<told, asked>>

Add(r) ==
  /\ asked[r].op = "add"
  /\ owner[asked[r].source] = Absent
  /\ Change(r, asked[r].user)

Remove(r) ==
  /\ asked[r].op = "remove"
  /\ owner[asked[r].source] # Absent
  /\ asked[r].user \in since[r]
  /\ Change(r, Absent)

Answer(r) ==
  /\ told[r] = "none"
  /\ told' \in [Requests -> Answers \cup {"none"}]
  /\ told'[r] # "none" /\ \A q \in Requests \ {r} : told'[q] = told[q]
  /\ told'[r] = "changed" => r \in changed
  /\ told'[r] = "refused" => r \notin changed
  /\ UNCHANGED <<owner, since, changed, asked>>

Next == \E r \in Requests : Begin(r) \/ Add(r) \/ Remove(r) \/ Answer(r)

Spec == Init /\ [][Next]_vars
=============================================================================
