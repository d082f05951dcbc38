---------------------------- MODULE WriteFilter ----------------------------
(***************************************************************************)
(* The publishing endpoints of api/http/pub/handler.go up to the call of   *)
(* the publisher: the body is parsed and the loop of handler.write looks   *)
(* every event up in the blacklist, one lookup per step.                   *)
(*                                                                         *)
(* `range evts` walks the batch as it was when the loop began, while       *)
(* `evts = evts[:i]` only moves the end of the slice: `cut` is len(evts),  *)
(* and a later assignment may move it forth again.  Go ranges over a map   *)
(* in any order, so the attributes of an event are visited in any order.   *)
(* Indices start at 1 here.                                                *)
(***************************************************************************)
EXTENDS Integers, Sequences

CONSTANTS
  Events,        \* events that may be published, see EventType
  Values,        \* sources, types and attribute values
  Empty,         \* the empty string, one of them
  Names,         \* attribute names, "source" and "type" aside
  Blacklisted,   \* <<name, value>> that FindOnePrefix finds a prefix of
  MaxLen         \* bound on the events of a batch

(* An attribute is textual (string, uri, uri reference) or of another type,*)
(* whose value is never looked at.                                         *)
Attribute == [textual : BOOLEAN, value : Values]
EventType ==
  [source : Values, type : Values,
   attributes : UNION {[S -> Attribute] : S \in SUBSET Names}]

ASSUME ValuesAssumption == Empty \in Values
ASSUME NamesAssumption == {"source", "type"} \cap Names = {}
ASSUME EventsAssumption == Events \subseteq EventType
ASSUME BlacklistedAssumption ==
  Blacklisted \subseteq (Names \cup {"source", "type"}) \X Values
ASSUME MaxLenAssumption == MaxLen \in Nat

VARIABLES
  batch,         \* the parsed events
  internal,      \* whether the endpoint is WriteInternal
  i,             \* the event the loop is at
  cut,           \* len(evts)
  phase,         \* what is looked up next
  left,          \* attributes of the event not visited yet
  attrValue,     \* the value looked up last
  cause,         \* history: event -> the <<name, value>> it is rejected for
  verdict        \* none, ignored, forbidden or submitted

vars == <<batch, internal, i, cut, phase, left, attrValue, cause, verdict>>

Batches == UNION {[1..n -> Events] : n \in 0..MaxLen}
NoCause == <<"", Empty>>

Init ==
  /\ batch \in Batches
  /\ internal \in BOOLEAN
  /\ internal => Len(batch) = 1
  /\ i = 1
  /\ cut = Len(batch)
  /\ phase = "parse"
  /\ left = {}
  /\ attrValue = Empty
  /\ cause = [j \in 1..Len(batch) |-> NoCause]
  /\ verdict = "none"

(* Write, WriteBatch, WriteInternal: a body that does not parse ends the   *)
(* handler without a word, so gin answers 200; an internal event is not    *)
(* filtered.                                                               *)
Parse ==
  /\ phase = "parse"
  /\ \/ phase' = "end" /\ verdict' = "ignored"
     \/ phase' = (IF internal THEN "submit" ELSE "event") /\ UNCHANGED verdict
  /\ UNCHANGED <<batch, internal, i, cut, left, attrValue, cause>>

(* A defect: the index is advanced twice.                                  *)
AdvanceTwice == i' = i + 2 /\ phase' = "event"

Advance == i' = i + 1 /\ phase' = "event"

(* A defect: the cut keeps the event it is made for.                       *)
RejectAfter(name, value) ==
  /\ cause' = [cause EXCEPT ![i] = <<name, value>>]
  /\ \/ i = 1 /\ phase' = "end" /\ verdict' = "forbidden" /\ UNCHANGED <<i, cut>>
     \/ i > 1 /\ cut' = i /\ Advance /\ UNCHANGED verdict

(* A defect: the loop starts over on the cut batch.                        *)
RejectRestarts(name, value) ==
  /\ cause' = [cause EXCEPT ![i] = <<name, value>>]
  /\ \/ i = 1 /\ phase' = "end" /\ verdict' = "forbidden" /\ UNCHANGED <<i, cut>>
     \/ i > 1 /\ cut' = i - 1 /\ i' = 1 /\ phase' = "event" /\ UNCHANGED verdict

(* The first event rejects the batch, another one cuts it.                 *)
Reject(name, value) ==
  /\ cause' = [cause EXCEPT ![i] = <<name, value>>]
  /\ \/ i = 1 /\ phase' = "end" /\ verdict' = "forbidden" /\ UNCHANGED <<i, cut>>
     \/ i > 1 /\ cut' = i - 1 /\ Advance /\ UNCHANGED verdict

(* The source is looked up under the key of the source, then of the type.  *)
LookUpSource ==
  /\ phase = "event" /\ i <= Len(batch)
  /\ LET source == batch[i].source
         keys == {k \in {"source", "type"} : <<k, source>> \in Blacklisted}
     IN  \/ keys # {} /\ Reject(IF "source" \in keys THEN "source" ELSE "type", source)
            /\ UNCHANGED <<left, attrValue>>
         \/ keys = {}
            /\ phase' = "attributes"
            /\ left' = DOMAIN batch[i].attributes
            /\ attrValue' = Empty
            /\ UNCHANGED <<i, cut, cause, verdict>>
  /\ UNCHANGED <<batch, internal>>

(* A defect: an empty value ends the loop over the attributes.             *)
LookUpAttributeUntilEmpty ==
  /\ phase = "attributes"
  /\ \E name \in left :
       LET a == batch[i].attributes[name]
           value == IF a.textual THEN a.value ELSE attrValue
           found == value # Empty /\ <<name, value>> \in Blacklisted
       IN  /\ left' = IF value = Empty THEN {} ELSE left \ {name}
           /\ attrValue' = value
           /\ \/ found /\ Reject(name, value)
              \/ ~found /\ UNCHANGED <<i, cut, phase, cause, verdict>>
  /\ UNCHANGED <<batch, internal>>

(* One attribute.  attrValue keeps the value of the textual attribute      *)
(* visited before if this one is of another type.                          *)
LookUpAttribute ==
  /\ phase = "attributes"
  /\ \E name \in left :
       LET a == batch[i].attributes[name]
           value == IF a.textual THEN a.value ELSE attrValue
           found == value # Empty /\ <<name, value>> \in Blacklisted
       IN  /\ left' = left \ {name}
           /\ attrValue' = value
           /\ \/ found /\ Reject(name, value)
              \/ ~found /\ UNCHANGED <<i, cut, phase, cause, verdict>>
  /\ UNCHANGED <<batch, internal>>

Accept ==
  /\ phase = "attributes" /\ left = {}
  /\ Advance
  /\ UNCHANGED <<batch, internal, cut, left, attrValue, cause, verdict>>

EndLoop ==
  /\ phase = "event" /\ i > Len(batch)
  /\ phase' = "submit"
  /\ UNCHANGED <<batch, internal, i, cut, left, attrValue, cause, verdict>>

(* The publisher gets the first `cut` events.                              *)
Submit ==
  /\ phase = "submit"
  /\ phase' = "end" /\ verdict' = "submitted"
  /\ UNCHANGED <<batch, internal, i, cut, left, attrValue, cause>>

Step == Parse \/ LookUpSource \/ LookUpAttribute \/ Accept \/ EndLoop \/ Submit

Terminating == phase = "end" /\ UNCHANGED vars

Next == Step \/ Terminating

Spec == Init /\ [][Next]_vars

(* A handler that runs is scheduled until it returns.                      *)
FairSpec == Spec /\ WF_vars(Step)

(***************************************************************************)
(* Properties                                                              *)
(***************************************************************************)

(* Every variable has its type; the slice never grows over the batch.      *)
TypeOK ==
  /\ batch \in Batches
  /\ internal \in BOOLEAN
  /\ i \in 1..(Len(batch) + 1)
  /\ cut \in 0..Len(batch)
  /\ phase \in {"parse", "event", "attributes", "submit", "end"}
  /\ left \subseteq Names
  /\ attrValue \in Values
  /\ cause \in [1..Len(batch) -> (Names \cup {"", "source", "type"}) \X Values]
  /\ verdict \in {"none", "ignored", "forbidden", "submitted"}

Rejected(j) == cause[j] # NoCause

(* What the code rejects an event for in whichever order it visits the     *)
(* attributes.                                                             *)
HasBlacklisted(e) ==
  \/ <<"source", e.source>> \in Blacklisted
  \/ <<"type", e.source>> \in Blacklisted
  \/ \E name \in DOMAIN e.attributes :
       LET a == e.attributes[name]
       IN  a.textual /\ a.value # Empty /\ <<name, a.value>> \in Blacklisted

(* The loop misses nothing: when a batch is submitted, each of its events  *)
(* with a blacklisted source or textual attribute was found, although the  *)
(* loop over the attributes is left early and carries a value along.       *)
AllFound ==
  verdict = "submitted" /\ ~internal =>
    \A j \in 1..Len(batch) : HasBlacklisted(batch[j]) => Rejected(j)

(* Where the batch is cut: right before the last rejected event, never     *)
(* without one, and never before the first event.                          *)
CutBeforeLastRejected ==
  verdict = "submitted" =>
    LET rejected == {j \in 1..Len(batch) : Rejected(j)}
    IN  IF rejected = {} THEN cut = Len(batch)
        ELSE cut >= 1 /\ cut + 1 \in rejected /\ \A j \in rejected : j <= cut + 1

(* Every request is decided, whatever is blacklisted.                      *)
Decided == <>(verdict # "none")

(* "truncate the batch" (handler.go:142): no rejected event is submitted.  *)
SubmittedNotRejected ==
  verdict = "submitted" => \A j \in 1..cut : ~Rejected(j)

(* The key "type:" and the attribute "type" with the value evt.Type of the *)
(* rejection (handler.go:106, 131-132): no event with a blacklisted type   *)
(* is submitted.                                                           *)
SubmittedTypesAllowed ==
  verdict = "submitted" /\ ~internal =>
    \A j \in 1..cut : <<"type", batch[j].type>> \notin Blacklisted

(* "rejected by blacklist prefix ..., attribute: %s=%s" (handler.go:138):  *)
(* a rejected event has what it is rejected for.                           *)
RejectedForItsOwn ==
  \A j \in 1..Len(batch) : Rejected(j) => HasBlacklisted(batch[j])
=============================================================================
