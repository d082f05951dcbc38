------------------------- MODULE WriteFilterProofs -------------------------
(***************************************************************************)
(* The filter loop finds everything it looks for and cuts the batch before *)
(* the last rejected event, for batches of any length, any attributes in   *)
(* any order and any blacklist.  The inductive invariant LoopInv says what *)
(* is known of the events before the one the loop is at, and of the        *)
(* attributes it has visited.                                              *)
(***************************************************************************)
EXTENDS WriteFilter, TLAPS

BatchLen == Len(batch)
RejectedEvents == {j \in 1..BatchLen : Rejected(j)}

(* CutBeforeLastRejected in the middle of the loop.                        *)
CutInv ==
  IF RejectedEvents = {} THEN cut = BatchLen
  ELSE cut >= 1 /\ cut + 1 \in RejectedEvents /\ \A j \in RejectedEvents : j <= cut + 1

Hit(e, name) ==
  /\ e.attributes[name].textual /\ e.attributes[name].value # Empty
  /\ <<name, e.attributes[name].value>> \in Blacklisted

(* The event the loop is at: neither its source nor an attribute visited.  *)
VisitedInv ==
  phase = "attributes" =>
    /\ i <= BatchLen /\ left \subseteq DOMAIN batch[i].attributes
    /\ <<"source", batch[i].source>> \notin Blacklisted
    /\ <<"type", batch[i].source>> \notin Blacklisted
    /\ \A name \in DOMAIN batch[i].attributes \ left : ~Hit(batch[i], name)

PhaseInv ==
  /\ phase # "end" <=> verdict = "none"
  /\ phase = "parse" => i = 1
  /\ phase \in {"event", "attributes"} => ~internal
  /\ phase = "submit" \/ verdict = "submitted" => internal \/ i = BatchLen + 1

LoopInv ==
  /\ TypeOK /\ PhaseInv /\ VisitedInv
  /\ phase # "end" => \A j \in RejectedEvents : j < i
  /\ verdict # "forbidden" =>
       /\ CutInv
       /\ ~internal =>
            \A j \in 1..BatchLen :
              j < i /\ HasBlacklisted(batch[j]) => j \in RejectedEvents

LEMMA BatchTyped ==
  ASSUME batch \in Batches
  PROVE  /\ BatchLen \in Nat /\ DOMAIN batch = 1..BatchLen
         /\ \A j \in 1..BatchLen : batch[j] \in EventType
  <1>1. PICK n \in 0..MaxLen : batch \in [1..n -> Events]
    BY DEF Batches
  <1>2. batch \in Seq(Events) /\ Len(batch) = n
    BY <1>1, MaxLenAssumption
  <1>3. QED
    BY <1>1, <1>2, MaxLenAssumption, EventsAssumption DEF BatchLen

LEMMA EventTyped ==
  ASSUME NEW e \in EventType
  PROVE  /\ e.source \in Values /\ e.type \in Values /\ DOMAIN e.attributes \subseteq Names
         /\ \A name \in DOMAIN e.attributes : e.attributes[name] \in Attribute
  BY DEF EventType

LEMMA InitLoop == Init => LoopInv
  <1>1. SUFFICES ASSUME Init PROVE LoopInv
    OBVIOUS
  <1>2. BatchLen \in Nat
    BY <1>1, BatchTyped DEF Init
  <1>3. TypeOK
    <2>1. NoCause \in (Names \cup {"", "source", "type"}) \X Values
      BY ValuesAssumption DEF NoCause
    <2>2. cause \in [1..Len(batch) -> (Names \cup {"", "source", "type"}) \X Values]
      BY <1>1, <2>1 DEF Init
    <2>3. /\ i \in 1..(Len(batch) + 1) /\ cut \in 0..Len(batch)
      BY <1>1, <1>2 DEF Init, BatchLen
    <2>4. QED
      BY <1>1, <2>2, <2>3, ValuesAssumption DEF Init, TypeOK
  <1>4. RejectedEvents = {}
    BY <1>1 DEF Init, RejectedEvents, Rejected, BatchLen
  <1>5. CutInv
    BY <1>1, <1>4 DEF Init, CutInv, BatchLen
  <1>6. \A j \in 1..BatchLen : ~(j < i)
    BY <1>1, <1>2 DEF Init
  <1>7. QED
    BY <1>1, <1>3, <1>4, <1>5, <1>6 DEF Init, LoopInv, PhaseInv, VisitedInv

LEMMA OneMore ==
  ASSUME NEW n \in Nat, NEW k \in 1..n, NEW R, \A j \in R : j \in 1..n /\ j < k
  PROVE  /\ k \in R \cup {k}
         /\ \A j \in R \cup {k} : j < k + 1 /\ j <= (k - 1) + 1
         /\ (k - 1) + 1 = k
  OBVIOUS

(* The event the loop is at is rejected: the batch ends before it.         *)
LEMMA RejectStep ==
  ASSUME LoopInv, phase \in {"event", "attributes"}, i <= BatchLen,
         NEW name \in Names \cup {"source", "type"}, NEW value \in Values,
         <<name, value>> # NoCause, Reject(name, value),
         UNCHANGED <<batch, internal>>, left' \subseteq Names, attrValue' \in Values
  PROVE  LoopInv'
  <1>1. /\ TypeOK /\ PhaseInv /\ BatchLen \in Nat /\ i \in 1..BatchLen /\ ~internal
        /\ verdict = "none"
    <2>1. /\ TypeOK /\ PhaseInv
      BY DEF LoopInv
    <2>2. BatchLen \in Nat /\ i \in 1..(BatchLen + 1)
      BY <2>1, BatchTyped DEF TypeOK, BatchLen
    <2>3. ~internal /\ verdict = "none"
      BY <2>1 DEF PhaseInv
    <2>4. QED
      BY <2>1, <2>2, <2>3
  <1>2. BatchLen' = BatchLen
    BY DEF BatchLen
  <1>3. /\ cause' \in [1..BatchLen -> (Names \cup {"", "source", "type"}) \X Values]
        /\ RejectedEvents' = RejectedEvents \cup {i}
    <2>1. /\ cause \in [1..BatchLen -> (Names \cup {"", "source", "type"}) \X Values]
          /\ cause' = [cause EXCEPT ![i] = <<name, value>>]
      BY <1>1 DEF TypeOK, Reject, BatchLen
    <2>2. \A j \in 1..BatchLen : cause'[j] = IF j = i THEN <<name, value>> ELSE cause[j]
      BY <1>1, <2>1
    <2>3. RejectedEvents' = {j \in 1..BatchLen : cause'[j] # NoCause}
      BY <1>2 DEF RejectedEvents, Rejected
    <2>4. RejectedEvents' = RejectedEvents \cup {i}
      BY <1>1, <2>2, <2>3 DEF RejectedEvents, Rejected
    <2>5. QED
      BY <2>1, <2>4
  <1>4. CASE i = 1 /\ phase' = "end" /\ verdict' = "forbidden" /\ UNCHANGED <<i, cut>>
    <2>1. TypeOK'
      BY <1>1, <1>2, <1>3, <1>4 DEF TypeOK, BatchLen
    <2>2. QED
      BY <1>1, <1>4, <2>1 DEF LoopInv, PhaseInv, VisitedInv
  <1>5. CASE i > 1 /\ cut' = i - 1 /\ Advance /\ UNCHANGED verdict
    <2>1. i' = i + 1 /\ phase' = "event" /\ verdict' = "none"
      BY <1>1, <1>5 DEF Advance
    <2>2. TypeOK'
      <3>1. i' \in 1..(BatchLen' + 1) /\ cut' \in 0..BatchLen'
        BY <1>1, <1>2, <1>5, <2>1
      <3>2. cause' \in [1..BatchLen' -> (Names \cup {"", "source", "type"}) \X Values]
        BY <1>2, <1>3
      <3>3. QED
        BY <1>1, <2>1, <3>1, <3>2 DEF TypeOK, BatchLen
    <2>3. \A j \in RejectedEvents : j \in 1..BatchLen /\ j < i
      BY <1>1 DEF RejectedEvents, LoopInv
    <2>4. \A j \in RejectedEvents' : j < i'
      BY <1>1, <1>3, <2>1, <2>3, OneMore
    <2>5. CutInv'
      <3>1. cut' + 1 = i /\ i - 1 >= 1
        BY <1>1, <1>5
      <3>2. i \in RejectedEvents' /\ \A j \in RejectedEvents' : j <= i
        BY <1>1, <1>3, <2>3, OneMore
      <3>3. QED
        BY <1>5, <3>1, <3>2 DEF CutInv
    <2>6. \A j \in 1..BatchLen : j < i' /\ HasBlacklisted(batch[j]) => j \in RejectedEvents'
      <3>1. SUFFICES ASSUME NEW j \in 1..BatchLen, j < i', HasBlacklisted(batch[j])
                     PROVE  j \in RejectedEvents'
        OBVIOUS
      <3>2. CASE j = i
        BY <1>3, <3>2
      <3>3. CASE j # i
        <4>1. j < i
          BY <1>1, <2>1, <3>1, <3>3
        <4>2. j \in RejectedEvents
          BY <1>1, <3>1, <4>1 DEF LoopInv
        <4>3. QED
          BY <1>3, <4>2
      <3>4. QED
        BY <3>2, <3>3
    <2>7. QED
      BY <1>1, <1>2, <2>1, <2>2, <2>4, <2>5, <2>6
      DEF LoopInv, PhaseInv, VisitedInv, HasBlacklisted
  <1>6. QED
    BY <1>4, <1>5 DEF Reject

LEMMA ParseStep == LoopInv /\ Parse => LoopInv'
  <1>1. SUFFICES ASSUME LoopInv, Parse PROVE LoopInv'
    OBVIOUS
  <1>2. /\ TypeOK /\ PhaseInv /\ phase = "parse" /\ verdict = "none" /\ i = 1
        /\ UNCHANGED <<batch, internal, i, cut, left, attrValue, cause>>
        /\ \/ phase' = "end" /\ verdict' = "ignored"
           \/ phase' = (IF internal THEN "submit" ELSE "event") /\ verdict' = verdict
    BY <1>1 DEF LoopInv, PhaseInv, Parse
  <1>3. TypeOK'
    BY <1>2 DEF TypeOK
  <1>4. BatchLen' = BatchLen /\ RejectedEvents' = RejectedEvents
    BY <1>2 DEF RejectedEvents, BatchLen, Rejected
  <1>5. PhaseInv' /\ VisitedInv'
    BY <1>2 DEF PhaseInv, VisitedInv
  <1>6. CutInv' /\ \A j \in RejectedEvents : j < i
    BY <1>1, <1>2, <1>4 DEF LoopInv, CutInv
  <1>7. QED
    BY <1>1, <1>2, <1>3, <1>4, <1>5, <1>6 DEF LoopInv, HasBlacklisted

LEMMA LookUpSourceStep == LoopInv /\ LookUpSource => LoopInv'
  <1>1. SUFFICES ASSUME LoopInv, LookUpSource PROVE LoopInv'
    OBVIOUS
  <1>2. /\ TypeOK /\ PhaseInv /\ phase = "event" /\ UNCHANGED <<batch, internal>>
        /\ BatchLen \in Nat /\ i <= BatchLen
    BY <1>1, BatchTyped DEF LoopInv, LookUpSource, TypeOK, BatchLen
  <1>3. i \in 1..BatchLen
    <2>1. i \in 1..(BatchLen + 1)
      BY <1>2 DEF TypeOK, BatchLen
    <2>2. QED
      BY <1>2, <2>1
  <1>4. /\ batch[i].source \in Values
        /\ DOMAIN batch[i].attributes \subseteq Names
    BY <1>2, <1>3, BatchTyped, EventTyped DEF TypeOK
  <1>5. ASSUME NEW name \in {"source", "type"}, Reject(name, batch[i].source),
               UNCHANGED <<left, attrValue>>
        PROVE  LoopInv'
    <2>1. <<name, batch[i].source>> # NoCause /\ left' \subseteq Names /\ attrValue' \in Values
      BY <1>2, <1>5 DEF NoCause, TypeOK
    <2>2. QED
      BY <1>1, <1>2, <1>4, <1>5, <2>1, RejectStep
  <1>6. CASE /\ \A k \in {"source", "type"} : <<k, batch[i].source>> \notin Blacklisted
             /\ phase' = "attributes"
             /\ left' = DOMAIN batch[i].attributes
             /\ attrValue' = Empty
             /\ UNCHANGED <<i, cut, cause, verdict>>
    <2>1. TypeOK'
      BY <1>2, <1>4, <1>6, ValuesAssumption DEF TypeOK
    <2>2. BatchLen' = BatchLen /\ RejectedEvents' = RejectedEvents
      BY <1>2, <1>6 DEF RejectedEvents, BatchLen, Rejected
    <2>3. PhaseInv'
      BY <1>2, <1>6 DEF PhaseInv
    <2>4. VisitedInv'
      BY <1>2, <1>3, <1>6, <2>2 DEF VisitedInv
    <2>5. CutInv <=> CutInv'
      BY <1>6, <2>2 DEF CutInv
    <2>6. QED
      BY <1>1, <1>2, <1>6, <2>1, <2>2, <2>3, <2>4, <2>5 DEF LoopInv, HasBlacklisted
  <1>7. QED
    BY <1>1, <1>5, <1>6 DEF LookUpSource

LEMMA LookUpAttributeStep == LoopInv /\ LookUpAttribute => LoopInv'
  <1>1. SUFFICES ASSUME LoopInv, LookUpAttribute PROVE LoopInv'
    OBVIOUS
  <1>. DEFINE valueOf(name) == IF batch[i].attributes[name].textual
                              THEN batch[i].attributes[name].value ELSE attrValue
  <1>2. PICK name \in left :
          /\ left' = left \ {name} /\ attrValue' = valueOf(name)
          /\ \/ /\ valueOf(name) # Empty /\ <<name, valueOf(name)>> \in Blacklisted
                /\ Reject(name, valueOf(name))
             \/ /\ ~(valueOf(name) # Empty /\ <<name, valueOf(name)>> \in Blacklisted)
                /\ UNCHANGED <<i, cut, phase, cause, verdict>>
    BY <1>1 DEF LookUpAttribute
  <1>. DEFINE value == valueOf(name)
  <1>3. /\ TypeOK /\ PhaseInv /\ VisitedInv /\ phase = "attributes"
        /\ UNCHANGED <<batch, internal>> /\ BatchLen \in Nat /\ i \in 1..BatchLen
    <2>1. /\ TypeOK /\ VisitedInv /\ PhaseInv /\ phase = "attributes"
          /\ UNCHANGED <<batch, internal>>
      BY <1>1 DEF LoopInv, LookUpAttribute
    <2>2. BatchLen \in Nat /\ i \in 1..(BatchLen + 1)
      BY <2>1, BatchTyped DEF TypeOK, BatchLen
    <2>3. QED
      BY <2>1, <2>2 DEF VisitedInv
  <1>4. /\ name \in Names /\ name \in DOMAIN batch[i].attributes
        /\ batch[i].attributes[name].value \in Values
    BY <1>2, <1>3, BatchTyped, EventTyped DEF VisitedInv, TypeOK, Attribute
  <1>5. value \in Values /\ left' \subseteq Names /\ attrValue' \in Values
    BY <1>2, <1>3, <1>4 DEF TypeOK
  <1>6. CASE value # Empty /\ Reject(name, value)
    <2>1. <<name, value>> # NoCause
      BY <1>6 DEF NoCause
    <2>2. QED
      BY <1>1, <1>3, <1>4, <1>5, <1>6, <2>1, RejectStep
  <1>7. CASE /\ ~(value # Empty /\ <<name, value>> \in Blacklisted)
             /\ UNCHANGED <<i, cut, phase, cause, verdict>>
    <2>1. TypeOK'
      BY <1>3, <1>5, <1>7 DEF TypeOK
    <2>2. BatchLen' = BatchLen /\ RejectedEvents' = RejectedEvents
      BY <1>3, <1>7 DEF RejectedEvents, BatchLen, Rejected
    <2>3. PhaseInv'
      BY <1>3, <1>7 DEF PhaseInv, BatchLen
    <2>4. VisitedInv'
      <3>1. ~Hit(batch[i], name)
        BY <1>2, <1>7 DEF Hit
      <3>2. QED
        BY <1>2, <1>3, <1>7, <2>2, <3>1 DEF VisitedInv, Hit
    <2>5. CutInv <=> CutInv'
      BY <1>7, <2>2 DEF CutInv
    <2>6. QED
      BY <1>1, <1>3, <1>7, <2>1, <2>2, <2>3, <2>4, <2>5 DEF LoopInv, HasBlacklisted
  <1>8. QED
    BY <1>2, <1>6, <1>7

(* The event is clean: nothing of it is blacklisted.                       *)
LEMMA AcceptStep == LoopInv /\ Accept => LoopInv'
  <1>1. SUFFICES ASSUME LoopInv, Accept PROVE LoopInv'
    OBVIOUS
  <1>2. /\ TypeOK /\ PhaseInv /\ VisitedInv /\ phase = "attributes" /\ left = {}
        /\ i' = i + 1 /\ phase' = "event" /\ verdict = "none"
        /\ UNCHANGED <<batch, internal, cut, left, attrValue, cause, verdict>>
    BY <1>1 DEF LoopInv, PhaseInv, Accept, Advance
  <1>3. BatchLen \in Nat /\ i \in 1..BatchLen
    <2>1. BatchLen \in Nat /\ i \in 1..(BatchLen + 1)
      BY <1>2, BatchTyped DEF TypeOK, BatchLen
    <2>2. QED
      BY <1>2, <2>1 DEF VisitedInv
  <1>4. BatchLen' = BatchLen /\ RejectedEvents' = RejectedEvents
    BY <1>2 DEF RejectedEvents, BatchLen, Rejected
  <1>5. TypeOK'
    <2>1. i' \in 1..(BatchLen + 1)
      BY <1>2, <1>3
    <2>2. QED
      BY <1>2, <2>1 DEF TypeOK, BatchLen
  <1>6. PhaseInv' /\ VisitedInv'
    BY <1>2 DEF PhaseInv, VisitedInv
  <1>7. \A j \in RejectedEvents : j \in 1..BatchLen /\ j < i
    BY <1>1, <1>2 DEF LoopInv, RejectedEvents
  <1>8. \A j \in RejectedEvents : j < i'
    BY <1>2, <1>3, <1>7
  <1>9. CutInv'
    BY <1>1, <1>2, <1>4 DEF LoopInv, CutInv
  <1>10. ~HasBlacklisted(batch[i])
    BY <1>2 DEF VisitedInv, HasBlacklisted, Hit
  <1>11. \A j \in 1..BatchLen : j < i' /\ HasBlacklisted(batch[j]) => j \in RejectedEvents
    <2>1. SUFFICES ASSUME NEW j \in 1..BatchLen, j < i', HasBlacklisted(batch[j])
                   PROVE  j \in RejectedEvents
      OBVIOUS
    <2>2. j < i
      <3>1. j # i
        BY <1>10, <2>1
      <3>2. QED
        BY <1>2, <1>3, <2>1, <3>1
    <2>3. ~internal
      BY <1>2 DEF PhaseInv
    <2>4. QED
      BY <1>1, <1>2, <2>1, <2>2, <2>3 DEF LoopInv
  <1>12. QED
    BY <1>2, <1>4, <1>5, <1>6, <1>8, <1>9, <1>11 DEF LoopInv, HasBlacklisted

LEMMA EndStep == LoopInv /\ (EndLoop \/ Submit) => LoopInv'
  <1>1. SUFFICES ASSUME LoopInv, EndLoop \/ Submit PROVE LoopInv'
    OBVIOUS
  <1>2. /\ TypeOK /\ PhaseInv /\ UNCHANGED <<batch, internal, i, cut, left, attrValue, cause>>
        /\ \/ /\ phase = "event" /\ i > BatchLen /\ phase' = "submit" /\ verdict' = verdict
           \/ phase = "submit" /\ phase' = "end" /\ verdict' = "submitted"
    BY <1>1 DEF LoopInv, EndLoop, Submit, BatchLen
  <1>3. BatchLen \in Nat /\ i \in 1..(BatchLen + 1)
    BY <1>2, BatchTyped DEF TypeOK, BatchLen
  <1>4. TypeOK'
    BY <1>2 DEF TypeOK
  <1>5. BatchLen' = BatchLen /\ RejectedEvents' = RejectedEvents
    BY <1>2 DEF RejectedEvents, BatchLen, Rejected
  <1>6. i > BatchLen => i = BatchLen + 1
    BY <1>3
  <1>7. PhaseInv' /\ VisitedInv'
    BY <1>2, <1>5, <1>6 DEF PhaseInv, VisitedInv
  <1>8. verdict = "none"
    BY <1>2 DEF PhaseInv
  <1>9. CutInv'
    BY <1>1, <1>2, <1>5, <1>8 DEF LoopInv, CutInv
  <1>10. QED
    BY <1>1, <1>2, <1>4, <1>5, <1>7, <1>8, <1>9 DEF LoopInv, HasBlacklisted

LEMMA LoopHolds == Spec => []LoopInv
<1>1. LoopInv /\ [Next]_vars => LoopInv'
  <2>1. LoopInv /\ UNCHANGED vars => LoopInv'
    <3>1. SUFFICES ASSUME LoopInv, UNCHANGED vars PROVE LoopInv'
      OBVIOUS
    <3>2. BatchLen' = BatchLen /\ RejectedEvents' = RejectedEvents
      BY <3>1 DEF RejectedEvents, BatchLen, Rejected, vars
    <3>3. TypeOK' /\ PhaseInv' /\ VisitedInv' /\ (CutInv <=> CutInv')
      BY <3>1, <3>2 DEF LoopInv, TypeOK, PhaseInv, VisitedInv, CutInv, Hit, vars
    <3>4. QED
      BY <3>1, <3>2, <3>3 DEF LoopInv, HasBlacklisted, vars
  <2>2. QED
    BY <2>1, ParseStep, LookUpSourceStep, LookUpAttributeStep, AcceptStep, EndStep
    DEF Next, Step, Terminating
<1>2. QED
  BY <1>1, InitLoop, PTL DEF Spec

(* Every variable keeps its type, in particular the slice its bounds.      *)
THEOREM TypeCorrect == Spec => []TypeOK
<1>1. LoopInv => TypeOK
  BY DEF LoopInv
<1>2. QED
  BY <1>1, LoopHolds, PTL

(* The loop misses no blacklisted source or textual attribute.             *)
THEOREM AllFoundHolds == Spec => []AllFound
<1>1. LoopInv => AllFound
  <2>1. SUFFICES ASSUME LoopInv, verdict = "submitted", ~internal,
                        NEW j \in 1..Len(batch), HasBlacklisted(batch[j])
                 PROVE  Rejected(j)
    BY DEF AllFound
  <2>2. BatchLen \in Nat /\ i = BatchLen + 1
    BY <2>1, BatchTyped DEF LoopInv, TypeOK, PhaseInv
  <2>3. j \in 1..BatchLen /\ j < i
    BY <2>1, <2>2 DEF BatchLen
  <2>4. j \in RejectedEvents
    BY <2>1, <2>3 DEF LoopInv
  <2>5. QED
    BY <2>4 DEF RejectedEvents
<1>2. QED
  BY <1>1, LoopHolds, PTL

(* The batch ends before the last rejected event.                          *)
THEOREM CutBeforeLastRejectedHolds == Spec => []CutBeforeLastRejected
<1>1. LoopInv => CutBeforeLastRejected
  BY DEF LoopInv, CutInv, RejectedEvents, BatchLen, CutBeforeLastRejected
<1>2. QED
  BY <1>1, LoopHolds, PTL

(***************************************************************************)
(* When the promises that the loop breaks hold                             *)
(***************************************************************************)

(* The loop rejects at most one event.                                     *)
OneRejected == \A j, k \in 1..Len(batch) : Rejected(j) /\ Rejected(k) => j = k

(* No rejected event is submitted if the loop rejects only one: the cut    *)
(* goes wrong where a later one moves the end of the slice forth again.    *)
THEOREM OneRejectedIsCut == Spec => [](OneRejected => SubmittedNotRejected)
<1>1. LoopInv => (OneRejected => SubmittedNotRejected)
  <2>1. SUFFICES ASSUME LoopInv, OneRejected, verdict = "submitted", NEW j \in 1..cut, Rejected(j)
                 PROVE  FALSE
    BY DEF SubmittedNotRejected
  <2>2. BatchLen \in Nat /\ cut \in 0..BatchLen /\ CutInv
    BY <2>1, BatchTyped DEF LoopInv, TypeOK, BatchLen
  <2>3. j \in 1..BatchLen /\ j \in RejectedEvents
    BY <2>1, <2>2 DEF RejectedEvents
  <2>4. cut + 1 \in RejectedEvents
    BY <2>2, <2>3 DEF CutInv
  <2>5. j = cut + 1
    BY <2>1, <2>3, <2>4 DEF OneRejected, RejectedEvents, BatchLen
  <2>6. QED
    BY <2>1, <2>2, <2>5
<1>2. QED
  BY <1>1, LoopHolds, PTL

(* No attribute of the batch is of another type than the textual ones.     *)
AllTextual ==
  \A j \in 1..Len(batch) : \A name \in DOMAIN batch[j].attributes :
    batch[j].attributes[name].textual

LEMMA RejectedNow ==
  ASSUME TypeOK, i \in 1..Len(batch), RejectedForItsOwn, NEW name, NEW value, Reject(name, value),
         HasBlacklisted(batch[i]), batch' = batch
  PROVE  RejectedForItsOwn'
  <1>1. cause' = [cause EXCEPT ![i] = <<name, value>>]
    BY DEF Reject
  <1>2. \A j \in 1..Len(batch) : j # i => cause'[j] = cause[j]
    BY <1>1 DEF TypeOK
  <1>3. \A j \in 1..Len(batch) : HasBlacklisted(batch[j])' <=> HasBlacklisted(batch[j])
    BY DEF HasBlacklisted
  <1>4. QED
    BY <1>2, <1>3 DEF RejectedForItsOwn, Rejected

LEMMA RejectedKept ==
  ASSUME RejectedForItsOwn, UNCHANGED <<batch, cause>> PROVE RejectedForItsOwn'
  BY DEF RejectedForItsOwn, Rejected, HasBlacklisted

(* Every event that is rejected has what it is rejected for if all of the  *)
(* attributes are textual: only the value that stays from the attribute    *)
(* before is somebody else's.                                              *)
THEOREM TextualRejectedForItsOwn == Spec => [](AllTextual => RejectedForItsOwn)
<1>1. Init => (AllTextual => RejectedForItsOwn)
  BY DEF Init, RejectedForItsOwn, Rejected
<1>2. /\ LoopInv /\ (AllTextual => RejectedForItsOwn) /\ [Next]_vars
      => (AllTextual => RejectedForItsOwn)'
  <2>1. SUFFICES ASSUME LoopInv, AllTextual => RejectedForItsOwn, [Next]_vars, AllTextual'
                 PROVE  RejectedForItsOwn'
    OBVIOUS
  <2>2. batch' = batch
    BY <2>1 DEF Next, Step, Parse, LookUpSource, LookUpAttribute, Accept, EndLoop, Submit,
           Terminating, vars
  <2>3. AllTextual /\ RejectedForItsOwn /\ TypeOK /\ VisitedInv
    BY <2>1, <2>2 DEF AllTextual, LoopInv
  <2>4. BatchLen \in Nat /\ i \in 1..(BatchLen + 1)
    BY <2>3, BatchTyped DEF TypeOK, BatchLen
  <2>5. CASE LookUpSource
    <3>1. i \in 1..Len(batch)
      BY <2>4, <2>5 DEF LookUpSource, BatchLen
    <3>2. CASE cause' = cause
      BY <2>2, <2>3, <3>2, RejectedKept
    <3>3. CASE \E key \in {"source", "type"} :
                 /\ <<key, batch[i].source>> \in Blacklisted
                 /\ \E name : Reject(name, batch[i].source)
      <4>1. HasBlacklisted(batch[i])
        BY <3>3 DEF HasBlacklisted
      <4>2. PICK name, value : Reject(name, value)
        BY <3>3
      <4>3. QED
        BY <2>2, <2>3, <3>1, <4>1, <4>2, RejectedNow
    <3>4. QED
      <4>1. PICK source, keys :
              /\ source = batch[i].source
              /\ keys = {k \in {"source", "type"} : <<k, source>> \in Blacklisted}
        OBVIOUS
      <4>2. CASE keys # {}
        <5>1. \E key \in {"source", "type"} : <<key, batch[i].source>> \in Blacklisted
          BY <4>1, <4>2
        <5>2. \E name : Reject(name, batch[i].source)
          BY <2>5, <4>1, <4>2 DEF LookUpSource
        <5>3. QED
          BY <3>3, <5>1, <5>2
      <4>3. CASE keys = {}
        BY <2>5, <3>2, <4>1, <4>3 DEF LookUpSource
      <4>4. QED
        BY <4>2, <4>3
  <2>6. CASE LookUpAttribute
    <3>1. phase = "attributes" /\ i \in 1..Len(batch) /\ left \subseteq DOMAIN batch[i].attributes
      BY <2>3, <2>4, <2>6 DEF LookUpAttribute, VisitedInv, BatchLen
    <3>2. PICK name \in left :
            LET a == batch[i].attributes[name]
                value == IF a.textual THEN a.value ELSE attrValue
            IN  \/ /\ value # Empty /\ <<name, value>> \in Blacklisted
                   /\ Reject(name, value)
                \/ UNCHANGED cause
      BY <2>6 DEF LookUpAttribute
    <3>3. batch[i].attributes[name].textual
      BY <2>3, <3>1 DEF AllTextual
    <3>4. PICK value : value = batch[i].attributes[name].value
      OBVIOUS
    <3>5. CASE value # Empty /\ <<name, value>> \in Blacklisted /\ \E v : Reject(name, v)
      <4>1. HasBlacklisted(batch[i])
        BY <3>1, <3>3, <3>4, <3>5 DEF HasBlacklisted
      <4>2. PICK v : Reject(name, v)
        BY <3>5
      <4>3. QED
        BY <2>2, <2>3, <3>1, <4>1, <4>2, RejectedNow
    <3>6. CASE cause' = cause
      BY <2>2, <2>3, <3>6, RejectedKept
    <3>7. QED
      BY <3>2, <3>3, <3>4, <3>5, <3>6
  <2>7. CASE Parse \/ Accept \/ EndLoop \/ Submit \/ UNCHANGED vars
    <3>1. cause' = cause
      BY <2>7 DEF Parse, Accept, EndLoop, Submit, vars
    <3>2. QED
      BY <2>2, <2>3, <3>1, RejectedKept
  <2>8. QED
    BY <2>1, <2>5, <2>6, <2>7 DEF Next, Step, Terminating
<1>3. QED
  BY <1>1, <1>2, LoopHolds, PTL DEF Spec
=============================================================================
