------------------------ MODULE SourceHandlerProofs ------------------------
(***************************************************************************)
(* The safety of the source handlers, for any requests, users, sources and *)
(* codes.  The inductive invariant Inv follows one request at a time: what *)
(* its calls on the way may still do, and what its reply says about the    *)
(* registry.                                                               *)
(***************************************************************************)
EXTENDS SourceHandler, TLAPS

(* A call of r that may yet change a registry.                             *)
Pending(r) == \E m \in net : m.r = r /\ m.call \in Changing

Unchanged(r) == r \notin added \cup removed /\ ~Pending(r)

(* Which calls a request makes.                                            *)
Fits(r, call) ==
  /\ call = "create" => req[r].op = "create"
  /\ call = "delete" => req[r].op = "delete"
  /\ call \in {"limit", "usage"} => req[r].op = "read"
  /\ call = "list" => req[r].op = "list"

RequestInv(r) ==
  /\ Fits(r, pc[r])
  /\ pc[r] \notin {"create", "delete", "done"} => Unchanged(r)
  /\ pc[r] \in Changing =>
       IF reply[r].has
       THEN /\ ~Pending(r)
            /\ reply[r].code = "OK" => r \in added \cup removed
            /\ reply[r].code # "OK" => r \notin added \cup removed
       ELSE r \notin added \cup removed
  /\ pc[r] \in {"idle", "done"} => ~reply[r].has
  /\ http[r] # 0 => pc[r] = "done"
  /\ http[r] \in Refusals => Unchanged(r)
  /\ http[r] = 201 /\ req[r].op = "create" => r \in added \cup removed
  /\ http[r] = 200 /\ req[r].op = "delete" => r \in added \cup removed
  /\ r \in added => req[r].op = "create"
  /\ r \in removed => req[r].op = "delete"

(* What a request knows of the owners of its source.                       *)
SeenInv(r) ==
  /\ pc[r] = "idle" => seen[r] = {}
  /\ pc[r] \notin {"idle", "done"} => seen[r] # {}
  /\ seen[r] # {} => Key(r) \in Keys /\ registry[Key(r)] \in seen[r]
  /\ result[r] # NoUser => result[r] \in seen[r]
  /\ pc[r] = "read" /\ reply[r].has /\ reply[r].code = "OK" => reply[r].owner \in seen[r]
  /\ shown[r] # NoUser => shown[r] = req[r].user /\ shown[r] \in seen[r]

MessageInv(m) ==
  /\ Fits(m.r, m.call)
  /\ seen[m.r] # {}
  /\ m.call = "delete" /\ req[m.r].type = "tgch" => req[m.r].user \in seen[m.r]

Inv ==
  /\ TypeOK
  /\ \A r \in Requests : RequestInv(r) /\ SeenInv(r)
  /\ \A m \in net : MessageInv(m)

(***************************************************************************)
(* Calls and their ends                                                    *)
(***************************************************************************)

LEMMA InitInv == Init => Inv
  BY QueriesAssumption, UsersAssumption
  DEF Init, Inv, TypeOK, RequestInv, SeenInv, Fits, Unchanged, Pending, NoReply, Refusals,
      Changing, Calls, QueryType

(* What an outcome says: success only with a reply; a refusal with a reply *)
(* of that code, or with a call that is gone.                              *)
LEMMA OutcomeSays ==
  ASSUME TypeOK, NEW r \in Requests, NEW e \in Outcomes(r)
  PROVE  /\ e.left \subseteq net
         /\ \A m \in net \ e.left : m.r = r /\ m.call = pc[r]
         /\ e.code = "OK" => /\ reply[r].has /\ reply[r].code = "OK"
                             /\ e.owner = reply[r].owner
         /\ e.code \notin Lost \cup {"OK"} =>
              \/ reply[r].has /\ reply[r].code = e.code
              \/ \E m \in net : m.r = r /\ m.call = pc[r] /\ m \notin e.left
  <1>1. CASE /\ reply[r].has
             /\ e = [code |-> reply[r].code, owner |-> reply[r].owner, left |-> net]
    BY <1>1
  <1>2. ASSUME NEW c \in Refused, NEW m \in net, m.r = r, m.call = pc[r],
               e = [code |-> c, owner |-> NoUser, left |-> net \ {m}]
        PROVE  /\ e.left \subseteq net
               /\ \A n \in net \ e.left : n.r = r /\ n.call = pc[r]
               /\ e.code # "OK" /\ m \notin e.left
    BY <1>2, CodesAssumption
  <1>3. ASSUME NEW c \in Lost,
               e = [code |-> c, owner |-> NoUser,
                    left |-> net \ {m \in net : /\ m.r = r /\ m.call = pc[r]
                                                /\ m.call \notin Changing}]
        PROVE  /\ e.left \subseteq net
               /\ \A n \in net \ e.left : n.r = r /\ n.call = pc[r]
               /\ e.code # "OK" /\ e.code \in Lost
    BY <1>3, CodesAssumption
  <1>4. \/ <1>1!1
        \/ \E c \in Refused : \E m \in net :
             /\ m.r = r /\ m.call = pc[r]
             /\ e = [code |-> c, owner |-> NoUser, left |-> net \ {m}]
        \/ \E c \in Lost :
             e = [code |-> c, owner |-> NoUser,
                  left |-> net \ {m \in net : /\ m.r = r /\ m.call = pc[r]
                                              /\ m.call \notin Changing}]
    BY DEF Outcomes
  <1>5. QED
    BY <1>1, <1>2, <1>3, <1>4

(* A refused create or delete did nothing and never will.                  *)
LEMMA RefusedForGood ==
  ASSUME Inv, NEW r \in Requests, NEW e \in Outcomes(r), pc[r] \in Changing,
         e.code \notin Lost \cup {"OK"}
  PROVE  /\ r \notin added \cup removed
         /\ \A m \in e.left : m.r # r \/ m.call \notin Changing
  <1>1. TypeOK /\ RequestInv(r) /\ \A m \in net : MessageInv(m)
    BY DEF Inv
  <1>2. CASE reply[r].has /\ reply[r].code = e.code
    BY <1>1, <1>2, OutcomeSays DEF RequestInv, Pending
  <1>3. ASSUME NEW m \in net, m.r = r, m.call = pc[r], m \notin e.left
        PROVE  /\ r \notin added \cup removed
               /\ \A n \in e.left : n.r # r \/ n.call \notin Changing
    <2>1. ~reply[r].has /\ r \notin added \cup removed
      BY <1>1, <1>3 DEF RequestInv, Pending
    <2>2. ASSUME NEW n \in e.left, n.r = r, n.call \in Changing PROVE FALSE
      <3>1. n \in net
        BY <1>1, OutcomeSays
      <3>2. n.call = m.call
        BY <1>1, <1>3, <2>2, <3>1 DEF MessageInv, Fits, Changing
      <3>3. n = m
        BY <1>1, <1>3, <2>2, <3>1, <3>2 DEF TypeOK
      <3>4. QED
        BY <1>3, <3>3
    <2>3. QED
      BY <2>1, <2>2
  <1>4. QED
    BY <1>1, <1>2, <1>3, OutcomeSays

(***************************************************************************)
(* The handlers                                                            *)
(***************************************************************************)

(* What a handler does for r is of no concern to the other requests.       *)
LEMMA OthersKept ==
  ASSUME Inv, NEW r \in Requests, UNCHANGED <<req, registry, added, removed>>,
         \A q \in Requests \ {r} :
           /\ pc'[q] = pc[q] /\ http'[q] = http[q] /\ reply'[q] = reply[q]
           /\ result'[q] = result[q] /\ shown'[q] = shown[q] /\ seen'[q] = seen[q],
         \A m \in net' : m \in net \/ m.r = r
  PROVE  \A q \in Requests \ {r} : RequestInv(q)' /\ SeenInv(q)'
  <1>1. SUFFICES ASSUME NEW q \in Requests \ {r} PROVE RequestInv(q)' /\ SeenInv(q)'
    OBVIOUS
  <1>2. RequestInv(q) /\ SeenInv(q)
    BY DEF Inv
  <1>3. Pending(q)' => Pending(q)
    BY DEF Pending
  <1>4. Key(q)' = Key(q)
    BY DEF Key
  <1>5. RequestInv(q)'
    BY <1>2, <1>3 DEF RequestInv, Unchanged, Fits
  <1>6. SeenInv(q)'
    BY <1>2, <1>4 DEF SeenInv
  <1>7. QED
    BY <1>5, <1>6

(* The calls on the way keep what holds of them, and so do their copies.   *)
LEMMA MessagesKept ==
  ASSUME Inv, UNCHANGED req, \A q \in Requests : seen[q] \subseteq seen'[q]
  PROVE  \A m \in net : MessageInv(m)'
  BY DEF Inv, TypeOK, MessageInv, Fits

(* A call of r ends the request.                                           *)
LEMMA EndsRequest ==
  ASSUME Inv, NEW r \in Requests, NEW call \in Calls, Ends(r, call),
         NEW e \in Outcomes(r), NEW status \in {200, 201, 400, 403, 404, 409, 500},
         Respond(r, e.left, status), UNCHANGED result,
         shown' \in [Requests -> Users],
         \A q \in Requests \ {r} : shown'[q] = shown[q],
         shown'[r] # NoUser => shown'[r] = req[r].user /\ shown'[r] \in seen[r],
         status \in Refusals => r \notin added \cup removed
                               /\ \A m \in e.left : m.r # r \/ m.call \notin Changing,
         status = 201 /\ req[r].op = "create" => r \in added \cup removed,
         status = 200 /\ req[r].op = "delete" => r \in added \cup removed
  PROVE  Inv'
  <1>1. /\ TypeOK /\ RequestInv(r) /\ SeenInv(r) /\ e.left \subseteq net
    BY OutcomeSays DEF Inv
  <1>2. /\ pc' = [pc EXCEPT ![r] = "done"] /\ http' = [http EXCEPT ![r] = status]
        /\ net' = e.left /\ reply' = [reply EXCEPT ![r] = NoReply]
        /\ UNCHANGED <<req, registry, added, removed, seen>>
    BY DEF Respond, Ends, registries
  <1>3. TypeOK'
    BY <1>1, <1>2, UsersAssumption DEF TypeOK, NoReply
  <1>4. RequestInv(r)'
    BY <1>1, <1>2 DEF TypeOK, RequestInv, Unchanged, Pending, Fits, NoReply, Changing
  <1>5. SeenInv(r)'
    BY <1>1, <1>2 DEF TypeOK, SeenInv, Key
  <1>6. \A q \in Requests \ {r} : RequestInv(q)' /\ SeenInv(q)'
    BY <1>1, <1>2, OthersKept DEF TypeOK
  <1>7. \A m \in net' : MessageInv(m)'
    BY <1>1, <1>2, MessagesKept
  <1>8. QED
    BY <1>3, <1>4, <1>5, <1>6, <1>7 DEF Inv

(* The call of r that ended is followed by another one.                    *)
LEMMA EndsInCall ==
  ASSUME Inv, NEW r \in Requests, NEW call \in Calls \ Changing, Ends(r, call), NEW e \in Outcomes(r),
         NEW next \in {"limit", "usage", "delete"}, Call(r, e.left, next), Fits(r, next),
         result' \in [Requests -> Users], \A q \in Requests \ {r} : result'[q] = result[q],
         result'[r] # NoUser => result'[r] \in seen[r],
         next = "delete" /\ req[r].type = "tgch" => req[r].user \in seen[r]
  PROVE  Inv'
  <1>1. /\ TypeOK /\ RequestInv(r) /\ SeenInv(r) /\ e.left \subseteq net /\ pc[r] = call
    BY OutcomeSays DEF Inv, Ends
  <1>2. /\ pc' = [pc EXCEPT ![r] = next] /\ UNCHANGED <<http, shown>>
        /\ net' = e.left \cup {[r |-> r, call |-> next]}
        /\ reply' = [reply EXCEPT ![r] = NoReply]
        /\ UNCHANGED <<req, registry, added, removed, seen>>
    BY DEF Call, Ends, registries
  <1>3. call \notin {"create", "delete", "idle", "done"} /\ Unchanged(r) /\ http[r] = 0
    BY <1>1 DEF RequestInv, Changing, Calls
  <1>4. TypeOK'
    BY <1>1, <1>2, UsersAssumption DEF TypeOK, NoReply, Calls, Changing
  <1>5. pc'[r] = next /\ ~reply'[r].has
    BY <1>1, <1>2 DEF TypeOK, NoReply
  <1>6. next \notin Changing => ~Pending(r)'
    BY <1>1, <1>2, <1>3 DEF Unchanged, Pending
  <1>7. RequestInv(r)'
    BY <1>1, <1>2, <1>3, <1>5, <1>6 DEF RequestInv, Unchanged, Fits, Changing, Refusals
  <1>8. SeenInv(r)'
    BY <1>1, <1>2, <1>3, <1>5 DEF TypeOK, SeenInv, Key
  <1>9. \A q \in Requests \ {r} : RequestInv(q)' /\ SeenInv(q)'
    BY <1>1, <1>2, OthersKept DEF TypeOK
  <1>10. MessageInv([r |-> r, call |-> next])'
    BY <1>1, <1>2, <1>3 DEF MessageInv, Fits, SeenInv
  <1>11. \A m \in net' : MessageInv(m)'
    BY <1>1, <1>2, <1>10, MessagesKept
  <1>12. QED
    BY <1>4, <1>7, <1>8, <1>9, <1>11 DEF Inv

LEMMA BeginStep == ASSUME Inv, NEW r \in Requests, Begin(r) PROVE Inv'
  <1>1. /\ TypeOK /\ RequestInv(r) /\ SeenInv(r) /\ pc[r] = "idle"
        /\ UNCHANGED <<req, result, reply, registry, added, removed>>
    BY DEF Inv, Begin
  <1>2. /\ seen[r] = {} /\ http[r] = 0 /\ Unchanged(r) /\ ~reply[r].has
        /\ result[r] = NoUser /\ shown[r] = NoUser
    BY <1>1 DEF RequestInv, SeenInv, Refusals, Changing
  <1>3. req[r] \in QueryType
    BY <1>1, QueriesAssumption DEF TypeOK
  <1>4. ASSUME NEW status \in {400, 500}, Refuse(r, net, status), UNCHANGED seen PROVE Inv'
    <2>1. /\ pc' = [pc EXCEPT ![r] = "done"] /\ http' = [http EXCEPT ![r] = status]
          /\ net' = net /\ UNCHANGED <<shown, seen>>
      BY <1>4 DEF Refuse, Respond
    <2>2. TypeOK'
      BY <1>1, <2>1 DEF TypeOK
    <2>3. RequestInv(r)'
      BY <1>1, <1>2, <2>1 DEF TypeOK, RequestInv, Unchanged, Pending, Fits, Changing
    <2>4. SeenInv(r)'
      BY <1>1, <1>2, <2>1 DEF TypeOK, SeenInv, Key
    <2>5. \A q \in Requests \ {r} : RequestInv(q)' /\ SeenInv(q)'
      BY <1>1, <2>1, OthersKept DEF TypeOK
    <2>6. \A m \in net' : MessageInv(m)'
      BY <1>1, <2>1, MessagesKept
    <2>7. QED
      BY <2>2, <2>3, <2>4, <2>5, <2>6 DEF Inv
  <1>5. ASSUME NEW call \in Calls, Call(r, net, call), Fits(r, call), Key(r) \in Keys,
               call = "delete" => req[r].type # "tgch",
               seen' = [seen EXCEPT ![r] = {registry[Key(r)]}]
        PROVE  Inv'
    <2>1. /\ pc' = [pc EXCEPT ![r] = call] /\ UNCHANGED <<http, shown>>
          /\ net' = net \cup {[r |-> r, call |-> call]}
      BY <1>5 DEF Call
    <2>2. TypeOK'
      BY <1>1, <1>5, <2>1 DEF TypeOK
    <2>3. pc'[r] = call /\ call \notin {"idle", "done"} /\ seen'[r] = {registry[Key(r)]}
      BY <1>1, <1>5, <2>1 DEF TypeOK, Calls, Changing
    <2>4. call \notin Changing => ~Pending(r)'
      BY <1>1, <1>2, <2>1 DEF Unchanged, Pending
    <2>5. RequestInv(r)'
      BY <1>1, <1>2, <1>5, <2>1, <2>3, <2>4 DEF RequestInv, Unchanged, Fits, Changing, Refusals
    <2>6. SeenInv(r)'
      BY <1>1, <1>2, <1>5, <2>1, <2>3 DEF SeenInv, Key
    <2>7. \A q \in Requests \ {r} : RequestInv(q)' /\ SeenInv(q)'
      BY <1>1, <1>5, <2>1, OthersKept DEF TypeOK
    <2>8. \A q \in Requests : seen[q] \subseteq seen'[q]
      BY <1>1, <1>2, <1>5 DEF TypeOK
    <2>9. MessageInv([r |-> r, call |-> call])'
      BY <1>1, <1>5, <2>3 DEF MessageInv, Fits
    <2>10. \A m \in net' : MessageInv(m)'
      BY <1>1, <2>1, <2>8, <2>9, MessagesKept
    <2>11. QED
      BY <2>2, <2>5, <2>6, <2>7, <2>10 DEF Inv
  <1>6. CASE ~\E status \in {400, 500} : Refuse(r, net, status) /\ UNCHANGED seen
    <2>1. PICK call : call = IF req[r].op = "delete" /\ req[r].type = "tgch" THEN "read"
                             ELSE req[r].op
      OBVIOUS
    <2>2. /\ Call(r, net, call) /\ seen' = [seen EXCEPT ![r] = {registry[Key(r)]}]
          /\ Supported(req[r])
      BY <1>6, <2>1 DEF Begin, Unserved, Sent
    <2>3. Key(r) \in Keys
      BY <1>1, <2>2, QueriesAssumption DEF TypeOK, Key
    <2>4. /\ call \in Calls /\ Fits(r, call)
          /\ call = "delete" => req[r].type # "tgch"
      BY <1>3, <2>1 DEF QueryType, Calls, Changing, Fits
    <2>5. QED
      BY <1>5, <2>2, <2>3, <2>4
  <1>7. QED
    BY <1>4, <1>6

(* Success and refusals of a call that changes a registry.                 *)
LEMMA CreateEndsStep == ASSUME Inv, NEW r \in Requests, CreateEnds(r) PROVE Inv'
  <1>1. PICK e \in Outcomes(r) : Refuse(r, e.left, CreateStatus(e.code))
    BY DEF CreateEnds
  <1>2. /\ TypeOK /\ RequestInv(r) /\ SeenInv(r) /\ pc[r] = "create"
        /\ Ends(r, "create") /\ UNCHANGED <<result, shown>>
    BY <1>1 DEF Inv, CreateEnds, Ends, Refuse
  <1>3. CreateStatus(e.code) \in {201, 400, 403, 409, 500}
    BY DEF CreateStatus
  <1>4. CreateStatus(e.code) \in Refusals => e.code \notin Lost \cup {"OK"}
    BY CodesAssumption DEF CreateStatus, Refusals
  <1>5. e.code = "OK" => r \in added \cup removed
    BY <1>2, OutcomeSays DEF RequestInv, Changing
  <1>6. CreateStatus(e.code) = 201 => r \in added \cup removed
    BY <1>5 DEF CreateStatus
  <1>7. CreateStatus(e.code) \in Refusals =>
          r \notin added \cup removed /\ \A m \in e.left : m.r # r \/ m.call \notin Changing
    BY <1>2, <1>4, RefusedForGood DEF Changing
  <1>8. Respond(r, e.left, CreateStatus(e.code)) /\ "create" \in Calls
    BY <1>1 DEF Refuse, Calls, Changing
  <1>9. QED
    BY <1>2, <1>3, <1>6, <1>7, <1>8, EndsRequest DEF TypeOK, SeenInv

LEMMA DeleteEndsStep == ASSUME Inv, NEW r \in Requests, DeleteEnds(r) PROVE Inv'
  <1>1. PICK e \in Outcomes(r) : Refuse(r, e.left, DeleteStatus(e.code))
    BY DEF DeleteEnds
  <1>2. /\ TypeOK /\ RequestInv(r) /\ SeenInv(r) /\ pc[r] = "delete"
        /\ Ends(r, "delete") /\ UNCHANGED <<result, shown>>
    BY <1>1 DEF Inv, DeleteEnds, Ends, Refuse
  <1>3. DeleteStatus(e.code) \in {200, 404, 500}
    BY DEF DeleteStatus
  <1>4. DeleteStatus(e.code) \in Refusals => e.code \notin Lost \cup {"OK"}
    BY CodesAssumption DEF DeleteStatus, Refusals
  <1>5. e.code = "OK" => r \in added \cup removed
    BY <1>2, OutcomeSays DEF RequestInv, Changing
  <1>6. DeleteStatus(e.code) = 200 => r \in added \cup removed
    BY <1>5 DEF DeleteStatus
  <1>7. DeleteStatus(e.code) \in Refusals =>
          r \notin added \cup removed /\ \A m \in e.left : m.r # r \/ m.call \notin Changing
    BY <1>2, <1>4, RefusedForGood DEF Changing
  <1>8. Respond(r, e.left, DeleteStatus(e.code)) /\ "delete" \in Calls
    BY <1>1 DEF Refuse, Calls, Changing
  <1>9. QED
    BY <1>2, <1>3, <1>6, <1>7, <1>8, EndsRequest DEF TypeOK, SeenInv

(* Refusals before and after calls that change nothing.                    *)
LEMMA QuietRefusal ==
  ASSUME Inv, NEW r \in Requests, NEW call \in Calls \ Changing, Ends(r, call),
         NEW e \in Outcomes(r), NEW status \in {200, 403, 404, 500}, Refuse(r, e.left, status),
         UNCHANGED result, status = 200 => req[r].op # "delete"
  PROVE  Inv'
  <1>1. /\ TypeOK /\ RequestInv(r) /\ SeenInv(r) /\ pc[r] = call /\ UNCHANGED shown
        /\ Respond(r, e.left, status) /\ e.left \subseteq net
    BY OutcomeSays DEF Inv, Ends, Refuse
  <1>2. Unchanged(r)
    BY <1>1 DEF RequestInv, Changing, Calls
  <1>3. r \notin added \cup removed /\ \A m \in e.left : m.r # r \/ m.call \notin Changing
    BY <1>1, <1>2 DEF Unchanged, Pending
  <1>4. shown' \in [Requests -> Users] /\ call \in Calls
    BY <1>1 DEF TypeOK
  <1>5. QED
    BY <1>1, <1>3, <1>4, EndsRequest DEF SeenInv

LEMMA ReadEndsStep == ASSUME Inv, NEW r \in Requests, ReadEnds(r) PROVE Inv'
  <1>1. /\ TypeOK /\ SeenInv(r) /\ pc[r] = "read" /\ Ends(r, "read") /\ req[r].op = "read"
        /\ "read" \in Calls \ Changing /\ Fits(r, "limit")
    BY DEF Inv, ReadEnds, Ends, Calls, Changing, Fits
  <1>2. ASSUME NEW e \in Outcomes(r), Refuse(r, e.left, 500), UNCHANGED result PROVE Inv'
    BY <1>1, <1>2, QuietRefusal
  <1>3. ASSUME NEW e \in Outcomes(r), e.code = "OK", e.owner # Absent, Call(r, e.left, "limit"),
               result' = [result EXCEPT ![r] = e.owner]
        PROVE  Inv'
    <2>1. reply[r].has /\ reply[r].code = "OK" /\ e.owner = reply[r].owner
      BY <1>1, <1>3, OutcomeSays
    <2>2. e.owner \in Users /\ e.owner \in seen[r]
      BY <1>1, <1>3, <2>1 DEF TypeOK, SeenInv
    <2>3. /\ result' \in [Requests -> Users] /\ result'[r] = e.owner
          /\ \A q \in Requests \ {r} : result'[q] = result[q]
      BY <1>1, <1>3, <2>2 DEF TypeOK
    <2>4. QED
      BY <1>1, <1>3, <2>2, <2>3, EndsInCall
  <1>4. ASSUME NEW e \in Outcomes(r), Call(r, e.left, "limit"), UNCHANGED result PROVE Inv'
    BY <1>1, <1>4, EndsInCall DEF TypeOK, SeenInv
  <1>5. QED
    BY <1>2, <1>3, <1>4 DEF ReadEnds

LEMMA LimitEndsStep == ASSUME Inv, NEW r \in Requests, LimitEnds(r) PROVE Inv'
  <1>1. /\ TypeOK /\ SeenInv(r) /\ RequestInv(r) /\ pc[r] = "limit" /\ Ends(r, "limit")
        /\ UNCHANGED result /\ "limit" \in Calls \ Changing
    BY DEF Inv, LimitEnds, Ends, Calls, Changing
  <1>2. Fits(r, "usage")
    BY <1>1 DEF RequestInv, Fits
  <1>3. ASSUME NEW e \in Outcomes(r), Refuse(r, e.left, 500) PROVE Inv'
    BY <1>1, <1>3, QuietRefusal
  <1>4. ASSUME NEW e \in Outcomes(r), Call(r, e.left, "usage") PROVE Inv'
    BY <1>1, <1>2, <1>4, EndsInCall DEF TypeOK, SeenInv
  <1>5. QED
    BY <1>3, <1>4 DEF LimitEnds

LEMMA UsageEndsStep == ASSUME Inv, NEW r \in Requests, UsageEnds(r) PROVE Inv'
  <1>1. /\ TypeOK /\ SeenInv(r) /\ RequestInv(r) /\ pc[r] = "usage" /\ Ends(r, "usage")
        /\ UNCHANGED result /\ "usage" \in Calls \ Changing
    BY DEF Inv, UsageEnds, Ends, Calls, Changing
  <1>2. ASSUME NEW e \in Outcomes(r), Refuse(r, e.left, 500) PROVE Inv'
    BY <1>1, <1>2, QuietRefusal
  <1>3. ASSUME NEW e \in Outcomes(r), Respond(r, e.left, 200),
               shown' = [shown EXCEPT ![r] =
                 IF result[r] = req[r].user THEN result[r] ELSE NoUser]
        PROVE  Inv'
    <2>1. /\ shown' \in [Requests -> Users]
          /\ \A q \in Requests \ {r} : shown'[q] = shown[q]
          /\ shown'[r] # NoUser => shown'[r] = req[r].user /\ shown'[r] = result[r]
      BY <1>1, <1>3, UsersAssumption DEF TypeOK
    <2>2. req[r].op = "read"
      BY <1>1 DEF RequestInv, Fits
    <2>3. QED
      BY <1>1, <1>3, <2>1, <2>2, EndsRequest DEF SeenInv, Refusals
  <1>4. QED
    BY <1>2, <1>3 DEF UsageEnds

LEMMA CheckEndsStep == ASSUME Inv, NEW r \in Requests, CheckEnds(r) PROVE Inv'
  <1>1. /\ TypeOK /\ SeenInv(r) /\ pc[r] = "read" /\ Ends(r, "read") /\ req[r].op = "delete"
        /\ UNCHANGED result /\ "read" \in Calls \ Changing /\ Fits(r, "delete")
    BY DEF Inv, CheckEnds, Ends, Calls, Changing, Fits
  <1>2. ASSUME NEW e \in Outcomes(r), e.code # "OK", Refuse(r, e.left, DeleteStatus(e.code))
        PROVE  Inv'
    <2>1. DeleteStatus(e.code) \in {404, 500}
      BY <1>2 DEF DeleteStatus
    <2>2. QED
      BY <1>1, <1>2, <2>1, QuietRefusal
  <1>3. ASSUME NEW e \in Outcomes(r), Refuse(r, e.left, 403) PROVE Inv'
    BY <1>1, <1>3, QuietRefusal
  <1>4. ASSUME NEW e \in Outcomes(r), e.code = "OK", e.owner = req[r].user,
               Call(r, e.left, "delete")
        PROVE  Inv'
    <2>1. req[r].user \in seen[r]
      BY <1>1, <1>4, OutcomeSays DEF SeenInv
    <2>2. QED
      BY <1>1, <1>4, <2>1, EndsInCall DEF TypeOK, SeenInv
  <1>5. QED
    BY <1>2, <1>3, <1>4 DEF CheckEnds

LEMMA ListEndsStep == ASSUME Inv, NEW r \in Requests, ListEnds(r) PROVE Inv'
  <1>1. /\ RequestInv(r) /\ pc[r] = "list" /\ Ends(r, "list")
        /\ UNCHANGED result /\ "list" \in Calls \ Changing
    BY DEF Inv, ListEnds, Ends, Calls, Changing
  <1>2. req[r].op = "list"
    BY <1>1 DEF RequestInv, Fits
  <1>3. ASSUME NEW e \in Outcomes(r), NEW status \in {200, 500}, Refuse(r, e.left, status)
        PROVE  Inv'
    BY <1>1, <1>2, <1>3, QuietRefusal
  <1>4. PICK e \in Outcomes(r) : Refuse(r, e.left, IF e.code = "OK" THEN 200 ELSE 500)
    BY DEF ListEnds
  <1>5. QED
    BY <1>3, <1>4

(***************************************************************************)
(* The services                                                            *)
(***************************************************************************)

LEMMA ReplacedKeepsType ==
  ASSUME NEW S, NEW T, NEW f \in [S -> T], NEW x \in S, NEW v \in T
  PROVE  [f EXCEPT ![x] = v] \in [S -> T]
  OBVIOUS

(* A call is executed: what it did is added or removed, and the owner of   *)
(* its source may have changed.                                            *)
LEMMA Handled ==
  ASSUME Inv, NEW m \in net, NEW code \in {"OK", "NotFound", "AlreadyExists"},
         NEW owner \in Users \cup {Absent}, Deliver(m, code, owner),
         registry' \in [Keys -> Users \cup {Absent}],
         seen' \in [Requests -> SUBSET (Users \cup {Absent})],
         \A r \in Requests :
           /\ seen[r] \subseteq seen'[r] /\ (seen[r] = {} => seen'[r] = {})
           /\ seen'[r] # {} => registry'[Key(r)] \in seen'[r],
         m.call = "read" /\ code = "OK" => owner \in seen[m.r],
         added' = IF m.call = "create" /\ code = "OK" THEN added \cup {m.r} ELSE added,
         removed' = IF m.call = "delete" /\ code = "OK" THEN removed \cup {m.r} ELSE removed
  PROVE  Inv'
  <1>1. /\ TypeOK /\ m.r \in Requests /\ m.call \in Calls /\ MessageInv(m)
        /\ RequestInv(m.r) /\ SeenInv(m.r)
        /\ net' = net \ {m} /\ UNCHANGED <<pc, req, result, http, shown>>
    BY DEF Inv, TypeOK, Deliver, handler
  <1>2. \/ pc[m.r] # m.call /\ reply' = reply
        \/ /\ pc[m.r] = m.call
           /\ reply' = [reply EXCEPT ![m.r] = [has |-> TRUE, code |-> code, owner |-> owner]]
    BY DEF Deliver
  <1>3. TypeOK'
    <2>1. reply' \in [Requests -> [has : BOOLEAN, code : {"OK", "NotFound", "AlreadyExists"},
                                    owner : Users \cup {Absent}]]
      <3>1. [has |-> TRUE, code |-> code, owner |-> owner]
              \in [has : BOOLEAN, code : {"OK", "NotFound", "AlreadyExists"},
                   owner : Users \cup {Absent}]
        OBVIOUS
      <3>2. CASE reply' = reply
        BY <1>1, <3>2 DEF TypeOK
      <3>3. CASE reply' = [reply EXCEPT ![m.r] = [has |-> TRUE, code |-> code, owner |-> owner]]
        BY <1>1, <3>1, <3>3, ReplacedKeepsType DEF TypeOK
      <3>4. QED
        BY <1>2, <3>2, <3>3
    <2>2. added' \subseteq Requests /\ removed' \subseteq Requests /\ net' \subseteq net
      BY <1>1 DEF TypeOK
    <2>3. QED
      BY <1>1, <2>1, <2>2 DEF TypeOK
  <1>4. ASSUME NEW r \in Requests, r # m.r PROVE RequestInv(r)'
    <2>1. /\ RequestInv(r) /\ reply'[r] = reply[r]
          /\ r \in added' <=> r \in added
          /\ r \in removed' <=> r \in removed
      BY <1>1, <1>2, <1>4 DEF Inv, TypeOK
    <2>2. Pending(r)' => Pending(r)
      BY <1>1 DEF Pending
    <2>3. QED
      BY <1>1, <2>1, <2>2 DEF RequestInv, Unchanged, Fits
  <1>5. RequestInv(m.r)'
    <2>1. m.call \in Changing => ~Pending(m.r)'
      <3>1. SUFFICES ASSUME m.call \in Changing, NEW n \in net', n.r = m.r, n.call \in Changing
                     PROVE  FALSE
        BY <1>1 DEF Pending
      <3>2. n \in net /\ n # m /\ MessageInv(n)
        BY <1>1, <3>1 DEF Inv
      <3>3. n.call = m.call
        BY <1>1, <3>1, <3>2 DEF MessageInv, Fits, Changing
      <3>4. QED
        BY <1>1, <3>1, <3>2, <3>3 DEF TypeOK
    <2>2. CASE m.call \in Changing
      <3>1. Pending(m.r)
        BY <2>2 DEF Pending
      <3>2. pc[m.r] \in {m.call, "done"} /\ http[m.r] \notin Refusals
        BY <1>1, <2>2, <3>1 DEF RequestInv, Unchanged, MessageInv, Fits, Changing
      <3>3. CASE pc[m.r] = m.call
        <4>1. /\ ~reply[m.r].has /\ m.r \notin added \cup removed
              /\ reply'[m.r].has /\ reply'[m.r].code = code
          BY <1>1, <1>2, <2>2, <3>1, <3>3 DEF RequestInv, TypeOK
        <4>2. m.r \in added' \cup removed' <=> code = "OK"
          BY <2>2, <4>1 DEF Changing
        <4>3. http[m.r] = 0
          BY <1>1, <2>2, <3>3 DEF RequestInv, Changing, TypeOK
        <4>4. /\ m.r \in added' => req[m.r].op = "create"
              /\ m.r \in removed' => req[m.r].op = "delete"
          BY <1>1 DEF RequestInv, MessageInv, Fits
        <4>5. QED
          BY <1>1, <2>1, <2>2, <3>3, <4>1, <4>2, <4>3, <4>4
          DEF RequestInv, Unchanged, Fits, Changing, Refusals
      <3>4. CASE pc[m.r] = "done"
        <4>1. reply' = reply
          BY <1>1, <1>2, <3>4 DEF Calls, Changing
        <4>2. /\ m.r \in added' => req[m.r].op = "create"
              /\ m.r \in removed' => req[m.r].op = "delete"
              /\ added \subseteq added' /\ removed \subseteq removed'
          BY <1>1 DEF RequestInv, MessageInv, Fits
        <4>3. QED
          BY <1>1, <3>2, <3>4, <4>1, <4>2
          DEF RequestInv, Unchanged, Fits, Changing
      <3>5. QED
        BY <3>2, <3>3, <3>4
    <2>3. CASE m.call \notin Changing
      <3>1. UNCHANGED <<added, removed>> /\ (Pending(m.r)' => Pending(m.r))
        BY <1>1, <2>3 DEF Changing, Pending
      <3>2. pc[m.r] \in Changing \cup {"idle", "done"} => reply' = reply
        BY <1>1, <1>2, <2>3 DEF Calls, Changing
      <3>3. QED
        BY <1>1, <3>1, <3>2 DEF RequestInv, Unchanged, Fits, Changing
    <2>4. QED
      BY <2>2, <2>3
  <1>6. ASSUME NEW r \in Requests PROVE SeenInv(r)'
    <2>1. SeenInv(r) /\ Key(r)' = Key(r)
      BY <1>1 DEF Inv, Key
    <2>2. pc[r] = "read" /\ reply'[r].has /\ reply'[r].code = "OK" => reply'[r].owner \in seen'[r]
      <3>1. CASE r = m.r /\ pc[r] = m.call
        BY <1>1, <1>2, <3>1 DEF TypeOK
      <3>2. CASE ~(r = m.r /\ pc[r] = m.call)
        BY <1>1, <1>2, <2>1, <3>2 DEF TypeOK, SeenInv
      <3>3. QED
        BY <3>1, <3>2
    <2>3. QED
      BY <1>1, <2>1, <2>2 DEF SeenInv
  <1>7. \A n \in net' : MessageInv(n)'
    BY <1>1, MessagesKept
  <1>8. QED
    BY <1>3, <1>4, <1>5, <1>6, <1>7 DEF Inv

LEMMA OwnerSet ==
  ASSUME Inv, NEW k \in Keys, NEW o \in Users \cup {Absent}, SetOwner(k, o), UNCHANGED req
  PROVE  /\ registry' \in [Keys -> Users \cup {Absent}]
         /\ seen' \in [Requests -> SUBSET (Users \cup {Absent})]
         /\ \A r \in Requests :
              /\ seen[r] \subseteq seen'[r] /\ (seen[r] = {} => seen'[r] = {})
              /\ seen'[r] # {} => registry'[Key(r)] \in seen'[r]
  BY DEF Inv, TypeOK, SetOwner, SeenInv, Key

LEMMA OwnersKept ==
  ASSUME Inv, UNCHANGED <<registry, seen>>
  PROVE  /\ registry' \in [Keys -> Users \cup {Absent}]
         /\ seen' \in [Requests -> SUBSET (Users \cup {Absent})]
         /\ \A r \in Requests :
              /\ seen[r] \subseteq seen'[r] /\ (seen[r] = {} => seen'[r] = {})
              /\ seen'[r] # {} => registry'[Key(r)] \in seen'[r]
  BY DEF Inv, TypeOK, SeenInv

LEMMA RegisterStep == ASSUME Inv, NEW m \in net, Register(m) PROVE Inv'
  <1>1. /\ TypeOK /\ m.call = "create" /\ SeenInv(m.r) /\ MessageInv(m)
        /\ UNCHANGED removed
    BY DEF Inv, TypeOK, Register
  <1>2. Key(m.r) \in Keys /\ m.r \in Requests
    BY <1>1 DEF SeenInv, MessageInv, TypeOK
  <1>3. req[m.r].user \in Users
    BY <1>1, <1>2, QueriesAssumption DEF TypeOK, QueryType
  <1>4. CASE /\ SetOwner(Key(m.r), req[m.r].user) /\ added' = added \cup {m.r}
             /\ Deliver(m, "OK", NoUser)
    <2>1. UNCHANGED req
      BY <1>4 DEF Deliver, handler
    <2>2. QED
      BY <1>1, <1>2, <1>3, <1>4, <2>1, OwnerSet, Handled, UsersAssumption
  <1>5. CASE Deliver(m, "AlreadyExists", NoUser) /\ UNCHANGED <<registry, added, seen>>
    BY <1>1, <1>5, OwnersKept, Handled, UsersAssumption
  <1>6. QED
    BY <1>4, <1>5 DEF Register

LEMMA UnregisterStep == ASSUME Inv, NEW m \in net, Unregister(m) PROVE Inv'
  <1>1. /\ TypeOK /\ m.call = "delete" /\ SeenInv(m.r) /\ MessageInv(m)
        /\ UNCHANGED added
    BY DEF Inv, TypeOK, Unregister
  <1>2. Key(m.r) \in Keys /\ m.r \in Requests
    BY <1>1 DEF SeenInv, MessageInv, TypeOK
  <1>3. CASE /\ SetOwner(Key(m.r), Absent) /\ removed' = removed \cup {m.r}
             /\ Deliver(m, "OK", NoUser)
    <2>1. UNCHANGED req
      BY <1>3 DEF Deliver, handler
    <2>2. QED
      BY <1>1, <1>2, <1>3, <2>1, OwnerSet, Handled, UsersAssumption
  <1>4. CASE Deliver(m, "NotFound", NoUser) /\ UNCHANGED <<registry, removed, seen>>
    BY <1>1, <1>4, OwnersKept, Handled, UsersAssumption
  <1>5. QED
    BY <1>3, <1>4 DEF Unregister

LEMMA LookUpStep == ASSUME Inv, NEW m \in net, LookUp(m) PROVE Inv'
  <1>1. /\ TypeOK /\ m.call = "read" /\ SeenInv(m.r) /\ MessageInv(m) /\ m.r \in Requests
        /\ UNCHANGED <<registry, added, removed, seen>>
    BY DEF Inv, TypeOK, LookUp, registries
  <1>2. /\ registry[Key(m.r)] \in seen[m.r]
        /\ registry[Key(m.r)] \in Users \cup {Absent}
    BY <1>1 DEF SeenInv, MessageInv, TypeOK
  <1>3. \E code \in {"OK", "NotFound"} : Deliver(m, code, registry[Key(m.r)])
    BY DEF LookUp
  <1>4. QED
    BY <1>1, <1>2, <1>3, OwnersKept, Handled

LEMMA GetOrListStep == ASSUME Inv, NEW m \in net, GetOrList(m) PROVE Inv'
  <1>1. /\ m.call \in {"limit", "usage", "list"} /\ Deliver(m, "OK", NoUser)
        /\ UNCHANGED <<registry, added, removed, seen>>
    BY DEF GetOrList, registries
  <1>2. QED
    BY <1>1, OwnersKept, Handled, UsersAssumption

(***************************************************************************)
(* The specification                                                       *)
(***************************************************************************)

LEMMA StutterKeeps == Inv /\ UNCHANGED vars => Inv'
  <1>1. SUFFICES ASSUME Inv, UNCHANGED vars PROVE Inv'
    OBVIOUS
  <1>2. TypeOK' /\ \A r \in Requests : RequestInv(r)' /\ SeenInv(r)'
    BY <1>1 DEF Inv, TypeOK, RequestInv, SeenInv, Fits, Unchanged, Pending, Key, vars
  <1>3. \A m \in net' : MessageInv(m)'
    BY <1>1 DEF Inv, MessageInv, Fits, vars
  <1>4. QED
    BY <1>2, <1>3 DEF Inv

LEMMA NextKeeps == Inv /\ [Next]_vars => Inv'
  <1>1. ASSUME Inv, NEW r \in Requests, Handler(r) PROVE Inv'
    BY <1>1, BeginStep, CreateEndsStep, ReadEndsStep, LimitEndsStep, UsageEndsStep,
       CheckEndsStep, DeleteEndsStep, ListEndsStep DEF Handler
  <1>2. ASSUME Inv, NEW m \in net, Handle(m) PROVE Inv'
    BY <1>2, RegisterStep, UnregisterStep, LookUpStep, GetOrListStep DEF Handle
  <1>3. QED
    BY <1>1, <1>2, StutterKeeps DEF Next, Terminating

LEMMA InvHolds == Spec => []Inv
  BY InitInv, NextKeeps, PTL DEF Spec

(* Every variable keeps its type.                                          *)
THEOREM TypeCorrect == Spec => []TypeOK
<1>1. Inv => TypeOK
  BY DEF Inv
<1>2. QED
  BY <1>1, InvHolds, PTL

(* Read names an owner only to himself.                                    *)
THEOREM OwnerShownToHimselfHolds == Spec => []OwnerShownToHimself
<1>1. Inv => OwnerShownToHimself
  BY DEF Inv, SeenInv, OwnerShownToHimself
<1>2. QED
  BY <1>1, InvHolds, PTL

(* The status says what was done, for calls that are executed late, too.   *)
THEOREM StatusTruthfulHolds == Spec => []StatusTruthful
<1>1. Inv => StatusTruthful
  BY DEF Inv, RequestInv, Unchanged, StatusTruthful
<1>2. QED
  BY <1>1, InvHolds, PTL

(* A user removes only what he owned at some time of his request: the      *)
(* registry compares the user itself, or the handler had read him.         *)
LEMMA RemovalByOwner ==
  ASSUME Inv, [Next]_vars
  PROVE  [\A r \in removed' \ removed : req[r].user \in seen[r]]_vars
  <1>1. SUFFICES ASSUME NEW r \in removed' \ removed PROVE req[r].user \in seen[r]
    OBVIOUS
  <1>2. \A q \in Requests : Handler(q) => UNCHANGED removed
    BY DEF Handler, Begin, CreateEnds, ReadEnds, LimitEnds, UsageEnds, CheckEnds, DeleteEnds,
           ListEnds, Ends, registries
  <1>3. \A m \in net : Handle(m) => UNCHANGED removed \/ Unregister(m)
    BY DEF Handle, Register, LookUp, GetOrList, registries
  <1>4. PICK m \in net : Unregister(m)
    BY <1>1, <1>2, <1>3 DEF Next, Terminating, vars
  <1>5. /\ r = m.r /\ registry[Key(m.r)] # Absent
        /\ req[m.r].type = "tgch" \/ registry[Key(m.r)] = req[m.r].user
    BY <1>1, <1>4 DEF Unregister
  <1>6. m.call = "delete" /\ MessageInv(m) /\ SeenInv(m.r)
    BY <1>4 DEF Inv, TypeOK, Unregister
  <1>7. QED
    BY <1>5, <1>6 DEF MessageInv, SeenInv

(* Only who owned a source since his request began removes it, be it that *)
(* the removal is executed after the answer.                              *)
THEOREM RemovedByOwnerHolds == Spec => RemovedByOwner
<1>1. Inv /\ [Next]_vars => [\A r \in removed' \ removed : req[r].user \in seen[r]]_vars
  BY RemovalByOwner
<1>2. QED
  BY <1>1, InvHolds, PTL DEF Spec, RemovedByOwner

(***************************************************************************)
(* The abstract specification                                              *)
(***************************************************************************)

Serves(r) == req[r].valid /\ Supported(req[r])

(* What the simulation needs besides Inv: a call that may yet change a     *)
(* registry has not done it before, and only queries that are correct and  *)
(* supported lead to calls.                                                *)
OwnershipInv ==
  \A r \in Requests :
    /\ Pending(r) => r \notin added \cup removed
    /\ seen[r] # {} => Serves(r)

SinceOf(r) == IF req[r].op \in Changing THEN seen[r] ELSE {}

Statuses == {200, 201, 400, 403, 404, 409, 500}

(* The ways a handler moves on: it begins, calls again or answers.         *)
Begins(r) ==
  /\ pc[r] = "idle" /\ Serves(r) /\ http' = http
  /\ net' \subseteq net \cup [r : {r}, call : Calls]
  /\ seen' = [seen EXCEPT ![r] = {registry[Key(r)]}]

CallsAgain(r) ==
  /\ pc[r] \notin Changing \cup {"idle", "done"} /\ UNCHANGED <<http, seen>>
  /\ net' \subseteq net \cup [r : {r}, call : Calls]

Answers(r) ==
  /\ pc[r] # "done" /\ net' \subseteq net /\ UNCHANGED seen
  /\ \E status \in Statuses : http' = [http EXCEPT ![r] = status]

LEMMA HandlerMoves ==
  ASSUME Inv, NEW r \in Requests, Handler(r)
  PROVE  /\ UNCHANGED <<req, registry, added, removed>>
         /\ Begins(r) \/ CallsAgain(r) \/ Answers(r)
  <1>. USE DEF Begins, CallsAgain, Answers
  <1>1. TypeOK /\ req[r] \in QueryType
    BY QueriesAssumption DEF Inv, TypeOK
  <1>2. \A e \in Outcomes(r) : e.left \subseteq net
    BY <1>1, OutcomeSays
  <1>3. CASE Begin(r)
    <2>1. PICK first : first = IF req[r].op = "delete" /\ req[r].type = "tgch" THEN "read"
                               ELSE req[r].op
      OBVIOUS
    <2>2. first \in Calls
      BY <1>1, <2>1 DEF QueryType, Calls, Changing
    <2>3. pc[r] = "idle" /\ UNCHANGED <<req, registry, added, removed>>
      BY <1>3 DEF Begin
    <2>4. \/ /\ Serves(r) /\ Call(r, net, first)
             /\ seen' = [seen EXCEPT ![r] = {registry[Key(r)]}]
          \/ \E status \in {400, 500} : Refuse(r, net, status) /\ UNCHANGED seen
      BY <1>3, <2>1 DEF Begin, Serves, Unserved, Sent
    <2>5. QED
      BY <2>2, <2>3, <2>4 DEF Call, Refuse, Respond, Statuses
  <1>4. ASSUME NEW call \in Calls, Ends(r, call),
               \/ \E e \in Outcomes(r) :
                    \E status \in Statuses : Respond(r, e.left, status)
               \/ /\ call \notin Changing
                  /\ \E e \in Outcomes(r) : \E next \in Calls : Call(r, e.left, next)
        PROVE  /\ UNCHANGED <<req, registry, added, removed>>
               /\ CallsAgain(r) \/ Answers(r)
    <2>1. /\ pc[r] = call /\ call \notin {"idle", "done"}
          /\ UNCHANGED <<req, registry, added, removed, seen>>
      BY <1>4 DEF Ends, registries, Calls, Changing
    <2>2. CASE \E e \in Outcomes(r) :
                 \E status \in Statuses : Respond(r, e.left, status)
      <3>1. PICK e \in Outcomes(r), status \in Statuses :
              Respond(r, e.left, status)
        BY <2>2
      <3>2. http' = [http EXCEPT ![r] = status] /\ net' \subseteq net /\ pc[r] # "done"
        BY <1>2, <2>1, <3>1 DEF Respond
      <3>3. QED
        BY <2>1, <3>2
    <2>3. CASE /\ call \notin Changing
               /\ \E e \in Outcomes(r) : \E next \in Calls : Call(r, e.left, next)
      <3>1. PICK e \in Outcomes(r), next \in Calls : Call(r, e.left, next)
        BY <2>3
      <3>2. http' = http /\ net' \subseteq net \cup [r : {r}, call : Calls]
        BY <1>2, <3>1 DEF Call
      <3>3. QED
        BY <2>1, <2>3, <3>2
    <2>4. QED
      BY <1>4, <2>2, <2>3
  <1>5. /\ {"create", "read", "limit", "usage", "delete", "list"} \subseteq Calls
        /\ 200 \in Statuses /\ 400 \in Statuses /\ 403 \in Statuses /\ 500 \in Statuses
    BY DEF Calls, Changing, Statuses
  <1>6. \A code : CreateStatus(code) \in Statuses /\ DeleteStatus(code) \in Statuses
    BY DEF CreateStatus, DeleteStatus, Statuses
  <1>7. CASE CreateEnds(r)
    BY <1>4, <1>5, <1>6, <1>7 DEF CreateEnds, Refuse
  <1>8. CASE ReadEnds(r)
    <2>1. Ends(r, "read")
      BY <1>8 DEF ReadEnds
    <2>2. \E e \in Outcomes(r) : Respond(r, e.left, 500) \/ Call(r, e.left, "limit")
      BY <1>8 DEF ReadEnds, Refuse
    <2>3. QED
      BY <1>4, <1>5, <2>1, <2>2 DEF Changing
  <1>9. CASE LimitEnds(r)
    <2>1. Ends(r, "limit")
      BY <1>9 DEF LimitEnds
    <2>2. \E e \in Outcomes(r) : Respond(r, e.left, 500) \/ Call(r, e.left, "usage")
      BY <1>9 DEF LimitEnds, Refuse
    <2>3. QED
      BY <1>4, <1>5, <2>1, <2>2 DEF Changing
  <1>10. CASE UsageEnds(r)
    BY <1>4, <1>5, <1>10 DEF UsageEnds, Refuse
  <1>11. CASE CheckEnds(r)
    <2>1. Ends(r, "read")
      BY <1>11 DEF CheckEnds
    <2>2. \E e \in Outcomes(r) :
            \/ \E status \in Statuses : Respond(r, e.left, status)
            \/ Call(r, e.left, "delete")
      BY <1>5, <1>6, <1>11 DEF CheckEnds, Refuse
    <2>3. QED
      BY <1>4, <1>5, <2>1, <2>2 DEF Changing
  <1>12. CASE DeleteEnds(r)
    BY <1>4, <1>5, <1>6, <1>12 DEF DeleteEnds, Refuse
  <1>13. CASE ListEnds(r)
    <2>1. Ends(r, "list")
      BY <1>13 DEF ListEnds
    <2>2. \E e \in Outcomes(r) : \E status \in Statuses : Respond(r, e.left, status)
      <3>1. PICK e \in Outcomes(r) : Refuse(r, e.left, IF e.code = "OK" THEN 200 ELSE 500)
        BY <1>13 DEF ListEnds
      <3>2. QED
        BY <1>5, <3>1 DEF Refuse
    <2>3. QED
      BY <1>4, <1>5, <2>1, <2>2
  <1>14. QED
    BY <1>3, <1>7, <1>8, <1>9, <1>10, <1>11, <1>12, <1>13 DEF Handler

(* A service that handles m forgets it, and m was the only call of its     *)
(* request that may change a registry.                                     *)
LEMMA HandledOnce ==
  ASSUME Inv, NEW m \in net, Handle(m)
  PROVE  /\ net' = net \ {m} /\ UNCHANGED <<pc, req, result, http, shown>>
         /\ m.r \in Requests
         /\ m.call \in Changing => ~Pending(m.r)'
  <1>1. net' = net \ {m} /\ UNCHANGED <<pc, req, result, http, shown>>
    BY DEF Handle, Register, Unregister, LookUp, GetOrList, Deliver, handler
  <1>2. TypeOK /\ m.r \in Requests /\ MessageInv(m)
    BY DEF Inv, TypeOK
  <1>3. ASSUME m.call \in Changing, NEW n \in net', n.r = m.r, n.call \in Changing PROVE FALSE
    <2>1. n \in net /\ n # m /\ MessageInv(n)
      BY <1>1, <1>3 DEF Inv
    <2>2. n.call = m.call
      BY <1>2, <1>3, <2>1 DEF MessageInv, Fits, Changing
    <2>3. QED
      BY <1>2, <1>3, <2>1, <2>2 DEF TypeOK
  <1>4. m.call \in Changing => ~Pending(m.r)'
    BY <1>3 DEF Pending
  <1>5. QED
    BY <1>1, <1>2, <1>4

LEMMA InitOwnership == Init => OwnershipInv
  BY DEF Init, OwnershipInv, Pending

LEMMA NextOwnership == Inv /\ OwnershipInv /\ [Next]_vars => OwnershipInv'
  <1>1. SUFFICES ASSUME Inv, OwnershipInv, [Next]_vars PROVE OwnershipInv'
    OBVIOUS
  <1>2. ASSUME NEW r \in Requests, Handler(r) PROVE OwnershipInv'
    <2>1. /\ UNCHANGED <<req, registry, added, removed>> /\ RequestInv(r) /\ TypeOK
          /\ Begins(r) \/ CallsAgain(r) \/ Answers(r)
      BY <1>1, <1>2, HandlerMoves DEF Inv
    <2>2. ASSUME NEW q \in Requests PROVE Pending(q)' => q \notin added' \cup removed'
      <3>1. CASE Pending(q)
        BY <1>1, <2>1, <3>1 DEF OwnershipInv
      <3>2. CASE q = r /\ pc[r] \notin Changing \cup {"done"}
        BY <2>1, <3>2 DEF RequestInv, Unchanged, Changing
      <3>3. CASE ~Pending(q) /\ ~(q = r /\ pc[r] \notin Changing \cup {"done"})
        <4>1. ~Pending(q)'
          BY <2>1, <3>3 DEF Begins, CallsAgain, Answers, Pending, Changing
        <4>2. QED
          BY <4>1
      <3>4. QED
        BY <3>1, <3>2, <3>3
    <2>3. ASSUME NEW q \in Requests, seen'[q] # {} PROVE Serves(q)'
      <3>1. seen[q] # {} \/ (q = r /\ Serves(r))
        BY <2>1, <2>3 DEF Begins, CallsAgain, Answers, TypeOK
      <3>2. QED
        BY <1>1, <2>1, <3>1 DEF OwnershipInv, Serves
    <2>4. QED
      BY <2>2, <2>3 DEF OwnershipInv
  <1>3. ASSUME NEW m \in net, Handle(m) PROVE OwnershipInv'
    <2>1. /\ net' = net \ {m} /\ UNCHANGED req
          /\ m.call \in Changing => ~Pending(m.r)'
      BY <1>1, <1>3, HandledOnce
    <2>2. \A q \in Requests : Pending(q)' => Pending(q)
      BY <2>1 DEF Pending
    <2>3. \A q \in Requests : q \in added' \cup removed' =>
            q \in added \cup removed \/ (q = m.r /\ m.call \in Changing)
      BY <1>3 DEF Handle, Register, Unregister, LookUp, GetOrList, registries, Changing
    <2>4. \A q \in Requests : seen'[q] # {} => seen[q] # {}
      BY <1>3 DEF Handle, Register, Unregister, LookUp, GetOrList, SetOwner, registries
    <2>5. QED
      BY <1>1, <2>1, <2>2, <2>3, <2>4 DEF OwnershipInv, Serves
  <1>4. CASE UNCHANGED vars
    BY <1>1, <1>4 DEF OwnershipInv, Pending, Serves, vars
  <1>5. QED
    BY <1>1, <1>2, <1>3, <1>4 DEF Next, Terminating

(* What is asked, of a query that changes something.                       *)
LEMMA AskedChange ==
  ASSUME Inv, NEW r \in Requests
  PROVE  /\ Asked[req[r]] \in Ownership!Changes \cup {Ownership!NoChange}
         /\ req[r].op \in Changing /\ Serves(r) =>
              /\ Asked[req[r]].op = IF req[r].op = "create" THEN "add" ELSE "remove"
              /\ Asked[req[r]].source = Key(r) /\ Asked[req[r]].user = req[r].user
              /\ Asked[req[r]] # Ownership!NoChange
              /\ Key(r) \in Keys
  <1>1. req[r] \in Queries /\ req[r] \in QueryType
    BY QueriesAssumption DEF Inv, TypeOK
  <1>2. CASE req[r].op \in Changing /\ Serves(r)
    <2>1. Asked[req[r]] = [op |-> IF req[r].op = "create" THEN "add" ELSE "remove",
                           source |-> Key(r), user |-> req[r].user]
      BY <1>1, <1>2 DEF Asked, Serves, Key
    <2>2. Key(r) \in Keys /\ req[r].user \in Users
      BY <1>1, <1>2, QueriesAssumption DEF Serves, Key, QueryType
    <2>3. Asked[req[r]] \in Ownership!Changes
      BY <2>1, <2>2 DEF Ownership!Changes
    <2>4. Asked[req[r]].op \in {"add", "remove"}
      BY <2>1
    <2>5. Asked[req[r]] # Ownership!NoChange
      BY <2>4 DEF Ownership!NoChange
    <2>6. QED
      BY <2>1, <2>2, <2>3, <2>5
  <1>3. CASE ~(req[r].op \in Changing /\ Serves(r))
    <2>1. Asked[req[r]] = [op |-> "none"]
      BY <1>1, <1>3 DEF Asked, Serves
    <2>2. QED
      BY <1>3, <2>1 DEF Ownership!NoChange
  <1>4. QED
    BY <1>2, <1>3

LEMMA SimulateInit == Init => Ownership!Init
  <1>1. SUFFICES ASSUME Init PROVE Ownership!Init
    OBVIOUS
  <1>2. Inv
    BY <1>1, InitInv
  <1>3. [r \in Requests |-> Asked[req[r]]]
          \in [Requests -> Ownership!Changes \cup {Ownership!NoChange}]
    BY <1>2, AskedChange
  <1>4. ASSUME NEW r \in Requests PROVE SinceOf(r) = {} /\ ToldOf(r) = "none"
    <2>1. http[r] = 0 /\ seen[r] = {}
      BY <1>1 DEF Init
    <2>2. QED
      BY <2>1 DEF SinceOf, ToldOf, Refusals
  <1>5. added \cup removed = {} /\ registry \in [Keys -> Users \cup {Absent}]
    BY <1>1 DEF Init
  <1>6. QED
    BY <1>3, <1>4, <1>5 DEF Ownership!Init, SinceOf

LEMMA SimulateStutter ==
  ASSUME UNCHANGED <<req, http, registry, added, removed>>,
         \A r \in Requests : SinceOf(r)' = SinceOf(r)
  PROVE  UNCHANGED Ownership!vars
  <1>1. \A r \in Requests : ToldOf(r)' = ToldOf(r)
    BY DEF ToldOf
  <1>2. [r \in Requests |-> ToldOf(r)]' = [r \in Requests |-> ToldOf(r)]
    BY <1>1
  <1>3. [r \in Requests |-> SinceOf(r)]' = [r \in Requests |-> SinceOf(r)]
    OBVIOUS
  <1>4. QED
    BY <1>2, <1>3 DEF Ownership!vars, SinceOf

LEMMA SimulateAnswer ==
  ASSUME Inv, Inv', NEW r \in Requests, Answers(r), UNCHANGED <<req, registry, added, removed>>
  PROVE  Ownership!Answer(r)
  <1>1. PICK status \in Statuses : http' = [http EXCEPT ![r] = status]
    BY DEF Answers
  <1>2. /\ http[r] = 0 /\ http'[r] = status /\ RequestInv(r)' /\ req' = req
        /\ \A q \in Requests \ {r} : http'[q] = http[q]
    BY <1>1 DEF Answers, Inv, TypeOK, RequestInv
  <1>3. ToldOf(r) = "none" /\ \A q \in Requests \ {r} : ToldOf(q)' = ToldOf(q)
    BY <1>2 DEF ToldOf, Refusals
  <1>4. \A q \in Requests : ToldOf(q)' \in Ownership!Answers \cup {"none"}
    BY DEF ToldOf, Ownership!Answers
  <1>5. ToldOf(r)' # "none"
    BY <1>1, <1>2 DEF ToldOf, Statuses
  <1>6. ToldOf(r)' = "changed" => r \in added \cup removed
    BY <1>2 DEF ToldOf, RequestInv
  <1>7. ToldOf(r)' = "refused" => r \notin added \cup removed
    <2>1. ToldOf(r)' = "refused" => http'[r] \in Refusals
      BY <1>2 DEF ToldOf
    <2>2. QED
      BY <1>2, <2>1 DEF RequestInv, Unchanged
  <1>8. \A q \in Requests : SinceOf(q)' = SinceOf(q)
    BY <1>2 DEF SinceOf, Answers
  <1>9. QED
    BY <1>2, <1>3, <1>4, <1>5, <1>6, <1>7, <1>8 DEF Ownership!Answer, SinceOf

LEMMA SimulateBegin ==
  ASSUME Inv, OwnershipInv, NEW r \in Requests, Begins(r),
         UNCHANGED <<req, registry, added, removed>>
  PROVE  [Ownership!Begin(r)]_(Ownership!vars)
  <1>1. /\ http' = http /\ seen' = [seen EXCEPT ![r] = {registry[Key(r)]}]
        /\ Serves(r) /\ req' = req /\ TypeOK /\ seen[r] = {} /\ http[r] = 0
    BY DEF Begins, Inv, SeenInv, RequestInv, TypeOK
  <1>2. CASE req[r].op \notin Changing
    <2>1. \A q \in Requests : SinceOf(q)' = SinceOf(q)
      BY <1>1, <1>2 DEF SinceOf, TypeOK
    <2>2. QED
      BY <1>1, <2>1, SimulateStutter
  <1>3. CASE req[r].op \in Changing
    <2>1. /\ Asked[req[r]] # Ownership!NoChange
          /\ Asked[req[r]].source = Key(r)
      BY <1>1, <1>3, AskedChange
    <2>2. ToldOf(r) = "none" /\ \A q \in Requests : ToldOf(q)' = ToldOf(q)
      BY <1>1 DEF ToldOf, Refusals
    <2>3. /\ SinceOf(r) = {} /\ SinceOf(r)' = {registry[Key(r)]}
          /\ \A q \in Requests \ {r} : SinceOf(q)' = SinceOf(q)
      BY <1>1, <1>3 DEF SinceOf, TypeOK
    <2>4. [q \in Requests |-> SinceOf(q)]'
            = [[q \in Requests |-> SinceOf(q)] EXCEPT ![r] = {registry[Key(r)]}]
      BY <2>3
    <2>5. Ownership!Begin(r)
      BY <1>1, <2>1, <2>2, <2>3, <2>4 DEF Ownership!Begin, SinceOf
    <2>6. QED
      BY <2>5
  <1>4. QED
    BY <1>2, <1>3

(* A registry makes the change that r asked for.                           *)
LEMMA SimulateChange ==
  ASSUME Inv, OwnershipInv, NEW r \in Requests, NEW o, SetOwner(Key(r), o), Pending(r),
         seen[r] # {}, req[r].op \in Changing, UNCHANGED <<req, http>>,
         (added \cup removed)' = (added \cup removed) \cup {r}
  PROVE  Ownership!Change(r, o)
  <1>1. /\ Serves(r) /\ r \notin added \cup removed /\ RequestInv(r)
        /\ Asked[req[r]].source = Key(r) /\ SinceOf(r) = seen[r]
    BY AskedChange DEF OwnershipInv, Inv, SinceOf
  <1>2. \A q \in Requests : ToldOf(q)' = ToldOf(q)
    BY DEF ToldOf
  <1>3. ToldOf(r) # "refused"
    <2>1. http[r] \notin Refusals
      BY <1>1 DEF RequestInv, Unchanged
    <2>2. QED
      BY <2>1 DEF ToldOf
  <1>4. ASSUME NEW q \in Requests
        PROVE  SinceOf(q)' = IF SinceOf(q) # {} /\ Asked[req[q]].source = Key(r)
                             THEN SinceOf(q) \cup {o} ELSE SinceOf(q)
    <2>1. seen'[q] = IF seen[q] # {} /\ Key(q) = Key(r) THEN seen[q] \cup {o} ELSE seen[q]
      BY DEF SetOwner
    <2>2. CASE req[q].op \in Changing /\ seen[q] # {}
      <3>1. Asked[req[q]].source = Key(q)
        BY <2>2, AskedChange DEF OwnershipInv
      <3>2. QED
        BY <2>1, <2>2, <3>1 DEF SinceOf
    <2>3. CASE ~(req[q].op \in Changing /\ seen[q] # {})
      BY <2>1, <2>3 DEF SinceOf
    <2>4. QED
      BY <2>2, <2>3
  <1>5. registry' = [registry EXCEPT ![Key(r)] = o]
    BY DEF SetOwner
  <1>6. QED
    BY <1>1, <1>2, <1>3, <1>4, <1>5 DEF Ownership!Change, SinceOf

LEMMA SimulateHandle ==
  ASSUME Inv, OwnershipInv, NEW m \in net, Handle(m)
  PROVE  [Ownership!Next]_(Ownership!vars)
  <1>1. /\ TypeOK /\ MessageInv(m) /\ m.r \in Requests /\ SeenInv(m.r) /\ UNCHANGED <<req, http>>
        /\ seen[m.r] # {}
    BY HandledOnce DEF Inv, MessageInv
  <1>2. CASE UNCHANGED <<registry, added, removed, seen>>
    <2>1. \A q \in Requests : SinceOf(q)' = SinceOf(q)
      BY <1>1, <1>2 DEF SinceOf
    <2>2. QED
      BY <1>1, <1>2, <2>1, SimulateStutter
  <1>3. ASSUME m.call \in Changing, NEW o, SetOwner(Key(m.r), o),
               (added \cup removed)' = (added \cup removed) \cup {m.r}
        PROVE  Ownership!Change(m.r, o)
    <2>1. Pending(m.r) /\ req[m.r].op \in Changing
      BY <1>1, <1>3 DEF Pending, MessageInv, Fits, Changing
    <2>2. QED
      BY <1>1, <1>3, <2>1, SimulateChange
  <1>4. /\ req[m.r].op \in Changing =>
             /\ Asked[req[m.r]].op = IF req[m.r].op = "create" THEN "add" ELSE "remove"
             /\ Asked[req[m.r]].source = Key(m.r) /\ Asked[req[m.r]].user = req[m.r].user
    BY <1>1, AskedChange DEF OwnershipInv
  <1>5. CASE /\ m.call = "create" /\ registry[Key(m.r)] = Absent
             /\ SetOwner(Key(m.r), req[m.r].user)
             /\ added' = added \cup {m.r} /\ UNCHANGED removed
    <2>1. req[m.r].op = "create" /\ "create" \in Changing
      BY <1>1, <1>5 DEF MessageInv, Fits, Changing
    <2>2. PICK u : u = req[m.r].user
      OBVIOUS
    <2>3. Ownership!Change(m.r, u)
      BY <1>3, <1>5, <2>1, <2>2
    <2>4. Asked[req[m.r]].op = "add" /\ Asked[req[m.r]].source = Key(m.r)
          /\ Asked[req[m.r]].user = u /\ registry[Key(m.r)] = Absent
      BY <1>4, <1>5, <2>1, <2>2
    <2>5. Ownership!Add(m.r)
      BY <1>1, <2>3, <2>4 DEF Ownership!Add, Ownership!Change
    <2>6. QED
      BY <1>1, <2>5 DEF Ownership!Next
  <1>6. CASE /\ m.call = "delete" /\ registry[Key(m.r)] # Absent
             /\ req[m.r].type = "tgch" \/ registry[Key(m.r)] = req[m.r].user
             /\ SetOwner(Key(m.r), Absent)
             /\ removed' = removed \cup {m.r} /\ UNCHANGED added
    <2>1. req[m.r].op = "delete" /\ "delete" \in Changing
      BY <1>1, <1>6 DEF MessageInv, Fits, Changing
    <2>2. (added \cup removed)' = (added \cup removed) \cup {m.r}
      BY <1>6
    <2>3. Ownership!Change(m.r, Absent)
      BY <1>3, <1>6, <2>1, <2>2
    <2>4. req[m.r].user \in SinceOf(m.r)
      BY <1>1, <1>6, <2>1 DEF MessageInv, SeenInv, SinceOf
    <2>5. Ownership!Remove(m.r)
      BY <1>1, <1>4, <1>6, <2>1, <2>3, <2>4 DEF Ownership!Remove, SinceOf
    <2>6. QED
      BY <1>1, <2>5 DEF Ownership!Next
  <1>7. QED
    BY <1>2, <1>5, <1>6 DEF Handle, Register, Unregister, LookUp, GetOrList, registries

LEMMA SimulateNext ==
  Inv /\ Inv' /\ OwnershipInv /\ [Next]_vars => [Ownership!Next]_(Ownership!vars)
  <1>1. SUFFICES ASSUME Inv, Inv', OwnershipInv, [Next]_vars
                 PROVE  [Ownership!Next]_(Ownership!vars)
    OBVIOUS
  <1>2. ASSUME NEW r \in Requests, Handler(r) PROVE [Ownership!Next]_(Ownership!vars)
    <2>1. /\ UNCHANGED <<req, registry, added, removed>>
          /\ Begins(r) \/ CallsAgain(r) \/ Answers(r)
      BY <1>1, <1>2, HandlerMoves
    <2>2. CASE Begins(r)
      <3>1. [Ownership!Begin(r)]_(Ownership!vars)
        BY <1>1, <2>1, <2>2, SimulateBegin
      <3>2. QED
        BY <3>1 DEF Ownership!Next
    <2>3. CASE CallsAgain(r)
      <3>1. \A q \in Requests : SinceOf(q)' = SinceOf(q)
        BY <2>1, <2>3 DEF CallsAgain, SinceOf
      <3>2. QED
        BY <2>1, <2>3, <3>1, SimulateStutter DEF CallsAgain
    <2>4. CASE Answers(r)
      <3>1. Ownership!Answer(r)
        BY <1>1, <2>1, <2>4, SimulateAnswer
      <3>2. QED
        BY <3>1 DEF Ownership!Next
    <2>5. QED
      BY <2>1, <2>2, <2>3, <2>4
  <1>3. CASE UNCHANGED vars
    <2>1. \A q \in Requests : SinceOf(q)' = SinceOf(q)
      BY <1>3 DEF vars, SinceOf
    <2>2. QED
      BY <1>3, <2>1, SimulateStutter DEF vars
  <1>4. QED
    BY <1>1, <1>2, <1>3, SimulateHandle DEF Next, Terminating

(* The handlers and registries change a source as SourceOwnership says,    *)
(* for any requests, users and sources and whichever calls are lost.       *)
THEOREM ImplementsOwnershipHolds == Spec => ImplementsOwnership
<1>1. Spec => [](Inv /\ OwnershipInv)
  BY InitInv, NextKeeps, InitOwnership, NextOwnership, PTL DEF Spec
<1>2. QED
  BY <1>1, SimulateInit, SimulateNext, PTL DEF Spec, ImplementsOwnership, Ownership!Spec
=============================================================================
