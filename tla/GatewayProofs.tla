--------------------------- MODULE GatewayProofs ---------------------------
(* Proofs about Gateway, for any requests, workloads, limits, rates and    *)
(* any number of restarts.                                                 *)
EXTENDS Gateway, FiniteSetTheorems, SequenceTheorems, TLAPS

BeforeBody == {"take", "sleep", "body", "source", "login"}
Handling == BeforeBody \cup Calls

(* The ids of a request in its context: the user the auth service approved *)
(* and the group of the header.                                            *)
Ids(r) == [user |-> query[r].user, group |-> query[r].group]

(* Nothing was done for r.                                                 *)
Untouched(r) ==
  /\ sent[r] = <<>> /\ stream[r] = <<>> /\ held[r] = 0
  /\ logins[r] = "none" /\ slot[r] = 0
  /\ \A c \in calls : c[1] # r

(* The life of a request.                                                  *)
RequestInv(r) ==
  /\ pc[r] \in {"idle", "authenticate"} => verdict[r] = "none" /\ http[r] = 0 /\ ack[r] = 0
  /\ pc[r] \in Handling => verdict[r] = "OK" /\ http[r] = 0 /\ ctx[r] = Ids(r)
  /\ verdict[r] # "OK" => Untouched(r)
  /\ pc[r] \in BeforeBody =>
       sent[r] = <<>> /\ stream[r] = <<>> /\ logins[r] = "none" /\ held[r] = 0 /\ ack[r] = 0
  /\ pc[r] = "crashed" => http[r] = 0
  /\ query[r].route = "write" => ack[r] <= held[r]
  /\ Len(sent[r]) <= MaxBatch
  /\ \A j \in DOMAIN sent[r] :
       sent[r][j].user = query[r].user /\ sent[r][j].group = query[r].group

(* A call on the wire: nothing was done for its request beyond the calls   *)
(* before it, and with a Release the request keeps what it was             *)
(* acknowledged.                                                           *)
MessageInv(m) ==
  /\ pc[m.r] \in Calls \cup {"done", "crashed"}
  /\ verdict[m.r] = "OK" /\ ctx[m.r] = Ids(m.r)
  /\ m.count <= Len(sent[m.r])
  /\ \A n \in net : n.r = m.r /\ n.call = m.call => n = m
  /\ m.call = "allocate" =>
       /\ query[m.r].route = "write" /\ held[m.r] = 0 /\ ack[m.r] = 0 /\ stream[m.r] = <<>>
       /\ pc[m.r] \in {"allocate", "done", "crashed"}
       /\ \A n \in net : n.r = m.r => n = m
  /\ m.call = "publish" =>
       /\ ack[m.r] = 0 /\ stream[m.r] = <<>> /\ pc[m.r] # "allocate"
       /\ pc[m.r] = "publish" /\ query[m.r].route = "write" => held[m.r] = m.count
  /\ m.call = "release" =>
       /\ query[m.r].route = "write" /\ m.count + ack[m.r] = held[m.r]
       /\ pc[m.r] \in {"release", "done", "crashed"}

LocalInv ==
  /\ TypeOK
  /\ \A r \in Requests : RequestInv(r)
  /\ \A m \in net : MessageInv(m)
  /\ InTheNameOfSender
  /\ LoginTruthful

(***************************************************************************)
(* Sequences of events                                                     *)
(***************************************************************************)

(* A stamped prefix of a batch.                                            *)
LEMMA StampedPrefix ==
  ASSUME NEW batch \in Seq(EventType), NEW n \in 0..Len(batch),
         NEW c \in [user : Users, group : Groups], NEW s,
         s = [j \in 1..n |-> Stamp(batch[j], c)]
  PROVE  /\ s \in Seq(EventType) /\ Len(s) = n
         /\ \A j \in DOMAIN s : s[j].user = c.user /\ s[j].group = c.group
  <1>1. \A j \in 1..n : batch[j] \in EventType
    BY SMT
  <1>2. \A j \in 1..n : /\ Stamp(batch[j], c) \in EventType
                        /\ Stamp(batch[j], c).user = c.user
                        /\ Stamp(batch[j], c).group = c.group
    BY <1>1 DEF Stamp, EventType
  <1>3. QED
    BY <1>2

LEMMA Prefix ==
  ASSUME NEW s \in Seq(EventType), NEW k \in 0..Len(s)
  PROVE  /\ SubSeq(s, 1, k) \in Seq(EventType) /\ Len(SubSeq(s, 1, k)) = k
         /\ \A j \in DOMAIN SubSeq(s, 1, k) : j \in DOMAIN s /\ SubSeq(s, 1, k)[j] = s[j]
  <1>1. \A j \in 1..k : s[j] \in EventType
    OBVIOUS
  <1>2. /\ SubSeq(s, 1, k) \in Seq(EventType)
        /\ Len(SubSeq(s, 1, k)) = IF 1 <= k THEN k - 1 + 1 ELSE 0
        /\ \A j \in 1..(k - 1 + 1) : SubSeq(s, 1, k)[j] = s[1 + j - 1]
    BY <1>1, SubSeqProperties
  <1>3. QED
    BY <1>2

(***************************************************************************)
(* One lemma per action                                                    *)
(***************************************************************************)
USE DEF Over, Calls, Steps, Statuses, Verdicts

LEMMA QueryTyped == ASSUME TypeOK, NEW r \in Requests PROVE query[r] \in QueryType
  BY WorkloadsAssumption DEF TypeOK

LEMMA InitLocal == Init => LocalInv
  BY UsersAssumption, GroupsAssumption, LimitAssumption, BoundsAssumption
  DEF Init, LocalInv, TypeOK, RequestInv, Untouched, BeforeBody, Handling, NoCtx,
      InTheNameOfSender, LoginTruthful, Logins

(* What is known of a call on the wire.                                    *)
LEMMA OnTheWire ==
  ASSUME LocalInv, NEW m \in net
  PROVE  /\ m \in Message /\ m.r \in Requests /\ m.count \in 0..MaxBatch /\ m.call \in Calls
         /\ TypeOK /\ RequestInv(m.r) /\ MessageInv(m)
         /\ net \subseteq Message /\ \A n \in net : MessageInv(n)
  <1>1. TypeOK /\ \A n \in net : MessageInv(n)
    BY DEF LocalInv
  <1>2. net \subseteq Message
    BY <1>1 DEF TypeOK
  <1>3. m.r \in Requests /\ m.count \in 0..MaxBatch /\ m.call \in Calls
    BY <1>2 DEF Message
  <1>4. RequestInv(m.r)
    BY <1>3 DEF LocalInv
  <1>5. QED
    BY <1>1, <1>2, <1>3, <1>4

(* A step of a request without calls on the wire, which puts none there.   *)
LEMMA MessagesFrame ==
  ASSUME LocalInv, NEW r \in Requests, pc[r] \notin Calls \cup {"done", "crashed"},
         NEW step, pc' = [pc EXCEPT ![r] = step],
         verdict' = verdict \/ \E v : verdict' = [verdict EXCEPT ![r] = v],
         ctx' = ctx \/ \E c : ctx' = [ctx EXCEPT ![r] = c],
         UNCHANGED <<query, submission>>
  PROVE  \A m \in net' : MessageInv(m)'
  <1>. SUFFICES ASSUME NEW m \in net PROVE MessageInv(m)'
    BY DEF submission
  <1>1. m.r \in Requests /\ MessageInv(m) /\ TypeOK
    BY OnTheWire
  <1>2. m.r # r
    BY <1>1 DEF MessageInv
  <1>3. pc'[m.r] = pc[m.r] /\ verdict'[m.r] = verdict[m.r] /\ ctx'[m.r] = ctx[m.r]
    BY <1>1, <1>2 DEF TypeOK
  <1>4. UNCHANGED <<query, sent, ack, net, held, stream>>
    BY DEF submission, services
  <1>5. QED
    BY <1>1, <1>3, <1>4 DEF MessageInv, Ids

(* The two ways a handler goes on keep the types of pc and http.           *)
LEMMA GoToType ==
  ASSUME TypeOK, NEW r \in Requests, NEW step \in Handling \cup {"authenticate"}, GoTo(r, step)
  PROVE  /\ pc' \in [Requests -> Steps]
         /\ http' = http
  BY DEF TypeOK, GoTo, Handling, BeforeBody

LEMMA RespondType ==
  ASSUME TypeOK, NEW r \in Requests,
         NEW status \in {200, 202, 400, 401, 403, 423, 500, 503}, Respond(r, status)
  PROVE  /\ pc' \in [Requests -> Steps]
         /\ http' \in [Requests -> Statuses]
  BY DEF TypeOK, Respond

LEMMA ArriveStep ==
  ASSUME LocalInv, NEW r \in Requests, Arrive(r) PROVE LocalInv'
  <1>1. TypeOK'
    <2>1. /\ TypeOK
          /\ GoTo(r, "authenticate") \/ Respond(r, 401)
          /\ UNCHANGED <<session, limiter, submission, elsewhere>>
      BY DEF LocalInv, Arrive
    <2>2. pc' \in [Requests -> Steps] /\ http' \in [Requests -> Statuses]
      <3>1. CASE GoTo(r, "authenticate")
        <4>1. http \in [Requests -> Statuses]
          BY <2>1 DEF TypeOK
        <4>2. QED
          BY <2>1, <3>1, <4>1, GoToType
      <3>2. CASE Respond(r, 401)
        BY <2>1, <3>2, RespondType
      <3>3. QED
        BY <2>1, <3>1, <3>2
    <2>3. QED
      BY <2>1, <2>2, SMTT(30) DEF TypeOK, session, limiter, submission, services, elsewhere
  <1>2. \A q \in Requests : RequestInv(q)'
    BY SMTT(30) DEF LocalInv, TypeOK, RequestInv, Untouched, Ids, BeforeBody, Handling,
           Arrive, GoTo, Respond, session, limiter, submission, services, elsewhere
  <1>3. \A m \in net' : MessageInv(m)'
    <2>1. PICK step : pc' = [pc EXCEPT ![r] = step]
      BY DEF Arrive, GoTo, Respond
    <2>2. pc[r] = "idle" /\ UNCHANGED <<query, verdict, ctx, submission>>
      BY DEF Arrive, session
    <2>3. QED
      BY <2>1, <2>2, MessagesFrame
  <1>4. InTheNameOfSender' /\ LoginTruthful'
    BY DEF LocalInv, TypeOK, InTheNameOfSender, LoginTruthful,
           Arrive, GoTo, Respond, session, limiter, submission, services, elsewhere
  <1>5. QED
    BY <1>1, <1>2, <1>3, <1>4 DEF LocalInv

LEMMA AuthorizeStep ==
  ASSUME LocalInv, NEW r \in Requests, Authorize(r) PROVE LocalInv'
  <1>. DEFINE step == HandlerOf(query[r].route)
  <1>1. query[r] \in QueryType
    BY QueryTyped DEF LocalInv
  <1>2. step \in {"take", "body", "source", "login"}
    BY <1>1 DEF HandlerOf, QueryType, Routes
  <1>3. PICK v \in Verdicts : \E code \in AuthResults(v) :
          /\ verdict' = [verdict EXCEPT ![r] = v]
          /\ \/ code = "OK" /\ GoTo(r, step) /\ ctx' = [ctx EXCEPT ![r] = Ids(r)]
             \/ code # "OK" /\ Respond(r, AuthStatus(code)) /\ UNCHANGED ctx
    BY DEF Authorize, Ids
  <1>4. pc[r] = "authenticate" /\ UNCHANGED <<query, limiter, submission, elsewhere>>
    BY DEF Authorize
  <1>5. PICK code \in AuthResults(v) :
          \/ code = "OK" /\ v = "OK" /\ GoTo(r, step) /\ ctx' = [ctx EXCEPT ![r] = Ids(r)]
          \/ code # "OK" /\ Respond(r, AuthStatus(code)) /\ UNCHANGED ctx
    BY <1>3 DEF AuthResults
  <1>6. AuthStatus(code) \in {400, 401, 500}
    BY DEF AuthStatus
  <1>7. Ids(r) \in [user : Users, group : Groups]
    BY <1>1 DEF Ids, QueryType
  <1>. HIDE DEF step
  <1>8. TypeOK'
    <2>1. TypeOK /\ verdict' \in [Requests -> Verdicts \cup {"none"}]
      <3>1. TypeOK /\ verdict \in [Requests -> Verdicts \cup {"none"}]
        BY DEF LocalInv, TypeOK
      <3>2. QED
        BY <1>3, <3>1
    <2>2. CASE GoTo(r, step) /\ ctx' = [ctx EXCEPT ![r] = Ids(r)]
      <3>1. ctx' \in [Requests -> [user : Users, group : Groups]]
        BY <2>1, <2>2, <1>7 DEF TypeOK
      <3>2. pc' \in [Requests -> Steps] /\ http' = http
        BY <2>1, <2>2, <1>2, GoToType DEF Handling, BeforeBody
      <3>3. QED
        BY <2>1, <3>1, <3>2, <1>4, SMTT(30) DEF TypeOK, limiter, submission, services, elsewhere
    <2>3. CASE Respond(r, AuthStatus(code)) /\ UNCHANGED ctx
      <3>1. PICK status \in {400, 401, 500} : Respond(r, status)
        BY <2>3, <1>6
      <3>2. QED
        <4>1. pc' \in [Requests -> Steps] /\ http' \in [Requests -> Statuses]
          BY <2>1, <3>1, RespondType
        <4>2. QED
          BY <2>1, <2>3, <4>1, <1>4, SMTT(30) DEF TypeOK, limiter, submission, services, elsewhere
    <2>4. QED
      BY <1>5, <2>2, <2>3
  <1>9. \A q \in Requests : RequestInv(q)'
    <2>. SUFFICES ASSUME NEW q \in Requests PROVE RequestInv(q)'
      OBVIOUS
    <2>1. RequestInv(q) /\ RequestInv(r)
      BY DEF LocalInv
    <2>2. UNCHANGED <<query, slot, sent, ack, held, stream, calls, logins>>
      BY <1>4 DEF limiter, submission, services, elsewhere
    <2>3. /\ pc \in [Requests -> Steps] /\ http \in [Requests -> Statuses]
          /\ verdict \in [Requests -> Verdicts \cup {"none"}]
          /\ ctx \in [Requests -> [user : Users, group : Groups]]
      BY DEF LocalInv, TypeOK
    <2>4. CASE q = r
      <3>1. verdict'[r] = v /\ Untouched(r) /\ http[r] = 0
        BY <1>3, <1>4, <2>1, <2>3, <2>4 DEF RequestInv
      <3>2. Untouched(r)'
        BY <2>2, <3>1 DEF Untouched
      <3>3. \/ /\ pc'[r] = step /\ v = "OK" /\ http'[r] = 0 /\ ctx'[r] = Ids(r)
            \/ pc'[r] = "done"
        BY <1>5, <2>3, <3>1 DEF GoTo, Respond
      <3>4. /\ sent'[r] = <<>> /\ stream'[r] = <<>> /\ held'[r] = 0 /\ logins'[r] = "none"
            /\ Ids(r)' = Ids(r)
        BY <2>2, <3>2 DEF Untouched, Ids
      <3>5. /\ query'[r].route = "write" => ack'[r] <= held'[r]
            /\ Len(sent'[r]) <= MaxBatch
            /\ \A j \in DOMAIN sent'[r] :
                 sent'[r][j].user = query'[r].user /\ sent'[r][j].group = query'[r].group
        BY <2>1, <2>2 DEF RequestInv
      <3>6. ack'[r] = 0
        BY <1>4, <2>1, <2>2 DEF RequestInv
      <3>7. QED
        BY <1>2, <2>4, <3>1, <3>2, <3>3, <3>4, <3>5, <3>6 DEF RequestInv, BeforeBody, Handling
    <2>5. CASE q # r
      <3>1. /\ pc'[q] = pc[q] /\ http'[q] = http[q] /\ verdict'[q] = verdict[q]
            /\ ctx'[q] = ctx[q]
        BY <1>3, <2>3, <2>5 DEF GoTo, Respond
      <3>2. QED
        BY <2>1, <2>2, <3>1 DEF RequestInv, Untouched, Ids
    <2>6. QED
      BY <2>4, <2>5
  <1>10. \A m \in net' : MessageInv(m)'
    <2>1. PICK next : pc' = [pc EXCEPT ![r] = next]
      BY <1>5 DEF GoTo, Respond
    <2>2. ctx' = ctx \/ \E c : ctx' = [ctx EXCEPT ![r] = c]
      BY <1>5
    <2>3. QED
      BY <1>3, <1>4, <2>1, <2>2, MessagesFrame
  <1>11. InTheNameOfSender' /\ LoginTruthful'
    BY <1>4, <1>5, <1>6, SMTT(30)
    DEF LocalInv, TypeOK, InTheNameOfSender, LoginTruthful,
        GoTo, Respond, limiter, submission, services, elsewhere
  <1>12. QED
    BY <1>8, <1>9, <1>10, <1>11 DEF LocalInv

(* The next permission is after the last one and after 0.                  *)
LEMMA PermissionLater ==
  ASSUME TypeOK
  PROVE  /\ Permission \in Nat /\ Permission >= 1
         /\ nextSlot # 0 => Permission >= nextSlot + Interval
         /\ nextSlot = 0 => Permission = now
  <1>1. Slack * Interval \in Nat /\ (Slack + 1) * Interval = Slack * Interval + Interval
    BY BoundsAssumption
  <1>2. QED
    BY <1>1, BoundsAssumption DEF TypeOK, Permission

LEMMA TakeStep ==
  ASSUME LocalInv, NEW r \in Requests, Take(r) PROVE LocalInv'
  <1>. DEFINE p == Permission
  <1>1. p \in Nat /\ slot' = [slot EXCEPT ![r] = p] /\ nextSlot' = p
    BY PermissionLater DEF LocalInv, Take
  <1>. HIDE DEF p
  <1>2. TypeOK'
    <2>1. TypeOK
      BY DEF LocalInv
    <2>2. pc' \in [Requests -> Steps] /\ http' = http /\ slot' \in [Requests -> Nat]
      BY <1>1, <2>1 DEF TypeOK, Take, GoTo
    <2>3. UNCHANGED <<query, verdict, ctx, now, starts, sent, ack, net, usage, period, held,
                      stream, calls, logins>>
      BY DEF Take, session, submission, services, elsewhere
    <2>4. QED
      BY <1>1, <2>1, <2>2, <2>3, SMTT(30) DEF TypeOK
  <1>3. \A q \in Requests : RequestInv(q)'
    BY <1>1 DEF LocalInv, TypeOK, RequestInv, Untouched, Ids, BeforeBody, Handling,
           Take, GoTo, session, submission, services, elsewhere
  <1>4. \A m \in net' : MessageInv(m)'
    BY MessagesFrame DEF Take, GoTo, session
  <1>5. InTheNameOfSender' /\ LoginTruthful'
    BY DEF LocalInv, InTheNameOfSender, LoginTruthful,
           Take, GoTo, session, submission, services, elsewhere
  <1>6. QED
    BY <1>2, <1>3, <1>4, <1>5 DEF LocalInv

LEMMA WakeStep ==
  ASSUME LocalInv, NEW r \in Requests, Wake(r) PROVE LocalInv'
  <1>1. TypeOK'
    BY SMTT(30) DEF LocalInv, TypeOK, Wake, GoTo, session, limiter, submission, services, elsewhere
  <1>2. \A q \in Requests : RequestInv(q)'
    BY DEF LocalInv, TypeOK, RequestInv, Untouched, Ids, BeforeBody, Handling,
           Wake, GoTo, session, limiter, submission, services, elsewhere
  <1>3. \A m \in net' : MessageInv(m)'
    BY MessagesFrame DEF Wake, GoTo, session
  <1>4. InTheNameOfSender' /\ LoginTruthful'
    BY DEF LocalInv, InTheNameOfSender, LoginTruthful,
           Wake, GoTo, session, limiter, submission, services, elsewhere
  <1>5. QED
    BY <1>1, <1>2, <1>3, <1>4 DEF LocalInv

LEMMA WriteStep ==
  ASSUME LocalInv, NEW r \in Requests, Write(r) PROVE LocalInv'
  <1>. DEFINE q == query[r]
  <1>1. /\ pc[r] = "body" /\ TypeOK /\ RequestInv(r)
        /\ \A m \in net : MessageInv(m) /\ m.r # r
        /\ UNCHANGED <<query, verdict, ctx, slot, nextSlot, now, starts, ack, usage, period,
                       held, stream, calls, logins>>
    BY DEF Write, LocalInv, MessageInv, session, limiter, services, elsewhere
  <1>2. q \in QueryType /\ Len(q.batch) <= MaxBatch
    BY <1>1, QueryTyped, WorkloadsAssumption, SMTT(30) DEF TypeOK
  <1>3. q.batch \in Seq(EventType) /\ ctx[r] = Ids(r) /\ ctx[r] \in [user : Users, group : Groups]
    BY <1>1, <1>2 DEF QueryType, RequestInv, Handling, BeforeBody, TypeOK
  <1>4. CASE \E status \in {200, 403} : Respond(r, status) /\ UNCHANGED <<sent, net>>
    <2>1. PICK status \in {200, 403} : Respond(r, status) /\ UNCHANGED <<sent, net>>
      BY <1>4
    <2>2. TypeOK'
      <3>1. /\ pc' \in [Requests -> Steps]
            /\ http' \in [Requests -> Statuses]
        BY <1>1, <2>1, RespondType
      <3>2. QED
        BY <1>1, <2>1, <3>1, SMTT(30) DEF TypeOK
    <2>3. \A p \in Requests : RequestInv(p)'
      BY <1>1, <2>1 DEF LocalInv, TypeOK, RequestInv, Untouched, Ids, BeforeBody, Handling,
             Respond
    <2>4. \A m \in net' : MessageInv(m)'
      <3>1. PICK step : pc' = [pc EXCEPT ![r] = step]
        BY <2>1 DEF Respond
      <3>2. pc[r] = "body" /\ UNCHANGED <<query, verdict, ctx, submission>>
        BY <1>1, <2>1 DEF submission, services
      <3>3. QED
        BY <3>1, <3>2, MessagesFrame
    <2>5. InTheNameOfSender' /\ LoginTruthful'
      BY <1>1, <2>1 DEF LocalInv, TypeOK, InTheNameOfSender, LoginTruthful, Respond
    <2>6. QED
      BY <2>2, <2>3, <2>4, <2>5 DEF LocalInv
  <1>5. CASE \E n \in 0..Len(q.batch) :
               /\ sent' = [sent EXCEPT ![r] = [j \in 1..n |-> Stamp(q.batch[j], ctx[r])]]
               /\ Call(r, net, IF q.route = "write" THEN "allocate" ELSE "publish", n)
    <2>. DEFINE call == IF q.route = "write" THEN "allocate" ELSE "publish"
                new(n) == [r |-> r, call |-> call, count |-> n]
    <2>1. PICK n \in 0..Len(q.batch) :
            /\ sent' = [sent EXCEPT ![r] = [j \in 1..n |-> Stamp(q.batch[j], ctx[r])]]
            /\ GoTo(r, call) /\ net' = net \cup {new(n)}
      BY <1>5 DEF Call
    <2>2. PICK s : s = [j \in 1..n |-> Stamp(q.batch[j], ctx[r])]
      OBVIOUS
    <2>3. /\ s \in Seq(EventType) /\ Len(s) = n
          /\ \A j \in DOMAIN s : s[j].user = ctx[r].user /\ s[j].group = ctx[r].group
      <3>1. /\ q.batch \in Seq(EventType) /\ ctx[r] \in [user : Users, group : Groups]
            /\ n \in 0..Len(q.batch)
        BY <1>3, <2>1
      <3>. HIDE DEF q
      <3>2. QED
        BY <2>2, <3>1, StampedPrefix
    <2>4. sent' = [sent EXCEPT ![r] = s] /\ n \in 0..MaxBatch
      BY <1>2, <1>3, <2>1, <2>2, <2>3, BoundsAssumption
    <2>5. /\ pc' = [pc EXCEPT ![r] = call] /\ http' = http
          /\ call \in {"allocate", "publish"} /\ (call = "allocate" <=> q.route = "write")
      BY <2>1 DEF GoTo
    <2>6. TypeOK'
      <3>1. sent' \in [Requests -> Seq(EventType)] /\ pc' \in [Requests -> Steps]
        BY <1>1, <2>3, <2>4, <2>5 DEF TypeOK
      <3>2. net' \subseteq Message
        BY <1>1, <2>1, <2>4, <2>5 DEF TypeOK, Message
      <3>3. QED
        BY <1>1, <2>5, <3>1, <3>2, SMTT(30) DEF TypeOK
    <2>. HIDE DEF call, q
    <2>7. \A p \in Requests : RequestInv(p)'
      <3>. SUFFICES ASSUME NEW p \in Requests PROVE RequestInv(p)'
        OBVIOUS
      <3>1. CASE p # r
        BY <1>1, <2>4, <2>5, <3>1
        DEF LocalInv, TypeOK, RequestInv, Untouched, Ids, BeforeBody, Handling
      <3>2. CASE p = r
        <4>1. /\ pc'[r] = call /\ sent'[r] = s /\ http'[r] = 0
              /\ verdict'[r] = "OK" /\ ctx'[r] = Ids(r)' /\ Ids(r)' = ctx[r]
              /\ ack'[r] = 0 /\ held'[r] = 0
          BY <1>1, <1>3, <2>4, <2>5 DEF TypeOK, RequestInv, Ids, BeforeBody, Handling
        <4>2. \A j \in DOMAIN s : s[j].user = query'[r].user /\ s[j].group = query'[r].group
          BY <2>3, <4>1 DEF Ids
        <4>3. QED
          BY <2>3, <2>4, <2>5, <3>2, <4>1, <4>2 DEF RequestInv, BeforeBody, Handling
      <3>3. QED
        BY <3>1, <3>2
    <2>8. \A m \in net' : MessageInv(m)'
      <3>. SUFFICES ASSUME NEW m \in net' PROVE MessageInv(m)'
        OBVIOUS
      <3>1. CASE m = new(n)
        <4>1. /\ m.r = r /\ m.call = call /\ m.count = n
              /\ \A x \in net' : x.r = r => x = m
          BY <1>1, <2>1, <3>1
        <4>2. /\ pc'[r] = call /\ sent'[r] = s /\ stream'[r] = <<>>
              /\ verdict'[r] = "OK" /\ ctx'[r] = Ids(r)'
              /\ ack'[r] = 0 /\ held'[r] = 0
          BY <1>1, <1>3, <2>4, <2>5 DEF TypeOK, RequestInv, Ids, BeforeBody, Handling
        <4>3. call = "allocate" <=> query'[r].route = "write"
          BY <1>1, <2>5 DEF q
        <4>4. QED
          BY <2>3, <2>4, <2>5, <4>1, <4>2, <4>3 DEF MessageInv
      <3>2. CASE m # new(n)
        <4>1. m \in net /\ m.r # r /\ MessageInv(m) /\ m.r \in Requests
          BY <1>1, <2>1, <3>2 DEF TypeOK, Message
        <4>2. \A x \in net' : x.r = m.r => x \in net
          BY <2>1, <4>1
        <4>3. QED
          BY <1>1, <2>4, <2>5, <4>1, <4>2 DEF MessageInv, TypeOK, Ids
      <3>3. QED
        BY <3>1, <3>2
    <2>9. InTheNameOfSender' /\ LoginTruthful'
      BY <1>1, <2>5 DEF LocalInv, InTheNameOfSender, LoginTruthful
    <2>10. QED
      BY <2>6, <2>7, <2>8, <2>9 DEF LocalInv
  <1>6. QED
    BY <1>4, <1>5 DEF Write

(* The events bear the ids of the sender of r.                             *)
Named(r, events) ==
  \A j \in DOMAIN events :
    events[j].user = query[r].user /\ events[j].group = query[r].group

(* The frame of a call of r: it may concern what is left of its calls, its *)
(* permits and its events.                                                 *)
LEMMA CallFrame ==
  ASSUME LocalInv, NEW r \in Requests, TypeOK',
         UNCHANGED <<query, verdict, ctx, limiter, sent, elsewhere>>,
         \A q \in Requests \ {r} : /\ pc'[q] = pc[q] /\ http'[q] = http[q] /\ ack'[q] = ack[q]
                                   /\ held'[q] = held[q] /\ stream'[q] = stream[q],
         http'[r] \in {http[r], 200, 503},
         Named(r, stream'[r]),
         RequestInv(r)',
         \A m \in net' : m.r # r => m \in net,
         \A m \in net' : m.r = r => MessageInv(m)'
  PROVE  LocalInv'
  <1>1. \A q \in Requests : RequestInv(q)'
    BY DEF LocalInv, RequestInv, Untouched, Ids, limiter, elsewhere
  <1>2. \A m \in net' : MessageInv(m)'
    <2>. SUFFICES ASSUME NEW m \in net', m.r # r PROVE MessageInv(m)'
      OBVIOUS
    <2>1. m \in net
      OBVIOUS
    <2>2. MessageInv(m) /\ m.r \in Requests
      BY <2>1, OnTheWire
    <2>3. \A n \in net' : n.r = m.r => n \in net
      OBVIOUS
    <2>4. QED
      BY <2>1, <2>2, <2>3 DEF MessageInv, Ids
  <1>3. InTheNameOfSender'
    BY DEF LocalInv, InTheNameOfSender, Named, elsewhere
  <1>4. LoginTruthful'
    BY DEF LocalInv, LoginTruthful, elsewhere
  <1>5. QED
    BY <1>1, <1>2, <1>3, <1>4 DEF LocalInv

(* The two ends of a step of the publisher: it calls Release with what is  *)
(* left of the permit, or answers.                                         *)
Ended(r, left, unused, n) ==
  \/ /\ unused > 0 /\ pc' = [pc EXCEPT ![r] = "release"] /\ http' = http
     /\ net' = left \cup {[r |-> r, call |-> "release", count |-> unused]}
  \/ /\ unused = 0 /\ pc' = [pc EXCEPT ![r] = "done"]
     /\ http' = [http EXCEPT ![r] = IF n > 0 THEN 200 ELSE 503]
     /\ net' = left

LEMMA SettleEnded ==
  ASSUME NEW r, NEW left, NEW unused, NEW n, Settle(r, left, unused, n)
  PROVE  Ended(r, left, unused, n) /\ ack' = [ack EXCEPT ![r] = n]
  BY DEF Settle, Call, Answer, GoTo, Respond, Ended

LEMMA EndedType ==
  ASSUME TypeOK, NEW r \in Requests, NEW left \in SUBSET Message, NEW unused \in 0..MaxBatch,
         NEW n \in 0..MaxBatch, Ended(r, left, unused, n)
  PROVE  /\ pc' \in [Requests -> Steps] /\ http' \in [Requests -> Statuses]
         /\ net' \subseteq Message
  <1>1. pc \in [Requests -> Steps] /\ http \in [Requests -> Statuses]
    BY ZenonT(60) DEF TypeOK
  <1>2. pc' \in [Requests -> Steps] /\ http' \in [Requests -> Statuses]
    BY <1>1 DEF Ended
  <1>3. unused > 0 => [r |-> r, call |-> "release", count |-> unused] \in Message
    BY DEF Message
  <1>4. QED
    BY <1>2, <1>3 DEF Ended

(* The end of a submission keeps the invariant: with what is acknowledged, *)
(* the unused permits are what the request holds, and the calls left on    *)
(* the wire are known by it.                                               *)
LEMMA SettleStep ==
  ASSUME LocalInv, NEW r \in Requests, NEW left \in SUBSET net,
         NEW unused \in 0..MaxBatch, NEW n \in 0..MaxBatch, Settle(r, left, unused, n),
         pc[r] \in Calls, unused <= Len(sent[r]),
         UNCHANGED <<query, verdict, ctx, limiter, sent, elsewhere>>,
         usage' \in [Owners -> Nat], \A o \in Owners : usage'[o] <= Limit[o],
         period' = period,
         held' \in [Requests -> 0..MaxBatch], stream' \in [Requests -> Seq(EventType)],
         \A q \in Requests \ {r} : held'[q] = held[q] /\ stream'[q] = stream[q],
         Named(r, stream'[r]),
         query[r].route = "write" => unused + n = held'[r],
         unused > 0 => query[r].route = "write",
         \A m \in left : m.r = r =>
           /\ n = 0 /\ stream'[r] = <<>> /\ m.call \in {"allocate", "publish"}
           /\ m.call = "allocate" => unused = 0 /\ held'[r] = 0
  PROVE  LocalInv'
  <1>1. Ended(r, left, unused, n) /\ ack' = [ack EXCEPT ![r] = n]
    BY SettleEnded
  <1>2. /\ TypeOK /\ RequestInv(r) /\ net \subseteq Message
        /\ \A m \in net : MessageInv(m)
    BY DEF LocalInv, TypeOK
  <1>3. TypeOK'
    <2>1. pc' \in [Requests -> Steps] /\ http' \in [Requests -> Statuses] /\ net' \subseteq Message
      BY <1>1, <1>2, EndedType
    <2>2. QED
      BY <1>1, <1>2, <2>1, ZenonT(60) DEF TypeOK, limiter, elsewhere
  <1>4. \A q \in Requests \ {r} : pc'[q] = pc[q] /\ http'[q] = http[q] /\ ack'[q] = ack[q]
    BY <1>1, <1>2, SMTT(30) DEF Ended, TypeOK
  <1>5. /\ ack'[r] = n
        /\ \/ unused > 0 /\ pc'[r] = "release" /\ http'[r] = http[r]
           \/ unused = 0 /\ pc'[r] = "done" /\ http'[r] \in {200, 503}
    BY <1>1, <1>2 DEF Ended, TypeOK
  <1>6. verdict[r] = "OK" /\ http[r] = 0 /\ ctx[r] = Ids(r)
    BY <1>2 DEF RequestInv, Handling
  <1>7. RequestInv(r)'
    <2>1. query[r].route = "write" => n <= held'[r]
      OBVIOUS
    <2>2. QED
      BY <1>2, <1>5, <1>6, <2>1 DEF RequestInv, BeforeBody, Handling, Ids
  <1>8. ASSUME NEW m \in net', m.r = r PROVE MessageInv(m)'
    <2>1. CASE m \in left
      <3>1. m \in net /\ MessageInv(m) /\ m.call \in {"allocate", "publish"}
        BY <1>2, <1>8, <2>1
      <3>2. \A x \in net' : x.r = m.r /\ x.call = m.call => x \in net
        BY <1>1, <3>1 DEF Ended
      <3>3. m.call = "allocate" => net' = left
        BY <1>1, <1>8, <2>1 DEF Ended
      <3>4. QED
        BY <1>5, <1>6, <1>8, <2>1, <3>1, <3>2, <3>3 DEF MessageInv, Ids
    <2>2. CASE m \notin left
      <3>1. unused > 0 /\ m = [r |-> r, call |-> "release", count |-> unused]
            /\ net' = left \cup {m}
        BY <1>1, <2>2 DEF Ended
      <3>2. \A x \in net' : x.r = r /\ x.call = "release" => x = m
        BY <3>1
      <3>3. m.call = "release" /\ m.count = unused
        BY <3>1
      <3>4. QED
        BY <1>5, <1>6, <1>8, <3>1, <3>2, <3>3 DEF MessageInv, Ids
    <2>3. QED
      BY <2>1, <2>2
  <1>9. \A m \in net' : m.r # r => m \in net
    BY <1>1 DEF Ended
  <1>10. http'[r] \in {http[r], 200, 503}
    BY <1>5
  <1>11. QED
    BY <1>3, <1>4, <1>7, <1>8, <1>9, <1>10, CallFrame

LEMMA UnusedBound ==
  ASSUME LocalInv, NEW m \in net, Waits(m), m.call # "release", NEW n \in 0..m.count,
         m.call = "allocate" => n = 0
  PROVE  /\ Unused(m, n) \in 0..m.count
         /\ Unused(m, n) > 0 => query[m.r].route = "write" /\ m.call = "publish"
         /\ query[m.r].route = "write" => Unused(m, n) + n = held[m.r]
  BY OnTheWire DEF Unused, Waits, MessageInv, Message

LEMMA AllocateStep ==
  ASSUME LocalInv, NEW m \in net, Allocate(m) PROVE LocalInv'
  <1>. DEFINE r == m.r
              o == OwnerOf(m.r)
              count == Smaller(m.count, Limit[o] - usage[o])
  <1>1. /\ TypeOK /\ r \in Requests /\ m.count \in 0..MaxBatch /\ MessageInv(m) /\ RequestInv(r)
        /\ m.call = "allocate" /\ o \in Owners
    BY OnTheWire DEF Allocate, OwnerOf, Owners
  <1>2. /\ count \in 0..m.count /\ usage[o] \in Nat /\ usage[o] + count <= Limit[o]
        /\ held[r] = 0 /\ ack[r] = 0 /\ stream[r] = <<>> /\ m.count <= Len(sent[r])
        /\ query[r].route = "write"
        /\ \A n \in net : n.r = r => n = m
    BY <1>1, LimitAssumption DEF Smaller, TypeOK, MessageInv
  <1>3. /\ usage' = [usage EXCEPT ![o] = @ + count] /\ held' = [held EXCEPT ![r] = @ + count]
        /\ \/ Unheard(m)
           \/ Waits(m) /\ count = 0 /\ Settle(r, net \ {m}, 0, 0)
           \/ Waits(m) /\ count > 0 /\ Call(r, net \ {m}, "publish", count) /\ UNCHANGED ack
        /\ UNCHANGED <<query, verdict, ctx, limiter, sent, period, stream, elsewhere>>
    BY DEF Allocate, session
  <1>. HIDE DEF count, o, r
  <1>4. /\ usage' \in [Owners -> Nat] /\ \A x \in Owners : usage'[x] <= Limit[x]
        /\ held' \in [Requests -> 0..MaxBatch] /\ held'[r] = count
        /\ \A q \in Requests \ {r} : held'[q] = held[q]
    BY <1>1, <1>2, <1>3, BoundsAssumption DEF TypeOK
  <1>5. CASE Unheard(m)
    <2>1. /\ net' = net \ {m} /\ UNCHANGED <<pc, http, ack>> /\ pc[r] # "allocate"
      BY <1>1, <1>5 DEF Unheard, Waits, r
    <2>2. TypeOK'
      BY <1>1, <1>3, <1>4, <2>1 DEF TypeOK, limiter, elsewhere
    <2>3. RequestInv(r)'
      BY <1>1, <1>2, <1>3, <1>4, <2>1 DEF RequestInv, MessageInv, Untouched, BeforeBody, Handling,
         Ids, r
    <2>4. \A n \in net' : n.r # r /\ n \in net
      BY <1>2, <2>1
    <2>5. Named(r, stream'[r])
      BY <1>2, <1>3 DEF Named
    <2>6. QED
      BY <1>1, <1>3, <1>4, <2>1, <2>2, <2>3, <2>4, <2>5, CallFrame
  <1>6. CASE Waits(m) /\ count = 0 /\ Settle(r, net \ {m}, 0, 0)
    <2>1. pc[r] \in Calls /\ \A n \in net \ {m} : n.r # r
      BY <1>1, <1>2, <1>6 DEF Waits, r
    <2>2. stream' \in [Requests -> Seq(EventType)] /\ stream'[r] = <<>> /\ stream' = stream
      BY <1>1, <1>2, <1>3 DEF TypeOK
    <2>3. 0 <= Len(sent[r]) /\ 0 \in 0..MaxBatch /\ 0 + 0 = held'[r]
      BY <1>1, <1>2, <1>4, <1>6, BoundsAssumption
    <2>4. Named(r, stream'[r])
      BY <2>2 DEF Named
    <2>5. QED
      BY <1>1, <1>2, <1>3, <1>4, <1>6, <2>1, <2>2, <2>3, <2>4, SettleStep
  <1>7. CASE Waits(m) /\ count > 0 /\ Call(r, net \ {m}, "publish", count) /\ UNCHANGED ack
    <2>. DEFINE new == [r |-> r, call |-> "publish", count |-> count]
    <2>1. /\ pc' = [pc EXCEPT ![r] = "publish"] /\ http' = http /\ ack' = ack
          /\ net' = (net \ {m}) \cup {new} /\ pc[r] = "allocate"
      BY <1>1, <1>7 DEF Call, GoTo, Waits, r
    <2>2. TypeOK'
      <3>1. pc' \in [Requests -> Steps] /\ net \subseteq Message
        BY <1>1, <2>1 DEF TypeOK
      <3>2. new \in Message
        <4>1. count \in 0..MaxBatch
          BY <1>1, <1>2, BoundsAssumption
        <4>2. QED
          BY <1>1, <4>1 DEF Message
      <3>3. net' \subseteq Message
        BY <2>1, <3>1, <3>2
      <3>. HIDE DEF new
      <3>4. QED
        BY <1>1, <1>3, <1>4, <2>1, <3>1, <3>3 DEF TypeOK, limiter, elsewhere
    <2>3. RequestInv(r)' /\ pc'[r] = "publish" /\ \A q \in Requests \ {r} : pc'[q] = pc[q]
      BY <1>1, <1>2, <1>3, <1>4, <2>1
      DEF RequestInv, MessageInv, Untouched, BeforeBody, Handling, Ids, TypeOK
    <2>4. ASSUME NEW n \in net', n.r = r PROVE MessageInv(n)'
      <3>1. n = new /\ n.call = "publish" /\ n.count = count /\ \A x \in net' : x.r = r => x = n
        BY <1>2, <2>1, <2>4
      <3>2. verdict'[r] = "OK" /\ ctx'[r] = Ids(r)'
        BY <1>1, <1>3 DEF MessageInv, Ids, r
      <3>3. count <= Len(sent'[r])
        BY <1>1, <1>2, <1>3
      <3>4. ack'[r] = 0 /\ stream'[r] = <<>> /\ held'[r] = count
        BY <1>2, <1>3, <1>4, <2>1
      <3>5. QED
        BY <2>3, <2>4, <3>1, <3>2, <3>3, <3>4 DEF MessageInv
    <2>5. \A n \in net' : n.r # r => n \in net
      BY <2>1
    <2>6. Named(r, stream'[r])
      BY <1>2, <1>3 DEF Named
    <2>7. QED
      BY <1>1, <1>3, <1>4, <2>1, <2>2, <2>3, <2>4, <2>5, <2>6, CallFrame
  <1>8. QED
    BY <1>3, <1>5, <1>6, <1>7

LEMMA PublishStep ==
  ASSUME LocalInv, NEW m \in net, Publish(m) PROVE LocalInv'
  <1>. DEFINE r == m.r
  <1>1. /\ TypeOK /\ r \in Requests /\ m.count \in 0..MaxBatch /\ MessageInv(m) /\ RequestInv(r)
        /\ m.call = "publish" /\ net \subseteq Message
        /\ UNCHANGED <<query, verdict, ctx, limiter, sent, usage, period, held, elsewhere>>
        /\ \A n \in net : MessageInv(n)
    BY OnTheWire DEF Publish, session
  <1>2. PICK k \in 0..m.count :
          /\ stream' = [stream EXCEPT ![r] = SubSeq(sent[r], 1, k)]
          /\ Unheard(m) \/ (Waits(m) /\ Settle(r, net \ {m}, Unused(m, k), k))
    BY DEF Publish
  <1>3. PICK s : s = SubSeq(sent[r], 1, k)
    OBVIOUS
  <1>. HIDE DEF r
  <1>4. sent[r] \in Seq(EventType) /\ k \in 0..Len(sent[r]) /\ k \in 0..MaxBatch
    <2>1. sent[r] \in Seq(EventType)
      BY <1>1 DEF TypeOK
    <2>2. m.count <= Len(sent[r])
      BY <1>1 DEF MessageInv, r
    <2>3. QED
      BY <1>1, <2>1, <2>2, BoundsAssumption
  <1>5. /\ s \in Seq(EventType)
        /\ \A j \in DOMAIN s : j \in DOMAIN sent[r] /\ s[j] = sent[r][j]
    BY <1>3, <1>4, Prefix
  <1>6. \A j \in DOMAIN s : s[j].user = query[r].user /\ s[j].group = query[r].group
    BY <1>1, <1>5 DEF RequestInv
  <1>7. /\ stream' \in [Requests -> Seq(EventType)] /\ stream'[r] = s
        /\ \A q \in Requests \ {r} : stream'[q] = stream[q]
    BY <1>1, <1>2, <1>3, <1>5 DEF TypeOK
  <1>8. CASE Unheard(m)
    <2>1. /\ net' = net \ {m} /\ UNCHANGED <<pc, http, ack>>
          /\ pc[r] \in {"release", "done", "crashed"}
      BY <1>1, <1>8 DEF Unheard, Waits, MessageInv, r
    <2>2. TypeOK'
      BY <1>1, <1>7, <2>1 DEF TypeOK, limiter, elsewhere
    <2>3. RequestInv(r)'
      BY <1>1, <2>1 DEF RequestInv, MessageInv, Untouched, BeforeBody, Handling, Ids, r
    <2>4. ASSUME NEW n \in net', n.r = r PROVE MessageInv(n)'
      <3>1. n \in net /\ n # m /\ MessageInv(n) /\ n.call = "release"
        BY <1>1, <2>1, <2>4 DEF MessageInv, Message, r
      <3>2. QED
        BY <1>1, <2>1, <3>1 DEF MessageInv, Ids
    <2>5. Named(r, stream'[r])
      BY <1>6, <1>7 DEF Named
    <2>6. QED
      BY <1>1, <1>7, <2>1, <2>2, <2>3, <2>4, <2>5, CallFrame
  <1>9. CASE Waits(m) /\ Settle(r, net \ {m}, Unused(m, k), k)
    <2>1. /\ Unused(m, k) \in 0..m.count
          /\ Unused(m, k) > 0 => query[r].route = "write"
          /\ query[r].route = "write" => Unused(m, k) + k = held[r]
      BY <1>1, <1>9, UnusedBound DEF r
    <2>2. pc[r] = "publish" /\ m.count <= Len(sent[r])
      BY <1>1, <1>9 DEF Waits, MessageInv, r
    <2>3. \A n \in net \ {m} : n.r # r
      BY <1>1, <2>2 DEF MessageInv, Message, r
    <2>4. Unused(m, k) \in 0..MaxBatch /\ Unused(m, k) <= Len(sent[r])
      BY <1>1, <1>4, <2>1, <2>2, BoundsAssumption
    <2>5. /\ usage' \in [Owners -> Nat] /\ \A o \in Owners : usage'[o] <= Limit[o]
          /\ held' \in [Requests -> 0..MaxBatch] /\ stream' \in [Requests -> Seq(EventType)]
      BY <1>1, <1>7 DEF TypeOK
    <2>6. /\ UNCHANGED <<query, verdict, ctx, limiter, sent, elsewhere>> /\ period' = period
          /\ pc[r] \in Calls /\ r \in Requests
      BY <1>1, <2>2
    <2>7. query[r].route = "write" => Unused(m, k) + k = held'[r]
      BY <1>1, <2>1
    <2>8. Named(r, stream'[r])
      BY <1>6, <1>7 DEF Named
    <2>9. \A q \in Requests \ {r} : held'[q] = held[q] /\ stream'[q] = stream[q]
      BY <1>1, <1>7
    <2>. DEFINE unused == Unused(m, k)
                left == net \ {m}
    <2>10. /\ k \in 0..MaxBatch /\ unused \in 0..MaxBatch /\ unused <= Len(sent[r])
           /\ unused > 0 => query[r].route = "write"
           /\ query[r].route = "write" => unused + k = held'[r]
           /\ Settle(r, left, unused, k)
           /\ left \in SUBSET net
           /\ \A n \in left : n.r = r =>
                /\ k = 0 /\ stream'[r] = <<>> /\ n.call \in {"allocate", "publish"}
                /\ n.call = "allocate" => unused = 0 /\ held'[r] = 0
      BY <1>4, <1>9, <2>1, <2>3, <2>4, <2>7
    <2>. HIDE DEF unused, left
    <2>11. QED
      BY <2>5, <2>6, <2>8, <2>9, <2>10, SettleStep, SMTT(60)
  <1>10. QED
    BY <1>2, <1>8, <1>9

LEMMA ReleaseStep ==
  ASSUME LocalInv, NEW m \in net, Release(m) PROVE LocalInv'
  <1>. DEFINE r == m.r
              o == OwnerOf(m.r)
  <1>1. /\ TypeOK /\ r \in Requests /\ m.count \in 0..MaxBatch /\ MessageInv(m) /\ RequestInv(r)
        /\ m.call = "release" /\ o \in Owners /\ net \subseteq Message
        /\ \A n \in net : MessageInv(n)
    BY OnTheWire DEF Release, OwnerOf, Owners
  <1>2. /\ usage' = [usage EXCEPT ![o] = @ - Smaller(m.count, @)]
        /\ held' = [held EXCEPT ![r] = @ - m.count]
        /\ \/ Unheard(m)
           \/ Waits(m) /\ Answer(r, net \ {m}, ack[r]) /\ UNCHANGED ack
        /\ UNCHANGED <<query, verdict, ctx, limiter, sent, period, stream, elsewhere>>
    BY DEF Release, session
  <1>. HIDE DEF o, r
  <1>3. m.count + ack[r] = held[r] /\ ack[r] \in 0..MaxBatch /\ held[r] \in 0..MaxBatch
        /\ verdict[r] = "OK" /\ query[r].route = "write"
    BY <1>1 DEF MessageInv, TypeOK, r
  <1>4. /\ usage' \in [Owners -> Nat] /\ \A x \in Owners : usage'[x] <= Limit[x]
        /\ held' \in [Requests -> 0..MaxBatch] /\ held'[r] = ack[r]
        /\ \A q \in Requests \ {r} : held'[q] = held[q]
    <2>1. /\ usage \in [Owners -> Nat] /\ \A x \in Owners : usage[x] <= Limit[x]
          /\ held \in [Requests -> 0..MaxBatch]
      BY <1>1 DEF TypeOK
    <2>2. held' = [held EXCEPT ![r] = ack[r]]
      <3>1. held[r] - m.count = ack[r]
        BY <1>1, <1>3, BoundsAssumption
      <3>2. QED
        BY <1>1, <1>2, <2>1, <3>1
    <2>3. usage[o] - Smaller(m.count, usage[o]) \in 0..usage[o]
      BY <1>1, <2>1, BoundsAssumption DEF Smaller
    <2>4. \A x \in Owners : Limit[x] \in Nat
      BY LimitAssumption
    <2>5. QED
      BY <1>1, <1>2, <1>3, <2>1, <2>2, <2>3, <2>4
  <1>5. /\ net' = net \ {m} /\ ack' = ack
        /\ \/ UNCHANGED <<pc, http>>
           \/ /\ pc[r] = "release" /\ pc' = [pc EXCEPT ![r] = "done"]
              /\ \E status \in {200, 503} : http' = [http EXCEPT ![r] = status]
    BY <1>1, <1>2 DEF Unheard, Waits, Answer, Respond, r
  <1>6. /\ pc' \in [Requests -> Steps] /\ http' \in [Requests -> Statuses]
        /\ \/ pc'[r] = pc[r] /\ http'[r] = http[r]
           \/ pc[r] = "release" /\ pc'[r] = "done" /\ http'[r] \in {200, 503}
        /\ \A q \in Requests \ {r} : pc'[q] = pc[q] /\ http'[q] = http[q]
    <2>1. pc \in [Requests -> Steps] /\ http \in [Requests -> Statuses]
      BY <1>1 DEF TypeOK
    <2>2. QED
      BY <1>1, <1>5, <2>1
  <1>7. TypeOK'
    BY <1>1, <1>2, <1>4, <1>5, <1>6, SMTT(30) DEF TypeOK, limiter, elsewhere
  <1>8. RequestInv(r)'
    <2>1. pc[r] \in {"release", "done", "crashed"}
      BY <1>1 DEF MessageInv, r
    <2>2. ack'[r] <= held'[r] /\ UNCHANGED <<query, verdict, ctx, sent>>
      BY <1>2, <1>3, <1>4, <1>5, BoundsAssumption
    <2>3. verdict'[r] = "OK" /\ pc'[r] \in {"release", "done", "crashed"}
      BY <1>2, <1>3, <1>6, <2>1
    <2>4. /\ pc'[r] = "release" => http'[r] = 0 /\ ctx'[r] = Ids(r)'
          /\ pc'[r] = "crashed" => http'[r] = 0
      BY <1>1, <1>6, <2>1, <2>2 DEF RequestInv, Handling, Ids
    <2>5. /\ Len(sent'[r]) <= MaxBatch
          /\ \A j \in DOMAIN sent'[r] :
               sent'[r][j].user = query'[r].user /\ sent'[r][j].group = query'[r].group
      BY <1>1, <2>2 DEF RequestInv
    <2>6. QED
      BY <2>2, <2>3, <2>4, <2>5 DEF RequestInv, BeforeBody, Handling
  <1>9. ASSUME NEW n \in net', n.r = r PROVE MessageInv(n)'
    <2>1. n \in net /\ n # m /\ MessageInv(n) /\ n.call = "publish"
      BY <1>1, <1>5, <1>9 DEF MessageInv, Message, r
    <2>2. pc'[r] \in {"release", "done", "crashed"}
      BY <1>1, <1>6 DEF MessageInv, r
    <2>3. QED
      BY <1>2, <1>5, <1>9, <2>1, <2>2 DEF MessageInv, Ids
  <1>10. Named(r, stream'[r])
    BY <1>1, <1>2 DEF LocalInv, InTheNameOfSender, Named
  <1>11. \A q \in Requests : ack'[q] = ack[q] /\ stream'[q] = stream[q]
    BY <1>2, <1>5
  <1>12. http'[r] \in {http[r], 200, 503} /\ \A n \in net' : n.r # r => n \in net
    BY <1>5, <1>6
  <1>13. QED
    BY <1>1, <1>2, <1>4, <1>6, <1>7, <1>8, <1>9, <1>10, <1>11, <1>12, CallFrame

LEMMA FailsStep ==
  ASSUME LocalInv, NEW m \in net, Fails(m) PROVE LocalInv'
  <1>. DEFINE r == m.r
  <1>1. /\ TypeOK /\ r \in Requests /\ m.count \in 0..MaxBatch /\ MessageInv(m) /\ RequestInv(r)
        /\ m.call \in Calls /\ pc[r] = m.call /\ Waits(m) /\ net \subseteq Message
        /\ UNCHANGED <<query, verdict, ctx, limiter, sent, usage, period, held, stream, elsewhere>>
        /\ \A n \in net : MessageInv(n)
    BY OnTheWire DEF Fails, Waits, session, services
  <1>2. PICK left \in {net, net \ {m}} :
          \/ m.call # "release" /\ Settle(r, left, Unused(m, 0), 0)
          \/ m.call = "release" /\ Answer(r, left, ack[r]) /\ UNCHANGED ack
    BY DEF Fails
  <1>. HIDE DEF r
  <1>3. Named(r, stream'[r])
    BY <1>1 DEF LocalInv, InTheNameOfSender, Named
  <1>4. CASE m.call # "release" /\ Settle(r, left, Unused(m, 0), 0)
    <2>1. /\ Unused(m, 0) \in 0..m.count
          /\ Unused(m, 0) > 0 => query[r].route = "write" /\ m.call = "publish"
          /\ query[r].route = "write" => Unused(m, 0) + 0 = held[r]
      BY <1>1, <1>4, UnusedBound DEF r
    <2>2. m.count <= Len(sent[r]) /\ stream[r] = <<>>
      BY <1>1, <1>4 DEF MessageInv, r
    <2>3. \A n \in net : n.r = r => n = m
      BY <1>1, <1>4 DEF MessageInv, Message, r
    <2>4. /\ Unused(m, 0) \in 0..MaxBatch /\ Unused(m, 0) <= Len(sent[r]) /\ 0 \in 0..MaxBatch
      BY <1>1, <2>1, <2>2, BoundsAssumption
    <2>5. /\ usage' \in [Owners -> Nat] /\ \A o \in Owners : usage'[o] <= Limit[o]
          /\ held' \in [Requests -> 0..MaxBatch] /\ stream' \in [Requests -> Seq(EventType)]
      BY <1>1 DEF TypeOK
    <2>6. \A n \in left : n.r = r =>
            /\ stream'[r] = <<>> /\ n.call \in {"allocate", "publish"}
            /\ n.call = "allocate" => Unused(m, 0) = 0 /\ held'[r] = 0
      <3>1. SUFFICES ASSUME NEW n \in left, n.r = r
                     PROVE  /\ stream'[r] = <<>> /\ n.call \in {"allocate", "publish"}
                            /\ n.call = "allocate" => Unused(m, 0) = 0 /\ held'[r] = 0
        OBVIOUS
      <3>2. n = m
        BY <2>3, <3>1
      <3>3. m.call = "allocate" => held[r] = 0
        BY <1>1 DEF MessageInv, r
      <3>4. QED
        BY <1>1, <1>4, <2>1, <2>2, <3>2, <3>3
    <2>7. /\ UNCHANGED <<query, verdict, ctx, limiter, sent, elsewhere>> /\ period' = period
          /\ r \in Requests /\ left \in SUBSET net /\ pc[r] \in Calls
          /\ \A q \in Requests \ {r} : held'[q] = held[q] /\ stream'[q] = stream[q]
      BY <1>1
    <2>. DEFINE unused == Unused(m, 0)
    <2>8. /\ 0 \in 0..MaxBatch /\ unused \in 0..MaxBatch /\ unused <= Len(sent[r])
          /\ unused > 0 => query[r].route = "write"
          /\ query[r].route = "write" => unused + 0 = held'[r]
          /\ Settle(r, left, unused, 0)
          /\ \A n \in left : n.r = r =>
               /\ 0 = 0 /\ stream'[r] = <<>> /\ n.call \in {"allocate", "publish"}
               /\ n.call = "allocate" => unused = 0 /\ held'[r] = 0
      BY <1>1, <1>4, <2>1, <2>4, <2>6
    <2>. HIDE DEF unused
    <2>9. QED
      BY <1>3, <2>5, <2>7, <2>8, SettleStep, SMTT(60)
  <1>5. CASE m.call = "release" /\ Answer(r, left, ack[r]) /\ UNCHANGED ack
    <2>1. PICK status \in {200, 503} :
            /\ pc' = [pc EXCEPT ![r] = "done"] /\ http' = [http EXCEPT ![r] = status]
            /\ net' = left /\ ack' = ack
      BY <1>5, ZenonT(60) DEF Answer, Respond
    <2>2. /\ pc' \in [Requests -> Steps] /\ http' \in [Requests -> Statuses]
          /\ pc'[r] = "done" /\ http'[r] \in {200, 503}
          /\ \A q \in Requests \ {r} : pc'[q] = pc[q] /\ http'[q] = http[q]
      BY <1>1, <2>1 DEF TypeOK
    <2>3. TypeOK'
      <3>1. net' \subseteq Message
        BY <1>1, <2>1
      <3>2. UNCHANGED <<query, verdict, ctx, slot, nextSlot, now, starts, sent, ack, usage,
                        period, held, stream, calls, logins>>
        BY <1>1, <2>1 DEF limiter, elsewhere
      <3>3. TypeOK /\ pc' \in [Requests -> Steps] /\ http' \in [Requests -> Statuses]
        BY <1>1, <2>2
      <3>4. QED
        BY <3>1, <3>2, <3>3, SMTT(30) DEF TypeOK
    <2>4. RequestInv(r)'
      BY <1>1, <2>1, <2>2 DEF RequestInv, MessageInv, Untouched, BeforeBody, Handling, Ids, r
    <2>5. ASSUME NEW n \in net', n.r = r PROVE MessageInv(n)'
      <3>1. n \in net /\ MessageInv(n) /\ n.call # "allocate"
        BY <1>1, <1>5, <2>1, <2>5 DEF MessageInv, Message, r
      <3>2. QED
        BY <1>1, <2>1, <2>2, <2>5, <3>1 DEF MessageInv, Ids
    <2>6. QED
      BY <1>1, <1>3, <2>1, <2>2, <2>3, <2>4, <2>5, CallFrame
  <1>6. QED
    BY <1>2, <1>4, <1>5

LEMMA ServeSourceStep ==
  ASSUME LocalInv, NEW r \in Requests, ServeSource(r) PROVE LocalInv'
  <1>1. /\ pc[r] = "source" /\ TypeOK /\ RequestInv(r)
        /\ calls' = calls \cup {<<r, ctx[r].user>>}
        /\ UNCHANGED <<session, limiter, submission, logins>>
    BY DEF ServeSource, LocalInv
  <1>2. PICK status \in {200, 500} : Respond(r, status)
    BY DEF ServeSource
  <1>3. ctx[r].user = query[r].user /\ ctx[r].user \in Users /\ verdict[r] = "OK"
    BY <1>1 DEF TypeOK, RequestInv, Ids, BeforeBody, Handling
  <1>4. TypeOK'
    <2>1. pc' \in [Requests -> Steps] /\ http' \in [Requests -> Statuses]
      BY <1>1, <1>2, RespondType
    <2>2. calls' \subseteq Requests \X Users
      BY <1>1, <1>3 DEF TypeOK
    <2>3. QED
      BY <1>1, <2>1, <2>2 DEF TypeOK, session, limiter, submission, services
  <1>5. \A q \in Requests : RequestInv(q)'
    BY <1>1, <1>2, <1>3 DEF LocalInv, TypeOK, RequestInv, Untouched, Ids, BeforeBody, Handling,
           Respond, session, limiter, submission, services
  <1>6. \A m \in net' : MessageInv(m)'
    <2>1. PICK step : pc' = [pc EXCEPT ![r] = step]
      BY <1>2 DEF Respond
    <2>2. pc[r] = "source" /\ UNCHANGED <<query, verdict, ctx, submission>>
      BY <1>1 DEF session
    <2>3. QED
      BY <2>1, <2>2, MessagesFrame
  <1>7. InTheNameOfSender' /\ LoginTruthful'
    BY <1>1, <1>2, <1>3, SMTT(30) DEF LocalInv, TypeOK, InTheNameOfSender, LoginTruthful,
           Respond, session, limiter, submission, services
  <1>8. QED
    BY <1>4, <1>5, <1>6, <1>7 DEF LocalInv

LEMMA ClientLoginStep ==
  ASSUME LocalInv, NEW r \in Requests, ClientLogin(r) PROVE LocalInv'
  <1>1. /\ pc[r] = "login" /\ TypeOK /\ RequestInv(r)
        /\ UNCHANGED <<session, limiter, submission, calls>>
    BY DEF ClientLogin, LocalInv
  <1> DEFINE Ends(status, login) ==
        /\ Respond(r, status) /\ logins' = [logins EXCEPT ![r] = login]
        /\ status = 202 => login = "accepted"
        /\ status = 423 => login = "rejected"
  <1>2. \E status \in {202, 400, 423, 500} : \E login \in Logins : Ends(status, login)
    <2>1. CASE Respond(r, 400) /\ UNCHANGED logins
      <3>1. logins = [logins EXCEPT ![r] = "none"] /\ "none" \in Logins
        BY <1>1 DEF TypeOK, RequestInv, BeforeBody, Logins
      <3>2. Ends(400, "none")
        BY <2>1, <3>1
      <3> HIDE DEF Ends
      <3>3. QED
        BY <3>1, <3>2
    <2>2. ASSUME NEW login \in Logins, NEW answer \in LoginResults(login),
                 logins' = [logins EXCEPT ![r] = login], Respond(r, LoginStatus(answer))
          PROVE  \E status \in {202, 400, 423, 500} : \E l \in Logins : Ends(status, l)
      <3>1. /\ LoginStatus(answer) \in {202, 423, 500}
            /\ LoginStatus(answer) = 202 => login = "accepted"
            /\ LoginStatus(answer) = 423 => login = "rejected"
        BY <2>2 DEF LoginResults, LoginStatus
      <3>2. Ends(LoginStatus(answer), login)
        BY <2>2, <3>1
      <3> HIDE DEF Ends
      <3>3. QED
        BY <3>1, <3>2
    <2> HIDE DEF Ends
    <2>3. QED
      BY <2>1, <2>2 DEF ClientLogin
  <1>3. PICK status \in {202, 400, 423, 500} : \E login \in Logins : Ends(status, login)
    BY <1>2
  <1>4. TypeOK'
    <2>1. logins' \in [Requests -> Logins]
      BY <1>1, <1>3 DEF TypeOK
    <2>2. pc' \in [Requests -> Steps] /\ http' \in [Requests -> Statuses]
      BY <1>1, <1>3, RespondType
    <2>3. QED
      BY <1>1, <2>1, <2>2, SMTT(30) DEF TypeOK, session, limiter, submission, services
  <1>5. \A q \in Requests : RequestInv(q)'
    BY <1>1, <1>3 DEF LocalInv, TypeOK, RequestInv, Untouched, Ids, BeforeBody, Handling,
           Respond, session, limiter, submission, services
  <1>6. \A m \in net' : MessageInv(m)'
    <2>1. pc' = [pc EXCEPT ![r] = "done"]
      BY <1>3 DEF Respond
    <2>2. PICK step : pc' = [pc EXCEPT ![r] = step]
      BY <2>1
    <2>3. pc[r] = "login" /\ UNCHANGED <<query, verdict, ctx, submission>>
      BY <1>1 DEF session
    <2>4. QED
      BY <2>2, <2>3, MessagesFrame
  <1>7. InTheNameOfSender' /\ LoginTruthful'
    BY <1>1, <1>3 DEF LocalInv, TypeOK, InTheNameOfSender, LoginTruthful,
           Respond, session, limiter, submission, services
  <1>8. QED
    BY <1>4, <1>5, <1>6, <1>7 DEF LocalInv

LEMMA RestartStep == ASSUME LocalInv, Restart PROVE LocalInv'
  <1>1. TypeOK'
    BY BoundsAssumption DEF LocalInv, TypeOK, Restart, session, submission, services, elsewhere
  <1>2. \A q \in Requests : RequestInv(q)'
    BY DEF LocalInv, TypeOK, RequestInv, Untouched, Ids, BeforeBody, Handling,
           Restart, session, submission, services, elsewhere
  <1>3. \A m \in net' : MessageInv(m)'
    BY DEF LocalInv, TypeOK, Message, MessageInv, Ids, Restart, session, submission, services
  <1>4. InTheNameOfSender' /\ LoginTruthful'
    BY DEF LocalInv, InTheNameOfSender, LoginTruthful, Restart, session, submission, services,
           elsewhere
  <1>5. QED
    BY <1>1, <1>2, <1>3, <1>4 DEF LocalInv

LEMMA TickStep == ASSUME LocalInv, Tick PROVE LocalInv'
  BY BoundsAssumption, SMTT(30) DEF LocalInv, TypeOK, RequestInv, Untouched, MessageInv, Ids, BeforeBody,
     Handling, InTheNameOfSender, LoginTruthful, Tick, session, submission, services, elsewhere

LEMMA ResetStep == ASSUME LocalInv, NEW o \in Owners, Reset(o) PROVE LocalInv'
  <1>1. /\ UNCHANGED <<pc, query, verdict, ctx, slot, sent, ack, net, http, nextSlot, now,
                       starts, held, stream, calls, logins>>
        /\ period[o] < MaxPeriod
        /\ period' = [period EXCEPT ![o] = @ + 1] /\ usage' = [usage EXCEPT ![o] = 0]
    BY DEF Reset, session, limiter, elsewhere
  <1>2. TypeOK'
    <2>1. usage \in [Owners -> Nat] /\ period \in [Owners -> 0..MaxPeriod] /\ TypeOK
      BY SMTT(30) DEF LocalInv, TypeOK
    <2>2. \A x \in Owners : Limit[x] \in Nat
      BY LimitAssumption
    <2>3. period[o] + 1 \in 0..MaxPeriod
      BY <1>1, <2>1, BoundsAssumption
    <2>4. usage' \in [Owners -> Nat] /\ period' \in [Owners -> 0..MaxPeriod]
      BY <1>1, <2>1, <2>3
    <2>5. \A x \in Owners : usage'[x] <= Limit[x]
      BY <1>1, <2>1, <2>2 DEF TypeOK
    <2>6. QED
      BY <1>1, <2>1, <2>4, <2>5, SMTT(30) DEF TypeOK
  <1>3. QED
    BY <1>1, <1>2 DEF LocalInv, RequestInv, Untouched, MessageInv, Ids, InTheNameOfSender,
       LoginTruthful

LEMMA StutterStep == ASSUME LocalInv, UNCHANGED vars PROVE LocalInv'
  BY DEF LocalInv, TypeOK, RequestInv, Untouched, MessageInv, Ids, InTheNameOfSender,
     LoginTruthful, vars

LEMMA NextLocal == LocalInv /\ [Next]_vars => LocalInv'
  <1>1. SUFFICES ASSUME LocalInv, [Next]_vars PROVE LocalInv'
    OBVIOUS
  <1>2. ASSUME NEW r \in Requests, Arrive(r) \/ Proceed(r) PROVE LocalInv'
    BY <1>1, <1>2, ArriveStep, AuthorizeStep, TakeStep, WakeStep, WriteStep, AllocateStep,
       PublishStep, ReleaseStep, FailsStep, ServeSourceStep, ClientLoginStep DEF Proceed
  <1>3. QED
    BY <1>1, <1>2, ResetStep, RestartStep, TickStep, StutterStep DEF Next, Terminating

(***************************************************************************)
(* Type correctness, authentication and identity                           *)
(***************************************************************************)

LEMMA LocalHolds == Spec => []LocalInv
  BY InitLocal, NextLocal, PTL DEF Spec

(* Every variable keeps its type, whatever is asked, answered or lost and  *)
(* whenever the replica dies.                                              *)
THEOREM TypeCorrect == Spec => []TypeOK
<1>1. LocalInv => TypeOK
  BY DEF LocalInv
<1>2. QED
  BY <1>1, LocalHolds, PTL

(* No request gets anything done without the consent of the auth service.  *)
THEOREM OnlyAuthenticatedHolds == Spec => []OnlyAuthenticated
<1>1. LocalInv => OnlyAuthenticated
  BY DEF LocalInv, RequestInv, MessageInv, Untouched, OnlyAuthenticated
<1>2. QED
  BY <1>1, LocalHolds, PTL

(* Everything is done in the name of its sender, whatever a body says.     *)
THEOREM InTheNameOfSenderHolds == Spec => []InTheNameOfSender
<1>1. LocalInv => InTheNameOfSender
  BY DEF LocalInv
<1>2. QED
  BY <1>1, LocalHolds, PTL

(* A login is answered truthfully or with 500.                             *)
THEOREM LoginTruthfulHolds == Spec => []LoginTruthful
<1>1. LocalInv => LoginTruthful
  BY DEF LocalInv
<1>2. QED
  BY <1>1, LocalHolds, PTL

(* A call moves only its own request on, if it waits.                      *)
LEMMA CallMoves ==
  ASSUME TypeOK, NEW m \in net, Allocate(m) \/ Publish(m) \/ Release(m) \/ Fails(m)
  PROVE  /\ UNCHANGED <<query, ctx, limiter, sent, elsewhere>> /\ m.r \in Requests
         /\ \/ pc' = pc
            \/ /\ pc[m.r] \in Calls
               /\ \E step \in {"publish", "release", "done"} : pc' = [pc EXCEPT ![m.r] = step]
  <1>1. m \in Message /\ m.r \in Requests /\ m.call \in Calls
    BY DEF TypeOK, Message
  <1>2. UNCHANGED <<query, ctx, limiter, sent, elsewhere>>
    BY DEF Allocate, Publish, Release, Fails, session
  <1>3. Unheard(m) => pc' = pc
    BY DEF Unheard
  <1>4. Waits(m) => pc[m.r] \in Calls
    BY <1>1 DEF Waits
  <1>5. ASSUME NEW left, NEW unused, NEW n, Settle(m.r, left, unused, n)
        PROVE  \E step \in {"publish", "release", "done"} : pc' = [pc EXCEPT ![m.r] = step]
    BY <1>5 DEF Settle, Call, Answer, GoTo, Respond
  <1>6. ASSUME NEW left, NEW n, Answer(m.r, left, n)
        PROVE  \E step \in {"publish", "release", "done"} : pc' = [pc EXCEPT ![m.r] = step]
    BY <1>6 DEF Answer, Respond
  <1>7. ASSUME NEW left, NEW n, Call(m.r, left, "publish", n)
        PROVE  \E step \in {"publish", "release", "done"} : pc' = [pc EXCEPT ![m.r] = step]
    BY <1>7 DEF Call, GoTo
  <1>8. CASE Allocate(m)
    BY <1>1, <1>2, <1>3, <1>4, <1>5, <1>7, <1>8 DEF Allocate
  <1>9. CASE Publish(m)
    BY <1>1, <1>2, <1>3, <1>4, <1>5, <1>9 DEF Publish
  <1>10. CASE Release(m)
    BY <1>1, <1>2, <1>3, <1>4, <1>6, <1>10 DEF Release
  <1>11. CASE Fails(m)
    BY <1>1, <1>2, <1>4, <1>5, <1>6, <1>11 DEF Fails
  <1>12. QED
    BY <1>8, <1>9, <1>10, <1>11

(***************************************************************************)
(* The rate of internal events                                             *)
(***************************************************************************)

(* The permissions up to time t that an event was, or may yet be, submitted*)
(* with: those of requests that died while they slept are lost.            *)
Counts(r) == pc[r] # "crashed" \/ sent[r] # <<>>
Used(t) == {r \in Requests : slot[r] # 0 /\ slot[r] <= t /\ Counts(r)}

(* How far a request is with its permission.                               *)
SlotInv(r) ==
  /\ pc[r] \in {"idle", "authenticate", "take", "source", "login"} => slot[r] = 0
  /\ pc[r] = "sleep" => slot[r] # 0 /\ nextSlot # 0
  /\ pc[r] \in Calls \cup {"body", "done"} \/ sent[r] # <<>> => slot[r] <= now
  /\ (pc[r] = "body" \/ sent[r] # <<>>) /\ query[r].route = "internal" => slot[r] # 0
  /\ nextSlot # 0 /\ Counts(r) => slot[r] <= nextSlot

(* The starts that have given a permission.                                *)
Begun == IF nextSlot = 0 THEN starts - 1 ELSE starts

(* One permission per start and interval up to any time.                   *)
WithinRate(t) == (Cardinality(Used(t)) - Begun) * Interval <= t - 1

RateInv ==
  /\ \A r \in Requests : SlotInv(r)
  /\ \A t \in Nat \ {0} : WithinRate(t)

LEMMA UsedFinite == \A t : IsFiniteSet(Used(t)) /\ Cardinality(Used(t)) \in Nat
  BY RequestsAssumption, FS_Subset, FS_CardinalityType DEF Used

LEMMA InitRate == Init => RateInv
  <1>1. SUFFICES ASSUME Init PROVE RateInv
    OBVIOUS
  <1>2. \A t : Used(t) = {}
    BY <1>1 DEF Init, Used
  <1>3. (\A t : Cardinality(Used(t)) = 0) /\ Begun = 0
    <2>1. \A t : Cardinality(Used(t)) = 0
      BY <1>2, FS_EmptySet
    <2>2. Begun = 0
      BY <1>1 DEF Init, Begun
    <2>3. QED
      BY <2>1, <2>2
  <1>4. \A r \in Requests : SlotInv(r)
    BY <1>1 DEF Init, SlotInv
  <1>5. QED
    BY <1>3, <1>4, BoundsAssumption DEF RateInv, WithinRate

(* A step of r that leaves the limiter alone.                              *)
LEMMA RateFrame ==
  ASSUME RateInv, TypeOK, NEW r \in Requests, UNCHANGED <<query, limiter>>,
         \A q \in Requests \ {r} : pc'[q] = pc[q] /\ sent'[q] = sent[q],
         Counts(r)' <=> Counts(r), SlotInv(r)'
  PROVE  RateInv'
  <1>1. \A q \in Requests : SlotInv(q)'
    BY DEF RateInv, SlotInv, Counts, limiter
  <1>2. \A t : Used(t)' = Used(t)
    BY DEF Used, Counts, limiter
  <1>3. QED
    BY <1>1, <1>2 DEF RateInv, WithinRate, Begun, limiter

(* A step of r that only moves it on.                                      *)
LEMMA StepRate ==
  ASSUME RateInv, TypeOK, NEW r \in Requests, NEW step \in Steps \ {"sleep", "crashed"},
         pc[r] # "crashed", pc' = [pc EXCEPT ![r] = step], UNCHANGED <<query, limiter, sent>>,
         step \in {"idle", "authenticate", "take", "source", "login"} => slot[r] = 0,
         slot[r] <= now,
         step = "body" /\ query[r].route = "internal" => slot[r] # 0
  PROVE  RateInv'
  <1>1. SlotInv(r) /\ pc'[r] = step /\ \A q \in Requests \ {r} : pc'[q] = pc[q]
    BY DEF RateInv, TypeOK
  <1>2. SlotInv(r)'
    BY <1>1 DEF SlotInv, Counts, limiter
  <1>3. Counts(r)' <=> Counts(r)
    BY <1>1 DEF Counts
  <1>4. QED
    BY <1>1, <1>2, <1>3, RateFrame

LEMMA TakeRate ==
  ASSUME LocalInv, RateInv, NEW r \in Requests, Take(r) PROVE RateInv'
  <1>. DEFINE p == Permission
  <1>1. /\ pc[r] = "take" /\ pc' = [pc EXCEPT ![r] = "sleep"]
        /\ slot' = [slot EXCEPT ![r] = p] /\ nextSlot' = p
        /\ UNCHANGED <<query, now, starts, sent>> /\ TypeOK /\ slot[r] = 0
    BY DEF Take, GoTo, session, submission, LocalInv, RateInv, SlotInv
  <1>2. /\ p \in Nat /\ p >= 1
        /\ nextSlot # 0 => p >= nextSlot + Interval
        /\ nextSlot = 0 => p = now
    BY <1>1, PermissionLater
  <1>3. sent[r] = <<>>
    BY <1>1 DEF LocalInv, RequestInv, BeforeBody
  <1>. HIDE DEF p
  <1>4. PICK last \in Nat \ {0} : last = IF nextSlot = 0 THEN now ELSE nextSlot
    BY <1>1 DEF TypeOK
  <1>5. \A q \in Requests : Counts(q) => slot[q] <= last
    <2>1. ASSUME NEW q \in Requests, Counts(q) PROVE slot[q] <= last
      <3>1. SlotInv(q) /\ pc[q] \in Steps /\ now \in Nat
        BY <1>1 DEF RateInv, TypeOK
      <3>2. CASE nextSlot # 0
        BY <2>1, <3>1, <3>2, <1>4 DEF SlotInv
      <3>3. CASE nextSlot = 0
        BY <2>1, <3>1, <3>3, <1>4 DEF SlotInv, Counts
      <3>4. QED
        BY <3>2, <3>3
    <2>2. QED
      BY <2>1
  <1>6. \A q \in Requests : SlotInv(q)'
    <2>. SUFFICES ASSUME NEW q \in Requests PROVE SlotInv(q)'
      OBVIOUS
    <2>1. CASE q = r
      BY <1>1, <1>2, <1>3, <2>1 DEF SlotInv, TypeOK, Counts
    <2>2. CASE q # r
      <3>1. /\ pc'[q] = pc[q] /\ slot'[q] = slot[q] /\ SlotInv(q) /\ slot[q] \in Nat
            /\ Counts(q)' <=> Counts(q)
        BY <1>1, <2>2 DEF TypeOK, RateInv, Counts
      <3>2. Counts(q) => slot[q] <= p
        BY <1>1, <1>2, <1>4, <1>5, <3>1, BoundsAssumption
      <3>3. QED
        BY <1>1, <1>2, <3>1, <3>2 DEF SlotInv
    <2>3. QED
      BY <2>1, <2>2
  <1>7. ASSUME NEW t \in Nat \ {0} PROVE WithinRate(t)'
    <2>1. /\ WithinRate(t) /\ WithinRate(last)
          /\ Cardinality(Used(t)) \in Nat /\ Cardinality(Used(last)) \in Nat
          /\ Begun \in Int /\ Begun' = starts /\ starts \in Nat
      BY <1>1, <1>2, UsedFinite DEF RateInv, Begun, TypeOK
    <2>2. CASE t < p
      <3>1. Used(t)' = Used(t)
        BY <1>1, <1>2, <1>3, <2>2 DEF Used, Counts, TypeOK
      <3>2. Begun <= starts
        BY <2>1 DEF Begun
      <3>3. (Cardinality(Used(t)) - starts) * Interval <= (Cardinality(Used(t)) - Begun) * Interval
        BY <2>1, <3>2, BoundsAssumption
      <3>4. QED
        BY <2>1, <3>1, <3>3, BoundsAssumption DEF WithinRate
    <2>3. CASE t >= p
      <3>1. last <= t
        BY <1>2, <1>4, <2>3, BoundsAssumption DEF TypeOK
      <3>2. Used(t)' = Used(last) \cup {r} /\ r \notin Used(last)
        BY <1>1, <1>2, <1>3, <1>4, <1>5, <2>3, <3>1 DEF Used, Counts, TypeOK
      <3>3. Cardinality(Used(t)') = Cardinality(Used(last)) + 1
        BY <3>2, UsedFinite, FS_AddElement
      <3>4. CASE nextSlot = 0
        BY <1>2, <1>4, <2>1, <2>3, <3>3, <3>4, BoundsAssumption DEF WithinRate, Begun
      <3>5. CASE nextSlot # 0
        <4>1. (Cardinality(Used(last)) - starts) * Interval <= nextSlot - 1
          BY <1>4, <2>1, <3>5 DEF WithinRate, Begun
        <4>2. (Cardinality(Used(last)) + 1 - starts) * Interval
                = (Cardinality(Used(last)) - starts) * Interval + Interval
          BY <2>1, BoundsAssumption
        <4>3. (Cardinality(Used(last)) + 1 - starts) * Interval <= t - 1
          <5>1. PICK m \in Int : m = (Cardinality(Used(last)) - starts) * Interval
            BY <2>1, BoundsAssumption
          <5>2. QED
            BY <1>2, <1>4, <2>3, <3>5, <4>1, <4>2, <5>1, BoundsAssumption
        <4>4. QED
          BY <2>1, <3>3, <4>3 DEF WithinRate
      <3>6. QED
        BY <3>4, <3>5
    <2>4. QED
      BY <1>2, <2>2, <2>3
  <1>8. QED
    BY <1>6, <1>7 DEF RateInv

LEMMA RestartRate == ASSUME LocalInv, RateInv, Restart PROVE RateInv'
  <1>1. /\ starts' = starts + 1 /\ nextSlot' = 0 /\ UNCHANGED <<query, slot, now, sent>>
        /\ pc' = [q \in Requests |-> IF pc[q] \in Over THEN pc[q] ELSE "crashed"] /\ TypeOK
    BY DEF Restart, session, submission, LocalInv
  <1>2. \A q \in Requests : SlotInv(q)'
    BY <1>1 DEF TypeOK, RateInv, SlotInv, Counts
  <1>3. ASSUME NEW t \in Nat \ {0} PROVE WithinRate(t)'
    <2>1. Used(t)' \subseteq Used(t)
      BY <1>1 DEF Used, Counts
    <2>2. /\ Cardinality(Used(t)') <= Cardinality(Used(t))
          /\ Cardinality(Used(t)') \in Nat /\ Cardinality(Used(t)) \in Nat
      BY <2>1, UsedFinite, FS_Subset, FS_CardinalityType
    <2>3. Begun' = starts /\ starts \in Nat /\ Begun \in Int /\ Begun <= starts
      BY <1>1 DEF Begun, TypeOK
    <2>4. (Cardinality(Used(t)') - Begun') * Interval <= (Cardinality(Used(t)) - Begun) * Interval
      <3>1. Cardinality(Used(t)') - Begun' <= Cardinality(Used(t)) - Begun
        BY <2>2, <2>3
      <3>2. QED
        BY <2>2, <2>3, <3>1, BoundsAssumption
    <2>5. WithinRate(t)
      BY DEF RateInv
    <2>6. QED
      BY <2>2, <2>3, <2>4, <2>5, BoundsAssumption DEF WithinRate
  <1>4. QED
    BY <1>2, <1>3 DEF RateInv

LEMMA TickRate == ASSUME LocalInv, RateInv, Tick PROVE RateInv'
  <1>1. /\ now' = now + 1 /\ UNCHANGED <<pc, query, slot, nextSlot, starts, sent>> /\ TypeOK
    BY DEF Tick, session, submission, LocalInv
  <1>2. \A q \in Requests : SlotInv(q)'
    BY <1>1 DEF TypeOK, RateInv, SlotInv, Counts
  <1>3. \A t : Used(t)' = Used(t)
    BY <1>1 DEF Used, Counts
  <1>4. QED
    BY <1>1, <1>2, <1>3 DEF RateInv, WithinRate, Begun

LEMMA NextRate == LocalInv /\ RateInv /\ [Next]_vars => RateInv'
  <1>1. SUFFICES ASSUME LocalInv, RateInv, [Next]_vars PROVE RateInv'
    OBVIOUS
  <1>2. TypeOK /\ \A q \in Requests : SlotInv(q) /\ RequestInv(q)
    BY <1>1 DEF LocalInv, RateInv
  <1>3. ASSUME NEW r \in Requests, Arrive(r) PROVE RateInv'
    <2>1. /\ pc[r] = "idle" /\ UNCHANGED <<query, limiter, sent>>
          /\ \E step \in {"authenticate", "done"} : pc' = [pc EXCEPT ![r] = step]
      BY <1>3 DEF Arrive, GoTo, Respond, session, submission
    <2>2. slot[r] = 0 /\ slot[r] <= now
      BY <1>2, <2>1 DEF SlotInv, TypeOK
    <2>3. QED
      BY <1>1, <1>2, <2>1, <2>2, StepRate
  <1>4. ASSUME NEW r \in Requests, Authorize(r) PROVE RateInv'
    <2>1. query[r] \in QueryType
      BY <1>2, QueryTyped
    <2>2. PICK step \in {"take", "body", "source", "login", "done"} :
            /\ pc' = [pc EXCEPT ![r] = step]
            /\ step = "body" => query[r].route # "internal"
      BY <1>4, <2>1 DEF Authorize, HandlerOf, QueryType, Routes, GoTo, Respond
    <2>3. pc[r] = "authenticate" /\ UNCHANGED <<query, limiter, sent>>
      BY <1>4 DEF Authorize, submission
    <2>4. slot[r] = 0 /\ slot[r] <= now
      BY <1>2, <2>3 DEF SlotInv, TypeOK
    <2>5. QED
      BY <1>1, <1>2, <2>2, <2>3, <2>4, StepRate
  <1>5. ASSUME NEW r \in Requests, Wake(r) PROVE RateInv'
    <2>1. /\ pc[r] = "sleep" /\ slot[r] <= now /\ UNCHANGED <<query, limiter, sent>>
          /\ pc' = [pc EXCEPT ![r] = "body"]
      BY <1>2, <1>5 DEF Wake, GoTo, session, submission, limiter, TypeOK
    <2>2. slot[r] # 0
      BY <1>2, <2>1 DEF SlotInv
    <2>3. QED
      BY <1>1, <1>2, <2>1, <2>2, StepRate
  <1>6. ASSUME NEW r \in Requests, Write(r) PROVE RateInv'
    <2>1. pc[r] = "body" /\ UNCHANGED <<query, limiter>> /\ slot[r] <= now
      BY <1>2, <1>6 DEF Write, session, SlotInv
    <2>2. CASE \E status : Respond(r, status) /\ UNCHANGED sent
      <3>1. pc' = [pc EXCEPT ![r] = "done"] /\ UNCHANGED sent
        BY <2>2 DEF Respond
      <3>2. QED
        BY <1>1, <1>2, <2>1, <3>1, StepRate
    <2>3. CASE /\ \E call \in {"allocate", "publish"} : GoTo(r, call)
               /\ \E s : sent' = [sent EXCEPT ![r] = s]
      <3>1. /\ pc'[r] \in {"allocate", "publish"}
            /\ \A q \in Requests \ {r} : pc'[q] = pc[q] /\ sent'[q] = sent[q]
        BY <1>2, <2>3 DEF GoTo, TypeOK
      <3>2. SlotInv(r)'
        BY <1>2, <2>1, <3>1 DEF SlotInv, Counts, limiter
      <3>3. Counts(r)' <=> Counts(r)
        BY <2>1, <3>1 DEF Counts
      <3>4. QED
        BY <1>1, <1>2, <2>1, <3>1, <3>2, <3>3, RateFrame
    <2>4. QED
      BY <1>6, <2>2, <2>3 DEF Write, Call
  <1>7. ASSUME NEW m \in net, Allocate(m) \/ Publish(m) \/ Release(m) \/ Fails(m)
        PROVE  RateInv'
    <2>1. UNCHANGED <<query, limiter, sent>> /\ m.r \in Requests
      BY <1>2, <1>7, CallMoves
    <2>2. CASE pc' = pc
      <3>1. \A r \in Requests : SlotInv(r)' /\ (Counts(r)' <=> Counts(r))
        BY <1>2, <2>1, <2>2 DEF SlotInv, Counts, limiter
      <3>2. QED
        BY <1>1, <1>2, <2>1, <2>2, <3>1, RateFrame
    <2>3. CASE /\ pc[m.r] \in Calls
               /\ \E step \in {"publish", "release", "done"} : pc' = [pc EXCEPT ![m.r] = step]
      <3>1. slot[m.r] <= now
        BY <1>2, <2>1, <2>3 DEF SlotInv
      <3>2. QED
        BY <1>1, <1>2, <2>1, <2>3, <3>1, StepRate
    <2>4. QED
      BY <1>2, <1>7, <2>2, <2>3, CallMoves
  <1>8. ASSUME NEW r \in Requests, ServeSource(r) \/ ClientLogin(r) PROVE RateInv'
    <2>1. /\ pc[r] \in {"source", "login"} /\ UNCHANGED <<query, limiter, sent>>
          /\ pc' = [pc EXCEPT ![r] = "done"]
      BY <1>8 DEF ServeSource, ClientLogin, Respond, session, submission
    <2>2. slot[r] <= now
      BY <1>2, <2>1 DEF SlotInv, TypeOK
    <2>3. QED
      BY <1>1, <1>2, <2>1, <2>2, StepRate
  <1>9. CASE UNCHANGED vars
    <2>1. \A q \in Requests : SlotInv(q)'
      BY <1>2, <1>9 DEF SlotInv, Counts, vars
    <2>2. \A t : Used(t)' = Used(t)
      BY <1>9 DEF Used, Counts, vars
    <2>3. QED
      BY <1>1, <1>9, <2>1, <2>2 DEF RateInv, WithinRate, Begun, vars
  <1>10. ASSUME NEW o \in Owners, Reset(o) PROVE RateInv'
    <2>1. UNCHANGED <<pc, query, slot, nextSlot, now, starts, sent>>
      BY <1>10 DEF Reset, session, limiter
    <2>2. \A q \in Requests : SlotInv(q)'
      BY <1>2, <2>1 DEF SlotInv, Counts
    <2>3. \A t : Used(t)' = Used(t)
      BY <2>1 DEF Used, Counts
    <2>4. QED
      BY <1>1, <2>1, <2>2, <2>3 DEF RateInv, WithinRate, Begun
  <1>11. QED
    BY <1>1, <1>3, <1>4, <1>5, <1>6, <1>7, <1>8, <1>9, <1>10, TakeRate, RestartRate, TickRate
    DEF Next, Proceed, Terminating

(* The rate of internal events holds for every rate, slack of the limiter, *)
(* number of requests and of restarts.                                     *)
THEOREM InternalWithinRateHolds == Spec => []InternalWithinRate
<1>1. ASSUME LocalInv, RateInv PROVE InternalWithinRate
  <2>. DEFINE Submitted == {r \in Requests : query[r].route = "internal" /\ sent[r] # <<>>}
  <2>1. Submitted \subseteq Used(now)
    BY <1>1 DEF RateInv, SlotInv, Used, Counts
  <2>2. /\ Cardinality(Submitted) <= Cardinality(Used(now))
        /\ Cardinality(Submitted) \in Nat /\ Cardinality(Used(now)) \in Nat
    BY <2>1, UsedFinite, FS_Subset, FS_CardinalityType
  <2>3. now \in Nat \ {0} /\ starts \in Nat /\ Begun \in Int /\ Begun <= starts
    BY <1>1 DEF LocalInv, TypeOK, Begun
  <2>4. Cardinality(Submitted) - starts <= Cardinality(Used(now)) - Begun
    BY <2>2, <2>3
  <2>5. (Cardinality(Submitted) - starts) * Interval <= (Cardinality(Used(now)) - Begun) * Interval
    BY <2>2, <2>3, <2>4, BoundsAssumption
  <2>6. WithinRate(now)
    BY <1>1, <2>3 DEF RateInv
  <2>7. QED
    BY <2>2, <2>3, <2>5, <2>6, BoundsAssumption DEF WithinRate, InternalWithinRate
<1>2. QED
  BY <1>1, InitRate, NextRate, LocalHolds, PTL DEF Spec

(***************************************************************************)
(* The order of the permissions                                            *)
(***************************************************************************)

(* The events that wait longer than r.                                     *)
Behind(r) == {q \in Asleep : slot[r] < slot[q]}

(* The permissions of the waiting events are one interval apart up to the  *)
(* last one given, and this one is at most as far away as events wait.     *)
TurnInv ==
  /\ \A r \in Asleep : slot[r] + Interval * Cardinality(Behind(r)) = nextSlot
  /\ nextSlot <= now + Interval * Cardinality(Asleep)

LEMMA AsleepFinite ==
  /\ IsFiniteSet(Asleep) /\ Cardinality(Asleep) \in Nat
  /\ \A r : IsFiniteSet(Behind(r)) /\ Cardinality(Behind(r)) \in Nat
  BY RequestsAssumption, FS_Subset, FS_CardinalityType DEF Asleep, Behind

LEMMA OneMore == ASSUME NEW n \in Nat
                 PROVE Interval * n \in Nat /\ Interval * (n + 1) = Interval * n + Interval
  BY BoundsAssumption

LEMMA InitTurn == Init => TurnInv
  <1>1. SUFFICES ASSUME Init PROVE TurnInv
    OBVIOUS
  <1>2. Asleep = {} /\ nextSlot = 0 /\ now = 1
    BY <1>1 DEF Init, Asleep
  <1>3. QED
    BY <1>2, FS_EmptySet, BoundsAssumption DEF TurnInv

(* A step that changes nothing for the waiting events.                     *)
LEMMA TurnFrame ==
  ASSUME TurnInv, Asleep' = Asleep, UNCHANGED <<slot, nextSlot, now>> PROVE TurnInv'
  <1>1. \A r : Behind(r)' = Behind(r)
    BY DEF Behind
  <1>2. QED
    BY <1>1 DEF TurnInv

(* A step of a request that does not wait, or whose permission is due.     *)
LEMMA StepTurn ==
  ASSUME TypeOK, TurnInv, NEW r \in Requests, UNCHANGED <<slot, nextSlot, now>>,
         pc[r] # "sleep" \/ slot[r] <= now, pc'[r] # "sleep" \/ slot[r] <= now,
         \A q \in Requests \ {r} : pc'[q] = pc[q]
  PROVE  TurnInv'
  <1>1. now \in Nat /\ \A q \in Requests : slot[q] \in Nat
    BY DEF TypeOK
  <1>2. Asleep' = Asleep
    BY <1>1 DEF Asleep
  <1>3. QED
    BY <1>2, TurnFrame

LEMMA TakeTurn ==
  ASSUME TypeOK, TurnInv, NEW r \in Requests, Take(r) PROVE TurnInv'
  <1>. DEFINE p == Permission
              Gap(q) == Interval * Cardinality(Behind(q))
              All == Interval * Cardinality(Asleep)
  <1>1. /\ pc[r] = "take" /\ pc' = [pc EXCEPT ![r] = "sleep"]
        /\ slot' = [slot EXCEPT ![r] = p] /\ nextSlot' = p /\ now' = now
    BY DEF Take, GoTo
  <1>2. /\ p \in Nat
        /\ nextSlot # 0 => p >= nextSlot + Interval
        /\ p > now => p = nextSlot + Interval
    <2>1. Slack * Interval \in Nat
      BY BoundsAssumption
    <2>2. QED
      BY <2>1, PermissionLater, BoundsAssumption, SMTT(30) DEF TypeOK, Permission
  <1>3. /\ now \in Nat /\ nextSlot \in Nat /\ Interval \in Nat \ {0}
        /\ \A q \in Requests : slot[q] \in Nat
    BY BoundsAssumption DEF TypeOK
  <1>4. All \in Nat /\ \A q : Gap(q) \in Nat
    BY AsleepFinite, OneMore
  <1>5. /\ \A q \in Asleep : slot[q] + Gap(q) = nextSlot
        /\ nextSlot <= now + All
    BY DEF TurnInv
  <1>6. r \notin Asleep
    BY <1>1 DEF Asleep
  <1>. HIDE DEF p, Gap, All
  <1>7. \A q \in Asleep : now < slot[q] /\ slot[q] <= nextSlot
    BY <1>3, <1>4, <1>5 DEF Asleep
  <1>8. /\ slot'[r] = p /\ pc'[r] = "sleep"
        /\ \A q \in Requests \ {r} : slot'[q] = slot[q] /\ pc'[q] = pc[q]
    BY <1>1 DEF TypeOK
  <1>9. CASE p <= now
    <2>1. Asleep = {}
      <3>1. SUFFICES ASSUME NEW q \in Asleep PROVE FALSE
        OBVIOUS
      <3>2. q \in Requests /\ now < slot[q] /\ slot[q] <= nextSlot
        BY <1>7 DEF Asleep
      <3>3. QED
        BY <1>2, <1>3, <1>9, <3>2
    <2>2. Asleep' = {}
      BY <1>1, <1>2, <1>3, <1>8, <1>9, <2>1 DEF Asleep
    <2>3. QED
      BY <1>1, <1>3, <1>9, <2>2, FS_EmptySet DEF TurnInv
  <1>10. CASE p > now
    <2>1. Asleep' = Asleep \cup {r}
      BY <1>1, <1>8, <1>10 DEF Asleep
    <2>2. p = nextSlot + Interval /\ \A q \in Asleep : slot[q] < p
      BY <1>2, <1>3, <1>7, <1>10 DEF Asleep
    <2>3. nextSlot' <= now' + Interval * Cardinality(Asleep')
      <3>1. Cardinality(Asleep') = Cardinality(Asleep) + 1
        BY <2>1, <1>6, AsleepFinite, FS_AddElement
      <3>2. Interval * Cardinality(Asleep') = All + Interval
        BY <3>1, AsleepFinite, OneMore DEF All
      <3>3. QED
        BY <1>1, <1>3, <1>4, <1>5, <2>2, <3>2
    <2>4. ASSUME NEW q \in Asleep PROVE slot'[q] + Interval * Cardinality(Behind(q)') = nextSlot'
      <3>1. q \in Requests /\ q # r
        BY <1>6 DEF Asleep
      <3>2. Behind(q)' = Behind(q) \cup {r} /\ r \notin Behind(q)
        BY <1>6, <1>8, <2>1, <2>2, <3>1 DEF Behind, Asleep
      <3>3. Cardinality(Behind(q)') = Cardinality(Behind(q)) + 1
        BY <3>2, AsleepFinite, FS_AddElement
      <3>4. Interval * Cardinality(Behind(q)') = Gap(q) + Interval
        BY <3>3, AsleepFinite, OneMore DEF Gap
      <3>5. QED
        BY <1>1, <1>3, <1>4, <1>5, <1>8, <2>2, <3>1, <3>4
    <2>5. slot'[r] + Interval * Cardinality(Behind(r)') = nextSlot'
      <3>1. Behind(r)' = {}
        BY <1>2, <1>3, <1>6, <1>8, <2>1, <2>2 DEF Behind, Asleep
      <3>2. QED
        BY <1>1, <1>2, <1>3, <1>8, <3>1, FS_EmptySet
    <2>6. QED
      BY <2>1, <2>3, <2>4, <2>5 DEF TurnInv
  <1>11. QED
    BY <1>2, <1>3, <1>9, <1>10

LEMMA TickTurn == ASSUME TypeOK, TurnInv, Tick PROVE TurnInv'
  <1>1. now' = now + 1 /\ UNCHANGED <<pc, slot, nextSlot>>
    BY DEF Tick
  <1>2. /\ now \in Nat /\ nextSlot \in Nat
        /\ \A q \in Requests : slot[q] \in Nat
    BY DEF TypeOK
  <1>3. Asleep' = {q \in Asleep : now + 1 < slot[q]}
    BY <1>1, <1>2 DEF Asleep
  <1>4. \A q \in Asleep' : Behind(q)' = Behind(q)
    BY <1>1, <1>2, <1>3 DEF Behind, Asleep
  <1>5. \A q \in Asleep' : slot'[q] + Interval * Cardinality(Behind(q)') = nextSlot'
    BY <1>1, <1>3, <1>4 DEF TurnInv
  <1>6. CASE \E q \in Asleep : slot[q] = now + 1
    <2>1. PICK q \in Asleep : slot[q] = now + 1
      BY <1>6
    <2>2. Asleep' = Behind(q)
      BY <1>3, <2>1 DEF Behind
    <2>3. QED
      BY <1>1, <1>2, <1>5, <2>1, <2>2 DEF TurnInv
  <1>7. CASE \A q \in Asleep : slot[q] # now + 1
    <2>1. Asleep' = Asleep
      BY <1>2, <1>3, <1>7 DEF Asleep
    <2>2. Interval * Cardinality(Asleep) \in Nat
      BY AsleepFinite, OneMore
    <2>3. QED
      BY <1>1, <1>2, <1>5, <2>1, <2>2 DEF TurnInv
  <1>8. QED
    BY <1>6, <1>7

LEMMA RestartTurn == ASSUME TypeOK, TurnInv, Restart PROVE TurnInv'
  <1>1. Asleep' = {} /\ nextSlot' = 0 /\ now' = now /\ now \in Nat
    BY DEF Restart, Asleep, TypeOK
  <1>2. QED
    BY <1>1, FS_EmptySet, BoundsAssumption DEF TurnInv

LEMMA NextTurn == TypeOK /\ TurnInv /\ [Next]_vars => TurnInv'
  <1>1. SUFFICES ASSUME TypeOK, TurnInv, [Next]_vars PROVE TurnInv'
    OBVIOUS
  <1>2. ASSUME NEW r \in Requests, NEW step, pc' = [pc EXCEPT ![r] = step],
               UNCHANGED <<slot, nextSlot, now>>,
               pc[r] # "sleep" \/ slot[r] <= now, step # "sleep" \/ slot[r] <= now
        PROVE  TurnInv'
    <2>1. pc'[r] = step /\ \A q \in Requests \ {r} : pc'[q] = pc[q]
      BY <1>1, <1>2 DEF TypeOK
    <2>2. QED
      BY <1>1, <1>2, <2>1, StepTurn
  <1>3. ASSUME NEW r \in Requests, Arrive(r) PROVE TurnInv'
    BY <1>2, <1>3 DEF Arrive, GoTo, Respond, limiter
  <1>4. ASSUME NEW r \in Requests, Authorize(r) PROVE TurnInv'
    <2>1. PICK step : step # "sleep" /\ pc' = [pc EXCEPT ![r] = step]
      <3>1. query[r] \in QueryType
        BY <1>1, QueryTyped
      <3>2. HandlerOf(query[r].route) # "sleep"
        BY <3>1 DEF HandlerOf, QueryType, Routes
      <3>3. QED
        BY <1>4, <3>2 DEF Authorize, GoTo, Respond
    <2>2. QED
      BY <1>2, <1>4, <2>1 DEF Authorize, limiter
  <1>5. ASSUME NEW r \in Requests, Wake(r) PROVE TurnInv'
    BY <1>1, <1>2, <1>5 DEF Wake, GoTo, limiter, TypeOK
  <1>6. ASSUME NEW r \in Requests, Write(r) PROVE TurnInv'
    BY <1>2, <1>6 DEF Write, Call, GoTo, Respond, limiter
  <1>7. ASSUME NEW m \in net, Allocate(m) \/ Publish(m) \/ Release(m) \/ Fails(m)
        PROVE  TurnInv'
    <2>1. UNCHANGED <<slot, nextSlot, now>> /\ m.r \in Requests
      BY <1>1, <1>7, CallMoves DEF limiter
    <2>2. CASE pc' = pc
      <3>1. Asleep' = Asleep
        BY <2>1, <2>2 DEF Asleep
      <3>2. QED
        BY <1>1, <2>1, <3>1, TurnFrame
    <2>3. CASE /\ pc[m.r] \in Calls
               /\ \E step \in {"publish", "release", "done"} : pc' = [pc EXCEPT ![m.r] = step]
      BY <1>2, <2>1, <2>3
    <2>4. QED
      BY <1>1, <1>7, <2>2, <2>3, CallMoves
  <1>8. ASSUME NEW r \in Requests, ServeSource(r) \/ ClientLogin(r) PROVE TurnInv'
    BY <1>2, <1>8 DEF ServeSource, ClientLogin, Respond, limiter
  <1>9. CASE UNCHANGED vars
    BY <1>1, <1>9, TurnFrame DEF Asleep, vars
  <1>10. ASSUME NEW o \in Owners, Reset(o) PROVE TurnInv'
    BY <1>1, <1>10, TurnFrame DEF Asleep, Reset, limiter
  <1>11. QED
    BY <1>1, <1>3, <1>4, <1>5, <1>6, <1>7, <1>8, <1>9, <1>10, TakeTurn, TickTurn, RestartTurn
    DEF Next, Proceed, Terminating

(* An internal event waits one interval for every event that waits before  *)
(* it and for itself, at every rate and with any number of others.         *)
THEOREM PermissionInTurnHolds == Spec => []PermissionInTurn
<1>1. ASSUME LocalInv, TurnInv PROVE PermissionInTurn
  <2>. SUFFICES ASSUME NEW r \in Asleep
                PROVE  slot[r] <= now + Interval * Cardinality({q \in Asleep : slot[q] <= slot[r]})
    BY DEF PermissionInTurn
  <2>. DEFINE Before == {q \in Asleep : slot[q] <= slot[r]}
  <2>1. /\ now \in Nat /\ nextSlot \in Nat /\ r \in Requests
        /\ \A q \in Requests : slot[q] \in Nat
    BY <1>1 DEF LocalInv, TypeOK, Asleep
  <2>2. Before = Asleep \ Behind(r) /\ Behind(r) \subseteq Asleep
    BY <2>1 DEF Behind, Asleep
  <2>3. /\ Cardinality(Before) = Cardinality(Asleep) - Cardinality(Behind(r))
        /\ Cardinality(Before) \in Nat
    <3>1. Asleep \cap Behind(r) = Behind(r)
      BY <2>2
    <3>2. QED
      BY <2>2, <3>1, AsleepFinite, FS_Difference, FS_CardinalityType
  <2>. HIDE DEF Before
  <2>4. Interval * Cardinality(Asleep)
          = Interval * Cardinality(Before) + Interval * Cardinality(Behind(r))
    BY <2>3, AsleepFinite, BoundsAssumption
  <2>5. /\ Interval * Cardinality(Behind(r)) \in Nat
        /\ Interval * Cardinality(Before) \in Nat
    BY <2>3, AsleepFinite, OneMore
  <2>6. /\ slot[r] + Interval * Cardinality(Behind(r)) = nextSlot
        /\ nextSlot <= now + Interval * Cardinality(Asleep)
    BY <1>1 DEF TurnInv
  <2>7. slot[r] <= now + Interval * Cardinality(Before)
    BY <2>1, <2>4, <2>5, <2>6
  <2>8. QED
    BY <2>7 DEF Before
<1>2. LocalInv => TypeOK
  BY DEF LocalInv
<1>3. QED
  BY <1>1, <1>2, InitTurn, NextTurn, LocalHolds, PTL DEF Spec

(***************************************************************************)
(* What is counted against a sender                                        *)
(***************************************************************************)
LEMMA UnitsFinite ==
  ASSUME NEW S \in SUBSET (Requests \X (1..MaxBatch))
  PROVE  IsFiniteSet(S) /\ Cardinality(S) \in Nat
  <1>1. IsFiniteSet(Requests \X (1..MaxBatch))
    <2>1. IsFiniteSet(1..MaxBatch)
      BY FS_Interval, BoundsAssumption
    <2>2. QED
      BY <2>1, RequestsAssumption, FS_Product
  <1>2. QED
    BY <1>1, FS_Subset, FS_CardinalityType

(* The units of one request.                                               *)
LEMMA ColumnCardinality ==
  ASSUME NEW r, NEW n \in Nat
  PROVE  IsFiniteSet({r} \X (1..n)) /\ Cardinality({r} \X (1..n)) = n
  <1>1. IsFiniteSet(1..n) /\ Cardinality(1..n) = n
    <2>1. /\ IsFiniteSet(1..n)
          /\ Cardinality(1..n) = IF 1 > n THEN 0 ELSE n - 1 + 1
      BY FS_Interval
    <2>2. QED
      BY <2>1
  <1>2. IsFiniteSet({r}) /\ Cardinality({r}) = 1
    BY FS_Singleton
  <1>3. /\ IsFiniteSet({r} \X (1..n))
        /\ Cardinality({r} \X (1..n)) = Cardinality({r}) * Cardinality(1..n)
    BY <1>1, <1>2, FS_Product
  <1>4. QED
    BY <1>1, <1>2, <1>3

(* The units of the other requests of a sender.                            *)
Others(o, r, count) == {u \in Units(o, count) : u[1] # r}

(* The units of a sender are those of one of his requests and the others'. *)
LEMMA UnitsSplit ==
  ASSUME NEW r \in Requests, query[r].route = "write", NEW count \in [Requests -> 0..MaxBatch]
  PROVE  /\ Cardinality(Units(SenderOf(r), count))
              = Cardinality(Others(SenderOf(r), r, count)) + count[r]
         /\ Cardinality(Others(SenderOf(r), r, count)) \in Nat
  <1>. DEFINE o == SenderOf(r)
              Column == {r} \X (1..count[r])
  <1>1. Units(o, count) = Others(o, r, count) \cup Column
    BY BoundsAssumption DEF Units, Others
  <1>2. Others(o, r, count) \cap Column = {}
    BY DEF Others
  <1>3. IsFiniteSet(Column) /\ Cardinality(Column) = count[r]
    <2>1. count[r] \in Nat
      BY BoundsAssumption
    <2>2. QED
      BY <2>1, ColumnCardinality
  <1>4. IsFiniteSet(Others(o, r, count)) /\ Cardinality(Others(o, r, count)) \in Nat
    <2>1. Others(o, r, count) \in SUBSET (Requests \X (1..MaxBatch))
      BY DEF Others, Units
    <2>2. QED
      BY <2>1, UnitsFinite
  <1>. HIDE DEF o, Column
  <1>5. Cardinality(Others(o, r, count) \cup Column)
          = Cardinality(Others(o, r, count)) + Cardinality(Column)
    <2>1. Cardinality(Others(o, r, count) \cap Column) = 0
      BY <1>2, FS_EmptySet
    <2>2. Cardinality(Others(o, r, count) \cup Column)
            = Cardinality(Others(o, r, count)) + Cardinality(Column)
                - Cardinality(Others(o, r, count) \cap Column)
      BY <1>3, <1>4, FS_Union
    <2>3. Cardinality(Column) \in Nat
      BY <1>3, FS_CardinalityType
    <2>4. QED
      BY <1>4, <2>1, <2>2, <2>3
  <1>6. QED
    BY <1>1, <1>3, <1>4, <1>5 DEF o

(* All permits that somebody was ever granted and did not give back are    *)
(* counted, or were counted in a period before.                            *)
OwnerCounted(o) == Cardinality(Units(o, held)) <= usage[o] + Limit[o] * period[o]

AccountInv == \A o \in Owners : OwnerCounted(o)

LEMMA InitAccount == Init => AccountInv
  <1>1. SUFFICES ASSUME Init, NEW o \in Owners PROVE OwnerCounted(o)
    BY DEF AccountInv
  <1>2. Units(o, held) = {} /\ usage[o] = 0 /\ period[o] = 0
    BY <1>1, BoundsAssumption DEF Init, Units
  <1>3. QED
    BY <1>2, FS_EmptySet, LimitAssumption DEF OwnerCounted

(* A step that leaves the permits and the counters alone.                  *)
LEMMA AccountFrame ==
  ASSUME AccountInv, UNCHANGED <<query, held, usage, period>> PROVE AccountInv'
  BY DEF AccountInv, OwnerCounted, Units, SenderOf

(* The permits of r change by as much as the counter of its sender, or less*)
(* if the counter does not go below 0.                                     *)
LEMMA AccountStep ==
  ASSUME TypeOK, AccountInv, NEW r \in Requests, query[r].route = "write",
         NEW n \in 0..MaxBatch, NEW c \in Nat,
         UNCHANGED <<query, period>>, held' = [held EXCEPT ![r] = n],
         usage' = [usage EXCEPT ![SenderOf(r)] = c],
         \/ c = usage[SenderOf(r)] + n - held[r]
         \/ c = 0 /\ usage[SenderOf(r)] + n - held[r] <= 0
  PROVE  AccountInv'
  <1>. DEFINE s == SenderOf(r)
  <1>1. s \in Owners
    BY DEF SenderOf, Owners
  <1>2. /\ held \in [Requests -> 0..MaxBatch] /\ held' \in [Requests -> 0..MaxBatch]
        /\ held'[r] = n /\ usage'[s] = c
        /\ \A q \in Requests \ {r} : held'[q] = held[q]
    BY <1>1 DEF TypeOK
  <1>3. \A q : SenderOf(q)' = SenderOf(q)
    BY DEF SenderOf
  <1>4. ASSUME NEW o \in Owners PROVE OwnerCounted(o)'
    <2>1. Units(o, held)' = Units(o, held')
      BY <1>3 DEF Units
    <2>2. OwnerCounted(o) /\ usage[o] \in Nat /\ period[o] \in Nat
      BY DEF AccountInv, TypeOK
    <2>3. Limit[o] * period[o] \in Nat
      BY <2>2, LimitAssumption
    <2>4. CASE o # s
      <3>1. Units(o, held') = Units(o, held)
        BY <1>2, <2>4 DEF Units
      <3>2. usage'[o] = usage[o]
        BY <2>4 DEF TypeOK
      <3>3. QED
        BY <2>1, <2>2, <3>1, <3>2 DEF OwnerCounted
    <2>5. CASE o = s
      <3>1. Others(s, r, held') = Others(s, r, held)
        BY <1>2 DEF Others, Units
      <3>2. PICK k \in Nat : k = Cardinality(Others(s, r, held))
        BY <1>2, UnitsSplit
      <3>3. Cardinality(Units(s, held)) = k + held[r]
        BY <1>2, <3>2, UnitsSplit
      <3>4. Cardinality(Units(s, held')) = k + n
        BY <1>2, <3>1, <3>2, UnitsSplit
      <3>. HIDE DEF s
      <3>5. k + held[r] <= usage[s] + Limit[s] * period[s]
        BY <2>2, <2>5, <3>3 DEF OwnerCounted
      <3>6. PICK a \in Nat : a = Limit[s] * period[s]
        BY <2>3, <2>5
      <3>7. k + n <= c + a
        <4>1. held[r] \in Nat /\ usage[s] \in Nat
          BY <1>2, <2>2, <2>5, BoundsAssumption
        <4>2. \/ c = usage[s] + n - held[r]
              \/ c = 0 /\ usage[s] + n - held[r] <= 0
          BY DEF s
        <4>3. QED
          BY <3>2, <3>5, <3>6, <4>1, <4>2
      <3>8. QED
        BY <1>2, <2>1, <2>5, <3>4, <3>6, <3>7 DEF OwnerCounted
    <2>6. QED
      BY <2>4, <2>5
  <1>5. QED
    BY <1>4 DEF AccountInv

(* The publisher is told the sender of a call.                             *)
LEMMA OwnerIsSender ==
  ASSUME LocalInv, NEW m \in net PROVE OwnerOf(m.r) = SenderOf(m.r) /\ OwnerOf(m.r) \in Owners
  <1>1. ctx[m.r] = Ids(m.r)
    BY OnTheWire DEF MessageInv
  <1>2. ctx[m.r].user = query[m.r].user
    BY <1>1 DEF Ids
  <1>3. QED
    BY <1>2 DEF OwnerOf, SenderOf, Owners

LEMMA AllocateAccount ==
  ASSUME LocalInv, AccountInv, NEW m \in net, Allocate(m) PROVE AccountInv'
  <1>. DEFINE s == SenderOf(m.r)
              count == Smaller(m.count, Limit[s] - usage[s])
  <1>1. /\ TypeOK /\ m.r \in Requests /\ m.count \in 0..MaxBatch /\ MessageInv(m)
        /\ s \in Owners /\ OwnerOf(m.r) = s /\ m.call = "allocate"
    BY OnTheWire, OwnerIsSender DEF Allocate
  <1>2. /\ usage' = [usage EXCEPT ![s] = @ + count] /\ held' = [held EXCEPT ![m.r] = @ + count]
        /\ UNCHANGED <<query, period>>
    BY <1>1 DEF Allocate, session
  <1>3. held[m.r] = 0 /\ query[m.r].route = "write"
    BY <1>1 DEF MessageInv
  <1>4. usage[s] \in Nat /\ usage[s] <= Limit[s] /\ Limit[s] \in Nat
    BY <1>1, LimitAssumption DEF TypeOK
  <1>5. count \in 0..MaxBatch
    BY <1>1, <1>4, BoundsAssumption DEF Smaller
  <1>. HIDE DEF s, count
  <1>6. /\ usage[s] + count \in Nat /\ usage[s] + count = usage[s] + count - held[m.r]
        /\ usage' = [usage EXCEPT ![s] = usage[s] + count]
        /\ held' = [held EXCEPT ![m.r] = count]
    BY <1>1, <1>2, <1>3, <1>4, <1>5, BoundsAssumption DEF TypeOK
  <1>7. QED
    BY <1>1, <1>2, <1>3, <1>5, <1>6, AccountStep DEF s

LEMMA ReleaseAccount ==
  ASSUME LocalInv, AccountInv, NEW m \in net, Release(m) PROVE AccountInv'
  <1>. DEFINE s == SenderOf(m.r)
              c == usage[s] - Smaller(m.count, usage[s])
              n == held[m.r] - m.count
  <1>1. /\ TypeOK /\ m.r \in Requests /\ m.count \in 0..MaxBatch /\ MessageInv(m)
        /\ s \in Owners /\ OwnerOf(m.r) = s /\ m.call = "release"
    BY OnTheWire, OwnerIsSender DEF Release
  <1>2. /\ usage' = [usage EXCEPT ![s] = c] /\ held' = [held EXCEPT ![m.r] = n]
        /\ UNCHANGED <<query, period>>
    BY <1>1 DEF Release, session
  <1>3. /\ query[m.r].route = "write" /\ m.count + ack[m.r] = held[m.r]
        /\ ack[m.r] \in 0..MaxBatch /\ held[m.r] \in 0..MaxBatch /\ usage[s] \in Nat
    BY <1>1 DEF MessageInv, TypeOK
  <1>4. /\ n \in 0..MaxBatch /\ c \in Nat
        /\ c = usage[s] + n - held[m.r] \/ (c = 0 /\ usage[s] + n - held[m.r] <= 0)
    BY <1>1, <1>3, BoundsAssumption DEF Smaller
  <1>. HIDE DEF s, c, n
  <1>5. QED
    BY <1>1, <1>2, <1>3, <1>4, AccountStep DEF s

LEMMA ResetAccount ==
  ASSUME LocalInv, AccountInv, NEW o \in Owners, Reset(o) PROVE AccountInv'
  <1>1. /\ TypeOK /\ UNCHANGED <<query, held>>
        /\ period' = [period EXCEPT ![o] = @ + 1] /\ usage' = [usage EXCEPT ![o] = 0]
    BY DEF LocalInv, Reset, session
  <1>2. ASSUME NEW x \in Owners PROVE OwnerCounted(x)'
    <2>1. Units(x, held)' = Units(x, held)
      BY <1>1 DEF Units, SenderOf
    <2>2. OwnerCounted(x)
      BY DEF AccountInv
    <2>3. CASE x # o
      BY <1>1, <2>1, <2>2, <2>3 DEF OwnerCounted, TypeOK
    <2>4. CASE x = o
      <3>1. /\ usage[x] \in Nat /\ usage[x] <= Limit[x] /\ Limit[x] \in Nat /\ period[x] \in Nat
            /\ usage'[x] = 0 /\ period'[x] = period[x] + 1
        <4>1. usage \in [Owners -> Nat] /\ period \in [Owners -> 0..MaxPeriod] /\ usage[x] <= Limit[x]
          BY <1>1 DEF TypeOK
        <4>2. Limit[x] \in Nat /\ period[x] \in Nat
          BY <4>1, LimitAssumption, BoundsAssumption
        <4>3. QED
          BY <1>1, <2>4, <4>1, <4>2
      <3>2. Limit[x] * (period[x] + 1) = Limit[x] * period[x] + Limit[x]
        BY <3>1
      <3>3. Cardinality(Units(x, held)) \in Nat
        <4>1. Units(x, held) \in SUBSET (Requests \X (1..MaxBatch))
          BY DEF Units
        <4>2. QED
          BY <4>1, UnitsFinite
      <3>4. PICK a \in Nat : a = Limit[x] * period[x]
        BY <3>1
      <3>5. QED
        BY <2>1, <2>2, <3>1, <3>2, <3>3, <3>4 DEF OwnerCounted
    <2>5. QED
      BY <2>3, <2>4
  <1>3. QED
    BY <1>2 DEF AccountInv

LEMMA NextAccount == LocalInv /\ AccountInv /\ [Next]_vars => AccountInv'
  <1>1. SUFFICES ASSUME LocalInv, AccountInv, [Next]_vars PROVE AccountInv'
    OBVIOUS
  <1>2. ASSUME NEW r \in Requests, \/ Arrive(r) \/ Authorize(r) \/ Take(r) \/ Wake(r)
                                   \/ Write(r) \/ ServeSource(r) \/ ClientLogin(r)
        PROVE  AccountInv'
    BY <1>1, <1>2, AccountFrame DEF Arrive, Authorize, Take, Wake, Write, ServeSource, ClientLogin,
       session, submission, services
  <1>3. ASSUME NEW m \in net, Publish(m) \/ Fails(m) PROVE AccountInv'
    BY <1>1, <1>3, AccountFrame DEF Publish, Fails, session, services
  <1>4. CASE Restart \/ Tick \/ UNCHANGED vars
    BY <1>1, <1>4, AccountFrame DEF Restart, Tick, session, submission, services, vars
  <1>5. QED
    BY <1>1, <1>2, <1>3, <1>4, AllocateAccount, ReleaseAccount, ResetAccount
    DEF Next, Proceed, Terminating

(* A sender is acknowledged no more than his own limit in every period, for*)
(* any senders, limits, batches, lost and late calls, resets and crashes.  *)
THEOREM CountedAgainstSenderHolds == Spec => []CountedAgainstSender
<1>1. ASSUME LocalInv, AccountInv PROVE CountedAgainstSender
  <2>. SUFFICES ASSUME NEW o \in Owners
                PROVE  Cardinality(Units(o, ack)) <= Limit[o] * (1 + period[o])
    BY DEF CountedAgainstSender
  <2>1. TypeOK /\ OwnerCounted(o)
    BY <1>1 DEF LocalInv, AccountInv
  <2>2. /\ usage[o] \in Nat /\ usage[o] <= Limit[o] /\ Limit[o] \in Nat /\ period[o] \in Nat
    BY <2>1, LimitAssumption DEF TypeOK
  <2>3. \A r \in Requests : query[r].route = "write" => ack[r] <= held[r]
    BY <1>1 DEF LocalInv, RequestInv
  <2>4. /\ ack \in [Requests -> 0..MaxBatch] /\ held \in [Requests -> 0..MaxBatch]
        /\ MaxBatch \in Nat
    BY <2>1, BoundsAssumption DEF TypeOK
  <2>5. Units(o, ack) \subseteq Units(o, held)
    BY <2>3, <2>4 DEF Units
  <2>6. /\ Cardinality(Units(o, ack)) <= Cardinality(Units(o, held))
        /\ Cardinality(Units(o, ack)) \in Nat /\ Cardinality(Units(o, held)) \in Nat
    <3>1. /\ Units(o, held) \in SUBSET (Requests \X (1..MaxBatch))
          /\ Units(o, ack) \in SUBSET (Requests \X (1..MaxBatch))
      BY DEF Units
    <3>2. QED
      BY <2>5, <3>1, UnitsFinite, FS_Subset
  <2>7. Limit[o] * (1 + period[o]) = Limit[o] + Limit[o] * period[o]
    BY <2>2
  <2>8. PICK a \in Nat : a = Limit[o] * period[o]
    BY <2>2
  <2>9. QED
    BY <2>1, <2>2, <2>6, <2>7, <2>8 DEF OwnerCounted
<1>2. QED
  BY <1>1, InitAccount, NextAccount, LocalHolds, PTL DEF Spec
=============================================================================
