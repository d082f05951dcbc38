-------------------------- MODULE PublisherProofs --------------------------
(***************************************************************************)
(* The safety of the publishing path for any number of requests, users,    *)
(* limits and resets, whatever calls fail, are lost or late, and whichever *)
(* replicas die.                                                           *)
(*                                                                         *)
(* The inductive invariant says what the goroutine of a request knows at   *)
(* each call (RequestInv), what a call on the wire may ask for given what  *)
(* the services did for the request so far (MessageInv), and that the      *)
(* counter of an owner is what his requests hold of their grants, but for  *)
(* the counts given back too late (CountedIsHeld).                         *)
(***************************************************************************)
EXTENDS Publisher, FiniteSetTheorems, TLAPS

HasPermit(r) ==
  /\ granted[r].some
  /\ permit[r].count = granted[r].count
  /\ permit[r].user = granted[r].user

RequestInv(r) ==
  /\ req[r].internal => pc[r] \in {"idle", "publish", "done", "crashed"} /\ ~granted[r].some
  /\ pc[r] = "idle" => ~granted[r].some /\ ~reply[r].has
  /\ pc[r] \in {"idle", "allocate"} => permit[r] = NoPermit
  /\ pc[r] = "allocate" /\ reply[r].has =>
       granted[r].some /\ reply[r].count = granted[r].count /\ reply[r].user = granted[r].user
  /\ pc[r] \in {"notify", "publish", "release"} /\ ~req[r].internal => HasPermit(r)
  /\ pc[r] \in {"idle", "allocate", "notify"} => accepted[r] = 0
  /\ pc[r] \in {"idle", "allocate", "notify", "publish"} => released[r] = 0 /\ resp[r].code = "none"
  /\ pc[r] = "release" => resp[r].code # "none"
  /\ pc[r] = "publish" /\ reply[r].has /\ ~req[r].internal => reply[r].count <= granted[r].count
  /\ ~granted[r].some => granted[r].count = 0
  /\ granted[r].some => granted[r].period <= period[granted[r].user]
  /\ ~req[r].internal =>
       /\ accepted[r] <= granted[r].count
       /\ released[r] + acked[r] <= granted[r].count

MessageInv(m) ==
  /\ m.call = "allocate" =>
       /\ pc[m.r] \in {"allocate", "done", "crashed"}
       /\ ~req[m.r].internal
       /\ ~granted[m.r].some
       /\ m.user = req[m.r].user /\ m.count = req[m.r].n
  /\ m.call = "notify" => m.count = 1 /\ pc[m.r] # "idle"
  /\ m.call = "publish" =>
       /\ pc[m.r] \in {"publish", "release", "done", "crashed"}
       /\ accepted[m.r] = 0
       /\ req[m.r].internal => m.user = NoUser /\ m.count = req[m.r].n
       /\ ~req[m.r].internal =>
            granted[m.r].some /\ m.user = granted[m.r].user /\ m.count = granted[m.r].count
  /\ m.call = "release" =>
       /\ pc[m.r] \in {"release", "done", "crashed"}
       /\ ~req[m.r].internal
       /\ granted[m.r].some
       /\ released[m.r] = 0
       /\ m.user = granted[m.r].user
       /\ m.count = granted[m.r].count - acked[m.r]

LocalInv ==
  /\ TypeOK
  /\ \A r \in Requests : RequestInv(r)
  /\ \A m \in net : MessageInv(m)

Inv == LocalInv /\ CountedIsHeld

(***************************************************************************)
(* The goroutine                                                           *)
(***************************************************************************)

LEMMA InitLocal == Init => LocalInv
<1>. SUFFICES ASSUME Init PROVE LocalInv
  OBVIOUS
<1>. USE UsersAssumption, SubmissionsAssumption, LimitAssumption, BoundsAssumption
<1>1. TypeOK
  BY DEF Init, TypeOK, States, Permit, NoPermit, Result, NoResult, HttpStatuses, Reply,
         NoReply, Owners, Grant, NoGrant
<1>2. ASSUME NEW r \in Requests PROVE RequestInv(r)
  BY DEF Init, RequestInv, NoGrant, NoPermit, NoResult, NoReply, acked
<1>3. net = {}
  BY DEF Init
<1>. QED
  BY <1>1, <1>2, <1>3 DEF LocalInv

(* What a goroutine leaves alone when it acts for request r.               *)
Frame(r) ==
  /\ UNCHANGED <<req, usageSvc, stream>>
  /\ reply' = [reply EXCEPT ![r] = NoReply]

(* The values of a permit that SubmitPermittedEvents goes on with.         *)
KnownPermit(r, p) ==
  granted[r].some /\ p.count = granted[r].count /\ p.user = granted[r].user

LEMMA SettleStep ==
  ASSUME LocalInv, NEW r \in Requests, NEW left \in SUBSET net, NEW p \in Permit,
         NEW ack \in 0..MaxBatch, NEW code \in ErrorCodes \cup {"OK"},
         ~req[r].internal, pc[r] \in {"allocate", "notify", "publish"},
         code = "OK" => ack <= p.count,
         (p = NoPermit /\ code # "OK") \/ KnownPermit(r, p),
         Settle(r, left, p, ack, code), permit' = [permit EXCEPT ![r] = p], Frame(r)
  PROVE  LocalInv'
<1>. USE UsersAssumption, BoundsAssumption DEF LocalInv
<1>. DEFINE used == IF code = "OK" THEN ack ELSE 0
            unused == p.count - used
            msg == [r |-> r, call |-> "release", user |-> p.user, count |-> unused]
<1>1. /\ used \in 0..MaxBatch /\ used <= p.count
      /\ unused \in 0..MaxBatch
      /\ Minus(p.count, used) = unused
      /\ p.user \in Owners /\ code # "none"
  BY DEF Permit, Minus, NoPermit, ErrorCodes
<1>2. resp' = [resp EXCEPT ![r] = [ack |-> ack, code |-> code]]
  BY DEF Settle
<1>3. \/ /\ unused > 0
         /\ pc' = [pc EXCEPT ![r] = "release"]
         /\ net' = left \cup {msg}
         /\ http' = http
      \/ /\ unused = 0
         /\ pc' = [pc EXCEPT ![r] = "done"]
         /\ net' = left
         /\ http' = [http EXCEPT ![r] = HttpStatus(ack, code)]
  BY <1>1 DEF Settle, Call, Respond
<1>4. HttpStatus(ack, code) \in HttpStatuses
  BY DEF HttpStatus, HttpStatuses
<1>5. msg \in Message
  BY <1>1 DEF Message, Calls, Owners
<1>6. TypeOK'
  <2>1. pc' \in [Requests -> States] /\ http' \in [Requests -> HttpStatuses]
    BY <1>3, <1>4 DEF TypeOK, States, Calls
  <2>2. resp' \in [Requests -> Result]
    BY <1>2 DEF TypeOK, Result
  <2>3. net' \subseteq Message
    BY <1>3, <1>5 DEF TypeOK
  <2>4. reply' \in [Requests -> Reply] /\ permit' \in [Requests -> Permit]
    BY DEF TypeOK, Frame, Reply, NoReply, Owners
  <2>. QED
    BY <2>1, <2>2, <2>3, <2>4 DEF TypeOK, Frame, usageSvc, stream
<1>7. acked' = [acked EXCEPT ![r] = used]
  BY <1>2 DEF acked, TypeOK
<1>8. ASSUME NEW x \in Requests PROVE RequestInv(x)'
  <2>1. RequestInv(x) /\ RequestInv(r)
    OBVIOUS
  <2>2. CASE x # r
    BY <2>1, <2>2, <1>2, <1>3, <1>7 DEF RequestInv, TypeOK, Frame, usageSvc, stream, HasPermit
  <2>3. CASE x = r
    BY <2>1, <2>3, <1>1, <1>2, <1>3, <1>7
    DEF RequestInv, TypeOK, Frame, usageSvc, stream, HasPermit, KnownPermit, NoPermit, Grant
  <2>. QED
    BY <2>2, <2>3
<1>9. ASSUME NEW m \in net' PROVE MessageInv(m)'
  <2>1. CASE m \in left
    <3>1. MessageInv(m) /\ m \in Message
      BY <2>1 DEF TypeOK
    <3>2. CASE m.r # r
      BY <3>1, <3>2, <1>2, <1>3, <1>7 DEF MessageInv, TypeOK, Frame, usageSvc, stream, Message
    <3>3. CASE m.r = r
      BY <3>1, <3>3, <1>1, <1>3 DEF MessageInv, TypeOK, Frame, usageSvc, stream, Message, KnownPermit, NoPermit
    <3>. QED
      BY <3>2, <3>3
  <2>2. CASE m = msg /\ unused > 0 /\ pc' = [pc EXCEPT ![r] = "release"]
    <3>1. KnownPermit(r, p)
      BY <1>1, <2>2 DEF NoPermit
    <3>2. RequestInv(r)
      OBVIOUS
    <3>. QED
      BY <2>2, <3>1, <3>2, <1>7 DEF MessageInv, RequestInv, TypeOK, Frame, usageSvc, stream, KnownPermit, acked
  <2>. QED
    BY <2>1, <2>2, <1>3
<1>. QED
  BY <1>6, <1>8, <1>9

LEMMA CallPublishStep ==
  ASSUME LocalInv, NEW r \in Requests, NEW left \in SUBSET net, NEW p \in Permit,
         ~req[r].internal, pc[r] \in {"allocate", "notify"}, KnownPermit(r, p),
         NEW ack \in 0..MaxBatch, PublishBatch(r, left, p, ack, p.count),
         permit' = [permit EXCEPT ![r] = p], Frame(r)
  PROVE  LocalInv'
<1>. USE UsersAssumption, BoundsAssumption DEF LocalInv
<1>. DEFINE msg == [r |-> r, call |-> "publish", user |-> p.user, count |-> p.count]
<1>1. /\ pc' = [pc EXCEPT ![r] = "publish"] /\ net' = left \cup {msg} /\ http' = http
      /\ resp' = [resp EXCEPT ![r] = [ack |-> ack, code |-> "none"]]
      /\ acked' = acked
  <2>1. resp[r].code = "none" /\ resp \in [Requests -> Result]
    BY DEF RequestInv, TypeOK
  <2>. QED
    BY <2>1 DEF PublishBatch, Call, acked
<1>2. msg \in Message
  BY DEF Message, Calls, Owners, Permit
<1>3. TypeOK'
  BY <1>1, <1>2 DEF TypeOK, Frame, usageSvc, stream, States, Calls, Result, Reply, NoReply, Owners
<1>4. ASSUME NEW x \in Requests PROVE RequestInv(x)'
  <2>1. RequestInv(x) /\ RequestInv(r)
    OBVIOUS
  <2>. QED
    BY <2>1, <1>1
    DEF RequestInv, TypeOK, Frame, usageSvc, stream, HasPermit, KnownPermit, NoReply
<1>5. ASSUME NEW m \in net' PROVE MessageInv(m)'
  <2>1. CASE m \in left
    <3>1. MessageInv(m) /\ m \in Message
      BY <2>1 DEF TypeOK
    <3>. QED
      BY <3>1, <1>1 DEF MessageInv, TypeOK, Frame, usageSvc, stream, Message, KnownPermit
  <2>2. CASE m = msg
    <3>1. RequestInv(r)
      OBVIOUS
    <3>. QED
      BY <2>2, <3>1, <1>1 DEF MessageInv, RequestInv, TypeOK, Frame, usageSvc, stream, KnownPermit
  <2>. QED
    BY <2>1, <2>2, <1>1
<1>. QED
  BY <1>3, <1>4, <1>5

LEMMA ApplyPermitStep ==
  ASSUME LocalInv, NEW r \in Requests, NEW left \in SUBSET net, NEW p \in Permit,
         ~req[r].internal, pc[r] \in {"allocate", "notify"}, KnownPermit(r, p),
         NEW ack \in 0..MaxBatch, applyPermit(r, left, p, ack), permit' = [permit EXCEPT ![r] = p], Frame(r)
  PROVE  LocalInv'
<1>1. CASE p.count = 0 /\ Settle(r, left, p, ack, "ResourceExhausted")
  <2>1. "ResourceExhausted" \in ErrorCodes
    BY DEF ErrorCodes
  <2>. QED
    BY <1>1, <2>1, SettleStep
<1>2. CASE PublishBatch(r, left, p, ack, p.count)
  BY <1>2, CallPublishStep
<1>. QED
  BY <1>1, <1>2 DEF applyPermit

(* A request answered without a release: an internal one, or any at its    *)
(* end.                                                                    *)
LEMMA RespondStep ==
  ASSUME LocalInv, NEW r \in Requests, NEW left \in SUBSET net,
         NEW ack \in 0..MaxBatch, NEW code \in ErrorCodes \cup {"OK"},
         (req[r].internal /\ pc[r] = "publish") \/ (pc[r] = "release" /\ resp' = resp),
         Respond(r, left, ack, code),
         resp' = [resp EXCEPT ![r] = [ack |-> ack, code |-> code]],
         UNCHANGED permit, Frame(r)
  PROVE  LocalInv'
<1>. USE UsersAssumption, BoundsAssumption DEF LocalInv
<1>1. /\ pc' = [pc EXCEPT ![r] = "done"] /\ net' = left
      /\ http' = [http EXCEPT ![r] = HttpStatus(ack, code)]
  BY DEF Respond
<1>2. HttpStatus(ack, code) \in HttpStatuses
  BY DEF HttpStatus, HttpStatuses
<1>3. TypeOK'
  BY <1>1, <1>2 DEF TypeOK, Frame, usageSvc, stream, States, Result, Reply, NoReply, Owners
<1>4. ASSUME NEW x \in Requests, x # r \/ ~req[r].internal PROVE acked'[x] = acked[x]
  BY <1>4 DEF acked, TypeOK
<1>5. ASSUME NEW x \in Requests PROVE RequestInv(x)'
  <2>1. RequestInv(x) /\ RequestInv(r)
    OBVIOUS
  <2>. QED
    BY <2>1, <1>1, <1>4 DEF RequestInv, TypeOK, Frame, usageSvc, stream, HasPermit
<1>6. ASSUME NEW m \in net' PROVE MessageInv(m)'
  <2>1. MessageInv(m) /\ m \in Message
    BY <1>1 DEF TypeOK
  <2>. QED
    BY <2>1, <1>1, <1>4 DEF MessageInv, TypeOK, Frame, usageSvc, stream, Message
<1>. QED
  BY <1>3, <1>5, <1>6

LEMMA LeftoversSubset ==
  ASSUME NEW r, NEW call, NEW left \in Leftovers(r, call) PROVE left \subseteq net
BY DEF Leftovers

LEMMA SubmitStep ==
  ASSUME LocalInv, NEW r \in Requests, Submit(r) PROVE LocalInv'
<1>. USE UsersAssumption, SubmissionsAssumption, BoundsAssumption DEF LocalInv
<1>. DEFINE msg == IF req[r].internal
                   THEN [r |-> r, call |-> "publish", user |-> NoUser, count |-> req[r].n]
                   ELSE [r |-> r, call |-> "allocate", user |-> req[r].user, count |-> req[r].n]
<1>1. /\ pc[r] = "idle"
      /\ pc' = [pc EXCEPT ![r] = IF req[r].internal THEN "publish" ELSE "allocate"]
      /\ net' = net \cup {msg}
      /\ UNCHANGED <<req, permit, resp, http, reply, usageSvc, stream>>
      /\ acked' = acked
  BY DEF Submit, Call, acked
<1>2. req[r] \in SubmissionType /\ (req[r].internal => req[r].n = 1)
  BY DEF TypeOK
<1>3. msg \in Message
  BY <1>2 DEF Message, Calls, SubmissionType
<1>4. TypeOK'
  BY <1>1, <1>3 DEF TypeOK, usageSvc, stream, States, Calls
<1>5. ~reply[r].has
  BY <1>1 DEF RequestInv
<1>6. ASSUME NEW x \in Requests PROVE RequestInv(x)'
  <2>1. RequestInv(x) /\ RequestInv(r)
    OBVIOUS
  <2>. QED
    BY <2>1, <1>1, <1>5 DEF RequestInv, TypeOK, usageSvc, stream, HasPermit
<1>7. ASSUME NEW m \in net' PROVE MessageInv(m)'
  <2>1. CASE m \in net
    <3>1. MessageInv(m) /\ m \in Message
      BY <2>1 DEF TypeOK
    <3>. QED
      BY <3>1, <1>1 DEF MessageInv, TypeOK, usageSvc, stream, Message
  <2>2. CASE m = msg
    <3>1. RequestInv(r)
      OBVIOUS
    <3>. QED
      BY <2>2, <3>1, <1>1 DEF MessageInv, RequestInv, TypeOK, usageSvc, stream
  <2>. QED
    BY <2>1, <2>2, <1>1
<1>. QED
  BY <1>4, <1>6, <1>7

LEMMA AllocateReturnsStep ==
  ASSUME LocalInv, NEW r \in Requests, AllocateReturns(r) PROVE LocalInv'
<1>. USE UsersAssumption, BoundsAssumption DEF LocalInv
<1>. DEFINE p == [count |-> reply[r].count, user |-> reply[r].user, just |-> reply[r].just]
            msg == [r |-> r, call |-> "notify", user |-> p.user, count |-> 1]
<1>1. /\ pc[r] = "allocate" /\ reply[r].has
      /\ permit' = [permit EXCEPT ![r] = p]
      /\ Frame(r)
  BY DEF AllocateReturns, Answered, Waits, Frame
<1>2. p \in Permit
  BY DEF TypeOK, Reply, Permit
<1>3. ~req[r].internal /\ KnownPermit(r, p) /\ RequestInv(r)
  BY <1>1 DEF RequestInv, KnownPermit
<1>4. CASE applyPermit(r, net, p, 0)
  <2>1. 0 \in 0..MaxBatch
    OBVIOUS
  <2>. QED
    BY <1>1, <1>2, <1>3, <1>4, <2>1, ApplyPermitStep
<1>5. CASE NoticeDue(r, p) /\ Call(r, net, "notify", p.user, 1) /\ UNCHANGED <<resp, http>>
  <2>1. /\ pc' = [pc EXCEPT ![r] = "notify"] /\ net' = net \cup {msg}
        /\ UNCHANGED <<resp, http>> /\ acked' = acked
    BY <1>5 DEF Call, acked
  <2>2. 1 \in 0..(UintSize - 1)
    OBVIOUS
  <2>3. msg \in Message
    BY <1>2, <2>2 DEF Message, Calls, Permit, Owners
  <2>4. TypeOK'
    BY <1>1, <1>2, <2>1, <2>3
    DEF TypeOK, Frame, usageSvc, stream, States, Calls, Reply, NoReply, Owners
  <2>5. ASSUME NEW x \in Requests PROVE RequestInv(x)'
    <3>1. RequestInv(x)
      OBVIOUS
    <3>. QED
      BY <1>1, <1>3, <2>1, <3>1
      DEF RequestInv, TypeOK, Frame, usageSvc, stream, HasPermit, KnownPermit, NoReply
  <2>6. ASSUME NEW m \in net' PROVE MessageInv(m)'
    <3>1. CASE m \in net
      <4>1. MessageInv(m) /\ m \in Message
        BY <3>1 DEF TypeOK
      <4>. QED
        BY <1>1, <1>3, <2>1, <4>1
        DEF MessageInv, TypeOK, Frame, usageSvc, stream, Message, KnownPermit
    <3>2. CASE m = msg
      BY <3>2, <2>1 DEF MessageInv, TypeOK
    <3>. QED
      BY <3>1, <3>2, <2>1
  <2>. QED
    BY <2>4, <2>5, <2>6
<1>. QED
  BY <1>4, <1>5 DEF AllocateReturns

LEMMA FailsStep ==
  ASSUME LocalInv, NEW r \in Requests,
         AllocateFails(r) \/ NotifyFails(r) \/ PublishFails(r)
  PROVE  LocalInv'
<1>. USE DEF LocalInv
<1>. DEFINE Held == permit[r]
<1>1. RequestInv(r) /\ permit[r] \in Permit /\ permit = [permit EXCEPT ![r] = permit[r]]
  BY DEF TypeOK
<1>2. 0 \in 0..MaxBatch /\ "OK" \notin ErrorCodes
  BY BoundsAssumption DEF ErrorCodes
<1>3. CASE AllocateFails(r)
  <2>1. PICK left \in SUBSET net, c \in Codes : Settle(r, left, NoPermit, 0, encodeError(c))
    BY <1>3, LeftoversSubset DEF AllocateFails
  <2>2. encodeError(c) \in ErrorCodes
    BY DEF encodeError, ErrorCodes
  <2>3. pc[r] = "allocate" /\ permit[r] = NoPermit /\ ~req[r].internal /\ Frame(r)
        /\ permit' = permit
    BY <1>1, <1>3 DEF AllocateFails, Waits, RequestInv, Frame
  <2>. QED
    BY <1>1, <1>2, <2>1, <2>2, <2>3, SettleStep
<1>4. CASE NotifyFails(r)
  <2>1. PICK left \in SUBSET net, c \in Codes : Settle(r, left, permit[r], 0, c)
    BY <1>4, LeftoversSubset DEF NotifyFails
  <2>2. pc[r] = "notify" /\ ~req[r].internal /\ KnownPermit(r, permit[r]) /\ Frame(r)
        /\ permit' = permit
    BY <1>1, <1>4 DEF NotifyFails, Waits, RequestInv, HasPermit, KnownPermit, Frame
  <2>3. c \in ErrorCodes
    BY FaultsAssumption
  <2>. QED
    BY <1>1, <1>2, <2>1, <2>2, <2>3, SettleStep
<1>5. CASE PublishFails(r)
  <2>1. pc[r] = "publish" /\ Frame(r) /\ permit' = permit
    BY <1>5 DEF PublishFails, Waits, Frame
  <2>2. CASE req[r].internal
    <3>1. PICK left \in SUBSET net, c \in Codes :
            Respond(r, left, 0, c) /\ resp' = [resp EXCEPT ![r] = [ack |-> 0, code |-> c]]
      BY <1>5, <2>2, LeftoversSubset DEF PublishFails
    <3>2. c \in ErrorCodes
      BY FaultsAssumption
    <3>. QED
      BY <1>2, <2>1, <2>2, <3>1, <3>2, RespondStep
  <2>3. CASE ~req[r].internal
    <3>1. PICK left \in SUBSET net, c \in Codes : Settle(r, left, permit[r], resp[r].ack, c)
      BY <1>5, <2>3, LeftoversSubset DEF PublishFails
    <3>2. KnownPermit(r, permit[r]) /\ resp[r].ack \in 0..MaxBatch
      BY <1>1, <2>1, <2>3 DEF RequestInv, HasPermit, KnownPermit, TypeOK, Result
    <3>3. c \in ErrorCodes
      BY FaultsAssumption
    <3>. QED
      BY <1>1, <1>2, <2>1, <2>3, <3>1, <3>2, <3>3, SettleStep
  <2>. QED
    BY <2>2, <2>3
<1>. QED
  BY <1>3, <1>4, <1>5

LEMMA NotifyReturnsStep ==
  ASSUME LocalInv, NEW r \in Requests, NotifyReturns(r) PROVE LocalInv'
<1>. USE DEF LocalInv
<1>1. RequestInv(r) /\ permit[r] \in Permit /\ permit = [permit EXCEPT ![r] = permit[r]]
      /\ reply[r].count \in 0..MaxBatch
  BY DEF TypeOK, Reply
<1>2. pc[r] = "notify" /\ ~req[r].internal /\ KnownPermit(r, permit[r]) /\ Frame(r)
      /\ permit' = permit /\ applyPermit(r, net, permit[r], reply[r].count)
  BY <1>1 DEF NotifyReturns, Answered, Waits, RequestInv, HasPermit, KnownPermit, Frame
<1>. QED
  BY <1>1, <1>2, ApplyPermitStep

LEMMA PublishReturnsStep ==
  ASSUME LocalInv, NEW r \in Requests, PublishReturns(r) PROVE LocalInv'
<1>. USE DEF LocalInv
<1>1. RequestInv(r) /\ permit[r] \in Permit /\ permit = [permit EXCEPT ![r] = permit[r]]
      /\ reply[r].count \in 0..MaxBatch
  BY DEF TypeOK, Reply
<1>2. pc[r] = "publish" /\ Frame(r) /\ permit' = permit /\ reply[r].has
  BY DEF PublishReturns, Answered, Waits, Frame
<1>3. CASE req[r].internal
  BY <1>1, <1>2, <1>3, RespondStep DEF PublishReturns
<1>4. CASE ~req[r].internal
  <2>1. KnownPermit(r, permit[r]) /\ reply[r].count <= permit[r].count
    BY <1>1, <1>2, <1>4 DEF RequestInv, HasPermit, KnownPermit
  <2>2. Settle(r, net, permit[r], reply[r].count, "OK")
    BY <1>4 DEF PublishReturns
  <2>. QED
    BY <1>1, <1>2, <1>4, <2>1, <2>2, SettleStep
<1>. QED
  BY <1>3, <1>4

LEMMA ReleaseEndsStep ==
  ASSUME LocalInv, NEW r \in Requests, ReleaseEnds(r) PROVE LocalInv'
<1>. USE DEF LocalInv
<1>1. PICK left \in SUBSET net : Respond(r, left, resp[r].ack, resp[r].code)
  BY LeftoversSubset DEF ReleaseEnds
<1>2. pc[r] = "release" /\ Frame(r) /\ UNCHANGED <<permit, resp>> /\ resp[r].code # "none"
  BY DEF ReleaseEnds, Waits, Frame, RequestInv
<1>3. resp[r].ack \in 0..MaxBatch /\ resp[r].code \in ErrorCodes \cup {"OK"}
      /\ resp = [resp EXCEPT ![r] = [ack |-> resp[r].ack, code |-> resp[r].code]]
  BY <1>2 DEF TypeOK, Result
<1>. QED
  BY <1>1, <1>2, <1>3, RespondStep

LEMMA CrashStep ==
  ASSUME LocalInv, NEW r \in Requests, Crash(r) PROVE LocalInv'
<1>. USE UsersAssumption, BoundsAssumption DEF LocalInv
<1>1. /\ pc[r] \in Calls /\ pc' = [pc EXCEPT ![r] = "crashed"]
      /\ reply' = [reply EXCEPT ![r] = NoReply]
      /\ UNCHANGED <<req, permit, resp, http, net, usageSvc, stream>>
      /\ acked' = acked
  BY DEF Crash, acked
<1>2. TypeOK'
  BY <1>1 DEF TypeOK, usageSvc, stream, States, Reply, NoReply, Owners
<1>3. ASSUME NEW x \in Requests PROVE RequestInv(x)'
  <2>1. RequestInv(x)
    OBVIOUS
  <2>. QED
    BY <2>1, <1>1 DEF RequestInv, TypeOK, usageSvc, stream, HasPermit
<1>4. ASSUME NEW m \in net' PROVE MessageInv(m)'
  <2>1. MessageInv(m) /\ m \in Message
    BY <1>1 DEF TypeOK
  <2>. QED
    BY <2>1, <1>1 DEF MessageInv, TypeOK, usageSvc, stream, Message
<1>. QED
  BY <1>2, <1>3, <1>4

(***************************************************************************)
(* The services                                                            *)
(***************************************************************************)

(* Calls of one request and one kind are one call: what they ask for is    *)
(* determined by what the request and the services did so far.             *)
LEMMA OneCall ==
  ASSUME LocalInv, NEW m \in net, NEW x \in net,
         x.r = m.r, x.call = m.call, m.call # "notify"
  PROVE  x = m
<1>1. MessageInv(m) /\ MessageInv(x) /\ m \in Message /\ x \in Message
  BY DEF LocalInv, TypeOK
<1>2. x.count = m.count /\ x.user = m.user
  BY <1>1 DEF MessageInv, Message, Calls
<1>. QED
  BY <1>1, <1>2 DEF Message

LEMMA AllocatesStep ==
  ASSUME LocalInv, NEW m \in net, UsageAllocates(m) PROVE LocalInv'
<1>. USE UsersAssumption, LimitAssumption, BoundsAssumption DEF LocalInv
<1>. DEFINE o == IF m.user \in Dedicated THEN m.user ELSE NoUser
            free == Limit[o] - usage[o]
            count == Smaller(m.count, free)
            grant == [count |-> count, user |-> o, period |-> period[o],
                      some |-> TRUE, full |-> free = 0]
            rep == [has |-> TRUE, count |-> count, user |-> o,
                    just |-> (count = free) /\ ~exhausted[o]]
<1>1. /\ m.call = "allocate" /\ MessageInv(m) /\ m \in Message
      /\ m.r \in Requests /\ RequestInv(m.r)
  BY DEF UsageAllocates, TypeOK, Message
<1>2. m.count \in 0..MaxBatch
  BY <1>1, SubmissionsAssumption DEF MessageInv, TypeOK, SubmissionType
<1>3. o \in Owners /\ free \in Nat /\ period[o] \in 0..MaxPeriod
  BY DEF Owners, TypeOK
<1>4. count \in 0..MaxBatch /\ count <= free
  BY <1>2, <1>3 DEF Smaller
<1>5. /\ usage' = [usage EXCEPT ![o] = @ + count]
      /\ exhausted' = [exhausted EXCEPT ![o] = @ \/ count = free]
      /\ granted' = [granted EXCEPT ![m.r] = grant]
      /\ net' = net \ {m}
      /\ reply' = IF pc[m.r] = "allocate" THEN [reply EXCEPT ![m.r] = rep] ELSE reply
      /\ UNCHANGED <<goroutine, period, released, stale, stream>>
  BY <1>1 DEF UsageAllocates, Deliver, Waits
<1>6. acked' = acked
  BY <1>5 DEF acked, goroutine
<1>7. grant \in Grant /\ rep \in Reply
  BY <1>3, <1>4 DEF Grant, Reply
<1>8. TypeOK'
  <2>1. usage' \in [Owners -> Nat] /\ \A x \in Owners : usage'[x] <= Limit[x]
    BY <1>3, <1>4, <1>5 DEF TypeOK
  <2>. QED
    BY <2>1, <1>5, <1>7 DEF TypeOK, goroutine, stream
<1>9. ASSUME NEW x \in Requests PROVE RequestInv(x)'
  <2>1. RequestInv(x)
    OBVIOUS
  <2>2. CASE x # m.r
    BY <2>1, <2>2, <1>5, <1>6 DEF RequestInv, TypeOK, goroutine, stream, HasPermit
  <2>3. CASE x = m.r
    BY <2>1, <2>3, <1>1, <1>3, <1>4, <1>5, <1>6, SMTT(30)
    DEF RequestInv, MessageInv, TypeOK, goroutine, stream, HasPermit, acked, Result
  <2>. QED
    BY <2>2, <2>3
<1>10. ASSUME NEW x \in net' PROVE MessageInv(x)'
  <2>1. MessageInv(x) /\ x \in Message /\ x \in net /\ x # m
    BY <1>5 DEF TypeOK
  <2>2. CASE x.r # m.r
    BY <2>1, <2>2, <1>5, <1>6 DEF MessageInv, TypeOK, goroutine, stream, Message
  <2>3. CASE x.r = m.r
    <3>1. x.call # "allocate"
      BY <2>1, <2>3, <1>1, OneCall
    <3>. QED
      BY <2>1, <2>3, <3>1, <1>1, <1>5, <1>6 DEF MessageInv, TypeOK, goroutine, stream
  <2>. QED
    BY <2>2, <2>3
<1>. QED
  BY <1>8, <1>9, <1>10

LEMMA ReleasesStep ==
  ASSUME LocalInv, NEW m \in net, UsageReleases(m) PROVE LocalInv'
<1>. USE UsersAssumption, LimitAssumption, BoundsAssumption DEF LocalInv
<1>1. /\ m.call = "release" /\ MessageInv(m) /\ m \in Message
      /\ m.r \in Requests /\ RequestInv(m.r)
  BY DEF UsageReleases, TypeOK, Message
<1>2. /\ granted[m.r] \in Grant /\ acked[m.r] \in 0..MaxBatch
      /\ m.user \in Owners /\ m.count \in 0..MaxBatch
  BY <1>1 DEF TypeOK, Grant, acked, Result, MessageInv, RequestInv, Message
<1>3. /\ usage' = [usage EXCEPT ![m.user] = @ - Smaller(m.count, usage[m.user])]
      /\ stale' = IF granted[m.r].period = period[m.user]
                  THEN stale ELSE [stale EXCEPT ![m.user] = @ + m.count]
      /\ released' = [released EXCEPT ![m.r] = @ + m.count]
      /\ net' = net \ {m}
      /\ reply' = IF pc[m.r] = "release" THEN [reply EXCEPT ![m.r] = Ack(0)] ELSE reply
      /\ UNCHANGED <<goroutine, exhausted, period, granted, stream>>
  BY <1>1 DEF UsageReleases, Deliver, Waits
<1>4. acked' = acked
  BY <1>3 DEF acked, goroutine
<1>5. TypeOK'
  <2>1. usage' \in [Owners -> Nat] /\ \A x \in Owners : usage'[x] <= Limit[x]
    BY <1>2, <1>3 DEF TypeOK, Smaller
  <2>2. released' \in [Requests -> 0..MaxBatch] /\ stale' \in [Owners -> Nat]
    BY <1>1, <1>2, <1>3 DEF TypeOK, MessageInv
  <2>. QED
    BY <2>1, <2>2, <1>3 DEF TypeOK, goroutine, stream, Reply, Ack, Owners
<1>6. ASSUME NEW x \in Requests PROVE RequestInv(x)'
  <2>1. RequestInv(x)
    OBVIOUS
  <2>2. CASE x # m.r
    BY <2>1, <2>2, <1>3, <1>4 DEF RequestInv, TypeOK, goroutine, stream, HasPermit
  <2>3. CASE x = m.r
    BY <2>1, <2>3, <1>1, <1>2, <1>3, <1>4, SMTT(30)
    DEF RequestInv, MessageInv, TypeOK, goroutine, stream, HasPermit, Grant
  <2>. QED
    BY <2>2, <2>3
<1>7. ASSUME NEW x \in net' PROVE MessageInv(x)'
  <2>1. MessageInv(x) /\ x \in Message /\ x \in net /\ x # m
    BY <1>3 DEF TypeOK
  <2>2. x.call = "release" => x.r # m.r
    BY <2>1, <1>1, OneCall
  <2>. QED
    BY <2>1, <2>2, <1>3, <1>4 DEF MessageInv, TypeOK, goroutine, stream, Message
<1>. QED
  BY <1>5, <1>6, <1>7

LEMMA PublishesStep ==
  ASSUME LocalInv, NEW m \in net, EventsPublishes(m) PROVE LocalInv'
<1>. USE UsersAssumption, BoundsAssumption DEF LocalInv
<1>1. /\ m.call = "publish" /\ MessageInv(m) /\ m \in Message
      /\ m.r \in Requests /\ RequestInv(m.r)
  BY DEF EventsPublishes, TypeOK, Message
<1>2. m.count \in 0..MaxBatch
  BY <1>1, SubmissionsAssumption DEF MessageInv, TypeOK, SubmissionType, Grant
<1>3. PICK k \in 0..m.count :
        /\ accepted' = [accepted EXCEPT ![m.r] = @ + k]
        /\ net' = net \ {m}
        /\ reply' = IF pc[m.r] = "publish" THEN [reply EXCEPT ![m.r] = Ack(k)] ELSE reply
        /\ UNCHANGED <<goroutine, usageSvc, noticed>>
  BY <1>1 DEF EventsPublishes, Deliver, Waits
<1>4. acked' = acked /\ k \in 0..MaxBatch /\ Ack(k) \in Reply
  BY <1>2, <1>3 DEF acked, goroutine, Ack, Reply, Owners
<1>5. TypeOK'
  <2>1. accepted' \in [Requests -> 0..MaxBatch]
    BY <1>1, <1>3, <1>4 DEF TypeOK, MessageInv
  <2>. QED
    BY <2>1, <1>3, <1>4 DEF TypeOK, goroutine, usageSvc
<1>6. ASSUME NEW x \in Requests PROVE RequestInv(x)'
  <2>1. RequestInv(x)
    OBVIOUS
  <2>2. CASE x # m.r
    BY <2>1, <2>2, <1>3, <1>4 DEF RequestInv, TypeOK, goroutine, usageSvc, HasPermit
  <2>3. CASE x = m.r
    BY <2>1, <2>3, <1>1, <1>2, <1>3, <1>4, SMTT(30)
    DEF RequestInv, MessageInv, TypeOK, goroutine, usageSvc, HasPermit, Ack, Grant
  <2>. QED
    BY <2>2, <2>3
<1>7. ASSUME NEW x \in net' PROVE MessageInv(x)'
  <2>1. MessageInv(x) /\ x \in Message /\ x \in net /\ x # m
    BY <1>3 DEF TypeOK
  <2>2. x.call = "publish" => x.r # m.r
    BY <2>1, <1>1, OneCall
  <2>. QED
    BY <2>1, <2>2, <1>3, <1>4 DEF MessageInv, TypeOK, goroutine, usageSvc, Message
<1>. QED
  BY <1>5, <1>6, <1>7

LEMMA NotifiesStep ==
  ASSUME LocalInv, NEW m \in net, EventsNotifies(m) PROVE LocalInv'
<1>. USE UsersAssumption, BoundsAssumption DEF LocalInv
<1>1. /\ m.call = "notify" /\ MessageInv(m) /\ m \in Message
      /\ m.r \in Requests /\ RequestInv(m.r)
  BY DEF EventsNotifies, TypeOK, Message
<1>2. PICK k \in 0..m.count :
        /\ net' = net \ {m}
        /\ reply' = IF pc[m.r] = "notify" THEN [reply EXCEPT ![m.r] = Ack(k)] ELSE reply
        /\ noticed' = noticed \cup {m.r}
        /\ UNCHANGED <<goroutine, usageSvc, accepted>>
  BY <1>1 DEF EventsNotifies, Deliver, Waits
<1>3. acked' = acked /\ Ack(k) \in Reply
  BY <1>1, <1>2 DEF acked, goroutine, Ack, Reply, Owners, MessageInv
<1>4. TypeOK'
  BY <1>1, <1>2, <1>3 DEF TypeOK, goroutine, usageSvc
<1>5. ASSUME NEW x \in Requests PROVE RequestInv(x)'
  <2>1. RequestInv(x)
    OBVIOUS
  <2>. QED
    BY <2>1, <1>1, <1>2, <1>3 DEF RequestInv, MessageInv, TypeOK, goroutine, usageSvc, HasPermit
<1>6. ASSUME NEW x \in net' PROVE MessageInv(x)'
  <2>1. MessageInv(x) /\ x \in Message
    BY <1>2 DEF TypeOK
  <2>. QED
    BY <2>1, <1>2, <1>3 DEF MessageInv, TypeOK, goroutine, usageSvc, Message
<1>. QED
  BY <1>4, <1>5, <1>6

LEMMA ResetStep ==
  ASSUME LocalInv, NEW o \in Owners, Reset(o) PROVE LocalInv'
<1>. USE LimitAssumption, BoundsAssumption DEF LocalInv
<1>1. /\ period[o] < MaxPeriod
      /\ period' = [period EXCEPT ![o] = @ + 1]
      /\ usage' = [usage EXCEPT ![o] = 0]
      /\ exhausted' = [exhausted EXCEPT ![o] = FALSE]
      /\ stale' = [stale EXCEPT ![o] = 0]
      /\ UNCHANGED <<goroutine, wire, granted, released, stream>>
      /\ acked' = acked
  BY DEF Reset, acked, goroutine
<1>2. TypeOK'
  <2>1. period' \in [Owners -> 0..MaxPeriod]
    BY <1>1 DEF TypeOK
  <2>2. usage' \in [Owners -> Nat] /\ \A x \in Owners : usage'[x] <= Limit[x]
    BY <1>1 DEF TypeOK
  <2>. QED
    BY <1>1, <2>1, <2>2 DEF TypeOK, goroutine, wire, stream
<1>3. ASSUME NEW x \in Requests PROVE RequestInv(x)'
  <2>1. RequestInv(x) /\ granted[x] \in Grant
    BY DEF TypeOK
  <2>2. granted[x].some => granted[x].period <= period'[granted[x].user]
    BY <1>1, <2>1 DEF RequestInv, TypeOK, Grant
  <2>. QED
    BY <1>1, <2>1, <2>2 DEF RequestInv, goroutine, wire, stream, HasPermit
<1>4. ASSUME NEW x \in net' PROVE MessageInv(x)'
  <2>1. MessageInv(x)
    BY <1>1 DEF wire
  <2>. QED
    BY <2>1, <1>1 DEF MessageInv, goroutine, wire, stream
<1>. QED
  BY <1>2, <1>3, <1>4

LEMMA StutterStep ==
  ASSUME LocalInv, UNCHANGED vars PROVE LocalInv'
<1>1. acked' = acked
  BY DEF vars, acked
<1>. QED
  BY <1>1 DEF LocalInv, vars, TypeOK, RequestInv, MessageInv, HasPermit

LEMMA NextLocal == LocalInv /\ [Next]_vars => LocalInv'
<1>. SUFFICES ASSUME LocalInv, [Next]_vars PROVE LocalInv'
  OBVIOUS
<1>1. ASSUME NEW r \in Requests, Goroutine(r) PROVE LocalInv'
  BY <1>1, SubmitStep, AllocateReturnsStep, FailsStep, NotifyReturnsStep, PublishReturnsStep,
     ReleaseEndsStep DEF Goroutine
<1>2. ASSUME NEW r \in Requests, Crash(r) PROVE LocalInv'
  BY <1>2, CrashStep
<1>3. ASSUME NEW m \in net, Handle(m) PROVE LocalInv'
  BY <1>3, AllocatesStep, ReleasesStep, PublishesStep, NotifiesStep DEF Handle
<1>4. ASSUME NEW o \in Owners, Reset(o) PROVE LocalInv'
  BY <1>4, ResetStep
<1>5. CASE UNCHANGED vars
  BY <1>5, StutterStep
<1>. QED
  BY <1>1, <1>2, <1>3, <1>4, <1>5 DEF Next, Terminating

(* Every variable keeps its type: no count wraps around, no counter passes *)
(* its limit, whatever is lost or late.                                    *)
THEOREM TypeCorrect == Spec => []TypeOK
<1>1. LocalInv => TypeOK
  BY DEF LocalInv
<1>. QED
  BY InitLocal, NextLocal, <1>1, PTL DEF Spec

(* The stream never gets more events of a batch than were granted.         *)
THEOREM PublishedWithinPermitHolds == Spec => []PublishedWithinPermit
<1>1. LocalInv => PublishedWithinPermit
  BY DEF LocalInv, RequestInv, PublishedWithinPermit
<1>. QED
  BY InitLocal, NextLocal, <1>1, PTL DEF Spec

(***************************************************************************)
(* The counters                                                            *)
(***************************************************************************)

LEMMA UnitsFinite ==
  ASSUME NEW S \in SUBSET (Requests \X (1..MaxBatch))
  PROVE  IsFiniteSet(S) /\ Cardinality(S) \in Nat
<1>1. IsFiniteSet(1..MaxBatch)
  BY FS_Interval, BoundsAssumption
<1>2. IsFiniteSet(Requests \X (1..MaxBatch))
  BY <1>1, FS_Product, RequestsAssumption
<1>. QED
  BY <1>2, FS_Subset, FS_CardinalityType

(* The units lo, ..., hi of one request.                                   *)
LEMMA ColumnCardinality ==
  ASSUME NEW r, NEW lo \in Int, NEW hi \in Int, lo <= hi + 1
  PROVE  IsFiniteSet({r} \X (lo..hi)) /\ Cardinality({r} \X (lo..hi)) = hi - lo + 1
<1>1. IsFiniteSet(lo..hi) /\ Cardinality(lo..hi) = hi - lo + 1
  <2>1. IsFiniteSet(lo..hi) /\ Cardinality(lo..hi) = IF lo > hi THEN 0 ELSE hi - lo + 1
    BY FS_Interval
  <2>. QED
    BY <2>1
<1>2. IsFiniteSet({r}) /\ Cardinality({r}) = 1
  BY FS_Singleton
<1>3. Cardinality({r} \X (lo..hi)) = Cardinality({r}) * Cardinality(lo..hi)
      /\ IsFiniteSet({r} \X (lo..hi))
  BY <1>1, <1>2, FS_Product
<1>. QED
  BY <1>1, <1>2, <1>3

LEMMA TailCardinality ==
  ASSUME NEW r, NEW a \in Nat, NEW b \in Nat, a <= b
  PROVE  IsFiniteSet({r} \X (a+1..b)) /\ Cardinality({r} \X (a+1..b)) = b - a
<1>. DEFINE lo == a + 1
<1>1. lo \in Int /\ b \in Int /\ lo <= b + 1 /\ b - lo + 1 = b - a
  OBVIOUS
<1>. HIDE DEF lo
<1>2. IsFiniteSet({r} \X (lo..b)) /\ Cardinality({r} \X (lo..b)) = b - lo + 1
  BY <1>1, ColumnCardinality
<1>3. IsFiniteSet({r} \X (lo..b)) /\ Cardinality({r} \X (lo..b)) = b - a
  BY <1>1, <1>2
<1>. QED
  BY <1>3 DEF lo

LEMMA HeadCardinality ==
  ASSUME NEW r, NEW b \in Nat
  PROVE  IsFiniteSet({r} \X (1..b)) /\ Cardinality({r} \X (1..b)) = b
<1>. DEFINE lo == 1
<1>1. lo \in Int /\ b \in Int /\ lo <= b + 1 /\ b - lo + 1 = b
  OBVIOUS
<1>. HIDE DEF lo
<1>2. IsFiniteSet({r} \X (lo..b)) /\ Cardinality({r} \X (lo..b)) = b - lo + 1
  BY <1>1, ColumnCardinality
<1>3. IsFiniteSet({r} \X (lo..b)) /\ Cardinality({r} \X (lo..b)) = b
  BY <1>1, <1>2
<1>. QED
  BY <1>3 DEF lo

LEMMA DisjointCardinality ==
  ASSUME NEW S, NEW T, IsFiniteSet(S), IsFiniteSet(T), S \cap T = {}
  PROVE  Cardinality(S \cup T) = Cardinality(S) + Cardinality(T)
<1>1. Cardinality(S \cap T) = 0
  BY FS_EmptySet
<1>2. Cardinality(S) \in Nat /\ Cardinality(T) \in Nat
  BY FS_CardinalityType
<1>3. Cardinality(S \cup T) = Cardinality(S) + Cardinality(T) - Cardinality(S \cap T)
  BY FS_Union
<1>. QED
  BY <1>1, <1>2, <1>3

OwnerCounted(o) ==
  /\ usage[o] <= Cardinality(Units(o, held))
  /\ Cardinality(Units(o, held)) <= usage[o] + stale[o]

LEMMA InitCovered == Init => CountedIsHeld
<1>. SUFFICES ASSUME Init, NEW o \in Owners PROVE OwnerCounted(o)
  BY DEF CountedIsHeld, OwnerCounted
<1>1. Units(o, held) = {}
  BY DEF Units, Init, NoGrant
<1>. QED
  BY <1>1, FS_EmptySet DEF Init, OwnerCounted

(* Steps that leave the grants, the periods and the counters alone.        *)
LEMMA CoveredFrame ==
  ASSUME CountedIsHeld, UNCHANGED <<usage, stale, granted, period, released>>
  PROVE  CountedIsHeld'
BY DEF CountedIsHeld, Units, held

LEMMA AllocatesCovered ==
  ASSUME Inv, NEW m \in net, UsageAllocates(m) PROVE CountedIsHeld'
<1>. USE UsersAssumption, LimitAssumption, BoundsAssumption DEF Inv, LocalInv
<1>. DEFINE o == IF m.user \in Dedicated THEN m.user ELSE NoUser
            free == Limit[o] - usage[o]
            count == Smaller(m.count, free)
            grant == [count |-> count, user |-> o, period |-> period[o],
                      some |-> TRUE, full |-> free = 0]
            Column == {m.r} \X (1..count)
<1>1. /\ m.call = "allocate" /\ MessageInv(m) /\ m \in Message
      /\ m.r \in Requests /\ RequestInv(m.r)
  BY DEF UsageAllocates, TypeOK, Message
<1>2. m.count \in 0..MaxBatch
  BY <1>1, SubmissionsAssumption DEF MessageInv, TypeOK, SubmissionType
<1>3. o \in Owners /\ free \in Nat /\ period[o] \in 0..MaxPeriod
  BY DEF Owners, TypeOK
<1>4. count \in 0..MaxBatch
  BY <1>2, <1>3 DEF Smaller
<1>5. /\ usage' = [usage EXCEPT ![o] = @ + count]
      /\ granted' = [granted EXCEPT ![m.r] = grant]
      /\ UNCHANGED <<period, released, stale>>
  BY <1>1 DEF UsageAllocates
<1>6. ~granted[m.r].some /\ released[m.r] = 0
  <2>1. acked[m.r] \in 0..MaxBatch /\ released[m.r] \in 0..MaxBatch
    BY <1>1 DEF acked, TypeOK, Result
  <2>. QED
    BY <2>1, <1>1 DEF MessageInv, RequestInv
<1>7. ASSUME NEW x \in Owners PROVE OwnerCounted(x)'
  <2>1. OwnerCounted(x)
    BY DEF CountedIsHeld, OwnerCounted
  <2>2. Units(x, held) \in SUBSET (Requests \X (1..MaxBatch))
    BY DEF Units
  <2>3. CASE x # o
    <3>1. Units(x, held)' = Units(x, held)
      BY <2>3, <1>1, <1>5, <1>6 DEF Units, held, TypeOK
    <3>. QED
      BY <3>1, <2>1, <2>3, <1>3, <1>5 DEF TypeOK, OwnerCounted
  <2>4. CASE x = o
    <3>1. held'[m.r] = count
      BY <1>1, <1>4, <1>5, <1>6 DEF held, TypeOK
    <3>2. \A r \in Requests : r # m.r => held'[r] = held[r] /\ granted'[r] = granted[r]
      BY <1>5 DEF held, TypeOK
    <3>3. granted'[m.r] = grant /\ period' = period
      BY <1>1, <1>5 DEF TypeOK
    <3>4. Units(x, held)' = Units(x, held) \cup Column
      BY <2>4, <3>1, <3>2, <3>3, <1>1, <1>4, <1>6 DEF Units
    <3>5. Units(x, held) \cap Column = {}
      BY <1>6 DEF Units
    <3>6. IsFiniteSet(Column) /\ Cardinality(Column) = count
      <4>1. count \in Nat
        BY <1>4
      <4>. HIDE DEF count
      <4>. QED
        BY <4>1, HeadCardinality
    <3>7. Cardinality(Units(x, held)') = Cardinality(Units(x, held)) + count
      BY <2>2, <3>4, <3>5, <3>6, UnitsFinite, DisjointCardinality
    <3>8. usage'[x] = usage[x] + count /\ stale'[x] = stale[x]
      BY <2>4, <1>3, <1>5 DEF TypeOK
    <3>. QED
      BY <2>1, <2>2, <3>7, <3>8, <1>4, UnitsFinite DEF TypeOK, OwnerCounted
  <2>. QED
    BY <2>3, <2>4
<1>. QED
  BY <1>7 DEF CountedIsHeld, OwnerCounted

LEMMA ReleasesCovered ==
  ASSUME Inv, NEW m \in net, UsageReleases(m) PROVE CountedIsHeld'
<1>. USE UsersAssumption, LimitAssumption, BoundsAssumption DEF Inv, LocalInv
<1>. DEFINE o == m.user
            before == granted[m.r].count
            after == granted[m.r].count - m.count
            Column == {m.r} \X (after+1..before)
<1>1. /\ m.call = "release" /\ MessageInv(m) /\ m \in Message
      /\ m.r \in Requests /\ RequestInv(m.r)
  BY DEF UsageReleases, TypeOK, Message
<1>2. /\ granted[m.r] \in Grant /\ acked[m.r] \in 0..MaxBatch
      /\ released[m.r] = 0 /\ granted[m.r].some /\ granted[m.r].user = o
      /\ m.count = before - acked[m.r]
      /\ released[m.r] + acked[m.r] <= before
  BY <1>1 DEF TypeOK, Grant, acked, Result, MessageInv, RequestInv
<1>3. /\ o \in Owners /\ before \in 0..MaxBatch /\ m.count \in 0..MaxBatch
      /\ after \in 0..MaxBatch /\ after <= before
  BY <1>2 DEF Grant
<1>4. /\ usage' = [usage EXCEPT ![o] = @ - Smaller(m.count, usage[o])]
      /\ stale' = IF granted[m.r].period = period[o]
                  THEN stale ELSE [stale EXCEPT ![o] = @ + m.count]
      /\ released' = [released EXCEPT ![m.r] = @ + m.count]
      /\ UNCHANGED <<period, granted>>
  BY <1>1 DEF UsageReleases
<1>5. held[m.r] = before /\ held'[m.r] = after
  BY <1>1, <1>2, <1>3, <1>4 DEF held, TypeOK
<1>6. \A r \in Requests : r # m.r => held'[r] = held[r]
  BY <1>4 DEF held, TypeOK
<1>7. ASSUME NEW x \in Owners PROVE OwnerCounted(x)'
  <2>1. OwnerCounted(x)
    BY DEF CountedIsHeld, OwnerCounted
  <2>2. /\ Units(x, held) \in SUBSET (Requests \X (1..MaxBatch))
        /\ Units(x, held)' \in SUBSET (Requests \X (1..MaxBatch))
    BY DEF Units
  <2>3. usage[x] \in Nat /\ stale[x] \in Nat
    BY DEF TypeOK
  <2>4. CASE x # o \/ granted[m.r].period # period[o]
    <3>1. Units(x, held)' = Units(x, held)
      BY <2>4, <1>2, <1>4, <1>6 DEF Units
    <3>2. usage[x] + stale[x] <= usage'[x] + stale'[x] /\ usage'[x] <= usage[x]
      BY <2>3, <2>4, <1>3, <1>4 DEF TypeOK, Smaller
    <3>3. usage'[x] \in Int /\ stale'[x] \in Int
      BY <2>3, <1>3, <1>4 DEF TypeOK, Smaller
    <3>. QED
      BY <2>1, <2>2, <2>3, <3>1, <3>2, <3>3, UnitsFinite DEF OwnerCounted
  <2>5. CASE x = o /\ granted[m.r].period = period[o]
    <3>1. Units(x, held) = Units(x, held)' \cup Column
      BY <2>5, <1>1, <1>2, <1>3, <1>4, <1>5, <1>6 DEF Units
    <3>2. Units(x, held)' \cap Column = {}
      BY <1>3, <1>5 DEF Units
    <3>3. IsFiniteSet(Column) /\ Cardinality(Column) = m.count
      <4>1. /\ before \in Nat /\ after \in Nat /\ after <= before
            /\ m.count = before - after
        BY <1>3
      <4>. HIDE DEF before, after
      <4>2. IsFiniteSet(Column) /\ Cardinality(Column) = before - after
        BY <4>1, TailCardinality
      <4>. QED
        BY <4>1, <4>2
    <3>4. Cardinality(Units(x, held)) = Cardinality(Units(x, held)') + m.count
      BY <2>2, <3>1, <3>2, <3>3, UnitsFinite, DisjointCardinality
    <3>5. /\ usage[x] - m.count <= usage'[x] /\ stale'[x] = stale[x]
          /\ usage'[x] = usage[x] - m.count \/ usage'[x] = 0
      BY <2>3, <2>5, <1>3, <1>4 DEF TypeOK, Smaller
    <3>. QED
      BY <2>1, <2>2, <2>3, <3>4, <3>5, <1>3, UnitsFinite DEF OwnerCounted
  <2>. QED
    BY <2>4, <2>5
<1>. QED
  BY <1>7 DEF CountedIsHeld, OwnerCounted

LEMMA ResetCovered ==
  ASSUME Inv, NEW o \in Owners, Reset(o) PROVE CountedIsHeld'
<1>. USE BoundsAssumption DEF Inv, LocalInv
<1>1. /\ period' = [period EXCEPT ![o] = @ + 1]
      /\ usage' = [usage EXCEPT ![o] = 0] /\ stale' = [stale EXCEPT ![o] = 0]
      /\ UNCHANGED <<granted, released>>
  BY DEF Reset
<1>2. ASSUME NEW x \in Owners PROVE OwnerCounted(x)'
  <2>1. CASE x # o
    <3>1. Units(x, held)' = Units(x, held)
      BY <2>1, <1>1 DEF Units, held, TypeOK
    <3>. QED
      BY <2>1, <3>1, <1>1 DEF CountedIsHeld, OwnerCounted, TypeOK
  <2>2. CASE x = o
    <3>1. \A r \in Requests : granted[r].some /\ granted[r].user = o => granted[r].period # period'[o]
      BY <1>1 DEF RequestInv, TypeOK, Grant
    <3>2. Units(x, held)' = {}
      BY <2>2, <3>1, <1>1 DEF Units
    <3>. QED
      BY <2>2, <3>2, <1>1, FS_EmptySet DEF TypeOK, OwnerCounted
  <2>. QED
    BY <2>1, <2>2
<1>. QED
  BY <1>2 DEF CountedIsHeld, OwnerCounted

LEMMA NextInv == Inv /\ [Next]_vars => Inv'
<1>. SUFFICES ASSUME Inv, [Next]_vars PROVE CountedIsHeld'
  BY NextLocal DEF Inv
<1>. USE DEF Inv
<1>1. ASSUME NEW r \in Requests, Goroutine(r) PROVE CountedIsHeld'
  <2>1. UNCHANGED usageSvc
    BY <1>1 DEF Goroutine, Submit, AllocateReturns, AllocateFails, NotifyReturns, NotifyFails,
                PublishReturns, PublishFails, ReleaseEnds
  <2>. QED
    BY <2>1, CoveredFrame DEF usageSvc
<1>2. ASSUME NEW r \in Requests, Crash(r) PROVE CountedIsHeld'
  BY <1>2, CoveredFrame DEF Crash, usageSvc
<1>3. ASSUME NEW m \in net, Handle(m) PROVE CountedIsHeld'
  <2>1. CASE UsageAllocates(m)
    BY <2>1, AllocatesCovered
  <2>2. CASE UsageReleases(m)
    BY <2>2, ReleasesCovered
  <2>3. CASE EventsPublishes(m) \/ EventsNotifies(m)
    BY <2>3, CoveredFrame DEF EventsPublishes, EventsNotifies, usageSvc
  <2>. QED
    BY <1>3, <2>1, <2>2, <2>3 DEF Handle
<1>4. ASSUME NEW o \in Owners, Reset(o) PROVE CountedIsHeld'
  BY <1>4, ResetCovered
<1>5. CASE UNCHANGED vars
  BY <1>5, CoveredFrame DEF vars
<1>. QED
  BY <1>1, <1>2, <1>3, <1>4, <1>5 DEF Next, Terminating

LEMMA InvHolds == Spec => []Inv
<1>1. Init => Inv
  BY InitLocal, InitCovered DEF Inv
<1>. QED
  BY <1>1, NextInv, PTL DEF Spec

(* Whatever fails, is lost, is late or dies, an owner is charged for what  *)
(* his requests hold, and for nothing else.                                *)
THEOREM CountedIsHeldHolds == Spec => []CountedIsHeld
<1>1. Inv => CountedIsHeld
  BY DEF Inv
<1>. QED
  BY <1>1, InvHolds, PTL

(* Whatever fails, is lost, is late or dies, the events acknowledged to    *)
(* clients stay within the limit of the period and what was given back too *)
(* late: they are a part of what their requests hold.                      *)
THEOREM AckedWithinLimitHolds == Spec => []AckedWithinLimit
<1>1. Inv => AckedWithinLimit
  <2>. SUFFICES ASSUME Inv, NEW o \in Owners
                PROVE  Cardinality(Units(o, acked)) <= Limit[o] + stale[o]
    BY DEF AckedWithinLimit
  <2>. USE LimitAssumption, BoundsAssumption DEF Inv, LocalInv
  <2>1. ASSUME NEW r \in Requests, granted[r].some PROVE acked[r] <= held[r]
    <3>1. RequestInv(r) /\ ~req[r].internal
      BY <2>1 DEF RequestInv
    <3>. QED
      BY <3>1 DEF RequestInv, held, acked, TypeOK, Grant, Result
  <2>2. /\ \A r \in Requests : acked[r] \in Int /\ held[r] \in Int
        /\ usage[o] \in Nat /\ stale[o] \in Nat /\ usage[o] <= Limit[o]
    BY DEF acked, held, TypeOK, Grant, Result
  <2>3. Units(o, acked) \subseteq Units(o, held)
    BY <2>1, <2>2 DEF Units
  <2>4. Cardinality(Units(o, acked)) <= Cardinality(Units(o, held))
    <3>1. Units(o, held) \in SUBSET (Requests \X (1..MaxBatch))
      BY DEF Units
    <3>. QED
      BY <2>3, <3>1, UnitsFinite, FS_Subset
  <2>5. /\ Cardinality(Units(o, held)) <= usage[o] + stale[o]
        /\ Cardinality(Units(o, held)) \in Nat /\ Cardinality(Units(o, acked)) \in Nat
    BY UnitsFinite DEF CountedIsHeld, Units
  <2>. QED
    BY <2>2, <2>4, <2>5
<1>. QED
  BY <1>1, InvHolds, PTL
=============================================================================
