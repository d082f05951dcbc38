----------------------- MODULE PublisherReturnsProofs -----------------------
(***************************************************************************)
(* The safety behind PermitsReturned: a request that is answered has given *)
(* back what it did not use, so that, once all are answered, what is       *)
(* counted against an owner is what he has in the stream.  That all are    *)
(* answered in the end is left to the runs.                                *)
(***************************************************************************)
EXTENDS PublisherStreamProofs

(* Release does not fail, a failed Allocate granted nothing.               *)
Returning == "release" \notin Failing /\ "allocate" \notin Lossy

GivenBack(r) == released[r] + acked[r] = granted[r].count

(* A release that was answered gave back what was not acknowledged; a      *)
(* request that is done gave it back, and nothing is granted to it any     *)
(* more.                                                                   *)
ReturnInv(r) ==
  /\ pc[r] = "release" /\ reply[r].has => GivenBack(r)
  /\ pc[r] = "done" /\ ~req[r].internal => GivenBack(r) /\ ~OnWire(r, "allocate")

LEMMA SameReturned ==
  ASSUME NEW r \in Requests, Same(r), ReturnInv(r) PROVE ReturnInv(r)'
<1>1. OnWire(r, "allocate")' <=> OnWire(r, "allocate")
  BY DEF Same, SameWire, OnWire
<1>2. acked'[r] = acked[r]
  BY DEF Same, acked
<1>. QED
  BY <1>1, <1>2 DEF Same, ReturnInv, GivenBack

(* The submission ends: what is left of the permit is released, or nothing *)
(* is left.                                                                *)
LEMMA SettleReturned ==
  ASSUME LocalInv, NEW r \in Requests, NEW left \in SUBSET net, NEW p \in Permit,
         NEW ack \in 0..MaxBatch, NEW code,
         code = "OK" => ack <= p.count, p.count = granted[r].count,
         pc[r] \in {"allocate", "notify", "publish"},
         \A m \in left : ~(m.r = r /\ m.call = "allocate"),
         Settle(r, left, p, ack, code), UNCHANGED <<req, granted, released>>,
         reply'[r] = NoReply
  PROVE  ReturnInv(r)'
<1>. DEFINE used == IF code = "OK" THEN ack ELSE 0
<1>1. TypeOK /\ released[r] = 0 /\ p.count \in 0..MaxBatch
  BY DEF LocalInv, RequestInv, Permit
<1>2. used \in 0..MaxBatch /\ used <= p.count /\ Minus(p.count, used) = p.count - used
  BY <1>1, BoundsAssumption DEF Minus
<1>3. acked'[r] = used
  BY <1>1 DEF Settle, acked, TypeOK
<1>4. CASE p.count - used > 0 /\ \E n : Call(r, left, "release", p.user, n)
  BY <1>1, <1>4 DEF Call, ReturnInv, TypeOK, NoReply
<1>5. CASE p.count - used = 0 /\ Respond(r, left, ack, code)
  <2>1. released'[r] + acked'[r] = granted'[r].count
    BY <1>1, <1>2, <1>3, <1>5, BoundsAssumption
  <2>2. ~OnWire(r, "allocate")' /\ pc'[r] = "done"
    BY <1>1, <1>5 DEF Respond, OnWire, TypeOK
  <2>. QED
    BY <2>1, <2>2 DEF ReturnInv, GivenBack
<1>. QED
  BY <1>2, <1>4, <1>5 DEF Settle

(* Once Allocate was answered no other one of the request is on the wire.  *)
LEMMA NoMoreGrants ==
  ASSUME LocalInv, NEW r \in Requests,
         pc[r] \in {"notify", "publish", "release"} \/ granted[r].some
  PROVE  \A m \in net : ~(m.r = r /\ m.call = "allocate")
BY DEF LocalInv, MessageInv

(* Another call of the same submission.                                    *)
LEMMA CallReturned ==
  ASSUME TypeOK, NEW r \in Requests, NEW left, NEW call \in Calls \ {"release"}, NEW user,
         NEW count, Call(r, left, call, user, count)
  PROVE  ReturnInv(r)'
BY DEF Call, ReturnInv, TypeOK, Calls

LEMMA ApplyPermitReturned ==
  ASSUME LocalInv, NEW r \in Requests, NEW p \in Permit, p.count = granted[r].count,
         pc[r] \in {"allocate", "notify"}, granted[r].some,
         NEW ack \in 0..MaxBatch, applyPermit(r, net, p, ack),
         UNCHANGED <<req, granted, released>>, reply'[r] = NoReply
  PROVE  ReturnInv(r)'
<1>1. CASE Settle(r, net, p, ack, "ResourceExhausted")
  <2>1. \A m \in net : ~(m.r = r /\ m.call = "allocate")
    BY NoMoreGrants
  <2>. QED
    BY <1>1, <2>1, SettleReturned
<1>2. CASE PublishBatch(r, net, p, ack, p.count)
  BY <1>2, CallReturned DEF PublishBatch, Calls, LocalInv
<1>. QED
  BY <1>1, <1>2 DEF applyPermit

LEMMA GoroutineReturned ==
  ASSUME Returning, LocalInv, NEW r \in Requests, ReturnInv(r), Goroutine(r)
  PROVE  ReturnInv(r)'
<1>. USE DEF LocalInv
<1>1. /\ TypeOK /\ RequestInv(r) /\ UNCHANGED <<req, granted, released>>
      /\ permit[r] \in Permit /\ 0 \in 0..MaxBatch
  BY BoundsAssumption
  DEF Goroutine, Submit, AllocateReturns, AllocateFails, NotifyReturns, NotifyFails,
      PublishReturns, PublishFails, ReleaseEnds, usageSvc, TypeOK
<1>2. CASE Submit(r)
  BY <1>1, <1>2, CallReturned DEF Submit, Calls
<1>3. CASE AllocateReturns(r)
  <2>. DEFINE p == [count |-> reply[r].count, user |-> reply[r].user, just |-> reply[r].just]
  <2>1. /\ pc[r] = "allocate" /\ reply'[r] = NoReply /\ granted[r].some
        /\ p.count = granted[r].count /\ p \in Permit
    BY <1>1, <1>3 DEF AllocateReturns, Answered, Waits, TypeOK, RequestInv, Reply, Permit
  <2>2. CASE Call(r, net, "notify", p.user, 1)
    BY <1>1, <2>2, CallReturned DEF Calls
  <2>3. CASE applyPermit(r, net, p, 0)
    BY <1>1, <2>1, <2>3, ApplyPermitReturned
  <2>. QED
    BY <1>3, <2>2, <2>3 DEF AllocateReturns
<1>4. CASE AllocateFails(r)
  <2>1. PICK m \in net : /\ m.r = r /\ m.call = "allocate"
                         /\ \E c \in Codes : Settle(r, net \ {m}, NoPermit, 0, encodeError(c))
    BY <1>4 DEF AllocateFails, Leftovers, Returning
  <2>2. PICK c \in Codes : Settle(r, net \ {m}, NoPermit, 0, encodeError(c))
    BY <2>1
  <2>3. MessageInv(m) /\ pc[r] = "allocate" /\ reply'[r] = NoReply
    BY <1>1, <1>4 DEF AllocateFails, Waits, TypeOK
  <2>4. NoPermit.count = granted[r].count /\ NoPermit \in Permit
    BY <1>1, <2>1, <2>3, UsersAssumption DEF MessageInv, RequestInv, NoPermit, Permit, Owners
  <2>5. \A x \in net \ {m} : ~(x.r = r /\ x.call = "allocate")
    BY <2>1, OneCall
  <2>6. encodeError(c) # "OK" /\ net \ {m} \in SUBSET net
    BY DEF encodeError
  <2>. QED
    BY <1>1, <2>2, <2>3, <2>4, <2>5, <2>6, SettleReturned
<1>5. CASE NotifyReturns(r)
  <2>1. /\ pc[r] = "notify" /\ reply'[r] = NoReply /\ granted[r].some
        /\ permit[r].count = granted[r].count /\ reply[r].count \in 0..MaxBatch
        /\ applyPermit(r, net, permit[r], reply[r].count)
    BY <1>1, <1>5 DEF NotifyReturns, Answered, Waits, TypeOK, RequestInv, HasPermit, Reply
  <2>. QED
    BY <1>1, <2>1, ApplyPermitReturned
<1>6. CASE NotifyFails(r)
  <2>1. PICK left \in SUBSET net, c \in Codes : Settle(r, left, permit[r], 0, c)
    BY <1>6, LeftoversSubset DEF NotifyFails
  <2>2. pc[r] = "notify" /\ reply'[r] = NoReply /\ permit[r].count = granted[r].count
    BY <1>1, <1>6 DEF NotifyFails, Waits, TypeOK, RequestInv, HasPermit
  <2>3. c # "OK" /\ \A m \in left : ~(m.r = r /\ m.call = "allocate")
    BY <2>2, NoMoreGrants, FaultsAssumption DEF ErrorCodes
  <2>. QED
    BY <1>1, <2>1, <2>2, <2>3, SettleReturned
<1>7. CASE PublishReturns(r) \/ PublishFails(r)
  <2>1. pc[r] = "publish" /\ reply'[r] = NoReply
    BY <1>1, <1>7 DEF PublishReturns, PublishFails, Answered, Waits, TypeOK
  <2>2. CASE req[r].internal
    <3>1. \E left : \E ack : \E code : Respond(r, left, ack, code)
      BY <1>7, <2>2 DEF PublishReturns, PublishFails
    <3>2. pc'[r] = "done"
      BY <1>1, <3>1 DEF Respond, TypeOK
    <3>. QED
      BY <1>1, <2>2, <3>2 DEF ReturnInv
  <2>3. CASE ~req[r].internal
    <3>1. permit[r].count = granted[r].count
      BY <1>1, <2>1, <2>3 DEF RequestInv, HasPermit
    <3>2. \A m \in net : ~(m.r = r /\ m.call = "allocate")
      BY <2>1, NoMoreGrants
    <3>3. CASE PublishReturns(r)
      <4>1. /\ reply[r].count \in 0..MaxBatch /\ reply[r].count <= permit[r].count
            /\ Settle(r, net, permit[r], reply[r].count, "OK") /\ net \in SUBSET net
        BY <1>1, <2>1, <2>3, <3>1, <3>3
        DEF PublishReturns, Answered, RequestInv, TypeOK, Reply
      <4>. QED
        BY <1>1, <2>1, <3>1, <3>2, <4>1, SettleReturned
    <3>4. CASE PublishFails(r)
      <4>1. PICK left \in SUBSET net, c \in Codes :
              Settle(r, left, permit[r], resp[r].ack, c)
        BY <2>3, <3>4, LeftoversSubset DEF PublishFails
      <4>2. /\ c # "OK" /\ resp[r].ack \in 0..MaxBatch
            /\ \A m \in left : ~(m.r = r /\ m.call = "allocate")
        BY <1>1, <3>2, FaultsAssumption DEF ErrorCodes, TypeOK, Result
      <4>. QED
        BY <1>1, <2>1, <3>1, <4>1, <4>2, SettleReturned
    <3>. QED
      BY <1>7, <3>3, <3>4
  <2>. QED
    BY <2>2, <2>3
<1>8. CASE ReleaseEnds(r)
  <2>1. pc[r] = "release" /\ reply[r].has /\ Respond(r, net, resp[r].ack, resp[r].code)
        /\ UNCHANGED resp
    BY <1>8, FaultsAssumption DEF ReleaseEnds, Leftovers, Returning, Waits
  <2>2. pc'[r] = "done" /\ net' = net /\ acked' = acked
    BY <1>1, <2>1 DEF Respond, TypeOK, acked
  <2>3. ~OnWire(r, "allocate")
    BY <2>1, NoMoreGrants DEF OnWire
  <2>. QED
    BY <1>1, <2>1, <2>2, <2>3 DEF ReturnInv, GivenBack, OnWire
<1>. QED
  BY <1>2, <1>3, <1>4, <1>5, <1>6, <1>7, <1>8 DEF Goroutine

LEMMA CrashReturned ==
  ASSUME LocalInv, NEW r \in Requests, Crash(r) PROVE ReturnInv(r)'
BY DEF Crash, ReturnInv, LocalInv, TypeOK

LEMMA HandleReturned ==
  ASSUME LocalInv, NEW m \in net, Handle(m), ReturnInv(m.r) PROVE ReturnInv(m.r)'
<1>. USE DEF LocalInv
<1>1. /\ m.r \in Requests /\ m \in Message /\ TypeOK /\ net' = net \ {m}
      /\ MessageInv(m) /\ RequestInv(m.r)
      /\ acked' = acked /\ UNCHANGED <<pc, req>>
  BY DEF TypeOK, Message, Handle, UsageAllocates, UsageReleases, EventsPublishes,
         EventsNotifies, Deliver, goroutine, acked
<1>2. CASE UsageAllocates(m)
  <2>1. pc[m.r] \in {"allocate", "crashed"}
    BY <1>1, <1>2 DEF UsageAllocates, MessageInv, ReturnInv, OnWire
  <2>. QED
    BY <1>1, <2>1 DEF ReturnInv
<1>3. CASE UsageReleases(m)
  <2>1. /\ released'[m.r] = granted[m.r].count - acked[m.r] /\ granted' = granted
        /\ acked[m.r] \in Int /\ granted[m.r].count \in Int
    BY <1>1, <1>3 DEF UsageReleases, MessageInv, TypeOK, Grant, acked, Result
  <2>2. GivenBack(m.r)'
    BY <1>1, <2>1 DEF GivenBack
  <2>. QED
    BY <1>1, <2>2 DEF ReturnInv, OnWire
<1>4. CASE EventsPublishes(m) \/ EventsNotifies(m)
  <2>1. UNCHANGED <<granted, released>>
    BY <1>4 DEF EventsPublishes, EventsNotifies, usageSvc
  <2>2. pc[m.r] = "release" => reply'[m.r] = reply[m.r]
    BY <1>4 DEF EventsPublishes, EventsNotifies, Deliver, Waits
  <2>. QED
    BY <1>1, <2>1, <2>2 DEF ReturnInv, GivenBack, OnWire
<1>. QED
  BY <1>2, <1>3, <1>4 DEF Handle

AllReturned == \A r \in Requests : ReturnInv(r)

LEMMA NextReturned ==
  ASSUME Returning, LocalInv, AllReturned, [Next]_vars PROVE AllReturned'
<1>. SUFFICES ASSUME NEW x \in Requests PROVE ReturnInv(x)'
  BY DEF AllReturned
<1>1. TypeOK /\ ReturnInv(x)
  BY DEF LocalInv, AllReturned
<1>2. ASSUME NEW r \in Requests, Goroutine(r) PROVE ReturnInv(x)'
  BY <1>1, <1>2, GoroutineReturned, GoroutineOthers, SameReturned
<1>3. ASSUME NEW r \in Requests, Crash(r) PROVE ReturnInv(x)'
  BY <1>1, <1>3, CrashReturned, CrashOthers, SameReturned
<1>4. ASSUME NEW m \in net, Handle(m) PROVE ReturnInv(x)'
  BY <1>1, <1>4, HandleReturned, HandleOthers, SameReturned
<1>5. ASSUME NEW o \in Owners, Reset(o) PROVE ReturnInv(x)'
  BY <1>1, <1>5, ResetOthers, SameReturned
<1>6. CASE UNCHANGED vars
  BY <1>1, <1>6, StutterSame, SameReturned
<1>. QED
  BY <1>2, <1>3, <1>4, <1>5, <1>6 DEF Next, Terminating

LEMMA ReturnedHolds ==
  ASSUME Refusing, Returning PROVE Spec => [](StreamInv /\ ReturnedWhenAnswered)
<1>1. Init => LocalInv /\ AllReturned
  <2>1. Init => AllReturned
    BY DEF Init, AllReturned, ReturnInv
  <2>. QED
    BY <2>1, InitLocal
<1>2. LocalInv /\ AllReturned /\ [Next]_vars => (LocalInv /\ AllReturned)'
  BY NextLocal, NextReturned
<1>3. StreamInv /\ AllReturned => ReturnedWhenAnswered
  BY DEF StreamInv, Known, OutcomeInv, Settled, AllReturned, ReturnInv, GivenBack,
         ReturnedWhenAnswered
<1>. QED
  BY <1>1, <1>2, <1>3, StreamHolds, PTL DEF Spec

(* As long as Release does not fail and a failed Allocate or PublishBatch  *)
(* was not executed, an answered request keeps of its permit just what it  *)
(* has in the stream, whatever else fails, is reset or dies.               *)
THEOREM ReturnedWhenAnsweredHolds ==
  ASSUME Refusing, Returning PROVE Spec => []ReturnedWhenAnswered
BY ReturnedHolds, PTL

(* What PermitsReturned says of the state it leads to.                     *)
CountersRight == \A o \in Owners : usage[o] = Cardinality(Units(o, accepted))

(* Then, within one period, the counters are right as soon as all requests *)
(* are answered: what is left of PermitsReturned is that they are.         *)
THEOREM CountersRightWhenAnswered ==
  ASSUME Refusing, Returning, MaxPeriod = 0
  PROVE  Spec => []((\A r \in Requests : pc[r] = "done") => CountersRight)
<1>1. Init => OnePeriod
  BY DEF Init, OnePeriod
<1>2. StreamInv /\ OnePeriod /\ [Next]_vars => OnePeriod'
  BY NextOnePeriod DEF StreamInv, Inv
<1>3. /\ StreamInv /\ OnePeriod /\ ReturnedWhenAnswered
      => ((\A r \in Requests : pc[r] = "done") => CountersRight)
  <2>. SUFFICES ASSUME StreamInv, OnePeriod, ReturnedWhenAnswered, NEW o \in Owners,
                       \A r \in Requests : pc[r] = "done"
                PROVE  usage[o] = Cardinality(Units(o, accepted))
    BY DEF CountersRight
  <2>1. TypeOK /\ CountedIsHeld /\ \A r \in Requests : RequestInv(r)
    BY DEF StreamInv, Inv, LocalInv
  <2>2. ASSUME NEW r \in Requests, granted[r].some PROVE held[r] = accepted[r]
    BY <2>1, <2>2, BoundsAssumption DEF ReturnedWhenAnswered, RequestInv, held, TypeOK, Grant
  <2>3. Units(o, held) = Units(o, accepted)
    BY <2>2 DEF Units
  <2>4. usage[o] \in Nat /\ stale[o] = 0
    BY <2>1 DEF TypeOK, OnePeriod
  <2>5. Cardinality(Units(o, held)) \in Nat
    BY UnitsFinite DEF Units
  <2>. QED
    BY <2>1, <2>3, <2>4, <2>5 DEF CountedIsHeld
<1>. QED
  BY <1>1, <1>2, <1>3, ReturnedHolds, PTL DEF Spec
=============================================================================
