----------------------- MODULE PublisherStreamProofs -----------------------
(***************************************************************************)
(* What PublisherProofs leaves open about the stream itself: the notice    *)
(* precedes the events it announces, and, as long as a PublishBatch that   *)
(* failed was not executed, the gateway knows what is in the stream when   *)
(* it releases permits and when it answers.                                *)
(***************************************************************************)
EXTENDS PublisherProofs

Refusing == "publish" \notin Lossy

OnWire(r, call) == \E m \in net : m.r = r /\ m.call = call

(* Wherever the events of a batch may be, behind or ahead of PublishBatch, *)
(* the notice was handled before.                                          *)
NoticeInv(r) ==
  (/\ ~req[r].internal
   /\ NoticeDue(r, permit[r])
   /\ \/ pc[r] = "publish" \/ OnWire(r, "publish") \/ accepted[r] > 0
      \/ pc[r] = "notify" /\ reply[r].has)
  => r \in noticed

(* The gateway has made up its mind what was published.                    *)
Settled(r) ==
  pc[r] \in {"release", "done"} \/ released[r] > 0 \/ OnWire(r, "release")

(* What the gateway knows of the stream and what it told the client.       *)
OutcomeInv(r) ==
  /\ Settled(r) => ~OnWire(r, "publish") /\ accepted[r] = acked[r]
  /\ pc[r] = "publish" =>
       IF reply[r].has THEN ~OnWire(r, "publish") /\ accepted[r] = reply[r].count
       ELSE accepted[r] = 0
  /\ http[r] # 0 => pc[r] = "done" /\ http[r] = HttpStatus(resp[r].ack, resp[r].code)
  /\ granted[r].some => granted[r].user = IF req[r].user \in Dedicated THEN req[r].user ELSE NoUser

(***************************************************************************)
(* Steps that are not about a request                                      *)
(***************************************************************************)

SameWire(r) == \A m \in net \cup net' : m.r = r => (m \in net <=> m \in net')

Same(r) ==
  /\ pc'[r] = pc[r] /\ req'[r] = req[r] /\ permit'[r] = permit[r]
  /\ resp'[r] = resp[r] /\ http'[r] = http[r] /\ reply'[r] = reply[r]
  /\ granted'[r] = granted[r] /\ released'[r] = released[r]
  /\ accepted'[r] = accepted[r] /\ (r \in noticed => r \in noticed')
  /\ SameWire(r)

LEMMA SameKeeps ==
  ASSUME NEW r \in Requests, Same(r)
  PROVE  /\ NoticeInv(r) => NoticeInv(r)'
         /\ OutcomeInv(r) => OutcomeInv(r)'
<1>1. \A call : OnWire(r, call)' <=> OnWire(r, call)
  BY DEF Same, SameWire, OnWire
<1>2. NoticeDue(r, permit[r])' <=> NoticeDue(r, permit[r])
  BY DEF Same, NoticeDue
<1>3. acked'[r] = acked[r]
  BY DEF Same, acked
<1>. QED
  BY <1>1, <1>2, <1>3 DEF Same, NoticeInv, OutcomeInv, Settled

LEMMA LeftoversOthers ==
  ASSUME NEW r, NEW call, NEW left \in Leftovers(r, call), NEW m \in net, m.r # r
  PROVE  m \in left
BY DEF Leftovers

(* A call of a goroutine, and the end of its submission.                   *)
LEMMA CallOthers ==
  ASSUME TypeOK, NEW r \in Requests, NEW x \in Requests, x # r, NEW left \in SUBSET net,
         \A m \in net : m.r # r => m \in left,
         NEW call, NEW user, NEW count, Call(r, left, call, user, count)
  PROVE  pc'[x] = pc[x] /\ SameWire(x)
BY DEF Call, SameWire, TypeOK

LEMMA SettleOthers ==
  ASSUME TypeOK, NEW r \in Requests, NEW x \in Requests, x # r, NEW left \in SUBSET net,
         \A m \in net : m.r # r => m \in left,
         NEW p, NEW ack, NEW code, Settle(r, left, p, ack, code)
  PROVE  pc'[x] = pc[x] /\ SameWire(x) /\ resp'[x] = resp[x] /\ http'[x] = http[x]
<1>1. CASE Respond(r, left, ack, code)
  BY <1>1 DEF Settle, Respond, SameWire, TypeOK
<1>2. CASE \E n : Call(r, left, "release", p.user, n) /\ UNCHANGED http
  BY <1>2, CallOthers DEF Settle, TypeOK
<1>. QED
  BY <1>1, <1>2 DEF Settle

LEMMA ApplyPermitOthers ==
  ASSUME TypeOK, NEW r \in Requests, NEW x \in Requests, x # r, NEW p, NEW ack,
         applyPermit(r, net, p, ack)
  PROVE  pc'[x] = pc[x] /\ SameWire(x) /\ resp'[x] = resp[x] /\ http'[x] = http[x]
<1>1. CASE PublishBatch(r, net, p, ack, p.count)
  BY <1>1, CallOthers DEF PublishBatch, TypeOK
<1>. QED
  BY <1>1, SettleOthers DEF applyPermit

LEMMA GoroutineOthers ==
  ASSUME TypeOK, NEW r \in Requests, Goroutine(r), NEW x \in Requests, x # r
  PROVE  Same(x)
<1>1. UNCHANGED <<req, usageSvc, stream>> /\ reply'[x] = reply[x] /\ permit'[x] = permit[x]
  BY DEF Goroutine, Submit, AllocateReturns, AllocateFails, NotifyReturns, NotifyFails,
         PublishReturns, PublishFails, ReleaseEnds, TypeOK
<1>2. pc'[x] = pc[x] /\ SameWire(x) /\ resp'[x] = resp[x] /\ http'[x] = http[x]
  <2>1. CASE Submit(r)
    BY <2>1, CallOthers DEF Submit
  <2>2. CASE AllocateReturns(r)
    BY <2>2, CallOthers, ApplyPermitOthers DEF AllocateReturns
  <2>3. CASE AllocateFails(r) \/ NotifyFails(r)
    BY <2>3, SettleOthers, LeftoversSubset, LeftoversOthers DEF AllocateFails, NotifyFails
  <2>4. CASE NotifyReturns(r)
    BY <2>4, ApplyPermitOthers DEF NotifyReturns
  <2>5. CASE PublishReturns(r)
    BY <2>5, SettleOthers DEF PublishReturns, Respond, SameWire, TypeOK
  <2>6. CASE PublishFails(r)
    <3>1. PICK left \in Leftovers(r, "publish"), c \in Codes :
            IF req[r].internal
            THEN /\ resp' = [resp EXCEPT ![r] = [ack |-> 0, code |-> c]]
                 /\ Respond(r, left, 0, c)
            ELSE Settle(r, left, permit[r], resp[r].ack, c)
      BY <2>6 DEF PublishFails
    <3>2. left \in SUBSET net /\ \A m \in net : m.r # r => m \in left
      BY LeftoversSubset, LeftoversOthers
    <3>. QED
      BY <3>1, <3>2, SettleOthers DEF Respond, SameWire, TypeOK
  <2>7. CASE ReleaseEnds(r)
    <3>1. PICK left \in Leftovers(r, "release") \cup {net} :
            Respond(r, left, resp[r].ack, resp[r].code)
      BY <2>7 DEF ReleaseEnds
    <3>2. left \in SUBSET net /\ \A m \in net : m.r # r => m \in left
      BY LeftoversSubset, LeftoversOthers
    <3>. QED
      BY <2>7, <3>1, <3>2 DEF ReleaseEnds, Respond, SameWire, TypeOK
  <2>. QED
    BY <2>1, <2>2, <2>3, <2>4, <2>5, <2>6, <2>7 DEF Goroutine
<1>. QED
  BY <1>1, <1>2 DEF Same, usageSvc, stream

LEMMA CrashOthers ==
  ASSUME TypeOK, NEW r \in Requests, Crash(r), NEW x \in Requests, x # r
  PROVE  Same(x)
BY DEF Crash, Same, SameWire, usageSvc, stream, TypeOK

LEMMA HandleOthers ==
  ASSUME TypeOK, NEW m \in net, Handle(m), NEW x \in Requests, x # m.r
  PROVE  Same(x)
BY DEF Handle, UsageAllocates, UsageReleases, EventsPublishes, EventsNotifies, Deliver,
       Same, SameWire, goroutine, usageSvc, stream, TypeOK

LEMMA ResetOthers ==
  ASSUME NEW o \in Owners, Reset(o), NEW x \in Requests PROVE Same(x)
BY DEF Reset, Same, SameWire, goroutine, wire, stream

LEMMA StutterSame ==
  ASSUME UNCHANGED vars, NEW x \in Requests PROVE Same(x)
BY DEF vars, Same, SameWire

(***************************************************************************)
(* The notice                                                              *)
(***************************************************************************)

(* No more events may get out than before.                                 *)
LEMMA NoneMoreOut ==
  ASSUME NEW r \in Requests, NoticeInv(r),
         UNCHANGED <<req, stream>>, permit'[r] = permit[r] \/ ~NoticeDue(r, permit'[r]),
         pc'[r] \notin {"notify", "publish"} \/ (pc'[r] = pc[r] /\ reply'[r] = reply[r]),
         OnWire(r, "publish")' => OnWire(r, "publish")
  PROVE  NoticeInv(r)'
BY DEF NoticeInv, NoticeDue, stream

LEMMA SettleOut ==
  ASSUME TypeOK, NEW r \in Requests, NEW left \in SUBSET net, NEW p, NEW ack, NEW code,
         Settle(r, left, p, ack, code)
  PROVE  /\ pc'[r] \in {"release", "done"}
         /\ OnWire(r, "publish")' => OnWire(r, "publish")
<1>1. CASE Respond(r, left, ack, code)
  BY <1>1 DEF Respond, OnWire, TypeOK
<1>2. CASE \E n : Call(r, left, "release", p.user, n)
  BY <1>2 DEF Call, OnWire, TypeOK
<1>. QED
  BY <1>1, <1>2 DEF Settle

LEMMA NotYetOut ==
  ASSUME LocalInv, NEW r \in Requests, pc[r] \in {"idle", "allocate", "notify"}
  PROVE  accepted[r] = 0 /\ released[r] = 0 /\ ~OnWire(r, "publish") /\ ~OnWire(r, "release")
BY DEF LocalInv, RequestInv, MessageInv, OnWire

LEMMA GoroutineNotice ==
  ASSUME LocalInv, NEW r \in Requests, NoticeInv(r), Goroutine(r)
  PROVE  NoticeInv(r)'
<1>. USE DEF LocalInv
<1>1. TypeOK /\ UNCHANGED <<req, stream>>
  BY DEF Goroutine, Submit, AllocateReturns, AllocateFails, NotifyReturns, NotifyFails,
         PublishReturns, PublishFails, ReleaseEnds
<1>2. CASE Submit(r)
  <2>1. CASE req[r].internal
    BY <1>1, <2>1 DEF NoticeInv
  <2>2. CASE ~req[r].internal
    BY <1>1, <1>2, <2>2, NoneMoreOut DEF Submit, Call, OnWire, TypeOK
  <2>. QED
    BY <2>1, <2>2
<1>3. CASE AllocateReturns(r)
  <2>. DEFINE p == [count |-> reply[r].count, user |-> reply[r].user, just |-> reply[r].just]
  <2>1. permit'[r] = p /\ reply'[r] = NoReply
    BY <1>1, <1>3 DEF AllocateReturns, TypeOK
  <2>2. CASE NoticeDue(r, p) /\ Call(r, net, "notify", p.user, 1)
    <3>1. pc'[r] = "notify" /\ ~OnWire(r, "publish")' /\ accepted'[r] = 0
      BY <1>1, <1>3, <2>2, NotYetOut
      DEF AllocateReturns, Answered, Waits, Call, OnWire, TypeOK, stream
    <3>. QED
      BY <2>1, <3>1 DEF NoticeInv, NoReply
  <2>3. CASE ~NoticeDue(r, p)
    BY <1>1, <2>1, <2>3 DEF NoticeInv, NoticeDue
  <2>. QED
    BY <1>3, <2>2, <2>3 DEF AllocateReturns
<1>4. CASE AllocateFails(r) \/ NotifyFails(r)
  <2>1. PICK left \in SUBSET net : \E p, code : Settle(r, left, p, 0, code)
    BY <1>4, LeftoversSubset DEF AllocateFails, NotifyFails
  <2>2. pc'[r] \in {"release", "done"} /\ (OnWire(r, "publish")' => OnWire(r, "publish"))
    BY <1>1, <2>1, SettleOut
  <2>3. permit'[r] = permit[r]
    BY <1>4 DEF AllocateFails, NotifyFails
  <2>. QED
    BY <1>1, <2>2, <2>3, NoneMoreOut
<1>5. CASE NotifyReturns(r)
  BY <1>1, <1>5 DEF NotifyReturns, Answered, Waits, NoticeInv, NoticeDue, stream
<1>6. CASE PublishReturns(r)
  <2>1. pc'[r] \in {"release", "done"} /\ (OnWire(r, "publish")' => OnWire(r, "publish"))
    BY <1>1, <1>6, SettleOut DEF PublishReturns, Respond, OnWire, TypeOK
  <2>2. permit'[r] = permit[r]
    BY <1>6 DEF PublishReturns
  <2>. QED
    BY <1>1, <2>1, <2>2, NoneMoreOut
<1>7. CASE PublishFails(r)
  <2>1. PICK left \in SUBSET net, c \in Codes :
          \/ Respond(r, left, 0, c)
          \/ Settle(r, left, permit[r], resp[r].ack, c)
    BY <1>7, LeftoversSubset DEF PublishFails
  <2>2. pc'[r] \in {"release", "done"} /\ (OnWire(r, "publish")' => OnWire(r, "publish"))
    BY <1>1, <2>1, SettleOut DEF Respond, OnWire, TypeOK
  <2>3. permit'[r] = permit[r]
    BY <1>7 DEF PublishFails
  <2>. QED
    BY <1>1, <2>2, <2>3, NoneMoreOut
<1>8. CASE ReleaseEnds(r)
  <2>1. PICK left \in SUBSET net : Respond(r, left, resp[r].ack, resp[r].code)
    BY <1>8, LeftoversSubset DEF ReleaseEnds
  <2>2. pc'[r] = "done" /\ (OnWire(r, "publish")' => OnWire(r, "publish"))
    BY <1>1, <2>1 DEF Respond, OnWire, TypeOK
  <2>3. permit'[r] = permit[r]
    BY <1>8 DEF ReleaseEnds
  <2>. QED
    BY <1>1, <2>2, <2>3, NoneMoreOut
<1>. QED
  BY <1>2, <1>3, <1>4, <1>5, <1>6, <1>7, <1>8 DEF Goroutine

LEMMA HandleNotice ==
  ASSUME LocalInv, NEW m \in net, Handle(m), NoticeInv(m.r)
  PROVE  NoticeInv(m.r)'
<1>. USE DEF LocalInv
<1>1. m.r \in Requests /\ TypeOK /\ UNCHANGED goroutine /\ net' = net \ {m}
  BY DEF TypeOK, Message, Handle, UsageAllocates, UsageReleases, EventsPublishes,
         EventsNotifies, Deliver
<1>2. OnWire(m.r, "publish")' => OnWire(m.r, "publish")
  BY <1>1 DEF OnWire
<1>3. CASE m.call # "notify"
  <2>1. /\ noticed' = noticed
        /\ accepted'[m.r] = accepted[m.r] \/ OnWire(m.r, "publish")
    BY <1>1, <1>3 DEF Handle, UsageAllocates, UsageReleases, EventsPublishes, EventsNotifies,
                      stream, OnWire
  <2>2. pc[m.r] = "notify" => reply'[m.r] = reply[m.r]
    BY <1>3 DEF Handle, UsageAllocates, UsageReleases, EventsPublishes, EventsNotifies,
                Deliver, Waits
  <2>. QED
    BY <1>1, <1>2, <2>1, <2>2 DEF NoticeInv, NoticeDue, goroutine
<1>4. CASE m.call = "notify"
  BY <1>1, <1>4 DEF Handle, UsageAllocates, UsageReleases, EventsPublishes, EventsNotifies,
                    NoticeInv
<1>. QED
  BY <1>3, <1>4

(* Whatever fails, is lost or dies, the request that exhausts a limit gets *)
(* no event into the stream before the notice to the limit's owner was     *)
(* handled.                                                                *)
THEOREM NoticeBeforeEventsHolds == Spec => []NoticeBeforeEvents
<1>. DEFINE Notices == \A r \in Requests : NoticeInv(r)
<1>1. Init => LocalInv /\ Notices
  <2>1. Init => Notices
    BY DEF Init, NoticeInv, NoticeDue, NoPermit
  <2>. QED
    BY <2>1, InitLocal
<1>2. LocalInv /\ Notices /\ [Next]_vars => (LocalInv /\ Notices)'
  <2>. SUFFICES ASSUME LocalInv, Notices, [Next]_vars, NEW x \in Requests
                PROVE  NoticeInv(x)'
    BY NextLocal
  <2>1. TypeOK /\ NoticeInv(x)
    BY DEF LocalInv
  <2>2. ASSUME NEW r \in Requests, Goroutine(r) PROVE NoticeInv(x)'
    BY <2>1, <2>2, GoroutineNotice, GoroutineOthers, SameKeeps
  <2>3. ASSUME NEW r \in Requests, Crash(r) PROVE NoticeInv(x)'
    <3>1. CASE x = r
      <4>1. UNCHANGED <<req, stream>> /\ permit' = permit /\ net' = net /\ pc'[r] = "crashed"
        BY <2>1, <2>3 DEF Crash, TypeOK
      <4>2. permit'[r] = permit[r] /\ (OnWire(r, "publish")' => OnWire(r, "publish"))
        BY <4>1 DEF OnWire
      <4>. QED
        BY <2>1, <3>1, <4>1, <4>2, NoneMoreOut
    <3>. QED
      BY <2>1, <2>3, <3>1, CrashOthers, SameKeeps
  <2>4. ASSUME NEW m \in net, Handle(m) PROVE NoticeInv(x)'
    BY <2>1, <2>4, HandleNotice, HandleOthers, SameKeeps
  <2>5. ASSUME NEW o \in Owners, Reset(o) PROVE NoticeInv(x)'
    BY <2>1, <2>5, ResetOthers, SameKeeps
  <2>6. CASE UNCHANGED vars
    BY <2>1, <2>6, StutterSame, SameKeeps
  <2>. QED
    BY <2>2, <2>3, <2>4, <2>5, <2>6 DEF Next, Terminating
<1>3. LocalInv /\ Notices => NoticeBeforeEvents
  BY DEF NoticeInv, NoticeBeforeEvents
<1>. QED
  BY <1>1, <1>2, <1>3, PTL DEF Spec

(***************************************************************************)
(* The outcome                                                             *)
(***************************************************************************)

(* The submission ends: what is in the stream is what the results say.     *)
LEMMA EndKnown ==
  ASSUME LocalInv, NEW r \in Requests, OutcomeInv(r), pc[r] # "done", NEW ack, NEW code,
         UNCHANGED <<req, granted, accepted>>,
         resp'[r] = [ack |-> ack, code |-> code],
         \/ pc'[r] = "release" /\ http'[r] = http[r]
         \/ pc'[r] = "done" /\ http'[r] = HttpStatus(ack, code),
         ~OnWire(r, "publish")',
         accepted[r] = IF code = "OK" THEN ack ELSE 0
  PROVE  OutcomeInv(r)'
<1>1. acked'[r] = accepted[r] /\ http[r] = 0
  BY DEF acked, OutcomeInv
<1>. QED
  BY <1>1 DEF OutcomeInv

(* It goes on to its next call: nothing is published, nothing released.    *)
LEMMA NextCallKnown ==
  ASSUME LocalInv, NEW r \in Requests, OutcomeInv(r),
         pc[r] \in {"idle", "allocate", "notify"}, pc'[r] \in {"allocate", "notify", "publish"},
         UNCHANGED <<req, granted, released, accepted>>, http'[r] = http[r],
         ~reply'[r].has, ~OnWire(r, "release")'
  PROVE  OutcomeInv(r)'
<1>1. accepted[r] = 0 /\ released[r] = 0 /\ http[r] = 0
  BY NotYetOut DEF OutcomeInv
<1>. QED
  BY <1>1 DEF OutcomeInv, Settled

(* What Settle does to its request.                                        *)
LEMMA SettleEnds ==
  ASSUME TypeOK, NEW r \in Requests, NEW left \in SUBSET net, NEW p, NEW ack, NEW code,
         Settle(r, left, p, ack, code)
  PROVE  /\ resp'[r] = [ack |-> ack, code |-> code]
         /\ \/ pc'[r] = "release" /\ http'[r] = http[r]
            \/ pc'[r] = "done" /\ http'[r] = HttpStatus(ack, code)
         /\ OnWire(r, "publish")' => \E m \in left : m.r = r /\ m.call = "publish"
<1>1. resp'[r] = [ack |-> ack, code |-> code]
  BY DEF Settle, TypeOK
<1>2. CASE Respond(r, left, ack, code)
  BY <1>1, <1>2 DEF Respond, OnWire, TypeOK
<1>3. CASE \E n : Call(r, left, "release", p.user, n) /\ UNCHANGED http
  BY <1>1, <1>3 DEF Call, OnWire, TypeOK
<1>. QED
  BY <1>1, <1>2, <1>3 DEF Settle

LEMMA ApplyPermitKnown ==
  ASSUME LocalInv, NEW r \in Requests, OutcomeInv(r), NEW p, NEW ack,
         applyPermit(r, net, p, ack),
         pc[r] \in {"allocate", "notify"}, reply'[r] = NoReply,
         UNCHANGED <<req, granted, released, accepted>>
  PROVE  OutcomeInv(r)'
<1>1. TypeOK /\ accepted[r] = 0 /\ ~OnWire(r, "publish") /\ ~OnWire(r, "release")
  BY NotYetOut DEF LocalInv
<1>2. CASE Settle(r, net, p, ack, "ResourceExhausted")
  <2>1. /\ resp'[r] = [ack |-> ack, code |-> "ResourceExhausted"]
        /\ \/ pc'[r] = "release" /\ http'[r] = http[r]
           \/ pc'[r] = "done" /\ http'[r] = HttpStatus(ack, "ResourceExhausted")
        /\ OnWire(r, "publish")' => \E m \in net : m.r = r /\ m.call = "publish"
    BY <1>1, <1>2, SettleEnds
  <2>2. ~OnWire(r, "publish")'
    BY <1>1, <2>1 DEF OnWire
  <2>. QED
    BY <1>1, <2>1, <2>2, EndKnown
<1>3. CASE PublishBatch(r, net, p, ack, p.count)
  <2>1. pc'[r] = "publish" /\ ~OnWire(r, "release")' /\ http'[r] = http[r] /\ ~reply'[r].has
    BY <1>1, <1>3 DEF PublishBatch, Call, OnWire, TypeOK, NoReply
  <2>. QED
    BY <2>1, NextCallKnown
<1>. QED
  BY <1>2, <1>3 DEF applyPermit

LEMMA GoroutineKnown ==
  ASSUME Refusing, LocalInv, NEW r \in Requests, OutcomeInv(r), Goroutine(r)
  PROVE  OutcomeInv(r)'
<1>. USE DEF LocalInv
<1>1. TypeOK /\ RequestInv(r) /\ UNCHANGED <<req, granted, released, accepted>>
  BY DEF Goroutine, Submit, AllocateReturns, AllocateFails, NotifyReturns, NotifyFails,
         PublishReturns, PublishFails, ReleaseEnds, usageSvc, stream
<1>2. CASE Submit(r)
  <2>1. pc[r] = "idle" /\ ~reply'[r].has /\ http'[r] = http[r]
    BY <1>1, <1>2 DEF Submit, RequestInv
  <2>2. ~OnWire(r, "release")
    BY <2>1, NotYetOut
  <2>3. CASE pc'[r] = "publish" /\ ~OnWire(r, "release")'
    BY <1>1, <2>1, <2>3, NextCallKnown
  <2>4. CASE pc'[r] = "allocate" /\ ~OnWire(r, "release")'
    BY <1>1, <2>1, <2>4, NextCallKnown
  <2>. QED
    BY <1>1, <1>2, <2>2, <2>3, <2>4 DEF Submit, Call, OnWire, TypeOK
<1>3. CASE AllocateReturns(r)
  <2>1. pc[r] = "allocate" /\ reply'[r] = NoReply
    BY <1>1, <1>3 DEF AllocateReturns, Answered, Waits, TypeOK
  <2>2. PICK p : \/ Call(r, net, "notify", p.user, 1) /\ UNCHANGED <<resp, http>>
                 \/ applyPermit(r, net, p, 0)
    BY <1>3 DEF AllocateReturns
  <2>3. CASE Call(r, net, "notify", p.user, 1) /\ UNCHANGED <<resp, http>>
    <3>1. pc'[r] = "notify" /\ ~OnWire(r, "release")' /\ http'[r] = http[r] /\ ~reply'[r].has
      BY <1>1, <2>1, <2>3, NotYetOut DEF Call, OnWire, TypeOK, NoReply
    <3>. QED
      BY <1>1, <2>1, <3>1, NextCallKnown
  <2>. QED
    BY <1>1, <2>1, <2>2, <2>3, ApplyPermitKnown
<1>4. CASE AllocateFails(r) \/ NotifyFails(r)
  <2>. DEFINE FailsWith(left, p, code) == code # "OK" /\ Settle(r, left, p, 0, code)
  <2>1. pc[r] \in {"allocate", "notify"}
    BY <1>4 DEF AllocateFails, NotifyFails, Waits
  <2>2. \A c \in Codes : c # "OK" /\ encodeError(c) # "OK"
    BY FaultsAssumption DEF ErrorCodes, encodeError
  <2>3. \E left \in SUBSET net : \E p : \E code : FailsWith(left, p, code)
    <3>. HIDE DEF FailsWith
    <3>1. CASE AllocateFails(r)
      <4>1. PICK left \in Leftovers(r, "allocate"), c \in Codes :
              Settle(r, left, NoPermit, 0, encodeError(c))
        BY <3>1 DEF AllocateFails
      <4>. QED
        BY <2>2, <4>1, LeftoversSubset DEF FailsWith
    <3>2. CASE NotifyFails(r)
      <4>1. PICK left \in Leftovers(r, "notify"), c \in Codes :
              Settle(r, left, permit[r], 0, c)
        BY <3>2 DEF NotifyFails
      <4>. QED
        BY <2>2, <4>1, LeftoversSubset DEF FailsWith
    <3>. QED
      BY <1>4, <3>1, <3>2
  <2>4. PICK left \in SUBSET net : \E p : \E code : FailsWith(left, p, code)
    BY <2>3
  <2>5. PICK p : \E code : FailsWith(left, p, code)
    BY <2>4
  <2>6. PICK code : FailsWith(left, p, code)
    BY <2>5
  <2>7. accepted[r] = 0 /\ ~OnWire(r, "publish")
    BY <2>1, NotYetOut
  <2>8. /\ resp'[r] = [ack |-> 0, code |-> code] /\ code # "OK"
        /\ \/ pc'[r] = "release" /\ http'[r] = http[r]
           \/ pc'[r] = "done" /\ http'[r] = HttpStatus(0, code)
        /\ OnWire(r, "publish")' => \E m \in left : m.r = r /\ m.call = "publish"
    BY <1>1, <2>6, SettleEnds
  <2>9. ~OnWire(r, "publish")'
    BY <2>7, <2>8 DEF OnWire
  <2>. QED
    BY <1>1, <2>1, <2>7, <2>8, <2>9, EndKnown
<1>5. CASE NotifyReturns(r)
  <2>1. pc[r] = "notify" /\ reply'[r] = NoReply
        /\ applyPermit(r, net, permit[r], reply[r].count)
    BY <1>1, <1>5 DEF NotifyReturns, Answered, Waits, TypeOK
  <2>. QED
    BY <1>1, <2>1, ApplyPermitKnown
<1>6. CASE PublishReturns(r)
  <2>1. pc[r] = "publish" /\ accepted[r] = reply[r].count /\ ~OnWire(r, "publish")
    BY <1>6 DEF PublishReturns, Answered, Waits, OutcomeInv
  <2>2. /\ resp'[r] = [ack |-> reply[r].count, code |-> "OK"]
        /\ \/ pc'[r] = "release" /\ http'[r] = http[r]
           \/ pc'[r] = "done" /\ http'[r] = HttpStatus(reply[r].count, "OK")
        /\ OnWire(r, "publish")' => OnWire(r, "publish")
    <3>1. CASE req[r].internal
      BY <1>1, <1>6, <3>1 DEF PublishReturns, Respond, OnWire, TypeOK
    <3>2. CASE ~req[r].internal
      BY <1>1, <1>6, <3>2, SettleEnds DEF PublishReturns, OnWire
    <3>. QED
      BY <3>1, <3>2
  <2>. QED
    BY <1>1, <2>1, <2>2, EndKnown
<1>7. CASE PublishFails(r)
  <2>1. PICK m \in net : /\ m.r = r /\ m.call = "publish"
                         /\ \E c \in Codes :
                              IF req[r].internal
                              THEN /\ resp' = [resp EXCEPT ![r] = [ack |-> 0, code |-> c]]
                                   /\ Respond(r, net \ {m}, 0, c)
                              ELSE Settle(r, net \ {m}, permit[r], resp[r].ack, c)
    BY <1>7 DEF PublishFails, Leftovers, Refusing
  <2>2. PICK c \in Codes :
          IF req[r].internal
          THEN /\ resp' = [resp EXCEPT ![r] = [ack |-> 0, code |-> c]]
               /\ Respond(r, net \ {m}, 0, c)
          ELSE Settle(r, net \ {m}, permit[r], resp[r].ack, c)
    BY <2>1
  <2>3. c # "OK"
    BY FaultsAssumption DEF ErrorCodes
  <2>4. pc[r] = "publish" /\ accepted[r] = 0
    BY <1>7, <2>1 DEF PublishFails, Waits, OutcomeInv, OnWire
  <2>5. ~ \E x \in net \ {m} : x.r = r /\ x.call = "publish"
    BY <2>1, OneCall
  <2>. DEFINE EndsWith(ack) == /\ resp'[r] = [ack |-> ack, code |-> c]
                               /\ \/ pc'[r] = "release" /\ http'[r] = http[r]
                                  \/ pc'[r] = "done" /\ http'[r] = HttpStatus(ack, c)
                               /\ ~OnWire(r, "publish")'
  <2>6. PICK ack : EndsWith(ack)
    <3>1. CASE req[r].internal
      <4>1. EndsWith(0)
        BY <1>1, <2>2, <2>5, <3>1 DEF Respond, OnWire, TypeOK
      <4>. QED
        BY <4>1
    <3>2. CASE ~req[r].internal
      <4>1. EndsWith(resp[r].ack)
        BY <1>1, <2>2, <2>5, <3>2, SettleEnds
      <4>. QED
        BY <4>1
    <3>. QED
      BY <3>1, <3>2
  <2>. QED
    BY <1>1, <2>3, <2>4, <2>6, EndKnown
<1>8. CASE ReleaseEnds(r)
  <2>1. PICK left \in SUBSET net : Respond(r, left, resp[r].ack, resp[r].code)
    BY <1>8, LeftoversSubset DEF ReleaseEnds
  <2>2. /\ pc[r] = "release" /\ pc'[r] = "done"
        /\ http'[r] = HttpStatus(resp[r].ack, resp[r].code)
        /\ resp'[r] = [ack |-> resp[r].ack, code |-> resp[r].code]
        /\ OnWire(r, "publish")' => OnWire(r, "publish")
    BY <1>1, <1>8, <2>1 DEF ReleaseEnds, Waits, Respond, OnWire, TypeOK, Result
  <2>3. /\ ~OnWire(r, "publish")
        /\ accepted[r] = IF resp[r].code = "OK" THEN resp[r].ack ELSE 0
    BY <2>2 DEF OutcomeInv, Settled, acked
  <2>. QED
    BY <1>1, <2>2, <2>3, EndKnown
<1>. QED
  BY <1>2, <1>3, <1>4, <1>5, <1>6, <1>7, <1>8 DEF Goroutine

LEMMA CrashKnown ==
  ASSUME LocalInv, NEW r \in Requests, OutcomeInv(r), Crash(r) PROVE OutcomeInv(r)'
<1>1. /\ pc[r] \in Calls /\ pc'[r] = "crashed" /\ acked' = acked
      /\ UNCHANGED <<req, net, http, granted, released, accepted>>
  BY DEF Crash, LocalInv, TypeOK, usageSvc, stream, acked
<1>2. http[r] = 0
  BY <1>1 DEF OutcomeInv, Calls
<1>. QED
  BY <1>1, <1>2 DEF OutcomeInv, Settled, OnWire

(* A service that leaves the outcome of the request alone.                 *)
LEMMA SideCallKnown ==
  ASSUME LocalInv, NEW m \in net, OutcomeInv(m.r), m.r \in Requests, UNCHANGED goroutine,
         net' = net \ {m}, pc[m.r] = "publish" => reply'[m.r] = reply[m.r],
         UNCHANGED <<granted, accepted>>, released' = released \/ m.call = "release"
  PROVE  OutcomeInv(m.r)'
<1>1. acked' = acked /\ UNCHANGED <<pc, req, resp, http>>
  BY DEF goroutine, acked
<1>2. /\ OnWire(m.r, "publish")' => OnWire(m.r, "publish")
      /\ OnWire(m.r, "release")' => OnWire(m.r, "release")
      /\ m.call = "release" => OnWire(m.r, "release")
  BY DEF OnWire
<1>3. Settled(m.r)' => Settled(m.r)
  BY <1>1, <1>2 DEF Settled
<1>. QED
  BY <1>1, <1>2, <1>3 DEF OutcomeInv

LEMMA HandleKnown ==
  ASSUME LocalInv, NEW m \in net, OutcomeInv(m.r), Handle(m) PROVE OutcomeInv(m.r)'
<1>. USE DEF LocalInv
<1>1. /\ m.r \in Requests /\ TypeOK /\ UNCHANGED goroutine /\ net' = net \ {m}
      /\ MessageInv(m) /\ acked' = acked /\ UNCHANGED <<pc, req, resp, http>>
  BY DEF TypeOK, Message, Handle, UsageAllocates, UsageReleases, EventsPublishes,
         EventsNotifies, Deliver, goroutine, acked
<1>2. CASE UsageAllocates(m)
  <2>1. /\ granted'[m.r].user = IF req[m.r].user \in Dedicated THEN req[m.r].user ELSE NoUser
        /\ UNCHANGED <<released, accepted>> /\ pc[m.r] # "publish"
    BY <1>1, <1>2 DEF UsageAllocates, MessageInv, TypeOK, stream
  <2>2. Settled(m.r)' => Settled(m.r)
    BY <1>1, <2>1 DEF Settled, OnWire
  <2>3. OnWire(m.r, "publish")' => OnWire(m.r, "publish")
    BY <1>1 DEF OnWire
  <2>. QED
    BY <1>1, <2>1, <2>2, <2>3 DEF OutcomeInv
<1>3. CASE UsageReleases(m)
  BY <1>1, <1>3, SideCallKnown DEF UsageReleases, MessageInv, stream
<1>4. CASE EventsPublishes(m)
  <2>1. PICK k \in 0..m.count :
          accepted' = [accepted EXCEPT ![m.r] = @ + k] /\ Deliver(m, Ack(k))
    BY <1>4 DEF EventsPublishes
  <2>2. m.call = "publish" /\ UNCHANGED usageSvc /\ accepted[m.r] = 0 /\ OnWire(m.r, "publish")
    BY <1>1, <1>4 DEF EventsPublishes, MessageInv, OnWire
  <2>3. accepted'[m.r] = k
    BY <1>1, <2>1, <2>2 DEF TypeOK
  <2>4. ~OnWire(m.r, "publish")'
    BY <1>1, <2>2, OneCall DEF OnWire
  <2>5. ~Settled(m.r) /\ ~Settled(m.r)'
    BY <1>1, <2>2 DEF OutcomeInv, Settled, OnWire, usageSvc
  <2>6. pc[m.r] = "publish" => reply'[m.r].has /\ reply'[m.r].count = k
    BY <1>1, <2>1, <2>2 DEF Deliver, Waits, Ack, TypeOK
  <2>. QED
    BY <1>1, <2>2, <2>3, <2>4, <2>5, <2>6 DEF OutcomeInv, usageSvc
<1>5. CASE EventsNotifies(m)
  <2>1. pc[m.r] = "publish" => reply'[m.r] = reply[m.r]
    BY <1>1, <1>5 DEF EventsNotifies, Deliver, Waits
  <2>. QED
    BY <1>1, <1>5, <2>1, SideCallKnown DEF EventsNotifies, usageSvc
<1>. QED
  BY <1>2, <1>3, <1>4, <1>5 DEF Handle

Known == \A r \in Requests : OutcomeInv(r)

LEMMA NextKnown ==
  ASSUME Refusing, LocalInv, Known, [Next]_vars PROVE Known'
<1>. SUFFICES ASSUME NEW x \in Requests PROVE OutcomeInv(x)'
  BY DEF Known
<1>1. TypeOK /\ OutcomeInv(x)
  BY DEF LocalInv, Known
<1>2. ASSUME NEW r \in Requests, Goroutine(r) PROVE OutcomeInv(x)'
  BY <1>1, <1>2, GoroutineKnown, GoroutineOthers, SameKeeps
<1>3. ASSUME NEW r \in Requests, Crash(r) PROVE OutcomeInv(x)'
  BY <1>1, <1>3, CrashKnown, CrashOthers, SameKeeps
<1>4. ASSUME NEW m \in net, Handle(m) PROVE OutcomeInv(x)'
  BY <1>1, <1>4, HandleKnown, HandleOthers, SameKeeps
<1>5. ASSUME NEW o \in Owners, Reset(o) PROVE OutcomeInv(x)'
  BY <1>1, <1>5, ResetOthers, SameKeeps
<1>6. CASE UNCHANGED vars
  BY <1>1, <1>6, StutterSame, SameKeeps
<1>. QED
  BY <1>2, <1>3, <1>4, <1>5, <1>6 DEF Next, Terminating

StreamInv == Inv /\ Known

LEMMA StreamHolds == ASSUME Refusing PROVE Spec => []StreamInv
<1>1. Init => StreamInv
  <2>1. Init => Known
    BY DEF Init, Known, OutcomeInv, Settled, OnWire, NoGrant, NoReply
  <2>. QED
    BY <2>1, InitLocal, InitCovered DEF StreamInv, Inv
<1>2. StreamInv /\ [Next]_vars => StreamInv'
  BY NextInv, NextKnown DEF StreamInv, Inv
<1>. QED
  BY <1>1, <1>2, PTL DEF Spec

LEMMA Unutilized == StreamInv => ReleasesOnlyUnutilized
<1>. SUFFICES ASSUME StreamInv, NEW r \in Requests, ~req[r].internal
              PROVE  released[r] + accepted[r] <= granted[r].count
  BY DEF ReleasesOnlyUnutilized
<1>1. RequestInv(r) /\ OutcomeInv(r) /\ TypeOK
  BY DEF StreamInv, Inv, LocalInv, Known
<1>2. released[r] \in Nat /\ accepted[r] \in Nat /\ granted[r].count \in Nat
  BY <1>1, BoundsAssumption DEF TypeOK, Grant
<1>3. CASE released[r] > 0
  BY <1>1, <1>3 DEF OutcomeInv, Settled, RequestInv
<1>4. CASE released[r] = 0
  BY <1>1, <1>2, <1>4 DEF RequestInv
<1>. QED
  BY <1>2, <1>3, <1>4

LEMMA WithinLimit == StreamInv => StreamWithinLimit
<1>. SUFFICES ASSUME StreamInv, NEW o \in Owners
              PROVE  Cardinality(Units(o, accepted)) <= Limit[o] + stale[o]
  BY DEF StreamWithinLimit
<1>. USE LimitAssumption, BoundsAssumption
<1>1. TypeOK /\ CountedIsHeld /\ ReleasesOnlyUnutilized /\ \A r \in Requests : RequestInv(r)
  BY Unutilized DEF StreamInv, Inv, LocalInv
<1>2. ASSUME NEW r \in Requests, granted[r].some PROVE accepted[r] <= held[r]
  <2>1. ~req[r].internal
    BY <1>1, <1>2 DEF RequestInv
  <2>. QED
    BY <1>1, <2>1 DEF ReleasesOnlyUnutilized, held, TypeOK, Grant
<1>3. /\ \A r \in Requests : accepted[r] \in Int /\ held[r] \in Int
      /\ usage[o] \in Nat /\ stale[o] \in Nat /\ usage[o] <= Limit[o]
  BY <1>1 DEF held, TypeOK, Grant
<1>4. Units(o, accepted) \subseteq Units(o, held)
  BY <1>2, <1>3 DEF Units
<1>5. Cardinality(Units(o, accepted)) <= Cardinality(Units(o, held))
  <2>1. Units(o, held) \in SUBSET (Requests \X (1..MaxBatch))
    BY DEF Units
  <2>. QED
    BY <1>4, <2>1, UnitsFinite, FS_Subset
<1>6. /\ Cardinality(Units(o, held)) <= usage[o] + stale[o]
      /\ Cardinality(Units(o, held)) \in Nat /\ Cardinality(Units(o, accepted)) \in Nat
  BY <1>1, UnitsFinite DEF CountedIsHeld, Units
<1>. QED
  BY <1>3, <1>5, <1>6

LEMMA Truthful == StreamInv => AnswerTruthful
<1>. SUFFICES ASSUME StreamInv, NEW r \in Requests, http[r] # 0
              PROVE  http[r] = 200 <=> accepted[r] > 0
  BY DEF AnswerTruthful
<1>1. TypeOK /\ OutcomeInv(r)
  BY DEF StreamInv, Inv, LocalInv, Known
<1>2. accepted[r] = acked[r] /\ http[r] = HttpStatus(resp[r].ack, resp[r].code)
  BY <1>1 DEF OutcomeInv, Settled
<1>3. resp[r].ack \in Nat
  BY <1>1, BoundsAssumption DEF TypeOK, Result
<1>. QED
  BY <1>2, <1>3 DEF HttpStatus, acked

(* While a failed PublishBatch is one that was not executed, Release gives *)
(* back nothing that an event in the stream used.                          *)
THEOREM ReleasesOnlyUnutilizedHolds ==
  ASSUME Refusing PROVE Spec => []ReleasesOnlyUnutilized
BY StreamHolds, Unutilized, PTL

(* Then the limit holds for the stream itself, but for what was given back *)
(* after the reset of its counter.                                         *)
THEOREM StreamWithinLimitHolds ==
  ASSUME Refusing PROVE Spec => []StreamWithinLimit
BY StreamHolds, WithinLimit, PTL

(* And the status of the answer says whether events are in the stream.     *)
THEOREM AnswerTruthfulHolds ==
  ASSUME Refusing PROVE Spec => []AnswerTruthful
BY StreamHolds, Truthful, PTL

(***************************************************************************)
(* Publisher implements PublishQuota                                       *)
(***************************************************************************)

(* The arguments of the instance Quota: whose limit a request counts       *)
(* against, and what its client was told.                                  *)
OwnerOf(r) ==
  IF req[r].internal THEN "nobody"
  ELSE IF req[r].user \in Dedicated THEN req[r].user ELSE NoUser
Told(r) == CASE http[r] = 0 -> "none" [] http[r] = 200 -> "accepted" [] OTHER -> "refused"

OwnerAll == [r \in Requests |-> OwnerOf(r)]
ToldAll == [r \in Requests |-> Told(r)]

OnePeriod == MaxPeriod = 0 /\ stale = [o \in Owners |-> 0]

(* PublishQuota counts with an instance of its own of FiniteSets.          *)
LEMMA QuotaCardinality == ASSUME NEW S PROVE Quota!Cardinality(S) = Cardinality(S)
BY DEF Quota!Cardinality, Cardinality, Quota!IsFiniteSet, IsFiniteSet

LEMMA InitQuota == Init => Quota!Init
<1>. SUFFICES ASSUME Init PROVE Quota!Init
  OBVIOUS
<1>1. \A r \in Requests : OwnerOf(r) \in Owners \cup {"nobody"} /\ Told(r) = "none"
  BY DEF OwnerOf, Owners, Told, Init
<1>. QED
  BY <1>1 DEF Quota!Init, Init, OwnerOf, Told

LEMMA QuotaStutter == ASSUME UNCHANGED <<req, accepted, http>> PROVE UNCHANGED Quota!vars
BY DEF Quota!vars

LEMMA NextOnePeriod ==
  ASSUME LocalInv, OnePeriod, [Next]_vars PROVE OnePeriod'
<1>1. ASSUME NEW m \in net, UsageReleases(m) PROVE OnePeriod'
  <2>1. m.call = "release" /\ m \in Message /\ MessageInv(m) /\ TypeOK
    BY <1>1 DEF UsageReleases, LocalInv, TypeOK
  <2>2. m.user \in Owners /\ granted[m.r] \in Grant
    BY <2>1 DEF MessageInv, TypeOK, Grant, Message
  <2>3. granted[m.r].period = 0 /\ period[m.user] = 0
    BY <2>1, <2>2 DEF OnePeriod, TypeOK, Grant
  <2>. QED
    BY <1>1, <2>3 DEF UsageReleases, OnePeriod
<1>2. ASSUME NEW o \in Owners, Reset(o) PROVE FALSE
  BY <1>2 DEF Reset, OnePeriod, LocalInv, TypeOK
<1>3. ASSUME NEW r \in Requests, Goroutine(r) \/ Crash(r) PROVE OnePeriod'
  BY <1>3 DEF Goroutine, Submit, AllocateReturns, AllocateFails, NotifyReturns, NotifyFails,
              PublishReturns, PublishFails, ReleaseEnds, Crash, usageSvc, OnePeriod
<1>4. ASSUME NEW m \in net, Handle(m), ~UsageReleases(m) PROVE OnePeriod'
  BY <1>4 DEF Handle, UsageAllocates, EventsPublishes, EventsNotifies, usageSvc, OnePeriod
<1>5. CASE UNCHANGED vars
  BY <1>5 DEF vars, OnePeriod
<1>. QED
  BY <1>1, <1>2, <1>3, <1>4, <1>5 DEF Next, Terminating

LEMMA StillTrue == StreamInv' => AnswerTruthful' /\ StreamWithinLimit'
BY Truthful, WithinLimit, PTL

(* A goroutine answers once, and what it says is what is in the stream.    *)
LEMMA GoroutineQuota ==
  ASSUME StreamInv, StreamInv', NEW r \in Requests, Goroutine(r)
  PROVE  [Quota!Next]_(Quota!vars)
<1>1. TypeOK /\ TypeOK' /\ OutcomeInv(r) /\ UNCHANGED <<req, accepted>>
  BY DEF StreamInv, Inv, LocalInv, Known, Goroutine, Submit, AllocateReturns, AllocateFails,
         NotifyReturns, NotifyFails, PublishReturns, PublishFails, ReleaseEnds, stream
<1>2. \A x \in Requests \ {r} : http'[x] = http[x]
  BY <1>1, GoroutineOthers DEF Same
<1>3. http[r] = 0
  BY <1>1 DEF OutcomeInv, Goroutine, Submit, AllocateReturns, AllocateFails, NotifyReturns,
              NotifyFails, PublishReturns, PublishFails, ReleaseEnds, Answered, Waits
<1>4. CASE http'[r] = http[r]
  BY <1>1, <1>2, <1>4, QuotaStutter DEF TypeOK
<1>5. CASE http'[r] # http[r]
  <2>1. http'[r] = 200 <=> accepted[r] > 0
    BY <1>1, <1>3, <1>5, StillTrue DEF AnswerTruthful
  <2>2. ToldAll' = [ToldAll EXCEPT ![r] = IF accepted[r] > 0 THEN "accepted" ELSE "refused"]
    <3>1. Told(r)' = IF accepted[r] > 0 THEN "accepted" ELSE "refused"
      BY <1>3, <1>5, <2>1 DEF Told
    <3>2. \A x \in Requests \ {r} : Told(x)' = Told(x)
      BY <1>2 DEF Told
    <3>3. \A x \in Requests : ToldAll[x] = Told(x) /\ ToldAll'[x] = Told(x)'
      BY DEF ToldAll, Told
    <3>4. /\ ToldAll = [x \in Requests |-> ToldAll[x]]
          /\ ToldAll' = [x \in Requests |-> ToldAll'[x]]
      BY DEF ToldAll
    <3>. QED
      BY <3>1, <3>2, <3>3, <3>4
  <2>3. ToldAll[r] = "none"
    BY <1>3 DEF ToldAll, Told
  <2>4. Quota!Answer(r)
    BY <1>1, <2>2, <2>3 DEF Quota!Answer, ToldAll, Told
  <2>. QED
    BY <2>4 DEF Quota!Next
<1>. QED
  BY <1>4, <1>5

(* PublishBatch puts its events into the stream within the limit: what is  *)
(* counted against an owner is what his requests have in the stream.       *)
LEMMA PublishQuotaStep ==
  ASSUME StreamInv, StreamInv', OnePeriod, OnePeriod', NEW m \in net, EventsPublishes(m)
  PROVE  [Quota!Next]_(Quota!vars)
<1>. USE BoundsAssumption
<1>1. /\ TypeOK /\ TypeOK' /\ m \in Message /\ MessageInv(m) /\ m.call = "publish"
      /\ m.r \in Requests /\ OutcomeInv(m.r) /\ UNCHANGED <<req, http>>
  BY DEF StreamInv, Inv, LocalInv, Known, TypeOK, Message, EventsPublishes, goroutine
<1>2. PICK k \in 0..m.count : accepted' = [accepted EXCEPT ![m.r] = @ + k]
  BY DEF EventsPublishes
<1>3. accepted[m.r] = 0 /\ http[m.r] = 0
  BY <1>1 DEF MessageInv, OutcomeInv, Settled, OnWire
<1>4. accepted' = [accepted EXCEPT ![m.r] = k] /\ k \in 0..MaxBatch
  BY <1>1, <1>2, <1>3 DEF TypeOK, Message
<1>5. CASE k = 0
  BY <1>1, <1>3, <1>4, <1>5, QuotaStutter DEF TypeOK
<1>6. CASE k # 0
  <2>1. k \in 1..MaxBatch
    BY <1>4, <1>6
  <2>2. ASSUME OwnerOf(m.r) # "nobody"
        PROVE  Cardinality(Quota!Counted(OwnerOf(m.r), accepted')) <= Limit[OwnerOf(m.r)]
    <3>1. PICK o \in Owners : o = OwnerOf(m.r)
      BY <2>2 DEF OwnerOf, Owners
    <3>2. \A r \in Requests : \A j \in 1..MaxBatch : j <= accepted'[r] =>
            (OwnerOf(r) = o <=> /\ granted'[r].some /\ granted'[r].user = o
                                /\ granted'[r].period = period'[o])
      <4>. SUFFICES ASSUME NEW r \in Requests, NEW j \in 1..MaxBatch, j <= accepted'[r]
                    PROVE  OwnerOf(r) = o <=> /\ granted'[r].some /\ granted'[r].user = o
                                              /\ granted'[r].period = period'[o]
        OBVIOUS
      <4>1. RequestInv(r)' /\ OutcomeInv(r)' /\ accepted'[r] > 0
        BY <1>1 DEF StreamInv, Inv, LocalInv, Known, TypeOK
      <4>2. granted'[r].period = 0 /\ period'[o] = 0
        BY <1>1, <3>1 DEF OnePeriod, TypeOK, Grant
      <4>3. CASE req[r].internal
        BY <1>1, <2>2, <3>1, <4>1, <4>3 DEF RequestInv, OwnerOf
      <4>4. CASE ~req[r].internal
        <5>1. granted'[r].some
          BY <1>1, <4>1, <4>4 DEF RequestInv, TypeOK, Grant
        <5>2. granted'[r].user = OwnerOf(r)
          BY <1>1, <4>1, <4>4, <5>1 DEF OutcomeInv, OwnerOf
        <5>. QED
          BY <4>2, <5>1, <5>2
      <4>. QED
        BY <4>3, <4>4
    <3>3. Quota!Counted(o, accepted') = Units(o, accepted)'
      BY <1>1, <3>2 DEF Quota!Counted, Units, OwnerOf
    <3>4. Cardinality(Units(o, accepted)') <= Limit[o] + stale'[o]
      BY <3>1, StillTrue DEF StreamWithinLimit
    <3>. QED
      BY <3>1, <3>3, <3>4, LimitAssumption DEF OnePeriod
  <2>3. OwnerAll' = OwnerAll /\ ToldAll' = ToldAll
    BY <1>1 DEF OwnerAll, OwnerOf, ToldAll, Told
  <2>4. OwnerAll[m.r] = OwnerOf(m.r) /\ ToldAll[m.r] = "none"
    BY <1>1, <1>3 DEF OwnerAll, ToldAll, Told
  <2>5. OwnerAll[m.r] # "nobody" =>
          Quota!Cardinality(Quota!Counted(OwnerAll[m.r], accepted')) <= Limit[OwnerAll[m.r]]
    BY <2>2, <2>4, QuotaCardinality
  <2>6. Quota!Publish(m.r, k)
    BY <1>3, <1>4, <2>3, <2>4, <2>5 DEF Quota!Publish, OwnerAll, OwnerOf, ToldAll, Told
  <2>. QED
    BY <1>1, <2>1, <2>6 DEF Quota!Next
<1>. QED
  BY <1>5, <1>6

LEMMA QuotaStep ==
  ASSUME StreamInv, StreamInv', OnePeriod, OnePeriod', [Next]_vars
  PROVE  [Quota!Next]_(Quota!vars)
<1>1. ASSUME NEW r \in Requests, Goroutine(r) PROVE [Quota!Next]_(Quota!vars)
  BY <1>1, GoroutineQuota
<1>2. ASSUME NEW m \in net, EventsPublishes(m) PROVE [Quota!Next]_(Quota!vars)
  BY <1>2, PublishQuotaStep
<1>3. ASSUME NEW m \in net, Handle(m), ~EventsPublishes(m) PROVE UNCHANGED Quota!vars
  BY <1>3, QuotaStutter DEF Handle, UsageAllocates, UsageReleases, EventsNotifies,
                            goroutine, stream
<1>4. ASSUME NEW r \in Requests, Crash(r) PROVE UNCHANGED Quota!vars
  BY <1>4, QuotaStutter DEF Crash, stream
<1>5. ASSUME NEW o \in Owners, Reset(o) PROVE UNCHANGED Quota!vars
  BY <1>5, QuotaStutter DEF Reset, goroutine, stream
<1>6. CASE UNCHANGED vars
  BY <1>6, QuotaStutter DEF vars
<1>. QED
  BY <1>1, <1>2, <1>3, <1>4, <1>5, <1>6 DEF Next, Terminating

(* Within one period, and while a failed PublishBatch was not executed,    *)
(* the publishing path implements PublishQuota, whatever else fails or     *)
(* dies: this is the safety part of ImplementsQuota.                       *)
THEOREM ImplementsQuotaSafely ==
  ASSUME Refusing, MaxPeriod = 0 PROVE Spec => Quota!Spec
<1>1. Init => OnePeriod /\ Quota!Init
  BY InitQuota DEF Init, OnePeriod
<1>2. LocalInv /\ OnePeriod /\ [Next]_vars => OnePeriod'
  BY NextOnePeriod
<1>3. StreamInv => LocalInv
  BY DEF StreamInv, Inv
<1>4. /\ StreamInv /\ StreamInv' /\ OnePeriod /\ OnePeriod' /\ [Next]_vars
      => [Quota!Next]_(Quota!vars)
  BY QuotaStep
<1>. QED
  BY <1>1, <1>2, <1>3, <1>4, StreamHolds, PTL DEF Spec, Quota!Spec
=============================================================================
