----------------------------- MODULE Publisher -----------------------------
(***************************************************************************)
(* The publishing path of the gateway: a goroutine per HTTP request runs   *)
(* SubmitPermittedEvents (or SubmitInternalEvents) of                      *)
(* api/grpc/publisher/service.go against two services it does not own:     *)
(* the usage service, which counts and grants publishing permits, and the  *)
(* events service, which owns the stream.  A goroutine allocates permits,  *)
(* possibly announces that the limit was just exhausted, publishes the     *)
(* part of the batch the permit covers and releases what it did not use.   *)
(*                                                                         *)
(* The replicas share nothing but those services, so it does not matter on *)
(* which replica a request runs.  Between two remote calls a goroutine     *)
(* touches only its own variables: the code from the return of one call to *)
(* the start of the next is one action.  A call is a message in `net`; the *)
(* service may handle it at any time, also after the goroutine gave up on  *)
(* it.  The usage and events services are external: what is modelled of    *)
(* them is what the gateway's code and comments rely on.                   *)
(***************************************************************************)
EXTENDS Integers, FiniteSets

CONSTANTS
  Requests,      \* HTTP requests
  Submissions,   \* what a request may carry, see SubmissionType
  Users,         \* user ids of requests and sources of events
  NoUser,        \* the empty user id: the owner of the group-level limit
  Dedicated,     \* users with a publishing limit of their own
  Limit,         \* owner -> events per period
  MaxBatch,      \* bound on the events of a batch
  MaxPeriod,     \* bound on the resets of a usage counter
  UintSize,      \* 2^32 in the program: the counts are uint32
  Codes,         \* gRPC error codes a call may end with
  Failing,       \* calls that may fail
  Lossy,         \* calls among them that may fail and be executed all the same
  Crashes        \* whether a replica may die in the middle of a request

Owners == Dedicated \cup {NoUser}
Calls == {"allocate", "notify", "publish", "release"}

(* The events of a batch differ only in what is decided about them, so a   *)
(* batch is its length; src is the source of its first event.              *)
SubmissionType ==
  [user : Users, n : 0..MaxBatch, src : Users, internal : BOOLEAN]

ErrorCodes ==
  {"NotFound", "AlreadyExists", "Unauthenticated", "DeadlineExceeded",
   "InvalidArgument", "ResourceExhausted", "Unavailable", "Internal",
   "Unknown", "PermissionDenied"}

ASSUME RequestsAssumption == IsFiniteSet(Requests)
ASSUME UsersAssumption == NoUser \in Users /\ Dedicated \subseteq Users
ASSUME SubmissionsAssumption ==
  /\ Submissions \subseteq SubmissionType
  /\ \A q \in Submissions : q.internal => q.n = 1
ASSUME LimitAssumption == Limit \in [Owners -> Nat]
ASSUME BoundsAssumption ==
  /\ MaxBatch \in Nat \ {0} /\ MaxPeriod \in Nat
  /\ UintSize \in Nat /\ UintSize > MaxBatch /\ UintSize > 1
ASSUME FaultsAssumption ==
  /\ Codes \subseteq ErrorCodes
  /\ Failing \subseteq Calls
  /\ Lossy \subseteq Failing
  /\ Crashes \in BOOLEAN

VARIABLES
  (* a goroutine *)
  pc,            \* the call it waits for, or idle, done, crashed
  req,           \* the submission it serves
  permit,        \* var permit model.Permit of SubmitPermittedEvents
  resp,          \* the named results resp and err of SubmitPermittedEvents
  http,          \* the HTTP status answered, 0 before
  (* the wire *)
  net,           \* calls a service has not handled
  reply,         \* the result waiting for the goroutine
  (* the usage service *)
  usage,         \* owner -> counted in the current period
  exhausted,     \* owner -> whether the limit was reached since the reset
  period,        \* owner -> number of resets
  granted,       \* history: request -> what its Allocate was granted
  released,      \* history: request -> what its Release gave back
  stale,         \* history: owner -> counts of earlier periods given back
                 \* in the current one
  (* the events service *)
  accepted,      \* request -> events of its batch that are in the stream
  noticed        \* requests whose limit notice the events service handled

goroutine == <<pc, req, permit, resp, http>>
wire == <<net, reply>>
usageSvc == <<usage, exhausted, period, granted, released, stale>>
stream == <<accepted, noticed>>
vars == <<pc, req, permit, resp, http, net, reply, usage, exhausted, period,
          granted, released, stale, accepted, noticed>>

(***************************************************************************)
(* Values                                                                  *)
(***************************************************************************)
States == {"idle", "done", "crashed"} \cup Calls

Permit == [count : 0..MaxBatch, user : Owners, just : BOOLEAN]
NoPermit == [count |-> 0, user |-> NoUser, just |-> FALSE]

(* The results so far: the code is none until the submission ends.         *)
Result == [ack : 0..MaxBatch, code : ErrorCodes \cup {"OK", "none"}]
NoResult == [ack |-> 0, code |-> "none"]

Message == [r : Requests, call : Calls, user : Users, count : 0..(UintSize - 1)]

(* One shape for every reply: Allocate answers a permit, PublishBatch an   *)
(* AckCount and Release nothing.                                           *)
NoReply == [has |-> FALSE, count |-> 0, user |-> NoUser, just |-> FALSE]
Reply == [has : BOOLEAN, count : 0..MaxBatch, user : Owners, just : BOOLEAN]
Ack(k) == [has |-> TRUE, count |-> k, user |-> NoUser, just |-> FALSE]

NoGrant == [count |-> 0, user |-> NoUser, period |-> 0, some |-> FALSE, full |-> FALSE]
Grant == [count : 0..MaxBatch, user : Owners, period : 0..MaxPeriod,
          some : BOOLEAN, full : BOOLEAN]

HttpStatuses == {0, 200, 400, 401, 404, 408, 409, 429, 500, 503}

(* A defect: an acknowledged count of 0 is taken for success.              *)
HttpStatusOfError(ack, code) ==
  CASE code = "OK" -> 200 [] code = "ResourceExhausted" -> 429 [] OTHER -> 500

(* The status of the answer, from the results of the submission.           *)
HttpStatus(ack, code) ==
  CASE code = "OK" /\ ack = 0 -> 503
    [] code = "OK" /\ ack # 0 -> 200
    [] code = "NotFound" -> 404
    [] code = "AlreadyExists" -> 409
    [] code = "Unauthenticated" -> 401
    [] code = "DeadlineExceeded" -> 408
    [] code = "InvalidArgument" -> 400
    [] code = "ResourceExhausted" -> 429
    [] code = "Unavailable" -> 503
    [] OTHER -> 500

(* decodeError of the permits client followed by encodeError of the        *)
(* publisher: which code of Allocate is left of the error it returned.     *)
encodeError(code) ==
  IF code \in {"InvalidArgument", "NotFound", "Unauthenticated"}
  THEN "Unknown" ELSE "Internal"

(* A defect: the operands swapped.                                         *)
MinusSwapped(a, b) == IF a <= b THEN b - a ELSE UintSize + b - a

(* uint32 subtraction                                                      *)
Minus(a, b) == IF b <= a THEN a - b ELSE UintSize + a - b

Smaller(a, b) == IF a <= b THEN a ELSE b

Init ==
  /\ pc = [r \in Requests |-> "idle"]
  /\ req \in [Requests -> Submissions]
  /\ permit = [r \in Requests |-> NoPermit]
  /\ resp = [r \in Requests |-> NoResult]
  /\ http = [r \in Requests |-> 0]
  /\ net = {}
  /\ reply = [r \in Requests |-> NoReply]
  /\ usage = [o \in Owners |-> 0]
  /\ exhausted = [o \in Owners |-> FALSE]
  /\ period = [o \in Owners |-> 0]
  /\ granted = [r \in Requests |-> NoGrant]
  /\ released = [r \in Requests |-> 0]
  /\ stale = [o \in Owners |-> 0]
  /\ accepted = [r \in Requests |-> 0]
  /\ noticed = {}

(***************************************************************************)
(* The goroutine                                                           *)
(***************************************************************************)

(* Start a call, `left` being what is left on the wire of the previous one.*)
Call(r, left, call, user, count) ==
  /\ pc' = [pc EXCEPT ![r] = call]
  /\ net' = left \cup {[r |-> r, call |-> call, user |-> user, count |-> count]}

(* The end of handler.write: the answer, nothing is called any more.       *)
Respond(r, left, ack, code) ==
  /\ pc' = [pc EXCEPT ![r] = "done"]
  /\ http' = [http EXCEPT ![r] = HttpStatus(ack, code)]
  /\ net' = left

(* A defect: the whole permit is released whatever was published.          *)
SettleAll(r, left, p, ack, code) ==
  /\ resp' = [resp EXCEPT ![r] = [ack |-> ack, code |-> code]]
  /\ \/ p.count > 0 /\ Call(r, left, "release", p.user, p.count) /\ UNCHANGED http
     \/ p.count = 0 /\ Respond(r, left, ack, code)

(* A defect: an early return with an error skips the release.              *)
SettleAnswered(r, left, p, ack, code) ==
  LET unusedCount == p.count - ack
  IN  /\ resp' = [resp EXCEPT ![r] = [ack |-> ack, code |-> code]]
      /\ \/ code = "OK" /\ unusedCount > 0
            /\ Call(r, left, "release", p.user, unusedCount) /\ UNCHANGED http
         \/ (code # "OK" \/ unusedCount = 0) /\ Respond(r, left, ack, code)

(* A defect: the acknowledged count is used whether or not there is an     *)
(* error.                                                                  *)
SettleUnchecked(r, left, p, ack, code) ==
  LET unusedCount == Minus(p.count, ack)
  IN  /\ resp' = [resp EXCEPT ![r] = [ack |-> ack, code |-> code]]
      /\ \/ unusedCount > 0 /\ Call(r, left, "release", p.user, unusedCount)
            /\ UNCHANGED http
         \/ unusedCount = 0 /\ Respond(r, left, ack, code)

(* The end of SubmitPermittedEvents: release what the permit p grants and  *)
(* the submission, with results ack and code, did not use.                 *)
Settle(r, left, p, ack, code) ==
  LET usedCount == IF code = "OK" THEN ack ELSE 0
      unusedCount == Minus(p.count, usedCount)
  IN  /\ resp' = [resp EXCEPT ![r] = [ack |-> ack, code |-> code]]
      /\ \/ unusedCount > 0 /\ Call(r, left, "release", p.user, unusedCount)
            /\ UNCHANGED http
         \/ unusedCount = 0 /\ Respond(r, left, ack, code)

(* Publish n events of the batch, with ack in the results so far.          *)
PublishBatch(r, left, p, ack, n) ==
  /\ Call(r, left, "publish", p.user, n)
  /\ resp' = [resp EXCEPT ![r] = [ack |-> ack, code |-> "none"]]
  /\ UNCHANGED http

(* A defect: a partial permit does not cut the batch.                      *)
applyPermitUncut(r, left, p, ack) ==
  \/ p.count = 0 /\ Settle(r, left, p, ack, "ResourceExhausted")
  \/ p.count > 0 /\ PublishBatch(r, left, p, ack, req[r].n)

(* A defect: an empty permit is not an error.                              *)
applyPermitEmpty(r, left, p, ack) ==
  PublishBatch(r, left, p, ack, IF p.count = 0 THEN req[r].n ELSE p.count)

(* utilizePermit from applyPermit on: an empty permit is an error, any     *)
(* other one publishes as many events of the batch as it counts.  What the *)
(* notice left in the results stays there until a publication is answered. *)
applyPermit(r, left, p, ack) ==
  \/ p.count = 0 /\ Settle(r, left, p, ack, "ResourceExhausted")
  \/ p.count > 0 /\ PublishBatch(r, left, p, ack, p.count)

(* notifyLimitReached sends something: there is an owner of the limit and  *)
(* it is not the source itself.                                            *)
NoticeDue(r, p) ==
  p.just /\ p.user # NoUser /\ (req[r].n = 0 \/ p.user # req[r].src)

(* handler.write calls SubmitPermittedEvents or SubmitInternalEvents.      *)
Submit(r) ==
  /\ pc[r] = "idle"
  /\ IF req[r].internal
     THEN Call(r, net, "publish", NoUser, req[r].n)
     ELSE Call(r, net, "allocate", req[r].user, req[r].n)
  /\ UNCHANGED <<req, permit, resp, http, reply, usageSvc, stream>>

Waits(r, call) == pc[r] = call
Answered(r, call) == Waits(r, call) /\ reply[r].has

(* What may be left on the wire when a call fails: the call was refused    *)
(* and is never executed, or, if it is lossy, it was or may yet be.        *)
Leftovers(r, call) ==
  (IF call \in Failing
     THEN {net \ {m} : m \in {x \in net : x.r = r /\ x.call = call}} ELSE {})
  \cup (IF call \in Lossy THEN {net} ELSE {})

AllocateReturns(r) ==
  /\ Answered(r, "allocate")
  /\ LET p == [count |-> reply[r].count, user |-> reply[r].user, just |-> reply[r].just]
     IN  /\ permit' = [permit EXCEPT ![r] = p]
         /\ \/ NoticeDue(r, p) /\ Call(r, net, "notify", p.user, 1) /\ UNCHANGED <<resp, http>>
            \/ ~NoticeDue(r, p) /\ applyPermit(r, net, p, 0)
  /\ reply' = [reply EXCEPT ![r] = NoReply]
  /\ UNCHANGED <<req, usageSvc, stream>>

AllocateFails(r) ==
  /\ Waits(r, "allocate")
  /\ \E left \in Leftovers(r, "allocate"), c \in Codes :
       Settle(r, left, NoPermit, 0, encodeError(c))
  /\ reply' = [reply EXCEPT ![r] = NoReply]
  /\ UNCHANGED <<req, permit, usageSvc, stream>>

(* The acknowledged count of the notice is left in the results.            *)
NotifyReturns(r) ==
  /\ Answered(r, "notify")
  /\ applyPermit(r, net, permit[r], reply[r].count)
  /\ reply' = [reply EXCEPT ![r] = NoReply]
  /\ UNCHANGED <<req, permit, usageSvc, stream>>

(* A defect: the failure of the notice is ignored.                         *)
NotifyFailsIgnored(r) ==
  /\ Waits(r, "notify")
  /\ \E left \in Leftovers(r, "notify") : applyPermit(r, left, permit[r], 0)
  /\ reply' = [reply EXCEPT ![r] = NoReply]
  /\ UNCHANGED <<req, permit, usageSvc, stream>>

(* A failed notice fails the submission before anything is published.      *)
NotifyFails(r) ==
  /\ Waits(r, "notify")
  /\ \E left \in Leftovers(r, "notify"), c \in Codes :
       Settle(r, left, permit[r], 0, c)
  /\ reply' = [reply EXCEPT ![r] = NoReply]
  /\ UNCHANGED <<req, permit, usageSvc, stream>>

PublishReturns(r) ==
  /\ Answered(r, "publish")
  /\ IF req[r].internal
     THEN /\ resp' = [resp EXCEPT ![r] = [ack |-> reply[r].count, code |-> "OK"]]
          /\ Respond(r, net, reply[r].count, "OK")
     ELSE Settle(r, net, permit[r], reply[r].count, "OK")
  /\ reply' = [reply EXCEPT ![r] = NoReply]
  /\ UNCHANGED <<req, permit, usageSvc, stream>>

(* A publication that failed leaves the results as they were.              *)
PublishFails(r) ==
  /\ Waits(r, "publish")
  /\ \E left \in Leftovers(r, "publish"), c \in Codes :
       IF req[r].internal
       THEN /\ resp' = [resp EXCEPT ![r] = [ack |-> 0, code |-> c]]
            /\ Respond(r, left, 0, c)
       ELSE Settle(r, left, permit[r], resp[r].ack, c)
  /\ reply' = [reply EXCEPT ![r] = NoReply]
  /\ UNCHANGED <<req, permit, usageSvc, stream>>

(* The error of Release is ignored.                                        *)
ReleaseEnds(r) ==
  /\ Waits(r, "release")
  /\ \E left \in Leftovers(r, "release") \cup (IF reply[r].has THEN {net} ELSE {}) :
       Respond(r, left, resp[r].ack, resp[r].code)
  /\ reply' = [reply EXCEPT ![r] = NoReply]
  /\ UNCHANGED <<req, permit, resp, usageSvc, stream>>

(* The replica dies: calls already sent stay on the wire.                  *)
Crash(r) ==
  /\ Crashes
  /\ pc[r] \in Calls
  /\ pc' = [pc EXCEPT ![r] = "crashed"]
  /\ reply' = [reply EXCEPT ![r] = NoReply]
  /\ UNCHANGED <<req, permit, resp, http, net, usageSvc, stream>>

(***************************************************************************)
(* The services: they execute a call, and the reply reaches the goroutine  *)
(* if it still waits for it.                                               *)
(***************************************************************************)
Deliver(m, rep) ==
  /\ net' = net \ {m}
  /\ reply' = IF Waits(m.r, m.call) THEN [reply EXCEPT ![m.r] = rep] ELSE reply

(* Allocate grants what is left of the limit that applies to the user.     *)
UsageAllocates(m) ==
  /\ m.call = "allocate"
  /\ LET o == IF m.user \in Dedicated THEN m.user ELSE NoUser
         free == Limit[o] - usage[o]
         count == Smaller(m.count, free)
         full == count = free
     IN  /\ usage' = [usage EXCEPT ![o] = @ + count]
         /\ exhausted' = [exhausted EXCEPT ![o] = @ \/ full]
         /\ granted' = [granted EXCEPT ![m.r] =
              [count |-> count, user |-> o, period |-> period[o],
               some |-> TRUE, full |-> free = 0]]
         /\ Deliver(m, [has |-> TRUE, count |-> count, user |-> o,
                        just |-> full /\ ~exhausted[o]])
  /\ UNCHANGED <<goroutine, period, released, stale, stream>>

(* Release decrements the counter, whichever period the count was          *)
(* allocated in: the call does not say.                                    *)
UsageReleases(m) ==
  /\ m.call = "release"
  /\ LET o == m.user
         count == Smaller(m.count, usage[o])
     IN  /\ usage' = [usage EXCEPT ![o] = @ - count]
         /\ stale' = IF granted[m.r].period = period[o]
                     THEN stale ELSE [stale EXCEPT ![o] = @ + m.count]
  /\ released' = [released EXCEPT ![m.r] = @ + m.count]
  /\ Deliver(m, Ack(0))
  /\ UNCHANGED <<goroutine, exhausted, period, granted, stream>>

(* The counter of an owner starts again.                                   *)
Reset(o) ==
  /\ period[o] < MaxPeriod
  /\ period' = [period EXCEPT ![o] = @ + 1]
  /\ usage' = [usage EXCEPT ![o] = 0]
  /\ exhausted' = [exhausted EXCEPT ![o] = FALSE]
  /\ stale' = [stale EXCEPT ![o] = 0]
  /\ UNCHANGED <<goroutine, wire, granted, released, stream>>

(* PublishBatch puts a prefix of the batch into the stream.                *)
EventsPublishes(m) ==
  /\ m.call = "publish"
  /\ \E k \in 0..m.count :
       /\ accepted' = [accepted EXCEPT ![m.r] = @ + k]
       /\ Deliver(m, Ack(k))
  /\ UNCHANGED <<goroutine, usageSvc, noticed>>

(* PublishBatch of the notice: one event, acknowledged or not.             *)
EventsNotifies(m) ==
  /\ m.call = "notify"
  /\ \E k \in 0..m.count : Deliver(m, Ack(k))
  /\ noticed' = noticed \cup {m.r}
  /\ UNCHANGED <<goroutine, usageSvc, accepted>>

Handle(m) ==
  \/ UsageAllocates(m)
  \/ UsageReleases(m)
  \/ EventsPublishes(m)
  \/ EventsNotifies(m)

Goroutine(r) ==
  \/ Submit(r)
  \/ AllocateReturns(r)
  \/ AllocateFails(r)
  \/ NotifyReturns(r)
  \/ NotifyFails(r)
  \/ PublishReturns(r)
  \/ PublishFails(r)
  \/ ReleaseEnds(r)

Over == \A r \in Requests : pc[r] \in {"done", "crashed"}
Terminating == Over /\ UNCHANGED vars

Next ==
  \/ \E r \in Requests : Goroutine(r)
  \/ \E r \in Requests : Crash(r)
  \/ \E m \in net : Handle(m)
  \/ \E o \in Owners : Reset(o)
  \/ Terminating

Spec == Init /\ [][Next]_vars

(* Go schedules a runnable goroutine, and a service that is up handles     *)
(* what it is sent.  Nothing makes a replica die or a counter be reset.    *)
Fairness ==
  /\ \A r \in Requests : WF_vars(Goroutine(r))
  /\ \A r \in Requests, c \in Calls :
       WF_vars(\E m \in net : m.r = r /\ m.call = c /\ Handle(m))

FairSpec == Spec /\ Fairness
(***************************************************************************)
(* Properties                                                              *)
(***************************************************************************)

(* Every variable has its type; in particular no count is ever negative,   *)
(* wraps around, or exceeds the batch, and no owner uses more than his     *)
(* limit.                                                                  *)
TypeOK ==
  /\ pc \in [Requests -> States]
  /\ req \in [Requests -> Submissions]
  /\ permit \in [Requests -> Permit]
  /\ resp \in [Requests -> Result]
  /\ http \in [Requests -> HttpStatuses]
  /\ net \subseteq Message
  /\ reply \in [Requests -> Reply]
  /\ usage \in [Owners -> Nat]
  /\ \A o \in Owners : usage[o] <= Limit[o]
  /\ exhausted \in [Owners -> BOOLEAN]
  /\ period \in [Owners -> 0..MaxPeriod]
  /\ granted \in [Requests -> Grant]
  /\ released \in [Requests -> 0..MaxBatch]
  /\ stale \in [Owners -> Nat]
  /\ accepted \in [Requests -> 0..MaxBatch]
  /\ noticed \subseteq Requests

(* The events counted against owner o in his current period, as pairs of a *)
(* request and an index: count[r] of them for request r.                   *)
Units(o, count) ==
  {u \in Requests \X (1..MaxBatch) :
     /\ granted[u[1]].some
     /\ granted[u[1]].user = o
     /\ granted[u[1]].period = period[o]
     /\ u[2] <= count[u[1]]}

acked == [r \in Requests |-> IF resp[r].code = "OK" THEN resp[r].ack ELSE 0]

(* What a request holds of its grant.                                      *)
held == [r \in Requests |-> granted[r].count - released[r]]

(* Whatever fails, is lost, is late or dies: what is counted against an    *)
(* owner is what his requests hold of their permits.  Nobody is charged    *)
(* for a permit that was given back, or for somebody else's, and a permit  *)
(* that is held stays counted, but for the counts of an earlier period     *)
(* that a late Release takes off the counter of this one.                  *)
CountedIsHeld ==
  \A o \in Owners :
    LET units == Cardinality(Units(o, held))
    IN  usage[o] <= units /\ units <= usage[o] + stale[o]

(* Whatever fails, is lost, is late or dies: the events acknowledged to    *)
(* clients never exceed the owner's limit of the period, but for counts of *)
(* an earlier period that a late Release gave back after the reset         *)
(* (SubmitPermittedEvents releases without naming the period).             *)
AckedWithinLimit ==
  \A o \in Owners : Cardinality(Units(o, acked)) <= Limit[o] + stale[o]

(* Whatever fails: the stream never gets more events of a batch than the   *)
(* usage service granted to it (applyPermit).                              *)
PublishedWithinPermit ==
  \A r \in Requests : ~req[r].internal => accepted[r] <= granted[r].count

(* Whatever fails: the request that exhausts a limit publishes nothing     *)
(* before the events service handled its notice to the limit's owner       *)
(* (utilizePermit).                                                        *)
NoticeBeforeEvents ==
  \A r \in Requests :
    ~req[r].internal /\ accepted[r] > 0 /\ NoticeDue(r, permit[r]) => r \in noticed

(* Release "decrements the usage counter by the specified count when a     *)
(* client fails to utilize all permits" (permits/service.go:27): no unit   *)
(* is both released and used for an event in the stream.                   *)
ReleasesOnlyUnutilized ==
  \A r \in Requests :
    ~req[r].internal => released[r] + accepted[r] <= granted[r].count

(* As long as a failed PublishBatch was not executed, the limit holds for  *)
(* the stream itself, whatever else fails.                                 *)
StreamWithinLimit ==
  \A o \in Owners : Cardinality(Units(o, accepted)) <= Limit[o] + stale[o]

(* As long as a failed PublishBatch was not executed, the status tells the *)
(* client whether events of its batch are in the stream.                   *)
AnswerTruthful ==
  \A r \in Requests : http[r] # 0 => (http[r] = 200 <=> accepted[r] > 0)

(* As long as Release does not fail and no Allocate or PublishBatch that   *)
(* failed was executed: whoever is answered, by success or by any error,   *)
(* keeps of his permit just what he has in the stream (the end of          *)
(* SubmitPermittedEvents).                                                 *)
ReturnedWhenAnswered ==
  \A r \in Requests :
    pc[r] = "done" /\ ~req[r].internal => released[r] + accepted[r] = granted[r].count

(* When releases do not fail and no replica dies, every permit that was    *)
(* not used is given back in the end: what is counted against an owner is  *)
(* what he has in the stream.                                              *)
PermitsReturned ==
  <>[](\A o \in Owners : usage[o] = Cardinality(Units(o, accepted)))

(* The promise of the whole path, PublishQuota: a request publishes at     *)
(* once, within the limit, and is then answered truthfully.                *)
Quota == INSTANCE PublishQuota WITH
  Nobody <- "nobody",
  owner <- [r \in Requests |->
              IF req[r].internal THEN "nobody"
              ELSE IF req[r].user \in Dedicated THEN req[r].user ELSE NoUser],
  published <- accepted,
  verdict <- [r \in Requests |->
                CASE http[r] = 0 -> "none" [] http[r] = 200 -> "accepted" [] OTHER -> "refused"]

(* Without resets, lost replies and crashes the gateway implements it.     *)
ImplementsQuota == Quota!FairSpec
=============================================================================
