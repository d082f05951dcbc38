------------------------------ MODULE Gateway ------------------------------
(***************************************************************************)
(* One replica of the gateway as its clients see it: the routes of main.go *)
(* with what runs before and around the handlers.  Authorize asks the auth *)
(* service about the sender and leaves his ids in the context of the       *)
(* request; an internal event waits for the rate limiter; handler.write    *)
(* stamps the events with the ids of the context and submits them under    *)
(* the same ids; a login is passed to one replica of the Telegram source.  *)
(*                                                                         *)
(* The parts that have a module of their own appear with what is promised  *)
(* of them: the filter cuts a batch before its last rejected event (see    *)
(* CutBeforeLastRejected of WriteFilter), the publisher calls for the user *)
(* it is told, its notices left out (see Publisher), a source handler does *)
(* what it does for the user it is told (SourceHandler).                   *)
(***************************************************************************)
EXTENDS Integers, Sequences, FiniteSets

CONSTANTS
  Requests,      \* HTTP requests
  Workloads,     \* what the requests may ask for together, see QueryType
  Users,         \* user ids
  NoUser,        \* the empty user id: the owner of the limit of the group
  Groups,        \* group ids
  NoGroup,       \* the empty group id
  Dedicated,     \* users with a publishing limit of their own
  Limit,         \* owner -> events
  MaxBatch,      \* bound on the events of a batch
  Interval,      \* of the permissions of the rate limiter: a minute / its rate
  Slack,         \* permissions the limiter saves up: 10
  MaxTime,       \* bound on the clock
  MaxPeriod,     \* bound on the resets of a usage counter
  MaxStarts      \* bound on the starts of the replica

Owners == Dedicated \cup {NoUser}
Routes == {"write", "internal", "source", "login"}

(* bad: the filter rejects it; user and group: the values of the gateway's *)
(* own attributes in the body, empty if there are none.                    *)
EventType == [bad : BOOLEAN, user : Users, group : Groups]

(* header: the Authorization header is missing, without the prefix of a    *)
(* token, or has a token.  parses: the body is what the handler expects.   *)
QueryType ==
  [route : Routes, header : {"none", "other", "bearer"}, user : Users,
   group : Groups, parses : BOOLEAN, batch : Seq(EventType)]

ASSUME RequestsAssumption == IsFiniteSet(Requests)
ASSUME WorkloadsAssumption ==
  \A load \in Workloads :
    /\ load \in [Requests -> QueryType]
    /\ \A r \in Requests : Len(load[r].batch) <= MaxBatch
    /\ \A r \in Requests : load[r].route = "internal" => Len(load[r].batch) = 1
ASSUME UsersAssumption == NoUser \in Users /\ Dedicated \subseteq Users
ASSUME GroupsAssumption == NoGroup \in Groups
ASSUME LimitAssumption == Limit \in [Owners -> Nat]
ASSUME BoundsAssumption ==
  /\ MaxBatch \in Nat /\ MaxPeriod \in Nat /\ Slack \in Nat
  /\ Interval \in Nat \ {0} /\ MaxTime \in Nat \ {0} /\ MaxStarts \in Nat \ {0}

VARIABLES
  pc,            \* what a request does next, or idle, done, crashed
  query,         \* what it asks for
  verdict,       \* history: what the auth service decided about it
  ctx,           \* the ids in its gin.Context
  slot,          \* when the limiter lets it go on, 0 if it never asked
  sent,          \* the events it submitted
  ack,           \* resp.AckCount of its submission, 0 if it failed
  net,           \* calls of the publisher that are not executed yet
  http,          \* the status answered, 0 before
  nextSlot,      \* the limiter's last permission, 0 before the first
  now,           \* the clock
  starts,        \* history: starts of the replica
  usage,         \* the usage service: owner -> counted in his period
  period,        \* the usage service: owner -> resets of his counter
  held,          \* history: request -> permits it was granted, less those
                 \* it gave back
  stream,        \* the events service: request -> its events in the stream
  calls,         \* the registries: <<request, user id it acts for>>
  logins         \* Telegram: request -> what the replica made of its code

session == <<query, verdict, ctx>>
limiter == <<slot, nextSlot, now, starts>>
services == <<usage, period, held, stream>>
submission == <<sent, ack, net, services>>
elsewhere == <<calls, logins>>
vars == <<pc, query, verdict, ctx, slot, sent, ack, net, http, nextSlot, now, starts,
          usage, period, held, stream, calls, logins>>

NoCtx == [user |-> NoUser, group |-> NoGroup]
Over == {"idle", "done", "crashed"}
Calls == {"allocate", "publish", "release"}
Steps == Over \cup Calls \cup {"authenticate", "take", "sleep", "body", "source", "login"}
Message == [r : Requests, call : Calls, count : 0..MaxBatch]
Statuses == {0, 200, 202, 400, 401, 403, 423, 500, 503}
Verdicts == {"OK", "Unauthenticated", "InvalidArgument"}
Logins == {"none", "accepted", "rejected"}

Init ==
  /\ pc = [r \in Requests |-> "idle"]
  /\ query \in Workloads
  /\ verdict = [r \in Requests |-> "none"]
  /\ ctx = [r \in Requests |-> NoCtx]
  /\ slot = [r \in Requests |-> 0]
  /\ sent = [r \in Requests |-> <<>>]
  /\ ack = [r \in Requests |-> 0]
  /\ net = {}
  /\ http = [r \in Requests |-> 0]
  /\ nextSlot = 0
  /\ now = 1
  /\ starts = 1
  /\ usage = [o \in Owners |-> 0]
  /\ period = [o \in Owners |-> 0]
  /\ held = [r \in Requests |-> 0]
  /\ stream = [r \in Requests |-> <<>>]
  /\ calls = {}
  /\ logins = [r \in Requests |-> "none"]

GoTo(r, step) == pc' = [pc EXCEPT ![r] = step] /\ UNCHANGED http

Respond(r, status) ==
  /\ pc' = [pc EXCEPT ![r] = "done"]
  /\ http' = [http EXCEPT ![r] = status]

(***************************************************************************)
(* Authorize, in front of every route                                      *)
(***************************************************************************)
Arrive(r) ==
  /\ pc[r] = "idle"
  /\ \/ query[r].header = "bearer" /\ GoTo(r, "authenticate")
     \/ query[r].header # "bearer" /\ Respond(r, 401)
  /\ UNCHANGED <<session, limiter, submission, elsewhere>>

(* A defect: every new event waits for the limiter.                        *)
HandlerOfLimited(route) ==
  CASE route \in {"write", "internal"} -> "take" [] route = "source" -> "source" [] route = "login" -> "login"

(* The handler of a route and what it does first.                          *)
HandlerOf(route) ==
  CASE route = "write" -> "body"
    [] route = "internal" -> "take"
    [] route = "source" -> "source"
    [] route = "login" -> "login"

AuthStatus(code) ==
  CASE code = "Unauthenticated" -> 401 [] code = "InvalidArgument" -> 400 [] OTHER -> 500

(* The auth service decides about the sender, and its answer may be lost.  *)
AuthResults(v) == {v, "Unavailable"}

(* A defect: a refused request is answered, but not aborted.               *)
AuthorizeWithoutAbort(r) ==
  /\ pc[r] = "authenticate"
  /\ \E v \in Verdicts : \E code \in AuthResults(v) :
       /\ verdict' = [verdict EXCEPT ![r] = v]
       /\ ctx' = IF code = "OK"
                 THEN [ctx EXCEPT ![r] = [user |-> query[r].user, group |-> query[r].group]]
                 ELSE ctx
       /\ GoTo(r, HandlerOf(query[r].route))
  /\ UNCHANGED <<query, limiter, submission, elsewhere>>

Authorize(r) ==
  /\ pc[r] = "authenticate"
  /\ \E v \in Verdicts : \E code \in AuthResults(v) :
       /\ verdict' = [verdict EXCEPT ![r] = v]
       /\ \/ code = "OK" /\ GoTo(r, HandlerOf(query[r].route))
             /\ ctx' = [ctx EXCEPT ![r] = [user |-> query[r].user, group |-> query[r].group]]
          \/ code # "OK" /\ Respond(r, AuthStatus(code)) /\ UNCHANGED ctx
  /\ UNCHANGED <<query, limiter, submission, elsewhere>>

(***************************************************************************)
(* WriteInternal: the rate limiter                                         *)
(***************************************************************************)

(* A defect: a new limiter starts with permissions saved up.               *)
PermissionSavedUp ==
  IF nextSlot = 0 \/ now - nextSlot > (Slack + 1) * Interval
  THEN now - (Slack + 1) * Interval
  ELSE nextSlot + Interval

(* The permission after nextSlot: one interval later, but no earlier than  *)
(* now less what the limiter may have saved up.                            *)
Permission ==
  IF nextSlot = 0 THEN now
  ELSE IF now - nextSlot > (Slack + 1) * Interval THEN now - Slack * Interval
  ELSE nextSlot + Interval

(* A defect: every request has a limiter of its own.                       *)
TakeOfOwn(r) ==
  /\ pc[r] = "take"
  /\ slot' = [slot EXCEPT ![r] = now]
  /\ GoTo(r, "sleep")
  /\ UNCHANGED <<session, nextSlot, now, starts, submission, elsewhere>>

(* A defect: the middleware and the handler each take a permission.        *)
TakeTwice(r) ==
  /\ pc[r] = "take"
  /\ slot' = [slot EXCEPT ![r] = Permission]
  /\ nextSlot' = Permission + Interval
  /\ GoTo(r, "sleep")
  /\ UNCHANGED <<session, now, starts, submission, elsewhere>>

Take(r) ==
  /\ pc[r] = "take"
  /\ slot' = [slot EXCEPT ![r] = Permission]
  /\ nextSlot' = Permission
  /\ GoTo(r, "sleep")
  /\ UNCHANGED <<session, now, starts, submission, elsewhere>>

Wake(r) ==
  /\ pc[r] = "sleep" /\ now >= slot[r]
  /\ GoTo(r, "body")
  /\ UNCHANGED <<session, limiter, submission, elsewhere>>

(***************************************************************************)
(* Write, WriteBatch, WriteInternal and handler.write                      *)
(***************************************************************************)

(* A defect: attributes of the body are kept.                              *)
StampIfMissing(e, c) ==
  [e EXCEPT !.user = IF @ = NoUser THEN c.user ELSE @,
            !.group = IF @ = NoGroup THEN c.group ELSE @]

Stamp(e, c) == [e EXCEPT !.user = c.user, !.group = c.group]

Rejected(q) == {j \in 1..Len(q.batch) : q.route = "write" /\ q.batch[j].bad}

(* n events are left of a batch: those before the last rejected one.       *)
CutTo(q, n) ==
  IF Rejected(q) = {} THEN n = Len(q.batch)
  ELSE n + 1 \in Rejected(q) /\ \A j \in Rejected(q) : j <= n + 1

(* r starts a call, left being what is left on the wire.                   *)
Call(r, left, call, count) ==
  /\ GoTo(r, call)
  /\ net' = left \cup {[r |-> r, call |-> call, count |-> count]}

(* The answer to a submission of which n events were acknowledged; 503     *)
(* stands for every error, see HttpStatus of Publisher.                    *)
Answer(r, left, n) ==
  /\ net' = left
  /\ Respond(r, IF n > 0 THEN 200 ELSE 503)

(* The body is read, parsed and filtered, the rest of the batch stamped    *)
(* and submitted.  A body that does not parse is answered with an empty    *)
(* 200.                                                                    *)
Write(r) ==
  /\ pc[r] = "body"
  /\ LET q == query[r]
     IN  \/ ~q.parses /\ Respond(r, 200) /\ UNCHANGED <<sent, net>>
         \/ q.parses /\ 1 \in Rejected(q) /\ Respond(r, 403) /\ UNCHANGED <<sent, net>>
         \/ /\ q.parses /\ 1 \notin Rejected(q)
            /\ \E n \in 0..Len(q.batch) :
                 /\ CutTo(q, n)
                 /\ sent' = [sent EXCEPT ![r] = [j \in 1..n |-> Stamp(q.batch[j], ctx[r])]]
                 /\ Call(r, net, IF q.route = "write" THEN "allocate" ELSE "publish", n)
  /\ UNCHANGED <<session, limiter, ack, services, elsewhere>>

(***************************************************************************)
(* The publisher and the services it calls.  A call and its answer are one *)
(* step, unless nobody waits for the answer any more.                      *)
(***************************************************************************)
Waits(m) == pc[m.r] = m.call

Unheard(m) == ~Waits(m) /\ net' = net \ {m} /\ UNCHANGED <<pc, http, ack>>

(* The end of the submission: n events are acknowledged, and what is left  *)
(* of the permit is released.                                              *)
Settle(r, left, unused, n) ==
  /\ ack' = [ack EXCEPT ![r] = n]
  /\ \/ unused > 0 /\ Call(r, left, "release", unused)
     \/ unused = 0 /\ Answer(r, left, n)

(* What is left of the permit of m, if it is a publication with a permit.  *)
Unused(m, n) ==
  IF m.call = "publish" /\ query[m.r].route = "write" THEN m.count - n ELSE 0

(* A defect: the ids are swapped in the call of the publisher.             *)
OwnerOfSwapped(r) == IF ctx[r].group \in Dedicated THEN ctx[r].group ELSE NoUser

(* Whose counter the permits of r are taken from: the publisher is told    *)
(* the user id of the context.                                             *)
OwnerOf(r) == IF ctx[r].user \in Dedicated THEN ctx[r].user ELSE NoUser

Smaller(a, b) == IF a <= b THEN a ELSE b

Allocate(m) ==
  /\ m.call = "allocate"
  /\ LET o == OwnerOf(m.r)
         count == Smaller(m.count, Limit[o] - usage[o])
     IN  /\ usage' = [usage EXCEPT ![o] = @ + count]
         /\ held' = [held EXCEPT ![m.r] = @ + count]
         /\ \/ Unheard(m)
            \/ Waits(m) /\ count = 0 /\ Settle(m.r, net \ {m}, 0, 0)
            \/ Waits(m) /\ count > 0 /\ Call(m.r, net \ {m}, "publish", count) /\ UNCHANGED ack
  /\ UNCHANGED <<session, limiter, sent, period, stream, elsewhere>>

(* The events service puts some of the events into the stream.             *)
Publish(m) ==
  /\ m.call = "publish"
  /\ \E k \in 0..m.count :
       /\ stream' = [stream EXCEPT ![m.r] = SubSeq(sent[m.r], 1, k)]
       /\ \/ Unheard(m)
          \/ Waits(m) /\ Settle(m.r, net \ {m}, Unused(m, k), k)
  /\ UNCHANGED <<session, limiter, sent, usage, period, held, elsewhere>>

(* The usage service takes the permits off the counter, whichever period   *)
(* they are of.                                                            *)
Release(m) ==
  /\ m.call = "release"
  /\ LET o == OwnerOf(m.r)
     IN  usage' = [usage EXCEPT ![o] = @ - Smaller(m.count, @)]
  /\ held' = [held EXCEPT ![m.r] = @ - m.count]
  /\ \/ Unheard(m)
     \/ Waits(m) /\ Answer(m.r, net \ {m}, ack[m.r]) /\ UNCHANGED ack
  /\ UNCHANGED <<session, limiter, sent, period, stream, elsewhere>>

(* A call that the publisher takes for failed was refused, or is executed  *)
(* all the same.  What it published counts as not published; that Release  *)
(* fails is ignored.                                                       *)
Fails(m) ==
  /\ Waits(m)
  /\ \E left \in {net, net \ {m}} :
       \/ m.call # "release" /\ Settle(m.r, left, Unused(m, 0), 0)
       \/ m.call = "release" /\ Answer(m.r, left, ack[m.r]) /\ UNCHANGED ack
  /\ UNCHANGED <<session, limiter, sent, services, elsewhere>>

(* The counter of a period in which something was counted starts again.    *)
Reset(o) ==
  /\ period[o] < MaxPeriod /\ usage[o] > 0
  /\ period' = [period EXCEPT ![o] = @ + 1]
  /\ usage' = [usage EXCEPT ![o] = 0]
  /\ UNCHANGED <<pc, session, limiter, sent, ack, net, http, held, stream, elsewhere>>

(***************************************************************************)
(* The other routes                                                        *)
(***************************************************************************)

(* A source handler, see SourceHandler, acts for the user of the context.  *)
ServeSource(r) ==
  /\ pc[r] = "source"
  /\ calls' = calls \cup {<<r, ctx[r].user>>}
  /\ \E status \in {200, 500} : Respond(r, status)
  /\ UNCHANGED <<session, limiter, submission, logins>>

(* A defect: whatever the replica answers is a success.                    *)
LoginStatusAny(answer) == 202

LoginStatus(answer) ==
  CASE answer = "accepted" -> 202 [] answer = "rejected" -> 423 [] OTHER -> 500

(* Login: the replica cannot be dialled, or it decides about the code and  *)
(* its answer may be lost.                                                 *)
LoginResults(login) == {login, "error"} \ {"none"}

ClientLogin(r) ==
  /\ pc[r] = "login"
  /\ \/ ~query[r].parses /\ Respond(r, 400) /\ UNCHANGED logins
     \/ /\ query[r].parses
        /\ \E login \in Logins : \E answer \in LoginResults(login) :
             /\ logins' = [logins EXCEPT ![r] = login]
             /\ Respond(r, LoginStatus(answer))
  /\ UNCHANGED <<session, limiter, submission, calls>>

(***************************************************************************)
(* The replica                                                             *)
(***************************************************************************)

(* It dies with its requests and its limiter and is started again.         *)
Restart ==
  /\ starts < MaxStarts
  /\ starts' = starts + 1
  /\ nextSlot' = 0
  /\ pc' = [r \in Requests |-> IF pc[r] \in Over THEN pc[r] ELSE "crashed"]
  /\ UNCHANGED <<session, slot, now, submission, http, elsewhere>>

Tick ==
  /\ now < MaxTime
  /\ now' = now + 1
  /\ UNCHANGED <<pc, session, slot, nextSlot, starts, submission, http, elsewhere>>

Proceed(r) ==
  \/ Authorize(r)
  \/ Take(r)
  \/ Wake(r)
  \/ Write(r)
  \/ \E m \in net : m.r = r /\ (Allocate(m) \/ Publish(m) \/ Release(m) \/ Fails(m))
  \/ ServeSource(r)
  \/ ClientLogin(r)

(* The end of the clock may leave requests that wait for their permission. *)
Terminating ==
  /\ \A r \in Requests :
       pc[r] \in {"done", "crashed"} \/ (pc[r] = "sleep" /\ slot[r] > MaxTime)
  /\ UNCHANGED vars

Next ==
  \/ \E r \in Requests : Arrive(r) \/ Proceed(r)
  \/ \E o \in Owners : Reset(o)
  \/ Restart
  \/ Tick
  \/ Terminating

Spec == Init /\ [][Next]_vars

(* Time passes, a runnable goroutine runs, and services answer.  Nothing   *)
(* makes a client send a request or a replica die.                         *)
Fairness == WF_vars(Tick) /\ \A r \in Requests : WF_vars(Proceed(r))

FairSpec == Spec /\ Fairness

(***************************************************************************)
(* Properties                                                              *)
(***************************************************************************)

(* Every variable has its type.                                            *)
TypeOK ==
  /\ pc \in [Requests -> Steps]
  /\ query \in Workloads
  /\ verdict \in [Requests -> Verdicts \cup {"none"}]
  /\ ctx \in [Requests -> [user : Users, group : Groups]]
  /\ slot \in [Requests -> Nat]
  /\ sent \in [Requests -> Seq(EventType)]
  /\ ack \in [Requests -> 0..MaxBatch]
  /\ net \subseteq Message
  /\ http \in [Requests -> Statuses]
  /\ nextSlot \in Nat
  /\ now \in 1..MaxTime
  /\ starts \in 1..MaxStarts
  /\ usage \in [Owners -> Nat]
  /\ \A o \in Owners : usage[o] <= Limit[o]
  /\ period \in [Owners -> 0..MaxPeriod]
  /\ held \in [Requests -> 0..MaxBatch]
  /\ stream \in [Requests -> Seq(EventType)]
  /\ calls \subseteq Requests \X Users
  /\ logins \in [Requests -> Logins]

(* Nothing happens for a request that the auth service did not approve: it *)
(* gets no event into the stream, takes no permits, calls no registry, logs*)
(* nobody in and uses up no permission that others wait for, although the  *)
(* answer of the auth service may be lost and a handler runs whenever the  *)
(* chain is not aborted (auth.go:20-48).                                   *)
OnlyAuthenticated ==
  \A r \in Requests :
    \/ verdict[r] = "OK"
    \/ /\ \A m \in net : m.r # r
       /\ stream[r] = <<>> /\ held[r] = 0
       /\ \A c \in calls : c[1] # r
       /\ logins[r] = "none"
       /\ slot[r] = 0

(* What gets into the stream bears the user id that the auth service       *)
(* approved and the group id of the header, which it is not asked about    *)
(* (auth.go:31-35), whatever ids the body names, and a registry is called  *)
(* in the name of that user (AuthRequestContext, handler.go:148-168).      *)
InTheNameOfSender ==
  /\ \A r \in Requests : \A j \in DOMAIN stream[r] :
       stream[r][j].user = query[r].user /\ stream[r][j].group = query[r].group
  /\ \A c \in calls : c[2] = query[c[1]].user

(* The rate of internal events: a replica submits no more of them than one *)
(* per start and one per interval, however many wait, however slow their   *)
(* bodies are, and whatever the limiter saved up (handler.go:78).  Not: no *)
(* more than one in each interval, since the saved up permissions and the  *)
(* bodies read after the permission come in bursts.                        *)
InternalWithinRate ==
  (Cardinality({r \in Requests : query[r].route = "internal" /\ sent[r] # <<>>}) - starts)
    * Interval <= now - 1

(* The internal events that wait for a permission given but not yet due.  *)
Asleep == {r \in Requests : pc[r] = "sleep" /\ now < slot[r]}

(* An internal event waits no longer than one interval for every event that*)
(* waits before it and one for itself: no permission is lost or given twice*)
(* while events wait, and those that come later never push it back, however*)
(* the limiter was used before or the replica restarted (handler.go:78).   *)
PermissionInTurn ==
  \A r \in Asleep :
    slot[r] <= now + Interval * Cardinality({q \in Asleep : slot[q] <= slot[r]})

(* A login is answered by what the replica of the Telegram source made of  *)
(* the code, or with 500 (ClientLogin).                                    *)
LoginTruthful ==
  \A r \in Requests :
    /\ http[r] = 202 => logins[r] = "accepted"
    /\ http[r] = 423 => logins[r] = "rejected"

(* A request that is not answered waits for a permission that is due after *)
(* the end of the clock, and only internal events wait for permissions:    *)
(* they never keep others waiting.                                         *)
AnsweredInTime ==
  \A r \in Requests :
    pc[r] = "authenticate" ~>
      \/ pc[r] \in Over
      \/ query[r].route = "internal" /\ pc[r] = "sleep" /\ slot[r] > MaxTime

(* Whose counter the permits of a sender should be taken from.             *)
SenderOf(r) == IF query[r].user \in Dedicated THEN query[r].user ELSE NoUser

(* The events of count that are due to the sender o, as pairs of a request *)
(* and an index.                                                           *)
Units(o, count) ==
  {u \in Requests \X (1..MaxBatch) :
     query[u[1]].route = "write" /\ SenderOf(u[1]) = o /\ u[2] <= count[u[1]]}

(* What a sender is acknowledged counts against his own limit: in all that *)
(* he ever asked for, no more than his limit for every period so far,      *)
(* whomever the bodies name, whoever else sends, whatever fails, is lost,  *)
(* late or dies, although a lost reply and a late Release take events that *)
(* are in the stream off the counter (handler.go:173-178, SubmitPermitted- *)
(* Events).                                                                *)
CountedAgainstSender ==
  \A o \in Owners : Cardinality(Units(o, ack)) <= Limit[o] * (1 + period[o])
=============================================================================
