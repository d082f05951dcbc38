# Verification of awakari/pub

`pub` is the gateway through which events get into Awakari: an HTTP server in Go that authenticates a
request, filters its events by a blacklist, allocates publishing permits, publishes into the event
stream, and manages the sources that publish on their own. It keeps no data of its own; what makes it
hard is that many replicas run chains of remote calls against shared services, and every call may fail,
be lost, or be executed after the gateway gave up on it.

## Inventory

| Component (source) | State | Operations | What makes it correct |
|---|---|---|---|
| Event publisher (`api/grpc/publisher/service.go`) | per request: permit, response | `SubmitPermittedEvents`, `SubmitInternalEvents` | never more published than permitted; permits not used are returned, used ones are not; the limit notice precedes the events |
| Permits client (`api/grpc/permits`) | none; the usage service has the counters | `Request`, `Release`, `GetUsage` | errors keep their meaning; a count is released to the owner it was allocated from |
| Events client (`api/grpc/events`) | none | `PublishBatch`, `SetStream` | one call per batch |
| Publishing endpoints (`api/http/pub/handler.go`, `event.go`) | per request: the batch | `Write`, `WriteBatch`, `WriteInternal` | rejected events are not submitted; the status is true |
| Blacklist loading (`main.go:159-182`, `storage/blacklist.go`) | the trie, filled at the start | `GetPage` in a loop | complete, ends, no remains of a failed load |
| Prefix lookup (`model/prefixes.go`) | the trie | `Put`, `FindOnePrefix` | a wrapper of a library |
| Source management (`api/http/pub/src`) | none; the registries have the sources | `Create`, `Read`, `Delete`, `List` | owners are not exposed; only owners delete; the status is true |
| Registry clients (`api/grpc/source/*`, `api/grpc/tgbot`), limits client | none | one call each | proxies |
| Authentication (`api/http/auth/auth.go`, `api/grpc/auth`) | none; the context of a request has the ids | `Authorize` | nothing happens without it; the user is the one it approved (it is not asked about the group, which is the header's) |
| Telegram login (`api/http/auth/telegram.go`) | none | `ClientLogin` | the status is what the replica of the source decided |
| Connection pools (`*/client_pool.go`) | at most ten connections | take, use, give back | every request gets one in the end |
| Rate limiter of internal events (`handler.go:45,78`) | the last permission | `Take` | bounded rate; nobody else waits |
| Startup, configuration, logging, charts | - | - | - |

Components meet only in calls: a handler calls the publisher, the publisher calls the permits client and
the events client, the source handlers call the registries, then limits and usage. Within a replica
goroutines share the blacklist, which is read-only once the server runs, and the pools. Between replicas
everything goes through the external services. The hard behaviours are therefore: the order in which the
calls of concurrent requests are executed; failures after which the caller does not know whether the
call was executed; replicas that die between two calls; the reset of a usage counter in the middle of a
request; and, inside one handler, loops that carry a value or a slice from one turn to the next.
`PROJECT.json` lists every hazard with its line and the properties that cover it.

## Modules

| Module | Models | Checked by | Proved in |
|---|---|---|---|
| `Publisher` | the publisher with its two clients, the result mapping of `handler.write`, the usage and events services | `MCPublisher` | `PublisherProofs`, `PublisherStreamProofs`, `PublisherReturnsProofs` |
| `PublishQuota` | the promise of the publishing path | as a property of `Publisher` | `PublisherStreamProofs` (safety) |
| `WriteFilter` | the publishing endpoints up to the submission | `MCWriteFilter` | `WriteFilterProofs` |
| `BlacklistLoad` | the load of the blacklist against concurrent writers | `MCBlacklistLoad` | `BlacklistLoadProofs` |
| `SourceHandler` | `Create`, `Read`, `Delete`, `List` of sources against the registries | `MCSourceHandler` | `SourceHandlerProofs` |
| `SourceOwnership` | what `Create` and `Delete` promise together | as a property of `SourceHandler` | `SourceHandlerProofs` |
| `ClientPools` | the pools of connections under the calls of concurrent requests | `MCClientPools` | `ClientPoolsProofs` |
| `Gateway` | a replica from its routes on: authentication, the rate limiter, stamping, the calls of a submission, login, restart; the other parts as they promise | `MCGateway` | `GatewayProofs` |

### Publisher

A request is a goroutine with a program counter `pc`, the permit and the named results `resp`/`err`.
Between two remote calls a goroutine touches nothing shared, so the code from the return of one call to
the start of the next is one action:

| Action | Code |
|---|---|
| `Submit` | `handler.go:169-178`: the call of the publisher, which starts with `Allocate` or, for an internal event, `PublishBatch` |
| `AllocateReturns`, `AllocateFails` | `service.go:47-50`, then `utilizePermit` up to the next call |
| `NotifyReturns`, `NotifyFails` | `service.go:82-88`: the notice of `notifyLimitReached`, whose failure ends the submission |
| `PublishReturns`, `PublishFails` | `service.go:91-100` and the computation of the count to release, 53-59 |
| `ReleaseEnds` | `service.go:60`: the error is ignored |
| `Crash` | the replica dies; what it sent stays sent |

`applyPermit`, `NoticeDue`, `encodeError` and `Settle` are the functions and the tail of
`SubmitPermittedEvents`; `Minus` is the subtraction of `uint32`. The acknowledged count of a notice is left in
`resp` (`service.go:83`) until a publication is answered; if that fails, or the permit is empty, `resp` is returned
with the error, and only the test of the error keeps the count out of `usedCount` (`SettleUnchecked` is the defect).
The code in `resp` is `none` until the submission ends. `net` holds the calls not yet executed.
A call in `Failing` may be refused (it disappears), one in `Lossy` may also fail while its message stays
on the wire, so that it is executed after the caller went on, or was executed before.

The usage and the events service are external. Of them the model takes what the gateway relies on:
`Allocate` grants what is left of the limit and says "just exhausted" once per period, `Release`
decrements, whatever period the count is from (the call does not name one), and `PublishBatch` puts a
prefix of the batch in the stream and acknowledges it. `granted`, `released`, `stale` are history.

The limits of the model: all events of a batch are alike but for the source of the first one, groups are
reduced to one, and the acknowledged count is at most the batch (`service.go:58` would wrap otherwise).

### WriteFilter

One action per lookup. `i` is the index of the loop, which ranges over the slice as it was at its
start, and `cut` is `len(evts)`: `evts = evts[:i]` only moves the end, and may move it forth again.
The attributes of an event are a function, visited in any order, like a Go map. `attrValue` survives from
one attribute to the next. `Blacklisted` says which key and value the trie has a prefix of. A body
that does not parse (`Parse`) ends the handler without an answer, which is an empty 200.

### BlacklistLoad

`LoadPage` is one turn of the loop of `main.go`, `EndLoad` the turn with the empty page, `FailLoad` a
panic and `Restart` the next start. Prefixes are numbers in their order. `Insert` and `Delete` are
somebody else's writes and happen at any time. A page is read at once: its limit of 100 is below the
size of the first batch of a cursor. It comes in the order of the unique index that answers the query,
for `GetPage` asks for no order; the mutant of `LoadedAll` is the load without that order.

### SourceHandler

The same scheme as `Publisher` for chains of calls: `Begin` is the code up to the first call, or the answer of a
request that needs none (`Unserved`): 500 for a body of `Create` that cannot be read, else 400. `Create` of a site
answers 400 and then 201, of which gin sends the first (`Sent`). `Read` and `Delete` escape the address, `Create` and
the cursor of `List` are used as they are (`KeyOf`).
`CreateEnds`, `ReadEnds`, `LimitEnds`, `UsageEnds`, `CheckEnds`, `DeleteEnds`, `ListEnds` each take the outcome of
one call (a reply, a refusal, or a loss after which the call may yet be executed) to the next call or to
the answer. The registries are external: `Create` keeps a source that is there, `Delete` gets the user,
but for Telegram channels, which are deleted by link. `shown`, `added`, `removed`, `seen` are history.
What `Read` shows besides the owner, the counts, groups and the contents of a list are left out: `List`
is one call of a registry whose page is passed on.

`SourceOwnership` is the same without calls: a request begins, changes its source in one step (`Add` if nobody
owns it, `Remove` if its user owned it at some time since it began) and is answered, in any order of the last two.
It is mapped onto the handlers by `Ownership`: the owner of a source is its record in the registry, the owners
since the request began are `seen`, the changes made are `added` and `removed`, and a status is a change, a refusal
or neither (500, 404). So a lost answer, a call executed after its answer and the check before the deletion of a
Telegram channel leave no trace but the answer "unknown" and, for channels, a former owner.

### ClientPools

The calls to the events service and to the usage service go through three pools of connections, of which
the last two lead to the same service. Each method of a `client_pool.go` takes a connection, calls, and
gives it back by `defer`: `Want` queues for the pool of the next call (`PoolOf`), `TakeConnection` and
`GetFails` are the two ends of `connPool.Get`, and `CallEnds` is the end of the call, the return of the
connection and the code up to the next `Get`. `NextCalls` is what that code may call next; `Publisher`
says when it calls which. The other clients have one connection for all calls, for which nobody waits.
The context of a request has no deadline, and a client that hangs up does not end it. A service in
`hung` answers nobody; it may recover, and nothing makes it. `Goroutines` serve one request after another,
so there is always somebody to overtake one that waits. The pool is a library and external: a channel,
which serves those who wait in their order. Idle timeouts only replace a connection and are left out.

### Gateway

The composition: one replica as its clients see it. A request is a goroutine with a program counter.

| Action | Code |
|---|---|
| `Arrive`, `Authorize` | `auth.go:17-50`: the header, the call of the auth service, the ids in the context, or an answer and `Abort` |
| `HandlerOf` | the routes of `main.go:210-224` |
| `Take`, `Wake` | `handler.go:78`, the permission of the limiter, and the end of the sleep until it is due |
| `Write` | `handler.go:51-178`: the body, the filter, the stamping (`Stamp`), the call of the publisher for the ids of the context |
| `Allocate`, `Publish`, `Release` | the calls of `service.go:44-101` as the services execute them, each with the code from its reply to the next call or to the answer; nobody waits any more for a call of a dead replica or one given up |
| `Fails` | a call that fails for the publisher: refused, or yet executed; a failed publication counts as not used, a failed release is ignored |
| `Settle`, `Answer` | `service.go:53-63`: what is left is released; `handler.go:180-208`: 200 or an error |
| `Reset` | the usage service starts a new period of an owner's counter |
| `ServeSource` | a handler of `SourceHandler`, reduced to whom it acts for |
| `ClientLogin` | `telegram.go:28-48` with `service.Login`: no connection, an answer, or a lost answer |
| `Restart`, `Tick` | a new process with a new limiter; the clock |

The filter appears as what is shown of it, that it cuts before the last rejected event (`CutBeforeLastRejected`), and
a source handler as acting for the user it is told. The publisher's calls are all there, without the notices: that it
implements `PublishQuota` is only true while no reply of a `PublishBatch` is lost (`publisher_lost_reply`), and the
gateway has to live without. Every call may be refused, lost or late, counters are reset, and a submission may be
answered with an error although its events are in the stream.

So `CountedAgainstSender` is not about the stream but about what a sender is told: all that was ever acknowledged to
him is at most his own limit for every period so far. It ties together who `Authorize` approved, the ids in the
context, the owner of the counter, and what `Settle` keeps of a permit. It survives a lost reply because such a
publication is not acknowledged, and a late `Release`, which takes from the new period, because its permit was
counted in the period before.

The limiter is `go.uber.org/ratelimit` 0.3.1, external: its first permission is due at once, each other one
an interval after the one before it, but never earlier than now less ten intervals (`Slack`), which is what
it saves up while nobody asks. `verdict` and `starts` are history. What a request asks for is fixed in
advance; `Workloads` says which requests come together. An internal event whose body does not parse has used
its permission all the same.

## Runs

All passing runs finish within three minutes with two workers.

| Run | Instance | What it shows |
|---|---|---|
| `publisher_faults` | 2 requests out of 6 submissions, limits 2, 1 and 0, batches up to 2, one reset; every call fails, is lost, is late; crashes | `TypeOK`, `AckedWithinLimit`, `PublishedWithinPermit`, `NoticeBeforeEvents`, `CountedIsHeld` hold whatever happens |
| `publisher_refused` | 3 requests with full and empty batches on one owner's limit of 2, with the notice when it is exhausted, one reset, crashes; all calls lossy but `PublishBatch`, which may only be refused | `ReleasesOnlyUnutilized`, `StreamWithinLimit`, `AnswerTruthful` |
| `publisher_reliable` | 3 requests contending for one limit; allocate, notify and publish may fail; no reset, no crash, releases succeed | `ReturnedWhenAnswered`, `PermitsReturned`, and `ImplementsQuota`: the path implements `PublishQuota` |
| `publisher_lost_reply` | as `publisher_faults`, only the reply of `PublishBatch` is lost | violates `ReleasesOnlyUnutilized`, see below |
| `write_filter` | batches of up to 3 out of 5 events | `AllFound`, `CutBeforeLastRejected`, `Decided` |
| `filter_truncate`, `filter_type`, `filter_cause` | the same | violated, see below |
| `blacklist_load` | up to 5 prefixes, pages of 2, one failed load, any inserts and deletes | `LoadedAll`, `LoadedOnlySeen`, `Served` |
| `sources` | 3 requests out of 9 queries, two users, one source per type with any owner at first | `OwnerShownToHimself`, `StatusTruthful`, `RemovedByOwner`, and `ImplementsOwnership`: the handlers implement `SourceOwnership` |
| `client_pools` | 5 goroutines: 2 publications, 1 internal event, 2 reads; one connection per pool; calls and connections fail, services hang and recover | `ConnectionsConserved`, `NobodyForgotten`, `AnsweredUnlessNeededHangs`: no hold-and-wait, no starvation, and one hanging service does not stop who does not call it |
| `gateway` | 3 requests in 4 mixes of routes: three internal events, one of them unreadable; an internal event with a request without a token and a batch; two batches on a sender's limit of 1 with a source; two logins, one unreadable, with a rejected batch. Calls are refused, lost or late. Interval 1, slack 1, clock up to 4, one restart, one reset | `OnlyAuthenticated`, `InTheNameOfSender`, `InternalWithinRate`, `PermissionInTurn`, `LoginTruthful`, `AnsweredInTime`, and `CountedAgainstSender`: acknowledged events stay within the sender's own limit for every period |

Why the bounds suffice. The publisher's requests interact only through an owner's counter: two requests
give every order of two allocations, publications and releases, and the third in `publisher_refused` and
`publisher_reliable` uses what one of them returned while another still holds its permit. The limits are
chosen so that permits are full, partial and empty, and one of 0 puts an empty permit next to a notice. One reset is enough to put a call's effect into a
later period than its cause. Three events are the least for two rejections after the first event. Five
prefixes in pages of two make three pages with writes before, at and behind the cursor. Three source
requests are what a check, a deletion and a re-creation of the same channel take. With one connection per
pool every two calls of a pool contend, and a pair of goroutines that serve requests for ever can take turns
in passing a third.
In `gateway` three internal events are the least for a burst of saved up permissions behind one that was due,
the clock up to 4 the least for the limiter to cut off what it saved up, and one restart puts two limiters
behind each other. Batches with events that name somebody else, nobody, and are rejected cover the stamping. Two batches of
one sender contend for his limit of 1, and one reset lets both be acknowledged, or a permit be released into the next period.
The names of these bounds are `MaxBatch`, `MaxPeriod`, `UintSize`, `MaxLen`, `MaxPrefix`, `MaxRestarts`,
`Size`, `Workloads`, `Interval`, `Slack`, `MaxTime`, `MaxStarts` and the sets of requests and goroutines; the program's `UintSize` is 2^32, its page 100 entries,
its pools ten connections, its interval a minute and its slack ten.
Requests are symmetric, and symmetry is used only in runs without liveness properties. `blacklist_load`
and `client_pools` are the models that never stop: the others end in an explicit `Terminating` step, so TLC's deadlock
check covers a goroutine that waits for nobody. That of `gateway` admits requests whose permission is due after
the end of the clock.

Fairness: a runnable goroutine is scheduled by Go (`WF` on the steps of a handler), and in
`publisher_reliable` a service that is up handles each kind of call of each request sooner or later.
That is an assumption about services outside of this repository; no call has a deadline, and without it a
submission waits for ever: in `client_pools` services do hang, and the property is about the others.
In `gateway` time passes, and what a request does next happens once it can (`WF` on `Tick` and `Proceed`); a
request need never arrive.
Nothing makes a crash, a restart, a reset, an insertion or a failed load happen.

## What the code does otherwise than it says

* `publisher_lost_reply`: an error of `PublishBatch` is taken for "nothing was used" (`service.go:53-60`).
  If the call was executed and only its reply lost, permits of published events are released, against
  `permits/service.go:27`. `publisher_refused` shows this is the only way: with refused publications only,
  released and published permits are disjoint and the stream stays within the limit.
* `filter_truncate`: with two rejected events behind an accepted one, the second truncation
  (`handler.go:142`) makes the slice longer, and the event rejected first is submitted. What holds is
  `CutBeforeLastRejected`, and, for a batch with no more than one rejected event, the promise itself
  (`OneRejectedIsCut`, proved).
* `filter_type`: the key `type:` is looked up with the source (`handler.go:106`), so blacklisted types are
  not found.
* `filter_cause`: an attribute that is not textual is looked up with the value of another (`handler.go:122`),
  in random order: an event may be rejected or not from one request to the next. If all attributes of a batch are
  textual, every rejection is for a value of the event's own (`TextualRejectedForItsOwn`, proved).

Behaviours that contradict no comment, but that a reader of the models should know:

* `Read` of a missing source is answered 200 with an empty payload and the group's usage: the registry's
  error is overwritten at `src/handler.go:238`, and the case `NotFound` at 266 is unreachable, since the
  clients' errors carry no gRPC code. A missing bot channel is a nil dereference and a 500.
* `Delete` of a Telegram channel checks and then deletes by link. `RemovedByOwner` holds because it accepts
  whoever owned the channel at some time since the request began; with "owns it when it is removed" TLC
  finds the interleaving in which a re-created channel of another user is removed.
* A count that is released after the reset of its counter is taken from the new period. `AckedWithinLimit`
  and `StreamWithinLimit` allow for exactly that (`stale`) and fail without.
* An empty batch is granted no permits and answered with 429; a body that does not parse with an empty 200.
* The rate of internal events holds over the life of a process only: up to `Slack` + 1 saved up permissions, or
  any number of permissions whose bodies come late, make a burst, and every restart gives one permission more.
  That is why `InternalWithinRate` counts all events since the start of the clock, and allows one per start.
* A failed `Release`, a lost `Allocate` and a crash leak permits until the next reset.

## Proofs

`PublisherProofs` proves `TypeCorrect`, `PublishedWithinPermitHolds`, `AckedWithinLimitHolds` and `CountedIsHeldHolds` for every
set of requests (finite), submissions, limits, batch sizes, number of resets and every choice of failing
and lossy calls and crashes. `PublisherStreamProofs` adds `NoticeBeforeEventsHolds` under the same conditions, and, where
a failed `PublishBatch` was not executed (`Refusing`: `"publish" \notin Lossy`, which `publisher_lost_reply` shows to be
necessary), `ReleasesOnlyUnutilizedHolds`, `StreamWithinLimitHolds`, `AnswerTruthfulHolds` and, within one period,
`ImplementsQuotaSafely`, the step simulation of `PublishQuota`. `PublisherReturnsProofs` assumes besides (`Returning`)
that `Release` does not fail and that a failed `Allocate` granted nothing, which are the two ways the code leaks permits of
a living replica, and proves `ReturnedWhenAnsweredHolds` and `CountersRightWhenAnswered`, the safety part of
`PermitsReturned`; crashes, resets and all other faults are allowed in the first of them. `BlacklistLoadProofs` proves `TypeCorrect`, `LoadedAllHolds` and `LoadedOnlySeenHolds` for
every collection, page size and number of restarts, `ClientPoolsProofs` `ConnectionsConservedHolds`,
`NobodyForgottenHolds` and `TypeCorrect` for any goroutines and sizes of the pools. `GatewayProofs` proves every safety property of `Gateway`
for any requests, loads, limits, rates, resets, restarts and failing calls.
`SourceHandlerProofs` proves every property of `SourceHandler` for any number of requests, users and lossy calls, its
refinement of `SourceOwnership` (`ImplementsOwnershipHolds`) included;
`WriteFilterProofs` proves `TypeOK`, `AllFound` and `CutBeforeLastRejected` for any batch, blacklist and order of the
attributes, and when the promises that two of the runs refute do hold. The assumptions are the named `ASSUME`s of the
modules; `PageAssumption`, for example, is what makes an empty page the end.

The invariants of `Publisher` are not inductive: that an acknowledged count stays within the limit depends
on where each permit is. The inductive invariant `Inv` of `PublisherProofs` is

* `TypeOK`;
* `RequestInv`, the life of a request: which of its fields are still untouched at which `pc`, that a reply
  waits only for the call in progress, that the permit is what was granted, and that what is acknowledged
  and released adds up to no more than that;
* `MessageInv`, what a call on the wire may ask for, given what the services did for its request so far: a
  release, for example, carries exactly the permit less the acknowledged count, and none was executed before;
* `CountedIsHeld`, the accounting: for each owner, the units granted in the current period and not given
  back are no fewer than the usage counter, and no more than the counter and `stale`. The one side says that
  nobody is charged for what was given back, the other that what is held stays counted. Since the counter never
  exceeds the limit, and the acknowledged units are among those held, `AckedWithinLimit` follows from the second.

`PublisherStreamProofs` adds two invariants of one request each. `NoticeInv`: where events of the batch are, or may yet
come from (a `PublishBatch` on the wire, which outlives a crash), the notice was handled. `OutcomeInv`: once the
gateway has settled (it releases, answered, or its release is on the wire or done) no `PublishBatch` is left on the wire,
and what is in the stream is what the results say. `Same` and its lemmas show once that a step about one request
leaves the others alone; the refinement maps `EventsPublishes` to `Publish` and the step that answers to `Answer`. `ReturnInv` of
`PublisherReturnsProofs` follows a permit to its end: an answered release has given back what was not acknowledged, and
once a request is done no `Allocate` of it is left on the wire. With `OutcomeInv`, what was acknowledged is what is in the stream.

Each action has its own lemma; the units are finite sets of pairs, and the step from sets to counts uses
the cardinality lemmas of the library. TLC checked `Inv` on the instance of `publisher_faults` before the
proof. For `BlacklistLoad` the invariant `LoadInv` says that during a load the trie holds every stable
entry up to the cursor and nothing that was not seen. For `ClientPools` it adds to the count that whoever
waits or calls has a call; the lemma `WantEffect` shows once that going on to the next call lets go of a
connection and takes none. `QueueInv` is about the other side, who waits: he has one place in the queue of the pool
of his call and none in another, and nobody else has one. With the count, an empty pool has a holder for each
of its connections, and a pool with a free one lets the first in its queue go on, which is `NobodyForgotten`.

`Gateway` has four inductive invariants. `LocalInv` is about one request at a time: with `TypeOK`,
`InTheNameOfSender` and `LoginTruthful` it says (`RequestInv`) what is still untouched at which `pc`, that the
context has the sender's ids from `Authorize` on, that what was not approved is untouched, and that a submission
on its way outlives the request, each of its calls at most once. It gives all but the rate and the counters. `RateInv` is about the limiter:
for every time t, the permissions due by t whose holder may yet submit, or did, are no more than one per interval
up to t and one per start that gave one. An event needs its permission to be due, which for t = now gives
`InternalWithinRate`. The bound has to be stated for every t, for the permissions of those who still sleep, and a
crash takes out those that will never be used. `PermissionInTurn`, the other half, is not inductive either, for it does not
say where the limiter stands: `TurnInv` says that the permissions of those who wait lie one interval apart up to the last one
given, and that this one is no further ahead than one interval for each of them.

`CountedAgainstSenderHolds` is an accounting: `AccountInv` says that the permits an owner's requests were granted and did not
give back are no more than his counter and his limit for every period before (`OwnerCounted`). `Reset` moves the counter,
which is at most the limit, to the periods before; a `Release`, late or not, takes as much off the permits as off the
counter, or stops at 0, where the periods before cover the rest. `LocalInv` supplies that the owner of a permit is the
sender who was approved, that a request keeps of its permit at least what it was acknowledged, and that a release on its
way is the rest: a failed publication keeps nothing and acknowledges nothing, so its release is the whole permit.

The invariant `Inv` of `SourceHandlerProofs` relates a request to its history: `RequestInv` says which answers are
possible at which `pc` and that a status which speaks of success or refusal is backed by what was executed; `SeenInv`
that whoever was checked as an owner is among those seen since the request began; `MessageInv` carries both over to
the calls on their way, which outlive the answer, and without it a deletion executed late would be unaccounted for. The refinement needs two facts more (`OwnershipInv`): a
call that may yet change a registry has not done so before, and only correct and supported queries lead to calls.
Then a step of a handler is `Begin`, `Answer` or a stutter, and one of a registry `Add`, `Remove` or a stutter.
For `WriteFilter`, `LoopInv` is the invariant of the two loops: every event before `i` with something blacklisted
is rejected, of the present event those of its attributes that were visited have not been found, and `cut` is the
place of the last rejection.

Every safety property that a passing run checks is proved. Out of the prover's reach and left to TLC:

* the liveness properties, which rest on fairness (`PermitsReturned`, `Decided`, `Served`,
  `AnsweredUnlessNeededHangs`, `AnsweredInTime`, the fairness of `ImplementsQuota`). What is proved of them is
  their safety part: `CountersRightWhenAnswered` for `PermitsReturned`, `NobodyForgotten` for
  `AnsweredUnlessNeededHangs`, `PermissionInTurn` for `AnsweredInTime`, the steps of `PublishQuota` for `ImplementsQuota`;
* the properties of the runs that refute them, which are false.

## Not modelled

The conversion of events field by field (no property depends on a field but the three textual kinds and the
gateway's own attributes), the choice of a Telegram replica by its index, the trie itself (a library), the
construction of the clients, logging, mocks, configuration, charts, `messages_writer` (unused). The auth service
is what decides: that its answer is right is not a matter of this repository.

## Plan

In the order of importance. Done:

1. `Publisher`, `PublishQuota`; `WriteFilter`; `BlacklistLoad`; `SourceHandler`.
2. `ClientPools`.
3. `Gateway`: `Authorize`, the rate limiter, the stamping, `WriteFilter`'s promise and `Publisher`'s calls composed,
   with its theorems.
4. Theorems of every module: its type invariant and its safety properties, the step simulation of `PublishQuota`.
5. `SourceOwnership` and its refinement; the exact accounting of the counters; the safety parts of the liveness
   properties; when the refuted promises of the filter hold.

Left: measures that decrease with every step of the loops of `WriteFilter` and `BlacklistLoad` (the arithmetic part
of `Decided` and `Served`), and the places of a queue that only move forward (that of `AnsweredUnlessNeededHangs`).
