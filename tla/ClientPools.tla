---------------------------- MODULE ClientPools ----------------------------
(***************************************************************************)
(* The three pools of connections (main.go) that the calls to the events   *)
(* and the usage service share: each method of a client_pool.go takes a    *)
(* connection, waiting for one without a deadline, makes its call and      *)
(* gives the connection back.  A replica serves request after request in   *)
(* each of its goroutines, and each request makes several calls.           *)
(*                                                                         *)
(* The pool is a library: a buffered channel, whose waiting receivers are  *)
(* served in the order of their arrival.  The other clients have one       *)
(* connection that all of their calls share: nothing waits for it.         *)
(***************************************************************************)
EXTENDS Naturals, Sequences, FiniteSets

CONSTANTS
  Goroutines,    \* of the HTTP server, each with one request at a time
  Kind,          \* goroutine -> kind of its requests
  Size           \* pool -> number of its connections

Kinds == {"publish", "internal", "read"}
Pools == {"events", "permits", "limits"}
Services == {"events", "usage"}
Calls == {"allocate", "notify", "publish", "release", "limit", "usage"}

ASSUME GoroutinesAssumption == IsFiniteSet(Goroutines)
ASSUME KindAssumption == Kind \in [Goroutines -> Kinds]
ASSUME SizeAssumption == Size \in [Pools -> Nat \ {0}]

(* A defect: all clients share one pool.                                   *)
PoolOfAll(call) == "permits"

PoolOf(call) ==
  CASE call \in {"notify", "publish"} -> "events"
    [] call = "limit" -> "limits"
    [] OTHER -> "permits"

ServiceOf(call) == IF call \in {"notify", "publish"} THEN "events" ELSE "usage"

FirstCall(kind) ==
  CASE kind = "publish" -> "allocate" [] kind = "internal" -> "publish" [] kind = "read" -> "limit"

(* The calls that may follow one that succeeded or not, "none" if the      *)
(* request may be answered.  A publication fails without a permit, and     *)
(* ends with the release of what it did not use.                           *)
NextCalls(kind, call, ok) ==
  CASE call = "allocate" -> IF ok THEN {"notify", "publish", "none"} ELSE {"none"}
    [] call = "notify" -> IF ok THEN {"publish", "none"} ELSE {"release", "none"}
    [] call = "publish" /\ kind = "publish" -> IF ok THEN {"release", "none"} ELSE {"release"}
    [] call = "limit" -> IF ok THEN {"usage"} ELSE {"none"}
    [] OTHER -> {"none"}

VARIABLES
  pc,            \* idle, waiting for a connection, calling
  call,          \* the call that is waited for, or "none"
  queue,         \* pool -> goroutines that wait for a connection
  free,          \* pool -> connections in it
  hung           \* services that answer nobody

vars == <<pc, call, queue, free, hung>>

Init ==
  /\ pc = [g \in Goroutines |-> "idle"]
  /\ call = [g \in Goroutines |-> "none"]
  /\ queue = [p \in Pools |-> <<>>]
  /\ free = Size
  /\ hung = {}

(* g goes on to call c, or is done.  left: the queues without g.           *)
Want(g, c, left) ==
  /\ call' = [call EXCEPT ![g] = c]
  /\ pc' = [pc EXCEPT ![g] = IF c = "none" THEN "idle" ELSE "waiting"]
  /\ queue' = IF c = "none" THEN left
              ELSE [left EXCEPT ![PoolOf(c)] = Append(@, g)]
  /\ UNCHANGED hung

Begin(g) ==
  /\ pc[g] = "idle"
  /\ Want(g, FirstCall(Kind[g]), queue)
  /\ UNCHANGED free

(* g is the next to get a connection of p.                                 *)
Gets(g, p) ==
  /\ pc[g] = "waiting"
  /\ PoolOf(call[g]) = p
  /\ queue[p] # <<>> /\ Head(queue[p]) = g
  /\ free[p] > 0

TakeConnection(g) ==
  \E p \in Pools :
    /\ Gets(g, p)
    /\ pc' = [pc EXCEPT ![g] = "calling"]
    /\ queue' = [queue EXCEPT ![p] = Tail(@)]
    /\ free' = [free EXCEPT ![p] = @ - 1]
    /\ UNCHANGED <<call, hung>>

(* A defect: what was not taken is given back.                             *)
GetFailsClosing(g) ==
  \E p \in Pools :
    /\ Gets(g, p)
    /\ \E c \in NextCalls(Kind[g], call[g], FALSE) :
         Want(g, c, [queue EXCEPT ![p] = Tail(@)])
    /\ free' = [free EXCEPT ![p] = @ + 1]

(* The pool cannot connect and keeps the place of the connection.          *)
GetFails(g) ==
  \E p \in Pools :
    /\ Gets(g, p)
    /\ \E c \in NextCalls(Kind[g], call[g], FALSE) :
         Want(g, c, [queue EXCEPT ![p] = Tail(@)])
    /\ UNCHANGED free

(* A defect: the connection of a failed call is not given back.            *)
CallEndsLeaking(g) ==
  /\ pc[g] = "calling"
  /\ ServiceOf(call[g]) \notin hung
  /\ \E ok \in BOOLEAN : \E c \in NextCalls(Kind[g], call[g], ok) :
       /\ Want(g, c, queue)
       /\ free' = IF ok THEN [free EXCEPT ![PoolOf(call[g])] = @ + 1] ELSE free

(* The call ends, well or not, and its connection is given back.           *)
CallEnds(g) ==
  /\ pc[g] = "calling"
  /\ ServiceOf(call[g]) \notin hung
  /\ \E ok \in BOOLEAN : \E c \in NextCalls(Kind[g], call[g], ok) : Want(g, c, queue)
  /\ free' = [free EXCEPT ![PoolOf(call[g])] = @ + 1]

Hang(s) ==
  /\ s \notin hung
  /\ hung' = hung \cup {s}
  /\ UNCHANGED <<pc, call, queue, free>>

Recover(s) ==
  /\ s \in hung
  /\ hung' = hung \ {s}
  /\ UNCHANGED <<pc, call, queue, free>>

Proceed(g) == TakeConnection(g) \/ GetFails(g) \/ CallEnds(g)

Next ==
  \/ \E g \in Goroutines : Begin(g) \/ Proceed(g)
  \/ \E s \in Services : Hang(s) \/ Recover(s)

Spec == Init /\ [][Next]_vars

(* A runnable goroutine runs, a service that is up answers; nothing makes  *)
(* a service recover or a client send a request.                           *)
Fairness == \A g \in Goroutines : WF_vars(Proceed(g))

FairSpec == Spec /\ Fairness

(***************************************************************************)
(* Properties                                                              *)
(***************************************************************************)

Holders(p) == {g \in Goroutines : pc[g] = "calling" /\ PoolOf(call[g]) = p}

(* Every variable has its type; no pool has more connections than it was   *)
(* made with.                                                              *)
TypeOK ==
  /\ pc \in [Goroutines -> {"idle", "waiting", "calling"}]
  /\ call \in [Goroutines -> Calls \cup {"none"}]
  /\ queue \in [Pools -> Seq(Goroutines)]
  /\ free \in [Pools -> Nat]
  /\ \A p \in Pools : free[p] <= Size[p]
  /\ hung \subseteq Services

(* No connection is lost or shared, whichever calls fail: each is in its   *)
(* pool or used by one call in progress (defer conn.Close() in each method *)
(* of a client_pool.go).                                                   *)
ConnectionsConserved ==
  \A p \in Pools : free[p] + Cardinality(Holders(p)) = Size[p]

Places(g, s) == {j \in DOMAIN s : s[j] = g}

(* Nobody waits for nothing: whoever waits has one place in the queue of   *)
(* its pool, and either the first there may go on, or calls in progress    *)
(* hold all connections and will give them back.  The wait itself has no   *)
(* deadline (the Get of each method of a client_pool.go).                  *)
NobodyForgotten ==
  \A g \in Goroutines :
    pc[g] = "waiting" =>
      LET p == PoolOf(call[g])
      IN  /\ Cardinality(Places(g, queue[p])) = 1
          /\ \E h \in Goroutines : Gets(h, p) \/ h \in Holders(p)

Needs(kind) ==
  CASE kind = "publish" -> Services [] kind = "internal" -> {"events"} [] kind = "read" -> {"usage"}

(* A request that waits for a connection without a deadline is answered    *)
(* all the same unless a service that it calls itself hangs.  A hanging    *)
(* events service does not stop the reading of sources, a hanging usage    *)
(* service does not stop internal events, though publications, of which    *)
(* any number are under way, wait for both.                                *)
AnsweredUnlessNeededHangs ==
  \A g \in Goroutines :
    []<>(pc[g] = "idle") \/ <>(hung \cap Needs(Kind[g]) # {})
=============================================================================
