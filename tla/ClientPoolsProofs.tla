------------------------- MODULE ClientPoolsProofs -------------------------
(* Proofs about ClientPools, for any number of goroutines and connections. *)
EXTENDS ClientPools, FiniteSetTheorems, TLAPS

(* The types, and that whoever waits or calls has a call.                  *)
StateInv ==
  /\ pc \in [Goroutines -> {"idle", "waiting", "calling"}]
  /\ call \in [Goroutines -> Calls \cup {"none"}]
  /\ queue \in [Pools -> Seq(Goroutines)]
  /\ free \in [Pools -> Nat]
  /\ hung \subseteq Services
  /\ \A g \in Goroutines : pc[g] # "idle" => call[g] \in Calls

Inv == StateInv /\ ConnectionsConserved

(* A set of goroutines that hold connections can be counted.               *)
LEMMA HoldersFinite ==
  \A p : IsFiniteSet(Holders(p)) /\ Cardinality(Holders(p)) \in Nat
  BY GoroutinesAssumption, FS_Subset, FS_CardinalityType DEF Holders

LEMMA NextCallsType ==
  \A kind, c, ok : NextCalls(kind, c, ok) \subseteq Calls \cup {"none"}
  BY SMT DEF NextCalls, Calls

LEMMA PoolOfType == \A c : PoolOf(c) \in Pools
  BY DEF PoolOf, Pools

(* Going on to the next call keeps the types, and the caller of it holds   *)
(* nothing: the holders are those of before without him.                   *)
LEMMA WantEffect ==
  ASSUME StateInv, NEW g \in Goroutines, NEW c \in Calls \cup {"none"},
         NEW left \in [Pools -> Seq(Goroutines)], Want(g, c, left),
         free' \in [Pools -> Nat]
  PROVE  StateInv' /\ \A p : Holders(p)' = Holders(p) \ {g}
  <1>1. call' \in [Goroutines -> Calls \cup {"none"}]
    BY DEF Want, StateInv
  <1>2. pc' \in [Goroutines -> {"idle", "waiting", "calling"}]
    BY DEF Want, StateInv
  <1>3. queue' \in [Pools -> Seq(Goroutines)]
    <2>1. CASE c = "none"
      BY <2>1 DEF Want
    <2>2. CASE c # "none"
      <3>1. PoolOf(c) \in Pools /\ left[PoolOf(c)] \in Seq(Goroutines)
        BY PoolOfType
      <3>2. Append(left[PoolOf(c)], g) \in Seq(Goroutines)
        BY <3>1
      <3>3. QED
        BY <2>2, <3>1, <3>2 DEF Want
    <2>3. QED
      BY <2>1, <2>2
  <1>4. \A h \in Goroutines : pc'[h] # "idle" => call'[h] \in Calls
    BY DEF Want, StateInv, Calls
  <1>5. \A p : Holders(p)' = Holders(p) \ {g}
    BY DEF Want, StateInv, Holders
  <1>6. QED
    BY <1>1, <1>2, <1>3, <1>4, <1>5 DEF Want, StateInv

LEMMA InitInv == Init => Inv
  <1>1. SUFFICES ASSUME Init PROVE Inv
    OBVIOUS
  <1>2. StateInv
    <2>1. <<>> \in Seq(Goroutines)
      OBVIOUS
    <2>2. QED
      BY <1>1, <2>1, SizeAssumption DEF Init, StateInv
  <1>3. \A p : Holders(p) = {}
    BY <1>1 DEF Init, Holders
  <1>4. ASSUME NEW p \in Pools PROVE free[p] + Cardinality(Holders(p)) = Size[p]
    <2>1. Cardinality(Holders(p)) = 0
      BY <1>3, FS_EmptySet
    <2>2. free[p] = Size[p] /\ Size[p] \in Nat
      BY <1>1, SizeAssumption DEF Init
    <2>3. QED
      BY <2>1, <2>2
  <1>5. QED
    BY <1>2, <1>4 DEF Inv, ConnectionsConserved

LEMMA BeginInv ==
  ASSUME Inv, NEW g \in Goroutines, Begin(g)
  PROVE  Inv'
  <1>1. FirstCall(Kind[g]) \in Calls \cup {"none"}
    BY KindAssumption DEF FirstCall, Calls, Kinds
  <1>2. StateInv' /\ \A p : Holders(p)' = Holders(p) \ {g}
    BY <1>1, WantEffect DEF Inv, StateInv, Begin
  <1>3. \A p : g \notin Holders(p)
    BY DEF Begin, Holders
  <1>4. \A p : Holders(p)' = Holders(p)
    BY <1>2, <1>3
  <1>5. QED
    BY <1>2, <1>4 DEF Inv, ConnectionsConserved, Begin

LEMMA TakeConnectionInv ==
  ASSUME Inv, NEW g \in Goroutines, TakeConnection(g)
  PROVE  Inv'
  <1>1. PICK p \in Pools :
          /\ Gets(g, p)
          /\ pc' = [pc EXCEPT ![g] = "calling"]
          /\ queue' = [queue EXCEPT ![p] = Tail(@)]
          /\ free' = [free EXCEPT ![p] = @ - 1]
          /\ UNCHANGED <<call, hung>>
    BY DEF TakeConnection
  <1>2. free[p] \in Nat /\ free[p] > 0 /\ PoolOf(call[g]) = p /\ pc[g] = "waiting"
    BY <1>1 DEF Inv, StateInv, Gets
  <1>3. StateInv'
    <2>1. Tail(queue[p]) \in Seq(Goroutines)
      BY <1>1 DEF Inv, StateInv, Gets
    <2>2. queue' \in [Pools -> Seq(Goroutines)]
      BY <1>1, <2>1 DEF Inv, StateInv
    <2>3. free' \in [Pools -> Nat]
      BY <1>1, <1>2 DEF Inv, StateInv
    <2>4. QED
      BY <1>1, <1>2, <2>2, <2>3 DEF Inv, StateInv
  <1>4. g \notin Holders(p) /\ Holders(p)' = Holders(p) \cup {g}
    BY <1>1, <1>2 DEF Inv, StateInv, Holders
  <1>5. Cardinality(Holders(p)') = Cardinality(Holders(p)) + 1
    BY <1>4, HoldersFinite, FS_AddElement
  <1>6. \A q \in Pools \ {p} : Holders(q)' = Holders(q) /\ free'[q] = free[q]
    BY <1>1, <1>2 DEF Inv, StateInv, Holders
  <1>7. free'[p] = free[p] - 1
    BY <1>1 DEF Inv, StateInv
  <1>8. free'[p] + Cardinality(Holders(p)') = Size[p]
    BY <1>2, <1>5, <1>7, HoldersFinite DEF Inv, ConnectionsConserved
  <1>9. QED
    BY <1>3, <1>6, <1>8 DEF Inv, ConnectionsConserved

LEMMA GetFailsInv ==
  ASSUME Inv, NEW g \in Goroutines, GetFails(g)
  PROVE  Inv'
  <1>1. PICK p \in Pools, c \in NextCalls(Kind[g], call[g], FALSE) :
          Gets(g, p) /\ Want(g, c, [queue EXCEPT ![p] = Tail(@)]) /\ UNCHANGED free
    BY DEF GetFails
  <1>2. c \in Calls \cup {"none"}
    BY NextCallsType
  <1>3. [queue EXCEPT ![p] = Tail(@)] \in [Pools -> Seq(Goroutines)]
    <2>1. Tail(queue[p]) \in Seq(Goroutines)
      BY <1>1 DEF Inv, StateInv, Gets
    <2>2. QED
      BY <2>1 DEF Inv, StateInv
  <1>4. StateInv' /\ \A q : Holders(q)' = Holders(q) \ {g}
    BY <1>1, <1>2, <1>3, WantEffect DEF Inv, StateInv
  <1>5. \A q : g \notin Holders(q)
    BY <1>1 DEF Gets, Holders
  <1>6. \A q : Holders(q)' = Holders(q)
    BY <1>4, <1>5
  <1>7. QED
    BY <1>1, <1>4, <1>6 DEF Inv, ConnectionsConserved

LEMMA CallEndsInv ==
  ASSUME Inv, NEW g \in Goroutines, CallEnds(g)
  PROVE  Inv'
  <1>0. PICK p \in Pools : p = PoolOf(call[g])
    BY PoolOfType
  <1>1. PICK ok \in BOOLEAN : \E c \in NextCalls(Kind[g], call[g], ok) : Want(g, c, queue)
    BY DEF CallEnds
  <1>2. PICK c \in Calls \cup {"none"} : Want(g, c, queue)
    BY <1>1, NextCallsType
  <1>3. free' = [free EXCEPT ![p] = @ + 1] /\ free[p] \in Nat
    BY <1>0 DEF CallEnds, Inv, StateInv
  <1>4. free' \in [Pools -> Nat] /\ queue \in [Pools -> Seq(Goroutines)]
    BY <1>3 DEF Inv, StateInv
  <1>5. StateInv' /\ \A q : Holders(q)' = Holders(q) \ {g}
    BY <1>2, <1>4, WantEffect DEF Inv
  <1>6. g \in Holders(p)
    BY <1>0 DEF CallEnds, Holders
  <1>7. Cardinality(Holders(p)') = Cardinality(Holders(p)) - 1
    BY <1>5, <1>6, HoldersFinite, FS_RemoveElement
  <1>8. \A q \in Pools \ {p} : Holders(q)' = Holders(q) /\ free'[q] = free[q]
    <2>1. \A q \in Pools \ {p} : g \notin Holders(q)
      BY <1>0 DEF Holders
    <2>2. QED
      BY <1>3, <1>5, <2>1 DEF Inv, StateInv
  <1>9. free'[p] = free[p] + 1
    BY <1>3 DEF Inv, StateInv
  <1>10. free'[p] + Cardinality(Holders(p)') = Size[p]
    BY <1>3, <1>7, <1>9, HoldersFinite DEF Inv, ConnectionsConserved
  <1>11. QED
    BY <1>5, <1>8, <1>10 DEF Inv, ConnectionsConserved

LEMMA NextInv == Inv /\ [Next]_vars => Inv'
  <1>1. SUFFICES ASSUME Inv, [Next]_vars PROVE Inv'
    OBVIOUS
  <1>2. ASSUME NEW g \in Goroutines, Begin(g) PROVE Inv'
    BY <1>1, <1>2, BeginInv
  <1>3. ASSUME NEW g \in Goroutines, Proceed(g) PROVE Inv'
    BY <1>1, <1>3, TakeConnectionInv, GetFailsInv, CallEndsInv DEF Proceed
  <1>4. ASSUME NEW s \in Services, Hang(s) \/ Recover(s) PROVE Inv'
    BY <1>1, <1>4 DEF Hang, Recover, Inv, StateInv, ConnectionsConserved, Holders
  <1>5. CASE UNCHANGED vars
    BY <1>1, <1>5 DEF vars, Inv, StateInv, ConnectionsConserved, Holders
  <1>6. QED
    BY <1>1, <1>2, <1>3, <1>4, <1>5 DEF Next

LEMMA InvTypeOK == Inv => TypeOK
  BY HoldersFinite, SizeAssumption DEF Inv, StateInv, ConnectionsConserved, TypeOK

(* Each connection is in its pool or used by one call, whichever calls and *)
(* connections fail, for any number of requests and any size of the pools. *)
THEOREM ConnectionsConservedHolds == Spec => []ConnectionsConserved
  <1>1. Inv => ConnectionsConserved
    BY DEF Inv
  <1>2. QED
    BY <1>1, InitInv, NextInv, PTL DEF Spec

(* The pools are type correct and never overfull.                          *)
THEOREM TypeCorrect == Spec => []TypeOK
  BY InitInv, NextInv, InvTypeOK, PTL DEF Spec

(***************************************************************************)
(* The queues                                                              *)
(***************************************************************************)

WaitsFor(g, p) == pc[g] = "waiting" /\ PoolOf(call[g]) = p

(* A queue s of p has one place for g if g waits for p, and none if not.   *)
Placed(g, p, s) ==
  IF WaitsFor(g, p) THEN \E j \in Nat : Places(g, s) = {j} ELSE Places(g, s) = {}

QueueInv == \A p \in Pools : \A g \in Goroutines : Placed(g, p, queue[p])

(* The new place is the last.                                              *)
LEMMA AppendPlaces ==
  ASSUME NEW s \in Seq(Goroutines), NEW g \in Goroutines
  PROVE  /\ Places(g, Append(s, g)) = Places(g, s) \cup {Len(s) + 1}
         /\ \A h \in Goroutines \ {g} : Places(h, Append(s, g)) = Places(h, s)
  <1>1. /\ DOMAIN s = 1..Len(s) /\ Len(s) \in Nat
        /\ DOMAIN Append(s, g) = 1..(Len(s) + 1)
        /\ \A j \in 1..(Len(s) + 1) : Append(s, g)[j] = IF j <= Len(s) THEN s[j] ELSE g
    OBVIOUS
  <1>2. \A h : Places(h, Append(s, g))
                 = Places(h, s) \cup {j \in {Len(s) + 1} : g = h}
    <2>. SUFFICES ASSUME NEW h, NEW j
                  PROVE  j \in Places(h, Append(s, g)) <=>
                           j \in Places(h, s) \/ (j = Len(s) + 1 /\ g = h)
      OBVIOUS
    <2>1. j \in 1..(Len(s) + 1) <=> j \in 1..Len(s) \/ j = Len(s) + 1
      BY <1>1
    <2>2. CASE j \in 1..Len(s)
      <3>1. j <= Len(s) /\ j # Len(s) + 1
        BY <1>1, <2>2
      <3>2. QED
        BY <1>1, <2>1, <2>2, <3>1 DEF Places
    <2>3. CASE j \notin 1..Len(s)
      <3>1. j = Len(s) + 1 => ~(j <= Len(s))
        BY <1>1
      <3>2. QED
        BY <1>1, <2>1, <2>3, <3>1 DEF Places
    <2>4. QED
      BY <2>2, <2>3
  <1>3. QED
    BY <1>2

(* Without the first, the others are one place further.                    *)
LEMMA TailPlaces ==
  ASSUME NEW s \in Seq(Goroutines), s # <<>>, NEW h
  PROVE  \A j : j \in Places(h, Tail(s)) <=> j \in Nat \ {0} /\ j + 1 \in Places(h, s)
  <1>1. /\ DOMAIN s = 1..Len(s) /\ Len(s) \in Nat
        /\ DOMAIN Tail(s) = 1..(Len(s) - 1)
        /\ \A j \in 1..(Len(s) - 1) : Tail(s)[j] = s[j + 1]
    OBVIOUS
  <1>2. \A j : j \in 1..(Len(s) - 1) <=> j \in Nat \ {0} /\ j + 1 \in 1..Len(s)
    BY <1>1
  <1>3. QED
    BY <1>1, <1>2 DEF Places

(* g waits no longer for p once its place, the first, is given up.         *)
LEMMA LeavePlaces ==
  ASSUME NEW s \in Seq(Goroutines), s # <<>>, NEW p,
         \A h \in Goroutines : Placed(h, p, s), WaitsFor(Head(s), p)
  PROVE  /\ Places(Head(s), Tail(s)) = {}
         /\ \A h \in Goroutines \ {Head(s)} : Placed(h, p, Tail(s))
  <1>1. /\ Head(s) \in Goroutines /\ s[1] = Head(s) /\ DOMAIN s = 1..Len(s)
        /\ Len(s) \in Nat /\ 1 \in 1..Len(s)
    BY SMT
  <1>2. 1 \in Places(Head(s), s)
    BY <1>1 DEF Places
  <1>3. Places(Head(s), s) = {1}
    BY <1>1, <1>2 DEF Placed
  <1>4. Places(Head(s), Tail(s)) = {}
    <2>1. \A j : j \in Nat \ {0} => j + 1 # 1
      OBVIOUS
    <2>2. QED
      BY <1>3, <2>1, TailPlaces
  <1>5. ASSUME NEW h \in Goroutines \ {Head(s)} PROVE Placed(h, p, Tail(s))
    <2>1. Placed(h, p, s)
      BY <1>5
    <2>2. CASE WaitsFor(h, p)
      <3>1. PICK j \in Nat : Places(h, s) = {j}
        BY <2>1, <2>2 DEF Placed
      <3>2. j \in DOMAIN s /\ s[j] = h
        BY <3>1 DEF Places
      <3>3. j \in 1..Len(s) /\ j # 1
        BY <1>1, <3>2
      <3>4. j - 1 \in Nat \ {0} /\ \A k \in Nat : k + 1 = j <=> k = j - 1
        BY <1>1, <3>3
      <3>5. Places(h, Tail(s)) = {j - 1}
        BY <3>1, <3>4, TailPlaces
      <3>6. QED
        BY <2>2, <3>4, <3>5 DEF Placed
    <2>3. CASE ~WaitsFor(h, p)
      <3>1. Places(h, s) = {}
        BY <2>1, <2>3 DEF Placed
      <3>2. Places(h, Tail(s)) = {}
        BY <3>1, TailPlaces
      <3>3. QED
        BY <2>3, <3>2 DEF Placed
    <2>4. QED
      BY <2>2, <2>3
  <1>6. QED
    BY <1>4, <1>5

(* Who goes on to a call gets the last place in the queue for it, if it    *)
(* had no place left.                                                      *)
LEMMA WantQueue ==
  ASSUME StateInv, NEW g \in Goroutines, NEW c \in Calls \cup {"none"},
         NEW left \in [Pools -> Seq(Goroutines)], Want(g, c, left),
         \A p \in Pools : Places(g, left[p]) = {},
         \A p \in Pools : \A h \in Goroutines \ {g} : Placed(h, p, left[p])
  PROVE  QueueInv'
  <1>1. /\ pc' = [pc EXCEPT ![g] = IF c = "none" THEN "idle" ELSE "waiting"]
        /\ call' = [call EXCEPT ![g] = c]
    BY DEF Want
  <1>2. /\ \A h \in Goroutines \ {g} : pc'[h] = pc[h] /\ call'[h] = call[h]
        /\ pc'[g] = (IF c = "none" THEN "idle" ELSE "waiting") /\ call'[g] = c
    BY <1>1 DEF StateInv
  <1>3. ASSUME NEW p \in Pools, NEW h \in Goroutines PROVE Placed(h, p, queue[p])'
    <2>1. CASE c # "none" /\ p = PoolOf(c)
      <3>1. queue'[p] = Append(left[p], g) /\ left[p] \in Seq(Goroutines)
        BY <2>1 DEF Want
      <3>2. CASE h = g
        <4>1. Places(g, queue'[p]) = {Len(left[p]) + 1} /\ Len(left[p]) + 1 \in Nat
          BY <3>1, AppendPlaces
        <4>2. WaitsFor(g, p)'
          BY <1>2, <2>1 DEF WaitsFor
        <4>3. QED
          BY <3>2, <4>1, <4>2 DEF Placed, Places
      <3>3. CASE h # g
        <4>1. Places(h, queue'[p]) = Places(h, left[p]) /\ Placed(h, p, left[p])
          BY <3>1, <3>3, AppendPlaces
        <4>2. WaitsFor(h, p)' <=> WaitsFor(h, p)
          BY <1>2, <3>3 DEF WaitsFor
        <4>3. QED
          BY <4>1, <4>2 DEF Placed, Places
      <3>4. QED
        BY <3>2, <3>3
    <2>2. CASE ~(c # "none" /\ p = PoolOf(c))
      <3>1. queue'[p] = left[p]
        BY <2>2 DEF Want
      <3>2. CASE h = g
        <4>1. ~WaitsFor(g, p)'
          BY <1>2, <2>2 DEF WaitsFor
        <4>2. QED
          BY <3>1, <3>2, <4>1 DEF Placed, Places
      <3>3. CASE h # g
        <4>1. Placed(h, p, left[p]) /\ (WaitsFor(h, p)' <=> WaitsFor(h, p))
          BY <1>2, <3>3 DEF WaitsFor
        <4>2. QED
          BY <3>1, <4>1 DEF Placed, Places
      <3>4. QED
        BY <3>2, <3>3
    <2>3. QED
      BY <2>1, <2>2
  <1>4. QED
    BY <1>3 DEF QueueInv

(* The first of a queue that gets a connection, or fails to, waited for it.*)
LEMMA GetsLeaves ==
  ASSUME StateInv, QueueInv, NEW g \in Goroutines, NEW p \in Pools, Gets(g, p),
         NEW left, left = [queue EXCEPT ![p] = Tail(@)]
  PROVE  /\ left \in [Pools -> Seq(Goroutines)]
         /\ \A q \in Pools : Places(g, left[q]) = {}
         /\ \A q \in Pools : \A h \in Goroutines \ {g} : Placed(h, q, left[q])
  <1>1. /\ queue[p] \in Seq(Goroutines) /\ queue[p] # <<>> /\ Head(queue[p]) = g
        /\ WaitsFor(g, p)
    BY DEF Gets, StateInv, WaitsFor
  <1>2. /\ Places(g, Tail(queue[p])) = {}
        /\ \A h \in Goroutines \ {g} : Placed(h, p, Tail(queue[p]))
    <2>1. \A h \in Goroutines : Placed(h, p, queue[p])
      BY DEF QueueInv
    <2>2. QED
      BY <1>1, <2>1, LeavePlaces
  <1>3. left[p] = Tail(queue[p]) /\ \A q \in Pools \ {p} : left[q] = queue[q]
    BY DEF StateInv
  <1>4. \A q \in Pools \ {p} : Places(g, queue[q]) = {}
    BY <1>1 DEF QueueInv, Placed, WaitsFor
  <1>5. Tail(queue[p]) \in Seq(Goroutines)
    BY <1>1
  <1>6. left \in [Pools -> Seq(Goroutines)]
    BY <1>5 DEF StateInv
  <1>7. QED
    BY <1>2, <1>3, <1>4, <1>6 DEF QueueInv

LEMMA InitQueue == Init => QueueInv
  <1>1. SUFFICES ASSUME Init, NEW p \in Pools, NEW g \in Goroutines
                 PROVE  Placed(g, p, queue[p])
    BY DEF QueueInv
  <1>2. pc[g] = "idle" /\ queue[p] = <<>>
    BY <1>1 DEF Init
  <1>3. Places(g, <<>>) = {}
    BY DEF Places
  <1>4. QED
    BY <1>2, <1>3 DEF Placed, WaitsFor

(* A goroutine that does not wait has no place.                            *)
LEMMA NoPlace ==
  ASSUME QueueInv, NEW g \in Goroutines, pc[g] # "waiting"
  PROVE  \A p \in Pools : Places(g, queue[p]) = {}
  BY DEF QueueInv, Placed, WaitsFor

LEMMA NextQueue == StateInv /\ QueueInv /\ [Next]_vars => QueueInv'
  <1>1. SUFFICES ASSUME StateInv, QueueInv, [Next]_vars PROVE QueueInv'
    OBVIOUS
  <1>2. ASSUME NEW g \in Goroutines, Begin(g) \/ CallEnds(g) PROVE QueueInv'
    <2>1. PICK c \in Calls \cup {"none"} : Want(g, c, queue)
      <3>1. FirstCall(Kind[g]) \in Calls
        BY KindAssumption DEF FirstCall, Calls, Kinds
      <3>2. QED
        BY <1>2, <3>1, NextCallsType DEF Begin, CallEnds
    <2>2. queue \in [Pools -> Seq(Goroutines)] /\ pc[g] # "waiting"
      BY <1>1, <1>2 DEF StateInv, Begin, CallEnds
    <2>3. /\ \A p \in Pools : Places(g, queue[p]) = {}
          /\ \A p \in Pools : \A h \in Goroutines \ {g} : Placed(h, p, queue[p])
      BY <1>1, <2>2, NoPlace DEF QueueInv
    <2>4. QED
      BY <1>1, <2>1, <2>2, <2>3, WantQueue
  <1>3. ASSUME NEW g \in Goroutines, TakeConnection(g) PROVE QueueInv'
    <2>1. PICK p \in Pools :
            /\ Gets(g, p)
            /\ pc' = [pc EXCEPT ![g] = "calling"]
            /\ queue' = [queue EXCEPT ![p] = Tail(@)]
            /\ call' = call
      BY <1>3 DEF TakeConnection
    <2>2. /\ \A q \in Pools : Places(g, queue'[q]) = {}
          /\ \A q \in Pools : \A h \in Goroutines \ {g} : Placed(h, q, queue'[q])
      BY <1>1, <2>1, GetsLeaves
    <2>3. pc'[g] = "calling" /\ \A h \in Goroutines \ {g} : pc'[h] = pc[h]
      BY <1>1, <2>1 DEF StateInv
    <2>4. ASSUME NEW q \in Pools, NEW h \in Goroutines PROVE Placed(h, q, queue[q])'
      <3>1. CASE h = g
        BY <2>2, <2>3, <3>1 DEF Placed, WaitsFor, Places
      <3>2. CASE h # g
        <4>1. Placed(h, q, queue'[q]) /\ (WaitsFor(h, q)' <=> WaitsFor(h, q))
          BY <2>1, <2>2, <2>3, <3>2 DEF WaitsFor
        <4>2. QED
          BY <4>1 DEF Placed, Places
      <3>3. QED
        BY <3>1, <3>2
    <2>5. QED
      BY <2>4 DEF QueueInv
  <1>4. ASSUME NEW g \in Goroutines, GetFails(g) PROVE QueueInv'
    <2>1. PICK p \in Pools, c \in NextCalls(Kind[g], call[g], FALSE) :
            Gets(g, p) /\ Want(g, c, [queue EXCEPT ![p] = Tail(@)])
      BY <1>4 DEF GetFails
    <2>2. PICK left : left = [queue EXCEPT ![p] = Tail(@)]
      OBVIOUS
    <2>3. /\ left \in [Pools -> Seq(Goroutines)]
          /\ \A q \in Pools : Places(g, left[q]) = {}
          /\ \A q \in Pools : \A h \in Goroutines \ {g} : Placed(h, q, left[q])
      BY <1>1, <2>1, <2>2, GetsLeaves
    <2>4. c \in Calls \cup {"none"} /\ Want(g, c, left)
      BY <2>1, <2>2, NextCallsType
    <2>5. QED
      BY <1>1, <2>3, <2>4, WantQueue
  <1>5. CASE UNCHANGED <<pc, call, queue>>
    BY <1>1, <1>5 DEF QueueInv, Placed, WaitsFor, Places
  <1>6. QED
    BY <1>1, <1>2, <1>3, <1>4, <1>5 DEF Next, Proceed, Hang, Recover, vars

(* Whoever waits has a place in a queue that moves on, at any size of the  *)
(* pools, any number of requests and whichever calls and connections fail. *)
THEOREM NobodyForgottenHolds == Spec => []NobodyForgotten
  <1>1. ASSUME Inv, QueueInv PROVE NobodyForgotten
    <2>. SUFFICES ASSUME NEW g \in Goroutines, pc[g] = "waiting", NEW p, p = PoolOf(call[g])
                  PROVE  /\ Cardinality(Places(g, queue[p])) = 1
                         /\ \E h \in Goroutines : Gets(h, p) \/ h \in Holders(p)
      BY DEF NobodyForgotten
    <2>1. p \in Pools /\ WaitsFor(g, p)
      BY PoolOfType DEF WaitsFor
    <2>2. PICK j \in Nat : Places(g, queue[p]) = {j}
      BY <1>1, <2>1 DEF QueueInv, Placed
    <2>3. Cardinality(Places(g, queue[p])) = 1
      BY <2>2, FS_Singleton
    <2>4. /\ queue[p] \in Seq(Goroutines) /\ free[p] \in Nat
          /\ free[p] + Cardinality(Holders(p)) = Size[p] /\ Size[p] \in Nat \ {0}
      BY <1>1, <2>1, SizeAssumption DEF Inv, StateInv, ConnectionsConserved
    <2>5. CASE free[p] = 0
      <3>1. Holders(p) # {}
        <4>1. PICK n \in Nat : n = Cardinality(Holders(p))
          BY HoldersFinite
        <4>2. 0 + n = Size[p] /\ Size[p] \in Nat \ {0}
          BY <2>4, <2>5, <4>1
        <4>3. n # 0
          BY <4>2
        <4>4. QED
          BY <4>1, <4>3, FS_EmptySet
      <3>2. QED
        BY <2>3, <3>1 DEF Holders
    <2>6. CASE free[p] > 0
      <3>1. j \in DOMAIN queue[p]
        BY <2>2 DEF Places
      <3>2. queue[p] # <<>>
        BY <2>4, <3>1
      <3>3. PICK h \in Goroutines : h = Head(queue[p]) /\ h = queue[p][1] /\ 1 \in DOMAIN queue[p]
        BY <2>4, <3>2
      <3>4. 1 \in Places(h, queue[p])
        BY <3>3 DEF Places
      <3>5. WaitsFor(h, p)
        BY <1>1, <2>1, <3>4 DEF QueueInv, Placed
      <3>6. Gets(h, p)
        BY <2>6, <3>2, <3>3, <3>5 DEF Gets, WaitsFor
      <3>7. QED
        BY <2>3, <3>6
    <2>7. QED
      BY <2>4, <2>5, <2>6
  <1>2. Inv => StateInv
    BY DEF Inv
  <1>3. QED
    BY <1>1, <1>2, InitInv, NextInv, InitQueue, NextQueue, PTL DEF Spec
=============================================================================
