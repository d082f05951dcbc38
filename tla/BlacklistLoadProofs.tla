------------------------ MODULE BlacklistLoadProofs ------------------------
(***************************************************************************)
(* For any number of prefixes and any page size: a replica that serves     *)
(* knows every entry that was in the collection for the whole load, and    *)
(* nothing that was not there at some time of it.                          *)
(***************************************************************************)
EXTENDS BlacklistLoad, FiniteSetTheorems, TLAPS

(* While the load runs, no entry at or before the cursor that was there    *)
(* all the time has been missed, and the collection is part of what was    *)
(* seen of it.                                                             *)
LoadInv ==
  /\ TypeOK
  /\ phase = "loading" =>
       /\ stable \subseteq db
       /\ db \subseteq seen
       /\ \A p \in stable : p > 0 /\ p <= cursor => p \in trie
  /\ phase = "panicked" => restarts < MaxRestarts
  /\ LoadedAll
  /\ LoadedOnlySeen

(* The empty page comes only when nothing is left after the cursor.        *)
LEMMA EmptyPage ==
  ASSUME IsPage({}) PROVE Rest = {}
BY PageAssumption, FS_EmptySet DEF IsPage

(* A page holds every entry between the old cursor and its last entry.     *)
LEMMA PageHasNoGap ==
  ASSUME TypeOK,
         NEW page \in SUBSET db, IsPage(page),
         NEW last \in page, \A p \in page : p <= last,
         NEW p \in db, p > cursor, p <= last
  PROVE  p \in page
<1>1. p \in Rest
  BY DEF Rest
<1>2. page \subseteq Prefixes /\ p \in Prefixes
  BY DEF TypeOK
<1>3. p \notin page => last < p
  BY <1>1 DEF IsPage
<1>. QED
  BY <1>2, <1>3, PrefixAssumption DEF Prefixes

LEMMA LoadInit == Init => LoadInv
BY PrefixAssumption, RestartsAssumption
DEF Init, LoadInv, TypeOK, LoadedAll, LoadedOnlySeen, Prefixes

LEMMA LoadStep == LoadInv /\ [Next]_vars => LoadInv'
<1>. SUFFICES ASSUME LoadInv, [Next]_vars PROVE LoadInv'
  OBVIOUS
<1>. USE DEF LoadInv, LoadedAll, LoadedOnlySeen
<1>1. CASE LoadPage
  <2>. PICK page \in SUBSET db :
         /\ IsPage(page)
         /\ cursor' \in page /\ \A p \in page : p <= cursor'
         /\ trie' = trie \cup page
    BY <1>1 DEF LoadPage
  <2>1. UNCHANGED <<db, phase, restarts, stable, seen>> /\ phase = "loading"
    BY <1>1 DEF LoadPage
  <2>2. TypeOK'
    BY <2>1 DEF TypeOK
  <2>3. ASSUME NEW p \in stable, p > 0, p <= cursor' PROVE p \in trie'
    <3>1. p \in db /\ p \in Prefixes
      BY <2>1 DEF TypeOK
    <3>2. CASE p <= cursor
      BY <2>1, <2>3, <3>2
    <3>3. CASE p > cursor
      BY <2>3, <3>1, <3>3, PageHasNoGap
    <3>. QED
      BY <3>1, <3>2, <3>3, PrefixAssumption DEF TypeOK, Prefixes
  <2>4. trie' \subseteq seen'
    BY <2>1
  <2>. QED
    BY <2>1, <2>2, <2>3, <2>4
<1>2. CASE EndLoad
  <2>1. Rest = {} /\ phase = "loading" /\ phase' = "serving"
        /\ UNCHANGED <<db, cursor, trie, restarts, stable, seen>>
    BY <1>2, EmptyPage DEF EndLoad
  <2>2. ASSUME NEW p \in stable, p # 0 PROVE p \in trie
    <3>1. p \in db /\ p \in Prefixes /\ ~(p > cursor)
      BY <2>1 DEF TypeOK, Rest
    <3>. QED
      BY <2>1, <2>2, <3>1, PrefixAssumption DEF TypeOK, Prefixes
  <2>. QED
    BY <2>1, <2>2 DEF TypeOK
<1>3. CASE FailLoad
  BY <1>3 DEF FailLoad, TypeOK
<1>4. CASE Restart
  <2>1. TypeOK'
    BY <1>4, PrefixAssumption, RestartsAssumption DEF Restart, TypeOK, Prefixes
  <2>. QED
    BY <1>4, <2>1, PrefixAssumption DEF Restart, TypeOK, Prefixes
<1>5. ASSUME NEW p \in Prefixes, Insert(p) PROVE LoadInv'
  BY <1>5 DEF Insert, TypeOK
<1>6. ASSUME NEW p \in Prefixes, Delete(p) PROVE LoadInv'
  BY <1>6 DEF Delete, TypeOK
<1>7. CASE UNCHANGED vars
  BY <1>7 DEF vars, TypeOK
<1>. QED
  BY <1>1, <1>2, <1>3, <1>4, <1>5, <1>6, <1>7 DEF Next

(* Every variable keeps its type.                                          *)
THEOREM TypeCorrect == Spec => []TypeOK
<1>1. LoadInv => TypeOK
  BY DEF LoadInv
<1>. QED
  BY LoadInit, LoadStep, <1>1, PTL DEF Spec

(* The loop of main.go misses no entry that stays in the collection.       *)
THEOREM LoadedAllHolds == Spec => []LoadedAll
<1>1. LoadInv => LoadedAll
  BY DEF LoadInv
<1>. QED
  BY LoadInit, LoadStep, <1>1, PTL DEF Spec

(* It keeps nothing of a load that failed.                                 *)
THEOREM LoadedOnlySeenHolds == Spec => []LoadedOnlySeen
<1>1. LoadInv => LoadedOnlySeen
  BY DEF LoadInv
<1>. QED
  BY LoadInit, LoadStep, <1>1, PTL DEF Spec
=============================================================================
