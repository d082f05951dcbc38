--------------------------- MODULE BlacklistLoad ---------------------------
(***************************************************************************)
(* How a replica loads the blacklist before it serves (main.go): page      *)
(* after page of the collection from storage/blacklist.go, each page put   *)
(* into the prefix trie, the cursor being the last prefix of the page.     *)
(* Meanwhile somebody may insert and delete entries.  Prefixes are numbers *)
(* in the order of the strings, 0 is the empty string.                     *)
(*                                                                         *)
(* GetPage sends one query and its limit fits the first batch of a cursor, *)
(* so a page is read at once.  It asks for no order: the entries come in   *)
(* the order of the unique index of ensureIndices, which answers the query.*)
(***************************************************************************)
EXTENDS Integers, FiniteSets

CONSTANTS
  MaxPrefix,     \* bound on the prefixes there are
  PageSize,      \* 100 in the program
  MaxRestarts    \* bound on the restarts after a failed load

ASSUME PrefixAssumption == MaxPrefix \in Nat
ASSUME PageAssumption == PageSize \in Nat \ {0}
ASSUME RestartsAssumption == MaxRestarts \in Nat

Prefixes == 0..MaxPrefix

VARIABLES
  db,            \* the collection
  cursor,        \* the cursor of the loop
  trie,          \* what is in the trie
  phase,         \* loading, serving or panicked
  restarts,
  stable,        \* history: in the collection since the load began
  seen           \* history: in the collection at some time of the load

vars == <<db, cursor, trie, phase, restarts, stable, seen>>

Init ==
  /\ db \in SUBSET Prefixes
  /\ cursor = 0
  /\ trie = {}
  /\ phase = "loading"
  /\ restarts = 0
  /\ stable = db
  /\ seen = db

Rest == {p \in db : p > cursor}

(* A defect: the entries come in any order.                                *)
IsAnyPage(page) ==
  /\ page \subseteq Rest
  /\ page = Rest \/ Cardinality(page) = PageSize

(* The first PageSize entries after the cursor, or all of them.            *)
IsPage(page) ==
  /\ page \subseteq Rest
  /\ \A p \in page, q \in Rest \ page : p < q
  /\ page = Rest \/ Cardinality(page) = PageSize

(* A defect: the cursor is not moved to the last entry of the page.        *)
LoadPageAgain ==
  /\ phase = "loading"
  /\ \E page \in SUBSET db : IsPage(page) /\ page # {} /\ trie' = trie \cup page
  /\ UNCHANGED <<db, cursor, phase, restarts, stable, seen>>

(* A defect: the cursor is moved behind the last entry of the page.        *)
LoadPageFurther ==
  /\ phase = "loading"
  /\ \E page \in SUBSET db :
       /\ IsPage(page)
       /\ page # {}
       /\ \E last \in page : cursor' = last + 1 /\ \A p \in page : p <= last
       /\ trie' = trie \cup page
  /\ UNCHANGED <<db, phase, restarts, stable, seen>>

(* One turn of the loop with a page to put.                                *)
LoadPage ==
  /\ phase = "loading"
  /\ \E page \in SUBSET db :
       /\ IsPage(page)
       /\ page # {}
       /\ cursor' \in page /\ \A p \in page : p <= cursor'
       /\ trie' = trie \cup page
  /\ UNCHANGED <<db, phase, restarts, stable, seen>>

(* The empty page ends the loop and the server starts.                     *)
EndLoad ==
  /\ phase = "loading"
  /\ IsPage({})
  /\ phase' = "serving"
  /\ UNCHANGED <<db, cursor, trie, restarts, stable, seen>>

(* The query or the decoding of an entry fails: panic.                     *)
FailLoad ==
  /\ phase = "loading" /\ restarts < MaxRestarts
  /\ phase' = "panicked"
  /\ UNCHANGED <<db, cursor, trie, restarts, stable, seen>>

(* A defect: the trie outlives the failed load.                            *)
RestartWithTrie ==
  /\ phase = "panicked"
  /\ phase' = "loading"
  /\ restarts' = restarts + 1
  /\ cursor' = 0
  /\ stable' = db
  /\ seen' = db
  /\ UNCHANGED <<db, trie>>

(* The process is started again.                                           *)
Restart ==
  /\ phase = "panicked"
  /\ phase' = "loading"
  /\ restarts' = restarts + 1
  /\ cursor' = 0
  /\ trie' = {}
  /\ stable' = db
  /\ seen' = db
  /\ UNCHANGED db

(* Entries are inserted and deleted by somebody else.                      *)
Insert(p) ==
  /\ p \notin db
  /\ db' = db \cup {p}
  /\ seen' = IF phase = "loading" THEN seen \cup {p} ELSE seen
  /\ UNCHANGED <<cursor, trie, phase, restarts, stable>>

Delete(p) ==
  /\ p \in db
  /\ db' = db \ {p}
  /\ stable' = IF phase = "loading" THEN stable \ {p} ELSE stable
  /\ UNCHANGED <<cursor, trie, phase, restarts, seen>>

Next ==
  \/ LoadPage
  \/ EndLoad
  \/ FailLoad
  \/ Restart
  \/ \E p \in Prefixes : Insert(p) \/ Delete(p)

Spec == Init /\ [][Next]_vars

(* The loop and the restart go on; nobody has to write to the collection.  *)
FairSpec == Spec /\ WF_vars(LoadPage \/ EndLoad) /\ WF_vars(Restart)

(***************************************************************************)
(* Properties                                                              *)
(***************************************************************************)

(* Every variable has its type.                                            *)
TypeOK ==
  /\ db \subseteq Prefixes
  /\ cursor \in Prefixes
  /\ trie \subseteq Prefixes
  /\ phase \in {"loading", "serving", "panicked"}
  /\ restarts \in 0..MaxRestarts
  /\ stable \subseteq Prefixes
  /\ seen \subseteq Prefixes

(* A replica that serves knows every entry that was in the collection for  *)
(* the whole load, whatever was inserted and deleted around the cursor     *)
(* meanwhile (main.go:168-181); the empty prefix is never read.            *)
LoadedAll == phase = "serving" => stable \ {0} \subseteq trie

(* It knows nothing that was not in the collection during this load: what  *)
(* a load that failed had read is gone.                                    *)
LoadedOnlySeen == trie \subseteq seen

(* The loop reads no entry twice and ends although entries are inserted    *)
(* while it runs: every replica serves in the end.                         *)
Served == <>(phase = "serving")
=============================================================================
