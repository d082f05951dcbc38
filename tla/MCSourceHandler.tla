-------------------------- MODULE MCSourceHandler --------------------------
(* Requests about a Telegram channel that two users want, and one query of *)
(* each of the other kinds.                                                *)
EXTENDS SourceHandler, TLC

Query(op, type, addr, user) ==
  [op |-> op, type |-> type, addr |-> addr, user |-> user, valid |-> TRUE]

SmallQueries ==
  {Query("create", "tgch", "escaped", u) : u \in {"u", "v"}}
    \cup {Query(op, "tgch", "raw", "u") : op \in {"read", "delete"}}
    \cup {Query("delete", "feed", "raw", "u"), Query("read", "tgbc", "raw", "u"),
          Query("create", "feed", "escaped", "u"), Query("create", "site", "raw", "u"),
          Query("list", "feed", "escaped", "v")}

SmallKeys == {KeyOf(q) : q \in {x \in SmallQueries : Supported(x)}}

ToEscaped == [a \in {"raw", "escaped"} |-> "escaped"]

RequestSymmetry == Permutations(Requests)
=============================================================================
