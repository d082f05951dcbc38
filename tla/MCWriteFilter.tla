---------------------------- MODULE MCWriteFilter ----------------------------
(***************************************************************************)
(* Batches of up to three events out of five: a clean one, one with a      *)
(* blacklisted source, one with a blacklisted type, one with a blacklisted *)
(* textual attribute among others, and one whose attribute of another type *)
(* is blacklisted with the value of its textual neighbour.                 *)
(***************************************************************************)
EXTENDS WriteFilter

Text(v) == [textual |-> TRUE, value |-> v]
Number == [textual |-> FALSE, value |-> ""]

Event(source, type, attributes) ==
  [source |-> source, type |-> type, attributes |-> attributes]

SmallEvents ==
  {Event("good", "good", [action |-> Text("good")]),
   Event("bad", "good", [action |-> Text("good")]),
   Event("good", "bad", [action |-> Text("good")]),
   Event("good", "good", [action |-> Text("bad"), level |-> Text(""), lang |-> Text("good")]),
   Event("good", "good", [action |-> Text("good"), level |-> Number])}

SmallBlacklist ==
  {<<"source", "bad">>, <<"type", "bad">>, <<"action", "bad">>, <<"level", "good">>}
=============================================================================
