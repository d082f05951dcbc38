---------------------------- MODULE MCPublisher ----------------------------
(***************************************************************************)
(* Instances of Publisher: a user with a limit of his own and users that   *)
(* share the limit of their group.  SmallSubmissions keeps the submissions *)
(* that differ in what the code decides: an owner that publishes under his *)
(* own name or not, a batch larger than the limit, a single event, the     *)
(* empty batch and an internal event.                                      *)
(***************************************************************************)
EXTENDS Publisher, TLC

CONSTANTS r1, r2, r3, alice, bob, carol, nobody

SmallLimit == (alice :> 2) @@ (carol :> 0) @@ (nobody :> 1)

Batch(user, n, src) == [user |-> user, n |-> n, src |-> src, internal |-> FALSE]

SmallSubmissions ==
  {Batch(alice, 2, bob), Batch(alice, 1, alice), Batch(alice, 0, nobody),
   Batch(carol, 1, bob), Batch(bob, 2, bob),
   [user |-> nobody, n |-> 1, src |-> bob, internal |-> TRUE]}

(* One owner, contended by every request.                                  *)
ContendedSubmissions == {Batch(alice, 2, bob), Batch(alice, 1, alice)}

(* The same owner, who also sends an empty batch.                          *)
RefusedSubmissions == {Batch(alice, 2, bob), Batch(alice, 0, nobody)}

RequestSymmetry == Permutations(Requests)
=============================================================================
