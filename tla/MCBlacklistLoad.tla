-------------------------- MODULE MCBlacklistLoad --------------------------
(***************************************************************************)
(* BlacklistLoad with up to five prefixes and pages of two: up to three    *)
(* pages and the empty one, with any entries moving around the cursor.     *)
(***************************************************************************)
EXTENDS BlacklistLoad
=============================================================================
