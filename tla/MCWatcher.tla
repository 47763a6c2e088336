----------------------------- MODULE MCWatcher -----------------------------
(* Instances of Watcher for TLC: two packs of one query each. *)
EXTENDS Watcher

CONSTANTS q1, q2

MCPackOf == [q \in Queries |-> IF q = q1 THEN 1 ELSE 2]
=============================================================================
