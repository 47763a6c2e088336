--------------------------- MODULE MCDistributed ---------------------------
(* Instances of Distributed for TLC: two requests share their SQL. *)
EXTENDS Distributed, TLC

CONSTANTS a, b, c, s1, s2

MCSqlOf == [id \in Ids |-> IF id = c THEN s2 ELSE s1]
=============================================================================
