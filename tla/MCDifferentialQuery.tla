------------------------ MODULE MCDifferentialQuery ------------------------
(* Instances of DifferentialQuery for TLC. *)
EXTENDS DifferentialQuery, TLC

CONSTANTS q1, q2, r1, r2

RowSymmetry == Permutations(Rows)
=============================================================================
