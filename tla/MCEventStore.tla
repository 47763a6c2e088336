--------------------------- MODULE MCEventStore ---------------------------
(* Instances of EventStore for TLC. *)
EXTENDS EventStore, TLC

CONSTANTS q1, q2, s1, s2

\* Every query reads s1.
OneTable == [q \in Queries |-> {s1}]

\* Every query reads all event tables, as a join or a union does.
AllTables == [q \in Queries |-> Subscribers]

\* The queries are interchangeable: they read the same tables.
QuerySymmetry == Permutations(Queries)
=============================================================================
