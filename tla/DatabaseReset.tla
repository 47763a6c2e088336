--------------------------- MODULE DatabaseReset ---------------------------
(***************************************************************************)
(* The lock that a reset of the database takes (kDatabaseReset in          *)
(* database.cpp).  Every read and write of the database holds it shared    *)
(* for one call, a step in the modules that use it; a reset holds it       *)
(* exclusively over several steps.  A reset that fails and falls back to   *)
(* an empty database is left out.                                          *)
(***************************************************************************)

VARIABLE resetting  \* a reset holds kDatabaseReset, and kDBInitialized is false

\* The guard of a step that reads or writes the database.
ReadLock == ~resetting

databaseInitialized == ~resetting

lockReset == ~resetting /\ resetting' = TRUE

unlockReset == resetting /\ resetting' = FALSE
=============================================================================
