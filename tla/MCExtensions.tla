----------------------------- MODULE MCExtensions -----------------------------
(* An instance of Extensions for TLC. *)
EXTENDS Extensions, TLC

CONSTANTS a, b, itemX, itemY

\* Every extension has a name of its own.
OwnName == [p \in Extensions |-> p]
===============================================================================
