----------------------------- MODULE MCLifecycle -----------------------------
(* An instance of Lifecycle for TLC. *)
EXTENDS Lifecycle

CONSTANTS s1, s2, p1
==============================================================================
