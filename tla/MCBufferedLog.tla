--------------------------- MODULE MCBufferedLog ---------------------------
(* Instances of BufferedLog for TLC. *)
EXTENDS BufferedLog
=============================================================================
