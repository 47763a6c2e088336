------------------------------ MODULE Delivery ------------------------------
(***************************************************************************)
(* What a log buffer promises: a line it has accepted is kept until the    *)
(* receiver has it, or until it is dropped for a reason that is accounted  *)
(* for.  The receiver gets no line that was not accepted; it may get one   *)
(* more than once.  BufferedLog and SchedulerLoop implement it.            *)
(***************************************************************************)

VARIABLES
  kept,     \* accepted lines that are still in the buffer
  taken,    \* lines the receiver has
  dropped   \* lines given up: purged, displaced, lost with a crash...

Known == kept \cup taken \cup dropped

Init == kept = {} /\ taken = {} /\ dropped = {}

\* A new line is accepted; lines it displaces are dropped.
Accept ==
  \E l \in kept' \ Known :
    /\ kept' \ {l} \subseteq kept
    /\ dropped' = dropped \cup (kept \ kept')
    /\ UNCHANGED taken

\* Lines reach the receiver, are dropped and leave the buffer; none leaves it
\* otherwise.
Forward ==
  /\ kept' \subseteq kept
  /\ taken \subseteq taken' /\ taken' \subseteq Known
  /\ dropped \subseteq dropped' /\ dropped' \subseteq Known
  /\ kept \ kept' \subseteq taken' \cup dropped'

Next == Accept \/ Forward

Spec == Init /\ [][Next]_<<kept, taken, dropped>>
=============================================================================
