----------------------------- MODULE BlockFifo -----------------------------
(***************************************************************************)
(* What CompressJob promises to its user: the blocks handed to appendz     *)
(* reach the archive one by one and in that order, at most Capacity of     *)
(* them are waiting at any time, and the queue is closed only after the    *)
(* last one has been written.                                              *)
(***************************************************************************)
EXTENDS Integers, Sequences

CONSTANTS NBlocks, Capacity

VARIABLES accepted, written, closed

fifoVars == <<accepted, written, closed>>

Init == accepted = 0 /\ written = <<>> /\ closed = FALSE

Accept ==
  /\ accepted < NBlocks
  /\ accepted - Len(written) < Capacity
  /\ accepted' = accepted + 1
  /\ UNCHANGED <<written, closed>>

Write ==
  /\ Len(written) < accepted
  /\ written' = Append(written, Len(written) + 1)
  /\ UNCHANGED <<accepted, closed>>

Close ==
  /\ ~closed
  /\ accepted = NBlocks
  /\ Len(written) = NBlocks
  /\ closed' = TRUE
  /\ UNCHANGED <<accepted, written>>

Next == Accept \/ Write \/ Close

Spec == Init /\ [][Next]_fifoVars

LiveSpec == Spec /\ WF_fifoVars(Next)
=============================================================================
