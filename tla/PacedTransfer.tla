---------------------------- MODULE PacedTransfer ----------------------------
(***************************************************************************)
(* A transfer whose buffer size is larger than its window, as in most      *)
(* calls of rcopy (window 10, buffer 1000): the child's first window then  *)
(* ends far beyond its ring.  Nothing in the code keeps it from running    *)
(* there; what does, as a rule, is that rcopy acknowledges faster than the *)
(* child reads the file.                                                   *)
(*                                                                         *)
(* `overrun' is a history variable: it becomes TRUE when the child has     *)
(* sent more than a window of chunks beyond the last acknowledgment it     *)
(* read.  Until then the transfer is as good as with a small buffer.       *)
(***************************************************************************)
EXTENDS ShelteredInv

VARIABLE overrun

pacedVars == <<vars, overrun>>

PacedInit == Init /\ overrun = FALSE

PacedNext == Next /\ overrun' = (overrun \/ ~Paced')

PacedSpec == PacedInit /\ [][PacedNext]_pacedVars

\* Until the child has overrun its ring, the output file is a prefix of the
\* file, and the whole file when rcopy exits.  (server.c handle_send_data with
\* the window of line 384, rcopy.c receive_data_fsm.)
PacedIntegrity == ~overrun => Integrity /\ CompleteOnExit

\* Until the child has overrun its ring, everything rcopy may still ask for is
\* in it, and the window is open or full, so that the child never leaves both
\* loops of handle_send_data at once.
PacedWindow == ~overrun => RetainedForResend /\ NeverOverrun

\* The inductive invariant.
PacedInv == ~overrun => ShelteredInv
==============================================================================
