------------------------------- MODULE FileCopy -------------------------------
(***************************************************************************)
(* What a transfer promises to the person who started rcopy: the output    *)
(* file grows by the next chunk of the file each time it grows; rcopy says *)
(* that the transfer is complete only when the file is, and may give up at *)
(* any moment before.                                                      *)
(***************************************************************************)
EXTENDS Integers, Sequences

CONSTANT NumChunks

VARIABLES
    copied,     \* the chunks in the output file
    status      \* "copying", "complete" or "given_up"

copyVars == <<copied, status>>

Init ==
    /\ copied = <<>>
    /\ status = "copying"

CopyNextChunk ==
    /\ status = "copying"
    /\ Len(copied) < NumChunks
    /\ copied' = Append(copied, Len(copied))
    /\ UNCHANGED status

Finish ==
    /\ status = "copying"
    /\ Len(copied) = NumChunks
    /\ status' = "complete"
    /\ UNCHANGED copied

GiveUp ==
    /\ status = "copying"
    /\ status' = "given_up"
    /\ UNCHANGED copied

Next == CopyNextChunk \/ Finish \/ GiveUp

Spec == Init /\ [][Next]_copyVars
===============================================================================
