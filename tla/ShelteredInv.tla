----------------------------- MODULE ShelteredInv -----------------------------
(***************************************************************************)
(* The inductive invariant behind the properties of the sheltered setting  *)
(* of module Transfer.                                                     *)
(*                                                                         *)
(* Neither process can see the other's numbers, so Integrity alone says    *)
(* nothing about the next step: what keeps a slot of either ring from      *)
(* being taken by a wrong chunk is a chain of inequalities from the lower  *)
(* edge of the server's window, over the acknowledgments on their way and  *)
(* the number rcopy expects, to the packets on their way back.             *)
(***************************************************************************)
EXTENDS Transfer

\* The server has read the whole file and has begun to send EOF, or has gone.
EofPhase == srv \in EofStates \cup Stopped /\ window.current = NumChunks

\* Sequence number and payload that belong together: a chunk that was sent,
\* or the EOF packet, which has the number after the last chunk.
Genuine(s, d) ==
    \/ s < window.current /\ d = s
    \/ s = NumChunks /\ d = NoData /\ EofPhase

IsAck(p) == p.flag \in {FLAG_RR, FLAG_SREJ}

\* The child has not sent more than a window of chunks beyond the last
\* acknowledgment it read.
Paced == window.current <= window.lowest + WindowSize

\* The end of the window is where the last RR put it, or nearer.
WindowBound == window.highest <= window.lowest + WindowSize

\* The child: what it sent is behind what it read, inside a window that is
\* never empty, and what is not acknowledged is still in its slot.
WindowInv ==
    /\ window.current = filePos
    /\ window.lowest < window.highest
    /\ window.current <= window.highest
    /\ Paced
    /\ srv \in EofStates => filePos = NumChunks
    /\ RetainedForResend

\* Acknowledgments on their way: undamaged, between the lower edge of the
\* window and the number rcopy expects, and in ascending order.
AcksInv ==
    /\ window.lowest <= buffer.current
    /\ \A i \in 1..Len(toServer) : LET p == toServer[i] IN
           /\ p # Corrupted
           /\ IsAck(p) => window.lowest <= p.data /\ p.data <= buffer.current
           /\ p.flag = FLAG_SREJ => p.data < window.current
    /\ \A i, j \in 1..Len(toServer) :
           i < j /\ IsAck(toServer[i]) /\ IsAck(toServer[j])
               => toServer[i].data <= toServer[j].data

\* Packets on their way to rcopy: genuine, at most a window ahead of what it
\* expects, and, as far as they are news to it, in ascending order and not
\* before the last packet it buffered.
DataInv ==
    /\ \A i \in 1..Len(toClient) : LET p == toClient[i] IN p # Corrupted =>
           /\ Genuine(p.seq, p.data)
           /\ p.flag = FLAG_EOF => p.seq = NumChunks /\ EofPhase
           /\ p.seq <= buffer.current + WindowSize
           /\ p.seq <= buffer.current \/ p.seq >= buffer.highest
    /\ \A i, j \in 1..Len(toClient) :
           i < j /\ toClient[i] # Corrupted /\ toClient[j] # Corrupted
               => \/ toClient[j].seq <= buffer.current
                  \/ toClient[i].seq <= toClient[j].seq

\* rcopy: what it wrote, and what it holds for later.
ExpectedInv ==
    /\ buffer.highest <= window.current
    /\ \/ buffer.current <= window.current /\ Len(out) = buffer.current
       \/ buffer.current = NumChunks + 1 /\ Len(out) = NumChunks /\ EofPhase
    /\ \A i \in 1..Len(out) : out[i] = i - 1

HeldInv ==
    rcv \in {"INORDER", "BUFFER", "FLUSH"} => \A i \in Slots :
        LET e == buffer.entries[i] IN e.valid_flag =>
            /\ rcv # "INORDER"
            /\ Genuine(e.sequence_num, e.data)
            /\ Slot(e.sequence_num) = i
            /\ e.sequence_num >= buffer.current
            /\ rcv = "BUFFER" => e.sequence_num # buffer.current
            /\ e.sequence_num <= buffer.current + WindowSize
            /\ rcv = "FLUSH" => e.sequence_num < buffer.current + WindowSize
            /\ e.sequence_num <= buffer.highest

\* Together with the types and with NoEarlyExit this is inductive.
ShelteredInv ==
    /\ WindowInv
    /\ AcksInv
    /\ DataInv
    /\ ExpectedInv
    /\ HeldInv
    /\ NoEarlyExit
===============================================================================
