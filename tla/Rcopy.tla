--------------------------------- MODULE Rcopy ---------------------------------
(***************************************************************************)
(* The receiving half of rcopy (RECEIVE_DATA of rcopy_FSM and the machine  *)
(* of receive_data_fsm): it writes chunks in order, buffers the ones that  *)
(* come too early, asks for the missing one with SREJ and acknowledges     *)
(* with RR.                                                                *)
(*                                                                         *)
(* `rcv' is the RecvState; ABORTED stands for the exit(-1) after 10        *)
(* seconds without a packet, and `out' for the contents of the output      *)
(* file, one element per chunk.  A handler that reads a packet is one      *)
(* step.  handle_flush, which reads none, is a step per turn of its loop   *)
(* and one for what follows the loop, because the server can run between   *)
(* its sends.  Not modelled: `eof_seq_num', a copy of the sequence number  *)
(* of the EOF packet in hand, used nowhere else.                           *)
(***************************************************************************)
EXTENDS Window, Network

VARIABLES
    buffer,     \* rcopy's CircularBuffer; current is the expected number
    rcv,
    out

rcopyVars == <<buffer, rcv, out>>

RecvStates == {"INORDER", "BUFFER", "FLUSH", "EXIT", "ABORTED"}

\* The states that wait in pollCall(10000).
Receiving == {"INORDER", "BUFFER"}

Gone == {"EXIT", "ABORTED"}

RcopyInit ==
    /\ buffer = buffer_init(0)
    /\ rcv = "INORDER"
    /\ out = <<>>

\* fwrite: a payload of no bytes leaves the file as it is.
Written(file, d) == IF d = NoData THEN file ELSE Append(file, d)

\* The packet handed to the handler of state s; the rest of the queue waits.
Received(s, p) ==
    /\ rcv = s
    /\ toClient # <<>>
    /\ p = Head(toClient)
    /\ toClient' = Tail(toClient)

DropCorrupted(s) ==
    /\ Received(s, Corrupted)
    /\ UNCHANGED <<rcopyVars, toServer, faults>>

\* Mutants of IsLastEof: every EOF; an EOF with the expected number.
IsLastEofAny(p) == p.flag = FLAG_EOF

IsLastEofEarly(p) == p.flag = FLAG_EOF /\ buffer.current >= p.seq

IsLastEof(p) == p.flag = FLAG_EOF /\ buffer.current > p.seq

\* The answer to an EOF is sent once, and nobody is left to repeat it.
ExitTransfer(s) ==
    LET p == Head(toClient) IN
    /\ Received(s, p)
    /\ ~BadChecksum(p)
    /\ IsLastEof(p)
    /\ SendToServer(build_packet(0, FLAG_EOF, NoData))
    /\ rcv' = "EXIT"
    /\ UNCHANGED <<buffer, out>>

\* A packet that the checks before the comparison of sequence numbers let by.
Accepted(s, p) ==
    /\ Received(s, p)
    /\ ~BadChecksum(p)
    /\ ~IsLastEof(p)

\* Mutants of AckAgain: the number of the packet is acknowledged; no answer.
AckAgainOld(s) ==
    LET p == Head(toClient) IN
    /\ Accepted(s, p)
    /\ p.seq < buffer.current
    /\ SendToServer(RR(p.seq))
    /\ UNCHANGED rcopyVars

AckAgainSilent(s) ==
    LET p == Head(toClient) IN
    /\ Accepted(s, p)
    /\ p.seq < buffer.current
    /\ UNCHANGED <<rcopyVars, toServer, faults>>

AckAgain(s) ==
    LET p == Head(toClient) IN
    /\ Accepted(s, p)
    /\ p.seq < buffer.current
    /\ SendToServer(RR(buffer.current))
    /\ UNCHANGED rcopyVars

\* Mutant of Stored: the highest number is not noted.
StoredUnnoted(b, p) == buffer_add(b, p.seq, p.data)

Stored(b, p) == [buffer_add(b, p.seq, p.data) EXCEPT !.highest = p.seq]

WriteInorder ==
    LET p == Head(toClient) IN
    /\ Accepted("INORDER", p)
    /\ p.seq = buffer.current
    /\ out' = Written(out, p.data)
    /\ buffer' = [buffer EXCEPT !.highest = buffer.current, !.current = @ + 1]
    /\ SendToServer(RR(buffer'.current))
    /\ UNCHANGED rcv

\* Mutants of GapFound: the packet beyond the gap is acknowledged; the missing
\* one is not asked for.
GapFoundAcked ==
    LET p == Head(toClient) IN
    /\ Accepted("INORDER", p)
    /\ p.seq > buffer.current
    /\ SendToServer(RR(p.seq))
    /\ buffer' = Stored(buffer, p)
    /\ rcv' = "BUFFER"
    /\ UNCHANGED out

GapFoundSilent ==
    LET p == Head(toClient) IN
    /\ Accepted("INORDER", p)
    /\ p.seq > buffer.current
    /\ buffer' = Stored(buffer, p)
    /\ rcv' = "BUFFER"
    /\ UNCHANGED <<out, toServer, faults>>

GapFound ==
    LET p == Head(toClient) IN
    /\ Accepted("INORDER", p)
    /\ p.seq > buffer.current
    /\ SendToServer(SREJ(buffer.current))
    /\ buffer' = Stored(buffer, p)
    /\ rcv' = "BUFFER"
    /\ UNCHANGED out

handle_inorder ==
    \/ DropCorrupted("INORDER")
    \/ ExitTransfer("INORDER")
    \/ WriteInorder
    \/ GapFound
    \/ AckAgain("INORDER")

\* Mutant of FillGap: the expected number is not increased.
FillGapStay ==
    LET p == Head(toClient) IN
    /\ Accepted("BUFFER", p)
    /\ p.seq = buffer.current
    /\ out' = Written(out, p.data)
    /\ rcv' = "FLUSH"
    /\ UNCHANGED <<buffer, toServer, faults>>

FillGap ==
    LET p == Head(toClient) IN
    /\ Accepted("BUFFER", p)
    /\ p.seq = buffer.current
    /\ out' = Written(out, p.data)
    /\ buffer' = [buffer EXCEPT !.current = @ + 1]
    /\ rcv' = "FLUSH"
    /\ UNCHANGED <<toServer, faults>>

StoreEarly ==
    LET p == Head(toClient) IN
    /\ Accepted("BUFFER", p)
    /\ p.seq > buffer.current
    /\ buffer' = Stored(buffer, p)
    /\ UNCHANGED <<rcv, out, toServer, faults>>

handle_buffer ==
    \/ DropCorrupted("BUFFER")
    \/ ExitTransfer("BUFFER")
    \/ FillGap
    \/ StoreEarly
    \/ AckAgain("BUFFER")

\* Mutant of FlushEntry: the slot stays valid.
FlushEntryKept ==
    /\ rcv = "FLUSH"
    /\ Entry(buffer, buffer.current).valid_flag
    /\ out' = Written(out, Entry(buffer, buffer.current).data)
    /\ buffer' = [buffer EXCEPT !.current = @ + 1]
    /\ SendToServer(RR(buffer'.current))
    /\ UNCHANGED <<rcv, toClient>>

\* Only the valid flag is looked at, not the sequence number of the entry.
FlushEntry ==
    /\ rcv = "FLUSH"
    /\ Entry(buffer, buffer.current).valid_flag
    /\ out' = Written(out, Entry(buffer, buffer.current).data)
    /\ buffer' = [buffer EXCEPT !.entries[Slot(buffer.current)].valid_flag = FALSE,
                                !.current = @ + 1]
    /\ SendToServer(RR(buffer'.current))
    /\ UNCHANGED <<rcv, toClient>>

NothingMissing(b) == b.current >= b.highest

FlushEnd ==
    /\ rcv = "FLUSH"
    /\ ~Entry(buffer, buffer.current).valid_flag
    /\ IF NothingMissing(buffer)
       THEN /\ rcv' = "INORDER"
            /\ UNCHANGED <<toServer, faults>>
       ELSE /\ rcv' = "BUFFER"
            /\ SendTwoToServer(SREJ(buffer.current), RR(buffer.current))
    /\ UNCHANGED <<buffer, out, toClient>>

handle_flush == FlushEntry \/ FlushEnd

ClientTimeout ==
    /\ rcv \in Receiving
    /\ toClient = <<>>
    /\ rcv' = "ABORTED"
    /\ UNCHANGED <<buffer, out, netVars>>

ClientStep == handle_inorder \/ handle_buffer \/ handle_flush

ClientNext == ClientStep \/ ClientTimeout

RcopyTypeOK ==
    /\ buffer \in CircularBuffer
    /\ rcv \in RecvStates
    /\ out \in Seq(Nat \cup {Uninit})
================================================================================
