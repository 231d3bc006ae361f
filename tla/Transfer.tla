------------------------------- MODULE Transfer -------------------------------
(***************************************************************************)
(* One transfer: the server's child (module Server) and rcopy (module      *)
(* Rcopy) joined by the network (module Network).  The initial state is    *)
(* the one after the file name exchange: the child has its own socket and  *)
(* rcopy is in RECEIVE_DATA.                                               *)
(*                                                                         *)
(* The properties come in two groups.  The first holds for every window    *)
(* and buffer size on any network.  The second needs a network, named      *)
(* Sheltered, and a window, named FitsRing, for which selective reject as  *)
(* coded here is a correct protocol.                                       *)
(***************************************************************************)
EXTENDS Server, Rcopy

vars == <<serverVars, rcopyVars, netVars>>

Init == ServerInit /\ RcopyInit /\ NetInit

AServerNext == ServerNext /\ UNCHANGED rcopyVars

AClientNext == ClientNext /\ UNCHANGED serverVars

ANetworkNext == (NetDuplicate \/ NetReorder) /\ UNCHANGED <<serverVars, rcopyVars>>

Ended == srv \in Stopped /\ rcv \in Gone

\* Both processes have exited: the one state where nothing is left to do.
Terminated == Ended /\ UNCHANGED vars

Next == AServerNext \/ AClientNext \/ ANetworkNext \/ Terminated

Spec == Init /\ [][Next]_vars

\* Each process keeps being scheduled; the network owes nothing.
FairSpec == Spec /\ WF_vars(AServerNext) /\ WF_vars(AClientNext)

TypeOK ==
    /\ ServerTypeOK
    /\ RcopyTypeOK
    /\ toClient \in Seq(ClientBound)
    /\ toServer \in Seq(ServerBound)
    /\ faults \in Nat

------------------------------------------------------------------------------
(***************************************************************************)
(* Properties on any network.                                              *)
(***************************************************************************)

\* The server never believes more than rcopy said: whatever the network does,
\* the lower edge of its window and every RR on its way to it are at most the
\* number rcopy expects, so a chunk the server regards as acknowledged was
\* taken by rcopy.  (rcopy.c send_rr, server.c process_rr_srej_eof.)
AckedWasReceived ==
    /\ window.lowest <= buffer.current
    /\ \A p \in InFlight(toServer) : p.flag = FLAG_RR => p.data <= buffer.current

\* rcopy reports "Exiting tranfer complete" only after it consumed a packet
\* for every sequence number of the file and one for the EOF, and after the
\* server read the whole file.  (rcopy.c handle_inorder and handle_buffer.)
NoEarlyExit ==
    rcv = "EXIT" => buffer.current > NumChunks /\ filePos = NumChunks

\* A late or repeated RR moves the window backward, and resend_packet may then
\* find other chunks in the slots it is asked for.  Yet the server overwrites
\* no chunk that rcopy has not passed: whatever the network does, each one it
\* sent is still in its slot, if the initial window fits the ring.  (server.c
\* process_rr_srej_eof, "Moving window forward"; buffer.c buffer_add.)
KeptForRcopy ==
    \A s \in buffer.current..(window.current - 1) :
        Entry(window, s) = [valid_flag |-> TRUE, sequence_num |-> s, data |-> s]

------------------------------------------------------------------------------
(***************************************************************************)
(* Properties of the sheltered setting.                                    *)
(***************************************************************************)

\* Acknowledgments may be lost but are not damaged; packets are neither
\* duplicated nor reordered.
Sheltered ==
    /\ "flip" \notin ClientErrors
    /\ NetFaults = {}

\* The buffer size, which the code takes for the initial end of the window, is
\* at most the number of slots.
FitsRing == BufferSize <= WindowSize

\* The output file is at every moment a prefix of the file, with no chunk
\* missing, repeated or exchanged.  (fwrite in the three receive handlers.)
Integrity ==
    /\ Len(out) <= NumChunks
    /\ \A i \in 1..Len(out) : out[i] = i - 1

\* When rcopy exits normally the output file is the whole file.
CompleteOnExit == rcv = "EXIT" => Len(out) = NumChunks

\* Every chunk sent and not yet acknowledged is still in its slot, so that
\* resend_packet sends the chunk it was asked for.  (server.c resend_packet,
\* buffer.c buffer_add.)
RetainedForResend ==
    \A s \in window.lowest..(window.current - 1) :
        Entry(window, s) = [valid_flag |-> TRUE, sequence_num |-> s, data |-> s]

\* The server never has more than a window of chunks outstanding, nor is its
\* next number beyond the end of the window.
NeverOverrun ==
    /\ window.current <= window.highest
    /\ window.current <= window.lowest + WindowSize

\* Nothing stays behind in rcopy's buffer: when it goes back to in-order
\* receiving every slot is free, and while it waits for a missing packet it
\* buffers only packets less than a window ahead of that one, and the EOF
\* behind them.  (rcopy.c handle_flush.)
BufferedIsAhead ==
    rcv \in Receiving => \A i \in Slots :
        LET e == buffer.entries[i] IN e.valid_flag =>
            /\ rcv = "BUFFER"
            /\ buffer.current < e.sequence_num
            /\ e.sequence_num <= buffer.current + WindowSize
            /\ Slot(e.sequence_num) = i

\* The window never moves backward.  (server.c process_rr_srej_eof, "Moving
\* window forward".)
WindowMovesForward ==
    [][/\ window'.lowest >= window.lowest
       /\ window'.highest >= window.highest]_window

\* Both processes end, whatever is lost: every loop that waits counts its
\* time-outs or leaves after one.  (server.c handle_send_data and
\* handle_wait_EOF_ack, rcopy.c handle_inorder and handle_buffer.)
Termination == <>Ended

\* While the child runs it reads the acknowledgments that reached it.
\* (server.c handle_send_data: "If window is full, wait for acknowledgments".)
AcksAreRead == (toServer # <<>>) ~> (toServer = <<>> \/ srv \in Stopped)

\* rcopy as its user sees it.
TransferStatus ==
    CASE rcv = "EXIT" -> "complete"
      [] rcv = "ABORTED" -> "given_up"
      [] OTHER -> "copying"

Copy == INSTANCE FileCopy WITH copied <- out, status <- TransferStatus

\* The transfer is a file copy: chunk after chunk in order, complete when it
\* says so.  (rcopy.c receive_data_fsm and the handlers it calls.)
ImplementsFileCopy == Copy!Spec
===============================================================================
