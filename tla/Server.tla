-------------------------------- MODULE Server --------------------------------
(***************************************************************************)
(* The process the server forks for one transfer (server.c, from the fork  *)
(* of server_FSM on): it reads the file chunk by chunk, sends each chunk   *)
(* while the window is open, answers RR and SREJ, and closes the transfer  *)
(* with EOF packets.                                                       *)
(*                                                                         *)
(* `srv' is the place in the code:                                         *)
(*   SEND_DATA     test of the first loop of handle_send_data              *)
(*   DRAIN         inner loop that reads what has already arrived          *)
(*   WINDOW_FULL   second loop of handle_send_data                         *)
(*   WAIT_EOF_ACK  loop of handle_wait_EOF_ack, about to send EOF          *)
(*   EOF_POLL      the same loop, waiting for the answer                   *)
(*   DONE, CRASHED the process has gone                                    *)
(* A step is the code between two such places, with every call it makes.   *)
(***************************************************************************)
EXTENDS Window, Network

CONSTANTS
    NumChunks,      \* chunks of BufferSize bytes in the file
    MaxAttempts     \* 10 in the code

ASSUME ServerAssumption ==
    /\ NumChunks \in Nat
    /\ MaxAttempts \in Nat \ {0}

VARIABLES
    window,     \* the child's CircularBuffer
    filePos,    \* chunks fread has returned so far
    srv,
    attempts    \* seconds without an answer, counted by the two waiting loops

serverVars == <<window, filePos, srv, attempts>>

\* The states in which the child still runs its loop of server_FSM.
Stopped == {"DONE", "CRASHED"}

\* The states after read_file_to_buffer found the end of the file.
EofStates == {"WAIT_EOF_ACK", "EOF_POLL"}

ServerStates == {"SEND_DATA", "DRAIN", "WINDOW_FULL"} \cup EofStates \cup Stopped

\* The last argument of buffer_init, the initial end of the window, is the
\* buffer size.
ServerInit ==
    /\ window = buffer_init(BufferSize)
    /\ filePos = 0
    /\ srv = "SEND_DATA"
    /\ attempts = 0

\* What the `data' and `data_len' of an entry turn out to be when they are
\* used.  Those of an entry that was never filled are indeterminate: no
\* payload, or some bytes.
PayloadOf(entry) ==
    IF entry.data = Uninit THEN {NoData, Uninit} ELSE {entry.data}

\* Nothing checks that the slot holds the packet asked for.  A length that was
\* never set may also make build_packet write outside its packet.
resend_packet(seq, flag, next) ==
    \/ /\ \E d \in PayloadOf(Entry(window, seq)) :
             SendToClient(build_packet(seq, flag, d))
       /\ srv' = next
    \/ /\ Entry(window, seq).data = Uninit
       /\ srv' = "CRASHED"
       /\ UNCHANGED <<toClient, faults>>

\* Mutants of AdvanceWindow: the window's end without its size, the end one
\* too far, the lower edge one too far.
AdvanceWindowClosed(w, n) == [w EXCEPT !.lowest = n, !.highest = n]

AdvanceWindowWide(w, n) == [w EXCEPT !.lowest = n, !.highest = n + WindowSize + 1]

AdvanceWindowPast(w, n) == [w EXCEPT !.lowest = n + 1, !.highest = n + 1 + WindowSize]

\* The number of an RR is taken as it is: the test that it moves the window
\* forward is commented out.
AdvanceWindow(w, n) == [w EXCEPT !.lowest = n, !.highest = n + WindowSize]

\* Reads one packet and goes on to `next', or to `onEof' after an EOF flag.  A
\* packet with another flag is ignored.
process_rr_srej_eof(next, onEof) ==
    LET p == Head(toServer) IN
    /\ toServer # <<>>
    /\ toServer' = Tail(toServer)
    /\ UNCHANGED filePos
    /\ \/ /\ BadChecksum(p)
          /\ resend_packet(window.lowest, FLAG_RESENT_DATA, next)
          /\ UNCHANGED window
       \/ /\ ~BadChecksum(p)
          /\ p.flag = FLAG_RR
          /\ window' = AdvanceWindow(window, p.data)
          /\ srv' = next
          /\ UNCHANGED <<toClient, faults>>
       \/ /\ ~BadChecksum(p)
          /\ p.flag = FLAG_SREJ
          /\ resend_packet(p.data, FLAG_RESENT_DATA, next)
          /\ UNCHANGED window
       \/ /\ ~BadChecksum(p)
          /\ p.flag \notin {FLAG_RR, FLAG_SREJ}
          /\ srv' = IF p.flag = FLAG_EOF THEN onEof ELSE next
          /\ UNCHANGED <<window, toClient, faults>>

\* Mutant of SendData: current is increased before the chunk is buffered.
SendDataIncrementFirst ==
    /\ srv = "SEND_DATA"
    /\ window.current < window.highest
    /\ filePos < NumChunks
    /\ LET s == window.current + 1
           w == buffer_add(window, s, filePos)
       IN  /\ SendToClient(build_packet(s - 1, FLAG_DATA, Entry(w, s).data))
           /\ window' = [w EXCEPT !.current = s]
    /\ filePos' = filePos + 1
    /\ srv' = "DRAIN"
    /\ UNCHANGED <<toServer, attempts>>

\* read_file_to_buffer followed by send_data.
SendData ==
    /\ srv = "SEND_DATA"
    /\ window.current < window.highest
    /\ filePos < NumChunks
    /\ LET s == window.current
           w == buffer_add(window, s, filePos)
       IN  /\ SendToClient(build_packet(s, FLAG_DATA, Entry(w, s).data))
           /\ window' = [w EXCEPT !.current = s + 1]
    /\ filePos' = filePos + 1
    /\ srv' = "DRAIN"
    /\ UNCHANGED <<toServer, attempts>>

ReadEof ==
    /\ srv = "SEND_DATA"
    /\ window.current < window.highest
    /\ filePos = NumChunks
    /\ srv' = "WAIT_EOF_ACK"
    /\ attempts' = 0
    /\ UNCHANGED <<window, filePos, netVars>>

WindowClosed ==
    /\ srv = "SEND_DATA"
    /\ window.current >= window.highest
    /\ srv' = "WINDOW_FULL"
    /\ attempts' = 0
    /\ UNCHANGED <<window, filePos, netVars>>

DrainRecv ==
    /\ srv = "DRAIN"
    /\ process_rr_srej_eof("DRAIN", "DRAIN")
    /\ UNCHANGED attempts

DrainDone ==
    /\ srv = "DRAIN"
    /\ toServer = <<>>
    /\ srv' = "SEND_DATA"
    /\ UNCHANGED <<window, filePos, attempts, netVars>>

WindowFull == srv = "WINDOW_FULL" /\ window.current = window.highest

FullRecv ==
    /\ WindowFull
    /\ process_rr_srej_eof("WINDOW_FULL", "WINDOW_FULL")
    /\ UNCHANGED attempts

\* Mutant of FullTimeout: one attempt too many.
FullTimeoutLate ==
    /\ WindowFull
    /\ toServer = <<>>
    /\ attempts' = attempts + 1
    /\ IF attempts >= MaxAttempts
       THEN /\ srv' = "DONE"
            /\ UNCHANGED <<toClient, faults>>
       ELSE resend_packet(window.lowest, FLAG_RESENT_TIMEOUT, "WINDOW_FULL")
    /\ UNCHANGED <<window, filePos, toServer>>

FullTimeout ==
    /\ WindowFull
    /\ toServer = <<>>
    /\ attempts' = attempts + 1
    /\ IF attempts + 1 >= MaxAttempts
       THEN /\ srv' = "DONE"
            /\ UNCHANGED <<toClient, faults>>
       ELSE resend_packet(window.lowest, FLAG_RESENT_TIMEOUT, "WINDOW_FULL")
    /\ UNCHANGED <<window, filePos, toServer>>

\* `while (current == highest)' ends, also when current is beyond highest.
FullDone ==
    /\ srv = "WINDOW_FULL"
    /\ window.current # window.highest
    /\ srv' = "SEND_DATA"
    /\ UNCHANGED <<window, filePos, attempts, netVars>>

\* Neither loop of handle_send_data runs its body, and the child reads nothing
\* more: FullDone and WindowClosed follow each other for ever.
Spinning ==
    /\ srv \in {"SEND_DATA", "WINDOW_FULL"}
    /\ window.current > window.highest

SendEof ==
    /\ srv = "WAIT_EOF_ACK"
    /\ SendToClient(build_packet(window.current, FLAG_EOF, NoData))
    /\ srv' = "EOF_POLL"
    /\ UNCHANGED <<window, filePos, attempts, toServer>>

\* Any packet resets the count, a damaged one too.
EofRecv ==
    /\ srv = "EOF_POLL"
    /\ process_rr_srej_eof("WAIT_EOF_ACK", "DONE")
    /\ attempts' = 0

\* Mutants of EofTimeout: the attempts are not counted; one attempt too many.
EofTimeoutUncounted ==
    /\ srv = "EOF_POLL"
    /\ toServer = <<>>
    /\ srv' = "WAIT_EOF_ACK"
    /\ UNCHANGED <<window, filePos, attempts, netVars>>

EofTimeoutLate ==
    /\ srv = "EOF_POLL"
    /\ toServer = <<>>
    /\ attempts' = attempts + 1
    /\ srv' = IF attempts >= MaxAttempts THEN "DONE" ELSE "WAIT_EOF_ACK"
    /\ UNCHANGED <<window, filePos, netVars>>

EofTimeout ==
    /\ srv = "EOF_POLL"
    /\ toServer = <<>>
    /\ attempts' = attempts + 1
    /\ srv' = IF attempts + 1 >= MaxAttempts THEN "DONE" ELSE "WAIT_EOF_ACK"
    /\ UNCHANGED <<window, filePos, netVars>>

ServerTimeout == FullTimeout \/ EofTimeout

ServerStep ==
    \/ SendData \/ ReadEof \/ WindowClosed
    \/ DrainRecv \/ DrainDone
    \/ FullRecv \/ FullDone
    \/ SendEof \/ EofRecv

ServerNext == ServerStep \/ ServerTimeout

ServerTypeOK ==
    /\ window \in CircularBuffer
    /\ filePos \in 0..NumChunks
    /\ srv \in ServerStates
    /\ attempts \in 0..MaxAttempts
    /\ srv \notin Stopped => attempts < MaxAttempts
===============================================================================
