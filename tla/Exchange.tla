------------------------------- MODULE Exchange -------------------------------
(***************************************************************************)
(* The first half of rcopy (SEND_FILENAME of rcopy_FSM): filename_exchange *)
(* sends the request and polls a second for the answer, at most            *)
(* MaxRequests times.                                                      *)
(*                                                                         *)
(* The window size, the buffer size and the name are the same in every     *)
(* request, so a request has no payload here.  What tells a request from   *)
(* the other packets of rcopy is its length: at least 15 bytes, where an   *)
(* RR or SREJ has 11 and an EOF 7.                                         *)
(***************************************************************************)
EXTENDS Network

CONSTANT MaxRequests    \* 10 in the code

VARIABLES
    phase,      \* the RcopyState, POLL for the wait inside filename_exchange,
                \* NO_FILE for the exit(1) after a FILENAME_ERROR
    requests    \* requests sent so far, the one about to be sent included

exchangeVars == <<phase, requests>>

Phases == {"SEND_FILENAME", "POLL", "RECEIVE_DATA", "NO_FILE", "DONE"}

ExchangeInit ==
    /\ phase = "SEND_FILENAME"
    /\ requests = 1

Request == build_packet(0, FLAG_FILENAME, NoData)

\* Mutant of send_filename: one request too many.
send_filenameLate ==
    /\ phase = "SEND_FILENAME"
    /\ requests <= MaxRequests + 1
    /\ SendToServer(Request)
    /\ phase' = "POLL"
    /\ UNCHANGED <<requests, toClient>>

send_filename ==
    /\ phase = "SEND_FILENAME"
    /\ requests <= MaxRequests
    /\ SendToServer(Request)
    /\ phase' = "POLL"
    /\ UNCHANGED <<requests, toClient>>

OutOfRequests ==
    /\ phase = "SEND_FILENAME"
    /\ requests > MaxRequests
    /\ phase' = "DONE"
    /\ UNCHANGED <<requests, netVars>>

\* Mutant of IsYes: any undamaged packet.
IsYesAny(p) == ~BadChecksum(p)

\* The packets that count as "the file exists": the FILENAME_ACK, and a chunk
\* sent for the first time.
IsYes(p) == ~BadChecksum(p) /\ p.flag \in {FLAG_FILENAME_ACK, FLAG_DATA}

IsNo(p) == ~BadChecksum(p) /\ p.flag = FLAG_FILENAME_ERROR

Answered(p) ==
    /\ phase = "POLL"
    /\ toClient # <<>>
    /\ p = Head(toClient)
    /\ toClient' = Tail(toClient)
    /\ UNCHANGED <<toServer, faults>>

\* The chunk that comes in place of the FILENAME_ACK is not kept.
AnswerYes ==
    /\ Answered(Head(toClient))
    /\ IsYes(Head(toClient))
    /\ phase' = "RECEIVE_DATA"
    /\ UNCHANGED requests

AnswerNo ==
    /\ Answered(Head(toClient))
    /\ IsNo(Head(toClient))
    /\ phase' = "NO_FILE"
    /\ UNCHANGED requests

\* A damaged packet, an EOF or a chunk sent again: the request is repeated at
\* once.
AnswerIgnored ==
    LET p == Head(toClient) IN
    /\ Answered(p)
    /\ ~IsYes(p)
    /\ ~IsNo(p)
    /\ phase' = "SEND_FILENAME"
    /\ requests' = requests + 1

\* Mutants of NoAnswer: the poll overlooks what has arrived; the request is not
\* repeated.
NoAnswerHasty ==
    /\ phase = "POLL"
    /\ phase' = "SEND_FILENAME"
    /\ requests' = requests + 1
    /\ UNCHANGED netVars

NoAnswerDone ==
    /\ phase = "POLL"
    /\ toClient = <<>>
    /\ phase' = "DONE"
    /\ UNCHANGED <<requests, netVars>>

NoAnswer ==
    /\ phase = "POLL"
    /\ toClient = <<>>
    /\ phase' = "SEND_FILENAME"
    /\ requests' = requests + 1
    /\ UNCHANGED netVars

ExchangeStep ==
    send_filename \/ OutOfRequests \/ AnswerYes \/ AnswerNo \/ AnswerIgnored

ExchangeTypeOK ==
    /\ phase \in Phases
    /\ requests \in 1..(MaxRequests + 1)
    /\ phase # "SEND_FILENAME" /\ phase # "DONE" => requests <= MaxRequests
===============================================================================
