------------------------------- MODULE Listener -------------------------------
(***************************************************************************)
(* The server's first process: the loop of server_FSM that waits for a     *)
(* request on the well-known port, answers it and forks a child.           *)
(*                                                                         *)
(* Nothing but its checksum is looked at before a packet is taken for a    *)
(* request.  One that is shorter than a request makes filename_len         *)
(* negative, and strncpy is called with a length near 2^64: the process    *)
(* dies.  `toServer' is the queue of the well-known port.                  *)
(*                                                                         *)
(* There is no other way to stop the process than to kill it, which        *)
(* test.sh does between its tests (stop_server, start_server).  A new one  *)
(* on the same port has a new socket: what was sent to the old one is      *)
(* lost.  The children have sockets of their own and go on.                *)
(***************************************************************************)
EXTENDS Network

CONSTANTS
    MaxAttempts,
    MaxChildren     \* processes fork can create before it fails

VARIABLES
    listener,       \* LISTEN, FORK after an answer, CRASHED or KILLED
    badRequests,    \* attempts of processFilenameAck
    children,       \* children forked so far
    fileExists      \* whether fopen finds the file; it never changes

listenerVars == <<listener, badRequests, children, fileExists>>

ListenerInit ==
    /\ listener = "LISTEN"
    /\ badRequests = 0
    /\ children = 0
    /\ fileExists \in BOOLEAN

NextPacket(p) ==
    /\ listener = "LISTEN"
    /\ toServer # <<>>
    /\ p = Head(toServer)
    /\ toServer' = Tail(toServer)
    /\ UNCHANGED fileExists

\* After MaxAttempts of them processFilenameAck returns NULL and is called
\* again.
BadRequest ==
    /\ NextPacket(Corrupted)
    /\ badRequests' = (badRequests + 1) % MaxAttempts
    /\ UNCHANGED <<listener, children, toClient, faults>>

IsRequest(p) == ~BadChecksum(p) /\ p.flag = FLAG_FILENAME

Refuse ==
    /\ NextPacket(Head(toServer))
    /\ IsRequest(Head(toServer))
    /\ SendToClient(build_packet(0, FLAG_FILENAME_ERROR, NoData))
    /\ badRequests' = 0
    /\ UNCHANGED <<listener, children>>

RefuseRequest == ~fileExists /\ Refuse

\* fopen finds no descriptor: the process keeps the file of every request it
\* has accepted open.
RefuseForWant == fileExists /\ Refuse

\* Mutants of AcceptRequest: back to the top of the loop, as after a refusal; the
\* answer before the file is opened.
AcceptRequestAlone ==
    /\ NextPacket(Head(toServer))
    /\ IsRequest(Head(toServer))
    /\ fileExists
    /\ SendToClient(build_packet(0, FLAG_FILENAME_ACK, NoData))
    /\ badRequests' = 0
    /\ UNCHANGED <<listener, children>>

AcceptRequestUnopened ==
    /\ NextPacket(Head(toServer))
    /\ IsRequest(Head(toServer))
    /\ SendToClient(build_packet(0, FLAG_FILENAME_ACK, NoData))
    /\ badRequests' = 0
    /\ listener' = IF fileExists THEN "FORK" ELSE "LISTEN"
    /\ UNCHANGED children

\* Whether this client is already served is not looked at.
AcceptRequest ==
    /\ NextPacket(Head(toServer))
    /\ IsRequest(Head(toServer))
    /\ fileExists
    /\ SendToClient(build_packet(0, FLAG_FILENAME_ACK, NoData))
    /\ badRequests' = 0
    /\ listener' = "FORK"
    /\ UNCHANGED children

\* The client has its answer before the fork, which may fail.
Fork ==
    /\ listener = "FORK"
    /\ children < MaxChildren
    /\ children' = children + 1
    /\ listener' = "LISTEN"
    /\ UNCHANGED <<badRequests, fileExists, netVars>>

ForkFailure ==
    /\ listener = "FORK"
    /\ listener' = "LISTEN"
    /\ UNCHANGED <<badRequests, children, fileExists, netVars>>

ShortPacket ==
    LET p == Head(toServer) IN
    /\ NextPacket(p)
    /\ ~BadChecksum(p)
    /\ ~IsRequest(p)
    /\ listener' = "CRASHED"
    /\ UNCHANGED <<badRequests, children, toClient, faults>>

Kill ==
    /\ listener \in {"LISTEN", "FORK"}
    /\ listener' = "KILLED"
    /\ UNCHANGED <<badRequests, children, fileExists, netVars>>

Restart ==
    /\ listener \in {"KILLED", "CRASHED"}
    /\ listener' = "LISTEN"
    /\ badRequests' = 0
    /\ toServer' = <<>>
    /\ UNCHANGED <<children, fileExists, toClient, faults>>

ListenerNext == BadRequest \/ RefuseRequest \/ AcceptRequest \/ ShortPacket \/ Fork

ListenerTypeOK ==
    /\ listener \in {"LISTEN", "FORK", "CRASHED", "KILLED"}
    /\ badRequests \in 0..(MaxAttempts - 1)
    /\ children \in 0..MaxChildren
    /\ fileExists \in BOOLEAN
===============================================================================
