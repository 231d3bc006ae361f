-------------------------------- MODULE Session --------------------------------
(***************************************************************************)
(* A request from its first packet to its end: rcopy (module Exchange,     *)
(* then module Rcopy), the server's first process (module Listener) and up *)
(* to two children, A and B (module Server).                               *)
(*                                                                         *)
(* Each process of the server has a socket of its own, and so a queue of   *)
(* its own for what rcopy sends it; rcopy has one socket for all of them.  *)
(* rcopy does not know that there are several: every recvfrom of its three *)
(* handlers overwrites the address it sends to (`peer').  The sender of    *)
(* each packet in rcopy's queue is kept in `origins'.                      *)
(*                                                                         *)
(* Any process may be killed at any moment and the first one started       *)
(* again; a fork may fail, and fopen when the first process has no         *)
(* descriptor left.  `crashes' keeps what has happened of that and         *)
(* MaxCrashes bounds it.                                                   *)
(***************************************************************************)
EXTENDS Window, FiniteSets

CONSTANTS
    NumChunks, MaxAttempts, MaxRequests, MaxChildren,
    QueueCap, MaxFaults, ServerErrors, ClientErrors,
    MaxCrashes      \* kills and failed calls

ASSUME SessionAssumption ==
    /\ NumChunks \in Nat
    /\ MaxAttempts \in Nat \ {0}
    /\ MaxRequests \in Nat \ {0}
    /\ MaxChildren \in 0..2
    /\ QueueCap \in Nat \ {0}
    /\ MaxFaults \in Nat
    /\ ServerErrors \subseteq {"drop", "flip"}
    /\ ClientErrors \subseteq {"drop", "flip"}
    /\ MaxCrashes \in Nat

VARIABLES
    phase, requests,                            \* rcopy, the exchange
    buffer, rcv, out,                           \* rcopy, the transfer
    peer,                                       \* rcopy, `server'
    listener, badRequests, children, fileExists,
    windowA, filePosA, srvA, attemptsA,         \* the first child
    windowB, filePosB, srvB, attemptsB,         \* the second child
    toClient, origins,
    toListener, toA, toB,
    faults,
    crashes

exchangeVars == <<phase, requests>>
receiveVars == <<buffer, rcv, out>>
clientVars == <<exchangeVars, receiveVars, peer>>
listenerVars == <<listener, badRequests, children, fileExists>>
childAVars == <<windowA, filePosA, srvA, attemptsA>>
childBVars == <<windowB, filePosB, srvB, attemptsB>>
queueVars == <<toClient, origins, toListener, toA, toB, faults>>

vars == <<clientVars, listenerVars, childAVars, childBVars, queueVars, crashes>>

A == INSTANCE Server WITH
    window <- windowA, filePos <- filePosA, srv <- srvA, attempts <- attemptsA,
    toServer <- toA, NetFaults <- {}
B == INSTANCE Server WITH
    window <- windowB, filePos <- filePosB, srv <- srvB, attempts <- attemptsB,
    toServer <- toB, NetFaults <- {}
Parent == INSTANCE Listener WITH toServer <- toListener, NetFaults <- {}

\* rcopy, by the process it sends to.
ExchangeL == INSTANCE Exchange WITH toServer <- toListener, NetFaults <- {}
ExchangeA == INSTANCE Exchange WITH toServer <- toA, NetFaults <- {}
ExchangeB == INSTANCE Exchange WITH toServer <- toB, NetFaults <- {}
ReceiveL == INSTANCE Rcopy WITH toServer <- toListener, NetFaults <- {}
ReceiveA == INSTANCE Rcopy WITH toServer <- toA, NetFaults <- {}
ReceiveB == INSTANCE Rcopy WITH toServer <- toB, NetFaults <- {}

Senders == {"listener", "A", "B"}

\* A child that is not born yet, or has been killed, does nothing.
Unborn == "UNBORN"
Killed == "KILLED"

NotRunning == A!Stopped \cup {Unborn, Killed}

\* What may have crashed: a process, the listener between answer and child, or
\* its fopen.
Crashes == {"rcopy", "listener", "fork", "fopen", "A", "B"}

Init ==
    /\ ExchangeL!ExchangeInit
    /\ ReceiveL!RcopyInit
    /\ peer = "listener"
    /\ Parent!ListenerInit
    /\ windowA = buffer_init(BufferSize) /\ filePosA = 0 /\ srvA = Unborn /\ attemptsA = 0
    /\ windowB = buffer_init(BufferSize) /\ filePosB = 0 /\ srvB = Unborn /\ attemptsB = 0
    /\ toClient = <<>> /\ origins = <<>>
    /\ toListener = <<>> /\ toA = <<>> /\ toB = <<>>
    /\ faults = 0
    /\ crashes = {}

\* The sender of what a step put in rcopy's queue.
SentBy(s) ==
    origins' = IF toClient' = toClient THEN origins ELSE Append(origins, s)

ChildANext(step) ==
    /\ step
    /\ SentBy("A")
    /\ UNCHANGED <<clientVars, listenerVars, childBVars, toListener, toB, crashes>>

ChildBNext(step) ==
    /\ step
    /\ SentBy("B")
    /\ UNCHANGED <<clientVars, listenerVars, childAVars, toListener, toA, crashes>>

\* The fork makes the first child, then the second.
Forked(n, s) ==
    IF children < n /\ children' = n THEN "SEND_DATA" ELSE s

ListenerNext ==
    /\ Parent!ListenerNext
    /\ SentBy("listener")
    /\ srvA' = Forked(1, srvA)
    /\ srvB' = Forked(2, srvB)
    /\ UNCHANGED <<clientVars, toA, toB, crashes,
                   windowA, filePosA, attemptsA, windowB, filePosB, attemptsB>>

Exchanging(step) == step /\ UNCHANGED receiveVars

Receiving(step) == phase = "RECEIVE_DATA" /\ step /\ UNCHANGED exchangeVars

\* Mutant of NextPeer: recvfrom without the address.
NextPeerSame == peer

\* Whom rcopy answers: the sender of the packet it reads in this step, or else
\* of the last one it read.
NextPeer == IF toClient' = toClient THEN peer ELSE Head(origins)

ClientStep ==
    /\ \/ /\ peer' = "listener"
          /\ Exchanging(ExchangeL!ExchangeStep) \/ Receiving(ReceiveL!ClientStep)
          /\ UNCHANGED <<toA, toB>>
       \/ /\ peer' = "A"
          /\ Exchanging(ExchangeA!ExchangeStep) \/ Receiving(ReceiveA!ClientStep)
          /\ UNCHANGED <<toListener, toB>>
       \/ /\ peer' = "B"
          /\ Exchanging(ExchangeB!ExchangeStep) \/ Receiving(ReceiveB!ClientStep)
          /\ UNCHANGED <<toListener, toA>>
    /\ peer' = NextPeer
    /\ origins' = IF toClient' = toClient THEN origins ELSE Tail(origins)
    /\ UNCHANGED <<listenerVars, childAVars, childBVars, crashes>>

RequestTimeout ==
    /\ ExchangeL!NoAnswer
    /\ UNCHANGED <<receiveVars, peer, origins, toA, toB,
                   listenerVars, childAVars, childBVars, crashes>>

DataTimeout ==
    /\ phase = "RECEIVE_DATA"
    /\ ReceiveL!ClientTimeout
    /\ UNCHANGED <<exchangeVars, peer, origins, toA, toB,
                   listenerVars, childAVars, childBVars, crashes>>

ClientGone == phase \in {"NO_FILE", "DONE"} \/ rcv \in ReceiveL!Gone

\* No child runs, and none is about to.
ChildrenGone == {srvA, srvB} \subseteq NotRunning /\ listener # "FORK"

ListenerGone == listener \in {"CRASHED", "KILLED"}

\* Everybody is gone but the listener, which waits for the next request.
Ended ==
    /\ ClientGone
    /\ ChildrenGone
    /\ ListenerGone \/ toListener = <<>>

Idle == Ended /\ UNCHANGED vars

Crash(what) ==
    /\ what \notin crashes
    /\ Cardinality(crashes) < MaxCrashes
    /\ crashes' = crashes \cup {what}

KillListener ==
    /\ Parent!Kill
    /\ Crash(IF listener = "FORK" THEN "fork" ELSE "listener")
    /\ UNCHANGED <<clientVars, childAVars, childBVars, origins, toA, toB>>

ForkFailure ==
    /\ Parent!ForkFailure
    /\ Crash("fork") \/ (children = MaxChildren /\ crashes' = crashes \cup {"fork"})
    /\ UNCHANGED <<clientVars, childAVars, childBVars, origins, toA, toB>>

FileRefused ==
    /\ Parent!RefuseForWant
    /\ Crash("fopen")
    /\ SentBy("listener")
    /\ UNCHANGED <<clientVars, childAVars, childBVars, toA, toB>>

RestartListener ==
    /\ Parent!Restart
    /\ UNCHANGED <<clientVars, childAVars, childBVars, origins, toA, toB, crashes>>

KillChildA ==
    /\ srvA \notin NotRunning
    /\ srvA' = Killed
    /\ Crash("A")
    /\ UNCHANGED <<clientVars, listenerVars, windowA, filePosA, attemptsA, childBVars, queueVars>>

KillChildB ==
    /\ srvB \notin NotRunning
    /\ srvB' = Killed
    /\ Crash("B")
    /\ UNCHANGED <<clientVars, listenerVars, childAVars, windowB, filePosB, attemptsB, queueVars>>

\* A killed rcopy is gone like one that has reached the end of rcopy_FSM.
KillClient ==
    /\ ~ClientGone
    /\ phase' = "DONE"
    /\ Crash("rcopy")
    /\ UNCHANGED <<requests, receiveVars, peer, listenerVars, childAVars, childBVars, queueVars>>

Misfortune ==
    \/ KillListener \/ ForkFailure \/ FileRefused \/ KillChildA \/ KillChildB \/ KillClient
    \/ RestartListener

Next ==
    \/ ChildANext(A!ServerNext)
    \/ ChildBNext(B!ServerNext)
    \/ ListenerNext
    \/ ClientStep \/ RequestTimeout \/ DataTimeout
    \/ Misfortune
    \/ Idle

Spec == Init /\ [][Next]_vars

------------------------------------------------------------------------------
(***************************************************************************)
(* Time-outs only when waiting longer would have brought nothing: the      *)
(* server polls for a second, rcopy for ten, and a packet and its answer   *)
(* take far less.                                                          *)
(***************************************************************************)

\* The child sends nothing more, because it does not run or because it spins.
SilentA == srvA \in NotRunning \/ A!Spinning
SilentB == srvB \in NotRunning \/ B!Spinning

\* It sends nothing before its own time-out.
WaitingA == SilentA \/ ((A!WindowFull \/ srvA = "EOF_POLL") /\ toA = <<>>)
WaitingB == SilentB \/ ((B!WindowFull \/ srvB = "EOF_POLL") /\ toB = <<>>)

\* Nor does the listener before the next request.
ListenerWaiting == ListenerGone \/ (listener = "LISTEN" /\ toListener = <<>>)

\* rcopy sends nothing before its own time-out.
ClientWaiting ==
    \/ ClientGone
    \/ phase = "POLL" /\ toClient = <<>>
    \/ phase = "RECEIVE_DATA" /\ rcv \in ReceiveL!Receiving /\ toClient = <<>>

PromptChildA ==
    ChildANext(A!ServerStep \/ (A!ServerTimeout /\ toA = <<>> /\ ClientWaiting))

PromptChildB ==
    ChildBNext(B!ServerStep \/ (B!ServerTimeout /\ toB = <<>> /\ ClientWaiting))

\* A child that waits and rcopy in filename_exchange both poll for a second:
\* either may be the first.  The ten seconds of a transfer are over when no
\* child will ever send again.
PromptClient ==
    \/ ClientStep
    \/ RequestTimeout /\ ListenerWaiting /\ WaitingA /\ WaitingB
    \/ DataTimeout /\ SilentA /\ SilentB /\ listener # "FORK"

PromptNext ==
    PromptChildA \/ PromptChildB \/ ListenerNext \/ PromptClient \/ Misfortune \/ Idle

PromptSpec ==
    /\ Init
    /\ [][PromptNext]_vars
    /\ WF_vars(PromptChildA) /\ WF_vars(PromptChildB)
    /\ WF_vars(ListenerNext \/ ForkFailure)
    /\ WF_vars(PromptClient)

\* The same, but the answer to a request may take longer than a second.
SlowAnswerNext == PromptNext \/ RequestTimeout

SlowAnswerSpec ==
    /\ Init
    /\ [][SlowAnswerNext]_vars
    /\ WF_vars(PromptChildA) /\ WF_vars(PromptChildB)
    /\ WF_vars(ListenerNext \/ ForkFailure)
    /\ WF_vars(PromptClient)

------------------------------------------------------------------------------
TypeOK ==
    /\ ExchangeL!ExchangeTypeOK
    /\ ReceiveL!RcopyTypeOK
    /\ Parent!ListenerTypeOK
    /\ peer \in Senders
    /\ {srvA, srvB} \subseteq A!ServerStates \cup {Unborn, Killed}
    /\ {windowA, windowB} \subseteq CircularBuffer
    /\ origins \in Seq(Senders) /\ Len(origins) = Len(toClient)
    /\ crashes \subseteq Crashes

\* However many children one request has made, none of them believes more than
\* rcopy said.  (rcopy.c handle_inorder: recvfrom into `server'; server.c
\* process_rr_srej_eof.)
ChildrenAcked ==
    /\ windowA.lowest <= buffer.current
    /\ windowB.lowest <= buffer.current

\* rcopy does not end before some child has read the whole file, also when it
\* takes packets of two children and a late FILENAME_ACK.
NoEarlyExit ==
    rcv = "EXIT" =>
        /\ buffer.current > NumChunks
        /\ NumChunks \in {filePosA, filePosB}

\* rcopy goes on to receive only if the file exists, and reports that it does
\* not only if it does not or the server cannot open it; without a file no
\* child is made and nothing is written.  (rcopy.c process_filename_response, server.c processFilenameAck.)
AnswerIsTrue ==
    /\ phase = "RECEIVE_DATA" => fileExists
    /\ phase = "NO_FILE" => ~fileExists \/ "fopen" \in crashes
    /\ ~fileExists => children = 0 /\ out = <<>>

\* The output file is a prefix of the file, and the whole of it when rcopy
\* says so.
SessionIntegrity ==
    /\ Len(out) <= NumChunks
    /\ \A i \in 1..Len(out) : out[i] = i - 1
    /\ rcv = "EXIT" => Len(out) = NumChunks

\* One request, one child, although the request may be sent several times; a
\* second child only in place of one that was killed.
OneChild == children <= 1 + Cardinality(crashes \cap {"A"})

\* The listener goes on to serve other requests.  (server.c server_FSM:
\* "Terminates when we ctrl c".)
KeepsListening == listener # "CRASHED"

\* Every process of the session ends, whichever of them is killed.
SessionEnds == <>[](ClientGone /\ ChildrenGone)

\* Whatever single packet is lost, the user gets the file, if it is not empty,
\* or is told that there is none.
ServedAfterOneLoss ==
    ClientGone /\ faults <= 1 /\ crashes = {} =>
        IF fileExists THEN rcv = "EXIT" ELSE phase = "NO_FILE"

\* When no packet is lost, rcopy ends without the file only because of a
\* process that served it: while it waits for data, the child or the fork of
\* it; before that, the listener.  A listener that is killed and started again
\* when it has no answer half done costs nothing but requests.  (server.c
\* server_FSM, rcopy.c filename_exchange, handle_inorder.)
GivesUpForTheDead ==
    faults = 0 =>
        /\ rcv = "ABORTED" => crashes \cap {"A", "B", "fork"} # {}
        /\ phase = "DONE" => crashes \cap {"rcopy", "listener"} # {}
================================================================================
