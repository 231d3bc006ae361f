---------------------------- MODULE TimedTransfer ----------------------------
(***************************************************************************)
(* A transfer with the time its polls take: one second each of the child's *)
(* and ClientSeconds of rcopy's.  In Transfer a poll may time out however  *)
(* short the wait; here it does when its time is over and not before.      *)
(*                                                                         *)
(* Time passes in ticks, Second of them to a second.  A step of a process  *)
(* takes no time, and no time passes while one is due: a packet and its    *)
(* answer are fast against a second.  A child that spins is the exception: *)
(* its steps lead nowhere, and rcopy's poll lasts as long as ever.  `lag'  *)
(* counts the ticks in which a process that has something to do is kept    *)
(* waiting; MaxLag bounds them.  So polls that began at different ticks    *)
(* overlap.  The network neither repeats nor exchanges packets here.       *)
(***************************************************************************)
EXTENDS Transfer

CONSTANTS
    Second,         \* ticks
    ClientSeconds,  \* seconds of rcopy's poll, 10 in the code like MaxAttempts
    MaxLag

ASSUME TimeAssumption ==
    /\ Second \in Nat \ {0}
    /\ ClientSeconds \in Nat \ {0}
    /\ MaxLag \in Nat

VARIABLES
    serverClock,    \* ticks the child's poll has lasted
    clientClock,    \* ticks rcopy's poll has lasted
    clock,          \* ticks since the transfer began; once rcopy has gone, since then
    lag

timeVars == <<serverClock, clientClock, clock, lag>>

timedVars == <<vars, timeVars>>

TimedInit ==
    /\ Init
    /\ serverClock = 0
    /\ clientClock = 0
    /\ clock = 0
    /\ lag = 0

ServerPolls == (WindowFull \/ srv = "EOF_POLL") /\ toServer = <<>>

ClientPolls == rcv \in Receiving /\ toClient = <<>>

\* Mutant of ServerPollTime: two seconds.
ServerPollTimeLong == 2 * Second

ServerPollTime == Second

\* Mutant of ClientPollTime: one second.
ClientPollTimeShort == Second

ClientPollTime == ClientSeconds * Second

\* Every turn of a loop polls anew.
TimedServer ==
    /\ ServerStep \/ (ServerTimeout /\ serverClock = ServerPollTime)
    /\ serverClock' = 0
    /\ UNCHANGED <<rcopyVars, clientClock, clock, lag>>

TimedClient ==
    /\ ClientStep \/ (ClientTimeout /\ clientClock = ClientPollTime)
    /\ clientClock' = 0
    /\ clock' = IF rcv' \in Gone THEN 0 ELSE clock
    /\ UNCHANGED <<serverVars, serverClock, lag>>

NothingDue ==
    /\ ServerPolls \/ Spinning \/ srv \in Stopped
    /\ ClientPolls \/ rcv \in Gone

\* A poll that is over ends before time goes on.
Tick ==
    /\ ~Ended
    /\ ServerPolls => serverClock < ServerPollTime
    /\ ClientPolls => clientClock < ClientPollTime
    /\ \/ NothingDue /\ lag' = lag
       \/ ~NothingDue /\ lag < MaxLag /\ lag' = lag + 1
    /\ serverClock' = IF ServerPolls THEN serverClock + 1 ELSE 0
    /\ clientClock' = IF ClientPolls THEN clientClock + 1 ELSE 0
    /\ clock' = clock + 1
    /\ UNCHANGED vars

TimedEnd == Terminated /\ UNCHANGED timeVars

TimedNext == TimedServer \/ TimedClient \/ Tick \/ TimedEnd

TimedSpec ==
    /\ TimedInit
    /\ [][TimedNext]_timedVars
    /\ WF_timedVars(TimedServer)
    /\ WF_timedVars(TimedClient)
    /\ WF_timedVars(Tick)

------------------------------------------------------------------------------
\* rcopy ends, and if one packet was lost or damaged it ends with the whole
\* file.
CompleteAfterOneFault ==
    /\ <>(rcv \in Gone)
    /\ [](rcv \in Gone /\ faults <= 1 => rcv = "EXIT" /\ Len(out) = NumChunks)

\* When rcopy gives up the child has gone before, unless as many packets were
\* lost as the child has attempts.  The child's ten times one second end when
\* rcopy's once ten do; what it sends again meanwhile must all have been lost,
\* and an acknowledgment before.  (server.c handle_send_data, rcopy.c
\* handle_inorder.)
GivesUpAfterChild ==
    [][rcv' = "ABORTED" => srv \in Stopped \/ faults >= MaxAttempts]_rcv

\* When fewer packets are lost than the child has attempts, rcopy gives
\* up in one situation only: it waits in BUFFER for a retransmission that was
\* lost while the child has no more to send.  (rcopy.c handle_buffer, which
\* does not repeat its SREJ.)
GivesUpOnlyInGap ==
    [][rcv' = "ABORTED" /\ faults < MaxAttempts => rcv = "BUFFER" /\ filePos = NumChunks]_rcv

\* A loss costs at most a second: the file arrives within as many seconds as
\* packets were lost or damaged, whatever they were.  (server.c
\* handle_send_data and handle_wait_EOF_ack, pollCall(1000).)
LossCostsASecond ==
    [][rcv' = "EXIT" => clock <= Second * faults' + lag]_rcv

\* When rcopy has gone, complete or not, the child goes within its ten seconds.
\* (server.c handle_wait_EOF_ack: "EOF_ACK not received after 10 attempts".)
ChildLeavesInTime ==
    rcv \in Gone /\ srv \notin Stopped => clock <= MaxAttempts * Second + lag
===============================================================================
