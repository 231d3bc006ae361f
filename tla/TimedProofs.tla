------------------------------ MODULE TimedProofs ------------------------------
(***************************************************************************)
(* Theorems about a transfer with the time its polls take, for every       *)
(* length of the polls, every size and every number of faults.  What is    *)
(* proved of module Transfer holds here too, because a timed transfer is a *)
(* transfer.                                                               *)
(***************************************************************************)
EXTENDS TimedTransfer, TransferProofs

(***************************************************************************)
(* The inductive invariants: what a clock can have reached, told from what *)
(* was lost so far.                                                        *)
(***************************************************************************)

\* A poll of the child lasts no longer than its time, and the clock stands at
\* zero outside the polls.
ClockInv ==
    /\ serverClock \in 0..Second
    /\ clientClock \in Nat
    /\ clock \in Nat
    /\ lag \in 0..MaxLag
    /\ ~(WindowFull \/ srv = "EOF_POLL") => serverClock = 0

\* When rcopy has gone the child first works off what is in its socket, which
\* takes no time, and then does nothing but count to MaxAttempts.
LeavingInv ==
    rcv \in Gone /\ srv \notin Stopped =>
        \/ clock <= lag
        \/ /\ toServer = <<>>
           /\ WindowFull \/ srv \in EofStates
           /\ clock <= attempts * Second + serverClock + lag

\* The number of the n-th packet, from 0: a chunk, and after the last one EOF.
SeqOf(n) == IF n < NumChunks THEN n ELSE NumChunks

\* The packets on their way to rcopy, when none was lost: from the one it
\* expects on, without a gap, and then EOF packets.
InSequence ==
    \A i \in 1..Len(toClient) : LET p == toClient[i] IN
        /\ p # Corrupted
        /\ p.seq = SeqOf(buffer.current + (i - 1))
        /\ p.seq = NumChunks => p.flag = FLAG_EOF

\* The acknowledgments on their way to the child then: one for each packet
\* that rcopy took.
Acknowledged ==
    /\ Len(toServer) = buffer.current - window.lowest
    /\ \A i \in 1..Len(toServer) : toServer[i] = RR(window.lowest + i)

\* Packets of either direction, and the EOF the child is about to send.
UnderWay == Len(toClient) + Len(toServer) + (IF srv = "WAIT_EOF_ACK" THEN 1 ELSE 0)

\* Every packet is on its way, or its acknowledgment is, or the window has
\* moved; once the child sends EOF a packet is always on its way.
Conserved ==
    IF srv \in EofStates
    THEN /\ window.current = NumChunks
         /\ NumChunks <= buffer.current + Len(toClient)
         /\ UnderWay \in 1..QueueCap
    ELSE window.current = buffer.current + Len(toClient)

\* While nothing has been lost: rcopy never sees a gap, and the two never wait
\* for each other.
NoLossInv ==
    faults = 0 /\ rcv \notin Gone /\ srv \notin Stopped =>
        /\ rcv = "INORDER"
        /\ window.current = filePos
        /\ window.lowest < window.highest
        /\ window.highest <= window.lowest + QueueCap
        /\ window.current <= window.lowest + QueueCap
        /\ buffer.current <= NumChunks + 1
        /\ InSequence
        /\ Acknowledged
        /\ Conserved
        /\ serverClock <= lag

\* The two wait for each other only when something was lost.
BothWaitForLoss ==
    ServerPolls /\ ClientPolls /\ srv \notin Stopped => faults >= 1

\* rcopy waits on while the child does only for what was lost: one second for
\* every loss but the first, and one more when that second is over.
WaitingInv ==
    ClientPolls /\ srv \notin Stopped =>
        IF ServerPolls
        THEN faults >= 1 /\ clientClock <= (faults - 1) * Second + serverClock + lag
        ELSE IF srv = "WAIT_EOF_ACK" /\ toServer = <<>>
        THEN clientClock <= faults * Second + lag
        ELSE clientClock <= lag

------------------------------------------------------------------------------
(***************************************************************************)
(* Why an attempt of the child costs a loss, in the sheltered setting.     *)
(*                                                                         *)
(* A time-out of the child finds both queues empty and rcopy waiting, so   *)
(* what follows it is one packet and its answer.                           *)
(***************************************************************************)

\* While rcopy has something to do, a poll of the child lasts by lag alone.
BusyInv ==
    ServerPolls /\ rcv \notin Gone /\ ~ClientPolls => serverClock <= lag

\* What rcopy buffered last it still holds, and it is the highest.
HighestHeld ==
    /\ rcv = "BUFFER" => buffer.highest > buffer.current
    /\ rcv \in {"BUFFER", "FLUSH"} /\ buffer.highest >= buffer.current =>
           /\ Entry(buffer, buffer.highest).valid_flag
           /\ Entry(buffer, buffer.highest).sequence_num = buffer.highest

\* The child is told that the transfer is complete by a process that has gone.
EofAnswered == \A p \in InFlight(toServer) : p.flag = FLAG_EOF => rcv \in Gone

\* An acknowledgment that opens the window.
Opening == \E p \in InFlight(toServer) : p.flag = FLAG_RR /\ p.data > window.lowest

\* handle_flush has at least one RR to send.
FlushAnswers == Entry(buffer, buffer.current).valid_flag \/ ~NothingMissing(buffer)

\* A time-out with a full window was for one packet and its answer.  That RR
\* opens the window; it is yet to be sent; the packet is yet to be taken.  Or one
\* more was lost than the child has counted attempts.
AnswerComes == attempts <= faults /\ Opening

AnswerDue ==
    /\ attempts <= faults /\ toServer = <<>> /\ toClient = <<>>
    /\ rcv = "FLUSH" /\ FlushAnswers /\ buffer.current > window.lowest

ResendComes ==
    /\ attempts <= faults /\ toServer = <<>> /\ Len(toClient) = 1
    /\ rcv \in Receiving
    /\ toClient[1] # Corrupted
    /\ window.lowest <= toClient[1].seq /\ toClient[1].seq <= buffer.current

ResendLost ==
    /\ attempts + 1 <= faults
    /\ Len(toClient) + Len(toServer) + (IF rcv = "FLUSH" THEN 1 ELSE 0) <= 1
    /\ rcv = "FLUSH" => buffer.current > window.lowest

FullRetry ==
    WindowFull /\ rcv \notin Gone /\ attempts >= 1 =>
        AnswerComes \/ AnswerDue \/ ResendComes \/ ResendLost

\* A time-out of handle_wait_EOF_ack likewise, unless rcopy waits for a
\* retransmission nobody will send: then what comes is EOF, and EOF again.
InGap ==
    /\ rcv = "BUFFER"
    /\ toServer = <<>>
    /\ \A i \in 1..Len(toClient) : toClient[i] = Corrupted \/ toClient[i].seq = NumChunks

EofAnswerComes == attempts <= faults /\ toServer # <<>> /\ srv = "EOF_POLL"

EofComes ==
    /\ attempts <= faults /\ toServer = <<>> /\ rcv = "INORDER"
    /\ \/ srv = "WAIT_EOF_ACK" /\ toClient = <<>>
       \/ /\ srv = "EOF_POLL" /\ Len(toClient) = 1
          /\ toClient[1].flag = FLAG_EOF /\ toClient[1].seq = NumChunks

EofLost ==
    /\ attempts + 1 <= faults /\ toServer = <<>> /\ rcv = "INORDER"
    /\ srv = "EOF_POLL"
    /\ \A i \in 1..Len(toClient) : toClient[i] = Corrupted

EofRetry ==
    srv \in EofStates /\ rcv \notin Gone /\ attempts >= 1 =>
        InGap \/ EofAnswerComes \/ EofComes \/ EofLost

\* The child has gone, and rcopy not.
LeftAlone ==
    srv \in Stopped /\ rcv \notin Gone =>
        \/ faults >= MaxAttempts
        \/ rcv = "BUFFER" /\ filePos = NumChunks /\ toClient = <<>>

------------------------------------------------------------------------------
(***************************************************************************)
(* The clocks and what a transfer without loss does.                       *)
(***************************************************************************)

\* A step in time is a step of one of the two, or of neither.
LEMMA TimedStep ==
    ASSUME [TimedNext]_timedVars
    PROVE  \/ AServerNext /\ TimedServer
           \/ AClientNext /\ TimedClient
           \/ Tick
           \/ UNCHANGED timedVars
<1>1. ASSUME TimedServer
      PROVE  AServerNext
    BY <1>1 DEF TimedServer, AServerNext, ServerNext, rcopyVars
<1>2. ASSUME TimedClient
      PROVE  AClientNext
    BY <1>2 DEF TimedClient, AClientNext, ClientNext
<1>3. ASSUME TimedEnd
      PROVE  UNCHANGED timedVars
    BY <1>3 DEF TimedEnd, Terminated, timedVars
<1> QED BY <1>1, <1>2, <1>3 DEF TimedNext

\* Time only takes behaviours away: a timed transfer is a transfer, so that
\* every safety property proved of one holds of the other.
THEOREM TimedIsTransfer == TimedSpec => Spec
<1>1. TimedInit => Init
    BY DEF TimedInit
<1>2. [TimedNext]_timedVars => [Next]_vars
    BY TimedStep DEF Next, Tick, timedVars
<1> QED BY <1>1, <1>2, PTL DEF TimedSpec, Spec

LEMMA TimedTypes == TimedSpec => []TypeOK
BY TimedIsTransfer, TypeCorrect, PTL

------------------------------------------------------------------------------
(***************************************************************************)
(* The child does not spin.  Time ends nothing for a child that does, so   *)
(* what is said about its seconds needs this first.  It holds if the       *)
(* buffer size is at most the window size, because the queues of a timed   *)
(* transfer are in order: each RR says at least as much as the one before  *)
(* it, and the end of the window stays ahead of what the child has sent.   *)
(***************************************************************************)

\* The RRs of a queue q ascend, from m to n.
Ascending(q, m, n) ==
    /\ \A i \in 1..Len(q) : q[i].flag = FLAG_RR => m <= q[i].data /\ q[i].data <= n
    /\ \A i, j \in 1..Len(q) :
           i < j /\ q[i].flag = FLAG_RR /\ q[j].flag = FLAG_RR => q[i].data <= q[j].data

InStep ==
    /\ window.current <= window.highest
    /\ window.highest <= window.lowest + WindowSize
    /\ window.lowest <= buffer.current
    /\ Ascending(toServer, window.lowest, buffer.current)

\* An acknowledgment of the expected number may follow every other.
LEMMA AscendingAppend ==
    ASSUME NEW q \in Seq(ServerBound), NEW m \in Nat, NEW n \in Nat, m <= n, Ascending(q, m, n),
           NEW p \in ServerBound, p.flag = FLAG_RR => p.data = n
    PROVE  Ascending(Append(q, p), m, n)
<1> DEFINE r == Append(q, p)
<1>1. /\ Len(r) = Len(q) + 1 /\ Len(q) \in Nat
      /\ r[Len(q) + 1] = p
      /\ \A i \in 1..Len(q) : r[i] = q[i]
    BY Appended
<1>2. \A i \in 1..Len(r) : i \in 1..Len(q) \/ i = Len(q) + 1
    BY <1>1
<1> HIDE DEF r
<1>3. ASSUME NEW i \in 1..Len(r), r[i].flag = FLAG_RR
      PROVE  m <= r[i].data /\ r[i].data <= n
    <2>1. CASE i \in 1..Len(q)
        BY <1>1, <1>3, <2>1 DEF Ascending
    <2>2. CASE i = Len(q) + 1
        BY <1>1, <1>3, <2>2
    <2> QED BY <1>2, <2>1, <2>2
<1>4. ASSUME NEW i \in 1..Len(r), NEW j \in 1..Len(r), i < j,
             r[i].flag = FLAG_RR, r[j].flag = FLAG_RR
      PROVE  r[i].data <= r[j].data
    <2>1. i \in 1..Len(q)
        BY <1>1, <1>4
    <2>2. CASE j \in 1..Len(q)
        BY <1>1, <1>4, <2>1, <2>2 DEF Ascending
    <2>3. CASE j = Len(q) + 1
        BY <1>1, <1>3, <1>4, <2>1, <2>3
    <2> QED BY <1>2, <2>2, <2>3
<1> QED BY <1>3, <1>4 DEF Ascending, r

\* So may what becomes of it in the network.
LEMMA AscendingPut ==
    ASSUME NEW q \in Seq(ServerBound), NEW m \in Nat, NEW n \in Nat, m <= n, Ascending(q, m, n),
           NEW p \in ServerBound, p.flag = FLAG_RR => p.data = n, NEW fate
    PROVE  Put(q, fate, p) \in Seq(ServerBound) /\ Ascending(Put(q, fate, p), m, n)
<1>1. Corrupted \in ServerBound /\ Corrupted.flag # FLAG_RR
    BY AckFields DEF ServerBound
<1>2. Ascending(Append(q, p), m, n) /\ Ascending(Append(q, Corrupted), m, n)
    BY <1>1, AscendingAppend
<1> QED BY <1>1, <1>2, PutCases, PutType

\* rcopy only says the number it expects, which grows.
LEMMA ClientInStep ==
    ASSUME TypeOK, TypeOK', InStep, AClientNext
    PROVE  InStep'
<1> DEFINE m == window.lowest
           n == buffer'.current
<1>1. /\ m \in Nat /\ n \in Nat /\ buffer.current \in Nat /\ toServer \in Seq(ServerBound)
    BY DEF TypeOK, ServerTypeOK, RcopyTypeOK, CircularBuffer
<1>2. UNCHANGED window /\ n >= buffer.current /\ m <= n
    BY <1>1, TypeParts, PacketKinds, ClientNextEffect DEF AClientNext, serverVars, InStep
<1>3. Ascending(toServer, m, n)
    <2>1. \A i \in 1..Len(toServer) : toServer[i].flag = FLAG_RR => toServer[i].data \in Nat
        BY <1>1, PacketKinds DEF Numbered
    <2> QED BY <1>1, <1>2, <2>1 DEF InStep, Ascending
<1> HIDE DEF m, n
<1>4. ASSUME NEW p \in ServerBound, p.flag = FLAG_RR => p.data = n, SendToServer(p)
      PROVE  Ascending(toServer', m, n)
    BY <1>1, <1>2, <1>3, <1>4, AscendingPut DEF SendToServer
<1>5. RR(n) \in ServerBound /\ RR(n).data = n /\ SREJ(n) \in ServerBound /\ SREJ(n).flag # FLAG_RR
    BY <1>1, AckType, AckFields
<1>6. /\ build_packet(0, FLAG_EOF, NoData) \in ServerBound
      /\ build_packet(0, FLAG_EOF, NoData).flag # FLAG_RR
    BY AckFields DEF ServerBound
<1>7. ASSUME SendTwoToServer(SREJ(n), RR(n))
      PROVE  Ascending(toServer', m, n)
    <2>1. PICK f, g \in Fates(ClientErrors) : toServer' = Put(Put(toServer, f, SREJ(n)), g, RR(n))
        BY <1>7 DEF SendTwoToServer
    <2> DEFINE q == Put(toServer, f, SREJ(n))
    <2>2. q \in Seq(ServerBound) /\ Ascending(q, m, n)
        BY <1>1, <1>2, <1>3, <1>5, AscendingPut
    <2> HIDE DEF q
    <2>3. Ascending(Put(q, g, RR(n)), m, n)
        BY <1>1, <1>2, <1>5, <2>2, AscendingPut
    <2> QED BY <2>1, <2>3 DEF q
<1>8. Ascending(toServer', m, n)
    <2>1. CASE UNCHANGED toServer
        BY <1>3, <2>1
    <2>2. CASE SendToServer(RR(n)) \/ SendToServer(build_packet(0, FLAG_EOF, NoData))
        BY <1>4, <1>5, <1>6, <2>2
    <2>3. CASE GapFound
        <3> DEFINE p == Head(toClient)
        <3>1. p \in ClientBound /\ SendToServer(SREJ(buffer.current)) /\ buffer' = Stored(buffer, p)
            BY <2>3, HeadAndTail DEF GapFound, Accepted, Received, TypeOK
        <3> HIDE DEF p
        <3>2. n = buffer.current
            BY <3>1, ClientPacket, StoredBuffer DEF n, TypeOK, RcopyTypeOK
        <3> QED BY <1>4, <1>5, <3>1, <3>2
    <2>4. CASE FlushEnd
        BY <1>7, <2>1, <2>4 DEF FlushEnd, n
    <2>5. CASE ClientTimeout \/ FillGap \/ StoreEarly \/ WriteInorder \/ FlushEntry
        BY <2>1, <2>2, <2>5 DEF ClientTimeout, FillGap, StoreEarly, WriteInorder, FlushEntry,
            netVars, n
    <2>6. CASE \E s \in Receiving : DropCorrupted(s) \/ ExitTransfer(s) \/ AckAgain(s)
        BY <2>1, <2>2, <2>6 DEF DropCorrupted, ExitTransfer, AckAgain, rcopyVars, n
    <2> QED BY <2>3, <2>4, <2>5, <2>6
            DEF AClientNext, ClientNext, ClientStep, handle_inorder, handle_buffer, handle_flush,
                Receiving
<1> QED BY <1>2, <1>8 DEF InStep, m, n

\* The child stays inside its window, and an RR that it reads opens it further.
LEMMA ServerInStep ==
    ASSUME TypeOK, TypeOK', InStep, AServerNext
    PROVE  InStep'
<1>1. /\ window \in CircularBuffer /\ toServer \in Seq(ServerBound) /\ UNCHANGED buffer
      /\ window.lowest \in Nat /\ window.highest \in Nat /\ window.current \in Nat
      /\ buffer.current \in Nat /\ WindowSize \in Nat
    BY SizeAssumption
       DEF TypeOK, ServerTypeOK, RcopyTypeOK, CircularBuffer, AServerNext, rcopyVars
<1>2. CASE UNCHANGED <<window, toServer>>
    BY <1>1, <1>2 DEF InStep
<1>3. CASE SendData
    <2> DEFINE s == window.current
               w == buffer_add(window, s, filePos)
    <2>1. filePos \in Payload /\ window \in CircularBuffer /\ s \in Nat
        BY <1>1 DEF TypeOK, ServerTypeOK, Payload
    <2>2. w \in CircularBuffer /\ w.highest = window.highest /\ w.lowest = window.lowest
        BY <2>1, BufferAdd
    <2>3. window' = [w EXCEPT !.current = s + 1] /\ s < window.highest /\ UNCHANGED toServer
        BY <1>3 DEF SendData
    <2> HIDE DEF w
    <2>4. /\ window'.current = s + 1
          /\ window'.lowest = window.lowest /\ window'.highest = window.highest
        BY <2>2, <2>3 DEF CircularBuffer
    <2> QED BY <1>1, <2>3, <2>4 DEF InStep
<1>4. ASSUME NEW next, NEW onEof, process_rr_srej_eof(next, onEof)
      PROVE  InStep'
    <2> DEFINE q == toServer
               p == Head(q)
    <2>1. /\ p = q[1] /\ 1 \in 1..Len(q) /\ p \in ServerBound
          /\ Len(toServer') = Len(q) - 1 /\ Len(q) \in Nat
          /\ \A i \in 1..Len(toServer') : i + 1 \in 1..Len(q) /\ toServer'[i] = q[i + 1]
        BY <1>1, <1>4, HeadAndTail DEF process_rr_srej_eof
    <2>2. CASE UNCHANGED window
        <3>1. Ascending(toServer', window.lowest, buffer.current)
            BY <2>1 DEF InStep, Ascending
        <3> QED BY <1>1, <2>2, <3>1 DEF InStep
    <2>3. CASE p.flag = FLAG_RR /\ window' = AdvanceWindow(window, p.data)
        <3>1. p.data \in Nat /\ window.lowest <= p.data /\ p.data <= buffer.current
            BY <2>1, <2>3, PacketKinds DEF Numbered, InStep, Ascending
        <3>2. /\ window'.lowest = p.data /\ window'.highest = p.data + WindowSize
              /\ window'.current = window.current
            BY <1>1, <2>3, <3>1, AdvanceType
        <3>3. Ascending(toServer', p.data, buffer.current)
            <4>1. Ascending(q, window.lowest, buffer.current) /\ q[1].flag = FLAG_RR
                BY <2>1, <2>3 DEF InStep
            <4>2. \A i \in 1..Len(toServer') : 1 < i + 1 /\ i + 1 \in 1..Len(q)
                BY <2>1
            <4> HIDE DEF q
            <4>3. \A i \in 1..Len(toServer') : toServer'[i].flag = FLAG_RR =>
                      q[1].data <= toServer'[i].data /\ toServer'[i].data <= buffer.current
                BY <2>1, <4>1, <4>2 DEF Ascending
            <4>4. \A i, j \in 1..Len(toServer') :
                      i < j /\ toServer'[i].flag = FLAG_RR /\ toServer'[j].flag = FLAG_RR
                          => toServer'[i].data <= toServer'[j].data
                BY <2>1, <4>1 DEF Ascending
            <4> QED BY <2>1, <4>3, <4>4 DEF Ascending
        <3> HIDE DEF p
        <3> QED BY <1>1, <3>1, <3>2, <3>3 DEF InStep
    <2> QED BY <1>4, <2>2, <2>3 DEF process_rr_srej_eof
<1>5. CASE \/ ReadEof \/ WindowClosed \/ DrainDone \/ FullDone \/ SendEof
           \/ FullTimeout \/ EofTimeout
    BY <1>2, <1>5 DEF ReadEof, WindowClosed, DrainDone, FullDone, SendEof, FullTimeout,
        EofTimeout, netVars
<1>6. CASE DrainRecv \/ FullRecv \/ EofRecv
    BY <1>4, <1>6 DEF DrainRecv, FullRecv, EofRecv
<1> QED BY <1>3, <1>5, <1>6 DEF AServerNext, ServerNext, ServerStep, ServerTimeout

LEMMA InStepNext ==
    ASSUME TypeOK, TypeOK', InStep, [TimedNext]_timedVars
    PROVE  InStep'
<1>1. CASE Tick \/ UNCHANGED timedVars
    BY <1>1 DEF Tick, timedVars, vars, serverVars, rcopyVars, netVars, InStep
<1> QED BY <1>1, TimedStep, ClientInStep, ServerInStep

LEMMA NeverSpins ==
    ASSUME FitsRing
    PROVE  TimedSpec => []~Spinning
<1>1. TimedInit => InStep
    BY SizeAssumption DEF FitsRing, TimedInit, Init, ServerInit, RcopyInit, NetInit, buffer_init,
        InStep, Ascending
<1>2. TypeOK /\ InStep => ~Spinning
    BY DEF TypeOK, ServerTypeOK, CircularBuffer, InStep, Spinning
<1> QED BY <1>1, <1>2, InStepNext, TimedTypes, PTL DEF TimedSpec

------------------------------------------------------------------------------
(***************************************************************************)
(* How long the child stays behind.                                        *)
(***************************************************************************)
LEMMA ClockNext ==
    ASSUME ClockInv, [TimedNext]_timedVars
    PROVE  ClockInv'
<1>1. /\ serverClock \in 0..Second /\ clientClock \in Nat /\ clock \in Nat /\ lag \in 0..MaxLag
      /\ ~(WindowFull \/ srv = "EOF_POLL") => serverClock = 0
      /\ Second \in Nat \ {0} /\ MaxLag \in Nat
    BY TimeAssumption DEF ClockInv
<1>2. CASE TimedServer
    BY <1>1, <1>2 DEF TimedServer, ClockInv
<1>3. CASE TimedClient
    <2>1. UNCHANGED <<window, srv, serverClock, lag>>
        BY <1>3 DEF TimedClient, serverVars
    <2>2. clientClock' = 0 /\ clock' \in {0, clock}
        BY <1>3 DEF TimedClient
    <2> QED BY <1>1, <2>1, <2>2 DEF ClockInv, WindowFull
<1>4. CASE Tick
    <2>1. /\ UNCHANGED vars
          /\ ServerPolls => serverClock < Second
          /\ lag' = lag \/ (lag < MaxLag /\ lag' = lag + 1)
          /\ serverClock' = IF ServerPolls THEN serverClock + 1 ELSE 0
          /\ clientClock' = IF ClientPolls THEN clientClock + 1 ELSE 0
          /\ clock' = clock + 1
        BY <1>4 DEF Tick, ServerPollTime
    <2>2. /\ serverClock' \in 0..Second /\ clientClock' \in Nat
          /\ clock' \in Nat /\ lag' \in 0..MaxLag
        BY <1>1, <2>1
    <2>3. UNCHANGED <<window, srv>>
        BY <2>1 DEF vars, serverVars
    <2> QED BY <2>1, <2>2, <2>3 DEF ClockInv, WindowFull, ServerPolls
<1>5. CASE UNCHANGED timedVars
    BY <1>1, <1>5 DEF ClockInv, WindowFull, timedVars, timeVars, vars, serverVars
<1> QED BY <1>2, <1>3, <1>4, <1>5, TimedStep

LEMMA Clocks == TimedSpec => []ClockInv
<1>1. TimedInit => ClockInv
    BY TimeAssumption DEF TimedInit, ClockInv
<1> QED BY <1>1, ClockNext, PTL DEF TimedSpec

\* Once a step of the child has begun, a poll counts one second at most.
LEMMA SecondsAdd ==
    ASSUME NEW a \in Nat, NEW b \in Nat, a < b
    PROVE  /\ a * Second \in Nat
           /\ (a + 1) * Second = a * Second + Second
           /\ (a + 1) * Second <= b * Second
<1>1. Second \in Nat
    BY TimeAssumption
<1>2. a * Second \in Nat /\ (a + 1) * Second = a * Second + Second
    BY <1>1
<1>3. PICK d \in Nat : b = (a + 1) + d
    <2>1. b - (a + 1) \in Nat /\ b = (a + 1) + (b - (a + 1))
        OBVIOUS
    <2> QED BY <2>1
<1>4. b * Second = (a + 1) * Second + d * Second /\ d * Second \in Nat
    BY <1>1, <1>3
<1>5. (a + 1) * Second \in Nat
    BY <1>1
<1> DEFINE x == (a + 1) * Second
           y == d * Second
<1> HIDE DEF x, y
<1>6. b * Second = x + y /\ x \in Nat /\ y \in Nat
    BY <1>4, <1>5 DEF x, y
<1> QED BY <1>2, <1>6 DEF x

LEMMA LeavingNext ==
    ASSUME TypeOK, ClockInv, ~Spinning, LeavingInv, [TimedNext]_timedVars
    PROVE  LeavingInv'
<1>1. /\ serverClock \in Nat /\ serverClock <= Second /\ clock \in Nat /\ lag \in Nat
      /\ ~(WindowFull \/ srv = "EOF_POLL") => serverClock = 0
      /\ Second \in Nat \ {0} /\ MaxLag \in Nat
      /\ attempts \in Nat
    BY TimeAssumption, ServerAssumption DEF ClockInv, TypeOK, ServerTypeOK
<1> DEFINE spent == attempts * Second
<1>2. spent \in Nat /\ (attempts + 1) * Second = spent + Second
    BY <1>1, SecondsAdd
<1> SUFFICES ASSUME rcv' \in Gone, srv' \notin Stopped
             PROVE  \/ clock' <= lag'
                    \/ /\ toServer' = <<>>
                       /\ WindowFull' \/ srv' \in EofStates
                       /\ clock' <= attempts' * Second + serverClock' + lag'
    BY DEF LeavingInv
<1> HIDE DEF spent
<1>3. CASE AServerNext /\ TimedServer
    <2>1. /\ rcv \in Gone /\ UNCHANGED <<clock, lag>> /\ serverClock' = 0
          /\ ServerStep \/ (ServerTimeout /\ serverClock = Second)
        BY <1>3 DEF TimedServer, rcopyVars, ServerPollTime
    <2>2. srv \notin Stopped
        BY <2>1 DEF ServerStep, ServerTimeout, Stopped, SendData, ReadEof, WindowClosed, DrainRecv,
            DrainDone, FullRecv, FullDone, SendEof, EofRecv, FullTimeout, EofTimeout, WindowFull
    <2>3. CASE clock <= lag
        BY <2>1, <2>3
    <2>4. CASE /\ toServer = <<>>
               /\ WindowFull \/ srv \in EofStates
               /\ clock <= spent + serverClock + lag
        <3>1. CASE ServerTimeout /\ serverClock = Second
            <4>1. /\ attempts' = attempts + 1 /\ toServer' = toServer
                  /\ WindowFull' \/ srv' \in EofStates
                BY <3>1 DEF ServerTimeout, FullTimeout, EofTimeout, WindowFull, EofStates, Stopped,
                    resend_packet, netVars
            <4> QED BY <1>1, <1>2, <2>1, <2>4, <3>1, <4>1
        <3>2. CASE SendEof
            <4>1. UNCHANGED <<attempts, toServer>> /\ srv' \in EofStates
                BY <3>2 DEF SendEof, EofStates
            <4>2. serverClock = 0
                BY <1>1, <3>2 DEF SendEof, WindowFull
            <4> QED BY <1>1, <2>1, <2>4, <4>1, <4>2 DEF spent
        <3>3. ~(SendData \/ ReadEof \/ WindowClosed \/ DrainRecv \/ DrainDone
                    \/ FullRecv \/ FullDone \/ EofRecv)
            BY <2>4 DEF SendData, ReadEof, WindowClosed, DrainRecv, DrainDone, FullRecv, FullDone,
                EofRecv, WindowFull, EofStates, process_rr_srej_eof
        <3> QED BY <2>1, <3>1, <3>2, <3>3 DEF ServerStep
    <2> QED BY <2>1, <2>2, <2>3, <2>4 DEF LeavingInv, spent
<1>4. CASE AClientNext /\ TimedClient
    BY <1>1, <1>4 DEF TimedClient
<1>5. CASE Tick
    <2>1. /\ UNCHANGED vars
          /\ (NothingDue /\ lag' = lag) \/ (~NothingDue /\ lag' = lag + 1)
          /\ serverClock' = IF ServerPolls THEN serverClock + 1 ELSE 0
          /\ clock' = clock + 1
        BY <1>5 DEF Tick
    <2>2. UNCHANGED <<rcv, srv, toServer, attempts, window>>
        BY <2>1 DEF vars, serverVars, rcopyVars, netVars
    <2>3. NothingDue <=> ServerPolls
        BY <2>2 DEF NothingDue, ClientPolls, Gone, Receiving
    <2>4. CASE clock <= lag
        <3>1. CASE ServerPolls
            <4>1. toServer' = <<>> /\ (WindowFull' \/ srv' \in EofStates)
                BY <2>2, <3>1 DEF ServerPolls, WindowFull, EofStates
            <4>2. clock' <= spent + serverClock' + lag'
                BY <1>1, <1>2, <2>1, <2>3, <2>4, <3>1
            <4> QED BY <2>2, <4>1, <4>2 DEF spent
        <3>2. CASE ~ServerPolls
            BY <1>1, <2>1, <2>3, <2>4, <3>2
        <3> QED BY <3>1, <3>2
    <2>5. CASE /\ toServer = <<>>
               /\ WindowFull \/ srv \in EofStates
               /\ clock <= spent + serverClock + lag
        <3>1. toServer' = <<>> /\ (WindowFull' \/ srv' \in EofStates)
            BY <2>2, <2>5 DEF WindowFull
        <3>2. ~ServerPolls => serverClock = 0
            BY <1>1, <2>5 DEF ServerPolls
        <3>3. clock' <= spent + serverClock' + lag'
            BY <1>1, <1>2, <2>1, <2>3, <2>5, <3>2
        <3> QED BY <2>2, <3>1, <3>3 DEF spent
    <2> QED BY <2>2, <2>4, <2>5 DEF LeavingInv, spent
<1>6. CASE UNCHANGED timedVars
    BY <1>6 DEF LeavingInv, timedVars, timeVars, vars, serverVars, rcopyVars, netVars, WindowFull
<1> QED BY <1>3, <1>4, <1>5, <1>6, TimedStep

LEMMA Leaving ==
    ASSUME FitsRing
    PROVE  TimedSpec => []LeavingInv
<1>1. TimedInit => LeavingInv
    BY DEF TimedInit, Init, RcopyInit, LeavingInv, Gone
<1> QED BY <1>1, LeavingNext, TimedTypes, Clocks, NeverSpins, PTL DEF TimedSpec

\* When rcopy has gone the child is gone within its MaxAttempts seconds, not
\* counting the time it was kept waiting, whatever is still on its way: if the
\* buffer size is at most the window size.  A child that spins never goes.
THEOREM ChildLeavesInTimeAlways ==
    ASSUME FitsRing
    PROVE  TimedSpec => []ChildLeavesInTime
<1>1. ASSUME TypeOK, ClockInv, LeavingInv
      PROVE  ChildLeavesInTime
    <2> SUFFICES ASSUME rcv \in Gone, srv \notin Stopped
                 PROVE  clock <= MaxAttempts * Second + lag
        BY DEF ChildLeavesInTime
    <2>1. /\ attempts \in Nat /\ MaxAttempts \in Nat /\ attempts < MaxAttempts
          /\ serverClock \in Nat /\ serverClock <= Second
          /\ clock \in Nat /\ lag \in Nat /\ Second \in Nat
        BY <1>1, ServerAssumption, TimeAssumption DEF TypeOK, ServerTypeOK, ClockInv
    <2> DEFINE spent == attempts * Second
               all == MaxAttempts * Second
    <2>2. spent \in Nat /\ spent + Second <= all
        BY <2>1, SecondsAdd
    <2>3. all \in Nat
        BY <2>1
    <2>4. clock <= lag \/ clock <= spent + serverClock + lag
        BY <1>1 DEF LeavingInv
    <2> HIDE DEF spent, all
    <2>5. clock <= all + lag
        BY <2>1, <2>2, <2>3, <2>4
    <2> QED BY <2>5 DEF all
<1> QED BY <1>1, TimedTypes, Clocks, Leaving, PTL

------------------------------------------------------------------------------
(***************************************************************************)
(* What is sent.                                                           *)
(***************************************************************************)

\* What is sent arrives if there is room for it.
LEMMA Delivered ==
    ASSUME NEW q, Len(q) < QueueCap, NEW p, Len(q) \in Nat
    PROVE  Put(q, "sent", p) = Append(q, p)
BY NetworkAssumption DEF Put

\* Faults are never taken back.
LEMMA FaultsGrow ==
    ASSUME TypeOK, AServerNext \/ AClientNext
    PROVE  faults' >= faults
BY FaultsKept DEF TypeOK, AServerNext, AClientNext

------------------------------------------------------------------------------
(***************************************************************************)
(* While nothing is lost.                                                  *)
(***************************************************************************)

\* The socket queues hold a window of packets, also the first one, which the
\* code makes as large as the buffer size.
RoomForWindow == WindowSize <= QueueCap /\ BufferSize <= QueueCap

\* A process is not kept waiting for a second.
ShortLag == MaxLag < Second

Quiet == faults = 0 /\ rcv \notin Gone /\ srv \notin Stopped

\* NoLossInv without its condition.
NoLoss ==
    /\ rcv = "INORDER"
    /\ window.current = filePos
    /\ window.lowest < window.highest
    /\ window.highest <= window.lowest + QueueCap
    /\ window.current <= window.lowest + QueueCap
    /\ buffer.current <= NumChunks + 1
    /\ InSequence
    /\ Acknowledged
    /\ Conserved
    /\ serverClock <= lag

LEMMA NoLossParts == NoLossInv <=> (Quiet => NoLoss)
BY DEF NoLossInv, Quiet, NoLoss

LEMMA Edges ==
    ASSUME TypeOK
    PROVE  /\ window \in CircularBuffer /\ buffer \in CircularBuffer
           /\ window.lowest \in Nat /\ window.highest \in Nat /\ window.current \in Nat
           /\ buffer.current \in Nat
           /\ faults \in Nat /\ filePos \in 0..NumChunks /\ NumChunks \in Nat
           /\ QueueCap \in Nat \ {0} /\ WindowSize \in Nat \ {0} /\ BufferSize \in Nat \ {0}
BY SizeAssumption, ServerAssumption, NetworkAssumption
   DEF TypeOK, ServerTypeOK, RcopyTypeOK, CircularBuffer

LEMMA Lengths ==
    ASSUME TypeOK
    PROVE  /\ toClient \in Seq(ClientBound) /\ toServer \in Seq(ServerBound)
           /\ Len(toClient) \in Nat /\ Len(toServer) \in Nat
           /\ (toClient = <<>>) <=> (Len(toClient) = 0)
           /\ (toServer = <<>>) <=> (Len(toServer) = 0)
<1>1. toClient \in Seq(ClientBound) /\ toServer \in Seq(ServerBound)
    BY DEF TypeOK
<1> QED BY <1>1

\* Then the two do not wait for each other: a packet is on its way, or its
\* acknowledgment is.
LEMMA NotBothPoll ==
    ASSUME TypeOK, NoLoss, ServerPolls
    PROVE  ~ClientPolls
<1> SUFFICES ASSUME toClient = <<>>
             PROVE  FALSE
    BY DEF ClientPolls
<1>1. Len(toClient) = 0 /\ Len(toServer) = 0
    BY DEF ServerPolls
<1>2. CASE WindowFull
    <2>1. window.current = buffer.current
        BY <1>1, <1>2, Edges, Lengths DEF NoLoss, Conserved, WindowFull, EofStates
    <2> QED BY <1>1, <1>2, <2>1, Edges, Lengths DEF NoLoss, Acknowledged, WindowFull
<1>3. CASE srv = "EOF_POLL"
    BY <1>1, <1>3 DEF NoLoss, Conserved, UnderWay, EofStates
<1> QED BY <1>2, <1>3 DEF ServerPolls

\* One more packet on its way to rcopy.
LEMMA InSequenceAppend ==
    ASSUME TypeOK, InSequence, NEW p,
           p # Corrupted,
           p.seq = SeqOf(buffer.current + Len(toClient)),
           p.seq = NumChunks => p.flag = FLAG_EOF,
           toClient' = Append(toClient, p), buffer' = buffer
    PROVE  InSequence' /\ Len(toClient') = Len(toClient) + 1
<1>1. /\ Len(toClient') = Len(toClient) + 1 /\ Len(toClient) \in Nat
      /\ toClient'[Len(toClient) + 1] = p
      /\ \A i \in 1..Len(toClient) : toClient'[i] = toClient[i]
    BY Edges, Lengths
<1>2. ASSUME NEW i \in 1..Len(toClient')
      PROVE  LET m == toClient'[i] IN
                 /\ m # Corrupted
                 /\ m.seq = SeqOf(buffer.current + (i - 1))
                 /\ m.seq = NumChunks => m.flag = FLAG_EOF
    <2>1. CASE i \in 1..Len(toClient)
        BY <1>1, <2>1 DEF InSequence
    <2>2. CASE i = Len(toClient) + 1
        BY <1>1, <2>2, Edges, Lengths
    <2> QED BY <1>1, <2>1, <2>2
<1> QED BY <1>1, <1>2 DEF InSequence

\* The child reads the next acknowledgment.
LEMMA ProcessWithoutLoss ==
    ASSUME TypeOK, NoLoss, RoomForWindow,
           NEW next, NEW onEof, process_rr_srej_eof(next, onEof)
    PROVE  /\ srv' = next
           /\ UNCHANGED <<toClient, faults, filePos>>
           /\ Len(toServer') = Len(toServer) - 1
           /\ window'.lowest = window.lowest + 1
           /\ window'.highest = window.lowest + 1 + WindowSize
           /\ window'.current = window.current
           /\ (buffer' = buffer) => Acknowledged'
<1> DEFINE p == Head(toServer)
<1>1. toServer # <<>> /\ toServer' = Tail(toServer) /\ filePos' = filePos
    BY DEF process_rr_srej_eof
<1>2. /\ p = toServer[1] /\ 1 \in 1..Len(toServer)
      /\ Len(toServer') = Len(toServer) - 1
      /\ \A i \in 1..Len(toServer') : i + 1 \in 1..Len(toServer) /\ toServer'[i] = toServer[i + 1]
    BY <1>1, HeadAndTail, Edges, Lengths
<1>3. p = RR(window.lowest + 1)
    BY <1>2 DEF NoLoss, Acknowledged
<1>4. p.flag = FLAG_RR /\ p.data = window.lowest + 1 /\ ~BadChecksum(p)
    BY <1>3 DEF RR, build_packet, BadChecksum, Corrupted, FLAG_RR
<1>5. FLAG_RR # FLAG_SREJ
    BY DEF FLAG_RR, FLAG_SREJ
<1> HIDE DEF p
<1>6. /\ window' = AdvanceWindow(window, p.data) /\ srv' = next /\ UNCHANGED <<toClient, faults>>
    BY <1>4, <1>5 DEF process_rr_srej_eof, p
<1>7. /\ window'.lowest = window.lowest + 1
      /\ window'.highest = window.lowest + 1 + WindowSize
      /\ window'.current = window.current
    <2>1. window \in CircularBuffer /\ p.data \in Nat
        BY <1>4, Edges
    <2> QED BY <1>4, <1>6, <2>1, AdvanceType
<1>8. ASSUME buffer' = buffer
      PROVE  Acknowledged'
    <2>1. Len(toServer') = buffer'.current - window'.lowest
        BY <1>2, <1>7, <1>8, Edges, Lengths DEF NoLoss, Acknowledged
    <2>2. ASSUME NEW i \in 1..Len(toServer')
          PROVE  toServer'[i] = RR(window'.lowest + i)
        <3>1. toServer'[i] = RR(window.lowest + (i + 1))
            BY <1>2, <2>2 DEF NoLoss, Acknowledged
        <3>2. window.lowest \in Nat /\ i \in Nat
            BY <2>2, Edges
        <3>3. window.lowest + (i + 1) = window'.lowest + i
            BY <1>7, <3>2
        <3> QED BY <3>1, <3>3
    <2> QED BY <2>1, <2>2 DEF Acknowledged
<1> QED BY <1>1, <1>2, <1>6, <1>7, <1>8

LEMMA ServerWithoutLoss ==
    ASSUME RoomForWindow, ShortLag, TypeOK, ClockInv, NoLossInv, AServerNext, TimedServer
    PROVE  NoLossInv'
<1> SUFFICES ASSUME Quiet'
             PROVE  NoLoss'
    BY NoLossParts DEF NoLossInv, Quiet, NoLoss
<1>1. /\ UNCHANGED <<buffer, rcv, out, lag>> /\ serverClock' = 0
      /\ ServerStep \/ (ServerTimeout /\ serverClock = Second)
    BY DEF TimedServer, rcopyVars, ServerPollTime
<1>2. srv \notin Stopped
    BY <1>1 DEF ServerStep, ServerTimeout, Stopped, SendData, ReadEof, WindowClosed, DrainRecv,
        DrainDone, FullRecv, FullDone, SendEof, EofRecv, FullTimeout, EofTimeout, WindowFull
<1>3. faults = 0 /\ faults' = 0 /\ rcv \notin Gone
    BY <1>1, FaultsGrow, Edges, Lengths DEF Quiet
<1>4. NoLoss
    BY <1>2, <1>3, NoLossParts DEF Quiet
<1>5. serverClock' <= lag' /\ rcv' = "INORDER" /\ lag \in Nat
    BY <1>1, <1>4, TimeAssumption DEF ClockInv, NoLoss
<1>6. CASE SendData
    <2> DEFINE s == window.current
               w == buffer_add(window, s, filePos)
               p == build_packet(s, FLAG_DATA, Entry(w, s).data)
    <2>1. /\ SendToClient(p) /\ window' = [w EXCEPT !.current = s + 1]
          /\ filePos' = filePos + 1 /\ filePos < NumChunks /\ s < window.highest
          /\ srv = "SEND_DATA" /\ srv' = "DRAIN" /\ toServer' = toServer
        BY <1>6 DEF SendData
    <2>2. w \in CircularBuffer /\ w.lowest = window.lowest /\ w.highest = window.highest
        <3>1. filePos \in Payload
            BY Edges DEF Payload
        <3>2. window \in CircularBuffer /\ s \in Nat
            BY Edges
        <3> QED BY <3>1, <3>2, BufferAdd
    <2>3. p.seq = s /\ p.flag = FLAG_DATA /\ p # Corrupted
        BY DEF build_packet, Corrupted, FLAG_DATA
    <2> HIDE DEF w, p
    <2>4. /\ window'.current = s + 1 /\ window'.lowest = window.lowest
          /\ window'.highest = window.highest
        BY <2>1, <2>2, Edges, Lengths DEF CircularBuffer
    <2>5. s = buffer.current + Len(toClient) /\ s < NumChunks /\ window.lowest <= buffer.current
        BY <1>4, <2>1, Edges, Lengths DEF NoLoss, Conserved, Acknowledged, EofStates
    <2>6. toClient' = Append(toClient, p)
        <3>1. Len(toClient) < QueueCap
            BY <1>4, <2>1, <2>5, Edges, Lengths DEF NoLoss
        <3> QED BY <1>3, <2>1, <3>1, SendToClientCost, Delivered, Edges, Lengths
    <2>7. InSequence' /\ Len(toClient') = Len(toClient) + 1
        <3>1. p.seq = SeqOf(buffer.current + Len(toClient))
            BY <2>3, <2>5 DEF SeqOf
        <3>2. p.seq # NumChunks
            BY <2>3, <2>5, Edges
        <3> QED BY <1>1, <1>4, <2>3, <2>6, <3>1, <3>2, InSequenceAppend DEF NoLoss
    <2>8. Acknowledged'
        BY <1>1, <1>4, <2>1, <2>4 DEF NoLoss, Acknowledged
    <2>9. Conserved'
        <3>1. s + 1 = buffer.current + (Len(toClient) + 1)
            <4>1. buffer.current \in Nat /\ Len(toClient) \in Nat
                BY Edges, Lengths
            <4> QED BY <2>5, <4>1
        <3> QED BY <1>1, <2>1, <2>4, <2>7, <3>1 DEF Conserved, EofStates
    <2>10. /\ window'.current = filePos' /\ window'.lowest < window'.highest
           /\ window'.highest <= window'.lowest + QueueCap
           /\ window'.current <= window'.lowest + QueueCap
           /\ buffer'.current <= NumChunks + 1
        BY <1>1, <1>4, <2>1, <2>4, Edges, Lengths DEF NoLoss
    <2> QED BY <1>5, <2>7, <2>8, <2>9, <2>10 DEF NoLoss
<1>7. CASE ReadEof \/ WindowClosed \/ DrainDone \/ FullDone
    <2>1. UNCHANGED <<window, filePos, toClient, toServer>>
        BY <1>7 DEF ReadEof, WindowClosed, DrainDone, FullDone, netVars
    <2>2. InSequence' /\ Acknowledged'
        BY <1>1, <1>4, <2>1 DEF NoLoss, InSequence, Acknowledged
    <2>3. Conserved'
        <3>1. CASE ReadEof
            <4>1. /\ window.current < window.highest /\ filePos = NumChunks
                  /\ srv = "SEND_DATA" /\ srv' = "WAIT_EOF_ACK"
                BY <3>1 DEF ReadEof
            <4>2. /\ window.current = buffer.current + Len(toClient)
                  /\ Len(toServer) = buffer.current - window.lowest
                BY <1>4, <4>1 DEF NoLoss, Conserved, Acknowledged, EofStates
            <4>3. UnderWay' = Len(toClient) + Len(toServer) + 1
                BY <2>1, <4>1 DEF UnderWay
            <4>4. UnderWay' \in 1..QueueCap
                <5>1. window.highest <= window.lowest + QueueCap
                    BY <1>4 DEF NoLoss
                <5>2. /\ window.lowest \in Nat /\ window.current \in Nat /\ window.highest \in Nat
                      /\ buffer.current \in Nat /\ QueueCap \in Nat
                      /\ Len(toClient) \in Nat /\ Len(toServer) \in Nat
                    BY Edges, Lengths
                <5>3. Len(toClient) + Len(toServer) + 1 \in 1..QueueCap
                    BY <4>1, <4>2, <5>1, <5>2
                <5> QED BY <4>3, <5>3
            <4> QED BY <1>1, <1>4, <2>1, <4>1, <4>2, <4>4, Edges, Lengths
                    DEF NoLoss, Conserved, EofStates
        <3>2. CASE WindowClosed \/ DrainDone \/ FullDone
            BY <1>1, <1>4, <2>1, <3>2
               DEF NoLoss, Conserved, WindowClosed, DrainDone, FullDone, EofStates
        <3> QED BY <1>7, <3>1, <3>2
    <2> QED BY <1>1, <1>4, <1>5, <2>1, <2>2, <2>3 DEF NoLoss
<1>8. CASE DrainRecv \/ FullRecv \/ EofRecv
    <2>1. PICK next, onEof :
            /\ process_rr_srej_eof(next, onEof)
            /\ \/ srv = "EOF_POLL" /\ next = "WAIT_EOF_ACK"
               \/ srv \notin EofStates /\ next \notin EofStates
        BY <1>8 DEF DrainRecv, FullRecv, EofRecv, WindowFull, EofStates
    <2>2. /\ srv' = next
          /\ UNCHANGED <<toClient, faults, filePos>>
          /\ Len(toServer') = Len(toServer) - 1
          /\ window'.lowest = window.lowest + 1
          /\ window'.highest = window.lowest + 1 + WindowSize
          /\ window'.current = window.current
          /\ Acknowledged'
        BY <1>1, <1>4, <2>1, ProcessWithoutLoss
    <2>3. InSequence'
        BY <1>1, <1>4, <2>2 DEF NoLoss, InSequence
    <2>4. Conserved'
        <3>1. srv = "EOF_POLL" => UnderWay' = UnderWay
            BY <2>1, <2>2, Edges, Lengths DEF UnderWay, EofStates
        <3> QED BY <1>1, <1>4, <2>1, <2>2, <3>1 DEF NoLoss, Conserved, EofStates
    <2>5. /\ window'.current = filePos' /\ window'.lowest < window'.highest
          /\ window'.highest <= window'.lowest + QueueCap
          /\ window'.current <= window'.lowest + QueueCap
          /\ buffer'.current <= NumChunks + 1
        <3>1. /\ window.current = filePos /\ window.current <= window.lowest + QueueCap
              /\ buffer.current <= NumChunks + 1
            BY <1>4 DEF NoLoss
        <3>2. buffer'.current = buffer.current /\ filePos' = filePos
            BY <1>1, <2>2
        <3>3. \A l, c, q, w \in Nat : w # 0 /\ w <= q /\ c <= l + q =>
                  l + 1 < l + 1 + w /\ l + 1 + w <= l + 1 + q /\ c <= l + 1 + q
            OBVIOUS
        <3>4. /\ window.lowest \in Nat /\ window.current \in Nat /\ QueueCap \in Nat
              /\ WindowSize \in Nat /\ WindowSize # 0 /\ WindowSize <= QueueCap
            BY Edges DEF RoomForWindow
        <3> QED BY <2>2, <3>1, <3>2, <3>3, <3>4
    <2> QED BY <1>5, <2>2, <2>3, <2>4, <2>5 DEF NoLoss
<1>9. CASE SendEof
    <2> DEFINE p == build_packet(window.current, FLAG_EOF, NoData)
    <2>1. /\ SendToClient(p) /\ srv = "WAIT_EOF_ACK" /\ srv' = "EOF_POLL"
          /\ UNCHANGED <<window, filePos, toServer>>
        BY <1>9 DEF SendEof
    <2>2. p.seq = window.current /\ p.flag = FLAG_EOF /\ p # Corrupted
        BY DEF build_packet, Corrupted, FLAG_EOF
    <2> HIDE DEF p
    <2>3. /\ window.current = NumChunks /\ NumChunks <= buffer.current + Len(toClient)
          /\ Len(toClient) + Len(toServer) + 1 \in 1..QueueCap
        BY <1>4, <2>1 DEF NoLoss, Conserved, EofStates, UnderWay
    <2>4. toClient' = Append(toClient, p)
        <3>1. Len(toClient) < QueueCap
            BY <2>3, Edges, Lengths
        <3> QED BY <1>3, <2>1, <3>1, SendToClientCost, Delivered, Edges, Lengths
    <2>5. InSequence' /\ Len(toClient') = Len(toClient) + 1
        <3>1. p.seq = SeqOf(buffer.current + Len(toClient))
            BY <2>2, <2>3, Edges, Lengths DEF SeqOf
        <3> QED BY <1>1, <1>4, <2>2, <2>4, <3>1, InSequenceAppend DEF NoLoss
    <2>6. Conserved'
        <3>1. UnderWay' = Len(toClient) + Len(toServer) + 1
            BY <2>1, <2>5, Edges, Lengths DEF UnderWay
        <3> QED BY <1>1, <2>1, <2>3, <2>5, <3>1, Edges, Lengths DEF Conserved, EofStates
    <2>7. Acknowledged'
        BY <1>1, <1>4, <2>1 DEF NoLoss, Acknowledged
    <2> QED BY <1>1, <1>4, <1>5, <2>1, <2>5, <2>6, <2>7 DEF NoLoss
<1>10. ~ServerTimeout \/ serverClock # Second
    BY <1>4, TimeAssumption DEF NoLoss, ClockInv, ShortLag
<1> QED BY <1>1, <1>6, <1>7, <1>8, <1>9, <1>10 DEF ServerStep

\* While nothing is lost rcopy is sent what it expects.
LEMMA HeadWithoutLoss ==
    ASSUME TypeOK, NoLoss, ClientNext, rcv' \notin Gone
    PROVE  /\ WriteInorder
           /\ toClient # <<>> /\ Head(toClient).seq = buffer.current
           /\ buffer.current <= NumChunks
<1> DEFINE p == Head(toClient)
<1>1. rcv = "INORDER"
    BY DEF NoLoss
<1>2. WriteInorder \/ GapFound \/ ExitTransfer("INORDER") \/ AckAgain("INORDER") \/ DropCorrupted("INORDER")
    BY <1>1 DEF ClientNext, ClientStep, ClientTimeout, handle_inorder, handle_buffer, handle_flush,
        DropCorrupted, ExitTransfer, FillGap, StoreEarly, AckAgain, FlushEntry, FlushEnd,
        Accepted, Received, Gone
<1>3. toClient # <<>>
    BY <1>2 DEF WriteInorder, GapFound, ExitTransfer, AckAgain, DropCorrupted, Accepted, Received
<1>4. p = toClient[1] /\ 1 \in 1..Len(toClient)
    BY <1>3, HeadAndTail, Lengths
<1>5. /\ p # Corrupted
      /\ p.seq = SeqOf(buffer.current)
      /\ p.seq = NumChunks => p.flag = FLAG_EOF
    <2>1. \A n \in Nat : n + (1 - 1) = n
        OBVIOUS
    <2> QED BY <1>4, <2>1, Edges DEF NoLoss, InSequence
<1>6. buffer.current <= NumChunks + 1 /\ buffer.current \in Nat /\ NumChunks \in Nat
    BY Edges DEF NoLoss
<1> HIDE DEF p
<1>7. CASE buffer.current <= NumChunks
    <2>1. p.seq = buffer.current
        BY <1>5, <1>6, <1>7 DEF SeqOf
    <2>2. ~(p.seq < buffer.current) /\ ~(p.seq > buffer.current)
        BY <1>6, <2>1
    <2> QED BY <1>2, <1>3, <1>5, <1>7, <2>1, <2>2
            DEF GapFound, ExitTransfer, AckAgain, DropCorrupted, IsLastEof, Received, p
<1>8. CASE buffer.current = NumChunks + 1
    <2>1. p.seq = NumChunks /\ p.flag = FLAG_EOF /\ buffer.current > p.seq
        BY <1>5, <1>6, <1>8 DEF SeqOf
    <2> QED BY <1>2, <1>5, <2>1
            DEF WriteInorder, GapFound, ExitTransfer, AckAgain, DropCorrupted, Accepted,
                IsLastEof, Received, Gone, p
<1> QED BY <1>6, <1>7, <1>8

LEMMA ClientWithoutLoss ==
    ASSUME RoomForWindow, TypeOK, NoLossInv, AClientNext, TimedClient
    PROVE  NoLossInv'
<1> SUFFICES ASSUME Quiet'
             PROVE  NoLoss'
    BY NoLossParts DEF NoLossInv, Quiet, NoLoss
<1>1. UNCHANGED <<window, filePos, srv, serverClock, lag>> /\ ClientNext
    BY DEF TimedClient, AClientNext, serverVars
<1>2. faults = 0 /\ faults' = 0 /\ srv \notin Stopped /\ rcv' \notin Gone
    BY <1>1, FaultsGrow, Edges DEF Quiet
<1>3. rcv \notin Gone
    BY <1>1 DEF Gone, Receiving, ClientNext, ClientStep, ClientTimeout, handle_inorder, handle_buffer,
        handle_flush, DropCorrupted, ExitTransfer, WriteInorder, GapFound, FillGap, StoreEarly,
        AckAgain, FlushEntry, FlushEnd, Accepted, Received
<1>4. NoLoss
    BY <1>2, <1>3, NoLossParts DEF Quiet
<1>5. /\ WriteInorder
      /\ toClient # <<>> /\ Head(toClient).seq = buffer.current
      /\ buffer.current <= NumChunks
    BY <1>1, <1>2, <1>4, HeadWithoutLoss
<1>6. /\ buffer.current \in Nat /\ NumChunks \in Nat /\ QueueCap \in Nat
      /\ window.lowest \in Nat /\ window.current \in Nat
      /\ Len(toClient) \in Nat /\ Len(toServer) \in Nat /\ Len(toClient) >= 1
    BY <1>5, Edges, Lengths
<1>7. buffer'.current = buffer.current + 1
    BY <1>5, NextExpected, Edges DEF WriteInorder
<1>8. /\ rcv' = rcv /\ toClient' = Tail(toClient) /\ SendToServer(RR(buffer'.current))
    BY <1>5 DEF WriteInorder, Accepted, Received
<1>9. /\ Len(toClient') = Len(toClient) - 1
      /\ \A i \in 1..Len(toClient') : i + 1 \in 1..Len(toClient) /\ toClient'[i] = toClient[i + 1]
    BY <1>5, <1>8, HeadAndTail, Lengths
<1>10. Len(toServer) = buffer.current - window.lowest
    BY <1>4 DEF NoLoss, Acknowledged
<1>11. Len(toServer) < QueueCap
    <2>1. CASE srv \in EofStates
        <3>1. UnderWay \in 1..QueueCap
            BY <1>4, <2>1 DEF NoLoss, Conserved
        <3> QED BY <1>6, <3>1 DEF UnderWay
    <2>2. CASE srv \notin EofStates
        <3>1. window.current = buffer.current + Len(toClient) /\ window.current <= window.lowest + QueueCap
            BY <1>4, <2>2 DEF NoLoss, Conserved
        <3> QED BY <1>6, <1>10, <3>1
    <2> QED BY <2>1, <2>2
<1>12. toServer' = Append(toServer, RR(buffer'.current))
    BY <1>2, <1>6, <1>8, <1>11, SendToServerCost, Delivered
<1>13. /\ Len(toServer') = Len(toServer) + 1
       /\ toServer'[Len(toServer) + 1] = RR(buffer'.current)
       /\ \A i \in 1..Len(toServer) : toServer'[i] = toServer[i]
    BY <1>12, Lengths
<1>14. InSequence'
    <2>1. ASSUME NEW i \in 1..Len(toClient')
          PROVE  LET m == toClient'[i] IN
                     /\ m # Corrupted
                     /\ m.seq = SeqOf(buffer'.current + (i - 1))
                     /\ m.seq = NumChunks => m.flag = FLAG_EOF
        <3>1. i + 1 \in 1..Len(toClient) /\ toClient'[i] = toClient[i + 1]
            BY <1>9, <2>1
        <3>2. /\ toClient'[i] # Corrupted
              /\ toClient'[i].seq = SeqOf(buffer.current + (i + 1 - 1))
              /\ toClient'[i].seq = NumChunks => toClient'[i].flag = FLAG_EOF
            BY <1>4, <3>1 DEF NoLoss, InSequence
        <3>3. \A a \in Nat, j \in Nat : a + 1 + (j - 1) = a + (j + 1 - 1)
            OBVIOUS
        <3>4. i \in Nat
            OBVIOUS
        <3>5. buffer'.current + (i - 1) = buffer.current + (i + 1 - 1)
            BY <1>6, <1>7, <3>3, <3>4
        <3> QED BY <3>2, <3>5
    <2> QED BY <2>1 DEF InSequence
<1>15. Acknowledged'
    <2>1. Len(toServer') = buffer'.current - window'.lowest
        BY <1>1, <1>6, <1>7, <1>10, <1>13
    <2>2. ASSUME NEW i \in 1..Len(toServer')
          PROVE  toServer'[i] = RR(window'.lowest + i)
        <3>1. CASE i \in 1..Len(toServer)
            BY <1>1, <1>4, <1>13, <3>1 DEF NoLoss, Acknowledged
        <3>2. CASE i = Len(toServer) + 1
            <4>1. buffer'.current = window.lowest + i
                BY <1>6, <1>7, <1>10, <3>2
            <4> QED BY <1>1, <1>13, <3>2, <4>1
        <3> QED BY <1>6, <1>13, <2>2, <3>1, <3>2
    <2> QED BY <2>1, <2>2 DEF Acknowledged
<1>16. Conserved'
    <2>1. buffer'.current + Len(toClient') = buffer.current + Len(toClient)
        BY <1>6, <1>7, <1>9
    <2>2. UnderWay' = UnderWay
        BY <1>1, <1>6, <1>9, <1>13 DEF UnderWay
    <2> QED BY <1>1, <1>4, <2>1, <2>2 DEF NoLoss, Conserved
<1>17. buffer'.current <= NumChunks + 1
    BY <1>5, <1>6, <1>7
<1> QED BY <1>1, <1>4, <1>8, <1>14, <1>15, <1>16, <1>17 DEF NoLoss

\* Then the child does not stop before rcopy.
LEMMA StaysWithoutLoss ==
    ASSUME RoomForWindow, TypeOK, NoLoss, ServerStep
    PROVE  srv' \notin Stopped
<1>1. CASE DrainRecv \/ FullRecv \/ EofRecv
    <2>1. PICK next, onEof :
            process_rr_srej_eof(next, onEof) /\ next \in {"DRAIN", "WINDOW_FULL", "WAIT_EOF_ACK"}
        BY <1>1 DEF DrainRecv, FullRecv, EofRecv
    <2>2. srv' = next
        BY <2>1, ProcessWithoutLoss
    <2> QED BY <2>1, <2>2 DEF Stopped
<1>2. CASE SendData \/ ReadEof \/ WindowClosed \/ DrainDone \/ FullDone \/ SendEof
    BY <1>2 DEF SendData, ReadEof, WindowClosed, DrainDone, FullDone, SendEof, Stopped
<1> QED BY <1>1, <1>2 DEF ServerStep

LEMMA NoLossNext ==
    ASSUME RoomForWindow, ShortLag, TypeOK, ClockInv, NoLossInv, [TimedNext]_timedVars
    PROVE  NoLossInv'
<1>1. CASE Tick
    <2> SUFFICES ASSUME Quiet'
                 PROVE  NoLoss'
        BY NoLossParts DEF NoLossInv, Quiet, NoLoss
    <2>1. /\ UNCHANGED <<window, filePos, srv, buffer, rcv, toClient, toServer, faults>>
          /\ (NothingDue /\ lag' = lag) \/ (~NothingDue /\ lag' = lag + 1)
          /\ serverClock' = IF ServerPolls THEN serverClock + 1 ELSE 0
        BY <1>1 DEF Tick, vars, serverVars, rcopyVars, netVars
    <2>2. Quiet /\ NoLoss
        BY <2>1, NoLossParts DEF Quiet
    <2>3. serverClock' <= lag'
        <3>1. serverClock \in Nat /\ lag \in Nat /\ serverClock <= lag
            BY <2>2, TimeAssumption DEF ClockInv, NoLoss
        <3>2. ServerPolls => ~NothingDue
            BY <2>2, NotBothPoll DEF Quiet, NothingDue
        <3> QED BY <2>1, <3>1, <3>2
    <2>4. InSequence' /\ Acknowledged' /\ Conserved'
        BY <2>1, <2>2 DEF NoLoss, InSequence, Acknowledged, Conserved, UnderWay
    <2> QED BY <2>1, <2>2, <2>3, <2>4 DEF NoLoss
<1>2. CASE UNCHANGED timedVars
    BY <1>2 DEF timedVars, timeVars, vars, serverVars, rcopyVars, netVars, NoLossInv, InSequence,
        Acknowledged, Conserved, UnderWay
<1> QED BY <1>1, <1>2, ServerWithoutLoss, ClientWithoutLoss, TimedStep

LEMMA NoLossAlways ==
    ASSUME RoomForWindow, ShortLag
    PROVE  TimedSpec => []NoLossInv
<1>1. ASSUME TimedInit
      PROVE  NoLossInv
    <2>1. /\ window = buffer_init(BufferSize) /\ buffer = buffer_init(0) /\ filePos = 0
          /\ srv = "SEND_DATA" /\ rcv = "INORDER" /\ toClient = <<>> /\ toServer = <<>>
          /\ serverClock = 0 /\ lag = 0
        BY <1>1 DEF TimedInit, Init, ServerInit, RcopyInit, NetInit
    <2>2. /\ window.lowest = 0 /\ window.highest = BufferSize /\ window.current = 0
          /\ buffer.current = 0
        BY <2>1 DEF buffer_init
    <2>3. Len(toClient) = 0 /\ Len(toServer) = 0
        BY <2>1
    <2>4. InSequence /\ Acknowledged /\ Conserved
        BY <2>1, <2>2, <2>3 DEF InSequence, Acknowledged, Conserved, EofStates
    <2> QED BY <2>1, <2>2, <2>4, SizeAssumption, ServerAssumption, NetworkAssumption
            DEF NoLossInv, RoomForWindow
<1> QED BY <1>1, NoLossNext, TimedTypes, Clocks, PTL DEF TimedSpec

------------------------------------------------------------------------------
(***************************************************************************)
(* How long rcopy waits.                                                   *)
(***************************************************************************)

\* With a window of room in the queues the two never wait for each other
\* unless a packet was lost or damaged.
THEOREM BothWaitForLossAlways ==
    ASSUME RoomForWindow, ShortLag
    PROVE  TimedSpec => []BothWaitForLoss
<1>1. ASSUME TypeOK, NoLossInv
      PROVE  BothWaitForLoss
    <2> SUFFICES ASSUME ServerPolls, ClientPolls, srv \notin Stopped, faults = 0
                 PROVE  FALSE
        BY <1>1, Edges DEF BothWaitForLoss
    <2> QED BY <1>1, NotBothPoll, NoLossParts DEF Quiet, ClientPolls, Receiving, Gone
<1> QED BY <1>1, TimedTypes, NoLossAlways, PTL

\* Products of the number of seconds.
LEMMA Seconds ==
    ASSUME NEW f \in Nat
    PROVE  /\ f * Second \in Nat
           /\ (f + 1 - 1) * Second = f * Second
           /\ f >= 1 => (f - 1) * Second \in Nat /\ f * Second = (f - 1) * Second + Second
<1>1. Second \in Nat
    BY TimeAssumption
<1>2. f + 1 - 1 = f /\ f * Second \in Nat
    BY <1>1
<1>3. ASSUME f >= 1
      PROVE  (f - 1) * Second \in Nat /\ f * Second = (f - 1) * Second + Second
    <2>1. f - 1 \in Nat /\ f = (f - 1) + 1
        BY <1>3
    <2> DEFINE g == f - 1
    <2> HIDE DEF g
    <2>2. g \in Nat /\ f = g + 1
        BY <2>1 DEF g
    <2>3. g * Second \in Nat /\ (g + 1) * Second = g * Second + Second
        BY <1>1, <2>2
    <2> QED BY <2>2, <2>3 DEF g
<1> QED BY <1>2, <1>3

\* More faults allow more time.
LEMMA SecondsGrow ==
    ASSUME NEW f \in Nat, NEW g \in Nat, f <= g
    PROVE  f * Second <= g * Second
<1>1. CASE f = g
    BY <1>1, Seconds
<1>2. CASE f < g
    <2>1. /\ f * Second \in Nat /\ (f + 1) * Second = f * Second + Second
          /\ (f + 1) * Second <= g * Second
        BY <1>2, SecondsAdd
    <2>2. g * Second \in Nat /\ Second \in Nat
        BY Seconds, TimeAssumption
    <2> DEFINE x == f * Second
               y == g * Second
    <2> HIDE DEF x, y
    <2> QED BY <2>1, <2>2 DEF x, y
<1> QED BY <1>1, <1>2

\* A send to a process whose queue is empty arrives or is counted.
LEMMA LostOrSeen ==
    ASSUME TypeOK, NEW p, SendToClient(p), toClient' = <<>>
    PROVE  toClient = <<>> /\ faults' = faults + 1
<1>1. toClient = <<>>
    <2>1. \A r : Append(toClient, r) # <<>>
        BY Lengths
    <2> QED BY <2>1, PutCases DEF SendToClient
<1>2. Len(toClient) < QueueCap /\ Len(toClient) \in Nat
    BY <1>1, Edges, Lengths
<1>3. Append(toClient, p) # <<>>
    BY <1>1
<1> QED BY <1>1, <1>2, <1>3, SendToClientCost, Delivered, Edges

LEMMA ServerWaiting ==
    ASSUME TypeOK, TypeOK', ClockInv, BothWaitForLoss', WaitingInv, AServerNext, TimedServer
    PROVE  WaitingInv'
<1> SUFFICES ASSUME ClientPolls', srv' \notin Stopped
             PROVE  IF ServerPolls'
                    THEN faults' >= 1 /\ clientClock' <= (faults' - 1) * Second + serverClock' + lag'
                    ELSE IF srv' = "WAIT_EOF_ACK" /\ toServer' = <<>>
                    THEN clientClock' <= faults' * Second + lag'
                    ELSE clientClock' <= lag'
    BY DEF WaitingInv
<1>1. /\ UNCHANGED <<rcv, clientClock, lag>> /\ serverClock' = 0
      /\ ServerStep \/ (ServerTimeout /\ serverClock = Second)
    BY DEF TimedServer, rcopyVars, ServerPollTime
<1>2. srv \notin Stopped
    BY <1>1 DEF ServerStep, ServerTimeout, Stopped, SendData, ReadEof, WindowClosed, DrainRecv,
        DrainDone, FullRecv, FullDone, SendEof, EofRecv, FullTimeout, EofTimeout, WindowFull
<1>3. ClientPolls /\ toClient' = <<>>
    <2>1. rcv \in Receiving /\ toClient' = <<>>
        BY <1>1 DEF ClientPolls
    <2>2. toClient = <<>>
        BY <2>1, ChildAppends, Lengths DEF AServerNext
    <2> QED BY <2>1, <2>2 DEF ClientPolls
<1>4. /\ faults \in Nat /\ faults' \in Nat /\ faults' >= faults
      /\ clientClock \in Nat /\ lag \in Nat /\ Second \in Nat
    <2>1. faults \in Nat /\ faults' \in Nat
        BY DEF TypeOK
    <2> QED BY <2>1, FaultsGrow, TimeAssumption DEF ClockInv
<1>5. ServerPolls' => faults' >= 1
    BY DEF BothWaitForLoss
<1> DEFINE paid == faults * Second
           newPaid == faults' * Second
           before == (faults' - 1) * Second
<1>6. /\ paid \in Nat /\ newPaid \in Nat
      /\ faults' >= 1 => before \in Nat
      /\ faults' = faults + 1 => before = paid
      /\ paid <= newPaid
    <2>1. faults' = faults + 1 => faults' - 1 = faults
        BY <1>4
    <2> QED BY <1>4, <2>1, Seconds, SecondsGrow
<1>7. faults >= 1 => paid = (faults - 1) * Second + Second
    BY <1>4, Seconds
<1> HIDE DEF paid, newPaid, before
<1>8. CASE ServerTimeout /\ serverClock = Second
    <2>1. ServerPolls
        BY <1>8 DEF ServerTimeout, FullTimeout, EofTimeout, ServerPolls
    <2>2. clientClock <= paid + lag
        BY <1>2, <1>3, <1>7, <1>8, <2>1 DEF WaitingInv
    <2>3. CASE FullTimeout
        <3>1. /\ srv' = "WINDOW_FULL" /\ UNCHANGED <<window, toServer>> /\ toServer = <<>>
              /\ resend_packet(window.lowest, FLAG_RESENT_TIMEOUT, "WINDOW_FULL")
            BY <2>3 DEF FullTimeout, Stopped, resend_packet
        <3>2. faults' = faults + 1
            BY <1>3, <3>1, LostOrSeen DEF resend_packet
        <3>3. ServerPolls'
            BY <2>3, <3>1 DEF FullTimeout, ServerPolls, WindowFull
        <3>4. clientClock' <= before + serverClock' + lag'
            BY <1>1, <1>4, <1>6, <2>2, <3>2
        <3> QED BY <1>5, <3>3, <3>4 DEF before
    <2>4. CASE EofTimeout
        <3>1. /\ srv' = "WAIT_EOF_ACK" /\ toServer' = <<>> /\ UNCHANGED faults
            BY <2>4 DEF EofTimeout, Stopped, netVars
        <3>2. ~ServerPolls'
            BY <3>1 DEF ServerPolls, WindowFull
        <3>3. clientClock' <= newPaid + lag'
            BY <1>1, <1>4, <1>6, <2>2
        <3> QED BY <3>1, <3>2, <3>3 DEF newPaid
    <2> QED BY <1>8, <2>3, <2>4 DEF ServerTimeout
<1>9. CASE SendEof /\ toServer = <<>>
    <2>1. /\ srv = "WAIT_EOF_ACK" /\ srv' = "EOF_POLL" /\ toServer' = <<>>
          /\ SendToClient(build_packet(window.current, FLAG_EOF, NoData))
        BY <1>9 DEF SendEof
    <2>2. ~ServerPolls /\ ServerPolls'
        BY <2>1 DEF ServerPolls, WindowFull
    <2>3. clientClock <= paid + lag
        BY <1>2, <1>3, <1>9, <2>1, <2>2 DEF WaitingInv, paid
    <2>4. faults' = faults + 1
        BY <1>3, <2>1, LostOrSeen
    <2>5. clientClock' <= before + serverClock' + lag'
        BY <1>1, <1>4, <1>6, <2>3, <2>4
    <2> QED BY <1>5, <2>2, <2>5 DEF before
<1>10. ASSUME clientClock <= lag
       PROVE  /\ ServerPolls' => clientClock' <= before + serverClock' + lag'
              /\ clientClock' <= newPaid + lag'
              /\ clientClock' <= lag'
    BY <1>1, <1>4, <1>5, <1>6, <1>10
<1>11. CASE \/ SendEof /\ toServer # <<>>
            \/ SendData \/ ReadEof \/ WindowClosed \/ DrainRecv \/ DrainDone
            \/ FullRecv \/ FullDone \/ EofRecv
    <2>1. ~ServerPolls /\ ~(srv = "WAIT_EOF_ACK" /\ toServer = <<>>)
        BY <1>11 DEF SendEof, SendData, ReadEof, WindowClosed, DrainRecv, DrainDone, FullRecv,
            FullDone, EofRecv, process_rr_srej_eof, ServerPolls, WindowFull
    <2>2. clientClock <= lag
        BY <1>2, <1>3, <2>1 DEF WaitingInv
    <2> QED BY <1>5, <1>10, <2>2 DEF before, newPaid
<1> QED BY <1>1, <1>8, <1>9, <1>11 DEF ServerStep

LEMMA WaitingNext ==
    ASSUME TypeOK, TypeOK', ClockInv, ~Spinning, BothWaitForLoss', WaitingInv,
           [TimedNext]_timedVars
    PROVE  WaitingInv'
<1>1. CASE AServerNext /\ TimedServer
    BY <1>1, ServerWaiting
<1>2. CASE AClientNext /\ TimedClient
    <2>1. clientClock' = 0 /\ serverClock' \in Nat /\ lag' \in Nat /\ faults' \in Nat
        BY <1>2, TimeAssumption DEF TimedClient, ClockInv, TypeOK
    <2>2. srv' \notin Stopped /\ ServerPolls' /\ ClientPolls' => faults' >= 1
        BY DEF BothWaitForLoss
    <2>3. faults' * Second \in Nat /\ (faults' >= 1 => (faults' - 1) * Second \in Nat)
        BY <2>1, Seconds
    <2> DEFINE x == (faults' - 1) * Second
               y == faults' * Second
    <2> HIDE DEF x, y
    <2>4. y \in Nat /\ (faults' >= 1 => x \in Nat)
        BY <2>3 DEF x, y
    <2>5. clientClock' <= lag' /\ clientClock' <= y + lag'
        <3>1. y \in Nat
            BY <2>4
        <3>2. \A a, b \in Nat : 0 <= a /\ 0 <= b + a
            OBVIOUS
        <3> QED BY <2>1, <3>1, <3>2
    <2>6. faults' >= 1 => clientClock' <= x + serverClock' + lag'
        BY <2>1, <2>4
    <2> QED BY <2>2, <2>5, <2>6 DEF WaitingInv, x, y
<1>3. CASE Tick
    <2>1. /\ UNCHANGED vars
          /\ (NothingDue /\ lag' = lag) \/ (~NothingDue /\ lag' = lag + 1)
          /\ serverClock' = IF ServerPolls THEN serverClock + 1 ELSE 0
          /\ clientClock' = IF ClientPolls THEN clientClock + 1 ELSE 0
        BY <1>3 DEF Tick
    <2>2. UNCHANGED <<window, srv, rcv, toClient, toServer, faults>>
        BY <2>1 DEF vars, serverVars, rcopyVars, netVars
    <2>3. (ServerPolls' <=> ServerPolls) /\ (ClientPolls' <=> ClientPolls)
        BY <2>2 DEF ServerPolls, ClientPolls, WindowFull
    <2>4. /\ clientClock \in Nat /\ lag \in Nat /\ serverClock \in Nat /\ faults \in Nat
        BY TimeAssumption DEF ClockInv, TypeOK
    <2> SUFFICES ASSUME ClientPolls, srv \notin Stopped
                 PROVE  IF ServerPolls
                        THEN faults >= 1 /\ clientClock' <= (faults - 1) * Second + serverClock' + lag'
                        ELSE IF srv = "WAIT_EOF_ACK" /\ toServer = <<>>
                        THEN clientClock' <= faults * Second + lag'
                        ELSE clientClock' <= lag'
        BY <2>2, <2>3 DEF WaitingInv
    <2> DEFINE x == (faults - 1) * Second
               y == faults * Second
    <2>5. y \in Nat /\ (faults >= 1 => x \in Nat)
        BY <2>4, Seconds
    <2>6. NothingDue <=> ServerPolls
        BY DEF NothingDue
    <2> HIDE DEF x, y
    <2>7. CASE ServerPolls
        <3>1. faults >= 1 /\ clientClock <= x + serverClock + lag
            BY <2>7 DEF WaitingInv, x
        <3>2. clientClock' <= x + serverClock' + lag'
            BY <2>1, <2>4, <2>5, <2>6, <2>7, <3>1
        <3> QED BY <2>7, <3>1, <3>2 DEF x
    <2>8. CASE ~ServerPolls /\ srv = "WAIT_EOF_ACK" /\ toServer = <<>>
        <3>1. clientClock <= y + lag
            BY <2>8 DEF WaitingInv, y
        <3>2. clientClock' <= y + lag'
            BY <2>1, <2>4, <2>5, <2>6, <2>8, <3>1
        <3> QED BY <2>8, <3>2 DEF y
    <2>9. CASE ~ServerPolls /\ ~(srv = "WAIT_EOF_ACK" /\ toServer = <<>>)
        <3>1. clientClock <= lag
            BY <2>9 DEF WaitingInv
        <3>2. clientClock' <= lag'
            BY <2>1, <2>4, <2>6, <2>9, <3>1
        <3> QED BY <2>9, <3>2
    <2> QED BY <2>7, <2>8, <2>9
<1>4. CASE UNCHANGED timedVars
    BY <1>4 DEF timedVars, timeVars, vars, serverVars, rcopyVars, netVars, WaitingInv, ServerPolls,
        ClientPolls, WindowFull
<1> QED BY <1>1, <1>2, <1>3, <1>4, TimedStep

LEMMA WaitingAlways ==
    ASSUME FitsRing, RoomForWindow, ShortLag
    PROVE  TimedSpec => []WaitingInv
<1>1. TimedInit => WaitingInv
    BY DEF TimedInit, Init, ServerInit, WaitingInv, ServerPolls, WindowFull
<1>2. ASSUME TypeOK, TypeOK', ClockInv, ~Spinning, BothWaitForLoss', WaitingInv,
             [TimedNext]_timedVars
      PROVE  WaitingInv'
    BY <1>2, WaitingNext
<1> QED BY <1>1, <1>2, TimedTypes, Clocks, NeverSpins, BothWaitForLossAlways, PTL DEF TimedSpec

\* rcopy waits, with the child alive, no longer than a second for every loss.
LEMMA WaitsForLosses ==
    ASSUME TypeOK, ClockInv, WaitingInv, ShortLag, ClientPolls, srv \notin Stopped
    PROVE  clientClock < (faults + 1) * Second
<1>1. /\ faults \in Nat /\ clientClock \in Nat /\ serverClock \in Nat /\ serverClock <= Second
      /\ lag \in Nat /\ lag < Second /\ Second \in Nat
    BY TimeAssumption DEF TypeOK, ClockInv, ShortLag
<1> DEFINE paid == faults * Second
           before == (faults - 1) * Second
<1>2. /\ paid \in Nat /\ (faults + 1) * Second = paid + Second
      /\ faults >= 1 => before \in Nat /\ paid = before + Second
    BY <1>1, Seconds, SecondsAdd
<1>3. \/ faults >= 1 /\ clientClock <= before + serverClock + lag
      \/ clientClock <= paid + lag
      \/ clientClock <= lag
    BY DEF WaitingInv
<1> HIDE DEF paid, before
<1>4. clientClock < paid + Second
    BY <1>1, <1>2, <1>3
<1> QED BY <1>2, <1>4

\* The ten times one second of the child and the once ten seconds of rcopy
\* cannot overtake each other: if rcopy's poll is at least as long as all the
\* polls of the child, a transfer in which rcopy gives up before the child has
\* lost as many packets as the child has attempts.  The queues must hold a
\* window of packets, because a packet the kernel drops is not counted, and the
\* buffer size must be at most the window size: while a child spins, rcopy gives
\* up although nothing was lost.
THEOREM GivesUpAfterChildAlways ==
    ASSUME FitsRing, RoomForWindow, ShortLag, MaxAttempts <= ClientSeconds
    PROVE  TimedSpec => GivesUpAfterChild
<1>1. ASSUME TypeOK, ClockInv, WaitingInv, [TimedNext]_timedVars
      PROVE  [rcv' = "ABORTED" => srv \in Stopped \/ faults >= MaxAttempts]_rcv
    <2> SUFFICES ASSUME rcv' = "ABORTED", rcv' # rcv, srv \notin Stopped
                 PROVE  faults >= MaxAttempts
        OBVIOUS
    <2>1. TimedClient
        BY <1>1, TimedStep DEF TimedServer, Tick, timedVars, vars, rcopyVars
    <2>2. ~ClientStep
        BY DEF ClientStep, handle_inorder, handle_buffer, handle_flush, DropCorrupted, ExitTransfer,
            WriteInorder, GapFound, FillGap, StoreEarly, AckAgain, FlushEntry, FlushEnd,
            Accepted, Received, rcopyVars, Receiving
    <2>3. ClientPolls /\ clientClock = ClientSeconds * Second
        BY <2>1, <2>2 DEF TimedClient, ClientTimeout, ClientPolls, ClientPollTime
    <2>4. clientClock < (faults + 1) * Second
        BY <1>1, <2>3, WaitsForLosses
    <2>5. faults \in Nat /\ ClientSeconds \in Nat /\ MaxAttempts \in Nat
        BY <1>1, TimeAssumption, ServerAssumption DEF TypeOK
    <2>6. ~(faults < ClientSeconds)
        <3> SUFFICES ASSUME faults < ClientSeconds
                     PROVE  FALSE
            OBVIOUS
        <3>1. (faults + 1) * Second <= ClientSeconds * Second
            BY <2>5, SecondsAdd
        <3>2. (faults + 1) * Second \in Nat /\ ClientSeconds * Second \in Nat
            BY <2>5, Seconds
        <3> DEFINE x == (faults + 1) * Second
                   y == ClientSeconds * Second
        <3> HIDE DEF x, y
        <3> QED BY <2>3, <2>4, <3>1, <3>2 DEF x, y
    <2> QED BY <2>5, <2>6
<1> QED BY <1>1, TimedTypes, Clocks, WaitingAlways, PTL DEF TimedSpec, GivesUpAfterChild

------------------------------------------------------------------------------
(***************************************************************************)
(* How a session comes to such a transfer: before rcopy receives, the      *)
(* first packet in its queue is the answer to its request.                 *)
(***************************************************************************)

\* Behind the answer is all that the child has sent, which is at most its first
\* window.
BehindAnswer ==
    /\ rcv = "INORDER" /\ buffer.current = 0
    /\ toClient # <<>> /\ toServer = <<>>
    /\ window.lowest = 0 /\ window.highest = BufferSize
    /\ window.current = filePos /\ window.current <= BufferSize
    /\ \A i \in 2..Len(toClient) : LET p == toClient[i] IN
          /\ p # Corrupted
          /\ p.seq = SeqOf(i - 2)
          /\ p.seq = NumChunks => p.flag = FLAG_EOF
    /\ IF srv \in EofStates
       THEN /\ window.current = NumChunks
            /\ NumChunks <= Len(toClient) - 1
            /\ UnderWay - 1 \in 1..BufferSize
       ELSE window.current = Len(toClient) - 1

\* One more packet behind the answer.
LEMMA BehindAnswerAppend ==
    ASSUME TypeOK, BehindAnswer, NEW p,
           p # Corrupted,
           p.seq = SeqOf(Len(toClient) - 1),
           p.seq = NumChunks => p.flag = FLAG_EOF,
           toClient' = Append(toClient, p)
    PROVE  /\ Len(toClient') = Len(toClient) + 1 /\ toClient' # <<>>
           /\ \A i \in 2..Len(toClient') : LET m == toClient'[i] IN
                 /\ m # Corrupted
                 /\ m.seq = SeqOf(i - 2)
                 /\ m.seq = NumChunks => m.flag = FLAG_EOF
<1>1. /\ Len(toClient') = Len(toClient) + 1 /\ Len(toClient) \in Nat
      /\ toClient'[Len(toClient) + 1] = p
      /\ \A i \in 1..Len(toClient) : toClient'[i] = toClient[i]
      /\ toClient' # <<>>
    BY Lengths
<1>2. ASSUME NEW i \in 2..Len(toClient')
      PROVE  LET m == toClient'[i] IN
                 /\ m # Corrupted
                 /\ m.seq = SeqOf(i - 2)
                 /\ m.seq = NumChunks => m.flag = FLAG_EOF
    <2>1. CASE i \in 2..Len(toClient)
        <3>1. toClient'[i] = toClient[i]
            BY <1>1, <2>1
        <3> QED BY <2>1, <3>1 DEF BehindAnswer
    <2>2. CASE i = Len(toClient) + 1
        <3>1. i - 2 = Len(toClient) - 1
            BY <1>1, <2>2
        <3> QED BY <1>1, <2>2, <3>1
    <2> QED BY <1>1, <2>1, <2>2
<1> QED BY <1>1, <1>2

\* The child goes on to send what it has, and has no reason to stop.
LEMMA BehindAnswerStep ==
    ASSUME TypeOK, BehindAnswer, BufferSize < QueueCap, faults = 0, faults' = 0,
           ServerStep, UNCHANGED rcopyVars
    PROVE  BehindAnswer' /\ srv' \notin Stopped
<1>1. /\ UNCHANGED <<buffer, rcv>>
      /\ Len(toClient) \in Nat /\ Len(toClient) >= 1 /\ Len(toServer) = 0
      /\ BufferSize \in Nat /\ NumChunks \in Nat /\ QueueCap \in Nat /\ filePos \in 0..NumChunks
      /\ window.current \in Nat
    BY Edges, Lengths DEF rcopyVars, BehindAnswer
<1>2. ASSUME NEW next, NEW onEof, process_rr_srej_eof(next, onEof)
      PROVE  FALSE
    BY <1>2 DEF process_rr_srej_eof, BehindAnswer
<1>3. ~(DrainRecv \/ FullRecv \/ EofRecv)
    BY <1>2 DEF DrainRecv, FullRecv, EofRecv
<1>4. CASE SendData
    <2> DEFINE s == window.current
               w == buffer_add(window, s, filePos)
               p == build_packet(s, FLAG_DATA, Entry(w, s).data)
    <2>1. /\ SendToClient(p) /\ window' = [w EXCEPT !.current = s + 1]
          /\ filePos' = filePos + 1 /\ filePos < NumChunks /\ s < window.highest
          /\ srv = "SEND_DATA" /\ srv' = "DRAIN" /\ toServer' = toServer
        BY <1>4 DEF SendData
    <2>2. w \in CircularBuffer /\ w.lowest = window.lowest /\ w.highest = window.highest
        <3>1. filePos \in Payload
            BY Edges DEF Payload
        <3>2. window \in CircularBuffer /\ s \in Nat
            BY Edges
        <3> QED BY <3>1, <3>2, BufferAdd
    <2>3. p.seq = s /\ p.flag = FLAG_DATA /\ p # Corrupted
        BY DEF build_packet, Corrupted, FLAG_DATA
    <2> HIDE DEF w, p
    <2>4. /\ window'.current = s + 1 /\ window'.lowest = window.lowest
          /\ window'.highest = window.highest
        BY <2>1, <2>2, Edges DEF CircularBuffer
    <2>5. s = Len(toClient) - 1 /\ s < NumChunks /\ s < BufferSize
        BY <2>1 DEF BehindAnswer, EofStates
    <2>6. toClient' = Append(toClient, p)
        <3>1. Len(toClient) < QueueCap
            BY <1>1, <2>5
        <3> QED BY <2>1, <3>1, SendToClientCost, Delivered, Edges, Lengths
    <2>7. /\ Len(toClient') = Len(toClient) + 1 /\ toClient' # <<>>
          /\ \A i \in 2..Len(toClient') : LET m == toClient'[i] IN
                /\ m # Corrupted
                /\ m.seq = SeqOf(i - 2)
                /\ m.seq = NumChunks => m.flag = FLAG_EOF
        <3>1. p.seq = SeqOf(Len(toClient) - 1)
            BY <2>3, <2>5 DEF SeqOf
        <3>2. p.seq # NumChunks
            BY <1>1, <2>3, <2>5
        <3> QED BY <2>3, <2>6, <3>1, <3>2, BehindAnswerAppend
    <2>8. srv' \notin EofStates \cup Stopped
        BY <2>1 DEF EofStates, Stopped
    <2>9. window'.current = Len(toClient') - 1 /\ window'.current <= BufferSize
        BY <1>1, <2>4, <2>5, <2>7
    <2> QED BY <1>1, <2>1, <2>4, <2>7, <2>8, <2>9 DEF BehindAnswer
<1>5. CASE ReadEof
    <2>1. /\ UNCHANGED <<window, filePos, toClient, toServer>>
          /\ window.current < window.highest /\ filePos = NumChunks
          /\ srv = "SEND_DATA" /\ srv' = "WAIT_EOF_ACK"
        BY <1>5 DEF ReadEof, netVars
    <2>2. window.current = Len(toClient) - 1 /\ window.current < BufferSize
        BY <2>1 DEF BehindAnswer, EofStates
    <2>3. UnderWay' = Len(toClient) + 1
        BY <1>1, <2>1 DEF UnderWay
    <2>4. UnderWay' - 1 \in 1..BufferSize
        BY <1>1, <2>2, <2>3
    <2> QED BY <1>1, <2>1, <2>2, <2>4 DEF BehindAnswer, EofStates, Stopped
<1>6. CASE WindowClosed \/ DrainDone \/ FullDone
    <2>1. /\ UNCHANGED <<window, filePos, toClient, toServer>>
          /\ srv \notin EofStates /\ srv' \notin EofStates \cup Stopped
        BY <1>6 DEF WindowClosed, DrainDone, FullDone, netVars, EofStates, Stopped
    <2> QED BY <1>1, <2>1 DEF BehindAnswer
<1>7. CASE SendEof
    <2> DEFINE p == build_packet(window.current, FLAG_EOF, NoData)
    <2>1. /\ SendToClient(p) /\ srv = "WAIT_EOF_ACK" /\ srv' = "EOF_POLL"
          /\ UNCHANGED <<window, filePos, toServer>>
        BY <1>7 DEF SendEof
    <2>2. p.seq = window.current /\ p.flag = FLAG_EOF /\ p # Corrupted
        BY DEF build_packet, Corrupted, FLAG_EOF
    <2> HIDE DEF p
    <2>3. window.current = NumChunks /\ NumChunks <= Len(toClient) - 1
        BY <2>1 DEF BehindAnswer, EofStates
    <2>4. UnderWay = Len(toClient) + 1 /\ UnderWay - 1 \in 1..BufferSize
        BY <1>1, <2>1 DEF BehindAnswer, EofStates, UnderWay
    <2>5. Len(toClient) <= BufferSize
        BY <1>1, <2>4
    <2>6. toClient' = Append(toClient, p)
        <3>1. Len(toClient) < QueueCap
            BY <1>1, <2>5
        <3> QED BY <2>1, <3>1, SendToClientCost, Delivered, Edges, Lengths
    <2>7. /\ Len(toClient') = Len(toClient) + 1 /\ toClient' # <<>>
          /\ \A i \in 2..Len(toClient') : LET m == toClient'[i] IN
                /\ m # Corrupted
                /\ m.seq = SeqOf(i - 2)
                /\ m.seq = NumChunks => m.flag = FLAG_EOF
        <3>1. p.seq = SeqOf(Len(toClient) - 1)
            BY <1>1, <2>2, <2>3 DEF SeqOf
        <3> QED BY <2>2, <2>6, <3>1, BehindAnswerAppend
    <2>8. UnderWay' = UnderWay
        BY <1>1, <2>1, <2>4, <2>7 DEF UnderWay
    <2>9. NumChunks <= Len(toClient') - 1
        BY <1>1, <2>3, <2>7
    <2> QED BY <1>1, <2>1, <2>3, <2>4, <2>7, <2>8, <2>9 DEF BehindAnswer, EofStates, Stopped
<1> QED BY <1>3, <1>4, <1>5, <1>6, <1>7 DEF ServerStep

\* When rcopy has read the answer, the transfer is one without a loss.
LEMMA AnswerTaken ==
    ASSUME TypeOK, BehindAnswer, BufferSize < QueueCap,
           toClient' = Tail(toClient), serverClock' <= lag',
           UNCHANGED <<window, filePos, srv, buffer, rcv, toServer>>
    PROVE  NoLoss'
<1>1. /\ Len(toClient) \in Nat /\ Len(toClient) >= 1 /\ Len(toServer) = 0
      /\ BufferSize \in Nat \ {0} /\ NumChunks \in Nat /\ QueueCap \in Nat
      /\ window.current \in Nat
    BY Edges, Lengths DEF BehindAnswer
<1>2. /\ Len(toClient') = Len(toClient) - 1
      /\ \A i \in 1..Len(toClient') : i + 1 \in 1..Len(toClient) /\ toClient'[i] = toClient[i + 1]
    BY HeadAndTail, Lengths DEF BehindAnswer
<1>3. InSequence'
    <2> SUFFICES ASSUME NEW i \in 1..Len(toClient')
                 PROVE  LET m == toClient'[i] IN
                            /\ m # Corrupted
                            /\ m.seq = SeqOf(buffer'.current + (i - 1))
                            /\ m.seq = NumChunks => m.flag = FLAG_EOF
        BY DEF InSequence
    <2>1. i + 1 \in 2..Len(toClient) /\ toClient'[i] = toClient[i + 1]
        BY <1>1, <1>2
    <2>2. buffer'.current + (i - 1) = i + 1 - 2
        BY DEF BehindAnswer
    <2> QED BY <2>1, <2>2 DEF BehindAnswer
<1>4. Acknowledged'
    <2>1. toServer' = <<>> /\ buffer'.current = 0 /\ window'.lowest = 0
        BY DEF BehindAnswer
    <2> QED BY <1>1, <2>1 DEF Acknowledged
<1>5. Conserved'
    <2>1. UnderWay' = UnderWay - 1
        <3>1. srv' = srv /\ Len(toServer') = 0
            BY <1>1
        <3>2. PICK k \in {0, 1} : k = IF srv = "WAIT_EOF_ACK" THEN 1 ELSE 0
            OBVIOUS
        <3>3. UnderWay = Len(toClient) + 0 + k /\ UnderWay' = Len(toClient') + 0 + k
            BY <1>1, <3>1, <3>2 DEF UnderWay
        <3> QED BY <1>1, <1>2, <3>3
    <2>2. UnderWay - 1 \in 1..BufferSize => UnderWay' \in 1..QueueCap
        BY <1>1, <2>1
    <2>3. buffer'.current + Len(toClient') = Len(toClient) - 1
        BY <1>1, <1>2 DEF BehindAnswer
    <2> QED BY <2>2, <2>3 DEF BehindAnswer, Conserved
<1>6. /\ window'.lowest < window'.highest
      /\ window'.highest <= window'.lowest + QueueCap
      /\ window'.current <= window'.lowest + QueueCap
      /\ buffer'.current <= NumChunks + 1
    BY <1>1 DEF BehindAnswer
<1> QED BY <1>3, <1>4, <1>5, <1>6 DEF BehindAnswer, NoLoss

------------------------------------------------------------------------------
(***************************************************************************)
(* Why an attempt of the child costs a loss.                               *)
(***************************************************************************)
\* rcopy only adds to the child's queue.
LEMMA AnswersStay ==
    ASSUME TypeOK, AClientNext
    PROVE  InFlight(toServer) \subseteq InFlight(toServer') /\ (toServer' = <<>> => toServer = <<>>)
<1>1. ASSUME NEW S, NEW q \in Seq(S), NEW fate, NEW p
      PROVE  /\ InFlight(q) \subseteq InFlight(Put(q, fate, p))
             /\ Put(q, fate, p) = <<>> => q = <<>>
             /\ \E T : Put(q, fate, p) \in Seq(T)
    <2>1. ASSUME NEW r
          PROVE  /\ InFlight(q) \subseteq InFlight(Append(q, r))
                 /\ Append(q, r) # <<>>
                 /\ Append(q, r) \in Seq(S \cup {r})
        <3>1. q \in Seq(S \cup {r})
            OBVIOUS
        <3> QED BY <3>1, Appended DEF InFlight
    <2>2. Put(q, fate, p) = q \/ \E r : Put(q, fate, p) = Append(q, r)
        BY PutCases
    <2>3. CASE Put(q, fate, p) = q
        BY <2>3
    <2>4. ASSUME NEW r, Put(q, fate, p) = Append(q, r)
          PROVE  /\ InFlight(q) \subseteq InFlight(Put(q, fate, p))
                 /\ Put(q, fate, p) = <<>> => q = <<>>
                 /\ \E T : Put(q, fate, p) \in Seq(T)
        BY <2>1, <2>4
    <2> QED BY <2>2, <2>3, <2>4
<1>2. toServer \in Seq(ServerBound)
    BY DEF TypeOK
<1>3. ASSUME NEW p, SendToServer(p)
      PROVE  InFlight(toServer) \subseteq InFlight(toServer') /\ (toServer' = <<>> => toServer = <<>>)
    BY <1>1, <1>2, <1>3 DEF SendToServer
<1>4. ASSUME NEW p, NEW q, SendTwoToServer(p, q)
      PROVE  InFlight(toServer) \subseteq InFlight(toServer') /\ (toServer' = <<>> => toServer = <<>>)
    <2>1. PICK f, g \in Fates(ClientErrors) : toServer' = Put(Put(toServer, f, p), g, q)
        BY <1>4 DEF SendTwoToServer
    <2> DEFINE r == Put(toServer, f, p)
    <2>2. /\ InFlight(toServer) \subseteq InFlight(r)
          /\ r = <<>> => toServer = <<>>
          /\ \E T : r \in Seq(T)
        BY <1>1, <1>2
    <2> HIDE DEF r
    <2>3. InFlight(r) \subseteq InFlight(Put(r, g, q)) /\ (Put(r, g, q) = <<>> => r = <<>>)
        BY <1>1, <2>2
    <2> QED BY <2>1, <2>2, <2>3 DEF r
<1> QED BY <1>3, <1>4 DEF AClientNext, ClientNext, ClientStep, ClientTimeout, handle_inorder,
        handle_buffer, handle_flush, DropCorrupted, ExitTransfer, WriteInorder, GapFound, FillGap,
        StoreEarly, AckAgain, FlushEntry, FlushEnd, netVars

\* While rcopy has something to do no poll of the child ends.
LEMMA BusyNext ==
    ASSUME TypeOK, ClockInv, BusyInv, [TimedNext]_timedVars
    PROVE  BusyInv'
<1>1. serverClock \in Nat /\ lag \in Nat
    BY TimeAssumption DEF ClockInv
<1> SUFFICES ASSUME ServerPolls', rcv' \notin Gone, ~ClientPolls'
             PROVE  serverClock' <= lag'
    BY DEF BusyInv
<1>2. CASE AServerNext /\ TimedServer
    BY <1>1, <1>2 DEF TimedServer
<1>3. CASE AClientNext /\ TimedClient
    <2>1. UNCHANGED <<serverClock, lag, window, srv>>
        BY <1>3 DEF TimedClient, serverVars
    <2>2. toServer = <<>>
        BY <1>3, AnswersStay DEF ServerPolls, AClientNext
    <2>3. rcv \notin Gone /\ ~ClientPolls
        BY <1>3 DEF AClientNext, ClientNext, ClientStep, ClientTimeout, handle_inorder, handle_buffer,
            handle_flush, DropCorrupted, ExitTransfer, WriteInorder, GapFound, FillGap, StoreEarly,
            AckAgain, FlushEntry, FlushEnd, Accepted, Received, Receiving, Gone, ClientPolls
    <2> QED BY <2>1, <2>2, <2>3 DEF BusyInv, ServerPolls, WindowFull
<1>4. CASE Tick
    <2>1. /\ UNCHANGED vars
          /\ (NothingDue /\ lag' = lag) \/ (~NothingDue /\ lag' = lag + 1)
          /\ serverClock' = IF ServerPolls THEN serverClock + 1 ELSE 0
        BY <1>4 DEF Tick
    <2>2. UNCHANGED <<window, srv, rcv, toClient, toServer>>
        BY <2>1 DEF vars, serverVars, rcopyVars, netVars
    <2>3. ServerPolls /\ rcv \notin Gone /\ ~ClientPolls /\ ~NothingDue
        BY <2>2 DEF ServerPolls, ClientPolls, WindowFull, NothingDue
    <2> QED BY <1>1, <2>1, <2>3 DEF BusyInv
<1>5. CASE UNCHANGED timedVars
    BY <1>5 DEF timedVars, timeVars, vars, serverVars, rcopyVars, netVars, BusyInv, ServerPolls,
        ClientPolls, WindowFull
<1> QED BY <1>2, <1>3, <1>4, <1>5, TimedStep
LEMMA EofAnsweredNext ==
    ASSUME TypeOK, EofAnswered, [TimedNext]_timedVars
    PROVE  EofAnswered'
<1>1. toServer \in Seq(ServerBound) /\ faults \in Nat
    BY DEF TypeOK
<1>2. CASE AServerNext /\ TimedServer
    <2>1. rcv' = rcv /\ (toServer' = toServer \/ (toServer # <<>> /\ toServer' = Tail(toServer)))
        BY <1>2 DEF AServerNext, ServerNext, ServerStep, ServerTimeout, SendData, ReadEof,
            WindowClosed, DrainRecv, DrainDone, FullRecv, FullDone, SendEof, EofRecv, FullTimeout,
            EofTimeout, process_rr_srej_eof, rcopyVars, netVars
    <2>2. InFlight(toServer') \subseteq InFlight(toServer)
        BY <1>1, <2>1, InFlightTail
    <2> QED BY <2>1, <2>2 DEF EofAnswered
<1>3. CASE AClientNext /\ TimedClient
    <2>1. rcv \in Gone => rcv' \in Gone /\ UNCHANGED toServer
        BY <1>3 DEF AClientNext, ClientNext, ClientStep, ClientTimeout, handle_inorder,
            handle_buffer, handle_flush, DropCorrupted, ExitTransfer, WriteInorder, GapFound,
            FillGap, StoreEarly, AckAgain, FlushEntry, FlushEnd, Accepted, Received, Receiving, Gone
    <2>2. ASSUME NEW p \in ServerBound, p.flag # FLAG_EOF, SendToServer(p)
          PROVE  \A m \in InFlight(toServer') : m.flag = FLAG_EOF => m \in InFlight(toServer)
        <3>1. InFlight(toServer') \subseteq InFlight(toServer) \cup {p, Corrupted}
            BY <1>1, <2>2, SendToServerAdds DEF ServerBound
        <3>2. Corrupted.flag # FLAG_EOF
            BY DEF Corrupted, build_packet, FLAG_EOF
        <3> QED BY <2>2, <3>1, <3>2
    <2>3. ASSUME NEW n \in Nat
          PROVE  /\ RR(n) \in ServerBound /\ RR(n).flag # FLAG_EOF
                 /\ SREJ(n) \in ServerBound /\ SREJ(n).flag # FLAG_EOF
        BY AckType DEF RR, SREJ, build_packet, FLAG_RR, FLAG_SREJ, FLAG_EOF
    <2>4. buffer \in CircularBuffer /\ buffer.current \in Nat /\ buffer.current + 1 \in Nat
        BY Numbers
    <2> DEFINE Kept == \A m \in InFlight(toServer') : m.flag = FLAG_EOF => m \in InFlight(toServer)
    <2>5. ASSUME UNCHANGED toServer
          PROVE  Kept
        BY <2>5
    <2>6. ASSUME NEW n \in Nat, SendToServer(RR(n)) \/ SendToServer(SREJ(n))
          PROVE  Kept
        BY <2>2, <2>3, <2>6
    <2>7. ASSUME SendTwoToServer(SREJ(buffer.current), RR(buffer.current))
          PROVE  Kept
        <3> DEFINE s == SREJ(buffer.current)
                   r == RR(buffer.current)
        <3>1. /\ r \in ServerBound /\ r.flag # FLAG_EOF
              /\ s \in ServerBound /\ s.flag # FLAG_EOF
            BY <2>3, <2>4
        <3>4. SendTwoToServer(s, r) /\ Corrupted \in ServerBound
            BY <2>7 DEF ServerBound
        <3> HIDE DEF s, r
        <3>2. InFlight(toServer') \subseteq InFlight(toServer) \cup {s, r, Corrupted}
            BY <1>1, <3>1, <3>4, SendTwoToServerAdds
        <3>3. Corrupted.flag # FLAG_EOF
            BY DEF Corrupted, build_packet, FLAG_EOF
        <3> QED BY <3>1, <3>2, <3>3
    <2> HIDE DEF Kept
    <2>8. CASE \E s : ExitTransfer(s)
        BY <2>8 DEF ExitTransfer, Gone, EofAnswered
    <2>9. CASE WriteInorder \/ FlushEntry
        <3>1. SendToServer(RR(buffer.current + 1))
            BY <2>4, <2>9, NextExpected, FlushedEntry DEF WriteInorder, FlushEntry
        <3> QED BY <2>1, <2>4, <2>6, <3>1 DEF Kept, EofAnswered
    <2>10. CASE GapFound \/ (\E s : AckAgain(s))
        <3>1. Kept
            BY <2>4, <2>6, <2>10 DEF GapFound, AckAgain
        <3> QED BY <2>1, <3>1 DEF Kept, EofAnswered
    <2>11. CASE FlushEnd
        <3>1. Kept
            BY <2>5, <2>7, <2>11 DEF FlushEnd
        <3> QED BY <2>1, <3>1 DEF Kept, EofAnswered
    <2>12. CASE FillGap \/ StoreEarly \/ (\E s : DropCorrupted(s)) \/ ClientTimeout
        <3>1. Kept
            BY <2>5, <2>12 DEF FillGap, StoreEarly, DropCorrupted, ClientTimeout, netVars
        <3> QED BY <2>1, <3>1 DEF Kept, EofAnswered
    <2> QED BY <1>3, <2>8, <2>9, <2>10, <2>11, <2>12 DEF AClientNext, ClientNext, ClientStep,
            handle_inorder, handle_buffer, handle_flush
<1>4. CASE Tick \/ UNCHANGED timedVars
    BY <1>4 DEF Tick, timedVars, vars, rcopyVars, netVars, EofAnswered
<1> QED BY <1>2, <1>3, <1>4, TimedStep

LEMMA HighestNext ==
    ASSUME TypeOK, TypeOK', HeldInv, HighestHeld, [TimedNext]_timedVars
    PROVE  HighestHeld'
<1> DEFINE c == buffer.current
           h == buffer.highest
<1>1. /\ buffer \in CircularBuffer /\ c \in Nat /\ h \in Nat /\ WindowSize \in Nat \ {0}
      /\ buffer.entries \in [Slots -> BufferEntry]
      /\ Slot(h) \in Slots /\ Slot(c) \in Slots
    BY Numbers, SlotInRange
<1>2. ASSUME UNCHANGED rcopyVars \/ (UNCHANGED buffer /\ rcv' \in Gone)
      PROVE  HighestHeld'
    BY <1>2 DEF HighestHeld, rcopyVars, Gone, Entry
<1>3. ASSUME rcv' = "BUFFER",
             NEW p, p.seq \in Nat, p.data \in Payload, p.seq > c, buffer' = Stored(buffer, p)
      PROVE  HighestHeld'
    <2> DEFINE e == [valid_flag |-> TRUE, sequence_num |-> p.seq, data |-> p.data]
    <2>1. /\ buffer'.highest = p.seq /\ buffer'.current = c
          /\ buffer'.entries = [buffer.entries EXCEPT ![Slot(p.seq)] = e]
        BY <1>1, <1>3, StoredBuffer
    <2>2. buffer'.entries[Slot(p.seq)] = e
        BY <1>1, <1>3, <2>1, SlotInRange
    <2> QED BY <1>3, <2>1, <2>2 DEF HighestHeld, Entry
<1>4. CASE GapFound \/ StoreEarly
    <2>1. PICK p \in ClientBound : p.seq > c /\ buffer' = Stored(buffer, p)
        BY <1>4, HeadAndTail, Numbers DEF GapFound, StoreEarly, Accepted, Received
    <2>2. p.seq \in Nat /\ p.data \in Payload /\ rcv' = "BUFFER"
        BY <1>4, ClientPacket DEF GapFound, StoreEarly, Accepted, Received
    <2> QED BY <1>3, <2>1, <2>2
<1>5. CASE WriteInorder
    BY <1>5 DEF WriteInorder, Accepted, Received, HighestHeld
<1>6. CASE FillGap
    <2>1. /\ rcv = "BUFFER" /\ rcv' = "FLUSH" /\ buffer'.highest = h
          /\ buffer'.entries = buffer.entries
        BY <1>1, <1>6, NextExpected DEF FillGap, Accepted, Received
    <2> QED BY <1>1, <2>1 DEF HighestHeld, Entry
<1>7. CASE FlushEntry
    <2>1. /\ rcv = "FLUSH" /\ rcv' = "FLUSH"
          /\ buffer'.current = c + 1 /\ buffer'.highest = h
          /\ buffer'.entries = [buffer.entries EXCEPT ![Slot(c)] =
                                    [Entry(buffer, c) EXCEPT !.valid_flag = FALSE]]
        BY <1>1, <1>7, FlushedEntry DEF FlushEntry
    <2> SUFFICES ASSUME h >= c + 1
                 PROVE  Entry(buffer', h).valid_flag /\ Entry(buffer', h).sequence_num = h
        BY <2>1 DEF HighestHeld
    <2>2. Entry(buffer, h).valid_flag /\ Entry(buffer, h).sequence_num = h
        BY <1>1, <2>1 DEF HighestHeld
    <2>3. h < c + WindowSize
        BY <1>1, <2>1, <2>2 DEF HeldInv, Entry
    <2>4. Slot(c) # Slot(h)
        BY <1>1, <2>3, SlotInjective
    <2>5. buffer'.entries[Slot(h)] = buffer.entries[Slot(h)]
        BY <1>1, <2>1, <2>4
    <2> QED BY <2>2, <2>5 DEF Entry
<1>8. CASE FlushEnd
    BY <1>1, <1>8 DEF FlushEnd, HighestHeld, NothingMissing, Entry
<1>9. CASE \/ AServerNext \/ Tick \/ UNCHANGED timedVars
           \/ (\E s : DropCorrupted(s) \/ AckAgain(s) \/ ExitTransfer(s)) \/ ClientTimeout
    BY <1>2, <1>9 DEF AServerNext, Tick, timedVars, vars, rcopyVars, DropCorrupted, AckAgain,
        ExitTransfer, ClientTimeout, Gone
<1> QED BY <1>4, <1>5, <1>6, <1>7, <1>8, <1>9, TimedStep DEF AClientNext, ClientNext, ClientStep,
        handle_inorder, handle_buffer, handle_flush
------------------------------------------------------------------------------
\* One packet sent to a process whose queue is empty.
LEMMA OnePacket ==
    ASSUME TypeOK, toClient = <<>>, NEW p, SendToClient(p)
    PROVE  \/ faults' = faults /\ Len(toClient') = 1 /\ toClient'[1] = p
           \/ /\ faults' = faults + 1 /\ Len(toClient') \in Nat /\ Len(toClient') <= 1
              /\ \A i \in 1..Len(toClient') : toClient'[i] = Corrupted
<1>1. PICK fate \in Fates(ServerErrors) :
        faults' = faults + Cost(fate) /\ toClient' = Put(toClient, fate, p)
    BY DEF SendToClient
<1>2. faults \in Nat /\ ~(Len(toClient) >= QueueCap)
    BY NetworkAssumption DEF TypeOK
<1>3. CASE fate = "sent"
    <2>1. faults' = faults /\ toClient' = Append(toClient, p)
        BY <1>1, <1>2, <1>3 DEF Cost, Put
    <2>2. toClient' = <<p>>
        BY <2>1
    <2> QED BY <2>1, <2>2
<1>4. CASE fate = "flip"
    <2>1. faults' = faults + 1 /\ toClient' = Append(toClient, Corrupted)
        BY <1>1, <1>2, <1>4 DEF Cost, Put
    <2>2. toClient' = <<Corrupted>>
        BY <2>1
    <2> QED BY <2>1, <2>2
<1>5. CASE fate = "drop"
    <2>1. faults' = faults + 1 /\ toClient' = <<>>
        BY <1>1, <1>2, <1>5 DEF Cost, Put
    <2> QED BY <2>1
<1> QED BY <1>1, <1>3, <1>4, <1>5, NetworkAssumption DEF Fates

LEMMA OneAnswer ==
    ASSUME Sheltered, TypeOK, toServer = <<>>, NEW p, SendToServer(p)
    PROVE  \/ faults' = faults /\ toServer' = <<p>>
           \/ faults' = faults + 1 /\ toServer' = <<>>
<1>1. PICK fate \in Fates(ClientErrors) :
        faults' = faults + Cost(fate) /\ toServer' = Put(toServer, fate, p)
    BY DEF SendToServer
<1>2. faults \in Nat /\ ~(Len(toServer) >= QueueCap) /\ fate \in {"sent", "drop"}
    BY NetworkAssumption DEF TypeOK, Sheltered, Fates
<1>3. CASE fate = "sent"
    BY <1>1, <1>2, <1>3 DEF Cost, Put
<1>4. CASE fate = "drop"
    BY <1>1, <1>2, <1>4 DEF Cost, Put
<1> QED BY <1>2, <1>3, <1>4

LEMMA TwoAnswers ==
    ASSUME Sheltered, TypeOK, QueueCap >= 2, toServer = <<>>,
           NEW p, NEW q, SendTwoToServer(p, q)
    PROVE  \/ faults' >= faults /\ q \in InFlight(toServer')
           \/ faults' >= faults + 1 /\ Len(toServer') \in Nat /\ Len(toServer') <= 1
<1>1. PICK f, g \in Fates(ClientErrors) :
        /\ faults' = faults + Cost(f) + Cost(g)
        /\ toServer' = Put(Put(toServer, f, p), g, q)
    BY DEF SendTwoToServer
<1>2. /\ faults \in Nat /\ f \in {"sent", "drop"} /\ g \in {"sent", "drop"}
      /\ ~(Len(toServer) >= QueueCap) /\ QueueCap \in Nat
    BY NetworkAssumption DEF TypeOK, Sheltered, Fates
<1> DEFINE r == Put(toServer, f, p)
<1>3. r \in {<<>>, <<p>>}
    BY <1>2 DEF Put
<1> HIDE DEF r
<1>4. Len(r) <= 1 /\ Len(r) \in Nat /\ ~(Len(r) >= QueueCap)
    <2>1. Len(<<>>) = 0 /\ Len(<<p>>) = 1
        OBVIOUS
    <2>2. Len(r) \in {0, 1}
        BY <1>3, <2>1
    <2>3. \A n \in {0, 1} : n <= 1 /\ n \in Nat /\ ~(n >= QueueCap)
        BY <1>2
    <2> QED BY <2>2, <2>3
<1>5. CASE g = "sent"
    <2>1. toServer' = Append(r, q) /\ faults' >= faults
        BY <1>1, <1>2, <1>4, <1>5 DEF Put, Cost, r
    <2>2. q \in InFlight(toServer')
        <3>1. Len(toServer') = Len(r) + 1 /\ toServer'[Len(r) + 1] = q
            BY <1>3, <2>1
        <3> QED BY <1>4, <3>1 DEF InFlight
    <2> QED BY <2>1, <2>2
<1>6. CASE g = "drop"
    <2>1. toServer' = r /\ faults' >= faults + 1
        BY <1>1, <1>2, <1>6 DEF Put, Cost, r
    <2> QED BY <1>4, <2>1
<1> QED BY <1>2, <1>5, <1>6

\* What is true when a poll of the child is over.
LEMMA PollEnds ==
    ASSUME TypeOK, ClockInv, BusyInv, BothWaitForLoss, FullRetry, EofRetry, ShortLag,
           ServerPolls, serverClock = Second, srv \notin Stopped, rcv \notin Gone
    PROVE  /\ toClient = <<>> /\ toServer = <<>> /\ rcv \in Receiving
           /\ attempts + 1 <= faults \/ (srv = "EOF_POLL" /\ rcv = "BUFFER")
<1>1. ClientPolls
    BY TimeAssumption DEF BusyInv, ClockInv, ShortLag
<1>2. toClient = <<>> /\ toServer = <<>> /\ rcv \in Receiving
    BY <1>1 DEF ClientPolls, ServerPolls
<1>3. attempts \in Nat /\ faults \in Nat
    BY ServerAssumption DEF TypeOK, ServerTypeOK
<1>4. CASE attempts = 0
    BY <1>1, <1>2, <1>4 DEF BothWaitForLoss
<1>5. CASE attempts >= 1 /\ WindowFull
    BY <1>2, <1>5 DEF FullRetry, AnswerComes, AnswerDue, ResendComes, ResendLost, Opening, InFlight,
        Receiving
<1>6. CASE attempts >= 1 /\ srv = "EOF_POLL"
    BY <1>2, <1>6 DEF EofRetry, InGap, EofAnswerComes, EofComes, EofLost, EofStates
<1> QED BY <1>2, <1>3, <1>4, <1>5, <1>6 DEF ServerPolls
\* FullRetry and EofRetry without their conditions.
FullCases == AnswerComes \/ AnswerDue \/ ResendComes \/ ResendLost

EofCases == InGap \/ EofAnswerComes \/ EofComes \/ EofLost

\* The child sends the lowest packet again.
LEMMA FullTimeoutRetry ==
    ASSUME Sheltered, TypeOK, TypeOK', ShelteredInv, UNCHANGED rcopyVars, FullTimeout,
           toClient = <<>>, toServer = <<>>, rcv \in Receiving, attempts + 1 <= faults
    PROVE  \/ srv' = "DONE" /\ faults' >= MaxAttempts
           \/ srv' = "WINDOW_FULL" /\ FullCases'
<1>1. /\ attempts' = attempts + 1 /\ UNCHANGED <<window, filePos, toServer>> /\ UNCHANGED <<buffer, rcv>>
      /\ WindowFull
    BY DEF FullTimeout, rcopyVars
<1>2. attempts \in Nat /\ faults \in Nat /\ MaxAttempts \in Nat
    BY ServerAssumption DEF TypeOK, ServerTypeOK
<1>3. CASE srv' = "DONE" /\ attempts + 1 >= MaxAttempts /\ UNCHANGED faults
    BY <1>2, <1>3
<1>4. CASE resend_packet(window.lowest, FLAG_RESENT_TIMEOUT, "WINDOW_FULL")
    <2> DEFINE p == build_packet(window.lowest, FLAG_RESENT_TIMEOUT, window.lowest)
    <2>1. /\ window.lowest \in Nat /\ window.lowest < window.current /\ window.lowest <= buffer.current
          /\ RetainedForResend /\ window.lowest <= window.lowest
        BY <1>1, Numbers DEF ShelteredInv, WindowInv, AcksInv, WindowFull
    <2>2. Entry(window, window.lowest).data = window.lowest /\ window.lowest # Uninit
        BY <2>1, RetainedEntry
    <2>3. SendToClient(p) /\ srv' = "WINDOW_FULL"
        BY <1>4, <2>2 DEF resend_packet, PayloadOf
    <2>4. p.seq = window.lowest /\ p # Corrupted
        BY DEF build_packet, Corrupted, FLAG_RESENT_TIMEOUT
    <2> HIDE DEF p
    <2>5. Len(toServer') = 0 /\ rcv' \in Receiving /\ rcv' # "FLUSH"
        BY <1>1 DEF Receiving
    <2>6. CASE faults' = faults /\ Len(toClient') = 1 /\ toClient'[1] = p
        <3>1. ResendComes'
            BY <1>1, <2>1, <2>4, <2>5, <2>6 DEF ResendComes
        <3> QED BY <2>3, <3>1 DEF FullCases
    <2>7. CASE faults' = faults + 1 /\ Len(toClient') \in Nat /\ Len(toClient') <= 1
        <3>1. ResendLost'
            BY <1>1, <1>2, <2>5, <2>7 DEF ResendLost
        <3> QED BY <2>3, <3>1 DEF FullCases
    <2> QED BY <2>3, <2>6, <2>7, OnePacket
<1> QED BY <1>3, <1>4 DEF FullTimeout

\* The child reads an acknowledgment that leaves the window full.
LEMMA FullRecvRetry ==
    ASSUME Sheltered, TypeOK, TypeOK', ShelteredInv, EofAnswered, UNCHANGED rcopyVars, FullRecv,
           WindowFull', rcv \notin Gone, FullCases
    PROVE  FullCases'
<1> DEFINE p == Head(toServer)
<1>1. /\ process_rr_srej_eof("WINDOW_FULL", "WINDOW_FULL")
      /\ toServer # <<>> /\ toServer' = Tail(toServer) /\ UNCHANGED <<attempts, filePos>>
      /\ UNCHANGED <<buffer, rcv>> /\ WindowFull
    BY DEF FullRecv, process_rr_srej_eof, rcopyVars
<1>2. /\ p = toServer[1] /\ 1 \in 1..Len(toServer) /\ p \in ServerBound
      /\ Len(toServer) \in Nat /\ Len(toServer') = Len(toServer) - 1
      /\ \A i \in 1..Len(toServer) : i # 1 =>
             i - 1 \in 1..Len(toServer') /\ toServer'[i - 1] = toServer[i]
    <2>1. toServer \in Seq(ServerBound)
        BY Numbers
    <2> QED BY <1>1, <2>1, HeadAndTail
<1>3. /\ p # Corrupted
      /\ IsAck(p) => window.lowest <= p.data /\ p.data <= buffer.current /\ p.data \in Nat
    <2>1. p # Corrupted /\ (IsAck(p) => window.lowest <= p.data /\ p.data <= buffer.current)
        BY <1>2 DEF ShelteredInv, AcksInv
    <2>2. IsAck(p) => p.data \in Nat
        BY <1>2 DEF IsAck, ServerBound, build_packet, Corrupted, FLAG_RR, FLAG_SREJ, FLAG_EOF
    <2> QED BY <2>1, <2>2
<1>4. /\ attempts \in Nat /\ faults \in Nat /\ faults' \in Nat /\ faults' >= faults
      /\ Len(toClient) \in Nat /\ Len(toClient') \in Nat
    <2>1. AServerNext
        BY DEF AServerNext, ServerNext, ServerStep
    <2>2. toClient \in Seq(ClientBound) /\ toClient' \in Seq(ClientBound)
        BY DEF TypeOK
    <2> QED BY <2>1, <2>2, FaultsGrow, ServerAssumption DEF TypeOK, ServerTypeOK
<1>5. /\ window'.lowest = window.lowest
      /\ p.flag = FLAG_RR => p.data = window.lowest
      /\ Len(toClient') <= Len(toClient) + 1
    <2>1. CASE p.flag = FLAG_RR /\ window' = AdvanceWindow(window, p.data) /\ UNCHANGED toClient
        <3>1. p.data \in Nat /\ window.lowest <= p.data
            BY <1>3, <2>1 DEF IsAck
        <3>2. /\ window'.lowest = p.data /\ window'.highest = p.data + WindowSize
              /\ window'.current = window.current
            BY <2>1, <3>1, AdvanceType, Numbers
        <3>3. window.current = p.data + WindowSize
            BY <3>2 DEF WindowFull
        <3>4. window.current <= window.lowest + WindowSize
            BY DEF ShelteredInv, WindowInv, Paced
        <3>5. p.data = window.lowest
            BY <3>1, <3>3, <3>4, Numbers
        <3> QED BY <1>4, <2>1, <3>2, <3>5
    <2>2. CASE UNCHANGED window /\ p.flag # FLAG_RR
        <3>1. toClient' = toClient \/ \E m : toClient' = Append(toClient, m)
            BY ChildAppends DEF ServerNext, ServerStep
        <3>2. ASSUME NEW m, toClient' = Append(toClient, m)
              PROVE  Len(toClient') = Len(toClient) + 1
            <4>1. toClient \in Seq(ClientBound)
                BY DEF TypeOK
            <4> QED BY <3>2, <4>1
        <3> QED BY <1>4, <2>2, <3>1, <3>2
    <2> QED BY <1>1, <1>3, <2>1, <2>2 DEF process_rr_srej_eof, BadChecksum, FLAG_RR, FLAG_SREJ
<1>6. CASE AnswerComes
    <2>1. PICK i \in 1..Len(toServer) : toServer[i].flag = FLAG_RR /\ toServer[i].data > window.lowest
        BY <1>6 DEF AnswerComes, Opening, InFlight
    <2>2. i # 1
        BY <1>2, <1>5, <2>1, Numbers
    <2>3. Opening'
        BY <1>2, <1>5, <2>1, <2>2 DEF Opening, InFlight
    <2> QED BY <1>1, <1>4, <1>6, <2>3 DEF AnswerComes, FullCases
<1>7. CASE ResendLost
    <2>1. rcv # "FLUSH" /\ Len(toClient) = 0 /\ Len(toServer) = 1
        BY <1>2, <1>4, <1>7 DEF ResendLost
    <2>2. /\ rcv' # "FLUSH" /\ Len(toServer') = 0 /\ Len(toClient') <= 1
          /\ attempts' + 1 <= faults'
        <3>1. attempts + 1 <= faults
            BY <1>7 DEF ResendLost
        <3> QED BY <1>1, <1>2, <1>4, <1>5, <2>1, <3>1
    <2>3. ResendLost'
        BY <1>4, <2>2 DEF ResendLost
    <2> QED BY <2>3 DEF FullCases
<1> QED BY <1>1, <1>6, <1>7 DEF FullCases, AnswerDue, ResendComes
\* rcopy acknowledges more than the child knows of.
LEMMA OpeningSent ==
    ASSUME Sheltered, TypeOK, toServer = <<>>, UNCHANGED serverVars,
           NEW n \in Nat, n > window.lowest, SendToServer(RR(n))
    PROVE  \/ faults' = faults /\ Opening'
           \/ faults' = faults + 1 /\ toServer' = <<>>
<1> DEFINE p == RR(n)
<1>1. p.flag = FLAG_RR /\ p.data = n /\ window' = window
    BY DEF RR, build_packet, serverVars
<1>2. SendToServer(p)
    OBVIOUS
<1> HIDE DEF p
<1>3. CASE faults' = faults /\ toServer' = <<p>>
    <2>1. p \in InFlight(toServer')
        <3>1. Len(toServer') = 1 /\ toServer'[1] = p
            BY <1>3
        <3> QED BY <3>1 DEF InFlight
    <2> QED BY <1>1, <1>3, <2>1 DEF Opening
<1> QED BY <1>2, <1>3, OneAnswer

\* The packet at the head of a queue of one.
LEMMA OnlyPacket ==
    ASSUME TypeOK, Len(toClient) = 1
    PROVE  /\ toClient # <<>> /\ Head(toClient) = toClient[1] /\ Tail(toClient) = <<>>
           /\ toClient[1] \in ClientBound /\ toClient[1].seq \in Nat
<1>1. toClient \in Seq(ClientBound)
    BY DEF TypeOK
<1>2. toClient # <<>>
    BY <1>1
<1>3. Head(toClient) = toClient[1] /\ toClient[1] \in ClientBound /\ Tail(toClient) \in Seq(ClientBound)
      /\ Len(Tail(toClient)) = 0
    BY <1>1, <1>2, HeadAndTail
<1>4. Tail(toClient) = <<>>
    <2>1. \A t \in Seq(ClientBound) : Len(t) = 0 => t = <<>>
        OBVIOUS
    <2> QED BY <1>3, <2>1
<1> QED BY <1>2, <1>3, <1>4, ClientPacket

\* One turn of handle_flush with nothing in either queue.
LEMMA FlushRetry ==
    ASSUME Sheltered, TypeOK, TypeOK', QueueCap >= 2, UNCHANGED serverVars, handle_flush,
           toClient = <<>>, toServer = <<>>, rcv = "FLUSH", buffer.current > window.lowest,
           \/ attempts <= faults /\ FlushAnswers
           \/ attempts + 1 <= faults
    PROVE  FullCases'
<1>1. /\ UNCHANGED <<window, attempts>> /\ toClient' = <<>>
      /\ buffer \in CircularBuffer /\ buffer.current \in Nat /\ window.lowest \in Nat
      /\ attempts \in Nat /\ faults \in Nat /\ faults' \in Nat
      /\ attempts <= faults
    <2>1. attempts \in Nat /\ faults \in Nat /\ faults' \in Nat
        BY ServerAssumption DEF TypeOK, ServerTypeOK
    <2>2. UNCHANGED toClient
        BY DEF handle_flush, FlushEntry, FlushEnd
    <2> QED BY <2>1, <2>2, Numbers DEF serverVars
<1>2. Len(toClient') = 0
    BY <1>1
<1>3. CASE FlushEntry
    <2>1. /\ buffer'.current = buffer.current + 1 /\ rcv' = "FLUSH"
          /\ SendToServer(RR(buffer.current + 1))
        BY <1>1, <1>3, FlushedEntry DEF FlushEntry
    <2>2. buffer.current + 1 \in Nat /\ buffer.current + 1 > window.lowest
        BY <1>1
    <2>3. CASE faults' = faults /\ Opening'
        BY <1>1, <2>3 DEF AnswerComes, FullCases
    <2>4. CASE faults' = faults + 1 /\ toServer' = <<>>
        <3>1. Len(toServer') = 0
            BY <2>4
        <3>2. ResendLost'
            BY <1>1, <1>2, <2>1, <2>2, <2>4, <3>1 DEF ResendLost
        <3> QED BY <3>2 DEF FullCases
    <2> QED BY <2>1, <2>2, <2>3, <2>4, OpeningSent
<1>4. CASE FlushEnd /\ NothingMissing(buffer)
    <2>1. rcv' = "INORDER" /\ UNCHANGED <<toServer, faults>>
        BY <1>4 DEF FlushEnd
    <2>2. attempts + 1 <= faults
        BY <1>4 DEF FlushEnd, FlushAnswers
    <2>3. Len(toServer') = 0
        BY <2>1
    <2>4. ResendLost'
        BY <1>1, <1>2, <2>1, <2>2, <2>3 DEF ResendLost
    <2> QED BY <2>4 DEF FullCases
<1>5. CASE FlushEnd /\ ~NothingMissing(buffer)
    <2> DEFINE p == SREJ(buffer.current)
               q == RR(buffer.current)
    <2>1. rcv' = "BUFFER" /\ SendTwoToServer(p, q)
        BY <1>5 DEF FlushEnd
    <2>2. q.flag = FLAG_RR /\ q.data > window.lowest
        BY DEF RR, build_packet
    <2> HIDE DEF p, q
    <2>3. CASE faults' >= faults /\ q \in InFlight(toServer')
        <3>1. Opening'
            BY <1>1, <2>2, <2>3 DEF Opening
        <3> QED BY <1>1, <2>3, <3>1 DEF AnswerComes, FullCases
    <2>4. CASE faults' >= faults + 1 /\ Len(toServer') \in Nat /\ Len(toServer') <= 1
        <3>1. ResendLost'
            BY <1>1, <1>2, <2>1, <2>4 DEF ResendLost
        <3> QED BY <3>1 DEF FullCases
    <2> QED BY <2>1, <2>3, <2>4, TwoAnswers
<1> QED BY <1>3, <1>4, <1>5 DEF handle_flush

\* rcopy takes the packet sent again, which it must acknowledge.
LEMMA ResendTaken ==
    ASSUME Sheltered, TypeOK, TypeOK', HighestHeld, AClientNext, rcv' \notin Gone, ResendComes
    PROVE  FullCases'
<1> DEFINE p == Head(toClient)
           c == buffer.current
<1>1. /\ attempts <= faults /\ toServer = <<>> /\ Len(toClient) = 1 /\ rcv \in Receiving
      /\ p = toClient[1] /\ p # Corrupted /\ p.seq \in Nat
      /\ window.lowest <= p.seq /\ p.seq <= c
      /\ UNCHANGED serverVars
    BY OnlyPacket DEF ResendComes, AClientNext
<1>2. /\ toClient # <<>> /\ Tail(toClient) = <<>>
      /\ buffer \in CircularBuffer /\ c \in Nat /\ buffer.highest \in Nat /\ window.lowest \in Nat
      /\ attempts \in Nat /\ faults \in Nat /\ faults' \in Nat
      /\ UNCHANGED <<window, attempts>>
    <2>1. attempts \in Nat /\ faults \in Nat /\ faults' \in Nat
        BY ServerAssumption DEF TypeOK, ServerTypeOK
    <2> QED BY <1>1, <2>1, OnlyPacket, Numbers DEF serverVars
<1> HIDE DEF p
<1>3. ASSUME NEW n \in Nat, n > window.lowest, SendToServer(RR(n)), toClient' = <<>>, rcv' \in Receiving
      PROVE  FullCases'
    <2>1. CASE faults' = faults /\ Opening'
        BY <1>1, <1>2, <2>1 DEF AnswerComes, FullCases
    <2>2. CASE faults' = faults + 1 /\ toServer' = <<>>
        <3>1. Len(toServer') = 0 /\ Len(toClient') = 0 /\ rcv' # "FLUSH"
            BY <1>3, <2>2 DEF Receiving
        <3>2. ResendLost'
            BY <1>1, <1>2, <2>2, <3>1 DEF ResendLost
        <3> QED BY <3>2 DEF FullCases
    <2> QED BY <1>1, <1>3, <2>1, <2>2, OpeningSent
<1>4. CASE \E s : AckAgain(s)
    <2>1. p.seq < c /\ SendToServer(RR(c)) /\ toClient' = <<>> /\ rcv' = rcv
        BY <1>2, <1>4 DEF AckAgain, Accepted, Received, rcopyVars, p
    <2>2. c > window.lowest
        BY <1>1, <1>2, <2>1
    <2> QED BY <1>1, <1>2, <1>3, <2>1, <2>2
<1>5. CASE WriteInorder
    <2>1. SendToServer(RR(c + 1)) /\ toClient' = <<>> /\ rcv' = rcv /\ p.seq = c
        BY <1>2, <1>5, NextExpected DEF WriteInorder, Accepted, Received, p
    <2>2. c + 1 \in Nat /\ c + 1 > window.lowest
        BY <1>1, <1>2, <2>1
    <2> QED BY <1>1, <1>3, <2>1, <2>2
<1>6. CASE FillGap
    <2>1. /\ buffer'.current = c + 1 /\ buffer'.highest = buffer.highest
          /\ buffer'.entries = buffer.entries
          /\ rcv = "BUFFER" /\ rcv' = "FLUSH" /\ p.seq = c /\ toClient' = <<>>
          /\ UNCHANGED <<toServer, faults>>
        BY <1>2, <1>6, NextExpected DEF FillGap, Accepted, Received, p
    <2>2. buffer.highest > c /\ Entry(buffer, buffer.highest).valid_flag
        BY <1>2, <2>1 DEF HighestHeld
    <2>3. buffer'.current > window'.lowest
        BY <1>1, <1>2, <2>1
    <2>4. FlushAnswers'
        <3>1. CASE buffer.highest = c + 1
            BY <2>1, <2>2, <3>1 DEF FlushAnswers, Entry
        <3>2. CASE buffer.highest > c + 1
            BY <1>2, <2>1, <3>2 DEF FlushAnswers, NothingMissing
        <3> QED BY <1>2, <2>2, <3>1, <3>2
    <2> QED BY <1>1, <1>2, <2>1, <2>3, <2>4 DEF AnswerDue, FullCases
<1>7. ~(\/ \E s : DropCorrupted(s) \/ ExitTransfer(s)
        \/ GapFound \/ StoreEarly \/ handle_flush \/ ClientTimeout)
    BY <1>1, <1>2 DEF DropCorrupted, ExitTransfer, GapFound, StoreEarly, handle_flush, FlushEntry,
        FlushEnd, ClientTimeout, Accepted, Received, Receiving, Gone, p
<1> QED BY <1>4, <1>5, <1>6, <1>7 DEF AClientNext, ClientNext, ClientStep, handle_inorder, handle_buffer
\* rcopy goes on with one packet less on its way than there could be.
LEMMA LossTaken ==
    ASSUME Sheltered, TypeOK, TypeOK', ShelteredInv, QueueCap >= 2, AClientNext,
           rcv' \notin Gone, ResendLost
    PROVE  FullCases'
<1> DEFINE c == buffer.current
<1>1. /\ attempts + 1 <= faults
      /\ UNCHANGED serverVars /\ UNCHANGED <<window, attempts>>
      /\ buffer \in CircularBuffer /\ c \in Nat /\ window.lowest \in Nat /\ window.lowest <= c
      /\ attempts \in Nat /\ faults \in Nat /\ faults' \in Nat /\ faults' >= faults
      /\ Len(toClient) \in Nat /\ Len(toServer) \in Nat
    <2>1. attempts \in Nat /\ faults \in Nat /\ faults' \in Nat
        BY ServerAssumption DEF TypeOK, ServerTypeOK
    <2>2. window.lowest <= c /\ attempts + 1 <= faults
        BY DEF ResendLost, ShelteredInv, AcksInv
    <2> QED BY <2>1, <2>2, FaultsGrow, Numbers, Lengths DEF serverVars, AClientNext
<1>2. CASE rcv = "FLUSH"
    <2>1. Len(toClient) = 0 /\ Len(toServer) = 0 /\ c > window.lowest
        BY <1>1, <1>2 DEF ResendLost
    <2>2. toClient = <<>> /\ toServer = <<>>
        BY <2>1, Lengths
    <2>3. handle_flush
        BY <1>2 DEF AClientNext, ClientNext, ClientStep, ClientTimeout, handle_inorder, handle_buffer,
            DropCorrupted, ExitTransfer, WriteInorder, GapFound, FillGap, StoreEarly, AckAgain,
            Accepted, Received, Receiving
    <2> QED BY <1>1, <1>2, <2>1, <2>2, <2>3, FlushRetry
<1>3. CASE rcv # "FLUSH"
    <2>1. toClient # <<>> /\ toClient' = Tail(toClient)
        BY <1>3 DEF AClientNext, ClientNext, ClientStep, ClientTimeout, handle_inorder,
            handle_buffer, handle_flush, DropCorrupted, ExitTransfer, WriteInorder, GapFound,
            FillGap, StoreEarly, AckAgain, FlushEntry, FlushEnd, Accepted, Received, Gone
    <2>2. Len(toClient) = 1 /\ Len(toServer) = 0
        <3>1. Len(toClient) # 0
            BY <2>1, Lengths
        <3>2. Len(toClient) + Len(toServer) <= 1
            BY <1>1, <1>3 DEF ResendLost
        <3>3. \A a, b \in Nat : a # 0 /\ a + b <= 1 => a = 1 /\ b = 0
            OBVIOUS
        <3> QED BY <1>1, <3>1, <3>2, <3>3
    <2>3. toClient' = <<>> /\ Len(toClient') = 0 /\ toServer = <<>>
        <3>1. toClient' = <<>>
            BY <2>1, <2>2, OnlyPacket
        <3> QED BY <2>2, <3>1, Lengths
    <2>4. ASSUME NEW p, SendToServer(p)
          PROVE  Len(toServer') \in Nat /\ Len(toServer') <= 1
        <3>1. Len(<<p>>) = 1 /\ Len(<<>>) = 0
            OBVIOUS
        <3>2. toServer' = <<p>> \/ toServer' = <<>>
            BY <2>3, <2>4, OneAnswer
        <3>3. Len(toServer') \in {0, 1}
            BY <3>1, <3>2
        <3> QED BY <3>3
    <2>5. CASE FillGap
        <3>1. /\ buffer'.current = c + 1 /\ rcv' = "FLUSH" /\ Len(toServer') = 0
            BY <1>1, <2>2, <2>5, NextExpected DEF FillGap
        <3>2. buffer'.current > window'.lowest
            BY <1>1, <3>1
        <3>3. ResendLost'
            BY <1>1, <2>3, <3>1, <3>2 DEF ResendLost
        <3> QED BY <3>3 DEF FullCases
    <2>6. CASE ~FillGap
        <3>1. rcv' # "FLUSH"
            BY <1>3, <2>6 DEF AClientNext, ClientNext, ClientStep, ClientTimeout, handle_inorder,
                handle_buffer, handle_flush, DropCorrupted, ExitTransfer, WriteInorder, GapFound,
                StoreEarly, AckAgain, FlushEntry, FlushEnd, Accepted, Received, Gone, rcopyVars
        <3>2. UNCHANGED toServer \/ \E p : SendToServer(p)
            BY <1>3, <2>6 DEF AClientNext, ClientNext, ClientStep, ClientTimeout, handle_inorder,
                handle_buffer, handle_flush, DropCorrupted, ExitTransfer, WriteInorder, GapFound,
                StoreEarly, AckAgain, FlushEntry, FlushEnd, netVars
        <3>3. Len(toServer') \in Nat /\ Len(toServer') <= 1
            BY <2>2, <2>4, <3>2
        <3>4. ResendLost'
            BY <1>1, <2>3, <3>1, <3>3 DEF ResendLost
        <3> QED BY <3>4 DEF FullCases
    <2> QED BY <2>5, <2>6
<1> QED BY <1>2, <1>3

\* A step of rcopy between two time-outs of the child.
LEMMA ClientRetry ==
    ASSUME Sheltered, TypeOK, TypeOK', ShelteredInv, HighestHeld, QueueCap >= 2, AClientNext,
           rcv' \notin Gone, FullCases
    PROVE  FullCases'
<1>1. UNCHANGED <<window, attempts>>
    BY DEF AClientNext, serverVars
<1>2. CASE AnswerComes
    <2>1. attempts \in Nat /\ faults \in Nat /\ faults' \in Nat /\ faults' >= faults
        BY FaultsGrow, ServerAssumption DEF TypeOK, ServerTypeOK
    <2>2. Opening'
        BY <1>1, <1>2, AnswersStay DEF AnswerComes, Opening
    <2> QED BY <1>1, <1>2, <2>1, <2>2 DEF AnswerComes, FullCases
<1>3. CASE AnswerDue
    <2>1. handle_flush
        BY <1>3 DEF AnswerDue, AClientNext, ClientNext, ClientStep, ClientTimeout, handle_inorder,
            handle_buffer, DropCorrupted, ExitTransfer, WriteInorder, GapFound, FillGap, StoreEarly,
            AckAgain, Accepted, Received, Receiving
    <2> QED BY <1>3, <2>1, FlushRetry DEF AnswerDue, AClientNext
<1>4. CASE ResendComes
    BY <1>4, ResendTaken
<1>5. CASE ResendLost
    BY <1>5, LossTaken
<1> QED BY <1>2, <1>3, <1>4, <1>5 DEF FullCases
------------------------------------------------------------------------------
\* What the child sends in handle_wait_EOF_ack.
LEMMA EofSent ==
    ASSUME Sheltered, TypeOK, TypeOK', ShelteredInv, UNCHANGED rcopyVars, SendEof, rcv \notin Gone,
           EofCases
    PROVE  EofCases'
<1> DEFINE p == build_packet(window.current, FLAG_EOF, NoData)
<1>1. /\ SendToClient(p) /\ srv = "WAIT_EOF_ACK" /\ srv' = "EOF_POLL"
      /\ UNCHANGED <<attempts, toServer>> /\ UNCHANGED <<buffer, rcv>>
      /\ window.current = NumChunks
    BY DEF SendEof, rcopyVars, ShelteredInv, WindowInv, EofStates
<1>2. p.seq = NumChunks /\ p.flag = FLAG_EOF
    BY <1>1 DEF build_packet
<1>3. attempts \in Nat /\ faults \in Nat
    BY ServerAssumption DEF TypeOK, ServerTypeOK
<1> HIDE DEF p
<1>4. CASE InGap
    <2>1. \/ toClient' = toClient
          \/ toClient' = Append(toClient, p)
          \/ toClient' = Append(toClient, Corrupted)
        BY <1>1, DataSent
    <2>2. ASSUME NEW m, m = Corrupted \/ m.seq = NumChunks, toClient' = Append(toClient, m)
          PROVE  \A i \in 1..Len(toClient') : toClient'[i] = Corrupted \/ toClient'[i].seq = NumChunks
        <3>1. /\ Len(toClient') = Len(toClient) + 1 /\ Len(toClient) \in Nat
              /\ toClient'[Len(toClient) + 1] = m
              /\ \A i \in 1..Len(toClient) : toClient'[i] = toClient[i]
            BY <2>2, Lengths
        <3>2. \A i \in 1..Len(toClient') : i \in 1..Len(toClient) \/ i = Len(toClient) + 1
            BY <3>1
        <3> QED BY <1>4, <2>2, <3>1, <3>2 DEF InGap
    <2>3. InGap'
        BY <1>1, <1>2, <1>4, <2>1, <2>2 DEF InGap
    <2> QED BY <2>3 DEF EofCases
<1>5. CASE EofComes
    <2>1. toClient = <<>> /\ attempts <= faults /\ toServer = <<>> /\ rcv = "INORDER"
        BY <1>1, <1>5 DEF EofComes
    <2>2. CASE faults' = faults /\ Len(toClient') = 1 /\ toClient'[1] = p
        BY <1>1, <1>2, <2>1, <2>2 DEF EofComes, EofCases
    <2>3. CASE faults' = faults + 1 /\ \A i \in 1..Len(toClient') : toClient'[i] = Corrupted
        BY <1>1, <1>3, <2>1, <2>3 DEF EofLost, EofCases
    <2> QED BY <1>1, <2>1, <2>2, <2>3, OnePacket
<1> QED BY <1>1, <1>4, <1>5 DEF EofCases, EofAnswerComes, EofLost

\* A step of rcopy between two time-outs of handle_wait_EOF_ack.
LEMMA ClientEofRetry ==
    ASSUME Sheltered, TypeOK, TypeOK', ShelteredInv, HighestHeld, AClientNext, rcv' \notin Gone,
           srv \in EofStates, EofCases
    PROVE  EofCases'
<1> DEFINE p == Head(toClient)
           c == buffer.current
<1>1. /\ UNCHANGED <<srv, attempts>>
      /\ attempts \in Nat /\ faults \in Nat /\ faults' \in Nat /\ faults' >= faults
      /\ c \in Nat /\ buffer.highest \in Nat /\ NumChunks \in Nat
      /\ window.current = NumChunks
      /\ buffer.highest <= NumChunks
    <2>1. attempts \in Nat /\ faults \in Nat /\ faults' \in Nat
        BY ServerAssumption DEF TypeOK, ServerTypeOK
    <2>2. window.current = NumChunks /\ buffer.highest <= window.current
        BY DEF ShelteredInv, WindowInv, ExpectedInv, EofStates
    <2> QED BY <2>1, <2>2, FaultsGrow, Numbers DEF serverVars, AClientNext
<1>2. ASSUME toClient # <<>>
      PROVE  /\ p = toClient[1] /\ 1 \in 1..Len(toClient) /\ p.seq \in Nat
             /\ \A i \in 1..Len(Tail(toClient)) :
                    i + 1 \in 1..Len(toClient) /\ Tail(toClient)[i] = toClient[i + 1]
    BY <1>2, HeadAndTail, ClientPacket, Numbers
<1> HIDE DEF p
<1>3. CASE InGap
    <2>1. /\ rcv = "BUFFER" /\ toServer = <<>> /\ c < buffer.highest
          /\ \A i \in 1..Len(toClient) : toClient[i] = Corrupted \/ toClient[i].seq = NumChunks
        BY <1>1, <1>3 DEF InGap, HighestHeld
    <2>2. ASSUME toClient # <<>>
          PROVE  p = Corrupted \/ p.seq > c
        BY <1>1, <1>2, <2>1, <2>2
    <2>3. toClient # <<>>
        BY <2>1 DEF AClientNext, ClientNext, ClientStep, ClientTimeout, handle_inorder,
            handle_buffer, handle_flush, DropCorrupted, ExitTransfer, WriteInorder, GapFound,
            FillGap, StoreEarly, AckAgain, FlushEntry, FlushEnd, Accepted, Received, Gone
    <2>4. p = Corrupted \/ (p.seq \in Nat /\ p.seq > c)
        BY <1>2, <2>2, <2>3
    <2>5. ~(FillGap \/ AckAgain("BUFFER"))
        BY <1>1, <2>4 DEF FillGap, AckAgain, Accepted, Received, BadChecksum, p
    <2>6. DropCorrupted("BUFFER") \/ StoreEarly
        BY <2>1, <2>3, <2>5 DEF AClientNext, ClientNext, ClientStep, ClientTimeout, handle_inorder,
            handle_buffer, handle_flush, ExitTransfer, WriteInorder, GapFound, AckAgain,
            DropCorrupted, FlushEntry, FlushEnd, Accepted, Received, Gone
    <2>7. toClient # <<>> /\ toClient' = Tail(toClient) /\ rcv' = "BUFFER" /\ UNCHANGED toServer
        BY <2>1, <2>6 DEF DropCorrupted, StoreEarly, Accepted, Received, rcopyVars
    <2>8. InGap'
        BY <1>2, <2>1, <2>7 DEF InGap
    <2> QED BY <2>8 DEF EofCases
<1>4. CASE EofAnswerComes
    BY <1>1, <1>4, AnswersStay DEF EofAnswerComes, EofCases
<1>5. CASE EofComes
    <2>1. attempts <= faults /\ toServer = <<>> /\ rcv = "INORDER"
        BY <1>5 DEF EofComes
    <2>2. toClient # <<>>
        BY <2>1 DEF AClientNext, ClientNext, ClientStep, ClientTimeout, handle_inorder,
            handle_buffer, handle_flush, DropCorrupted, ExitTransfer, WriteInorder, GapFound,
            FillGap, StoreEarly, AckAgain, FlushEntry, FlushEnd, Accepted, Received, Gone
    <2>3. /\ srv = "EOF_POLL" /\ p.flag = FLAG_EOF /\ p.seq = NumChunks /\ Tail(toClient) = <<>>
        BY <1>2, <1>5, <2>2, OnlyPacket DEF EofComes
    <2>4. p # Corrupted
        BY <2>3 DEF Corrupted, build_packet, FLAG_EOF
    <2>5. CASE WriteInorder
        <3> DEFINE r == RR(buffer'.current)
        <3>1. SendToServer(r) /\ rcv' = "INORDER" /\ toClient' = <<>>
            BY <2>1, <2>3, <2>5 DEF WriteInorder, Accepted, Received
        <3>2. Len(toClient') = 0
            BY <3>1
        <3> HIDE DEF r
        <3>3. CASE faults' = faults /\ toServer' = <<r>>
            <4>1. toServer' # <<>>
                BY <3>3
            <4> QED BY <1>1, <2>1, <2>3, <3>3, <4>1 DEF EofAnswerComes, EofCases
        <3>4. CASE faults' = faults + 1 /\ toServer' = <<>>
            BY <1>1, <2>1, <2>3, <3>1, <3>2, <3>4 DEF EofLost, EofCases
        <3> QED BY <2>1, <3>1, <3>3, <3>4, OneAnswer
    <2>6. CASE GapFound
        <3> DEFINE r == SREJ(buffer.current)
        <3>1. SendToServer(r) /\ rcv' = "BUFFER" /\ toClient' = <<>>
            BY <2>1, <2>3, <2>6 DEF GapFound, Accepted, Received
        <3>2. Len(toClient') = 0
            BY <3>1
        <3> HIDE DEF r
        <3>3. CASE faults' = faults /\ toServer' = <<r>>
            <4>1. toServer' # <<>>
                BY <3>3
            <4> QED BY <1>1, <2>1, <2>3, <3>3, <4>1 DEF EofAnswerComes, EofCases
        <3>4. CASE faults' = faults + 1 /\ toServer' = <<>>
            BY <3>1, <3>2, <3>4 DEF InGap, EofCases
        <3> QED BY <2>1, <3>1, <3>3, <3>4, OneAnswer
    <2>7. WriteInorder \/ GapFound
        BY <1>1, <2>1, <2>2, <2>3, <2>4 DEF AClientNext, ClientNext, ClientStep, ClientTimeout,
            handle_inorder, handle_buffer, handle_flush, ExitTransfer, FillGap, StoreEarly, AckAgain,
            DropCorrupted, FlushEntry, FlushEnd, Accepted, Received, IsLastEof, Gone, p
    <2> QED BY <2>5, <2>6, <2>7
<1>6. CASE EofLost
    <2>1. /\ attempts + 1 <= faults /\ toServer = <<>> /\ rcv = "INORDER" /\ srv = "EOF_POLL"
          /\ \A i \in 1..Len(toClient) : toClient[i] = Corrupted
        BY <1>6 DEF EofLost
    <2>2. DropCorrupted("INORDER")
        BY <1>2, <2>1 DEF AClientNext, ClientNext, ClientStep, ClientTimeout, handle_inorder,
            handle_buffer, handle_flush, ExitTransfer, WriteInorder, GapFound, FillGap, StoreEarly,
            AckAgain, DropCorrupted, FlushEntry, FlushEnd, Accepted, Received, BadChecksum, Gone, p
    <2>3. toClient # <<>> /\ toClient' = Tail(toClient) /\ rcv' = rcv /\ UNCHANGED <<toServer, faults>>
        BY <2>2 DEF DropCorrupted, Received, rcopyVars
    <2>4. EofLost'
        BY <1>1, <1>2, <2>1, <2>3 DEF EofLost
    <2> QED BY <2>4 DEF EofCases
<1> QED BY <1>3, <1>4, <1>5, <1>6 DEF EofCases
\* A step of the child: what was true when it counted an attempt stays true
\* until the next, and the last one finds MaxAttempts packets lost or rcopy in
\* the gap.
LEMMA ServerRetry ==
    ASSUME Sheltered, ShortLag, TypeOK, TypeOK', ShelteredInv, ClockInv, BusyInv, BothWaitForLoss,
           EofAnswered, FullRetry, EofRetry, LeftAlone, AServerNext, TimedServer
    PROVE  FullRetry' /\ EofRetry' /\ LeftAlone'
<1> SUFFICES ASSUME rcv \notin Gone
             PROVE  /\ WindowFull' /\ attempts' >= 1 => FullCases'
                    /\ srv' \in EofStates /\ attempts' >= 1 => EofCases'
                    /\ srv' \in Stopped => \/ faults' >= MaxAttempts
                                           \/ rcv = "BUFFER" /\ filePos' = NumChunks /\ toClient' = <<>>
    BY DEF AServerNext, rcopyVars, FullRetry, EofRetry, LeftAlone, FullCases, EofCases
<1>1. /\ ServerStep \/ (ServerTimeout /\ serverClock = Second)
      /\ UNCHANGED rcopyVars /\ UNCHANGED <<buffer, rcv>>
      /\ attempts \in Nat /\ faults \in Nat /\ MaxAttempts \in Nat
      /\ WindowInv /\ RetainedForResend
    BY ServerAssumption DEF TimedServer, ServerPollTime, AServerNext, rcopyVars, TypeOK, ServerTypeOK,
        ShelteredInv, WindowInv
<1>2. srv \notin Stopped
    BY <1>1 DEF ServerStep, ServerTimeout, Stopped, SendData, ReadEof, WindowClosed, DrainRecv,
        DrainDone, FullRecv, FullDone, SendEof, EofRecv, FullTimeout, EofTimeout, WindowFull
<1>3. ASSUME NEW next, NEW onEof, process_rr_srej_eof(next, onEof), onEof # "CRASHED",
             srv \in EofStates => {next, onEof} \subseteq EofStates \cup Stopped
      PROVE  srv' = next
    <2> DEFINE p == Head(toServer)
    <2>1. srv' \in {next, onEof}
        BY <1>1, <1>2, <1>3, ProcessKeepsInv
    <2>2. p \in InFlight(toServer)
        BY <1>3, InFlightTail, Numbers DEF process_rr_srej_eof
    <2>3. p.flag # FLAG_EOF
        BY <2>2 DEF EofAnswered
    <2>4. srv' \in {next, "CRASHED"}
        BY <1>3, <2>3 DEF process_rr_srej_eof, resend_packet
    <2> QED BY <1>3, <2>1, <2>4
<1>4. CASE SendData \/ ReadEof \/ WindowClosed \/ DrainRecv \/ DrainDone \/ FullDone \/ EofRecv
    <2>1. DrainRecv => srv' = "DRAIN"
        BY <1>3 DEF DrainRecv, EofStates
    <2>2. EofRecv => srv' = "WAIT_EOF_ACK"
        BY <1>3 DEF EofRecv, EofStates, Stopped
    <2> QED BY <1>4, <2>1, <2>2 DEF SendData, ReadEof, WindowClosed, DrainDone, FullDone, EofRecv,
            WindowFull, EofStates, Stopped
<1>5. CASE FullRecv
    <2>1. WindowFull /\ attempts' = attempts /\ srv = "WINDOW_FULL"
        BY <1>5 DEF FullRecv, WindowFull
    <2>2. srv' = "WINDOW_FULL"
        BY <1>3, <1>5, <2>1 DEF FullRecv, EofStates
    <2>3. ASSUME WindowFull', attempts >= 1
          PROVE  FullCases'
        <3>1. FullCases
            BY <2>1, <2>3 DEF FullRetry, FullCases
        <3> QED BY <1>1, <1>5, <2>3, <3>1, FullRecvRetry
    <2> QED BY <2>1, <2>2, <2>3 DEF EofStates, Stopped
<1>6. CASE SendEof
    <2>1. srv = "WAIT_EOF_ACK" /\ srv' = "EOF_POLL" /\ attempts' = attempts
        BY <1>6 DEF SendEof
    <2>2. ASSUME attempts >= 1
          PROVE  EofCases'
        <3>1. EofCases
            BY <2>1, <2>2 DEF EofRetry, EofCases, EofStates
        <3> QED BY <1>1, <1>6, <3>1, EofSent
    <2> QED BY <2>1, <2>2 DEF WindowFull, Stopped
<1>7. CASE FullTimeout /\ serverClock = Second
    <2>1. ServerPolls /\ srv = "WINDOW_FULL"
        BY <1>7 DEF FullTimeout, ServerPolls, WindowFull
    <2>2. toClient = <<>> /\ toServer = <<>> /\ rcv \in Receiving /\ attempts + 1 <= faults
        BY <1>2, <1>7, <2>1, PollEnds
    <2>3. \/ srv' = "DONE" /\ faults' >= MaxAttempts
          \/ srv' = "WINDOW_FULL" /\ FullCases'
        BY <1>1, <1>7, <2>2, FullTimeoutRetry
    <2> QED BY <2>3 DEF WindowFull, EofStates, Stopped
<1>8. CASE EofTimeout /\ serverClock = Second
    <2>1. /\ ServerPolls /\ srv = "EOF_POLL" /\ attempts' = attempts + 1
          /\ UNCHANGED <<filePos, toClient, toServer, faults>>
          /\ srv' = IF attempts + 1 >= MaxAttempts THEN "DONE" ELSE "WAIT_EOF_ACK"
        BY <1>8 DEF EofTimeout, ServerPolls, netVars
    <2>2. /\ toClient = <<>> /\ toServer = <<>> /\ rcv \in Receiving
          /\ attempts + 1 <= faults \/ rcv = "BUFFER"
        BY <1>2, <1>8, <2>1, PollEnds
    <2>3. filePos = NumChunks /\ Len(toClient') = 0
        BY <1>1, <2>1, <2>2 DEF WindowInv, EofStates
    <2>4. CASE rcv = "BUFFER"
        <3>1. InGap'
            BY <1>1, <2>1, <2>2, <2>3, <2>4 DEF InGap
        <3> QED BY <2>1, <2>2, <2>3, <2>4, <3>1 DEF EofCases, WindowFull
    <2>5. CASE rcv = "INORDER"
        <3>1. attempts + 1 <= faults
            BY <2>2, <2>5
        <3>2. srv' = "WAIT_EOF_ACK" => EofComes'
            BY <1>1, <2>1, <2>2, <2>5, <3>1 DEF EofComes
        <3>3. srv' = "DONE" => faults' >= MaxAttempts
            BY <1>1, <2>1, <3>1
        <3> QED BY <2>1, <3>2, <3>3 DEF EofCases, EofStates, Stopped, WindowFull
    <2> QED BY <2>2, <2>4, <2>5 DEF Receiving
<1> QED BY <1>1, <1>4, <1>5, <1>6, <1>7, <1>8 DEF ServerStep, ServerTimeout

LEMMA RetryNext ==
    ASSUME Sheltered, ShortLag, QueueCap >= 2, TypeOK, TypeOK', ShelteredInv, ClockInv, BusyInv,
           BothWaitForLoss, EofAnswered, HighestHeld, FullRetry, EofRetry, LeftAlone,
           [TimedNext]_timedVars
    PROVE  FullRetry' /\ EofRetry' /\ LeftAlone'
<1>1. CASE AServerNext /\ TimedServer
    BY <1>1, ServerRetry
<1>2. CASE AClientNext /\ TimedClient
    <2>1. UNCHANGED <<window, filePos, srv, attempts>> /\ faults \in Nat /\ faults' \in Nat
          /\ faults' >= faults /\ MaxAttempts \in Nat
        BY <1>2, FaultsGrow, ServerAssumption DEF AClientNext, serverVars, TypeOK
    <2> SUFFICES ASSUME rcv' \notin Gone
                 PROVE  /\ WindowFull /\ attempts >= 1 => FullCases'
                        /\ srv \in EofStates /\ attempts >= 1 => EofCases'
                        /\ srv \in Stopped => \/ faults' >= MaxAttempts
                                              \/ rcv' = "BUFFER" /\ filePos = NumChunks /\ toClient' = <<>>
        BY <2>1 DEF FullRetry, EofRetry, LeftAlone, FullCases, EofCases, WindowFull
    <2>2. rcv \notin Gone /\ ~(rcv = "BUFFER" /\ toClient = <<>>)
        BY <1>2 DEF AClientNext, ClientNext, ClientStep, ClientTimeout, handle_inorder,
            handle_buffer, handle_flush, DropCorrupted, ExitTransfer, WriteInorder, GapFound,
            FillGap, StoreEarly, AckAgain, FlushEntry, FlushEnd, Accepted, Received, Receiving, Gone
    <2>3. ASSUME WindowFull, attempts >= 1
          PROVE  FullCases'
        <3>1. FullCases
            BY <2>2, <2>3 DEF FullRetry, FullCases
        <3> QED BY <1>2, <3>1, ClientRetry
    <2>4. ASSUME srv \in EofStates, attempts >= 1
          PROVE  EofCases'
        <3>1. EofCases
            BY <2>2, <2>4 DEF EofRetry, EofCases
        <3> QED BY <1>2, <2>4, <3>1, ClientEofRetry
    <2>5. srv \in Stopped => faults' >= MaxAttempts
        BY <2>1, <2>2 DEF LeftAlone
    <2> QED BY <2>3, <2>4, <2>5
<1>3. CASE Tick \/ UNCHANGED timedVars
    <2>1. /\ UNCHANGED <<window, filePos, srv, attempts>> /\ UNCHANGED <<buffer, rcv, out>>
          /\ UNCHANGED <<toClient, toServer, faults>>
        BY <1>3 DEF Tick, timedVars, vars, serverVars, rcopyVars, netVars
    <2>2. /\ FullCases' <=> FullCases
          /\ EofCases' <=> EofCases
        BY <2>1 DEF FullCases, AnswerComes, AnswerDue, ResendComes, ResendLost, Opening, FlushAnswers,
            NothingMissing, Entry, EofCases, InGap, EofAnswerComes, EofComes, EofLost
    <2> QED BY <2>1, <2>2 DEF FullRetry, EofRetry, LeftAlone, FullCases, EofCases, WindowFull
<1> QED BY <1>1, <1>2, <1>3, TimedStep

\* The invariants of a retry, together.
RetryInv == BusyInv /\ EofAnswered /\ HighestHeld /\ FullRetry /\ EofRetry /\ LeftAlone

LEMMA RetryAlways ==
    ASSUME Sheltered, FitsRing, RoomForWindow, QueueCap >= 2, ShortLag
    PROVE  TimedSpec => []RetryInv
<1>1. TimedInit => RetryInv
    <2> SUFFICES ASSUME TimedInit
                 PROVE  RetryInv
        OBVIOUS
    <2>1. /\ serverClock = 0 /\ srv = "SEND_DATA" /\ rcv = "INORDER" /\ toServer = <<>> /\ lag = 0
          /\ attempts = 0
        BY DEF TimedInit, Init, ServerInit, RcopyInit, NetInit
    <2>2. InFlight(toServer) = {}
        BY <2>1 DEF InFlight
    <2> QED BY <2>1, <2>2 DEF RetryInv, BusyInv, EofAnswered, HighestHeld, FullRetry, EofRetry,
            LeftAlone, ServerPolls, WindowFull, EofStates, Stopped
<1>2. ASSUME TypeOK, TypeOK', ShelteredInv, ClockInv, BothWaitForLoss, RetryInv, [TimedNext]_timedVars
      PROVE  RetryInv'
    BY <1>2, BusyNext, EofAnsweredNext, HighestNext, RetryNext DEF RetryInv, ShelteredInv
<1>3. TimedSpec => []ShelteredInv
    BY TimedIsTransfer, ShelteredInvAlways, PTL
<1> QED BY <1>1, <1>2, <1>3, TimedTypes, Clocks, BothWaitForLossAlways, PTL DEF TimedSpec

\* In the sheltered setting rcopy gives up in one situation only, unless as
\* many packets were lost or damaged as the child has attempts: it waits for a
\* retransmission that was lost while the child has no more to send.
THEOREM GivesUpOnlyInGapAlways ==
    ASSUME Sheltered, FitsRing, RoomForWindow, QueueCap >= 2, ShortLag, MaxAttempts <= ClientSeconds
    PROVE  TimedSpec => GivesUpOnlyInGap
<1>1. ASSUME TypeOK, RetryInv, [TimedNext]_timedVars,
             [rcv' = "ABORTED" => srv \in Stopped \/ faults >= MaxAttempts]_rcv
      PROVE  [rcv' = "ABORTED" /\ faults < MaxAttempts => rcv = "BUFFER" /\ filePos = NumChunks]_rcv
    <2> SUFFICES ASSUME rcv' = "ABORTED", rcv' # rcv, faults < MaxAttempts
                 PROVE  rcv = "BUFFER" /\ filePos = NumChunks
        OBVIOUS
    <2>1. AClientNext
        BY <1>1, TimedStep DEF AServerNext, Tick, timedVars, vars, rcopyVars
    <2>2. rcv \notin Gone
        BY <2>1 DEF AClientNext, ClientNext, ClientStep, ClientTimeout, handle_inorder,
            handle_buffer, handle_flush, DropCorrupted, ExitTransfer, WriteInorder, GapFound,
            FillGap, StoreEarly, AckAgain, FlushEntry, FlushEnd, Accepted, Received, Receiving, Gone
    <2>3. faults \in Nat /\ MaxAttempts \in Nat
        BY <1>1, ServerAssumption DEF TypeOK
    <2>4. srv \in Stopped
        BY <1>1, <2>3
    <2> QED BY <1>1, <2>2, <2>3, <2>4 DEF RetryInv, LeftAlone
<1> QED BY <1>1, TimedTypes, RetryAlways, GivesUpAfterChildAlways, PTL
        DEF TimedSpec, GivesUpAfterChild, GivesUpOnlyInGap
================================================================================
