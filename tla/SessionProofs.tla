----------------------------- MODULE SessionProofs -----------------------------
(***************************************************************************)
(* What is proved about a session: its types, that a child never believes  *)
(* more than rcopy said, that rcopy never ends before a child has read the *)
(* whole file, and that the answer to a request is true.                   *)
(*                                                                         *)
(* The theorems hold for every file, window, number of children, losses,   *)
(* kills and failed calls, and whenever the time-outs run out.  What a     *)
(* process does in one step is proved once, in BasicTheorems, and taken    *)
(* from there for each child and for rcopy with each of its peers.         *)
(***************************************************************************)
EXTENDS SessionInv, TLAPS

\* The facts about child A and about rcopy while it sends to A; then those
\* about B, and about the first process.
AP == INSTANCE BasicTheorems WITH
    window <- windowA, filePos <- filePosA, srv <- srvA, attempts <- attemptsA,
    toServer <- toA, NetFaults <- {}
BP == INSTANCE BasicTheorems WITH
    window <- windowB, filePos <- filePosB, srv <- srvB, attempts <- attemptsB,
    toServer <- toB, NetFaults <- {}
LP == INSTANCE BasicTheorems WITH
    window <- windowA, filePos <- filePosA, srv <- srvA, attempts <- attemptsA,
    toServer <- toListener, NetFaults <- {}

------------------------------------------------------------------------------
(***************************************************************************)
(* What a step of one process does to the queues.                          *)
(***************************************************************************)
\* The packets without a payload.
LEMMA PacketTypes ==
    /\ Corrupted \in ToClient /\ Corrupted \in ToServer
    /\ \A s \in Nat : build_packet(0, s, NoData) \in ToClient
    /\ build_packet(0, FLAG_FILENAME, NoData) \in ToServer
BY DEF Corrupted, build_packet, ToClient, ToServer, Payload,
    FLAG_FILENAME, FLAG_RR, FLAG_SREJ

\* The sender of each packet is kept with it.
LEMMA OriginsGrow ==
    ASSUME NEW s \in Senders, toClient \in Seq(ToClient), toClient' \in Seq(ToClient),
           origins \in Seq(Senders), Len(origins) = Len(toClient),
           toClient' = toClient \/ \E p : toClient' = Append(toClient, p),
           SentBy(s)
    PROVE  origins' \in Seq(Senders) /\ Len(origins') = Len(toClient')
<1>1. CASE toClient' = toClient
    BY <1>1 DEF SentBy
<1>2. CASE toClient' # toClient
    <2>1. PICK p : toClient' = Append(toClient, p)
        BY <1>2
    <2>2. Len(toClient') = Len(toClient) + 1
        BY <2>1
    <2>3. origins' = Append(origins, s)
        BY <1>2 DEF SentBy
    <2> QED BY <2>2, <2>3
<1> QED BY <1>1, <1>2

\* The child A of the session is a child of BasicTheorems.
LEMMA ChildAIsChild ==
    /\ A!ServerStep => AP!ServerStep
    /\ A!ServerTimeout => AP!ServerTimeout
    /\ A!ServerNext => AP!ServerNext
BY DEF A!ServerNext, AP!ServerNext, A!ServerStep, AP!ServerStep,
       A!ServerTimeout, AP!ServerTimeout, A!SendData, AP!SendData, A!ReadEof,
       AP!ReadEof, A!WindowClosed, AP!WindowClosed, A!DrainRecv, AP!DrainRecv,
       A!DrainDone, AP!DrainDone, A!WindowFull, AP!WindowFull, A!FullRecv,
       AP!FullRecv, A!FullTimeout, AP!FullTimeout, A!FullDone, AP!FullDone,
       A!SendEof, AP!SendEof, A!EofRecv, AP!EofRecv, A!EofTimeout,
       AP!EofTimeout, A!process_rr_srej_eof, AP!process_rr_srej_eof,
       A!resend_packet, AP!resend_packet, A!PayloadOf, AP!PayloadOf,
       A!AdvanceWindow, AP!AdvanceWindow, A!SendToClient, AP!SendToClient,
       A!Put, AP!Put, A!Fates, AP!Fates, A!Cost, AP!Cost, A!netVars,
       AP!netVars, A!buffer_add, AP!buffer_add, A!Entry, AP!Entry, A!Slot,
       AP!Slot, A!build_packet, AP!build_packet, A!Corrupted, AP!Corrupted,
       A!BadChecksum, AP!BadChecksum, A!FLAG_RR, AP!FLAG_RR, A!FLAG_SREJ,
       AP!FLAG_SREJ, A!FLAG_EOF, AP!FLAG_EOF, A!FLAG_DATA, AP!FLAG_DATA,
       A!FLAG_RESENT_DATA, AP!FLAG_RESENT_DATA, A!FLAG_RESENT_TIMEOUT,
       AP!FLAG_RESENT_TIMEOUT

\* A step of child A.
LEMMA ChildAMoves ==
    ASSUME QueuesOK, ChildAInv, A!ServerNext
    PROVE  /\ windowA' \in CircularBuffer
           /\ filePosA' \in 0..NumChunks
           /\ srvA' \in A!ServerStates /\ srvA # Unborn
           /\ attemptsA' \in 0..MaxAttempts
           /\ srvA' \notin A!Stopped => attemptsA' < MaxAttempts
           /\ toClient' \in Seq(ToClient)
           /\ toA' \in Seq(ToServer)
           /\ faults' \in Nat
           /\ InFlight(toA') \subseteq InFlight(toA)
           /\ toClient' = toClient \/ \E p : toClient' = Append(toClient, p)
           /\ AP!ChildSends
           /\ AP!ChildBelieves
           /\ AP!ChildReads
<1>1. AP!ServerNext
    BY ChildAIsChild
<1>2. /\ toClient \in Seq(ToClient) /\ toA \in Seq(ToServer) /\ faults \in Nat
      /\ AP!ClientBound \subseteq ToClient
      /\ AP!Numbered(ToServer)
      /\ AP!ChildOK
    BY DEF QueuesOK, ChildAInv, ChildInv, AP!ClientBound, AP!Numbered, AP!ChildOK,
        ToClient, ToServer, AP!FLAG_RR, AP!FLAG_SREJ, FLAG_RR, FLAG_SREJ, AP!DataFlags,
        AP!FLAG_DATA, AP!FLAG_RESENT_DATA, AP!FLAG_RESENT_TIMEOUT, AP!FLAG_EOF,
        AP!Payload, Payload, AP!Corrupted, AP!build_packet, CircularBuffer,
        AP!CircularBuffer, BufferEntry, AP!BufferEntry, Slots, AP!Slots, A!Stopped, AP!Stopped
<1>3. /\ AP!ChildOK'
      /\ srvA' \in AP!ServerStates
      /\ toClient' \in Seq(ToClient)
      /\ toA' \in Seq(ToServer)
      /\ faults' \in Nat
      /\ AP!InFlight(toA') \subseteq AP!InFlight(toA)
      /\ AP!ChildSends
      /\ AP!ChildBelieves
      /\ AP!ChildReads
    BY <1>1, <1>2, AP!ServerNextEffect, PayloadAssumption, SizeAssumption, SessionAssumption
<1>4. toClient' = toClient \/ \E p : toClient' = Append(toClient, p)
    BY <1>1, AP!ChildAppends, PayloadAssumption, SizeAssumption, SessionAssumption
<1>5. srvA # Unborn
    BY DEF Unborn, A!ServerNext, A!ServerStep, A!ServerTimeout, A!SendData, A!ReadEof,
        A!WindowClosed, A!DrainRecv, A!DrainDone, A!FullRecv, A!FullTimeout, A!WindowFull,
        A!FullDone, A!SendEof, A!EofRecv, A!EofTimeout
<1>6. InFlight(toA') \subseteq InFlight(toA)
    BY <1>3 DEF InFlight, AP!InFlight
<1> QED BY <1>3, <1>4, <1>5, <1>6
        DEF AP!ChildOK, CircularBuffer, AP!CircularBuffer, BufferEntry, AP!BufferEntry,
            Slots, AP!Slots, Payload, AP!Payload, A!Stopped, AP!Stopped, A!ServerStates,
            AP!ServerStates, A!EofStates, AP!EofStates

\* It keeps the invariant.
LEMMA ChildAKeeps ==
    ASSUME SessionInv, ChildANext(A!ServerNext)
    PROVE  SessionInv'
<1>1. /\ TypeOK /\ QueuesOK /\ ChildAInv /\ ChildBInv /\ NewsInv /\ ForkInv
      /\ NoEarlyExit /\ AnswerIsTrue
      /\ A!ServerNext /\ SentBy("A")
      /\ UNCHANGED <<phase, requests, buffer, rcv, out, peer, listener, badRequests,
                     children, fileExists, windowB, filePosB, srvB, attemptsB,
                     toListener, toB, crashes>>
    BY DEF SessionInv, ChildANext, clientVars, exchangeVars, receiveVars, listenerVars,
        childBVars
<1>2. /\ windowA' \in CircularBuffer
      /\ filePosA' \in 0..NumChunks
      /\ srvA' \in A!ServerStates /\ srvA # Unborn
      /\ attemptsA' \in 0..MaxAttempts
      /\ srvA' \notin A!Stopped => attemptsA' < MaxAttempts
      /\ toClient' \in Seq(ToClient)
      /\ toA' \in Seq(ToServer)
      /\ faults' \in Nat
      /\ InFlight(toA') \subseteq InFlight(toA)
      /\ toClient' = toClient \/ \E p : toClient' = Append(toClient, p)
      /\ AP!ChildSends
      /\ AP!ChildBelieves
      /\ AP!ChildReads
    BY <1>1, ChildAMoves
<1>3. NumChunks \in Nat /\ fileExists
    BY <1>1, <1>2, SessionAssumption DEF ChildAInv, ChildInv
<1>4. QueuesOK'
    BY <1>1, <1>2 DEF QueuesOK
<1>5. ChildAInv'
    <2>1. /\ windowA'.current = filePosA'
          /\ srvA' \in A!EofStates => filePosA' = NumChunks
          /\ srvA' # Unborn => fileExists'
        BY <1>1, <1>2, <1>3
            DEF AP!ChildReads, ChildAInv, ChildInv, A!EofStates, AP!EofStates
    <2>2. windowA'.lowest <= buffer'.current
        BY <1>1, <1>2 DEF AP!ChildBelieves, ChildAInv, ChildInv, InFlight, AP!InFlight,
            FLAG_RR, AP!FLAG_RR
    <2>3. \A p \in InFlight(toA') : p.flag = FLAG_RR => p.data <= buffer'.current
        BY <1>1, <1>2 DEF ChildAInv, ChildInv
    <2> QED BY <1>2, <2>1, <2>2, <2>3 DEF ChildAInv, ChildInv
<1>6. ChildBInv'
    BY <1>1 DEF ChildBInv, ChildInv
<1>7. filePosA = NumChunks => filePosA' = NumChunks
    BY <1>1, <1>2, <1>3 DEF AP!ChildReads, ChildAInv, ChildInv
<1>8. WholeFileRead => WholeFileRead'
    BY <1>1, <1>7 DEF WholeFileRead
<1>9. NewsInv'
    <2> SUFFICES ASSUME NEW p \in InFlight(toClient')
                 PROVE  /\ p.flag = FLAG_EOF => p.seq = NumChunks /\ WholeFileRead'
                        /\ p.flag \in DataFlags \cup {FLAG_FILENAME_ACK} => fileExists'
                        /\ p.flag = FLAG_FILENAME_ERROR =>
                                ~fileExists' \/ "fopen" \in crashes'
        BY DEF NewsInv
    <2>1. CASE p \in InFlight(toClient)
        BY <1>1, <1>8, <2>1 DEF NewsInv
    <2>2. CASE p = Corrupted
        BY <2>2 DEF Corrupted, build_packet, FLAG_EOF, DataFlags, FLAG_DATA,
            FLAG_RESENT_DATA, FLAG_RESENT_TIMEOUT, FLAG_FILENAME_ACK, FLAG_FILENAME_ERROR
    <2>3. CASE p.flag \in DataFlags
        BY <1>1, <1>3, <2>3 DEF FLAG_EOF, DataFlags, FLAG_DATA,
            FLAG_RESENT_DATA, FLAG_RESENT_TIMEOUT, FLAG_FILENAME_ACK, FLAG_FILENAME_ERROR
    <2>4. CASE p.flag = FLAG_EOF /\ p.seq = windowA.current /\ srvA = "WAIT_EOF_ACK"
        <3>1. filePosA = NumChunks /\ p.seq = NumChunks
            BY <1>1, <2>4 DEF ChildAInv, ChildInv, A!EofStates
        <3> QED BY <1>1, <1>3, <1>7, <2>4, <3>1 DEF WholeFileRead, FLAG_EOF, FLAG_FILENAME_ERROR
    <2> QED BY <1>2, <2>1, <2>2, <2>3, <2>4 DEF AP!ChildSends, InFlight, AP!InFlight,
            AP!Corrupted, Corrupted, AP!build_packet, build_packet, AP!DataFlags, DataFlags,
            FLAG_DATA, FLAG_RESENT_DATA, FLAG_RESENT_TIMEOUT, FLAG_EOF,
            AP!FLAG_DATA, AP!FLAG_RESENT_DATA, AP!FLAG_RESENT_TIMEOUT, AP!FLAG_EOF
<1>10. ForkInv' /\ AnswerIsTrue' /\ NoEarlyExit'
    BY <1>1, <1>2, <1>8 DEF ForkInv, AnswerIsTrue, NoEarlyExit, WholeFileRead
<1>11. TypeOK'
    <2>1. origins' \in Seq(Senders) /\ Len(origins') = Len(toClient')
        BY <1>1, <1>2, OriginsGrow DEF TypeOK, QueuesOK, Senders
    <2> QED BY <1>1, <1>2, <2>1 DEF TypeOK, ExchangeL!ExchangeTypeOK, ReceiveL!RcopyTypeOK,
            Parent!ListenerTypeOK
<1> QED BY <1>4, <1>5, <1>6, <1>9, <1>10, <1>11 DEF SessionInv

\* The child B of the session is a child of BasicTheorems.
LEMMA ChildBIsChild ==
    /\ B!ServerStep => BP!ServerStep
    /\ B!ServerTimeout => BP!ServerTimeout
    /\ B!ServerNext => BP!ServerNext
BY DEF B!ServerNext, BP!ServerNext, B!ServerStep, BP!ServerStep,
       B!ServerTimeout, BP!ServerTimeout, B!SendData, BP!SendData, B!ReadEof,
       BP!ReadEof, B!WindowClosed, BP!WindowClosed, B!DrainRecv, BP!DrainRecv,
       B!DrainDone, BP!DrainDone, B!WindowFull, BP!WindowFull, B!FullRecv,
       BP!FullRecv, B!FullTimeout, BP!FullTimeout, B!FullDone, BP!FullDone,
       B!SendEof, BP!SendEof, B!EofRecv, BP!EofRecv, B!EofTimeout,
       BP!EofTimeout, B!process_rr_srej_eof, BP!process_rr_srej_eof,
       B!resend_packet, BP!resend_packet, B!PayloadOf, BP!PayloadOf,
       B!AdvanceWindow, BP!AdvanceWindow, B!SendToClient, BP!SendToClient,
       B!Put, BP!Put, B!Fates, BP!Fates, B!Cost, BP!Cost, B!netVars,
       BP!netVars, B!buffer_add, BP!buffer_add, B!Entry, BP!Entry, B!Slot,
       BP!Slot, B!build_packet, BP!build_packet, B!Corrupted, BP!Corrupted,
       B!BadChecksum, BP!BadChecksum, B!FLAG_RR, BP!FLAG_RR, B!FLAG_SREJ,
       BP!FLAG_SREJ, B!FLAG_EOF, BP!FLAG_EOF, B!FLAG_DATA, BP!FLAG_DATA,
       B!FLAG_RESENT_DATA, BP!FLAG_RESENT_DATA, B!FLAG_RESENT_TIMEOUT,
       BP!FLAG_RESENT_TIMEOUT

\* A step of child B.
LEMMA ChildBMoves ==
    ASSUME QueuesOK, ChildBInv, B!ServerNext
    PROVE  /\ windowB' \in CircularBuffer
           /\ filePosB' \in 0..NumChunks
           /\ srvB' \in A!ServerStates /\ srvB # Unborn
           /\ attemptsB' \in 0..MaxAttempts
           /\ srvB' \notin A!Stopped => attemptsB' < MaxAttempts
           /\ toClient' \in Seq(ToClient)
           /\ toB' \in Seq(ToServer)
           /\ faults' \in Nat
           /\ InFlight(toB') \subseteq InFlight(toB)
           /\ toClient' = toClient \/ \E p : toClient' = Append(toClient, p)
           /\ BP!ChildSends
           /\ BP!ChildBelieves
           /\ BP!ChildReads
<1>1. BP!ServerNext
    BY ChildBIsChild
<1>2. /\ toClient \in Seq(ToClient) /\ toB \in Seq(ToServer) /\ faults \in Nat
      /\ BP!ClientBound \subseteq ToClient
      /\ BP!Numbered(ToServer)
      /\ BP!ChildOK
    BY DEF QueuesOK, ChildBInv, ChildInv, BP!ClientBound, BP!Numbered, BP!ChildOK,
        ToClient, ToServer, BP!FLAG_RR, BP!FLAG_SREJ, FLAG_RR, FLAG_SREJ, BP!DataFlags,
        BP!FLAG_DATA, BP!FLAG_RESENT_DATA, BP!FLAG_RESENT_TIMEOUT, BP!FLAG_EOF,
        BP!Payload, Payload, BP!Corrupted, BP!build_packet, CircularBuffer,
        BP!CircularBuffer, BufferEntry, BP!BufferEntry, Slots, BP!Slots, A!Stopped, BP!Stopped
<1>3. /\ BP!ChildOK'
      /\ srvB' \in BP!ServerStates
      /\ toClient' \in Seq(ToClient)
      /\ toB' \in Seq(ToServer)
      /\ faults' \in Nat
      /\ BP!InFlight(toB') \subseteq BP!InFlight(toB)
      /\ BP!ChildSends
      /\ BP!ChildBelieves
      /\ BP!ChildReads
    BY <1>1, <1>2, BP!ServerNextEffect, PayloadAssumption, SizeAssumption, SessionAssumption
<1>4. toClient' = toClient \/ \E p : toClient' = Append(toClient, p)
    BY <1>1, BP!ChildAppends, PayloadAssumption, SizeAssumption, SessionAssumption
<1>5. srvB # Unborn
    BY DEF Unborn, B!ServerNext, B!ServerStep, B!ServerTimeout, B!SendData, B!ReadEof,
        B!WindowClosed, B!DrainRecv, B!DrainDone, B!FullRecv, B!FullTimeout, B!WindowFull,
        B!FullDone, B!SendEof, B!EofRecv, B!EofTimeout
<1>6. InFlight(toB') \subseteq InFlight(toB)
    BY <1>3 DEF InFlight, BP!InFlight
<1> QED BY <1>3, <1>4, <1>5, <1>6
        DEF BP!ChildOK, CircularBuffer, BP!CircularBuffer, BufferEntry, BP!BufferEntry,
            Slots, BP!Slots, Payload, BP!Payload, A!Stopped, BP!Stopped, A!ServerStates,
            BP!ServerStates, A!EofStates, BP!EofStates

\* It keeps the invariant.
LEMMA ChildBKeeps ==
    ASSUME SessionInv, ChildBNext(B!ServerNext)
    PROVE  SessionInv'
<1>1. /\ TypeOK /\ QueuesOK /\ ChildBInv /\ ChildAInv /\ NewsInv /\ ForkInv
      /\ NoEarlyExit /\ AnswerIsTrue
      /\ B!ServerNext /\ SentBy("B")
      /\ UNCHANGED <<phase, requests, buffer, rcv, out, peer, listener, badRequests,
                     children, fileExists, windowA, filePosA, srvA, attemptsA,
                     toListener, toA, crashes>>
    BY DEF SessionInv, ChildBNext, clientVars, exchangeVars, receiveVars, listenerVars,
        childAVars
<1>2. /\ windowB' \in CircularBuffer
      /\ filePosB' \in 0..NumChunks
      /\ srvB' \in A!ServerStates /\ srvB # Unborn
      /\ attemptsB' \in 0..MaxAttempts
      /\ srvB' \notin A!Stopped => attemptsB' < MaxAttempts
      /\ toClient' \in Seq(ToClient)
      /\ toB' \in Seq(ToServer)
      /\ faults' \in Nat
      /\ InFlight(toB') \subseteq InFlight(toB)
      /\ toClient' = toClient \/ \E p : toClient' = Append(toClient, p)
      /\ BP!ChildSends
      /\ BP!ChildBelieves
      /\ BP!ChildReads
    BY <1>1, ChildBMoves
<1>3. NumChunks \in Nat /\ fileExists
    BY <1>1, <1>2, SessionAssumption DEF ChildBInv, ChildInv
<1>4. QueuesOK'
    BY <1>1, <1>2 DEF QueuesOK
<1>5. ChildBInv'
    <2>1. /\ windowB'.current = filePosB'
          /\ srvB' \in A!EofStates => filePosB' = NumChunks
          /\ srvB' # Unborn => fileExists'
        BY <1>1, <1>2, <1>3
            DEF BP!ChildReads, ChildBInv, ChildInv, A!EofStates, BP!EofStates
    <2>2. windowB'.lowest <= buffer'.current
        BY <1>1, <1>2 DEF BP!ChildBelieves, ChildBInv, ChildInv, InFlight, BP!InFlight,
            FLAG_RR, BP!FLAG_RR
    <2>3. \A p \in InFlight(toB') : p.flag = FLAG_RR => p.data <= buffer'.current
        BY <1>1, <1>2 DEF ChildBInv, ChildInv
    <2> QED BY <1>2, <2>1, <2>2, <2>3 DEF ChildBInv, ChildInv
<1>6. ChildAInv'
    BY <1>1 DEF ChildAInv, ChildInv
<1>7. filePosB = NumChunks => filePosB' = NumChunks
    BY <1>1, <1>2, <1>3 DEF BP!ChildReads, ChildBInv, ChildInv
<1>8. WholeFileRead => WholeFileRead'
    BY <1>1, <1>7 DEF WholeFileRead
<1>9. NewsInv'
    <2> SUFFICES ASSUME NEW p \in InFlight(toClient')
                 PROVE  /\ p.flag = FLAG_EOF => p.seq = NumChunks /\ WholeFileRead'
                        /\ p.flag \in DataFlags \cup {FLAG_FILENAME_ACK} => fileExists'
                        /\ p.flag = FLAG_FILENAME_ERROR =>
                                ~fileExists' \/ "fopen" \in crashes'
        BY DEF NewsInv
    <2>1. CASE p \in InFlight(toClient)
        BY <1>1, <1>8, <2>1 DEF NewsInv
    <2>2. CASE p = Corrupted
        BY <2>2 DEF Corrupted, build_packet, FLAG_EOF, DataFlags, FLAG_DATA,
            FLAG_RESENT_DATA, FLAG_RESENT_TIMEOUT, FLAG_FILENAME_ACK, FLAG_FILENAME_ERROR
    <2>3. CASE p.flag \in DataFlags
        BY <1>1, <1>3, <2>3 DEF FLAG_EOF, DataFlags, FLAG_DATA,
            FLAG_RESENT_DATA, FLAG_RESENT_TIMEOUT, FLAG_FILENAME_ACK, FLAG_FILENAME_ERROR
    <2>4. CASE p.flag = FLAG_EOF /\ p.seq = windowB.current /\ srvB = "WAIT_EOF_ACK"
        <3>1. filePosB = NumChunks /\ p.seq = NumChunks
            BY <1>1, <2>4 DEF ChildBInv, ChildInv, A!EofStates
        <3> QED BY <1>1, <1>3, <1>7, <2>4, <3>1 DEF WholeFileRead, FLAG_EOF, FLAG_FILENAME_ERROR
    <2> QED BY <1>2, <2>1, <2>2, <2>3, <2>4 DEF BP!ChildSends, InFlight, BP!InFlight,
            BP!Corrupted, Corrupted, BP!build_packet, build_packet, BP!DataFlags, DataFlags,
            FLAG_DATA, FLAG_RESENT_DATA, FLAG_RESENT_TIMEOUT, FLAG_EOF,
            BP!FLAG_DATA, BP!FLAG_RESENT_DATA, BP!FLAG_RESENT_TIMEOUT, BP!FLAG_EOF
<1>10. ForkInv' /\ AnswerIsTrue' /\ NoEarlyExit'
    BY <1>1, <1>2, <1>8 DEF ForkInv, AnswerIsTrue, NoEarlyExit, WholeFileRead
<1>11. TypeOK'
    <2>1. origins' \in Seq(Senders) /\ Len(origins') = Len(toClient')
        BY <1>1, <1>2, OriginsGrow DEF TypeOK, QueuesOK, Senders
    <2> QED BY <1>1, <1>2, <2>1 DEF TypeOK, ExchangeL!ExchangeTypeOK, ReceiveL!RcopyTypeOK,
            Parent!ListenerTypeOK
<1> QED BY <1>4, <1>5, <1>6, <1>9, <1>10, <1>11 DEF SessionInv

\* What an answer of the first process adds to rcopy's queue.
LEMMA AnswerSent ==
    ASSUME QueuesOK, NEW f \in Nat, Parent!SendToClient(build_packet(0, f, NoData))
    PROVE  /\ toClient' \in Seq(ToClient)
           /\ faults' \in Nat
           /\ toClient' = toClient \/ \E p : toClient' = Append(toClient, p)
           /\ \A p \in InFlight(toClient') :
                p \in InFlight(toClient) \/ p = Corrupted \/ p.flag = f
<1> DEFINE a == build_packet(0, f, NoData)
<1>1. a \in ToClient /\ Corrupted \in ToClient /\ a.flag = f
    BY PacketTypes DEF build_packet
<1> HIDE DEF a
<1>2. LP!SendToClient(a)
    BY DEF a, LP!SendToClient, Parent!SendToClient, LP!Fates, Parent!Fates, LP!Cost,
        Parent!Cost, LP!Put, Parent!Put, LP!Corrupted, Parent!Corrupted, LP!build_packet,
        Parent!build_packet
<1>3. LP!Corrupted = Corrupted
    BY DEF LP!Corrupted, Corrupted, LP!build_packet, build_packet
<1>4. /\ toClient' \in Seq(ToClient)
      /\ faults' \in Nat
      /\ LP!InFlight(toClient') \subseteq LP!InFlight(toClient) \cup {a, Corrupted}
    BY <1>1, <1>2, <1>3, LP!SendToClientAdds, PayloadAssumption, SizeAssumption,
        SessionAssumption DEF QueuesOK
<1>5. toClient' = toClient \/ \E p : toClient' = Append(toClient, p)
    BY <1>2 DEF LP!SendToClient, LP!Put
<1> QED BY <1>1, <1>4, <1>5 DEF InFlight, LP!InFlight

\* A step of the first process, or its fopen without a descriptor.
LEMMA ListenerMoves ==
    ASSUME QueuesOK, Parent!ListenerTypeOK, listener = "FORK" => fileExists,
           Parent!ListenerNext \/ (Parent!RefuseForWant /\ "fopen" \in crashes')
    PROVE  /\ toClient' \in Seq(ToClient)
           /\ toListener' \in Seq(ToServer)
           /\ faults' \in Nat
           /\ fileExists' = fileExists
           /\ toClient' = toClient \/ \E p : toClient' = Append(toClient, p)
           /\ \A p \in InFlight(toClient') :
                \/ p \in InFlight(toClient)
                \/ p = Corrupted
                \/ p.flag = FLAG_FILENAME_ACK /\ fileExists
                \/ p.flag = FLAG_FILENAME_ERROR /\ (~fileExists \/ "fopen" \in crashes')
           /\ Parent!ListenerTypeOK'
           /\ listener' = "FORK" => fileExists
           /\ children' = children \/ (children' = children + 1 /\ fileExists)
<1>1. /\ MaxAttempts \in Nat \ {0} /\ MaxChildren \in 0..2
      /\ toClient \in Seq(ToClient) /\ toListener \in Seq(ToServer) /\ faults \in Nat
    BY SessionAssumption DEF QueuesOK
<1>2. ASSUME NEW p, Parent!NextPacket(p)
      PROVE  toListener' \in Seq(ToServer) /\ UNCHANGED fileExists
    BY <1>1, <1>2 DEF Parent!NextPacket
<1>3. CASE Parent!BadRequest \/ Parent!ShortPacket
    <2>1. /\ toListener' \in Seq(ToServer)
          /\ UNCHANGED <<fileExists, children, toClient, faults>>
          /\ listener' \in {listener, "CRASHED"}
        BY <1>2, <1>3 DEF Parent!BadRequest, Parent!ShortPacket
    <2>2. badRequests' \in 0..(MaxAttempts - 1)
        BY <1>1, <1>3 DEF Parent!BadRequest, Parent!ShortPacket, Parent!ListenerTypeOK
    <2> QED BY <1>1, <2>1, <2>2 DEF Parent!ListenerTypeOK
<1>4. CASE \/ Parent!RefuseRequest
           \/ Parent!RefuseForWant /\ "fopen" \in crashes'
    <2>1. /\ toListener' \in Seq(ToServer)
          /\ UNCHANGED <<fileExists, children, listener>>
          /\ badRequests' = 0
          /\ Parent!SendToClient(build_packet(0, FLAG_FILENAME_ERROR, NoData))
        BY <1>2, <1>4 DEF Parent!RefuseRequest, Parent!RefuseForWant, Parent!Refuse,
            Parent!build_packet, build_packet, Parent!FLAG_FILENAME_ERROR, FLAG_FILENAME_ERROR
    <2>2. /\ toClient' \in Seq(ToClient)
          /\ faults' \in Nat
          /\ toClient' = toClient \/ \E p : toClient' = Append(toClient, p)
          /\ \A p \in InFlight(toClient') :
                p \in InFlight(toClient) \/ p = Corrupted \/ p.flag = FLAG_FILENAME_ERROR
        BY <2>1, AnswerSent DEF FLAG_FILENAME_ERROR
    <2>3. ~fileExists \/ "fopen" \in crashes'
        BY <1>4 DEF Parent!RefuseRequest
    <2> QED BY <1>1, <2>1, <2>2, <2>3 DEF Parent!ListenerTypeOK
<1>5. CASE Parent!AcceptRequest
    <2>1. /\ toListener' \in Seq(ToServer)
          /\ UNCHANGED <<fileExists, children>>
          /\ fileExists
          /\ listener' = "FORK"
          /\ badRequests' = 0
          /\ Parent!SendToClient(build_packet(0, FLAG_FILENAME_ACK, NoData))
        BY <1>2, <1>5 DEF Parent!AcceptRequest,
            Parent!build_packet, build_packet, Parent!FLAG_FILENAME_ACK, FLAG_FILENAME_ACK
    <2>2. /\ toClient' \in Seq(ToClient)
          /\ faults' \in Nat
          /\ toClient' = toClient \/ \E p : toClient' = Append(toClient, p)
          /\ \A p \in InFlight(toClient') :
                p \in InFlight(toClient) \/ p = Corrupted \/ p.flag = FLAG_FILENAME_ACK
        BY <2>1, AnswerSent DEF FLAG_FILENAME_ACK
    <2> QED BY <1>1, <2>1, <2>2 DEF Parent!ListenerTypeOK
<1>6. CASE Parent!Fork
    BY <1>1, <1>6 DEF Parent!Fork, Parent!netVars, Parent!ListenerTypeOK
<1> QED BY <1>3, <1>4, <1>5, <1>6 DEF Parent!ListenerNext

\* Both keep the invariant.
LEMMA ListenerKeeps ==
    ASSUME SessionInv, ListenerNext \/ FileRefused
    PROVE  SessionInv'
<1>1. /\ TypeOK /\ QueuesOK /\ ChildAInv /\ ChildBInv /\ NewsInv /\ ForkInv
      /\ NoEarlyExit /\ AnswerIsTrue
      /\ Parent!ListenerTypeOK
      /\ Parent!ListenerNext \/ (Parent!RefuseForWant /\ "fopen" \in crashes')
      /\ SentBy("listener")
      /\ UNCHANGED <<phase, requests, buffer, rcv, out, peer, toA, toB,
                     windowA, filePosA, attemptsA, windowB, filePosB, attemptsB>>
    BY DEF SessionInv, TypeOK, ListenerNext, FileRefused, clientVars, exchangeVars,
        receiveVars, childAVars, childBVars, Crash
<1>2. /\ crashes' \subseteq Crashes
      /\ crashes \subseteq crashes'
    BY <1>1 DEF ListenerNext, FileRefused, Crash, Crashes, TypeOK
<1>3. /\ srvA' \in {srvA, Forked(1, srvA)}
      /\ srvB' \in {srvB, Forked(2, srvB)}
    BY DEF ListenerNext, FileRefused, childAVars, childBVars
<1>4. /\ toClient' \in Seq(ToClient)
      /\ toListener' \in Seq(ToServer)
      /\ faults' \in Nat
      /\ fileExists' = fileExists
      /\ toClient' = toClient \/ \E p : toClient' = Append(toClient, p)
      /\ \A p \in InFlight(toClient') :
            \/ p \in InFlight(toClient)
            \/ p = Corrupted
            \/ p.flag = FLAG_FILENAME_ACK /\ fileExists
            \/ p.flag = FLAG_FILENAME_ERROR /\ (~fileExists \/ "fopen" \in crashes')
      /\ Parent!ListenerTypeOK'
      /\ listener' = "FORK" => fileExists
      /\ children' = children \/ (children' = children + 1 /\ fileExists)
    BY <1>1, ListenerMoves DEF ForkInv
<1>5. /\ children \in 0..2
      /\ srvA' = srvA \/ (srvA' = "SEND_DATA" /\ srvA = Unborn /\ fileExists)
      /\ srvB' = srvB \/ (srvB' = "SEND_DATA" /\ srvB = Unborn /\ fileExists)
    <2>1. children \in 0..2
        BY <1>1, SessionAssumption DEF Parent!ListenerTypeOK
    <2> QED BY <1>1, <1>3, <1>4, <2>1 DEF Forked, ForkInv
<1>6. QueuesOK'
    BY <1>1, <1>4 DEF QueuesOK
<1>7. ChildAInv' /\ ChildBInv'
    <2>1. "SEND_DATA" \in A!ServerStates \ (A!EofStates \cup A!Stopped) /\ Unborn \notin A!Stopped
        BY DEF A!ServerStates, A!EofStates, A!Stopped, Unborn
    <2>2. ChildAInv'
        BY <1>1, <1>4, <1>5, <2>1 DEF ChildAInv, ChildInv
    <2>3. ChildBInv'
        BY <1>1, <1>4, <1>5, <2>1 DEF ChildBInv, ChildInv
    <2> QED BY <2>2, <2>3
<1>8. NewsInv'
    BY <1>1, <1>2, <1>4 DEF NewsInv, WholeFileRead, Corrupted, build_packet, FLAG_EOF,
        DataFlags, FLAG_DATA, FLAG_RESENT_DATA, FLAG_RESENT_TIMEOUT, FLAG_FILENAME_ACK,
        FLAG_FILENAME_ERROR
<1>9. ForkInv'
    <2>1. CASE children' = children
        BY <1>1, <1>3, <1>4, <2>1 DEF ForkInv, Forked
    <2>2. CASE children' = children + 1
        BY <1>1, <1>3, <1>4, <1>5, <2>2 DEF ForkInv, Forked
    <2> QED BY <1>4, <2>1, <2>2
<1>10. AnswerIsTrue' /\ NoEarlyExit'
    BY <1>1, <1>2, <1>4, <1>5 DEF AnswerIsTrue, NoEarlyExit
<1>11. TypeOK'
    <2>1. origins' \in Seq(Senders) /\ Len(origins') = Len(toClient')
        BY <1>1, <1>4, OriginsGrow DEF TypeOK, QueuesOK, Senders
    <2>2. {srvA', srvB'} \subseteq A!ServerStates \cup {Unborn, Killed}
        BY <1>7 DEF ChildAInv, ChildBInv, ChildInv
    <2> QED BY <1>1, <1>2, <1>4, <2>1, <2>2
            DEF TypeOK, ExchangeL!ExchangeTypeOK, ReceiveL!RcopyTypeOK
<1> QED BY <1>6, <1>7, <1>8, <1>9, <1>10, <1>11 DEF SessionInv

\* A kill, a failed fork and a restart keep the invariant.
LEMMA MisfortuneKeeps ==
    ASSUME SessionInv, Misfortune
    PROVE  SessionInv'
<1>1. /\ TypeOK /\ QueuesOK /\ ChildAInv /\ ChildBInv /\ NewsInv /\ ForkInv
      /\ NoEarlyExit /\ AnswerIsTrue
    BY DEF SessionInv
<1>2. MaxAttempts \in Nat \ {0}
    BY SessionAssumption
<1>3. ASSUME NEW what \in Crashes, Crash(what)
      PROVE  crashes' \subseteq Crashes /\ crashes \subseteq crashes'
    BY <1>1, <1>3 DEF Crash, TypeOK
<1>4. CASE KillListener \/ ForkFailure \/ RestartListener
    <2>1. /\ UNCHANGED <<phase, requests, buffer, rcv, out, peer, children, fileExists,
                         windowA, filePosA, srvA, attemptsA,
                         windowB, filePosB, srvB, attemptsB,
                         toClient, origins, toA, toB, faults>>
          /\ toListener' \in {toListener, <<>>}
          /\ listener' \in {"LISTEN", "KILLED"}
          /\ badRequests' \in {badRequests, 0}
        BY <1>4 DEF KillListener, ForkFailure, RestartListener, Parent!Kill,
            Parent!ForkFailure, Parent!Restart, Parent!netVars, clientVars, exchangeVars,
            receiveVars, childAVars, childBVars
    <2>2. crashes' \subseteq Crashes /\ crashes \subseteq crashes'
        BY <1>1, <1>3, <1>4 DEF KillListener, ForkFailure, RestartListener, Crashes, TypeOK
    <2>3. QueuesOK'
        <3>1. <<>> \in Seq(ToServer)
            OBVIOUS
        <3>2. toListener' \in Seq(ToServer)
            BY <1>1, <2>1, <3>1 DEF QueuesOK
        <3> QED BY <1>1, <2>1, <3>2 DEF QueuesOK
    <2>4. ChildAInv' /\ ChildBInv'
        BY <1>1, <2>1 DEF ChildAInv, ChildBInv, ChildInv
    <2>5. NewsInv' /\ ForkInv' /\ NoEarlyExit' /\ AnswerIsTrue'
        BY <1>1, <2>1, <2>2 DEF NewsInv, WholeFileRead, ForkInv, NoEarlyExit, AnswerIsTrue
    <2>6. TypeOK'
        BY <1>1, <1>2, <2>1, <2>2 DEF TypeOK, ExchangeL!ExchangeTypeOK,
            ReceiveL!RcopyTypeOK, Parent!ListenerTypeOK
    <2> QED BY <2>3, <2>4, <2>5, <2>6 DEF SessionInv
<1>5. CASE KillChildA \/ KillChildB
    <2>1. /\ UNCHANGED <<phase, requests, buffer, rcv, out, peer,
                         listener, badRequests, children, fileExists,
                         windowA, filePosA, attemptsA, windowB, filePosB, attemptsB,
                         toClient, origins, toListener, toA, toB, faults>>
          /\ srvA' = srvA \/ (srvA' = Killed /\ srvA \notin NotRunning)
          /\ srvB' = srvB \/ (srvB' = Killed /\ srvB \notin NotRunning)
        BY <1>5 DEF KillChildA, KillChildB, clientVars, exchangeVars, receiveVars,
            listenerVars, childAVars, childBVars, queueVars
    <2>2. crashes' \subseteq Crashes /\ crashes \subseteq crashes'
        BY <1>3, <1>5 DEF KillChildA, KillChildB, Crashes
    <2>3. QueuesOK'
        BY <1>1, <2>1 DEF QueuesOK
    <2>4. ChildAInv' /\ ChildBInv'
        <3>1. Killed \notin A!EofStates \cup A!Stopped
            BY DEF Killed, A!EofStates, A!Stopped
        <3>2. ChildAInv'
            BY <1>1, <2>1, <3>1 DEF ChildAInv, ChildInv, NotRunning
        <3>3. ChildBInv'
            BY <1>1, <2>1, <3>1 DEF ChildBInv, ChildInv, NotRunning
        <3> QED BY <3>2, <3>3
    <2>5. NewsInv' /\ ForkInv' /\ NoEarlyExit' /\ AnswerIsTrue'
        BY <1>1, <2>1, <2>2
            DEF NewsInv, WholeFileRead, ForkInv, NoEarlyExit, AnswerIsTrue, NotRunning
    <2>6. TypeOK'
        BY <1>1, <2>1, <2>2 DEF TypeOK, ExchangeL!ExchangeTypeOK,
            ReceiveL!RcopyTypeOK, Parent!ListenerTypeOK
    <2> QED BY <2>3, <2>4, <2>5, <2>6 DEF SessionInv
<1>6. CASE KillClient
    <2>1. /\ UNCHANGED <<requests, buffer, rcv, out, peer,
                         listener, badRequests, children, fileExists,
                         windowA, filePosA, srvA, attemptsA,
                         windowB, filePosB, srvB, attemptsB,
                         toClient, origins, toListener, toA, toB, faults>>
          /\ phase' = "DONE"
        BY <1>6 DEF KillClient, receiveVars, listenerVars, childAVars, childBVars, queueVars
    <2>2. crashes' \subseteq Crashes /\ crashes \subseteq crashes'
        BY <1>3, <1>6 DEF KillClient, Crashes
    <2>3. QueuesOK' /\ ChildAInv' /\ ChildBInv'
        BY <1>1, <2>1 DEF QueuesOK, ChildAInv, ChildBInv, ChildInv
    <2>4. NewsInv' /\ ForkInv' /\ NoEarlyExit' /\ AnswerIsTrue'
        BY <1>1, <2>1, <2>2 DEF NewsInv, WholeFileRead, ForkInv, NoEarlyExit, AnswerIsTrue
    <2>5. TypeOK'
        BY <1>1, <2>1, <2>2 DEF TypeOK, ExchangeL!ExchangeTypeOK, ExchangeL!Phases,
            ReceiveL!RcopyTypeOK, Parent!ListenerTypeOK
    <2> QED BY <2>3, <2>4, <2>5 DEF SessionInv
<1>7. CASE FileRefused
    BY <1>7, ListenerKeeps
<1> QED BY <1>4, <1>5, <1>6, <1>7 DEF Misfortune

------------------------------------------------------------------------------
(***************************************************************************)
(* rcopy.                                                                  *)
(***************************************************************************)

\* What any step of rcopy does, whomever it sends to.
ClientMoves ==
    /\ toClient' = toClient \/ (toClient # <<>> /\ toClient' = Tail(toClient))
    /\ {toListener', toA', toB'} \subseteq Seq(ToServer)
    /\ faults' \in Nat
    /\ buffer'.current \in Nat /\ buffer'.current >= buffer.current
    /\ \A p \in InFlight(toA') : p.flag = FLAG_RR =>
            p \in InFlight(toA) \/ p.data = buffer'.current
    /\ \A p \in InFlight(toB') : p.flag = FLAG_RR =>
            p \in InFlight(toB) \/ p.data = buffer'.current
    /\ ReceiveL!RcopyTypeOK'
    /\ ExchangeL!ExchangeTypeOK'
    /\ rcv' = "EXIT" /\ rcv # "EXIT" =>
            /\ buffer' = buffer
            /\ \E p \in InFlight(toClient) : p.flag = FLAG_EOF /\ buffer.current > p.seq
    /\ phase' = "RECEIVE_DATA" /\ phase # "RECEIVE_DATA" =>
            \E p \in InFlight(toClient) : p.flag \in DataFlags \cup {FLAG_FILENAME_ACK}
    /\ phase' = "NO_FILE" /\ phase # "NO_FILE" =>
            \E p \in InFlight(toClient) : p.flag = FLAG_FILENAME_ERROR
    /\ out' = out \/ phase = "RECEIVE_DATA"

\* rcopy, while it sends to child A, is the rcopy of BasicTheorems.
LEMMA RcopyAIsRcopy ==
    /\ ReceiveA!ClientStep => AP!ClientStep
    /\ ReceiveA!ClientTimeout => AP!ClientTimeout
    /\ ReceiveA!ClientNext => AP!ClientNext
BY DEF ReceiveA!ClientNext, AP!ClientNext, ReceiveA!ClientTimeout,
    AP!ClientTimeout, ReceiveA!ClientStep, AP!ClientStep,
    ReceiveA!handle_inorder, AP!handle_inorder, ReceiveA!handle_buffer,
    AP!handle_buffer, ReceiveA!handle_flush, AP!handle_flush,
    ReceiveA!DropCorrupted, AP!DropCorrupted, ReceiveA!ExitTransfer,
    AP!ExitTransfer, ReceiveA!Accepted, AP!Accepted, ReceiveA!Received,
    AP!Received, ReceiveA!IsLastEof, AP!IsLastEof, ReceiveA!AckAgain,
    AP!AckAgain, ReceiveA!Stored, AP!Stored, ReceiveA!WriteInorder,
    AP!WriteInorder, ReceiveA!GapFound, AP!GapFound, ReceiveA!FillGap,
    AP!FillGap, ReceiveA!StoreEarly, AP!StoreEarly, ReceiveA!FlushEntry,
    AP!FlushEntry, ReceiveA!NothingMissing, AP!NothingMissing,
    ReceiveA!FlushEnd, AP!FlushEnd, ReceiveA!Receiving, AP!Receiving,
    ReceiveA!Written, AP!Written, ReceiveA!SendToServer, AP!SendToServer,
    ReceiveA!SendTwoToServer, AP!SendTwoToServer, ReceiveA!RR, AP!RR,
    ReceiveA!SREJ, AP!SREJ, ReceiveA!rcopyVars, AP!rcopyVars, ReceiveA!Put,
    AP!Put, ReceiveA!Fates, AP!Fates, ReceiveA!Cost, AP!Cost,
    ReceiveA!netVars, AP!netVars, ReceiveA!buffer_add, AP!buffer_add,
    ReceiveA!Entry, AP!Entry, ReceiveA!Slot, AP!Slot,
    ReceiveA!build_packet, AP!build_packet, ReceiveA!Corrupted,
    AP!Corrupted, ReceiveA!BadChecksum, AP!BadChecksum, ReceiveA!FLAG_RR,
    AP!FLAG_RR, ReceiveA!FLAG_SREJ, AP!FLAG_SREJ, ReceiveA!FLAG_EOF,
    AP!FLAG_EOF

\* rcopy sends to child A.
LEMMA ReceivesA ==
    ASSUME QueuesOK, ReceiveL!RcopyTypeOK, ExchangeL!ExchangeTypeOK,
           phase = "RECEIVE_DATA", ReceiveA!ClientNext,
           UNCHANGED <<phase, requests, toListener, toB>>
    PROVE  ClientMoves
<1>1. AP!ClientNext
    BY RcopyAIsRcopy
<1>2. /\ toClient \in Seq(ToClient) /\ toA \in Seq(ToServer) /\ faults \in Nat
      /\ AP!ServerBound \subseteq ToServer
      /\ AP!Readable(ToClient)
    BY DEF QueuesOK, AP!ServerBound, AP!Readable, ToServer, ToClient, AP!FLAG_RR,
        AP!FLAG_SREJ, FLAG_RR, FLAG_SREJ, AP!FLAG_EOF, AP!Payload, Payload,
        AP!Corrupted, AP!build_packet
<1>3. AP!RcopyTypeOK
    BY DEF ReceiveL!RcopyTypeOK, AP!RcopyTypeOK, ReceiveL!CircularBuffer,
        AP!CircularBuffer, ReceiveL!BufferEntry, AP!BufferEntry, ReceiveL!Slots,
        AP!Slots, ReceiveL!Payload, AP!Payload, ReceiveL!RecvStates, AP!RecvStates
<1>4. /\ AP!RcopyTypeOK'
      /\ toA' \in Seq(ToServer)
      /\ faults' \in Nat
      /\ buffer'.current \in Nat /\ buffer'.current >= buffer.current
      /\ AP!ClientAcks
      /\ AP!ClientExits
    BY <1>1, <1>2, <1>3, AP!ClientNextEffect, PayloadAssumption, SizeAssumption,
        SessionAssumption
<1>5. toClient' = toClient \/ (toClient # <<>> /\ toClient' = Tail(toClient))
    BY <1>1, AP!ClientTakes, PayloadAssumption, SizeAssumption, SessionAssumption
<1>6. ReceiveL!RcopyTypeOK'
    BY <1>4 DEF ReceiveL!RcopyTypeOK, AP!RcopyTypeOK, ReceiveL!CircularBuffer,
        AP!CircularBuffer, ReceiveL!BufferEntry, AP!BufferEntry, ReceiveL!Slots,
        AP!Slots, ReceiveL!Payload, AP!Payload, ReceiveL!RecvStates, AP!RecvStates
<1>7. ExchangeL!ExchangeTypeOK'
    BY DEF ExchangeL!ExchangeTypeOK
<1>8. \A p \in InFlight(toA') : p.flag = FLAG_RR =>
            p \in InFlight(toA) \/ p.data = buffer'.current
    BY <1>4 DEF AP!ClientAcks, InFlight, AP!InFlight, FLAG_RR, AP!FLAG_RR
<1>9. rcv' = "EXIT" /\ rcv # "EXIT" =>
        /\ buffer' = buffer
        /\ \E p \in InFlight(toClient) : p.flag = FLAG_EOF /\ buffer.current > p.seq
    BY <1>4 DEF AP!ClientExits, InFlight, AP!InFlight, FLAG_EOF, AP!FLAG_EOF
<1> QED BY <1>2, <1>4, <1>5, <1>6, <1>7, <1>8, <1>9 DEF ClientMoves, QueuesOK

\* It asks there for the file, or reads the answer.
LEMMA AsksA ==
    ASSUME QueuesOK, ReceiveL!RcopyTypeOK, ExchangeL!ExchangeTypeOK,
           ExchangeA!ExchangeStep \/ ExchangeA!NoAnswer,
           UNCHANGED <<buffer, rcv, out, toListener, toB>>
    PROVE  ClientMoves
<1>1. /\ toClient \in Seq(ToClient) /\ toA \in Seq(ToServer) /\ faults \in Nat
      /\ buffer.current \in Nat /\ buffer.current >= buffer.current
      /\ MaxRequests \in Nat \ {0}
      /\ ReceiveL!RcopyTypeOK'
    BY SessionAssumption DEF QueuesOK, ReceiveL!RcopyTypeOK, ReceiveL!CircularBuffer
<1>2. CASE ExchangeA!send_filename
    <2> DEFINE r == build_packet(0, FLAG_FILENAME, NoData)
    <2>1. /\ phase' = "POLL" /\ phase = "SEND_FILENAME" /\ requests <= MaxRequests
          /\ UNCHANGED <<requests, toClient>>
          /\ AP!SendToServer(r)
        BY <1>2 DEF ExchangeA!send_filename, ExchangeA!Request, ExchangeA!build_packet,
            build_packet, ExchangeA!FLAG_FILENAME, FLAG_FILENAME, ExchangeA!SendToServer,
            AP!SendToServer, ExchangeA!Put, AP!Put, ExchangeA!Fates, AP!Fates,
            ExchangeA!Cost, AP!Cost, ExchangeA!Corrupted, AP!Corrupted, AP!build_packet
    <2>2. /\ r \in ToServer /\ AP!Corrupted \in ToServer
          /\ r.flag # FLAG_RR /\ AP!Corrupted.flag # FLAG_RR
        BY PacketTypes DEF Corrupted, AP!Corrupted, build_packet, AP!build_packet,
            FLAG_FILENAME, FLAG_RR
    <2> HIDE DEF r
    <2>3. /\ toA' \in Seq(ToServer) /\ faults' \in Nat
          /\ AP!InFlight(toA') \subseteq AP!InFlight(toA) \cup {r, AP!Corrupted}
        BY <1>1, <2>1, <2>2, AP!SendToServerAdds, PayloadAssumption, SizeAssumption,
            SessionAssumption
    <2>4. \A p \in InFlight(toA') : p.flag = FLAG_RR =>
            p \in InFlight(toA) \/ p.data = buffer'.current
        BY <2>2, <2>3 DEF InFlight, AP!InFlight
    <2>5. ExchangeL!ExchangeTypeOK'
        BY <1>1, <2>1 DEF ExchangeL!ExchangeTypeOK, ExchangeL!Phases
    <2> QED BY <1>1, <2>1, <2>3, <2>4, <2>5 DEF ClientMoves, QueuesOK
<1>3. CASE ExchangeA!OutOfRequests \/ ExchangeA!NoAnswer
    <2>1. /\ UNCHANGED <<toClient, toA, faults>>
          /\ phase' \in {"DONE", "SEND_FILENAME"}
        BY <1>3 DEF ExchangeA!OutOfRequests, ExchangeA!NoAnswer, ExchangeA!netVars
    <2>2. ExchangeL!ExchangeTypeOK'
        BY <1>1, <1>3 DEF ExchangeA!OutOfRequests, ExchangeA!NoAnswer,
            ExchangeL!ExchangeTypeOK, ExchangeL!Phases
    <2> QED BY <1>1, <2>1, <2>2 DEF ClientMoves, QueuesOK
<1>4. CASE ExchangeA!AnswerYes \/ ExchangeA!AnswerNo \/ ExchangeA!AnswerIgnored
    <2> DEFINE p == Head(toClient)
    <2>1. /\ UNCHANGED <<toA, faults>>
          /\ phase = "POLL" /\ toClient # <<>> /\ toClient' = Tail(toClient)
        BY <1>4 DEF ExchangeA!AnswerYes, ExchangeA!AnswerNo, ExchangeA!AnswerIgnored,
            ExchangeA!Answered
    <2>2. p \in InFlight(toClient)
        BY <1>1, <2>1, AP!InFlightTail, PayloadAssumption, SizeAssumption, SessionAssumption
            DEF InFlight, AP!InFlight
    <2>3. phase' = "RECEIVE_DATA" => p.flag \in DataFlags \cup {FLAG_FILENAME_ACK}
        BY <1>4 DEF ExchangeA!AnswerYes, ExchangeA!AnswerNo, ExchangeA!AnswerIgnored,
            ExchangeA!IsYes, ExchangeA!FLAG_FILENAME_ACK, FLAG_FILENAME_ACK,
            ExchangeA!FLAG_DATA, FLAG_DATA, DataFlags
    <2>4. phase' = "NO_FILE" => p.flag = FLAG_FILENAME_ERROR
        BY <1>4 DEF ExchangeA!AnswerYes, ExchangeA!AnswerNo, ExchangeA!AnswerIgnored,
            ExchangeA!IsNo, ExchangeA!FLAG_FILENAME_ERROR, FLAG_FILENAME_ERROR
    <2>5. ExchangeL!ExchangeTypeOK'
        BY <1>1, <1>4, <2>1 DEF ExchangeA!AnswerYes, ExchangeA!AnswerNo,
            ExchangeA!AnswerIgnored, ExchangeL!ExchangeTypeOK, ExchangeL!Phases
    <2> HIDE DEF p
    <2> QED BY <1>1, <2>1, <2>2, <2>3, <2>4, <2>5 DEF ClientMoves, QueuesOK
<1> QED BY <1>2, <1>3, <1>4 DEF ExchangeA!ExchangeStep

\* rcopy, while it sends to child B, is the rcopy of BasicTheorems.
LEMMA RcopyBIsRcopy ==
    /\ ReceiveB!ClientStep => BP!ClientStep
    /\ ReceiveB!ClientTimeout => BP!ClientTimeout
    /\ ReceiveB!ClientNext => BP!ClientNext
BY DEF ReceiveB!ClientNext, BP!ClientNext, ReceiveB!ClientTimeout,
    BP!ClientTimeout, ReceiveB!ClientStep, BP!ClientStep,
    ReceiveB!handle_inorder, BP!handle_inorder, ReceiveB!handle_buffer,
    BP!handle_buffer, ReceiveB!handle_flush, BP!handle_flush,
    ReceiveB!DropCorrupted, BP!DropCorrupted, ReceiveB!ExitTransfer,
    BP!ExitTransfer, ReceiveB!Accepted, BP!Accepted, ReceiveB!Received,
    BP!Received, ReceiveB!IsLastEof, BP!IsLastEof, ReceiveB!AckAgain,
    BP!AckAgain, ReceiveB!Stored, BP!Stored, ReceiveB!WriteInorder,
    BP!WriteInorder, ReceiveB!GapFound, BP!GapFound, ReceiveB!FillGap,
    BP!FillGap, ReceiveB!StoreEarly, BP!StoreEarly, ReceiveB!FlushEntry,
    BP!FlushEntry, ReceiveB!NothingMissing, BP!NothingMissing,
    ReceiveB!FlushEnd, BP!FlushEnd, ReceiveB!Receiving, BP!Receiving,
    ReceiveB!Written, BP!Written, ReceiveB!SendToServer, BP!SendToServer,
    ReceiveB!SendTwoToServer, BP!SendTwoToServer, ReceiveB!RR, BP!RR,
    ReceiveB!SREJ, BP!SREJ, ReceiveB!rcopyVars, BP!rcopyVars, ReceiveB!Put,
    BP!Put, ReceiveB!Fates, BP!Fates, ReceiveB!Cost, BP!Cost,
    ReceiveB!netVars, BP!netVars, ReceiveB!buffer_add, BP!buffer_add,
    ReceiveB!Entry, BP!Entry, ReceiveB!Slot, BP!Slot,
    ReceiveB!build_packet, BP!build_packet, ReceiveB!Corrupted,
    BP!Corrupted, ReceiveB!BadChecksum, BP!BadChecksum, ReceiveB!FLAG_RR,
    BP!FLAG_RR, ReceiveB!FLAG_SREJ, BP!FLAG_SREJ, ReceiveB!FLAG_EOF,
    BP!FLAG_EOF

\* rcopy sends to child B.
LEMMA ReceivesB ==
    ASSUME QueuesOK, ReceiveL!RcopyTypeOK, ExchangeL!ExchangeTypeOK,
           phase = "RECEIVE_DATA", ReceiveB!ClientNext,
           UNCHANGED <<phase, requests, toListener, toA>>
    PROVE  ClientMoves
<1>1. BP!ClientNext
    BY RcopyBIsRcopy
<1>2. /\ toClient \in Seq(ToClient) /\ toB \in Seq(ToServer) /\ faults \in Nat
      /\ BP!ServerBound \subseteq ToServer
      /\ BP!Readable(ToClient)
    BY DEF QueuesOK, BP!ServerBound, BP!Readable, ToServer, ToClient, BP!FLAG_RR,
        BP!FLAG_SREJ, FLAG_RR, FLAG_SREJ, BP!FLAG_EOF, BP!Payload, Payload,
        BP!Corrupted, BP!build_packet
<1>3. BP!RcopyTypeOK
    BY DEF ReceiveL!RcopyTypeOK, BP!RcopyTypeOK, ReceiveL!CircularBuffer,
        BP!CircularBuffer, ReceiveL!BufferEntry, BP!BufferEntry, ReceiveL!Slots,
        BP!Slots, ReceiveL!Payload, BP!Payload, ReceiveL!RecvStates, BP!RecvStates
<1>4. /\ BP!RcopyTypeOK'
      /\ toB' \in Seq(ToServer)
      /\ faults' \in Nat
      /\ buffer'.current \in Nat /\ buffer'.current >= buffer.current
      /\ BP!ClientAcks
      /\ BP!ClientExits
    BY <1>1, <1>2, <1>3, BP!ClientNextEffect, PayloadAssumption, SizeAssumption,
        SessionAssumption
<1>5. toClient' = toClient \/ (toClient # <<>> /\ toClient' = Tail(toClient))
    BY <1>1, BP!ClientTakes, PayloadAssumption, SizeAssumption, SessionAssumption
<1>6. ReceiveL!RcopyTypeOK'
    BY <1>4 DEF ReceiveL!RcopyTypeOK, BP!RcopyTypeOK, ReceiveL!CircularBuffer,
        BP!CircularBuffer, ReceiveL!BufferEntry, BP!BufferEntry, ReceiveL!Slots,
        BP!Slots, ReceiveL!Payload, BP!Payload, ReceiveL!RecvStates, BP!RecvStates
<1>7. ExchangeL!ExchangeTypeOK'
    BY DEF ExchangeL!ExchangeTypeOK
<1>8. \A p \in InFlight(toB') : p.flag = FLAG_RR =>
            p \in InFlight(toB) \/ p.data = buffer'.current
    BY <1>4 DEF BP!ClientAcks, InFlight, BP!InFlight, FLAG_RR, BP!FLAG_RR
<1>9. rcv' = "EXIT" /\ rcv # "EXIT" =>
        /\ buffer' = buffer
        /\ \E p \in InFlight(toClient) : p.flag = FLAG_EOF /\ buffer.current > p.seq
    BY <1>4 DEF BP!ClientExits, InFlight, BP!InFlight, FLAG_EOF, BP!FLAG_EOF
<1> QED BY <1>2, <1>4, <1>5, <1>6, <1>7, <1>8, <1>9 DEF ClientMoves, QueuesOK

\* It asks there for the file, or reads the answer.
LEMMA AsksB ==
    ASSUME QueuesOK, ReceiveL!RcopyTypeOK, ExchangeL!ExchangeTypeOK,
           ExchangeB!ExchangeStep \/ ExchangeB!NoAnswer,
           UNCHANGED <<buffer, rcv, out, toListener, toA>>
    PROVE  ClientMoves
<1>1. /\ toClient \in Seq(ToClient) /\ toB \in Seq(ToServer) /\ faults \in Nat
      /\ buffer.current \in Nat /\ buffer.current >= buffer.current
      /\ MaxRequests \in Nat \ {0}
      /\ ReceiveL!RcopyTypeOK'
    BY SessionAssumption DEF QueuesOK, ReceiveL!RcopyTypeOK, ReceiveL!CircularBuffer
<1>2. CASE ExchangeB!send_filename
    <2> DEFINE r == build_packet(0, FLAG_FILENAME, NoData)
    <2>1. /\ phase' = "POLL" /\ phase = "SEND_FILENAME" /\ requests <= MaxRequests
          /\ UNCHANGED <<requests, toClient>>
          /\ BP!SendToServer(r)
        BY <1>2 DEF ExchangeB!send_filename, ExchangeB!Request, ExchangeB!build_packet,
            build_packet, ExchangeB!FLAG_FILENAME, FLAG_FILENAME, ExchangeB!SendToServer,
            BP!SendToServer, ExchangeB!Put, BP!Put, ExchangeB!Fates, BP!Fates,
            ExchangeB!Cost, BP!Cost, ExchangeB!Corrupted, BP!Corrupted, BP!build_packet
    <2>2. /\ r \in ToServer /\ BP!Corrupted \in ToServer
          /\ r.flag # FLAG_RR /\ BP!Corrupted.flag # FLAG_RR
        BY PacketTypes DEF Corrupted, BP!Corrupted, build_packet, BP!build_packet,
            FLAG_FILENAME, FLAG_RR
    <2> HIDE DEF r
    <2>3. /\ toB' \in Seq(ToServer) /\ faults' \in Nat
          /\ BP!InFlight(toB') \subseteq BP!InFlight(toB) \cup {r, BP!Corrupted}
        BY <1>1, <2>1, <2>2, BP!SendToServerAdds, PayloadAssumption, SizeAssumption,
            SessionAssumption
    <2>4. \A p \in InFlight(toB') : p.flag = FLAG_RR =>
            p \in InFlight(toB) \/ p.data = buffer'.current
        BY <2>2, <2>3 DEF InFlight, BP!InFlight
    <2>5. ExchangeL!ExchangeTypeOK'
        BY <1>1, <2>1 DEF ExchangeL!ExchangeTypeOK, ExchangeL!Phases
    <2> QED BY <1>1, <2>1, <2>3, <2>4, <2>5 DEF ClientMoves, QueuesOK
<1>3. CASE ExchangeB!OutOfRequests \/ ExchangeB!NoAnswer
    <2>1. /\ UNCHANGED <<toClient, toB, faults>>
          /\ phase' \in {"DONE", "SEND_FILENAME"}
        BY <1>3 DEF ExchangeB!OutOfRequests, ExchangeB!NoAnswer, ExchangeB!netVars
    <2>2. ExchangeL!ExchangeTypeOK'
        BY <1>1, <1>3 DEF ExchangeB!OutOfRequests, ExchangeB!NoAnswer,
            ExchangeL!ExchangeTypeOK, ExchangeL!Phases
    <2> QED BY <1>1, <2>1, <2>2 DEF ClientMoves, QueuesOK
<1>4. CASE ExchangeB!AnswerYes \/ ExchangeB!AnswerNo \/ ExchangeB!AnswerIgnored
    <2> DEFINE p == Head(toClient)
    <2>1. /\ UNCHANGED <<toB, faults>>
          /\ phase = "POLL" /\ toClient # <<>> /\ toClient' = Tail(toClient)
        BY <1>4 DEF ExchangeB!AnswerYes, ExchangeB!AnswerNo, ExchangeB!AnswerIgnored,
            ExchangeB!Answered
    <2>2. p \in InFlight(toClient)
        BY <1>1, <2>1, BP!InFlightTail, PayloadAssumption, SizeAssumption, SessionAssumption
            DEF InFlight, BP!InFlight
    <2>3. phase' = "RECEIVE_DATA" => p.flag \in DataFlags \cup {FLAG_FILENAME_ACK}
        BY <1>4 DEF ExchangeB!AnswerYes, ExchangeB!AnswerNo, ExchangeB!AnswerIgnored,
            ExchangeB!IsYes, ExchangeB!FLAG_FILENAME_ACK, FLAG_FILENAME_ACK,
            ExchangeB!FLAG_DATA, FLAG_DATA, DataFlags
    <2>4. phase' = "NO_FILE" => p.flag = FLAG_FILENAME_ERROR
        BY <1>4 DEF ExchangeB!AnswerYes, ExchangeB!AnswerNo, ExchangeB!AnswerIgnored,
            ExchangeB!IsNo, ExchangeB!FLAG_FILENAME_ERROR, FLAG_FILENAME_ERROR
    <2>5. ExchangeL!ExchangeTypeOK'
        BY <1>1, <1>4, <2>1 DEF ExchangeB!AnswerYes, ExchangeB!AnswerNo,
            ExchangeB!AnswerIgnored, ExchangeL!ExchangeTypeOK, ExchangeL!Phases
    <2> HIDE DEF p
    <2> QED BY <1>1, <2>1, <2>2, <2>3, <2>4, <2>5 DEF ClientMoves, QueuesOK
<1> QED BY <1>2, <1>3, <1>4 DEF ExchangeB!ExchangeStep

\* rcopy, while it sends to the first process, is the rcopy of BasicTheorems.
LEMMA RcopyLIsRcopy ==
    /\ ReceiveL!ClientStep => LP!ClientStep
    /\ ReceiveL!ClientTimeout => LP!ClientTimeout
    /\ ReceiveL!ClientNext => LP!ClientNext
BY DEF ReceiveL!ClientNext, LP!ClientNext, ReceiveL!ClientTimeout,
    LP!ClientTimeout, ReceiveL!ClientStep, LP!ClientStep,
    ReceiveL!handle_inorder, LP!handle_inorder, ReceiveL!handle_buffer,
    LP!handle_buffer, ReceiveL!handle_flush, LP!handle_flush,
    ReceiveL!DropCorrupted, LP!DropCorrupted, ReceiveL!ExitTransfer,
    LP!ExitTransfer, ReceiveL!Accepted, LP!Accepted, ReceiveL!Received,
    LP!Received, ReceiveL!IsLastEof, LP!IsLastEof, ReceiveL!AckAgain,
    LP!AckAgain, ReceiveL!Stored, LP!Stored, ReceiveL!WriteInorder,
    LP!WriteInorder, ReceiveL!GapFound, LP!GapFound, ReceiveL!FillGap,
    LP!FillGap, ReceiveL!StoreEarly, LP!StoreEarly, ReceiveL!FlushEntry,
    LP!FlushEntry, ReceiveL!NothingMissing, LP!NothingMissing,
    ReceiveL!FlushEnd, LP!FlushEnd, ReceiveL!Receiving, LP!Receiving,
    ReceiveL!Written, LP!Written, ReceiveL!SendToServer, LP!SendToServer,
    ReceiveL!SendTwoToServer, LP!SendTwoToServer, ReceiveL!RR, LP!RR,
    ReceiveL!SREJ, LP!SREJ, ReceiveL!rcopyVars, LP!rcopyVars, ReceiveL!Put,
    LP!Put, ReceiveL!Fates, LP!Fates, ReceiveL!Cost, LP!Cost,
    ReceiveL!netVars, LP!netVars, ReceiveL!buffer_add, LP!buffer_add,
    ReceiveL!Entry, LP!Entry, ReceiveL!Slot, LP!Slot,
    ReceiveL!build_packet, LP!build_packet, ReceiveL!Corrupted,
    LP!Corrupted, ReceiveL!BadChecksum, LP!BadChecksum, ReceiveL!FLAG_RR,
    LP!FLAG_RR, ReceiveL!FLAG_SREJ, LP!FLAG_SREJ, ReceiveL!FLAG_EOF,
    LP!FLAG_EOF

\* rcopy sends to the first process.
LEMMA ReceivesL ==
    ASSUME QueuesOK, ReceiveL!RcopyTypeOK, ExchangeL!ExchangeTypeOK,
           phase = "RECEIVE_DATA", ReceiveL!ClientNext,
           UNCHANGED <<phase, requests, toA, toB>>
    PROVE  ClientMoves
<1>1. LP!ClientNext
    BY RcopyLIsRcopy
<1>2. /\ toClient \in Seq(ToClient) /\ toListener \in Seq(ToServer) /\ faults \in Nat
      /\ LP!ServerBound \subseteq ToServer
      /\ LP!Readable(ToClient)
    BY DEF QueuesOK, LP!ServerBound, LP!Readable, ToServer, ToClient, LP!FLAG_RR,
        LP!FLAG_SREJ, FLAG_RR, FLAG_SREJ, LP!FLAG_EOF, LP!Payload, Payload,
        LP!Corrupted, LP!build_packet
<1>3. LP!RcopyTypeOK
    BY DEF ReceiveL!RcopyTypeOK, LP!RcopyTypeOK, ReceiveL!CircularBuffer,
        LP!CircularBuffer, ReceiveL!BufferEntry, LP!BufferEntry, ReceiveL!Slots,
        LP!Slots, ReceiveL!Payload, LP!Payload, ReceiveL!RecvStates, LP!RecvStates
<1>4. /\ LP!RcopyTypeOK'
      /\ toListener' \in Seq(ToServer)
      /\ faults' \in Nat
      /\ buffer'.current \in Nat /\ buffer'.current >= buffer.current
      /\ LP!ClientAcks
      /\ LP!ClientExits
    BY <1>1, <1>2, <1>3, LP!ClientNextEffect, PayloadAssumption, SizeAssumption,
        SessionAssumption
<1>5. toClient' = toClient \/ (toClient # <<>> /\ toClient' = Tail(toClient))
    BY <1>1, LP!ClientTakes, PayloadAssumption, SizeAssumption, SessionAssumption
<1>6. ReceiveL!RcopyTypeOK'
    BY <1>4 DEF ReceiveL!RcopyTypeOK, LP!RcopyTypeOK, ReceiveL!CircularBuffer,
        LP!CircularBuffer, ReceiveL!BufferEntry, LP!BufferEntry, ReceiveL!Slots,
        LP!Slots, ReceiveL!Payload, LP!Payload, ReceiveL!RecvStates, LP!RecvStates
<1>7. ExchangeL!ExchangeTypeOK'
    BY DEF ExchangeL!ExchangeTypeOK
<1>9. rcv' = "EXIT" /\ rcv # "EXIT" =>
        /\ buffer' = buffer
        /\ \E p \in InFlight(toClient) : p.flag = FLAG_EOF /\ buffer.current > p.seq
    BY <1>4 DEF LP!ClientExits, InFlight, LP!InFlight, FLAG_EOF, LP!FLAG_EOF
<1> QED BY <1>2, <1>4, <1>5, <1>6, <1>7, <1>9 DEF ClientMoves, QueuesOK

\* It asks there for the file, or reads the answer.
LEMMA AsksL ==
    ASSUME QueuesOK, ReceiveL!RcopyTypeOK, ExchangeL!ExchangeTypeOK,
           ExchangeL!ExchangeStep \/ ExchangeL!NoAnswer,
           UNCHANGED <<buffer, rcv, out, toA, toB>>
    PROVE  ClientMoves
<1>1. /\ toClient \in Seq(ToClient) /\ toListener \in Seq(ToServer) /\ faults \in Nat
      /\ buffer.current \in Nat /\ buffer.current >= buffer.current
      /\ MaxRequests \in Nat \ {0}
      /\ ReceiveL!RcopyTypeOK'
    BY SessionAssumption DEF QueuesOK, ReceiveL!RcopyTypeOK, ReceiveL!CircularBuffer
<1>2. CASE ExchangeL!send_filename
    <2> DEFINE r == build_packet(0, FLAG_FILENAME, NoData)
    <2>1. /\ phase' = "POLL" /\ phase = "SEND_FILENAME" /\ requests <= MaxRequests
          /\ UNCHANGED <<requests, toClient>>
          /\ LP!SendToServer(r)
        BY <1>2 DEF ExchangeL!send_filename, ExchangeL!Request, ExchangeL!build_packet,
            build_packet, ExchangeL!FLAG_FILENAME, FLAG_FILENAME, ExchangeL!SendToServer,
            LP!SendToServer, ExchangeL!Put, LP!Put, ExchangeL!Fates, LP!Fates,
            ExchangeL!Cost, LP!Cost, ExchangeL!Corrupted, LP!Corrupted, LP!build_packet
    <2>2. /\ r \in ToServer /\ LP!Corrupted \in ToServer
          /\ r.flag # FLAG_RR /\ LP!Corrupted.flag # FLAG_RR
        BY PacketTypes DEF Corrupted, LP!Corrupted, build_packet, LP!build_packet,
            FLAG_FILENAME, FLAG_RR
    <2> HIDE DEF r
    <2>3. /\ toListener' \in Seq(ToServer) /\ faults' \in Nat
          /\ LP!InFlight(toListener') \subseteq LP!InFlight(toListener) \cup {r, LP!Corrupted}
        BY <1>1, <2>1, <2>2, LP!SendToServerAdds, PayloadAssumption, SizeAssumption,
            SessionAssumption
    <2>5. ExchangeL!ExchangeTypeOK'
        BY <1>1, <2>1 DEF ExchangeL!ExchangeTypeOK, ExchangeL!Phases
    <2> QED BY <1>1, <2>1, <2>3, <2>5 DEF ClientMoves, QueuesOK
<1>3. CASE ExchangeL!OutOfRequests \/ ExchangeL!NoAnswer
    <2>1. /\ UNCHANGED <<toClient, toListener, faults>>
          /\ phase' \in {"DONE", "SEND_FILENAME"}
        BY <1>3 DEF ExchangeL!OutOfRequests, ExchangeL!NoAnswer, ExchangeL!netVars
    <2>2. ExchangeL!ExchangeTypeOK'
        BY <1>1, <1>3 DEF ExchangeL!OutOfRequests, ExchangeL!NoAnswer,
            ExchangeL!ExchangeTypeOK, ExchangeL!Phases
    <2> QED BY <1>1, <2>1, <2>2 DEF ClientMoves, QueuesOK
<1>4. CASE ExchangeL!AnswerYes \/ ExchangeL!AnswerNo \/ ExchangeL!AnswerIgnored
    <2> DEFINE p == Head(toClient)
    <2>1. /\ UNCHANGED <<toListener, faults>>
          /\ phase = "POLL" /\ toClient # <<>> /\ toClient' = Tail(toClient)
        BY <1>4 DEF ExchangeL!AnswerYes, ExchangeL!AnswerNo, ExchangeL!AnswerIgnored,
            ExchangeL!Answered
    <2>2. p \in InFlight(toClient)
        BY <1>1, <2>1, LP!InFlightTail, PayloadAssumption, SizeAssumption, SessionAssumption
            DEF InFlight, LP!InFlight
    <2>3. phase' = "RECEIVE_DATA" => p.flag \in DataFlags \cup {FLAG_FILENAME_ACK}
        BY <1>4 DEF ExchangeL!AnswerYes, ExchangeL!AnswerNo, ExchangeL!AnswerIgnored,
            ExchangeL!IsYes, ExchangeL!FLAG_FILENAME_ACK, FLAG_FILENAME_ACK,
            ExchangeL!FLAG_DATA, FLAG_DATA, DataFlags
    <2>4. phase' = "NO_FILE" => p.flag = FLAG_FILENAME_ERROR
        BY <1>4 DEF ExchangeL!AnswerYes, ExchangeL!AnswerNo, ExchangeL!AnswerIgnored,
            ExchangeL!IsNo, ExchangeL!FLAG_FILENAME_ERROR, FLAG_FILENAME_ERROR
    <2>5. ExchangeL!ExchangeTypeOK'
        BY <1>1, <1>4, <2>1 DEF ExchangeL!AnswerYes, ExchangeL!AnswerNo,
            ExchangeL!AnswerIgnored, ExchangeL!ExchangeTypeOK, ExchangeL!Phases
    <2> HIDE DEF p
    <2> QED BY <1>1, <2>1, <2>2, <2>3, <2>4, <2>5 DEF ClientMoves, QueuesOK
<1> QED BY <1>2, <1>3, <1>4 DEF ExchangeL!ExchangeStep

\* A step of rcopy, whoever its peer is.
LEMMA ClientActs ==
    ASSUME QueuesOK, TypeOK, ClientStep \/ RequestTimeout \/ DataTimeout
    PROVE  /\ ClientMoves
           /\ UNCHANGED <<listenerVars, childAVars, childBVars, crashes>>
           /\ origins' = IF toClient' = toClient THEN origins ELSE Tail(origins)
           /\ peer' \in Senders
<1>1. ReceiveL!RcopyTypeOK /\ ExchangeL!ExchangeTypeOK /\ peer \in Senders
    BY DEF TypeOK
<1>2. CASE ClientStep
    <2>1. UNCHANGED <<listenerVars, childAVars, childBVars, crashes>>
        BY <1>2 DEF ClientStep
    <2>2. origins' = IF toClient' = toClient THEN origins ELSE Tail(origins)
        BY <1>2 DEF ClientStep
    <2>3. peer' \in Senders
        BY <1>2 DEF ClientStep, Senders
    <2>4. ASSUME ExchangeL!ExchangeStep /\ UNCHANGED <<receiveVars, toA, toB>>
          PROVE  ClientMoves
        BY <1>1, <2>4, AsksL DEF receiveVars
    <2>5. ASSUME ExchangeA!ExchangeStep /\ UNCHANGED <<receiveVars, toListener, toB>>
          PROVE  ClientMoves
        BY <1>1, <2>5, AsksA DEF receiveVars
    <2>6. ASSUME ExchangeB!ExchangeStep /\ UNCHANGED <<receiveVars, toListener, toA>>
          PROVE  ClientMoves
        BY <1>1, <2>6, AsksB DEF receiveVars
    <2>7. ASSUME phase = "RECEIVE_DATA", ReceiveL!ClientStep,
                 UNCHANGED <<exchangeVars, toA, toB>>
          PROVE  ClientMoves
        BY <1>1, <2>7, ReceivesL DEF exchangeVars, ReceiveL!ClientNext
    <2>8. ASSUME phase = "RECEIVE_DATA", ReceiveA!ClientStep,
                 UNCHANGED <<exchangeVars, toListener, toB>>
          PROVE  ClientMoves
        BY <1>1, <2>8, ReceivesA DEF exchangeVars, ReceiveA!ClientNext
    <2>9. ASSUME phase = "RECEIVE_DATA", ReceiveB!ClientStep,
                 UNCHANGED <<exchangeVars, toListener, toA>>
          PROVE  ClientMoves
        BY <1>1, <2>9, ReceivesB DEF exchangeVars, ReceiveB!ClientNext
    <2>10. ClientMoves
        BY <1>2, <2>4, <2>5, <2>6, <2>7, <2>8, <2>9 DEF ClientStep, Exchanging, Receiving
    <2> QED BY <2>1, <2>2, <2>3, <2>10
<1>3. CASE RequestTimeout
    <2>1. /\ UNCHANGED <<listenerVars, childAVars, childBVars, crashes, origins, peer>>
          /\ UNCHANGED <<buffer, rcv, out, toA, toB, toClient>>
          /\ ExchangeL!NoAnswer
        BY <1>3 DEF RequestTimeout, receiveVars, ExchangeL!NoAnswer, ExchangeL!netVars
    <2>2. ClientMoves
        BY <1>1, <2>1, AsksL
    <2> QED BY <1>1, <2>1, <2>2
<1>4. CASE DataTimeout
    <2>1. /\ UNCHANGED <<listenerVars, childAVars, childBVars, crashes, origins, peer>>
          /\ UNCHANGED <<phase, requests, toA, toB, toClient>>
          /\ ReceiveL!ClientNext /\ phase = "RECEIVE_DATA"
        BY <1>4 DEF DataTimeout, exchangeVars, ReceiveL!ClientTimeout, ReceiveL!netVars,
            ReceiveL!ClientNext
    <2>2. ClientMoves
        BY <1>1, <2>1, ReceivesL
    <2> QED BY <1>1, <2>1, <2>2
<1> QED BY <1>2, <1>3, <1>4

\* It keeps the invariant.
LEMMA ClientKeeps ==
    ASSUME SessionInv, ClientStep \/ RequestTimeout \/ DataTimeout
    PROVE  SessionInv'
<1>1. /\ TypeOK /\ QueuesOK /\ ChildAInv /\ ChildBInv /\ NewsInv /\ ForkInv
      /\ NoEarlyExit /\ AnswerIsTrue
    BY DEF SessionInv
<1>2. /\ ClientMoves
      /\ UNCHANGED <<listener, badRequests, children, fileExists,
                     windowA, filePosA, srvA, attemptsA,
                     windowB, filePosB, srvB, attemptsB, crashes>>
      /\ origins' = IF toClient' = toClient THEN origins ELSE Tail(origins)
      /\ peer' \in Senders
    BY <1>1, ClientActs DEF listenerVars, childAVars, childBVars
<1>3. /\ toClient' \in Seq(ToClient)
      /\ InFlight(toClient') \subseteq InFlight(toClient)
      /\ origins' \in Seq(Senders) /\ Len(origins') = Len(toClient')
    <2>1. toClient \in Seq(ToClient) /\ origins \in Seq(Senders) /\ Len(origins) = Len(toClient)
        BY <1>1 DEF QueuesOK, TypeOK
    <2>2. CASE toClient' = toClient
        BY <1>2, <2>1, <2>2
    <2>3. CASE toClient' # toClient /\ toClient # <<>> /\ toClient' = Tail(toClient)
        <3>1. origins' = Tail(origins)
            BY <1>2, <2>3
        <3>2. /\ toClient' \in Seq(ToClient)
              /\ LP!InFlight(toClient') \subseteq LP!InFlight(toClient)
              /\ Len(toClient') = Len(toClient) - 1
            BY <2>1, <2>3, LP!InFlightTail, LP!HeadAndTail, PayloadAssumption,
                SizeAssumption, SessionAssumption
        <3>3. origins # <<>>
            BY <2>1, <2>3
        <3>4. origins' \in Seq(Senders) /\ Len(origins') = Len(origins) - 1
            BY <2>1, <3>1, <3>3
        <3> QED BY <2>1, <3>2, <3>4 DEF InFlight, LP!InFlight
    <2> QED BY <1>2, <2>2, <2>3 DEF ClientMoves
<1>4. buffer.current \in Nat /\ buffer'.current \in Nat /\ buffer'.current >= buffer.current
    BY <1>1, <1>2 DEF ClientMoves, TypeOK, ReceiveL!RcopyTypeOK, ReceiveL!CircularBuffer
<1>5. QueuesOK'
    BY <1>2, <1>3 DEF QueuesOK, ClientMoves
<1>6. ASSUME NEW w \in CircularBuffer, NEW q, NEW r,
             \A p \in InFlight(q) : p.flag = FLAG_RR => p.data <= buffer.current,
             q \in Seq(ToServer),
             \A p \in InFlight(r) : p.flag = FLAG_RR =>
                p \in InFlight(q) \/ p.data = buffer'.current,
             w.lowest <= buffer.current
      PROVE  /\ w.lowest <= buffer'.current
             /\ \A p \in InFlight(r) : p.flag = FLAG_RR => p.data <= buffer'.current
    <2>1. w.lowest <= buffer'.current
        BY <1>4, <1>6 DEF CircularBuffer
    <2>2. \A p \in InFlight(q) : p.flag = FLAG_RR => p.data \in Nat
        BY <1>6 DEF InFlight, ToServer
    <2>3. ASSUME NEW p \in InFlight(r), p.flag = FLAG_RR
          PROVE  p.data <= buffer'.current
        BY <1>4, <1>6, <2>2, <2>3
    <2> QED BY <2>1, <2>3
<1>7. ChildAInv'
    BY <1>1, <1>2, <1>6 DEF ChildAInv, ChildInv, ClientMoves, QueuesOK
<1>8. ChildBInv'
    BY <1>1, <1>2, <1>6 DEF ChildBInv, ChildInv, ClientMoves, QueuesOK
<1>9. NewsInv' /\ ForkInv'
    BY <1>1, <1>2, <1>3 DEF NewsInv, WholeFileRead, ForkInv
<1>10. NoEarlyExit'
    <2>1. CASE rcv = "EXIT"
        BY <1>1, <1>2, <1>4, <2>1, SessionAssumption DEF NoEarlyExit
    <2>2. CASE rcv' = "EXIT" /\ rcv # "EXIT"
        BY <1>1, <1>2, <2>2 DEF NoEarlyExit, NewsInv, WholeFileRead, ClientMoves
    <2> QED BY <2>1, <2>2 DEF NoEarlyExit
<1>11. AnswerIsTrue'
    <2>1. phase' = "RECEIVE_DATA" => fileExists'
        BY <1>1, <1>2 DEF AnswerIsTrue, NewsInv, ClientMoves
    <2>2. phase' = "NO_FILE" => ~fileExists' \/ "fopen" \in crashes'
        BY <1>1, <1>2 DEF AnswerIsTrue, NewsInv, ClientMoves
    <2>3. ~fileExists' => children' = 0 /\ out' = <<>>
        BY <1>1, <1>2 DEF AnswerIsTrue, ClientMoves
    <2> QED BY <2>1, <2>2, <2>3 DEF AnswerIsTrue
<1>12. TypeOK'
    BY <1>1, <1>2, <1>3 DEF TypeOK, ClientMoves, Parent!ListenerTypeOK
<1> QED BY <1>5, <1>7, <1>8, <1>9, <1>10, <1>11, <1>12 DEF SessionInv

------------------------------------------------------------------------------
\* The invariant holds at the start.
LEMMA SessionInit == Init => SessionInv
<1> SUFFICES ASSUME Init
             PROVE  SessionInv
    OBVIOUS
<1>1. /\ buffer = ReceiveL!buffer_init(0) /\ rcv = "INORDER" /\ out = <<>>
      /\ phase = "SEND_FILENAME" /\ requests = 1 /\ peer = "listener"
      /\ listener = "LISTEN" /\ badRequests = 0 /\ children = 0 /\ fileExists \in BOOLEAN
      /\ windowA = buffer_init(BufferSize) /\ windowB = buffer_init(BufferSize)
      /\ filePosA = 0 /\ srvA = Unborn /\ attemptsA = 0
      /\ filePosB = 0 /\ srvB = Unborn /\ attemptsB = 0
      /\ toClient = <<>> /\ origins = <<>> /\ toListener = <<>> /\ toA = <<>> /\ toB = <<>>
      /\ faults = 0 /\ crashes = {}
    BY DEF Init, ExchangeL!ExchangeInit, ReceiveL!RcopyInit, Parent!ListenerInit
<1>2. /\ NumChunks \in Nat /\ MaxAttempts \in Nat \ {0} /\ MaxRequests \in Nat \ {0}
      /\ MaxChildren \in 0..2 /\ BufferSize \in Nat
    BY SessionAssumption, SizeAssumption
<1>3. /\ buffer_init(BufferSize) \in CircularBuffer
      /\ buffer_init(BufferSize).lowest = 0 /\ buffer_init(BufferSize).current = 0
    BY <1>2 DEF buffer_init, CircularBuffer, BufferEntry, Payload
<1>4. buffer \in ReceiveL!CircularBuffer /\ buffer.current = 0
    BY <1>1 DEF ReceiveL!buffer_init, ReceiveL!CircularBuffer, ReceiveL!BufferEntry,
        ReceiveL!Payload, ReceiveL!Slots
<1>5. Unborn \notin A!EofStates \cup A!Stopped
    BY DEF Unborn, A!EofStates, A!Stopped
<1>6. InFlight(<<>>) = {}
    BY DEF InFlight
<1>7. TypeOK
    BY <1>1, <1>2, <1>3, <1>4 DEF TypeOK, ExchangeL!ExchangeTypeOK, ExchangeL!Phases,
        ReceiveL!RcopyTypeOK, ReceiveL!RecvStates, Parent!ListenerTypeOK, Senders
<1>8. QueuesOK
    BY <1>1 DEF QueuesOK
<1>9. ChildAInv /\ ChildBInv
    BY <1>1, <1>2, <1>3, <1>4, <1>5, <1>6 DEF ChildAInv, ChildBInv, ChildInv
<1>10. NewsInv /\ ForkInv /\ NoEarlyExit /\ AnswerIsTrue
    BY <1>1, <1>6 DEF NewsInv, ForkInv, NoEarlyExit, AnswerIsTrue
<1> QED BY <1>7, <1>8, <1>9, <1>10 DEF SessionInv

\* Every step keeps it.
LEMMA SessionNext == SessionInv /\ [Next]_vars => SessionInv'
<1> SUFFICES ASSUME SessionInv, [Next]_vars
             PROVE  SessionInv'
    OBVIOUS
<1>1. CASE UNCHANGED vars
    BY <1>1 DEF vars, clientVars, exchangeVars, receiveVars, listenerVars, childAVars,
        childBVars, queueVars, SessionInv, TypeOK, ExchangeL!ExchangeTypeOK,
        ReceiveL!RcopyTypeOK, Parent!ListenerTypeOK, QueuesOK, ChildAInv, ChildBInv,
        ChildInv, NewsInv, WholeFileRead, ForkInv, NoEarlyExit, AnswerIsTrue
<1>2. CASE ChildANext(A!ServerNext) \/ ChildBNext(B!ServerNext)
    BY <1>2, ChildAKeeps, ChildBKeeps
<1>3. CASE ListenerNext
    BY <1>3, ListenerKeeps
<1>4. CASE ClientStep \/ RequestTimeout \/ DataTimeout
    BY <1>4, ClientKeeps
<1>5. CASE Misfortune
    BY <1>5, MisfortuneKeeps
<1> QED BY <1>1, <1>2, <1>3, <1>4, <1>5 DEF Next, Idle

\* The invariant holds in every state of a session, whatever its timing.
THEOREM SessionInvAlways == Spec => []SessionInv
BY SessionInit, SessionNext, PTL DEF Spec

\* Every step of the prompt session is a step of the session.
LEMMA PromptIsSession == [PromptNext \/ RequestTimeout]_vars => [Next]_vars
BY DEF PromptNext, PromptChildA, PromptChildB, PromptClient, Next, ChildANext, ChildBNext,
    A!ServerNext, B!ServerNext

\* Every variable of a session keeps to its type.
THEOREM TypeCorrect == Spec => []TypeOK
<1>1. SessionInv => TypeOK
    BY DEF SessionInv
<1> QED BY <1>1, SessionInvAlways, PTL

\* None of the children of a request believes more than rcopy has said.
\* (server.c process_rr_srej_eof.)
THEOREM ChildrenAckedAlways == Spec => []ChildrenAcked
<1>1. SessionInv => ChildrenAcked
    BY DEF SessionInv, ChildAInv, ChildBInv, ChildInv, ChildrenAcked
<1> QED BY <1>1, SessionInvAlways, PTL

\* rcopy does not end before a child has read the whole file, although it
\* takes packets of two children. (rcopy.c handle_inorder,
\* handle_buffer.)
THEOREM NoEarlyExitAlways == Spec => []NoEarlyExit
<1>1. SessionInv => NoEarlyExit
    BY DEF SessionInv
<1> QED BY <1>1, SessionInvAlways, PTL

\* rcopy is told that there is a file only if there is one, and that there is
\* none only if there is none or it cannot be opened.  (rcopy.c
\* process_filename_response.)
THEOREM AnswerIsTrueAlways == Spec => []AnswerIsTrue
<1>1. SessionInv => AnswerIsTrue
    BY DEF SessionInv
<1> QED BY <1>1, SessionInvAlways, PTL

\* All of it when the time-outs are as prompt as the polls of the two programs
\* make them and only the answer to a request may be late.
THEOREM SlowAnswerSafe ==
    SlowAnswerSpec => [](TypeOK /\ ChildrenAcked /\ NoEarlyExit /\ AnswerIsTrue)
<1>1. [SlowAnswerNext]_vars => [Next]_vars
    BY PromptIsSession DEF SlowAnswerNext
<1>2. SlowAnswerSpec => Spec
    BY <1>1, PTL DEF SlowAnswerSpec, Spec
<1> QED BY <1>2, TypeCorrect, ChildrenAckedAlways, NoEarlyExitAlways, AnswerIsTrueAlways, PTL
==============================================================================
