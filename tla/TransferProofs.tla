---------------------------- MODULE TransferProofs ----------------------------
(***************************************************************************)
(* What holds of a transfer for every window and buffer size, every file   *)
(* and every network of module Network.                                    *)
(*                                                                         *)
(* The types are inductive, and AckedWasReceived is with the types.        *)
(* NoEarlyExit needs to know that every EOF packet on its way carries the  *)
(* number of chunks, and that the server has read the whole file when one  *)
(* exists: EofIsLast.                                                      *)
(***************************************************************************)
EXTENDS Transfer, BasicTheorems, PacedTransfer

\* The packets of the two directions have the fields their readers use.
LEMMA PacketKinds ==
    /\ Readable(ClientBound)
    /\ Numbered(ServerBound)
<1>1. Readable(ClientBound)
    BY ClientPacket DEF Readable
<1>2. Numbered(ServerBound)
    BY DEF Numbered, ServerBound, build_packet, Corrupted, FLAG_RR, FLAG_SREJ, FLAG_EOF
<1> QED BY <1>1, <1>2

\* The parts of TypeOK that one process looks at.
LEMMA TypeParts ==
    ASSUME TypeOK
    PROVE  /\ ChildOK /\ srv \in ServerStates
           /\ RcopyTypeOK
           /\ toClient \in Seq(ClientBound)
           /\ toServer \in Seq(ServerBound)
           /\ faults \in Nat
BY DEF TypeOK, ServerTypeOK, ChildOK

LEMMA ResendType ==
    ASSUME TypeOK,
           NEW seq \in Nat, NEW flag \in DataFlags, NEW next,
           resend_packet(seq, flag, next)
    PROVE  srv' \in {next, "CRASHED"}
BY TypeParts, PacketKinds, ResendEffect DEF ChildOK

LEMMA ProcessType ==
    ASSUME TypeOK, NEW next, NEW onEof, process_rr_srej_eof(next, onEof)
    PROVE  /\ window' \in CircularBuffer
           /\ window'.current = window.current
           /\ srv' \in {next, onEof, "CRASHED"}
BY TypeParts, PacketKinds, ProcessEffect DEF ChildOK

------------------------------------------------------------------------------
(***************************************************************************)
(* Type correctness: one lemma for each process, then the theorem.         *)
(***************************************************************************)
LEMMA ServerNextType ==
    ASSUME TypeOK, AServerNext
    PROVE  TypeOK'
<1>1. /\ ChildOK' /\ srv' \in ServerStates
      /\ toClient' \in Seq(ClientBound) /\ toServer' \in Seq(ServerBound) /\ faults' \in Nat
    BY TypeParts, PacketKinds, ServerNextEffect DEF AServerNext
<1>2. RcopyTypeOK'
    BY DEF TypeOK, RcopyTypeOK, AServerNext, rcopyVars
<1> QED BY <1>1, <1>2 DEF TypeOK, ServerTypeOK, ChildOK

LEMMA ClientNextType ==
    ASSUME TypeOK, AClientNext
    PROVE  TypeOK'
<1>1. /\ RcopyTypeOK'
      /\ toClient' \in Seq(ClientBound) /\ toServer' \in Seq(ServerBound) /\ faults' \in Nat
    BY TypeParts, PacketKinds, ClientNextEffect DEF AClientNext
<1>2. ServerTypeOK'
    BY DEF TypeOK, ServerTypeOK, AClientNext, serverVars
<1> QED BY <1>1, <1>2 DEF TypeOK

LEMMA NetworkNextType ==
    ASSUME TypeOK, ANetworkNext
    PROVE  TypeOK'
<1>1. toClient' \in Seq(ClientBound) /\ toServer' \in Seq(ServerBound) /\ faults' \in Nat
    BY DuplicatedQueue, ReorderedQueue DEF ANetworkNext, NetDuplicate, NetReorder, TypeOK
<1>2. ServerTypeOK' /\ RcopyTypeOK'
    BY DEF ANetworkNext, TypeOK, ServerTypeOK, RcopyTypeOK, serverVars, rcopyVars
<1> QED BY <1>1, <1>2 DEF TypeOK

LEMMA InitType ==
    ASSUME Init
    PROVE  TypeOK
<1>1. window \in CircularBuffer
    BY BufferInitType, SizeAssumption DEF Init, ServerInit
<1>2. buffer \in CircularBuffer
    BY BufferInitType DEF Init, RcopyInit
<1> QED BY <1>1, <1>2, ServerAssumption
        DEF Init, ServerInit, RcopyInit, NetInit, TypeOK, ServerTypeOK, RcopyTypeOK,
            ServerStates, Stopped, RecvStates

LEMMA StutterType ==
    ASSUME TypeOK, UNCHANGED vars
    PROVE  TypeOK'
BY DEF TypeOK, ServerTypeOK, RcopyTypeOK, vars, serverVars, rcopyVars, netVars

LEMMA NextType ==
    ASSUME TypeOK, [Next]_vars
    PROVE  TypeOK'
BY ServerNextType, ClientNextType, NetworkNextType, StutterType DEF Next, Terminated

\* Every reachable state has the types the C declarations and the wire format
\* give its parts; the waiting loops of the server count below the limit as
\* long as the process runs.
THEOREM TypeCorrect == Spec => []TypeOK
BY InitType, NextType, PTL DEF Spec

------------------------------------------------------------------------------
(***************************************************************************)
(* Acknowledgments and the end of the transfer.                            *)
(***************************************************************************)

\* An EOF packet exists only after the file was read, and its number is the
\* one after the last chunk.
EofIsLast ==
    /\ window.current = filePos
    /\ srv \in EofStates => filePos = NumChunks
    /\ \A p \in InFlight(toClient) :
           p.flag = FLAG_EOF => p.seq = NumChunks /\ filePos = NumChunks

AnyNetworkInv == TypeOK /\ AckedWasReceived /\ EofIsLast /\ NoEarlyExit

\* Neither a damaged packet nor a chunk is an EOF.
LEMMA EofFlag ==
    /\ Corrupted.flag # FLAG_EOF
    /\ FLAG_EOF \notin DataFlags
BY DEF Corrupted, build_packet, FLAG_EOF, DataFlags, FLAG_DATA, FLAG_RESENT_DATA,
    FLAG_RESENT_TIMEOUT

LEMMA ServerNextInv ==
    ASSUME AnyNetworkInv, AServerNext
    PROVE  AckedWasReceived' /\ EofIsLast' /\ NoEarlyExit'
<1>1. /\ AckedWasReceived /\ EofIsLast /\ NoEarlyExit
      /\ UNCHANGED <<buffer, rcv>>
      /\ filePos \in 0..NumChunks /\ NumChunks \in Nat
    BY ServerAssumption
       DEF AnyNetworkInv, TypeOK, ServerTypeOK, AServerNext, rcopyVars
<1>2. /\ ChildOK'
      /\ InFlight(toServer') \subseteq InFlight(toServer)
      /\ ChildSends
      /\ ChildBelieves
      /\ ChildReads
    BY TypeParts, PacketKinds, ServerNextEffect DEF AnyNetworkInv, AServerNext
<1>3. AckedWasReceived'
    BY <1>1, <1>2 DEF AckedWasReceived, ChildBelieves
<1>4. filePos = NumChunks => filePos' = NumChunks
    BY <1>1, <1>2 DEF ChildReads, ChildOK
<1>5. window'.current = filePos' /\ (srv' \in EofStates => filePos' = NumChunks)
    BY <1>1, <1>2 DEF ChildReads, EofIsLast
<1>6. ASSUME NEW p \in InFlight(toClient'), p.flag = FLAG_EOF
      PROVE  p.seq = NumChunks /\ filePos' = NumChunks
    <2>1. CASE p \in InFlight(toClient)
        BY <1>1, <1>4, <1>6, <2>1 DEF EofIsLast
    <2>2. CASE p.seq = window.current /\ srv = "WAIT_EOF_ACK"
        BY <1>1, <1>4, <2>2 DEF EofIsLast, EofStates
    <2> QED BY <1>2, <1>6, <2>1, <2>2, EofFlag DEF ChildSends
<1>7. NoEarlyExit'
    BY <1>1, <1>4 DEF NoEarlyExit
<1> QED BY <1>3, <1>5, <1>6, <1>7 DEF EofIsLast

LEMMA ClientNextInv ==
    ASSUME AnyNetworkInv, AClientNext
    PROVE  AckedWasReceived' /\ EofIsLast' /\ NoEarlyExit'
<1>1. /\ TypeOK /\ AckedWasReceived /\ EofIsLast /\ NoEarlyExit
      /\ UNCHANGED <<window, filePos, srv>>
      /\ window.lowest \in Nat
      /\ buffer.current \in Nat
      /\ NumChunks \in Nat
    BY ServerAssumption DEF AnyNetworkInv, TypeOK, ServerTypeOK, RcopyTypeOK,
        CircularBuffer, AClientNext, serverVars
<1> DEFINE old == buffer.current
           new == buffer'.current
<1>2. /\ InFlight(toClient') \subseteq InFlight(toClient)
      /\ new \in Nat /\ new >= old
      /\ ClientAcks
      /\ ClientExits
    BY <1>1, TypeParts, PacketKinds, ClientNextEffect DEF AClientNext
<1>3. ASSUME NEW p \in InFlight(toServer'), p.flag = FLAG_RR
      PROVE  p.data <= new
    <2>1. CASE p.data = new
        BY <1>2, <2>1
    <2>2. CASE p \in InFlight(toServer)
        <3>1. p.data <= old
            BY <1>1, <1>3, <2>2 DEF AckedWasReceived
        <3>2. p \in ServerBound
            BY <1>1, <2>2 DEF TypeOK, InFlight
        <3>3. p.data \in Nat
            BY <1>3, <3>2, PacketKinds DEF Numbered
        <3> QED BY <1>1, <1>2, <3>1, <3>3
    <2> QED BY <1>2, <1>3, <2>1, <2>2 DEF ClientAcks
<1>4. AckedWasReceived'
    BY <1>1, <1>2, <1>3 DEF AckedWasReceived
<1>5. EofIsLast'
    BY <1>1, <1>2 DEF EofIsLast
<1>6. NoEarlyExit'
    <2> SUFFICES ASSUME rcv' = "EXIT"
                 PROVE  new > NumChunks /\ filePos = NumChunks
        BY <1>1 DEF NoEarlyExit
    <2>1. CASE rcv = "EXIT"
        BY <1>1, <1>2, <2>1 DEF NoEarlyExit
    <2>2. CASE rcv # "EXIT"
        BY <1>1, <1>2, <2>2 DEF EofIsLast, ClientExits
    <2> QED BY <2>1, <2>2
<1> QED BY <1>4, <1>5, <1>6

LEMMA NetworkNextInv ==
    ASSUME AnyNetworkInv, ANetworkNext
    PROVE  AckedWasReceived' /\ EofIsLast' /\ NoEarlyExit'
<1>1. /\ InFlight(toClient') \subseteq InFlight(toClient)
      /\ InFlight(toServer') \subseteq InFlight(toServer)
    BY InFlightNetwork DEF ANetworkNext, NetDuplicate, NetReorder, AnyNetworkInv, TypeOK
<1> QED BY <1>1 DEF ANetworkNext, serverVars, rcopyVars, AnyNetworkInv,
        AckedWasReceived, EofIsLast, NoEarlyExit

LEMMA AnyNetworkInductive == Spec => []AnyNetworkInv
<1>1. ASSUME Init
      PROVE  AnyNetworkInv
    BY <1>1, InitType, SizeAssumption, ServerAssumption
       DEF Init, ServerInit, RcopyInit, NetInit, buffer_init, InFlight, EofStates,
           AnyNetworkInv, AckedWasReceived, EofIsLast, NoEarlyExit
<1>2. ASSUME AnyNetworkInv, [Next]_vars
      PROVE  AnyNetworkInv'
    <2>1. TypeOK'
        BY <1>2, NextType DEF AnyNetworkInv
    <2>2. CASE UNCHANGED vars
        BY <1>2, <2>1, <2>2 DEF vars, serverVars, rcopyVars, netVars, AnyNetworkInv,
            AckedWasReceived, EofIsLast, NoEarlyExit
    <2> QED BY <1>2, <2>1, <2>2, ServerNextInv, ClientNextInv, NetworkNextInv
            DEF Next, Terminated, AnyNetworkInv
<1> QED BY <1>1, <1>2, PTL DEF Spec

\* Whatever the network loses, damages, repeats or exchanges, and whatever the
\* sizes, the server never counts as acknowledged a chunk rcopy did not take.
THEOREM AckedWasReceivedAlways == Spec => []AckedWasReceived
<1>1. AnyNetworkInv => AckedWasReceived
    BY DEF AnyNetworkInv
<1> QED BY <1>1, AnyNetworkInductive, PTL

\* rcopy exits normally only behind the last sequence number of a file the
\* server has read to its end.
THEOREM NoEarlyExitAlways == Spec => []NoEarlyExit
<1>1. AnyNetworkInv => NoEarlyExit
    BY DEF AnyNetworkInv
<1> QED BY <1>1, AnyNetworkInductive, PTL

------------------------------------------------------------------------------
(***************************************************************************)
(* What the child keeps on any network.  An RR from the past may move its  *)
(* window backward, but the end of the window is never more than a window  *)
(* beyond what rcopy expects: an RR says no more than that, and the        *)
(* initial end says it too if the buffer size is at most the window size.  *)
(***************************************************************************)
KeptInv ==
    /\ window.highest <= buffer.current + WindowSize
    /\ window.current <= buffer.current + WindowSize
    /\ KeptForRcopy

\* The numbers of both sides before and after a step.
LEMMA KeptNumbers ==
    ASSUME TypeOK
    PROVE  /\ window \in CircularBuffer /\ buffer.current \in Nat
           /\ window.current \in Nat /\ window.highest \in Nat /\ window.lowest \in Nat
           /\ filePos \in Nat /\ NumChunks \in Nat /\ WindowSize \in Nat \ {0}
           /\ \A s \in Nat : Slot(s) \in Slots
           /\ window.entries \in [Slots -> BufferEntry]
BY SizeAssumption, ServerAssumption, SlotInRange
   DEF TypeOK, ServerTypeOK, RcopyTypeOK, CircularBuffer

\* A new chunk takes the slot of one that rcopy has passed.
LEMMA SendDataKeeps ==
    ASSUME AnyNetworkInv, KeptInv, SendData, UNCHANGED buffer
    PROVE  KeptInv'
<1> DEFINE s == window.current
           e == [valid_flag |-> TRUE, sequence_num |-> s, data |-> s]
           w == buffer_add(window, s, filePos)
<1>1. TypeOK /\ filePos = s
    BY DEF AnyNetworkInv, EofIsLast
<1>2. s \in Nat /\ s + 1 \in Nat /\ s \in Payload /\ buffer.current \in Nat /\ WindowSize \in Nat
    BY <1>1, KeptNumbers DEF Payload
<1>3. /\ w \in CircularBuffer /\ w.highest = window.highest
      /\ w.entries = [window.entries EXCEPT ![Slot(s)] = e]
    BY <1>1, <1>2, KeptNumbers, BufferAdd
<1>4. window' = [w EXCEPT !.current = s + 1] /\ s < window.highest
    BY <1>1 DEF SendData
<1> HIDE DEF w
<1>5. window'.current = s + 1 /\ window'.highest = window.highest /\ window'.entries = w.entries
    BY <1>3, <1>4 DEF CircularBuffer
<1>6. window'.current <= buffer.current + WindowSize /\ s < buffer.current + WindowSize
    BY <1>1, <1>2, <1>4, <1>5, KeptNumbers DEF KeptInv
<1>7. ASSUME NEW t \in buffer.current..(window'.current - 1)
      PROVE  window'.entries[Slot(t)] = [valid_flag |-> TRUE, sequence_num |-> t, data |-> t]
    <2>1. t \in Nat /\ t <= s
        BY <1>2, <1>5
    <2>2. CASE t = s
        BY <1>1, <1>3, <1>5, <2>1, <2>2, KeptNumbers
    <2>3. CASE t < s
        <3>1. Slot(t) # Slot(s)
            BY <1>2, <1>6, <2>1, <2>3, SlotInjective
        <3>2. window.entries[Slot(t)] = [valid_flag |-> TRUE, sequence_num |-> t, data |-> t]
            BY <1>2, <2>1, <2>3 DEF KeptInv, KeptForRcopy, Entry
        <3> QED BY <1>1, <1>3, <1>5, <2>1, <3>1, <3>2, KeptNumbers
    <2> QED BY <1>2, <2>1, <2>2, <2>3
<1> QED BY <1>5, <1>6, <1>7 DEF KeptInv, KeptForRcopy, Entry

\* Reading an acknowledgment changes no slot.
LEMMA ProcessKeeps ==
    ASSUME AnyNetworkInv, KeptInv, UNCHANGED buffer,
           NEW next, NEW onEof, process_rr_srej_eof(next, onEof)
    PROVE  KeptInv'
<1> DEFINE p == Head(toServer)
<1>1. TypeOK /\ AckedWasReceived
    BY DEF AnyNetworkInv
<1>2. CASE UNCHANGED window
    BY <1>2 DEF KeptInv, KeptForRcopy
<1>3. CASE p.flag = FLAG_RR /\ window' = AdvanceWindow(window, p.data)
    <2>1. p \in ServerBound /\ p \in InFlight(toServer)
        BY <1>1, HeadAndTail DEF TypeOK, InFlight, process_rr_srej_eof
    <2>2. p.data \in Nat /\ p.data <= buffer.current
        BY <1>1, <1>3, <2>1, PacketKinds DEF Numbered, AckedWasReceived
    <2>3. /\ window'.highest = p.data + WindowSize
          /\ window'.current = window.current
          /\ window'.entries = window.entries
        BY <1>1, <1>3, <2>2, AdvanceType, KeptNumbers
    <2> HIDE DEF p
    <2>4. window'.highest <= buffer.current + WindowSize
        BY <1>1, <2>2, <2>3, KeptNumbers
    <2> QED BY <2>3, <2>4 DEF KeptInv, KeptForRcopy, Entry
<1> QED BY <1>2, <1>3 DEF process_rr_srej_eof

LEMMA KeptNext ==
    ASSUME AnyNetworkInv, AnyNetworkInv', KeptInv, [Next]_vars
    PROVE  KeptInv'
<1>1. CASE AServerNext
    <2>1. UNCHANGED buffer
        BY <1>1 DEF AServerNext, rcopyVars
    <2>2. CASE DrainRecv \/ FullRecv \/ EofRecv
        BY <2>1, <2>2, ProcessKeeps DEF DrainRecv, FullRecv, EofRecv
    <2>3. CASE \/ ReadEof \/ WindowClosed \/ DrainDone \/ FullDone \/ SendEof
               \/ FullTimeout \/ EofTimeout
        <3>1. UNCHANGED window
            BY <2>3 DEF ReadEof, WindowClosed, DrainDone, FullDone, SendEof, FullTimeout,
                EofTimeout
        <3> QED BY <2>1, <3>1 DEF KeptInv, KeptForRcopy
    <2> QED BY <1>1, <2>1, <2>2, <2>3, SendDataKeeps
            DEF AServerNext, ServerNext, ServerStep, ServerTimeout
<1>2. CASE AClientNext
    <2>1. UNCHANGED window
        BY <1>2 DEF AClientNext, serverVars
    <2>2. TypeOK /\ TypeOK'
        BY DEF AnyNetworkInv
    <2>3. buffer'.current >= buffer.current
        BY <1>2, <2>2, TypeParts, PacketKinds, ClientNextEffect DEF AClientNext
    <2>4. buffer.current \in Nat /\ buffer'.current \in Nat
        BY <2>2, KeptNumbers DEF TypeOK, RcopyTypeOK, CircularBuffer
    <2> QED BY <2>1, <2>2, <2>3, <2>4, KeptNumbers DEF KeptInv, KeptForRcopy
<1>3. CASE ANetworkNext \/ UNCHANGED vars
    BY <1>3 DEF ANetworkNext, vars, serverVars, rcopyVars, KeptInv, KeptForRcopy
<1> QED BY <1>1, <1>2, <1>3 DEF Next, Terminated

\* Whatever the network loses, damages, repeats or exchanges, the server
\* overwrites no chunk before rcopy has passed it.
THEOREM KeptForRcopyAlways ==
    ASSUME FitsRing
    PROVE  Spec => []KeptForRcopy
<1>1. Init => KeptInv
    BY SizeAssumption DEF FitsRing, Init, ServerInit, RcopyInit, buffer_init, KeptInv, KeptForRcopy
<1>2. KeptInv => KeptForRcopy
    BY DEF KeptInv
<1> QED BY <1>1, <1>2, KeptNext, AnyNetworkInductive, PTL DEF Spec

------------------------------------------------------------------------------
(***************************************************************************)
(* In the sheltered setting the transfer is a correct copy, for every file *)
(* length, window size, number of attempts, queue length and number of     *)
(* faults.                                                                 *)
(*                                                                         *)
(* The lemmas about one process treat the rest of the system through the   *)
(* conjuncts of ShelteredInv that it cannot disturb: a step of the server  *)
(* only lets more packets be genuine, and a step of rcopy only raises the  *)
(* number it expects.                                                      *)
(*                                                                         *)
(* The last section does without FitsRing: as long as the child has not    *)
(* overrun its ring, the transfer is a correct copy for every buffer size. *)
(* The argument is the same, with the history variable of PacedTransfer in *)
(* the place of the bound on the end of the window.                        *)
(***************************************************************************)

\* A step of the server, seen from rcopy.
Grows ==
    /\ window'.current >= window.current
    /\ EofPhase => EofPhase'

LEMMA Numbers ==
    ASSUME TypeOK
    PROVE  /\ window \in CircularBuffer /\ buffer \in CircularBuffer
           /\ window.lowest \in Nat /\ window.highest \in Nat /\ window.current \in Nat
           /\ buffer.highest \in Nat /\ buffer.current \in Nat
           /\ window.entries \in [Slots -> BufferEntry]
           /\ buffer.entries \in [Slots -> BufferEntry]
           /\ toClient \in Seq(ClientBound) /\ toServer \in Seq(ServerBound)
           /\ filePos \in 0..NumChunks /\ NumChunks \in Nat
           /\ WindowSize \in Nat \ {0} /\ BufferSize \in Nat \ {0}
BY SizeAssumption, ServerAssumption DEF TypeOK, ServerTypeOK, RcopyTypeOK, CircularBuffer

\* Genuine(s, d) after the step, for s and d of before or after it.
NewGenuine(s, d) ==
    \/ s < window'.current /\ d = s
    \/ s = NumChunks /\ d = NoData /\ EofPhase'

LEMMA GenuineGrows ==
    ASSUME TypeOK, TypeOK', Grows, NEW s \in Int, NEW d, Genuine(s, d)
    PROVE  NewGenuine(s, d)
<1>1. window.current \in Nat /\ window'.current \in Nat
    BY DEF TypeOK, ServerTypeOK, CircularBuffer
<1> QED BY <1>1 DEF Grows, Genuine, NewGenuine

\* Without damage an acknowledgment arrives or is lost.
LEMMA AckSent ==
    ASSUME Sheltered, NEW p, SendToServer(p)
    PROVE  toServer' = toServer \/ toServer' = Append(toServer, p)
BY PutCases DEF Sheltered, SendToServer, Fates

LEMMA DataSent ==
    ASSUME NEW p, SendToClient(p)
    PROVE  \/ toClient' = toClient
           \/ toClient' = Append(toClient, p)
           \/ toClient' = Append(toClient, Corrupted)
BY PutCases DEF SendToClient

\* The packet rcopy is sent keeps its queue in order.
LEMMA SendKeepsDataInv ==
    ASSUME TypeOK, TypeOK', DataInv, Grows, UNCHANGED buffer,
           NEW p \in ClientBound,
           \/ toClient' = toClient
           \/ toClient' = Append(toClient, p)
           \/ toClient' = Append(toClient, Corrupted),
           NewGenuine(p.seq, p.data),
           p.flag = FLAG_EOF => p.seq = NumChunks /\ EofPhase',
           p.seq <= buffer.current + WindowSize,
           \/ p.seq <= buffer.current
           \/ /\ p.seq >= buffer.highest
              /\ \A i \in 1..Len(toClient) : toClient[i] # Corrupted => toClient[i].seq <= p.seq
    PROVE  DataInv'
<1> DEFINE Good(m) ==
                /\ NewGenuine(m.seq, m.data)
                /\ m.flag = FLAG_EOF => m.seq = NumChunks /\ EofPhase'
                /\ m.seq <= buffer.current + WindowSize
                /\ m.seq <= buffer.current \/ m.seq >= buffer.highest
           Before(m, n) == n.seq <= buffer.current \/ m.seq <= n.seq
<1>1. \A i \in 1..Len(toClient) : toClient[i] \in ClientBound /\ toClient[i].seq \in Nat
    BY Numbers, ClientPacket
<1>2. \A i \in 1..Len(toClient) : toClient[i] # Corrupted => Good(toClient[i])
    BY <1>1, GenuineGrows DEF DataInv, Grows
<1>3. Good(p)
    OBVIOUS
<1>4. \A i, j \in 1..Len(toClient) :
          i < j /\ toClient[i] # Corrupted /\ toClient[j] # Corrupted
              => Before(toClient[i], toClient[j])
    BY DEF DataInv
<1>5. \A i \in 1..Len(toClient) : toClient[i] # Corrupted => Before(toClient[i], p)
    OBVIOUS
<1> HIDE DEF Good, Before
<1>6. ASSUME NEW m \in ClientBound, m = p \/ m = Corrupted, toClient' = Append(toClient, m)
      PROVE  /\ \A i \in 1..Len(toClient') : toClient'[i] # Corrupted => Good(toClient'[i])
             /\ \A i, j \in 1..Len(toClient') :
                    i < j /\ toClient'[i] # Corrupted /\ toClient'[j] # Corrupted
                        => Before(toClient'[i], toClient'[j])
    <2>1. /\ Len(toClient') = Len(toClient) + 1
          /\ toClient'[Len(toClient) + 1] = m
          /\ \A i \in 1..Len(toClient) : toClient'[i] = toClient[i]
          /\ Len(toClient) \in Nat
        BY <1>6, Appended, Numbers
    <2>2. \A i \in 1..Len(toClient') : i \in 1..Len(toClient) \/ i = Len(toClient) + 1
        BY <2>1
    <2> QED BY <1>2, <1>3, <1>4, <1>5, <1>6, <2>1, <2>2
<1>7. Corrupted \in ClientBound
    BY DEF ClientBound
<1>8. /\ \A i \in 1..Len(toClient') : toClient'[i] # Corrupted => Good(toClient'[i])
      /\ \A i, j \in 1..Len(toClient') :
             i < j /\ toClient'[i] # Corrupted /\ toClient'[j] # Corrupted
                 => Before(toClient'[i], toClient'[j])
    BY <1>2, <1>4, <1>6, <1>7
<1> QED BY <1>8 DEF DataInv, Good, Before, Genuine, NewGenuine

\* What a step of the server leaves of the facts about rcopy.
LEMMA ServerKeepsRcopy ==
    ASSUME TypeOK, TypeOK', Grows, UNCHANGED rcopyVars, ExpectedInv, HeldInv
    PROVE  ExpectedInv' /\ HeldInv'
<1>1. /\ window'.current \in Nat /\ window.current \in Nat
      /\ buffer.highest \in Nat /\ buffer.current \in Nat
      /\ buffer' = buffer /\ rcv' = rcv /\ out' = out
    BY Numbers DEF TypeOK, ServerTypeOK, CircularBuffer, rcopyVars
<1>2. ExpectedInv'
    BY <1>1 DEF Grows, ExpectedInv
<1>3. ASSUME NEW i \in Slots, rcv \in {"INORDER", "BUFFER", "FLUSH"}, buffer.entries[i].valid_flag
      PROVE  /\ rcv # "INORDER"
             /\ NewGenuine(buffer.entries[i].sequence_num, buffer.entries[i].data)
             /\ Slot(buffer.entries[i].sequence_num) = i
             /\ buffer.entries[i].sequence_num >= buffer.current
             /\ rcv = "BUFFER" => buffer.entries[i].sequence_num # buffer.current
             /\ buffer.entries[i].sequence_num <= buffer.current + WindowSize
             /\ rcv = "FLUSH" =>
                    buffer.entries[i].sequence_num < buffer.current + WindowSize
             /\ buffer.entries[i].sequence_num <= buffer.highest
    <2>1. buffer.entries[i].sequence_num \in Int
        BY Numbers DEF BufferEntry
    <2> QED BY <1>3, <2>1, GenuineGrows DEF HeldInv
<1>4. HeldInv'
    BY <1>1, <1>3 DEF HeldInv, Genuine, NewGenuine
<1> QED BY <1>2, <1>4

\* An acknowledgment taken off the queue.
LEMMA ReceiveKeepsAcksInv ==
    ASSUME TypeOK, AcksInv, UNCHANGED buffer,
           toServer # <<>>, toServer' = Tail(toServer),
           window'.current = window.current,
           \/ window'.lowest = window.lowest
           \/ Head(toServer).flag = FLAG_RR /\ window'.lowest = Head(toServer).data
    PROVE  AcksInv'
<1> DEFINE q == toServer
<1>1. /\ Head(q) = q[1] /\ 1 \in 1..Len(q)
      /\ Len(toServer') = Len(q) - 1 /\ Len(q) \in Nat
      /\ \A i \in 1..Len(toServer') : i + 1 \in 1..Len(q) /\ toServer'[i] = q[i + 1]
    BY HeadAndTail, Numbers
<1>2. \A i \in 1..Len(q) : q[i] \in ServerBound
    BY Numbers
<1>3. /\ \A i \in 1..Len(q) :
             /\ q[i] # Corrupted
             /\ IsAck(q[i]) => window.lowest <= q[i].data /\ q[i].data <= buffer.current
             /\ q[i].flag = FLAG_SREJ => q[i].data < window.current
      /\ \A i, j \in 1..Len(q) :
             i < j /\ IsAck(q[i]) /\ IsAck(q[j]) => q[i].data <= q[j].data
      /\ window.lowest <= buffer.current
    BY DEF AcksInv
<1>4. \A i \in 1..Len(q) : IsAck(q[i]) => q[i].data \in Nat
    BY <1>2 DEF IsAck, ServerBound, build_packet, Corrupted, FLAG_RR, FLAG_SREJ, FLAG_EOF
<1>5. \/ IsAck(q[1]) /\ window'.lowest = q[1].data
      \/ window'.lowest = window.lowest
    BY <1>1 DEF IsAck
<1> HIDE DEF q
<1>6. window'.lowest <= buffer.current
    BY <1>1, <1>3, <1>5
<1>7. \A i \in 1..Len(toServer') :
             /\ toServer'[i] # Corrupted
             /\ IsAck(toServer'[i]) => /\ window'.lowest <= toServer'[i].data
                                       /\ toServer'[i].data <= buffer.current
             /\ toServer'[i].flag = FLAG_SREJ => toServer'[i].data < window.current
    <2> TAKE i \in 1..Len(toServer')
    <2>1. i + 1 \in 1..Len(q) /\ toServer'[i] = q[i + 1] /\ 1 < i + 1
        BY <1>1
    <2>2. CASE window'.lowest = window.lowest
        BY <1>3, <2>1, <2>2
    <2>3. CASE IsAck(q[1]) /\ window'.lowest = q[1].data
        BY <1>1, <1>3, <2>1, <2>3
    <2> QED BY <1>1, <1>5, <2>2, <2>3 DEF q
<1>8. \A i, j \in 1..Len(toServer') :
             i < j /\ IsAck(toServer'[i]) /\ IsAck(toServer'[j])
                 => toServer'[i].data <= toServer'[j].data
    BY <1>1, <1>3
<1> QED BY <1>6, <1>7, <1>8 DEF AcksInv, IsAck

\* A chunk that is not acknowledged is in its slot, so it can be sent again.
LEMMA RetainedEntry ==
    ASSUME TypeOK, RetainedForResend,
           NEW s \in Nat, window.lowest <= s, s < window.current
    PROVE  Entry(window, s).data = s /\ s # Uninit
<1>1. s \in window.lowest..(window.current - 1)
    BY Numbers
<1> QED BY <1>1, PayloadAssumption DEF RetainedForResend

\* Such a resend is a genuine packet rcopy may use.
LEMMA GenuineResend ==
    ASSUME Sheltered, TypeOK, TypeOK', RetainedForResend, DataInv, AcksInv,
           UNCHANGED <<window, buffer>>, Grows,
           NEW s \in Nat, NEW flag \in DataFlags, NEW next,
           window.lowest <= s, s < window.current, s <= buffer.current,
           resend_packet(s, flag, next)
    PROVE  DataInv' /\ srv' = next
<1> DEFINE p == build_packet(s, flag, s)
<1>1. Entry(window, s).data = s /\ s # Uninit
    BY RetainedEntry
<1>2. srv' = next /\ SendToClient(p)
    BY <1>1 DEF resend_packet, PayloadOf
<1>3. p \in ClientBound
    BY DEF build_packet, ClientBound, Payload
<1>4. p.seq = s /\ p.data = s /\ p.flag # FLAG_EOF
    BY DEF build_packet, DataFlags, FLAG_DATA, FLAG_RESENT_DATA, FLAG_RESENT_TIMEOUT, FLAG_EOF
<1>5. NewGenuine(p.seq, p.data)
    BY <1>4 DEF NewGenuine
<1>6. p.seq <= buffer.current /\ p.seq <= buffer.current + WindowSize
    BY <1>4, Numbers
<1> HIDE DEF p
<1> QED BY <1>2, <1>3, <1>4, <1>5, <1>6, DataSent, SendKeepsDataInv

\* Reading one acknowledgment.
LEMMA ProcessKeepsInv ==
    ASSUME Sheltered, TypeOK, TypeOK', ShelteredInv, UNCHANGED rcopyVars,
           NEW next, NEW onEof, process_rr_srej_eof(next, onEof),
           srv \notin Stopped,
           srv \in EofStates => {next, onEof} \subseteq EofStates \cup Stopped
    PROVE  /\ Grows
           /\ srv' \in {next, onEof}
           /\ filePos' = filePos /\ window'.current = window.current
           /\ window'.lowest >= window.lowest
           /\ window'.lowest < window'.highest
           /\ window'.current <= window'.highest
           /\ RetainedForResend'
           /\ AcksInv' /\ DataInv'
<1> DEFINE p == Head(toServer)
<1>1. /\ WindowInv /\ AcksInv /\ DataInv /\ RetainedForResend
      /\ buffer' = buffer
      /\ toServer # <<>> /\ toServer' = Tail(toServer)
      /\ filePos' = filePos
    BY DEF ShelteredInv, WindowInv, rcopyVars, process_rr_srej_eof
<1>2. /\ p \in ServerBound /\ p # Corrupted
      /\ IsAck(p) => window.lowest <= p.data /\ p.data <= buffer.current
      /\ p.flag = FLAG_SREJ => p.data < window.current
    <2>1. p = toServer[1] /\ 1 \in 1..Len(toServer) /\ p \in ServerBound
        BY <1>1, HeadAndTail, Numbers
    <2> QED BY <1>1, <2>1 DEF AcksInv
<1>3. window'.current = window.current /\ srv' \in {next, onEof, "CRASHED"}
    BY ProcessType
<1>4. Grows
    BY <1>3, Numbers DEF Grows, EofPhase, Stopped
<1>5. CASE /\ p.flag = FLAG_RR
           /\ window' = AdvanceWindow(window, p.data)
           /\ srv' = next
           /\ UNCHANGED <<toClient, faults>>
    <2>1. p.data \in Nat /\ window.lowest <= p.data
        BY <1>2, <1>5 DEF ServerBound, build_packet, Corrupted, IsAck, FLAG_RR, FLAG_EOF
    <2>2. /\ window'.lowest = p.data
          /\ window'.highest = p.data + WindowSize
          /\ window'.entries = window.entries
        BY <1>5, <2>1, AdvanceType, Numbers
    <2>3. window'.lowest >= window.lowest
        BY <2>1, <2>2
    <2>4. window'.lowest < window'.highest /\ window'.current <= window'.highest
        BY <1>1, <1>3, <2>1, <2>2, Numbers DEF WindowInv, Paced
    <2>5. RetainedForResend'
        <3>1. ASSUME NEW s \in window'.lowest..(window'.current - 1)
              PROVE  s \in window.lowest..(window.current - 1)
            BY <1>3, <2>1, <2>2, <3>1, Numbers
        <3> QED BY <1>1, <2>2, <3>1 DEF RetainedForResend, Entry
    <2>6. AcksInv'
        BY <1>1, <1>3, <1>5, <2>2, ReceiveKeepsAcksInv
    <2>7. DataInv'
        <3>1. \A i \in 1..Len(toClient) : toClient[i] \in ClientBound /\ toClient[i].seq \in Int
            BY Numbers, ClientPacket
        <3>2. \A i \in 1..Len(toClient) : toClient[i] # Corrupted =>
                 /\ NewGenuine(toClient[i].seq, toClient[i].data)
                 /\ toClient[i].flag = FLAG_EOF => toClient[i].seq = NumChunks /\ EofPhase'
            BY <1>1, <1>4, <3>1, GenuineGrows DEF DataInv, Grows
        <3> QED BY <1>1, <1>5, <3>2 DEF DataInv, Genuine, NewGenuine
    <2> QED BY <1>1, <1>3, <1>4, <1>5, <2>3, <2>4, <2>5, <2>6, <2>7
<1>6. ASSUME UNCHANGED window
      PROVE  /\ window'.lowest >= window.lowest
             /\ window'.lowest < window'.highest
             /\ window'.current <= window'.highest
             /\ RetainedForResend'
             /\ AcksInv'
    <2>1. AcksInv'
        BY <1>1, <1>6, ReceiveKeepsAcksInv
    <2> QED BY <1>1, <1>6, <2>1, Numbers DEF WindowInv, RetainedForResend
<1>7. CASE /\ p.flag = FLAG_SREJ
           /\ resend_packet(p.data, FLAG_RESENT_DATA, next)
           /\ UNCHANGED window
    <2>1. /\ p.data \in Nat /\ window.lowest <= p.data
          /\ p.data <= buffer.current /\ p.data < window.current
        BY <1>2, <1>7 DEF ServerBound, build_packet, Corrupted, IsAck, FLAG_SREJ, FLAG_EOF
    <2>2. FLAG_RESENT_DATA \in DataFlags
        BY DEF DataFlags
    <2>3. DataInv' /\ srv' = next
        BY <1>1, <1>4, <1>7, <2>1, <2>2, GenuineResend
    <2> QED BY <1>1, <1>3, <1>4, <1>6, <1>7, <2>3
<1>8. CASE srv' \in {next, onEof} /\ UNCHANGED <<window, toClient, faults>>
    <2>1. EofPhase => EofPhase'
        BY <1>4 DEF Grows
    <2>2. DataInv'
        BY <1>1, <1>8, <2>1 DEF DataInv, Genuine
    <2> QED BY <1>1, <1>3, <1>4, <1>6, <1>8, <2>2
<1>9. ~BadChecksum(p)
    BY <1>2 DEF BadChecksum
<1> QED BY <1>5, <1>7, <1>8, <1>9 DEF process_rr_srej_eof

\* A chunk sent for the first time goes to a slot that is free to be taken.
LEMMA SendDataKeepsInv ==
    ASSUME Sheltered, TypeOK, TypeOK', ShelteredInv, UNCHANGED rcopyVars, SendData, Paced'
    PROVE  Grows /\ WindowInv' /\ AcksInv' /\ DataInv'
<1> DEFINE s == window.current
           e == [valid_flag |-> TRUE, sequence_num |-> s, data |-> s]
           w == buffer_add(window, s, s)
           v == [w EXCEPT !.current = s + 1]
           p == build_packet(s, FLAG_DATA, s)
<1>1. /\ WindowInv /\ AcksInv /\ DataInv /\ ExpectedInv
      /\ filePos = s /\ s \in Nat /\ s < window.highest /\ s < NumChunks
      /\ buffer' = buffer /\ toServer' = toServer /\ filePos' = filePos + 1
      /\ srv = "SEND_DATA" /\ srv' = "DRAIN"
    BY Numbers DEF ShelteredInv, WindowInv, SendData, rcopyVars
<1>2. /\ w \in CircularBuffer
      /\ w.highest = window.highest /\ w.lowest = window.lowest
      /\ w.entries = [window.entries EXCEPT ![Slot(s)] = e]
    <2>1. s \in Payload /\ window \in CircularBuffer
        BY <1>1, Numbers DEF Payload
    <2> QED BY <1>1, <2>1, BufferAdd
<1>3. window' = [w EXCEPT !.current = s + 1] /\ SendToClient(build_packet(s, FLAG_DATA, Entry(w, s).data))
    BY <1>1 DEF SendData
<1>4. Slot(s) \in Slots
    BY <1>1, SlotInRange
<1>5. Entry(w, s).data = s
    BY <1>2, <1>4, Numbers DEF Entry
<1> HIDE DEF w
<1>6. /\ window'.current = s + 1
      /\ window'.lowest = window.lowest /\ window'.highest = window.highest
      /\ window'.entries = w.entries
    BY <1>1, <1>2, <1>3 DEF CircularBuffer
<1>7. Grows /\ s + 1 <= window.lowest + WindowSize
    BY <1>1, <1>6 DEF Grows, EofPhase, EofStates, Stopped, Paced
<1>8. RetainedForResend'
    <2>4. window'.lowest = window.lowest /\ window'.current - 1 = s
        BY <1>1, <1>6
    <2> SUFFICES ASSUME NEW t \in window.lowest..s
                 PROVE  w.entries[Slot(t)] = [valid_flag |-> TRUE, sequence_num |-> t, data |-> t]
        BY <1>6, <2>4 DEF RetainedForResend, Entry
    <2>1. t \in Nat /\ Slot(t) \in Slots
        BY Numbers, SlotInRange
    <2>2. CASE t = s
        BY <1>2, <1>4, <2>2, Numbers
    <2>3. CASE t # s
        <3>1. t < s /\ s < t + WindowSize /\ t \in window.lowest..(window.current - 1)
            BY <1>1, <1>7, <2>1, <2>3, Numbers
        <3>2. Slot(t) # Slot(s)
            BY <1>1, <2>1, <3>1, SlotInjective
        <3> QED BY <1>1, <1>2, <2>1, <3>1, <3>2, Numbers DEF WindowInv, RetainedForResend, Entry
    <2> QED BY <2>2, <2>3
<1>9. WindowInv'
    <2>1. window'.current = filePos' /\ window'.current <= window'.highest
        BY <1>1, <1>6, Numbers
    <2> QED BY <1>1, <1>6, <1>8, <2>1 DEF WindowInv, EofStates
<1>10. AcksInv'
    <2>1. ASSUME NEW i \in 1..Len(toServer), toServer[i].flag = FLAG_SREJ
          PROVE  toServer[i].data < s + 1
        <3>1. toServer[i] \in ServerBound /\ toServer[i].data < s
            BY <1>1, <2>1, Numbers DEF AcksInv
        <3>2. toServer[i].data \in Nat
            BY <2>1, <3>1 DEF ServerBound, build_packet, Corrupted, FLAG_SREJ, FLAG_EOF
        <3> QED BY <1>1, <3>1, <3>2
    <2> QED BY <1>1, <1>6, <2>1 DEF AcksInv, IsAck
<1>11. DataInv'
    <2>1. p \in ClientBound /\ p.seq = s /\ p.data = s /\ p.flag # FLAG_EOF
        BY <1>1 DEF build_packet, ClientBound, Payload, DataFlags, FLAG_DATA, FLAG_EOF
    <2>2. NewGenuine(p.seq, p.data)
        BY <1>1, <1>6, <2>1 DEF NewGenuine
    <2>3. p.seq <= buffer.current + WindowSize /\ p.seq >= buffer.highest
        BY <1>1, <1>7, <2>1, Numbers DEF AcksInv, ExpectedInv
    <2>4. \A i \in 1..Len(toClient) : toClient[i] # Corrupted => toClient[i].seq <= p.seq
        BY <1>1, <2>1, Numbers, ClientPacket
           DEF DataInv, Genuine, EofPhase, EofStates, Stopped
    <2> HIDE DEF p
    <2>5. SendToClient(p)
        BY <1>3, <1>5 DEF p
    <2> QED BY <1>1, <1>7, <2>1, <2>2, <2>3, <2>4, <2>5, DataSent, SendKeepsDataInv
<1> QED BY <1>7, <1>9, <1>10, <1>11

\* The EOF packet takes the number after the last chunk.
LEMMA SendEofKeepsInv ==
    ASSUME Sheltered, TypeOK, TypeOK', ShelteredInv, UNCHANGED rcopyVars, SendEof
    PROVE  Grows /\ WindowInv' /\ AcksInv' /\ DataInv'
<1> DEFINE p == build_packet(window.current, FLAG_EOF, NoData)
<1>1. /\ WindowInv /\ AcksInv /\ DataInv /\ ExpectedInv
      /\ window' = window /\ buffer' = buffer /\ toServer' = toServer /\ filePos' = filePos
      /\ srv = "WAIT_EOF_ACK" /\ srv' = "EOF_POLL"
    BY DEF ShelteredInv, SendEof, rcopyVars
<1>2. /\ window.current = NumChunks /\ window.current <= window.lowest + WindowSize
      /\ EofPhase /\ EofPhase'
    BY <1>1 DEF WindowInv, Paced, EofPhase, EofStates
<1>3. Grows
    BY <1>1, <1>2, Numbers DEF Grows
<1>4. WindowInv' /\ AcksInv'
    BY <1>1, <1>2, Numbers DEF WindowInv, Paced, RetainedForResend, AcksInv, EofStates
<1>5. p \in ClientBound /\ p.seq = NumChunks /\ p.data = NoData
    BY <1>2, Numbers DEF build_packet, ClientBound, Payload
<1>6. NewGenuine(p.seq, p.data)
    BY <1>2, <1>5 DEF NewGenuine
<1>7. p.seq <= buffer.current + WindowSize /\ p.seq >= buffer.highest
    BY <1>1, <1>2, <1>5, Numbers DEF AcksInv, ExpectedInv
<1>8. \A i \in 1..Len(toClient) : toClient[i] # Corrupted => toClient[i].seq <= p.seq
    BY <1>1, <1>2, <1>5, Numbers, ClientPacket DEF DataInv, Genuine
<1>9. SendToClient(p)
    BY DEF SendEof
<1> HIDE DEF p
<1>10. DataInv'
    BY <1>1, <1>2, <1>3, <1>5, <1>6, <1>7, <1>8, <1>9, DataSent, SendKeepsDataInv
<1> QED BY <1>3, <1>4, <1>10

LEMMA ServerNextSheltered ==
    ASSUME Sheltered, TypeOK, TypeOK', ShelteredInv, AServerNext, Paced'
    PROVE  /\ Grows /\ WindowInv' /\ AcksInv' /\ DataInv'
           /\ window'.lowest >= window.lowest
<1>1. /\ WindowInv /\ AcksInv /\ DataInv /\ RetainedForResend
      /\ UNCHANGED rcopyVars
      /\ buffer' = buffer
      /\ window.lowest >= window.lowest
      /\ window.current >= window.current
    BY Numbers DEF ShelteredInv, WindowInv, AServerNext, rcopyVars
<1>2. CASE SendData
    <2>1. window'.lowest = window.lowest
        <3> DEFINE s == window.current
                   w == buffer_add(window, s, filePos)
        <3>3. filePos \in Payload /\ window \in CircularBuffer /\ s \in Nat
            BY Numbers DEF Payload
        <3>1. w \in CircularBuffer /\ w.lowest = window.lowest
            BY <3>3, BufferAdd
        <3> HIDE DEF w
        <3>2. s + 1 \in Nat
            BY Numbers
        <3> QED BY <1>2, <3>1, <3>2 DEF SendData, CircularBuffer, w
    <2> QED BY <1>1, <1>2, <2>1, SendDataKeepsInv
<1>3. CASE SendEof
    BY <1>1, <1>3, SendEofKeepsInv DEF SendEof
<1>4. CASE ReadEof \/ WindowClosed \/ DrainDone \/ FullDone \/ EofTimeout
    <2>1. /\ UNCHANGED <<window, filePos, toClient, toServer>>
          /\ srv' \in EofStates => filePos = NumChunks
          /\ EofPhase => EofPhase'
        BY <1>1, <1>4 DEF ReadEof, WindowClosed, DrainDone, FullDone, EofTimeout, netVars,
            WindowInv, EofPhase, EofStates, Stopped
    <2>2. Grows
        BY <1>1, <2>1 DEF Grows
    <2>3. WindowInv' /\ AcksInv'
        BY <1>1, <2>1 DEF WindowInv, RetainedForResend, AcksInv
    <2>4. DataInv'
        BY <1>1, <2>1 DEF DataInv, Genuine
    <2> QED BY <1>1, <2>1, <2>2, <2>3, <2>4
<1>5. ASSUME NEW next, NEW onEof, process_rr_srej_eof(next, onEof),
             srv \notin Stopped,
             srv \in EofStates => {next, onEof} \subseteq EofStates \cup Stopped,
             {next, onEof} \cap EofStates # {} => srv \in EofStates
      PROVE  /\ Grows /\ WindowInv' /\ AcksInv' /\ DataInv'
             /\ window'.lowest >= window.lowest
    <2>1. /\ Grows
          /\ srv' \in {next, onEof}
          /\ filePos' = filePos /\ window'.current = window.current
          /\ window'.lowest >= window.lowest
          /\ window'.lowest < window'.highest
          /\ window'.current <= window'.highest
          /\ RetainedForResend'
          /\ AcksInv' /\ DataInv'
        BY <1>1, <1>5, ProcessKeepsInv
    <2>2. WindowInv'
        BY <1>1, <1>5, <2>1 DEF WindowInv
    <2> QED BY <2>1, <2>2
<1>6. CASE DrainRecv
    BY <1>5, <1>6 DEF DrainRecv, Stopped, EofStates
<1>7. CASE FullRecv
    BY <1>5, <1>7 DEF FullRecv, WindowFull, Stopped, EofStates
<1>8. CASE EofRecv
    <2>1. process_rr_srej_eof("WAIT_EOF_ACK", "DONE") /\ srv = "EOF_POLL"
        BY <1>8 DEF EofRecv
    <2> QED BY <1>5, <2>1 DEF Stopped, EofStates
<1>9. CASE FullTimeout
    <2>1. /\ UNCHANGED <<window, filePos, toServer>>
          /\ srv = "WINDOW_FULL" /\ window.current = window.highest
        BY <1>9 DEF FullTimeout, WindowFull
    <2>2. srv' \notin EofStates /\ Grows
        BY <1>1, <1>9, <2>1, ResendType, FLAG_RESENT_TIMEOUT \in DataFlags, Numbers
           DEF FullTimeout, Grows, EofPhase, EofStates, Stopped, DataFlags
    <2>3. WindowInv' /\ AcksInv'
        BY <1>1, <2>1, <2>2 DEF WindowInv, RetainedForResend, AcksInv
    <2>4. DataInv'
        <3>1. CASE UNCHANGED <<toClient, faults>>
            BY <1>1, <2>1, <2>2, <3>1 DEF DataInv, Genuine, Grows
        <3>2. CASE resend_packet(window.lowest, FLAG_RESENT_TIMEOUT, "WINDOW_FULL")
            <4>1. /\ window.lowest \in Nat /\ window.lowest < window.current
                  /\ window.lowest <= buffer.current /\ window.lowest <= window.lowest
                BY <1>1, <2>1, Numbers DEF WindowInv, AcksInv
            <4>2. FLAG_RESENT_TIMEOUT \in DataFlags
                BY DEF DataFlags
            <4> QED BY <1>1, <2>1, <2>2, <3>2, <4>1, <4>2, GenuineResend
        <3> QED BY <1>9, <3>1, <3>2 DEF FullTimeout
    <2> QED BY <1>1, <2>1, <2>2, <2>3, <2>4
<1> QED BY <1>2, <1>3, <1>4, <1>6, <1>7, <1>8, <1>9
        DEF AServerNext, ServerNext, ServerStep, ServerTimeout

------------------------------------------------------------------------------
(***************************************************************************)
(* The steps of rcopy.                                                     *)
(***************************************************************************)

\* AcksInv for a queue q and an expected number n.
AcksOK(q, n) ==
    /\ window.lowest <= n
    /\ \A i \in 1..Len(q) :
           /\ q[i] # Corrupted
           /\ IsAck(q[i]) => window.lowest <= q[i].data /\ q[i].data <= n
           /\ q[i].flag = FLAG_SREJ => q[i].data < window.current
    /\ \A i, j \in 1..Len(q) :
           i < j /\ IsAck(q[i]) /\ IsAck(q[j]) => q[i].data <= q[j].data

LEMMA AcksOKGrows ==
    ASSUME TypeOK, NEW q \in Seq(ServerBound), NEW m \in Nat, NEW n \in Nat, m <= n,
           AcksOK(q, m)
    PROVE  AcksOK(q, n)
<1>1. \A i \in 1..Len(q) : IsAck(q[i]) => q[i].data \in Nat
    BY DEF IsAck, ServerBound, build_packet, Corrupted, FLAG_RR, FLAG_SREJ, FLAG_EOF
<1> QED BY <1>1, Numbers DEF AcksOK

\* An acknowledgment of the expected number may follow every other.
LEMMA AcksOKAppend ==
    ASSUME TypeOK, NEW q \in Seq(ServerBound), NEW n \in Nat, AcksOK(q, n),
           NEW p \in ServerBound, p # Corrupted,
           IsAck(p) => p.data = n,
           p.flag = FLAG_SREJ => n < window.current
    PROVE  AcksOK(Append(q, p), n)
<1> DEFINE r == Append(q, p)
<1>1. /\ Len(r) = Len(q) + 1 /\ Len(q) \in Nat
      /\ r[Len(q) + 1] = p
      /\ \A i \in 1..Len(q) : r[i] = q[i]
    BY Appended
<1>2. \A i \in 1..Len(r) : i \in 1..Len(q) \/ i = Len(q) + 1
    BY <1>1
<1>3. p.flag = FLAG_SREJ => IsAck(p)
    BY DEF IsAck
<1> HIDE DEF r
<1>4. \A i \in 1..Len(r) :
           /\ r[i] # Corrupted
           /\ IsAck(r[i]) => window.lowest <= r[i].data /\ r[i].data <= n
           /\ r[i].flag = FLAG_SREJ => r[i].data < window.current
    <2> TAKE i \in 1..Len(r)
    <2>1. CASE i \in 1..Len(q)
        BY <1>1, <2>1 DEF AcksOK
    <2>2. CASE i = Len(q) + 1
        <3>1. window.lowest <= n /\ n <= n
            BY Numbers DEF AcksOK
        <3> QED BY <1>1, <1>3, <2>2, <3>1
    <2> QED BY <1>2, <2>1, <2>2
<1>5. ASSUME NEW i \in 1..Len(r), NEW j \in 1..Len(r), i < j, IsAck(r[i]), IsAck(r[j])
      PROVE  r[i].data <= r[j].data
    <2>1. i \in 1..Len(q)
        BY <1>1, <1>5
    <2>2. CASE j \in 1..Len(q)
        BY <1>1, <1>5, <2>1, <2>2 DEF AcksOK
    <2>3. CASE j = Len(q) + 1
        BY <1>1, <1>4, <1>5, <2>3
    <2> QED BY <1>2, <2>2, <2>3
<1> QED BY <1>4, <1>5 DEF AcksOK, r

LEMMA AcksOKSent ==
    ASSUME Sheltered, TypeOK, TypeOK', AcksInv, UNCHANGED window,
           buffer'.current >= buffer.current,
           NEW p \in ServerBound, p # Corrupted,
           IsAck(p) => p.data = buffer'.current,
           p.flag = FLAG_SREJ => buffer'.current < window.current,
           SendToServer(p) \/ UNCHANGED toServer
    PROVE  AcksInv'
<1>1. buffer.current \in Nat /\ buffer'.current \in Nat /\ toServer \in Seq(ServerBound)
    BY Numbers DEF TypeOK, RcopyTypeOK, CircularBuffer
<1>2. AcksOK(toServer, buffer.current)
    BY DEF AcksInv, AcksOK
<1>3. AcksOK(toServer, buffer'.current)
    BY <1>1, <1>2, AcksOKGrows
<1>4. AcksOK(Append(toServer, p), buffer'.current)
    BY <1>1, <1>3, AcksOKAppend
<1>5. toServer' = toServer \/ toServer' = Append(toServer, p)
    BY AckSent
<1>6. AcksOK(toServer', buffer'.current)
    BY <1>3, <1>4, <1>5
<1> QED BY <1>6 DEF AcksInv, AcksOK

\* The packet a handler of rcopy decides about.
LEMMA AcceptedPacket ==
    ASSUME TypeOK, DataInv, NEW s, NEW p, Received(s, p), ~BadChecksum(p)
    PROVE  /\ p \in ClientBound /\ p.seq \in Nat
           /\ Genuine(p.seq, p.data)
           /\ p.flag = FLAG_EOF => p.seq = NumChunks /\ EofPhase
           /\ p.seq <= buffer.current + WindowSize
           /\ p.seq <= buffer.current \/ p.seq >= buffer.highest
           /\ \A i \in 1..Len(toClient) : toClient[i] # Corrupted =>
                  toClient[i].seq <= buffer.current \/ p.seq <= toClient[i].seq
<1>1. p = toClient[1] /\ 1 \in 1..Len(toClient) /\ p \in ClientBound /\ Len(toClient) \in Nat
    BY HeadAndTail, Numbers DEF Received
<1>2. p # Corrupted
    BY DEF BadChecksum
<1>3. p.seq \in Nat
    BY <1>1, ClientPacket
<1>4. ASSUME NEW i \in 1..Len(toClient), toClient[i] # Corrupted
      PROVE  toClient[i].seq <= buffer.current \/ p.seq <= toClient[i].seq
    <2>1. CASE i = 1
        BY <1>1, <1>3, <2>1
    <2>2. CASE 1 < i
        BY <1>1, <1>2, <1>4, <2>2 DEF DataInv
    <2> QED BY <1>1, <2>1, <2>2
<1> QED BY <1>1, <1>2, <1>3, <1>4 DEF DataInv

\* A packet taken off rcopy's queue, or none.
LEMMA ReceiveKeepsDataInv ==
    ASSUME TypeOK, TypeOK', DataInv, UNCHANGED serverVars,
           \/ toClient # <<>> /\ toClient' = Tail(toClient)
           \/ toClient' = toClient,
           buffer'.current >= buffer.current,
           \A i \in 1..Len(toClient) : toClient[i] # Corrupted =>
                 toClient[i].seq <= buffer'.current \/ toClient[i].seq >= buffer'.highest
    PROVE  DataInv'
<1> DEFINE q == toClient
           c == buffer'.current
           Good(m) == /\ Genuine(m.seq, m.data)
                      /\ m.flag = FLAG_EOF => m.seq = NumChunks /\ EofPhase
                      /\ m.seq <= c + WindowSize
                      /\ m.seq <= c \/ m.seq >= buffer'.highest
           Before(m, n) == n.seq <= c \/ m.seq <= n.seq
<1>1. /\ buffer.current \in Nat /\ c \in Nat /\ WindowSize \in Nat
      /\ \A i \in 1..Len(q) : q[i].seq \in Nat
    <2>1. c \in Nat
        BY DEF TypeOK, RcopyTypeOK, CircularBuffer
    <2>2. \A i \in 1..Len(q) : q[i].seq \in Nat
        BY Numbers, ClientPacket
    <2> QED BY <2>1, <2>2, Numbers
<1>2. \A i \in 1..Len(q) : q[i] # Corrupted => Good(q[i])
    BY <1>1 DEF DataInv
<1>3. \A i, j \in 1..Len(q) :
          i < j /\ q[i] # Corrupted /\ q[j] # Corrupted => Before(q[i], q[j])
    BY <1>1 DEF DataInv
<1> HIDE DEF Good, Before, q, c
<1>4. CASE toClient # <<>> /\ toClient' = Tail(toClient)
    <2>1. /\ Len(q) \in Nat /\ Len(toClient') = Len(q) - 1
          /\ \A i \in 1..Len(toClient') : i + 1 \in 1..Len(q) /\ toClient'[i] = q[i + 1]
        BY <1>4, HeadAndTail, Numbers DEF q
    <2>2. \A i \in 1..Len(toClient') : toClient'[i] # Corrupted => Good(toClient'[i])
        BY <1>2, <2>1
    <2>3. \A i, j \in 1..Len(toClient') :
              i < j /\ toClient'[i] # Corrupted /\ toClient'[j] # Corrupted
                  => Before(toClient'[i], toClient'[j])
        BY <1>3, <2>1
    <2> QED BY <2>2, <2>3 DEF DataInv, Good, Before, c, Genuine, EofPhase, serverVars
<1>5. CASE toClient' = toClient
    BY <1>2, <1>3, <1>5 DEF DataInv, Good, Before, c, q, Genuine, EofPhase, serverVars
<1> QED BY <1>4, <1>5

\* The chunk that belongs to the expected number goes to the end of the file.
LEMMA WriteKeepsExpected ==
    ASSUME TypeOK, TypeOK', ExpectedInv, UNCHANGED serverVars,
           NEW d, Genuine(buffer.current, d),
           out' = Written(out, d),
           buffer'.current = buffer.current + 1,
           buffer'.highest <= window.current
    PROVE  ExpectedInv'
<1> DEFINE c == buffer.current
<1>1. /\ c \in Nat /\ window.current \in Nat /\ NumChunks \in Nat
      /\ out \in Seq(Nat \cup {Uninit})
      /\ window.current <= NumChunks \/ ~EofPhase
      /\ EofPhase' <=> EofPhase
      /\ window' = window
    BY Numbers DEF TypeOK, RcopyTypeOK, EofPhase, serverVars
<1>2. CASE c < window.current /\ d = c
    <2>1. Len(out) = c
        BY <1>1, <1>2 DEF ExpectedInv, EofPhase
    <2>2. out' = Append(out, c)
        BY <1>1, <1>2, PayloadAssumption DEF Written
    <2>3. Len(out') = c + 1 /\ \A i \in 1..Len(out') : out'[i] = i - 1
        <3>1. /\ Len(out') = Len(out) + 1 /\ out'[Len(out) + 1] = c
              /\ \A i \in 1..Len(out) : out'[i] = out[i]
            BY <1>1, <2>2
        <3>2. \A i \in 1..(c + 1) : i \in 1..c \/ i = c + 1
            BY <1>1
        <3> QED BY <1>1, <2>1, <3>1, <3>2 DEF ExpectedInv
    <2> QED BY <1>1, <1>2, <2>3 DEF ExpectedInv
<1>3. CASE c = NumChunks /\ d = NoData /\ EofPhase
    <2>1. Len(out) = NumChunks /\ out' = out
        BY <1>1, <1>3 DEF ExpectedInv, Written
    <2> QED BY <1>1, <1>3, <2>1 DEF ExpectedInv
<1> QED BY <1>2, <1>3 DEF Genuine

\* What a valid slot of rcopy's ring holds, for an expected number c and a
\* highest number h.
Held(e, i, c, h) ==
    /\ Genuine(e.sequence_num, e.data)
    /\ Slot(e.sequence_num) = i
    /\ e.sequence_num >= c
    /\ e.sequence_num <= c + WindowSize
    /\ e.sequence_num <= h

\* A packet that came too early goes to the slot of its number.
LEMMA StoreKeepsHeld ==
    ASSUME TypeOK, TypeOK', ExpectedInv, UNCHANGED <<serverVars, out>>,
           NEW p \in ClientBound, Genuine(p.seq, p.data),
           buffer.current < p.seq, p.seq <= buffer.current + WindowSize,
           p.seq >= buffer.highest,
           buffer' = Stored(buffer, p), rcv' = "BUFFER",
           \A i \in Slots : buffer.entries[i].valid_flag =>
               /\ Held(buffer.entries[i], i, buffer.current, buffer.highest)
               /\ buffer.entries[i].sequence_num # buffer.current
    PROVE  ExpectedInv' /\ HeldInv' /\ buffer'.current = buffer.current /\ buffer'.highest = p.seq
<1> DEFINE e == [valid_flag |-> TRUE, sequence_num |-> p.seq, data |-> p.data]
<1>1. /\ p.seq \in Nat /\ Slot(p.seq) \in Slots
      /\ buffer.current \in Nat /\ buffer.highest \in Nat /\ window.current \in Nat
      /\ NumChunks \in Nat
    BY ClientPacket, SlotInRange, Numbers
<1>2. /\ buffer'.current = buffer.current /\ buffer'.highest = p.seq
      /\ buffer'.entries = [buffer.entries EXCEPT ![Slot(p.seq)] = e]
    BY StoredBuffer, ClientPacket, Numbers
<1>3. p.seq <= window.current
    BY <1>1 DEF Genuine, EofPhase
<1>4. ExpectedInv'
    BY <1>1, <1>2, <1>3 DEF ExpectedInv, EofPhase, serverVars
<1>5. ASSUME NEW i \in Slots, buffer'.entries[i].valid_flag
      PROVE  /\ Held(buffer'.entries[i], i, buffer.current, p.seq)
             /\ buffer'.entries[i].sequence_num # buffer.current
    <2>1. CASE i = Slot(p.seq)
        <3>1. buffer'.entries[i] = e
            BY <1>1, <1>2, <2>1, Numbers
        <3>2. e.sequence_num = p.seq /\ e.data = p.data
            OBVIOUS
        <3> HIDE DEF e
        <3> QED BY <1>1, <2>1, <3>1, <3>2 DEF Held
    <2>2. CASE i # Slot(p.seq)
        <3>1. buffer'.entries[i] = buffer.entries[i]
            BY <1>1, <1>2, <2>2, Numbers
        <3>2. buffer.entries[i].sequence_num \in Int
            BY Numbers DEF BufferEntry
        <3> QED BY <1>1, <1>5, <3>1, <3>2 DEF Held
    <2> QED BY <2>1, <2>2
<1>6. HeldInv'
    BY <1>2, <1>5 DEF HeldInv, Held, Genuine, EofPhase, serverVars
<1> QED BY <1>2, <1>4, <1>6

LEMMA ClientNextSheltered ==
    ASSUME Sheltered, TypeOK, TypeOK', ShelteredInv, AClientNext
    PROVE  AcksInv' /\ DataInv' /\ ExpectedInv' /\ HeldInv'
<1>1. /\ WindowInv /\ AcksInv /\ DataInv /\ ExpectedInv /\ HeldInv
      /\ UNCHANGED serverVars /\ UNCHANGED window
      /\ buffer \in CircularBuffer
      /\ buffer.current \in Nat /\ buffer.highest \in Nat /\ window.current \in Nat
      /\ buffer.current >= buffer.current /\ WindowSize \in Nat \ {0} /\ NumChunks \in Nat
    BY Numbers DEF ShelteredInv, AClientNext, serverVars
<1> DEFINE c == buffer.current
           h == buffer.highest
           Eof == build_packet(0, FLAG_EOF, NoData)
<1>2. \A i \in 1..Len(toClient) : toClient[i] \in ClientBound /\ toClient[i].seq \in Nat
    BY Numbers, ClientPacket
<1>3. /\ Eof \in ServerBound /\ Eof # Corrupted /\ ~IsAck(Eof) /\ Eof.flag # FLAG_SREJ
    BY DEF ServerBound, build_packet, Corrupted, IsAck, FLAG_EOF, FLAG_RR, FLAG_SREJ
<1>4. ASSUME NEW n \in Nat
      PROVE  /\ RR(n) \in ServerBound /\ RR(n) # Corrupted
             /\ RR(n).data = n /\ RR(n).flag # FLAG_SREJ
             /\ SREJ(n) \in ServerBound /\ SREJ(n) # Corrupted /\ SREJ(n).data = n
    BY DEF RR, SREJ, ServerBound, build_packet, Corrupted, IsAck, FLAG_RR, FLAG_SREJ
<1>5. ASSUME NEW s, NEW p, Received(s, p)
      PROVE  toClient # <<>> /\ toClient' = Tail(toClient) /\ rcv = s /\ p = Head(toClient)
    BY <1>5 DEF Received
<1>6. ASSUME UNCHANGED buffer, UNCHANGED out, rcv' = rcv \/ rcv' \in {"EXIT", "ABORTED"}
      PROVE  ExpectedInv' /\ HeldInv'
    BY <1>1, <1>6 DEF ExpectedInv, HeldInv, Genuine, EofPhase, serverVars
<1>7. ASSUME UNCHANGED buffer,
             \/ toClient # <<>> /\ toClient' = Tail(toClient)
             \/ toClient' = toClient
      PROVE  DataInv'
    BY <1>1, <1>2, <1>7, ReceiveKeepsDataInv DEF DataInv
<1>8. ASSUME NEW p \in ServerBound, p # Corrupted, UNCHANGED buffer,
             IsAck(p) => p.data = c, p.flag = FLAG_SREJ => c < window.current,
             SendToServer(p) \/ UNCHANGED toServer
      PROVE  AcksInv'
    BY <1>1, <1>8, AcksOKSent
<1>9. ASSUME NEW s, DropCorrupted(s)
      PROVE  AcksInv' /\ DataInv' /\ ExpectedInv' /\ HeldInv'
    <2>1. UNCHANGED buffer /\ UNCHANGED out /\ rcv' = rcv /\ UNCHANGED toServer
        BY <1>9 DEF DropCorrupted, rcopyVars
    <2> QED BY <1>3, <1>5, <1>6, <1>7, <1>8, <1>9, <2>1 DEF DropCorrupted
<1>10. ASSUME NEW s, ExitTransfer(s)
       PROVE  AcksInv' /\ DataInv' /\ ExpectedInv' /\ HeldInv'
    <2>1. UNCHANGED buffer /\ UNCHANGED out /\ rcv' = "EXIT" /\ SendToServer(Eof)
        BY <1>10 DEF ExitTransfer
    <2> QED BY <1>3, <1>5, <1>6, <1>7, <1>8, <1>10, <2>1 DEF ExitTransfer
<1>11. ASSUME NEW s, AckAgain(s)
       PROVE  AcksInv' /\ DataInv' /\ ExpectedInv' /\ HeldInv'
    <2>1. UNCHANGED buffer /\ UNCHANGED out /\ rcv' = rcv /\ SendToServer(RR(c))
        BY <1>11 DEF AckAgain, rcopyVars
    <2>2. RR(c) \in ServerBound /\ RR(c) # Corrupted /\ RR(c).data = c /\ RR(c).flag # FLAG_SREJ
        BY <1>1, <1>4
    <2> QED BY <1>5, <1>6, <1>7, <1>8, <1>11, <2>1, <2>2 DEF AckAgain, Accepted
<1>12. CASE ClientTimeout
    <2>1. UNCHANGED buffer /\ UNCHANGED out /\ rcv' = "ABORTED" /\ UNCHANGED <<toClient, toServer>>
        BY <1>12 DEF ClientTimeout, netVars
    <2> QED BY <1>3, <1>6, <1>7, <1>8, <2>1
<1> DEFINE m == Head(toClient)
<1>13. ASSUME NEW s, Accepted(s, m)
       PROVE  /\ m \in ClientBound /\ m.seq \in Nat
              /\ Genuine(m.seq, m.data)
              /\ m.seq <= c + WindowSize
              /\ m.seq <= c \/ m.seq >= h
              /\ \A i \in 1..Len(toClient) : toClient[i] # Corrupted =>
                     toClient[i].seq <= c \/ m.seq <= toClient[i].seq
              /\ rcv = s /\ toClient # <<>> /\ toClient' = Tail(toClient)
    BY <1>1, <1>5, <1>13, AcceptedPacket DEF Accepted
<1>14. CASE WriteInorder
    <2>1. /\ m.seq = c /\ Genuine(c, m.data) /\ toClient # <<>> /\ toClient' = Tail(toClient)
          /\ rcv = "INORDER" /\ rcv' = "INORDER" /\ out' = Written(out, m.data)
        BY <1>13, <1>14 DEF WriteInorder
    <2>2. /\ buffer'.current = c + 1 /\ buffer'.highest = c
          /\ buffer'.entries = buffer.entries
        BY <1>1, <1>14, NextExpected DEF WriteInorder
    <2>3. c <= window.current
        BY <1>1, <2>1 DEF Genuine, EofPhase
    <2>4. ExpectedInv'
        BY <1>1, <2>1, <2>2, <2>3, WriteKeepsExpected
    <2>5. DataInv'
        <3>1. buffer'.current >= buffer.current
            BY <1>1, <2>2
        <3>2. \A i \in 1..Len(toClient) :
                  toClient[i].seq <= buffer'.current \/ toClient[i].seq >= buffer'.highest
            BY <1>1, <1>2, <2>2
        <3> QED BY <1>1, <2>1, <3>1, <3>2, ReceiveKeepsDataInv
    <2>6. AcksInv'
        <3>1. SendToServer(RR(c + 1)) /\ c + 1 \in Nat /\ buffer'.current >= buffer.current
            BY <1>1, <1>14, <2>2 DEF WriteInorder
        <3> DEFINE r == RR(c + 1)
        <3>2. r \in ServerBound /\ r # Corrupted /\ r.data = buffer'.current /\ r.flag # FLAG_SREJ
            BY <1>4, <2>2, <3>1
        <3> HIDE DEF r
        <3>3. SendToServer(r)
            BY <3>1 DEF r
        <3> QED BY <1>1, <3>1, <3>2, <3>3, AcksOKSent
    <2>7. HeldInv'
        BY <1>1, <2>1, <2>2 DEF HeldInv
    <2> QED BY <2>4, <2>5, <2>6, <2>7
<1>15. CASE FillGap
    <2>1. /\ m.seq = c /\ Genuine(c, m.data) /\ toClient # <<>> /\ toClient' = Tail(toClient)
          /\ rcv = "BUFFER" /\ rcv' = "FLUSH" /\ out' = Written(out, m.data)
          /\ UNCHANGED toServer
        BY <1>13, <1>15 DEF FillGap
    <2>2. /\ buffer'.current = c + 1 /\ buffer'.highest = h
          /\ buffer'.entries = buffer.entries
        BY <1>1, <1>15, NextExpected DEF FillGap
    <2>3. ExpectedInv'
        BY <1>1, <2>1, <2>2, WriteKeepsExpected DEF ExpectedInv
    <2>4. buffer'.current >= buffer.current
        BY <1>1, <2>2
    <2>5. DataInv'
        <3>1. \A i \in 1..Len(toClient) : toClient[i] # Corrupted =>
                  toClient[i].seq <= buffer'.current \/ toClient[i].seq >= buffer'.highest
            BY <1>1, <1>2, <2>2 DEF DataInv
        <3> QED BY <1>1, <2>1, <2>4, <3>1, ReceiveKeepsDataInv
    <2>6. AcksInv'
        BY <1>1, <1>3, <2>1, <2>4, AcksOKSent
    <2>7. HeldInv'
        <3>1. \A i \in Slots : buffer.entries[i].sequence_num \in Int
            BY Numbers DEF BufferEntry
        <3> QED BY <1>1, <2>1, <2>2, <3>1 DEF HeldInv, Genuine, EofPhase, serverVars
    <2> QED BY <2>3, <2>5, <2>6, <2>7
<1>16. CASE GapFound
    <2>1. /\ m \in ClientBound /\ Genuine(m.seq, m.data) /\ m.seq \in Nat
          /\ c < m.seq /\ m.seq <= c + WindowSize /\ m.seq >= h
          /\ toClient # <<>> /\ toClient' = Tail(toClient)
          /\ rcv = "INORDER" /\ rcv' = "BUFFER" /\ UNCHANGED out
          /\ buffer' = Stored(buffer, m)
        BY <1>1, <1>13, <1>16 DEF GapFound
    <2>2. \A i \in Slots : ~buffer.entries[i].valid_flag
        BY <1>1, <2>1 DEF HeldInv
    <2> HIDE DEF m
    <2>3. ExpectedInv' /\ HeldInv' /\ buffer'.current = c /\ buffer'.highest = m.seq
        BY <1>1, <2>1, <2>2, StoreKeepsHeld
    <2>4. \A i \in 1..Len(toClient) : toClient[i] # Corrupted =>
              toClient[i].seq <= buffer'.current \/ toClient[i].seq >= buffer'.highest
        BY <1>1, <1>2, <1>13, <1>16, <2>1, <2>3 DEF GapFound, m
    <2>5. DataInv'
        BY <1>1, <2>1, <2>3, <2>4, ReceiveKeepsDataInv
    <2>6. c < window.current
        BY <1>1, <2>1 DEF Genuine, EofPhase
    <2>7. AcksInv'
        <3> DEFINE r == SREJ(c)
        <3>1. r \in ServerBound /\ r # Corrupted /\ r.data = buffer'.current
            BY <1>1, <1>4, <2>3
        <3>2. SendToServer(r)
            BY <1>16 DEF GapFound
        <3> HIDE DEF r
        <3> QED BY <1>1, <2>3, <2>6, <3>1, <3>2, AcksOKSent
    <2> QED BY <2>3, <2>5, <2>7
<1>17. CASE StoreEarly
    <2>1. /\ m \in ClientBound /\ Genuine(m.seq, m.data) /\ m.seq \in Nat
          /\ c < m.seq /\ m.seq <= c + WindowSize /\ m.seq >= h
          /\ toClient # <<>> /\ toClient' = Tail(toClient)
          /\ rcv = "BUFFER" /\ rcv' = "BUFFER" /\ UNCHANGED out /\ UNCHANGED toServer
          /\ buffer' = Stored(buffer, m)
        BY <1>1, <1>13, <1>17 DEF StoreEarly
    <2>2. \A i \in Slots : buffer.entries[i].valid_flag =>
               /\ Held(buffer.entries[i], i, c, h)
               /\ buffer.entries[i].sequence_num # c
        BY <1>1, <2>1 DEF HeldInv, Held
    <2> HIDE DEF m
    <2>3. ExpectedInv' /\ HeldInv' /\ buffer'.current = c /\ buffer'.highest = m.seq
        BY <1>1, <2>1, <2>2, StoreKeepsHeld
    <2>4. \A i \in 1..Len(toClient) : toClient[i] # Corrupted =>
              toClient[i].seq <= buffer'.current \/ toClient[i].seq >= buffer'.highest
        BY <1>1, <1>2, <1>13, <1>17, <2>1, <2>3 DEF StoreEarly, m
    <2>5. DataInv'
        BY <1>1, <2>1, <2>3, <2>4, ReceiveKeepsDataInv
    <2>6. AcksInv'
        BY <1>1, <1>3, <2>1, <2>3, AcksOKSent
    <2> QED BY <2>3, <2>5, <2>6
<1>18. CASE FlushEntry
    <2> DEFINE k == Slot(c)
               e == buffer.entries[k]
    <2>1. /\ rcv = "FLUSH" /\ rcv' = "FLUSH" /\ e.valid_flag
          /\ out' = Written(out, e.data) /\ UNCHANGED toClient
        BY <1>18 DEF FlushEntry, Entry
    <2>2. k \in Slots /\ \A i \in Slots : buffer.entries[i] \in BufferEntry
        BY <1>1, SlotInRange, Numbers
    <2>3. /\ buffer'.current = c + 1 /\ buffer'.highest = h
          /\ buffer'.entries = [buffer.entries EXCEPT ![k] = [e EXCEPT !.valid_flag = FALSE]]
        BY <1>1, <1>18, FlushedEntry DEF FlushEntry, Entry
    <2>4. Held(e, k, c, h) /\ e.sequence_num < c + WindowSize
        BY <1>1, <2>1, <2>2 DEF HeldInv, Held
    <2>5. e.sequence_num = c
        <3>1. e.sequence_num \in Int
            BY <2>2 DEF BufferEntry
        <3>2. e.sequence_num \in Nat
            BY <1>1, <2>4, <3>1 DEF Held
        <3> QED BY <1>1, <2>4, <3>2, SlotInjective DEF Held
    <2>6. Genuine(c, e.data)
        BY <2>4, <2>5 DEF Held
    <2>7. ExpectedInv'
        BY <1>1, <2>1, <2>3, <2>6, WriteKeepsExpected DEF ExpectedInv
    <2>8. buffer'.current >= buffer.current /\ c + 1 \in Nat
        BY <1>1, <2>3
    <2>9. DataInv'
        <3>1. \A i \in 1..Len(toClient) : toClient[i] # Corrupted =>
                  toClient[i].seq <= buffer'.current \/ toClient[i].seq >= buffer'.highest
            BY <1>1, <1>2, <2>3 DEF DataInv
        <3> QED BY <1>1, <2>1, <2>8, <3>1, ReceiveKeepsDataInv
    <2>10. AcksInv'
        <3> DEFINE r == RR(c + 1)
        <3>1. r \in ServerBound /\ r # Corrupted /\ r.data = buffer'.current /\ r.flag # FLAG_SREJ
            BY <1>4, <2>3, <2>8
        <3>2. SendToServer(r)
            BY <1>18, <2>3 DEF FlushEntry
        <3> HIDE DEF r
        <3> QED BY <1>1, <2>8, <3>1, <3>2, AcksOKSent
    <2>11. ASSUME NEW i \in Slots, buffer'.entries[i].valid_flag
           PROVE  /\ Held(buffer'.entries[i], i, c + 1, h)
                  /\ buffer'.entries[i].sequence_num < c + 1 + WindowSize
        <3>1. CASE i = k
            <4>1. buffer'.entries[i] = [e EXCEPT !.valid_flag = FALSE] /\ e \in BufferEntry
                BY <1>1, <2>2, <2>3, <3>1, Numbers
            <4> HIDE DEF e
            <4>2. buffer'.entries[i].valid_flag = FALSE
                BY <4>1 DEF BufferEntry
            <4> QED BY <2>11, <4>2
        <3>2. CASE i # k
            <4>1. buffer'.entries[i] = buffer.entries[i] /\ buffer.entries[i].sequence_num \in Int
                BY <1>1, <2>2, <2>3, <3>2, Numbers DEF BufferEntry
            <4>2. Held(buffer.entries[i], i, c, h)
                BY <1>1, <2>1, <2>11, <4>1 DEF HeldInv, Held
            <4>3. buffer.entries[i].sequence_num # c
                BY <3>2, <4>2 DEF Held
            <4> QED BY <1>1, <4>1, <4>2, <4>3 DEF Held
        <3> QED BY <3>1, <3>2
    <2>12. HeldInv'
        BY <1>1, <2>1, <2>3, <2>11 DEF HeldInv, Held, Genuine, EofPhase, serverVars
    <2> QED BY <2>7, <2>9, <2>10, <2>12
<1>19. CASE FlushEnd
    <2>1. /\ rcv = "FLUSH" /\ UNCHANGED buffer /\ UNCHANGED out /\ UNCHANGED toClient
          /\ ~buffer.entries[Slot(c)].valid_flag
        BY <1>19 DEF FlushEnd, Entry
    <2>2. DataInv'
        BY <1>7, <2>1
    <2>3. ExpectedInv'
        BY <1>1, <2>1 DEF ExpectedInv, EofPhase, serverVars
    <2>4. ASSUME NEW i \in Slots, buffer.entries[i].valid_flag
          PROVE  /\ Held(buffer.entries[i], i, c, h)
                 /\ buffer.entries[i].sequence_num \in Int
                 /\ c < buffer.entries[i].sequence_num
        <3>1. Held(buffer.entries[i], i, c, h)
            BY <1>1, <2>1, <2>4 DEF HeldInv, Held
        <3>2. buffer.entries[i].sequence_num \in Int
            BY Numbers DEF BufferEntry
        <3>3. buffer.entries[i].sequence_num # c
            BY <2>1, <2>4, <3>1 DEF Held
        <3> QED BY <1>1, <3>1, <3>2, <3>3 DEF Held
    <2>5. CASE NothingMissing(buffer)
        <3>1. rcv' = "INORDER" /\ UNCHANGED toServer
            BY <1>19, <2>5 DEF FlushEnd
        <3>2. AcksInv'
            BY <1>3, <1>8, <2>1, <3>1
        <3>3. HeldInv'
            BY <1>1, <2>1, <2>4, <2>5, <3>1 DEF HeldInv, Held, NothingMissing
        <3> QED BY <2>2, <2>3, <3>2, <3>3
    <2>6. CASE ~NothingMissing(buffer)
        <3>1. rcv' = "BUFFER" /\ SendTwoToServer(SREJ(c), RR(c))
            BY <1>19, <2>6 DEF FlushEnd
        <3>2. c < window.current
            BY <1>1, <2>6 DEF NothingMissing, ExpectedInv
        <3>3. HeldInv'
            BY <1>1, <2>1, <2>4, <3>1 DEF HeldInv, Held, Genuine, EofPhase, serverVars
        <3>4. PICK f, g \in Fates(ClientErrors) : toServer' = Put(Put(toServer, f, SREJ(c)), g, RR(c))
            BY <3>1 DEF SendTwoToServer
        <3>5. f # "flip" /\ g # "flip"
            BY DEF Sheltered, Fates
        <3> DEFINE r == SREJ(c)
                   t == RR(c)
                   q == Put(toServer, f, r)
        <3>6. /\ r \in ServerBound /\ r # Corrupted /\ r.data = c
              /\ t \in ServerBound /\ t # Corrupted /\ t.data = c /\ t.flag # FLAG_SREJ
            BY <1>1, <1>4
        <3> HIDE DEF r, t
        <3>7. toServer \in Seq(ServerBound) /\ AcksOK(toServer, c)
            BY <1>1, Numbers DEF AcksInv, AcksOK
        <3>8. q = toServer \/ q = Append(toServer, r)
            BY <3>5, PutCases
        <3>9. q \in Seq(ServerBound) /\ AcksOK(q, c)
            <4>1. Append(toServer, r) \in Seq(ServerBound)
                BY <3>6, <3>7, Appended
            <4>2. AcksOK(Append(toServer, r), c)
                BY <1>1, <3>2, <3>6, <3>7, AcksOKAppend
            <4> QED BY <3>7, <3>8, <4>1, <4>2
        <3> HIDE DEF q
        <3>10. toServer' = q \/ toServer' = Append(q, t)
            BY <3>4, <3>5, PutCases DEF q, r, t
        <3>11. AcksOK(toServer', c)
            BY <1>1, <3>6, <3>9, <3>10, AcksOKAppend
        <3>12. AcksInv'
            BY <1>1, <2>1, <3>11 DEF AcksInv, AcksOK
        <3> QED BY <2>2, <2>3, <3>3, <3>12
    <2> QED BY <2>5, <2>6
<1> QED BY <1>9, <1>10, <1>11, <1>12, <1>14, <1>15, <1>16, <1>17, <1>18, <1>19
        DEF AClientNext, ClientNext, ClientStep, handle_inorder, handle_buffer, handle_flush

------------------------------------------------------------------------------
(***************************************************************************)
(* The theorems.                                                           *)
(***************************************************************************)
LEMMA ShelteredInit ==
    ASSUME Sheltered, Init
    PROVE  ShelteredInv
<1> USE SizeAssumption, ServerAssumption
<1>1. /\ window = buffer_init(BufferSize) /\ buffer = buffer_init(0)
      /\ filePos = 0 /\ srv = "SEND_DATA" /\ rcv = "INORDER" /\ out = <<>>
      /\ toClient = <<>> /\ toServer = <<>>
    BY DEF Init, ServerInit, RcopyInit, NetInit
<1>2. /\ window.lowest = 0 /\ window.highest = BufferSize /\ window.current = 0
      /\ buffer.highest = 0 /\ buffer.current = 0
      /\ \A i \in Slots : ~buffer.entries[i].valid_flag
    BY <1>1 DEF buffer_init
<1>3. WindowInv
    BY <1>1, <1>2 DEF WindowInv, Paced, RetainedForResend, EofStates
<1>4. AcksInv /\ DataInv
    BY <1>1, <1>2 DEF AcksInv, DataInv
<1>5. ExpectedInv /\ HeldInv /\ NoEarlyExit
    BY <1>1, <1>2 DEF ExpectedInv, HeldInv, NoEarlyExit
<1> QED BY <1>3, <1>4, <1>5 DEF ShelteredInv

LEMMA ShelteredNext ==
    ASSUME Sheltered, AnyNetworkInv, AnyNetworkInv', ShelteredInv, [Next]_vars, Paced'
    PROVE  ShelteredInv' /\ window'.lowest >= window.lowest
<1>1. /\ TypeOK /\ TypeOK' /\ NoEarlyExit'
      /\ WindowInv /\ AcksInv /\ DataInv /\ ExpectedInv /\ HeldInv
      /\ window.lowest >= window.lowest
    BY Numbers DEF AnyNetworkInv, ShelteredInv
<1>2. CASE AServerNext
    <2>1. UNCHANGED rcopyVars
        BY <1>2 DEF AServerNext
    <2> QED BY <1>1, <1>2, <2>1, ServerNextSheltered, ServerKeepsRcopy DEF ShelteredInv
<1>3. CASE AClientNext
    <2>1. window' = window /\ WindowInv'
        BY <1>1, <1>3 DEF AClientNext, serverVars, WindowInv, Paced, RetainedForResend
    <2> QED BY <1>1, <1>3, <2>1, ClientNextSheltered DEF ShelteredInv
<1>4. CASE ANetworkNext
    BY <1>4 DEF ANetworkNext, NetDuplicate, NetReorder, Sheltered
<1>5. CASE UNCHANGED vars
    <2>1. /\ UNCHANGED <<window, filePos, srv>> /\ UNCHANGED <<buffer, rcv, out>>
          /\ UNCHANGED <<toClient, toServer>>
        BY <1>5 DEF vars, serverVars, rcopyVars, netVars
    <2>2. WindowInv' /\ AcksInv'
        BY <1>1, <2>1 DEF WindowInv, Paced, RetainedForResend, AcksInv
    <2>3. DataInv' /\ ExpectedInv' /\ HeldInv'
        BY <1>1, <2>1 DEF DataInv, ExpectedInv, HeldInv, Genuine, EofPhase
    <2> QED BY <1>1, <2>1, <2>2, <2>3 DEF ShelteredInv
<1> QED BY <1>2, <1>3, <1>4, <1>5 DEF Next, Terminated

\* With a buffer size of at most the window size the child is never ahead of
\* its ring: what keeps it back is the end of the window.
LEMMA WindowBoundNext ==
    ASSUME TypeOK, TypeOK', WindowInv, AcksInv, WindowBound, [Next]_vars
    PROVE  WindowBound' /\ Paced' /\ window'.highest >= window.highest
<1>1. /\ window'.current \in Nat /\ window'.lowest \in Nat /\ window'.highest \in Nat
      /\ window.current <= window.highest /\ window.highest <= window.lowest + WindowSize
      /\ window.highest >= window.highest
      /\ window.current \in Nat /\ window.lowest \in Nat /\ window.highest \in Nat
      /\ WindowSize \in Nat
    BY Numbers DEF TypeOK, ServerTypeOK, CircularBuffer, WindowInv, WindowBound
<1>2. CASE UNCHANGED window
    BY <1>1, <1>2 DEF WindowBound, Paced
<1>3. CASE SendData
    <2> DEFINE s == window.current
               w == buffer_add(window, s, filePos)
    <2>1. filePos \in Payload /\ window \in CircularBuffer /\ s \in Nat /\ s + 1 \in Nat
        BY Numbers DEF Payload
    <2>2. w \in CircularBuffer /\ w.highest = window.highest /\ w.lowest = window.lowest
        BY <2>1, BufferAdd
    <2> HIDE DEF w
    <2>3. /\ window'.current = s + 1
          /\ window'.lowest = window.lowest /\ window'.highest = window.highest
        BY <1>3, <2>1, <2>2 DEF SendData, CircularBuffer, w
    <2>4. s < window.highest
        BY <1>3 DEF SendData
    <2> QED BY <1>1, <2>3, <2>4 DEF WindowBound, Paced
<1>4. ASSUME NEW next, NEW onEof, process_rr_srej_eof(next, onEof)
      PROVE  WindowBound' /\ Paced' /\ window'.highest >= window.highest
    <2> DEFINE p == Head(toServer)
    <2>1. CASE UNCHANGED window
        BY <1>2, <2>1
    <2>2. CASE p.flag = FLAG_RR /\ window' = AdvanceWindow(window, p.data)
        <3>1. p = toServer[1] /\ 1 \in 1..Len(toServer) /\ p \in ServerBound
            BY <1>4, HeadAndTail, Numbers DEF process_rr_srej_eof
        <3>2. window.lowest <= p.data /\ p.data \in Nat
            BY <2>2, <3>1 DEF AcksInv, IsAck, ServerBound, build_packet, Corrupted,
                FLAG_RR, FLAG_EOF
        <3>3. /\ window'.lowest = p.data /\ window'.highest = p.data + WindowSize
              /\ window'.current = window.current
            BY <2>2, <3>2, AdvanceType, Numbers
        <3> QED BY <1>1, <3>2, <3>3 DEF WindowBound, Paced
    <2> QED BY <1>4, <2>1, <2>2 DEF process_rr_srej_eof
<1>5. CASE \/ ReadEof \/ WindowClosed \/ DrainDone \/ FullDone \/ SendEof
           \/ FullTimeout \/ EofTimeout
    BY <1>2, <1>5 DEF ReadEof, WindowClosed, DrainDone, FullDone, SendEof, FullTimeout,
        EofTimeout
<1>6. CASE DrainRecv \/ FullRecv \/ EofRecv
    BY <1>4, <1>6 DEF DrainRecv, FullRecv, EofRecv
<1>7. CASE AServerNext
    BY <1>3, <1>5, <1>6, <1>7 DEF AServerNext, ServerNext, ServerStep, ServerTimeout
<1>8. CASE AClientNext \/ ANetworkNext \/ UNCHANGED vars
    BY <1>2, <1>8 DEF AClientNext, ANetworkNext, vars, serverVars
<1> QED BY <1>7, <1>8 DEF Next, Terminated

\* The inductive invariant of the sheltered setting with a small buffer.
RingInv == AnyNetworkInv /\ ShelteredInv /\ WindowBound

LEMMA RingNext ==
    ASSUME Sheltered, RingInv, AnyNetworkInv', [Next]_vars
    PROVE  /\ RingInv'
           /\ window'.lowest >= window.lowest /\ window'.highest >= window.highest
<1>1. /\ WindowBound' /\ Paced' /\ window'.highest >= window.highest
    BY WindowBoundNext DEF RingInv, AnyNetworkInv, ShelteredInv
<1> QED BY <1>1, ShelteredNext DEF RingInv

\* It holds at first, and a step of the child or of rcopy keeps it.
LEMMA RingInit ==
    ASSUME Sheltered, FitsRing, Init
    PROVE  RingInv
<1>1. ShelteredInv /\ WindowBound
    BY ShelteredInit, SizeAssumption
       DEF FitsRing, WindowBound, Init, ServerInit, buffer_init
<1>2. AnyNetworkInv
    BY InitType, SizeAssumption, ServerAssumption
       DEF Init, ServerInit, RcopyInit, NetInit, buffer_init, InFlight, EofStates,
           AnyNetworkInv, AckedWasReceived, EofIsLast, NoEarlyExit
<1> QED BY <1>1, <1>2 DEF RingInv

LEMMA RingStep ==
    ASSUME Sheltered, RingInv, AServerNext \/ AClientNext
    PROVE  RingInv'
<1>1. [Next]_vars
    BY DEF Next
<1>2. AnyNetworkInv'
    <2>1. TypeOK'
        BY <1>1, NextType DEF RingInv, AnyNetworkInv
    <2> QED BY <2>1, ServerNextInv, ClientNextInv DEF RingInv, AnyNetworkInv
<1> QED BY <1>1, <1>2, RingNext

\* In the sheltered setting the invariant holds throughout.
THEOREM ShelteredInductive ==
    ASSUME Sheltered, FitsRing
    PROVE  Spec => []RingInv
<1>1. Init => ShelteredInv /\ WindowBound
    BY RingInit DEF RingInv
<1>2. RingInv /\ AnyNetworkInv' /\ [Next]_vars => ShelteredInv' /\ WindowBound'
    BY RingNext DEF RingInv
<1> QED BY <1>1, <1>2, AnyNetworkInductive, PTL DEF Spec, RingInv

\* The chain of inequalities from the child's window to rcopy's ring holds in
\* every reachable state of the sheltered setting.
THEOREM ShelteredInvAlways ==
    ASSUME Sheltered, FitsRing
    PROVE  Spec => []ShelteredInv
<1>1. RingInv => ShelteredInv
    BY DEF RingInv
<1> QED BY <1>1, ShelteredInductive, PTL

LEMMA ShelteredImplies ==
    ASSUME Sheltered, AnyNetworkInv, ShelteredInv
    PROVE  /\ Integrity /\ CompleteOnExit
           /\ RetainedForResend /\ NeverOverrun /\ BufferedIsAhead
<1>1. /\ WindowInv /\ ExpectedInv /\ HeldInv /\ NoEarlyExit /\ TypeOK
      /\ window.current \in Nat /\ window.highest \in Nat /\ window.lowest \in Nat
      /\ buffer.current \in Nat /\ NumChunks \in Nat /\ filePos \in 0..NumChunks
      /\ WindowSize \in Nat \ {0}
      /\ \A i \in Slots : buffer.entries[i].sequence_num \in Int
    BY Numbers DEF ShelteredInv, AnyNetworkInv, BufferEntry
<1>2. Integrity
    BY <1>1 DEF Integrity, ExpectedInv, WindowInv
<1>3. CompleteOnExit
    BY <1>1 DEF CompleteOnExit, NoEarlyExit, ExpectedInv, WindowInv
<1>4. RetainedForResend /\ NeverOverrun
    BY <1>1 DEF WindowInv, Paced, NeverOverrun
<1>5. BufferedIsAhead
    BY <1>1 DEF BufferedIsAhead, HeldInv, Receiving
<1> QED BY <1>2, <1>3, <1>4, <1>5

\* In the sheltered setting the output file is always a prefix of the file.
THEOREM IntegrityAlways ==
    ASSUME Sheltered, FitsRing
    PROVE  Spec => []Integrity
<1>1. RingInv => Integrity
    BY ShelteredImplies DEF RingInv
<1> QED BY <1>1, ShelteredInductive, PTL

\* In the sheltered setting a normal exit of rcopy means the whole file.
THEOREM CompleteOnExitAlways ==
    ASSUME Sheltered, FitsRing
    PROVE  Spec => []CompleteOnExit
<1>1. RingInv => CompleteOnExit
    BY ShelteredImplies DEF RingInv
<1> QED BY <1>1, ShelteredInductive, PTL

\* In the sheltered setting a chunk the child may have to send again is in its
\* slot.
THEOREM RetainedForResendAlways ==
    ASSUME Sheltered, FitsRing
    PROVE  Spec => []RetainedForResend
<1>1. RingInv => RetainedForResend
    BY ShelteredImplies DEF RingInv
<1> QED BY <1>1, ShelteredInductive, PTL

\* In the sheltered setting the child never has more than a window of chunks
\* outstanding.
THEOREM NeverOverrunAlways ==
    ASSUME Sheltered, FitsRing
    PROVE  Spec => []NeverOverrun
<1>1. RingInv => NeverOverrun
    BY ShelteredImplies DEF RingInv
<1> QED BY <1>1, ShelteredInductive, PTL

\* In the sheltered setting rcopy's ring never keeps a packet it is done with.
THEOREM BufferedIsAheadAlways ==
    ASSUME Sheltered, FitsRing
    PROVE  Spec => []BufferedIsAhead
<1>1. RingInv => BufferedIsAhead
    BY ShelteredImplies DEF RingInv
<1> QED BY <1>1, ShelteredInductive, PTL

\* In the sheltered setting no acknowledgment moves the window backward.
THEOREM WindowMovesForwardAlways ==
    ASSUME Sheltered, FitsRing
    PROVE  Spec => WindowMovesForward
<1> DEFINE Step == [/\ window'.lowest >= window.lowest
                    /\ window'.highest >= window.highest]_window
<1>1. RingInv /\ AnyNetworkInv' /\ [Next]_vars => Step
    BY RingNext
<1> QED BY <1>1, AnyNetworkInductive, ShelteredInductive, PTL DEF Spec, WindowMovesForward

------------------------------------------------------------------------------
(***************************************************************************)
(* The transfer implements the file copy.                                  *)
(***************************************************************************)

\* Whatever a step of rcopy writes belongs to the number it expects.
LEMMA WrittenIsGenuine ==
    ASSUME TypeOK, DataInv, HeldInv, AClientNext
    PROVE  \/ UNCHANGED out
           \/ /\ \E d \in Payload : Genuine(buffer.current, d) /\ out' = Written(out, d)
              /\ rcv \in {"INORDER", "BUFFER", "FLUSH"}
              /\ rcv' \in {"INORDER", "BUFFER", "FLUSH"}
<1>1. ASSUME NEW s, Accepted(s, Head(toClient)), Head(toClient).seq = buffer.current
      PROVE  /\ Genuine(buffer.current, Head(toClient).data)
             /\ Head(toClient).data \in Payload
             /\ rcv = s
    <2>1. Received(s, Head(toClient)) /\ ~BadChecksum(Head(toClient))
        BY <1>1 DEF Accepted
    <2> QED BY <1>1, <2>1, AcceptedPacket, ClientPacket DEF Received
<1>2. CASE WriteInorder \/ FillGap
    BY <1>1, <1>2 DEF WriteInorder, FillGap
<1>3. CASE FlushEntry
    <2> DEFINE k == Slot(buffer.current)
               e == buffer.entries[k]
    <2>1. /\ rcv = "FLUSH" /\ rcv' = "FLUSH" /\ e.valid_flag
          /\ out' = Written(out, e.data)
        BY <1>3 DEF FlushEntry, Entry
    <2>2. k \in Slots /\ e \in BufferEntry /\ buffer.current \in Nat
        BY SlotInRange, Numbers
    <2>3. /\ Genuine(e.sequence_num, e.data)
          /\ Slot(e.sequence_num) = k
          /\ e.sequence_num >= buffer.current
          /\ e.sequence_num < buffer.current + WindowSize
        BY <2>1, <2>2 DEF HeldInv
    <2>4. e.sequence_num \in Nat /\ e.data \in Payload
        BY <2>2, <2>3 DEF BufferEntry
    <2>5. e.sequence_num = buffer.current
        BY <2>2, <2>3, <2>4, SlotInjective
    <2> QED BY <2>1, <2>3, <2>4, <2>5
<1>4. CASE \/ \E s : DropCorrupted(s) \/ ExitTransfer(s) \/ AckAgain(s)
           \/ GapFound \/ StoreEarly \/ FlushEnd \/ ClientTimeout
    BY <1>4 DEF DropCorrupted, ExitTransfer, AckAgain, GapFound, StoreEarly, FlushEnd,
        ClientTimeout, rcopyVars
<1> QED BY <1>2, <1>3, <1>4
        DEF AClientNext, ClientNext, ClientStep, handle_inorder, handle_buffer, handle_flush

\* Where rcopy can go, and when it says that the transfer is complete.
LEMMA StatusStep ==
    ASSUME TypeOK, AClientNext
    PROVE  \/ rcv' = rcv
           \/ /\ rcv \in {"INORDER", "BUFFER", "FLUSH"}
              /\ \/ rcv' \in {"INORDER", "BUFFER", "FLUSH"}
                 \/ rcv' \in {"EXIT", "ABORTED"} /\ UNCHANGED out
BY DEF AClientNext, ClientNext, ClientStep, handle_inorder, handle_buffer, handle_flush,
    DropCorrupted, ExitTransfer, AckAgain, Accepted, Received, WriteInorder, GapFound,
    FillGap, StoreEarly, FlushEntry, FlushEnd, ClientTimeout, Receiving, rcopyVars

LEMMA StepIsCopyStep ==
    ASSUME Sheltered, AnyNetworkInv, ShelteredInv, CompleteOnExit', [Next]_vars
    PROVE  [Copy!Next]_Copy!copyVars
<1>1. /\ TypeOK /\ DataInv /\ HeldInv /\ ExpectedInv /\ Integrity /\ CompleteOnExit'
      /\ NumChunks \in Nat /\ window.current \in Nat /\ buffer.current \in Nat
      /\ filePos \in 0..NumChunks /\ window.current = filePos
      /\ out \in Seq(Nat \cup {Uninit})
    BY ShelteredImplies, Numbers
       DEF ShelteredInv, AnyNetworkInv, WindowInv, TypeOK, RcopyTypeOK
<1>2. CASE UNCHANGED <<out, rcv>>
    BY <1>2 DEF Copy!copyVars, TransferStatus
<1>3. CASE AClientNext
    <2>1. CASE UNCHANGED out
        <3>1. CASE rcv' = rcv \/ rcv' \in {"INORDER", "BUFFER", "FLUSH"}
            BY <1>1, <1>3, <2>1, <3>1, StatusStep DEF Copy!copyVars, TransferStatus
        <3>2. CASE rcv' = "EXIT" /\ rcv # "EXIT"
            <4>1. TransferStatus = "copying" /\ TransferStatus' = "complete"
                BY <1>1, <1>3, <3>2, StatusStep DEF TransferStatus
            <4>2. Len(out) = NumChunks
                BY <1>1, <2>1, <3>2 DEF CompleteOnExit
            <4> QED BY <2>1, <4>1, <4>2 DEF Copy!Next, Copy!Finish
        <3>3. CASE rcv' = "ABORTED" /\ rcv # "ABORTED"
            <4>1. TransferStatus = "copying" /\ TransferStatus' = "given_up"
                BY <1>1, <1>3, <3>3, StatusStep DEF TransferStatus
            <4> QED BY <2>1, <4>1 DEF Copy!Next, Copy!GiveUp
        <3> QED BY <1>1, <1>3, <3>1, <3>2, <3>3, StatusStep
    <2>2. CASE ~UNCHANGED out
        <3>1. PICK d \in Payload : Genuine(buffer.current, d) /\ out' = Written(out, d)
            BY <1>1, <1>3, <2>2, WrittenIsGenuine
        <3>2. TransferStatus = "copying" /\ TransferStatus' = "copying"
            BY <1>1, <1>3, <2>2, WrittenIsGenuine DEF TransferStatus
        <3>3. d # NoData
            BY <2>2, <3>1 DEF Written
        <3>4. buffer.current < window.current /\ d = buffer.current
            BY <3>1, <3>3 DEF Genuine
        <3>5. Len(out) = buffer.current
            BY <1>1, <3>4 DEF ExpectedInv
        <3>6. Len(out) < NumChunks /\ out' = Append(out, Len(out))
            BY <1>1, <3>1, <3>3, <3>4, <3>5 DEF Written
        <3> QED BY <3>2, <3>6 DEF Copy!Next, Copy!CopyNextChunk
    <2> QED BY <2>1, <2>2
<1>4. CASE AServerNext \/ ANetworkNext \/ UNCHANGED vars
    BY <1>2, <1>4 DEF AServerNext, ANetworkNext, vars, rcopyVars
<1> QED BY <1>3, <1>4 DEF Next, Terminated

\* In the sheltered setting every behaviour of the two processes is, to the
\* user, a copy of the file.
THEOREM TransferImplementsFileCopy ==
    ASSUME Sheltered, FitsRing
    PROVE  Spec => ImplementsFileCopy
<1>1. Init => Copy!Init
    BY DEF Init, RcopyInit, Copy!Init, TransferStatus
<1>2. RingInv /\ CompleteOnExit' /\ [Next]_vars => [Copy!Next]_Copy!copyVars
    BY StepIsCopyStep DEF RingInv
<1> QED BY <1>1, <1>2, ShelteredInductive, CompleteOnExitAlways, PTL
        DEF Spec, ImplementsFileCopy, Copy!Spec

------------------------------------------------------------------------------
(***************************************************************************)
(* What a session does to a transfer besides the steps of the two: packets *)
(* that rcopy does not look at, a packet read by filename_exchange, a      *)
(* killed child, a new child.                                              *)
(***************************************************************************)
LEMMA RingQueue ==
    ASSUME RingInv, faults' \in Nat,
           \/ toClient' = toClient
           \/ toClient # <<>> /\ toClient' = Tail(toClient)
           \/ toClient' = Append(toClient, Corrupted),
           UNCHANGED <<window, filePos, srv, attempts, buffer, rcv, out, toServer>>
    PROVE  RingInv'
<1>1. /\ TypeOK /\ AckedWasReceived /\ EofIsLast /\ NoEarlyExit
      /\ WindowInv /\ AcksInv /\ DataInv /\ ExpectedInv /\ HeldInv /\ WindowBound
      /\ toClient \in Seq(ClientBound) /\ Corrupted \in ClientBound
    BY DEF RingInv, AnyNetworkInv, ShelteredInv, TypeOK, ClientBound
<1>2. /\ toClient' \in Seq(ClientBound)
      /\ \A i \in 1..Len(toClient') : toClient'[i] # Corrupted =>
            \E k \in 1..Len(toClient) : k >= i /\ toClient'[i] = toClient[k]
      /\ \A i, j \in 1..Len(toClient') :
            i < j /\ toClient'[i] # Corrupted /\ toClient'[j] # Corrupted =>
                \E k, l \in 1..Len(toClient) :
                    k < l /\ toClient'[i] = toClient[k] /\ toClient'[j] = toClient[l]
    <2>1. CASE toClient' = toClient
        BY <1>1, <2>1
    <2>2. CASE toClient # <<>> /\ toClient' = Tail(toClient)
        <3>1. /\ toClient' \in Seq(ClientBound)
              /\ Len(toClient') = Len(toClient) - 1
              /\ \A i \in 1..Len(toClient') : toClient'[i] = toClient[i + 1]
            BY <1>1, <2>2
        <3>2. \A i \in 1..Len(toClient') : i + 1 \in 1..Len(toClient)
            BY <1>1, <3>1
        <3> QED BY <3>1, <3>2
    <2>3. CASE toClient' = Append(toClient, Corrupted)
        <3>1. /\ toClient' \in Seq(ClientBound)
              /\ Len(toClient') = Len(toClient) + 1
              /\ \A i \in 1..Len(toClient) : toClient'[i] = toClient[i]
              /\ toClient'[Len(toClient) + 1] = Corrupted
            BY <1>1, <2>3
        <3>2. \A i \in 1..Len(toClient') : toClient'[i] # Corrupted => i \in 1..Len(toClient)
            BY <1>1, <3>1
        <3> QED BY <3>1, <3>2
    <2> QED BY <2>1, <2>2, <2>3
<1>3. TypeOK' /\ AckedWasReceived' /\ NoEarlyExit'
    BY <1>1, <1>2 DEF TypeOK, ServerTypeOK, RcopyTypeOK, AckedWasReceived, NoEarlyExit, InFlight
<1>4. EofIsLast'
    <2>1. Corrupted.flag # FLAG_EOF
        BY EofFlag
    <2>2. \A p \in InFlight(toClient') : p # Corrupted => p \in InFlight(toClient)
        BY <1>2 DEF InFlight
    <2> QED BY <1>1, <2>1, <2>2 DEF EofIsLast
<1>5. WindowInv' /\ AcksInv' /\ ExpectedInv' /\ HeldInv' /\ WindowBound'
    BY <1>1 DEF WindowInv, Paced, RetainedForResend, AcksInv, ExpectedInv, HeldInv, WindowBound,
        Genuine, EofPhase
<1>6. DataInv'
    <2>1. UNCHANGED <<EofPhase, NumChunks, WindowSize, buffer.current, buffer.highest>>
        BY DEF EofPhase
    <2>2. ASSUME NEW i \in 1..Len(toClient'), toClient'[i] # Corrupted
          PROVE  /\ Genuine(toClient[i].seq, toClient[i].data)'
                 /\ toClient'[i].flag = FLAG_EOF => toClient'[i].seq = NumChunks /\ EofPhase'
                 /\ toClient'[i].seq <= buffer'.current + WindowSize
                 /\ \/ toClient'[i].seq <= buffer'.current
                    \/ toClient'[i].seq >= buffer'.highest
        <3>1. PICK k \in 1..Len(toClient) : toClient'[i] = toClient[k]
            BY <1>2, <2>2
        <3>2. toClient[k] # Corrupted
            BY <2>2, <3>1
        <3>3. /\ Genuine(toClient[k].seq, toClient[k].data)
              /\ toClient[k].flag = FLAG_EOF => toClient[k].seq = NumChunks /\ EofPhase
              /\ toClient[k].seq <= buffer.current + WindowSize
              /\ toClient[k].seq <= buffer.current \/ toClient[k].seq >= buffer.highest
            BY <1>1, <3>2 DEF DataInv
        <3>4. Genuine(toClient[i].seq, toClient[i].data)'
            BY <3>1, <3>3 DEF Genuine, EofPhase
        <3> QED BY <2>1, <3>1, <3>3, <3>4
    <2>3. ASSUME NEW i \in 1..Len(toClient'), NEW j \in 1..Len(toClient'), i < j,
                 toClient'[i] # Corrupted, toClient'[j] # Corrupted
          PROVE  \/ toClient'[j].seq <= buffer'.current
                 \/ toClient'[i].seq <= toClient'[j].seq
        <3>1. PICK k \in 1..Len(toClient), l \in 1..Len(toClient) :
                k < l /\ toClient'[i] = toClient[k] /\ toClient'[j] = toClient[l]
            BY <1>2, <2>3
        <3> QED BY <1>1, <2>1, <2>3, <3>1 DEF DataInv
    <2>4. Corrupted' = Corrupted
        BY DEF Corrupted, build_packet
    <2> QED BY <2>2, <2>3, <2>4 DEF DataInv
<1> QED BY <1>3, <1>4, <1>5, <1>6 DEF RingInv, AnyNetworkInv, ShelteredInv

\* A child that is killed.
LEMMA RingStop ==
    ASSUME RingInv, srv' = "DONE",
           UNCHANGED <<window, filePos, attempts, buffer, rcv, out, toServer, toClient, faults>>
    PROVE  RingInv'
<1>1. /\ TypeOK /\ AckedWasReceived /\ EofIsLast /\ NoEarlyExit
      /\ WindowInv /\ AcksInv /\ DataInv /\ ExpectedInv /\ HeldInv /\ WindowBound
    BY DEF RingInv, AnyNetworkInv, ShelteredInv
<1>2. EofPhase => EofPhase'
    BY DEF EofPhase, Stopped
<1>3. TypeOK' /\ AckedWasReceived' /\ NoEarlyExit' /\ EofIsLast'
    BY <1>1 DEF TypeOK, ServerTypeOK, RcopyTypeOK, AckedWasReceived, NoEarlyExit, EofIsLast,
        ServerStates, Stopped, EofStates
<1>4. WindowInv' /\ AcksInv' /\ WindowBound'
    BY <1>1 DEF WindowInv, Paced, RetainedForResend, AcksInv, WindowBound, EofStates
<1>5. \A s, d : Genuine(s, d) => Genuine(s, d)'
    BY <1>2 DEF Genuine
<1>6. DataInv' /\ ExpectedInv' /\ HeldInv'
    BY <1>1, <1>2, <1>5 DEF DataInv, ExpectedInv, HeldInv
<1> QED BY <1>3, <1>4, <1>6 DEF RingInv, AnyNetworkInv, ShelteredInv

\* A new child, while rcopy has received nothing.
LEMMA RingBirth ==
    ASSUME FitsRing,
           window' = buffer_init(BufferSize), filePos' = 0, srv' = "SEND_DATA",
           attempts' \in 0..MaxAttempts, attempts' < MaxAttempts,
           buffer' = buffer_init(0), rcv' = "INORDER", out' = <<>>,
           toServer' = <<>>, toClient' \in {<<>>, <<Corrupted>>}, faults' \in Nat
    PROVE  RingInv'
<1>1. /\ window' \in CircularBuffer /\ buffer' \in CircularBuffer
      /\ window'.lowest = 0 /\ window'.current = 0 /\ window'.highest = BufferSize
      /\ buffer'.current = 0 /\ buffer'.highest = 0
      /\ \A i \in Slots : ~buffer'.entries[i].valid_flag
      /\ BufferSize \in Nat \ {0} /\ BufferSize <= WindowSize /\ WindowSize \in Nat \ {0}
      /\ NumChunks \in Nat /\ MaxAttempts \in Nat \ {0}
    BY BufferInitType, SizeAssumption, ServerAssumption DEF buffer_init, FitsRing
<1>2. /\ toClient' \in Seq(ClientBound)
      /\ \A i \in 1..Len(toClient') : toClient'[i] = Corrupted
    <2>1. Corrupted \in ClientBound
        BY DEF ClientBound
    <2>2. CASE toClient' = <<>>
        BY <2>2
    <2>3. CASE toClient' = <<Corrupted>>
        <3>1. /\ <<Corrupted>> \in Seq(ClientBound) /\ Len(<<Corrupted>>) = 1
              /\ <<Corrupted>>[1] = Corrupted
            BY <2>1
        <3> QED BY <2>3, <3>1
    <2> QED BY <2>2, <2>3
<1>3. TypeOK'
    BY <1>1, <1>2 DEF TypeOK, ServerTypeOK, RcopyTypeOK, ServerStates, RecvStates, Stopped
<1>4. AckedWasReceived' /\ NoEarlyExit' /\ EofIsLast'
    BY <1>1, <1>2, EofFlag DEF AckedWasReceived, NoEarlyExit, EofIsLast, InFlight, EofStates
<1>5. WindowInv' /\ AcksInv' /\ WindowBound'
    BY <1>1 DEF WindowInv, Paced, RetainedForResend, AcksInv, WindowBound, EofStates
<1>6. DataInv' /\ ExpectedInv' /\ HeldInv'
    BY <1>1, <1>2 DEF DataInv, ExpectedInv, HeldInv
<1> QED BY <1>3, <1>4, <1>5, <1>6 DEF RingInv, AnyNetworkInv, ShelteredInv

------------------------------------------------------------------------------
\* With the history variable, without FitsRing.
LEMMA PacedStep ==
    ASSUME Sheltered, AnyNetworkInv, AnyNetworkInv', PacedInv, [PacedNext]_pacedVars
    PROVE  PacedInv'
<1> SUFFICES ASSUME ~overrun'
             PROVE  ShelteredInv'
    BY DEF PacedInv
<1>1. CASE PacedNext
    <2>1. ~overrun /\ Paced' /\ Next
        BY <1>1 DEF PacedNext
    <2> QED BY <2>1, ShelteredNext DEF PacedInv
<1>2. CASE UNCHANGED pacedVars
    <2>1. UNCHANGED vars /\ ShelteredInv
        BY <1>2 DEF pacedVars, PacedInv
    <2>2. Paced'
        BY <2>1 DEF ShelteredInv, WindowInv, Paced, vars, serverVars
    <2> QED BY <2>1, <2>2, ShelteredNext
<1> QED BY <1>1, <1>2

\* A behaviour with the history variable is a behaviour of the transfer.
LEMMA PacedIsTransfer == PacedSpec => Spec
<1>1. PacedInit => Init
    BY DEF PacedInit
<1>2. [PacedNext]_pacedVars => [Next]_vars
    BY DEF PacedNext, pacedVars
<1> QED BY <1>1, <1>2, PTL DEF PacedSpec, Spec

\* In the sheltered setting the invariant holds until the child overruns its
\* ring.
THEOREM PacedInvAlways ==
    ASSUME Sheltered
    PROVE  PacedSpec => []PacedInv
<1>1. PacedInit => PacedInv
    BY ShelteredInit DEF PacedInit, PacedInv
<1>2. AnyNetworkInv /\ AnyNetworkInv' /\ PacedInv /\ [PacedNext]_pacedVars => PacedInv'
    BY PacedStep
<1> QED BY <1>1, <1>2, PacedIsTransfer, AnyNetworkInductive, PTL DEF PacedSpec

\* In the sheltered setting and for every buffer size, the output file is a
\* prefix of the file, and the whole of it on a normal exit, until the child
\* overruns its ring.
THEOREM PacedIntegrityAlways ==
    ASSUME Sheltered
    PROVE  PacedSpec => []PacedIntegrity
<1>1. AnyNetworkInv /\ PacedInv => PacedIntegrity
    BY ShelteredImplies DEF PacedInv, PacedIntegrity
<1> QED BY <1>1, PacedInvAlways, PacedIsTransfer, AnyNetworkInductive, PTL

\* Likewise for what the child may still have to send again.
THEOREM PacedWindowAlways ==
    ASSUME Sheltered
    PROVE  PacedSpec => []PacedWindow
<1>1. AnyNetworkInv /\ PacedInv => PacedWindow
    BY ShelteredImplies DEF PacedInv, PacedWindow
<1> QED BY <1>1, PacedInvAlways, PacedIsTransfer, AnyNetworkInductive, PTL
================================================================================
