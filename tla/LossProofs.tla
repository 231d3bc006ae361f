------------------------------ MODULE LossProofs ------------------------------
(***************************************************************************)
(* What lost packets do to a transfer: it outlives any one fault, and      *)
(* however many there are, each costs it a second at most (the last part). *)
(*                                                                         *)
(* After one fault the state is in one of a few modes, each of which says  *)
(* exactly which packets are on their way: everything in order but for     *)
(* the packet or the acknowledgment that is missing (Straight), a damaged  *)
(* packet not read yet (Damaged), the gap noticed and asked for            *)
(* (GapAsked), the missing packet under way again (GapResent), the buffer  *)
(* being written (Flushing), and the retransmission of the lowest packet   *)
(* after a time-out (Again).  OneLoss is their disjunction.  From every    *)
(* mode each process leads to a mode again, and in none of them does a     *)
(* process wait for a packet that cannot come more than once, so nobody    *)
(* reaches the number of attempts after which it gives up.                 *)
(*                                                                         *)
(* The lemmas are about one step of one process, so that they serve both   *)
(* the transfer with clocks (TimedTransfer) and the transfer inside a      *)
(* session (PromptProofs).                                                 *)
(***************************************************************************)
EXTENDS TimedProofs, FiniteSetTheorems

\* The x-th number when number h is left out.
Skip(x, h) == IF x < h THEN x ELSE x + 1

\* 1 for a condition that holds.
One(P) == IF P THEN 1 ELSE 0

\* A queue of packets: from number `from' on without a gap, but for number h.
DataIn(q, from, h) ==
    \A i \in 1..Len(q) :
        /\ q[i] # Corrupted
        /\ q[i].seq = SeqOf(Skip(from + (i - 1), h))
        /\ q[i].seq = NumChunks => q[i].flag = FLAG_EOF

\* A queue of acknowledgments: from number l + 1 on, but for number b.
RRsIn(q, l, b) == \A i \in 1..Len(q) : q[i] = RR(Skip(l + i, b))

\* The packets that are missing.
Missing(h) == One(h < NumChunks)

\* What rcopy still has to acknowledge of what it holds.
Kept ==
    CASE rcv = "BUFFER" -> buffer.highest - buffer.current
      [] rcv = "FLUSH" -> buffer.highest + 1 - buffer.current
      [] OTHER -> 0

\* The acknowledgments on their way, one for each number but b.
AcksBut(b) ==
    /\ b \in (window.lowest + 1)..(NumChunks + 2)
    /\ b <= buffer.current \/ b = NumChunks + 2
    /\ Len(toServer) = buffer.current - window.lowest - One(b <= buffer.current)
    /\ RRsIn(toServer, window.lowest, b)

\* All that was sent lies before number m.
SentTo(m) ==
    IF srv \in EofStates
    THEN window.current = NumChunks /\ NumChunks <= m
    ELSE window.current = m

\* Packets of either direction, with what rcopy holds.
Load == UnderWay + Kept

\* Once EOF was sent: so much is on its way, and more still fits into the queues.
EofLoad(least, more) ==
    srv \in EofStates => least <= Load /\ Load + more <= QueueCap

\* rcopy holds packet s, and all from a number on.
Filled(s) == Entry(buffer, s).valid_flag /\ Entry(buffer, s).sequence_num = s

FilledFrom(from) == \A s \in from..buffer.highest : Filled(s)

\* The first time-out is still to come.
FirstTry == srv = "WINDOW_FULL" \/ srv \in EofStates => attempts = 0

\* Everything is in order but for the lost packet h, if rcopy has not seen yet that
\* it is missing, or for the lost acknowledgment b.
Straight(h, b) ==
    /\ rcv = "INORDER"
    /\ h = NumChunks \/ (buffer.current <= h /\ h < NumChunks /\ h < window.current /\ b = NumChunks + 2)
    /\ DataIn(toClient, buffer.current, h)
    /\ AcksBut(b)
    /\ SentTo(buffer.current + Len(toClient) + Missing(h))
    /\ EofLoad(Missing(h), 2 * Missing(h))
    /\ srv \in EofStates => Load >= 1 \/ attempts = 0
    /\ srv = "WINDOW_FULL" /\ (h < NumChunks \/ b <= NumChunks + 1) => attempts = 0

\* The k-th packet on its way to rcopy is damaged.
Damaged(k) ==
    /\ rcv = "INORDER"
    /\ toClient[k] = Corrupted
    /\ \A i \in 1..Len(toClient) : i # k =>
        /\ toClient[i] # Corrupted
        /\ toClient[i].seq = SeqOf(buffer.current + (i - 1))
        /\ toClient[i].seq = NumChunks => toClient[i].flag = FLAG_EOF
    /\ AcksBut(NumChunks + 2)
    /\ SentTo(buffer.current + Len(toClient))
    /\ EofLoad(1, 0)
    /\ srv \in EofStates => (Load >= 2 /\ Load + 1 <= QueueCap) \/ NumChunks <= buffer.current + k - 1
    /\ FirstTry

\* rcopy has asked for the packet that is missing and buffers what comes after it.
GapAsked ==
    /\ rcv = "BUFFER"
    /\ buffer.highest > buffer.current /\ FilledFrom(buffer.current + 1)
    /\ DataIn(toClient, buffer.highest + 1, NumChunks)
    /\ Len(toServer) = buffer.current - window.lowest + 1
    /\ \A i \in 1..(Len(toServer) - 1) : toServer[i] = RR(window.lowest + i)
    /\ toServer[Len(toServer)] = SREJ(buffer.current)
    /\ SentTo(buffer.highest + 1 + Len(toClient))
    /\ EofLoad(1, 1)
    /\ srv = "WINDOW_FULL" => attempts = 0

\* The child has sent it again: it is the k-th on its way.
GapResent(k) ==
    /\ rcv = "BUFFER"
    /\ buffer.highest > buffer.current /\ FilledFrom(buffer.current + 1)
    /\ toServer = <<>> /\ window.lowest = buffer.current
    /\ \A i \in 1..Len(toClient) :
        /\ toClient[i] # Corrupted
        /\ toClient[i].seq = IF i = k THEN buffer.current
                   ELSE SeqOf(buffer.highest + (IF i < k THEN i ELSE i - 1))
        /\ toClient[i].seq = NumChunks => toClient[i].flag = FLAG_EOF
    /\ SentTo(buffer.highest + Len(toClient))
    /\ EofLoad(1, 0)
    /\ srv = "WINDOW_FULL" => attempts = 0

\* rcopy has it and writes what it buffered.
Flushing(b) ==
    /\ rcv = "FLUSH"
    /\ buffer.highest + 1 >= buffer.current
    /\ FilledFrom(buffer.current)
    /\ DataIn(toClient, buffer.highest + 1, NumChunks)
    /\ AcksBut(b)
    /\ SentTo(buffer.highest + 1 + Len(toClient))
    /\ EofLoad(1, 0)
    /\ srv = "WINDOW_FULL" /\ b <= NumChunks + 1 => attempts = 0

\* The last acknowledgment of a full window was lost, and the child has sent the
\* lowest packet again after a time-out.
Again ==
    /\ rcv = "INORDER"
    /\ WindowFull
    /\ window.current = window.lowest + 1
    /\ buffer.current = window.lowest + 1
    /\ Len(toClient) = 1 /\ toClient[1] # Corrupted /\ toClient[1].seq = window.lowest
    /\ toServer = <<>>

\* What the state is like after one fault, while the child serves.
OneLoss ==
    /\ srv \notin Stopped
    /\ \/ \E h \in 0..NumChunks, b \in 0..(NumChunks + 2) : Straight(h, b)
       \/ \E k \in 1..Len(toClient) : Damaged(k)
       \/ GapAsked
       \/ \E k \in 1..Len(toClient) : GapResent(k)
       \/ \E b \in 0..(NumChunks + 2) : Flushing(b)
       \/ Again

\* What is in front of rcopy's queue when it waits for its answer is that, if it
\* was not lost (k = 1), and the first window behind it but for number h.
Behind(k) == IF k = 1 THEN Tail(toClient) ELSE toClient

\* Before rcopy has read its answer: the child may have sent its first window, from
\* which packet h may be lost.
Early(k, h) ==
    /\ srv \notin Stopped /\ attempts = 0
    /\ rcv = "INORDER" /\ buffer.current = 0 /\ toServer = <<>>
    /\ window.lowest = 0 /\ window.highest = BufferSize
    /\ k = 1 => toClient # <<>>
    /\ h = NumChunks \/ (k = 1 /\ h < window.current)
    /\ DataIn(Behind(k), 0, h)
    /\ IF srv \in EofStates
       THEN /\ window.current = NumChunks /\ NumChunks < BufferSize
            /\ NumChunks <= Len(Behind(k)) + Missing(h)
            /\ UnderWay \in (NumChunks + 1)..(NumChunks + 1 + k - Missing(h))
       ELSE window.current = Len(Behind(k)) + Missing(h)

------------------------------------------------------------------------------
(***************************************************************************)
(* Queues of packets and of acknowledgments.                               *)
(***************************************************************************)

\* The socket queues hold a window of packets and one more.
RoomForRepair == WindowSize < QueueCap

\* The numbers of packets are natural numbers, at most that of EOF.
LEMMA SeqOfSkip ==
    ASSUME NEW x \in Nat
    PROVE  /\ SeqOf(x) \in Nat /\ SeqOf(x) <= x /\ SeqOf(x) <= NumChunks
           /\ SeqOf(Skip(x, NumChunks)) = SeqOf(x)
           /\ \A h \in Nat : Skip(x, h) \in Nat
BY ServerAssumption DEF SeqOf, Skip

\* The numbers from one number on, and from another.
Alike(from, h, to, g) == \A j \in Nat : SeqOf(Skip(from + j, h)) = SeqOf(Skip(to + j, g))

\* The head of such a queue, and what is behind it.
LEMMA DataTaken ==
    ASSUME NEW q \in Seq(ClientBound), NEW from \in Nat, NEW h \in Nat, q # <<>>,
           DataIn(q, from, h)
    PROVE  /\ Head(q) # Corrupted
           /\ Head(q).seq = SeqOf(Skip(from, h))
           /\ Head(q).seq = NumChunks => Head(q).flag = FLAG_EOF
           /\ \A to \in Nat, g \in Nat :
                  Alike(from + 1, h, to, g) => DataIn(Tail(q), to, g)
<1>1. /\ Head(q) = q[1] /\ 1 \in 1..Len(q)
      /\ \A i \in 1..Len(Tail(q)) : i + 1 \in 1..Len(q) /\ Tail(q)[i] = q[i + 1]
    BY HeadAndTail
<1>2. from + (1 - 1) = from
    OBVIOUS
<1>3. ASSUME NEW to \in Nat, NEW g \in Nat,
             Alike(from + 1, h, to, g),
             NEW i \in 1..Len(Tail(q))
      PROVE  /\ Tail(q)[i] # Corrupted
             /\ Tail(q)[i].seq = SeqOf(Skip(to + (i - 1), g))
             /\ Tail(q)[i].seq = NumChunks => Tail(q)[i].flag = FLAG_EOF
    <2>1. i + 1 \in 1..Len(q) /\ Tail(q)[i] = q[i + 1]
        BY <1>1
    <2>2. i - 1 \in Nat /\ from + (i + 1 - 1) = from + 1 + (i - 1)
        OBVIOUS
    <2>3. SeqOf(Skip(from + 1 + (i - 1), h)) = SeqOf(Skip(to + (i - 1), g))
        BY <1>3, <2>2 DEF Alike
    <2> QED BY <2>1, <2>2, <2>3 DEF DataIn
<1> QED BY <1>1, <1>2, <1>3 DEF DataIn

\* One more packet behind it.
LEMMA DataAdded ==
    ASSUME NEW q \in Seq(ClientBound), NEW from \in Nat, NEW h \in Nat,
           DataIn(q, from, h),
           NEW p \in ClientBound,
           p # Corrupted, p.seq = SeqOf(Skip(from + Len(q), h)),
           p.seq = NumChunks => p.flag = FLAG_EOF
    PROVE  DataIn(Append(q, p), from, h) /\ Len(Append(q, p)) = Len(q) + 1
<1>1. /\ Len(Append(q, p)) = Len(q) + 1 /\ Len(q) \in Nat
      /\ Append(q, p)[Len(q) + 1] = p
      /\ \A i \in 1..Len(q) : Append(q, p)[i] = q[i]
    BY Appended
<1>2. ASSUME NEW i \in 1..Len(Append(q, p))
      PROVE  /\ Append(q, p)[i] # Corrupted
             /\ Append(q, p)[i].seq = SeqOf(Skip(from + (i - 1), h))
             /\ Append(q, p)[i].seq = NumChunks => Append(q, p)[i].flag = FLAG_EOF
    <2>1. CASE i \in 1..Len(q)
        BY <1>1, <2>1 DEF DataIn
    <2>2. CASE i = Len(q) + 1
        BY <1>1, <2>2
    <2> QED BY <1>1, <2>1, <2>2
<1> QED BY <1>1, <1>2 DEF DataIn

\* A queue without a gap, said in both ways.
LEMMA InSequenceData ==
    ASSUME TypeOK
    PROVE  InSequence <=> DataIn(toClient, buffer.current, NumChunks)
<1>1. ASSUME NEW i \in 1..Len(toClient)
      PROVE  SeqOf(Skip(buffer.current + (i - 1), NumChunks)) = SeqOf(buffer.current + (i - 1))
    <2>1. buffer.current + (i - 1) \in Nat
        BY Edges
    <2> QED BY <2>1, SeqOfSkip
<1> QED BY <1>1 DEF InSequence, DataIn

\* A gap at the end of a queue, or behind it, is none in it.
LEMMA GapBehind ==
    ASSUME NEW q \in Seq(ClientBound), NEW from \in Nat, NEW h \in Nat, h >= from + Len(q)
    PROVE  DataIn(q, from, h) <=> DataIn(q, from, NumChunks)
<1>1. ASSUME NEW i \in 1..Len(q)
      PROVE  SeqOf(Skip(from + (i - 1), NumChunks)) = SeqOf(Skip(from + (i - 1), h))
    <2>1. from + (i - 1) \in Nat /\ from + (i - 1) < h
        OBVIOUS
    <2>2. Skip(from + (i - 1), h) = from + (i - 1)
        BY <2>1 DEF Skip
    <2> QED BY <2>1, <2>2, SeqOfSkip
<1> QED BY <1>1 DEF DataIn

\* The first acknowledgment of such a queue, and what is behind it.
LEMMA RRsTaken ==
    ASSUME NEW q \in Seq(ServerBound), NEW l \in Nat, NEW b \in Nat, q # <<>>, RRsIn(q, l, b), b > l
    PROVE  /\ Head(q) = IF b = l + 1 THEN RR(l + 2) ELSE RR(l + 1)
           /\ Len(Tail(q)) = Len(q) - 1
           /\ b # l + 1 => RRsIn(Tail(q), l + 1, b)
           /\ b = l + 1 => \A g \in Nat : g > l + 1 + Len(q) => RRsIn(Tail(q), l + 2, g)
<1>1. /\ Head(q) = q[1] /\ 1 \in 1..Len(q) /\ Len(Tail(q)) = Len(q) - 1
      /\ \A i \in 1..Len(Tail(q)) : i + 1 \in 1..Len(q) /\ Tail(q)[i] = q[i + 1]
    BY HeadAndTail
<1>2. Head(q) = RR(Skip(l + 1, b))
    BY <1>1 DEF RRsIn
<1>3. Skip(l + 1, b) = IF b = l + 1 THEN l + 2 ELSE l + 1
    BY DEF Skip
<1>4. ASSUME NEW i \in 1..Len(Tail(q))
      PROVE  Tail(q)[i] = RR(Skip(l + (i + 1), b))
    BY <1>1 DEF RRsIn
<1>5. ASSUME b # l + 1 
      PROVE  RRsIn(Tail(q), l + 1, b)
    <2>1. ASSUME NEW i \in 1..Len(Tail(q))
          PROVE  Tail(q)[i] = RR(Skip(l + 1 + i, b))
        <3>1. l + 1 + i = l + (i + 1)
            OBVIOUS
        <3> QED BY <1>4, <3>1
    <2> QED BY <2>1 DEF RRsIn
<1>6. ASSUME b = l + 1, NEW g \in Nat, g > l + 1 + Len(q)
      PROVE  RRsIn(Tail(q), l + 2, g)
    <2>1. ASSUME NEW i \in 1..Len(Tail(q))
          PROVE  Tail(q)[i] = RR(Skip(l + 2 + i, g))
        <3>1. Skip(l + 2 + i, g) = l + 2 + i
            BY <1>1, <1>6 DEF Skip
        <3>2. Skip(l + (i + 1), b) = l + 2 + i
            BY <1>6 DEF Skip
        <3> QED BY <1>4, <3>1, <3>2
    <2> QED BY <2>1 DEF RRsIn
<1> QED BY <1>1, <1>2, <1>3, <1>5, <1>6

\* One more acknowledgment behind such a queue.
LEMMA RRsAdded ==
    ASSUME NEW q \in Seq(ServerBound), NEW l \in Nat, NEW b \in Nat, RRsIn(q, l, b),
           NEW n \in Nat, n = Skip(l + Len(q) + 1, b)
    PROVE  RRsIn(Append(q, RR(n)), l, b) /\ Len(Append(q, RR(n))) = Len(q) + 1
<1>1. RR(n) \in ServerBound
    BY AckType
<1>2. /\ Len(Append(q, RR(n))) = Len(q) + 1 /\ Len(q) \in Nat
      /\ Append(q, RR(n))[Len(q) + 1] = RR(n)
      /\ \A i \in 1..Len(q) : Append(q, RR(n))[i] = q[i]
    BY <1>1, Appended
<1>3. ASSUME NEW i \in 1..Len(Append(q, RR(n)))
      PROVE  Append(q, RR(n))[i] = RR(Skip(l + i, b))
    <2>1. CASE i \in 1..Len(q)
        BY <1>2, <2>1 DEF RRsIn
    <2>2. CASE i = Len(q) + 1
        <3>1. l + Len(q) + 1 = l + i
            BY <1>2, <2>2
        <3> QED BY <1>2, <2>2, <3>1
    <2> QED BY <1>2, <2>1, <2>2
<1> QED BY <1>2, <1>3 DEF RRsIn

\* What the sheltered setting says of the edges of the windows.
LEMMA RingFacts ==
    ASSUME RingInv
    PROVE  /\ TypeOK
           /\ window.lowest <= buffer.current /\ buffer.current <= NumChunks + 1
           /\ buffer.highest \in Nat /\ buffer.highest <= window.current
           /\ window.current = filePos /\ window.current <= NumChunks
           /\ window.lowest < window.highest
           /\ window.highest <= window.lowest + WindowSize
           /\ window.current <= window.lowest + WindowSize
           /\ srv \in EofStates => window.current = NumChunks
<1>1. TypeOK /\ ShelteredInv /\ WindowBound
    BY DEF RingInv, AnyNetworkInv
<1>2. /\ window.lowest <= buffer.current /\ buffer.highest <= window.current
      /\ window.current = filePos /\ window.lowest < window.highest
      /\ window.highest <= window.lowest + WindowSize
      /\ window.current <= window.lowest + WindowSize
      /\ srv \in EofStates => filePos = NumChunks
      /\ buffer.current <= window.current \/ buffer.current = NumChunks + 1
    BY <1>1 DEF ShelteredInv, WindowInv, AcksInv, ExpectedInv, WindowBound, Paced
<1>3. buffer.highest \in Nat
    BY <1>1, Edges DEF CircularBuffer
<1> QED BY <1>1, <1>2, <1>3, Edges

\* What the child sends arrives, or is lost, or damaged.
LEMMA DataLeaves ==
    ASSUME TypeOK, SendData
    PROVE  \E p \in ClientBound :
             /\ p # Corrupted /\ p.seq = window.current /\ p.flag # FLAG_EOF
             /\ window'.current = window.current + 1
             /\ window'.lowest = window.lowest /\ window'.highest = window.highest
             /\ filePos < NumChunks /\ window.current < window.highest
             /\ srv = "SEND_DATA" /\ srv' = "DRAIN"
             /\ UNCHANGED <<toServer, attempts>>
             /\ \/ faults' = faults /\ toClient' = Put(toClient, "sent", p)
                \/ faults' = faults + 1 /\ toClient' \in {toClient, Append(toClient, Corrupted)}
<1> DEFINE s == window.current
           w == buffer_add(window, s, filePos)
           p == build_packet(s, FLAG_DATA, Entry(w, s).data)
<1>1. /\ SendToClient(p) /\ window' = [w EXCEPT !.current = s + 1]
      /\ filePos < NumChunks /\ s < window.highest
      /\ srv = "SEND_DATA" /\ srv' = "DRAIN" /\ toServer' = toServer /\ attempts' = attempts
    BY DEF SendData
<1>2. /\ w \in CircularBuffer /\ w.lowest = window.lowest /\ w.highest = window.highest
      /\ s \in Nat /\ filePos \in Payload
    <2>1. filePos \in Payload
        BY Edges DEF Payload
    <2>2. window \in CircularBuffer /\ s \in Nat
        BY Edges
    <2> QED BY <2>1, <2>2, BufferAdd
<1>3. p.seq = s /\ p.flag = FLAG_DATA /\ p # Corrupted /\ p.flag # FLAG_EOF
    BY DEF build_packet, Corrupted, FLAG_DATA, FLAG_EOF
<1>4. p \in ClientBound
    <2>1. Entry(w, s) \in BufferEntry
        BY <1>2, EntryType
    <2>2. Entry(w, s).data \in Payload
        BY <2>1 DEF BufferEntry
    <2> QED BY <1>2, <2>2 DEF build_packet, ClientBound, DataFlags
<1> HIDE DEF w, p
<1>5. /\ window'.current = s + 1 /\ window'.lowest = window.lowest
      /\ window'.highest = window.highest
    BY <1>1, <1>2 DEF CircularBuffer
<1>6. \/ faults' = faults /\ toClient' = Put(toClient, "sent", p)
      \/ faults' = faults + 1 /\ toClient' \in {toClient, Append(toClient, Corrupted)}
    <2>1. PICK fate \in Fates(ServerErrors) :
              faults' = faults + Cost(fate) /\ toClient' = Put(toClient, fate, p)
        BY <1>1 DEF SendToClient
    <2> QED BY <2>1, Edges, NetworkAssumption DEF Fates, Cost, Put
<1> QED BY <1>1, <1>3, <1>4, <1>5, <1>6

\* So does EOF.
LEMMA EofLeaves ==
    ASSUME TypeOK, SendEof
    PROVE  \E p \in ClientBound :
             /\ p # Corrupted /\ p.seq = window.current /\ p.flag = FLAG_EOF
             /\ srv = "WAIT_EOF_ACK" /\ srv' = "EOF_POLL"
             /\ UNCHANGED <<window, filePos, attempts, toServer>>
             /\ \/ faults' = faults /\ toClient' = Put(toClient, "sent", p)
                \/ faults' = faults + 1 /\ toClient' \in {toClient, Append(toClient, Corrupted)}
<1> DEFINE p == build_packet(window.current, FLAG_EOF, NoData)
<1>1. /\ SendToClient(p) /\ srv = "WAIT_EOF_ACK" /\ srv' = "EOF_POLL"
      /\ UNCHANGED <<window, filePos, attempts, toServer>>
    BY DEF SendEof
<1>2. p.seq = window.current /\ p.flag = FLAG_EOF /\ p # Corrupted
    BY DEF build_packet, Corrupted, FLAG_EOF
<1>3. p \in ClientBound
    BY Edges DEF build_packet, ClientBound, Payload
<1> HIDE DEF p
<1>4. \/ faults' = faults /\ toClient' = Put(toClient, "sent", p)
      \/ faults' = faults + 1 /\ toClient' \in {toClient, Append(toClient, Corrupted)}
    <2>1. PICK fate \in Fates(ServerErrors) :
              faults' = faults + Cost(fate) /\ toClient' = Put(toClient, fate, p)
        BY <1>1 DEF SendToClient
    <2> QED BY <2>1, Edges, NetworkAssumption DEF Fates, Cost, Put
<1> QED BY <1>1, <1>2, <1>3, <1>4

\* Steps of the child that change nothing but its place.
Silent == ReadEof \/ WindowClosed \/ DrainDone \/ FullDone

\* The child reads what is first in its queue.
Reads(next, onEof) ==
    /\ process_rr_srej_eof(next, onEof)
    /\ \/ srv = "DRAIN" /\ next = "DRAIN" /\ attempts' = attempts
       \/ WindowFull /\ next = "WINDOW_FULL" /\ attempts' = attempts
       \/ srv = "EOF_POLL" /\ next = "WAIT_EOF_ACK" /\ attempts' = 0

\* A step of the child sends a packet, reads one or does neither.
LEMMA ServerSteps ==
    ASSUME ServerStep
    PROVE  SendData \/ SendEof \/ Silent \/ \E next, onEof : Reads(next, onEof)
BY DEF ServerStep, Silent, Reads, DrainRecv, FullRecv, EofRecv

\* What a step that does neither changes.
LEMMA SilentEffect ==
    ASSUME Silent
    PROVE  /\ UNCHANGED <<window, filePos, toClient, toServer, faults>>
           /\ srv' \notin Stopped
           /\ \/ /\ srv \notin EofStates /\ srv' \notin EofStates
                 /\ srv' = "WINDOW_FULL" => attempts' = 0
              \/ /\ srv \notin EofStates /\ srv' = "WAIT_EOF_ACK" /\ attempts' = 0
                 /\ window.current < window.highest /\ filePos = NumChunks
BY DEF Silent, ReadEof, WindowClosed, DrainDone, FullDone, netVars, EofStates, Stopped

\* The child reads an RR.
LEMMA ReadsRR ==
    ASSUME RingInv, NEW b \in Nat, AcksBut(b), UNCHANGED buffer,
           NEW next, NEW onEof, process_rr_srej_eof(next, onEof)
    PROVE  /\ srv' = next
           /\ UNCHANGED <<toClient, faults, filePos>>
           /\ Len(toServer') = Len(toServer) - 1
           /\ window'.current = window.current
           /\ \E g \in 0..(NumChunks + 2) : AcksBut(g)' /\ (g = b \/ g = NumChunks + 2)
<1> DEFINE l == window.lowest
           c == buffer.current
           p == Head(toServer)
<1>1. /\ toServer # <<>> /\ toServer' = Tail(toServer) /\ filePos' = filePos
      /\ toServer \in Seq(ServerBound)
    BY RingFacts, Lengths DEF process_rr_srej_eof
<1>2. l \in Nat /\ c \in Nat /\ NumChunks \in Nat /\ c <= NumChunks + 1 /\ l <= c
      /\ window \in CircularBuffer
    BY RingFacts, Edges
<1>3. /\ b > l /\ b <= NumChunks + 2 /\ (b <= c \/ b = NumChunks + 2)
      /\ Len(toServer) = c - l - One(b <= c)
      /\ RRsIn(toServer, l, b)
    BY <1>2 DEF AcksBut
<1>4. /\ p = IF b = l + 1 THEN RR(l + 2) ELSE RR(l + 1)
      /\ Len(Tail(toServer)) = Len(toServer) - 1
      /\ b # l + 1 => RRsIn(Tail(toServer), l + 1, b)
      /\ b = l + 1 => \A g \in Nat : g > l + 1 + Len(toServer) => RRsIn(Tail(toServer), l + 2, g)
    <2> HIDE DEF l
    <2>1. b > l
        BY <1>2, <1>3
    <2> QED BY <1>1, <1>2, <1>3, <2>1, RRsTaken
<1> DEFINE n == IF b = l + 1 THEN l + 2 ELSE l + 1
<1>5. p = RR(n) /\ n \in Nat
    BY <1>2, <1>4
<1> HIDE DEF n, p
<1>6. ~BadChecksum(p) /\ p.flag = FLAG_RR /\ p.data = n
    BY <1>5 DEF RR, build_packet, BadChecksum, Corrupted, FLAG_RR
<1>7. window' = AdvanceWindow(window, n) /\ srv' = next /\ UNCHANGED <<toClient, faults>>
    BY <1>6 DEF process_rr_srej_eof, p, FLAG_RR, FLAG_SREJ
<1>8. window'.lowest = n /\ window'.current = window.current
    BY <1>2, <1>5, <1>7, AdvanceType
<1>9. ASSUME b # l + 1
      PROVE  AcksBut(b)'
    <2>1. n = l + 1
        BY <1>9 DEF n
    <2>2. b \in (n + 1)..(NumChunks + 2)
        BY <1>2, <1>3, <1>9, <2>1
    <2>3. Len(toServer') = c - n - One(b <= c)
        BY <1>1, <1>2, <1>3, <1>4, <2>1 DEF One
    <2> QED BY <1>1, <1>3, <1>4, <1>8, <1>9, <2>1, <2>2, <2>3 DEF AcksBut
<1>10. ASSUME b = l + 1
       PROVE  AcksBut(NumChunks + 2)'
    <2>1. n = l + 2
        BY <1>10 DEF n
    <2>2. Len(toServer) \in Nat /\ Len(toServer) >= 1
        BY <1>1
    <2>3. b <= c /\ Len(toServer) = c - l - 1 
        BY <1>2, <1>3, <1>10, <2>2 DEF One
    <2>4. NumChunks + 2 > l + 1 + Len(toServer) /\ NumChunks + 2 \in Nat
        BY <1>2, <2>3
    <2>5. RRsIn(Tail(toServer), n, NumChunks + 2)
        BY <1>4, <1>10, <2>1, <2>4
    <2>6. NumChunks + 2 \in (n + 1)..(NumChunks + 2)
        BY <1>2, <2>1, <2>2, <2>3
    <2>7. Len(toServer') = c - n - One(NumChunks + 2 <= c)
        BY <1>1, <1>2, <1>4, <2>1, <2>2, <2>3 DEF One
    <2> QED BY <1>1, <1>8, <2>5, <2>6, <2>7 DEF AcksBut
<1>11. b \in 0..(NumChunks + 2) /\ NumChunks + 2 \in 0..(NumChunks + 2)
    BY <1>2, <1>3
<1> QED BY <1>1, <1>4, <1>7, <1>8, <1>9, <1>10, <1>11

\* The counts of packets, written out.
LEMMA Loads ==
    ASSUME TypeOK
    PROVE  /\ UnderWay \in Nat
           /\ UnderWay = Len(toClient) + Len(toServer) + One(srv = "WAIT_EOF_ACK")
           /\ rcv \in {"BUFFER", "FLUSH"} \/ Kept = 0
           /\ rcv = "BUFFER" => Kept = buffer.highest - buffer.current
           /\ rcv = "FLUSH" => Kept = buffer.highest + 1 - buffer.current
           /\ buffer.highest \in Nat
BY Edges, Lengths DEF UnderWay, Kept, One, CircularBuffer

------------------------------------------------------------------------------
(***************************************************************************)
(* A step of the child in each mode.                                       *)
(***************************************************************************)

\* A step of the child while everything behind the loss is in order.
LEMMA StraightServer ==
    ASSUME RoomForRepair, RingInv, RingInv', faults' = faults, ServerStep, UNCHANGED rcopyVars,
           NEW h \in 0..NumChunks, NEW b \in 0..(NumChunks + 2), Straight(h, b)
    PROVE  /\ srv' \notin Stopped
           /\ \E g \in 0..NumChunks, a \in 0..(NumChunks + 2) : Straight(g, a)'
<1> DEFINE l == window.lowest
           c == buffer.current
           n == window.current
           x == Len(toClient)
           m == Missing(h)
<1>1. TypeOK /\ TypeOK' /\ UNCHANGED <<buffer, rcv>>
    BY RingFacts DEF RingInv, AnyNetworkInv, rcopyVars
<1>2. /\ l \in Nat /\ c \in Nat /\ n \in Nat /\ window.highest \in Nat /\ x \in Nat /\ Len(toServer) \in Nat
      /\ NumChunks \in Nat /\ WindowSize \in Nat /\ QueueCap \in Nat /\ faults \in Nat
      /\ WindowSize < QueueCap
      /\ toClient \in Seq(ClientBound) /\ toServer \in Seq(ServerBound) /\ h \in Nat
    BY <1>1, Edges, Lengths DEF RoomForRepair
<1>3. /\ l <= c /\ c <= NumChunks + 1 /\ n = filePos /\ n <= NumChunks
      /\ window.highest <= l + WindowSize /\ n <= l + WindowSize
    BY RingFacts
<1>4. /\ rcv = "INORDER"
      /\ h = NumChunks \/ (c <= h /\ h < NumChunks /\ h < n /\ b = NumChunks + 2)
      /\ DataIn(toClient, c, h)
      /\ AcksBut(b)
      /\ SentTo(c + x + m)
      /\ EofLoad(m, 2 * m)
      /\ srv \in EofStates => Load >= 1 \/ attempts = 0
      /\ srv = "WINDOW_FULL" /\ (h < NumChunks \/ b <= NumChunks + 1) => attempts = 0
    BY DEF Straight
<1>5. m \in {0, 1} /\ (m = 1 <=> h < NumChunks)
    BY DEF Missing, One
<1>6. Load = x + Len(toServer) + One(srv = "WAIT_EOF_ACK")
    BY <1>1, <1>2, <1>4, Loads DEF Load, One
<1>7. rcv' = "INORDER" /\ Load' = Len(toClient') + Len(toServer') + One(srv' = "WAIT_EOF_ACK")
    BY <1>1, <1>4, Loads, Lengths DEF Load, Kept, UnderWay, One
<1> HIDE DEF l, c, n, x, m
<1>8. CASE SendData
    <2>1. PICK p \in ClientBound :
             /\ p # Corrupted /\ p.seq = n /\ p.flag # FLAG_EOF
             /\ window'.current = n + 1
             /\ window'.lowest = l
             /\ filePos < NumChunks /\ n < window.highest
             /\ srv = "SEND_DATA" /\ srv' = "DRAIN"
             /\ UNCHANGED <<toServer, attempts>>
             /\ toClient' = Put(toClient, "sent", p)
        <3>1. faults # faults + 1
            BY <1>2
        <3> QED BY <1>1, <1>8, <3>1, DataLeaves DEF n, l
    <2>2. n = c + x + m
        BY <1>4, <2>1 DEF SentTo, EofStates, n
    <2>3. toClient' = Append(toClient, p)
        BY <1>2, <1>3, <1>5, <2>1, <2>2, Delivered DEF x
    <2>4. p.seq = SeqOf(Skip(c + x, h)) /\ p.seq # NumChunks
        BY <1>2, <1>3, <1>4, <1>5, <2>1, <2>2 DEF SeqOf, Skip
    <2>5. DataIn(toClient', c, h) /\ Len(toClient') = x + 1
        <3>1. DataIn(Append(toClient, p), c, h) /\ Len(Append(toClient, p)) = Len(toClient) + 1
            <4>1. p.seq = SeqOf(Skip(c + Len(toClient), h)) /\ (p.seq = NumChunks => p.flag = FLAG_EOF)
                BY <2>1, <2>4 DEF x
            <4> QED BY <1>2, <1>4, <2>1, <4>1, DataAdded
        <3> QED BY <2>3, <3>1 DEF x
    <2>6. AcksBut(b)'
        BY <1>1, <1>4, <2>1 DEF AcksBut, l
    <2>7. SentTo(buffer.current + Len(toClient) + Missing(h))'
        <3>1. n + 1 = c + (x + 1) + m
            BY <1>2, <1>5, <2>2
        <3> QED BY <1>1, <2>1, <2>5, <3>1 DEF SentTo, EofStates, c, m
    <2>8. h < NumChunks => h < window'.current
        BY <1>2, <1>4, <2>1
    <2>9. srv' \notin EofStates \cup {"WINDOW_FULL"} \cup Stopped
        BY <2>1 DEF EofStates, Stopped
    <2>10. Straight(h, b)'
        BY <1>1, <1>4, <1>7, <2>5, <2>6, <2>7, <2>8, <2>9 DEF Straight, EofLoad, c
    <2> QED BY <2>9, <2>10
<1>9. CASE SendEof
    <2>1. PICK p \in ClientBound :
             /\ p # Corrupted /\ p.seq = n /\ p.flag = FLAG_EOF
             /\ srv = "WAIT_EOF_ACK" /\ srv' = "EOF_POLL"
             /\ UNCHANGED <<window, filePos, attempts, toServer>>
             /\ toClient' = Put(toClient, "sent", p)
        <3>1. faults # faults + 1
            BY <1>2
        <3> QED BY <1>1, <1>9, <3>1, EofLeaves DEF n
    <2>2. n = NumChunks /\ NumChunks <= c + x + m /\ m <= Load /\ Load + 2 * m <= QueueCap
        BY <1>4, <2>1 DEF SentTo, EofStates, n, EofLoad
    <2>3. Load = x + Len(toServer) + 1
        BY <1>6, <2>1 DEF One
    <2>4. toClient' = Append(toClient, p)
        BY <1>2, <1>5, <2>1, <2>2, <2>3, Delivered DEF x
    <2>5. p.seq = SeqOf(Skip(c + x, h))
        BY <1>2, <1>3, <1>4, <1>5, <2>1, <2>2 DEF SeqOf, Skip
    <2>6. DataIn(toClient', c, h) /\ Len(toClient') = x + 1
        <3>1. DataIn(Append(toClient, p), c, h) /\ Len(Append(toClient, p)) = Len(toClient) + 1
            <4>1. p.seq = SeqOf(Skip(c + Len(toClient), h)) /\ (p.seq = NumChunks => p.flag = FLAG_EOF)
                BY <2>1, <2>5 DEF x
            <4> QED BY <1>2, <1>4, <2>1, <4>1, DataAdded
        <3> QED BY <2>4, <3>1 DEF x
    <2>7. AcksBut(b)'
        BY <1>1, <1>4, <2>1 DEF AcksBut
    <2>8. SentTo(buffer.current + Len(toClient) + Missing(h))'
        <3>1. NumChunks <= c + (x + 1) + m
            BY <1>2, <1>5, <2>2
        <3> QED BY <1>1, <2>1, <2>2, <2>6, <3>1 DEF SentTo, EofStates, c, m, n
    <2>9. Load' = Load
        BY <1>2, <1>7, <2>1, <2>3, <2>6 DEF One
    <2>10. Straight(h, b)'
        BY <1>1, <1>4, <1>7, <2>1, <2>6, <2>7, <2>8, <2>9 DEF Straight, EofLoad, c, m, n, EofStates
    <2> QED BY <2>1, <2>10 DEF Stopped
<1>10. CASE Silent
    <2>1. UNCHANGED <<window, filePos, toClient, toServer>> /\ srv' \notin Stopped /\ srv \notin EofStates
        BY <1>10, SilentEffect
    <2>2. DataIn(toClient', buffer'.current, h) /\ AcksBut(b)'
        BY <1>1, <1>4, <2>1 DEF AcksBut, c
    <2>3. n = c + x + m
        BY <1>4, <2>1 DEF SentTo, n
    <2>4. Straight(h, b)'
        <3>1. CASE srv' \notin EofStates
            <4>1. SentTo(buffer.current + Len(toClient) + Missing(h))'
                BY <1>1, <2>1, <2>3, <3>1 DEF SentTo, c, m, n, x
            <4> QED BY <1>1, <1>4, <1>7, <1>10, <2>1, <2>2, <3>1, <4>1, SilentEffect
                    DEF Straight, EofLoad, c, n, EofStates
        <3>2. CASE srv' \in EofStates
            <4>1. srv' = "WAIT_EOF_ACK" /\ attempts' = 0 /\ n < window.highest /\ filePos = NumChunks
                BY <1>10, <3>2, SilentEffect DEF n
            <4>2. Len(toServer) <= c - l
                BY <1>2, <1>4 DEF AcksBut, One, c, l
            <4>3. Load' = x + Len(toServer) + 1
                BY <1>7, <2>1, <4>1 DEF One, x
            <4>4. m <= Load' /\ Load' + 2 * m <= QueueCap
                BY <1>2, <1>3, <1>5, <2>3, <4>1, <4>2, <4>3
            <4>5. SentTo(buffer.current + Len(toClient) + Missing(h))'
                BY <1>1, <1>2, <1>3, <1>5, <2>1, <2>3, <3>2, <4>1 DEF SentTo, c, m, n, x
            <4> QED BY <1>1, <1>4, <1>7, <2>1, <2>2, <4>1, <4>4, <4>5
                    DEF Straight, EofLoad, c, m, n
        <3> QED BY <3>1, <3>2
    <2> QED BY <2>1, <2>4
<1>11. ASSUME NEW next, NEW onEof, Reads(next, onEof)
       PROVE  /\ srv' \notin Stopped
              /\ \E g \in 0..NumChunks, a \in 0..(NumChunks + 2) : Straight(g, a)'
    <2>1. /\ process_rr_srej_eof(next, onEof)
          /\ \/ srv = "DRAIN" /\ next = "DRAIN" /\ attempts' = attempts
             \/ srv = "WINDOW_FULL" /\ next = "WINDOW_FULL" /\ attempts' = attempts
             \/ srv = "EOF_POLL" /\ next = "WAIT_EOF_ACK" /\ attempts' = 0
        BY <1>11 DEF Reads, WindowFull
    <2>2. /\ srv' = next
          /\ UNCHANGED <<toClient, faults, filePos>>
          /\ Len(toServer') = Len(toServer) - 1
          /\ window'.current = n
        BY <1>1, <1>4, <2>1, ReadsRR DEF n
    <2>3. PICK a \in 0..(NumChunks + 2) : AcksBut(a)' /\ (a = b \/ a = NumChunks + 2)
        BY <1>1, <1>4, <2>1, ReadsRR
    <2>4. DataIn(toClient', buffer'.current, h)
        BY <1>1, <1>4, <2>2 DEF c
    <2>5. SentTo(buffer.current + Len(toClient) + Missing(h))'
        BY <1>1, <1>4, <2>1, <2>2 DEF SentTo, EofStates, c, m, n, x
    <2>6. srv' \in EofStates => Load' = Load /\ srv \in EofStates /\ attempts' = 0
        BY <1>2, <1>6, <1>7, <2>1, <2>2 DEF EofStates, One, x
    <2>7. h < NumChunks => a = NumChunks + 2
        BY <1>4, <2>3
    <2>8. srv' = "WINDOW_FULL" /\ (h < NumChunks \/ a <= NumChunks + 1) => attempts' = 0
        BY <1>2, <1>4, <2>1, <2>2, <2>3
    <2>9. srv' \notin Stopped
        BY <2>1, <2>2 DEF Stopped
    <2>10. Straight(h, a)'
        BY <1>1, <1>4, <1>7, <2>2, <2>3, <2>4, <2>5, <2>6, <2>7, <2>8 DEF Straight, EofLoad, c, m, n
    <2> QED BY <2>9, <2>10
<1> QED BY <1>8, <1>9, <1>10, <1>11, ServerSteps

\* What a step of the child does that loses nothing, if all it has sent ends
\* with the queue and the queues have room.
AllSent(from) ==
    IF srv \in EofStates
    THEN window.current = NumChunks /\ NumChunks <= from + Len(toClient)
    ELSE window.current = from + Len(toClient)

Fits(more) ==
    /\ EofLoad(1, more)
    /\ srv \notin EofStates =>
           Len(toClient) + Len(toServer) + Kept + more <= window.current - window.lowest + 1

Adds(from) ==
    /\ UNCHANGED <<toServer, attempts>>
    /\ window'.lowest = window.lowest
    /\ \E p \in ClientBound :
         /\ toClient' = Append(toClient, p)
         /\ p # Corrupted
         /\ p.seq = SeqOf(from + Len(toClient))
         /\ p.seq = NumChunks => p.flag = FLAG_EOF
    /\ srv' \in EofStates => srv \in EofStates
    /\ srv' # "WINDOW_FULL"

Moves ==
    /\ UNCHANGED <<window, toClient, toServer>>
    /\ srv \notin EofStates
    /\ srv' = "WINDOW_FULL" \/ srv' \in EofStates => attempts' = 0
    /\ srv' \in EofStates => window.current < window.highest

LoadStays ==
    srv' \in EofStates =>
        IF srv \in EofStates THEN Load' = Load
        ELSE Load' = Len(toClient) + Len(toServer) + Kept + 1

\* What a step of the child does to the numbers of a full queue.
LEMMA ServerMoves ==
    ASSUME RoomForRepair, RingInv, RingInv', faults' = faults, ServerStep, UNCHANGED rcopyVars,
           NEW from \in Nat, NEW more \in Nat, AllSent(from), Fits(more), Kept \in Nat
    PROVE  \/ /\ srv' \notin Stopped /\ UNCHANGED <<buffer, rcv>> /\ LoadStays
              /\ EofLoad(1, more)'
              /\ IF srv' \in EofStates
                 THEN window'.current = NumChunks /\ NumChunks <= from + Len(toClient')
                 ELSE window'.current = from + Len(toClient')
              /\ Adds(from) \/ Moves
           \/ \E next, onEof : Reads(next, onEof)
<1> DEFINE l == window.lowest
           n == window.current
           x == Len(toClient)
           y == Len(toServer)
           k == Kept
<1>1. TypeOK /\ TypeOK' /\ UNCHANGED <<buffer, rcv>>
    BY RingFacts DEF RingInv, AnyNetworkInv, rcopyVars
<1>2. /\ l \in Nat /\ n \in Nat /\ window.highest \in Nat /\ x \in Nat /\ y \in Nat /\ k \in Nat
      /\ NumChunks \in Nat /\ WindowSize \in Nat /\ QueueCap \in Nat /\ faults \in Nat
      /\ WindowSize < QueueCap
      /\ toClient \in Seq(ClientBound) /\ toServer \in Seq(ServerBound)
    BY <1>1, Edges, Lengths DEF RoomForRepair
<1>3. /\ n = filePos /\ n <= NumChunks
      /\ window.highest <= l + WindowSize /\ n <= l + WindowSize
    BY RingFacts
<1>4. Load = x + y + One(srv = "WAIT_EOF_ACK") + k
    BY <1>1, Loads DEF Load
<1>5. Kept' = k /\ Load' = Len(toClient') + Len(toServer') + One(srv' = "WAIT_EOF_ACK") + k
    <2>1. Kept' = k
        BY <1>1 DEF Kept
    <2>2. UnderWay' = Len(toClient') + Len(toServer') + One(srv' = "WAIT_EOF_ACK")
        BY DEF UnderWay, One
    <2> QED BY <2>1, <2>2 DEF Load
<1> HIDE DEF l, n, x, y, k
<1>6. CASE SendData
    <2>1. PICK p \in ClientBound :
             /\ p # Corrupted /\ p.seq = n
             /\ window'.current = n + 1
             /\ window'.lowest = l
             /\ filePos < NumChunks /\ n < window.highest
             /\ srv = "SEND_DATA" /\ srv' = "DRAIN"
             /\ UNCHANGED <<toServer, attempts>>
             /\ toClient' = Put(toClient, "sent", p)
        <3>1. faults # faults + 1
            BY <1>2
        <3> QED BY <1>1, <1>6, <3>1, DataLeaves DEF n, l
    <2>2. n = from + x /\ x + y + k + more <= n - l + 1
        BY <2>1 DEF AllSent, Fits, EofStates, n, l, x, y, k
    <2>3. toClient' = Append(toClient, p) /\ Len(toClient') = x + 1
        <3>1. Len(toClient) < QueueCap
            BY <1>2, <1>3, <2>1, <2>2 DEF x
        <3>2. toClient' = Append(toClient, p)
            BY <1>2, <2>1, <3>1, Delivered
        <3> QED BY <1>2, <2>1, <3>2, Appended DEF x
    <2>4. p.seq = SeqOf(from + x) /\ p.seq # NumChunks
        BY <1>2, <1>3, <2>1, <2>2 DEF SeqOf
    <2>5. srv' \notin EofStates \cup Stopped \cup {"WINDOW_FULL"}
        BY <2>1 DEF EofStates, Stopped
    <2>6. Adds(from)
        BY <2>1, <2>3, <2>4, <2>5 DEF Adds, x, l
    <2>7. window'.current = from + Len(toClient')
        <3>1. n + 1 = from + (x + 1)
            BY <1>2, <2>2
        <3> QED BY <2>1, <2>3, <3>1
    <2> QED BY <1>1, <2>5, <2>6, <2>7 DEF EofLoad, LoadStays
<1>7. CASE SendEof
    <2>1. PICK p \in ClientBound :
             /\ p # Corrupted /\ p.seq = n /\ p.flag = FLAG_EOF
             /\ srv = "WAIT_EOF_ACK" /\ srv' = "EOF_POLL"
             /\ UNCHANGED <<window, filePos, attempts, toServer>>
             /\ toClient' = Put(toClient, "sent", p)
        <3>1. faults # faults + 1
            BY <1>2
        <3> QED BY <1>1, <1>7, <3>1, EofLeaves DEF n
    <2>2. n = NumChunks /\ NumChunks <= from + x /\ 1 <= Load /\ Load + more <= QueueCap
        BY <2>1 DEF AllSent, Fits, EofStates, EofLoad, n, x
    <2>3. Load = x + y + 1 + k
        BY <1>4, <2>1 DEF One
    <2>4. toClient' = Append(toClient, p) /\ Len(toClient') = x + 1
        <3>1. Len(toClient) < QueueCap
            BY <1>2, <2>2, <2>3 DEF x
        <3>2. toClient' = Append(toClient, p)
            BY <1>2, <2>1, <3>1, Delivered
        <3> QED BY <1>2, <2>1, <3>2, Appended DEF x
    <2>5. p.seq = SeqOf(from + x)
        BY <1>2, <2>1, <2>2 DEF SeqOf
    <2>6. Load' = Load
        BY <1>2, <1>5, <2>1, <2>3, <2>4 DEF One, y
    <2>7. srv \in EofStates /\ srv' \in EofStates /\ srv' \notin Stopped /\ srv' # "WINDOW_FULL"
        BY <2>1 DEF EofStates, Stopped
    <2>8. Adds(from)
        BY <2>1, <2>4, <2>5, <2>7 DEF Adds, x
    <2>9. window'.current = NumChunks /\ NumChunks <= from + Len(toClient')
        BY <1>2, <2>1, <2>2, <2>4 DEF n
    <2> QED BY <1>1, <2>2, <2>6, <2>7, <2>8, <2>9 DEF EofLoad, LoadStays
<1>8. CASE Silent
    <2>1. /\ UNCHANGED <<window, filePos, toClient, toServer>> /\ srv' \notin Stopped
          /\ srv \notin EofStates
          /\ srv' = "WINDOW_FULL" \/ srv' \in EofStates => attempts' = 0
          /\ srv' \in EofStates =>
                 srv' = "WAIT_EOF_ACK" /\ n < window.highest /\ filePos = NumChunks
        BY <1>8, SilentEffect DEF n
    <2>2. n = from + x /\ x + y + k + more <= n - l + 1
        BY <2>1 DEF AllSent, Fits, n, l, x, y, k
    <2>3. Moves
        BY <2>1 DEF Moves, n
    <2>4. ASSUME srv' \in EofStates
          PROVE  /\ Load' = x + y + k + 1
                 /\ 1 <= Load' /\ Load' + more <= QueueCap
                 /\ window'.current = NumChunks /\ NumChunks <= from + Len(toClient')
        <3>1. Load' = x + y + k + 1
            BY <1>2, <1>5, <2>1, <2>4 DEF One, x, y
        <3> QED BY <1>2, <1>3, <2>1, <2>2, <2>4, <3>1 DEF x, n
    <2>5. srv' \notin EofStates => window'.current = from + Len(toClient')
        BY <2>1, <2>2 DEF x, n
    <2> QED BY <1>1, <2>1, <2>3, <2>4, <2>5 DEF EofLoad, LoadStays, x, y, k
<1> QED BY <1>6, <1>7, <1>8, ServerSteps

\* A packet read leaves room for the one that answers it.
LEMMA ReadsOne ==
    ASSUME TypeOK, TypeOK', NEW next, NEW onEof, Reads(next, onEof), srv' = next,
           UNCHANGED <<buffer, rcv>>,
           Len(toClient') + Len(toServer') = Len(toClient) + Len(toServer) - 1
    PROVE  /\ srv' \notin Stopped
           /\ srv' \in EofStates <=> srv \in EofStates
           /\ srv' \in EofStates => attempts' = 0 /\ Load' = Load
           /\ srv' = "WINDOW_FULL" => srv = "WINDOW_FULL" /\ attempts' = attempts
<1>1. \/ srv = "DRAIN" /\ next = "DRAIN" /\ attempts' = attempts
      \/ srv = "WINDOW_FULL" /\ next = "WINDOW_FULL" /\ attempts' = attempts
      \/ srv = "EOF_POLL" /\ next = "WAIT_EOF_ACK" /\ attempts' = 0
    BY DEF Reads, WindowFull
<1>2. Kept' = Kept
    BY DEF Kept
<1>3. /\ UnderWay = Len(toClient) + Len(toServer) + One(srv = "WAIT_EOF_ACK")
      /\ UnderWay' = Len(toClient') + Len(toServer') + One(srv' = "WAIT_EOF_ACK")
      /\ Len(toClient) \in Nat /\ Len(toServer) \in Nat /\ Len(toClient') \in Nat /\ Len(toServer') \in Nat
    BY Lengths, Loads DEF UnderWay, One
<1>4. srv = "EOF_POLL" /\ srv' = "WAIT_EOF_ACK" => UnderWay' = UnderWay
    BY <1>3 DEF One
<1> QED BY <1>1, <1>2, <1>4 DEF Load, EofStates, Stopped

\* A step of the child while a damaged packet is on its way.
LEMMA DamagedServer ==
    ASSUME RoomForRepair, RingInv, RingInv', faults' = faults, ServerStep, UNCHANGED rcopyVars,
           NEW k \in 1..Len(toClient), Damaged(k)
    PROVE  srv' \notin Stopped /\ k \in 1..Len(toClient') /\ Damaged(k)'
<1> DEFINE c == buffer.current
           x == Len(toClient)
           y == Len(toServer)
<1>1. TypeOK /\ TypeOK' /\ UNCHANGED <<buffer, rcv>>
    BY RingFacts DEF RingInv, AnyNetworkInv, rcopyVars
<1>2. /\ window.lowest \in Nat /\ window.current \in Nat /\ c \in Nat /\ x \in Nat /\ y \in Nat
      /\ k \in 1..x /\ NumChunks \in Nat /\ QueueCap \in Nat
      /\ window.lowest <= c /\ c <= NumChunks + 1
      /\ toClient \in Seq(ClientBound) /\ toServer \in Seq(ServerBound)
    BY <1>1, Edges, Lengths, RingFacts
<1>3. /\ rcv = "INORDER"
      /\ toClient[k] = Corrupted
      /\ \A i \in 1..x : i # k =>
           /\ toClient[i] # Corrupted
           /\ toClient[i].seq = SeqOf(c + (i - 1))
           /\ toClient[i].seq = NumChunks => toClient[i].flag = FLAG_EOF
      /\ AcksBut(NumChunks + 2)
      /\ AllSent(c)
      /\ EofLoad(1, 0)
      /\ srv \in EofStates => (Load >= 2 /\ Load + 1 <= QueueCap) \/ NumChunks <= c + k - 1
      /\ FirstTry
    BY DEF Damaged, SentTo, AllSent
<1>4. Kept = 0 /\ y = c - window.lowest
    <2>1. y = c - window.lowest - One(NumChunks + 2 <= c) /\ ~(NumChunks + 2 <= c)
        BY <1>2, <1>3 DEF AcksBut
    <2> QED BY <1>1, <1>2, <1>3, <2>1, Loads DEF One
<1>5. Fits(0) /\ (srv \notin EofStates => x + y = window.current - window.lowest)
    BY <1>2, <1>3, <1>4 DEF Fits, AllSent
<1> HIDE DEF c, x, y
<1>6. ASSUME /\ srv' \notin Stopped /\ LoadStays /\ EofLoad(1, 0)'
             /\ IF srv' \in EofStates
                THEN window'.current = NumChunks /\ NumChunks <= c + Len(toClient')
                ELSE window'.current = c + Len(toClient')
             /\ Adds(c) \/ Moves
      PROVE  srv' \notin Stopped /\ k \in 1..Len(toClient') /\ Damaged(k)'
    <2>1. SentTo(buffer.current + Len(toClient))'
        BY <1>1, <1>6 DEF SentTo, c
    <2>2. toServer' = toServer /\ window'.lowest = window.lowest
        BY <1>6 DEF Adds, Moves
    <2>3. AcksBut(NumChunks + 2)'
        BY <1>1, <1>3, <2>2 DEF AcksBut
    <2>4. FirstTry'
        BY <1>3, <1>6 DEF Adds, Moves, FirstTry
    <2>5. srv' \in EofStates =>
              (Load' >= 2 /\ Load' + 1 <= QueueCap) \/ NumChunks <= c + k - 1
        <3>1. CASE srv \in EofStates
            BY <1>3, <1>6, <3>1 DEF LoadStays
        <3>2. CASE srv \notin EofStates /\ srv' \in EofStates
            <4>1. Load' = x + y + 1 /\ window.current < window.highest
                <5>1. Moves
                    BY <1>6, <3>2 DEF Adds
                <5>2. Load' = x + y + 0 + 1
                    BY <1>4, <1>6, <3>2 DEF LoadStays, x, y
                <5> QED BY <1>2, <3>2, <5>1, <5>2 DEF Moves
            <4>2. /\ WindowSize \in Nat /\ WindowSize < QueueCap /\ window.highest \in Nat
                  /\ window.highest <= window.lowest + WindowSize
                BY <1>1, RingFacts, Edges DEF RoomForRepair
            <4> QED BY <1>2, <1>5, <3>2, <4>1, <4>2
        <3> QED BY <3>1, <3>2
    <2>6. /\ k \in 1..Len(toClient') /\ toClient'[k] = Corrupted
          /\ \A i \in 1..Len(toClient') : i # k =>
               /\ toClient'[i] # Corrupted
               /\ toClient'[i].seq = SeqOf(c + (i - 1))
               /\ toClient'[i].seq = NumChunks => toClient'[i].flag = FLAG_EOF
        <3>1. CASE toClient' = toClient
            BY <1>2, <1>3, <3>1 DEF x
        <3>2. CASE Adds(c)
            <4>1. PICK p \in ClientBound :
                     /\ toClient' = Append(toClient, p)
                     /\ p # Corrupted
                     /\ p.seq = SeqOf(c + Len(toClient))
                     /\ p.seq = NumChunks => p.flag = FLAG_EOF
                BY <3>2 DEF Adds
            <4>2. /\ Len(toClient') = x + 1 /\ toClient'[x + 1] = p
                  /\ \A i \in 1..x : toClient'[i] = toClient[i]
                BY <1>2, <4>1, Appended DEF x
            <4>3. ASSUME NEW i \in 1..Len(toClient'), i # k
                  PROVE  /\ toClient'[i] # Corrupted
                         /\ toClient'[i].seq = SeqOf(c + (i - 1))
                         /\ toClient'[i].seq = NumChunks => toClient'[i].flag = FLAG_EOF
                <5>1. CASE i \in 1..x
                    BY <1>3, <4>2, <4>3, <5>1
                <5>2. CASE i = x + 1
                    <6>1. i - 1 = x
                        BY <1>2, <5>2
                    <6> QED BY <4>1, <4>2, <5>2, <6>1 DEF x
                <5> QED BY <1>2, <4>2, <5>1, <5>2
            <4> QED BY <1>2, <1>3, <4>2, <4>3
        <3> QED BY <1>6, <3>1, <3>2 DEF Moves
    <2> QED BY <1>1, <1>3, <1>6, <2>1, <2>3, <2>4, <2>5, <2>6 DEF Damaged, c
<1>7. ASSUME NEW next, NEW onEof, Reads(next, onEof)
      PROVE  srv' \notin Stopped /\ k \in 1..Len(toClient') /\ Damaged(k)'
    <2>1. process_rr_srej_eof(next, onEof)
        BY <1>7 DEF Reads
    <2>2. /\ srv' = next /\ toClient' = toClient /\ Len(toServer') = Len(toServer) - 1
          /\ window'.current = window.current
          /\ AcksBut(NumChunks + 2)'
        BY <1>1, <1>2, <1>3, <2>1, ReadsRR
    <2>3. /\ srv' \notin Stopped
          /\ srv' \in EofStates <=> srv \in EofStates
          /\ srv' \in EofStates => attempts' = 0 /\ Load' = Load
          /\ srv' = "WINDOW_FULL" => srv = "WINDOW_FULL" /\ attempts' = attempts
        <3>1. Len(toClient') + Len(toServer') = Len(toClient) + Len(toServer) - 1
            BY <1>2, <2>2 DEF x, y
        <3> QED BY <1>1, <1>7, <2>2, <3>1, ReadsOne
    <2>4. FirstTry' /\ SentTo(buffer.current + Len(toClient))' /\ EofLoad(1, 0)'
        BY <1>1, <1>3, <2>2, <2>3 DEF FirstTry, SentTo, AllSent, EofLoad, c
    <2> QED BY <1>1, <1>2, <1>3, <2>2, <2>3, <2>4 DEF Damaged, c, x
<1>8. Kept \in Nat /\ 0 \in Nat
    BY <1>4
<1> QED BY <1>2, <1>3, <1>5, <1>6, <1>7, <1>8, ServerMoves

\* A step of the child while rcopy flushes its buffer.
LEMMA FlushingServer ==
    ASSUME RoomForRepair, RingInv, RingInv', faults' = faults, ServerStep, UNCHANGED rcopyVars,
           NEW b \in 0..(NumChunks + 2), Flushing(b)
    PROVE  srv' \notin Stopped /\ \E a \in 0..(NumChunks + 2) : Flushing(a)'
<1> DEFINE c == buffer.current
           from == buffer.highest + 1
           x == Len(toClient)
           y == Len(toServer)
<1>1. TypeOK /\ TypeOK' /\ UNCHANGED <<buffer, rcv>>
    BY RingFacts DEF RingInv, AnyNetworkInv, rcopyVars
<1>2. /\ window.lowest \in Nat /\ window.current \in Nat /\ c \in Nat /\ x \in Nat /\ y \in Nat
      /\ from \in Nat /\ NumChunks \in Nat /\ QueueCap \in Nat
      /\ window.lowest <= c /\ c <= NumChunks + 1
      /\ toClient \in Seq(ClientBound) /\ toServer \in Seq(ServerBound)
    BY <1>1, Edges, Lengths, RingFacts
<1>3. /\ rcv = "FLUSH" /\ from >= c
      /\ FilledFrom(c)
      /\ DataIn(toClient, from, NumChunks)
      /\ AcksBut(b)
      /\ AllSent(from)
      /\ EofLoad(1, 0)
      /\ srv = "WINDOW_FULL" /\ b <= NumChunks + 1 => attempts = 0
    BY DEF Flushing, SentTo, AllSent
<1>4. Kept = from - c /\ Kept \in Nat
    <2>1. Kept = buffer.highest + 1 - buffer.current
        <3>1. rcv = "FLUSH" => Kept = buffer.highest + 1 - buffer.current
            BY <1>1, Loads
        <3>2. rcv = "FLUSH"
            BY <1>3
        <3> HIDE DEF from, c
        <3> QED BY <3>1, <3>2
    <2>2. buffer.highest \in Nat /\ buffer.current \in Nat
        BY <1>1, Edges, Loads
    <2>3. from - c = buffer.highest + 1 - buffer.current
        BY <2>2
    <2>4. Kept = from - c
        BY <2>1, <2>3
    <2> HIDE DEF from, c
    <2> QED BY <1>2, <1>3, <2>4
<1>5. y <= c - window.lowest
    BY <1>2, <1>3 DEF AcksBut, One
<1>6. Fits(0)
    <2>1. srv \notin EofStates => window.current = from + x
        BY <1>3 DEF AllSent
    <2>2. window.current = from + x => x + y + (from - c) + 0 <= window.current - window.lowest + 1
        <3> HIDE DEF from, c, x, y
        <3> QED BY <1>2, <1>3, <1>5
    <2> QED BY <1>3, <1>4, <2>1, <2>2 DEF Fits
<1>7. FilledFrom(c)' /\ buffer'.highest + 1 = from /\ buffer'.current = c
    BY <1>1, <1>3 DEF FilledFrom, Filled
<1> HIDE DEF c, x, y, from
<1>8. ASSUME /\ srv' \notin Stopped /\ EofLoad(1, 0)'
             /\ IF srv' \in EofStates
                THEN window'.current = NumChunks /\ NumChunks <= from + Len(toClient')
                ELSE window'.current = from + Len(toClient')
             /\ Adds(from) \/ Moves
      PROVE  srv' \notin Stopped /\ Flushing(b)'
    <2>1. SentTo(buffer.highest + 1 + Len(toClient))'
        BY <1>7, <1>8 DEF SentTo
    <2>2. toServer' = toServer /\ window'.lowest = window.lowest
        BY <1>8 DEF Adds, Moves
    <2>3. AcksBut(b)'
        BY <1>1, <1>3, <2>2 DEF AcksBut
    <2>4. srv' = "WINDOW_FULL" => attempts' = 0
        BY <1>8 DEF Adds, Moves
    <2>5. DataIn(toClient', from, NumChunks)
        <3>1. CASE Adds(from)
            <4>1. PICK p \in ClientBound :
                     /\ toClient' = Append(toClient, p)
                     /\ p # Corrupted
                     /\ p.seq = SeqOf(from + Len(toClient))
                     /\ p.seq = NumChunks => p.flag = FLAG_EOF
                BY <3>1 DEF Adds
            <4>2. from + Len(toClient) \in Nat
                BY <1>2 DEF x
            <4>3. p.seq = SeqOf(Skip(from + Len(toClient), NumChunks))
                BY <4>1, <4>2, SeqOfSkip
            <4>4. DataIn(Append(toClient, p), from, NumChunks)
                BY <1>2, <1>3, <4>1, <4>3, DataAdded
            <4> QED BY <4>1, <4>4
        <3>2. CASE Moves
            BY <1>3, <3>2 DEF Moves
        <3> QED BY <1>8, <3>1, <3>2
    <2> QED BY <1>1, <1>3, <1>7, <1>8, <2>1, <2>3, <2>4, <2>5 DEF Flushing, c
<1>9. ASSUME NEW next, NEW onEof, Reads(next, onEof)
      PROVE  srv' \notin Stopped /\ \E a \in 0..(NumChunks + 2) : Flushing(a)'
    <2>1. process_rr_srej_eof(next, onEof)
        BY <1>9 DEF Reads
    <2>2. /\ srv' = next /\ toClient' = toClient /\ Len(toServer') = Len(toServer) - 1
          /\ window'.current = window.current
        BY <1>1, <1>2, <1>3, <2>1, ReadsRR
    <2>3. PICK a \in 0..(NumChunks + 2) : AcksBut(a)' /\ (a = b \/ a = NumChunks + 2)
        BY <1>1, <1>3, <2>1, ReadsRR
    <2>4. /\ srv' \notin Stopped
          /\ srv' \in EofStates <=> srv \in EofStates
          /\ srv' \in EofStates => attempts' = 0 /\ Load' = Load
          /\ srv' = "WINDOW_FULL" => srv = "WINDOW_FULL" /\ attempts' = attempts
        <3>1. Len(toClient') + Len(toServer') = Len(toClient) + Len(toServer) - 1
            BY <1>2, <2>2 DEF x, y
        <3> QED BY <1>1, <1>9, <2>2, <3>1, ReadsOne
    <2>5. SentTo(buffer.highest + 1 + Len(toClient))' /\ EofLoad(1, 0)'
        BY <1>1, <1>3, <1>7, <2>2, <2>4 DEF SentTo, AllSent, EofLoad
    <2>6. srv' = "WINDOW_FULL" /\ a <= NumChunks + 1 => attempts' = 0
        BY <1>2, <1>3, <2>3, <2>4
    <2>7. Flushing(a)'
        BY <1>1, <1>3, <1>7, <2>2, <2>3, <2>5, <2>6 DEF Flushing, c, from
    <2> QED BY <2>4, <2>7
<1> QED BY <1>2, <1>3, <1>4, <1>6, <1>8, <1>9, ServerMoves

\* A step of the child when the missing packet is on its way again.
LEMMA GapResentServer ==
    ASSUME RoomForRepair, RingInv, RingInv', faults' = faults, ServerStep, UNCHANGED rcopyVars,
           NEW k \in 1..Len(toClient), GapResent(k)
    PROVE  srv' \notin Stopped /\ k \in 1..Len(toClient') /\ GapResent(k)'
<1> DEFINE c == buffer.current
           from == buffer.highest
           x == Len(toClient)
<1>1. TypeOK /\ TypeOK' /\ UNCHANGED <<buffer, rcv>>
    BY RingFacts DEF RingInv, AnyNetworkInv, rcopyVars
<1>2. /\ window.lowest \in Nat /\ window.current \in Nat /\ c \in Nat /\ x \in Nat
      /\ from \in Nat /\ NumChunks \in Nat /\ QueueCap \in Nat
      /\ toClient \in Seq(ClientBound) /\ toServer = <<>> /\ Len(toServer) = 0
    BY <1>1, Edges, Lengths, RingFacts DEF GapResent
<1>3. /\ rcv = "BUFFER" /\ from > c /\ FilledFrom(c + 1)
      /\ window.lowest = c
      /\ \A i \in 1..x :
           /\ toClient[i] # Corrupted
           /\ toClient[i].seq = IF i = k THEN c ELSE SeqOf(from + (IF i < k THEN i ELSE i - 1))
           /\ toClient[i].seq = NumChunks => toClient[i].flag = FLAG_EOF
      /\ AllSent(from)
      /\ EofLoad(1, 0)
      /\ srv = "WINDOW_FULL" => attempts = 0
    BY DEF GapResent, SentTo, AllSent
<1>4. Kept = from - c /\ Kept \in Nat
    BY <1>1, <1>2, <1>3, Loads
<1>5. Fits(0)
    BY <1>2, <1>3, <1>4 DEF Fits, AllSent
<1>6. FilledFrom(c + 1)' /\ buffer'.highest = from /\ buffer'.current = c
    BY <1>1, <1>3 DEF FilledFrom, Filled
<1> HIDE DEF c, x, from
<1>7. ASSUME /\ srv' \notin Stopped /\ EofLoad(1, 0)'
             /\ IF srv' \in EofStates
                THEN window'.current = NumChunks /\ NumChunks <= from + Len(toClient')
                ELSE window'.current = from + Len(toClient')
             /\ Adds(from) \/ Moves
      PROVE  srv' \notin Stopped /\ k \in 1..Len(toClient') /\ GapResent(k)'
    <2>1. SentTo(buffer.highest + Len(toClient))'
        BY <1>6, <1>7 DEF SentTo
    <2>2. toServer' = <<>> /\ window'.lowest = c
        BY <1>2, <1>3, <1>7 DEF Adds, Moves
    <2>3. srv' = "WINDOW_FULL" => attempts' = 0
        BY <1>7 DEF Adds, Moves
    <2>4. /\ k \in 1..Len(toClient')
          /\ \A i \in 1..Len(toClient') :
               /\ toClient'[i] # Corrupted
               /\ toClient'[i].seq = IF i = k THEN c ELSE SeqOf(from + (IF i < k THEN i ELSE i - 1))
               /\ toClient'[i].seq = NumChunks => toClient'[i].flag = FLAG_EOF
        <3>1. CASE Adds(from)
            <4>1. PICK p \in ClientBound :
                     /\ toClient' = Append(toClient, p)
                     /\ p # Corrupted
                     /\ p.seq = SeqOf(from + x)
                     /\ p.seq = NumChunks => p.flag = FLAG_EOF
                BY <3>1 DEF Adds, x
            <4>2. /\ Len(toClient') = x + 1 /\ toClient'[x + 1] = p
                  /\ \A i \in 1..x : toClient'[i] = toClient[i]
                BY <1>2, <4>1, Appended DEF x
            <4>3. k \in 1..x
                BY DEF x
            <4>4. ASSUME NEW i \in 1..Len(toClient')
                  PROVE  /\ toClient'[i] # Corrupted
                         /\ toClient'[i].seq =
                                IF i = k THEN c ELSE SeqOf(from + (IF i < k THEN i ELSE i - 1))
                         /\ toClient'[i].seq = NumChunks => toClient'[i].flag = FLAG_EOF
                <5>1. CASE i \in 1..x
                    BY <1>3, <4>2, <5>1
                <5>2. CASE i = x + 1
                    <6>1. i - 1 = x /\ i # k /\ ~(i < k)
                        BY <1>2, <4>3, <5>2
                    <6> QED BY <4>1, <4>2, <5>2, <6>1
                <5> QED BY <1>2, <4>2, <5>1, <5>2
            <4> QED BY <1>2, <4>2, <4>3, <4>4
        <3>2. CASE Moves
            BY <1>3, <3>2 DEF Moves, x
        <3> QED BY <1>7, <3>1, <3>2
    <2> QED BY <1>1, <1>3, <1>6, <1>7, <2>1, <2>2, <2>3, <2>4 DEF GapResent, c
<1>8. ASSUME NEW next, NEW onEof, Reads(next, onEof)
      PROVE  FALSE
    BY <1>2, <1>8 DEF Reads, process_rr_srej_eof
<1> QED BY <1>2, <1>3, <1>4, <1>5, <1>7, <1>8, ServerMoves

\* What is put into a queue that has room, when nothing is lost.
LEMMA SentWhole ==
    ASSUME TypeOK, Len(toClient) < QueueCap, NEW p, SendToClient(p), faults' = faults
    PROVE  toClient' = Append(toClient, p)
<1>1. PICK fate \in Fates(ServerErrors) :
          faults' = faults + Cost(fate) /\ toClient' = Put(toClient, fate, p)
    BY DEF SendToClient
<1>2. fate = "sent"
    <2>1. faults \in Nat /\ (fate # "sent" => faults' = faults + 1)
        BY <1>1, Edges DEF Cost
    <2> QED BY <2>1
<1> QED BY <1>1, <1>2, Lengths, Delivered

\* The child reads the SREJ and sends the missing chunk.
LEMMA Retransmits ==
    ASSUME RoomForRepair, RingInv, TypeOK', faults' = faults, UNCHANGED rcopyVars,
           NEW next, NEW onEof, Reads(next, onEof),
           GapAsked, window.lowest = buffer.current
    PROVE  srv' \notin Stopped /\ \E k \in 1..Len(toClient') : GapResent(k)'
<1> DEFINE c == buffer.current
           hi == buffer.highest
           x == Len(toClient)
           p == Head(toServer)
           q == build_packet(c, FLAG_RESENT_DATA, c)
<1>1. TypeOK /\ UNCHANGED <<buffer, rcv>>
    BY RingFacts DEF rcopyVars
<1>2. /\ window.current \in Nat /\ c \in Nat /\ x \in Nat /\ hi \in Nat /\ faults \in Nat
      /\ NumChunks \in Nat /\ QueueCap \in Nat /\ WindowSize \in Nat /\ WindowSize < QueueCap
      /\ toClient \in Seq(ClientBound) /\ toServer \in Seq(ServerBound)
      /\ hi <= window.current /\ window.current <= NumChunks
      /\ window.current <= c + WindowSize
    BY <1>1, Edges, Lengths, RingFacts DEF RoomForRepair
<1>3. /\ rcv = "BUFFER" /\ hi > c /\ FilledFrom(c + 1)
      /\ DataIn(toClient, hi + 1, NumChunks)
      /\ Len(toServer) = 1 /\ toServer[1] = SREJ(c)
      /\ IF srv \in EofStates
         THEN window.current = NumChunks /\ NumChunks <= hi + 1 + x
         ELSE window.current = hi + 1 + x
      /\ EofLoad(1, 1)
      /\ srv = "WINDOW_FULL" => attempts = 0
    <2>1. Len(toServer) = buffer.current - window.lowest + 1 /\ toServer[Len(toServer)] = SREJ(c)
        BY DEF GapAsked
    <2>2. Len(toServer) = 1
        BY <1>2, <2>1
    <2> QED BY <2>1, <2>2 DEF GapAsked, SentTo
<1>4. p = SREJ(c) /\ Len(Tail(toServer)) = 0 /\ toServer' = Tail(toServer)
    BY <1>2, <1>3, HeadAndTail DEF Reads, process_rr_srej_eof
<1>5. ~BadChecksum(p) /\ p.flag = FLAG_SREJ /\ p.flag # FLAG_RR /\ p.data = c
    BY <1>4 DEF SREJ, build_packet, BadChecksum, Corrupted, FLAG_RR, FLAG_SREJ
<1>6. resend_packet(c, FLAG_RESENT_DATA, next) /\ UNCHANGED window
    BY <1>5 DEF Reads, process_rr_srej_eof
<1>7. Entry(window, c).data = c /\ c # Uninit
    <2>1. c < window.current /\ RetainedForResend
        BY <1>2, <1>3 DEF RingInv, ShelteredInv, WindowInv
    <2> QED BY <1>1, <1>2, <2>1, RetainedEntry
<1>8. srv' = next /\ SendToClient(q)
    BY <1>6, <1>7 DEF resend_packet, PayloadOf
<1>9. UnderWay = x + 1 + One(srv = "WAIT_EOF_ACK") /\ Kept = hi - c /\ UnderWay \in Nat
    BY <1>1, <1>3, Loads
<1>10. \/ srv \notin EofStates /\ srv' \notin EofStates \cup Stopped
          /\ (srv' = "WINDOW_FULL" => attempts' = 0)
       \/ srv = "EOF_POLL" /\ srv' = "WAIT_EOF_ACK" /\ attempts' = 0
    BY <1>3, <1>8 DEF Reads, WindowFull, EofStates, Stopped
<1> HIDE DEF c, hi, x, p, q
<1>11. x < QueueCap
    <2>1. CASE srv \in EofStates
        <3>1. Load + 1 <= QueueCap
            BY <1>3, <2>1 DEF EofLoad
        <3>2. One(srv = "WAIT_EOF_ACK") \in Nat
            BY DEF One
        <3> QED BY <1>2, <1>3, <1>9, <3>1, <3>2 DEF Load
    <2>2. CASE srv \notin EofStates
        BY <1>2, <1>3, <2>2
    <2> QED BY <2>1, <2>2
<1>12. toClient' = Append(toClient, q)
    BY <1>1, <1>8, <1>11, SentWhole DEF x
<1>13. q \in ClientBound /\ q # Corrupted /\ q.seq = c /\ c < NumChunks
    BY <1>2, <1>3 DEF q, build_packet, ClientBound, Payload, DataFlags, FLAG_RESENT_DATA, Corrupted
<1>14. /\ Len(toClient') = x + 1 /\ toClient'[x + 1] = q
       /\ \A i \in 1..x : toClient'[i] = toClient[i]
    BY <1>2, <1>12, <1>13, Appended DEF x
<1>15. ASSUME NEW i \in 1..Len(toClient')
       PROVE  /\ toClient'[i] # Corrupted
              /\ toClient'[i].seq = IF i = x + 1 THEN c
                         ELSE SeqOf(hi + (IF i < x + 1 THEN i ELSE i - 1))
              /\ toClient'[i].seq = NumChunks => toClient'[i].flag = FLAG_EOF
    <2>1. CASE i = x + 1
        BY <1>2, <1>13, <1>14, <2>1
    <2>2. CASE i \in 1..x
        <3>1. /\ toClient[i] # Corrupted
              /\ toClient[i].seq = SeqOf(Skip(hi + 1 + (i - 1), NumChunks))
              /\ toClient[i].seq = NumChunks => toClient[i].flag = FLAG_EOF
            BY <1>3, <2>2 DEF DataIn, x
        <3>2. hi + 1 + (i - 1) = hi + i /\ hi + i \in Nat /\ i < x + 1 /\ i # x + 1
            BY <1>2, <2>2
        <3>3. SeqOf(Skip(hi + i, NumChunks)) = SeqOf(hi + i)
            BY <3>2, SeqOfSkip
        <3> QED BY <1>14, <2>2, <3>1, <3>2, <3>3
    <2> QED BY <1>2, <1>14, <2>1, <2>2
<1>16. srv' \in EofStates => 1 <= Load' /\ Load' + 0 <= QueueCap
    <2>1. SUFFICES ASSUME srv = "EOF_POLL", srv' = "WAIT_EOF_ACK"
                   PROVE  1 <= Load' /\ Load' + 0 <= QueueCap
        BY <1>10 DEF EofStates
    <2>2. Load = x + 1 + 0 + (hi - c) /\ Load + 1 <= QueueCap
        BY <1>3, <1>9, <2>1 DEF Load, One, EofLoad, EofStates
    <2>5. Len(toServer') = 0 /\ Len(toClient') = x + 1
        BY <1>4, <1>14
    <2>3. UnderWay' = (x + 1) + 0 + 1
        BY <2>1, <2>5 DEF UnderWay
    <2>4. Load' = (x + 1) + 0 + 1 + (hi - c)
        <3>1. Kept' = hi - c
            BY <1>1, <1>9 DEF Kept
        <3> QED BY <2>3, <3>1 DEF Load
    <2> QED BY <1>2, <1>3, <2>2, <2>4
<1>17. IF srv' \in EofStates
       THEN window'.current = NumChunks /\ NumChunks <= hi + (x + 1)
       ELSE window'.current = hi + (x + 1)
    <2>1. hi + 1 + x = hi + (x + 1) /\ window' = window
        BY <1>2, <1>6
    <2>2. srv' \in EofStates <=> srv \in EofStates
        BY <1>10 DEF EofStates
    <2> QED BY <1>3, <2>1, <2>2
<1>18. FilledFrom(c + 1)' /\ toServer' = <<>>
    <2>1. toServer' = <<>>
        BY <1>2, <1>4
    <2> QED BY <1>1, <1>3, <2>1 DEF FilledFrom, Filled, c
<1>19. srv' = "WINDOW_FULL" => attempts' = 0
    BY <1>10 DEF EofStates
<1>20. window'.lowest = buffer'.current /\ buffer'.current = c /\ buffer'.highest = hi /\ rcv' = "BUFFER"
    BY <1>1, <1>3, <1>6 DEF c, hi
<1>21. PICK k \in Nat : k = x + 1
    BY <1>2
<1>22. GapResent(k)'
    <2>1. SentTo(buffer.highest + Len(toClient))'
        BY <1>14, <1>17, <1>20 DEF SentTo
    <2>3. FilledFrom(buffer.current + 1)'
        BY <1>18 DEF c
    <2>2. EofLoad(1, 0)'
        BY <1>16 DEF EofLoad
    <2> QED BY <1>3, <1>14, <1>15, <1>18, <1>19, <1>20, <1>21, <2>1, <2>2, <2>3 DEF GapResent
<1>23. k \in 1..Len(toClient')
    BY <1>2, <1>14, <1>21
<1>24. srv' \notin Stopped
    BY <1>10 DEF EofStates, Stopped
<1> QED BY <1>22, <1>23, <1>24

\* The child while rcopy waits for the answer to its SREJ.
LEMMA GapAskedServer ==
    ASSUME RoomForRepair, RingInv, RingInv', faults' = faults, ServerStep, UNCHANGED rcopyVars,
           GapAsked
    PROVE  srv' \notin Stopped /\ (GapAsked' \/ \E k \in 1..Len(toClient') : GapResent(k)')
<1> DEFINE c == buffer.current
           l == window.lowest
           from == buffer.highest + 1
           x == Len(toClient)
           y == Len(toServer)
<1>1. TypeOK /\ TypeOK' /\ UNCHANGED <<buffer, rcv>>
    BY RingFacts DEF RingInv, AnyNetworkInv, rcopyVars
<1>2. /\ l \in Nat /\ window.current \in Nat /\ c \in Nat /\ x \in Nat /\ y \in Nat
      /\ from \in Nat /\ NumChunks \in Nat /\ QueueCap \in Nat
      /\ l <= c /\ c <= NumChunks + 1 /\ window \in CircularBuffer
      /\ toClient \in Seq(ClientBound) /\ toServer \in Seq(ServerBound)
    BY <1>1, Edges, Lengths, RingFacts
<1>3. /\ rcv = "BUFFER" /\ from > c + 1
      /\ FilledFrom(c + 1)
      /\ DataIn(toClient, from, NumChunks)
      /\ y = c - l + 1
      /\ \A i \in 1..(y - 1) : toServer[i] = RR(l + i)
      /\ toServer[y] = SREJ(c)
      /\ AllSent(from)
      /\ EofLoad(1, 1)
      /\ srv = "WINDOW_FULL" => attempts = 0
    <2>1. from > c + 1
        BY <1>1, <1>2, Loads DEF GapAsked
    <2> QED BY <2>1 DEF GapAsked, SentTo, AllSent
<1>4. Kept = from - 1 - c /\ Kept \in Nat
    <2>1. Kept = buffer.highest - buffer.current /\ buffer.highest \in Nat
        BY <1>1, <1>3, Loads
    <2>2. from - 1 - c = buffer.highest - buffer.current
        BY <1>2, <2>1
    <2>3. Kept = from - 1 - c
        BY <2>1, <2>2
    <2> HIDE DEF from, c
    <2> QED BY <1>2, <1>3, <2>3
<1>5. Fits(1)
    <2>1. srv \notin EofStates => window.current = from + x
        BY <1>3 DEF AllSent
    <2>2. window.current = from + x => x + y + (from - 1 - c) + 1 <= window.current - l + 1
        <3> HIDE DEF from, c, x, y, l
        <3> QED BY <1>2, <1>3
    <2> QED BY <1>3, <1>4, <2>1, <2>2 DEF Fits
<1>6. FilledFrom(c + 1)' /\ buffer'.highest + 1 = from /\ buffer'.current = c
    BY <1>1, <1>3 DEF FilledFrom, Filled
<1>7. buffer'.highest > buffer'.current
    BY <1>1 DEF GapAsked
<1> HIDE DEF c, x, y, from, l
<1>8. ASSUME /\ srv' \notin Stopped /\ EofLoad(1, 1)'
             /\ IF srv' \in EofStates
                THEN window'.current = NumChunks /\ NumChunks <= from + Len(toClient')
                ELSE window'.current = from + Len(toClient')
             /\ Adds(from) \/ Moves
      PROVE  srv' \notin Stopped /\ GapAsked'
    <2>1. SentTo(buffer.highest + 1 + Len(toClient))'
        BY <1>6, <1>8 DEF SentTo
    <2>2. toServer' = toServer /\ window'.lowest = window.lowest
        BY <1>8 DEF Adds, Moves
    <2>3. srv' = "WINDOW_FULL" => attempts' = 0
        BY <1>8 DEF Adds, Moves
    <2>4. DataIn(toClient', from, NumChunks)
        <3>1. CASE Adds(from)
            <4>1. PICK p \in ClientBound :
                     /\ toClient' = Append(toClient, p)
                     /\ p # Corrupted
                     /\ p.seq = SeqOf(from + Len(toClient))
                     /\ p.seq = NumChunks => p.flag = FLAG_EOF
                BY <3>1 DEF Adds
            <4>2. from + Len(toClient) \in Nat
                BY <1>2 DEF x
            <4>3. p.seq = SeqOf(Skip(from + Len(toClient), NumChunks))
                BY <4>1, <4>2, SeqOfSkip
            <4>4. DataIn(Append(toClient, p), from, NumChunks)
                BY <1>2, <1>3, <4>1, <4>3, DataAdded
            <4> QED BY <4>1, <4>4
        <3>2. CASE Moves
            BY <1>3, <3>2 DEF Moves
        <3> QED BY <1>8, <3>1, <3>2
    <2>5. FilledFrom(buffer.current + 1)' /\ rcv' = "BUFFER"
        BY <1>1, <1>3, <1>6 DEF c
    <2>6. /\ Len(toServer') = buffer'.current - window'.lowest + 1
          /\ \A i \in 1..(Len(toServer') - 1) : toServer'[i] = RR(window'.lowest + i)
          /\ toServer'[Len(toServer')] = SREJ(buffer'.current)
        BY <1>3, <1>6, <2>2 DEF y, l
    <2>7. DataIn(toClient', buffer'.highest + 1, NumChunks)
        BY <1>6, <2>4
    <2> QED BY <1>7, <1>8, <2>1, <2>3, <2>5, <2>6, <2>7 DEF GapAsked
<1>9. ASSUME NEW next, NEW onEof, Reads(next, onEof), c > l
      PROVE  srv' \notin Stopped /\ GapAsked'
    <2>1. process_rr_srej_eof(next, onEof) /\ toServer # <<>> /\ toServer' = Tail(toServer)
        BY <1>9 DEF Reads, process_rr_srej_eof
    <2>2. /\ Head(toServer) = RR(l + 1) /\ Len(Tail(toServer)) = y - 1
          /\ \A i \in 1..Len(Tail(toServer)) : Tail(toServer)[i] = toServer[i + 1]
        <3>1. /\ Head(toServer) = toServer[1] /\ Len(Tail(toServer)) = y - 1
              /\ \A i \in 1..Len(Tail(toServer)) : Tail(toServer)[i] = toServer[i + 1]
            BY <1>2, <2>1, HeadAndTail DEF y
        <3>2. 1 \in 1..(y - 1)
            BY <1>2, <1>3, <1>9
        <3> QED BY <1>3, <3>1, <3>2
    <2> DEFINE p == Head(toServer)
    <2>3. ~BadChecksum(p) /\ p.flag = FLAG_RR /\ p.data = l + 1
        BY <2>2 DEF RR, build_packet, BadChecksum, Corrupted, FLAG_RR
    <2>4. window' = AdvanceWindow(window, l + 1) /\ srv' = next /\ UNCHANGED <<toClient, faults>>
        BY <2>1, <2>3 DEF process_rr_srej_eof, FLAG_RR, FLAG_SREJ
    <2>5. window'.lowest = l + 1 /\ window'.current = window.current
        <3>1. l + 1 \in Nat
            BY <1>2
        <3> QED BY <1>2, <2>4, <3>1, AdvanceType
    <2>6. /\ srv' \notin Stopped
          /\ srv' \in EofStates <=> srv \in EofStates
          /\ srv' \in EofStates => attempts' = 0 /\ Load' = Load
          /\ srv' = "WINDOW_FULL" => srv = "WINDOW_FULL" /\ attempts' = attempts
        <3>1. Len(toClient') + Len(toServer') = Len(toClient) + Len(toServer) - 1
            BY <1>2, <2>1, <2>2, <2>4 DEF x, y
        <3> QED BY <1>1, <1>9, <2>4, <3>1, ReadsOne
    <2>7. SentTo(buffer.highest + 1 + Len(toClient))' /\ EofLoad(1, 1)'
        BY <1>1, <1>3, <1>6, <2>4, <2>5, <2>6 DEF SentTo, AllSent, EofLoad
    <2>8. srv' = "WINDOW_FULL" => attempts' = 0
        BY <1>3, <2>6
    <2>9. Len(toServer') = buffer'.current - window'.lowest + 1
        BY <1>2, <1>3, <1>6, <2>1, <2>2, <2>5
    <2>10. \A i \in 1..(Len(toServer') - 1) : toServer'[i] = RR(window'.lowest + i)
        <3>1. ASSUME NEW i \in 1..(Len(toServer') - 1)
              PROVE  toServer'[i] = RR(window'.lowest + i)
            <4>1. i + 1 \in 1..(y - 1) /\ i \in 1..Len(Tail(toServer)) /\ l + (i + 1) = l + 1 + i
                BY <1>2, <2>1, <2>2
            <4> QED BY <1>3, <2>1, <2>2, <2>5, <4>1
        <3> QED BY <3>1
    <2>11. toServer'[Len(toServer')] = SREJ(buffer'.current)
        <3>1. y - 1 \in 1..Len(Tail(toServer)) /\ y - 1 + 1 = y
            BY <1>2, <1>3, <1>9, <2>2
        <3> QED BY <1>3, <1>6, <2>1, <2>2, <3>1
    <2>12. FilledFrom(buffer.current + 1)' /\ rcv' = "BUFFER"
        BY <1>1, <1>3, <1>6 DEF c
    <2>13. DataIn(toClient', buffer'.highest + 1, NumChunks)
        BY <1>3, <1>6, <2>4
    <2> QED BY <1>7, <2>6, <2>7, <2>8, <2>9, <2>10, <2>11, <2>12, <2>13 DEF GapAsked
<1>10. ASSUME NEW next, NEW onEof, Reads(next, onEof)
       PROVE  srv' \notin Stopped /\ (GapAsked' \/ \E k \in 1..Len(toClient') : GapResent(k)')
    <2>1. CASE c > l
        BY <1>9, <1>10, <2>1
    <2>2. CASE l = c
        BY <1>1, <1>10, <2>2, Retransmits DEF l, c
    <2> QED BY <1>2, <2>1, <2>2
<1>11. from \in Nat /\ 1 \in Nat
    BY <1>2
<1> QED BY <1>3, <1>4, <1>5, <1>8, <1>10, <1>11, ServerMoves

\* When it has sent again what rcopy had, the child can only wait.
LEMMA AgainServer ==
    ASSUME Again, ServerStep
    PROVE  FALSE
BY DEF Again, WindowFull, ServerStep, SendData, ReadEof, WindowClosed, DrainRecv, DrainDone, FullRecv,
       FullDone, SendEof, EofRecv, process_rr_srej_eof

\* No step of the child that loses nothing leaves the modes.
LEMMA OneLossServer ==
    ASSUME RoomForRepair, RingInv, RingInv', faults' = faults, ServerStep, UNCHANGED rcopyVars,
           OneLoss
    PROVE  OneLoss'
<1>1. ASSUME NEW h \in 0..NumChunks, NEW b \in 0..(NumChunks + 2), Straight(h, b)
      PROVE  OneLoss'
    BY <1>1, StraightServer DEF OneLoss
<1>2. ASSUME NEW k \in 1..Len(toClient), Damaged(k)
      PROVE  OneLoss'
    BY <1>2, DamagedServer DEF OneLoss
<1>3. CASE GapAsked
    BY <1>3, GapAskedServer DEF OneLoss
<1>4. ASSUME NEW k \in 1..Len(toClient), GapResent(k)
      PROVE  OneLoss'
    BY <1>4, GapResentServer DEF OneLoss
<1>5. ASSUME NEW b \in 0..(NumChunks + 2), Flushing(b)
      PROVE  OneLoss'
    BY <1>5, FlushingServer DEF OneLoss
<1>6. CASE Again
    BY <1>6, AgainServer
<1> QED BY <1>1, <1>2, <1>3, <1>4, <1>5, <1>6 DEF OneLoss

------------------------------------------------------------------------------
(***************************************************************************)
(* A time-out of the child.                                                *)
(***************************************************************************)

\* A time-out of the child when nothing is on its way but what it sends then.
LEMMA OneLossTimeout ==
    ASSUME RoomForRepair, MaxAttempts >= 2, RingInv, RingInv', faults' = faults, ServerTimeout,
           UNCHANGED rcopyVars,
           toClient = <<>>, toServer = <<>>, rcv \in Receiving, OneLoss
    PROVE  OneLoss'
<1> DEFINE l == window.lowest
           c == buffer.current
           n == window.current
<1>1. TypeOK /\ TypeOK' /\ UNCHANGED <<buffer, rcv>>
    BY RingFacts DEF RingInv, AnyNetworkInv, rcopyVars
<1>2. /\ l \in Nat /\ c \in Nat /\ n \in Nat /\ faults \in Nat /\ NumChunks \in Nat
      /\ QueueCap \in Nat \ {0}
      /\ l <= c /\ c <= NumChunks + 1 /\ n <= NumChunks /\ l < window.highest
      /\ Len(toClient) = 0 /\ Len(toServer) = 0
      /\ MaxAttempts \in Nat /\ WindowSize \in Nat \ {0}
    BY <1>1, Edges, Lengths, RingFacts, ServerAssumption
<1>3. PICK h \in 0..NumChunks, b \in 0..(NumChunks + 2) : Straight(h, b)
    <2>1. ~GapAsked
        <3>1. SUFFICES ASSUME Len(toServer) = buffer.current - window.lowest + 1
                       PROVE  FALSE
            BY DEF GapAsked
        <3> QED BY <1>2, <3>1
    <2>2. 1..Len(toClient) = {}
        BY <1>2
    <2>3. \A b \in 0..(NumChunks + 2) : ~Flushing(b)
        BY DEF Flushing, Receiving
    <2>4. ~Again
        BY <1>2 DEF Again
    <2> QED BY <2>1, <2>2, <2>3, <2>4 DEF OneLoss
<1>4. /\ rcv = "INORDER"
      /\ h = NumChunks \/ (c <= h /\ h < NumChunks /\ h < n /\ b = NumChunks + 2)
      /\ b \in (l + 1)..(NumChunks + 2)
      /\ b <= c \/ b = NumChunks + 2
      /\ 0 = c - l - One(b <= c)
      /\ IF srv \in EofStates
         THEN n = NumChunks /\ NumChunks <= c + 0 + Missing(h)
         ELSE n = c + 0 + Missing(h)
      /\ EofLoad(Missing(h), 2 * Missing(h))
      /\ srv \in EofStates => Load >= 1 \/ attempts = 0
      /\ srv = "WINDOW_FULL" /\ (h < NumChunks \/ b <= NumChunks + 1) => attempts = 0
    BY <1>2, <1>3 DEF Straight, AcksBut, SentTo
<1>5. Missing(h) = IF h < NumChunks THEN 1 ELSE 0
    BY DEF Missing, One
<1>6. CASE FullTimeout
    <2>1. srv = "WINDOW_FULL" /\ n = window.highest /\ UNCHANGED <<window, toServer>>
        BY <1>6 DEF FullTimeout, WindowFull
    <2>2. n = c + Missing(h) /\ (h < NumChunks \/ b <= NumChunks + 1 => attempts = 0)
        BY <1>2, <1>4, <1>5, <2>1 DEF EofStates
    <2>3. \/ h < NumChunks /\ c = l /\ n = c + 1 /\ h = c
          \/ h = NumChunks /\ c = l + 1 /\ n = c /\ b <= NumChunks + 1
        <3> HIDE DEF l, c, n
        <3>1. CASE h < NumChunks
            BY <1>2, <1>4, <1>5, <2>1, <2>2, <3>1 DEF One
        <3>2. CASE h = NumChunks
            BY <1>2, <1>4, <1>5, <2>1, <2>2, <3>2 DEF One, l
        <3> QED BY <1>2, <3>1, <3>2
    <2>4. attempts = 0 /\ l < n /\ l < NumChunks
        BY <1>2, <2>2, <2>3
    <2> DEFINE p == build_packet(l, FLAG_RESENT_TIMEOUT, l)
    <2>5. srv' = "WINDOW_FULL" /\ SendToClient(p)
        <3>1. resend_packet(l, FLAG_RESENT_TIMEOUT, "WINDOW_FULL")
            BY <1>2, <1>6, <2>4 DEF FullTimeout
        <3>2. Entry(window, l).data = l /\ l # Uninit
            <4>1. RetainedForResend
                BY DEF RingInv, ShelteredInv, WindowInv
            <4> QED BY <1>1, <1>2, <2>4, <4>1, RetainedEntry
        <3> QED BY <3>1, <3>2 DEF resend_packet, PayloadOf
    <2>6. toClient' = Append(toClient, p)
        BY <1>1, <1>2, <2>5, SentWhole
    <2>7. p \in ClientBound /\ p # Corrupted /\ p.seq = l
        BY <1>2 DEF build_packet, ClientBound, Payload, DataFlags, FLAG_RESENT_TIMEOUT, Corrupted
    <2>8. Len(toClient') = 1 /\ toClient'[1] = p
        <3>1. toClient \in Seq(ClientBound)
            BY <1>1, Lengths
        <3> QED BY <1>2, <2>6, <2>7, <3>1, Appended
    <2> HIDE DEF p
    <2>9. CASE h < NumChunks
        <3>1. DataIn(toClient', c, NumChunks)
            <4>1. ASSUME NEW i \in 1..Len(toClient')
                  PROVE  /\ toClient'[i] # Corrupted
                         /\ toClient'[i].seq = SeqOf(Skip(c + (i - 1), NumChunks))
                         /\ toClient'[i].seq = NumChunks => toClient'[i].flag = FLAG_EOF
                <5>1. i = 1 /\ c + (i - 1) = c
                    BY <1>2, <2>8
                <5>2. SeqOf(Skip(c, NumChunks)) = l
                    BY <1>2, <2>3, <2>4, <2>9 DEF SeqOf, Skip
                <5> QED BY <1>2, <2>4, <2>7, <2>8, <5>1, <5>2
            <4> QED BY <4>1 DEF DataIn
        <3>2. AcksBut(NumChunks + 2)'
            BY <1>1, <1>3, <1>4, <2>1, <2>9 DEF Straight, AcksBut
        <3>3. SentTo(buffer.current + Len(toClient) + Missing(NumChunks))'
            <4>1. Missing(NumChunks) = 0
                BY <1>2 DEF Missing, One
            <4>2. window'.current = buffer'.current + Len(toClient') + 0
                BY <1>1, <1>2, <2>1, <2>3, <2>8, <2>9
            <4> QED BY <2>5, <4>1, <4>2 DEF SentTo, EofStates
        <3>4. Straight(NumChunks, NumChunks + 2)'
            <4>1. srv' \notin EofStates /\ ~(NumChunks < NumChunks) /\ ~(NumChunks + 2 <= NumChunks + 1)
                BY <1>2, <2>5 DEF EofStates
            <4> QED BY <1>1, <1>4, <3>1, <3>2, <3>3, <4>1 DEF Straight, EofLoad, c
        <3>5. NumChunks \in 0..NumChunks /\ NumChunks + 2 \in 0..(NumChunks + 2) /\ srv' \notin Stopped
            BY <1>2, <2>5 DEF Stopped
        <3> QED BY <3>4, <3>5 DEF OneLoss
    <2>10. CASE h = NumChunks
        <3>1. WindowFull'
            BY <2>1, <2>5 DEF WindowFull
        <3>2. Again'
            BY <1>1, <1>2, <1>4, <2>1, <2>3, <2>7, <2>8, <2>10, <3>1 DEF Again
        <3> QED BY <2>5, <3>2 DEF OneLoss, Stopped
    <2> QED BY <2>3, <2>9, <2>10
<1>7. CASE EofTimeout
    <2>1. srv = "EOF_POLL" /\ UNCHANGED <<window, filePos, toClient, toServer>> /\ attempts' = attempts + 1
          /\ srv' = IF attempts + 1 >= MaxAttempts THEN "DONE" ELSE "WAIT_EOF_ACK"
        BY <1>7 DEF EofTimeout, netVars
    <2>2. Load = 0
        <3>1. UnderWay = 0 + 0 + One(srv = "WAIT_EOF_ACK") /\ Kept = 0
            BY <1>1, <1>2, <1>4, Loads
        <3> QED BY <2>1, <3>1 DEF Load, One
    <2>3. srv \in EofStates
        BY <2>1 DEF EofStates
    <2>4. h = NumChunks /\ attempts = 0
        <3>1. Missing(h) <= 0 /\ (0 >= 1 \/ attempts = 0)
            BY <1>4, <2>2, <2>3 DEF EofLoad
        <3> QED BY <1>2, <1>5, <3>1
    <2>5. srv' = "WAIT_EOF_ACK"
        BY <1>2, <2>1, <2>4
    <2>6. Load' = 1
        <3>1. UnderWay' = 0 + 0 + 1
            BY <1>2, <2>1, <2>5 DEF UnderWay
        <3>2. Kept' = 0
            BY <1>1, <1>4 DEF Kept
        <3> QED BY <3>1, <3>2 DEF Load
    <2>7. EofLoad(Missing(h), 2 * Missing(h))'
        <3>1. Missing(h) = 0
            BY <1>2, <1>5, <2>4
        <3> QED BY <1>2, <2>6, <3>1 DEF EofLoad, Missing
    <2>8. SentTo(buffer.current + Len(toClient) + Missing(h))'
        BY <1>1, <1>2, <1>4, <2>1, <2>3, <2>5 DEF SentTo, EofStates, Missing
    <2>9. Straight(h, b)'
        <3>1. AcksBut(b)' /\ DataIn(toClient', buffer'.current, h)
            BY <1>1, <1>3, <2>1 DEF AcksBut, Straight
        <3>2. Load' >= 1 /\ srv' # "WINDOW_FULL"
            BY <2>5, <2>6
        <3> QED BY <1>1, <1>4, <2>4, <2>7, <2>8, <3>1, <3>2 DEF Straight
    <2> QED BY <2>5, <2>9 DEF OneLoss, Stopped
<1> QED BY <1>6, <1>7 DEF ServerTimeout

------------------------------------------------------------------------------
(***************************************************************************)
(* A step of rcopy in each mode.                                           *)
(***************************************************************************)

\* An acknowledgment that is not lost is the last of its queue.
LEMMA AckDelivered ==
    ASSUME TypeOK, Len(toServer) < QueueCap, NEW p \in ServerBound, SendToServer(p), faults' = faults
    PROVE  /\ toServer' = Append(toServer, p) /\ Len(toServer') = Len(toServer) + 1
           /\ toServer'[Len(toServer) + 1] = p
           /\ \A i \in 1..Len(toServer) : toServer'[i] = toServer[i]
<1>1. PICK fate \in Fates(ClientErrors) :
          faults' = faults + Cost(fate) /\ toServer' = Put(toServer, fate, p)
    BY DEF SendToServer
<1>2. fate = "sent"
    <2>1. faults \in Nat /\ (fate # "sent" => faults' = faults + 1)
        BY <1>1, Edges DEF Cost
    <2> QED BY <2>1
<1>3. toServer \in Seq(ServerBound) /\ Len(toServer) \in Nat
    BY Lengths
<1>4. toServer' = Append(toServer, p)
    BY <1>1, <1>2, <1>3, Delivered
<1> QED BY <1>3, <1>4, Appended

\* The next RR joins the others.
LEMMA AcksSent ==
    ASSUME RingInv, UNCHANGED window, NEW b, AcksBut(b), buffer.current <= NumChunks,
           buffer'.current = buffer.current + 1,
           SendToServer(RR(buffer'.current)), faults' = faults, Len(toServer) < QueueCap
    PROVE  AcksBut(b)' /\ Len(toServer') = Len(toServer) + 1
<1> DEFINE l == window.lowest
           c == buffer.current
           y == Len(toServer)
           n == c + 1
<1>1. /\ TypeOK /\ l \in Nat /\ c \in Nat /\ y \in Nat /\ NumChunks \in Nat /\ l <= c /\ c <= NumChunks
      /\ toServer \in Seq(ServerBound)
    BY RingFacts, Edges, Lengths
<1>2. /\ b \in (l + 1)..(NumChunks + 2)
      /\ b <= c \/ b = NumChunks + 2
      /\ y = c - l - One(b <= c)
      /\ RRsIn(toServer, l, b)
    BY DEF AcksBut
<1>3. n \in Nat /\ RR(n) \in ServerBound
    BY <1>1, AckType
<1>4. toServer' = Append(toServer, RR(n)) /\ Len(toServer') = y + 1
    BY <1>1, <1>3, AckDelivered
<1> HIDE DEF l, c, y
<1>5. n = Skip(l + y + 1, b) /\ b \in Nat
    BY <1>1, <1>2 DEF Skip, One
<1>6. RRsIn(Append(toServer, RR(n)), l, b)
    BY <1>1, <1>2, <1>3, <1>5, RRsAdded DEF y
<1>7. y + 1 = n - l - One(b <= n) /\ (b <= n \/ b = NumChunks + 2)
    BY <1>1, <1>2 DEF One
<1> HIDE DEF n
<1>8. buffer'.current = n /\ window'.lowest = l
    BY DEF n, c, l
<1> QED BY <1>2, <1>4, <1>6, <1>7, <1>8 DEF AcksBut

\* rcopy takes the packet it expects.
LEMMA Writes ==
    ASSUME RingInv, UNCHANGED serverVars, NEW b, AcksBut(b), WriteInorder, faults' = faults,
           Len(toServer) < QueueCap, buffer.current <= NumChunks
    PROVE  /\ AcksBut(b)' /\ Len(toServer') = Len(toServer) + 1
           /\ buffer'.current = buffer.current + 1
           /\ rcv = "INORDER" /\ rcv' = "INORDER"
           /\ toClient # <<>> /\ toClient' = Tail(toClient) /\ Len(toClient') = Len(toClient) - 1
           /\ Load' = Load
<1>1. TypeOK /\ buffer \in CircularBuffer /\ UNCHANGED <<window, srv>>
    BY RingFacts, Edges DEF serverVars
<1>2. /\ rcv = "INORDER" /\ rcv' = rcv /\ toClient # <<>> /\ toClient' = Tail(toClient)
      /\ buffer' = [buffer EXCEPT !.highest = buffer.current, !.current = @ + 1]
      /\ SendToServer(RR(buffer'.current))
    BY DEF WriteInorder, Accepted, Received
<1>3. buffer'.current = buffer.current + 1
    BY <1>1, <1>2, NextExpected
<1>4. AcksBut(b)' /\ Len(toServer') = Len(toServer) + 1
    BY <1>1, <1>2, <1>3, AcksSent
<1>5. Len(toClient') = Len(toClient) - 1 /\ Len(toClient) \in Nat /\ Len(toServer) \in Nat
    BY <1>1, <1>2, Lengths, HeadAndTail
<1>6. Load' = Load
    <2>1. UnderWay' = UnderWay
        BY <1>1, <1>4, <1>5 DEF UnderWay
    <2>2. Kept' = 0 /\ Kept = 0
        BY <1>2 DEF Kept
    <2> QED BY <2>1, <2>2 DEF Load
<1> QED BY <1>2, <1>3, <1>4, <1>5, <1>6

\* The numbers next to the one that is missing.
LEMMA SeqAt ==
    ASSUME NEW c \in Nat, NEW h \in 0..NumChunks
    PROVE  /\ SeqOf(Skip(c, h)) \in Nat
           /\ h = NumChunks => SeqOf(Skip(c, h)) = SeqOf(c)
           /\ SeqOf(c) = IF c < NumChunks THEN c ELSE NumChunks
           /\ h < NumChunks /\ c < h => SeqOf(Skip(c, h)) = c
           /\ h < NumChunks /\ c = h => SeqOf(Skip(c, h)) = c + 1
BY ServerAssumption DEF SeqOf, Skip

\* A step of rcopy while everything behind the loss is in order.
LEMMA StraightClient ==
    ASSUME RoomForRepair, RingInv, faults' = faults, ClientStep, UNCHANGED serverVars, rcv' \notin Gone,
           NEW h \in 0..NumChunks, NEW b \in 0..(NumChunks + 2), Straight(h, b)
    PROVE  (\E g \in 0..NumChunks, a \in 0..(NumChunks + 2) : Straight(g, a)') \/ GapAsked'
<1> DEFINE l == window.lowest
           c == buffer.current
           n == window.current
           x == Len(toClient)
           y == Len(toServer)
           p == Head(toClient)
<1>1. TypeOK /\ UNCHANGED <<window, filePos, srv, attempts>> /\ buffer \in CircularBuffer
    BY RingFacts, Edges DEF serverVars
<1>2. /\ l \in Nat /\ c \in Nat /\ n \in Nat /\ x \in Nat /\ y \in Nat /\ NumChunks \in Nat
      /\ QueueCap \in Nat /\ WindowSize \in Nat /\ WindowSize < QueueCap
      /\ l <= c /\ c <= NumChunks + 1 /\ n <= NumChunks /\ n <= l + WindowSize
      /\ toClient \in Seq(ClientBound) /\ toServer \in Seq(ServerBound)
    BY <1>1, Edges, Lengths, RingFacts DEF RoomForRepair
<1>3. /\ rcv = "INORDER"
      /\ h = NumChunks \/ (c <= h /\ h < NumChunks /\ h < n /\ b = NumChunks + 2)
      /\ DataIn(toClient, c, h)
      /\ AcksBut(b)
      /\ IF srv \in EofStates
         THEN n = NumChunks /\ NumChunks <= c + x + Missing(h)
         ELSE n = c + x + Missing(h)
      /\ EofLoad(Missing(h), 2 * Missing(h))
      /\ srv \in EofStates => Load >= 1 \/ attempts = 0
      /\ srv = "WINDOW_FULL" /\ (h < NumChunks \/ b <= NumChunks + 1) => attempts = 0
    BY DEF Straight, SentTo
<1>4. WriteInorder \/ GapFound \/ AckAgain("INORDER") \/ DropCorrupted("INORDER")
    BY <1>3 DEF ClientStep, handle_inorder, handle_buffer, handle_flush, FlushEntry, FlushEnd,
                DropCorrupted, ExitTransfer, FillGap, StoreEarly, AckAgain, Accepted, Received, Gone
<1>5. /\ toClient # <<>> /\ toClient' = Tail(toClient)
      /\ (WriteInorder \/ GapFound \/ AckAgain("INORDER")) => p # Corrupted /\ ~IsLastEof(p)
      /\ DropCorrupted("INORDER") => p = Corrupted
    BY <1>4 DEF WriteInorder, GapFound, AckAgain, DropCorrupted, Accepted, Received, BadChecksum
<1>6. /\ p # Corrupted /\ p.seq = SeqOf(Skip(c, h))
      /\ p.seq = NumChunks => p.flag = FLAG_EOF
      /\ \A to \in Nat, g \in Nat : Alike(c + 1, h, to, g) => DataIn(Tail(toClient), to, g)
    <2>1. h \in Nat /\ c \in Nat /\ toClient # <<>> /\ toClient \in Seq(ClientBound)
        BY <1>2, <1>5
    <2> HIDE DEF c
    <2> QED BY <1>3, <2>1, DataTaken
<1>7. Missing(h) = IF h < NumChunks THEN 1 ELSE 0
    BY DEF Missing, One
<1>8. x >= 1 /\ Len(toClient') = x - 1
    BY <1>2, <1>5, HeadAndTail
<1>9. y <= c - l /\ (b = NumChunks + 2 => y = c - l)
    <2>1. b \in (l + 1)..(NumChunks + 2) /\ y = c - l - One(b <= c)
        BY <1>3 DEF AcksBut
    <2> HIDE DEF l, c, y
    <2> QED BY <1>2, <2>1 DEF One
<1>10. Load = x + y + One(srv = "WAIT_EOF_ACK") /\ One(srv = "WAIT_EOF_ACK") \in Nat
    <2>1. UnderWay = x + y + One(srv = "WAIT_EOF_ACK") /\ UnderWay \in Nat /\ Kept = 0
        BY <1>1, <1>3, Loads
    <2>2. One(srv = "WAIT_EOF_ACK") \in Nat
        BY DEF One
    <2> QED BY <2>1, <2>2 DEF Load
<1> HIDE DEF l, c, n, x, y, p
<1>16. /\ h = NumChunks => p.seq = IF c < NumChunks THEN c ELSE NumChunks
       /\ h < NumChunks /\ c < h => p.seq = c
       /\ h < NumChunks /\ c = h => p.seq = c + 1
    BY <1>2, <1>6, SeqAt
<1>11. y < QueueCap
    <2>1. CASE srv \in EofStates
        <3>1. Load + 2 * Missing(h) <= QueueCap
            BY <1>3, <2>1 DEF EofLoad
        <3>2. Load <= QueueCap
            BY <1>2, <1>7, <1>10, <3>1
        <3> QED BY <1>2, <1>8, <1>10, <3>2
    <2>2. CASE srv \notin EofStates
        BY <1>2, <1>3, <1>7, <1>8, <1>9, <2>2
    <2> QED BY <2>1, <2>2
<1>12. CASE WriteInorder
    <2>1. p.seq = c
        BY <1>12 DEF WriteInorder, p, c
    <2>2. c <= NumChunks /\ (h = NumChunks \/ c < h)
        BY <1>2, <1>3, <2>1, <1>16
    <2>3. /\ AcksBut(b)' /\ Len(toServer') = y + 1
          /\ buffer'.current = c + 1
          /\ rcv' = "INORDER"
          /\ Load' = Load
        BY <1>3, <1>11, <1>12, <2>2, Writes DEF y, c
    <2>4. DataIn(toClient', c + 1, h)
        <3>1. c + 1 \in Nat /\ h \in Nat
            BY <1>2
        <3>2. Alike(c + 1, h, c + 1, h)
            BY DEF Alike
        <3> QED BY <1>5, <1>6, <3>1, <3>2
    <2>5. h = NumChunks \/ (c + 1 <= h /\ h < NumChunks /\ h < n /\ b = NumChunks + 2)
        BY <1>2, <1>3, <2>2
    <2>6. /\ window'.current = n
          /\ IF srv' \in EofStates
             THEN n = NumChunks /\ NumChunks <= (c + 1) + (x - 1) + Missing(h)
             ELSE n = (c + 1) + (x - 1) + Missing(h)
        <3>1. Missing(h) \in Nat
            BY <1>7
        <3>2. (c + 1) + (x - 1) + Missing(h) = c + x + Missing(h)
            BY <1>2, <3>1
        <3> QED BY <1>1, <1>3, <3>2 DEF n
    <2>7. SentTo(buffer.current + Len(toClient) + Missing(h))'
        BY <1>8, <2>3, <2>6 DEF SentTo, Missing
    <2>8. EofLoad(Missing(h), 2 * Missing(h))'
        BY <1>1, <1>3, <2>3 DEF EofLoad, Missing
    <2>9. Straight(h, b)'
        BY <1>1, <1>3, <2>3, <2>4, <2>5, <2>6, <2>7, <2>8 DEF Straight
    <2> QED BY <2>9
<1>13. CASE GapFound
    <2>1. /\ p.seq > c
          /\ SendToServer(SREJ(c))
          /\ buffer' = Stored(buffer, p)
          /\ rcv' = "BUFFER"
        BY <1>13 DEF GapFound, p, c
    <2>2. h < NumChunks /\ c = h /\ b = NumChunks + 2 /\ p.seq = h + 1 /\ y = c - l
        BY <1>2, <1>3, <1>9, <2>1, <1>16
    <2>3. /\ toServer' = Append(toServer, SREJ(c)) /\ Len(toServer') = y + 1
          /\ toServer'[y + 1] = SREJ(c)
          /\ \A i \in 1..y : toServer'[i] = toServer[i]
        BY <1>1, <1>2, <1>11, <2>1, AckDelivered, AckType DEF y
    <2>4. /\ buffer'.highest = h + 1 /\ buffer'.current = c
          /\ buffer'.entries = [buffer.entries EXCEPT ![Slot(h + 1)] =
                    [valid_flag |-> TRUE, sequence_num |-> h + 1, data |-> p.data]]
        <3>1. p.seq \in Nat /\ p.data \in Payload
            BY <1>2, <1>5, HeadAndTail, ClientPacket DEF p
        <3> QED BY <1>1, <2>1, <2>2, <3>1, StoredBuffer DEF c
    <2>5. FilledFrom(buffer.current + 1)'
        <3>1. ASSUME NEW s \in (buffer'.current + 1)..buffer'.highest
              PROVE  Filled(s)'
            <4>1. s = h + 1
                BY <1>2, <2>2, <2>4
            <4>2. Slot(h + 1) \in Slots /\ buffer.entries \in [Slots -> BufferEntry]
                BY <1>1, <1>2, SlotInRange DEF CircularBuffer
            <4> QED BY <2>4, <4>1, <4>2 DEF Filled, Entry
        <3> QED BY <3>1 DEF FilledFrom, Filled
    <2>6. DataIn(toClient', h + 2, NumChunks)
        <3>1. ASSUME NEW j \in Nat
              PROVE  SeqOf(Skip(c + 1 + j, h)) = SeqOf(Skip(h + 2 + j, NumChunks))
            <4>1. Skip(c + 1 + j, h) = h + 2 + j /\ h + 2 + j \in Nat
                BY <1>2, <2>2 DEF Skip
            <4> QED BY <4>1, SeqOfSkip
        <3>2. h + 2 \in Nat /\ Alike(c + 1, h, h + 2, NumChunks)
            BY <1>2, <3>1 DEF Alike
        <3> QED BY <1>2, <1>5, <1>6, <3>2
    <2>7. \A i \in 1..y : toServer'[i] = RR(l + i)
        <3>1. ASSUME NEW i \in 1..y
              PROVE  toServer'[i] = RR(l + i)
            <4>1. toServer[i] = RR(Skip(l + i, b))
                BY <1>3, <3>1 DEF AcksBut, RRsIn, l, y
            <4>2. Skip(l + i, b) = l + i
                BY <1>2, <2>2 DEF Skip
            <4> QED BY <2>3, <4>1, <4>2
        <3> QED BY <3>1
    <2>8. SentTo(buffer.highest + 1 + Len(toClient))'
        <3>1. c + x + 1 = (h + 1) + 1 + (x - 1)
            BY <1>2, <2>2
        <3>2. IF srv' \in EofStates
              THEN window'.current = NumChunks /\ NumChunks <= (h + 1) + 1 + (x - 1)
              ELSE window'.current = (h + 1) + 1 + (x - 1)
            BY <1>1, <1>3, <1>7, <2>2, <3>1 DEF n
        <3> QED BY <1>8, <2>4, <3>2 DEF SentTo
    <2>9. EofLoad(1, 1)'
        <3>1. ASSUME srv \in EofStates
              PROVE  1 <= Load' /\ Load' + 1 <= QueueCap
            <4>1. 1 <= Load /\ Load + 2 <= QueueCap
                BY <1>2, <1>3, <1>7, <1>10, <2>2, <3>1 DEF EofLoad
            <4>2. Kept' = (h + 1) - c
                BY <2>1, <2>4 DEF Kept
            <4>3. UnderWay' = (x - 1) + (y + 1) + One(srv = "WAIT_EOF_ACK")
                BY <1>1, <1>8, <2>3 DEF UnderWay, One
            <4>4. Load' = Load + 1
                BY <1>2, <1>10, <2>2, <4>2, <4>3 DEF Load
            <4> QED BY <1>2, <1>10, <4>1, <4>4
        <3> QED BY <1>1, <3>1 DEF EofLoad
    <2>10. /\ Len(toServer') = buffer'.current - window'.lowest + 1
           /\ \A i \in 1..(Len(toServer') - 1) : toServer'[i] = RR(window'.lowest + i)
           /\ toServer'[Len(toServer')] = SREJ(buffer'.current)
        <3>1. (y + 1) - 1 = y /\ y + 1 = c - l + 1 /\ window'.lowest = l
            BY <1>1, <1>2, <2>2 DEF l
        <3> QED BY <2>3, <2>4, <2>7, <3>1
    <2>11. buffer'.highest > buffer'.current /\ DataIn(toClient', buffer'.highest + 1, NumChunks)
        <3>1. h + 1 + 1 = h + 2 /\ h + 1 > c
            BY <1>2, <2>2
        <3> QED BY <2>4, <2>6, <3>1
    <2>12. srv' = "WINDOW_FULL" => attempts' = 0
        BY <1>1, <1>3, <2>2
    <2>13. GapAsked'
        BY <2>1, <2>5, <2>8, <2>9, <2>10, <2>11, <2>12 DEF GapAsked
    <2> QED BY <2>13
<1>14. CASE AckAgain("INORDER")
    <2>1. p.seq < c /\ ~IsLastEof(p)
        BY <1>5, <1>14 DEF AckAgain, p, c
    <2>2. c = NumChunks + 1 /\ p.seq = NumChunks
        BY <1>2, <1>3, <2>1, <1>16
    <2>3. IsLastEof(p)
        BY <1>6, <2>1, <2>2 DEF IsLastEof, c
    <2> QED BY <2>1, <2>3
<1>15. ~DropCorrupted("INORDER")
    BY <1>5, <1>6
<1> QED BY <1>4, <1>12, <1>13, <1>14, <1>15

\* A step of rcopy while a damaged packet is on its way.
LEMMA DamagedClient ==
    ASSUME RoomForRepair, RingInv, faults' = faults, ClientStep, UNCHANGED serverVars, rcv' \notin Gone,
           NEW k \in 1..Len(toClient), Damaged(k)
    PROVE  \/ \E g \in 0..NumChunks : Straight(g, NumChunks + 2)'
           \/ k - 1 \in 1..Len(toClient') /\ Damaged(k - 1)'
<1> DEFINE l == window.lowest
           c == buffer.current
           n == window.current
           x == Len(toClient)
           y == Len(toServer)
           p == Head(toClient)
<1>1. TypeOK /\ UNCHANGED <<window, filePos, srv, attempts>> /\ buffer \in CircularBuffer
    BY RingFacts, Edges DEF serverVars
<1>2. /\ l \in Nat /\ c \in Nat /\ n \in Nat /\ x \in Nat /\ y \in Nat /\ NumChunks \in Nat /\ k \in 1..x
      /\ QueueCap \in Nat /\ WindowSize \in Nat /\ WindowSize < QueueCap
      /\ l <= c /\ c <= NumChunks + 1 /\ n <= NumChunks /\ n <= l + WindowSize
      /\ toClient \in Seq(ClientBound) /\ toServer \in Seq(ServerBound)
    BY <1>1, Edges, Lengths, RingFacts DEF RoomForRepair
<1>3. /\ rcv = "INORDER"
      /\ toClient[k] = Corrupted
      /\ \A i \in 1..x : i # k =>
           /\ toClient[i] # Corrupted
           /\ toClient[i].seq = SeqOf(c + (i - 1))
           /\ toClient[i].seq = NumChunks => toClient[i].flag = FLAG_EOF
      /\ AcksBut(NumChunks + 2)
      /\ IF srv \in EofStates
         THEN n = NumChunks /\ NumChunks <= c + x
         ELSE n = c + x
      /\ EofLoad(1, 0)
      /\ srv \in EofStates => (Load >= 2 /\ Load + 1 <= QueueCap) \/ NumChunks <= c + k - 1
      /\ FirstTry
    BY DEF Damaged, SentTo
<1>4. WriteInorder \/ GapFound \/ AckAgain("INORDER") \/ DropCorrupted("INORDER")
    BY <1>3 DEF ClientStep, handle_inorder, handle_buffer, handle_flush, FlushEntry, FlushEnd,
                DropCorrupted, ExitTransfer, FillGap, StoreEarly, AckAgain, Accepted, Received, Gone
<1>5. /\ toClient # <<>> /\ toClient' = Tail(toClient)
      /\ (WriteInorder \/ GapFound \/ AckAgain("INORDER")) => p # Corrupted /\ ~IsLastEof(p)
      /\ DropCorrupted("INORDER") => p = Corrupted /\ UNCHANGED <<buffer, rcv, toServer>>
    BY <1>4 DEF WriteInorder, GapFound, AckAgain, DropCorrupted, Accepted, Received, BadChecksum, rcopyVars
<1>6. /\ p = toClient[1] /\ 1 \in 1..x /\ Len(toClient') = x - 1
      /\ \A i \in 1..(x - 1) : i + 1 \in 1..x /\ toClient'[i] = toClient[i + 1]
    BY <1>2, <1>5, HeadAndTail
<1>7. y = c - l
    <2>1. y = c - l - One(NumChunks + 2 <= c)
        BY <1>3 DEF AcksBut
    <2> HIDE DEF l, c, y
    <2> QED BY <1>2, <2>1 DEF One
<1>8. Load = x + y + One(srv = "WAIT_EOF_ACK") /\ One(srv = "WAIT_EOF_ACK") \in Nat
    <2>1. UnderWay = x + y + One(srv = "WAIT_EOF_ACK") /\ UnderWay \in Nat /\ Kept = 0
        BY <1>1, <1>3, Loads
    <2>2. One(srv = "WAIT_EOF_ACK") \in Nat
        BY DEF One
    <2> QED BY <2>1, <2>2 DEF Load
<1> HIDE DEF l, c, n, x, y, p
<1>9. y < QueueCap
    <2>1. CASE srv \in EofStates
        <3>1. Load <= QueueCap
            BY <1>2, <1>3, <1>8, <2>1 DEF EofLoad
        <3> QED BY <1>2, <1>6, <1>8, <3>1
    <2>2. CASE srv \notin EofStates
        BY <1>2, <1>3, <1>6, <1>7, <2>2
    <2> QED BY <2>1, <2>2
<1>10. CASE k # 1
    <2>1. /\ p # Corrupted /\ p.seq = SeqOf(c)
          /\ p.seq = NumChunks => p.flag = FLAG_EOF
        <3>1. c + (1 - 1) = c
            BY <1>2
        <3> QED BY <1>3, <1>6, <1>10, <3>1
    <2>2. p.seq = IF c < NumChunks THEN c ELSE NumChunks
        BY <2>1 DEF SeqOf
    <2>3. WriteInorder /\ c <= NumChunks
        <3>1. c <= NumChunks
            <4>1. SUFFICES ASSUME c = NumChunks + 1
                           PROVE  FALSE
                BY <1>2
            <4>2. IsLastEof(p)
                BY <1>2, <2>1, <2>2, <4>1 DEF IsLastEof, c
            <4> QED BY <1>4, <1>5, <2>1, <4>2
        <3>2. p.seq = c
            BY <1>2, <2>2, <3>1
        <3> QED BY <1>2, <1>4, <1>5, <2>1, <3>1, <3>2 DEF GapFound, AckAgain, p, c
    <2>4. /\ AcksBut(NumChunks + 2)' /\ Len(toServer') = y + 1
          /\ buffer'.current = c + 1
          /\ rcv' = "INORDER"
          /\ Load' = Load
        BY <1>3, <1>9, <2>3, Writes DEF y, c
    <2>5. k - 1 \in 1..Len(toClient') /\ toClient'[k - 1] = Corrupted
        <3>1. k - 1 \in 1..(x - 1) /\ (k - 1) + 1 = k
            BY <1>2, <1>10
        <3> QED BY <1>3, <1>6, <3>1
    <2>6. ASSUME NEW i \in 1..Len(toClient'), i # k - 1
          PROVE  /\ toClient'[i] # Corrupted
                 /\ toClient'[i].seq = SeqOf(buffer'.current + (i - 1))
                 /\ toClient'[i].seq = NumChunks => toClient'[i].flag = FLAG_EOF
        <3>1. i \in 1..(x - 1) /\ i + 1 # k /\ c + ((i + 1) - 1) = (c + 1) + (i - 1)
            <4>1. i \in 1..(x - 1)
                BY <1>6
            <4>2. i + 1 # k
                BY <1>2, <2>6, <4>1
            <4>3. c + ((i + 1) - 1) = (c + 1) + (i - 1)
                BY <1>2, <4>1
            <4> QED BY <4>1, <4>2, <4>3
        <3> QED BY <1>3, <1>6, <2>4, <3>1
    <2>7. SentTo(buffer.current + Len(toClient))'
        <3>1. (c + 1) + (x - 1) = c + x
            BY <1>2
        <3>2. IF srv' \in EofStates
              THEN window'.current = NumChunks /\ NumChunks <= (c + 1) + (x - 1)
              ELSE window'.current = (c + 1) + (x - 1)
            BY <1>1, <1>3, <3>1 DEF n
        <3> QED BY <1>6, <2>4, <3>2 DEF SentTo
    <2>8. EofLoad(1, 0)' /\ FirstTry'
        BY <1>1, <1>3, <2>4 DEF EofLoad, FirstTry
    <2>9. srv' \in EofStates =>
            (Load' >= 2 /\ Load' + 1 <= QueueCap) \/ NumChunks <= buffer'.current + (k - 1) - 1
        <3>1. c + k - 1 = (c + 1) + (k - 1) - 1
            BY <1>2
        <3> QED BY <1>1, <1>3, <2>4, <3>1
    <2> QED BY <2>4, <2>5, <2>6, <2>7, <2>8, <2>9 DEF Damaged
<1>11. CASE k = 1
    <2>1. DropCorrupted("INORDER") /\ UNCHANGED <<buffer, rcv, toServer>>
        BY <1>3, <1>4, <1>5, <1>6, <1>11
    <2>2. /\ AcksBut(NumChunks + 2)' /\ buffer'.current = c /\ rcv' = "INORDER"
          /\ Load' = x - 1 + y + One(srv = "WAIT_EOF_ACK")
        <3>1. UnderWay' = (x - 1) + y + One(srv = "WAIT_EOF_ACK") /\ Kept' = 0
            BY <1>1, <1>3, <1>6, <2>1 DEF UnderWay, One, Kept, y
        <3>2. Load' = x - 1 + y + One(srv = "WAIT_EOF_ACK")
            BY <1>2, <1>8, <3>1 DEF Load
        <3>3. window' = window /\ buffer' = buffer /\ toServer' = toServer /\ AcksBut(NumChunks + 2)
            BY <1>1, <1>3, <2>1
        <3> QED BY <1>3, <2>1, <3>2, <3>3 DEF AcksBut, c
    <2>3. Load' = Load - 1
        BY <1>2, <1>8, <2>2
    <2>4. ASSUME NEW i \in 1..(x - 1)
          PROVE  /\ toClient'[i] # Corrupted
                 /\ toClient'[i].seq = SeqOf(c + i)
                 /\ toClient'[i].seq = NumChunks => toClient'[i].flag = FLAG_EOF
        <3>1. i + 1 \in 1..x /\ i + 1 # k /\ c + ((i + 1) - 1) = c + i
            <4>1. i + 1 \in 1..x
                BY <1>6
            <4>2. i + 1 # k
                BY <1>2, <1>11, <4>1
            <4>3. c + ((i + 1) - 1) = c + i
                BY <1>2
            <4> QED BY <4>1, <4>2, <4>3
        <3> QED BY <1>3, <1>6, <3>1
    <2>5. CASE c < NumChunks
        <3>1. ASSUME NEW i \in 1..(x - 1)
              PROVE  Skip(c + (i - 1), c) = c + i
            BY <1>2, <3>1 DEF Skip
        <3>2. DataIn(toClient', c, c)
            BY <1>6, <2>4, <3>1 DEF DataIn
        <3>3. c < n
            BY <1>2, <1>3, <1>6, <2>5
        <3>4. PICK h \in 0..NumChunks : h = c
            BY <1>2, <2>5
        <3>5. Missing(h) = 1
            BY <2>5, <3>4 DEF Missing, One
        <3>6. SentTo(buffer.current + Len(toClient) + Missing(h))'
            <4>1. c + (x - 1) + 1 = c + x
                BY <1>2
            <4>2. Missing(h)' = 1
                BY <3>5 DEF Missing
            <4>3. IF srv' \in EofStates
                  THEN window'.current = NumChunks /\ NumChunks <= c + (x - 1) + 1
                  ELSE window'.current = c + (x - 1) + 1
                BY <1>1, <1>3, <4>1 DEF n
            <4> QED BY <1>6, <2>2, <4>2, <4>3 DEF SentTo
        <3>7. srv' \in EofStates => 1 <= Load' /\ Load' + 2 <= QueueCap
            <4>1. srv \in EofStates => Load >= 2 /\ Load + 1 <= QueueCap
                <5>1. ~(NumChunks <= c + k - 1)
                    BY <1>2, <1>11, <2>5
                <5> QED BY <1>3, <5>1
            <4>2. Load \in Nat
                BY <1>2, <1>8
            <4> QED BY <1>1, <1>2, <2>3, <4>1, <4>2
        <3>8. EofLoad(Missing(h), 2 * Missing(h))'
            BY <3>5, <3>7 DEF EofLoad, Missing
        <3>9. srv' = "WINDOW_FULL" => attempts' = 0
            BY <1>1, <1>3 DEF FirstTry
        <3>10. srv' \in EofStates => Load' >= 1 \/ attempts' = 0
            BY <1>1, <1>3 DEF FirstTry
        <3>11. h = NumChunks \/ (buffer'.current <= h /\ h < NumChunks /\ h < window'.current
                                     /\ NumChunks + 2 = NumChunks + 2)
            BY <1>1, <1>2, <2>2, <2>5, <3>3, <3>4 DEF n
        <3>12. Straight(h, NumChunks + 2)'
            BY <2>2, <3>2, <3>4, <3>6, <3>8, <3>9, <3>10, <3>11 DEF Straight
        <3> QED BY <3>12
    <2>6. CASE c >= NumChunks
        <3>1. srv \in EofStates
            BY <1>2, <1>3, <1>6, <2>6
        <3>2. ASSUME NEW i \in 1..(x - 1)
              PROVE  SeqOf(Skip(c + (i - 1), NumChunks)) = SeqOf(c + i)
            BY <1>2, <2>6 DEF Skip, SeqOf
        <3>3. DataIn(toClient', c, NumChunks)
            BY <1>6, <2>4, <3>2 DEF DataIn
        <3>4. Missing(NumChunks) = 0
            BY <1>2 DEF Missing, One
        <3>5. SentTo(buffer.current + Len(toClient) + Missing(NumChunks))'
            <4>1. NumChunks <= c + (x - 1) + 0
                BY <1>2, <1>6, <2>6
            <4>2. window'.current = NumChunks /\ srv' \in EofStates
                BY <1>1, <1>3, <3>1 DEF n
            <4> QED BY <1>6, <2>2, <3>4, <4>1, <4>2 DEF SentTo
        <3>6. EofLoad(0, 0)'
            <4>1. 1 <= Load /\ Load + 0 <= QueueCap /\ Load \in Nat
                BY <1>2, <1>3, <1>8, <3>1 DEF EofLoad
            <4>2. 0 <= Load' /\ Load' + 0 <= QueueCap
                BY <1>2, <2>3, <4>1
            <4> QED BY <4>2 DEF EofLoad
        <3>7. EofLoad(Missing(NumChunks), 2 * Missing(NumChunks))'
            BY <3>4, <3>6 DEF EofLoad
        <3>8. srv' # "WINDOW_FULL" /\ attempts' = 0
            BY <1>1, <1>3, <3>1 DEF FirstTry, EofStates
        <3>9. Straight(NumChunks, NumChunks + 2)'
            BY <2>2, <3>3, <3>5, <3>7, <3>8 DEF Straight
        <3>10. NumChunks \in 0..NumChunks
            BY <1>2
        <3> QED BY <3>9, <3>10
    <2> QED BY <1>2, <2>5, <2>6
<1> QED BY <1>10, <1>11

\* What rcopy holds without a gap stays, when it stores the next packet.
LEMMA Stores ==
    ASSUME RingInv, UNCHANGED serverVars, StoreEarly,
           buffer.highest > buffer.current, FilledFrom(buffer.current + 1),
           Head(toClient).seq = SeqOf(buffer.highest + 1)
    PROVE  /\ rcv = "BUFFER" /\ rcv' = "BUFFER" /\ toServer' = toServer
           /\ toClient # <<>> /\ toClient' = Tail(toClient)
           /\ buffer'.current = buffer.current
           /\ buffer'.highest = SeqOf(buffer.highest + 1)
           /\ buffer.highest = NumChunks \/ buffer'.highest = buffer.highest + 1
           /\ buffer.highest <= buffer'.highest
           /\ FilledFrom(buffer.current + 1)'
<1> DEFINE c == buffer.current
           hi == buffer.highest
           p == Head(toClient)
           m == SeqOf(hi + 1)
<1>1. TypeOK /\ UNCHANGED <<window, filePos, srv, attempts>> /\ buffer \in CircularBuffer
    BY RingFacts, Edges DEF serverVars
<1>2. /\ rcv = "BUFFER" /\ rcv' = rcv /\ toServer' = toServer
      /\ toClient # <<>> /\ toClient' = Tail(toClient) /\ ~BadChecksum(p)
      /\ buffer' = Stored(buffer, p)
    BY DEF StoreEarly, Accepted, Received
<1>3. /\ c \in Nat /\ hi \in Nat /\ NumChunks \in Nat /\ WindowSize \in Nat
      /\ hi <= NumChunks /\ toClient \in Seq(ClientBound)
    BY <1>1, Edges, Lengths, RingFacts
<1>4. m \in Nat /\ m = IF hi < NumChunks THEN hi + 1 ELSE NumChunks
    BY <1>3 DEF SeqOf
<1>5. p.seq = m /\ p.data \in Payload /\ p.seq \in Nat /\ p = toClient[1] /\ 1 \in 1..Len(toClient)
    BY <1>2, <1>3, HeadAndTail, ClientPacket
<1>6. m <= c + WindowSize
    <2>1. p # Corrupted => p.seq <= buffer.current + WindowSize
        BY <1>5 DEF RingInv, ShelteredInv, DataInv
    <2> QED BY <1>2, <1>5, <2>1 DEF BadChecksum
<1>7. /\ buffer'.current = c /\ buffer'.highest = m
      /\ buffer'.entries = [buffer.entries EXCEPT ![Slot(m)] =
                    [valid_flag |-> TRUE, sequence_num |-> m, data |-> p.data]]
    BY <1>1, <1>2, <1>5, StoredBuffer
<1> HIDE DEF c, hi, m, p
<1>8. hi <= m
    BY <1>3, <1>4
<1>9. FilledFrom(buffer.current + 1)'
    <2>1. ASSUME NEW s \in (c + 1)..m
          PROVE  Filled(s)'
        <3>1. Slot(m) \in Slots /\ Slot(s) \in Slots /\ buffer.entries \in [Slots -> BufferEntry]
            BY <1>1, <1>3, <1>4, SlotInRange DEF CircularBuffer
        <3>2. CASE s = m
            BY <1>7, <3>1, <3>2 DEF Filled, Entry
        <3>3. CASE s # m
            <4>1. s \in (c + 1)..hi /\ s \in Nat /\ s < m /\ m < s + WindowSize
                BY <1>3, <1>4, <1>6, <3>3
            <4>2. Filled(s)
                BY <4>1 DEF FilledFrom, c, hi
            <4>3. Slot(s) # Slot(m)
                BY <1>4, <4>1, SlotInjective
            <4> QED BY <1>7, <3>1, <4>2, <4>3 DEF Filled, Entry
        <3> QED BY <3>2, <3>3
    <2> QED BY <1>7, <2>1 DEF FilledFrom, Filled
<1>10. hi = NumChunks \/ m = hi + 1
    BY <1>3, <1>4
<1> QED BY <1>2, <1>7, <1>8, <1>9, <1>10 DEF c, hi, m

\* The steps of rcopy in BUFFER, when the head of the queue is the packet it
\* misses or one beyond what it holds.
LEMMA BufferSteps ==
    ASSUME ClientStep, rcv = "BUFFER", rcv' \notin Gone, Head(toClient) # Corrupted,
           TypeOK, toClient # <<>> => Head(toClient).seq \in Nat /\ Head(toClient).seq >= buffer.current
    PROVE  /\ toClient # <<>>
           /\ IF Head(toClient).seq = buffer.current THEN FillGap ELSE StoreEarly
<1>1. FillGap \/ StoreEarly \/ AckAgain("BUFFER") \/ DropCorrupted("BUFFER")
    BY DEF ClientStep, handle_inorder, handle_buffer, handle_flush, FlushEntry, FlushEnd,
           DropCorrupted, ExitTransfer, WriteInorder, GapFound, AckAgain, Accepted, Received, Gone
<1>2. toClient # <<>>
    BY <1>1 DEF FillGap, StoreEarly, AckAgain, DropCorrupted, Accepted, Received
<1>3. ~DropCorrupted("BUFFER")
    BY DEF DropCorrupted, Received
<1>4. Head(toClient).seq \in Nat /\ buffer.current \in Nat /\ Head(toClient).seq >= buffer.current
    BY <1>2, Edges
<1>5. ~AckAgain("BUFFER")
    <2>1. SUFFICES ASSUME Head(toClient).seq < buffer.current
                   PROVE  FALSE
        BY DEF AckAgain
    <2> QED BY <1>4, <2>1
<1>6. StoreEarly => Head(toClient).seq # buffer.current
    <2>1. StoreEarly => Head(toClient).seq > buffer.current
        BY DEF StoreEarly
    <2> QED BY <1>4, <2>1
<1> QED BY <1>1, <1>2, <1>3, <1>5, <1>6 DEF FillGap

\* A step of rcopy when it has asked for the missing packet.
LEMMA GapAskedClient ==
    ASSUME RoomForRepair, RingInv, faults' = faults, ClientStep, UNCHANGED serverVars, rcv' \notin Gone,
           GapAsked
    PROVE  GapAsked'
<1> DEFINE l == window.lowest
           c == buffer.current
           n == window.current
           x == Len(toClient)
           y == Len(toServer)
           p == Head(toClient)
           hi == buffer.highest
           m == SeqOf(hi + 1)
<1>1. TypeOK /\ UNCHANGED <<window, filePos, srv, attempts>>
    BY RingFacts DEF serverVars
<1>2. /\ l \in Nat /\ c \in Nat /\ n \in Nat /\ x \in Nat /\ y \in Nat /\ NumChunks \in Nat /\ hi \in Nat
      /\ QueueCap \in Nat
      /\ l <= c /\ n <= NumChunks /\ hi <= n
      /\ toClient \in Seq(ClientBound)
    BY <1>1, Edges, Lengths, RingFacts
<1>3. /\ rcv = "BUFFER"
      /\ hi > c /\ FilledFrom(buffer.current + 1)
      /\ DataIn(toClient, hi + 1, NumChunks)
      /\ y = c - l + 1
      /\ \A i \in 1..(y - 1) : toServer[i] = RR(l + i)
      /\ toServer[y] = SREJ(c)
      /\ IF srv \in EofStates
         THEN n = NumChunks /\ NumChunks <= hi + 1 + x
         ELSE n = hi + 1 + x
      /\ EofLoad(1, 1)
      /\ srv = "WINDOW_FULL" => attempts = 0
    BY DEF GapAsked, SentTo
<1>4. m \in Nat /\ m = IF hi < NumChunks THEN hi + 1 ELSE NumChunks
    BY <1>2 DEF SeqOf
<1>5. toClient # <<>>
    BY <1>3 DEF ClientStep, handle_inorder, handle_buffer, handle_flush, FlushEntry, FlushEnd,
           DropCorrupted, ExitTransfer, WriteInorder, GapFound, FillGap, StoreEarly, AckAgain,
           Accepted, Received
<1>6. /\ p # Corrupted /\ p.seq = m
      /\ \A to \in Nat, g \in Nat : Alike(hi + 1 + 1, NumChunks, to, g) => DataIn(Tail(toClient), to, g)
    <2>2. hi + 1 \in Nat
        BY <1>2
    <2>1. hi + 1 \in Nat /\ SeqOf(Skip(hi + 1, NumChunks)) = m
        BY <2>2, SeqOfSkip
    <2> HIDE DEF hi, m
    <2> QED BY <1>2, <1>3, <1>5, <2>1, DataTaken
<1>7. StoreEarly
    <2>1. m >= c /\ m # c
        BY <1>2, <1>3, <1>4
    <2> HIDE DEF c, m
    <2> QED BY <1>1, <1>3, <1>4, <1>6, <2>1, BufferSteps DEF c
<1>8. /\ rcv' = "BUFFER" /\ toServer' = toServer
      /\ toClient' = Tail(toClient)
      /\ buffer'.current = c /\ buffer'.highest = m
      /\ FilledFrom(buffer.current + 1)'
    BY <1>3, <1>6, <1>7, Stores
<1>9. Len(toClient') = x - 1 /\ x >= 1
    BY <1>2, <1>5, <1>8, HeadAndTail
<1>10. /\ Load = x + y + One(srv = "WAIT_EOF_ACK") + (hi - c)
       /\ Load' = (x - 1) + y + One(srv = "WAIT_EOF_ACK") + (m - c)
    <2>1. UnderWay = x + y + One(srv = "WAIT_EOF_ACK") /\ Kept = hi - c
        BY <1>1, <1>3, Loads
    <2>2. Kept' = m - c
        BY <1>8 DEF Kept
    <2>3. UnderWay' = (x - 1) + y + One(srv = "WAIT_EOF_ACK")
        BY <1>1, <1>8, <1>9 DEF UnderWay, One
    <2> QED BY <2>1, <2>2, <2>3 DEF Load
<1>11. One(srv = "WAIT_EOF_ACK") \in Nat
    BY DEF One
<1> HIDE DEF l, c, n, x, y, p, hi, m
<1>12. DataIn(toClient', m + 1, NumChunks)
    <2>1. ASSUME NEW j \in Nat
          PROVE  SeqOf(Skip(hi + 1 + 1 + j, NumChunks)) = SeqOf(Skip(m + 1 + j, NumChunks))
        BY <1>2, <1>4 DEF SeqOf, Skip
    <2>2. Alike(hi + 1 + 1, NumChunks, m + 1, NumChunks)
        BY <2>1 DEF Alike
    <2>3. m + 1 \in Nat
        BY <1>4
    <2> QED BY <1>2, <1>6, <1>8, <2>2, <2>3
<1>13. /\ m > c
       /\ IF srv \in EofStates
          THEN n = NumChunks /\ NumChunks <= m + 1 + (x - 1)
          ELSE n = m + 1 + (x - 1)
    BY <1>2, <1>3, <1>4, <1>9
<1>14. SentTo(buffer.highest + 1 + Len(toClient))'
    BY <1>1, <1>8, <1>9, <1>13 DEF SentTo, n
<1>15. EofLoad(1, 1)'
    <2>1. SUFFICES ASSUME srv \in EofStates
                   PROVE  1 <= Load' /\ Load' + 1 <= QueueCap
        BY <1>1 DEF EofLoad
    <2>2. Load + 1 <= QueueCap
        BY <1>3, <2>1 DEF EofLoad
    <2>3. m <= hi + 1
        BY <1>2, <1>4
    <2>4. y >= 1
        BY <1>2, <1>3
    <2> QED BY <1>2, <1>4, <1>9, <1>10, <1>11, <1>13, <2>2, <2>3, <2>4
<1>16. /\ Len(toServer') = buffer'.current - window'.lowest + 1
       /\ \A i \in 1..(Len(toServer') - 1) : toServer'[i] = RR(window'.lowest + i)
       /\ toServer'[Len(toServer')] = SREJ(buffer'.current)
       /\ srv' = "WINDOW_FULL" => attempts' = 0
    BY <1>1, <1>3, <1>8 DEF y, l
<1> QED BY <1>8, <1>12, <1>13, <1>14, <1>15, <1>16 DEF GapAsked

\* A step of rcopy when the missing packet is on its way again.
LEMMA GapResentClient ==
    ASSUME RoomForRepair, RingInv, faults' = faults, ClientStep, UNCHANGED serverVars, rcv' \notin Gone,
           NEW k \in 1..Len(toClient), GapResent(k)
    PROVE  \/ \E b \in 0..(NumChunks + 2) : Flushing(b)'
           \/ k - 1 \in 1..Len(toClient') /\ GapResent(k - 1)'
<1> DEFINE l == window.lowest
           c == buffer.current
           n == window.current
           x == Len(toClient)
           p == Head(toClient)
           hi == buffer.highest
           m == SeqOf(hi + 1)
<1>1. TypeOK /\ UNCHANGED <<window, filePos, srv, attempts>> /\ buffer \in CircularBuffer
    BY RingFacts, Edges DEF serverVars
<1>2. /\ l \in Nat /\ c \in Nat /\ n \in Nat /\ x \in Nat /\ NumChunks \in Nat /\ hi \in Nat
      /\ QueueCap \in Nat /\ k \in 1..x
      /\ n <= NumChunks /\ hi <= n
      /\ toClient \in Seq(ClientBound)
    BY <1>1, Edges, Lengths, RingFacts
<1>3. /\ rcv = "BUFFER"
      /\ hi > c /\ FilledFrom(buffer.current + 1)
      /\ toServer = <<>> /\ l = c
      /\ \A i \in 1..x :
           /\ toClient[i] # Corrupted
           /\ toClient[i].seq = IF i = k THEN c ELSE SeqOf(hi + (IF i < k THEN i ELSE i - 1))
           /\ toClient[i].seq = NumChunks => toClient[i].flag = FLAG_EOF
      /\ IF srv \in EofStates
         THEN n = NumChunks /\ NumChunks <= hi + x
         ELSE n = hi + x
      /\ EofLoad(1, 0)
      /\ srv = "WINDOW_FULL" => attempts = 0
    BY DEF GapResent, SentTo
<1>4. m \in Nat /\ m = IF hi < NumChunks THEN hi + 1 ELSE NumChunks
    BY <1>2 DEF SeqOf
<1>5. toClient # <<>>
    BY <1>2
<1>6. /\ p = toClient[1] /\ 1 \in 1..x /\ Len(Tail(toClient)) = x - 1
      /\ \A i \in 1..(x - 1) : i + 1 \in 1..x /\ Tail(toClient)[i] = toClient[i + 1]
    BY <1>2, <1>5, HeadAndTail
<1>7. p # Corrupted /\ p.seq = IF k = 1 THEN c ELSE m
    BY <1>2, <1>3, <1>6
<1>8. IF k = 1 THEN FillGap ELSE StoreEarly
    <2>1. m >= c /\ m # c
        BY <1>2, <1>3, <1>4
    <2> HIDE DEF c, m
    <2>2. p.seq \in Nat /\ p.seq >= c
        BY <1>2, <1>4, <1>7, <2>1 DEF c
    <2> QED BY <1>1, <1>3, <1>7, <2>1, <2>2, BufferSteps DEF c
<1>9. UnderWay = x + 0 + One(srv = "WAIT_EOF_ACK") /\ Kept = hi - c /\ One(srv = "WAIT_EOF_ACK") \in Nat
    BY <1>1, <1>3, Loads DEF One
<1> HIDE DEF l, c, n, x, p, hi, m
<1>10. CASE k = 1
    <2>1. /\ rcv' = "FLUSH" /\ toClient' = Tail(toClient) /\ toServer' = <<>>
          /\ buffer'.current = c + 1 /\ buffer'.highest = hi /\ buffer'.entries = buffer.entries
        <3>1. /\ rcv' = "FLUSH" /\ toClient' = Tail(toClient) /\ toServer' = toServer
              /\ buffer' = [buffer EXCEPT !.current = @ + 1]
            BY <1>8, <1>10 DEF FillGap, Accepted, Received
        <3> QED BY <1>1, <1>3, <3>1, NextExpected DEF c, hi
    <2>2. FilledFrom(buffer.current)'
        BY <1>3, <2>1 DEF FilledFrom, Filled, Entry, c, hi
    <2>3. DataIn(toClient', hi + 1, NumChunks)
        <3>1. ASSUME NEW i \in 1..Len(toClient')
              PROVE  /\ toClient'[i] # Corrupted
                     /\ toClient'[i].seq = SeqOf(Skip(hi + 1 + (i - 1), NumChunks))
                     /\ toClient'[i].seq = NumChunks => toClient'[i].flag = FLAG_EOF
            <4>1. i \in 1..(x - 1)
                BY <1>6, <2>1
            <4>2. i + 1 # k /\ ~(i + 1 < k) /\ (i + 1) - 1 = i /\ hi + 1 + (i - 1) = hi + i /\ hi + i \in Nat
                BY <1>2, <1>10, <4>1
            <4>3. SeqOf(Skip(hi + i, NumChunks)) = SeqOf(hi + i)
                BY <4>2, SeqOfSkip
            <4> QED BY <1>3, <1>6, <2>1, <4>1, <4>2, <4>3
        <3> QED BY <3>1 DEF DataIn
    <2>4. PICK b \in 0..(NumChunks + 2) : b = c + 1
        BY <1>2, <1>3
    <2>5. AcksBut(b)'
        <3>1. /\ b \in (l + 1)..(NumChunks + 2) /\ b <= c + 1
              /\ 0 = (c + 1) - l - One(b <= c + 1)
            BY <1>2, <1>3, <2>4 DEF One
        <3>2. Len(toServer') = 0 /\ window'.lowest = l
            BY <1>1, <2>1 DEF l
        <3>3. RRsIn(toServer', window'.lowest, b)
            BY <3>2 DEF RRsIn
        <3> QED BY <2>1, <3>1, <3>2, <3>3 DEF AcksBut
    <2>6. SentTo(buffer.highest + 1 + Len(toClient))'
        <3>1. hi + 1 + (x - 1) = hi + x
            BY <1>2
        <3>2. window'.current = n /\ srv' = srv
            BY <1>1 DEF n
        <3> QED BY <1>3, <1>6, <2>1, <3>1, <3>2 DEF SentTo
    <2>7. EofLoad(1, 0)'
        <3>1. SUFFICES ASSUME srv \in EofStates
                       PROVE  1 <= Load' /\ Load' + 0 <= QueueCap
            BY <1>1 DEF EofLoad
        <3>2. Load = x + 0 + One(srv = "WAIT_EOF_ACK") + (hi - c) /\ Load + 0 <= QueueCap
            BY <1>3, <1>9, <3>1 DEF EofLoad, Load
        <3>3. UnderWay' = (x - 1) + 0 + One(srv = "WAIT_EOF_ACK")
            BY <1>1, <1>6, <2>1 DEF UnderWay, One
        <3>4. Kept' = hi + 1 - (c + 1)
            BY <2>1 DEF Kept
        <3>5. Load' = (x - 1) + 0 + One(srv = "WAIT_EOF_ACK") + (hi - c)
            BY <1>2, <1>9, <3>3, <3>4 DEF Load
        <3>6. hi > c /\ x >= 1
            BY <1>2, <1>3, <1>6
        <3> QED BY <1>2, <1>9, <3>2, <3>5, <3>6
    <2>8. srv' = "WINDOW_FULL" => attempts' = 0
        BY <1>1, <1>3
    <2>9. buffer'.highest + 1 >= buffer'.current
        BY <1>2, <1>3, <2>1
    <2>10. DataIn(toClient', buffer'.highest + 1, NumChunks)
        BY <2>1, <2>3
    <2>11. Flushing(b)'
        BY <2>1, <2>2, <2>5, <2>6, <2>7, <2>8, <2>9, <2>10 DEF Flushing
    <2> QED BY <2>11
<1>11. CASE k # 1
    <2>1. /\ rcv' = "BUFFER" /\ toServer' = <<>>
          /\ toClient' = Tail(toClient)
          /\ buffer'.current = c /\ buffer'.highest = m
          /\ FilledFrom(buffer.current + 1)'
        BY <1>3, <1>7, <1>8, <1>11, Stores DEF c, hi, m, p
    <2>2. m > c /\ k - 1 \in 1..(x - 1)
        BY <1>2, <1>3, <1>4, <1>11
    <2>3. ASSUME NEW i \in 1..Len(toClient')
          PROVE  /\ toClient'[i] # Corrupted
                 /\ toClient'[i].seq = IF i = k - 1 THEN c
                        ELSE SeqOf(m + (IF i < k - 1 THEN i ELSE i - 1))
                 /\ toClient'[i].seq = NumChunks => toClient'[i].flag = FLAG_EOF
        <3>1. i \in 1..(x - 1) /\ i + 1 \in 1..x /\ toClient'[i] = toClient[i + 1]
            BY <1>6, <2>1
        <3>2. (i + 1 = k) <=> (i = k - 1)
            BY <1>2, <3>1
        <3>3. ASSUME i # k - 1
              PROVE  SeqOf(hi + (IF i + 1 < k THEN i + 1 ELSE (i + 1) - 1)) =
                        SeqOf(m + (IF i < k - 1 THEN i ELSE i - 1))
            <4>1. CASE hi < NumChunks
                <5>1. hi + (IF i + 1 < k THEN i + 1 ELSE (i + 1) - 1) = m + (IF i < k - 1 THEN i ELSE i - 1)
                    BY <1>2, <1>4, <3>1, <4>1
                <5> QED BY <5>1
            <4>2. CASE hi = NumChunks
                BY <1>2, <1>4, <3>1, <4>2 DEF SeqOf
            <4> QED BY <1>2, <4>1, <4>2
        <3> QED BY <1>3, <3>1, <3>2, <3>3
    <2>4. SentTo(buffer.highest + Len(toClient))'
        <3>1. IF srv \in EofStates
              THEN n = NumChunks /\ NumChunks <= m + (x - 1)
              ELSE n = m + (x - 1)
            BY <1>2, <1>3, <1>4, <1>6
        <3>2. window'.current = n /\ srv' = srv
            BY <1>1 DEF n
        <3> QED BY <1>6, <2>1, <3>1, <3>2 DEF SentTo
    <2>5. EofLoad(1, 0)'
        <3>1. SUFFICES ASSUME srv \in EofStates
                       PROVE  1 <= Load' /\ Load' + 0 <= QueueCap
            BY <1>1 DEF EofLoad
        <3>2. Load = x + 0 + One(srv = "WAIT_EOF_ACK") + (hi - c) /\ Load + 0 <= QueueCap
            BY <1>3, <1>9, <3>1 DEF EofLoad, Load
        <3>3. UnderWay' = (x - 1) + 0 + One(srv = "WAIT_EOF_ACK")
            BY <1>1, <1>6, <2>1 DEF UnderWay, One
        <3>4. Kept' = m - c
            BY <2>1 DEF Kept
        <3>5. Load' = (x - 1) + 0 + One(srv = "WAIT_EOF_ACK") + (m - c)
            BY <3>3, <3>4 DEF Load
        <3> QED BY <1>2, <1>4, <1>6, <1>9, <2>2, <3>2, <3>5
    <2>6. srv' = "WINDOW_FULL" => attempts' = 0
        BY <1>1, <1>3
    <2>7. window'.lowest = buffer'.current
        BY <1>1, <1>3, <2>1 DEF l
    <2>8. GapResent(k - 1)' /\ k - 1 \in 1..Len(toClient')
        BY <1>6, <2>1, <2>2, <2>3, <2>4, <2>5, <2>6, <2>7 DEF GapResent
    <2> QED BY <2>8
<1> QED BY <1>10, <1>11

\* A step of rcopy that flushes its buffer.
LEMMA FlushingClient ==
    ASSUME RoomForRepair, RingInv, faults' = faults, ClientStep, UNCHANGED serverVars, rcv' \notin Gone,
           NEW b \in 0..(NumChunks + 2), Flushing(b)
    PROVE  Flushing(b)' \/ Straight(NumChunks, b)'
<1> DEFINE l == window.lowest
           c == buffer.current
           n == window.current
           x == Len(toClient)
           y == Len(toServer)
           hi == buffer.highest
<1>1. TypeOK /\ UNCHANGED <<window, filePos, srv, attempts>> /\ buffer \in CircularBuffer
    BY RingFacts, Edges DEF serverVars
<1>2. /\ l \in Nat /\ c \in Nat /\ n \in Nat /\ x \in Nat /\ y \in Nat /\ NumChunks \in Nat /\ hi \in Nat
      /\ QueueCap \in Nat /\ WindowSize \in Nat /\ WindowSize < QueueCap
      /\ l <= c /\ c <= NumChunks + 1 /\ n <= NumChunks /\ n <= l + WindowSize /\ hi <= n
    BY <1>1, Edges, Lengths, RingFacts DEF RoomForRepair
<1>3. /\ rcv = "FLUSH" /\ hi + 1 >= c
      /\ FilledFrom(c)
      /\ DataIn(toClient, hi + 1, NumChunks)
      /\ AcksBut(b)
      /\ IF srv \in EofStates
         THEN n = NumChunks /\ NumChunks <= hi + 1 + x
         ELSE n = hi + 1 + x
      /\ EofLoad(1, 0)
      /\ srv = "WINDOW_FULL" /\ b <= NumChunks + 1 => attempts = 0
    BY DEF Flushing, SentTo
<1>4. FlushEntry \/ FlushEnd
    BY <1>3 DEF ClientStep, handle_inorder, handle_buffer, handle_flush, DropCorrupted, ExitTransfer,
                WriteInorder, GapFound, FillGap, StoreEarly, AckAgain, Accepted, Received
<1>5. toClient' = toClient
    BY <1>4 DEF FlushEntry, FlushEnd
<1>6. \A i \in Slots : buffer.entries[i].valid_flag =>
          /\ buffer.entries[i].sequence_num >= c
          /\ buffer.entries[i].sequence_num < c + WindowSize
          /\ buffer.entries[i].sequence_num <= hi
          /\ buffer.entries[i].sequence_num \in Int
    BY <1>1, <1>3 DEF RingInv, ShelteredInv, HeldInv, CircularBuffer, BufferEntry
<1>7. /\ UnderWay = x + y + One(srv = "WAIT_EOF_ACK") /\ One(srv = "WAIT_EOF_ACK") \in Nat
      /\ Kept = hi + 1 - c
    BY <1>1, <1>3, Loads DEF One
<1>8. y <= c - l
    <2>1. y = c - l - One(b <= c)
        BY <1>3 DEF AcksBut
    <2> HIDE DEF l, c, y
    <2> QED BY <1>2, <2>1 DEF One
<1> HIDE DEF l, c, n, x, y, hi
<1>9. Load = x + y + One(srv = "WAIT_EOF_ACK") + (hi + 1 - c)
    BY <1>7 DEF Load
<1>10. CASE c = hi + 1
    <2>1. ~Entry(buffer, buffer.current).valid_flag
        <3>1. Slot(c) \in Slots
            BY <1>2, SlotInRange
        <3>2. \A s \in Int : s >= c /\ s <= hi => FALSE
            BY <1>2, <1>10
        <3> QED BY <1>6, <3>1, <3>2 DEF Entry, c
    <2>2. FlushEnd
        BY <1>4, <2>1 DEF FlushEntry
    <2>3. NothingMissing(buffer)
        BY <1>2, <1>10 DEF NothingMissing, c, hi
    <2>4. rcv' = "INORDER" /\ UNCHANGED <<toServer, buffer, toClient>>
        BY <2>2, <2>3 DEF FlushEnd
    <2>5. Missing(NumChunks) = 0 /\ Missing(NumChunks)' = 0
        BY <1>2 DEF Missing, One
    <2>6. DataIn(toClient, c, NumChunks) /\ AcksBut(b)'
        BY <1>1, <1>3, <1>10, <2>4 DEF AcksBut
    <2>7. SentTo(buffer.current + Len(toClient) + Missing(NumChunks))'
        <3>1. IF srv \in EofStates
              THEN n = NumChunks /\ NumChunks <= c + x + 0
              ELSE n = c + x + 0
            BY <1>2, <1>3, <1>10
        <3> QED BY <1>1, <2>4, <2>5, <3>1 DEF SentTo, n, c, x
    <2>8. Load' = Load
        <3>1. UnderWay' = UnderWay
            BY <1>1, <2>4 DEF UnderWay
        <3>2. Kept' = 0 /\ Kept = 0
            BY <1>2, <1>7, <1>10, <2>4 DEF Kept
        <3> QED BY <3>1, <3>2 DEF Load
    <2>9. srv \in EofStates => 1 <= Load /\ Load + 0 <= QueueCap /\ Load \in Int
        BY <1>2, <1>3, <1>7, <1>9, <1>10 DEF EofLoad
    <2>10. EofLoad(0, 0)' /\ (srv' \in EofStates => Load' >= 1)
        BY <1>1, <2>8, <2>9 DEF EofLoad
    <2>11. EofLoad(Missing(NumChunks), 2 * Missing(NumChunks))'
        BY <2>5, <2>10 DEF EofLoad
    <2>12. ~(NumChunks < NumChunks)
        BY <1>2
    <2>13. Straight(NumChunks, b)'
        BY <1>1, <1>3, <2>4, <2>6, <2>7, <2>10, <2>11, <2>12 DEF Straight, c
    <2> QED BY <2>13
<1>11. CASE c <= hi
    <2>1. Filled(c) /\ Filled(hi)
        BY <1>2, <1>11, <1>3 DEF FilledFrom, hi
    <2>2. hi < c + WindowSize
        <3>1. Slot(hi) \in Slots
            BY <1>2, SlotInRange
        <3> QED BY <1>6, <2>1, <3>1 DEF Filled, Entry
    <2>3. FlushEntry
        BY <1>4, <2>1 DEF FlushEnd, Filled, c
    <2>4. /\ rcv' = "FLUSH"
          /\ SendToServer(RR(buffer'.current))
          /\ buffer' = [buffer EXCEPT !.entries[Slot(buffer.current)].valid_flag = FALSE,
                                      !.current = @ + 1]
        BY <1>3, <2>3 DEF FlushEntry
    <2>5. /\ buffer'.current = c + 1 /\ buffer'.highest = hi
          /\ buffer'.entries = [buffer.entries EXCEPT ![Slot(c)] =
                                [Entry(buffer, c) EXCEPT !.valid_flag = FALSE]]
        BY <1>1, <2>4, FlushedEntry DEF c, hi
    <2>6. y < QueueCap
        <3>1. CASE srv \in EofStates
            <4>1. Load + 0 <= QueueCap
                BY <1>3, <3>1 DEF EofLoad
            <4>2. Load \in Int /\ y < Load
                BY <1>2, <1>7, <1>9, <1>11
            <4> QED BY <1>2, <4>1, <4>2
        <3>2. CASE srv \notin EofStates
            BY <1>2, <1>3, <1>8, <1>11, <3>2
        <3> QED BY <3>1, <3>2
    <2>7. AcksBut(b)' /\ Len(toServer') = y + 1
        <3>1. buffer.current <= NumChunks /\ buffer'.current = buffer.current + 1
            BY <1>2, <1>11, <2>5 DEF c
        <3> QED BY <1>1, <1>3, <2>4, <2>6, <3>1, AcksSent DEF y
    <2>8. FilledFrom(buffer.current)'
        <3>1. ASSUME NEW s \in (c + 1)..hi
              PROVE  Filled(s)'
            <4>1. s \in c..hi /\ s \in Nat /\ c < s /\ s < c + WindowSize
                BY <1>2, <2>2
            <4>2. Filled(s) /\ Slot(s) # Slot(c) /\ Slot(s) \in Slots /\ Slot(c) \in Slots
                BY <1>2, <1>3, <4>1, SlotInjective, SlotInRange DEF FilledFrom, hi
            <4>3. buffer.entries \in [Slots -> BufferEntry]
                BY <1>1 DEF CircularBuffer
            <4> QED BY <2>5, <4>2, <4>3 DEF Filled, Entry
        <3> QED BY <2>5, <3>1 DEF FilledFrom, Filled
    <2>9. Load' = Load
        <3>1. UnderWay' = x + (y + 1) + One(srv = "WAIT_EOF_ACK")
            BY <1>1, <1>5, <2>7 DEF UnderWay, One, x
        <3>2. Kept' = hi + 1 - (c + 1)
            BY <2>4, <2>5 DEF Kept
        <3> QED BY <1>2, <1>7, <1>9, <3>1, <3>2 DEF Load
    <2>10. SentTo(buffer.highest + 1 + Len(toClient))' /\ EofLoad(1, 0)'
        BY <1>1, <1>3, <1>5, <2>5, <2>9 DEF SentTo, EofLoad, n, x
    <2>11. buffer'.highest + 1 >= buffer'.current /\ DataIn(toClient', buffer'.highest + 1, NumChunks)
        BY <1>2, <1>3, <1>5, <1>11, <2>5
    <2>12. srv' = "WINDOW_FULL" /\ b <= NumChunks + 1 => attempts' = 0
        BY <1>1, <1>3
    <2>13. Flushing(b)'
        BY <2>4, <2>7, <2>8, <2>10, <2>11, <2>12 DEF Flushing
    <2> QED BY <2>13
<1> QED BY <1>2, <1>3, <1>10, <1>11

\* rcopy is sent again what it has, and answers.
LEMMA AgainClient ==
    ASSUME RoomForRepair, RingInv, faults' = faults, ClientStep, UNCHANGED serverVars, rcv' \notin Gone,
           Again
    PROVE  Straight(NumChunks, NumChunks + 2)'
<1> DEFINE l == window.lowest
           c == buffer.current
           p == Head(toClient)
<1>1. TypeOK /\ UNCHANGED <<window, filePos, srv, attempts>>
    BY RingFacts DEF serverVars
<1>2. /\ l \in Nat /\ c \in Nat /\ NumChunks \in Nat /\ QueueCap \in Nat \ {0}
      /\ c <= NumChunks + 1 /\ Len(toServer) = 0 /\ toClient # <<>>
      /\ toClient \in Seq(ClientBound)
    BY <1>1, Edges, Lengths, RingFacts DEF Again
<1>3. /\ rcv = "INORDER" /\ WindowFull /\ window.current = l + 1 /\ c = l + 1
      /\ p # Corrupted /\ p.seq = l /\ Len(Tail(toClient)) = 0 /\ toServer = <<>>
    BY <1>2, HeadAndTail DEF Again
<1>4. WriteInorder \/ GapFound \/ AckAgain("INORDER") \/ DropCorrupted("INORDER")
    BY <1>3 DEF ClientStep, handle_inorder, handle_buffer, handle_flush, FlushEntry, FlushEnd,
                DropCorrupted, ExitTransfer, FillGap, StoreEarly, AckAgain, Accepted, Received, Gone
<1>5. AckAgain("INORDER")
    <2>1. ~(p.seq = c) /\ ~(p.seq > c)
        BY <1>2, <1>3
    <2> QED BY <1>3, <1>4, <2>1 DEF WriteInorder, GapFound, DropCorrupted, Received
<1>6. /\ SendToServer(RR(c)) /\ UNCHANGED <<buffer, rcv>> /\ toClient' = Tail(toClient)
    BY <1>5 DEF AckAgain, Accepted, Received, rcopyVars
<1>7. Len(toServer') = 1 /\ toServer'[1] = RR(c)
    <2>1. RR(c) \in ServerBound /\ Len(toServer) < QueueCap
        BY <1>2, AckType
    <2> QED BY <1>1, <1>2, <1>6, <2>1, AckDelivered
<1>8. Len(toClient') = 0
    BY <1>3, <1>6
<1>9. AcksBut(NumChunks + 2)'
    <2>1. RRsIn(toServer', l, NumChunks + 2)
        <3>1. ASSUME NEW i \in 1..Len(toServer')
              PROVE  toServer'[i] = RR(Skip(l + i, NumChunks + 2))
            <4>1. i = 1
                BY <1>7
            <4>2. Skip(l + 1, NumChunks + 2) = c
                BY <1>2, <1>3 DEF Skip
            <4> QED BY <1>7, <4>1, <4>2
        <3> QED BY <3>1 DEF RRsIn
    <2>2. NumChunks + 2 \in (l + 1)..(NumChunks + 2) /\ 1 = c - l - One(NumChunks + 2 <= c)
        BY <1>2, <1>3 DEF One
    <2> QED BY <1>1, <1>6, <1>7, <2>1, <2>2 DEF AcksBut
<1>10. DataIn(toClient', buffer'.current, NumChunks)
    BY <1>8 DEF DataIn
<1>11. SentTo(buffer.current + Len(toClient) + Missing(NumChunks))' /\ srv' = "WINDOW_FULL"
    <2>1. Missing(NumChunks)' = 0
        BY <1>2 DEF Missing, One
    <2>2. srv' = "WINDOW_FULL" /\ window'.current = c + 0 + 0
        BY <1>1, <1>2, <1>3 DEF WindowFull
    <2> QED BY <1>6, <1>8, <2>1, <2>2 DEF SentTo, EofStates
<1>12. ~(NumChunks < NumChunks) /\ ~(NumChunks + 2 <= NumChunks + 1)
    BY <1>2
<1> QED BY <1>3, <1>6, <1>9, <1>10, <1>11, <1>12 DEF Straight, EofLoad, EofStates

\* No step of rcopy that loses nothing leaves the modes.
LEMMA OneLossClient ==
    ASSUME RoomForRepair, RingInv, faults' = faults, ClientStep, UNCHANGED serverVars, rcv' \notin Gone,
           OneLoss
    PROVE  OneLoss'
<1>1. srv' \notin Stopped /\ NumChunks \in Nat /\ NumChunks \in 0..NumChunks
      /\ NumChunks + 2 \in 0..(NumChunks + 2)
    BY ServerAssumption DEF OneLoss, serverVars
<1>2. ASSUME NEW h \in 0..NumChunks, NEW b \in 0..(NumChunks + 2), Straight(h, b)
      PROVE  OneLoss'
    BY <1>1, <1>2, StraightClient DEF OneLoss
<1>3. ASSUME NEW k \in 1..Len(toClient), Damaged(k)
      PROVE  OneLoss'
    <2>1. CASE \E g \in 0..NumChunks : Straight(g, NumChunks + 2)'
        BY <1>1, <2>1 DEF OneLoss
    <2>2. CASE k - 1 \in 1..Len(toClient') /\ Damaged(k - 1)'
        BY <1>1, <2>2 DEF OneLoss
    <2> QED BY <1>3, <2>1, <2>2, DamagedClient
<1>4. CASE GapAsked
    BY <1>1, <1>4, GapAskedClient DEF OneLoss
<1>5. ASSUME NEW k \in 1..Len(toClient), GapResent(k)
      PROVE  OneLoss'
    <2>1. CASE \E b \in 0..(NumChunks + 2) : Flushing(b)'
        BY <1>1, <2>1 DEF OneLoss
    <2>2. CASE k - 1 \in 1..Len(toClient') /\ GapResent(k - 1)'
        BY <1>1, <2>2 DEF OneLoss
    <2> QED BY <1>5, <2>1, <2>2, GapResentClient
<1>6. ASSUME NEW b \in 0..(NumChunks + 2), Flushing(b)
      PROVE  OneLoss'
    <2>1. CASE Flushing(b)'
        BY <1>1, <2>1 DEF OneLoss
    <2>2. CASE Straight(NumChunks, b)'
        BY <1>1, <2>2 DEF OneLoss
    <2> QED BY <1>6, <2>1, <2>2, FlushingClient
<1>7. CASE Again
    <2>1. Straight(NumChunks, NumChunks + 2)'
        BY <1>7, AgainClient
    <2> QED BY <1>1, <2>1 DEF OneLoss
<1> QED BY <1>2, <1>3, <1>4, <1>5, <1>6, <1>7 DEF OneLoss

------------------------------------------------------------------------------
(***************************************************************************)
(* The first fault.                                                        *)
(***************************************************************************)

\* The first loss: a chunk, an EOF packet or an RR, lost or damaged.
LEMMA NoLossQueues ==
    ASSUME RingInv, NoLoss
    PROVE  /\ DataIn(toClient, buffer.current, NumChunks)
           /\ AcksBut(NumChunks + 2)
           /\ Len(toServer) = buffer.current - window.lowest
           /\ \A i \in 1..Len(toServer) : toServer[i] = RR(window.lowest + i)
<1>1. TypeOK /\ window.lowest \in Nat /\ buffer.current \in Nat /\ NumChunks \in Nat
      /\ window.lowest <= buffer.current /\ buffer.current <= NumChunks + 1
    BY RingFacts, Edges
<1>2. /\ Len(toServer) = buffer.current - window.lowest
      /\ \A i \in 1..Len(toServer) : toServer[i] = RR(window.lowest + i)
    BY DEF NoLoss, Acknowledged
<1>3. DataIn(toClient, buffer.current, NumChunks)
    BY <1>1, InSequenceData DEF NoLoss
<1>4. AcksBut(NumChunks + 2)
    <2> DEFINE l == window.lowest
               c == buffer.current
    <2>1. NumChunks + 2 \in (l + 1)..(NumChunks + 2)
          /\ Len(toServer) = c - l - One(NumChunks + 2 <= c)
        BY <1>1, <1>2 DEF One
    <2>2. RRsIn(toServer, l, NumChunks + 2)
        <3>1. ASSUME NEW i \in 1..Len(toServer)
              PROVE  toServer[i] = RR(Skip(l + i, NumChunks + 2))
            <4>1. Skip(l + i, NumChunks + 2) = l + i
                BY <1>1, <1>2 DEF Skip
            <4> QED BY <1>2, <4>1
        <3> QED BY <3>1 DEF RRsIn
    <2> QED BY <2>1, <2>2 DEF AcksBut
<1> QED BY <1>2, <1>3, <1>4

\* The first fault: a chunk is lost or damaged.
LEMMA DataLost ==
    ASSUME RingInv, NoLoss, SendData, UNCHANGED rcopyVars, faults' = faults + 1
    PROVE  OneLoss'
<1> DEFINE l == window.lowest
           c == buffer.current
           n == window.current
           x == Len(toClient)
<1>1. TypeOK /\ UNCHANGED <<buffer, rcv>>
    BY RingFacts DEF rcopyVars
<1>2. /\ l \in Nat /\ c \in Nat /\ n \in Nat /\ x \in Nat /\ NumChunks \in Nat /\ faults \in Nat
      /\ toClient \in Seq(ClientBound) /\ c <= NumChunks + 1
    BY <1>1, Edges, Lengths, RingFacts
<1>3. /\ window'.current = n + 1 /\ window'.lowest = l
      /\ filePos < NumChunks /\ srv = "SEND_DATA" /\ srv' = "DRAIN"
      /\ toServer' = toServer /\ toClient' \in {toClient, Append(toClient, Corrupted)}
    <2>1. faults' # faults
        BY <1>2
    <2> QED BY <1>1, <2>1, DataLeaves
<1>4. n = c + x /\ n < NumChunks /\ rcv = "INORDER"
    <2>1. srv \notin EofStates
        BY <1>3 DEF EofStates
    <2> QED BY <1>3, <2>1 DEF NoLoss, Conserved
<1>5. AcksBut(NumChunks + 2)'
    BY <1>1, <1>3, NoLossQueues DEF AcksBut
<1>6. srv' \notin EofStates /\ srv' # "WINDOW_FULL" /\ srv' \notin Stopped
    BY <1>3 DEF EofStates, Stopped
<1>7. NumChunks + 2 \in 0..(NumChunks + 2)
    BY <1>2
<1> HIDE DEF l, c, n, x
<1>8. CASE toClient' = toClient
    <2>1. PICK h \in 0..NumChunks : h = n
        BY <1>2, <1>4
    <2>2. DataIn(toClient', c, h)
        <3>1. h \in Nat /\ h >= c + Len(toClient)
            BY <1>2, <1>4, <2>1 DEF x
        <3>2. DataIn(toClient, c, NumChunks)
            BY NoLossQueues DEF c
        <3> QED BY <1>2, <1>8, <3>1, <3>2, GapBehind
    <2>3. SentTo(buffer.current + Len(toClient) + Missing(h))'
        <3>1. Missing(h)' = 1
            BY <1>4, <2>1 DEF Missing, One
        <3>2. n + 1 = c + x + 1
            BY <1>4
        <3> QED BY <1>1, <1>3, <1>6, <1>8, <3>1, <3>2 DEF SentTo, c, x
    <2>4. buffer'.current <= h /\ h < NumChunks /\ h < window'.current
        BY <1>1, <1>2, <1>3, <1>4, <2>1 DEF c
    <2>5. buffer'.current = c
        BY <1>1 DEF c
    <2>6. Straight(h, NumChunks + 2)'
        BY <1>1, <1>4, <1>5, <1>6, <2>2, <2>3, <2>4, <2>5 DEF Straight, EofLoad
    <2> QED BY <1>6, <1>7, <2>6 DEF OneLoss
<1>9. CASE toClient' = Append(toClient, Corrupted)
    <2>1. PICK k \in Nat : k = x + 1
        BY <1>2
    <2>2. /\ Len(toClient') = k /\ toClient'[k] = Corrupted
          /\ \A i \in 1..x : toClient'[i] = toClient[i]
        <3>1. Corrupted \in ClientBound
            BY DEF ClientBound
        <3> QED BY <1>2, <1>9, <2>1, <3>1, Appended DEF x
    <2>3. ASSUME NEW i \in 1..Len(toClient'), i # k
          PROVE  /\ toClient'[i] # Corrupted
                 /\ toClient'[i].seq = SeqOf(buffer'.current + (i - 1))
                 /\ toClient'[i].seq = NumChunks => toClient'[i].flag = FLAG_EOF
        <3>1. i \in 1..x
            BY <1>2, <2>1, <2>2, <2>3
        <3> QED BY <1>1, <2>2, <3>1 DEF NoLoss, InSequence, x
    <2>4. SentTo(buffer.current + Len(toClient))'
        <3>1. n + 1 = c + k
            BY <1>2, <1>4, <2>1
        <3> QED BY <1>1, <1>3, <1>6, <2>2, <3>1 DEF SentTo, c
    <2>5. Damaged(k)' /\ k \in 1..Len(toClient')
        <3>1. k \in 1..k
            BY <1>2, <2>1
        <3> QED BY <1>1, <1>4, <1>5, <1>6, <2>2, <2>3, <2>4, <3>1 DEF Damaged, EofLoad, FirstTry
    <2> QED BY <1>6, <2>5 DEF OneLoss
<1> QED BY <1>3, <1>8, <1>9

\* The first fault: EOF is lost or damaged.
LEMMA EofPacketLost ==
    ASSUME RingInv, NoLoss, SendEof, UNCHANGED rcopyVars, faults' = faults + 1, attempts = 0
    PROVE  OneLoss'
<1> DEFINE c == buffer.current
           x == Len(toClient)
           y == Len(toServer)
<1>1. TypeOK /\ UNCHANGED <<buffer, rcv>>
    BY RingFacts DEF rcopyVars
<1>2. /\ c \in Nat /\ x \in Nat /\ y \in Nat /\ NumChunks \in Nat /\ faults \in Nat
      /\ toClient \in Seq(ClientBound) /\ QueueCap \in Nat
    BY <1>1, Edges, Lengths
<1>3. /\ srv = "WAIT_EOF_ACK" /\ srv' = "EOF_POLL" /\ window' = window /\ attempts' = 0
      /\ toServer' = toServer /\ toClient' \in {toClient, Append(toClient, Corrupted)}
    <2>1. faults' # faults
        BY <1>2
    <2> QED BY <1>1, <2>1, EofLeaves
<1>4. /\ rcv = "INORDER" /\ window.current = NumChunks /\ NumChunks <= c + x
      /\ x + y + 1 <= QueueCap
    <2>1. srv \in EofStates
        BY <1>3 DEF EofStates
    <2>2. UnderWay = x + y + 1 /\ UnderWay \in 1..QueueCap
        BY <1>3, <2>1 DEF UnderWay, NoLoss, Conserved
    <2> QED BY <1>2, <2>1, <2>2 DEF NoLoss, Conserved
<1>5. AcksBut(NumChunks + 2)'
    BY <1>1, <1>3, NoLossQueues DEF AcksBut
<1>6. srv' \in EofStates /\ srv' # "WINDOW_FULL" /\ srv' \notin Stopped
    BY <1>3 DEF EofStates, Stopped
<1>7. NumChunks + 2 \in 0..(NumChunks + 2) /\ NumChunks \in 0..NumChunks
    BY <1>2
<1> HIDE DEF c, x, y
<1>8. Load' = Len(toClient') + y
    <2>1. UnderWay' = Len(toClient') + y + 0
        BY <1>3 DEF UnderWay, y
    <2>2. Kept' = 0
        BY <1>1, <1>4 DEF Kept
    <2>3. Len(toClient') \in Nat
        BY <1>2, <1>3 DEF ClientBound
    <2> QED BY <1>2, <2>1, <2>2, <2>3 DEF Load
<1>9. CASE toClient' = toClient
    <2>1. Missing(NumChunks)' = 0
        BY <1>2 DEF Missing, One
    <2>2. DataIn(toClient', buffer'.current, NumChunks)
        BY <1>1, <1>9, NoLossQueues
    <2>3. SentTo(buffer.current + Len(toClient) + Missing(NumChunks))'
        <3>1. NumChunks <= c + x + 0
            BY <1>2, <1>4
        <3> QED BY <1>1, <1>3, <1>4, <1>6, <1>9, <2>1, <3>1 DEF SentTo, c, x
    <2>4. EofLoad(0, 0)'
        <3>1. 0 <= x + y /\ x + y + 0 <= QueueCap
            BY <1>2, <1>4
        <3> QED BY <1>8, <1>9, <3>1 DEF EofLoad, x
    <2>5. EofLoad(Missing(NumChunks), 2 * Missing(NumChunks))'
        BY <2>1, <2>4 DEF EofLoad
    <2>6. Straight(NumChunks, NumChunks + 2)'
        BY <1>1, <1>3, <1>4, <1>5, <1>6, <2>2, <2>3, <2>5 DEF Straight
    <2> QED BY <1>6, <1>7, <2>6 DEF OneLoss
<1>10. CASE toClient' = Append(toClient, Corrupted)
    <2>1. PICK k \in Nat : k = x + 1
        BY <1>2
    <2>2. /\ Len(toClient') = k /\ toClient'[k] = Corrupted
          /\ \A i \in 1..x : toClient'[i] = toClient[i]
        <3>1. Corrupted \in ClientBound
            BY DEF ClientBound
        <3> QED BY <1>2, <1>10, <2>1, <3>1, Appended DEF x
    <2>3. ASSUME NEW i \in 1..Len(toClient'), i # k
          PROVE  /\ toClient'[i] # Corrupted
                 /\ toClient'[i].seq = SeqOf(buffer'.current + (i - 1))
                 /\ toClient'[i].seq = NumChunks => toClient'[i].flag = FLAG_EOF
        <3>1. i \in 1..x
            BY <1>2, <2>1, <2>2, <2>3
        <3> QED BY <1>1, <2>2, <3>1 DEF NoLoss, InSequence, x
    <2>4. SentTo(buffer.current + Len(toClient))'
        <3>1. NumChunks <= c + k
            BY <1>2, <1>4, <2>1
        <3> QED BY <1>1, <1>3, <1>4, <1>6, <2>2, <3>1 DEF SentTo, c
    <2>5. EofLoad(1, 0)'
        <3>1. 1 <= k + y /\ k + y + 0 <= QueueCap
            BY <1>2, <1>4, <2>1
        <3> QED BY <1>8, <2>2, <3>1 DEF EofLoad
    <2>6. NumChunks <= buffer'.current + k - 1
        <3>1. NumChunks <= c + k - 1
            BY <1>2, <1>4, <2>1
        <3> QED BY <1>1, <3>1 DEF c
    <2>7. Damaged(k)' /\ k \in 1..Len(toClient')
        <3>1. k \in 1..k
            BY <1>2, <2>1
        <3> QED BY <1>1, <1>3, <1>4, <1>5, <2>2, <2>3, <2>4, <2>5, <2>6, <3>1 DEF Damaged, FirstTry
    <2> QED BY <1>6, <2>7 DEF OneLoss
<1> QED BY <1>3, <1>9, <1>10

\* The first fault: an acknowledgment is lost.
LEMMA AckLost ==
    ASSUME Sheltered, RoomForRepair, RingInv, NoLoss, ClientNext, rcv' \notin Gone, UNCHANGED serverVars,
           faults' = faults + 1, attempts = 0, srv \notin Stopped
    PROVE  OneLoss'
<1> DEFINE l == window.lowest
           c == buffer.current
           x == Len(toClient)
           y == Len(toServer)
<1>1. TypeOK /\ UNCHANGED <<window, srv, attempts>> /\ buffer \in CircularBuffer
    BY RingFacts, Edges DEF serverVars
<1>2. /\ l \in Nat /\ c \in Nat /\ x \in Nat /\ y \in Nat /\ NumChunks \in Nat /\ faults \in Nat
      /\ toClient \in Seq(ClientBound) /\ QueueCap \in Nat /\ l <= c
    BY <1>1, Edges, Lengths, RingFacts
<1>3. WriteInorder /\ c <= NumChunks /\ toClient # <<>>
    BY <1>1, HeadWithoutLoss
<1>4. /\ rcv' = "INORDER" /\ toClient' = Tail(toClient)
      /\ SendToServer(RR(buffer'.current)) /\ buffer'.current = c + 1
    <2>1. /\ rcv' = "INORDER" /\ toClient' = Tail(toClient)
          /\ SendToServer(RR(buffer'.current))
          /\ buffer' = [buffer EXCEPT !.highest = buffer.current, !.current = @ + 1]
        BY <1>3 DEF WriteInorder, Accepted, Received, NoLoss
    <2> QED BY <1>1, <2>1, NextExpected
<1>5. toServer' = toServer
    <2>1. PICK fate \in Fates(ClientErrors) :
              faults' = faults + Cost(fate) /\ toServer' = Put(toServer, fate, RR(buffer'.current))
        BY <1>4 DEF SendToServer
    <2>2. fate = "drop"
        <3>1. fate # "sent"
            BY <1>2, <2>1 DEF Cost
        <3> QED BY <3>1, NetworkAssumption DEF Fates, Sheltered
    <2> QED BY <2>1, <2>2 DEF Put
<1>6. Len(toClient') = x - 1 /\ x >= 1
    BY <1>2, <1>3, <1>4, HeadAndTail
<1>7. DataIn(toClient', c + 1, NumChunks)
    <2>1. DataIn(toClient, c, NumChunks)
        BY NoLossQueues
    <2>2. c + 1 \in Nat /\ Alike(c + 1, NumChunks, c + 1, NumChunks)
        BY <1>2 DEF Alike
    <2> HIDE DEF c
    <2> QED BY <1>2, <1>3, <1>4, <2>1, <2>2, DataTaken
<1>8. y = c - l /\ \A i \in 1..y : toServer[i] = RR(l + i)
    BY NoLossQueues
<1>9. IF srv \in EofStates
      THEN window.current = NumChunks /\ NumChunks <= c + x /\ UnderWay \in 1..QueueCap
      ELSE window.current = c + x
    BY DEF NoLoss, Conserved
<1>10. UnderWay = x + y + One(srv = "WAIT_EOF_ACK") /\ One(srv = "WAIT_EOF_ACK") \in Nat
    BY <1>1, Loads DEF One
<1> HIDE DEF l, c, x, y
<1>11. PICK b \in 0..(NumChunks + 2) : b = c + 1
    BY <1>2, <1>3
<1>12. AcksBut(b)'
    <2>1. /\ b \in (l + 1)..(NumChunks + 2) /\ b <= c + 1
          /\ y = (c + 1) - l - One(b <= c + 1)
        BY <1>2, <1>3, <1>8, <1>11 DEF One
    <2>2. RRsIn(toServer, l, b)
        <3>1. ASSUME NEW i \in 1..y
              PROVE  toServer[i] = RR(Skip(l + i, b))
            <4>1. Skip(l + i, b) = l + i
                BY <1>2, <1>8, <1>11 DEF Skip
            <4> QED BY <1>8, <4>1
        <3> QED BY <3>1 DEF RRsIn, y
    <2> QED BY <1>1, <1>4, <1>5, <2>1, <2>2 DEF AcksBut, l, y
<1>13. Missing(NumChunks)' = 0 /\ NumChunks \in 0..NumChunks
    BY <1>2 DEF Missing, One
<1>14. SentTo(buffer.current + Len(toClient) + Missing(NumChunks))'
    <2>1. (c + 1) + (x - 1) + 0 = c + x
        BY <1>2
    <2> QED BY <1>1, <1>4, <1>6, <1>9, <1>13, <2>1 DEF SentTo
<1>15. EofLoad(0, 0)'
    <2>1. SUFFICES ASSUME srv \in EofStates
                   PROVE  0 <= Load' /\ Load' + 0 <= QueueCap
        BY <1>1 DEF EofLoad
    <2>2. UnderWay' = (x - 1) + y + One(srv = "WAIT_EOF_ACK") /\ Kept' = 0
        BY <1>1, <1>4, <1>5, <1>6 DEF UnderWay, One, Kept, y
    <2>3. Load' = (x - 1) + y + One(srv = "WAIT_EOF_ACK")
        BY <1>2, <1>10, <2>2 DEF Load
    <2> QED BY <1>2, <1>6, <1>9, <1>10, <2>1, <2>3
<1>16. EofLoad(Missing(NumChunks), 2 * Missing(NumChunks))'
    BY <1>13, <1>15 DEF EofLoad
<1>17. Straight(NumChunks, b)'
    BY <1>1, <1>4, <1>7, <1>12, <1>14, <1>16 DEF Straight
<1> QED BY <1>1, <1>13, <1>17 DEF OneLoss

\* What the child sends arrives, or is the first fault.
LEMMA FirstLossServer ==
    ASSUME RoomForWindow, RingInv, NoLoss, ServerStep, UNCHANGED rcopyVars, attempts = 0
    PROVE  /\ srv' \notin Stopped /\ attempts' = 0
           /\ faults' = faults \/ OneLoss'
<1>1. TypeOK /\ faults \in Nat
    BY RingFacts, Edges
<1>2. srv' \notin Stopped
    BY <1>1, StaysWithoutLoss
<1>3. attempts' = 0
    BY DEF ServerStep, SendData, ReadEof, WindowClosed, DrainRecv, DrainDone, FullRecv, FullDone,
           SendEof, EofRecv
<1>4. CASE SendData
    <2>1. faults' = faults \/ faults' = faults + 1
        BY <1>1, <1>4, DataLeaves
    <2> QED BY <1>2, <1>3, <1>4, <2>1, DataLost
<1>5. CASE SendEof
    <2>1. faults' = faults \/ faults' = faults + 1
        BY <1>1, <1>5, EofLeaves
    <2> QED BY <1>2, <1>3, <1>5, <2>1, EofPacketLost
<1>6. CASE Silent
    BY <1>2, <1>3, <1>6, SilentEffect
<1>7. ASSUME NEW next, NEW onEof, Reads(next, onEof)
      PROVE  faults' = faults
    BY <1>1, <1>7, ProcessWithoutLoss DEF Reads
<1> QED BY <1>2, <1>3, <1>4, <1>5, <1>6, <1>7, ServerSteps

\* What rcopy answers arrives, or is the first fault.
LEMMA FirstLossClient ==
    ASSUME Sheltered, RoomForRepair, RingInv, NoLoss, ClientNext, rcv' \notin Gone, UNCHANGED serverVars,
           attempts = 0, srv \notin Stopped
    PROVE  faults' = faults \/ OneLoss'
<1>1. TypeOK /\ faults \in Nat
    BY RingFacts, Edges
<1>2. WriteInorder
    BY <1>1, HeadWithoutLoss
<1>3. SendToServer(RR(buffer'.current))
    BY <1>2 DEF WriteInorder
<1>4. faults' = faults \/ faults' = faults + 1
    BY <1>1, <1>3 DEF SendToServer, Cost
<1> QED BY <1>4, AckLost

------------------------------------------------------------------------------
(***************************************************************************)
(* The transfer in time.                                                   *)
(***************************************************************************)

\* A step that touches none of this keeps the mode.
LEMMA OneLossStays ==
    ASSUME UNCHANGED <<window, srv, attempts>>, UNCHANGED <<buffer, rcv, toClient, toServer>>, OneLoss
    PROVE  OneLoss'
<1>2. ASSUME NEW m
      PROVE  SentTo(m)' <=> SentTo(m)
    BY DEF SentTo
<1>3. ASSUME NEW m, NEW n
      PROVE  EofLoad(m, n)' <=> EofLoad(m, n)
    BY DEF EofLoad, Load, UnderWay, Kept
<1>4. ASSUME NEW b
      PROVE  AcksBut(b)' <=> AcksBut(b)
    BY DEF AcksBut, RRsIn
<1>5. ASSUME NEW q, NEW x, NEW h
      PROVE  DataIn(q, x, h)' <=> DataIn(q, x, h)
    BY DEF DataIn, SeqOf
<1>6. ASSUME NEW x
      PROVE  FilledFrom(x)' <=> FilledFrom(x)
    BY DEF FilledFrom, Filled, Entry
<1>7. ASSUME NEW h, NEW b, Straight(h, b)
      PROVE  Straight(h, b)'
    BY <1>2, <1>3, <1>4, <1>5, <1>7 DEF Straight, Load, UnderWay, Kept, Missing
<1>8. ASSUME NEW k, Damaged(k)
      PROVE  Damaged(k)'
    BY <1>2, <1>3, <1>4, <1>8 DEF Damaged, Load, UnderWay, Kept, FirstTry, SeqOf
<1>9. ASSUME GapAsked
      PROVE  GapAsked'
    BY <1>2, <1>3, <1>5, <1>6, <1>9 DEF GapAsked
<1>10. ASSUME NEW k, GapResent(k)
       PROVE  GapResent(k)'
    BY <1>2, <1>3, <1>6, <1>10 DEF GapResent, SeqOf
<1>11. ASSUME NEW b, Flushing(b)
       PROVE  Flushing(b)'
    BY <1>2, <1>3, <1>4, <1>5, <1>6, <1>11 DEF Flushing
<1>12. ASSUME Again
       PROVE  Again'
    BY <1>12 DEF Again, WindowFull
<1> QED BY <1>7, <1>8, <1>9, <1>10, <1>11, <1>12 DEF OneLoss

\* What the first fault leaves behind, until rcopy has gone.
OneFaultInv ==
    /\ faults = 0 /\ rcv \notin Gone => srv \notin Stopped /\ attempts = 0
    /\ faults = 1 /\ rcv \notin Gone => OneLoss
    /\ rcv = "ABORTED" => faults >= 2

\* A time-out of the child then finds both queues empty and rcopy waiting.
LEMMA LateTimeout ==
    ASSUME TypeOK, ClockInv, BusyInv, ShortLag, ServerTimeout, serverClock = Second, rcv \notin Gone
    PROVE  toClient = <<>> /\ toServer = <<>> /\ rcv \in Receiving
<1>1. ServerPolls
    BY DEF ServerTimeout, FullTimeout, EofTimeout, ServerPolls
<1>2. ClientPolls
    BY <1>1, TimeAssumption DEF BusyInv, ClockInv, ShortLag
<1> QED BY <1>1, <1>2 DEF ServerPolls, ClientPolls

\* rcopy does not give up after one fault while the child is there.
LEMMA WaitsForOne ==
    ASSUME TypeOK, ClockInv, WaitingInv, ShortLag, ClientSeconds >= 2, ClientTimeout,
           clientClock = ClientPollTime, srv \notin Stopped
    PROVE  faults >= 2
<1>1. ClientPolls /\ clientClock = ClientSeconds * Second
    BY DEF ClientTimeout, ClientPolls, ClientPollTime
<1>2. clientClock < (faults + 1) * Second
    BY <1>1, WaitsForLosses
<1>3. faults \in Nat /\ ClientSeconds \in Nat
    BY TimeAssumption DEF TypeOK
<1> SUFFICES ASSUME faults < ClientSeconds
             PROVE  FALSE
    BY <1>3
<1>4. (faults + 1) * Second <= ClientSeconds * Second
    BY <1>3, SecondsAdd
<1>5. (faults + 1) * Second \in Nat /\ ClientSeconds * Second \in Nat
    BY <1>3, Seconds
<1> DEFINE x == (faults + 1) * Second
           y == ClientSeconds * Second
<1> HIDE DEF x, y
<1> QED BY <1>1, <1>2, <1>4, <1>5 DEF x, y

\* A step of the child in time.
LEMMA OneFaultServer ==
    ASSUME RoomForWindow, RoomForRepair, ShortLag, MaxAttempts >= 2, Sheltered,
           RingInv, ClockInv, BusyInv, NoLossInv, OneFaultInv, AServerNext, TimedServer
    PROVE  OneFaultInv'
<1>1. TypeOK /\ faults \in Nat
    BY RingFacts, Edges
<1>2. RingInv' /\ UNCHANGED rcopyVars /\ rcv' = rcv
    BY RingStep DEF AServerNext, rcopyVars
<1>3. faults' \in Nat /\ faults' >= faults
    <2>1. TypeOK'
        BY <1>2 DEF RingInv, AnyNetworkInv
    <2> QED BY <1>1, <2>1, FaultsGrow DEF TypeOK
<1>4. ASSUME faults = 0, rcv \notin Gone
      PROVE  /\ srv' \notin Stopped /\ attempts' = 0
             /\ faults' = 0 \/ OneLoss'
    <2>1. NoLoss /\ attempts = 0
        BY <1>4, NoLossParts DEF OneFaultInv, Quiet
    <2>2. ServerStep
        BY <1>1, <1>4, <2>1, TimeAssumption DEF TimedServer, NoLoss, ClockInv, ShortLag, ServerPollTime
    <2> QED BY <1>2, <1>4, <2>1, <2>2, FirstLossServer
<1>5. ASSUME faults = 1, faults' = 1, rcv \notin Gone
      PROVE  OneLoss'
    <2>1. OneLoss /\ faults' = faults
        BY <1>5 DEF OneFaultInv
    <2>2. CASE ServerStep
        BY <1>2, <2>1, <2>2, OneLossServer
    <2>3. CASE ServerTimeout /\ serverClock = Second
        BY <1>1, <1>2, <1>5, <2>1, <2>3, LateTimeout, OneLossTimeout
    <2> QED BY <2>2, <2>3 DEF TimedServer, ServerPollTime
<1> QED BY <1>1, <1>2, <1>3, <1>4, <1>5 DEF OneFaultInv

\* A step of rcopy in time.
LEMMA OneFaultClient ==
    ASSUME RoomForWindow, RoomForRepair, ShortLag, ClientSeconds >= 2, Sheltered,
           RingInv, ClockInv, NoLossInv, WaitingInv, OneFaultInv, AClientNext, TimedClient
    PROVE  OneFaultInv'
<1>1. TypeOK /\ faults \in Nat
    BY RingFacts, Edges
<1>2. RingInv' /\ UNCHANGED serverVars /\ UNCHANGED <<srv, attempts>>
    BY RingStep DEF AClientNext, serverVars
<1>3. faults' \in Nat /\ faults' >= faults
    <2>1. TypeOK'
        BY <1>2 DEF RingInv, AnyNetworkInv
    <2> QED BY <1>1, <2>1, FaultsGrow DEF TypeOK
<1>4. rcv \notin Gone
    BY DEF AClientNext, ClientNext, ClientStep, ClientTimeout, handle_inorder, handle_buffer,
        handle_flush, DropCorrupted, ExitTransfer, WriteInorder, GapFound, FillGap, StoreEarly,
        AckAgain, FlushEntry, FlushEnd, Accepted, Received, Receiving, Gone
<1>5. faults <= 1 => srv \notin Stopped
    BY <1>1, <1>4 DEF OneFaultInv, OneLoss
<1>6. faults <= 1 => ClientStep
    BY <1>1, <1>5, WaitsForOne DEF TimedClient
<1>7. ClientStep => rcv' # "ABORTED"
    BY <1>4 DEF ClientStep, handle_inorder, handle_buffer, handle_flush, DropCorrupted, ExitTransfer,
        WriteInorder, GapFound, FillGap, StoreEarly, AckAgain, FlushEntry, FlushEnd,
        Accepted, Received, rcopyVars, Receiving, Gone
<1>8. rcv' = "ABORTED" => faults' >= 2
    BY <1>1, <1>3, <1>6, <1>7
<1>9. ASSUME faults = 0, rcv' \notin Gone
      PROVE  faults' = 0 \/ OneLoss'
    <2>1. NoLoss /\ attempts = 0 /\ srv \notin Stopped
        BY <1>4, <1>9, NoLossParts DEF OneFaultInv, Quiet
    <2>2. ClientNext
        BY DEF AClientNext
    <2> QED BY <1>2, <1>9, <2>1, <2>2, FirstLossClient
<1>10. ASSUME faults = 1, faults' = 1, rcv' \notin Gone
       PROVE  OneLoss'
    BY <1>2, <1>4, <1>6, <1>10, OneLossClient DEF OneFaultInv
<1> QED BY <1>1, <1>2, <1>3, <1>4, <1>8, <1>9, <1>10 DEF OneFaultInv

\* OneFaultInv is inductive, given the clocks and the rings.
LEMMA OneFaultNext ==
    ASSUME RoomForWindow, RoomForRepair, ShortLag, MaxAttempts >= 2, ClientSeconds >= 2, Sheltered,
           RingInv, ClockInv, BusyInv, NoLossInv, WaitingInv, OneFaultInv, [TimedNext]_timedVars
    PROVE  OneFaultInv'
<1>1. CASE AServerNext /\ TimedServer
    BY <1>1, OneFaultServer
<1>2. CASE AClientNext /\ TimedClient
    BY <1>2, OneFaultClient
<1>3. CASE Tick \/ UNCHANGED timedVars
    <2>1. /\ UNCHANGED <<window, srv, attempts>> /\ UNCHANGED <<buffer, rcv, toClient, toServer>>
          /\ faults' = faults
        BY <1>3 DEF Tick, timedVars, vars, serverVars, rcopyVars, netVars
    <2>2. OneLoss => OneLoss'
        BY <2>1, OneLossStays
    <2> QED BY <2>1, <2>2 DEF OneFaultInv
<1> QED BY <1>1, <1>2, <1>3, TimedStep

\* If one packet was lost or damaged, rcopy does not end without the whole file: the
\* safety part of CompleteAfterOneFault.
ArrivesAfterOneFault ==
    rcv \in Gone /\ faults <= 1 => rcv = "EXIT" /\ Len(out) = NumChunks

\* One fault, whatever it hits and whatever it is, cannot make the transfer fail:
\* with MaxAttempts >= 2 (the code has 10) and rcopy's time-out at least two of the
\* child's, whoever has ended has not given up and rcopy has the whole file.
\* (server.c handle_send_data, handle_wait_EOF_ack, process_rr_srej_eof; rcopy.c
\* handle_inorder, handle_buffer, handle_flush.)
THEOREM ArrivesAfterOneFaultAlways ==
    ASSUME Sheltered, FitsRing, RoomForRepair, QueueCap >= 2, ShortLag, MaxAttempts >= 2,
           ClientSeconds >= 2
    PROVE  TimedSpec => []ArrivesAfterOneFault
<1>1. RoomForWindow
    BY SizeAssumption, NetworkAssumption, ServerAssumption DEF RoomForWindow, RoomForRepair, FitsRing
<1>2. ASSUME TimedInit
      PROVE  OneFaultInv
    BY <1>2, NetworkAssumption DEF TimedInit, Init, ServerInit, RcopyInit, NetInit, OneFaultInv, Stopped
<1>3. ASSUME RingInv, ClockInv, RetryInv, NoLossInv, WaitingInv, OneFaultInv, [TimedNext]_timedVars
      PROVE  OneFaultInv'
    BY <1>1, <1>3, OneFaultNext DEF RetryInv
<1>4. ASSUME RingInv, OneFaultInv
      PROVE  ArrivesAfterOneFault
    <2>1. CompleteOnExit /\ TypeOK /\ faults \in Nat
        BY <1>4, ShelteredImplies, RingFacts, Edges DEF RingInv
    <2> QED BY <1>4, <2>1 DEF OneFaultInv, CompleteOnExit, ArrivesAfterOneFault, Gone
<1>5. TimedSpec => []RingInv
    BY TimedIsTransfer, ShelteredInductive, PTL
<1> QED BY <1>1, <1>2, <1>3, <1>4, <1>5, Clocks, RetryAlways, NoLossAlways, WaitingAlways, PTL
        DEF TimedSpec

------------------------------------------------------------------------------
(***************************************************************************)
(* A session, before rcopy has read its answer.                            *)
(***************************************************************************)

\* The queue behind the answer, when one more packet is sent.
LEMMA BehindAppend ==
    ASSUME NEW q \in Seq(ClientBound), NEW p \in ClientBound, q # <<>>
    PROVE  Tail(Append(q, p)) = Append(Tail(q), p)
<1>1. /\ Append(q, p) \in Seq(ClientBound) /\ Append(q, p) # <<>>
      /\ Tail(q) \in Seq(ClientBound) /\ Len(Tail(q)) = Len(q) - 1 /\ Len(q) >= 1
      /\ Len(Append(q, p)) = Len(q) + 1
    OBVIOUS
<1> DEFINE a == Tail(Append(q, p))
           b == Append(Tail(q), p)
<1>2. a \in Seq(ClientBound) /\ b \in Seq(ClientBound) /\ Len(a) = Len(q) /\ Len(b) = Len(q)
    BY <1>1
<1>3. ASSUME NEW i \in 1..Len(q)
      PROVE  a[i] = b[i]
    <2> DEFINE r == Append(q, p)
    <2>1. /\ r \in Seq(ClientBound) /\ r # <<>> /\ Len(r) = Len(q) + 1
          /\ r[Len(q) + 1] = p /\ \A j \in 1..Len(q) : r[j] = q[j]
        BY <1>1, Appended
    <2> HIDE DEF r
    <2>2. Len(Tail(r)) = Len(q) /\ Tail(r)[i] = r[i + 1]
        BY <1>1, <2>1, HeadAndTail
    <2>3. CASE i = Len(q)
        <3>1. b[i] = p
            BY <1>1, <2>3
        <3> QED BY <2>1, <2>2, <2>3, <3>1 DEF r
    <2>4. CASE i < Len(q)
        <3>1. i \in 1..Len(Tail(q)) /\ i + 1 \in 1..Len(q)
            BY <1>1, <2>4
        <3>2. Tail(q)[i] = q[i + 1]
            BY <3>1, HeadAndTail
        <3>3. b[i] = Tail(q)[i]
            BY <1>1, <3>1
        <3> QED BY <2>1, <2>2, <3>1, <3>2, <3>3 DEF r
    <2> QED BY <2>3, <2>4
<1> HIDE DEF a, b
<1>4. a = b
    BY <1>2, <1>3
<1> QED BY <1>4 DEF a, b

\* The queue behind the answer and the whole queue.
LEMMA BehindFacts ==
    ASSUME TypeOK, NEW k \in {0, 1}, k = 1 => toClient # <<>>
    PROVE  /\ Behind(k) \in Seq(ClientBound)
           /\ Len(Behind(k)) \in Nat /\ Len(toClient) = Len(Behind(k)) + k
BY Lengths DEF Behind

\* While rcopy waits for its answer the child sends its first window.
LEMMA EarlyServer ==
    ASSUME RoomForRepair, FitsRing, RingInv, RingInv', ServerStep, UNCHANGED rcopyVars,
           faults' = faults, NEW k \in {0, 1}, NEW h \in 0..NumChunks, Early(k, h)
    PROVE  Early(k, h)'
<1> DEFINE n == window.current
           x == Len(Behind(k))
           m == Missing(h)
<1>1. TypeOK /\ TypeOK' /\ UNCHANGED <<buffer, rcv>>
    BY RingFacts DEF rcopyVars, RingInv, AnyNetworkInv
<1>2. /\ n \in Nat /\ x \in Nat /\ NumChunks \in Nat /\ h \in Nat /\ m \in {0, 1} /\ k \in Nat
      /\ Behind(k) \in Seq(ClientBound) /\ toClient \in Seq(ClientBound)
      /\ Len(toClient) = x + k /\ Len(toClient) \in Nat
      /\ QueueCap \in Nat /\ BufferSize \in Nat /\ BufferSize < QueueCap
      /\ m = 1 <=> h < NumChunks
      /\ n <= NumChunks
    <2>1. WindowSize \in Nat /\ BufferSize \in Nat /\ QueueCap \in Nat
        BY SizeAssumption, NetworkAssumption
    <2>2. BufferSize < QueueCap
        BY <2>1 DEF RoomForRepair, FitsRing
    <2> QED BY <1>1, <2>1, <2>2, Edges, Lengths, BehindFacts, RingFacts DEF Early, Missing, One
<1>3. /\ srv \notin Stopped /\ attempts = 0
      /\ rcv = "INORDER" /\ buffer.current = 0 /\ toServer = <<>>
      /\ window.lowest = 0 /\ window.highest = BufferSize
      /\ k = 1 => toClient # <<>>
      /\ h = NumChunks \/ (k = 1 /\ h < n)
      /\ DataIn(Behind(k), 0, h)
      /\ srv \notin EofStates => n = x + m
    BY DEF Early
<1>4. CASE Silent
    <2>1. /\ UNCHANGED <<window, toClient, toServer>>
          /\ srv' \notin Stopped /\ attempts' = 0
          /\ srv \notin EofStates
          /\ srv' \notin EofStates \/ (srv' = "WAIT_EOF_ACK" /\ n < window.highest /\ filePos = NumChunks)
        <3>1. attempts' = 0
            BY <1>3, <1>4 DEF Silent, ReadEof, WindowClosed, DrainDone, FullDone
        <3> QED BY <1>4, <3>1, SilentEffect
    <2>2. Behind(k)' = Behind(k)
        BY <2>1 DEF Behind
    <2>3. ASSUME srv' \in EofStates
          PROVE  /\ n = NumChunks /\ NumChunks < BufferSize
                 /\ NumChunks <= x + m
                 /\ UnderWay' \in (NumChunks + 1)..(NumChunks + 1 + k - m)
        <3>1. n = NumChunks /\ NumChunks < BufferSize /\ n = x + m /\ m <= k
            BY <1>2, <1>3, <2>1, <2>3, RingFacts
        <3>2. UnderWay' = x + k + 1
            <4>1. Len(toServer) = 0
                BY <1>3
            <4> QED BY <1>2, <2>1, <2>3, <4>1 DEF UnderWay
        <3> HIDE DEF x, n, m
        <3>3. x + k + 1 = NumChunks + 1 + k - m /\ x + k + 1 >= NumChunks + 1
            BY <1>2, <3>1
        <3> QED BY <1>2, <3>1, <3>2, <3>3
    <2>4. Missing(h)' = m
        BY DEF Missing
    <2> QED BY <1>1, <1>3, <2>1, <2>2, <2>3, <2>4 DEF Early, DataIn, SeqOf
<1>5. ASSUME NEW p \in ClientBound, p # Corrupted, p.seq = SeqOf(Skip(x, h)),
             p.seq = NumChunks => p.flag = FLAG_EOF,
             toClient' = Append(toClient, p)
      PROVE  /\ Len(Behind(k)') = x + 1 /\ Len(toClient') = Len(toClient) + 1
             /\ DataIn(Behind(k)', 0, h) /\ toClient' # <<>>
    <2>1. Behind(k)' = Append(Behind(k), p)
        BY <1>2, <1>3, <1>5, BehindAppend DEF Behind
    <2>2. DataIn(Append(Behind(k), p), 0, h) /\ Len(Append(Behind(k), p)) = x + 1
        <3>1. 0 + Len(Behind(k)) = x
            BY <1>2
        <3> QED BY <1>2, <1>3, <1>5, <3>1, DataAdded
    <2>3. Len(toClient') = Len(toClient) + 1 /\ toClient' # <<>>
        BY <1>2, <1>5
    <2> QED BY <2>1, <2>2, <2>3
<1>6. CASE SendData
    <2>1. PICK p \in ClientBound :
             /\ p # Corrupted /\ p.seq = n /\ p.flag # FLAG_EOF
             /\ window'.current = n + 1
             /\ window'.lowest = window.lowest /\ window'.highest = window.highest
             /\ filePos < NumChunks /\ n < window.highest
             /\ srv = "SEND_DATA" /\ srv' = "DRAIN"
             /\ UNCHANGED <<toServer, attempts>>
             /\ toClient' = Put(toClient, "sent", p)
        <3>1. faults \in Nat
            BY <1>1, Edges
        <3> QED BY <1>1, <1>6, <3>1, DataLeaves
    <2>2. n = x + m /\ n < BufferSize /\ n < NumChunks
        BY <1>3, <2>1, RingFacts DEF EofStates
    <2>3. p.seq = SeqOf(Skip(x, h)) /\ p.seq # NumChunks
        <3>1. Skip(x, h) = n
            BY <1>2, <1>3, <2>2 DEF Skip
        <3> QED BY <1>2, <2>1, <2>2, <3>1 DEF SeqOf
    <2>4. toClient' = Append(toClient, p)
        <3>1. Len(toClient) < QueueCap
            <4> HIDE DEF x, n, m
            <4> QED BY <1>2, <1>3, <2>2
        <3> QED BY <1>2, <2>1, <3>1, Delivered
    <2>5. /\ Len(Behind(k)') = x + 1 /\ DataIn(Behind(k)', 0, h) /\ toClient' # <<>>
        BY <1>5, <2>1, <2>3, <2>4
    <2>6. srv' \notin Stopped /\ srv' \notin EofStates
        BY <2>1 DEF Stopped, EofStates
    <2>7. window'.current = Len(Behind(k)') + m /\ (h = NumChunks \/ (k = 1 /\ h < window'.current))
        <3> HIDE DEF x, n, m
        <3> QED BY <1>2, <1>3, <2>1, <2>2, <2>5
    <2>8. Missing(h)' = m
        BY DEF Missing
    <2> QED BY <1>1, <1>3, <2>1, <2>5, <2>6, <2>7, <2>8 DEF Early, DataIn, SeqOf
<1>7. CASE SendEof
    <2>1. PICK p \in ClientBound :
             /\ p # Corrupted /\ p.seq = n /\ p.flag = FLAG_EOF
             /\ srv = "WAIT_EOF_ACK" /\ srv' = "EOF_POLL"
             /\ UNCHANGED <<window, filePos, attempts, toServer>>
             /\ toClient' = Put(toClient, "sent", p)
        <3>1. faults \in Nat
            BY <1>1, Edges
        <3> QED BY <1>1, <1>7, <3>1, EofLeaves
    <2>2. /\ n = NumChunks /\ NumChunks < BufferSize /\ NumChunks <= x + m
          /\ UnderWay \in (NumChunks + 1)..(NumChunks + 1 + k - m)
        BY <2>1 DEF Early, EofStates
    <2>3. UnderWay = Len(toClient) + 1
        <3>1. Len(toServer) = 0
            BY <1>3
        <3> QED BY <1>2, <2>1, <3>1 DEF UnderWay
    <2>4. toClient' = Append(toClient, p)
        <3>1. Len(toClient) < QueueCap
            <4> HIDE DEF x, n, m
            <4> QED BY <1>2, <2>2, <2>3
        <3> QED BY <1>2, <2>1, <3>1, Delivered
    <2>5. p.seq = SeqOf(Skip(x, h))
        <3>1. Skip(x, h) >= NumChunks /\ Skip(x, h) \in Nat
            BY <1>2, <1>3, <2>2 DEF Skip
        <3> QED BY <1>2, <2>1, <2>2, <3>1 DEF SeqOf
    <2>6. /\ Len(Behind(k)') = x + 1 /\ DataIn(Behind(k)', 0, h) /\ toClient' # <<>>
          /\ Len(toClient') = Len(toClient) + 1
        BY <1>5, <2>1, <2>4, <2>5
    <2>7. srv' \notin Stopped /\ srv' \in EofStates
        BY <2>1 DEF Stopped, EofStates
    <2>8. UnderWay' = UnderWay
        <3>1. Len(toServer') = 0
            BY <1>3, <2>1
        <3> QED BY <1>2, <2>1, <2>3, <2>6, <3>1 DEF UnderWay
    <2>9. NumChunks <= Len(Behind(k)') + m
        <3> HIDE DEF x, n, m
        <3> QED BY <1>2, <2>2, <2>6
    <2>10. Missing(h)' = m
        BY DEF Missing
    <2> QED BY <1>1, <1>3, <2>1, <2>2, <2>6, <2>7, <2>8, <2>9, <2>10 DEF Early, DataIn, SeqOf
<1>8. ~(\E next, onEof : Reads(next, onEof))
    BY <1>3 DEF Reads, process_rr_srej_eof
<1> QED BY <1>4, <1>6, <1>7, <1>8, ServerSteps

\* A packet of the child that is lost leaves rcopy's queue as it was.
LEMMA LossLeavesNothing ==
    ASSUME TypeOK, "flip" \notin ServerErrors, SendData \/ SendEof, faults' # faults
    PROVE  toClient' = toClient
<1>1. PICK p : SendToClient(p)
    BY DEF SendData, SendEof
<1>2. PICK fate \in Fates(ServerErrors) :
          faults' = faults + Cost(fate) /\ toClient' = Put(toClient, fate, p)
    BY <1>1 DEF SendToClient
<1>3. fate # "sent"
    <2>1. faults \in Nat
        BY Edges
    <2> QED BY <1>2, <2>1 DEF Cost
<1>4. fate = "drop"
    BY <1>2, <1>3, NetworkAssumption DEF Fates
<1> QED BY <1>2, <1>4 DEF Put

\* The first loss of a session, of a packet behind the answer.
LEMMA EarlyLoss ==
    ASSUME RoomForRepair, FitsRing, "flip" \notin ServerErrors, RingInv, RingInv', ServerStep,
           UNCHANGED rcopyVars, faults' # faults, Early(1, NumChunks)
    PROVE  \E h \in 0..NumChunks : Early(1, h)'
<1> DEFINE n == window.current
           x == Len(Behind(1))
<1>1. TypeOK /\ TypeOK' /\ UNCHANGED <<buffer, rcv>>
    BY RingFacts DEF rcopyVars, RingInv, AnyNetworkInv
<1>2. /\ n \in Nat /\ x \in Nat /\ NumChunks \in Nat /\ faults \in Nat
      /\ Behind(1) \in Seq(ClientBound) /\ toClient \in Seq(ClientBound) /\ toClient # <<>>
      /\ Len(toClient) = x + 1 /\ Len(toClient) \in Nat
    BY <1>1, Edges, Lengths, BehindFacts DEF Early
<1>3. /\ srv \notin Stopped /\ attempts = 0
      /\ rcv = "INORDER" /\ buffer.current = 0 /\ toServer = <<>>
      /\ window.lowest = 0 /\ window.highest = BufferSize
      /\ DataIn(Behind(1), 0, NumChunks)
      /\ srv \notin EofStates => n = x
    BY <1>2 DEF Early, Missing, One
<1>4. CASE SendData
    <2>1. /\ window'.current = n + 1
          /\ window'.lowest = window.lowest /\ window'.highest = window.highest
          /\ filePos < NumChunks
          /\ srv = "SEND_DATA" /\ srv' = "DRAIN"
          /\ UNCHANGED <<toServer, attempts>>
        BY <1>1, <1>4, DataLeaves
    <2>2. toClient' = toClient
        BY <1>1, <1>4, LossLeavesNothing
    <2>3. n = x /\ n < NumChunks
        BY <1>3, <2>1, RingFacts DEF EofStates
    <2>4. PICK h \in 0..NumChunks : h = n
        BY <1>2, <2>3
    <2>5. DataIn(Behind(1)', 0, h)
        <3>1. Behind(1)' = Behind(1)
            BY <2>2 DEF Behind
        <3>2. h \in Nat /\ h >= 0 + Len(Behind(1))
            BY <1>2, <2>3, <2>4
        <3> QED BY <1>2, <1>3, <3>1, <3>2, GapBehind
    <2>6. window'.current = Len(Behind(1)') + Missing(h)' /\ h < window'.current
        <3>1. Behind(1)' = Behind(1) /\ Missing(h)' = 1
            BY <2>2, <2>3, <2>4 DEF Behind, Missing, One
        <3> QED BY <1>2, <2>1, <2>3, <2>4, <3>1
    <2>7. srv' \notin Stopped /\ srv' \notin EofStates
        BY <2>1 DEF Stopped, EofStates
    <2> QED BY <1>1, <1>2, <1>3, <2>1, <2>2, <2>4, <2>5, <2>6, <2>7 DEF Early, DataIn, SeqOf
<1>5. CASE SendEof
    <2>1. /\ srv = "WAIT_EOF_ACK" /\ srv' = "EOF_POLL"
          /\ UNCHANGED <<window, filePos, attempts, toServer>>
        BY <1>1, <1>5, EofLeaves
    <2>2. toClient' = toClient
        BY <1>1, <1>5, LossLeavesNothing
    <2>3. /\ n = NumChunks /\ NumChunks < BufferSize /\ NumChunks <= x
          /\ UnderWay \in (NumChunks + 1)..(NumChunks + 2)
        <3>1. NumChunks <= x + 0 /\ NumChunks + 1 + 1 - 0 = NumChunks + 2
            BY <1>2, <2>1 DEF Early, EofStates, Missing, One
        <3> QED BY <1>2, <2>1, <3>1 DEF Early, EofStates, Missing, One
    <2>4. UnderWay = x + 2 /\ UnderWay' = x + 1
        <3>1. Len(toServer) = 0 /\ toServer' = toServer
            BY <1>3, <2>1
        <3> QED BY <1>2, <2>1, <2>2, <3>1 DEF UnderWay
    <2>5. /\ Behind(1)' = Behind(1) /\ Missing(NumChunks)' = 0
          /\ DataIn(Behind(1)', 0, NumChunks)
        BY <1>2, <1>3, <2>2 DEF Behind, Missing, One
    <2>6. UnderWay' \in (NumChunks + 1)..(NumChunks + 1 + 1 - 0) /\ NumChunks <= x + 0
        BY <1>2, <2>3, <2>4
    <2>7. srv' \notin Stopped /\ srv' \in EofStates
        BY <2>1 DEF Stopped, EofStates
    <2>8. Early(1, NumChunks)'
        BY <1>1, <1>2, <1>3, <2>1, <2>2, <2>3, <2>5, <2>6, <2>7 DEF Early, DataIn, SeqOf
    <2>9. NumChunks \in 0..NumChunks
        BY <1>2
    <2> QED BY <2>8, <2>9
<1>6. faults' = faults \/ SendData \/ SendEof
    <2>1. Silent => faults' = faults
        BY SilentEffect
    <2>2. ~(\E next, onEof : Reads(next, onEof))
        BY <1>3 DEF Reads, process_rr_srej_eof
    <2> QED BY <2>1, <2>2, ServerSteps
<1> QED BY <1>4, <1>5, <1>6

\* rcopy reads the answer, or the first chunk in its place: then what is left
\* is a transfer that has lost at most that chunk.
LEMMA EarlyTaken ==
    ASSUME RoomForRepair, FitsRing, NumChunks >= 1, RingInv,
           UNCHANGED <<window, srv, attempts>>, UNCHANGED <<buffer, rcv, toServer>>,
           toClient # <<>>, toClient' = Tail(toClient),
           NEW k \in {0, 1}, NEW h \in 0..NumChunks, Early(k, h)
    PROVE  OneLoss'
<1> DEFINE n == window.current
           x == Len(Behind(k))
           m == Missing(h)
           y == Len(toClient')
<1>1. TypeOK
    BY RingFacts
<1>2. /\ n \in Nat /\ x \in Nat /\ NumChunks \in Nat /\ h \in Nat /\ m \in {0, 1} /\ k \in Nat
      /\ Behind(k) \in Seq(ClientBound) /\ toClient \in Seq(ClientBound)
      /\ Len(toClient) = x + k /\ Len(toClient) \in Nat /\ y = Len(toClient) - 1 /\ Len(toClient) >= 1
      /\ QueueCap \in Nat /\ BufferSize \in Nat /\ BufferSize < QueueCap
      /\ m = 1 <=> h < NumChunks
      /\ n <= NumChunks
    <2>1. WindowSize \in Nat /\ BufferSize \in Nat /\ QueueCap \in Nat
        BY SizeAssumption, NetworkAssumption
    <2>2. BufferSize < QueueCap
        BY <2>1 DEF RoomForRepair, FitsRing
    <2> QED BY <1>1, <2>1, <2>2, Edges, Lengths, BehindFacts, RingFacts, HeadAndTail
            DEF Early, Missing, One
<1>3. /\ srv \notin Stopped /\ attempts = 0
      /\ rcv = "INORDER" /\ buffer.current = 0 /\ toServer = <<>>
      /\ window.lowest = 0
      /\ h = NumChunks \/ (k = 1 /\ h < n)
      /\ DataIn(Behind(k), 0, h)
      /\ srv \notin EofStates => n = x + m
      /\ srv \in EofStates =>
             /\ n = NumChunks /\ NumChunks < BufferSize /\ NumChunks <= x + m
             /\ UnderWay \in (NumChunks + 1)..(NumChunks + 1 + k - m)
    BY DEF Early
\* The number that is missing from now on.
<1> DEFINE g == IF k = 1 THEN h ELSE 0
           r == Missing(g)
<1>4. /\ g \in 0..NumChunks /\ g \in Nat /\ r \in {0, 1} /\ (r = 1 <=> g < NumChunks)
      /\ k = 1 => r = m
      /\ k = 0 => m = 0 /\ r = 1
    BY <1>2, <1>3 DEF Missing, One
<1> HIDE DEF g, r
<1>5. y + r = x + m
    <2> HIDE DEF n, x, m, y
    <2> QED BY <1>2, <1>4
<1>6. g = NumChunks \/ (0 <= g /\ g < NumChunks /\ g < n)
    <2>1. CASE k = 1
        BY <1>2, <1>3, <2>1 DEF g
    <2>2. CASE k = 0
        <3>1. n >= 1
            <4> HIDE DEF n, x, m, y
            <4> QED BY <1>2, <1>3, <1>4, <2>2
        <3> QED BY <1>2, <2>2, <3>1 DEF g
    <2> QED BY <2>1, <2>2
<1>7. DataIn(toClient', 0, g)
    <2>1. CASE k = 1
        BY <1>3, <2>1 DEF Behind, g
    <2>2. CASE k = 0
        <3>1. DataIn(toClient, 0, NumChunks)
            BY <1>3, <2>2 DEF Behind
        <3>2. Alike(0 + 1, NumChunks, 0, 0)
            <4>1. ASSUME NEW j \in Nat
                  PROVE  SeqOf(Skip(0 + 1 + j, NumChunks)) = SeqOf(Skip(0 + j, 0))
                <5>1. SeqOf(Skip(0 + 1 + j, NumChunks)) = SeqOf(0 + 1 + j)
                    BY SeqOfSkip
                <5>2. Skip(0 + j, 0) = 0 + 1 + j
                    BY DEF Skip
                <5> QED BY <5>1, <5>2
            <4> QED BY <4>1 DEF Alike
        <3> QED BY <1>2, <2>2, <3>1, <3>2, DataTaken DEF g
    <2> QED BY <2>1, <2>2
<1>8. AcksBut(NumChunks + 2)'
    <2>1. Len(toServer') = 0 /\ window'.lowest = 0 /\ buffer'.current = 0
        BY <1>3
    <2>2. NumChunks + 2 \in (0 + 1)..(NumChunks + 2) /\ One(NumChunks + 2 <= 0) = 0
        BY <1>2 DEF One
    <2>3. RRsIn(toServer', 0, NumChunks + 2)
        BY <2>1 DEF RRsIn
    <2> HIDE DEF n, x, m, y
    <2>4. 0 = 0 - 0 - One(NumChunks + 2 <= 0)
        BY <2>2
    <2> QED BY <2>1, <2>2, <2>3, <2>4 DEF AcksBut, RRsIn
<1>9. SentTo(buffer.current + Len(toClient) + Missing(g))'
    <2>1. 0 + y + r = x + m
        BY <1>2, <1>4, <1>5
    <2>2. Missing(g)' = r
        BY DEF Missing, r
    <2> QED BY <1>3, <2>1, <2>2 DEF SentTo
<1>10. srv \in EofStates => Load' = UnderWay - 1 /\ UnderWay \in Nat
    <2>1. Kept' = 0
        BY <1>3 DEF Kept
    <2>2. Len(toServer) = 0 /\ Len(toServer') = 0
        BY <1>3
    <2>3. CASE srv = "WAIT_EOF_ACK"
        BY <1>2, <2>1, <2>2, <2>3 DEF Load, UnderWay
    <2>4. CASE srv # "WAIT_EOF_ACK"
        BY <1>2, <2>1, <2>2, <2>4 DEF Load, UnderWay
    <2> QED BY <2>3, <2>4
<1>11. srv \in EofStates => Load' >= 1 /\ r <= Load' /\ Load' + 2 * r <= QueueCap
    <2> HIDE DEF n, x, m, y
    <2>1. CASE k = 1
        BY <1>2, <1>3, <1>4, <1>10, <2>1
    <2>2. CASE k = 0
        BY <1>2, <1>3, <1>4, <1>10, <2>2
    <2> QED BY <2>1, <2>2
<1>12. EofLoad(Missing(g), 2 * Missing(g))'
    <2>1. Missing(g)' = r
        BY DEF Missing, r
    <2> QED BY <1>11, <2>1 DEF EofLoad
<1>13. Straight(g, NumChunks + 2)'
    BY <1>3, <1>6, <1>7, <1>8, <1>9, <1>11, <1>12 DEF Straight, DataIn, SeqOf
<1>14. NumChunks + 2 \in 0..(NumChunks + 2)
    BY <1>2
<1> QED BY <1>3, <1>4, <1>13, <1>14 DEF OneLoss

\* A step that touches none of this keeps what is said of the first window.
LEMMA EarlyStays ==
    ASSUME UNCHANGED <<window, srv, attempts>>, UNCHANGED <<buffer, rcv, toClient, toServer>>,
           NEW k \in {0, 1}, NEW h \in 0..NumChunks, Early(k, h)
    PROVE  Early(k, h)'
<1>1. /\ Behind(k)' = Behind(k) /\ UnderWay' = UnderWay
      /\ DataIn(Behind(k), 0, h)' <=> DataIn(Behind(k), 0, h)
    BY DEF Behind, UnderWay, DataIn
<1> QED BY <1>1 DEF Early

\* A child that has sent nothing, with the answer on its way or lost.
LEMMA EarlyBorn ==
    ASSUME NEW k \in {0, 1},
           window' = buffer_init(BufferSize), srv' = "SEND_DATA", attempts' = 0,
           rcv' = "INORDER", buffer'.current = 0, toServer' = <<>>,
           IF k = 1 THEN Len(toClient') = 1 /\ toClient' # <<>> /\ Tail(toClient') = <<>>
                    ELSE toClient' = <<>>
    PROVE  Early(k, NumChunks)'
<1>1. /\ window'.lowest = 0 /\ window'.highest = BufferSize /\ window'.current = 0
      /\ srv' \notin Stopped /\ srv' \notin EofStates
    BY DEF buffer_init, Stopped, EofStates
<1>2. Behind(k)' = <<>>
    BY DEF Behind
<1>3. Len(Behind(k)') = 0 /\ DataIn(Behind(k), 0, NumChunks)'
    BY <1>2 DEF DataIn
<1>4. Missing(NumChunks) = 0
    BY SizeAssumption, ServerAssumption DEF Missing, One
<1> QED BY <1>1, <1>3, <1>4 DEF Early

------------------------------------------------------------------------------
(***************************************************************************)
(* A loss costs at most a second, however many there are.                  *)
(*                                                                         *)
(* What rcopy misses of what was sent is a debt: the chunks it neither     *)
(* holds nor has on their way to it, and the acknowledgment the child      *)
(* waits for when nothing on its way will make rcopy repeat it.  Only a    *)
(* lost packet adds to the debt, by one, and a time-out pays one of it.    *)
(* While something is owed no poll is over, so time passes by a second for *)
(* each packet lost and by lag.                                            *)
(***************************************************************************)

\* No packet finds a socket queue full, not even the second one of handle_flush.
SocketsHold == Len(toClient) < QueueCap /\ Len(toServer) + 1 < QueueCap

\* Packet s is on its way to rcopy.
Coming(s) == \E i \in 1..Len(toClient) : toClient[i] # Corrupted /\ toClient[i].seq = s

\* The chunks that were sent and have to be sent again.
Holes == {s \in buffer.current..(window.current - 1) : ~Filled(s) /\ ~Coming(s)}

\* The RR for all rcopy has is on its way.
AckComing == \E i \in 1..Len(toServer) :
    toServer[i].flag = FLAG_RR /\ toServer[i].data = buffer.current

\* rcopy will send an RR with its next steps.
Answering == rcv = "FLUSH" /\ FlushAnswers

\* rcopy has chunks the child does not know of, and no reason to tell it.
AckMissing ==
    /\ srv \notin EofStates
    /\ window.lowest # buffer.current
    /\ ~AckComing /\ ~Answering
    /\ \A s \in 0..(buffer.current - 1) : ~Coming(s)

\* The child waits for the answer to an EOF packet and none will come.
EofSilent ==
    /\ srv = "EOF_POLL" /\ toServer = <<>> /\ ~Answering
    /\ \A s \in Nat : ~Coming(s)

Owed == AckMissing \/ EofSilent

Debt == Cardinality(Holes) + One(Owed)

\* rcopy waits in BUFFER for a chunk the child does not send again; it will give up.
GapLost ==
    /\ rcv = "BUFFER" /\ srv \in EofStates
    /\ ~Coming(buffer.current)
    /\ \A i \in 1..Len(toServer) :
           ~(toServer[i].flag = FLAG_SREJ /\ toServer[i].data = buffer.current)

\* The child has gone and rcopy waits: it will give up.
Alone == srv \in Stopped /\ rcv \in Receiving /\ toClient = <<>>

\* What a poll that both wait in has lasted.
BothWait == IF ServerPolls /\ ClientPolls THEN serverClock ELSE 0

DebtInv ==
    rcv \notin Gone =>
        \/ GapLost
        \/ Alone
        \/ clock + Second * Debt <= Second * faults + lag + BothWait

\* A step that leaves the debt as it is or smaller, and one with a loss.
DebtStays == Holes' \subseteq Holes /\ (Owed' => Owed)

DebtGrows ==
    /\ faults' >= faults + 1
    /\ \/ Holes' \subseteq Holes
       \/ (Owed' => Owed) /\ \E s \in Nat : Holes' \subseteq Holes \cup {s}

\* The debt in numbers.
LEMMA DebtCounts ==
    ASSUME TypeOK, TypeOK'
    PROVE  /\ IsFiniteSet(Holes) /\ Debt \in Nat /\ Debt' \in Nat
           /\ DebtStays => Debt' <= Debt
           /\ DebtGrows => Debt' <= Debt + 1
           /\ Holes' \subseteq Holes /\ Owed /\ ~Owed' => Debt' + 1 <= Debt
           /\ \A s \in Holes : Holes' \subseteq Holes \ {s} /\ (Owed' => Owed) => Debt' + 1 <= Debt
<1> DEFINE h == Holes
           g == Holes'
           o == One(Owed)
           q == One(Owed')
<1>1. IsFiniteSet(h) /\ IsFiniteSet(g)
    <2>1. /\ buffer.current \in Int /\ window.current - 1 \in Int
          /\ buffer'.current \in Int /\ window'.current - 1 \in Int
        <3>1. buffer.current \in Nat /\ window.current \in Nat
            BY Edges
        <3>2. buffer' \in CircularBuffer /\ window' \in CircularBuffer
            BY DEF TypeOK, RcopyTypeOK, ServerTypeOK
        <3>3. buffer'.current \in Nat /\ window'.current \in Nat
            BY <3>2 DEF CircularBuffer
        <3> QED BY <3>1, <3>3
    <2>2. /\ IsFiniteSet(buffer.current..(window.current - 1))
          /\ IsFiniteSet(buffer'.current..(window'.current - 1))
        BY <2>1, FS_Interval
    <2>3. /\ h \in SUBSET (buffer.current..(window.current - 1))
          /\ g \in SUBSET (buffer'.current..(window'.current - 1))
        BY DEF Holes
    <2> HIDE DEF h, g
    <2> QED BY <2>2, <2>3, FS_Subset
<1>2. /\ o \in 0..1 /\ q \in 0..1
      /\ (Owed' => Owed) => q <= o
      /\ Owed /\ ~Owed' => q + 1 <= o
    BY DEF One
<1>3. Debt = Cardinality(h) + o /\ Debt' = Cardinality(g) + q
    BY DEF Debt, One
<1>4. DebtStays => g \subseteq h /\ (Owed' => Owed)
    BY DEF DebtStays
<1>5. DebtGrows => g \subseteq h \/ ((Owed' => Owed) /\ \E s \in Nat : g \subseteq h \cup {s})
    BY DEF DebtGrows
<1>6. (\A s \in Holes : Holes' \subseteq Holes \ {s} /\ (Owed' => Owed) => Debt' + 1 <= Debt)
        <=> (\A s \in h : g \subseteq h \ {s} /\ (Owed' => Owed) => Debt' + 1 <= Debt)
    OBVIOUS
<1>7. Holes' \subseteq Holes <=> g \subseteq h
    OBVIOUS
<1>14. IsFiniteSet(Holes) <=> IsFiniteSet(h)
    OBVIOUS
<1> HIDE DEF h, g, o, q
<1>8. Cardinality(h) \in Nat /\ Cardinality(g) \in Nat
    BY <1>1, FS_CardinalityType
<1>9. g \subseteq h => Cardinality(g) <= Cardinality(h)
    BY <1>1, FS_Subset
<1>10. ASSUME NEW s, g \subseteq h \cup {s}
       PROVE  Cardinality(g) <= Cardinality(h) + 1
    <2>1. IsFiniteSet(h \cup {s}) /\ Cardinality(h \cup {s}) \in {Cardinality(h), Cardinality(h) + 1}
        BY <1>1, FS_AddElement
    <2>2. Cardinality(g) <= Cardinality(h \cup {s})
        BY <1>10, <2>1, FS_Subset
    <2> QED BY <1>8, <2>1, <2>2
<1>11. ASSUME NEW s \in h, g \subseteq h \ {s}
       PROVE  Cardinality(g) + 1 <= Cardinality(h)
    <2>1. IsFiniteSet(h \ {s}) /\ Cardinality(h \ {s}) = Cardinality(h) - 1
        BY <1>1, FS_RemoveElement
    <2>2. Cardinality(g) <= Cardinality(h \ {s})
        BY <1>11, <2>1, FS_Subset
    <2> QED BY <1>8, <2>1, <2>2
<1>12. DebtGrows => Debt' <= Debt + 1
    <2>1. CASE g \subseteq h
        BY <1>2, <1>3, <1>8, <1>9, <2>1
    <2>2. CASE (Owed' => Owed) /\ \E s \in Nat : g \subseteq h \cup {s}
        BY <1>2, <1>3, <1>8, <1>10, <2>2
    <2> QED BY <1>5, <2>1, <2>2
<1>13. \A s \in h : g \subseteq h \ {s} /\ (Owed' => Owed) => Debt' + 1 <= Debt
    BY <1>2, <1>3, <1>8, <1>11
<1> QED BY <1>1, <1>2, <1>3, <1>4, <1>6, <1>7, <1>8, <1>9, <1>12, <1>13, <1>14

\* Losses in seconds.
LEMMA SecondsPay ==
    ASSUME NEW a \in Nat, NEW b \in Nat, NEW c \in Nat, NEW d \in Nat
    PROVE  /\ Second * a \in Nat /\ Second * b \in Nat
           /\ a + b <= c + d => Second * a + Second * b <= Second * c + Second * d
           /\ a + b + 1 <= c + d => Second * a + Second * b + Second <= Second * c + Second * d
<1>1. Second \in Nat
    BY TimeAssumption
<1>2. \A x \in Nat : Second * x \in Nat /\ Second * x = x * Second
    BY <1>1
<1>3. \A x, y \in Nat : (x + y) * Second = x * Second + y * Second
    BY <1>1
<1>4. a + b <= c + d => (a + b) * Second <= (c + d) * Second
    BY SecondsGrow
<1>5. a + b + 1 <= c + d => (a + b) * Second + Second <= (c + d) * Second
    <2>1. a + b + 1 <= c + d => a + b < c + d
        OBVIOUS
    <2>2. a + b \in Nat /\ c + d \in Nat
        OBVIOUS
    <2>3. a + b < c + d => (a + b + 1) * Second = (a + b) * Second + Second
                           /\ (a + b + 1) * Second <= (c + d) * Second
        BY <2>2, SecondsAdd
    <2> HIDE DEF One
    <2> QED BY <2>1, <2>3
<1> DEFINE A == Second * a
           B == Second * b
           C == Second * c
           D == Second * d
<1>6. (a + b) * Second = A + B /\ (c + d) * Second = C + D
    BY <1>2, <1>3
<1>7. A \in Nat /\ B \in Nat
    BY <1>2
<1> HIDE DEF A, B, C, D
<1> QED BY <1>4, <1>5, <1>6, <1>7 DEF A, B, C, D

\* What is added to the queue of rcopy leaves what is in it on its way.
LEMMA StillComing ==
    ASSUME TypeOK,
           toClient' = toClient \/ \E p \in ClientBound : toClient' = Append(toClient, p)
    PROVE  \A s : Coming(s) => Coming(s)'
<1>1. SUFFICES ASSUME NEW s, NEW i \in 1..Len(toClient), toClient[i] # Corrupted, toClient[i].seq = s
               PROVE  Coming(s)'
    BY DEF Coming
<1>2. toClient \in Seq(ClientBound) /\ Len(toClient) \in Nat
    BY Lengths
<1>3. i \in 1..Len(toClient') /\ toClient'[i] = toClient[i]
    <2>1. CASE toClient' = toClient
        BY <2>1
    <2>2. ASSUME NEW p \in ClientBound, toClient' = Append(toClient, p)
          PROVE  i \in 1..Len(toClient') /\ toClient'[i] = toClient[i]
        BY <1>2, <2>2, Appended
    <2> QED BY <2>1, <2>2
<1> QED BY <1>1, <1>3 DEF Coming

LEMMA NowComing ==
    ASSUME TypeOK, NEW p \in ClientBound, p # Corrupted, toClient' = Append(toClient, p)
    PROVE  Coming(p.seq)'
<1>1. toClient \in Seq(ClientBound) /\ Len(toClient) \in Nat
    BY Lengths
<1>2. Len(toClient') = Len(toClient) + 1 /\ toClient'[Len(toClient) + 1] = p
    BY <1>1, Appended
<1>3. Len(toClient) + 1 \in 1..Len(toClient')
    BY <1>1, <1>2
<1> QED BY <1>2, <1>3 DEF Coming

\* When rcopy takes a packet, only that one is no longer on its way.
LEMMA TakenComing ==
    ASSUME TypeOK, toClient # <<>>, toClient' = Tail(toClient)
    PROVE  /\ \A s : Coming(s)' => Coming(s)
           /\ \A s : Coming(s) => Coming(s)' \/ (Head(toClient) # Corrupted /\ Head(toClient).seq = s)
           /\ Head(toClient) # Corrupted => Coming(Head(toClient).seq)
<1>1. toClient \in Seq(ClientBound) /\ Len(toClient) \in Nat
    BY Lengths
<1>2. /\ Head(toClient) = toClient[1] /\ 1 \in 1..Len(toClient)
      /\ Len(toClient') = Len(toClient) - 1
      /\ \A i \in 1..Len(toClient') : i + 1 \in 1..Len(toClient) /\ toClient'[i] = toClient[i + 1]
    BY <1>1, HeadAndTail
<1>3. ASSUME NEW s, Coming(s)'
      PROVE  Coming(s)
    BY <1>2, <1>3 DEF Coming
<1>4. ASSUME NEW s, Coming(s)
      PROVE  Coming(s)' \/ (Head(toClient) # Corrupted /\ Head(toClient).seq = s)
    <2>1. PICK i \in 1..Len(toClient) : toClient[i] # Corrupted /\ toClient[i].seq = s
        BY <1>4 DEF Coming
    <2>2. CASE i = 1
        BY <1>2, <2>1, <2>2
    <2>3. CASE i # 1
        <3>1. i - 1 \in 1..Len(toClient') /\ (i - 1) + 1 = i
            BY <1>1, <1>2, <2>3
        <3>2. toClient'[i - 1] = toClient[i]
            BY <1>2, <3>1
        <3> QED BY <2>1, <3>1, <3>2 DEF Coming
    <2> QED BY <2>2, <2>3
<1> QED BY <1>2, <1>3, <1>4 DEF Coming

\* What the child reads while rcopy is there is an RR or the SREJ of a chunk it has.
LEMMA ReadsAck ==
    ASSUME RingInv, EofAnswered, rcv \notin Gone,
           NEW next, NEW onEof, process_rr_srej_eof(next, onEof)
    PROVE  LET p == Head(toServer) IN
           /\ toServer # <<>> /\ toServer' = Tail(toServer) /\ srv' = next
           /\ p.data \in Nat /\ window.lowest <= p.data /\ p.data <= buffer.current
           /\ \/ /\ p.flag = FLAG_RR /\ UNCHANGED <<toClient, faults>>
                 /\ window' \in CircularBuffer /\ window'.lowest = p.data
                 /\ window'.current = window.current
              \/ /\ p.flag = FLAG_SREJ /\ p.flag # FLAG_RR /\ UNCHANGED window
                 /\ SendToClient(build_packet(p.data, FLAG_RESENT_DATA, p.data))
<1> DEFINE p == Head(toServer)
<1>1. TypeOK /\ window \in CircularBuffer /\ toServer \in Seq(ServerBound) /\ Len(toServer) \in Nat
    BY RingFacts, Edges, Lengths
<1>2. toServer # <<>> /\ toServer' = Tail(toServer)
    BY DEF process_rr_srej_eof
<1>3. p \in ServerBound /\ p = toServer[1] /\ 1 \in 1..Len(toServer)
    BY <1>1, <1>2, HeadAndTail
<1> HIDE DEF p
<1>4. p # Corrupted /\ p.flag # FLAG_EOF
    BY <1>3 DEF RingInv, ShelteredInv, AcksInv, EofAnswered, InFlight
<1>5. p.data \in Nat /\ p.flag \in {FLAG_RR, FLAG_SREJ}
    BY <1>3, <1>4 DEF ServerBound, build_packet
<1>6. /\ window.lowest <= p.data /\ p.data <= buffer.current
      /\ p.flag = FLAG_SREJ => p.data < window.current
    BY <1>3, <1>5 DEF RingInv, ShelteredInv, AcksInv, IsAck
<1>7. FLAG_RR # FLAG_SREJ
    BY DEF FLAG_RR, FLAG_SREJ
<1>8. CASE p.flag = FLAG_RR
    <2>1. window' = AdvanceWindow(window, p.data) /\ srv' = next /\ UNCHANGED <<toClient, faults>>
        BY <1>4, <1>7, <1>8 DEF process_rr_srej_eof, p, BadChecksum
    <2> QED BY <1>1, <1>2, <1>5, <1>6, <1>8, <2>1, AdvanceType DEF p
<1>9. CASE p.flag = FLAG_SREJ
    <2>1. resend_packet(p.data, FLAG_RESENT_DATA, next) /\ UNCHANGED window
        BY <1>4, <1>7, <1>9 DEF process_rr_srej_eof, p, BadChecksum
    <2>2. Entry(window, p.data).data = p.data /\ p.data # Uninit
        BY <1>1, <1>5, <1>6, <1>9, RetainedEntry DEF RingInv, ShelteredInv, WindowInv
    <2>3. srv' = next /\ SendToClient(build_packet(p.data, FLAG_RESENT_DATA, p.data))
        BY <2>1, <2>2 DEF resend_packet, PayloadOf
    <2> QED BY <1>2, <1>5, <1>6, <1>7, <1>9, <2>1, <2>3 DEF p
<1> QED BY <1>5, <1>8, <1>9

\* A packet that is sent, or lost at a cost.
LEMMA SentForOne ==
    ASSUME TypeOK, Len(toClient) < QueueCap, NEW p \in ClientBound, p # Corrupted, SendToClient(p)
    PROVE  /\ \A s : Coming(s) => Coming(s)'
           /\ \A s : Coming(s)' => Coming(s) \/ s = p.seq
           /\ \/ faults' = faults /\ Coming(p.seq)'
              \/ faults' = faults + 1
<1>1. toClient' = toClient \/ toClient' = Append(toClient, p) \/ toClient' = Append(toClient, Corrupted)
    BY DataSent
<1>2. Corrupted \in ClientBound
    BY DEF ClientBound
<1>3. faults' = faults \/ faults' = faults + 1
    BY Edges, SendToClientCost
<1>4. faults' = faults => Coming(p.seq)'
    BY SentWhole, NowComing
<1>5. ASSUME NEW s, Coming(s)'
      PROVE  Coming(s) \/ s = p.seq
    <2>1. PICK i \in 1..Len(toClient') : toClient'[i] # Corrupted /\ toClient'[i].seq = s
        BY <1>5 DEF Coming
    <2>2. toClient \in Seq(ClientBound) /\ Len(toClient) \in Nat
        BY Lengths
    <2>3. CASE toClient' = toClient
        BY <2>1, <2>3 DEF Coming
    <2>4. ASSUME NEW q \in {p, Corrupted}, toClient' = Append(toClient, q)
          PROVE  Coming(s) \/ s = p.seq
        <3>1. /\ Len(toClient') = Len(toClient) + 1 /\ toClient'[Len(toClient) + 1] = q
              /\ \A j \in 1..Len(toClient) : toClient'[j] = toClient[j]
            BY <1>2, <2>2, <2>4, Appended
        <3>2. CASE i \in 1..Len(toClient)
            BY <2>1, <3>1, <3>2 DEF Coming
        <3>3. CASE i = Len(toClient) + 1
            BY <2>1, <2>4, <3>1, <3>3
        <3> QED BY <2>2, <3>1, <3>2, <3>3
    <2> QED BY <1>1, <2>3, <2>4
<1> QED BY <1>1, <1>2, <1>3, <1>4, <1>5, StillComing

\* When only packets are added, the debt cannot grow by what rcopy misses.
LEMMA SameHoles ==
    ASSUME UNCHANGED buffer, \A s : Coming(s) => Coming(s)'
    PROVE  /\ window'.current = window.current =>
                  Holes' \subseteq Holes /\ \A s : Coming(s)' => Holes' \subseteq Holes \ {s}
           /\ TypeOK /\ window'.current = window.current + 1 =>
                  /\ Holes' \subseteq Holes \cup {window.current}
                  /\ \A s : s = window.current /\ Coming(s)' => Holes' \subseteq Holes
<1>1. \A s : Filled(s)' <=> Filled(s)
    BY DEF Filled, Entry
<1>2. CASE window'.current = window.current
    BY <1>1, <1>2 DEF Holes
<1>3. ASSUME TypeOK, window'.current = window.current + 1
      PROVE  /\ Holes' \subseteq Holes \cup {window.current}
             /\ \A s : s = window.current /\ Coming(s)' => Holes' \subseteq Holes
    <2>1. \A s \in buffer'.current..(window'.current - 1) :
             s \in buffer.current..(window.current - 1) \/ s = window.current
        BY <1>3, Edges
    <2> QED BY <1>1, <2>1 DEF Holes
<1> QED BY <1>2, <1>3

LEMMA SameAnswers ==
    ASSUME UNCHANGED <<buffer, rcv>>
    PROVE  Answering' <=> Answering
BY DEF Answering, FlushAnswers, Entry, NothingMissing

\* The steps of the child that are no time-outs.
LEMMA ServerDebt ==
    ASSUME RingInv, SocketsHold, EofAnswered, ServerStep, UNCHANGED rcopyVars, rcv \notin Gone
    PROVE  DebtStays \/ DebtGrows
<1>1. TypeOK /\ UNCHANGED <<buffer, rcv>> /\ Len(toClient) < QueueCap
    BY RingFacts DEF rcopyVars, SocketsHold
<1>2. /\ window.current \in Nat /\ window.lowest \in Nat /\ buffer.current \in Nat /\ faults \in Nat
      /\ window.lowest <= buffer.current
      /\ toClient \in Seq(ClientBound) /\ toServer \in Seq(ServerBound) /\ Len(toServer) \in Nat
    BY <1>1, Edges, Lengths, RingFacts
<1>3. Answering' <=> Answering
    BY <1>1, SameAnswers
<1>4. CASE SendData
    <2>1. PICK p \in ClientBound :
             /\ p # Corrupted /\ p.seq = window.current
             /\ window'.current = window.current + 1
             /\ window'.lowest = window.lowest
             /\ srv = "SEND_DATA" /\ srv' = "DRAIN" /\ toServer' = toServer
             /\ \/ faults' = faults /\ toClient' = Put(toClient, "sent", p)
                \/ faults' = faults + 1 /\ toClient' \in {toClient, Append(toClient, Corrupted)}
        BY <1>1, <1>4, DataLeaves
    <2>2. toClient' = Append(toClient, p) \/ toClient' = toClient \/ toClient' = Append(toClient, Corrupted)
        BY <1>1, <2>1, PutCases
    <2>3. \A s : Coming(s) => Coming(s)'
        <3>1. Corrupted \in ClientBound
            BY DEF ClientBound
        <3> QED BY <1>1, <2>2, <3>1, StillComing
    <2>4. Owed' => Owed
        BY <1>1, <1>3, <2>1, <2>3 DEF Owed, AckMissing, EofSilent, AckComing, EofStates
    <2>5. CASE faults' = faults
        <3>1. toClient' = Append(toClient, p)
            <4>1. toClient' = Put(toClient, "sent", p)
                BY <1>2, <2>1, <2>5
            <4> QED BY <1>1, <1>2, <4>1, Delivered, Lengths
        <3>2. Holes' \subseteq Holes
            <4>1. Coming(p.seq)'
                BY <1>1, <2>1, <3>1, NowComing
            <4> QED BY <1>1, <2>1, <2>3, <4>1, SameHoles
        <3> QED BY <2>4, <3>2 DEF DebtStays
    <2>6. CASE faults' = faults + 1
        <3>1. Holes' \subseteq Holes \cup {window.current}
            BY <1>1, <2>1, <2>3, SameHoles
        <3>2. faults' >= faults + 1
            BY <1>2, <2>6
        <3> QED BY <1>2, <2>4, <3>1, <3>2 DEF DebtGrows
    <2> QED BY <2>1, <2>5, <2>6
<1>5. CASE SendEof
    <2>1. PICK p \in ClientBound :
             /\ p # Corrupted /\ p.seq = window.current
             /\ srv' = "EOF_POLL" /\ UNCHANGED <<window, toServer>>
             /\ \/ faults' = faults /\ toClient' = Put(toClient, "sent", p)
                \/ faults' = faults + 1 /\ toClient' \in {toClient, Append(toClient, Corrupted)}
        BY <1>1, <1>5, EofLeaves
    <2>2. toClient' = Append(toClient, p) \/ toClient' = toClient \/ toClient' = Append(toClient, Corrupted)
        BY <1>1, <2>1, PutCases
    <2>3. Holes' \subseteq Holes
        <3>1. Corrupted \in ClientBound
            BY DEF ClientBound
        <3>2. \A s : Coming(s) => Coming(s)'
            BY <1>1, <2>2, <3>1, StillComing
        <3> QED BY <1>1, <2>1, <3>2, SameHoles
    <2>4. CASE faults' = faults
        <3>1. toClient' = Append(toClient, p)
            <4>1. toClient' = Put(toClient, "sent", p)
                BY <1>2, <2>1, <2>4
            <4> QED BY <1>1, <1>2, <4>1, Delivered, Lengths
        <3>2. Coming(p.seq)' /\ p.seq \in Nat
            BY <1>1, <1>2, <2>1, <3>1, NowComing
        <3>3. ~Owed'
            BY <2>1, <3>2 DEF Owed, AckMissing, EofSilent, EofStates
        <3> QED BY <2>3, <3>3 DEF DebtStays
    <2>5. CASE faults' = faults + 1
        <3>1. faults' >= faults + 1
            BY <1>2, <2>5
        <3> QED BY <2>3, <3>1 DEF DebtGrows
    <2> QED BY <2>1, <2>4, <2>5
<1>6. CASE Silent
    <2>1. /\ UNCHANGED <<window, toClient, toServer, faults>> /\ srv \notin EofStates
          /\ srv' \notin EofStates \/ srv' = "WAIT_EOF_ACK"
        BY <1>6, SilentEffect
    <2>2. \A s : Coming(s)' <=> Coming(s)
        BY <2>1 DEF Coming
    <2>3. Holes' \subseteq Holes
        BY <1>1, <2>1, <2>2, SameHoles
    <2>4. Owed' => Owed
        BY <1>1, <1>3, <2>1, <2>2 DEF Owed, AckMissing, EofSilent, AckComing, EofStates
    <2> QED BY <2>3, <2>4 DEF DebtStays
<1>7. ASSUME NEW next, NEW onEof, Reads(next, onEof)
      PROVE  DebtStays
    <2> DEFINE p == Head(toServer)
    <2>1. process_rr_srej_eof(next, onEof)
        BY <1>7 DEF Reads
    <2>2. /\ toServer # <<>> /\ toServer' = Tail(toServer) /\ srv' = next
          /\ p.data \in Nat /\ window.lowest <= p.data /\ p.data <= buffer.current
          /\ \/ /\ p.flag = FLAG_RR /\ toClient' = toClient
                /\ window'.lowest = p.data /\ window'.current = window.current
             \/ /\ p.flag # FLAG_RR /\ window' = window
                /\ SendToClient(build_packet(p.data, FLAG_RESENT_DATA, p.data))
        BY <2>1, ReadsAck
    <2>3. /\ p = toServer[1]
          /\ \A i \in 1..Len(toServer') : i + 1 \in 1..Len(toServer) /\ toServer'[i] = toServer[i + 1]
          /\ Len(toServer') = Len(toServer) - 1
        BY <1>2, <2>2, HeadAndTail
    <2>4. /\ srv' # "EOF_POLL"
          /\ srv' \notin EofStates => srv \notin EofStates
        BY <1>7, <2>2 DEF Reads, WindowFull, EofStates
    <2> HIDE DEF p
    <2>5. \A s : Coming(s) => Coming(s)'
        <3>1. CASE toClient' = toClient
            BY <3>1 DEF Coming
        <3>2. CASE SendToClient(build_packet(p.data, FLAG_RESENT_DATA, p.data))
            <4>1. build_packet(p.data, FLAG_RESENT_DATA, p.data) \in ClientBound
                BY <2>2 DEF build_packet, ClientBound, Payload, DataFlags
            <4>2. Corrupted \in ClientBound
                BY DEF ClientBound
            <4> QED BY <1>1, <3>2, <4>1, <4>2, DataSent, StillComing
        <3> QED BY <2>2, <3>1, <3>2
    <2>6. Holes' \subseteq Holes
        BY <1>1, <2>2, <2>5, SameHoles
    <2>7. AckMissing' => AckMissing
        <3>1. SUFFICES ASSUME AckMissing'
                       PROVE  AckMissing
            OBVIOUS
        <3>2. /\ srv \notin EofStates /\ ~Answering
              /\ \A s \in 0..(buffer.current - 1) : ~Coming(s)
              /\ window'.lowest # buffer.current /\ ~AckComing'
            BY <1>1, <1>3, <2>4, <2>5, <3>1 DEF AckMissing
        <3>3. ~AckComing
            <4>1. SUFFICES ASSUME NEW i \in 1..Len(toServer), toServer[i].flag = FLAG_RR,
                                  toServer[i].data = buffer.current
                           PROVE  FALSE
                BY DEF AckComing
            <4>2. i # 1
                BY <2>2, <2>3, <3>2, <4>1
            <4>3. i - 1 \in 1..Len(toServer') /\ (i - 1) + 1 = i
                BY <1>2, <2>3, <4>2
            <4>4. toServer'[i - 1] = toServer[i]
                BY <2>3, <4>3
            <4> QED BY <1>1, <3>2, <4>1, <4>3, <4>4 DEF AckComing
        <3>4. window.lowest # buffer.current
            BY <1>2, <2>2, <3>2
        <3> QED BY <3>2, <3>3, <3>4 DEF AckMissing
    <2> QED BY <2>4, <2>6, <2>7 DEF DebtStays, Owed, EofSilent
<1> QED BY <1>4, <1>5, <1>6, <1>7, ServerSteps

\* What rcopy holds is ahead of what it expects, and less than a window.
LEMMA HeldAhead ==
    ASSUME RingInv, rcv \notin Gone, NEW s \in Nat, Filled(s)
    PROVE  /\ rcv \in {"BUFFER", "FLUSH"}
           /\ buffer.current <= s /\ s <= buffer.current + WindowSize
           /\ rcv = "BUFFER" => s # buffer.current
           /\ rcv = "FLUSH" => s < buffer.current + WindowSize
<1>1. rcv \in {"INORDER", "BUFFER", "FLUSH"} /\ buffer.current \in Nat
    BY RingFacts, Edges DEF TypeOK, RcopyTypeOK, RecvStates, Gone
<1>2. Slot(s) \in Slots
    BY SlotInRange
<1>3. buffer.entries[Slot(s)].valid_flag /\ buffer.entries[Slot(s)].sequence_num = s
    BY DEF Filled, Entry
<1> QED BY <1>1, <1>2, <1>3 DEF RingInv, ShelteredInv, HeldInv

\* A packet that is stored takes no other's place.
LEMMA StoreHoles ==
    ASSUME RingInv, rcv \in Receiving, toClient # <<>>, toClient' = Tail(toClient),
           NEW p \in ClientBound, p = Head(toClient), p # Corrupted, buffer' = Stored(buffer, p),
           buffer.current < p.seq, p.seq <= buffer.current + WindowSize,
           NEW s \in Nat, Coming(s) \/ Filled(s)
    PROVE  Coming(s)' \/ Filled(s)'
<1>1. /\ TypeOK /\ buffer \in CircularBuffer /\ buffer.current \in Nat /\ WindowSize \in Nat
      /\ buffer.entries \in [Slots -> BufferEntry]
    BY RingFacts, Edges DEF CircularBuffer
<1>2. p.seq \in Nat /\ p.data \in Payload
    BY ClientPacket
<1>3. Slot(p.seq) \in Slots /\ Slot(s) \in Slots
    BY <1>2, SlotInRange
<1>4. buffer'.entries = [buffer.entries EXCEPT ![Slot(p.seq)] =
                [valid_flag |-> TRUE, sequence_num |-> p.seq, data |-> p.data]]
    BY <1>1, <1>2, StoredBuffer
<1>5. CASE s = p.seq
    BY <1>1, <1>3, <1>4, <1>5 DEF Filled, Entry
<1>6. CASE s # p.seq /\ Coming(s)
    BY <1>1, <1>6, TakenComing
<1>7. CASE s # p.seq /\ Filled(s)
    <2>1. buffer.current < s /\ s <= buffer.current + WindowSize
        BY <1>1, <1>7, HeldAhead DEF Receiving, Gone
    <2>2. Slot(s) # Slot(p.seq)
        <3>1. CASE s < p.seq
            BY <1>1, <1>2, <2>1, <3>1, SlotInjective
        <3>2. CASE p.seq < s
            BY <1>1, <1>2, <2>1, <3>2, SlotInjective
        <3> QED BY <1>2, <1>7, <3>1, <3>2
    <2> QED BY <1>1, <1>3, <1>4, <1>7, <2>2 DEF Filled, Entry
<1> QED BY <1>5, <1>6, <1>7

\* No step of rcopy makes a packet missing that was not.
LEMMA ClientHoles ==
    ASSUME RingInv, ClientStep, UNCHANGED serverVars, rcv' \notin Gone
    PROVE  Holes' \subseteq Holes
<1> DEFINE p == Head(toClient)
           c == buffer.current
<1>1. TypeOK /\ window' = window
    BY RingFacts DEF serverVars
<1>2. /\ c \in Nat /\ WindowSize \in Nat /\ window.current \in Nat /\ buffer \in CircularBuffer
      /\ buffer.entries \in [Slots -> BufferEntry]
    BY <1>1, Edges DEF CircularBuffer
<1>3. ASSUME buffer'.current \in Nat, buffer'.current >= c,
             \A s \in Nat : s >= buffer'.current /\ (Coming(s) \/ Filled(s)) => Coming(s)' \/ Filled(s)'
      PROVE  Holes' \subseteq Holes
    <2>1. ASSUME NEW s \in buffer'.current..(window'.current - 1), ~Filled(s)', ~Coming(s)'
          PROVE  s \in c..(window.current - 1) /\ ~Filled(s) /\ ~Coming(s)
        BY <1>1, <1>2, <1>3, <2>1
    <2> QED BY <2>1 DEF Holes
<1>4. ASSUME NEW st \in Receiving, Received(st, p), buffer'.entries = buffer.entries,
             buffer'.current \in Nat, buffer'.current >= c,
             p # Corrupted => p.seq < buffer'.current /\ p.seq \in Nat
      PROVE  Holes' \subseteq Holes
    <2>1. toClient # <<>> /\ toClient' = Tail(toClient)
        BY <1>4 DEF Received
    <2>2. ASSUME NEW s \in Nat, s >= buffer'.current, Coming(s) \/ Filled(s)
          PROVE  Coming(s)' \/ Filled(s)'
        <3>1. Filled(s) => Filled(s)'
            BY <1>4 DEF Filled, Entry
        <3>2. Coming(s) => Coming(s)'
            BY <1>1, <1>4, <2>1, <2>2, TakenComing
        <3> QED BY <2>2, <3>1, <3>2
    <2> QED BY <1>3, <1>4, <2>2
<1>5. ASSUME NEW st \in Receiving, Accepted(st, p)
      PROVE  /\ rcv = st /\ Received(st, p) /\ toClient # <<>> /\ toClient' = Tail(toClient)
             /\ p \in ClientBound /\ p # Corrupted /\ p.seq \in Nat /\ p.seq <= c + WindowSize
    BY <1>1, <1>5, AcceptedPacket DEF Accepted, Received, BadChecksum, RingInv, ShelteredInv
<1>6. ASSUME NEW st \in Receiving, DropCorrupted(st) \/ AckAgain(st)
      PROVE  Holes' \subseteq Holes
    <2>1. Received(st, p) /\ buffer' = buffer
        BY <1>6 DEF DropCorrupted, AckAgain, Accepted, Received, rcopyVars
    <2>2. p # Corrupted => p.seq < c /\ p.seq \in Nat
        <3>1. CASE DropCorrupted(st)
            BY <3>1 DEF DropCorrupted, Received
        <3>2. CASE AckAgain(st)
            BY <1>5, <3>2 DEF AckAgain
        <3> QED BY <1>6, <3>1, <3>2
    <2> HIDE DEF p
    <2> QED BY <1>2, <1>4, <2>1, <2>2
<1>7. ASSUME WriteInorder \/ FillGap
      PROVE  Holes' \subseteq Holes
    <2>1. PICK st \in Receiving : Accepted(st, p) /\ p.seq = c
        BY <1>7 DEF WriteInorder, FillGap, Receiving
    <2>2. buffer'.entries = buffer.entries /\ buffer'.current = c + 1
        BY <1>2, <1>7, NextExpected DEF WriteInorder, FillGap
    <2>3. Received(st, p)
        BY <1>5, <2>1
    <2> HIDE DEF p, c
    <2>4. buffer'.current \in Nat /\ buffer'.current >= c /\ c < buffer'.current
        BY <1>2, <2>2
    <2> QED BY <1>2, <1>4, <2>1, <2>2, <2>3, <2>4
<1>8. ASSUME GapFound \/ StoreEarly
      PROVE  Holes' \subseteq Holes
    <2>1. PICK st \in Receiving : Accepted(st, p) /\ p.seq > c /\ buffer' = Stored(buffer, p)
        BY <1>8 DEF GapFound, StoreEarly, Receiving
    <2>2. /\ rcv = st /\ toClient # <<>> /\ toClient' = Tail(toClient)
          /\ p \in ClientBound /\ p # Corrupted /\ p.seq \in Nat /\ p.seq <= c + WindowSize
        BY <1>5, <2>1
    <2>3. \A s \in Nat : Coming(s) \/ Filled(s) => Coming(s)' \/ Filled(s)'
        <3>1. c < p.seq
            BY <1>2, <2>1, <2>2
        <3> QED BY <2>1, <2>2, <3>1, StoreHoles
    <2>4. buffer'.current = c
        BY <1>2, <2>1, <2>2, ClientPacket, StoredBuffer
    <2> HIDE DEF p
    <2> QED BY <1>2, <1>3, <2>3, <2>4
<1>9. ASSUME FlushEntry
      PROVE  Holes' \subseteq Holes
    <2>1. /\ rcv = "FLUSH" /\ rcv \notin Gone /\ Entry(buffer, c).valid_flag /\ toClient' = toClient
          /\ buffer' = [buffer EXCEPT !.entries[Slot(buffer.current)].valid_flag = FALSE, !.current = @ + 1]
        BY <1>9 DEF FlushEntry, Gone
    <2>2. /\ buffer'.current = c + 1
          /\ buffer'.entries = [buffer.entries EXCEPT ![Slot(c)] =
                                  [Entry(buffer, c) EXCEPT !.valid_flag = FALSE]]
        BY <1>2, <2>1, FlushedEntry
    <2> HIDE DEF c
    <2>3. ASSUME NEW s \in Nat, s >= buffer'.current, Coming(s) \/ Filled(s)
          PROVE  Coming(s)' \/ Filled(s)'
        <3>1. CASE Coming(s)
            BY <2>1, <3>1 DEF Coming
        <3>2. CASE Filled(s)
            <4>1. c < s /\ s < c + WindowSize
                BY <1>2, <2>1, <2>2, <2>3, <3>2, HeldAhead DEF c
            <4>2. Slot(c) # Slot(s) /\ Slot(c) \in Slots /\ Slot(s) \in Slots
                BY <1>2, <4>1, SlotInjective, SlotInRange
            <4> QED BY <1>2, <2>2, <3>2, <4>2 DEF Filled, Entry
        <3> QED BY <2>3, <3>1, <3>2
    <2>4. buffer'.current \in Nat /\ buffer'.current >= c
        BY <1>2, <2>2
    <2> QED BY <1>3, <2>3, <2>4
<1>10. ASSUME FlushEnd
       PROVE  Holes' \subseteq Holes
    <2>1. buffer' = buffer /\ toClient' = toClient
        BY <1>10 DEF FlushEnd
    <2> QED BY <1>1, <2>1, SameHoles DEF Coming
<1>11. \/ \E st \in Receiving : DropCorrupted(st) \/ AckAgain(st)
       \/ WriteInorder \/ FillGap \/ GapFound \/ StoreEarly \/ FlushEntry \/ FlushEnd
    BY DEF ClientStep, handle_inorder, handle_buffer, handle_flush, ExitTransfer, Gone, Receiving
<1> QED BY <1>6, <1>7, <1>8, <1>9, <1>10, <1>11

\* An RR for all rcopy has is on its way when it was sent, or it cost a loss.
LEMMA RROwesNothing ==
    ASSUME TypeOK, Len(toServer) < QueueCap, NEW n \in Nat, buffer'.current = n, SendToServer(RR(n))
    PROVE  faults' >= faults + 1 \/ ~Owed'
<1>1. faults \in Nat /\ (faults' = faults \/ faults' = faults + 1) /\ RR(n) \in ServerBound
    BY Edges, SendToServerCost, AckType
<1>2. CASE faults' = faults
    <2>1. /\ toServer' = Append(toServer, RR(n)) /\ Len(toServer') = Len(toServer) + 1
          /\ toServer'[Len(toServer) + 1] = RR(n) /\ Len(toServer) \in Nat
        BY <1>1, <1>2, AckDelivered, Lengths
    <2>2. RR(n).flag = FLAG_RR /\ RR(n).data = n
        BY DEF RR, build_packet
    <2>3. Len(toServer) + 1 \in 1..Len(toServer')
        BY <2>1
    <2>4. AckComing'
        BY <2>1, <2>2, <2>3 DEF AckComing
    <2>5. toServer' # <<>>
        BY <2>1
    <2> QED BY <2>4, <2>5 DEF Owed, AckMissing, EofSilent
<1> QED BY <1>1, <1>2

\* A second acknowledgment does not take back the first.
LEMMA AckStaysComing ==
    ASSUME TypeOK, buffer'.current = buffer.current,
           toServer' = toServer \/ \E p \in ServerBound : toServer' = Append(toServer, p)
    PROVE  AckComing => AckComing'
<1>1. SUFFICES ASSUME NEW i \in 1..Len(toServer), toServer[i].flag = FLAG_RR,
                      toServer[i].data = buffer.current
               PROVE  AckComing'
    BY DEF AckComing
<1>2. i \in 1..Len(toServer') /\ toServer'[i] = toServer[i]
    <2>1. toServer \in Seq(ServerBound) /\ Len(toServer) \in Nat
        BY Lengths
    <2>2. CASE toServer' = toServer
        BY <2>2
    <2>3. ASSUME NEW p \in ServerBound, toServer' = Append(toServer, p)
          PROVE  i \in 1..Len(toServer') /\ toServer'[i] = toServer[i]
        BY <2>1, <2>3, Appended
    <2> QED BY <2>2, <2>3
<1> QED BY <1>1, <1>2 DEF AckComing

\* A step of rcopy leaves an answer out only when one was lost, or when it buffers a
\* chunk while the child, at the end, does not repeat the one that is missing.
LEMMA ClientOwes ==
    ASSUME Sheltered, RingInv, HighestHeld, SocketsHold, ClientStep, UNCHANGED serverVars,
           rcv' \notin Gone
    PROVE  (Owed' => Owed) \/ faults' >= faults + 1 \/ GapLost'
<1> DEFINE p == Head(toClient)
           c == buffer.current
<1>1. /\ TypeOK /\ UNCHANGED <<window, srv>>
      /\ Len(toServer) < QueueCap /\ Len(toServer) + 1 < QueueCap
    <2>1. TypeOK /\ Len(toServer) \in Nat /\ QueueCap \in Nat
        BY RingFacts, Lengths, Edges
    <2> QED BY <2>1 DEF serverVars, SocketsHold
<1>2. /\ c \in Nat /\ WindowSize \in Nat /\ faults \in Nat /\ buffer \in CircularBuffer
      /\ buffer.highest \in Nat /\ toServer \in Seq(ServerBound)
    BY <1>1, Edges, Lengths DEF CircularBuffer
<1>3. ASSUME NEW st \in Receiving, Accepted(st, p)
      PROVE  /\ rcv = st /\ toClient # <<>> /\ toClient' = Tail(toClient)
             /\ p \in ClientBound /\ p # Corrupted /\ p.seq \in Nat /\ Coming(p.seq)
             /\ ~Answering
    <2>1. /\ rcv = st /\ toClient # <<>> /\ toClient' = Tail(toClient)
          /\ p \in ClientBound /\ p # Corrupted /\ p.seq \in Nat
        BY <1>1, <1>3, AcceptedPacket DEF Accepted, Received, BadChecksum, RingInv, ShelteredInv
    <2> QED BY <1>1, <2>1, TakenComing DEF Answering, Receiving
<1>4. ASSUME NEW st \in Receiving, DropCorrupted(st)
      PROVE  Owed' => Owed
    <2>1. /\ UNCHANGED <<buffer, rcv, toServer>> /\ toClient # <<>> /\ toClient' = Tail(toClient)
          /\ p = Corrupted
        BY <1>4 DEF DropCorrupted, Received, rcopyVars
    <2>2. \A s : Coming(s) => Coming(s)'
        BY <1>1, <2>1, TakenComing
    <2>3. Answering' <=> Answering
        BY <2>1, SameAnswers
    <2> QED BY <1>1, <2>1, <2>2, <2>3 DEF Owed, AckMissing, EofSilent, AckComing
<1>5. ASSUME NEW st \in Receiving, AckAgain(st)
      PROVE  faults' >= faults + 1 \/ ~Owed'
    <2>1. SendToServer(RR(c)) /\ buffer' = buffer
        BY <1>5 DEF AckAgain, rcopyVars
    <2> QED BY <1>1, <1>2, <2>1, RROwesNothing
<1>6. ASSUME WriteInorder
      PROVE  faults' >= faults + 1 \/ ~Owed'
    <2>1. SendToServer(RR(buffer'.current)) /\ buffer'.current = c + 1
        BY <1>2, <1>6, NextExpected DEF WriteInorder
    <2> QED BY <1>1, <1>2, <2>1, RROwesNothing
<1>7. ASSUME GapFound
      PROVE  (Owed' => Owed) \/ faults' >= faults + 1
    <2>1. Accepted("INORDER", p) /\ p.seq > c /\ SendToServer(SREJ(c)) /\ buffer' = Stored(buffer, p)
        BY <1>7 DEF GapFound
    <2>2. /\ rcv = "INORDER" /\ toClient # <<>> /\ toClient' = Tail(toClient)
          /\ p \in ClientBound /\ p # Corrupted /\ p.seq \in Nat /\ ~Answering
        BY <1>3, <2>1 DEF Receiving
    <2>3. buffer'.current = c /\ SREJ(c) \in ServerBound
        BY <1>2, <2>1, <2>2, ClientPacket, StoredBuffer, AckType
    <2>4. AckComing => AckComing'
        BY <1>1, <2>1, <2>3, AckSent, AckStaysComing
    <2>5. AckMissing' => AckMissing
        <3>1. \A s : Coming(s) => Coming(s)' \/ p.seq = s
            BY <1>1, <2>2, TakenComing
        <3>2. \A s \in 0..(c - 1) : s # p.seq
            BY <1>2, <2>1, <2>2
        <3> QED BY <1>1, <2>2, <2>3, <2>4, <3>1, <3>2 DEF AckMissing
    <2>6. faults' >= faults + 1 \/ ~EofSilent'
        <3>1. faults' = faults \/ faults' = faults + 1
            BY <1>2, <2>1, SendToServerCost
        <3>2. CASE faults' = faults
            <4>1. Len(toServer') = Len(toServer) + 1 /\ toServer' = Append(toServer, SREJ(c))
                BY <1>1, <2>1, <2>3, <3>2, AckDelivered
            <4>2. toServer' # <<>>
                BY <1>2, <4>1
            <4> QED BY <4>2 DEF EofSilent
        <3> QED BY <1>2, <3>1, <3>2
    <2> QED BY <2>5, <2>6 DEF Owed
<1>8. ASSUME FillGap
      PROVE  ~Owed'
    <2>1. /\ rcv = "BUFFER" /\ rcv' = "FLUSH"
          /\ buffer' = [buffer EXCEPT !.current = @ + 1]
        BY <1>8 DEF FillGap, Accepted, Received
    <2>2. buffer'.current = c + 1 /\ buffer'.highest = buffer.highest /\ buffer'.entries = buffer.entries
        BY <1>2, <2>1, NextExpected
    <2>3. buffer.highest > c /\ Entry(buffer, buffer.highest).valid_flag
        BY <1>2, <2>1 DEF HighestHeld
    <2>4. FlushAnswers'
        <3>1. CASE buffer.highest = c + 1
            BY <2>2, <2>3, <3>1 DEF FlushAnswers, Entry
        <3>2. CASE buffer.highest # c + 1
            <4>1. ~(buffer'.current >= buffer'.highest)
                BY <1>2, <2>2, <2>3, <3>2
            <4> QED BY <4>1 DEF FlushAnswers, NothingMissing
        <3> QED BY <3>1, <3>2
    <2> QED BY <2>1, <2>4 DEF Owed, AckMissing, EofSilent, Answering
<1>9. ASSUME StoreEarly
      PROVE  (Owed' => Owed) \/ GapLost'
    <2>1. /\ Accepted("BUFFER", p) /\ p.seq > c /\ UNCHANGED <<rcv, toServer>>
          /\ buffer' = Stored(buffer, p)
        BY <1>9 DEF StoreEarly
    <2>2. /\ rcv = "BUFFER" /\ toClient # <<>> /\ toClient' = Tail(toClient)
          /\ p \in ClientBound /\ p # Corrupted /\ p.seq \in Nat /\ ~Answering
        BY <1>3, <2>1 DEF Receiving
    <2>3. buffer'.current = c
        BY <1>2, <2>1, <2>2, ClientPacket, StoredBuffer
    <2>4. AckMissing' => AckMissing
        <3>1. \A s : Coming(s) => Coming(s)' \/ p.seq = s
            BY <1>1, <2>2, TakenComing
        <3>2. \A s \in 0..(c - 1) : s # p.seq
            BY <1>2, <2>1, <2>2
        <3>3. AckComing => AckComing'
            BY <2>1, <2>3 DEF AckComing
        <3> QED BY <1>1, <2>2, <2>3, <3>1, <3>2, <3>3 DEF AckMissing
    <2>5. EofSilent' => GapLost'
        <3>1. SUFFICES ASSUME EofSilent'
                       PROVE  GapLost'
            OBVIOUS
        <3>2. 1..Len(toServer') = {} /\ srv' \in EofStates /\ rcv' = "BUFFER"
            BY <2>1, <2>2, <3>1 DEF EofSilent, EofStates
        <3>3. \A s \in Nat : ~Coming(s)'
            BY <3>1 DEF EofSilent
        <3>4. \A s : s = c => ~Coming(s)'
            BY <1>2, <3>3
        <3>5. ~Coming(buffer.current)'
            BY <2>3, <3>4 DEF Coming
        <3> QED BY <3>2, <3>5 DEF GapLost
    <2> QED BY <2>4, <2>5 DEF Owed
<1>10. ASSUME FlushEntry
       PROVE  faults' >= faults + 1 \/ ~Owed'
    <2>1. SendToServer(RR(buffer'.current)) /\ buffer'.current = c + 1
        BY <1>2, <1>10, FlushedEntry DEF FlushEntry
    <2> QED BY <1>1, <1>2, <2>1, RROwesNothing
<1>11. ASSUME FlushEnd
       PROVE  (Owed' => Owed) \/ faults' >= faults + 1
    <2>1. /\ UNCHANGED <<buffer, toClient>> /\ rcv = "FLUSH" /\ ~Entry(buffer, c).valid_flag
          /\ rcv' \in Receiving
        BY <1>11 DEF FlushEnd, Receiving
    <2>2. CASE NothingMissing(buffer)
        <3>1. toServer' = toServer /\ ~Answering
            BY <1>11, <2>1, <2>2 DEF FlushEnd, Answering, FlushAnswers
        <3>2. \A s : Coming(s)' <=> Coming(s)
            BY <2>1 DEF Coming
        <3> QED BY <1>1, <2>1, <3>1, <3>2 DEF Owed, AckMissing, EofSilent, AckComing
    <2>3. CASE ~NothingMissing(buffer)
        <3>1. SendTwoToServer(SREJ(c), RR(c)) /\ SREJ(c) \in ServerBound /\ RR(c) \in ServerBound
            BY <1>2, <1>11, <2>3, AckType DEF FlushEnd
        <3>2. PICK f \in Fates(ClientErrors), g \in Fates(ClientErrors) :
                  /\ faults' = faults + Cost(f) + Cost(g)
                  /\ toServer' = Put(Put(toServer, f, SREJ(c)), g, RR(c))
            BY <3>1 DEF SendTwoToServer
        <3>3. Cost(f) \in 0..1 /\ Cost(g) \in 0..1
            BY DEF Cost
        <3>4. CASE Cost(f) = 0 /\ Cost(g) = 0
            <4>1. f = "sent" /\ g = "sent"
                BY <3>4 DEF Cost
            <4>2. toServer' = Append(Append(toServer, SREJ(c)), RR(c))
                <5> DEFINE q == Append(toServer, SREJ(c))
                <5>1. Put(toServer, f, SREJ(c)) = q
                    BY <1>1, <1>2, <4>1, Delivered, Lengths
                <5>2. Len(q) = Len(toServer) + 1 /\ Len(q) \in Nat
                    BY <1>2, <3>1, Appended
                <5> HIDE DEF q
                <5>3. Put(q, g, RR(c)) = Append(q, RR(c))
                    BY <1>1, <4>1, <5>2, Delivered
                <5> QED BY <3>2, <5>1, <5>3 DEF q
            <4>3. /\ Len(toServer') = Len(toServer) + 2
                  /\ toServer'[Len(toServer) + 2] = RR(c)
                <5> DEFINE q == Append(toServer, SREJ(c))
                <5>1. q \in Seq(ServerBound) /\ Len(q) = Len(toServer) + 1 /\ Len(toServer) \in Nat
                    BY <1>2, <3>1, Appended
                <5> HIDE DEF q
                <5>2. Len(Append(q, RR(c))) = Len(q) + 1 /\ Append(q, RR(c))[Len(q) + 1] = RR(c)
                    BY <3>1, <5>1, Appended
                <5> QED BY <4>2, <5>1, <5>2 DEF q
            <4>4. Len(toServer) + 2 \in 1..Len(toServer') /\ toServer' # <<>>
                BY <1>2, <4>3
            <4>5. RR(c).flag = FLAG_RR /\ RR(c).data = c
                BY DEF RR, build_packet
            <4>6. AckComing'
                BY <2>1, <4>3, <4>4, <4>5 DEF AckComing
            <4> QED BY <4>4, <4>6 DEF Owed, AckMissing, EofSilent
        <3>5. CASE ~(Cost(f) = 0 /\ Cost(g) = 0)
            BY <1>2, <3>2, <3>3, <3>5
        <3> QED BY <3>4, <3>5
    <2> QED BY <2>2, <2>3
<1>12. \/ \E st \in Receiving : DropCorrupted(st) \/ AckAgain(st)
       \/ WriteInorder \/ FillGap \/ GapFound \/ StoreEarly \/ FlushEntry \/ FlushEnd
    BY DEF ClientStep, handle_inorder, handle_buffer, handle_flush, ExitTransfer, Gone, Receiving
<1> QED BY <1>4, <1>5, <1>6, <1>7, <1>8, <1>9, <1>10, <1>11, <1>12

LEMMA ClientDebt ==
    ASSUME Sheltered, RingInv, HighestHeld, SocketsHold, ClientStep, UNCHANGED serverVars,
           rcv' \notin Gone
    PROVE  DebtStays \/ DebtGrows \/ GapLost'
BY ClientHoles, ClientOwes DEF DebtStays, DebtGrows

\* A time-out of the child repeats what rcopy misses or has rcopy repeat what the
\* child misses, unless the packet is lost again.
LEMMA TimeoutPays ==
    ASSUME RingInv, RingInv', SocketsHold, ServerTimeout, UNCHANGED rcopyVars,
           toClient = <<>>, toServer = <<>>, rcv \in Receiving
    PROVE  \/ Alone'
           \/ faults' = faults /\ Debt' + 1 <= Debt
           \/ faults' = faults + 1 /\ Debt' <= Debt
<1> DEFINE l == window.lowest
           c == buffer.current
           n == window.current
<1>1. /\ TypeOK /\ TypeOK' /\ UNCHANGED <<buffer, rcv>> /\ Len(toClient) < QueueCap
      /\ rcv \notin Gone
    BY RingFacts DEF rcopyVars, SocketsHold, RingInv, AnyNetworkInv, Receiving, Gone
<1>2. /\ l \in Nat /\ c \in Nat /\ n \in Nat /\ l <= c /\ l < window.highest
    BY <1>1, Edges, RingFacts
<1>3. (\A s : ~Coming(s)) /\ ~AckComing /\ ~Answering
    <2>1. 1..Len(toClient) = {} /\ 1..Len(toServer) = {}
        OBVIOUS
    <2> QED BY <2>1 DEF Coming, AckComing, Answering, Receiving
<1>4. CASE FullTimeout
    <2>1. /\ srv = "WINDOW_FULL" /\ n = window.highest /\ UNCHANGED <<window, toServer>>
          /\ \/ srv' = "DONE" /\ toClient' = toClient
             \/ resend_packet(l, FLAG_RESENT_TIMEOUT, "WINDOW_FULL")
        BY <1>4 DEF FullTimeout, WindowFull
    <2>2. CASE srv' = "DONE" /\ toClient' = toClient
        BY <1>1, <2>2 DEF Alone, Stopped
    <2>3. CASE resend_packet(l, FLAG_RESENT_TIMEOUT, "WINDOW_FULL")
        <3>0. PICK p : p = build_packet(l, FLAG_RESENT_TIMEOUT, l)
            OBVIOUS
        <3>1. srv' = "WINDOW_FULL" /\ SendToClient(p)
            <4>1. Entry(window, l).data = l /\ l # Uninit
                <5>1. RetainedForResend
                    BY DEF RingInv, ShelteredInv, WindowInv
                <5> QED BY <1>1, <1>2, <2>1, <5>1, RetainedEntry
            <4> QED BY <2>3, <3>0, <4>1 DEF resend_packet, PayloadOf
        <3>2. p \in ClientBound /\ p # Corrupted /\ p.seq = l
            BY <1>2, <3>0 DEF build_packet, ClientBound, Payload, DataFlags, FLAG_RESENT_TIMEOUT, Corrupted
        <3>3. /\ \A s : Coming(s) => Coming(s)'
              /\ \/ faults' = faults /\ Coming(p.seq)'
                 \/ faults' = faults + 1
            BY <1>1, <3>1, <3>2, SentForOne
        <3>4. Holes' \subseteq Holes /\ \A s : Coming(s)' => Holes' \subseteq Holes \ {s}
            BY <1>1, <2>1, <3>3, SameHoles
        <3>5. ~EofSilent'
            BY <3>1 DEF EofSilent
        <3>6. CASE l = c
            <4>1. c \in Holes
                <5>1. ~Filled(c)
                    BY <1>1, <1>2, HeldAhead DEF Receiving
                <5>2. c \in c..(n - 1)
                    BY <1>2, <2>1, <3>6
                <5> QED BY <1>3, <5>1, <5>2 DEF Holes
            <4>2. ~Owed'
                BY <1>1, <2>1, <3>5, <3>6 DEF Owed, AckMissing
            <4>3. CASE faults' = faults /\ Coming(p.seq)'
                BY <1>1, <3>2, <3>4, <3>6, <4>1, <4>2, <4>3, DebtCounts
            <4>4. CASE faults' = faults + 1
                BY <1>1, <3>4, <4>2, <4>4, DebtCounts DEF DebtStays
            <4> QED BY <3>3, <4>3, <4>4
        <3>7. CASE l # c
            <4>1. Owed
                BY <1>3, <2>1, <3>7 DEF Owed, AckMissing, EofStates
            <4>2. CASE faults' = faults /\ Coming(p.seq)'
                <5>1. p.seq \in 0..(c - 1)
                    BY <1>2, <3>2, <3>7
                <5>2. ~Owed'
                    BY <1>1, <3>5, <4>2, <5>1 DEF Owed, AckMissing
                <5> QED BY <1>1, <3>4, <4>1, <4>2, <5>2, DebtCounts
            <4>3. CASE faults' = faults + 1
                BY <1>1, <3>4, <4>1, <4>3, DebtCounts DEF DebtStays
            <4> QED BY <3>3, <4>2, <4>3
        <3> QED BY <3>6, <3>7
    <2> QED BY <2>1, <2>2, <2>3
<1>5. CASE EofTimeout
    <2>1. srv = "EOF_POLL" /\ UNCHANGED <<window, toClient, faults>> /\ srv' \in {"DONE", "WAIT_EOF_ACK"}
        BY <1>5 DEF EofTimeout, netVars
    <2>2. CASE srv' = "DONE"
        BY <1>1, <2>1, <2>2 DEF Alone, Stopped
    <2>3. CASE srv' = "WAIT_EOF_ACK"
        <3>1. Owed
            BY <1>3, <2>1 DEF Owed, EofSilent
        <3>2. ~Owed'
            BY <2>3 DEF Owed, AckMissing, EofSilent, EofStates
        <3>3. Holes' \subseteq Holes
            BY <1>1, <2>1, SameHoles DEF Coming
        <3> QED BY <1>1, <2>1, <3>1, <3>2, <3>3, DebtCounts
    <2> QED BY <2>1, <2>2, <2>3
<1> QED BY <1>4, <1>5 DEF ServerTimeout

\* In BUFFER the whole file has not been received.
LEMMA GapFacts ==
    ASSUME RingInv, HighestHeld, GapLost
    PROVE  /\ rcv = "BUFFER" /\ rcv \notin Gone
           /\ buffer.current \in Nat /\ buffer.current < NumChunks
           /\ window.current = NumChunks /\ srv \in EofStates
<1>1. rcv = "BUFFER" /\ srv \in EofStates
    BY DEF GapLost
<1>2. /\ buffer.highest \in Nat /\ buffer.highest <= window.current /\ window.current = NumChunks
      /\ NumChunks \in Nat
    BY <1>1, RingFacts, ServerAssumption
<1>3. buffer.highest > buffer.current /\ buffer.current \in Nat
    BY <1>1, RingFacts, Edges DEF HighestHeld
<1> QED BY <1>1, <1>2, <1>3 DEF Gone

\* The child does not repeat the chunk.
LEMMA GapServer ==
    ASSUME RingInv, SocketsHold, HighestHeld, EofAnswered, GapLost, ServerStep, UNCHANGED rcopyVars
    PROVE  GapLost'
<1> DEFINE c == buffer.current
<1>1. TypeOK /\ UNCHANGED <<buffer, rcv>> /\ Len(toClient) < QueueCap
    BY RingFacts DEF rcopyVars, SocketsHold
<1>2. rcv = "BUFFER" /\ rcv \notin Gone /\ c \in Nat /\ c < NumChunks /\ window.current = NumChunks
      /\ srv \in EofStates /\ NumChunks \in Nat
    BY GapFacts, ServerAssumption
<1>3. /\ ~Coming(c)
      /\ \A i \in 1..Len(toServer) : ~(toServer[i].flag = FLAG_SREJ /\ toServer[i].data = c)
    BY DEF GapLost
<1>4. ASSUME srv' \in EofStates, \A s : s = c => ~Coming(s)',
             \A i \in 1..Len(toServer') : \E j \in 1..Len(toServer) : toServer'[i] = toServer[j]
      PROVE  GapLost'
    <2>1. ~Coming(buffer.current)'
        BY <1>1, <1>4 DEF Coming
    <2> QED BY <1>1, <1>2, <1>3, <1>4, <2>1 DEF GapLost
<1>5. CASE SendEof
    <2> DEFINE p == build_packet(window.current, FLAG_EOF, NoData)
    <2>1. SendToClient(p) /\ srv' = "EOF_POLL" /\ toServer' = toServer
        BY <1>5 DEF SendEof
    <2>2. p \in ClientBound /\ p # Corrupted /\ p.seq = NumChunks
        BY <1>2 DEF build_packet, ClientBound, Payload, Corrupted, FLAG_EOF
    <2> HIDE DEF p
    <2>3. \A s : Coming(s)' => Coming(s) \/ s = NumChunks
        BY <1>1, <2>1, <2>2, SentForOne
    <2>4. \A s : s = c => ~Coming(s)'
        BY <1>2, <1>3, <2>3
    <2> QED BY <1>4, <2>1, <2>4 DEF EofStates
<1>6. ASSUME NEW next, NEW onEof, Reads(next, onEof)
      PROVE  GapLost'
    <2> DEFINE p == Head(toServer)
    <2>1. process_rr_srej_eof(next, onEof) /\ next = "WAIT_EOF_ACK"
        BY <1>2, <1>6 DEF Reads, WindowFull, EofStates
    <2>2. /\ toServer # <<>> /\ toServer' = Tail(toServer) /\ srv' = next
          /\ p.data \in Nat
          /\ \/ toClient' = toClient
             \/ /\ p.flag = FLAG_SREJ
                /\ SendToClient(build_packet(p.data, FLAG_RESENT_DATA, p.data))
        BY <1>2, <2>1, ReadsAck
    <2>3. /\ p = toServer[1] /\ 1 \in 1..Len(toServer)
          /\ \A i \in 1..Len(toServer') : i + 1 \in 1..Len(toServer) /\ toServer'[i] = toServer[i + 1]
        BY <1>1, <2>2, HeadAndTail, Lengths
    <2> HIDE DEF p
    <2>4. \A s : s = c => ~Coming(s)'
        <3>1. CASE toClient' = toClient
            BY <1>3, <3>1 DEF Coming
        <3>2. CASE p.flag = FLAG_SREJ /\ SendToClient(build_packet(p.data, FLAG_RESENT_DATA, p.data))
            <4> DEFINE m == build_packet(p.data, FLAG_RESENT_DATA, p.data)
            <4>1. m \in ClientBound /\ m # Corrupted /\ m.seq = p.data
                BY <2>2 DEF build_packet, ClientBound, Payload, DataFlags, FLAG_RESENT_DATA, Corrupted
            <4>2. SendToClient(m)
                BY <3>2
            <4> HIDE DEF m
            <4>3. \A s : Coming(s)' => Coming(s) \/ s = p.data
                BY <1>1, <4>1, <4>2, SentForOne
            <4>4. p.data # c
                BY <1>3, <2>3, <3>2
            <4> QED BY <1>3, <4>3, <4>4
        <3> QED BY <2>2, <3>1, <3>2
    <2> QED BY <1>4, <2>1, <2>2, <2>3, <2>4 DEF EofStates
<1>7. ~SendData /\ ~Silent
    <2>1. ~SendData
        BY <1>2 DEF SendData, EofStates
    <2>2. Silent => srv \notin EofStates
        BY SilentEffect
    <2> QED BY <1>2, <2>1, <2>2
<1> QED BY <1>5, <1>6, <1>7, ServerSteps

\* rcopy does not ask for it, and cannot end.
LEMMA GapClient ==
    ASSUME Sheltered, RingInv, HighestHeld, GapLost, ClientStep, UNCHANGED serverVars
    PROVE  GapLost'
<1> DEFINE c == buffer.current
           p == Head(toClient)
<1>1. TypeOK /\ srv' = srv
    BY RingFacts DEF serverVars
<1>2. rcv = "BUFFER" /\ c \in Nat /\ c < NumChunks /\ srv \in EofStates /\ NumChunks \in Nat
      /\ buffer \in CircularBuffer
    BY <1>1, GapFacts, ServerAssumption, Edges
<1>3. /\ ~Coming(c)
      /\ \A i \in 1..Len(toServer) : ~(toServer[i].flag = FLAG_SREJ /\ toServer[i].data = c)
    BY DEF GapLost
<1>4. DropCorrupted("BUFFER") \/ ExitTransfer("BUFFER") \/ FillGap \/ StoreEarly \/ AckAgain("BUFFER")
    BY <1>2 DEF ClientStep, handle_inorder, handle_buffer, handle_flush, FlushEntry, FlushEnd,
           DropCorrupted, ExitTransfer, WriteInorder, GapFound, AckAgain, Accepted, Received
<1>5. toClient # <<>> /\ toClient' = Tail(toClient)
    BY <1>4 DEF DropCorrupted, ExitTransfer, FillGap, StoreEarly, AckAgain, Accepted, Received
<1>6. (\A s : Coming(s)' => Coming(s)) /\ (p # Corrupted => Coming(p.seq))
    BY <1>1, <1>5, TakenComing
<1>7. ~ExitTransfer("BUFFER")
    <2>1. SUFFICES ASSUME ExitTransfer("BUFFER")
                   PROVE  FALSE
        OBVIOUS
    <2>2. Received("BUFFER", p) /\ ~BadChecksum(p) /\ p.flag = FLAG_EOF /\ c > p.seq
        BY <2>1 DEF ExitTransfer, IsLastEof
    <2>3. p.seq = NumChunks
        BY <1>1, <2>2, AcceptedPacket DEF RingInv, ShelteredInv
    <2> QED BY <1>2, <2>2, <2>3
<1>8. ~FillGap
    BY <1>3, <1>6 DEF FillGap, Accepted, BadChecksum
<1>9. ASSUME buffer'.current = c, rcv' = "BUFFER",
             toServer' = toServer \/ toServer' = Append(toServer, RR(c))
      PROVE  GapLost'
    <2>1. \A s : s = c => ~Coming(s)'
        BY <1>3, <1>6
    <2>2. ~Coming(buffer.current)'
        BY <1>9, <2>1 DEF Coming
    <2>3. ASSUME NEW i \in 1..Len(toServer'), toServer'[i].flag = FLAG_SREJ
          PROVE  toServer'[i].data # c
        <3>1. CASE toServer' = toServer
            BY <1>3, <2>3, <3>1
        <3>2. CASE toServer' = Append(toServer, RR(c))
            <4>1. /\ Len(toServer') = Len(toServer) + 1 /\ toServer'[Len(toServer) + 1] = RR(c)
                  /\ \A j \in 1..Len(toServer) : toServer'[j] = toServer[j]
                  /\ Len(toServer) \in Nat
                BY <1>1, <1>2, <3>2, AckType, Appended, Lengths
            <4>2. RR(c).flag # FLAG_SREJ
                BY DEF RR, build_packet, FLAG_RR, FLAG_SREJ
            <4>3. CASE i = Len(toServer) + 1
                BY <2>3, <4>1, <4>2, <4>3
            <4>4. CASE i \in 1..Len(toServer)
                BY <1>3, <2>3, <4>1, <4>4
            <4> QED BY <4>1, <4>3, <4>4
        <3> QED BY <1>9, <3>1, <3>2
    <2> QED BY <1>1, <1>2, <1>9, <2>2, <2>3 DEF GapLost
<1>10. CASE DropCorrupted("BUFFER")
    BY <1>2, <1>9, <1>10 DEF DropCorrupted, rcopyVars
<1>11. CASE StoreEarly
    <2>1. rcv' = "BUFFER" /\ toServer' = toServer /\ buffer' = Stored(buffer, p)
          /\ p \in ClientBound
        BY <1>1, <1>2, <1>5, <1>11, HeadAndTail, Lengths DEF StoreEarly
    <2>2. buffer'.current = c
        BY <1>2, <2>1, ClientPacket, StoredBuffer
    <2> QED BY <1>9, <2>1, <2>2
<1>12. CASE AckAgain("BUFFER")
    BY <1>2, <1>9, <1>12, AckSent DEF AckAgain, rcopyVars
<1> QED BY <1>4, <1>7, <1>8, <1>10, <1>11, <1>12

\* What a step adds to the debt it adds to the losses.
LEMMA DebtForLoss ==
    ASSUME TypeOK, TypeOK', faults' >= faults, DebtStays \/ DebtGrows
    PROVE  Debt' + faults <= Debt + faults'
<1> DEFINE d == Debt
           e == Debt'
           f == faults
           g == faults'
<1>1. d \in Nat /\ e \in Nat /\ f \in Nat /\ g \in Nat /\ g >= f
    <2>1. faults' \in Nat /\ faults \in Nat
        BY DEF TypeOK
    <2> QED BY <2>1, DebtCounts
<1>2. e <= d \/ (e <= d + 1 /\ g >= f + 1)
    BY DebtCounts DEF DebtGrows
<1>3. e + f <= d + g
    <2> HIDE DEF d, e, f, g
    <2> QED BY <1>1, <1>2
<1> QED BY <1>3

\* An inequality between what has gone by and what was lost survives a step that is
\* free of time when the debt grows by no more than the losses.
LEMMA DebtPaid ==
    ASSUME TypeOK, TypeOK', clock \in Nat, lag \in Nat, UNCHANGED <<clock, lag>>,
           BothWait \in Nat, BothWait' \in Nat,
           clock + Second * Debt <= Second * faults + lag + BothWait,
           \/ Debt' + faults <= Debt + faults' /\ BothWait = 0
           \/ Debt' + faults + 1 <= Debt + faults' /\ BothWait <= Second
    PROVE  clock' + Second * Debt' <= Second * faults' + lag' + BothWait'
<1> DEFINE d == Debt
           e == Debt'
           f == faults
           g == faults'
<1>1. d \in Nat /\ e \in Nat /\ f \in Nat /\ g \in Nat /\ Second \in Nat
    <2>1. faults' \in Nat
        BY DEF TypeOK
    <2> QED BY <2>1, DebtCounts, Edges, TimeAssumption
<1>2. clock + Second * d <= Second * f + lag + BothWait
    OBVIOUS
<1>3. \/ e + f <= d + g /\ BothWait = 0
      \/ e + f + 1 <= d + g /\ BothWait <= Second
    OBVIOUS
<1> HIDE DEF d, e, f, g
<1>4. /\ Second * d \in Nat /\ Second * e \in Nat /\ Second * f \in Nat /\ Second * g \in Nat
      /\ e + f <= d + g => Second * e + Second * f <= Second * d + Second * g
      /\ e + f + 1 <= d + g => Second * e + Second * f + Second <= Second * d + Second * g
    BY <1>1, SecondsPay
<1> DEFINE sd == Second * d
           se == Second * e
           sf == Second * f
           sg == Second * g
           w == BothWait
           v == BothWait'
<1>5. clock + se <= sg + lag + v
    <2> HIDE DEF sd, se, sf, sg, w, v
    <2>2. w \in Nat /\ v \in Nat
        BY DEF w, v
    <2>1. /\ sd \in Nat /\ se \in Nat /\ sf \in Nat /\ sg \in Nat
          /\ clock + sd <= sf + lag + w
          /\ \/ se + sf <= sd + sg /\ w = 0
             \/ se + sf + Second <= sd + sg /\ w <= Second
        BY <1>2, <1>3, <1>4 DEF sd, se, sf, sg, w
    <2> QED BY <1>1, <2>1, <2>2
<1>6. clock + Second * Debt' <= Second * faults' + lag + BothWait'
    BY <1>5 DEF e, g
<1> QED BY <1>6

LEMMA DebtServer ==
    ASSUME Sheltered, ShortLag, SocketsHold, RingInv, RingInv', ClockInv, ClockInv', BusyInv,
           EofAnswered, HighestHeld, DebtInv, AServerNext, TimedServer
    PROVE  DebtInv'
<1>1. SUFFICES ASSUME rcv' \notin Gone
               PROVE  DebtInv'
    BY DEF DebtInv
<1>2. /\ UNCHANGED rcopyVars /\ rcv \notin Gone /\ UNCHANGED <<clock, lag>>
      /\ TypeOK /\ TypeOK'
    BY <1>1 DEF AServerNext, TimedServer, rcopyVars, RingInv, AnyNetworkInv
<1>3. /\ clock \in Nat /\ lag \in Nat /\ BothWait \in Nat /\ BothWait' \in Nat /\ BothWait <= Second
      /\ faults \in Nat /\ faults' \in Nat
    <2>1. serverClock \in 0..Second /\ serverClock' \in 0..Second /\ Second \in Nat
        BY TimeAssumption DEF ClockInv
    <2> QED BY <1>2, <2>1, TimeAssumption DEF ClockInv, BothWait, TypeOK
<1>4. CASE ServerStep
    <2>1. CASE GapLost
        <3>1. GapLost'
            BY <1>2, <1>4, <2>1, GapServer
        <3> QED BY <3>1 DEF DebtInv
    <2>2. ~Alone /\ ~ServerPolls
        BY <1>4 DEF ServerStep, SendData, ReadEof, WindowClosed, DrainRecv, DrainDone, FullRecv,
               FullDone, SendEof, EofRecv, process_rr_srej_eof, ServerPolls, WindowFull, Alone, Stopped
    <2>3. CASE ~GapLost
        <3>1. clock + Second * Debt <= Second * faults + lag + BothWait
            BY <1>2, <2>2, <2>3 DEF DebtInv
        <3>2. DebtStays \/ DebtGrows
            BY <1>2, <1>4, ServerDebt
        <3>3. Debt' + faults <= Debt + faults'
            BY <1>2, <3>2, DebtForLoss, FaultsGrow
        <3>4. BothWait = 0
            BY <2>2 DEF BothWait
        <3> QED BY <1>2, <1>3, <3>1, <3>3, <3>4, DebtPaid DEF DebtInv
    <2> QED BY <2>1, <2>3
<1>5. CASE ServerTimeout /\ serverClock = ServerPollTime
    <2>1. toClient = <<>> /\ toServer = <<>> /\ rcv \in Receiving
        BY <1>2, <1>5, LateTimeout DEF ServerPollTime
    <2>2. \/ Alone'
          \/ faults' = faults /\ Debt' + 1 <= Debt
          \/ faults' = faults + 1 /\ Debt' <= Debt
        BY <1>2, <1>5, <2>1, TimeoutPays
    <2>3. ~Alone
        BY <1>5 DEF ServerTimeout, FullTimeout, EofTimeout, WindowFull, Alone, Stopped
    <2>4. CASE GapLost /\ ~Alone'
        <3>1. /\ srv' \in EofStates /\ UNCHANGED <<toClient, toServer, buffer, rcv>>
              /\ rcv = "BUFFER" /\ ~Coming(buffer.current)
            <4>1. srv \in EofStates /\ rcv = "BUFFER" /\ ~Coming(buffer.current)
                BY <2>4 DEF GapLost
            <4>2. EofTimeout
                BY <1>5, <4>1 DEF ServerTimeout, FullTimeout, WindowFull, EofStates
            <4>3. /\ srv' \in {"DONE", "WAIT_EOF_ACK"}
                  /\ UNCHANGED <<toClient, toServer, buffer, rcv>>
                BY <1>2, <4>2 DEF EofTimeout, netVars, rcopyVars
            <4> QED BY <2>1, <2>4, <4>1, <4>3 DEF Alone, Stopped, EofStates
        <3>2. ~Coming(buffer.current)'
            BY <3>1 DEF Coming
        <3>3. 1..Len(toServer') = {}
            BY <2>1, <3>1
        <3>4. GapLost'
            BY <3>1, <3>2, <3>3 DEF GapLost
        <3> QED BY <3>4 DEF DebtInv
    <2>5. CASE ~GapLost /\ ~Alone'
        <3>1. clock + Second * Debt <= Second * faults + lag + BothWait
            BY <1>2, <2>3, <2>5 DEF DebtInv
        <3>2. Debt' + faults + 1 <= Debt + faults'
            <4> DEFINE d == Debt
                       e == Debt'
                       f == faults
                       g == faults'
            <4>1. d \in Nat /\ e \in Nat /\ f \in Nat /\ g \in Nat
                BY <1>2, <1>3, DebtCounts
            <4>2. (g = f /\ e + 1 <= d) \/ (g = f + 1 /\ e <= d)
                BY <2>2, <2>5
            <4>3. e + f + 1 <= d + g
                <5> HIDE DEF d, e, f, g
                <5> QED BY <4>1, <4>2
            <4> QED BY <4>3
        <3> QED BY <1>2, <1>3, <3>1, <3>2, DebtPaid DEF DebtInv
    <2> QED BY <2>4, <2>5 DEF DebtInv
<1> QED BY <1>4, <1>5 DEF TimedServer

LEMMA DebtClient ==
    ASSUME Sheltered, SocketsHold, RingInv, RingInv', ClockInv, ClockInv', HighestHeld, DebtInv,
           AClientNext, TimedClient
    PROVE  DebtInv'
<1>1. SUFFICES ASSUME rcv' \notin Gone
               PROVE  DebtInv'
    BY DEF DebtInv
<1>2. ClientStep
    BY <1>1 DEF TimedClient, ClientTimeout, Gone
<1>3. /\ UNCHANGED serverVars /\ UNCHANGED <<clock, lag>> /\ TypeOK /\ TypeOK'
      /\ rcv \notin Gone
    <2>1. rcv \in {"INORDER", "BUFFER", "FLUSH"}
        BY <1>2 DEF ClientStep, handle_inorder, handle_buffer, handle_flush, FlushEntry, FlushEnd,
               DropCorrupted, ExitTransfer, WriteInorder, GapFound, FillGap, StoreEarly, AckAgain,
               Accepted, Received
    <2> QED BY <1>1, <2>1 DEF AClientNext, TimedClient, RingInv, AnyNetworkInv, Gone
<1>4. CASE GapLost
    <2>1. GapLost'
        BY <1>2, <1>3, <1>4, GapClient
    <2> QED BY <2>1 DEF DebtInv
<1>5. ~Alone /\ BothWait = 0
    <2>1. rcv = "FLUSH" \/ toClient # <<>>
        BY <1>2, <1>3, ClientReads
    <2> QED BY <2>1 DEF Alone, BothWait, ClientPolls, Receiving
<1>6. CASE ~GapLost /\ ~GapLost'
    <2>1. clock + Second * Debt <= Second * faults + lag + BothWait
        BY <1>3, <1>5, <1>6 DEF DebtInv
    <2>2. DebtStays \/ DebtGrows
        BY <1>1, <1>2, <1>3, <1>6, ClientDebt
    <2>3. /\ faults \in Nat /\ faults' \in Nat /\ clock \in Nat /\ lag \in Nat
          /\ BothWait \in Nat /\ BothWait' \in Nat
        <3>1. serverClock' \in 0..Second /\ Second \in Nat
            BY TimeAssumption DEF ClockInv
        <3> QED BY <1>3, <1>5, <3>1, TimeAssumption DEF ClockInv, BothWait, TypeOK
    <2>4. Debt' + faults <= Debt + faults'
        BY <1>3, <2>2, DebtForLoss, FaultsGrow
    <2> QED BY <1>3, <1>5, <2>1, <2>3, <2>4, DebtPaid DEF DebtInv
<1> QED BY <1>4, <1>6 DEF DebtInv

LEMMA DebtTick ==
    ASSUME RingInv, ClockInv, DebtInv, Tick
    PROVE  DebtInv'
<1>1. /\ UNCHANGED <<window, filePos, srv, attempts, buffer, rcv, out, toClient, toServer, faults>>
      /\ clock' = clock + 1
      /\ serverClock' = IF ServerPolls THEN serverClock + 1 ELSE 0
      /\ \/ NothingDue /\ lag' = lag
         \/ ~NothingDue /\ lag' = lag + 1
    BY DEF Tick, vars, serverVars, rcopyVars, netVars
<1>2. Debt' = Debt
    <2>1. Holes' = Holes
        BY <1>1 DEF Holes, Filled, Entry, Coming
    <2>2. Owed' <=> Owed
        BY <1>1 DEF Owed, AckMissing, EofSilent, AckComing, Answering, FlushAnswers, Entry,
               NothingMissing, Coming
    <2> QED BY <2>1, <2>2 DEF Debt, One
<1>3. /\ GapLost' <=> GapLost
      /\ Alone' <=> Alone
      /\ (ServerPolls /\ ClientPolls)' <=> (ServerPolls /\ ClientPolls)
    BY <1>1 DEF GapLost, Coming, Alone, ServerPolls, WindowFull, ClientPolls
<1>4. SUFFICES ASSUME rcv \notin Gone, ~GapLost, ~Alone,
                      clock + Second * Debt <= Second * faults + lag + BothWait
               PROVE  clock' + Second * Debt' <= Second * faults' + lag' + BothWait'
    BY <1>1, <1>3 DEF DebtInv
<1>5. /\ clock \in Nat /\ lag \in Nat /\ serverClock \in Nat
      /\ Second * Debt \in Nat /\ Second * faults \in Nat
    <2>1. TypeOK /\ faults \in Nat
        BY RingFacts, Edges
    <2>2. Debt \in Nat
        <3>1. TypeOK'
            BY <1>1, <2>1, StutterType DEF vars, serverVars, rcopyVars, netVars
        <3> QED BY <2>1, <3>1, DebtCounts
    <2>3. Second \in Nat /\ MaxLag \in Nat
        BY TimeAssumption
    <2>4. Second * Debt \in Nat /\ Second * faults \in Nat
        BY <2>1, <2>2, <2>3
    <2> QED BY <2>3, <2>4 DEF ClockInv
<1>6. lag' + BothWait' = lag + BothWait + 1 /\ BothWait \in Nat
    <2>1. CASE ServerPolls /\ ClientPolls
        BY <1>1, <1>3, <1>5, <2>1 DEF BothWait, NothingDue
    <2>2. CASE ~(ServerPolls /\ ClientPolls)
        <3>1. ~NothingDue
            <4>1. ~Spinning
                BY RingFacts, Edges DEF RingInv, ShelteredInv, WindowInv, Spinning
            <4> QED BY <1>4, <2>2, <4>1 DEF NothingDue, Alone, ClientPolls
        <3> QED BY <1>1, <1>3, <1>5, <2>2, <3>1 DEF BothWait
    <2> QED BY <2>1, <2>2
<1> DEFINE d == Second * Debt
           f == Second * faults
           w == BothWait
           v == BothWait'
           k == lag'
<1>7. /\ clock + d <= f + lag + w /\ d \in Nat /\ f \in Nat
      /\ w \in Nat /\ k + v = lag + w + 1
    BY <1>4, <1>5, <1>6
<1>8. k \in Nat /\ v \in Nat
    <2>1. serverClock' \in Nat
        BY <1>1, <1>5
    <2> QED BY <1>1, <1>5, <2>1 DEF BothWait
<1>9. clock + 1 + d <= f + k + v
    <2> HIDE DEF d, f, w, v, k
    <2> QED BY <1>5, <1>7, <1>8
<1> QED BY <1>1, <1>2, <1>9

LEMMA DebtNext ==
    ASSUME Sheltered, ShortLag, SocketsHold, RingInv, RingInv', ClockInv, ClockInv', BusyInv,
           EofAnswered, HighestHeld, DebtInv, [TimedNext]_timedVars
    PROVE  DebtInv'
<1>1. CASE UNCHANGED timedVars
    <2>1. /\ UNCHANGED <<window, filePos, srv, attempts, buffer, rcv, out, toClient, toServer, faults>>
          /\ UNCHANGED <<serverClock, clientClock, clock, lag>>
        BY <1>1 DEF timedVars, timeVars, vars, serverVars, rcopyVars, netVars
    <2>2. Debt' = Debt
        <3>1. Holes' = Holes
            BY <2>1 DEF Holes, Filled, Entry, Coming
        <3>2. Owed' <=> Owed
            BY <2>1 DEF Owed, AckMissing, EofSilent, AckComing, Answering, FlushAnswers, Entry,
                   NothingMissing, Coming
        <3> QED BY <3>1, <3>2 DEF Debt, One
    <2> QED BY <2>1, <2>2 DEF DebtInv, GapLost, Coming, Alone, BothWait, ServerPolls, WindowFull, ClientPolls
<1> QED BY <1>1, DebtServer, DebtClient, DebtTick, TimedStep

\* The step that ends the transfer.
LEMMA DebtEnds ==
    ASSUME Sheltered, RingInv, ClockInv, ClockInv', HighestHeld, DebtInv, [TimedNext]_timedVars,
           rcv' # rcv, rcv' = "EXIT"
    PROVE  clock <= Second * faults' + lag
<1>1. AClientNext /\ TimedClient
    BY TimedStep DEF AServerNext, Tick, timedVars, vars, rcopyVars
<1>2. ClientStep /\ UNCHANGED serverVars
    BY <1>1 DEF TimedClient, ClientTimeout, AClientNext
<1>3. rcv \in Receiving /\ toClient # <<>>
    BY <1>2 DEF ClientStep, handle_inorder, handle_buffer, handle_flush, FlushEntry, FlushEnd,
           DropCorrupted, ExitTransfer, WriteInorder, GapFound, FillGap, StoreEarly, AckAgain,
           Accepted, Received, Receiving, rcopyVars
<1>4. ~GapLost
    <2>1. GapLost => GapLost'
        BY <1>2, GapClient
    <2> QED BY <2>1 DEF GapLost
<1>5. clock + Second * Debt <= Second * faults + lag
    <2>1. BothWait = 0 /\ ~Alone /\ rcv \notin Gone
        BY <1>3 DEF BothWait, ClientPolls, Alone, Receiving, Gone
    <2>2. lag \in Nat /\ faults \in Nat /\ Second \in Nat
        BY RingFacts, Edges, TimeAssumption DEF ClockInv
    <2>3. Second * faults \in Nat
        BY <2>2
    <2> DEFINE f == Second * faults
    <2> HIDE DEF f
    <2>4. f + lag + 0 = f + lag
        BY <2>2, <2>3 DEF f
    <2> QED BY <1>4, <2>1, <2>4 DEF DebtInv, f
<1>6. /\ TypeOK /\ TypeOK' /\ faults \in Nat /\ faults' \in Nat /\ faults <= faults'
    <2>1. TypeOK /\ TypeOK'
        BY <1>1, RingFacts, ClientNextType
    <2>2. faults' \in Nat /\ faults \in Nat
        BY <2>1 DEF TypeOK
    <2> QED BY <1>1, <2>1, <2>2, FaultsGrow
<1>7. /\ Second * Debt \in Nat /\ Second * faults \in Nat /\ Second * faults' \in Nat
      /\ Second * faults <= Second * faults'
    <2>1. Debt \in Nat /\ 0 \in Nat
        BY <1>6, DebtCounts
    <2>2. \A a, b \in Nat : a <= b => Second * a \in Nat /\ Second * b \in Nat /\ Second * a <= Second * b
        <3>1. SUFFICES ASSUME NEW a \in Nat, NEW b \in Nat, a <= b
                       PROVE  Second * a \in Nat /\ Second * b \in Nat /\ Second * a <= Second * b
            OBVIOUS
        <3>2. a * Second <= b * Second
            BY <3>1, SecondsGrow
        <3> QED BY <3>2, TimeAssumption
    <2> QED BY <1>6, <2>1, <2>2
<1> DEFINE d == Second * Debt
           f == Second * faults
           g == Second * faults'
<1>8. clock + d <= f + lag /\ d \in Nat /\ f \in Nat /\ g \in Nat /\ f <= g
    BY <1>5, <1>7
<1>9. clock \in Nat /\ lag \in Nat
    BY TimeAssumption DEF ClockInv
<1>10. clock <= g + lag
    <2> HIDE DEF d, f, g
    <2> QED BY <1>8, <1>9
<1> QED BY <1>10

\* However many packets are lost, the file that arrives has arrived within as many
\* seconds, as long as the sockets have room: a packet the kernel drops is a loss
\* that `faults' does not count.  (server.c handle_send_data, handle_wait_EOF_ack,
\* pollCall(1000); rcopy.c handle_inorder, handle_buffer, handle_flush.)
THEOREM LossCostsASecondAlways ==
    ASSUME Sheltered, FitsRing, ShortLag
    PROVE  TimedSpec /\ []SocketsHold => LossCostsASecond
<1> DEFINE Others == BusyInv /\ EofAnswered /\ HighestHeld
<1>1. ASSUME TimedInit
      PROVE  Others /\ DebtInv
    <2>1. /\ serverClock = 0 /\ clock = 0 /\ lag = 0 /\ faults = 0
          /\ srv = "SEND_DATA" /\ rcv = "INORDER" /\ toServer = <<>> /\ toClient = <<>>
          /\ window = buffer_init(BufferSize) /\ buffer = buffer_init(0)
        BY <1>1 DEF TimedInit, Init, ServerInit, RcopyInit, NetInit
    <2>2. window.current = 0 /\ window.lowest = 0 /\ buffer.current = 0
        BY <2>1 DEF buffer_init
    <2>3. Holes = {}
        BY <2>2 DEF Holes
    <2>4. ~Owed
        BY <2>1, <2>2 DEF Owed, AckMissing, EofSilent
    <2>5. Debt = 0
        BY <2>3, <2>4, FS_EmptySet DEF Debt, One
    <2>6. Second * 0 = 0 /\ ~ServerPolls
        BY <2>1, TimeAssumption DEF ServerPolls, WindowFull
    <2>7. DebtInv
        BY <2>1, <2>5, <2>6 DEF DebtInv, BothWait
    <2>8. InFlight(toServer) = {}
        BY <2>1 DEF InFlight
    <2> QED BY <2>1, <2>6, <2>7, <2>8 DEF BusyInv, EofAnswered, HighestHeld
<1>2. ASSUME RingInv, RingInv', ClockInv, Others, [TimedNext]_timedVars
      PROVE  Others'
    <2>1. TypeOK /\ TypeOK' /\ HeldInv
        BY <1>2 DEF RingInv, AnyNetworkInv, ShelteredInv
    <2> QED BY <1>2, <2>1, BusyNext, EofAnsweredNext, HighestNext
<1>3. ASSUME SocketsHold, RingInv, RingInv', ClockInv, ClockInv', Others, DebtInv,
             [TimedNext]_timedVars
      PROVE  DebtInv'
    BY <1>3, DebtNext
<1>4. ASSUME RingInv, ClockInv, ClockInv', Others, DebtInv, [TimedNext]_timedVars
      PROVE  [rcv' = "EXIT" => clock <= Second * faults' + lag]_rcv
    BY <1>4, DebtEnds
<1>5. TimedSpec => []RingInv
    BY TimedIsTransfer, ShelteredInductive, PTL
<1> HIDE DEF Others
<1>6. TimedSpec => []Others
    BY <1>1, <1>2, <1>5, Clocks, PTL DEF TimedSpec
<1>7. TimedSpec /\ []SocketsHold => []DebtInv
    BY <1>1, <1>3, <1>5, <1>6, Clocks, PTL DEF TimedSpec
<1> QED BY <1>4, <1>5, <1>6, <1>7, Clocks, PTL DEF TimedSpec, LossCostsASecond
===============================================================================
