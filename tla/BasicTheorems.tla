---------------------------- MODULE BasicTheorems ----------------------------
(***************************************************************************)
(* Facts about the circular buffer, the queues, and one step of the child  *)
(* or of rcopy, which the proofs about a transfer and about a session use. *)
(*                                                                         *)
(* A session puts more kinds of packets in the queues than a transfer, so  *)
(* the facts about a step are about queues of packets of any set C or D    *)
(* that has those the step may send.                                       *)
(***************************************************************************)
EXTENDS Server, Rcopy, TLAPS

\* Every sequence number has a slot.
LEMMA SlotInRange ==
    ASSUME NEW s \in Nat
    PROVE  Slot(s) \in Slots
BY SizeAssumption DEF Slot, Slots

\* Two sequence numbers less than a window apart never share a slot.
LEMMA SlotInjective ==
    ASSUME NEW a \in Nat, NEW b \in Nat, a < b, b < a + WindowSize
    PROVE  Slot(a) # Slot(b)
<1> DEFINE W == WindowSize
<1> SUFFICES ASSUME a % W = b % W
             PROVE  FALSE
    BY DEF Slot
<1> DEFINE p == a \div W
           q == b \div W
           r == a % W
<1>1. /\ a = (W * p) + r
      /\ b = (W * q) + r
      /\ p \in Int /\ q \in Int /\ r \in Int
      /\ W \in Nat \ {0}
    BY SizeAssumption
<1> HIDE DEF p, q, r, W
<1>2. b - a = W * (q - p)
    BY <1>1
<1>3. q - p < 1
    <2> SUFFICES ASSUME q - p >= 1
                 PROVE  FALSE
        BY <1>1
    <2>1. W * (q - p) >= W
        BY <1>1
    <2> QED BY <1>1, <1>2, <2>1 DEF W
<1>4. q - p > 0
    <2> SUFFICES ASSUME q - p <= 0
                 PROVE  FALSE
        BY <1>1
    <2>1. W * (q - p) <= 0
        BY <1>1
    <2> QED BY <1>1, <1>2, <2>1
<1> QED BY <1>1, <1>3, <1>4

\* A new buffer is a buffer.
LEMMA BufferInitType ==
    ASSUME NEW h \in Nat
    PROVE  buffer_init(h) \in CircularBuffer
BY DEF buffer_init, CircularBuffer, BufferEntry, Payload

\* buffer_add leaves the three numbers and every other slot as they are.
LEMMA BufferAdd ==
    ASSUME NEW w \in CircularBuffer, NEW s \in Nat, NEW d \in Payload
    PROVE  /\ buffer_add(w, s, d) \in CircularBuffer
           /\ buffer_add(w, s, d).highest = w.highest
           /\ buffer_add(w, s, d).lowest = w.lowest
           /\ buffer_add(w, s, d).current = w.current
           /\ buffer_add(w, s, d).entries =
                [w.entries EXCEPT ![Slot(s)] =
                    [valid_flag |-> TRUE, sequence_num |-> s, data |-> d]]
<1> DEFINE e == [valid_flag |-> TRUE, sequence_num |-> s, data |-> d]
<1>1. e \in BufferEntry
    BY DEF BufferEntry
<1>2. Slot(s) \in Slots
    BY SlotInRange
<1>3. [w.entries EXCEPT ![Slot(s)] = e] \in [Slots -> BufferEntry]
    BY <1>1, <1>2 DEF CircularBuffer
<1> HIDE DEF e
<1>4. buffer_add(w, s, d) = [w EXCEPT !.entries = [w.entries EXCEPT ![Slot(s)] = e]]
    BY DEF buffer_add, e, CircularBuffer
<1> QED BY <1>3, <1>4 DEF CircularBuffer, e

\* The entry a sequence number finds is an entry.
LEMMA EntryType ==
    ASSUME NEW w \in CircularBuffer, NEW s \in Nat
    PROVE  Entry(w, s) \in BufferEntry
BY SlotInRange DEF Entry, CircularBuffer

------------------------------------------------------------------------------
(***************************************************************************)
(* What a send, a receive, a duplication and an overtaking do to a queue.  *)
(***************************************************************************)

\* What the queue can be after a send.
LEMMA PutCases ==
    ASSUME NEW q, NEW fate, NEW p
    PROVE  \/ Put(q, fate, p) = q
           \/ Put(q, fate, p) = Append(q, p)
           \/ fate = "flip" /\ Put(q, fate, p) = Append(q, Corrupted)
BY DEF Put

\* A send keeps the queue a queue of packets of its kind.
LEMMA PutType ==
    ASSUME NEW S, Corrupted \in S, NEW q \in Seq(S), NEW fate, NEW p \in S
    PROVE  Put(q, fate, p) \in Seq(S)
BY PutCases

\* The packets of a queue and of what a receiver leaves of it.
LEMMA HeadAndTail ==
    ASSUME NEW S, NEW q \in Seq(S), q # <<>>
    PROVE  /\ Head(q) \in S
           /\ Head(q) = q[1]
           /\ 1 \in 1..Len(q)
           /\ Tail(q) \in Seq(S)
           /\ Len(Tail(q)) = Len(q) - 1
           /\ \A i \in 1..Len(Tail(q)) : i + 1 \in 1..Len(q) /\ Tail(q)[i] = q[i + 1]
OBVIOUS

\* The packets of a queue after one more was appended.
LEMMA Appended ==
    ASSUME NEW S, NEW q \in Seq(S), NEW p \in S
    PROVE  /\ Append(q, p) \in Seq(S)
           /\ Len(Append(q, p)) = Len(q) + 1
           /\ Append(q, p)[Len(q) + 1] = p
           /\ \A i \in 1..Len(q) : Append(q, p)[i] = q[i]
OBVIOUS

\* A duplicated packet was in the queue.
LEMMA DuplicatedQueue ==
    ASSUME NEW S, NEW q \in Seq(S), NEW r, Duplicated(q, r)
    PROVE  /\ r \in Seq(S)
           /\ \A j \in 1..Len(r) : \E i \in 1..Len(q) : r[j] = q[i]
<1>1. PICK i \in 1..Len(q) : r = Append(q, q[i])
    BY DEF Duplicated
<1>2. q[i] \in S
    OBVIOUS
<1> QED BY <1>1, <1>2, Appended

\* Overtaking only permutes the queue.
LEMMA ReorderedQueue ==
    ASSUME NEW S, NEW q \in Seq(S), NEW r, Reordered(q, r)
    PROVE  /\ r \in Seq(S)
           /\ \A j \in 1..Len(r) : \E i \in 1..Len(q) : r[j] = q[i]
<1>1. PICK i \in 1..(Len(q) - 1) : r = [q EXCEPT ![i] = q[i + 1], ![i + 1] = q[i]]
    BY DEF Reordered
<1>2. q \in [1..Len(q) -> S] /\ Len(q) \in Nat
    OBVIOUS
<1>3. i \in 1..Len(q) /\ i + 1 \in 1..Len(q)
    BY <1>2
<1>4. r \in [1..Len(q) -> S]
    BY <1>1, <1>2, <1>3
<1>5. r \in Seq(S) /\ Len(r) = Len(q)
    BY <1>2, <1>4
<1> QED BY <1>1, <1>2, <1>3, <1>5

\* What a send can add to the packets in flight.
LEMMA InFlightPut ==
    ASSUME NEW S, Corrupted \in S, NEW q \in Seq(S), NEW fate, NEW p \in S
    PROVE  InFlight(Put(q, fate, p)) \subseteq InFlight(q) \cup {p, Corrupted}
<1>1. ASSUME NEW r \in S
      PROVE  InFlight(Append(q, r)) \subseteq InFlight(q) \cup {r}
    BY Appended DEF InFlight
<1> QED BY <1>1, PutCases

\* A receive adds nothing to the packets in flight.
LEMMA InFlightTail ==
    ASSUME NEW S, NEW q \in Seq(S), q # <<>>
    PROVE  /\ Head(q) \in InFlight(q)
           /\ InFlight(Tail(q)) \subseteq InFlight(q)
BY HeadAndTail DEF InFlight

\* The network invents nothing.
LEMMA InFlightNetwork ==
    ASSUME NEW S, NEW q \in Seq(S), NEW r, Duplicated(q, r) \/ Reordered(q, r)
    PROVE  InFlight(r) \subseteq InFlight(q)
BY DuplicatedQueue, ReorderedQueue DEF InFlight

------------------------------------------------------------------------------
(***************************************************************************)
(* What the helpers of the two processes do to a buffer and to the file.   *)
(***************************************************************************)
\* The new edges of the window after an RR are numbers.
LEMMA AdvanceType ==
    ASSUME NEW w \in CircularBuffer, NEW n \in Nat
    PROVE  /\ AdvanceWindow(w, n) \in CircularBuffer
           /\ AdvanceWindow(w, n).lowest = n
           /\ AdvanceWindow(w, n).highest = n + WindowSize
           /\ AdvanceWindow(w, n).current = w.current
           /\ AdvanceWindow(w, n).entries = w.entries
<1> DEFINE h == n + WindowSize
           v == [w EXCEPT !.lowest = n, !.highest = h]
<1>1. h \in Nat
    BY SizeAssumption
<1> HIDE DEF h
<1>2. v \in CircularBuffer
    BY <1>1 DEF CircularBuffer
<1>3. v.lowest = n /\ v.highest = h
    BY <1>1 DEF CircularBuffer
<1>4. v.current = w.current /\ v.entries = w.entries
    BY <1>1 DEF CircularBuffer
<1> QED BY <1>2, <1>3, <1>4 DEF AdvanceWindow, h

\* A packet of rcopy's queue has a sequence number and a payload.
LEMMA ClientPacket ==
    ASSUME NEW p \in ClientBound
    PROVE  /\ p.seq \in Nat
           /\ p.data \in Payload
           /\ ~BadChecksum(p) => p.flag \in DataFlags \cup {FLAG_EOF}
BY DEF ClientBound, Corrupted, build_packet, Payload, BadChecksum

LEMMA WrittenType ==
    ASSUME NEW file \in Seq(Nat \cup {Uninit}), NEW d \in Payload
    PROVE  Written(file, d) \in Seq(Nat \cup {Uninit})
BY DEF Written, Payload

\* Buffering a packet changes one slot and the highest number.
LEMMA StoredBuffer ==
    ASSUME NEW b \in CircularBuffer, NEW p, p.seq \in Nat, p.data \in Payload
    PROVE  /\ Stored(b, p) \in CircularBuffer
           /\ Stored(b, p).highest = p.seq
           /\ Stored(b, p).current = b.current
           /\ Stored(b, p).entries =
                [b.entries EXCEPT ![Slot(p.seq)] =
                    [valid_flag |-> TRUE, sequence_num |-> p.seq, data |-> p.data]]
<1> DEFINE w == buffer_add(b, p.seq, p.data)
<1>1. /\ w \in CircularBuffer
      /\ w.current = b.current
      /\ w.entries = [b.entries EXCEPT ![Slot(p.seq)] =
                        [valid_flag |-> TRUE, sequence_num |-> p.seq, data |-> p.data]]
    BY BufferAdd
<1> DEFINE n == p.seq
<1> HIDE DEF w, n
<1>2. /\ [w EXCEPT !.highest = n] \in CircularBuffer
      /\ [w EXCEPT !.highest = n].highest = n
      /\ [w EXCEPT !.highest = n].current = w.current
      /\ [w EXCEPT !.highest = n].entries = w.entries
    BY <1>1 DEF CircularBuffer, n
<1> QED BY <1>1, <1>2 DEF Stored, w, n

\* Moving on to the next number, as WriteInorder and FillGap do.
LEMMA NextExpected ==
    ASSUME NEW b \in CircularBuffer
    PROVE  LET v == [b EXCEPT !.current = @ + 1]
               w == [b EXCEPT !.highest = b.current, !.current = @ + 1]
           IN  /\ v \in CircularBuffer
               /\ v.current = b.current + 1
               /\ v.highest = b.highest
               /\ v.entries = b.entries
               /\ w \in CircularBuffer
               /\ w.current = b.current + 1
               /\ w.highest = b.current
               /\ w.entries = b.entries
<1> DEFINE n == b.current + 1
           v == [b EXCEPT !.current = n]
           w == [b EXCEPT !.highest = b.current, !.current = n]
<1>1. n \in Nat /\ b.current \in Nat
    BY DEF CircularBuffer
<1> HIDE DEF n
<1>2. v \in CircularBuffer
    BY <1>1 DEF CircularBuffer
<1>3. v.current = n /\ v.highest = b.highest /\ v.entries = b.entries
    BY <1>1 DEF CircularBuffer
<1>4. w \in CircularBuffer
    BY <1>1 DEF CircularBuffer
<1>5. w.current = n /\ w.highest = b.current
    BY <1>1 DEF CircularBuffer
<1>6. w.entries = b.entries
    BY <1>1 DEF CircularBuffer
<1> QED BY <1>2, <1>3, <1>4, <1>5, <1>6 DEF n

\* Emptying the slot of the expected number and moving on, as FlushEntry does.
LEMMA FlushedEntry ==
    ASSUME NEW b \in CircularBuffer
    PROVE  LET v == [b EXCEPT !.entries[Slot(b.current)].valid_flag = FALSE,
                              !.current = @ + 1]
           IN  /\ v \in CircularBuffer
               /\ v.current = b.current + 1
               /\ v.highest = b.highest
               /\ v.entries = [b.entries EXCEPT ![Slot(b.current)] =
                                [Entry(b, b.current) EXCEPT !.valid_flag = FALSE]]
<1> DEFINE k == Slot(b.current)
           e == [b.entries[k] EXCEPT !.valid_flag = FALSE]
           f == [b.entries EXCEPT ![k] = e]
<1>1. b.current \in Nat /\ k \in Slots /\ b.entries \in [Slots -> BufferEntry]
    BY SlotInRange DEF CircularBuffer
<1>2. e \in BufferEntry
    <2>1. b.entries[k] \in BufferEntry
        BY <1>1
    <2> QED BY <2>1 DEF BufferEntry
<1>3. f \in [Slots -> BufferEntry]
    BY <1>1, <1>2
<1> DEFINE n == b.current + 1
           v == [b EXCEPT !.entries = f, !.current = n]
<1>4. [b EXCEPT !.entries[k].valid_flag = FALSE, !.current = @ + 1] = v
    BY <1>1 DEF CircularBuffer
<1>5. n \in Nat
    BY <1>1
<1> HIDE DEF f, n
<1>6. v \in CircularBuffer
    BY <1>3, <1>5 DEF CircularBuffer
<1>7. v.current = n /\ v.highest = b.highest
    BY <1>3, <1>5 DEF CircularBuffer
<1>8. v.entries = f
    BY <1>3, <1>5 DEF CircularBuffer
<1> HIDE DEF v
<1> QED BY <1>4, <1>6, <1>7, <1>8 DEF f, n, Entry

LEMMA AckType ==
    ASSUME NEW n \in Nat
    PROVE  RR(n) \in ServerBound /\ SREJ(n) \in ServerBound
BY DEF RR, SREJ, build_packet, ServerBound

\* An acknowledgment of rcopy carries the number it expects.
LEMMA AckFields ==
    ASSUME NEW n \in Nat
    PROVE  /\ RR(n).data = n
           /\ SREJ(n).flag # FLAG_RR
           /\ build_packet(0, FLAG_EOF, NoData).flag # FLAG_RR
           /\ Corrupted.flag # FLAG_RR
BY DEF RR, SREJ, build_packet, Corrupted, FLAG_RR, FLAG_SREJ, FLAG_EOF

------------------------------------------------------------------------------
(***************************************************************************)
(* What a send adds to a queue.                                            *)
(***************************************************************************)
LEMMA SendToClientAdds ==
    ASSUME NEW C, Corrupted \in C, toClient \in Seq(C), faults \in Nat,
           NEW p \in C, SendToClient(p)
    PROVE  /\ toClient' \in Seq(C)
           /\ faults' \in Nat
           /\ InFlight(toClient') \subseteq InFlight(toClient) \cup {p, Corrupted}
BY PutType, InFlightPut DEF SendToClient, Cost

LEMMA SendToServerAdds ==
    ASSUME NEW D, Corrupted \in D, toServer \in Seq(D), faults \in Nat,
           NEW p \in D, SendToServer(p)
    PROVE  /\ toServer' \in Seq(D)
           /\ faults' \in Nat
           /\ InFlight(toServer') \subseteq InFlight(toServer) \cup {p, Corrupted}
BY PutType, InFlightPut DEF SendToServer, Cost

LEMMA SendTwoToServerAdds ==
    ASSUME NEW D, Corrupted \in D, toServer \in Seq(D), faults \in Nat,
           NEW p \in D, NEW q \in D, SendTwoToServer(p, q)
    PROVE  /\ toServer' \in Seq(D)
           /\ faults' \in Nat
           /\ InFlight(toServer') \subseteq InFlight(toServer) \cup {p, q, Corrupted}
<1>1. PICK f, g \in Fates(ClientErrors) :
        /\ faults' = faults + Cost(f) + Cost(g)
        /\ toServer' = Put(Put(toServer, f, p), g, q)
    BY DEF SendTwoToServer
<1> DEFINE r == Put(toServer, f, p)
<1>2. r \in Seq(D) /\ InFlight(r) \subseteq InFlight(toServer) \cup {p, Corrupted}
    BY PutType, InFlightPut
<1> HIDE DEF r
<1>3. /\ Put(r, g, q) \in Seq(D)
      /\ InFlight(Put(r, g, q)) \subseteq InFlight(r) \cup {q, Corrupted}
    BY <1>2, PutType, InFlightPut
<1>4. faults' \in Nat
    BY <1>1 DEF Cost
<1> QED BY <1>1, <1>2, <1>3, <1>4 DEF r

------------------------------------------------------------------------------
(***************************************************************************)
(* One step of the child.                                                  *)
(***************************************************************************)

\* What the code of the child relies on; a child that was never forked or has
\* been killed has it too.
ChildOK ==
    /\ window \in CircularBuffer
    /\ filePos \in 0..NumChunks
    /\ attempts \in 0..MaxAttempts
    /\ srv \notin Stopped => attempts < MaxAttempts

\* The acknowledgments of D have a number.
Numbered(D) == \A p \in D : p.flag \in {FLAG_RR, FLAG_SREJ} => p.data \in Nat

\* rcopy's queue gets chunks, damaged packets and, behind the last chunk, EOF
\* packets.
ChildSends ==
    \A p \in InFlight(toClient') :
        \/ p \in InFlight(toClient)
        \/ p = Corrupted
        \/ p.flag \in DataFlags
        \/ p.flag = FLAG_EOF /\ p.seq = window.current /\ srv = "WAIT_EOF_ACK"

\* The lower edge of the window is the number of an RR.
ChildBelieves ==
    \/ window'.lowest = window.lowest
    \/ \E p \in InFlight(toServer) : p.flag = FLAG_RR /\ window'.lowest = p.data

\* The file is read chunk by chunk, and the end is seen at the end.
ChildReads ==
    /\ \/ window'.current = window.current /\ filePos' = filePos
       \/ window'.current = window.current + 1 /\ filePos' = filePos + 1
    /\ srv' \in EofStates => filePos' = filePos /\ (srv \in EofStates \/ filePos = NumChunks)

\* A resend puts a chunk on its way, or ends the process.
LEMMA ResendEffect ==
    ASSUME NEW C, ClientBound \subseteq C, toClient \in Seq(C), faults \in Nat,
           window \in CircularBuffer,
           NEW seq \in Nat, NEW flag \in DataFlags, NEW next,
           resend_packet(seq, flag, next)
    PROVE  /\ toClient' \in Seq(C)
           /\ faults' \in Nat
           /\ srv' \in {next, "CRASHED"}
           /\ \A p \in InFlight(toClient') :
                  p \in InFlight(toClient) \/ p = Corrupted \/ p.flag \in DataFlags
<1>1. Entry(window, seq) \in BufferEntry
    BY EntryType
<1>2. CASE srv' = "CRASHED" /\ UNCHANGED <<toClient, faults>>
    BY <1>2
<1>3. CASE /\ \E d \in PayloadOf(Entry(window, seq)) : SendToClient(build_packet(seq, flag, d))
           /\ srv' = next
    <2>1. PICK d \in PayloadOf(Entry(window, seq)) : SendToClient(build_packet(seq, flag, d))
        BY <1>3
    <2> DEFINE p == build_packet(seq, flag, d)
    <2>2. d \in Payload
        BY <1>1 DEF PayloadOf, BufferEntry, Payload
    <2>3. p \in C /\ Corrupted \in C /\ p.flag \in DataFlags
        BY <2>2 DEF ClientBound, build_packet
    <2> HIDE DEF p
    <2>4. SendToClient(p)
        BY <2>1 DEF p
    <2> QED BY <1>3, <2>3, <2>4, SendToClientAdds
<1> QED BY <1>2, <1>3 DEF resend_packet

\* Reading one acknowledgment.
LEMMA ProcessEffect ==
    ASSUME NEW C, ClientBound \subseteq C, toClient \in Seq(C), faults \in Nat,
           NEW D, Numbered(D), toServer \in Seq(D),
           window \in CircularBuffer, NEW next, NEW onEof,
           process_rr_srej_eof(next, onEof)
    PROVE  /\ window' \in CircularBuffer
           /\ window'.current = window.current
           /\ filePos' = filePos
           /\ srv' \in {next, onEof, "CRASHED"}
           /\ toClient' \in Seq(C)
           /\ toServer' \in Seq(D)
           /\ faults' \in Nat
           /\ InFlight(toServer') \subseteq InFlight(toServer)
           /\ ChildSends
           /\ ChildBelieves
<1> DEFINE p == Head(toServer)
<1>1. /\ p \in D
      /\ p \in InFlight(toServer)
      /\ toServer' \in Seq(D)
      /\ InFlight(toServer') \subseteq InFlight(toServer)
    BY HeadAndTail, InFlightTail DEF process_rr_srej_eof
<1>2. window.lowest \in Nat /\ filePos' = filePos
    BY DEF CircularBuffer, process_rr_srej_eof
<1>3. FLAG_RESENT_DATA \in DataFlags
    BY DEF DataFlags
<1>4. ASSUME NEW seq \in Nat, resend_packet(seq, FLAG_RESENT_DATA, next), UNCHANGED window
      PROVE  /\ srv' \in {next, "CRASHED"}
             /\ toClient' \in Seq(C)
             /\ faults' \in Nat
             /\ ChildSends
             /\ ChildBelieves
    BY <1>3, <1>4, ResendEffect DEF ChildSends, ChildBelieves
<1>5. CASE BadChecksum(p) /\ resend_packet(window.lowest, FLAG_RESENT_DATA, next) /\ UNCHANGED window
    BY <1>1, <1>2, <1>4, <1>5
<1>6. CASE /\ ~BadChecksum(p)
           /\ p.flag = FLAG_RR
           /\ window' = AdvanceWindow(window, p.data)
           /\ srv' = next
           /\ UNCHANGED <<toClient, faults>>
    <2>1. p.data \in Nat
        BY <1>1, <1>6 DEF Numbered
    <2>2. /\ window' \in CircularBuffer
          /\ window'.current = window.current
          /\ window'.lowest = p.data
        BY <1>6, <2>1, AdvanceType
    <2> QED BY <1>1, <1>2, <1>6, <2>2 DEF ChildSends, ChildBelieves
<1>7. CASE /\ ~BadChecksum(p)
           /\ p.flag = FLAG_SREJ
           /\ resend_packet(p.data, FLAG_RESENT_DATA, next)
           /\ UNCHANGED window
    <2>1. p.data \in Nat
        BY <1>1, <1>7 DEF Numbered
    <2> QED BY <1>1, <1>2, <1>4, <1>7, <2>1
<1>8. CASE srv' \in {next, onEof} /\ UNCHANGED <<window, toClient, faults>>
    BY <1>1, <1>2, <1>8 DEF ChildSends, ChildBelieves
<1> QED BY <1>5, <1>6, <1>7, <1>8 DEF process_rr_srej_eof

\* Whatever the child does next.
LEMMA ServerNextEffect ==
    ASSUME NEW C, ClientBound \subseteq C, toClient \in Seq(C), faults \in Nat,
           NEW D, Numbered(D), toServer \in Seq(D),
           ChildOK, ServerNext
    PROVE  /\ ChildOK'
           /\ srv' \in ServerStates
           /\ toClient' \in Seq(C)
           /\ toServer' \in Seq(D)
           /\ faults' \in Nat
           /\ InFlight(toServer') \subseteq InFlight(toServer)
           /\ ChildSends
           /\ ChildBelieves
           /\ ChildReads
<1>1. /\ window \in CircularBuffer
      /\ window.current \in Nat /\ window.lowest \in Nat
      /\ filePos \in 0..NumChunks /\ attempts \in 0..MaxAttempts
      /\ srv \notin Stopped => attempts < MaxAttempts
      /\ MaxAttempts \in Nat \ {0} /\ NumChunks \in Nat
      /\ Corrupted \in C
    BY ServerAssumption DEF ChildOK, CircularBuffer, ClientBound
<1>2. ASSUME UNCHANGED <<toClient, window>>
      PROVE  ChildSends /\ ChildBelieves
    BY <1>2 DEF ChildSends, ChildBelieves
<1>3. CASE SendData
    <2> DEFINE s == window.current
               w == buffer_add(window, s, filePos)
               v == [w EXCEPT !.current = s + 1]
               p == build_packet(s, FLAG_DATA, Entry(w, s).data)
    <2>1. filePos \in Payload
        BY <1>1 DEF Payload
    <2>2. w \in CircularBuffer /\ w.lowest = window.lowest
        BY <1>1, <2>1, BufferAdd
    <2>3. Entry(w, s).data \in Payload
        BY <1>1, <2>2, EntryType DEF BufferEntry
    <2>4. p \in C /\ p.flag \in DataFlags
        BY <1>1, <2>3 DEF build_packet, ClientBound, DataFlags
    <2>5. /\ SendToClient(p) /\ window' = v /\ filePos' = filePos + 1 /\ filePos < NumChunks
          /\ srv' = "DRAIN" /\ srv = "SEND_DATA" /\ UNCHANGED <<toServer, attempts>>
        BY <1>3 DEF SendData
    <2> HIDE DEF p, w
    <2>6. /\ toClient' \in Seq(C) /\ faults' \in Nat
          /\ InFlight(toClient') \subseteq InFlight(toClient) \cup {p, Corrupted}
        BY <1>1, <2>4, <2>5, SendToClientAdds
    <2>7. v \in CircularBuffer /\ v.current = s + 1 /\ v.lowest = window.lowest
        BY <1>1, <2>2 DEF CircularBuffer
    <2> HIDE DEF v
    <2>8. ChildSends /\ ChildBelieves /\ ChildReads
        BY <2>4, <2>5, <2>6, <2>7 DEF ChildSends, ChildBelieves, ChildReads, EofStates
    <2> QED BY <1>1, <2>5, <2>6, <2>7, <2>8 DEF ChildOK, ServerStates, Stopped
<1>4. CASE ReadEof \/ WindowClosed \/ DrainDone \/ FullDone \/ EofTimeout
    <2>1. UNCHANGED <<window, filePos, toClient, toServer, faults>>
        BY <1>4 DEF ReadEof, WindowClosed, DrainDone, FullDone, EofTimeout, netVars
    <2>2. ChildOK' /\ srv' \in ServerStates
        BY <1>1, <1>4, <2>1 DEF ReadEof, WindowClosed, DrainDone, FullDone, EofTimeout,
            ChildOK, ServerStates, EofStates, Stopped
    <2>3. ChildReads
        BY <1>4, <2>1 DEF ReadEof, WindowClosed, DrainDone, FullDone, EofTimeout,
            ChildReads, EofStates
    <2> QED BY <1>1, <1>2, <2>1, <2>2, <2>3
<1>5. CASE DrainRecv \/ FullRecv \/ EofRecv
    <2>1. PICK next, onEof \in ServerStates :
            /\ process_rr_srej_eof(next, onEof)
            /\ {next, onEof} \cap EofStates # {} => srv \in EofStates
            /\ UNCHANGED attempts \/ attempts' = 0
            /\ srv \notin Stopped
        BY <1>5 DEF DrainRecv, FullRecv, WindowFull, EofRecv, ServerStates, EofStates, Stopped
    <2>2. /\ window' \in CircularBuffer
          /\ window'.current = window.current
          /\ filePos' = filePos
          /\ srv' \in {next, onEof, "CRASHED"}
          /\ toClient' \in Seq(C)
          /\ toServer' \in Seq(D)
          /\ faults' \in Nat
          /\ InFlight(toServer') \subseteq InFlight(toServer)
          /\ ChildSends
          /\ ChildBelieves
        BY <1>1, <2>1, ProcessEffect
    <2>3. attempts' \in 0..MaxAttempts /\ attempts' < MaxAttempts
        BY <1>1, <2>1
    <2>4. ChildReads /\ srv' \in ServerStates
        BY <2>1, <2>2 DEF ChildReads, EofStates, ServerStates, Stopped
    <2> QED BY <1>1, <2>2, <2>3, <2>4 DEF ChildOK
<1>6. CASE FullTimeout
    <2>1. FLAG_RESENT_TIMEOUT \in DataFlags
        BY DEF DataFlags
    <2>2. /\ toClient' \in Seq(C)
          /\ faults' \in Nat
          /\ srv' \in {"DONE", "WINDOW_FULL", "CRASHED"}
          /\ srv' = "WINDOW_FULL" => attempts + 1 < MaxAttempts
          /\ ChildSends
        BY <1>1, <1>6, <2>1, ResendEffect DEF FullTimeout, ChildSends
    <2>3. /\ attempts' = attempts + 1 /\ attempts' \in 0..MaxAttempts
          /\ UNCHANGED <<window, filePos, toServer>>
        BY <1>1, <1>6 DEF FullTimeout, WindowFull, Stopped
    <2> QED BY <1>1, <2>2, <2>3
            DEF ChildOK, ChildBelieves, ChildReads, ServerStates, EofStates, Stopped
<1>7. CASE SendEof
    <2> DEFINE p == build_packet(window.current, FLAG_EOF, NoData)
    <2>1. p \in C /\ p.flag = FLAG_EOF /\ p.seq = window.current
        BY <1>1 DEF build_packet, ClientBound, Payload
    <2>2. /\ SendToClient(p) /\ srv = "WAIT_EOF_ACK" /\ srv' = "EOF_POLL"
          /\ UNCHANGED <<window, filePos, attempts, toServer>>
        BY <1>7 DEF SendEof
    <2> HIDE DEF p
    <2>3. /\ toClient' \in Seq(C) /\ faults' \in Nat
          /\ InFlight(toClient') \subseteq InFlight(toClient) \cup {p, Corrupted}
        BY <1>1, <2>1, <2>2, SendToClientAdds
    <2>4. ChildSends
        BY <2>1, <2>2, <2>3 DEF ChildSends
    <2> QED BY <1>1, <2>2, <2>3, <2>4
            DEF ChildOK, ChildBelieves, ChildReads, ServerStates, EofStates, Stopped
<1> QED BY <1>3, <1>4, <1>5, <1>6, <1>7 DEF ServerNext, ServerStep, ServerTimeout

\* A step of the child sends one packet at most.
LEMMA ChildAppends ==
    ASSUME ServerNext
    PROVE  toClient' = toClient \/ \E p : toClient' = Append(toClient, p)
<1> DEFINE Grown == toClient' = toClient \/ \E p : toClient' = Append(toClient, p)
<1>1. ASSUME NEW p, SendToClient(p)
      PROVE  Grown
    BY <1>1, PutCases DEF SendToClient
<1>2. ASSUME NEW seq, NEW flag, NEW next, resend_packet(seq, flag, next)
      PROVE  Grown
    BY <1>1, <1>2 DEF resend_packet
<1>3. ASSUME NEW next, NEW onEof, process_rr_srej_eof(next, onEof)
      PROVE  Grown
    BY <1>2, <1>3 DEF process_rr_srej_eof
<1>4. ASSUME UNCHANGED toClient
      PROVE  Grown
    BY <1>4
<1> HIDE DEF Grown
<1>5. ASSUME SendData \/ SendEof
      PROVE  Grown
    BY <1>1, <1>5 DEF SendData, SendEof
<1>6. ASSUME DrainRecv \/ FullRecv \/ EofRecv
      PROVE  Grown
    BY <1>3, <1>6 DEF DrainRecv, FullRecv, EofRecv
<1>7. ASSUME FullTimeout
      PROVE  Grown
    BY <1>2, <1>4, <1>7 DEF FullTimeout
<1>8. ASSUME ReadEof \/ WindowClosed \/ DrainDone \/ FullDone \/ EofTimeout
      PROVE  Grown
    BY <1>4, <1>8 DEF ReadEof, WindowClosed, DrainDone, FullDone, EofTimeout, netVars
<1>9. Grown
    BY <1>5, <1>6, <1>7, <1>8 DEF ServerNext, ServerStep, ServerTimeout
<1> QED BY <1>9 DEF Grown

------------------------------------------------------------------------------
(***************************************************************************)
(* One step of rcopy.                                                      *)
(***************************************************************************)

\* The packets of C have a sequence number and a payload.
Readable(C) == \A p \in C : p.seq \in Nat /\ p.data \in Payload

\* Each RR carries the number rcopy expects.
ClientAcks ==
    \A p \in InFlight(toServer') :
        p.flag = FLAG_RR => p \in InFlight(toServer) \/ p.data = buffer'.current

\* It exits on an EOF packet with a smaller number than it expects.
ClientExits ==
    rcv' = "EXIT" /\ rcv # "EXIT" =>
        /\ buffer' = buffer
        /\ \E p \in InFlight(toClient) : p.flag = FLAG_EOF /\ buffer.current > p.seq

\* The packet a handler holds.
LEMMA ReceivedPacket ==
    ASSUME NEW C, toClient \in Seq(C), NEW s, NEW p, Received(s, p)
    PROVE  /\ p \in C
           /\ p \in InFlight(toClient)
           /\ toClient' \in Seq(C)
           /\ InFlight(toClient') \subseteq InFlight(toClient)
           /\ rcv = s
BY HeadAndTail, InFlightTail DEF Received

\* Whatever rcopy does next.
LEMMA ClientNextEffect ==
    ASSUME NEW C, Readable(C), toClient \in Seq(C), faults \in Nat,
           NEW D, ServerBound \subseteq D, toServer \in Seq(D),
           RcopyTypeOK, ClientNext
    PROVE  /\ RcopyTypeOK'
           /\ toClient' \in Seq(C)
           /\ toServer' \in Seq(D)
           /\ faults' \in Nat
           /\ InFlight(toClient') \subseteq InFlight(toClient)
           /\ buffer'.current \in Nat /\ buffer'.current >= buffer.current
           /\ ClientAcks
           /\ ClientExits
<1>1. /\ buffer \in CircularBuffer
      /\ buffer.current \in Nat
      /\ buffer.current >= buffer.current
      /\ out \in Seq(Nat \cup {Uninit})
      /\ rcv \in RecvStates
      /\ Corrupted \in D /\ build_packet(0, FLAG_EOF, NoData) \in D
    BY DEF RcopyTypeOK, CircularBuffer, ServerBound
<1>2. ASSUME NEW n \in Nat
      PROVE  RR(n) \in D /\ SREJ(n) \in D
    BY AckType
<1>3. ASSUME NEW s, NEW p, Received(s, p)
      PROVE  /\ p \in C
             /\ p.seq \in Nat /\ p.data \in Payload
             /\ p \in InFlight(toClient)
             /\ toClient' \in Seq(C)
             /\ InFlight(toClient') \subseteq InFlight(toClient)
             /\ rcv = s
    BY <1>3, ReceivedPacket DEF Readable
<1> DEFINE Sent == toServer' \in Seq(D) /\ faults' \in Nat /\ ClientAcks
           Kept == toClient' \in Seq(C) /\ InFlight(toClient') \subseteq InFlight(toClient)
<1>4. ASSUME NEW n \in Nat, buffer'.current = n, SendToServer(RR(n))
      PROVE  Sent
    BY <1>1, <1>2, <1>4, AckFields, SendToServerAdds DEF ClientAcks
<1>5. ASSUME NEW n \in Nat, SendToServer(SREJ(n))
      PROVE  Sent
    <2>1. /\ toServer' \in Seq(D) /\ faults' \in Nat
          /\ InFlight(toServer') \subseteq InFlight(toServer) \cup {SREJ(n), Corrupted}
        BY <1>1, <1>2, <1>5, SendToServerAdds
    <2>2. SREJ(n).flag # FLAG_RR /\ Corrupted.flag # FLAG_RR
        BY AckFields
    <2> QED BY <2>1, <2>2 DEF ClientAcks
<1>6. ASSUME UNCHANGED <<toServer, faults>>
      PROVE  Sent
    BY <1>6 DEF ClientAcks
<1>7. CASE \E s \in Receiving : DropCorrupted(s) \/ AckAgain(s)
    <2>1. PICK s \in Receiving : DropCorrupted(s) \/ AckAgain(s)
        BY <1>7
    <2>2. UNCHANGED <<buffer, rcv, out>>
        BY <2>1 DEF DropCorrupted, AckAgain, rcopyVars
    <2>3. Sent
        BY <1>1, <1>4, <1>6, <2>1, <2>2 DEF DropCorrupted, AckAgain
    <2>4. Kept
        BY <1>3, <2>1 DEF DropCorrupted, AckAgain, Accepted
    <2> QED BY <1>1, <2>2, <2>3, <2>4 DEF RcopyTypeOK, ClientExits
<1>8. CASE \E s \in Receiving : ExitTransfer(s)
    <2> DEFINE p == Head(toClient)
    <2>1. PICK s \in Receiving : ExitTransfer(s)
        BY <1>8
    <2>2. /\ SendToServer(build_packet(0, FLAG_EOF, NoData))
          /\ UNCHANGED <<buffer, out>>
          /\ rcv' = "EXIT"
          /\ Received(s, p) /\ p.flag = FLAG_EOF /\ buffer.current > p.seq
        BY <2>1 DEF ExitTransfer, IsLastEof
    <2>3. Sent
        BY <1>1, <2>2, AckFields, SendToServerAdds DEF ClientAcks
    <2>4. Kept /\ p \in InFlight(toClient)
        BY <1>3, <2>2
    <2> QED BY <1>1, <2>2, <2>3, <2>4 DEF RcopyTypeOK, RecvStates, ClientExits
<1>9. CASE WriteInorder \/ FillGap
    <2> DEFINE p == Head(toClient)
    <2>1. /\ Received(rcv, p)
          /\ out' = Written(out, p.data)
          /\ rcv' \in {rcv, "FLUSH"} /\ rcv # "EXIT"
        BY <1>9 DEF WriteInorder, FillGap, Accepted, Received
    <2>2. Kept /\ p.data \in Payload
        BY <1>3, <2>1
    <2>3. /\ buffer' \in CircularBuffer
          /\ buffer'.current = buffer.current + 1
        BY <1>1, <1>9, NextExpected DEF WriteInorder, FillGap
    <2>4. buffer'.current \in Nat /\ buffer'.current >= buffer.current
        BY <1>1, <2>3
    <2>5. out' \in Seq(Nat \cup {Uninit})
        BY <1>1, <2>1, <2>2, WrittenType
    <2>6. Sent
        BY <1>4, <1>6, <1>9, <2>4 DEF WriteInorder, FillGap
    <2> QED BY <1>1, <2>1, <2>2, <2>3, <2>4, <2>5, <2>6
            DEF RcopyTypeOK, RecvStates, ClientExits
<1>10. CASE GapFound \/ StoreEarly
    <2> DEFINE p == Head(toClient)
    <2>1. /\ Received(rcv, p)
          /\ buffer' = Stored(buffer, p)
          /\ UNCHANGED out
          /\ rcv' = "BUFFER"
        BY <1>10 DEF GapFound, StoreEarly, Accepted, Received
    <2>2. Kept /\ p.seq \in Nat /\ p.data \in Payload
        BY <1>3, <2>1
    <2>3. buffer' \in CircularBuffer /\ buffer'.current = buffer.current
        BY <1>1, <2>1, <2>2, StoredBuffer
    <2>4. Sent
        BY <1>1, <1>5, <1>6, <1>10 DEF GapFound, StoreEarly
    <2> QED BY <1>1, <2>1, <2>2, <2>3, <2>4 DEF RcopyTypeOK, RecvStates, ClientExits
<1>11. CASE FlushEntry
    <2>1. buffer' \in CircularBuffer /\ buffer'.current = buffer.current + 1
        BY <1>1, <1>11, FlushedEntry DEF FlushEntry
    <2>2. buffer'.current \in Nat /\ buffer'.current >= buffer.current
        BY <1>1, <2>1
    <2>3. Entry(buffer, buffer.current).data \in Payload
        BY <1>1, EntryType DEF BufferEntry
    <2>4. out' \in Seq(Nat \cup {Uninit}) /\ UNCHANGED <<rcv, toClient>>
        BY <1>1, <1>11, <2>3, WrittenType DEF FlushEntry
    <2>5. Sent
        BY <1>4, <1>11, <2>2 DEF FlushEntry
    <2> QED BY <1>1, <2>1, <2>2, <2>4, <2>5 DEF RcopyTypeOK, ClientExits
<1>12. CASE FlushEnd
    <2>1. UNCHANGED <<buffer, out, toClient>> /\ rcv' \in {"INORDER", "BUFFER"}
        BY <1>12 DEF FlushEnd
    <2>2. CASE UNCHANGED <<toServer, faults>>
        BY <1>1, <1>6, <2>1, <2>2 DEF RcopyTypeOK, RecvStates, ClientExits
    <2>3. CASE SendTwoToServer(SREJ(buffer.current), RR(buffer.current))
        <3>1. Sent
            BY <1>1, <1>2, <2>1, <2>3, AckFields, SendTwoToServerAdds DEF ClientAcks
        <3> QED BY <1>1, <2>1, <3>1 DEF RcopyTypeOK, RecvStates, ClientExits
    <2> QED BY <1>12, <2>2, <2>3 DEF FlushEnd
<1>13. CASE ClientTimeout
    <2>1. UNCHANGED <<buffer, out, toClient, toServer, faults>> /\ rcv' = "ABORTED"
        BY <1>13 DEF ClientTimeout, netVars
    <2> QED BY <1>1, <1>6, <2>1 DEF RcopyTypeOK, RecvStates, ClientExits
<1> QED BY <1>7, <1>8, <1>9, <1>10, <1>11, <1>12, <1>13
        DEF ClientNext, ClientStep, handle_inorder, handle_buffer, handle_flush, Receiving

\* A step of rcopy takes one packet at most.
LEMMA ClientTakes ==
    ASSUME ClientNext
    PROVE  toClient' = toClient \/ (toClient # <<>> /\ toClient' = Tail(toClient))
BY DEF ClientNext, ClientStep, ClientTimeout, handle_inorder, handle_buffer, handle_flush,
    DropCorrupted, ExitTransfer, WriteInorder, GapFound, FillGap, StoreEarly, AckAgain,
    FlushEntry, FlushEnd, Accepted, Received, netVars

\* It reads one unless it flushes its buffer.
LEMMA ClientReads ==
    ASSUME ClientStep
    PROVE  /\ rcv = "FLUSH" => toClient' = toClient
           /\ rcv # "FLUSH" => toClient # <<>> /\ toClient' = Tail(toClient)
           /\ rcv' = "FLUSH" /\ rcv # "FLUSH" => rcv = "BUFFER"
BY DEF ClientStep, handle_inorder, handle_buffer, handle_flush,
    DropCorrupted, ExitTransfer, WriteInorder, GapFound, FillGap, StoreEarly, AckAgain,
    FlushEntry, FlushEnd, Accepted, Received, rcopyVars

------------------------------------------------------------------------------
(***************************************************************************)
(* Losses.                                                                 *)
(***************************************************************************)

\* The number of losses stays within its bound.
LEMMA FaultsBounded ==
    ASSUME ServerNext \/ ClientNext, faults <= MaxFaults
    PROVE  faults' <= MaxFaults
<1>1. ASSUME NEW p, SendToClient(p) \/ SendToServer(p)
      PROVE  faults' <= MaxFaults
    BY <1>1 DEF SendToClient, SendToServer
<1>2. ASSUME NEW p, NEW q, SendTwoToServer(p, q)
      PROVE  faults' <= MaxFaults
    BY <1>2 DEF SendTwoToServer
<1>3. ASSUME NEW seq, NEW flag, NEW next, resend_packet(seq, flag, next)
      PROVE  faults' <= MaxFaults
    BY <1>1, <1>3 DEF resend_packet
<1>4. ASSUME NEW next, NEW onEof, process_rr_srej_eof(next, onEof)
      PROVE  faults' <= MaxFaults
    BY <1>3, <1>4 DEF process_rr_srej_eof
<1>5. CASE ServerNext
    <2>1. CASE DrainRecv \/ FullRecv \/ EofRecv
        BY <1>4, <2>1 DEF DrainRecv, FullRecv, EofRecv
    <2>2. CASE SendData \/ SendEof
        BY <1>1, <2>2 DEF SendData, SendEof
    <2>3. CASE FullTimeout
        BY <1>3, <2>3 DEF FullTimeout
    <2> QED BY <1>5, <2>1, <2>2, <2>3 DEF ServerNext, ServerStep, ServerTimeout, ReadEof,
            WindowClosed, DrainDone, FullDone, EofTimeout, netVars
<1>6. CASE ClientNext
    BY <1>1, <1>2, <1>6 DEF ClientNext, ClientStep, ClientTimeout, handle_inorder,
        handle_buffer, handle_flush, DropCorrupted, ExitTransfer, WriteInorder, GapFound,
        FillGap, StoreEarly, AckAgain, FlushEntry, FlushEnd, netVars
<1> QED BY <1>5, <1>6

\* A packet is sent as it is or a fault is counted.
LEMMA SendToClientCost ==
    ASSUME faults \in Nat, NEW p, SendToClient(p)
    PROVE  \/ faults' = faults /\ toClient' = Put(toClient, "sent", p)
           \/ faults' = faults + 1
BY DEF SendToClient, Cost, Fates

LEMMA SendToServerCost ==
    ASSUME faults \in Nat, NEW p, SendToServer(p)
    PROVE  \/ faults' = faults /\ toServer' = Put(toServer, "sent", p)
           \/ faults' = faults + 1
BY DEF SendToServer, Cost, Fates

\* Faults are never taken back.
LEMMA FaultsKept ==
    ASSUME faults \in Nat, ServerNext \/ ClientNext
    PROVE  faults' >= faults
<1>1. faults \in Nat
    OBVIOUS
<1>2. ASSUME NEW p, SendToClient(p) \/ SendToServer(p)
      PROVE  faults' >= faults
    BY <1>1, <1>2, SendToClientCost, SendToServerCost
<1>3. ASSUME NEW p, NEW q, SendTwoToServer(p, q)
      PROVE  faults' >= faults
    BY <1>1, <1>3 DEF SendTwoToServer, Cost
<1>4. ASSUME UNCHANGED faults
      PROVE  faults' >= faults
    BY <1>1, <1>4
<1>5. ASSUME NEW seq, NEW flag, NEW next, resend_packet(seq, flag, next)
      PROVE  faults' >= faults
    BY <1>2, <1>4, <1>5 DEF resend_packet
<1>6. ASSUME NEW next, NEW onEof, process_rr_srej_eof(next, onEof)
      PROVE  faults' >= faults
    BY <1>4, <1>5, <1>6 DEF process_rr_srej_eof
<1>7. ASSUME ServerNext
      PROVE  faults' >= faults
    <2>1. CASE SendData \/ SendEof
        BY <1>2, <2>1 DEF SendData, SendEof
    <2>2. CASE DrainRecv \/ FullRecv \/ EofRecv
        BY <1>6, <2>2 DEF DrainRecv, FullRecv, EofRecv
    <2>3. CASE FullTimeout
        BY <1>4, <1>5, <2>3 DEF FullTimeout
    <2>4. CASE ReadEof \/ WindowClosed \/ DrainDone \/ FullDone \/ EofTimeout
        BY <1>4, <2>4 DEF ReadEof, WindowClosed, DrainDone, FullDone, EofTimeout, netVars
    <2> QED BY <1>7, <2>1, <2>2, <2>3, <2>4 DEF ServerNext, ServerStep, ServerTimeout
<1>8. ASSUME ClientNext
      PROVE  faults' >= faults
    BY <1>2, <1>3, <1>4, <1>8 DEF ClientNext, ClientStep, ClientTimeout, handle_inorder,
        handle_buffer, handle_flush, DropCorrupted, ExitTransfer, WriteInorder, GapFound, FillGap,
        StoreEarly, AckAgain, FlushEntry, FlushEnd, netVars
<1> QED BY <1>7, <1>8

\* Without damage a packet is queued as it is or not at all; if the queue was
\* empty and still is, the packet was lost.
LEMMA SentOrLost ==
    ASSUME NEW p, SendToClient(p), "flip" \notin ServerErrors, faults \in Nat, QueueCap \in Nat \ {0}
    PROVE  /\ toClient' = toClient \/ toClient' = Append(toClient, p)
           /\ faults' >= faults
           /\ toClient = <<>> /\ toClient' = <<>> => faults' = faults + 1
<1>1. PICK fate \in Fates(ServerErrors) :
        faults' = faults + Cost(fate) /\ toClient' = Put(toClient, fate, p)
    BY DEF SendToClient
<1>2. fate # "flip" /\ Cost(fate) \in {0, 1}
    BY DEF Fates, Cost
<1>3. toClient' = toClient \/ toClient' = Append(toClient, p)
    BY <1>1, <1>2 DEF Put
<1>4. ASSUME toClient = <<>>, toClient' = <<>>
      PROVE  fate = "drop"
    <2>1. Len(toClient) = 0 /\ Append(toClient, p) # <<>>
        BY <1>4
    <2> QED BY <1>1, <1>2, <1>4, <2>1 DEF Put
<1> QED BY <1>1, <1>2, <1>3, <1>4 DEF Cost

\* A child rcopy has sent nothing to, and of which rcopy has nothing if every
\* chunk it sent was lost.
Unheard ==
    /\ window.lowest = 0 /\ window.highest = BufferSize /\ filePos <= BufferSize
    /\ srv \notin Stopped
    /\ srv = "WINDOW_FULL" => filePos = BufferSize
    /\ toClient = <<>> => faults > filePos

\* It goes on like that, and what rcopy gets of it begins with a chunk, as long
\* as there are fewer losses than chunks in the file and in its first window.
LEMMA UnheardStep ==
    ASSUME NEW C, toClient \in Seq(C), faults \in Nat, toServer = <<>>,
           ChildOK, window.current = filePos, srv \in EofStates => filePos = NumChunks,
           Unheard, "flip" \notin ServerErrors,
           faults <= MaxFaults, MaxFaults <= NumChunks, MaxFaults <= BufferSize,
           ServerStep \/ (ServerTimeout /\ toClient = <<>>)
    PROVE  /\ Unheard'
           /\ toServer' = <<>>
           /\ toClient = <<>> =>
                \/ toClient' = <<>>
                \/ \E p : p.flag = FLAG_DATA /\ toClient' = <<p>>
<1>1. /\ BufferSize \in Nat \ {0} /\ QueueCap \in Nat \ {0} /\ MaxFaults \in Nat
      /\ NumChunks \in Nat /\ filePos \in 0..NumChunks
      /\ window \in CircularBuffer
    BY SizeAssumption, NetworkAssumption, ServerAssumption DEF ChildOK
<1>2. ASSUME NEW next, NEW onEof, process_rr_srej_eof(next, onEof)
      PROVE  FALSE
    BY <1>2 DEF process_rr_srej_eof
<1>3. ~(DrainRecv \/ FullRecv \/ EofRecv)
    BY <1>2 DEF DrainRecv, FullRecv, EofRecv
<1>4. srv \in {"WINDOW_FULL"} \cup EofStates => toClient # <<>>
    BY <1>1 DEF Unheard
<1>5. ~(ServerTimeout /\ toClient = <<>>)
    BY <1>4 DEF ServerTimeout, FullTimeout, WindowFull, EofTimeout, EofStates
<1>6. CASE SendData
    <2> DEFINE s == window.current
               w == buffer_add(window, s, filePos)
               p == build_packet(s, FLAG_DATA, Entry(w, s).data)
    <2>1. /\ window.current < window.highest /\ SendToClient(p)
          /\ window' = [w EXCEPT !.current = s + 1]
          /\ filePos' = filePos + 1 /\ srv' = "DRAIN" /\ toServer' = <<>>
        BY <1>6 DEF SendData
    <2>2. p.flag = FLAG_DATA
        BY DEF build_packet
    <2> HIDE DEF p
    <2>3. /\ toClient' = toClient \/ toClient' = Append(toClient, p)
          /\ faults' >= faults
          /\ toClient = <<>> /\ toClient' = <<>> => faults' = faults + 1
        BY <1>1, <2>1, SentOrLost
    <2>4. window'.lowest = 0 /\ window'.highest = BufferSize
        BY <1>1, <2>1, BufferAdd DEF Unheard, CircularBuffer, buffer_add
    <2>5. toClient' = <<>> => toClient = <<>>
        BY <2>3
    <2>6. faults' \in Nat
        BY <2>1 DEF SendToClient, Cost
    <2>7. filePos' <= BufferSize
        BY <1>1, <2>1 DEF Unheard
    <2>8. Unheard'
        BY <1>1, <2>1, <2>3, <2>4, <2>5, <2>6, <2>7 DEF Unheard, Stopped
    <2>9. toClient = <<>> => Append(toClient, p) = <<p>>
        OBVIOUS
    <2> QED BY <2>1, <2>2, <2>3, <2>8, <2>9
<1>7. CASE SendEof
    <2> DEFINE p == build_packet(window.current, FLAG_EOF, NoData)
    <2>1. toClient # <<>>
        BY <1>4, <1>7 DEF SendEof, EofStates
    <2>2. SendToClient(p) /\ UNCHANGED <<window, filePos, toServer>> /\ srv' = "EOF_POLL"
        BY <1>7 DEF SendEof
    <2> HIDE DEF p
    <2>3. toClient' # <<>>
        BY <1>1, <2>1, <2>2, SentOrLost
    <2> QED BY <2>1, <2>2, <2>3 DEF Unheard, Stopped
<1>8. CASE ReadEof \/ WindowClosed \/ DrainDone \/ FullDone
    <2>1. UNCHANGED <<window, filePos, toServer, toClient, faults>>
        BY <1>8 DEF ReadEof, WindowClosed, DrainDone, FullDone, netVars
    <2>2. srv' \notin Stopped
        BY <1>8 DEF ReadEof, WindowClosed, DrainDone, FullDone, Stopped
    <2>3. srv' = "WINDOW_FULL" => filePos = BufferSize
        BY <1>1, <1>8 DEF ReadEof, WindowClosed, DrainDone, FullDone, Unheard
    <2> QED BY <2>1, <2>2, <2>3 DEF Unheard
<1> QED BY <1>3, <1>5, <1>6, <1>7, <1>8 DEF ServerStep
==============================================================================
