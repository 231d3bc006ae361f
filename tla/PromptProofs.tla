------------------------------ MODULE PromptProofs ------------------------------
(***************************************************************************)
(* Theorems about a session whose time-outs come only when waiting longer  *)
(* would have brought nothing, and whose packets may be lost: for every    *)
(* size and every kill, failed call and restart, what one request brought  *)
(* about is over before rcopy asks again.  So the listener gets nothing    *)
(* but requests, and there is one child at a time; what that child sends   *)
(* arrives whole and in order; if nothing is lost, rcopy gives up only for *)
(* the dead; and if nobody is killed, one loss costs it nothing but time.  *)
(***************************************************************************)
EXTENDS SessionProofs, FiniteSetTheorems, SequenceTheorems

\* Packets are lost, but not damaged.
OnlyLost == "flip" \notin ServerErrors /\ "flip" \notin ClientErrors

\* Not every chunk of the first window and the answer before it can be lost.
FewLosses == MaxFaults <= NumChunks /\ MaxFaults <= BufferSize

Asking == phase \in {"SEND_FILENAME", "POLL"}

\* A request that will be answered, or one that has been and has not led to its
\* child yet.
Pending == toListener # <<>> /\ listener # "KILLED"
BeingServed == Pending \/ listener = "FORK"

NobodyRuns == {srvA, srvB} \subseteq {Unborn, Killed}

\* The listener gets requests, one at a time.
ListenerInv ==
    /\ \A p \in InFlight(toListener) : p.flag = FLAG_FILENAME
    /\ listener # "CRASHED"
    /\ listener = "FORK" => toListener = <<>>
    /\ Pending => Len(toListener) = 1
    /\ BeingServed => NobodyRuns

\* One child at a time, and a second one only in place of one that was killed.
BirthInv ==
    /\ children >= 1 => srvA # Unborn
    /\ children >= 2 => srvA = Killed /\ srvB # Unborn
    /\ srvA = Unborn => filePosA = 0 /\ windowA = buffer_init(BufferSize)
    /\ srvB = Unborn => filePosB = 0 /\ windowB = buffer_init(BufferSize)
    /\ srvA = Killed => "A" \in crashes
    /\ srvB = Killed => "B" \in crashes
    /\ faults <= MaxFaults

\* A child that has heard nothing from rcopy.
Unanswered(w, pos, s) ==
    /\ w.lowest = 0 /\ w.highest = BufferSize /\ pos <= BufferSize
    /\ s \notin A!Stopped
    /\ s = "WINDOW_FULL" => pos = BufferSize
    /\ s \notin {Unborn, Killed} /\ toClient = <<>> => faults > pos

\* Before rcopy has its answer.  If nothing is on its way to it, the answer
\* and every chunk sent so far were lost.
AskingInv ==
    Asking =>
        /\ rcv = "INORDER" /\ buffer = buffer_init(0) /\ out = <<>>
        /\ peer = "listener"
        /\ toA = <<>> /\ toB = <<>>
        /\ Unanswered(windowA, filePosA, srvA)
        /\ Unanswered(windowB, filePosB, srvB)
        /\ listener = "FORK" /\ toClient = <<>> => faults > 0
        /\ Pending => toClient = <<>>
        /\ toClient # <<>> =>
                toClient[1].flag \in {FLAG_FILENAME_ACK, FLAG_FILENAME_ERROR, FLAG_DATA}
        /\ \A i \in 2..Len(origins) : origins[i] # "listener"
        /\ phase = "SEND_FILENAME" => toClient = <<>> /\ ~BeingServed /\ NobodyRuns

\* Once rcopy receives it has nothing more to do with the listener.
ReceivingInv ==
    phase = "RECEIVE_DATA" =>
        /\ ~Pending
        /\ \A i \in 1..Len(origins) : origins[i] # "listener"
        /\ peer = "listener" => rcv # "FLUSH"

PromptInv ==
    /\ ListenerInv
    /\ BirthInv
    /\ AskingInv
    /\ ReceivingInv

\* The queue of rcopy and the senders of what is in it are of one length.
LEMMA OriginsOfStep ==
    ASSUME NEW s \in Senders, SessionInv, toClient' \in Seq(ToClient), SentBy(s),
           toClient' = toClient \/ \E p : toClient' = Append(toClient, p)
    PROVE  /\ origins' = origins \/ origins' = Append(origins, s)
           /\ origins \in Seq(Senders)
           /\ toClient = <<>> => origins = <<>>
<1>1. /\ origins \in Seq(Senders) /\ Len(origins) = Len(toClient)
      /\ toClient \in Seq(ToClient)
    BY DEF SessionInv, TypeOK, QueuesOK
<1>2. Len(origins) = 0 => origins = <<>>
    BY <1>1
<1> QED BY <1>1, <1>2 DEF SentBy

\* A step of child A.
LEMMA ChildAPrompt ==
    ASSUME SessionInv, PromptInv, OnlyLost, FewLosses, PromptChildA
    PROVE  PromptInv'
<1>1. /\ TypeOK /\ QueuesOK /\ ChildAInv
      /\ ListenerInv /\ BirthInv /\ AskingInv /\ ReceivingInv
      /\ A!ServerStep \/ (A!ServerTimeout /\ toA = <<>> /\ ClientWaiting)
      /\ A!ServerNext /\ SentBy("A")
      /\ UNCHANGED <<phase, requests, buffer, rcv, out, peer, listener, badRequests,
                     children, fileExists, windowB, filePosB, srvB, attemptsB,
                     toListener, toB, crashes>>
    BY DEF SessionInv, PromptInv, PromptChildA, ChildANext, clientVars, exchangeVars,
        receiveVars, listenerVars, childBVars, A!ServerNext
<1>2. /\ srvA' \in A!ServerStates /\ srvA # Unborn
      /\ toClient' \in Seq(ToClient)
      /\ toClient' = toClient \/ \E p : toClient' = Append(toClient, p)
    BY <1>1, ChildAMoves
<1>3. srvA # Killed
    BY <1>1 DEF Killed, A!ServerNext, A!ServerStep, A!ServerTimeout, A!SendData, A!ReadEof,
        A!WindowClosed, A!DrainRecv, A!DrainDone, A!FullRecv, A!FullTimeout, A!WindowFull,
        A!FullDone, A!SendEof, A!EofRecv, A!EofTimeout
<1>4. srvA' \notin {Unborn, Killed}
    BY <1>2 DEF A!ServerStates, A!EofStates, A!Stopped, Unborn, Killed
<1>5. /\ origins' = origins \/ origins' = Append(origins, "A")
      /\ origins \in Seq(Senders)
      /\ toClient = <<>> => origins = <<>>
    BY <1>1, <1>2, OriginsOfStep DEF Senders
<1>6. ListenerInv' /\ ~BeingServed
    BY <1>1, <1>2, <1>3 DEF ListenerInv, BeingServed, Pending, NobodyRuns
<1>7. AP!ServerNext
    BY <1>1, ChildAIsChild
<1>8. faults' <= MaxFaults
    BY <1>1, <1>7, AP!FaultsBounded, PayloadAssumption, SizeAssumption, SessionAssumption
    DEF BirthInv
<1>9. BirthInv'
    BY <1>1, <1>2, <1>3, <1>4, <1>8 DEF BirthInv
<1>10. ReceivingInv'
    <2> SUFFICES ASSUME phase = "RECEIVE_DATA"
                 PROVE  \A i \in 1..Len(origins') : origins'[i] # "listener"
        BY <1>1 DEF ReceivingInv, Pending
    <2>1. \A i \in 1..Len(origins) : origins[i] # "listener"
        BY <1>1 DEF ReceivingInv
    <2> QED BY <1>5, <2>1
<1>11. AskingInv'
    <2> SUFFICES ASSUME Asking
                 PROVE  AskingInv'
        BY <1>1 DEF AskingInv, Asking
    <2>1. /\ phase = "POLL" /\ toA = <<>>
          /\ Unanswered(windowA, filePosA, srvA) /\ Unanswered(windowB, filePosB, srvB)
        BY <1>1, <1>2, <1>3 DEF AskingInv, Asking, NobodyRuns
    <2>2. A!ServerStep \/ (A!ServerTimeout /\ toClient = <<>>)
        <3>1. ClientWaiting => toClient = <<>>
            BY <1>1, <2>1 DEF ClientWaiting, ClientGone, AskingInv, Asking, ReceiveL!Gone
        <3> QED BY <1>1, <3>1
    <2>3. AP!ServerStep \/ (AP!ServerTimeout /\ toClient = <<>>)
        BY <2>2, ChildAIsChild
    <2>4. AP!Unheard
        BY <1>2, <1>3, <2>1 DEF AP!Unheard, Unanswered, A!Stopped, AP!Stopped
    <2>5. /\ toClient \in Seq(ToClient) /\ faults \in Nat
          /\ AP!ChildOK
          /\ windowA.current = filePosA
          /\ srvA \in AP!EofStates => filePosA = NumChunks
          /\ faults <= MaxFaults /\ MaxFaults <= NumChunks /\ MaxFaults <= BufferSize
          /\ "flip" \notin ServerErrors
        BY <1>1 DEF QueuesOK, BirthInv, FewLosses, OnlyLost, ChildAInv, ChildInv, AP!ChildOK,
            CircularBuffer, AP!CircularBuffer, BufferEntry, AP!BufferEntry, Slots, AP!Slots,
            Payload, AP!Payload, A!Stopped, AP!Stopped, A!EofStates, AP!EofStates
    <2>6. /\ AP!Unheard'
          /\ toA' = <<>>
          /\ toClient = <<>> =>
                \/ toClient' = <<>>
                \/ \E p : p.flag = AP!FLAG_DATA /\ toClient' = <<p>>
        BY <2>1, <2>3, <2>4, <2>5, AP!UnheardStep, PayloadAssumption, SizeAssumption,
            SessionAssumption
    <2>7. Unanswered(windowA, filePosA, srvA)'
        BY <2>6 DEF AP!Unheard, Unanswered, A!Stopped, AP!Stopped
    <2>8. Unanswered(windowB, filePosB, srvB)'
        <3>1. children \in 0..2
            BY <1>1, SessionAssumption DEF TypeOK, Parent!ListenerTypeOK
        <3>2. srvB = Unborn
            BY <1>1, <1>2, <1>3, <3>1 DEF BirthInv, SessionInv, ForkInv
        <3> QED BY <1>1, <2>1, <3>2 DEF Unanswered
    <2>9. toClient' = <<>> => toClient = <<>>
        BY <1>2
    <2>10. toClient' # <<>> =>
                toClient'[1].flag \in {FLAG_FILENAME_ACK, FLAG_FILENAME_ERROR, FLAG_DATA}
        <3>1. CASE toClient = <<>>
            BY <2>6, <3>1 DEF AP!FLAG_DATA, FLAG_DATA
        <3>2. CASE toClient # <<>>
            <4>1. toClient'[1] = toClient[1]
                BY <1>2, <2>5, <3>2
            <4> QED BY <1>1, <3>2, <4>1 DEF AskingInv
        <3> QED BY <3>1, <3>2
    <2>11. \A i \in 2..Len(origins') : origins'[i] # "listener"
        <3>1. \A i \in 2..Len(origins) : origins[i] # "listener"
            BY <1>1 DEF AskingInv
        <3> QED BY <1>5, <3>1
    <2> QED BY <1>1, <1>6, <2>1, <2>6, <2>7, <2>8, <2>9, <2>10, <2>11
            DEF AskingInv, Asking, BeingServed, Pending
<1> QED BY <1>6, <1>9, <1>10, <1>11 DEF PromptInv

\* A step of child B.
LEMMA ChildBPrompt ==
    ASSUME SessionInv, PromptInv, OnlyLost, FewLosses, PromptChildB
    PROVE  PromptInv'
<1>1. /\ TypeOK /\ QueuesOK /\ ChildBInv
      /\ ListenerInv /\ BirthInv /\ AskingInv /\ ReceivingInv
      /\ B!ServerStep \/ (B!ServerTimeout /\ toB = <<>> /\ ClientWaiting)
      /\ B!ServerNext /\ SentBy("B")
      /\ UNCHANGED <<phase, requests, buffer, rcv, out, peer, listener, badRequests,
                     children, fileExists, windowA, filePosA, srvA, attemptsA,
                     toListener, toA, crashes>>
    BY DEF SessionInv, PromptInv, PromptChildB, ChildBNext, clientVars, exchangeVars,
        receiveVars, listenerVars, childAVars, B!ServerNext
<1>2. /\ srvB' \in A!ServerStates /\ srvB # Unborn
      /\ toClient' \in Seq(ToClient)
      /\ toClient' = toClient \/ \E p : toClient' = Append(toClient, p)
    BY <1>1, ChildBMoves
<1>3. srvB # Killed
    BY <1>1 DEF Killed, B!ServerNext, B!ServerStep, B!ServerTimeout, B!SendData, B!ReadEof,
        B!WindowClosed, B!DrainRecv, B!DrainDone, B!FullRecv, B!FullTimeout, B!WindowFull,
        B!FullDone, B!SendEof, B!EofRecv, B!EofTimeout
<1>4. srvB' \notin {Unborn, Killed}
    BY <1>2 DEF A!ServerStates, A!EofStates, A!Stopped, Unborn, Killed
<1>5. /\ origins' = origins \/ origins' = Append(origins, "B")
      /\ origins \in Seq(Senders)
      /\ toClient = <<>> => origins = <<>>
    BY <1>1, <1>2, OriginsOfStep DEF Senders
<1>6. ListenerInv' /\ ~BeingServed
    BY <1>1, <1>2, <1>3 DEF ListenerInv, BeingServed, Pending, NobodyRuns
<1>7. BP!ServerNext
    BY <1>1, ChildBIsChild
<1>8. faults' <= MaxFaults
    BY <1>1, <1>7, BP!FaultsBounded, PayloadAssumption, SizeAssumption, SessionAssumption
    DEF BirthInv
<1>9. BirthInv'
    BY <1>1, <1>2, <1>3, <1>4, <1>8 DEF BirthInv
<1>10. ReceivingInv'
    <2> SUFFICES ASSUME phase = "RECEIVE_DATA"
                 PROVE  \A i \in 1..Len(origins') : origins'[i] # "listener"
        BY <1>1 DEF ReceivingInv, Pending
    <2>1. \A i \in 1..Len(origins) : origins[i] # "listener"
        BY <1>1 DEF ReceivingInv
    <2> QED BY <1>5, <2>1
<1>11. AskingInv'
    <2> SUFFICES ASSUME Asking
                 PROVE  AskingInv'
        BY <1>1 DEF AskingInv, Asking
    <2>1. /\ phase = "POLL" /\ toB = <<>>
          /\ Unanswered(windowB, filePosB, srvB) /\ Unanswered(windowA, filePosA, srvA)
        BY <1>1, <1>2, <1>3 DEF AskingInv, Asking, NobodyRuns
    <2>2. B!ServerStep \/ (B!ServerTimeout /\ toClient = <<>>)
        <3>1. ClientWaiting => toClient = <<>>
            BY <1>1, <2>1 DEF ClientWaiting, ClientGone, AskingInv, Asking, ReceiveL!Gone
        <3> QED BY <1>1, <3>1
    <2>3. BP!ServerStep \/ (BP!ServerTimeout /\ toClient = <<>>)
        BY <2>2, ChildBIsChild
    <2>4. BP!Unheard
        BY <1>2, <1>3, <2>1 DEF BP!Unheard, Unanswered, A!Stopped, BP!Stopped
    <2>5. /\ toClient \in Seq(ToClient) /\ faults \in Nat
          /\ BP!ChildOK
          /\ windowB.current = filePosB
          /\ srvB \in BP!EofStates => filePosB = NumChunks
          /\ faults <= MaxFaults /\ MaxFaults <= NumChunks /\ MaxFaults <= BufferSize
          /\ "flip" \notin ServerErrors
        BY <1>1 DEF QueuesOK, BirthInv, FewLosses, OnlyLost, ChildBInv, ChildInv, BP!ChildOK,
            CircularBuffer, BP!CircularBuffer, BufferEntry, BP!BufferEntry, Slots, BP!Slots,
            Payload, BP!Payload, A!Stopped, BP!Stopped, A!EofStates, BP!EofStates
    <2>6. /\ BP!Unheard'
          /\ toB' = <<>>
          /\ toClient = <<>> =>
                \/ toClient' = <<>>
                \/ \E p : p.flag = BP!FLAG_DATA /\ toClient' = <<p>>
        BY <2>1, <2>3, <2>4, <2>5, BP!UnheardStep, PayloadAssumption, SizeAssumption,
            SessionAssumption
    <2>7. Unanswered(windowB, filePosB, srvB)'
        BY <2>6 DEF BP!Unheard, Unanswered, A!Stopped, BP!Stopped
    <2>8. Unanswered(windowA, filePosA, srvA)'
        <3>1. children \in 0..2
            BY <1>1, SessionAssumption DEF TypeOK, Parent!ListenerTypeOK
        <3>2. srvA = Killed
            BY <1>1, <1>2, <1>3, <3>1 DEF BirthInv, SessionInv, ForkInv
        <3> QED BY <1>1, <2>1, <3>2 DEF Unanswered
    <2>9. toClient' = <<>> => toClient = <<>>
        BY <1>2
    <2>10. toClient' # <<>> =>
                toClient'[1].flag \in {FLAG_FILENAME_ACK, FLAG_FILENAME_ERROR, FLAG_DATA}
        <3>1. CASE toClient = <<>>
            BY <2>6, <3>1 DEF BP!FLAG_DATA, FLAG_DATA
        <3>2. CASE toClient # <<>>
            <4>1. toClient'[1] = toClient[1]
                BY <1>2, <2>5, <3>2
            <4> QED BY <1>1, <3>2, <4>1 DEF AskingInv
        <3> QED BY <3>1, <3>2
    <2>11. \A i \in 2..Len(origins') : origins'[i] # "listener"
        <3>1. \A i \in 2..Len(origins) : origins[i] # "listener"
            BY <1>1 DEF AskingInv
        <3> QED BY <1>5, <3>1
    <2> QED BY <1>1, <1>6, <2>1, <2>6, <2>7, <2>8, <2>9, <2>10, <2>11
            DEF AskingInv, Asking, BeingServed, Pending
<1> QED BY <1>6, <1>9, <1>10, <1>11 DEF PromptInv

\* An answer of the listener: the request is read, and the answer is the only
\* packet rcopy has or it was lost.
LEMMA ListenerAnswers ==
    ASSUME SessionInv, PromptInv, OnlyLost, SentBy("listener"),
           NEW p \in ToClient,
           p.flag \in {FLAG_FILENAME_ACK, FLAG_FILENAME_ERROR},
           Parent!NextPacket(Head(toListener)), Parent!SendToClient(p),
           listener' \in {"LISTEN", "FORK"}, crashes \subseteq crashes',
           UNCHANGED <<phase, rcv, buffer, out, peer, children, toA, toB,
                       windowA, filePosA, srvA, windowB, filePosB, srvB>>
    PROVE  PromptInv'
<1>1. /\ TypeOK /\ QueuesOK /\ ListenerInv /\ BirthInv /\ AskingInv /\ ReceivingInv
      /\ toClient \in Seq(ToClient) /\ faults \in Nat /\ toListener \in Seq(ToServer)
      /\ origins \in Seq(Senders) /\ Len(origins) = Len(toClient)
      /\ faults <= MaxFaults
    BY DEF SessionInv, PromptInv, TypeOK, QueuesOK, BirthInv
<1>2. Pending
    BY DEF Parent!NextPacket, Pending
<1>3. toListener' = <<>> /\ NobodyRuns
    BY <1>1, <1>2 DEF ListenerInv, Parent!NextPacket, BeingServed
<1>4. LP!SendToClient(p)
    BY DEF Parent!SendToClient, LP!SendToClient, Parent!Put, LP!Put, Parent!Cost, LP!Cost,
        Parent!Fates, LP!Fates, Parent!Corrupted, LP!Corrupted, Parent!build_packet,
        LP!build_packet
<1>5. /\ toClient' = toClient \/ toClient' = Append(toClient, p)
      /\ faults' >= faults /\ faults' <= MaxFaults
      /\ toClient = <<>> /\ toClient' = <<>> => faults' = faults + 1
    <2>1. "flip" \notin ServerErrors /\ QueueCap \in Nat \ {0}
        BY SessionAssumption DEF OnlyLost
    <2>2. faults' <= MaxFaults
        BY <1>4 DEF LP!SendToClient
    <2> QED BY <1>1, <1>4, <2>1, <2>2, LP!SentOrLost, PayloadAssumption, SizeAssumption,
            SessionAssumption
<1>6. ListenerInv'
    BY <1>1, <1>3 DEF ListenerInv, Pending, BeingServed, NobodyRuns, InFlight
<1>7. BirthInv'
    BY <1>1, <1>5 DEF BirthInv
<1>8. ReceivingInv'
    BY <1>1, <1>2 DEF ReceivingInv
<1>9. AskingInv'
    <2> SUFFICES ASSUME Asking
                 PROVE  AskingInv'
        BY DEF AskingInv, Asking
    <2>1. phase = "POLL" /\ toClient = <<>> /\ origins = <<>>
        <3>1. phase = "POLL" /\ toClient = <<>>
            BY <1>1, <1>2 DEF AskingInv, Asking, BeingServed
        <3> QED BY <1>1, <3>1
    <2>2. Unanswered(windowA, filePosA, srvA)' /\ Unanswered(windowB, filePosB, srvB)'
        BY <1>1, <1>3 DEF AskingInv, Unanswered, NobodyRuns
    <2>3. toClient' = <<>> => faults' > 0
        BY <1>1, <1>5, <2>1
    <2>4. toClient' # <<>> => toClient'[1] = p
        BY <1>5, <2>1
    <2>5. \A i \in 2..Len(origins') : origins'[i] # "listener"
        <3>1. origins' = <<>> \/ origins' = <<"listener">>
            BY <2>1 DEF SentBy
        <3>2. Len(<<>>) <= 1 /\ Len(<<"listener">>) <= 1
            OBVIOUS
        <3> QED BY <3>1, <3>2
    <2> QED BY <1>1, <1>3, <2>1, <2>2, <2>3, <2>4, <2>5 DEF AskingInv, Asking, Pending
<1> QED BY <1>6, <1>7, <1>8, <1>9 DEF PromptInv

\* A fork makes the first child, or a second one for one that was killed.
LEMMA ForkPrompt ==
    ASSUME SessionInv, PromptInv, Parent!Fork,
           srvA' = Forked(1, srvA), srvB' = Forked(2, srvB),
           UNCHANGED <<phase, rcv, buffer, out, peer, toA, toB, crashes, origins,
                       windowA, filePosA, windowB, filePosB>>
    PROVE  PromptInv'
<1>1. /\ TypeOK /\ QueuesOK /\ ForkInv
      /\ ListenerInv /\ BirthInv /\ AskingInv /\ ReceivingInv
      /\ children \in 0..2
    BY SessionAssumption DEF SessionInv, PromptInv, TypeOK, Parent!ListenerTypeOK
<1>2. /\ listener = "FORK" /\ listener' = "LISTEN" /\ children' = children + 1
      /\ UNCHANGED <<toClient, toListener, faults>>
    BY DEF Parent!Fork, Parent!netVars
<1>3. toListener = <<>> /\ NobodyRuns
    BY <1>1, <1>2 DEF ListenerInv, BeingServed
<1>4. ListenerInv' /\ ~BeingServed'
    BY <1>1, <1>2, <1>3 DEF ListenerInv, BeingServed, Pending
<1>5. \/ /\ children = 0
         /\ srvA = Unborn /\ srvB = Unborn /\ srvA' = "SEND_DATA" /\ srvB' = Unborn
      \/ /\ children = 1
         /\ srvA = Killed /\ srvB = Unborn /\ srvA' = Killed /\ srvB' = "SEND_DATA"
    <2>1. children \in {0, 1}
        BY <1>1, SessionAssumption DEF Parent!Fork
    <2>2. CASE children = 0
        BY <1>1, <1>2, <2>2 DEF ForkInv, Forked
    <2>3. CASE children = 1
        BY <1>1, <1>2, <1>3, <2>3 DEF ForkInv, Forked, BirthInv, NobodyRuns
    <2> QED BY <2>1, <2>2, <2>3
<1>6. BirthInv'
    BY <1>1, <1>2, <1>5 DEF BirthInv, Unborn, Killed
<1>7. ReceivingInv'
    BY <1>1, <1>2, <1>4 DEF ReceivingInv, BeingServed
<1>8. AskingInv'
    <2> SUFFICES ASSUME Asking
                 PROVE  AskingInv'
        BY DEF AskingInv, Asking
    <2>1. phase = "POLL"
        BY <1>1, <1>2 DEF AskingInv, Asking, BeingServed
    <2>2. toClient = <<>> => faults > 0
        BY <1>1, <1>2 DEF AskingInv
    <2>3. Unanswered(windowA, filePosA, srvA) /\ Unanswered(windowB, filePosB, srvB)
        BY <1>1 DEF AskingInv
    <2>4. Unanswered(windowA, filePosA, srvA)'
        BY <1>1, <1>2, <1>5, <2>2, <2>3 DEF Unanswered, BirthInv, A!Stopped, Unborn, Killed
    <2>5. Unanswered(windowB, filePosB, srvB)'
        BY <1>1, <1>2, <1>5, <2>2, <2>3 DEF Unanswered, BirthInv, A!Stopped, Unborn, Killed
    <2> QED BY <1>1, <1>2, <1>4, <2>1, <2>4, <2>5
            DEF AskingInv, Asking, Pending, BeingServed
<1> QED BY <1>4, <1>6, <1>7, <1>8 DEF PromptInv

\* The listener, also when its fopen has no descriptor, answers a request or
\* makes a child: it never meets a packet it cannot take.
LEMMA ListenerActs ==
    ASSUME SessionInv, PromptInv, OnlyLost, ListenerNext \/ FileRefused
    PROVE  /\ UNCHANGED <<phase, rcv, buffer, out, peer, toA, toB,
                          windowA, filePosA, attemptsA, windowB, filePosB, attemptsB>>
           /\ SentBy("listener") /\ crashes \subseteq crashes'
           /\ \/ /\ Parent!NextPacket(Head(toListener))
                 /\ \E p \in ToClient :
                        /\ p.flag \in {FLAG_FILENAME_ACK, FLAG_FILENAME_ERROR}
                        /\ Parent!SendToClient(p)
                        /\ p.flag = FLAG_FILENAME_ACK => listener' = "FORK"
                 /\ listener' \in {"LISTEN", "FORK"}
                 /\ UNCHANGED <<children, srvA, srvB>>
              \/ /\ Parent!Fork
                 /\ srvA' = Forked(1, srvA) /\ srvB' = Forked(2, srvB)
                 /\ UNCHANGED <<origins, crashes>>
<1> DEFINE Answers ==
               /\ Parent!NextPacket(Head(toListener))
               /\ \E p \in ToClient :
                      /\ p.flag \in {FLAG_FILENAME_ACK, FLAG_FILENAME_ERROR}
                      /\ Parent!SendToClient(p)
                      /\ p.flag = FLAG_FILENAME_ACK => listener' = "FORK"
               /\ listener' \in {"LISTEN", "FORK"}
               /\ UNCHANGED <<children, srvA, srvB>>
           Forks ==
               /\ Parent!Fork
               /\ srvA' = Forked(1, srvA) /\ srvB' = Forked(2, srvB)
               /\ UNCHANGED <<origins, crashes>>
<1>1. /\ TypeOK /\ QueuesOK /\ ListenerInv
      /\ SentBy("listener")
      /\ UNCHANGED <<phase, rcv, buffer, out, peer, toA, toB,
                     windowA, filePosA, attemptsA, windowB, filePosB, attemptsB>>
    BY DEF SessionInv, PromptInv, ListenerNext, FileRefused, clientVars, exchangeVars,
        receiveVars, childAVars, childBVars
<1>2. crashes \subseteq crashes'
    BY DEF ListenerNext, FileRefused, Crash
<1>3. ASSUME Parent!NextPacket(Head(toListener))
      PROVE  Head(toListener) \in InFlight(toListener) /\ Head(toListener).flag = FLAG_FILENAME
    <2>1. toListener # <<>> /\ toListener \in Seq(ToServer)
        BY <1>1, <1>3 DEF Parent!NextPacket, QueuesOK
    <2>2. Head(toListener) = toListener[1] /\ 1 \in 1..Len(toListener)
        BY <2>1
    <2> QED BY <1>1, <2>2 DEF InFlight, ListenerInv
<1>4. ASSUME Parent!Refuse \/ Parent!AcceptRequest, UNCHANGED <<srvA, srvB>>
      PROVE  Answers
    <2> DEFINE no == Parent!build_packet(0, Parent!FLAG_FILENAME_ERROR, NoData)
               yes == Parent!build_packet(0, Parent!FLAG_FILENAME_ACK, NoData)
    <2>1. PICK p \in {no, yes} :
            Parent!SendToClient(p) /\ (p = yes => listener' = "FORK")
        <3>1. no # yes
            BY DEF Parent!build_packet, Parent!FLAG_FILENAME_ERROR, Parent!FLAG_FILENAME_ACK
        <3> QED BY <1>4, <3>1 DEF Parent!Refuse, Parent!AcceptRequest
    <2>2. /\ p \in ToClient /\ p.flag \in {FLAG_FILENAME_ACK, FLAG_FILENAME_ERROR}
          /\ p.flag = FLAG_FILENAME_ACK => p = yes
        BY DEF Parent!build_packet, ToClient, Payload, Parent!FLAG_FILENAME_ERROR,
            Parent!FLAG_FILENAME_ACK, FLAG_FILENAME_ERROR, FLAG_FILENAME_ACK
    <2> HIDE DEF no, yes
    <2>3. /\ Parent!NextPacket(Head(toListener))
          /\ listener' \in {"LISTEN", "FORK"}
          /\ UNCHANGED children
        BY <1>4 DEF Parent!Refuse, Parent!AcceptRequest, Parent!NextPacket
    <2> QED BY <1>4, <2>1, <2>2, <2>3
<1>5. ASSUME FileRefused
      PROVE  Answers
    <2>1. Parent!Refuse /\ UNCHANGED <<srvA, srvB>>
        BY <1>5 DEF FileRefused, Parent!RefuseForWant, childAVars, childBVars
    <2> QED BY <1>4, <2>1
<1>6. ASSUME ListenerNext
      PROVE  Answers \/ Forks
    <2>1. /\ srvA' = Forked(1, srvA) /\ srvB' = Forked(2, srvB)
          /\ UNCHANGED crashes
        BY <1>6 DEF ListenerNext
    <2>2. CASE Parent!RefuseRequest \/ Parent!AcceptRequest
        <3>1. (Parent!Refuse \/ Parent!AcceptRequest) /\ UNCHANGED children
            BY <2>2 DEF Parent!RefuseRequest, Parent!Refuse, Parent!AcceptRequest
        <3>2. children \in 0..2
            BY <1>1, SessionAssumption DEF TypeOK, Parent!ListenerTypeOK
        <3>3. UNCHANGED <<srvA, srvB>>
            BY <2>1, <3>1, <3>2 DEF Forked
        <3> QED BY <1>4, <3>1, <3>3
    <2>3. CASE Parent!Fork
        <3>1. UNCHANGED origins
            BY <1>1, <2>3 DEF SentBy, Parent!Fork, Parent!netVars
        <3> QED BY <2>1, <2>3, <3>1
    <2>4. CASE Parent!BadRequest \/ Parent!ShortPacket
        <3>1. /\ Parent!NextPacket(Head(toListener))
              /\ Head(toListener) = Parent!Corrupted \/ ~Parent!IsRequest(Head(toListener))
            BY <2>4 DEF Parent!BadRequest, Parent!ShortPacket, Parent!NextPacket
        <3>2. Head(toListener).flag = FLAG_FILENAME
            BY <1>3, <3>1
        <3> QED BY <2>4, <3>1, <3>2 DEF Parent!IsRequest, Parent!BadChecksum,
                Parent!Corrupted, Parent!build_packet, Parent!FLAG_FILENAME, FLAG_FILENAME,
                Parent!ShortPacket
    <2> QED BY <1>6, <2>2, <2>3, <2>4 DEF ListenerNext, Parent!ListenerNext
<1> QED BY <1>1, <1>2, <1>5, <1>6

\* So what it does is an answer or a new child.
LEMMA ListenerPrompt ==
    ASSUME SessionInv, PromptInv, OnlyLost, ListenerNext \/ FileRefused
    PROVE  PromptInv'
BY ListenerActs, ListenerAnswers, ForkPrompt

\* A kill, a failed call and a restart.
LEMMA MisfortunePrompt ==
    ASSUME SessionInv, PromptInv, OnlyLost, Misfortune
    PROVE  PromptInv'
<1>1. /\ ListenerInv /\ BirthInv /\ AskingInv /\ ReceivingInv
    BY DEF PromptInv
<1>2. CASE KillListener \/ ForkFailure \/ RestartListener
    <2>1. /\ UNCHANGED <<phase, rcv, buffer, out, peer, children,
                         windowA, filePosA, srvA, windowB, filePosB, srvB,
                         toClient, origins, toA, toB, faults>>
          /\ \/ toListener' = toListener /\ listener' = "KILLED"
             \/ toListener' = toListener /\ listener' = "LISTEN" /\ listener = "FORK"
             \/ toListener' = <<>> /\ listener' = "LISTEN"
          /\ crashes \subseteq crashes'
        BY <1>2 DEF KillListener, ForkFailure, RestartListener, Parent!Kill,
            Parent!ForkFailure, Parent!Restart, Parent!netVars, clientVars, exchangeVars,
            receiveVars, childAVars, childBVars, Crash
    <2>2. ~BeingServed' /\ ~Pending'
        BY <1>1, <2>1 DEF BeingServed, Pending, ListenerInv
    <2>3. ListenerInv'
        <3>1. InFlight(toListener') \subseteq InFlight(toListener)
            BY <2>1 DEF InFlight
        <3> QED BY <1>1, <2>1, <2>2, <3>1 DEF ListenerInv
    <2>4. BirthInv' /\ ReceivingInv'
        BY <1>1, <2>1, <2>2 DEF BirthInv, ReceivingInv
    <2>5. AskingInv'
        BY <1>1, <2>1, <2>2 DEF AskingInv, Asking, Unanswered, NobodyRuns
    <2> QED BY <2>3, <2>4, <2>5 DEF PromptInv
<1>3. CASE KillChildA \/ KillChildB
    <2>1. /\ UNCHANGED <<phase, rcv, buffer, out, peer, listener, children,
                         windowA, filePosA, windowB, filePosB,
                         toClient, origins, toListener, toA, toB, faults>>
          /\ srvA' = srvA \/ (srvA' = Killed /\ srvA # Unborn /\ "A" \in crashes')
          /\ srvB' = srvB \/ (srvB' = Killed /\ srvB # Unborn /\ "B" \in crashes')
          /\ crashes \subseteq crashes'
        BY <1>3 DEF KillChildA, KillChildB, clientVars, exchangeVars, receiveVars,
            listenerVars, childAVars, childBVars, queueVars, Crash, NotRunning
    <2>2. Killed \notin A!Stopped /\ Killed # Unborn /\ Killed # "WINDOW_FULL"
        BY DEF Killed, Unborn, A!Stopped
    <2>3. ListenerInv'
        BY <1>1, <2>1 DEF ListenerInv, Pending, BeingServed, NobodyRuns
    <2>4. BirthInv'
        BY <1>1, <2>1, <2>2 DEF BirthInv
    <2>5. ReceivingInv'
        BY <1>1, <2>1 DEF ReceivingInv, Pending
    <2>6. AskingInv'
        BY <1>1, <2>1, <2>2 DEF AskingInv, Asking, Unanswered, NobodyRuns, Pending, BeingServed
    <2> QED BY <2>3, <2>4, <2>5, <2>6 DEF PromptInv
<1>4. CASE KillClient
    <2>1. /\ UNCHANGED <<listener, children, windowA, filePosA, srvA, windowB, filePosB, srvB,
                         toListener, faults>>
          /\ phase' = "DONE"
          /\ crashes \subseteq crashes'
        BY <1>4 DEF KillClient, listenerVars, childAVars, childBVars, queueVars, Crash
    <2> QED BY <1>1, <2>1 DEF PromptInv, ListenerInv, BirthInv, AskingInv, Asking,
            ReceivingInv, Pending, BeingServed, NobodyRuns
<1>5. CASE FileRefused
    BY <1>5, ListenerPrompt
<1> QED BY <1>2, <1>3, <1>4, <1>5 DEF Misfortune

\* rcopy asks: it sends a request to the listener, gives up, or reads the
\* answer.
LEMMA AskingMoves ==
    ASSUME SessionInv, PromptInv, OnlyLost, ClientStep, phase # "RECEIVE_DATA"
    PROVE  /\ UNCHANGED <<rcv, buffer, out, listener, children, crashes, toA, toB,
                          windowA, filePosA, srvA, windowB, filePosB, srvB>>
           /\ \/ /\ phase = "SEND_FILENAME"
                 /\ ExchangeL!send_filename \/ ExchangeL!OutOfRequests
                 /\ UNCHANGED <<toClient, origins, peer>>
              \/ /\ phase = "POLL" /\ phase' \in {"RECEIVE_DATA", "NO_FILE"}
                 /\ phase' = "RECEIVE_DATA" => toClient[1].flag # FLAG_FILENAME_ERROR
                 /\ toClient # <<>> /\ toClient' = Tail(toClient)
                 /\ origins # <<>> /\ origins' = Tail(origins) /\ peer' = origins[1]
                 /\ UNCHANGED <<toListener, faults>>
<1>1. /\ TypeOK /\ QueuesOK /\ ListenerInv /\ BirthInv /\ AskingInv /\ ReceivingInv
      /\ toClient \in Seq(ToClient) /\ faults \in Nat /\ toListener \in Seq(ToServer)
      /\ origins \in Seq(Senders) /\ Len(origins) = Len(toClient)
    BY DEF SessionInv, PromptInv, TypeOK, QueuesOK
<1>2. /\ UNCHANGED <<rcv, buffer, out, listener, children, crashes,
                     windowA, filePosA, srvA, windowB, filePosB, srvB>>
      /\ \/ peer' = "listener" /\ ExchangeL!ExchangeStep /\ UNCHANGED <<toA, toB>>
         \/ peer' = "A" /\ ExchangeA!ExchangeStep /\ UNCHANGED <<toListener, toB>>
         \/ peer' = "B" /\ ExchangeB!ExchangeStep /\ UNCHANGED <<toListener, toA>>
      /\ peer' = NextPeer
      /\ origins' = IF toClient' = toClient THEN origins ELSE Tail(origins)
    BY DEF ClientStep, Exchanging, Receiving, receiveVars, listenerVars, childAVars, childBVars
<1>3. Asking
    BY <1>2 DEF Asking, ExchangeL!ExchangeStep, ExchangeA!ExchangeStep,
        ExchangeB!ExchangeStep, ExchangeL!send_filename, ExchangeA!send_filename,
        ExchangeB!send_filename, ExchangeL!OutOfRequests, ExchangeA!OutOfRequests,
        ExchangeB!OutOfRequests, ExchangeL!AnswerYes, ExchangeA!AnswerYes,
        ExchangeB!AnswerYes, ExchangeL!AnswerNo, ExchangeA!AnswerNo, ExchangeB!AnswerNo,
        ExchangeL!AnswerIgnored, ExchangeA!AnswerIgnored, ExchangeB!AnswerIgnored,
        ExchangeL!Answered, ExchangeA!Answered, ExchangeB!Answered
<1>4. peer = "listener"
    BY <1>1, <1>3 DEF AskingInv
\* What does not read a packet goes to the listener.
<1>5. CASE phase = "SEND_FILENAME"
    <2>1. toClient' = toClient
        BY <1>2, <1>5 DEF ExchangeL!ExchangeStep, ExchangeA!ExchangeStep,
            ExchangeB!ExchangeStep, ExchangeL!send_filename, ExchangeA!send_filename,
            ExchangeB!send_filename, ExchangeL!OutOfRequests, ExchangeA!OutOfRequests,
            ExchangeB!OutOfRequests, ExchangeL!AnswerYes, ExchangeA!AnswerYes,
            ExchangeB!AnswerYes, ExchangeL!AnswerNo, ExchangeA!AnswerNo, ExchangeB!AnswerNo,
            ExchangeL!AnswerIgnored, ExchangeA!AnswerIgnored, ExchangeB!AnswerIgnored,
            ExchangeL!Answered, ExchangeA!Answered, ExchangeB!Answered, ExchangeL!netVars,
            ExchangeA!netVars, ExchangeB!netVars
    <2>2. ExchangeL!ExchangeStep /\ peer' = "listener" /\ origins' = origins
          /\ UNCHANGED <<toA, toB>>
        BY <1>2, <1>4, <2>1 DEF NextPeer
    <2> QED BY <1>2, <1>4, <1>5, <2>1, <2>2 DEF ExchangeL!ExchangeStep, ExchangeL!AnswerYes,
            ExchangeL!AnswerNo, ExchangeL!AnswerIgnored, ExchangeL!Answered
<1>6. CASE phase = "POLL"
    <2> DEFINE p == Head(toClient)
    <2>1. /\ toClient # <<>> /\ toClient' = Tail(toClient)
          /\ UNCHANGED <<toListener, toA, toB, faults>>
        BY <1>2, <1>6 DEF ExchangeL!ExchangeStep, ExchangeA!ExchangeStep,
            ExchangeB!ExchangeStep, ExchangeL!send_filename, ExchangeA!send_filename,
            ExchangeB!send_filename, ExchangeL!OutOfRequests, ExchangeA!OutOfRequests,
            ExchangeB!OutOfRequests, ExchangeL!AnswerYes, ExchangeA!AnswerYes,
            ExchangeB!AnswerYes, ExchangeL!AnswerNo, ExchangeA!AnswerNo, ExchangeB!AnswerNo,
            ExchangeL!AnswerIgnored, ExchangeA!AnswerIgnored, ExchangeB!AnswerIgnored,
            ExchangeL!Answered, ExchangeA!Answered, ExchangeB!Answered
    <2>2. p.flag \in {FLAG_FILENAME_ACK, FLAG_FILENAME_ERROR, FLAG_DATA}
        <3>1. p = toClient[1]
            BY <1>1, <2>1
        <3> QED BY <1>1, <1>3, <2>1, <3>1 DEF AskingInv
    <2>3. phase' \in {"RECEIVE_DATA", "NO_FILE"}
        <3>1. ~ExchangeL!AnswerIgnored /\ ~ExchangeA!AnswerIgnored /\ ~ExchangeB!AnswerIgnored
            BY <2>2 DEF ExchangeL!AnswerIgnored, ExchangeA!AnswerIgnored,
                ExchangeB!AnswerIgnored, ExchangeL!IsYes, ExchangeA!IsYes, ExchangeB!IsYes,
                ExchangeL!IsNo, ExchangeA!IsNo, ExchangeB!IsNo, ExchangeL!BadChecksum,
                ExchangeA!BadChecksum, ExchangeB!BadChecksum, ExchangeL!Corrupted,
                ExchangeA!Corrupted, ExchangeB!Corrupted, ExchangeL!build_packet,
                ExchangeA!build_packet, ExchangeB!build_packet, ExchangeL!FLAG_FILENAME_ACK,
                ExchangeA!FLAG_FILENAME_ACK, ExchangeB!FLAG_FILENAME_ACK,
                ExchangeL!FLAG_FILENAME_ERROR, ExchangeA!FLAG_FILENAME_ERROR,
                ExchangeB!FLAG_FILENAME_ERROR, ExchangeL!FLAG_DATA, ExchangeA!FLAG_DATA,
                ExchangeB!FLAG_DATA, FLAG_FILENAME_ACK, FLAG_FILENAME_ERROR, FLAG_DATA
        <3> QED BY <1>2, <1>6, <3>1 DEF ExchangeL!ExchangeStep, ExchangeA!ExchangeStep,
                ExchangeB!ExchangeStep, ExchangeL!send_filename, ExchangeA!send_filename,
                ExchangeB!send_filename, ExchangeL!OutOfRequests, ExchangeA!OutOfRequests,
                ExchangeB!OutOfRequests, ExchangeL!AnswerYes, ExchangeA!AnswerYes,
                ExchangeB!AnswerYes, ExchangeL!AnswerNo, ExchangeA!AnswerNo,
                ExchangeB!AnswerNo
    <2>4. toClient' # toClient
        BY <1>1, <2>1
    <2>5. origins # <<>> /\ origins' = Tail(origins) /\ Head(origins) = origins[1]
        BY <1>1, <1>2, <2>1, <2>4
    <2>6. peer' = origins[1]
        BY <1>2, <2>4, <2>5 DEF NextPeer
    <2>7. phase' = "RECEIVE_DATA" => toClient[1].flag # FLAG_FILENAME_ERROR
        <3>1. p = toClient[1]
            BY <1>1, <2>1
        <3> QED BY <1>2, <1>6, <3>1 DEF ExchangeL!ExchangeStep, ExchangeA!ExchangeStep,
                ExchangeB!ExchangeStep, ExchangeL!send_filename, ExchangeA!send_filename,
                ExchangeB!send_filename, ExchangeL!OutOfRequests, ExchangeA!OutOfRequests,
                ExchangeB!OutOfRequests, ExchangeL!AnswerYes, ExchangeA!AnswerYes,
                ExchangeB!AnswerYes, ExchangeL!AnswerNo, ExchangeA!AnswerNo,
                ExchangeB!AnswerNo, ExchangeL!AnswerIgnored, ExchangeA!AnswerIgnored,
                ExchangeB!AnswerIgnored, ExchangeL!IsYes, ExchangeA!IsYes, ExchangeB!IsYes,
                ExchangeL!FLAG_FILENAME_ACK, ExchangeA!FLAG_FILENAME_ACK,
                ExchangeB!FLAG_FILENAME_ACK, ExchangeL!FLAG_DATA, ExchangeA!FLAG_DATA,
                ExchangeB!FLAG_DATA, FLAG_FILENAME_ERROR
    <2> QED BY <1>2, <1>6, <2>1, <2>3, <2>5, <2>6, <2>7
<1> QED BY <1>3, <1>5, <1>6 DEF Asking

\* One request at a time, and the answer to it.
LEMMA AsksPrompt ==
    ASSUME SessionInv, PromptInv, OnlyLost, ClientStep, phase # "RECEIVE_DATA"
    PROVE  PromptInv'
<1>1. /\ ListenerInv /\ BirthInv /\ AskingInv /\ ReceivingInv
      /\ faults \in Nat /\ toListener \in Seq(ToServer)
      /\ origins \in Seq(Senders) /\ Len(origins) = Len(toClient)
    BY DEF SessionInv, PromptInv, TypeOK, QueuesOK
<1>2. /\ UNCHANGED <<rcv, buffer, out, listener, children, crashes, toA, toB,
                     windowA, filePosA, srvA, windowB, filePosB, srvB>>
      /\ \/ /\ phase = "SEND_FILENAME"
            /\ ExchangeL!send_filename \/ ExchangeL!OutOfRequests
            /\ UNCHANGED <<toClient, origins, peer>>
         \/ /\ phase = "POLL" /\ phase' \in {"RECEIVE_DATA", "NO_FILE"}
            /\ toClient # <<>> /\ toClient' = Tail(toClient)
            /\ origins # <<>> /\ origins' = Tail(origins) /\ peer' = origins[1]
            /\ UNCHANGED <<toListener, faults>>
    BY AskingMoves
<1>3. Asking
    BY <1>2 DEF Asking
<1>4. CASE phase = "SEND_FILENAME"
    <2>1. toClient = <<>> /\ ~BeingServed /\ NobodyRuns
        BY <1>1, <1>3, <1>4 DEF AskingInv
    <2>2. peer = "listener" /\ UNCHANGED <<toClient, origins, peer>>
        BY <1>1, <1>2, <1>3, <1>4 DEF AskingInv
    <2>3. CASE ExchangeL!OutOfRequests
        <3>1. phase' = "DONE" /\ UNCHANGED <<toListener, faults>>
            BY <2>3 DEF ExchangeL!OutOfRequests, ExchangeL!netVars
        <3> QED BY <1>1, <1>2, <3>1 DEF PromptInv, ListenerInv, BirthInv, AskingInv, Asking,
                ReceivingInv, Pending, BeingServed, NobodyRuns
    <2>4. CASE ExchangeL!send_filename
        <3>1. ExchangeL!SendToServer(ExchangeL!Request) /\ phase' = "POLL"
            BY <2>4 DEF ExchangeL!send_filename
        <3>2. PICK fate \in ExchangeL!Fates(ClientErrors) :
                /\ faults' = faults + ExchangeL!Cost(fate) /\ faults' <= MaxFaults
                /\ toListener' = ExchangeL!Put(toListener, fate, ExchangeL!Request)
            BY <3>1 DEF ExchangeL!SendToServer
        <3>3. fate # "flip" /\ faults' >= faults /\ faults' <= MaxFaults
            BY <1>1, <3>2 DEF OnlyLost, ExchangeL!Fates, ExchangeL!Cost
        <3>4. \/ toListener' = toListener
              \/ toListener' = Append(toListener, ExchangeL!Request)
            BY <3>2, <3>3 DEF ExchangeL!Put
        <3>5. ExchangeL!Request.flag = FLAG_FILENAME
            BY DEF ExchangeL!Request, ExchangeL!build_packet, ExchangeL!FLAG_FILENAME,
                FLAG_FILENAME
        <3>6. ListenerInv'
            <4>1. \A p \in InFlight(toListener') : p.flag = FLAG_FILENAME
                BY <1>1, <3>4, <3>5 DEF InFlight, ListenerInv
            <4>2. listener # "KILLED" => toListener = <<>> /\ listener # "FORK"
                BY <2>1 DEF BeingServed, Pending
            <4>3. listener # "KILLED" /\ toListener' # <<>> => Len(toListener') = 1
                BY <1>1, <3>4, <4>2
            <4> QED BY <1>1, <1>2, <2>1, <4>1, <4>2, <4>3
                    DEF ListenerInv, Pending, BeingServed, NobodyRuns
        <3>7. BirthInv'
            BY <1>1, <1>2, <3>3 DEF BirthInv
        <3>8. AskingInv'
            <4>1. listener # "FORK"
                BY <2>1 DEF BeingServed
            <4>2. Unanswered(windowA, filePosA, srvA)' /\ Unanswered(windowB, filePosB, srvB)'
                BY <1>1, <1>2, <1>3, <2>1 DEF AskingInv, Unanswered, NobodyRuns
            <4> QED BY <1>1, <1>2, <1>3, <2>1, <2>2, <3>1, <4>1, <4>2
                    DEF AskingInv, Asking
        <3> QED BY <3>1, <3>6, <3>7, <3>8 DEF PromptInv, ReceivingInv
    <2> QED BY <1>2, <1>4, <2>3, <2>4
<1>5. CASE phase = "POLL"
    <2>1. /\ phase' \in {"RECEIVE_DATA", "NO_FILE"} /\ toClient # <<>>
          /\ origins # <<>> /\ origins' = Tail(origins)
          /\ UNCHANGED <<toListener, faults>>
        BY <1>2, <1>5
    <2>2. ~Pending
        BY <1>1, <1>3, <2>1 DEF AskingInv
    <2>3. \A i \in 1..Len(origins') : origins'[i] # "listener"
        <3>1. \A i \in 2..Len(origins) : origins[i] # "listener"
            BY <1>1, <1>3 DEF AskingInv
        <3> QED BY <1>1, <2>1, <3>1
    <2>4. ListenerInv' /\ BirthInv'
        BY <1>1, <1>2, <2>1 DEF ListenerInv, BirthInv, Pending, BeingServed, NobodyRuns
    <2>5. AskingInv'
        BY <2>1 DEF AskingInv, Asking
    <2>6. ReceivingInv'
        <3>1. rcv' = "INORDER"
            BY <1>1, <1>2, <1>3 DEF AskingInv
        <3> QED BY <1>2, <2>1, <2>2, <2>3, <3>1 DEF ReceivingInv, Pending
    <2> QED BY <2>4, <2>5, <2>6 DEF PromptInv
<1> QED BY <1>3, <1>4, <1>5 DEF Asking

\* rcopy receives, and answers whom it hears: never the listener.
LEMMA ReceivingMoves ==
    ASSUME SessionInv, PromptInv, ClientStep, phase = "RECEIVE_DATA"
    PROVE  /\ UNCHANGED <<phase, listener, children, crashes, toListener,
                          windowA, filePosA, srvA, windowB, filePosB, srvB>>
           /\ \/ peer' = "A" /\ ReceiveA!ClientStep /\ toB' = toB
              \/ peer' = "B" /\ ReceiveB!ClientStep /\ toA' = toA
           /\ faults' <= MaxFaults
           /\ \/ toClient' = toClient /\ origins' = origins /\ peer' = peer
              \/ /\ toClient # <<>> /\ toClient' = Tail(toClient)
                 /\ origins # <<>> /\ origins' = Tail(origins) /\ peer' = origins[1]
<1>1. /\ TypeOK /\ QueuesOK /\ ListenerInv /\ BirthInv /\ ReceivingInv
      /\ toClient \in Seq(ToClient)
      /\ origins \in Seq(Senders) /\ Len(origins) = Len(toClient)
      /\ \A i \in 1..Len(origins) : origins[i] # "listener"
    BY DEF SessionInv, PromptInv, TypeOK, QueuesOK, ReceivingInv
<1>2. /\ UNCHANGED <<phase, listener, children, crashes,
                     windowA, filePosA, srvA, windowB, filePosB, srvB>>
      /\ \/ peer' = "listener" /\ ReceiveL!ClientStep
         \/ peer' = "A" /\ ReceiveA!ClientStep /\ UNCHANGED <<toListener, toB>>
         \/ peer' = "B" /\ ReceiveB!ClientStep /\ UNCHANGED <<toListener, toA>>
      /\ peer' = NextPeer
      /\ origins' = IF toClient' = toClient THEN origins ELSE Tail(origins)
    <2>1. ~(ExchangeL!ExchangeStep \/ ExchangeA!ExchangeStep \/ ExchangeB!ExchangeStep)
        BY DEF ExchangeL!ExchangeStep, ExchangeA!ExchangeStep,
            ExchangeB!ExchangeStep, ExchangeL!send_filename, ExchangeA!send_filename,
            ExchangeB!send_filename, ExchangeL!OutOfRequests, ExchangeA!OutOfRequests,
            ExchangeB!OutOfRequests, ExchangeL!AnswerYes, ExchangeA!AnswerYes,
            ExchangeB!AnswerYes, ExchangeL!AnswerNo, ExchangeA!AnswerNo, ExchangeB!AnswerNo,
            ExchangeL!AnswerIgnored, ExchangeA!AnswerIgnored, ExchangeB!AnswerIgnored,
            ExchangeL!Answered, ExchangeA!Answered, ExchangeB!Answered
    <2> QED BY <2>1 DEF ClientStep, Exchanging, Receiving, exchangeVars, listenerVars,
            childAVars, childBVars
<1>3. /\ LP!ClientStep \/ AP!ClientStep \/ BP!ClientStep
      /\ rcv = "FLUSH" => toClient' = toClient
      /\ rcv # "FLUSH" => toClient # <<>> /\ toClient' = Tail(toClient)
      /\ faults' <= MaxFaults
    <2>1. faults <= MaxFaults
        BY <1>1 DEF BirthInv
    <2>2. CASE LP!ClientStep
        BY <2>1, <2>2, LP!ClientReads, LP!FaultsBounded, PayloadAssumption, SizeAssumption,
            SessionAssumption DEF LP!ClientNext
    <2>3. CASE AP!ClientStep
        BY <2>1, <2>3, AP!ClientReads, AP!FaultsBounded, PayloadAssumption, SizeAssumption,
            SessionAssumption DEF AP!ClientNext
    <2>4. CASE BP!ClientStep
        BY <2>1, <2>4, BP!ClientReads, BP!FaultsBounded, PayloadAssumption, SizeAssumption,
            SessionAssumption DEF BP!ClientNext
    <2> QED BY <1>2, <2>2, <2>3, <2>4, RcopyLIsRcopy, RcopyAIsRcopy, RcopyBIsRcopy
<1>4. peer' # "listener"
    <2>1. CASE rcv = "FLUSH"
        BY <1>1, <1>2, <1>3, <2>1 DEF NextPeer, ReceivingInv
    <2>2. CASE rcv # "FLUSH"
        <3>1. toClient' # toClient /\ Len(origins) > 0
            BY <1>1, <1>3, <2>2
        <3>2. peer' = Head(origins) /\ Head(origins) = origins[1]
            BY <1>1, <1>2, <3>1 DEF NextPeer
        <3> QED BY <1>1, <3>1, <3>2
    <2> QED BY <2>1, <2>2
<1>5. CASE rcv = "FLUSH"
    BY <1>1, <1>2, <1>3, <1>4, <1>5 DEF NextPeer
<1>6. CASE rcv # "FLUSH"
    <2>1. toClient' # toClient /\ Len(origins) > 0 /\ Head(origins) = origins[1]
        BY <1>1, <1>3, <1>6
    <2> QED BY <1>2, <1>3, <1>4, <1>6, <2>1 DEF NextPeer
<1> QED BY <1>5, <1>6

\* So it has nothing more to do with it.
LEMMA ReceivesPrompt ==
    ASSUME SessionInv, PromptInv, ClientStep, phase = "RECEIVE_DATA"
    PROVE  PromptInv'
<1>1. /\ ListenerInv /\ BirthInv /\ ReceivingInv
      /\ origins \in Seq(Senders) /\ Len(origins) = Len(toClient)
      /\ \A i \in 1..Len(origins) : origins[i] # "listener"
    BY DEF SessionInv, PromptInv, TypeOK, QueuesOK, ReceivingInv
<1>2. /\ UNCHANGED <<phase, listener, children, crashes, toListener,
                     windowA, filePosA, srvA, windowB, filePosB, srvB>>
      /\ peer' \in {"A", "B"}
      /\ faults' <= MaxFaults
      /\ origins' = origins \/ (origins # <<>> /\ origins' = Tail(origins))
    BY ReceivingMoves
<1>3. \A i \in 1..Len(origins') : origins'[i] # "listener"
    BY <1>1, <1>2
<1>4. ListenerInv' /\ BirthInv'
    BY <1>1, <1>2 DEF ListenerInv, BirthInv, Pending, BeingServed, NobodyRuns
<1>5. ReceivingInv' /\ AskingInv'
    BY <1>1, <1>2, <1>3 DEF ReceivingInv, AskingInv, Asking, Pending
<1> QED BY <1>4, <1>5 DEF PromptInv

\* A request times out only if everything it brought about is over, and the
\* time-out of the transfer ends it.
LEMMA TimeoutPrompt ==
    ASSUME SessionInv, PromptInv, FewLosses,
           \/ RequestTimeout /\ ListenerWaiting /\ WaitingA /\ WaitingB
           \/ DataTimeout
    PROVE  PromptInv'
<1>1. /\ TypeOK /\ QueuesOK /\ ListenerInv /\ BirthInv /\ AskingInv /\ ReceivingInv
      /\ ChildAInv /\ ChildBInv
      /\ origins \in Seq(Senders) /\ Len(origins) = Len(toClient)
      /\ faults \in Nat /\ faults <= MaxFaults
      /\ MaxFaults \in Nat /\ BufferSize \in Nat /\ NumChunks \in Nat
    BY SessionAssumption, SizeAssumption DEF SessionInv, PromptInv, TypeOK, QueuesOK, BirthInv
<1>2. /\ UNCHANGED <<listener, children, crashes, buffer, out, peer, toClient, origins,
                     toListener, toA, toB, faults,
                     windowA, filePosA, srvA, windowB, filePosB, srvB>>
    BY DEF RequestTimeout, DataTimeout, ExchangeL!NoAnswer, ExchangeL!netVars,
        ReceiveL!ClientTimeout, ReceiveL!netVars, receiveVars, listenerVars, childAVars,
        childBVars
<1>3. ListenerInv' /\ BirthInv'
    BY <1>1, <1>2 DEF ListenerInv, BirthInv, Pending, BeingServed, NobodyRuns
<1>4. CASE DataTimeout
    <2>1. phase = "RECEIVE_DATA" /\ phase' = phase /\ rcv' = "ABORTED"
        BY <1>4 DEF DataTimeout, ReceiveL!ClientTimeout, exchangeVars
    <2>2. ReceivingInv' /\ AskingInv'
        BY <1>1, <1>2, <2>1 DEF ReceivingInv, AskingInv, Asking, Pending
    <2> QED BY <1>3, <2>2 DEF PromptInv
<1>5. CASE RequestTimeout /\ ListenerWaiting /\ WaitingA /\ WaitingB
    <2>1. /\ phase = "POLL" /\ phase' = "SEND_FILENAME" /\ toClient = <<>> /\ rcv' = rcv
        BY <1>5 DEF RequestTimeout, ExchangeL!NoAnswer, receiveVars
    <2>2. Unanswered(windowA, filePosA, srvA) /\ Unanswered(windowB, filePosB, srvB)
        BY <1>1, <2>1 DEF AskingInv, Asking
    <2>3. srvA \in {Unborn, Killed}
        BY <1>1, <1>5, <2>1, <2>2
            DEF WaitingA, SilentA, NotRunning, Unanswered, FewLosses, ChildAInv, ChildInv,
                A!EofStates, A!WindowFull, A!Spinning
    <2>4. srvB \in {Unborn, Killed}
        BY <1>1, <1>5, <2>1, <2>2
            DEF WaitingB, SilentB, NotRunning, Unanswered, FewLosses, ChildBInv, ChildInv,
                A!EofStates, B!WindowFull, B!Spinning
    <2>5. ~BeingServed
        BY <1>1, <1>5 DEF ListenerWaiting, ListenerGone, ListenerInv, BeingServed, Pending
    <2>6. AskingInv'
        <3>1. Len(origins) = 0
            BY <1>1, <2>1
        <3> QED BY <1>1, <1>2, <2>1, <2>3, <2>4, <2>5, <3>1
                DEF AskingInv, Asking, Unanswered, BeingServed, Pending, NobodyRuns
    <2> QED BY <1>3, <2>1, <2>6 DEF PromptInv, ReceivingInv
<1> QED BY <1>4, <1>5

\* Nobody has sent anything yet.
LEMMA PromptInit == ASSUME Init PROVE PromptInv
<1>1. /\ phase = "SEND_FILENAME" /\ rcv = "INORDER" /\ buffer = buffer_init(0) /\ out = <<>>
      /\ peer = "listener" /\ listener = "LISTEN" /\ children = 0
      /\ windowA = buffer_init(BufferSize) /\ filePosA = 0 /\ srvA = Unborn
      /\ windowB = buffer_init(BufferSize) /\ filePosB = 0 /\ srvB = Unborn
      /\ toClient = <<>> /\ origins = <<>> /\ toListener = <<>> /\ toA = <<>> /\ toB = <<>>
      /\ faults = 0
    BY DEF Init, ExchangeL!ExchangeInit, ReceiveL!RcopyInit, Parent!ListenerInit,
        buffer_init, ReceiveL!buffer_init, Slots, ReceiveL!Slots
<1>2. ListenerInv /\ BirthInv /\ ReceivingInv
    BY <1>1, SessionAssumption
    DEF ListenerInv, BirthInv, ReceivingInv, Pending, BeingServed, NobodyRuns, InFlight,
        Unborn, Killed
<1>3. Unanswered(windowA, filePosA, srvA) /\ Unanswered(windowB, filePosB, srvB)
    <2>1. buffer_init(BufferSize).lowest = 0 /\ buffer_init(BufferSize).highest = BufferSize
        BY DEF buffer_init
    <2> QED BY <1>1, <2>1, SizeAssumption DEF Unanswered, Unborn, Killed, A!Stopped
<1>4. AskingInv
    BY <1>1, <1>3 DEF AskingInv, Pending, BeingServed, NobodyRuns, Unborn
<1> QED BY <1>2, <1>4 DEF PromptInv

\* PromptInv is inductive, given that what SessionInv says is true.
LEMMA PromptStep ==
    ASSUME SessionInv, PromptInv, OnlyLost, FewLosses, [PromptNext]_vars
    PROVE  PromptInv'
<1>1. CASE PromptChildA
    BY <1>1, ChildAPrompt
<1>2. CASE PromptChildB
    BY <1>2, ChildBPrompt
<1>3. CASE ListenerNext
    BY <1>3, ListenerPrompt
<1>4. CASE PromptClient
    BY <1>4, AsksPrompt, ReceivesPrompt, TimeoutPrompt DEF PromptClient
<1>5. CASE Misfortune
    BY <1>5, MisfortunePrompt
<1>6. CASE UNCHANGED vars
    BY <1>6 DEF vars, clientVars, exchangeVars, receiveVars, listenerVars, childAVars,
        childBVars, queueVars, PromptInv, ListenerInv, BirthInv, AskingInv, ReceivingInv,
        Asking, Pending, BeingServed, NobodyRuns, Unanswered
<1> QED BY <1>1, <1>2, <1>3, <1>4, <1>5, <1>6 DEF PromptNext, Idle

\* The prompt session is a session.
THEOREM PromptIsSpec == PromptSpec => Spec
<1>1. [PromptNext]_vars => [Next]_vars
    BY PromptIsSession
<1> QED BY <1>1, PTL DEF PromptSpec, Spec

\* What one request brought about is over before the next one is sent.
THEOREM PromptInvAlways ==
    ASSUME OnlyLost, FewLosses
    PROVE  PromptSpec => []PromptInv
<1>1. Init => PromptInv
    BY PromptInit
<1>2. SessionInv /\ PromptInv /\ [PromptNext]_vars => PromptInv'
    BY PromptStep
<1> QED BY <1>1, <1>2, PromptIsSpec, SessionInvAlways, PTL DEF PromptSpec

\* The listener gets nothing but requests and goes on to serve others.
\* (server.c server_FSM, processFilename.)
THEOREM KeepsListeningAlways ==
    ASSUME OnlyLost, FewLosses
    PROVE  PromptSpec => []KeepsListening
<1>1. PromptInv => KeepsListening
    BY DEF PromptInv, ListenerInv, KeepsListening
<1> QED BY <1>1, PromptInvAlways, PTL

\* However often rcopy asks, it has one child, or a second one in place of one
\* that was killed.  (server.c processFilenameAck; rcopy.c filename_exchange.)
THEOREM OneChildAlways ==
    ASSUME OnlyLost, FewLosses
    PROVE  PromptSpec => []OneChild
<1>1. ASSUME SessionInv, PromptInv
      PROVE  OneChild
    <2>1. children \in 0..2
        BY <1>1, SessionAssumption DEF SessionInv, TypeOK, Parent!ListenerTypeOK
    <2>2. children = 2 => "A" \in crashes
        BY <1>1 DEF PromptInv, BirthInv
    <2>3. /\ Cardinality({}) = 0 /\ Cardinality({"A"}) = 1
        BY FS_EmptySet, FS_Singleton
    <2>4. "A" \in crashes => crashes \cap {"A"} = {"A"}
        OBVIOUS
    <2>5. "A" \notin crashes => crashes \cap {"A"} = {}
        OBVIOUS
    <2>6. Cardinality(crashes \cap {"A"}) \in {0, 1}
        BY <2>3, <2>4, <2>5
    <2>7. children = 2 => Cardinality(crashes \cap {"A"}) = 1
        BY <2>2, <2>3, <2>4
    <2> QED BY <2>1, <2>6, <2>7 DEF OneChild
<1> QED BY <1>1, PromptInvAlways, PromptIsSpec, SessionInvAlways, PTL

------------------------------------------------------------------------------
(***************************************************************************)
(* The transfer inside a session: rcopy hears one child at a time, the     *)
(* second one only if the first was killed before rcopy heard it.  With    *)
(* that child's numbers and queue module Transfer is a view of the         *)
(* session, in which the answer of the listener is a packet that cannot be *)
(* read.  What the child and rcopy do is a transfer in the sheltered       *)
(* setting, and what the other processes do does not disturb it.           *)
(***************************************************************************)

\* rcopy has not ended and may still get the file.
Underway == phase \in {"SEND_FILENAME", "POLL", "RECEIVE_DATA"}

\* The child that serves: the second one once it is born.
Serving == IF srvB = Unborn THEN "A" ELSE "B"
servWindow == IF srvB = Unborn THEN windowA ELSE windowB
servFilePos == IF srvB = Unborn THEN filePosA ELSE filePosB
servAttempts == IF srvB = Unborn THEN attemptsA ELSE attemptsB
servQueue == IF srvB = Unborn THEN toA ELSE toB

\* Before its birth a child has done nothing, and a killed one has gone.
PlaceOf(s) == IF s = Unborn THEN "SEND_DATA" ELSE IF s = Killed THEN "DONE" ELSE s
servPlace == PlaceOf(IF srvB = Unborn THEN srvA ELSE srvB)

\* The answer of the listener, as a packet the transfer knows nothing of.
servData ==
    IF toClient # <<>> /\ origins[1] = "listener"
    THEN [toClient EXCEPT ![1] = Corrupted]
    ELSE toClient

T == INSTANCE LossProofs WITH
    window <- servWindow, filePos <- servFilePos, srv <- servPlace,
    attempts <- servAttempts, toServer <- servQueue, toClient <- servData,
    NetFaults <- {}, overrun <- FALSE,
    Second <- 1, ClientSeconds <- 1, MaxLag <- 0,
    serverClock <- 0, clientClock <- 0, clock <- 0, lag <- 0

\* rcopy has received nothing yet, and no child has sent anything.
Fresh ==
    /\ rcv = "INORDER" /\ buffer = buffer_init(0) /\ out = <<>>
    /\ peer = "listener"
    /\ toA = <<>> /\ toB = <<>>
    /\ \A i \in 1..Len(origins) : origins[i] = "listener"

ServedInv ==
    Underway =>
        /\ T!RingInv
        /\ peer \in {"listener", Serving}
        /\ \A i \in 1..Len(origins) : origins[i] \in {"listener", Serving}
        /\ listener = "FORK" => Fresh
\* While A serves.
LEMMA ServesA ==
    ASSUME srvB = Unborn, srvA \in A!ServerStates
    PROVE  /\ servWindow = windowA /\ servFilePos = filePosA /\ servAttempts = attemptsA
           /\ servQueue = toA /\ servPlace = srvA /\ Serving = "A"
BY DEF servWindow, servFilePos, servAttempts, servQueue, servPlace, PlaceOf, Serving,
       A!ServerStates, A!EofStates, A!Stopped, Unborn, Killed

\* The same after a step.
LEMMA ServesANext ==
    ASSUME srvB' = Unborn, srvA' \in A!ServerStates
    PROVE  /\ servWindow' = windowA' /\ servFilePos' = filePosA' /\ servAttempts' = attemptsA'
           /\ servQueue' = toA' /\ servPlace' = srvA' /\ Serving' = "A"
BY DEF servWindow, servFilePos, servAttempts, servQueue, servPlace, PlaceOf, Serving,
       A!ServerStates, A!EofStates, A!Stopped, Unborn, Killed

\* The head of a queue is changed, or a packet is appended: in either order.
LEMMA ExceptAppend ==
    ASSUME NEW S, NEW q \in Seq(S), q # <<>>, NEW p \in S, NEW c \in S
    PROVE  [Append(q, p) EXCEPT ![1] = c] = Append([q EXCEPT ![1] = c], p)
<1> DEFINE r == Append(q, p)
           a == [r EXCEPT ![1] = c]
           b == [q EXCEPT ![1] = c]
<1>1. 1 \in 1..Len(q) /\ Len(q) \in Nat
    OBVIOUS
<1>2. /\ r \in Seq(S) /\ Len(r) = Len(q) + 1
      /\ \A i \in 1..Len(q) : r[i] = q[i]
      /\ r[Len(q) + 1] = p
    BY AppendProperties
<1> HIDE DEF r
<1>3. /\ b \in Seq(S) /\ Len(b) = Len(q)
      /\ \A i \in 1..Len(q) : b[i] = IF i = 1 THEN c ELSE q[i]
    BY <1>1, ExceptSeq
<1>4. 1 \in 1..Len(r)
    BY <1>1, <1>2
<1>5. /\ a \in Seq(S) /\ Len(a) = Len(q) + 1
      /\ \A i \in 1..(Len(q) + 1) : a[i] = IF i = 1 THEN c ELSE r[i]
    <2>1. /\ a \in Seq(S) /\ Len(a) = Len(r)
          /\ \A i \in 1..Len(r) : a[i] = IF i = 1 THEN c ELSE r[i]
        BY <1>2, <1>4, ExceptSeq
    <2> QED BY <1>2, <2>1
<1> HIDE DEF a, b
<1>6. /\ Append(b, p) \in Seq(S) /\ Len(Append(b, p)) = Len(q) + 1
      /\ \A i \in 1..Len(q) : Append(b, p)[i] = b[i]
      /\ Append(b, p)[Len(q) + 1] = p
    BY <1>3, AppendProperties
<1>7. ASSUME NEW i \in 1..(Len(q) + 1)
      PROVE  a[i] = Append(b, p)[i]
    <2>1. i \in 1..Len(q) \/ (i = Len(q) + 1 /\ i # 1)
        BY <1>1
    <2> QED BY <1>2, <1>3, <1>5, <1>6, <2>1
<1>8. a = Append(b, p)
    BY <1>5, <1>6, <1>7, SeqEqual
<1> QED BY <1>8 DEF a, b, r

\* A packet of a child, seen from the transfer.
LEMMA DataSent ==
    ASSUME NEW s \in {"A", "B"}, toClient \in Seq(ToClient), toClient' \in Seq(ToClient),
           origins \in Seq(Senders),
           Len(origins) = Len(toClient), SentBy(s)
    PROVE  /\ toClient' = toClient => servData' = servData
           /\ \A p : toClient' = Append(toClient, p) => servData' = Append(servData, p)
           /\ Len(servData) = Len(toClient)
<1>1. ASSUME toClient' = toClient
      PROVE  servData' = servData
    <2>1. origins' = origins
        BY <1>1 DEF SentBy
    <2> QED BY <1>1, <2>1 DEF servData
<1>2. ASSUME NEW p, toClient' = Append(toClient, p)
      PROVE  servData' = Append(servData, p)
    <2>1. Len(toClient') = Len(toClient) + 1 /\ toClient' # <<>>
        BY <1>2
    <2>2. origins' = Append(origins, s)
        BY <2>1 DEF SentBy
    <2>3. CASE toClient = <<>>
        <3>1. origins = <<>>
            BY <2>3
        <3>2. origins'[1] = s
            BY <2>2, <3>1
        <3> QED BY <1>2, <2>3, <3>2 DEF servData
    <2>4. CASE toClient # <<>>
        <3>1. origins'[1] = origins[1]
            BY <2>2, <2>4
        <3>2. [toClient' EXCEPT ![1] = Corrupted] = Append([toClient EXCEPT ![1] = Corrupted], p)
            <4>1. p \in ToClient
                BY <1>2, <2>1
            <4> QED BY <1>2, <2>4, <4>1, PacketTypes, ExceptAppend
        <3> QED BY <1>2, <2>1, <2>4, <3>1, <3>2 DEF servData
    <2> QED BY <2>3, <2>4
<1>3. Len(servData) = Len(toClient)
    BY DEF servData
<1> QED BY <1>1, <1>2, <1>3

\* A step of child A, while it serves, is a step of the transfer's child.
LEMMA ServedByA ==
    ASSUME SessionInv, A!ServerNext, SentBy("A"), srvB = Unborn,
           UNCHANGED <<buffer, rcv, out, srvB>>
    PROVE  /\ T!AServerNext
           /\ A!ServerStep => T!ServerStep
           /\ A!ServerTimeout => T!ServerTimeout
<1>1. /\ QueuesOK /\ ChildAInv
      /\ toClient \in Seq(ToClient) /\ origins \in Seq(Senders)
      /\ Len(origins) = Len(toClient)
    BY DEF SessionInv, TypeOK, QueuesOK
<1>2. /\ srvA' \in A!ServerStates /\ srvA # Unborn
      /\ toClient' \in Seq(ToClient)
      /\ toClient' = toClient \/ \E p : toClient' = Append(toClient, p)
    BY <1>1, ChildAMoves
<1>3. srvA \in A!ServerStates
    BY <1>1, <1>2 DEF ChildAInv, ChildInv, Killed, A!ServerNext, A!ServerStep, A!ServerTimeout,
        A!SendData, A!ReadEof, A!WindowClosed, A!DrainRecv, A!DrainDone, A!FullRecv,
        A!FullTimeout, A!WindowFull, A!FullDone, A!SendEof, A!EofRecv, A!EofTimeout
<1>4. /\ servWindow = windowA /\ servFilePos = filePosA /\ servAttempts = attemptsA
      /\ servQueue = toA /\ servPlace = srvA
    BY <1>3, ServesA
<1>5. /\ servWindow' = windowA' /\ servFilePos' = filePosA' /\ servAttempts' = attemptsA'
      /\ servQueue' = toA' /\ servPlace' = srvA'
    BY <1>2, ServesANext
<1>6. /\ toClient' = toClient => servData' = servData
      /\ \A p : toClient' = Append(toClient, p) => servData' = Append(servData, p)
      /\ Len(servData) = Len(toClient)
    BY <1>1, <1>2, DataSent
<1>7. \A p : A!SendToClient(p) => T!SendToClient(p)
    BY <1>6 DEF A!SendToClient, T!SendToClient, A!Put, T!Put, A!Fates, T!Fates, A!Cost, T!Cost,
        A!Corrupted, T!Corrupted, A!build_packet, T!build_packet
<1>8. ASSUME NEW seq, NEW flag, NEW next, A!resend_packet(seq, flag, next)
      PROVE  T!resend_packet(seq, flag, next)
    BY <1>4, <1>5, <1>6, <1>7, <1>8 DEF A!resend_packet, T!resend_packet, A!PayloadOf,
        T!PayloadOf, A!Entry, T!Entry, A!Slot, T!Slot, A!build_packet, T!build_packet
<1>9. ASSUME NEW next, NEW onEof, A!process_rr_srej_eof(next, onEof)
      PROVE  T!process_rr_srej_eof(next, onEof)
    BY <1>4, <1>5, <1>6, <1>8, <1>9 DEF A!process_rr_srej_eof, T!process_rr_srej_eof,
        A!BadChecksum, T!BadChecksum, A!Corrupted, T!Corrupted, A!build_packet,
        T!build_packet, A!AdvanceWindow, T!AdvanceWindow, A!FLAG_RR, T!FLAG_RR,
        A!FLAG_SREJ, T!FLAG_SREJ, A!FLAG_EOF, T!FLAG_EOF, A!FLAG_RESENT_DATA,
        T!FLAG_RESENT_DATA
<1>10. A!SendData => T!SendData
    BY <1>4, <1>5, <1>7 DEF A!SendData, T!SendData, A!buffer_add, T!buffer_add,
        A!Entry, T!Entry, A!Slot, T!Slot, A!build_packet, T!build_packet, A!FLAG_DATA,
        T!FLAG_DATA
<1>11. /\ A!ReadEof => T!ReadEof
       /\ A!WindowClosed => T!WindowClosed
       /\ A!DrainDone => T!DrainDone
       /\ A!FullDone => T!FullDone
    BY <1>4, <1>5, <1>6 DEF A!ReadEof, T!ReadEof, A!WindowClosed, T!WindowClosed,
        A!DrainDone, T!DrainDone, A!FullDone, T!FullDone, A!netVars, T!netVars
<1>12. /\ A!DrainRecv => T!DrainRecv
       /\ A!FullRecv => T!FullRecv
       /\ A!EofRecv => T!EofRecv
    BY <1>4, <1>5, <1>9 DEF A!DrainRecv, T!DrainRecv, A!FullRecv, T!FullRecv,
        A!EofRecv, T!EofRecv, A!WindowFull, T!WindowFull
<1>13. A!SendEof => T!SendEof
    BY <1>4, <1>5, <1>7 DEF A!SendEof, T!SendEof, A!build_packet, T!build_packet,
        A!FLAG_EOF, T!FLAG_EOF
<1>14. /\ A!FullTimeout => T!FullTimeout
       /\ A!EofTimeout => T!EofTimeout
    BY <1>4, <1>5, <1>6, <1>8 DEF A!FullTimeout, T!FullTimeout, A!EofTimeout,
        T!EofTimeout, A!WindowFull, T!WindowFull, A!FLAG_RESENT_TIMEOUT,
        T!FLAG_RESENT_TIMEOUT, A!netVars, T!netVars
<1>15. A!ServerStep => T!ServerStep
    BY <1>10, <1>11, <1>12, <1>13 DEF A!ServerStep, T!ServerStep
<1>16. A!ServerTimeout => T!ServerTimeout
    BY <1>14 DEF A!ServerTimeout, T!ServerTimeout
<1> QED BY <1>15, <1>16 DEF A!ServerNext, T!ServerNext, T!AServerNext, T!rcopyVars

\* While B serves.
LEMMA ServesB ==
    ASSUME srvB \in A!ServerStates
    PROVE  /\ servWindow = windowB /\ servFilePos = filePosB /\ servAttempts = attemptsB
           /\ servQueue = toB /\ servPlace = srvB /\ Serving = "B"
BY DEF servWindow, servFilePos, servAttempts, servQueue, servPlace, PlaceOf, Serving,
       A!ServerStates, A!EofStates, A!Stopped, Unborn, Killed

\* The same after a step.
LEMMA ServesBNext ==
    ASSUME srvB' \in A!ServerStates
    PROVE  /\ servWindow' = windowB' /\ servFilePos' = filePosB' /\ servAttempts' = attemptsB'
           /\ servQueue' = toB' /\ servPlace' = srvB' /\ Serving' = "B"
BY DEF servWindow, servFilePos, servAttempts, servQueue, servPlace, PlaceOf, Serving,
       A!ServerStates, A!EofStates, A!Stopped, Unborn, Killed

\* A step of child B, while it serves, is a step of the transfer's child.
LEMMA ServedByB ==
    ASSUME SessionInv, B!ServerNext, SentBy("B"),
           UNCHANGED <<buffer, rcv, out>>
    PROVE  T!AServerNext
<1>1. /\ QueuesOK /\ ChildBInv
      /\ toClient \in Seq(ToClient) /\ origins \in Seq(Senders)
      /\ Len(origins) = Len(toClient)
    BY DEF SessionInv, TypeOK, QueuesOK
<1>2. /\ srvB' \in A!ServerStates /\ srvB # Unborn
      /\ toClient' \in Seq(ToClient)
      /\ toClient' = toClient \/ \E p : toClient' = Append(toClient, p)
    BY <1>1, ChildBMoves
<1>3. srvB \in A!ServerStates
    BY <1>1, <1>2 DEF ChildBInv, ChildInv, Killed, B!ServerNext, B!ServerStep, B!ServerTimeout,
        B!SendData, B!ReadEof, B!WindowClosed, B!DrainRecv, B!DrainDone, B!FullRecv,
        B!FullTimeout, B!WindowFull, B!FullDone, B!SendEof, B!EofRecv, B!EofTimeout
<1>4. /\ servWindow = windowB /\ servFilePos = filePosB /\ servAttempts = attemptsB
      /\ servQueue = toB /\ servPlace = srvB
    BY <1>3, ServesB
<1>5. /\ servWindow' = windowB' /\ servFilePos' = filePosB' /\ servAttempts' = attemptsB'
      /\ servQueue' = toB' /\ servPlace' = srvB'
    BY <1>2, ServesBNext
<1>6. /\ toClient' = toClient => servData' = servData
      /\ \A p : toClient' = Append(toClient, p) => servData' = Append(servData, p)
      /\ Len(servData) = Len(toClient)
    BY <1>1, <1>2, DataSent
<1>7. \A p : B!SendToClient(p) => T!SendToClient(p)
    BY <1>6 DEF B!SendToClient, T!SendToClient, B!Put, T!Put, B!Fates, T!Fates, B!Cost, T!Cost,
        B!Corrupted, T!Corrupted, B!build_packet, T!build_packet
<1>8. ASSUME NEW seq, NEW flag, NEW next, B!resend_packet(seq, flag, next)
      PROVE  T!resend_packet(seq, flag, next)
    BY <1>4, <1>5, <1>6, <1>7, <1>8 DEF B!resend_packet, T!resend_packet, B!PayloadOf,
        T!PayloadOf, B!Entry, T!Entry, B!Slot, T!Slot, B!build_packet, T!build_packet
<1>9. ASSUME NEW next, NEW onEof, B!process_rr_srej_eof(next, onEof)
      PROVE  T!process_rr_srej_eof(next, onEof)
    BY <1>4, <1>5, <1>6, <1>8, <1>9 DEF B!process_rr_srej_eof, T!process_rr_srej_eof,
        B!BadChecksum, T!BadChecksum, B!Corrupted, T!Corrupted, B!build_packet,
        T!build_packet, B!AdvanceWindow, T!AdvanceWindow, B!FLAG_RR, T!FLAG_RR,
        B!FLAG_SREJ, T!FLAG_SREJ, B!FLAG_EOF, T!FLAG_EOF, B!FLAG_RESENT_DATA,
        T!FLAG_RESENT_DATA
<1>10. CASE B!SendData
    BY <1>4, <1>5, <1>7, <1>10 DEF B!SendData, T!SendData, B!buffer_add, T!buffer_add,
        B!Entry, T!Entry, B!Slot, T!Slot, B!build_packet, T!build_packet, B!FLAG_DATA,
        T!FLAG_DATA, T!ServerNext, T!ServerStep, T!AServerNext, T!rcopyVars
<1>11. CASE B!ReadEof \/ B!WindowClosed \/ B!DrainDone \/ B!FullDone
    BY <1>4, <1>5, <1>6, <1>11 DEF B!ReadEof, T!ReadEof, B!WindowClosed, T!WindowClosed,
        B!DrainDone, T!DrainDone, B!FullDone, T!FullDone, B!netVars, T!netVars,
        T!ServerNext, T!ServerStep, T!AServerNext, T!rcopyVars
<1>12. CASE B!DrainRecv \/ B!FullRecv \/ B!EofRecv
    BY <1>4, <1>5, <1>9, <1>12 DEF B!DrainRecv, T!DrainRecv, B!FullRecv, T!FullRecv,
        B!EofRecv, T!EofRecv, B!WindowFull, T!WindowFull,
        T!ServerNext, T!ServerStep, T!AServerNext, T!rcopyVars
<1>13. CASE B!SendEof
    BY <1>4, <1>5, <1>7, <1>13 DEF B!SendEof, T!SendEof, B!build_packet, T!build_packet,
        B!FLAG_EOF, T!FLAG_EOF, T!ServerNext, T!ServerStep, T!AServerNext, T!rcopyVars
<1>14. CASE B!FullTimeout \/ B!EofTimeout
    BY <1>4, <1>5, <1>6, <1>8, <1>14 DEF B!FullTimeout, T!FullTimeout, B!EofTimeout,
        T!EofTimeout, B!WindowFull, T!WindowFull, B!FLAG_RESENT_TIMEOUT,
        T!FLAG_RESENT_TIMEOUT, B!netVars, T!netVars,
        T!ServerNext, T!ServerTimeout, T!AServerNext, T!rcopyVars
<1> QED BY <1>10, <1>11, <1>12, <1>13, <1>14 DEF B!ServerNext, B!ServerStep, B!ServerTimeout

\* A step that touches neither child nor queue of the one that serves.
LEMMA ServesSame ==
    ASSUME UNCHANGED <<srvA, srvB, windowA, filePosA, attemptsA, windowB, filePosB, attemptsB>>
    PROVE  /\ UNCHANGED <<servWindow, servFilePos, servPlace, servAttempts, Serving>>
           /\ UNCHANGED <<toA, toB>> => UNCHANGED servQueue
BY DEF servWindow, servFilePos, servPlace, servAttempts, Serving, servQueue, PlaceOf

\* No answer of the listener is at the head of rcopy's queue.
LEMMA DataSeen ==
    ASSUME \A i \in 1..Len(origins) : origins[i] # "listener",
           Len(origins) = Len(toClient), toClient \in Seq(ToClient)
    PROVE  servData = toClient
<1>1. toClient # <<>> => 1 \in 1..Len(origins)
    OBVIOUS
<1> QED BY <1>1 DEF servData

\* The same after a step.
LEMMA DataSeenNext ==
    ASSUME \A i \in 1..Len(origins') : origins'[i] # "listener",
           Len(origins') = Len(toClient'), toClient' \in Seq(ToClient)
    PROVE  servData' = toClient'
<1>1. toClient' # <<>> => 1 \in 1..Len(origins')
    OBVIOUS
<1> QED BY <1>1 DEF servData

\* A step of rcopy, while it receives, is a step of the transfer's rcopy.
LEMMA ServedReceives ==
    ASSUME SessionInv, PromptInv, ClientStep, phase = "RECEIVE_DATA",
           peer \in {"listener", Serving},
           \A i \in 1..Len(origins) : origins[i] \in {"listener", Serving}
    PROVE  /\ T!AClientNext /\ T!ClientStep
           /\ peer' = Serving /\ Serving' = Serving
<1>1. /\ TypeOK /\ QueuesOK /\ ReceivingInv
      /\ toClient \in Seq(ToClient) /\ origins \in Seq(Senders)
      /\ Len(origins) = Len(toClient)
      /\ \A i \in 1..Len(origins) : origins[i] # "listener"
    BY DEF SessionInv, PromptInv, TypeOK, QueuesOK, ReceivingInv
<1>2. UNCHANGED <<srvA, srvB, windowA, filePosA, attemptsA, windowB, filePosB, attemptsB>>
    BY DEF ClientStep, childAVars, childBVars
<1>3. UNCHANGED <<servWindow, servFilePos, servPlace, servAttempts, Serving>>
    BY <1>2, ServesSame
<1>4. /\ \/ peer' = "A" /\ ReceiveA!ClientStep /\ toB' = toB
         \/ peer' = "B" /\ ReceiveB!ClientStep /\ toA' = toA
      /\ \/ toClient' = toClient /\ origins' = origins /\ peer' = peer
         \/ /\ toClient # <<>> /\ toClient' = Tail(toClient)
            /\ origins # <<>> /\ origins' = Tail(origins) /\ peer' = origins[1]
    BY ReceivingMoves
<1>5. peer' = Serving
    <2>1. origins # <<>> => 1 \in 1..Len(origins)
        BY <1>1
    <2> QED BY <1>1, <1>4, <2>1
<1>6. servData = toClient
    BY <1>1, DataSeen
<1>7. servData' = toClient'
    <2>1. \A i \in 1..Len(origins') : origins'[i] # "listener"
        BY <1>1, <1>4
    <2>2. Len(origins') = Len(toClient') /\ toClient' \in Seq(ToClient)
        <3>1. CASE toClient' = toClient /\ origins' = origins
            BY <1>1, <3>1
        <3>2. CASE toClient # <<>> /\ toClient' = Tail(toClient) /\ origins' = Tail(origins)
            BY <1>1, <3>2
        <3> QED BY <1>4, <3>1, <3>2
    <2> QED BY <2>1, <2>2, DataSeenNext
<1>8. CASE Serving = "A"
    <2>1. servQueue = toA /\ servQueue' = toA'
        BY <1>2, <1>8 DEF Serving, servQueue
    <2>2. ReceiveA!ClientStep
        BY <1>4, <1>5, <1>8
    <2>3. ReceiveA!Corrupted = T!Corrupted
        BY DEF ReceiveA!Corrupted, T!Corrupted, ReceiveA!build_packet, T!build_packet
    <2>4. \A p : ReceiveA!SendToServer(p) => T!SendToServer(p)
        BY <2>1, <2>3 DEF ReceiveA!SendToServer, T!SendToServer, ReceiveA!Put, T!Put,
            ReceiveA!Fates, T!Fates, ReceiveA!Cost, T!Cost
    <2>5. \A p, r : ReceiveA!SendTwoToServer(p, r) => T!SendTwoToServer(p, r)
        BY <2>1, <2>3 DEF ReceiveA!SendTwoToServer, T!SendTwoToServer, ReceiveA!Put,
            T!Put, ReceiveA!Fates, T!Fates, ReceiveA!Cost, T!Cost
    <2>6. /\ \A p : ReceiveA!BadChecksum(p) <=> T!BadChecksum(p)
          /\ \A p : ReceiveA!IsLastEof(p) <=> T!IsLastEof(p)
          /\ \A s, p : ReceiveA!Received(s, p) => T!Received(s, p)
          /\ \A s, p : ReceiveA!Accepted(s, p) => T!Accepted(s, p)
        BY <1>6, <1>7, <2>3 DEF ReceiveA!Received, T!Received, ReceiveA!Accepted,
            T!Accepted, ReceiveA!IsLastEof, T!IsLastEof, ReceiveA!BadChecksum,
            T!BadChecksum, ReceiveA!FLAG_EOF, T!FLAG_EOF
    <2>7. /\ \A k : ReceiveA!RR(k) = T!RR(k)
          /\ \A k : ReceiveA!SREJ(k) = T!SREJ(k)
          /\ \A f, e : ReceiveA!Written(f, e) = T!Written(f, e)
          /\ \A b, p : ReceiveA!Stored(b, p) = T!Stored(b, p)
          /\ ReceiveA!build_packet(0, ReceiveA!FLAG_EOF, NoData) =
                T!build_packet(0, T!FLAG_EOF, NoData)
        BY DEF ReceiveA!RR, T!RR, ReceiveA!SREJ, T!SREJ, ReceiveA!FLAG_RR, T!FLAG_RR,
            ReceiveA!FLAG_SREJ, T!FLAG_SREJ, ReceiveA!FLAG_EOF, T!FLAG_EOF,
            ReceiveA!build_packet, T!build_packet, ReceiveA!Written, T!Written,
            ReceiveA!Stored, T!Stored, ReceiveA!buffer_add, T!buffer_add, ReceiveA!Entry,
            T!Entry, ReceiveA!Slot, T!Slot
    <2>8. /\ \A s : ReceiveA!DropCorrupted(s) => T!DropCorrupted(s)
          /\ \A s : ReceiveA!ExitTransfer(s) => T!ExitTransfer(s)
          /\ \A s : ReceiveA!AckAgain(s) => T!AckAgain(s)
        BY <1>6, <2>1, <2>3, <2>4, <2>6, <2>7 DEF ReceiveA!DropCorrupted,
            T!DropCorrupted, ReceiveA!ExitTransfer, T!ExitTransfer, ReceiveA!AckAgain,
            T!AckAgain, ReceiveA!rcopyVars, T!rcopyVars
    <2>9. /\ ReceiveA!WriteInorder => T!WriteInorder
          /\ ReceiveA!GapFound => T!GapFound
        BY <1>6, <2>4, <2>6, <2>7 DEF ReceiveA!WriteInorder, T!WriteInorder,
            ReceiveA!GapFound, T!GapFound
    <2>10. /\ ReceiveA!FillGap => T!FillGap
           /\ ReceiveA!StoreEarly => T!StoreEarly
        BY <1>6, <2>1, <2>6, <2>7 DEF ReceiveA!FillGap, T!FillGap, ReceiveA!StoreEarly,
            T!StoreEarly
    <2>11. /\ ReceiveA!FlushEntry => T!FlushEntry
           /\ ReceiveA!FlushEnd => T!FlushEnd
        BY <1>6, <1>7, <2>1, <2>4, <2>5, <2>7 DEF ReceiveA!FlushEntry, T!FlushEntry,
            ReceiveA!FlushEnd, T!FlushEnd, ReceiveA!NothingMissing, T!NothingMissing,
            ReceiveA!Entry, T!Entry, ReceiveA!Slot, T!Slot
    <2> QED BY <1>3, <1>5, <2>2, <2>8, <2>9, <2>10, <2>11
            DEF ReceiveA!ClientStep, T!ClientStep, ReceiveA!handle_inorder, T!handle_inorder,
                ReceiveA!handle_buffer, T!handle_buffer, ReceiveA!handle_flush,
                T!handle_flush, T!AClientNext, T!ClientNext, T!serverVars
<1>9. CASE Serving = "B"
    <2>1. servQueue = toB /\ servQueue' = toB'
        BY <1>2, <1>9 DEF Serving, servQueue
    <2>2. ReceiveB!ClientStep
        BY <1>4, <1>5, <1>9
    <2>3. ReceiveB!Corrupted = T!Corrupted
        BY DEF ReceiveB!Corrupted, T!Corrupted, ReceiveB!build_packet, T!build_packet
    <2>4. \A p : ReceiveB!SendToServer(p) => T!SendToServer(p)
        BY <2>1, <2>3 DEF ReceiveB!SendToServer, T!SendToServer, ReceiveB!Put, T!Put,
            ReceiveB!Fates, T!Fates, ReceiveB!Cost, T!Cost
    <2>5. \A p, r : ReceiveB!SendTwoToServer(p, r) => T!SendTwoToServer(p, r)
        BY <2>1, <2>3 DEF ReceiveB!SendTwoToServer, T!SendTwoToServer, ReceiveB!Put,
            T!Put, ReceiveB!Fates, T!Fates, ReceiveB!Cost, T!Cost
    <2>6. /\ \A p : ReceiveB!BadChecksum(p) <=> T!BadChecksum(p)
          /\ \A p : ReceiveB!IsLastEof(p) <=> T!IsLastEof(p)
          /\ \A s, p : ReceiveB!Received(s, p) => T!Received(s, p)
          /\ \A s, p : ReceiveB!Accepted(s, p) => T!Accepted(s, p)
        BY <1>6, <1>7, <2>3 DEF ReceiveB!Received, T!Received, ReceiveB!Accepted,
            T!Accepted, ReceiveB!IsLastEof, T!IsLastEof, ReceiveB!BadChecksum,
            T!BadChecksum, ReceiveB!FLAG_EOF, T!FLAG_EOF
    <2>7. /\ \A k : ReceiveB!RR(k) = T!RR(k)
          /\ \A k : ReceiveB!SREJ(k) = T!SREJ(k)
          /\ \A f, e : ReceiveB!Written(f, e) = T!Written(f, e)
          /\ \A b, p : ReceiveB!Stored(b, p) = T!Stored(b, p)
          /\ ReceiveB!build_packet(0, ReceiveB!FLAG_EOF, NoData) =
                T!build_packet(0, T!FLAG_EOF, NoData)
        BY DEF ReceiveB!RR, T!RR, ReceiveB!SREJ, T!SREJ, ReceiveB!FLAG_RR, T!FLAG_RR,
            ReceiveB!FLAG_SREJ, T!FLAG_SREJ, ReceiveB!FLAG_EOF, T!FLAG_EOF,
            ReceiveB!build_packet, T!build_packet, ReceiveB!Written, T!Written,
            ReceiveB!Stored, T!Stored, ReceiveB!buffer_add, T!buffer_add, ReceiveB!Entry,
            T!Entry, ReceiveB!Slot, T!Slot
    <2>8. /\ \A s : ReceiveB!DropCorrupted(s) => T!DropCorrupted(s)
          /\ \A s : ReceiveB!ExitTransfer(s) => T!ExitTransfer(s)
          /\ \A s : ReceiveB!AckAgain(s) => T!AckAgain(s)
        BY <1>6, <2>1, <2>3, <2>4, <2>6, <2>7 DEF ReceiveB!DropCorrupted,
            T!DropCorrupted, ReceiveB!ExitTransfer, T!ExitTransfer, ReceiveB!AckAgain,
            T!AckAgain, ReceiveB!rcopyVars, T!rcopyVars
    <2>9. /\ ReceiveB!WriteInorder => T!WriteInorder
          /\ ReceiveB!GapFound => T!GapFound
        BY <1>6, <2>4, <2>6, <2>7 DEF ReceiveB!WriteInorder, T!WriteInorder,
            ReceiveB!GapFound, T!GapFound
    <2>10. /\ ReceiveB!FillGap => T!FillGap
           /\ ReceiveB!StoreEarly => T!StoreEarly
        BY <1>6, <2>1, <2>6, <2>7 DEF ReceiveB!FillGap, T!FillGap, ReceiveB!StoreEarly,
            T!StoreEarly
    <2>11. /\ ReceiveB!FlushEntry => T!FlushEntry
           /\ ReceiveB!FlushEnd => T!FlushEnd
        BY <1>6, <1>7, <2>1, <2>4, <2>5, <2>7 DEF ReceiveB!FlushEntry, T!FlushEntry,
            ReceiveB!FlushEnd, T!FlushEnd, ReceiveB!NothingMissing, T!NothingMissing,
            ReceiveB!Entry, T!Entry, ReceiveB!Slot, T!Slot
    <2> QED BY <1>3, <1>5, <2>2, <2>8, <2>9, <2>10, <2>11
            DEF ReceiveB!ClientStep, T!ClientStep, ReceiveB!handle_inorder, T!handle_inorder,
                ReceiveB!handle_buffer, T!handle_buffer, ReceiveB!handle_flush,
                T!handle_flush, T!AClientNext, T!ClientNext, T!serverVars
<1> QED BY <1>8, <1>9 DEF Serving

\* What rcopy or the child that serves it does keeps the transfer's invariant.
LEMMA ServedStep ==
    ASSUME OnlyLost, T!RingInv, T!AServerNext \/ T!AClientNext
    PROVE  T!RingInv'
<1>1. T!Sheltered
    BY DEF OnlyLost, T!Sheltered
<1> QED BY <1>1, T!RingStep, PayloadAssumption, SizeAssumption, SessionAssumption

\* So does what neither of them does.
LEMMA ServedQuietly ==
    ASSUME T!RingInv, faults' \in Nat,
           \/ servData' = servData
           \/ servData # <<>> /\ servData' = Tail(servData)
           \/ servData' = Append(servData, Corrupted),
           UNCHANGED <<servWindow, servFilePos, servPlace, servAttempts, servQueue,
                       buffer, rcv, out>>
    PROVE  T!RingInv'
<1>1. T!Corrupted = Corrupted
    BY DEF T!Corrupted, Corrupted, T!build_packet, build_packet
<1> QED BY <1>1, T!RingQueue, PayloadAssumption, SizeAssumption, SessionAssumption

\* The second child is born when the first has been killed.
LEMMA OneServes ==
    ASSUME SessionInv, PromptInv
    PROVE  srvB # Unborn => srvA = Killed
<1>1. children \in 0..2
    BY SessionAssumption DEF SessionInv, TypeOK, Parent!ListenerTypeOK
<1> QED BY <1>1 DEF SessionInv, PromptInv, ForkInv, BirthInv

\* A step of child A.
LEMMA ServedChildA ==
    ASSUME SessionInv, PromptInv, ServedInv, OnlyLost, Underway, PromptChildA
    PROVE  ServedInv'
<1>1. /\ TypeOK /\ QueuesOK /\ ChildAInv /\ ListenerInv
      /\ A!ServerNext /\ SentBy("A")
      /\ UNCHANGED <<phase, buffer, rcv, out, peer, listener, srvB>>
      /\ T!RingInv
      /\ peer \in {"listener", Serving}
      /\ \A i \in 1..Len(origins) : origins[i] \in {"listener", Serving}
    BY DEF SessionInv, PromptInv, PromptChildA, ChildANext, clientVars, exchangeVars,
        receiveVars, listenerVars, childBVars, A!ServerNext, ServedInv, Underway
<1>2. srvA # Killed
    BY <1>1 DEF Killed, A!ServerNext, A!ServerStep, A!ServerTimeout, A!SendData, A!ReadEof,
        A!WindowClosed, A!DrainRecv, A!DrainDone, A!FullRecv, A!FullTimeout, A!WindowFull,
        A!FullDone, A!SendEof, A!EofRecv, A!EofTimeout
<1>3. /\ srvA # Unborn
      /\ toClient' \in Seq(ToClient)
      /\ toClient' = toClient \/ \E p : toClient' = Append(toClient, p)
    BY <1>1, ChildAMoves
<1>4. srvB = Unborn
    BY <1>2, OneServes
<1>5. T!AServerNext
    BY <1>1, <1>4, ServedByA
<1>6. T!RingInv'
    BY <1>1, <1>5, ServedStep
<1>7. Serving = "A" /\ Serving' = "A"
    BY <1>1, <1>4 DEF Serving
<1>8. /\ origins' = origins \/ origins' = Append(origins, "A")
      /\ origins \in Seq(Senders)
    BY <1>1, <1>3, OriginsOfStep DEF Senders
<1>9. \A i \in 1..Len(origins') : origins'[i] \in {"listener", "A"}
    BY <1>1, <1>7, <1>8
<1>10. listener' # "FORK"
    BY <1>1, <1>2, <1>3 DEF ListenerInv, BeingServed, NobodyRuns
<1> QED BY <1>1, <1>6, <1>7, <1>9, <1>10 DEF ServedInv

\* A step of child B.
LEMMA ServedChildB ==
    ASSUME SessionInv, PromptInv, ServedInv, OnlyLost, Underway, PromptChildB
    PROVE  ServedInv'
<1>1. /\ TypeOK /\ QueuesOK /\ ChildBInv /\ ListenerInv
      /\ B!ServerNext /\ SentBy("B")
      /\ UNCHANGED <<phase, buffer, rcv, out, peer, listener>>
      /\ T!RingInv
      /\ peer \in {"listener", Serving}
      /\ \A i \in 1..Len(origins) : origins[i] \in {"listener", Serving}
    BY DEF SessionInv, PromptInv, PromptChildB, ChildBNext, clientVars, exchangeVars,
        receiveVars, listenerVars, childAVars, B!ServerNext, ServedInv, Underway
<1>2. srvB # Killed
    BY <1>1 DEF Killed, B!ServerNext, B!ServerStep, B!ServerTimeout, B!SendData, B!ReadEof,
        B!WindowClosed, B!DrainRecv, B!DrainDone, B!FullRecv, B!FullTimeout, B!WindowFull,
        B!FullDone, B!SendEof, B!EofRecv, B!EofTimeout
<1>3. /\ srvB # Unborn /\ srvB' \in A!ServerStates
      /\ toClient' \in Seq(ToClient)
      /\ toClient' = toClient \/ \E p : toClient' = Append(toClient, p)
    BY <1>1, ChildBMoves
<1>4. srvB' # Unborn
    BY <1>3 DEF A!ServerStates, A!EofStates, A!Stopped, Unborn
<1>5. T!AServerNext
    BY <1>1, ServedByB
<1>6. T!RingInv'
    BY <1>1, <1>5, ServedStep
<1>7. Serving = "B" /\ Serving' = "B"
    BY <1>3, <1>4 DEF Serving
<1>8. /\ origins' = origins \/ origins' = Append(origins, "B")
      /\ origins \in Seq(Senders)
    BY <1>1, <1>3, OriginsOfStep DEF Senders
<1>9. \A i \in 1..Len(origins') : origins'[i] \in {"listener", "B"}
    BY <1>1, <1>7, <1>8
<1>10. listener' # "FORK"
    BY <1>1, <1>2, <1>3 DEF ListenerInv, BeingServed, NobodyRuns
<1> QED BY <1>1, <1>6, <1>7, <1>9, <1>10 DEF ServedInv

\* The listener answers only when rcopy has received nothing yet.
LEMMA ServedAnswers ==
    ASSUME SessionInv, SessionInv', PromptInv, ServedInv, Underway, SentBy("listener"),
           Parent!NextPacket(Head(toListener)),
           NEW p, Parent!SendToClient(p),
           UNCHANGED <<phase, rcv, buffer, out, peer, toA, toB, srvA, srvB,
                       windowA, filePosA, attemptsA, windowB, filePosB, attemptsB>>
    PROVE  ServedInv'
<1>1. /\ TypeOK /\ QueuesOK /\ ListenerInv /\ AskingInv /\ ReceivingInv
      /\ T!RingInv /\ peer \in {"listener", Serving}
      /\ origins \in Seq(Senders) /\ Len(origins) = Len(toClient)
      /\ toClient \in Seq(ToClient) /\ faults' \in Nat
    BY DEF SessionInv, PromptInv, TypeOK, QueuesOK, ServedInv, Underway
<1>2. Pending
    BY DEF Parent!NextPacket, Pending
<1>3. Asking
    BY <1>1, <1>2 DEF Underway, Asking, ReceivingInv
<1>4. /\ rcv = "INORDER" /\ buffer = buffer_init(0) /\ out = <<>>
      /\ peer = "listener" /\ toA = <<>> /\ toB = <<>> /\ toClient = <<>> /\ origins = <<>>
    <2>1. toClient = <<>>
        BY <1>1, <1>2, <1>3 DEF AskingInv
    <2>2. origins = <<>>
        BY <1>1, <2>1
    <2> QED BY <1>1, <1>2, <1>3, <2>1, <2>2 DEF AskingInv
<1>5. /\ UNCHANGED <<servWindow, servFilePos, servPlace, servAttempts, Serving>>
      /\ UNCHANGED servQueue
    BY ServesSame
<1>6. \/ toClient' = <<>> /\ origins' = <<>>
      \/ \E x : toClient' = <<x>> /\ origins' = <<"listener">>
    <2>1. toClient' = <<>> \/ \E x : toClient' = <<x>>
        BY <1>4 DEF Parent!SendToClient, Parent!Put
    <2>2. \A x : <<x>> # <<>>
        OBVIOUS
    <2> QED BY <1>4, <2>1, <2>2 DEF SentBy
<1>7. servData = <<>>
    BY <1>4 DEF servData
<1>8. servData' = servData \/ servData' = Append(servData, Corrupted)
    <2>1. CASE toClient' = <<>>
        BY <1>7, <2>1 DEF servData
    <2>2. CASE \E x : toClient' = <<x>> /\ origins' = <<"listener">>
        <3>1. PICK x : toClient' = <<x>> /\ origins' = <<"listener">>
            BY <2>2
        <3>2. servData' = [<<x>> EXCEPT ![1] = Corrupted]
            BY <3>1 DEF servData, Corrupted, build_packet
        <3>3. [<<x>> EXCEPT ![1] = Corrupted] = <<Corrupted>>
            OBVIOUS
        <3> QED BY <1>7, <3>2, <3>3
    <2> QED BY <1>6, <2>1, <2>2
<1>9. T!RingInv'
    BY <1>1, <1>5, <1>8, ServedQuietly
<1>10. \A i \in 1..Len(origins') : origins'[i] = "listener"
    <2>1. Len(<<>>) = 0 /\ Len(<<"listener">>) = 1 /\ <<"listener">>[1] = "listener"
        OBVIOUS
    <2> QED BY <1>6, <2>1
<1>11. Fresh'
    BY <1>4, <1>10 DEF Fresh
<1> QED BY <1>1, <1>4, <1>5, <1>9, <1>10, <1>11 DEF ServedInv

\* A new child finds rcopy as the transfer begins.
LEMMA ServedFork ==
    ASSUME SessionInv, SessionInv', PromptInv, ServedInv, BufferSize <= WindowSize, Underway,
           Parent!Fork, srvA' = Forked(1, srvA), srvB' = Forked(2, srvB),
           UNCHANGED <<phase, rcv, buffer, out, peer, toA, toB, origins,
                       windowA, filePosA, attemptsA, windowB, filePosB, attemptsB>>
    PROVE  ServedInv'
<1>1. /\ TypeOK /\ QueuesOK /\ ForkInv /\ ChildBInv'
      /\ ListenerInv /\ BirthInv /\ AskingInv /\ ReceivingInv
      /\ T!RingInv /\ faults' \in Nat
      /\ children \in 0..2
      /\ origins \in Seq(Senders) /\ Len(origins) = Len(toClient)
      /\ toClient \in Seq(ToClient)
    BY SessionAssumption DEF SessionInv, PromptInv, TypeOK, QueuesOK, Parent!ListenerTypeOK,
        ServedInv, Underway
<1>2. /\ listener = "FORK" /\ listener' = "LISTEN" /\ children' = children + 1
      /\ UNCHANGED <<toClient, toListener, faults>>
    BY DEF Parent!Fork, Parent!netVars
<1>3. Fresh
    BY <1>2 DEF ServedInv, Underway
<1>4. NobodyRuns
    BY <1>1, <1>2 DEF ListenerInv, BeingServed
<1>5. children \in {0, 1}
    BY <1>1, SessionAssumption DEF Parent!Fork
<1>6. T!RingInv'
    <2>1. CASE children = 0
        <3>1. srvA = Unborn /\ srvB = Unborn /\ srvA' = "SEND_DATA" /\ srvB' = Unborn
            BY <1>1, <1>2, <2>1 DEF ForkInv, Forked
        <3>2. UNCHANGED <<servWindow, servFilePos, servPlace, servAttempts, servQueue>>
            BY <3>1 DEF servWindow, servFilePos, servPlace, servAttempts, servQueue, PlaceOf,
                Unborn, Killed
        <3>3. servData' = servData
            BY <1>2 DEF servData
        <3> QED BY <1>1, <3>2, <3>3, ServedQuietly
    <2>2. CASE children = 1
        <3>1. srvB = Unborn /\ srvB' = "SEND_DATA"
            BY <1>1, <1>2, <2>2 DEF ForkInv, Forked
        <3>2. windowB = buffer_init(BufferSize) /\ filePosB = 0
            BY <1>1, <3>1 DEF BirthInv
        <3>3. attemptsB' \in 0..MaxAttempts /\ attemptsB' < MaxAttempts
            BY <1>1, <3>1 DEF ChildBInv, ChildInv, A!Stopped
        <3>4. /\ servWindow' = buffer_init(BufferSize) /\ servFilePos' = 0
              /\ servPlace' = "SEND_DATA" /\ servAttempts' = attemptsB' /\ servQueue' = <<>>
            BY <1>3, <3>1, <3>2 DEF servWindow, servFilePos, servPlace, servAttempts,
                servQueue, PlaceOf, Unborn, Killed, Fresh
        <3>5. servData' = <<>> \/ servData' = <<Corrupted>>
            <4>1. Len(origins) <= 1
                <5>1. \A i \in 1..Len(origins) : origins[i] = "listener"
                    BY <1>3 DEF Fresh
                <5>2. \/ \A i \in 1..Len(origins) : origins[i] # "listener"
                      \/ \A i \in 2..Len(origins) : origins[i] # "listener"
                    BY <1>1 DEF Underway, AskingInv, Asking, ReceivingInv
                <5> QED BY <1>1, <5>1, <5>2
            <4>2. CASE toClient = <<>>
                BY <1>2, <4>2 DEF servData
            <4>3. CASE toClient # <<>>
                <5>1. Len(toClient) = 1
                    BY <1>1, <4>1, <4>3
                <5>2. origins[1] = "listener"
                    BY <1>1, <1>3, <5>1 DEF Fresh
                <5>3. servData' = [toClient EXCEPT ![1] = Corrupted]
                    BY <1>2, <4>3, <5>2 DEF servData, Corrupted, build_packet
                <5>4. [toClient EXCEPT ![1] = Corrupted] = <<Corrupted>>
                    BY <1>1, <5>1
                <5> QED BY <5>3, <5>4
            <4> QED BY <4>2, <4>3
        <3>6. /\ T!buffer_init(BufferSize) = buffer_init(BufferSize)
              /\ T!buffer_init(0) = buffer_init(0)
              /\ T!Corrupted = Corrupted
              /\ T!FitsRing
            BY DEF T!buffer_init, buffer_init, T!Slots, Slots, T!Corrupted, Corrupted,
                T!build_packet, build_packet, T!FitsRing
        <3>7. rcv' = "INORDER" /\ buffer' = buffer_init(0) /\ out' = <<>>
            BY <1>3 DEF Fresh
        <3> QED BY <1>1, <3>3, <3>4, <3>5, <3>6, <3>7, T!RingBirth, PayloadAssumption,
                SizeAssumption, SessionAssumption
    <2> QED BY <1>5, <2>1, <2>2
<1>7. peer' = "listener" /\ \A i \in 1..Len(origins') : origins'[i] = "listener"
    BY <1>3 DEF Fresh
<1> QED BY <1>2, <1>6, <1>7 DEF ServedInv

\* So whatever the listener does leaves the transfer as it is, or begins it.
LEMMA ServedListener ==
    ASSUME SessionInv, SessionInv', PromptInv, ServedInv, OnlyLost, BufferSize <= WindowSize,
           Underway, ListenerNext \/ FileRefused
    PROVE  ServedInv'
BY ListenerActs, ServedAnswers, ServedFork

\* A kill, a failed call and a restart.
LEMMA ServedMisfortune ==
    ASSUME SessionInv, SessionInv', PromptInv, ServedInv, OnlyLost, BufferSize <= WindowSize,
           Underway, Misfortune
    PROVE  ServedInv'
<1>1. /\ T!RingInv /\ faults' \in Nat
      /\ peer \in {"listener", Serving}
      /\ \A i \in 1..Len(origins) : origins[i] \in {"listener", Serving}
      /\ listener = "FORK" => Fresh
    BY DEF SessionInv, QueuesOK, ServedInv, Underway
<1>2. CASE KillListener \/ ForkFailure \/ RestartListener
    <2>1. /\ UNCHANGED <<phase, rcv, buffer, out, peer, toClient, origins, toA, toB,
                         windowA, filePosA, srvA, attemptsA,
                         windowB, filePosB, srvB, attemptsB>>
          /\ listener' # "FORK"
        BY <1>2 DEF KillListener, ForkFailure, RestartListener, Parent!Kill,
            Parent!ForkFailure, Parent!Restart, Parent!netVars, clientVars, exchangeVars,
            receiveVars, childAVars, childBVars
    <2>2. UNCHANGED <<servWindow, servFilePos, servPlace, servAttempts, servQueue, Serving>>
        BY <2>1, ServesSame
    <2>3. servData' = servData
        BY <2>1 DEF servData
    <2>4. T!RingInv'
        BY <1>1, <2>1, <2>2, <2>3, ServedQuietly
    <2> QED BY <1>1, <2>1, <2>2, <2>4 DEF ServedInv
<1>3. CASE KillChildA \/ KillChildB
    <2>1. /\ UNCHANGED <<phase, rcv, buffer, out, peer, listener, toClient, origins, toA, toB,
                         windowA, filePosA, attemptsA, windowB, filePosB, attemptsB, faults>>
          /\ \/ srvA \notin NotRunning /\ srvA' = Killed /\ srvB' = srvB
             \/ srvB \notin NotRunning /\ srvB' = Killed /\ srvA' = srvA
        BY <1>3 DEF KillChildA, KillChildB, clientVars, exchangeVars, receiveVars,
            listenerVars, childAVars, childBVars, queueVars
    <2>2. /\ UNCHANGED <<servWindow, servFilePos, servAttempts, servQueue, Serving>>
          /\ servPlace' = "DONE"
        BY <2>1, OneServes DEF NotRunning, Unborn, Killed, servWindow, servFilePos,
            servPlace, servAttempts, servQueue, Serving, PlaceOf
    <2>3. servData' = servData
        BY <2>1 DEF servData
    <2>4. T!RingInv'
        BY <1>1, <2>1, <2>2, <2>3, T!RingStop, PayloadAssumption, SizeAssumption,
            SessionAssumption
    <2> QED BY <1>1, <2>1, <2>2, <2>4 DEF ServedInv, Fresh
<1>4. CASE KillClient
    <2>1. phase' = "DONE"
        BY <1>4 DEF KillClient
    <2> QED BY <2>1 DEF ServedInv, Underway
<1>5. CASE FileRefused
    BY <1>5, ServedListener
<1> QED BY <1>2, <1>3, <1>4, <1>5 DEF Misfortune

\* rcopy asks, and reads an answer that the transfer does not know of.
LEMMA ServedAsks ==
    ASSUME SessionInv, SessionInv', PromptInv, ServedInv, OnlyLost, Underway,
           ClientStep, phase # "RECEIVE_DATA"
    PROVE  ServedInv'
<1>1. /\ TypeOK /\ QueuesOK /\ AskingInv
      /\ toClient \in Seq(ToClient) /\ faults' \in Nat
      /\ origins \in Seq(Senders) /\ Len(origins) = Len(toClient)
      /\ T!RingInv
      /\ peer \in {"listener", Serving}
      /\ \A i \in 1..Len(origins) : origins[i] \in {"listener", Serving}
      /\ listener = "FORK" => Fresh
    BY DEF SessionInv, PromptInv, TypeOK, QueuesOK, ServedInv, Underway
<1>2. UNCHANGED <<srvA, srvB, windowA, filePosA, attemptsA, windowB, filePosB, attemptsB>>
    BY DEF ClientStep, childAVars, childBVars
<1>3. /\ UNCHANGED <<rcv, buffer, out, listener, toA, toB>>
      /\ \/ UNCHANGED <<toClient, origins, peer>>
         \/ /\ phase = "POLL"
            /\ toClient # <<>> /\ toClient' = Tail(toClient)
            /\ origins # <<>> /\ origins' = Tail(origins) /\ peer' = origins[1]
    BY AskingMoves
<1>4. UNCHANGED <<servWindow, servFilePos, servPlace, servAttempts, servQueue, Serving>>
    BY <1>2, <1>3, ServesSame
<1>5. /\ servData' = servData \/ (servData # <<>> /\ servData' = Tail(servData))
      /\ peer' \in {"listener", Serving}
      /\ \A i \in 1..Len(origins') : origins'[i] \in {"listener", Serving}
      /\ Fresh => Fresh'
    <2>1. CASE UNCHANGED <<toClient, origins, peer>>
        BY <1>1, <1>3, <2>1 DEF servData, Fresh, Corrupted, build_packet
    <2>2. CASE /\ phase = "POLL"
               /\ toClient # <<>> /\ toClient' = Tail(toClient)
               /\ origins # <<>> /\ origins' = Tail(origins) /\ peer' = origins[1]
        <3>1. /\ 1 \in 1..Len(origins)
              /\ Len(origins') = Len(origins) - 1
              /\ \A i \in 1..Len(origins') : origins'[i] = origins[i + 1]
              /\ \A i \in 1..Len(origins') : i + 1 \in 2..Len(origins)
            BY <1>1, <2>2
        <3>2. \A i \in 1..Len(origins') : origins'[i] # "listener"
            BY <1>1, <2>2, <3>1 DEF AskingInv, Asking
        <3>3. Len(origins') = Len(toClient') /\ toClient' \in Seq(ToClient)
            BY <1>1, <2>2
        <3>4. servData' = toClient'
            BY <3>2, <3>3, DataSeenNext
        <3>5. servData # <<>> /\ Tail(servData) = Tail(toClient)
            <4>1. CASE origins[1] = "listener"
                <5>1. servData = [toClient EXCEPT ![1] = Corrupted]
                    BY <2>2, <4>1 DEF servData
                <5>2. /\ Len(servData) = Len(toClient) /\ servData \in Seq(ToClient)
                      /\ \A i \in 2..Len(toClient) : servData[i] = toClient[i]
                    BY <1>1, <2>2, <5>1, PacketTypes
                <5> QED BY <1>1, <2>2, <5>2
            <4>2. CASE origins[1] # "listener"
                BY <2>2, <4>2 DEF servData
            <4> QED BY <4>1, <4>2
        <3>6. Fresh => Fresh'
            BY <1>1, <1>3, <2>2, <3>1 DEF Fresh
        <3> QED BY <1>1, <2>2, <3>1, <3>4, <3>5, <3>6
    <2> QED BY <1>3, <2>1, <2>2
<1>6. T!RingInv'
    BY <1>1, <1>3, <1>4, <1>5, ServedQuietly
<1> QED BY <1>1, <1>3, <1>4, <1>5, <1>6 DEF ServedInv

\* rcopy receives: a step of the transfer.
LEMMA ServedHears ==
    ASSUME SessionInv, PromptInv, ServedInv, OnlyLost, ClientStep, phase = "RECEIVE_DATA"
    PROVE  ServedInv'
<1>1. /\ TypeOK /\ QueuesOK
      /\ toClient \in Seq(ToClient) /\ origins \in Seq(Senders)
      /\ T!RingInv
      /\ peer \in {"listener", Serving}
      /\ \A i \in 1..Len(origins) : origins[i] \in {"listener", Serving}
      /\ listener = "FORK" => Fresh
    BY DEF SessionInv, TypeOK, QueuesOK, ServedInv, Underway
<1>2. /\ UNCHANGED <<phase, listener>>
      /\ peer' \in {"A", "B"}
      /\ \/ origins' = origins /\ peer' = peer
         \/ origins # <<>> /\ origins' = Tail(origins) /\ peer' = origins[1]
    BY ReceivingMoves
<1>3. T!AClientNext /\ peer' = Serving /\ Serving' = Serving
    BY <1>1, ServedReceives
<1>4. T!RingInv'
    BY <1>1, <1>3, ServedStep
<1>5. \A i \in 1..Len(origins') : origins'[i] \in {"listener", Serving}
    BY <1>1, <1>2
<1>6. listener # "FORK"
    <2>1. origins # <<>> => 1 \in 1..Len(origins)
        BY <1>1
    <2> QED BY <1>1, <1>2, <2>1 DEF Fresh
<1> QED BY <1>2, <1>3, <1>4, <1>5, <1>6 DEF ServedInv

\* A time-out of rcopy: the request is repeated, or the transfer given up.
LEMMA ServedTimeout ==
    ASSUME SessionInv, SessionInv', ServedInv, OnlyLost, Underway,
           RequestTimeout \/ (DataTimeout /\ listener # "FORK")
    PROVE  ServedInv'
<1>1. /\ T!RingInv /\ faults' \in Nat
      /\ peer \in {"listener", Serving}
      /\ \A i \in 1..Len(origins) : origins[i] \in {"listener", Serving}
      /\ listener = "FORK" => Fresh
    BY DEF SessionInv, QueuesOK, ServedInv, Underway
<1>2. /\ UNCHANGED <<buffer, out, peer, listener, toClient, origins, toA, toB, faults>>
      /\ UNCHANGED <<srvA, srvB, windowA, filePosA, attemptsA, windowB, filePosB, attemptsB>>
      /\ toClient = <<>>
    BY DEF RequestTimeout, DataTimeout, ExchangeL!NoAnswer, ExchangeL!netVars,
        ReceiveL!ClientTimeout, ReceiveL!netVars, receiveVars, listenerVars, childAVars,
        childBVars
<1>3. UNCHANGED <<servWindow, servFilePos, servPlace, servAttempts, servQueue, Serving>>
    BY <1>2, ServesSame
<1>4. servData' = servData /\ servData = <<>>
    BY <1>2 DEF servData
<1>5. CASE RequestTimeout
    <2>1. rcv' = rcv
        BY <1>5 DEF RequestTimeout, receiveVars
    <2>2. T!RingInv'
        BY <1>1, <1>2, <1>3, <1>4, <2>1, ServedQuietly
    <2> QED BY <1>1, <1>2, <1>3, <2>1, <2>2 DEF ServedInv, Fresh
<1>6. CASE DataTimeout /\ listener # "FORK"
    <2>1. T!AClientNext
        BY <1>2, <1>3, <1>4, <1>6 DEF DataTimeout, ReceiveL!ClientTimeout, T!ClientTimeout,
            ReceiveL!Receiving, T!Receiving, T!netVars, T!AClientNext, T!ClientNext,
            T!serverVars
    <2>2. T!RingInv'
        BY <1>1, <2>1, ServedStep
    <2>3. listener' # "FORK"
        BY <1>2, <1>6
    <2> QED BY <1>1, <1>2, <1>3, <2>2, <2>3 DEF ServedInv
<1> QED BY <1>5, <1>6

\* When rcopy ends, with or without a file, it writes nothing, nor does it after.
LEMMA Finished ==
    ASSUME SessionInv, PromptInv, OnlyLost, PromptNext, ~Underway \/ ~Underway'
    PROVE  ~Underway' /\ UNCHANGED <<rcv, out>>
<1>1. CASE PromptChildA \/ PromptChildB \/ Idle
    BY <1>1 DEF PromptChildA, PromptChildB, ChildANext, ChildBNext, Idle, vars, clientVars,
        exchangeVars, receiveVars, Underway
<1>2. CASE ListenerNext
    BY <1>2 DEF ListenerNext, clientVars, exchangeVars, receiveVars, Underway
<1>3. CASE ClientStep
    <2>1. phase # "RECEIVE_DATA"
        BY <1>3, ReceivingMoves DEF Underway
    <2> QED BY <1>3, <2>1, AskingMoves DEF Underway
<1>4. CASE RequestTimeout \/ DataTimeout
    BY <1>4 DEF RequestTimeout, DataTimeout, ExchangeL!NoAnswer, exchangeVars, Underway
<1>5. CASE Misfortune
    BY <1>5 DEF Misfortune, KillListener, ForkFailure, FileRefused, KillChildA, KillChildB,
        KillClient, RestartListener, clientVars, exchangeVars, receiveVars, Underway
<1> QED BY <1>1, <1>2, <1>3, <1>4, <1>5 DEF PromptNext, PromptClient

\* The view of the initial state is one of the transfer.
LEMMA ServedInit ==
    ASSUME Init, OnlyLost, BufferSize <= WindowSize
    PROVE  ServedInv
<1>1. /\ rcv = "INORDER" /\ buffer = buffer_init(0) /\ out = <<>>
      /\ peer = "listener" /\ listener = "LISTEN"
      /\ windowA = buffer_init(BufferSize) /\ filePosA = 0 /\ srvA = Unborn /\ attemptsA = 0
      /\ srvB = Unborn
      /\ toClient = <<>> /\ origins = <<>> /\ toA = <<>>
      /\ faults = 0
    BY DEF Init, ReceiveL!RcopyInit, Parent!ListenerInit,
        buffer_init, ReceiveL!buffer_init, Slots, ReceiveL!Slots
<1>2. /\ servWindow = buffer_init(BufferSize) /\ servFilePos = 0 /\ servPlace = "SEND_DATA"
      /\ servAttempts = 0 /\ servQueue = <<>> /\ servData = <<>>
    BY <1>1 DEF servWindow, servFilePos, servPlace, servAttempts, servQueue, servData, PlaceOf
<1>3. T!Init
    BY <1>1, <1>2 DEF T!Init, T!ServerInit, T!RcopyInit, T!NetInit, T!buffer_init,
        buffer_init, T!Slots, Slots
<1>4. T!Sheltered /\ T!FitsRing
    BY DEF T!Sheltered, T!FitsRing, OnlyLost
<1>5. T!RingInv
    BY <1>3, <1>4, T!RingInit, PayloadAssumption, SizeAssumption, SessionAssumption
<1> QED BY <1>1, <1>5 DEF ServedInv

\* ServedInv is inductive, given what SessionInv and PromptInv say.
LEMMA ServedNext ==
    ASSUME SessionInv, SessionInv', PromptInv, ServedInv, OnlyLost, BufferSize <= WindowSize,
           [PromptNext]_vars
    PROVE  ServedInv'
<1>1. CASE UNCHANGED vars
    <2>1. /\ UNCHANGED <<phase, buffer, rcv, out, peer, listener, toClient, origins, toA, toB>>
          /\ UNCHANGED <<srvA, srvB, windowA, filePosA, attemptsA,
                         windowB, filePosB, attemptsB>>
        BY <1>1 DEF vars, clientVars, exchangeVars, receiveVars, listenerVars, childAVars,
            childBVars, queueVars
    <2>2. UNCHANGED <<servWindow, servFilePos, servPlace, servAttempts, servQueue, Serving>>
        BY <2>1, ServesSame
    <2>3. servData' = servData
        BY <2>1 DEF servData
    <2>4. faults' \in Nat
        BY DEF SessionInv, QueuesOK
    <2>5. T!RingInv => T!RingInv'
        BY <2>1, <2>2, <2>3, <2>4, ServedQuietly
    <2> QED BY <2>1, <2>2, <2>5 DEF ServedInv, Underway, Fresh
<1>2. CASE Underway /\ PromptNext /\ ~UNCHANGED vars
    <2>1. CASE PromptChildA \/ PromptChildB
        BY <1>2, <2>1, ServedChildA, ServedChildB
    <2>2. CASE ListenerNext
        BY <1>2, <2>2, ServedListener
    <2>3. CASE PromptClient
        BY <1>2, <2>3, ServedAsks, ServedHears, ServedTimeout DEF PromptClient
    <2>4. CASE Misfortune
        BY <1>2, <2>4, ServedMisfortune
    <2> QED BY <1>2, <2>1, <2>2, <2>3, <2>4 DEF PromptNext, Idle
<1>3. CASE ~Underway /\ PromptNext
    BY <1>3, Finished DEF ServedInv, Underway
<1> QED BY <1>1, <1>2, <1>3

\* While rcopy is underway its file is what the transfer's invariant says, and
\* nothing is written before or after.
LEMMA ServedIntegrity ==
    ASSUME ServedInv, OnlyLost, Underway
    PROVE  SessionIntegrity
<1>1. T!RingInv /\ T!Sheltered
    BY DEF ServedInv, Underway, T!Sheltered, OnlyLost
<1>2. T!Integrity /\ T!CompleteOnExit
    BY <1>1, T!ShelteredImplies, PayloadAssumption, SizeAssumption, SessionAssumption
    DEF T!RingInv
<1> QED BY <1>2 DEF T!Integrity, T!CompleteOnExit, SessionIntegrity

\* What is written stays when rcopy ends.
LEMMA IntegrityStep ==
    ASSUME SessionInv, PromptInv, SessionIntegrity, (Underway => SessionIntegrity)',
           OnlyLost, [PromptNext]_vars
    PROVE  SessionIntegrity'
<1>1. CASE ~Underway' /\ PromptNext
    BY <1>1, Finished DEF SessionIntegrity
<1>2. CASE UNCHANGED vars
    BY <1>2 DEF vars, clientVars, receiveVars, SessionIntegrity
<1> QED BY <1>1, <1>2

\* The numbers of the child that serves and of rcopy are those of a transfer
\* in the sheltered setting.
THEOREM ServedInvAlways ==
    ASSUME OnlyLost, FewLosses, BufferSize <= WindowSize
    PROVE  PromptSpec => []ServedInv
<1>1. Init => ServedInv
    BY ServedInit
<1>2. SessionInv /\ SessionInv' /\ PromptInv /\ ServedInv /\ [PromptNext]_vars => ServedInv'
    BY ServedNext
<1> QED BY <1>1, <1>2, PromptIsSpec, SessionInvAlways, PromptInvAlways, PTL DEF PromptSpec

\* The output file is a prefix of the file, and the whole of it when rcopy says
\* so, although rcopy may have asked more than once and been served by a second
\* child after the first was killed.  (rcopy.c handle_inorder, handle_buffer, handle_flush;
\* server.c processFilenameAck.)
THEOREM SessionIntegrityAlways ==
    ASSUME OnlyLost, FewLosses, BufferSize <= WindowSize
    PROVE  PromptSpec => []SessionIntegrity
<1>1. Init => SessionIntegrity
    BY SessionAssumption DEF Init, ReceiveL!RcopyInit, SessionIntegrity
<1>2. ServedInv => (Underway => SessionIntegrity)
    BY ServedIntegrity
<1>3. SessionInv /\ PromptInv /\ SessionIntegrity /\ (Underway => SessionIntegrity)'
        /\ [PromptNext]_vars => SessionIntegrity'
    BY IntegrityStep
<1> QED BY <1>1, <1>2, <1>3, ServedInvAlways, PromptIsSpec, SessionInvAlways, PromptInvAlways,
        PTL DEF PromptSpec

------------------------------------------------------------------------------
(***************************************************************************)
(* Whom rcopy gives up for.                                                *)
(***************************************************************************)
\* A socket holds a window of packets, and the answer with a first window.
RoomForAnswer == WindowSize <= QueueCap /\ BufferSize < QueueCap

\* Nothing was lost, and the child was born and lives.
Unharmed == faults = 0 /\ crashes \cap {"A", "B", "fork"} = {}

\* rcopy waits, for its answer or for the file.
Listening == Underway /\ rcv \notin ReceiveL!Gone

\* A file that was found has its child, or will have.
Served == listener = "FORK" \/ srvA # Unborn

\* Only the listener and the first child are heard, and the child stays.
OneToHear ==
    /\ peer \in {"listener", "A"}
    /\ \A i \in 1..Len(origins) : origins[i] \in {"listener", "A"}
    /\ T!TypeOK
    /\ srvA \notin A!Stopped

\* The answer is the first packet that rcopy gets.
AnswerFirst ==
    Asking /\ toClient # <<>> =>
        /\ origins[1] = "listener"
        /\ T!BehindAnswer
        /\ toClient[1].flag # FLAG_FILENAME_ERROR => Served

\* The transfer that follows is one without a loss.
FileComes == phase = "RECEIVE_DATA" => T!NoLossInv /\ Served

UnharmedInv ==
    Unharmed =>
        /\ rcv # "ABORTED"
        /\ Listening => OneToHear /\ AnswerFirst /\ FileComes

\* Unless the listener is killed over a request, the first request is
\* answered.
HeardInv ==
    faults = 0 /\ "listener" \notin crashes =>
        /\ phase = "SEND_FILENAME" => requests = 1 /\ listener # "KILLED"
        /\ phase = "POLL" => Pending \/ toClient # <<>>
        /\ phase = "DONE" => "rcopy" \in crashes

\* Losses and crashes are never taken back.
LEMMA HarmStays ==
    ASSUME SessionInv, PromptInv, OnlyLost, [PromptNext]_vars
    PROVE  faults' >= faults /\ crashes \subseteq crashes'
<1>1. faults \in Nat /\ toListener \in Seq(ToServer)
    BY DEF SessionInv, QueuesOK
<1>2. CASE PromptChildA
    <2>1. A!ServerNext /\ UNCHANGED crashes
        BY <1>2 DEF PromptChildA, ChildANext, A!ServerNext
    <2> QED BY <1>1, <2>1, ChildAIsChild, AP!FaultsKept, PayloadAssumption, SizeAssumption,
            SessionAssumption
<1>3. CASE PromptChildB
    <2>1. B!ServerNext /\ UNCHANGED crashes
        BY <1>3 DEF PromptChildB, ChildBNext, B!ServerNext
    <2> QED BY <1>1, <2>1, ChildBIsChild, BP!FaultsKept, PayloadAssumption, SizeAssumption,
            SessionAssumption
<1>4. CASE ListenerNext \/ FileRefused
    <2>1. /\ crashes \subseteq crashes'
          /\ (\E p : Parent!SendToClient(p)) \/ Parent!Fork
        BY <1>4, ListenerActs
    <2>2. CASE \E p : Parent!SendToClient(p)
        BY <1>1, <2>1, <2>2 DEF Parent!SendToClient, Parent!Cost
    <2>3. CASE Parent!Fork
        BY <1>1, <2>1, <2>3 DEF Parent!Fork, Parent!netVars
    <2> QED BY <2>1, <2>2, <2>3
<1>5. CASE ClientStep /\ phase = "RECEIVE_DATA"
    <2>1. UNCHANGED crashes /\ (ReceiveA!ClientStep \/ ReceiveB!ClientStep)
        BY <1>5, ReceivingMoves
    <2>2. AP!ClientNext \/ BP!ClientNext
        BY <2>1, RcopyAIsRcopy, RcopyBIsRcopy DEF AP!ClientNext, BP!ClientNext
    <2> QED BY <1>1, <2>1, <2>2, AP!FaultsKept, BP!FaultsKept, PayloadAssumption,
            SizeAssumption, SessionAssumption
<1>6. CASE ClientStep /\ phase # "RECEIVE_DATA"
    <2>1. /\ UNCHANGED crashes
          /\ ExchangeL!send_filename \/ ExchangeL!OutOfRequests \/ UNCHANGED faults
        BY <1>6, AskingMoves
    <2> QED BY <1>1, <2>1 DEF ExchangeL!send_filename, ExchangeL!SendToServer,
            ExchangeL!Cost, ExchangeL!OutOfRequests, ExchangeL!netVars
<1>7. CASE RequestTimeout \/ DataTimeout \/ UNCHANGED vars
    BY <1>1, <1>7 DEF RequestTimeout, DataTimeout, ExchangeL!NoAnswer, ExchangeL!netVars,
        ReceiveL!ClientTimeout, ReceiveL!netVars, vars, queueVars
<1>8. CASE Misfortune /\ ~FileRefused
    BY <1>1, <1>8 DEF Misfortune, KillListener, ForkFailure, RestartListener, KillChildA,
        KillChildB, KillClient, Parent!Kill, Parent!ForkFailure, Parent!Restart,
        Parent!netVars, queueVars, Crash
<1> QED BY <1>2, <1>3, <1>4, <1>5, <1>6, <1>7, <1>8 DEF PromptNext, PromptClient, Misfortune,
        Idle

\* So what is without harm has been so.
LEMMA UnharmedBefore ==
    ASSUME SessionInv, PromptInv, OnlyLost, [PromptNext]_vars
    PROVE  /\ Unharmed' => Unharmed
           /\ faults' = 0 => faults = 0
           /\ "listener" \notin crashes' => "listener" \notin crashes
<1>1. faults \in Nat /\ faults' >= faults /\ crashes \subseteq crashes'
    BY HarmStays DEF SessionInv, QueuesOK
<1> QED BY <1>1 DEF Unharmed

\* An answer of the listener is the one packet of rcopy's queue, or it was lost.
LEMMA AnswerOrLoss ==
    ASSUME SessionInv, PromptInv, OnlyLost, SentBy("listener"), Asking,
           Parent!NextPacket(Head(toListener)),
           NEW p \in ToClient, Parent!SendToClient(p)
    PROVE  /\ NobodyRuns /\ toClient = <<>>
           /\ \/ toClient' = <<p>> /\ origins' = <<"listener">>
              \/ toClient' = <<>> /\ origins' = <<>> /\ faults' = faults + 1
<1>1. /\ AskingInv /\ ListenerInv
      /\ faults \in Nat /\ QueueCap \in Nat \ {0}
      /\ origins \in Seq(Senders) /\ Len(origins) = Len(toClient)
    BY SessionAssumption DEF SessionInv, PromptInv, TypeOK, QueuesOK
<1>2. Pending
    BY DEF Parent!NextPacket, Pending
<1>3. toClient = <<>> /\ NobodyRuns
    BY <1>1, <1>2 DEF AskingInv, ListenerInv, BeingServed
<1>4. origins = <<>>
    BY <1>1, <1>3
<1>5. LP!SendToClient(p)
    BY DEF Parent!SendToClient, LP!SendToClient, Parent!Put, LP!Put, Parent!Cost, LP!Cost,
        Parent!Fates, LP!Fates, Parent!Corrupted, LP!Corrupted, Parent!build_packet,
        LP!build_packet
<1>6. /\ toClient' = toClient \/ toClient' = Append(toClient, p)
      /\ toClient = <<>> /\ toClient' = <<>> => faults' = faults + 1
    BY <1>1, <1>5, LP!SentOrLost, PayloadAssumption, SizeAssumption, SessionAssumption
    DEF OnlyLost
<1>7. CASE toClient' = toClient
    BY <1>3, <1>4, <1>6, <1>7 DEF SentBy
<1>8. CASE toClient' = Append(toClient, p)
    <2>1. toClient' = <<p>>
        BY <1>3, <1>8
    <2>2. <<p>> # <<>>
        OBVIOUS
    <2>3. origins' = Append(<<>>, "listener")
        BY <1>3, <1>4, <2>1, <2>2 DEF SentBy
    <2> QED BY <1>3, <2>1, <2>3
<1> QED BY <1>6, <1>7, <1>8

\* An answer of the listener that is not lost is the one packet of rcopy's
\* queue.
LEMMA AnswerArrives ==
    ASSUME SessionInv, PromptInv, OnlyLost, SentBy("listener"), Asking,
           Parent!NextPacket(Head(toListener)),
           NEW p \in ToClient, Parent!SendToClient(p), faults = 0, faults' = 0
    PROVE  toClient' = <<p>> /\ origins' = <<"listener">> /\ NobodyRuns
<1>1. faults' # faults + 1
    OBVIOUS
<1> QED BY <1>1, AnswerOrLoss

\* The first request is answered, or the listener is killed over it.
LEMMA HeardNext ==
    ASSUME SessionInv, SessionInv', PromptInv, HeardInv, OnlyLost, [PromptNext]_vars
    PROVE  HeardInv'
<1> SUFFICES ASSUME faults' = 0, "listener" \notin crashes'
             PROVE  HeardInv'
    BY DEF HeardInv
<1>1. /\ TypeOK /\ QueuesOK /\ ListenerInv /\ AskingInv
      /\ faults = 0 /\ "listener" \notin crashes /\ crashes \subseteq crashes'
      /\ phase = "SEND_FILENAME" => requests = 1 /\ listener # "KILLED"
      /\ phase = "POLL" => Pending \/ toClient # <<>>
      /\ phase = "DONE" => "rcopy" \in crashes
    BY UnharmedBefore, HarmStays DEF HeardInv, SessionInv, PromptInv
\* Between an answer and its child the answer is on its way.
<1>2. listener = "FORK" => phase # "SEND_FILENAME" /\ (phase = "POLL" => toClient # <<>>)
    BY <1>1 DEF AskingInv, Asking, BeingServed
<1>3. CASE PromptChildA
    <2>1. /\ UNCHANGED <<phase, requests, listener, toListener, crashes>>
          /\ A!ServerNext /\ ChildAInv
        BY <1>3 DEF PromptChildA, ChildANext, clientVars, exchangeVars, listenerVars,
            A!ServerNext, SessionInv
    <2>2. toClient # <<>> => toClient' # <<>>
        <3>1. toClient' = toClient \/ \E p : toClient' = Append(toClient, p)
            BY <1>1, <2>1, ChildAMoves
        <3> QED BY <1>1, <3>1 DEF QueuesOK
    <2> QED BY <1>1, <2>1, <2>2 DEF HeardInv, Pending
<1>4. CASE PromptChildB
    <2>1. /\ UNCHANGED <<phase, requests, listener, toListener, crashes>>
          /\ B!ServerNext /\ ChildBInv
        BY <1>4 DEF PromptChildB, ChildBNext, clientVars, exchangeVars, listenerVars,
            B!ServerNext, SessionInv
    <2>2. toClient # <<>> => toClient' # <<>>
        <3>1. toClient' = toClient \/ \E p : toClient' = Append(toClient, p)
            BY <1>1, <2>1, ChildBMoves
        <3> QED BY <1>1, <3>1 DEF QueuesOK
    <2> QED BY <1>1, <2>1, <2>2 DEF HeardInv, Pending
<1>5. CASE ListenerNext \/ FileRefused
    <2>1. UNCHANGED <<phase, requests>> /\ SentBy("listener")
        BY <1>5 DEF ListenerNext, FileRefused, clientVars, exchangeVars
    <2>2. CASE Parent!Fork
        BY <1>1, <1>2, <2>1, <2>2 DEF HeardInv, Parent!Fork, Parent!netVars
    <2>3. CASE /\ Parent!NextPacket(Head(toListener))
               /\ \E p \in ToClient : Parent!SendToClient(p)
        <3>1. phase # "SEND_FILENAME"
            BY <1>1, <2>3 DEF Parent!NextPacket, AskingInv, Asking, BeingServed, Pending
        <3>2. phase = "POLL" => toClient' # <<>>
            <4> SUFFICES ASSUME phase = "POLL"
                         PROVE  toClient' # <<>>
                OBVIOUS
            <4>1. PICK p \in ToClient : Parent!SendToClient(p)
                BY <2>3
            <4>2. toClient' = <<p>>
                BY <1>1, <2>1, <2>3, <4>1, AnswerArrives DEF Asking
            <4>3. <<p>> # <<>>
                OBVIOUS
            <4> QED BY <4>2, <4>3
        <3> QED BY <1>1, <2>1, <3>1, <3>2 DEF HeardInv
    <2> QED BY <1>5, <2>2, <2>3, ListenerActs
<1>6. CASE ClientStep /\ phase = "RECEIVE_DATA"
    BY <1>6, ReceivingMoves DEF HeardInv
<1>7. CASE ClientStep /\ phase # "RECEIVE_DATA"
    <2>1. /\ UNCHANGED <<listener, crashes>>
          /\ \/ phase' \in {"RECEIVE_DATA", "NO_FILE"}
             \/ /\ phase = "SEND_FILENAME"
                /\ ExchangeL!send_filename \/ ExchangeL!OutOfRequests
        BY <1>7, AskingMoves
    <2>2. CASE phase' \in {"RECEIVE_DATA", "NO_FILE"}
        BY <2>2 DEF HeardInv
    <2>3. CASE phase = "SEND_FILENAME" /\ ExchangeL!OutOfRequests
        BY <1>1, <2>3, SessionAssumption DEF ExchangeL!OutOfRequests
    <2>4. CASE phase = "SEND_FILENAME" /\ ExchangeL!send_filename
        <3>1. phase' = "POLL" /\ ExchangeL!SendToServer(ExchangeL!Request)
            BY <2>4 DEF ExchangeL!send_filename
        <3>2. toListener = <<>>
            BY <1>1, <2>4 DEF AskingInv, Asking, BeingServed, Pending
        <3>3. toListener' = Append(<<>>, ExchangeL!Request)
            <4>1. PICK fate \in ExchangeL!Fates(ClientErrors) :
                    /\ faults' = faults + ExchangeL!Cost(fate)
                    /\ toListener' = ExchangeL!Put(toListener, fate, ExchangeL!Request)
                BY <3>1 DEF ExchangeL!SendToServer
            <4>2. fate = "sent"
                BY <1>1, <4>1 DEF ExchangeL!Cost
            <4>3. Len(<<>>) = 0 /\ ~(0 >= QueueCap)
                BY SessionAssumption
            <4> QED BY <3>2, <4>1, <4>2, <4>3 DEF ExchangeL!Put
        <3>4. Append(<<>>, ExchangeL!Request) # <<>>
            OBVIOUS
        <3>5. Pending'
            BY <1>1, <2>1, <2>4, <3>3, <3>4 DEF Pending
        <3> QED BY <3>1, <3>5 DEF HeardInv
    <2> QED BY <2>1, <2>2, <2>3, <2>4
\* rcopy's poll cannot end: an answer is there, or on its way.
<1>8. CASE RequestTimeout /\ ListenerWaiting
    <2>1. Pending
        BY <1>1, <1>8 DEF RequestTimeout, ExchangeL!NoAnswer
    <2> QED BY <1>1, <1>8, <2>1 DEF ListenerWaiting, ListenerGone, Pending, ListenerInv
<1>9. CASE DataTimeout
    BY <1>9 DEF DataTimeout, exchangeVars, HeardInv
<1>10. CASE KillListener \/ ForkFailure \/ RestartListener
    <2>1. UNCHANGED <<phase, requests, toClient>>
        BY <1>10 DEF KillListener, ForkFailure, RestartListener, Parent!Kill,
            Parent!ForkFailure, Parent!Restart, Parent!netVars, clientVars, exchangeVars
    <2>2. CASE KillListener \/ ForkFailure
        <3>1. listener = "FORK"
            BY <1>1, <2>2 DEF KillListener, Crash, ForkFailure, Parent!ForkFailure
        <3> QED BY <1>1, <1>2, <2>1, <3>1 DEF HeardInv
    <2>3. CASE RestartListener
        <3>1. listener = "KILLED" /\ listener' = "LISTEN"
            BY <1>1, <2>3 DEF RestartListener, Parent!Restart, ListenerInv
        <3> QED BY <1>1, <2>1, <3>1 DEF HeardInv, Pending
    <2> QED BY <1>10, <2>2, <2>3
<1>11. CASE KillChildA \/ KillChildB
    BY <1>1, <1>11 DEF KillChildA, KillChildB, clientVars, exchangeVars, listenerVars, queueVars,
        HeardInv, Pending
<1>12. CASE KillClient
    BY <1>12 DEF KillClient, Crash, HeardInv
<1>13. CASE UNCHANGED vars
    BY <1>1, <1>13 DEF vars, clientVars, exchangeVars, listenerVars, queueVars, HeardInv, Pending
<1> QED BY <1>3, <1>4, <1>5, <1>6, <1>7, <1>8, <1>9, <1>10, <1>11, <1>12, <1>13
        DEF PromptNext, PromptClient, Misfortune, Idle

\* While the first child lives it is the one that serves.
LEMMA FirstChildServes ==
    ASSUME SessionInv, PromptInv, "A" \notin crashes
    PROVE  /\ srvB = Unborn /\ srvA # Killed /\ Serving = "A"
           /\ servWindow = windowA /\ servFilePos = filePosA /\ servAttempts = attemptsA
           /\ servQueue = toA
           /\ servPlace = IF srvA = Unborn THEN "SEND_DATA" ELSE srvA
<1>1. srvA # Killed
    BY DEF PromptInv, BirthInv
<1>2. srvB = Unborn
    BY <1>1, OneServes
<1> QED BY <1>1, <1>2 DEF servWindow, servFilePos, servAttempts, servQueue, servPlace, PlaceOf,
        Serving

\* The same after a step.
LEMMA FirstChildServesNext ==
    ASSUME SessionInv', PromptInv', "A" \notin crashes'
    PROVE  /\ srvB' = Unborn /\ srvA' # Killed /\ Serving' = "A"
           /\ servWindow' = windowA' /\ servFilePos' = filePosA' /\ servAttempts' = attemptsA'
           /\ servQueue' = toA'
           /\ servPlace' = IF srvA' = Unborn THEN "SEND_DATA" ELSE srvA'
<1>1. srvA' # Killed
    BY DEF PromptInv, BirthInv
<1>2. srvB' = Unborn
    <2>1. children' \in 0..2
        BY SessionAssumption DEF SessionInv, TypeOK, Parent!ListenerTypeOK
    <2> QED BY <1>1, <2>1 DEF SessionInv, PromptInv, ForkInv, BirthInv
<1> QED BY <1>1, <1>2 DEF servWindow, servFilePos, servAttempts, servQueue, servPlace, PlaceOf,
        Serving

\* While nothing has harmed the first child it is the one that serves.
LEMMA AliveAlone ==
    ASSUME SessionInv, PromptInv, Unharmed
    PROVE  /\ srvB = Unborn /\ srvA # Killed /\ Serving = "A"
           /\ servWindow = windowA /\ servFilePos = filePosA /\ servAttempts = attemptsA
           /\ servQueue = toA
           /\ servPlace = IF srvA = Unborn THEN "SEND_DATA" ELSE srvA
BY FirstChildServes DEF Unharmed

\* The same after a step.
LEMMA AliveAloneNext ==
    ASSUME SessionInv', PromptInv', Unharmed'
    PROVE  /\ srvB' = Unborn /\ srvA' # Killed /\ Serving' = "A"
           /\ servWindow' = windowA' /\ servFilePos' = filePosA' /\ servAttempts' = attemptsA'
           /\ servQueue' = toA'
           /\ servPlace' = IF srvA' = Unborn THEN "SEND_DATA" ELSE srvA'
BY FirstChildServesNext DEF Unharmed

\* The view of the transfer does not change, but for what is on its way to
\* rcopy.
ViewSame == UNCHANGED <<servWindow, servFilePos, servPlace, servAttempts, servQueue,
                        buffer, rcv, out>>

LEMMA ViewType ==
    ASSUME T!TypeOK, ViewSame, servData' \in Seq(T!ClientBound), faults' \in Nat
    PROVE  T!TypeOK'
BY DEF ViewSame, T!TypeOK, T!ServerTypeOK, T!RcopyTypeOK

LEMMA ViewStays ==
    ASSUME ViewSame, servData' = servData, faults' = faults
    PROVE  /\ T!TypeOK => T!TypeOK'
           /\ T!BehindAnswer => T!BehindAnswer'
           /\ T!NoLossInv => T!NoLossInv'
<1>1. T!TypeOK => T!TypeOK'
    BY DEF ViewSame, T!TypeOK, T!ServerTypeOK, T!RcopyTypeOK
<1>2. T!UnderWay' = T!UnderWay
    BY DEF ViewSame, T!UnderWay
<1>3. T!BehindAnswer => T!BehindAnswer'
    BY <1>2 DEF ViewSame, T!BehindAnswer
<1>4. T!NoLossInv => T!NoLossInv'
    BY <1>2 DEF ViewSame, T!NoLossInv, T!InSequence, T!Acknowledged, T!Conserved
<1> QED BY <1>1, <1>3, <1>4

\* What SessionInv, PromptInv and UnharmedInv say of a rcopy that waits.
LEMMA WhileListening ==
    ASSUME SessionInv, PromptInv, UnharmedInv, Unharmed, Listening
    PROVE  /\ OneToHear /\ AnswerFirst /\ FileComes
           /\ TypeOK /\ QueuesOK /\ ListenerInv /\ BirthInv /\ AskingInv /\ ReceivingInv
           /\ faults = 0
           /\ toClient \in Seq(ToClient) /\ origins \in Seq(Senders)
           /\ Len(origins) = Len(toClient)
           /\ servPlace \notin T!Stopped
           /\ phase = "RECEIVE_DATA" => T!NoLoss
<1>1. /\ OneToHear /\ AnswerFirst /\ FileComes
      /\ TypeOK /\ QueuesOK /\ ListenerInv /\ BirthInv /\ AskingInv /\ ReceivingInv
      /\ faults = 0 /\ rcv \notin ReceiveL!Gone
      /\ toClient \in Seq(ToClient) /\ origins \in Seq(Senders)
      /\ Len(origins) = Len(toClient)
    BY DEF UnharmedInv, SessionInv, PromptInv, TypeOK, QueuesOK, Unharmed, Listening
<1>2. servPlace \notin T!Stopped
    BY <1>1, AliveAlone DEF OneToHear, T!Stopped, A!Stopped
<1>3. ASSUME phase = "RECEIVE_DATA"
      PROVE  T!NoLoss
    BY <1>1, <1>2, <1>3 DEF FileComes, T!NoLossInv, T!NoLoss, T!Gone, ReceiveL!Gone
<1> QED BY <1>1, <1>2, <1>3

\* What the first child sends rcopy is what it waits for, and the child does
\* not stop.
LEMMA UnharmedChild ==
    ASSUME SessionInv, SessionInv', PromptInv, PromptInv', UnharmedInv, OnlyLost, RoomForAnswer,
           Unharmed, Unharmed', PromptChildA
    PROVE  UnharmedInv'
<1>1. /\ A!ServerNext /\ SentBy("A") /\ ChildAInv /\ QueuesOK
      /\ A!ServerStep \/ (A!ServerTimeout /\ ClientWaiting)
      /\ UNCHANGED <<phase, buffer, rcv, out, peer, listener, srvB>>
    BY DEF SessionInv, PromptChildA, ChildANext, clientVars, exchangeVars, receiveVars,
        listenerVars, childBVars, A!ServerNext
<1> SUFFICES ASSUME Listening
             PROVE  OneToHear' /\ AnswerFirst' /\ FileComes'
    BY <1>1 DEF UnharmedInv, Listening, Underway
<1>2. /\ OneToHear /\ AnswerFirst /\ FileComes
      /\ AskingInv /\ faults = 0 /\ faults' = 0
      /\ toClient \in Seq(ToClient) /\ origins \in Seq(Senders)
      /\ Len(origins) = Len(toClient)
      /\ servPlace \notin T!Stopped
      /\ phase = "RECEIVE_DATA" => T!NoLoss
    BY WhileListening DEF Unharmed
<1>3. /\ srvA' \in A!ServerStates /\ srvA # Unborn
      /\ toClient' \in Seq(ToClient)
      /\ toClient' = toClient \/ \E p : toClient' = Append(toClient, p)
    BY <1>1, ChildAMoves
<1>4. /\ srvB = Unborn /\ servPlace = srvA
      /\ servPlace' = srvA' /\ srvA' # Unborn /\ srvA # Killed
    BY <1>3, AliveAlone, AliveAloneNext DEF A!ServerStates, A!EofStates, A!Stopped, Unborn
<1>5. /\ T!AServerNext
      /\ A!ServerStep => T!ServerStep
      /\ A!ServerTimeout => T!ServerTimeout
    BY <1>1, <1>4, ServedByA
<1>6. T!TypeOK'
    BY <1>2, <1>5, T!ServerNextType, PayloadAssumption, SizeAssumption, SessionAssumption
    DEF OneToHear
<1>7. /\ origins' = origins \/ origins' = Append(origins, "A")
      /\ \A i \in 1..Len(origins') : origins'[i] \in {"listener", "A"}
    <2>1. origins' = origins \/ origins' = Append(origins, "A")
        BY <1>1, <1>3, OriginsOfStep DEF Senders
    <2> QED BY <1>2, <2>1 DEF OneToHear
<1>8. CASE Asking
    <2>1. toClient # <<>>
        BY <1>2, <1>3, <1>4, <1>8, SizeAssumption DEF AskingInv, Unanswered, BirthInv,
            SessionInv, ChildAInv, ChildInv
    <2>2. A!ServerStep
        <3>1. ClientWaiting => toClient = <<>>
            BY <1>2, <1>8 DEF ClientWaiting, ClientGone, AskingInv, Asking, ReceiveL!Gone
        <3> QED BY <1>1, <2>1, <3>1
    <2>3. T!BehindAnswer' /\ servPlace' \notin T!Stopped
        <3>1. T!BehindAnswer /\ T!TypeOK /\ BufferSize < QueueCap /\ UNCHANGED T!rcopyVars
            BY <1>1, <1>2, <1>8, <2>1 DEF AnswerFirst, OneToHear, RoomForAnswer, T!rcopyVars
        <3> QED BY <1>2, <1>5, <2>2, <3>1, T!BehindAnswerStep, PayloadAssumption, SizeAssumption,
                SessionAssumption
    <2>4. origins'[1] = origins[1] /\ toClient'[1] = toClient[1]
        <3>1. 1 \in 1..Len(toClient) /\ 1 \in 1..Len(origins)
            BY <1>2, <2>1
        <3>2. origins'[1] = origins[1]
            BY <1>2, <1>7, <3>1
        <3>3. toClient'[1] = toClient[1]
            BY <1>2, <1>3, <3>1
        <3> QED BY <3>2, <3>3
    <2>5. AnswerFirst'
        BY <1>2, <1>4, <1>8, <2>1, <2>3, <2>4 DEF AnswerFirst, Served
    <2>6. OneToHear'
        BY <1>1, <1>2, <1>4, <1>6, <1>7, <2>3 DEF OneToHear, T!Stopped, A!Stopped
    <2>7. FileComes'
        BY <1>1, <1>8 DEF FileComes, Asking
    <2> QED BY <2>5, <2>6, <2>7
<1>9. CASE phase = "RECEIVE_DATA"
    <2>1. T!NoLoss /\ T!NoLossInv /\ T!TypeOK
        BY <1>2, <1>9 DEF FileComes, OneToHear
    \* The child has no time-out while rcopy waits.
    <2>2. T!ServerStep
        <3> SUFFICES ASSUME A!ServerTimeout, ClientWaiting
                     PROVE  FALSE
            BY <1>1, <1>5
        <3>1. T!ServerPolls
            BY <1>5 DEF T!ServerTimeout, T!FullTimeout, T!EofTimeout, T!ServerPolls
        <3>2. toClient = <<>> /\ rcv \in ReceiveL!Receiving
            BY <1>9 DEF Listening, ClientWaiting, ClientGone
        <3>3. T!ClientPolls
            BY <3>2 DEF T!ClientPolls, servData, T!Receiving, ReceiveL!Receiving
        <3> QED BY <2>1, <3>1, <3>3, T!NotBothPoll, PayloadAssumption, SizeAssumption,
                SessionAssumption
    <2>3. T!RoomForWindow /\ T!ShortLag /\ T!ClockInv /\ T!TimedServer
        <3>1. BufferSize \in Nat /\ QueueCap \in Nat
            BY SizeAssumption, SessionAssumption
        <3> QED BY <1>5, <2>2, <3>1 DEF RoomForAnswer, T!RoomForWindow, T!ShortLag, T!ClockInv,
                T!TimedServer, T!AServerNext
    <2>4. servPlace' \notin T!Stopped
        BY <2>1, <2>2, <2>3, T!StaysWithoutLoss, PayloadAssumption, SizeAssumption,
            SessionAssumption
    <2>5. T!NoLossInv'
        BY <1>5, <2>1, <2>3, T!ServerWithoutLoss, PayloadAssumption, SizeAssumption,
            SessionAssumption
    <2>6. OneToHear'
        BY <1>1, <1>2, <1>4, <1>6, <1>7, <2>4 DEF OneToHear, T!Stopped, A!Stopped
    <2>7. AnswerFirst'
        BY <1>1, <1>9 DEF AnswerFirst, Asking
    <2>8. FileComes'
        BY <1>2, <1>4, <1>9, <2>5 DEF FileComes, Served
    <2> QED BY <2>6, <2>7, <2>8
<1> QED BY <1>8, <1>9 DEF Listening, Underway, Asking

\* The answer of the listener is the first packet that rcopy gets, and a new
\* child finds rcopy waiting for the file.
LEMMA UnharmedListener ==
    ASSUME SessionInv, SessionInv', PromptInv, PromptInv', UnharmedInv, OnlyLost, RoomForAnswer,
           Unharmed, Unharmed', ListenerNext \/ FileRefused
    PROVE  UnharmedInv'
<1>1. /\ UNCHANGED <<phase, rcv, buffer, out, peer, toA, toB, windowA, filePosA, attemptsA>>
      /\ SentBy("listener")
      /\ \/ /\ Parent!NextPacket(Head(toListener))
            /\ \E p \in ToClient :
                   /\ p.flag \in {FLAG_FILENAME_ACK, FLAG_FILENAME_ERROR}
                   /\ Parent!SendToClient(p)
                   /\ p.flag = FLAG_FILENAME_ACK => listener' = "FORK"
            /\ UNCHANGED srvA
         \/ /\ Parent!Fork
            /\ srvA' = Forked(1, srvA)
            /\ UNCHANGED origins
    BY ListenerActs
<1> SUFFICES ASSUME Listening
             PROVE  OneToHear' /\ AnswerFirst' /\ FileComes'
    BY <1>1 DEF UnharmedInv, Listening, Underway
<1>2. /\ OneToHear /\ AnswerFirst /\ FileComes
      /\ TypeOK /\ ListenerInv /\ BirthInv /\ AskingInv /\ ReceivingInv
      /\ faults = 0 /\ faults' = 0
      /\ toClient \in Seq(ToClient) /\ origins \in Seq(Senders)
      /\ Len(origins) = Len(toClient)
    BY WhileListening DEF Unharmed
<1>3. CASE Parent!Fork
    <2>1. /\ listener = "FORK" /\ UNCHANGED <<toClient, faults>>
          /\ children \in 0..MaxChildren /\ children < MaxChildren /\ children' = children + 1
        BY <1>2, <1>3 DEF Parent!Fork, Parent!netVars, TypeOK, Parent!ListenerTypeOK
    <2>2. UNCHANGED origins /\ srvA' = Forked(1, srvA)
        BY <1>1, <1>3, <2>1 DEF SentBy, Parent!Fork, Parent!NextPacket
    <2>3. srvA = Unborn /\ srvA' = "SEND_DATA"
        <3>1. srvA = Unborn
            BY <1>2, <2>1, AliveAlone DEF ListenerInv, BeingServed, NobodyRuns
        <3>2. children = 0
            BY <1>2, <2>1, <3>1, SessionAssumption DEF BirthInv
        <3> QED BY <2>1, <2>2, <3>1, <3>2 DEF Forked
    <2>4. ViewSame /\ servData' = servData
        <3>1. servPlace = "SEND_DATA" /\ servPlace' = "SEND_DATA"
            BY <2>3, AliveAlone, AliveAloneNext
        <3>2. servData' = servData
            BY <2>1, <2>2 DEF servData, Corrupted, build_packet
        <3> QED BY <1>1, <3>1, <3>2, AliveAlone, AliveAloneNext DEF ViewSame
    <2>5. /\ T!TypeOK => T!TypeOK'
          /\ T!BehindAnswer => T!BehindAnswer'
          /\ T!NoLossInv => T!NoLossInv'
        BY <1>2, <2>4, ViewStays
    <2>6. srvA' \notin A!Stopped /\ Served'
        BY <2>3 DEF A!Stopped, Served, Unborn
    <2> QED BY <1>1, <1>2, <2>1, <2>2, <2>5, <2>6
            DEF OneToHear, AnswerFirst, FileComes, Asking
<1>4. CASE Parent!NextPacket(Head(toListener)) /\ ~Parent!Fork
    <2>1. PICK p \in ToClient :
            /\ p.flag \in {FLAG_FILENAME_ACK, FLAG_FILENAME_ERROR}
            /\ Parent!SendToClient(p)
            /\ p.flag = FLAG_FILENAME_ACK => listener' = "FORK"
        BY <1>1, <1>4
    <2>2. Asking
        BY <1>2, <1>4 DEF Listening, Underway, Asking, ReceivingInv, Pending, Parent!NextPacket
    <2>3. toClient' = <<p>> /\ origins' = <<"listener">> /\ srvA = Unborn /\ srvA' = Unborn
        <3>1. toClient' = <<p>> /\ origins' = <<"listener">> /\ NobodyRuns
            BY <1>1, <1>2, <1>4, <2>1, <2>2, AnswerArrives
        <3> QED BY <1>1, <1>4, <3>1, AliveAlone DEF NobodyRuns
    <2>4. ViewSame /\ servPlace' = "SEND_DATA" /\ servQueue' = <<>>
        <3>1. servPlace = "SEND_DATA" /\ servPlace' = "SEND_DATA"
            BY <2>3, AliveAlone, AliveAloneNext
        <3> QED BY <1>1, <1>2, <2>2, <3>1, AliveAlone, AliveAloneNext DEF ViewSame, AskingInv
    <2>5. servData' = <<Corrupted>>
        <3>1. <<p>> # <<>> /\ origins'[1] = "listener"
            BY <2>3
        <3>2. servData' = [<<p>> EXCEPT ![1] = Corrupted]
            BY <2>3, <3>1 DEF servData, Corrupted, build_packet
        <3> QED BY <3>2
    <2>6. T!TypeOK'
        <3>1. Corrupted \in T!ClientBound
            BY DEF T!ClientBound, T!Corrupted, T!build_packet, Corrupted, build_packet
        <3>2. <<Corrupted>> \in Seq(T!ClientBound)
            BY <3>1
        <3> QED BY <1>2, <2>4, <2>5, <3>2, ViewType DEF OneToHear
    <2>7. T!BehindAnswer'
        <3>1. /\ rcv' = "INORDER" /\ buffer'.current = 0
              /\ servWindow' = buffer_init(BufferSize) /\ servFilePos' = 0
            BY <1>1, <1>2, <2>2, <2>3, AliveAloneNext DEF AskingInv, BirthInv, buffer_init
        <3>2. /\ servWindow'.lowest = 0 /\ servWindow'.highest = BufferSize
              /\ servWindow'.current = 0
            BY <3>1 DEF buffer_init
        <3>3. /\ servData' # <<>> /\ Len(servData') = 1
            BY <2>5
        <3>4. servPlace' \notin T!EofStates
            BY <2>4 DEF T!EofStates
        <3>5. BufferSize \in Nat
            BY SizeAssumption
        <3> QED BY <2>4, <3>1, <3>2, <3>3, <3>4, <3>5 DEF T!BehindAnswer
    <2>8. \A i \in 1..Len(origins') : origins'[i] \in {"listener", "A"}
        <3>1. Len(<<"listener">>) = 1 /\ <<"listener">>[1] = "listener"
            OBVIOUS
        <3> QED BY <2>3, <3>1
    <2>9. OneToHear'
        BY <1>1, <1>2, <2>3, <2>6, <2>8 DEF OneToHear, A!Stopped, Unborn
    <2>10. AnswerFirst'
        BY <2>1, <2>3, <2>7 DEF AnswerFirst, Served
    <2>11. FileComes'
        BY <1>1, <2>2 DEF FileComes, Asking
    <2> QED BY <2>9, <2>10, <2>11
<1> QED BY <1>1, <1>3, <1>4

\* When rcopy has read the answer, what is left is a transfer without a loss.
LEMMA UnharmedAsks ==
    ASSUME SessionInv, SessionInv', PromptInv, PromptInv', UnharmedInv, OnlyLost, RoomForAnswer,
           Unharmed, Unharmed', ClientStep, phase # "RECEIVE_DATA"
    PROVE  UnharmedInv'
<1>1. /\ UNCHANGED <<rcv, buffer, out, listener, toA, toB,
                     windowA, filePosA, srvA, windowB, filePosB, srvB>>
      /\ \/ /\ phase = "SEND_FILENAME"
            /\ ExchangeL!send_filename \/ ExchangeL!OutOfRequests
            /\ UNCHANGED <<toClient, origins, peer>>
         \/ /\ phase = "POLL" /\ phase' \in {"RECEIVE_DATA", "NO_FILE"}
            /\ phase' = "RECEIVE_DATA" => toClient[1].flag # FLAG_FILENAME_ERROR
            /\ toClient # <<>> /\ toClient' = Tail(toClient)
            /\ origins # <<>> /\ origins' = Tail(origins) /\ peer' = origins[1]
    BY AskingMoves
<1>2. Asking /\ UNCHANGED attemptsA
    BY <1>1 DEF Asking, ClientStep, childAVars
<1>3. AskingInv
    BY DEF PromptInv
<1>4. rcv \notin ReceiveL!Gone /\ rcv' # "ABORTED"
    BY <1>1, <1>2, <1>3 DEF AskingInv, ReceiveL!Gone
<1> SUFFICES ASSUME Listening'
             PROVE  OneToHear' /\ AnswerFirst' /\ FileComes'
    BY <1>4 DEF UnharmedInv
<1>5. Listening
    BY <1>2, <1>4 DEF Listening, Underway, Asking
<1>6. /\ OneToHear /\ AnswerFirst
      /\ faults = 0 /\ faults' = 0
      /\ toClient \in Seq(ToClient) /\ origins \in Seq(Senders)
      /\ Len(origins) = Len(toClient)
    BY <1>5, WhileListening DEF Unharmed
<1>7. ViewSame
    BY <1>1, <1>2, AliveAlone, AliveAloneNext DEF ViewSame
<1>8. CASE phase = "SEND_FILENAME"
    <2>1. UNCHANGED <<toClient, origins, peer>>
        BY <1>1, <1>8
    <2>2. phase' = "POLL"
        BY <1>1, <1>8 DEF ExchangeL!send_filename, ExchangeL!OutOfRequests, Listening, Underway
    <2>3. toClient = <<>>
        BY <1>2, <1>3, <1>8 DEF AskingInv
    <2>4. T!TypeOK'
        BY <1>6, <1>7, <2>1, ViewStays DEF OneToHear, servData, Corrupted, build_packet
    <2> QED BY <1>1, <1>6, <2>1, <2>2, <2>3, <2>4 DEF OneToHear, AnswerFirst, FileComes
<1>9. CASE phase = "POLL"
    <2>1. /\ phase' = "RECEIVE_DATA" /\ toClient[1].flag # FLAG_FILENAME_ERROR
          /\ toClient # <<>> /\ toClient' = Tail(toClient)
          /\ origins # <<>> /\ origins' = Tail(origins) /\ peer' = origins[1]
        BY <1>1, <1>9 DEF Listening, Underway
    <2>2. T!BehindAnswer /\ origins[1] = "listener" /\ Served
        BY <1>2, <1>6, <2>1 DEF AnswerFirst
    <2>3. /\ Len(origins') = Len(origins) - 1
          /\ \A i \in 1..Len(origins') : origins'[i] = origins[i + 1] /\ i + 1 \in 2..Len(origins)
          /\ Len(origins') = Len(toClient') /\ toClient' \in Seq(ToClient)
        BY <1>6, <2>1
    <2>4. servData' = toClient'
        <3>1. \A i \in 1..Len(origins') : origins'[i] # "listener"
            BY <1>2, <1>3, <2>3 DEF AskingInv
        <3> QED BY <2>3, <3>1, DataSeenNext
    <2>5. servData' = Tail(servData)
        <3>1. servData = [toClient EXCEPT ![1] = Corrupted]
            BY <2>1, <2>2 DEF servData
        <3>2. /\ Len(servData) = Len(toClient) /\ servData \in Seq(ToClient)
              /\ \A i \in 2..Len(toClient) : servData[i] = toClient[i]
            BY <1>6, <2>1, <3>1, PacketTypes
        <3> QED BY <1>6, <2>1, <2>4, <3>2
    <2>6. T!NoLoss'
        <3>1. /\ T!TypeOK /\ BufferSize < QueueCap
              /\ UNCHANGED <<servWindow, servFilePos, servPlace, buffer, rcv, servQueue>>
              /\ 0 <= 0
            BY <1>6, <1>7 DEF OneToHear, RoomForAnswer, ViewSame
        <3> QED BY <2>2, <2>5, <3>1, T!AnswerTaken, PayloadAssumption, SizeAssumption,
                SessionAssumption
    <2>7. T!TypeOK'
        <3>1. servData \in Seq(T!ClientBound) /\ servData # <<>>
            BY <1>6, <2>2 DEF OneToHear, T!TypeOK, T!BehindAnswer
        <3>2. servData' \in Seq(T!ClientBound)
            BY <2>5, <3>1
        <3> QED BY <1>6, <1>7, <3>2, ViewType DEF OneToHear
    <2>8. OneToHear'
        BY <1>1, <1>6, <2>1, <2>2, <2>3, <2>7 DEF OneToHear
    <2>9. FileComes'
        BY <1>1, <2>2, <2>6 DEF FileComes, Served, T!NoLossInv, T!NoLoss
    <2> QED BY <2>1, <2>8, <2>9 DEF AnswerFirst, Asking
<1> QED BY <1>2, <1>8, <1>9 DEF Asking

\* rcopy takes what it expects, or the end of it.
LEMMA UnharmedHears ==
    ASSUME SessionInv, SessionInv', PromptInv, PromptInv', UnharmedInv, OnlyLost, RoomForAnswer,
           Unharmed, Unharmed', ClientStep, phase = "RECEIVE_DATA"
    PROVE  UnharmedInv'
<1>1. /\ phase' = phase /\ UNCHANGED <<listener, srvA>>
      /\ ReceiveA!ClientStep \/ ReceiveB!ClientStep
      /\ origins' = origins \/ (origins # <<>> /\ origins' = Tail(origins))
    BY ReceivingMoves
<1>2. rcv \notin ReceiveL!Gone /\ rcv' # "ABORTED"
    <2>1. AP!ClientStep \/ BP!ClientStep
        BY <1>1, RcopyAIsRcopy, RcopyBIsRcopy
    <2> QED BY <2>1 DEF ReceiveL!Gone,
            AP!ClientStep, AP!handle_inorder, AP!handle_buffer, AP!handle_flush,
            AP!DropCorrupted, AP!ExitTransfer, AP!WriteInorder, AP!GapFound, AP!FillGap,
            AP!StoreEarly, AP!AckAgain, AP!FlushEntry, AP!FlushEnd, AP!Accepted, AP!Received,
            AP!rcopyVars,
            BP!ClientStep, BP!handle_inorder, BP!handle_buffer, BP!handle_flush,
            BP!DropCorrupted, BP!ExitTransfer, BP!WriteInorder, BP!GapFound, BP!FillGap,
            BP!StoreEarly, BP!AckAgain, BP!FlushEntry, BP!FlushEnd, BP!Accepted, BP!Received,
            BP!rcopyVars
<1>3. Listening
    BY <1>2 DEF Listening, Underway
<1>4. /\ OneToHear /\ FileComes /\ origins \in Seq(Senders)
    BY <1>3, WhileListening
<1>5. T!AClientNext /\ T!ClientStep /\ peer' = "A"
    BY <1>4, AliveAlone, ServedReceives DEF OneToHear
<1>6. T!TypeOK'
    BY <1>4, <1>5, T!ClientNextType, PayloadAssumption, SizeAssumption, SessionAssumption
    DEF OneToHear
<1>7. T!NoLossInv'
    <2>1. T!RoomForWindow /\ T!TimedClient
        <3>1. BufferSize \in Nat /\ QueueCap \in Nat
            BY SizeAssumption, SessionAssumption
        <3> QED BY <1>5, <3>1 DEF RoomForAnswer, T!RoomForWindow, T!TimedClient, T!AClientNext
    <2> QED BY <1>4, <1>5, <2>1, T!ClientWithoutLoss, PayloadAssumption, SizeAssumption,
            SessionAssumption DEF OneToHear, FileComes
<1>8. \A i \in 1..Len(origins') : origins'[i] \in {"listener", "A"}
    BY <1>1, <1>4 DEF OneToHear
<1>9. OneToHear' /\ AnswerFirst' /\ FileComes'
    BY <1>1, <1>4, <1>5, <1>6, <1>7, <1>8 DEF OneToHear, AnswerFirst, Asking, FileComes, Served
<1> QED BY <1>2, <1>9 DEF UnharmedInv

\* The child that serves does not spin: its window is that of a transfer in
\* the sheltered setting.
LEMMA AliveSends ==
    ASSUME SessionInv, PromptInv, ServedInv, Listening, "A" \notin crashes
    PROVE  ~A!Spinning
<1>1. T!WindowInv /\ windowA \in CircularBuffer
    BY DEF ServedInv, Listening, T!RingInv, T!ShelteredInv, SessionInv, ChildAInv, ChildInv
<1>2. windowA.current <= windowA.highest
    BY <1>1, FirstChildServes DEF T!WindowInv
<1>3. windowA.current \in Nat /\ windowA.highest \in Nat
    BY <1>1 DEF CircularBuffer
<1> QED BY <1>2, <1>3 DEF A!Spinning

\* The request is repeated, or else there is no time-out: the child is alive.
LEMMA UnharmedTimeout ==
    ASSUME SessionInv, SessionInv', PromptInv, PromptInv', ServedInv, UnharmedInv,
           Unharmed, Unharmed',
           RequestTimeout \/ (DataTimeout /\ SilentA /\ listener # "FORK")
    PROVE  UnharmedInv'
<1>1. CASE DataTimeout /\ SilentA /\ listener # "FORK"
    <2>1. Listening
        BY <1>1 DEF DataTimeout, ReceiveL!ClientTimeout, ReceiveL!Receiving, ReceiveL!Gone,
            Listening, Underway
    <2>2. Served /\ srvA \notin A!Stopped /\ srvA # Killed
        BY <1>1, <2>1, WhileListening, AliveAlone DEF FileComes, DataTimeout, OneToHear
    <2>3. ~A!Spinning
        BY <2>1, AliveSends DEF Unharmed
    <2> QED BY <1>1, <2>2, <2>3 DEF SilentA, Served, NotRunning
<1>2. CASE RequestTimeout
    <2>1. /\ phase = "POLL" /\ phase' = "SEND_FILENAME" /\ toClient = <<>>
          /\ UNCHANGED <<toClient, faults, rcv, buffer, out, peer, origins, toA,
                         windowA, filePosA, srvA, attemptsA>>
        BY <1>2 DEF RequestTimeout, ExchangeL!NoAnswer, ExchangeL!netVars, receiveVars, childAVars
    <2>2. rcv' # "ABORTED"
        BY <2>1 DEF UnharmedInv
    <2>3. ASSUME Listening'
          PROVE  OneToHear' /\ AnswerFirst' /\ FileComes'
        <3>1. OneToHear
            BY <2>1, <2>3, WhileListening DEF Listening, Underway
        <3>2. ViewSame /\ servData' = servData
            BY <2>1, AliveAlone, AliveAloneNext DEF ViewSame, servData, Corrupted, build_packet
        <3>3. T!TypeOK'
            BY <2>1, <3>1, <3>2, ViewStays DEF OneToHear
        <3> QED BY <2>1, <3>1, <3>3 DEF OneToHear, AnswerFirst, FileComes
    <2> QED BY <2>2, <2>3 DEF UnharmedInv
<1> QED BY <1>1, <1>2

\* A kill of the listener between two requests, and its restart.
LEMMA UnharmedMisfortune ==
    ASSUME SessionInv, SessionInv', PromptInv, PromptInv', UnharmedInv, OnlyLost, RoomForAnswer,
           Unharmed, Unharmed', Misfortune
    PROVE  UnharmedInv'
<1>1. CASE FileRefused
    BY <1>1, UnharmedListener
<1>2. CASE KillClient
    BY <1>2 DEF KillClient, receiveVars, UnharmedInv, Listening, Underway
<1>3. CASE ForkFailure \/ KillChildA \/ KillChildB
    BY <1>3 DEF ForkFailure, KillChildA, KillChildB, Crash, Unharmed
<1>4. CASE KillListener \/ RestartListener
    <2>1. /\ listener # "FORK"
          /\ UNCHANGED <<phase, rcv, buffer, out, peer, toClient, origins, toA, faults,
                         windowA, filePosA, srvA, attemptsA>>
        BY <1>4 DEF KillListener, RestartListener, Parent!Kill, Parent!Restart, Parent!netVars,
            clientVars, exchangeVars, receiveVars, childAVars, Crash, Unharmed
    <2>2. Served => Served'
        BY <2>1 DEF Served
    <2>3. ASSUME Listening
          PROVE  OneToHear' /\ AnswerFirst' /\ FileComes'
        <3>1. OneToHear /\ AnswerFirst /\ FileComes
            BY <2>3, WhileListening
        <3>2. ViewSame /\ servData' = servData
            BY <2>1, AliveAlone, AliveAloneNext DEF ViewSame, servData, Corrupted, build_packet
        <3>3. /\ T!TypeOK => T!TypeOK'
              /\ T!BehindAnswer => T!BehindAnswer'
              /\ T!NoLossInv => T!NoLossInv'
            BY <2>1, <3>2, ViewStays
        <3> QED BY <2>1, <2>2, <3>1, <3>3 DEF OneToHear, AnswerFirst, FileComes, Asking
    <2> QED BY <2>1, <2>3 DEF UnharmedInv, Listening, Underway
<1> QED BY <1>1, <1>2, <1>3, <1>4 DEF Misfortune

\* UnharmedInv is inductive, given what SessionInv, PromptInv and ServedInv say.
LEMMA UnharmedNext ==
    ASSUME SessionInv, SessionInv', PromptInv, PromptInv', ServedInv, UnharmedInv, OnlyLost,
           RoomForAnswer, [PromptNext]_vars
    PROVE  UnharmedInv'
<1> SUFFICES ASSUME Unharmed'
             PROVE  UnharmedInv'
    BY DEF UnharmedInv
<1>1. Unharmed
    BY UnharmedBefore
<1>2. CASE UNCHANGED vars
    <2>1. /\ UNCHANGED <<phase, rcv, buffer, out, peer, listener, toClient, origins, toA, faults,
                         windowA, filePosA, srvA, attemptsA>>
        BY <1>2 DEF vars, clientVars, exchangeVars, receiveVars, listenerVars, childAVars,
            queueVars
    <2>2. ASSUME Listening
          PROVE  OneToHear' /\ AnswerFirst' /\ FileComes'
        <3>1. OneToHear /\ AnswerFirst /\ FileComes
            BY <1>1, <2>2, WhileListening
        <3>2. ViewSame /\ servData' = servData
            BY <1>1, <2>1, AliveAlone, AliveAloneNext
            DEF ViewSame, servData, Corrupted, build_packet
        <3>3. /\ T!TypeOK => T!TypeOK'
              /\ T!BehindAnswer => T!BehindAnswer'
              /\ T!NoLossInv => T!NoLossInv'
            BY <2>1, <3>2, ViewStays
        <3> QED BY <2>1, <3>1, <3>3 DEF OneToHear, AnswerFirst, FileComes, Asking, Served
    <2> QED BY <1>1, <2>1, <2>2 DEF UnharmedInv, Listening, Underway
<1>3. CASE PromptChildA
    BY <1>1, <1>3, UnharmedChild
<1>4. CASE PromptChildB
    <2>1. srvB # Unborn
        <3>1. QueuesOK /\ ChildBInv /\ B!ServerNext
            BY <1>4 DEF SessionInv, PromptChildB, ChildBNext, B!ServerNext
        <3> QED BY <3>1, ChildBMoves
    <2> QED BY <1>1, <2>1, AliveAlone
<1>5. CASE ListenerNext
    BY <1>1, <1>5, UnharmedListener
<1>6. CASE PromptClient
    BY <1>1, <1>6, UnharmedAsks, UnharmedHears, UnharmedTimeout DEF PromptClient
<1>7. CASE Misfortune
    BY <1>1, <1>7, UnharmedMisfortune
<1> QED BY <1>2, <1>3, <1>4, <1>5, <1>6, <1>7 DEF PromptNext, Idle

\* Nothing has been sent, so nothing is lost.
LEMMA UnharmedInit == ASSUME Init PROVE UnharmedInv /\ HeardInv
<1>1. /\ phase = "SEND_FILENAME" /\ requests = 1 /\ listener = "LISTEN"
      /\ rcv = "INORDER" /\ buffer = buffer_init(0) /\ out = <<>>
      /\ peer = "listener"
      /\ windowA = buffer_init(BufferSize) /\ filePosA = 0 /\ srvA = Unborn /\ attemptsA = 0
      /\ srvB = Unborn
      /\ toClient = <<>> /\ origins = <<>> /\ toA = <<>>
      /\ faults = 0
    BY DEF Init, ExchangeL!ExchangeInit, ReceiveL!RcopyInit, Parent!ListenerInit,
        buffer_init, ReceiveL!buffer_init, Slots, ReceiveL!Slots
<1>2. /\ servWindow = buffer_init(BufferSize) /\ servFilePos = 0 /\ servPlace = "SEND_DATA"
      /\ servAttempts = 0 /\ servQueue = <<>> /\ servData = <<>>
    BY <1>1 DEF servWindow, servFilePos, servPlace, servAttempts, servQueue, servData, PlaceOf
<1>3. T!Init
    BY <1>1, <1>2 DEF T!Init, T!ServerInit, T!RcopyInit, T!NetInit, T!buffer_init,
        buffer_init, T!Slots, Slots
<1>4. T!TypeOK
    BY <1>3, T!InitType, PayloadAssumption, SizeAssumption, SessionAssumption
<1>5. HeardInv
    BY <1>1 DEF HeardInv
<1>6. OneToHear
    BY <1>1, <1>4 DEF OneToHear, A!Stopped, Unborn
<1>7. AnswerFirst /\ FileComes
    BY <1>1 DEF AnswerFirst, FileComes
<1> QED BY <1>1, <1>5, <1>6, <1>7 DEF UnharmedInv

\* While nothing is lost, rcopy ends without the file only because of a process
\* that was killed or a fork that failed, whatever the window and the file, if
\* the buffer size is at most the window size and a socket holds the answer and
\* a window.  With a larger buffer size the child may spin, and rcopy gives up
\* although everybody is alive.  (server.c server_FSM, rcopy.c
\* filename_exchange, handle_inorder.)
THEOREM GivesUpForTheDeadAlways ==
    ASSUME OnlyLost, FewLosses, BufferSize <= WindowSize, RoomForAnswer
    PROVE  PromptSpec => []GivesUpForTheDead
<1>1. Init => UnharmedInv /\ HeardInv
    BY UnharmedInit
<1>2. SessionInv /\ SessionInv' /\ PromptInv /\ PromptInv' /\ ServedInv /\ UnharmedInv
        /\ [PromptNext]_vars => UnharmedInv'
    BY UnharmedNext
<1>3. SessionInv /\ SessionInv' /\ PromptInv /\ HeardInv /\ [PromptNext]_vars => HeardInv'
    BY HeardNext
<1>4. UnharmedInv /\ HeardInv => GivesUpForTheDead
    BY DEF UnharmedInv, Unharmed, HeardInv, GivesUpForTheDead
<1> QED BY <1>1, <1>2, <1>3, <1>4, PromptIsSpec, SessionInvAlways, PromptInvAlways, ServedInvAlways,
        PTL DEF PromptSpec

------------------------------------------------------------------------------
(***************************************************************************)
(* What one loss costs.                                                    *)
(*                                                                         *)
(* Before rcopy has read the answer, the answer and the first window are   *)
(* on their way, one of them missing at most; from then on the transfer is *)
(* one with one loss (module LossProofs).                                  *)
(***************************************************************************)

\* At most one packet was lost, and nobody was killed.
OneLost == crashes = {} /\ faults <= 1

\* The answer of the listener is what rcopy gets next.
AnswerNext == toClient # <<>> /\ origins[1] = "listener"

\* The answer (k = 1) and behind it the first window of the child, of all of which
\* one packet (h, or the answer) may be lost.
FirstWindow ==
    \E k \in {0, 1}, h \in 0..NumChunks :
        /\ k = 1 <=> AnswerNext
        /\ T!Early(k, h)
        /\ faults = 0 => h = NumChunks /\ (k = 1 \/ toClient = <<>>)
        /\ k = 1 /\ toClient[1].flag # FLAG_FILENAME_ERROR => Served

\* The transfer that follows is one with one loss, or without.
FileStillComes ==
    /\ Served
    /\ faults = 0 => attemptsA = 0
    /\ faults = 1 => T!OneLoss

OnceInv ==
    OneLost =>
        /\ rcv # "ABORTED"
        /\ Listening =>
            /\ OneToHear
            /\ Asking => FirstWindow
            /\ phase = "RECEIVE_DATA" => FileStillComes

\* One loss costs one request.
HeardOnceInv ==
    OneLost =>
        /\ listener # "KILLED"
        /\ Asking => requests <= 1 + faults
        /\ phase = "POLL" /\ requests = 2 => Pending \/ toClient # <<>>
        /\ phase # "DONE"

\* One loss at most now, one loss at most before.
LEMMA OneLostBefore ==
    ASSUME SessionInv, SessionInv', PromptInv, OnlyLost, [PromptNext]_vars, OneLost'
    PROVE  OneLost /\ crashes = {} /\ faults \in {0, 1} /\ faults' \in {0, 1} /\ faults' >= faults
<1>1. faults \in Nat /\ faults' >= faults /\ crashes \subseteq crashes'
    BY HarmStays DEF SessionInv, QueuesOK
<1>2. faults' \in Nat
    BY DEF SessionInv, QueuesOK
<1>3. crashes = {} /\ faults' <= 1
    BY <1>1 DEF OneLost
<1> QED BY <1>1, <1>2, <1>3 DEF OneLost

\* A step that changes nothing of this.
LEMMA OnceViewStays ==
    ASSUME ViewSame, servData' = servData
    PROVE  /\ T!OneLoss => T!OneLoss'
           /\ \A k \in {0, 1}, h \in 0..NumChunks : T!Early(k, h) => T!Early(k, h)'
<1>1. /\ UNCHANGED <<servWindow, servPlace, servAttempts>>
      /\ UNCHANGED <<buffer, rcv, servData, servQueue>>
    BY DEF ViewSame
<1>2. T!OneLoss => T!OneLoss'
    BY <1>1, T!OneLossStays, PayloadAssumption, SizeAssumption, SessionAssumption
<1>3. ASSUME NEW k \in {0, 1}, NEW h \in 0..NumChunks, T!Early(k, h)
      PROVE  T!Early(k, h)'
    BY <1>1, <1>3, T!EarlyStays, PayloadAssumption, SizeAssumption, SessionAssumption
<1> QED BY <1>2, <1>3

\* What the invariants say of a rcopy that waits.
LEMMA WhileListeningOnce ==
    ASSUME SessionInv, PromptInv, ServedInv, OnceInv, OneLost, Listening
    PROVE  /\ OneToHear
           /\ Asking => FirstWindow
           /\ phase = "RECEIVE_DATA" => FileStillComes
           /\ TypeOK /\ QueuesOK /\ ListenerInv /\ BirthInv /\ AskingInv /\ ReceivingInv
           /\ T!RingInv
           /\ faults \in {0, 1}
           /\ toClient \in Seq(ToClient) /\ origins \in Seq(Senders)
           /\ Len(origins) = Len(toClient)
           /\ servPlace \notin T!Stopped
<1>1. /\ OneToHear
      /\ Asking => FirstWindow
      /\ phase = "RECEIVE_DATA" => FileStillComes
      /\ TypeOK /\ QueuesOK /\ ListenerInv /\ BirthInv /\ AskingInv /\ ReceivingInv
      /\ T!RingInv
      /\ toClient \in Seq(ToClient) /\ origins \in Seq(Senders)
      /\ Len(origins) = Len(toClient)
      /\ faults \in Nat /\ faults <= 1 /\ "A" \notin crashes
    BY DEF OnceInv, SessionInv, PromptInv, ServedInv, TypeOK, QueuesOK, OneLost, Listening
<1>2. servPlace \notin T!Stopped
    BY <1>1, FirstChildServes DEF OneToHear, T!Stopped, A!Stopped
<1>3. faults \in {0, 1}
    BY <1>1
<1> QED BY <1>1, <1>2, <1>3

\* A socket holds a window of packets and one more, and so does the ring.
RoomForOne == BufferSize <= WindowSize /\ WindowSize < QueueCap

\* So the transfer has the room that its theorems ask for.
LEMMA OnceSetting ==
    ASSUME OnlyLost, RoomForOne
    PROVE  /\ T!Sheltered /\ T!FitsRing /\ T!RoomForRepair /\ T!RoomForWindow
           /\ RoomForAnswer /\ "flip" \notin ServerErrors
<1>1. BufferSize \in Nat /\ WindowSize \in Nat /\ QueueCap \in Nat
    BY SizeAssumption, SessionAssumption
<1> QED BY <1>1 DEF OnlyLost, RoomForOne, RoomForAnswer, T!Sheltered, T!FitsRing,
        T!RoomForRepair, T!RoomForWindow

\* A step of the child before rcopy has its answer.
LEMMA OnceChildEarly ==
    ASSUME SessionInv, SessionInv', PromptInv, PromptInv', ServedInv, ServedInv', OnceInv,
           OnlyLost, FewLosses, RoomForOne, OneLost, OneLost', faults' >= faults,
           PromptChildA, Listening, Asking
    PROVE  FirstWindow' /\ srvA' \notin A!Stopped
<1>1. /\ A!ServerNext /\ SentBy("A") /\ ChildAInv
      /\ A!ServerStep \/ (A!ServerTimeout /\ ClientWaiting)
      /\ UNCHANGED <<phase, buffer, rcv, out, peer, listener, srvB>>
    BY DEF SessionInv, PromptChildA, ChildANext, clientVars, exchangeVars, receiveVars,
        listenerVars, childBVars, A!ServerNext
<1>2. /\ OneToHear /\ FirstWindow /\ AskingInv /\ BirthInv /\ QueuesOK
      /\ T!RingInv
      /\ faults \in {0, 1} /\ faults' \in {0, 1}
      /\ toClient \in Seq(ToClient) /\ origins \in Seq(Senders)
      /\ Len(origins) = Len(toClient)
    BY WhileListeningOnce DEF OneLost, SessionInv, QueuesOK
<1>3. /\ srvA' \in A!ServerStates /\ srvA # Unborn
      /\ toClient' \in Seq(ToClient)
      /\ toClient' = toClient \/ \E p : toClient' = Append(toClient, p)
    BY <1>1, <1>2, ChildAMoves
<1>4. /\ srvB = Unborn /\ srvA # Killed
      /\ servPlace = srvA /\ servPlace' = srvA' /\ srvA' # Unborn
    BY <1>3, FirstChildServes, FirstChildServesNext
    DEF OneLost, A!ServerStates, A!EofStates, A!Stopped, Unborn
\* If nothing is on its way to rcopy the child has sent one packet at most.
<1>5. toClient = <<>> => faults = 1 /\ filePosA = 0 /\ NumChunks >= 1 /\ BufferSize >= 1
    <2>1. filePosA \in 0..NumChunks /\ BufferSize \in Nat /\ NumChunks \in Nat /\ MaxFaults \in Nat
        BY <1>1, SizeAssumption, SessionAssumption DEF ChildAInv, ChildInv
    <2>2. toClient = <<>> => faults > filePosA
        BY <1>2, <1>3, <1>4 DEF AskingInv, Unanswered
    <2> QED BY <1>2, <2>1, <2>2 DEF FewLosses, BirthInv
<1>6. A!ServerStep
    <2> SUFFICES ASSUME A!ServerTimeout, ClientWaiting
                 PROVE  FALSE
        BY <1>1
    <2>1. toClient = <<>>
        BY <1>2 DEF ClientWaiting, ClientGone, AskingInv, Asking, ReceiveL!Gone
    <2>2. srvA = "WINDOW_FULL" \/ srvA \in A!EofStates
        BY DEF A!ServerTimeout, A!FullTimeout, A!WindowFull, A!EofTimeout, A!EofStates
    <2>3. srvA = "WINDOW_FULL" => filePosA = BufferSize
        BY <1>2 DEF AskingInv, Unanswered
    <2>4. srvA \in A!EofStates => filePosA = NumChunks
        BY <1>1 DEF ChildAInv, ChildInv
    <2> QED BY <1>5, <2>1, <2>2, <2>3, <2>4
<1>7. T!ServerStep /\ UNCHANGED T!rcopyVars
    BY <1>1, <1>4, <1>6, ServedByA DEF T!rcopyVars
<1>8. T!RingInv'
    BY <1>1 DEF ServedInv, Listening, Underway
<1>9. AnswerNext' <=> AnswerNext
    <2>1. origins' = origins \/ origins' = Append(origins, "A")
        BY <1>1, <1>3, OriginsOfStep DEF Senders
    <2>2. CASE toClient # <<>>
        <3>1. 1 \in 1..Len(origins) /\ toClient' # <<>>
            BY <1>2, <1>3, <2>2
        <3>2. origins'[1] = origins[1]
            BY <1>2, <2>1, <3>1
        <3> QED BY <2>2, <3>1, <3>2 DEF AnswerNext
    <2>3. CASE toClient = <<>>
        <3>1. origins = <<>>
            BY <1>2, <2>3
        <3>2. CASE toClient' = <<>>
            BY <2>3, <3>2 DEF AnswerNext
        <3>3. CASE toClient' # <<>>
            <4>1. origins' = Append(<<>>, "A")
                BY <1>1, <2>3, <3>1, <3>3 DEF SentBy
            <4>2. origins'[1] = "A"
                BY <4>1
            <4> QED BY <2>3, <4>2 DEF AnswerNext
        <3> QED BY <3>2, <3>3
    <2> QED BY <2>2, <2>3
<1>10. toClient # <<>> => toClient'[1] = toClient[1] /\ toClient' # <<>>
    BY <1>2, <1>3
<1>11. Served'
    BY <1>4 DEF Served
<1>12. PICK k \in {0, 1}, h \in 0..NumChunks :
        /\ k = 1 <=> AnswerNext
        /\ T!Early(k, h)
        /\ faults = 0 => h = NumChunks /\ (k = 1 \/ toClient = <<>>)
    BY <1>2 DEF FirstWindow
<1>13. faults = 0 => k = 1
    BY <1>5, <1>12
<1>14. \E g \in 0..NumChunks : T!Early(k, g)' /\ (faults' = 0 => g = NumChunks)
    <2>1. CASE faults' = faults
        <3>1. T!Early(k, h)'
            BY <1>2, <1>7, <1>8, <1>12, <2>1, OnceSetting, T!EarlyServer, PayloadAssumption,
                SizeAssumption, SessionAssumption
        <3> QED BY <1>12, <2>1, <3>1
    <2>2. CASE faults' # faults
        <3>1. faults = 0 /\ faults' = 1
            BY <1>2, <2>2
        <3>2. \E g \in 0..NumChunks : T!Early(1, g)'
            BY <1>2, <1>7, <1>8, <1>12, <1>13, <2>2, <3>1, OnceSetting, T!EarlyLoss,
                PayloadAssumption, SizeAssumption, SessionAssumption
        <3> QED BY <1>13, <3>1, <3>2
    <2> QED BY <2>1, <2>2
<1>15. servPlace' \notin T!Stopped
    BY <1>14 DEF T!Early
<1>16. faults' = 0 => k = 1
    BY <1>2, <1>13
<1> QED BY <1>4, <1>9, <1>11, <1>12, <1>14, <1>15, <1>16
        DEF FirstWindow, A!Stopped, T!Stopped

\* What the first child sends while rcopy receives.
LEMMA OnceChildServes ==
    ASSUME SessionInv, SessionInv', PromptInv, PromptInv', ServedInv, ServedInv', UnharmedInv,
           OnceInv, OnlyLost, RoomForOne, MaxAttempts >= 2, OneLost, OneLost', faults' >= faults,
           PromptChildA, Listening, phase = "RECEIVE_DATA"
    PROVE  FileStillComes' /\ srvA' \notin A!Stopped
<1>1. /\ A!ServerNext /\ SentBy("A") /\ ChildAInv /\ QueuesOK
      /\ A!ServerStep \/ (A!ServerTimeout /\ toA = <<>> /\ ClientWaiting)
      /\ UNCHANGED <<phase, buffer, rcv, out, peer, listener, srvB>>
    BY DEF SessionInv, PromptChildA, ChildANext, clientVars, exchangeVars, receiveVars,
        listenerVars, childBVars, A!ServerNext
<1>2. /\ FileStillComes
      /\ T!RingInv
      /\ faults \in {0, 1} /\ faults' \in {0, 1}
      /\ toClient \in Seq(ToClient)
    BY WhileListeningOnce DEF OneLost, SessionInv, QueuesOK
<1>3. /\ srvA' \in A!ServerStates /\ srvA # Unborn
    BY <1>1, ChildAMoves
<1>4. /\ srvB = Unborn /\ srvA # Killed
      /\ servPlace = srvA /\ servPlace' = srvA' /\ srvA' # Unborn
      /\ servAttempts = attemptsA /\ servAttempts' = attemptsA' /\ servQueue = toA
    BY <1>3, FirstChildServes, FirstChildServesNext
    DEF OneLost, A!ServerStates, A!EofStates, A!Stopped, Unborn
<1>5. /\ A!ServerStep => T!ServerStep
      /\ A!ServerTimeout => T!ServerTimeout
      /\ UNCHANGED T!rcopyVars
    BY <1>1, <1>4, ServedByA DEF T!rcopyVars
<1>6. T!RingInv'
    BY <1>1 DEF ServedInv, Listening, Underway
<1>7. Served'
    BY <1>4 DEF Served
<1>8. ASSUME A!ServerTimeout, ClientWaiting
      PROVE  servData = <<>> /\ rcv \in T!Receiving
    BY <1>8 DEF Listening, ClientWaiting, ClientGone, servData, T!Receiving, ReceiveL!Receiving
<1>9. CASE faults = 0
    <2>1. T!NoLoss /\ T!TypeOK /\ attemptsA = 0
        <3>1. Unharmed
            BY <1>9 DEF Unharmed, OneLost
        <3> QED BY <1>2, <1>9, <3>1, WhileListening DEF OneToHear, FileStillComes
    <2>2. T!ServerStep
        <3> SUFFICES ASSUME A!ServerTimeout, ClientWaiting
                     PROVE  FALSE
            BY <1>1, <1>5
        <3>1. T!ServerPolls
            BY <1>5 DEF T!ServerTimeout, T!FullTimeout, T!EofTimeout, T!ServerPolls
        <3>2. T!ClientPolls
            BY <1>8 DEF T!ClientPolls
        <3> QED BY <2>1, <3>1, <3>2, T!NotBothPoll, PayloadAssumption, SizeAssumption,
                SessionAssumption
    <2>3. /\ servPlace' \notin T!Stopped /\ servAttempts' = 0
          /\ faults' = faults \/ T!OneLoss'
        BY <1>2, <1>4, <1>5, <2>1, <2>2, OnceSetting, T!FirstLossServer, PayloadAssumption,
            SizeAssumption, SessionAssumption
    <2> QED BY <1>4, <1>7, <1>9, <2>3 DEF FileStillComes, T!Stopped, A!Stopped
<1>10. CASE faults = 1
    <2>1. faults' = faults /\ faults' = 1 /\ T!OneLoss
        BY <1>2, <1>10 DEF FileStillComes
    <2>2. T!RoomForRepair
        BY OnceSetting
    <2>3. ASSUME T!ServerStep
          PROVE  T!OneLoss'
        BY <1>2, <1>5, <1>6, <2>1, <2>2, <2>3, T!OneLossServer, PayloadAssumption,
            SizeAssumption, SessionAssumption
    <2>4. ASSUME A!ServerTimeout, toA = <<>>, ClientWaiting
          PROVE  T!OneLoss'
        <3>1. servData = <<>> /\ servQueue = <<>> /\ rcv \in T!Receiving /\ T!ServerTimeout
            BY <1>4, <1>5, <1>8, <2>4
        <3> QED BY <1>2, <1>5, <1>6, <2>1, <2>2, <3>1, T!OneLossTimeout, PayloadAssumption,
                SizeAssumption, SessionAssumption
    <2>5. T!OneLoss'
        BY <1>1, <1>5, <2>3, <2>4
    <2>6. servPlace' \notin T!Stopped
        BY <2>5 DEF T!OneLoss
    <2> QED BY <1>4, <1>7, <2>1, <2>5, <2>6 DEF FileStillComes, T!Stopped, A!Stopped
<1> QED BY <1>2, <1>9, <1>10

\* So the child does not stop, and what it sends is heard.
LEMMA OnceChild ==
    ASSUME SessionInv, SessionInv', PromptInv, PromptInv', ServedInv, ServedInv', UnharmedInv,
           OnceInv, OnlyLost, FewLosses, RoomForOne, MaxAttempts >= 2, OneLost, OneLost',
           faults' >= faults, PromptChildA
    PROVE  OnceInv'
<1>1. /\ A!ServerNext /\ SentBy("A") /\ ChildAInv /\ QueuesOK
      /\ UNCHANGED <<phase, buffer, rcv, out, peer, listener, srvB>>
    BY DEF SessionInv, PromptChildA, ChildANext, clientVars, exchangeVars, receiveVars,
        listenerVars, childBVars, A!ServerNext
<1> SUFFICES ASSUME Listening
             PROVE  /\ OneToHear'
                    /\ Asking => FirstWindow'
                    /\ phase = "RECEIVE_DATA" => FileStillComes'
    BY <1>1 DEF OnceInv, Listening, Underway, Asking
<1>2. OneToHear
    BY WhileListeningOnce
<1>3. /\ toClient' \in Seq(ToClient)
      /\ toClient' = toClient \/ \E p : toClient' = Append(toClient, p)
    BY <1>1, ChildAMoves
<1>4. \A i \in 1..Len(origins') : origins'[i] \in {"listener", "A"}
    <2>1. /\ origins' = origins \/ origins' = Append(origins, "A")
          /\ origins \in Seq(Senders)
        BY <1>1, <1>3, OriginsOfStep DEF Senders
    <2> QED BY <1>2, <2>1 DEF OneToHear
<1>5. T!TypeOK'
    BY <1>1 DEF ServedInv, Listening, Underway, T!RingInv, T!AnyNetworkInv
<1>6. /\ srvA' \notin A!Stopped
      /\ Asking => FirstWindow'
      /\ phase = "RECEIVE_DATA" => FileStillComes'
    BY OnceChildEarly, OnceChildServes DEF Listening, Underway, Asking
<1> QED BY <1>1, <1>2, <1>4, <1>5, <1>6 DEF OneToHear

\* The listener forks the child of a rcopy that waits for it.
LEMMA OnceFork ==
    ASSUME SessionInv, SessionInv', PromptInv, PromptInv', ServedInv, ServedInv', OnceInv,
           OneLost, OneLost', Parent!Fork, srvA' = Forked(1, srvA),
           UNCHANGED <<phase, rcv, buffer, out, peer, toA, toB, windowA, filePosA, attemptsA,
                       origins>>
    PROVE  OnceInv'
<1> SUFFICES ASSUME Listening
             PROVE  /\ OneToHear'
                    /\ Asking => FirstWindow'
                    /\ phase = "RECEIVE_DATA" => FileStillComes'
    BY DEF OnceInv, Listening, Underway, Asking
<1>1. /\ OneToHear
      /\ Asking => FirstWindow
      /\ phase = "RECEIVE_DATA" => FileStillComes
      /\ TypeOK /\ ListenerInv /\ BirthInv
    BY WhileListeningOnce
<1>2. /\ listener = "FORK" /\ UNCHANGED <<toClient, faults>>
      /\ children \in 0..MaxChildren /\ children < MaxChildren /\ children' = children + 1
    BY <1>1 DEF Parent!Fork, Parent!netVars, TypeOK, Parent!ListenerTypeOK
<1>3. srvA = Unborn /\ srvA' = "SEND_DATA"
    <2>1. srvA = Unborn
        BY <1>1, <1>2, FirstChildServes DEF ListenerInv, BeingServed, NobodyRuns, OneLost
    <2>2. children = 0
        BY <1>1, <1>2, <2>1, SessionAssumption DEF BirthInv
    <2> QED BY <1>2, <2>1, <2>2 DEF Forked
<1>4. ViewSame /\ servData' = servData
    <2>1. servPlace = "SEND_DATA" /\ servPlace' = "SEND_DATA"
        BY <1>3, FirstChildServes, FirstChildServesNext DEF OneLost, Unborn
    <2>2. servData' = servData
        BY <1>2 DEF servData, Corrupted, build_packet
    <2> QED BY <2>1, <2>2, FirstChildServes, FirstChildServesNext DEF ViewSame, OneLost
<1>5. /\ T!OneLoss => T!OneLoss'
      /\ \A k \in {0, 1}, h \in 0..NumChunks : T!Early(k, h) => T!Early(k, h)'
    BY <1>4, OnceViewStays
<1>6. T!TypeOK'
    BY DEF ServedInv, Listening, Underway, T!RingInv, T!AnyNetworkInv
<1>7. Served' /\ srvA' \notin A!Stopped
    BY <1>3 DEF Served, A!Stopped, Unborn
<1>8. OneToHear'
    BY <1>1, <1>6, <1>7 DEF OneToHear
<1>9. AnswerNext' <=> AnswerNext
    BY <1>2 DEF AnswerNext
<1>10. ASSUME FirstWindow
       PROVE  FirstWindow'
    <2>1. PICK k \in {0, 1}, h \in 0..NumChunks :
            /\ k = 1 <=> AnswerNext
            /\ T!Early(k, h)
            /\ faults = 0 => h = NumChunks /\ (k = 1 \/ toClient = <<>>)
        BY <1>10 DEF FirstWindow
    <2>2. T!Early(k, h)'
        BY <1>5, <2>1
    <2> QED BY <1>2, <1>7, <1>9, <2>1, <2>2 DEF FirstWindow
<1>11. FileStillComes => FileStillComes'
    BY <1>2, <1>5, <1>7 DEF FileStillComes
<1> QED BY <1>1, <1>8, <1>10, <1>11

\* The listener answers: the answer is on its way, or it is the one packet that was
\* lost.
LEMMA OnceAnswers ==
    ASSUME SessionInv, SessionInv', PromptInv, PromptInv', ServedInv, ServedInv', OnceInv,
           OnlyLost, OneLost, OneLost', SentBy("listener"),
           Parent!NextPacket(Head(toListener)),
           NEW p \in ToClient, p.flag \in {FLAG_FILENAME_ACK, FLAG_FILENAME_ERROR},
           Parent!SendToClient(p), p.flag = FLAG_FILENAME_ACK => listener' = "FORK",
           UNCHANGED <<phase, rcv, buffer, out, peer, toA, toB, windowA, filePosA, attemptsA,
                       srvA>>
    PROVE  OnceInv'
<1> SUFFICES ASSUME Listening
             PROVE  OneToHear' /\ Asking /\ FirstWindow'
    BY DEF OnceInv, Listening, Underway, Asking
<1>1. /\ OneToHear
      /\ Asking => FirstWindow
      /\ TypeOK /\ BirthInv /\ AskingInv /\ ReceivingInv
      /\ faults \in {0, 1}
    BY WhileListeningOnce
<1>2. Asking
    BY <1>1 DEF Listening, Underway, Asking, ReceivingInv, Pending, Parent!NextPacket
<1>3. /\ NobodyRuns /\ toClient = <<>>
      /\ \/ toClient' = <<p>> /\ origins' = <<"listener">>
         \/ toClient' = <<>> /\ origins' = <<>> /\ faults' = faults + 1
    BY <1>2, AnswerOrLoss
<1>4. srvA = Unborn /\ srvA' = Unborn
    BY <1>3, FirstChildServes DEF NobodyRuns, OneLost
<1>5. /\ servWindow' = T!buffer_init(BufferSize) /\ servPlace' = "SEND_DATA"
      /\ servAttempts' = 0 /\ servQueue' = <<>>
      /\ rcv' = "INORDER" /\ buffer'.current = 0
    <2>1. attemptsA = 0
        <3>1. servAttempts = 0
            BY <1>1, <1>2 DEF FirstWindow, T!Early
        <3> QED BY <3>1, FirstChildServes DEF OneLost
    <2>2. windowA = buffer_init(BufferSize) /\ toA = <<>>
        BY <1>1, <1>2, <1>4 DEF BirthInv, AskingInv
    <2>3. rcv = "INORDER" /\ buffer.current = 0
        BY <1>1, <1>2 DEF AskingInv, buffer_init
    <2> QED BY <1>4, <2>1, <2>2, <2>3, FirstChildServesNext
            DEF OneLost, T!buffer_init, buffer_init, T!Slots, Slots
<1>6. T!TypeOK'
    BY DEF ServedInv, Listening, Underway, T!RingInv, T!AnyNetworkInv
<1>7. OneToHear'
    <2>1. \A i \in 1..Len(origins') : origins'[i] \in {"listener", "A"}
        <3>1. Len(<<"listener">>) = 1 /\ <<"listener">>[1] = "listener" /\ Len(<<>>) = 0
            OBVIOUS
        <3> QED BY <1>3, <3>1
    <2> QED BY <1>1, <1>4, <1>6, <2>1 DEF OneToHear, A!Stopped, Unborn
<1>8. CASE toClient' = <<p>> /\ origins' = <<"listener">>
    <2>1. <<p>> # <<>> /\ origins'[1] = "listener" /\ toClient'[1] = p
        BY <1>8
    <2>2. servData' = [<<p>> EXCEPT ![1] = Corrupted]
        BY <1>8, <2>1 DEF servData, Corrupted, build_packet
    <2>3. Len(servData') = 1 /\ servData' # <<>> /\ Tail(servData') = <<>>
        BY <2>2
    <2>4. T!Early(1, NumChunks)'
        BY <1>5, <2>3, T!EarlyBorn, PayloadAssumption, SizeAssumption, SessionAssumption
    <2>5. AnswerNext'
        BY <1>8, <2>1 DEF AnswerNext
    <2>6. toClient'[1].flag # FLAG_FILENAME_ERROR => Served'
        BY <2>1 DEF Served
    <2>7. NumChunks \in 0..NumChunks
        BY SessionAssumption
    <2> QED BY <1>2, <1>7, <2>4, <2>5, <2>6, <2>7 DEF FirstWindow
<1>9. CASE toClient' = <<>> /\ faults' = faults + 1
    <2>1. servData' = <<>> /\ ~AnswerNext'
        BY <1>9 DEF servData, AnswerNext
    <2>2. T!Early(0, NumChunks)'
        BY <1>5, <2>1, T!EarlyBorn, PayloadAssumption, SizeAssumption, SessionAssumption
    <2>3. NumChunks \in 0..NumChunks
        BY SessionAssumption
    <2> QED BY <1>1, <1>2, <1>7, <1>9, <2>1, <2>2, <2>3 DEF FirstWindow
<1> QED BY <1>3, <1>8, <1>9

\* So the listener keeps the first window in order.
LEMMA OnceListener ==
    ASSUME SessionInv, SessionInv', PromptInv, PromptInv', ServedInv, ServedInv', OnceInv,
           OnlyLost, OneLost, OneLost', ListenerNext
    PROVE  OnceInv'
BY ListenerActs, OnceFork, OnceAnswers

\* rcopy reads the answer, or what has come in its place.
LEMMA OnceAnswered ==
    ASSUME SessionInv, SessionInv', PromptInv, PromptInv', ServedInv, ServedInv', OnceInv,
           OnlyLost, FewLosses, RoomForOne, OneLost, OneLost', Listening,
           phase = "POLL", phase' = "RECEIVE_DATA", toClient[1].flag # FLAG_FILENAME_ERROR,
           toClient # <<>>, toClient' = Tail(toClient),
           origins # <<>>, origins' = Tail(origins), peer' = origins[1],
           UNCHANGED <<faults, rcv, buffer, out, listener, toA, windowA, filePosA, srvA, attemptsA>>
    PROVE  OneToHear' /\ FileStillComes'
<1>1. /\ OneToHear /\ FirstWindow /\ BirthInv /\ AskingInv
      /\ T!RingInv
      /\ faults \in {0, 1} /\ faults' = faults
      /\ toClient \in Seq(ToClient) /\ origins \in Seq(Senders)
      /\ Len(origins) = Len(toClient)
    BY WhileListeningOnce DEF Asking
<1>2. ViewSame /\ servAttempts = attemptsA
    BY FirstChildServes, FirstChildServesNext DEF ViewSame, OneLost
<1>3. PICK k \in {0, 1}, h \in 0..NumChunks :
        /\ k = 1 <=> AnswerNext
        /\ T!Early(k, h)
        /\ k = 1 => Served
    BY <1>1 DEF FirstWindow
<1>4. /\ Len(origins') = Len(origins) - 1
      /\ \A i \in 1..Len(origins') : origins'[i] = origins[i + 1] /\ i + 1 \in 2..Len(origins)
      /\ Len(origins') = Len(toClient') /\ toClient' \in Seq(ToClient)
    BY <1>1
<1>5. servData' = toClient'
    <2>1. \A i \in 1..Len(origins') : origins'[i] # "listener"
        BY <1>1, <1>4 DEF AskingInv, Asking
    <2> QED BY <1>4, <2>1, DataSeenNext
<1>6. servData # <<>> /\ servData' = Tail(servData)
    <2>1. CASE origins[1] = "listener"
        <3>1. servData = [toClient EXCEPT ![1] = Corrupted]
            BY <2>1 DEF servData
        <3>2. /\ Len(servData) = Len(toClient) /\ servData \in Seq(ToClient)
              /\ \A i \in 2..Len(toClient) : servData[i] = toClient[i]
            BY <1>1, <3>1, PacketTypes
        <3> QED BY <1>1, <1>5, <3>2
    <2>2. CASE origins[1] # "listener"
        BY <1>5, <2>2 DEF servData
    <2> QED BY <2>1, <2>2
\* A chunk in place of the answer came from the child.
<1>7. Served'
    <2>1. CASE k = 1
        BY <1>3, <2>1 DEF Served
    <2>2. CASE k = 0
        <3> SUFFICES ASSUME srvA = Unborn
                     PROVE  FALSE
            BY DEF Served
        <3>1. servWindow.current = 0 /\ servPlace = "SEND_DATA"
            BY <1>1, FirstChildServes DEF BirthInv, buffer_init, OneLost
        <3>2. servWindow.current = Len(servData) + T!Missing(h)
            BY <1>3, <2>2, <3>1 DEF T!Early, T!EofStates, T!Behind
        <3>3. T!Missing(h) \in Nat
            BY DEF T!Missing, T!One
        <3>4. Len(servData) >= 1
            <4>1. servData \in Seq(T!ClientBound)
                BY <1>1 DEF OneToHear, T!TypeOK
            <4> QED BY <1>6, <4>1
        <3>5. Len(servData) \in Nat
            <4>1. servData \in Seq(T!ClientBound)
                BY <1>1 DEF OneToHear, T!TypeOK
            <4> QED BY <4>1
        <3> QED BY <3>1, <3>2, <3>3, <3>4, <3>5
    <2> QED BY <2>1, <2>2
<1>8. faults = 0 => attemptsA' = 0
    BY <1>2, <1>3 DEF T!Early
<1>9. ASSUME faults = 1
      PROVE  T!OneLoss'
    <2>1. NumChunks >= 1
        <3>1. MaxFaults >= 1 /\ MaxFaults \in Nat /\ NumChunks \in Nat
            BY <1>1, <1>9, SessionAssumption DEF BirthInv
        <3> QED BY <3>1 DEF FewLosses
    <2>2. /\ UNCHANGED <<servWindow, servPlace, servAttempts>>
          /\ UNCHANGED <<buffer, rcv, servQueue>>
        BY <1>2 DEF ViewSame
    <2> QED BY <1>1, <1>3, <1>6, <2>1, <2>2, OnceSetting, T!EarlyTaken, PayloadAssumption,
            SizeAssumption, SessionAssumption
<1>10. OneToHear'
    <2>1. T!TypeOK'
        BY DEF ServedInv, Underway, T!RingInv, T!AnyNetworkInv
    <2>2. origins[1] \in {"listener", "A"}
        BY <1>1 DEF OneToHear
    <2>3. \A i \in 1..Len(origins') : origins'[i] \in {"listener", "A"}
        BY <1>1, <1>4 DEF OneToHear
    <2> QED BY <1>1, <2>1, <2>2, <2>3 DEF OneToHear
<1> QED BY <1>1, <1>7, <1>8, <1>9, <1>10 DEF FileStillComes

\* A step of rcopy in the exchange.
LEMMA OnceAsks ==
    ASSUME SessionInv, SessionInv', PromptInv, PromptInv', ServedInv, ServedInv', OnceInv,
           OnlyLost, FewLosses, RoomForOne, OneLost, OneLost', faults' >= faults,
           ClientStep, phase # "RECEIVE_DATA"
    PROVE  OnceInv'
<1>1. /\ UNCHANGED <<rcv, buffer, out, listener, toA, windowA, filePosA, srvA>>
      /\ \/ /\ phase = "SEND_FILENAME"
            /\ ExchangeL!send_filename \/ ExchangeL!OutOfRequests
            /\ UNCHANGED <<toClient, origins, peer>>
         \/ /\ phase = "POLL" /\ phase' \in {"RECEIVE_DATA", "NO_FILE"}
            /\ phase' = "RECEIVE_DATA" => toClient[1].flag # FLAG_FILENAME_ERROR
            /\ toClient # <<>> /\ toClient' = Tail(toClient)
            /\ origins # <<>> /\ origins' = Tail(origins) /\ peer' = origins[1]
            /\ UNCHANGED faults
    BY AskingMoves
<1>2. Asking /\ UNCHANGED attemptsA
    BY <1>1 DEF Asking, ClientStep, childAVars
<1>3. rcv \notin ReceiveL!Gone /\ rcv' # "ABORTED"
    BY <1>1, <1>2 DEF PromptInv, AskingInv, ReceiveL!Gone
<1> SUFFICES ASSUME Listening'
             PROVE  /\ OneToHear'
                    /\ Asking' => FirstWindow'
                    /\ phase' = "RECEIVE_DATA" => FileStillComes'
    BY <1>3 DEF OnceInv
<1>4. Listening
    BY <1>2, <1>3 DEF Listening, Underway, Asking
<1>5. /\ OneToHear /\ FirstWindow /\ AskingInv
      /\ faults \in {0, 1}
    BY <1>2, <1>4, WhileListeningOnce
<1>6. CASE phase = "SEND_FILENAME"
    <2>1. UNCHANGED <<toClient, origins, peer>> /\ toClient = <<>>
        BY <1>1, <1>2, <1>5, <1>6 DEF AskingInv
    <2>2. phase' = "POLL"
        BY <1>1, <1>6 DEF ExchangeL!send_filename, ExchangeL!OutOfRequests, Listening, Underway
    <2>3. ViewSame /\ servData' = servData
        BY <1>1, <1>2, <2>1, FirstChildServes, FirstChildServesNext
        DEF ViewSame, OneLost, servData
    <2>4. PICK k \in {0, 1}, h \in 0..NumChunks :
            /\ k = 1 <=> AnswerNext
            /\ T!Early(k, h)
            /\ faults = 0 => h = NumChunks
        BY <1>5 DEF FirstWindow
    <2>5. T!Early(k, h)' /\ (faults' = 0 => h = NumChunks)
        <3>1. T!Early(k, h)'
            BY <2>3, <2>4, OnceViewStays
        <3> QED BY <1>5, <2>4, <3>1
    <2>6. ~AnswerNext /\ ~AnswerNext'
        BY <2>1 DEF AnswerNext
    <2>7. FirstWindow'
        BY <2>1, <2>4, <2>5, <2>6 DEF FirstWindow
    <2>8. OneToHear'
        <3>1. T!TypeOK'
            BY DEF ServedInv, Listening, T!RingInv, T!AnyNetworkInv
        <3> QED BY <1>1, <1>5, <2>1, <3>1 DEF OneToHear
    <2> QED BY <2>2, <2>7, <2>8
<1>7. CASE phase = "POLL"
    <2>1. phase' = "RECEIVE_DATA"
        BY <1>1, <1>7 DEF Listening, Underway
    <2>2. OneToHear' /\ FileStillComes'
        BY <1>1, <1>2, <1>4, <1>7, <2>1, OnceAnswered
    <2> QED BY <2>1, <2>2 DEF Asking
<1> QED BY <1>1, <1>6, <1>7

\* rcopy receives.
LEMMA OnceHears ==
    ASSUME SessionInv, SessionInv', PromptInv, PromptInv', ServedInv, ServedInv', UnharmedInv,
           OnceInv, OnlyLost, RoomForOne, OneLost, OneLost', faults' >= faults,
           ClientStep, phase = "RECEIVE_DATA"
    PROVE  OnceInv'
<1>1. /\ phase' = phase /\ UNCHANGED <<listener, srvA, windowA, filePosA>>
      /\ ReceiveA!ClientStep \/ ReceiveB!ClientStep
      /\ origins' = origins \/ (origins # <<>> /\ origins' = Tail(origins))
    BY ReceivingMoves
<1>2. rcv \notin ReceiveL!Gone /\ rcv' # "ABORTED"
    <2>1. AP!ClientStep \/ BP!ClientStep
        BY <1>1, RcopyAIsRcopy, RcopyBIsRcopy
    <2> QED BY <2>1 DEF ReceiveL!Gone,
            AP!ClientStep, AP!handle_inorder, AP!handle_buffer, AP!handle_flush,
            AP!DropCorrupted, AP!ExitTransfer, AP!WriteInorder, AP!GapFound, AP!FillGap,
            AP!StoreEarly, AP!AckAgain, AP!FlushEntry, AP!FlushEnd, AP!Accepted, AP!Received,
            AP!rcopyVars,
            BP!ClientStep, BP!handle_inorder, BP!handle_buffer, BP!handle_flush,
            BP!DropCorrupted, BP!ExitTransfer, BP!WriteInorder, BP!GapFound, BP!FillGap,
            BP!StoreEarly, BP!AckAgain, BP!FlushEntry, BP!FlushEnd, BP!Accepted, BP!Received,
            BP!rcopyVars
<1> SUFFICES ASSUME Listening'
             PROVE  OneToHear' /\ FileStillComes'
    BY <1>1, <1>2 DEF OnceInv, Asking
<1>3. Listening
    BY <1>1, <1>2 DEF Listening, Underway
<1>4. /\ OneToHear /\ FileStillComes /\ origins \in Seq(Senders)
      /\ T!RingInv
      /\ faults \in {0, 1} /\ faults' \in {0, 1}
      /\ servPlace \notin T!Stopped
    BY <1>3, WhileListeningOnce DEF OneLost, SessionInv, QueuesOK
<1>5. T!AClientNext /\ T!ClientStep /\ peer' = "A"
    BY <1>4, FirstChildServes, ServedReceives DEF OneToHear, OneLost
<1>6. /\ UNCHANGED T!serverVars /\ T!ClientNext
      /\ servAttempts = attemptsA /\ attemptsA' = attemptsA
      /\ rcv' \notin T!Gone
    <2>1. attemptsA' = attemptsA
        BY DEF ClientStep, childAVars
    <2> QED BY <1>5, <2>1, FirstChildServes
            DEF T!AClientNext, T!ClientNext, OneLost, Listening, T!Gone, ReceiveL!Gone
<1>7. OneToHear'
    <2>1. T!TypeOK'
        BY DEF ServedInv, Listening, T!RingInv, T!AnyNetworkInv
    <2>2. \A i \in 1..Len(origins') : origins'[i] \in {"listener", "A"}
        BY <1>1, <1>4 DEF OneToHear
    <2> QED BY <1>1, <1>4, <1>5, <2>1, <2>2 DEF OneToHear
<1>8. Served'
    BY <1>1, <1>4 DEF FileStillComes, Served
<1>9. faults = 0 => faults' = faults \/ T!OneLoss'
    <2> SUFFICES ASSUME faults = 0
                 PROVE  faults' = faults \/ T!OneLoss'
        OBVIOUS
    <2>1. Unharmed
        BY DEF Unharmed, OneLost
    <2>2. T!NoLoss /\ servAttempts = 0
        BY <1>1, <1>3, <1>4, <1>6, <2>1, WhileListening DEF FileStillComes
    <2> QED BY <1>4, <1>6, <2>2, OnceSetting, T!FirstLossClient, PayloadAssumption,
            SizeAssumption, SessionAssumption
<1>10. faults = 1 => T!OneLoss'
    <2> SUFFICES ASSUME faults = 1
                 PROVE  T!OneLoss'
        OBVIOUS
    <2>1. T!OneLoss /\ faults' = faults
        BY <1>4 DEF FileStillComes
    <2> QED BY <1>4, <1>5, <1>6, <2>1, OnceSetting, T!OneLossClient, PayloadAssumption,
            SizeAssumption, SessionAssumption
<1> QED BY <1>4, <1>6, <1>7, <1>8, <1>9, <1>10 DEF FileStillComes

\* rcopy asks again, or there is no time-out, for the child is alive.
LEMMA OnceTimeout ==
    ASSUME SessionInv, SessionInv', PromptInv, PromptInv', ServedInv, ServedInv',
           OnceInv, OneLost, OneLost',
           RequestTimeout \/ (DataTimeout /\ SilentA /\ listener # "FORK")
    PROVE  OnceInv'
<1>1. CASE DataTimeout /\ SilentA /\ listener # "FORK"
    <2>1. Listening
        BY <1>1 DEF DataTimeout, ReceiveL!ClientTimeout, ReceiveL!Receiving, ReceiveL!Gone,
            Listening, Underway
    <2>2. Served /\ srvA \notin A!Stopped /\ srvA # Killed
        BY <1>1, <2>1, WhileListeningOnce, FirstChildServes
        DEF FileStillComes, DataTimeout, OneToHear, OneLost
    <2>3. ~A!Spinning
        BY <2>1, AliveSends DEF OneLost
    <2> QED BY <1>1, <2>2, <2>3 DEF SilentA, Served, NotRunning
<1>2. CASE RequestTimeout
    <2>1. /\ phase = "POLL" /\ phase' = "SEND_FILENAME" /\ toClient = <<>>
          /\ UNCHANGED <<toClient, faults, rcv, buffer, out, peer, origins, toA,
                         windowA, filePosA, srvA, attemptsA>>
        BY <1>2 DEF RequestTimeout, ExchangeL!NoAnswer, ExchangeL!netVars, receiveVars, childAVars
    <2> SUFFICES ASSUME Listening
                 PROVE  OneToHear' /\ FirstWindow'
        BY <2>1 DEF OnceInv, Listening, Underway
    <2>2. OneToHear /\ FirstWindow
        BY <2>1, WhileListeningOnce DEF Asking
    <2>3. ViewSame /\ servData' = servData
        BY <2>1, FirstChildServes, FirstChildServesNext DEF ViewSame, OneLost, servData
    <2>4. OneToHear'
        <3>1. T!TypeOK'
            BY <2>1 DEF ServedInv, Underway, T!RingInv, T!AnyNetworkInv
        <3> QED BY <2>1, <2>2, <3>1 DEF OneToHear
    <2>5. PICK k \in {0, 1}, h \in 0..NumChunks :
            /\ k = 1 <=> AnswerNext
            /\ T!Early(k, h)
            /\ faults = 0 => h = NumChunks /\ (k = 1 \/ toClient = <<>>)
        BY <2>2 DEF FirstWindow
    <2>6. T!Early(k, h)'
        BY <2>3, <2>5, OnceViewStays
    <2>7. ~AnswerNext /\ ~AnswerNext'
        BY <2>1 DEF AnswerNext
    <2> QED BY <2>1, <2>4, <2>5, <2>6, <2>7 DEF FirstWindow
<1> QED BY <1>1, <1>2

\* Steps of nobody that is heard.
LEMMA OnceQuietly ==
    ASSUME SessionInv, SessionInv', PromptInv, PromptInv', ServedInv, ServedInv',
           OnceInv, OneLost, OneLost', Served => Served',
           UNCHANGED <<phase, rcv, buffer, out, peer, toClient, origins, toA, faults,
                       windowA, filePosA, srvA, attemptsA>>
    PROVE  OnceInv'
<1> SUFFICES ASSUME Listening
             PROVE  /\ OneToHear'
                    /\ Asking => FirstWindow'
                    /\ phase = "RECEIVE_DATA" => FileStillComes'
    BY DEF OnceInv, Listening, Underway, Asking
<1>1. /\ OneToHear
      /\ Asking => FirstWindow
      /\ phase = "RECEIVE_DATA" => FileStillComes
    BY WhileListeningOnce
<1>2. ViewSame /\ servData' = servData
    BY FirstChildServes, FirstChildServesNext DEF ViewSame, OneLost, servData
<1>3. /\ T!OneLoss => T!OneLoss'
      /\ \A k \in {0, 1}, h \in 0..NumChunks : T!Early(k, h) => T!Early(k, h)'
    BY <1>2, OnceViewStays
<1>4. T!TypeOK'
    BY DEF ServedInv, Listening, Underway, T!RingInv, T!AnyNetworkInv
<1>5. AnswerNext' <=> AnswerNext
    BY DEF AnswerNext
<1>6. ASSUME FirstWindow
      PROVE  FirstWindow'
    <2>1. PICK k \in {0, 1}, h \in 0..NumChunks :
            /\ k = 1 <=> AnswerNext
            /\ T!Early(k, h)
            /\ faults = 0 => h = NumChunks /\ (k = 1 \/ toClient = <<>>)
            /\ k = 1 /\ toClient[1].flag # FLAG_FILENAME_ERROR => Served
        BY <1>6 DEF FirstWindow
    <2>2. T!Early(k, h)'
        BY <1>3, <2>1
    <2> QED BY <1>5, <2>1, <2>2 DEF FirstWindow
<1> QED BY <1>1, <1>3, <1>4, <1>6 DEF OneToHear, FileStillComes

\* Where nobody was killed nothing is left of a misfortune but a restart.
LEMMA OnlyRestarts ==
    ASSUME Misfortune, OneLost'
    PROVE  RestartListener
BY DEF Misfortune, KillListener, ForkFailure, FileRefused, KillChildA, KillChildB, KillClient,
       Crash, OneLost

\* OnceInv is inductive, given the other invariants.
LEMMA OnceNext ==
    ASSUME SessionInv, SessionInv', PromptInv, PromptInv', ServedInv, ServedInv', UnharmedInv,
           OnceInv, OnlyLost, FewLosses, RoomForOne, MaxAttempts >= 2, [PromptNext]_vars
    PROVE  OnceInv'
<1> SUFFICES ASSUME OneLost'
             PROVE  OnceInv'
    BY DEF OnceInv
<1>1. OneLost /\ faults' >= faults
    BY OneLostBefore
<1>2. CASE UNCHANGED vars
    <2>1. UNCHANGED <<phase, rcv, buffer, out, peer, listener, toClient, origins, toA, faults,
                      windowA, filePosA, srvA, attemptsA>>
        BY <1>2 DEF vars, clientVars, exchangeVars, receiveVars, listenerVars, childAVars,
            queueVars
    <2> QED BY <1>1, <2>1, OnceQuietly DEF Served
<1>3. CASE PromptChildA
    BY <1>1, <1>3, OnceChild
<1>4. CASE PromptChildB
    <2>1. srvB # Unborn
        <3>1. QueuesOK /\ ChildBInv /\ B!ServerNext
            BY <1>4 DEF SessionInv, PromptChildB, ChildBNext, B!ServerNext
        <3> QED BY <3>1, ChildBMoves
    <2> QED BY <1>1, <2>1, FirstChildServes DEF OneLost
<1>5. CASE ListenerNext
    BY <1>1, <1>5, OnceListener
<1>6. CASE PromptClient
    BY <1>1, <1>6, OnceAsks, OnceHears, OnceTimeout DEF PromptClient
<1>7. CASE Misfortune
    <2>1. /\ listener # "FORK"
          /\ UNCHANGED <<phase, rcv, buffer, out, peer, toClient, origins, toA, faults,
                         windowA, filePosA, srvA, attemptsA>>
        BY <1>7, OnlyRestarts DEF RestartListener, Parent!Restart, Parent!netVars,
            clientVars, exchangeVars, receiveVars, childAVars
    <2>2. Served => Served'
        BY <2>1 DEF Served
    <2> QED BY <1>1, <2>1, <2>2, OnceQuietly
<1> QED BY <1>2, <1>3, <1>4, <1>5, <1>6, <1>7 DEF PromptNext, Idle

\* More losses allow more requests.
LEMMA MoreLosses ==
    ASSUME NEW r \in Nat, NEW f \in {0, 1}, NEW g \in {0, 1}, g >= f, r <= 1 + f
    PROVE  r <= 1 + g
OBVIOUS

\* HeardOnceInv is inductive: what leads to a second request is a loss, and the
\* second request and its answer arrive.
LEMMA HeardOnceNext ==
    ASSUME SessionInv, SessionInv', PromptInv, HeardInv, HeardOnceInv, OnlyLost,
           MaxRequests >= 2, [PromptNext]_vars
    PROVE  HeardOnceInv'
<1> SUFFICES ASSUME OneLost'
             PROVE  HeardOnceInv'
    BY DEF HeardOnceInv
<1>1. /\ TypeOK /\ QueuesOK /\ ListenerInv /\ AskingInv
      /\ OneLost /\ faults \in {0, 1} /\ faults' \in {0, 1} /\ faults' >= faults
      /\ crashes = {} /\ crashes' = {}
      /\ listener # "KILLED"
      /\ Asking => requests <= 1 + faults
      /\ phase = "POLL" /\ requests = 2 => Pending \/ toClient # <<>>
      /\ phase # "DONE"
      /\ faults = 0 => (phase = "POLL" => Pending \/ toClient # <<>>)
    BY OneLostBefore DEF HeardOnceInv, HeardInv, SessionInv, PromptInv, OneLost
<1>2. requests \in Nat
    BY <1>1, SessionAssumption DEF TypeOK, ExchangeL!ExchangeTypeOK
<1>3. CASE PromptChildA
    <2>1. /\ UNCHANGED <<phase, requests, listener, toListener, crashes>>
          /\ A!ServerNext /\ ChildAInv
        BY <1>3 DEF PromptChildA, ChildANext, clientVars, exchangeVars, listenerVars,
            A!ServerNext, SessionInv
    <2>2. toClient # <<>> => toClient' # <<>>
        <3>1. toClient' = toClient \/ \E p : toClient' = Append(toClient, p)
            BY <1>1, <2>1, ChildAMoves
        <3> QED BY <1>1, <3>1 DEF QueuesOK
    <2>3. Asking' => requests' <= 1 + faults'
        BY <1>1, <1>2, <2>1, MoreLosses DEF Asking
    <2>4. phase' = "POLL" /\ requests' = 2 => Pending' \/ toClient' # <<>>
        BY <1>1, <2>1, <2>2 DEF Pending
    <2> QED BY <1>1, <2>1, <2>3, <2>4 DEF HeardOnceInv
<1>4. CASE PromptChildB
    <2>1. srvB # Unborn
        <3>1. QueuesOK /\ ChildBInv /\ B!ServerNext
            BY <1>4 DEF SessionInv, PromptChildB, ChildBNext, B!ServerNext
        <3> QED BY <3>1, ChildBMoves
    <2> QED BY <1>1, <2>1, FirstChildServes
<1>5. CASE ListenerNext
    <2>1. UNCHANGED <<phase, requests>> /\ SentBy("listener")
        BY <1>5 DEF ListenerNext, clientVars, exchangeVars
    <2>2. CASE Parent!Fork
        <3>1. listener = "FORK" /\ listener' = "LISTEN" /\ UNCHANGED <<toClient, toListener, faults>>
            BY <2>2 DEF Parent!Fork, Parent!netVars
        <3> QED BY <1>1, <1>2, <2>1, <3>1 DEF HeardOnceInv, Pending, Asking
    <2>3. CASE /\ Parent!NextPacket(Head(toListener))
               /\ \E p \in ToClient : Parent!SendToClient(p)
               /\ listener' \in {"LISTEN", "FORK"}
        <3>1. phase = "POLL" /\ requests = 2 => toClient' # <<>>
            <4> SUFFICES ASSUME phase = "POLL", requests = 2
                         PROVE  toClient' # <<>>
                OBVIOUS
            <4>1. PICK p \in ToClient : Parent!SendToClient(p)
                BY <2>3
            <4>2. faults = 1 /\ faults' # faults + 1
                BY <1>1 DEF Asking
            <4>3. toClient' = <<p>>
                BY <2>1, <2>3, <4>1, <4>2, AnswerOrLoss DEF Asking
            <4>4. <<p>> # <<>>
                OBVIOUS
            <4> QED BY <4>3, <4>4
        <3>2. Asking' => requests' <= 1 + faults'
            BY <1>1, <1>2, <2>1, MoreLosses DEF Asking
        <3> QED BY <1>1, <2>1, <2>3, <3>1, <3>2 DEF HeardOnceInv
    <2> QED BY <1>5, <2>2, <2>3, ListenerActs
<1>6. CASE ClientStep /\ phase = "RECEIVE_DATA"
    BY <1>1, <1>6, ReceivingMoves DEF HeardOnceInv, Asking
<1>7. CASE ClientStep /\ phase # "RECEIVE_DATA"
    <2>1. /\ UNCHANGED <<listener, crashes>>
          /\ \/ phase' \in {"RECEIVE_DATA", "NO_FILE"}
             \/ /\ phase = "SEND_FILENAME"
                /\ ExchangeL!send_filename \/ ExchangeL!OutOfRequests
        BY <1>7, AskingMoves
    <2>2. CASE phase' \in {"RECEIVE_DATA", "NO_FILE"}
        BY <1>1, <2>1, <2>2 DEF HeardOnceInv, Asking
    <2>3. CASE phase = "SEND_FILENAME" /\ ExchangeL!OutOfRequests
        <3>1. requests > MaxRequests /\ requests <= 2 /\ MaxRequests \in Nat
            BY <1>1, <1>2, <2>3, SessionAssumption DEF ExchangeL!OutOfRequests, Asking
        <3> QED BY <1>2, <3>1
    <2>4. CASE phase = "SEND_FILENAME" /\ ExchangeL!send_filename
        <3>1. /\ phase' = "POLL" /\ requests' = requests
              /\ ExchangeL!SendToServer(ExchangeL!Request)
            BY <2>4 DEF ExchangeL!send_filename
        <3>2. toListener = <<>>
            BY <1>1, <2>4 DEF AskingInv, Asking, BeingServed, Pending
        <3>3. requests = 2 => Pending'
            <4> SUFFICES ASSUME requests = 2
                         PROVE  Pending'
                OBVIOUS
            <4>1. faults = 1 /\ faults' = 1
                BY <1>1, <2>4 DEF Asking
            <4>2. PICK fate \in ExchangeL!Fates(ClientErrors) :
                    /\ faults' = faults + ExchangeL!Cost(fate)
                    /\ toListener' = ExchangeL!Put(toListener, fate, ExchangeL!Request)
                BY <3>1 DEF ExchangeL!SendToServer
            <4>3. fate = "sent"
                BY <4>1, <4>2 DEF ExchangeL!Cost
            <4>4. Len(<<>>) = 0 /\ ~(0 >= QueueCap)
                BY SessionAssumption
            <4>5. toListener' = Append(<<>>, ExchangeL!Request)
                BY <3>2, <4>2, <4>3, <4>4 DEF ExchangeL!Put
            <4>6. Append(<<>>, ExchangeL!Request) # <<>>
                OBVIOUS
            <4> QED BY <1>1, <2>1, <4>5, <4>6 DEF Pending
        <3>4. requests' <= 1 + faults'
            BY <1>1, <1>2, <2>4, <3>1, MoreLosses DEF Asking
        <3> QED BY <1>1, <2>1, <3>1, <3>3, <3>4 DEF HeardOnceInv
    <2> QED BY <2>1, <2>2, <2>3, <2>4
\* rcopy's poll ends only for the request that was lost, or whose answer was.
<1>8. CASE RequestTimeout /\ ListenerWaiting
    <2>1. /\ phase = "POLL" /\ toClient = <<>> /\ phase' = "SEND_FILENAME"
          /\ requests' = requests + 1 /\ UNCHANGED <<faults, listener>>
        BY <1>8 DEF RequestTimeout, ExchangeL!NoAnswer, ExchangeL!netVars, listenerVars
    <2>2. ~Pending
        BY <1>1, <1>8 DEF ListenerWaiting, ListenerGone, Pending, ListenerInv
    <2>3. faults = 1 /\ requests # 2
        BY <1>1, <2>1, <2>2
    <2>4. requests' <= 2
        BY <1>1, <1>2, <2>1, <2>3 DEF Asking
    <2> QED BY <1>1, <2>1, <2>3, <2>4 DEF HeardOnceInv, Asking
<1>9. CASE DataTimeout
    BY <1>1, <1>9 DEF DataTimeout, exchangeVars, listenerVars, HeardOnceInv, Asking
<1>10. CASE Misfortune
    <2>1. RestartListener
        BY <1>10, OnlyRestarts
    <2>2. listener \in {"KILLED", "CRASHED"}
        BY <2>1 DEF RestartListener, Parent!Restart
    <2> QED BY <1>1, <2>2 DEF ListenerInv
<1>11. CASE UNCHANGED vars
    BY <1>1, <1>11 DEF vars, clientVars, exchangeVars, listenerVars, queueVars, HeardOnceInv,
        Pending, Asking
<1> QED BY <1>3, <1>4, <1>5, <1>6, <1>7, <1>8, <1>9, <1>10, <1>11
        DEF PromptNext, PromptClient, Idle

\* Nothing has been sent, so nothing is lost.
LEMMA OnceInit == ASSUME Init PROVE OnceInv /\ HeardOnceInv
<1>1. /\ phase = "SEND_FILENAME" /\ requests = 1 /\ listener = "LISTEN"
      /\ rcv = "INORDER" /\ buffer = buffer_init(0) /\ out = <<>>
      /\ windowA = buffer_init(BufferSize) /\ filePosA = 0 /\ srvA = Unborn /\ attemptsA = 0
      /\ srvB = Unborn
      /\ toClient = <<>> /\ origins = <<>> /\ toA = <<>>
      /\ faults = 0
    BY DEF Init, ExchangeL!ExchangeInit, ReceiveL!RcopyInit, Parent!ListenerInit,
        buffer_init, ReceiveL!buffer_init, Slots, ReceiveL!Slots
<1>2. /\ servWindow = buffer_init(BufferSize) /\ servPlace = "SEND_DATA"
      /\ servAttempts = 0 /\ servQueue = <<>> /\ servData = <<>>
    BY <1>1 DEF servWindow, servPlace, servAttempts, servQueue, servData, PlaceOf
<1>3. HeardOnceInv
    BY <1>1 DEF HeardOnceInv
<1>4. rcv # "ABORTED" /\ phase # "RECEIVE_DATA"
    BY <1>1
<1>5. OneToHear
    <2>1. Listening => UnharmedInv /\ Unharmed
        BY <1>1, UnharmedInit DEF Unharmed, Init
    <2>2. Listening
        BY <1>1 DEF Listening, Underway, ReceiveL!Gone
    <2> QED BY <2>1, <2>2 DEF UnharmedInv
<1>6. T!Early(0, NumChunks)
    <2>1. T!Behind(0) = <<>> /\ T!Missing(NumChunks) = 0
        BY <1>2, SessionAssumption DEF T!Behind, T!Missing, T!One
    <2>2. Len(T!Behind(0)) = 0 /\ T!DataIn(T!Behind(0), 0, NumChunks)
        BY <2>1 DEF T!DataIn
    <2> QED BY <1>1, <1>2, <2>1, <2>2, SessionAssumption
            DEF T!Early, T!Stopped, T!EofStates, buffer_init
<1>7. FirstWindow
    <2>1. ~AnswerNext /\ NumChunks \in 0..NumChunks
        BY <1>1, SessionAssumption DEF AnswerNext
    <2> QED BY <1>1, <1>6, <2>1 DEF FirstWindow
<1> QED BY <1>3, <1>4, <1>5, <1>7 DEF OnceInv

\* So whoever has ended has the file, or was told that there is none.
LEMMA OnceServes ==
    ASSUME SessionInv, PromptInv, OnceInv, HeardOnceInv
    PROVE  ServedAfterOneLoss
<1> SUFFICES ASSUME ClientGone, OneLost
             PROVE  IF fileExists THEN rcv = "EXIT" ELSE phase = "NO_FILE"
    BY DEF ServedAfterOneLoss, OneLost
<1>1. /\ phase # "DONE" /\ rcv # "ABORTED"
      /\ phase = "RECEIVE_DATA" => fileExists
      /\ phase = "NO_FILE" => ~fileExists
      /\ Asking => rcv = "INORDER"
      /\ phase \in {"SEND_FILENAME", "POLL", "RECEIVE_DATA", "NO_FILE", "DONE"}
    BY DEF OnceInv, HeardOnceInv, SessionInv, PromptInv, AnswerIsTrue, AskingInv, TypeOK,
        ExchangeL!ExchangeTypeOK, ExchangeL!Phases, OneLost
<1>2. phase = "NO_FILE" \/ (rcv = "EXIT" /\ phase = "RECEIVE_DATA")
    BY <1>1 DEF ClientGone, ReceiveL!Gone, Asking
<1> QED BY <1>1, <1>2

\* Whatever single packet is lost, be it the request, its answer, a chunk, the EOF or
\* an acknowledgment, rcopy ends with the whole file or is told that there is none,
\* if nobody is killed: with two attempts and two requests at least (the code has 10
\* of each), and if a socket holds a window and one packet more and the ring holds
\* rcopy's window.  (server.c server_FSM, rcopy.c filename_exchange, handle_inorder,
\* handle_buffer, handle_flush.)
THEOREM ServedAfterOneLossAlways ==
    ASSUME OnlyLost, FewLosses, RoomForOne, MaxAttempts >= 2, MaxRequests >= 2
    PROVE  PromptSpec => []ServedAfterOneLoss
<1>1. BufferSize <= WindowSize /\ RoomForAnswer
    BY OnceSetting DEF RoomForOne
<1>2. Init => UnharmedInv /\ HeardInv /\ OnceInv /\ HeardOnceInv
    BY UnharmedInit, OnceInit
<1>3. SessionInv /\ SessionInv' /\ PromptInv /\ PromptInv' /\ ServedInv /\ UnharmedInv
        /\ [PromptNext]_vars => UnharmedInv'
    BY <1>1, UnharmedNext
<1>4. SessionInv /\ SessionInv' /\ PromptInv /\ HeardInv /\ [PromptNext]_vars => HeardInv'
    BY HeardNext
<1>5. SessionInv /\ SessionInv' /\ PromptInv /\ PromptInv' /\ ServedInv /\ ServedInv'
        /\ UnharmedInv /\ OnceInv /\ [PromptNext]_vars => OnceInv'
    BY OnceNext
<1>6. SessionInv /\ SessionInv' /\ PromptInv /\ HeardInv /\ HeardOnceInv /\ [PromptNext]_vars
        => HeardOnceInv'
    BY HeardOnceNext
<1>7. SessionInv /\ PromptInv /\ OnceInv /\ HeardOnceInv => ServedAfterOneLoss
    BY OnceServes
<1>8. PromptSpec => []ServedInv
    BY <1>1, ServedInvAlways
<1> QED BY <1>2, <1>3, <1>4, <1>5, <1>6, <1>7, <1>8, PromptIsSpec, SessionInvAlways,
        PromptInvAlways, PTL DEF PromptSpec
================================================================================
