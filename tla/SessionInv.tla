------------------------------ MODULE SessionInv ------------------------------
(***************************************************************************)
(* The inductive invariant of a session of any timing: what is on its way  *)
(* to each process, and what each child has, that makes what rcopy and the *)
(* children believe true.                                                  *)
(***************************************************************************)
EXTENDS Session

InFlight(q) == {q[i] : i \in 1..Len(q)}

\* The packets of rcopy's queue and of the server's queues.
ToClient == [flag : Nat, seq : Nat, data : Payload]

ToServer == {p \in ToClient : p.flag \in {FLAG_RR, FLAG_SREJ} => p.data \in Nat}

QueuesOK ==
    /\ toClient \in Seq(ToClient)
    /\ {toListener, toA, toB} \subseteq Seq(ToServer)
    /\ faults \in Nat

\* A child with its queue q.  It has sent what it has read, it is past the end
\* of the file only at the end, and neither it nor its queue holds a number
\* rcopy has not reached.
ChildInv(w, pos, s, n, q) ==
    /\ w \in CircularBuffer
    /\ pos \in 0..NumChunks
    /\ s \in A!ServerStates \cup {Unborn, Killed}
    /\ n \in 0..MaxAttempts
    /\ s \notin A!Stopped => n < MaxAttempts
    /\ w.current = pos
    /\ s \in A!EofStates => pos = NumChunks
    /\ s # Unborn => fileExists
    /\ w.lowest <= buffer.current
    /\ \A p \in InFlight(q) : p.flag = FLAG_RR => p.data <= buffer.current

ChildAInv == ChildInv(windowA, filePosA, srvA, attemptsA, toA)
ChildBInv == ChildInv(windowB, filePosB, srvB, attemptsB, toB)

\* Some child has read the whole file.
WholeFileRead == NumChunks \in {filePosA, filePosB}

\* The packets on their way to rcopy tell the truth.
NewsInv ==
    \A p \in InFlight(toClient) :
        /\ p.flag = FLAG_EOF => p.seq = NumChunks /\ WholeFileRead
        /\ p.flag \in DataFlags \cup {FLAG_FILENAME_ACK} => fileExists
        /\ p.flag = FLAG_FILENAME_ERROR => ~fileExists \/ "fopen" \in crashes

\* Children are born in order, and only for a file that was found.
ForkInv ==
    /\ children = 0 => srvA = Unborn
    /\ children < 2 => srvB = Unborn
    /\ listener = "FORK" => fileExists

\* The numbers and the news of a session are true whatever is lost, killed or
\* late.  (server.c process_rr_srej_eof, processFilenameAck; rcopy.c
\* process_filename_response, handle_inorder.)
SessionInv ==
    /\ TypeOK
    /\ QueuesOK
    /\ ChildAInv
    /\ ChildBInv
    /\ NewsInv
    /\ ForkInv
    /\ NoEarlyExit
    /\ AnswerIsTrue
===============================================================================
