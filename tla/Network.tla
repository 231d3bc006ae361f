------------------------------- MODULE Network -------------------------------
(***************************************************************************)
(* The two directions of the UDP conversation between rcopy and the        *)
(* server's child process, and the error injection of libcpe464 that sits  *)
(* inside every sendtoErr.                                                 *)
(*                                                                         *)
(* A direction is the receiver's socket queue, oldest packet first.        *)
(* sendtoErr gives each packet a fate: sent unchanged, dropped, or sent    *)
(* with one byte changed.  A packet that finds the socket queue full is    *)
(* lost, as the kernel does it.  UDP itself may also deliver a packet      *)
(* twice or out of order; NetFaults says which of these a run allows.      *)
(*                                                                         *)
(* `faults' counts the packets that met a bad fate and MaxFaults bounds    *)
(* them: without a bound every packet could be lost for ever.              *)
(***************************************************************************)
EXTENDS Packets

CONSTANTS
    QueueCap,       \* packets a socket queue holds
    MaxFaults,      \* how many packets may meet a bad fate
    ServerErrors,   \* the fates sendtoErr may choose in the server
    ClientErrors,   \* the fates sendtoErr may choose in rcopy
    NetFaults       \* what the network itself may do

ASSUME NetworkAssumption ==
    /\ QueueCap \in Nat \ {0}
    /\ MaxFaults \in Nat
    /\ ServerErrors \subseteq {"drop", "flip"}
    /\ ClientErrors \subseteq {"drop", "flip"}
    /\ NetFaults \subseteq {"duplicate", "reorder"}

VARIABLES
    toClient,   \* packets waiting in rcopy's socket
    toServer,   \* packets waiting in the child's socket
    faults

netVars == <<toClient, toServer, faults>>

NetInit ==
    /\ toClient = <<>>
    /\ toServer = <<>>
    /\ faults = 0

\* The packets of a queue, without their order.
InFlight(q) == {q[i] : i \in 1..Len(q)}

Fates(kinds) == {"sent"} \cup kinds

Cost(fate) == IF fate = "sent" THEN 0 ELSE 1

\* The queue once packet p has been sent with that fate.
Put(q, fate, p) ==
    IF fate = "drop" \/ Len(q) >= QueueCap
    THEN q
    ELSE Append(q, IF fate = "flip" THEN Corrupted ELSE p)

SendToClient(p) ==
    \E fate \in Fates(ServerErrors) :
        /\ faults + Cost(fate) <= MaxFaults
        /\ faults' = faults + Cost(fate)
        /\ toClient' = Put(toClient, fate, p)

SendToServer(p) ==
    \E fate \in Fates(ClientErrors) :
        /\ faults + Cost(fate) <= MaxFaults
        /\ faults' = faults + Cost(fate)
        /\ toServer' = Put(toServer, fate, p)

\* Two sends in a row, each with a fate of its own.
SendTwoToServer(p, q) ==
    \E f, g \in Fates(ClientErrors) :
        /\ faults + Cost(f) + Cost(g) <= MaxFaults
        /\ faults' = faults + Cost(f) + Cost(g)
        /\ toServer' = Put(Put(toServer, f, p), g, q)

\* A packet delivered again, behind the packets that are already waiting.
Duplicated(q, r) ==
    \E i \in 1..Len(q) : r = Append(q, q[i])

\* Two packets that overtook each other.
Reordered(q, r) ==
    \E i \in 1..(Len(q) - 1) : r = [q EXCEPT ![i] = q[i + 1], ![i + 1] = q[i]]

NetDuplicate ==
    /\ "duplicate" \in NetFaults
    /\ faults < MaxFaults
    /\ faults' = faults + 1
    /\ \/ /\ Len(toClient) < QueueCap
          /\ Duplicated(toClient, toClient')
          /\ UNCHANGED toServer
       \/ /\ Len(toServer) < QueueCap
          /\ Duplicated(toServer, toServer')
          /\ UNCHANGED toClient

NetReorder ==
    /\ "reorder" \in NetFaults
    /\ faults < MaxFaults
    /\ faults' = faults + 1
    /\ \/ Reordered(toClient, toClient') /\ UNCHANGED toServer
       \/ Reordered(toServer, toServer') /\ UNCHANGED toClient
==============================================================================
