---------------------------- MODULE ServerProcesses ----------------------------
(***************************************************************************)
(* What the processes of the server keep outside of the protocol and copy  *)
(* when they fork: the open descriptors, the poll set and the error        *)
(* injection.                                                              *)
(*                                                                         *)
(* The first process goes round the loop of server_FSM: sendErr_init, a    *)
(* request, its answer, a fork.  It opens a file for each request and      *)
(* never closes it.  A child closes the socket it inherits, opens one of   *)
(* its own, and then sends, polls and receives until it is done; what it   *)
(* sends and when is the subject of module Server.                         *)
(***************************************************************************)
EXTENDS PollSet, ErrorInjector, TLC

CONSTANTS
    Children,           \* the processes that fork may create
    MaxDescriptors,     \* descriptors a process may have open
    InheritedCounts,    \* how many may be open when the server starts
    MaxRounds,          \* bounds the rounds of the loop of server_FSM
    MaxMessages,        \* bounds the messages of a process
    MaxTime             \* bounds the clock

Parent == "parent"

ASSUME ProcessesAssumption ==
    /\ Parent \notin Children
    /\ MaxDescriptors \in Nat \ {0}
    /\ InheritedCounts \subseteq 0..(MaxDescriptors - 1)
    /\ MaxRounds \in Nat /\ MaxMessages \in Nat /\ MaxTime \in Nat

Processes == {Parent} \cup Children

VARIABLES
    env,        \* the environment, the same for all
    now,        \* the clock at the last call of sendErr_init, in seconds
    pc,         \* INIT, LISTEN, FORK; UNBORN, RUN, GONE
    rounds,     \* times sendErr_init was called
    open,       \* per process: the descriptors in use
    sock,       \* per process: its socket
    poll,       \* per process: its poll set
    lib,        \* per process: its error injection
    fate,       \* per process: what became of its last packet
    waiting     \* children with a packet in their socket

vars == <<env, now, pc, rounds, open, sock, poll, lib, fate, waiting>>

Descriptors == 0..(MaxDescriptors - 1)

\* What open, fopen and socket return.
NewDescriptor(used, d) ==
    /\ d \in Descriptors \ used
    /\ \A e \in Descriptors \ used : d <= e

\* main, up to server_FSM; the settings manager runs before main.
Init ==
    /\ env \in Environments
    /\ now = 0
    /\ pc = [p \in Processes |-> IF p = Parent THEN "INIT" ELSE "UNBORN"]
    /\ rounds = 0
    /\ \E n \in InheritedCounts :
        /\ open = [p \in Processes |-> IF p = Parent THEN 0..n ELSE {}]
        /\ sock = [p \in Processes |-> n]
        /\ poll = [p \in Processes |-> addToPollSet(setupPollSet, n)]
    /\ lib = [p \in Processes |-> SettingsManager(env, now)]
    /\ fate = [p \in Processes |-> "none"]
    /\ waiting = {}

\* sendto_Err: the message number, then the events.
sendto_Err(p) ==
    LET msgNo == lib[p].msgNo + 1 IN
    /\ msgNo <= MaxMessages
    /\ lib' = [lib EXCEPT ![p].msgNo = msgNo]
    /\ \E drawn \in Drawn(lib[p]) :
        fate' = [fate EXCEPT ![p] = processEvents(lib[p], msgNo, drawn)]

EnterLoop ==
    /\ pc[Parent] = "INIT"
    /\ rounds < MaxRounds
    /\ rounds' = rounds + 1
    /\ pc' = [pc EXCEPT ![Parent] = "LISTEN"]
    /\ now' \in now..MaxTime
    /\ lib' = [lib EXCEPT ![Parent] = sendErr_init(env, @, now')]
    /\ UNCHANGED <<env, open, sock, poll, fate, waiting>>

\* Ten damaged packets in a row.
NoRequest ==
    /\ pc[Parent] = "LISTEN"
    /\ pc' = [pc EXCEPT ![Parent] = "INIT"]
    /\ UNCHANGED <<env, now, rounds, open, sock, poll, lib, fate, waiting>>

\* A request for a file that does not exist, or for any file when there is no
\* descriptor left for it.
RefuseRequest ==
    /\ pc[Parent] = "LISTEN"
    /\ sendto_Err(Parent)
    /\ pc' = [pc EXCEPT ![Parent] = "INIT"]
    /\ UNCHANGED <<env, now, rounds, open, sock, poll, waiting>>

AcceptRequest ==
    /\ pc[Parent] = "LISTEN"
    /\ \E d \in Descriptors :
        /\ NewDescriptor(open[Parent], d)
        /\ open' = [open EXCEPT ![Parent] = @ \cup {d}]
    /\ sendto_Err(Parent)
    /\ pc' = [pc EXCEPT ![Parent] = "FORK"]
    /\ UNCHANGED <<env, now, rounds, sock, poll, waiting>>

ForkFails ==
    /\ pc[Parent] = "FORK"
    /\ pc' = [pc EXCEPT ![Parent] = "INIT"]
    /\ lib' = [lib EXCEPT ![Parent] = ForkedParent(@)]
    /\ UNCHANGED <<env, now, rounds, open, sock, poll, fate, waiting>>

\* fork, and the child up to its loop.
Fork(c) ==
    LET inherited == open[Parent] \ {sock[Parent]} IN
    /\ pc[Parent] = "FORK"
    /\ pc[c] = "UNBORN"
    /\ pc' = [pc EXCEPT ![Parent] = "INIT", ![c] = "RUN"]
    /\ lib' = [lib EXCEPT ![Parent] = ForkedParent(@), ![c] = ForkedChild(env, lib[Parent])]
    /\ fate' = [fate EXCEPT ![c] = fate[Parent]]
    /\ \E d \in Descriptors :
        /\ NewDescriptor(inherited, d)
        /\ open' = [open EXCEPT ![c] = inherited \cup {d}]
        /\ sock' = [sock EXCEPT ![c] = d]
        /\ poll' = [poll EXCEPT
                        ![c] = addToPollSet(removeFromPollSet(poll[Parent], sock[Parent]), d)]
    /\ UNCHANGED <<env, now, rounds, waiting>>

ChildSend(c) ==
    /\ pc[c] = "RUN"
    /\ sendto_Err(c)
    /\ UNCHANGED <<env, now, pc, rounds, open, sock, poll, waiting>>

\* What poll finds data at: the child's socket, and perhaps standard input.
Readable(c) == (IF c \in waiting THEN {sock[c]} ELSE {}) \cup ({0} \ {sock[c]})

ChildReceive(c) ==
    /\ pc[c] = "RUN"
    /\ pollCall(poll[c], Readable(c), {}) = sock[c]
    /\ waiting' = waiting \ {c}
    /\ UNCHANGED <<env, now, pc, rounds, open, sock, poll, lib, fate>>

\* rcopy's packets find the child's socket; external to the process.
PacketArrives(c) ==
    /\ pc[c] = "RUN"
    /\ c \notin waiting
    /\ waiting' = waiting \cup {c}
    /\ UNCHANGED <<env, now, pc, rounds, open, sock, poll, lib, fate>>

ChildExit(c) ==
    /\ pc[c] = "RUN"
    /\ pc' = [pc EXCEPT ![c] = "GONE"]
    /\ open' = [open EXCEPT ![c] = {}]
    /\ waiting' = waiting \ {c}
    /\ UNCHANGED <<env, now, rounds, sock, poll, lib, fate>>

\* The end of the bounded model; the code goes on.
RoundsExhausted ==
    /\ rounds = MaxRounds
    /\ pc[Parent] = "INIT"
    /\ UNCHANGED vars

ParentNext == EnterLoop \/ NoRequest \/ RefuseRequest \/ AcceptRequest \/ ForkFails

ChildNext(c) == Fork(c) \/ ChildSend(c) \/ ChildReceive(c) \/ PacketArrives(c) \/ ChildExit(c)

Next == ParentNext \/ (\E c \in Children : ChildNext(c)) \/ RoundsExhausted

Spec == Init /\ [][Next]_vars

\* The children are alike.
Symmetry == Permutations(Children)

Running(c) == pc[c] = "RUN"

\* The types of the variables.
TypeOK ==
    /\ env \in Environments
    /\ now \in 0..MaxTime
    /\ rounds \in 0..MaxRounds
    /\ pc[Parent] \in {"INIT", "LISTEN", "FORK"}
    /\ \A c \in Children : pc[c] \in {"UNBORN", "RUN", "GONE"}
    /\ \A p \in Processes :
        /\ open[p] \subseteq Descriptors
        /\ sock[p] \in Descriptors
        /\ PollSetOK(poll[p])
        /\ InjectorOK(lib[p])
        /\ fate[p] \in {"none", "sent", "drop", "flip"}
    /\ waiting \subseteq Children

\* A child that polls learns of a packet in its own socket and of nothing else,
\* whatever it inherited from the first process, as long as standard input is
\* not hung up (pollCall, addToPollSet after removeFromPollSet in server_FSM).
ChildFindsItsPackets ==
    \A c \in Children : Running(c) =>
        pollCall(poll[c], Readable(c), {}) = IF c \in waiting THEN sock[c] ELSE TIMEOUT

\* The environment wins over the program, in the first process and in every
\* child, however often sendErr_init was called and whatever a fork does: the
\* listed messages and no others are dropped, nothing is changed where the
\* program's wish for flips is overridden, and no process takes another seed.
OverridesWin ==
    \A p \in Processes :
        /\ env.seedSet => lib[p].seed = OverrideSeed
        /\ fate[p] # "none" =>
            /\ env.drop = "numbers" => (fate[p] = "drop" <=> lib[p].msgNo \in DropList)
            /\ env.flip = "numbers" => fate[p] # "flip"

\* The calls of sendErr_init add up, but drops and flips stay equally likely in
\* every process if the environment says the same of both.
MixIsKept ==
    \A p \in Processes :
        env.drop = env.flip => CountOf("drop", lib[p].chance) = CountOf("flip", lib[p].chance)
================================================================================
