-------------------------------- MODULE PollSet --------------------------------
(***************************************************************************)
(* The poll set of pollLib: an array with an entry for every descriptor    *)
(* below its size, and how much of it is handed to poll.                   *)
(*                                                                         *)
(* An entry that was never added, or was removed, is not empty: it asks    *)
(* for descriptor 0 without any event.  poll reports data only where it    *)
(* was asked for, but a hang-up always, so standard input can be reported  *)
(* though nobody added it.                                                 *)
(***************************************************************************)
EXTENDS Integers

CONSTANT PollSetSize    \* POLL_SET_SIZE

ASSUME PollSetAssumption == PollSetSize \in Nat \ {0}

pollfd == [fd : Nat, pollIn : BOOLEAN]

Unused == [fd |-> 0, pollIn |-> FALSE]

setupPollSet ==
    [entries |-> [i \in 0..(PollSetSize - 1) |-> Unused],
     currentPollSetSize |-> PollSetSize,
     maxFileDescriptor |-> 0]

growPollSet(ps, newSetSize) ==
    [entries |-> [i \in 0..(newSetSize - 1) |->
                    IF i < ps.currentPollSetSize THEN ps.entries[i] ELSE Unused],
     currentPollSetSize |-> newSetSize,
     maxFileDescriptor |-> ps.maxFileDescriptor]

\* Mutant of WithRoomFor: a descriptor equal to the size finds no entry.
WithRoomForLess(ps, socketNumber) ==
    IF socketNumber > ps.currentPollSetSize
    THEN growPollSet(ps, socketNumber + PollSetSize)
    ELSE ps

WithRoomFor(ps, socketNumber) ==
    IF socketNumber >= ps.currentPollSetSize
    THEN growPollSet(ps, socketNumber + PollSetSize)
    ELSE ps

\* Mutant of addToPollSet: the last entry is not handed to poll.
addToPollSetShort(ps, socketNumber) ==
    [WithRoomFor(ps, socketNumber) EXCEPT
        !.maxFileDescriptor = IF socketNumber >= @ THEN socketNumber ELSE @,
        !.entries = [@ EXCEPT ![socketNumber] = [fd |-> socketNumber, pollIn |-> TRUE]]]

addToPollSet(ps, socketNumber) ==
    [WithRoomFor(ps, socketNumber) EXCEPT
        !.maxFileDescriptor = IF socketNumber + 1 >= @ THEN socketNumber + 1 ELSE @,
        !.entries = [@ EXCEPT ![socketNumber] = [fd |-> socketNumber, pollIn |-> TRUE]]]

removeFromPollSet(ps, socketNumber) ==
    [ps EXCEPT !.entries = [@ EXCEPT ![socketNumber] = Unused]]

\* The entries poll finds something for.
Reported(ps, readable, hungUp) ==
    {i \in 0..(ps.maxFileDescriptor - 1) :
        \/ ps.entries[i].pollIn /\ ps.entries[i].fd \in readable
        \/ ps.entries[i].fd \in hungUp}

TIMEOUT == -1

\* The lowest of them, or that there is none.
pollCall(ps, readable, hungUp) ==
    LET ready == Reported(ps, readable, hungUp) IN
    IF ready = {} THEN TIMEOUT ELSE CHOOSE i \in ready : \A j \in ready : i <= j

\* What is handed to poll lies within the array.
PollSetOK(ps) ==
    LET size == ps.currentPollSetSize IN
    /\ size \in Nat \ {0}
    /\ ps \in [entries : [0..(size - 1) -> pollfd],
               currentPollSetSize : {size},
               maxFileDescriptor : 0..size]

\* s is the only descriptor the set asks poll about.
PollsOnly(ps, s) ==
    /\ s \in 0..(ps.maxFileDescriptor - 1)
    /\ ps.entries[s] = [fd |-> s, pollIn |-> TRUE]
    /\ \A i \in 0..(ps.currentPollSetSize - 1) : i # s => ps.entries[i] = Unused
================================================================================
