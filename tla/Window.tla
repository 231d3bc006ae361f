-------------------------------- MODULE Window --------------------------------
(***************************************************************************)
(* The CircularBuffer of buffer.c.  The server's child keeps the chunks it *)
(* may have to send again in one, rcopy the chunks that came too early in  *)
(* another.  A chunk lives in the slot sequence_num % size, and buffer_add *)
(* does not look at what the slot held.                                    *)
(***************************************************************************)
EXTENDS Packets

CONSTANTS
    WindowSize,     \* rcopy's argument: packets in the window
    BufferSize      \* rcopy's argument: bytes of a chunk

ASSUME SizeAssumption ==
    /\ WindowSize \in Nat \ {0}
    /\ BufferSize \in Nat \ {0}

Slots == 0..(WindowSize - 1)

Slot(s) == s % WindowSize

BufferEntry == [valid_flag : BOOLEAN, sequence_num : Int, data : Payload]

CircularBuffer ==
    [highest : Nat, lowest : Nat, current : Nat, entries : [Slots -> BufferEntry]]

\* malloc leaves data and data_len as they are.
buffer_init(highest) ==
    [highest |-> highest,
     lowest |-> 0,
     current |-> 0,
     entries |-> [i \in Slots |-> [valid_flag |-> FALSE, sequence_num |-> -1, data |-> Uninit]]]

buffer_add(w, s, d) ==
    [w EXCEPT !.entries[Slot(s)] = [valid_flag |-> TRUE, sequence_num |-> s, data |-> d]]

Entry(w, s) == w.entries[Slot(s)]
===============================================================================
