------------------------------- MODULE Packets -------------------------------
(***************************************************************************)
(* The packets rcopy and server exchange (communication.h,                 *)
(* communication.c, and the two acknowledgment builders of rcopy.c).       *)
(*                                                                         *)
(* A packet is a 4-byte sequence number, a 2-byte checksum, a 1-byte flag  *)
(* and a payload.  The model keeps the sequence number, the flag and the   *)
(* payload.  A file chunk is identified by its position in the file, so a  *)
(* payload is a chunk number, the number an RR or an SREJ carries, or      *)
(* NoData for a packet that is only a header.  The checksum is kept by     *)
(* what it does: a packet with a byte flipped on the way is Corrupted, and *)
(* that is all its receiver learns of it.                                  *)
(***************************************************************************)
EXTENDS Integers, Sequences

CONSTANTS
    NoData,     \* an empty payload
    Uninit      \* whatever malloc left in a BufferEntry that was never filled

ASSUME PayloadAssumption ==
    /\ NoData \notin Int
    /\ Uninit \notin Int
    /\ NoData # Uninit

FLAG_RR == 5
FLAG_SREJ == 6
FLAG_FILENAME == 8
FLAG_FILENAME_ACK == 9
FLAG_EOF == 10
FLAG_DATA == 16
FLAG_RESENT_DATA == 17
FLAG_RESENT_TIMEOUT == 18
FLAG_FILENAME_ERROR == 32

Payload == Nat \cup {NoData, Uninit}

build_packet(seq, flag, payload) ==
    [flag |-> flag, seq |-> seq, data |-> payload]

\* RR and SREJ are built with sequence number 0; the number they are about is
\* the payload.
RR(n) == build_packet(0, FLAG_RR, n)
SREJ(n) == build_packet(0, FLAG_SREJ, n)

Corrupted == build_packet(0, 0, NoData)

BadChecksum(p) == p = Corrupted

\* What the server's child sends to rcopy, and what rcopy sends to it.
DataFlags == {FLAG_DATA, FLAG_RESENT_DATA, FLAG_RESENT_TIMEOUT}

ClientBound ==
    [flag : DataFlags \cup {FLAG_EOF}, seq : Nat, data : Payload]
        \cup {Corrupted}

ServerBound ==
    [flag : {FLAG_RR, FLAG_SREJ}, seq : {0}, data : Nat]
        \cup {build_packet(0, FLAG_EOF, NoData), Corrupted}
==============================================================================
