------------------------------- MODULE Checksum -------------------------------
(***************************************************************************)
(* The checksum of one packet: in_cksum as build_packet calls it, on the   *)
(* packet with 0 in the checksum field, and as the receiver calls it, on   *)
(* what arrives, where errorFlipBits may have inverted one byte.           *)
(*                                                                         *)
(* Both calls run the same loop over the same positions, so a step here is *)
(* a turn of both.  The bytes are chosen when the loops come to them; the  *)
(* contents of the checksum field are chosen at the start, and the packets *)
(* that build_packet really makes are those in which they turn out to be   *)
(* the result of its call (Built).                                         *)
(***************************************************************************)
EXTENDS Integers

CONSTANTS
    ByteSize,   \* 256 in the code
    Lengths     \* lengths of packets, with the header; at most MAX_PDU in the code

\* The header before the checksum field, and all of it.
FieldOffset == 4
HeaderSize == 7

WordSize == ByteSize * ByteSize
MaxWord == WordSize - 1

\* Up to here the carries fit in the low half.
ASSUME ChecksumAssumption ==
    /\ ByteSize \in Nat
    /\ ByteSize > 1
    /\ ByteSize % 2 = 0
    /\ Lengths \subseteq HeaderSize..(WordSize - 2)

VARIABLES
    len,
    nleft,      \* bytes the loops have not come to yet; 0 also after the odd byte
    field,      \* what is sent in the checksum field
    flipped,    \* errorFlipBits has inverted a byte the loops have passed
    built,      \* `sum' in the call by build_packet
    checked     \* `sum' in the receiver's call

vars == <<len, nleft, field, flipped, built, checked>>

Byte == 0..(ByteSize - 1)

\* *w: the byte at the lower address is the low one.
Short(lo, hi) == lo + ByteSize * hi

Inverted(b) == ByteSize - 1 - b

\* Mutant of Folded: the carry of the first sum is lost.
FoldedOnce(sum) == (sum \div WordSize) + (sum % WordSize)

\* The two lines that add back the carries.
Folded(sum) ==
    LET once == (sum \div WordSize) + (sum % WordSize)
    IN  once + (once \div WordSize)

\* answer = ~sum, truncated to 16 bits.
Answer(sum) == MaxWord - (Folded(sum) % WordSize)

Init ==
    /\ len \in Lengths
    /\ nleft = len
    /\ field \in 0..MaxWord
    /\ flipped = FALSE
    /\ built = 0
    /\ checked = 0

InField == len - nleft = FieldOffset

\* A word that arrives as it was sent, or with one byte inverted if none was
\* before.
Arrives(lo, hi) ==
    \/ /\ checked' = checked + Short(lo, hi)
       /\ UNCHANGED flipped
    \/ /\ ~flipped
       /\ checked' \in {checked + Short(Inverted(lo), hi), checked + Short(lo, Inverted(hi))}
       /\ flipped' = TRUE

\* sum += *w++; nleft -= 2.
AddWord ==
    /\ nleft > 1
    /\ \E lo, hi \in Byte :
        /\ InField => field = Short(lo, hi)
        /\ built' = built + (IF InField THEN 0 ELSE Short(lo, hi))
        /\ Arrives(lo, hi)
    /\ nleft' = nleft - 2
    /\ UNCHANGED <<len, field>>

\* Mutant of MopUp: the odd byte is not added.
MopUpNot ==
    /\ nleft = 1
    /\ flipped' \in {flipped, TRUE}
    /\ nleft' = 0
    /\ UNCHANGED <<len, field, built, checked>>

\* `answer' is 0 before the byte is stored in its first half.
MopUp ==
    /\ nleft = 1
    /\ \E b \in Byte :
        /\ built' = built + b
        /\ \/ checked' = checked + b /\ UNCHANGED flipped
           \/ ~flipped /\ checked' = checked + Inverted(b) /\ flipped' = TRUE
    /\ nleft' = 0
    /\ UNCHANGED <<len, field>>

Finished == nleft = 0

Next == AddWord \/ MopUp \/ (Finished /\ UNCHANGED vars)

Spec == Init /\ [][Next]_vars

\* build_packet copied its result into the field.
Built == field = Answer(built)

------------------------------------------------------------------------------
\* A packet that arrives as it was sent passes the receiver's test, whatever
\* its length and contents are.  (in_cksum, build_packet.)
GenuineAccepted ==
    Finished /\ Built /\ ~flipped => Answer(checked) = 0

\* A packet with one byte inverted, in the checksum field or outside of it, does
\* not.  (errorFlipBits; the test in_cksum(...) != 0 of every receiver.)
FlipDetected ==
    Finished /\ Built /\ flipped => Answer(checked) # 0

\* Which multiple of the largest word separates the two sums is how the code
\* tells, so everything rests on what lies between them: the field, and less
\* than that number if a byte was inverted.
Difference == checked - built - (IF len - nleft > FieldOffset THEN field ELSE 0)

ChecksumInv ==
    /\ len \in Lengths
    /\ nleft \in 0..len
    /\ len - nleft \in {0, 2, 4} \/ len - nleft >= 6
    /\ field \in 0..MaxWord
    /\ flipped \in BOOLEAN
    /\ built \in Nat /\ built <= MaxWord * (len - nleft)
    /\ checked \in Nat /\ checked <= MaxWord * (len - nleft)
    /\ IF flipped
       THEN /\ Difference # 0
            /\ Difference < MaxWord
            /\ Difference > -MaxWord
       ELSE Difference = 0
===============================================================================
