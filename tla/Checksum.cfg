\* Bytes of two bits: the header alone, an even length, and an RR or SREJ.
CONSTANTS
    ByteSize = 4
    Lengths = {7, 8, 11}
SPECIFICATION Spec
INVARIANTS
    ChecksumInv
    GenuineAccepted
    FlipDetected
