---------------------------- MODULE ChecksumProofs ----------------------------
(***************************************************************************)
(* The checksum for every size of a byte and every length of a packet.     *)
(*                                                                         *)
(* Adding back the carries keeps a sum as it is modulo the largest word.   *)
(* The answer is 0 exactly if the sum is a multiple of it and not 0.       *)
(* The receiver's sum is such a multiple in a genuine packet; one inverted *)
(* byte moves it by less than that and not by 0.                           *)
(***************************************************************************)
EXTENDS Checksum, TLAPS

\* The value of two bytes; a difference that is not a multiple of the
\* largest word.
IsWord(n) == n \in Nat /\ n <= MaxWord
Near(d) == d \in Int /\ d # 0 /\ d < MaxWord /\ d > -MaxWord

\* The largest word is one less than a word, and no packet has as many bytes.
LEMMA Sizes ==
    /\ WordSize \in Nat /\ MaxWord \in Nat /\ MaxWord >= 3 /\ WordSize = MaxWord + 1
    /\ \A n \in Lengths : n \in Nat /\ n >= 7 /\ n <= MaxWord - 1
<1>1. ByteSize \in Nat /\ ByteSize >= 2
    BY ChecksumAssumption
<1>2. ByteSize * ByteSize >= 2 * ByteSize
    BY <1>1
<1>3. WordSize \in Nat /\ WordSize >= 4
    BY <1>1, <1>2 DEF WordSize
<1>4. \A n \in Lengths : n \in HeaderSize..(WordSize - 2)
    BY ChecksumAssumption
<1> QED BY <1>3, <1>4 DEF MaxWord, HeaderSize

\* Quotient and remainder.
LEMMA Euclid ==
    ASSUME NEW s \in Nat, NEW w \in Nat, w > 0
    PROVE  /\ s \div w \in Nat
           /\ s % w \in Nat /\ s % w < w
           /\ s = w * (s \div w) + (s % w)
OBVIOUS

\* The remainder is what is left of a whole number of words.
LEMMA Remainder ==
    ASSUME NEW w \in Nat, w > 0, NEW n \in Nat, NEW r \in Nat, NEW k \in Nat,
           n = w * k + r, r < w
    PROVE  n % w = r
OBVIOUS

\* Only 0 is a multiple that is near.
LEMMA NearMultiple ==
    ASSUME NEW m \in Nat, NEW k \in Int, m * k < m, m * k > -m
    PROVE  k = 0
<1>1. ASSUME k >= 1 PROVE m * k >= m
    BY <1>1
<1>2. ASSUME k <= -1 PROVE m * k <= -m
    BY <1>2
<1> QED BY <1>1, <1>2

\* What is left of a sum is a word that has not lost a carry, and is 0 only for
\* the sum 0.
LEMMA FoldKeeps ==
    ASSUME NEW s \in Nat, s <= MaxWord * (MaxWord - 1)
    PROVE  \E q, r \in Nat :
               /\ s = MaxWord * q + r
               /\ r <= MaxWord
               /\ s > 0 => r > 0
               /\ Answer(s) = MaxWord - r
<1> DEFINE W == WordSize
           hi == s \div W
           lo == s % W
           once == hi + lo
           hi1 == once \div W
           lo1 == once % W
<1>1. /\ MaxWord \in Nat /\ W \in Nat /\ W = MaxWord + 1 /\ MaxWord >= 3
    BY Sizes
<1>2. hi \in Nat /\ lo \in Nat /\ lo <= MaxWord /\ s = W * hi + lo
    BY <1>1, Euclid
<1>5. Answer(s) = MaxWord - ((once + hi1) % W)
    BY DEF Answer, Folded, MaxWord
<1> HIDE DEF hi, lo
<1>3. once \in Nat /\ once = hi + lo
    BY <1>2
<1>4. hi1 \in Nat /\ lo1 \in Nat /\ lo1 <= MaxWord /\ once = W * hi1 + lo1
    <2> HIDE DEF W, once
    <2>1. W > 0
        BY <1>1
    <2> QED BY <1>1, <1>3, <2>1, Euclid DEF hi1, lo1
<1> HIDE DEF W, once, hi1, lo1
<1>6. hi <= MaxWord - 1
    <2> SUFFICES ASSUME hi >= MaxWord PROVE FALSE
        BY <1>1, <1>2
    <2>1. W * hi >= W * MaxWord
        BY <1>1, <1>2
    <2>2. W * MaxWord = MaxWord * (MaxWord - 1) + (2 * MaxWord)
        BY <1>1
    <2> QED BY <1>1, <1>2, <2>1, <2>2
<1>7. hi1 = 0 \/ hi1 = 1
    <2> SUFFICES ASSUME hi1 >= 2 PROVE FALSE
        BY <1>4
    <2>1. W * hi1 >= W * 2
        BY <1>1, <1>4
    <2> QED BY <1>1, <1>2, <1>3, <1>4, <1>6, <2>1
<1>8. once + hi1 = W * hi1 + (lo1 + hi1) /\ lo1 + hi1 \in Nat /\ lo1 + hi1 <= MaxWord
    <2>1. CASE hi1 = 0
        BY <1>1, <1>4, <2>1
    <2>2. CASE hi1 = 1
        <3>1. once = W + lo1
            BY <1>1, <1>4, <2>2
        <3> QED BY <1>1, <1>2, <1>3, <1>4, <1>6, <2>2, <3>1
    <2> QED BY <1>7, <2>1, <2>2
<1>9. (once + hi1) % W = lo1 + hi1
    <2>1. once + hi1 \in Nat /\ lo1 + hi1 < W
        BY <1>1, <1>3, <1>4, <1>8
    <2> QED BY <1>1, <1>4, <1>8, <2>1, Remainder
<1>10. s = MaxWord * (hi + hi1) + (lo1 + hi1)
    <2>1. W * hi = (MaxWord * hi) + hi /\ W * hi1 = (MaxWord * hi1) + hi1
        BY <1>1, <1>2, <1>4
    <2>2. MaxWord * (hi + hi1) = (MaxWord * hi) + (MaxWord * hi1)
        BY <1>1, <1>2, <1>4
    <2>3. (MaxWord * hi) \in Int /\ (MaxWord * hi1) \in Int
        BY <1>1, <1>2, <1>4
    <2> QED BY <1>2, <1>3, <1>4, <2>1, <2>2, <2>3
<1>11. s > 0 => lo1 + hi1 > 0
    <2> SUFFICES ASSUME lo1 = 0, hi1 = 0 PROVE s = 0
        BY <1>2, <1>4
    <2>1. once = 0
        BY <1>1, <1>4
    <2>2. hi = 0 /\ lo = 0
        BY <1>2, <1>3, <2>1
    <2> QED BY <1>1, <1>2, <2>2
<1>12. hi + hi1 \in Nat
    BY <1>2, <1>4
<1> QED BY <1>5, <1>8, <1>9, <1>10, <1>11, <1>12

\* The initial state.
LEMMA InvInit ==
    ASSUME Init
    PROVE  ChecksumInv
<1>1. len \in Nat /\ len >= 7 /\ nleft = len /\ built = 0 /\ checked = 0
    BY Sizes DEF Init
<1>2. len - nleft = 0
    BY <1>1
<1>3. MaxWord * (len - nleft) = 0
    BY Sizes, <1>2
<1>4. Difference = 0
    BY <1>1, <1>2 DEF Difference, FieldOffset
<1>5. built <= MaxWord * (len - nleft) /\ checked <= MaxWord * (len - nleft)
    BY <1>1, <1>3
<1>6. nleft \in 0..len /\ len \in Lengths /\ field \in 0..MaxWord /\ flipped = FALSE
    BY <1>1 DEF Init
<1> QED BY <1>1, <1>2, <1>4, <1>5, <1>6 DEF ChecksumInv

\* A word of two bytes, and what inverting one of them does to it.
LEMMA ShortInverted ==
    ASSUME NEW lo \in Byte, NEW hi \in Byte
    PROVE  /\ IsWord(Short(lo, hi))
           /\ IsWord(Short(Inverted(lo), hi))
           /\ IsWord(Short(lo, Inverted(hi)))
           /\ Near(Short(Inverted(lo), hi) - Short(lo, hi))
           /\ Near(Short(lo, Inverted(hi)) - Short(lo, hi))
<1> DEFINE B == ByteSize
<1>1. /\ B \in Nat /\ B >= 2 /\ MaxWord = B * B - 1
      /\ lo \in Nat /\ lo <= B - 1 /\ hi \in Nat /\ hi <= B - 1
    BY ChecksumAssumption DEF Byte, MaxWord, WordSize
<1>2. Inverted(lo) = B - 1 - lo /\ Inverted(hi) = B - 1 - hi
    BY DEF Inverted
<1>3. Short(lo, hi) = lo + B * hi
    BY DEF Short
<1>4. Short(Inverted(lo), hi) = B - 1 - lo + B * hi
    BY <1>2 DEF Short
<1>5. Short(lo, Inverted(hi)) = lo + B * (B - 1 - hi)
    BY <1>2 DEF Short
<1>6. B - 1 - (2 * lo) # 0 /\ B - 1 - (2 * hi) # 0
    BY <1>1, ChecksumAssumption
<1> HIDE DEF B
<1>7. /\ B * hi \in Nat /\ B * hi <= B * B - B
      /\ B * (B - 1 - hi) = (B * B - B) - (B * hi)
    <2>1. B * hi <= B * (B - 1)
        <3>1. \A a, b, c \in Nat : b <= c => a * b <= a * c
            OBVIOUS
        <3>2. B - 1 \in Nat /\ B \in Nat /\ hi \in Nat /\ hi <= B - 1
            BY <1>1
        <3> QED BY <3>1, <3>2
    <2>2. B * (B - 1) = B * B - B /\ B * hi \in Nat
        BY <1>1
    <2>3. B * (B - 1 - hi) = (B * B - B) - (B * hi)
        BY <1>1
    <2> QED BY <2>1, <2>2, <2>3
<1>8. B * B >= 2 * B /\ B * B \in Nat
    BY <1>1
<1>9. /\ IsWord(Short(lo, hi)) /\ IsWord(Short(Inverted(lo), hi))
      /\ IsWord(Short(lo, Inverted(hi)))
    BY <1>1, <1>3, <1>4, <1>5, <1>7, <1>8 DEF IsWord
<1>10. Near(Short(Inverted(lo), hi) - Short(lo, hi))
    BY <1>1, <1>3, <1>4, <1>6, <1>7, <1>8 DEF Near
<1>11. Near(Short(lo, Inverted(hi)) - Short(lo, hi))
    <2> DEFINE d == B * (B - 1 - (2 * hi))
    <2>1. Short(lo, Inverted(hi)) - Short(lo, hi) = (B * B - B) - (2 * (B * hi))
        BY <1>1, <1>3, <1>5, <1>7, <1>8
    <2>2. d = (B * B - B) - (2 * (B * hi))
        BY <1>1
    <2>3. d # 0
        BY <1>1, <1>6
    <2> HIDE DEF d
    <2> QED BY <1>1, <1>7, <1>8, <2>1, <2>2, <2>3 DEF Near
<1> QED BY <1>9, <1>10, <1>11

\* Each turn adds at most the largest word for each byte passed.
LEMMA Grows ==
    ASSUME NEW a \in Nat, NEW k \in Nat, NEW j \in Nat, j > 0, NEW n,
           IsWord(n), a <= MaxWord * k
    PROVE  a + n \in Nat /\ a + n <= MaxWord * (k + j) /\ a <= MaxWord * (k + j)
<1>1. MaxWord \in Nat
    BY Sizes
<1>2. MaxWord * (k + j) = (MaxWord * k) + (MaxWord * j) /\ MaxWord * k \in Nat /\ MaxWord * j \in Nat
    BY <1>1
<1>3. MaxWord * j >= MaxWord
    BY <1>1
<1> QED BY <1>1, <1>2, <1>3 DEF IsWord

\* What the invariant says, without the conditional.
LEMMA InvFacts ==
    ASSUME ChecksumInv
    PROVE  /\ MaxWord \in Nat /\ len \in Nat /\ nleft \in Nat /\ nleft <= len
           /\ len >= 7 /\ len <= MaxWord - 1
           /\ field \in Nat /\ field <= MaxWord
           /\ built \in Nat /\ checked \in Nat
           /\ Difference \in Int
           /\ ~flipped => Difference = 0
           /\ flipped => Near(Difference)
<1>1. /\ MaxWord \in Nat /\ len \in Nat /\ nleft \in Nat /\ nleft <= len
      /\ len >= 7 /\ len <= MaxWord - 1
      /\ field \in Nat /\ field <= MaxWord
      /\ built \in Nat /\ checked \in Nat
    BY Sizes DEF ChecksumInv
<1>2. Difference \in Int
    BY <1>1 DEF Difference
<1>3. (~flipped => Difference = 0) /\ (flipped => Near(Difference))
    BY <1>2 DEF ChecksumInv, Near
<1> QED BY <1>1, <1>2, <1>3

\* A step of both loops, by what it adds to each sum.
LEMMA InvStep ==
    ASSUME ChecksumInv, len' = len, field' = field,
           nleft' \in Nat, nleft' < nleft,
           len - nleft' \in {2, 4} \/ len - nleft' >= 6,
           built' \in Nat, IsWord(built' - built),
           checked' \in Nat, IsWord(checked' - checked),
           \/ flipped' = flipped /\ Difference' = Difference
           \/ ~flipped /\ flipped' = TRUE /\ Near(Difference' - Difference)
    PROVE  ChecksumInv'
<1> DEFINE k == len - nleft
           j == nleft - nleft'
<1>1. /\ k \in Nat /\ j \in Nat /\ j > 0
      /\ len' - nleft' = k + j
      /\ nleft' \in 0..len'
    BY InvFacts
<1>2. built <= MaxWord * k /\ checked <= MaxWord * k
    BY DEF ChecksumInv
<1> HIDE DEF k, j
<1>3. built' <= MaxWord * (k + j) /\ checked' <= MaxWord * (k + j)
    <2>1. built + (built' - built) <= MaxWord * (k + j)
        BY <1>1, <1>2, InvFacts, Grows
    <2>2. checked + (checked' - checked) <= MaxWord * (k + j)
        BY <1>1, <1>2, InvFacts, Grows
    <2> QED BY <2>1, <2>2, InvFacts
<1>4. Difference' \in Int
    BY InvFacts DEF Difference
<1>5. (~flipped' => Difference' = 0) /\ (flipped' => Near(Difference'))
    <2>1. CASE flipped' = flipped /\ Difference' = Difference
        BY <2>1, InvFacts
    <2>2. CASE ~flipped /\ flipped' = TRUE /\ Near(Difference' - Difference)
        BY <1>4, <2>2, InvFacts DEF Near
    <2> QED BY <2>1, <2>2
<1>6. flipped' \in BOOLEAN
    BY DEF ChecksumInv
<1>7. len' \in Lengths /\ field' \in 0..MaxWord
    BY DEF ChecksumInv
<1>8. built' <= MaxWord * (len' - nleft') /\ checked' <= MaxWord * (len' - nleft')
    BY <1>1, <1>3
<1> QED BY <1>1, <1>4, <1>5, <1>6, <1>7, <1>8 DEF ChecksumInv, Near

\* A turn of the loop.
LEMMA InvAddWord ==
    ASSUME ChecksumInv, AddWord
    PROVE  ChecksumInv'
<1>1. PICK lo \in Byte, hi \in Byte :
        /\ InField => field = Short(lo, hi)
        /\ built' = built + (IF InField THEN 0 ELSE Short(lo, hi))
        /\ Arrives(lo, hi)
    BY DEF AddWord
<1> DEFINE own == Short(lo, hi)
           sent == IF InField THEN 0 ELSE own
<1>2. nleft' = nleft - 2 /\ nleft >= 2 /\ len' = len /\ field' = field
    BY InvFacts DEF AddWord
<1>3. IsWord(own) /\ IsWord(sent)
    BY ShortInverted, Sizes DEF IsWord
<1>4. PICK arrived :
        /\ IsWord(arrived)
        /\ checked' = checked + arrived
        /\ \/ arrived = own /\ flipped' = flipped
           \/ ~flipped /\ flipped' = TRUE /\ Near(arrived - own)
    BY <1>1, ShortInverted DEF Arrives
<1>5. len - nleft' \in {2, 4} \/ len - nleft' >= 6
    BY <1>2, InvFacts DEF ChecksumInv
<1> HIDE DEF own
<1>6. Difference' = Difference + (arrived - own)
    <2>1. InField <=> len - nleft = 4
        BY DEF InField, FieldOffset
    <2>2. CASE InField
        BY <1>1, <1>2, <1>3, <1>4, <2>1, <2>2, InvFacts
        DEF Difference, FieldOffset, IsWord, own
    <2>3. CASE ~InField
        <3>1. len - nleft > 4 <=> len - nleft' > 4
            BY <1>2, <2>1, <2>3, InvFacts DEF ChecksumInv
        <3> QED BY <1>1, <1>2, <1>3, <1>4, <2>3, <3>1, InvFacts
                DEF Difference, FieldOffset, IsWord, own
    <2> QED BY <2>2, <2>3
<1>7. built' = built + sent
    BY <1>1 DEF own
<1> HIDE DEF sent
<1>8. built' \in Nat /\ IsWord(built' - built) /\ checked' \in Nat /\ IsWord(checked' - checked)
    BY <1>3, <1>4, <1>7, InvFacts DEF IsWord
<1>9. \/ flipped' = flipped /\ Difference' = Difference
      \/ ~flipped /\ flipped' = TRUE /\ Near(Difference' - Difference)
    BY <1>3, <1>4, <1>6, InvFacts DEF IsWord, Near
<1>10. nleft' \in Nat /\ nleft' < nleft
    BY <1>2, InvFacts
<1> QED BY <1>2, <1>5, <1>8, <1>9, <1>10, InvStep

\* The odd byte.
LEMMA InvMopUp ==
    ASSUME ChecksumInv, MopUp
    PROVE  ChecksumInv'
<1>1. PICK b \in Byte : \E a \in {b, Inverted(b)} :
        /\ built' = built + b
        /\ checked' = checked + a
        /\ \/ a = b /\ flipped' = flipped
           \/ ~flipped /\ flipped' = TRUE /\ a = Inverted(b)
    BY DEF MopUp
<1>2. nleft = 1 /\ nleft' = 0 /\ len' = len /\ field' = field
    BY DEF MopUp
<1>3. IsWord(b) /\ IsWord(Inverted(b)) /\ Near(Inverted(b) - b)
    <2>1. 0 \in Byte
        BY ChecksumAssumption DEF Byte
    <2>2. Short(b, 0) = b /\ Short(Inverted(b), 0) = Inverted(b)
        BY ChecksumAssumption DEF Short, Byte, Inverted
    <2> QED BY <2>1, <2>2, ShortInverted
<1>4. PICK arrived \in {b, Inverted(b)} :
        /\ checked' = checked + arrived
        /\ \/ arrived = b /\ flipped' = flipped
           \/ ~flipped /\ flipped' = TRUE /\ Near(arrived - b)
    BY <1>1, <1>3
<1>5. IsWord(arrived)
    BY <1>3
<1>6. len - nleft' >= 6 /\ nleft' \in Nat /\ nleft' < nleft
    BY <1>2, InvFacts
<1>7. Difference' = Difference + (arrived - b)
    BY <1>1, <1>2, <1>3, <1>4, <1>5, InvFacts DEF Difference, FieldOffset, IsWord
<1>8. built' \in Nat /\ IsWord(built' - built) /\ checked' \in Nat /\ IsWord(checked' - checked)
    BY <1>1, <1>3, <1>4, <1>5, InvFacts DEF IsWord
<1>9. \/ flipped' = flipped /\ Difference' = Difference
      \/ ~flipped /\ flipped' = TRUE /\ Near(Difference' - Difference)
    BY <1>3, <1>4, <1>7, InvFacts DEF IsWord, Near
<1> QED BY <1>2, <1>6, <1>8, <1>9, InvStep

\* The difference of the two sums is what the packet says it is.
THEOREM ChecksumInvAlways == Spec => []ChecksumInv
<1>1. Init => ChecksumInv
    BY InvInit
<1>2. ChecksumInv /\ [Next]_vars => ChecksumInv'
    <2> SUFFICES ASSUME ChecksumInv, [Next]_vars
                 PROVE  ChecksumInv'
        OBVIOUS
    <2>1. CASE UNCHANGED vars
        BY <2>1 DEF vars, ChecksumInv, Difference
    <2> QED BY <2>1, InvAddWord, InvMopUp DEF Next
<1> QED BY <1>1, <1>2, PTL DEF Spec

\* The receiver's answer tells whether a byte was inverted.
LEMMA AnswerTells ==
    ASSUME ChecksumInv, Finished, Built
    PROVE  Answer(checked) = 0 <=> ~flipped
<1> DEFINE D == Difference
<1>1. /\ MaxWord \in Nat /\ MaxWord >= 3
      /\ built \in Nat /\ checked \in Nat /\ D \in Int
      /\ len - nleft \in Nat /\ len - nleft <= MaxWord - 1 /\ len - nleft > 4
    BY InvFacts, Sizes DEF Finished
<1>2. MaxWord * (len - nleft) <= MaxWord * (MaxWord - 1)
    BY <1>1
<1>3. built <= MaxWord * (MaxWord - 1) /\ checked <= MaxWord * (MaxWord - 1)
    BY <1>1, <1>2 DEF ChecksumInv
<1>4. PICK q, r \in Nat :
        built = MaxWord * q + r /\ r <= MaxWord /\ Answer(built) = MaxWord - r
    BY <1>1, <1>3, FoldKeeps
<1>5. PICK q2, r2 \in Nat :
        /\ checked = MaxWord * q2 + r2 /\ r2 <= MaxWord
        /\ checked > 0 => r2 > 0
        /\ Answer(checked) = MaxWord - r2
    BY <1>1, <1>3, FoldKeeps
<1>6. D = checked - built - field /\ field = MaxWord - r
    BY <1>1, <1>4 DEF Difference, FieldOffset, Built
<1> HIDE DEF D
<1>7. checked = MaxWord * (q + 1) + D
    <2>1. MaxWord * (q + 1) = (MaxWord * q) + MaxWord /\ MaxWord * q \in Nat
        BY <1>1, <1>4
    <2> QED BY <1>1, <1>4, <1>6, <2>1
<1>8. CASE ~flipped
    <2>1. D = 0
        BY <1>8, InvFacts DEF D
    <2>2. MaxWord * (q + 1) > 0
        BY <1>1, <1>4
    <2>3. r2 > 0
        BY <1>1, <1>5, <1>7, <2>1, <2>2
    <2> DEFINE k == q - q2
    <2>4. MaxWord * k = r2 - MaxWord
        BY <1>1, <1>4, <1>5, <1>7, <2>1
    <2>5. k \in Int
        BY <1>4, <1>5
    <2> HIDE DEF k
    <2>6. k = 0
        BY <1>1, <1>5, <2>3, <2>4, <2>5, NearMultiple
    <2>7. MaxWord * k = 0
        BY <1>1, <2>6
    <2> QED BY <1>1, <1>5, <1>8, <2>4, <2>7
<1>9. CASE flipped
    <2>1. Near(D)
        BY <1>9, InvFacts DEF D
    <2> SUFFICES ASSUME r2 = MaxWord
                 PROVE  FALSE
        BY <1>1, <1>5, <1>9
    <2> DEFINE k == q2 - q
    <2>2. MaxWord * k = D
        BY <1>1, <1>4, <1>5, <1>7
    <2>3. k \in Int
        BY <1>4, <1>5
    <2> HIDE DEF k
    <2>4. k = 0
        BY <1>1, <2>1, <2>2, <2>3, NearMultiple DEF Near
    <2> QED BY <1>1, <2>1, <2>2, <2>4 DEF Near
<1> QED BY <1>8, <1>9

\* Every packet that arrives as it was sent passes the test.
THEOREM GenuineAcceptedAlways == Spec => []GenuineAccepted
<1>1. ChecksumInv => GenuineAccepted
    BY AnswerTells DEF GenuineAccepted
<1> QED BY <1>1, ChecksumInvAlways, PTL

\* No packet with one byte inverted passes it.
THEOREM FlipDetectedAlways == Spec => []FlipDetected
<1>1. ChecksumInv => FlipDetected
    BY AnswerTells DEF FlipDetected
<1> QED BY <1>1, ChecksumInvAlways, PTL
===============================================================================
