----------------------------- MODULE ProcessProofs -----------------------------
(***************************************************************************)
(* Proofs about the processes of the server: a child's poll set, whatever  *)
(* the size of the set and the descriptors it inherits, and the precedence *)
(* of the environment and the mix of drops and flips, however often a      *)
(* process calls sendErr_init.                                             *)
(***************************************************************************)
EXTENDS ServerProcesses, FiniteSetTheorems, TLAPS

NothingAdded(ps) ==
    \A i \in 0..(ps.currentPollSetSize - 1) : ps.entries[i] = Unused

\* A new set is a poll set without any descriptor.
LEMMA SetupIsEmpty == PollSetOK(setupPollSet) /\ NothingAdded(setupPollSet)
BY PollSetAssumption DEF PollSetOK, NothingAdded, setupPollSet, pollfd, Unused

\* Growing keeps the entries and adds unused ones.
LEMMA RoomIsUnused ==
    ASSUME NEW ps, PollSetOK(ps), NothingAdded(ps), NEW s \in Nat
    PROVE  LET r == WithRoomFor(ps, s) IN
           PollSetOK(r) /\ NothingAdded(r) /\ s < r.currentPollSetSize
<1>1. CASE s >= ps.currentPollSetSize
    <2> DEFINE n == s + PollSetSize
    <2>1. n \in Nat /\ n > s /\ n > 0 /\ ps.currentPollSetSize \in Nat
        BY PollSetAssumption DEF PollSetOK
    <2>2. WithRoomFor(ps, s) = growPollSet(ps, n)
        BY <1>1 DEF WithRoomFor
    <2>3. growPollSet(ps, n) = [entries |-> [i \in 0..(n - 1) |-> Unused],
                                currentPollSetSize |-> n,
                                maxFileDescriptor |-> ps.maxFileDescriptor]
        BY <2>1 DEF growPollSet, NothingAdded
    <2> HIDE DEF n
    <2>4. ps.maxFileDescriptor \in 0..n
        BY <1>1, <2>1 DEF PollSetOK, n
    <2> QED BY <2>1, <2>2, <2>3, <2>4 DEF PollSetOK, NothingAdded, pollfd, Unused
<1>2. CASE ~(s >= ps.currentPollSetSize)
    BY <1>2 DEF WithRoomFor, PollSetOK
<1> QED BY <1>1, <1>2

\* The first descriptor that is added is the only one the set asks about.
LEMMA AddedIsPolled ==
    ASSUME NEW ps, PollSetOK(ps), NothingAdded(ps), NEW s \in Nat
    PROVE  PollSetOK(addToPollSet(ps, s)) /\ PollsOnly(addToPollSet(ps, s), s)
<1> DEFINE r == WithRoomFor(ps, s)
           e == [r.entries EXCEPT ![s] = [fd |-> s, pollIn |-> TRUE]]
           m == IF s + 1 >= r.maxFileDescriptor THEN s + 1 ELSE r.maxFileDescriptor
           n == r.currentPollSetSize
<1>1. PollSetOK(r) /\ NothingAdded(r) /\ s < n
    BY RoomIsUnused
<1> HIDE DEF r
<1>2. addToPollSet(ps, s)
        = [entries |-> e, currentPollSetSize |-> n, maxFileDescriptor |-> m]
    <2>1. addToPollSet(ps, s) = [r EXCEPT !.maxFileDescriptor = m, !.entries = e]
        BY DEF addToPollSet, r
    <2> HIDE DEF e, m
    <2> QED BY <1>1, <2>1 DEF PollSetOK
<1>3. n \in Nat \ {0} /\ m \in 0..n /\ s \in 0..(m - 1) /\ s \in 0..(n - 1)
    BY <1>1 DEF PollSetOK
<1>4. /\ e \in [0..(n - 1) -> pollfd]
      /\ e[s] = [fd |-> s, pollIn |-> TRUE]
      /\ \A i \in 0..(n - 1) : i # s => e[i] = Unused
    BY <1>1, <1>3 DEF PollSetOK, NothingAdded, pollfd
<1> HIDE DEF e, m, n
<1> QED BY <1>2, <1>3, <1>4 DEF PollSetOK, PollsOnly

\* Removing it leaves nothing.
LEMMA RemovedIsUnused ==
    ASSUME NEW ps, NEW s \in Nat, PollSetOK(ps), PollsOnly(ps, s)
    PROVE  PollSetOK(removeFromPollSet(ps, s)) /\ NothingAdded(removeFromPollSet(ps, s))
<1> DEFINE e == [ps.entries EXCEPT ![s] = Unused]
           n == ps.currentPollSetSize
<1>1. removeFromPollSet(ps, s)
        = [entries |-> e, currentPollSetSize |-> n,
           maxFileDescriptor |-> ps.maxFileDescriptor]
    <2>1. removeFromPollSet(ps, s) = [ps EXCEPT !.entries = e]
        BY DEF removeFromPollSet
    <2> HIDE DEF e
    <2> QED BY <2>1 DEF PollSetOK
<1>2. e \in [0..(n - 1) -> pollfd] /\ \A i \in 0..(n - 1) : e[i] = Unused
    BY DEF PollSetOK, PollsOnly, pollfd, Unused
<1> HIDE DEF e
<1> QED BY <1>1, <1>2 DEF PollSetOK, NothingAdded

\* pollCall on a set with one descriptor, when nothing is hung up.
LEMMA PollCallFinds ==
    ASSUME NEW ps, NEW s \in Nat, PollSetOK(ps), PollsOnly(ps, s), NEW R
    PROVE  pollCall(ps, R, {}) = IF s \in R THEN s ELSE TIMEOUT
<1>1. Reported(ps, R, {}) = IF s \in R THEN {s} ELSE {}
    <2>1. \A i \in 0..(ps.maxFileDescriptor - 1) :
            ps.entries[i].pollIn /\ ps.entries[i].fd \in R <=> i = s /\ s \in R
        BY DEF PollSetOK, PollsOnly, Unused
    <2> QED BY <2>1 DEF Reported, PollsOnly
<1>2. CASE s \in R
    <2>1. (CHOOSE i \in {s} : \A j \in {s} : i <= j) = s
        OBVIOUS
    <2> QED BY <1>1, <1>2, <2>1 DEF pollCall
<1>3. CASE s \notin R
    BY <1>1, <1>3 DEF pollCall
<1> QED BY <1>2, <1>3

--------------------------------------------------------------------------------
\* Every process asks poll about its own socket only.
PollInv ==
    /\ sock \in [Processes -> Nat]
    /\ DOMAIN poll = Processes
    /\ \A p \in Processes : PollSetOK(poll[p]) /\ PollsOnly(poll[p], sock[p])

LEMMA InitPollInv == Init => PollInv
<1> SUFFICES ASSUME Init PROVE PollInv
    OBVIOUS
<1>1. PICK n \in InheritedCounts :
        /\ sock = [p \in Processes |-> n]
        /\ poll = [p \in Processes |-> addToPollSet(setupPollSet, n)]
    BY DEF Init
<1>2. n \in Nat
    BY ProcessesAssumption
<1> QED BY <1>1, <1>2, SetupIsEmpty, AddedIsPolled DEF PollInv

LEMMA NextPollInv == PollInv /\ [Next]_vars => PollInv'
<1> SUFFICES ASSUME PollInv, [Next]_vars PROVE PollInv'
    OBVIOUS
<1>1. CASE UNCHANGED <<sock, poll>>
    BY <1>1 DEF PollInv
<1>2. ASSUME NEW c \in Children, Fork(c)
      PROVE  PollInv'
    <2> DEFINE s == sock[Parent]
    <2>1. PICK d \in Descriptors :
            /\ sock' = [sock EXCEPT ![c] = d]
            /\ poll' = [poll EXCEPT ![c] = addToPollSet(removeFromPollSet(poll[Parent], s), d)]
        BY <1>2 DEF Fork
    <2>2. d \in Nat /\ s \in Nat /\ Parent \in Processes /\ c \in Processes
        BY DEF Descriptors, PollInv, Processes
    <2>3. /\ PollSetOK(removeFromPollSet(poll[Parent], s))
          /\ NothingAdded(removeFromPollSet(poll[Parent], s))
        BY <2>2, RemovedIsUnused DEF PollInv
    <2> HIDE DEF s
    <2> DEFINE ps == addToPollSet(removeFromPollSet(poll[Parent], s), d)
    <2>4. PollSetOK(ps) /\ PollsOnly(ps, d)
        BY <2>2, <2>3, AddedIsPolled
    <2> HIDE DEF ps
    <2>5. poll' = [poll EXCEPT ![c] = ps]
        BY <2>1 DEF ps
    <2> QED BY <2>1, <2>2, <2>4, <2>5 DEF PollInv
<1> QED
    BY <1>1, <1>2 DEF Next, ParentNext, ChildNext, EnterLoop, NoRequest, RefuseRequest,
        AcceptRequest, ForkFails, ChildSend, ChildReceive, PacketArrives, ChildExit,
        RoundsExhausted, vars

\* However many descriptors the server inherits and however large the poll set
\* is, a child finds the packets in its own socket and reports nothing else.
THEOREM ChildFindsItsPacketsAlways == Spec => []ChildFindsItsPackets
<1>1. PollInv => ChildFindsItsPackets
    <2> SUFFICES ASSUME PollInv, NEW c \in Children
                 PROVE  pollCall(poll[c], Readable(c), {})
                            = IF c \in waiting THEN sock[c] ELSE TIMEOUT
        BY DEF ChildFindsItsPackets
    <2>1. sock[c] \in Nat /\ PollSetOK(poll[c]) /\ PollsOnly(poll[c], sock[c])
        BY DEF PollInv, Processes
    <2>2. sock[c] \in Readable(c) <=> c \in waiting
        BY DEF Readable
    <2> QED BY <2>1, <2>2, PollCallFinds
<1> QED BY InitPollInv, NextPollInv, <1>1, PTL DEF Spec

--------------------------------------------------------------------------------
\* The random events that the environment leaves possible.
AllowedKinds ==
    {k \in Kinds :
        /\ k = "drop" => env.drop # "numbers"
        /\ k = "flip" => env.flip # "numbers"}

AllowedSeeds == {t \in Int : env.seedSet => t = OverrideSeed}

\* The error injection of a process is the one the environment allows.
LibOK(l) ==
    l \in [dropListed : {env.drop = "numbers"}, chance : Seq(AllowedKinds),
           msgNo : Nat, seed : AllowedSeeds, nextSeed : Int]

FateOK(f, l) ==
    f # "none" =>
        /\ env.drop = "numbers" => (f = "drop" <=> l.msgNo \in DropList)
        /\ env.flip = "numbers" => f # "flip"

LibInv ==
    /\ env \in Environments
    /\ now \in Int
    /\ DOMAIN lib = Processes
    /\ DOMAIN fate = Processes
    /\ \A p \in Processes : LibOK(lib[p]) /\ FateOK(fate[p], lib[p])

\* The settings manager adds what the environment allows.
LEMMA OverridesAreAllowed ==
    ASSUME env \in Environments, NEW t \in Int
    PROVE  LibOK(SettingsManager(env, t))
<1>1. /\ ParsedToNothing(env.drop) => "drop" \in AllowedKinds
      /\ ParsedToNothing(env.flip) => "flip" \in AllowedKinds
    BY DEF ParsedToNothing, AllowedKinds, Kinds
<1>2. /\ (IF ParsedToNothing(env.drop) THEN <<"drop">> ELSE <<>>) \in Seq(AllowedKinds)
      /\ (IF ParsedToNothing(env.flip) THEN <<"flip">> ELSE <<>>) \in Seq(AllowedKinds)
    BY <1>1
<1>3. RandomOverrides(env) \in Seq(AllowedKinds)
    BY <1>2 DEF RandomOverrides
<1>4. (IF env.seedSet THEN OverrideSeed ELSE t) \in AllowedSeeds
    BY DEF AllowedSeeds, OverrideSeed
<1> QED BY <1>3, <1>4 DEF LibOK, SettingsManager

\* What the program asks for is added only where nothing overrides it.
LEMMA WishesAreAllowed ==
    ASSUME env \in Environments, NEW chance \in Seq(AllowedKinds)
    PROVE  /\ setUserMode(env.drop, "drop", chance) \in Seq(AllowedKinds)
           /\ setUserMode(env.flip, "flip", chance) \in Seq(AllowedKinds)
BY DEF setUserMode, IsSet, AllowedKinds, Kinds

\* sendErr_init and a fork keep it so, and the number of messages.
LEMMA InitIsAllowed ==
    ASSUME env \in Environments, NEW l, LibOK(l), NEW t \in Int
    PROVE  LibOK(sendErr_init(env, l, t)) /\ sendErr_init(env, l, t).msgNo = l.msgNo
<1> DEFINE c == setUserMode(env.flip, "flip", setUserMode(env.drop, "drop", l.chance))
           s == IF env.seedSet THEN l.seed ELSE t
<1>1. c \in Seq(AllowedKinds)
    BY WishesAreAllowed DEF LibOK
<1>2. s \in AllowedSeeds
    BY DEF LibOK, AllowedSeeds
<1>3. sendErr_init(env, l, t) = [[l EXCEPT !.seed = s] EXCEPT !.chance = c, !.nextSeed = t]
    BY DEF sendErr_init, setUserMode_SeedRand, LibOK
<1> HIDE DEF c, s
<1> QED BY <1>1, <1>2, <1>3 DEF LibOK

LEMMA ForkIsAllowed ==
    ASSUME NEW l, LibOK(l)
    PROVE  /\ LibOK(ForkedParent(l)) /\ ForkedParent(l).msgNo = l.msgNo
           /\ LibOK(ForkedChild(env, l)) /\ ForkedChild(env, l).msgNo = l.msgNo
<1> DEFINE r == ForkedParent(l)
           s == IF env.seedSet THEN r.seed ELSE l.nextSeed
<1>1. LibOK(r) /\ r.msgNo = l.msgNo
    BY DEF LibOK, ForkedParent
<1>2. ForkedChild(env, l) = [r EXCEPT !.seed = s] /\ s \in AllowedSeeds
    BY <1>1 DEF ForkedChild, setUserMode_SeedRand, LibOK, AllowedSeeds
<1> HIDE DEF r, s
<1>3. LibOK([r EXCEPT !.seed = s]) /\ [r EXCEPT !.seed = s].msgNo = r.msgNo
    BY <1>1, <1>2 DEF LibOK
<1> QED BY <1>1, <1>2, <1>3 DEF r

\* A packet meets a fate the environment allows.
LEMMA SendIsAllowed ==
    ASSUME LibInv, NEW p \in Processes, sendto_Err(p)
    PROVE  /\ DOMAIN lib' = Processes /\ DOMAIN fate' = Processes
           /\ \A q \in Processes : LibOK(lib'[q]) /\ FateOK(fate'[q], lib'[q])
<1> DEFINE n == lib[p].msgNo + 1
           l == [lib[p] EXCEPT !.msgNo = n]
<1>1. PICK drawn \in Drawn(lib[p]) :
        fate' = [fate EXCEPT ![p] = processEvents(lib[p], n, drawn)]
    BY DEF sendto_Err
<1>2. lib' = [lib EXCEPT ![p] = l]
    BY DEF sendto_Err
<1>3. LibOK(l) /\ l.msgNo = n
    BY DEF LibInv, LibOK
<1>4. drawn \in {"none"} \cup AllowedKinds
    BY DEF Drawn, LibInv, LibOK
<1>5. /\ "drop" \in AllowedKinds => env.drop # "numbers"
      /\ "flip" \in AllowedKinds => env.flip # "numbers"
    BY DEF AllowedKinds
<1>6. FateOK(processEvents(lib[p], n, drawn), l)
    <2>1. lib[p].dropListed = (env.drop = "numbers")
        BY DEF LibInv, LibOK
    <2>2. CASE env.drop = "numbers"
        <3>1. ListDrops(lib[p], n) <=> n \in DropList
            BY <2>1, <2>2 DEF ListDrops
        <3>2. drawn # "drop"
            BY <1>4, <1>5, <2>2
        <3>3. env.flip = "numbers" => drawn # "flip"
            BY <1>4, <1>5
        <3> QED BY <1>3, <3>1, <3>2, <3>3 DEF FateOK, processEvents
    <2>3. CASE env.drop # "numbers"
        <3>1. env.flip = "numbers" => drawn # "flip"
            BY <1>4, <1>5
        <3> QED BY <2>3, <3>1 DEF FateOK, processEvents
    <2> QED BY <2>2, <2>3
<1> HIDE DEF l, n
<1> QED BY <1>1, <1>2, <1>3, <1>6 DEF LibInv

LEMMA InitLibInv == Init => LibInv
BY OverridesAreAllowed DEF Init, LibInv, FateOK

LEMMA NextLibInv == LibInv /\ [Next]_vars => LibInv'
<1> SUFFICES ASSUME LibInv, [Next]_vars PROVE LibInv'
    OBVIOUS
<1> DEFINE Others == /\ DOMAIN lib' = Processes /\ DOMAIN fate' = Processes
                     /\ \A q \in Processes : LibOK(lib'[q]) /\ FateOK(fate'[q], lib'[q])
<1>1. ASSUME env' = env, now' \in Int, Others
      PROVE  LibInv'
    BY <1>1 DEF LibInv, LibOK, FateOK, AllowedKinds, AllowedSeeds
<1>2. Parent \in Processes
    BY DEF Processes
<1>3. CASE UNCHANGED <<env, now, lib, fate>>
    BY <1>3, <1>1 DEF LibInv
<1>4. CASE EnterLoop
    <2> DEFINE l == sendErr_init(env, lib[Parent], now')
    <2>1. now' \in Int /\ env' = env /\ fate' = fate /\ lib' = [lib EXCEPT ![Parent] = l]
        BY <1>4, ProcessesAssumption DEF EnterLoop, LibInv
    <2>2. LibOK(l) /\ l.msgNo = lib[Parent].msgNo
        BY <1>2, <2>1, InitIsAllowed DEF LibInv
    <2> HIDE DEF l
    <2>3. Others
        BY <1>2, <2>1, <2>2 DEF LibInv, FateOK
    <2> QED BY <1>1, <2>1, <2>3
<1>5. ASSUME NEW p \in Processes, sendto_Err(p), UNCHANGED <<env, now>>
      PROVE  LibInv'
    BY <1>5, <1>1, SendIsAllowed DEF LibInv
<1>6. CASE ForkFails
    <2> DEFINE l == ForkedParent(lib[Parent])
    <2>1. lib' = [lib EXCEPT ![Parent] = l] /\ UNCHANGED <<env, now, fate>>
        BY <1>6 DEF ForkFails
    <2>2. LibOK(l) /\ l.msgNo = lib[Parent].msgNo
        BY <1>2, ForkIsAllowed DEF LibInv
    <2> HIDE DEF l
    <2>3. Others
        BY <1>2, <2>1, <2>2 DEF LibInv, FateOK
    <2> QED BY <1>1, <2>1, <2>3 DEF LibInv
<1>7. ASSUME NEW c \in Children, Fork(c)
      PROVE  LibInv'
    <2> DEFINE l == ForkedParent(lib[Parent])
               k == ForkedChild(env, lib[Parent])
    <2>1. /\ lib' = [lib EXCEPT ![Parent] = l, ![c] = k]
          /\ fate' = [fate EXCEPT ![c] = fate[Parent]]
          /\ UNCHANGED <<env, now>>
        BY <1>7 DEF Fork
    <2>2. /\ LibOK(l) /\ l.msgNo = lib[Parent].msgNo
          /\ LibOK(k) /\ k.msgNo = lib[Parent].msgNo
        BY <1>2, ForkIsAllowed DEF LibInv
    <2>3. c \in Processes /\ c # Parent
        BY ProcessesAssumption DEF Processes
    <2> HIDE DEF l, k
    <2>4. Others
        BY <1>2, <2>1, <2>2, <2>3 DEF LibInv, FateOK
    <2> QED BY <1>1, <2>1, <2>4 DEF LibInv
<1>8. CASE RefuseRequest \/ AcceptRequest
    BY <1>2, <1>5, <1>8 DEF RefuseRequest, AcceptRequest
<1>9. ASSUME NEW c \in Children, ChildSend(c)
      PROVE  LibInv'
    BY <1>5, <1>9 DEF ChildSend, Processes
<1> QED
    BY <1>3, <1>4, <1>6, <1>7, <1>8, <1>9 DEF Next, ParentNext, ChildNext, NoRequest,
        ChildReceive, PacketArrives, ChildExit, RoundsExhausted, vars

\* For every environment, every list and any number of calls of sendErr_init
\* and forks: the environment wins over the program.
THEOREM OverridesWinAlways == Spec => []OverridesWin
<1>1. LibInv => OverridesWin
    BY DEF LibInv, OverridesWin, FateOK, LibOK, AllowedSeeds
<1> QED BY InitLibInv, NextLibInv, <1>1, PTL DEF Spec

--------------------------------------------------------------------------------
\* An event that is appended counts once, for its own kind.
LEMMA AppendCounts ==
    ASSUME NEW T, NEW chance \in Seq(T), NEW kind, NEW new \in T
    PROVE  /\ CountOf(kind, chance) \in Nat
           /\ CountOf(kind, Append(chance, new))
                = IF new = kind THEN CountOf(kind, chance) + 1 ELSE CountOf(kind, chance)
<1> DEFINE n == Len(chance)
           longer == Append(chance, new)
           old == {i \in 1..n : chance[i] = kind}
           all == {i \in 1..Len(longer) : longer[i] = kind}
<1>1. n \in Nat /\ Len(longer) = n + 1 /\ longer[n + 1] = new
      /\ \A i \in 1..n : longer[i] = chance[i]
    OBVIOUS
<1>2. IsFiniteSet(old) /\ Cardinality(old) \in Nat
    <2>1. IsFiniteSet(1..n)
        BY <1>1, FS_Interval
    <2>2. old \subseteq 1..n
        OBVIOUS
    <2> QED BY <2>1, <2>2, FS_Subset, FS_CardinalityType
<1>3. CountOf(kind, chance) = Cardinality(old) /\ CountOf(kind, longer) = Cardinality(all)
    BY DEF CountOf
<1>4. n + 1 \notin old
    BY <1>1
<1> HIDE DEF n, longer
<1>5. all = IF new = kind THEN old \cup {n + 1} ELSE old
    BY <1>1
<1> HIDE DEF old, all
<1>6. CASE new = kind
    BY <1>2, <1>3, <1>4, <1>5, <1>6, FS_AddElement DEF longer
<1>7. CASE new # kind
    BY <1>2, <1>3, <1>5, <1>7 DEF longer
<1> QED BY <1>6, <1>7

\* An empty sequence counts nothing.
LEMMA NothingCounts == \A kind : CountOf(kind, << >>) = 0
<1> SUFFICES ASSUME NEW kind PROVE CountOf(kind, << >>) = 0
    OBVIOUS
<1>1. {i \in 1..Len(<< >>) : << >>[i] = kind} = {}
    OBVIOUS
<1> QED BY <1>1, FS_EmptySet DEF CountOf

Balanced(chance) == CountOf("drop", chance) = CountOf("flip", chance)

\* A drop and a flip together change no balance.
LEMMA PairIsBalanced ==
    ASSUME NEW chance \in Seq(Kinds), Balanced(chance)
    PROVE  Balanced(Append(Append(chance, "drop"), "flip"))
<1> DEFINE dropped == Append(chance, "drop")
<1>1. "drop" \in Kinds /\ "flip" \in Kinds
    BY DEF Kinds
<1>2. dropped \in Seq(Kinds)
    BY <1>1
<1>3. /\ CountOf("drop", dropped) = CountOf("drop", chance) + 1
      /\ CountOf("flip", dropped) = CountOf("flip", chance)
    BY <1>1, AppendCounts
<1> HIDE DEF dropped
<1>4. /\ CountOf("drop", Append(dropped, "flip")) = CountOf("drop", dropped)
      /\ CountOf("flip", Append(dropped, "flip")) = CountOf("flip", dropped) + 1
    BY <1>1, <1>2, AppendCounts
<1> QED BY <1>3, <1>4 DEF Balanced, dropped

\* If the environment says the same of both, the random events come in pairs.
MixInv ==
    env.drop = env.flip => \A p \in Processes : Balanced(lib[p].chance)

LEMMA InitMixInv == Init => MixInv
<1> SUFFICES ASSUME Init, env.drop = env.flip, NEW p \in Processes
             PROVE  Balanced(lib[p].chance)
    BY DEF MixInv
<1>1. lib[p].chance = RandomOverrides(env)
    BY DEF Init, SettingsManager
<1>2. CASE ParsedToNothing(env.drop)
    <2>1. RandomOverrides(env) = Append(Append(<< >>, "drop"), "flip")
        BY <1>2 DEF RandomOverrides
    <2>2. << >> \in Seq(Kinds) /\ Balanced(<< >>)
        BY NothingCounts DEF Balanced
    <2> QED BY <1>1, <2>1, <2>2, PairIsBalanced
<1>3. CASE ~ParsedToNothing(env.drop)
    <2>1. RandomOverrides(env) = << >>
        BY <1>3 DEF RandomOverrides
    <2> QED BY <1>1, <2>1, NothingCounts DEF Balanced
<1> QED BY <1>2, <1>3

LEMMA NextMixInv == LibInv /\ MixInv /\ [Next]_vars => MixInv'
<1> SUFFICES ASSUME LibInv, MixInv, [Next]_vars, env'.drop = env'.flip,
                    NEW p \in Processes
             PROVE  Balanced(lib'[p].chance)
    BY DEF MixInv
<1>1. env' = env
    BY DEF Next, ParentNext, ChildNext, EnterLoop, NoRequest, RefuseRequest, AcceptRequest,
        ForkFails, Fork, ChildSend, ChildReceive, PacketArrives, ChildExit,
        RoundsExhausted, vars
<1>2. \A q \in Processes : lib[q].chance \in Seq(Kinds) /\ Balanced(lib[q].chance)
    <2>1. AllowedKinds \subseteq Kinds
        BY DEF AllowedKinds
    <2>2. \A q \in Processes : lib[q].chance \in Seq(AllowedKinds)
        BY DEF LibInv, LibOK
    <2> QED BY <1>1, <2>1, <2>2 DEF MixInv
<1>3. Parent \in Processes /\ DOMAIN lib = Processes
      /\ \A q \in Processes : DOMAIN lib[q] = {"dropListed", "chance", "msgNo", "seed", "nextSeed"}
    BY DEF Processes, LibInv, LibOK
\* It is enough that what the process holds is what some process held.
<1>4. ASSUME \E q \in Processes : lib'[p].chance = lib[q].chance
      PROVE  Balanced(lib'[p].chance)
    BY <1>2, <1>4
<1>5. CASE UNCHANGED lib
    BY <1>4, <1>5
<1>6. CASE EnterLoop
    <2>1. lib' = [lib EXCEPT ![Parent] = sendErr_init(env, @, now')]
        BY <1>6 DEF EnterLoop
    <2>2. CASE p # Parent
        BY <1>3, <1>4, <2>1, <2>2
    <2>3. CASE p = Parent
        <3>1. lib'[p].chance = setUserMode(env.flip, "flip",
                                  setUserMode(env.drop, "drop", lib[p].chance))
            BY <1>3, <2>1, <2>3 DEF sendErr_init, setUserMode_SeedRand
        <3>2. CASE IsSet(env.drop)
            BY <1>1, <1>4, <3>1, <3>2 DEF setUserMode
        <3>3. CASE ~IsSet(env.drop)
            <4>1. lib'[p].chance = Append(Append(lib[p].chance, "drop"), "flip")
                BY <1>1, <3>1, <3>3 DEF setUserMode
            <4> QED BY <1>2, <4>1, PairIsBalanced
        <3> QED BY <3>2, <3>3
    <2> QED BY <2>2, <2>3
<1>7. ASSUME NEW q \in Processes, sendto_Err(q)
      PROVE  Balanced(lib'[p].chance)
    <2>1. lib'[p].chance = lib[p].chance
        BY <1>3, <1>7 DEF sendto_Err
    <2> QED BY <1>4, <2>1
<1>8. CASE ForkFails
    <2>1. lib'[p].chance = lib[p].chance
        BY <1>3, <1>8 DEF ForkFails, ForkedParent
    <2> QED BY <1>4, <2>1
<1>9. ASSUME NEW c \in Children, Fork(c)
      PROVE  Balanced(lib'[p].chance)
    <2>1. /\ ForkedParent(lib[Parent]).chance = lib[Parent].chance
          /\ ForkedChild(env, lib[Parent]).chance = lib[Parent].chance
        BY <1>3 DEF ForkedParent, ForkedChild, setUserMode_SeedRand
    <2>2. lib' = [lib EXCEPT ![Parent] = ForkedParent(@),
                             ![c] = ForkedChild(env, lib[Parent])]
        BY <1>9 DEF Fork
    <2>3. lib'[p].chance = lib[p].chance \/ lib'[p].chance = lib[Parent].chance
        BY <1>3, <2>1, <2>2
    <2> QED BY <1>3, <1>4, <2>3
<1>10. CASE RefuseRequest \/ AcceptRequest
    BY <1>3, <1>7, <1>10 DEF RefuseRequest, AcceptRequest
<1>11. ASSUME NEW c \in Children, ChildSend(c)
       PROVE  Balanced(lib'[p].chance)
    BY <1>7, <1>11 DEF ChildSend, Processes
<1> QED
    BY <1>5, <1>6, <1>8, <1>9, <1>10, <1>11 DEF Next, ParentNext, ChildNext, NoRequest,
        ChildReceive, PacketArrives, ChildExit, RoundsExhausted, vars

\* However often sendErr_init is called and whatever forks, no process drops
\* more often than it flips if the environment says the same of both.
THEOREM MixIsKeptAlways == Spec => []MixIsKept
<1>1. MixInv => MixIsKept
    BY DEF MixInv, MixIsKept, Balanced
<1>2. LibInv /\ MixInv /\ [Next]_vars => LibInv' /\ MixInv'
    BY NextLibInv, NextMixInv
<1> QED BY InitLibInv, InitMixInv, <1>1, <1>2, PTL DEF Spec

--------------------------------------------------------------------------------
\* What LibInv and PollInv leave to say of the types.
StateInv ==
    /\ now \in 0..MaxTime
    /\ rounds \in 0..MaxRounds
    /\ DOMAIN pc = Processes
    /\ pc[Parent] \in {"INIT", "LISTEN", "FORK"}
    /\ \A c \in Children : pc[c] \in {"UNBORN", "RUN", "GONE"}
    /\ open \in [Processes -> SUBSET Descriptors]
    /\ sock \in [Processes -> Descriptors]
    /\ fate \in [Processes -> {"none", "sent", "drop", "flip"}]
    /\ waiting \subseteq Children

\* The seeds are times or the override, and the next one is a time.
SeedsOK(l) == l.seed \in Nat \cup {OverrideSeed} /\ l.nextSeed \in Nat
SeedInv == \A p \in Processes : SeedsOK(lib[p])

LEMMA InitTypes == Init => StateInv /\ SeedInv
<1> SUFFICES ASSUME Init PROVE StateInv /\ SeedInv
    OBVIOUS
<1>1. PICK n \in InheritedCounts :
        /\ open = [p \in Processes |-> IF p = Parent THEN 0..n ELSE {}]
        /\ sock = [p \in Processes |-> n]
    BY DEF Init
<1>2. n \in Nat /\ n \in Descriptors /\ 0..n \subseteq Descriptors
    BY ProcessesAssumption DEF Descriptors
<1>3. open \in [Processes -> SUBSET Descriptors] /\ sock \in [Processes -> Descriptors]
    BY <1>1, <1>2
<1>4. SeedInv
    BY DEF Init, SeedInv, SeedsOK, SettingsManager
<1> QED BY <1>3, <1>4, ProcessesAssumption DEF Init, StateInv, Processes

LEMMA NextStateInv == StateInv /\ [Next]_vars => StateInv'
<1> SUFFICES ASSUME StateInv, [Next]_vars PROVE StateInv'
    OBVIOUS
<1>1. Parent \in Processes /\ Parent \notin Children /\ Children \subseteq Processes
    BY ProcessesAssumption DEF Processes
<1>2. ASSUME NEW p \in Processes, sendto_Err(p)
      PROVE  fate' \in [Processes -> {"none", "sent", "drop", "flip"}]
    BY <1>2 DEF sendto_Err, StateInv, processEvents
<1>3. CASE UNCHANGED vars
    BY <1>3 DEF StateInv, vars
<1>4. CASE EnterLoop
    BY <1>1, <1>4, ProcessesAssumption DEF EnterLoop, StateInv
<1>5. CASE NoRequest
    BY <1>1, <1>5 DEF NoRequest, StateInv
<1>6. CASE RefuseRequest
    BY <1>1, <1>2, <1>6 DEF RefuseRequest, StateInv
<1>7. CASE AcceptRequest
    <2>1. PICK d \in Descriptors : open' = [open EXCEPT ![Parent] = @ \cup {d}]
        BY <1>7 DEF AcceptRequest
    <2>2. open' \in [Processes -> SUBSET Descriptors]
        BY <1>1, <2>1 DEF StateInv
    <2> QED BY <1>1, <1>2, <1>7, <2>2 DEF AcceptRequest, StateInv
<1>8. CASE ForkFails
    BY <1>1, <1>8 DEF ForkFails, StateInv
<1>9. ASSUME NEW c \in Children, Fork(c)
      PROVE  StateInv'
    <2>1. PICK d \in Descriptors :
            /\ open' = [open EXCEPT ![c] = (open[Parent] \ {sock[Parent]}) \cup {d}]
            /\ sock' = [sock EXCEPT ![c] = d]
        BY <1>9 DEF Fork
    <2>2. /\ open' \in [Processes -> SUBSET Descriptors]
          /\ sock' \in [Processes -> Descriptors]
        BY <1>1, <2>1 DEF StateInv
    <2>3. fate' \in [Processes -> {"none", "sent", "drop", "flip"}]
        BY <1>1, <1>9 DEF Fork, StateInv
    <2> QED BY <1>1, <1>9, <2>2, <2>3 DEF Fork, StateInv
<1>10. ASSUME NEW c \in Children, ChildSend(c)
       PROVE  StateInv'
    BY <1>1, <1>2, <1>10 DEF ChildSend, StateInv
<1>11. ASSUME NEW c \in Children, ChildReceive(c) \/ PacketArrives(c) \/ ChildExit(c)
       PROVE  StateInv'
    BY <1>1, <1>11 DEF ChildReceive, PacketArrives, ChildExit, StateInv
<1> QED
    BY <1>3, <1>4, <1>5, <1>6, <1>7, <1>8, <1>9, <1>10, <1>11
    DEF Next, ParentNext, ChildNext, RoundsExhausted

LEMMA NextSeedInv == LibInv /\ StateInv /\ SeedInv /\ [Next]_vars => SeedInv'
<1> SUFFICES ASSUME LibInv, StateInv, SeedInv, [Next]_vars, NEW p \in Processes
             PROVE  SeedsOK(lib'[p])
    BY DEF SeedInv
<1>1. Parent \in Processes /\ DOMAIN lib = Processes
      /\ \A q \in Processes : DOMAIN lib[q] = {"dropListed", "chance", "msgNo", "seed", "nextSeed"}
    BY DEF Processes, LibInv, LibOK
<1>2. \A q \in Processes : SeedsOK(lib[q])
    BY DEF SeedInv
<1>3. CASE UNCHANGED lib
    BY <1>2, <1>3
<1>4. CASE EnterLoop
    <2>1. now' \in Nat /\ lib' = [lib EXCEPT ![Parent] = sendErr_init(env, @, now')]
        BY <1>4, ProcessesAssumption DEF EnterLoop, StateInv
    <2>2. SeedsOK(sendErr_init(env, lib[Parent], now'))
        BY <1>1, <1>2, <2>1 DEF SeedsOK, sendErr_init, setUserMode_SeedRand
    <2> QED BY <1>1, <1>2, <2>1, <2>2
<1>5. ASSUME NEW q \in Processes, sendto_Err(q)
      PROVE  SeedsOK(lib'[p])
    BY <1>1, <1>2, <1>5 DEF sendto_Err, SeedsOK
<1>6. SeedsOK(ForkedParent(lib[Parent])) /\ SeedsOK(ForkedChild(env, lib[Parent]))
    BY <1>1, <1>2 DEF ForkedParent, ForkedChild, setUserMode_SeedRand, SeedsOK
<1>7. CASE ForkFails
    BY <1>1, <1>2, <1>6, <1>7 DEF ForkFails
<1>8. ASSUME NEW c \in Children, Fork(c)
      PROVE  SeedsOK(lib'[p])
    BY <1>1, <1>2, <1>6, <1>8 DEF Fork
<1>9. CASE RefuseRequest \/ AcceptRequest
    BY <1>1, <1>5, <1>9 DEF RefuseRequest, AcceptRequest
<1>10. ASSUME NEW c \in Children, ChildSend(c)
       PROVE  SeedsOK(lib'[p])
    BY <1>5, <1>10 DEF ChildSend, Processes
<1> QED
    BY <1>3, <1>4, <1>7, <1>8, <1>9, <1>10 DEF Next, ParentNext, ChildNext, NoRequest,
        ChildReceive, PacketArrives, ChildExit, RoundsExhausted, vars

\* Whatever is forked and added, the poll set and the error injection of every
\* process stay well formed; in particular what pollCall hands to poll lies
\* within the array that addToPollSet made room in.
THEOREM ProcessesTypeCorrect == Spec => []TypeOK
<1>1. PollInv /\ LibInv /\ StateInv /\ SeedInv => TypeOK
    <2> SUFFICES ASSUME PollInv, LibInv, StateInv, SeedInv
                 PROVE  TypeOK
        OBVIOUS
    <2>1. \A p \in Processes : PollSetOK(poll[p])
        BY DEF PollInv
    <2>2. \A p \in Processes : InjectorOK(lib[p])
        <3>1. AllowedKinds \subseteq Kinds
            BY DEF AllowedKinds
        <3>2. \A p \in Processes : lib[p].dropListed \in BOOLEAN
            BY DEF LibInv, LibOK
        <3>3. \A p \in Processes : lib[p].chance \in Seq(AllowedKinds) /\ lib[p].msgNo \in Nat
            BY DEF LibInv, LibOK
        <3>4. Seq(AllowedKinds) \subseteq Seq(Kinds)
            BY <3>1
        <3> QED BY <3>2, <3>3, <3>4 DEF SeedInv, SeedsOK, InjectorOK
    <2> QED BY <2>1, <2>2 DEF TypeOK, StateInv, LibInv
<1>2. Init => PollInv /\ LibInv /\ StateInv /\ SeedInv
    BY InitPollInv, InitLibInv, InitTypes
<1>3. PollInv /\ LibInv /\ StateInv /\ SeedInv /\ [Next]_vars
        => PollInv' /\ LibInv' /\ StateInv' /\ SeedInv'
    BY NextPollInv, NextLibInv, NextStateInv, NextSeedInv
<1> QED BY <1>1, <1>2, <1>3, PTL DEF Spec
================================================================================
