----------------------------- MODULE ErrorInjector -----------------------------
(***************************************************************************)
(* The error injection of libcpe464 in one process: what its settings      *)
(* manager takes from the environment, what sendErr_init adds, and what    *)
(* becomes of a packet that is sent.                                       *)
(*                                                                         *)
(* The state is a record, because a fork copies it: the standard event     *)
(* that drops the listed messages, the random events of which one may be   *)
(* drawn for a message, the number of messages sent, and the seeds.  The   *)
(* event that counts sequence numbers changes nothing and is left out, and *)
(* whether an event is drawn, which depends on the rate, is a choice.      *)
(***************************************************************************)
EXTENDS Integers, Sequences, FiniteSets

CONSTANT DropList       \* the message numbers of CPE464_OVERRIDE_ERR_DROP

ASSUME DropListAssumption == DropList \subseteq Nat

\* What CPE464_OVERRIDE_ERR_DROP and CPE464_OVERRIDE_ERR_FLIP may hold.  A list
\* without a number that is not negative asks for random events, and so does
\* a text without any number.
ListTexts == {"unset", "empty", "minus one", "numbers"}
IsSet(text) == text # "unset"
ParsedToNothing(text) == text \in {"empty", "minus one"}

Environments == [drop : ListTexts, flip : ListTexts, seedSet : BOOLEAN]

Kinds == {"drop", "flip"}

\* The seed of CPE464_OVERRIDE_SEEDRAND; the others are times.
OverrideSeed == -1

RandomOverrides(env) ==
    (IF ParsedToNothing(env.drop) THEN <<"drop">> ELSE <<>>)
        \o (IF ParsedToNothing(env.flip) THEN <<"flip">> ELSE <<>>)

\* A list of messages to flip is not implemented.
SettingsManager(env, now) ==
    [dropListed |-> env.drop = "numbers",
     chance |-> RandomOverrides(env),
     msgNo |-> 0,
     seed |-> IF env.seedSet THEN OverrideSeed ELSE now,
     nextSeed |-> 10]

\* Mutant of setUserMode: the program's wish is added to the override.
setUserModeAlways(text, kind, chance) == Append(chance, kind)

\* setUserMode_ErrDrop(1) and setUserMode_ErrFlip(1).
setUserMode(text, kind, chance) ==
    IF IsSet(text) THEN chance ELSE Append(chance, kind)

setUserMode_SeedRand(env, lib, value) ==
    [lib EXCEPT !.seed = IF env.seedSet THEN @ ELSE value]

\* Mutant of sendErr_init: flips are not asked for again.
sendErr_initDropsOnly(env, lib, now) ==
    [setUserMode_SeedRand(env, lib, now) EXCEPT
        !.chance = setUserMode(env.drop, "drop", @),
        !.nextSeed = now]

\* Its two calls of time are taken as one.
sendErr_init(env, lib, now) ==
    [setUserMode_SeedRand(env, lib, now) EXCEPT
        !.chance = setUserMode(env.flip, "flip", setUserMode(env.drop, "drop", @)),
        !.nextSeed = now]

\* forkMod, in the process that forks and in the new one.
ForkedParent(lib) == [lib EXCEPT !.nextSeed = @ + 1]
ForkedChild(env, lib) == setUserMode_SeedRand(env, ForkedParent(lib), lib.nextSeed)

ListDrops(lib, msgNo) == lib.dropListed /\ msgNo \in DropList

\* The event that is drawn: none, or one of the random events.
Drawn(lib) == {"none"} \cup {lib.chance[i] : i \in 1..Len(lib.chance)}

\* A packet that is both dropped and changed is dropped.
processEvents(lib, msgNo, drawn) ==
    IF ListDrops(lib, msgNo) \/ drawn = "drop" THEN "drop"
    ELSE IF drawn = "flip" THEN "flip" ELSE "sent"

InjectorOK(lib) ==
    /\ lib.dropListed \in BOOLEAN
    /\ lib.chance \in Seq(Kinds)
    /\ lib.msgNo \in Nat
    /\ lib.seed \in Nat \cup {OverrideSeed}
    /\ lib.nextSeed \in Nat

CountOf(kind, chance) == Cardinality({i \in 1..Len(chance) : chance[i] = kind})
================================================================================
