---------------------------- MODULE LootGenerator ----------------------------
(***************************************************************************)
(* How loot comes to one map in time: loot_gen::LootGenerator and its two  *)
(* callers, the loot ticker and GameSession::AddDog.  GameSession leaves   *)
(* open how many items appear; here the number is computed, from the time  *)
(* the generator has been told of.                                         *)
(*                                                                         *)
(* The random generator is the default one, which always returns 1.  Time  *)
(* passes in units; Num / Den is 1 - probability taken to the power of one *)
(* unit in base intervals, so the double arithmetic of Generate is exact.  *)
(* Definitions named after a slip (ShortageOfAll) are plausible bugs of    *)
(* those which follow them.                                                *)
(***************************************************************************)
EXTENDS Naturals

CONSTANTS
    Period,      \* base_interval_, and the period of the loot ticker
    Num, Den,
    MaxDelay,    \* how late the ticker may come
    MaxLoots,    \* how many types of loot the map has
    MaxLooters,  \* bound: dogs on the map
    Enough       \* bound: time_without_loot_ is not counted further

\* std::pow.
Power(base) ==
    LET power[t \in Nat] == IF t = 0 THEN 1 ELSE base * power[t - 1]
    IN  power

\* std::round(loot_shortage * (1 - (Num / Den) ^ t))
Generated(shortage, t) ==
    LET kept == Power(Num)[t]
        all == Power(Den)[t]
    IN  (2 * shortage * (all - kept) + all) \div (2 * all)

\* More time than Enough changes no result.
ASSUME GeneratorAssumption ==
    /\ Period \in Nat \ {0} /\ MaxDelay \in Nat /\ MaxLoots \in Nat
    /\ Num \in Nat /\ Den \in Nat /\ Num < Den
    /\ MaxLooters \in Nat \ {0} /\ Enough \in Nat \ {0}
    /\ Generated(MaxLooters, Enough) = MaxLooters

VARIABLES
    loot,             \* lost_objects_.size()
    looters,          \* dogs_.size()
    timeWithoutLoot,  \* time_without_loot_, up to Enough
    sinceTick,        \* time since the loot ticker's last_tick_
    \* history, read by properties only
    missing           \* time since the last item came or none was missing

generatorVars == <<loot, looters, timeWithoutLoot, sinceTick, missing>>

AtMost(limit, t) == IF t > limit THEN limit ELSE t

\* The least time after which a single missing item comes.
FirstTime == CHOOSE t \in 0 .. Enough :
    Generated(1, t) > 0 /\ \A s \in 0 .. t - 1 : Generated(1, s) = 0
Drought == FirstTime + Period + MaxDelay

GeneratorInit ==
    /\ loot = 0 /\ looters = 0
    /\ timeWithoutLoot = 0 /\ sinceTick = 0
    /\ missing = 0

-----------------------------------------------------------------------------
(* LootGenerator::Generate.                                                *)

ShortageOfAll(dogs) == dogs
Shortage(dogs) == dogs - loot

CreditOnlyLast(delta) == AtMost(Enough, delta)
Credit(delta) == AtMost(Enough, timeWithoutLoot + delta)

\* time_without_loot_ starts anew with every item.
Generate(delta, dogs) ==
    LET count == Generated(Shortage(dogs), Credit(delta))
    IN  /\ loot' = loot + count
        /\ timeWithoutLoot' = IF count > 0 THEN 0 ELSE Credit(delta)

\* GameSession::GenerateLoot: no call of Generate when nothing is missing or
\* the map has no loot.
GenerateLoot(delta, dogs) ==
    IF MaxLoots = 0 \/ loot >= dogs
    THEN UNCHANGED <<loot, timeWithoutLoot>>
    ELSE Generate(delta, dogs)

\* The clock of the history variable missing.
Missing(passed) ==
    missing' = IF loot' >= looters' \/ loot' > loot THEN 0
               ELSE AtMost(Drought, missing + passed)

-----------------------------------------------------------------------------
Pass ==
    /\ sinceTick < Period + MaxDelay
    /\ sinceTick' = sinceTick + 1
    /\ UNCHANGED <<loot, looters, timeWithoutLoot>>
    /\ Missing(1)

\* The ticker measures the time since its last tick.
GenerateLootInSessions ==
    /\ sinceTick >= Period
    /\ GenerateLoot(sinceTick, looters)
    /\ sinceTick' = 0
    /\ UNCHANGED looters
    /\ Missing(0)

\* A new dog counts as a whole period.
AddDog ==
    /\ looters < MaxLooters
    /\ looters' = looters + 1
    /\ GenerateLoot(Period, looters + 1)
    /\ UNCHANGED sinceTick
    /\ Missing(0)

RemoveDog ==
    /\ looters > 0 /\ looters' = looters - 1
    /\ UNCHANGED <<loot, timeWithoutLoot, sinceTick>>
    /\ Missing(0)

CollectLoot ==
    /\ loot > 0 /\ looters > 0 /\ loot' = loot - 1
    /\ UNCHANGED <<looters, timeWithoutLoot, sinceTick>>
    /\ Missing(0)

GeneratorNext == Pass \/ GenerateLootInSessions \/ AddDog \/ RemoveDog \/ CollectLoot

GeneratorSpec == GeneratorInit /\ [][GeneratorNext]_generatorVars

-----------------------------------------------------------------------------
(* Properties.                                                             *)

GeneratorTypeOK ==
    /\ loot \in 0 .. MaxLooters /\ looters \in 0 .. MaxLooters
    /\ timeWithoutLoot \in 0 .. Enough
    /\ sinceTick \in 0 .. Period + MaxDelay
    /\ missing \in 0 .. Drought

\* Loot that appears never exceeds the number of dogs, although the rounding
\* is up and a new dog brings more time than has passed.
LootLimited == [][loot' > loot => loot' <= looters']_generatorVars

\* While an item is missing on a map that has loot one comes in bounded time, however joins,
\* retirements, collected items and late ticks mix: calls that round down to
\* nothing add up, and calls that are left out cost no more than a tick.
NoDrought == MaxLoots > 0 => missing < Drought
=============================================================================
