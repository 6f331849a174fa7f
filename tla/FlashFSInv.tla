------------------------------ MODULE FlashFSInv ------------------------------
(***************************************************************************)
(* The inductive invariant behind the map properties of FlashFS.           *)
(***************************************************************************)
EXTENDS FlashFS

\* The pages of the map slots are never up for allocation ...
ReservedUsed == Mounted => ReservedPages \subseteq used

\* ... so that the sector being filled is one that holds data.
OpenIsData == open # 0 => open >= Reserved

TypeInv == TypeOK /\ ReservedUsed /\ OpenIsData

\* Which request belongs to which point of a call.
RequestShape ==
    /\ pc = "idle" \/ Down => req = NoRequest
    /\ pc \in {"alloc", "copy"} => req.sync \in {"none", "alloc"}
    /\ Syncing => req.sync \in {"api", "alloc", "format"}
    /\ req.sync = "alloc" => req.retry

\* No restart happens while a sector is exposed (the assumption of the proofs).
DownUnexposed == Down => exposed = {}

\* Formatting starts only on a volume that does not mount, and works through
\* the slots in order.
FormatShape ==
    /\ pc \in {"damaged", "format"} => ~Mountable
    /\ pc = "format" =>
        \A m \in Meg, i \in {0, 1} : 2 * m + i \notin todo => ~Valid(m, i)
    /\ Formatting => \A f \in FatSector : map[f] = NoEntry
    /\ Syncing /\ req.sync = "format" => \A m \in dirty : ~HasSlot(m)
    /\ Down \/ Formatting => open = 0

\* Generations never run ahead of map_generation, and a sync under way writes
\* a generation newer than any slot it will replace.
Generations ==
    /\ Live => \A m \in Meg, i \in {0, 1} : slots[m][i].gen <= gen
    /\ Syncing => /\ todo \subseteq dirty
                  /\ \A m \in todo, i \in {0, 1} : slots[m][i].gen < gen

\* The two slots of a meg never tie.
DistinctGenerations ==
    \A m \in Meg : Valid(m, 0) /\ Valid(m, 1) => slots[m][0].gen # slots[m][1].gen

\* A mount would choose the slot RAM calls active.
ActiveWins ==
    Live => \A m \in Meg :
        HasSlot(m) =>
            /\ Valid(m, active[m])
            /\ Valid(m, Target(m)) =>
                    slots[m][Target(m)].gen < slots[m][active[m]].gen

\* Flash and RAM agree on every meg that is not dirty.
CleanMegs ==
    Live => \A f \in FatSector :
        MegOf(f) \notin dirty => HasSlot(MegOf(f)) /\ Persisted(f) = map[f]

UsedNotPending == Mounted => used \cap pending = {}

\* The page given up by the write under way.
OldPage ==
    Writing =>
        /\ req.old = map[req.fat]
        /\ req.old # NoEntry =>
            \/ req.old \in pending
            \/ pc \in {"alloc", "copy"} /\ req.retry /\ req.fat \in exposed

\* The free pages of the open sector are data pages nobody refers to.
OpenUnclaimed ==
    Mounted /\ open # 0 =>
        \A o \in free : <<open, o>> \in DataPage \ (used \cup pending)

\* A page in the RAM map is not another sector's page in the persisted map.
RamApart ==
    Live => \A f \in FatSector, g \in FatSector \ exposed :
        f # g /\ HasSlot(MegOf(g)) /\ map[f] = Persisted(g) => map[f] = NoEntry

\* What keeps the persisted map sound ...
SlotInv ==
    /\ TypeInv
    /\ RequestShape
    /\ FormatShape
    /\ Generations
    /\ DistinctGenerations
    /\ ActiveWins
    /\ CleanMegs

\* ... and what keeps the pages behind it apart and out of reach.
PageInv ==
    /\ DownUnexposed
    /\ UsedNotPending
    /\ OldPage
    /\ OpenUnclaimed
    /\ RamApart
    /\ NoSharedPage
    /\ UsedIsMapped
    /\ PersistedPinned
    /\ NoCrossLink

MapInv == SlotInv /\ PageInv
===============================================================================
