------------------------------- MODULE FlashFS -------------------------------
(***************************************************************************)
(* The flash translation layer of flash_fs.c in its current (MZP1) format: *)
(* 512-byte FAT sectors on 4096-byte NOR flash sectors, a map from FAT     *)
(* sectors to flash pages in RAM, and two slots per "meg" of the map on    *)
(* flash, written alternately.  One step is one flash operation (an erase  *)
(* or a program) together with the RAM updates around it: the code runs in *)
(* a single context, so power failing between two flash operations is the  *)
(* only interleaving there is.                                             *)
(***************************************************************************)
EXTENDS Integers, FiniteSets

CONSTANTS
    NumFlashSectors,  \* NUM_FLASH_SECTORS
    PagesPerSector,   \* 8 pages of 512 bytes in a flash sector
    NumMegs,          \* FLASH_MEGS
    EntriesPerMeg,    \* MZP1_ENTRIES_PER_MEG
    Data,             \* what a host can store in a FAT sector
    Zero,             \* the content an unmapped FAT sector reads as
    Erased,           \* an erased page (all 0xFF)
    Junk,             \* a page a failed or interrupted operation left behind
    Requests,         \* the <<FAT sector, data>> pairs the host writes
    MaxGeneration,    \* bound on map_generation (uint32_t in the code)
    BadPrograms,      \* subset of {"map", "page"}: programs that may go wrong
    CutWindows        \* subset of {"copy", "exposed"}: see Restartable

-----------------------------------------------------------------------------
\* Geometry.

Reserved == 2 * NumMegs
NumFatSectors == (NumFlashSectors - Reserved) * PagesPerSector

Sector == 0 .. NumFlashSectors - 1
Offset == 0 .. PagesPerSector - 1
Meg == 0 .. NumMegs - 1
FatSector == 0 .. NumFatSectors - 1

Page == Sector \X Offset
PagesOf(s) == {s} \X Offset
ReservedPages == (0 .. Reserved - 1) \X Offset
DataPage == Page \ ReservedPages

\* A map entry is a page; entry 0 (sector 0, page 0) means "never written".
NoEntry == <<0, 0>>
Entry == DataPage \cup {NoEntry}

MegOf(f) == f \div EntriesPerMeg
SectorsOf(m) == {f \in FatSector : MegOf(f) = m}

Content == Data \cup {Zero, Erased, Junk}

ASSUME GeometryAssumption ==
    /\ NumMegs \in Nat \ {0}
    /\ PagesPerSector \in Nat \ {0}
    /\ EntriesPerMeg \in Nat \ {0}
    /\ NumFlashSectors \in Nat
    /\ Reserved < NumFlashSectors
    /\ \A f \in FatSector : MegOf(f) \in Meg

ASSUME InputAssumption ==
    /\ Requests \subseteq FatSector \X Data
    /\ MaxGeneration \in Nat
    /\ BadPrograms \subseteq {"map", "page"}
    /\ CutWindows \subseteq {"copy", "exposed"}

-----------------------------------------------------------------------------
VARIABLES
    \* --- survives a power cut
    flash,     \* content of every data page
    slots,     \* the two map slots of every meg
    \* --- RAM of flash_fs.c
    map,       \* fs_map.sectors
    dirty,     \* the megs with fs_map_needs_written set
    active,    \* map_active_slot
    gen,       \* map_generation
    used,      \* used_bitmap, as a set of pages
    pending,   \* pending_free_bitmap, as a set of pages
    open,      \* write_sector (0 = none)
    free,      \* write_sector_bitmap, as a set of offsets
    search,    \* search_start_pos of getNextWriteSector
    \* --- where the running call stands
    pc, req, todo, scratch,
    \* --- history: FAT sectors whose persisted page was given back for reuse
    exposed

persistent == <<flash, slots>>
fsMap == <<map, dirty, active, gen>>
allocator == <<used, pending, open, free, search>>
call == <<pc, req, todo, scratch>>
vars == <<persistent, fsMap, allocator, call, exposed>>

\* A map slot: erased, holding no valid image, or the image of a meg.
BlankSlot == [image |-> "blank", gen |-> 0, entries |-> <<>>]
TornSlot == [image |-> "torn", gen |-> 0, entries |-> <<>>]
SlotImage(m) == {BlankSlot, TornSlot} \cup
                [image : {"valid"}, gen : Nat, entries : [SectorsOf(m) -> Entry]]
MapImage(m) == [image |-> "valid", gen |-> gen,
                entries |-> [f \in SectorsOf(m) |-> map[f]]]

NoRequest == [fat |-> 0, data |-> Zero, old |-> NoEntry, retry |-> FALSE,
              sync |-> "none"]
NoScratch == [o \in Offset |-> Erased]

-----------------------------------------------------------------------------
\* What is on flash, as a mount would find it.

Valid(m, i) == slots[m][i].image = "valid"
HasSlot(m) == Valid(m, 0) \/ Valid(m, 1)
Mountable == \A m \in Meg : HasSlot(m)

\* The valid slot with the higher generation; slot 0 when they tie.
Winner(m) ==
    IF Valid(m, 0) /\ (Valid(m, 1) => slots[m][0].gen >= slots[m][1].gen)
    THEN 0 ELSE 1

Persisted(f) == slots[MegOf(f)][Winner(MegOf(f))].entries[f]

\* What flash_fs_read_FAT_sector returns for a map entry.
Read(e) == IF e = NoEntry THEN Zero ELSE flash[e]

-----------------------------------------------------------------------------
\* Power cuts and mounting.

Init ==
    /\ flash = [p \in DataPage |-> Erased]
    /\ slots = [m \in Meg |-> [i \in {0, 1} |-> BlankSlot]]
    /\ map = [f \in FatSector |-> NoEntry]
    /\ dirty = {}
    /\ active = [m \in Meg |-> 0]
    /\ gen = 0
    /\ used = {}
    /\ pending = {}
    /\ open = 0
    /\ free = {}
    /\ search = 0
    /\ pc = "off"
    /\ req = NoRequest
    /\ todo = {}
    /\ scratch = NoScratch
    /\ exposed = {}

(***************************************************************************)
(* The runs choose which of the two windows in which a power cut is known  *)
(* to lose synced data they look into: between the erase and the last      *)
(* reprogram of flash_erase_with_copy_sector ("copy"), and between a map   *)
(* sync forced from inside an allocation and the next sync ("exposed").    *)
(***************************************************************************)
Restartable ==
    /\ pc = "copy" => "copy" \in CutWindows
    /\ exposed # {} => "exposed" \in CutWindows

ForgetCall == /\ req' = NoRequest
              /\ todo' = {}
              /\ scratch' = NoScratch

LosePower ==
    /\ map' = [f \in FatSector |-> NoEntry]
    /\ dirty' = {}
    /\ active' = [m \in Meg |-> 0]
    /\ gen' = 0
    /\ used' = {}
    /\ pending' = {}
    /\ open' = 0
    /\ free' = {}
    /\ search' = 0
    /\ pc' = "off"
    /\ ForgetCall

-----------------------------------------------------------------------------
\* Choosing a page: getNextWriteSector.

\* Mutant: the quarantine is not looked at.
OccupiedByUsed(s) == {o \in Offset : <<s, o>> \in used}

Occupied(s) == {o \in Offset : <<s, o>> \in used \cup pending}
FreeSectors == {s \in Sector : Occupied(s) = {}}
PartialSectors == {s \in Sector : Occupied(s) # Offset}
HasOpenPage == open # 0 /\ free # {}

IsMin(x, S) == x \in S /\ \A y \in S : x <= y

\* The first fit of the circular scan that starts at search_start_pos.
IsFirst(s, S) ==
    /\ s \in S
    /\ \A t \in S : (s - search) % NumFlashSectors <= (t - search) % NumFlashSectors

Fill(pages, c) == [p \in DataPage |-> IF p \in pages THEN c ELSE flash[p]]

\* Mutant: the erase is forgotten.
OpenWithoutErase ==
    /\ pc = "alloc"
    /\ ~HasOpenPage
    /\ \E s \in FreeSectors :
        /\ IsFirst(s, FreeSectors)
        /\ open' = s
        /\ free' = Offset
        /\ search' = s
    /\ UNCHANGED <<persistent, fsMap, used, pending, call, exposed>>

\* A completely free sector is erased and becomes the write sector.
OpenFreeSector ==
    /\ pc = "alloc"
    /\ ~HasOpenPage
    /\ \E s \in FreeSectors :
        /\ IsFirst(s, FreeSectors)
        /\ flash' = Fill(PagesOf(s), Erased)
        /\ open' = s
        /\ free' = Offset
        /\ search' = s
    /\ UNCHANGED <<slots, fsMap, used, pending, call, exposed>>

\* Otherwise a sector with some eligible page is: its occupied pages are
\* copied to RAM, the sector erased, and the pages programmed back.
OpenPartialSector ==
    /\ pc = "alloc"
    /\ ~HasOpenPage
    /\ FreeSectors = {}
    /\ \E s \in PartialSectors :
        /\ IsFirst(s, PartialSectors)
        /\ scratch' = [o \in Offset |-> flash[<<s, o>>]]
        /\ flash' = Fill(PagesOf(s), Erased)
        /\ open' = s
        /\ free' = Offset \ Occupied(s)
        /\ search' = s
        /\ todo' = Occupied(s)
    /\ pc' = "copy"
    /\ UNCHANGED <<slots, fsMap, used, pending, req, exposed>>

CopyBack ==
    /\ pc = "copy"
    /\ \E o \in todo :
        /\ IsMin(o, todo)
        /\ flash' = Fill({<<open, o>>}, scratch[o])
        /\ todo' = todo \ {o}
    /\ IF todo' = {}
       THEN pc' = "alloc" /\ scratch' = NoScratch
       ELSE UNCHANGED <<pc, scratch>>
    /\ UNCHANGED <<slots, fsMap, allocator, req, exposed>>

-----------------------------------------------------------------------------
\* Writing the map: write_fs_map.

BeginSync(why, retry) ==
    /\ gen' = gen + 1
    /\ todo' = dirty
    /\ req' = [req EXCEPT !.sync = why, !.retry = retry]
    /\ pc' = "sync"

\* flash_fs_sync, from CTRL_SYNC or the deferred sync of USB mode.
Sync ==
    /\ pc = "idle"
    /\ gen < MaxGeneration
    /\ BeginSync("api", FALSE)
    /\ UNCHANGED <<persistent, map, dirty, active, allocator, scratch, exposed>>

\* Mutant: no limit on the attempts of an allocation.
ForceSyncAgain ==
    /\ pc = "alloc"
    /\ ~HasOpenPage
    /\ PartialSectors = {}
    /\ pending # {}
    /\ todo' = dirty
    /\ req' = [req EXCEPT !.sync = "alloc", !.retry = TRUE]
    /\ pc' = "sync"
    /\ UNCHANGED <<persistent, fsMap, allocator, scratch, exposed>>

\* Only quarantined pages are left: persist the map to make them free.
ForceSync ==
    /\ pc = "alloc"
    /\ ~HasOpenPage
    /\ PartialSectors = {}
    /\ pending # {}
    /\ ~req.retry
    /\ BeginSync("alloc", TRUE)
    /\ UNCHANGED <<persistent, map, dirty, active, allocator, scratch, exposed>>

\* Mutant: the map is rewritten in place.
ActiveSlot(m) == active[m]

Target(m) == 1 - active[m]

EraseSlot ==
    /\ pc = "sync"
    /\ \E m \in todo :
        /\ IsMin(m, todo)
        /\ slots' = [slots EXCEPT ![m] = [@ EXCEPT ![Target(m)] = BlankSlot]]
    /\ pc' = "program"
    /\ UNCHANGED <<flash, fsMap, allocator, req, todo, scratch, exposed>>

\* The image is read back: only a good one makes the slot the active one.
ProgramSlot ==
    /\ pc = "program"
    /\ \E m \in todo :
        /\ IsMin(m, todo)
        /\ todo' = todo \ {m}
        /\ \/ /\ slots' = [slots EXCEPT ![m] = [@ EXCEPT ![Target(m)] = MapImage(m)]]
              /\ active' = [active EXCEPT ![m] = Target(m)]
              /\ dirty' = dirty \ {m}
              /\ exposed' = exposed \ SectorsOf(m)
           \/ /\ "map" \in BadPrograms
              /\ slots' = [slots EXCEPT ![m] = [@ EXCEPT ![Target(m)] = TornSlot]]
              /\ UNCHANGED <<active, dirty, exposed>>
    /\ pc' = "sync"
    /\ UNCHANGED <<flash, map, gen, allocator, req, scratch>>

\* Mutant: a failed sync releases the quarantine too.
UnquarantineAlways == pending' = {}

\* Quarantined pages become free once every dirty meg is on flash.
Unquarantine == pending' = IF dirty = {} THEN {} ELSE pending

EndSync ==
    /\ pc = "sync"
    /\ todo = {}
    /\ req.sync = "api"
    /\ Unquarantine
    /\ pc' = "idle"
    /\ ForgetCall
    /\ UNCHANGED <<persistent, fsMap, used, open, free, search, exposed>>

\* A forced sync returns into the allocation.  The page of the sector being
\* written is among those given back, though the new map still names it.
ResumeAlloc ==
    /\ pc = "sync"
    /\ todo = {}
    /\ req.sync = "alloc"
    /\ Unquarantine
    /\ exposed' = IF dirty = {} /\ req.old # NoEntry
                  THEN exposed \cup {req.fat} ELSE exposed
    /\ pc' = "alloc"
    /\ UNCHANGED <<persistent, fsMap, used, open, free, search, req, todo, scratch>>

-----------------------------------------------------------------------------
\* flash_fs_write_FAT_sector.

Quarantine(old) ==
    IF old = NoEntry THEN UNCHANGED <<used, pending>>
    ELSE /\ used' = used \ {old}
         /\ pending' = pending \cup {old}

Write(f, d) ==
    /\ pc = "idle"
    /\ gen < MaxGeneration
    /\ req' = [fat |-> f, data |-> d, old |-> map[f], retry |-> FALSE, sync |-> "none"]
    /\ Quarantine(map[f])
    /\ pc' = "alloc"
    /\ UNCHANGED <<persistent, fsMap, open, free, search, todo, scratch, exposed>>

TakePage ==
    /\ pc = "alloc"
    /\ HasOpenPage
    /\ \E o \in free, c \in {req.data} \cup (IF "page" \in BadPrograms THEN {Junk} ELSE {}) :
        /\ IsMin(o, free)
        /\ flash' = Fill({<<open, o>>}, c)
        /\ map' = [map EXCEPT ![req.fat] = <<open, o>>]
        /\ used' = used \cup {<<open, o>>}
        /\ free' = free \ {o}
    /\ dirty' = dirty \cup {MegOf(req.fat)}
    /\ pc' = "idle"
    /\ ForgetCall
    /\ UNCHANGED <<slots, active, gen, pending, open, search, exposed>>

\* Mutant: full although a sync would free pages.
FullBeforeSync == ~HasOpenPage /\ PartialSectors = {}

NothingToAllocate ==
    /\ ~HasOpenPage
    /\ PartialSectors = {}
    /\ req.retry \/ pending = {}

VolumeFull ==
    /\ pc = "alloc"
    /\ NothingToAllocate
    /\ IF req.old = NoEntry THEN UNCHANGED <<used, pending>>
       ELSE /\ used' = used \cup {req.old}
            /\ pending' = pending \ {req.old}
    /\ pc' = "idle"
    /\ ForgetCall
    /\ UNCHANGED <<persistent, fsMap, open, free, search, exposed>>

-----------------------------------------------------------------------------
\* Mounting, formatting, and losing power.

\* Mutant: the generation of one meg is taken for all.
FirstMegGeneration(g) == g = slots[0][Winner(0)].gen

NewestGeneration(g) == \A m \in Meg : g >= slots[m][Winner(m)].gen

\* Mutant: the bitmap is not built from the map.
ReservedOnly == ReservedPages

\* init_used_bitmap, over the map just loaded.
InitUsed == ReservedPages \cup {Persisted(f) : f \in FatSector}

\* flash_fs_mount with init_used_bitmap: after power-on, or again while
\* running (a USB host that enumerates the device anew).
Mount ==
    /\ pc = "off" \/ (pc = "idle" /\ Restartable)
    /\ Mountable
    /\ map' = [f \in FatSector |-> Persisted(f)]
    /\ active' = [m \in Meg |-> Winner(m)]
    /\ gen' \in {slots[m][Winner(m)].gen : m \in Meg}
    /\ NewestGeneration(gen')
    /\ dirty' = {}
    /\ used' = InitUsed
    /\ pending' = {}
    /\ open' = 0
    /\ exposed' = {}
    /\ pc' = "idle"
    /\ UNCHANGED <<persistent, free, search, req, todo, scratch>>

MountFails ==
    /\ pc = "off"
    /\ ~Mountable
    /\ pc' = "damaged"
    /\ UNCHANGED <<persistent, fsMap, allocator, req, todo, scratch, exposed>>

\* flash_fs_create: by the firmware on a blank region, or by mzpico_format
\* on a volume that no longer mounts.
Format ==
    /\ pc = "damaged"
    /\ map' = [f \in FatSector |-> NoEntry]
    /\ gen' = 0
    /\ todo' = 0 .. Reserved - 1
    /\ pc' = "format"
    /\ UNCHANGED <<persistent, dirty, active, allocator, req, scratch, exposed>>

FormatErase ==
    /\ pc = "format"
    /\ \E j \in todo :
        /\ IsMin(j, todo)
        /\ slots' = [slots EXCEPT ![j \div 2] = [@ EXCEPT ![j % 2] = BlankSlot]]
        /\ todo' = todo \ {j}
    /\ UNCHANGED <<flash, fsMap, allocator, pc, req, scratch, exposed>>

FormatMap ==
    /\ pc = "format"
    /\ todo = {}
    /\ active' = [m \in Meg |-> 1]
    /\ dirty' = Meg
    /\ gen' = gen + 1
    /\ todo' = Meg
    /\ req' = [req EXCEPT !.sync = "format"]
    /\ pc' = "sync"
    /\ UNCHANGED <<persistent, map, allocator, scratch, exposed>>

FinishFormat ==
    /\ pc = "sync"
    /\ todo = {}
    /\ req.sync = "format"
    /\ used' = ReservedPages
    /\ pending' = {}
    /\ open' = 0
    /\ pc' = "idle"
    /\ ForgetCall
    /\ UNCHANGED <<persistent, fsMap, free, search, exposed>>

\* What the next flash operation on data pages erases or programs.
NextErased == IF pc # "alloc" \/ HasOpenPage THEN {}
              ELSE IF FreeSectors # {} THEN FreeSectors
              ELSE IF "copy" \in CutWindows THEN PartialSectors ELSE {}
NextProgrammed == IF pc = "copy" THEN todo
                  ELSE IF pc = "alloc" /\ HasOpenPage THEN free ELSE {}

\* Power fails before, or in the middle of, the next flash operation.
SpoilPages ==
    /\ \/ \E s \in NextErased :
                IsFirst(s, NextErased) /\ flash' = Fill(PagesOf(s), Junk)
       \/ \E o \in NextProgrammed :
                IsMin(o, NextProgrammed) /\ flash' = Fill({<<open, o>>}, Junk)
    /\ UNCHANGED slots

SpoilSlot ==
    /\ \/ /\ pc \in {"sync", "program"}
          /\ \E m \in todo :
                /\ IsMin(m, todo)
                /\ slots' = [slots EXCEPT ![m] = [@ EXCEPT ![Target(m)] = TornSlot]]
       \/ /\ pc = "format"
          /\ \E j \in todo :
                /\ IsMin(j, todo)
                /\ slots' = [slots EXCEPT ![j \div 2] = [@ EXCEPT ![j % 2] = TornSlot]]
    /\ UNCHANGED flash

PowerCut ==
    /\ pc # "off"
    /\ Restartable
    /\ UNCHANGED persistent \/ SpoilPages \/ SpoilSlot
    /\ LosePower
    /\ UNCHANGED exposed

-----------------------------------------------------------------------------
Operation ==
    \/ OpenFreeSector \/ OpenPartialSector \/ CopyBack \/ TakePage \/ VolumeFull
    \/ ForceSync \/ EraseSlot \/ ProgramSlot \/ EndSync \/ ResumeAlloc
    \/ FormatErase \/ FormatMap \/ FinishFormat

Next ==
    \/ Operation
    \/ \E r \in Requests : Write(r[1], r[2])
    \/ Sync
    \/ Mount \/ MountFails \/ Format
    \/ PowerCut

Spec == Init /\ [][Next]_vars

\* The calls run to completion as long as there is power: each is a straight
\* loop of flash operations on one core.
FairSpec == Spec /\ WF_vars(Operation)

-----------------------------------------------------------------------------
\* Properties.

PersistentTypeOK ==
    /\ flash \in [DataPage -> Content]
    /\ slots = [m \in Meg |-> slots[m]]
    /\ \A m \in Meg : slots[m] \in [{0, 1} -> SlotImage(m)]

MapTypeOK ==
    /\ map \in [FatSector -> Entry]
    /\ dirty \subseteq Meg
    /\ active \in [Meg -> {0, 1}]
    /\ gen \in Nat

AllocatorTypeOK ==
    /\ used \subseteq Page
    /\ pending \subseteq DataPage
    /\ open \in Sector
    /\ free \subseteq Offset
    /\ search \in Sector

CallTypeOK ==
    /\ pc \in {"off", "damaged", "idle", "alloc", "copy", "sync", "program", "format"}
    /\ req \in [fat : FatSector, data : Data \cup {Zero}, old : Entry,
                retry : BOOLEAN, sync : {"none", "api", "alloc", "format"}]
    /\ pc = "copy" => todo \subseteq Offset
    /\ pc \in {"sync", "program"} => todo \subseteq Meg
    /\ pc = "format" => todo \subseteq 0 .. Reserved - 1
    /\ pc \in {"off", "damaged", "idle", "alloc"} => todo = {}
    /\ scratch \in [Offset -> Content]
    /\ exposed \subseteq FatSector

TypeOK == PersistentTypeOK /\ MapTypeOK /\ AllocatorTypeOK /\ CallTypeOK

\* Where the program stands.  Live: fs_map counts, for good or while it is
\* formatted; Writing: a host write is under way and has no page yet.
Live == pc \in {"idle", "alloc", "copy", "sync", "program"}
Down == pc \in {"off", "damaged", "format"}
Syncing == pc \in {"sync", "program"}
Formatting == pc = "format" \/ (Syncing /\ req.sync = "format")
Mounted == Live /\ ~Formatting
Writing == pc \in {"alloc", "copy"} \/ (Syncing /\ req.sync = "alloc")

\* No two FAT sectors share a page in the RAM map, or a write to one file
\* would change another.
NoSharedPage ==
    \A f, g \in FatSector : f # g /\ map[f] = map[g] => map[f] = NoEntry

\* used_bitmap tracks exactly the map: every mapped page is marked (but for
\* the one the write under way gave up), and nothing else is.
UsedIsMapped ==
    Mounted =>
        used = ReservedPages \cup
               ({map[f] : f \in FatSector} \ (IF Writing THEN {req.old} ELSE {}))

\* What the persisted map points at is never up for allocation, so that a
\* map that lags behind RAM still finds its pages (the quarantine).
PersistedPinned ==
    Live => \A f \in FatSector \ exposed :
                HasSlot(MegOf(f)) /\ Persisted(f) # NoEntry =>
                    Persisted(f) \in used \cup pending

\* No two sectors share a page, the used bitmap is the map's, and nothing a map
\* needs can be given away, through every failing program and every mount.
PagesApart == NoSharedPage /\ UsedIsMapped /\ PersistedPinned

\* A page is programmed only after an erase: NOR flash cannot set bits back.
NoOverprogram ==
    [][\A p \in DataPage :
          flash'[p] # flash[p] /\ flash'[p] \in Data => flash[p] = Erased]_vars

\* The persisted map of a volume that mounts (or is mounted) never points two
\* FAT sectors at one page.
NoCrossLink ==
    Live \/ Mountable => \A f, g \in FatSector \ exposed :
        /\ f # g
        /\ HasSlot(MegOf(f)) /\ HasSlot(MegOf(g))
        /\ Persisted(f) = Persisted(g)
        => Persisted(f) = NoEntry

\* Whenever power fails, a mount finds each FAT sector's data whole: not
\* erased, not torn, and not another sector's.
SyncedDataWhole ==
    pc # "copy" /\ Mountable =>
        \A f \in FatSector \ exposed :
            Read(Persisted(f)) \in {Zero} \cup {r[2] : r \in {q \in Requests : q[1] = f}}

\* A volume that mounts once mounts ever after ("never the volume").
VolumeSurvives == [][Mountable => Mountable']_vars

\* While the flash takes programs, an in-range write always finds a page:
\* the advertised sector count is the real page capacity.
NeverFullWhenHealthy == pc = "alloc" /\ NothingToAllocate => dirty # {}

\* A write that has started returns, unless power fails first.
WriteReturns == pc = "alloc" ~> pc \in {"idle", "off"}
=============================================================================
