------------------------------- MODULE DirDisk -------------------------------
(***************************************************************************)
(* A directory of FAT files mounted as a floppy: FDCDirSource behind the   *)
(* floppy controller, with its two personalities, Sharp Disk BASIC and     *)
(* CP/M.  The guest writes data sectors before it writes the directory     *)
(* sector that names them: until then they are staged, and each write of   *)
(* the directory is committed to the FAT files.  One step is one sector    *)
(* written by the guest, which the controller flushes before it ends the   *)
(* command; a block is one sector, and a file is a whole number of them.   *)
(***************************************************************************)
EXTENDS Integers, Sequences, FiniteSets, Functions, SequencesExt

CONSTANTS
    Names,      \* file names, as the guest writes them
    NumSlots,   \* entries of the directory
    PerSector,  \* entries of a directory sector
    NumBlocks,  \* allocation blocks of the file area
    PerExtent,  \* block pointers of a CP/M entry
    Data,       \* what the guest writes to a block, other than filler
    Fill,       \* the personality's filler, which unused blocks read as
    Junk,       \* what a failed write or a hole in a file leaves
    Unknown,    \* not known to the guest: see shadow
    MaxStage,   \* kMaxStage
    Shelves,    \* the mounts to start from: [fs, files] records
    Windows     \* subset of {"rename", "open", "inplace"}: see below

(***************************************************************************)
(* The runs choose which of the windows known to go wrong they look into:  *)
(*   "rename"   the guest renames a file under Disk BASIC;                 *)
(*   "open"     a FAT file cannot be opened during a commit;               *)
(*   "inplace"  a write to a file of the directory fails, and is staged.   *)
(***************************************************************************)
ASSUME DiskAssumption ==
    /\ {NumSlots, PerSector, NumBlocks, PerExtent, MaxStage} \subseteq Nat \ {0}
    /\ Fill \notin Data /\ Unknown \notin Data \cup {Fill, Junk}
    /\ Windows \subseteq {"rename", "open", "inplace"}

-----------------------------------------------------------------------------
VARIABLES
    fs,       \* fs_
    dir,      \* dir_image_; prev_dir_ is the same between two sectors
    box,      \* slot_fat_ by name, cpm_files_: the FAT file of each name
    files,    \* the FAT files of the directory
    stage,    \* stage_ and the temporary file
    shadow    \* history: what the guest knows each block to hold

vars == <<fs, dir, box, files, stage, shadow>>

Slots == 1 .. NumSlots
Blocks == 1 .. NumBlocks
Content == Data \cup {Fill, Junk}

\* A directory entry.  Under BASIC a file has one, with consecutive blocks;
\* under CP/M one per extent.
None == "none"
FreeEntry == [name |-> None, ext |-> 0, blocks |-> <<>>]
Entry(n, x, bs) == [name |-> n, ext |-> x, blocks |-> bs]
Run(first, n) == [i \in 1 .. n |-> first + i - 1]
Runs == {Run(b, n) : b \in Blocks, n \in Blocks} \cap Seq(Blocks)

\* A FAT name is the guest's name, "~k" when that is taken (k = 0: not).  A
\* file holds the name in its MZF header (BASIC; None: no file for the mount)
\* and its blocks.
FatName == Names \X (0 .. NumSlots)
Unstaged == "unstaged"
EmptyStage == [b \in Blocks |-> Unstaged]
Staged == {b \in Blocks : stage[b] # Unstaged}

-----------------------------------------------------------------------------
\* The directory d: who is in it, and which block is which part of a file.

InUse(d) == {s \in Slots : d[s].name # None}
NamesIn(d) == {d[s].name : s \in InUse(d)}
EntriesOf(d, n) == {d[s] : s \in {t \in InUse(d) : d[t].name = n}}
Held(d) == UNION {Range(d[s].blocks) : s \in InUse(d)}
Part(n, p) == [name |-> n, pos |-> p]

\* basMapBlock, cpmMapBlock: the name and the position of a held block.
PlaceOf(d, b) ==
    LET e == d[CHOOSE s \in InUse(d) : b \in Range(d[s].blocks)] IN
    Part(e.name, e.ext * PerExtent + (CHOOSE i \in DOMAIN e.blocks : e.blocks[i] = b))

Sector(s) == {t \in Slots : (t - 1) \div PerSector = (s - 1) \div PerSector}

\* serveData
Read(c, p) == IF p \in DOMAIN files[c].data THEN files[c].data[p] ELSE Fill

Backed(b) == b \in Held(dir) /\ PlaceOf(dir, b).name \in DOMAIN box

Served(b) ==
    IF stage[b] # Unstaged THEN stage[b]
    ELSE IF Backed(b) THEN Read(box[PlaceOf(dir, b).name], PlaceOf(dir, b).pos)
    ELSE Fill

-----------------------------------------------------------------------------
\* Mounting: buildBasic, buildCpm.  The files come in any order.

Fits(m, ents, n) ==
    /\ m.slot + ents - 1 <= NumSlots
    /\ m.next + n - 1 <= NumBlocks

Put(m, name, c, ents, n) ==
    [dir |-> [s \in Slots |->
                IF s \in m.slot .. m.slot + Len(ents) - 1 THEN ents[s - m.slot + 1]
                ELSE m.dir[s]],
     box |-> [k \in DOMAIN m.box \cup {name} |-> IF k = name THEN c ELSE m.box[k]],
     slot |-> m.slot + Len(ents), next |-> m.next + n]

AddBasic(fat, m, c) ==
    LET f == fat[c]
        n == Len(f.data) IN
    IF f.name \in {None} \cup DOMAIN m.box \/ ~Fits(m, 1, n) THEN m
    ELSE Put(m, f.name, c, <<Entry(f.name, 0, Run(m.next, n))>>, n)

Extents(n) == IF n = 0 THEN 1 ELSE (n + PerExtent - 1) \div PerExtent

\* Under CP/M the FAT name is the guest's; "~k" would be another one.
AddCpm(fat, m, c) ==
    LET n == Len(fat[c].data)
        all == Run(m.next, n)
        ents == [x \in 1 .. Extents(n) |->
                    Entry(c[1], x - 1, SubSeq(all, (x - 1) * PerExtent + 1,
                                             IF x = Extents(n) THEN n ELSE x * PerExtent))]
    IN
    IF c[2] # 0 \/ c[1] \in DOMAIN m.box \/ ~Fits(m, Len(ents), n) THEN m
    ELSE Put(m, c[1], c, ents, n)

EmptyMount == [dir |-> [s \in Slots |-> FreeEntry], box |-> <<>>, slot |-> 1, next |-> 1]

Build(sys, fat, order) ==
    FoldLeft(LAMBDA m, c : IF sys = "basic" THEN AddBasic(fat, m, c) ELSE AddCpm(fat, m, c),
             EmptyMount, order)

Mount(sys, fat, order) ==
    LET m == Build(sys, fat, order) IN dir' = m.dir /\ box' = m.box

-----------------------------------------------------------------------------
\* A data sector: store_bytes, and what the controller reports after it.

Keep(b, d) == shadow' = [shadow EXCEPT ![b] = d]
Refuse(b) == shadow' = [shadow EXCEPT ![b] = Unknown]

\* Put content c at position p of a file; writing past its end leaves a hole.
At(data, p, c) ==
    [i \in 1 .. IF p > Len(data) THEN p ELSE Len(data) |->
        IF i = p THEN c ELSE IF i <= Len(data) THEN data[i] ELSE Junk]

\* In-place update of a file of the directory.
WriteThrough(b, d) ==
    /\ Backed(b) /\ stage[b] = Unstaged
    /\ LET q == PlaceOf(dir, b) IN
       files' = [files EXCEPT ![box[q.name]].data = At(@, q.pos, d)]
    /\ Keep(b, d)
    /\ UNCHANGED <<fs, dir, box, stage>>

\* The block belongs to no file, or its file cannot be written.
ToStage(b) == Backed(b) /\ stage[b] = Unstaged => "inplace" \in Windows

\* stagePut: filler needs no room, ...
WriteFiller(b) ==
    /\ ToStage(b) /\ stage[b] = Unstaged
    /\ Keep(b, Fill)
    /\ UNCHANGED <<fs, dir, box, files, stage>>

StageFull == Cardinality(Staged) >= MaxStage

\* ... anything else a slot, ...
WriteStaged(b, d) ==
    /\ ToStage(b)
    /\ stage[b] = Unstaged => d # Fill /\ ~StageFull
    /\ stage' = [stage EXCEPT ![b] = d]
    /\ Keep(b, d)
    /\ UNCHANGED <<fs, dir, box, files>>

\* ... and with no slot or no room on the medium the write is refused: the
\* controller ends the command with a write fault.
WriteRefused(b, d) ==
    /\ ToStage(b)
    /\ stage[b] = Unstaged => d # Fill
    /\ \/ stage[b] = Unstaged /\ UNCHANGED stage
       \/ ~StageFull /\ stage' = [stage EXCEPT ![b] = Junk]
       \/ stage[b] # Unstaged /\ stage' = [stage EXCEPT ![b] = Junk]
    /\ Refuse(b)
    /\ UNCHANGED <<fs, dir, box, files>>

-----------------------------------------------------------------------------
\* The commit of a directory: dir becomes new.  Denied names are those whose
\* FAT file cannot be opened.

\* uniqueFatName
FreeName(fat, n) ==
    CHOOSE c \in {n} \X (0 .. NumSlots) :
        /\ c \notin DOMAIN fat
        /\ \A k \in 0 .. c[2] - 1 : <<n, k>> \in DOMAIN fat

\* Mutant: an existing file of that name is overwritten.
FirstName(fat, n) == <<n, 0>>

NewContainer(fat, n) == FreeName(fat, n)

\* f itself: choosing it makes TLC tabulate it once.
Once(f) == CHOOSE g \in {f} : TRUE

Only(f, S) == [x \in DOMAIN f \cap S |-> f[x]]
Over(f, g) == [x \in DOMAIN f \cup DOMAIN g |-> IF x \in DOMAIN g THEN g[x] ELSE f[x]]

\* Mutant: the staged blocks of a file that is replaced are kept.
KeepStage(bs) == UNCHANGED stage

DropStaged(bs) == stage' = [b \in Blocks |-> IF b \in bs THEN Unstaged ELSE stage[b]]

BlocksOf(d, n) == (CHOOSE e \in EntriesOf(d, n) : TRUE).blocks

\* Renames: the identity is gone, a new one has its exact extent.
HeirsBasic(new, n) ==
    IF n \in NamesIn(dir) THEN {}
    ELSE {o \in DOMAIN box \ NamesIn(new) : BlocksOf(dir, o) = BlocksOf(new, n)}

\* Blocks the entry held before, from the same start, arrived in place.
InPlaceBasic(new, n, i) ==
    /\ n \in NamesIn(dir)
    /\ Head(BlocksOf(dir, n)) = Head(BlocksOf(new, n))
    /\ i <= Len(BlocksOf(dir, n))

Deleted(moved) == Range(box) \ Range(moved)

\* commitBasic: renames, deletions, then the entries that changed or have no
\* FAT file yet.
CommitBasic(new, denied) ==
    LET heirs(n) == HeirsBasic(new, n)
        moved == [n \in {m \in NamesIn(new) : m \in DOMAIN box \/ heirs(m) # {}} |->
                    IF n \in DOMAIN box THEN box[n] ELSE box[CHOOSE o \in heirs(n) : TRUE]]
        left == Only(files, DOMAIN files \ Deleted(moved))
        todo == {n \in NamesIn(new) \ denied :
                    n \notin DOMAIN moved \/ EntriesOf(new, n) # EntriesOf(dir, n)}
        made == [n \in todo \ DOMAIN moved |-> NewContainer(left, n)]
        home == Over(moved, made)
        body(n) == [i \in DOMAIN BlocksOf(new, n) |->
                     LET b == BlocksOf(new, n)[i] IN
                     IF stage[b] # Unstaged THEN stage[b]
                     ELSE IF n \in DOMAIN moved /\ InPlaceBasic(new, n, i)
                     THEN Read(home[n], i)
                     ELSE Fill]
        user(c) == CHOOSE n \in todo : home[n] = c
    IN
    /\ box' = home
    /\ files' = Over(left, [c \in {home[n] : n \in todo} |->
                              [name |-> user(c), data |-> body(user(c))]])
    /\ DropStaged(UNION {Range(BlocksOf(new, n)) : n \in todo})

\* The identities a directory rewrite touches.
Affected(new) ==
    UNION {{dir[s].name, new[s].name} : s \in {t \in Slots : dir[t] # new[t]}} \ {None}

\* REN: fully gone, fully new, with the same blocks.
HeldBy(d, n) == UNION {Range(e.blocks) : e \in EntriesOf(d, n)}
HeirsCpm(new, n) ==
    IF n \in NamesIn(dir) \cup DOMAIN box \/ HeldBy(new, n) = {} THEN {}
    ELSE {o \in (DOMAIN box \cap NamesIn(dir)) \ NamesIn(new) : HeldBy(dir, o) = HeldBy(new, n)}

EndOf(d, n) ==
    Max({e.ext * PerExtent + Len(e.blocks) : e \in EntriesOf(d, n)})

\* Mutant: the blocks of the former owner are not copied.
NoFormerOwner(was, b) == FALSE

HadOwner(was, b) == b \in DOMAIN was

\* commitCpm: renames, then the names that are in the new directory, at last
\* those that are not.  A block that came from another name is copied from
\* its file, which stays open: that name's own entry is then not processed.
CommitCpm(new, denied) ==
    LET touched == Affected(new)
        saved == touched \cap NamesIn(new)
        renamed == {n \in saved : HeirsCpm(new, n) # {}}
        heir(n) == CHOOSE o \in HeirsCpm(new, n) : TRUE
        gone == {heir(n) : n \in renamed}
        fat == Once([c \in (DOMAIN files \ {box[o] : o \in gone})
                            \cup {NewContainer(files, n) : n \in renamed} |->
                        IF c \in DOMAIN files THEN files[c] ELSE files[box[heir(c[1])]]])
        known == Once([n \in (DOMAIN box \ gone) \cup renamed |->
                        IF n \in renamed THEN NewContainer(files, n) ELSE box[n]])
        was == Once([b \in Held(dir) |-> PlaceOf(dir, b)])
        now == Once([b \in Held(new) |-> PlaceOf(new, b)])
        others(n) == {was[b].name : b \in HeldBy(new, n) \cap DOMAIN was} \ {n}
        wanted == saved \ denied
        lenders == UNION {others(n) : n \in wanted} \ gone
        todo == wanted \ lenders
        home == Once(Over(known, [n \in todo \ DOMAIN known |-> NewContainer(fat, n)]))
        inPlace(b) == HadOwner(was, b) /\ (was[b] = now[b] \/ was[b].name \notin DOMAIN known)
        copied(b) ==
            LET src == fat[known[was[b].name]].data IN
            IF HadOwner(was, b) /\ was[b].pos \in DOMAIN src THEN src[was[b].pos] ELSE Fill
        written == Once([b \in {c \in DOMAIN now : stage[c] # Unstaged \/ ~inPlace(c)} |->
                          IF stage[b] # Unstaged THEN stage[b] ELSE copied(b)])
        body(n) ==
            LET old == IF n \in DOMAIN known THEN fat[known[n]].data ELSE <<>>
                mine == {b \in DOMAIN written : now[b].name = n}
                put == {now[b].pos : b \in mine}
            IN
            [p \in 1 .. Min({EndOf(new, n), Max({Len(old)} \cup put)}) |->
                IF p \in put THEN written[CHOOSE b \in mine : now[b].pos = p]
                ELSE IF p \in DOMAIN old THEN old[p] ELSE Junk]
        user(c) == CHOOSE n \in todo : home[n] = c
        over == (touched \cap DOMAIN known) \ saved
    IN
    /\ box' = Only(home, DOMAIN home \ over)
    /\ files' = Only(Over(fat, [c \in {home[n] : n \in todo} |->
                                 [name |-> None, data |-> body(user(c))]]),
                     (DOMAIN fat \cup Range(home)) \ {known[n] : n \in over})
    /\ DropStaged(UNION {HeldBy(new, n) : n \in todo})

-----------------------------------------------------------------------------
\* A directory sector, as a legal guest rewrites it.

\* The extents of a name, none missing and all full but the last.
ExtentsOf(n) == {e.ext : e \in EntriesOf(dir, n)}
Contiguous(n) ==
    /\ ExtentsOf(n) = 0 .. Cardinality(ExtentsOf(n)) - 1
    /\ \A e, f \in EntriesOf(dir, n) : e.ext < f.ext => Len(e.blocks) = PerExtent

\* What an entry lists: consecutive blocks, or a CP/M extent.
Lists == {SetToSortSeq(bs, <) : bs \in {c \in SUBSET Blocks : Cardinality(c) <= PerExtent}}
Listed(x) ==
    IF fs = "cpm" THEN {bs \in Lists : x > 0 => bs # <<>>} ELSE IF x = 0 THEN Runs ELSE {}

\* A free entry takes the next extent of a file, in free blocks,
Creates(free) ==
    LET lists(x) == {bs \in Listed(x) : Range(bs) \subseteq free} IN
    UNION {LET x == Cardinality(ExtentsOf(n)) IN {Entry(n, x, bs) : bs \in lists(x)} :
            n \in {m \in Names : \A e \in EntriesOf(dir, m) : Len(e.blocks) = PerExtent}}

\* and the last extent grows; a BASIC file may also shrink or move.
Resizes(e, free) ==
    LET grown(bs) == /\ IsPrefix(e.blocks, bs)
                     /\ Range(bs) \subseteq free \cup Range(e.blocks)
        moved(bs) == fs = "basic" /\ (IsPrefix(bs, e.blocks) \/ Range(bs) \subseteq free)
    IN
    {[e EXCEPT !.blocks = bs] :
        bs \in {c \in Listed(e.ext) : c # e.blocks /\ (grown(c) \/ moved(c))}}

OneEntry ==
    LET free == Blocks \ Held(dir)
        last == {s \in InUse(dir) : dir[s].ext = Cardinality(ExtentsOf(dir[s].name)) - 1}
        made == Creates(free)
    IN
    IF \E n \in Names : ~Contiguous(n) THEN {}
    ELSE {[dir EXCEPT ![s] = e] : s \in Slots \ InUse(dir), e \in made}
         \cup UNION {{[dir EXCEPT ![s] = e] : e \in Resizes(dir[s], free)} : s \in last}

\* Erasing a file, or formatting: entries of one sector become free.
Erasures ==
    {[t \in Slots |-> IF t \in Sector(s) /\ dir[t].name \in ns THEN FreeEntry ELSE dir[t]] :
        s \in InUse(dir), ns \in {{n} : n \in Names} \cup {Names}}

\* REN rewrites the name in every entry of the sector; with a new name, or
\* the one it gave the entries of another sector.
Renaming(o, n) ==
    /\ o # n /\ ExtentsOf(o) \cap ExtentsOf(n) = {}
    /\ n \in NamesIn(dir) =>
        ExtentsOf(o) \cup ExtentsOf(n) = 0 .. Cardinality(ExtentsOf(o) \cup ExtentsOf(n)) - 1

Renames ==
    {[t \in Slots |-> IF t \in Sector(q[1]) /\ dir[t].name = dir[q[1]].name
                      THEN [dir[t] EXCEPT !.name = q[2]] ELSE dir[t]] :
        q \in {r \in InUse(dir) \X Names : Renaming(dir[r[1]].name, r[2])}}

Legal(new) ==
    /\ new # dir
    /\ \A s, t \in InUse(new) : s # t => <<new[s].name, new[s].ext>> # <<new[t].name, new[t].ext>>
    /\ fs = "basic" => \A n \in NamesIn(new) \ NamesIn(dir) :
            HeirsBasic(new, n) = {} \/ "rename" \in Windows

WriteDir(new) ==
    /\ Legal(new)
    /\ dir' = new
    /\ \E denied \in SUBSET (IF "open" \in Windows THEN Names ELSE {}) :
        IF fs = "basic" THEN CommitBasic(new, denied) ELSE CommitCpm(new, denied)
    /\ shadow' = [b \in Blocks |-> IF b \in Held(dir) \ Held(new) THEN Unknown ELSE shadow[b]]
    /\ UNCHANGED fs

-----------------------------------------------------------------------------
\* A Z80 reset: sessionAbort.  What is staged belongs to a dead session.
Reset ==
    /\ stage' = EmptyStage
    /\ shadow' = [b \in Blocks |-> IF b \in Staged THEN Unknown ELSE shadow[b]]
    /\ UNCHANGED <<fs, dir, box, files>>

\* What the guest may expect of a directory it has not read yet: the content,
\* unless it is nobody's.
Expected(b) == IF b \in Held(dir) /\ Served(b) # Junk THEN Served(b) ELSE Unknown

AsServed == shadow' = [b \in Blocks |-> Expected(b)']

\* No rename or erasure of several directory sectors is half done.
Whole ==
    \A n \in DOMAIN box :
        /\ Contiguous(n)
        /\ Len(files[box[n]].data) <= EndOf(dir, n)

\* The power is cut, or the directory is ejected, and mounted again.  Not
\* modelled: while not Whole, which leaves a part of a file under each name.
Remount ==
    /\ UNCHANGED <<fs, files>> /\ stage' = EmptyStage
    /\ Whole
    /\ \E order \in SetToSeqs(DOMAIN files) : Mount(fs, files, order)
    /\ AsServed

Init ==
    /\ \E m \in Shelves :
        /\ fs = m.fs /\ files = m.files
        /\ \E order \in SetToSeqs(DOMAIN m.files) :
            LET built == Build(m.fs, m.files, order) IN dir = built.dir /\ box = built.box
    /\ stage = EmptyStage
    /\ shadow = [b \in Blocks |-> Expected(b)]

Next ==
    \/ \E b \in Blocks, d \in Data \cup {Fill} :
        \/ WriteThrough(b, d) \/ WriteStaged(b, d) \/ WriteRefused(b, d)
    \/ \E b \in Blocks : WriteFiller(b)
    \/ \E new \in OneEntry \cup Erasures \cup Renames : WriteDir(new)
    \/ Reset \/ Remount

Spec == Init /\ [][Next]_vars

-----------------------------------------------------------------------------
TypeOK ==
    /\ fs \in {"basic", "cpm"}
    /\ \A s \in Slots :
        /\ dir[s].name \in Names \cup {None} /\ dir[s].ext \in 0 .. NumSlots - 1
        /\ dir[s].blocks \in Seq(Blocks)
    /\ DOMAIN box \subseteq Names /\ Range(box) \subseteq DOMAIN files
    /\ DOMAIN files \subseteq FatName
    /\ \A c \in DOMAIN files : files[c].name \in Names \cup {None}
                                /\ files[c].data \in Seq(Content)
    /\ stage \in [Blocks -> Content \cup {Unstaged}]
    /\ Cardinality(Staged) <= MaxStage
    /\ shadow \in [Blocks -> Data \cup {Fill, Unknown}]

(***************************************************************************)
(* Whatever the guest knows a block to hold, because it wrote it and no    *)
(* fault was reported, or because the directory it mounted holds it, is    *)
(* what it reads there: "the disk must not shift under the guest"          *)
(* (fdc_dir_source.hpp:26), and it "must not believe a write that never    *)
(* landed" (fdc.cpp:564).                                                  *)
(***************************************************************************)
ReadsBack == \A b \in Blocks : shadow[b] # Unknown => Served(b) = shadow[b]

(***************************************************************************)
(* The FAT directory mirrors the guest's: every name in it has a file of   *)
(* its own, with that name in its header, that holds every block the       *)
(* directory gives it, and no such block is left in the staging map; and   *)
(* no file is left behind of an entry that is gone, for the next mount to  *)
(* bring back (README.md:251, "deletes and renames are mirrored").         *)
(***************************************************************************)
Mirrored ==
    /\ TypeOK
    /\ DOMAIN box = NamesIn(dir)
    /\ \A n, m \in DOMAIN box : n # m => box[n] # box[m]
    /\ \A n \in DOMAIN box :
        LET f == files[box[n]] IN
        /\ fs = "basic" => f.name = n /\ Len(f.data) = Len(BlocksOf(dir, n))
        /\ \A b \in HeldBy(dir, n) : PlaceOf(dir, b).pos <= Len(f.data)
    /\ \A b \in Held(dir) : stage[b] = Unstaged
    /\ \A c \in DOMAIN files \ Range(box) : fs = "basic" /\ files[c].name = None

(***************************************************************************)
(* Mounting again, in whatever order the FAT lists the files, shows every  *)
(* name the guest saved, and every block of it with the content it had.    *)
(***************************************************************************)
Survives ==
    Whole =>
        \A order \in SetToSeqs(DOMAIN files) :
            LET m == Build(fs, files, order)
                shown == {PlaceOf(m.dir, c) : c \in Held(m.dir)} IN
            /\ NamesIn(dir) \subseteq DOMAIN m.box
            /\ \A b \in Held(dir) :
                LET q == PlaceOf(dir, b) IN
                q \in shown /\ Read(m.box[q.name], q.pos) = Served(b)
=============================================================================
