------------------------------ MODULE QuickDisk -------------------------------
(***************************************************************************)
(* The Quick Disk drive, qd.cpp, and the directory of MZF programs it can  *)
(* serve as a disk, qd_dir_source.cpp.  The drive is a serial chip over a  *)
(* tape-like stream of framed blocks: a count of blocks, then a header and *)
(* a body for every program.  Over an image the stream is the file; over a *)
(* directory it is made up as it is read, and a save engine parses what is *)
(* written into files.                                                     *)
(*                                                                         *)
(* One action is one port access; the writes that select a register and    *)
(* then set it are one.  The guest is the Quick Disk routine of a ROM: it  *)
(* lists, saves with a verify pass, and formats, and may give up anywhere. *)
(* A cell of the stream is a number, one byte; the 64 bytes of a header    *)
(* are one cell.                                                           *)
(***************************************************************************)
EXTENDS Integers, Sequences, FiniteSets, SequencesExt, FiniteSetsExt

CONSTANTS
    Programs,    \* what there is to save: a sequence of [sharp, base, body]
    MaxSize,     \* QD_MAX_SIZE
    Limit,       \* QDISK_IMAGE_MAX_SIZE
    Byte,        \* values of a byte, 256
    Containers,    \* container names tried for one name, 100
    Setups       \* [dir, image, std, wp, frail, saves, ops, mounts, usb], the
                 \* last four what the guest, the explorer and the USB may do

ASSUME QuickDiskAssumption ==
    /\ {MaxSize, Limit, Containers} \subseteq Nat /\ Containers >= 1 /\ 8 <= MaxSize /\ MaxSize <= Limit
    /\ Byte \in Nat /\ Byte % 2 = 0 /\ Byte >= 4
    /\ DOMAIN Programs = 1 .. Len(Programs) /\ Len(Programs) \in Nat
    /\ \A p \in DOMAIN Programs : Programs[p].body \in Seq(Nat)

\* No two files of a directory have one name.
Distinct(d) == \A i, j \in 1 .. Len(d) : d[i].fat = d[j].fat => i = j

Entry(fats) == [fat : fats, head : {0} \cup DOMAIN Programs, body : Seq(Nat)]

\* What a setup is; the medium of an image is sound.
ASSUME SetupAssumption ==
    \A s \in Setups :
        /\ s.dir \in Seq(Entry({s.dir[i].fat : i \in DOMAIN s.dir})) /\ Distinct(s.dir)
        /\ s.image \in Seq(Nat) /\ {s.std} \cup s.mounts \subseteq {"none", "dir", "image"}
        /\ s.saves \cup s.usb \subseteq DOMAIN Programs /\ s.ops \subseteq {"list", "format"}
        /\ s.wp \in BOOLEAN /\ s.frail \in BOOLEAN
        /\ s.frail => s.image = <<>> /\ s.mounts = {}

VARIABLES
    cfg,      \* the setup
    drive,    \* the drive: [std, ready, home, at, motor, tx, hunting, crc]
    src,      \* position of the byte source of an image
    image,    \* the cells of the image file
    dir,      \* the directory, in its order: [fat, head, body]
    temp,     \* qd_temp.tmp: <<>>, or <<its header, its body>>
    served,   \* files_: the index of the directory, [fat, size]
    engine,   \* the save engine: [stage, pos, hdr, left, open, saved]
    job       \* the guest: [op, p, todo, heard, clean, fault, failed]

vars == <<cfg, drive, src, image, dir, temp, served, engine, job>>

GapByte == 0
Sync == 22
Mark == 165
LetterC == 67
LetterR == 82
BodyId == 5
HeaderSize == 64
PadA == 85
PadB == 170
Nothing == 255
HeadCell(p) == 256 + p
ProgramOf(cell) == cell - 256

\* A medium fails at most once in a job of the guest.
Frail == cfg.frail /\ ~job.fault
Works == IF Frail THEN BOOLEAN ELSE {TRUE}
Bad == IF Frail THEN {{}} \cup {{e.fat} : e \in ToSet(dir)} ELSE {{}}

-----------------------------------------------------------------------------
(* The stream of a directory                                               *)

Frame(payload) == <<GapByte, Sync, Sync, Mark>> \o payload \o <<LetterC, LetterR, LetterC>>
CountBlock(n) == Frame(<<(2 * n) % Byte>>)
HeaderBlock(cell) == Frame(<<0, HeaderSize, 0, cell>>)
BodyBlock(cells) == Frame(<<BodyId, Len(cells), 0>> \o cells)
PairLen(size) == Len(HeaderBlock(0)) + Len(BodyBlock(<<>>)) + size
MaxFiles == (Byte - 1) \div 2

\* The members of s that are in S, in their order.
Only(s, S) ==
    LET F[n \in 0 .. Len(s)] ==
            IF n = 0 THEN <<>> ELSE IF s[n] \in S THEN Append(F[n - 1], s[n]) ELSE F[n - 1]
    IN  F[Len(s)]

SizeOf(e) == Len(Programs[e.head].body)
Entries(d, fat) == Only(d, {e \in ToSet(d) : e.fat = fat})
IsProgram(e) == e.head # 0

\* fetch_bytes: a file's cells come from the file as it is when it is read.
Pair(f) ==
    LET here == Entries(dir, f.fat)
        body == IF here = <<>> THEN <<>> ELSE Head(here).body
    IN  HeaderBlock(IF here = <<>> THEN Nothing ELSE HeadCell(Head(here).head))
        \o BodyBlock([i \in 1 .. f.size |-> IF i <= Len(body) THEN body[i] ELSE Nothing])

Tape(files) == CountBlock(Len(files)) \o FlattenSeq([i \in DOMAIN files |-> Pair(files[i])])

Pad(off, index) ==
    CASE off < 4 -> <<GapByte, Sync, Sync, Mark>>[off + 1]
      [] off >= 4 /\ index >= MaxSize - 3 ->
             <<LetterC, LetterR, LetterC>>[index + 4 - MaxSize]
      [] OTHER -> IF off % 2 = 1 THEN PadB ELSE PadA

Cell(files, index) == LET tape == Tape(files)
                      IN  IF index < Len(tape) THEN tape[index + 1]
                          ELSE Pad(index - Len(tape), index)

\* build_index: the programs in the directory's order, as many as a count and
\* the medium hold; those that cannot be read are passed over.
TapeLen(files) ==
    LET F[n \in 0 .. Len(files)] ==
            IF n = 0 THEN Len(CountBlock(0)) ELSE F[n - 1] + PairLen(files[n].size)
    IN  F[Len(files)]
Indexed(d, bad) ==
    LET read == Only(d, {e \in ToSet(d) : IsProgram(e) /\ e.fat \notin bad})
        files == [i \in DOMAIN read |-> [fat |-> read[i].fat, size |-> SizeOf(read[i])]]
        fits == {n \in 0 .. Len(files) : n <= MaxFiles /\ TapeLen(SubSeq(files, 1, n)) <= MaxSize}
    IN  SubSeq(files, 1, Max(fits))

\* Mutant: the files are served in their order.
RebuiltInOrder(d, bad, saved) == Indexed(d, bad)

\* rebuild: the file saved last is served last.
Rebuilt(d, bad, saved) ==
    LET files == Indexed(d, bad)
        last == {f \in ToSet(files) : f.fat = saved}
    IN  Only(files, ToSet(files) \ last) \o Only(files, last)

-----------------------------------------------------------------------------
(* The drive                                                               *)

IsDir == drive.std = "dir"
Writable == drive.ready /\ ~cfg.wp /\ drive.motor
Size == IF IsDir THEN MaxSize ELSE Len(image)

\* readByteFromDrive, from a head position and a source position.
HeadNow == [at |-> drive.at, src |-> src, value |-> Nothing, found |-> FALSE]
ReadFrom(h, files, ok) ==
    LET moved == [h EXCEPT !.at = @ + 1, !.value = Nothing]
    IN  IF ~drive.ready \/ ~drive.motor \/ h.at > Limit THEN [h EXCEPT !.value = Nothing]
        ELSE IF h.at >= Size \/ h.at = Limit \/ ~ok THEN moved
        ELSE IF IsDir THEN [moved EXCEPT !.value = Cell(files, h.at)]
        ELSE [moved EXCEPT !.src = h.at + 1, !.value = image[h.at + 1]]

\* Mutant: the source stays where it was.
SoughtNever(p) == src

\* bs->seek: a position past the end is refused.
Sought(p) == IF ~drive.ready \/ IsDir \/ p >= Size THEN src ELSE p

NoEngine == [stage |-> "idle", pos |-> 0, hdr |-> Nothing, left |-> 0, open |-> FALSE, saved |-> <<>>]
NoJob == [op |-> "none", p |-> 0, todo |-> <<>>, heard |-> <<>>,
          clean |-> TRUE, fault |-> FALSE, failed |-> FALSE]
Idle == job.op = "none"
Fresh(std) == [std |-> std, ready |-> std # "none", home |-> TRUE, at |-> 0,
               motor |-> FALSE, tx |-> "off", crc |-> FALSE]

\* wrAbortEvent, and the end of a save: the engine is at rest.
Aborted == [engine EXCEPT !.stage = "idle", !.pos = 0, !.hdr = Nothing, !.left = 0, !.open = FALSE]
TempDropped == IF engine.open THEN <<>> ELSE temp

Init ==
    /\ cfg \in Setups
    /\ drive = Fresh(cfg.std)
    /\ src = 0
    /\ image = cfg.image
    /\ dir = cfg.dir
    /\ temp = <<>>
    /\ served = IF cfg.std = "dir" THEN Indexed(cfg.dir, {}) ELSE <<>>
    /\ engine = NoEngine
    /\ job = NoJob

\* open: a new source has a fresh engine, the old one drops its temporary file.
Open(std) ==
    /\ drive' = Fresh(std)
    /\ src' = 0
    /\ engine' = NoEngine
    /\ temp' = TempDropped
    /\ \E bad \in Bad :
           served' = IF std = "dir" THEN Indexed(dir, bad) ELSE <<>>
    /\ UNCHANGED <<image, dir>>

-----------------------------------------------------------------------------
(* The save engine.  Each operator says what becomes of the engine, the    *)
(* directory, the temporary file and the index; ok says whether the medium *)
(* did what the engine asked of it.                                        *)

Untouched == UNCHANGED <<dir, temp, served>>

OpenTemp(ok) ==
    /\ temp' \in IF ok THEN {<<engine.hdr, <<>>>>} ELSE {TempDropped, <<>>}
    /\ engine' = [engine EXCEPT !.stage = "body", !.pos = 3, !.left = 0, !.open = ok]

SyncEvent(home, ok) ==
    IF engine.stage = "formatting" THEN engine' = [engine EXCEPT !.pos = 3] /\ Untouched
    ELSE IF home THEN engine' = [engine EXCEPT !.stage = "count", !.pos = 3] /\ Untouched
    ELSE IF engine.stage = "header" THEN OpenTemp(ok) /\ UNCHANGED <<dir, served>>
    ELSE engine' = [engine EXCEPT !.stage = "header", !.pos = 3, !.hdr = Nothing] /\ Untouched

Sharp(p) == Programs[p].sharp
Base(p) == Programs[p].base
Without(d, fat) == Only(d, {e \in ToSet(d) : e.fat # fat})
Taken(d, fat) == Entries(d, fat) # <<>>

\* Mutant: Sharp names are compared as FAT compares its own.
SameNameFat(e, p) == IsProgram(e) /\ Base(e.head) = Base(p)

\* The name in the header of a served file is the one being saved.
SameName(e, p) == IsProgram(e) /\ Sharp(e.head) = Sharp(p)

\* The container name of a new program, as a sequence of at most one.
Container(p) ==
    LET free == {k \in 0 .. Containers - 1 : ~Taken(dir, <<Base(p), k>>)}
    IN  IF free = {} THEN <<>> ELSE <<<<Base(p), Min(free)>>>>

\* finalizeSave of a body: the served file of the same Sharp name goes, then the
\* temporary file is renamed, to wherever the directory has room for its entry.
\* unread are the served files whose name could not be read.
Finalize(body, unread, ok) ==
    LET p == ProgramOf(engine.hdr)
        same == Only(served, {f \in ToSet(served) : /\ f.fat \notin unread /\ Taken(dir, f.fat)
                                                    /\ SameName(Head(Entries(dir, f.fat)), p)})
        target == IF same # <<>> THEN <<same[1].fat>> ELSE Container(p)
        left == IF same # <<>> THEN Without(dir, target[1]) ELSE dir
    IN  /\ served' = served
        /\ temp' = IF engine.open THEN <<>> ELSE temp
        /\ IF ~engine.open THEN dir' = dir /\ engine' = Aborted
           ELSE IF target = <<>> \/ ~ok \/ Taken(left, target[1]) THEN dir' = left /\ engine' = Aborted
           ELSE /\ \E i \in 1 .. Len(left) + 1 :
                      dir' = InsertAt(left, i, [fat |-> target[1], head |-> p, body |-> body])
                /\ engine' = [Aborted EXCEPT !.saved = target[1]]

\* The directory without the files that are served.
Emptied(d) == Only(d, {e \in ToSet(d) : \A i \in DOMAIN served : served[i].fat # e.fat})

\* The count arrives: 0 formats, any other count rebuilds the index.
CountEvent(v, bad) ==
    IF v = 0 THEN /\ dir' = Emptied(dir)
                  /\ temp' = TempDropped
                  /\ engine' = [engine EXCEPT !.stage = "formatting", !.open = FALSE, !.saved = <<>>]
                  /\ served' = Indexed(Emptied(dir), bad)
    ELSE /\ engine' = [engine EXCEPT !.stage = "idle", !.pos = 0]
         /\ served' = Rebuilt(dir, bad, engine.saved)
         /\ UNCHANGED <<dir, temp>>

Stays == engine' = [engine EXCEPT !.pos = @ + 1] /\ Untouched

DataEvent(v, bad, ok) ==
    CASE engine.stage = "count" /\ engine.pos = 4 -> CountEvent(v, bad)
      [] engine.stage = "count" /\ engine.pos # 4 -> Stays
      [] engine.stage = "header" ->
             /\ engine' = [engine EXCEPT !.pos = @ + 1, !.hdr = IF engine.pos = 7 THEN v ELSE @]
             /\ Untouched
      [] engine.stage = "body" /\ engine.pos < 5 -> Stays
      [] engine.stage = "body" /\ engine.pos = 5 ->
             engine' = [engine EXCEPT !.pos = 6, !.left = v] /\ Untouched
      [] engine.stage = "body" /\ engine.pos = 6 ->
             IF engine.left = 0 THEN Finalize(<<>>, bad, ok) ELSE Stays
      [] engine.stage = "body" /\ engine.pos > 6 ->
             \E wrote, renamed \in {TRUE, ok} :
             LET body == IF ~engine.open THEN <<>> ELSE temp[2] \o (IF wrote THEN <<v>> ELSE <<>>)
             IN  IF engine.left = 1 THEN Finalize(body, bad, renamed)
                 ELSE /\ temp' = IF engine.open THEN <<temp[1], body>> ELSE temp
                      /\ engine' = [engine EXCEPT !.left = @ - 1]
                      /\ UNCHANGED <<dir, served>>
      [] OTHER -> UNCHANGED engine /\ Untouched

-----------------------------------------------------------------------------
(* The guest's routine: what it still has to do, port access by port access.*)

Do(op) == [do |-> op, v |-> 0]
Put(v) == [do |-> "put", v |-> v]
ReadBlock == <<Do("receive"), Do("hunt"), Do("mark"), Do("id"), Do("size"), Do("high")>>
GapRun == 3     \* so that no block lands in the trailer of the one before
WriteBlock(payload) ==
    [i \in 1 .. GapRun |-> Do("gap")] \o <<Do("sync"), Put(Mark)>> \o [i \in DOMAIN payload |-> Put(payload[i])] \o <<Do("trailer")>>
Blocks(n) == FlattenSeq([i \in 1 .. n |-> ReadBlock])
Opening == <<Do("on"), Do("hunt"), Do("mark"), Do("count")>>
Check == <<Do("check"), Do("off")>>

\* A guest does not save on a disk whose count has no room for two more blocks;
\* a count of 256 would arrive as 0 and format the disk.
\* A save appends its two blocks after the n it has passed, rewinds, rewrites
\* the count and reads everything again up to the program it saved.
Saving(p, n) ==
    WriteBlock(<<0, HeaderSize, 0, HeadCell(p)>>)
    \o WriteBlock(<<BodyId, Len(Programs[p].body), 0>> \o Programs[p].body)
    \o <<Do("off"), Do("on")>> \o WriteBlock(<<(n + 2) % Byte>>)
    \o Blocks((n + 2) % Byte) \o Check
Formatting == <<Do("on")>> \o WriteBlock(<<0>>) \o <<Do("sync"), Put(PadA), Do("off")>>
AfterCount(n) ==
    Blocks(n) \o (IF job.op = "list" THEN <<Do("off")>>
                  ELSE IF n + 2 >= Byte THEN <<Do("off")>>
                  ELSE Saving(job.p, n))

\* What a guest may count on: a disk whose programs are whole and all served.
\* A saved program has a new name, and there is room and a container for it.
Whole(e) == e.body = Programs[e.head].body
Programs0 == Only(dir, {e \in ToSet(dir) : IsProgram(e)})
Room(p) == PairLen(Len(Programs[p].body))
\* Over an image: the blocks the count tells of, and what is added.
BlockLen(payload) == GapRun + 3 + payload + 3
ImagePair(p) == BlockLen(4) + BlockLen(3 + Len(Programs[p].body))
ImageRoom(more) ==
    LET count == image[GapRun + 4]
    IN  count # PadA /\ BlockLen(1) + (count \div 2) * Max({ImagePair(q) : q \in cfg.saves}) + more <= Size

Readable == IF drive.std = "dir" THEN /\ Len(Indexed(dir, {})) = Len(Programs0)
                                      /\ \A e \in ToSet(Programs0) : Whole(e)
            ELSE drive.std = "image" /\ ImageRoom(0)

Reasonable(op, p) ==
    /\ drive.ready /\ Readable
    /\ op = "save" =>
           /\ ~cfg.wp
           /\ drive.std = "image" => ImageRoom(ImagePair(p))
           /\ drive.std = "dir" => /\ \A e \in ToSet(Programs0) : ~SameName(e, p)
                                   /\ Container(p) # <<>>
                                   /\ Len(Programs0) < MaxFiles
                                   /\ TapeLen(Indexed(dir, {})) + Room(p) <= MaxSize

Start(op, p) ==
    /\ Idle
    /\ job' = [NoJob EXCEPT !.op = op, !.p = p, !.clean = Reasonable(op, p),
                            !.todo = IF op = "format" THEN Formatting ELSE Opening]
    /\ UNCHANGED <<drive, src, image, dir, temp, served, engine>>

Now(op) == job.todo # <<>> /\ Head(job.todo).do = op
Rest == Tail(job.todo)
Going(todo, ok) == job' = [job EXCEPT !.todo = todo, !.fault = @ \/ ~ok]
GivesUp(ok) == job' = [job EXCEPT !.todo = <<Do("off")>>, !.fault = @ \/ ~ok, !.failed = TRUE]

\* The channels are reset, the outgoing CRC too, and the motor started.
MotorOn ==
    /\ Now("on")
    /\ drive' = [drive EXCEPT !.motor = TRUE, !.tx = "off", !.crc = FALSE]
    /\ Going(Rest, TRUE)
    /\ UNCHANGED <<src, image, engine>> /\ Untouched

\* The end of the job, its rewinding, or the user's break key.
MotorOff ==
    /\ ~Idle
    /\ drive' = [drive EXCEPT !.motor = FALSE, !.at = 0, !.home = TRUE]
    /\ src' = Sought(0)
    /\ engine' = Aborted
    /\ temp' = TempDropped
    /\ job' = IF Now("off") /\ Rest # <<>> THEN [job EXCEPT !.todo = Rest] ELSE NoJob
    /\ UNCHANGED <<image, dir, served>>

Receive ==
    /\ Now("receive")
    /\ drive' = [drive EXCEPT !.tx = "off"]
    /\ Going(Rest, TRUE)
    /\ UNCHANGED <<src, image, engine>> /\ Untouched

\* Channel A's status while it hunts: up to nine bytes for the sync pair.  The
\* guest polls until it is found, or the status says that there is no disk or
\* that the disk is at its end.
HuntOver(ok) ==
    LET H[i \in 0 .. 9] ==
            IF i = 0 THEN HeadNow
            ELSE LET h == H[i - 1]
                     n == ReadFrom(h, served, ok)
                 IN  IF h.found THEN h ELSE [n EXCEPT !.found = h.value = Sync /\ n.value = Sync]
    IN  H[9]

Hunt ==
    /\ Now("hunt")
    /\ \E ok \in Works :
           LET h == HuntOver(ok)
           IN  /\ drive' = [drive EXCEPT !.at = h.at]
               /\ src' = h.src
               /\ IF h.found THEN Going(Rest, ok)
                  ELSE IF h.at > Limit \/ ~drive.ready THEN GivesUp(ok)
                  ELSE Going(job.todo, ok)
    /\ UNCHANGED <<image, engine>> /\ Untouched

\* The guest's use of a byte it has read.
Payload(n) == <<Head(Rest)>> \o [i \in 1 .. n |-> Do("data")] \o Tail(Rest)
Cells(v) == IF v = HeaderSize THEN 1 ELSE v
Hears(v, ok) ==
    LET hearing(h) == job' = [job EXCEPT !.todo = Rest, !.fault = @ \/ ~ok, !.heard = h]
    IN  \/ Now("mark") /\ IF v = Mark THEN Going(Rest, ok) ELSE GivesUp(ok)
        \/ Now("count") /\ IF v <= 2 * MaxFiles THEN Going(AfterCount(v), ok) ELSE GivesUp(ok)
        \/ Now("id") /\ CASE v = 0 -> hearing(<<>>)
                          [] v = BodyId -> Going(Rest, ok)
                          [] OTHER -> GivesUp(ok)
        \/ Now("size") /\ IF Cells(v) <= MaxSize THEN Going(Payload(Cells(v)), ok) ELSE GivesUp(ok)
        \/ Now("high") /\ Going(Rest, ok)
        \/ Now("data") /\ hearing(Append(job.heard, v))

\* rdCountEvent: a fresh listing, in the order of the directory.
Refreshed(bad) ==
    IF IsDir /\ drive.ready /\ drive.at = 4
    THEN /\ engine' = [engine EXCEPT !.saved = <<>>]
         /\ served' = Rebuilt(dir, bad, <<>>)
    ELSE UNCHANGED <<engine, served>>

ReadData ==
    /\ \E ok \in Works, bad \in Bad :
           LET h == ReadFrom(HeadNow, served', ok)
           IN  /\ Refreshed(bad)
               /\ Hears(h.value, ok /\ bad = {})
               /\ drive' = [drive EXCEPT !.at = h.at, !.home = FALSE]
               /\ src' = h.src
    /\ UNCHANGED <<image, dir, temp>>

\* The guest compares what it has read last with what it saved.
Verify ==
    /\ Now("check")
    /\ job' = [job EXCEPT !.todo = Rest, !.heard = <<>>,
                          !.failed = job.heard # <<HeadCell(job.p)>> \o Programs[job.p].body]
    /\ UNCHANGED <<drive, src, image, engine>> /\ Untouched

\* Cells written into an image go where the source is, the head passes on.
Landing(cells) == {i \in DOMAIN cells : drive.at + i <= Limit /\ src + i <= Size}
ImageWith(cells) ==
    [i \in DOMAIN image |-> IF i - src \in Landing(cells) THEN cells[i - src] ELSE image[i]]
HeadPast(n) == Min({drive.at + n, Limit + (IF IsDir THEN 0 ELSE 1)})

WriteImage(cells) ==
    IF Writable /\ ~IsDir THEN image' = ImageWith(cells) /\ src' = src + Cardinality(Landing(cells))
    ELSE UNCHANGED <<image, src>>

\* A gap byte; the save engine ignores gaps.
Gap ==
    /\ Now("gap")
    /\ drive' = [drive EXCEPT !.tx = "gap", !.at = IF Writable /\ ~IsDir THEN HeadPast(1) ELSE @]
    /\ WriteImage(<<GapByte>>)
    /\ Going(Rest, TRUE)
    /\ UNCHANGED engine /\ Untouched

\* The sync mark, with the outgoing CRC reset before it: over a directory it
\* starts a block, the count block when the head is home.
SyncMark ==
    /\ Now("sync")
    /\ drive' = [drive EXCEPT !.tx = "sync", !.crc = FALSE,
                              !.at = IF IsDir THEN 3 ELSE IF Writable THEN HeadPast(2) ELSE @]
    /\ WriteImage(<<Sync, Sync>>)
    /\ IF Writable /\ IsDir
       THEN \E ok \in Works : SyncEvent(drive.at = 0, ok) /\ Going(Rest, ok)
       ELSE UNCHANGED engine /\ Untouched /\ Going(Rest, TRUE)

WriteData ==
    /\ Now("put")
    /\ drive' = [drive EXCEPT !.crc = TRUE, !.at = IF Writable THEN HeadPast(1) ELSE @]
    /\ WriteImage(<<Head(job.todo).v>>)
    /\ IF Writable /\ IsDir
       THEN \E ok \in Works, bad \in Bad :
                /\ DataEvent(Head(job.todo).v, bad, ok)
                /\ Going(Rest, ok /\ bad = {})
       ELSE UNCHANGED engine /\ Untouched /\ Going(Rest, TRUE)

\* Channel B's status after a block: the trailer, unless the bytes of the block
\* happen to cancel out.  The engine counts it where it still collects a header.
Trailer ==
    /\ Now("trailer")
    /\ \E writes \in {Writable /\ drive.tx = "sync" /\ drive.crc} \cup {FALSE} :
           IF writes
           THEN /\ drive' = [drive EXCEPT !.at = HeadPast(3)]
                /\ WriteImage(<<LetterC, LetterR, LetterC>>)
                /\ engine' = IF engine.stage = "header" THEN [engine EXCEPT !.pos = @ + 3] ELSE engine
           ELSE UNCHANGED <<drive, image, src, engine>>
    /\ Going(Rest, TRUE)
    /\ Untouched

-----------------------------------------------------------------------------
(* The explorer, the reset button, the power and the USB                   *)

Mount(std) ==
    /\ Idle /\ std # drive.std
    /\ Open(std)
    /\ UNCHANGED job

SoftReset ==
    /\ job' = NoJob
    /\ IF drive.std # cfg.std THEN Open(cfg.std)
       ELSE /\ drive' = Fresh(cfg.std)
            /\ src' = Sought(0)
            /\ engine' = Aborted
            /\ temp' = TempDropped
            /\ UNCHANGED <<image, dir, served>>

\* Over an image a cut also loses what the source has cached: see ByteSource.
PowerCut ==
    /\ IsDir /\ cfg.std = "dir"
    /\ drive' = Fresh(cfg.std)
    /\ engine' = NoEngine
    /\ job' = NoJob
    /\ served' = Indexed(dir, {})
    /\ UNCHANGED <<src, image, dir, temp>>

UsbName == <<"usb", 0>>
Usb ==
    /\ Idle
    /\ dir' \in {Without(dir, e.fat) : e \in ToSet(dir)}
                \cup {Append(dir, [fat |-> UsbName, head |-> p, body |-> Programs[p].body]) :
                      p \in {q \in cfg.usb : ~Taken(dir, UsbName)}}
    /\ UNCHANGED <<drive, src, image, temp, served, engine, job>>

Step ==
    \/ \E p \in cfg.saves : Start("save", p)
    \/ \E op \in cfg.ops : Start(op, 1)
    \/ MotorOn \/ MotorOff \/ Receive \/ Hunt \/ ReadData \/ Verify
    \/ Gap \/ SyncMark \/ WriteData \/ Trailer
    \/ \E std \in cfg.mounts : Mount(std)
    \/ SoftReset \/ PowerCut \/ Usb

Next == Step /\ UNCHANGED cfg

Spec == Init /\ [][Next]_vars

-----------------------------------------------------------------------------
(* Properties                                                              *)

\* The drive, the index and the engine are of their types; a temporary file is
\* open only while a body is being written.
TypeOK ==
    /\ drive.at \in 0 .. Limit + 1 /\ src \in 0 .. Len(image)
    /\ engine.stage \in {"idle", "count", "header", "body", "formatting"}
    /\ engine.open => engine.stage = "body" /\ temp # <<>> /\ temp[1] = engine.hdr
    /\ Len(served) <= MaxFiles /\ TapeLen(served) <= MaxSize
    /\ Distinct(dir)

\* SaveVerifies: on a sound medium a listing never stumbles, and a program with
\* a new name, saved where there is room, is what the verify pass reads last,
\* whatever was begun and given up, mounted, removed or cut off before.
SaveVerifies == job.failed => ~job.clean \/ job.fault

\* HeadInStep: what is written into an image lands under the head, up to where
\* an image larger than the medium is cut off.
HeadInStep == TypeOK /\ (drive.std = "image" /\ drive.at < Size /\ drive.at <= Limit => src = drive.at)

\* OthersSurvive: no listing, and no save, given up or failed at any point, costs
\* a file other than the program whose exact Sharp name is saved over; nor does a
\* format cost a file that is not a program.
OthersSurvive ==
    [][\A e \in ToSet(dir) \ ToSet(dir') :
           \/ Idle
           \/ job.op = "format" /\ IsProgram(e)
           \/ job.op = "save" /\ IsProgram(e) /\ Sharp(e.head) = Sharp(job.p)]_vars

=============================================================================
