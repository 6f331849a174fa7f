------------------------------- MODULE Floppy --------------------------------
(***************************************************************************)
(* The floppy controller, fdc.cpp: a WD1793 as the Z80 sees it through     *)
(* eight ports, over disk images in the DSK layout.  One action is one     *)
(* port access.  The guest is a driver that polls the status register, and *)
(* in formatting is paced by /INT.                                         *)
(*                                                                         *)
(* An image is made of units: 0x100 bytes in the code, U here, the size of *)
(* the controller's buffer too.  Unit 0 is the file header, with the size  *)
(* of every track; a track has a unit for its header and then its sectors, *)
(* each a number of units, the size code.                                  *)
(***************************************************************************)
EXTENDS Integers, Sequences, FiniteSets, SequencesExt

CONSTANTS
    U,           \* bytes of a unit
    MaxPolls,    \* status polls before the controller goes on by itself, 10
    StartGap,    \* bytes without a mark before a format is given up, 100
    EndGap,      \* bytes of gap that end a track, 200
    Data,        \* what the guest writes
    Undefined,   \* what a grown file holds
    Explored,    \* the drives the explorer mounts and ejects images in
    Setups       \* the drives in use, out of 0 .. 3, and the disk of each:
                 \* [file, holds, wp, dirsrc, configured, frail,
                 \* layouts], the layouts of the tracks the guest formats on it

ASSUME FloppyAssumption ==
    /\ {U, MaxPolls, StartGap, EndGap} \subseteq Nat \ {0} /\ U >= 2 /\ StartGap >= 5 /\ MaxPolls >= 2
    /\ Data \subseteq Nat /\ Undefined \notin Data

VARIABLES
    disk,     \* per drive: what may be mounted in it
    reg,      \* the controller's registers and counters
    buf,      \* buffer
    drive,    \* per drive: whether an image is in, and what is cached of it
    file,     \* per drive: the image, [table, units]
    job,      \* the guest's driver
    belief,   \* history: what the guest has reason to expect on each track
    wrong     \* history: it has read something else

vars == <<disk, reg, buf, drive, file, job, belief, wrong>>

Busy == "busy"
Drq == "drq"
NotFound == "notFound"
Crc == "crc"
Fault == "fault"
NotReady == "notReady"
Protect == "protected"
Track0 == "track0"

\* The marks of a format stream; its other bytes are numbers.
IndexMark == -1
IdMark == -2
DataMark == -3
Gap == -4

Drives == DOMAIN disk
Slots == DOMAIN disk[0].file.table     \* the tracks in use, 0 .. n
MaxTrack == (Cardinality(Slots) - 1) \div 2
SlotOf(t, s) == 2 * t + s
Here == SlotOf(reg.track, reg.side)
NoTrack == [ids |-> <<>>, data |-> <<>>]
Sector(bytes) == [ids |-> <<>>, code |-> 0, bytes |-> bytes]
Filled(v) == Sector([i \in 0 .. U - 1 |-> v])
Header(ids, code) == [ids |-> ids, code |-> code, bytes |-> [i \in 0 .. U - 1 |-> Undefined]]

\* phase, idx and rest belong to READ TRACK; stage, marks, ids, code and fill
\* to WRITE TRACK, which keeps the last three in the buffer.
Registers ==
    [status |-> {}, data |-> 0, track |-> 0, sector |-> 0, side |-> 0, sel |-> 0,
     cmd |-> "none", count |-> 0, pos |-> 0, multi |-> FALSE, script |-> 0,
     polls |-> 0, errint |-> FALSE, stage |-> 0, marks |-> 0,
     ids |-> <<>>, code |-> 0, fill |-> 0, phase |-> 0, idx |-> 0, rest |-> 0]

NoJob == [op |-> "none", id |-> 0, ready |-> FALSE, done |-> FALSE, multi |-> FALSE,
          byte |-> 0, stream |-> <<>>]

NoBuffer == [i \in 0 .. U - 1 |-> 0]
Cur == drive[reg.sel]
Image == file[reg.sel]
Size == Len(Image.units)
Unit(p) == Image.units[p + 1]
Works == IF disk[reg.sel].frail THEN BOOLEAN ELSE {TRUE}
Protected == disk[reg.sel].wp

Fresh(d, in) == [in |-> in, track |-> 0, side |-> 0, sector |-> 0, size |-> 0, at |-> 0,
                 offset |-> IF in /\ file[d].units # <<>> THEN 1 ELSE 0]

Init == /\ disk \in Setups
        /\ reg = Registers
        /\ buf = NoBuffer
        /\ file = [d \in Drives |-> disk[d].file]
        /\ drive = [d \in Drives |-> Fresh(d, disk[d].configured)]
        /\ job = NoJob
        /\ belief = [d \in Drives |-> disk[d].holds]
        /\ wrong = FALSE

-----------------------------------------------------------------------------
(* The layout                                                              *)

\* getTrackOffset: the sizes of the tracks before, or 0 when one is missing.
Start(table, slot) ==
    LET start[s \in 0 .. slot] == IF s = 0 THEN 1 ELSE start[s - 1] + table[s - 1]
    IN  start[slot]
Offset(image, slot) ==
    IF image.units = <<>> \/ (\E i \in 0 .. slot - 1 : image.table[i] = 0) THEN 0
    ELSE Start(image.table, slot)

\* Mutant: the side is not compared.
OnTrackEitherSide(d) == d.track = reg.track

\* setTrack: the cached offset is good for the track and side it is of.
OnTrack(d) == d.track = reg.track /\ d.side = reg.side

TrackSet(ok) ==
    LET o == IF ok THEN Offset(Image, Here) ELSE 0
        lost == [Cur EXCEPT !.sector = 0, !.size = 0]
    IN  IF OnTrack(Cur) THEN Cur
        ELSE IF o = 0 THEN lost
        ELSE [lost EXCEPT !.offset = o, !.track = reg.track, !.side = reg.side]

\* seekToSector: sector_size is 0 until the sector is found.
HeaderAt(p) == IF p < Size THEN Unit(p) ELSE Header(<<>>, 0)

\* The first sector of that ID is the one that is found.
Place(ids, id) == SelectInSeq(ids, LAMBDA k : k = id)

SectorSought(d, id, ok) ==
    LET header == HeaderAt(d.offset)
        i == Place(header.ids, id)
        first == d.offset + 1 + (i - 1) * header.code
    IN  IF ~ok \/ i = 0 \/ header.code = 0 THEN [d EXCEPT !.size = 0]
        ELSE IF first >= Size THEN [d EXCEPT !.size = 0, !.sector = 0]
        ELSE [d EXCEPT !.size = header.code * U, !.sector = id, !.at = first]

Found(d) == d.size # 0

\* One buffer of the image at the source's position.
Chunk(d) == IF d.size < U THEN d.size ELSE U
Readable(d, ok) == Chunk(d) = 0 \/ (ok /\ d.at < Size)
Loaded(d) == IF Chunk(d) = 0 THEN buf ELSE Unit(d.at).bytes
Past(d) == IF Chunk(d) = 0 THEN d ELSE [d EXCEPT !.at = @ + 1]

-----------------------------------------------------------------------------
(* The disks the guest is given                                            *)

Byte == Int \cup {Undefined}
UnitType == [ids : Seq(Nat), code : Nat, bytes : [0 .. U - 1 -> Byte]]
LayoutType == [ids : Seq(Nat), code : Nat, fill : Nat]

IsTrack(track) == /\ track = [ids |-> track.ids, data |-> track.data]
                  /\ track.ids \in Seq(Nat) /\ track.data \in [ToSet(track.ids) -> Byte]

\* Where a track has its header, the table has the size that goes with it.
Laid(image) ==
    \A s \in DOMAIN image.table :
        LET header == image.units[Start(image.table, s) + 1]
        IN  /\ \A i \in 0 .. s : image.table[i] # 0
            /\ Start(image.table, s) < Len(image.units) /\ header.ids # <<>>
            => image.table[s] = 1 + Len(header.ids) * header.code

\* The image bears what is believed of a track: its header, and what is known
\* of its sectors.
Bears(image, s, track) ==
    LET o == Start(image.table, s)
        header == image.units[o + 1]
        n == Len(track.ids)
    IN  track.ids # <<>> =>
            /\ \A i \in 0 .. s : image.table[i] # 0
            /\ o < Len(image.units) /\ o + n * header.code < Len(image.units)
            /\ header.ids = track.ids /\ header.code # 0
            /\ \A i \in 1 .. n, j \in 1 .. header.code, b \in 0 .. U - 1 :
                  i = Place(track.ids, track.ids[i]) =>
                  track.data[track.ids[i]] \in
                      {Undefined, image.units[o + 1 + (i - 1) * header.code + j].bytes[b]}

\* Every table has the same slots, and every disk bears what is believed of it.
ASSUME SetupAssumption ==
    \A s \in Setups :
        LET n == Cardinality(DOMAIN s[0].file.table) - 1
        IN
        /\ 0 \in DOMAIN s /\ n \in Nat
        /\ \A d \in DOMAIN s :
              /\ {s[d].wp, s[d].dirsrc, s[d].configured, s[d].frail} \subseteq BOOLEAN
              /\ s[d].file = [table |-> s[d].file.table, units |-> s[d].file.units]
              /\ s[d].file.table \in [0 .. n -> Nat] /\ s[d].file.units \in Seq(UnitType)
              /\ Laid(s[d].file)
              /\ s[d].layouts \subseteq LayoutType
              /\ DOMAIN s[d].holds = 0 .. n
              /\ \A t \in 0 .. n : IsTrack(s[d].holds[t]) /\ Bears(s[d].file, t, s[d].holds[t])

-----------------------------------------------------------------------------
(* The guest                                                               *)

Idle == job.op = "none"

OnDisk == IF Here \in Slots THEN belief[reg.sel][Here] ELSE NoTrack
Expected(id) == IF id \in ToSet(OnDisk.ids) THEN OnDisk.data[id] ELSE Undefined

Judged(byte, id) == wrong' = (wrong \/ Expected(id) \notin {byte, Undefined})

Believing(id, v) == IF id \in ToSet(OnDisk.ids)
                    THEN [belief EXCEPT ![reg.sel][Here].data[id] = v] ELSE belief
Forgetting(d, slots) ==
    [belief EXCEPT ![d] = [s \in Slots |-> IF s \in slots THEN NoTrack ELSE @[s]]]

Media == UNCHANGED <<file, belief, wrong>>

\* What a driver makes of the status it has read.
Answered(st) ==
    IF {Drq, Busy} \subseteq st THEN [job EXCEPT !.ready = TRUE]
    ELSE IF st = {Busy} THEN job
    ELSE NoJob

-----------------------------------------------------------------------------
(* Registers other than command and data                                   *)

Set(r) == /\ Idle /\ r # reg
          /\ reg' = r
          /\ UNCHANGED <<buf, drive, job>> /\ Media

SelectDrive(d) == Set([reg EXCEPT !.sel = d])
SelectSide(s) == SlotOf(reg.track, s) \in Slots /\ Set([reg EXCEPT !.side = s])
TrackRegister(t) == SlotOf(t, reg.side) \in Slots /\ Set([reg EXCEPT !.track = t])
SectorRegister(n) == Set([reg EXCEPT !.sector = n])

\* The data register, where no command takes the byte.
Stage(v) == /\ ~(reg.cmd = "write" /\ reg.count # 0) /\ reg.cmd # "format"
            /\ Set([reg EXCEPT !.data = v, !.errint = FALSE])

\* With the motor on the sector register shows the drive's sector.
ReadSectorRegister == Set([reg EXCEPT !.sector = Cur.sector])

-----------------------------------------------------------------------------
(* The command register                                                    *)

Commanded(cmd) == [reg EXCEPT !.cmd = cmd, !.polls = 0, !.errint = FALSE]
Refused(r, st) == [r EXCEPT !.status = st]

\* The end of a command.  What no one reads before the next command sets it is
\* cleared with it: the counters, the buffer, the image's position and, once the
\* driver has seen it, the status.
Ended(r, st) == [Registers EXCEPT !.status = st, !.data = r.data, !.track = r.track,
                     !.side = r.side, !.sector = r.sector, !.sel = r.sel]

\* Type I: restore, seek and step end at once.
Headed(kind, r) ==
    CASE kind = "restore"  -> [r EXCEPT !.track = 0, !.side = 0]
      [] kind = "seek"     -> [r EXCEPT !.track = reg.data]
      [] kind = "stepIn"  -> [r EXCEPT !.track = @ + 1]
      [] kind = "stepOut" -> [r EXCEPT !.track = IF @ > 0 THEN @ - 1 ELSE 0]

Move(kind) ==
    LET r == Headed(kind, Commanded("none"))
    IN  /\ Idle
        /\ r.track <= MaxTrack /\ SlotOf(r.track, r.side) <= Cardinality(Slots) - 1    \* the guest stays on its disk
        /\ job' = [NoJob EXCEPT !.op = "move"]
        /\ reg' = IF ~Cur.in THEN Refused(Commanded("move"), {NotReady})
                  ELSE [r EXCEPT !.status = IF r.track = 0 THEN {Track0} ELSE {},
                                 !.count = 0, !.pos = 0, !.script = 1]
        /\ UNCHANGED <<buf, drive>> /\ Media

\* Type II: the first unit of a read is in the buffer before the guest asks.
Started(cmd) ==
    [Commanded(cmd) EXCEPT !.status = {}, !.count = 0, !.pos = 0, !.script = 1]

Transfer(r, d) == [r EXCEPT !.count = d.size, !.status = {Busy, Drq}]
CurBecomes(d) == drive' = [drive EXCEPT ![reg.sel] = d]
Becomes(o) == IF o.reg.cmd = "none"
              THEN reg' = o.reg /\ buf' = NoBuffer /\ CurBecomes([o.drive EXCEPT !.at = 0])
              ELSE reg' = o.reg /\ buf' = o.buf /\ CurBecomes(o.drive)

ReadSector(multi) ==
    /\ Idle
    /\ \E ok, ok2 \in Works :
        LET t == TrackSet(ok)
            d == IF OnTrack(t) THEN SectorSought(t, reg.sector, ok) ELSE t
            r == [Started("read") EXCEPT !.multi = multi]
        IN  \/ /\ ~Cur.in
               /\ reg' = Refused(Started("read"), {NotReady})
               /\ UNCHANGED <<buf, drive>>
            \/ /\ Cur.in /\ CurBecomes(d)
               /\ ~OnTrack(t) \/ ~Found(d)
               /\ reg' = [r EXCEPT !.script = 3]
               /\ UNCHANGED buf
            \/ /\ Cur.in /\ OnTrack(t) /\ Found(d)
               /\ IF Readable(d, ok2)
                  THEN reg' = Transfer(r, d) /\ buf' = Loaded(d) /\ CurBecomes(Past(d))
                  ELSE /\ reg' = Refused([r EXCEPT !.cmd = "none"], {Crc})
                       /\ CurBecomes(d) /\ UNCHANGED buf
    /\ job' = [NoJob EXCEPT !.op = "read", !.id = reg.sector, !.multi = multi]
    /\ Media

WriteSector(multi, byte) ==
    /\ Idle
    /\ \E ok \in Works :
        LET t == TrackSet(ok)
            d == IF OnTrack(t) THEN SectorSought(t, reg.sector, ok) ELSE t
            r == [Started("write") EXCEPT !.multi = multi]
        IN  \/ /\ ~Cur.in
               /\ reg' = Refused(Started("write"), {NotReady})
               /\ UNCHANGED drive
            \/ /\ Cur.in /\ Protected
               /\ reg' = Refused(Started("none"), {Protect})
               /\ UNCHANGED drive
            \/ /\ Cur.in /\ ~Protected /\ CurBecomes(d)
               /\ reg' = IF OnTrack(t) /\ Found(d) THEN Transfer(r, d) ELSE [r EXCEPT !.script = 3]
    /\ job' = [NoJob EXCEPT !.op = "write", !.id = reg.sector, !.multi = multi, !.byte = byte]
    /\ UNCHANGED buf /\ Media

\* Type III, read address: the ID of the sector last found, or of sector 1.
\* Two of its bytes stand for all six.  A failure leaves status and count alone.
ReadAddress ==
    /\ Idle
    /\ \E ok \in Works :
        LET t == TrackSet(ok)
            d == IF OnTrack(t) /\ (t.sector = 0 \/ t.size = 0) THEN SectorSought(t, 1, ok) ELSE t
            r == Commanded("address")
        IN  \/ /\ ~Cur.in
               /\ reg' = Refused(r, {NotReady})
               /\ UNCHANGED <<buf, drive>>
            \/ /\ Cur.in /\ CurBecomes(d)
               /\ ~OnTrack(t) \/ ~Found(d)
               /\ reg' = r
               /\ UNCHANGED buf
            \/ /\ Cur.in /\ CurBecomes(d)
               /\ OnTrack(t) /\ Found(d)
               /\ reg' = [r EXCEPT !.sector = d.sector, !.count = 2, !.pos = 0,
                                   !.status = {Busy, Drq}, !.script = 1]
               /\ buf' = [buf EXCEPT ![0] = d.track, ![1] = d.sector]
    /\ job' = [NoJob EXCEPT !.op = "address"]
    /\ Media

\* Type III, read track: the marks and the ID of a sector are one byte here.
ReadTrack ==
    /\ Idle
    /\ \E ok \in Works :
        LET d == TrackSet(ok)
            header == HeaderAt(d.offset)
            n == Len(header.ids)
            r == [Commanded("track") EXCEPT !.count = 0, !.pos = 0, !.script = 1]
        IN  \/ /\ ~Cur.in
               /\ reg' = Refused(r, {NotReady})
               /\ UNCHANGED drive
            \/ /\ Cur.in /\ CurBecomes(d)
               /\ ~OnTrack(d) \/ n = 0 \/ header.code = 0 \/ d.offset + 1 >= Size
               /\ reg' = Refused([r EXCEPT !.cmd = "none"], {NotFound})
            \/ /\ Cur.in /\ OnTrack(d) /\ n > 0 /\ header.code # 0 /\ d.offset + 1 < Size
               /\ reg' = [r EXCEPT !.status = {Busy, Drq}, !.phase = 0, !.idx = 1, !.rest = 0,
                                   !.ids = header.ids, !.code = header.code,
                                   !.count = 1 + n * (1 + header.code * U)]
               /\ CurBecomes([d EXCEPT !.at = d.offset + 1])
    /\ job' = [NoJob EXCEPT !.op = "track"]
    /\ UNCHANGED buf /\ Media

\* Type III, write track.  A rejection raises /INT at once.
Stream(layout) ==
    <<IndexMark>> \o FlattenSeq([k \in 1 .. Len(layout.ids) |->
        <<IdMark, 0, 0, layout.ids[k], layout.code, DataMark>>
        \o [i \in 1 .. layout.code * U |-> layout.fill] \o <<Gap>>]) \o <<Gap>>

WriteTrack(layout) ==
    LET r == [Commanded("format") EXCEPT !.script = 1]
        Rejected(st) == [Refused(r, st) EXCEPT !.cmd = "none", !.errint = TRUE]
    IN  /\ Idle
        /\ reg' = IF ~Cur.in THEN Rejected({NotReady})
                  ELSE IF Protected THEN Rejected({Protect})
                  ELSE [r EXCEPT !.stage = 0, !.marks = 0, !.count = 0, !.pos = 0,
                                 !.status = {Busy, Drq}]
        /\ job' = [NoJob EXCEPT !.op = "format", !.stream = Stream(layout)]
        /\ UNCHANGED <<buf, drive>> /\ Media

\* Type IV, force interrupt: at any time, it is how a driver gives up.
ForceInterrupt ==
    /\ ~Idle
    /\ Becomes([reg |-> Ended(reg, {}), drive |-> Cur, buf |-> buf])
    /\ job' = NoJob
    /\ Media

-----------------------------------------------------------------------------
(* Status                                                                  *)

\* Mutant: it takes the same sector again.
AdvancedSame(r, d, ok, ok2) ==
    LET s == SectorSought(d, d.sector, ok)
        t == [r EXCEPT !.sector = d.sector]
        reading == r.cmd = "read"
    IN  IF ~Found(s)
        THEN [reg |-> [r EXCEPT !.sector = d.sector, !.script = 4], drive |-> s, buf |-> buf]
        ELSE IF reading /\ ~Readable(s, ok2)
        THEN [reg |-> Ended(t, {Crc}), drive |-> s, buf |-> buf]
        ELSE [reg |-> [t EXCEPT !.count = s.size, !.pos = 0, !.script = 2],
              drive |-> IF reading THEN Past(s) ELSE s, buf |-> IF reading THEN Loaded(s) ELSE buf]

\* The next sector of the track, in a command that takes several.
Advanced(r, d, ok, ok2) ==
    LET s == SectorSought(d, d.sector + 1, ok)
        t == [r EXCEPT !.sector = d.sector + 1]
        reading == r.cmd = "read"
    IN  IF ~Found(s)
        THEN [reg |-> [r EXCEPT !.sector = d.sector, !.script = 4], drive |-> s, buf |-> buf]
        ELSE IF reading /\ ~Readable(s, ok2)
        THEN [reg |-> Ended(t, {Crc}), drive |-> s, buf |-> buf]
        ELSE [reg |-> [t EXCEPT !.count = s.size, !.pos = 0, !.script = 2],
              drive |-> IF reading THEN Past(s) ELSE s, buf |-> IF reading THEN Loaded(s) ELSE buf]

\* What the choreography of STATUS_SCRIPT shows, and leaves in the register.
Shown(r) == CASE r.script = 0 -> r.status
              [] r.script = 1 -> r.status \cup {Busy}
              [] r.script \in {2, 3} -> {Busy}
              [] r.script = 4 -> {Busy, NotFound}
After(r) == [r EXCEPT !.script = 0,
                      !.status = CASE r.script = 2 -> {Busy, Drq}
                                   [] r.script = 3 -> {NotFound, Crc}
                                   [] r.script = 4 -> {}
                                   [] OTHER -> @]

\* A read no byte of which is taken goes on to the next sector, or ends.
Untouched == /\ reg.status # {NotFound, Crc} /\ Cur.in
             /\ reg.count # 0 /\ reg.count = Cur.size /\ reg.cmd = "read"

\* Mutant: /INT comes for data only.
PendingData == \/ reg.cmd = "format"
               \/ reg.count # 0 /\ reg.cmd \in {"read", "write", "address", "track"}

\* isInterrupt, with EINT on.
Pending == \/ reg.errint \/ reg.cmd = "format"
           \/ reg.count # 0 /\ reg.cmd \in {"read", "write", "address", "track"}

\* A format routine looks at the status when /INT comes, and in the gap.
Polls == /\ ~Idle
         /\ ~job.ready \/ job.done \/ Len(job.stream) = 1
         /\ job.op = "format" /\ Len(job.stream) > 1 => Pending

Poll ==
    /\ Polls
    /\ \E ok, ok2 \in Works :
        LET acked == [reg EXCEPT !.errint = FALSE]
            counted == [acked EXCEPT !.polls = IF @ >= MaxPolls THEN 0 ELSE @ + 1]
            same == [reg |-> IF Untouched THEN counted ELSE acked, drive |-> Cur, buf |-> buf]
            o == IF ~(Untouched /\ counted.polls = 0) THEN same
                 ELSE IF reg.multi THEN Advanced(counted, Cur, ok, ok2)
                 ELSE [same EXCEPT !.reg = Ended(counted, {})]
            silent == Untouched /\ counted.polls = 0 /\ o.reg.status = {Crc}
            answered == Answered(Shown(o.reg))
        IN  /\ Becomes(IF silent THEN o
                       ELSE IF answered = NoJob THEN [o EXCEPT !.reg = Ended(@, {})]
                       ELSE [o EXCEPT !.reg = After(@)])
            /\ job' = IF silent THEN job ELSE answered
    /\ Media

-----------------------------------------------------------------------------
(* Data                                                                    *)

\* A driver that has all the sectors it wants polls until the controller gives up.
Drain == /\ job.op = "read" /\ job.ready /\ ~job.done /\ reg.count = Cur.size
         /\ job' = [job EXCEPT !.done = TRUE]
         /\ UNCHANGED <<reg, buf, drive>> /\ Media

Taken == [reg EXCEPT !.errint = FALSE, !.polls = 0, !.count = @ - 1]
SectorOver(o) == o.reg.count = 0 /\ o.reg.cmd # "none"
OnToNext(r) == IF r.cmd = reg.cmd /\ r.count < reg.count /\ r.count # 0 THEN job
               ELSE [job EXCEPT !.ready = FALSE, !.id = @ + 1]

ReadByte ==
    /\ job.op = "read" /\ job.ready /\ ~job.done
    /\ reg.cmd = "read" /\ reg.count # 0 /\ Cur.in
    /\ \E ok, ok2 \in Works :
        LET last == reg.pos = Chunk(Cur) - 1
            r == [Taken EXCEPT !.pos = IF last THEN 0 ELSE @ + 1]
            same == [reg |-> r, drive |-> Cur, buf |-> buf]
            refilled ==
                IF ~last \/ r.count = 0 THEN same
                ELSE IF Readable(Cur, ok) THEN [same EXCEPT !.drive = Past(Cur), !.buf = Loaded(Cur)]
                ELSE [same EXCEPT !.reg = Ended(r, {Crc})]
        IN  Becomes(IF ~SectorOver(refilled) THEN refilled
                    ELSE IF reg.multi THEN Advanced(r, Cur, ok, ok2)
                    ELSE [same EXCEPT !.reg = Ended(r, {})])
    /\ Judged(buf[reg.pos], job.id)
    /\ job' = OnToNext(reg')
    /\ UNCHANGED <<file, belief>>

\* The medium may take a part of a unit it then fails, and a directory tells
\* only after the sector that something of it did not land.
WriteByte ==
    /\ job.op = "write" /\ job.ready
    /\ reg.cmd = "write" /\ reg.count # 0 /\ Cur.in
    /\ \E ok, ok2, landed \in Works :
        LET b == [buf EXCEPT ![reg.pos] = job.byte]
            last == reg.pos = Chunk(Cur) - 1
            r == [Taken EXCEPT !.pos = IF last THEN 0 ELSE @ + 1]
            stored == last /\ ok /\ Cur.at < Size
            same == [reg |-> r, drive |-> IF stored THEN Past(Cur) ELSE Cur, buf |-> b]
            failed == [same EXCEPT !.reg = Ended(r, {Fault})]
            o == IF last /\ ~stored THEN failed
                 ELSE IF ~SectorOver(same) THEN same
                 ELSE IF disk[reg.sel].dirsrc /\ ~landed THEN failed
                 ELSE IF reg.multi THEN [Advanced(r, same.drive, ok2, ok2) EXCEPT !.buf = b]
                 ELSE [same EXCEPT !.reg = Ended(r, {})]
        IN  /\ Becomes(o)
            /\ file' = IF stored \/ (last /\ Cur.at < Size /\ ~landed)
                       THEN [file EXCEPT ![reg.sel].units[Cur.at + 1] = Sector(b)] ELSE file
            /\ belief' = IF SectorOver(same) /\ Fault \notin o.reg.status
                         THEN Believing(job.id, job.byte)
                         ELSE Believing(job.id, Undefined)
    /\ job' = OnToNext(reg')
    /\ UNCHANGED wrong

AddressByte ==
    /\ job.op = "address" /\ job.ready
    /\ reg.cmd = "address" /\ reg.count # 0 /\ Cur.in
    /\ Becomes([reg |-> IF reg.count = 1 THEN Ended(Taken, {}) ELSE Taken,
                drive |-> Cur, buf |-> buf])
    /\ wrong' = (wrong \/ (reg.count = 2 /\ buf[0] # reg.track))
    /\ job' = OnToNext(reg')
    /\ UNCHANGED <<file, belief>>

\* readTrackByte: the index mark, and per sector its ID and its data.
TrackByte ==
    /\ job.op = "track" /\ job.ready
    /\ reg.cmd = "track" /\ reg.count # 0 /\ Cur.in
    /\ LET size == reg.code * U
           at == size - reg.rest
           byte == Unit(Cur.at).bytes[at % U]
           next == [Cur EXCEPT !.at = @ + (IF at % U = U - 1 THEN 1 ELSE 0)]
           data == reg.phase = 2 /\ Cur.at < Size
           r == IF reg.phase = 0 THEN [Taken EXCEPT !.phase = 1]
                ELSE IF reg.phase = 1 THEN [Taken EXCEPT !.phase = 2, !.rest = size]
                ELSE IF reg.rest > 1 THEN [Taken EXCEPT !.rest = @ - 1]
                ELSE [Taken EXCEPT !.rest = 0, !.idx = @ + 1, !.phase = 1]
           \* Of two sectors with one ID a write reaches the first.
           known == data /\ Place(reg.ids, reg.ids[reg.idx]) = reg.idx
       IN  /\ Becomes([reg |-> IF r.count = 0 THEN Ended(r, {}) ELSE r, buf |-> buf,
                       drive |-> IF data THEN next ELSE Cur])
           /\ \/ known /\ Judged(byte, reg.ids[reg.idx])
              \/ data /\ disk[reg.sel].frail /\ UNCHANGED wrong    \* a filler, when the medium fails
              \/ ~known /\ UNCHANGED wrong
    /\ job' = OnToNext(reg')
    /\ UNCHANGED <<file, belief>>

-----------------------------------------------------------------------------
(* Formatting                                                              *)

Aborted == Ended(reg, {})
ToStage(r, n) == [r EXCEPT !.stage = n, !.marks = 1]
Stays(r) == [r EXCEPT !.marks = @ + 1]

\* On the first track the table is cleared, and an empty file gets its unit.
Stamped == [table |-> [s \in Slots |-> 0],
            units |-> IF Image.units = <<>> THEN <<Header(<<>>, 0)>> ELSE Image.units]

\* finishTrackWrite: the image ends at the end of this track.
Sized(image, n) ==
    [image EXCEPT !.units = [p \in 1 .. n |-> IF p <= Len(@) THEN @[p] ELSE Filled(Undefined)]]
TrackEnd == Offset(Image, Here) + 1 + Len(reg.ids) * reg.code
Tracked ==
    LET sized == Sized(Image, TrackEnd)
        o == Offset(Image, Here)
    IN  [table |-> [sized.table EXCEPT ![Here] = Len(reg.ids) * reg.code + 1],
         units |-> [p \in 1 .. TrackEnd |->
                        IF p <= o THEN sized.units[p]
                        ELSE IF p = o + 1 THEN Header(reg.ids, reg.code) ELSE Filled(reg.fill)]]
Formatted == [ids |-> reg.ids, data |-> [id \in ToSet(reg.ids) |-> reg.fill]]

Finish ==
    LET r == Ended(reg, {})
        o == Offset(Image, Here)
        later == {s \in Slots : s > Here}
    IN  \/ /\ reg.code = 0 \/ o = 0
           /\ reg' = Refused(r, {NotFound})
           /\ UNCHANGED <<drive, file, belief>>
        \/ /\ reg.code # 0 /\ o # 0
           /\ CurBecomes([Cur EXCEPT !.offset = o, !.track = reg.track, !.side = reg.side,
                                     !.sector = 0, !.size = 0])
           /\ \/ /\ reg' = r
                 /\ file' = [file EXCEPT ![reg.sel] = Tracked]
                 /\ belief' = [Forgetting(reg.sel, later) EXCEPT ![reg.sel][Here] = Formatted]
              \/ /\ disk[reg.sel].frail
                 /\ reg' = Refused(r, {Fault})
                 /\ \E image \in {Image, Sized(Image, TrackEnd)} :
                        file' = [file EXCEPT ![reg.sel] = image]
                 /\ belief' = Forgetting(reg.sel, later \cup {Here})

\* writeTrackByte.  The routine repeats the last byte of its stream, a gap.
FormatByte ==
    /\ job.op = "format" /\ job.ready /\ reg.cmd = "format" /\ Pending /\ Cur.in
    /\ LET byte == Head(job.stream)
           r == [reg EXCEPT !.errint = FALSE]
           m == reg.marks
           Goes(t) == reg' = t /\ UNCHANGED <<drive, file, belief>>
           GivesUpOr(t) == Goes(IF m > StartGap THEN Aborted ELSE t)
       IN  \/ /\ reg.stage = 0 /\ byte = IndexMark /\ Here = 0
              /\ \E ok \in Works :
                    /\ reg' = IF ok THEN ToStage([r EXCEPT !.ids = <<>>, !.code = 0], 1) ELSE Aborted
                    /\ file' = IF ok THEN [file EXCEPT ![reg.sel] = Stamped] ELSE file
                    /\ belief' = Forgetting(reg.sel, Slots)
              /\ UNCHANGED drive
           \/ /\ reg.stage = 0 /\ byte = IndexMark /\ Here # 0
              /\ Goes(ToStage([r EXCEPT !.ids = <<>>, !.code = 0], 1))
           \/ reg.stage = 0 /\ byte # IndexMark /\ GivesUpOr(Stays(r))
           \/ reg.stage = 1 /\ byte = IdMark /\ Goes(ToStage([r EXCEPT !.ids = <<>>], 2))
           \/ reg.stage = 1 /\ byte # IdMark /\ GivesUpOr(Stays(r))
           \/ reg.stage = 2 /\ m = 3 /\ Goes(Stays([r EXCEPT !.ids = Append(@, byte)]))
           \/ reg.stage = 2 /\ m = 4 /\ Goes(Stays([r EXCEPT !.code = byte]))
           \/ reg.stage = 2 /\ m < 3 /\ Goes(Stays(r))
           \/ /\ reg.stage = 2 /\ m > 4 /\ byte = DataMark
              /\ Goes([ToStage(r, 3) EXCEPT !.count = reg.code * U])
           \/ reg.stage = 2 /\ m > 4 /\ byte # DataMark /\ GivesUpOr(Stays(r))
           \/ /\ reg.stage = 3
              /\ LET f == IF m = 1 THEN [r EXCEPT !.fill = byte] ELSE r
                 IN  Goes(IF m > reg.count THEN [ToStage(f, 4) EXCEPT !.count = 0] ELSE Stays(f))
           \/ reg.stage = 4 /\ byte = IdMark /\ Goes(ToStage(r, 2))
           \/ reg.stage = 4 /\ byte # IdMark /\ m <= EndGap /\ Goes(Stays(r))
           \/ reg.stage = 4 /\ byte # IdMark /\ m > EndGap /\ Finish
    /\ job' = [job EXCEPT !.stream = IF Len(@) > 1 THEN Tail(@) ELSE @]
    /\ UNCHANGED <<buf, wrong>>

-----------------------------------------------------------------------------
(* The explorer and the reset button                                       *)

Mount(d) ==
    /\ Idle /\ ~drive[d].in
    /\ drive' = [drive EXCEPT ![d] = Fresh(d, TRUE)]
    /\ UNCHANGED <<reg, buf, job>> /\ Media

\* A directory drops what it has not committed: DirDisk's matter.
Eject(d) ==
    /\ Idle /\ drive[d].in
    /\ drive' = [drive EXCEPT ![d] = Fresh(d, FALSE)]
    /\ belief' = IF disk[d].dirsrc THEN Forgetting(d, Slots) ELSE belief
    /\ UNCHANGED <<reg, buf, job, file, wrong>>

SoftReset ==
    /\ reg' = Registers
    /\ drive' = [d \in Drives |-> IF drive[d].in = disk[d].configured THEN drive[d]
                                  ELSE Fresh(d, disk[d].configured)]
    /\ belief' = [d \in Drives |-> IF disk[d].dirsrc THEN Forgetting(d, Slots)[d] ELSE belief[d]]
    /\ job' = NoJob
    /\ buf' = NoBuffer
    /\ UNCHANGED <<file, wrong>>

-----------------------------------------------------------------------------
SectorIds == 1 .. 2

Step ==
    \/ \E d \in Drives : SelectDrive(d)
    \/ \E d \in Drives \cap Explored : Mount(d) \/ Eject(d)
    \/ \E s \in {0, 1} : SelectSide(s)
    \/ \E t \in 0 .. MaxTrack : TrackRegister(t) \/ Stage(t)
    \/ \E n \in SectorIds : SectorRegister(n)
    \/ ReadSectorRegister
    \/ \E kind \in {"restore", "seek", "stepIn", "stepOut"} : Move(kind)
    \/ \E multi \in BOOLEAN : ReadSector(multi)
    \/ \E multi \in BOOLEAN, v \in Data : WriteSector(multi, v)
    \/ ReadAddress \/ ReadTrack
    \/ \E layout \in disk[reg.sel].layouts : WriteTrack(layout)
    \/ ForceInterrupt \/ Poll \/ Drain
    \/ ReadByte \/ WriteByte \/ AddressByte \/ TrackByte \/ FormatByte
    \/ SoftReset

Next == Step /\ UNCHANGED disk

\* The Z80 runs on: a driver takes its next step.  The controller has no
\* clock of its own, every step of it is a port access.
Driver == /\ Poll \/ ReadByte \/ WriteByte \/ AddressByte \/ TrackByte \/ FormatByte
          /\ UNCHANGED disk

Spec == Init /\ [][Next]_vars /\ WF_<<reg, job>>(Driver)

-----------------------------------------------------------------------------
(* Properties                                                              *)

\* The registers, the buffer and the drives' caches are of their types.
TypeOK ==
    /\ reg.status \subseteq {Busy, Drq, NotFound, Crc, Fault, NotReady, Protect, Track0}
    /\ reg.track \in 0 .. MaxTrack /\ reg.side \in {0, 1} /\ reg.sel \in Drives
    /\ reg.script \in 0 .. 4 /\ reg.stage \in 0 .. 4 /\ reg.pos \in 0 .. U - 1
    /\ reg.cmd \in {"none", "move", "read", "write", "address", "track", "format"}
    /\ \A d \in Drives : drive[d].size % U = 0 /\ drive[d].track \in 0 .. MaxTrack

\* ReadsBack: whatever commands, formats, failures, mounts and resets come
\* between, no byte a read delivers differs from what the guest last wrote or
\* formatted in that sector, and an address read tells the track the head is on.
ReadsBack == ~wrong

\* TransferInv: while a guest is told that data is requested, the byte counter,
\* the place in the buffer and the position in the image agree, on the sector
\* the guest counts on: the buffer neither runs over nor skips a unit.
TransferInv ==
    /\ TypeOK
    /\ job.op \in {"read", "write"} /\ job.ready /\ ~job.done =>
        LET d == SectorSought(Cur, Cur.sector, TRUE)
            ahead == IF job.op = "read" THEN 1 ELSE 0
        IN  /\ reg.cmd = job.op /\ reg.count > 0 /\ reg.pos < Chunk(Cur) /\ OnTrack(Cur)
            /\ Cur.sector = job.id
            /\ Cur.size = d.size
            /\ reg.count + (Cur.at - ahead - d.at) * U + reg.pos = Cur.size

\* CommandEnds: a driver that goes on comes to the end of its command, with data
\* or with an error, and a format routine that waits for /INT is told at once of
\* a refused format.  Stranded is the format the controller gives up midway when
\* the medium fails, with no /INT.
Stranded == job.op = "format" /\ job.ready /\ reg.cmd = "none" /\ Len(job.stream) > 1
CommandEnds == ~Idle ~> (Idle \/ Stranded)
=============================================================================
