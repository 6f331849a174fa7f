# MZPico firmware: TLA+ models, model checking and proofs

The MZPico firmware turns an RP2040/RP2350 board into a set of peripherals for the Sharp MZ-800: floppy and
quick disks, RAM disks, sound, and the *Unicard*, a command device through which Z80 programs reach files on
flash and SD card, a cloud server and a multiplayer relay. This directory holds TLA+ modules translated from
that code, the TLC configurations that check them on small instances, and theorems proved with TLAPS for every
value of the constants. Paths below are relative to the repository (`src/src/...` is its `src/` directory);
`PROJECT.json` maps each definition to its lines.

## 1. The system

Two cores and no operating system. **Core 1** runs `DeviceManager::listenLoop` (`device.cpp`): it spins on the
Z80 bus and calls a device's port handler in the middle of the Z80's I/O cycle. **Core 0** runs `main`'s loop:
USB, `cyw43_arch_poll()` (inside which all lwIP callbacks run), the WiFi and cloud machines, the relay, the
audio refill, the deferred flash sync. Interrupts on core 0: the Z80's reset line and the audio DMA. The cores
share plain words and queues, no lock; flash operations stop the other core.

| Component | State it keeps | Operations | Talks to | What is hard | What makes it correct |
|---|---|---|---|---|---|
| Flash filesystem `flash_fs.c` | sector map, two slots per map meg on flash, used and quarantine bitmaps, the sector being filled | sector write, sync, mount, format | FatFs and USB above, NOR flash below | power cuts between any two flash operations, failing programs, a full volume | a synced sector survives; a volume that mounted mounts again; no page is shared, leaked or programmed twice |
| Unicard `unicard.cpp` | phase, parameters, one `FIL`, one listing, cloud buffers | some 50 commands over two ports, soft reset | FatFs; core 0 through one command slot | core 0 writes into buffers while the Z80 resets, polls or starts over | buffers lent until core 0 is done; what lands is what was asked for; every command is answered |
| Cloud client `cloud_fs.cpp`, `http_utils.c` | WiFi state, command slot, one HTTP request | list a directory, download a file | lwIP callbacks; `cloudDone` on the Unicard | deadlines racing late callbacks, retries | late data goes nowhere; busy only while something is under way |
| Relay link `net_relay.cpp`, `unicard_net.cpp` | two line queues, open/close requests, socket state, room session | CREATE, JOIN, SEND, POLL, LEAVE, reset | lwIP callbacks; the relay server | both cores at once on lock-free queues, stale lines and requests | first line joins; queues in step, no line replayed; no room without a socket; a connection that fails is reported |
| Lockstep frames `unicard_net.cpp` | ring of 128 frames, base | store, poll, hash | the relay link | a frame read after its slot was reused; SEND that fails half way | peers see the same inputs |
| Directory as floppy `fdc_dir_source.cpp` | directory image, slot-to-file box, staged blocks, FAT cache | read/write a virtual sector, flush (commit), session abort | FatFs; the floppy controller | guest writes data before the directory that names it; failures in the middle of a commit | what the guest saved is in the files; a refused write is reported |
| Floppy controller `fdc.cpp` | registers, command phase, 256-byte buffer, four drives | WD1793 commands, drive mounts, soft reset | byte sources, `/INT` | a guest that stops anywhere; counter, buffer and file position that must move together; writes that fail | what was written reads back; every command ends |
| Quick disk `qd.cpp`, `qd_dir_source.cpp` | head position, serial chip, index of the directory, save engine | read, write, format, mount | byte sources, FatFs | files recognised from a stream of blocks, given up anywhere; the directory changes underneath | a save verifies and costs no other file |
| Byte sources `cached_source.cpp`, `file_source.cpp`, `ram_source.cpp` | window of the file, dirty flag, position | read, write, seek, resize, flush | FatFs, RAM | a medium that fails in the middle of a refill; rings; write-only tails | an array of bytes; a flush that succeeds tells the truth |
| RAM disks `ramdisk.cpp`, `pico_rd.cpp`, `sramdisk.cpp` | page and address counters | port reads and writes, soft reset | byte sources | counters that carry, digits handed over one by one | a byte is read where it was written |
| Device manager, bus loop, reset, flash guard `device.cpp`, `bus.pio` | listeners per port, place in the cycle, reset state, lockout word | boot, read and write cycles, reset interrupt, soft reset, flash operations | every device, two state machines, the inter-core FIFO | captured words that slip after a reset; interrupt on core 0 against handlers on core 1 | a read gets its own byte; no flash operation is torn; a reset is answered |
| Sound `i2s_audio.cpp`, `sn76489.cpp`, `ctc.cpp`, `mem_snoop.cpp` | double buffer, register queue, three time-stamped streams, playhead | DMA interrupt, refill, port and memory writes, bank switches, reset | audio DMA, snoop DMA | interrupt against refill; three streams merged while they grow | every buffer played once; writes in the order and under the banks of their moment |
| Configuration, REST, embedded images | little | - | - | - | not modelled, see section 7 |

## 2. Modules

| Module | Role |
|---|---|
| `FlashFS` | `flash_fs.c`: one action per flash operation, power cut between any two |
| `SectorStore` | the abstract specification: an array of sectors, durable per meg after a sync |
| `FlashFSRefinement` | the refinement mapping `FlashFS` -> `SectorStore` |
| `FlashFSInv` | the inductive invariant, in named conjuncts |
| `FlashFSProofs` | TLAPS: types and map slots; pages; what is in the pages, room for every write, the refinement |
| `NetRelay` | both cores of the relay link, interleaved at every shared word |
| `NetRelayProofs` | TLAPS: the line queues, the first line over a socket, the room and its socket |
| `CloudFS` | core 0's cloud client with WiFi and lwIP |
| `Unicard` | core 1's command device; EXTENDS and composes with `CloudFS` |
| `UnicardProofs` | TLAPS: lending, late data, ownership of buffers, the busy flag, what a transfer writes |
| `DirDisk` | `FDCDirSource` under a BASIC or CP/M guest: staging, commit, remount |
| `ByteArray` | the abstract specification of a byte source: an array of bytes with a position |
| `CachedSource` | the write-back window over a FAT file; one action per call, one step per chunk |
| `RamDisks` | the three RAM disks over `CachedSource` or RAM; shown to implement `ByteArray` |
| `ByteSourceProofs` | TLAPS: the window, a flush, the guest's bytes, the refinement of `ByteArray` |
| `Floppy` | the floppy controller, its four drives and a polling driver |
| `FloppyProofs` | TLAPS: the counter, the buffer and the position of a transfer; what was written reads back |
| `QuickDisk` | the Quick Disk drive, the directory it serves and the ROM's routine |
| `QuickDiskProofs` | TLAPS: the head over an image, the index, whose files a save may cost |
| `DeviceManager` | boot from `mzpico.ini`: devices, listeners and dispatch tables |
| `BusLoop` | Z80 cycles, the two capture machines, core 1, the reset handler, the lockout; EXTENDS `DeviceManager` |
| `BusLoopProofs` | TLAPS: the lockout, the captured words, the dispatch tables |
| `I2SAudio` | the two buffers and the audio interrupt |
| `Ctc` | the beeper's three streams and `processWrites`; EXTENDS `I2SAudio` |
| `Psg` | the register queue of the SN76489 |
| `Sound` | composes `Ctc` and `Psg` on the two cores |
| `SoundProofs` | TLAPS: the register queue, the two buffers, the playhead |
| `MC*` | instances for TLC |

`CloudFS`/`Unicard`, `CachedSource`/`RamDisks`, `DeviceManager`/`BusLoop` and `I2SAudio`/`Ctc`/`Psg`/`Sound` are compositions:
the lower module's actions are conjuncts of the upper one's. `Floppy` and `QuickDisk` see a byte source as what
`RamDisks` shows it to be, an array of bytes whose accesses may fail.

## 3. How the models correspond to the code

The grain of a step is chosen by what can come between: two flash operations (a power cut), two accesses to a
word the other core writes, two port accesses of the Z80, two sectors written by the guest. Within a step the
whole of what the code does there happens, in its order.

**`FlashFS`.** `map`, `dirty`, `active`, `gen`, `used`, `pending`, `open`, `free`, `search` are the statics of
`flash_fs.c`; `flash` and `slots` are what is on the chip. A call that takes several flash operations is spread over
steps by `pc`: a host `Write` takes its old page back and enters `alloc`; `OpenFreeSector` erases a wholly free
flash sector, `OpenPartialSector` erases a partly used one after copying it to RAM and `CopyBack` programs it page by
page; `TakePage` programs the data. `ForceSync` is the sync inside `getNextWriteSector`, and `EraseSlot`,
`ProgramSlot`, `EndSync` are `flash_fs_sync`. A program may go wrong (`BadPrograms`); a map slot is verified after
programming and quarantined pages stay so when that fails. `PowerCut` is enabled at every step, `Mount` rebuilds
everything from the winning slots, `Format` runs where `Mount` failed. Pages hold abstract contents; checksums are
"valid", "blank" or "torn". `exposed` is a history variable: the sectors whose persisted page was released by a
forced sync in the middle of their own write.

`SectorStore` is what a block device promises: `mem`, what a read returns, and `durable`, what a restart returns; a
write changes one sector of `mem`; a sync copies one meg's sectors to `durable`; a restart copies them back.
`FlashFSRefinement` maps `durable[f]` to what the winning slot of `f`'s meg reaches and `mem[f]` to what the RAM
map reaches, or the scratch buffer during a copy-back. Exposed sectors map to `AtRisk`: the abstract store says
openly that they may come back as anything. So does `mem[f]` while `f` itself is being written and the sync that
write forced has given its old page away (`GivenUp`): the allocator may already have erased it.

**`NetRelay`.** `inq`, `out` are the two `LineQueue`s with their head and tail words; `openReq`, `openAck`,
`closeReq` the shared request words; `ws` the socket state of core 0; `state`, `pending`, `answer` the session of
core 1. `LineQueue::pop` is two steps (read the head, store the tail) and using the line is a third, on each side.
`Network` actions are the lwIP callbacks; as in the code they run only at `pc0 = "events"`. Every line carries the
open request its socket was made for, so that a line of the last room is told from one of this room. `held` is history: the
line as it was when core 1 popped it. If the relay has filled the ring meanwhile, `HandleLine` may read the line that was there,
the one copied over it, or a mixture (`Read`). A push that finds the queue full loses the line; `SendFrame` may lose one
too, for nothing looks at what `tcp_write` returns (`net_relay.cpp:126-127`). `unheard` and `stray` record the two
events that let a Z80 believe in a room that is not there.

**`CloudFS`** and **`Unicard`**. `CloudFS` is core 0: `wifi` and `attempt` are `wifi_process_state_machine`, `slot`
and `pending` are `g_cloud_cmd`, and one HTTP exchange is `armed`, `inFlight`, `complete`, `outcome` and `wire`, which
counts exchanges whose lwIP callbacks may still come, abandoned ones too. `Unicard` is core 1, with one action per
group of commands that treat the state alike; `Harvest` is `finishAsync`, and an access made while there is something
to harvest is `Harvest` followed by the access. `cloudDone`'s two stores are two steps. `job` and `wrote` are history.

**`DirDisk`.** `dir` is `dir_image_`, `box` is `slot_fat_` and `cpm_files_` by name, `stage` is the staging map with its
temporary file, `files` the FAT files. `WriteThrough`, `WriteFiller`, `WriteStaged`, `WriteRefused` are the outcomes of
`store_bytes` for a data sector; `WriteDir` is a directory sector, flushed by the controller at the end of the
command, so that adoption and commit are one step; `CommitBasic` and `CommitCpm` are the two commit engines in the
order of the code; `Reset` is `sessionAbort`; `Remount` rebuilds the disk from the files in any order. The guest is
modelled as what a legal Disk BASIC or BDOS may write next. `shadow` is history: what the guest knows each block to
hold.

**`CachedSource`, `RamDisks`, `ByteArray`.** `src` is the object (`start`, `bytes`, `dirty`, `pos`, and the file); an
operator maps it to the set of objects a call may leave, since any access to a frail medium may fail. `get` and `set`
run a chunk a step, so that a failure falls between two windows. The ring (`wrap`) is only ever used with a window
no larger than the file, and `invalidate` only on a clean window, as by its callers. `Mzf2Sram` is a ring of
bytes. `have` is how long the file really is: on a `tight` medium it may be opened, or grow, to any length below its declared size,
a store writes what there is room for and reports success (`file_source.cpp:177-179`), and a read beyond the end is short or empty.
`short` is history: an access has met that end. `told` and `synced` are history: what callers wrote, and whether a flush has reported success since.

**`Floppy`.** One action is one port access. `reg` holds the registers, `DATA_COUNTER` (`count`), the place in the
buffer and the status script; `drive` what `fdc.cpp` caches of the image (track, side, sector, size, position). An image
is a sequence of units of `U` bytes: the DSK header, then per track a header and its sectors. The guest (`job`) is a driver
that polls the status register and is paced by `/INT` only in formatting; it may give up, be reset or have the image
ejected between any two accesses. `belief` is history: what the guest has reason to expect on each track. A track's header is the sequence of its sector
IDs; a seek takes the first of them that fits (`Place`, as the loop of `fdc.cpp` does), so a track may bear an ID twice. The setups are any disks
whose table has the size that goes with each header (`Laid`) and that bear what is believed of them at the start (`Bears`).

**`QuickDisk`.** The tape is a sequence of cells: `Tape(files)` is what `qd_dir_source.cpp` makes up as it is read,
`image` what an image file holds. `drive` is the serial chip with the head, `engine` the save engine with its temporary
file, `served` the index `files_`, `dir` the FAT directory. The guest is the Quick Disk routine of the ROM (external, as the
comments of `qd.cpp` describe its port accesses): it lists, saves with a verify pass and formats. A header's 64 bytes are
one cell. `SetupAssumption` says what a setup is: any directory whose names differ, any image, and a medium that fails only under a
directory.

**`DeviceManager`, `BusLoop`.** `Boot` takes one section of `mzpico.ini` a step through creation, `readConfig`, registration
and disabling; `listenPorts`, `unListenPorts` and `recomputeExwait` are loops over the
section's port lists (`Listening`, `Unlistening`), in which a port may be there twice, and each registration builds `flat` again. `rsm`, `rx`, `tx` and `wsm`, `wx` are the two machines of
`bus.pio` with their FIFOs; `pc[1]` is the place in `listen_loop`, `pc[0]` core 0's in the reset handler, `flash[c]` the
place of core `c` in `flash_guard_enter`, the operation and `flash_guard_exit`, with the SDK's lockout below it (`mutex`,
`req`, `ans`, `parked`). Three facts of the hardware are guards, named at the head of the module: a machine runs its steps
within a bus cycle, core 1 takes a captured cycle up before the Z80 samples `/WAIT`, and so it finishes a port
that does not hold the Z80.

**`I2SAudio`, `Ctc`, `Psg`, `Sound`.** Time is counted in samples: `DmaPlays` and `DmaEnds` are one sample each and the only
steps that age anything. The interrupt may fall between any two steps of `i2s_audio_poll` (`poll`). Time stamps are ages; the
playhead is its lag behind the present. `processWrites` is stepwise (`scan`): it snapshots the three heads, the
bank log's before the ring's cursor as the code does, merges, then ages out bank events; captures fall between the
snapshots. `WriteData` of the PSG stores the byte and publishes the head in two steps. Ages saturate at `Old`, which is at least
three buffers: the playhead's lag and the ageing of bank events look no further back. A guest is a record of the sources it
uses and its program, a sequence of `Accesses`; none stores more than the ring at once.

## 4. The runs

A *window* is a situation in which the code is known to break a property of a passing run. Windows are constants used
in guards: a passing run closes them, a violation run opens one. That is how the passing runs can say what holds
in all other situations; the windows are the findings.

| Run | Instance | Shows |
|---|---|---|
| `flash_one_meg` | 1 meg, 3 flash sectors (1 for data), 3 pages = 3 FAT sectors, map and page programs may fail, window `"exposed"` open, cut anywhere but in a copy-back | `PagesApart` (no shared page, the bitmap exact, persisted pages pinned), `NeverFullWhenHealthy`, `NoOverprogram`, `VolumeSurvives`: on a volume that can be completely full, so that every write forces a sync or a copy-back |
| `flash_two_megs` | 2 megs, 6 flash sectors, 2 pages each, map programs may fail for ever | `MapInv` (the inductive invariant), `SyncedDataWhole`, `ImplementsStore`, and `WriteReturns` under fairness: cuts between the two megs' map writes |
| `net_orderly` | ring of 2, which fills, 2 rooms, 1 game line beside answers and ends, all kinds of relay lines, frames that get lost | `FirstLineJoins`, `NoGhostRoom`, `QueuesInStep`, `ConnectAnswered` |
| `unicard_session` | one cloud path, a file of one part, one retry, two volume paths, one directory left open for good | `BuffersKept`, `OnlyGetConfigHolds`, `BusyIsBounded`, `TransferLands`, `EveryJobAnswered` |
| `dir_disk` | 2 names, 2 one-entry directory sectors, 3 blocks, extents of 2 blocks, staging map of 2, both personalities | `ReadsBack`, `Mirrored`, `Survives` |
| `dir_rename` | window `"rename"` | violates `ReadsBack`: a file renamed in BASIC loses its content |
| `byte_source` | eleven sources: an image (3 bytes, writable and read-only), paged RAM disk, PicoRD and SRAM card (4 bytes) on a file or RAM, and an image (3), RAM disk and PicoRD (2) on a medium that may be full; window of 2 | `FlushTellsTruth`, `GuestReadsBack`, `ImplementsByteArray` |
| `floppy` | five setups: two tracks of which one is formatted, a failing medium, a directory whose writes may be lost, three tracks, two drives | `ReadsBack`, `TransferInv`, `CommandEnds` |
| `quick_disk` | three programs, two of them with names that differ only in case; six setups: directories (sound, formatted, changed over USB, failing), an image, changes of the disk | `SaveVerifies`, `HeadInStep`, `OthersSurvive` |
| `bus_loop` | six configurations (played; skipped, disabled, short of memory, too many for a port or for the manager; one that halts), two presses of reset | `NoTornFlash`, `WordsInStep`, `DispatchIsOfEnabled`, `ServedByte`, `RebootCompletes`, `ResetAnswered` |
| `bus_deadlock` | the same | violates `NoLockoutDeadlock`: both cores wait for each other's lockout, until the watchdog bites |
| `sound` | nine guests: tunes, beeps over both paths, BASIC's bank bracket, locks, mode changes, a reset, a flood; buffers of 2 samples | `PsgInStep`, `PlayheadBehind`, `PlaysInOrder`, `MergedInOrder`, `JudgedByItsBanks` |

`flash_two_megs` does not check for deadlock because its generations are bounded; `bus_loop` and `bus_deadlock` do not because
the Z80 may stop and a bad configuration halts core 1. Types are part of a property with more to say (`MapInv`,
`QueuesInStep`, `Mirrored`, `TransferInv`, `HeadInStep`) or proved (`FlashFS`, `Unicard`, `RamDisks`, `Floppy`, `QuickDisk`).

**Windows without a run of their own.** Each is reproduced by adding it to the constant named.

| Window | What goes wrong in it |
|---|---|
| `CutWindows`, `"copy"` (`FlashFS`) | `SyncedDataWhole` fails: a cut during an erase-with-copy loses other files' synced pages (`flash_fs.c:295`, against `:269-271` and `src/README.md:280-281`) |
| `"exposed"` with 2 megs | `PagesApart` fails: after a sync forced inside a write, a cut between two megs' map writes cross-links two files (`flash_fs.c:305`, against `:472-474`) |
| `Windows`, `"reopen"` (`NetRelay`) | `FirstLineJoins` and most others fail: a line of the last room is the first over the new socket (`net_relay.cpp:293`, against `net_relay.hpp:4` and `:16-17`) |
| `"hangup"` | `ConnectAnswered` fails: a peer that closes during the handshake ends in IDLE without a line to core 1, and no timeout covers that state (`net_relay.cpp:175`) |
| `"stalecopy"` (`Unicard`) | `TransferLands` fails: a COPY whose download failed leaves its destination, and the next cloud file that is opened is copied over it (`unicard.cpp:977`, against `unicard.hpp:186`) |
| `"restart"` (`CloudFS`) | `BusyIsBounded` fails: a request that cannot be started after an abandoned one leaves `g_http_in_flight` set for ever, and every later command is refused as busy (`cloud_fs.cpp:505`, against `:228-229`) |
| `"open"` (`DirDisk`) | all three fail: a FAT file that cannot be opened is skipped by the commit and nothing is reported (against `src/README.md:255-256`) |
| `"inplace"` | `ReadsBack` fails: a failed in-place write is staged and never committed, or, if filler, forgotten |
| `Overrun` (`RamDisks`) | `GuestReadsBack` fails: past the last byte of a page the RAM disk carries into the next one, since the mask of `ramdisk.cpp:96-99` never bites |

**What is open in the passing runs.** Where the code breaks a promise in a way that can be named, the model has it and
the property names it, so that it says what is left of the promise:
- `QueuesInStep`: `net_relay.hpp:22` says a popped line is valid until the next pop; `LineQueue::pop` gives its slot back before
  the caller has read it (`net_relay.cpp:31-37`), so it is valid until the relay has filled the ring behind it. In
  `net_orderly` the ring does fill while core 1 reads, and the line it reads may be torn.
- `NoGhostRoom`: the line that the link is down is dropped by a full queue (`unheard`), and a line of the room that is handled after
  LEAVE puts the Z80 back into it (`stray`). Any third way would violate it.
- `OnlyGetConfigHolds`: a GETCONFIG during a listing takes the stream over and stops nothing. FatFs's directory object stays
  open for good, even over a reset that "closes everything" (`unicard.hpp:68`); a sorted listing is freed by the next command that closes
  the directory and not when the stream ends (`unicard.hpp:155-158`). Nothing else is kept, and no allocation overwritten.
- `FlushTellsTruth`: on a full medium, a store that FatFs cuts short counts as done, and `flush` reports success.
- `EveryJobAnswered`, `ConnectAnswered`: cloud jobs are answered, whatever WiFi and server do; for CREATE and JOIN the code's only timeout
  ends with the handshake (`net_relay.cpp:284`), and so does the claim.

**Why the bounds are enough.** *Flash*: the allocator only distinguishes a wholly free, a partly used and a full flash
sector, and one data sector of three pages already has all of them; two megs are needed exactly where two maps are
written one after the other. `MaxGeneration` 3 lets both slots of a meg be rewritten after a mount. *Relay*: an error in
reopening needs two rooms; the answer, a line of the game and the end of the link are one line more than the ring holds. *Cloud*: one abandoned and one new exchange, and the next
command after that; after one directory that is never closed, the next is counted like the first. *Directory*: a rename across two directory sectors needs two sectors of one entry and a file
of two extents, i.e. three blocks; two names make every pair of owners. *Byte sources*: 3 bytes end in a window
half full, 4 are two windows and a ring; on a full medium the paged disk and the PicoRD are of one window, which a file of 0, 1 or 2 bytes fills not at all, half or whole; `MaxCall` 2 lets a call straddle them; two values tell a byte from
its neighbour. *Floppy*: a unit of 2 bytes has a first and a last; a sector of two units makes the buffer
be loaded again, two sectors make a multiple transfer go on, three tracks a seek that overshoots. `StartGap` 5 and `EndGap` 1
stand for 100 and 200 bytes, which nothing but their order depends on. *Quick disk*: 80 cells are too few for all three
programs at once, so a save finds the disk full; `Byte` 8 makes the count of blocks wrap. *Bus*: FIFOs of four and a second
reset in the answer to the first; a third listener on a port. *Sound*: with two samples a buffer begins and ends
in different steps; a ring of four words laps within a flood; three buffers may end late one after the other.
`PollTicks` 1: one sample is played within a poll at most, i.e. a scan takes less than a buffer.

## 5. Fairness

`WF(Operation)` in `FlashFS`: a call in progress goes on, since it is a straight loop on one core; nothing makes the
host write or sync. `WF(Loop0)`, `WF(Body1)`, `WF(TimePasses)` in `NetRelay`: both cores spin for ever and the clock
ticks, so the connect timeout fires. `WF(Command("wait"))`: a program that sent CREATE or JOIN reads the status
port until the answer is there (the interface gives it no other way). Nothing is assumed of the network or the relay.
`CloudFairness`: the loop of core 0 runs the WiFi machine, the command and the HTTP deadline in every turn;
`SF(WifiStep)` because a turn runs the machine between any two commands; `WF(WireEnds)` because lwIP ends every
connection, with an error if need be. `WF(Return)`, `WF(Harvest)`: handlers return, and the Z80
polls the status while it shows a command in progress.
`WF_<<reg, job>>(Driver)` in `Floppy`: a driver that has begun a command polls and moves bytes until it ends; a mount, an eject
or a reset may always come between. `WF(Core0)`, `WF(Core1)`, `WF(Machines)`, `WF(WatchdogBites)` in `BusLoop`: cores and state
machines run, and the watchdog counts whatever hangs; nothing makes the Z80 access a port or the user press reset. No other step is assumed to happen, and no property needs
the Z80, the host, the server or WiFi to do anything else. `DirDisk`, `RamDisks`,
`QuickDisk` and `Sound` state no liveness: their calls are straight runs, and what they must get right is what they leave.

## 6. The proofs

All theorems are about `Spec` of the module the runs check, for every value of the constants. *Closed* windows are hypotheses:
each names something the code is known to get wrong (section 4), and the theorem fails without it.

| Theorem | Says | From |
|---|---|---|
| `FlashFSProofs!TypeCorrect` | types; the open sector is never a map sector | `GeometryAssumption`, `InputAssumption` |
| `SlotsSound` | `SlotInv` | as above |
| `VolumeSurvivesAll` | `VolumeSurvives`: a volume that mounts once mounts ever after | as above, in every window |
| `MapSound` | `MapInv` = `SlotInv` and `PageInv` | also `"exposed"` closed |
| `PagesStayApart`, `MountsApart` | `PagesApart`; a mount finds no two sectors on one page | as `MapSound` |
| `PagesProgrammedOnce` | `NoOverprogram` | data differ from an erased page and from a failed program; in every window |
| `NeverFull` | `NeverFullWhenHealthy`: a write finds a page unless a map program failed | as `MapSound` |
| `DataSurvives` | `SyncedDataWhole`: a mount finds what was written, in its own sector | `"exposed"`, `"copy"` closed, page programs good |
| `StoreImplemented` | `ImplementsStore`: every step is one of `SectorStore` or a stutter | `"exposed"`, `"copy"` closed; page programs may fail |
| `UnicardProofs!TypeCorrect` | types of both cores' state | `CloudAssumption`, `UnicardAssumption` |
| `BuffersAreKept` | `BuffersKept`: buffers lent, late data dropped, one exchange | as above |
| `NothingElseIsHeld` | `OnlyGetConfigHolds`: buffers freed, directories closed, no allocation overwritten, but for what GETCONFIG interrupts | as above, in every window |
| `BusyEnds` | `BusyIsBounded`: busy only while an exchange or its callbacks are still out | also `"restart"` closed |
| `TransfersLand` | `TransferLands`: a transfer writes the file its command named, no other | also `"stalecopy"` closed |
| `JoinGoesFirst` | `FirstLineJoins` | `NetAssumption`, `"reopen"` closed |
| `QueuesStayInStep` | `QueuesInStep`: the ends keep their order, a popped line stays until the ring is full behind it | as above, queues and games of any length |
| `ToldOfTheEnd` | `NoGhostRoom`, with its two exceptions | as above |
| `LockoutSound`, `FlashNeverTorn` | the lockout's word is never lost, doubled or mistaken; `NoTornFlash` | `ManagerAssumption`, `BusAssumption` |
| `WordsNeverSlip` | `WordsInStep` | as above |
| `DispatchSound` | `DispatchIsOfEnabled`: an access goes to the first enabled devices of the file that claim its port, and the Z80 is held where one of them asks | `ManagerAssumption` |
| `TransferTheorem` | `TransferInv`: while data is requested, counter, buffer and position agree on the sector the guest counts on | `FloppyAssumption`, `SetupAssumption` |
| `ReadsBackTheorem` | `ReadsBack`: a read gives what was last written or formatted there | as above |
| `HeadTheorem` | `HeadInStep`: what is written into an image lands under the head; the index fits a count and the medium | `QuickDiskAssumption`, `SetupAssumption` |
| `SurvivalTheorem` | `OthersSurvive`: no save costs a file but the program of the Sharp name it saves | as above; a directory's medium may fail at any access, once a job |
| `PsgStaysInStep` | `PsgInStep`: the chip's registers are those of a chip without a queue, seen late | `PsgAssumption` |
| `BuffersPlayInOrder` | `PlaysInOrder` | `I2SAssumption` |
| `PlayheadStaysBehind` | `PlayheadBehind` | also `CtcAssumption`, `GuestsAssumption` |
| `SourcesKeep` | the inductive invariant of the window, its file, the devices and the histories | `SourceAssumption`, `DeviceAssumption` |
| `FlushIsTrue`, `GuestReadsItsBytes` | `FlushTellsTruth`, with its exception on a full medium; `GuestReadsBack` | also `~Overrun` |
| `SourcesAreArrays` | `ImplementsByteArray`: every call is one on an array of bytes | as `SourcesKeep`, for any `Overrun` |

*Flash, the maps.* Neither `VolumeSurvives` nor `NoSharedPage` is inductive. That an erase never hits the only good slot needs
`ActiveWins` (the slot RAM calls active is the one a mount would take), which needs `Generations` (no slot is newer than
`map_generation`, and a sync writes a strictly newer one) and `DistinctGenerations`; with `CleanMegs` and `FormatShape`
these are `SlotInv`. That an allocated page belongs to nobody needs the bitmaps to say the truth in RAM
(`UsedIsMapped`, `OpenUnclaimed`) and on flash (`PersistedPinned`), through a write that has let go of its old page
(`OldPage`) and a sync that has replaced one meg's map but not the other's (`RamApart`, `NoCrossLink`): `PageInv`. The
step proofs have one lemma per action and one step per conjunct it can disturb. `"exposed"` must be closed because the
code breaks `NoSharedPage` in it (section 4). TLC checks `MapInv` as an invariant of `flash_two_megs`.

*Flash, the contents.* `ErasedInv` says of which pages the code may assume that they are erased: the free pages of the sector
being filled, and those a copy-back has still to program. `NeverFull` is a count. A write that finds nothing has every data
page used or quarantined; after the sync it forced, nothing is quarantined unless that sync could not be completed
(`RetriedReleased`), so every page is used; used pages are mapped, one to one, by FAT sectors (`MapInv`); but there are as many data
pages as FAT sectors (`AsManyPages`), and the sector being written has none. For the refinement, `Value(e)` is the content behind
a map entry wherever it is, page or scratch buffer; a step that keeps the values of all entries the bitmaps hold (`ValuesKept`)
changes nothing the abstract store shows. `StoreStep` names the six ways the flash code can move it (nothing, a write, a synced
meg, a sector given up, a restart, a format), each action is shown to be one of them, and each of them to be a step of
`SectorStore`. `SyncedDataWhole` follows from the same cases (`KnownInv`). What happens in a copy-back is in the
proof; only a power cut inside one is not, since the code loses data there.

*Unicard.* `BuffersLent` is the hand-over protocol between the cores: while core 0 works, core 1 is in the
asynchronous phase of that very command. Its inductive form (`LendInv`, in `UnicardProofs`) adds where core 0 stands
between the two stores of `cloudDone` and that `done` implies nothing is pending. `OwnInv` adds who owns the
download buffer and the listing in each phase. `JobShape`, on top of both, says that from submission to harvest the slot holds what
the waiting command asked for and that a copy's destination is kept for that command alone; `WrittenHere` that what was last written
beside an open file went to it.

*Relay.* `LinkInv` relates three places that change at different times: the socket, core 1's place in a CREATE or
JOIN (`Before`, `Fresh`), and what is in the queue out. If the last socket is gone before the next request, the queues are reset by
one core while the other is away from their ends (`TailsOwned`), and the join is the only line out until core 0 has sent it or lost
it. `HeldStable` is the history of the line core 1 holds: it is in its slot as long as the relay's counter is no more than the ring's
length ahead of it, whatever the relay does and however slowly core 1 reads. For `NoGhostRoom`, `RoomInv` says that a room without a socket has
the line that ends it as the last one still to be read (`Ended`); that what is in the queue is harmless (`AllHarmless`) once the Z80 has left,
unless a line strayed; and that a request given up before its socket was made leaves the Z80 outside (`GivenUp`). A full queue
breaks `Ended` at one place only, the push of the line that the link is down, which is where `unheard` is set.

*Bus.* `NoTornFlash` is not inductive: that a core in `"flash"` is alone follows from where the one word of the lockout is.
`LockInv` says it for each initiator: none is under way while it waits for the mutex; while it waits in `"ack"` or `"endack"` the
word is with the other core or back as its answer, and which of the two says whether the other core is parked; in
`"flash"` it is. `Standing` adds that a core is parked only where it has started no operation of its own: core 0 in its main
loop, core 1 before it has the mutex. `WordInv` relates the read machine's place, the words in its FIFOs and the place in
`listen_loop`: no read is under way, or one, in one of six stages; and the kind of each of the write machine's words
follows from its number, since they come in threes. Both hold for every FIFO of two words and more.

*Dispatch.* `DispatchIsOfEnabled` compares tables that were filled, thinned out and filled again with a definition over the whole list of devices, so
its invariant speaks of the rows and not only of `flat`: each row of `readers` and `writers` is `Expected`, `exwaits` is
`Wanted` of it, and `flat` is what `buildFlatTables` makes of the three (`DispatchInv`). A loop of `listenPorts` is shown, by induction on the
place in the list, to add the device once per mention of the port until the row is full; a loop of `unListenPorts` with the same list takes
away exactly those, whatever the row's limit had kept out. Adding one device at the end of the list then extends `FlattenSeq` by one
piece (`FlattenAppends`), of which `Fitting` keeps what there is room for. The assumption only says what a section is.

*Floppy.* `ReadsBack` says of the past that no wrong byte was read; `TransferInv` speaks of a driver that has just seen data requested.
The inductive `Inv` of `FloppyProofs` says for every state between two port accesses: what a driver has been told is true
of the registers, wherever the status script is (`Controlled`); while bytes are still to come, `MovingIn` ties the
remaining count, the place in the buffer and the position of the source to the first unit of the very sector the driver named, and the buffer to the unit before or
to the bytes given so far; READ TRACK and READ ADDRESS have such a clause each (`TrackIn`, `AddressIn`), and the stream of a format one that
says which bytes of an ID are still to come (`FormatIn`). `Holds` relates an image to `belief`, on every drive: the headers fit the
table (`Laid`), the units bear what is believed (`Bears`), and the track offset the controller has cached is that of its track unless nothing is
believed any more (`CachedIn`), which is where a failed format and the truncation of later tracks come in. Where a track starts
is a sum over the table (`Start`), and the bytes of a format come from a recursive function, so the lemmas about them go by induction on naturals
(`NatInd`, from the library's `WFMin`): two tracks do not overlap, a change of one table entry moves only later ones, a stream is a
sequence of IDs that are complete. Each port access is then one lemma per branch, and under it one step per conjunct.

*Quick disk.* `OthersSurvive` is about the step that ends a body, but whether the file it costs is the one being saved
is decided long before, when the header went by: the engine takes whatever arrives as the name. So the invariant says where
the save engine stands in the guest's script. A script still to be done has a shape (`Passed`, `Heading`, `Headed`, `Bodied`, `Rewound`,
`CountMark`, `Counting`, `Finished`, and three for a format), stated from its end and by what each port access leaves; `Saving` and `Formatting` are
shown to have the first of them, and every shape to pass into the next one access at a time, whatever the lengths. `SaveFine` and
`FormatFine` pair the shapes with the stages of the engine: after the header block has passed, and only then, `hdr` is the cell of
the very program (`HeadCell(p)`), and a count of 0 arrives only in a format. A guest that gives up switches the motor off, and the
engine is at rest; over a write-protected disk it hears nothing (`Heard`). `Serves` says of the index that each of its files is a
program wherever it still exists, which a file copied or removed over USB in the meantime does not change. `HeadFine` is
`HeadInStep` for images of any size: in the attempt to prove it an image larger than the medium came up, over
which the head stops one past `Limit` and the source before it, so the property speaks of the head up to there and the model of the
byte at `Limit` that reads as 0xff (`qd.cpp:192-195`).

*Sound.* `PsgInStep` folds the queued bytes over the registers. The invariant avoids the fold: there is a sequence of register
files, one per slot, from what the chip holds to what it is owed, each the next after its slot's byte (`Replays`); core 1 extends it
at one end and core 0 drops it at the other. `PlayInv` says which of the two buffers may hold unplayed samples, by the number
of swaps and by where the poll is. The playhead is behind because a scan takes one buffer from its lag and runs at most once per
buffer: `LagInv` says how much lag there is while a scan may still come (`MayScan`) and while none may.

*Byte sources.* Everything turns on `View(s)`: the bytes seen through a source's window, over those of its file. `Good` says that the window is
well formed (it fits the file, or runs round it once; a write-back has something to write), that with nothing to write back the view is
the file, unless an access has failed or the file has proved too short, and that the latter happens on a full medium only (`Roomy`).
Housekeeping is then one notion, `Follows`: a flush, refill or seek leaves the view alone
and, if it empties the window, has put the view into the file or met its end. Each operator of `CachedSource` is shown to stay
within it, for every way the medium may fail and every length the file may have; a read returns a stretch of the view, and a write overlays
one (`Overwritten`). `House` adds what the callers were told: it is the view while the source promises anything, and the file too once
nothing waits or a flush has reported success and the file has not proved short. `Guided` relates the three places the address of an access is kept in: the guest's own, the device's
counter or digit index, and the position of the source, which a seek that fails leaves behind. The assumption `~Overrun`
says that the guest does not run past the last byte of a page, where the code's counter leaves its page (section 4). The refinement
does not need it: a step's effect on the view is the array's, wherever the guest meant to write. `SourceAssumption` and
`DeviceAssumption` say how sources are opened (a ring's window is no larger than its file and a ring does not grow,
RAM is a ring, the paged disk reads without stepping on, a disk is whole pages); they are read off the constructors' callers, and TLC evaluates them in `byte_source`.

Only model-checked:
- every liveness property (`WriteReturns`, `ConnectAnswered`, `EveryJobAnswered`, `CommandEnds`, `RebootCompletes`, `ResetAnswered`,
  `ServedByte`): fairness and `ENABLED` are beyond the prover;
- `MergedInOrder`, `JudgedByItsBanks`: they compare the result of a merge of three streams with a definition, and of the whole scan that
  lies between the two no inductive form has been found that is shorter than the code;
- `SaveVerifies`: what the ROM reads last is the program it saved. It relates all the guest has read so far to the tape, through a
  rewinding and an index built anew in between;
- `ReadsBack`, `Mirrored`, `Survives` of `DirDisk`: not attempted. The commit is two folds over the directory, and `shadow` relates
  what a guest knows of a block to three places at once.

Induction is not out of reach altogether: over naturals it follows from the well-founded minimum of the library, which is stated of sets.
Where a definition is a recursive function or a fold, a lemma about it is stated for the set of naturals for which it holds.

## 7. What is not modelled

*Flash filesystem.* Generations are naturals; the code compares them as signed 32-bit differences (`flash_fs.c:365`),
which is the same below 2^31 syncs. The older `RHE!FS30` map layout; the MZPico format image run on a volume
that still mounts. `flash_fs_create` ignores a failed map program. Pages programmed by a copy-back are not
verified by the code and are assumed good. A remount that fails leaves `flashfs_is_mounted` set. A cut during the very
first format leaves a volume that is neither mountable nor blank; `main.cpp:18-30` formats only a blank one. A USB
host that enumerates again within 250 ms of a write loses what was not synced: above this module.

*Relay.* An open socket whose relay never answers has no timeout (`net_relay.cpp:284`): a CREATE or JOIN may then wait for ever,
also when its own line was lost by `tcp_write`, and only a reset ends it. A frame whose header was written and whose body was not leaves
the stream out of step for good; in the model that line counts as sent and what the relay makes of it is left open. The
pings a relay may send and their answers, lines longer than the buffer, the
lockstep frame window (`storeInput`, `availFrame`, POLL, HASH) and the message queue.

*Cloud and Unicard.* Data bytes, seeking, the clock, drive mounting. `cloud_wifi_request_reconnect` has no caller
and nothing leaves the connected state. A listing cut short is accepted. A Z80 reset does not cancel a transfer: it lands in
the session after it. Rewriting `mzpico.ini` unlinks the old file before it renames the new one; a cut in
between loses it (here one step). An empty answer enters the output phase with a count of zero, which wraps on the
first read (`OutLens` leaves zero out). Chunked and listing parsers.

*Directory as floppy.* Disk geometry and synthesized headers; the DINFO block and the advertised free space; partial
sectors, and blocks of several sectors; the 512-byte window that stores a neighbouring sector again; CP/M users; 8.3 name
collisions; a header or body write that fails in the middle of a commit; staged blocks that cannot be read back; a
half-written directory sector; a power cut while a rename or an erasure of several directory sectors is half done
(it leaves part of the file under each name).

*Byte sources and RAM disks.* The source factory; an image that is resized on a full medium (`resize` does compare the size it got); a read-only file
is as long as it is declared, for the code takes its size from it; how the SRAM source is put together from an MZF file
(`Mzf2SramRamSource::get` and `set` have no caller). A file-backed RAM disk at its end: the seek fails and every further
access is to the last byte (inside the `Overrun` window). A guest of the PicoRD asks for addresses within the disk: a higher one wraps in RAM
and fails as a seek in a file.

*Floppy controller.* The pacing of every third poll, the `0x5a` quirk of a disabled controller, the 0xFF script, the
fix-up of one particular format stream; selecting another drive or mounting one in the middle of a transfer; formatting a directory mount.
What a reader of the code should know, and the model shows or excludes in words: a multiple read that fails with
RECORD NOT FOUND leaves `DATA_COUNTER` and thus a spurious `/INT`; a Type I command on a drive that is not ready leaves
the count; a format given up on a failing medium ends with status 0 and no `/INT` (`Stranded`); formatting a track
in the middle of an image truncates the later ones; the result of an image's flush is ignored (`fdc.cpp:562-564`), and that of a format's last one, if it fails, ends the command with status 0
like one that went well (`fdc.cpp:834`); `Finish` does not tell them apart; READ TRACK
hides errors of the medium behind 0xe5 (`:741`); READ ADDRESS that fails leaves status and count.

*Quick disk.* Interrupt vectors and read registers the ROM does not use, BTX and BSD block types, mounting and write
protection at run time. An image's medium is taken to be sound (`qd.cpp:240-242` ignores it), a directory's fails once per job,
power is cut only on a directory. Known and outside the properties: 127 files and a save make the count 256, which
arrives as 0 and formats; a CRC trailer is left out when the bytes' sum is zero (`qd.cpp:292-301`); the result of
the body's `f_write` is ignored; a save over a program unlinks the old file before it renames the new one, so that a
failing rename loses both; a second save before the count is rewritten leaves two programs of one Sharp name; a format deletes only
the files that are served, against `src/README.md:190`.

*Bus.* The `/INT` line, the frugal board, the memory-snoop machine, boot before core 1 can be locked out, flushes of
disabled devices. Stopping and restarting the two machines is one step, and so is popping two words of a write. Excluded: a Z80 that leaves reset
before the soft reset was answered (stale pins may then serve a later cycle, and captures during the flush are
dropped); a soft reset under continuous I/O, which waits for a gap. Port lists of the wrong length halt the whole
boot; a third listener on a port is dropped without a word. Every listener is taken to have a handler: a device that leaves a row of its port list without
one (`ctc.cpp:25-31`) takes a place there that serves nothing (`mz_devices.cpp:136-143`, `:182-199`), and as the first of two it leaves the reader without a
byte. Nothing is enabled, disabled or remapped after the boot: the code never calls for it.

*Sound.* Tone and noise generation, mixing, the interrupt delayed by a lockout. Known and left outside: `start_audio`
leaves `ready[0]` set, so buffer 0 is played twice, and `PlaysInOrder` counts from the third swap (its clause about samples
that wait to be played from the fourth, `SettledAt`); a swap between the two
tests of the poll loop fills a buffer without `processWrites` (the playhead loses a buffer, against `pit8253_tone.hpp:23-26`); an
overflow of the bank log (32) is not detected; a full PSG queue (63) tears a latch from its data byte (`sn76489.cpp:110`); a full
timeline applies a write at once, out of order; the claim of `ctc.cpp:366-370` about ageing fails when the lag exceeds
about 2.7 buffers; a reset pulse shorter than a scan drops bank events of the new session; a lapped ring replays slots.

*Not planned*: configuration parsing at boot (sequential, no state), the REST server (its handler is never
installed), PIO timing (nanoseconds), embedded images (data).

## 8. Plan

1. `Lockstep`: frames, base and hash of `unicard_net.cpp` for two peers over an ordered relay; ring of 4 instead of 128.
   Abstract specification: both peers see one sequence of input pairs. Windows: a SEND that fails half way and is retried with
   another input (`unicard_net.cpp:254`), a POLL far behind (`:264`).
2. The `mzpico.ini` rewrite split at FatFs calls, composed with power cuts; partial failures of a commit in `DirDisk`;
   the message queue of the relay.
3. Proofs, each after its invariant has been strengthened and checked: `SaveVerifies` over a sound directory, from the shapes of
   `QuickDiskProofs`; `Mirrored` for CP/M without renames.
4. `MergedInOrder` and `JudgedByItsBanks` with the merge written as a function instead of a fold.
