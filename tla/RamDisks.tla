------------------------------ MODULE RamDisks -------------------------------
(***************************************************************************)
(* The devices that show the Z80 a byte source through a few ports: the    *)
(* paged RAM disk (ramdisk, MZ-1R18 style), the PicoRD RAM disk and the    *)
(* SRAM boot card, on a file behind its cache or on RAM.  The guest        *)
(* addresses the first by a page and a position in it, the second by a     *)
(* number it hands over digit by digit, the third in sequence.             *)
(*                                                                         *)
(* A page has Base bytes here and an address two digits of base Base: for  *)
(* the code's 64 KB page and its two or three bytes of address.            *)
(***************************************************************************)
EXTENDS CachedSource

CONSTANTS Base,
          Probe,      \* the byte the monitor looks for a boot card with, 0xa5
          Overrun     \* the guest goes on after the last byte of a page

ASSUME DeviceAssumption ==
    /\ Base \in Nat \ {0, 1} /\ Overrun \in BOOLEAN
    /\ \A m \in Modes :
          /\ m.dev \in {"image", "ramdisk", "pico", "sram"}
          /\ m.ram \in BOOLEAN /\ (m.ram => m.wrap /\ m.dev # "image")
          /\ m.dev = "ramdisk" => ~m.inc
          /\ m.dev \in {"pico", "sram"} => m.inc /\ m.wrap
          /\ m.dev # "image" => m.size % Base = 0 /\ m.size <= Base * Base

VARIABLES
    reg,     \* the device's registers
    guest,   \* history: the address the guest has asked for, whether it has
             \* gone past the end of a page, and the digits it has handed over
    wrong    \* history: a read gave something else than was written there

dvars == <<mode, src, call, told, synced, reg, guest, wrong>>

\* ctr is RamDisk::pos_, idx PicoRD::addr_idx, first SRamDisk::firstByte.
Registers == [ctr |-> 0, idx |-> 0, first |-> FALSE]

Afresh == [at |-> 0, past |-> FALSE, digits |-> 0]
AtAddress(a) == [Afresh EXCEPT !.at = a]

DInit == Init /\ reg = Registers /\ guest = Afresh /\ wrong = FALSE

Is(dev) == Free /\ mode.dev = dev

-----------------------------------------------------------------------------
(* RamSource: the same calls on an array in RAM, which is always a ring    *)

SourceSeek(s, p) ==
    IF mode.ram THEN {Done([s EXCEPT !.pos = p % s.size])} ELSE SeekTo(s, p)
SourceGet(s) ==
    IF mode.ram THEN {Advance([Done(s) EXCEPT !.out = <<s.file[s.pos]>>], 1)}
    ELSE Take(s, 1)
SourcePut(s, b) ==
    IF mode.ram THEN {Advance([Done(s) EXCEPT !.file[s.pos] = b], 1)}
    ELSE Put(s, <<b>>)
SourceNext(s) ==
    IF mode.ram THEN {Done([s EXCEPT !.pos = (s.pos + 1) % s.size])} ELSE Skip(s)

-----------------------------------------------------------------------------
(* What an access does to the histories                                    *)

LostIn(s) == s.dead \/ s.short \/ (mode.ro /\ s.dirty)
Lost == LostIn(src)

\* A read is judged while the source promises something.
Judge == wrong' = (wrong \/ (~LostIn(src') /\ src'.ok /\ src'.out # <<told[guest.at]>>))

Written(b) ==
    /\ told' = IF src'.ok THEN [told EXCEPT ![guest.at] = b] ELSE told
    /\ synced' = (synced /\ ~src'.ok)

Unwritten == UNCHANGED <<told, synced>>

-----------------------------------------------------------------------------
(* RamDisk.  The card's position runs round its page; the code's counter   *)
(* carries into the next one.                                              *)

OnPage == Overrun \/ ~guest.past

PageOf(a) == a - (a % Base)
NextOnPage(a) == PageOf(a) + ((a + 1) % Base)

Count == /\ reg' = [reg EXCEPT !.ctr = @ + 1]
         /\ guest' = [guest EXCEPT !.at = NextOnPage(@), !.past = (@ \/ NextOnPage(guest.at) < guest.at)]

CountBound == reg.ctr <= MaxSize

DiskRead == /\ Is("ramdisk") /\ OnPage /\ CountBound
            /\ \E t \in SourceSeek(src, reg.ctr) : src' \in SourceGet(t)
            /\ Count /\ Judge /\ Unwritten
            /\ UNCHANGED <<mode, call>>

DiskWrite(b) == /\ Is("ramdisk") /\ OnPage /\ CountBound
                /\ \E t \in SourceSeek(src, reg.ctr) :
                     IF mode.readOnly THEN src' = t /\ Unwritten
                     ELSE src' \in SourcePut(t, b) /\ Written(b)
                /\ Count
                /\ UNCHANGED <<mode, call, wrong>>

DiskPage(d) == /\ Is("ramdisk")
               /\ reg' = [reg EXCEPT !.ctr = PageOf((d * Base) % src.size) + (@ % Base)]
               /\ guest' = AtAddress(PageOf((d * Base) % src.size) + (guest.at % Base))
               /\ Unwritten
               /\ UNCHANGED <<mode, src, call, wrong>>

DiskAddress(low) == /\ Is("ramdisk") /\ OnPage
                    /\ reg' = [reg EXCEPT !.ctr = PageOf(@) + low]
                    /\ guest' = AtAddress(PageOf(guest.at) + low)
                    /\ Unwritten
                    /\ UNCHANGED <<mode, src, call, wrong>>

\* The counter port and RamDisk::softReset.
DiskReset == /\ Is("ramdisk")
             /\ reg' = [reg EXCEPT !.ctr = 0]
             /\ guest' = Afresh
             /\ Unwritten
             /\ UNCHANGED <<mode, src, call, wrong>>

-----------------------------------------------------------------------------
(* PicoRD                                                                  *)

\* The weight of digit i, 0 or 1.
Weight(i) == IF i = 0 THEN 1 ELSE Base
Digit(a, i) == (a \div Weight(i)) % Base
WithDigit(a, i, d) == a - Digit(a, i) * Weight(i) + d * Weight(i)

\* An access abandons an address half handed over: it goes on from where the
\* source stands.
Asked == IF guest.digits = 0 THEN guest.at ELSE src.pos

PicoControl == /\ Is("pico")
               /\ src' \in SourceSeek(src, 0)
               /\ reg' = [reg EXCEPT !.idx = 0]
               /\ guest' = Afresh
               /\ Unwritten
               /\ UNCHANGED <<mode, call, wrong>>

\* Mutant: the address goes on with its next digit after an access.
PicoReadKeepsIdx == /\ Is("pico")
                    /\ src' \in SourceGet(src)
                    /\ guest' = AtAddress((Asked + 1) % src.size)
                    /\ wrong' = (wrong \/ (~LostIn(src') /\ src'.ok /\ src'.out # <<told[Asked]>>))
                    /\ Unwritten
                    /\ UNCHANGED <<mode, call, reg>>

PicoRead == /\ Is("pico")
            /\ src' \in SourceGet(src)
            /\ reg' = [reg EXCEPT !.idx = 0]
            /\ guest' = AtAddress((Asked + 1) % src.size)
            /\ wrong' = (wrong \/ (~LostIn(src') /\ src'.ok /\ src'.out # <<told[Asked]>>))
            /\ Unwritten
            /\ UNCHANGED <<mode, call>>

PicoWrite(b) ==
    /\ Is("pico")
    /\ IF mode.readOnly THEN src' \in SourceNext(src) /\ Unwritten
       ELSE /\ src' \in SourcePut(src, b)
            /\ told' = IF src'.ok THEN [told EXCEPT ![Asked] = b] ELSE told
            /\ synced' = (synced /\ ~src'.ok)
    /\ reg' = [reg EXCEPT !.idx = 0]
    /\ guest' = AtAddress((Asked + 1) % src.size)
    /\ UNCHANGED <<mode, call, wrong>>

\* writeAddr0, writeAddr1, writeAddr2, within the disk.
PicoAddr(i, d) == /\ Is("pico")
                  /\ WithDigit(Asked, i, d) < src.size
                  /\ src' \in SourceSeek(src, WithDigit(src.pos, i, d))
                  /\ reg' = [reg EXCEPT !.idx = 0]
                  /\ guest' = AtAddress(WithDigit(Asked, i, d))
                  /\ Unwritten
                  /\ UNCHANGED <<mode, call, wrong>>

\* writeAddrs: the guest hands over the digits of the address it wants.
PicoAddrs(a) == /\ Is("pico")
                /\ a = guest.at \/ guest.digits = 0
                /\ src' \in SourceSeek(src, WithDigit(src.pos, reg.idx, Digit(a, guest.digits)))
                /\ reg' = [reg EXCEPT !.idx = (@ + 1) % 2]
                /\ guest' = [AtAddress(a) EXCEPT !.digits = (guest.digits + 1) % 2]
                /\ Unwritten
                /\ UNCHANGED <<mode, call, wrong>>

\* readAddr0, readAddr1, readAddr2: a digit of where the source stands, which
\* also begins a new address.
PicoPeek(i) == /\ Is("pico")
               /\ reg' = [reg EXCEPT !.idx = 0]
               /\ guest' = AtAddress(Asked)
               /\ wrong' = (wrong \/ (~Lost /\ Digit(src.pos, i) # Digit(Asked, i)))
               /\ Unwritten
               /\ UNCHANGED <<mode, src, call>>

PicoAddri(d) ==
    LET sum == src.pos + d
    IN  /\ Is("pico") /\ guest.digits = 0
        /\ src' \in SourceSeek(src, IF sum >= src.size THEN sum - src.size ELSE sum)
        /\ guest' = AtAddress((guest.at + d) % src.size)
        /\ Unwritten
        /\ UNCHANGED <<mode, call, wrong, reg>>

-----------------------------------------------------------------------------
(* SRamDisk.  A read-only card remembers the byte the monitor probes it    *)
(* with; a writable one that must not boot refuses the probe.              *)

BootReset == /\ Is("sram")
             /\ src' \in SourceSeek(src, 0)
             /\ guest' = Afresh
             /\ Unwritten
             /\ UNCHANGED <<mode, call, wrong, reg>>

\* SRamDisk::softReset.
BootRestart == /\ Is("sram")
               /\ src' \in SourceSeek(src, 0)
               /\ reg' = [reg EXCEPT !.first = FALSE]
               /\ guest' = Afresh
               /\ Unwritten
               /\ UNCHANGED <<mode, call, wrong>>

Forward == guest' = AtAddress((guest.at + 1) % src.size)

BootWrite(b) ==
    /\ Is("sram")
    /\ IF mode.readOnly
       THEN /\ reg' = [reg EXCEPT !.first = @ \/ (mode.allowBoot /\ src.pos = 0)]
            /\ src' \in SourceNext(src)
            /\ Forward /\ Unwritten
       ELSE IF src.pos = 0 /\ ~mode.allowBoot /\ b = Probe
       THEN UNCHANGED <<src, reg, guest>> /\ Unwritten
       ELSE /\ src' \in SourcePut(src, b)
            /\ Forward /\ Written(b)
            /\ UNCHANGED reg
    /\ UNCHANGED <<mode, call, wrong>>

\* The remembered byte is answered in the place of the first one.
BootRead ==
    /\ Is("sram")
    /\ IF reg.first /\ src.pos = 0
       THEN src' \in SourceNext(src) /\ UNCHANGED wrong
       ELSE src' \in SourceGet(src) /\ Judge
    /\ Forward /\ Unwritten
    /\ UNCHANGED <<mode, call, reg>>

-----------------------------------------------------------------------------
Guest ==
    \/ DiskRead \/ (\E b \in Byte : DiskWrite(b))
    \/ (\E d \in 0 .. Base : DiskPage(d))
    \/ (\E low \in 0 .. Base - 1 : DiskAddress(low)) \/ DiskReset
    \/ PicoControl \/ PicoRead \/ (\E b \in Byte : PicoWrite(b))
    \/ (\E i \in {0, 1}, d \in 0 .. Base - 1 : PicoAddr(i, d))
    \/ (\E a \in 0 .. src.size - 1 : PicoAddrs(a))
    \/ (\E d \in 0 .. Base - 1 : PicoAddri(d))
    \/ (\E i \in {0, 1} : PicoPeek(i))
    \/ BootReset \/ BootRestart \/ (\E b \in Byte : BootWrite(b)) \/ BootRead

\* The flush of all devices, and the boards' restart, come to every device.
Common == \/ mode.dev = "image" /\ AnyCall /\ UNCHANGED <<reg, guest, wrong>>
          \/ mode.dev # "image" /\ ~mode.ram /\ (FlushAll \/ Close)
             /\ UNCHANGED <<reg, guest, wrong>>
          \/ mode.dev # "image" /\ Open /\ reg' = Registers /\ guest' = Afresh /\ UNCHANGED wrong

DNext == Guest \/ Common
DSpec == DInit /\ [][DNext]_dvars

-----------------------------------------------------------------------------
(* The properties                                                          *)

\* The bytes seen through the window, over those of the file.
Seen == [p \in Positions |->
            IF \E k \in DOMAIN src.bytes : At(src, k) = p
            THEN src.bytes[CHOOSE k \in DOMAIN src.bytes : At(src, k) = p]
            ELSE src.file[p]]

Bytes == INSTANCE ByteArray WITH
    Contents <- Byte, arr <- Seen, size <- src.size, pos <- src.pos,
    out <- src.out, wrap <- mode.wrap, inc <- mode.inc, lost <- Lost

\* Every call is one the array of bytes allows, whatever the window does
\* meanwhile: a write is read back, nothing else changes, and the position
\* goes where it should (cached_source.cpp, ram_source.cpp).
ImplementsByteArray == Bytes!Spec

\* When flush() has reported success, every byte the callers have written
\* since the file was opened is in it, whatever has failed before: a window
\* given up without being written keeps flush() from reporting success
\* (cached_source.cpp:33-60, :74).  It deceives on a full medium only, once the
\* file has proved too short: nobody compares the number of bytes that f_write
\* wrote with FR_OK (file_source.cpp:177-179, cached_source.cpp:46), and a read
\* that finds nothing leaves the PicoRD elsewhere than its guest believes.
FlushTellsTruth ==
    synced /\ (mode.tight => ~src.short) =>
        \A p \in Positions : p < src.size => src.file[p] = told[p]

\* A byte read through the ports is the one last written at the address the
\* guest has put together, or counted to, and that address is the one read back
\* (ramdisk.cpp, pico_rd.cpp, sramdisk.cpp).
GuestReadsBack == ~wrong
=============================================================================
