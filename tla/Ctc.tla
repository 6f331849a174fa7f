-------------------------------- MODULE Ctc ---------------------------------
(* The 8253 beeper (ctc.cpp, mem_snoop.cpp, pit8253_tone.hpp).  Three        *)
(* time-stamped streams meet on core 0: port writes (ioq) and bank switches  *)
(* (bankLog), which core 1 records, and the memory writes the snoop DMA puts *)
(* in a ring.  processWrites, once per audio buffer, merges them by time,    *)
(* judges every memory write by the banks of its moment and schedules what   *)
(* reaches the chip on the samples of the buffer to come.                    *)
(*                                                                           *)
(* A time stamp is kept as its age in samples, which every sample makes one  *)
(* older; ages from Old on are one.  The playhead is kept as its lag behind  *)
(* the present.                                                              *)
EXTENDS I2SAudio, Integers, FiniteSetsExt, SequencesExt

CONSTANTS
    Old,            \* bound on ages and on the lag
    RingWords,      \* MEM_SNOOP_RING_WORDS
    FloodAt,        \* pending memory writes that make a flood (768 of 2048)
    IoqSize,        \* IOQ_SIZE
    TimelineSize,   \* ToneTimeline::QUEUE_SIZE
    AgeOut          \* 5000 us, in whole samples

ASSUME CtcAssumption ==
    /\ Old \in Nat /\ 3 * Frames <= Old /\ RingWords \in Nat /\ RingWords >= 4
    /\ FloodAt <= RingWords \div 2 /\ IoqSize > 0 /\ TimelineSize > 0

VARIABLES
    banks,          \* the mapper and mode as the machine has them (not in the firmware)
    ioq, bankLog,   \* pending entries, oldest first
    ring, ringHead, \* event_ring with ts_ring; the DMA's position
    bankReset,      \* bankResetPending
    captured,       \* something was captured at this sample
    known,          \* the consumer's banks and the chip's inputs
    cursor,         \* [valid, at], cursorValid and cursor
    lastMem,        \* age of lastMemTs
    playhead,       \* [set, lag], ToneTimeline::inited and playheadTs
    timeline,       \* scheduled writes, [off, write]
    sample,         \* the sample the timeline is at
    scan,           \* processWrites' own place
    lastTaken,      \* age of the last write merged in its turn
    lastAged        \* age of the youngest switch that was applied for its age

captureVars == <<banks, ioq, bankLog, ring, ringHead, bankReset, captured>>
toneVars == <<known, timeline, sample>>
scanVars == <<cursor, lastMem, playhead, scan, lastTaken, lastAged>>
ctcVars == <<captureVars, toneVars, scanVars>>

NoEvent == [age |-> 0, write |-> "none", open |-> "no"]
Out == [at |-> "off", io |-> 0, bank |-> 0, mem |-> 0, now |-> 0, flood |-> FALSE]
PowerOnBanks == [mapped |-> TRUE, locked |-> FALSE, m700 |-> TRUE]

Aged(a) == IF a < Old THEN a + 1 ELSE a

CtcInit ==
    /\ banks = PowerOnBanks
    /\ ioq = <<>>
    /\ bankLog = <<>>
    /\ ring = [i \in 0..RingWords - 1 |-> NoEvent]
    /\ ringHead = 0
    /\ bankReset = FALSE
    /\ captured = FALSE
    /\ known = [mapped |-> TRUE, locked |-> FALSE, m700 |-> TRUE,
                latch |-> FALSE, gate |-> FALSE, mask |-> TRUE]
    /\ cursor = [valid |-> FALSE, at |-> 0]
    /\ lastMem = 0
    /\ playhead = [set |-> FALSE, lag |-> 0]
    /\ timeline = <<>>
    /\ sample = 0
    /\ scan = Out
    /\ lastTaken = Old
    /\ lastAged = Old

-----------------------------------------------------------------------------
(* Banks.  E1 puts RAM over the peripherals, E3 and E4 map them back, E5 and *)
(* E6 lock and unlock; "700" and "800" are the two modes of the GDG's 0xCE.  *)

SnoopActive(b) == b.m700 /\ b.mapped /\ ~b.locked

Switched(b, port) ==
    CASE port = "E1" -> [b EXCEPT !.mapped = FALSE]
      [] port = "E3" -> [b EXCEPT !.mapped = TRUE, !.locked = FALSE]
      [] port = "E5" -> [b EXCEPT !.locked = TRUE]
      [] port = "E6" -> [b EXCEPT !.locked = FALSE]
      [] port = "700" -> [b EXCEPT !.m700 = TRUE]
      [] port = "800" -> [b EXCEPT !.m700 = FALSE]

(* applyBankEvent: a change of mode drives GATE0 from the latch or opens it. *)
ApplyBankEvent(k, e) ==
    LET s == Switched(k, e.port)
    IN  IF s.m700 = k.m700 THEN s ELSE [s EXCEPT !.gate = s.m700 => s.latch]
ApplyBanks(k, events) == FoldLeft(ApplyBankEvent, k, events)

(* applyWrite: the E008 latch is the gate, the 8255 mask is its own line.    *)
ApplyWrite(k, w) ==
    CASE w = "on" -> [k EXCEPT !.latch = TRUE, !.gate = TRUE]
      [] w = "off" -> [k EXCEPT !.latch = FALSE, !.gate = FALSE]
      [] w = "open" -> [k EXCEPT !.mask = TRUE]
      [] w = "shut" -> [k EXCEPT !.mask = FALSE]

-----------------------------------------------------------------------------
(* Capture: one access of the guest per sample at most, so that the stamps   *)
(* of two are not equal; a burst of memory writes is one access.             *)

Captures == ~captured /\ captured' = TRUE

WritePort(w) ==
    /\ Captures
    /\ ioq' = IF Len(ioq) < IoqSize THEN Append(ioq, [age |-> 0, write |-> w]) ELSE ioq
    /\ UNCHANGED <<banks, bankLog, ring, ringHead, bankReset>>

WriteBankPort(port) ==
    /\ Captures
    /\ bankLog' = Append(bankLog, [age |-> 0, port |-> port])
    /\ banks' = Switched(banks, port)
    /\ UNCHANGED <<ioq, ring, ringHead, bankReset>>

(* The DMA never waits: a full ring is overwritten.                          *)
MemWrites(burst) ==
    LET open == IF SnoopActive(banks) THEN "yes" ELSE "no"
        nth(i) == ((i - ringHead) % RingWords) + 1   \* which word of the burst gets place i
    IN  /\ Captures
        /\ ring' = [i \in DOMAIN ring |->
                      IF nth(i) > Len(burst) THEN ring[i]
                      ELSE [age |-> 0, write |-> burst[nth(i)], open |-> open]]
        /\ ringHead' = (ringHead + Len(burst)) % RingWords
        /\ UNCHANGED <<banks, ioq, bankLog, bankReset>>

(* softReset while the Z80 is held: the machine's banks are back at power-on *)
(* and what was captured before belongs to a session that is over.           *)
SoftReset ==
    /\ scan.at # "cursor"   \* the flag is read within a microsecond of the log's head
    /\ bankReset' = TRUE
    /\ banks' = PowerOnBanks
    /\ ring' = [i \in DOMAIN ring |-> [ring[i] EXCEPT !.open = "dead"]]
    /\ UNCHANGED <<ioq, bankLog, ringHead, captured>>

(* With nothing pending, what comes is younger than every earlier write.     *)
Quiet == scan.at = "off" /\ ioq = <<>> /\ cursor.at = ringHead

CtcAges ==
    /\ scan.at = "off"   \* a scan takes less than a sample
    /\ captured' = FALSE
    /\ ring' = [i \in DOMAIN ring |->      \* what is read and cannot be read again is forgotten
                  IF cursor.at = ringHead \/ ring[i] = NoEvent THEN NoEvent
                  ELSE [ring[i] EXCEPT !.age = Aged(@)]]
    /\ ioq' = [i \in DOMAIN ioq |-> [ioq[i] EXCEPT !.age = Aged(@)]]
    /\ bankLog' = [i \in DOMAIN bankLog |-> [bankLog[i] EXCEPT !.age = Aged(@)]]
    /\ playhead' = IF playhead.set THEN [playhead EXCEPT !.lag = Aged(@)] ELSE playhead
    /\ lastMem' = IF Quiet THEN Old ELSE Aged(lastMem)
    /\ lastTaken' = IF Quiet THEN Old ELSE Aged(lastTaken)
    /\ lastAged' = IF Quiet THEN Old ELSE Aged(lastAged)
    /\ UNCHANGED <<banks, ringHead, bankReset, toneVars, cursor, scan>>

-----------------------------------------------------------------------------
(* processWrites.                                                            *)

Place(i) == i % RingWords

ScanHeads ==
    /\ scan.at = "off"
    /\ scan' = [Out EXCEPT !.at = "cursor", !.io = Len(ioq), !.bank = Len(bankLog)]
    /\ UNCHANGED <<captureVars, toneVars, cursor, lastMem, playhead, lastTaken, lastAged>>

(* mem_snoop_cursor and time_us_32, then the reset core 1 has raised.        *)
ScanCursor ==
    /\ scan.at = "cursor"
    /\ scan' = [scan EXCEPT !.at = IF cursor.valid THEN "guards" ELSE "first", !.now = ringHead,
                            !.bank = IF bankReset THEN 0 ELSE @]
    /\ bankReset' = FALSE
    /\ IF bankReset
       THEN /\ known' = [known EXCEPT !.mapped = TRUE, !.locked = FALSE, !.m700 = TRUE,
                                      !.latch = FALSE, !.gate = FALSE]
            /\ bankLog' = SubSeq(bankLog, scan.bank + 1, Len(bankLog))
       ELSE UNCHANGED <<known, bankLog>>
    /\ UNCHANGED <<banks, ioq, ring, ringHead, captured, timeline, sample,
                   cursor, lastMem, playhead, lastTaken, lastAged>>

(* The first scan skips the ring and takes the switches over.                *)
ScanFirst ==
    /\ scan.at = "first"
    /\ cursor' = [valid |-> TRUE, at |-> scan.now]
    /\ lastMem' = 0
    /\ known' = ApplyBanks(known, SubSeq(bankLog, 1, scan.bank))
    /\ bankLog' = SubSeq(bankLog, scan.bank + 1, Len(bankLog))
    /\ scan' = [Out EXCEPT !.at = "end"]
    /\ UNCHANGED <<banks, ioq, ring, ringHead, bankReset, captured, timeline, sample,
                   playhead, lastTaken, lastAged>>

(* Lost-sync guard, half-ring guard and beginBuffer.                         *)
Pending ==
    LET n == (scan.now - cursor.at) % RingWords
    IN  IF n > 0 /\ ring[cursor.at].age > lastMem THEN [at |-> scan.now, n |-> 0]
        ELSE IF n > RingWords \div 2
        THEN [at |-> Place(scan.now - RingWords \div 4), n |-> RingWords \div 4]
        ELSE [at |-> cursor.at, n |-> n]

NewestAges(p) == {ioq[i].age : i \in {scan.io} \ {0}}
                 \cup {ring[Place(p.at + n - 1)].age : n \in {p.n} \ {0}}

(* Mutant: the playhead is set one buffer behind the newest write.           *)
OneBufferBehind(ages) ==
    LET newest == Min(ages)
        lag == playhead.lag - Frames
        back == [set |-> TRUE, lag |-> newest + Frames]
    IN  IF ~playhead.set THEN IF ages = {} THEN playhead ELSE back
        ELSE IF ages # {} /\ lag - newest > 4 * Frames THEN back
        ELSE [playhead EXCEPT !.lag = lag]

(* The playhead moves on by one buffer and is set back to two buffers behind *)
(* the newest write when it has fallen more than four behind it.             *)
BeginBuffer(ages) ==
    LET newest == Min(ages)
        lag == playhead.lag - Frames
        back == [set |-> TRUE, lag |-> newest + 2 * Frames]
    IN  IF ~playhead.set THEN IF ages = {} THEN playhead ELSE back
        ELSE IF ages # {} /\ lag - newest > 4 * Frames THEN back
        ELSE [playhead EXCEPT !.lag = lag]

ScanGuards ==
    LET p == Pending
    IN  /\ scan.at = "guards"
        /\ cursor' = [cursor EXCEPT !.at = p.at]
        /\ playhead' = BeginBuffer(NewestAges(p))
        /\ timeline' = <<>>
        /\ sample' = 0
        /\ scan' = [scan EXCEPT !.at = "merge", !.mem = p.n, !.flood = p.n >= FloodAt]
        /\ UNCHANGED <<captureVars, known, lastMem, lastTaken, lastAged>>

(* The write the merge looks at, and whether the buffer's window has it.     *)
Oldest == ring[cursor.at]
HasMem == scan.mem > 0
HasIo == scan.io > 0
Torn == HasMem /\ Oldest.age > lastMem
MemAlways == HasMem   \* Mutant: the ring before the ports
MemFirst == HasMem /\ (HasIo => Oldest.age >= ioq[1].age)
HeadAge == IF MemFirst THEN Oldest.age ELSE ioq[1].age
Accepts(age) == playhead.set /\ age > playhead.lag - Frames
Offset(age) == Max({0, Min({playhead.lag - age, Frames - 1})})

(* push, or at a full timeline the write at once.                            *)
Push(k, age, w) ==
    IF Len(timeline) < TimelineSize
    THEN /\ timeline' = Append(timeline, [off |-> Offset(age), write |-> w])
         /\ known' = k
    ELSE /\ known' = ApplyWrite(k, w)
         /\ UNCHANGED timeline

ScanTorn ==
    /\ scan.at = "merge"
    /\ Torn
    /\ cursor' = [cursor EXCEPT !.at = scan.now]
    /\ scan' = [scan EXCEPT !.mem = 0]
    /\ UNCHANGED <<captureVars, toneVars, lastMem, playhead, lastTaken, lastAged>>

(* How many of the pending switches were made at or before a stamp.          *)
EverySwitch(age) == scan.bank   \* Mutant: without regard to the stamps
SwitchesUntil(age) ==
    Cardinality({i \in 1..scan.bank : \A j \in 1..i : bankLog[j].age >= age})

TakeMem ==
    LET e == Oldest
        n == SwitchesUntil(e.age)
        k == ApplyBanks(known, SubSeq(bankLog, 1, n))
    IN  /\ scan.at = "merge"
        /\ ~Torn
        /\ HasMem
        /\ (MemFirst /\ Accepts(e.age)) \/ (scan.flood /\ ~Accepts(HeadAge))
        /\ bankLog' = SubSeq(bankLog, n + 1, Len(bankLog))
        /\ cursor' = [cursor EXCEPT !.at = Place(@ + 1)]
        /\ scan' = [scan EXCEPT !.mem = @ - 1, !.bank = @ - n]
        /\ lastMem' = e.age
        /\ lastTaken' = IF MemFirst /\ Accepts(e.age) THEN e.age ELSE lastTaken
        /\ IF e.write # "other" /\ SnoopActive(k)
           THEN Push(k, e.age, e.write)
           ELSE known' = k /\ UNCHANGED timeline
        /\ UNCHANGED <<banks, ioq, ring, ringHead, bankReset, captured, sample, playhead, lastAged>>

TakeIo ==
    /\ scan.at = "merge"
    /\ ~Torn
    /\ HasIo
    /\ ~MemFirst
    /\ Accepts(ioq[1].age)
    /\ Push(known, ioq[1].age, ioq[1].write)
    /\ ioq' = Tail(ioq)
    /\ scan' = [scan EXCEPT !.io = @ - 1]
    /\ lastTaken' = ioq[1].age
    /\ UNCHANGED <<banks, bankLog, ring, ringHead, bankReset, captured, sample,
                   cursor, lastMem, playhead, lastAged>>

(* Nothing is left, or what is left belongs to later buffers: the switches   *)
(* older than 5 ms are applied and the scan ends.                            *)
AgedOut(n) == n <= scan.bank /\ \A i \in 1..n : bankLog[i].age > AgeOut
ScanEnds ==
    LET n == Max({i \in 0..scan.bank : AgedOut(i)})
    IN  /\ scan.at = "merge"
        /\ ~Torn
        /\ \/ ~HasMem /\ ~HasIo
           \/ /\ HasMem \/ HasIo
              /\ ~Accepts(HeadAge)
              /\ scan.flood => ~HasMem
        /\ known' = ApplyBanks(known, SubSeq(bankLog, 1, n))
        /\ bankLog' = SubSeq(bankLog, n + 1, Len(bankLog))
        /\ lastAged' = IF n > 0 THEN bankLog[n].age ELSE lastAged
        /\ scan' = [Out EXCEPT !.at = "end"]
        /\ UNCHANGED <<banks, ioq, ring, ringHead, bankReset, captured, timeline, sample,
                       cursor, lastMem, playhead, lastTaken>>

ScanReturns ==
    /\ scan.at = "end"
    /\ scan' = Out
    /\ UNCHANGED <<captureVars, toneVars, cursor, lastMem, playhead, lastTaken, lastAged>>

ScanStep ==
    ScanHeads \/ ScanCursor \/ ScanFirst \/ ScanGuards \/ ScanTorn \/ TakeMem \/ TakeIo \/ ScanEnds

(* renderSample: the writes due at this sample, in the order they were       *)
(* scheduled.                                                                *)
ApplyDue ==
    LET n == Max({i \in 0..Len(timeline) : \A j \in 1..i : timeline[j].off <= sample})
        Apply(k, e) == ApplyWrite(k, e.write)
    IN  /\ known' = FoldLeft(Apply, known, SubSeq(timeline, 1, n))
        /\ timeline' = SubSeq(timeline, n + 1, Len(timeline))
        /\ sample' = IF sample < Frames THEN sample + 1 ELSE sample
        /\ UNCHANGED <<captureVars, scanVars>>
=============================================================================
