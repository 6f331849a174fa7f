-------------------------------- MODULE Psg ---------------------------------
(* The SN76489 (sn76489.cpp): core 1 queues the guest's bytes, core 0 writes *)
(* them to the chip's registers before it renders a buffer.                  *)
EXTENDS Naturals

CONSTANTS QueueSize   \* WRITE_QUEUE_SIZE; one slot always stays empty

ASSUME PsgAssumption == QueueSize \in Nat \ {0, 1}

VARIABLES
    queue, head, tail,   \* writeQueue, writeQueueHead (core 1), writeQueueTail (core 0)
    putting,             \* writeData has stored a byte and not published the head
    taking,              \* processWrites' own [on, tail, head]
    regs,                \* the chip's registers
    owed                 \* the registers once every byte queued so far is applied

psgVars == <<queue, head, tail, putting, taking, regs, owed>>

Tones == {0}             \* of the three alike tone channels
Noise == 3
Byte(latch, ch, vol, value) == [latch |-> latch, ch |-> ch, vol |-> vol, value |-> value]
NoByte == Byte(FALSE, 0, FALSE, 0)

PowerOnRegs == [latched |-> 0, isVolume |-> FALSE,
                volume |-> [c \in Tones \cup {Noise} |-> 15],
                low |-> [c \in Tones |-> 0], high |-> [c \in Tones |-> 0], noise |-> 0]

(* writeRegister: a latch byte selects and sets, a data byte completes the   *)
(* tone that is latched.                                                     *)
Written(r, b) ==
    IF b.latch
    THEN LET l == [r EXCEPT !.latched = b.ch, !.isVolume = b.vol]
         IN  IF b.vol THEN [l EXCEPT !.volume[b.ch] = b.value]
             ELSE IF b.ch \in Tones THEN [l EXCEPT !.low[b.ch] = b.value]
             ELSE [l EXCEPT !.noise = b.value]
    ELSE IF ~r.isVolume /\ r.latched \in Tones THEN [r EXCEPT !.high[r.latched] = b.value]
    ELSE r

PsgInit ==
    /\ queue = [i \in 0..QueueSize - 1 |-> NoByte]
    /\ head = 0
    /\ tail = 0
    /\ putting = FALSE
    /\ taking = [on |-> FALSE, tail |-> 0, head |-> 0]
    /\ regs = PowerOnRegs
    /\ owed = PowerOnRegs

After(i) == (i + 1) % QueueSize

(* Mutant: the byte is stored whether or not there is room.                  *)
WriteDataUnchecked(b) ==
    /\ ~putting
    /\ queue' = [queue EXCEPT ![head] = b]
    /\ putting' = TRUE
    /\ owed' = Written(owed, b)
    /\ UNCHANGED <<head, tail, taking, regs>>

(* writeData: a byte that finds the queue full is dropped.                   *)
WriteData(b) ==
    /\ ~putting
    /\ IF After(head) # tail
       THEN /\ queue' = [queue EXCEPT ![head] = b]
            /\ putting' = TRUE
            /\ owed' = Written(owed, b)
       ELSE UNCHANGED <<queue, putting, owed>>
    /\ UNCHANGED <<head, tail, taking, regs>>

PublishHead ==
    /\ putting
    /\ head' = After(head)
    /\ putting' = FALSE
    /\ UNCHANGED <<queue, tail, taking, regs, owed>>

(* processWrites: head and tail are read once, the tail is published last.   *)
TakeStart ==
    /\ ~taking.on
    /\ taking' = [on |-> TRUE, tail |-> tail, head |-> head]
    /\ UNCHANGED <<queue, head, tail, putting, regs, owed>>

TakeByte ==
    /\ taking.on
    /\ taking.tail # taking.head
    /\ regs' = Written(regs, queue[taking.tail])
    /\ taking' = [taking EXCEPT !.tail = After(@)]
    /\ UNCHANGED <<queue, head, tail, putting, owed>>

TakeEnd ==
    /\ taking.on
    /\ taking.tail = taking.head
    /\ tail' = taking.tail
    /\ taking' = [on |-> FALSE, tail |-> 0, head |-> 0]
    /\ UNCHANGED <<queue, head, putting, regs, owed>>

-----------------------------------------------------------------------------
(* No accepted byte is lost, doubled or reordered between the cores: when    *)
(* the queue is drained, the registers are what the accepted bytes, applied  *)
(* in the order core 1 accepted them, leave.                                 *)
PsgInStep == (head = tail /\ ~putting /\ ~taking.on) => regs = owed
=============================================================================
