---------------------------- MODULE SoundProofs ----------------------------
(***************************************************************************)
(* The sound path, proved for every size of queue and buffer and for every  *)
(* guest: the register queue of the PSG, which core 1 fills while core 0    *)
(* empties it, the two buffers between the poll and the audio interrupt,    *)
(* and the playhead of the beeper's timeline.                               *)
(***************************************************************************)
EXTENDS Sound, TLAPS

-----------------------------------------------------------------------------
(* The PSG's queue.                                                          *)

Slots == 0..QueueSize - 1

\* How far b is ahead of a in the ring.
Ahead(a, b) == IF a <= b THEN b - a ELSE b - a + QueueSize

\* The slot core 0 takes next, and the one after the last byte core 1 stored.
TakeAt == IF taking.on THEN taking.tail ELSE tail
PutAt == IF putting THEN After(head) ELSE head

PsgTypes == /\ queue = [p \in Slots |-> queue[p]]
            /\ head \in Slots /\ tail \in Slots /\ putting \in BOOLEAN
            /\ taking \in [on : BOOLEAN, tail : Slots, head : Slots]

\* The scan is between the tail it has not published and the head.
PsgOrder == /\ taking.on => /\ Ahead(tail, taking.tail) <= Ahead(tail, taking.head)
                            /\ Ahead(tail, taking.head) <= Ahead(tail, head)
            /\ putting => After(head) # tail

\* s gives the registers before each waiting byte is written, from what they
\* are now to what the guest is owed.
Replays(s) == /\ s = [p \in Slots |-> s[p]]
              /\ s[TakeAt] = regs
              /\ s[PutAt] = owed
              /\ \A p \in Slots : Ahead(TakeAt, p) < Ahead(TakeAt, PutAt) =>
                                      s[After(p)] = Written(s[p], queue[p])

PsgInv == PsgTypes /\ PsgOrder /\ \E s : Replays(s)

LEMMA AfterSlot == \A p \in Slots : /\ After(p) = IF p = QueueSize - 1 THEN 0 ELSE p + 1
                                    /\ After(p) \in Slots
  BY PsgAssumption DEF After, Slots

LEMMA PsgStarts == PsgInit => PsgInv
  <1> SUFFICES ASSUME PsgInit PROVE PsgInv OBVIOUS
  <1>0. 0 \in Slots BY PsgAssumption DEF Slots
  <1>1. PsgTypes BY <1>0 DEF PsgInit, PsgTypes, Slots
  <1>2. PsgOrder BY DEF PsgInit, PsgOrder
  <1>3. Replays([p \in Slots |-> PowerOnRegs])
    BY PsgAssumption DEF PsgInit, Replays, TakeAt, PutAt, Ahead, Slots
  <1> QED BY <1>1, <1>2, <1>3 DEF PsgInv

LEMMA WriteDataKeeps == ASSUME PsgInv, NEW b, WriteData(b) PROVE PsgInv'
  <1>1. CASE UNCHANGED psgVars
    BY <1>1 DEF PsgInv, PsgTypes, PsgOrder, Replays, TakeAt, PutAt, psgVars
  <1>2. CASE After(head) # tail
    <2>1. /\ ~putting /\ putting' /\ queue' = [queue EXCEPT ![head] = b]
          /\ owed' = Written(owed, b)
          /\ UNCHANGED <<head, tail, taking, regs>>
      BY <1>2 DEF WriteData
    <2>2. PsgTypes' BY <2>1 DEF PsgInv, PsgTypes
    <2>3. PsgOrder' BY <2>1, <1>2 DEF PsgInv, PsgOrder, After
    <2>4. PICK s : Replays(s) BY DEF PsgInv
    <2>41. PICK t : t = [s EXCEPT ![After(head)] = Written(owed, b)] OBVIOUS
    <2>5. /\ TakeAt' = TakeAt /\ PutAt' = After(head) /\ PutAt = head
          /\ TakeAt \in Slots /\ head \in Slots /\ After(head) \in Slots /\ tail \in Slots
      BY <2>1, AfterSlot DEF TakeAt, PutAt, PsgInv, PsgTypes, After
    <2>6. TakeAt # After(head)
      <3>1. ~taking.on \/ Ahead(tail, taking.tail) <= Ahead(tail, head)
        BY PsgAssumption DEF PsgInv, PsgTypes, PsgOrder, Ahead, Slots
      <3> QED BY <1>2, <3>1, AfterSlot, <2>5, PsgAssumption DEF TakeAt, Ahead, PsgInv, PsgTypes, Slots
    <2>7. t[TakeAt] = regs /\ t[After(head)] = Written(owed, b) /\ t[head] = owed
      <3>1. head # After(head) BY AfterSlot, <2>5, PsgAssumption DEF Slots
      <3> QED BY <2>4, <2>41, <2>5, <2>6, <3>1 DEF Replays
    <2>8. ASSUME NEW p \in Slots, Ahead(TakeAt, p) < Ahead(TakeAt, After(head))
          PROVE  t[After(p)] = Written(t[p], queue'[p])
      <3>1. CASE p = head BY <3>1, <2>1, <2>5, <2>7 DEF PsgInv, PsgTypes
      <3>2. CASE p # head
        <4>1. Ahead(TakeAt, p) < Ahead(TakeAt, head)
          BY <2>8, <3>2, <2>5, <2>6, AfterSlot, PsgAssumption DEF Ahead, Slots
        <4>2. p # After(head) /\ After(p) # After(head) /\ After(p) \in Slots
          BY <2>8, <3>2, <2>5, AfterSlot, PsgAssumption DEF Slots, Ahead
        <4>3. s[After(p)] = Written(s[p], queue[p]) BY <4>1, <2>4, <2>5 DEF Replays
        <4> QED BY <4>2, <4>3, <2>1, <3>2, <2>4, <2>41, <2>5 DEF Replays, PsgInv, PsgTypes
      <3> QED BY <3>1, <3>2
    <2>9. Replays(t)'
      <3>1. t = [p \in Slots |-> t[p]] BY <2>4, <2>41 DEF Replays
      <3>2. regs' = regs /\ owed' = Written(owed, b) /\ TakeAt' = TakeAt /\ PutAt' = After(head)
        BY <2>1, <2>5
      <3> QED BY <3>1, <3>2, <2>7, <2>8 DEF Replays
    <2> QED BY <2>2, <2>3, <2>9 DEF PsgInv
  <1> QED BY <1>1, <1>2 DEF WriteData, psgVars

LEMMA PublishHeadKeeps == ASSUME PsgInv, PublishHead PROVE PsgInv'
  <1>1. /\ putting /\ ~putting' /\ head' = After(head)
        /\ UNCHANGED <<queue, tail, taking, regs, owed>>
    BY DEF PublishHead
  <1>2. PsgTypes'
    <2>1. head' \in Slots BY <1>1, AfterSlot DEF PsgInv, PsgTypes
    <2>2. putting' = FALSE BY DEF PublishHead
    <2> QED BY <1>1, <2>1, <2>2 DEF PsgInv, PsgTypes
  <1>3. PsgOrder'
    <2>1. After(head) # tail /\ head \in Slots /\ tail \in Slots BY <1>1 DEF PsgInv, PsgOrder, PsgTypes
    <2>2. Ahead(tail, head) <= Ahead(tail, head')
      BY <2>1, <1>1, AfterSlot, PsgAssumption DEF Ahead, Slots
    <2>3. taking.on => /\ Ahead(tail, taking.tail) <= Ahead(tail, taking.head)
                       /\ Ahead(tail, taking.head) <= Ahead(tail, head')
      <3> SUFFICES ASSUME taking.on
                   PROVE  /\ Ahead(tail, taking.tail) <= Ahead(tail, taking.head)
                          /\ Ahead(tail, taking.head) <= Ahead(tail, head')
        OBVIOUS
      <3>1. /\ Ahead(tail, taking.tail) <= Ahead(tail, taking.head)
            /\ Ahead(tail, taking.head) <= Ahead(tail, head)
            /\ taking.head \in Slots
        BY DEF PsgInv, PsgOrder, PsgTypes
      <3>2. Ahead(tail, taking.head) \in Int /\ Ahead(tail, head) \in Int /\ Ahead(tail, head') \in Int
        BY <3>1, <2>1, <1>1, AfterSlot, PsgAssumption DEF Ahead, Slots
      <3> QED BY <2>2, <3>1, <3>2
    <2> QED BY <1>1, <2>3 DEF PsgOrder, Ahead
  <1>4. TakeAt' = TakeAt /\ PutAt' = PutAt BY <1>1 DEF TakeAt, PutAt, After
  <1>5. PICK s : Replays(s) BY DEF PsgInv
  <1>6. Replays(s)' BY <1>1, <1>4, <1>5 DEF Replays
  <1> QED BY <1>2, <1>3, <1>6 DEF PsgInv

LEMMA TakeStartKeeps == ASSUME PsgInv, TakeStart PROVE PsgInv'
  <1>1. /\ ~taking.on /\ taking' = [on |-> TRUE, tail |-> tail, head |-> head]
        /\ UNCHANGED <<queue, head, tail, putting, regs, owed>>
    BY DEF TakeStart
  <1>2. PsgTypes' BY <1>1 DEF PsgInv, PsgTypes
  <1>3. PsgOrder'
    BY <1>1, PsgAssumption DEF PsgInv, PsgOrder, PsgTypes, Ahead, Slots, After
  <1>4. TakeAt' = TakeAt /\ PutAt' = PutAt BY <1>1 DEF TakeAt, PutAt, After
  <1>5. PICK s : Replays(s) BY DEF PsgInv
  <1>6. Replays(s)' BY <1>1, <1>4, <1>5 DEF Replays
  <1> QED BY <1>2, <1>3, <1>6 DEF PsgInv

LEMMA TakeByteKeeps == ASSUME PsgInv, TakeByte PROVE PsgInv'
  <1>1. /\ taking.on /\ taking.tail # taking.head
        /\ regs' = Written(regs, queue[taking.tail])
        /\ taking' = [taking EXCEPT !.tail = After(@)]
        /\ UNCHANGED <<queue, head, tail, putting, owed>>
    BY DEF TakeByte
  <1>2. /\ taking.tail \in Slots /\ taking.head \in Slots /\ tail \in Slots /\ head \in Slots
        /\ taking'.on /\ taking'.tail = After(taking.tail) /\ taking'.head = taking.head
        /\ taking' \in [on : BOOLEAN, tail : Slots, head : Slots]
    BY <1>1, AfterSlot DEF PsgInv, PsgTypes
  <1>3. PsgTypes' BY <1>1, <1>2 DEF PsgInv, PsgTypes
  <1>4. /\ Ahead(tail, taking.tail) <= Ahead(tail, taking.head)
        /\ Ahead(tail, taking.head) <= Ahead(tail, head)
        /\ putting => After(head) # tail
    BY <1>1 DEF PsgInv, PsgOrder
  <1>5. Ahead(tail, After(taking.tail)) <= Ahead(tail, taking.head)
    BY <1>1, <1>2, <1>4, AfterSlot, PsgAssumption DEF Ahead, Slots
  <1>6. PsgOrder' BY <1>1, <1>2, <1>4, <1>5 DEF PsgOrder, Ahead, After
  <1>7. /\ TakeAt = taking.tail /\ TakeAt' = After(TakeAt) /\ PutAt' = PutAt
        /\ PutAt \in Slots /\ TakeAt \in Slots /\ TakeAt # PutAt
    <2>1. TakeAt = taking.tail /\ TakeAt' = After(TakeAt) /\ PutAt' = PutAt
      BY <1>1, <1>2 DEF TakeAt, PutAt, After
    <2>2. CASE putting
      BY <2>1, <2>2, <1>1, <1>2, <1>4, AfterSlot, PsgAssumption DEF PutAt, Ahead, Slots
    <2>3. CASE ~putting
      BY <2>1, <2>3, <1>1, <1>2, <1>4, PsgAssumption DEF PutAt, Ahead, Slots
    <2> QED BY <2>1, <2>2, <2>3, <1>2
  <1>8. PICK s : Replays(s) BY DEF PsgInv
  <1>9. Ahead(TakeAt, TakeAt) < Ahead(TakeAt, PutAt)
    BY <1>7, PsgAssumption DEF Ahead, Slots
  <1>10. s[After(TakeAt)] = regs'
    BY <1>1, <1>7, <1>8, <1>9 DEF Replays
  <1>11. ASSUME NEW p \in Slots, Ahead(After(TakeAt), p) < Ahead(After(TakeAt), PutAt)
         PROVE  Ahead(TakeAt, p) < Ahead(TakeAt, PutAt)
    BY <1>7, <1>11, AfterSlot, PsgAssumption DEF Ahead, Slots
  <1>12. Replays(s)' BY <1>1, <1>7, <1>8, <1>10, <1>11 DEF Replays
  <1> QED BY <1>3, <1>6, <1>12 DEF PsgInv

LEMMA TakeEndKeeps == ASSUME PsgInv, TakeEnd PROVE PsgInv'
  <1>1. /\ taking.on /\ taking.tail = taking.head /\ tail' = taking.tail
        /\ taking' = [on |-> FALSE, tail |-> 0, head |-> 0]
        /\ UNCHANGED <<queue, head, putting, regs, owed>>
    BY DEF TakeEnd
  <1>2. PsgTypes'
    <2>1. 0 \in Slots BY PsgAssumption DEF Slots
    <2> QED BY <1>1, <2>1 DEF PsgInv, PsgTypes
  <1>3. PsgOrder'
    BY <1>1, AfterSlot, PsgAssumption DEF PsgInv, PsgOrder, PsgTypes, Ahead, Slots
  <1>4. TakeAt' = TakeAt /\ PutAt' = PutAt BY <1>1 DEF TakeAt, PutAt, After
  <1>5. PICK s : Replays(s) BY DEF PsgInv
  <1>6. Replays(s)' BY <1>1, <1>4, <1>5 DEF Replays
  <1> QED BY <1>2, <1>3, <1>6 DEF PsgInv

LEMMA PsgKept == ASSUME PsgInv, [Next]_soundVars PROVE PsgInv'
  <1>1. CASE GuestPsg
    <2>1. WriteData(guest.program[1].value) BY <1>1 DEF GuestPsg, Does
    <2> QED BY <2>1, WriteDataKeeps
  <1>2. CASE PsgPublishes BY <1>2, PublishHeadKeeps DEF PsgPublishes
  <1>3. CASE PsgTakes BY <1>3, TakeStartKeeps, TakeByteKeeps, TakeEndKeeps DEF PsgTakes
  <1>4. CASE UNCHANGED psgVars
    BY <1>4 DEF PsgInv, PsgTypes, PsgOrder, Replays, TakeAt, PutAt, psgVars, Ahead, After
  <1>5. UNCHANGED psgVars \/ GuestPsg \/ PsgPublishes \/ PsgTakes
    BY DEF Next, Core0, Core1, Ticks, GuestBank, GuestMem, GuestPort, GuestReset, Captured,
           Polls, Alone, Renders, CtcScans, soundVars
  <1> QED BY <1>1, <1>2, <1>3, <1>4, <1>5

\* No accepted byte is lost, doubled or reordered between the cores, for every
\* length of the queue and every stream of bytes, wherever the cores interleave.
THEOREM PsgStaysInStep == Spec => []PsgInStep
  <1>1. Init => PsgInv BY PsgStarts DEF Init
  <1>2. PsgInv /\ [Next]_soundVars => PsgInv' BY PsgKept
  <1>3. PsgInv => PsgInStep
    BY DEF PsgInv, Replays, TakeAt, PutAt, PsgInStep
  <1> QED BY <1>1, <1>2, <1>3, PTL DEF Spec

-----------------------------------------------------------------------------
(* The two buffers.                                                          *)

Other == 1 - current
Filling == poll.at = "fill"

BufferTypes == /\ current \in Buffers /\ swaps \in 0..SettledAt
               /\ ready \in [Buffers -> BOOLEAN]
               /\ fresh \in [Buffers -> [Samples -> BOOLEAN]]
               /\ fillPos \in 0..Frames
               /\ poll = [at |-> poll.at, next |-> poll.next, todo |-> poll.todo,
                          fill |-> poll.fill, left |-> poll.left, ticks |-> poll.ticks]
               /\ {poll.next, poll.fill} \subseteq Buffers
               /\ poll.left \in Nat

\* A fill never passes the end of its buffer, and only a full buffer is ready.
FillFits == Filling => poll.left + fillPos <= Frames

\* The flags start_audio leaves, and what becomes of them over the swaps.
Flags == CASE swaps = 0 -> current = 0 /\ ready[0] /\ ready[1] /\ fillPos = Frames /\ ~Filling
           [] swaps = 1 -> current = 1 /\ ready[0] /\ ~ready[1] /\ (Filling => poll.fill = 0)
           [] swaps = 2 -> /\ current = 0
                           /\ ready[0] \/ ready[1] => fillPos = Frames /\ ~Filling
                           /\ ~ready[0] \/ ~ready[1]
           [] OTHER -> /\ ~ready[current]
                       /\ ready[Other] => fillPos = Frames /\ ~Filling
                       /\ Filling => poll.fill = Other /\ poll.left = Frames - fillPos

\* What is rendered is rendered from the start of the buffer, without a gap.
Rendered == /\ swaps >= 3 => \A i \in Samples : /\ ~fresh[current][i]
                                                /\ i < fillPos => fresh[Other][i]
            /\ swaps = SettledAt => \A i \in Samples : fresh[Other][i] => i < fillPos

PlayInv == BufferTypes /\ FillFits /\ Flags /\ Rendered

LEMMA PlayStarts == I2SInit => PlayInv
  BY I2SAssumption DEF I2SInit, PlayInv, BufferTypes, FillFits, Flags, Rendered, Filling, Other,
       Buffers, Samples, SettledAt, Asleep

LEMMA SwapKeeps == ASSUME PlayInv, NEW maxLate, DmaEnds(maxLate) PROVE PlayInv'
  <1>1. /\ poll'.at = poll.at /\ poll'.next = poll.next /\ poll'.fill = poll.fill
        /\ poll'.left = poll.left
        /\ poll' = [at |-> poll'.at, next |-> poll'.next, todo |-> poll'.todo,
                    fill |-> poll'.fill, left |-> poll'.left, ticks |-> poll'.ticks]
    BY DEF DmaEnds, Ticked, PlayInv, BufferTypes
  <1>2. CASE UNCHANGED <<current, ready, fillPos, fresh, swaps>>
    BY <1>1, <1>2 DEF PlayInv, BufferTypes, FillFits, Flags, Rendered, Filling, Other
  <1>3. CASE /\ ready[Other] /\ current' = Other
             /\ ready' = [ready EXCEPT ![Other] = FALSE]
             /\ fillPos' = 0
             /\ fresh' = [fresh EXCEPT ![Other] = [i \in Samples |-> FALSE]]
             /\ swaps' = IF swaps < SettledAt THEN swaps + 1 ELSE swaps
    <2>1. BufferTypes'
      BY <1>1, <1>3, I2SAssumption DEF PlayInv, BufferTypes, Other, Buffers, SettledAt
    <2>2. FillFits'
      BY <1>1, <1>3, I2SAssumption DEF PlayInv, BufferTypes, FillFits, Filling
    <2>3. Flags'
      BY <1>1, <1>3, I2SAssumption
         DEF PlayInv, BufferTypes, FillFits, Flags, Filling, Other, Buffers, SettledAt
    <2>4. Rendered'
      BY <1>1, <1>3, I2SAssumption
         DEF PlayInv, BufferTypes, Flags, Rendered, Filling, Other, Buffers, SettledAt, Samples
    <2> QED BY <2>1, <2>2, <2>3, <2>4 DEF PlayInv
  <1> QED BY <1>2, <1>3 DEF DmaEnds, Other

\* A step that leaves the buffers alone and ends or begins no fill.
LEMMA PollKeeps ==
    ASSUME PlayInv, UNCHANGED <<current, ready, fillPos, fresh, swaps>>,
           poll' = [at |-> poll'.at, next |-> poll'.next, todo |-> poll'.todo,
                    fill |-> poll'.fill, left |-> poll'.left, ticks |-> poll'.ticks],
           {poll'.next, poll'.fill} \subseteq Buffers, poll'.left \in Nat,
           Filling' => Filling /\ poll'.fill = poll.fill /\ poll'.left = poll.left
    PROVE  PlayInv'
  BY DEF PlayInv, BufferTypes, FillFits, Flags, Rendered, Filling, Other

LEMMA PollLoopKeeps == ASSUME PlayInv, PollLoop PROVE PlayInv'
  <1>1. UNCHANGED <<current, ready, fillPos, fresh, swaps>> /\ ~Filling
    BY DEF PollLoop, dmaVars, Filling
  <1>2. CASE poll' = Asleep
    <2>1. 0 \in Buffers BY DEF Buffers
    <2> QED BY <1>1, <1>2, <2>1, PollKeeps DEF Asleep, Filling
  <1>3. CASE /\ ~ready[poll.next] /\ fillPos < Frames
             /\ poll' = [poll EXCEPT !.at = "fill", !.fill = 1 - current, !.left = Frames - fillPos]
    <2>1. /\ poll'.at = "fill" /\ poll'.fill = Other /\ poll'.left = Frames - fillPos
          /\ poll'.next = poll.next
          /\ poll' = [at |-> poll'.at, next |-> poll'.next, todo |-> poll'.todo,
                      fill |-> poll'.fill, left |-> poll'.left, ticks |-> poll'.ticks]
      BY <1>3 DEF PlayInv, BufferTypes, Other
    <2>2. BufferTypes' BY <1>1, <1>3, <2>1, I2SAssumption DEF PlayInv, BufferTypes, Other, Buffers
    <2>3. FillFits' BY <1>1, <2>1, I2SAssumption DEF PlayInv, BufferTypes, FillFits
    <2>4. Flags'
      BY <1>1, <1>3, <2>1, I2SAssumption
         DEF PlayInv, BufferTypes, Flags, Filling, Other, Buffers, SettledAt
    <2>5. Rendered' BY <1>1 DEF PlayInv, Rendered, Other
    <2> QED BY <2>2, <2>3, <2>4, <2>5 DEF PlayInv
  <1> QED BY <1>2, <1>3 DEF PollLoop

LEMMA RenderKeeps ==
    ASSUME PlayInv, RenderSample
    PROVE  /\ PlayInv'
           /\ swaps >= 3 => poll.fill = Other
           /\ swaps = SettledAt => ~fresh[poll.fill][fillPos]
  <1>1. /\ Filling /\ Filling' /\ poll.left > 0 /\ poll'.left = poll.left - 1
        /\ poll'.fill = poll.fill /\ poll'.next = poll.next
        /\ poll' = [at |-> poll'.at, next |-> poll'.next, todo |-> poll'.todo,
                    fill |-> poll'.fill, left |-> poll'.left, ticks |-> poll'.ticks]
        /\ UNCHANGED <<current, ready, swaps>> /\ fillPos' = fillPos + 1
        /\ fresh' = [fresh EXCEPT ![poll.fill][fillPos] = TRUE]
    BY DEF RenderSample, PlayInv, BufferTypes, Filling, dmaVars
  <1>2. /\ fillPos \in Samples /\ fillPos' \in 0..Frames /\ poll'.left \in Nat
        /\ poll'.left + fillPos' = poll.left + fillPos
    BY <1>1, I2SAssumption DEF PlayInv, BufferTypes, FillFits, Samples
  <1>3. BufferTypes' BY <1>1, <1>2 DEF PlayInv, BufferTypes, Buffers
  <1>4. FillFits' BY <1>1, <1>2 DEF PlayInv, FillFits
  <1>5. Flags' BY <1>1, <1>2, I2SAssumption DEF PlayInv, BufferTypes, Flags, Other, Buffers, SettledAt
  <1>6. swaps >= 3 => poll.fill = Other /\ Other # current
    BY <1>1 DEF PlayInv, BufferTypes, Flags, Other, Buffers, SettledAt
  <1>7. Rendered'
    <2> SUFFICES ASSUME swaps >= 3, NEW i \in Samples
                 PROVE  /\ ~fresh'[current][i]
                        /\ i < fillPos + 1 => fresh'[Other][i]
                        /\ swaps = SettledAt /\ fresh'[Other][i] => i < fillPos + 1
      <3>1. swaps = SettledAt => swaps >= 3 BY DEF SettledAt
      <3>2. Other' = Other BY <1>1 DEF Other
      <3> QED BY <1>1, <3>1, <3>2 DEF Rendered
    <2>1. Other \in Buffers /\ current \in Buffers /\ Other # current /\ poll.fill = Other
      BY <1>6 DEF PlayInv, BufferTypes, Buffers, Other
    <2>2. /\ fresh'[current] = fresh[current]
          /\ fresh'[Other][fillPos] /\ (i # fillPos => fresh'[Other][i] = fresh[Other][i])
      BY <1>1, <1>2, <2>1 DEF PlayInv, BufferTypes
    <2>3. /\ ~fresh[current][i] /\ (i < fillPos => fresh[Other][i])
          /\ swaps = SettledAt /\ fresh[Other][i] => i < fillPos
      BY DEF PlayInv, Rendered
    <2>4. fillPos \in Nat /\ i \in Nat BY <1>2, I2SAssumption DEF Samples
    <2> QED BY <2>2, <2>3, <2>4
  <1>8. swaps = SettledAt => ~fresh[poll.fill][fillPos]
    BY <1>2, <1>6 DEF PlayInv, BufferTypes, Rendered, SettledAt, Samples
  <1> QED BY <1>3, <1>4, <1>5, <1>6, <1>7, <1>8 DEF PlayInv

LEMMA FillEndsKeeps == ASSUME PlayInv, FillEnds PROVE PlayInv'
  <1>1. /\ Filling /\ ~Filling' /\ poll.left = 0
        /\ poll'.left = poll.left /\ poll'.fill = poll.fill /\ poll'.next = poll.next
        /\ poll' = [at |-> poll'.at, next |-> poll'.next, todo |-> poll'.todo,
                    fill |-> poll'.fill, left |-> poll'.left, ticks |-> poll'.ticks]
        /\ UNCHANGED <<current, fillPos, fresh, swaps>>
        /\ ready' = IF fillPos >= Frames THEN [ready EXCEPT ![poll.fill] = TRUE] ELSE ready
    BY DEF FillEnds, PlayInv, BufferTypes, Filling, dmaVars
  <1>2. BufferTypes' BY <1>1 DEF PlayInv, BufferTypes, Buffers
  <1>3. FillFits' BY <1>1 DEF FillFits
  <1>4. Flags'
    BY <1>1, I2SAssumption DEF PlayInv, BufferTypes, FillFits, Flags, Other, Buffers, SettledAt
  <1>5. Rendered' BY <1>1 DEF PlayInv, Rendered, Other
  <1> QED BY <1>2, <1>3, <1>4, <1>5 DEF PlayInv

\* One step of the whole: what it may do to the buffers.
LEMMA PlayKept ==
    ASSUME PlayInv, [Next]_soundVars
    PROVE  /\ PlayInv'
           /\ swaps >= 3 /\ current' # current => \A i \in Samples : fresh[current'][i]
           /\ swaps >= 3 /\ RenderSample => poll.fill # current
           /\ swaps = SettledAt /\ RenderSample => ~fresh[poll.fill][fillPos]
  <1>1. CASE UNCHANGED i2sVars
    <2>1. ~RenderSample
      <3> SUFFICES ASSUME RenderSample PROVE FALSE OBVIOUS
      <3> QED BY <1>1 DEF RenderSample, i2sVars, PlayInv, BufferTypes
    <2>2. PlayInv' BY <1>1 DEF i2sVars, PlayInv, BufferTypes, FillFits, Flags, Rendered, Filling, Other
    <2> QED BY <1>1, <2>1, <2>2 DEF i2sVars
  <1>2. CASE DmaPlays
    <2>1. ~RenderSample /\ UNCHANGED current BY <1>2, I2SAssumption DEF DmaPlays, RenderSample, PlayInv, BufferTypes
    <2>2. PlayInv' BY <1>2, PollKeeps DEF DmaPlays, Ticked, Filling, PlayInv, BufferTypes
    <2> QED BY <2>1, <2>2
  <1>3. CASE DmaEnds(guest.late)
    <2>1. ~RenderSample
      BY <1>3, I2SAssumption DEF DmaEnds, Ticked, RenderSample, PlayInv, BufferTypes
    <2>2. swaps >= 3 /\ current' # current => \A i \in Samples : fresh[current'][i]
      BY <1>3 DEF DmaEnds, PlayInv, BufferTypes, Flags, Rendered, Other, SettledAt, Samples
    <2>3. PlayInv' BY <1>3, SwapKeeps
    <2> QED BY <2>1, <2>2, <2>3
  <1>4. ASSUME \/ PollStart \/ PollTest(guest.sources)
               \/ SourceDone("psg") \/ SourceDone("ctc")
        PROVE  PlayInv' /\ ~RenderSample /\ UNCHANGED current
    <2>1. UNCHANGED <<current, ready, fillPos, fresh, swaps>>
      BY <1>4 DEF PollStart, PollTest, SourceDone, dmaVars
    <2>2. ~RenderSample BY <2>1 DEF RenderSample, PlayInv, BufferTypes
    <2>3. CASE PollStart
      <3>1. 0 \in Buffers /\ 1 - current \in Buffers BY DEF PlayInv, BufferTypes, Buffers
      <3> QED BY <2>1, <2>2, <2>3, <3>1, PollKeeps DEF PollStart, Asleep, Filling
    <2>4. CASE PollTest(guest.sources) \/ SourceDone("psg") \/ SourceDone("ctc")
      BY <2>1, <2>2, <2>4, PollKeeps DEF PollTest, SourceDone, Filling, PlayInv, BufferTypes
    <2> QED BY <1>4, <2>1, <2>2, <2>3, <2>4
  <1>5. CASE PollLoop
    <2>1. ~RenderSample /\ UNCHANGED current BY <1>5 DEF PollLoop, RenderSample, dmaVars
    <2> QED BY <1>5, <2>1, PollLoopKeeps
  <1>6. CASE RenderSample
    <2>1. UNCHANGED current BY <1>6 DEF RenderSample, dmaVars
    <2>2. Other # current BY DEF Other, PlayInv, BufferTypes, Buffers
    <2> QED BY <1>6, <2>1, <2>2, RenderKeeps
  <1>7. CASE FillEnds
    <2>1. ~RenderSample /\ UNCHANGED current BY <1>7 DEF FillEnds, RenderSample, dmaVars
    <2> QED BY <1>7, <2>1, FillEndsKeeps
  <1>8. \/ UNCHANGED i2sVars \/ DmaPlays \/ DmaEnds(guest.late)
        \/ PollStart \/ PollTest(guest.sources) \/ SourceDone("psg") \/ SourceDone("ctc")
        \/ PollLoop \/ RenderSample \/ FillEnds
    BY DEF Next, Core0, Core1, Ticks, GuestBank, GuestMem, GuestPort, GuestReset, GuestPsg,
           PsgPublishes, Captured, Does, Polls, Alone, Renders, PsgTakes, CtcScans, soundVars
  <1> QED BY <1>1, <1>2, <1>3, <1>4, <1>5, <1>6, <1>7, <1>8

\* Every buffer is played whole and once, for every length of a buffer, however
\* long a poll takes and however late it comes, once what start_audio left is
\* used up.
THEOREM BuffersPlayInOrder == Spec => PlaysInOrder
  <1>1. Init => PlayInv BY PlayStarts DEF Init
  <1>2. PlayInv /\ [Next]_soundVars => PlayInv' BY PlayKept
  <1>3. PlayInv /\ [Next]_soundVars =>
          [/\ swaps >= 3 /\ current' # current => \A i \in Samples : fresh[current'][i]
           /\ swaps >= 3 /\ RenderSample => poll.fill # current
           /\ swaps = SettledAt /\ RenderSample => ~fresh[poll.fill][fillPos]]_i2sVars
    BY PlayKept
  <1> QED BY <1>1, <1>2, <1>3, PTL DEF Spec, PlaysInOrder

-----------------------------------------------------------------------------
(* The playhead of the beeper's timeline.                                    *)

Places == 0..RingWords - 1
Words == {"none", "on", "off", "open", "shut", "other"}
Events == [age : Nat, write : Words, open : {"no", "yes", "dead"}]
PortWrites == [age : Nat, write : Words]

CtcTypes == /\ ring \in [Places -> Events]
            /\ ioq \in Seq(PortWrites)
            /\ ringHead \in Places
            /\ cursor \in [valid : BOOLEAN, at : Places]
            /\ playhead \in [set : BOOLEAN, lag : Nat]
            /\ scan = [at |-> scan.at, io |-> scan.io, bank |-> scan.bank,
                       mem |-> scan.mem, now |-> scan.now, flood |-> scan.flood]
            /\ scan.io \in 0..Len(ioq) /\ scan.now \in Places

SoundTypes == /\ guest \in [sources : SUBSET {"psg", "ctc"}, program : Seq(Accesses),
                            races : BOOLEAN, late : Nat]
              /\ phase \in Samples
              /\ BufferTypes /\ CtcTypes

\* The sources are asked only for a buffer of which nothing is rendered, and
\* the timeline's scan is part of that.
Asking == /\ poll.todo \subseteq guest.sources
          /\ poll.todo # {} => poll.at = "writes" /\ fillPos = 0 /\ ~ready[poll.next]
          /\ scan.at # "off" => Processing("ctc")

\* The playhead may yet move on for the buffer that is filled next.
MayScan == /\ fillPos = 0
           /\ \/ poll.at \in {"idle", "test", "loop"}
              \/ poll.at = "writes" /\ ready[poll.next]
              \/ Processing("ctc") /\ scan.at \in {"off", "cursor", "guards"}
              \/ Filling /\ poll.left < Frames

\* One buffer, what the present has moved on in this one, and what the next
\* scan takes away.
LagInv == playhead.set =>
            /\ "ctc" \in guest.sources
            /\ playhead.lag >= Frames + phase + 1 + (IF MayScan THEN Frames ELSE 0)

PlayheadInv == SoundTypes /\ Asking /\ LagInv

LEMMA PlaceOf == \A i \in Int : Place(i) \in Places
  BY CtcAssumption DEF Place, Places

LEMMA AgedNat == \A a \in Nat : Aged(a) \in Nat
  BY DEF Aged

LEMMA AgedMore == \A a \in Nat : \/ Aged(a) = a + 1
                                 \/ Aged(a) = a /\ a >= 3 * Frames
  <1>1. \A a \in Nat : ~(a < Old) => a >= 3 * Frames BY CtcAssumption, I2SAssumption
  <1> QED BY <1>1 DEF Aged

LEMMA SoundStarts == Init => PlayheadInv
  <1> SUFFICES ASSUME Init PROVE PlayheadInv OBVIOUS
  <1>1. BufferTypes BY PlayStarts DEF Init, PlayInv
  <1>2. CtcTypes
    <2>1. 0 \in Places /\ NoEvent \in Events BY CtcAssumption DEF Places, NoEvent, Events, Words
    <2>2. /\ ring = [i \in 0..RingWords - 1 |-> NoEvent] /\ ioq = <<>> /\ ringHead = 0
          /\ cursor = [valid |-> FALSE, at |-> 0] /\ playhead = [set |-> FALSE, lag |-> 0]
          /\ scan = [at |-> "off", io |-> 0, bank |-> 0, mem |-> 0, now |-> 0, flood |-> FALSE]
      BY DEF Init, CtcInit, Out
    <2>3. ioq \in Seq(PortWrites) /\ Len(ioq) = 0 BY <2>2
    <2>4. cursor \in [valid : BOOLEAN, at : Places] /\ playhead \in [set : BOOLEAN, lag : Nat]
      BY <2>1, <2>2
    <2> QED BY <2>1, <2>2, <2>3, <2>4 DEF CtcTypes, Places
  <1>3. phase \in Samples BY I2SAssumption DEF Init, I2SInit, Samples
  <1>4. Asking /\ LagInv BY DEF Init, I2SInit, CtcInit, Asking, LagInv, Asleep, Out
  <1> QED BY <1>1, <1>2, <1>3, <1>4, GuestsAssumption DEF Init, PlayheadInv, SoundTypes

\* What a guest writes in one go is a sequence of words.
LEMMA GuestTypes ==
    ASSUME SoundTypes, NEW what, guest.program # <<>>, guest.program[1].what = what,
           guest' = [guest EXCEPT !.program = Tail(@)]
    PROVE  /\ guest' \in [sources : SUBSET {"psg", "ctc"}, program : Seq(Accesses),
                           races : BOOLEAN, late : Nat]
           /\ guest'.sources = guest.sources
           /\ what = "mem" => guest.program[1].value \in Seq(Words)
           /\ what = "port" => guest.program[1].value \in Words
  <1>1. guest.program \in Seq(Accesses) BY DEF SoundTypes
  <1>2. Tail(guest.program) \in Seq(Accesses) BY <1>1
  <1>3. guest.program[1] \in Accesses BY <1>1
  <1>4. what = "mem" => guest.program[1] \in MemAccesses BY <1>3 DEF Accesses
  <1>5. what = "mem" => guest.program[1].value \in Seq({"on", "off", "open", "other"})
    BY <1>4 DEF MemAccesses
  <1>6. Seq({"on", "off", "open", "other"}) \subseteq Seq(Words) BY DEF Words
  <1>7. what = "port" => guest.program[1].value \in Words BY <1>3 DEF Accesses, MemAccesses, Words
  <1> QED BY <1>1, <1>2, <1>5, <1>6, <1>7 DEF SoundTypes

\* The three ways of the guest to the beeper, and the reset.
LEMMA CaptureTypes ==
    ASSUME CtcTypes, UNCHANGED scanVars,
           \/ \E w \in Words : WritePort(w)
           \/ \E port : WriteBankPort(port)
           \/ \E burst \in Seq(Words) : MemWrites(burst)
           \/ SoftReset
    PROVE  CtcTypes'
  <1>1. UNCHANGED <<cursor, playhead, scan>> BY DEF scanVars
  <1>2. ASSUME NEW w \in Words, WritePort(w) PROVE CtcTypes'
    <2>1. UNCHANGED <<ring, ringHead>> BY <1>2 DEF WritePort
    <2>2. ioq' \in Seq(PortWrites) /\ Len(ioq') >= Len(ioq)
      <3>1. [age |-> 0, write |-> w] \in PortWrites BY DEF PortWrites
      <3> QED BY <3>1, <1>2 DEF WritePort, CtcTypes
    <2> QED BY <1>1, <2>1, <2>2 DEF CtcTypes
  <1>3. ASSUME NEW port, WriteBankPort(port) PROVE CtcTypes'
    BY <1>1, <1>3 DEF WriteBankPort, CtcTypes
  <1>4. ASSUME NEW burst \in Seq(Words), MemWrites(burst) PROVE CtcTypes'
    <2> DEFINE nth(i) == ((i - ringHead) % RingWords) + 1
    <2>1. UNCHANGED ioq /\ ringHead' = (ringHead + Len(burst)) % RingWords
      BY <1>4 DEF MemWrites
    <2>2. ringHead' \in Places BY <2>1, CtcAssumption DEF CtcTypes, Places
    <2>3. PICK open \in {"yes", "no"} :
            ring' = [i \in DOMAIN ring |->
                      IF nth(i) > Len(burst) THEN ring[i]
                      ELSE [age |-> 0, write |-> burst[nth(i)], open |-> open]]
      BY <1>4 DEF MemWrites
    <2>4. ASSUME NEW i \in Places PROVE ring'[i] \in Events
      <3>1. nth(i) \in Nat \ {0}
        <4>1. i - ringHead \in Int BY CtcAssumption DEF CtcTypes, Places
        <4>2. nth(i) = Place(i - ringHead) + 1 BY DEF Place
        <4>3. Place(i - ringHead) \in Nat BY <4>1, PlaceOf, CtcAssumption DEF Places
        <4> HIDE DEF nth
        <4> QED BY <4>2, <4>3
      <3>2. CASE nth(i) > Len(burst) BY <2>3, <3>2 DEF CtcTypes
      <3>3. CASE ~(nth(i) > Len(burst))
        <4>1. burst[nth(i)] \in Words BY <3>1, <3>3
        <4>2. [age |-> 0, write |-> burst[nth(i)], open |-> open] \in Events
          BY <4>1 DEF Events
        <4> QED BY <2>3, <3>3, <4>2 DEF CtcTypes
      <3> QED BY <3>2, <3>3
    <2>5. ring' \in [Places -> Events] BY <2>3, <2>4 DEF CtcTypes
    <2> QED BY <1>1, <2>1, <2>2, <2>5 DEF CtcTypes
  <1>5. ASSUME SoftReset PROVE CtcTypes'
    <2>1. UNCHANGED <<ioq, ringHead>> /\ ring' = [i \in DOMAIN ring |-> [ring[i] EXCEPT !.open = "dead"]]
      BY <1>5 DEF SoftReset
    <2>2. ring' \in [Places -> Events] BY <2>1 DEF CtcTypes, Events
    <2> QED BY <1>1, <2>1, <2>2 DEF CtcTypes
  <1> QED BY <1>2, <1>3, <1>4, <1>5

LEMMA AgesTypes ==
    ASSUME CtcTypes, CtcAges
    PROVE  /\ CtcTypes' /\ scan' = scan /\ playhead'.set = playhead.set
           /\ playhead.set => playhead'.lag = Aged(playhead.lag)
  <1>1. /\ UNCHANGED <<ringHead, cursor, scan>>
        /\ playhead' = IF playhead.set THEN [playhead EXCEPT !.lag = Aged(@)] ELSE playhead
        /\ ioq' = [i \in DOMAIN ioq |-> [ioq[i] EXCEPT !.age = Aged(@)]]
    BY DEF CtcAges
  <1>0. \A a \in Nat : Aged(a) \in Nat BY AgedNat
  <1>2. ring' \in [Places -> Events]
    <2>1. ring' = [i \in DOMAIN ring |->
                    IF cursor.at = ringHead \/ ring[i] = NoEvent THEN NoEvent
                    ELSE [ring[i] EXCEPT !.age = Aged(@)]]
      BY DEF CtcAges
    <2>2. NoEvent \in Events BY DEF NoEvent, Events, Words
    <2>3. ASSUME NEW e \in Events PROVE [e EXCEPT !.age = Aged(@)] \in Events
      BY <1>0 DEF Events
    <2> QED BY <2>1, <2>2, <2>3 DEF CtcTypes
  <1>3. ioq' \in Seq(PortWrites) /\ Len(ioq') = Len(ioq)
    <2>1. ASSUME NEW e \in PortWrites PROVE [e EXCEPT !.age = Aged(@)] \in PortWrites
      BY <1>0 DEF PortWrites
    <2>2. DOMAIN ioq = 1..Len(ioq) /\ Len(ioq) \in Nat /\ \A i \in 1..Len(ioq) : ioq[i] \in PortWrites
      BY DEF CtcTypes
    <2> QED BY <1>1, <2>1, <2>2
  <1>4. playhead' \in [set : BOOLEAN, lag : Nat] BY <1>0, <1>1 DEF CtcTypes
  <1> QED BY <1>1, <1>2, <1>3, <1>4 DEF CtcTypes

\* Where the scan begins in the ring after its guards.
LEMMA PendingTypes == CtcTypes => Pending.at \in Places /\ Pending.n \in Nat
  <1> SUFFICES ASSUME CtcTypes PROVE Pending.at \in Places /\ Pending.n \in Nat OBVIOUS
  <1>1. Place(scan.now - cursor.at) \in Places /\ cursor.at \in Places /\ scan.now \in Places
    BY PlaceOf, CtcAssumption DEF CtcTypes, Places
  <1>2. RingWords \div 4 \in Nat /\ RingWords \div 2 \in Nat BY CtcAssumption
  <1>3. Place(scan.now - RingWords \div 4) \in Places
    BY <1>1, <1>2, PlaceOf, CtcAssumption DEF Places
  <1>4. Place(scan.now - cursor.at) \in Nat BY <1>1, CtcAssumption DEF Places
  <1> QED BY <1>1, <1>2, <1>3, <1>4 DEF Pending, Place

\* The age of the newest write is one of at most two ages.
LEMMA NewestIsAge ==
    ASSUME CtcTypes, NEW p, p.at \in Places, p.n \in Nat, NewestAges(p) # {}
    PROVE  Min(NewestAges(p)) \in Nat
  <1>1. ASSUME scan.io # 0 PROVE ioq[scan.io].age \in Nat
    <2>1. ioq \in Seq(PortWrites) /\ scan.io \in 1..Len(ioq) BY <1>1 DEF CtcTypes
    <2>2. ioq[scan.io] \in PortWrites BY <2>1
    <2> QED BY <2>2 DEF PortWrites
  <1>2. ASSUME p.n # 0 PROVE ring[Place(p.at + p.n - 1)].age \in Nat
    <2>1. Place(p.at + p.n - 1) \in Places BY <1>2, PlaceOf, CtcAssumption DEF Places
    <2> QED BY <2>1 DEF CtcTypes, Events
  <1>3. PICK a \in Nat, b \in Nat : NewestAges(p) = {a} \/ NewestAges(p) = {a, b}
    BY <1>1, <1>2 DEF NewestAges
  <1>4. CASE NewestAges(p) = {a} \/ a <= b
    <2>1. a \in NewestAges(p) /\ \A y \in NewestAges(p) : a =< y BY <1>3, <1>4
    <2> QED BY <1>3, <2>1 DEF Min
  <1>5. CASE NewestAges(p) = {a, b} /\ b <= a
    <2>1. b \in NewestAges(p) /\ \A y \in NewestAges(p) : b =< y BY <1>5
    <2> QED BY <1>3, <2>1 DEF Min
  <1> QED BY <1>3, <1>4, <1>5

\* beginBuffer keeps the playhead a buffer behind whatever comes.
LEMMA BeginsBehind ==
    ASSUME CtcTypes, NEW ages, ages # {} => Min(ages) \in Nat,
           playhead.set => playhead.lag >= 2 * Frames
    PROVE  /\ BeginBuffer(ages) \in [set : BOOLEAN, lag : Nat]
           /\ BeginBuffer(ages).set =>
                \/ BeginBuffer(ages).lag >= 2 * Frames
                \/ playhead.set /\ BeginBuffer(ages).lag = playhead.lag - Frames
  <1> DEFINE newest == Min(ages)
             back == [set |-> TRUE, lag |-> newest + 2 * Frames]
  <1>1. ASSUME ages # {} PROVE back \in [set : BOOLEAN, lag : Nat] /\ back.lag >= 2 * Frames
    BY <1>1, I2SAssumption
  <1>2. ASSUME playhead.set
        PROVE  /\ [playhead EXCEPT !.lag = playhead.lag - Frames] \in [set : BOOLEAN, lag : Nat]
               /\ [playhead EXCEPT !.lag = playhead.lag - Frames].lag = playhead.lag - Frames
    <2>1. playhead.lag - Frames \in Nat BY <1>2, I2SAssumption DEF CtcTypes
    <2> QED BY <2>1 DEF CtcTypes
  <1>3. \/ ages # {} /\ BeginBuffer(ages) = back
        \/ ~playhead.set /\ BeginBuffer(ages) = playhead
        \/ playhead.set /\ BeginBuffer(ages) = [playhead EXCEPT !.lag = playhead.lag - Frames]
    BY DEF BeginBuffer
  <1> HIDE DEF back
  <1> QED BY <1>1, <1>2, <1>3 DEF CtcTypes

\* A step of the scan other than its guards leaves the playhead, and none goes
\* back to before the guards.
LEMMA ScanTypes ==
    ASSUME CtcTypes, ScanStep \/ ScanReturns
    PROVE  \/ scan.at = "guards" /\ ScanGuards
           \/ /\ CtcTypes' /\ playhead' = playhead
              /\ scan'.at \in {"cursor", "guards"} => scan.at \in {"off", "cursor"}
              /\ scan'.at = "off" => ScanReturns
  <1>1. CASE ScanHeads
    <2>1. /\ UNCHANGED <<ring, ioq, ringHead, cursor, playhead>>
          /\ scan.at = "off"
          /\ scan' = [at |-> "cursor", io |-> Len(ioq), bank |-> Len(bankLog),
                      mem |-> 0, now |-> 0, flood |-> FALSE]
      BY <1>1 DEF ScanHeads, captureVars, Out
    <2>2. 0 \in Places BY CtcAssumption DEF Places
    <2>3. Len(ioq) \in Nat BY DEF CtcTypes
    <2>4. /\ scan'.at = "cursor" /\ scan'.io = Len(ioq) /\ scan'.now = 0
          /\ scan' = [at |-> scan'.at, io |-> scan'.io, bank |-> scan'.bank,
                      mem |-> scan'.mem, now |-> scan'.now, flood |-> scan'.flood]
      BY <2>1
    <2> QED BY <2>1, <2>2, <2>3, <2>4 DEF CtcTypes
  <1>2. CASE ScanCursor
    <2>1. /\ UNCHANGED <<ring, ioq, ringHead, cursor, playhead>>
          /\ scan' = [scan EXCEPT !.at = IF cursor.valid THEN "guards" ELSE "first", !.now = ringHead,
                                  !.bank = IF bankReset THEN 0 ELSE @]
      BY <1>2 DEF ScanCursor
    <2>2. /\ scan'.io = scan.io /\ scan'.now = ringHead
          /\ scan' = [at |-> scan'.at, io |-> scan'.io, bank |-> scan'.bank,
                      mem |-> scan'.mem, now |-> scan'.now, flood |-> scan'.flood]
          /\ scan'.at = IF cursor.valid THEN "guards" ELSE "first"
      BY <2>1 DEF CtcTypes
    <2> QED BY <1>2, <2>1, <2>2 DEF CtcTypes, ScanCursor
  <1>3. CASE ScanFirst
    <2>1. /\ UNCHANGED <<ring, ioq, ringHead, playhead>>
          /\ cursor' = [valid |-> TRUE, at |-> scan.now]
          /\ scan' = [at |-> "end", io |-> 0, bank |-> 0, mem |-> 0, now |-> 0, flood |-> FALSE]
      BY <1>3 DEF ScanFirst, Out
    <2>2. 0 \in Places /\ Len(ioq) \in Nat BY CtcAssumption DEF Places, CtcTypes
    <2>3. /\ scan'.at = "end" /\ scan'.io = 0 /\ scan'.now = 0
          /\ scan' = [at |-> scan'.at, io |-> scan'.io, bank |-> scan'.bank,
                      mem |-> scan'.mem, now |-> scan'.now, flood |-> scan'.flood]
      BY <2>1
    <2> QED BY <2>1, <2>2, <2>3 DEF CtcTypes
  <1>4. CASE ScanTorn
    <2>1. /\ UNCHANGED <<ring, ioq, ringHead, playhead>>
          /\ cursor' = [cursor EXCEPT !.at = scan.now]
          /\ scan.at = "merge" /\ scan' = [scan EXCEPT !.mem = 0]
      BY <1>4 DEF ScanTorn, captureVars
    <2> QED BY <2>1 DEF CtcTypes
  <1>5. CASE TakeMem
    <2>1. /\ UNCHANGED <<ring, ioq, ringHead, playhead>>
          /\ cursor' = [cursor EXCEPT !.at = Place(@ + 1)]
          /\ scan.at = "merge"
          /\ \E n : scan' = [scan EXCEPT !.mem = @ - 1, !.bank = @ - n]
      BY <1>5 DEF TakeMem
    <2>2. Place(cursor.at + 1) \in Places BY PlaceOf, CtcAssumption DEF CtcTypes, Places
    <2> QED BY <2>1, <2>2 DEF CtcTypes
  <1>6. CASE TakeIo
    <2>1. /\ UNCHANGED <<ring, ringHead, playhead, cursor>>
          /\ scan.at = "merge" /\ scan' = [scan EXCEPT !.io = @ - 1]
          /\ ioq' = Tail(ioq) /\ scan.io > 0
      BY <1>6 DEF TakeIo, HasIo
    <2>2. ioq' \in Seq(PortWrites) /\ Len(ioq') = Len(ioq) - 1 BY <2>1 DEF CtcTypes
    <2> QED BY <2>1, <2>2 DEF CtcTypes
  <1>7. CASE ScanEnds \/ ScanReturns
    <2>1. UNCHANGED <<ring, ioq, ringHead, playhead, cursor>>
      BY <1>7 DEF ScanEnds, ScanReturns, captureVars
    <2>2. /\ \/ scan'.at = "end"
             \/ ScanReturns /\ scan'.at = "off"
          /\ scan'.io = 0 /\ scan'.now = 0
          /\ scan' = [at |-> scan'.at, io |-> scan'.io, bank |-> scan'.bank,
                      mem |-> scan'.mem, now |-> scan'.now, flood |-> scan'.flood]
      <3>1. CASE ScanEnds
        <4>1. scan' = [Out EXCEPT !.at = "end"] BY <3>1 DEF ScanEnds
        <4> QED BY <4>1 DEF Out
      <3>2. CASE ScanReturns
        <4>1. scan' = Out BY <3>2 DEF ScanReturns
        <4> QED BY <3>2, <4>1 DEF Out
      <3> QED BY <1>7, <3>1, <3>2
    <2>3. 0 \in Places /\ Len(ioq) \in Nat BY CtcAssumption DEF Places, CtcTypes
    <2> QED BY <2>1, <2>2, <2>3 DEF CtcTypes
  <1>8. CASE ScanGuards BY <1>8 DEF ScanGuards
  <1> QED BY <1>1, <1>2, <1>3, <1>4, <1>5, <1>6, <1>7, <1>8 DEF ScanStep

LEMMA GuardsKeep ==
    ASSUME PlayheadInv, ScanGuards, UNCHANGED <<i2sVars, guest>>, Processing("ctc")
    PROVE  PlayheadInv'
  <1> USE DEF PlayheadInv
  <1>1. /\ UNCHANGED <<current, ready, fillPos, fresh, swaps, poll, phase, guest>>
        /\ UNCHANGED <<ring, ioq, ringHead>>
        /\ scan.at = "guards" /\ poll.at = "writes" /\ "ctc" \in poll.todo
    BY DEF i2sVars, ScanGuards, captureVars, Processing
  <1>2. /\ cursor' = [cursor EXCEPT !.at = Pending.at]
        /\ playhead' = BeginBuffer(NewestAges(Pending))
        /\ scan' = [scan EXCEPT !.at = "merge", !.mem = Pending.n, !.flood = Pending.n >= FloodAt]
    BY DEF ScanGuards
  <1>3. /\ "ctc" \in guest.sources /\ fillPos = 0 /\ ~ready[poll.next] /\ MayScan
    BY <1>1 DEF Asking, MayScan, Processing
  <1>4. phase \in Nat /\ phase <= Frames - 1 /\ Frames \in Nat BY I2SAssumption DEF SoundTypes, Samples
  <1>5. playhead.set => playhead.lag >= 2 * Frames + phase + 1 /\ playhead.lag \in Nat
    BY <1>3, <1>4 DEF LagInv, SoundTypes, CtcTypes
  <1>6. Pending.at \in Places /\ Pending.n \in Nat BY PendingTypes DEF SoundTypes
  <1>7. /\ playhead' \in [set : BOOLEAN, lag : Nat]
        /\ playhead'.set => \/ playhead'.lag >= 2 * Frames
                            \/ playhead.set /\ playhead'.lag = playhead.lag - Frames
    <2>1. NewestAges(Pending) # {} => Min(NewestAges(Pending)) \in Nat
      BY <1>6, NewestIsAge DEF SoundTypes
    <2>2. playhead.set => playhead.lag >= 2 * Frames BY <1>4, <1>5
    <2> QED BY <1>2, <2>1, <2>2, BeginsBehind DEF SoundTypes
  <1>8. scan'.at = "merge" /\ CtcTypes' BY <1>1, <1>2, <1>6, <1>7 DEF SoundTypes, CtcTypes
  <1>9. SoundTypes' BY <1>1, <1>8 DEF SoundTypes, BufferTypes
  <1>10. Asking' BY <1>1 DEF Asking, Processing
  <1>11. ~MayScan' BY <1>1, <1>3, <1>8 DEF MayScan, Filling
  <1>12. LagInv' BY <1>1, <1>3, <1>4, <1>5, <1>7, <1>11 DEF LagInv
  <1> QED BY <1>9, <1>10, <1>12

\* A step that takes no time and moves no playhead.
LEMMA LagKeeps ==
    ASSUME SoundTypes, LagInv, UNCHANGED <<playhead, phase>>, guest'.sources = guest.sources,
           MayScan' => MayScan
    PROVE  LagInv'
  BY I2SAssumption DEF LagInv, SoundTypes, CtcTypes, Samples

LEMMA Core1Keeps == ASSUME PlayheadInv, Core1 PROVE PlayheadInv'
  <1> USE DEF PlayheadInv
  <1>1. /\ UNCHANGED i2sVars /\ UNCHANGED scanVars
        /\ \/ /\ guest' \in [sources : SUBSET {"psg", "ctc"}, program : Seq(Accesses),
                               races : BOOLEAN, late : Nat]
              /\ guest'.sources = guest.sources
           \/ UNCHANGED guest
        /\ CtcTypes'
    <2>1. CASE PsgPublishes
      BY <2>1 DEF PsgPublishes, ctcVars, captureVars, scanVars, SoundTypes, CtcTypes
    <2>2. CASE GuestPsg
      BY <2>2, GuestTypes DEF GuestPsg, Does, ctcVars, captureVars, scanVars, SoundTypes, CtcTypes
    <2>3. CASE GuestBank
      <3>1. CtcTypes' BY <2>3, CaptureTypes DEF GuestBank, Captured, Does, SoundTypes
      <3> QED BY <2>3, <3>1, GuestTypes DEF GuestBank, Captured, Does
    <2>4. CASE GuestMem
      <3>1. CtcTypes' BY <2>4, CaptureTypes, GuestTypes DEF GuestMem, Captured, Does, SoundTypes
      <3> QED BY <2>4, <3>1, GuestTypes DEF GuestMem, Captured, Does
    <2>5. CASE GuestPort
      <3>1. CtcTypes' BY <2>5, CaptureTypes, GuestTypes DEF GuestPort, Captured, Does, SoundTypes
      <3> QED BY <2>5, <3>1, GuestTypes DEF GuestPort, Captured, Does
    <2>6. CASE GuestReset
      <3>1. CtcTypes' BY <2>6, CaptureTypes DEF GuestReset, Captured, Does, SoundTypes
      <3> QED BY <2>6, <3>1, GuestTypes DEF GuestReset, Captured, Does
    <2> QED BY <2>1, <2>2, <2>3, <2>4, <2>5, <2>6 DEF Core1
  <1>2. UNCHANGED <<current, ready, fillPos, fresh, swaps, poll, phase, scan, playhead>>
    BY <1>1 DEF i2sVars, scanVars
  <1>3. SoundTypes' BY <1>1, <1>2 DEF SoundTypes, BufferTypes
  <1>4. Asking' BY <1>1, <1>2 DEF Asking, Processing
  <1>5. LagInv' BY <1>1, <1>2, LagKeeps DEF MayScan, Processing, Filling
  <1> QED BY <1>3, <1>4, <1>5

\* A sample is played: the present moves on by one, and the playhead's lag with it.
LEMMA TicksKeep == ASSUME PlayheadInv, PlayInv, Ticks PROVE PlayheadInv'
  <1> USE DEF PlayheadInv
  <1>1. /\ UNCHANGED guest
        /\ IF "ctc" \in guest.sources THEN CtcAges ELSE UNCHANGED ctcVars
        /\ DmaPlays \/ DmaEnds(guest.late)
    BY DEF Ticks
  <1>2. /\ CtcTypes' /\ scan' = scan /\ playhead'.set = playhead.set
        /\ playhead.set => playhead'.lag = Aged(playhead.lag)
    <2>1. CASE "ctc" \in guest.sources BY <1>1, <2>1, AgesTypes DEF SoundTypes
    <2>2. CASE "ctc" \notin guest.sources
      BY <1>1, <2>2 DEF ctcVars, captureVars, scanVars, SoundTypes, CtcTypes, LagInv
    <2> QED BY <2>1, <2>2
  <1>3. /\ phase' \in Samples /\ phase \in Samples
        /\ \/ phase' = phase + 1 /\ UNCHANGED <<ready, fillPos>>
           \/ phase = Frames - 1 /\ phase' = 0
    BY <1>1, I2SAssumption DEF DmaPlays, DmaEnds, Samples, SoundTypes
  <1>4. /\ poll'.at = poll.at /\ poll'.todo = poll.todo /\ poll'.next = poll.next
        /\ poll'.left = poll.left
    BY <1>1 DEF DmaPlays, DmaEnds, Ticked, SoundTypes, BufferTypes
  <1>5. poll.todo # {} => fillPos' = 0 /\ ~ready'[poll.next]
    BY <1>1 DEF DmaPlays, DmaEnds, Asking, SoundTypes, BufferTypes
  <1>6. BufferTypes'
    <2>1. CASE DmaPlays BY <2>1, PollKeeps DEF DmaPlays, Ticked, Filling, PlayInv, BufferTypes
    <2>2. CASE DmaEnds(guest.late) BY <2>2, SwapKeeps DEF PlayInv
    <2> QED BY <1>1, <2>1, <2>2
  <1>7. SoundTypes' BY <1>1, <1>2, <1>3, <1>6 DEF SoundTypes
  <1>8. Asking' BY <1>1, <1>2, <1>4, <1>5 DEF Asking, Processing
  <1>9. LagInv'
    <2> SUFFICES ASSUME playhead.set
                 PROVE  playhead'.lag >= Frames + phase' + 1 + (IF MayScan' THEN Frames ELSE 0)
      BY <1>1, <1>2 DEF LagInv
    <2>1. /\ playhead.lag \in Nat /\ Frames \in Nat \ {0} /\ phase \in 0..Frames - 1 /\ phase' \in 0..Frames - 1
          /\ playhead.lag >= Frames + phase + 1 + (IF MayScan THEN Frames ELSE 0)
      BY <1>3, I2SAssumption DEF LagInv, SoundTypes, CtcTypes, Samples
    <2>2. /\ playhead'.lag >= playhead.lag /\ playhead'.lag \in Nat
          /\ playhead'.lag >= 3 * Frames \/ playhead'.lag = playhead.lag + 1
      <3>1. playhead'.lag = Aged(playhead.lag) BY <1>2
      <3>2. \/ playhead'.lag = playhead.lag + 1
            \/ playhead'.lag = playhead.lag /\ playhead.lag >= 3 * Frames
        BY <2>1, <3>1, AgedMore
      <3> QED BY <2>1, <3>2
    <2>3. CASE phase' = phase + 1 /\ UNCHANGED <<ready, fillPos>>
      <3>1. MayScan' => MayScan BY <1>2, <1>4, <2>3 DEF MayScan, Processing, Filling
      <3> QED BY <2>1, <2>2, <2>3, <3>1
    <2>4. CASE phase = Frames - 1 /\ phase' = 0 BY <2>1, <2>2, <2>4
    <2> QED BY <1>3, <2>3, <2>4
  <1> QED BY <1>7, <1>8, <1>9

LEMMA ScansKeep == ASSUME PlayheadInv, CtcScans PROVE PlayheadInv'
  <1> USE DEF PlayheadInv
  <1>1. UNCHANGED guest /\ poll.at = "writes" /\ "ctc" \in poll.todo /\ Processing("ctc")
    BY DEF CtcScans, Processing
  <1>2. fillPos = 0 /\ ~ready[poll.next] BY <1>1 DEF Asking
  <1>3. CASE ScanGuards /\ UNCHANGED i2sVars BY <1>1, <1>3, GuardsKeep
  <1>4. CASE ScanStep /\ UNCHANGED i2sVars /\ ~ScanGuards
    <2>1. /\ CtcTypes' /\ playhead' = playhead
          /\ scan'.at \in {"cursor", "guards"} => scan.at \in {"off", "cursor"}
          /\ scan'.at = "off" => ScanReturns
      BY <1>4, ScanTypes DEF SoundTypes
    <2>2. UNCHANGED <<current, ready, fillPos, fresh, swaps, poll, phase>> BY <1>4 DEF i2sVars
    <2>3. ~ScanReturns
      BY <1>4 DEF ScanStep, ScanReturns, ScanHeads, ScanCursor, ScanFirst, ScanTorn, TakeMem, TakeIo, ScanEnds
    <2>4. SoundTypes' BY <1>1, <2>1, <2>2 DEF SoundTypes, BufferTypes
    <2>5. Asking' BY <1>1, <2>2 DEF Asking, Processing
    <2>6. MayScan' => MayScan BY <2>1, <2>2, <2>3 DEF MayScan, Processing, Filling
    <2>7. LagInv' BY <1>1, <2>1, <2>2, <2>6, LagKeeps
    <2> QED BY <2>4, <2>5, <2>7
  <1>5. CASE ScanReturns /\ SourceDone("ctc")
    <2>1. CtcTypes' /\ playhead' = playhead /\ scan'.at = "off"
      <3>1. scan.at # "guards" /\ scan'.at = "off" BY <1>5 DEF ScanReturns, Out
      <3> QED BY <1>5, <3>1, ScanTypes DEF SoundTypes
    <2>2. /\ UNCHANGED <<current, ready, fillPos, fresh, swaps, phase>>
          /\ poll' = [poll EXCEPT !.todo = @ \ {"ctc"}]
      BY <1>5 DEF SourceDone, dmaVars
    <2>3. /\ poll'.at = "writes" /\ poll'.todo = poll.todo \ {"ctc"} /\ poll'.next = poll.next
          /\ poll'.fill = poll.fill /\ poll'.left = poll.left
          /\ poll' = [at |-> poll'.at, next |-> poll'.next, todo |-> poll'.todo,
                      fill |-> poll'.fill, left |-> poll'.left, ticks |-> poll'.ticks]
      BY <1>1, <2>2 DEF SoundTypes, BufferTypes
    <2>4. SoundTypes' BY <1>1, <2>1, <2>2, <2>3 DEF SoundTypes, BufferTypes
    <2>5. Asking' BY <1>1, <1>2, <2>1, <2>2, <2>3 DEF Asking
    <2>6. ~MayScan' BY <1>2, <2>2, <2>3 DEF MayScan, Processing, Filling
    <2>7. LagInv' BY <1>1, <2>1, <2>2, <2>6, LagKeeps
    <2> QED BY <2>4, <2>5, <2>7
  <1> QED BY <1>3, <1>4, <1>5 DEF CtcScans

LEMMA PollsKeepLag ==
    ASSUME PlayheadInv, PlayInv, Polls \/ Renders \/ PsgTakes
    PROVE  PlayheadInv'
  <1> USE DEF PlayheadInv
  <1>1. UNCHANGED guest /\ UNCHANGED phase
    BY DEF Polls, Alone, Renders, PsgTakes, PollStart, PollTest, PollLoop, FillEnds, RenderSample,
           SourceDone, dmaVars, i2sVars
  <1>2. UNCHANGED <<ring, ioq, ringHead, cursor, playhead, scan>>
    BY DEF Polls, Alone, Renders, PsgTakes, ApplyDue, ctcVars, captureVars, scanVars
  <1>3. CtcTypes' BY <1>2 DEF SoundTypes, CtcTypes
  <1>4. BufferTypes'
    <2>1. [Next]_soundVars BY DEF Next, Core0
    <2> QED BY <2>1, PlayKept DEF PlayInv
  <1>5. SoundTypes' BY <1>1, <1>3, <1>4 DEF SoundTypes
  <1>6. Asking' /\ (MayScan' => MayScan)
    <2>1. CASE PollStart
      <3>1. poll.at = "idle" /\ UNCHANGED <<ready, fillPos>> /\ poll'.at = "test" /\ poll'.todo = {}
        BY <2>1 DEF PollStart, Asleep
      <3> QED BY <1>1, <1>2, <3>1 DEF Asking, MayScan, Processing, Filling
    <2>2. CASE PollTest(guest.sources)
      <3>1. /\ poll.at = "test" /\ UNCHANGED <<ready, fillPos>> /\ poll'.at = "writes"
            /\ poll'.next = poll.next
            /\ poll'.todo = IF fillPos = 0 /\ ~ready[poll.next] THEN guest.sources ELSE {}
        BY <2>2 DEF PollTest, SoundTypes, BufferTypes
      <3> QED BY <1>1, <1>2, <3>1 DEF Asking, MayScan, Processing, Filling
    <2>3. CASE PollLoop
      <3>1. poll.todo = {} /\ scan.at = "off" BY <2>3 DEF PollLoop, Asking, Processing
      <3>2. poll'.todo = {} /\ UNCHANGED <<ready, fillPos>>
        <4>1. poll' = Asleep => poll'.todo = {} BY DEF Asleep
        <4>2. ASSUME NEW b, NEW n, poll' = [poll EXCEPT !.at = "fill", !.fill = b, !.left = n]
              PROVE  poll'.todo = {}
          BY <3>1, <4>2 DEF SoundTypes, BufferTypes
        <4> QED BY <2>3, <4>1, <4>2 DEF PollLoop
      <3>3. CASE ~ready[poll.next] /\ fillPos < Frames
        <4>1. poll'.at = "fill" /\ poll'.left = Frames - fillPos
          BY <2>3, <3>3 DEF PollLoop, SoundTypes, BufferTypes
        <4>2. ~MayScan' BY <3>2, <4>1, I2SAssumption DEF MayScan, Filling, Processing
        <4> QED BY <1>1, <1>2, <3>1, <3>2, <4>2 DEF Asking
      <3>4. CASE ~(~ready[poll.next] /\ fillPos < Frames)
        <4>1. poll'.at = "idle" BY <2>3, <3>4 DEF PollLoop, Asleep
        <4>2. fillPos = 0 => ready[poll.next] BY <3>4, I2SAssumption
        <4>3. MayScan' => MayScan BY <2>3, <3>2, <4>2 DEF MayScan, PollLoop
        <4> QED BY <1>1, <1>2, <3>1, <3>2, <4>3 DEF Asking
      <3> QED BY <3>3, <3>4
    <2>4. CASE FillEnds
      <3>1. /\ poll.at = "fill" /\ poll.left = 0 /\ UNCHANGED fillPos
            /\ poll'.at = "loop" /\ poll'.todo = poll.todo
        BY <2>4 DEF FillEnds, SoundTypes, BufferTypes
      <3> QED BY <1>1, <1>2, <3>1, I2SAssumption DEF Asking, MayScan, Processing, Filling
    <2>5. CASE RenderSample
      <3>1. poll.at = "fill" /\ fillPos' = fillPos + 1 /\ poll'.todo = poll.todo
        BY <2>5 DEF RenderSample, SoundTypes, BufferTypes
      <3>2. fillPos' # 0 BY <3>1, I2SAssumption DEF SoundTypes, BufferTypes
      <3> QED BY <1>1, <1>2, <3>1, <3>2 DEF Asking, MayScan, Processing
    <2>6. CASE SourceDone("psg") /\ Processing("psg")
      <3>1. /\ poll.at = "writes" /\ poll'.at = "writes" /\ poll'.todo = poll.todo \ {"psg"}
            /\ poll'.next = poll.next /\ UNCHANGED <<ready, fillPos>> /\ "psg" \in poll.todo
        BY <2>6 DEF SourceDone, Processing, SoundTypes, BufferTypes
      <3> QED BY <1>1, <1>2, <3>1 DEF Asking, MayScan, Processing, Filling
    <2>7. CASE UNCHANGED i2sVars
      BY <1>1, <1>2, <2>7 DEF i2sVars, Asking, MayScan, Processing, Filling
    <2> QED BY <2>1, <2>2, <2>3, <2>4, <2>5, <2>6, <2>7 DEF Polls, Alone, Renders, PsgTakes
  <1>7. LagInv' BY <1>1, <1>2, <1>6, LagKeeps
  <1> QED BY <1>5, <1>6, <1>7

\* The playhead never catches up with the present, for every length of a buffer
\* and every guest, however early or late the buffers are filled.
THEOREM PlayheadStaysBehind == Spec => []PlayheadBehind
  <1>1. Init => PlayInv /\ PlayheadInv BY PlayStarts, SoundStarts DEF Init
  <1>2. PlayInv /\ PlayheadInv /\ [Next]_soundVars => PlayInv' /\ PlayheadInv'
    <2> SUFFICES ASSUME PlayInv, PlayheadInv, [Next]_soundVars PROVE PlayheadInv'
      BY PlayKept
    <2>1. CASE UNCHANGED soundVars
      BY <2>1 DEF soundVars, i2sVars, ctcVars, captureVars, scanVars, PlayheadInv, SoundTypes,
           BufferTypes, CtcTypes, Asking, LagInv, MayScan, Processing, Filling
    <2>2. CASE Next
      BY <2>2, Core1Keeps, TicksKeep, ScansKeep, PollsKeepLag DEF Next, Core0
    <2> QED BY <2>1, <2>2
  <1>3. PlayheadInv => PlayheadBehind
    <2> SUFFICES ASSUME PlayheadInv, playhead.set PROVE playhead.lag >= Frames
      BY DEF PlayheadBehind
    <2> QED BY I2SAssumption DEF PlayheadInv, LagInv, SoundTypes, CtcTypes, Samples
  <1> QED BY <1>1, <1>2, <1>3, PTL DEF Spec
=============================================================================
