------------------------------ MODULE I2SAudio ------------------------------
(* Audio output on core 0 (i2s_audio.cpp): two buffers of Frames samples, a  *)
(* DMA channel that plays one of them while i2s_audio_poll fills the other,  *)
(* and the DMA interrupt, which may fall between any two steps of the poll.  *)
(* Time is counted in samples: DmaPlays and DmaEnds are one sample each.     *)
EXTENDS Naturals, FiniteSets

CONSTANTS
    Frames,       \* samples per buffer (AUDIO_BUFFER_SIZE / 2)
    PollTicks     \* bound: samples played while one i2s_audio_poll runs

ASSUME I2SAssumption == /\ Frames \in Nat \ {0} /\ PollTicks \in Nat

VARIABLES
    current,      \* g_current_buffer, the buffer the DMA plays
    ready,        \* g_buffer_ready
    fillPos,      \* g_buffer_fill_pos
    fresh,        \* per buffer and sample: rendered and not played yet
    phase,        \* samples of the current buffer already played
    seen,         \* the sources have been asked since the last buffer ended
    late,         \* buffers so far that ended without that
    swaps,        \* swaps so far, at most SettledAt
    poll          \* core 0's place in i2s_audio_poll

i2sVars == <<current, ready, fillPos, fresh, phase, seen, late, swaps, poll>>

Buffers == {0, 1}
SettledAt == 4    \* the swap that has used up what start_audio left
Samples == 0..Frames - 1
Asleep == [at |-> "idle", next |-> 0, todo |-> {}, fill |-> 0, left |-> 0, ticks |-> 0]

(* After start_audio: both buffers rendered, buffer 0 playing, both flags set. *)
I2SInit ==
    /\ current = 0
    /\ ready = [b \in Buffers |-> TRUE]
    /\ fillPos = Frames
    /\ fresh = [b \in Buffers |-> [i \in Samples |-> b = 1]]
    /\ phase = 0
    /\ seen = FALSE
    /\ late = 0
    /\ swaps = 0
    /\ poll = Asleep

-----------------------------------------------------------------------------
(* The DMA.                                                                  *)

InTime == poll.at # "idle" => poll.ticks < PollTicks
Ticked == poll' = [poll EXCEPT !.ticks = IF poll.at = "idle" THEN 0 ELSE @ + 1]

DmaPlays ==
    /\ InTime
    /\ phase < Frames - 1
    /\ phase' = phase + 1
    /\ Ticked
    /\ UNCHANGED <<current, ready, fillPos, fresh, seen, late, swaps>>

(* dma_irq_handler: the other buffer when it is ready, else this one again.  *)
(* At most maxLate buffers end before the poll has seen the last one's end.  *)
DmaEnds(maxLate) ==
    LET other == 1 - current
    IN  /\ InTime
        /\ phase = Frames - 1
        /\ seen \/ late < maxLate
        /\ late' = IF seen THEN late ELSE late + 1
        /\ seen' = FALSE
        /\ phase' = 0
        /\ Ticked
        /\ \/ /\ ready[other]
              /\ current' = other
              /\ ready' = [ready EXCEPT ![other] = FALSE]
              /\ fillPos' = 0
              /\ fresh' = [fresh EXCEPT ![other] = [i \in Samples |-> FALSE]]
              /\ swaps' = IF swaps < SettledAt THEN swaps + 1 ELSE swaps
           \/ /\ ~ready[other]
              /\ UNCHANGED <<current, ready, fillPos, fresh, swaps>>

-----------------------------------------------------------------------------
(* The poll.                                                                 *)

dmaVars == <<current, phase, late, swaps>>

PollStart ==
    /\ poll.at = "idle"
    /\ poll' = [Asleep EXCEPT !.at = "test", !.next = 1 - current]
    /\ UNCHANGED <<dmaVars, seen, ready, fillPos, fresh>>

(* The sources take over what core 1 queued, once per buffer to fill.        *)
PollTest(sources) ==
    LET due == fillPos = 0 /\ ~ready[poll.next]
    IN  /\ poll.at = "test"
        /\ poll' = [poll EXCEPT !.at = "writes", !.todo = IF due THEN sources ELSE {}]
        /\ seen' = (seen \/ due)
        /\ UNCHANGED <<dmaVars, ready, fillPos, fresh>>

Processing(source) == poll.at = "writes" /\ source \in poll.todo
SourceDone(source) ==
    /\ poll' = [poll EXCEPT !.todo = @ \ {source}]
    /\ UNCHANGED <<dmaVars, seen, ready, fillPos, fresh>>

(* Mutant: the buffer that was chosen at the start of the poll is filled.    *)
PollLoopStale ==
    /\ poll.at = "loop" \/ (poll.at = "writes" /\ poll.todo = {})
    /\ IF ~ready[poll.next] /\ fillPos < Frames
       THEN poll' = [poll EXCEPT !.at = "fill", !.fill = poll.next, !.left = Frames - fillPos]
       ELSE poll' = Asleep
    /\ UNCHANGED <<dmaVars, seen, ready, fillPos, fresh>>

(* The loop tests the buffer whose index was read at the start of the poll;  *)
(* continue_fill_buffer reads the current index again.                       *)
PollLoop ==
    /\ poll.at = "loop" \/ (poll.at = "writes" /\ poll.todo = {})
    /\ IF ~ready[poll.next] /\ fillPos < Frames
       THEN poll' = [poll EXCEPT !.at = "fill", !.fill = 1 - current, !.left = Frames - fillPos]
       ELSE poll' = Asleep
    /\ UNCHANGED <<dmaVars, seen, ready, fillPos, fresh>>

RenderSample ==
    /\ poll.at = "fill"
    /\ poll.left > 0
    /\ fresh' = [fresh EXCEPT ![poll.fill][fillPos] = TRUE]
    /\ fillPos' = fillPos + 1
    /\ poll' = [poll EXCEPT !.left = @ - 1]
    /\ UNCHANGED <<dmaVars, seen, ready>>

FillEnds ==
    /\ poll.at = "fill"
    /\ poll.left = 0
    /\ ready' = IF fillPos >= Frames THEN [ready EXCEPT ![poll.fill] = TRUE] ELSE ready
    /\ poll' = [poll EXCEPT !.at = "loop"]
    /\ UNCHANGED <<dmaVars, seen, fillPos, fresh>>

-----------------------------------------------------------------------------
(* Every buffer is played whole and once: the interrupt swaps only to a      *)
(* buffer all of whose samples were rendered since it was last played, and   *)
(* the poll writes only the buffer that is not playing, and there only       *)
(* samples that do not wait to be played.  Not so before the third swap:     *)
(* start_audio leaves the flag of the playing buffer set, so buffer 0 is     *)
(* played twice, and a first poll that outlasts two buffers writes the       *)
(* playing one; what it wrote there is gone with the fourth.                 *)
PlaysInOrder ==
    [][ /\ swaps >= 3 /\ current' # current => \A i \in Samples : fresh[current'][i]
        /\ swaps >= 3 /\ RenderSample => poll.fill # current
        /\ swaps = SettledAt /\ RenderSample => ~fresh[poll.fill][fillPos]
      ]_i2sVars
=============================================================================
