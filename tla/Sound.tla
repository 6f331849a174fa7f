------------------------------- MODULE Sound --------------------------------
(* The sound path as a whole: core 1 records what the guest does to the PSG, *)
(* the beeper and the banks, core 0 polls, and the audio clock runs.         *)
EXTENDS Ctc, Psg

CONSTANTS Guests   \* what each guest does, in order: [sources, program, races, late]

MemAccesses == [what : {"mem"}, value : Seq({"on", "off", "open", "other"})]
Accesses ==
    MemAccesses
    \cup [what : {"bank"}, value : {"E1", "E3", "E5", "E6", "700", "800"}]
    \cup [what : {"port"}, value : {"on", "off", "open", "shut"}]
    \cup [what : {"psg"}, value : [latch : BOOLEAN, ch : Tones \cup {Noise}, vol : BOOLEAN, value : Nat]]
    \cup [what : {"reset"}, value : {"soft"}]

(* Between two samples the guest writes no more than the ring holds.         *)
ASSUME GuestsAssumption ==
    \A g \in Guests :
        /\ g \in [sources : SUBSET {"psg", "ctc"}, program : Seq(Accesses), races : BOOLEAN, late : Nat]
        /\ \A i \in 1..Len(g.program) :
              g.program[i] \in MemAccesses => Len(g.program[i].value) <= RingWords

VARIABLES guest    \* one of them, with what it has left to do

soundVars == <<i2sVars, ctcVars, psgVars, guest>>

Init ==
    /\ I2SInit
    /\ CtcInit
    /\ PsgInit
    /\ guest \in Guests

Does(what, Access(_)) ==
    /\ guest.program # <<>>
    /\ guest.program[1].what = what
    /\ guest' = [guest EXCEPT !.program = Tail(@)]
    /\ Access(guest.program[1].value)
    /\ UNCHANGED i2sVars

(* A guest in reset captures nothing until core 0 has seen the reset: the    *)
(* reset pulse is longer than the time between two polls.  Where a capture   *)
(* would commute with core 0's step it is left to the next.                  *)
Captured(what, Access(_)) ==
    /\ \/ poll.at = "idle"
       \/ scan.at = "cursor"
       \/ poll.at = "writes" /\ guest.races
    /\ ~bankReset
    /\ Does(what, Access)
    /\ UNCHANGED <<toneVars, scanVars, psgVars>>

GuestBank == Captured("bank", WriteBankPort)
GuestMem == Captured("mem", MemWrites)
GuestPort == Captured("port", WritePort)
GuestReset == LET Reset(v) == SoftReset IN Captured("reset", Reset)
GuestPsg == Does("psg", WriteData) /\ UNCHANGED ctcVars
PsgPublishes == PublishHead /\ UNCHANGED <<i2sVars, ctcVars, guest>>

Core1 == GuestBank \/ GuestMem \/ GuestPort \/ GuestReset \/ GuestPsg \/ PsgPublishes

Alone(Step) == Step /\ UNCHANGED <<ctcVars, psgVars, guest>>
Polls == Alone(PollStart \/ PollTest(guest.sources) \/ PollLoop \/ FillEnds)
Renders ==
    /\ RenderSample
    /\ IF "ctc" \in guest.sources THEN ApplyDue ELSE UNCHANGED ctcVars
    /\ UNCHANGED <<psgVars, guest>>
PsgTakes ==
    /\ Processing("psg")
    /\ \/ (TakeStart \/ TakeByte) /\ UNCHANGED i2sVars
       \/ TakeEnd /\ SourceDone("psg")
    /\ UNCHANGED <<ctcVars, guest>>
CtcScans ==
    /\ Processing("ctc")
    /\ \/ ScanStep /\ UNCHANGED i2sVars
       \/ ScanReturns /\ SourceDone("ctc")
    /\ UNCHANGED <<psgVars, guest>>

Core0 == Polls \/ Renders \/ PsgTakes \/ CtcScans

Ticks ==
    /\ DmaPlays \/ DmaEnds(guest.late)
    /\ IF "ctc" \in guest.sources THEN CtcAges ELSE UNCHANGED ctcVars
    /\ UNCHANGED <<psgVars, guest>>

Next == Core0 \/ Core1 \/ Ticks

Spec == Init /\ [][Next]_soundVars

-----------------------------------------------------------------------------
(* The playhead never catches up with the present: at the scan of a buffer   *)
(* it is at least one buffer behind, however early or late the fills of the  *)
(* two buffers come (pit8253_tone.hpp:23-28), so that no write arrives after *)
(* its place has been rendered.                                              *)
PlayheadBehind == (scan.at = "merge" /\ playhead.set) => playhead.lag >= Frames

(* Port and memory writes are merged in the order of their stamps, over      *)
(* buffers and streams, except memory writes that a flood drains early.      *)
(* Nothing is said of what reaches the chip: a full timeline applies a write *)
(* at once (ctc.cpp:354-360).                                                *)
MergedInOrder ==
    [][lastTaken' # lastTaken /\ ~Ticks => lastTaken' <= lastTaken]_soundVars

(* A memory write is judged by the banks the guest had when it made it, if   *)
(* no later switch was applied for its age before the write was looked at.   *)
Judged(e, k) == e.write = "other" \/ e.open = "dead" \/ SnoopActive(k) = (e.open = "yes")
JudgedByItsBanks ==
    [][(CtcScans /\ TakeMem) => lastAged < Oldest.age \/ Judged(Oldest, known')]_soundVars
=============================================================================
