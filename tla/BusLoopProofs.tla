---------------------------- MODULE BusLoopProofs ----------------------------
(***************************************************************************)
(* The lockout of BusLoop, proved for every configuration, guest and FIFO   *)
(* size: a core programs the flash only while the other spins in RAM.       *)
(*                                                                         *)
(* The argument follows the lockout word.  Whoever owns the mutex has sent  *)
(* exactly one word, and that word is either still with the other core or   *)
(* back as its answer; where it is says whether the other core is parked.   *)
(***************************************************************************)
EXTENDS BusLoop, SequenceTheorems, FiniteSetTheorems, WellFoundedInduction, TLAPS

Places == {"out", "guard", "mutex", "ack", "flash", "endmutex", "endack"}
Words == {"none", "start", "end"}

LockTypes == /\ flash \in [Cores -> Places]
             /\ mutex \in {{}, {0}, {1}}
             /\ req \in [Cores -> Words] /\ ans \in [Cores -> Words]
             /\ parked \in [Cores -> BOOLEAN]

\* Core c has no word under way, and the other core is parked or not.
Quiet(c, stopped) == parked[1 - c] = stopped /\ req[1 - c] = "none" /\ ans[c] = "none"

\* The word of core c is with the other core, or answered: the answer to a word
\* is given with the change it asks for.
UnderWay(c, word, stopped) ==
    \/ req[1 - c] = word /\ parked[1 - c] = ~stopped /\ ans[c] = "none"
    \/ req[1 - c] = "none" /\ parked[1 - c] = stopped /\ ans[c] = word

LockoutOf(c) ==
    /\ c \in mutex <=> flash[c] \in {"ack", "endack"}
    /\ flash[c] \in {"out", "guard", "mutex"} => Quiet(c, FALSE)
    /\ flash[c] \in {"flash", "endmutex"} => Quiet(c, TRUE)
    /\ flash[c] = "ack" => UnderWay(c, "start", TRUE)
    /\ flash[c] = "endack" => UnderWay(c, "end", FALSE)

LockInv == LockTypes /\ \A c \in Cores : LockoutOf(c)

LEMMA OtherCore == ASSUME NEW c \in Cores
                   PROVE  1 - c \in Cores /\ 1 - (1 - c) = c /\ 1 - c # c /\ Cores = {c, 1 - c}
  BY DEF Cores

LEMMA LockInit == Init => LockInv
  BY OtherCore DEF Init, LockInv, LockTypes, LockoutOf, Quiet, UnderWay, Cores, Places, Words

\* A core that owns nothing and goes to wait for the mutex, the guard or nothing.
LEMMA Approaches ==
    ASSUME LockInv, NEW c \in Cores, NEW p \in {"out", "guard", "mutex"},
           flash[c] \in {"out", "guard", "mutex"},
           flash' = [flash EXCEPT ![c] = p], UNCHANGED <<mutex, req, ans, parked>>
    PROVE  LockInv'
  <1>1. LockTypes' BY DEF LockInv, LockTypes, Places
  <1>2. ASSUME NEW d \in Cores PROVE LockoutOf(d)'
    BY <1>2, <1>1 DEF LockInv, LockTypes, LockoutOf, Quiet, UnderWay
  <1> QED BY <1>1, <1>2 DEF LockInv

LEMMA HandKeeps ==
    ASSUME LockInv, NEW c \in Cores,
           Hand(c, "mutex", "ack", "start") \/ Hand(c, "endmutex", "endack", "end")
    PROVE  LockInv'
  <1> USE OtherCore
  <1>0. c \in {0, 1} BY DEF Cores
  <1>1. LockTypes' BY <1>0 DEF LockInv, LockTypes, Places, Words, Hand
  <1>2. LockoutOf(c)' BY <1>1 DEF LockInv, LockTypes, LockoutOf, Quiet, UnderWay, Hand
  <1>3. LockoutOf(1 - c)' BY <1>1 DEF LockInv, LockTypes, LockoutOf, Quiet, UnderWay, Hand
  <1> QED BY <1>1, <1>2, <1>3 DEF LockInv

LEMMA AnsweredKeeps ==
    ASSUME LockInv, NEW c \in Cores,
           Answered(c, "ack", "flash", "start") \/ Answered(c, "endack", "out", "end")
    PROVE  LockInv'
  <1> USE OtherCore
  <1>0. c \in {0, 1} BY DEF Cores
  <1>1. LockTypes' BY <1>0 DEF LockInv, LockTypes, Places, Words, Answered
  <1>2. LockoutOf(c)' BY <1>1 DEF LockInv, LockTypes, LockoutOf, Quiet, UnderWay, Answered
  <1>3. LockoutOf(1 - c)'
    BY <1>0, <1>1 DEF LockInv, LockTypes, LockoutOf, Quiet, UnderWay, Answered
  <1> QED BY <1>1, <1>2, <1>3 DEF LockInv

LEMMA ProgramKeeps == ASSUME LockInv, NEW c \in Cores, Program(c) PROVE LockInv'
  <1> USE OtherCore
  <1>1. LockTypes' BY DEF LockInv, LockTypes, Places, Program
  <1>2. LockoutOf(c)' BY <1>1 DEF LockInv, LockTypes, LockoutOf, Quiet, UnderWay, Program
  <1>3. LockoutOf(1 - c)' BY <1>1 DEF LockInv, LockTypes, LockoutOf, Quiet, UnderWay, Program
  <1> QED BY <1>1, <1>2, <1>3 DEF LockInv

\* The handler of core c moves the word of the other core on, and no other.
LEMMA HandlerKeeps == ASSUME LockInv, NEW c \in Cores, LockoutHandler(c) PROVE LockInv'
  <1> USE OtherCore
  <1>1. LockTypes' BY DEF LockInv, LockTypes, Words, LockoutHandler
  <1>2. LockoutOf(c)' BY <1>1 DEF LockInv, LockTypes, LockoutOf, Quiet, UnderWay, LockoutHandler
  <1>3. LockoutOf(1 - c)'
    BY <1>1 DEF LockInv, LockTypes, LockoutOf, Quiet, UnderWay, LockoutHandler
  <1> QED BY <1>1, <1>2, <1>3 DEF LockInv

LEMMA FlashStepKeeps == ASSUME LockInv, NEW c \in Cores, FlashStep(c) PROVE LockInv'
  <1>1. CASE c = 1 /\ GuardEnter
    BY <1>1, Approaches DEF GuardEnter
  <1>2. CASE LockoutStart(c) BY <1>2, HandKeeps, AnsweredKeeps DEF LockoutStart
  <1>3. CASE Program(c) BY <1>3, ProgramKeeps
  <1>4. CASE LockoutEnd(c) BY <1>4, HandKeeps, AnsweredKeeps DEF LockoutEnd
  <1>5. CASE LockoutHandler(c) BY <1>5, HandlerKeeps
  <1> QED BY <1>1, <1>2, <1>3, <1>4, <1>5 DEF FlashStep

\* A reboot, at whatever moment, leaves no lockout under way.
LEMMA RebootKeeps == Reboot => LockInv'
  BY OtherCore DEF Reboot, LockInv, LockTypes, LockoutOf, Quiet, UnderWay, Cores, Places, Words

LEMMA StillKeeps == LockInv /\ UNCHANGED lock => LockInv'
  BY DEF LockInv, LockTypes, LockoutOf, Quiet, UnderWay, lock

LEMMA HandlersKeep ==
    ASSUME LockInv, NEW L, NEW from, NEW to, Handlers(L, from, to) PROVE LockInv'
  <1>1. PICK f \in {"out", "guard"} : flash' = [flash EXCEPT ![1] = f]
    BY DEF Handlers
  <1>2. flash[1] = "out" /\ UNCHANGED <<mutex, req, ans, parked>>
    BY DEF Handlers, Goes, Free, Aside
  <1> QED BY <1>1, <1>2, Approaches DEF Cores

LEMMA FlushKeeps ==
    ASSUME LockInv, NEW c \in Cores, FlushNext(c), flash[c] = "out",
           UNCHANGED <<mutex, req, ans, parked>>
    PROVE  LockInv'
  <1>1. PICK p \in {"guard", "mutex"} : flash' = [flash EXCEPT ![c] = p]
    BY DEF FlushNext
  <1> QED BY <1>1, Approaches

LEMMA Core0Keeps == ASSUME LockInv, Core0 PROVE LockInv'
  <1>1. CASE ResetHandler BY <1>1, StillKeeps DEF ResetHandler
  <1>2. CASE HardFlush BY <1>2, FlushKeeps DEF HardFlush, Cores
  <1>3. CASE WatchdogReboot BY <1>3, RebootKeeps DEF WatchdogReboot
  <1>4. CASE FlashStep(0) BY <1>4, FlashStepKeeps DEF Cores
  <1> QED BY <1>1, <1>2, <1>3, <1>4 DEF Core0

LEMMA Core1Keeps == ASSUME LockInv, Core1 PROVE LockInv'
  <1>1. CASE Boot \/ RestartBusSms \/ SoftReset
    BY <1>1, StillKeeps DEF Boot, RestartBusSms, SoftReset
  <1>2. CASE TakeRead \/ ReadHigh \/ DrivePins \/ Verdict \/ ReadRelease \/ ReadEnds \/ DrainRead
    <2>1. UNCHANGED lock
      BY <1>2 DEF TakeRead, ReadHigh, DrivePins, Verdict, ReadRelease, ReadEnds, DrainRead,
                  Aside, lock, loop
    <2> QED BY <2>1, StillKeeps
  <1>3. CASE TakeWrite \/ WriteWords \/ DrainWrite \/ WriteRelease
    <2>1. UNCHANGED lock
      BY <1>3 DEF TakeWrite, WriteWords, DrainWrite, WriteRelease, Aside, lock, loop
    <2> QED BY <2>1, StillKeeps
  <1>4. CASE ReadHandler \/ WriteHandler
    BY <1>4, HandlersKeep DEF ReadHandler, WriteHandler
  <1>5. CASE SoftFlush
    <2>1. CASE FlushNext(1)
      BY <1>5, <2>1, FlushKeeps DEF SoftFlush, Free, Cores
    <2>2. CASE UNCHANGED flash
      BY <1>5, <2>2, StillKeeps DEF SoftFlush, lock
    <2> QED BY <1>5, <2>1, <2>2 DEF SoftFlush
  <1>6. CASE FlashStep(1) BY <1>6, FlashStepKeeps DEF Cores
  <1> QED BY <1>1, <1>2, <1>3, <1>4, <1>5, <1>6 DEF Core1

LEMMA LockStep == LockInv /\ [Next]_vars => LockInv'
  <1> SUFFICES ASSUME LockInv, [Next]_vars PROVE LockInv'
    OBVIOUS
  <1>1. CASE Core0 BY <1>1, Core0Keeps
  <1>2. CASE Core1 BY <1>2, Core1Keeps
  <1>3. CASE WatchdogBites BY <1>3, RebootKeeps DEF WatchdogBites
  <1>4. CASE Machines \/ EndCycle \/ StartCycle \/ PressReset \/ ReleaseReset \/ TimePasses
    BY <1>4, StillKeeps DEF Machines, ReadMachine, WriteMachine, EndCycle, StartCycle, PressReset,
                            ReleaseReset, TimePasses
  <1>5. CASE UNCHANGED vars BY <1>5, StillKeeps DEF vars
  <1> QED BY <1>1, <1>2, <1>3, <1>4, <1>5 DEF Next

\* The word of a lockout is never lost, doubled or answered for another one.
THEOREM LockoutSound == Spec => []LockInv
  <1> QED BY LockInit, LockStep, PTL DEF Spec

\* A core is parked only at a place where it executes nothing of the flash: core
\* 0 in its main loop, core 1 before it has the mutex.
Standing == /\ pc = [c \in Cores |-> pc[c]]
            /\ pc[0] = "run" => flash[0] = "out"
            /\ parked[0] => pc[0] = "run"
            /\ parked[1] => flash[1] \in {"out", "guard", "mutex"}

LEMMA StandingInit == Init => Standing
  BY DEF Init, Booting, Standing, Cores

\* What keeps Standing where pc[0] and the lockouts stay.
LEMMA StillStands ==
    ASSUME Standing, UNCHANGED lock, \/ UNCHANGED pc
                                     \/ \E to : pc' = [pc EXCEPT ![1] = to]
    PROVE  Standing'
  BY DEF Standing, lock, Cores

\* Core 1 sets out for the flash, or goes on without it.
LEMMA SetsOut ==
    ASSUME LockInv, Standing, flash[1] = "out", NEW p \in {"out", "guard"},
           flash' = [flash EXCEPT ![1] = p], UNCHANGED <<mutex, req, ans, parked>>,
           \/ UNCHANGED pc
           \/ \E to : pc' = [pc EXCEPT ![1] = to]
    PROVE  Standing'
  BY DEF LockInv, LockTypes, Standing, Cores

LEMMA RebootStands == Reboot => Standing'
  BY DEF Reboot, Booting, Standing, Cores

LEMMA FlashStepStands ==
    ASSUME LockInv, Standing, NEW c \in Cores, FlashStep(c) PROVE Standing'
  <1>0. c \in {0, 1} /\ UNCHANGED pc BY DEF Cores, FlashStep
  <1>1. CASE c = 1 /\ GuardEnter
    BY <1>0, <1>1 DEF GuardEnter, Runs, Standing, LockInv, LockTypes, Cores
  <1>2. CASE LockoutStart(c)
    BY <1>0, <1>2 DEF LockoutStart, Hand, Answered, Runs, Standing, LockInv, LockTypes, Cores
  <1>3. CASE Program(c)
    BY <1>0, <1>3 DEF Program, Standing, LockInv, LockTypes, Cores
  <1>4. CASE LockoutEnd(c)
    BY <1>0, <1>4 DEF LockoutEnd, Hand, Answered, Runs, Standing, LockInv, LockTypes, Cores
  <1>5. CASE LockoutHandler(c)
    \* A core that takes the word "start" is not one that owns the mutex or has
    \* the other parked.
    <2>1. parked'[0] => pc[0] = "run"
      BY <1>0, <1>5 DEF LockoutHandler, IrqOn, Standing, LockInv, LockTypes, Cores
    <2>2. ASSUME c = 1, ~parked[1], req[1] = "start" PROVE flash[1] # "endmutex"
      BY <2>2 DEF LockInv, LockTypes, LockoutOf, Quiet, UnderWay, Standing, Cores, Places
    <2>3. parked'[1] => flash[1] \in {"out", "guard", "mutex"}
      BY <1>0, <1>5, <2>2 DEF LockoutHandler, IrqOn, Standing, LockInv, LockTypes, Cores, Places
    <2> QED BY <1>0, <1>5, <2>1, <2>3 DEF LockoutHandler, Standing
  <1> QED BY <1>1, <1>2, <1>3, <1>4, <1>5 DEF FlashStep

LEMMA Core0Stands == ASSUME LockInv, Standing, Core0 PROVE Standing'
  <1>1. CASE ResetHandler
    BY <1>1 DEF ResetHandler, Standing, LockInv, LockTypes, lock, Cores
  <1>2. CASE HardFlush
    BY <1>2 DEF HardFlush, FlushNext, Standing, LockInv, LockTypes, Cores
  <1>3. CASE WatchdogReboot BY <1>3, RebootStands DEF WatchdogReboot
  <1>4. CASE FlashStep(0) BY <1>4, FlashStepStands DEF Cores
  <1> QED BY <1>1, <1>2, <1>3, <1>4 DEF Core0

LEMMA Core1Stands == ASSUME LockInv, Standing, Core1 PROVE Standing'
  <1>1. CASE Boot \/ RestartBusSms \/ SoftReset
    BY <1>1, StillStands DEF Boot, RestartBusSms, SoftReset, Goes
  <1>2. CASE TakeRead \/ ReadHigh \/ DrivePins \/ Verdict \/ ReadRelease \/ ReadEnds \/ DrainRead
    <2>1. UNCHANGED lock
      BY <1>2 DEF TakeRead, ReadHigh, DrivePins, Verdict, ReadRelease, ReadEnds, DrainRead,
                  Aside, lock, loop
    <2>2. \E to : pc' = [pc EXCEPT ![1] = to]
      BY <1>2 DEF TakeRead, ReadHigh, DrivePins, Verdict, ReadRelease, ReadEnds, DrainRead, Goes
    <2> QED BY <2>1, <2>2, StillStands
  <1>3. CASE TakeWrite \/ WriteWords \/ DrainWrite \/ WriteRelease
    <2>1. UNCHANGED lock
      BY <1>3 DEF TakeWrite, WriteWords, DrainWrite, WriteRelease, Aside, lock, loop
    <2>2. \E to : pc' = [pc EXCEPT ![1] = to]
      BY <1>3 DEF TakeWrite, WriteWords, DrainWrite, WriteRelease, Goes
    <2> QED BY <2>1, <2>2, StillStands
  <1>4. CASE ReadHandler \/ WriteHandler
    <2>1. PICK L, from, to : Handlers(L, from, to)
      BY <1>4 DEF ReadHandler, WriteHandler
    <2>2. PICK f \in {"out", "guard"} : flash' = [flash EXCEPT ![1] = f]
      BY <2>1 DEF Handlers
    <2>3. flash[1] = "out" /\ UNCHANGED <<mutex, req, ans, parked>> /\ pc' = [pc EXCEPT ![1] = to]
      BY <2>1 DEF Handlers, Goes, Free, Aside
    <2> QED BY <2>2, <2>3, SetsOut
  <1>5. CASE SoftFlush
    <2>1. flash[1] = "out" BY <1>5 DEF SoftFlush, Free
    <2>2. CASE FlushNext(1) /\ UNCHANGED pc
      <3>1. flash' = [flash EXCEPT ![1] = "guard"] BY <2>2 DEF FlushNext
      <3> QED BY <1>5, <2>1, <2>2, <3>1, SetsOut DEF SoftFlush
    <2>3. CASE UNCHANGED flash /\ pc' = [pc EXCEPT ![1] = "restart"]
      BY <1>5, <2>3, StillStands DEF SoftFlush, lock
    <2> QED BY <1>5, <2>2, <2>3 DEF SoftFlush
  <1>6. CASE FlashStep(1) BY <1>6, FlashStepStands DEF Cores
  <1> QED BY <1>1, <1>2, <1>3, <1>4, <1>5, <1>6 DEF Core1

LEMMA StandingStep == LockInv /\ Standing /\ [Next]_vars => Standing'
  <1> SUFFICES ASSUME LockInv, Standing, [Next]_vars PROVE Standing'
    OBVIOUS
  <1>1. CASE Core0 BY <1>1, Core0Stands
  <1>2. CASE Core1 BY <1>2, Core1Stands
  <1>3. CASE WatchdogBites BY <1>3, RebootStands DEF WatchdogBites
  <1>4. CASE Machines \/ EndCycle \/ StartCycle \/ PressReset \/ ReleaseReset \/ TimePasses
    BY <1>4, StillStands DEF Machines, ReadMachine, WriteMachine, EndCycle, StartCycle, PressReset,
                             ReleaseReset, TimePasses
  <1>5. CASE UNCHANGED vars BY <1>5, StillStands DEF vars
  <1> QED BY <1>1, <1>2, <1>3, <1>4, <1>5 DEF Next

\* No core programs the flash unless the lockout holds the other one, which has
\* started no operation of its own, whatever ports the guest uses and wherever a
\* reset or a reboot falls.
THEOREM FlashNeverTorn == Spec => []NoTornFlash
  <1>1. Spec => []Standing
    BY StandingInit, StandingStep, LockoutSound, PTL DEF Spec
  <1>2. LockInv /\ Standing => NoTornFlash
    BY DEF LockInv, LockTypes, LockoutOf, Quiet, Standing, NoTornFlash, Cores
  <1> QED BY <1>1, <1>2, LockoutSound, PTL

-----------------------------------------------------------------------------
(***************************************************************************)
(* The words between the state machines and the loop of core 1, proved for  *)
(* every FIFO size, guest and configuration: core 1 takes each word for     *)
(* what the machine pushed it as.                                           *)
(*                                                                         *)
(* The read machine waits for a verdict, so of its words there is never     *)
(* more than one read under way, in one of six stages.  The write machine   *)
(* does not wait: the kind of each of its words follows from how many words *)
(* came before it, counted from where core 1 is.                            *)
(***************************************************************************)

LowWords == {Low(p) : p \in Ports}
Word == LowWords \cup {<<"high">>, <<"data">>}
Cycles == {NoCycle} \cup [kind : {"read", "write"}, port : Ports, held : BOOLEAN]

WordTypes == /\ ini \in Inis /\ cycle \in Cycles
             /\ pc = [c \in Cores |-> pc[c]]
             /\ wx \in Seq(Word)
             /\ rsm \in {"idle", "high", "pull", "drive", "end"}
             /\ wsm \in {"idle", "high", "data", "end"}

\* ---------------------------------------------------------------- reads ----
InRead == {"high", "drain", "call", "pins", "verdict"}
NoRead == rsm \in {"idle", "drive", "end"} /\ rx = <<>> /\ tx = <<>> /\ pc[1] \notin InRead
LowPushed == \E w \in LowWords : rsm = "high" /\ rx = <<w>> /\ tx = <<>> /\ pc[1] \notin InRead
BothPushed == \E w \in LowWords : rsm = "pull" /\ rx = <<w, <<"high">>>> /\ tx = <<>> /\ pc[1] \notin InRead
LowTaken == rsm = "high" /\ rx = <<>> /\ tx = <<>> /\ pc[1] \in {"high", "drain"}
HighWaits == rsm = "pull" /\ rx = <<<<"high">>>> /\ tx = <<>> /\ pc[1] \in {"high", "drain"}
Handled == rsm = "pull" /\ rx = <<>> /\ tx = <<>> /\ pc[1] \in {"call", "pins", "verdict"}
Judged == \E v \in {0, 1} : rsm = "pull" /\ rx = <<>> /\ tx = <<v>> /\ pc[1] \notin InRead

ReadStages == NoRead \/ LowPushed \/ BothPushed \/ LowTaken \/ HighWaits \/ Handled \/ Judged

\* --------------------------------------------------------------- writes ----
\* The words of the write at hand core 1 has taken, and those pushed of it.
Taken == IF pc[1] \in {"whigh", "wdrain"} THEN 1 ELSE 0
Pushed == CASE wsm = "high" -> 1 [] wsm = "data" -> 2 [] OTHER -> 0
KindAt(n) == IF n % 3 = 0 THEN "low" ELSE IF n % 3 = 1 THEN "high" ELSE "data"

WriteKinds == /\ \A i \in 1 .. Len(wx) : wx[i][1] = KindAt(Taken + i - 1)
              /\ (Taken + Len(wx)) % 3 = Pushed

WordInv == WordTypes /\ ReadStages /\ WriteKinds

LEMMA Thirds ==
    /\ 0 % 3 = 0 /\ 1 % 3 = 1 /\ 2 % 3 = 2
    /\ \A n \in Nat : /\ (n + 3) % 3 = (n % 3) /\ n % 3 \in 0 .. 2
                     /\ (n + 1) % 3 = IF n % 3 = 2 THEN 0 ELSE (n % 3) + 1
  OBVIOUS

LEMMA TwoWords == ASSUME NEW a, NEW b PROVE Append(<<a>>, b) = <<a, b>>
  <1> DEFINE S == {a, b}
  <1>1. <<a>> \in Seq(S) /\ <<a, b>> \in Seq(S) OBVIOUS
  <1>2. Append(<<a>>, b) \in Seq(S) /\ Len(Append(<<a>>, b)) = 2 BY <1>1
  <1>3. \A i \in 1 .. 2 : Append(<<a>>, b)[i] = <<a, b>>[i] BY <1>1
  <1> HIDE DEF S
  <1> QED BY <1>1, <1>2, <1>3, SeqEqual

LEMMA OneWord == ASSUME NEW a PROVE Append(<<>>, a) = <<a>>
  OBVIOUS

LEMMA WordsInit == Init => WordInv
  <1> SUFFICES ASSUME Init PROVE WordInv OBVIOUS
  <1>1. WordTypes
    BY DEF Init, ManagerInit, Booting, WordTypes, Cycles, Cores
  <1>2. ReadStages
    BY DEF Init, Booting, ReadStages, NoRead, InRead, Cores
  <1>3. WriteKinds
    BY DEF Init, Booting, WriteKinds, Taken, Pushed, Cores
  <1> QED BY <1>1, <1>2, <1>3 DEF WordInv

\* ---------------------------------------------------- the write machine ----
\* A word is pushed behind the others, and is of the kind its place asks for.
LEMMA PushedWord ==
    ASSUME wx \in Seq(Word), WriteKinds, UNCHANGED pc, NEW w \in Word,
           wx' = Append(wx, w), w[1] = KindAt(Pushed), Pushed' = (Pushed + 1) % 3
    PROVE  wx' \in Seq(Word) /\ WriteKinds'
  <1>1. Taken \in {0, 1} /\ Taken' = Taken BY DEF Taken
  <1>2. Len(wx') = Len(wx) + 1 /\ Len(wx) \in Nat /\ wx' \in Seq(Word) OBVIOUS
  <1>3. (Taken + Len(wx)) % 3 = Pushed BY DEF WriteKinds
  <1>4. Pushed \in {0, 1, 2} BY DEF Pushed
  <1>5. ASSUME NEW i \in 1 .. Len(wx') PROVE wx'[i][1] = KindAt(Taken' + i - 1)
    <2>1. CASE i \in 1 .. Len(wx)
      BY <1>1, <2>1 DEF WriteKinds
    <2>2. CASE i = Len(wx) + 1
      <3>1. wx'[i] = w BY <2>2, <1>2
      <3>2. Taken + i - 1 = Taken + Len(wx) BY <2>2, <1>1, <1>2
      <3> QED BY <3>1, <3>2, <1>1, <1>3, <1>4, Thirds DEF KindAt
    <2> QED BY <1>2, <2>1, <2>2
  <1>6. (Taken' + Len(wx')) % 3 = Pushed'
    <2>1. Taken' + Len(wx') = (Taken + Len(wx)) + 1 /\ Taken + Len(wx) \in Nat BY <1>1, <1>2
    <2>2. (Pushed + 1) % 3 = IF Pushed = 2 THEN 0 ELSE Pushed + 1
      BY <1>4, Thirds
    <2> DEFINE n == Taken + Len(wx)
    <2>3. (n + 1) % 3 = IF n % 3 = 2 THEN 0 ELSE (n % 3) + 1
      <3> HIDE DEF n
      <3> QED BY Thirds, <2>1 DEF n
    <2> QED BY <2>1, <2>2, <2>3, <1>3
  <1> QED BY <1>2, <1>5, <1>6 DEF WriteKinds

LEMMA WriteMachineKeeps == ASSUME WordInv, WriteMachine PROVE WordInv'
  <1> USE DEF WordInv
  <1>0. UNCHANGED <<ini, cycle, pc, rsm, rx, tx>>
    BY DEF WriteMachine, managerVars, z80
  <1>1. ReadStages'
    BY <1>0 DEF ReadStages, NoRead, LowPushed, BothPushed, LowTaken, HighWaits, Handled, Judged
  <1>2. wx' \in Seq(Word) /\ WriteKinds' /\ wsm' \in {"idle", "high", "data", "end"}
    <2>1. CASE wsm = "idle" /\ Writing /\ wx' = Append(wx, Low(cycle.port)) /\ wsm' = "high"
      <3>1. Low(cycle.port) \in Word /\ Low(cycle.port)[1] = "low"
        BY <2>1 DEF WordTypes, Cycles, NoCycle, Writing, Word, LowWords, Low
      <3>2. Low(cycle.port)[1] = KindAt(Pushed) /\ Pushed' = (Pushed + 1) % 3
        BY <2>1, <3>1, Thirds DEF Pushed, KindAt
      <3> QED BY <2>1, <1>0, <3>1, <3>2, PushedWord DEF WordTypes
    <2>2. CASE wsm = "high" /\ wx' = Append(wx, <<"high">>) /\ wsm' = "data"
      <3>1. <<"high">> \in Word /\ <<"high">>[1] = KindAt(Pushed) /\ Pushed' = (Pushed + 1) % 3
        BY <2>2, Thirds DEF Pushed, KindAt, Word
      <3> QED BY <2>2, <1>0, <3>1, PushedWord DEF WordTypes
    <2>3. CASE wsm = "data" /\ wx' = Append(wx, <<"data">>) /\ wsm' = "end"
      <3>1. <<"data">> \in Word /\ <<"data">>[1] = KindAt(Pushed) /\ Pushed' = (Pushed + 1) % 3
        BY <2>3, Thirds DEF Pushed, KindAt, Word
      <3> QED BY <2>3, <1>0, <3>1, PushedWord DEF WordTypes
    <2>4. CASE wsm = "end" /\ wsm' = "idle" /\ UNCHANGED wx
      BY <2>4, <1>0 DEF WordTypes, WriteKinds, Taken, Pushed
    <2> QED BY <2>1, <2>2, <2>3, <2>4 DEF WriteMachine
  <1> QED BY <1>0, <1>1, <1>2 DEF WordTypes

\* ----------------------------------------------------- the read machine ----
LEMMA ReadMachineKeeps == ASSUME WordInv, ReadMachine PROVE WordInv'
  <1> USE DEF WordInv
  <1>0. UNCHANGED <<ini, cycle, pc, wsm, wx>>
    BY DEF ReadMachine, managerVars, z80
  <1>1. WriteKinds' BY <1>0 DEF WriteKinds, Taken, Pushed
  <1>2. rsm' \in {"idle", "high", "pull", "drive", "end"}
    BY DEF ReadMachine
  <1>3. ReadStages'
    <2> USE DEF NoRead, LowPushed, BothPushed, LowTaken, HighWaits, Handled, Judged
    <2>1. CASE rsm = "idle" /\ Reading /\ rx' = Append(rx, Low(cycle.port)) /\ rsm' = "high" /\ UNCHANGED tx
      <3>1. Low(cycle.port) \in LowWords
        BY <2>1 DEF WordTypes, Cycles, NoCycle, Reading, LowWords
      <3>2. LowPushed' BY <2>1, <1>0, <3>1 DEF ReadStages
      <3> QED BY <3>2 DEF ReadStages
    <2>2. CASE rsm = "high" /\ rx' = Append(rx, <<"high">>) /\ rsm' = "pull" /\ UNCHANGED tx
      <3>1. CASE LowPushed
        <4>0. PICK w \in LowWords : rx = <<w>> BY <3>1
        <4>1. rx' = <<w, <<"high">>>> BY <2>2, <4>0, TwoWords
        <4>2. BothPushed' BY <2>2, <1>0, <3>1, <4>1
        <4> QED BY <4>2 DEF ReadStages
      <3>2. CASE LowTaken
        <4>1. HighWaits' BY <2>2, <1>0, <3>2
        <4> QED BY <4>1 DEF ReadStages
      <3> QED BY <2>2, <3>1, <3>2 DEF ReadStages
    <2>3. CASE rsm = "pull" /\ tx # <<>> /\ rsm' \in {"drive", "end"} /\ tx' = Tail(tx) /\ UNCHANGED rx
      <3>1. Judged BY <2>3 DEF ReadStages
      <3>2. NoRead' BY <2>3, <1>0, <3>1
      <3> QED BY <3>2 DEF ReadStages
    <2>4. CASE rsm \in {"drive", "end"} /\ rsm' = "idle" /\ UNCHANGED <<rx, tx>>
      <3>1. NoRead' BY <2>4, <1>0 DEF ReadStages
      <3> QED BY <3>1 DEF ReadStages
    <2> QED BY <2>1, <2>2, <2>3, <2>4 DEF ReadMachine
  <1> QED BY <1>0, <1>1, <1>2, <1>3 DEF WordTypes

\* ---------------------------------------------------------- core 1 ----
LEMMA ReadsStay ==
    ASSUME ReadStages, UNCHANGED <<rsm, rx, tx>>, pc[1] \notin InRead, pc'[1] \notin InRead
    PROVE  ReadStages'
  BY DEF ReadStages, NoRead, LowPushed, BothPushed, LowTaken, HighWaits, Handled, Judged, InRead

LEMMA WritesStay ==
    ASSUME WriteKinds, UNCHANGED <<wsm, wx>>, Taken' = Taken
    PROVE  WriteKinds'
  BY DEF WriteKinds, Pushed

\* Core 1 takes the first word, or what is left of a write, off the FIFO.
LEMMA TakenWords ==
    ASSUME wx \in Seq(Word), WriteKinds, UNCHANGED wsm, NEW k \in {1, 2}, k <= Len(wx),
           wx' = SubSeq(wx, k + 1, Len(wx)), (Taken + k) % 3 = Taken'
    PROVE  wx' \in Seq(Word) /\ WriteKinds'
  <1>0. Len(wx) \in Nat OBVIOUS
  <1>1. wx' \in Seq(Word) /\ Len(wx') = Len(wx) - k
        /\ \A i \in 1 .. Len(wx') : wx'[i] = wx[i + k]
    <2>1. \A i \in k + 1 .. Len(wx) : wx[i] \in Word OBVIOUS
    <2> QED BY <1>0, <2>1, SubSeqProperties
  <1>2. Taken \in {0, 1} /\ Taken' \in {0, 1} BY DEF Taken
  <1>3. \A n \in Nat : (Taken + k + n) % 3 = (Taken' + n) % 3
    <2>1. Taken + k \in {1, 2, 3} BY <1>2
    <2>2. (Taken + k = 3 /\ Taken' = 0) \/ (Taken + k = 1 /\ Taken' = 1)
      BY <2>1, <1>2, Thirds
    <2> QED BY <2>2, Thirds
  <1>4. ASSUME NEW i \in 1 .. Len(wx') PROVE wx'[i][1] = KindAt(Taken' + i - 1)
    <2>1. wx'[i] = wx[i + k] /\ i + k \in 1 .. Len(wx) BY <1>0, <1>1
    <2>2. wx[i + k][1] = KindAt(Taken + (i + k) - 1) BY <2>1 DEF WriteKinds
    <2>3. i - 1 \in Nat /\ Taken + (i + k) - 1 = Taken + k + (i - 1)
          /\ Taken' + i - 1 = Taken' + (i - 1)
      BY <1>0, <1>1, <1>2
    <2> QED BY <2>1, <2>2, <2>3, <1>3 DEF KindAt
  <1>5. (Taken' + Len(wx')) % 3 = Pushed'
    <2> DEFINE m == Len(wx')
    <2>0. m = Len(wx) - k BY <1>1
    <2> HIDE DEF m
    <2>1. Taken + Len(wx) = Taken + k + m /\ m \in Nat BY <1>0, <2>0, <1>2
    <2>2. (Taken + Len(wx)) % 3 = Pushed /\ Pushed' = Pushed BY DEF WriteKinds, Pushed
    <2> QED BY <2>1, <2>2, <1>3 DEF m
  <1> QED BY <1>1, <1>4, <1>5 DEF WriteKinds

\* The cycle goes on, perhaps with /WAIT pulled low in it.
CycleStays == \/ UNCHANGED cycle
              \/ cycle # NoCycle /\ cycle' = [cycle EXCEPT !.held = TRUE]

\* What a step of core 1 that pushes and takes no word of a write leaves.
LEMMA Core1Types ==
    ASSUME WordTypes, UNCHANGED <<ini, rsm, wsm>>, wx' \in Seq(Word),
           NEW to, pc' = [pc EXCEPT ![1] = to],
           CycleStays
    PROVE  WordTypes' /\ pc'[1] = to
  BY DEF WordTypes, Cycles, NoCycle, Cores, CycleStays

LEMMA HoldKeeps == ASSUME NEW p, Hold(p) PROVE CycleStays
  <1>1. CASE flat[p].exwait /\ cycle # NoCycle
    BY <1>1 DEF Hold, CycleStays
  <1>2. CASE ~(flat[p].exwait /\ cycle # NoCycle)
    BY <1>2 DEF Hold, CycleStays
  <1> QED BY <1>1, <1>2

LEMMA TakeReadKeeps == ASSUME WordInv, TakeRead PROVE WordInv'
  <1>1. PICK to \in {"high", "drain"} : pc' = [pc EXCEPT ![1] = to]
    BY DEF TakeRead
  <1>2. UNCHANGED <<ini, rsm, wsm, wx, tx>> /\ pc[1] = "loop" /\ rx # <<>> /\ rx' = Tail(rx)
    BY DEF TakeRead, Aside, managerVars
  <1>3. CycleStays
    <2> DEFINE p == PortOf(Head(rx))
    <2>1. Hold(p) \/ UNCHANGED cycle
      <3> USE DEF TakeRead
      <3>1. CASE flat[p].read # <<>> BY <3>1
      <3>2. CASE flat[p].read = <<>> BY <3>2
      <3> QED BY <3>1, <3>2
    <2> HIDE DEF p
    <2> QED BY <2>1, HoldKeeps DEF CycleStays
  <1>4. WordTypes' /\ pc'[1] = to
    BY <1>1, <1>2, <1>3, Core1Types DEF WordInv, WordTypes
  <1>5. WriteKinds'
    BY <1>2, <1>4, WritesStay DEF WordInv, Taken
  <1>6. ReadStages'
    <2>1. CASE LowPushed
      <3>1. LowTaken' BY <2>1, <1>2, <1>4 DEF LowPushed, LowTaken
      <3> QED BY <3>1 DEF ReadStages
    <2>2. CASE BothPushed
      <3>1. HighWaits' BY <2>2, <1>2, <1>4 DEF BothPushed, HighWaits
      <3> QED BY <3>1 DEF ReadStages
    <2> QED BY <1>2, <2>1, <2>2
         DEF WordInv, ReadStages, NoRead, LowTaken, HighWaits, Handled, Judged
  <1> QED BY <1>4, <1>5, <1>6 DEF WordInv

\* The five steps that serve a read, each from its stage to the next one.
LEMMA ServeReadKeeps ==
    ASSUME WordInv, ReadHigh \/ ReadHandler \/ DrivePins \/ Verdict \/ DrainRead
    PROVE  WordInv'
  <1>1. PICK to \in {"call", "pins", "verdict", "release", "loop"} : pc' = [pc EXCEPT ![1] = to]
    BY DEF ReadHigh, ReadHandler, Handlers, DrivePins, Verdict, DrainRead, Goes
  <1>2. UNCHANGED <<ini, cycle, rsm, wsm, wx>> /\ pc[1] \in InRead
    BY DEF ReadHigh, ReadHandler, Handlers, DrivePins, Verdict, DrainRead, Goes, Aside, managerVars,
           z80, sms, InRead
  <1>3. WordTypes' /\ pc'[1] = to
    BY <1>1, <1>2, Core1Types DEF WordInv, WordTypes, CycleStays
  <1>4. WriteKinds'
    BY <1>2, <1>3, WritesStay DEF WordInv, Taken, InRead
  <1>5. ReadStages'
    <2> USE DEF WordInv, ReadStages, NoRead, LowPushed, BothPushed, LowTaken, HighWaits, Handled,
                Judged, InRead, WordTypes, Cores
    <2>1. CASE ReadHigh
      <3>1. HighWaits /\ rx' = Tail(rx) /\ UNCHANGED tx /\ pc'[1] = "call"
        BY <2>1, <1>2 DEF ReadHigh, Goes
      <3>2. rx' = <<>> BY <3>1
      <3>3. Handled' BY <3>1, <3>2, <1>2
      <3> QED BY <3>3
    <2>2. CASE ReadHandler
      <3>1. Handled' BY <2>2, <1>2 DEF ReadHandler, Handlers, Goes, sms
      <3> QED BY <3>1
    <2>3. CASE DrivePins
      <3>1. Handled' BY <2>3, <1>2 DEF DrivePins, Goes, sms
      <3> QED BY <3>1
    <2>4. CASE Verdict
      <3>1. Handled /\ UNCHANGED rx /\ tx' = Append(tx, 1) /\ pc'[1] = "release"
        BY <2>4, <1>2 DEF Verdict, Goes
      <3>2. tx' = <<1>> BY <3>1, OneWord
      <3>3. Judged' BY <3>1, <3>2, <1>2
      <3> QED BY <3>3
    <2>5. CASE DrainRead
      <3>1. HighWaits /\ rx' = Tail(rx) /\ tx' = Append(tx, 0) /\ pc'[1] = "loop"
        BY <2>5, <1>2 DEF DrainRead, Goes
      <3>2. rx' = <<>> /\ tx' = <<0>> BY <3>1, OneWord
      <3>3. Judged' BY <3>1, <3>2, <1>2
      <3> QED BY <3>3
    <2> QED BY <2>1, <2>2, <2>3, <2>4, <2>5
  <1> QED BY <1>3, <1>4, <1>5 DEF WordInv

\* A step that leaves the words alone, and core 1 where it is in them.
LEMMA Elsewhere ==
    ASSUME WordInv, UNCHANGED <<ini, rsm, rx, tx, wsm, wx>>, cycle' \in Cycles,
           pc' = [c \in Cores |-> pc'[c]],
           \/ pc'[1] = pc[1]
           \/ /\ {pc[1], pc'[1]} \cap InRead = {}
              /\ {pc[1], pc'[1]} \cap {"whigh", "wdrain"} = {}
    PROVE  WordInv'
  <1>1. WordTypes' BY DEF WordInv, WordTypes
  <1>2. WriteKinds' BY WritesStay DEF WordInv, Taken
  <1>3. ReadStages'
    <2>1. CASE pc'[1] = pc[1]
      BY <2>1 DEF WordInv, ReadStages, NoRead, LowPushed, BothPushed, LowTaken, HighWaits, Handled,
                  Judged
    <2>2. CASE {pc[1], pc'[1]} \cap InRead = {}
      BY <2>2, ReadsStay DEF WordInv
    <2> QED BY <2>1, <2>2
  <1> QED BY <1>1, <1>2, <1>3 DEF WordInv

LEMMA TakeWriteKeeps == ASSUME WordInv, TakeWrite PROVE WordInv'
  <1>1. PICK to \in {"whigh", "wdrain"} : pc' = [pc EXCEPT ![1] = to]
    BY DEF TakeWrite
  <1>2. UNCHANGED <<ini, rsm, wsm, rx, tx>> /\ pc[1] = "loop" /\ wx # <<>> /\ wx' = Tail(wx)
    BY DEF TakeWrite, Aside, managerVars
  <1>3. CycleStays
    <2> DEFINE p == PortOf(Head(wx))
    <2>1. Hold(p) \/ UNCHANGED cycle
      <3> USE DEF TakeWrite
      <3>1. CASE flat[p].write # <<>> BY <3>1
      <3>2. CASE flat[p].write = <<>> BY <3>2
      <3> QED BY <3>1, <3>2
    <2> HIDE DEF p
    <2> QED BY <2>1, HoldKeeps DEF CycleStays
  <1>4. wx \in Seq(Word) /\ wx' \in Seq(Word) BY <1>2 DEF WordInv, WordTypes
  <1>5. WordTypes' /\ pc'[1] = to
    BY <1>1, <1>2, <1>3, <1>4, Core1Types DEF WordInv
  <1>6. WriteKinds'
    <2>1. wx' = SubSeq(wx, 1 + 1, Len(wx)) /\ 1 <= Len(wx)
      BY <1>2, <1>4, TailIsSubSeq
    <2>2. Taken = 0 /\ Taken' = 1 /\ (Taken + 1) % 3 = Taken' BY <1>2, <1>5, Thirds DEF Taken
    <2> QED BY <1>2, <1>4, <2>1, <2>2, TakenWords DEF WordInv
  <1>7. ReadStages'
    BY <1>2, <1>5, ReadsStay DEF WordInv, InRead
  <1> QED BY <1>5, <1>6, <1>7 DEF WordInv

\* The other two words of a write, served or drained.
LEMMA WriteWordsKeeps == ASSUME WordInv, WriteWords \/ DrainWrite PROVE WordInv'
  <1>1. PICK to \in {"wcall", "loop"} : pc' = [pc EXCEPT ![1] = to]
    BY DEF WriteWords, DrainWrite, Goes
  <1>2. UNCHANGED <<ini, cycle, rsm, wsm, rx, tx>> /\ pc[1] \in {"whigh", "wdrain"}
        /\ Len(wx) > 1 /\ wx' = SubSeq(wx, 3, Len(wx))
    BY DEF WriteWords, DrainWrite, Goes, Aside, managerVars, z80
  <1>3. pc'[1] = to BY <1>1 DEF WordInv, WordTypes, Cores
  <1>4. wx' \in Seq(Word) /\ WriteKinds'
    <2>1. wx \in Seq(Word) /\ 2 <= Len(wx) /\ wx' = SubSeq(wx, 2 + 1, Len(wx))
      BY <1>2 DEF WordInv, WordTypes
    <2>2. Taken = 1 /\ Taken' = 0 /\ (Taken + 2) % 3 = Taken' BY <1>2, <1>3, Thirds DEF Taken
    <2> QED BY <1>2, <2>1, <2>2, TakenWords DEF WordInv
  <1>5. WordTypes'
    BY <1>1, <1>2, <1>4, Core1Types DEF WordInv, CycleStays
  <1>6. ReadStages'
    BY <1>2, <1>3, ReadsStay DEF WordInv, InRead
  <1> QED BY <1>4, <1>5, <1>6 DEF WordInv

\* restart_bus_sms, and a reboot, begin anew with every word gone.
LEMMA Emptied ==
    ASSUME ini' \in Inis, cycle' \in Cycles, rx' = <<>>, tx' = <<>>, wx' = <<>>,
           rsm' = "idle", wsm' = "idle", pc' = [c \in Cores |-> pc'[c]],
           pc'[1] \in {"loop", "boot"}
    PROVE  WordInv'
  <1>1. WordTypes' BY DEF WordTypes
  <1>2. ReadStages' BY DEF ReadStages, NoRead, InRead
  <1>3. WriteKinds' BY Thirds DEF WriteKinds, Taken, Pushed
  <1> QED BY <1>1, <1>2, <1>3 DEF WordInv

LEMMA RestartKeeps == ASSUME WordInv, RestartBusSms PROVE WordInv'
  BY Emptied DEF RestartBusSms, Goes, Entry, WordInv, WordTypes, managerVars, z80, Cores

LEMMA RebootEmpties == ASSUME WordInv, Reboot PROVE WordInv'
  <1>1. cycle' \in Cycles
    <2>1. cycle \in Cycles BY DEF WordInv, WordTypes
    <2>2. CASE cycle = NoCycle BY <2>2 DEF Reboot, Cycles
    <2>3. CASE cycle # NoCycle
      <3>1. cycle' = [cycle EXCEPT !.held = FALSE] BY <2>3 DEF Reboot
      <3> QED BY <2>1, <2>3, <3>1 DEF Cycles
    <2> QED BY <2>2, <2>3
  <1> QED BY <1>1, Emptied DEF Reboot, Booting, WordInv, WordTypes, Cores

LEMMA Core1Words == ASSUME WordInv, Core1 PROVE WordInv'
  <1> USE Elsewhere DEF WordInv, WordTypes, InRead, Cores
  <1>1. CASE Boot BY <1>1 DEF Boot, BootSection, managerVars, z80, sms
  <1>2. CASE SoftReset BY <1>2 DEF SoftReset, managerVars, z80, sms
  <1>3. CASE SoftFlush BY <1>3 DEF SoftFlush, managerVars, z80, sms
  <1>4. CASE ReadRelease BY <1>4 DEF ReadRelease, Goes, Aside, managerVars, z80, sms
  <1>5. CASE ReadEnds BY <1>5 DEF ReadEnds, Goes, Aside, managerVars, z80, sms
  <1>6. CASE WriteRelease BY <1>6 DEF WriteRelease, Goes, Aside, managerVars, z80, sms
  <1>7. CASE WriteHandler BY <1>7 DEF WriteHandler, Handlers, Goes, Aside, managerVars, z80, sms
  <1>8. CASE FlashStep(1) BY <1>8 DEF FlashStep, managerVars, z80, sms
  <1>9. CASE RestartBusSms BY <1>9, RestartKeeps
  <1>10. CASE TakeRead BY <1>10, TakeReadKeeps
  <1>11. CASE ReadHigh \/ ReadHandler \/ DrivePins \/ Verdict \/ DrainRead BY <1>11, ServeReadKeeps
  <1>12. CASE TakeWrite BY <1>12, TakeWriteKeeps
  <1>13. CASE WriteWords \/ DrainWrite BY <1>13, WriteWordsKeeps
  <1> QED BY <1>1, <1>2, <1>3, <1>4, <1>5, <1>6, <1>7, <1>8, <1>9, <1>10, <1>11, <1>12, <1>13
       DEF Core1

LEMMA Core0Words == ASSUME WordInv, Core0 PROVE WordInv'
  <1> USE Elsewhere DEF WordInv, WordTypes, Cores
  <1>1. CASE ResetHandler BY <1>1 DEF ResetHandler, managerVars, z80, sms
  <1>2. CASE HardFlush BY <1>2 DEF HardFlush, managerVars, z80, sms
  <1>3. CASE WatchdogReboot BY <1>3, RebootEmpties DEF WatchdogReboot
  <1>4. CASE FlashStep(0) BY <1>4 DEF FlashStep, managerVars, z80, sms
  <1> QED BY <1>1, <1>2, <1>3, <1>4 DEF Core0

LEMMA WordsStep == WordInv /\ [Next]_vars => WordInv'
  <1> SUFFICES ASSUME WordInv, [Next]_vars PROVE WordInv'
    OBVIOUS
  <1> USE DEF WordInv, WordTypes
  <1>1. CASE Core0 BY <1>1, Core0Words
  <1>2. CASE Core1 BY <1>2, Core1Words
  <1>3. CASE Machines BY <1>3, ReadMachineKeeps, WriteMachineKeeps DEF Machines
  <1>4. CASE WatchdogBites BY <1>4, RebootEmpties DEF WatchdogBites
  <1>5. CASE StartCycle
    <2>1. PICK a \in Guest[ini] : cycle' = [kind |-> a[1], port |-> a[2], held |-> FALSE]
      BY <1>5 DEF StartCycle
    <2>2. a \in {"read", "write"} \X Ports BY BusAssumption
    <2>3. cycle' \in Cycles BY <2>1, <2>2 DEF Cycles
    <2> QED BY <1>5, <2>3, Elsewhere DEF StartCycle, managerVars, sms
  <1>6. CASE EndCycle \/ PressReset
    BY <1>6, Elsewhere DEF EndCycle, PressReset, Cycles, managerVars, sms
  <1>7. CASE ReleaseReset \/ TimePasses
    BY <1>7, Elsewhere DEF ReleaseReset, TimePasses, managerVars, z80, sms
  <1>8. CASE UNCHANGED vars
    BY <1>8, Elsewhere DEF vars, managerVars, z80, sms
  <1> QED BY <1>1, <1>2, <1>3, <1>4, <1>5, <1>6, <1>7, <1>8 DEF Next

LEMMA WordsInStepFollows == WordInv => WordsInStep
  <1> SUFFICES ASSUME WordInv PROVE WordsInStep OBVIOUS
  <1>1. (pc[1] = "loop" /\ rx # <<>>) => Head(rx)[1] = "low"
    BY DEF WordInv, ReadStages, NoRead, LowPushed, BothPushed, LowTaken, HighWaits, Handled, Judged,
           LowWords, Low, InRead
  <1>2. (pc[1] \in {"high", "drain"} /\ rx # <<>>) => Head(rx)[1] = "high"
    BY DEF WordInv, ReadStages, NoRead, LowPushed, BothPushed, LowTaken, HighWaits, Handled, Judged,
           InRead
  <1>3. (pc[1] = "loop" /\ wx # <<>>) => Head(wx)[1] = "low"
    <2> SUFFICES ASSUME pc[1] = "loop", wx # <<>> PROVE Head(wx)[1] = "low" OBVIOUS
    <2>1. Head(wx) = wx[1] /\ 1 \in 1 .. Len(wx) BY DEF WordInv, WordTypes
    <2>2. wx[1][1] = KindAt(Taken + 1 - 1) BY <2>1 DEF WordInv, WriteKinds
    <2>3. Taken + 1 - 1 = 0 BY DEF Taken
    <2> QED BY <2>1, <2>2, <2>3, Thirds DEF KindAt
  <1>4. (pc[1] \in {"whigh", "wdrain"} /\ Len(wx) > 1) => Head(wx)[1] = "high" /\ wx[2][1] = "data"
    <2> SUFFICES ASSUME pc[1] \in {"whigh", "wdrain"}, Len(wx) > 1
                 PROVE  Head(wx)[1] = "high" /\ wx[2][1] = "data"
      OBVIOUS
    <2>1. Head(wx) = wx[1] /\ 1 \in 1 .. Len(wx) /\ 2 \in 1 .. Len(wx)
      BY DEF WordInv, WordTypes
    <2>2. wx[1][1] = KindAt(Taken + 1 - 1) /\ wx[2][1] = KindAt(Taken + 2 - 1)
      BY <2>1 DEF WordInv, WriteKinds
    <2>3. Taken + 1 - 1 = 1 /\ Taken + 2 - 1 = 2 BY DEF Taken
    <2> QED BY <2>1, <2>2, <2>3, Thirds DEF KindAt
  <1>5. tx # <<>> => rsm = "pull"
    BY DEF WordInv, ReadStages, NoRead, LowPushed, BothPushed, LowTaken, HighWaits, Handled, Judged
  <1> QED BY <1>1, <1>2, <1>3, <1>4, <1>5 DEF WordsInStep

\* Core 1 takes a low address for a low address, a high one for a high one and
\* data for data, and a verdict is there only for the read that waits for it.
THEOREM WordsNeverSlip == Spec => []WordsInStep
  <1>1. Spec => []WordInv
    BY WordsInit, WordsStep, PTL DEF Spec
  <1> QED BY <1>1, WordsInStepFollows, PTL

-----------------------------------------------------------------------------
(* Induction over the naturals.                                             *)

\* A set with 0 and the successor of each of its members is all of Nat.
LEMMA NatInd ==
  ASSUME NEW S \in SUBSET Nat, 0 \in S, \A n \in S : n + 1 \in S
  PROVE  S = Nat
  <1>1. SUFFICES ASSUME Nat \ S # {} PROVE FALSE
    OBVIOUS
  <1>2. IsWellFoundedOn(OpToRel(<,Nat), Nat) BY NatLessThanWellFounded
  <1>3. PICK n \in Nat \ S : \A y \in Nat \ S : <<y, n>> \notin OpToRel(<, Nat)
    BY <1>1, <1>2, WFMin
  <1>4. n # 0 BY <1>3
  <1>5. n - 1 \in Nat /\ n - 1 < n BY <1>4
  <1>6. n - 1 \in S
    <2>1. <<n - 1, n>> \in OpToRel(<, Nat) BY <1>5 DEF OpToRel
    <2> QED BY <1>3, <1>5, <2>1
  <1> QED BY <1>6

\* A property of 0 that passes from each number to the next, up to a bound.
LEMMA NatUpTo ==
  ASSUME NEW n \in Nat, NEW A \in SUBSET Nat, 0 \in A, \A i \in A : i < n => i + 1 \in A
  PROVE  n \in A
  <1> DEFINE B == {i \in Nat : i <= n => i \in A}
  <1>1. 0 \in B OBVIOUS
  <1>2. ASSUME NEW i \in B PROVE i + 1 \in B
    OBVIOUS
  <1> HIDE DEF B
  <1>3. B \in SUBSET Nat BY DEF B
  <1>4. B = Nat BY <1>1, <1>2, <1>3, NatInd
  <1>5. n \in B BY <1>4
  <1> QED BY <1>5 DEF B

-----------------------------------------------------------------------------
(* The rows of the listener tables.                                         *)

\* The times a port is among the first i of a list.
CountTo(list, p, i) == Cardinality({j \in 1 .. i : list[j] = p})

LEMMA CountSteps ==
  ASSUME NEW list, NEW p, NEW i \in Nat
  PROVE  /\ CountTo(list, p, 0) = 0 /\ CountTo(list, p, i) \in Nat
         /\ CountTo(list, p, i + 1) = CountTo(list, p, i) + (IF list[i + 1] = p THEN 1 ELSE 0)
  <1> DEFINE hits == {j \in 1 .. i : list[j] = p}
             on == {j \in 1 .. i + 1 : list[j] = p}
             no == {j \in 1 .. 0 : list[j] = p}
  <1>1. IsFiniteSet(1 .. i) BY FS_Interval
  <1>2. IsFiniteSet(hits) /\ Cardinality(hits) \in Nat
    <2>1. hits \in SUBSET (1 .. i) OBVIOUS
    <2> HIDE DEF hits
    <2> QED BY <1>1, <2>1, FS_Subset, FS_CardinalityType
  <1>3. no = {} /\ Cardinality({}) = 0 BY FS_EmptySet
  <1>4. i + 1 \notin hits OBVIOUS
  <1>5. on = IF list[i + 1] = p THEN hits \cup {i + 1} ELSE hits OBVIOUS
  <1> HIDE DEF hits, on, no
  <1>6. Cardinality(hits \cup {i + 1}) = Cardinality(hits) + 1 BY <1>2, <1>4, FS_AddElement
  <1>7. Cardinality(on) = Cardinality(hits) + (IF list[i + 1] = p THEN 1 ELSE 0) BY <1>2, <1>5, <1>6
  <1> QED BY <1>2, <1>3, <1>7 DEF CountTo, hits, on, no

\* The times are counted one by one.
Counts(list, p) ==
    \A i \in Nat : /\ CountTo(list, p, 0) = 0 /\ CountTo(list, p, i) \in Nat
                  /\ CountTo(list, p, i + 1) = CountTo(list, p, i) + (IF list[i + 1] = p THEN 1 ELSE 0)

LEMMA CountsUp == \A list, p : Counts(list, p)
  BY CountSteps DEF Counts

\* A row with k listeners of d behind it.
With(row, d, k) == [j \in 1 .. Len(row) + k |-> IF j <= Len(row) THEN row[j] ELSE d]

LEMMA WithIs ==
  ASSUME NEW row \in Seq(Nat), NEW d \in Nat, NEW k \in Nat
  PROVE  /\ With(row, d, k) \in Seq(Nat) /\ Len(With(row, d, k)) = Len(row) + k
         /\ With(row, d, 0) = row
         /\ Append(With(row, d, k), d) = With(row, d, k + 1)
  <1>1. Len(row) \in Nat OBVIOUS
  <1>2. With(row, d, k) \in Seq(Nat) /\ Len(With(row, d, k)) = Len(row) + k BY <1>1 DEF With
  <1>3. With(row, d, 0) = row
    <2>1. With(row, d, 0) \in Seq(Nat) /\ Len(With(row, d, 0)) = Len(row) BY <1>1 DEF With
    <2>2. \A j \in 1 .. Len(row) : With(row, d, 0)[j] = row[j] BY <1>1 DEF With
    <2> QED BY <2>1, <2>2, SeqEqual
  <1>4. Append(With(row, d, k), d) = With(row, d, k + 1)
    <2> DEFINE a == Append(With(row, d, k), d)
               b == With(row, d, k + 1)
    <2>1. a \in Seq(Nat) /\ Len(a) = Len(row) + k + 1 BY <1>1, <1>2, AppendProperties
    <2>2. b \in Seq(Nat) /\ Len(b) = Len(row) + k + 1 BY <1>1 DEF With
    <2>3. \A j \in 1 .. Len(row) + k : a[j] = With(row, d, k)[j] BY <1>1, <1>2, AppendProperties
    <2>4. a[Len(row) + k + 1] = d BY <1>1, <1>2, AppendProperties
    <2>5. \A j \in 1 .. Len(row) + k + 1 : b[j] = IF j <= Len(row) THEN row[j] ELSE d
      BY <1>1 DEF With
    <2>6. \A j \in 1 .. Len(row) + k : a[j] = IF j <= Len(row) THEN row[j] ELSE d
      BY <1>1, <2>3 DEF With
    <2> HIDE DEF a, b
    <2>7. \A j \in 1 .. Len(row) + k + 1 : a[j] = b[j]
      <3> TAKE j \in 1 .. Len(row) + k + 1
      <3>1. CASE j = Len(row) + k + 1
        <4>1. ~(j <= Len(row)) BY <1>1, <3>1
        <4>2. a[j] = d BY <2>4, <3>1 DEF a
        <4> QED BY <2>5, <4>1, <4>2
      <3>2. CASE j # Len(row) + k + 1
        <4>1. j \in 1 .. Len(row) + k BY <1>1, <3>2
        <4> QED BY <2>5, <2>6, <4>1
      <3> QED BY <3>1, <3>2
    <2>8. a = b BY <2>1, <2>2, <2>7, SeqEqual
    <2> QED BY <2>8 DEF a, b
  <1> QED BY <1>2, <1>3, <1>4

LEMMA WithIsJoin ==
  ASSUME NEW row \in Seq(Nat), NEW list, NEW d \in Nat, NEW p, Len(list) \in Nat
  PROVE  /\ Claims(list, d, p) \in Seq(Nat)
         /\ row \o Claims(list, d, p) = With(row, d, CountTo(list, p, Len(list)))
  <1> DEFINE k == CountTo(list, p, Len(list))
             c == Claims(list, d, p)
             a == row \o c
             b == With(row, d, k)
  <1>1. k \in Nat BY CountSteps
  <1>2. c = [i \in 1 .. k |-> d] BY DEF Claims, CountTo
  <1> HIDE DEF c, k
  <1>3. c \in Seq(Nat) /\ Len(c) = k /\ \A i \in 1 .. k : c[i] = d BY <1>1, <1>2
  <1>4. Len(row) \in Nat OBVIOUS
  <1>5. a \in Seq(Nat) /\ Len(a) = Len(row) + k BY <1>3, ConcatProperties
  <1>6. \A j \in 1 .. Len(row) + k : a[j] = IF j <= Len(row) THEN row[j] ELSE c[j - Len(row)]
    BY <1>3, <1>1, <1>4, ConcatProperties
  <1>7. b \in Seq(Nat) /\ Len(b) = Len(row) + k BY <1>1, WithIs
  <1>8. \A j \in 1 .. Len(row) + k : a[j] = b[j] BY <1>1, <1>3, <1>4, <1>6 DEF With
  <1> HIDE DEF a, b
  <1>9. a = b BY <1>5, <1>7, <1>8, SeqEqual
  <1> QED BY <1>3, <1>9 DEF a, b, c, k

\* What of k listeners more there is room for.
Room(row, k) == IF Len(row) + k <= MaxPerPort THEN k ELSE MaxPerPort - Len(row)

LEMMA FittingWith ==
  ASSUME NEW row \in Seq(Nat), NEW d \in Nat, NEW k \in Nat, Len(row) <= MaxPerPort
  PROVE  Fitting(With(row, d, k)) = With(row, d, Room(row, k)) /\ Room(row, k) \in Nat
  <1> DEFINE w == With(row, d, k)
             a == Fitting(w)
             r == Room(row, k)
             b == With(row, d, r)
             m == IF Len(w) < MaxPerPort THEN Len(w) ELSE MaxPerPort
  <1>1. Len(row) \in Nat /\ MaxPerPort \in Nat \ {0} BY ManagerAssumption
  <1>2. w \in Seq(Nat) /\ Len(w) = Len(row) + k BY WithIs
  <1>3. r \in Nat /\ Len(row) + r = m /\ m \in 0 .. Len(w) /\ r <= k
    <2> HIDE DEF w
    <2> QED BY <1>1, <1>2 DEF Room
  <1>4. a = SubSeq(w, 1, m) BY DEF Fitting
  <1> HIDE DEF r, m, a
  <1>5. b \in Seq(Nat) /\ Len(b) = m BY <1>3, WithIs
  <1>6. a \in Seq(Nat) /\ Len(a) = m /\ \A j \in 1 .. m : a[j] = w[j]
    <2> HIDE DEF w
    <2> QED BY <1>2, <1>3, <1>4, <1>1, SubSeqProperties
  <1>7. \A j \in 1 .. m : b[j] = w[j] BY <1>1, <1>3 DEF With
  <1> HIDE DEF b, w
  <1>8. a = b BY <1>5, <1>6, <1>7, SeqEqual
  <1> QED BY <1>3, <1>8 DEF a, b, r, w

\* What the loop of listenPorts computes.
ListeningLoop(L, row, list, p, d) ==
    L = [i \in 0 .. Len(list) |->
            IF i = 0 THEN row
            ELSE IF list[i] = p /\ Len(L[i - 1]) < MaxPerPort THEN Append(L[i - 1], d) ELSE L[i - 1]]

LEMMA ListeningIs ==
  ASSUME NEW row \in Seq(Nat), Len(row) <= MaxPerPort, NEW list, Len(list) \in Nat, NEW p, NEW d \in Nat
  PROVE  /\ Listening(row, list, p, d) = With(row, d, Room(row, CountTo(list, p, Len(list))))
         /\ Room(row, CountTo(list, p, Len(list))) \in Nat
  <1> DEFINE n == Len(list)
             C(i) == CountTo(list, p, i)
             V(i) == With(row, d, Room(row, C(i)))
             G == [i \in 0 .. n |-> V(i)]
             L == CHOOSE f : ListeningLoop(f, row, list, p, d)
  <1>1. Len(row) \in Nat /\ MaxPerPort \in Nat \ {0} /\ n \in Nat BY ManagerAssumption
  <1>2. \A i \in Nat : /\ C(0) = 0 /\ C(i) \in Nat
                       /\ C(i + 1) = C(i) + (IF list[i + 1] = p THEN 1 ELSE 0)
    <2>1. Counts(list, p) BY CountsUp
    <2>2. \A i \in Nat : CountTo(list, p, 0) = 0 /\ CountTo(list, p, i) \in Nat BY <2>1 DEF Counts
    <2>3. \A i \in Nat : CountTo(list, p, i + 1) = CountTo(list, p, i) + (IF list[i + 1] = p THEN 1 ELSE 0)
      BY <2>1 DEF Counts
    <2> QED BY <2>2, <2>3
  <1> HIDE DEF C
  <1>3. \A i \in Nat : /\ Room(row, C(i)) \in Nat /\ Len(row) + Room(row, C(i)) <= MaxPerPort
                       /\ V(i) \in Seq(Nat) /\ Len(V(i)) = Len(row) + Room(row, C(i))
    <2> TAKE i \in Nat
    <2>1. C(i) \in Nat BY <1>2
    <2>2. Room(row, C(i)) \in Nat /\ Len(row) + Room(row, C(i)) <= MaxPerPort BY <1>1, <2>1 DEF Room
    <2> QED BY <2>2, WithIs
  <1>4. V(0) = row
    <2>1. C(0) = 0 BY <1>2
    <2>2. Room(row, C(0)) = 0 BY <1>1, <2>1 DEF Room
    <2> QED BY <2>2, WithIs
  <1>5. \A i \in Nat : V(i + 1) = IF list[i + 1] = p /\ Len(V(i)) < MaxPerPort
                                  THEN Append(V(i), d) ELSE V(i)
    <2> TAKE i \in Nat
    <2>1. Room(row, C(i + 1)) = IF list[i + 1] = p /\ Len(V(i)) < MaxPerPort
                                THEN Room(row, C(i)) + 1 ELSE Room(row, C(i))
      <3> DEFINE c == C(i)
                 e == C(i + 1)
                 v == Len(V(i))
      <3>1. v = Len(row) + Room(row, c) BY <1>3
      <3>2. c \in Nat /\ e = c + (IF list[i + 1] = p THEN 1 ELSE 0) BY <1>2
      <3>3. Len(row) \in Nat /\ MaxPerPort \in Nat \ {0} /\ Len(row) <= MaxPerPort BY <1>1
      <3> HIDE DEF v, c, e
      <3>4. Room(row, e) = IF list[i + 1] = p /\ v < MaxPerPort THEN Room(row, c) + 1 ELSE Room(row, c)
        <4>1. CASE list[i + 1] = p
          <5>1. e = c + 1 BY <3>2, <4>1
          <5>2. CASE v < MaxPerPort
            <6>1. Room(row, c) = c /\ Room(row, e) = c + 1 BY <3>1, <3>2, <3>3, <5>1, <5>2 DEF Room
            <6> QED BY <4>1, <5>2, <6>1
          <5>3. CASE ~(v < MaxPerPort)
            <6>1. Room(row, e) = Room(row, c) BY <3>1, <3>2, <3>3, <5>1, <5>3 DEF Room
            <6> QED BY <5>3, <6>1
          <5> QED BY <5>2, <5>3
        <4>2. CASE list[i + 1] # p
          <5>1. e = c BY <3>2, <4>2
          <5> QED BY <4>2, <5>1
        <4> QED BY <4>1, <4>2
      <3> QED BY <3>4 DEF v, c, e
    <2>2. Append(With(row, d, Room(row, C(i))), d) = With(row, d, Room(row, C(i)) + 1) BY <1>3, WithIs
    <2> QED BY <2>1, <2>2
  <1>6. ListeningLoop(G, row, list, p, d)
    <2>1. \A i \in 0 .. n : V(i) = IF i = 0 THEN row
                                   ELSE IF list[i] = p /\ Len(G[i - 1]) < MaxPerPort
                                        THEN Append(G[i - 1], d) ELSE G[i - 1]
      <3> TAKE i \in 0 .. n
      <3>1. CASE i = 0 BY <1>4, <3>1
      <3>2. CASE i # 0
        <4>1. i - 1 \in Nat /\ i - 1 \in 0 .. n /\ (i - 1) + 1 = i BY <1>1, <3>2
        <4>2. G[i - 1] = V(i - 1) BY <4>1
        <4> HIDE DEF V, G
        <4>3. V((i - 1) + 1) = IF list[(i - 1) + 1] = p /\ Len(V(i - 1)) < MaxPerPort
                               THEN Append(V(i - 1), d) ELSE V(i - 1)
          BY <1>5, <4>1
        <4> QED BY <3>2, <4>1, <4>2, <4>3
      <3> QED BY <3>1, <3>2
    <2> QED BY <2>1 DEF ListeningLoop
  <1>7. ListeningLoop(L, row, list, p, d) BY <1>6
  <1>8. Listening(row, list, p, d) = L[n] BY DEF Listening, ListeningLoop
  <1> HIDE DEF L, G, V
  <1> DEFINE A == {i \in Nat : i <= n => L[i] = V(i)}
  <1>9. 0 \in A
    <2>1. 0 \in 0 .. n BY <1>1
    <2>2. L[0] = row BY <1>7, <2>1 DEF ListeningLoop
    <2> QED BY <1>4, <2>2
  <1>10. ASSUME NEW i \in A, i < n PROVE i + 1 \in A
    <2>1. L[i] = V(i) /\ i \in Nat /\ i + 1 \in 0 .. n /\ i + 1 # 0 /\ (i + 1) - 1 = i BY <1>1, <1>10
    <2>2. L[i + 1] = IF list[i + 1] = p /\ Len(L[(i + 1) - 1]) < MaxPerPort
                     THEN Append(L[(i + 1) - 1], d) ELSE L[(i + 1) - 1]
      BY <1>7, <2>1 DEF ListeningLoop
    <2>3. L[i + 1] = V(i + 1) BY <1>5, <2>1, <2>2
    <2> QED BY <2>1, <2>3
  <1>11. n \in A
    <2> HIDE DEF A
    <2>1. A \in SUBSET Nat BY DEF A
    <2> QED BY <1>1, <1>9, <1>10, <2>1, NatUpTo
  <1>12. L[n] = V(n) BY <1>1, <1>11
  <1> QED BY <1>1, <1>3, <1>8, <1>12 DEF V, C

\* Taking d from a row with k of its listeners behind others.
LEMMA RemoveFirstIs ==
  ASSUME NEW row \in Seq(Nat), NEW d \in Nat, d \notin Range(row), NEW k \in Nat
  PROVE  RemoveFirst(With(row, d, k), d) = IF k = 0 THEN row ELSE With(row, d, k - 1)
  <1> DEFINE w == With(row, d, k)
             n == Len(row)
  <1>1. n \in Nat /\ w \in Seq(Nat) /\ Len(w) = n + k BY WithIs
  <1>2. \A j \in 1 .. n : row[j] # d BY DEF Range
  <1>3. \A j \in 1 .. n + k : w[j] = d <=> j > n BY <1>1, <1>2 DEF With
  <1>4. CASE k = 0
    <2>1. ~(\E j \in 1 .. Len(w) : w[j] = d) BY <1>1, <1>3, <1>4
    <2>2. w = row BY <1>4, WithIs
    <2> HIDE DEF w
    <2>3. RemoveFirst(w, d) = w BY <2>1 DEF RemoveFirst
    <2> QED BY <1>4, <2>2, <2>3 DEF w
  <1>5. CASE k # 0
    <2> DEFINE b == With(row, d, k - 1)
               e == n + 1
    <2>0. k - 1 \in Nat /\ e \in 1 .. Len(w) /\ w[e] = d
      <3> HIDE DEF w
      <3>1. k - 1 \in Nat /\ n + 1 \in 1 .. n + k /\ n + 1 > n BY <1>1, <1>5
      <3> QED BY <1>1, <1>3, <3>1
    <2> DEFINE I == {i \in 1 .. Len(w) : w[i] = d}
    <2>1. I = e .. n + k BY <1>1, <1>3
    <2>2. Min(I) = e BY <1>1, <1>5, <2>1 DEF Min
    <2>3. I # {} BY <2>0
    <2>4. SelectInSeq(w, LAMBDA v : v = d) = e
      <3> HIDE DEF w
      <3> QED BY <2>2, <2>3 DEF SelectInSeq
    <2> HIDE DEF I
    <2>5. RemoveFirst(w, d) = RemoveAt(w, e)
      <3> HIDE DEF w, e
      <3> QED BY <2>0, <2>4 DEF RemoveFirst
    <2> DEFINE x == SubSeq(w, 1, n)
               y == SubSeq(w, e + 1, Len(w))
    <2>6. RemoveAt(w, e) = x \o y
      <3>1. e - 1 = n BY <1>1
      <3> HIDE DEF w
      <3> QED BY <3>1 DEF RemoveAt
    <2>7. x \in Seq(Nat) /\ Len(x) = n /\ \A j \in 1 .. n : x[j] = w[j]
      <3> HIDE DEF w
      <3> QED BY <1>1, SubSeqProperties
    <2>8. y \in Seq(Nat) /\ Len(y) = k - 1 /\ \A j \in 1 .. k - 1 : y[j] = w[n + 1 + j]
      <3> DEFINE q == e + 1
                 m == Len(w)
      <3>1. q \in 1 .. m + 1 /\ m \in q - 1 .. m /\ m - q + 1 = k - 1 BY <1>1, <2>0
      <3>2. \A j \in 1 .. k - 1 : q + j - 1 = n + 1 + j BY <1>1, <2>0
      <3> HIDE DEF w, q, m
      <3>3. y = SubSeq(w, q, m) BY DEF q, m
      <3>4. y \in Seq(Nat) /\ Len(y) = m - q + 1 /\ \A j \in 1 .. m - q + 1 : y[j] = w[q + j - 1]
        <4> HIDE DEF y
        <4>1. q \in 1 .. Len(w) + 1 /\ m \in q - 1 .. Len(w) BY <3>1 DEF m
        <4>2. Len(SubSeq(w, q, m)) = IF q <= m THEN m - q + 1 ELSE 0 BY <1>1, <3>1, <4>1
        <4>3. q \in Nat /\ m \in Nat BY <1>1 DEF q, m
        <4>4. Len(SubSeq(w, q, m)) = m - q + 1 BY <3>1, <4>2, <4>3
        <4>5. m \in Int /\ q \in Int BY <4>3
        <4>6. \A i \in q .. m : w[i] \in Nat
          <5>1. \A i \in 1 .. Len(w) : w[i] \in Nat BY <1>1
          <5>2. q >= 1 /\ m <= Len(w) BY <1>1 DEF q, m
          <5>3. \A i \in q .. m : i \in 1 .. Len(w)
            <6>1. Len(w) \in Nat BY <1>1
            <6> QED BY <4>3, <5>2, <6>1
          <5> QED BY <5>1, <5>3
        <4> QED BY <3>3, <4>4, <4>5, <4>6, SubSeqProperties
      <3> QED BY <3>1, <3>2, <3>4
    <2> HIDE DEF x, y, w
    <2> DEFINE z == x \o y
    <2> DEFINE h == k - 1
    <2>14. h \in Nat /\ Len(y) = h /\ Len(x) = n /\ x \in Seq(Nat) /\ y \in Seq(Nat)
      BY <2>0, <2>7, <2>8
    <2> HIDE DEF h
    <2>9. z \in Seq(Nat) /\ Len(z) = n + h BY <2>14, ConcatProperties
    <2>10. \A j \in 1 .. n + h : z[j] = IF j <= n THEN x[j] ELSE y[j - n]
      BY <2>14, ConcatProperties
    <2> USE DEF h
    <2>11. b \in Seq(Nat) /\ Len(b) = n + (k - 1) BY <1>1, <2>0, WithIs
    <2>12. \A j \in 1 .. n + (k - 1) : z[j] = b[j]
      <3> TAKE j \in 1 .. n + (k - 1)
      <3>1. b[j] = IF j <= n THEN row[j] ELSE d BY <1>1, <2>0 DEF With
      <3>2. CASE j <= n
        <4>1. w[j] = row[j] BY <1>1, <2>0, <3>2 DEF With, w
        <4> QED BY <1>1, <2>7, <2>10, <3>1, <3>2, <4>1
      <3>3. CASE j > n
        <4>1. j - n \in 1 .. k - 1 /\ n + 1 + (j - n) = j + 1 /\ j + 1 \in 1 .. n + k BY <1>1, <2>0, <3>3
        <4>2. w[j + 1] = d BY <1>1, <1>3, <3>3, <4>1
        <4>3. y[j - n] = w[j + 1] BY <2>8, <4>1
        <4>4. ~(j <= n) BY <1>1, <3>3
        <4>5. z[j] = y[j - n] BY <2>10, <4>4
        <4> QED BY <3>1, <4>2, <4>3, <4>4, <4>5
      <3>4. j \in Nat /\ n \in Nat BY <1>1, <2>0
      <3>5. j <= n \/ j > n BY <3>4
      <3> QED BY <3>2, <3>3, <3>5
    <2> HIDE DEF z, b
    <2>13. z = b BY <2>9, <2>11, <2>12, SeqEqual
    <2> QED BY <1>5, <2>5, <2>6, <2>13 DEF z, b, w
  <1> QED BY <1>4, <1>5

\* What the loop of unListenPorts computes.
UnlisteningLoop(L, row, list, p, d) ==
    L = [i \in 0 .. Len(list) |->
            IF i = 0 THEN row
            ELSE IF list[i] = p THEN RemoveFirst(L[i - 1], d) ELSE L[i - 1]]

LEMMA UnlisteningIs ==
  ASSUME NEW row \in Seq(Nat), NEW list, Len(list) \in Nat, NEW p, NEW d \in Nat, d \notin Range(row),
         NEW k \in Nat, k <= CountTo(list, p, Len(list))
  PROVE  Unlistening(With(row, d, k), list, p, d) = row
  <1> DEFINE n == Len(list)
             C(i) == CountTo(list, p, i)
             Less(i) == IF k <= C(i) THEN 0 ELSE k - C(i)
             V(i) == With(row, d, Less(i))
             w == With(row, d, k)
             G == [i \in 0 .. n |-> V(i)]
             L == CHOOSE f : UnlisteningLoop(f, w, list, p, d)
  <1>1. n \in Nat OBVIOUS
  <1>2. \A i \in Nat : /\ C(0) = 0 /\ C(i) \in Nat
                       /\ C(i + 1) = C(i) + (IF list[i + 1] = p THEN 1 ELSE 0)
    <2>1. Counts(list, p) BY CountsUp
    <2>2. \A i \in Nat : CountTo(list, p, 0) = 0 /\ CountTo(list, p, i) \in Nat BY <2>1 DEF Counts
    <2>3. \A i \in Nat : CountTo(list, p, i + 1) = CountTo(list, p, i) + (IF list[i + 1] = p THEN 1 ELSE 0)
      BY <2>1 DEF Counts
    <2> QED BY <2>2, <2>3
  <1>0. k <= C(n) OBVIOUS
  <1> HIDE DEF C
  <1>3. \A i \in Nat : /\ Less(i) \in Nat
                       /\ Less(i + 1) = IF list[i + 1] = p /\ Less(i) # 0 THEN Less(i) - 1 ELSE Less(i)
    <2> TAKE i \in Nat
    <2> DEFINE c == C(i)
               e == C(i + 1)
    <2>1. c \in Nat /\ e = c + (IF list[i + 1] = p THEN 1 ELSE 0) BY <1>2
    <2>2. Less(i) = (IF k <= c THEN 0 ELSE k - c) /\ Less(i + 1) = (IF k <= e THEN 0 ELSE k - e) OBVIOUS
    <2> HIDE DEF c, e, Less
    <2>3. CASE list[i + 1] = p
      <3>1. e = c + 1 BY <2>1, <2>3
      <3> QED BY <2>1, <2>2, <2>3, <3>1
    <2>4. CASE list[i + 1] # p
      <3>1. e = c BY <2>1, <2>4
      <3> QED BY <2>1, <2>2, <2>4, <3>1
    <2> QED BY <2>3, <2>4
  <1>4. Less(0) = k /\ Less(n) = 0
    <2>1. C(0) = 0 /\ C(n) \in Nat BY <1>1, <1>2
    <2>2. Less(0) = (IF k <= C(0) THEN 0 ELSE k - C(0)) /\ Less(n) = (IF k <= C(n) THEN 0 ELSE k - C(n))
      OBVIOUS
    <2> HIDE DEF Less
    <2> QED BY <1>0, <2>1, <2>2
  <1> HIDE DEF Less
  <1>5. \A i \in Nat : V(i + 1) = IF list[i + 1] = p THEN RemoveFirst(V(i), d) ELSE V(i)
    <2> TAKE i \in Nat
    <2>1. RemoveFirst(V(i), d) = IF Less(i) = 0 THEN row ELSE With(row, d, Less(i) - 1)
      BY <1>3, RemoveFirstIs
    <2>2. Less(i) = 0 => V(i) = row BY WithIs
    <2>3. Less(i + 1) = IF list[i + 1] = p /\ Less(i) # 0 THEN Less(i) - 1 ELSE Less(i) BY <1>3
    <2> QED BY <2>1, <2>2, <2>3
  <1>6. V(0) = w /\ V(n) = row BY <1>4, WithIs
  <1> HIDE DEF V
  <1>7. UnlisteningLoop(G, w, list, p, d)
    <2>1. \A i \in 0 .. n : V(i) = IF i = 0 THEN w
                                   ELSE IF list[i] = p THEN RemoveFirst(G[i - 1], d) ELSE G[i - 1]
      <3> TAKE i \in 0 .. n
      <3>1. CASE i = 0 BY <1>6, <3>1
      <3>2. CASE i # 0
        <4>1. i - 1 \in Nat /\ i - 1 \in 0 .. n /\ (i - 1) + 1 = i BY <1>1, <3>2
        <4>2. G[i - 1] = V(i - 1) BY <4>1
        <4> HIDE DEF G
        <4>3. V((i - 1) + 1) = IF list[(i - 1) + 1] = p THEN RemoveFirst(V(i - 1), d) ELSE V(i - 1)
          BY <1>5, <4>1
        <4> QED BY <3>2, <4>1, <4>2, <4>3
      <3> QED BY <3>1, <3>2
    <2> HIDE DEF w
    <2> QED BY <2>1 DEF UnlisteningLoop
  <1> HIDE DEF w
  <1>8. UnlisteningLoop(L, w, list, p, d) BY <1>7
  <1>9. Unlistening(w, list, p, d) = L[n] BY DEF Unlistening, UnlisteningLoop
  <1> HIDE DEF L, G
  <1> DEFINE A == {i \in Nat : i <= n => L[i] = V(i)}
  <1>10. 0 \in A
    <2>1. 0 \in 0 .. n BY <1>1
    <2>2. L[0] = w BY <1>8, <2>1 DEF UnlisteningLoop
    <2> QED BY <1>6, <2>2
  <1>11. ASSUME NEW i \in A, i < n PROVE i + 1 \in A
    <2>1. L[i] = V(i) /\ i \in Nat /\ i + 1 \in 0 .. n /\ i + 1 # 0 /\ (i + 1) - 1 = i BY <1>1, <1>11
    <2>2. L[i + 1] = IF list[i + 1] = p THEN RemoveFirst(L[(i + 1) - 1], d) ELSE L[(i + 1) - 1]
      BY <1>8, <2>1 DEF UnlisteningLoop
    <2>3. L[i + 1] = V(i + 1) BY <1>5, <2>1, <2>2
    <2> QED BY <2>1, <2>3
  <1>12. n \in A
    <2> HIDE DEF A
    <2>1. A \in SUBSET Nat BY DEF A
    <2> QED BY <1>1, <1>10, <1>11, <2>1, NatUpTo
  <1>13. L[n] = V(n) BY <1>1, <1>12
  <1> QED BY <1>6, <1>9, <1>13 DEF w

-----------------------------------------------------------------------------
(* The expected listeners, one section after another.                       *)

Flattening(f, seqs, m) ==
    f = [i \in 1 .. m |-> IF i = 1 THEN seqs[i] ELSE f[i - 1] \o seqs[i]]
Flattens(seqs, m) == \E f : Flattening(f, seqs, m)

LEMMA FlattenExists == ASSUME NEW seqs, NEW m \in Nat PROVE Flattens(seqs, m)
  <1> DEFINE E == {k \in Nat : Flattens(seqs, k)}
  <1>1. 0 \in E
    <2>1. Flattening([i \in 1 .. 0 |-> 0], seqs, 0) BY DEF Flattening
    <2> QED BY <2>1 DEF Flattens
  <1>2. ASSUME NEW k \in E PROVE k + 1 \in E
    <2>1. PICK f : Flattening(f, seqs, k) BY <1>2 DEF Flattens
    <2> DEFINE g == [i \in 1 .. k + 1 |-> IF i = k + 1 THEN IF i = 1 THEN seqs[i] ELSE f[k] \o seqs[i]
                                          ELSE f[i]]
    <2>2. \A i \in 1 .. k : f[i] = IF i = 1 THEN seqs[i] ELSE f[i - 1] \o seqs[i]
      BY <2>1 DEF Flattening
    <2>3. k \in Nat OBVIOUS
    <2>4. \A i \in 1 .. k + 1 : g[i] = IF i = 1 THEN seqs[i] ELSE g[i - 1] \o seqs[i]
      BY <2>2, <2>3
    <2>5. g = [i \in 1 .. k + 1 |-> g[i]] OBVIOUS
    <2>6. Flattening(g, seqs, k + 1)
      <3> HIDE DEF g
      <3> QED BY <2>4, <2>5 DEF Flattening
    <2> QED BY <2>6 DEF Flattens
  <1>3. E = Nat
    <2> HIDE DEF E
    <2>1. E \in SUBSET Nat BY DEF E
    <2> QED BY <1>1, <1>2, <2>1, NatInd
  <1> QED BY <1>3

\* One sequence more is flattened behind the others.
LEMMA FlattenAppends ==
  ASSUME NEW n \in Nat, NEW s, NEW t, Len(s) = n, Len(t) = n + 1, n = 0 => s = <<>>,
         \A i \in 1 .. n : t[i] = s[i], t[n + 1] \in Seq(Nat)
  PROVE  FlattenSeq(t) = FlattenSeq(s) \o t[n + 1]
  <1> DEFINE F == CHOOSE g : Flattening(g, s, n)
             G == CHOOSE g : Flattening(g, t, n + 1)
  <1>1. Flattening(F, s, n) BY FlattenExists DEF Flattens
  <1>2. Flattening(G, t, n + 1)
    <2>1. n + 1 \in Nat OBVIOUS
    <2> QED BY <2>1, FlattenExists DEF Flattens
  <1>3. FlattenSeq(s) = IF n = 0 THEN s ELSE F[n] BY DEF FlattenSeq, Flattening
  <1>4. FlattenSeq(t) = G[n + 1]
    <2>1. ~(n + 1 = 0) OBVIOUS
    <2> QED BY <2>1 DEF FlattenSeq, Flattening
  <1> HIDE DEF F, G
  <1>5. \A i \in 1 .. n : F[i] = IF i = 1 THEN s[i] ELSE F[i - 1] \o s[i] BY <1>1 DEF Flattening
  <1>6. \A i \in 1 .. n + 1 : G[i] = IF i = 1 THEN t[i] ELSE G[i - 1] \o t[i] BY <1>2 DEF Flattening
  <1>7. CASE n = 0
    <2>1. G[1] = t[1] BY <1>6, <1>7
    <2>2. FlattenSeq(s) = <<>> BY <1>3, <1>7
    <2>3. t[1] \in Seq(Nat) BY <1>7
    <2>4. <<>> \o t[1] = t[1] BY <2>3, ConcatEmptySeq
    <2> QED BY <1>4, <1>7, <2>1, <2>2, <2>4
  <1>8. CASE n # 0
    <2> DEFINE A == {i \in Nat : i + 1 \in 1 .. n => G[i + 1] = F[i + 1]}
    <2>1. 0 \in A
      <3>1. 1 \in 1 .. n /\ 1 \in 1 .. n + 1 BY <1>8
      <3>2. G[1] = t[1] /\ F[1] = s[1] BY <1>5, <1>6, <3>1
      <3> QED BY <3>1, <3>2
    <2>2. ASSUME NEW i \in A, i < n PROVE i + 1 \in A
      <3> DEFINE j == i + 1
                 k == j + 1
      <3>0. i \in Nat /\ j \in Nat OBVIOUS
      <3>1. SUFFICES ASSUME k \in 1 .. n PROVE G[k] = F[k] BY <3>0
      <3>2. j \in 1 .. n /\ k \in 1 .. n + 1 /\ k # 1 /\ k - 1 = j BY <3>0, <3>1
      <3>3. G[j] = F[j] BY <2>2, <3>2
      <3> HIDE DEF k, j
      <3>4. G[k] = G[k - 1] \o t[k] BY <1>6, <3>2
      <3>5. F[k] = F[k - 1] \o s[k] BY <1>5, <3>1, <3>2
      <3> QED BY <3>1, <3>2, <3>3, <3>4, <3>5
    <2>3. n - 1 \in A
      <3> HIDE DEF A
      <3>1. A \in SUBSET Nat BY DEF A
      <3>2. n - 1 \in Nat BY <1>8
      <3>3. \A i \in A : i < n - 1 => i + 1 \in A BY <2>2, <3>1
      <3> QED BY <2>1, <3>1, <3>2, <3>3, NatUpTo
    <2>4. G[n] = F[n]
      <3>1. (n - 1) + 1 = n /\ n \in 1 .. n BY <1>8
      <3> QED BY <2>3, <3>1
    <2>5. G[n + 1] = G[n] \o t[n + 1]
      <3> DEFINE k == n + 1
      <3>1. k \in 1 .. n + 1 /\ k # 1 /\ k - 1 = n BY <1>8
      <3> HIDE DEF k
      <3>2. G[k] = G[k - 1] \o t[k] BY <1>6, <3>1
      <3> QED BY <3>1, <3>2 DEF k
    <2> QED BY <1>3, <1>4, <1>8, <2>4, <2>5
  <1> QED BY <1>7, <1>8

\* What the sections up to now claim of a port, with the listeners it has.
RowOf(devs, row, kind, p) ==
    /\ FlattenSeq(Claimed(devs, kind, p)) \in Seq(Nat)
    /\ row = Expected(devs, kind, p)
    /\ row \in Seq(Nat) /\ Len(row) <= MaxPerPort
    /\ Range(row) \subseteq 1 .. Len(devs)

LEMMA ClaimedGrows ==
  ASSUME NEW devs \in Seq(Section), NEW s \in Section, NEW kind \in {"read", "write"}, NEW p
  PROVE  LET c == IF s.enabled THEN Claims(ListOf(s, kind), Len(devs) + 1, p) ELSE <<>>
         IN  /\ FlattenSeq(Claimed(Append(devs, s), kind, p)) = FlattenSeq(Claimed(devs, kind, p)) \o c
             /\ ListOf(s, kind) \in Seq(Ports) /\ c \in Seq(Nat)
  <1> DEFINE c == IF s.enabled THEN Claims(ListOf(s, kind), Len(devs) + 1, p) ELSE <<>>
             n == Len(devs)
             more == Append(devs, s)
             a == Claimed(devs, kind, p)
             b == Claimed(more, kind, p)
  <1>1. n \in Nat /\ ListOf(s, kind) \in Seq(Ports)
    <2>1. s.reads \in Seq(Ports) /\ s.writes \in Seq(Ports) BY DEF Section
    <2> QED BY <2>1 DEF ListOf
  <1>2. c \in Seq(Nat)
    <2>1. Len(ListOf(s, kind)) \in Nat /\ n + 1 \in Nat BY <1>1
    <2>2. <<>> \in Seq(Nat) OBVIOUS
    <2> QED BY <2>1, <2>2, WithIsJoin
  <1>3. Len(more) = n + 1 /\ more[n + 1] = s /\ \A i \in 1 .. n : more[i] = devs[i]
    BY AppendProperties
  <1> HIDE DEF more
  <1>4. Len(a) = n /\ (n = 0 => a = <<>>) /\ Len(b) = n + 1 BY <1>1, <1>3 DEF Claimed
  <1>5. b[n + 1] = c BY <1>1, <1>3 DEF Claimed
  <1>6. \A i \in 1 .. n : b[i] = a[i] BY <1>1, <1>3 DEF Claimed
  <1> HIDE DEF a, b, c, n
  <1>7. FlattenSeq(b) = FlattenSeq(a) \o c BY <1>1, <1>2, <1>4, <1>5, <1>6, FlattenAppends
  <1> QED BY <1>1, <1>2, <1>7 DEF a, b, c, n, more

\* A section without listeners leaves the row as expected.
LEMMA RowStays ==
  ASSUME NEW devs \in Seq(Section), NEW s \in Section, ~s.enabled, NEW kind \in {"read", "write"}, NEW p,
         NEW row, RowOf(devs, row, kind, p)
  PROVE  RowOf(Append(devs, s), row, kind, p)
  <1> DEFINE a == FlattenSeq(Claimed(devs, kind, p))
             b == FlattenSeq(Claimed(Append(devs, s), kind, p))
  <1>1. b = a \o <<>> BY ClaimedGrows
  <1>2. a \in Seq(Nat) BY DEF RowOf
  <1> HIDE DEF a
  <1>3. b = a BY <1>1, <1>2, ConcatEmptySeq
  <1>4. Len(Append(devs, s)) = Len(devs) + 1 /\ Len(devs) \in Nat BY AppendProperties
  <1>5. 1 .. Len(devs) \subseteq 1 .. Len(devs) + 1 BY <1>4
  <1> QED BY <1>3, <1>4, <1>5 DEF RowOf, Expected, a

\* The first of more listeners than there is room for.
LEMMA FittingFull ==
  ASSUME NEW s \in Seq(Nat), NEW d \in Nat, NEW k \in Nat, Len(s) >= MaxPerPort
  PROVE  /\ Fitting(With(s, d, k)) = Fitting(s)
         /\ Fitting(s) \in Seq(Nat) /\ Len(Fitting(s)) = MaxPerPort
  <1> DEFINE w == With(s, d, k)
             a == Fitting(w)
             b == Fitting(s)
  <1>1. Len(s) \in Nat /\ MaxPerPort \in Nat \ {0} BY ManagerAssumption
  <1>2. w \in Seq(Nat) /\ Len(w) = Len(s) + k BY WithIs
  <1>3. \A j \in 1 .. MaxPerPort : w[j] = s[j] BY <1>1 DEF With
  <1> HIDE DEF w
  <1>4. a = SubSeq(w, 1, MaxPerPort) /\ b = SubSeq(s, 1, MaxPerPort) BY <1>1, <1>2 DEF Fitting
  <1>5. 1 \in 1 .. Len(w) + 1 /\ 1 \in 1 .. Len(s) + 1 /\ MaxPerPort \in 0 .. Len(w) /\ MaxPerPort \in 0 .. Len(s)
    BY <1>1, <1>2
  <1> HIDE DEF a, b
  <1>6. a \in Seq(Nat) /\ Len(a) = MaxPerPort /\ \A j \in 1 .. MaxPerPort : a[j] = w[j]
    BY <1>1, <1>2, <1>4, <1>5, SubSeqProperties
  <1>7. b \in Seq(Nat) /\ Len(b) = MaxPerPort /\ \A j \in 1 .. MaxPerPort : b[j] = s[j]
    BY <1>1, <1>4, <1>5, SubSeqProperties
  <1>8. a = b BY <1>3, <1>6, <1>7, SeqEqual
  <1> QED BY <1>7, <1>8 DEF a, b, w

\* The listeners listenPorts adds to a row are the next ones expected there.
LEMMA RowGrows ==
  ASSUME NEW devs \in Seq(Section), NEW s \in Section, s.enabled, NEW kind \in {"read", "write"}, NEW p,
         NEW row, RowOf(devs, row, kind, p)
  PROVE  LET d == Len(devs) + 1
             r == Listening(row, ListOf(s, kind), p, d)
         IN  /\ RowOf(Append(devs, s), r, kind, p)
             /\ Range(r) = Range(row) \cup (IF Len(r) > Len(row) THEN {d} ELSE {})
             /\ Unlistening(r, ListOf(s, kind), p, d) = row
             /\ ~Contains(ListOf(s, kind), p) => r = row
  <1> DEFINE d == Len(devs) + 1
             list == ListOf(s, kind)
             r == Listening(row, list, p, d)
             c == CountTo(list, p, Len(list))
             f == FlattenSeq(Claimed(devs, kind, p))
             g == FlattenSeq(Claimed(Append(devs, s), kind, p))
             k == Room(row, c)
  <1>1. d \in Nat /\ list \in Seq(Ports) BY ClaimedGrows
  <1>2. g = f \o Claims(list, d, p) BY ClaimedGrows
  <1>3. f \in Seq(Nat) /\ row = Fitting(f) /\ row \in Seq(Nat) /\ Len(row) <= MaxPerPort BY DEF RowOf, Expected
  <1>4. d \notin Range(row) /\ Range(row) \subseteq 1 .. Len(devs) BY DEF RowOf
  <1>L. Len(list) \in Nat /\ Len(row) \in Nat /\ Len(f) \in Nat /\ MaxPerPort \in Nat \ {0}
    BY <1>1, <1>3, ManagerAssumption
  <1>5. Len(Append(devs, s)) = d BY AppendProperties
  <1>6. \A j \in 1 .. Len(list) : list[j] = p => c # 0
    <2> TAKE j \in 1 .. Len(list)
    <2>1. HAVE list[j] = p
    <2> DEFINE hits == {i \in 1 .. Len(list) : list[i] = p}
    <2>2. IsFiniteSet(1 .. Len(list)) BY <1>L, FS_Interval
    <2>3. hits \in SUBSET (1 .. Len(list)) /\ j \in hits BY <2>1
    <2> HIDE DEF hits
    <2>4. IsFiniteSet(hits) /\ hits # {} BY <2>2, <2>3, FS_Subset
    <2>5. Cardinality(hits) # 0 BY <2>4, FS_EmptySet
    <2> QED BY <2>5 DEF hits, CountTo
  <1> HIDE DEF list, d, f, g
  <1>7. r = With(row, d, k) /\ k \in Nat BY <1>1, <1>3, <1>L, ListeningIs
  <1>8. c \in Nat BY <1>L, CountSteps
  <1>9. g \in Seq(Nat) /\ g = With(f, d, c)
    <2>1. Claims(list, d, p) \in Seq(Nat) /\ f \o Claims(list, d, p) = With(f, d, c)
      BY <1>1, <1>3, <1>L, WithIsJoin
    <2> QED BY <1>1, <1>2, <1>3, <1>8, <2>1, WithIs
  <1> HIDE DEF c, r
  <1>10. Fitting(g) = r
    <2>1. CASE Len(f) < MaxPerPort
      <3>1. row = f
        <4>1. row = SubSeq(f, 1, Len(f)) BY <1>3, <2>1 DEF Fitting
        <4> QED BY <1>3, <4>1, SubSeqFull
      <3> QED BY <1>1, <1>3, <1>7, <1>8, <1>9, <3>1, FittingWith
    <2>2. CASE Len(f) >= MaxPerPort
      <3>1. Fitting(g) = Fitting(f) /\ Len(row) = MaxPerPort BY <1>1, <1>3, <1>8, <1>9, <2>2, FittingFull
      <3>2. k = 0 BY <1>8, <1>L, <3>1 DEF Room
      <3>3. r = row BY <1>1, <1>3, <1>7, <3>2, WithIs
      <3> QED BY <1>3, <3>1, <3>3
    <2> QED BY <1>L, <2>1, <2>2
  <1>11. r \in Seq(Nat) /\ Len(r) = Len(row) + k BY <1>1, <1>3, <1>7, WithIs
  <1>12. Len(r) <= MaxPerPort /\ k <= c BY <1>8, <1>L, <1>11 DEF Room
  <1>13. Range(r) = Range(row) \cup (IF Len(r) > Len(row) THEN {d} ELSE {})
    <2>1. \A j \in 1 .. Len(row) + k : r[j] = IF j <= Len(row) THEN row[j] ELSE d
      BY <1>7, <1>L DEF With
    <2>2. Range(r) = {r[j] : j \in 1 .. Len(row) + k} BY <1>11 DEF Range
    <2>3. Range(row) = {row[j] : j \in 1 .. Len(row)} BY <1>3 DEF Range
    <2>4. CASE k = 0
      <3>1. Len(row) + k = Len(row) /\ ~(Len(r) > Len(row)) BY <1>L, <1>11, <2>4
      <3>2. \A j \in 1 .. Len(row) : r[j] = row[j] BY <1>L, <2>1, <3>1
      <3> QED BY <2>2, <2>3, <3>1, <3>2
    <2>5. CASE k # 0
      <3>1. Len(r) > Len(row) /\ Len(row) + k \in 1 .. Len(row) + k /\ ~(Len(row) + k <= Len(row))
        BY <1>7, <1>L, <1>11, <2>5
      <3>2. r[Len(row) + k] = d BY <2>1, <3>1
      <3>3. \A j \in 1 .. Len(row) : j \in 1 .. Len(row) + k /\ r[j] = row[j] BY <1>7, <1>L, <2>1
      <3>4. \A j \in 1 .. Len(row) + k : r[j] = d \/ (j \in 1 .. Len(row) /\ r[j] = row[j])
        BY <1>7, <1>L, <2>1
      <3> QED BY <2>2, <2>3, <3>1, <3>2, <3>3, <3>4
    <2> QED BY <2>4, <2>5
  <1>14. Unlistening(r, list, p, d) = row
    <2>1. k <= CountTo(list, p, Len(list)) BY <1>12 DEF c
    <2> HIDE DEF k
    <2> QED BY <1>1, <1>3, <1>4, <1>7, <1>L, <2>1, UnlisteningIs
  <1>15. ~Contains(list, p) => r = row
    <2>1. HAVE ~Contains(list, p)
    <2>2. {j \in 1 .. Len(list) : list[j] = p} = {} BY <2>1 DEF Contains
    <2>3. c = 0 BY <2>2, FS_EmptySet DEF c, CountTo
    <2>4. k = 0 BY <1>3, <1>L, <2>3 DEF Room
    <2> QED BY <1>1, <1>3, <1>7, <2>4, WithIs
  <1>16. RowOf(Append(devs, s), r, kind, p)
    <2>1. Range(r) \subseteq 1 .. d
      <3>1. 1 .. Len(devs) \subseteq 1 .. d /\ d \in 1 .. d BY DEF d
      <3> QED BY <1>4, <1>13, <3>1
    <2> QED BY <1>5, <1>9, <1>10, <1>11, <1>12, <2>1 DEF RowOf, Expected, g
  <1> QED BY <1>13, <1>14, <1>15, <1>16 DEF d, list, r
-----------------------------------------------------------------------------
(* The dispatch tables.                                                     *)

DispatchInv ==
    /\ ini \in Inis /\ section \in Nat \ {0} /\ devices \in Seq(Section)
    /\ \A p \in Ports : /\ RowOf(devices, readers[p], "read", p)
                        /\ RowOf(devices, writers[p], "write", p)
                        /\ exwaits[p].read <=> Wanted(devices, readers[p])
                        /\ exwaits[p].write <=> Wanted(devices, writers[p])
    /\ flat = BuildFlatTables(readers, writers, exwaits)

\* A manager that has created nothing yet.
NoDevice == /\ ini \in Inis /\ section = 1 /\ devices = <<>>
            /\ readers = NoListener /\ writers = NoListener
            /\ exwaits = [p \in Ports |-> [read |-> FALSE, write |-> FALSE]] /\ flat = NoFlat

LEMMA NoRow == ASSUME NEW kind, NEW p PROVE RowOf(<<>>, <<>>, kind, p)
  <1>1. Len(<<>>) = 0 /\ <<>> \in Seq(Nat) OBVIOUS
  <1>2. Claimed(<<>>, kind, p) = <<>> BY <1>1 DEF Claimed
  <1>3. FlattenSeq(<<>>) = <<>> BY <1>1 DEF FlattenSeq
  <1>4. Fitting(<<>>) = <<>>
    <2>1. MaxPerPort > 0 BY ManagerAssumption
    <2>2. Fitting(<<>>) = SubSeq(<<>>, 1, 0) BY <1>1, <2>1 DEF Fitting
    <2> QED BY <2>2
  <1>5. Range(<<>>) = {} BY DEF Range
  <1>6. 0 <= MaxPerPort BY ManagerAssumption
  <1> QED BY <1>1, <1>2, <1>3, <1>4, <1>5, <1>6 DEF RowOf, Expected

LEMMA NoDeviceDispatches == NoDevice => DispatchInv
  <1> SUFFICES ASSUME NoDevice PROVE DispatchInv OBVIOUS
  <1>1. ASSUME NEW p \in Ports
        PROVE  /\ readers[p] = <<>> /\ writers[p] = <<>> /\ ~exwaits[p].read /\ ~exwaits[p].write
               /\ ~Wanted(devices, readers[p]) /\ ~Wanted(devices, writers[p])
    <2>1. Range(<<>>) = {} BY DEF Range
    <2> QED BY <2>1 DEF NoDevice, NoListener, Wanted
  <1>2. flat = BuildFlatTables(readers, writers, exwaits)
    BY DEF NoDevice, NoListener, NoFlat, BuildFlatTables
  <1>3. devices = <<>> /\ devices \in Seq(Section) BY DEF NoDevice
  <1> QED BY <1>1, <1>2, <1>3, NoRow DEF NoDevice, DispatchInv

\* Who asks for EXWAIT on a row, when a device is created.
LEMMA WantedGrows ==
  ASSUME NEW devs \in Seq(Section), NEW s \in Section, NEW row, Range(row) \subseteq 1 .. Len(devs)
  PROVE  /\ Wanted(Append(devs, s), row) <=> Wanted(devs, row)
         /\ \A r : Range(r) = Range(row) \cup {Len(devs) + 1}
                     => (Wanted(Append(devs, s), r) <=> Wanted(devs, row) \/ s.exwait)
  <1> DEFINE more == Append(devs, s)
  <1>1. more[Len(devs) + 1] = s /\ \A i \in 1 .. Len(devs) : more[i] = devs[i] BY AppendProperties
  <1> HIDE DEF more
  <1>2. \A e \in Range(row) : more[e] = devs[e] BY <1>1
  <1>3. Wanted(more, row) <=> Wanted(devs, row) BY <1>2 DEF Wanted
  <1>4. ASSUME NEW r, Range(r) = Range(row) \cup {Len(devs) + 1}
        PROVE  Wanted(more, r) <=> Wanted(devs, row) \/ s.exwait
    BY <1>1, <1>2, <1>4 DEF Wanted
  <1> QED BY <1>3, <1>4 DEF more

\* A section that is created without listeners.
LEMMA UnlistenedSection ==
  ASSUME DispatchInv, NEW s \in Section, ~s.enabled,
         devices' = Append(devices, s), section' = section + 1, ini' = ini,
         \A p \in Ports : /\ readers'[p] = readers[p] /\ writers'[p] = writers[p]
                          /\ exwaits'[p].read <=> exwaits[p].read
                          /\ exwaits'[p].write <=> exwaits[p].write,
         flat' = BuildFlatTables(readers', writers', exwaits')
  PROVE  DispatchInv'
  <1>1. devices \in Seq(Section) /\ section \in Nat \ {0} BY DEF DispatchInv
  <1>2. devices' \in Seq(Section) BY <1>1, AppendProperties
  <1>3. ASSUME NEW p \in Ports
        PROVE  /\ RowOf(devices', readers'[p], "read", p) /\ RowOf(devices', writers'[p], "write", p)
               /\ exwaits'[p].read <=> Wanted(devices', readers'[p])
               /\ exwaits'[p].write <=> Wanted(devices', writers'[p])
    <2>1. RowOf(devices, readers[p], "read", p) /\ RowOf(devices, writers[p], "write", p)
      BY DEF DispatchInv
    <2>2. RowOf(devices', readers'[p], "read", p) /\ RowOf(devices', writers'[p], "write", p)
      BY <1>1, <2>1, RowStays
    <2>3. Range(readers[p]) \subseteq 1 .. Len(devices) /\ Range(writers[p]) \subseteq 1 .. Len(devices)
      BY <2>1 DEF RowOf
    <2>4. /\ Wanted(devices', readers[p]) <=> Wanted(devices, readers[p])
          /\ Wanted(devices', writers[p]) <=> Wanted(devices, writers[p])
      BY <1>1, <2>3, WantedGrows
    <2>5. /\ exwaits[p].read <=> Wanted(devices, readers[p])
          /\ exwaits[p].write <=> Wanted(devices, writers[p])
      BY DEF DispatchInv
    <2> QED BY <2>2, <2>4, <2>5
  <1>4. ini' \in Inis BY DEF DispatchInv
  <1>5. section' \in Nat \ {0} BY <1>1
  <1> QED BY <1>2, <1>3, <1>4, <1>5 DEF DispatchInv

\* A section whose device gets its listeners, and keeps them or gives them up.
LEMMA EnabledKeeps ==
  ASSUME DispatchInv, NEW s \in Section, EnabledSection(s), ini' = ini PROVE DispatchInv'
  <1> DEFINE d == Len(devices) + 1
             t == [s EXCEPT !.enabled = s.config = "ok"]
             rd == Listened(readers, s.reads, d)
             wr == Listened(writers, s.writes, d)
             wants == [p \in Ports |->
                        [read |-> Asked(exwaits[p].read, readers[p], rd[p], s.exwait),
                         write |-> Asked(exwaits[p].write, writers[p], wr[p], s.exwait)]]
             rdLess == Unlistened(rd, s.reads, d)
             wrLess == Unlistened(wr, s.writes, d)
             list == s.reads \o s.writes
  <1>1. /\ devices' = Append(devices, t) /\ section' = section + 1
        /\ s.enabled
        /\ flat' = BuildFlatTables(readers', writers', exwaits')
    BY DEF EnabledSection
  <1>2. s.config = "ok" => readers' = rd /\ writers' = wr /\ exwaits' = wants
    BY DEF EnabledSection
  <1>3. s.config # "ok" => /\ readers' = rdLess /\ writers' = wrLess
                           /\ exwaits' = Recomputed(devices', wants, list, rdLess, wrLess)
    BY DEF EnabledSection
  <1>4. devices \in Seq(Section) /\ section \in Nat \ {0} BY DEF DispatchInv
  <1>5. /\ t \in Section /\ t.exwait = s.exwait /\ (t.enabled <=> s.config = "ok")
        /\ t.reads = s.reads /\ t.writes = s.writes
    BY DEF Section
  <1>6. /\ ListOf(s, "read") = s.reads /\ ListOf(s, "write") = s.writes
        /\ ListOf(t, "read") = s.reads /\ ListOf(t, "write") = s.writes
    BY <1>5 DEF ListOf
  <1> HIDE DEF t
  <1>7. ASSUME NEW p \in Ports
        PROVE  /\ RowOf(devices, readers[p], "read", p) /\ RowOf(devices, writers[p], "write", p)
               /\ Range(readers[p]) \subseteq 1 .. Len(devices)
               /\ Range(writers[p]) \subseteq 1 .. Len(devices)
               /\ exwaits[p].read <=> Wanted(devices, readers[p])
               /\ exwaits[p].write <=> Wanted(devices, writers[p])
    BY DEF DispatchInv, RowOf
  <1>8. ASSUME NEW p \in Ports
        PROVE  /\ rd[p] = Listening(readers[p], s.reads, p, d)
               /\ wr[p] = Listening(writers[p], s.writes, p, d)
               /\ Range(rd[p]) = Range(readers[p]) \cup (IF Len(rd[p]) > Len(readers[p]) THEN {d} ELSE {})
               /\ Range(wr[p]) = Range(writers[p]) \cup (IF Len(wr[p]) > Len(writers[p]) THEN {d} ELSE {})
               /\ rdLess[p] = readers[p] /\ wrLess[p] = writers[p]
               /\ ~Contains(s.reads, p) => rd[p] = readers[p]
               /\ ~Contains(s.writes, p) => wr[p] = writers[p]
    <2>1. /\ rd[p] = Listening(readers[p], s.reads, p, d) /\ wr[p] = Listening(writers[p], s.writes, p, d)
          /\ rdLess[p] = Unlistening(rd[p], s.reads, p, d) /\ wrLess[p] = Unlistening(wr[p], s.writes, p, d)
      BY DEF Listened, Unlistened
    <2> HIDE DEF rd, wr, rdLess, wrLess
    <2>2. "read" \in {"read", "write"} /\ "write" \in {"read", "write"} OBVIOUS
    <2>3. /\ Range(rd[p]) = Range(readers[p]) \cup (IF Len(rd[p]) > Len(readers[p]) THEN {d} ELSE {})
          /\ rdLess[p] = readers[p] /\ (~Contains(s.reads, p) => rd[p] = readers[p])
      BY <1>1, <1>4, <1>6, <1>7, <2>1, <2>2, RowGrows
    <2>4. /\ Range(wr[p]) = Range(writers[p]) \cup (IF Len(wr[p]) > Len(writers[p]) THEN {d} ELSE {})
          /\ wrLess[p] = writers[p] /\ (~Contains(s.writes, p) => wr[p] = writers[p])
      BY <1>1, <1>4, <1>6, <1>7, <2>1, <2>2, RowGrows
    <2> QED BY <2>1, <2>3, <2>4
  <1>9. ASSUME NEW p \in Ports
        PROVE  /\ wants[p].read <=> exwaits[p].read \/ (s.exwait /\ Len(rd[p]) > Len(readers[p]))
               /\ wants[p].write <=> exwaits[p].write \/ (s.exwait /\ Len(wr[p]) > Len(writers[p]))
    <2> HIDE DEF rd, wr
    <2> QED BY DEF Asked
  <1> HIDE DEF rd, wr, wants, rdLess, wrLess
  <1>10. CASE s.config = "ok"
    <2>1. t.enabled /\ readers' = rd /\ writers' = wr /\ exwaits' = wants BY <1>2, <1>5, <1>10
    <2>2. ASSUME NEW p \in Ports
          PROVE  /\ RowOf(devices', readers'[p], "read", p) /\ RowOf(devices', writers'[p], "write", p)
                 /\ exwaits'[p].read <=> Wanted(devices', readers'[p])
                 /\ exwaits'[p].write <=> Wanted(devices', writers'[p])
      <3>0. "read" \in {"read", "write"} /\ "write" \in {"read", "write"} OBVIOUS
      <3>1. RowOf(devices', rd[p], "read", p)
        BY <1>1, <1>4, <1>5, <1>6, <1>7, <1>8, <2>1, <3>0, RowGrows
      <3>2. RowOf(devices', wr[p], "write", p)
        BY <1>1, <1>4, <1>5, <1>6, <1>7, <1>8, <2>1, <3>0, RowGrows
      <3>3. wants[p].read <=> Wanted(devices', rd[p])
        <4>1. Wanted(devices', readers[p]) <=> Wanted(devices, readers[p])
          BY <1>1, <1>4, <1>5, <1>7, WantedGrows
        <4>2. CASE Len(rd[p]) > Len(readers[p])
          <5>1. Range(rd[p]) = Range(readers[p]) \cup {Len(devices) + 1} BY <1>8, <4>2
          <5>2. Wanted(devices', rd[p]) <=> Wanted(devices, readers[p]) \/ s.exwait
            BY <1>1, <1>4, <1>5, <1>7, <5>1, WantedGrows
          <5> QED BY <1>7, <1>9, <4>2, <5>2
        <4>3. CASE ~(Len(rd[p]) > Len(readers[p]))
          <5>1. Range(rd[p]) = Range(readers[p]) BY <1>8, <4>3
          <5>2. Wanted(devices', rd[p]) <=> Wanted(devices', readers[p]) BY <5>1 DEF Wanted
          <5> QED BY <1>7, <1>9, <4>1, <4>3, <5>2
        <4> QED BY <4>2, <4>3
      <3>4. wants[p].write <=> Wanted(devices', wr[p])
        <4>1. Wanted(devices', writers[p]) <=> Wanted(devices, writers[p])
          BY <1>1, <1>4, <1>5, <1>7, WantedGrows
        <4>2. CASE Len(wr[p]) > Len(writers[p])
          <5>1. Range(wr[p]) = Range(writers[p]) \cup {Len(devices) + 1} BY <1>8, <4>2
          <5>2. Wanted(devices', wr[p]) <=> Wanted(devices, writers[p]) \/ s.exwait
            BY <1>1, <1>4, <1>5, <1>7, <5>1, WantedGrows
          <5> QED BY <1>7, <1>9, <4>2, <5>2
        <4>3. CASE ~(Len(wr[p]) > Len(writers[p]))
          <5>1. Range(wr[p]) = Range(writers[p]) BY <1>8, <4>3
          <5>2. Wanted(devices', wr[p]) <=> Wanted(devices', writers[p]) BY <5>1 DEF Wanted
          <5> QED BY <1>7, <1>9, <4>1, <4>3, <5>2
        <4> QED BY <4>2, <4>3
      <3> QED BY <2>1, <3>1, <3>2, <3>3, <3>4
    <2>3. devices' \in Seq(Section) /\ section' \in Nat \ {0} /\ ini' \in Inis
      BY <1>1, <1>4, <1>5, AppendProperties DEF DispatchInv
    <2> QED BY <1>1, <2>2, <2>3 DEF DispatchInv
  <1>11. CASE s.config # "ok"
    <2>1. ~t.enabled /\ readers' = rdLess /\ writers' = wrLess BY <1>3, <1>5, <1>11
    <2>2. ASSUME NEW p \in Ports
          PROVE  /\ exwaits'[p].read <=> exwaits[p].read
                 /\ exwaits'[p].write <=> exwaits[p].write
      <3>1. /\ Wanted(devices', readers[p]) <=> Wanted(devices, readers[p])
            /\ Wanted(devices', writers[p]) <=> Wanted(devices, writers[p])
        BY <1>1, <1>4, <1>5, <1>7, WantedGrows
      <3>2. exwaits'[p] = IF Contains(list, p)
                          THEN [read |-> Wanted(devices', rdLess[p]), write |-> Wanted(devices', wrLess[p])]
                          ELSE wants[p]
        BY <1>3, <1>11 DEF Recomputed
      <3>3. CASE Contains(list, p)
        <4>1. /\ exwaits'[p].read <=> Wanted(devices', readers[p])
              /\ exwaits'[p].write <=> Wanted(devices', writers[p])
          BY <1>8, <3>2, <3>3
        <4> QED BY <1>7, <3>1, <4>1
      <3>4. CASE ~Contains(list, p)
        <4>1. ~Contains(s.reads, p) /\ ~Contains(s.writes, p)
          <5>1. s.reads \in Seq(Ports) /\ s.writes \in Seq(Ports) BY DEF Section
          <5> DEFINE a == s.reads
                     b == s.writes
          <5>2. /\ a \in Seq(Ports) /\ b \in Seq(Ports) /\ list = a \o b
                /\ Len(a) \in Nat /\ Len(b) \in Nat
            BY <5>1
          <5> HIDE DEF a, b, list
          <5>8. Len(list) = Len(a) + Len(b) BY <5>2, ConcatProperties
          <5>3. \A i \in 1 .. Len(a) : i \in 1 .. Len(list) /\ list[i] = a[i]
            BY <5>2, <5>8, ConcatProperties
          <5>4. ASSUME NEW i \in 1 .. Len(b)
                PROVE  Len(a) + i \in 1 .. Len(list) /\ list[Len(a) + i] = b[i]
            <6> DEFINE m == Len(a) + i
            <6>1. m \in 1 .. Len(a) + Len(b) /\ ~(m <= Len(a)) /\ m - Len(a) = i
              BY <5>2
            <6> HIDE DEF m
            <6>2. list[m] = b[m - Len(a)] BY <5>2, <6>1, ConcatProperties
            <6> QED BY <5>8, <6>1, <6>2 DEF m
          <5>5. \A i \in 1 .. Len(list) : list[i] # p BY <3>4 DEF Contains
          <5>6. \A i \in 1 .. Len(a) : a[i] # p BY <5>3, <5>5
          <5>7. \A i \in 1 .. Len(b) : b[i] # p BY <5>4, <5>5
          <5> QED BY <5>6, <5>7 DEF Contains, a, b
        <4>2. rd[p] = readers[p] /\ wr[p] = writers[p] BY <1>8, <4>1
        <4>3. ~(Len(rd[p]) > Len(readers[p])) /\ ~(Len(wr[p]) > Len(writers[p]))
          <5>1. Len(readers[p]) \in Nat /\ Len(writers[p]) \in Nat BY <1>7 DEF RowOf
          <5> QED BY <4>2, <5>1
        <4> QED BY <1>9, <3>2, <3>4, <4>3
      <3> QED BY <3>3, <3>4
    <2>3. \A p \in Ports : readers'[p] = readers[p] /\ writers'[p] = writers[p] BY <1>8, <2>1
    <2> QED BY <1>1, <1>5, <2>1, <2>2, <2>3, UnlistenedSection
  <1> QED BY <1>10, <1>11

LEMMA BootKeepsDispatch == ASSUME DispatchInv, section <= Len(ini), BootSection PROVE DispatchInv'
  <1> DEFINE s == ini[section]
  <1>1. s \in Section
    <2>1. ini \in Seq(Section) /\ section \in Nat \ {0} BY ManagerAssumption DEF DispatchInv
    <2>2. section \in 1 .. Len(ini) BY <2>1
    <2> QED BY <2>1, <2>2
  <1>2. ini' = ini BY DEF BootSection
  <1>3. CASE SkipSection(s)
    <2>1. /\ section' = section + 1
          /\ UNCHANGED <<devices, readers, writers, exwaits, flat>>
      BY <1>3 DEF SkipSection, Unregistered
    <2>2. section' \in Nat \ {0} BY <2>1 DEF DispatchInv
    <2> QED BY <1>2, <2>1, <2>2 DEF DispatchInv
  <1>4. CASE DisabledSection(s)
    <2> DEFINE t == [s EXCEPT !.enabled = FALSE]
    <2>1. /\ devices' = Append(devices, t) /\ section' = section + 1
          /\ UNCHANGED <<readers, writers, exwaits, flat>>
      BY <1>4 DEF DisabledSection, Unregistered
    <2>2. t \in Section /\ ~t.enabled BY <1>1 DEF Section
    <2> HIDE DEF t
    <2>3. flat' = BuildFlatTables(readers', writers', exwaits') BY <2>1 DEF DispatchInv
    <2>4. \A p \in Ports : /\ readers'[p] = readers[p] /\ writers'[p] = writers[p]
                           /\ exwaits'[p].read <=> exwaits[p].read
                           /\ exwaits'[p].write <=> exwaits[p].write
      BY <2>1
    <2> QED BY <1>2, <2>1, <2>2, <2>3, <2>4, UnlistenedSection
  <1>5. CASE EnabledSection(s) BY <1>1, <1>2, <1>5, EnabledKeeps
  <1> HIDE DEF s
  <1> QED BY <1>3, <1>4, <1>5 DEF BootSection, s

LEMMA DispatchFollows == DispatchInv => DispatchIsOfEnabled
  <1> SUFFICES ASSUME DispatchInv, NEW p \in Ports
               PROVE  LET R == Expected(devices, "read", p)
                          W == Expected(devices, "write", p)
                      IN  /\ flat[p].read = R /\ flat[p].write = W
                          /\ flat[p].exwait <=> \E d \in Range(R \o W) : devices[d].exwait
    BY DEF DispatchIsOfEnabled
  <1>1. /\ readers[p] = Expected(devices, "read", p) /\ writers[p] = Expected(devices, "write", p)
        /\ readers[p] \in Seq(Nat) /\ writers[p] \in Seq(Nat)
        /\ exwaits[p].read <=> Wanted(devices, readers[p])
        /\ exwaits[p].write <=> Wanted(devices, writers[p])
    BY DEF DispatchInv, RowOf
  <1>2. /\ flat[p].read = readers[p] /\ flat[p].write = writers[p]
        /\ flat[p].exwait <=> exwaits[p].read \/ exwaits[p].write
    BY DEF DispatchInv, BuildFlatTables
  <1>3. Range(readers[p] \o writers[p]) = Range(readers[p]) \cup Range(writers[p])
    BY <1>1, RangeConcatenation
  <1>4. (\E d \in Range(readers[p] \o writers[p]) : devices[d].exwait)
          <=> Wanted(devices, readers[p]) \/ Wanted(devices, writers[p])
    BY <1>3 DEF Wanted
  <1> QED BY <1>1, <1>2, <1>4

LEMMA RebootDispatches == ASSUME DispatchInv, Reboot PROVE DispatchInv'
  <1>1. NoDevice' BY DEF Reboot, NoDevice, DispatchInv, NoListener, NoFlat
  <1> QED BY <1>1, NoDeviceDispatches, PTL

LEMMA ManagerRests == ASSUME DispatchInv, UNCHANGED managerVars PROVE DispatchInv'
  BY DEF managerVars, DispatchInv

LEMMA DispatchInit == Init => DispatchInv
  <1>1. Init => NoDevice BY DEF Init, ManagerInit, NoDevice
  <1> QED BY <1>1, NoDeviceDispatches

LEMMA Core1Dispatches == ASSUME DispatchInv, Core1 PROVE DispatchInv'
  <1>1. CASE Boot
    <2>1. CASE BootSection
      <3>1. CASE section <= Len(ini) BY <2>1, <3>1, BootKeepsDispatch
      <3> QED BY <2>1, <3>1 DEF BootSection
    <2>2. CASE UNCHANGED managerVars BY <2>2, ManagerRests
    <2> QED BY <1>1, <2>1, <2>2 DEF Boot
  <1>2. CASE \/ RestartBusSms \/ TakeRead \/ ReadHigh \/ DrivePins \/ Verdict \/ ReadRelease \/ ReadEnds
             \/ DrainRead \/ TakeWrite \/ WriteWords \/ DrainWrite \/ WriteRelease
             \/ SoftReset \/ SoftFlush \/ FlashStep(1)
    <2>1. UNCHANGED managerVars
      BY <1>2 DEF RestartBusSms, TakeRead, ReadHigh, DrivePins, Verdict, ReadRelease, ReadEnds,
                  DrainRead, TakeWrite, WriteWords, DrainWrite, WriteRelease, SoftReset, SoftFlush,
                  FlashStep, Aside
    <2> QED BY <2>1, ManagerRests
  <1>3. CASE ReadHandler \/ WriteHandler
    <2>1. UNCHANGED managerVars BY <1>3 DEF ReadHandler, WriteHandler, Handlers, Aside
    <2> QED BY <2>1, ManagerRests
  <1> QED BY <1>1, <1>2, <1>3 DEF Core1

LEMMA DispatchStep == DispatchInv /\ [Next]_vars => DispatchInv'
  <1> SUFFICES ASSUME DispatchInv, [Next]_vars PROVE DispatchInv' OBVIOUS
  <1>1. CASE Core1 BY <1>1, Core1Dispatches
  <1>2. CASE WatchdogReboot \/ WatchdogBites
    BY <1>2, RebootDispatches DEF WatchdogReboot, WatchdogBites
  <1>3. CASE ResetHandler \/ HardFlush \/ FlashStep(0) \/ Machines \/ EndCycle \/ StartCycle \/ PressReset
             \/ ReleaseReset \/ TimePasses \/ UNCHANGED vars
    <2>1. UNCHANGED managerVars
      BY <1>3 DEF ResetHandler, HardFlush, FlashStep, Machines, ReadMachine, WriteMachine, EndCycle,
                  StartCycle, PressReset, ReleaseReset, TimePasses, vars
    <2> QED BY <2>1, ManagerRests
  <1> QED BY <1>1, <1>2, <1>3 DEF Next, Core0

\* Whatever sections were skipped, disabled or given up for want of memory, and
\* wherever a reboot starts the boot loop over, an access is dispatched to the
\* first enabled devices of the file that claim its port.
THEOREM DispatchSound == Spec => []DispatchIsOfEnabled
  <1>1. Spec => []DispatchInv BY DispatchInit, DispatchStep, PTL DEF Spec
  <1> QED BY <1>1, DispatchFollows, PTL
=============================================================================
