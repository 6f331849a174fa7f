------------------------------ MODULE BusLoop -------------------------------
(***************************************************************************)
(* The Z80 bus, the PIO state machines that capture its cycles, the loop of *)
(* core 1 that serves them, the reset handler of core 0 and the lockout by  *)
(* which a core that programs the flash stops the other (Deluxe board).     *)
(*                                                                         *)
(* Timing.  Three facts of the hardware are guards: a state machine runs    *)
(* its steps within a bus cycle and within the pause after it, core 1 takes *)
(* a captured cycle up, when it waits for one, before the Z80 samples       *)
(* /WAIT, and so it finishes a port that does not hold the Z80.             *)
(***************************************************************************)
EXTENDS DeviceManager

CONSTANTS Guest,       \* configuration -> the accesses of the Z80: <<kind, port>>
          MaxPresses,  \* times the reset line is asserted (bound)
          ReadFifo,    \* words of the read machine's FIFO
          WriteFifo    \* words of the write machine's joined FIFO

ASSUME BusAssumption == Guest \in [Inis -> SUBSET ({"read", "write"} \X Ports)] /\ {ReadFifo, WriteFifo, MaxPresses} \subseteq Nat \ {0, 1}

VARIABLES
    inReset,   \* the Z80 is held in reset
    presses,   \* times it was
    cycle,     \* its I/O cycle: kind, port, and whether /WAIT was pulled low in it
    exwait,    \* core 1 holds /WAIT low
    pins,      \* what core 1 drives on the data pins: a port's byte, or "input"
    rsm,       \* the read machine's place in its program
    rx, tx,    \* its FIFOs
    wsm,       \* the write machine's place
    wx,        \* its FIFO
    pc,        \* core -> what it executes
    port,      \* low_addr of listen_loop
    resetting, \* core 1 is inside the soft reset
    at,        \* core -> the device flushAll has come to
    dirty,     \* devices whose flush has something to program
    softPending, shuttingDown, watchdog,
    irq,       \* the reset interrupt is pending on core 0
    bounce,    \* less than 500 ms since the last reset interrupt
    recent,    \* less than 3 s since the last soft reset
    flash,     \* core -> its place in flash_guard_enter, the operation and exit
    mutex,     \* the SDK's lockout mutex: its owner, or none
    req, ans,  \* core -> lockout word sent to it, and answer waiting for it
    parked     \* core -> it spins in the lockout interrupt

z80 == <<inReset, presses, cycle>>
sms == <<rsm, rx, tx, wsm, wx>>
loop == <<exwait, pins, port, resetting, dirty>>
resets == <<softPending, shuttingDown, watchdog, irq, bounce, recent>>
lock == <<flash, mutex, req, ans, parked>>
vars == <<managerVars, z80, sms, loop, pc, at, resets, lock>>

Cores == {0, 1}
NoCycle == [kind |-> "none"]
Reading == cycle.kind = "read"
Writing == cycle.kind = "write"
Low(p) == <<"low", p>>
AnyPort == CHOOSE p \in Ports : TRUE
PortOf(w) == IF Len(w) = 2 THEN w[2] ELSE AnyPort

Booting == [c \in Cores |-> IF c = 0 THEN "run" ELSE "boot"]

Init == /\ ManagerInit
        /\ inReset = FALSE /\ presses = 0 /\ cycle = NoCycle
        /\ rsm = "idle" /\ rx = <<>> /\ tx = <<>> /\ wsm = "idle" /\ wx = <<>>
        /\ exwait = FALSE /\ pins = "input" /\ port = AnyPort
        /\ resetting = FALSE /\ dirty = {}
        /\ pc = Booting /\ at = [c \in Cores |-> 1]
        /\ softPending = FALSE /\ shuttingDown = FALSE /\ watchdog = FALSE
        /\ irq = FALSE /\ bounce = FALSE /\ recent = FALSE
        /\ flash = [c \in Cores |-> "out"] /\ mutex = {}
        /\ req = [c \in Cores |-> "none"] /\ ans = [c \in Cores |-> "none"]
        /\ parked = [c \in Cores |-> FALSE]

\* A reboot: the RAM is made anew and core 1 boots, the pins let go of the bus.
Reboot == /\ section' = 1 /\ devices' = <<>> /\ UNCHANGED ini
          /\ readers' = NoListener /\ writers' = NoListener
          /\ exwaits' = [p \in Ports |-> [read |-> FALSE, write |-> FALSE]] /\ flat' = NoFlat
          /\ UNCHANGED <<inReset, presses>>
          /\ cycle' = IF cycle = NoCycle THEN cycle ELSE [cycle EXCEPT !.held = FALSE]
          /\ rsm' = "idle" /\ rx' = <<>> /\ tx' = <<>> /\ wsm' = "idle" /\ wx' = <<>>
          /\ exwait' = FALSE /\ pins' = "input" /\ port' = AnyPort
          /\ resetting' = FALSE /\ dirty' = {}
          /\ pc' = Booting /\ at' = [c \in Cores |-> 1]
          /\ softPending' = FALSE /\ shuttingDown' = FALSE /\ watchdog' = FALSE
          /\ irq' = FALSE /\ bounce' = FALSE /\ recent' = FALSE
          /\ flash' = [c \in Cores |-> "out"] /\ mutex' = {}
          /\ req' = [c \in Cores |-> "none"] /\ ans' = [c \in Cores |-> "none"]
          /\ parked' = [c \in Cores |-> FALSE]

\* --------------------------------------------- the Z80 and the machines ----
Serving == {"high", "call", "pins", "verdict", "release", "wait", "drain",
            "whigh", "wcall", "wrelease", "wdrain"}

\* Core 1 is waiting for a cycle, or in a handler that is short.
Prompt == /\ ~parked[1]
          /\ \/ pc[1] = "loop" /\ rx \o wx # <<>>
             \/ pc[1] \in Serving /\ ~flat[port].exwait

\* The machines have done what the cycle asks of them.
MachinesWait == /\ rsm = "idle" => ~Reading
                /\ rsm = "high" => Len(rx) = ReadFifo
                /\ rsm = "pull" => tx = <<>>
                /\ wsm = "idle" => ~Writing
                /\ wsm \in {"high", "data"} => Len(wx) = WriteFifo
MachinesRest == rsm \notin {"drive", "end"} /\ wsm # "end"

StartCycle == /\ ~inReset /\ cycle = NoCycle
              /\ MachinesRest /\ (pc[1] = "wait" => parked[1])
              /\ \E a \in Guest[ini] :
                    cycle' = [kind |-> a[1], port |-> a[2], held |-> FALSE]
              /\ UNCHANGED <<managerVars, inReset, presses, sms, loop, pc, at, resets, lock>>

EndCycle == /\ cycle # NoCycle /\ ~exwait
            /\ MachinesWait /\ ~Prompt
            /\ cycle' = NoCycle
            /\ UNCHANGED <<managerVars, inReset, presses, sms, loop, pc, at, resets, lock>>

\* The reset button: the cycle is given up, and the reset machine raises one
\* interrupt for each time the line is asserted.
PressReset == /\ ~inReset /\ presses < MaxPresses
              /\ presses' = presses + 1
              /\ inReset' = TRUE /\ cycle' = NoCycle /\ irq' = TRUE
              /\ UNCHANGED <<managerVars, sms, loop, pc, at, softPending, shuttingDown, watchdog,
                             bounce, recent, lock>>

ReleaseReset == /\ inReset /\ ~Prompt /\ MachinesWait
                /\ inReset' = FALSE
                /\ UNCHANGED <<managerVars, presses, cycle, sms, loop, pc, at, resets, lock>>

\* bus_read_deluxe: the low and the high address are pushed, the verdict is
\* pulled, and the data gate is open, or closed, until /IORQ is high.
ReadMachine ==
    /\ \/ /\ rsm = "idle" /\ Reading /\ Len(rx) < ReadFifo
          /\ rx' = Append(rx, Low(cycle.port)) /\ rsm' = "high" /\ UNCHANGED tx
       \/ /\ rsm = "high" /\ Len(rx) < ReadFifo
          /\ rx' = Append(rx, <<"high">>) /\ rsm' = "pull" /\ UNCHANGED tx
       \/ /\ rsm = "pull" /\ tx # <<>>
          /\ rsm' = (IF Head(tx) = 1 THEN "drive" ELSE "end")
          /\ tx' = Tail(tx) /\ UNCHANGED rx
       \/ /\ rsm \in {"drive", "end"} /\ cycle = NoCycle
          /\ rsm' = "idle" /\ UNCHANGED <<rx, tx>>
    /\ UNCHANGED <<managerVars, z80, wsm, wx, loop, pc, at, resets, lock>>

\* bus_write_deluxe: three words of each write, the machine stalls on a full FIFO.
WriteMachine ==
    /\ \/ /\ wsm = "idle" /\ Writing /\ Len(wx) < WriteFifo
          /\ wx' = Append(wx, Low(cycle.port)) /\ wsm' = "high"
       \/ /\ wsm = "high" /\ Len(wx) < WriteFifo
          /\ wx' = Append(wx, <<"high">>) /\ wsm' = "data"
       \/ /\ wsm = "data" /\ Len(wx) < WriteFifo
          /\ wx' = Append(wx, <<"data">>) /\ wsm' = "end"
       \/ wsm = "end" /\ cycle = NoCycle /\ wsm' = "idle" /\ UNCHANGED wx
    /\ UNCHANGED <<managerVars, z80, rsm, rx, tx, loop, pc, at, resets, lock>>

\* ------------------------------------------------------ flash and lockout ----
\* Core 1 waits at the guard while the chip shuts down; then, like core 0 at once,
\* it takes the mutex and hands over the lockout word.  A core answers a lockout from the interrupt
\* of its FIFO, which it masks while it hands a word over itself and while it
\* programs; on core 0 the reset interrupt goes first and is not preempted.
IrqOn(c) == IF c = 0 THEN pc[0] = "run" /\ ~irq
            ELSE flash[1] \notin {"ack", "flash", "endack"}

\* A core goes on unless it is parked or the interrupt is there to be taken.
Runs(c) == ~parked[c] /\ ~(req[c] = "start" /\ IrqOn(c))

GuardEnter == /\ flash[1] = "guard" /\ Runs(1)
              /\ ~shuttingDown
              /\ flash' = [flash EXCEPT ![1] = "mutex"]
              /\ UNCHANGED <<mutex, req, ans, parked>>

Hand(c, from, to, word) == /\ flash[c] = from /\ Runs(c) /\ mutex = {}
                           /\ mutex' = {c}
                           /\ req' = [req EXCEPT ![1 - c] = word]
                           /\ flash' = [flash EXCEPT ![c] = to]
                           /\ UNCHANGED <<ans, parked>>
Answered(c, from, to, word) == /\ flash[c] = from /\ ans[c] = word
                               /\ ans' = [ans EXCEPT ![c] = "none"]
                               /\ mutex' = {}
                               /\ flash' = [flash EXCEPT ![c] = to]
                               /\ UNCHANGED <<req, parked>>

\* Mutant: the core programs as soon as it has handed the word over.
LockoutSent(c) == /\ Hand(c, "mutex", "ack", "start") \/ (flash[c] = "ack" /\ mutex' = {}
                                                         /\ flash' = [flash EXCEPT ![c] = "flash"]
                                                         /\ UNCHANGED <<req, ans, parked>>)
LockoutStart(c) == Hand(c, "mutex", "ack", "start") \/ Answered(c, "ack", "flash", "start")
Program(c) == /\ flash[c] = "flash"
              /\ flash' = [flash EXCEPT ![c] = "endmutex"]
              /\ UNCHANGED <<mutex, req, ans, parked>>
LockoutEnd(c) == Hand(c, "endmutex", "endack", "end") \/ Answered(c, "endack", "out", "end")

LockoutHandler(c) == /\ \/ req[c] = "start" /\ ~parked[c] /\ IrqOn(c)
                        \/ req[c] = "end" /\ parked[c]
                     /\ parked' = [parked EXCEPT ![c] = ~@]
                     /\ ans' = [ans EXCEPT ![1 - c] = req[c]]
                     /\ req' = [req EXCEPT ![c] = "none"]
                     /\ UNCHANGED <<flash, mutex>>

FlashStep(c) == /\ \/ c = 1 /\ GuardEnter
                   \/ LockoutStart(c) \/ Program(c) \/ LockoutEnd(c) \/ LockoutHandler(c)
                /\ UNCHANGED <<managerVars, z80, sms, loop, pc, at, resets>>

\* flushAll goes on to the next device that has something to program.
Left(c) == {d \in dirty : d >= at[c]}
FlushNext(c) == \E d \in Left(c) : /\ \A e \in Left(c) : d <= e
                                   /\ at' = [at EXCEPT ![c] = d + 1]
                                   /\ dirty' = dirty \ {d}
                                   /\ flash' = [flash EXCEPT ![c] = IF c = 0 THEN "mutex" ELSE "guard"]

\* ------------------------------------------------------------- core 0 ----
\* Mutant: the flush runs without the watchdog as a backstop.
ArmedNever == FALSE
\* watchdog_enable(8000, 1)
Armed == TRUE

\* The reset interrupt: bounces are one event; a second reset while the first
\* is pending, or within 3 s of a soft reset, flushes here and reboots.
ResetHandler ==
    /\ pc[0] = "run" /\ ~parked[0] /\ irq
    /\ irq' = FALSE
    /\ IF bounce THEN UNCHANGED <<bounce, recent, softPending, shuttingDown, watchdog, pc>>
       ELSE IF softPending \/ recent
            THEN /\ shuttingDown' = TRUE /\ watchdog' = Armed
                 /\ pc' = [pc EXCEPT ![0] = "flush"]
                 /\ bounce' = FALSE /\ recent' = FALSE  \* not read again
                 /\ UNCHANGED softPending
            ELSE /\ softPending' = TRUE /\ bounce' = TRUE
                 /\ UNCHANGED <<recent, shuttingDown, watchdog, pc>>
    /\ UNCHANGED <<managerVars, z80, sms, loop, at, lock>>

HardFlush == /\ pc[0] = "flush" /\ flash[0] = "out"
             /\ FlushNext(0)
             /\ UNCHANGED <<managerVars, z80, sms, exwait, pins, port, resetting, pc, resets,
                            mutex, req, ans, parked>>

WatchdogReboot == pc[0] = "flush" /\ flash[0] = "out" /\ Left(0) = {} /\ Reboot
WatchdogBites == watchdog /\ Reboot

TimePasses == /\ \/ bounce /\ bounce' = FALSE /\ UNCHANGED recent
                 \/ recent /\ ~bounce /\ recent' = FALSE /\ UNCHANGED bounce
              /\ UNCHANGED <<managerVars, z80, sms, loop, pc, at, softPending, shuttingDown, watchdog,
                             irq, lock>>

\* ------------------------------------------------------------- core 1 ----
Free == Runs(1) /\ flash[1] = "out"
Goes(from, to) == Free /\ pc[1] = from /\ pc' = [pc EXCEPT ![1] = to]
Aside == <<managerVars, at, softPending, shuttingDown, watchdog, irq, bounce, recent,
           mutex, req, ans, parked>>

\* device_main1
Boot == /\ Free /\ pc[1] = "boot"
        /\ \/ BootSection /\ UNCHANGED pc
           \/ /\ section <= Len(ini) /\ BadSection(ini[section])
              /\ pc' = [pc EXCEPT ![1] = "halted"] /\ UNCHANGED managerVars
           \/ /\ section > Len(ini)
              /\ pc' = [pc EXCEPT ![1] = "restart"] /\ UNCHANGED managerVars
        /\ UNCHANGED <<z80, sms, loop, at, resets, lock>>

\* restart_bus_sms: the FIFOs are cleared and both machines sent to their
\* entries; a soft reset ends with the releases.
\* Mutant: the FIFOs are cleared and the machines go on where they were.
EntryWhereItWas(sm) == sm
Entry(sm) == "idle"
RestartBusSms ==
    /\ Goes("restart", "loop")
    /\ rx' = <<>> /\ tx' = <<>> /\ wx' = <<>>
    /\ rsm' = Entry(rsm) /\ wsm' = Entry(wsm)
    /\ resetting' = FALSE
    /\ IF resetting THEN exwait' = FALSE /\ recent' = ~shuttingDown /\ softPending' = FALSE
       ELSE UNCHANGED <<exwait, recent, softPending>>
    /\ UNCHANGED <<managerVars, z80, pins, port, dirty, at, shuttingDown, watchdog, irq, bounce, lock>>

\* The handlers of the listeners: one that stores leaves something for flush, and
\* may program the flash before the loop goes on.
Handlers(L, from, to) ==
    LET stores == {d \in Range(L) : devices[d].stores}
    IN  /\ Goes(from, to)
        /\ dirty' = dirty \cup stores
        /\ \E f \in {"out"} \cup {"guard" : d \in stores} : flash' = [flash EXCEPT ![1] = f]
        /\ UNCHANGED <<Aside, z80, sms, exwait, pins, port, resetting>>

\* /WAIT goes low for a port that asks for it, and a cycle under way sees it.
Hold(p) == IF flat[p].exwait
           THEN /\ exwait' = TRUE
                /\ cycle' = IF cycle = NoCycle THEN cycle ELSE [cycle EXCEPT !.held = TRUE]
           ELSE UNCHANGED <<exwait, cycle>>
Release == exwait' = (exwait /\ ~flat[port].exwait)

TakeRead == /\ Free /\ pc[1] = "loop" /\ rx # <<>>
            /\ LET p == PortOf(Head(rx))
                   served == flat[p].read # <<>>
               IN  /\ port' = p
                   /\ pc' = [pc EXCEPT ![1] = IF served THEN "high" ELSE "drain"]
                   /\ IF served THEN Hold(p) ELSE UNCHANGED <<exwait, cycle>>
            /\ rx' = Tail(rx)
            /\ UNCHANGED <<Aside, inReset, presses, rsm, tx, wsm, wx, pins, resetting, dirty,
                           flash>>
ReadHigh == /\ Goes("high", "call") /\ rx # <<>>
            /\ rx' = Tail(rx)
            /\ UNCHANGED <<Aside, z80, rsm, tx, wsm, wx, loop, flash>>
ReadHandler == Handlers(flat[port].read, "call", "pins")
\* Mutant: /WAIT is let go before the verdict is put.
DrivePinsRelease == /\ Goes("pins", "verdict")
                    /\ pins' = port /\ Release
                    /\ UNCHANGED <<Aside, z80, sms, port, resetting, dirty, flash>>
DrivePins == /\ Goes("pins", "verdict")
             /\ pins' = port
             /\ UNCHANGED <<Aside, z80, sms, exwait, port, resetting, dirty, flash>>
Verdict == /\ Goes("verdict", "release")
           /\ tx' = Append(tx, 1)
           /\ UNCHANGED <<Aside, z80, rsm, rx, wsm, wx, loop, flash>>
ReadRelease == /\ Goes("release", "wait")
               /\ Release
               /\ UNCHANGED <<Aside, z80, sms, pins, port, resetting, dirty, flash>>
ReadEnds == /\ Goes("wait", "loop") /\ cycle = NoCycle
            /\ pins' = "input" /\ port' = AnyPort
            /\ UNCHANGED <<Aside, z80, sms, exwait, resetting, dirty, flash>>
\* A read nobody serves is drained and answered 0.
DrainRead == /\ Goes("drain", "loop") /\ rx # <<>>
             /\ rx' = Tail(rx) /\ tx' = Append(tx, 0) /\ port' = AnyPort
             /\ UNCHANGED <<Aside, z80, rsm, wsm, wx, exwait, pins, resetting, dirty, flash>>

\* Writes are served only when no read is captured.
TakeWrite == /\ Free /\ pc[1] = "loop" /\ rx = <<>> /\ wx # <<>>
             /\ LET p == PortOf(Head(wx))
                    served == flat[p].write # <<>>
                IN  /\ port' = p
                    /\ pc' = [pc EXCEPT ![1] = IF served THEN "whigh" ELSE "wdrain"]
                    /\ IF served THEN Hold(p) ELSE UNCHANGED <<exwait, cycle>>
             /\ wx' = Tail(wx)
             /\ UNCHANGED <<Aside, inReset, presses, rsm, rx, tx, wsm, pins, resetting, dirty,
                            flash>>
WriteWords == /\ Goes("whigh", "wcall") /\ Len(wx) > 1
              /\ wx' = SubSeq(wx, 3, Len(wx))
              /\ UNCHANGED <<Aside, z80, rsm, rx, tx, wsm, loop, flash>>
\* Mutant: only one word of an unserved write is drained.
DrainOne == /\ Goes("wdrain", "loop") /\ wx # <<>>
            /\ wx' = Tail(wx) /\ port' = AnyPort
            /\ UNCHANGED <<Aside, z80, rsm, rx, tx, wsm, exwait, pins, resetting, dirty, flash>>
DrainWrite == /\ Goes("wdrain", "loop") /\ Len(wx) > 1
              /\ wx' = SubSeq(wx, 3, Len(wx)) /\ port' = AnyPort
              /\ UNCHANGED <<Aside, z80, rsm, rx, tx, wsm, exwait, pins, resetting, dirty, flash>>
WriteHandler == Handlers(flat[port].write, "wcall", "wrelease")
WriteRelease == /\ Goes("wrelease", "loop")
                /\ Release /\ port' = AnyPort
                /\ UNCHANGED <<Aside, z80, sms, pins, resetting, dirty, flash>>

\* The soft reset, when both FIFOs are empty: flushAll, softResetAll (registers
\* of the devices, no state here), then restart_bus_sms and the releases.
SoftReset == /\ Free /\ pc[1] = "loop" /\ rx = <<>> /\ wx = <<>> /\ softPending
             /\ pc' = [pc EXCEPT ![1] = "flush"] /\ at' = [at EXCEPT ![1] = 1]
             /\ resetting' = TRUE
             /\ UNCHANGED <<managerVars, z80, sms, exwait, pins, port, dirty, resets, lock>>
SoftFlush == /\ Free /\ pc[1] = "flush"
             /\ \/ FlushNext(1) /\ UNCHANGED pc
                \/ /\ Left(1) = {} /\ pc' = [pc EXCEPT ![1] = "restart"]
                   /\ UNCHANGED <<at, dirty, flash>>
             /\ UNCHANGED <<managerVars, z80, sms, exwait, pins, port, resetting, resets,
                            mutex, req, ans, parked>>
Core0 == ResetHandler \/ HardFlush \/ WatchdogReboot \/ FlashStep(0)
Core1 == \/ Boot \/ RestartBusSms
         \/ TakeRead \/ ReadHigh \/ ReadHandler \/ DrivePins \/ Verdict \/ ReadRelease \/ ReadEnds
         \/ DrainRead \/ TakeWrite \/ WriteWords \/ DrainWrite \/ WriteHandler \/ WriteRelease
         \/ SoftReset \/ SoftFlush \/ FlashStep(1)
Machines == ReadMachine \/ WriteMachine
Next == \/ Core0 \/ Core1 \/ Machines \/ EndCycle \/ WatchdogBites
        \/ StartCycle \/ PressReset \/ ReleaseReset \/ TimePasses

\* The cores and the machines run and the watchdog counts; nothing makes the Z80
\* access a port or the user press reset.
Spec == /\ Init /\ [][Next]_vars
        /\ WF_vars(Core0) /\ WF_vars(Core1) /\ WF_vars(Machines) /\ WF_vars(WatchdogBites)

\* --------------------------------------------------------- properties ----
\* Neither core ever programs the flash, nor executes from it, while the other
\* programs it: the lockout holds the other core in RAM for the whole operation,
\* and never one that has started an operation of its own, whichever
\* interrupts, resets and mutex waits come in between.
NoTornFlash == \A c \in Cores : flash[c] = "flash" =>
                   parked[1 - c] /\ flash[1 - c] \in {"out", "guard", "mutex"}

\* However the machines were stopped and the FIFOs cleared, core 1 never takes
\* a word for what it is not, and no verdict is left for a later read.
WordsInStep ==
    /\ (pc[1] = "loop" /\ rx # <<>>) => Head(rx)[1] = "low"
    /\ (pc[1] \in {"high", "drain"} /\ rx # <<>>) => Head(rx)[1] = "high"
    /\ (pc[1] = "loop" /\ wx # <<>>) => Head(wx)[1] = "low"
    /\ (pc[1] \in {"whigh", "wdrain"} /\ Len(wx) > 1) => Head(wx)[1] = "high" /\ wx[2][1] = "data"
    /\ tx # <<>> => rsm = "pull"

\* A read of a served port that core 1 pulled /WAIT low for ends with its own port's byte on the pins
\* and the data gate open: also after a reset in the middle of a cycle and after
\* cycles nobody was there to serve, once core 1 has answered the reset.
ServedByte ==
    [][(Reading /\ cycle' = NoCycle) =>
          (inReset' \/ ~cycle.held \/ flat[cycle.port].read = <<>> \/ irq \/ softPending \/ shuttingDown
           \/ (rsm = "drive" /\ pins = cycle.port))]_vars

\* A reset that means a reboot is followed by one, even when the flush on core
\* 0 and core 1 wait for each other's lockout.
RebootCompletes == shuttingDown ~> ~shuttingDown

\* A reset held long enough puts the devices into power-on state, unless the
\* configuration halted core 1.
ResetAnswered == (inReset /\ softPending) ~> (~inReset \/ ~softPending \/ pc[1] = "halted")

\* device.cpp says that a core 1 parked at the guard keeps two lockouts from
\* waiting for each other.
NoLockoutDeadlock == ~(pc[0] = "flush" /\ flash[0] = "mutex" /\ flash[1] = "ack")
=============================================================================
