--------------------------- MODULE DeviceManager ----------------------------
(***************************************************************************)
(* The device manager: the boot loop of core 1, which makes a device of     *)
(* every section of mzpico.ini, the listeners registered on each I/O port,  *)
(* and the flat tables the bus loop dispatches through.                     *)
(***************************************************************************)
EXTENDS Naturals, SequencesExt

CONSTANTS Ports,       \* the I/O ports of the instance
          MaxPerPort,  \* listeners a port takes: MAX_DEVICES_PER_PORT
          MaxDevices,  \* devices the manager holds: MAX_MZ_DEVICES
          Inis         \* configurations: sequences of sections

\* A section: its name (id), whether its type is known and its object fits
\* (made), supportedOnBoard (fits), enabled, the port lists the file comes to
\* (reads, writes) and whether they are as long as the device's (counted),
\* needsExwait (exwait), whether its flush and its handlers program the flash
\* (stores), and what readConfig returns.
Ids == UNION {{i[k].id : k \in DOMAIN i} : i \in Inis}
Section == [id : Ids, made : BOOLEAN, fits : BOOLEAN, enabled : BOOLEAN, reads : Seq(Ports),
            writes : Seq(Ports), counted : BOOLEAN, exwait : BOOLEAN, stores : BOOLEAN,
            config : {"ok", "no memory", "bad"}]

ASSUME ManagerAssumption == /\ MaxPerPort \in Nat \ {0} /\ MaxDevices \in Nat \ {0}
                            /\ \A i \in Inis : i \in Seq(Section)

VARIABLES ini,      \* the configuration, the same at every boot
          section,  \* the section the boot loop takes next
          devices,  \* the devices created: their sections and whether enabled
          readers,  \* port -> devices registered for reads, as indexes of devices
          writers,  \* port -> devices registered for writes
          exwaits,  \* needsExwaitAny of the two listener tables of each port
          flat      \* port -> what the bus loop dispatches a read and a write to
managerVars == <<ini, section, devices, readers, writers, exwaits, flat>>

NoListener == [p \in Ports |-> <<>>]
NoFlat == [p \in Ports |-> [read |-> <<>>, write |-> <<>>, exwait |-> FALSE]]

\* The loop of listenPorts over a port list: a listener each time the port is
\* there and has a place left.
Listening(row, list, p, d) ==
    LET L[i \in 0 .. Len(list)] ==
            IF i = 0 THEN row
            ELSE IF list[i] = p /\ Len(L[i - 1]) < MaxPerPort THEN Append(L[i - 1], d) ELSE L[i - 1]
    IN  L[Len(list)]
Listened(table, list, d) == [p \in Ports |-> Listening(table[p], list, p, d)]

\* The loop of unListenPorts: the first listener of the device goes each time the
\* port is there, and those behind it move up.
Unlistening(row, list, p, d) ==
    LET L[i \in 0 .. Len(list)] ==
            IF i = 0 THEN row
            ELSE IF list[i] = p THEN RemoveFirst(L[i - 1], d) ELSE L[i - 1]
    IN  L[Len(list)]
Unlistened(table, list, d) == [p \in Ports |-> Unlistening(table[p], list, p, d)]

\* listenPorts asks for EXWAIT only where the device got a slot.
Asked(was, before, after, needs) == was \/ (needs /\ Len(after) > Len(before))

\* recomputeExwait, for the ports of the device's two lists.
Wanted(devs, L) == \E e \in Range(L) : devs[e].exwait
\* Mutant: needsExwaitAny stays as the removed listener left it.
RecomputedNever(devs, wants, list, rd, wr) == wants
Recomputed(devs, wants, list, rd, wr) ==
    [p \in Ports |-> IF Contains(list, p)
                     THEN [read |-> Wanted(devs, rd[p]), write |-> Wanted(devs, wr[p])]
                     ELSE wants[p]]

\* buildFlatTables: the only listener, or the thunk that calls them all.
BuildFlatTables(rd, wr, wants) ==
    [p \in Ports |-> [read |-> rd[p], write |-> wr[p],
                      exwait |-> wants[p].read \/ wants[p].write]]

IsRegistered(id) == \E d \in Range(devices) : d.id = id

\* createDevice
Created(s) == s.made /\ Len(devices) < MaxDevices /\ ~IsRegistered(s.id)

ManagerInit == /\ ini \in Inis
               /\ section = 1
               /\ devices = <<>>
               /\ readers = NoListener /\ writers = NoListener
               /\ exwaits = [p \in Ports |-> [read |-> FALSE, write |-> FALSE]]
               /\ flat = NoFlat

Unregistered == UNCHANGED <<readers, writers, exwaits, flat>>

\* createDevice returns null: the loop goes on without the section.
SkipSection(s) == /\ ~Created(s)
                  /\ section' = section + 1
                  /\ UNCHANGED devices /\ Unregistered

\* A device the board cannot support, or one the file disables, is disabled
\* before it has a listener; a disabled one has its ports set and no more.
DisabledSection(s) == /\ Created(s)
                      /\ ~s.fits \/ (~s.enabled /\ s.counted)
                      /\ devices' = Append(devices, [s EXCEPT !.enabled = FALSE])
                      /\ section' = section + 1
                      /\ Unregistered

\* setPortsList registers the device and builds the tables, init and readConfig
\* follow; a device whose buffers do not fit is disabled again.
EnabledSection(s) ==
    /\ Created(s)
    /\ s.fits /\ s.enabled /\ s.counted /\ s.config # "bad"
    /\ LET d == Len(devices) + 1
           devs == Append(devices, [s EXCEPT !.enabled = s.config = "ok"])
           rd == Listened(readers, s.reads, d)
           wr == Listened(writers, s.writes, d)
           wants == [p \in Ports |->
                        [read |-> Asked(exwaits[p].read, readers[p], rd[p], s.exwait),
                         write |-> Asked(exwaits[p].write, writers[p], wr[p], s.exwait)]]
           rdLess == Unlistened(rd, s.reads, d)
           wrLess == Unlistened(wr, s.writes, d)
           stays == s.config = "ok"
       IN  /\ devices' = devs
           /\ readers' = IF stays THEN rd ELSE rdLess
           /\ writers' = IF stays THEN wr ELSE wrLess
           /\ exwaits' = IF stays THEN wants
                         ELSE Recomputed(devs, wants, s.reads \o s.writes, rdLess, wrLess)
           /\ flat' = BuildFlatTables(readers', writers', exwaits')
    /\ section' = section + 1

BootSection == /\ section <= Len(ini)
               /\ \/ SkipSection(ini[section])
                  \/ DisabledSection(ini[section])
                  \/ EnabledSection(ini[section])
               /\ UNCHANGED ini

\* Port lists of the wrong length, or a readConfig that fails, halt core 1.
BadSection(s) == Created(s) /\ s.fits /\ (~s.counted \/ (s.enabled /\ s.config = "bad"))

\* ------------------------------------------------------------ property ----
\* The first listeners of a port in the order of the file: what a reader of the
\* configuration expects to answer there.
Fitting(s) == SubSeq(s, 1, IF Len(s) < MaxPerPort THEN Len(s) ELSE MaxPerPort)
ListOf(s, kind) == IF kind = "read" THEN s.reads ELSE s.writes
Claims(list, d, p) == [i \in 1 .. Cardinality({j \in 1 .. Len(list) : list[j] = p}) |-> d]
Claimed(devs, kind, p) ==
    [d \in 1 .. Len(devs) |-> IF devs[d].enabled THEN Claims(ListOf(devs[d], kind), d, p) ELSE <<>>]
Expected(devs, kind, p) == Fitting(FlattenSeq(Claimed(devs, kind, p)))

\* Whatever sections were skipped, disabled or given up for want of memory on
\* the way, an access is dispatched to the first enabled devices of the file
\* that claim its port, and the Z80 is held exactly where one of them asks.
DispatchIsOfEnabled ==
    \A p \in Ports : LET R == Expected(devices, "read", p)
                         W == Expected(devices, "write", p)
                     IN  /\ flat[p].read = R /\ flat[p].write = W
                         /\ flat[p].exwait <=> \E d \in Range(R \o W) : devices[d].exwait
=============================================================================
