----------------------------- MODULE SectorStore -----------------------------
(***************************************************************************)
(* What flash_fs.c promises the FAT layer above it: an array of sectors in *)
(* which a write is visible at once and survives a restart once a sync has *)
(* covered it.  A sync makes the sectors of one map meg durable at a time. *)
(* A sector is AtRisk from the moment a sync forced by its own write gives *)
(* its old page away until the next sync covers it.  Nothing is promised   *)
(* of a volume whose formatting has not been completed once.               *)
(***************************************************************************)
EXTENDS Naturals

CONSTANTS Sectors, Groups, GroupOf(_), Contents, Zero, AtRisk, Requests, Broken

VARIABLES mem, durable, formatted

vars == <<mem, durable, formatted>>

Init == /\ mem = [f \in Sectors |-> Zero]
        /\ durable = [f \in Sectors |-> Zero]
        /\ formatted = FALSE

\* A write stores what it was given, or (a program that went wrong, and is
\* reported) leaves the sector Broken.
Write(f, d) ==
    /\ mem' \in {[mem EXCEPT ![f] = d], [mem EXCEPT ![f] = Broken]}
    /\ UNCHANGED <<durable, formatted>>

\* One meg of the map reaches flash; the last of the first format may be it.
SyncGroup(g) ==
    /\ durable' = [f \in Sectors |-> IF GroupOf(f) = g THEN mem[f] ELSE durable[f]]
    /\ formatted' \in {formatted, TRUE}
    /\ UNCHANGED mem

\* The old copy of the sector being written is given up.
Expose(f) ==
    /\ mem' = [mem EXCEPT ![f] = AtRisk]
    /\ durable' = [durable EXCEPT ![f] = AtRisk]
    /\ UNCHANGED formatted

\* Power is lost or the volume is mounted again: RAM follows what is durable,
\* and a sector at risk turns out to hold anything.
Restart ==
    /\ durable' \in [Sectors -> Contents]
    /\ \A f \in Sectors : durable[f] # AtRisk => durable'[f] = durable[f]
    /\ mem' = durable'
    /\ UNCHANGED formatted

\* An unfinished format is started over.
Wipe ==
    /\ ~formatted
    /\ durable' \in [Sectors -> Contents]
    /\ mem' = durable'
    /\ UNCHANGED formatted

Next ==
    \/ \E r \in Requests : Write(r[1], r[2])
    \/ \E g \in Groups : SyncGroup(g)
    \/ \E f \in Sectors : Expose(f)
    \/ Restart
    \/ Wipe

Spec == Init /\ [][Next]_vars
=============================================================================
