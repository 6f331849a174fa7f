-------------------------- MODULE FlashFSRefinement --------------------------
(***************************************************************************)
(* FlashFS implements SectorStore: what is durable is what the winning map *)
(* slots reach, what is visible is what the RAM map reaches.               *)
(***************************************************************************)
EXTENDS FlashFS

CONSTANT AtRisk

ASSUME AtRiskAssumption == AtRisk \notin Content

Durable(f) ==
    IF f \in exposed THEN AtRisk
    ELSE IF HasSlot(MegOf(f)) THEN Read(Persisted(f))
    ELSE Zero

\* The sync its own write forced has given f's page away, and f has not got
\* its new one yet.
GivenUp(f) == /\ pc \in {"alloc", "copy"}
              /\ f = req.fat
              /\ req.old # NoEntry
              /\ req.old \notin pending

\* During the copy-back, the pages not yet reprogrammed are in the scratch
\* buffer.
Visible(f) ==
    IF ~Live THEN Durable(f)
    ELSE IF GivenUp(f) THEN AtRisk
    ELSE IF pc = "copy" /\ map[f][1] = open /\ map[f][2] \in todo
    THEN scratch[map[f][2]]
    ELSE Read(map[f])

DurableCopy(f) ==
    IF /\ pc = "copy" /\ f \notin exposed
       /\ HasSlot(MegOf(f))
       /\ Persisted(f)[1] = open /\ Persisted(f)[2] \in todo
    THEN scratch[Persisted(f)[2]]
    ELSE Durable(f)

Store == INSTANCE SectorStore WITH
    Sectors <- FatSector,
    Groups <- Meg,
    GroupOf <- MegOf,
    Contents <- Content \cup {AtRisk},
    Broken <- Junk,
    mem <- [f \in FatSector |-> Visible(f)],
    durable <- [f \in FatSector |-> DurableCopy(f)],
    formatted <- Mountable

\* Every behaviour of the flash code is one the abstract store allows: a
\* write is seen at once, a completed sync survives any restart, and nothing
\* else changes what a sector reads as.
ImplementsStore == Store!Spec
=============================================================================
