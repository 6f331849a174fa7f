----------------------------- MODULE FlashFSProofs -----------------------------
(***************************************************************************)
(* Proofs about FlashFS, for every geometry and every set of requests.     *)
(* First the types; then why the volume survives: in every meg the slot    *)
(* RAM calls active is the one a mount would choose, and only the other    *)
(* one is ever written.                                                    *)
(***************************************************************************)
EXTENDS FlashFSInv, FlashFSRefinement, FiniteSetTheorems, TLAPS

LEMMA PositiveProduct ==
    ASSUME NEW a \in Nat, NEW b \in Nat, a > 0, b > 0
    PROVE  a * b \in Nat /\ a * b > 0
  OBVIOUS

LEMMA Geometry ==
    /\ Reserved \in Nat /\ Reserved >= 2
    /\ 0 \in Meg /\ 0 \in Sector /\ 0 \in Offset /\ 0 \in FatSector
    /\ NoEntry \in ReservedPages
    /\ ReservedPages \subseteq Page
    /\ NoEntry \notin DataPage
    /\ \A f \in FatSector : MegOf(f) \in Meg
  <1>1. Reserved \in Nat /\ Reserved >= 2
    BY GeometryAssumption DEF GeometryAssumption, Reserved
  <1>2. 0 \in Meg /\ 0 \in Sector /\ 0 \in Offset
    BY <1>1, GeometryAssumption DEF GeometryAssumption, Meg, Sector, Offset
  <1>3. 0 \in FatSector
    <2>1. NumFlashSectors - Reserved \in Nat /\ NumFlashSectors - Reserved > 0
      BY <1>1, GeometryAssumption DEF GeometryAssumption
    <2>2. NumFatSectors \in Nat /\ NumFatSectors > 0
      BY <2>1, PositiveProduct, GeometryAssumption DEF GeometryAssumption, NumFatSectors
    <2>. QED BY <2>2 DEF FatSector
  <1>4. NoEntry \in ReservedPages /\ ReservedPages \subseteq Page
    BY <1>1, <1>2, GeometryAssumption
       DEF GeometryAssumption, NoEntry, ReservedPages, Page, Sector, Offset
  <1>5. NoEntry \notin DataPage
    BY <1>4 DEF DataPage
  <1>. QED
    BY <1>1, <1>2, <1>3, <1>4, <1>5, GeometryAssumption DEF GeometryAssumption

LEMMA InitTypeOK == Init => TypeOK
  <1>. SUFFICES ASSUME Init PROVE TypeOK
    OBVIOUS
  <1>1. PersistentTypeOK
    BY DEF Init, PersistentTypeOK, Content, SlotImage
  <1>2. MapTypeOK
    BY DEF Init, MapTypeOK, Entry
  <1>3. AllocatorTypeOK
    BY Geometry DEF Init, AllocatorTypeOK
  <1>4. CallTypeOK
    BY Geometry DEF Init, CallTypeOK, NoRequest, NoScratch, Entry, Content
  <1>. QED
    BY <1>1, <1>2, <1>3, <1>4 DEF TypeOK

-----------------------------------------------------------------------------
\* Type correctness.

LEMMA WinnerType == \A m \in Meg : Winner(m) \in {0, 1}
  BY DEF Winner

\* What a valid winning slot holds.
LEMMA PersistedType ==
    ASSUME PersistentTypeOK, NEW f \in FatSector, HasSlot(MegOf(f))
    PROVE  /\ Valid(MegOf(f), Winner(MegOf(f)))
           /\ Persisted(f) \in Entry
  <1>. DEFINE m == MegOf(f)
  <1>1. m \in Meg /\ f \in SectorsOf(m)
    BY Geometry DEF SectorsOf
  <1>2. Winner(m) \in {0, 1} /\ Valid(m, Winner(m))
    BY DEF HasSlot, Winner
  <1>3. slots[m][Winner(m)] \in SlotImage(m)
    BY <1>1, <1>2 DEF PersistentTypeOK
  <1>4. slots[m][Winner(m)].entries \in [SectorsOf(m) -> Entry]
    BY <1>2, <1>3 DEF SlotImage, Valid, BlankSlot, TornSlot
  <1>. QED
    BY <1>1, <1>2, <1>4 DEF Persisted

LEMMA SlotGenType ==
    ASSUME PersistentTypeOK, NEW m \in Meg, NEW i \in {0, 1}
    PROVE  slots[m][i].gen \in Nat
  <1>1. slots[m][i] \in SlotImage(m)
    BY DEF PersistentTypeOK
  <1>. QED
    BY <1>1 DEF SlotImage, BlankSlot, TornSlot

\* The image of a meg's map is something a slot can hold.
LEMMA MapImageType ==
    ASSUME MapTypeOK, NEW m \in Meg
    PROVE  MapImage(m) \in SlotImage(m)
  <1>1. [f \in SectorsOf(m) |-> map[f]] \in [SectorsOf(m) -> Entry]
    BY DEF MapTypeOK, SectorsOf
  <1>. QED
    BY <1>1 DEF MapTypeOK, MapImage, SlotImage

\* Replacing one slot of one meg by a slot image.
LEMMA SlotUpdate ==
    ASSUME PersistentTypeOK, NEW m \in Meg, NEW i \in {0, 1}, NEW s \in SlotImage(m),
           slots' = [slots EXCEPT ![m] = [@ EXCEPT ![i] = s]]
    PROVE  /\ slots' = [n \in Meg |-> slots'[n]]
           /\ \A n \in Meg : slots'[n] \in [{0, 1} -> SlotImage(n)]
           /\ slots'[m][i] = s
           /\ \A n \in Meg, j \in {0, 1} : n # m \/ j # i => slots'[n][j] = slots[n][j]
  BY DEF PersistentTypeOK

LEMMA PagesFilled ==
    ASSUME PersistentTypeOK, NEW pages, NEW c \in Content,
           flash' = Fill(pages, c), UNCHANGED slots
    PROVE  PersistentTypeOK'
  <1>1. flash' \in [DataPage -> Content]
    BY DEF PersistentTypeOK, Fill
  <1>2. /\ slots' = [m \in Meg |-> slots'[m]]
        /\ \A m \in Meg : slots'[m] \in [{0, 1} -> SlotImage(m)]
    BY DEF PersistentTypeOK
  <1>. QED
    BY <1>1, <1>2 DEF PersistentTypeOK

LEMMA SlotWritten ==
    ASSUME PersistentTypeOK, NEW m \in Meg, NEW i \in {0, 1}, NEW s \in SlotImage(m),
           slots' = [slots EXCEPT ![m] = [@ EXCEPT ![i] = s]], UNCHANGED flash
    PROVE  PersistentTypeOK'
  <1>1. flash' \in [DataPage -> Content]
    BY DEF PersistentTypeOK
  <1>. QED
    BY <1>1, SlotUpdate DEF PersistentTypeOK

LEMMA BadSlots == \A m \in Meg : BlankSlot \in SlotImage(m) /\ TornSlot \in SlotImage(m)
  BY DEF SlotImage

\* Frame conditions.
LEMMA PersistentFrame == PersistentTypeOK /\ UNCHANGED persistent => PersistentTypeOK'
  BY DEF PersistentTypeOK, persistent

LEMMA MapFrame == MapTypeOK /\ UNCHANGED fsMap => MapTypeOK'
  BY DEF MapTypeOK, fsMap

LEMMA AllocatorFrame == AllocatorTypeOK /\ UNCHANGED allocator => AllocatorTypeOK'
  BY DEF AllocatorTypeOK, allocator

LEMMA CallFrame == CallTypeOK /\ UNCHANGED <<call, exposed>> => CallTypeOK'
  BY DEF CallTypeOK, call

LEMMA LosePowerType ==
    ASSUME LosePower, CallTypeOK, UNCHANGED exposed
    PROVE  MapTypeOK' /\ AllocatorTypeOK' /\ CallTypeOK'
  <1>1. MapTypeOK'
    BY DEF LosePower, MapTypeOK, Entry
  <1>2. AllocatorTypeOK'
    BY Geometry DEF LosePower, AllocatorTypeOK
  <1>3. CallTypeOK'
    BY Geometry DEF LosePower, ForgetCall, CallTypeOK, NoRequest, NoScratch, Entry, Content
  <1>. QED
    BY <1>1, <1>2, <1>3

\* The request of a call that ends is forgotten.
LEMMA ForgetCallType ==
    ASSUME ForgetCall, CallTypeOK
    PROVE  /\ req' \in [fat : FatSector, data : Data \cup {Zero}, old : Entry,
                        retry : BOOLEAN, sync : {"none", "api", "alloc", "format"}]
           /\ todo' = {}
           /\ scratch' \in [Offset -> Content]
  BY Geometry DEF ForgetCall, NoRequest, NoScratch, Entry, Content

LEMMA ContentConstants == {Zero, Erased, Junk} \subseteq Content
  BY DEF Content

LEMMA DataPageType == DataPage \subseteq Page /\ DataPage \subseteq Entry
  BY DEF DataPage, Entry

LEMMA DataSector == \A s \in Sector : s >= Reserved => PagesOf(s) \subseteq DataPage
  BY Geometry DEF PagesOf, DataPage, ReservedPages, Page, Offset, Sector

\* A sector with an eligible page is a data sector.
LEMMA PartialIsData ==
    ASSUME ReservedPages \subseteq used
    PROVE  /\ FreeSectors \subseteq PartialSectors
           /\ \A s \in PartialSectors : s \in Sector /\ s >= Reserved /\ s # 0
  <1>1. FreeSectors \subseteq PartialSectors
    BY Geometry DEF FreeSectors, PartialSectors
  <1>2. ASSUME NEW s \in PartialSectors PROVE s \in Sector /\ s >= Reserved /\ s # 0
    <2>1. s \in Sector /\ Occupied(s) # Offset
      BY DEF PartialSectors
    <2>2. PICK o \in Offset : <<s, o>> \notin used
      BY <2>1 DEF Occupied
    <2>3. s \notin 0 .. Reserved - 1
      BY <2>2 DEF ReservedPages
    <2>. QED BY <2>1, <2>3, Geometry, GeometryAssumption DEF Sector, GeometryAssumption
  <1>. QED BY <1>1, <1>2

LEMMA TypeInvInit == Init => TypeInv
  BY InitTypeOK DEF TypeInv, Init, ReservedUsed, Mounted, Live, OpenIsData

\* Every step keeps the types, and data apart from the map slots.
LEMMA TypeInvNext == TypeInv /\ [Next]_vars => TypeInv'
  <1>. SUFFICES ASSUME TypeInv, [Next]_vars PROVE TypeInv'
    OBVIOUS
  <1>. USE DEF TypeInv, TypeOK
  <1>. DEFINE Kept == ReservedUsed' /\ OpenIsData'
  <1>. USE DEF ReservedUsed, OpenIsData, Mounted, Live, Formatting, Syncing
  <1>1. CASE OpenFreeSector
    <2>1. PersistentTypeOK'
      BY <1>1, ContentConstants, PagesFilled DEF OpenFreeSector
    <2>2. MapTypeOK' /\ CallTypeOK'
      BY <1>1, MapFrame, CallFrame DEF OpenFreeSector
    <2>3. AllocatorTypeOK'
      BY <1>1 DEF OpenFreeSector, AllocatorTypeOK, FreeSectors
    <2>4. Kept
      BY <1>1, PartialIsData DEF OpenFreeSector, call
    <2>. QED BY <2>1, <2>2, <2>3, <2>4
  <1>2. CASE OpenPartialSector
    <2>. PICK s \in PartialSectors :
            /\ scratch' = [o \in Offset |-> flash[<<s, o>>]]
            /\ flash' = Fill(PagesOf(s), Erased)
            /\ open' = s
            /\ free' = Offset \ Occupied(s)
            /\ search' = s
            /\ todo' = Occupied(s)
      BY <1>2 DEF OpenPartialSector
    <2>1. PersistentTypeOK'
      BY <1>2, ContentConstants, PagesFilled DEF OpenPartialSector
    <2>2. MapTypeOK'
      BY <1>2, MapFrame DEF OpenPartialSector
    <2>3. AllocatorTypeOK'
      BY <1>2 DEF OpenPartialSector, AllocatorTypeOK, PartialSectors
    <2>4. PagesOf(s) \subseteq DataPage
      BY <1>2, PartialIsData, DataSector DEF OpenPartialSector
    <2>5. scratch' \in [Offset -> Content]
      BY <2>4 DEF PersistentTypeOK, PagesOf
    <2>6. todo' \subseteq Offset
      BY DEF Occupied
    <2>7. CallTypeOK'
      BY <1>2, <2>5, <2>6 DEF OpenPartialSector, CallTypeOK
    <2>8. Kept
      BY <1>2, PartialIsData DEF OpenPartialSector
    <2>. QED BY <2>1, <2>2, <2>3, <2>7, <2>8
  <1>3. CASE CopyBack
    <2>. PICK o \in todo :
            flash' = Fill({<<open, o>>}, scratch[o]) /\ todo' = todo \ {o}
      BY <1>3 DEF CopyBack
    <2>1. PersistentTypeOK'
      <3>1. scratch[o] \in Content
        BY <1>3 DEF CopyBack, CallTypeOK
      <3>. QED BY <1>3, <3>1, PagesFilled DEF CopyBack
    <2>2. MapTypeOK' /\ AllocatorTypeOK'
      BY <1>3, MapFrame, AllocatorFrame DEF CopyBack
    <2>3. CallTypeOK'
      BY <1>3, ContentConstants DEF CopyBack, CallTypeOK, NoScratch
    <2>4. Kept
      BY <1>3 DEF CopyBack, allocator
    <2>. QED BY <2>1, <2>2, <2>3, <2>4
  <1>4. CASE TakePage
    <2>. PICK o \in free, c \in {req.data} \cup (IF "page" \in BadPrograms THEN {Junk} ELSE {}) :
            /\ flash' = Fill({<<open, o>>}, c)
            /\ map' = [map EXCEPT ![req.fat] = <<open, o>>]
            /\ used' = used \cup {<<open, o>>}
            /\ free' = free \ {o}
      BY <1>4 DEF TakePage
    <2>0. <<open, o>> \in DataPage
      BY <1>4, DataSector DEF TakePage, HasOpenPage, AllocatorTypeOK, PagesOf
    <2>1. PersistentTypeOK'
      <3>1. c \in Content
        BY DEF CallTypeOK, Content
      <3>. QED BY <1>4, <3>1, PagesFilled DEF TakePage
    <2>2. MapTypeOK'
      <3>1. map' \in [FatSector -> Entry]
        BY <2>0, DataPageType DEF MapTypeOK
      <3>2. dirty' \subseteq Meg
        BY <1>4, Geometry DEF TakePage, MapTypeOK, CallTypeOK
      <3>. QED BY <1>4, <3>1, <3>2 DEF TakePage, MapTypeOK
    <2>3. AllocatorTypeOK'
      BY <1>4, <2>0, DataPageType DEF TakePage, AllocatorTypeOK
    <2>4. CallTypeOK'
      BY <1>4, ForgetCallType DEF TakePage, CallTypeOK
    <2>5. Kept
      BY <1>4 DEF TakePage
    <2>. QED BY <2>1, <2>2, <2>3, <2>4, <2>5
  <1>5. CASE VolumeFull
    <2>1. PersistentTypeOK' /\ MapTypeOK'
      BY <1>5, PersistentFrame, MapFrame DEF VolumeFull
    <2>2. AllocatorTypeOK'
      BY <1>5, DataPageType DEF VolumeFull, AllocatorTypeOK, CallTypeOK, Entry
    <2>3. CallTypeOK'
      BY <1>5, ForgetCallType DEF VolumeFull, CallTypeOK
    <2>4. Kept
      BY <1>5 DEF VolumeFull
    <2>. QED BY <2>1, <2>2, <2>3, <2>4
  <1>6. ASSUME Sync \/ ForceSync PROVE TypeInv'
    <2>1. PersistentTypeOK' /\ AllocatorTypeOK'
      BY <1>6, PersistentFrame, AllocatorFrame DEF Sync, ForceSync
    <2>2. MapTypeOK'
      BY <1>6 DEF Sync, ForceSync, BeginSync, MapTypeOK
    <2>3. CallTypeOK'
      <3>1. todo' \subseteq Meg
        BY <1>6 DEF Sync, ForceSync, BeginSync, MapTypeOK
      <3>. QED BY <1>6, <3>1 DEF Sync, ForceSync, BeginSync, CallTypeOK
    <2>4. Kept
      BY <1>6 DEF Sync, ForceSync, BeginSync, allocator
    <2>. QED BY <2>1, <2>2, <2>3, <2>4
  <1>7. CASE EraseSlot
    <2>. PICK m \in todo :
            /\ IsMin(m, todo)
            /\ slots' = [slots EXCEPT ![m] = [@ EXCEPT ![Target(m)] = BlankSlot]]
      BY <1>7 DEF EraseSlot
    <2>1. PersistentTypeOK'
      <3>1. m \in Meg /\ Target(m) \in {0, 1}
        BY <1>7 DEF EraseSlot, CallTypeOK, Target, MapTypeOK
      <3>. QED BY <1>7, <3>1, BadSlots, SlotWritten DEF EraseSlot
    <2>2. MapTypeOK' /\ AllocatorTypeOK'
      BY <1>7, MapFrame, AllocatorFrame DEF EraseSlot
    <2>3. CallTypeOK' /\ Kept
      BY <1>7 DEF EraseSlot, CallTypeOK, allocator
    <2>. QED BY <2>1, <2>2, <2>3
  <1>8. CASE ProgramSlot
    <2>. PICK m \in todo :
            /\ todo' = todo \ {m}
            /\ \/ /\ slots' = [slots EXCEPT ![m] = [@ EXCEPT ![Target(m)] = MapImage(m)]]
                  /\ active' = [active EXCEPT ![m] = Target(m)]
                  /\ dirty' = dirty \ {m}
                  /\ exposed' = exposed \ SectorsOf(m)
               \/ /\ slots' = [slots EXCEPT ![m] = [@ EXCEPT ![Target(m)] = TornSlot]]
                  /\ UNCHANGED <<active, dirty, exposed>>
      BY <1>8 DEF ProgramSlot
    <2>1. m \in Meg /\ Target(m) \in {0, 1}
      BY <1>8 DEF ProgramSlot, CallTypeOK, Target, MapTypeOK
    <2>2. PersistentTypeOK'
      BY <1>8, <2>1, BadSlots, MapImageType, SlotWritten DEF ProgramSlot
    <2>3. MapTypeOK'
      BY <1>8, <2>1 DEF ProgramSlot, MapTypeOK
    <2>4. AllocatorTypeOK'
      BY <1>8, AllocatorFrame DEF ProgramSlot
    <2>5. CallTypeOK' /\ Kept
      BY <1>8 DEF ProgramSlot, CallTypeOK, allocator
    <2>. QED BY <2>2, <2>3, <2>4, <2>5
  <1>9. CASE EndSync
    <2>1. PersistentTypeOK' /\ MapTypeOK'
      BY <1>9, PersistentFrame, MapFrame DEF EndSync
    <2>2. AllocatorTypeOK'
      BY <1>9 DEF EndSync, Unquarantine, AllocatorTypeOK
    <2>3. CallTypeOK' /\ Kept
      BY <1>9, ForgetCallType DEF EndSync, CallTypeOK
    <2>. QED BY <2>1, <2>2, <2>3
  <1>10. CASE ResumeAlloc
    <2>1. PersistentTypeOK' /\ MapTypeOK'
      BY <1>10, PersistentFrame, MapFrame DEF ResumeAlloc
    <2>2. AllocatorTypeOK'
      BY <1>10 DEF ResumeAlloc, Unquarantine, AllocatorTypeOK
    <2>3. CallTypeOK' /\ Kept
      BY <1>10 DEF ResumeAlloc, CallTypeOK
    <2>. QED BY <2>1, <2>2, <2>3
  <1>11. CASE FormatErase
    <2>. PICK j \in todo :
            /\ slots' = [slots EXCEPT ![j \div 2] = [@ EXCEPT ![j % 2] = BlankSlot]]
            /\ todo' = todo \ {j}
      BY <1>11 DEF FormatErase
    <2>1. j \div 2 \in Meg /\ j % 2 \in {0, 1}
      <3>1. j \in 0 .. 2 * NumMegs - 1
        BY <1>11 DEF FormatErase, CallTypeOK, Reserved
      <3>. QED BY <3>1, GeometryAssumption DEF Meg, GeometryAssumption
    <2>2. PersistentTypeOK'
      BY <1>11, <2>1, BadSlots, SlotWritten DEF FormatErase
    <2>3. MapTypeOK' /\ AllocatorTypeOK'
      BY <1>11, MapFrame, AllocatorFrame DEF FormatErase
    <2>4. CallTypeOK' /\ Kept
      BY <1>11 DEF FormatErase, CallTypeOK, allocator
    <2>. QED BY <2>2, <2>3, <2>4
  <1>12. CASE FormatMap
    <2>1. PersistentTypeOK' /\ AllocatorTypeOK'
      BY <1>12, PersistentFrame, AllocatorFrame DEF FormatMap
    <2>2. MapTypeOK'
      BY <1>12 DEF FormatMap, MapTypeOK
    <2>3. CallTypeOK' /\ Kept
      BY <1>12 DEF FormatMap, CallTypeOK, allocator
    <2>. QED BY <2>1, <2>2, <2>3
  <1>13. CASE FinishFormat
    <2>1. PersistentTypeOK' /\ MapTypeOK'
      BY <1>13, PersistentFrame, MapFrame DEF FinishFormat
    <2>2. AllocatorTypeOK' /\ Kept
      BY <1>13, Geometry DEF FinishFormat, AllocatorTypeOK
    <2>3. CallTypeOK'
      BY <1>13, ForgetCallType DEF FinishFormat, CallTypeOK
    <2>. QED BY <2>1, <2>2, <2>3
  <1>14. ASSUME NEW r \in Requests, Write(r[1], r[2]) PROVE TypeInv'
    <2>1. r[1] \in FatSector /\ r[2] \in Data
      BY InputAssumption DEF InputAssumption
    <2>2. PersistentTypeOK' /\ MapTypeOK'
      BY <1>14, PersistentFrame, MapFrame DEF Write
    <2>3. AllocatorTypeOK'
      BY <1>14, <2>1 DEF Write, Quarantine, AllocatorTypeOK, MapTypeOK, Entry
    <2>4. CallTypeOK'
      BY <1>14, <2>1 DEF Write, CallTypeOK, MapTypeOK
    <2>5. Kept
      BY <1>14, <2>1 DEF Write, Quarantine, MapTypeOK, Entry, DataPage
    <2>. QED BY <2>2, <2>3, <2>4, <2>5
  <1>15. CASE Mount
    <2>1. \A f \in FatSector : Persisted(f) \in Entry
      BY <1>15, PersistedType, Geometry DEF Mount, Mountable
    <2>2. PersistentTypeOK'
      BY <1>15, PersistentFrame DEF Mount
    <2>3. MapTypeOK'
      <3>1. gen' \in Nat
        BY <1>15, WinnerType, SlotGenType DEF Mount
      <3>. QED BY <1>15, <2>1, <3>1, WinnerType DEF Mount, MapTypeOK
    <2>4. AllocatorTypeOK' /\ Kept
      BY <1>15, <2>1, Geometry, DataPageType DEF Mount, InitUsed, AllocatorTypeOK, Entry
    <2>5. CallTypeOK'
      BY <1>15 DEF Mount, CallTypeOK
    <2>. QED BY <2>2, <2>3, <2>4, <2>5
  <1>16. CASE MountFails
    <2>1. PersistentTypeOK' /\ MapTypeOK' /\ AllocatorTypeOK'
      BY <1>16, PersistentFrame, MapFrame, AllocatorFrame DEF MountFails
    <2>2. CallTypeOK' /\ Kept
      BY <1>16 DEF MountFails, CallTypeOK, allocator
    <2>. QED BY <2>1, <2>2
  <1>17. CASE Format
    <2>1. PersistentTypeOK' /\ AllocatorTypeOK'
      BY <1>17, PersistentFrame, AllocatorFrame DEF Format
    <2>2. MapTypeOK'
      BY <1>17 DEF Format, MapTypeOK, Entry
    <2>3. CallTypeOK' /\ Kept
      BY <1>17 DEF Format, CallTypeOK, allocator
    <2>. QED BY <2>1, <2>2, <2>3
  <1>18. CASE PowerCut
    <2>1. PersistentTypeOK'
      <3>1. CASE UNCHANGED persistent
        BY <3>1, PersistentFrame
      <3>2. CASE SpoilPages
        BY <3>2, ContentConstants, PagesFilled DEF SpoilPages
      <3>3. CASE SpoilSlot
        <4>1. CASE pc \in {"sync", "program"}
          <5>1. PICK m \in todo :
                  slots' = [slots EXCEPT ![m] = [@ EXCEPT ![Target(m)] = TornSlot]]
            BY <3>3, <4>1 DEF SpoilSlot
          <5>2. m \in Meg /\ Target(m) \in {0, 1}
            BY <4>1 DEF CallTypeOK, Target, MapTypeOK
          <5>. QED BY <3>3, <5>1, <5>2, BadSlots, SlotWritten DEF SpoilSlot
        <4>2. CASE pc = "format"
          <5>1. PICK j \in todo :
                  slots' = [slots EXCEPT ![j \div 2] = [@ EXCEPT ![j % 2] = TornSlot]]
            BY <3>3, <4>2 DEF SpoilSlot
          <5>2. j \in 0 .. 2 * NumMegs - 1
            BY <4>2 DEF CallTypeOK, Reserved
          <5>3. j \div 2 \in Meg /\ j % 2 \in {0, 1}
            BY <5>2, GeometryAssumption DEF Meg, GeometryAssumption
          <5>. QED BY <3>3, <5>1, <5>3, BadSlots, SlotWritten DEF SpoilSlot
        <4>. QED BY <3>3, <4>1, <4>2 DEF SpoilSlot
      <3>. QED BY <1>18, <3>1, <3>2, <3>3 DEF PowerCut
    <2>2. MapTypeOK' /\ AllocatorTypeOK' /\ CallTypeOK'
      BY <1>18, LosePowerType DEF PowerCut
    <2>3. Kept
      BY <1>18 DEF PowerCut, LosePower
    <2>. QED BY <2>1, <2>2, <2>3
  <1>19. CASE UNCHANGED vars
    <2>1. PersistentTypeOK' /\ MapTypeOK' /\ AllocatorTypeOK' /\ CallTypeOK'
      BY <1>19, PersistentFrame, MapFrame, AllocatorFrame, CallFrame DEF vars
    <2>2. Kept
      BY <1>19 DEF vars, allocator, call
    <2>. QED BY <2>1, <2>2
  <1>. QED
    BY <1>1, <1>2, <1>3, <1>4, <1>5, <1>6, <1>7, <1>8, <1>9, <1>10, <1>11, <1>12,
       <1>13, <1>14, <1>15, <1>16, <1>17, <1>18, <1>19 DEF Next, Operation

\* Every variable keeps its type, and pages of the map slots are never given
\* to a file, whatever fails and wherever power is cut.
THEOREM TypeCorrect == Spec => []TypeInv
  BY TypeInvInit, TypeInvNext, PTL DEF Spec

-----------------------------------------------------------------------------

\* Slot i of meg m is reserved sector 2m + i.
LEMMA SlotNumber ==
    \A j \in 0 .. 2 * NumMegs - 1 :
        /\ j \div 2 \in Meg /\ j % 2 \in {0, 1}
        /\ \A m \in Meg, i \in {0, 1} : 2 * m + i = j => m = j \div 2 /\ i = j % 2
  <1>. SUFFICES ASSUME NEW j \in 0 .. 2 * NumMegs - 1
                PROVE  /\ j \div 2 \in Meg /\ j % 2 \in {0, 1}
                       /\ \A m \in Meg, i \in {0, 1} : 2 * m + i = j => m = j \div 2 /\ i = j % 2
    OBVIOUS
  <1>1. j \div 2 \in Meg /\ j % 2 \in {0, 1}
    BY GeometryAssumption DEF Meg, GeometryAssumption
  <1>2. ASSUME NEW m \in Meg, NEW i \in {0, 1}, 2 * m + i = j
        PROVE  m = j \div 2 /\ i = j % 2
    BY <1>2 DEF Meg
  <1>. QED BY <1>1, <1>2

\* What is read from the slots only depends on the slots.
LEMMA SlotsFrame ==
    ASSUME UNCHANGED slots
    PROVE  /\ \A m \in Meg, i \in {0, 1} : Valid(m, i)' <=> Valid(m, i)
           /\ \A m \in Meg : (HasSlot(m)' <=> HasSlot(m)) /\ Winner(m)' = Winner(m)
           /\ \A f \in FatSector : Persisted(f)' = Persisted(f)
           /\ Mountable' <=> Mountable
  BY DEF Valid, HasSlot, Winner, Persisted, Mountable

LEMMA InvalidGen ==
    ASSUME PersistentTypeOK, NEW m \in Meg, NEW i \in {0, 1}, ~Valid(m, i)
    PROVE  slots[m][i].gen = 0
  <1>1. slots[m][i] \in SlotImage(m)
    BY DEF PersistentTypeOK
  <1>. QED BY <1>1 DEF SlotImage, Valid, BlankSlot, TornSlot

LEMMA ImageGenType == \A m \in Meg : \A s \in SlotImage(m) : s.gen \in Nat
  BY DEF SlotImage, BlankSlot, TornSlot

LEMMA BadSlotsInvalid ==
    /\ BlankSlot.image # "valid" /\ BlankSlot.gen = 0
    /\ TornSlot.image # "valid" /\ TornSlot.gen = 0
  BY DEF BlankSlot, TornSlot

LEMMA ActiveIsWinner ==
    ASSUME TypeInv, ActiveWins, Live, NEW m \in Meg, HasSlot(m)
    PROVE  /\ Winner(m) = active[m]
           /\ active[m] \in {0, 1} /\ Target(m) \in {0, 1} /\ Target(m) # active[m]
           /\ Valid(m, active[m])
  <1>1. active[m] \in {0, 1} /\ Target(m) \in {0, 1} /\ Target(m) # active[m]
    BY DEF TypeInv, TypeOK, MapTypeOK, Target
  <1>2. /\ Valid(m, active[m])
        /\ Valid(m, Target(m)) => slots[m][Target(m)].gen < slots[m][active[m]].gen
    BY DEF ActiveWins
  <1>3. slots[m][0].gen \in Nat /\ slots[m][1].gen \in Nat
    BY SlotGenType DEF TypeInv, TypeOK
  <1>4. Winner(m) = active[m]
    BY <1>1, <1>2, <1>3 DEF Winner, Target, TypeInv, TypeOK, MapTypeOK
  <1>. QED BY <1>1, <1>2, <1>4

\* A slot that holds no map.
Spoilt(m, i) == /\ slots'[m][i].image # "valid"
                /\ slots'[m][i].gen = 0
                /\ \A n \in Meg, j \in {0, 1} :
                        n # m \/ j # i => slots'[n][j] = slots[n][j]

LEMMA SpoiltDistinct ==
    ASSUME DistinctGenerations, NEW m \in Meg, NEW i \in {0, 1}, Spoilt(m, i)
    PROVE  /\ DistinctGenerations'
           /\ ~Mountable => ~Mountable'
           /\ \A n \in Meg, j \in {0, 1} : Valid(n, j)' => Valid(n, j) /\ (n # m \/ j # i)
  BY DEF DistinctGenerations, Spoilt, Valid, Mountable, HasSlot

\* A slot overwritten by something that is no map.
LEMMA BadWriteSpoils ==
    ASSUME PersistentTypeOK, NEW m \in Meg, NEW i \in {0, 1}, NEW s \in {BlankSlot, TornSlot},
           slots' = [slots EXCEPT ![m] = [@ EXCEPT ![i] = s]]
    PROVE  Spoilt(m, i)
  <1>1. s \in SlotImage(m)
    BY BadSlots
  <1>2. /\ slots'[m][i] = s
        /\ \A n \in Meg, j \in {0, 1} : n # m \/ j # i => slots'[n][j] = slots[n][j]
    BY <1>1, SlotUpdate
  <1>3. s.image # "valid" /\ s.gen = 0
    BY BadSlotsInvalid
  <1>. QED BY <1>2, <1>3 DEF Spoilt

\* Spoiling the slot that is about to be written changes nothing a mount sees.
LEMMA TargetSpoilt ==
    ASSUME TypeInv, ActiveWins, Live, NEW m \in Meg, Spoilt(m, Target(m))
    PROVE  /\ \A n \in Meg : HasSlot(n)' <=> HasSlot(n)
           /\ \A n \in Meg : HasSlot(n) => Winner(n)' = Winner(n)
           /\ \A f \in FatSector : HasSlot(MegOf(f)) => Persisted(f)' = Persisted(f)
           /\ Mountable' <=> Mountable
  <1>1. Target(m) \in {0, 1} /\ 1 - Target(m) = active[m] /\ active[m] \in {0, 1}
    BY DEF TypeInv, TypeOK, MapTypeOK, Target
  <1>2. \A n \in Meg : HasSlot(n) =>
            /\ HasSlot(n)'
            /\ Winner(n)' = Winner(n)
            /\ slots'[n][Winner(n)] = slots[n][Winner(n)]
    <2>. TAKE n \in Meg
    <2>. HAVE HasSlot(n)
    <2>1. CASE n = m
      BY <1>1, <2>1, ActiveIsWinner DEF Spoilt, HasSlot, Winner, Valid, Target
    <2>2. CASE n # m
      BY <2>2 DEF Spoilt, HasSlot, Winner, Valid
    <2>. QED BY <2>1, <2>2
  <1>3. \A n \in Meg : HasSlot(n)' => HasSlot(n)
    BY <1>1 DEF Spoilt, HasSlot, Valid
  <1>4. \A f \in FatSector : HasSlot(MegOf(f)) => Persisted(f)' = Persisted(f)
    BY <1>2, Geometry DEF Persisted
  <1>. QED BY <1>2, <1>3, <1>4 DEF Mountable

\* A good program makes the new map the one a mount sees.
LEMMA TargetProgrammed ==
    ASSUME TypeInv, ActiveWins, Live, NEW m \in Meg,
           \A i \in {0, 1} : slots[m][i].gen < gen,
           slots' = [slots EXCEPT ![m] = [@ EXCEPT ![Target(m)] = MapImage(m)]]
    PROVE  /\ HasSlot(m)' /\ Winner(m)' = Target(m)
           /\ \A f \in SectorsOf(m) : Persisted(f)' = map[f]
           /\ \A n \in Meg \ {m} : (HasSlot(n)' <=> HasSlot(n)) /\ Winner(n)' = Winner(n)
           /\ \A f \in FatSector \ SectorsOf(m) : Persisted(f)' = Persisted(f)
           /\ Mountable => Mountable'
  <1>1. Target(m) \in {0, 1} /\ 1 - Target(m) \in {0, 1}
    BY DEF TypeInv, TypeOK, MapTypeOK, Target
  <1>2. MapImage(m) \in SlotImage(m)
    BY MapImageType DEF TypeInv, TypeOK
  <1>3. /\ slots'[m][Target(m)] = MapImage(m)
        /\ \A n \in Meg, j \in {0, 1} : n # m \/ j # Target(m) => slots'[n][j] = slots[n][j]
    BY <1>1, <1>2, SlotUpdate DEF TypeInv, TypeOK
  <1>4. gen \in Nat /\ slots[m][0].gen \in Nat /\ slots[m][1].gen \in Nat
    BY SlotGenType DEF TypeInv, TypeOK, MapTypeOK
  <1>5. HasSlot(m)' /\ Winner(m)' = Target(m)
    BY <1>1, <1>3, <1>4 DEF HasSlot, Winner, Valid, MapImage
  <1>6. \A f \in SectorsOf(m) : Persisted(f)' = map[f]
    BY <1>3, <1>5 DEF Persisted, MapImage, SectorsOf
  <1>7. \A n \in Meg \ {m} : (HasSlot(n)' <=> HasSlot(n)) /\ Winner(n)' = Winner(n)
    BY <1>3 DEF HasSlot, Winner, Valid
  <1>8. \A f \in FatSector \ SectorsOf(m) : Persisted(f)' = Persisted(f)
    BY <1>3, <1>7, WinnerType, Geometry DEF Persisted, SectorsOf
  <1>. QED BY <1>5, <1>6, <1>7, <1>8 DEF Mountable

-----------------------------------------------------------------------------
\* SlotInv is inductive.

LEMMA SlotInvInit == Init => SlotInv
  <1>. SUFFICES ASSUME Init PROVE SlotInv
    OBVIOUS
  <1>1. TypeInv
    BY TypeInvInit
  <1>2. \A m \in Meg, i \in {0, 1} : ~Valid(m, i)
    BY DEF Init, Valid, BlankSlot
  <1>3. RequestShape /\ FormatShape /\ Generations /\ ActiveWins /\ CleanMegs
    BY DEF Init, RequestShape, FormatShape, Generations, ActiveWins, CleanMegs,
           Down, Syncing, Formatting, Live, NoRequest
  <1>4. DistinctGenerations
    BY <1>2 DEF DistinctGenerations
  <1>. QED BY <1>1, <1>3, <1>4 DEF SlotInv

\* A step inside a mounted volume that leaves the slots, and map, alone.
LEMMA QuietStep ==
    ASSUME SlotInv, Live, UNCHANGED <<slots, active>>, gen' = gen \/ gen' = gen + 1,
           dirty \subseteq dirty',
           \A f \in FatSector : MegOf(f) \notin dirty' => map'[f] = map[f]
    PROVE  /\ DistinctGenerations' /\ ActiveWins' /\ CleanMegs'
           /\ \A m \in Meg, i \in {0, 1} : slots'[m][i].gen \in Nat
           /\ \A m \in Meg, i \in {0, 1} : slots'[m][i].gen <= gen'
           /\ gen' = gen + 1 => \A m \in Meg, i \in {0, 1} : slots'[m][i].gen < gen'
  <1>. USE SlotsFrame DEF SlotInv
  <1>1. DistinctGenerations'
    BY DEF DistinctGenerations
  <1>2. ActiveWins'
    <2>1. \A m \in Meg : active[m] \in {0, 1} /\ Target(m) \in {0, 1} /\ Target(m)' = Target(m)
      BY DEF TypeInv, TypeOK, MapTypeOK, Target
    <2>. QED BY <2>1 DEF ActiveWins
  <1>3. CleanMegs'
    BY Geometry DEF CleanMegs
  <1>4. \A m \in Meg, i \in {0, 1} : slots'[m][i].gen \in Nat
    BY SlotGenType DEF TypeInv, TypeOK
  <1>5. gen \in Nat
    BY DEF TypeInv, TypeOK, MapTypeOK
  <1>. QED
    BY <1>1, <1>2, <1>3, <1>4, <1>5 DEF Generations

\* The same while the slot to be written is spoilt.
LEMMA SpoilingStep ==
    ASSUME SlotInv, Live, NEW m \in Meg, Spoilt(m, Target(m)),
           UNCHANGED <<map, dirty, active, gen>>
    PROVE  /\ DistinctGenerations' /\ ActiveWins' /\ CleanMegs'
           /\ \A n \in Meg, i \in {0, 1} : slots'[n][i].gen <= slots[n][i].gen
  <1>. USE DEF SlotInv
  <1>0. \A n \in Meg : /\ active[n] \in {0, 1} /\ Target(n) \in {0, 1}
                       /\ Target(n)' = Target(n) /\ active[n] # Target(n)
    BY DEF TypeInv, TypeOK, MapTypeOK, Target
  <1>1. DistinctGenerations'
    BY <1>0 DEF DistinctGenerations, Spoilt, Valid
  <1>2. ActiveWins'
    <2>. SUFFICES ASSUME NEW n \in Meg, HasSlot(n)', Live'
                  PROVE  /\ Valid(n, active[n])'
                         /\ Valid(n, Target(n))' =>
                               slots'[n][Target(n)].gen < slots'[n][active[n]].gen
      BY <1>0 DEF ActiveWins
    <2>1. HasSlot(n)
      BY TargetSpoilt
    <2>2. /\ Valid(n, active[n])
          /\ Valid(n, Target(n)) => slots[n][Target(n)].gen < slots[n][active[n]].gen
      BY <2>1 DEF ActiveWins
    <2>. QED BY <1>0, <2>2 DEF Spoilt, Valid
  <1>3. CleanMegs'
    <2>. SUFFICES ASSUME NEW f \in FatSector, MegOf(f) \notin dirty
                  PROVE  HasSlot(MegOf(f))' /\ Persisted(f)' = map[f]
      BY DEF CleanMegs
    <2>. QED BY TargetSpoilt, Geometry DEF CleanMegs
  <1>4. \A n \in Meg, i \in {0, 1} : slots'[n][i].gen <= slots[n][i].gen
    <2>. TAKE n \in Meg, i \in {0, 1}
    <2>1. slots[n][i].gen \in Nat
      BY SlotGenType DEF TypeInv, TypeOK
    <2>. QED BY <2>1 DEF Spoilt
  <1>. QED BY <1>1, <1>2, <1>3, <1>4

\* The same when the slot gets the new map.
LEMMA ProgrammingStep ==
    ASSUME SlotInv, Live, NEW m \in Meg,
           \A i \in {0, 1} : slots[m][i].gen < gen,
           slots' = [slots EXCEPT ![m] = [@ EXCEPT ![Target(m)] = MapImage(m)]],
           active' = [active EXCEPT ![m] = Target(m)],
           dirty' = dirty \ {m}, UNCHANGED <<map, gen>>
    PROVE  /\ DistinctGenerations' /\ ActiveWins' /\ CleanMegs'
           /\ \A n \in Meg, i \in {0, 1} : slots'[n][i].gen <= gen
           /\ \A n \in Meg \ {m}, i \in {0, 1} : slots'[n][i] = slots[n][i]
  <1>. USE DEF SlotInv
  <1>0. /\ \A n \in Meg : active[n] \in {0, 1} /\ Target(n) \in {0, 1}
        /\ active[m] = 1 - Target(m) /\ Target(m)' = active[m] /\ active'[m] = Target(m)
        /\ \A n \in Meg \ {m} : active'[n] = active[n] /\ Target(n)' = Target(n)
    BY DEF TypeInv, TypeOK, MapTypeOK, Target
  <1>1. MapImage(m) \in SlotImage(m)
    BY MapImageType DEF TypeInv, TypeOK
  <1>2. /\ slots'[m][Target(m)] = MapImage(m)
        /\ \A n \in Meg, j \in {0, 1} : n # m \/ j # Target(m) => slots'[n][j] = slots[n][j]
    <2>1. PersistentTypeOK /\ Target(m) \in {0, 1}
      BY <1>0 DEF TypeInv, TypeOK
    <2>. QED BY <1>1, <2>1, SlotUpdate
  <1>3. gen \in Nat /\ slots'[m][Target(m)].gen = gen
    BY <1>2 DEF MapImage, TypeInv, TypeOK, MapTypeOK
  <1>4. \A n \in Meg, i \in {0, 1} : slots[n][i].gen \in Nat
    BY SlotGenType DEF TypeInv, TypeOK
  <1>5. DistinctGenerations'
    BY <1>0, <1>2, <1>3, <1>4 DEF DistinctGenerations, Valid
  <1>6. ActiveWins'
    <2>. SUFFICES ASSUME NEW n \in Meg, HasSlot(n)', Live'
                  PROVE  /\ Valid(n, active[n])'
                         /\ Valid(n, Target(n))' =>
                               slots'[n][Target(n)'].gen < slots'[n][active'[n]].gen
      BY DEF ActiveWins
    <2>1. CASE n = m
      BY <1>0, <1>2, <1>3, <2>1 DEF Valid, MapImage
    <2>2. CASE n # m
      BY <1>0, <1>2, <2>2 DEF ActiveWins, Valid, HasSlot
    <2>. QED BY <2>1, <2>2
  <1>7. CleanMegs'
    <2>. SUFFICES ASSUME NEW f \in FatSector, MegOf(f) \notin dirty'
                  PROVE  HasSlot(MegOf(f))' /\ Persisted(f)' = map[f]
      BY DEF CleanMegs
    <2>1. CASE MegOf(f) = m
      BY <2>1, TargetProgrammed DEF SectorsOf
    <2>2. CASE MegOf(f) # m
      BY <2>2, TargetProgrammed, Geometry DEF SectorsOf, CleanMegs
    <2>. QED BY <2>1, <2>2
  <1>8. \A n \in Meg, i \in {0, 1} : slots'[n][i].gen <= gen
    BY <1>2, <1>3, <1>4 DEF Generations
  <1>. QED BY <1>2, <1>5, <1>6, <1>7, <1>8

\* Every step keeps the persisted map sound.
LEMMA SlotInvNext == SlotInv /\ [Next]_vars => SlotInv'
  <1>. SUFFICES ASSUME SlotInv, [Next]_vars PROVE SlotInv'
    OBVIOUS
  <1>0. TypeInv /\ TypeInv'
    BY TypeInvNext DEF SlotInv
  <1>. DEFINE Rest == /\ RequestShape' /\ FormatShape' /\ Generations'
                      /\ DistinctGenerations' /\ ActiveWins' /\ CleanMegs'
  <1>. SUFFICES Rest
    BY <1>0 DEF SlotInv
  <1>. USE DEF SlotInv, Live, Down, Syncing, Formatting
  \* RequestShape, FormatShape and Generations, from what a step does.
  <1>1. CASE OpenFreeSector
    <2>1. DistinctGenerations' /\ ActiveWins' /\ CleanMegs'
      BY <1>1, QuietStep DEF OpenFreeSector, fsMap
    <2>2. RequestShape' /\ FormatShape' /\ Generations'
      BY <1>1, SlotsFrame DEF OpenFreeSector, fsMap, call, RequestShape, FormatShape, Generations
    <2>. QED BY <2>1, <2>2
  <1>2. CASE OpenPartialSector
    <2>1. DistinctGenerations' /\ ActiveWins' /\ CleanMegs'
      BY <1>2, QuietStep DEF OpenPartialSector, fsMap
    <2>2. RequestShape' /\ FormatShape' /\ Generations'
      BY <1>2, SlotsFrame DEF OpenPartialSector, fsMap, RequestShape, FormatShape, Generations
    <2>. QED BY <2>1, <2>2
  <1>3. CASE CopyBack
    <2>1. DistinctGenerations' /\ ActiveWins' /\ CleanMegs'
      BY <1>3, QuietStep DEF CopyBack, fsMap
    <2>2. RequestShape' /\ FormatShape' /\ Generations'
      BY <1>3, SlotsFrame DEF CopyBack, fsMap, allocator, RequestShape, FormatShape, Generations
    <2>. QED BY <2>1, <2>2
  <1>4. CASE TakePage
    <2>1. \A f \in FatSector : MegOf(f) \notin dirty' => map'[f] = map[f]
      BY <1>4 DEF TakePage, TypeInv, TypeOK, MapTypeOK
    <2>2. DistinctGenerations' /\ ActiveWins' /\ CleanMegs'
      BY <1>4, <2>1, QuietStep DEF TakePage
    <2>3. RequestShape' /\ FormatShape' /\ Generations'
      BY <1>4, SlotsFrame DEF TakePage, ForgetCall, NoRequest, RequestShape, FormatShape, Generations
    <2>. QED BY <2>2, <2>3
  <1>5. CASE VolumeFull
    <2>1. DistinctGenerations' /\ ActiveWins' /\ CleanMegs'
      BY <1>5, QuietStep DEF VolumeFull, fsMap, persistent
    <2>2. RequestShape' /\ FormatShape' /\ Generations'
      BY <1>5, SlotsFrame DEF VolumeFull, ForgetCall, NoRequest, fsMap, persistent,
                             RequestShape, FormatShape, Generations
    <2>. QED BY <2>1, <2>2
  <1>6. ASSUME Sync \/ ForceSync PROVE Rest
    <2>0. /\ UNCHANGED <<slots, map, dirty, active, open>> /\ gen' = gen + 1
          /\ todo' = dirty /\ pc' = "sync" /\ pc \in {"idle", "alloc"}
          /\ req'.sync = "api" \/ (req'.sync = "alloc" /\ req'.retry)
      BY <1>6 DEF Sync, ForceSync, BeginSync, persistent, allocator, TypeInv, TypeOK, CallTypeOK
    <2>1. /\ DistinctGenerations' /\ ActiveWins' /\ CleanMegs'
          /\ \A m \in Meg, i \in {0, 1} : slots'[m][i].gen <= gen'
          /\ \A m \in Meg, i \in {0, 1} : slots'[m][i].gen < gen'
      BY <2>0, QuietStep
    <2>2. Generations'
      BY <1>0, <2>0, <2>1 DEF Generations, TypeInv, TypeOK, MapTypeOK
    <2>3. RequestShape' /\ FormatShape'
      BY <2>0 DEF RequestShape, FormatShape
    <2>. QED BY <2>1, <2>2, <2>3
  <1>7. CASE EraseSlot
    <2>. PICK m \in todo :
            slots' = [slots EXCEPT ![m] = [@ EXCEPT ![Target(m)] = BlankSlot]]
      BY <1>7 DEF EraseSlot
    <2>0. m \in Meg /\ Target(m) \in {0, 1} /\ BlankSlot \in SlotImage(m)
      BY <1>7, BadSlots DEF EraseSlot, TypeInv, TypeOK, CallTypeOK, Target, MapTypeOK
    <2>1. Spoilt(m, Target(m))
      BY <2>0, SlotUpdate, BadSlotsInvalid DEF Spoilt, TypeInv, TypeOK
    <2>2. /\ DistinctGenerations' /\ ActiveWins' /\ CleanMegs'
          /\ \A n \in Meg, i \in {0, 1} : slots'[n][i].gen <= slots[n][i].gen
      BY <1>7, <2>0, <2>1, SpoilingStep DEF EraseSlot, fsMap
    <2>3. \A n \in Meg, i \in {0, 1} :
            slots[n][i].gen \in Nat /\ slots'[n][i].gen \in Nat /\ gen \in Nat
      BY <1>0, ImageGenType DEF TypeInv, TypeOK, MapTypeOK, PersistentTypeOK
    <2>4. Generations'
      BY <1>7, <2>2, <2>3 DEF EraseSlot, fsMap, Generations, TypeInv, TypeOK, CallTypeOK
    <2>5. RequestShape' /\ FormatShape'
      BY <1>7, <2>0, <2>1, TargetSpoilt
         DEF EraseSlot, fsMap, allocator, RequestShape, FormatShape, TypeInv, TypeOK, MapTypeOK
    <2>. QED BY <2>2, <2>4, <2>5
  <1>8. CASE ProgramSlot
    <2>. PICK m \in todo :
            /\ todo' = todo \ {m}
            /\ \/ /\ slots' = [slots EXCEPT ![m] = [@ EXCEPT ![Target(m)] = MapImage(m)]]
                  /\ active' = [active EXCEPT ![m] = Target(m)]
                  /\ dirty' = dirty \ {m}
               \/ /\ slots' = [slots EXCEPT ![m] = [@ EXCEPT ![Target(m)] = TornSlot]]
                  /\ UNCHANGED <<active, dirty>>
      BY <1>8 DEF ProgramSlot
    <2>0. /\ pc = "program" /\ pc' = "sync"
          /\ UNCHANGED <<flash, map, gen, allocator, req, scratch>>
      BY <1>8 DEF ProgramSlot
    <2>1. m \in Meg /\ Target(m) \in {0, 1} /\ todo \subseteq dirty /\ m \in dirty
      BY <2>0 DEF TypeInv, TypeOK, CallTypeOK, Target, MapTypeOK, Generations
    <2>2. RequestShape'
      BY <2>0 DEF RequestShape
    <2>3. CASE /\ slots' = [slots EXCEPT ![m] = [@ EXCEPT ![Target(m)] = MapImage(m)]]
               /\ active' = [active EXCEPT ![m] = Target(m)]
               /\ dirty' = dirty \ {m}
      <3>1. \A i \in {0, 1} : slots[m][i].gen < gen
        BY <2>0 DEF Generations
      <3>2. /\ DistinctGenerations' /\ ActiveWins' /\ CleanMegs'
            /\ \A n \in Meg, i \in {0, 1} : slots'[n][i].gen <= gen
            /\ \A n \in Meg \ {m}, i \in {0, 1} : slots'[n][i] = slots[n][i]
        BY <2>0, <2>1, <2>3, <3>1, ProgrammingStep
      <3>3. Generations'
        BY <2>0, <2>1, <2>3, <3>2 DEF Generations
      <3>4. FormatShape'
        <4>1. \A n \in Meg \ {m} : HasSlot(n)' <=> HasSlot(n)
          BY <2>0, <2>1, <2>3, <3>1, TargetProgrammed
        <4>. QED BY <2>0, <2>1, <2>3, <4>1 DEF FormatShape, allocator, TypeInv, TypeOK, MapTypeOK
      <3>. QED BY <2>2, <3>2, <3>3, <3>4
    <2>4. CASE /\ slots' = [slots EXCEPT ![m] = [@ EXCEPT ![Target(m)] = TornSlot]]
               /\ UNCHANGED <<active, dirty>>
      <3>0. TornSlot \in SlotImage(m)
        BY <2>1, BadSlots
      <3>1. Spoilt(m, Target(m))
        BY <2>1, <2>4, <3>0, SlotUpdate, BadSlotsInvalid DEF Spoilt, TypeInv, TypeOK
      <3>2. /\ DistinctGenerations' /\ ActiveWins' /\ CleanMegs'
            /\ \A n \in Meg, i \in {0, 1} : slots'[n][i].gen <= slots[n][i].gen
        BY <2>0, <2>1, <2>4, <3>1, SpoilingStep
      <3>3. \A n \in Meg, i \in {0, 1} :
              slots[n][i].gen \in Nat /\ slots'[n][i].gen \in Nat /\ gen \in Nat
        BY <1>0, ImageGenType DEF TypeInv, TypeOK, MapTypeOK, PersistentTypeOK
      <3>4. Generations'
        BY <2>0, <2>1, <2>4, <3>2, <3>3 DEF Generations
      <3>5. FormatShape'
        BY <2>0, <2>1, <2>4, <3>1, TargetSpoilt
           DEF FormatShape, allocator, TypeInv, TypeOK, MapTypeOK
      <3>. QED BY <2>2, <3>2, <3>4, <3>5
    <2>. QED BY <2>3, <2>4
  <1>9. CASE EndSync
    <2>1. DistinctGenerations' /\ ActiveWins' /\ CleanMegs'
      BY <1>9, QuietStep DEF EndSync, fsMap, persistent
    <2>2. RequestShape' /\ FormatShape' /\ Generations'
      BY <1>9, SlotsFrame DEF EndSync, ForgetCall, NoRequest, fsMap, persistent,
                             RequestShape, FormatShape, Generations
    <2>. QED BY <2>1, <2>2
  <1>10. CASE ResumeAlloc
    <2>1. DistinctGenerations' /\ ActiveWins' /\ CleanMegs'
      BY <1>10, QuietStep DEF ResumeAlloc, fsMap, persistent
    <2>2. RequestShape' /\ FormatShape' /\ Generations'
      BY <1>10, SlotsFrame DEF ResumeAlloc, fsMap, persistent,
                              RequestShape, FormatShape, Generations
    <2>. QED BY <2>1, <2>2
  <1>11. CASE FormatErase
    <2>. PICK j \in todo :
            /\ slots' = [slots EXCEPT ![j \div 2] = [@ EXCEPT ![j % 2] = BlankSlot]]
            /\ todo' = todo \ {j}
      BY <1>11 DEF FormatErase
    <2>0. pc = "format" /\ UNCHANGED <<pc, req, map, open>>
      BY <1>11 DEF FormatErase, fsMap, allocator
    <2>1. j \in 0 .. 2 * NumMegs - 1
      BY <2>0 DEF TypeInv, TypeOK, CallTypeOK, Reserved
    <2>2. /\ j \div 2 \in Meg /\ j % 2 \in {0, 1}
          /\ \A m \in Meg, i \in {0, 1} : 2 * m + i = j => m = j \div 2 /\ i = j % 2
      BY <2>1, SlotNumber
    <2>3. Spoilt(j \div 2, j % 2)
      BY <2>2, BadWriteSpoils DEF TypeInv, TypeOK
    <2>4. /\ DistinctGenerations'
          /\ ~Mountable => ~Mountable'
          /\ \A n \in Meg, i \in {0, 1} :
                Valid(n, i)' => Valid(n, i) /\ (n # j \div 2 \/ i # j % 2)
      BY <2>2, <2>3, SpoiltDistinct
    <2>5. ASSUME NEW m \in Meg, NEW i \in {0, 1}, 2 * m + i \notin todo', Valid(m, i)'
          PROVE  FALSE
      <3>1. Valid(m, i) /\ 2 * m + i # j
        BY <2>2, <2>4, <2>5
      <3>2. 2 * m + i \in todo
        BY <2>0, <3>1 DEF FormatShape
      <3>. QED BY <2>5, <3>1, <3>2
    <2>6. FormatShape'
      BY <2>0, <2>4, <2>5 DEF FormatShape
    <2>. QED BY <2>0, <2>4, <2>6 DEF RequestShape, Generations, ActiveWins, CleanMegs
  <1>12. CASE FormatMap
    <2>0. /\ pc = "format" /\ todo = {} /\ pc' = "sync" /\ UNCHANGED <<slots, map, open>>
          /\ dirty' = Meg /\ todo' = Meg /\ gen' = gen + 1
          /\ req'.sync = "format"
      BY <1>12 DEF FormatMap, persistent, allocator, TypeInv, TypeOK, CallTypeOK
    <2>1. \A m \in Meg, i \in {0, 1} : ~Valid(m, i)
      BY <2>0 DEF FormatShape
    <2>2. \A m \in Meg, i \in {0, 1} : ~Valid(m, i)'
      BY <2>0, <2>1, SlotsFrame
    <2>3. \A m \in Meg, i \in {0, 1} : slots'[m][i].gen = 0
      BY <2>0, <2>1, InvalidGen DEF TypeInv, TypeOK
    <2>4. gen \in Nat
      BY DEF TypeInv, TypeOK, MapTypeOK
    <2>5. Generations'
      BY <2>0, <2>3, <2>4 DEF Generations
    <2>6. ActiveWins' /\ DistinctGenerations'
      BY <2>2 DEF ActiveWins, DistinctGenerations, HasSlot
    <2>7. CleanMegs'
      BY <2>0, Geometry DEF CleanMegs
    <2>8. RequestShape'
      BY <2>0 DEF RequestShape
    <2>9. FormatShape'
      BY <2>0, <2>2 DEF FormatShape, HasSlot
    <2>. QED BY <2>5, <2>6, <2>7, <2>8, <2>9
  <1>13. CASE FinishFormat
    <2>1. DistinctGenerations' /\ ActiveWins' /\ CleanMegs'
      BY <1>13, QuietStep DEF FinishFormat, fsMap, persistent
    <2>2. RequestShape' /\ FormatShape' /\ Generations'
      BY <1>13, SlotsFrame DEF FinishFormat, ForgetCall, NoRequest, fsMap, persistent,
                              RequestShape, FormatShape, Generations
    <2>. QED BY <2>1, <2>2
  <1>14. ASSUME NEW r \in Requests, Write(r[1], r[2]) PROVE Rest
    <2>1. DistinctGenerations' /\ ActiveWins' /\ CleanMegs'
      BY <1>14, QuietStep DEF Write, fsMap, persistent
    <2>2. RequestShape' /\ FormatShape' /\ Generations'
      BY <1>14, SlotsFrame DEF Write, fsMap, persistent, RequestShape, FormatShape, Generations
    <2>. QED BY <2>1, <2>2
  <1>15. CASE Mount
    <2>0. /\ pc' = "idle" /\ Mountable /\ dirty' = {} /\ open' = 0
          /\ UNCHANGED <<slots, req>>
          /\ active' = [m \in Meg |-> Winner(m)]
          /\ map' = [f \in FatSector |-> Persisted(f)]
          /\ pc = "off" \/ pc = "idle"
      BY <1>15 DEF Mount, persistent
    <2>1. DistinctGenerations'
      BY <2>0 DEF DistinctGenerations, Valid
    <2>2. \A m \in Meg, i \in {0, 1} : slots[m][i].gen \in Nat
      BY SlotGenType DEF TypeInv, TypeOK
    <2>3. \A m \in Meg : Winner(m) \in {0, 1} /\ Valid(m, Winner(m))
      BY <2>0 DEF Mountable, HasSlot, Winner
    <2>4. \A m \in Meg, i \in {0, 1} :
            /\ slots[m][i].gen <= slots[m][Winner(m)].gen
            /\ Valid(m, i) /\ i # Winner(m) => slots[m][i].gen < slots[m][Winner(m)].gen
      <3>. TAKE m \in Meg, i \in {0, 1}
      <3>1. CASE Valid(m, i)
        BY <2>2, <2>3, <3>1 DEF Winner, DistinctGenerations
      <3>2. CASE ~Valid(m, i)
        BY <2>2, <2>3, <3>2, InvalidGen DEF TypeInv, TypeOK
      <3>. QED BY <3>1, <3>2
    <2>5. ActiveWins'
      <3>1. \A m \in Meg : Target(m)' = 1 - Winner(m) /\ active'[m] = Winner(m)
        BY <2>0 DEF Target
      <3>. QED BY <2>0, <2>3, <2>4, <3>1, SlotsFrame DEF ActiveWins
    <2>6. CleanMegs'
      BY <2>0, SlotsFrame, Geometry DEF CleanMegs, Mountable
    <2>7. Generations'
      <3>1. \A m \in Meg : slots[m][Winner(m)].gen <= gen' /\ gen' \in Nat
        BY <1>0, <1>15 DEF Mount, NewestGeneration, TypeInv, TypeOK, MapTypeOK
      <3>. QED BY <2>0, <2>2, <2>3, <2>4, <3>1 DEF Generations
    <2>8. RequestShape' /\ FormatShape'
      BY <2>0 DEF RequestShape, FormatShape, NoRequest
    <2>. QED BY <2>1, <2>5, <2>6, <2>7, <2>8
  <1>16. CASE MountFails
    <2>1. UNCHANGED <<slots, req, open>> /\ pc = "off" /\ pc' = "damaged" /\ ~Mountable'
      BY <1>16, SlotsFrame DEF MountFails, persistent, allocator
    <2>. QED BY <2>1 DEF RequestShape, FormatShape, Generations, DistinctGenerations, Valid,
                         ActiveWins, CleanMegs
  <1>17. CASE Format
    <2>1. /\ UNCHANGED <<slots, req, open>> /\ pc = "damaged" /\ pc' = "format" /\ ~Mountable'
          /\ todo' = 0 .. Reserved - 1 /\ \A f \in FatSector : map'[f] = NoEntry
      BY <1>17, SlotsFrame DEF Format, persistent, allocator, FormatShape
    <2>2. \A m \in Meg, i \in {0, 1} : 2 * m + i \in todo'
      BY <2>1, GeometryAssumption DEF Meg, Reserved, GeometryAssumption
    <2>. QED BY <2>1, <2>2 DEF RequestShape, FormatShape, Generations, DistinctGenerations,
                               Valid, ActiveWins, CleanMegs
  <1>18. CASE PowerCut
    <2>0. LosePower
      BY <1>18 DEF PowerCut
    <2>1. DistinctGenerations'
      <3>1. CASE UNCHANGED slots
        BY <3>1 DEF DistinctGenerations, Valid
      <3>2. CASE SpoilSlot /\ pc \in {"sync", "program"}
        <4>1. PICK m \in todo :
                slots' = [slots EXCEPT ![m] = [@ EXCEPT ![Target(m)] = TornSlot]]
          BY <3>2 DEF SpoilSlot
        <4>2. m \in Meg /\ Target(m) \in {0, 1}
          BY <3>2 DEF TypeInv, TypeOK, CallTypeOK, Target, MapTypeOK
        <4>3. Spoilt(m, Target(m))
          BY <4>1, <4>2, BadWriteSpoils DEF TypeInv, TypeOK
        <4>. QED BY <4>2, <4>3, SpoiltDistinct
      <3>3. CASE SpoilSlot /\ pc = "format"
        <4>1. PICK j \in todo :
                slots' = [slots EXCEPT ![j \div 2] = [@ EXCEPT ![j % 2] = TornSlot]]
          BY <3>3 DEF SpoilSlot
        <4>2. j \in 0 .. 2 * NumMegs - 1
          BY <3>3 DEF TypeInv, TypeOK, CallTypeOK, Reserved
        <4>3. j \div 2 \in Meg /\ j % 2 \in {0, 1}
          BY <4>2, SlotNumber
        <4>4. Spoilt(j \div 2, j % 2)
          BY <4>1, <4>3, BadWriteSpoils DEF TypeInv, TypeOK
        <4>. QED BY <4>3, <4>4, SpoiltDistinct
      <3>. QED BY <1>18, <3>1, <3>2, <3>3 DEF PowerCut, SpoilPages, SpoilSlot, persistent
    <2>. QED BY <2>0, <2>1 DEF LosePower, ForgetCall, NoRequest, RequestShape, FormatShape,
                               Generations, ActiveWins, CleanMegs
  <1>19. CASE UNCHANGED vars
    <2>1. UNCHANGED <<slots, map, dirty, active, gen, open, pc, req, todo>>
      BY <1>19 DEF vars, persistent, fsMap, allocator, call
    <2>2. \A m \in Meg : Target(m)' = Target(m)
      BY <2>1 DEF Target
    <2>3. RequestShape'
      BY <2>1 DEF RequestShape
    <2>8. FormatShape'
      BY <2>1 DEF FormatShape, Mountable, HasSlot, Valid
    <2>4. Generations'
      BY <2>1 DEF Generations
    <2>5. DistinctGenerations'
      BY <2>1 DEF DistinctGenerations, Valid
    <2>6. ActiveWins'
      BY <2>1 DEF ActiveWins, HasSlot, Valid, Target
    <2>7. CleanMegs'
      BY <2>1, SlotsFrame, Geometry DEF CleanMegs
    <2>. QED BY <2>3, <2>4, <2>5, <2>6, <2>7, <2>8
  <1>. QED
    BY <1>1, <1>2, <1>3, <1>4, <1>5, <1>6, <1>7, <1>8, <1>9, <1>10, <1>11, <1>12,
       <1>13, <1>14, <1>15, <1>16, <1>17, <1>18, <1>19 DEF Next, Operation

\* The persisted map stays sound: the slots of a meg never tie, a mount would
\* choose the active one, and it agrees with RAM on every meg that is clean.
THEOREM SlotsSound == Spec => []SlotInv
  BY SlotInvInit, SlotInvNext, PTL DEF Spec

\* No step, torn or whole, of a sync, a format or anything else unmounts the
\* volume: a slot is only written while the other one of its meg is valid.
LEMMA MountableStep == SlotInv /\ [Next]_vars => (Mountable => Mountable')
  <1>. SUFFICES ASSUME SlotInv, [Next]_vars, Mountable PROVE Mountable'
    OBVIOUS
  <1>. USE DEF SlotInv
  <1>1. CASE UNCHANGED slots
    BY <1>1, SlotsFrame
  <1>2. CASE EraseSlot \/ ProgramSlot \/ (PowerCut /\ SpoilSlot)
    <2>1. pc # "format"
      BY DEF FormatShape
    <2>2. PICK m \in todo :
            \/ slots' = [slots EXCEPT ![m] = [@ EXCEPT ![Target(m)] = MapImage(m)]]
            \/ slots' = [slots EXCEPT ![m] = [@ EXCEPT ![Target(m)] = BlankSlot]]
            \/ slots' = [slots EXCEPT ![m] = [@ EXCEPT ![Target(m)] = TornSlot]]
      BY <1>2, <2>1 DEF EraseSlot, ProgramSlot, SpoilSlot
    <2>3. pc \in {"sync", "program"}
      BY <1>2, <2>1 DEF EraseSlot, ProgramSlot, SpoilSlot
    <2>4. m \in Meg /\ Target(m) \in {0, 1} /\ Live /\ Syncing
      BY <2>3 DEF TypeInv, TypeOK, CallTypeOK, Target, MapTypeOK, Live, Syncing
    <2>5. CASE slots' = [slots EXCEPT ![m] = [@ EXCEPT ![Target(m)] = MapImage(m)]]
      BY <2>4, <2>5, TargetProgrammed DEF Generations
    <2>6. CASE \/ slots' = [slots EXCEPT ![m] = [@ EXCEPT ![Target(m)] = BlankSlot]]
               \/ slots' = [slots EXCEPT ![m] = [@ EXCEPT ![Target(m)] = TornSlot]]
      <3>1. Spoilt(m, Target(m))
        BY <2>4, <2>6, BadWriteSpoils DEF TypeInv, TypeOK
      <3>. QED BY <2>4, <3>1, TargetSpoilt
    <2>. QED BY <2>2, <2>5, <2>6
  <1>3. CASE FormatErase
    BY <1>3 DEF FormatErase, FormatShape
  <1>4. UNCHANGED slots \/ EraseSlot \/ ProgramSlot \/ (PowerCut /\ SpoilSlot) \/ FormatErase
    <2>1. Operation => UNCHANGED slots \/ EraseSlot \/ ProgramSlot \/ FormatErase
      BY DEF Operation, OpenFreeSector, OpenPartialSector, CopyBack, TakePage, VolumeFull,
             ForceSync, EndSync, ResumeAlloc, FormatMap, FinishFormat, persistent
    <2>2. PowerCut => UNCHANGED slots \/ (PowerCut /\ SpoilSlot)
      BY DEF PowerCut, SpoilPages, persistent
    <2>3. (\E r \in Requests : Write(r[1], r[2])) => UNCHANGED slots
      BY DEF Write, persistent
    <2>4. Sync \/ Mount \/ MountFails \/ Format \/ UNCHANGED vars => UNCHANGED slots
      BY DEF Sync, Mount, MountFails, Format, vars, persistent
    <2>. QED BY <2>1, <2>2, <2>3, <2>4 DEF Next
  <1>. QED BY <1>1, <1>2, <1>3, <1>4

\* A volume that mounts once mounts ever after, whatever the failing
\* programs and wherever power is cut: "never the volume".
THEOREM VolumeSurvivesAll == Spec => VolumeSurvives
  <1>1. SlotInv /\ [Next]_vars => [Mountable => Mountable']_vars
    BY MountableStep
  <1>. QED BY <1>1, SlotsSound, PTL DEF Spec, VolumeSurvives

-----------------------------------------------------------------------------
(***************************************************************************)
(* Why no file ends up with another file's page: what the RAM map, and     *)
(* what the persisted map, points at is kept apart and out of the          *)
(* allocator's reach, as long as no restart falls into the window between  *)
(* a forced sync and the next one.                                         *)
(***************************************************************************)

\* A mount sees the same map before and after the step.
SeenKept == \A f \in FatSector :
                /\ HasSlot(MegOf(f))' <=> HasSlot(MegOf(f))
                /\ HasSlot(MegOf(f)) => Persisted(f)' = Persisted(f)

LEMMA QuietSeen == UNCHANGED slots => SeenKept
  BY SlotsFrame, Geometry DEF SeenKept

LEMMA SpoiltSeen ==
    ASSUME SlotInv, Live, NEW m \in Meg, Spoilt(m, Target(m))
    PROVE  SeenKept
  BY TargetSpoilt, Geometry DEF SlotInv, SeenKept

\* Properties that only speak of the RAM map and the persisted one.
MapsApart == RamApart /\ NoSharedPage /\ NoCrossLink

LEMMA MapsKept ==
    ASSUME MapsApart, Live, SeenKept, map' = map, exposed \subseteq exposed'
    PROVE  MapsApart'
  <1>1. RamApart'
    BY DEF MapsApart, RamApart, SeenKept
  <1>2. NoSharedPage'
    BY DEF MapsApart, NoSharedPage
  <1>3. NoCrossLink'
    BY DEF MapsApart, NoCrossLink, SeenKept
  <1>. QED BY <1>1, <1>2, <1>3 DEF MapsApart

LEMMA PinnedKept ==
    ASSUME PersistedPinned, Live, SeenKept, exposed \subseteq exposed',
           used \cup pending \subseteq used' \cup pending'
    PROVE  PersistedPinned'
  BY DEF PersistedPinned, SeenKept

\* A step of a running call that leaves both maps and both page sets alone.
LEMMA PagesKept ==
    ASSUME SlotInv, PageInv, Live, Live', SeenKept,
           UNCHANGED <<map, used, pending, exposed>>,
           Writing' = Writing, Writing => req'.old = req.old,
           Formatting' = Formatting
    PROVE  /\ DownUnexposed' /\ UsedNotPending' /\ UsedIsMapped'
           /\ PersistedPinned' /\ MapsApart'
  <1>. USE DEF PageInv
  <1>1. MapsApart' /\ PersistedPinned'
    BY MapsKept, PinnedKept DEF MapsApart
  <1>2. DownUnexposed'
    BY DEF DownUnexposed, Down, Live
  <1>3. UsedNotPending'
    BY DEF UsedNotPending, Mounted
  <1>4. UsedIsMapped'
    BY DEF UsedIsMapped, Mounted
  <1>. QED BY <1>1, <1>2, <1>3, <1>4

-----------------------------------------------------------------------------
\* PageInv is inductive.

LEMMA PageInvInit == Init => PageInv
  <1>. SUFFICES ASSUME Init PROVE PageInv
    OBVIOUS
  <1>1. pc = "off" /\ exposed = {} /\ \A f \in FatSector : map[f] = NoEntry
    BY DEF Init
  <1>2. ~Mountable
    BY Geometry DEF Init, Mountable, HasSlot, Valid, BlankSlot
  <1>. QED
    BY <1>1, <1>2 DEF PageInv, DownUnexposed, UsedNotPending, OldPage, OpenUnclaimed, RamApart,
       NoSharedPage, UsedIsMapped, PersistedPinned, NoCrossLink, Mounted, Live, Writing, Syncing

\* What the RAM map points at is held by the bitmaps while a sync runs.
LEMMA MapHeld ==
    ASSUME SlotInv, PageInv, Syncing, NEW f \in FatSector, map[f] # NoEntry
    PROVE  map[f] \in used \cup pending
  <1>1. ~Formatting /\ Mounted
    BY DEF SlotInv, FormatShape, Mounted, Live, Syncing
  <1>2. map[f] \in used \/ (Writing /\ map[f] = req.old)
    BY <1>1 DEF PageInv, UsedIsMapped
  <1>3. Writing /\ req.old # NoEntry => req.old \in pending
    BY DEF PageInv, OldPage, Syncing
  <1>. QED BY <1>2, <1>3

\* Writing the map of a meg.
LEMMA GoodProgram ==
    ASSUME SlotInv, PageInv, pc = "program", pc' = "sync", NEW m \in todo, m \in Meg,
           slots' = [slots EXCEPT ![m] = [@ EXCEPT ![Target(m)] = MapImage(m)]],
           exposed' = exposed \ SectorsOf(m),
           UNCHANGED <<map, allocator, req>>
    PROVE  PageInv'
  <1>. USE DEF Live, Syncing, Formatting, Mounted, Writing, Down
  <1>0. UNCHANGED <<used, pending, open, free>>
    BY DEF allocator
  <1>1. /\ \A f \in SectorsOf(m) : Persisted(f)' = map[f]
        /\ \A n \in Meg \ {m} : (HasSlot(n)' <=> HasSlot(n))
        /\ \A f \in FatSector \ SectorsOf(m) : Persisted(f)' = Persisted(f)
    BY TargetProgrammed DEF SlotInv, Generations
  <1>2. \A f \in FatSector \ exposed' :
            HasSlot(MegOf(f))' =>
                \/ Persisted(f)' = map[f]
                \/ f \notin exposed /\ HasSlot(MegOf(f)) /\ Persisted(f)' = Persisted(f)
    BY <1>1, Geometry DEF SectorsOf
  <1>3. PersistedPinned'
    <2>. SUFFICES ASSUME NEW f \in FatSector \ exposed', HasSlot(MegOf(f))', Persisted(f)' # NoEntry
                  PROVE  Persisted(f)' \in used \cup pending
      BY <1>0 DEF PersistedPinned
    <2>1. CASE Persisted(f)' = map[f]
      BY <2>1, MapHeld
    <2>2. CASE f \notin exposed /\ HasSlot(MegOf(f)) /\ Persisted(f)' = Persisted(f)
      BY <2>2 DEF PageInv, PersistedPinned
    <2>. QED BY <1>2, <2>1, <2>2
  <1>4. RamApart'
    BY <1>2 DEF PageInv, RamApart, NoSharedPage
  <1>5. NoCrossLink'
    <2>. SUFFICES ASSUME NEW f \in FatSector \ exposed', NEW g \in FatSector \ exposed', f # g,
                         HasSlot(MegOf(f))', HasSlot(MegOf(g))', Persisted(f)' = Persisted(g)'
                  PROVE  Persisted(f)' = NoEntry
      BY DEF NoCrossLink
    <2>1. CASE Persisted(f)' = map[f]
      BY <1>2, <2>1 DEF PageInv, RamApart, NoSharedPage
    <2>2. CASE f \notin exposed /\ HasSlot(MegOf(f)) /\ Persisted(f)' = Persisted(f)
      BY <1>2, <2>2 DEF PageInv, RamApart, NoCrossLink
    <2>. QED BY <1>2, <2>1, <2>2
  <1>6. NoSharedPage' /\ DownUnexposed'
    BY DEF PageInv, NoSharedPage, DownUnexposed
  <1>7. UsedNotPending' /\ UsedIsMapped' /\ OpenUnclaimed'
    BY <1>0 DEF PageInv, UsedNotPending, UsedIsMapped, OpenUnclaimed
  <1>8. OldPage'
    BY <1>0 DEF PageInv, OldPage
  <1>. QED BY <1>3, <1>4, <1>5, <1>6, <1>7, <1>8 DEF PageInv

\* A sync that ends gives the quarantined pages back.
LEMMA Released ==
    ASSUME SlotInv, PageInv, pc = "sync", Mounted, Mounted', Writing' = Writing,
           Unquarantine, UNCHANGED <<slots, map, used, open, free>>,
           exposed' = IF Writing /\ dirty = {} /\ req.old # NoEntry
                      THEN exposed \cup {req.fat} ELSE exposed,
           Writing => req' = req /\ req.retry /\ pc' = "alloc"
    PROVE  PageInv'
  <1>. USE DEF Live, Syncing, Mounted, Down
  <1>0. exposed \subseteq exposed' /\ pending' \subseteq pending
    BY DEF Unquarantine
  <1>1. SeenKept
    BY QuietSeen
  <1>2. RamApart' /\ NoSharedPage' /\ NoCrossLink'
    BY <1>0, <1>1, MapsKept DEF MapsApart, PageInv
  <1>3. PersistedPinned'
    <2>1. CASE dirty = {}
      <3>. SUFFICES ASSUME NEW f \in FatSector \ exposed', Persisted(f)' # NoEntry
                    PROVE  Persisted(f)' \in used
        BY DEF PersistedPinned
      <3>1. Persisted(f)' = map[f]
        BY <1>1, <2>1 DEF SlotInv, CleanMegs, SeenKept
      <3>2. map[f] \in used \/ (Writing /\ map[f] = req.old)
        BY DEF PageInv, UsedIsMapped
      <3>3. ASSUME Writing, map[f] = req.old PROVE FALSE
        <4>1. req.old = map[req.fat] /\ req.fat \in FatSector
          BY <3>3 DEF PageInv, OldPage, SlotInv, TypeInv, TypeOK, CallTypeOK
        <4>2. f = req.fat
          BY <3>1, <3>3, <4>1 DEF PageInv, NoSharedPage
        <4>. QED BY <2>1, <3>1, <3>3, <4>2
      <3>. QED BY <3>1, <3>2, <3>3
    <2>2. CASE dirty # {}
      BY <1>0, <1>1, <2>2, PinnedKept DEF PageInv, Unquarantine
    <2>. QED BY <2>1, <2>2
  <1>4. DownUnexposed'
    BY DEF DownUnexposed
  <1>5. UsedNotPending' /\ OpenUnclaimed'
    BY <1>0 DEF PageInv, UsedNotPending, OpenUnclaimed
  <1>6. UsedIsMapped'
    BY DEF PageInv, UsedIsMapped
  <1>7. OldPage'
    BY <1>0 DEF PageInv, OldPage, Unquarantine
  <1>. QED BY <1>2, <1>3, <1>4, <1>5, <1>6, <1>7 DEF PageInv

\* A write gets the next free page of the open sector.
LEMMA PageTaken ==
    ASSUME SlotInv, PageInv, TakePage
    PROVE  PageInv'
  <1>. USE DEF Live, Syncing, Formatting, Mounted, Down, Writing
  <1>. PICK o \in free :
            /\ map' = [map EXCEPT ![req.fat] = <<open, o>>]
            /\ used' = used \cup {<<open, o>>}
            /\ free' = free \ {o}
    BY DEF TakePage
  <1>. DEFINE p == <<open, o>>
  <1>0. /\ pc = "alloc" /\ pc' = "idle" /\ open # 0
        /\ UNCHANGED <<slots, pending, open, exposed>>
    BY DEF TakePage, HasOpenPage
  <1>1. p \in DataPage /\ p \notin used \cup pending
    BY <1>0 DEF PageInv, OpenUnclaimed
  <1>2. req.fat \in FatSector /\ map \in [FatSector -> Entry] /\ req.old = map[req.fat]
    BY <1>0 DEF SlotInv, TypeInv, TypeOK, CallTypeOK, MapTypeOK, PageInv, OldPage
  <1>3. \A f \in FatSector : map'[f] = IF f = req.fat THEN p ELSE map[f]
    BY <1>2
  <1>4. SeenKept
    BY <1>0, QuietSeen
  <1>5. used = ReservedPages \cup ({map[f] : f \in FatSector} \ {req.old})
    BY <1>0 DEF PageInv, UsedIsMapped
  <1>6. NoEntry \in used /\ p # NoEntry
    BY <1>1, <1>5, Geometry
  <1>7. \A f \in FatSector \ {req.fat} : map[f] \in used
    BY <1>2, <1>5, <1>6 DEF PageInv, NoSharedPage
  <1>8. NoSharedPage'
    BY <1>1, <1>3, <1>7 DEF PageInv, NoSharedPage
  <1>9. RamApart'
    <2>. SUFFICES ASSUME NEW f \in FatSector, NEW g \in FatSector \ exposed, f # g,
                         HasSlot(MegOf(g)), map'[f] = Persisted(g), map'[f] # NoEntry
                  PROVE  FALSE
      BY <1>0, <1>4 DEF RamApart, SeenKept
    <2>1. CASE f = req.fat
      BY <1>0, <1>1, <1>3, <2>1 DEF PageInv, PersistedPinned
    <2>2. CASE f # req.fat
      BY <1>0, <1>3, <2>2 DEF PageInv, RamApart
    <2>. QED BY <2>1, <2>2
  <1>10. NoCrossLink' /\ PersistedPinned'
    BY <1>0, <1>4, PinnedKept DEF PageInv, NoCrossLink, SeenKept
  <1>11. UsedIsMapped'
    <2>1. {map'[f] : f \in FatSector} = {p} \cup {map[f] : f \in FatSector \ {req.fat}}
      BY <1>2, <1>3
    <2>2. {map[f] : f \in FatSector} \ {req.old} \subseteq {map[f] : f \in FatSector \ {req.fat}}
      BY <1>2
    <2>3. used' = ReservedPages \cup {map'[f] : f \in FatSector}
      BY <1>5, <1>7, <2>1, <2>2
    <2>. QED BY <1>0, <2>3 DEF UsedIsMapped
  <1>12. UsedNotPending' /\ OpenUnclaimed'
    BY <1>0, <1>1 DEF PageInv, UsedNotPending, OpenUnclaimed
  <1>13. DownUnexposed' /\ OldPage'
    BY <1>0 DEF DownUnexposed, OldPage
  <1>. QED
    BY <1>8, <1>9, <1>10, <1>11, <1>12, <1>13 DEF PageInv

\* The page a write gives up, when it starts, and gets back, when it fails.
LEMMA WriteStarted ==
    ASSUME SlotInv, PageInv, NEW f \in FatSector, NEW d, Write(f, d)
    PROVE  PageInv'
  <1>. USE DEF Live, Syncing, Formatting, Mounted, Down, Writing
  <1>0. /\ pc = "idle" /\ pc' = "alloc" /\ req' = [fat |-> f, data |-> d, old |-> map[f],
                                                  retry |-> FALSE, sync |-> "none"]
        /\ UNCHANGED <<slots, map, open, free, exposed>> /\ Quarantine(map[f])
    BY DEF Write, persistent, fsMap
  <1>1. SeenKept /\ map[f] \in Entry
    BY <1>0, QuietSeen DEF SlotInv, TypeInv, TypeOK, MapTypeOK
  <1>2. used = ReservedPages \cup {map[g] : g \in FatSector}
    BY <1>0 DEF PageInv, UsedIsMapped
  <1>3. /\ used' = IF map[f] = NoEntry THEN used ELSE used \ {map[f]}
        /\ pending' = IF map[f] = NoEntry THEN pending ELSE pending \cup {map[f]}
    BY <1>0 DEF Quarantine
  <1>4. map[f] \in used /\ used' \cup pending' = used \cup pending
    BY <1>2, <1>3
  <1>5. MapsApart' /\ PersistedPinned'
    BY <1>0, <1>1, <1>4, MapsKept, PinnedKept DEF MapsApart, PageInv
  <1>6. UsedNotPending' /\ OpenUnclaimed'
    BY <1>0, <1>3, <1>4 DEF PageInv, UsedNotPending, OpenUnclaimed
  <1>7. UsedIsMapped'
    <2>1. NoEntry \in ReservedPages /\ (map[f] # NoEntry => map[f] \notin ReservedPages)
      BY <1>1, Geometry DEF Entry, DataPage
    <2>2. used' = ReservedPages \cup ({map[g] : g \in FatSector} \ {map[f]})
      BY <1>2, <1>3, <2>1
    <2>. QED BY <1>0, <2>2 DEF UsedIsMapped
  <1>8. OldPage'
    BY <1>0, <1>3 DEF OldPage
  <1>9. DownUnexposed'
    BY <1>0 DEF DownUnexposed
  <1>. QED BY <1>5, <1>6, <1>7, <1>8, <1>9 DEF MapsApart, PageInv

LEMMA WriteFailed ==
    ASSUME SlotInv, PageInv, VolumeFull
    PROVE  PageInv'
  <1>. USE DEF Live, Syncing, Formatting, Mounted, Down, Writing
  <1>0. /\ pc = "alloc" /\ pc' = "idle" /\ (open = 0 \/ free = {})
        /\ UNCHANGED <<slots, map, open, free, exposed>>
    BY DEF VolumeFull, NothingToAllocate, HasOpenPage, persistent, fsMap
  <1>1. SeenKept /\ req.old \in Entry /\ req.fat \in FatSector /\ req.old = map[req.fat]
    BY <1>0, QuietSeen DEF SlotInv, TypeInv, TypeOK, CallTypeOK, PageInv, OldPage
  <1>2. used = ReservedPages \cup ({map[f] : f \in FatSector} \ {req.old})
    BY <1>0 DEF PageInv, UsedIsMapped
  <1>3. /\ used' = IF req.old = NoEntry THEN used ELSE used \cup {req.old}
        /\ pending' = IF req.old = NoEntry THEN pending ELSE pending \ {req.old}
    BY DEF VolumeFull
  <1>4. MapsApart' /\ PersistedPinned'
    BY <1>0, <1>1, <1>3, MapsKept, PinnedKept DEF MapsApart, PageInv
  <1>5. UsedNotPending'
    BY <1>0, <1>3 DEF PageInv, UsedNotPending
  <1>6. UsedIsMapped'
    <2>1. NoEntry \in ReservedPages
      BY Geometry
    <2>2. used' = ReservedPages \cup {map[f] : f \in FatSector}
      BY <1>1, <1>2, <1>3, <2>1
    <2>. QED BY <1>0, <2>2 DEF UsedIsMapped
  <1>7. OpenUnclaimed' /\ OldPage' /\ DownUnexposed'
    BY <1>0 DEF OpenUnclaimed, OldPage, DownUnexposed
  <1>. QED BY <1>4, <1>5, <1>6, <1>7 DEF MapsApart, PageInv

\* The map just mounted is the persisted one.
LEMMA Mounting ==
    ASSUME SlotInv, PageInv, Mount, exposed = {}
    PROVE  PageInv'
  <1>. USE DEF Live, Syncing, Formatting, Mounted, Down, Writing
  <1>0. /\ pc' = "idle" /\ Mountable /\ exposed' = {} /\ UNCHANGED slots
        /\ map' = [f \in FatSector |-> Persisted(f)]
        /\ used' = InitUsed /\ pending' = {} /\ open' = 0
    BY DEF Mount, persistent
  <1>1. SeenKept /\ \A f \in FatSector : HasSlot(MegOf(f)) /\ Persisted(f)' = map'[f]
    BY <1>0, QuietSeen, Geometry DEF Mountable, SeenKept
  <1>2. \A f, g \in FatSector : f # g /\ map'[f] = map'[g] => map'[f] = NoEntry
    BY <1>0, <1>1 DEF PageInv, NoCrossLink
  <1>3. NoSharedPage' /\ RamApart' /\ NoCrossLink'
    BY <1>1, <1>2 DEF NoSharedPage, RamApart, NoCrossLink
  <1>4. used' = ReservedPages \cup {map'[f] : f \in FatSector}
    BY <1>0 DEF InitUsed
  <1>5. UsedIsMapped' /\ PersistedPinned' /\ UsedNotPending'
    BY <1>0, <1>1, <1>4 DEF UsedIsMapped, PersistedPinned, UsedNotPending
  <1>6. OpenUnclaimed' /\ OldPage' /\ DownUnexposed'
    BY <1>0 DEF OpenUnclaimed, OldPage, DownUnexposed
  <1>. QED BY <1>3, <1>5, <1>6 DEF PageInv

\* With the power off, the persisted map is all there is.
LEMMA PoweredOff ==
    ASSUME SlotInv, SlotInv', PageInv, PowerCut, exposed = {}
    PROVE  PageInv'
  <1>. USE DEF Live, Syncing, Mounted, Down, Writing
  <1>0. /\ pc' = "off" /\ exposed' = {}
        /\ \A f \in FatSector : map'[f] = NoEntry
    BY DEF PowerCut, LosePower
  <1>1. Mountable' => SeenKept /\ (Live \/ Mountable)
    <2>1. CASE UNCHANGED slots
      BY <2>1, QuietSeen, SlotsFrame
    <2>2. CASE SpoilSlot /\ pc = "format"
      <3>1. PICK j \in todo :
              slots' = [slots EXCEPT ![j \div 2] = [@ EXCEPT ![j % 2] = TornSlot]]
        BY <2>2 DEF SpoilSlot
      <3>2. j \div 2 \in Meg /\ j % 2 \in {0, 1}
        BY <2>2, SlotNumber DEF SlotInv, TypeInv, TypeOK, CallTypeOK, Reserved
      <3>3. Spoilt(j \div 2, j % 2)
        BY <3>1, <3>2, BadWriteSpoils DEF SlotInv, TypeInv, TypeOK
      <3>. QED BY <2>2, <3>2, <3>3, SpoiltDistinct DEF SlotInv, FormatShape
    <2>3. CASE SpoilSlot /\ pc \in {"sync", "program"}
      <3>1. PICK m \in todo :
              slots' = [slots EXCEPT ![m] = [@ EXCEPT ![Target(m)] = TornSlot]]
        BY <2>3 DEF SpoilSlot
      <3>2. m \in Meg /\ Target(m) \in {0, 1}
        BY <2>3 DEF SlotInv, TypeInv, TypeOK, CallTypeOK, Target, MapTypeOK
      <3>3. Spoilt(m, Target(m))
        BY <3>1, <3>2, BadWriteSpoils DEF SlotInv, TypeInv, TypeOK
      <3>. QED BY <2>3, <3>2, <3>3, SpoiltSeen
    <2>. QED BY <2>1, <2>2, <2>3 DEF PowerCut, SpoilPages, SpoilSlot, persistent
  <1>2. NoCrossLink'
    BY <1>0, <1>1 DEF PageInv, NoCrossLink, SeenKept
  <1>. QED
    BY <1>0, <1>2 DEF PageInv, DownUnexposed, UsedNotPending, OldPage, OpenUnclaimed, RamApart,
       NoSharedPage, UsedIsMapped, PersistedPinned

\* The window between a forced sync and the next one is closed when a
\* restart comes.
LEMMA PageInvNext ==
    ASSUME "exposed" \notin CutWindows, SlotInv, PageInv, [Next]_vars
    PROVE  PageInv'
  <1>0. SlotInv'
    BY SlotInvNext
  <1>. USE DEF Live, Syncing, Formatting, Mounted, Down, Writing
  <1>1. CASE OpenFreeSector
    <2>0. /\ pc = "alloc" /\ pc' = "alloc"
          /\ UNCHANGED <<slots, map, used, pending, exposed, req>>
      BY <1>1 DEF OpenFreeSector, fsMap, call
    <2>1. DownUnexposed' /\ UsedNotPending' /\ UsedIsMapped' /\ PersistedPinned' /\ MapsApart'
      BY <2>0, QuietSeen, PagesKept
    <2>2. OldPage'
      BY <2>0 DEF PageInv, OldPage
    <2>3. OpenUnclaimed'
      <3>1. PICK s \in FreeSectors : open' = s /\ free' = Offset
        BY <1>1 DEF OpenFreeSector
      <3>2. PagesOf(s) \subseteq DataPage
        BY <2>0, PartialIsData, DataSector DEF SlotInv, TypeInv, ReservedUsed
      <3>. QED BY <2>0, <3>1, <3>2 DEF OpenUnclaimed, FreeSectors, Occupied, PagesOf
    <2>. QED BY <2>1, <2>2, <2>3 DEF PageInv, MapsApart
  <1>2. CASE OpenPartialSector
    <2>0. /\ pc = "alloc" /\ pc' = "copy"
          /\ UNCHANGED <<slots, map, used, pending, exposed, req>>
      BY <1>2 DEF OpenPartialSector, fsMap
    <2>1. DownUnexposed' /\ UsedNotPending' /\ UsedIsMapped' /\ PersistedPinned' /\ MapsApart'
      BY <2>0, QuietSeen, PagesKept
    <2>2. OldPage'
      BY <2>0 DEF PageInv, OldPage
    <2>3. OpenUnclaimed'
      <3>1. PICK s \in PartialSectors : open' = s /\ free' = Offset \ Occupied(s)
        BY <1>2 DEF OpenPartialSector
      <3>2. PagesOf(s) \subseteq DataPage
        BY <2>0, PartialIsData, DataSector DEF SlotInv, TypeInv, ReservedUsed
      <3>. QED BY <2>0, <3>1, <3>2 DEF OpenUnclaimed, Occupied, PagesOf
    <2>. QED BY <2>1, <2>2, <2>3 DEF PageInv, MapsApart
  <1>3. CASE CopyBack
    <2>0. /\ pc = "copy" /\ pc' \in {"alloc", "copy"}
          /\ UNCHANGED <<slots, map, used, pending, open, free, exposed, req>>
      BY <1>3 DEF CopyBack, fsMap, allocator
    <2>1. DownUnexposed' /\ UsedNotPending' /\ UsedIsMapped' /\ PersistedPinned' /\ MapsApart'
      BY <2>0, QuietSeen, PagesKept
    <2>2. OldPage' /\ OpenUnclaimed'
      BY <2>0 DEF PageInv, OldPage, OpenUnclaimed
    <2>. QED BY <2>1, <2>2 DEF PageInv, MapsApart
  <1>4. CASE TakePage
    BY <1>4, PageTaken
  <1>5. CASE VolumeFull
    BY <1>5, WriteFailed
  <1>6. ASSUME Sync \/ ForceSync PROVE PageInv'
    <2>0. /\ UNCHANGED <<slots, map, used, pending, open, free, exposed>>
          /\ pc' = "sync" /\ req'.old = req.old /\ req'.fat = req.fat
          /\ \/ pc = "idle" /\ req'.sync = "api"
             \/ pc = "alloc" /\ ~req.retry /\ req'.sync = "alloc"
      BY <1>6 DEF Sync, ForceSync, BeginSync, persistent, allocator,
                  SlotInv, TypeInv, TypeOK, CallTypeOK
    <2>1. DownUnexposed' /\ UsedNotPending' /\ UsedIsMapped' /\ PersistedPinned' /\ MapsApart'
      BY <2>0, QuietSeen, PagesKept
    <2>2. OldPage' /\ OpenUnclaimed'
      BY <2>0 DEF PageInv, OldPage, OpenUnclaimed
    <2>. QED BY <2>1, <2>2 DEF PageInv, MapsApart
  <1>7. ASSUME Syncing, NEW m \in Meg, Spoilt(m, Target(m)), pc' \in {"sync", "program"},
               UNCHANGED <<map, allocator, req, exposed>>
        PROVE  PageInv'
    <2>0. UNCHANGED <<used, pending, open, free>>
      BY <1>7 DEF allocator
    <2>1. DownUnexposed' /\ UsedNotPending' /\ UsedIsMapped' /\ PersistedPinned' /\ MapsApart'
      BY <1>7, <2>0, SpoiltSeen, PagesKept
    <2>2. OldPage' /\ OpenUnclaimed'
      BY <1>7, <2>0 DEF PageInv, OldPage, OpenUnclaimed
    <2>. QED BY <2>1, <2>2 DEF PageInv, MapsApart
  <1>8. CASE EraseSlot
    <2>1. PICK m \in todo :
            slots' = [slots EXCEPT ![m] = [@ EXCEPT ![Target(m)] = BlankSlot]]
      BY <1>8 DEF EraseSlot
    <2>2. m \in Meg /\ Target(m) \in {0, 1}
      BY <1>8 DEF EraseSlot, SlotInv, TypeInv, TypeOK, CallTypeOK, MapTypeOK, Target
    <2>3. Spoilt(m, Target(m))
      BY <2>1, <2>2, BadWriteSpoils DEF SlotInv, TypeInv, TypeOK
    <2>. QED BY <1>7, <1>8, <2>2, <2>3 DEF EraseSlot, fsMap
  <1>9. CASE ProgramSlot
    <2>1. PICK m \in todo :
            \/ /\ slots' = [slots EXCEPT ![m] = [@ EXCEPT ![Target(m)] = MapImage(m)]]
               /\ exposed' = exposed \ SectorsOf(m)
            \/ /\ slots' = [slots EXCEPT ![m] = [@ EXCEPT ![Target(m)] = TornSlot]]
               /\ UNCHANGED exposed
      BY <1>9 DEF ProgramSlot
    <2>2. m \in Meg /\ Target(m) \in {0, 1}
      BY <1>9 DEF ProgramSlot, SlotInv, TypeInv, TypeOK, CallTypeOK, MapTypeOK, Target
    <2>3. CASE /\ slots' = [slots EXCEPT ![m] = [@ EXCEPT ![Target(m)] = MapImage(m)]]
               /\ exposed' = exposed \ SectorsOf(m)
      BY <1>9, <2>2, <2>3, GoodProgram DEF ProgramSlot
    <2>4. CASE /\ slots' = [slots EXCEPT ![m] = [@ EXCEPT ![Target(m)] = TornSlot]]
               /\ UNCHANGED exposed
      <3>1. Spoilt(m, Target(m))
        BY <2>2, <2>4, BadWriteSpoils DEF SlotInv, TypeInv, TypeOK
      <3>. QED BY <1>7, <1>9, <2>2, <2>4, <3>1 DEF ProgramSlot
    <2>. QED BY <2>1, <2>3, <2>4
  <1>10. CASE EndSync
    BY <1>10, Released DEF EndSync, persistent, fsMap
  <1>11. CASE ResumeAlloc
    <2>1. req.retry
      BY <1>11 DEF ResumeAlloc, SlotInv, RequestShape
    <2>. QED BY <1>11, <2>1, Released DEF ResumeAlloc, persistent, fsMap
  <1>12. CASE FormatErase \/ MountFails \/ Format
    <2>0. /\ pc' \in {"format", "damaged"} /\ exposed' = {}
          /\ map' = map \/ \A f \in FatSector : map'[f] = NoEntry
      BY <1>12 DEF FormatErase, MountFails, Format, fsMap, PageInv, DownUnexposed
    <2>1. ~Mountable'
      BY <1>0, <2>0 DEF SlotInv, FormatShape
    <2>. QED BY <2>0, <2>1 DEF PageInv, DownUnexposed, UsedNotPending, OldPage, OpenUnclaimed,
                               RamApart, NoSharedPage, UsedIsMapped, PersistedPinned, NoCrossLink
  <1>13. CASE FormatMap
    <2>0. /\ pc' = "sync" /\ req'.sync = "format" /\ dirty' = Meg /\ UNCHANGED map
      BY <1>13 DEF FormatMap, SlotInv, TypeInv, TypeOK, CallTypeOK
    <2>1. \A f \in FatSector : ~HasSlot(MegOf(f))'
      BY <1>0, <2>0, Geometry DEF SlotInv, FormatShape
    <2>. QED BY <2>0, <2>1 DEF PageInv, DownUnexposed, UsedNotPending, OldPage, OpenUnclaimed,
                               RamApart, NoSharedPage, UsedIsMapped, PersistedPinned, NoCrossLink
  <1>14. CASE FinishFormat
    <2>0. /\ pc = "sync" /\ req.sync = "format" /\ pc' = "idle"
          /\ UNCHANGED <<slots, map, exposed>>
          /\ used' = ReservedPages /\ pending' = {} /\ open' = 0
      BY <1>14 DEF FinishFormat, persistent, fsMap
    <2>1. SeenKept /\ \A f \in FatSector : map[f] = NoEntry
      BY <2>0, QuietSeen DEF SlotInv, FormatShape
    <2>2. MapsApart'
      BY <2>0, <2>1, MapsKept DEF MapsApart, PageInv
    <2>3. PersistedPinned'
      BY <2>0, <2>1 DEF PersistedPinned, SeenKept, SlotInv, FormatShape, CleanMegs
    <2>4. UsedIsMapped'
      BY <2>0, <2>1, Geometry DEF UsedIsMapped
    <2>5. DownUnexposed' /\ UsedNotPending' /\ OldPage' /\ OpenUnclaimed'
      BY <2>0 DEF DownUnexposed, UsedNotPending, OldPage, OpenUnclaimed
    <2>. QED BY <2>2, <2>3, <2>4, <2>5 DEF MapsApart, PageInv
  <1>15. ASSUME NEW r \in Requests, Write(r[1], r[2]) PROVE PageInv'
    BY <1>15, WriteStarted, InputAssumption DEF InputAssumption
  <1>16. CASE Mount
    BY <1>16, Mounting DEF Mount, Restartable, PageInv, DownUnexposed
  <1>17. CASE PowerCut
    BY <1>0, <1>17, PoweredOff DEF PowerCut, Restartable
  <1>18. CASE UNCHANGED vars
    <2>0. UNCHANGED <<slots, map, used, pending, open, free, pc, req, exposed>>
      BY <1>18 DEF vars, persistent, fsMap, allocator, call
    <2>1. SeenKept /\ (Mountable' <=> Mountable)
      BY <2>0, QuietSeen, SlotsFrame
    <2>2. RamApart' /\ PersistedPinned' /\ NoCrossLink'
      BY <2>0, <2>1 DEF PageInv, RamApart, PersistedPinned, NoCrossLink, SeenKept
    <2>3. DownUnexposed' /\ UsedNotPending' /\ OldPage' /\ OpenUnclaimed' /\ NoSharedPage'
      BY <2>0 DEF PageInv, DownUnexposed, UsedNotPending, OldPage, OpenUnclaimed, NoSharedPage
    <2>4. UsedIsMapped'
      BY <2>0 DEF PageInv, UsedIsMapped
    <2>. QED BY <2>2, <2>3, <2>4 DEF PageInv
  <1>. QED
    BY <1>1, <1>2, <1>3, <1>4, <1>5, <1>6, <1>8, <1>9, <1>10, <1>11, <1>12, <1>13, <1>14,
       <1>15, <1>16, <1>17, <1>18 DEF Next, Operation

-----------------------------------------------------------------------------
\* What keeps files apart, and old versions within reach, at every moment ...
THEOREM MapSound == "exposed" \notin CutWindows => (Spec => []MapInv)
  <1>. SUFFICES ASSUME "exposed" \notin CutWindows PROVE Spec => []MapInv
    OBVIOUS
  <1>1. Init => MapInv
    BY SlotInvInit, PageInvInit DEF MapInv
  <1>2. MapInv /\ [Next]_vars => MapInv'
    BY SlotInvNext, PageInvNext DEF MapInv
  <1>. QED BY <1>1, <1>2, PTL DEF Spec

\* ... hence no write to one file changes another, ...
THEOREM FilesApart == "exposed" \notin CutWindows => (Spec => []NoSharedPage)
  <1>1. MapInv => NoSharedPage
    BY DEF MapInv, PageInv
  <1>. QED BY <1>1, MapSound, PTL

\* ... the allocator never takes what the persisted map still needs, ...
THEOREM QuarantineHolds == "exposed" \notin CutWindows => (Spec => []PersistedPinned)
  <1>1. MapInv => PersistedPinned
    BY DEF MapInv, PageInv
  <1>. QED BY <1>1, MapSound, PTL

\* ... a mount never finds two FAT sectors on one page, ...
THEOREM MountsApart == "exposed" \notin CutWindows => (Spec => []NoCrossLink)
  <1>1. MapInv => NoCrossLink
    BY DEF MapInv, PageInv
  <1>. QED BY <1>1, MapSound, PTL

\* ... and no page leaks: what is marked used is what the map needs.
THEOREM NothingLeaks == "exposed" \notin CutWindows => (Spec => []UsedIsMapped)
  <1>1. MapInv => UsedIsMapped
    BY DEF MapInv, PageInv
  <1>. QED BY <1>1, MapSound, PTL

\* In one: what the allocator hands out, what is marked used and what the maps
\* need stay apart, for every geometry and every program that fails.
THEOREM PagesStayApart == "exposed" \notin CutWindows => (Spec => []PagesApart)
  <1>1. MapInv => PagesApart
    BY DEF MapInv, PageInv, PagesApart
  <1>. QED BY <1>1, MapSound, PTL

-----------------------------------------------------------------------------
(***************************************************************************)
(* What is in the pages: none is programmed twice, none is missing while   *)
(* the volume can still be written, and what a sector reads as is what was *)
(* written to it.                                                          *)
(***************************************************************************)

\* The free pages of the write sector are erased, and so are those a copy-back
\* has still to program.
FreeErased == open # 0 => \A o \in free : flash[<<open, o>>] = Erased
CopyErased == pc = "copy" =>
    /\ open # 0 /\ todo \cap free = {}
    /\ \A o \in todo : flash[<<open, o>>] = Erased
ErasedInv == FreeErased /\ CopyErased

LEMMA OpenPages ==
    ASSUME TypeInv, open # 0
    PROVE  \A o \in Offset : <<open, o>> \in DataPage
  BY DataSector DEF TypeInv, OpenIsData, TypeOK, AllocatorTypeOK, PagesOf

\* The page reserved for the map slots is never looked for.
LEMMA EligibleIsData ==
    ASSUME TypeInv, pc = "alloc"
    PROVE  /\ FreeSectors \subseteq PartialSectors
           /\ \A s \in PartialSectors : s # 0 /\ PagesOf(s) \subseteq DataPage
  BY PartialIsData, DataSector
     DEF TypeInv, ReservedUsed, Mounted, Live, Formatting, Syncing

LEMMA ErasedInvInit == Init => ErasedInv
  BY DEF Init, ErasedInv, FreeErased, CopyErased

LEMMA ErasedInvNext ==
    ASSUME TypeInv, ErasedInv, [Next]_vars
    PROVE  ErasedInv'
  <1>. USE DEF ErasedInv, FreeErased, CopyErased
  <1>1. CASE UNCHANGED flash /\ pc' # "copy" /\ (open' = 0 \/ UNCHANGED <<open, free>>)
    BY <1>1
  <1>2. CASE OpenFreeSector
    <2>1. PICK s \in FreeSectors : /\ flash' = Fill(PagesOf(s), Erased)
                                   /\ open' = s /\ free' = Offset
      BY <1>2 DEF OpenFreeSector
    <2>2. PagesOf(s) \subseteq DataPage /\ pc' = "alloc"
      BY <1>2, <2>1, EligibleIsData DEF OpenFreeSector, call
    <2>. QED BY <2>1, <2>2 DEF Fill, PagesOf
  <1>3. CASE OpenPartialSector
    <2>1. PICK s \in PartialSectors : /\ flash' = Fill(PagesOf(s), Erased)
                                      /\ open' = s /\ free' = Offset \ Occupied(s)
                                      /\ todo' = Occupied(s)
      BY <1>3 DEF OpenPartialSector
    <2>2. PagesOf(s) \subseteq DataPage /\ s # 0
      BY <1>3, <2>1, EligibleIsData DEF OpenPartialSector
    <2>3. \A o \in Offset : flash'[<<s, o>>] = Erased
      BY <2>1, <2>2 DEF Fill, PagesOf
    <2>. QED BY <2>1, <2>2, <2>3 DEF Occupied
  <1>4. CASE CopyBack
    <2>1. PICK o \in todo : /\ flash' = Fill({<<open, o>>}, scratch[o])
                            /\ todo' = todo \ {o}
      BY <1>4 DEF CopyBack
    <2>2. pc = "copy" /\ UNCHANGED <<open, free>> /\ open # 0 /\ todo \cap free = {}
      BY <1>4 DEF CopyBack, allocator
    <2>3. free \subseteq Offset /\ todo \subseteq Offset /\ \A x \in Offset : <<open, x>> \in DataPage
      BY <2>2, OpenPages DEF TypeInv, TypeOK, AllocatorTypeOK, CallTypeOK
    <2>4. \A x \in Offset \ {o} : flash'[<<open, x>>] = flash[<<open, x>>]
      BY <2>1, <2>3 DEF Fill
    <2>. QED BY <2>1, <2>2, <2>3, <2>4
  <1>5. CASE TakePage
    <2>1. PICK o \in free, c \in {req.data, Junk} : flash' = Fill({<<open, o>>}, c) /\ free' = free \ {o}
      BY <1>5 DEF TakePage
    <2>2. pc' = "idle" /\ UNCHANGED open /\ open # 0
      BY <1>5 DEF TakePage, HasOpenPage
    <2>3. free \subseteq Offset /\ \A x \in Offset : <<open, x>> \in DataPage
      BY <2>2, OpenPages DEF TypeInv, TypeOK, AllocatorTypeOK
    <2>4. \A x \in Offset \ {o} : flash'[<<open, x>>] = flash[<<open, x>>]
      BY <2>1, <2>3 DEF Fill
    <2>. QED BY <2>1, <2>2, <2>3, <2>4
  <1>6. CASE VolumeFull \/ ForceSync \/ EraseSlot \/ ProgramSlot \/ EndSync \/ ResumeAlloc
             \/ FormatErase \/ FormatMap \/ FinishFormat \/ Sync \/ Mount \/ MountFails \/ Format
             \/ \E r \in Requests : Write(r[1], r[2])
    BY <1>1, <1>6 DEF VolumeFull, ForceSync, BeginSync, EraseSlot, ProgramSlot, EndSync, ResumeAlloc,
       FormatErase, FormatMap, FinishFormat, Sync, Mount, MountFails, Format, Write,
       persistent, allocator
  <1>7. CASE PowerCut
    BY <1>7 DEF PowerCut, LosePower
  <1>8. CASE UNCHANGED vars
    BY <1>8 DEF vars, persistent, allocator, call
  <1>. QED
    BY <1>2, <1>3, <1>4, <1>5, <1>6, <1>7, <1>8 DEF Next, Operation

\* NOR flash clears bits and sets none: a page that gets data was erased before,
\* by the allocation of its sector, through failing programs, copies, power cuts
\* and remounts.  (A sector of nothing but 0xFF is as good as erased: it is no
\* member of Data here.)
THEOREM PagesProgrammedOnce ==
    ASSUME Erased \notin Data, Junk \notin Data
    PROVE  Spec => NoOverprogram
  <1>1. TypeInv /\ ErasedInv /\ [Next]_vars =>
          [\A p \in DataPage : flash'[p] # flash[p] /\ flash'[p] \in Data => flash[p] = Erased]_vars
    <2>. SUFFICES ASSUME TypeInv, ErasedInv, [Next]_vars, NEW p \in DataPage,
                         flash'[p] # flash[p], flash'[p] \in Data
                  PROVE  flash[p] = Erased
      OBVIOUS
    <2>1. flash' # flash
      OBVIOUS
    <2>2. ASSUME NEW pages, NEW c \in {Erased, Junk}, flash' = Fill(pages, c) PROVE FALSE
      BY <2>2 DEF Fill
    <2>3. CASE CopyBack
      <3>1. PICK o \in todo : flash' = Fill({<<open, o>>}, scratch[o])
        BY <2>3 DEF CopyBack
      <3>2. p = <<open, o>>
        BY <3>1 DEF Fill
      <3>. QED BY <2>3, <3>2 DEF CopyBack, ErasedInv, CopyErased
    <2>4. CASE TakePage
      <3>1. PICK o \in free, c \in {req.data, Junk} : flash' = Fill({<<open, o>>}, c)
        BY <2>4 DEF TakePage
      <3>2. p = <<open, o>>
        BY <3>1 DEF Fill
      <3>. QED BY <2>4, <3>2 DEF TakePage, HasOpenPage, ErasedInv, FreeErased
    <2>5. ~(OpenFreeSector \/ OpenPartialSector)
      BY <2>2 DEF OpenFreeSector, OpenPartialSector
    <2>6. ~PowerCut
      BY <2>1, <2>2 DEF PowerCut, SpoilPages, SpoilSlot, persistent
    <2>7. ~(VolumeFull \/ ForceSync \/ EraseSlot \/ ProgramSlot \/ EndSync \/ ResumeAlloc
            \/ FormatErase \/ FormatMap \/ FinishFormat \/ Sync \/ Mount \/ MountFails \/ Format
            \/ \E r \in Requests : Write(r[1], r[2]))
      BY <2>1 DEF VolumeFull, ForceSync, EraseSlot, ProgramSlot, EndSync, ResumeAlloc,
         FormatErase, FormatMap, FinishFormat, Sync, Mount, MountFails, Format, Write, persistent
    <2>8. ~UNCHANGED vars
      BY <2>1 DEF vars, persistent
    <2>. QED BY <2>3, <2>4, <2>5, <2>6, <2>7, <2>8 DEF Next, Operation
  <1>2. Init => TypeInv /\ ErasedInv
    BY TypeInvInit, ErasedInvInit
  <1>3. TypeInv /\ ErasedInv /\ [Next]_vars => TypeInv' /\ ErasedInv'
    BY TypeInvNext, ErasedInvNext
  <1>. QED BY <1>1, <1>2, <1>3, PTL DEF Spec, NoOverprogram

-----------------------------------------------------------------------------
\* There is a page for every FAT sector.

LEMMA AsManyPages ==
    /\ IsFiniteSet(DataPage) /\ Cardinality(DataPage) = NumFatSectors
    /\ IsFiniteSet(FatSector) /\ Cardinality(FatSector) = NumFatSectors
    /\ NumFatSectors \in Nat
  <1>. DEFINE datasectors == Reserved .. NumFlashSectors - 1
              n == NumFlashSectors - Reserved
  <1>1. /\ NumFlashSectors \in Nat /\ Reserved \in Nat /\ Reserved < NumFlashSectors
        /\ PagesPerSector \in Nat /\ PagesPerSector > 0
    BY Geometry, GeometryAssumption DEF GeometryAssumption
  <1>2. IsFiniteSet(datasectors) /\ Cardinality(datasectors) = n
    <2>1. Reserved \in Int /\ NumFlashSectors - 1 \in Int /\ ~(Reserved > NumFlashSectors - 1)
      BY <1>1
    <2>2. NumFlashSectors - 1 - Reserved + 1 = n
      BY <1>1
    <2>. QED BY <2>1, <2>2, FS_Interval
  <1>3. IsFiniteSet(Offset) /\ Cardinality(Offset) = PagesPerSector
    <2>1. 0 \in Int /\ PagesPerSector - 1 \in Int /\ ~(0 > PagesPerSector - 1)
      BY <1>1
    <2>2. PagesPerSector - 1 - 0 + 1 = PagesPerSector
      BY <1>1
    <2>. QED BY <2>1, <2>2, FS_Interval DEF Offset
  <1>4. DataPage = datasectors \X Offset
    BY <1>1 DEF DataPage, Page, ReservedPages, Sector
  <1>5. IsFiniteSet(DataPage) /\ Cardinality(DataPage) = n * PagesPerSector
    BY <1>2, <1>3, <1>4, FS_Product
  <1>6. n \in Nat /\ n > 0
    BY <1>1
  <1>7. NumFatSectors = n * PagesPerSector /\ NumFatSectors \in Nat /\ NumFatSectors > 0
    BY <1>1, <1>6, PositiveProduct DEF NumFatSectors
  <1>8. IsFiniteSet(FatSector) /\ Cardinality(FatSector) = NumFatSectors
    <2>1. 0 \in Int /\ NumFatSectors - 1 \in Int /\ ~(0 > NumFatSectors - 1)
      BY <1>7
    <2>2. NumFatSectors - 1 - 0 + 1 = NumFatSectors
      BY <1>7
    <2>. QED BY <2>1, <2>2, FS_Interval DEF FatSector
  <1>. QED BY <1>5, <1>7, <1>8

\* A FAT sector that has no page leaves one for it to take.
LEMMA OneIsLeft ==
    ASSUME NEW f \in FatSector, map[f] \notin DataPage
    PROVE  \E p \in DataPage : \A g \in FatSector : map[g] # p
  <1>. SUFFICES ASSUME \A p \in DataPage : \E g \in FatSector : map[g] = p
                PROVE  FALSE
    OBVIOUS
  <1>. DEFINE holder == [p \in DataPage |-> CHOOSE g \in FatSector : map[g] = p]
              others == FatSector \ {f}
  <1>1. \A p \in DataPage : holder[p] \in others /\ map[holder[p]] = p
    OBVIOUS
  <1>2. holder \in [DataPage -> others]
    BY <1>1
  <1>3. IsFiniteSet(others) /\ Cardinality(others) = NumFatSectors - 1
    BY AsManyPages, FS_RemoveElement
  <1>4. Cardinality(others) < Cardinality(DataPage)
    BY <1>3, AsManyPages
  <1>5. \E x, y \in DataPage : x # y /\ holder[x] = holder[y]
    <2>. HIDE DEF holder, others
    <2>. QED BY <1>2, <1>3, <1>4, AsManyPages, FS_PigeonHole
  <1>. QED BY <1>1, <1>5

\* After the sync an allocation forced, nothing is quarantined unless that sync
\* could not be completed.
RetriedReleased ==
    pc \in {"alloc", "copy"} /\ req.retry /\ dirty = {} => pending = {}

LEMMA RetriedReleasedNext ==
    ASSUME RetriedReleased, TypeInv, [Next]_vars
    PROVE  RetriedReleased'
  <1>1. CASE pc' \notin {"alloc", "copy"}
    BY <1>1 DEF RetriedReleased
  <1>2. CASE OpenFreeSector \/ OpenPartialSector \/ CopyBack
    BY <1>2 DEF RetriedReleased, OpenFreeSector, OpenPartialSector, CopyBack, fsMap, allocator, call
  <1>3. CASE ResumeAlloc
    BY <1>3 DEF RetriedReleased, ResumeAlloc, Unquarantine, fsMap
  <1>4. ASSUME NEW r \in Requests, Write(r[1], r[2]) PROVE RetriedReleased'
    BY <1>4 DEF RetriedReleased, Write
  <1>5. CASE UNCHANGED vars
    BY <1>5 DEF RetriedReleased, vars, fsMap, allocator, call
  <1>6. TakePage \/ VolumeFull \/ ForceSync \/ EraseSlot \/ ProgramSlot \/ EndSync
          \/ FormatErase \/ FormatMap \/ FinishFormat \/ Sync \/ Mount \/ MountFails \/ Format
          \/ PowerCut => pc' \notin {"alloc", "copy"}
    BY DEF TakePage, VolumeFull, ForceSync, BeginSync, EraseSlot, ProgramSlot, EndSync, call,
       FormatErase, FormatMap, FinishFormat, Sync, Mount, MountFails, Format, PowerCut, LosePower
  <1>. QED
    BY <1>1, <1>2, <1>3, <1>4, <1>5, <1>6 DEF Next, Operation

\* A volume holds as many FAT sectors as it advertises: however the pages are
\* scattered, a write finds one, unless a map program failed before it (a meg
\* that stays dirty keeps the quarantine shut).
THEOREM NeverFull == "exposed" \notin CutWindows => (Spec => []NeverFullWhenHealthy)
  <1>. SUFFICES ASSUME "exposed" \notin CutWindows PROVE Spec => []NeverFullWhenHealthy
    OBVIOUS
  <1>1. Init => RetriedReleased
    BY DEF Init, RetriedReleased
  <1>2. MapInv /\ RetriedReleased => NeverFullWhenHealthy
    <2>. SUFFICES ASSUME MapInv, RetriedReleased, pc = "alloc", NothingToAllocate, dirty = {}
                  PROVE  FALSE
      BY DEF NeverFullWhenHealthy
    <2>1. pending = {}
      BY DEF NothingToAllocate, RetriedReleased
    <2>2. Page \subseteq used
      BY <2>1 DEF NothingToAllocate, PartialSectors, Occupied, Page
    <2>3. used = ReservedPages \cup ({map[g] : g \in FatSector} \ {req.old})
      BY DEF MapInv, PageInv, UsedIsMapped, Mounted, Live, Formatting, Syncing, Writing
    <2>4. \A p \in DataPage : p # req.old /\ \E g \in FatSector : map[g] = p
      BY <2>2, <2>3 DEF DataPage
    <2>5. req.fat \in FatSector /\ map[req.fat] = req.old
      BY DEF MapInv, PageInv, OldPage, Writing, SlotInv, TypeInv, TypeOK, CallTypeOK
    <2>. QED BY <2>4, <2>5, OneIsLeft
  <1>3. MapInv /\ RetriedReleased /\ [Next]_vars => RetriedReleased'
    BY RetriedReleasedNext DEF MapInv, SlotInv
  <1>. QED BY <1>1, <1>2, <1>3, MapSound, PTL DEF Spec

-----------------------------------------------------------------------------
\* What a sector reads as, and what a mount would find there: the steps of the
\* flash code as steps of SectorStore.

\* Where the content behind a map entry is: in its page or, while the sector of
\* that page is being copied, in the buffer.
Value(e) == IF pc = "copy" /\ e[1] = open /\ e[2] \in todo THEN scratch[e[2]] ELSE Read(e)

\* The entries the bitmaps hold out of the allocator's reach.
Held(e) == e \in Entry /\ (e = NoEntry \/ e \in used \cup pending)

\* Only what was asked for is written.
RequestKnown == Writing => <<req.fat, req.data>> \in Requests

LEMMA VisibleValue ==
    ASSUME NEW f \in FatSector, Live, ~GivenUp(f)
    PROVE  Visible(f) = Value(map[f])
  BY DEF Visible, Value

LEMMA DurableValue ==
    ASSUME NEW f \in FatSector
    PROVE  DurableCopy(f) = IF f \in exposed THEN AtRisk
                            ELSE IF HasSlot(MegOf(f)) THEN Value(Persisted(f)) ELSE Zero
  BY DEF DurableCopy, Durable, Value

LEMMA MapIsHeld ==
    ASSUME MapInv, Mounted, NEW f \in FatSector, ~GivenUp(f)
    PROVE  Held(map[f])
  <1>1. map[f] \in Entry
    BY DEF MapInv, SlotInv, TypeInv, TypeOK, MapTypeOK
  <1>2. used = ReservedPages \cup ({map[g] : g \in FatSector} \ (IF Writing THEN {req.old} ELSE {}))
    BY DEF MapInv, PageInv, UsedIsMapped
  <1>3. CASE Writing /\ map[f] = req.old /\ req.old # NoEntry
    <2>1. req.fat \in FatSector /\ map[req.fat] = req.old
      BY <1>3 DEF MapInv, PageInv, OldPage, SlotInv, TypeInv, TypeOK, CallTypeOK
    <2>2. f = req.fat
      BY <1>3, <2>1 DEF MapInv, PageInv, NoSharedPage
    <2>3. req.old \in pending
      BY <1>3, <2>2 DEF MapInv, PageInv, OldPage, GivenUp
    <2>. QED BY <1>1, <1>3, <2>3 DEF Held
  <1>. QED BY <1>1, <1>2, <1>3 DEF Held

LEMMA PersistedIsHeld ==
    ASSUME MapInv, Live, NEW f \in FatSector \ exposed, HasSlot(MegOf(f))
    PROVE  Held(Persisted(f))
  <1>1. Persisted(f) \in Entry
    BY PersistedType DEF MapInv, SlotInv, TypeInv, TypeOK
  <1>. QED BY <1>1 DEF Held, MapInv, PageInv, PersistedPinned

\* No flash operation touches what is behind an entry that is held.
LEMMA ValuesKept ==
    ASSUME MapInv, ErasedInv, OpenFreeSector \/ OpenPartialSector \/ CopyBack \/ TakePage,
           NEW e, Held(e)
    PROVE  Value(e)' = Value(e)
  <1>. USE DEF Held
  <1>0. e = NoEntry \/ (e \in DataPage /\ e \in used \cup pending)
    BY DEF Entry
  <1>1. CASE OpenFreeSector
    <2>1. PICK s \in FreeSectors : flash' = Fill(PagesOf(s), Erased)
      BY <1>1 DEF OpenFreeSector
    <2>2. pc = "alloc" /\ pc' = "alloc"
      BY <1>1 DEF OpenFreeSector, call
    <2>3. e \in DataPage /\ e \in used \cup pending => e \notin PagesOf(s)
      BY DEF FreeSectors, Occupied, PagesOf
    <2>. QED BY <1>0, <2>1, <2>2, <2>3 DEF Value, Read, Fill
  <1>2. CASE OpenPartialSector
    <2>1. PICK s \in PartialSectors : /\ flash' = Fill(PagesOf(s), Erased)
                                      /\ scratch' = [o \in Offset |-> flash[<<s, o>>]]
                                      /\ open' = s /\ todo' = Occupied(s)
      BY <1>2 DEF OpenPartialSector
    <2>2. pc = "alloc" /\ pc' = "copy"
      BY <1>2 DEF OpenPartialSector
    <2>3. s # 0
      BY <2>2, EligibleIsData DEF MapInv, SlotInv
    <2>4. CASE e = NoEntry
      BY <2>1, <2>2, <2>3, <2>4 DEF Value, Read, NoEntry
    <2>5. CASE e \in DataPage /\ e \in used \cup pending
      <3>1. e = <<e[1], e[2]>> /\ e[2] \in Offset
        BY <2>5 DEF DataPage, Page
      <3>2. CASE e[1] = s
        <4>1. e[2] \in Occupied(s)
          BY <2>5, <3>1, <3>2 DEF Occupied
        <4>2. e # NoEntry
          BY <2>5, Geometry
        <4>. QED BY <2>1, <2>2, <3>1, <3>2, <4>1, <4>2 DEF Value, Read
      <3>3. CASE e[1] # s
        BY <2>1, <2>2, <2>5, <3>1, <3>3 DEF Value, Read, Fill, PagesOf
      <3>. QED BY <3>2, <3>3
    <2>. QED BY <1>0, <2>4, <2>5
  <1>3. CASE CopyBack
    <2>1. PICK o \in todo : /\ flash' = Fill({<<open, o>>}, scratch[o])
                            /\ todo' = todo \ {o}
      BY <1>3 DEF CopyBack
    <2>2. /\ pc = "copy" /\ open' = open /\ open # 0
          /\ (pc' = "copy" /\ scratch' = scratch) \/ (pc' = "alloc" /\ todo' = {})
      BY <1>3 DEF CopyBack, allocator, ErasedInv, CopyErased
    <2>3. CASE e = NoEntry
      BY <2>1, <2>2, <2>3 DEF Value, Read, NoEntry
    <2>4. CASE e \in DataPage
      <3>1. e = <<e[1], e[2]>> /\ e # NoEntry
        BY <2>4, Geometry DEF DataPage, Page
      <3>2. CASE e = <<open, o>>
        <4>1. Value(e) = scratch[o]
          BY <2>2, <3>2 DEF Value
        <4>2. flash'[e] = scratch[o]
          BY <2>1, <2>4, <3>2 DEF Fill
        <4>3. Value(e)' = flash'[e]
          BY <2>1, <2>2, <3>1, <3>2 DEF Value, Read
        <4>. QED BY <4>1, <4>2, <4>3
      <3>3. CASE e # <<open, o>>
        <4>1. flash'[e] = flash[e]
          BY <2>1, <2>4, <3>3 DEF Fill
        <4>2. e[1] = open => (e[2] \in todo' <=> e[2] \in todo)
          BY <2>1, <3>1, <3>3
        <4>. QED BY <2>2, <3>1, <4>1, <4>2 DEF Value, Read
      <3>. QED BY <3>2, <3>3
    <2>. QED BY <1>0, <2>3, <2>4
  <1>4. CASE TakePage
    <2>1. PICK o \in free, c \in {req.data, Junk} : flash' = Fill({<<open, o>>}, c)
      BY <1>4 DEF TakePage
    <2>2. pc = "alloc" /\ pc' = "idle" /\ open # 0
      BY <1>4 DEF TakePage, HasOpenPage
    <2>3. <<open, o>> \notin used \cup pending
      BY <2>2 DEF MapInv, PageInv, OpenUnclaimed, Mounted, Live, Formatting, Syncing
    <2>. QED BY <1>0, <2>1, <2>2, <2>3 DEF Value, Read, Fill
  <1>. QED BY <1>1, <1>2, <1>3, <1>4

LEMMA ValueNext ==
    ASSUME NEW f \in FatSector, NEW e
    PROVE  /\ Live' /\ ~GivenUp(f)' /\ map'[f] = e => Visible(f)' = Value(e)'
           /\ f \in exposed' => DurableCopy(f)' = AtRisk
           /\ f \notin exposed' /\ HasSlot(MegOf(f))' /\ Persisted(f)' = e => DurableCopy(f)' = Value(e)'
           /\ f \notin exposed' /\ ~HasSlot(MegOf(f))' => DurableCopy(f)' = Zero
           /\ ~Live' => Visible(f)' = Durable(f)'
           /\ pc' # "copy" => Durable(f)' = DurableCopy(f)'
  <1>. USE DEF DurableCopy, Durable, Value
  <1>1. Live' /\ ~GivenUp(f)' /\ map'[f] = e => Visible(f)' = Value(e)'
    BY DEF Visible
  <1>2. f \in exposed' => DurableCopy(f)' = AtRisk
    OBVIOUS
  <1>3. f \notin exposed' /\ HasSlot(MegOf(f))' /\ Persisted(f)' = e => DurableCopy(f)' = Value(e)'
    OBVIOUS
  <1>4. f \notin exposed' /\ ~HasSlot(MegOf(f))' => DurableCopy(f)' = Zero
    OBVIOUS
  <1>5. ~Live' => Visible(f)' = Durable(f)'
    BY DEF Visible
  <1>6. pc' # "copy" => Durable(f)' = DurableCopy(f)'
    OBVIOUS
  <1>. QED BY <1>1, <1>2, <1>3, <1>4, <1>5, <1>6

\* Before the step: with the power off, what is seen is what is durable.
LEMMA DownVisible ==
    ASSUME NEW f \in FatSector, ~Live
    PROVE  Visible(f) = DurableCopy(f)
  BY DEF Visible, DurableCopy, Durable, Live

\* The steps of the store, by what they do to a sector.
SameDurable == \A f \in FatSector : DurableCopy(f)' = DurableCopy(f)
SameVisible == \A f \in FatSector : Visible(f)' = Visible(f)
SameStore == SameDurable /\ SameVisible
Stored(f, d) == /\ Visible(f)' = d \/ ("page" \in BadPrograms /\ Visible(f)' = Junk)
                /\ \A g \in FatSector \ {f} : Visible(g)' = Visible(g)
                /\ SameDurable
MegSynced(m) == /\ \A f \in FatSector :
                      DurableCopy(f)' = IF MegOf(f) = m THEN Visible(f) ELSE DurableCopy(f)
                /\ SameVisible
Exposing(f) == /\ Visible(f)' = AtRisk /\ DurableCopy(f)' = AtRisk
               /\ \A g \in FatSector \ {f} :
                      Visible(g)' = Visible(g) /\ DurableCopy(g)' = DurableCopy(g)
Restarted == SameDurable /\ \A f \in FatSector : Visible(f)' = DurableCopy(f)
Wiped == \A f \in FatSector : /\ Visible(f)' = DurableCopy(f)'
                              /\ Live' => Visible(f)' = Zero

\* A mount finds everything where it was.
LEMMA DurableKept ==
    ASSUME MapInv, SeenKept, UNCHANGED exposed,
           \A e : (\E f \in FatSector \ exposed : HasSlot(MegOf(f)) /\ Persisted(f) = e) =>
               Value(e)' = Value(e)
    PROVE  SameDurable
  <1>. SUFFICES ASSUME NEW f \in FatSector PROVE DurableCopy(f)' = DurableCopy(f)
    BY DEF SameDurable
  <1>1. PICK e : e = Persisted(f)
    OBVIOUS
  <1>2. HasSlot(MegOf(f)) => Persisted(f)' = e
    BY <1>1 DEF SeenKept
  <1>3. (HasSlot(MegOf(f))' <=> HasSlot(MegOf(f))) /\ exposed' = exposed
    BY DEF SeenKept
  <1>4. f \notin exposed /\ HasSlot(MegOf(f)) => Value(e)' = Value(e)
    BY <1>1
  <1>. QED BY <1>1, <1>2, <1>3, <1>4, DurableValue, ValueNext

\* A step of a running call that moves no map entry.
LEMMA StoreKept ==
    ASSUME MapInv, Live, Live', SeenKept, UNCHANGED <<map, exposed>>,
           \A f \in FatSector : GivenUp(f)' <=> GivenUp(f),
           \/ Mounted /\ \A e : Held(e) => Value(e)' = Value(e)
           \/ \A e : Value(e)' = Value(e)
    PROVE  SameStore
  <1>1. \A e : (\E f \in FatSector \ exposed : HasSlot(MegOf(f)) /\ Persisted(f) = e) =>
            Value(e)' = Value(e)
    BY PersistedIsHeld
  <1>2. SameDurable
    BY <1>1, DurableKept
  <1>3. ASSUME NEW f \in FatSector PROVE Visible(f)' = Visible(f)
    <2>1. CASE GivenUp(f)
      BY <2>1 DEF Visible
    <2>2. CASE ~GivenUp(f)
      <3>1. PICK e : e = map[f]
        OBVIOUS
      <3>2. Value(e)' = Value(e)
        BY <2>2, <3>1, MapIsHeld
      <3>3. ~GivenUp(f)' /\ map'[f] = e
        BY <2>2, <3>1
      <3>. QED BY <2>2, <3>1, <3>2, <3>3, VisibleValue, ValueNext
    <2>. QED BY <2>1, <2>2
  <1>. QED BY <1>2, <1>3 DEF SameStore, SameVisible

LEMMA QuietValues ==
    ASSUME pc # "copy", pc' # "copy", UNCHANGED flash
    PROVE  \A e : Value(e)' = Value(e)
  BY DEF Value, Read

StoreStep ==
    \/ SameStore /\ (Mountable' <=> Mountable) /\ (Live' => Live)
    \/ \E r \in Requests : Stored(r[1], r[2]) /\ (Mountable' <=> Mountable) /\ Live
    \/ \E m \in Meg : MegSynced(m) /\ (Mountable => Mountable') /\ Live
    \/ \E f \in FatSector : Exposing(f) /\ (Mountable' <=> Mountable) /\ Live
    \/ Restarted /\ (Mountable' <=> Mountable) /\ (Live' => Mountable)
    \/ Wiped /\ ~Mountable /\ ~Mountable'

LEMMA AllocatingStep ==
    ASSUME MapInv, ErasedInv, OpenFreeSector \/ OpenPartialSector \/ CopyBack
    PROVE  StoreStep
  <1>1. /\ pc \in {"alloc", "copy"} /\ pc' \in {"alloc", "copy"}
        /\ UNCHANGED <<slots, map, exposed, req, pending>>
    BY DEF OpenFreeSector, OpenPartialSector, CopyBack, fsMap, allocator, call
  <1>2. Live /\ Live' /\ Mounted
    BY <1>1 DEF Live, Mounted, Formatting, Syncing
  <1>3. SeenKept /\ (Mountable' <=> Mountable)
    BY <1>1, QuietSeen, SlotsFrame
  <1>4. \A f \in FatSector : GivenUp(f)' <=> GivenUp(f)
    BY <1>1 DEF GivenUp
  <1>5. \A e : Held(e) => Value(e)' = Value(e)
    BY ValuesKept
  <1>6. SameStore
    BY <1>1, <1>2, <1>3, <1>4, <1>5, StoreKept
  <1>. QED BY <1>2, <1>3, <1>6 DEF StoreStep

LEMMA PageStored ==
    ASSUME MapInv, ErasedInv, RequestKnown, TakePage
    PROVE  StoreStep
  <1>. PICK o \in free, c \in {req.data, Junk} :
            /\ c = req.data \/ (c = Junk /\ "page" \in BadPrograms)
            /\ flash' = Fill({<<open, o>>}, c)
            /\ map' = [map EXCEPT ![req.fat] = <<open, o>>]
    BY DEF TakePage
  <1>1. /\ pc = "alloc" /\ pc' = "idle" /\ open # 0
        /\ UNCHANGED <<slots, exposed>>
    BY DEF TakePage, HasOpenPage
  <1>2. Live /\ Live' /\ Mounted /\ Writing
    BY <1>1 DEF Live, Mounted, Formatting, Syncing, Writing
  <1>3. SeenKept /\ (Mountable' <=> Mountable)
    BY <1>1, QuietSeen, SlotsFrame
  <1>4. req.fat \in FatSector /\ map \in [FatSector -> Entry] /\ req.old = map[req.fat]
    BY <1>2 DEF MapInv, SlotInv, TypeInv, TypeOK, CallTypeOK, MapTypeOK, PageInv, OldPage
  <1>5. \A e : Held(e) => Value(e)' = Value(e)
    BY ValuesKept
  <1>6. SameDurable
    <2>1. \A e : (\E f \in FatSector \ exposed : HasSlot(MegOf(f)) /\ Persisted(f) = e) =>
              Value(e)' = Value(e)
      BY <1>2, <1>5, PersistedIsHeld
    <2>. QED BY <1>1, <1>3, <2>1, DurableKept
  <1>7. ASSUME NEW g \in FatSector \ {req.fat} PROVE Visible(g)' = Visible(g)
    <2>1. PICK e : e = map[g]
      OBVIOUS
    <2>2. ~GivenUp(g) /\ ~GivenUp(g)' /\ map'[g] = e
      BY <1>1, <1>4, <2>1 DEF GivenUp
    <2>3. Value(e)' = Value(e)
      BY <1>2, <1>5, <2>1, <2>2, MapIsHeld
    <2>. QED BY <1>2, <2>1, <2>2, <2>3, VisibleValue, ValueNext
  <1>9. PICK f \in FatSector : f = req.fat
    BY <1>4
  <1>10. Visible(f)' = c
    <2>1. PICK e : e = <<open, o>>
      OBVIOUS
    <2>2. e \in DataPage /\ e # NoEntry
      BY <1>1, <1>2, <2>1, Geometry DEF MapInv, PageInv, OpenUnclaimed
    <2>3. ~GivenUp(f)' /\ map'[f] = e
      BY <1>1, <1>4, <1>9, <2>1 DEF GivenUp
    <2>4. Value(e)' = c
      BY <1>1, <2>1, <2>2 DEF Value, Read, Fill
    <2>. QED BY <1>2, <2>3, <2>4, ValueNext
  <1>11. PICK d : d = req.data
    OBVIOUS
  <1>12. PICK r \in Requests : r[1] = f /\ r[2] = d
    BY <1>2, <1>9, <1>11 DEF RequestKnown
  <1>13. Stored(f, d)
    BY <1>6, <1>7, <1>9, <1>10, <1>11 DEF Stored
  <1>. QED BY <1>2, <1>3, <1>12, <1>13 DEF StoreStep

\* A write that finds the volume full still has its old page.
LEMMA FullKeepsOld ==
    ASSUME MapInv, pc = "alloc", NothingToAllocate, req.old # NoEntry
    PROVE  req.old \in pending
  <1>1. req.old \in DataPage
    BY DEF MapInv, SlotInv, TypeInv, TypeOK, CallTypeOK, Entry
  <1>2. Page \subseteq used \cup pending
    BY DEF NothingToAllocate, PartialSectors, Occupied, Page
  <1>3. req.old \notin used
    BY <1>1 DEF MapInv, PageInv, UsedIsMapped, Mounted, Live, Formatting, Syncing, Writing, DataPage
  <1>. QED BY <1>1, <1>2, <1>3 DEF DataPage

LEMMA CallingStep ==
    ASSUME MapInv,
           Sync \/ ForceSync \/ EndSync \/ FinishFormat \/ VolumeFull
             \/ \E r \in Requests : Write(r[1], r[2])
    PROVE  StoreStep
  <1>1. /\ pc \in {"idle", "alloc", "sync"} /\ pc' \in {"idle", "alloc", "sync"}
        /\ UNCHANGED <<flash, slots, map, exposed>>
    BY DEF Sync, ForceSync, BeginSync, EndSync, FinishFormat, VolumeFull, Write, persistent, fsMap
  <1>2. Live /\ Live'
    BY <1>1 DEF Live
  <1>3. SeenKept /\ (Mountable' <=> Mountable)
    BY <1>1, QuietSeen, SlotsFrame
  <1>4. \A e : Value(e)' = Value(e)
    BY <1>1, QuietValues
  <1>5. \A f \in FatSector : ~GivenUp(f)
    <2>1. CASE pc # "alloc"
      BY <1>1, <2>1 DEF GivenUp
    <2>2. CASE ForceSync
      BY <2>2 DEF ForceSync, GivenUp, MapInv, PageInv, OldPage, Writing
    <2>3. CASE VolumeFull
      BY <2>3, FullKeepsOld DEF VolumeFull, GivenUp
    <2>4. pc = "alloc" => ForceSync \/ VolumeFull
      BY DEF Sync, EndSync, FinishFormat, Write
    <2>. QED BY <2>1, <2>2, <2>3, <2>4
  <1>6. \A f \in FatSector : ~GivenUp(f)'
    <2>1. CASE pc' # "alloc"
      BY <1>1, <2>1 DEF GivenUp
    <2>2. ASSUME NEW r \in Requests, Write(r[1], r[2]) PROVE \A f \in FatSector : ~GivenUp(f)'
      BY <2>2 DEF Write, Quarantine, GivenUp
    <2>3. pc' = "alloc" => \E r \in Requests : Write(r[1], r[2])
      BY DEF Sync, ForceSync, BeginSync, EndSync, FinishFormat, VolumeFull
    <2>. QED BY <2>1, <2>2, <2>3
  <1>7. SameStore
    BY <1>1, <1>2, <1>3, <1>4, <1>5, <1>6, StoreKept
  <1>. QED BY <1>2, <1>3, <1>7 DEF StoreStep

LEMMA SpoiltStored ==
    ASSUME MapInv, Syncing, NEW m \in Meg, Spoilt(m, Target(m)), pc' \in {"sync", "program"},
           UNCHANGED <<flash, map, exposed>>
    PROVE  StoreStep
  <1>1. Live /\ Live' /\ pc # "copy" /\ pc' # "copy"
    BY DEF Live, Syncing
  <1>2. SeenKept /\ (Mountable' <=> Mountable)
    BY <1>1, SpoiltSeen, TargetSpoilt DEF MapInv, SlotInv
  <1>3. \A e : Value(e)' = Value(e)
    BY <1>1, QuietValues
  <1>4. \A f \in FatSector : ~GivenUp(f) /\ ~GivenUp(f)'
    BY DEF GivenUp, Syncing
  <1>5. SameStore
    BY <1>1, <1>2, <1>3, <1>4, StoreKept
  <1>. QED BY <1>1, <1>2, <1>5 DEF StoreStep

LEMMA MegStored ==
    ASSUME MapInv, pc = "program", pc' = "sync", NEW m \in Meg, m \in todo,
           slots' = [slots EXCEPT ![m] = [@ EXCEPT ![Target(m)] = MapImage(m)]],
           exposed' = exposed \ SectorsOf(m), UNCHANGED <<flash, map>>
    PROVE  StoreStep
  <1>0. Live /\ Live' /\ Syncing
    BY DEF Live, Syncing
  <1>1. /\ HasSlot(m)'
        /\ \A f \in SectorsOf(m) : Persisted(f)' = map[f]
        /\ \A n \in Meg \ {m} : (HasSlot(n)' <=> HasSlot(n))
        /\ \A f \in FatSector \ SectorsOf(m) : Persisted(f)' = Persisted(f)
        /\ Mountable => Mountable'
    BY <1>0, TargetProgrammed DEF MapInv, SlotInv, Generations
  <1>2. \A e : Value(e)' = Value(e)
    BY QuietValues
  <1>3. \A f \in FatSector : ~GivenUp(f) /\ ~GivenUp(f)'
    BY DEF GivenUp
  <1>4. ASSUME NEW f \in FatSector
        PROVE  /\ Visible(f)' = Visible(f)
               /\ DurableCopy(f)' = IF MegOf(f) = m THEN Visible(f) ELSE DurableCopy(f)
    <2>1. PICK e : e = map[f]
      OBVIOUS
    <2>2. Visible(f) = Value(e) /\ Visible(f)' = Value(e)'
      BY <1>0, <1>3, <2>1, VisibleValue, ValueNext
    <2>3. CASE MegOf(f) = m
      <3>1. f \in SectorsOf(m) /\ f \notin exposed'
        BY <2>3 DEF SectorsOf
      <3>2. HasSlot(MegOf(f))' /\ Persisted(f)' = e
        BY <1>1, <2>1, <2>3, <3>1
      <3>. QED BY <1>2, <2>2, <2>3, <3>1, <3>2, ValueNext
    <2>4. CASE MegOf(f) # m
      <3>1. f \notin SectorsOf(m) /\ MegOf(f) \in Meg
        BY <2>4, Geometry DEF SectorsOf
      <3>2. (f \in exposed' <=> f \in exposed) /\ (HasSlot(MegOf(f))' <=> HasSlot(MegOf(f)))
        BY <1>1, <2>4, <3>1
      <3>3. PICK d : d = Persisted(f)
        OBVIOUS
      <3>4. Persisted(f)' = d
        BY <1>1, <3>1, <3>3
      <3>5. DurableCopy(f)' = DurableCopy(f)
        BY <1>2, <3>2, <3>3, <3>4, DurableValue, ValueNext
      <3>. QED BY <1>2, <2>2, <2>4, <3>5
    <2>. QED BY <2>3, <2>4
  <1>5. MegSynced(m)
    BY <1>4 DEF MegSynced, SameVisible
  <1>. QED BY <1>0, <1>1, <1>5 DEF StoreStep

LEMMA ResumingStep ==
    ASSUME MapInv, ResumeAlloc
    PROVE  StoreStep
  <1>0. /\ pc = "sync" /\ pc' = "alloc" /\ UNCHANGED <<flash, slots, map, req>>
        /\ pending' = IF dirty = {} THEN {} ELSE pending
        /\ exposed' = IF dirty = {} /\ req.old # NoEntry THEN exposed \cup {req.fat} ELSE exposed
        /\ req.sync = "alloc"
    BY DEF ResumeAlloc, Unquarantine, persistent, fsMap
  <1>1. Live /\ Live' /\ Writing /\ req.fat \in FatSector
    BY <1>0 DEF Live, Writing, Syncing, MapInv, SlotInv, TypeInv, TypeOK, CallTypeOK
  <1>2. SeenKept /\ (Mountable' <=> Mountable)
    BY <1>0, QuietSeen, SlotsFrame
  <1>3. \A e : Value(e)' = Value(e)
    BY <1>0, QuietValues
  <1>4. \A f \in FatSector : ~GivenUp(f)
    BY <1>0 DEF GivenUp
  <1>5. req.old # NoEntry => req.old \in pending
    BY <1>0, <1>1 DEF MapInv, PageInv, OldPage
  <1>6. CASE dirty = {} /\ req.old # NoEntry
    <2>1. PICK f \in FatSector : f = req.fat
      BY <1>1
    <2>2. GivenUp(f)' /\ f \in exposed'
      BY <1>0, <1>6, <2>1 DEF GivenUp
    <2>3. Visible(f)' = AtRisk /\ DurableCopy(f)' = AtRisk
      <3>1. Visible(f)' = AtRisk
        BY <1>1, <2>2 DEF Visible
      <3>. QED BY <2>2, <3>1, ValueNext
    <2>4. ASSUME NEW g \in FatSector \ {f}
          PROVE  Visible(g)' = Visible(g) /\ DurableCopy(g)' = DurableCopy(g)
      <3>1. PICK e, d : e = map[g] /\ d = Persisted(g)
        OBVIOUS
      <3>2. ~GivenUp(g)' /\ map'[g] = e
        BY <1>0, <2>1, <3>1 DEF GivenUp
      <3>3. Visible(g)' = Visible(g)
        BY <1>1, <1>3, <1>4, <3>1, <3>2, VisibleValue, ValueNext
      <3>4. (g \in exposed' <=> g \in exposed) /\ (HasSlot(MegOf(g))' <=> HasSlot(MegOf(g)))
        BY <1>0, <1>2, <2>1 DEF SeenKept
      <3>5. HasSlot(MegOf(g)) => Persisted(g)' = d
        BY <1>2, <3>1 DEF SeenKept
      <3>6. DurableCopy(g)' = DurableCopy(g)
        BY <1>3, <3>1, <3>4, <3>5, DurableValue, ValueNext
      <3>. QED BY <3>3, <3>6
    <2>5. Exposing(f)
      BY <2>3, <2>4 DEF Exposing
    <2>. QED BY <1>1, <1>2, <2>5 DEF StoreStep
  <1>7. CASE ~(dirty = {} /\ req.old # NoEntry)
    <2>1. \A f \in FatSector : ~GivenUp(f)'
      BY <1>0, <1>5, <1>7 DEF GivenUp
    <2>2. SameStore
      BY <1>0, <1>1, <1>2, <1>3, <1>4, <1>7, <2>1, StoreKept
    <2>. QED BY <1>1, <1>2, <2>2 DEF StoreStep
  <1>. QED BY <1>6, <1>7

LEMMA FormattingStep ==
    ASSUME MapInv, MapInv', FormatErase \/ FormatMap \/ MountFails \/ Format
    PROVE  StoreStep
  <1>0. ~Live /\ exposed = {} /\ exposed' = {} /\ pc # "copy" /\ pc' # "copy"
    BY DEF FormatErase, FormatMap, MountFails, Format, Live, Down, MapInv, PageInv, DownUnexposed
  <1>1. CASE FormatErase
    <2>1. ~Mountable /\ ~Mountable'
      BY <1>1 DEF FormatErase, MapInv, SlotInv, FormatShape
    <2>2. ~Live'
      BY <1>1 DEF FormatErase, Live
    <2>3. Wiped
      BY <1>0, <2>2, ValueNext DEF Wiped
    <2>. QED BY <2>1, <2>3 DEF StoreStep
  <1>2. CASE FormatMap
    <2>1. pc = "format" /\ pc' = "sync" /\ req'.sync = "format" /\ dirty' = Meg /\ map' = map
      BY <1>2 DEF FormatMap, MapInv, SlotInv, TypeInv, TypeOK, CallTypeOK
    <2>2. Live' /\ \A f \in FatSector : ~GivenUp(f)' /\ map'[f] = NoEntry
      BY <2>1 DEF Live, GivenUp, MapInv, SlotInv, FormatShape, Formatting
    <2>3. \A m \in Meg : ~HasSlot(m)'
      BY <2>1 DEF MapInv, SlotInv, FormatShape, Syncing
    <2>4. ~Mountable /\ ~Mountable'
      BY <2>1, <2>3, Geometry DEF MapInv, SlotInv, FormatShape, Mountable
    <2>5. Value(NoEntry)' = Zero
      BY <2>1 DEF Value, Read
    <2>6. ASSUME NEW f \in FatSector PROVE Visible(f)' = Zero /\ DurableCopy(f)' = Zero
      <3>1. ~HasSlot(MegOf(f))' /\ f \notin exposed'
        BY <1>0, <2>3, Geometry
      <3>. QED BY <2>2, <2>5, <3>1, ValueNext
    <2>7. Wiped
      BY <2>6 DEF Wiped
    <2>. QED BY <2>4, <2>7 DEF StoreStep
  <1>3. CASE MountFails \/ Format
    <2>1. ~Live' /\ UNCHANGED <<flash, slots>>
      BY <1>3 DEF MountFails, Format, Live, persistent
    <2>2. SeenKept /\ (Mountable' <=> Mountable)
      BY <2>1, QuietSeen, SlotsFrame
    <2>3. SameDurable
      BY <1>0, <2>1, <2>2, QuietValues, DurableKept
    <2>4. SameVisible
      BY <1>0, <2>1, <2>3, DownVisible, ValueNext DEF SameDurable, SameVisible
    <2>. QED BY <2>1, <2>2, <2>3, <2>4 DEF StoreStep, SameStore
  <1>. QED BY <1>1, <1>2, <1>3

LEMMA MountingStep ==
    ASSUME "exposed" \notin CutWindows, MapInv, Mount
    PROVE  StoreStep
  <1>0. /\ exposed = {} /\ exposed' = {} /\ pc # "copy" /\ pc' = "idle" /\ Mountable
        /\ UNCHANGED <<flash, slots>> /\ map' = [f \in FatSector |-> Persisted(f)]
    BY DEF Mount, Restartable, MapInv, PageInv, DownUnexposed, Down, persistent
  <1>1. SeenKept /\ (Mountable' <=> Mountable)
    BY <1>0, QuietSeen, SlotsFrame
  <1>2. SameDurable
    BY <1>0, <1>1, QuietValues, DurableKept
  <1>3. ASSUME NEW f \in FatSector PROVE Visible(f)' = DurableCopy(f)'
    <2>1. PICK e : e = Persisted(f)
      OBVIOUS
    <2>2. HasSlot(MegOf(f))' /\ Persisted(f)' = e /\ map'[f] = e /\ f \notin exposed'
      BY <1>0, <1>1, <2>1, Geometry DEF SeenKept, Mountable
    <2>3. Live' /\ ~GivenUp(f)'
      BY <1>0 DEF Live, GivenUp
    <2>. QED BY <2>2, <2>3, ValueNext
  <1>. QED BY <1>0, <1>1, <1>2, <1>3 DEF StoreStep, Restarted, SameDurable

\* A restart keeps what is durable: the page that power fails on is one nobody
\* needs, and the slot it fails on is not the one a mount chooses.
LEMMA CuttingStep ==
    ASSUME "copy" \notin CutWindows, "exposed" \notin CutWindows, MapInv, MapInv', PowerCut
    PROVE  StoreStep
  <1>0. /\ exposed = {} /\ exposed' = {} /\ pc' = "off" /\ ~Live' /\ pc # "copy" /\ pc' # "copy"
    BY DEF PowerCut, LosePower, Restartable, Live
  <1>1. \A f \in FatSector : Visible(f)' = DurableCopy(f)'
    BY <1>0, ValueNext
  <1>2. CASE SpoilSlot /\ pc = "format"
    <2>1. PICK j \in todo : slots' = [slots EXCEPT ![j \div 2] = [@ EXCEPT ![j % 2] = TornSlot]]
      BY <1>2 DEF SpoilSlot
    <2>2. j \div 2 \in Meg /\ j % 2 \in {0, 1}
      BY <1>2, SlotNumber DEF MapInv, SlotInv, TypeInv, TypeOK, CallTypeOK, Reserved
    <2>3. Spoilt(j \div 2, j % 2)
      BY <2>1, <2>2, BadWriteSpoils DEF MapInv, SlotInv, TypeInv, TypeOK
    <2>4. ~Mountable /\ ~Mountable'
      BY <1>2, <2>2, <2>3, SpoiltDistinct DEF MapInv, SlotInv, FormatShape
    <2>. QED BY <1>0, <1>1, <2>4 DEF StoreStep, Wiped
  <1>3. CASE ~(SpoilSlot /\ pc = "format")
    <2>1. SeenKept /\ (Mountable' <=> Mountable)
      <3>1. CASE UNCHANGED slots
        BY <3>1, QuietSeen, SlotsFrame
      <3>2. CASE SpoilSlot /\ pc \in {"sync", "program"}
        <4>1. PICK m \in todo : slots' = [slots EXCEPT ![m] = [@ EXCEPT ![Target(m)] = TornSlot]]
          BY <3>2 DEF SpoilSlot
        <4>2. m \in Meg /\ Target(m) \in {0, 1} /\ Live
          BY <3>2 DEF MapInv, SlotInv, TypeInv, TypeOK, CallTypeOK, MapTypeOK, Target, Live
        <4>3. Spoilt(m, Target(m))
          BY <4>1, <4>2, BadWriteSpoils DEF MapInv, SlotInv, TypeInv, TypeOK
        <4>. QED BY <4>2, <4>3, SpoiltSeen, TargetSpoilt DEF MapInv, SlotInv
      <3>. QED BY <1>3, <3>1, <3>2 DEF PowerCut, SpoilPages, SpoilSlot, persistent
    <2>2. \/ UNCHANGED flash
          \/ pc = "alloc" /\ \E s \in FreeSectors : flash' = Fill(PagesOf(s), Junk)
          \/ pc = "alloc" /\ HasOpenPage /\ \E o \in free : flash' = Fill({<<open, o>>}, Junk)
      <3>1. NextErased # {} => pc = "alloc" /\ NextErased \subseteq FreeSectors
        BY DEF NextErased
      <3>2. NextProgrammed # {} => pc = "alloc" /\ HasOpenPage /\ NextProgrammed = free
        BY <1>0 DEF NextProgrammed
      <3>3. ASSUME SpoilPages
            PROVE  \/ \E s \in NextErased : flash' = Fill(PagesOf(s), Junk)
                   \/ \E o \in NextProgrammed : flash' = Fill({<<open, o>>}, Junk)
        BY <3>3 DEF SpoilPages
      <3>4. SpoilPages \/ UNCHANGED flash
        BY DEF PowerCut, SpoilSlot, persistent
      <3>. QED BY <3>1, <3>2, <3>3, <3>4
    <2>3. ASSUME NEW e, Held(e), Live PROVE Value(e)' = Value(e)
      <3>1. e = NoEntry \/ (e \in DataPage /\ e \in used \cup pending)
        BY <2>3 DEF Held, Entry
      <3>2. e \in DataPage => flash'[e] = flash[e]
        <4>1. ASSUME pc = "alloc", NEW s \in FreeSectors, flash' = Fill(PagesOf(s), Junk), e \in DataPage
              PROVE  flash'[e] = flash[e]
          <5>1. e \notin PagesOf(s)
            BY <3>1, <4>1, Geometry DEF FreeSectors, Occupied, PagesOf
          <5>. QED BY <4>1, <5>1 DEF Fill
        <4>2. ASSUME pc = "alloc", HasOpenPage, NEW o \in free, e \in DataPage,
                     flash' = Fill({<<open, o>>}, Junk)
              PROVE  flash'[e] = flash[e]
          <5>1. <<open, o>> \notin used \cup pending
            BY <4>2 DEF HasOpenPage, MapInv, PageInv, OpenUnclaimed, Mounted, Live, Formatting, Syncing
          <5>2. e \in used \cup pending
            BY <3>1, <4>2, Geometry
          <5>. QED BY <4>2, <5>1, <5>2 DEF Fill
        <4>. QED BY <2>2, <4>1, <4>2
      <3>. QED BY <1>0, <3>1, <3>2 DEF Value, Read
    <2>4. \A e : (\E f \in FatSector \ exposed : HasSlot(MegOf(f)) /\ Persisted(f) = e) =>
              Value(e)' = Value(e)
      <3>1. CASE Live
        BY <2>3, <3>1, PersistedIsHeld
      <3>2. CASE ~Live
        <4>1. UNCHANGED flash
          BY <2>2, <3>2 DEF Live
        <4>. QED BY <1>0, <4>1, QuietValues
      <3>. QED BY <3>1, <3>2
    <2>5. SameDurable
      BY <1>0, <2>1, <2>4, DurableKept
    <2>. QED BY <1>0, <1>1, <2>1, <2>5 DEF StoreStep, Restarted, SameDurable
  <1>. QED BY <1>2, <1>3

LEMMA StoreStepNext ==
    ASSUME "copy" \notin CutWindows, "exposed" \notin CutWindows,
           MapInv, MapInv', ErasedInv, RequestKnown, [Next]_vars
    PROVE  StoreStep
  <1>1. CASE OpenFreeSector \/ OpenPartialSector \/ CopyBack
    BY <1>1, AllocatingStep
  <1>2. CASE TakePage
    BY <1>2, PageStored
  <1>3. CASE Sync \/ ForceSync \/ EndSync \/ FinishFormat \/ VolumeFull
               \/ \E r \in Requests : Write(r[1], r[2])
    BY <1>3, CallingStep
  <1>4. CASE EraseSlot
    <2>1. PICK m \in todo : slots' = [slots EXCEPT ![m] = [@ EXCEPT ![Target(m)] = BlankSlot]]
      BY <1>4 DEF EraseSlot
    <2>2. m \in Meg /\ Target(m) \in {0, 1}
      BY <1>4 DEF EraseSlot, MapInv, SlotInv, TypeInv, TypeOK, CallTypeOK, MapTypeOK, Target
    <2>3. Spoilt(m, Target(m))
      BY <2>1, <2>2, BadWriteSpoils DEF MapInv, SlotInv, TypeInv, TypeOK
    <2>. QED BY <1>4, <2>2, <2>3, SpoiltStored DEF EraseSlot, fsMap, Syncing
  <1>5. CASE ProgramSlot
    <2>1. PICK m \in todo :
            \/ /\ slots' = [slots EXCEPT ![m] = [@ EXCEPT ![Target(m)] = MapImage(m)]]
               /\ exposed' = exposed \ SectorsOf(m)
            \/ /\ slots' = [slots EXCEPT ![m] = [@ EXCEPT ![Target(m)] = TornSlot]]
               /\ UNCHANGED exposed
      BY <1>5 DEF ProgramSlot
    <2>2. m \in Meg /\ Target(m) \in {0, 1}
      BY <1>5 DEF ProgramSlot, MapInv, SlotInv, TypeInv, TypeOK, CallTypeOK, MapTypeOK, Target
    <2>3. pc = "program" /\ pc' = "sync" /\ UNCHANGED <<flash, map>>
      BY <1>5 DEF ProgramSlot
    <2>4. CASE /\ slots' = [slots EXCEPT ![m] = [@ EXCEPT ![Target(m)] = MapImage(m)]]
               /\ exposed' = exposed \ SectorsOf(m)
      BY <2>2, <2>3, <2>4, MegStored
    <2>5. CASE /\ slots' = [slots EXCEPT ![m] = [@ EXCEPT ![Target(m)] = TornSlot]]
               /\ UNCHANGED exposed
      <3>1. Spoilt(m, Target(m))
        BY <2>2, <2>5, BadWriteSpoils DEF MapInv, SlotInv, TypeInv, TypeOK
      <3>. QED BY <2>2, <2>3, <2>5, <3>1, SpoiltStored DEF Syncing
    <2>. QED BY <2>1, <2>4, <2>5
  <1>6. CASE ResumeAlloc
    BY <1>6, ResumingStep
  <1>7. CASE FormatErase \/ FormatMap \/ MountFails \/ Format
    BY <1>7, FormattingStep
  <1>8. CASE Mount
    BY <1>8, MountingStep
  <1>9. CASE PowerCut
    BY <1>9, CuttingStep
  <1>10. CASE UNCHANGED vars
    <2>1. SameStore
      BY <1>10 DEF SameStore, SameDurable, SameVisible, Visible, DurableCopy, Durable, GivenUp, Read,
         Persisted, HasSlot, Valid, Winner, Live, vars, persistent, fsMap, allocator, call
    <2>2. (Mountable' <=> Mountable) /\ (Live' <=> Live)
      BY <1>10, SlotsFrame DEF Live, vars, persistent, call
    <2>. QED BY <2>1, <2>2 DEF StoreStep
  <1>. QED
    BY <1>1, <1>2, <1>3, <1>4, <1>5, <1>6, <1>7, <1>8, <1>9, <1>10 DEF Next, Operation

LEMMA RequestKnownNext ==
    ASSUME RequestKnown, TypeInv, [Next]_vars
    PROVE  RequestKnown'
  <1>. USE DEF RequestKnown, Writing, Syncing
  <1>1. ASSUME NEW r \in Requests, Write(r[1], r[2]) PROVE RequestKnown'
    BY <1>1, InputAssumption DEF Write, InputAssumption
  <1>2. CASE ~Writing'
    BY <1>2
  <1>3. CASE OpenFreeSector \/ OpenPartialSector \/ CopyBack \/ EraseSlot \/ ProgramSlot \/ ResumeAlloc
    BY <1>3 DEF OpenFreeSector, OpenPartialSector, CopyBack, EraseSlot, ProgramSlot, ResumeAlloc, call
  <1>4. CASE ForceSync
    BY <1>4 DEF ForceSync, BeginSync, TypeInv, TypeOK, CallTypeOK
  <1>5. CASE UNCHANGED vars
    BY <1>5 DEF vars, call
  <1>6. ~Writing' \/ ~(TakePage \/ VolumeFull \/ EndSync \/ FormatErase \/ FormatMap \/ FinishFormat
                       \/ Sync \/ Mount \/ MountFails \/ Format \/ PowerCut)
    BY DEF TakePage, VolumeFull, EndSync, FormatErase, FormatMap, FinishFormat, Sync, BeginSync,
       Mount, MountFails, Format, PowerCut, LosePower, TypeInv, TypeOK, CallTypeOK
  <1>. QED
    BY <1>1, <1>2, <1>3, <1>4, <1>5, <1>6 DEF Next, Operation

DataInv == MapInv /\ ErasedInv /\ RequestKnown

LEMMA DataInvSound ==
    ASSUME "exposed" \notin CutWindows
    PROVE  Spec => []DataInv
  <1>1. Init => DataInv
    BY SlotInvInit, PageInvInit, ErasedInvInit
       DEF DataInv, MapInv, RequestKnown, Init, Writing, Syncing
  <1>2. DataInv /\ [Next]_vars => DataInv'
    BY SlotInvNext, PageInvNext, ErasedInvNext, RequestKnownNext DEF DataInv, MapInv, SlotInv
  <1>. QED BY <1>1, <1>2, PTL DEF Spec

-----------------------------------------------------------------------------
\* Everything a host can have written to a FAT sector, or found there at first.
Known(f) == {Zero} \cup {r[2] : r \in {q \in Requests : q[1] = f}}

\* What a sector reads as, and would read as after a restart, was written to it.
KnownInv ==
    /\ Live => \A f \in FatSector : Visible(f) \in Known(f) \cup {AtRisk}
    /\ Live \/ Mountable => \A f \in FatSector : DurableCopy(f) \in Known(f) \cup {AtRisk}

LEMMA KnownInvNext ==
    ASSUME "page" \notin BadPrograms, KnownInv, StoreStep
    PROVE  KnownInv'
  <1>. USE DEF KnownInv
  <1>0. \A f \in FatSector : Zero \in Known(f)
    BY DEF Known
  <1>1. CASE SameStore /\ (Mountable' <=> Mountable) /\ (Live' => Live)
    BY <1>1 DEF SameStore, SameDurable, SameVisible
  <1>2. ASSUME NEW r \in Requests, Stored(r[1], r[2]), Live PROVE KnownInv'
    <2>1. r[2] \in Known(r[1])
      BY DEF Known
    <2>. QED BY <1>2, <2>1 DEF Stored, SameDurable
  <1>3. ASSUME NEW m \in Meg, MegSynced(m), Live PROVE KnownInv'
    BY <1>3 DEF MegSynced, SameVisible
  <1>4. ASSUME NEW f \in FatSector, Exposing(f), Live PROVE KnownInv'
    BY <1>4 DEF Exposing
  <1>5. CASE Restarted /\ (Mountable' <=> Mountable) /\ (Live' => Mountable)
    BY <1>5 DEF Restarted, SameDurable
  <1>6. CASE Wiped /\ ~Mountable /\ ~Mountable'
    BY <1>0, <1>6 DEF Wiped
  <1>. QED BY <1>1, <1>2, <1>3, <1>4, <1>5, <1>6 DEF StoreStep

\* Wherever power fails, outside the two windows in which synced data is known
\* to be at risk, a mount finds each sector's data whole and its own: nothing
\* erased, nothing torn, nothing of another file.
THEOREM DataSurvives ==
    ASSUME "copy" \notin CutWindows, "exposed" \notin CutWindows, "page" \notin BadPrograms
    PROVE  Spec => []SyncedDataWhole
  <1>1. Init => KnownInv
    <2>1. Init => ~Mountable /\ ~Live
      BY Geometry DEF Init, Mountable, HasSlot, Valid, BlankSlot, Live
    <2>. QED BY <2>1 DEF KnownInv
  <1>2. DataInv /\ DataInv' /\ KnownInv /\ [Next]_vars => KnownInv'
    BY StoreStepNext, KnownInvNext DEF DataInv
  <1>3. DataInv /\ KnownInv => SyncedDataWhole
    <2>. SUFFICES ASSUME DataInv, KnownInv, pc # "copy", Mountable, NEW f \in FatSector \ exposed
                  PROVE  Read(Persisted(f)) \in Known(f)
      BY DEF SyncedDataWhole, Known
    <2>1. HasSlot(MegOf(f))
      BY Geometry DEF Mountable
    <2>2. DurableCopy(f) = Read(Persisted(f))
      BY <2>1 DEF DurableCopy, Durable
    <2>3. Read(Persisted(f)) \in Content
      BY <2>1, PersistedType
         DEF DataInv, MapInv, SlotInv, TypeInv, TypeOK, PersistentTypeOK, Read, Entry, Content
    <2>. QED BY <2>2, <2>3, AtRiskAssumption DEF KnownInv
  <1>. QED BY <1>1, <1>2, <1>3, DataInvSound, PTL DEF Spec

StoreType == \A f \in FatSector : DurableCopy(f) \in Content \cup {AtRisk}

LEMMA StoreTyped == TypeInv => StoreType
  <1>. SUFFICES ASSUME TypeInv, NEW f \in FatSector
                PROVE  DurableCopy(f) \in Content \cup {AtRisk}
    BY DEF StoreType
  <1>1. HasSlot(MegOf(f)) => Read(Persisted(f)) \in Content
    BY PersistedType DEF TypeInv, TypeOK, PersistentTypeOK, Read, Entry, Content
  <1>2. pc = "copy" /\ Persisted(f)[2] \in todo => scratch[Persisted(f)[2]] \in Content
    BY DEF TypeInv, TypeOK, CallTypeOK
  <1>. QED BY <1>1, <1>2 DEF DurableCopy, Durable, Content

LEMMA StoreTypedNext == TypeInv' => StoreType'
  BY StoreTyped, PTL

\* A step by what it does to the sectors is a step of the store.
LEMMA StoreSimulated ==
    ASSUME StoreStep, StoreType, StoreType'
    PROVE  [Store!Next]_Store!vars
  <1>. DEFINE visible == [f \in FatSector |-> Visible(f)]
              durable == [f \in FatSector |-> DurableCopy(f)]
  <1>0. Mountable \in BOOLEAN /\ Mountable' \in BOOLEAN
    BY DEF Mountable
  <1>1. CASE SameStore /\ (Mountable' <=> Mountable) /\ (Live' => Live)
    <2>1. UNCHANGED <<visible, durable>>
      BY <1>1 DEF SameStore, SameDurable, SameVisible
    <2>. QED BY <1>0, <1>1, <2>1 DEF Store!vars
  <1>2. ASSUME NEW r \in Requests, Stored(r[1], r[2]), Mountable' <=> Mountable
        PROVE  Store!Next
    <2>1. visible' = [visible EXCEPT ![r[1]] = r[2]] \/ visible' = [visible EXCEPT ![r[1]] = Junk]
      BY <1>2 DEF Stored
    <2>2. durable' = durable
      BY <1>2 DEF Stored, SameDurable
    <2>3. Store!Write(r[1], r[2])
      BY <1>0, <1>2, <2>1, <2>2 DEF Store!Write
    <2>. QED BY <2>3 DEF Store!Next
  <1>3. ASSUME NEW m \in Meg, MegSynced(m), Mountable => Mountable'
        PROVE  Store!Next
    <2>1. visible' = visible
      BY <1>3 DEF MegSynced, SameVisible
    <2>2. durable' = [f \in FatSector |-> IF MegOf(f) = m THEN visible[f] ELSE durable[f]]
      BY <1>3 DEF MegSynced
    <2>3. Store!SyncGroup(m)
      BY <1>0, <1>3, <2>1, <2>2 DEF Store!SyncGroup
    <2>. QED BY <2>3 DEF Store!Next
  <1>4. ASSUME NEW f \in FatSector, Exposing(f), Mountable' <=> Mountable
        PROVE  Store!Next
    <2>1. /\ visible' = [visible EXCEPT ![f] = AtRisk]
          /\ durable' = [durable EXCEPT ![f] = AtRisk]
      BY <1>4 DEF Exposing
    <2>2. Store!Expose(f)
      BY <1>0, <1>4, <2>1 DEF Store!Expose
    <2>. QED BY <2>2 DEF Store!Next
  <1>5. CASE Restarted /\ (Mountable' <=> Mountable) /\ (Live' => Mountable)
    <2>1. /\ durable' = durable /\ visible' = durable'
          /\ durable' \in [FatSector -> Content \cup {AtRisk}]
      BY <1>5 DEF Restarted, SameDurable, StoreType
    <2>2. Store!Restart
      BY <1>0, <1>5, <2>1 DEF Store!Restart
    <2>. QED BY <2>2 DEF Store!Next
  <1>6. CASE Wiped /\ ~Mountable /\ ~Mountable'
    <2>1. visible' = durable' /\ durable' \in [FatSector -> Content \cup {AtRisk}]
      BY <1>6 DEF Wiped, StoreType
    <2>2. Store!Wipe
      BY <1>0, <1>6, <2>1 DEF Store!Wipe
    <2>. QED BY <2>2 DEF Store!Next
  <1>. QED BY <1>1, <1>2, <1>3, <1>4, <1>5, <1>6 DEF StoreStep

\* The flash code is a SectorStore: a write is seen at once, a completed sync
\* survives any restart outside those windows, and nothing else changes what a
\* sector reads as, for every geometry and every program that fails.
THEOREM StoreImplemented ==
    ASSUME "copy" \notin CutWindows, "exposed" \notin CutWindows
    PROVE  Spec => ImplementsStore
  <1>1. Init => Store!Init
    <2>. SUFFICES ASSUME Init PROVE Store!Init
      OBVIOUS
    <2>1. ~Live /\ pc # "copy" /\ exposed = {} /\ \A m \in Meg : ~HasSlot(m)
      BY DEF Init, HasSlot, Valid, BlankSlot, Live
    <2>2. ~Mountable
      BY <2>1, Geometry DEF Mountable
    <2>3. \A f \in FatSector : Visible(f) = Zero /\ DurableCopy(f) = Zero
      BY <2>1, Geometry, DurableValue, DownVisible
    <2>. QED BY <2>2, <2>3 DEF Store!Init
  <1>2. DataInv /\ DataInv' /\ [Next]_vars => [Store!Next]_Store!vars
    BY StoreStepNext, StoreTyped, StoreTypedNext, StoreSimulated DEF DataInv, MapInv, SlotInv
  <1>. QED BY <1>1, <1>2, DataInvSound, PTL DEF Spec, ImplementsStore, Store!Spec
=============================================================================
