------------------------------ MODULE MCFlashFS ------------------------------
(***************************************************************************)
(* Instances of FlashFS for TLC.                                           *)
(***************************************************************************)
EXTENDS FlashFSRefinement, FlashFSInv, TLC

CONSTANTS d0, d1, d2, d3

\* Each FAT sector is only ever written with a content of its own, so that a
\* sector that reads as another one's data stands out.
Tags == <<d0, d1, d2, d3>>
TagRequests == {<<f, Tags[f + 1]>> : f \in 0 .. 2}
TwoMegRequests == {<<f, Tags[f + 1]>> : f \in {0, 2}}
=============================================================================
