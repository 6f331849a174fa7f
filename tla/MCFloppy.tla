------------------------------ MODULE MCFloppy -------------------------------
(***************************************************************************)
(* Instances of Floppy for TLC.                                            *)
(***************************************************************************)
EXTENDS Floppy

Track(ids, v) == [ids |-> ids, data |-> [id \in ToSet(ids) |-> v + id]]
Disk(slots, tracks, units, table) ==
    [wp |-> FALSE, dirsrc |-> FALSE, configured |-> TRUE, frail |-> FALSE, layouts |-> {},
     holds |-> [s \in 0 .. slots - 1 |-> IF s < Len(tracks) THEN tracks[s + 1] ELSE NoTrack],
     file |-> [table |-> [s \in 0 .. slots - 1 |-> IF s < Len(table) THEN table[s + 1] ELSE 0],
               units |-> <<Header(<<>>, 0)>> \o units]]

LongSector == Disk(1, <<Track(<<1>>, 1)>>, <<Header(<<1>>, 2), Filled(2), Filled(2)>>, <<3>>)
OneTrack == Disk(1, <<Track(<<1, 2>>, 1)>>, <<Header(<<1, 2>>, 1), Filled(2), Filled(3)>>, <<3>>)
OneSector(slots, v) == Disk(slots, <<Track(<<1>>, v)>>, <<Header(<<1>>, 1), Filled(v + 1)>>, <<2>>)
ThreeTracks == Disk(3, <<Track(<<1>>, 1), Track(<<1>>, 2), Track(<<1>>, 3)>>,
                    FlattenSeq([s \in 1 .. 3 |-> <<Header(<<1>>, 1), Filled(s + 1)>>]), <<2, 2, 2>>)
Good(ids, code) == [ids |-> ids, code |-> code, fill |-> 0]
NoSectors == Good(<<>>, 1)

\* Two tracks, of which the guest formats the second; a medium that fails; a
\* directory whose writes may be lost; three tracks to seek on; two drives, the
\* second protected and left to the explorer.
MCSetups ==
    {0 :> [OneSector(2, 1) EXCEPT !.layouts = {Good(<<1>>, 1)}],
     0 :> [OneTrack EXCEPT !.frail = TRUE, !.layouts = {Good(<<1, 2>>, 1)}],
     0 :> [OneTrack EXCEPT !.frail = TRUE, !.dirsrc = TRUE],
     0 :> [ThreeTracks EXCEPT !.wp = TRUE],
     0 :> [LongSector EXCEPT !.layouts = {NoSectors}]
        @@ 1 :> [OneSector(1, 2) EXCEPT !.wp = TRUE, !.configured = FALSE,
                                        !.layouts = {Good(<<1>>, 1)}]}
=============================================================================
