------------------------------ MODULE MCDirDisk ------------------------------
(***************************************************************************)
(* Instances of DirDisk for TLC.                                           *)
(***************************************************************************)
EXTENDS DirDisk, TLC

CONSTANT d1

\* A BASIC directory with a file whose FAT name is another file's, and one the
\* mount does not serve; a CP/M directory with a file of two extents.
Shelf ==
    {[fs |-> "basic",
      files |-> (<<"A", 0>> :> [name |-> None, data |-> <<d1>>])
                @@ (<<"B", 0>> :> [name |-> "A", data |-> <<d1>>])],
     [fs |-> "cpm", files |-> (<<"A", 0>> :> [name |-> None, data |-> <<d1, d1>>])]}
=============================================================================
