----------------------------- MODULE MCQuickDisk -----------------------------
(***************************************************************************)
(* Instances of QuickDisk for TLC.                                         *)
(***************************************************************************)
EXTENDS QuickDisk

\* Two programs whose names differ only in case, and a third.
MCPrograms == <<[sharp |-> "GAME", base |-> "game", body |-> <<>>],
                [sharp |-> "Game", base |-> "game", body |-> <<1>>],
                [sharp |-> "BASIC", base |-> "basic", body |-> <<2>>]>>

File(fat, p) == [fat |-> fat, head |-> p, body |-> MCPrograms[p].body]
ReadMe == [fat |-> <<"readme", 0>>, head |-> 0, body |-> <<>>]
Disk(files, std) == [dir |-> files, image |-> <<>>, std |-> std, wp |-> FALSE, frail |-> FALSE,
                     saves |-> {}, ops |-> {}, mounts |-> {}, usb |-> {}]
Blank(n) == <<GapByte, GapByte>> \o CountBlock(0) \o [i \in 1 .. n |-> PadA]

\* A directory with a file not called as its name says; one that is formatted;
\* one the USB changes; one that fails; an image; changes of the disk.
MCSetups ==
    {[Disk(<<ReadMe, File(<<"other", 0>>, 1)>>, "dir") EXCEPT !.saves = {1, 2, 3}],
     [Disk(<<File(<<"game", 0>>, 1)>>, "dir") EXCEPT !.saves = {2}, !.ops = {"list", "format"}],
     [Disk(<<File(<<"game", 0>>, 1)>>, "dir") EXCEPT !.saves = {2, 3}, !.usb = {3}],
     [Disk(<<File(<<"game", 0>>, 1)>>, "dir") EXCEPT !.frail = TRUE, !.saves = {2},
                                                     !.ops = {"list", "format"}],
     [Disk(<<>>, "image") EXCEPT !.image = Blank(30), !.saves = {3}, !.ops = {"list"}],
     [Disk(<<File(<<"game", 0>>, 1)>>, "dir") EXCEPT !.image = Blank(1), !.wp = TRUE,
                                     !.saves = {2}, !.mounts = {"none", "dir", "image"}]}
=============================================================================
