------------------------------ MODULE MCBusLoop ------------------------------
(***************************************************************************)
(* Instances of BusLoop for TLC.                                           *)
(***************************************************************************)
EXTENDS BusLoop

CONSTANTS fdc, psg, free, spare

Dev(id, rd, wr) == [id |-> id, made |-> TRUE, fits |-> TRUE, enabled |-> TRUE, reads |-> rd,
                    writes |-> wr, counted |-> TRUE, exwait |-> FALSE, stores |-> FALSE,
                    config |-> "ok"]
Floppy == [Dev("fdc", <<fdc>>, <<fdc>>) EXCEPT !.exwait = TRUE, !.stores = TRUE]
Sound == Dev("psg", <<>>, <<psg>>)
Disk(id, list) == [Dev(id, list, list) EXCEPT !.exwait = TRUE]

\* The machine the guest uses; sections that are skipped, disabled, short of
\* memory, too many for a port or for the manager; and one that halts.
Played == <<Floppy, Sound>>
MCInis ==
    {Played,
     <<[Disk("rd", <<spare, spare>>) EXCEPT !.config = "no memory"], Dev("psg", <<>>, <<spare>>),
       [Disk("qd", <<spare>>) EXCEPT !.enabled = FALSE], Disk("qd", <<free>>),
       [Dev("ctc", <<>>, <<free>>) EXCEPT !.fits = FALSE], Disk("sr", <<spare>>)>>,
     <<Dev("psg", <<>>, <<spare, free>>), [Disk("rd", <<spare>>) EXCEPT !.made = FALSE],
       [Disk("rd", <<spare, free>>) EXCEPT !.config = "no memory"], Disk("sr", <<spare>>),
       Disk("fd", <<spare, free>>)>>,
     <<Sound, [Disk("rd", <<spare>>) EXCEPT !.config = "bad"]>>,
     <<[Disk("rd", <<spare>>) EXCEPT !.counted = FALSE]>>,
     <<Sound>>}
MCGuest == [i \in MCInis |->
    IF i = Played THEN {<<"read", fdc>>, <<"write", fdc>>, <<"write", psg>>}
    ELSE IF Len(i) = 1 THEN {<<"write", free>>, <<"read", free>>} ELSE {}]
=============================================================================
