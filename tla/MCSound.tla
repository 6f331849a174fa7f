------------------------------ MODULE MCSound -------------------------------
EXTENDS Sound

Bank(p) == [what |-> "bank", value |-> p]
Mem(w) == [what |-> "mem", value |-> <<w>>]
Burst(ws) == [what |-> "mem", value |-> ws]
Port(w) == [what |-> "port", value |-> w]
Psg1(b) == [what |-> "psg", value |-> b]
Reset1 == [what |-> "reset", value |-> "soft"]
Plays(program) == [sources |-> {"ctc"}, program |-> program, races |-> FALSE, late |-> 1]

(* A program that plays tones on the PSG; BASIC's bracket around the latch,  *)
(* the same address with RAM there, a lock; masks over both paths; a program *)
(* that leaves MZ-700 mode; one that is reset; one that fills the screen.    *)
Tunes == [sources |-> {"psg"}, races |-> FALSE, late |-> 3, program |->
           <<Psg1(Byte(TRUE, 0, FALSE, 1)), Psg1(Byte(FALSE, 0, FALSE, 2)), Psg1(Byte(TRUE, 3, TRUE, 3)),
             Psg1(Byte(TRUE, 0, FALSE, 4)), Psg1(Byte(FALSE, 0, FALSE, 5)), Psg1(Byte(TRUE, 3, FALSE, 6))>>]
Bracket == [Plays(<<Bank("E3"), Mem("on"), Bank("E1")>>) EXCEPT !.late = 2]
Hidden == Plays(<<Bank("E1"), Mem("on"), Bank("E3")>>)
Locks == Plays(<<Bank("E5"), Mem("on"), Bank("E6"), Mem("off")>>)
Beeps == Plays(<<Port("shut"), Mem("open"), Port("shut")>>)
Leaves == Plays(<<Mem("off"), Bank("800"), Mem("on")>>)
Returns == [Plays(<<Bank("800"), Bank("700"), Mem("on")>>) EXCEPT !.late = 3]
Resets == [Plays(<<Bank("E5"), Reset1, Mem("on")>>) EXCEPT !.late = 3]
Fills == [Plays(<<Port("open"), Burst(<<"on", "off">>), Burst(<<"other", "other", "on">>)>>) EXCEPT !.races = TRUE]
AllGuests == {Tunes, Bracket, Hidden, Locks, Beeps, Leaves, Returns, Resets, Fills}
=============================================================================
