------------------------------ MODULE ByteArray ------------------------------
(***************************************************************************)
(* What a ByteSource promises the devices above it: an array of bytes with *)
(* a position, in which a read returns what was last written.  The array   *)
(* may be a ring (wrap) and an access may leave the position alone (inc).  *)
(* Once the medium below has failed, or has had no room for the whole of   *)
(* it and an access has met its end, or a write to a read-only array has   *)
(* been accepted, the array is lost and nothing is promised of it until it *)
(* is opened again.                                                        *)
(***************************************************************************)
EXTENDS Naturals, Sequences

CONSTANTS Contents, MaxSize

VARIABLES arr, size, pos, out, wrap, inc, lost

vars == <<arr, size, pos, out, wrap, inc, lost>>

Positions == 0 .. MaxSize - 1

Init == /\ arr \in [Positions -> Contents]
        /\ size \in 1 .. MaxSize
        /\ pos = 0 /\ out = <<>>
        /\ wrap \in BOOLEAN /\ inc \in BOOLEAN
        /\ lost = FALSE

Past(from, n) == IF ~inc THEN from ELSE IF wrap THEN (from + n) % size ELSE from + n
InReach(from, n) == from < size /\ (wrap \/ from + n <= size)

\* An access, from where the array stands or where it is moved first.
Read(from, n) == /\ InReach(from, n)
                 /\ out' = [i \in 1 .. n |-> arr[(from + i - 1) % size]]
                 /\ pos' = Past(from, n)
                 /\ UNCHANGED <<arr, size>>

Write(from, bs) ==
    /\ InReach(from, Len(bs))
    /\ arr' = [p \in Positions |->
            IF \E i \in DOMAIN bs : p = (from + i - 1) % size
            THEN bs[CHOOSE i \in DOMAIN bs : p = (from + i - 1) % size]
            ELSE arr[p]]
    /\ pos' = Past(from, Len(bs))
    /\ out' = <<>>
    /\ UNCHANGED size

Move == /\ pos' \in 0 .. size - 1
        /\ out' = <<>>
        /\ UNCHANGED <<arr, size>>

\* What lies beyond the old end is not known.
Resize == /\ size' \in 1 .. MaxSize
          /\ pos' = IF pos > size' THEN size' ELSE pos
          /\ arr' \in [Positions -> Contents]
          /\ \A p \in Positions : p < size /\ p < size' => arr'[p] = arr[p]
          /\ out' = <<>>

\* A refused call, or one that concerns the storage alone.
Quiet == out' = <<>> /\ UNCHANGED <<arr, size, pos>>

Sound ==
    /\ ~lost /\ ~lost'
    /\ \/ \E n \in 1 .. MaxSize, from \in Positions :
             Read(from, n) \/ (\E bs \in [1 .. n -> Contents] : Write(from, bs))
       \/ Move \/ Resize \/ Quiet

Next == UNCHANGED <<wrap, inc>> /\ (Sound \/ lost \/ lost')

Spec == Init /\ [][Next]_vars
=============================================================================
