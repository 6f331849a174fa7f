---------------------------- MODULE CachedSource -----------------------------
(***************************************************************************)
(* CachedSource over FileSource: the bytes of a FAT file seen through one  *)
(* window of CacheSize bytes, which is written back when the position      *)
(* leaves it.  The floppy controller and the quick disk read and write     *)
(* images through it, the RAM disks their backing files.                   *)
(*                                                                         *)
(* An operator of this module maps a source to the set of sources a call   *)
(* may leave, with what it returned in ok and out.  The loops of get() and *)
(* set() run one chunk a step.                                             *)
(***************************************************************************)
EXTENDS Naturals, Sequences

CONSTANTS Byte, MaxSize, CacheSize, MaxCall,
          Modes       \* how the callers open a source: records [size, wrap,
                      \* inc, ro, resize, frail, tight, ...]; frail: the medium
                      \* may fail; tight: it may be full, and the file shorter
                      \* than the size it is opened with

ASSUME SourceAssumption ==
    /\ {MaxSize, CacheSize, MaxCall} \subseteq Nat \ {0}
    /\ Byte # {}
    /\ \A m \in Modes : /\ m.size \in 1 .. MaxSize
                        /\ {m.wrap, m.inc, m.ro, m.resize, m.frail, m.tight} \subseteq BOOLEAN
                        /\ m.wrap => CacheSize <= m.size /\ ~m.resize
                        /\ m.tight => ~m.ro /\ ~m.resize

VARIABLES
    mode,    \* the constructor's arguments
    src,     \* the source: see Opened
    call,    \* the get() or set() under way
    told,    \* history: what the callers have been told is written
    synced   \* history: flush() has reported success since the last write

Positions == 0 .. MaxSize - 1
Least(m, n) == IF m < n THEN m ELSE n

\* start and bytes are the window (cache_valid_ is its length), dead the
\* error FatFs keeps on a file object once an access to it has failed.  have is
\* f_size: at a place from there on, file says what will be found once the file
\* has grown past it.  short is a history: the file has proved too short, for a
\* store that ran out of room or a read that found nothing.
Opened(file, size, have) ==
    [file |-> file, size |-> size, have |-> have, start |-> 0, bytes |-> <<>>,
     dirty |-> FALSE, pos |-> 0, dead |-> FALSE, short |-> FALSE,
     ok |-> TRUE, out |-> <<>>]

\* The sizes a file may have after it was to grow up to n: on a full medium it
\* grows as far as there is room.
Sizes(have, n) == IF mode.tight /\ have < n THEN have .. n ELSE {have}

Idle == [op |-> "none", left |-> 0, data |-> <<>>]

Init == /\ mode \in Modes
        /\ \E f \in [Positions -> Byte] :
             /\ \A p \in Positions : p >= mode.size => f[p] = f[0]
             /\ \E h \in IF mode.tight THEN 0 .. mode.size ELSE {mode.size} :
                  src = Opened(f, mode.size, h)
             /\ told = f
        /\ call = Idle
        /\ synced = TRUE

-----------------------------------------------------------------------------
(* The window                                                              *)

\* The position of the window's k-th byte.
At(s, k) == IF mode.wrap THEN (s.start + k - 1) % s.size ELSE s.start + k - 1

Holds(s, p) == s.start <= p /\ p < s.start + Len(s.bytes)

\* A write keeps the window without holes: it may append to it.
Extends(s) == /\ s.start <= s.pos
              /\ s.pos <= s.start + Len(s.bytes)
              /\ s.pos < s.start + CacheSize

\* The first n bytes of the window, or what a file of h bytes has of them: a
\* ring's second store is made whatever the first one has written.
Stored(s, n, h) ==
    [p \in Positions |->
        IF p < h /\ (\E k \in 1 .. n : At(s, k) = p)
        THEN s.bytes[CHOOSE k \in 1 .. n : At(s, k) = p]
        ELSE s.file[p]]

Failed(s) == [s EXCEPT !.ok = FALSE, !.out = <<>>]
Done(s) == [s EXCEPT !.ok = TRUE, !.out = <<>>]

\* How far the file must reach for the window.
Extent(s) == Least(s.start + Len(s.bytes), s.size)
CutAt(s, h) == \E k \in 1 .. Len(s.bytes) : At(s, k) >= h

\* CachedSource::flush.  A window that runs past the end of a source that is
\* not a ring is dropped whole.  Nobody looks at how much f_write has written:
\* a store that runs out of room counts as done.
Flush(s) ==
    IF ~s.dirty \/ s.bytes = <<>> THEN {Done(s)}
    ELSE IF ~mode.wrap /\ s.start + Len(s.bytes) > s.size
    THEN {Done([s EXCEPT !.dirty = FALSE])}
    ELSE IF mode.ro \/ s.dead THEN {Failed(s)}
    ELSE UNION {{Done([s EXCEPT !.file = Stored(s, Len(s.bytes), h), !.have = h,
                                !.dirty = FALSE, !.short = @ \/ CutAt(s, h)])}
                \cup {Failed([s EXCEPT !.file = Stored(s, n, h), !.have = h, !.dead = TRUE]) :
                      n \in {k \in 0 .. Len(s.bytes) : mode.frail}}
                : h \in Sizes(s.have, Extent(s))}

\* A read beyond the end of the file makes it grow, as far as there is room, and
\* gives what it then has: a window that is short, or empty.  A ring's window
\* goes on at the start of the storage in a second fetch.  A failed fetch may
\* have overwritten the window it was to replace.
Fetch(s) ==
    LET first == Least(CacheSize, s.size - s.pos)
        Grown(h) == [s EXCEPT !.have = h]
        Had(h) == IF h <= s.pos THEN 0 ELSE Least(first, h - s.pos)
        From(h, n) == [Grown(h) EXCEPT
            !.start = s.pos,
            !.bytes = [k \in 1 .. n |-> s.file[(s.pos + k - 1) % s.size]]]
        Goes(h) == mode.wrap /\ Had(h) = s.size - s.pos
    IN  IF s.dead THEN {Failed(s)}
        ELSE UNION {{Done(From(h, IF Goes(h) THEN CacheSize ELSE Had(h)))}
                    \cup {Failed([Grown(h) EXCEPT !.bytes = [k \in DOMAIN s.bytes |-> b],
                                                   !.dead = TRUE]) :
                          b \in {c \in Byte : mode.frail}}
                    \cup {Failed([From(h, n) EXCEPT !.dead = TRUE]) :
                          n \in {m \in {Had(h)} : mode.frail /\ Goes(h) /\ m < CacheSize}}
                    : h \in Sizes(s.have, s.pos)}

\* Mutants: a refill that does not write the window back, or one that takes
\* the new window for clean.
RefillUnflushed(s) == Fetch(s)
RefillClean(s) == {[t EXCEPT !.dirty = @ /\ ~t.ok] : t \in UNION {Fetch(u) : u \in Flush(s)}}

\* The outcome of the flush is not looked at.
Refill(s) == UNION {Fetch(t) : t \in Flush(s)}

-----------------------------------------------------------------------------
(* The calls                                                               *)

Normal(s) == IF mode.wrap THEN [s EXCEPT !.pos = s.pos % s.size] ELSE s
AtEnd(s) == ~mode.wrap /\ s.pos >= s.size

Advance(s, n) ==
    IF ~mode.inc THEN s
    ELSE [s EXCEPT !.pos = IF mode.wrap THEN (s.pos + n) % s.size ELSE s.pos + n]

SeekTo(s, p) ==
    IF p >= s.size THEN {Failed(s)}
    ELSE {Done([t EXCEPT !.pos = p]) : t \in IF Holds(s, p) THEN {s} ELSE Flush(s)}

ToRead(s) == IF Holds(s, s.pos) THEN {Done(s)} ELSE Refill(s)
ToWrite(s) == IF Extends(s) THEN {Done(s)} ELSE Refill(s)

\* There was nothing to read: cache_valid_ is 0.
Bare(t) == Failed([t EXCEPT !.short = TRUE])

\* At most n bytes, and no more than the window holds.
Take(s, n) ==
    IF AtEnd(s) THEN {Failed(s)}
    ELSE {IF ~t.ok THEN t
          ELSE IF t.bytes = <<>> THEN Bare(t)
          ELSE LET from == t.pos - t.start
                   len == Least(n, Len(t.bytes) - from)
               IN  Advance([t EXCEPT !.out = SubSeq(t.bytes, from + 1, from + len)], len)
          : t \in ToRead(Normal(s))}

\* As many of the bytes as the window has room for: the end of the storage
\* is not looked at.
Fits(t, data) == Least(Len(data), CacheSize - (t.pos - t.start))
Overlaid(t, data) ==
    LET from == t.pos - t.start
        last == from + Len(data)
    IN  [k \in 1 .. (IF last > Len(t.bytes) THEN last ELSE Len(t.bytes)) |->
            IF k > from /\ k <= last THEN data[k - from] ELSE t.bytes[k]]

Put(s, data) ==
    IF AtEnd(s) THEN {Failed(s)}
    ELSE {IF ~t.ok THEN t
          ELSE LET n == Fits(t, data)
               IN  Advance([t EXCEPT !.bytes = Overlaid(t, SubSeq(data, 1, n)),
                                     !.dirty = TRUE], n)
          : t \in ToWrite(Normal(s))}

\* next(): the position moves even where an access would leave it alone.
Skip(s) ==
    IF ~mode.wrap /\ s.pos + 1 >= s.size THEN {Failed(s)}
    ELSE {IF t.ok /\ t.bytes = <<>> THEN Bare(t) ELSE t :
          t \in ToRead([s EXCEPT !.pos = (s.pos + 1) % s.size])}

\* FileSource::flush: f_sync may fail where every store has succeeded.
FlushFile(s) ==
    Flush(s) \cup {Failed(t) : t \in IF mode.ro \/ ~mode.frail THEN {} ELSE Flush(s)}

Dropped(s) == [s EXCEPT !.start = 0, !.bytes = <<>>, !.dirty = FALSE]

\* FileSource::resize: what lies beyond the old end is not filled.
ResizeTo(s, n) ==
    IF mode.ro THEN {Failed(s)}
    ELSE UNION {IF ~t.ok THEN {t}
                ELSE {Failed(Dropped(t))}
                     \cup (IF t.dead THEN {}
                           ELSE {Done([Dropped(t) EXCEPT !.size = n, !.have = n,
                                     !.pos = Least(t.pos, n),
                                     !.file = [p \in Positions |->
                                         IF t.size <= p /\ p < n THEN b ELSE t.file[p]]])
                                 : b \in Byte})
                : t \in Flush(s)}

-----------------------------------------------------------------------------
(* The callers: a floppy image, a quick disk image, a RAM disk's file      *)

Free == call = Idle

\* What the last call wrote is what the source took of it.
Taken(data) ==
    IF src'.ok THEN SubSeq(data, 1, Least(Len(data),
                        CacheSize - (Normal(src).pos - src'.start)))
    ELSE <<>>

Tell(at, bs) ==
    told' = [p \in Positions |->
        IF \E i \in DOMAIN bs : (at + i - 1) % src.size = p
        THEN bs[CHOOSE i \in DOMAIN bs : (at + i - 1) % src.size = p]
        ELSE told[p]]

Seek(p) == /\ Free
           /\ src' \in SeekTo(src, p)
           /\ UNCHANGED <<mode, call, told, synced>>

GetByte == /\ Free
           /\ src' \in Take(src, 1)
           /\ UNCHANGED <<mode, call, told, synced>>

SetByte(b) == /\ Free
              /\ src' \in Put(src, <<b>>)
              /\ Tell(src.pos, Taken(<<b>>))
              /\ synced' = (synced /\ ~src'.ok)
              /\ UNCHANGED <<mode, call>>

Get(n) == /\ Free /\ mode.inc
          /\ call' = [Idle EXCEPT !.op = "get", !.left = n]
          /\ UNCHANGED <<mode, src, told, synced>>

GetChunk == /\ call.op = "get"
            /\ src' \in Take(src, call.left)
            /\ call' = IF src'.ok /\ Len(src'.out) < call.left
                       THEN [call EXCEPT !.left = @ - Len(src'.out)] ELSE Idle
            /\ UNCHANGED <<mode, told, synced>>

\* The controller only writes inside a track it has formatted.
Set(data) == /\ Free /\ mode.inc
             /\ mode.wrap \/ src.pos + Len(data) <= src.size
             /\ call' = [Idle EXCEPT !.op = "set", !.data = data]
             /\ UNCHANGED <<mode, src, told, synced>>

SetChunk ==
    /\ call.op = "set"
    /\ src' \in Put(src, call.data)
    /\ Tell(src.pos, Taken(call.data))
    /\ call' = IF src'.ok /\ Len(Taken(call.data)) < Len(call.data)
               THEN [call EXCEPT !.data = SubSeq(@, Len(Taken(@)) + 1, Len(@))]
               ELSE Idle
    /\ synced' = (synced /\ ~src'.ok)
    /\ UNCHANGED mode

NextByte == /\ Free
            /\ src' \in Skip(src)
            /\ UNCHANGED <<mode, call, told, synced>>

FlushAll == /\ Free
            /\ src' \in FlushFile(src)
            /\ synced' = (synced \/ src'.ok)
            /\ UNCHANGED <<mode, call, told>>

\* Its only caller, the quick disk's directory, has nothing dirty.
Invalidate == /\ Free /\ ~src.dirty
              /\ src' = Done(Dropped(src))
              /\ UNCHANGED <<mode, call, told, synced>>

Resize(n) == /\ Free /\ mode.resize
             /\ src' \in ResizeTo(src, n)
             /\ told' = IF src'.ok
                        THEN [p \in Positions |-> IF p < src.size /\ p < n THEN told[p]
                                                  ELSE src'.file[p]]
                        ELSE told
             /\ UNCHANGED <<mode, call, synced>>

\* The destructor flushes, and nobody learns how that went: what is behind
\* the last f_sync may be lost with it.
Close == /\ Free
         /\ src' \in Flush(src) \cup
                {Failed([t EXCEPT !.file = src.file, !.dead = TRUE]) :
                    t \in {u \in Flush(src) : mode.frail}}
         /\ call' = [Idle EXCEPT !.op = "closed"]
         /\ UNCHANGED <<mode, told, synced>>

\* A file that is shorter than it should be is filled up, as far as it goes.
Open == /\ call.op = "closed"
        /\ \E h \in Sizes(src.have, src.size) : src' = Opened(src.file, src.size, h)
        /\ told' = src.file
        /\ synced' = TRUE
        /\ call' = Idle
        /\ UNCHANGED mode

Calls == UNION {[1 .. n -> Byte] : n \in 1 .. MaxCall}

AnyCall ==
    \/ \E p \in 0 .. src.size : Seek(p)
    \/ GetByte \/ (\E b \in Byte : SetByte(b))
    \/ (\E n \in 1 .. MaxCall : Get(n)) \/ GetChunk
    \/ (\E data \in Calls : Set(data)) \/ SetChunk
    \/ NextByte \/ FlushAll \/ Invalidate
    \/ (\E n \in 1 .. mode.size : Resize(n))
    \/ Close \/ Open
=============================================================================
