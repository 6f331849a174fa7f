--------------------------- MODULE ByteSourceProofs ---------------------------
(***************************************************************************)
(* The byte sources, proved for every size of file and window, every way   *)
(* to open one and every failure of the medium: what is seen through the   *)
(* window is what the callers were told is written, a flush that reports   *)
(* success has written it, and every call is one on an array of bytes.     *)
(***************************************************************************)
EXTENDS RamDisks, SequenceTheorems, TLAPS

-----------------------------------------------------------------------------
(* The window.                                                              *)

Source == [file : [Positions -> Byte], size : 1 .. MaxSize, have : Nat, start : Nat,
           bytes : Seq(Byte), dirty : BOOLEAN, pos : Nat, dead : BOOLEAN, short : BOOLEAN,
           ok : BOOLEAN, out : Seq(Byte)]

\* The bytes seen through a source's window, over those of its file.
View(s) == [p \in Positions |->
               IF \E k \in DOMAIN s.bytes : At(s, k) = p
               THEN s.bytes[CHOOSE k \in DOMAIN s.bytes : At(s, k) = p]
               ELSE s.file[p]]

Window(s) ==
    /\ Len(s.bytes) <= CacheSize
    /\ mode.wrap => s.start < s.size /\ s.pos < s.size /\ CacheSize <= s.size
    /\ ~mode.wrap => s.start + Len(s.bytes) <= s.size /\ s.pos <= s.size
    /\ s.dirty => s.bytes # <<>>

\* A window with nothing to write back shows what is in the file.
Clean(s) == ~s.dirty /\ ~s.dead /\ ~s.short => View(s) = s.file

\* Only on a full medium is a file shorter than it should be.
Roomy(s) == mode.tight \/ (s.have = s.size /\ ~s.short)

Good(s) == s \in Source /\ Window(s) /\ Clean(s) /\ Roomy(s)

Fine(s) == ~LostIn(s)

\* What housekeeping may do: t shows what s showed, and what leaves the window
\* has gone to the file.
Follows(s, t) ==
    /\ t.size = s.size
    /\ Fine(t) => Fine(s) /\ View(t) = View(s)
    /\ s.short => t.short
    /\ ~s.dirty => ~t.dirty /\ t.file = s.file
    /\ s.dirty /\ ~t.dirty => t.short \/ (Fine(s) /\ t.file = View(s))

LEMMA FollowsOn == \A s, t, u : Follows(s, t) /\ Follows(t, u) => Follows(s, u)
  BY DEF Follows

LEMMA Modal ==
    ASSUME mode \in Modes
    PROVE  /\ mode.size \in 1 .. MaxSize
           /\ mode.wrap \in BOOLEAN /\ mode.inc \in BOOLEAN /\ mode.ro \in BOOLEAN
           /\ mode.resize \in BOOLEAN /\ mode.frail \in BOOLEAN /\ mode.ram \in BOOLEAN
           /\ mode.tight \in BOOLEAN /\ (mode.tight => ~mode.ro /\ ~mode.resize)
           /\ mode.wrap => CacheSize <= mode.size /\ ~mode.resize
           /\ MaxSize \in Nat \ {0} /\ CacheSize \in Nat \ {0} /\ MaxCall \in Nat \ {0}
           /\ Byte # {}
  BY SourceAssumption, DeviceAssumption

\* A ring is run round at most once.
LEMMA Round == \A n \in Nat \ {0}, x \in Nat : x < 2 * n => x % n = IF x < n THEN x ELSE x - n
  <1> SUFFICES ASSUME NEW n \in Nat \ {0}, NEW x \in Nat, x < 2 * n
               PROVE  x % n = IF x < n THEN x ELSE x - n
    OBVIOUS
  <1>1. CASE x < n BY <1>1
  <1>2. CASE x >= n
    <2>1. x = n * (x \div n) + (x % n) /\ x % n \in 0 .. n - 1 /\ x \div n \in Nat
      OBVIOUS
    <2>2. x \div n = 1 BY <1>2, <2>1
    <2> QED BY <1>2, <2>1, <2>2
  <1> QED BY <1>1, <1>2

\* The window's bytes have each their own place in the storage.
LEMMA Slots ==
    ASSUME mode \in Modes, NEW s \in Source, Window(s)
    PROVE  /\ DOMAIN s.bytes = 1 .. Len(s.bytes) /\ Len(s.bytes) \in Nat
           /\ \A k \in 1 .. Len(s.bytes) :
                /\ At(s, k) \in Positions /\ At(s, k) < s.size
                /\ s.bytes[k] \in Byte
           /\ \A k, l \in 1 .. Len(s.bytes) : At(s, k) = At(s, l) => k = l
  <1>1. DOMAIN s.bytes = 1 .. Len(s.bytes) /\ Len(s.bytes) \in Nat
    BY LenProperties DEF Source
  <1>2. \A k \in 1 .. Len(s.bytes) : s.bytes[k] \in Byte
    BY ElementOfSeq DEF Source
  <1>3. \A k \in 1 .. Len(s.bytes) : /\ At(s, k) \in Positions /\ At(s, k) < s.size
                                     /\ At(s, k) = IF s.start + k - 1 < s.size THEN s.start + k - 1
                                                   ELSE s.start + k - 1 - s.size
    <2> TAKE k \in 1 .. Len(s.bytes)
    <2>0. /\ s.size \in 1 .. MaxSize /\ s.size \in Nat \ {0} /\ s.start \in Nat
          /\ MaxSize \in Nat \ {0} /\ CacheSize \in Nat
      BY Modal DEF Source
    <2>1. CASE mode.wrap
      <3> DEFINE x == s.start + k - 1
                 n == s.size
      <3>1. x \in Nat /\ n \in Nat \ {0} /\ x < 2 * n
        BY <1>1, <2>0, <2>1 DEF Window
      <3> HIDE DEF x, n
      <3>2. x % n = IF x < n THEN x ELSE x - n
        BY <3>1, Round
      <3> QED BY <1>1, <2>0, <2>1, <3>1, <3>2 DEF At, Positions, x, n
    <2>2. CASE ~mode.wrap
      BY <1>1, <2>0, <2>2 DEF At, Positions, Window
    <2> QED BY <2>1, <2>2, Modal
  <1>4. \A k, l \in 1 .. Len(s.bytes) : At(s, k) = At(s, l) => k = l
    <2> TAKE k, l \in 1 .. Len(s.bytes)
    <2>0. /\ s.size \in Nat \ {0} /\ s.start \in Nat /\ CacheSize \in Nat
      BY Modal DEF Source
    <2>1. k - l < s.size /\ l - k < s.size BY <1>1, <2>0, Modal DEF Window
    <2>2. k \in Int /\ l \in Int BY <1>1
    <2> QED BY <1>3, <2>0, <2>1, <2>2
  <1> QED BY <1>1, <1>2, <1>3, <1>4

\* What is seen where the window is, and elsewhere.
LEMMA Seeing ==
    ASSUME mode \in Modes, NEW s \in Source, Window(s)
    PROVE  /\ View(s) \in [Positions -> Byte]
           /\ \A k \in 1 .. Len(s.bytes) : View(s)[At(s, k)] = s.bytes[k]
           /\ \A p \in Positions : (\A k \in 1 .. Len(s.bytes) : At(s, k) # p) => View(s)[p] = s.file[p]
  <1> USE Slots
  <1>1. \A k \in 1 .. Len(s.bytes) : (CHOOSE l \in DOMAIN s.bytes : At(s, l) = At(s, k)) = k
    OBVIOUS
  <1>2. \A k \in 1 .. Len(s.bytes) : View(s)[At(s, k)] = s.bytes[k]
    BY <1>1 DEF View
  <1>3. \A p \in Positions : (\A k \in 1 .. Len(s.bytes) : At(s, k) # p) => View(s)[p] = s.file[p]
    BY DEF View
  <1>4. \A p \in Positions : View(s)[p] \in Byte
    BY <1>2, <1>3 DEF Source
  <1>5. View(s) = [p \in Positions |-> View(s)[p]]
    BY DEF View
  <1> QED BY <1>2, <1>3, <1>4, <1>5

LEMMA IsSeq == ASSUME NEW n \in Nat, NEW f \in [1 .. n -> Byte] PROVE f \in Seq(Byte) /\ Len(f) = n
  <1>1. f \in Seq(Byte) BY SeqDef
  <1>2. Len(f) \in Nat /\ DOMAIN f = 1 .. Len(f) BY <1>1, LenProperties
  <1>3. 1 .. n = 1 .. Len(f) BY <1>2
  <1> QED BY <1>1, <1>2, <1>3

\* The view depends on the window and on what is under it.
LEMMA SameView ==
    ASSUME NEW s, NEW t, t.size = s.size, t.start = s.start, t.bytes = s.bytes, t.file = s.file
    PROVE  View(t) = View(s)
  BY DEF View, At

LEMMA ViewOnView ==
    ASSUME mode \in Modes, NEW s \in Source, Window(s), NEW t \in Source, Window(t),
           t.size = s.size, t.start = s.start, t.bytes = s.bytes, t.file = View(s)
    PROVE  View(t) = View(s)
  <1>1. \A k : At(t, k) = At(s, k) BY DEF At
  <1>2. \A p \in Positions : View(t)[p] = View(s)[p] BY <1>1, Seeing
  <1>3. View(s) = [p \in Positions |-> View(s)[p]] /\ View(t) = [p \in Positions |-> View(t)[p]]
    BY DEF View
  <1> QED BY <1>2, <1>3

LEMMA EmptyView ==
    ASSUME NEW s \in Source, s.bytes = <<>>
    PROVE  View(s) = s.file
  BY DEF View, Source

LEMMA StoresBytes ==
    ASSUME mode \in Modes, NEW s \in Source, Window(s), NEW n \in 0 .. Len(s.bytes), NEW h
    PROVE  /\ Stored(s, n, h) \in [Positions -> Byte]
           /\ n = Len(s.bytes) /\ h \in Nat /\ ~CutAt(s, h) => Stored(s, n, h) = View(s)
  <1>1. \A k \in 1 .. n : k \in 1 .. Len(s.bytes) /\ s.bytes[k] \in Byte
    BY Slots
  <1>2. \A p \in Positions : s.file[p] \in Byte BY DEF Source
  <1>3. Stored(s, n, h) \in [Positions -> Byte]
    BY <1>1, <1>2 DEF Stored
  <1>4. n = Len(s.bytes) => DOMAIN s.bytes = 1 .. n BY Slots
  <1>5. ASSUME n = Len(s.bytes), h \in Nat, ~CutAt(s, h) PROVE Stored(s, n, h) = View(s)
    <2>1. \A k \in 1 .. n : At(s, k) \in Nat /\ At(s, k) < h
      BY <1>5, Slots, Modal DEF CutAt, Positions
    <2>2. \A p \in Positions : (\E k \in 1 .. n : At(s, k) = p) => p < h BY <2>1
    <2> QED BY <1>4, <1>5, <2>2 DEF Stored, View
  <1> QED BY <1>3, <1>5

\* A file may grow where it should, and does where the medium is not full.
LEMMA Sized ==
    ASSUME NEW k \in Nat, NEW n \in Nat, NEW h \in Sizes(k, n)
    PROVE  h \in Nat /\ (~mode.tight => h = k)
  BY DEF Sizes

LEMMA Marked ==
    ASSUME NEW s \in Source
    PROVE  /\ Done(s) = [s EXCEPT !.ok = TRUE, !.out = <<>>] /\ Done(s) \in Source
           /\ Failed(s) \in Source /\ Done(s).ok /\ ~Failed(s).ok
           /\ \A t \in {Done(s), Failed(s)} :
                /\ t.file = s.file /\ t.size = s.size /\ t.start = s.start /\ t.bytes = s.bytes
                /\ t.dirty = s.dirty /\ t.pos = s.pos /\ t.dead = s.dead /\ t.have = s.have /\ t.short = s.short /\ t.out = <<>>
  <1>1. <<>> \in Seq(Byte) BY EmptySeq
  <1> QED BY <1>1 DEF Source, Done, Failed

LEMMA FlushKeeps ==
    ASSUME mode \in Modes, NEW s, Good(s), NEW t \in Flush(s)
    PROVE  /\ Good(t) /\ Follows(s, t)
           /\ t.start = s.start /\ t.bytes = s.bytes /\ t.pos = s.pos /\ t.size = s.size
           /\ t.out = <<>> /\ (s.dead => t.dead)
           /\ t.ok => ~t.dirty
           /\ ~t.ok => t.dead \/ (mode.ro /\ t.dirty)
  <1>0. s \in Source /\ Window(s) /\ Clean(s) /\ Roomy(s) BY DEF Good
  \* The window is never dropped: it does not run past the end.
  <1>4. ~(~mode.wrap /\ s.start + Len(s.bytes) > s.size)
    BY <1>0, Slots DEF Window, Source
  <1>1. CASE ~s.dirty \/ s.bytes = <<>>
    <2>1. t = Done(s) /\ ~s.dirty BY <1>0, <1>1 DEF Flush, Window
    <2>2. /\ t \in Source /\ t.file = s.file /\ t.size = s.size /\ t.start = s.start
          /\ t.bytes = s.bytes /\ t.dirty = s.dirty /\ t.pos = s.pos /\ t.dead = s.dead /\ t.have = s.have /\ t.short = s.short /\ t.out = <<>>
          /\ t.ok
      BY <1>0, <2>1, Marked
    <2>3. View(t) = View(s) BY <2>2, SameView
    <2> QED BY <1>0, <2>1, <2>2, <2>3 DEF Good, Window, Clean, Roomy, Follows, Fine, LostIn
  <1>2. CASE ~(~s.dirty \/ s.bytes = <<>>) /\ (mode.ro \/ s.dead)
    <2>1. t = Failed(s) BY <1>2, <1>4 DEF Flush
    <2>2. /\ t \in Source /\ t.file = s.file /\ t.size = s.size /\ t.start = s.start
          /\ t.bytes = s.bytes /\ t.dirty = s.dirty /\ t.pos = s.pos /\ t.dead = s.dead /\ t.have = s.have /\ t.short = s.short /\ t.out = <<>>
          /\ ~t.ok
      BY <1>0, <2>1, Marked
    <2>3. View(t) = View(s) BY <2>2, SameView
    <2> QED BY <1>0, <1>2, <2>1, <2>2, <2>3 DEF Good, Window, Clean, Roomy, Follows, Fine, LostIn
  <1>3. CASE ~(~s.dirty \/ s.bytes = <<>>) /\ ~(mode.ro \/ s.dead)
    <2>0. Extent(s) \in Nat
      <3>1. s.start + Len(s.bytes) \in Nat /\ s.size \in Nat BY <1>0, Slots, Modal DEF Source
      <3> QED BY <3>1 DEF Extent, Least
    <2>1. CASE \E h \in Sizes(s.have, Extent(s)) :
                 t = Done([s EXCEPT !.file = Stored(s, Len(s.bytes), h), !.have = h,
                                    !.dirty = FALSE, !.short = @ \/ CutAt(s, h)])
      <3>12. PICK h \in Sizes(s.have, Extent(s)) :
                 t = Done([s EXCEPT !.file = Stored(s, Len(s.bytes), h), !.have = h,
                                    !.dirty = FALSE, !.short = @ \/ CutAt(s, h)])
        BY <2>1
      <3> DEFINE g == Stored(s, Len(s.bytes), h)
                 c == s.short \/ CutAt(s, h)
                 u == [s EXCEPT !.file = g, !.have = h, !.dirty = FALSE, !.short = c]
      <3>0. h \in Nat /\ (~mode.tight => h = s.have) BY <1>0, <2>0, Sized DEF Source
      <3>1. /\ g \in [Positions -> Byte] /\ View(s) \in [Positions -> Byte]
            /\ ~CutAt(s, h) => g = View(s)
        BY <1>0, <3>0, Slots, Seeing, StoresBytes
      <3>6. c \in BOOLEAN /\ (~c => ~s.short /\ ~CutAt(s, h)) BY <1>0 DEF CutAt, Source
      <3>7. ~mode.tight => ~c
        <4> SUFFICES ASSUME ~mode.tight PROVE ~c
          OBVIOUS
        <4>1. h = s.size /\ ~s.short BY <1>0, <3>0 DEF Roomy
        <4>2. \A k \in 1 .. Len(s.bytes) : At(s, k) < s.size /\ At(s, k) \in Nat
          BY <1>0, Slots, Modal DEF Positions
        <4>3. s.size \in Nat BY <1>0, Modal DEF Source
        <4> QED BY <4>1, <4>2, <4>3 DEF CutAt
      <3> HIDE DEF g, c
      <3>2. /\ u \in Source /\ u.file = g /\ u.size = s.size /\ u.start = s.start
            /\ u.bytes = s.bytes /\ ~u.dirty /\ u.pos = s.pos /\ u.dead = s.dead
            /\ u.have = h /\ (u.short <=> c)
        BY <1>0, <3>0, <3>1, <3>6 DEF Source
      <3>8. t = Done(u) BY <3>12 DEF g, c
      <3> HIDE DEF u
      <3>3. /\ t \in Source /\ t.file = g /\ t.size = s.size /\ t.start = s.start
            /\ t.bytes = s.bytes /\ ~t.dirty /\ t.pos = s.pos /\ t.dead = s.dead /\ t.out = <<>> /\ t.ok
            /\ t.have = h /\ (t.short <=> c)
        <4>1. /\ t \in Source /\ t.file = g /\ t.size = s.size /\ t.start = s.start
              /\ t.bytes = s.bytes /\ ~t.dirty /\ t.pos = s.pos /\ t.dead = s.dead /\ t.out = <<>> /\ t.ok
              /\ t.have = h
          BY <3>2, <3>8, Marked
        <4>2. t.short = u.short BY <3>2, <3>8, Marked
        <4> QED BY <3>2, <4>1, <4>2, Zenon
      <3>4. Window(t) BY <1>0, <3>3 DEF Window
      <3>9. Roomy(t) BY <1>0, <3>0, <3>3, <3>7 DEF Roomy
      <3>5. ~c => t.file = View(s) /\ View(t) = View(s) BY <1>0, <3>1, <3>3, <3>4, <3>6, ViewOnView
      <3>10. Clean(t) BY <3>3, <3>5 DEF Clean
      <3>11. Follows(s, t) BY <1>3, <3>3, <3>5, <3>6 DEF Follows, Fine, LostIn
      <3> QED BY <1>3, <3>3, <3>4, <3>9, <3>10, <3>11 DEF Good
    <2>2. ASSUME NEW n \in 0 .. Len(s.bytes), NEW h \in Sizes(s.have, Extent(s)),
                 t = Failed([s EXCEPT !.file = Stored(s, n, h), !.have = h, !.dead = TRUE])
          PROVE  /\ t \in Source /\ t.size = s.size /\ t.start = s.start
                 /\ t.bytes = s.bytes /\ t.dirty = s.dirty /\ t.pos = s.pos /\ t.dead /\ t.out = <<>> /\ ~t.ok
                 /\ t.short = s.short /\ (~mode.tight => t.have = s.have)
      <3> DEFINE g == Stored(s, n, h)
                 u == [s EXCEPT !.file = g, !.have = h, !.dead = TRUE]
      <3>0. h \in Nat /\ (~mode.tight => h = s.have) BY <1>0, <2>0, Sized DEF Source
      <3>1. g \in [Positions -> Byte] BY <1>0, StoresBytes
      <3>4. t = Failed(u) BY <2>2
      <3> HIDE DEF g
      <3>2. /\ u \in Source /\ u.size = s.size /\ u.start = s.start
            /\ u.bytes = s.bytes /\ u.dirty = s.dirty /\ u.pos = s.pos /\ u.dead
            /\ u.have = h /\ u.short = s.short
        BY <1>0, <3>0, <3>1 DEF Source
      <3> HIDE DEF u
      <3> QED BY <3>0, <3>2, <3>4, Marked
    <2>3. CASE \E n \in 0 .. Len(s.bytes), h \in Sizes(s.have, Extent(s)) :
                 t = Failed([s EXCEPT !.file = Stored(s, n, h), !.have = h, !.dead = TRUE])
      <3>1. /\ t \in Source /\ t.size = s.size /\ t.start = s.start
            /\ t.bytes = s.bytes /\ t.dirty = s.dirty /\ t.pos = s.pos /\ t.dead /\ t.out = <<>> /\ ~t.ok
            /\ t.short = s.short /\ (~mode.tight => t.have = s.have)
        BY <2>2, <2>3
      <3> QED BY <1>0, <1>3, <3>1 DEF Good, Window, Clean, Roomy, Follows, Fine, LostIn
    <2>4. PICK h \in Sizes(s.have, Extent(s)) :
             t \in {Done([s EXCEPT !.file = Stored(s, Len(s.bytes), h), !.have = h,
                                   !.dirty = FALSE, !.short = @ \/ CutAt(s, h)])}
                   \cup {Failed([s EXCEPT !.file = Stored(s, n, h), !.have = h, !.dead = TRUE]) :
                         n \in {k \in 0 .. Len(s.bytes) : mode.frail}}
      BY <1>3, <1>4 DEF Flush
    <2> QED BY <2>1, <2>3, <2>4
  <1> QED BY <1>1, <1>2, <1>3

LEMMA FetchKeeps ==
    ASSUME mode \in Modes, NEW s, Good(s), s.pos < s.size, s.dirty => s.dead \/ mode.ro,
           NEW t \in Fetch(s)
    PROVE  /\ Good(t) /\ Follows(s, t)
           /\ t.pos = s.pos /\ t.size = s.size /\ t.out = <<>>
           /\ t.ok => t.start = t.pos /\ (mode.tight \/ t.bytes # <<>>)
           /\ ~t.ok => t.dead
  <1> DEFINE first == Least(CacheSize, s.size - s.pos)
             Had(h) == IF h <= s.pos THEN 0 ELSE Least(first, h - s.pos)
             Fetched(n) == [k \in 1 .. n |-> s.file[(s.pos + k - 1) % s.size]]
             Grown(h) == [s EXCEPT !.have = h]
             From(h, n) == [Grown(h) EXCEPT !.start = s.pos, !.bytes = Fetched(n)]
             Reach == Sizes(s.have, s.pos)
             Goes(h) == mode.wrap /\ Had(h) = s.size - s.pos
             Spoilt(b) == [k \in DOMAIN s.bytes |-> b]
  <1>0. /\ s \in Source /\ Window(s) /\ Clean(s) /\ Roomy(s) /\ Len(s.bytes) \in Nat
        /\ s.size \in 1 .. MaxSize /\ s.size \in Nat \ {0} /\ s.pos \in Nat /\ MaxSize \in Nat
        /\ CacheSize \in Nat \ {0} /\ s.have \in Nat
    BY Slots, Modal DEF Good, Source
  <1>1. /\ first \in 1 .. CacheSize /\ first <= s.size - s.pos
        /\ mode.wrap => CacheSize <= s.size
    BY <1>0 DEF Least, Window
  <1> HIDE DEF first
  \* The file may have grown, and only a full medium gives less than was asked.
  <1>6. ASSUME NEW h \in Reach
        PROVE  /\ h \in Nat /\ (~mode.tight => h = s.have)
               /\ Had(h) \in 0 .. CacheSize /\ Had(h) <= s.size - s.pos
               /\ ~mode.tight => Had(h) = first
    <2>1. h \in Nat /\ (~mode.tight => h = s.have) BY <1>0, Sized
    <2>2. Had(h) \in 0 .. CacheSize /\ Had(h) <= s.size - s.pos
      BY <1>0, <1>1, <2>1 DEF Least
    <2>3. ASSUME ~mode.tight PROVE Had(h) = first
      <3>1. h = s.size BY <1>0, <2>1, <2>3 DEF Roomy
      <3> QED BY <1>0, <1>1, <3>1 DEF Least
    <2> QED BY <2>1, <2>2, <2>3
  \* A window of n bytes, of a medium that may have failed since.
  <1>2. ASSUME ~s.dead, NEW h \in Reach,
               NEW n \in 0 .. CacheSize, mode.wrap \/ n <= s.size - s.pos, mode.tight \/ n # 0,
               NEW u \in Source,
               u.file = s.file, u.size = s.size, u.pos = s.pos, u.dirty = s.dirty,
               u.start = s.pos, u.bytes = Fetched(n), u.have = h, u.short = s.short
        PROVE  Good(u) /\ Follows(s, u) /\ (mode.tight \/ u.bytes # <<>>)
    <2>1. \A k \in 1 .. n : (s.pos + k - 1) % s.size \in Positions
      BY <1>0 DEF Positions
    <2>2. Fetched(n) \in [1 .. n -> Byte] BY <1>0, <2>1 DEF Source
    <2>3. u.bytes \in Seq(Byte) /\ Len(u.bytes) = n BY <1>2, <2>2, IsSeq
    <2>4. u.dirty => u.bytes # <<>>
      <3>1. u.dirty => n # 0 BY <1>2, Modal
      <3> QED BY <2>3, <3>1, EmptySeq
    <2>5. Window(u)
      <3>1. n \in Nat /\ n <= CacheSize /\ mode.wrap \in BOOLEAN BY <1>0, Modal
      <3>2. Len(u.bytes) <= CacheSize BY <2>3, <3>1
      <3>3. mode.wrap => u.start < u.size /\ u.pos < u.size /\ CacheSize <= u.size
        BY <1>0, <1>1, <1>2
      <3>4. ~mode.wrap => u.start + Len(u.bytes) <= u.size /\ u.pos <= u.size
        BY <1>0, <1>2, <2>3, <3>1
      <3> QED BY <2>4, <3>2, <3>3, <3>4 DEF Window
    <2>6. \A k \in 1 .. n : At(u, k) = (s.pos + k - 1) % s.size
      <3> TAKE k \in 1 .. n
      <3>1. CASE mode.wrap BY <1>2, <3>1 DEF At
      <3>2. CASE ~mode.wrap
        <4> DEFINE x == s.pos + k - 1
                   m == s.size
        <4>0. n \in Nat /\ n <= s.size - s.pos BY <1>0, <1>2, <3>2
        <4>1. x \in Nat /\ m \in Nat \ {0} /\ x < m /\ x < 2 * m BY <1>0, <4>0
        <4> HIDE DEF x, m
        <4>2. x % m = x BY <4>1, Round
        <4> QED BY <1>2, <3>2, <4>2 DEF At, x, m
      <3> QED BY <3>1, <3>2
    <2>7. \A k \in 1 .. n : u.bytes[k] = s.file[At(u, k)] BY <1>2, <2>6
    <2>8. View(u) = u.file
      <3>1. \A p \in Positions : View(u)[p] = s.file[p]
        BY <1>2, <2>3, <2>5, <2>7, Seeing
      <3>2. View(u) = [p \in Positions |-> View(u)[p]] BY DEF View
      <3> QED BY <1>0, <1>2, <3>1, <3>2 DEF Source
    <2>9. Roomy(u) BY <1>0, <1>2, <1>6 DEF Roomy
    <2>10. mode.tight \/ u.bytes # <<>> BY <1>2, <2>3, EmptySeq
    <2> QED BY <1>0, <1>2, <2>5, <2>8, <2>9, <2>10 DEF Good, Clean, Roomy, Follows, Fine, LostIn
  <1>3. ASSUME NEW h \in Nat, NEW n \in 0 .. CacheSize
        PROVE  /\ From(h, n) \in Source /\ From(h, n).file = s.file /\ From(h, n).size = s.size
               /\ From(h, n).pos = s.pos /\ From(h, n).dirty = s.dirty /\ From(h, n).dead = s.dead
               /\ From(h, n).start = s.pos /\ From(h, n).bytes = Fetched(n)
               /\ From(h, n).have = h /\ From(h, n).short = s.short
    <2>1. \A k \in 1 .. n : (s.pos + k - 1) % s.size \in Positions
      BY <1>0 DEF Positions
    <2>2. Fetched(n) \in [1 .. n -> Byte] BY <1>0, <2>1 DEF Source
    <2>3. Fetched(n) \in Seq(Byte) BY <2>2, IsSeq
    <2> HIDE DEF Fetched
    <2> QED BY <1>0, <2>3 DEF Source
  <1> HIDE DEF From, Fetched, Grown
  <1>4. CASE s.dead
    <2>1. t = Failed(s) BY <1>4 DEF Fetch
    <2>2. View(Failed(s)) = View(s) BY <1>0, Marked, SameView
    <2> QED BY <1>0, <1>4, <2>1, <2>2, Marked DEF Good, Window, Clean, Roomy, Follows, Fine, LostIn
  <1>5. CASE ~s.dead
    <2>1. ASSUME NEW h \in Reach, NEW n \in 0 .. CacheSize, mode.wrap \/ n <= s.size - s.pos,
                 mode.tight \/ n # 0, t = Done(From(h, n))
          PROVE  /\ Good(t) /\ Follows(s, t) /\ t.pos = s.pos /\ t.size = s.size /\ t.out = <<>>
                 /\ t.start = t.pos /\ t.ok /\ (mode.tight \/ t.bytes # <<>>)
      <3> DEFINE u == From(h, n)
      <3>2. /\ u \in Source /\ u.file = s.file /\ u.size = s.size
            /\ u.pos = s.pos /\ u.dirty = s.dirty /\ u.dead = s.dead
            /\ u.start = s.pos /\ u.bytes = Fetched(n) /\ u.have = h /\ u.short = s.short
        <4>1. h \in Nat BY <1>6
        <4> QED BY <1>3, <4>1
      <3>4. t = Done(u) BY <2>1
      <3> HIDE DEF u, Fetched
      <3>3. /\ t \in Source /\ t.file = s.file /\ t.size = s.size
            /\ t.pos = s.pos /\ t.dirty = s.dirty /\ t.dead = s.dead
            /\ t.start = s.pos /\ t.bytes = Fetched(n) /\ t.ok /\ t.out = <<>>
            /\ t.have = h /\ t.short = s.short
        BY <3>2, <3>4, Marked
      <3> QED BY <1>2, <1>5, <2>1, <3>3
    <2>2. ASSUME NEW h \in Reach, NEW n \in 0 .. CacheSize, mode.wrap \/ n <= s.size - s.pos,
                 mode.tight \/ n # 0, t = Failed([From(h, n) EXCEPT !.dead = TRUE])
          PROVE  /\ Good(t) /\ Follows(s, t) /\ t.pos = s.pos /\ t.size = s.size /\ t.out = <<>>
                 /\ t.dead /\ ~t.ok
      <3> DEFINE v == From(h, n)
                 u == [v EXCEPT !.dead = TRUE]
      <3>1. /\ v \in Source /\ v.file = s.file /\ v.size = s.size
            /\ v.pos = s.pos /\ v.dirty = s.dirty
            /\ v.start = s.pos /\ v.bytes = Fetched(n) /\ v.have = h /\ v.short = s.short
        <4>1. h \in Nat BY <1>6
        <4> QED BY <1>3, <4>1
      <3>3. t = Failed(u) BY <2>2
      <3> HIDE DEF v, Fetched
      <3>2. /\ u \in Source /\ u.file = s.file /\ u.size = s.size
            /\ u.pos = s.pos /\ u.dirty = s.dirty /\ u.dead
            /\ u.start = s.pos /\ u.bytes = Fetched(n) /\ u.have = h /\ u.short = s.short
        BY <3>1 DEF Source
      <3> HIDE DEF u
      <3>4. /\ t \in Source /\ t.file = s.file /\ t.size = s.size
            /\ t.pos = s.pos /\ t.dirty = s.dirty /\ t.dead
            /\ t.start = s.pos /\ t.bytes = Fetched(n) /\ ~t.ok /\ t.out = <<>>
            /\ t.have = h /\ t.short = s.short
        BY <3>2, <3>3, Marked
      <3> QED BY <1>2, <1>5, <2>2, <3>4
    <2>3. ASSUME NEW h \in Reach, NEW b \in Byte,
                 t = Failed([Grown(h) EXCEPT !.bytes = Spoilt(b), !.dead = TRUE])
          PROVE  /\ Good(t) /\ Follows(s, t) /\ t.pos = s.pos /\ t.size = s.size /\ t.out = <<>>
                 /\ t.dead /\ ~t.ok
      <3> DEFINE g == Spoilt(b)
                 v == Grown(h)
                 u == [v EXCEPT !.bytes = g, !.dead = TRUE]
      <3>2. g \in Seq(Byte) /\ Len(g) = Len(s.bytes)
        <4>1. DOMAIN s.bytes = 1 .. Len(s.bytes) BY <1>0, Slots
        <4>2. g \in [1 .. Len(s.bytes) -> Byte] BY <4>1
        <4> HIDE DEF g
        <4> QED BY <1>0, <4>2, IsSeq
      <3>4. t = Failed(u) BY <2>3
      <3>7. /\ v \in Source /\ v.file = s.file /\ v.size = s.size /\ v.start = s.start
            /\ v.pos = s.pos /\ v.dirty = s.dirty /\ v.have = h /\ v.short = s.short
        BY <1>0, <1>6 DEF Source, Grown
      <3> HIDE DEF g, v
      <3>3. /\ u \in Source /\ u.file = s.file /\ u.size = s.size /\ u.start = s.start
            /\ u.pos = s.pos /\ u.dirty = s.dirty /\ u.dead /\ u.bytes = g
            /\ u.have = h /\ u.short = s.short
        BY <3>2, <3>7 DEF Source
      <3> HIDE DEF u
      <3>5. /\ t \in Source /\ t.file = s.file /\ t.size = s.size /\ t.start = s.start
            /\ t.pos = s.pos /\ t.dirty = s.dirty /\ t.dead /\ t.bytes = g /\ ~t.ok /\ t.out = <<>>
            /\ t.have = h /\ t.short = s.short
        BY <3>3, <3>4, Marked
      <3>6. s.bytes # <<>> => g # <<>> BY <1>0, <3>2, EmptySeq DEF Source
      <3>8. Roomy(t) BY <1>0, <1>6, <3>5 DEF Roomy
      <3>9. Window(t) BY <1>0, <3>2, <3>5, <3>6 DEF Window
      <3> QED BY <1>0, <3>5, <3>8, <3>9 DEF Good, Clean, Roomy, Follows, Fine, LostIn
    <2>4. PICK h \in Reach :
             t \in {Done(From(h, IF Goes(h) THEN CacheSize ELSE Had(h)))}
                   \cup {Failed([Grown(h) EXCEPT !.bytes = Spoilt(b), !.dead = TRUE]) :
                         b \in {c \in Byte : mode.frail}}
                   \cup {Failed([From(h, n) EXCEPT !.dead = TRUE]) :
                         n \in {m \in {Had(h)} : mode.frail /\ Goes(h) /\ m < CacheSize}}
      BY <1>5 DEF Fetch, first, From, Grown, Fetched
    <2>5. LET n == IF Goes(h) THEN CacheSize ELSE Had(h)
          IN  n \in 0 .. CacheSize /\ (mode.wrap \/ n <= s.size - s.pos) /\ (mode.tight \/ n # 0)
      BY <1>0, <1>1, <1>6
    <2>6. Had(h) \in 0 .. CacheSize /\ Had(h) <= s.size - s.pos /\ (mode.tight \/ Had(h) # 0)
      BY <1>0, <1>1, <1>6
    <2> HIDE DEF Had, Goes, Reach, Spoilt
    <2>7. CASE t = Done(From(h, IF Goes(h) THEN CacheSize ELSE Had(h)))
      BY <2>1, <2>5, <2>7
    <2>8. CASE \E b \in Byte : t = Failed([Grown(h) EXCEPT !.bytes = Spoilt(b), !.dead = TRUE])
      BY <2>3, <2>8
    <2>9. CASE t = Failed([From(h, Had(h)) EXCEPT !.dead = TRUE])
      BY <2>2, <2>6, <2>9
    <2> QED BY <2>4, <2>7, <2>8, <2>9
  <1> QED BY <1>4, <1>5

LEMMA RefillKeeps ==
    ASSUME mode \in Modes, NEW s, Good(s), s.pos < s.size, NEW t \in Refill(s)
    PROVE  /\ Good(t) /\ Follows(s, t)
           /\ t.pos = s.pos /\ t.size = s.size /\ t.out = <<>>
           /\ t.ok => t.start = t.pos /\ (mode.tight \/ t.bytes # <<>>)
           /\ ~t.ok => t.dead
  <1>1. PICK u \in Flush(s) : t \in Fetch(u)
    BY DEF Refill
  <1>2. /\ Good(u) /\ Follows(s, u) /\ u.pos = s.pos /\ u.size = s.size
        /\ u.dirty => u.dead \/ mode.ro
    BY FlushKeeps
  <1>3. /\ Good(t) /\ Follows(u, t)
        /\ t.pos = u.pos /\ t.size = u.size /\ t.out = <<>>
        /\ t.ok => t.start = t.pos /\ (mode.tight \/ t.bytes # <<>>)
        /\ ~t.ok => t.dead
    BY <1>1, <1>2, FetchKeeps
  <1> QED BY <1>2, <1>3, FollowsOn

\* What only moves the position, or marks how a call went.
LEMMA MovedKeeps ==
    ASSUME mode \in Modes, NEW s, Good(s), NEW t \in Source, t.file = s.file, t.size = s.size,
           t.start = s.start, t.bytes = s.bytes, t.dirty = s.dirty, t.dead = s.dead /\ t.have = s.have /\ t.short = s.short,
           IF mode.wrap THEN t.pos < t.size ELSE t.pos <= t.size
    PROVE  Good(t) /\ Follows(s, t)
  <1>1. View(t) = View(s) BY SameView
  <1> QED BY <1>1, Modal DEF Good, Window, Clean, Roomy, Follows, Fine, LostIn

LEMMA MarkedKeeps ==
    ASSUME mode \in Modes, NEW s, Good(s), NEW t \in {Done(s), Failed(s)}
    PROVE  Good(t) /\ Follows(s, t)
  <1>1. /\ t \in Source /\ t.file = s.file /\ t.size = s.size /\ t.start = s.start
        /\ t.bytes = s.bytes /\ t.dirty = s.dirty /\ t.pos = s.pos /\ t.dead = s.dead /\ t.have = s.have /\ t.short = s.short
    BY Marked DEF Good
  <1>2. IF mode.wrap THEN t.pos < t.size ELSE t.pos <= t.size
    BY <1>1 DEF Good, Window
  <1> QED BY <1>1, <1>2, MovedKeeps

LEMMA NormalKeeps ==
    ASSUME mode \in Modes, NEW s, Good(s)
    PROVE  Normal(s) = s
  <1>1. CASE mode.wrap
    <2> DEFINE x == s.pos
               m == s.size
    <2>1. x \in Nat /\ m \in Nat \ {0} /\ x < m /\ x < 2 * m BY <1>1 DEF Good, Window, Source
    <2> HIDE DEF x, m
    <2>2. x % m = x BY <2>1, Round
    <2> QED BY <1>1, <2>2 DEF Normal, Good, Source, x, m
  <1>2. CASE ~mode.wrap BY <1>2 DEF Normal
  <1> QED BY <1>1, <1>2

LEMMA ToReadKeeps ==
    ASSUME mode \in Modes, NEW s, Good(s), s.pos < s.size, NEW t \in ToRead(s)
    PROVE  /\ Good(t) /\ Follows(s, t)
           /\ t.pos = s.pos /\ t.size = s.size /\ t.out = <<>>
           /\ t.ok => Holds(t, t.pos) \/ (mode.tight /\ t.bytes = <<>>)
           /\ ~t.ok => t.dead
  <1>1. CASE Holds(s, s.pos)
    <2>1. t = Done(s) BY <1>1 DEF ToRead
    <2> QED BY <1>1, <2>1, Marked, MarkedKeeps DEF Good, Holds
  <1>2. CASE ~Holds(s, s.pos)
    <2>1. t \in Refill(s) BY <1>2 DEF ToRead
    <2>2. t \in Source /\ t.bytes # <<>> => Len(t.bytes) \in Nat \ {0} BY EmptySeq DEF Source
    <2> QED BY <2>1, <2>2, RefillKeeps DEF Good, Holds, Source
  <1> QED BY <1>1, <1>2

LEMMA ToWriteKeeps ==
    ASSUME mode \in Modes, NEW s, Good(s), s.pos < s.size, NEW t \in ToWrite(s)
    PROVE  /\ Good(t) /\ Follows(s, t)
           /\ t.pos = s.pos /\ t.size = s.size /\ t.out = <<>>
           /\ t.ok => Extends(t)
           /\ ~t.ok => t.dead
  <1>1. CASE Extends(s)
    <2>1. t = Done(s) BY <1>1 DEF ToWrite
    <2> QED BY <1>1, <2>1, Marked, MarkedKeeps DEF Good, Extends
  <1>2. CASE ~Extends(s)
    <2>1. t \in Refill(s) BY <1>2 DEF ToWrite
    <2>2. /\ Good(t) /\ Follows(s, t)
          /\ t.pos = s.pos /\ t.size = s.size /\ t.out = <<>>
          /\ t.ok => t.start = t.pos
          /\ ~t.ok => t.dead
      BY <2>1, RefillKeeps
    <2>3. Len(t.bytes) \in Nat /\ t.start \in Nat /\ CacheSize \in Nat \ {0}
      BY <2>2, LenProperties, Modal DEF Good, Source
    <2>4. t.ok => Extends(t) BY <2>2, <2>3 DEF Extends
    <2> QED BY <2>2, <2>4
  <1> QED BY <1>1, <1>2

LEMMA SeekKeeps ==
    ASSUME mode \in Modes, NEW s, Good(s), NEW p \in Nat, NEW t \in SeekTo(s, p)
    PROVE  /\ Good(t) /\ Follows(s, t) /\ t.size = s.size /\ t.out = <<>>
           /\ t.ok <=> p < s.size
           /\ t.pos = IF p < s.size THEN p ELSE s.pos
  <1>1. CASE p >= s.size
    <2>1. t = Failed(s) /\ ~(p < s.size) BY <1>1 DEF SeekTo, Good, Source
    <2>2. s \in Source BY DEF Good
    <2> QED BY <2>1, <2>2, Marked, MarkedKeeps
  <1>2. CASE p < s.size
    <2>0. ~(p >= s.size)
      <3>1. s.size \in Nat BY Modal DEF Good, Source
      <3> QED BY <1>2, <3>1
    <2>1. PICK u \in IF Holds(s, p) THEN {s} ELSE Flush(s) : t = Done([u EXCEPT !.pos = p])
      BY <2>0 DEF SeekTo
    <2>2. Good(u) /\ Follows(s, u) /\ u.size = s.size
      <3>1. CASE Holds(s, p) BY <2>1, <3>1 DEF Follows
      <3>2. CASE ~Holds(s, p) BY <2>1, <3>2, FlushKeeps
      <3> QED BY <3>1, <3>2
    <2> DEFINE v == [u EXCEPT !.pos = p]
    <2>3. /\ v \in Source /\ v.file = u.file /\ v.size = u.size /\ v.start = u.start
          /\ v.bytes = u.bytes /\ v.dirty = u.dirty /\ v.dead = u.dead /\ v.have = u.have /\ v.short = u.short /\ v.pos = p
      BY <2>2 DEF Good, Source
    <2> HIDE DEF v
    <2>4. t = Done(v) BY <2>1 DEF v
    <2>5. /\ t \in Source /\ t.file = u.file /\ t.size = u.size /\ t.start = u.start
          /\ t.bytes = u.bytes /\ t.dirty = u.dirty /\ t.dead = u.dead /\ t.have = u.have /\ t.short = u.short /\ t.pos = p
          /\ t.ok /\ t.out = <<>>
      BY <2>3, <2>4, Marked
    <2>6. IF mode.wrap THEN t.pos < t.size ELSE t.pos <= t.size
      BY <1>2, <2>2, <2>5 DEF Good, Source
    <2>7. Good(t) /\ Follows(u, t) BY <2>2, <2>5, <2>6, MovedKeeps
    <2> QED BY <1>2, <2>2, <2>5, <2>7, FollowsOn
  <1> QED BY <1>1, <1>2 DEF Good, Source

-----------------------------------------------------------------------------
(* An access.                                                               *)

\* Where an access of n bytes leaves the position.
Past(s, n) == IF ~mode.inc THEN s.pos ELSE IF mode.wrap THEN (s.pos + n) % s.size ELSE s.pos + n

\* w is v with bs written from position at of a storage of n bytes.
Overwritten(v, w, at, bs, n) ==
    /\ \A i \in DOMAIN bs : w[(at + i - 1) % n] = bs[i]
    /\ \A p \in Positions : (\A i \in DOMAIN bs : (at + i - 1) % n # p) => w[p] = v[p]

LEMMA AdvanceIs ==
    ASSUME mode \in Modes, NEW s \in Source, NEW n \in Nat
    PROVE  /\ Advance(s, n) \in Source /\ Advance(s, n).pos = Past(s, n)
           /\ Advance(s, n).file = s.file /\ Advance(s, n).size = s.size
           /\ Advance(s, n).start = s.start /\ Advance(s, n).bytes = s.bytes
           /\ Advance(s, n).dirty = s.dirty /\ Advance(s, n).dead = s.dead
           /\ Advance(s, n).have = s.have /\ Advance(s, n).short = s.short
           /\ Advance(s, n).ok = s.ok /\ Advance(s, n).out = s.out
  <1> DEFINE q == IF mode.wrap THEN (s.pos + n) % s.size ELSE s.pos + n
  <1>1. q \in Nat
    <2>1. s.pos \in Nat /\ s.size \in Nat \ {0} BY DEF Source
    <2>2. s.pos + n \in Nat /\ (s.pos + n) % s.size \in Nat BY <2>1
    <2> QED BY <2>2
  <1> HIDE DEF q
  <1>2. CASE mode.inc
    <2>1. Advance(s, n) = [s EXCEPT !.pos = q] /\ Past(s, n) = q BY <1>2 DEF Advance, Past, q
    <2> QED BY <1>1, <2>1 DEF Source
  <1>3. CASE ~mode.inc
    <2>1. Advance(s, n) = s /\ Past(s, n) = s.pos BY <1>3 DEF Advance, Past
    <2> QED BY <2>1
  <1> QED BY <1>2, <1>3

LEMMA PastInside ==
    ASSUME mode \in Modes, NEW s, Good(s), s.pos < s.size, NEW n \in Nat, mode.wrap \/ s.pos + n <= s.size
    PROVE  IF mode.wrap THEN Past(s, n) < s.size ELSE Past(s, n) <= s.size
  <1>1. s.size \in Nat \ {0} /\ s.pos \in Nat BY DEF Good, Source
  <1>2. (s.pos + n) % s.size < s.size BY <1>1
  <1> QED BY <1>1, <1>2 DEF Past

\* The k-th byte of the window in the terms of ByteArray.
LEMMA PlaceOfByte ==
    ASSUME mode \in Modes, NEW s \in Source, Window(s), NEW k \in 1 .. Len(s.bytes)
    PROVE  At(s, k) = (s.start + k - 1) % s.size
  <1>1. CASE mode.wrap BY <1>1 DEF At
  <1>2. CASE ~mode.wrap
    <2> DEFINE x == s.start + k - 1
               m == s.size
    <2>1. At(s, k) = x BY <1>2 DEF At
    <2>2. x \in Nat /\ m \in Nat \ {0} /\ x < m /\ x < 2 * m
      BY <2>1, Slots DEF Source, Positions
    <2> HIDE DEF x, m
    <2>3. x % m = x BY <2>2, Round
    <2> QED BY <2>1, <2>3 DEF x, m
  <1> QED BY <1>1, <1>2

\* A read that finds nothing proves the file too short.
LEMMA BareKeeps ==
    ASSUME mode \in Modes, NEW s, Good(s), mode.tight, NEW t, t = Bare(s)
    PROVE  Good(t) /\ Follows(s, t) /\ t.pos = s.pos /\ t.size = s.size /\ t.out = <<>> /\ ~t.ok /\ t.short
  <1> DEFINE u == [s EXCEPT !.short = TRUE]
  <1>0. s \in Source /\ Window(s) BY DEF Good
  <1>1. /\ u \in Source /\ u.file = s.file /\ u.size = s.size /\ u.start = s.start /\ u.bytes = s.bytes
        /\ u.dirty = s.dirty /\ u.pos = s.pos /\ u.dead = s.dead /\ u.short
    BY <1>0 DEF Source
  <1>2. t = Failed(u) BY DEF Bare
  <1> HIDE DEF u
  <1>3. /\ t \in Source /\ t.file = s.file /\ t.size = s.size /\ t.start = s.start /\ t.bytes = s.bytes
        /\ t.dirty = s.dirty /\ t.pos = s.pos /\ t.dead = s.dead /\ t.short /\ ~t.ok /\ t.out = <<>>
    BY <1>1, <1>2, Marked
  <1> QED BY <1>0, <1>3 DEF Good, Window, Clean, Roomy, Follows, Fine, LostIn

LEMMA TakeKeeps ==
    ASSUME mode \in Modes, NEW s, Good(s), NEW n \in Nat \ {0}, NEW t \in Take(s, n)
    PROVE  /\ Good(t) /\ Follows(s, t) /\ t.size = s.size
           /\ ~t.ok => t.pos = s.pos /\ t.out = <<>> /\ (t.dead \/ t.short \/ AtEnd(s))
           /\ t.ok => /\ s.pos < s.size /\ Len(t.out) \in 1 .. n /\ Len(t.out) <= s.size
                      /\ mode.wrap \/ s.pos + Len(t.out) <= s.size
                      /\ t.out = [i \in 1 .. Len(t.out) |-> View(t)[(s.pos + i - 1) % s.size]]
                      /\ t.pos = Past(s, Len(t.out))
  <1>0. s \in Source BY DEF Good
  <1>1. CASE AtEnd(s)
    <2>1. t = Failed(s) BY <1>1 DEF Take
    <2> QED BY <1>0, <1>1, <2>1, Marked, MarkedKeeps
  <1>2. CASE ~AtEnd(s)
    <2>1. Normal(s) = s BY NormalKeeps
    <2> DEFINE from(u) == u.pos - u.start
               len(u) == Least(n, Len(u.bytes) - from(u))
    <2>2. PICK u \in ToRead(s) :
              t = IF ~u.ok THEN u
                  ELSE IF u.bytes = <<>> THEN Bare(u)
                  ELSE Advance([u EXCEPT !.out = SubSeq(u.bytes, from(u) + 1, from(u) + len(u))], len(u))
      BY <1>2, <2>1 DEF Take
    <2>3. s.pos < s.size BY <1>0, <1>2 DEF AtEnd, Good, Window, Source
    <2>4. /\ Good(u) /\ Follows(s, u) /\ u.pos = s.pos /\ u.size = s.size /\ u.out = <<>>
          /\ u.ok => Holds(u, u.pos) \/ (mode.tight /\ u.bytes = <<>>)
          /\ ~u.ok => u.dead
      BY <2>3, ToReadKeeps
    <2>5. CASE ~u.ok BY <2>2, <2>4, <2>5
    <2>7. CASE u.ok /\ u.bytes = <<>>
      <3>1. t = Bare(u) BY <2>2, <2>7
      <3>2. ~Holds(u, u.pos)
        <4>1. u.start \in Nat /\ u.pos \in Nat /\ Len(u.bytes) = 0 BY <2>4, <2>7, EmptySeq DEF Good, Source
        <4> QED BY <4>1 DEF Holds
      <3>3. Good(t) /\ Follows(u, t) /\ t.pos = u.pos /\ t.size = u.size /\ t.out = <<>> /\ ~t.ok /\ t.short
        BY <2>4, <2>7, <3>1, <3>2, BareKeeps
      <3> QED BY <2>4, <3>3, FollowsOn
    <2>6. CASE u.ok /\ u.bytes # <<>>
      <3> DEFINE f == from(u)
                 l == len(u)
                 out == SubSeq(u.bytes, f + 1, f + l)
                 v == [u EXCEPT !.out = out]
      <3>1. /\ u \in Source /\ Window(u) /\ Len(u.bytes) \in Nat /\ u.start \in Nat /\ u.pos \in Nat
            /\ u.size \in Nat \ {0} /\ CacheSize \in Nat
            /\ u.start <= u.pos /\ u.pos < u.start + Len(u.bytes)
        BY <2>4, <2>6, Slots, Modal DEF Good, Holds, Source
      <3>2. f \in Nat /\ f = u.pos - u.start /\ l \in 1 .. n /\ f + l <= Len(u.bytes)
        BY <3>1 DEF Least
      <3> HIDE DEF f, l
      <3>3. l <= u.size /\ (mode.wrap \/ u.pos + l <= u.size)
        <4>1. CASE mode.wrap BY <3>1, <3>2, <4>1 DEF Window
        <4>2. CASE ~mode.wrap BY <3>1, <3>2, <4>2 DEF Window
        <4> QED BY <4>1, <4>2
      <3>4. /\ out \in Seq(Byte) /\ Len(out) = l
            /\ \A i \in 1 .. l : out[i] = u.bytes[f + i]
        <4>1. \A i \in f + 1 .. f + l : u.bytes[i] \in Byte
          BY <3>1, <3>2, Slots
        <4>2. f + 1 \in Int /\ f + l \in Int /\ f + 1 <= f + l BY <3>2
        <4>3. /\ out \in Seq(Byte) /\ Len(out) = (f + l) - (f + 1) + 1
              /\ \A i \in 1 .. (f + l) - (f + 1) + 1 : out[i] = u.bytes[(f + 1) + i - 1]
          BY <4>1, <4>2, SubSeqProperties
        <4>4. (f + l) - (f + 1) + 1 = l /\ \A i \in 1 .. l : (f + 1) + i - 1 = f + i BY <3>2
        <4> HIDE DEF out
        <4> QED BY <4>3, <4>4
      <3> HIDE DEF out
      <3>5. \A i \in 1 .. l : out[i] = View(u)[(s.pos + i - 1) % s.size]
        <4> TAKE i \in 1 .. l
        <4>1. f + i \in 1 .. Len(u.bytes) BY <3>1, <3>2
        <4>2. At(u, f + i) = (u.start + (f + i) - 1) % u.size BY <3>1, <4>1, PlaceOfByte
        <4>3. u.start + (f + i) - 1 = s.pos + i - 1
          <5>1. u.start \in Int /\ u.pos \in Int /\ f \in Int /\ i \in Int BY <3>1, <3>2
          <5>2. u.pos = s.pos /\ f = u.pos - u.start BY <2>4, <3>2
          <5> QED BY <5>1, <5>2
        <4>4. View(u)[At(u, f + i)] = u.bytes[f + i] BY <3>1, <4>1, Seeing
        <4> QED BY <2>4, <3>4, <4>2, <4>3, <4>4
      <3>6. /\ v \in Source /\ v.file = u.file /\ v.size = u.size /\ v.start = u.start
            /\ v.bytes = u.bytes /\ v.dirty = u.dirty /\ v.dead = u.dead /\ v.have = u.have /\ v.short = u.short /\ v.pos = u.pos
            /\ v.out = out /\ v.ok
        BY <2>6, <3>1, <3>4 DEF Source
      <3> HIDE DEF v
      <3>7. t = Advance(v, l) BY <2>2, <2>6 DEF v, out, f, l
      <3>8. /\ t \in Source /\ t.file = u.file /\ t.size = u.size /\ t.start = u.start
            /\ t.bytes = u.bytes /\ t.dirty = u.dirty /\ t.dead = u.dead /\ t.have = u.have /\ t.short = u.short
            /\ t.out = out /\ t.ok /\ t.pos = Past(v, l)
        <4>1. l \in Nat BY <3>2
        <4> QED BY <3>6, <3>7, <4>1, AdvanceIs
      <3>9. Past(v, l) = Past(s, l) BY <2>4, <3>6 DEF Past
      <3>10. IF mode.wrap THEN t.pos < t.size ELSE t.pos <= t.size
        BY <2>3, <2>4, <3>2, <3>3, <3>8, <3>9, PastInside
      <3>11. Good(t) /\ Follows(u, t) BY <2>4, <3>8, <3>10, MovedKeeps
      <3>12. View(t) = View(u) BY <3>8, SameView
      <3>13. t.out = [i \in 1 .. Len(t.out) |-> View(t)[(s.pos + i - 1) % s.size]]
        <4>1. out = [i \in 1 .. l |-> out[i]] BY <3>4, LenProperties
        <4>2. Len(t.out) = l /\ t.out = out BY <3>4, <3>8
        <4> QED BY <3>5, <3>12, <4>1, <4>2
      <3> QED
        BY <2>3, <2>4, <3>2, <3>3, <3>4, <3>8, <3>9, <3>11, <3>13, FollowsOn
    <2> QED BY <2>5, <2>6, <2>7
  <1> QED BY <1>1, <1>2

LEMMA PutKeeps ==
    ASSUME mode \in Modes, NEW s, Good(s), NEW data \in Seq(Byte), data # <<>>,
           mode.wrap \/ s.pos >= s.size \/ s.pos + Len(data) <= s.size, NEW t \in Put(s, data)
    PROVE  /\ Good(t) /\ t.size = s.size /\ t.out = <<>>
           /\ ~t.ok => Follows(s, t) /\ t.pos = s.pos /\ (t.dead \/ t.short \/ AtEnd(s))
           /\ t.ok => \E n \in 1 .. Len(data) :
                 /\ n = Least(Len(data), CacheSize - (s.pos - t.start))
                 /\ s.pos < s.size /\ n <= s.size /\ (mode.wrap \/ s.pos + n <= s.size)
                 /\ t.dirty /\ t.pos = Past(s, n)
                 /\ Fine(t) => Fine(s) /\ Overwritten(View(s), View(t), s.pos, SubSeq(data, 1, n), s.size)
  <1>0. s \in Source BY DEF Good
  <1>1. CASE AtEnd(s)
    <2>1. t = Failed(s) BY <1>1 DEF Put
    <2> QED BY <1>0, <1>1, <2>1, Marked, MarkedKeeps
  <1>2. CASE ~AtEnd(s)
    <2>1. Normal(s) = s BY NormalKeeps
    <2>2. PICK u \in ToWrite(s) :
              t = IF ~u.ok THEN u
                  ELSE Advance([u EXCEPT !.bytes = Overlaid(u, SubSeq(data, 1, Fits(u, data))),
                                         !.dirty = TRUE], Fits(u, data))
      BY <1>2, <2>1 DEF Put
    <2>3. s.pos < s.size BY <1>0, <1>2 DEF AtEnd, Good, Window, Source
    <2>4. /\ Good(u) /\ Follows(s, u) /\ u.pos = s.pos /\ u.size = s.size /\ u.out = <<>>
          /\ u.ok => Extends(u)
          /\ ~u.ok => u.dead
      BY <2>3, ToWriteKeeps
    <2>5. CASE ~u.ok BY <2>2, <2>4, <2>5
    <2>6. CASE u.ok
      <3> DEFINE f == u.pos - u.start
                 n == Fits(u, data)
                 bs == SubSeq(data, 1, n)
                 g == Overlaid(u, bs)
                 v == [u EXCEPT !.bytes = g, !.dirty = TRUE]
      <3>1. /\ u \in Source /\ Window(u) /\ Len(u.bytes) \in Nat /\ u.start \in Nat /\ u.pos \in Nat
            /\ u.size \in Nat \ {0} /\ CacheSize \in Nat
            /\ u.start <= u.pos /\ u.pos <= u.start + Len(u.bytes) /\ u.pos < u.start + CacheSize
        BY <2>4, <2>6, Slots, Modal DEF Good, Extends, Source
      <3>2. Len(data) \in Nat \ {0} BY EmptySeq, LenProperties
      <3>3. /\ f \in Nat /\ f = u.pos - u.start /\ n \in 1 .. Len(data) /\ f + n <= CacheSize
            /\ n = Least(Len(data), CacheSize - (u.pos - u.start)) /\ f <= Len(u.bytes)
        BY <3>1, <3>2 DEF Least, Fits
      <3> HIDE DEF f, n
      <3>4. /\ n <= u.size /\ (mode.wrap \/ u.pos + n <= u.size)
        <4>1. CASE mode.wrap BY <3>1, <3>3, <4>1 DEF Window
        <4>2. CASE ~mode.wrap
          <5>1. s.pos + Len(data) <= s.size BY <2>3, <4>2, <3>1, <2>4
          <5>2. u.pos + Len(data) <= u.size BY <2>4, <5>1
          <5>3. n \in Nat /\ n <= Len(data) /\ u.pos \in Nat /\ u.size \in Nat /\ Len(data) \in Nat
            BY <3>1, <3>2, <3>3
          <5> QED BY <5>2, <5>3
        <4> QED BY <4>1, <4>2
      <3>5. bs \in Seq(Byte) /\ Len(bs) = n /\ DOMAIN bs = 1 .. n /\ \A i \in 1 .. n : bs[i] \in Byte
        <4>1. \A i \in 1 .. n : data[i] \in Byte
          <5>1. \A i \in 1 .. n : i \in 1 .. Len(data) BY <3>2, <3>3
          <5> QED BY <5>1, ElementOfSeq
        <4>2. 1 \in Int /\ n \in Int /\ 1 <= n + 1 BY <3>3
        <4>3. n - 1 + 1 = n BY <3>3
        <4>4. bs \in Seq(Byte) /\ Len(bs) = n
          BY <4>1, <4>2, <4>3, SubSeqProperties
        <4> HIDE DEF bs
        <4> QED BY <4>4, LenProperties, ElementOfSeq
      <3> HIDE DEF bs
      <3> DEFINE top == IF f + n > Len(u.bytes) THEN f + n ELSE Len(u.bytes)
      <3>6. /\ g = [k \in 1 .. top |-> IF k > f /\ k <= f + n THEN bs[k - f] ELSE u.bytes[k]]
            /\ top \in Nat /\ top >= f + n /\ top >= Len(u.bytes) /\ top <= CacheSize
            /\ top = f + n \/ top = Len(u.bytes)
        <4>1. /\ top \in Nat /\ top >= f + n /\ top >= Len(u.bytes)
              /\ top = f + n \/ top = Len(u.bytes)
          <5>1. f + n \in Nat /\ Len(u.bytes) \in Nat BY <3>1, <3>3
          <5> DEFINE x == f + n
                     y == Len(u.bytes)
          <5> HIDE DEF x, y
          <5>2. top = IF x > y THEN x ELSE y BY DEF top, x, y
          <5>3. x \in Nat /\ y \in Nat BY <5>1 DEF x, y
          <5>4. top \in Nat /\ top >= x /\ top >= y /\ (top = x \/ top = y) BY <5>2, <5>3
          <5> QED BY <5>4 DEF x, y
        <4>2. Len(u.bytes) <= CacheSize BY <3>1 DEF Window
        <4>3. top <= CacheSize BY <3>1, <3>3, <4>2
        <4>4. Overlaid(u, bs) = [k \in 1 .. top |-> IF k > f /\ k <= f + n THEN bs[k - f] ELSE u.bytes[k]]
          BY <3>5 DEF Overlaid, f
        <4> QED BY <4>1, <4>3, <4>4
      <3> HIDE DEF g, top
      <3>7. g \in Seq(Byte) /\ Len(g) = top /\ g # <<>>
        <4>1. \A k \in 1 .. top : g[k] \in Byte
          <5> TAKE k \in 1 .. top
          <5>1. CASE k > f /\ k <= f + n
            <6>1. k - f \in 1 .. n BY <3>3, <5>1
            <6> QED BY <3>5, <3>6, <5>1, <6>1
          <5>2. CASE ~(k > f /\ k <= f + n)
            <6>1. k \in 1 .. Len(u.bytes) BY <3>1, <3>3, <3>6, <5>2
            <6> QED BY <3>1, <3>6, <5>2, <6>1, Slots
          <5> QED BY <5>1, <5>2
        <4>2. g \in [1 .. top -> Byte] BY <3>6, <4>1
        <4>3. g \in Seq(Byte) /\ Len(g) = top BY <3>6, <4>2, IsSeq
        <4>4. top >= 1 BY <3>3, <3>6
        <4> QED BY <3>6, <4>3, <4>4, EmptySeq
      <3>8. /\ v \in Source /\ v.file = u.file /\ v.size = u.size /\ v.start = u.start
            /\ v.bytes = g /\ v.dirty /\ v.dead = u.dead /\ v.have = u.have /\ v.short = u.short /\ v.pos = u.pos
            /\ v.out = <<>> /\ v.ok
        BY <2>4, <2>6, <3>1, <3>7 DEF Source
      <3> HIDE DEF v
      <3>9. t = Advance(v, n) BY <2>2, <2>6 DEF v, g, bs, n
      <3>10. /\ t \in Source /\ t.file = u.file /\ t.size = u.size /\ t.start = u.start
             /\ t.bytes = g /\ t.dirty /\ t.dead = u.dead /\ t.have = u.have /\ t.short = u.short
             /\ t.out = <<>> /\ t.ok /\ t.pos = Past(v, n)
        <4>1. n \in Nat BY <3>3
        <4> QED BY <3>8, <3>9, <4>1, AdvanceIs
      <3>11. Past(v, n) = Past(s, n) BY <2>4, <3>8 DEF Past
      <3>12. IF mode.wrap THEN t.pos < t.size ELSE t.pos <= t.size
        BY <2>3, <2>4, <3>3, <3>4, <3>10, <3>11, PastInside
      <3>13. Window(t)
        <4>1. Len(t.bytes) <= CacheSize BY <3>6, <3>7, <3>10
        <4>2. mode.wrap => t.start < t.size /\ t.pos < t.size /\ CacheSize <= t.size
          BY <3>1, <3>10, <3>12 DEF Window
        <4>3. ~mode.wrap => t.start + Len(t.bytes) <= t.size /\ t.pos <= t.size
          <5>1. ~mode.wrap => u.start + Len(u.bytes) <= u.size BY <3>1 DEF Window
          <5>2. ~mode.wrap => u.start + (f + n) <= u.size 
            <6>1. ~mode.wrap => u.pos + n <= u.size BY <3>4
            <6>2. u.start + (f + n) = u.pos + n
              <7>1. u.start \in Int /\ u.pos \in Int /\ n \in Int BY <3>1, <3>3
              <7> QED BY <3>3, <7>1
            <6> QED BY <6>1, <6>2
          <5> QED BY <3>6, <3>7, <3>10, <3>12, <5>1, <5>2
        <4> QED BY <3>7, <3>10, <4>1, <4>2, <4>3 DEF Window
      <3>14. Roomy(t) BY <2>4, <3>10 DEF Good, Roomy
      <3>15. Good(t) BY <3>10, <3>13, <3>14 DEF Good, Clean
      <3>16. Overwritten(View(u), View(t), s.pos, bs, s.size)
        <4>0. \A k : At(t, k) = At(u, k) BY <3>10 DEF At
        <4>1. \A i \in 1 .. n : /\ f + i \in 1 .. top /\ g[f + i] = bs[i]
                                /\ At(t, f + i) = (s.pos + i - 1) % s.size
          <5> TAKE i \in 1 .. n
          <5>1. f + i \in 1 .. top /\ f + i > f /\ f + i <= f + n /\ (f + i) - f = i
            BY <3>3, <3>6
          <5>2. g[f + i] = bs[i] BY <3>6, <5>1
          <5>3. At(t, f + i) = (t.start + (f + i) - 1) % t.size
            BY <3>7, <3>10, <3>13, <5>1, PlaceOfByte
          <5>4. u.start \in Int /\ u.pos \in Int /\ f \in Int /\ i \in Int BY <3>1, <3>3
          <5>5. u.pos = s.pos /\ f = u.pos - u.start BY <2>4, <3>3
          <5>6. u.start + (f + i) - 1 = s.pos + i - 1 BY <5>4, <5>5
          <5> QED BY <2>4, <3>10, <5>1, <5>2, <5>3, <5>6
        <4>2. \A i \in 1 .. n : View(t)[(s.pos + i - 1) % s.size] = bs[i]
          BY <3>7, <3>10, <3>13, <4>1, Seeing
        <4>3. ASSUME NEW p \in Positions, \A i \in 1 .. n : (s.pos + i - 1) % s.size # p
              PROVE  View(t)[p] = View(u)[p]
          <5>1. CASE \E k \in 1 .. top : At(t, k) = p
            <6>1. PICK k \in 1 .. top : At(t, k) = p BY <5>1
            <6>2. ~(k > f /\ k <= f + n)
              <7>1. ASSUME k > f, k <= f + n PROVE FALSE
                <8>1. k - f \in 1 .. n /\ f + (k - f) = k BY <3>3, <7>1
                <8> QED BY <4>1, <4>3, <6>1, <8>1
              <7> QED BY <7>1
            <6>3. k \in 1 .. Len(u.bytes) BY <3>1, <3>3, <3>6, <6>2
            <6>4. g[k] = u.bytes[k] BY <3>6, <6>2
            <6>5. View(t)[p] = g[k] BY <3>7, <3>10, <3>13, <6>1, Seeing
            <6>6. View(u)[p] = u.bytes[k] BY <3>1, <4>0, <6>1, <6>3, Seeing
            <6> QED BY <6>4, <6>5, <6>6
          <5>2. CASE ~(\E k \in 1 .. top : At(t, k) = p)
            <6>1. View(t)[p] = t.file[p] BY <3>7, <3>10, <3>13, <5>2, Seeing
            <6>2. \A k \in 1 .. Len(u.bytes) : k \in 1 .. top BY <3>1, <3>6
            <6>3. View(u)[p] = u.file[p] BY <3>1, <4>0, <5>2, <6>2, Seeing
            <6> QED BY <3>10, <6>1, <6>3
          <5> QED BY <5>1, <5>2
        <4> QED BY <3>5, <4>2, <4>3 DEF Overwritten
      <3>17. Fine(t) => Fine(s) /\ View(u) = View(s)
        <4>1. Fine(t) => Fine(u) BY <3>10, Modal DEF Fine, LostIn
        <4> QED BY <2>4, <4>1 DEF Follows
      <3>18. /\ n = Least(Len(data), CacheSize - (s.pos - t.start))
             /\ s.pos < s.size /\ n <= s.size /\ (mode.wrap \/ s.pos + n <= s.size)
             /\ t.dirty /\ t.pos = Past(s, n)
             /\ Fine(t) => Fine(s) /\ Overwritten(View(s), View(t), s.pos, SubSeq(data, 1, n), s.size)
        BY <2>3, <2>4, <3>3, <3>4, <3>10, <3>11, <3>16, <3>17 DEF bs
      <3> QED BY <2>4, <3>3, <3>10, <3>15, <3>18
    <2> QED BY <2>5, <2>6
  <1> QED BY <1>1, <1>2

LEMMA SkipKeeps ==
    ASSUME mode \in Modes, NEW s, Good(s), NEW t \in Skip(s)
    PROVE  /\ Good(t) /\ Follows(s, t) /\ t.size = s.size /\ t.out = <<>>
           /\ t.pos = s.pos \/ t.pos = (s.pos + 1) % s.size
           /\ t.ok => t.pos = (s.pos + 1) % s.size
           /\ ~t.ok => t.dead \/ t.short \/ (t.pos = s.pos /\ ~mode.wrap /\ s.pos + 1 >= s.size)
  <1>0. s \in Source /\ s.pos \in Nat /\ s.size \in Nat \ {0} BY DEF Good, Source
  <1>1. CASE ~mode.wrap /\ s.pos + 1 >= s.size
    <2>1. t = Failed(s) BY <1>1 DEF Skip
    <2> QED BY <1>0, <1>1, <2>1, Marked, MarkedKeeps
  <1>2. CASE ~(~mode.wrap /\ s.pos + 1 >= s.size)
    <2> DEFINE q == (s.pos + 1) % s.size
               u == [s EXCEPT !.pos = q]
    <2>1. PICK w \in ToRead(u) : t = IF w.ok /\ w.bytes = <<>> THEN Bare(w) ELSE w BY <1>2 DEF Skip
    <2>2. q \in Nat /\ q < s.size BY <1>0
    <2> HIDE DEF q
    <2>3. /\ u \in Source /\ u.file = s.file /\ u.size = s.size /\ u.start = s.start
          /\ u.bytes = s.bytes /\ u.dirty = s.dirty /\ u.dead = s.dead /\ u.have = s.have /\ u.short = s.short /\ u.pos = q
      BY <1>0, <2>2 DEF Source
    <2> HIDE DEF u
    <2>4. Good(u) /\ Follows(s, u) BY <1>0, <2>2, <2>3, MovedKeeps
    <2>5. /\ Good(w) /\ Follows(u, w) /\ w.pos = u.pos /\ w.size = u.size /\ w.out = <<>>
          /\ w.ok => Holds(w, w.pos) \/ (mode.tight /\ w.bytes = <<>>)
          /\ ~w.ok => w.dead
      BY <2>1, <2>2, <2>3, <2>4, ToReadKeeps
    <2>6. CASE ~(w.ok /\ w.bytes = <<>>)
      BY <2>1, <2>3, <2>4, <2>5, <2>6, FollowsOn DEF q
    <2>7. CASE w.ok /\ w.bytes = <<>>
      <3>1. t = Bare(w) BY <2>1, <2>7
      <3>2. ~Holds(w, w.pos)
        <4>1. w.start \in Nat /\ w.pos \in Nat /\ Len(w.bytes) = 0 BY <2>5, <2>7, EmptySeq DEF Good, Source
        <4> QED BY <4>1 DEF Holds
      <3>3. Good(t) /\ Follows(w, t) /\ t.pos = w.pos /\ t.size = w.size /\ t.out = <<>> /\ ~t.ok /\ t.short
        BY <2>5, <2>7, <3>1, <3>2, BareKeeps
      <3>4. Follows(s, t) BY <2>4, <2>5, <3>3, FollowsOn
      <3> QED BY <2>3, <2>5, <3>3, <3>4 DEF q
    <2> QED BY <2>6, <2>7
  <1> QED BY <1>1, <1>2

\* What a flush of all devices does, and the destructor's.
LEMMA FlushFileKeeps ==
    ASSUME mode \in Modes, NEW s, Good(s), NEW t \in FlushFile(s)
    PROVE  Good(t) /\ Follows(s, t) /\ t.pos = s.pos /\ t.out = <<>> /\ (t.ok => ~t.dirty)
  <1>1. CASE t \in Flush(s) BY <1>1, FlushKeeps
  <1>2. CASE \E u \in Flush(s) : t = Failed(u)
    <2>1. PICK u \in Flush(s) : t = Failed(u) BY <1>2
    <2>2. Good(u) /\ Follows(s, u) /\ u.pos = s.pos BY FlushKeeps
    <2>3. t.pos = u.pos /\ t.out = <<>> /\ ~t.ok BY <2>1, <2>2, Marked DEF Good
    <2>4. Good(t) /\ Follows(u, t) BY <2>1, <2>2, MarkedKeeps
    <2> QED BY <2>2, <2>3, <2>4, FollowsOn
  <1> QED BY <1>1, <1>2 DEF FlushFile

LEMMA DroppedKeeps ==
    ASSUME mode \in Modes, NEW s, Good(s), ~s.dirty
    PROVE  /\ Good(Dropped(s)) /\ Follows(s, Dropped(s))
           /\ Dropped(s).file = s.file /\ Dropped(s).size = s.size /\ Dropped(s).pos = s.pos
           /\ Dropped(s).dead = s.dead /\ Dropped(s).have = s.have /\ Dropped(s).short = s.short /\ ~Dropped(s).dirty /\ Dropped(s).bytes = <<>>
  <1>1. s \in Source /\ Window(s) /\ Clean(s) BY DEF Good
  <1>2. <<>> \in Seq(Byte) /\ Len(<<>>) = 0 BY EmptySeq
  <1>3. /\ Dropped(s) \in Source
        /\ Dropped(s).file = s.file /\ Dropped(s).size = s.size /\ Dropped(s).pos = s.pos
        /\ Dropped(s).dead = s.dead /\ Dropped(s).have = s.have /\ Dropped(s).short = s.short /\ ~Dropped(s).dirty /\ Dropped(s).bytes = <<>>
        /\ Dropped(s).start = 0
    BY <1>1, <1>2 DEF Dropped, Source
  <1>4. Window(Dropped(s))
    <2>1. s.size \in Nat \ {0} BY <1>1, Modal DEF Source
    <2> QED BY <1>1, <1>2, <1>3, <2>1, Modal DEF Window
  <1>5. View(Dropped(s)) = s.file BY <1>3, EmptyView
  <1> QED BY <1>1, <1>3, <1>4, <1>5 DEF Good, Clean, Roomy, Follows, Fine, LostIn

LEMMA ResizeKeeps ==
    ASSUME mode \in Modes, mode.resize, NEW s, Good(s), NEW n \in 1 .. MaxSize, NEW t \in ResizeTo(s, n)
    PROVE  /\ Good(t) /\ t.out = <<>>
           /\ ~t.ok => Follows(s, t) /\ t.pos = s.pos
           /\ t.ok => /\ t.size = n /\ t.pos = Least(s.pos, n) /\ ~t.dirty
                      /\ Fine(t) => Fine(s) /\ View(t) = t.file
                                    /\ \A p \in Positions : p < s.size /\ p < n => t.file[p] = View(s)[p]
                      /\ ~s.dirty => \A p \in Positions : p < s.size /\ p < n => t.file[p] = s.file[p]
                      /\ s.dirty => /\ Fine(s)
                                    /\ \A p \in Positions : p < s.size /\ p < n => t.file[p] = View(s)[p]
  <1>0. s \in Source BY DEF Good
  <1>1. CASE mode.ro
    <2>1. t = Failed(s) BY <1>1 DEF ResizeTo
    <2> QED BY <1>0, <2>1, Marked, MarkedKeeps
  <1>2. CASE ~mode.ro
    <2> DEFINE Grown(u, b) == [p \in Positions |-> IF u.size <= p /\ p < n THEN b ELSE u.file[p]]
    <2>1. PICK u \in Flush(s) :
              t \in IF ~u.ok THEN {u}
                    ELSE {Failed(Dropped(u))}
                         \cup (IF u.dead THEN {}
                               ELSE {Done([Dropped(u) EXCEPT !.size = n, !.have = n,
                                                            !.pos = Least(u.pos, n),
                                                            !.file = Grown(u, b)]) : b \in Byte})
      BY <1>2 DEF ResizeTo
    <2>2. /\ Good(u) /\ Follows(s, u) /\ u.pos = s.pos /\ u.size = s.size /\ u.out = <<>>
          /\ u.ok => ~u.dirty
      BY FlushKeeps
    <2>3. CASE ~u.ok BY <2>1, <2>2, <2>3
    <2>4. CASE u.ok /\ t = Failed(Dropped(u))
      <3>1. /\ Good(Dropped(u)) /\ Follows(u, Dropped(u)) /\ Dropped(u).pos = u.pos
        BY <2>2, <2>4, DroppedKeeps
      <3>2. Good(t) /\ Follows(Dropped(u), t) BY <2>4, <3>1, MarkedKeeps
      <3>3. ~t.ok /\ t.pos = u.pos /\ t.out = <<>> BY <2>4, <3>1, Marked DEF Good
      <3> QED BY <2>2, <3>1, <3>2, <3>3, FollowsOn
    <2>5. CASE u.ok /\ ~u.dead /\ \E b \in Byte :
                  t = Done([Dropped(u) EXCEPT !.size = n, !.have = n, !.pos = Least(u.pos, n), !.file = Grown(u, b)])
      <3>1. PICK b \in Byte :
                t = Done([Dropped(u) EXCEPT !.size = n, !.have = n, !.pos = Least(u.pos, n), !.file = Grown(u, b)])
        BY <2>5
      <3> DEFINE d == Dropped(u)
                 q == Least(u.pos, n)
                 g == Grown(u, b)
                 v == [d EXCEPT !.size = n, !.have = n, !.pos = q, !.file = g]
      <3>2. /\ Good(d) /\ d.dead = u.dead /\ ~d.dirty /\ d.bytes = <<>> /\ d.start = 0
        BY <2>2, <2>5, DroppedKeeps DEF Dropped, Good, Source
      <3>3. u.size \in Nat /\ u.pos \in Nat /\ u.file \in [Positions -> Byte] /\ n \in Nat \ {0} /\ n <= MaxSize
        BY <2>2, Modal DEF Good, Source
      <3>4. q \in Nat /\ q <= n BY <3>3 DEF Least
      <3>5. g \in [Positions -> Byte] /\ \A p \in Positions : p < u.size => g[p] = u.file[p]
        <4>1. \A p \in Positions : p \in Nat BY Modal DEF Positions
        <4>2. \A p \in Positions : g[p] = IF u.size <= p /\ p < n THEN b ELSE u.file[p] BY DEF g
        <4>3. \A p \in Positions : g[p] \in Byte BY <3>1, <3>3, <4>2
        <4>4. g = [p \in Positions |-> g[p]] BY DEF g
        <4> HIDE DEF g
        <4> QED BY <3>3, <4>1, <4>2, <4>3, <4>4
      <3> HIDE DEF d, q, g
      <3>6. /\ v \in Source /\ v.file = g /\ v.size = n /\ v.pos = q /\ v.dead = d.dead /\ v.have = n /\ v.short = d.short
            /\ ~v.dirty /\ v.bytes = <<>> /\ v.start = 0
        BY <3>2, <3>3, <3>4, <3>5 DEF Good, Source
      <3> HIDE DEF v
      <3>7. t = Done(v) BY <3>1 DEF v, d, q, g
      <3>15. ~d.short /\ ~u.short BY <2>2, <3>2, Modal DEF Good, Roomy
      <3>8. /\ t \in Source /\ t.file = g /\ t.size = n /\ t.pos = q /\ ~t.dead /\ t.have = n /\ ~t.short
            /\ ~t.dirty /\ t.bytes = <<>> /\ t.start = 0 /\ t.ok /\ t.out = <<>>
        BY <2>5, <3>2, <3>6, <3>7, <3>15, Marked
      <3>9. ~mode.wrap BY Modal
      <3>10. Window(t)
        <4>1. Len(<<>>) = 0 BY EmptySeq
        <4> QED BY <3>3, <3>4, <3>8, <3>9, <4>1, Modal DEF Window
      <3>11. View(t) = t.file BY <3>8, EmptyView
      <3>12. Good(t) BY <3>8, <3>10, <3>11 DEF Good, Clean, Roomy
      <3>13. Fine(u) /\ View(u) = u.file
        BY <2>2, <2>5, <3>15 DEF Fine, LostIn, Good, Clean
      <3>14. Fine(s) /\ View(s) = u.file /\ (~s.dirty => u.file = s.file)
        BY <2>2, <3>13, <3>15 DEF Follows
      <3> QED BY <2>2, <3>5, <3>8, <3>11, <3>12, <3>14 DEF q
    <2> QED BY <2>1, <2>3, <2>4, <2>5
  <1> QED BY <1>1, <1>2

-----------------------------------------------------------------------------
(* The same calls on RAM.                                                   *)

Plain(s) == mode.ram => s.bytes = <<>> /\ ~s.dirty /\ ~s.dead /\ ~s.short

LEMMA PlainView == ASSUME NEW s \in Source, Plain(s), mode.ram PROVE View(s) = s.file /\ Fine(s)
  BY EmptyView DEF Plain, Fine, LostIn

LEMMA RamKeeps ==
    ASSUME mode \in Modes, mode.ram, NEW s, Good(s), Plain(s), NEW t \in Source,
           t.size = s.size, t.have = s.have, t.bytes = <<>>, t.start = s.start,
           ~t.dirty, ~t.dead, ~t.short, t.pos < t.size
    PROVE  Good(t) /\ Plain(t) /\ View(t) = t.file /\ (t.file = s.file => Follows(s, t))
  <1>1. Len(<<>>) = 0 BY EmptySeq
  <1>2. CacheSize \in Nat \ {0} /\ mode.wrap BY Modal, DeviceAssumption
  <1>3. Window(t) BY <1>1, <1>2 DEF Window, Good
  <1>4. View(t) = t.file /\ View(s) = s.file BY EmptyView, PlainView DEF Good
  <1> QED BY <1>3, <1>4 DEF Good, Clean, Roomy, Plain, Follows, Fine, LostIn

LEMMA SourceSeekKeeps ==
    ASSUME mode \in Modes, NEW s, Good(s), Plain(s), NEW p \in Nat, NEW t \in SourceSeek(s, p)
    PROVE  /\ Good(t) /\ Plain(t) /\ Follows(s, t) /\ t.size = s.size /\ t.out = <<>>
           /\ p < s.size => t.ok /\ t.pos = p
           /\ t.pos = s.pos \/ t.pos < s.size
  <1>1. CASE ~mode.ram
    <2>1. t \in SeekTo(s, p) BY <1>1 DEF SourceSeek
    <2> QED BY <1>1, <2>1, SeekKeeps DEF Plain
  <1>2. CASE mode.ram
    <2> DEFINE q == p % s.size
               u == [s EXCEPT !.pos = q]
    <2>1. t = Done(u) BY <1>2 DEF SourceSeek
    <2>2. s \in Source /\ s.size \in Nat \ {0} BY DEF Good, Source
    <2>3. q \in Nat /\ q < s.size /\ (p < s.size => q = p)
      <3> DEFINE m == s.size
      <3>1. m \in Nat \ {0} BY <2>2
      <3> HIDE DEF m
      <3>2. p < m => p < 2 * m BY <3>1
      <3>3. p < m => p % m = p BY <3>1, <3>2, Round
      <3>4. p % m \in Nat /\ p % m < m BY <3>1
      <3> QED BY <3>3, <3>4 DEF m
    <2> HIDE DEF q
    <2>4. /\ u \in Source /\ u.file = s.file /\ u.size = s.size /\ u.start = s.start
          /\ u.bytes = s.bytes /\ u.dirty = s.dirty /\ u.dead = s.dead /\ u.have = s.have /\ u.short = s.short /\ u.pos = q
      BY <2>2, <2>3 DEF Source
    <2> HIDE DEF u
    <2>5. /\ t \in Source /\ t.file = s.file /\ t.size = s.size /\ t.start = s.start
          /\ t.bytes = s.bytes /\ t.dirty = s.dirty /\ t.dead = s.dead /\ t.have = s.have /\ t.short = s.short /\ t.pos = q
          /\ t.ok /\ t.out = <<>>
      BY <2>1, <2>4, Marked
    <2>6. s.bytes = <<>> /\ ~s.dirty /\ ~s.dead /\ ~s.short BY <1>2 DEF Plain
    <2>7. Good(t) /\ Plain(t) /\ Follows(s, t) BY <1>2, <2>3, <2>5, <2>6, RamKeeps
    <2> QED BY <2>3, <2>5, <2>7
  <1> QED BY <1>1, <1>2

\* A read of at most n bytes, and a write of some of data, done or refused.
Gives(s, t, n) ==
    \/ /\ ~t.ok /\ Follows(s, t) /\ t.pos = s.pos /\ t.out = <<>> /\ (t.dead \/ t.short \/ AtEnd(s))
    \/ /\ t.ok /\ Follows(s, t)
       /\ s.pos < s.size /\ Len(t.out) \in 1 .. n /\ Len(t.out) <= s.size
       /\ mode.wrap \/ s.pos + Len(t.out) <= s.size
       /\ t.out = [i \in 1 .. Len(t.out) |-> View(t)[(s.pos + i - 1) % s.size]]
       /\ t.pos = Past(s, Len(t.out))

LEMMA TakeGives ==
    ASSUME mode \in Modes, NEW s, Good(s), NEW n \in Nat \ {0}, NEW t \in Take(s, n)
    PROVE  Good(t) /\ Follows(s, t) /\ Gives(s, t, n)
  <1>1. /\ Good(t) /\ Follows(s, t)
        /\ ~t.ok => t.pos = s.pos /\ t.out = <<>> /\ (t.dead \/ t.short \/ AtEnd(s))
        /\ t.ok => /\ s.pos < s.size /\ Len(t.out) \in 1 .. n /\ Len(t.out) <= s.size
                   /\ mode.wrap \/ s.pos + Len(t.out) <= s.size
                   /\ t.out = [i \in 1 .. Len(t.out) |-> View(t)[(s.pos + i - 1) % s.size]]
                   /\ t.pos = Past(s, Len(t.out))
    BY TakeKeeps
  <1> QED BY <1>1 DEF Gives

Accepts(s, t, bs) ==
    /\ t.size = s.size /\ t.out = <<>> /\ s.pos < s.size
    /\ Len(bs) <= s.size /\ (mode.wrap \/ s.pos + Len(bs) <= s.size)
    /\ t.pos = Past(s, Len(bs))
    /\ t.dirty \/ (Fine(t) /\ t.file = View(t))
    /\ Fine(t) => Fine(s) /\ Overwritten(View(s), View(t), s.pos, bs, s.size)

LEMMA SourceGetKeeps ==
    ASSUME mode \in Modes, NEW s, Good(s), Plain(s), NEW t \in SourceGet(s)
    PROVE  Good(t) /\ Plain(t) /\ Gives(s, t, 1)
  <1>1. CASE ~mode.ram
    <2>1. t \in Take(s, 1) BY <1>1 DEF SourceGet
    <2>2. 1 \in Nat \ {0} OBVIOUS
    <2> QED BY <1>1, <2>1, <2>2, TakeGives DEF Plain
  <1>2. CASE mode.ram
    <2> DEFINE c == s.file[s.pos]
               d == Done(s)
               u == [d EXCEPT !.out = <<c>>]
    <2>1. t = Advance(u, 1) BY <1>2 DEF SourceGet
    <2>2. s \in Source /\ s.size \in Nat \ {0} /\ s.size <= MaxSize /\ s.pos \in Nat /\ s.pos < s.size
          /\ mode.wrap /\ MaxSize \in Nat
      BY <1>2, DeviceAssumption, Modal DEF Good, Window, Source
    <2>3. c \in Byte BY <2>2 DEF Source, Positions
    <2>4. <<c>> \in Seq(Byte) /\ Len(<<c>>) = 1 /\ <<c>>[1] = c BY <2>3
    <2> HIDE DEF c, d
    <2>5. /\ d \in Source /\ d.ok /\ d.file = s.file /\ d.size = s.size /\ d.start = s.start
          /\ d.bytes = s.bytes /\ d.dirty = s.dirty /\ d.dead = s.dead /\ d.have = s.have /\ d.short = s.short /\ d.pos = s.pos
      BY <2>2, Marked DEF d
    <2>6. /\ u \in Source /\ u.ok /\ u.file = s.file /\ u.size = s.size /\ u.start = s.start
          /\ u.bytes = s.bytes /\ u.dirty = s.dirty /\ u.dead = s.dead /\ u.have = s.have /\ u.short = s.short /\ u.pos = s.pos /\ u.out = <<c>>
      BY <2>4, <2>5 DEF Source
    <2> HIDE DEF u
    <2>7. /\ t \in Source /\ t.ok /\ t.file = s.file /\ t.size = s.size /\ t.start = s.start
          /\ t.bytes = s.bytes /\ t.dirty = s.dirty /\ t.dead = s.dead /\ t.have = s.have /\ t.short = s.short /\ t.pos = Past(u, 1) /\ t.out = <<c>>
      BY <2>1, <2>6, AdvanceIs
    <2>8. Past(u, 1) = Past(s, 1) /\ Past(s, 1) < s.size
      <3>1. mode.wrap \/ s.pos + 1 <= s.size BY <2>2
      <3> QED BY <2>2, <2>6, <3>1, PastInside DEF Past
    <2>9. Good(t) /\ Plain(t) /\ View(t) = t.file /\ Follows(s, t)
      BY <1>2, <2>7, <2>8, RamKeeps DEF Plain
    <2>10. (s.pos + 1 - 1) % s.size = s.pos
      <3> DEFINE x == s.pos
                 m == s.size
      <3>1. x \in Nat /\ m \in Nat \ {0} /\ x < m /\ x < 2 * m BY <2>2
      <3> HIDE DEF x, m
      <3>2. x % m = x /\ x + 1 - 1 = x BY <3>1, Round
      <3> QED BY <3>2 DEF x, m
    <2>11. t.out = [i \in 1 .. Len(t.out) |-> View(t)[(s.pos + i - 1) % s.size]]
      <3> DEFINE g == [i \in 1 .. 1 |-> View(t)[(s.pos + i - 1) % s.size]]
      <3>1. g[1] = c BY <2>7, <2>9, <2>10 DEF c
      <3>2. g = <<c>> BY <3>1
      <3> QED BY <2>4, <2>7, <3>2
    <2> QED BY <2>2, <2>4, <2>7, <2>8, <2>9, <2>11 DEF Gives
  <1> QED BY <1>1, <1>2

LEMMA SourcePutKeeps ==
    ASSUME mode \in Modes, NEW s, Good(s), Plain(s), NEW b \in Byte, NEW t \in SourcePut(s, b)
    PROVE  /\ Good(t) /\ Plain(t)
           /\ t.ok => Accepts(s, t, <<b>>)
           /\ ~t.ok => Follows(s, t) /\ t.pos = s.pos /\ t.out = <<>> /\ (t.dead \/ t.short \/ AtEnd(s))
  <1>0. /\ <<b>> \in Seq(Byte) /\ Len(<<b>>) = 1 /\ <<b>>[1] = b /\ <<b>> # <<>> /\ SubSeq(<<b>>, 1, 1) = <<b>>
        /\ DOMAIN <<b>> = {1}
    <2>1. /\ <<b>> \in Seq(Byte) /\ Len(<<b>>) = 1 /\ <<b>>[1] = b /\ <<b>> # <<>>
          /\ DOMAIN <<b>> = {1}
      OBVIOUS
    <2>2. SubSeq(<<b>>, 1, 1) = <<b>> BY <2>1, SubSeqFull
    <2> QED BY <2>1, <2>2
  <1>3. s \in Source /\ s.size \in Nat \ {0} /\ s.size <= MaxSize /\ s.pos \in Nat /\ MaxSize \in Nat
    BY Modal DEF Good, Window, Source
  <1>1. CASE ~mode.ram
    <2>1. t \in Put(s, <<b>>) BY <1>1 DEF SourcePut
    <2>2. mode.wrap \/ s.pos >= s.size \/ s.pos + Len(<<b>>) <= s.size BY <1>0, <1>3
    <2>3. /\ Good(t) /\ t.size = s.size /\ t.out = <<>>
          /\ ~t.ok => Follows(s, t) /\ t.pos = s.pos /\ (t.dead \/ t.short \/ AtEnd(s))
      BY <1>0, <2>1, <2>2, PutKeeps
    <2>4. ASSUME t.ok PROVE Accepts(s, t, <<b>>)
      <3>1. PICK n \in 1 .. Len(<<b>>) :
                 /\ s.pos < s.size /\ n <= s.size /\ (mode.wrap \/ s.pos + n <= s.size)
                 /\ t.dirty /\ t.pos = Past(s, n)
                 /\ Fine(t) => Fine(s) /\ Overwritten(View(s), View(t), s.pos, SubSeq(<<b>>, 1, n), s.size)
        BY <1>0, <2>1, <2>2, <2>4, PutKeeps
      <3>2. n = 1 BY <1>0
      <3> QED BY <1>0, <2>3, <3>1, <3>2 DEF Accepts
    <2> QED BY <1>1, <2>3, <2>4 DEF Plain
  <1>2. CASE mode.ram
    <2> DEFINE d == Done(s)
               g == [s.file EXCEPT ![s.pos] = b]
               u == [d EXCEPT !.file = g]
    <2>2. s.pos < s.size /\ mode.wrap /\ s.pos \in Positions
      BY <1>2, <1>3, DeviceAssumption DEF Good, Window, Positions
    <2>5. /\ d \in Source /\ d.ok /\ d.file = s.file /\ d.size = s.size /\ d.start = s.start
          /\ d.bytes = s.bytes /\ d.dirty = s.dirty /\ d.dead = s.dead /\ d.have = s.have /\ d.short = s.short /\ d.pos = s.pos /\ d.out = <<>>
      BY <1>3, Marked
    <2>1. t = Advance(u, 1) BY <1>2, <2>5 DEF SourcePut, Done
    <2>3. /\ g \in [Positions -> Byte] /\ g[s.pos] = b
          /\ \A p \in Positions : p # s.pos => g[p] = s.file[p]
      BY <1>3, <2>2 DEF Source
    <2> HIDE DEF g, d
    <2>6. /\ u \in Source /\ u.ok /\ u.file = g /\ u.size = s.size /\ u.start = s.start
          /\ u.bytes = s.bytes /\ u.dirty = s.dirty /\ u.dead = s.dead /\ u.have = s.have /\ u.short = s.short /\ u.pos = s.pos /\ u.out = <<>>
      BY <2>3, <2>5 DEF Source
    <2> HIDE DEF u
    <2>7. /\ t \in Source /\ t.ok /\ t.file = g /\ t.size = s.size /\ t.start = s.start
          /\ t.bytes = s.bytes /\ t.dirty = s.dirty /\ t.dead = s.dead /\ t.have = s.have /\ t.short = s.short /\ t.pos = Past(u, 1) /\ t.out = <<>>
      BY <2>1, <2>6, AdvanceIs
    <2>8. Past(u, 1) = Past(s, 1) /\ Past(s, 1) < s.size
      <3>1. mode.wrap \/ s.pos + 1 <= s.size BY <2>2
      <3> QED BY <2>2, <2>6, <3>1, PastInside DEF Past
    <2>9. Good(t) /\ Plain(t) /\ View(t) = t.file
      BY <1>2, <2>7, <2>8, RamKeeps DEF Plain
    <2>10. (s.pos + 1 - 1) % s.size = s.pos
      <3> DEFINE x == s.pos
                 m == s.size
      <3>1. x \in Nat /\ m \in Nat \ {0} /\ x < m /\ x < 2 * m BY <1>3, <2>2
      <3> HIDE DEF x, m
      <3>2. x % m = x /\ x + 1 - 1 = x BY <3>1, Round
      <3> QED BY <3>2 DEF x, m
    <2>11. View(s) = s.file /\ Fine(s) /\ Fine(t) BY <1>2, <1>3, <2>7, <2>9, PlainView
    <2>12. Overwritten(View(s), View(t), s.pos, <<b>>, s.size)
      BY <1>0, <2>3, <2>7, <2>9, <2>10, <2>11 DEF Overwritten
    <2> QED BY <1>0, <1>3, <2>2, <2>7, <2>8, <2>9, <2>11, <2>12 DEF Accepts
  <1> QED BY <1>1, <1>2

LEMMA SourceNextKeeps ==
    ASSUME mode \in Modes, NEW s, Good(s), Plain(s), NEW t \in SourceNext(s)
    PROVE  /\ Good(t) /\ Plain(t) /\ Follows(s, t) /\ t.out = <<>>
           /\ t.pos = s.pos \/ t.pos = (s.pos + 1) % s.size
           /\ t.ok => t.pos = (s.pos + 1) % s.size
           /\ ~t.ok => t.dead \/ t.short \/ (t.pos = s.pos /\ ~mode.wrap)
  <1>1. CASE ~mode.ram
    <2>1. t \in Skip(s) BY <1>1 DEF SourceNext
    <2> QED BY <1>1, <2>1, SkipKeeps DEF Plain
  <1>2. CASE mode.ram
    <2> DEFINE q == (s.pos + 1) % s.size
               u == [s EXCEPT !.pos = q]
    <2>1. t = Done(u) BY <1>2 DEF SourceNext
    <2>2. s \in Source /\ s.size \in Nat \ {0} /\ s.pos \in Nat BY DEF Good, Source
    <2>3. q \in Nat /\ q < s.size BY <2>2
    <2> HIDE DEF q
    <2>4. /\ u \in Source /\ u.file = s.file /\ u.size = s.size /\ u.start = s.start
          /\ u.bytes = s.bytes /\ u.dirty = s.dirty /\ u.dead = s.dead /\ u.have = s.have /\ u.short = s.short /\ u.pos = q
      BY <2>2, <2>3 DEF Source
    <2> HIDE DEF u
    <2>5. /\ t \in Source /\ t.file = s.file /\ t.size = s.size /\ t.start = s.start
          /\ t.bytes = s.bytes /\ t.dirty = s.dirty /\ t.dead = s.dead /\ t.have = s.have /\ t.short = s.short /\ t.pos = q
          /\ t.ok /\ t.out = <<>>
      BY <2>1, <2>4, Marked
    <2>6. s.bytes = <<>> /\ ~s.dirty /\ ~s.dead /\ ~s.short BY <1>2 DEF Plain
    <2>7. Good(t) /\ Plain(t) /\ Follows(s, t) BY <1>2, <2>3, <2>5, <2>6, RamKeeps
    <2> QED BY <2>5, <2>7 DEF q
  <1> QED BY <1>1, <1>2

-----------------------------------------------------------------------------
(* The invariant of the source and its histories.                           *)

\* Where the guest runs over the end of a page, what it was told is not what
\* this is about.
Same(f, g, n) == Overrun \/ \A p \in Positions : p < n => f[p] = g[p]

Sane ==
    /\ mode \in Modes /\ Good(src) /\ Plain(src)
    /\ told \in [Positions -> Byte] /\ synced \in BOOLEAN
    /\ call \in [op : {"none", "get", "set", "closed"}, left : Nat, data : Seq(Byte)]
    /\ call.op = "get" => call.left # 0
    /\ call.op = "set" => /\ call.data # <<>> /\ mode.inc
                          /\ mode.wrap \/ src.pos + Len(call.data) <= src.size
    /\ mode.dev # "image" => call.op \in {"none", "closed"} /\ src.size = mode.size
    /\ mode.ram => call.op = "none"

\* What is seen is what the callers were told, and so is the file when nothing
\* waits in the window, which is so after a flush that reports success, as long
\* as the file has not proved too short.
Truth ==
    /\ Fine(src) => Same(View(src), told, src.size)
    /\ call.op # "closed" /\ ~src.dirty /\ ~src.short => Same(src.file, told, src.size)
    /\ synced /\ ~src.short => Same(src.file, told, src.size)
    /\ synced => call.op = "closed" \/ ~src.dirty
    /\ call.op = "closed" /\ Fine(src) => ~src.dirty

House == Sane /\ Truth

\* A definition over the source of the next state.
LEMMA Bridge ==
    ASSUME mode' = mode
    PROVE  /\ Good(src)' <=> Good(src')
           /\ Plain(src)' <=> Plain(src')
           /\ Fine(src)' <=> Fine(src')
           /\ View(src)' = View(src')
           /\ src.size' = (src').size
  <1>1. View(src)' = View(src') BY DEF View, At, Positions
  <1>2. Fine(src)' <=> Fine(src') BY DEF Fine, LostIn
  <1>3. Plain(src)' <=> Plain(src') BY DEF Plain
  <1>4. Window(src)' <=> Window(src') BY DEF Window
  <1>5. Clean(src)' <=> Clean(src') BY <1>1 DEF Clean
  <1>6. (src \in Source)' <=> src' \in Source BY DEF Source, Positions
  <1>7. Roomy(src)' <=> Roomy(src') BY DEF Roomy
  <1> QED BY <1>1, <1>2, <1>3, <1>4, <1>5, <1>6, <1>7 DEF Good

LEMMA HouseKept ==
    ASSUME House, mode' = mode, told' = told, call.op # "closed", call'.op # "closed",
           Good(src'), Follows(src, src'), synced' => synced \/ ~src'.dirty
    PROVE  Truth'
  <1>1. src'.size = src.size BY DEF Follows
  <1>2. Fine(src') => Same(View(src'), told, src.size)
    BY DEF House, Truth, Follows
  <1>3. ~src'.dirty /\ ~src'.short => Same(src'.file, told, src.size)
    <2>1. CASE src.dirty
      <3>1. ~src'.dirty /\ ~src'.short => Fine(src) /\ src'.file = View(src) BY <2>1 DEF Follows
      <3> QED BY <3>1 DEF House, Truth
    <2>2. CASE ~src.dirty
      <3>1. src'.file = src.file /\ (~src'.short => ~src.short) BY <2>2 DEF Follows
      <3> QED BY <2>2, <3>1 DEF House, Truth
    <2> QED BY <2>1, <2>2
  <1>4. synced' => ~src'.dirty
    BY DEF House, Truth, Follows
  <1>5. Fine(src)' => Same(View(src), told, src.size)' BY <1>1, <1>2, Bridge DEF Same, Positions
  <1>6. ~src'.dirty /\ ~src'.short => Same(src.file, told, src.size)' BY <1>1, <1>3 DEF Same, Positions
  <1> QED BY <1>4, <1>5, <1>6 DEF Truth

\* The callers are told that bs has been written from position at.
Retold(at, bs) ==
    \A p \in Positions :
        \/ \E i \in DOMAIN bs : (at + i - 1) % src.size = p /\ told'[p] = bs[i]
        \/ (\A i \in DOMAIN bs : (at + i - 1) % src.size # p) /\ told'[p] = told[p]

LEMMA Rewritten ==
    ASSUME House, mode' = mode, call'.op # "closed", ~synced',
           Good(src'), src'.size = src.size, src'.dirty \/ (Fine(src') /\ src'.file = View(src')),
           NEW at, NEW bs,
           Fine(src') => /\ Fine(src) /\ Overwritten(View(src), View(src'), at, bs, src.size)
                         /\ Overrun \/ Retold(at, bs)
    PROVE  Truth'
  <1>1. Fine(src') => Same(View(src'), told', src.size)
    <2> SUFFICES ASSUME ~Overrun, Fine(src'), NEW p \in Positions, p < src.size PROVE View(src')[p] = told'[p]
      BY DEF Same
    <2>1. View(src)[p] = told[p] BY DEF House, Truth, Same
    <2> QED BY <2>1 DEF Overwritten, Retold
  <1>2. ~src'.dirty => Same(src'.file, told', src.size) BY <1>1
  <1>3. Fine(src)' => Same(View(src), told, src.size)' BY <1>1, Bridge DEF Same, Positions
  <1>4. (~src'.dirty) => Same(src.file, told, src.size)' BY <1>2 DEF Same, Positions
  <1> QED BY <1>3, <1>4 DEF Truth

LEMMA TellIs ==
    ASSUME Sane, NEW at, NEW bs \in Seq(Byte), Tell(at, bs)
    PROVE  Retold(at, bs) /\ told' \in [Positions -> Byte]
  <1>1. \A i \in DOMAIN bs : bs[i] \in Byte BY LenProperties, ElementOfSeq
  <1>2. Retold(at, bs) BY DEF Tell, Retold
  <1>3. \A p \in Positions : told'[p] \in Byte BY <1>1, <1>2 DEF Retold, Sane
  <1>4. told' = [p \in Positions |-> told'[p]] BY DEF Tell
  <1> QED BY <1>2, <1>3, <1>4

-----------------------------------------------------------------------------
(* What a step of the source may be to the array.                           *)

Near(s, t) == Follows(s, t) /\ (t.pos = s.pos \/ t.pos < s.size)

Resized(s, t) ==
    /\ t.size \in 1 .. MaxSize /\ t.out = <<>> /\ t.pos = IF s.pos > t.size THEN t.size ELSE s.pos
    /\ Fine(t) => /\ View(t) \in [Positions -> Byte]
                  /\ \A p \in Positions : p < s.size /\ p < t.size => View(t)[p] = View(s)[p]

Allowed(s, t) ==
    \/ \E u \in Source : /\ Near(s, u)
                         /\ \/ t.out = <<>> /\ Near(u, t)
                            \/ \E n \in Nat : t.ok /\ Gives(u, t, n)
                            \/ \E bs \in Seq(Byte) : bs # <<>> /\ Accepts(u, t, bs)
    \/ Resized(s, t)

LEMMA NearItself == \A s : Near(s, s) BY DEF Near, Follows

LEMMA KeptHouse ==
    ASSUME House, mode' = mode, told' = told, call.op # "closed",
           call' \in [op : {"none", "get"}, left : Nat, data : Seq(Byte)],
           call'.op = "get" => call.op = "get" /\ call'.left # 0,
           synced' \in BOOLEAN, synced' => synced \/ ~src'.dirty,
           Good(src'), Plain(src'), Follows(src, src')
    PROVE  House'
  <1>1. Truth' BY HouseKept
  <1>2. Good(src)' /\ Plain(src)' BY Bridge
  <1>3. src'.size = src.size BY DEF Follows
  <1>4. (told \in [Positions -> Byte])' BY DEF House, Sane, Positions
  <1>5. /\ call'.op \in {"none", "get"} /\ call' \in [op : {"none", "get", "set", "closed"}, left : Nat, data : Seq(Byte)]
        /\ call.op = "get" => mode.dev = "image" /\ ~mode.ram
    BY DEF House, Sane
  <1>6. Sane' BY <1>2, <1>3, <1>4, <1>5 DEF House, Sane
  <1> QED BY <1>1, <1>6 DEF House

\* A call that moves the position, or none.
LEMMA QuietStep ==
    ASSUME House, mode' = mode, told' = told, call' = call, call.op = "none",
           synced' \in BOOLEAN, synced' => synced \/ ~src'.dirty,
           Good(src'), Plain(src'), Near(src, src'), src'.out = <<>>
    PROVE  House' /\ Allowed(src, src')
  <1>1. House'
    <2>1. call' \in [op : {"none", "get"}, left : Nat, data : Seq(Byte)] BY DEF House, Sane
    <2> QED BY <2>1, KeptHouse DEF Near
  <1>2. src \in Source BY DEF House, Sane, Good
  <1> QED BY <1>1, <1>2, NearItself DEF Allowed

LEMMA Plainly == ASSUME Sane, ~mode.ram PROVE \A s : Plain(s)
  BY DEF Plain

\* The calls on the cache itself are those of an image, or those on a device's
\* file.
LEMMA ImageCalls == ASSUME Sane, mode.dev = "image" PROVE ~mode.ram
  BY DeviceAssumption DEF Sane

LEMMA SeekStep ==
    ASSUME House, ~mode.ram, NEW p \in Nat, Seek(p)
    PROVE  House' /\ Allowed(src, src')
  <1>0. Sane /\ mode' = mode /\ call' = call /\ call.op = "none" /\ told' = told /\ synced' = synced
    BY DEF House, Seek, Free, Idle
  <1>1. /\ Good(src') /\ Follows(src, src') /\ src'.size = src.size /\ src'.out = <<>>
        /\ src'.pos = IF p < src.size THEN p ELSE src.pos
    BY SeekKeeps DEF Seek, House, Sane
  <1>2. Near(src, src') BY <1>1 DEF Near
  <1>3. synced \in BOOLEAN BY <1>0 DEF Sane
  <1> QED BY <1>0, <1>1, <1>2, <1>3, Plainly, QuietStep

LEMMA GetByteStep ==
    ASSUME House, ~mode.ram, GetByte
    PROVE  House' /\ Allowed(src, src')
  <1>0. /\ Sane /\ mode' = mode /\ call' = call /\ call.op = "none" /\ told' = told /\ synced' = synced
        /\ src' \in Take(src, 1) /\ synced \in BOOLEAN /\ Good(src) /\ mode \in Modes
    BY DEF House, GetByte, Free, Idle, Sane
  <1>1. Good(src') /\ Follows(src, src') /\ Gives(src, src', 1)
    <2>1. 1 \in Nat \ {0} OBVIOUS
    <2> QED BY <1>0, <2>1, TakeGives
  <1>2. House'
    <2>1. call' \in [op : {"none", "get"}, left : Nat, data : Seq(Byte)] BY <1>0 DEF Sane
    <2> QED BY <1>0, <1>1, <2>1, Plainly, KeptHouse
  <1>3. Allowed(src, src')
    <2>1. CASE src'.ok BY <1>0, <1>1, <2>1, NearItself DEF Allowed, Good
    <2>2. CASE ~src'.ok
      <3>1. src'.out = <<>> /\ Near(src, src') BY <1>1, <2>2 DEF Gives, Near
      <3> QED BY <1>0, <3>1, NearItself DEF Allowed, Good
    <2> QED BY <2>1, <2>2
  <1> QED BY <1>2, <1>3

LEMMA GetChunkStep ==
    ASSUME House, GetChunk
    PROVE  House' /\ Allowed(src, src')
  <1>0. /\ Sane /\ mode' = mode /\ call.op = "get" /\ told' = told /\ synced' = synced
        /\ src' \in Take(src, call.left) /\ synced \in BOOLEAN /\ Good(src) /\ mode \in Modes
        /\ call.left \in Nat \ {0} /\ ~mode.ram
    BY DEF House, GetChunk, Sane
  <1>1. Good(src') /\ Follows(src, src') /\ Gives(src, src', call.left)
    BY <1>0, TakeGives
  <1>2. House'
    <2>1. /\ call' \in [op : {"none", "get"}, left : Nat, data : Seq(Byte)]
          /\ call'.op = "get" => call'.left # 0
      <3>1. CASE src'.ok /\ Len(src'.out) < call.left
        <4>1. call' = [call EXCEPT !.left = @ - Len(src'.out)] BY <3>1 DEF GetChunk
        <4>2. Len(src'.out) \in Nat BY <1>1, <3>1 DEF Gives
        <4>3. call.left - Len(src'.out) \in Nat \ {0} BY <1>0, <3>1, <4>2
        <4> QED BY <1>0, <4>1, <4>3 DEF Sane
      <3>2. CASE ~(src'.ok /\ Len(src'.out) < call.left)
        <4>1. call' = Idle BY <3>2 DEF GetChunk
        <4>2. <<>> \in Seq(Byte) BY EmptySeq
        <4> QED BY <4>1, <4>2 DEF Idle
      <3> QED BY <3>1, <3>2
    <2> QED BY <1>0, <1>1, <2>1, Plainly, KeptHouse
  <1>3. Allowed(src, src')
    <2>1. CASE src'.ok BY <1>0, <1>1, <2>1, NearItself DEF Allowed, Good
    <2>2. CASE ~src'.ok
      <3>1. src'.out = <<>> /\ Near(src, src') BY <1>1, <2>2 DEF Gives, Near
      <3> QED BY <1>0, <3>1, NearItself DEF Allowed, Good
    <2> QED BY <2>1, <2>2
  <1> QED BY <1>2, <1>3

\* A write of data that has come back.
LEMMA PutStep ==
    ASSUME House, ~mode.ram, mode' = mode, NEW data \in Seq(Byte), data # <<>>, src' \in Put(src, data),
           mode.wrap \/ src.pos >= src.size \/ src.pos + Len(data) <= src.size,
           Tell(src.pos, Taken(data))
    PROVE  /\ Good(src') /\ src'.size = src.size
           /\ ~src'.ok => Follows(src, src') /\ told' = told /\ src'.out = <<>> /\ src'.pos = src.pos
           /\ src'.ok => /\ src'.dirty /\ Taken(data) \in Seq(Byte) /\ Len(Taken(data)) \in 1 .. Len(data)
                         /\ Accepts(src, src', Taken(data))
                         /\ Retold(src.pos, Taken(data)) /\ told' \in [Positions -> Byte]
  <1>0. Sane /\ Good(src) /\ mode \in Modes /\ Normal(src) = src /\ Len(data) \in Nat
    BY NormalKeeps, LenProperties DEF House, Sane
  <1>1. /\ Good(src') /\ src'.size = src.size /\ src'.out = <<>>
        /\ ~src'.ok => Follows(src, src') /\ src'.pos = src.pos
    BY <1>0, PutKeeps
  <1>2. CASE ~src'.ok
    <2>1. Taken(data) = <<>> BY <1>2 DEF Taken
    <2>2. told' = [p \in Positions |-> told[p]] BY <2>1 DEF Tell
    <2>3. told' = told BY <1>0, <2>2 DEF Sane
    <2> QED BY <1>1, <1>2, <2>3
  <1>3. CASE src'.ok
    <2>1. PICK n \in 1 .. Len(data) :
              /\ n = Least(Len(data), CacheSize - (src.pos - src'.start))
              /\ src.pos < src.size /\ n <= src.size /\ (mode.wrap \/ src.pos + n <= src.size)
              /\ src'.dirty /\ src'.pos = Past(src, n)
              /\ Fine(src') => Fine(src) /\ Overwritten(View(src), View(src'), src.pos, SubSeq(data, 1, n), src.size)
      BY <1>0, <1>3, PutKeeps
    <2>2. Taken(data) = SubSeq(data, 1, n) BY <1>0, <1>3, <2>1 DEF Taken
    <2>3. SubSeq(data, 1, n) \in Seq(Byte) /\ Len(SubSeq(data, 1, n)) = n
      <3>1. \A i \in 1 .. n : data[i] \in Byte
        <4>1. \A i \in 1 .. n : i \in 1 .. Len(data) BY <1>0, <2>1
        <4> QED BY <4>1, ElementOfSeq
      <3>2. 1 \in Int /\ n \in Int /\ 1 <= n /\ n - 1 + 1 = n BY <2>1
      <3> QED BY <3>1, <3>2, SubSeqProperties
    <2>4. Retold(src.pos, Taken(data)) /\ told' \in [Positions -> Byte]
      BY <1>0, <2>2, <2>3, TellIs
    <2>5. Accepts(src, src', Taken(data)) BY <1>1, <2>1, <2>2, <2>3 DEF Accepts
    <2> QED BY <1>1, <1>3, <2>1, <2>2, <2>3, <2>4, <2>5
  <1> QED BY <1>2, <1>3

LEMMA SetByteStep ==
    ASSUME House, ~mode.ram, NEW b \in Byte, SetByte(b)
    PROVE  House' /\ Allowed(src, src')
  <1>0. /\ Sane /\ mode' = mode /\ call' = call /\ call.op = "none"
        /\ src' \in Put(src, <<b>>) /\ synced \in BOOLEAN /\ Good(src) /\ mode \in Modes
        /\ synced' = (synced /\ ~src'.ok) /\ Tell(src.pos, Taken(<<b>>))
    BY DEF House, SetByte, Free, Idle, Sane
  <1>1. /\ <<b>> \in Seq(Byte) /\ <<b>> # <<>>
        /\ mode.wrap \/ src.pos >= src.size \/ src.pos + Len(<<b>>) <= src.size
    <2>1. <<b>> \in Seq(Byte) /\ <<b>> # <<>> /\ Len(<<b>>) = 1 OBVIOUS
    <2>2. src.pos \in Nat /\ src.size \in Nat BY <1>0, Modal DEF Good, Source
    <2> QED BY <2>1, <2>2
  <1>2. src'.ok \in BOOLEAN
    <2>1. Good(src') BY <1>0, <1>1, PutKeeps
    <2> QED BY <2>1 DEF Good, Source
  <1>3. CASE ~src'.ok
    <2>1. Good(src') /\ Follows(src, src') /\ told' = told /\ src'.out = <<>> /\ src'.pos = src.pos
      BY <1>0, <1>1, <1>3, PutStep
    <2>2. Near(src, src') /\ synced' = synced BY <1>0, <1>3, <2>1 DEF Near
    <2> QED BY <1>0, <2>1, <2>2, Plainly, QuietStep
  <1>4. CASE src'.ok
    <2> DEFINE bs == Taken(<<b>>)
    <2>1. /\ Good(src') /\ src'.size = src.size /\ src'.dirty /\ bs \in Seq(Byte) /\ Len(bs) \in 1 .. Len(<<b>>)
          /\ Accepts(src, src', bs) /\ Retold(src.pos, bs) /\ told' \in [Positions -> Byte]
      BY <1>0, <1>1, <1>4, PutStep
    <2> HIDE DEF bs
    <2>2. ~synced' BY <1>0, <1>4
    <2>3. Truth' BY <1>0, <2>1, <2>2, Rewritten DEF Accepts
    <2>4. Good(src)' /\ Plain(src)' BY <1>0, <2>1, Bridge, Plainly
    <2>5. Sane' BY <1>0, <2>1, <2>2, <2>4 DEF Sane, Positions
    <2>6. bs # <<>> BY <2>1, EmptySeq
    <2> QED BY <1>0, <2>1, <2>3, <2>5, <2>6, NearItself DEF Allowed, Good, House
  <1> QED BY <1>2, <1>3, <1>4

\* The source is left alone.
LEMMA StillTrue ==
    ASSUME House, mode' = mode, src' = src, told' = told, synced' = synced,
           call.op # "closed", call'.op # "closed"
    PROVE  Truth'
  <1>1. Good(src') /\ Follows(src, src') BY DEF House, Sane, Follows
  <1> QED BY <1>1, HouseKept

LEMMA SetStep ==
    ASSUME House, mode.dev = "image", NEW data \in Calls, Set(data)
    PROVE  House' /\ src' = src
  <1>0. /\ Sane /\ mode' = mode /\ call.op = "none" /\ src' = src /\ told' = told /\ synced' = synced
        /\ call' = [Idle EXCEPT !.op = "set", !.data = data] /\ mode.inc
        /\ mode.wrap \/ src.pos + Len(data) <= src.size
    BY DEF House, Set, Free, Idle
  <1>1. data \in Seq(Byte) /\ data # <<>>
    <2>1. PICK n \in 1 .. MaxCall : data \in [1 .. n -> Byte] BY DEF Calls
    <2>2. n \in Nat /\ n # 0 BY <2>1, Modal, <1>0 DEF Sane
    <2>3. data \in Seq(Byte) /\ Len(data) = n BY <2>1, <2>2, IsSeq
    <2> QED BY <2>2, <2>3, EmptySeq
  <1>2. Truth'
    <2>1. call'.op = "set" BY <1>0 DEF Idle
    <2> QED BY <1>0, <2>1, StillTrue
  <1>3. Sane'
    <2>1. call' \in [op : {"none", "get", "set", "closed"}, left : Nat, data : Seq(Byte)]
          /\ call'.op = "set" /\ call'.data = data
      BY <1>0, <1>1 DEF Idle
    <2>2. ~mode.ram BY <1>0, ImageCalls
    <2> QED BY <1>0, <1>1, <2>1, <2>2, Bridge DEF Sane, Positions
  <1> QED BY <1>0, <1>2, <1>3 DEF House

LEMMA GetStep ==
    ASSUME House, mode.dev = "image", NEW n \in 1 .. MaxCall, Get(n)
    PROVE  House' /\ src' = src
  <1>0. /\ Sane /\ mode' = mode /\ call.op = "none" /\ src' = src /\ told' = told /\ synced' = synced
        /\ call' = [Idle EXCEPT !.op = "get", !.left = n]
    BY DEF House, Get, Free, Idle
  <1>1. n \in Nat \ {0} BY <1>0, Modal DEF Sane
  <1>2. <<>> \in Seq(Byte) BY EmptySeq
  <1>3. /\ call' \in [op : {"none", "get", "set", "closed"}, left : Nat, data : Seq(Byte)]
        /\ call'.op = "get" /\ call'.left # 0
    BY <1>0, <1>1, <1>2 DEF Idle
  <1>4. Truth' BY <1>0, <1>3, StillTrue
  <1>5. ~mode.ram BY <1>0, ImageCalls
  <1>6. Sane' BY <1>0, <1>3, <1>5, Bridge DEF Sane, Positions
  <1> QED BY <1>0, <1>4, <1>6 DEF House

LEMMA SetChunkStep ==
    ASSUME House, SetChunk
    PROVE  House' /\ Allowed(src, src')
  <1> DEFINE data == call.data
             bs == Taken(data)
  <1>0. /\ Sane /\ mode' = mode /\ call.op = "set" /\ ~mode.ram
        /\ data \in Seq(Byte) /\ data # <<>> /\ mode.inc
        /\ src' \in Put(src, data) /\ synced \in BOOLEAN /\ Good(src) /\ mode \in Modes
        /\ mode.wrap \/ src.pos + Len(data) <= src.size
        /\ synced' = (synced /\ ~src'.ok) /\ Tell(src.pos, bs)
        /\ call' = IF src'.ok /\ Len(bs) < Len(data)
                   THEN [call EXCEPT !.data = SubSeq(data, Len(bs) + 1, Len(data))] ELSE Idle
    BY DEF House, SetChunk, Sane
  <1> HIDE DEF data, bs
  <1>1. mode.wrap \/ src.pos >= src.size \/ src.pos + Len(data) <= src.size
    BY <1>0
  <1>2. src'.ok \in BOOLEAN
    <2>1. Good(src') BY <1>0, <1>1, PutKeeps
    <2> QED BY <2>1 DEF Good, Source
  <1>5. Tell(src.pos, Taken(data)) BY <1>0 DEF bs
  <1>6. <<>> \in Seq(Byte) BY EmptySeq
  <1>3. CASE ~src'.ok
    <2>1. Good(src') /\ Follows(src, src') /\ told' = told /\ src'.out = <<>> /\ src'.pos = src.pos
      BY <1>0, <1>1, <1>3, <1>5, PutStep
    <2>2. call' = Idle BY <1>0, <1>3
    <2>3. call' \in [op : {"none", "get"}, left : Nat, data : Seq(Byte)] /\ call'.op = "none"
      BY <1>6, <2>2 DEF Idle
    <2>4. House' BY <1>0, <1>3, <2>1, <2>3, Plainly, KeptHouse
    <2>5. Near(src, src') BY <2>1 DEF Near
    <2> QED BY <1>0, <2>1, <2>4, <2>5, NearItself DEF Allowed, Good
  <1>4. CASE src'.ok
    <2>1. /\ Good(src') /\ src'.size = src.size /\ src'.dirty /\ bs \in Seq(Byte) /\ Len(bs) \in 1 .. Len(data)
          /\ Accepts(src, src', bs) /\ Retold(src.pos, bs) /\ told' \in [Positions -> Byte]
      BY <1>0, <1>1, <1>4, <1>5, PutStep DEF bs
    <2>2. ~synced' BY <1>0, <1>4
    <2>3. ASSUME Len(bs) < Len(data) PROVE House'
      <3> DEFINE rest == SubSeq(data, Len(bs) + 1, Len(data))
      <3>0. Len(data) \in Nat /\ Len(bs) \in Nat BY <1>0, <2>1, LenProperties
      <3>1. rest \in Seq(Byte) /\ Len(rest) = Len(data) - Len(bs)
        <4>1. \A i \in Len(bs) + 1 .. Len(data) : data[i] \in Byte
          <5>1. \A i \in Len(bs) + 1 .. Len(data) : i \in 1 .. Len(data) BY <3>0
          <5> QED BY <1>0, <5>1, ElementOfSeq
        <4>2. /\ Len(bs) + 1 \in Int /\ Len(data) \in Int /\ Len(bs) + 1 <= Len(data)
              /\ Len(data) - (Len(bs) + 1) + 1 = Len(data) - Len(bs)
          BY <2>3, <3>0
        <4> QED BY <4>1, <4>2, SubSeqProperties
      <3>3. call' = [call EXCEPT !.data = rest] BY <1>0, <1>4, <2>3
      <3> HIDE DEF rest
      <3>2. rest # <<>>
        <4>1. Len(data) - Len(bs) # 0 BY <2>3, <3>0
        <4> QED BY <3>1, <4>1, EmptySeq
      <3>4. /\ call' \in [op : {"none", "get", "set", "closed"}, left : Nat, data : Seq(Byte)]
            /\ call'.op = "set" /\ call'.data = rest
        BY <1>0, <3>1, <3>3 DEF Sane
      <3>5. mode.wrap \/ src'.pos + Len(rest) <= src'.size
        <4>1. CASE ~mode.wrap
          <5>1. src'.pos = src.pos + Len(bs) BY <1>0, <2>1, <4>1 DEF Accepts, Past
          <5>2. src.pos \in Nat BY <1>0 DEF Good, Source
          <5> DEFINE x == src.pos
                     y == Len(bs)
                     z == Len(data)
          <5>3. x \in Nat /\ y \in Nat /\ z \in Nat BY <3>0, <5>2
          <5> HIDE DEF x, y, z
          <5>4. (x + y) + (z - y) = x + z BY <5>3
          <5> QED BY <1>0, <2>1, <3>1, <4>1, <5>1, <5>4 DEF x, y, z
        <4> QED BY <4>1
      <3>6. Truth' BY <1>0, <2>1, <2>2, <3>4, Rewritten DEF Accepts
      <3>7. Good(src)' /\ Plain(src)' BY <1>0, <2>1, Bridge, Plainly
      <3>8. mode.dev = "image" BY <1>0 DEF Sane
      <3>9. Sane' BY <1>0, <2>1, <2>2, <3>2, <3>4, <3>5, <3>7, <3>8 DEF Sane, Positions
      <3> QED BY <3>6, <3>9 DEF House
    <2>4. ASSUME ~(Len(bs) < Len(data)) PROVE House'
      <3>1. call' = Idle BY <1>0, <2>4
      <3>2. /\ call' \in [op : {"none", "get", "set", "closed"}, left : Nat, data : Seq(Byte)]
            /\ call'.op = "none"
        BY <1>6, <3>1 DEF Idle
      <3>3. Truth' BY <1>0, <2>1, <2>2, <3>2, Rewritten DEF Accepts
      <3>4. Good(src)' /\ Plain(src)' BY <1>0, <2>1, Bridge, Plainly
      <3>5. Sane' BY <1>0, <2>1, <2>2, <3>2, <3>4 DEF Sane, Positions
      <3> QED BY <3>3, <3>5 DEF House
    <2>6. bs # <<>> BY <2>1, EmptySeq
    <2> QED BY <1>0, <2>1, <2>3, <2>4, <2>6, NearItself DEF Allowed, Good
  <1> QED BY <1>2, <1>3, <1>4

LEMMA NextByteStep ==
    ASSUME House, ~mode.ram, NextByte
    PROVE  House' /\ Allowed(src, src')
  <1>0. /\ Sane /\ mode' = mode /\ call' = call /\ call.op = "none" /\ told' = told /\ synced' = synced
        /\ src' \in Skip(src) /\ synced \in BOOLEAN /\ Good(src) /\ mode \in Modes
    BY DEF House, NextByte, Free, Idle, Sane
  <1>1. /\ Good(src') /\ Follows(src, src') /\ src'.out = <<>>
        /\ src'.pos = src.pos \/ src'.pos < src.size
    <2>1. /\ Good(src') /\ Follows(src, src') /\ src'.out = <<>>
          /\ src'.pos = src.pos \/ src'.pos = (src.pos + 1) % src.size
      BY <1>0, SkipKeeps
    <2>2. src.pos \in Nat /\ src.size \in Nat \ {0} BY <1>0 DEF Good, Source
    <2>3. (src.pos + 1) % src.size < src.size BY <2>2
    <2> QED BY <2>1, <2>3
  <1>2. Near(src, src') BY <1>1 DEF Near
  <1> QED BY <1>0, <1>1, <1>2, Plainly, QuietStep

LEMMA FlushAllStep ==
    ASSUME House, ~mode.ram, FlushAll
    PROVE  House' /\ Allowed(src, src') /\ src'.pos = src.pos /\ (Fine(src') => Fine(src))
  <1>0. /\ Sane /\ mode' = mode /\ call' = call /\ call.op = "none" /\ told' = told
        /\ synced' = (synced \/ src'.ok)
        /\ src' \in FlushFile(src) /\ synced \in BOOLEAN /\ Good(src) /\ mode \in Modes
    BY DEF House, FlushAll, Free, Idle, Sane
  <1>1. /\ Good(src') /\ Follows(src, src') /\ src'.pos = src.pos /\ src'.out = <<>>
        /\ src'.ok => ~src'.dirty
    BY <1>0, FlushFileKeeps
  <1>2. src'.ok \in BOOLEAN BY <1>1 DEF Good, Source
  <1>3. Near(src, src') BY <1>1 DEF Near
  <1>4. synced' \in BOOLEAN /\ (synced' => synced \/ ~src'.dirty) BY <1>0, <1>1, <1>2
  <1> QED BY <1>0, <1>1, <1>3, <1>4, Plainly, QuietStep DEF Follows

LEMMA InvalidateStep ==
    ASSUME House, ~mode.ram, Invalidate
    PROVE  House' /\ Allowed(src, src')
  <1>0. /\ Sane /\ mode' = mode /\ call' = call /\ call.op = "none" /\ told' = told /\ synced' = synced
        /\ src' = Done(Dropped(src)) /\ ~src.dirty /\ synced \in BOOLEAN /\ Good(src) /\ mode \in Modes
    BY DEF House, Invalidate, Free, Idle, Sane
  <1>1. Good(Dropped(src)) /\ Follows(src, Dropped(src)) /\ Dropped(src).pos = src.pos
    BY <1>0, DroppedKeeps
  <1>2. Good(src') /\ Follows(Dropped(src), src') BY <1>0, <1>1, MarkedKeeps
  <1>3. src'.pos = src.pos /\ src'.out = <<>> BY <1>0, <1>1, Marked DEF Good
  <1>4. Near(src, src') BY <1>1, <1>2, <1>3, FollowsOn DEF Near
  <1> QED BY <1>0, <1>2, <1>3, <1>4, Plainly, QuietStep

LEMMA ResizeStep ==
    ASSUME House, ~mode.ram, mode.dev = "image", NEW n \in 1 .. mode.size, Resize(n)
    PROVE  House' /\ Allowed(src, src')
  <1>0. /\ Sane /\ mode' = mode /\ call' = call /\ call.op = "none" /\ synced' = synced
        /\ src' \in ResizeTo(src, n) /\ synced \in BOOLEAN /\ Good(src) /\ mode \in Modes /\ mode.resize
        /\ told' = IF src'.ok
                   THEN [p \in Positions |-> IF p < src.size /\ p < n THEN told[p] ELSE src'.file[p]]
                   ELSE told
    BY DEF House, Resize, Free, Idle, Sane
  <1>1. n \in 1 .. MaxSize /\ n \in Nat BY <1>0, Modal
  <1>2. /\ Good(src') /\ src'.out = <<>>
        /\ ~src'.ok => Follows(src, src') /\ src'.pos = src.pos
        /\ src'.ok => /\ src'.size = n /\ src'.pos = Least(src.pos, n) /\ ~src'.dirty
                      /\ Fine(src') => Fine(src) /\ View(src') = src'.file
                            /\ \A p \in Positions : p < src.size /\ p < n => src'.file[p] = View(src)[p]
                      /\ ~src.dirty => \A p \in Positions : p < src.size /\ p < n => src'.file[p] = src.file[p]
                      /\ src.dirty => /\ Fine(src)
                            /\ \A p \in Positions : p < src.size /\ p < n => src'.file[p] = View(src)[p]
    BY <1>0, <1>1, ResizeKeeps
  <1>3. CASE ~src'.ok
    <2>1. Near(src, src') /\ told' = told BY <1>0, <1>2, <1>3 DEF Near
    <2> QED BY <1>0, <1>2, <1>3, <2>1, Plainly, QuietStep
  <1>4. CASE src'.ok
    <2>1. Overrun \/ \A p \in Positions : p < src.size /\ p < n => src'.file[p] = told[p]
      <3>0. ~src.short BY <1>0, Modal DEF Good, Roomy
      <3>1. CASE src.dirty BY <1>0, <1>2, <1>4, <3>0, <3>1 DEF House, Truth, Same, Fine, LostIn
      <3>2. CASE ~src.dirty BY <1>0, <1>2, <1>4, <3>0, <3>2 DEF House, Truth, Same
      <3> QED BY <3>1, <3>2
    <2>2. Overrun \/ \A p \in Positions : told'[p] = src'.file[p]
      BY <1>0, <1>4, <2>1
    <2>3. told' \in [Positions -> Byte]
      <3>1. \A p \in Positions : told'[p] \in Byte BY <1>0, <1>2, <1>4 DEF Good, Source, Sane
      <3>2. told' = [p \in Positions |-> told'[p]] BY <1>0, <1>4
      <3> QED BY <3>1, <3>2
    <2>4. Truth'
      <3>1. Fine(src)' => Fine(src') /\ View(src)' = src'.file BY <1>0, <1>2, <1>4, Bridge
      <3>2. /\ call'.op = "none" /\ ~src'.dirty BY <1>0, <1>2, <1>4
      <3> QED BY <2>2, <3>1, <3>2 DEF Truth, Same, Positions
    <2>5. Good(src)' /\ Plain(src)' BY <1>0, <1>2, Bridge, Plainly
    <2>6. Sane' BY <1>0, <2>3, <2>5 DEF Sane, Positions
    <2>7. Resized(src, src')
      <3>1. src'.pos = IF src.pos > src'.size THEN src'.size ELSE src.pos
        <4>1. src.pos \in Nat BY <1>0 DEF Good, Source
        <4> QED BY <1>1, <1>2, <1>4, <4>1 DEF Least
      <3>2. Fine(src') => View(src') \in [Positions -> Byte] BY <1>2, <1>4 DEF Good, Source
      <3> QED BY <1>1, <1>2, <1>4, <3>1, <3>2 DEF Resized
    <2> QED BY <2>4, <2>6, <2>7 DEF House, Allowed
  <1>5. src'.ok \in BOOLEAN BY <1>2 DEF Good, Source
  <1> QED BY <1>3, <1>4, <1>5

LEMMA CloseStep ==
    ASSUME House, ~mode.ram, Close
    PROVE  House' /\ src'.pos = src.pos /\ (Fine(src') => Fine(src) /\ Allowed(src, src'))
  <1>0. /\ Sane /\ mode' = mode /\ call' = [Idle EXCEPT !.op = "closed"] /\ call.op = "none"
        /\ told' = told /\ synced' = synced /\ synced \in BOOLEAN /\ Good(src) /\ mode \in Modes
    BY DEF House, Close, Free, Idle, Sane
  <1>1. /\ Good(src') /\ src'.pos = src.pos /\ src'.size = src.size /\ src'.out = <<>>
        /\ Fine(src') => Follows(src, src') /\ ~src'.dirty
        /\ ~src.dirty => src'.file = src.file
        /\ src.short => src'.short
    <2>1. CASE src' \in Flush(src)
      <3>1. /\ Good(src') /\ Follows(src, src') /\ src'.pos = src.pos /\ src'.out = <<>>
            /\ src'.ok => ~src'.dirty
            /\ ~src'.ok => src'.dead \/ (mode.ro /\ src'.dirty)
        BY <1>0, <2>1, FlushKeeps
      <3>2. src'.ok \in BOOLEAN BY <3>1 DEF Good, Source
      <3>3. Fine(src') => ~src'.dirty BY <3>1, <3>2 DEF Fine, LostIn
      <3> QED BY <3>1, <3>3 DEF Follows
    <2>2. CASE \E t \in Flush(src) : src' = Failed([t EXCEPT !.file = src.file, !.dead = TRUE])
      <3>1. PICK t \in Flush(src) : src' = Failed([t EXCEPT !.file = src.file, !.dead = TRUE])
        BY <2>2
      <3>2. Good(t) /\ t.pos = src.pos /\ t.size = src.size /\ (src.short => t.short)
        BY <1>0, FlushKeeps DEF Follows
      <3> DEFINE u == [t EXCEPT !.file = src.file, !.dead = TRUE]
      <3>3. /\ u \in Source /\ u.file = src.file /\ u.dead /\ u.pos = t.pos /\ u.size = t.size
            /\ u.start = t.start /\ u.bytes = t.bytes /\ u.dirty = t.dirty
            /\ u.have = t.have /\ u.short = t.short
        BY <1>0, <3>2 DEF Good, Source
      <3>4. src' = Failed(u) BY <3>1
      <3> HIDE DEF u
      <3>5. /\ src' \in Source /\ src'.file = src.file /\ src'.dead /\ src'.pos = t.pos /\ src'.size = t.size
            /\ src'.start = t.start /\ src'.bytes = t.bytes /\ src'.dirty = t.dirty /\ src'.out = <<>>
            /\ src'.have = t.have /\ src'.short = t.short
        BY <3>3, <3>4, Marked
      <3> QED BY <3>2, <3>5 DEF Good, Window, Clean, Roomy, Fine, LostIn
    <2> QED BY <2>1, <2>2 DEF Close
  <1>2. call'.op = "closed" /\ call' \in [op : {"none", "get", "set", "closed"}, left : Nat, data : Seq(Byte)]
    <2>1. <<>> \in Seq(Byte) BY EmptySeq
    <2> QED BY <1>0, <2>1 DEF Idle
  <1>3. Truth'
    <2>1. Fine(src') => Same(View(src'), told, src.size) BY <1>1 DEF House, Truth, Follows
    <2>2. synced /\ ~src'.short => Same(src'.file, told, src.size) BY <1>0, <1>1 DEF House, Truth
    <2>3. Fine(src)' => Same(View(src), told, src.size)' BY <1>0, <1>1, <2>1, Bridge DEF Same, Positions
    <2>4. synced' /\ ~src'.short => Same(src.file, told, src.size)' BY <1>0, <1>1, <2>2 DEF Same, Positions
    <2>5. Fine(src)' => ~src'.dirty BY <1>0, <1>1, Bridge
    <2> QED BY <1>2, <2>3, <2>4, <2>5 DEF Truth
  <1>4. Sane'
    <2>1. Good(src)' /\ Plain(src)' BY <1>0, <1>1, Bridge, Plainly
    <2> QED BY <1>0, <1>1, <1>2, <2>1 DEF Sane, Positions
  <1>5. Fine(src') => Fine(src) /\ Near(src, src') BY <1>1 DEF Follows, Near
  <1>6. Fine(src') => Allowed(src, src') BY <1>0, <1>1, <1>5, NearItself DEF Allowed, Good
  <1> QED BY <1>1, <1>3, <1>4, <1>5, <1>6 DEF House

LEMMA OpenStep ==
    ASSUME House, Open
    PROVE  House' /\ src'.pos = 0 /\ call' = Idle /\ (Fine(src) => Allowed(src, src'))
  <1>0. /\ Sane /\ mode' = mode /\ call' = Idle /\ call.op = "closed"
        /\ told' = src.file /\ synced' = TRUE /\ Good(src) /\ mode \in Modes
        /\ \E h \in Sizes(src.have, src.size) : src' = Opened(src.file, src.size, h)
    BY DEF House, Open, Sane
  <1>1. <<>> \in Seq(Byte) /\ Len(<<>>) = 0 BY EmptySeq
  <1>11. PICK h \in Sizes(src.have, src.size) : src' = Opened(src.file, src.size, h) BY <1>0
  <1>12. h \in Nat /\ (~mode.tight => h = src.have)
    <2>1. src.have \in Nat /\ src.size \in Nat BY <1>0, Modal DEF Good, Source
    <2> QED BY <2>1, Sized
  <1>2. /\ src' \in Source /\ src'.file = src.file /\ src'.size = src.size /\ src'.start = 0
        /\ src'.bytes = <<>> /\ ~src'.dirty /\ src'.pos = 0 /\ ~src'.dead /\ src'.out = <<>>
        /\ src'.have = h /\ ~src'.short
    BY <1>0, <1>1, <1>11, <1>12 DEF Opened, Good, Source
  <1>3. src.size \in Nat \ {0} /\ src.file \in [Positions -> Byte] BY <1>0 DEF Good, Source
  <1>4. Window(src')
    BY <1>0, <1>1, <1>2, <1>3, Modal DEF Window, Good
  <1>5. View(src') = src.file BY <1>2, EmptyView
  <1>13. Roomy(src') BY <1>0, <1>2, <1>12 DEF Good, Roomy
  <1>6. Good(src') /\ Plain(src') BY <1>2, <1>4, <1>5, <1>13 DEF Good, Clean, Plain
  <1>7. /\ call' \in [op : {"none", "get", "set", "closed"}, left : Nat, data : Seq(Byte)]
        /\ call'.op = "none"
    BY <1>0, <1>1 DEF Idle
  <1>8. Truth'
    <2>1. View(src)' = src.file BY <1>0, <1>5, Bridge
    <2> QED BY <1>0, <1>2, <1>7, <2>1 DEF Truth, Same
  <1>9. Sane'
    <2>1. Good(src)' /\ Plain(src)' BY <1>0, <1>6, Bridge
    <2> QED BY <1>0, <1>2, <1>3, <1>7, <2>1 DEF Sane, Positions
  <1>10. Fine(src) => Allowed(src, src')
    <2> SUFFICES ASSUME Fine(src) PROVE Allowed(src, src')
      OBVIOUS
    <2>1. ~src.dirty /\ ~src.short /\ View(src) = src.file
      BY <1>0 DEF House, Truth, Good, Clean, Fine, LostIn
    <2>2. Near(src, src') BY <1>2, <1>3, <1>5, <2>1 DEF Near, Follows
    <2> QED BY <1>0, <1>2, <2>2, NearItself DEF Allowed, Good
  <1> QED BY <1>0, <1>2, <1>8, <1>9, <1>10 DEF House

-----------------------------------------------------------------------------
(* What a device does to its source: it may move it first, and read or      *)
(* write a byte there.                                                      *)

Held == mode' = mode /\ call' = call /\ call.op = "none"

LEMMA DeviceReads ==
    ASSUME House, Held, NEW u, Good(u), Plain(u), Near(src, u), src' \in SourceGet(u),
           told' = told, synced' = synced
    PROVE  /\ House' /\ Allowed(src, src') /\ src'.size = src.size
           /\ Fine(src') => Fine(u) /\ Fine(src)
           /\ src'.ok => /\ u.pos < src.size /\ src'.pos = Past(u, 1)
                         /\ src'.out = <<View(src')[u.pos]>>
           /\ ~src'.ok => src'.dead \/ src'.short \/ AtEnd(u)
  <1>0. /\ Sane /\ synced \in BOOLEAN /\ Good(src) /\ mode \in Modes /\ mode' = mode /\ call' = call
        /\ call.op = "none" /\ Follows(src, u) /\ u.size = src.size
    BY DEF House, Sane, Held, Near, Follows
  <1>1. Good(src') /\ Plain(src') /\ Gives(u, src', 1) /\ Follows(u, src')
    <2>1. Good(src') /\ Plain(src') /\ Gives(u, src', 1) BY <1>0, SourceGetKeeps
    <2> QED BY <2>1 DEF Gives
  <1>2. Follows(src, src') BY <1>0, <1>1, FollowsOn
  <1>3. House'
    <2>1. call' \in [op : {"none", "get"}, left : Nat, data : Seq(Byte)] BY <1>0 DEF Sane
    <2> QED BY <1>0, <1>1, <1>2, <2>1, KeptHouse
  <1>4. src'.ok \in BOOLEAN /\ u \in Source /\ u.pos \in Nat /\ u.size \in Nat \ {0}
    BY <1>1 DEF Good, Source
  <1>5. Allowed(src, src')
    <2>1. CASE src'.ok BY <1>1, <1>4, <2>1 DEF Allowed
    <2>2. CASE ~src'.ok
      <3>1. src'.out = <<>> /\ Near(u, src') BY <1>1, <2>2 DEF Gives, Near
      <3> QED BY <1>4, <3>1 DEF Allowed
    <2> QED BY <1>4, <2>1, <2>2
  <1>6. ASSUME src'.ok
        PROVE  u.pos < src.size /\ src'.pos = Past(u, 1) /\ src'.out = <<View(src')[u.pos]>>
    <2>1. /\ u.pos < src.size /\ Len(src'.out) = 1 /\ src'.pos = Past(u, 1)
          /\ src'.out = [i \in 1 .. 1 |-> View(src')[(u.pos + i - 1) % u.size]]
      <3>1. Len(src'.out) = 1 BY <1>1, <1>6 DEF Gives
      <3> QED BY <1>0, <1>1, <1>6, <3>1 DEF Gives
    <2>2. (u.pos + 1 - 1) % u.size = u.pos
      <3> DEFINE x == u.pos
                 m == u.size
      <3>1. x \in Nat /\ m \in Nat \ {0} /\ x < m /\ x < 2 * m BY <1>0, <1>4, <2>1
      <3> HIDE DEF x, m
      <3>2. x % m = x /\ x + 1 - 1 = x BY <3>1, Round
      <3> QED BY <3>2 DEF x, m
    <2> DEFINE c == View(src')[u.pos]
    <2>3. src'.out[1] = c BY <2>1, <2>2
    <2>4. src'.out = [i \in 1 .. 1 |-> src'.out[1]] BY <2>1
    <2> HIDE DEF c
    <2>5. <<c>> = [i \in 1 .. 1 |-> c] OBVIOUS
    <2> QED BY <2>1, <2>3, <2>4, <2>5 DEF c
  <1>7. ~src'.ok => src'.dead \/ src'.short \/ AtEnd(u) BY <1>1 DEF Gives
  <1> QED BY <1>0, <1>1, <1>2, <1>3, <1>5, <1>6, <1>7 DEF Follows

LEMMA DeviceWrites ==
    ASSUME House, Held, NEW u, Good(u), Plain(u), Near(src, u), NEW b \in Byte, src' \in SourcePut(u, b),
           NEW at, told' = IF src'.ok THEN [told EXCEPT ![at] = b] ELSE told,
           synced' = (synced /\ ~src'.ok),
           Overrun \/ ~Fine(src') \/ at = u.pos
    PROVE  /\ House' /\ Allowed(src, src') /\ src'.size = src.size
           /\ Fine(src') => Fine(u) /\ Fine(src)
           /\ src'.ok => u.pos < src.size /\ src'.pos = Past(u, 1)
           /\ ~src'.ok => src'.dead \/ src'.short \/ AtEnd(u)
  <1>0. /\ Sane /\ synced \in BOOLEAN /\ Good(src) /\ mode \in Modes /\ mode' = mode /\ call' = call
        /\ call.op = "none" /\ Follows(src, u) /\ u.size = src.size
    BY DEF House, Sane, Held, Near, Follows
  <1>1. /\ Good(src') /\ Plain(src')
        /\ src'.ok => Accepts(u, src', <<b>>)
        /\ ~src'.ok => Follows(u, src') /\ src'.pos = u.pos /\ src'.out = <<>> /\ (src'.dead \/ src'.short \/ AtEnd(u))
    BY <1>0, SourcePutKeeps
  <1>4. src'.ok \in BOOLEAN /\ u \in Source /\ u.pos \in Nat /\ u.size \in Nat \ {0}
    BY <1>1 DEF Good, Source
  <1>2. CASE ~src'.ok
    <2>1. Follows(src, src') /\ Near(u, src') BY <1>0, <1>1, <1>2, FollowsOn DEF Near
    <2>2. House'
      <3>1. call' \in [op : {"none", "get"}, left : Nat, data : Seq(Byte)] BY <1>0 DEF Sane
      <3>2. synced' = synced /\ told' = told BY <1>0, <1>2
      <3> QED BY <1>0, <1>1, <2>1, <3>1, <3>2, KeptHouse
    <2>3. Allowed(src, src') BY <1>1, <1>2, <1>4, <2>1 DEF Allowed
    <2> QED BY <1>0, <1>1, <1>2, <2>1, <2>2, <2>3 DEF Follows
  <1>3. CASE src'.ok
    <2>0. <<b>> \in Seq(Byte) /\ <<b>> # <<>> /\ Len(<<b>>) = 1 /\ DOMAIN <<b>> = {1} /\ <<b>>[1] = b
      OBVIOUS
    <2>1. Accepts(u, src', <<b>>) BY <1>1, <1>3
    <2>2. src'.size = src.size /\ u.pos < src.size /\ src'.pos = Past(u, 1)
      BY <1>0, <2>0, <2>1 DEF Accepts
    <2>3. Allowed(src, src') BY <1>4, <2>0, <2>1 DEF Allowed
    <2>4. ~synced' /\ told' = [told EXCEPT ![at] = b] BY <1>0, <1>3
    <2>5. (u.pos + 1 - 1) % src.size = u.pos
      <3> DEFINE x == u.pos
                 m == src.size
      <3>1. x \in Nat /\ m \in Nat \ {0} /\ x < m /\ x < 2 * m BY <1>0, <1>4, <2>2
      <3> HIDE DEF x, m
      <3>2. x % m = x /\ x + 1 - 1 = x BY <3>1, Round
      <3> QED BY <3>2 DEF x, m
    <2>6. at = u.pos => Retold(u.pos, <<b>>)
      BY <1>0, <2>0, <2>4, <2>5 DEF Retold, Sane
    <2>7. Fine(src') => /\ Fine(u) /\ Fine(src)
                        /\ Overwritten(View(src), View(src'), u.pos, <<b>>, src.size)
      BY <1>0, <2>1 DEF Accepts, Follows
    <2>8. Truth'
      <3>1. Fine(src') => Overrun \/ Retold(u.pos, <<b>>) BY <2>6
      <3>2. call'.op # "closed" BY <1>0
      <3>3. src'.dirty \/ (Fine(src') /\ src'.file = View(src')) BY <2>1 DEF Accepts
      <3> QED BY <1>0, <1>1, <2>2, <2>4, <2>7, <3>1, <3>2, <3>3, Rewritten
    <2>9. Sane'
      <3>1. Good(src)' /\ Plain(src)' BY <1>0, <1>1, Bridge
      <3>2. told' \in [Positions -> Byte] BY <1>0, <2>4 DEF Sane
      <3> QED BY <1>0, <2>2, <2>4, <3>1, <3>2 DEF Sane, Positions
    <2> QED BY <1>3, <2>2, <2>3, <2>7, <2>8, <2>9 DEF House
  <1> QED BY <1>2, <1>3, <1>4

-----------------------------------------------------------------------------
(* Pages and digits.                                                        *)

LEMMA Times ==
    ASSUME NEW B \in Nat \ {0}, NEW a \in Nat, NEW b \in Nat
    PROVE  /\ B * a \in Nat
           /\ a < b => B * a + B <= B * b
           /\ B * a < B * b => a < b
  <1>1. B * a \in Nat /\ B * b \in Nat OBVIOUS
  <1>2. \A c \in Nat : B * (a + 1 + c) = B * a + B + B * c OBVIOUS
  <1>3. \A c \in Nat : B * (b + c) = B * b + B * c /\ B * c \in Nat OBVIOUS
  <1>4. ASSUME a < b PROVE B * a + B <= B * b
    <2>1. b - a - 1 \in Nat /\ b = a + 1 + (b - a - 1) BY <1>4
    <2>2. B * b = B * a + B + B * (b - a - 1) /\ B * (b - a - 1) \in Nat BY <1>2, <2>1
    <2> QED BY <1>1, <2>2
  <1>5. ASSUME ~(a < b) PROVE ~(B * a < B * b)
    <2>1. a - b \in Nat /\ a = b + (a - b) BY <1>5
    <2>2. B * a = B * b + B * (a - b) /\ B * (a - b) \in Nat BY <1>3, <2>1
    <2> QED BY <1>1, <2>2
  <1> QED BY <1>1, <1>4, <1>5

\* Division by B, and its uniqueness.
LEMMA Divided ==
    ASSUME NEW B \in Nat \ {0}, NEW x \in Nat
    PROVE  /\ x = B * (x \div B) + (x % B) /\ x % B \in 0 .. B - 1 /\ x \div B \in Nat
           /\ \A q \in Nat, r \in 0 .. B - 1 : x = B * q + r => x \div B = q /\ x % B = r
  <1>1. x = B * (x \div B) + (x % B) /\ x % B \in 0 .. B - 1 /\ x \div B \in Nat
    OBVIOUS
  <1>2. ASSUME NEW q \in Nat, NEW r \in 0 .. B - 1, x = B * q + r
        PROVE  x \div B = q /\ x % B = r
    <2> DEFINE k == x \div B
               m == x % B
    <2>1. k \in Nat /\ m \in 0 .. B - 1 /\ B * k + m = B * q + r BY <1>1, <1>2
    <2> HIDE DEF k, m
    <2>2. B * k \in Nat /\ B * q \in Nat BY <2>1, Times
    <2>3. ~(k < q)
      <3>1. k < q => B * k + B <= B * q BY <2>1, Times
      <3> QED BY <2>1, <2>2, <3>1
    <2>4. ~(q < k)
      <3>1. q < k => B * q + B <= B * k BY <2>1, Times
      <3> QED BY <2>1, <2>2, <3>1
    <2>5. k = q BY <2>1, <2>3, <2>4
    <2>6. m = r BY <2>1, <2>2, <2>5
    <2> QED BY <2>5, <2>6 DEF k, m
  <1> QED BY <1>1, <1>2

LEMMA Remainder ==
    ASSUME NEW B \in Nat \ {0}, NEW x \in Nat, NEW q \in Nat, NEW r \in 0 .. B - 1, x = B * q + r
    PROVE  x % B = r
  <1>1. \A k \in Nat, e \in 0 .. B - 1 : x = B * k + e => x \div B = k /\ x % B = e BY Divided
  <1> QED BY <1>1

\* A place on the page of one that is in the storage is in it too.
LEMMA OnThePage ==
    ASSUME NEW B \in Nat \ {0}, NEW n \in Nat, n % B = 0, NEW x \in Nat, x < n, NEW r \in 0 .. B - 1
    PROVE  /\ (x - (x % B)) + r \in Nat /\ (x - (x % B)) + r < n
           /\ ((x - (x % B)) + r) % B = r
           /\ B <= n
  <1> DEFINE q == x \div B
             k == n \div B
             m == x % B
  <1>1. x = B * q + m /\ m \in 0 .. B - 1 /\ q \in Nat BY Divided
  <1>2. n = B * k + 0 /\ k \in Nat BY Divided
  <1> HIDE DEF q, k, m
  <1>3. B * q \in Nat /\ B * k \in Nat BY <1>1, <1>2, Times
  <1>4. B * q < B * k BY <1>1, <1>2, <1>3
  <1>5. B * q + B <= B * k BY <1>1, <1>2, <1>4, Times
  <1>6. (x - m) + r = B * q + r BY <1>1, <1>3
  <1>7. B * q + r \in Nat /\ B * q + r < n /\ B <= n BY <1>2, <1>3, <1>5
  <1> DEFINE y == B * q + r
  <1>8. y \in Nat /\ y = B * q + r BY <1>7
  <1> HIDE DEF y
  <1>9. y % B = r BY <1>1, <1>8, Divided
  <1> QED BY <1>6, <1>7, <1>9 DEF m, y

LEMMA Bases == Base \in Nat \ {0} /\ Base > 1
  BY DeviceAssumption

LEMMA PageIs ==
    ASSUME NEW n \in Nat, n % Base = 0, NEW x \in Nat, x < n, NEW r \in 0 .. Base - 1
    PROVE  /\ PageOf(x) + r \in Nat /\ PageOf(x) + r < n /\ (PageOf(x) + r) % Base = r
           /\ Base <= n
  <1>0. Base \in Nat \ {0} BY Bases
  <1>1. /\ (x - (x % Base)) + r \in Nat /\ (x - (x % Base)) + r < n
        /\ ((x - (x % Base)) + r) % Base = r
        /\ Base <= n
    BY <1>0, OnThePage
  <1> QED BY <1>1 DEF PageOf

LEMMA NextPlace ==
    ASSUME NEW n \in Nat, n % Base = 0, NEW x \in Nat, x < n
    PROVE  /\ NextOnPage(x) \in Nat /\ NextOnPage(x) < n
           /\ NextOnPage(x) % Base = (x + 1) % Base
           /\ NextOnPage(x) < x \/ NextOnPage(x) = x + 1
  <1> DEFINE r == (x + 1) % Base
             m == x % Base
             q == x \div Base
  <1>0. Base \in Nat \ {0} /\ Base > 1 BY Bases
  <1>1. r \in 0 .. Base - 1 BY <1>0
  <1>2. x = Base * q + m /\ m \in 0 .. Base - 1 /\ q \in Nat BY <1>0, Divided
  <1>3. NextOnPage(x) = (x - m) + r BY DEF NextOnPage, PageOf
  <1>4. NextOnPage(x) \in Nat /\ NextOnPage(x) < n /\ NextOnPage(x) % Base = r
    BY <1>1, PageIs DEF NextOnPage
  <1> HIDE DEF m, q
  <1>5. CASE m + 1 <= Base - 1
    <2>1. Base * q \in Nat BY <1>0, <1>2, Times
    <2> DEFINE y == x + 1
    <2>2. y \in Nat /\ y = Base * q + (m + 1) /\ m + 1 \in 0 .. Base - 1 BY <1>2, <1>5, <2>1
    <2> HIDE DEF y
    <2> DEFINE z == m + 1
    <2>5. z \in 0 .. Base - 1 /\ y = Base * q + z BY <2>2
    <2> HIDE DEF z
    <2>7. y \in Nat BY <2>2
    <2>6. y % Base = z BY <1>0, <1>2, <2>5, <2>7, Remainder
    <2>3. y % Base = m + 1 BY <2>6 DEF z
    <2>4. r = m + 1 BY <2>3 DEF y
    <2> HIDE DEF r
    <2> QED BY <1>2, <1>3, <1>4, <2>4 DEF r
  <1>6. CASE ~(m + 1 <= Base - 1)
    <2>1. Base * q \in Nat /\ Base * (q + 1) = Base * q + Base BY <1>0, <1>2, Times
    <2> DEFINE y == x + 1
    <2>2. y \in Nat /\ y = Base * (q + 1) + 0 /\ 0 \in 0 .. Base - 1 /\ q + 1 \in Nat
      BY <1>0, <1>2, <1>6, <2>1
    <2> HIDE DEF y
    <2> DEFINE z == q + 1
    <2>6. z \in Nat /\ y = Base * z + 0 BY <2>2
    <2> HIDE DEF z
    <2>7. y \in Nat BY <2>2
    <2>8. 0 \in 0 .. Base - 1 BY <1>0
    <2>3. y % Base = 0 BY <1>0, <2>6, <2>7, <2>8, Remainder
    <2>4. r = 0 /\ m = Base - 1 BY <1>0, <1>2, <1>6, <2>3 DEF y
    <2> HIDE DEF r
    <2>5. (x - m) + 0 < x BY <1>0, <1>2, <2>4
    <2> QED BY <1>3, <1>4, <2>4, <2>5 DEF r
  <1> QED BY <1>0, <1>2, <1>5, <1>6

LEMMA LowDigit ==
    ASSUME NEW a \in Nat, NEW d
    PROVE  Digit(a, 0) = a % Base /\ WithDigit(a, 0, d) = PageOf(a) + d * 1
  <1>1. a \div 1 = a BY Divided
  <1>2. (a % Base) * 1 = a % Base BY Bases
  <1> QED BY <1>1, <1>2 DEF Digit, WithDigit, Weight, PageOf

LEMMA HighDigit ==
    ASSUME NEW a \in Nat, a < Base * Base
    PROVE  /\ Digit(a, 1) = a \div Base /\ a \div Base \in 0 .. Base - 1
           /\ \A d \in Nat : WithDigit(a, 1, d) = (a % Base) + Base * d
  <1> DEFINE q == a \div Base
             m == a % Base
  <1>0. Base \in Nat \ {0} BY Bases
  <1>1. a = Base * q + m /\ m \in 0 .. Base - 1 /\ q \in Nat BY <1>0, Divided
  <1> HIDE DEF q, m
  <1>2. Base * q \in Nat /\ Base * q < Base * Base BY <1>0, <1>1, Times
  <1>3. q < Base BY <1>0, <1>1, <1>2, Times
  <1>4. q < 2 * Base /\ q % Base = q BY <1>0, <1>1, <1>3, Round
  <1>5. Digit(a, 1) = q BY <1>4 DEF Digit, Weight, q
  <1>6. ASSUME NEW d \in Nat PROVE WithDigit(a, 1, d) = m + Base * d
    <2>1. q * Base = Base * q /\ d * Base = Base * d /\ Base * d \in Nat BY <1>0, <1>1, Times
    <2>2. WithDigit(a, 1, d) = a - q * Base + d * Base BY <1>5 DEF WithDigit, Weight
    <2> QED BY <1>1, <1>2, <2>1, <2>2
  <1> QED BY <1>0, <1>1, <1>3, <1>5, <1>6 DEF q, m

-----------------------------------------------------------------------------
(* The invariant of the devices: where the guest is, where its device and   *)
(* the source are.                                                          *)

Guided ==
    /\ guest \in [at : Nat, past : BOOLEAN, digits : {0, 1}]
    /\ reg \in [ctr : Nat, idx : {0, 1}, first : BOOLEAN]
    /\ mode.dev # "image" => guest.at < src.size
    /\ mode.dev = "ramdisk" => /\ reg.ctr % Base = guest.at % Base
                               /\ Overrun \/ guest.past \/ reg.ctr = guest.at
    /\ mode.dev = "pico" => /\ reg.idx = guest.digits
                            /\ guest.digits = 0 => guest.at = src.pos \/ ~Fine(src)
                            /\ guest.digits = 1 => guest.at % Base = src.pos % Base \/ ~Fine(src)
    /\ mode.dev = "sram" => guest.at = src.pos \/ ~Fine(src)

Heard == Overrun \/ ~wrong

Inv == House /\ Guided /\ Heard

\* What a step may be to the array of bytes.
Abides == src' = src \/ (Fine(src) /\ Fine(src') => Allowed(src, src'))

LEMMA DeviceFacts ==
    ASSUME Sane, mode.dev # "image"
    PROVE  /\ src.size \in Nat \ {0} /\ src.size % Base = 0 /\ src.size <= Base * Base /\ src.size <= MaxSize
           /\ src.pos \in Nat /\ src.size \in 1 .. MaxSize
           /\ mode.dev \in {"pico", "sram"} => src.pos < src.size /\ mode.inc /\ mode.wrap
           /\ mode.dev = "ramdisk" => ~mode.inc
  <1>1. src \in Source /\ Window(src) /\ mode \in Modes /\ src.size = mode.size
    BY DEF Sane, Good
  <1> QED BY <1>1, DeviceAssumption, Modal DEF Source, Window

LEMMA Resting ==
    ASSUME House, Held, src' = src, told' = told, synced' = synced
    PROVE  House'
  <1>1. Truth' BY StillTrue DEF Held
  <1>2. Sane' BY Bridge DEF House, Sane, Held, Positions
  <1> QED BY <1>1, <1>2 DEF House

\* What is seen is what the guest was told.
LEMMA ToldRight ==
    ASSUME House', mode' = mode, told' = told, src'.size = src.size, Fine(src'), ~Overrun,
           Sane, NEW p \in Nat, p < src.size
    PROVE  View(src')[p] = told[p]
  <1>1. Fine(src)' BY Bridge
  <1>2. Same(View(src), told, src.size)' BY <1>1 DEF House, Truth
  <1>3. Same(View(src'), told, src.size) BY <1>2, Bridge DEF Same, Positions
  <1>4. p \in Positions BY Modal DEF Sane, Good, Source, Positions
  <1> QED BY <1>3, <1>4 DEF Same

LEMMA SeekFirst ==
    ASSUME Sane, NEW p \in Nat, NEW u \in SourceSeek(src, p)
    PROVE  /\ Good(u) /\ Plain(u) /\ Near(src, u) /\ u.out = <<>> /\ u.size = src.size
           /\ Fine(u) => Fine(src)
           /\ p < src.size => u.ok /\ u.pos = p
  <1>1. mode \in Modes /\ Good(src) /\ Plain(src) BY DEF Sane
  <1> QED BY <1>1, SourceSeekKeeps DEF Near, Follows

LEMMA PageOfAny ==
    ASSUME NEW x \in Nat, NEW r \in 0 .. Base - 1
    PROVE  PageOf(x) + r \in Nat /\ (PageOf(x) + r) % Base = r
  <1> DEFINE q == x \div Base
             m == x % Base
             y == PageOf(x) + r
  <1>0. Base \in Nat \ {0} BY Bases
  <1>1. x = Base * q + m /\ m \in 0 .. Base - 1 /\ q \in Nat BY <1>0, Divided
  <1>2. PageOf(x) = x - m BY DEF PageOf
  <1> HIDE DEF q, m
  <1>3. Base * q \in Nat BY <1>0, <1>1, Times
  <1>4. y = Base * q + r /\ y \in Nat BY <1>0, <1>1, <1>2, <1>3
  <1> HIDE DEF y
  <1>5. y % Base = r BY <1>0, <1>1, <1>4, Remainder
  <1> QED BY <1>4, <1>5 DEF y

LEMMA SameNext ==
    ASSUME NEW x \in Nat, NEW y \in Nat, x % Base = y % Base
    PROVE  (x + 1) % Base = (y + 1) % Base
  <1> DEFINE k == x \div Base
             l == y \div Base
             m == x % Base
  <1>0. Base \in Nat \ {0} BY Bases
  <1>1. x = Base * k + m /\ m \in 0 .. Base - 1 /\ k \in Nat BY <1>0, Divided
  <1>2. y = Base * l + m /\ l \in Nat BY <1>0, Divided
  <1> HIDE DEF k, l, m
  <1>3. Base * k \in Nat /\ Base * l \in Nat BY <1>0, <1>1, <1>2, Times
  <1>4. \A z \in Nat, q \in Nat : z = Base * q + m => (z + 1) % Base = IF m + 1 < Base THEN m + 1 ELSE 0
    <2> SUFFICES ASSUME NEW z \in Nat, NEW q \in Nat, z = Base * q + m
                 PROVE  (z + 1) % Base = IF m + 1 < Base THEN m + 1 ELSE 0
      OBVIOUS
    <2>0. Base * q \in Nat BY <1>0, Times
    <2>1. CASE m + 1 < Base
      <3>1. m + 1 \in 0 .. Base - 1 /\ z + 1 = Base * q + (m + 1) /\ z + 1 \in Nat BY <1>0, <1>1, <2>0, <2>1
      <3> DEFINE w == z + 1
                 e == m + 1
      <3>2. w \in Nat /\ e \in 0 .. Base - 1 /\ w = Base * q + e BY <3>1
      <3> HIDE DEF w, e
      <3>3. w % Base = e BY <1>0, <3>2, Remainder
      <3> QED BY <2>1, <3>3 DEF w, e
    <2>2. CASE ~(m + 1 < Base)
      <3>1. Base * (q + 1) = Base * q + Base BY <1>0
      <3>2. z + 1 = Base * (q + 1) + 0 /\ z + 1 \in Nat BY <1>0, <1>1, <2>0, <2>2, <3>1
      <3> DEFINE w == z + 1
                 e == q + 1
      <3>3. w \in Nat /\ e \in Nat /\ w = Base * e + 0 /\ 0 \in 0 .. Base - 1 BY <1>0, <3>2
      <3> HIDE DEF w, e
      <3>4. w % Base = 0 BY <1>0, <3>3, Remainder
      <3> QED BY <2>2, <3>4 DEF w
    <2> QED BY <2>1, <2>2
  <1> QED BY <1>1, <1>2, <1>4

LEMMA CountKeeps ==
    ASSUME Sane, Guided, mode.dev = "ramdisk", mode' = mode, OnPage, Count, src'.size = src.size
    PROVE  Guided'
  <1>0. /\ reg \in [ctr : Nat, idx : {0, 1}, first : BOOLEAN]
        /\ guest \in [at : Nat, past : BOOLEAN, digits : {0, 1}] /\ guest.at < src.size
        /\ reg' = [reg EXCEPT !.ctr = reg.ctr + 1]
        /\ guest' = [guest EXCEPT !.at = NextOnPage(guest.at),
                                  !.past = (guest.past \/ NextOnPage(guest.at) < guest.at)]
        /\ reg.ctr % Base = guest.at % Base
        /\ Overrun \/ reg.ctr = guest.at
    BY DEF Guided, Count, OnPage
  <1>1. src.size \in Nat \ {0} /\ src.size % Base = 0 BY DeviceFacts
  <1> DEFINE a == NextOnPage(guest.at)
  <1>2. /\ a \in Nat /\ a < src.size /\ a % Base = (guest.at + 1) % Base
        /\ a < guest.at \/ a = guest.at + 1
    BY <1>0, <1>1, NextPlace
  <1> HIDE DEF a
  <1>3. a % Base = (reg.ctr + 1) % Base BY <1>0, <1>2, SameNext
  <1>4. guest' = [guest EXCEPT !.at = a, !.past = (guest.past \/ a < guest.at)] BY <1>0 DEF a
  <1>5. /\ guest' \in [at : Nat, past : BOOLEAN, digits : {0, 1}] /\ guest'.at = a
        /\ a < guest.at => guest'.past
    BY <1>0, <1>2, <1>4
  <1>6. reg' \in [ctr : Nat, idx : {0, 1}, first : BOOLEAN] /\ reg'.ctr = reg.ctr + 1 BY <1>0
  <1>7. Overrun \/ guest'.past \/ reg'.ctr = guest'.at BY <1>0, <1>2, <1>5, <1>6
  <1> QED BY <1>1, <1>2, <1>3, <1>5, <1>6, <1>7 DEF Guided

LEMMA DiskReadStep == ASSUME Inv, DiskRead PROVE Inv' /\ Abides
  <1>0. /\ Sane /\ House /\ Held /\ told' = told /\ synced' = synced /\ mode' = mode /\ mode.dev = "ramdisk"
        /\ OnPage /\ Count /\ Judge /\ reg.ctr \in Nat /\ guest.at \in Nat /\ guest.at < src.size
    BY DEF Inv, House, Guided, DiskRead, Is, Free, Idle, Held, Unwritten
  <1>1. PICK u \in SourceSeek(src, reg.ctr) : src' \in SourceGet(u) BY DEF DiskRead
  <1>2. /\ Good(u) /\ Plain(u) /\ Near(src, u)
        /\ reg.ctr < src.size => u.pos = reg.ctr
    BY <1>0, SeekFirst
  <1>3. /\ House' /\ Allowed(src, src') /\ src'.size = src.size
        /\ src'.ok => src'.out = <<View(src')[u.pos]>>
    BY <1>0, <1>1, <1>2, DeviceReads
  <1>4. Guided' BY <1>0, <1>3, CountKeeps DEF Inv
  <1>5. Heard'
    <2> SUFFICES ASSUME ~Overrun, Fine(src'), src'.ok PROVE src'.out = <<told[guest.at]>>
      BY <1>0 DEF Heard, Judge, Inv, Fine
    <2>1. reg.ctr = guest.at BY <1>0 DEF OnPage, Inv, Guided
    <2>2. u.pos = guest.at BY <1>0, <1>2, <2>1
    <2>3. View(src')[guest.at] = told[guest.at] BY <1>0, <1>3, ToldRight
    <2> QED BY <1>3, <2>2, <2>3
  <1> QED BY <1>3, <1>4, <1>5 DEF Inv, Abides

LEMMA DiskWriteStep == ASSUME Inv, NEW b \in Byte, DiskWrite(b) PROVE Inv' /\ Abides
  <1>0. /\ Sane /\ House /\ Held /\ mode' = mode /\ call' = call /\ call.op = "none" /\ mode.dev = "ramdisk"
        /\ OnPage /\ Count /\ wrong' = wrong /\ reg.ctr \in Nat /\ guest.at \in Nat /\ guest.at < src.size
    BY DEF Inv, House, Guided, DiskWrite, Is, Free, Idle, Held
  <1>1. PICK u \in SourceSeek(src, reg.ctr) :
             IF mode.readOnly THEN src' = u /\ Unwritten
             ELSE src' \in SourcePut(u, b) /\ Written(b)
    BY DEF DiskWrite
  <1>2. /\ Good(u) /\ Plain(u) /\ Near(src, u) /\ u.out = <<>> /\ u.size = src.size
        /\ reg.ctr < src.size => u.pos = reg.ctr
    BY <1>0, SeekFirst
  <1>3. House' /\ Allowed(src, src') /\ src'.size = src.size
    <2>1. CASE mode.readOnly
      <3>1. src' = u /\ told' = told /\ synced' = synced /\ synced \in BOOLEAN
        BY <1>0, <1>1, <2>1 DEF Unwritten, Sane
      <3> QED BY <1>0, <1>2, <3>1, QuietStep
    <2>2. CASE ~mode.readOnly
      <3>1. /\ src' \in SourcePut(u, b) /\ synced' = (synced /\ ~src'.ok)
            /\ told' = IF src'.ok THEN [told EXCEPT ![guest.at] = b] ELSE told
        BY <1>1, <2>2 DEF Written
      <3>2. Overrun \/ guest.at = u.pos
        BY <1>0, <1>2 DEF OnPage, Inv, Guided
      <3> QED BY <1>0, <1>2, <3>1, <3>2, DeviceWrites
    <2> QED BY <2>1, <2>2
  <1>4. Guided' BY <1>0, <1>3, CountKeeps DEF Inv
  <1>5. Heard' BY <1>0 DEF Heard, Inv
  <1> QED BY <1>3, <1>4, <1>5 DEF Inv, Abides

LEMMA DiskPageStep == ASSUME Inv, NEW d \in 0 .. Base, DiskPage(d) PROVE Inv' /\ Abides
  <1>0. /\ Sane /\ House /\ Held /\ mode' = mode /\ mode.dev = "ramdisk" /\ src' = src
        /\ told' = told /\ synced' = synced /\ wrong' = wrong
        /\ reg \in [ctr : Nat, idx : {0, 1}, first : BOOLEAN] /\ guest.at \in Nat
        /\ reg' = [reg EXCEPT !.ctr = PageOf((d * Base) % src.size) + (reg.ctr % Base)]
        /\ guest' = AtAddress(PageOf((d * Base) % src.size) + (guest.at % Base))
        /\ reg.ctr % Base = guest.at % Base
    BY DEF Inv, House, Guided, DiskPage, Is, Free, Idle, Held, Unwritten
  <1>1. /\ src.size \in Nat \ {0} /\ src.size % Base = 0 BY <1>0, DeviceFacts
  <1> DEFINE x == (d * Base) % src.size
             r == guest.at % Base
             a == PageOf(x) + r
  <1>2. x \in Nat /\ x < src.size
    <2>1. d * Base \in Nat BY Bases
    <2> QED BY <1>1, <2>1
  <1>3. r \in 0 .. Base - 1 BY <1>0, Bases
  <1> HIDE DEF x, r
  <1>4. a \in Nat /\ a < src.size BY <1>1, <1>2, <1>3, PageIs
  <1> HIDE DEF a
  <1>5. reg' = [reg EXCEPT !.ctr = a] /\ guest' = AtAddress(a) BY <1>0 DEF x, r, a
  <1>6. Guided' BY <1>0, <1>4, <1>5 DEF Guided, AtAddress, Afresh
  <1>7. House' BY <1>0, Resting
  <1> QED BY <1>0, <1>6, <1>7 DEF Inv, Heard, Abides

LEMMA DiskAddressStep == ASSUME Inv, NEW low \in 0 .. Base - 1, DiskAddress(low) PROVE Inv' /\ Abides
  <1>0. /\ Sane /\ House /\ Held /\ mode' = mode /\ mode.dev = "ramdisk" /\ src' = src
        /\ told' = told /\ synced' = synced /\ wrong' = wrong
        /\ reg \in [ctr : Nat, idx : {0, 1}, first : BOOLEAN] /\ guest.at \in Nat /\ guest.at < src.size
        /\ reg' = [reg EXCEPT !.ctr = PageOf(reg.ctr) + low]
        /\ guest' = AtAddress(PageOf(guest.at) + low)
        /\ Overrun \/ reg.ctr = guest.at
    BY DEF Inv, House, Guided, DiskAddress, Is, Free, Idle, Held, Unwritten, OnPage
  <1>1. /\ src.size \in Nat \ {0} /\ src.size % Base = 0 BY <1>0, DeviceFacts
  <1>2. PageOf(guest.at) + low \in Nat /\ PageOf(guest.at) + low < src.size
        /\ (PageOf(guest.at) + low) % Base = low
    BY <1>0, <1>1, PageIs
  <1>3. PageOf(reg.ctr) + low \in Nat /\ (PageOf(reg.ctr) + low) % Base = low
    BY <1>0, PageOfAny
  <1> DEFINE a == PageOf(guest.at) + low
             c == PageOf(reg.ctr) + low
  <1>4. /\ a \in Nat /\ a < src.size /\ c \in Nat /\ a % Base = c % Base /\ (Overrun \/ c = a)
        /\ reg' = [reg EXCEPT !.ctr = c] /\ guest' = AtAddress(a)
    BY <1>0, <1>2, <1>3
  <1> HIDE DEF a, c
  <1>5. /\ guest' \in [at : Nat, past : BOOLEAN, digits : {0, 1}] /\ guest'.at = a
        /\ reg' \in [ctr : Nat, idx : {0, 1}, first : BOOLEAN] /\ reg'.ctr = c
    BY <1>0, <1>4 DEF AtAddress, Afresh
  <1>6. Guided' BY <1>0, <1>4, <1>5 DEF Guided
  <1>7. House' BY <1>0, Resting
  <1> QED BY <1>0, <1>6, <1>7 DEF Inv, Heard, Abides

LEMMA DiskResetStep == ASSUME Inv, DiskReset PROVE Inv' /\ Abides
  <1>0. /\ Sane /\ House /\ Held /\ mode' = mode /\ mode.dev = "ramdisk" /\ src' = src
        /\ told' = told /\ synced' = synced /\ wrong' = wrong
        /\ reg \in [ctr : Nat, idx : {0, 1}, first : BOOLEAN]
        /\ reg' = [reg EXCEPT !.ctr = 0] /\ guest' = Afresh
    BY DEF Inv, House, Guided, DiskReset, Is, Free, Idle, Held, Unwritten
  <1>1. src.size \in Nat \ {0} BY <1>0, DeviceFacts
  <1>6. Guided' BY <1>0, <1>1 DEF Guided, Afresh
  <1>7. House' BY <1>0, Resting
  <1> QED BY <1>0, <1>6, <1>7 DEF Inv, Heard, Abides

LEMMA PicoFacts ==
    ASSUME Inv, Is("pico")
    PROVE  /\ Sane /\ House /\ call.op = "none" /\ mode.dev = "pico" /\ mode \in Modes /\ Good(src) /\ Plain(src)
           /\ src.size \in Nat \ {0} /\ src.size % Base = 0 /\ src.size <= Base * Base /\ src.size <= MaxSize
           /\ src.pos \in Nat /\ src.pos < src.size /\ mode.inc /\ mode.wrap
           /\ guest \in [at : Nat, past : BOOLEAN, digits : {0, 1}] /\ guest.at < src.size
           /\ reg \in [ctr : Nat, idx : {0, 1}, first : BOOLEAN] /\ reg.idx = guest.digits
           /\ guest.digits = 0 => guest.at = src.pos \/ ~Fine(src)
           /\ guest.digits = 1 => guest.at % Base = src.pos % Base \/ ~Fine(src)
           /\ Fine(src) => Asked = src.pos
           /\ Asked \in Nat /\ Asked < src.size
           /\ synced \in BOOLEAN
  <1>1. Sane /\ House /\ call.op = "none" /\ mode.dev = "pico" /\ mode \in Modes /\ Good(src) /\ Plain(src)
        /\ synced \in BOOLEAN
    BY DEF Inv, House, Sane, Is, Free, Idle
  <1>2. /\ src.size \in Nat \ {0} /\ src.size % Base = 0 /\ src.size <= Base * Base /\ src.size <= MaxSize
        /\ src.pos \in Nat /\ src.pos < src.size /\ mode.inc /\ mode.wrap
    BY <1>1, DeviceFacts
  <1>3. /\ guest \in [at : Nat, past : BOOLEAN, digits : {0, 1}] /\ guest.at < src.size
        /\ reg \in [ctr : Nat, idx : {0, 1}, first : BOOLEAN] /\ reg.idx = guest.digits
        /\ guest.digits = 0 => guest.at = src.pos \/ ~Fine(src)
        /\ guest.digits = 1 => guest.at % Base = src.pos % Base \/ ~Fine(src)
    BY <1>1 DEF Inv, Guided
  <1>4. /\ Fine(src) => Asked = src.pos
        /\ Asked \in Nat /\ Asked < src.size
    BY <1>2, <1>3 DEF Asked
  <1> QED BY <1>1, <1>2, <1>3, <1>4

\* The guest has an address, whole or by its first digit.
Handed(a, n) == guest' \in [at : Nat, past : BOOLEAN, digits : {0, 1}] /\ guest'.at = a /\ guest'.digits = n

LEMMA HandedOver ==
    /\ \A a \in Nat : guest' = AtAddress(a) => Handed(a, 0)
    /\ \A a \in Nat, n \in {0, 1} : guest' = [AtAddress(a) EXCEPT !.digits = n] => Handed(a, n)
    /\ guest' = Afresh => Handed(0, 0)
  <1> DEFINE G == [at : Nat, past : BOOLEAN, digits : {0, 1}]
  <1>1. Afresh \in G /\ Afresh.at = 0 /\ Afresh.digits = 0 BY DEF Afresh
  <1>2. ASSUME NEW a \in Nat PROVE AtAddress(a) \in G /\ AtAddress(a).at = a /\ AtAddress(a).digits = 0
    BY <1>1 DEF AtAddress
  <1>3. ASSUME NEW a \in Nat, NEW n \in {0, 1}, NEW g, g = [AtAddress(a) EXCEPT !.digits = n]
        PROVE  g \in G /\ g.at = a /\ g.digits = n
    BY <1>2, <1>3
  <1> QED BY <1>1, <1>2, <1>3 DEF Handed

\* The guest and its device end at one address.
LEMMA PicoGuided ==
    ASSUME mode.dev = "pico", mode' = mode, NEW a \in Nat, a < src'.size, NEW n \in {0, 1},
           reg \in [ctr : Nat, idx : {0, 1}, first : BOOLEAN],
           Handed(a, n), reg' = [reg EXCEPT !.idx = n],
           n = 0 /\ Fine(src') => a = src'.pos,
           n = 1 /\ Fine(src') => a % Base = src'.pos % Base
    PROVE  Guided'
  <1>1. /\ guest' \in [at : Nat, past : BOOLEAN, digits : {0, 1}] /\ guest'.at = a /\ guest'.digits = n
        /\ reg' \in [ctr : Nat, idx : {0, 1}, first : BOOLEAN] /\ reg'.idx = n
    BY DEF Handed
  <1>2. Fine(src)' <=> Fine(src') BY Bridge
  <1> QED BY <1>1, <1>2 DEF Guided

\* The position is sought, to the address asked for if all is well.
LEMMA PicoSeeks ==
    ASSUME Inv, Is("pico"), Held, mode' = mode, told' = told, synced' = synced, wrong' = wrong,
           NEW p \in Nat, src' \in SourceSeek(src, p),
           NEW a \in Nat, a < src.size, NEW n \in {0, 1},
           Handed(a, n), reg' = [reg EXCEPT !.idx = n],
           Fine(src) => p < src.size /\ (IF n = 0 THEN a = p ELSE a % Base = p % Base)
    PROVE  Inv' /\ Abides
  <1>1. /\ Good(src') /\ Plain(src') /\ Near(src, src') /\ src'.out = <<>> /\ src'.size = src.size
        /\ Fine(src') => Fine(src)
        /\ p < src.size => src'.pos = p
    BY PicoFacts, SeekFirst
  <1>2. House' /\ Allowed(src, src') BY <1>1, PicoFacts, QuietStep DEF Held
  <1>3. Guided' BY <1>1, PicoFacts, PicoGuided
  <1> QED BY <1>2, <1>3 DEF Inv, Heard, Abides

LEMMA PicoControlStep == ASSUME Inv, PicoControl PROVE Inv' /\ Abides
  <1>1. /\ Is("pico") /\ Held /\ mode' = mode /\ told' = told /\ synced' = synced /\ wrong' = wrong
        /\ src' \in SourceSeek(src, 0) /\ guest' = Afresh /\ reg' = [reg EXCEPT !.idx = 0]
    BY DEF PicoControl, Held, Is, Free, Idle, Unwritten
  <1>2. Handed(0, 0) BY <1>1, HandedOver
  <1>3. 0 \in Nat /\ 0 < src.size BY <1>1, PicoFacts
  <1> QED BY <1>1, <1>2, <1>3, PicoSeeks

LEMMA DigitPut ==
    ASSUME NEW a \in Nat, a < Base * Base, NEW i \in {0, 1}, NEW d \in 0 .. Base - 1
    PROVE  WithDigit(a, i, d) \in Nat
  <1>0. Base \in Nat \ {0} /\ d \in Nat /\ d * 1 = d BY Bases
  <1>1. CASE i = 0 BY <1>0, <1>1, LowDigit, PageOfAny
  <1>2. CASE i = 1
    <2>1. WithDigit(a, 1, d) = (a % Base) + Base * d BY <1>0, HighDigit
    <2>2. a % Base \in Nat /\ Base * d \in Nat BY <1>0, Times
    <2> QED BY <1>2, <2>1, <2>2
  <1> QED BY <1>1, <1>2

LEMMA PicoAddrStep ==
    ASSUME Inv, NEW i \in {0, 1}, NEW d \in 0 .. Base - 1, PicoAddr(i, d)
    PROVE  Inv' /\ Abides
  <1> DEFINE p == WithDigit(src.pos, i, d)
             a == WithDigit(Asked, i, d)
  <1>1. /\ Is("pico") /\ Held /\ mode' = mode /\ told' = told /\ synced' = synced /\ wrong' = wrong
        /\ a < src.size /\ src' \in SourceSeek(src, p)
        /\ guest' = AtAddress(a) /\ reg' = [reg EXCEPT !.idx = 0]
    BY DEF PicoAddr, Held, Is, Free, Idle, Unwritten
  <1>3. p \in Nat /\ a \in Nat
    <2>1. /\ src.pos \in Nat /\ Asked \in Nat /\ src.size \in Nat /\ src.size <= Base * Base
          /\ src.pos < src.size /\ Asked < src.size
      BY <1>1, PicoFacts
    <2>2. Base * Base \in Nat BY Bases
    <2>3. src.pos < Base * Base /\ Asked < Base * Base BY <2>1, <2>2
    <2> QED BY <2>1, <2>3, DigitPut
  <1>4. Fine(src) => a = p BY <1>1, PicoFacts
  <1> HIDE DEF p, a
  <1>5. Handed(a, 0) BY <1>1, <1>3, HandedOver
  <1> QED BY <1>1, <1>3, <1>4, <1>5, PicoSeeks

LEMMA PicoAddrsStep ==
    ASSUME Inv, NEW a \in 0 .. src.size - 1, PicoAddrs(a)
    PROVE  Inv' /\ Abides
  <1> DEFINE n == (guest.digits + 1) % 2
             d == Digit(a, guest.digits)
             p == WithDigit(src.pos, guest.digits, d)
  <1>0. /\ src.size \in Nat \ {0} /\ src.size % Base = 0 /\ src.size <= Base * Base
        /\ src.pos \in Nat /\ src.pos < src.size /\ guest.digits \in {0, 1}
        /\ reg.idx = guest.digits /\ reg \in [ctr : Nat, idx : {0, 1}, first : BOOLEAN]
        /\ guest.digits = 1 => guest.at % Base = src.pos % Base \/ ~Fine(src)
        /\ Base \in Nat \ {0} /\ Base * Base \in Nat
    BY PicoFacts, Bases DEF PicoAddrs
  <1>1. /\ Is("pico") /\ Held /\ mode' = mode /\ told' = told /\ synced' = synced /\ wrong' = wrong
        /\ a = guest.at \/ guest.digits = 0
        /\ src' \in SourceSeek(src, p)
        /\ Handed(a, n) /\ reg' = [reg EXCEPT !.idx = n]
    <2>1. n \in {0, 1} /\ a \in Nat BY <1>0
    <2>2. guest' = [AtAddress(a) EXCEPT !.digits = n] BY DEF PicoAddrs
    <2> HIDE DEF n
    <2>3. Handed(a, n) BY <2>1, <2>2, HandedOver
    <2> QED BY <1>0, <2>3 DEF PicoAddrs, Held, Is, Free, Idle, Unwritten, n
  <1>2. a \in Nat /\ a < src.size /\ a < Base * Base /\ src.pos < Base * Base BY <1>0
  <1>3. CASE guest.digits = 0
    <2>1. n = 1 BY <1>3
    <2>2. d = a % Base /\ d \in 0 .. Base - 1 BY <1>0, <1>2, <1>3, LowDigit
    <2>3. p = PageOf(src.pos) + d * 1 BY <1>0, <1>3, LowDigit
    <2> HIDE DEF n, d, p
    <2>4. p = PageOf(src.pos) + d BY <2>2, <2>3
    <2>6. src.size \in Nat /\ src.size % Base = 0 /\ src.pos \in Nat /\ src.pos < src.size BY <1>0
    <2>5. p \in Nat /\ p < src.size /\ p % Base = d BY <2>2, <2>4, <2>6, PageIs
    <2>7. a % Base = p % Base BY <2>2, <2>5
    <2>8. Fine(src) => p < src.size /\ (IF n = 0 THEN a = p ELSE a % Base = p % Base)
      BY <2>1, <2>5, <2>7
    <2>9. n \in {0, 1} /\ a \in Nat /\ a < src.size BY <1>2, <2>1
    <2> QED BY <1>1, <2>5, <2>8, <2>9, PicoSeeks
  <1>4. CASE guest.digits = 1
    <2>1. n = 0 BY <1>4
    <2>9. Digit(a, 1) = a \div Base /\ a \div Base \in 0 .. Base - 1 BY <1>2, HighDigit
    <2>2. d = a \div Base /\ d \in 0 .. Base - 1 BY <1>4, <2>9
    <2>3. d \in Nat BY <2>2
    <2> HIDE DEF d
    <2>4. p = (src.pos % Base) + Base * d BY <1>0, <1>2, <1>4, <2>3, HighDigit
    <2> HIDE DEF n, p
    <2>5. a = Base * d + (a % Base) BY <1>0, <1>2, <2>2, Divided
    <2>6. Base * d \in Nat /\ src.pos % Base \in Nat BY <1>0, <2>3, Times
    <2>7. p \in Nat BY <2>4, <2>6
    <2>8. Fine(src) => p = a BY <1>0, <1>1, <1>4, <2>4, <2>5, <2>6
    <2> QED BY <1>1, <1>2, <2>1, <2>7, <2>8, PicoSeeks
  <1> QED BY <1>0, <1>3, <1>4

LEMMA PicoAddriStep ==
    ASSUME Inv, NEW d \in 0 .. Base - 1, PicoAddri(d)
    PROVE  Inv' /\ Abides
  <1> DEFINE sum == src.pos + d
             p == IF sum >= src.size THEN sum - src.size ELSE sum
             x == guest.at + d
             m == src.size
             a == x % m
  <1>0. Is("pico") BY DEF PicoAddri
  <1>1. /\ Held /\ mode' = mode /\ told' = told /\ synced' = synced /\ wrong' = wrong
        /\ guest.digits = 0 /\ src' \in SourceSeek(src, p) /\ guest' = AtAddress(a) /\ reg' = reg
    BY DEF PicoAddri, Held, Is, Free, Idle, Unwritten
  <1>2. /\ src.pos \in Nat /\ guest.at \in Nat /\ m \in Nat \ {0} /\ guest.at < m /\ src.pos < m
        /\ Fine(src) => guest.at = src.pos
    BY <1>0, <1>1, PicoFacts
  <1>3. d \in Nat /\ d < m
    <2>1. Base <= m
      <3>1. 0 \in 0 .. Base - 1 /\ src.size % Base = 0 BY <1>0, Bases, PicoFacts
      <3> QED BY <1>2, <3>1, PageIs
    <2> QED BY <1>2, <2>1, Bases
  <1>4. reg' = [reg EXCEPT !.idx = 0] BY <1>0, <1>1, PicoFacts
  <1>5. x \in Nat /\ x < 2 * m /\ p \in Nat /\ p < m BY <1>2, <1>3
  <1>6. Fine(src) => p = IF x < m THEN x ELSE x - m BY <1>2, <1>3
  <1>7. m = src.size OBVIOUS
  <1> HIDE DEF p, x, m
  <1>8. a = (IF x < m THEN x ELSE x - m) BY <1>2, <1>5, Round
  <1>9. a \in Nat /\ a < m BY <1>2, <1>5 DEF a
  <1> HIDE DEF a
  <1>10. Handed(a, 0) BY <1>1, <1>9, HandedOver
  <1> QED BY <1>0, <1>1, <1>4, <1>5, <1>6, <1>7, <1>8, <1>9, <1>10, PicoSeeks

\* After an access of a byte of a ring.
LEMMA Rung ==
    ASSUME NEW u, mode.inc, mode.wrap, NEW a
    PROVE  a = u.pos => Past(u, 1) = (a + 1) % u.size
  BY DEF Past

LEMMA PicoPeekStep == ASSUME Inv, NEW i \in {0, 1}, PicoPeek(i) PROVE Inv' /\ Abides
  <1>1. /\ Is("pico") /\ Held /\ mode' = mode /\ told' = told /\ synced' = synced /\ src' = src
        /\ reg' = [reg EXCEPT !.idx = 0] /\ guest' = AtAddress(Asked)
        /\ wrong' = (wrong \/ (~Lost /\ Digit(src.pos, i) # Digit(Asked, i)))
    BY DEF PicoPeek, Held, Is, Free, Idle, Unwritten
  <1>2. /\ House /\ Asked \in Nat /\ Asked < src.size /\ (Fine(src) => Asked = src.pos)
    BY <1>1, PicoFacts
  <1>3. Handed(Asked, 0) BY <1>1, <1>2, HandedOver
  <1>4. House' BY <1>1, <1>2, Resting
  <1>5. Guided' BY <1>1, <1>2, <1>3, PicoFacts, PicoGuided
  <1>7. Heard'
    <2>1. Lost <=> ~Fine(src) BY DEF Lost, Fine, LostIn
    <2>2. Lost \/ Digit(src.pos, i) = Digit(Asked, i) BY <1>2, <2>1
    <2>3. ~wrong => ~wrong' BY <1>1, <2>2
    <2> QED BY <2>3 DEF Inv, Heard
  <1> QED BY <1>1, <1>4, <1>5, <1>7 DEF Inv, Abides

LEMMA PicoReadStep == ASSUME Inv, PicoRead PROVE Inv' /\ Abides
  <1> DEFINE a == (Asked + 1) % src.size
  <1>1. /\ Is("pico") /\ Held /\ mode' = mode /\ told' = told /\ synced' = synced
        /\ src' \in SourceGet(src) /\ reg' = [reg EXCEPT !.idx = 0] /\ guest' = AtAddress(a)
        /\ wrong' = (wrong \/ (~LostIn(src') /\ src'.ok /\ src'.out # <<told[Asked]>>))
    BY DEF PicoRead, Held, Is, Free, Idle, Unwritten
  <1>2. /\ Sane /\ House /\ Good(src) /\ Plain(src) /\ mode.wrap /\ mode.inc /\ Near(src, src)
        /\ src.size \in Nat \ {0} /\ src.pos < src.size
        /\ Asked \in Nat /\ Asked < src.size /\ (Fine(src) => Asked = src.pos)
    BY <1>1, PicoFacts, NearItself
  <1>3. a \in Nat /\ a < src.size BY <1>2
  <1>4. /\ House' /\ Allowed(src, src') /\ src'.size = src.size
        /\ Fine(src') => Fine(src)
        /\ src'.ok => src'.pos = Past(src, 1) /\ src'.out = <<View(src')[src.pos]>>
        /\ ~src'.ok => src'.dead \/ src'.short \/ AtEnd(src)
    BY <1>1, <1>2, DeviceReads
  <1>5. Fine(src') => a = src'.pos
    BY <1>2, <1>4 DEF Fine, LostIn, AtEnd, Past
  <1> HIDE DEF a
  <1>6. Handed(a, 0) BY <1>1, <1>3, HandedOver
  <1>7. Guided' BY <1>1, <1>3, <1>4, <1>5, <1>6, PicoFacts, PicoGuided
  <1>8. Heard'
    <2> SUFFICES ASSUME ~Overrun, Fine(src'), src'.ok PROVE src'.out = <<told[Asked]>>
      BY <1>1 DEF Heard, Inv, Fine
    <2>1. Asked = src.pos BY <1>2, <1>4
    <2>2. View(src')[Asked] = told[Asked] BY <1>1, <1>2, <1>4, ToldRight
    <2> QED BY <1>4, <2>1, <2>2
  <1> QED BY <1>4, <1>7, <1>8 DEF Inv, Abides

LEMMA PicoWriteStep == ASSUME Inv, NEW b \in Byte, PicoWrite(b) PROVE Inv' /\ Abides
  <1> DEFINE a == (Asked + 1) % src.size
  <1>1. /\ Is("pico") /\ Held /\ mode' = mode /\ wrong' = wrong /\ call' = call /\ call.op = "none"
        /\ reg' = [reg EXCEPT !.idx = 0] /\ guest' = AtAddress(a)
    BY DEF PicoWrite, Held, Is, Free, Idle
  <1>2. /\ Sane /\ House /\ Good(src) /\ Plain(src) /\ mode.wrap /\ mode.inc /\ Near(src, src) /\ mode \in Modes
        /\ src.size \in Nat \ {0} /\ src.pos \in Nat /\ src.pos < src.size /\ synced \in BOOLEAN
        /\ Asked \in Nat /\ Asked < src.size /\ (Fine(src) => Asked = src.pos)
    BY <1>1, PicoFacts, NearItself
  <1>3. a \in Nat /\ a < src.size BY <1>2
  <1>4. /\ House' /\ Allowed(src, src') /\ src'.size = src.size
        /\ Fine(src') => a = src'.pos
    <2>1. CASE mode.readOnly
      <3>1. src' \in SourceNext(src) /\ told' = told /\ synced' = synced
        BY <2>1 DEF PicoWrite, Unwritten
      <3>2. /\ Good(src') /\ Plain(src') /\ Follows(src, src') /\ src'.out = <<>>
            /\ src'.pos = src.pos \/ src'.pos = (src.pos + 1) % src.size
            /\ src'.ok => src'.pos = (src.pos + 1) % src.size
            /\ ~src'.ok => src'.dead \/ src'.short \/ ~mode.wrap
        BY <1>2, <3>1, SourceNextKeeps
      <3>3. Near(src, src')
        <4>1. (src.pos + 1) % src.size < src.size BY <1>2
        <4> QED BY <3>2, <4>1 DEF Near
      <3>4. House' /\ Allowed(src, src') BY <1>1, <1>2, <3>1, <3>2, <3>3, QuietStep
      <3>5. Fine(src') => a = src'.pos BY <1>2, <3>2 DEF Follows, Fine, LostIn
      <3> QED BY <3>2, <3>4, <3>5 DEF Follows
    <2>2. CASE ~mode.readOnly
      <3>1. /\ src' \in SourcePut(src, b) /\ synced' = (synced /\ ~src'.ok)
            /\ told' = IF src'.ok THEN [told EXCEPT ![Asked] = b] ELSE told
        BY <2>2 DEF PicoWrite
      <3>2. Overrun \/ ~Fine(src') \/ Asked = src.pos
        <4>1. src'.ok \in BOOLEAN /\ (Fine(src') => Fine(src))
          <5>1. mode.wrap \/ src.pos + 1 <= src.size BY <1>2
          <5>2. /\ Good(src')
                /\ src'.ok => Accepts(src, src', <<b>>)
                /\ ~src'.ok => Follows(src, src')
            BY <1>2, <3>1, SourcePutKeeps
          <5> QED BY <5>2 DEF Good, Source, Accepts, Follows
        <4> QED BY <1>2, <4>1
      <3>3. /\ House' /\ Allowed(src, src') /\ src'.size = src.size
            /\ Fine(src') => Fine(src)
            /\ src'.ok => src'.pos = Past(src, 1)
            /\ ~src'.ok => src'.dead \/ src'.short \/ AtEnd(src)
        BY <1>1, <1>2, <3>1, <3>2, DeviceWrites
      <3> QED BY <1>2, <3>3 DEF Fine, LostIn, AtEnd, Past
    <2> QED BY <2>1, <2>2
  <1> HIDE DEF a
  <1>6. Handed(a, 0) BY <1>1, <1>3, HandedOver
  <1>7. Guided' BY <1>1, <1>3, <1>4, <1>6, PicoFacts, PicoGuided
  <1>8. Heard' BY <1>1 DEF Heard, Inv
  <1> QED BY <1>4, <1>7, <1>8 DEF Inv, Abides

-----------------------------------------------------------------------------
(* The boot card.                                                           *)

LEMMA BootFacts ==
    ASSUME Inv, Is("sram")
    PROVE  /\ Sane /\ House /\ call.op = "none" /\ mode.dev = "sram" /\ mode \in Modes /\ Good(src) /\ Plain(src)
           /\ src.size \in Nat \ {0} /\ src.pos \in Nat /\ src.pos < src.size /\ mode.inc /\ mode.wrap
           /\ guest \in [at : Nat, past : BOOLEAN, digits : {0, 1}] /\ guest.at < src.size
           /\ reg \in [ctr : Nat, idx : {0, 1}, first : BOOLEAN]
           /\ Fine(src) => guest.at = src.pos
           /\ synced \in BOOLEAN /\ Near(src, src) /\ guest.at \in Nat
  <1>1. Sane /\ House /\ call.op = "none" /\ mode.dev = "sram" /\ mode \in Modes /\ Good(src) /\ Plain(src)
        /\ synced \in BOOLEAN
    BY DEF Inv, House, Sane, Is, Free, Idle
  <1>2. /\ src.size \in Nat \ {0} /\ src.pos \in Nat /\ src.pos < src.size /\ mode.inc /\ mode.wrap
    BY <1>1, DeviceFacts
  <1>3. /\ guest \in [at : Nat, past : BOOLEAN, digits : {0, 1}] /\ guest.at < src.size
        /\ reg \in [ctr : Nat, idx : {0, 1}, first : BOOLEAN]
        /\ Fine(src) => guest.at = src.pos
    BY <1>1 DEF Inv, Guided
  <1> QED BY <1>1, <1>2, <1>3, NearItself

LEMMA BootGuided ==
    ASSUME mode.dev = "sram", mode' = mode, NEW a \in Nat, a < src'.size,
           reg' \in [ctr : Nat, idx : {0, 1}, first : BOOLEAN],
           Handed(a, 0), Fine(src') => a = src'.pos
    PROVE  Guided'
  <1>1. guest' \in [at : Nat, past : BOOLEAN, digits : {0, 1}] /\ guest'.at = a
    BY DEF Handed
  <1>2. Fine(src)' <=> Fine(src') BY Bridge
  <1> QED BY <1>1, <1>2 DEF Guided

LEMMA BootSeeks ==
    ASSUME Inv, Is("sram"), Held, mode' = mode, told' = told, synced' = synced, wrong' = wrong,
           src' \in SourceSeek(src, 0), guest' = Afresh,
           reg' \in [ctr : Nat, idx : {0, 1}, first : BOOLEAN]
    PROVE  Inv' /\ Abides
  <1>0. 0 \in Nat /\ 0 < src.size BY BootFacts
  <1>1. /\ Good(src') /\ Plain(src') /\ Near(src, src') /\ src'.out = <<>> /\ src'.size = src.size
        /\ src'.pos = 0
    BY <1>0, BootFacts, SeekFirst
  <1>2. House' /\ Allowed(src, src') BY <1>1, BootFacts, QuietStep DEF Held
  <1>3. Handed(0, 0) BY HandedOver
  <1>4. Guided' BY <1>0, <1>1, <1>3, BootFacts, BootGuided
  <1> QED BY <1>2, <1>4 DEF Inv, Heard, Abides

LEMMA BootResetStep == ASSUME Inv, BootReset PROVE Inv' /\ Abides
  <1>1. /\ Is("sram") /\ Held /\ mode' = mode /\ told' = told /\ synced' = synced /\ wrong' = wrong
        /\ src' \in SourceSeek(src, 0) /\ guest' = Afresh /\ reg' = reg
    BY DEF BootReset, Held, Is, Free, Idle, Unwritten
  <1> QED BY <1>1, BootFacts, BootSeeks

LEMMA BootRestartStep == ASSUME Inv, BootRestart PROVE Inv' /\ Abides
  <1>1. /\ Is("sram") /\ Held /\ mode' = mode /\ told' = told /\ synced' = synced /\ wrong' = wrong
        /\ src' \in SourceSeek(src, 0) /\ guest' = Afresh /\ reg' = [reg EXCEPT !.first = FALSE]
    BY DEF BootRestart, Held, Is, Free, Idle, Unwritten
  <1>2. reg' \in [ctr : Nat, idx : {0, 1}, first : BOOLEAN] BY <1>1, BootFacts
  <1> QED BY <1>1, <1>2, BootSeeks

\* The card goes on to its next place.
LEMMA Onward ==
    ASSUME Inv, Is("sram"), mode' = mode, House', Allowed(src, src'), src'.size = src.size,
           Fine(src') => Fine(src) /\ src'.pos = (src.pos + 1) % src.size,
           Forward, reg' \in [ctr : Nat, idx : {0, 1}, first : BOOLEAN], Heard'
    PROVE  Inv' /\ Abides
  <1> DEFINE a == (guest.at + 1) % src.size
  <1>1. guest' = AtAddress(a) BY DEF Forward
  <1>2. a \in Nat /\ a < src.size BY BootFacts
  <1>3. Fine(src') => a = src'.pos BY BootFacts
  <1> HIDE DEF a
  <1>4. Handed(a, 0) BY <1>1, <1>2, HandedOver
  <1>5. Guided' BY <1>2, <1>3, <1>4, BootFacts, BootGuided
  <1> QED BY <1>5 DEF Inv, Abides

LEMMA BootSkips ==
    ASSUME Inv, Is("sram"), Held, mode' = mode, told' = told, synced' = synced, src' \in SourceNext(src)
    PROVE  /\ House' /\ Allowed(src, src') /\ src'.size = src.size
           /\ Fine(src') => Fine(src) /\ src'.pos = (src.pos + 1) % src.size
  <1>1. /\ Good(src') /\ Plain(src') /\ Follows(src, src') /\ src'.out = <<>>
        /\ src'.pos = src.pos \/ src'.pos = (src.pos + 1) % src.size
        /\ src'.ok => src'.pos = (src.pos + 1) % src.size
        /\ ~src'.ok => src'.dead \/ src'.short \/ ~mode.wrap
    BY BootFacts, SourceNextKeeps
  <1>2. Near(src, src')
    <2>1. (src.pos + 1) % src.size < src.size BY BootFacts
    <2> QED BY <1>1, <2>1 DEF Near
  <1>3. House' /\ Allowed(src, src') BY <1>1, <1>2, BootFacts, QuietStep DEF Held
  <1> QED BY <1>1, <1>3, BootFacts DEF Follows, Fine, LostIn

LEMMA BootWriteStep == ASSUME Inv, NEW b \in Byte, BootWrite(b) PROVE Inv' /\ Abides
  <1>1. /\ Is("sram") /\ Held /\ mode' = mode /\ wrong' = wrong /\ call' = call /\ call.op = "none"
    BY DEF BootWrite, Held, Is, Free, Idle
  <1>2. Heard' BY <1>1 DEF Heard, Inv
  <1>3. CASE mode.readOnly
    <2>1. /\ src' \in SourceNext(src) /\ told' = told /\ synced' = synced /\ Forward
          /\ reg' = [reg EXCEPT !.first = (reg.first \/ (mode.allowBoot /\ src.pos = 0))]
      BY <1>3 DEF BootWrite, Unwritten
    <2>2. reg' \in [ctr : Nat, idx : {0, 1}, first : BOOLEAN]
      <3>1. reg \in [ctr : Nat, idx : {0, 1}, first : BOOLEAN] BY <1>1, BootFacts
      <3> DEFINE x == reg.first \/ (mode.allowBoot /\ src.pos = 0)
      <3>2. x \in BOOLEAN OBVIOUS
      <3> HIDE DEF x
      <3>3. reg' = [reg EXCEPT !.first = x] BY <2>1 DEF x
      <3> QED BY <3>1, <3>2, <3>3
    <2> QED BY <1>1, <1>2, <2>1, <2>2, BootSkips, Onward
  <1>4. CASE ~mode.readOnly /\ src.pos = 0 /\ ~mode.allowBoot /\ b = Probe
    <2>1. src' = src /\ reg' = reg /\ guest' = guest /\ told' = told /\ synced' = synced
      BY <1>4 DEF BootWrite, Unwritten
    <2>2. House' BY <1>1, <2>1, BootFacts, Resting
    <2>3. Fine(src)' <=> Fine(src) BY <1>1, <2>1, Bridge
    <2>4. Guided' BY <1>1, <2>1, <2>3 DEF Guided, Inv
    <2> QED BY <1>2, <2>1, <2>2, <2>4 DEF Inv, Abides
  <1>5. CASE ~mode.readOnly /\ ~(src.pos = 0 /\ ~mode.allowBoot /\ b = Probe)
    <2>1. /\ src' \in SourcePut(src, b) /\ Forward /\ reg' = reg
          /\ told' = IF src'.ok THEN [told EXCEPT ![guest.at] = b] ELSE told
          /\ synced' = (synced /\ ~src'.ok)
      BY <1>5 DEF BootWrite, Written
    <2>2. Overrun \/ ~Fine(src') \/ guest.at = src.pos
      <3>1. /\ Good(src')
            /\ src'.ok => Accepts(src, src', <<b>>)
            /\ ~src'.ok => Follows(src, src')
        BY <1>1, <2>1, BootFacts, SourcePutKeeps
      <3>2. Fine(src') => Fine(src) BY <3>1 DEF Good, Source, Accepts, Follows
      <3> QED BY <1>1, <3>2, BootFacts
    <2>3. /\ House' /\ Allowed(src, src') /\ src'.size = src.size
          /\ Fine(src') => Fine(src)
          /\ src'.ok => src'.pos = Past(src, 1)
          /\ ~src'.ok => src'.dead \/ src'.short \/ AtEnd(src)
      BY <1>1, <2>1, <2>2, BootFacts, DeviceWrites
    <2>4. Fine(src') => Fine(src) /\ src'.pos = (src.pos + 1) % src.size
      BY <1>1, <2>3, BootFacts DEF Fine, LostIn, AtEnd, Past
    <2> QED BY <1>1, <1>2, <2>1, <2>3, <2>4, BootFacts, Onward
  <1> QED BY <1>3, <1>4, <1>5

LEMMA BootReadStep == ASSUME Inv, BootRead PROVE Inv' /\ Abides
  <1>1. /\ Is("sram") /\ Held /\ mode' = mode /\ told' = told /\ synced' = synced /\ reg' = reg /\ Forward
    BY DEF BootRead, Held, Is, Free, Idle, Unwritten
  <1>2. CASE reg.first /\ src.pos = 0
    <2>1. src' \in SourceNext(src) /\ wrong' = wrong BY <1>2 DEF BootRead
    <2>2. Heard' BY <2>1 DEF Heard, Inv
    <2> QED BY <1>1, <2>1, <2>2, BootFacts, BootSkips, Onward
  <1>3. CASE ~(reg.first /\ src.pos = 0)
    <2>1. src' \in SourceGet(src) /\ Judge BY <1>3 DEF BootRead
    <2>2. /\ House' /\ Allowed(src, src') /\ src'.size = src.size
          /\ Fine(src') => Fine(src)
          /\ src'.ok => src'.pos = Past(src, 1) /\ src'.out = <<View(src')[src.pos]>>
          /\ ~src'.ok => src'.dead \/ src'.short \/ AtEnd(src)
      BY <1>1, <2>1, BootFacts, DeviceReads
    <2>3. Fine(src') => Fine(src) /\ src'.pos = (src.pos + 1) % src.size
      BY <1>1, <2>2, BootFacts DEF Fine, LostIn, AtEnd, Past
    <2>4. Heard'
      <3> SUFFICES ASSUME ~Overrun, Fine(src'), src'.ok PROVE src'.out = <<told[guest.at]>>
        BY <2>1 DEF Heard, Judge, Inv, Fine
      <3>1. guest.at = src.pos BY <1>1, <2>2, BootFacts
      <3>2. View(src')[guest.at] = told[guest.at] BY <1>1, <2>2, BootFacts, ToldRight
      <3> QED BY <2>2, <3>1, <3>2
    <2> QED BY <1>1, <2>2, <2>3, <2>4, BootFacts, Onward
  <1> QED BY <1>2, <1>3

-----------------------------------------------------------------------------
(* The invariant is one.                                                    *)

LEMMA InvStarts == DInit => Inv
  <1> SUFFICES ASSUME DInit PROVE Inv
    OBVIOUS
  <1>1. /\ mode \in Modes /\ call = Idle /\ synced = TRUE /\ reg = Registers /\ guest = Afresh /\ wrong = FALSE
        /\ \E f \in [Positions -> Byte] :
              /\ \E h \in IF mode.tight THEN 0 .. mode.size ELSE {mode.size} : src = Opened(f, mode.size, h)
              /\ told = f
    BY DEF DInit, Init
  <1>3. mode.size \in 1 .. MaxSize /\ MaxSize \in Nat \ {0} BY <1>1, Modal
  <1>2. PICK f \in [Positions -> Byte], h \in Nat :
             src = Opened(f, mode.size, h) /\ told = f /\ (~mode.tight => h = mode.size)
    <2>1. PICK f \in [Positions -> Byte] :
              /\ \E h \in IF mode.tight THEN 0 .. mode.size ELSE {mode.size} : src = Opened(f, mode.size, h)
              /\ told = f
      BY <1>1
    <2>2. PICK h \in IF mode.tight THEN 0 .. mode.size ELSE {mode.size} : src = Opened(f, mode.size, h)
      BY <2>1
    <2>3. h \in Nat /\ (~mode.tight => h = mode.size) BY <1>3, <2>2
    <2> QED BY <2>1, <2>2, <2>3
  <1>4. <<>> \in Seq(Byte) /\ Len(<<>>) = 0 BY EmptySeq
  <1>5. /\ src \in Source /\ src.file = f /\ src.size = mode.size /\ src.start = 0 /\ src.bytes = <<>>
        /\ ~src.dirty /\ src.pos = 0 /\ ~src.dead /\ src.out = <<>> /\ src.have = h /\ ~src.short
    BY <1>2, <1>3, <1>4 DEF Opened, Source
  <1>6. Window(src) BY <1>1, <1>3, <1>4, <1>5, Modal DEF Window
  <1>7. View(src) = f BY <1>5, EmptyView
  <1>13. Roomy(src) BY <1>2, <1>5 DEF Roomy
  <1>8. Good(src) /\ Plain(src) BY <1>5, <1>6, <1>7, <1>13 DEF Good, Clean, Plain
  <1>9. call \in [op : {"none", "get", "set", "closed"}, left : Nat, data : Seq(Byte)] /\ call.op = "none"
    BY <1>1, <1>4 DEF Idle
  <1>10. Sane BY <1>1, <1>2, <1>5, <1>8, <1>9 DEF Sane
  <1>11. Truth BY <1>2, <1>5, <1>7, <1>9 DEF Truth, Same
  <1>12. Guided BY <1>1, <1>3, <1>5 DEF Guided, Registers, Afresh
  <1> QED BY <1>1, <1>10, <1>11, <1>12 DEF Inv, House, Heard

\* A call on an image leaves the guest of a device alone.
LEMMA ImageStep == ASSUME Inv, mode.dev = "image", AnyCall, UNCHANGED <<reg, guest, wrong>> PROVE Inv' /\ Abides
  <1>0. House /\ Sane /\ ~mode.ram /\ src.size \in Nat BY ImageCalls DEF Inv, House, Sane, Good, Source
  <1>1. House' /\ mode' = mode /\ Abides
    <2>1. ASSUME NEW p \in 0 .. src.size, Seek(p) PROVE House' /\ mode' = mode /\ Abides
      <3>1. p \in Nat BY <1>0
      <3> QED BY <1>0, <2>1, <3>1, SeekStep DEF Abides, Seek
    <2>2. CASE GetByte BY <1>0, <2>2, GetByteStep DEF Abides, GetByte
    <2>3. ASSUME NEW b \in Byte, SetByte(b) PROVE House' /\ mode' = mode /\ Abides
      BY <1>0, <2>3, SetByteStep DEF Abides, SetByte
    <2>4. ASSUME NEW n \in 1 .. MaxCall, Get(n) PROVE House' /\ mode' = mode /\ Abides
      BY <1>0, <2>4, GetStep DEF Abides, Get
    <2>5. CASE GetChunk BY <1>0, <2>5, GetChunkStep DEF Abides, GetChunk
    <2>6. ASSUME NEW data \in Calls, Set(data) PROVE House' /\ mode' = mode /\ Abides
      BY <1>0, <2>6, SetStep DEF Abides, Set
    <2>7. CASE SetChunk BY <1>0, <2>7, SetChunkStep DEF Abides, SetChunk
    <2>8. CASE NextByte BY <1>0, <2>8, NextByteStep DEF Abides, NextByte
    <2>9. CASE FlushAll BY <1>0, <2>9, FlushAllStep DEF Abides, FlushAll
    <2>10. CASE Invalidate BY <1>0, <2>10, InvalidateStep DEF Abides, Invalidate
    <2>11. ASSUME NEW n \in 1 .. mode.size, Resize(n) PROVE House' /\ mode' = mode /\ Abides
      BY <1>0, <2>11, ResizeStep DEF Abides, Resize
    <2>12. CASE Close BY <1>0, <2>12, CloseStep DEF Abides, Close
    <2>13. CASE Open BY <1>0, <2>13, OpenStep DEF Abides, Open
    <2> QED BY <2>1, <2>2, <2>3, <2>4, <2>5, <2>6, <2>7, <2>8, <2>9, <2>10, <2>11, <2>12, <2>13 DEF AnyCall
  <1>2. Guided' BY <1>1 DEF Inv, Guided
  <1> QED BY <1>1, <1>2 DEF Inv, Heard

LEMMA CommonStep == ASSUME Inv, Common PROVE Inv' /\ Abides
  <1>0. House /\ Sane BY DEF Inv, House
  <1>1. CASE mode.dev = "image" /\ AnyCall /\ UNCHANGED <<reg, guest, wrong>> BY <1>1, ImageStep
  <1>2. CASE mode.dev # "image" /\ ~mode.ram /\ (FlushAll \/ Close) /\ UNCHANGED <<reg, guest, wrong>>
    <2>1. /\ House' /\ mode' = mode /\ Abides /\ src'.pos = src.pos
          /\ Fine(src') => Fine(src)
      BY <1>0, <1>2, FlushAllStep, CloseStep DEF Abides, FlushAll, Close
    <2>2. src'.size = src.size BY <1>0, <1>2, <2>1 DEF House, Sane
    <2>3. Fine(src)' <=> Fine(src') BY <2>1, Bridge
    <2>4. Guided' BY <1>2, <2>1, <2>2, <2>3 DEF Inv, Guided
    <2> QED BY <1>2, <2>1, <2>4 DEF Inv, Heard
  <1>3. CASE mode.dev # "image" /\ Open /\ reg' = Registers /\ guest' = Afresh /\ UNCHANGED wrong
    <2>1. House' /\ mode' = mode /\ src'.pos = 0 /\ Abides
      BY <1>0, <1>3, OpenStep DEF Abides, Open
    <2>2. src.size \in Nat \ {0} /\ src'.size = src.size
      BY <1>0, <1>3, <2>1, DeviceFacts DEF House, Sane
    <2>3. Guided' BY <1>3, <2>1, <2>2 DEF Guided, Registers, Afresh
    <2> QED BY <1>3, <2>1, <2>3 DEF Inv, Heard
  <1> QED BY <1>1, <1>2, <1>3 DEF Common

LEMMA GuestStep == ASSUME Inv, Guest PROVE Inv' /\ Abides
  <1>0. src.size \in Nat BY DEF Inv, House, Sane, Good, Source
  <1> QED BY DiskReadStep, DiskWriteStep, DiskPageStep, DiskAddressStep, DiskResetStep,
             PicoControlStep, PicoReadStep, PicoWriteStep, PicoAddrStep, PicoAddrsStep, PicoAddriStep,
             PicoPeekStep,
             BootResetStep, BootRestartStep, BootWriteStep, BootReadStep
          DEF Guest

LEMMA InvKept == ASSUME Inv, [DNext]_dvars PROVE Inv' /\ (Abides \/ UNCHANGED dvars)
  <1>1. CASE DNext BY <1>1, GuestStep, CommonStep DEF DNext
  <1>2. CASE UNCHANGED dvars
    <2>1. /\ Good(src)' /\ Plain(src)' /\ (Fine(src)' <=> Fine(src)) /\ View(src)' = View(src)
      BY <1>2, Bridge DEF dvars, Inv, House, Sane
    <2>2. House'
      BY <1>2, <2>1 DEF Inv, House, Sane, Truth, Same, Positions, dvars
    <2>3. Guided' BY <1>2, <2>1 DEF Inv, Guided, dvars
    <2> QED BY <1>2, <2>2, <2>3 DEF Inv, Heard, dvars
  <1> QED BY <1>1, <1>2

\* However the sources are opened and whatever fails below them, the window,
\* the histories and the devices' addresses keep in step (cached_source.cpp,
\* ramdisk.cpp, pico_rd.cpp, sramdisk.cpp).
THEOREM SourcesKeep == DSpec => []Inv
  <1>1. Inv /\ [DNext]_dvars => Inv' BY InvKept
  <1> QED BY InvStarts, <1>1, PTL DEF DSpec

\* When flush() has reported success, every byte the callers have written is in
\* the file, for every file, window and failure, unless the medium is full and
\* the file has proved too short (cached_source.cpp:33-60, file_source.cpp:177-179).
THEOREM FlushIsTrue ==
    ASSUME ~Overrun
    PROVE  DSpec => []FlushTellsTruth
  <1>1. Inv => FlushTellsTruth
    <2> SUFFICES ASSUME Inv, synced, mode.tight => ~src.short
                 PROVE  \A p \in Positions : p < src.size => src.file[p] = told[p]
      BY DEF FlushTellsTruth
    <2>1. ~src.short BY DEF Inv, House, Sane, Good, Roomy
    <2> QED BY <2>1 DEF Inv, House, Truth, Same
  <1> QED BY SourcesKeep, <1>1, PTL

\* A byte read through the ports is the one last written at the address the
\* guest has put together, or counted to (ramdisk.cpp, pico_rd.cpp,
\* sramdisk.cpp).
THEOREM GuestReadsItsBytes ==
    ASSUME ~Overrun
    PROVE  DSpec => []GuestReadsBack
  <1>1. Inv => GuestReadsBack BY DEF Inv, Heard, GuestReadsBack
  <1> QED BY SourcesKeep, <1>1, PTL

-----------------------------------------------------------------------------
(* Every step is one of the array of bytes.                                 *)

LEMMA Mapped ==
    ASSUME mode' = mode
    PROVE  /\ Seen = View(src) /\ Seen' = View(src')
           /\ (Lost <=> ~Fine(src)) /\ (Lost' <=> ~Fine(src'))
  <1>1. Seen = View(src) BY DEF Seen, View
  <1>2. Seen' = View(src') BY DEF Seen, View, At, Positions
  <1>3. (Lost <=> ~Fine(src)) /\ (Lost' <=> ~Fine(src')) BY DEF Lost, Fine, LostIn
  <1> QED BY <1>1, <1>2, <1>3

LEMMA AllowedIsArrays ==
    ASSUME Sane, mode' = mode, Fine(src), Fine(src'), Allowed(src, src'), Good(src')
    PROVE  Bytes!Sound
  <1>0. /\ src.size \in Nat \ {0} /\ src.size <= MaxSize /\ src.pos \in Nat /\ MaxSize \in Nat \ {0}
        /\ src \in Source /\ src' \in Source
    BY Modal DEF Sane, Good, Source
  <1>1. Seen = View(src) /\ Seen' = View(src') /\ ~Lost /\ ~Lost' BY Mapped
  <1>2. CASE Resized(src, src')
    <2>1. Bytes!Resize BY <1>1, <1>2 DEF Bytes!Resize, Resized, Bytes!Positions, Positions
    <2> QED BY <1>1, <2>1 DEF Bytes!Sound
  <1>3. CASE ~Resized(src, src')
    <2>1. PICK u \in Source :
             /\ Near(src, u)
             /\ \/ src'.out = <<>> /\ Near(u, src')
                \/ \E n \in Nat : src'.ok /\ Gives(u, src', n)
                \/ \E bs \in Seq(Byte) : bs # <<>> /\ Accepts(u, src', bs)
      BY <1>3 DEF Allowed
    <2>2. /\ u.size = src.size /\ (u.pos = src.pos \/ u.pos < src.size) /\ u.pos \in Nat
          /\ Fine(u) => View(u) = View(src)
      BY <2>1 DEF Near, Follows, Source
    <2>3. CASE src'.out = <<>> /\ Near(u, src')
      <3>1. /\ Fine(u) /\ View(src') = View(u) /\ src'.size = u.size
            /\ src'.pos = u.pos \/ src'.pos < u.size
        BY <2>3 DEF Near, Follows
      <3>2. CASE src'.pos = src.pos
        <4>1. Bytes!Quiet BY <1>1, <2>2, <2>3, <3>1, <3>2 DEF Bytes!Quiet
        <4> QED BY <1>1, <4>1 DEF Bytes!Sound
      <3>3. CASE src'.pos # src.pos
        <4>1. src'.pos \in 0 .. src.size - 1 BY <1>0, <2>2, <3>1, <3>3 DEF Source
        <4>2. Bytes!Move BY <1>1, <2>2, <2>3, <3>1, <4>1 DEF Bytes!Move
        <4> QED BY <1>1, <4>2 DEF Bytes!Sound
      <3> QED BY <3>2, <3>3
    <2>4. CASE \E n \in Nat : src'.ok /\ Gives(u, src', n)
      <3>1. PICK k \in Nat : src'.ok /\ Gives(u, src', k) BY <2>4
      <3> DEFINE n == Len(src'.out)
      <3>2. /\ Fine(u) /\ View(src') = View(u) /\ src'.size = u.size
            /\ u.pos < u.size /\ n \in 1 .. k /\ n <= u.size
            /\ mode.wrap \/ u.pos + n <= u.size
            /\ src'.out = [i \in 1 .. n |-> View(src')[(u.pos + i - 1) % u.size]]
            /\ src'.pos = Past(u, n)
        BY <3>1 DEF Gives, Follows
      <3> HIDE DEF n
      <3>3. n \in 1 .. MaxSize /\ u.pos \in Positions BY <1>0, <2>2, <3>2 DEF Positions
      <3>4. Bytes!Read(u.pos, n)
        <4>1. Bytes!InReach(u.pos, n) BY <2>2, <3>2 DEF Bytes!InReach
        <4>2. src'.pos = Bytes!Past(u.pos, n) BY <2>2, <3>2 DEF Past, Bytes!Past
        <4>3. src'.out = [i \in 1 .. n |-> Seen[(u.pos + i - 1) % src.size]] BY <1>1, <2>2, <3>2
        <4> QED BY <1>1, <2>2, <3>2, <4>1, <4>2, <4>3 DEF Bytes!Read
      <3> QED BY <1>1, <3>3, <3>4 DEF Bytes!Sound, Bytes!Positions, Positions
    <2>5. CASE \E bs \in Seq(Byte) : bs # <<>> /\ Accepts(u, src', bs)
      <3>1. PICK bs \in Seq(Byte) : bs # <<>> /\ Accepts(u, src', bs) BY <2>5
      <3> DEFINE n == Len(bs)
      <3>2. /\ src'.size = u.size /\ src'.out = <<>> /\ u.pos < u.size
            /\ n <= u.size /\ (mode.wrap \/ u.pos + n <= u.size)
            /\ src'.pos = Past(u, n)
            /\ Fine(u) /\ Overwritten(View(u), View(src'), u.pos, bs, u.size)
        BY <3>1 DEF Accepts
      <3>3. n \in Nat /\ n # 0 /\ DOMAIN bs = 1 .. n BY <3>1, EmptySeq, LenProperties
      <3>4. bs \in [1 .. n -> Byte]
        <4>1. bs \in [1 .. Len(bs) -> Byte] BY LenProperties
        <4> QED BY <4>1 DEF n
      <3> HIDE DEF n
      <3>5. n \in 1 .. MaxSize /\ u.pos \in Positions BY <1>0, <2>2, <3>2, <3>3 DEF Positions
      <3>6. Bytes!Write(u.pos, bs)
        <4>1. Bytes!InReach(u.pos, Len(bs)) BY <2>2, <3>2 DEF Bytes!InReach, n
        <4>2. src'.pos = Bytes!Past(u.pos, Len(bs)) BY <2>2, <3>2 DEF Past, Bytes!Past, n
        <4>3. Seen' = [p \in Positions |->
                IF \E i \in DOMAIN bs : p = (u.pos + i - 1) % src.size
                THEN bs[CHOOSE i \in DOMAIN bs : p = (u.pos + i - 1) % src.size]
                ELSE Seen[p]]
          <5>1. \A p \in Positions : View(src')[p] =
                   IF \E i \in DOMAIN bs : p = (u.pos + i - 1) % src.size
                   THEN bs[CHOOSE i \in DOMAIN bs : p = (u.pos + i - 1) % src.size]
                   ELSE View(src)[p]
            BY <2>2, <3>2 DEF Overwritten
          <5>2. View(src') = [p \in Positions |-> View(src')[p]] BY DEF View
          <5> QED BY <1>1, <5>1, <5>2
        <4> QED BY <1>1, <2>2, <3>2, <4>1, <4>2, <4>3 DEF Bytes!Write, Bytes!Positions, Positions
      <3> QED BY <1>1, <3>4, <3>5, <3>6 DEF Bytes!Sound, Bytes!Positions, Positions
    <2> QED BY <2>1, <2>3, <2>4, <2>5
  <1> QED BY <1>2, <1>3

LEMMA ArrayStarts == ASSUME DInit PROVE Bytes!Init
  <1>1. Inv /\ mode \in Modes BY InvStarts DEF DInit, Init
  <1>2. /\ src.pos = 0 /\ src.out = <<>> /\ ~src.dead /\ ~src.dirty /\ ~src.short /\ src.size \in 1 .. MaxSize
    <2>1. \E f, h : src = Opened(f, mode.size, h) BY DEF DInit, Init
    <2> QED BY <1>1, <2>1, Modal DEF Opened
  <1>3. Seen \in [Positions -> Byte]
    <2>1. Seen = View(src) BY DEF Seen, View
    <2> QED BY <1>1, <2>1, Seeing DEF Inv, House, Sane, Good
  <1> QED BY <1>1, <1>2, <1>3, Modal DEF Bytes!Init, Bytes!Positions, Positions, Lost, LostIn

LEMMA ModeStays == ASSUME [DNext]_dvars PROVE mode' = mode
  BY DEF DNext, dvars, Guest, Common, AnyCall, DiskRead, DiskWrite, DiskPage, DiskAddress, DiskReset,
         PicoControl, PicoRead, PicoWrite, PicoAddr, PicoAddrs, PicoAddri, PicoPeek, BootReset, BootRestart,
         BootWrite, BootRead, Seek, GetByte, SetByte, Get, GetChunk, Set, SetChunk, NextByte, FlushAll,
         Invalidate, Resize, Close, Open

LEMMA ArrayRests == ASSUME mode' = mode, src' = src PROVE UNCHANGED Bytes!vars
  <1>1. Seen' = Seen BY DEF Seen, At, Positions
  <1>2. Lost' = Lost BY DEF Lost, LostIn
  <1>3. src.size' = src.size /\ src.pos' = src.pos /\ src.out' = src.out OBVIOUS
  <1>4. mode.wrap' = mode.wrap /\ mode.inc' = mode.inc OBVIOUS
  <1> QED BY <1>1, <1>2, <1>3, <1>4 DEF Bytes!vars

LEMMA ArraySteps == ASSUME Inv, Inv', [DNext]_dvars PROVE [Bytes!Next]_(Bytes!vars)
  <1>1. CASE UNCHANGED dvars
    BY <1>1, ArrayRests DEF dvars
  <1>2. CASE ~UNCHANGED dvars
    <2>1. Abides BY <1>2, InvKept
    <2>2. mode' = mode BY <1>2, ModeStays
    <2>3. CASE src' = src
      BY <2>2, <2>3, ArrayRests
    <2>4. CASE ~(src' = src)
      <3>1. CASE Fine(src) /\ Fine(src')
        <4>1. Good(src') BY <2>2, Bridge DEF Inv, House, Sane
        <4>2. Bytes!Sound BY <2>1, <2>2, <2>4, <3>1, <4>1, AllowedIsArrays DEF Abides, Inv, House
        <4> QED BY <2>2, <4>2 DEF Bytes!Next
      <3>2. CASE ~(Fine(src) /\ Fine(src'))
        BY <2>2, <3>2, Mapped DEF Bytes!Next
      <3> QED BY <3>1, <3>2
    <2> QED BY <2>3, <2>4
  <1> QED BY <1>1, <1>2

\* Every call is one the array of bytes allows, whatever the window does
\* meanwhile (cached_source.cpp, ram_source.cpp).
THEOREM SourcesAreArrays == DSpec => ImplementsByteArray
  <1>1. DInit => Bytes!Init BY ArrayStarts
  <1>2. Inv /\ Inv' /\ [DNext]_dvars => [Bytes!Next]_(Bytes!vars) BY ArraySteps
  <1> QED BY SourcesKeep, <1>1, <1>2, PTL DEF DSpec, ImplementsByteArray, Bytes!Spec
=============================================================================
