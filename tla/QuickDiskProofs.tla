-------------------------- MODULE QuickDiskProofs --------------------------
(***************************************************************************)
(* The Quick Disk drive, proved for every set of programs, every size of   *)
(* the medium and of an image, and every directory: HeadInStep and         *)
(* OthersSurvive.                                                          *)
(***************************************************************************)
EXTENDS QuickDisk, SequenceTheorems, FiniteSetTheorems, WellFoundedInduction, TLAPS

-----------------------------------------------------------------------------
(* Induction over the naturals and over sequences.                         *)

\* A set with 0 and the successor of each of its members is all of Nat.
LEMMA NatInd ==
  ASSUME NEW S \in SUBSET Nat, 0 \in S, \A n \in S : n + 1 \in S
  PROVE  S = Nat
  <1>1. SUFFICES ASSUME Nat \ S # {} PROVE FALSE
    OBVIOUS
  <1>2. IsWellFoundedOn(OpToRel(<,Nat), Nat) BY NatLessThanWellFounded
  <1>3. PICK n \in Nat \ S : \A y \in Nat \ S : <<y, n>> \notin OpToRel(<, Nat)
    BY <1>1, <1>2, WFMin
  <1>4. n # 0 BY <1>3
  <1>5. n - 1 \in Nat /\ n - 1 < n BY <1>4
  <1>6. n - 1 \in S
    <2>1. <<n - 1, n>> \in OpToRel(<, Nat) BY <1>5 DEF OpToRel
    <2> QED BY <1>3, <1>5, <2>1
  <1> QED BY <1>6

\* A set with <<>>, and with every extension of its members, has all sequences.
LEMMA SeqInd ==
  ASSUME NEW T, NEW Q \in SUBSET Seq(T), <<>> \in Q,
         \A s \in Q : \A x \in T : Append(s, x) \in Q
  PROVE  Q = Seq(T)
  <1> DEFINE A == {n \in Nat : \A s \in Seq(T) : Len(s) = n => s \in Q}
  <1>1. 0 \in A
    <2>1. \A s \in Seq(T) : Len(s) = 0 => s = <<>> OBVIOUS
    <2> QED BY <2>1
  <1>2. ASSUME NEW n \in A PROVE n + 1 \in A
    <2>1. SUFFICES ASSUME NEW s \in Seq(T), Len(s) = n + 1 PROVE s \in Q OBVIOUS
    <2>2. n \in Nat /\ s # <<>> BY <2>1
    <2>3. PICK r \in Seq(T), x \in T : s = Append(r, x) BY <2>2, SequenceEmptyOrAppend
    <2>4. Len(r) = n BY <2>1, <2>2, <2>3
    <2>5. r \in Q BY <2>3, <2>4
    <2> QED BY <2>3, <2>5
  <1>3. A = Nat
    <2> HIDE DEF A
    <2>1. A \in SUBSET Nat BY DEF A
    <2> QED BY <1>1, <1>2, <2>1, NatInd
  <1>4. \A s \in Seq(T) : Len(s) \in Nat OBVIOUS
  <1> QED BY <1>3, <1>4

-----------------------------------------------------------------------------
(* Only: the members of a sequence that are in a set.                      *)

Filtering(f, s, S, m) ==
    f = [n \in 0 .. m |-> IF n = 0 THEN <<>>
                          ELSE IF s[n] \in S THEN Append(f[n - 1], s[n]) ELSE f[n - 1]]
Filters(s, S, m) == \E f : Filtering(f, s, S, m)

LEMMA FilterExists == ASSUME NEW s, NEW S, NEW m \in Nat PROVE Filters(s, S, m)
  <1> DEFINE E == {k \in Nat : Filters(s, S, k)}
  <1>1. 0 \in E
    <2> DEFINE g == [n \in 0 .. 0 |-> <<>>]
    <2>1. Filtering(g, s, S, 0) BY DEF Filtering
    <2> HIDE DEF g
    <2> QED BY <2>1 DEF Filters
  <1>2. ASSUME NEW k \in E PROVE k + 1 \in E
    <2>1. PICK f : Filtering(f, s, S, k) BY <1>2 DEF Filters
    <2> DEFINE last == IF s[k + 1] \in S THEN Append(f[k], s[k + 1]) ELSE f[k]
               g == [n \in 0 .. k + 1 |-> IF n = k + 1 THEN last ELSE f[n]]
    <2>2. \A n \in 0 .. k : f[n] = IF n = 0 THEN <<>>
                                   ELSE IF s[n] \in S THEN Append(f[n - 1], s[n]) ELSE f[n - 1]
      BY <2>1 DEF Filtering
    <2>3. k \in Nat OBVIOUS
    <2>4. g[k + 1] = last /\ g[k] = f[k] /\ \A n \in 0 .. k : g[n] = f[n] BY <2>3
    <2>5. g = [n \in 0 .. k + 1 |-> g[n]] OBVIOUS
    <2> HIDE DEF g
    <2>6. \A n \in 0 .. k + 1 : g[n] = IF n = 0 THEN <<>>
                                   ELSE IF s[n] \in S THEN Append(g[n - 1], s[n]) ELSE g[n - 1]
      <3>1. TAKE n \in 0 .. k + 1
      <3>2. CASE n = k + 1 BY <2>3, <2>4, <3>2
      <3>3. CASE n \in 0 .. k /\ n # 0
        <4>1. n - 1 \in 0 .. k BY <2>3, <3>3
        <4>2. g[n] = f[n] /\ g[n - 1] = f[n - 1] BY <2>4, <3>3, <4>1
        <4> QED BY <2>2, <3>3, <4>2
      <3>4. CASE n = 0 BY <2>2, <2>3, <2>4, <3>4
      <3> QED BY <2>3, <3>2, <3>3, <3>4
    <2>7. Filtering(g, s, S, k + 1) BY <2>5, <2>6 DEF Filtering
    <2> QED BY <2>3, <2>7 DEF Filters
  <1>3. E = Nat
    <2> HIDE DEF E
    <2>1. E \in SUBSET Nat BY DEF E
    <2> QED BY <1>1, <1>2, <2>1, NatInd
  <1> QED BY <1>3

\* Two filters that go through the same members find the same.
LEMMA FiltersAgree ==
  ASSUME NEW s, NEW t, NEW S, NEW m \in Nat, NEW n \in Nat, m <= n, NEW f, NEW g,
         Filtering(f, s, S, m), Filtering(g, t, S, n), \A i \in 1 .. m : s[i] = t[i]
  PROVE  f[m] = g[m]
  <1> DEFINE A == {k \in Nat : k <= m => f[k] = g[k]}
  <1>1. \A i \in 0 .. m : f[i] = IF i = 0 THEN <<>>
                                 ELSE IF s[i] \in S THEN Append(f[i - 1], s[i]) ELSE f[i - 1]
    BY DEF Filtering
  <1>2. \A i \in 0 .. n : g[i] = IF i = 0 THEN <<>>
                                 ELSE IF t[i] \in S THEN Append(g[i - 1], t[i]) ELSE g[i - 1]
    BY DEF Filtering
  <1>3. 0 \in A BY <1>1, <1>2
  <1>4. ASSUME NEW k \in A PROVE k + 1 \in A
    <2> DEFINE j == k + 1
    <2>1. SUFFICES ASSUME j <= m PROVE f[j] = g[j] OBVIOUS
    <2>2. k \in Nat /\ j \in 0 .. m /\ j \in 0 .. n /\ j \in 1 .. m /\ j # 0 /\ j - 1 = k BY <2>1
    <2>3. f[k] = g[k] BY <2>2
    <2> HIDE DEF j
    <2>4. f[j] = IF s[j] \in S THEN Append(f[k], s[j]) ELSE f[k] BY <1>1, <2>2
    <2>5. g[j] = IF t[j] \in S THEN Append(g[k], t[j]) ELSE g[k] BY <1>2, <2>2
    <2> QED BY <2>2, <2>3, <2>4, <2>5
  <1>5. A = Nat
    <2> HIDE DEF A
    <2>1. A \in SUBSET Nat BY DEF A
    <2> QED BY <1>3, <1>4, <2>1, NatInd
  <1> QED BY <1>5

LEMMA OnlyEmpty == ASSUME NEW S PROVE Only(<<>>, S) = <<>>
  <1> DEFINE F == CHOOSE f : Filtering(f, <<>>, S, 0)
  <1>1. Len(<<>>) = 0 /\ 0 \in Nat OBVIOUS
  <1>2. Filtering(F, <<>>, S, 0) BY <1>1, FilterExists DEF Filters
  <1>3. Only(<<>>, S) = F[0] BY <1>1 DEF Only, Filtering
  <1> HIDE DEF F
  <1>4. 0 \in 0 .. 0 OBVIOUS
  <1> QED BY <1>2, <1>3, <1>4 DEF Filtering

LEMMA OnlyAppends ==
  ASSUME NEW T, NEW s \in Seq(T), NEW x \in T, NEW S
  PROVE  Only(Append(s, x), S) = IF x \in S THEN Append(Only(s, S), x) ELSE Only(s, S)
  <1> DEFINE n == Len(s)
             t == Append(s, x)
             F == CHOOSE f : Filtering(f, s, S, n)
             G == CHOOSE f : Filtering(f, t, S, n + 1)
  <1>1. n \in Nat /\ n + 1 \in Nat /\ Len(t) = n + 1 /\ t[n + 1] = x /\ \A i \in 1 .. n : s[i] = t[i]
    OBVIOUS
  <1>2. Filtering(F, s, S, n) BY <1>1, FilterExists DEF Filters
  <1>3. Filtering(G, t, S, n + 1) BY <1>1, FilterExists DEF Filters
  <1>4. Only(s, S) = F[n] BY DEF Only, Filtering
  <1>5. Only(t, S) = G[n + 1]
    <2> HIDE DEF t
    <2>1. Only(t, S) = (CHOOSE f : Filtering(f, t, S, Len(t)))[Len(t)] BY DEF Only, Filtering
    <2> QED BY <1>1, <2>1
  <1> HIDE DEF F, G, t, n
  <1>6. F[n] = G[n] BY <1>1, <1>2, <1>3, FiltersAgree
  <1>7. G[n + 1] = IF t[n + 1] \in S THEN Append(G[n], t[n + 1]) ELSE G[n]
    <2>1. n + 1 \in 0 .. n + 1 /\ n + 1 # 0 /\ (n + 1) - 1 = n BY <1>1
    <2> QED BY <1>3, <2>1 DEF Filtering
  <1> QED BY <1>1, <1>4, <1>5, <1>6, <1>7 DEF t

LEMMA SetOfAppend ==
  ASSUME NEW T, NEW s \in Seq(T), NEW x \in T
  PROVE  ToSet(Append(s, x)) = ToSet(s) \cup {x}
  <1> DEFINE t == Append(s, x)
  <1>1. DOMAIN t = 1 .. Len(s) + 1 /\ DOMAIN s = 1 .. Len(s) /\ Len(s) \in Nat OBVIOUS
  <1>2. t[Len(s) + 1] = x /\ \A i \in 1 .. Len(s) : t[i] = s[i] OBVIOUS
  <1> HIDE DEF t
  <1>3. ToSet(t) = ToSet(s) \cup {x} BY <1>1, <1>2 DEF ToSet
  <1> QED BY <1>3 DEF t

LEMMA SetOf == ASSUME NEW T, NEW s \in Seq(T)
               PROVE  /\ ToSet(s) \subseteq T /\ Len(s) \in Nat /\ DOMAIN s = 1 .. Len(s)
                      /\ \A i \in 1 .. Len(s) : s[i] \in ToSet(s) /\ s[i] \in T
                      /\ \A x \in ToSet(s) : \E i \in 1 .. Len(s) : s[i] = x
                      /\ s = <<>> <=> ToSet(s) = {}
                      /\ s # <<>> => Len(s) >= 1 /\ Head(s) = s[1]
  <1>1. Len(s) \in Nat /\ DOMAIN s = 1 .. Len(s) /\ \A i \in 1 .. Len(s) : s[i] \in T OBVIOUS
  <1>2. /\ ToSet(s) \subseteq T
        /\ \A i \in 1 .. Len(s) : s[i] \in ToSet(s) /\ s[i] \in T
        /\ \A x \in ToSet(s) : \E i \in 1 .. Len(s) : s[i] = x
    BY <1>1 DEF ToSet
  <1>3. s # <<>> => Len(s) >= 1 /\ Head(s) = s[1] BY <1>1
  <1>4. s = <<>> <=> ToSet(s) = {}
    <2>1. s = <<>> => Len(s) = 0 OBVIOUS
    <2>2. s # <<>> => 1 \in 1 .. Len(s) BY <1>3
    <2> QED BY <1>2, <2>1, <2>2
  <1> QED BY <1>1, <1>2, <1>3, <1>4

LEMMA OnlyIs ==
  ASSUME NEW T, NEW s \in Seq(T), NEW S
  PROVE  /\ Only(s, S) \in Seq(T) /\ Len(Only(s, S)) <= Len(s)
         /\ ToSet(Only(s, S)) = ToSet(s) \cap S
  <1> DEFINE Q == {r \in Seq(T) : /\ Only(r, S) \in Seq(T) /\ Len(Only(r, S)) <= Len(r)
                                  /\ ToSet(Only(r, S)) = ToSet(r) \cap S}
  <1>1. <<>> \in Q
    <2>1. <<>> \in Seq(T) /\ Len(<<>>) = 0 /\ 0 <= 0 /\ ToSet(<<>>) = {} BY DEF ToSet
    <2> QED BY <2>1, OnlyEmpty
  <1>2. ASSUME NEW r \in Q, NEW x \in T PROVE Append(r, x) \in Q
    <2> DEFINE o == Only(r, S)
    <2>1. r \in Seq(T) /\ o \in Seq(T) /\ Len(o) <= Len(r) /\ ToSet(o) = ToSet(r) \cap S OBVIOUS
    <2>2. Only(Append(r, x), S) = IF x \in S THEN Append(o, x) ELSE o BY <2>1, OnlyAppends
    <2> HIDE DEF o
    <2>3. ToSet(Append(r, x)) = ToSet(r) \cup {x} /\ ToSet(Append(o, x)) = ToSet(o) \cup {x}
      BY <2>1, SetOfAppend
    <2>4. /\ Append(r, x) \in Seq(T) /\ Append(o, x) \in Seq(T) /\ Len(r) \in Nat /\ Len(o) \in Nat
          /\ Len(Append(r, x)) = Len(r) + 1 /\ Len(Append(o, x)) = Len(o) + 1
      BY <2>1
    <2>5. CASE x \in S
      <3>1. ToSet(Append(o, x)) = ToSet(Append(r, x)) \cap S BY <2>1, <2>3, <2>5
      <3>2. Len(Append(o, x)) <= Len(Append(r, x)) BY <2>1, <2>4
      <3> QED BY <2>2, <2>4, <2>5, <3>1, <3>2
    <2>6. CASE x \notin S
      <3>1. ToSet(o) = ToSet(Append(r, x)) \cap S BY <2>1, <2>3, <2>6
      <3>2. Len(o) <= Len(Append(r, x)) BY <2>1, <2>4
      <3> QED BY <2>1, <2>2, <2>4, <2>6, <3>1, <3>2
    <2> QED BY <2>5, <2>6
  <1>3. Q = Seq(T)
    <2> HIDE DEF Q
    <2>1. Q \in SUBSET Seq(T) BY DEF Q
    <2> QED BY <1>1, <1>2, <2>1, SeqInd
  <1> QED BY <1>3

LEMMA OnlyDistinct ==
  ASSUME NEW T, NEW s \in Seq(T), NEW S, Distinct(s)
  PROVE  Distinct(Only(s, S))
  <1> DEFINE Q == {r \in Seq(T) : Distinct(r) => Distinct(Only(r, S))}
  <1>1. <<>> \in Q
    <2>1. <<>> \in Seq(T) OBVIOUS
    <2> QED BY <2>1, OnlyEmpty
  <1>2. ASSUME NEW r \in Q, NEW x \in T PROVE Append(r, x) \in Q
    <2> DEFINE o == Only(r, S)
               rx == Append(r, x)
    <2>1. r \in Seq(T) /\ (Distinct(r) => Distinct(o)) OBVIOUS
    <2>2. Only(rx, S) = IF x \in S THEN Append(o, x) ELSE o BY <2>1, OnlyAppends
    <2>3. o \in Seq(T) /\ ToSet(o) = ToSet(r) \cap S BY <2>1, OnlyIs
    <2> HIDE DEF o
    <2>4. /\ Len(r) \in Nat /\ Len(rx) = Len(r) + 1 /\ rx[Len(r) + 1] = x /\ rx \in Seq(T)
          /\ \A i \in 1 .. Len(r) : rx[i] = r[i]
      BY <2>1
    <2> HIDE DEF rx
    <2>5. SUFFICES ASSUME Distinct(rx) PROVE Distinct(Only(rx, S)) BY <2>4 DEF rx
    <2>6. Distinct(o)
      <3>1. Distinct(r)
        <4>1. \A i, j \in 1 .. Len(r) : i \in 1 .. Len(rx) /\ j \in 1 .. Len(rx) BY <2>4
        <4> QED BY <2>4, <2>5, <4>1 DEF Distinct
      <3> QED BY <2>1, <3>1
    <2>7. \A i \in 1 .. Len(o) : o[i].fat # x.fat
      <3>1. TAKE i \in 1 .. Len(o)
      <3>2. o[i] \in ToSet(r) BY <2>3, SetOf
      <3>3. PICK k \in 1 .. Len(r) : r[k] = o[i] BY <2>1, <3>2, SetOf
      <3>4. k \in 1 .. Len(rx) /\ Len(r) + 1 \in 1 .. Len(rx) /\ k # Len(r) + 1 BY <2>4, <3>3
      <3>5. rx[k].fat # rx[Len(r) + 1].fat BY <2>5, <3>4 DEF Distinct
      <3> QED BY <2>4, <3>3, <3>5
    <2>8. CASE x \in S
      <3> DEFINE ox == Append(o, x)
      <3>1. /\ Len(o) \in Nat /\ Len(ox) = Len(o) + 1 /\ ox[Len(o) + 1] = x
            /\ \A i \in 1 .. Len(o) : ox[i] = o[i]
        BY <2>3
      <3> HIDE DEF ox
      <3>2. \A i, j \in 1 .. Len(ox) : ox[i].fat = ox[j].fat => i = j
        <4>1. TAKE i, j \in 1 .. Len(ox)
        <4>2. CASE i \in 1 .. Len(o) /\ j \in 1 .. Len(o) BY <2>6, <3>1, <4>2 DEF Distinct
        <4>3. CASE i = Len(o) + 1 /\ j \in 1 .. Len(o) BY <2>7, <3>1, <4>3
        <4>4. CASE j = Len(o) + 1 /\ i \in 1 .. Len(o) BY <2>7, <3>1, <4>4
        <4> QED BY <3>1, <4>2, <4>3, <4>4
      <3>3. Distinct(ox) BY <3>2 DEF Distinct
      <3> QED BY <2>2, <2>8, <3>3 DEF ox
    <2> QED BY <2>2, <2>6, <2>8
  <1>3. Q = Seq(T)
    <2> HIDE DEF Q
    <2>1. Q \in SUBSET Seq(T) BY DEF Q
    <2> QED BY <1>1, <1>2, <2>1, SeqInd
  <1> QED BY <1>3

-----------------------------------------------------------------------------
(* The length of a tape.                                                   *)

CountLen == Len(CountBlock(0))

LEMMA Lengths == /\ CountLen = 8
                 /\ \A size \in Nat : PairLen(size) = 21 + size
  <1>1. CountLen = 8 BY DEF CountLen, CountBlock, Frame
  <1>2. Len(HeaderBlock(0)) = 11 BY DEF HeaderBlock, Frame
  <1>3. Len(BodyBlock(<<>>)) = 10 BY DEF BodyBlock, Frame
  <1>4. \A size \in Nat : PairLen(size) = 21 + size
    <2>1. TAKE size \in Nat
    <2>2. PairLen(size) = Len(HeaderBlock(0)) + Len(BodyBlock(<<>>)) + size BY DEF PairLen
    <2>3. PairLen(size) = 11 + 10 + size BY <1>2, <1>3, <2>2, Zenon
    <2> QED BY <2>3
  <1> QED BY <1>1, <1>4

Summing(f, files, m) ==
    f = [n \in 0 .. m |-> IF n = 0 THEN Len(CountBlock(0)) ELSE f[n - 1] + PairLen(files[n].size)]
Sums(files, m) == \E f : Summing(f, files, m)

LEMMA SumExists == ASSUME NEW files, NEW m \in Nat PROVE Sums(files, m)
  <1> DEFINE E == {k \in Nat : Sums(files, k)}
  <1>1. 0 \in E
    <2> DEFINE g == [n \in 0 .. 0 |-> Len(CountBlock(0))]
    <2>1. Summing(g, files, 0) BY DEF Summing
    <2> HIDE DEF g
    <2> QED BY <2>1 DEF Sums
  <1>2. ASSUME NEW k \in E PROVE k + 1 \in E
    <2>1. PICK f : Summing(f, files, k) BY <1>2 DEF Sums
    <2> DEFINE last == f[k] + PairLen(files[k + 1].size)
               g == [n \in 0 .. k + 1 |-> IF n = k + 1 THEN last ELSE f[n]]
    <2>2. \A n \in 0 .. k : f[n] = IF n = 0 THEN Len(CountBlock(0))
                                   ELSE f[n - 1] + PairLen(files[n].size)
      BY <2>1 DEF Summing
    <2>3. k \in Nat OBVIOUS
    <2>4. g[k + 1] = last /\ g[k] = f[k] /\ \A n \in 0 .. k : g[n] = f[n] BY <2>3
    <2>5. g = [n \in 0 .. k + 1 |-> g[n]] OBVIOUS
    <2> HIDE DEF g
    <2>6. \A n \in 0 .. k + 1 : g[n] = IF n = 0 THEN Len(CountBlock(0))
                                       ELSE g[n - 1] + PairLen(files[n].size)
      <3>1. TAKE n \in 0 .. k + 1
      <3>2. CASE n = k + 1 BY <2>3, <2>4, <3>2
      <3>3. CASE n \in 0 .. k /\ n # 0
        <4>1. n - 1 \in 0 .. k BY <2>3, <3>3
        <4>2. g[n] = f[n] /\ g[n - 1] = f[n - 1] BY <2>4, <3>3, <4>1
        <4> QED BY <2>2, <3>3, <4>2
      <3>4. CASE n = 0 BY <2>2, <2>3, <2>4, <3>4
      <3> QED BY <2>3, <3>2, <3>3, <3>4
    <2>7. Summing(g, files, k + 1) BY <2>5, <2>6 DEF Summing
    <2> QED BY <2>3, <2>7 DEF Sums
  <1>3. E = Nat
    <2> HIDE DEF E
    <2>1. E \in SUBSET Nat BY DEF E
    <2> QED BY <1>1, <1>2, <2>1, NatInd
  <1> QED BY <1>3

LEMMA SumsAgree ==
  ASSUME NEW s, NEW t, NEW m \in Nat, NEW n \in Nat, m <= n, NEW f, NEW g,
         Summing(f, s, m), Summing(g, t, n), \A i \in 1 .. m : s[i] = t[i]
  PROVE  f[m] = g[m]
  <1> DEFINE A == {k \in Nat : k <= m => f[k] = g[k]}
  <1>1. \A i \in 0 .. m : f[i] = IF i = 0 THEN Len(CountBlock(0)) ELSE f[i - 1] + PairLen(s[i].size)
    BY DEF Summing
  <1>2. \A i \in 0 .. n : g[i] = IF i = 0 THEN Len(CountBlock(0)) ELSE g[i - 1] + PairLen(t[i].size)
    BY DEF Summing
  <1>3. 0 \in A BY <1>1, <1>2
  <1>4. ASSUME NEW k \in A PROVE k + 1 \in A
    <2> DEFINE j == k + 1
    <2>1. SUFFICES ASSUME j <= m PROVE f[j] = g[j] OBVIOUS
    <2>2. k \in Nat /\ j \in 0 .. m /\ j \in 0 .. n /\ j \in 1 .. m /\ j # 0 /\ j - 1 = k BY <2>1
    <2>3. f[k] = g[k] BY <2>2
    <2> HIDE DEF j
    <2>4. f[j] = f[k] + PairLen(s[j].size) BY <1>1, <2>2
    <2>5. g[j] = g[k] + PairLen(t[j].size) BY <1>2, <2>2
    <2> QED BY <2>2, <2>3, <2>4, <2>5
  <1>5. A = Nat
    <2> HIDE DEF A
    <2>1. A \in SUBSET Nat BY DEF A
    <2> QED BY <1>3, <1>4, <2>1, NatInd
  <1> QED BY <1>5

LEMMA TapeEmpty == TapeLen(<<>>) = 8
  <1> DEFINE F == CHOOSE f : Summing(f, <<>>, 0)
  <1>1. Len(<<>>) = 0 /\ 0 \in Nat OBVIOUS
  <1>2. Summing(F, <<>>, 0) BY <1>1, SumExists DEF Sums
  <1>3. TapeLen(<<>>) = F[0] BY <1>1 DEF TapeLen, Summing
  <1> HIDE DEF F
  <1>4. 0 \in 0 .. 0 OBVIOUS
  <1>5. F[0] = CountLen BY <1>2, <1>4 DEF Summing, CountLen
  <1> QED BY <1>3, <1>5, Lengths

LEMMA TapeAppends ==
  ASSUME NEW T, NEW s \in Seq(T), NEW x \in T
  PROVE  TapeLen(Append(s, x)) = TapeLen(s) + PairLen(x.size)
  <1> DEFINE n == Len(s)
             t == Append(s, x)
             F == CHOOSE f : Summing(f, s, n)
             G == CHOOSE f : Summing(f, t, n + 1)
  <1>1. n \in Nat /\ n + 1 \in Nat /\ Len(t) = n + 1 /\ t[n + 1] = x /\ \A i \in 1 .. n : s[i] = t[i]
    OBVIOUS
  <1>2. Summing(F, s, n) BY <1>1, SumExists DEF Sums
  <1>3. Summing(G, t, n + 1) BY <1>1, SumExists DEF Sums
  <1>4. TapeLen(s) = F[n] BY DEF TapeLen, Summing
  <1>5. TapeLen(t) = G[n + 1]
    <2> HIDE DEF t
    <2>1. TapeLen(t) = (CHOOSE f : Summing(f, t, Len(t)))[Len(t)] BY DEF TapeLen, Summing
    <2> QED BY <1>1, <2>1
  <1> HIDE DEF F, G, t, n
  <1>6. F[n] = G[n] BY <1>1, <1>2, <1>3, SumsAgree
  <1>7. G[n + 1] = G[n] + PairLen(t[n + 1].size)
    <2>1. n + 1 \in 0 .. n + 1 /\ n + 1 # 0 /\ (n + 1) - 1 = n BY <1>1
    <2> QED BY <1>3, <2>1 DEF Summing
  <1> QED BY <1>1, <1>4, <1>5, <1>6, <1>7 DEF t

\* Files of an index: names of any kind, sizes that are numbers.
Files(fats) == [fat : fats, size : Nat]

LEMMA TapeIsNat == ASSUME NEW F, NEW s \in Seq(Files(F)) PROVE TapeLen(s) \in Nat
  <1> DEFINE T == Files(F)
             Q == {r \in Seq(T) : TapeLen(r) \in Nat}
  <1> HIDE DEF T
  <1>1. <<>> \in Q
    <2>1. <<>> \in Seq(T) /\ 8 \in Nat OBVIOUS
    <2> QED BY <2>1, TapeEmpty
  <1>2. ASSUME NEW r \in Q, NEW x \in T PROVE Append(r, x) \in Q
    <2>1. r \in Seq(T) /\ TapeLen(r) \in Nat /\ Append(r, x) \in Seq(T) OBVIOUS
    <2>2. TapeLen(Append(r, x)) = TapeLen(r) + PairLen(x.size) BY <2>1, TapeAppends
    <2>3. x.size \in Nat BY DEF T, Files
    <2>4. PairLen(x.size) = 21 + x.size BY <2>3, Lengths
    <2>5. TapeLen(Append(r, x)) \in Nat BY <2>1, <2>2, <2>3, <2>4
    <2> QED BY <2>1, <2>5
  <1>3. Q = Seq(T)
    <2> HIDE DEF Q
    <2>1. Q \in SUBSET Seq(T) BY DEF Q
    <2> QED BY <1>1, <1>2, <2>1, SeqInd
  <1>4. s \in Seq(T) BY DEF T
  <1> QED BY <1>3, <1>4

\* Two tapes one after the other share one count block.
LEMMA TapeJoins ==
  ASSUME NEW F, NEW s \in Seq(Files(F)), NEW t \in Seq(Files(F))
  PROVE  TapeLen(s \o t) = TapeLen(s) + TapeLen(t) - 8
  <1> DEFINE T == Files(F)
             Q == {r \in Seq(T) : TapeLen(s \o r) = TapeLen(s) + TapeLen(r) - 8}
  <1>0. s \in Seq(T) /\ t \in Seq(T) /\ TapeLen(s) \in Nat BY TapeIsNat
  <1>1. \A r \in Seq(T) : TapeLen(r) \in Nat BY TapeIsNat
  <1>2. \A x \in T : x.size \in Nat BY DEF Files
  <1> HIDE DEF T
  <1>3. <<>> \in Q
    <2>1. <<>> \in Seq(T) /\ s \o <<>> = s BY <1>0, ConcatEmptySeq
    <2> QED BY <1>0, <2>1, TapeEmpty
  <1>4. ASSUME NEW r \in Q, NEW x \in T PROVE Append(r, x) \in Q
    <2>1. /\ r \in Seq(T) /\ TapeLen(s \o r) = TapeLen(s) + TapeLen(r) - 8
          /\ Append(r, x) \in Seq(T) /\ s \o r \in Seq(T)
      BY <1>0
    <2>2. s \o Append(r, x) = Append(s \o r, x)
      <3>1. Append(r, x) = r \o <<x>> /\ Append(s \o r, x) = (s \o r) \o <<x>> BY <2>1, AppendIsConcat
      <3>2. <<x>> \in Seq(T) OBVIOUS
      <3> QED BY <1>0, <2>1, <3>1, <3>2, ConcatAssociative
    <2>3. TapeLen(Append(r, x)) = TapeLen(r) + PairLen(x.size) BY <2>1, TapeAppends
    <2>4. TapeLen(Append(s \o r, x)) = TapeLen(s \o r) + PairLen(x.size) BY <2>1, TapeAppends
    <2>5. x.size \in Nat /\ TapeLen(r) \in Nat BY <1>1, <1>2, <2>1
    <2>6. PairLen(x.size) = 21 + x.size BY <2>5, Lengths
    <2>7. TapeLen(s \o Append(r, x)) = TapeLen(s \o r) + PairLen(x.size) BY <2>2, <2>4
    <2>8. TapeLen(s \o Append(r, x)) = TapeLen(s) + TapeLen(Append(r, x)) - 8
      BY <1>0, <2>1, <2>3, <2>5, <2>6, <2>7
    <2> QED BY <2>1, <2>8
  <1>5. Q = Seq(T)
    <2> HIDE DEF Q
    <2>1. Q \in SUBSET Seq(T) BY DEF Q
    <2> QED BY <1>3, <1>4, <2>1, SeqInd
  <1> QED BY <1>0, <1>5

\* Members in a set and the others: the tape is as long, and so is the index.
LEMMA TapeSplits ==
  ASSUME NEW F, NEW s \in Seq(Files(F)), NEW S, NEW R,
         \A f \in ToSet(s) : f \in S <=> f \notin R
  PROVE  /\ TapeLen(Only(s, S)) + TapeLen(Only(s, R)) = TapeLen(s) + 8
         /\ Len(Only(s, S)) + Len(Only(s, R)) = Len(s)
  <1> DEFINE T == Files(F)
             Half(r) == \A f \in ToSet(r) : f \in S <=> f \notin R
             Good(r) == /\ TapeLen(Only(r, S)) + TapeLen(Only(r, R)) = TapeLen(r) + 8
                        /\ Len(Only(r, S)) + Len(Only(r, R)) = Len(r)
             Q == {r \in Seq(T) : Half(r) => Good(r)}
  <1>0. s \in Seq(T) OBVIOUS
  <1>1. \A r \in Seq(T) : TapeLen(r) \in Nat BY TapeIsNat
  <1>2. \A x \in T : x.size \in Nat BY DEF Files
  <1> HIDE DEF T
  <1>3. <<>> \in Q
    <2>1. <<>> \in Seq(T) /\ Len(<<>>) = 0 OBVIOUS
    <2> QED BY <2>1, TapeEmpty, OnlyEmpty
  <1>4. ASSUME NEW r \in Q, NEW x \in T, Half(Append(r, x)) PROVE Good(Append(r, x))
    <2> DEFINE a == Only(r, S)
               b == Only(r, R)
    <2>1. r \in Seq(T) /\ ToSet(Append(r, x)) = ToSet(r) \cup {x} BY SetOfAppend
    <2>2. Half(r) /\ (x \in S <=> x \notin R) BY <1>4, <2>1
    <2>3. Good(r) BY <2>2
    <2>4. /\ Only(Append(r, x), S) = IF x \in S THEN Append(a, x) ELSE a
          /\ Only(Append(r, x), R) = IF x \in R THEN Append(b, x) ELSE b
      BY <2>1, OnlyAppends
    <2>5. a \in Seq(T) /\ b \in Seq(T) BY <2>1, OnlyIs
    <2>6. TapeLen(a) + TapeLen(b) = TapeLen(r) + 8 /\ Len(a) + Len(b) = Len(r) BY <2>3
    <2> HIDE DEF a, b
    <2>7. /\ TapeLen(Append(a, x)) = TapeLen(a) + PairLen(x.size)
          /\ TapeLen(Append(b, x)) = TapeLen(b) + PairLen(x.size)
          /\ TapeLen(Append(r, x)) = TapeLen(r) + PairLen(x.size)
      BY <2>1, <2>5, TapeAppends
    <2>8. /\ Len(Append(a, x)) = Len(a) + 1 /\ Len(Append(b, x)) = Len(b) + 1
          /\ Len(Append(r, x)) = Len(r) + 1 /\ {Len(a), Len(b), Len(r)} \subseteq Nat
      BY <2>1, <2>5
    <2>9. {TapeLen(a), TapeLen(b), TapeLen(r), PairLen(x.size)} \subseteq Nat
      <3>1. x.size \in Nat BY <1>2
      <3>2. PairLen(x.size) = 21 + x.size BY <3>1, Lengths
      <3>3. PairLen(x.size) \in Nat BY <3>1, <3>2
      <3> QED BY <1>1, <2>1, <2>5, <3>3
    <2>10. CASE x \in S
      <3>1. Only(Append(r, x), S) = Append(a, x) /\ Only(Append(r, x), R) = b BY <2>2, <2>4, <2>10
      <3>2. TapeLen(Append(a, x)) + TapeLen(b) = TapeLen(Append(r, x)) + 8 BY <2>6, <2>7, <2>9
      <3>3. Len(Append(a, x)) + Len(b) = Len(Append(r, x)) BY <2>6, <2>8
      <3> QED BY <3>1, <3>2, <3>3
    <2>11. CASE x \notin S
      <3>1. Only(Append(r, x), S) = a /\ Only(Append(r, x), R) = Append(b, x) BY <2>2, <2>4, <2>11
      <3>2. TapeLen(a) + TapeLen(Append(b, x)) = TapeLen(Append(r, x)) + 8 BY <2>6, <2>7, <2>9
      <3>3. Len(a) + Len(Append(b, x)) = Len(Append(r, x)) BY <2>6, <2>8
      <3> QED BY <3>1, <3>2, <3>3
    <2> QED BY <2>10, <2>11
  <1>5. \A r \in Q : \A x \in T : Append(r, x) \in Q
    <2>0. TAKE r \in Q
    <2>1. TAKE x \in T
    <2>2. Append(r, x) \in Seq(T) OBVIOUS
    <2>3. Half(Append(r, x)) => Good(Append(r, x)) BY <1>4
    <2> QED BY <2>2, <2>3
  <1>6. Q = Seq(T)
    <2> HIDE DEF Q
    <2>1. Q \in SUBSET Seq(T) BY DEF Q
    <2> QED BY <1>3, <1>5, <2>1, SeqInd
  <1> QED BY <1>0, <1>6

-----------------------------------------------------------------------------
(* Sequences put together from others.                                     *)

Flattening(f, seqs, m) ==
    f = [i \in 1 .. m |-> IF i = 1 THEN seqs[i] ELSE f[i - 1] \o seqs[i]]
Flattens(seqs, m) == \E f : Flattening(f, seqs, m)

LEMMA FlattenExists == ASSUME NEW seqs, NEW m \in Nat PROVE Flattens(seqs, m)
  <1> DEFINE E == {k \in Nat : Flattens(seqs, k)}
  <1>1. 0 \in E
    <2>1. Flattening([i \in 1 .. 0 |-> 0], seqs, 0) BY DEF Flattening
    <2> QED BY <2>1 DEF Flattens
  <1>2. ASSUME NEW k \in E PROVE k + 1 \in E
    <2>1. PICK f : Flattening(f, seqs, k) BY <1>2 DEF Flattens
    <2> DEFINE g == [i \in 1 .. k + 1 |-> IF i = k + 1 THEN IF i = 1 THEN seqs[i] ELSE f[k] \o seqs[i]
                                          ELSE f[i]]
    <2>2. \A i \in 1 .. k : f[i] = IF i = 1 THEN seqs[i] ELSE f[i - 1] \o seqs[i]
      BY <2>1 DEF Flattening
    <2>3. k \in Nat OBVIOUS
    <2>4. \A i \in 1 .. k + 1 : g[i] = IF i = 1 THEN seqs[i] ELSE g[i - 1] \o seqs[i]
      BY <2>2, <2>3
    <2>5. g = [i \in 1 .. k + 1 |-> g[i]] OBVIOUS
    <2>6. Flattening(g, seqs, k + 1)
      <3> HIDE DEF g
      <3> QED BY <2>4, <2>5 DEF Flattening
    <2> QED BY <2>6 DEF Flattens
  <1>3. E = Nat
    <2> HIDE DEF E
    <2>1. E \in SUBSET Nat BY DEF E
    <2> QED BY <1>1, <1>2, <2>1, NatInd
  <1> QED BY <1>3

\* What is put together from members of a set that is closed under
\* concatenation is in it.
LEMMA FlattenIn ==
  ASSUME NEW C, <<>> \in C, \A a, b \in C : a \o b \in C,
         NEW n \in Nat, NEW seqs, Len(seqs) = n, n = 0 => seqs = <<>>, \A i \in 1 .. n : seqs[i] \in C
  PROVE  FlattenSeq(seqs) \in C
  <1> DEFINE F == CHOOSE g : Flattening(g, seqs, n)
  <1>1. Flattening(F, seqs, n) BY FlattenExists DEF Flattens
  <1>2. FlattenSeq(seqs) = IF n = 0 THEN seqs ELSE F[n] BY DEF FlattenSeq, Flattening
  <1> HIDE DEF F
  <1>3. \A i \in 1 .. n : F[i] = IF i = 1 THEN seqs[i] ELSE F[i - 1] \o seqs[i] BY <1>1 DEF Flattening
  <1> DEFINE A == {k \in Nat : k + 1 <= n => F[k + 1] \in C}
  <1>4. 0 \in A
    <2>1. SUFFICES ASSUME 1 <= n PROVE F[1] \in C OBVIOUS
    <2>2. 1 \in 1 .. n BY <2>1
    <2>3. F[1] = seqs[1] BY <1>3, <2>2
    <2> QED BY <2>2, <2>3
  <1>5. ASSUME NEW k \in A PROVE k + 1 \in A
    <2> DEFINE j == (k + 1) + 1
    <2>1. k \in Nat /\ k + 1 \in Nat OBVIOUS
    <2>2. SUFFICES ASSUME j <= n PROVE F[j] \in C BY <2>1
    <2>3. F[k + 1] \in C BY <2>1, <2>2
    <2>4. j \in 1 .. n /\ j # 1 /\ j - 1 = k + 1 BY <2>1, <2>2
    <2> HIDE DEF j
    <2>5. F[j] = F[k + 1] \o seqs[j] BY <1>3, <2>4
    <2> QED BY <2>3, <2>4, <2>5
  <1>6. A = Nat
    <2> HIDE DEF A
    <2>1. A \in SUBSET Nat BY DEF A
    <2> QED BY <1>4, <1>5, <2>1, NatInd
  <1>7. n # 0 => F[n] \in C
    <2>1. HAVE n # 0
    <2>2. n - 1 \in Nat /\ (n - 1) + 1 = n /\ n <= n BY <2>1
    <2>3. n - 1 \in A
      <3> HIDE DEF A
      <3> QED BY <1>6, <2>2
    <2>4. (n - 1) + 1 <= n => F[(n - 1) + 1] \in C BY <2>3
    <2> QED BY <2>2, <2>4
  <1> QED BY <1>2, <1>7

\* A set of naturals that is bounded and not empty has a greatest one.
LEMMA GreatestOf ==
  ASSUME NEW n \in Nat, NEW S \in SUBSET (0 .. n), S # {}
  PROVE  Max(S) \in S /\ \A y \in S : Max(S) >= y
  <1>1. SUFFICES ASSUME ~(\E x \in S : \A y \in S : x >= y) PROVE FALSE BY DEF Max
  <1> DEFINE B == {k \in Nat : \E x \in S : x >= k}
  <1>2. 0 \in B
    <2>1. PICK x \in S : TRUE OBVIOUS
    <2> QED BY <2>1
  <1>3. ASSUME NEW k \in B PROVE k + 1 \in B
    <2>1. PICK x \in S : x >= k OBVIOUS
    <2>2. PICK y \in S : ~(x >= y) BY <1>1
    <2>3. x \in Nat /\ y \in Nat /\ k \in Nat OBVIOUS
    <2>4. y >= k + 1 BY <2>1, <2>2, <2>3
    <2> QED BY <2>3, <2>4
  <1>4. B = Nat
    <2> HIDE DEF B
    <2>1. B \in SUBSET Nat BY DEF B
    <2> QED BY <1>2, <1>3, <2>1, NatInd
  <1>5. n + 1 \in B
    <2> HIDE DEF B
    <2> QED BY <1>4
  <1>6. PICK x \in S : x >= n + 1 BY <1>5
  <1> QED BY <1>6

-----------------------------------------------------------------------------
(* The index of a directory.                                               *)

LEMMA Numbers ==
  /\ MaxSize \in Nat /\ Limit \in Nat /\ Containers \in Nat /\ Byte \in Nat /\ Containers >= 1
  /\ 8 <= MaxSize /\ MaxSize <= Limit /\ Byte >= 4
  /\ MaxFiles \in Nat /\ 2 * MaxFiles < Byte
  /\ DOMAIN Programs = 1 .. Len(Programs) /\ Len(Programs) \in Nat
  /\ \A p \in DOMAIN Programs : p \in Nat \ {0} /\ Programs[p].body \in Seq(Nat)
  <1>1. Byte \in Nat /\ Byte >= 4 BY QuickDiskAssumption
  <1>2. MaxFiles \in Nat /\ 2 * MaxFiles < Byte BY <1>1 DEF MaxFiles
  <1> QED BY <1>1, <1>2, QuickDiskAssumption

\* What an index is to a directory: its files are those of programs, and they
\* fit a count and the medium.
Serves(files, d, fats) ==
    /\ files \in Seq(Files(fats)) /\ Len(files) <= MaxFiles /\ TapeLen(files) <= MaxSize
    /\ \A f \in ToSet(files) : \A e \in ToSet(d) : e.fat = f.fat => IsProgram(e)

LEMMA NothingServes == ASSUME NEW F, NEW d PROVE Serves(<<>>, d, F)
  <1>1. <<>> \in Seq(Files(F)) /\ Len(<<>>) = 0 /\ ToSet(<<>>) = {} BY DEF ToSet
  <1> QED BY <1>1, TapeEmpty, Numbers DEF Serves

LEMMA IndexedServes ==
  ASSUME NEW F, NEW d \in Seq(Entry(F)), Distinct(d), NEW bad
  PROVE  Serves(Indexed(d, bad), d, F)
  <1> DEFINE T == Entry(F)
             read == Only(d, {e \in ToSet(d) : IsProgram(e) /\ e.fat \notin bad})
             files == [i \in DOMAIN read |-> [fat |-> read[i].fat, size |-> SizeOf(read[i])]]
             fits == {n \in 0 .. Len(files) : n <= MaxFiles /\ TapeLen(SubSeq(files, 1, n)) <= MaxSize}
             m == Max(fits)
  <1>1. Indexed(d, bad) = SubSeq(files, 1, m) BY DEF Indexed
  <1>2. /\ read \in Seq(T) /\ ToSet(read) \subseteq ToSet(d)
        /\ \A e \in ToSet(read) : IsProgram(e)
    BY OnlyIs
  <1> HIDE DEF read
  <1>3. Len(read) \in Nat /\ DOMAIN read = 1 .. Len(read) /\ \A i \in 1 .. Len(read) : read[i] \in T /\ read[i] \in ToSet(read)
    BY <1>2, SetOf
  <1>4. \A i \in 1 .. Len(read) : [fat |-> read[i].fat, size |-> SizeOf(read[i])] \in Files(F)
    <2>1. TAKE i \in 1 .. Len(read)
    <2>2. read[i].fat \in F /\ read[i].head \in {0} \cup DOMAIN Programs /\ read[i].head # 0
      BY <1>2, <1>3 DEF Entry, IsProgram
    <2>3. Programs[read[i].head].body \in Seq(Nat) BY <2>2, Numbers
    <2>4. SizeOf(read[i]) \in Nat BY <2>3 DEF SizeOf
    <2> QED BY <2>2, <2>4 DEF Files
  <1>5. files \in Seq(Files(F)) /\ Len(files) = Len(read)
    <2>1. files = [i \in 1 .. Len(read) |-> [fat |-> read[i].fat, size |-> SizeOf(read[i])]] BY <1>3
    <2> QED BY <1>3, <1>4, <2>1
  <1>6. \A i \in 1 .. Len(files) : files[i].fat = read[i].fat BY <1>3, <1>5
  <1> HIDE DEF files
  <1>7. Len(files) \in Nat BY <1>3, <1>5
  <1>8. m \in fits
    <2>1. SubSeq(files, 1, 0) = <<>> BY <1>5
    <2>2. 0 \in fits
      <3>1. 0 \in 0 .. Len(files) /\ 0 <= MaxFiles BY <1>7, Numbers
      <3>2. TapeLen(SubSeq(files, 1, 0)) <= MaxSize BY <2>1, TapeEmpty, Numbers
      <3> QED BY <3>1, <3>2
    <2>3. fits \in SUBSET (0 .. Len(files)) OBVIOUS
    <2> HIDE DEF fits
    <2> QED BY <1>7, <2>2, <2>3, GreatestOf
  <1> HIDE DEF m
  <1>9. m \in 0 .. Len(files) /\ m <= MaxFiles /\ TapeLen(SubSeq(files, 1, m)) <= MaxSize BY <1>8
  <1> DEFINE index == SubSeq(files, 1, m)
  <1>10. index \in Seq(Files(F)) /\ Len(index) = m /\ \A i \in 1 .. m : index[i] = files[i]
    BY <1>5, <1>7, <1>9
  <1> HIDE DEF index
  <1>11. ASSUME NEW f \in ToSet(index), NEW e \in ToSet(d), e.fat = f.fat PROVE IsProgram(e)
    <2>1. PICK i \in 1 .. m : index[i] = f BY <1>10, SetOf
    <2>2. i \in 1 .. Len(files) /\ f.fat = read[i].fat BY <1>6, <1>7, <1>9, <1>10, <2>1
    <2>3. read[i] \in ToSet(d) /\ IsProgram(read[i]) BY <1>2, <1>3, <1>5, <2>2
    <2>4. PICK j \in 1 .. Len(d) : d[j] = read[i] BY <2>3, SetOf
    <2>5. PICK k \in 1 .. Len(d) : d[k] = e BY SetOf
    <2>6. d[j].fat = d[k].fat BY <1>11, <2>2, <2>4, <2>5
    <2>7. j = k BY <2>6 DEF Distinct
    <2> QED BY <2>3, <2>4, <2>5, <2>7
  <1>12. Indexed(d, bad) = index BY <1>1 DEF index
  <1>13. TapeLen(index) <= MaxSize BY <1>9 DEF index
  <1> QED BY <1>9, <1>10, <1>11, <1>12, <1>13 DEF Serves

LEMMA RebuiltServes ==
  ASSUME NEW F, NEW d \in Seq(Entry(F)), Distinct(d), NEW bad, NEW saved
  PROVE  Serves(Rebuilt(d, bad, saved), d, F)
  <1> DEFINE files == Indexed(d, bad)
             last == {f \in ToSet(files) : f.fat = saved}
             others == ToSet(files) \ last
             a == Only(files, others)
             b == Only(files, last)
  <1>1. Rebuilt(d, bad, saved) = a \o b BY DEF Rebuilt
  <1>2. Serves(files, d, F) BY IndexedServes
  <1> HIDE DEF files
  <1>3. files \in Seq(Files(F)) BY <1>2 DEF Serves
  <1>4. \A f \in ToSet(files) : f \in others <=> f \notin last OBVIOUS
  <1>5. /\ a \in Seq(Files(F)) /\ b \in Seq(Files(F))
        /\ ToSet(a) \subseteq ToSet(files) /\ ToSet(b) \subseteq ToSet(files)
    BY <1>3, OnlyIs
  <1>6. TapeLen(a) + TapeLen(b) = TapeLen(files) + 8 /\ Len(a) + Len(b) = Len(files)
    <2> HIDE DEF others, last
    <2> QED BY <1>3, <1>4, TapeSplits
  <1> HIDE DEF a, b
  <1>7. TapeLen(a \o b) = TapeLen(a) + TapeLen(b) - 8 BY <1>5, TapeJoins
  <1>8. TapeLen(a) \in Nat /\ TapeLen(b) \in Nat /\ TapeLen(files) \in Nat BY <1>3, <1>5, TapeIsNat
  <1>9. TapeLen(a \o b) = TapeLen(files) BY <1>6, <1>7, <1>8
  <1>10. a \o b \in Seq(Files(F)) /\ Len(a \o b) = Len(files) BY <1>5, <1>6
  <1>11. ToSet(a \o b) \subseteq ToSet(files)
    <2>1. SUFFICES ASSUME NEW f \in ToSet(a \o b) PROVE f \in ToSet(files) OBVIOUS
    <2>2. PICK i \in 1 .. Len(a \o b) : (a \o b)[i] = f BY <1>10, SetOf
    <2>3. /\ Len(a) \in Nat /\ Len(b) \in Nat /\ Len(a \o b) = Len(a) + Len(b)
          /\ (a \o b)[i] = IF i <= Len(a) THEN a[i] ELSE b[i - Len(a)]
      BY <1>5, <2>2
    <2>4. CASE i <= Len(a)
      <3>1. i \in 1 .. Len(a) BY <2>2, <2>3, <2>4
      <3> QED BY <1>5, <2>2, <2>3, <2>4, <3>1, SetOf
    <2>5. CASE ~(i <= Len(a))
      <3>1. i - Len(a) \in 1 .. Len(b) BY <2>2, <2>3, <2>5
      <3> QED BY <1>5, <2>2, <2>3, <2>5, <3>1, SetOf
    <2> QED BY <2>4, <2>5
  <1> QED BY <1>1, <1>2, <1>9, <1>10, <1>11 DEF Serves

LEMMA Inserts ==
  ASSUME NEW T, NEW s \in Seq(T), NEW i \in 1 .. Len(s) + 1, NEW x \in T
  PROVE  /\ InsertAt(s, i, x) \in Seq(T) /\ ToSet(InsertAt(s, i, x)) = ToSet(s) \cup {x}
         /\ Distinct(s) /\ (\A y \in ToSet(s) : y.fat # x.fat) => Distinct(InsertAt(s, i, x))
  <1> DEFINE n == Len(s)
             a == SubSeq(s, 1, i - 1)
             b == SubSeq(s, i, n)
             t == InsertAt(s, i, x)
  <1>1. n \in Nat /\ i \in Nat /\ 1 <= i /\ i <= n + 1 /\ \A k \in 1 .. n : s[k] \in T OBVIOUS
  <1>2. a \in Seq(T) /\ Len(a) = i - 1 /\ \A k \in 1 .. i - 1 : a[k] = s[k]
    <2> DEFINE h == i - 1
    <2>1. h \in 0 .. n /\ h \in Nat BY <1>1
    <2> HIDE DEF h
    <2>2. SubSeq(s, 1, h) \in Seq(T) /\ Len(SubSeq(s, 1, h)) = h /\ \A k \in 1 .. h : SubSeq(s, 1, h)[k] = s[k]
      BY <1>1, <2>1
    <2> QED BY <2>2 DEF h
  <1>3. b \in Seq(T) /\ Len(b) = n - i + 1 /\ \A k \in 1 .. n - i + 1 : b[k] = s[i + k - 1]
    <2>1. b \in Seq(T) /\ Len(b) = (IF i <= n THEN n - i + 1 ELSE 0)
          /\ \A k \in 1 .. n - i + 1 : b[k] = s[i + k - 1]
      <3>1. i \in Int /\ n \in Int /\ \A k \in i .. n : s[k] \in T BY <1>1
      <3> HIDE DEF n
      <3> QED BY <3>1, SubSeqProperties
    <2>2. (IF i <= n THEN n - i + 1 ELSE 0) = n - i + 1 BY <1>1
    <2> QED BY <2>1, <2>2
  <1>4. t = a \o <<x>> \o b BY DEF InsertAt
  <1> HIDE DEF a, b, t, n
  <1>5. /\ t \in Seq(T) /\ Len(t) = n + 1 /\ t[i] = x
        /\ \A k \in 1 .. n + 1 : t[k] = IF k < i THEN s[k] ELSE IF k = i THEN x ELSE s[k - 1]
    <2>1. <<x>> \in Seq(T) /\ Len(<<x>>) = 1 /\ <<x>>[1] = x OBVIOUS
    <2> DEFINE ax == a \o <<x>>
    <2>2. ax \in Seq(T) /\ Len(ax) = i /\ \A k \in 1 .. i : ax[k] = IF k < i THEN s[k] ELSE x
      BY <1>1, <1>2
    <2>3. t = ax \o b BY <1>4
    <2> HIDE DEF ax
    <2>4. t \in Seq(T) /\ Len(t) = n + 1
      <3>0. ax \in Seq(T) /\ b \in Seq(T) BY <1>3, <2>2
      <3>1. t \in Seq(T) /\ Len(t) = Len(ax) + Len(b) BY <2>3, <3>0
      <3>2. Len(t) = i + (n - i + 1) BY <1>3, <2>2, <3>1
      <3> QED BY <1>1, <3>1, <3>2
    <2>5. \A k \in 1 .. n + 1 : t[k] = IF k <= i THEN ax[k] ELSE b[k - i]
      BY <1>1, <1>3, <2>2, <2>3
    <2>6. \A k \in 1 .. n + 1 : t[k] = IF k < i THEN s[k] ELSE IF k = i THEN x ELSE s[k - 1]
      <3>1. TAKE k \in 1 .. n + 1
      <3>2. CASE k <= i
        <4>1. k \in 1 .. i BY <1>1, <3>2
        <4>2. t[k] = IF k < i THEN s[k] ELSE x BY <2>2, <2>5, <3>2, <4>1
        <4> QED BY <1>1, <3>2, <4>2
      <3>3. CASE ~(k <= i)
        <4>1. k - i \in 1 .. n - i + 1 /\ i + (k - i) - 1 = k - 1 BY <1>1, <3>3
        <4>2. t[k] = s[k - 1] BY <1>3, <2>5, <3>3, <4>1
        <4> QED BY <1>1, <3>3, <4>2
      <3> QED BY <3>2, <3>3
    <2> QED BY <1>1, <2>4, <2>6
  <1>6. ToSet(t) = ToSet(s) \cup {x}
    <2>1. \A y \in ToSet(t) : y \in ToSet(s) \/ y = x
      <3>1. TAKE y \in ToSet(t)
      <3>2. PICK k \in 1 .. n + 1 : t[k] = y BY <1>5, SetOf
      <3>3. CASE k < i
        <4>1. k \in 1 .. n BY <1>1, <3>3
        <4> QED BY <1>5, <3>2, <3>3, <4>1, SetOf DEF n
      <3>4. CASE k > i
        <4>1. k - 1 \in 1 .. n BY <1>1, <3>4
        <4>2. t[k] = s[k - 1] BY <1>1, <1>5, <3>4
        <4> QED BY <3>2, <4>1, <4>2, SetOf DEF n
      <3>5. CASE k = i BY <1>5, <3>2, <3>5
      <3> QED BY <1>1, <3>3, <3>4, <3>5
    <2>2. x \in ToSet(t)
      <3>1. i \in 1 .. Len(t) BY <1>1, <1>5
      <3> QED BY <1>5, <3>1, SetOf
    <2>3. \A y \in ToSet(s) : y \in ToSet(t)
      <3>1. TAKE y \in ToSet(s)
      <3>2. PICK k \in 1 .. n : s[k] = y BY SetOf DEF n
      <3>3. CASE k < i
        <4>1. k \in 1 .. Len(t) /\ t[k] = y BY <1>1, <1>5, <3>2, <3>3
        <4> QED BY <1>5, <4>1, SetOf
      <3>4. CASE ~(k < i)
        <4>1. k + 1 \in 1 .. Len(t) /\ k + 1 \in 1 .. n + 1 /\ ~(k + 1 < i) /\ k + 1 # i /\ (k + 1) - 1 = k
          BY <1>1, <1>5, <3>2, <3>4
        <4>2. t[k + 1] = y BY <1>5, <3>2, <4>1
        <4> QED BY <1>5, <4>1, <4>2, SetOf
      <3> QED BY <3>3, <3>4
    <2> QED BY <2>1, <2>2, <2>3
  <1>7. ASSUME Distinct(s), \A y \in ToSet(s) : y.fat # x.fat PROVE Distinct(t)
    <2>1. \A k \in 1 .. n : s[k].fat # x.fat BY <1>7, SetOf DEF n
    <2>2. \A j, k \in 1 .. n : s[j].fat = s[k].fat => j = k BY <1>7 DEF Distinct, n
    <2> DEFINE Of(k) == IF k < i THEN k ELSE k - 1
    <2>3. \A k \in 1 .. n + 1 : k # i => Of(k) \in 1 .. n /\ t[k] = s[Of(k)] BY <1>1, <1>5
    <2>4. \A j, k \in 1 .. n + 1 : j # i /\ k # i /\ Of(j) = Of(k) => j = k BY <1>1
    <2> HIDE DEF Of
    <2>5. \A j, k \in 1 .. n + 1 : t[j].fat = t[k].fat => j = k
      <3>1. TAKE j, k \in 1 .. n + 1
      <3>2. CASE j # i /\ k # i BY <2>2, <2>3, <2>4, <3>2
      <3>3. CASE j = i /\ k # i BY <1>5, <2>1, <2>3, <3>3
      <3>4. CASE j # i /\ k = i BY <1>5, <2>1, <2>3, <3>4
      <3> QED BY <3>2, <3>3, <3>4
    <2> QED BY <1>5, <2>5 DEF Distinct
  <1> QED BY <1>5, <1>6, <1>7 DEF t

-----------------------------------------------------------------------------
(* Scripts: what is left of the guest's routine, from where it stands.     *)

Passing == {"receive", "hunt", "mark", "id", "size", "high", "data"}
Reading == Passing \cup {"on", "off", "count", "check"}
Doings == Reading \cup {"gap", "sync", "put", "trailer"}
Act == [do : Doings, v : Nat]

\* A script of certain doings; a block's size is read by two accesses.
Within(t, K) ==
    /\ t \in Seq(Act) /\ \A i \in 1 .. Len(t) : t[i].do \in K
    /\ \A i \in 1 .. Len(t) : t[i].do = "size" => i < Len(t) /\ t[i + 1].do = "high"
Run(t, K, m) == \E L : Within(L, K) /\ t = L \o m

\* The stages of a save, from the last.
Finished(t) == Within(t, Reading \cup {"trailer"})
Counting(t) == \E m, c : c \in Nat \ {0} /\ Finished(m) /\ t = <<Put(c)>> \o m
CountMark(t) == \E m : Counting(m) /\ t = <<Put(Mark)>> \o m
Rewound(t) == \E m : CountMark(m) /\ Run(t, {"on", "gap"}, <<Do("sync")>> \o m)
Bodied(t) == \E m : Rewound(m) /\ Run(t, {"put", "trailer"}, <<Do("off")>> \o m)
Headed(t) == \E m : Bodied(m) /\ Run(t, {"trailer", "gap"}, <<Do("sync")>> \o m)
Naming(t, p) == \E m : Headed(m) /\ t = <<Put(HeadCell(p))>> \o m
Heading(t, p, k) == \E L, m : Within(L, {"put"}) /\ Len(L) = k /\ Naming(m, p) /\ t = L \o m
Passed(t, p) == \E m : Heading(m, p, 4) /\ Run(t, Passing \cup {"gap"}, <<Do("sync")>> \o m)

\* The stages of a format.
Wiped(t) == Within(t, {"put", "off"})
Wiping(t) == \E m : Wiped(m) /\ Run(t, {"put", "trailer"}, <<Do("sync")>> \o m)
Erasing(t) == \E m : Wiping(m) /\ Run(t, {"on", "gap"}, <<Do("sync")>> \o m)

LEMMA WithinEmpty == ASSUME NEW K PROVE Within(<<>>, K)
  <1>1. <<>> \in Seq(Act) /\ Len(<<>>) = 0 OBVIOUS
  <1> QED BY <1>1 DEF Within

LEMMA WithinOne == ASSUME NEW K, NEW a \in Act, a.do \in K, a.do # "size" PROVE Within(<<a>>, K)
  <1>1. <<a>> \in Seq(Act) /\ Len(<<a>>) = 1 /\ <<a>>[1] = a OBVIOUS
  <1>2. \A i \in 1 .. 1 : i = 1 OBVIOUS
  <1> QED BY <1>1, <1>2 DEF Within

LEMMA WithinMore == ASSUME NEW t, NEW K, NEW J, K \subseteq J, Within(t, K) PROVE Within(t, J)
  BY DEF Within

LEMMA WithinJoins ==
  ASSUME NEW s, NEW t, NEW K, Within(s, K), Within(t, K)
  PROVE  Within(s \o t, K)
  <1> DEFINE u == s \o t
  <1>1. s \in Seq(Act) /\ t \in Seq(Act) BY DEF Within
  <1>2. /\ u \in Seq(Act) /\ Len(u) = Len(s) + Len(t)
        /\ \A i \in 1 .. Len(s) + Len(t) : u[i] = IF i <= Len(s) THEN s[i] ELSE t[i - Len(s)]
    BY <1>1, ConcatProperties
  <1> HIDE DEF u
  <1>3. Len(s) \in Nat /\ Len(t) \in Nat BY <1>1
  <1>4. ASSUME NEW i \in 1 .. Len(u)
        PROVE u[i].do \in K /\ (u[i].do = "size" => i < Len(u) /\ u[i + 1].do = "high")
    <2>1. CASE i <= Len(s)
      <3>1. i \in 1 .. Len(s) /\ u[i] = s[i] BY <1>2, <1>3, <2>1
      <3>2. s[i].do \in K /\ (s[i].do = "size" => i < Len(s) /\ s[i + 1].do = "high")
        BY <3>1 DEF Within
      <3>3. i < Len(s) => i < Len(u) /\ u[i + 1] = s[i + 1] BY <1>2, <1>3
      <3> QED BY <3>1, <3>2, <3>3
    <2>2. CASE ~(i <= Len(s))
      <3> DEFINE j == i - Len(s)
      <3>1. j \in 1 .. Len(t) /\ u[i] = t[j] BY <1>2, <1>3, <2>2
      <3>2. t[j].do \in K /\ (t[j].do = "size" => j < Len(t) /\ t[j + 1].do = "high")
        <4> HIDE DEF j
        <4> QED BY <3>1 DEF Within
      <3>3. j < Len(t) => i < Len(u) /\ u[i + 1] = t[j + 1]
        <4>1. HAVE j < Len(t)
        <4>2. i + 1 \in 1 .. Len(s) + Len(t) /\ ~(i + 1 <= Len(s)) /\ i + 1 - Len(s) = j + 1 /\ i < Len(u)
          BY <1>2, <1>3, <2>2, <4>1
        <4> HIDE DEF j
        <4> QED BY <1>2, <4>2
      <3> HIDE DEF j
      <3> QED BY <3>1, <3>2, <3>3
    <2> QED BY <2>1, <2>2
  <1>5. Within(u, K) BY <1>2, <1>4 DEF Within
  <1> QED BY <1>5 DEF u

LEMMA WithinPeels ==
  ASSUME NEW t, NEW K, Within(t, K), t # <<>>
  PROVE  /\ Head(t) \in Act /\ Head(t).do \in K /\ Within(Tail(t), K)
         /\ Head(t).do = "size" => Tail(t) # <<>> /\ Head(Tail(t)).do = "high"
  <1>1. t \in Seq(Act) BY DEF Within
  <1>2. /\ Len(t) \in Nat /\ Len(t) >= 1 /\ Head(t) = t[1] /\ Tail(t) \in Seq(Act) /\ Len(Tail(t)) = Len(t) - 1
        /\ \A i \in 1 .. Len(Tail(t)) : Tail(t)[i] = t[i + 1]
    BY <1>1, HeadTailProperties
  <1>3. 1 \in 1 .. Len(t) BY <1>2
  <1>4. Head(t) \in Act /\ Head(t).do \in K BY <1>1, <1>2, <1>3 DEF Within
  <1>5. Within(Tail(t), K)
    <2> DEFINE r == Tail(t)
    <2> HIDE DEF r
    <2>1. r \in Seq(Act) /\ Len(r) = Len(t) - 1 /\ \A i \in 1 .. Len(r) : r[i] = t[i + 1] BY <1>2 DEF r
    <2>2. ASSUME NEW i \in 1 .. Len(r)
          PROVE r[i].do \in K /\ (r[i].do = "size" => i < Len(r) /\ r[i + 1].do = "high")
      <3>1. i + 1 \in 1 .. Len(t) BY <1>2, <2>1
      <3>2. t[i + 1].do \in K /\ (t[i + 1].do = "size" => i + 1 < Len(t) /\ t[i + 1 + 1].do = "high")
        BY <3>1 DEF Within
      <3>3. i + 1 < Len(t) => i < Len(r) /\ r[i + 1] = t[i + 1 + 1] BY <1>2, <2>1
      <3> QED BY <2>1, <3>2, <3>3
    <2>3. Within(r, K) BY <2>1, <2>2 DEF Within
    <2> QED BY <2>3 DEF r
  <1>6. Head(t).do = "size" => Tail(t) # <<>> /\ Head(Tail(t)).do = "high"
    <2>1. HAVE Head(t).do = "size"
    <2>2. 1 < Len(t) /\ t[1 + 1].do = "high" BY <1>2, <1>3, <2>1 DEF Within
    <2>3. Len(Tail(t)) >= 1 /\ Tail(t)[1] = t[2] BY <1>2, <2>2
    <2>4. Tail(t) # <<>> /\ Head(Tail(t)) = Tail(t)[1] BY <1>2, <2>3
    <2> QED BY <2>2, <2>3, <2>4
  <1> QED BY <1>4, <1>5, <1>6

\* A sequence and what follows it, taken apart at the head.
LEMMA Joint ==
  ASSUME NEW T, NEW L \in Seq(T), NEW m \in Seq(T), NEW t, t = L \o m
  PROVE  /\ t \in Seq(T) /\ L = <<>> => t = m
         /\ L # <<>> => t # <<>> /\ Head(t) = Head(L) /\ Tail(t) = Tail(L) \o m
  <1>1. t \in Seq(T) /\ Len(t) = Len(L) + Len(m) /\ Len(L) \in Nat /\ Len(m) \in Nat OBVIOUS
  <1>2. L = <<>> => t = m BY ConcatEmptySeq
  <1>3. ASSUME L # <<>> PROVE t # <<>> /\ Head(t) = Head(L) /\ Tail(t) = Tail(L) \o m
    <2>1. Len(L) >= 1 /\ Head(L) = L[1] BY <1>3
    <2>2. t # <<>> /\ Head(t) = t[1] /\ t[1] = L[1] BY <1>1, <2>1
    <2>3. Head(L) \in T /\ Tail(L) \in Seq(T) /\ <<Head(L)>> \in Seq(T) BY <1>3, HeadTailProperties
    <2>4. L = <<Head(L)>> \o Tail(L) BY <1>3
    <2>5. t = <<Head(L)>> \o (Tail(L) \o m) BY <2>3, <2>4, ConcatAssociative
    <2>6. Tail(L) \o m \in Seq(T) BY <2>3
    <2> DEFINE h == Head(L)
               r == Tail(L) \o m
    <2> HIDE DEF h, r
    <2>7. h \in T /\ r \in Seq(T) /\ t = <<h>> \o r BY <2>3, <2>5, <2>6 DEF h, r
    <2>8. Tail(<<h>> \o r) = r BY <2>7
    <2> QED BY <2>2, <2>1, <2>7, <2>8 DEF r
  <1> QED BY <1>1, <1>2, <1>3

LEMMA OneThen ==
  ASSUME NEW a \in Act, NEW m \in Seq(Act)
  PROVE  /\ <<a>> \o m \in Seq(Act) /\ <<a>> \o m # <<>>
         /\ Head(<<a>> \o m) = a /\ Tail(<<a>> \o m) = m
  <1>1. <<a>> \in Seq(Act) /\ <<a>> # <<>> /\ Head(<<a>>) = a /\ Tail(<<a>>) = <<>> OBVIOUS
  <1>2. <<>> \o m = m BY ConcatEmptySeq
  <1> QED BY <1>1, <1>2, Joint

\* A run ends with what it leads to, or goes on.
LEMMA RunPeels ==
  ASSUME NEW t, NEW K, NEW a \in Act, NEW m \in Seq(Act), Run(t, K, <<a>> \o m)
  PROVE  /\ t \in Seq(Act) /\ t # <<>> /\ Head(t) \in Act
         /\ \/ Head(t) = a /\ Tail(t) = m
            \/ Head(t).do \in K /\ Run(Tail(t), K, <<a>> \o m)
  <1> DEFINE n == <<a>> \o m
  <1>1. n \in Seq(Act) /\ n # <<>> /\ Head(n) = a /\ Tail(n) = m BY OneThen
  <1> HIDE DEF n
  <1>2. PICK L : Within(L, K) /\ t = L \o n BY DEF Run, n
  <1>3. L \in Seq(Act) BY <1>2 DEF Within
  <1>4. CASE L = <<>>
    <2>1. t = n BY <1>1, <1>2, <1>3, <1>4, Joint
    <2> QED BY <1>1, <2>1
  <1>5. CASE L # <<>>
    <2>1. t \in Seq(Act) /\ t # <<>> /\ Head(t) = Head(L) /\ Tail(t) = Tail(L) \o n
      BY <1>1, <1>2, <1>3, <1>5, Joint
    <2>2. Head(L) \in Act /\ Head(L).do \in K /\ Within(Tail(L), K) BY <1>2, <1>5, WithinPeels
    <2>3. Run(Tail(t), K, n) BY <2>1, <2>2 DEF Run
    <2> QED BY <2>1, <2>2, <2>3 DEF n
  <1> QED BY <1>4, <1>5

LEMMA Acts ==
  /\ \A op \in Doings : Do(op) \in Act /\ Do(op).do = op
  /\ \A v \in Nat : Put(v) \in Act /\ Put(v).do = "put" /\ Put(v).v = v
  /\ Mark \in Nat /\ \A p \in Nat : HeadCell(p) \in Nat
  <1>1. "put" \in Doings BY DEF Doings
  <1>2. \A op \in Doings : Do(op) \in Act /\ Do(op).do = op BY DEF Do, Act
  <1>3. \A v \in Nat : Put(v) \in Act /\ Put(v).do = "put" /\ Put(v).v = v BY <1>1 DEF Put, Act
  <1> QED BY <1>2, <1>3 DEF Mark, HeadCell

-----------------------------------------------------------------------------
(* What the next access of each stage is, and where it leads.              *)

LEMMA FinishedPeels ==
  ASSUME NEW t, Finished(t)
  PROVE  /\ t \in Seq(Act)
         /\ t # <<>> => /\ Head(t).do \in Reading \cup {"trailer"} /\ Finished(Tail(t))
                        /\ Head(t).do = "size" => Tail(t) # <<>> /\ Head(Tail(t)).do = "high"
  BY WithinPeels DEF Finished, Within

LEMMA CountingPeels ==
  ASSUME NEW t, Counting(t)
  PROVE  /\ t \in Seq(Act) /\ t # <<>> /\ Head(t).do = "put" /\ Head(t).v \in Nat \ {0}
         /\ Finished(Tail(t))
  <1>1. PICK m, c : c \in Nat \ {0} /\ Finished(m) /\ t = <<Put(c)>> \o m BY DEF Counting
  <1>2. m \in Seq(Act) BY <1>1 DEF Finished, Within
  <1>3. Put(c) \in Act /\ Put(c).do = "put" /\ Put(c).v = c BY <1>1, Acts
  <1> QED BY <1>1, <1>2, <1>3, OneThen

LEMMA CountMarkPeels ==
  ASSUME NEW t, CountMark(t)
  PROVE  t \in Seq(Act) /\ t # <<>> /\ Head(t) = Put(Mark) /\ Counting(Tail(t))
  <1>1. PICK m : Counting(m) /\ t = <<Put(Mark)>> \o m BY DEF CountMark
  <1>2. m \in Seq(Act) /\ Put(Mark) \in Act BY <1>1, CountingPeels, Acts
  <1> QED BY <1>1, <1>2, OneThen

LEMMA RewoundPeels ==
  ASSUME NEW t, Rewound(t)
  PROVE  /\ t \in Seq(Act) /\ t # <<>>
         /\ \/ Head(t).do = "sync" /\ CountMark(Tail(t))
            \/ Head(t).do \in {"on", "gap"} /\ Rewound(Tail(t))
  <1>1. PICK m : CountMark(m) /\ Run(t, {"on", "gap"}, <<Do("sync")>> \o m) BY DEF Rewound
  <1>2. m \in Seq(Act) BY <1>1, CountMarkPeels
  <1>3. Do("sync") \in Act /\ Do("sync").do = "sync" BY Acts DEF Doings
  <1> QED BY <1>1, <1>2, <1>3, RunPeels DEF Rewound

LEMMA BodiedPeels ==
  ASSUME NEW t, Bodied(t)
  PROVE  /\ t \in Seq(Act) /\ t # <<>>
         /\ \/ Head(t).do = "off" /\ Rewound(Tail(t))
            \/ Head(t).do \in {"put", "trailer"} /\ Bodied(Tail(t))
  <1>1. PICK m : Rewound(m) /\ Run(t, {"put", "trailer"}, <<Do("off")>> \o m) BY DEF Bodied
  <1>2. m \in Seq(Act) BY <1>1, RewoundPeels
  <1>3. Do("off") \in Act /\ Do("off").do = "off" BY Acts DEF Doings, Reading
  <1> QED BY <1>1, <1>2, <1>3, RunPeels DEF Bodied

LEMMA HeadedPeels ==
  ASSUME NEW t, Headed(t)
  PROVE  /\ t \in Seq(Act) /\ t # <<>>
         /\ \/ Head(t).do = "sync" /\ Bodied(Tail(t))
            \/ Head(t).do \in {"trailer", "gap"} /\ Headed(Tail(t))
  <1>1. PICK m : Bodied(m) /\ Run(t, {"trailer", "gap"}, <<Do("sync")>> \o m) BY DEF Headed
  <1>2. m \in Seq(Act) BY <1>1, BodiedPeels
  <1>3. Do("sync") \in Act /\ Do("sync").do = "sync" BY Acts DEF Doings
  <1> QED BY <1>1, <1>2, <1>3, RunPeels DEF Headed

LEMMA NamingPeels ==
  ASSUME NEW p \in Nat, NEW t, Naming(t, p)
  PROVE  t \in Seq(Act) /\ t # <<>> /\ Head(t) = Put(HeadCell(p)) /\ Headed(Tail(t))
  <1>1. PICK m : Headed(m) /\ t = <<Put(HeadCell(p))>> \o m BY DEF Naming
  <1>2. m \in Seq(Act) /\ Put(HeadCell(p)) \in Act BY <1>1, HeadedPeels, Acts
  <1> QED BY <1>1, <1>2, OneThen

LEMMA HeadingPeels ==
  ASSUME NEW p \in Nat, NEW k \in Nat, NEW t, Heading(t, p, k)
  PROVE  /\ t \in Seq(Act) /\ t # <<>> /\ Head(t).do = "put"
         /\ IF k = 0 THEN Head(t) = Put(HeadCell(p)) /\ Headed(Tail(t)) ELSE Heading(Tail(t), p, k - 1)
  <1>1. PICK L, m : Within(L, {"put"}) /\ Len(L) = k /\ Naming(m, p) /\ t = L \o m BY DEF Heading
  <1>2. L \in Seq(Act) /\ m \in Seq(Act) BY <1>1, NamingPeels DEF Within
  <1>3. t \in Seq(Act) BY <1>1, <1>2, Joint
  <1>4. CASE k = 0
    <2>1. L = <<>> BY <1>1, <1>2, <1>4
    <2>2. t = m BY <1>1, <1>2, <2>1, Joint
    <2>3. Put(HeadCell(p)).do = "put" BY Acts
    <2> QED BY <1>1, <1>3, <1>4, <2>2, <2>3, NamingPeels
  <1>5. CASE k # 0
    <2>1. L # <<>> BY <1>1, <1>5
    <2>2. t # <<>> /\ Head(t) = Head(L) /\ Tail(t) = Tail(L) \o m BY <1>1, <1>2, <2>1, Joint
    <2>3. Head(L).do \in {"put"} /\ Within(Tail(L), {"put"}) BY <1>1, <2>1, WithinPeels
    <2>4. Len(Tail(L)) = k - 1 BY <1>1, <1>2, <2>1, HeadTailProperties
    <2>5. Heading(Tail(t), p, k - 1) BY <1>1, <2>2, <2>3, <2>4 DEF Heading
    <2> QED BY <1>3, <1>5, <2>2, <2>3, <2>5
  <1> QED BY <1>4, <1>5

LEMMA PassedPeels ==
  ASSUME NEW p \in Nat, NEW t, Passed(t, p)
  PROVE  /\ t \in Seq(Act) /\ t # <<>>
         /\ \/ Head(t).do = "sync" /\ Heading(Tail(t), p, 4)
            \/ Head(t).do \in Passing \cup {"gap"} /\ Passed(Tail(t), p)
  <1>1. PICK m : Heading(m, p, 4) /\ Run(t, Passing \cup {"gap"}, <<Do("sync")>> \o m) BY DEF Passed
  <1>2. m \in Seq(Act) BY <1>1, HeadingPeels
  <1>3. Do("sync") \in Act /\ Do("sync").do = "sync" BY Acts DEF Doings
  <1> DEFINE K == Passing \cup {"gap"}
             n == <<Do("sync")>> \o m
  <1>4. Run(t, K, n) BY <1>1
  <1>5. /\ t \in Seq(Act) /\ t # <<>>
        /\ \/ Head(t) = Do("sync") /\ Tail(t) = m
           \/ Head(t).do \in K /\ Run(Tail(t), K, n)
    <2> HIDE DEF K
    <2> QED BY <1>2, <1>3, <1>4, RunPeels
  <1> QED BY <1>1, <1>3, <1>5 DEF Passed

LEMMA WipingPeels ==
  ASSUME NEW t, Wiping(t)
  PROVE  /\ t \in Seq(Act) /\ t # <<>>
         /\ \/ Head(t).do = "sync" /\ Wiped(Tail(t))
            \/ Head(t).do \in {"put", "trailer"} /\ Wiping(Tail(t))
  <1>1. PICK m : Wiped(m) /\ Run(t, {"put", "trailer"}, <<Do("sync")>> \o m) BY DEF Wiping
  <1>2. m \in Seq(Act) BY <1>1 DEF Wiped, Within
  <1>3. Do("sync") \in Act /\ Do("sync").do = "sync" BY Acts DEF Doings
  <1> QED BY <1>1, <1>2, <1>3, RunPeels DEF Wiping

LEMMA ErasingPeels ==
  ASSUME NEW t, Erasing(t)
  PROVE  /\ t \in Seq(Act) /\ t # <<>>
         /\ \/ Head(t).do = "sync" /\ Wiping(Tail(t))
            \/ Head(t).do \in {"on", "gap"} /\ Erasing(Tail(t))
  <1>1. PICK m : Wiping(m) /\ Run(t, {"on", "gap"}, <<Do("sync")>> \o m) BY DEF Erasing
  <1>2. m \in Seq(Act) BY <1>1, WipingPeels
  <1>3. Do("sync") \in Act /\ Do("sync").do = "sync" BY Acts DEF Doings
  <1> QED BY <1>1, <1>2, <1>3, RunPeels DEF Erasing

LEMMA WipedPeels ==
  ASSUME NEW t, Wiped(t)
  PROVE  t \in Seq(Act) /\ (t # <<>> => Head(t).do \in {"put", "off"} /\ Wiped(Tail(t)))
  BY WithinPeels DEF Wiped, Within

-----------------------------------------------------------------------------
(* The routines the guest starts with.                                     *)

LEMMA RunExtends ==
  ASSUME NEW L, NEW K, Within(L, K), NEW t, NEW m \in Seq(Act), Run(t, K, m)
  PROVE  Run(L \o t, K, m)
  <1>1. PICK J : Within(J, K) /\ t = J \o m BY DEF Run
  <1>2. L \in Seq(Act) /\ J \in Seq(Act) BY <1>1 DEF Within
  <1>3. L \o t = (L \o J) \o m BY <1>1, <1>2, ConcatAssociative
  <1>4. Within(L \o J, K) BY <1>1, WithinJoins
  <1> QED BY <1>3, <1>4 DEF Run

LEMMA RunHere == ASSUME NEW K, NEW m \in Seq(Act) PROVE Run(m, K, m)
  <1>1. m = <<>> \o m BY ConcatEmptySeq
  <1> QED BY <1>1, WithinEmpty DEF Run

Gaps == [i \in 1 .. GapRun |-> Do("gap")]
Puts(payload) == [i \in DOMAIN payload |-> Put(payload[i])]

LEMMA GapsIs == \A K : "gap" \in K => Within(Gaps, K)
  <1>1. Do("gap") \in Act /\ Do("gap").do = "gap" BY Acts DEF Doings
  <1>2. Gaps \in Seq(Act) /\ Len(Gaps) = 3 /\ \A i \in 1 .. 3 : Gaps[i] = Do("gap") BY <1>1 DEF Gaps, GapRun
  <1> QED BY <1>1, <1>2 DEF Within

LEMMA PutsIs ==
  ASSUME NEW payload \in Seq(Nat)
  PROVE  /\ Puts(payload) \in Seq(Act) /\ Len(Puts(payload)) = Len(payload)
         /\ \A i \in 1 .. Len(payload) : Puts(payload)[i] = Put(payload[i])
         /\ \A K : "put" \in K => Within(Puts(payload), K)
  <1>1. Len(payload) \in Nat /\ DOMAIN payload = 1 .. Len(payload) /\ \A i \in 1 .. Len(payload) : payload[i] \in Nat
    OBVIOUS
  <1>2. Puts(payload) = [i \in 1 .. Len(payload) |-> Put(payload[i])] BY <1>1 DEF Puts
  <1>3. \A i \in 1 .. Len(payload) : Put(payload[i]) \in Act /\ Put(payload[i]).do = "put" BY <1>1, Acts
  <1>4. /\ Puts(payload) \in Seq(Act) /\ Len(Puts(payload)) = Len(payload)
        /\ \A i \in 1 .. Len(payload) : Puts(payload)[i] = Put(payload[i])
    BY <1>1, <1>2, <1>3
  <1>5. \A K : "put" \in K => Within(Puts(payload), K) BY <1>3, <1>4 DEF Within
  <1> QED BY <1>4, <1>5

LEMMA Associates ==
  ASSUME NEW a \in Seq(Act), NEW b \in Seq(Act), NEW c \in Seq(Act)
  PROVE  (a \o b) \o c = a \o (b \o c) /\ a \o b \in Seq(Act)
  BY ConcatAssociative

\* A block that is written, and what follows it.
LEMMA BlockThen ==
  ASSUME NEW payload \in Seq(Nat), NEW m \in Seq(Act)
  PROVE  /\ WriteBlock(payload) \in Seq(Act)
         /\ WriteBlock(payload) \o m =
               Gaps \o (<<Do("sync")>> \o (<<Put(Mark)>> \o (Puts(payload) \o (<<Do("trailer")>> \o m))))
  <1> DEFINE g == Gaps
             s == <<Do("sync")>>
             k == <<Put(Mark)>>
             p == Puts(payload)
             r == <<Do("trailer")>>
             sk == <<Do("sync"), Put(Mark)>>
  <1>1. Do("sync") \in Act /\ Put(Mark) \in Act /\ Do("trailer") \in Act BY Acts DEF Doings
  <1>2. s \in Seq(Act) /\ k \in Seq(Act) /\ r \in Seq(Act) /\ sk \in Seq(Act) /\ sk = s \o k BY <1>1
  <1>3. "gap" \in {"gap"} OBVIOUS
  <1>4. g \in Seq(Act) BY <1>3, GapsIs DEF Within
  <1>5. p \in Seq(Act) BY PutsIs
  <1>6. WriteBlock(payload) = ((g \o sk) \o p) \o r BY DEF WriteBlock, Gaps, Puts
  <1> HIDE DEF g, s, k, p, r, sk
  <1>7. g \o sk \in Seq(Act) /\ (g \o sk) \o p \in Seq(Act) BY <1>2, <1>4, <1>5, Associates
  <1>8. WriteBlock(payload) \in Seq(Act) BY <1>2, <1>6, <1>7, Associates
  <1>9. r \o m \in Seq(Act) /\ p \o (r \o m) \in Seq(Act) /\ k \o (p \o (r \o m)) \in Seq(Act)
    BY <1>2, <1>5, Associates
  <1> DEFINE rm == r \o m
             prm == p \o rm
             gs == g \o sk
             gsp == gs \o p
  <1>15. gs \in Seq(Act) /\ gsp \in Seq(Act) /\ rm \in Seq(Act) /\ prm \in Seq(Act) BY <1>7, <1>9
  <1>10. (gsp \o r) \o m = gsp \o rm
    <2>1. gsp \in Seq(Act) /\ r \in Seq(Act) BY <1>2, <1>15
    <2> HIDE DEF gsp
    <2> QED BY <2>1, ConcatAssociative
  <1>11. gsp \o rm = gs \o prm
    <2> HIDE DEF gs, rm
    <2> QED BY <1>5, <1>15, ConcatAssociative
  <1>12. gs \o prm = g \o (sk \o prm)
    <2> HIDE DEF prm
    <2> QED BY <1>2, <1>4, <1>9, Associates DEF prm
  <1>13. sk \o prm = s \o (k \o prm)
    <2> HIDE DEF prm
    <2>1. prm \in Seq(Act) BY <1>9 DEF prm
    <2>2. (s \o k) \o prm = s \o (k \o prm) BY <1>2, <2>1, Associates
    <2> QED BY <1>2, <2>2
  <1>14. WriteBlock(payload) \o m = g \o (s \o (k \o (p \o (r \o m)))) BY <1>6, <1>10, <1>11, <1>12, <1>13
  <1> QED BY <1>8, <1>14 DEF g, s, k, p, r

LEMMA BlocksPass == \A n \in Nat : Within(Blocks(n), Passing)
  <1> DEFINE C == {t \in Seq(Act) : Within(t, Passing)}
  <1>1. SUFFICES ASSUME NEW n \in Nat PROVE Within(Blocks(n), Passing) OBVIOUS
  <1>2. ReadBlock \in C
    <2>1. \A op \in Passing : Do(op) \in Act /\ Do(op).do = op BY Acts DEF Doings, Reading
    <2>2. /\ Do("receive") \in Act /\ Do("hunt") \in Act /\ Do("mark") \in Act /\ Do("id") \in Act
          /\ Do("size") \in Act /\ Do("high") \in Act
      BY <2>1 DEF Passing
    <2>3. /\ Do("receive").do = "receive" /\ Do("hunt").do = "hunt" /\ Do("mark").do = "mark"
          /\ Do("id").do = "id" /\ Do("size").do = "size" /\ Do("high").do = "high"
      BY <2>1 DEF Passing
    <2> DEFINE t == ReadBlock
    <2>4. /\ t \in Seq(Act) /\ Len(t) = 6
          /\ t[1] = Do("receive") /\ t[2] = Do("hunt") /\ t[3] = Do("mark") /\ t[4] = Do("id")
          /\ t[5] = Do("size") /\ t[6] = Do("high")
      BY <2>2 DEF ReadBlock
    <2> HIDE DEF t
    <2>5. \A i \in 1 .. 6 : i = 1 \/ i = 2 \/ i = 3 \/ i = 4 \/ i = 5 \/ i = 6 OBVIOUS
    <2>6. \A i \in 1 .. 6 : t[i].do \in Passing BY <2>3, <2>4, <2>5 DEF Passing
    <2>7. \A i \in 1 .. 6 : t[i].do = "size" => i < 6 /\ t[i + 1].do = "high" BY <2>3, <2>4, <2>5
    <2>8. Within(t, Passing) BY <2>4, <2>6, <2>7 DEF Within
    <2> QED BY <2>4, <2>8 DEF t
  <1>3. <<>> \in C
    <2>1. <<>> \in Seq(Act) OBVIOUS
    <2> QED BY <2>1, WithinEmpty
  <1>4. \A a, b \in C : a \o b \in C BY WithinJoins
  <1> DEFINE seqs == [i \in 1 .. n |-> ReadBlock]
  <1>5. Len(seqs) = n /\ (n = 0 => seqs = <<>>) /\ \A i \in 1 .. n : seqs[i] \in C
    <2> HIDE DEF C
    <2> QED BY <1>2
  <1>6. FlattenSeq(seqs) \in C
    <2> HIDE DEF C, seqs
    <2> QED BY <1>3, <1>4, <1>5, FlattenIn
  <1> QED BY <1>6 DEF Blocks

LEMMA Singles == /\ \A op \in Doings : <<Do(op)>> \in Seq(Act)
                 /\ \A v \in Nat : <<Put(v)>> \in Seq(Act)
                 /\ \A op \in Doings : \A K : op \in K /\ op # "size" => Within(<<Do(op)>>, K)
                 /\ \A v \in Nat : \A K : "put" \in K => Within(<<Put(v)>>, K)
  <1>1. \A op \in Doings : <<Do(op)>> \in Seq(Act) BY Acts
  <1>2. \A v \in Nat : <<Put(v)>> \in Seq(Act) BY Acts
  <1>3. \A op \in Doings : \A K : op \in K /\ op # "size" => Within(<<Do(op)>>, K) BY Acts, WithinOne
  <1>4. \A v \in Nat : \A K : "put" \in K => Within(<<Put(v)>>, K) BY Acts, WithinOne
  <1> QED BY <1>1, <1>2, <1>3, <1>4

\* The count is rewritten, and then everything is read again.
LEMMA RewindStarts ==
  ASSUME NEW c \in Nat \ {0}, NEW q, Finished(q)
  PROVE  Rewound(<<Do("on")>> \o (WriteBlock(<<c>>) \o q)) /\ WriteBlock(<<c>>) \o q \in Seq(Act)
  <1> DEFINE rest == <<Do("trailer")>> \o q
             puts == <<Put(c)>> \o rest
             marks == <<Put(Mark)>> \o puts
             block == <<Do("sync")>> \o marks
             K == {"on", "gap"}
  <1>1. q \in Seq(Act) BY FinishedPeels
  <1>2. Finished(rest)
    <2>1. Within(<<Do("trailer")>>, Reading \cup {"trailer"}) BY Singles DEF Doings
    <2> QED BY <2>1, WithinJoins DEF Finished
  <1> HIDE DEF rest
  <1>3. Counting(puts) BY <1>2 DEF Counting
  <1> HIDE DEF puts
  <1>4. CountMark(marks) BY <1>3 DEF CountMark
  <1> HIDE DEF marks
  <1>5. marks \in Seq(Act) BY <1>4, CountMarkPeels
  <1>6. block \in Seq(Act)
    <2>1. <<Do("sync")>> \in Seq(Act) BY Singles DEF Doings
    <2> QED BY <1>5, <2>1
  <1>7. <<c>> \in Seq(Nat) /\ Puts(<<c>>) = <<Put(c)>>
    <2>1. <<c>> \in Seq(Nat) /\ Len(<<c>>) = 1 /\ <<c>>[1] = c /\ DOMAIN <<c>> = 1 .. 1 OBVIOUS
    <2>2. Puts(<<c>>) = [i \in 1 .. 1 |-> Put(<<c>>[i])] BY <2>1 DEF Puts
    <2>3. [i \in 1 .. 1 |-> Put(<<c>>[i])] = <<Put(c)>> BY <2>1
    <2> QED BY <2>1, <2>2, <2>3
  <1>8. WriteBlock(<<c>>) \o q = Gaps \o block BY <1>1, <1>7, BlockThen DEF block, marks, puts, rest
  <1>9. Within(Gaps, K) BY GapsIs
  <1>10. Within(<<Do("on")>>, K) BY Singles DEF Doings, Reading
  <1> DEFINE after == Gaps \o block
  <1>11. Run(after, K, block)
    <2> HIDE DEF K, block
    <2> QED BY <1>6, <1>9, RunHere, RunExtends
  <1>12. after \in Seq(Act)
    <2>1. Gaps \in Seq(Act) BY <1>9 DEF Within
    <2> HIDE DEF block
    <2> QED BY <1>6, <2>1
  <1> HIDE DEF after
  <1>13. Run(<<Do("on")>> \o after, K, block)
    <2> HIDE DEF K, block
    <2> QED BY <1>6, <1>10, <1>11, RunExtends
  <1>14. Rewound(<<Do("on")>> \o after) BY <1>4, <1>13 DEF Rewound
  <1> QED BY <1>8, <1>12, <1>14 DEF after

\* The block with the body, up to where the motor is switched off.
LEMMA BodyStarts ==
  ASSUME NEW payload \in Seq(Nat), NEW m, Rewound(m)
  PROVE  \E y : /\ Bodied(y) /\ y \in Seq(Act)
                /\ WriteBlock(payload) \o (<<Do("off")>> \o m) = Gaps \o (<<Do("sync")>> \o y)
  <1> DEFINE off == <<Do("off")>> \o m
             rest == <<Do("trailer")>> \o off
             puts == Puts(payload) \o rest
             y == <<Put(Mark)>> \o puts
             K == {"put", "trailer"}
  <1>1. m \in Seq(Act) BY RewoundPeels
  <1>2. off \in Seq(Act)
    <2>1. <<Do("off")>> \in Seq(Act) BY Singles DEF Doings, Reading
    <2> QED BY <1>1, <2>1
  <1>3. Within(<<Do("trailer")>>, K) /\ Within(Puts(payload), K) /\ Within(<<Put(Mark)>>, K)
    <2>1. Mark \in Nat BY Acts
    <2> QED BY <2>1, Singles, PutsIs DEF Doings
  <1>4. WriteBlock(payload) \o off = Gaps \o (<<Do("sync")>> \o y)
    <2> HIDE DEF off
    <2> QED BY <1>2, BlockThen
  <1>5. Run(y, K, off)
    <2> HIDE DEF K, off
    <2>1. Run(off, K, off) BY <1>2, RunHere
    <2>2. Run(rest, K, off) BY <1>2, <1>3, <2>1, RunExtends
    <2> HIDE DEF rest
    <2>3. Run(puts, K, off) BY <1>2, <1>3, <2>2, RunExtends
    <2> HIDE DEF puts
    <2> QED BY <1>2, <1>3, <2>3, RunExtends
  <1>6. Bodied(y)
    <2> HIDE DEF y
    <2> QED BY <1>5 DEF Bodied
  <1>7. y \in Seq(Act)
    <2> HIDE DEF y
    <2> QED BY <1>6, BodiedPeels
  <1> HIDE DEF y
  <1> QED BY <1>4, <1>6, <1>7

\* The block with the header, up to the next.
LEMMA HeaderStarts ==
  ASSUME NEW p \in Nat, NEW y, Bodied(y)
  PROVE  \E x : /\ Heading(x, p, 4) /\ x \in Seq(Act)
                /\ WriteBlock(<<0, HeaderSize, 0, HeadCell(p)>>) \o (Gaps \o (<<Do("sync")>> \o y)) =
                      Gaps \o (<<Do("sync")>> \o x)
  <1> DEFINE sync == <<Do("sync")>> \o y
             gaps == Gaps \o sync
             rest == <<Do("trailer")>> \o gaps
             name == <<Put(HeadCell(p))>> \o rest
             payload == <<0, HeaderSize, 0, HeadCell(p)>>
             first == <<Put(Mark), Put(0), Put(HeaderSize), Put(0)>>
             K == {"trailer", "gap"}
  <1>1. y \in Seq(Act) BY BodiedPeels
  <1>2. sync \in Seq(Act)
    <2>1. <<Do("sync")>> \in Seq(Act) BY Singles DEF Doings
    <2> QED BY <1>1, <2>1
  <1>3. Run(rest, K, sync)
    <2>1. Within(Gaps, K) /\ Within(<<Do("trailer")>>, K) BY Singles, GapsIs DEF Doings
    <2> HIDE DEF K, sync
    <2>2. Run(gaps, K, sync) BY <1>2, <2>1, RunHere, RunExtends
    <2> HIDE DEF gaps
    <2> QED BY <1>2, <2>1, <2>2, RunExtends
  <1>4. Headed(rest)
    <2> HIDE DEF rest
    <2> QED BY <1>3 DEF Headed
  <1>5. gaps \in Seq(Act)
    <2>1. "gap" \in {"gap"} OBVIOUS
    <2>2. Gaps \in Seq(Act) BY <2>1, GapsIs DEF Within
    <2> HIDE DEF sync
    <2> QED BY <1>2, <2>2
  <1> HIDE DEF gaps
  <1>6. 0 \in Nat /\ HeaderSize \in Nat /\ HeadCell(p) \in Nat /\ Mark \in Nat BY Acts DEF HeaderSize
  <1>7. payload \in Seq(Nat) BY <1>6
  <1>8. WriteBlock(payload) \o gaps = Gaps \o (<<Do("sync")>> \o (<<Put(Mark)>> \o (Puts(payload) \o rest)))
    <2> HIDE DEF payload
    <2> QED BY <1>5, <1>7, BlockThen
  <1>9. Puts(payload) = <<Put(0), Put(HeaderSize), Put(0)>> \o <<Put(HeadCell(p))>>
    <2> DEFINE a == Put(0)
               b == Put(HeaderSize)
               c == Put(HeadCell(p))
    <2>1. a \in Act /\ b \in Act /\ c \in Act BY <1>6, Acts
    <2>2. Len(payload) = 4 /\ payload[1] = 0 /\ payload[2] = HeaderSize /\ payload[3] = 0 /\ payload[4] = HeadCell(p)
      OBVIOUS
    <2> HIDE DEF payload
    <2>3. /\ Puts(payload) \in Seq(Act) /\ Len(Puts(payload)) = 4
          /\ \A i \in 1 .. 4 : Puts(payload)[i] = Put(payload[i])
      BY <1>7, <2>2, PutsIs
    <2>4. /\ Puts(payload)[1] = a /\ Puts(payload)[2] = b /\ Puts(payload)[3] = a /\ Puts(payload)[4] = c
      BY <2>2, <2>3
    <2> DEFINE l == Puts(payload)
               r == <<a, b, a>> \o <<c>>
    <2> HIDE DEF a, b, c, l
    <2>5. r \in Seq(Act) /\ Len(r) = 4 /\ r[1] = a /\ r[2] = b /\ r[3] = a /\ r[4] = c BY <2>1
    <2>6. l \in Seq(Act) /\ Len(l) = 4 /\ l[1] = a /\ l[2] = b /\ l[3] = a /\ l[4] = c BY <2>3, <2>4 DEF l
    <2> HIDE DEF r
    <2>7. \A i \in 1 .. 4 : i = 1 \/ i = 2 \/ i = 3 \/ i = 4 OBVIOUS
    <2>8. \A i \in 1 .. Len(l) : l[i] = r[i] BY <2>5, <2>6, <2>7
    <2>9. l = r BY <2>5, <2>6, <2>8, SeqEqual
    <2> QED BY <2>9 DEF l, r, a, b, c
  <1>10. rest \in Seq(Act)
    <2> HIDE DEF rest
    <2> QED BY <1>4, HeadedPeels
  <1> HIDE DEF rest
  <1>11. <<Put(Mark)>> \o (Puts(payload) \o rest) = first \o name
    <2> DEFINE a == Put(0)
               b == Put(HeaderSize)
               c == Put(HeadCell(p))
               d == Put(Mark)
    <2>1. a \in Act /\ b \in Act /\ c \in Act /\ d \in Act BY <1>6, Acts
    <2> HIDE DEF a, b, c, d
    <2>2. <<a, b, a>> \in Seq(Act) /\ <<c>> \in Seq(Act) /\ <<d>> \in Seq(Act) BY <2>1
    <2>3. (<<a, b, a>> \o <<c>>) \o rest = <<a, b, a>> \o (<<c>> \o rest) BY <1>10, <2>2, ConcatAssociative
    <2>4. <<c>> \o rest \in Seq(Act) BY <1>10, <2>2
    <2>5. (<<d>> \o <<a, b, a>>) \o (<<c>> \o rest) = <<d>> \o (<<a, b, a>> \o (<<c>> \o rest))
      BY <2>2, <2>4, ConcatAssociative
    <2>6. <<d>> \o <<a, b, a>> = <<d, a, b, a>>
      <3> DEFINE l == <<d>> \o <<a, b, a>>
                 r == <<d, a, b, a>>
      <3>3. r \in Seq(Act) /\ Len(r) = 4 /\ r[1] = d /\ r[2] = a /\ r[3] = b /\ r[4] = a BY <2>1
      <3>5. l \in Seq(Act) /\ Len(l) = 4 BY <2>1
      <3>6. l[1] = d /\ l[2] = a /\ l[3] = b /\ l[4] = a BY <2>1
      <3> HIDE DEF l, r
      <3>7. \A i \in 1 .. 4 : i = 1 \/ i = 2 \/ i = 3 \/ i = 4 OBVIOUS
      <3>8. \A i \in 1 .. Len(l) : l[i] = r[i] BY <3>3, <3>5, <3>6, <3>7
      <3>9. l = r BY <3>3, <3>5, <3>8, SeqEqual
      <3> QED BY <3>9 DEF l, r
    <2>7. <<d>> \o ((<<a, b, a>> \o <<c>>) \o rest) = <<d, a, b, a>> \o (<<c>> \o rest) BY <2>3, <2>5, <2>6
    <2> QED BY <1>9, <2>7 DEF a, b, c, d
  <1> DEFINE x == first \o name
  <1>12. Within(first, {"put"}) /\ Len(first) = 4
    <2>1. /\ Within(<<Put(Mark)>>, {"put"}) /\ Within(<<Put(0)>>, {"put"}) /\ Within(<<Put(HeaderSize)>>, {"put"})
      BY <1>6, Singles
    <2>2. first = ((<<Put(Mark)>> \o <<Put(0)>>) \o <<Put(HeaderSize)>>) \o <<Put(0)>> OBVIOUS
    <2>3. Within(((<<Put(Mark)>> \o <<Put(0)>>) \o <<Put(HeaderSize)>>) \o <<Put(0)>>, {"put"}) BY <2>1, WithinJoins
    <2> QED BY <2>2, <2>3
  <1>13. Naming(name, p) BY <1>4, <1>10 DEF Naming
  <1> HIDE DEF first, name
  <1>14. Heading(x, p, 4) BY <1>12, <1>13 DEF Heading
  <1> HIDE DEF x
  <1>15. x \in Seq(Act) BY <1>14, HeadingPeels
  <1>16. WriteBlock(payload) \o gaps = Gaps \o (<<Do("sync")>> \o x) BY <1>8, <1>11 DEF x
  <1> QED BY <1>14, <1>15, <1>16 DEF gaps

LEMMA Endings ==
  /\ \A n \in Nat : Finished(Blocks(n) \o Check) /\ Finished(Blocks(n) \o <<Do("off")>>)
  /\ Finished(Opening) /\ Finished(<<Do("off")>>) /\ Finished(<<>>)
  <1> DEFINE K == Reading \cup {"trailer"}
  <1>1. \A op \in Reading \ {"size"} : Within(<<Do(op)>>, K) BY Singles DEF Doings
  <1>2. Within(<<Do("off")>>, K) /\ Within(<<Do("check")>>, K) /\ Within(<<Do("on")>>, K)
    BY <1>1 DEF Reading
  <1>3. Within(<<Do("hunt")>>, K) /\ Within(<<Do("mark")>>, K) /\ Within(<<Do("count")>>, K)
    BY <1>1 DEF Reading, Passing
  <1>4. Within(<<>>, K) BY WithinEmpty
  <1>5. \A n \in Nat : Within(Blocks(n), K)
    <2>1. Passing \subseteq K BY DEF Reading
    <2> HIDE DEF K
    <2> QED BY <2>1, BlocksPass, WithinMore
  <1> DEFINE on == <<Do("on")>>
             hunt == <<Do("hunt")>>
             mark == <<Do("mark")>>
             count == <<Do("count")>>
             check == <<Do("check")>>
             off == <<Do("off")>>
  <1>6. Check = check \o off BY DEF Check
  <1>7. Opening = ((on \o hunt) \o mark) \o count BY DEF Opening
  <1> HIDE DEF K, on, hunt, mark, count, check, off
  <1>8. Within(on, K) /\ Within(hunt, K) /\ Within(mark, K) /\ Within(count, K) /\ Within(check, K) /\ Within(off, K)
    BY <1>2, <1>3 DEF on, hunt, mark, count, check, off
  <1>9. Within(Check, K) BY <1>6, <1>8, WithinJoins
  <1>10. Within(on \o hunt, K) BY <1>8, WithinJoins
  <1>11. Within((on \o hunt) \o mark, K) BY <1>8, <1>10, WithinJoins
  <1>12. Within(Opening, K) BY <1>7, <1>8, <1>11, WithinJoins
  <1>13. \A n \in Nat : Within(Blocks(n) \o Check, K) /\ Within(Blocks(n) \o off, K)
    BY <1>5, <1>8, <1>9, WithinJoins
  <1> QED BY <1>4, <1>8, <1>12, <1>13 DEF Finished, K, off

Scripts == Seq(Act)
Cat(s, t) == s \o t
AsWritten(a, b, c, d, e, f, g) == Cat(Cat(Cat(Cat(Cat(a, b), Cat(c, d)), e), f), g)
AsDone(a, b, c, d, e, f, g) == Cat(a, Cat(b, Cat(c, Cat(d, Cat(e, Cat(f, g))))))
Written(a, b, c, d, e, f, g) ==
    a \in Scripts /\ b \in Scripts /\ c \in Scripts /\ d \in Scripts /\ e \in Scripts /\ f \in Scripts /\ g \in Scripts

LEMMA SevenJoined ==
  ASSUME NEW a, NEW b, NEW c, NEW d, NEW e, NEW f, NEW g, Written(a, b, c, d, e, f, g)
  PROVE  AsWritten(a, b, c, d, e, f, g) = AsDone(a, b, c, d, e, f, g)
  <1>0. a \in Scripts /\ b \in Scripts /\ c \in Scripts /\ d \in Scripts /\ e \in Scripts /\ f \in Scripts /\ g \in Scripts
    BY DEF Written
  <1>1. ASSUME NEW x \in Scripts, NEW y \in Scripts, NEW z \in Scripts
        PROVE  Cat(Cat(x, y), z) = Cat(x, Cat(y, z)) /\ Cat(x, y) \in Scripts
    BY Associates DEF Scripts, Cat
  <1>2. Cat(a, b) \in Scripts /\ Cat(c, d) \in Scripts /\ Cat(f, g) \in Scripts BY <1>0, <1>1
  <1>3. Cat(Cat(a, b), Cat(c, d)) \in Scripts /\ Cat(e, Cat(f, g)) \in Scripts BY <1>0, <1>1, <1>2
  <1>4. Cat(d, Cat(e, Cat(f, g))) \in Scripts BY <1>0, <1>1, <1>3
  <1>5. Cat(c, Cat(d, Cat(e, Cat(f, g)))) \in Scripts BY <1>0, <1>1, <1>4
  <1>6. Cat(Cat(Cat(a, b), Cat(c, d)), e) \in Scripts BY <1>0, <1>1, <1>3
  <1>7. Cat(Cat(Cat(Cat(Cat(a, b), Cat(c, d)), e), f), g) = Cat(Cat(Cat(Cat(a, b), Cat(c, d)), e), Cat(f, g))
    BY <1>0, <1>1, <1>6
  <1>8. Cat(Cat(Cat(Cat(a, b), Cat(c, d)), e), Cat(f, g)) = Cat(Cat(Cat(a, b), Cat(c, d)), Cat(e, Cat(f, g)))
    BY <1>0, <1>1, <1>2, <1>3
  <1>9. Cat(Cat(Cat(a, b), Cat(c, d)), Cat(e, Cat(f, g))) = Cat(Cat(a, b), Cat(Cat(c, d), Cat(e, Cat(f, g))))
    BY <1>0, <1>1, <1>2, <1>3
  <1>10. Cat(Cat(c, d), Cat(e, Cat(f, g))) = Cat(c, Cat(d, Cat(e, Cat(f, g)))) BY <1>0, <1>1, <1>3
  <1>11. Cat(Cat(a, b), Cat(c, Cat(d, Cat(e, Cat(f, g))))) = Cat(a, Cat(b, Cat(c, Cat(d, Cat(e, Cat(f, g))))))
    BY <1>0, <1>1, <1>5
  <1> QED BY <1>7, <1>8, <1>9, <1>10, <1>11 DEF AsWritten, AsDone

\* A save, after whatever the guest has still to pass.
LEMMA SavingStarts ==
  ASSUME NEW p \in DOMAIN Programs, NEW n \in Nat, n + 2 < Byte, NEW R, Within(R, Passing)
  PROVE  Passed(R \o Saving(p, n), p)
  <1> DEFINE c == (n + 2) % Byte
             q == Blocks(c) \o Check
             w3 == WriteBlock(<<c>>)
             m == <<Do("on")>> \o (w3 \o q)
             body == <<BodyId, Len(Programs[p].body), 0>> \o Programs[p].body
             w2 == WriteBlock(body)
             w1 == WriteBlock(<<0, HeaderSize, 0, HeadCell(p)>>)
             blocks == Blocks(c)
  <1>1. c = n + 2 /\ c \in Nat \ {0}
    <2>1. \A k, b \in Nat : k < b => k % b = k OBVIOUS
    <2>2. n + 2 \in Nat /\ Byte \in Nat BY Numbers
    <2> QED BY <2>1, <2>2
  <1>2. p \in Nat /\ body \in Seq(Nat)
    <2>1. p \in Nat /\ Programs[p].body \in Seq(Nat) BY Numbers
    <2>2. <<BodyId, Len(Programs[p].body), 0>> \in Seq(Nat) BY <2>1 DEF BodyId
    <2> QED BY <2>1, <2>2
  <1> HIDE DEF c, body
  <1>3. Finished(q) BY <1>1, Endings
  <1> HIDE DEF q
  <1>4. Rewound(m) BY <1>1, <1>3, RewindStarts
  <1> HIDE DEF m
  <1>5. PICK y : /\ Bodied(y) /\ y \in Seq(Act)
                 /\ w2 \o (<<Do("off")>> \o m) = Gaps \o (<<Do("sync")>> \o y)
    BY <1>2, <1>4, BodyStarts
  <1>6. PICK x : /\ Heading(x, p, 4) /\ x \in Seq(Act)
                 /\ w1 \o (Gaps \o (<<Do("sync")>> \o y)) = Gaps \o (<<Do("sync")>> \o x)
    BY <1>2, <1>5, HeaderStarts
  <1>7. <<0, HeaderSize, 0, HeadCell(p)>> \in Seq(Nat) /\ <<c>> \in Seq(Nat)
    <2>1. 0 \in Nat /\ HeaderSize \in Nat /\ HeadCell(p) \in Nat /\ c \in Nat
      BY <1>1, <1>2 DEF HeaderSize, HeadCell
    <2> QED BY <2>1
  <1>8. <<>> \in Seq(Act) OBVIOUS
  <1>9. w1 \in Seq(Act) /\ w2 \in Seq(Act) /\ w3 \in Seq(Act)
    <2> HIDE DEF w1, w2, w3
    <2> QED BY <1>2, <1>7, <1>8, BlockThen DEF w1, w2, w3
  <1>10. blocks \in Seq(Act) /\ Check \in Seq(Act)
    <2>1. blocks \in Seq(Act) BY <1>1, BlocksPass DEF Within
    <2>2. Do("check") \in Act /\ Do("off") \in Act BY Acts DEF Doings, Reading
    <2> QED BY <2>1, <2>2 DEF Check
  <1>11. <<Do("off")>> \in Seq(Act) /\ <<Do("on")>> \in Seq(Act) BY Singles DEF Doings, Reading
  <1>12. Saving(p, n) = w1 \o (w2 \o (<<Do("off")>> \o m))
    <2> DEFINE off == <<Do("off")>>
               on == <<Do("on")>>
    <2>1. <<Do("off"), Do("on")>> = off \o on OBVIOUS
    <2>2. Saving(p, n) = (((((w1 \o w2) \o (off \o on)) \o w3) \o blocks) \o Check)
      BY <2>1 DEF Saving, c, body
    <2>3. m = on \o (w3 \o (blocks \o Check)) BY DEF m, q
    <2>4. off \in Seq(Act) /\ on \in Seq(Act) BY <1>11
    <2> HIDE DEF off, on, w1, w2, w3, blocks
    <2>5. Written(w1, w2, off, on, w3, blocks, Check) BY <1>9, <1>10, <2>4 DEF Scripts, Written
    <2>6. AsWritten(w1, w2, off, on, w3, blocks, Check) = AsDone(w1, w2, off, on, w3, blocks, Check)
      BY <2>5, SevenJoined
    <2>7. Saving(p, n) = w1 \o (w2 \o (off \o (on \o (w3 \o (blocks \o Check)))))
      BY <2>2, <2>6 DEF Cat, AsWritten, AsDone
    <2> QED BY <2>3, <2>7 DEF off, w1, w2
  <1>13. Saving(p, n) = Gaps \o (<<Do("sync")>> \o x) BY <1>5, <1>6, <1>12
  <1> DEFINE sync == <<Do("sync")>> \o x
             K == Passing \cup {"gap"}
  <1>14. sync \in Seq(Act)
    <2>1. <<Do("sync")>> \in Seq(Act) BY Singles DEF Doings
    <2> QED BY <1>6, <2>1
  <1>15. Within(Gaps, K) /\ Within(R, K)
    <2>1. Within(Gaps, K) BY GapsIs
    <2>2. Within(R, K) BY WithinMore
    <2> QED BY <2>1, <2>2
  <1>16. Run(R \o Saving(p, n), K, sync)
    <2> HIDE DEF K, sync
    <2>1. Run(sync, K, sync) BY <1>14, RunHere
    <2>2. Run(Gaps \o sync, K, sync) BY <1>14, <1>15, <2>1, RunExtends
    <2>3. Saving(p, n) = Gaps \o sync BY <1>13 DEF sync
    <2> QED BY <1>14, <1>15, <2>2, <2>3, RunExtends
  <1> DEFINE z == R \o Saving(p, n)
  <1>17. Run(z, K, sync) BY <1>16
  <1> HIDE DEF z
  <1>18. Passed(z, p) BY <1>6, <1>17 DEF Passed
  <1> QED BY <1>18 DEF z

LEMMA DataPass == \A n \in Nat : Within([i \in 1 .. n |-> Do("data")], Passing)
  <1>1. SUFFICES ASSUME NEW n \in Nat PROVE Within([i \in 1 .. n |-> Do("data")], Passing) OBVIOUS
  <1>2. Do("data") \in Act /\ Do("data").do = "data" BY Acts DEF Doings, Reading, Passing
  <1> DEFINE d == [i \in 1 .. n |-> Do("data")]
  <1>3. d \in Seq(Act) /\ Len(d) = n /\ \A i \in 1 .. n : d[i] = Do("data") BY <1>2
  <1> HIDE DEF d
  <1>4. Within(d, Passing) BY <1>2, <1>3 DEF Within, Passing
  <1> QED BY <1>4 DEF d

\* A guest that has read the low byte of a block's size: what the script becomes.
Reads(t, n) == <<Head(Tail(t))>> \o [i \in 1 .. n |-> Do("data")] \o Tail(Tail(t))

LEMMA FinishedReads ==
  ASSUME NEW t, Finished(t), t # <<>>, Head(t).do = "size", NEW n \in Nat
  PROVE  Finished(Reads(t, n))
  <1> DEFINE h == Head(Tail(t))
             D == [i \in 1 .. n |-> Do("data")]
             K == Reading \cup {"trailer"}
  <1>1. Finished(Tail(t)) /\ Tail(t) # <<>> /\ h.do = "high" BY FinishedPeels
  <1>2. Within(Tail(Tail(t)), K) /\ h \in Act /\ h.do \in K BY <1>1, WithinPeels DEF Finished
  <1>3. Within(<<h>>, K)
    <2> HIDE DEF h, K
    <2> QED BY <1>1, <1>2, WithinOne
  <1>4. Within(D, K)
    <2>1. Passing \subseteq K BY DEF Reading
    <2> HIDE DEF K, D
    <2> QED BY <2>1, DataPass, WithinMore DEF D
  <1> HIDE DEF h, D, K
  <1>5. Within((<<h>> \o D) \o Tail(Tail(t)), K) BY <1>2, <1>3, <1>4, WithinJoins
  <1> QED BY <1>5 DEF Finished, Reads, h, D, K

LEMMA PassedReads ==
  ASSUME NEW p \in Nat, NEW t, Passed(t, p), Head(t).do = "size", NEW n \in Nat
  PROVE  Passed(Reads(t, n), p)
  <1> DEFINE K == Passing \cup {"gap"}
             D == [i \in 1 .. n |-> Do("data")]
  <1>1. PICK m : Heading(m, p, 4) /\ Run(t, K, <<Do("sync")>> \o m) BY DEF Passed
  <1> DEFINE s == <<Do("sync")>> \o m
  <1>2. 4 \in Nat /\ m \in Seq(Act)
    <2>1. 4 \in Nat OBVIOUS
    <2> QED BY <1>1, <2>1, HeadingPeels
  <1>3. s \in Seq(Act) /\ s # <<>> /\ Head(s).do = "sync"
    <2>1. Do("sync") \in Act /\ Do("sync").do = "sync" BY Acts DEF Doings
    <2> QED BY <1>2, <2>1, OneThen
  <1>4. PICK L : Within(L, K) /\ t = L \o s BY <1>1 DEF Run
  <1> HIDE DEF K, D, s
  <1>5. L \in Seq(Act) /\ t \in Seq(Act) /\ L # <<>>
    <2>1. L \in Seq(Act) BY <1>4 DEF Within
    <2>2. L = <<>> => t = s BY <1>3, <1>4, <2>1, Joint
    <2>3. t \in Seq(Act) BY <1>3, <1>4, <2>1, Joint
    <2> QED BY <1>3, <2>1, <2>2, <2>3
  <1>6. Head(t) = Head(L) /\ Tail(t) = Tail(L) \o s BY <1>3, <1>4, <1>5, Joint
  <1>7. Tail(L) # <<>> /\ Head(Tail(L)).do = "high" /\ Within(Tail(L), K) BY <1>4, <1>5, <1>6, WithinPeels
  <1> DEFINE h == Head(Tail(L))
             r == Tail(Tail(L)) \o s
  <1>8. h \in Act /\ h.do \in K /\ Within(Tail(Tail(L)), K) BY <1>7, WithinPeels
  <1>9. Head(Tail(t)) = h /\ Tail(Tail(t)) = r
    <2>1. Tail(L) \in Seq(Act) BY <1>7 DEF Within
    <2> DEFINE l == Tail(L)
               u == Tail(t)
    <2>2. l \in Seq(Act) /\ u = l \o s /\ l # <<>> BY <1>6, <1>7, <2>1
    <2> HIDE DEF l, u
    <2>3. Head(u) = Head(l) /\ Tail(u) = Tail(l) \o s BY <1>3, <2>2, Joint
    <2> QED BY <2>3 DEF l, u
  <1>10. Run(r, K, s)
    <2>1. Run(s, K, s) BY <1>3, RunHere
    <2> QED BY <1>3, <1>8, <2>1, RunExtends
  <1>11. r \in Seq(Act)
    <2>1. Tail(Tail(L)) \in Seq(Act) BY <1>8 DEF Within
    <2> QED BY <1>3, <2>1
  <1>12. Within(<<h>> \o D, K)
    <2>1. Within(D, K)
      <3>1. Passing \subseteq K BY DEF K
      <3> QED BY <3>1, DataPass, WithinMore DEF D
    <2>2. Within(<<h>>, K)
      <3> HIDE DEF h
      <3> QED BY <1>7, <1>8, WithinOne DEF h
    <2> HIDE DEF h
    <2> QED BY <2>1, <2>2, WithinJoins
  <1> DEFINE z == (<<h>> \o D) \o r
  <1>13. Run(z, K, s)
    <2> DEFINE q == <<h>> \o D
    <2>1. Within(q, K) BY <1>12
    <2> HIDE DEF q, r
    <2>2. Run(q \o r, K, s) BY <1>3, <1>10, <2>1, RunExtends
    <2> QED BY <2>2 DEF q
  <1>14. z = Reads(t, n) BY <1>9 DEF Reads, D
  <1> HIDE DEF z
  <1>15. Passed(z, p) BY <1>1, <1>13 DEF Passed, K, s
  <1> QED BY <1>14, <1>15

LEMMA FormattingStarts == Erasing(Formatting)
  <1> DEFINE c == <<0>>
             tail == <<Do("off")>>
             q == <<Put(PadA)>> \o tail
             sync == <<Do("sync")>> \o q
             J == {"put", "trailer"}
             K == {"on", "gap"}
  <1>1. 0 \in Nat /\ PadA \in Nat /\ Mark \in Nat BY DEF PadA, Mark
  <1>2. Within(q, {"put", "off"})
    <2>1. Within(<<Put(PadA)>>, {"put", "off"}) /\ Within(tail, {"put", "off"})
      BY <1>1, Singles DEF Doings, Reading
    <2> HIDE DEF tail
    <2> QED BY <2>1, WithinJoins
  <1>3. Wiped(q) /\ q \in Seq(Act) BY <1>2 DEF Wiped, Within
  <1> HIDE DEF q
  <1>4. sync \in Seq(Act)
    <2>1. <<Do("sync")>> \in Seq(Act) BY Singles DEF Doings
    <2> QED BY <1>3, <2>1
  <1> DEFINE rest == <<Do("trailer")>> \o sync
             puts == Puts(c) \o rest
             marks == <<Put(Mark)>> \o puts
             block == <<Do("sync")>> \o marks
  <1>5. c \in Seq(Nat) BY <1>1
  <1>6. WriteBlock(c) \o sync = Gaps \o block
    <2> HIDE DEF c, sync
    <2> QED BY <1>4, <1>5, BlockThen
  <1>7. Within(<<Do("trailer")>>, J) /\ Within(Puts(c), J) /\ Within(<<Put(Mark)>>, J)
    <2> HIDE DEF c
    <2> QED BY <1>1, <1>5, Singles, PutsIs DEF Doings
  <1>8. Run(marks, J, sync)
    <2> HIDE DEF J, sync
    <2>1. Run(sync, J, sync) BY <1>4, RunHere
    <2>2. Run(rest, J, sync) BY <1>4, <1>7, <2>1, RunExtends
    <2> HIDE DEF rest
    <2>3. Run(puts, J, sync) BY <1>4, <1>7, <2>2, RunExtends
    <2> HIDE DEF puts
    <2> QED BY <1>4, <1>7, <2>3, RunExtends
  <1> HIDE DEF marks
  <1>9. Wiping(marks) BY <1>3, <1>8 DEF Wiping
  <1>10. marks \in Seq(Act) BY <1>9, WipingPeels
  <1>11. block \in Seq(Act)
    <2>1. <<Do("sync")>> \in Seq(Act) BY Singles DEF Doings
    <2> QED BY <1>10, <2>1
  <1>12. Within(<<Do("on")>>, K) /\ Within(Gaps, K)
    <2>1. Within(<<Do("on")>>, K) BY Singles DEF Doings, Reading
    <2> QED BY <2>1, GapsIs
  <1>13. Run(<<Do("on")>> \o (Gaps \o block), K, block)
    <2> HIDE DEF K, block
    <2>1. Run(block, K, block) BY <1>11, RunHere
    <2> DEFINE g == Gaps \o block
    <2>2. Run(g, K, block) BY <1>11, <1>12, <2>1, RunExtends
    <2> HIDE DEF g
    <2>3. Run(<<Do("on")>> \o g, K, block) BY <1>11, <1>12, <2>2, RunExtends
    <2> QED BY <2>3 DEF g
  <1>14. Formatting = <<Do("on")>> \o (WriteBlock(c) \o sync)
    <2> DEFINE on == <<Do("on")>>
               w == WriteBlock(c)
               last == <<Do("sync"), Put(PadA), Do("off")>>
    <2>1. /\ Do("sync") \in Act /\ Put(PadA) \in Act /\ Do("off") \in Act /\ Do("on") \in Act
      BY <1>1, Acts DEF Doings, Reading
    <2>2. last = sync
      <3> DEFINE x == Do("sync")
                 y == Put(PadA)
                 z == Do("off")
      <3>1. x \in Act /\ y \in Act /\ z \in Act BY <2>1
      <3> DEFINE l == <<x, y, z>>
                 r == <<x>> \o (<<y>> \o <<z>>)
      <3> HIDE DEF x, y, z
      <3>2. l \in Seq(Act) /\ Len(l) = 3 /\ l[1] = x /\ l[2] = y /\ l[3] = z BY <3>1
      <3>3. r \in Seq(Act) /\ Len(r) = 3 /\ r[1] = x /\ r[2] = y /\ r[3] = z BY <3>1
      <3> HIDE DEF l, r
      <3>4. \A i \in 1 .. 3 : i = 1 \/ i = 2 \/ i = 3 OBVIOUS
      <3>5. \A i \in 1 .. Len(l) : l[i] = r[i] BY <3>2, <3>3, <3>4
      <3>6. l = r BY <3>2, <3>3, <3>5, SeqEqual
      <3> QED BY <3>6 DEF l, r, x, y, z, q
    <2>3. on \in Seq(Act) /\ w \in Seq(Act)
      <3>1. <<>> \in Seq(Act) /\ on \in Seq(Act) BY <2>1
      <3> HIDE DEF w, c
      <3> QED BY <1>5, <3>1, BlockThen DEF w
    <2>4. Formatting = (on \o w) \o last BY DEF Formatting
    <2> HIDE DEF on, w, last, sync
    <2>5. (on \o w) \o sync = on \o (w \o sync) BY <1>4, <2>3, Associates
    <2> QED BY <2>2, <2>4, <2>5 DEF on, w
  <1> DEFINE z == <<Do("on")>> \o (Gaps \o block)
  <1>15. Formatting = z BY <1>6, <1>14
  <1>16. Run(z, K, block) BY <1>13
  <1> HIDE DEF z
  <1>17. Erasing(z) BY <1>9, <1>16 DEF Erasing
  <1> QED BY <1>15, <1>17

-----------------------------------------------------------------------------
(* The inductive invariant: types, the head over the image, the directory  *)
(* and its index, and where the save engine stands in the guest's script.  *)

MadeNames == {<<Base(p), Min(S)>> : p \in DOMAIN Programs, S \in SUBSET Nat}
GivenNames == UNION {{s.dir[i].fat : i \in DOMAIN s.dir} : s \in Setups}
Names == GivenNames \cup {UsbName} \cup MadeNames
Stages == {"idle", "count", "header", "body", "formatting"}

DriveType == [std : {"none", "dir", "image"}, ready : BOOLEAN, home : BOOLEAN, at : 0 .. Limit + 1,
              motor : BOOLEAN, tx : {"off", "gap", "sync"}, crc : BOOLEAN]
EngineType == [stage : Stages, pos : Nat, hdr : Nat, left : Int, open : BOOLEAN, saved : Names \cup {<<>>}]
JobType == [op : {"none", "list", "save", "format"}, p : Nat, todo : Seq(Act), heard : Seq(Nat),
            clean : BOOLEAN, fault : BOOLEAN, failed : BOOLEAN]

DriveFine == cfg \in Setups /\ drive \in DriveType /\ (drive.ready <=> drive.std # "none")
HeadFine == /\ image \in Seq(Nat) /\ Len(image) = Len(cfg.image) /\ src \in 0 .. Len(image)
            /\ drive.std = "image" /\ drive.at < Len(image) /\ drive.at <= Limit => src = drive.at
DirFine == dir \in Seq(Entry(Names)) /\ Distinct(dir) /\ Serves(served, dir, Names)
EngineFine == /\ engine \in EngineType
              /\ engine.open => /\ engine.stage = "body" /\ temp = <<engine.hdr, temp[2]>>
                                /\ temp[2] \in Seq(Nat)

\* The save engine hears the guest: over a directory that can be written.
Heard == Writable /\ IsDir

\* How the stage of the engine follows a save, and a format.
SaveFine(t, p, e, at, heard, isdir) ==
    \/ Finished(t) /\ e.stage = "idle"
    \/ Passed(t, p) /\ e.stage = "idle" /\ (heard => at # 0)
    \/ \E k \in 0 .. 4 : Heading(t, p, k) /\ IF heard THEN e.stage = "header" /\ e.pos = 7 - k
                                             ELSE e.stage = "idle"
    \/ Headed(t) /\ IF heard THEN e.stage = "header" /\ e.hdr = HeadCell(p) /\ at # 0 ELSE e.stage = "idle"
    \/ Bodied(t) /\ e.stage \in {"idle", "body"} /\ (e.stage = "body" => e.hdr = HeadCell(p))
    \/ Rewound(t) /\ e.stage = "idle" /\ (isdir => at = 0)
    \/ CountMark(t) /\ IF heard THEN e.stage = "count" /\ e.pos = 3 ELSE e.stage = "idle"
    \/ Counting(t) /\ IF heard THEN e.stage = "count" /\ e.pos = 4 ELSE e.stage = "idle"
FormatFine(t, e, at, isdir) ==
    \/ Erasing(t) /\ e.stage = "idle" /\ (isdir => at = 0)
    \/ Wiping(t) /\ e.stage \in {"idle", "count", "formatting"}
    \/ Wiped(t) /\ e.stage \in {"idle", "count", "formatting", "header"}
Fits(op, t, p, e, at, heard, isdir) ==
    /\ op = "none" => t = <<>> /\ at = 0 /\ e.stage = "idle"
    /\ op = "list" => Finished(t) /\ e.stage = "idle"
    /\ op = "save" => p \in DOMAIN Programs /\ SaveFine(t, p, e, at, heard, isdir)
    /\ op = "format" => FormatFine(t, e, at, isdir)
ScriptFine == job \in JobType /\ Fits(job.op, job.todo, job.p, engine, drive.at, Heard, IsDir)

Inv == DriveFine /\ HeadFine /\ DirFine /\ EngineFine /\ ScriptFine

\* What a step may cost the directory.
Kept == \A e \in ToSet(dir) \ ToSet(dir') :
            \/ Idle
            \/ job.op = "format" /\ IsProgram(e)
            \/ job.op = "save" /\ IsProgram(e) /\ Sharp(e.head) = Sharp(job.p)

LEMMA SetupIs ==
  ASSUME NEW s \in Setups
  PROVE  /\ s.dir \in Seq(Entry(Names)) /\ Distinct(s.dir) /\ s.image \in Seq(Nat)
         /\ {s.std} \cup s.mounts \subseteq {"none", "dir", "image"}
         /\ s.saves \cup s.usb \subseteq DOMAIN Programs /\ s.ops \subseteq {"list", "format"}
         /\ s.frail => s.image = <<>> /\ s.mounts = {}
  <1> DEFINE own == {s.dir[i].fat : i \in DOMAIN s.dir}
             d == s.dir
  <1>1. d \in Seq(Entry(own)) /\ Distinct(d) BY SetupAssumption
  <1>2. own \subseteq Names
    <2>1. own \in {{q.dir[i].fat : i \in DOMAIN q.dir} : q \in Setups} OBVIOUS
    <2> HIDE DEF own
    <2> QED BY <2>1 DEF Names, GivenNames
  <1> HIDE DEF own, d
  <1>3. Entry(own) \subseteq Entry(Names) BY <1>2 DEF Entry
  <1>4. d \in Seq(Entry(Names)) BY <1>1, <1>3
  <1>5. /\ s.image \in Seq(Nat)
        /\ {s.std} \cup s.mounts \subseteq {"none", "dir", "image"}
        /\ s.saves \cup s.usb \subseteq DOMAIN Programs /\ s.ops \subseteq {"list", "format"}
        /\ s.frail => s.image = <<>> /\ s.mounts = {}
    BY SetupAssumption
  <1> QED BY <1>1, <1>4, <1>5 DEF d

-----------------------------------------------------------------------------
(* What is read from a directory is bytes.                                 *)

LEMMA FrameIs ==
  ASSUME NEW c \in Seq(Nat)
  PROVE  Frame(c) \in Seq(Nat)
  <1> DEFINE a == <<GapByte, Sync, Sync, Mark>>
             b == <<LetterC, LetterR, LetterC>>
  <1>1. a \in Seq(Nat) /\ b \in Seq(Nat) BY DEF GapByte, Sync, Mark, LetterC, LetterR
  <1> HIDE DEF a, b
  <1>2. a \o c \in Seq(Nat) BY <1>1
  <1>3. (a \o c) \o b \in Seq(Nat) BY <1>1, <1>2
  <1> QED BY <1>3 DEF Frame, a, b

LEMMA PairIsBytes ==
  ASSUME NEW F, dir \in Seq(Entry(F)), NEW f \in Files(F)
  PROVE  Pair(f) \in Seq(Nat)
  <1> DEFINE here == Entries(dir, f.fat)
             body == IF here = <<>> THEN <<>> ELSE Head(here).body
             cell == IF here = <<>> THEN Nothing ELSE HeadCell(Head(here).head)
             cells == [i \in 1 .. f.size |-> IF i <= Len(body) THEN body[i] ELSE Nothing]
  <1>1. here \in Seq(Entry(F)) BY OnlyIs DEF Entries
  <1>2. here # <<>> => Head(here) \in Entry(F)
    <2> HIDE DEF here
    <2> QED BY <1>1
  <1>3. cell \in Nat /\ body \in Seq(Nat)
    <2>1. \A h \in Entry(F) : h.head \in Nat /\ h.body \in Seq(Nat) BY Numbers DEF Entry
    <2>2. Nothing \in Nat /\ <<>> \in Seq(Nat) /\ \A h \in Nat : HeadCell(h) \in Nat BY DEF Nothing, HeadCell
    <2> HIDE DEF here
    <2> QED BY <1>2, <2>1, <2>2
  <1>4. f.size \in Nat BY DEF Files
  <1> HIDE DEF body, cell
  <1>5. cells \in Seq(Nat) /\ Len(cells) = f.size
    <2>1. \A i \in 1 .. f.size : i <= Len(body) => body[i] \in Nat BY <1>3
    <2>2. Nothing \in Nat BY DEF Nothing
    <2>3. \A i \in 1 .. f.size : (IF i <= Len(body) THEN body[i] ELSE Nothing) \in Nat BY <2>1, <2>2
    <2> QED BY <1>4, <2>3
  <1> HIDE DEF cells
  <1>6. HeaderBlock(cell) \in Seq(Nat)
    <2>1. <<0, HeaderSize, 0, cell>> \in Seq(Nat) BY <1>3 DEF HeaderSize
    <2> QED BY <2>1, FrameIs DEF HeaderBlock
  <1>7. BodyBlock(cells) \in Seq(Nat)
    <2> DEFINE h == <<BodyId, Len(cells), 0>>
    <2>1. h \in Seq(Nat) BY <1>4, <1>5 DEF BodyId
    <2> HIDE DEF h
    <2>2. h \o cells \in Seq(Nat) BY <1>5, <2>1
    <2> QED BY <2>2, FrameIs DEF BodyBlock, h
  <1>8. Pair(f) = HeaderBlock(cell) \o BodyBlock(cells) BY DEF Pair, cell, cells, body
  <1> QED BY <1>6, <1>7, <1>8

LEMMA CellIsByte ==
  ASSUME NEW F, dir \in Seq(Entry(F)), NEW files \in Seq(Files(F)), NEW index \in Nat, index < MaxSize
  PROVE  Cell(files, index) \in Nat
  <1> DEFINE pairs == [i \in DOMAIN files |-> Pair(files[i])]
             tape == Tape(files)
  <1>1. DOMAIN files = 1 .. Len(files) /\ Len(files) \in Nat /\ \A i \in 1 .. Len(files) : files[i] \in Files(F)
    OBVIOUS
  <1>2. \A i \in 1 .. Len(files) : pairs[i] \in Seq(Nat) BY <1>1, PairIsBytes
  <1>3. Len(pairs) = Len(files) /\ (Len(files) = 0 => pairs = <<>>) BY <1>1
  <1>4. FlattenSeq(pairs) \in Seq(Nat)
    <2> DEFINE C == Seq(Nat)
    <2>1. <<>> \in C /\ \A a, b \in C : a \o b \in C OBVIOUS
    <2>2. \A i \in 1 .. Len(files) : pairs[i] \in C BY <1>2
    <2> HIDE DEF pairs, C
    <2>3. FlattenSeq(pairs) \in C BY <1>1, <1>3, <2>1, <2>2, FlattenIn
    <2> QED BY <2>3 DEF C
  <1>5. CountBlock(Len(files)) \in Seq(Nat)
    <2>1. (2 * Len(files)) % Byte \in Nat
      <3>1. \A a \in Nat, b \in Nat \ {0} : a % b \in Nat OBVIOUS
      <3>2. 2 * Len(files) \in Nat /\ Byte \in Nat \ {0} BY <1>1, Numbers
      <3> QED BY <3>1, <3>2
    <2>2. <<(2 * Len(files)) % Byte>> \in Seq(Nat) BY <2>1
    <2> QED BY <2>2, FrameIs DEF CountBlock
  <1>6. tape \in Seq(Nat)
    <2> HIDE DEF pairs
    <2> QED BY <1>4, <1>5 DEF Tape, pairs
  <1> HIDE DEF tape
  <1>7. ASSUME NEW off \in Nat PROVE Pad(off, index) \in Nat
    <2>1. CASE off < 4
      <3>1. off = 0 \/ off = 1 \/ off = 2 \/ off = 3 BY <2>1
      <3>2. Pad(off, index) = <<GapByte, Sync, Sync, Mark>>[off + 1] BY <2>1 DEF Pad
      <3> QED BY <3>1, <3>2 DEF GapByte, Sync, Mark
    <2>2. CASE off >= 4 /\ index >= MaxSize - 3
      <3>1. index = MaxSize - 3 \/ index = MaxSize - 2 \/ index = MaxSize - 1 BY <2>2, Numbers
      <3>2. index + 4 - MaxSize = 1 \/ index + 4 - MaxSize = 2 \/ index + 4 - MaxSize = 3 BY <3>1, Numbers
      <3>3. Pad(off, index) = <<LetterC, LetterR, LetterC>>[index + 4 - MaxSize] BY <2>2 DEF Pad
      <3> QED BY <3>2, <3>3 DEF LetterC, LetterR
    <2>3. CASE ~(off < 4) /\ ~(off >= 4 /\ index >= MaxSize - 3)
      <3>1. Pad(off, index) = IF off % 2 = 1 THEN PadB ELSE PadA BY <2>3 DEF Pad
      <3> QED BY <3>1 DEF PadA, PadB
    <2> QED BY <2>1, <2>2, <2>3
  <1>8. CASE index < Len(tape)
    <2>1. tape[index + 1] \in Nat BY <1>6, <1>8
    <2> QED BY <1>8, <2>1 DEF Cell, tape
  <1>9. CASE ~(index < Len(tape))
    <2>1. index - Len(tape) \in Nat BY <1>6, <1>9
    <2>2. Pad(index - Len(tape), index) \in Nat BY <1>7, <2>1
    <2> QED BY <1>9, <2>2 DEF Cell, tape
  <1> QED BY <1>8, <1>9

-----------------------------------------------------------------------------
(* The head and the position of the image.                                 *)

HeadType == [at : 0 .. Limit + 1, src : 0 .. Len(image), value : Nat, found : BOOLEAN]
InStep(h) == h \in HeadType /\ (drive.std = "image" /\ h.at < Len(image) /\ h.at <= Limit => h.src = h.at)

LEMMA DriveIs ==
  ASSUME DriveFine
  PROVE  /\ drive \in DriveType /\ drive.at \in 0 .. Limit + 1 /\ drive.at \in Nat /\ Limit \in Nat
         /\ IsDir => Size = MaxSize /\ drive.ready
         /\ ~IsDir => Size = Len(image)
         /\ drive.std = "image" => ~IsDir /\ drive.ready
         /\ drive.ready /\ ~IsDir => drive.std = "image"
         /\ MaxSize <= Limit /\ 8 <= MaxSize /\ MaxSize \in Nat
         /\ Limit + 1 \in 0 .. Limit + 1
  <1>1. drive \in DriveType /\ Limit \in Nat /\ MaxSize <= Limit /\ 8 <= MaxSize /\ MaxSize \in Nat
    BY Numbers DEF DriveFine
  <1>2. drive.at \in 0 .. Limit + 1 /\ drive.at \in Nat BY <1>1 DEF DriveType
  <1>3. drive.std \in {"none", "dir", "image"} /\ (drive.ready <=> drive.std # "none")
    BY <1>1 DEF DriveType, DriveFine
  <1>4. Limit + 1 \in 0 .. Limit + 1 BY <1>1
  <1> QED BY <1>1, <1>2, <1>3, <1>4 DEF IsDir, Size

LEMMA ReadKeeps ==
  ASSUME DriveFine, image \in Seq(Nat), Len(image) = Len(cfg.image), dir \in Seq(Entry(Names)),
         NEW files \in Seq(Files(Names)), NEW h, InStep(h), NEW ok \in Works
  PROVE  LET r == ReadFrom(h, files, ok)
         IN  /\ InStep(r) /\ r.found = h.found /\ (h.at # 0 => r.at # 0)
             /\ Writable => r.at # 0
  <1> DEFINE r == ReadFrom(h, files, ok)
             moved == [h EXCEPT !.at = @ + 1, !.value = Nothing]
             stuck == ~drive.ready \/ ~drive.motor \/ h.at > Limit
             past == h.at >= Size \/ h.at = Limit \/ ~ok
  <1>1. /\ h \in HeadType /\ h.at \in 0 .. Limit + 1 /\ h.src \in 0 .. Len(image) /\ h.found \in BOOLEAN
        /\ Len(image) \in Nat /\ Limit \in Nat /\ Nothing \in Nat
    BY Numbers DEF InStep, HeadType, Nothing
  <1>2. drive.std = "image" => ok \/ Len(image) = 0
    <2>1. cfg.frail => cfg.image = <<>> BY SetupIs DEF DriveFine
    <2>2. ~cfg.frail => ok = TRUE BY DEF Works, Frail
    <2>3. cfg.frail => Len(image) = 0 BY <2>1
    <2> QED BY <2>2, <2>3
  <1>3. CASE stuck
    <2>1. r = [h EXCEPT !.value = Nothing] BY <1>3 DEF ReadFrom
    <2>2. r \in HeadType /\ r.at = h.at /\ r.src = h.src /\ r.found = h.found
      BY <1>1, <2>1 DEF HeadType
    <2>3. InStep(r) BY <2>2 DEF InStep
    <2>4. Writable => h.at > Limit BY <1>3 DEF Writable
    <2>5. Writable => r.at # 0 BY <1>1, <2>2, <2>4
    <2> QED BY <2>2, <2>3, <2>5
  <1>4. CASE ~stuck /\ past
    <2>1. r = moved BY <1>4 DEF ReadFrom
    <2>2. h.at + 1 \in 0 .. Limit + 1 /\ h.at + 1 # 0 BY <1>1, <1>4
    <2>3. r \in HeadType /\ r.at = h.at + 1 /\ r.src = h.src /\ r.found = h.found
      BY <1>1, <2>1, <2>2 DEF HeadType
    <2>4. ~(drive.std = "image" /\ r.at < Len(image) /\ r.at <= Limit)
      <3>1. SUFFICES ASSUME drive.std = "image", r.at < Len(image), r.at <= Limit PROVE FALSE OBVIOUS
      <3>2. Size = Len(image) BY <3>1, DriveIs
      <3>3. ~(h.at >= Size) /\ h.at # Limit BY <1>1, <2>3, <3>1, <3>2
      <3>4. ok BY <1>1, <1>2, <2>3, <3>1
      <3> QED BY <1>4, <3>3, <3>4
    <2>5. InStep(r) BY <2>3, <2>4 DEF InStep
    <2> QED BY <2>2, <2>3, <2>5
  <1>5. CASE ~stuck /\ ~past
    <2>0. Size \in Nat /\ MaxSize \in Nat BY <1>1, DriveIs
    <2>1. h.at + 1 \in 0 .. Limit + 1 /\ h.at + 1 # 0 /\ h.at < Size BY <1>1, <1>5, <2>0
    <2>2. CASE IsDir
      <3>1. r = [moved EXCEPT !.value = Cell(files, h.at)] BY <1>5, <2>2 DEF ReadFrom
      <3>2. Cell(files, h.at) \in Nat
        <4>1. h.at < MaxSize /\ h.at \in Nat BY <1>1, <2>1, <2>2, DriveIs
        <4> QED BY <4>1, CellIsByte
      <3>3. r \in HeadType /\ r.at = h.at + 1 /\ r.src = h.src /\ r.found = h.found
        BY <1>1, <2>1, <3>1, <3>2 DEF HeadType
      <3>4. drive.std # "image" BY <2>2 DEF IsDir
      <3> QED BY <2>1, <3>3, <3>4 DEF InStep
    <2>3. CASE ~IsDir
      <3>1. r = [moved EXCEPT !.src = h.at + 1, !.value = image[h.at + 1]] BY <1>5, <2>3 DEF ReadFrom
      <3>2. Size = Len(image) BY <2>3, DriveIs
      <3>3. h.at + 1 \in 0 .. Len(image) /\ h.at + 1 \in 1 .. Len(image) BY <1>1, <2>1, <3>2
      <3>4. image[h.at + 1] \in Nat BY <3>3
      <3>5. r \in HeadType /\ r.at = h.at + 1 /\ r.src = h.at + 1 /\ r.found = h.found
        BY <1>1, <2>1, <3>1, <3>3, <3>4 DEF HeadType
      <3> QED BY <2>1, <3>5 DEF InStep
    <2> QED BY <2>2, <2>3
  <1> QED BY <1>3, <1>4, <1>5

Hunting(f, ok, m) ==
    f = [i \in 0 .. m |->
            IF i = 0 THEN HeadNow
            ELSE LET h == f[i - 1]
                     n == ReadFrom(h, served, ok)
                 IN  IF h.found THEN h ELSE [n EXCEPT !.found = h.value = Sync /\ n.value = Sync]]
Hunts(ok, m) == \E f : Hunting(f, ok, m)

LEMMA HuntExists == ASSUME NEW ok, NEW m \in Nat PROVE Hunts(ok, m)
  <1> DEFINE S == {k \in Nat : Hunts(ok, k)}
             Next1(h) == LET n == ReadFrom(h, served, ok)
                         IN  IF h.found THEN h ELSE [n EXCEPT !.found = h.value = Sync /\ n.value = Sync]
  <1>1. 0 \in S
    <2> DEFINE f == [i \in 0 .. 0 |-> HeadNow]
    <2>1. f = [i \in 0 .. 0 |-> IF i = 0 THEN HeadNow ELSE Next1(f[i - 1])]
      <3> HIDE DEF Next1
      <3> QED OBVIOUS
    <2>2. Hunting(f, ok, 0) BY <2>1 DEF Hunting
    <2>3. Hunts(ok, 0) BY <2>2 DEF Hunts
    <2> QED BY <2>3
  <1>2. \A k \in S : k + 1 \in S
    <2> TAKE k \in S
    <2>1. PICK f : f = [i \in 0 .. k |-> IF i = 0 THEN HeadNow ELSE Next1(f[i - 1])]
      BY DEF Hunts, Hunting
    <2> DEFINE g == [i \in 0 .. k + 1 |-> IF i <= k THEN f[i] ELSE Next1(f[k])]
    <2>2. g = [i \in 0 .. k + 1 |-> IF i = 0 THEN HeadNow ELSE Next1(g[i - 1])]
      <3> HIDE DEF Next1
      <3>1. k \in Nat OBVIOUS
      <3>2. SUFFICES ASSUME NEW i \in 0 .. k + 1
                     PROVE  g[i] = IF i = 0 THEN HeadNow ELSE Next1(g[i - 1])
        OBVIOUS
      <3>3. CASE i = 0 BY <2>1, <3>1, <3>3
      <3>4. CASE i \in 1 .. k
        <4>1. g[i] = f[i] /\ g[i - 1] = f[i - 1] BY <3>1, <3>4
        <4>2. f[i] = Next1(f[i - 1]) BY <2>1, <3>1, <3>4
        <4> QED BY <3>4, <4>1, <4>2
      <3>5. CASE i = k + 1
        <4>1. g[i] = Next1(f[k]) /\ g[i - 1] = f[k] BY <3>1, <3>5
        <4> QED BY <3>1, <3>5, <4>1
      <3> QED BY <3>1, <3>3, <3>4, <3>5
    <2>3. Hunting(g, ok, k + 1) BY <2>2 DEF Hunting
    <2> HIDE DEF g
    <2>4. Hunts(ok, k + 1) BY <2>3 DEF Hunts
    <2> QED BY <2>4
  <1>3. S = Nat
    <2> HIDE DEF S
    <2>1. S \in SUBSET Nat BY DEF S
    <2> QED BY <1>1, <1>2, <2>1, NatInd
  <1> QED BY <1>3

LEMMA HuntKeeps ==
  ASSUME DriveFine, HeadFine, DirFine, NEW ok \in Works
  PROVE  InStep(HuntOver(ok)) /\ (drive.at # 0 => HuntOver(ok).at # 0)
  <1> DEFINE Fine(h) == InStep(h) /\ (drive.at # 0 => h.at # 0)
             H == CHOOSE f : Hunting(f, ok, 9)
  <1>1. Hunting(H, ok, 9)
    <2>1. 9 \in Nat OBVIOUS
    <2>2. Hunts(ok, 9) BY <2>1, HuntExists
    <2> QED BY <2>2 DEF Hunts
  <1>2. HuntOver(ok) = H[9]
    <2>1. H = [i \in 0 .. 9 |->
                IF i = 0 THEN HeadNow
                ELSE LET h == H[i - 1]
                         n == ReadFrom(h, served, ok)
                     IN  IF h.found THEN h ELSE [n EXCEPT !.found = h.value = Sync /\ n.value = Sync]]
      BY <1>1 DEF Hunting
    <2> QED BY DEF HuntOver, Hunting
  <1> HIDE DEF H
  <1>3. Fine(HeadNow)
    <2>1. HeadNow \in HeadType BY Numbers, DriveIs DEF HeadNow, HeadFine, Nothing, HeadType
    <2>2. HeadNow.at = drive.at /\ HeadNow.src = src BY DEF HeadNow
    <2> QED BY <2>1, <2>2 DEF InStep, HeadFine
  <1>4. ASSUME NEW h, Fine(h)
        PROVE  LET n == ReadFrom(h, served, ok)
               IN  Fine(IF h.found THEN h ELSE [n EXCEPT !.found = h.value = Sync /\ n.value = Sync])
    <2> DEFINE n == ReadFrom(h, served, ok)
               b == h.value = Sync /\ n.value = Sync
               r == [n EXCEPT !.found = b]
    <2>1. served \in Seq(Files(Names)) /\ dir \in Seq(Entry(Names)) BY DEF DirFine, Serves
    <2>2. InStep(n) /\ (h.at # 0 => n.at # 0) BY <1>4, <2>1, ReadKeeps DEF HeadFine
    <2>3. b \in BOOLEAN OBVIOUS
    <2> HIDE DEF n, b
    <2>4. r \in HeadType /\ r.at = n.at /\ r.src = n.src BY <2>2, <2>3 DEF InStep, HeadType
    <2>5. InStep(r) BY <2>2, <2>4 DEF InStep
    <2>6. Fine(r) BY <1>4, <2>2, <2>4, <2>5
    <2> QED BY <1>4, <2>6 DEF n, b
  <1> HIDE DEF Fine
  <1>5. \A i \in 0 .. 8 : Fine(H[i]) => Fine(H[i + 1])
    <2> TAKE i \in 0 .. 8
    <2>1. i + 1 \in 0 .. 9 /\ i + 1 # 0 /\ (i + 1) - 1 = i OBVIOUS
    <2>2. H[i + 1] = LET n == ReadFrom(H[i], served, ok)
                     IN  IF H[i].found THEN H[i]
                         ELSE [n EXCEPT !.found = H[i].value = Sync /\ n.value = Sync]
      BY <1>1, <2>1 DEF Hunting
    <2> QED BY <1>4, <2>2
  <1>6. H[0] = HeadNow BY <1>1 DEF Hunting
  <1>7. Fine(H[9])
    <2>1. Fine(H[0]) BY <1>3, <1>6
    <2>2. Fine(H[1]) BY <1>5, <2>1
    <2>3. Fine(H[2]) BY <1>5, <2>2
    <2>4. Fine(H[3]) BY <1>5, <2>3
    <2>5. Fine(H[4]) BY <1>5, <2>4
    <2>6. Fine(H[5]) BY <1>5, <2>5
    <2>7. Fine(H[6]) BY <1>5, <2>6
    <2>8. Fine(H[7]) BY <1>5, <2>7
    <2>9. Fine(H[8]) BY <1>5, <2>8
    <2> QED BY <1>5, <2>9
  <1> QED BY <1>2, <1>7 DEF Fine

\* The least of two.
LEMMA LeastOf == ASSUME NEW a \in Int, NEW b \in Int PROVE Min({a, b}) = IF a <= b THEN a ELSE b
  <1> DEFINE c == IF a <= b THEN a ELSE b
  <1>1. c \in {a, b} /\ \A y \in {a, b} : c <= y OBVIOUS
  <1>2. \A x \in {a, b} : (\A y \in {a, b} : x <= y) => x = c OBVIOUS
  <1>3. Min({a, b}) = CHOOSE x \in {a, b} : \A y \in {a, b} : x <= y BY DEF Min
  <1> HIDE DEF c
  <1>4. Min({a, b}) \in {a, b} /\ \A y \in {a, b} : Min({a, b}) <= y BY <1>1, <1>3
  <1>5. Min({a, b}) = c BY <1>2, <1>4
  <1> QED BY <1>5 DEF c

LEMMA HeadPastIs ==
  ASSUME DriveFine, NEW n \in Nat \ {0}
  PROVE  /\ HeadPast(n) \in 0 .. Limit + 1 /\ HeadPast(n) # 0
         /\ ~IsDir => HeadPast(n) = IF drive.at + n <= Limit + 1 THEN drive.at + n ELSE Limit + 1
  <1>1. drive.at \in Nat /\ Limit \in Nat /\ Limit >= 8 BY DriveIs
  <1> DEFINE m == Limit + (IF IsDir THEN 0 ELSE 1)
  <1>2. m \in Nat /\ m >= 8 /\ m <= Limit + 1 /\ (~IsDir => m = Limit + 1) BY <1>1
  <1>3. HeadPast(n) = Min({drive.at + n, m}) BY DEF HeadPast
  <1> HIDE DEF m
  <1>4. HeadPast(n) = IF drive.at + n <= m THEN drive.at + n ELSE m
    <2>1. drive.at + n \in Int /\ m \in Int BY <1>1, <1>2
    <2> QED BY <1>3, <2>1, LeastOf
  <1> QED BY <1>1, <1>2, <1>4

\* The cells that land are the first of those that are written.
LEMMA LandingIs ==
  ASSUME DriveFine, HeadFine, ~IsDir, NEW cells \in Seq(Nat)
  PROVE  \E m \in 0 .. Len(cells) :
            /\ Landing(cells) = 1 .. m /\ Cardinality(Landing(cells)) = m /\ src + m <= Len(image)
            /\ drive.at + Len(cells) <= Limit /\ src + Len(cells) <= Len(image) => m = Len(cells)
  <1> DEFINE n == Len(cells)
             a == Limit - drive.at
             b == Len(image) - src
             c == IF a <= b THEN a ELSE b
             m == IF c < 0 THEN 0 ELSE IF c <= n THEN c ELSE n
  <1>1. n \in Nat /\ a \in Int /\ b \in Nat /\ drive.at \in Nat /\ Limit \in Nat /\ Len(image) \in Nat /\ src \in Nat
    BY DriveIs DEF HeadFine
  <1>2. m \in 0 .. n BY <1>1
  <1>3. Landing(cells) = 1 .. m
    <2>1. DOMAIN cells = 1 .. n OBVIOUS
    <2>2. Landing(cells) = {i \in 1 .. n : drive.at + i <= Limit /\ src + i <= Len(image)}
      BY <2>1, DriveIs DEF Landing
    <2> HIDE DEF n
    <2>3. \A i \in 1 .. n : (drive.at + i <= Limit /\ src + i <= Len(image)) <=> i <= m BY <1>1
    <2>4. 1 .. m = {i \in 1 .. n : i <= m} BY <1>1, <1>2
    <2> QED BY <2>2, <2>3, <2>4
  <1>4. Cardinality(1 .. m) = m
    <2>1. Cardinality(1 .. m) = IF 1 > m THEN 0 ELSE m - 1 + 1
      <3>1. 1 \in Int /\ m \in Int BY <1>2
      <3> HIDE DEF m
      <3> QED BY <3>1, FS_Interval
    <2> QED BY <1>2, <2>1
  <1>5. src + m <= Len(image) BY <1>1
  <1>6. drive.at + n <= Limit /\ src + n <= Len(image) => m = n BY <1>1
  <1> HIDE DEF m
  <1> QED BY <1>2, <1>3, <1>4, <1>5, <1>6

\* What is written into an image keeps its length, and the source with the head.
LEMMA WriteKeeps ==
  ASSUME DriveFine, HeadFine, UNCHANGED cfg, NEW cells \in Seq(Nat), Len(cells) > 0, WriteImage(cells),
         drive'.std = drive.std,
         Writable /\ ~IsDir => drive'.at = HeadPast(Len(cells)),
         ~IsDir /\ ~Writable => drive'.at = drive.at
  PROVE  HeadFine'
  <1>1. /\ drive.at \in Nat /\ Limit \in Nat /\ image \in Seq(Nat) /\ Len(image) = Len(cfg.image)
        /\ src \in 0 .. Len(image) /\ Len(image) \in Nat /\ Len(cells) \in Nat
        /\ (drive.std = "image" /\ drive.at < Len(image) /\ drive.at <= Limit => src = drive.at)
    BY DriveIs DEF HeadFine
  <1>2. CASE Writable /\ ~IsDir
    <2>1. image' = ImageWith(cells) /\ src' = src + Cardinality(Landing(cells)) BY <1>2 DEF WriteImage
    <2>2. PICK m \in 0 .. Len(cells) :
            /\ Landing(cells) = 1 .. m /\ Cardinality(Landing(cells)) = m /\ src + m <= Len(image)
            /\ drive.at + Len(cells) <= Limit /\ src + Len(cells) <= Len(image) => m = Len(cells)
      BY <1>2, LandingIs
    <2>3. image' \in Seq(Nat) /\ Len(image') = Len(image)
      <3>1. image' = [i \in 1 .. Len(image) |-> IF i - src \in 1 .. m THEN cells[i - src] ELSE image[i]]
        <4>1. DOMAIN image = 1 .. Len(image) BY <1>1
        <4>2. image' = [i \in DOMAIN image |-> IF i - src \in Landing(cells) THEN cells[i - src] ELSE image[i]]
          BY <2>1 DEF ImageWith
        <4>3. Landing(cells) = 1 .. m BY <2>2
        <4> QED BY <4>1, <4>2, <4>3
      <3>2. \A i \in 1 .. Len(image) : i - src \in 1 .. m => cells[i - src] \in Nat
        <4>1. m <= Len(cells) /\ m \in Nat /\ src \in Nat BY <1>1, <2>2
        <4>2. \A j \in 1 .. Len(cells) : cells[j] \in Nat OBVIOUS
        <4>3. \A j \in 1 .. m : j \in 1 .. Len(cells) BY <1>1, <4>1
        <4> QED BY <4>2, <4>3
      <3>3. \A i \in 1 .. Len(image) : image[i] \in Nat BY <1>1
      <3>4. \A i \in 1 .. Len(image) : (IF i - src \in 1 .. m THEN cells[i - src] ELSE image[i]) \in Nat
        BY <3>2, <3>3
      <3> QED BY <1>1, <3>1, <3>4
    <2>4. src' = src + m /\ src' \in 0 .. Len(image') BY <1>1, <2>1, <2>2, <2>3
    <2>5. ASSUME drive.std = "image", drive'.at < Len(image), drive'.at <= Limit
          PROVE  src' = drive'.at
      <3>1. drive'.at = IF drive.at + Len(cells) <= Limit + 1 THEN drive.at + Len(cells) ELSE Limit + 1
        <4>1. Len(cells) \in Nat \ {0} BY <1>1
        <4> QED BY <1>2, <4>1, HeadPastIs
      <3>2. drive'.at = drive.at + Len(cells) /\ drive.at + Len(cells) <= Limit BY <1>1, <2>5, <3>1
      <3>3. src = drive.at BY <1>1, <2>5, <3>2
      <3>4. m = Len(cells) BY <1>1, <2>2, <2>5, <3>2, <3>3
      <3> QED BY <2>4, <3>2, <3>3, <3>4
    <2> QED BY <1>1, <2>3, <2>4, <2>5 DEF HeadFine
  <1>3. CASE ~(Writable /\ ~IsDir)
    <2>1. image' = image /\ src' = src BY <1>3 DEF WriteImage
    <2>2. drive.std = "image" => drive'.at = drive.at BY <1>3 DEF IsDir
    <2> QED BY <1>1, <2>1, <2>2 DEF HeadFine
  <1> QED BY <1>2, <1>3

-----------------------------------------------------------------------------
(* The directory, the index and the temporary file under the save engine.  *)

LEMMA SubDir ==
  ASSUME DirFine, NEW S
  PROVE  /\ Only(dir, S) \in Seq(Entry(Names)) /\ Distinct(Only(dir, S))
         /\ ToSet(Only(dir, S)) = ToSet(dir) \cap S
         /\ Serves(served, Only(dir, S), Names)
  <1>1. dir \in Seq(Entry(Names)) /\ Distinct(dir) /\ Serves(served, dir, Names) BY DEF DirFine
  <1> DEFINE d == Only(dir, S)
  <1>2. d \in Seq(Entry(Names)) /\ ToSet(d) = ToSet(dir) \cap S BY <1>1, OnlyIs
  <1>3. Distinct(d) BY <1>1, OnlyDistinct
  <1> HIDE DEF d
  <1>4. Serves(served, d, Names) BY <1>1, <1>2 DEF Serves
  <1> QED BY <1>2, <1>3, <1>4 DEF d

LEMMA TakenIs ==
  ASSUME NEW d \in Seq(Entry(Names)), NEW fat
  PROVE  Taken(d, fat) <=> \E e \in ToSet(d) : e.fat = fat
  <1> DEFINE t == Entries(d, fat)
  <1>1. t \in Seq(Entry(Names)) /\ ToSet(t) = ToSet(d) \cap {e \in ToSet(d) : e.fat = fat}
    BY OnlyIs DEF Entries
  <1>2. Taken(d, fat) <=> t # <<>> BY DEF Taken
  <1> HIDE DEF t
  <1>3. t = <<>> <=> ToSet(t) = {} BY <1>1, SetOf
  <1> QED BY <1>1, <1>2, <1>3

\* The file of a name is the one with that name.
LEMMA EntryOf ==
  ASSUME NEW d \in Seq(Entry(Names)), Distinct(d), NEW e \in ToSet(d)
  PROVE  Head(Entries(d, e.fat)) = e
  <1> DEFINE t == Entries(d, e.fat)
  <1>1. t \in Seq(Entry(Names)) /\ ToSet(t) = ToSet(d) \cap {x \in ToSet(d) : x.fat = e.fat}
    BY OnlyIs DEF Entries
  <1> DEFINE h == Head(t)
  <1>2. h \in ToSet(t)
    <2> HIDE DEF t
    <2>1. e \in ToSet(t) BY <1>1
    <2>2. t # <<>> /\ Len(t) >= 1 BY <1>1, <2>1, SetOf
    <2>3. Head(t) = t[1] /\ 1 \in 1 .. Len(t) BY <1>1, <2>2, SetOf
    <2> QED BY <1>1, <2>3, SetOf
  <1> HIDE DEF t, h
  <1>3. h \in ToSet(d) /\ h.fat = e.fat BY <1>1, <1>2
  <1>4. PICK i \in 1 .. Len(d) : d[i] = h BY <1>3, SetOf
  <1>5. PICK j \in 1 .. Len(d) : d[j] = e BY SetOf
  <1>6. i = j BY <1>3, <1>4, <1>5 DEF Distinct
  <1> QED BY <1>4, <1>5, <1>6 DEF h, t

LEMMA ContainerIs ==
  ASSUME NEW p \in DOMAIN Programs
  PROVE  Container(p) # <<>> => Container(p)[1] \in Names
  <1> DEFINE free == {k \in 0 .. Containers - 1 : ~Taken(dir, <<Base(p), k>>)}
             name == <<Base(p), Min(free)>>
  <1>1. Container(p) = IF free = {} THEN <<>> ELSE <<name>> BY DEF Container
  <1>2. name \in Names
    <2>1. free \in SUBSET Nat BY Numbers
    <2> HIDE DEF free
    <2>2. name \in {<<Base(q), Min(S)>> : q \in DOMAIN Programs, S \in SUBSET Nat} BY <2>1
    <2> DEFINE made == {<<Base(q), Min(S)>> : q \in DOMAIN Programs, S \in SUBSET Nat}
    <2>3. made \subseteq Names
      <3>1. made = MadeNames BY DEF MadeNames
      <3>2. MadeNames \subseteq Names BY DEF Names
      <3> HIDE DEF made
      <3> QED BY <3>1, <3>2
    <2>4. name \in made BY <2>2
    <2> HIDE DEF name, made
    <2> QED BY <2>3, <2>4
  <1> HIDE DEF free, name
  <1> QED BY <1>1, <1>2

LEMMA EngineIs ==
  ASSUME EngineFine
  PROVE  /\ engine \in EngineType /\ engine.stage \in Stages /\ engine.pos \in Nat /\ engine.hdr \in Nat
         /\ engine.left \in Int /\ engine.open \in BOOLEAN /\ (engine.stage # "body" => ~engine.open)
  BY DEF EngineFine, EngineType

LEMMA AbortedIs ==
  ASSUME EngineFine
  PROVE  /\ Aborted \in EngineType /\ Aborted.stage = "idle" /\ Aborted.open = FALSE
         /\ Aborted.saved = engine.saved
  <1> DEFINE a == [engine EXCEPT !.stage = "idle", !.open = FALSE]
             b == [a EXCEPT !.pos = 0]
             c == [b EXCEPT !.hdr = Nothing]
             d == [c EXCEPT !.left = 0]
  <1>1. \A e \in EngineType : /\ [e EXCEPT !.left = 0] \in EngineType /\ [e EXCEPT !.pos = 0] \in EngineType
                              /\ [e EXCEPT !.hdr = Nothing] \in EngineType
    BY DEF EngineType, Nothing
  <1>2. engine \in EngineType BY EngineIs
  <1>3. a \in EngineType BY <1>2 DEF EngineType, Stages
  <1>4. b \in EngineType
    <2> HIDE DEF a
    <2> QED BY <1>1, <1>3
  <1>5. c \in EngineType
    <2> HIDE DEF b
    <2> QED BY <1>1, <1>4
  <1>6. d \in EngineType
    <2> HIDE DEF c
    <2> QED BY <1>1, <1>5
  <1>7. Aborted = d BY <1>2 DEF Aborted, EngineType
  <1>8. Aborted.stage = "idle" /\ Aborted.open = FALSE /\ Aborted.saved = engine.saved
    BY <1>2 DEF Aborted, EngineType
  <1> QED BY <1>6, <1>7, <1>8

LEMMA FinalizeKeeps ==
  ASSUME DirFine, EngineFine, NEW p \in DOMAIN Programs, engine.hdr = HeadCell(p),
         NEW body \in Seq(Nat), NEW unread, NEW ok, Finalize(body, unread, ok)
  PROVE  /\ DirFine' /\ EngineFine' /\ engine'.stage = "idle"
         /\ \A e \in ToSet(dir) \ ToSet(dir') : IsProgram(e) /\ Sharp(e.head) = Sharp(p)
  <1> DEFINE S == {f \in ToSet(served) : /\ f.fat \notin unread /\ Taken(dir, f.fat)
                                         /\ SameName(Head(Entries(dir, f.fat)), p)}
             same == Only(served, S)
             target == IF same # <<>> THEN <<same[1].fat>> ELSE Container(p)
             left == IF same # <<>> THEN Without(dir, target[1]) ELSE dir
  <1>1. p \in Nat /\ p # 0 /\ ProgramOf(engine.hdr) = p
    <2>1. p \in Nat \ {0} BY Numbers
    <2> QED BY <2>1 DEF HeadCell, ProgramOf
  <1>2. /\ served' = served
        /\ IF ~engine.open THEN dir' = dir /\ engine' = Aborted
           ELSE IF target = <<>> \/ ~ok \/ Taken(left, target[1]) THEN dir' = left /\ engine' = Aborted
           ELSE /\ \E i \in 1 .. Len(left) + 1 :
                      dir' = InsertAt(left, i, [fat |-> target[1], head |-> p, body |-> body])
                /\ engine' = [Aborted EXCEPT !.saved = target[1]]
    BY <1>1 DEF Finalize
  <1>3. dir \in Seq(Entry(Names)) /\ Distinct(dir) /\ Serves(served, dir, Names) /\ served \in Seq(Files(Names))
    BY DEF DirFine, Serves
  <1>4. same \in Seq(Files(Names)) /\ ToSet(same) = ToSet(served) \cap S
    <2> HIDE DEF S
    <2> QED BY <1>3, OnlyIs
  <1>5. same # <<>> => same[1] \in S /\ same[1] \in Files(Names)
    <2> HIDE DEF same, S
    <2>1. SUFFICES ASSUME same # <<>> PROVE same[1] \in S /\ same[1] \in Files(Names) OBVIOUS
    <2>2. Len(same) >= 1 /\ Len(same) \in Nat BY <1>4, <2>1, SetOf
    <2>3. 1 \in 1 .. Len(same) BY <2>2
    <2> QED BY <1>4, <2>3, SetOf
  <1>6. target # <<>> => target[1] \in Names
    <2>1. CASE same # <<>>
      <3>1. target[1] = same[1].fat BY <2>1
      <3> HIDE DEF same, target
      <3> QED BY <1>5, <2>1, <3>1 DEF Files
    <2>2. CASE same = <<>>
      <3>1. target = Container(p) BY <2>2
      <3> HIDE DEF target
      <3> QED BY <3>1, ContainerIs
    <2> QED BY <2>1, <2>2
  <1>7. /\ left \in Seq(Entry(Names)) /\ Distinct(left) /\ ToSet(left) \subseteq ToSet(dir)
        /\ Serves(served, left, Names)
        /\ \A e \in ToSet(dir) \ ToSet(left) : IsProgram(e) /\ Sharp(e.head) = Sharp(p)
    <2>1. CASE same = <<>>
      <3>1. left = dir BY <2>1
      <3> HIDE DEF left
      <3> QED BY <1>3, <3>1
    <2>2. CASE same # <<>>
      <3> DEFINE fat == same[1].fat
                 R == {e \in ToSet(dir) : e.fat # fat}
      <3>1. left = Only(dir, R) BY <2>2 DEF Without
      <3>2. SameName(Head(Entries(dir, fat)), p) BY <1>5, <2>2
      <3> HIDE DEF left, fat, same
      <3>3. /\ left \in Seq(Entry(Names)) /\ Distinct(left)
            /\ ToSet(left) = ToSet(dir) \cap R /\ Serves(served, left, Names)
        <4> HIDE DEF R
        <4> QED BY <3>1, SubDir
      <3>4. ASSUME NEW e \in ToSet(dir) \ ToSet(left) PROVE IsProgram(e) /\ Sharp(e.head) = Sharp(p)
        <4>1. e \in ToSet(dir) /\ e.fat = fat BY <3>3
        <4>2. Head(Entries(dir, fat)) = e BY <1>3, <4>1, EntryOf
        <4> QED BY <3>2, <4>2 DEF SameName
      <3> QED BY <3>3, <3>4
    <2> QED BY <2>1, <2>2
  <1>9. /\ Aborted \in EngineType /\ Aborted.stage = "idle" /\ Aborted.open = FALSE
        /\ target # <<>> => [Aborted EXCEPT !.saved = target[1]] \in EngineType
    <2>1. Aborted \in EngineType /\ Aborted.stage = "idle" /\ Aborted.open = FALSE BY AbortedIs
    <2> HIDE DEF target
    <2> QED BY <1>6, <2>1 DEF EngineType
  <1>10. \/ dir' = dir \/ dir' = left
         \/ /\ target # <<>> /\ ~Taken(left, target[1])
            /\ \E i \in 1 .. Len(left) + 1 :
                  dir' = InsertAt(left, i, [fat |-> target[1], head |-> p, body |-> body])
    <2> HIDE DEF target, left
    <2> QED BY <1>2
  <1>11. engine' = Aborted \/ (target # <<>> /\ engine' = [Aborted EXCEPT !.saved = target[1]])
    <2> HIDE DEF target, left
    <2> QED BY <1>2
  <1>12. EngineFine' /\ engine'.stage = "idle"
    <2> HIDE DEF target
    <2>1. engine' \in EngineType /\ engine'.stage = "idle" /\ engine'.open = FALSE
      <3>1. CASE engine' = Aborted BY <1>9, <3>1
      <3>2. CASE target # <<>> /\ engine' = [Aborted EXCEPT !.saved = target[1]]
        <4>1. engine' \in EngineType BY <1>9, <3>2
        <4>2. engine'.stage = "idle" /\ engine'.open = FALSE BY <1>9, <3>2 DEF EngineType
        <4> QED BY <4>1, <4>2
      <3> QED BY <1>11, <3>1, <3>2
    <2> QED BY <2>1 DEF EngineFine
  <1> HIDE DEF S, same, target, left
  <1>13. DirFine' /\ \A e \in ToSet(dir) \ ToSet(dir') : IsProgram(e) /\ Sharp(e.head) = Sharp(p)
    <2>1. CASE dir' = dir BY <1>2, <1>3, <2>1 DEF DirFine
    <2>2. CASE dir' = left BY <1>2, <1>7, <2>2 DEF DirFine
    <2>3. CASE /\ target # <<>> /\ ~Taken(left, target[1])
               /\ \E i \in 1 .. Len(left) + 1 :
                     dir' = InsertAt(left, i, [fat |-> target[1], head |-> p, body |-> body])
      <3> DEFINE new == [fat |-> target[1], head |-> p, body |-> body]
      <3>1. new \in Entry(Names) /\ new.fat = target[1] /\ IsProgram(new)
        BY <1>1, <1>6, <2>3 DEF Entry, IsProgram
      <3>2. PICK i \in 1 .. Len(left) + 1 : dir' = InsertAt(left, i, new) BY <2>3
      <3> HIDE DEF new
      <3>3. \A y \in ToSet(left) : y.fat # new.fat BY <1>7, <2>3, <3>1, TakenIs
      <3>4. dir' \in Seq(Entry(Names)) /\ ToSet(dir') = ToSet(left) \cup {new} /\ Distinct(dir')
        BY <1>7, <3>1, <3>2, <3>3, Inserts
      <3>5. Serves(served, dir', Names)
        <4> DEFINE d == dir'
        <4>1. ToSet(d) = ToSet(left) \cup {new} BY <3>4
        <4> HIDE DEF d
        <4>2. Serves(served, d, Names) BY <1>7, <3>1, <4>1 DEF Serves
        <4> QED BY <4>2 DEF d
      <3> QED BY <1>2, <1>7, <3>4, <3>5 DEF DirFine
    <2> QED BY <1>10, <2>1, <2>2, <2>3
  <1> QED BY <1>12, <1>13

LEMMA CountKeeps ==
  ASSUME DirFine, EngineFine, engine.stage = "count", NEW v, NEW bad, CountEvent(v, bad)
  PROVE  /\ DirFine' /\ EngineFine'
         /\ engine'.stage = IF v = 0 THEN "formatting" ELSE "idle"
         /\ v # 0 => dir' = dir
         /\ \A e \in ToSet(dir) \ ToSet(dir') : IsProgram(e)
  <1>1. dir \in Seq(Entry(Names)) /\ Distinct(dir) /\ Serves(served, dir, Names) BY DEF DirFine
  <1>2. engine \in EngineType /\ ~engine.open BY EngineIs
  <1>3. CASE v = 0
    <2> DEFINE S == {e \in ToSet(dir) : \A i \in DOMAIN served : served[i].fat # e.fat}
               d == Only(dir, S)
    <2>1. /\ dir' = d /\ served' = Indexed(d, bad)
          /\ engine' = [engine EXCEPT !.stage = "formatting", !.open = FALSE, !.saved = <<>>]
      BY <1>3 DEF CountEvent, Emptied
    <2>2. d \in Seq(Entry(Names)) /\ Distinct(d) /\ ToSet(d) = ToSet(dir) \cap S
      <3> HIDE DEF S
      <3> QED BY SubDir
    <2>3. Serves(Indexed(d, bad), d, Names)
      <3> HIDE DEF d
      <3> QED BY <2>2, IndexedServes
    <2>4. DirFine'
      <3> HIDE DEF d
      <3> QED BY <2>1, <2>2, <2>3 DEF DirFine
    <2>5. engine' \in EngineType /\ engine'.stage = "formatting" /\ engine'.open = FALSE
      BY <1>2, <2>1 DEF EngineType, Stages
    <2>6. EngineFine' BY <2>5 DEF EngineFine
    <2>7. ASSUME NEW e \in ToSet(dir) \ ToSet(dir') PROVE IsProgram(e)
      <3>1. e \in ToSet(dir) /\ e \notin S
        <4> HIDE DEF d, S
        <4> QED BY <2>1, <2>2, <2>7
      <3>2. PICK i \in DOMAIN served : served[i].fat = e.fat BY <3>1
      <3>3. served[i] \in ToSet(served) BY <3>2 DEF ToSet
      <3> QED BY <1>1, <3>1, <3>2, <3>3 DEF Serves
    <2> QED BY <1>3, <2>4, <2>5, <2>6, <2>7
  <1>4. CASE v # 0
    <2>1. /\ dir' = dir /\ temp' = temp /\ served' = Rebuilt(dir, bad, engine.saved)
          /\ engine' = [engine EXCEPT !.stage = "idle", !.pos = 0]
      BY <1>4 DEF CountEvent
    <2>2. Serves(served', dir, Names) BY <1>1, <2>1, RebuiltServes
    <2>3. DirFine' BY <1>1, <2>1, <2>2 DEF DirFine
    <2>4. engine' \in EngineType /\ engine'.stage = "idle" /\ ~engine'.open
      BY <1>2, <2>1 DEF EngineType, Stages
    <2>5. EngineFine' BY <2>4 DEF EngineFine
    <2>6. ToSet(dir) \ ToSet(dir') = {} BY <2>1
    <2> QED BY <1>4, <2>1, <2>3, <2>4, <2>5, <2>6
  <1> QED BY <1>3, <1>4

LEMMA Setters ==
  ASSUME NEW e \in EngineType
  PROVE  /\ \A s \in Stages : [e EXCEPT !.stage = s] \in EngineType
         /\ \A n \in Nat : [e EXCEPT !.pos = n] \in EngineType /\ [e EXCEPT !.hdr = n] \in EngineType
         /\ \A n \in Int : [e EXCEPT !.left = n] \in EngineType
         /\ \A b \in BOOLEAN : [e EXCEPT !.open = b] \in EngineType
  <1>1. \A s \in Stages : [e EXCEPT !.stage = s] \in EngineType BY DEF EngineType
  <1>2. \A n \in Nat : [e EXCEPT !.pos = n] \in EngineType BY DEF EngineType
  <1>3. \A n \in Nat : [e EXCEPT !.hdr = n] \in EngineType BY DEF EngineType
  <1>4. \A n \in Int : [e EXCEPT !.left = n] \in EngineType BY DEF EngineType
  <1>5. \A b \in BOOLEAN : [e EXCEPT !.open = b] \in EngineType BY DEF EngineType
  <1> QED BY <1>1, <1>2, <1>3, <1>4, <1>5

LEMMA SyncKeeps ==
  ASSUME DirFine, EngineFine, engine.stage # "body", NEW home, NEW ok \in BOOLEAN, SyncEvent(home, ok)
  PROVE  /\ DirFine' /\ EngineFine' /\ dir' = dir /\ engine'.pos = 3
         /\ engine'.stage = IF engine.stage = "formatting" THEN "formatting"
                            ELSE IF home THEN "count" ELSE IF engine.stage = "header" THEN "body" ELSE "header"
         /\ engine.stage = "header" /\ ~home => engine'.hdr = engine.hdr
  <1>1. engine \in EngineType /\ engine.open = FALSE /\ engine.hdr \in Nat BY EngineIs
  <1>2. 3 \in Nat /\ Nothing \in Nat /\ 0 \in Int /\ "count" \in Stages /\ "header" \in Stages /\ "body" \in Stages
    BY DEF Nothing, Stages
  <1>3. dir' = dir /\ served' = served BY DEF SyncEvent, OpenTemp, Untouched
  <1>4. DirFine' BY <1>3 DEF DirFine
  <1>5. CASE engine.stage = "formatting"
    <2>1. engine' = [engine EXCEPT !.pos = 3] BY <1>5 DEF SyncEvent
    <2>2. engine' \in EngineType BY <1>1, <1>2, <2>1, Setters
    <2>3. engine'.stage = "formatting" /\ engine'.pos = 3 /\ engine'.open = FALSE
      BY <1>1, <1>5, <2>1 DEF EngineType
    <2>4. EngineFine' BY <2>2, <2>3 DEF EngineFine
    <2> QED BY <1>3, <1>4, <1>5, <2>3, <2>4
  <1>6. CASE engine.stage # "formatting" /\ home
    <2>1. engine' = [engine EXCEPT !.stage = "count", !.pos = 3] BY <1>6 DEF SyncEvent
    <2>2. engine' \in EngineType BY <1>1, <1>2, <2>1 DEF EngineType
    <2>3. engine'.stage = "count" /\ engine'.pos = 3 /\ engine'.open = FALSE
      BY <1>1, <2>1 DEF EngineType
    <2>4. EngineFine' BY <2>2, <2>3 DEF EngineFine
    <2> QED BY <1>3, <1>4, <1>6, <2>3, <2>4
  <1>7. CASE ~home /\ engine.stage = "header"
    <2>1. engine' = [engine EXCEPT !.stage = "body", !.pos = 3, !.left = 0, !.open = ok]
          /\ temp' \in IF ok THEN {<<engine.hdr, <<>>>>} ELSE {TempDropped, <<>>}
      BY <1>7 DEF SyncEvent, OpenTemp
    <2> DEFINE a == [engine EXCEPT !.stage = "body"]
               b == [a EXCEPT !.pos = 3]
               c == [b EXCEPT !.left = 0]
               d == [c EXCEPT !.open = ok]
    <2>2. a \in EngineType BY <1>1, <1>2, Setters
    <2>3. b \in EngineType
      <3> HIDE DEF a
      <3> QED BY <1>2, <2>2, Setters
    <2>4. c \in EngineType
      <3> HIDE DEF b
      <3> QED BY <1>2, <2>3, Setters
    <2>5. d \in EngineType
      <3> HIDE DEF c
      <3> QED BY <2>4, Setters
    <2>6. engine' = d BY <1>1, <2>1 DEF EngineType
    <2>7. engine' \in EngineType BY <2>5, <2>6
    <2>8. engine'.stage = "body" /\ engine'.pos = 3 /\ engine'.open = ok /\ engine'.hdr = engine.hdr
      BY <1>1, <2>1 DEF EngineType
    <2>9. ok => temp' = <<engine.hdr, <<>>>> BY <2>1
    <2>10. engine'.open => temp' = <<engine'.hdr, temp'[2]>> /\ temp'[2] \in Seq(Nat)
      <3>1. <<>> \in Seq(Nat) OBVIOUS
      <3>2. SUFFICES ASSUME ok PROVE temp' = <<engine'.hdr, temp'[2]>> /\ temp'[2] \in Seq(Nat) BY <2>8
      <3>3. temp' = <<engine.hdr, <<>>>> BY <2>9, <3>2
      <3>4. temp'[2] = <<>> BY <3>3
      <3> QED BY <2>8, <3>1, <3>3, <3>4
    <2>11. EngineFine' BY <2>7, <2>8, <2>10 DEF EngineFine
    <2> QED BY <1>3, <1>4, <1>7, <2>8, <2>11
  <1>8. CASE engine.stage # "formatting" /\ ~home /\ engine.stage # "header"
    <2>1. engine' = [engine EXCEPT !.stage = "header", !.pos = 3, !.hdr = Nothing] BY <1>8 DEF SyncEvent
    <2> DEFINE a == [engine EXCEPT !.stage = "header"]
               b == [a EXCEPT !.pos = 3]
               c == [b EXCEPT !.hdr = Nothing]
    <2>2. a \in EngineType BY <1>1, <1>2, Setters
    <2>3. b \in EngineType
      <3> HIDE DEF a
      <3> QED BY <1>2, <2>2, Setters
    <2>4. c \in EngineType
      <3> HIDE DEF b
      <3> QED BY <1>2, <2>3, Setters
    <2>5. engine' = c BY <1>1, <2>1 DEF EngineType
    <2>6. engine' \in EngineType BY <2>4, <2>5
    <2>7. engine'.stage = "header" /\ engine'.pos = 3 /\ engine'.open = FALSE
      BY <1>1, <2>1 DEF EngineType
    <2>8. EngineFine' BY <2>6, <2>7 DEF EngineFine
    <2> QED BY <1>3, <1>4, <1>8, <2>7, <2>8
  <1> QED BY <1>5, <1>6, <1>7, <1>8

LEMMA UntouchedKeeps ==
  ASSUME DirFine, Untouched
  PROVE  DirFine' /\ dir' = dir /\ temp' = temp
  BY DEF DirFine, Untouched

\* A byte that reaches the engine where it collects no body.
LEMMA OtherData ==
  ASSUME DirFine, EngineFine, NEW v \in Nat, NEW bad, NEW ok, DataEvent(v, bad, ok), engine.stage # "body",
         ~(engine.stage = "count" /\ engine.pos = 4)
  PROVE  /\ DirFine' /\ EngineFine' /\ dir' = dir /\ engine'.stage = engine.stage
         /\ engine.stage \in {"header", "count"} => engine'.pos = engine.pos + 1
         /\ engine.stage = "header" => engine'.hdr = IF engine.pos = 7 THEN v ELSE engine.hdr
  <1>1. engine \in EngineType /\ engine.open = FALSE /\ engine.pos + 1 \in Nat /\ engine.hdr \in Nat
    <2>1. engine \in EngineType /\ engine.open = FALSE /\ engine.pos \in Nat /\ engine.hdr \in Nat BY EngineIs
    <2> QED BY <2>1
  <1>2. CASE engine.stage = "header"
    <2> DEFINE h == IF engine.pos = 7 THEN v ELSE engine.hdr
               a == [engine EXCEPT !.pos = engine.pos + 1]
               b == [a EXCEPT !.hdr = h]
    <2>1. engine' = [engine EXCEPT !.pos = engine.pos + 1, !.hdr = h] /\ Untouched
      <3>1. engine' = [engine EXCEPT !.pos = @ + 1, !.hdr = IF engine.pos = 7 THEN v ELSE @] /\ Untouched
        BY <1>2 DEF DataEvent
      <3> QED BY <1>1, <3>1 DEF EngineType
    <2>2. h \in Nat BY <1>1
    <2> HIDE DEF h
    <2>3. a \in EngineType BY <1>1, Setters
    <2>4. b \in EngineType
      <3> HIDE DEF a
      <3> QED BY <2>2, <2>3, Setters
    <2>5. engine' = b BY <1>1, <2>1 DEF EngineType
    <2>6. engine' \in EngineType BY <2>4, <2>5
    <2>7. engine'.stage = "header" /\ engine'.pos = engine.pos + 1 /\ engine'.hdr = h /\ engine'.open = FALSE
      BY <1>1, <1>2, <2>1 DEF EngineType
    <2>8. EngineFine' BY <2>6, <2>7 DEF EngineFine
    <2> QED BY <1>2, <2>1, <2>7, <2>8, UntouchedKeeps DEF h
  <1>3. CASE engine.stage = "count"
    <2>1. engine' = [engine EXCEPT !.pos = engine.pos + 1] /\ Untouched
      <3>1. Stays BY <1>3 DEF DataEvent
      <3> QED BY <3>1 DEF Stays
    <2>2. engine' \in EngineType BY <1>1, <2>1, Setters
    <2>3. engine'.stage = "count" /\ engine'.pos = engine.pos + 1 /\ engine'.open = FALSE
      BY <1>1, <1>3, <2>1 DEF EngineType
    <2>4. EngineFine' BY <2>2, <2>3 DEF EngineFine
    <2> QED BY <1>3, <2>1, <2>3, <2>4, UntouchedKeeps
  <1>4. CASE engine.stage \notin {"header", "count"}
    <2>1. engine' = engine /\ Untouched BY <1>4 DEF DataEvent
    <2>2. EngineFine' BY <1>1, <2>1 DEF EngineFine
    <2> QED BY <1>4, <2>1, <2>2, UntouchedKeeps
  <1> QED BY <1>2, <1>3, <1>4

\* A byte of a body.
LEMMA BodyData ==
  ASSUME DirFine, EngineFine, NEW v \in Nat, NEW bad, NEW ok, DataEvent(v, bad, ok), engine.stage = "body",
         NEW p \in DOMAIN Programs, engine.hdr = HeadCell(p)
  PROVE  /\ DirFine' /\ EngineFine' /\ engine'.stage \in {"idle", "body"}
         /\ engine'.stage = "body" => engine'.hdr = engine.hdr
         /\ \A e \in ToSet(dir) \ ToSet(dir') : IsProgram(e) /\ Sharp(e.head) = Sharp(p)
  <1> DEFINE Done == /\ DirFine' /\ EngineFine' /\ engine'.stage \in {"idle", "body"}
                     /\ engine'.stage = "body" => engine'.hdr = engine.hdr
                     /\ \A e \in ToSet(dir) \ ToSet(dir') : IsProgram(e) /\ Sharp(e.head) = Sharp(p)
  <1>0. SUFFICES Done OBVIOUS
  <1>1. engine \in EngineType /\ engine.pos \in Nat /\ engine.hdr \in Nat /\ engine.left \in Int BY EngineIs
  <1>2. ASSUME NEW body \in Seq(Nat), NEW unread, NEW fine, Finalize(body, unread, fine) PROVE Done
    BY <1>2, FinalizeKeeps
  <1>3. ASSUME engine' \in EngineType, engine'.stage = "body", engine'.hdr = engine.hdr, engine'.open = engine.open,
               dir' = dir, served' = served, engine.open => temp' = <<temp[1], temp'[2]>> /\ temp'[2] \in Seq(Nat)
        PROVE  Done
    <2>1. engine'.open => temp' = <<engine'.hdr, temp'[2]>> /\ temp'[2] \in Seq(Nat) BY <1>3 DEF EngineFine
    <2>2. EngineFine' BY <1>3, <2>1 DEF EngineFine
    <2>3. DirFine' BY <1>3 DEF DirFine
    <2> QED BY <1>3, <2>2, <2>3
  <1>4. ASSUME Untouched, engine' \in EngineType, engine'.stage = "body", engine'.hdr = engine.hdr,
               engine'.open = engine.open
        PROVE  Done
    <2>1. dir' = dir /\ served' = served /\ temp' = temp BY <1>4 DEF Untouched
    <2>2. engine.open => temp' = <<temp[1], temp'[2]>> /\ temp'[2] \in Seq(Nat) BY <2>1 DEF EngineFine
    <2> QED BY <1>3, <1>4, <2>1, <2>2
  <1> HIDE DEF Done
  <1>5. CASE engine.pos < 5 \/ (engine.pos = 6 /\ engine.left # 0)
    <2>1. Stays
      <3>1. CASE engine.pos < 5
        <4>1. engine.pos # 5 /\ engine.pos # 6 /\ ~(engine.pos > 6) BY <1>1, <3>1
        <4> QED BY <3>1, <4>1, Zenon DEF DataEvent
      <3>2. CASE engine.pos = 6 /\ engine.left # 0 BY <1>1, <3>2 DEF DataEvent
      <3> QED BY <1>5, <3>1, <3>2
    <2>2. engine' = [engine EXCEPT !.pos = engine.pos + 1] /\ Untouched BY <2>1 DEF Stays
    <2>3. engine' \in EngineType
      <3>1. engine.pos + 1 \in Nat BY <1>1
      <3> QED BY <1>1, <2>2, <3>1, Setters
    <2>4. engine'.stage = "body" /\ engine'.hdr = engine.hdr /\ engine'.open = engine.open
      BY <1>1, <2>2 DEF EngineType
    <2> QED BY <1>4, <2>2, <2>3, <2>4
  <1>6. CASE engine.pos = 5
    <2>1. engine' = [engine EXCEPT !.pos = 6, !.left = v] /\ Untouched BY <1>6 DEF DataEvent
    <2> DEFINE a == [engine EXCEPT !.pos = 6]
               b == [a EXCEPT !.left = v]
    <2>2. 6 \in Nat /\ v \in Int OBVIOUS
    <2>3. a \in EngineType BY <1>1, <2>2, Setters
    <2>4. b \in EngineType
      <3> HIDE DEF a
      <3> QED BY <2>2, <2>3, Setters
    <2>5. engine' = b BY <1>1, <2>1 DEF EngineType
    <2>6. engine' \in EngineType BY <2>4, <2>5
    <2>7. engine'.stage = "body" /\ engine'.hdr = engine.hdr /\ engine'.open = engine.open
      BY <1>1, <2>1 DEF EngineType
    <2> QED BY <1>4, <2>1, <2>6, <2>7
  <1>7. CASE engine.pos = 6 /\ engine.left = 0
    <2>1. Finalize(<<>>, bad, ok) BY <1>7 DEF DataEvent
    <2>2. <<>> \in Seq(Nat) OBVIOUS
    <2> QED BY <1>2, <2>1, <2>2
  <1>8. CASE engine.pos > 6
    <2>1. \E wrote, renamed \in {TRUE, ok} :
             LET body == IF ~engine.open THEN <<>> ELSE temp[2] \o (IF wrote THEN <<v>> ELSE <<>>)
             IN  IF engine.left = 1 THEN Finalize(body, bad, renamed)
                 ELSE /\ temp' = IF engine.open THEN <<temp[1], body>> ELSE temp
                      /\ engine' = [engine EXCEPT !.left = @ - 1]
                      /\ UNCHANGED <<dir, served>>
      <3>1. engine.pos # 5 /\ engine.pos # 6 /\ ~(engine.pos < 5) BY <1>1, <1>8
      <3> QED BY <1>8, <3>1, Zenon DEF DataEvent
    <2>2. PICK wrote \in {TRUE, ok}, renamed \in {TRUE, ok} :
             LET body == IF ~engine.open THEN <<>> ELSE temp[2] \o (IF wrote THEN <<v>> ELSE <<>>)
             IN  IF engine.left = 1 THEN Finalize(body, bad, renamed)
                 ELSE /\ temp' = IF engine.open THEN <<temp[1], body>> ELSE temp
                      /\ engine' = [engine EXCEPT !.left = @ - 1]
                      /\ UNCHANGED <<dir, served>>
      BY <2>1
    <2> DEFINE more == IF wrote THEN <<v>> ELSE <<>>
               body == IF ~engine.open THEN <<>> ELSE temp[2] \o more
    <2>3. body \in Seq(Nat)
      <3>1. more \in Seq(Nat) OBVIOUS
      <3>2. <<>> \in Seq(Nat) OBVIOUS
      <3>3. engine.open => temp[2] \in Seq(Nat) BY DEF EngineFine
      <3> HIDE DEF more
      <3>4. engine.open => temp[2] \o more \in Seq(Nat) BY <3>1, <3>3
      <3> QED BY <3>2, <3>4
    <2>4. CASE engine.left = 1
      <3>1. Finalize(body, bad, renamed) BY <2>2, <2>4
      <3> HIDE DEF body
      <3> QED BY <1>2, <2>3, <3>1
    <2>5. CASE engine.left # 1
      <3>1. /\ temp' = (IF engine.open THEN <<temp[1], body>> ELSE temp)
            /\ engine' = [engine EXCEPT !.left = @ - 1] /\ dir' = dir /\ served' = served
        BY <2>2, <2>5
      <3> HIDE DEF body
      <3>2. engine' = [engine EXCEPT !.left = engine.left - 1] BY <1>1, <3>1 DEF EngineType
      <3>3. engine' \in EngineType
        <4>1. engine.left - 1 \in Int BY <1>1
        <4> QED BY <1>1, <3>2, <4>1, Setters
      <3>4. engine'.stage = "body" /\ engine'.hdr = engine.hdr /\ engine'.open = engine.open
        BY <1>1, <3>2 DEF EngineType
      <3>5. engine.open => temp' = <<temp[1], temp'[2]>> /\ temp'[2] \in Seq(Nat) BY <2>3, <3>1
      <3> QED BY <1>3, <3>1, <3>3, <3>4, <3>5
    <2> QED BY <2>4, <2>5
  <1>9. engine.pos < 5 \/ engine.pos = 5 \/ engine.pos = 6 \/ engine.pos > 6 BY <1>1
  <1> QED BY <1>5, <1>6, <1>7, <1>8, <1>9

-----------------------------------------------------------------------------
(* One access further in the script.                                       *)

Ops == {"none", "list", "save", "format"}

LEMMA ReadFits ==
  ASSUME NEW op \in Ops, NEW t, NEW p \in Nat, NEW e, NEW at, NEW h, NEW d, Fits(op, t, p, e, at, h, d),
         t # <<>>, Head(t).do \in Passing, NEW at2, at # 0 => at2 # 0
  PROVE  /\ Fits(op, t, p, e, at2, h, d) /\ Fits(op, Tail(t), p, e, at2, h, d)
         /\ Fits(op, <<Do("off")>>, p, e, at2, h, d)
         /\ Head(t).do = "size" => \A n \in Nat : Fits(op, Reads(t, n), p, e, at2, h, d)
  <1>1. Finished(<<Do("off")>>) BY Endings
  <1>2. Head(t).do \notin {"on", "off", "count", "check", "gap", "sync", "put", "trailer"} BY DEF Passing
  <1>3. op \in {"list", "save"} /\ (op = "save" => p \in DOMAIN Programs) /\ e.stage = "idle"
        /\ (Finished(t) \/ (op = "save" /\ Passed(t, p) /\ (h => at # 0)))
    <2>1. op # "none" BY DEF Fits
    <2>2. op # "format"
      <3>1. SUFFICES ASSUME op = "format" PROVE FALSE OBVIOUS
      <3>2. FormatFine(t, e, at, d) BY <3>1 DEF Fits
      <3>3. ~Erasing(t) BY <1>2, ErasingPeels
      <3>4. ~Wiping(t) BY <1>2, WipingPeels
      <3>5. ~Wiped(t) BY <1>2, WipedPeels
      <3> QED BY <3>2, <3>3, <3>4, <3>5 DEF FormatFine
    <2>3. CASE op = "list" BY <2>3 DEF Fits
    <2>4. CASE op = "save"
      <3>1. SaveFine(t, p, e, at, h, d) /\ p \in DOMAIN Programs BY <2>4 DEF Fits
      <3>2. \A k \in 0 .. 4 : ~Heading(t, p, k)
        <4>1. \A k \in 0 .. 4 : k \in Nat OBVIOUS
        <4> QED BY <1>2, <4>1, HeadingPeels
      <3>3. ~Headed(t) BY <1>2, HeadedPeels
      <3>4. ~Bodied(t) BY <1>2, BodiedPeels
      <3>5. ~Rewound(t) BY <1>2, RewoundPeels
      <3>6. ~CountMark(t)
        <4>1. Put(Mark).do = "put" BY Acts
        <4> QED BY <1>2, <4>1, CountMarkPeels
      <3>7. ~Counting(t) BY <1>2, CountingPeels
      <3> QED BY <2>4, <3>1, <3>2, <3>3, <3>4, <3>5, <3>6, <3>7 DEF SaveFine
    <2> QED BY <2>1, <2>2, <2>3, <2>4 DEF Ops
  <1>4. ASSUME NEW s, Finished(s) PROVE Fits(op, s, p, e, at2, h, d)
    BY <1>3, <1>4 DEF Fits, SaveFine
  <1>5. ASSUME NEW s, Passed(s, p), op = "save", h => at # 0 PROVE Fits(op, s, p, e, at2, h, d)
    BY <1>3, <1>5 DEF Fits, SaveFine
  <1>6. CASE Finished(t)
    <2>1. Finished(Tail(t)) BY <1>6, FinishedPeels
    <2>2. Head(t).do = "size" => \A n \in Nat : Finished(Reads(t, n)) BY <1>6, FinishedReads
    <2> QED BY <1>1, <1>4, <1>6, <2>1, <2>2
  <1>7. CASE op = "save" /\ Passed(t, p) /\ (h => at # 0)
    <2>1. Passed(Tail(t), p) BY <1>2, <1>7, PassedPeels
    <2>2. Head(t).do = "size" => \A n \in Nat : Passed(Reads(t, n), p) BY <1>7, PassedReads
    <2> QED BY <1>1, <1>4, <1>5, <1>7, <2>1, <2>2
  <1> QED BY <1>3, <1>6, <1>7

\* The accesses that only a listing, or the check at the end, has.
LEMMA FinishedFits ==
  ASSUME NEW op \in Ops, NEW t, NEW p \in Nat, NEW e, NEW at, NEW h, NEW d, Fits(op, t, p, e, at, h, d),
         t # <<>>, Head(t).do \in {"count", "check"}
  PROVE  /\ op \in {"list", "save"} /\ (op = "save" => p \in DOMAIN Programs) /\ e.stage = "idle"
         /\ Finished(Tail(t))
         /\ \A s, at2 : Finished(s) => Fits(op, s, p, e, at2, h, d)
  <1>1. Head(t).do \notin Passing \cup {"on", "off", "gap", "sync", "put", "trailer"} BY DEF Passing
  <1>2. op \in {"list", "save"} /\ (op = "save" => p \in DOMAIN Programs) /\ e.stage = "idle" /\ Finished(t)
    <2>1. op # "none" BY DEF Fits
    <2>2. op # "format"
      <3>1. SUFFICES ASSUME op = "format" PROVE FALSE OBVIOUS
      <3>2. FormatFine(t, e, at, d) BY <3>1 DEF Fits
      <3>3. ~Erasing(t) BY <1>1, ErasingPeels
      <3>4. ~Wiping(t) BY <1>1, WipingPeels
      <3>5. ~Wiped(t) BY <1>1, WipedPeels
      <3> QED BY <3>2, <3>3, <3>4, <3>5 DEF FormatFine
    <2>3. CASE op = "list" BY <2>3 DEF Fits
    <2>4. CASE op = "save"
      <3>1. SaveFine(t, p, e, at, h, d) /\ p \in DOMAIN Programs BY <2>4 DEF Fits
      <3>2. \A k \in 0 .. 4 : ~Heading(t, p, k)
        <4>1. \A k \in 0 .. 4 : k \in Nat OBVIOUS
        <4> QED BY <1>1, <4>1, HeadingPeels
      <3>3. ~Headed(t) BY <1>1, HeadedPeels
      <3>4. ~Bodied(t) BY <1>1, BodiedPeels
      <3>5. ~Rewound(t) BY <1>1, RewoundPeels
      <3>6. ~CountMark(t)
        <4>1. Put(Mark).do = "put" BY Acts
        <4> QED BY <1>1, <4>1, CountMarkPeels
      <3>7. ~Counting(t) BY <1>1, CountingPeels
      <3>8. ~Passed(t, p) BY <1>1, PassedPeels
      <3> QED BY <2>4, <3>1, <3>2, <3>3, <3>4, <3>5, <3>6, <3>7, <3>8 DEF SaveFine
    <2> QED BY <2>1, <2>2, <2>3, <2>4 DEF Ops
  <1>3. Finished(Tail(t)) BY <1>2, FinishedPeels
  <1>4. ASSUME NEW s, NEW at2, Finished(s) PROVE Fits(op, s, p, e, at2, h, d)
    BY <1>2, <1>4 DEF Fits, SaveFine
  <1> QED BY <1>2, <1>3, <1>4

LEMMA OnFits ==
  ASSUME NEW op \in Ops, NEW t, NEW p \in Nat, NEW e, NEW at, NEW h, NEW d, Fits(op, t, p, e, at, h, d),
         t # <<>>, Head(t).do = "on", NEW h2
  PROVE  Fits(op, Tail(t), p, e, at, h2, d)
  <1>1. Head(t).do \notin Passing \cup {"count", "check", "off", "gap", "sync", "put", "trailer"} BY DEF Passing
  <1>2. op # "none" BY DEF Fits
  <1>3. CASE op = "list"
    <2>1. Finished(t) /\ e.stage = "idle" BY <1>3 DEF Fits
    <2>2. Finished(Tail(t)) BY <2>1, FinishedPeels
    <2> QED BY <1>3, <2>1, <2>2 DEF Fits
  <1>4. CASE op = "format"
    <2>1. FormatFine(t, e, at, d) BY <1>4 DEF Fits
    <2>2. ~Wiping(t) BY <1>1, WipingPeels
    <2>3. ~Wiped(t) BY <1>1, WipedPeels
    <2>4. Erasing(t) /\ e.stage = "idle" /\ (d => at = 0) BY <2>1, <2>2, <2>3 DEF FormatFine
    <2>5. Erasing(Tail(t)) BY <1>1, <2>4, ErasingPeels
    <2> QED BY <1>4, <2>4, <2>5 DEF Fits, FormatFine
  <1>5. CASE op = "save"
    <2>1. SaveFine(t, p, e, at, h, d) /\ p \in DOMAIN Programs BY <1>5 DEF Fits
    <2>2. \A k \in 0 .. 4 : ~Heading(t, p, k)
      <3>1. \A k \in 0 .. 4 : k \in Nat OBVIOUS
      <3> QED BY <1>1, <3>1, HeadingPeels
    <2>3. ~Headed(t) BY <1>1, HeadedPeels
    <2>4. ~Bodied(t) BY <1>1, BodiedPeels
    <2>5. ~CountMark(t)
      <3>1. Put(Mark).do = "put" BY Acts
      <3> QED BY <1>1, <3>1, CountMarkPeels
    <2>6. ~Counting(t) BY <1>1, CountingPeels
    <2>7. ~Passed(t, p) BY <1>1, PassedPeels
    <2>8. \/ Finished(t) /\ e.stage = "idle"
          \/ Rewound(t) /\ e.stage = "idle" /\ (d => at = 0)
      BY <2>1, <2>2, <2>3, <2>4, <2>5, <2>6, <2>7 DEF SaveFine
    <2>9. CASE Finished(t) /\ e.stage = "idle"
      <3>1. Finished(Tail(t)) BY <2>9, FinishedPeels
      <3> QED BY <1>5, <2>1, <2>9, <3>1 DEF Fits, SaveFine
    <2>10. CASE Rewound(t) /\ e.stage = "idle" /\ (d => at = 0)
      <3>1. Rewound(Tail(t)) BY <1>1, <2>10, RewoundPeels
      <3> QED BY <1>5, <2>1, <2>10, <3>1 DEF Fits, SaveFine
    <2> QED BY <2>8, <2>9, <2>10
  <1> QED BY <1>2, <1>3, <1>4, <1>5 DEF Ops

\* The access a save is at, by the stage it is in.
SavePhases(t, p, e, at, h, d) ==
    \/ /\ Finished(t) /\ e.stage = "idle" /\ Finished(Tail(t)) /\ Head(t).do \in Reading \cup {"trailer"}
    \/ /\ Passed(t, p) /\ e.stage = "idle" /\ (h => at # 0)
       /\ \/ Head(t).do = "sync" /\ Heading(Tail(t), p, 4)
          \/ Head(t).do \in Passing \cup {"gap"} /\ Passed(Tail(t), p)
    \/ /\ Head(t).do = "put"
       /\ \E k \in 0 .. 4 :
             /\ IF h THEN e.stage = "header" /\ e.pos = 7 - k ELSE e.stage = "idle"
             /\ IF k = 0 THEN Head(t) = Put(HeadCell(p)) /\ Headed(Tail(t)) ELSE Heading(Tail(t), p, k - 1)
    \/ /\ Headed(t) /\ IF h THEN e.stage = "header" /\ e.hdr = HeadCell(p) /\ at # 0 ELSE e.stage = "idle"
       /\ \/ Head(t).do = "sync" /\ Bodied(Tail(t))
          \/ Head(t).do \in {"trailer", "gap"} /\ Headed(Tail(t))
    \/ /\ Bodied(t) /\ e.stage \in {"idle", "body"} /\ (e.stage = "body" => e.hdr = HeadCell(p))
       /\ \/ Head(t).do = "off" /\ Rewound(Tail(t))
          \/ Head(t).do \in {"put", "trailer"} /\ Bodied(Tail(t))
    \/ /\ Rewound(t) /\ e.stage = "idle" /\ (d => at = 0)
       /\ \/ Head(t).do = "sync" /\ CountMark(Tail(t))
          \/ Head(t).do \in {"on", "gap"} /\ Rewound(Tail(t))
    \/ /\ Head(t) = Put(Mark) /\ Head(t).do = "put" /\ Counting(Tail(t))
       /\ IF h THEN e.stage = "count" /\ e.pos = 3 ELSE e.stage = "idle"
    \/ /\ Head(t).do = "put" /\ Head(t).v \in Nat \ {0} /\ Finished(Tail(t))
       /\ IF h THEN e.stage = "count" /\ e.pos = 4 ELSE e.stage = "idle"

LEMMA SavePhase ==
  ASSUME NEW t, NEW p \in Nat, NEW e, NEW at, NEW h, NEW d, SaveFine(t, p, e, at, h, d), t # <<>>
  PROVE  SavePhases(t, p, e, at, h, d)
  <1>1. CASE Finished(t) /\ e.stage = "idle" BY <1>1, FinishedPeels DEF SavePhases
  <1>2. CASE Passed(t, p) /\ e.stage = "idle" /\ (h => at # 0) BY <1>2, PassedPeels DEF SavePhases
  <1>3. CASE \E k \in 0 .. 4 : Heading(t, p, k) /\ IF h THEN e.stage = "header" /\ e.pos = 7 - k
                                                   ELSE e.stage = "idle"
    <2>1. PICK k \in 0 .. 4 : Heading(t, p, k) /\ IF h THEN e.stage = "header" /\ e.pos = 7 - k
                                                  ELSE e.stage = "idle"
      BY <1>3
    <2>2. k \in Nat OBVIOUS
    <2>3. /\ Head(t).do = "put"
          /\ IF k = 0 THEN Head(t) = Put(HeadCell(p)) /\ Headed(Tail(t)) ELSE Heading(Tail(t), p, k - 1)
      BY <2>1, <2>2, HeadingPeels
    <2> QED BY <2>1, <2>3 DEF SavePhases
  <1>4. CASE Headed(t) /\ IF h THEN e.stage = "header" /\ e.hdr = HeadCell(p) /\ at # 0 ELSE e.stage = "idle"
    BY <1>4, HeadedPeels DEF SavePhases
  <1>5. CASE Bodied(t) /\ e.stage \in {"idle", "body"} /\ (e.stage = "body" => e.hdr = HeadCell(p))
    BY <1>5, BodiedPeels DEF SavePhases
  <1>6. CASE Rewound(t) /\ e.stage = "idle" /\ (d => at = 0) BY <1>6, RewoundPeels DEF SavePhases
  <1>7. CASE CountMark(t) /\ IF h THEN e.stage = "count" /\ e.pos = 3 ELSE e.stage = "idle"
    <2>1. Put(Mark).do = "put" BY Acts
    <2> QED BY <1>7, <2>1, CountMarkPeels DEF SavePhases
  <1>8. CASE Counting(t) /\ IF h THEN e.stage = "count" /\ e.pos = 4 ELSE e.stage = "idle"
    BY <1>8, CountingPeels DEF SavePhases
  <1> QED BY <1>1, <1>2, <1>3, <1>4, <1>5, <1>6, <1>7, <1>8 DEF SaveFine

LEMMA FormatPhase ==
  ASSUME NEW t, NEW e, NEW at, NEW d, FormatFine(t, e, at, d), t # <<>>
  PROVE  \/ /\ Erasing(t) /\ e.stage = "idle" /\ (d => at = 0)
            /\ \/ Head(t).do = "sync" /\ Wiping(Tail(t))
               \/ Head(t).do \in {"on", "gap"} /\ Erasing(Tail(t))
         \/ /\ Wiping(t) /\ e.stage \in {"idle", "count", "formatting"}
            /\ \/ Head(t).do = "sync" /\ Wiped(Tail(t))
               \/ Head(t).do \in {"put", "trailer"} /\ Wiping(Tail(t))
         \/ /\ Wiped(t) /\ e.stage \in {"idle", "count", "formatting", "header"}
            /\ Head(t).do \in {"put", "off"} /\ Wiped(Tail(t))
  <1>1. CASE Erasing(t) /\ e.stage = "idle" /\ (d => at = 0) BY <1>1, ErasingPeels
  <1>2. CASE Wiping(t) /\ e.stage \in {"idle", "count", "formatting"} BY <1>2, WipingPeels
  <1>3. CASE Wiped(t) /\ e.stage \in {"idle", "count", "formatting", "header"} BY <1>3, WipedPeels
  <1> QED BY <1>1, <1>2, <1>3 DEF FormatFine

\* The motor is switched off in a routine: the drive is home, the engine idle.
LEMMA OffFits ==
  ASSUME NEW op \in Ops, NEW t, NEW p \in Nat, NEW e, NEW at, NEW h, NEW d, Fits(op, t, p, e, at, h, d),
         t # <<>>, Head(t).do = "off", NEW e2, e2.stage = "idle", NEW h2
  PROVE  Fits(op, Tail(t), p, e2, 0, h2, d)
  <1>1. Head(t).do \notin Passing \cup {"count", "check", "on", "gap", "sync", "put", "trailer"} BY DEF Passing
  <1>2. op # "none" BY DEF Fits
  <1>3. CASE op = "list"
    <2>1. Finished(t) BY <1>3 DEF Fits
    <2>2. Finished(Tail(t)) BY <2>1, FinishedPeels
    <2> QED BY <1>3, <2>2 DEF Fits
  <1>4. CASE op = "format"
    <2>1. FormatFine(t, e, at, d) BY <1>4 DEF Fits
    <2>2. Wiped(Tail(t)) BY <1>1, <2>1, FormatPhase
    <2> QED BY <1>4, <2>2 DEF Fits, FormatFine
  <1>5. CASE op = "save"
    <2>1. SaveFine(t, p, e, at, h, d) /\ p \in DOMAIN Programs BY <1>5 DEF Fits
    <2>2. Finished(Tail(t)) \/ Rewound(Tail(t)) BY <1>1, <2>1, SavePhase DEF SavePhases
    <2>3. SaveFine(Tail(t), p, e2, 0, h2, d) BY <2>2 DEF SaveFine
    <2> QED BY <1>5, <2>1, <2>3 DEF Fits
  <1> QED BY <1>2, <1>3, <1>4, <1>5 DEF Ops

LEMMA GapFits ==
  ASSUME NEW op \in Ops, NEW t, NEW p \in Nat, NEW e, NEW at, NEW h, NEW d, Fits(op, t, p, e, at, h, d),
         t # <<>>, Head(t).do = "gap", NEW at2, at # 0 => at2 # 0, d => at2 = at
  PROVE  Fits(op, Tail(t), p, e, at2, h, d)
  <1>1. Head(t).do \notin Reading \cup {"sync", "put", "trailer"} BY DEF Passing, Reading
  <1>2. "off" \in Reading /\ "on" \in Reading BY DEF Reading
  <1>3. op # "none" BY DEF Fits
  <1>4. op # "list" BY <1>1, FinishedPeels DEF Fits
  <1>5. CASE op = "format"
    <2>1. FormatFine(t, e, at, d) BY <1>5 DEF Fits
    <2>2. Erasing(Tail(t)) /\ e.stage = "idle" /\ (d => at = 0) BY <1>1, <1>2, <2>1, FormatPhase
    <2> QED BY <1>5, <2>2 DEF Fits, FormatFine
  <1>6. CASE op = "save"
    <2>1. SaveFine(t, p, e, at, h, d) /\ p \in DOMAIN Programs BY <1>6 DEF Fits
    <2>2. \/ Passed(Tail(t), p) /\ e.stage = "idle" /\ (h => at # 0)
          \/ Headed(Tail(t)) /\ IF h THEN e.stage = "header" /\ e.hdr = HeadCell(p) /\ at # 0
                                ELSE e.stage = "idle"
          \/ Rewound(Tail(t)) /\ e.stage = "idle" /\ (d => at = 0)
      BY <1>1, <1>2, <2>1, SavePhase DEF SavePhases
    <2>3. SaveFine(Tail(t), p, e, at2, h, d) BY <2>2 DEF SaveFine
    <2> QED BY <1>6, <2>1, <2>3 DEF Fits
  <1> QED BY <1>3, <1>4, <1>5, <1>6 DEF Ops

LEMMA TrailerFits ==
  ASSUME NEW op \in Ops, NEW t, NEW p \in Nat, NEW e, NEW at, NEW h, NEW d, Fits(op, t, p, e, at, h, d),
         t # <<>>, Head(t).do = "trailer", NEW e2, e2.stage = e.stage, e2.hdr = e.hdr,
         NEW at2, at # 0 => at2 # 0
  PROVE  Fits(op, Tail(t), p, e2, at2, h, d)
  <1>1. Head(t).do \notin {"sync", "put", "off", "on", "gap"} \cup Passing BY DEF Passing
  <1>2. op # "none" BY DEF Fits
  <1>3. CASE op = "list"
    <2>1. Finished(t) /\ e.stage = "idle" BY <1>3 DEF Fits
    <2>2. Finished(Tail(t)) BY <2>1, FinishedPeels
    <2> QED BY <1>3, <2>1, <2>2 DEF Fits
  <1>4. CASE op = "format"
    <2>1. FormatFine(t, e, at, d) BY <1>4 DEF Fits
    <2>2. Wiping(Tail(t)) /\ e.stage \in {"idle", "count", "formatting"} BY <1>1, <2>1, FormatPhase
    <2> QED BY <1>4, <2>2 DEF Fits, FormatFine
  <1>5. CASE op = "save"
    <2>1. SaveFine(t, p, e, at, h, d) /\ p \in DOMAIN Programs BY <1>5 DEF Fits
    <2>2. \/ Finished(Tail(t)) /\ e.stage = "idle"
          \/ Headed(Tail(t)) /\ IF h THEN e.stage = "header" /\ e.hdr = HeadCell(p) /\ at # 0
                                ELSE e.stage = "idle"
          \/ Bodied(Tail(t)) /\ e.stage \in {"idle", "body"} /\ (e.stage = "body" => e.hdr = HeadCell(p))
      BY <1>1, <2>1, SavePhase DEF SavePhases
    <2>3. SaveFine(Tail(t), p, e2, at2, h, d) BY <2>2 DEF SaveFine
    <2> QED BY <1>5, <2>1, <2>3 DEF Fits
  <1> QED BY <1>2, <1>3, <1>4, <1>5 DEF Ops

\* The sync mark: what the engine makes of it when it hears the guest.
LEMMA SyncFits ==
  ASSUME NEW op \in Ops, NEW t, NEW p \in Nat, NEW e, NEW at, NEW h, NEW d, Fits(op, t, p, e, at, h, d),
         t # <<>>, Head(t).do = "sync", h => d
  PROVE  /\ e.stage # "body"
         /\ \A e2, at2 :
              /\ ~h => e2 = e
              /\ h => /\ e2.pos = 3
                      /\ e2.stage = IF e.stage = "formatting" THEN "formatting"
                                    ELSE IF at = 0 THEN "count" ELSE IF e.stage = "header" THEN "body" ELSE "header"
                      /\ e.stage = "header" /\ at # 0 => e2.hdr = e.hdr
              => Fits(op, Tail(t), p, e2, at2, h, d)
  <1>1. Head(t).do \notin Reading \cup {"gap", "put", "trailer"} BY DEF Passing, Reading
  <1>2. "off" \in Reading /\ "on" \in Reading /\ Passing \subseteq Reading BY DEF Reading
  <1>3. op # "none" BY DEF Fits
  <1>4. op # "list" BY <1>1, FinishedPeels DEF Fits
  <1> DEFINE Heard2(e2) == /\ ~h => e2 = e
                           /\ h => /\ e2.pos = 3
                                   /\ e2.stage = IF e.stage = "formatting" THEN "formatting"
                                                 ELSE IF at = 0 THEN "count"
                                                 ELSE IF e.stage = "header" THEN "body" ELSE "header"
                                   /\ e.stage = "header" /\ at # 0 => e2.hdr = e.hdr
  <1>5. CASE op = "format"
    <2>1. FormatFine(t, e, at, d) BY <1>5 DEF Fits
    <2>2. \/ Wiping(Tail(t)) /\ e.stage = "idle" /\ (d => at = 0)
          \/ Wiped(Tail(t)) /\ e.stage \in {"idle", "count", "formatting"}
      BY <1>1, <1>2, <2>1, FormatPhase
    <2>3. ASSUME NEW e2, NEW at2, Heard2(e2) PROVE FormatFine(Tail(t), e2, at2, d)
      BY <2>2, <2>3 DEF FormatFine
    <2> QED BY <1>5, <2>2, <2>3 DEF Fits
  <1>6. CASE op = "save"
    <2>1. SaveFine(t, p, e, at, h, d) /\ p \in DOMAIN Programs BY <1>6 DEF Fits
    <2>2. \/ Heading(Tail(t), p, 4) /\ e.stage = "idle" /\ (h => at # 0)
          \/ Bodied(Tail(t)) /\ IF h THEN e.stage = "header" /\ e.hdr = HeadCell(p) /\ at # 0
                                ELSE e.stage = "idle"
          \/ CountMark(Tail(t)) /\ e.stage = "idle" /\ (d => at = 0)
      BY <1>1, <1>2, <2>1, SavePhase DEF SavePhases
    <2>3. ASSUME NEW e2, NEW at2, Heard2(e2) PROVE SaveFine(Tail(t), p, e2, at2, h, d)
      <3>1. CASE Heading(Tail(t), p, 4) /\ e.stage = "idle" /\ (h => at # 0)
        <4>1. IF h THEN e2.stage = "header" /\ e2.pos = 7 - 4 ELSE e2.stage = "idle" BY <2>3, <3>1
        <4>2. 4 \in 0 .. 4 OBVIOUS
        <4> QED BY <3>1, <4>1, <4>2 DEF SaveFine
      <3>2. CASE Bodied(Tail(t)) /\ IF h THEN e.stage = "header" /\ e.hdr = HeadCell(p) /\ at # 0
                                    ELSE e.stage = "idle"
        <4>1. e2.stage \in {"idle", "body"} /\ (e2.stage = "body" => e2.hdr = HeadCell(p)) BY <2>3, <3>2
        <4> QED BY <3>2, <4>1 DEF SaveFine
      <3>3. CASE CountMark(Tail(t)) /\ e.stage = "idle" /\ (d => at = 0)
        <4>1. IF h THEN e2.stage = "count" /\ e2.pos = 3 ELSE e2.stage = "idle" BY <2>3, <3>3
        <4> QED BY <3>3, <4>1 DEF SaveFine
      <3> QED BY <2>2, <3>1, <3>2, <3>3
    <2>4. e.stage # "body" BY <2>2
    <2> QED BY <1>6, <2>1, <2>3, <2>4 DEF Fits
  <1> QED BY <1>3, <1>4, <1>5, <1>6 DEF Ops

\* A byte: what the engine makes of it when it hears the guest.
Made(e, e2, v) ==
    /\ e.stage # "body" /\ ~(e.stage = "count" /\ e.pos = 4) =>
          /\ e2.stage = e.stage
          /\ e.stage \in {"header", "count"} => e2.pos = e.pos + 1
          /\ e.stage = "header" => e2.hdr = IF e.pos = 7 THEN v ELSE e.hdr
    /\ e.stage = "count" /\ e.pos = 4 => e2.stage = IF v = 0 THEN "formatting" ELSE "idle"
    /\ e.stage = "body" => e2.stage \in {"idle", "body"} /\ (e2.stage = "body" => e2.hdr = e.hdr)

LEMMA PutFits ==
  ASSUME NEW op \in Ops, NEW t, NEW p \in Nat, NEW e, NEW at, NEW h, NEW d, Fits(op, t, p, e, at, h, d),
         t # <<>>, Head(t).do = "put"
  PROVE  /\ e.stage = "body" => op = "save" /\ p \in DOMAIN Programs /\ e.hdr = HeadCell(p)
         /\ h /\ e.stage = "count" /\ e.pos = 4 /\ Head(t).v = 0 => op = "format"
         /\ \A e2, at2 : /\ ~h => e2 = e
                         /\ h => Made(e, e2, Head(t).v) /\ at2 # 0
                         => Fits(op, Tail(t), p, e2, at2, h, d)
  <1>1. Head(t).do \notin Reading \cup {"gap", "sync", "trailer"} BY DEF Passing, Reading
  <1>2. "off" \in Reading /\ "on" \in Reading /\ Passing \subseteq Reading BY DEF Reading
  <1>3. op # "none" BY DEF Fits
  <1>4. op # "list" BY <1>1, FinishedPeels DEF Fits
  <1> DEFINE v == Head(t).v
             Heard2(e2, at2) == (~h => e2 = e) /\ (h => Made(e, e2, v) /\ at2 # 0)
  <1>5. CASE op = "format"
    <2>1. FormatFine(t, e, at, d) BY <1>5 DEF Fits
    <2>2. \/ Wiping(Tail(t)) /\ e.stage \in {"idle", "count", "formatting"}
          \/ Wiped(Tail(t)) /\ e.stage \in {"idle", "count", "formatting", "header"}
      BY <1>1, <1>2, <2>1, FormatPhase
    <2>3. ASSUME NEW e2, NEW at2, Heard2(e2, at2) PROVE FormatFine(Tail(t), e2, at2, d)
      <3>1. \/ e2.stage = e.stage
            \/ e.stage = "count" /\ e2.stage \in {"idle", "formatting"}
        BY <2>2, <2>3 DEF Made
      <3> QED BY <2>2, <3>1 DEF FormatFine
    <2> QED BY <1>5, <2>2, <2>3 DEF Fits
  <1>6. CASE op = "save"
    <2>1. SaveFine(t, p, e, at, h, d) /\ p \in DOMAIN Programs BY <1>6 DEF Fits
    <2>2. \/ \E k \in 0 .. 4 :
                /\ IF h THEN e.stage = "header" /\ e.pos = 7 - k ELSE e.stage = "idle"
                /\ IF k = 0 THEN Head(t) = Put(HeadCell(p)) /\ Headed(Tail(t)) ELSE Heading(Tail(t), p, k - 1)
          \/ Bodied(Tail(t)) /\ e.stage \in {"idle", "body"} /\ (e.stage = "body" => e.hdr = HeadCell(p))
          \/ Counting(Tail(t)) /\ IF h THEN e.stage = "count" /\ e.pos = 3 ELSE e.stage = "idle"
          \/ v # 0 /\ Finished(Tail(t)) /\ IF h THEN e.stage = "count" /\ e.pos = 4 ELSE e.stage = "idle"
      <3>1. /\ Head(t).do \notin Reading \cup {"trailer"} /\ Head(t).do # "sync"
            /\ Head(t).do \notin Passing \cup {"gap"} /\ Head(t).do \notin {"trailer", "gap"}
            /\ Head(t).do # "off" /\ Head(t).do \notin {"on", "gap"}
        BY <1>1, <1>2
      <3> QED BY <2>1, <3>1, SavePhase DEF SavePhases
    <2>3. ASSUME NEW e2, NEW at2, Heard2(e2, at2) PROVE SaveFine(Tail(t), p, e2, at2, h, d)
      <3>1. CASE \E k \in 0 .. 4 :
                    /\ IF h THEN e.stage = "header" /\ e.pos = 7 - k ELSE e.stage = "idle"
                    /\ IF k = 0 THEN Head(t) = Put(HeadCell(p)) /\ Headed(Tail(t)) ELSE Heading(Tail(t), p, k - 1)
        <4>1. PICK k \in 0 .. 4 :
                    /\ IF h THEN e.stage = "header" /\ e.pos = 7 - k ELSE e.stage = "idle"
                    /\ IF k = 0 THEN Head(t) = Put(HeadCell(p)) /\ Headed(Tail(t)) ELSE Heading(Tail(t), p, k - 1)
          BY <3>1
        <4>2. CASE k = 0
          <5>1. Head(t) = Put(HeadCell(p)) /\ Headed(Tail(t)) BY <4>1, <4>2
          <5>2. v = HeadCell(p) BY <5>1, Acts
          <5> HIDE DEF v
          <5>3. h => e.stage = "header" /\ e.pos = 7 BY <4>1, <4>2
          <5>4. h => e2.stage = "header" /\ e2.hdr = HeadCell(p) /\ at2 # 0 BY <2>3, <5>2, <5>3 DEF Made
          <5>5. ~h => e2.stage = "idle" BY <2>3, <4>1
          <5> QED BY <5>1, <5>4, <5>5 DEF SaveFine
        <4>3. CASE k # 0
          <5>1. Heading(Tail(t), p, k - 1) /\ k - 1 \in 0 .. 4 BY <4>1, <4>3
          <5>2. h => e.stage = "header" /\ e.pos = 7 - k BY <4>1
          <5>3. h => e2.stage = "header" /\ e2.pos = (7 - k) + 1 BY <2>3, <5>2 DEF Made
          <5>4. (7 - k) + 1 = 7 - (k - 1) OBVIOUS
          <5>5. ~h => e2.stage = "idle" BY <2>3, <4>1
          <5>6. IF h THEN e2.stage = "header" /\ e2.pos = 7 - (k - 1) ELSE e2.stage = "idle"
            BY <5>3, <5>4, <5>5
          <5> QED BY <5>1, <5>6 DEF SaveFine
        <4> QED BY <4>2, <4>3
      <3>2. CASE Bodied(Tail(t)) /\ e.stage \in {"idle", "body"} /\ (e.stage = "body" => e.hdr = HeadCell(p))
        <4>1. e2.stage \in {"idle", "body"} /\ (e2.stage = "body" => e2.hdr = HeadCell(p))
          BY <2>3, <3>2 DEF Made
        <4> QED BY <3>2, <4>1 DEF SaveFine
      <3>3. CASE Counting(Tail(t)) /\ IF h THEN e.stage = "count" /\ e.pos = 3 ELSE e.stage = "idle"
        <4>1. h => e2.stage = "count" /\ e2.pos = 3 + 1 BY <2>3, <3>3 DEF Made
        <4>2. ~h => e2.stage = "idle" BY <2>3, <3>3
        <4>3. 3 + 1 = 4 OBVIOUS
        <4> QED BY <3>3, <4>1, <4>2, <4>3 DEF SaveFine
      <3>4. CASE v # 0 /\ Finished(Tail(t)) /\ IF h THEN e.stage = "count" /\ e.pos = 4 ELSE e.stage = "idle"
        <4> HIDE DEF v
        <4>1. e2.stage = "idle" BY <2>3, <3>4 DEF Made
        <4> QED BY <3>4, <4>1 DEF SaveFine
      <3> QED BY <2>2, <3>1, <3>2, <3>3, <3>4
    <2>4. (e.stage = "body" => e.hdr = HeadCell(p)) /\ ~(h /\ e.stage = "count" /\ e.pos = 4 /\ v = 0)
      BY <2>2
    <2> QED BY <1>6, <2>1, <2>3, <2>4 DEF Fits
  <1> QED BY <1>3, <1>4, <1>5, <1>6 DEF Ops

-----------------------------------------------------------------------------
(* The steps.                                                              *)

LEMMA JobMoves ==
  ASSUME job \in JobType, NEW t \in Seq(Act), NEW ok \in BOOLEAN, Going(t, ok)
  PROVE  job' \in JobType /\ job'.op = job.op /\ job'.p = job.p /\ job'.todo = t
  <1>1. job' = [job EXCEPT !.todo = t, !.fault = @ \/ ~ok] BY DEF Going
  <1> DEFINE f == job.fault \/ ~ok
  <1>2. f \in BOOLEAN OBVIOUS
  <1>3. job' = [job EXCEPT !.todo = t, !.fault = f] BY <1>1 DEF JobType
  <1> HIDE DEF f
  <1> QED BY <1>2, <1>3 DEF JobType

LEMMA JobGivesUp ==
  ASSUME job \in JobType, NEW ok \in BOOLEAN, GivesUp(ok)
  PROVE  job' \in JobType /\ job'.op = job.op /\ job'.p = job.p /\ job'.todo = <<Do("off")>>
  <1> DEFINE f == job.fault \/ ~ok
             t == <<Do("off")>>
  <1>1. job' = [job EXCEPT !.todo = t, !.fault = @ \/ ~ok, !.failed = TRUE] BY DEF GivesUp
  <1>2. f \in BOOLEAN /\ TRUE \in BOOLEAN OBVIOUS
  <1>3. t \in Seq(Act) BY Singles DEF Doings, Reading
  <1> HIDE DEF t
  <1>4. job' = [job EXCEPT !.todo = t, !.fault = f, !.failed = TRUE] BY <1>1 DEF JobType
  <1> HIDE DEF f
  <1>5. job' \in JobType /\ job'.op = job.op /\ job'.p = job.p /\ job'.todo = t BY <1>2, <1>3, <1>4 DEF JobType
  <1> QED BY <1>5 DEF t

LEMMA NowIs ==
  ASSUME ScriptFine, NEW op, Now(op)
  PROVE  /\ job \in JobType /\ job.op \in Ops /\ job.p \in Nat /\ job.todo \in Seq(Act) /\ job.todo # <<>>
         /\ Head(job.todo).do = op /\ Head(job.todo) \in Act /\ Rest = Tail(job.todo) /\ Rest \in Seq(Act)
         /\ Fits(job.op, job.todo, job.p, engine, drive.at, Heard, IsDir)
         /\ job.op # "none" /\ ~Idle
  <1>1. job \in JobType /\ Fits(job.op, job.todo, job.p, engine, drive.at, Heard, IsDir) BY DEF ScriptFine
  <1>2. job.todo # <<>> /\ Head(job.todo).do = op BY DEF Now
  <1>3. job.op \in Ops /\ job.p \in Nat /\ job.todo \in Seq(Act) BY <1>1 DEF JobType, Ops
  <1>4. Head(job.todo) \in Act /\ Tail(job.todo) \in Seq(Act) BY <1>2, <1>3
  <1>5. job.op # "none" BY <1>1, <1>2 DEF Fits
  <1> QED BY <1>1, <1>2, <1>3, <1>4, <1>5 DEF Rest, Idle

LEMMA SameDrive ==
  ASSUME UNCHANGED cfg, drive'.std = drive.std, drive'.ready = drive.ready, drive'.motor = drive.motor
  PROVE  Heard' = Heard /\ IsDir' = IsDir
  <1>1. IsDir' = IsDir BY DEF IsDir
  <1>2. Writable' = Writable BY DEF Writable
  <1> QED BY <1>1, <1>2 DEF Heard

LEMMA StartKeeps ==
  ASSUME Inv, UNCHANGED cfg, NEW op, NEW p, Start(op, p),
         (op = "save" /\ p \in DOMAIN Programs) \/ (op \in {"list", "format"} /\ p = 1)
  PROVE  Inv' /\ Kept
  <1>1. Idle /\ UNCHANGED <<cfg, drive, src, image, dir, temp, served, engine>> BY DEF Start
  <1>2. DriveFine' /\ HeadFine' /\ DirFine' /\ EngineFine'
    BY <1>1 DEF Inv, DriveFine, HeadFine, DirFine, EngineFine
  <1>3. drive.at = 0 /\ engine.stage = "idle" BY <1>1 DEF Inv, ScriptFine, Fits, Idle
  <1> DEFINE c == Reasonable(op, p)
             t == IF op = "format" THEN Formatting ELSE Opening
  <1>4. c \in BOOLEAN BY DEF Reasonable
  <1>5. Finished(Opening) /\ Opening \in Seq(Act) BY Endings DEF Finished, Within
  <1>6. Erasing(Formatting) /\ Formatting \in Seq(Act) BY FormattingStarts, ErasingPeels
  <1>7. t \in Seq(Act) BY <1>5, <1>6
  <1>8. p \in Nat /\ op \in {"list", "save", "format"} BY Numbers
  <1>9. job' = [NoJob EXCEPT !.op = op, !.p = p, !.clean = c, !.todo = t] BY DEF Start
  <1>10. job' = [op |-> op, p |-> p, todo |-> t, heard |-> <<>>, clean |-> c, fault |-> FALSE, failed |-> FALSE]
    <2> HIDE DEF c, t
    <2> QED BY <1>9 DEF NoJob
  <1>11. job' \in JobType
    <2>1. <<>> \in Seq(Nat) /\ FALSE \in BOOLEAN OBVIOUS
    <2> HIDE DEF c, t
    <2> QED BY <1>4, <1>7, <1>8, <1>10, <2>1 DEF JobType
  <1>12. job'.op = op /\ job'.p = p /\ job'.todo = t BY <1>10
  <1>13. Fits(op, t, p, engine, 0, Heard, IsDir)
    <2>1. CASE op = "format"
      <3>1. t = Formatting BY <2>1
      <3> HIDE DEF t
      <3> QED BY <1>3, <1>6, <2>1, <3>1 DEF Fits, FormatFine
    <2>2. CASE op \in {"list", "save"}
      <3>1. t = Opening BY <2>2
      <3> HIDE DEF t
      <3> QED BY <1>3, <1>5, <2>2, <3>1 DEF Fits, SaveFine
    <2> QED BY <1>8, <2>1, <2>2
  <1>14. ScriptFine'
    <2>1. Heard' = Heard /\ IsDir' = IsDir BY <1>1, SameDrive
    <2> HIDE DEF t
    <2> QED BY <1>1, <1>3, <1>11, <1>12, <1>13, <2>1 DEF ScriptFine
  <1> QED BY <1>1, <1>2, <1>14 DEF Inv, Kept

LEMMA MotorOnKeeps ==
  ASSUME Inv, UNCHANGED cfg, MotorOn
  PROVE  Inv' /\ Kept
  <1>1. /\ Now("on") /\ drive' = [drive EXCEPT !.motor = TRUE, !.tx = "off", !.crc = FALSE] /\ Going(Rest, TRUE)
        /\ UNCHANGED <<cfg, src, image, engine, dir, temp, served>>
    BY DEF MotorOn, Untouched
  <1>2. /\ drive' \in DriveType /\ drive'.std = drive.std /\ drive'.ready = drive.ready /\ drive'.at = drive.at
    BY <1>1 DEF Inv, DriveFine, DriveType
  <1>3. DriveFine' /\ HeadFine' /\ DirFine' /\ EngineFine'
    BY <1>1, <1>2 DEF Inv, DriveFine, HeadFine, DirFine, EngineFine
  <1>4. ScriptFine BY DEF Inv
  <1>5. job' \in JobType /\ job'.op = job.op /\ job'.p = job.p /\ job'.todo = Tail(job.todo)
    <2>1. TRUE \in BOOLEAN OBVIOUS
    <2> QED BY <1>1, <1>4, <2>1, NowIs, JobMoves
  <1>6. \A h2 : Fits(job.op, Tail(job.todo), job.p, engine, drive.at, h2, IsDir)
    BY <1>1, <1>4, NowIs, OnFits
  <1>7. IsDir' = IsDir BY <1>2 DEF IsDir
  <1>8. ScriptFine' BY <1>1, <1>2, <1>5, <1>6, <1>7 DEF ScriptFine
  <1> QED BY <1>1, <1>3, <1>8 DEF Inv, Kept

\* A source that is sought to its start, with the head there.
LEMMA SoughtKeeps ==
  ASSUME DriveFine, HeadFine, UNCHANGED <<cfg, image>>, src' = Sought(0), drive'.std = drive.std, drive'.at = 0
  PROVE  HeadFine'
  <1>1. image \in Seq(Nat) /\ Len(image) = Len(cfg.image) /\ src \in 0 .. Len(image) BY DEF HeadFine
  <1>2. src' = src \/ src' = 0 BY DEF Sought
  <1>3. src' \in 0 .. Len(image) BY <1>1, <1>2
  <1>4. ASSUME drive.std = "image", 0 < Len(image) PROVE src' = 0
    <2>1. drive.ready /\ ~IsDir /\ Size = Len(image) BY <1>4, DriveIs
    <2>2. ~(0 >= Size) BY <1>1, <1>4, <2>1
    <2> QED BY <2>1, <2>2 DEF Sought
  <1> QED BY <1>1, <1>3, <1>4 DEF HeadFine

\* The guest is gone: the drive is home and the engine at rest.
LEMMA RestIsFine ==
  ASSUME job' = NoJob, drive'.at = 0, engine'.stage = "idle"
  PROVE  ScriptFine'
  <1>1. job' \in JobType /\ job'.op = "none" /\ job'.todo = <<>>
    <2>1. <<>> \in Seq(Nat) /\ <<>> \in Seq(Act) /\ 0 \in Nat /\ FALSE \in BOOLEAN /\ TRUE \in BOOLEAN OBVIOUS
    <2> QED BY <2>1 DEF NoJob, JobType
  <1> QED BY <1>1 DEF ScriptFine, Fits

LEMMA MotorOffKeeps ==
  ASSUME Inv, UNCHANGED cfg, MotorOff
  PROVE  Inv' /\ Kept
  <1>1. /\ drive' = [drive EXCEPT !.motor = FALSE, !.at = 0, !.home = TRUE]
        /\ src' = Sought(0) /\ engine' = Aborted /\ temp' = TempDropped
        /\ job' = (IF Now("off") /\ Rest # <<>> THEN [job EXCEPT !.todo = Rest] ELSE NoJob)
        /\ UNCHANGED <<cfg, image, dir, served>>
    BY DEF MotorOff
  <1>2. DriveFine /\ HeadFine /\ DirFine /\ EngineFine /\ ScriptFine BY DEF Inv
  <1>3. drive' \in DriveType /\ drive'.std = drive.std /\ drive'.ready = drive.ready /\ drive'.at = 0
    <2>1. drive \in DriveType /\ 0 \in 0 .. Limit + 1
      <3>1. Limit \in Nat BY Numbers
      <3> QED BY <1>2, <3>1 DEF DriveFine
    <2> QED BY <1>1, <2>1 DEF DriveType
  <1>4. DriveFine' /\ DirFine' BY <1>1, <1>2, <1>3 DEF DriveFine, DirFine
  <1>5. HeadFine' BY <1>1, <1>2, <1>3, SoughtKeeps
  <1>6. EngineFine' /\ engine'.stage = "idle"
    <2>1. engine' \in EngineType /\ engine'.stage = "idle" /\ engine'.open = FALSE BY <1>1, <1>2, AbortedIs
    <2> QED BY <2>1 DEF EngineFine
  <1>7. ScriptFine'
    <2>1. CASE Now("off") /\ Rest # <<>>
      <3>1. job' = [job EXCEPT !.todo = Rest] BY <1>1, <2>1
      <3>2. /\ job \in JobType /\ Rest \in Seq(Act) /\ Rest = Tail(job.todo)
        BY <1>2, <2>1, NowIs
      <3>3. job' \in JobType /\ job'.op = job.op /\ job'.p = job.p /\ job'.todo = Tail(job.todo)
        <4> DEFINE r == Rest
        <4>1. job' = [job EXCEPT !.todo = r] /\ r \in Seq(Act) /\ r = Tail(job.todo) BY <3>1, <3>2
        <4> HIDE DEF r
        <4> QED BY <3>2, <4>1 DEF JobType
      <3>4. \A e2, h2 : e2.stage = "idle" => Fits(job.op, Tail(job.todo), job.p, e2, 0, h2, IsDir)
        BY <1>2, <2>1, NowIs, OffFits
      <3>5. IsDir' = IsDir BY <1>3 DEF IsDir
      <3> QED BY <1>3, <1>6, <3>3, <3>4, <3>5 DEF ScriptFine
    <2>2. CASE ~(Now("off") /\ Rest # <<>>)
      <3>1. job' = NoJob BY <1>1, <2>2
      <3> QED BY <1>3, <1>6, <3>1, RestIsFine
    <2> QED BY <2>1, <2>2
  <1> QED BY <1>1, <1>4, <1>5, <1>6, <1>7 DEF Inv, Kept

LEMMA ReceiveKeeps ==
  ASSUME Inv, UNCHANGED cfg, Receive
  PROVE  Inv' /\ Kept
  <1>1. /\ Now("receive") /\ drive' = [drive EXCEPT !.tx = "off"] /\ Going(Rest, TRUE)
        /\ UNCHANGED <<cfg, src, image, engine, dir, temp, served>>
    BY DEF Receive, Untouched
  <1>2. drive' \in DriveType /\ drive'.std = drive.std /\ drive'.ready = drive.ready /\ drive'.at = drive.at
        /\ drive'.motor = drive.motor
    BY <1>1 DEF Inv, DriveFine, DriveType
  <1>3. DriveFine' /\ HeadFine' /\ DirFine' /\ EngineFine'
    BY <1>1, <1>2 DEF Inv, DriveFine, HeadFine, DirFine, EngineFine
  <1>4. ScriptFine BY DEF Inv
  <1>5. job' \in JobType /\ job'.op = job.op /\ job'.p = job.p /\ job'.todo = Tail(job.todo)
    <2>1. TRUE \in BOOLEAN OBVIOUS
    <2> QED BY <1>1, <1>4, <2>1, NowIs, JobMoves
  <1>6. Fits(job.op, Tail(job.todo), job.p, engine, drive.at, Heard, IsDir)
    <2>1. Head(job.todo).do \in Passing BY <1>1, <1>4, NowIs DEF Passing
    <2> QED BY <1>1, <1>4, <2>1, NowIs, ReadFits
  <1>7. ScriptFine'
    <2>1. Heard' = Heard /\ IsDir' = IsDir BY <1>1, <1>2, SameDrive
    <2> QED BY <1>1, <1>2, <1>5, <1>6, <2>1 DEF ScriptFine
  <1> QED BY <1>1, <1>3, <1>7 DEF Inv, Kept

LEMMA VerifyKeeps ==
  ASSUME Inv, UNCHANGED cfg, Verify
  PROVE  Inv' /\ Kept
  <1> DEFINE b == job.heard # <<HeadCell(job.p)>> \o Programs[job.p].body
             r == Rest
  <1>1. /\ Now("check") /\ job' = [job EXCEPT !.todo = r, !.heard = <<>>, !.failed = b]
        /\ UNCHANGED <<cfg, drive, src, image, engine, dir, temp, served>>
    BY DEF Verify, Untouched
  <1>2. DriveFine' /\ HeadFine' /\ DirFine' /\ EngineFine'
    BY <1>1 DEF Inv, DriveFine, HeadFine, DirFine, EngineFine
  <1>3. ScriptFine BY DEF Inv
  <1>4. r \in Seq(Act) /\ r = Tail(job.todo) /\ job \in JobType BY <1>1, <1>3, NowIs
  <1>5. job' \in JobType /\ job'.op = job.op /\ job'.p = job.p /\ job'.todo = Tail(job.todo)
    <2>1. b \in BOOLEAN /\ <<>> \in Seq(Nat) OBVIOUS
    <2> HIDE DEF b, r
    <2> QED BY <1>1, <1>4, <2>1 DEF JobType
  <1>6. Fits(job.op, Tail(job.todo), job.p, engine, drive.at, Heard, IsDir)
    <2>1. Head(job.todo).do \in {"count", "check"} BY <1>1, <1>3, NowIs
    <2> QED BY <1>1, <1>3, <2>1, NowIs, FinishedFits
  <1>7. ScriptFine'
    <2>1. Heard' = Heard /\ IsDir' = IsDir BY <1>1, SameDrive
    <2> HIDE DEF b, r
    <2> QED BY <1>1, <1>5, <1>6, <2>1 DEF ScriptFine
  <1> QED BY <1>1, <1>2, <1>7 DEF Inv, Kept

LEMMA HuntStepKeeps ==
  ASSUME Inv, UNCHANGED cfg, Hunt
  PROVE  Inv' /\ Kept
  <1>1. Now("hunt") /\ UNCHANGED <<cfg, image, engine, dir, temp, served>> BY DEF Hunt, Untouched
  <1>2. PICK ok \in Works :
           LET h == HuntOver(ok)
           IN  /\ drive' = [drive EXCEPT !.at = h.at]
               /\ src' = h.src
               /\ IF h.found THEN Going(Rest, ok)
                  ELSE IF h.at > Limit \/ ~drive.ready THEN GivesUp(ok)
                  ELSE Going(job.todo, ok)
    BY DEF Hunt
  <1> DEFINE h == HuntOver(ok)
  <1>3. DriveFine /\ HeadFine /\ DirFine /\ EngineFine /\ ScriptFine BY DEF Inv
  <1>4. InStep(h) /\ (drive.at # 0 => h.at # 0) BY <1>3, HuntKeeps
  <1>5. /\ drive' = [drive EXCEPT !.at = h.at] /\ src' = h.src
        /\ Going(Rest, ok) \/ GivesUp(ok) \/ Going(job.todo, ok)
    BY <1>2
  <1>6. ok \in BOOLEAN BY DEF Works
  <1> HIDE DEF h
  <1>7. h.at \in 0 .. Limit + 1 /\ h.src \in 0 .. Len(image) BY <1>4 DEF InStep, HeadType
  <1>8. drive' \in DriveType /\ drive'.std = drive.std /\ drive'.ready = drive.ready /\ drive'.at = h.at
        /\ drive'.motor = drive.motor
    BY <1>3, <1>5, <1>7 DEF DriveFine, DriveType
  <1>9. DriveFine' /\ DirFine' /\ EngineFine' BY <1>1, <1>3, <1>8 DEF DriveFine, DirFine, EngineFine
  <1>10. HeadFine' BY <1>1, <1>3, <1>4, <1>5, <1>7, <1>8 DEF HeadFine, InStep
  <1>11. Head(job.todo).do \in Passing BY <1>1, <1>3, NowIs DEF Passing
  <1>12. /\ Fits(job.op, job.todo, job.p, engine, h.at, Heard, IsDir)
         /\ Fits(job.op, Tail(job.todo), job.p, engine, h.at, Heard, IsDir)
         /\ Fits(job.op, <<Do("off")>>, job.p, engine, h.at, Heard, IsDir)
    BY <1>1, <1>3, <1>4, <1>11, NowIs, ReadFits
  <1>13. /\ job' \in JobType /\ job'.op = job.op /\ job'.p = job.p
         /\ job'.todo = Tail(job.todo) \/ job'.todo = <<Do("off")>> \/ job'.todo = job.todo
    <2>1. job \in JobType /\ Rest \in Seq(Act) /\ Rest = Tail(job.todo) /\ job.todo \in Seq(Act)
      BY <1>1, <1>3, NowIs
    <2>2. CASE Going(Rest, ok) BY <1>6, <2>1, <2>2, JobMoves
    <2>3. CASE GivesUp(ok) BY <1>6, <2>1, <2>3, JobGivesUp
    <2>4. CASE Going(job.todo, ok) BY <1>6, <2>1, <2>4, JobMoves
    <2> QED BY <1>5, <2>2, <2>3, <2>4
  <1>14. ScriptFine'
    <2>1. Heard' = Heard /\ IsDir' = IsDir BY <1>1, <1>8, SameDrive
    <2>2. Fits(job.op, job'.todo, job.p, engine, h.at, Heard, IsDir) BY <1>12, <1>13
    <2> QED BY <1>1, <1>8, <1>13, <2>1, <2>2 DEF ScriptFine
  <1> QED BY <1>1, <1>9, <1>10, <1>14 DEF Inv, Kept

\* What is heard, and what the guest makes of it.
LEMMA HearsFits ==
  ASSUME ScriptFine, NEW v \in Nat, NEW ok \in BOOLEAN, Hears(v, ok), NEW at2, drive.at # 0 => at2 # 0,
         Heard => at2 # 0
  PROVE  /\ job' \in JobType /\ job'.op = job.op /\ job'.p = job.p
         /\ Fits(job.op, job'.todo, job.p, engine, at2, Heard, IsDir)
  <1>1. \E op \in Passing \cup {"count"} : Now(op) BY DEF Hears, Passing
  <1>2. /\ job \in JobType /\ job.op \in Ops /\ job.p \in Nat /\ job.todo \in Seq(Act) /\ job.todo # <<>>
        /\ Head(job.todo).do \in Passing \cup {"count"}
        /\ Rest = Tail(job.todo) /\ Rest \in Seq(Act)
        /\ Fits(job.op, job.todo, job.p, engine, drive.at, Heard, IsDir)
    BY <1>1, NowIs
  <1>3. CASE Head(job.todo).do \in Passing
    <2>1. /\ Fits(job.op, Tail(job.todo), job.p, engine, at2, Heard, IsDir)
          /\ Fits(job.op, <<Do("off")>>, job.p, engine, at2, Heard, IsDir)
          /\ Head(job.todo).do = "size" =>
                \A n \in Nat : Fits(job.op, Reads(job.todo, n), job.p, engine, at2, Heard, IsDir)
      BY <1>2, <1>3, ReadFits
    <2>2. ASSUME NEW h \in Seq(Nat), job' = [job EXCEPT !.todo = Rest, !.fault = @ \/ ~ok, !.heard = h]
          PROVE  job' \in JobType /\ job'.op = job.op /\ job'.p = job.p /\ job'.todo = Tail(job.todo)
      <3> DEFINE r == Rest
                 f == job.fault \/ ~ok
      <3>1. f \in BOOLEAN OBVIOUS
      <3>2. job' = [job EXCEPT !.todo = r, !.fault = f, !.heard = h] BY <1>2, <2>2 DEF JobType
      <3>3. r \in Seq(Act) /\ r = Tail(job.todo) BY <1>2
      <3> HIDE DEF r, f
      <3> QED BY <1>2, <3>1, <3>2, <3>3 DEF JobType
    <2>3. CASE Going(Rest, ok)
      <3>1. job' \in JobType /\ job'.op = job.op /\ job'.p = job.p /\ job'.todo = Tail(job.todo)
        BY <1>2, <2>3, JobMoves
      <3> QED BY <2>1, <3>1
    <2>4. CASE GivesUp(ok)
      <3>1. job' \in JobType /\ job'.op = job.op /\ job'.p = job.p /\ job'.todo = <<Do("off")>>
        BY <1>2, <2>4, JobGivesUp
      <3> QED BY <2>1, <3>1
    <2>5. CASE \E h \in Seq(Nat) : job' = [job EXCEPT !.todo = Rest, !.fault = @ \/ ~ok, !.heard = h]
      <3>1. job' \in JobType /\ job'.op = job.op /\ job'.p = job.p /\ job'.todo = Tail(job.todo)
        BY <2>2, <2>5
      <3> QED BY <2>1, <3>1
    <2>6. CASE Now("size") /\ Going(Payload(Cells(v)), ok)
      <3>1. Cells(v) \in Nat BY DEF Cells
      <3>2. Payload(Cells(v)) = Reads(job.todo, Cells(v)) BY <1>2 DEF Payload, Reads
      <3> DEFINE t == Reads(job.todo, Cells(v))
      <3>3. Head(job.todo).do = "size" BY <2>6, NowIs
      <3>4. Fits(job.op, t, job.p, engine, at2, Heard, IsDir) BY <2>1, <3>1, <3>3
      <3>5. t \in Seq(Act)
        <4>1. Finished(t) \/ Passed(t, job.p)
          <5>1. job.op \in {"list", "save"}
            <6>1. job.op # "none" BY <1>2 DEF Fits
            <6>2. job.op # "format"
              <7>1. SUFFICES ASSUME job.op = "format" PROVE FALSE OBVIOUS
              <7>2. FormatFine(job.todo, engine, drive.at, IsDir) BY <1>2, <7>1 DEF Fits
              <7> QED BY <1>2, <3>3, <7>2, FormatPhase
            <6> QED BY <1>2, <6>1, <6>2 DEF Ops
          <5>2. CASE job.op = "list"
            <6>1. Finished(job.todo) BY <1>2, <5>2 DEF Fits
            <6> QED BY <1>2, <3>1, <3>3, <6>1, FinishedReads
          <5>3. CASE job.op = "save"
            <6>1. SaveFine(job.todo, job.p, engine, drive.at, Heard, IsDir) BY <1>2, <5>3 DEF Fits
            <6>2. SavePhases(job.todo, job.p, engine, drive.at, Heard, IsDir) BY <1>2, <6>1, SavePhase
            <6>3. Finished(job.todo) \/ Passed(job.todo, job.p) BY <3>3, <6>2 DEF SavePhases
            <6>4. CASE Finished(job.todo) BY <1>2, <3>1, <3>3, <6>4, FinishedReads
            <6>5. CASE Passed(job.todo, job.p) BY <1>2, <3>1, <3>3, <6>5, PassedReads
            <6> QED BY <6>3, <6>4, <6>5
          <5> QED BY <5>1, <5>2, <5>3
        <4> HIDE DEF t
        <4>2. Finished(t) => t \in Seq(Act) BY FinishedPeels
        <4>3. Passed(t, job.p) => t \in Seq(Act) BY <1>2, PassedPeels
        <4> QED BY <4>1, <4>2, <4>3
      <3>6. Going(t, ok) BY <2>6, <3>2
      <3> HIDE DEF t
      <3>7. job' \in JobType /\ job'.op = job.op /\ job'.p = job.p /\ job'.todo = t
        BY <1>2, <3>5, <3>6, JobMoves
      <3> QED BY <3>4, <3>7
    <2>7. \/ Going(Rest, ok) \/ GivesUp(ok)
          \/ \E h \in Seq(Nat) : job' = [job EXCEPT !.todo = Rest, !.fault = @ \/ ~ok, !.heard = h]
          \/ Now("size") /\ Going(Payload(Cells(v)), ok)
      <3>1. ~Now("count") BY <1>2, <1>3 DEF Now, Passing
      <3>2. <<>> \in Seq(Nat) /\ Append(job.heard, v) \in Seq(Nat) BY <1>2 DEF JobType
      <3> HIDE DEF Passing
      <3> QED BY <3>1, <3>2 DEF Hears
    <2> QED BY <2>3, <2>4, <2>5, <2>6, <2>7
  <1>4. CASE Head(job.todo).do = "count"
    <2>1. /\ job.op \in {"list", "save"} /\ (job.op = "save" => job.p \in DOMAIN Programs) /\ engine.stage = "idle"
          /\ \A s : Finished(s) => Fits(job.op, s, job.p, engine, at2, Heard, IsDir)
      <3>1. Head(job.todo).do \in {"count", "check"} BY <1>4
      <3>2. /\ job.op \in {"list", "save"} /\ (job.op = "save" => job.p \in DOMAIN Programs) /\ engine.stage = "idle"
            /\ \A s, at3 : Finished(s) => Fits(job.op, s, job.p, engine, at3, Heard, IsDir)
        BY <1>2, <3>1, FinishedFits
      <3> QED BY <3>2
    <2>2. (v <= 2 * MaxFiles /\ Going(AfterCount(v), ok)) \/ GivesUp(ok)
      <3>1. /\ ~Now("mark") /\ ~Now("id") /\ ~Now("size") /\ ~Now("high") /\ ~Now("data") BY <1>4 DEF Now
      <3> QED BY <3>1 DEF Hears
    <2>3. CASE GivesUp(ok)
      <3>1. job' \in JobType /\ job'.op = job.op /\ job'.p = job.p /\ job'.todo = <<Do("off")>>
        BY <1>2, <2>3, JobGivesUp
      <3> QED BY <2>1, <3>1, Endings
    <2>4. CASE v <= 2 * MaxFiles /\ Going(AfterCount(v), ok)
      <3> DEFINE off == <<Do("off")>>
                 t == AfterCount(v)
      <3>1. CASE job.op = "list" \/ v + 2 >= Byte
        <4>1. t = Blocks(v) \o off BY <2>1, <3>1 DEF AfterCount
        <4>2. Finished(t) BY <4>1, Endings
        <4> HIDE DEF t
        <4>3. t \in Seq(Act) BY <4>2, FinishedPeels
        <4>4. job' \in JobType /\ job'.op = job.op /\ job'.p = job.p /\ job'.todo = t
          BY <1>2, <2>4, <4>3, JobMoves DEF t
        <4> QED BY <2>1, <4>2, <4>4
      <3>2. CASE job.op # "list" /\ ~(v + 2 >= Byte)
        <4>1. job.op = "save" /\ job.p \in DOMAIN Programs /\ v + 2 < Byte BY <2>1, <3>2, Numbers
        <4>2. t = Blocks(v) \o Saving(job.p, v) BY <3>2 DEF AfterCount
        <4>3. Passed(t, job.p) BY <4>1, <4>2, BlocksPass, SavingStarts
        <4> HIDE DEF t
        <4>4. t \in Seq(Act) BY <1>2, <4>3, PassedPeels
        <4>5. job' \in JobType /\ job'.op = job.op /\ job'.p = job.p /\ job'.todo = t
          BY <1>2, <2>4, <4>4, JobMoves DEF t
        <4>6. Fits(job.op, t, job.p, engine, at2, Heard, IsDir)
          BY <2>1, <4>1, <4>3 DEF Fits, SaveFine
        <4> QED BY <4>5, <4>6
      <3> QED BY <3>1, <3>2
    <2> QED BY <2>2, <2>3, <2>4
  <1> QED BY <1>2, <1>3, <1>4

\* The script looks at three fields of the engine.
LEMMA FitsAlike ==
  ASSUME NEW op, NEW t, NEW p, NEW e, NEW at, NEW h, NEW d, Fits(op, t, p, e, at, h, d),
         NEW e2, e2.stage = e.stage, e2.pos = e.pos, e2.hdr = e.hdr
  PROVE  Fits(op, t, p, e2, at, h, d)
  <1>1. FormatFine(t, e, at, d) => FormatFine(t, e2, at, d) BY DEF FormatFine
  <1>2. SaveFine(t, p, e, at, h, d) => SaveFine(t, p, e2, at, h, d) BY DEF SaveFine
  <1> QED BY <1>1, <1>2 DEF Fits

\* A fresh listing leaves the engine where it is.
LEMMA RefreshKeeps ==
  ASSUME DirFine, EngineFine, NEW bad, Refreshed(bad), UNCHANGED <<dir, temp>>
  PROVE  /\ DirFine' /\ EngineFine' /\ served' \in Seq(Files(Names))
         /\ engine'.stage = engine.stage /\ engine'.pos = engine.pos /\ engine'.hdr = engine.hdr
  <1>1. dir \in Seq(Entry(Names)) /\ Distinct(dir) /\ Serves(served, dir, Names) BY DEF DirFine
  <1>2. engine \in EngineType BY EngineIs
  <1>3. Serves(served', dir, Names)
    <2>1. served' = served \/ served' = Rebuilt(dir, bad, <<>>) BY DEF Refreshed
    <2>2. Serves(Rebuilt(dir, bad, <<>>), dir, Names) BY <1>1, RebuiltServes
    <2> QED BY <1>1, <2>1, <2>2
  <1>4. DirFine' BY <1>1, <1>3 DEF DirFine
  <1>5. served' \in Seq(Files(Names)) BY <1>3 DEF Serves
  <1>6. /\ engine' \in EngineType /\ engine'.stage = engine.stage /\ engine'.pos = engine.pos
        /\ engine'.hdr = engine.hdr /\ engine'.open = engine.open
    <2>1. engine' = engine \/ engine' = [engine EXCEPT !.saved = <<>>] BY DEF Refreshed
    <2> QED BY <1>2, <2>1 DEF EngineType
  <1>7. EngineFine' BY <1>6 DEF EngineFine
  <1> QED BY <1>4, <1>5, <1>6, <1>7

LEMMA ReadDataKeeps ==
  ASSUME Inv, UNCHANGED cfg, ReadData
  PROVE  Inv' /\ Kept
  <1>1. DriveFine /\ HeadFine /\ DirFine /\ EngineFine /\ ScriptFine BY DEF Inv
  <1>2. UNCHANGED <<cfg, image, dir, temp>> BY DEF ReadData
  <1>3. PICK ok \in Works, bad \in Bad :
           LET h == ReadFrom(HeadNow, served', ok)
           IN  /\ Refreshed(bad)
               /\ Hears(h.value, ok /\ bad = {})
               /\ drive' = [drive EXCEPT !.at = h.at, !.home = FALSE]
               /\ src' = h.src
    BY DEF ReadData
  <1> DEFINE h == ReadFrom(HeadNow, served', ok)
             c == ok /\ bad = {}
  <1>4. Refreshed(bad) /\ Hears(h.value, c) /\ drive' = [drive EXCEPT !.at = h.at, !.home = FALSE] /\ src' = h.src
    BY <1>3
  <1>5. c \in BOOLEAN BY DEF Works
  <1>6. /\ DirFine' /\ EngineFine' /\ served' \in Seq(Files(Names))
        /\ engine'.stage = engine.stage /\ engine'.pos = engine.pos /\ engine'.hdr = engine.hdr
    BY <1>1, <1>2, <1>4, RefreshKeeps
  <1>7. InStep(HeadNow) /\ HeadNow.at = drive.at
    <2>1. HeadNow \in HeadType BY <1>1, Numbers, DriveIs DEF HeadNow, HeadFine, Nothing, HeadType
    <2>2. HeadNow.at = drive.at /\ HeadNow.src = src BY DEF HeadNow
    <2> QED BY <1>1, <2>1, <2>2 DEF InStep, HeadFine
  <1>8. InStep(h) /\ (drive.at # 0 => h.at # 0) /\ (Writable => h.at # 0)
    <2>1. dir \in Seq(Entry(Names)) /\ image \in Seq(Nat) /\ Len(image) = Len(cfg.image)
      BY <1>1 DEF DirFine, HeadFine
    <2> DEFINE g == HeadNow
               f == served'
    <2>2. f \in Seq(Files(Names)) /\ InStep(g) /\ g.at = drive.at BY <1>6, <1>7
    <2> HIDE DEF g, f
    <2>3. InStep(ReadFrom(g, f, ok)) /\ (g.at # 0 => ReadFrom(g, f, ok).at # 0)
          /\ (Writable => ReadFrom(g, f, ok).at # 0)
      BY <1>1, <2>1, <2>2, ReadKeeps
    <2> QED BY <2>2, <2>3 DEF g, f
  <1> HIDE DEF h, c
  <1>9. h.at \in 0 .. Limit + 1 /\ h.src \in 0 .. Len(image) /\ h.value \in Nat BY <1>8 DEF InStep, HeadType
  <1>10. drive' \in DriveType /\ drive'.std = drive.std /\ drive'.ready = drive.ready /\ drive'.at = h.at
         /\ drive'.motor = drive.motor
    BY <1>1, <1>4, <1>9 DEF DriveFine, DriveType
  <1>11. DriveFine' BY <1>1, <1>2, <1>10 DEF DriveFine
  <1>12. HeadFine' BY <1>1, <1>2, <1>4, <1>8, <1>9, <1>10 DEF HeadFine, InStep
  <1>13. /\ job' \in JobType /\ job'.op = job.op /\ job'.p = job.p
         /\ Fits(job.op, job'.todo, job.p, engine, h.at, Heard, IsDir)
    <2>1. Heard => h.at # 0 BY <1>8 DEF Heard
    <2> QED BY <1>1, <1>4, <1>5, <1>8, <1>9, <2>1, HearsFits
  <1>14. ScriptFine'
    <2>1. Heard' = Heard /\ IsDir' = IsDir BY <1>2, <1>10, SameDrive
    <2>2. Fits(job.op, job'.todo, job.p, engine', h.at, Heard, IsDir) BY <1>6, <1>13, FitsAlike
    <2> QED BY <1>10, <1>13, <2>1, <2>2 DEF ScriptFine
  <1> QED BY <1>2, <1>6, <1>11, <1>12, <1>14 DEF Inv, Kept

\* The channels pass cells on: the drive keeps its type.
LEMMA PassOn ==
  ASSUME DriveFine, UNCHANGED cfg, NEW n \in Nat \ {0}, NEW on, NEW tx \in {"gap", "sync", drive.tx}, NEW crc \in BOOLEAN,
         drive' = [drive EXCEPT !.tx = tx, !.crc = crc, !.at = IF on THEN HeadPast(n) ELSE @]
  PROVE  /\ DriveFine' /\ drive'.std = drive.std /\ drive'.ready = drive.ready /\ drive'.motor = drive.motor
         /\ drive'.at = (IF on THEN HeadPast(n) ELSE drive.at) /\ (drive.at # 0 => drive'.at # 0)
  <1> DEFINE at2 == IF on THEN HeadPast(n) ELSE drive.at
  <1>1. HeadPast(n) \in 0 .. Limit + 1 /\ HeadPast(n) # 0 BY HeadPastIs
  <1>2. drive \in DriveType /\ drive.at \in 0 .. Limit + 1 BY DriveIs
  <1>3. at2 \in 0 .. Limit + 1 /\ (drive.at # 0 => at2 # 0) BY <1>1, <1>2
  <1>4. drive' = [drive EXCEPT !.tx = tx, !.crc = crc, !.at = at2] BY <1>2 DEF DriveType
  <1>5. tx \in {"off", "gap", "sync"} BY <1>2 DEF DriveType
  <1>6. at2 = IF on THEN HeadPast(n) ELSE drive.at OBVIOUS
  <1> HIDE DEF at2
  <1>7. /\ drive' \in DriveType /\ drive'.std = drive.std /\ drive'.ready = drive.ready
        /\ drive'.motor = drive.motor /\ drive'.at = at2
    BY <1>2, <1>3, <1>4, <1>5 DEF DriveType
  <1>8. DriveFine' BY <1>7 DEF DriveFine
  <1> QED BY <1>3, <1>6, <1>7, <1>8

LEMMA GapKeeps ==
  ASSUME Inv, UNCHANGED cfg, Gap
  PROVE  Inv' /\ Kept
  <1>1. /\ Now("gap") /\ WriteImage(<<GapByte>>) /\ Going(Rest, TRUE)
        /\ drive' = [drive EXCEPT !.tx = "gap", !.at = IF Writable /\ ~IsDir THEN HeadPast(1) ELSE @]
        /\ UNCHANGED <<cfg, engine, dir, temp, served>>
    BY DEF Gap, Untouched
  <1>2. DriveFine /\ HeadFine /\ DirFine /\ EngineFine /\ ScriptFine BY DEF Inv
  <1>3. /\ DriveFine' /\ drive'.std = drive.std /\ drive'.ready = drive.ready /\ drive'.motor = drive.motor
        /\ drive'.at = (IF Writable /\ ~IsDir THEN HeadPast(1) ELSE drive.at) /\ (drive.at # 0 => drive'.at # 0)
    <2> DEFINE on == Writable /\ ~IsDir
    <2>1. drive \in DriveType /\ drive.crc \in BOOLEAN BY <1>2 DEF DriveFine, DriveType
    <2>2. drive' = [drive EXCEPT !.tx = "gap", !.crc = drive.crc, !.at = IF on THEN HeadPast(1) ELSE @]
      BY <1>1, <2>1 DEF DriveType
    <2>3. 1 \in Nat \ {0} /\ "gap" \in {"gap", "sync", drive.tx} OBVIOUS
    <2> HIDE DEF on
    <2>4. /\ DriveFine' /\ drive'.std = drive.std /\ drive'.ready = drive.ready /\ drive'.motor = drive.motor
          /\ drive'.at = (IF on THEN HeadPast(1) ELSE drive.at) /\ (drive.at # 0 => drive'.at # 0)
      BY <1>1, <1>2, <2>1, <2>2, <2>3, PassOn
    <2> QED BY <2>4 DEF on
  <1>4. HeadFine'
    <2> DEFINE cells == <<GapByte>>
    <2>1. cells \in Seq(Nat) /\ Len(cells) = 1 /\ Len(cells) > 0 BY DEF GapByte
    <2>2. WriteImage(cells) BY <1>1
    <2> HIDE DEF cells
    <2> QED BY <1>1, <1>2, <1>3, <2>1, <2>2, WriteKeeps
  <1>5. DirFine' /\ EngineFine' BY <1>1, <1>2 DEF DirFine, EngineFine
  <1>6. job' \in JobType /\ job'.op = job.op /\ job'.p = job.p /\ job'.todo = Tail(job.todo)
    <2>1. TRUE \in BOOLEAN OBVIOUS
    <2> QED BY <1>1, <1>2, <2>1, NowIs, JobMoves
  <1>7. Fits(job.op, Tail(job.todo), job.p, engine, drive'.at, Heard, IsDir)
    <2>1. IsDir => drive'.at = drive.at BY <1>3
    <2> QED BY <1>1, <1>2, <1>3, <2>1, NowIs, GapFits
  <1>8. ScriptFine'
    <2>1. Heard' = Heard /\ IsDir' = IsDir BY <1>1, <1>3, SameDrive
    <2> QED BY <1>1, <1>6, <1>7, <2>1 DEF ScriptFine
  <1> QED BY <1>1, <1>3, <1>4, <1>5, <1>8 DEF Inv, Kept

LEMMA SyncMarkKeeps ==
  ASSUME Inv, UNCHANGED cfg, SyncMark
  PROVE  Inv' /\ Kept
  <1> DEFINE at2 == IF IsDir THEN 3 ELSE IF Writable THEN HeadPast(2) ELSE drive.at
  <1>1. /\ Now("sync") /\ WriteImage(<<Sync, Sync>>)
        /\ drive' = [drive EXCEPT !.tx = "sync", !.crc = FALSE,
                                  !.at = IF IsDir THEN 3 ELSE IF Writable THEN HeadPast(2) ELSE @]
        /\ IF Writable /\ IsDir
           THEN \E ok \in Works : SyncEvent(drive.at = 0, ok) /\ Going(Rest, ok)
           ELSE UNCHANGED <<engine, dir, temp, served>> /\ Going(Rest, TRUE)
    BY DEF SyncMark, Untouched
  <1>2. DriveFine /\ HeadFine /\ DirFine /\ EngineFine /\ ScriptFine BY DEF Inv
  <1>3. at2 \in 0 .. Limit + 1
    <2>1. HeadPast(2) \in 0 .. Limit + 1
      <3>1. 2 \in Nat \ {0} OBVIOUS
      <3> QED BY <1>2, <3>1, HeadPastIs
    <2>2. drive.at \in 0 .. Limit + 1 /\ 3 \in 0 .. Limit + 1 BY <1>2, DriveIs
    <2> QED BY <2>1, <2>2
  <1>4. drive \in DriveType BY <1>2, DriveIs
  <1>5. drive' = [drive EXCEPT !.tx = "sync", !.crc = FALSE, !.at = at2] BY <1>1, <1>4 DEF DriveType
  <1>6. at2 = IF IsDir THEN 3 ELSE IF Writable THEN HeadPast(2) ELSE drive.at OBVIOUS
  <1> HIDE DEF at2
  <1>7. /\ drive' \in DriveType /\ drive'.std = drive.std /\ drive'.ready = drive.ready
        /\ drive'.motor = drive.motor /\ drive'.at = at2
    BY <1>3, <1>4, <1>5 DEF DriveType
  <1>8. DriveFine' BY <1>2, <1>7 DEF DriveFine
  <1>9. HeadFine'
    <2> DEFINE cells == <<Sync, Sync>>
    <2>1. cells \in Seq(Nat) /\ Len(cells) = 2 /\ Len(cells) > 0 BY DEF Sync
    <2>2. WriteImage(cells) BY <1>1
    <2> HIDE DEF cells
    <2>3. Writable /\ ~IsDir => drive'.at = HeadPast(Len(cells)) BY <1>6, <1>7, <2>1
    <2>4. ~IsDir /\ ~Writable => drive'.at = drive.at BY <1>6, <1>7
    <2> QED BY <1>2, <1>7, <2>1, <2>2, <2>3, <2>4, WriteKeeps
  <1>10. /\ job \in JobType /\ job.op \in Ops /\ job.p \in Nat /\ job.todo # <<>> /\ Head(job.todo).do = "sync"
         /\ Rest = Tail(job.todo) /\ Rest \in Seq(Act)
         /\ Fits(job.op, job.todo, job.p, engine, drive.at, Heard, IsDir)
    BY <1>1, <1>2, NowIs
  <1>11. Heard' = Heard /\ IsDir' = IsDir BY <1>7, SameDrive
  <1>12. /\ engine.stage # "body"
         /\ \A e2, at3 :
              /\ ~Heard => e2 = engine
              /\ Heard => /\ e2.pos = 3
                          /\ e2.stage = IF engine.stage = "formatting" THEN "formatting"
                                        ELSE IF drive.at = 0 THEN "count"
                                        ELSE IF engine.stage = "header" THEN "body" ELSE "header"
                          /\ engine.stage = "header" /\ drive.at # 0 => e2.hdr = engine.hdr
              => Fits(job.op, Tail(job.todo), job.p, e2, at3, Heard, IsDir)
    <2>1. Heard => IsDir BY DEF Heard
    <2> QED BY <1>10, <2>1, SyncFits
  <1>13. CASE Heard
    <2>1. PICK ok \in Works : SyncEvent(drive.at = 0, ok) /\ Going(Rest, ok) BY <1>1, <1>13 DEF Heard
    <2> DEFINE home == drive.at = 0
    <2>2. ok \in BOOLEAN BY DEF Works
    <2>3. SyncEvent(home, ok) BY <2>1
    <2> HIDE DEF home
    <2>4. /\ DirFine' /\ EngineFine' /\ dir' = dir /\ engine'.pos = 3
          /\ engine'.stage = IF engine.stage = "formatting" THEN "formatting"
                             ELSE IF home THEN "count" ELSE IF engine.stage = "header" THEN "body" ELSE "header"
          /\ engine.stage = "header" /\ ~home => engine'.hdr = engine.hdr
      BY <1>2, <1>12, <2>2, <2>3, SyncKeeps
    <2>5. job' \in JobType /\ job'.op = job.op /\ job'.p = job.p /\ job'.todo = Tail(job.todo)
      BY <1>10, <2>1, <2>2, JobMoves
    <2>6. \A at3 : Fits(job.op, Tail(job.todo), job.p, engine', at3, Heard, IsDir)
      <3>1. /\ engine'.stage = IF engine.stage = "formatting" THEN "formatting"
                               ELSE IF drive.at = 0 THEN "count"
                               ELSE IF engine.stage = "header" THEN "body" ELSE "header"
            /\ engine.stage = "header" /\ drive.at # 0 => engine'.hdr = engine.hdr
        BY <2>4 DEF home
      <3> QED BY <1>12, <1>13, <2>4, <3>1
    <2>7. ScriptFine' BY <1>11, <2>5, <2>6 DEF ScriptFine
    <2> QED BY <1>8, <1>9, <2>4, <2>7 DEF Inv, Kept
  <1>14. CASE ~Heard
    <2>1. UNCHANGED <<engine, dir, temp, served>> /\ Going(Rest, TRUE) BY <1>1, <1>14 DEF Heard
    <2>2. DirFine' /\ EngineFine' BY <1>2, <2>1 DEF DirFine, EngineFine
    <2>3. job' \in JobType /\ job'.op = job.op /\ job'.p = job.p /\ job'.todo = Tail(job.todo)
      <3>1. TRUE \in BOOLEAN OBVIOUS
      <3> QED BY <1>10, <2>1, <3>1, JobMoves
    <2>4. \A at3 : Fits(job.op, Tail(job.todo), job.p, engine, at3, Heard, IsDir) BY <1>12, <1>14
    <2>5. ScriptFine' BY <1>11, <2>1, <2>3, <2>4 DEF ScriptFine
    <2> QED BY <1>8, <1>9, <2>1, <2>2, <2>5 DEF Inv, Kept
  <1> QED BY <1>13, <1>14

\* A byte that the engine hears.
LEMMA DataKeeps ==
  ASSUME DirFine, EngineFine, NEW v \in Nat, NEW bad, NEW ok, DataEvent(v, bad, ok),
         NEW op, NEW p, engine.stage = "body" => op = "save" /\ p \in DOMAIN Programs /\ engine.hdr = HeadCell(p),
         engine.stage = "count" /\ engine.pos = 4 /\ v = 0 => op = "format"
  PROVE  /\ DirFine' /\ EngineFine' /\ Made(engine, engine', v)
         /\ \A e \in ToSet(dir) \ ToSet(dir') :
               \/ op = "format" /\ IsProgram(e)
               \/ op = "save" /\ IsProgram(e) /\ Sharp(e.head) = Sharp(p)
  <1>1. CASE engine.stage # "body" /\ ~(engine.stage = "count" /\ engine.pos = 4)
    <2>1. /\ DirFine' /\ EngineFine' /\ dir' = dir /\ engine'.stage = engine.stage
          /\ engine.stage \in {"header", "count"} => engine'.pos = engine.pos + 1
          /\ engine.stage = "header" => engine'.hdr = IF engine.pos = 7 THEN v ELSE engine.hdr
      BY <1>1, OtherData
    <2> QED BY <1>1, <2>1 DEF Made
  <1>2. CASE engine.stage = "count" /\ engine.pos = 4
    <2>1. CountEvent(v, bad) BY <1>2 DEF DataEvent
    <2>2. /\ DirFine' /\ EngineFine'
          /\ engine'.stage = IF v = 0 THEN "formatting" ELSE "idle"
          /\ v # 0 => dir' = dir
          /\ \A e \in ToSet(dir) \ ToSet(dir') : IsProgram(e)
      BY <1>2, <2>1, CountKeeps
    <2>3. v = 0 => op = "format" BY <1>2
    <2> QED BY <1>2, <2>2, <2>3 DEF Made
  <1>3. CASE engine.stage = "body"
    <2>1. op = "save" /\ p \in DOMAIN Programs /\ engine.hdr = HeadCell(p) BY <1>3
    <2>2. /\ DirFine' /\ EngineFine' /\ engine'.stage \in {"idle", "body"}
          /\ engine'.stage = "body" => engine'.hdr = engine.hdr
          /\ \A e \in ToSet(dir) \ ToSet(dir') : IsProgram(e) /\ Sharp(e.head) = Sharp(p)
      BY <1>3, <2>1, BodyData
    <2> QED BY <1>3, <2>1, <2>2 DEF Made
  <1> QED BY <1>1, <1>2, <1>3

LEMMA WriteDataKeeps ==
  ASSUME Inv, UNCHANGED cfg, WriteData
  PROVE  Inv' /\ Kept
  <1> DEFINE v == Head(job.todo).v
  <1>1. /\ Now("put") /\ WriteImage(<<v>>)
        /\ drive' = [drive EXCEPT !.crc = TRUE, !.at = IF Writable THEN HeadPast(1) ELSE @]
        /\ IF Writable /\ IsDir
           THEN \E ok \in Works, bad \in Bad : DataEvent(v, bad, ok) /\ Going(Rest, ok /\ bad = {})
           ELSE UNCHANGED <<engine, dir, temp, served>> /\ Going(Rest, TRUE)
    BY DEF WriteData, Untouched
  <1>2. DriveFine /\ HeadFine /\ DirFine /\ EngineFine /\ ScriptFine BY DEF Inv
  <1>3. /\ job \in JobType /\ job.op \in Ops /\ job.p \in Nat /\ job.todo # <<>> /\ Head(job.todo).do = "put"
        /\ Rest = Tail(job.todo) /\ Rest \in Seq(Act) /\ v \in Nat
        /\ Fits(job.op, job.todo, job.p, engine, drive.at, Heard, IsDir)
    <2>1. Head(job.todo) \in Act BY <1>1, <1>2, NowIs
    <2>2. v \in Nat BY <2>1 DEF Act
    <2> QED BY <1>1, <1>2, <2>2, NowIs
  <1>4. /\ DriveFine' /\ drive'.std = drive.std /\ drive'.ready = drive.ready /\ drive'.motor = drive.motor
        /\ drive'.at = (IF Writable THEN HeadPast(1) ELSE drive.at)
    <2> DEFINE on == Writable
               tx == drive.tx
    <2>1. drive \in DriveType BY <1>2, DriveIs
    <2>2. drive' = [drive EXCEPT !.tx = tx, !.crc = TRUE, !.at = IF on THEN HeadPast(1) ELSE @]
      BY <1>1, <2>1 DEF DriveType
    <2>3. 1 \in Nat \ {0} /\ TRUE \in BOOLEAN /\ tx \in {"gap", "sync", drive.tx} OBVIOUS
    <2> HIDE DEF on, tx
    <2>4. /\ DriveFine' /\ drive'.std = drive.std /\ drive'.ready = drive.ready /\ drive'.motor = drive.motor
          /\ drive'.at = (IF on THEN HeadPast(1) ELSE drive.at)
      BY <1>2, <2>2, <2>3, PassOn
    <2> QED BY <2>4 DEF on
  <1> HIDE DEF v
  <1>5. HeadFine'
    <2> DEFINE cells == <<v>>
    <2>1. cells \in Seq(Nat) /\ Len(cells) = 1 /\ Len(cells) > 0 BY <1>3
    <2>2. WriteImage(cells) BY <1>1
    <2> HIDE DEF cells
    <2>3. Writable /\ ~IsDir => drive'.at = HeadPast(Len(cells)) BY <1>4, <2>1
    <2>4. ~IsDir /\ ~Writable => drive'.at = drive.at BY <1>4
    <2> QED BY <1>2, <1>4, <2>1, <2>2, <2>3, <2>4, WriteKeeps
  <1>6. Heard' = Heard /\ IsDir' = IsDir BY <1>4, SameDrive
  <1>7. /\ engine.stage = "body" => job.op = "save" /\ job.p \in DOMAIN Programs /\ engine.hdr = HeadCell(job.p)
        /\ Heard /\ engine.stage = "count" /\ engine.pos = 4 /\ v = 0 => job.op = "format"
        /\ \A e2, at2 : /\ ~Heard => e2 = engine
                        /\ Heard => Made(engine, e2, v) /\ at2 # 0
                        => Fits(job.op, Tail(job.todo), job.p, e2, at2, Heard, IsDir)
    BY <1>3, PutFits DEF v
  <1>8. CASE Heard
    <2>1. PICK ok \in Works, bad \in Bad : DataEvent(v, bad, ok) /\ Going(Rest, ok /\ bad = {})
      BY <1>1, <1>8 DEF Heard
    <2> DEFINE c == ok /\ bad = {}
    <2>2. c \in BOOLEAN /\ Going(Rest, c) BY <2>1 DEF Works
    <2> HIDE DEF c
    <2>3. job' \in JobType /\ job'.op = job.op /\ job'.p = job.p /\ job'.todo = Tail(job.todo)
      BY <1>3, <2>2, JobMoves
    <2>4. /\ DirFine' /\ EngineFine' /\ Made(engine, engine', v)
          /\ \A e \in ToSet(dir) \ ToSet(dir') :
                \/ job.op = "format" /\ IsProgram(e)
                \/ job.op = "save" /\ IsProgram(e) /\ Sharp(e.head) = Sharp(job.p)
      BY <1>2, <1>3, <1>7, <1>8, <2>1, DataKeeps
    <2>5. drive'.at # 0
      <3>1. 1 \in Nat \ {0} OBVIOUS
      <3> QED BY <1>2, <1>4, <1>8, <3>1, HeadPastIs DEF Heard
    <2>6. Fits(job.op, Tail(job.todo), job.p, engine', drive'.at, Heard, IsDir)
      BY <1>7, <1>8, <2>4, <2>5
    <2>7. ScriptFine' BY <1>6, <2>3, <2>6 DEF ScriptFine
    <2> QED BY <1>4, <1>5, <2>4, <2>7 DEF Inv, Kept
  <1>9. CASE ~Heard
    <2>1. UNCHANGED <<engine, dir, temp, served>> /\ Going(Rest, TRUE) BY <1>1, <1>9 DEF Heard
    <2>2. DirFine' /\ EngineFine' BY <1>2, <2>1 DEF DirFine, EngineFine
    <2>3. job' \in JobType /\ job'.op = job.op /\ job'.p = job.p /\ job'.todo = Tail(job.todo)
      <3>1. TRUE \in BOOLEAN OBVIOUS
      <3> QED BY <1>3, <2>1, <3>1, JobMoves
    <2>4. Fits(job.op, Tail(job.todo), job.p, engine, drive'.at, Heard, IsDir) BY <1>7, <1>9
    <2>5. ScriptFine' BY <1>6, <2>1, <2>3, <2>4 DEF ScriptFine
    <2> QED BY <1>4, <1>5, <2>1, <2>2, <2>5 DEF Inv, Kept
  <1> QED BY <1>8, <1>9

LEMMA TrailerKeeps ==
  ASSUME Inv, UNCHANGED cfg, Trailer
  PROVE  Inv' /\ Kept
  <1>1. PICK writes \in {Writable /\ drive.tx = "sync" /\ drive.crc} \cup {FALSE} :
           IF writes
           THEN /\ drive' = [drive EXCEPT !.at = HeadPast(3)]
                /\ WriteImage(<<LetterC, LetterR, LetterC>>)
                /\ engine' = IF engine.stage = "header" THEN [engine EXCEPT !.pos = @ + 3] ELSE engine
           ELSE UNCHANGED <<drive, image, src, engine>>
    BY DEF Trailer
  <1>2. Now("trailer") /\ Going(Rest, TRUE) /\ UNCHANGED <<cfg, dir, temp, served>> BY DEF Trailer, Untouched
  <1>3. DriveFine /\ HeadFine /\ DirFine /\ EngineFine /\ ScriptFine BY DEF Inv
  <1>4. DirFine' BY <1>2, <1>3 DEF DirFine
  <1>5. /\ job.op \in Ops /\ job.p \in Nat /\ job.todo # <<>> /\ Head(job.todo).do = "trailer"
        /\ Fits(job.op, job.todo, job.p, engine, drive.at, Heard, IsDir)
    BY <1>2, <1>3, NowIs
  <1>6. job' \in JobType /\ job'.op = job.op /\ job'.p = job.p /\ job'.todo = Tail(job.todo)
    <2>1. TRUE \in BOOLEAN OBVIOUS
    <2> QED BY <1>2, <1>3, <2>1, NowIs, JobMoves
  <1>7. ASSUME EngineFine', DriveFine', HeadFine', drive'.std = drive.std, drive'.ready = drive.ready,
               drive'.motor = drive.motor, drive.at # 0 => drive'.at # 0,
               engine'.stage = engine.stage, engine'.hdr = engine.hdr
        PROVE  Inv' /\ Kept
    <2>1. Fits(job.op, Tail(job.todo), job.p, engine', drive'.at, Heard, IsDir) BY <1>5, <1>7, TrailerFits
    <2>2. Heard' = Heard /\ IsDir' = IsDir BY <1>2, <1>7, SameDrive
    <2>3. ScriptFine' BY <1>6, <2>1, <2>2 DEF ScriptFine
    <2> QED BY <1>2, <1>4, <1>7, <2>3 DEF Inv, Kept
  <1>8. CASE writes
    <2>1. /\ drive' = [drive EXCEPT !.at = HeadPast(3)] /\ WriteImage(<<LetterC, LetterR, LetterC>>)
          /\ engine' = IF engine.stage = "header" THEN [engine EXCEPT !.pos = @ + 3] ELSE engine
      BY <1>1, <1>8
    <2>2. Writable BY <1>8
    <2>3. HeadPast(3) \in 0 .. Limit + 1 /\ HeadPast(3) # 0
      <3>1. 3 \in Nat \ {0} OBVIOUS
      <3> QED BY <1>3, <3>1, HeadPastIs
    <2>4. drive' \in DriveType /\ drive'.std = drive.std /\ drive'.ready = drive.ready
          /\ drive'.motor = drive.motor /\ drive'.at = HeadPast(3)
      BY <1>3, <2>1, <2>3, DriveIs DEF DriveType
    <2>5. DriveFine' BY <1>2, <1>3, <2>4 DEF DriveFine
    <2>6. HeadFine'
      <3> DEFINE cells == <<LetterC, LetterR, LetterC>>
      <3>1. cells \in Seq(Nat) /\ Len(cells) = 3 /\ Len(cells) > 0 BY DEF LetterC, LetterR
      <3>2. WriteImage(cells) BY <2>1
      <3> HIDE DEF cells
      <3> QED BY <1>2, <1>3, <2>2, <2>4, <3>1, <3>2, WriteKeeps
    <2>7. /\ engine' \in EngineType /\ engine'.stage = engine.stage /\ engine'.hdr = engine.hdr
          /\ engine'.open = engine.open
      <3>1. engine \in EngineType /\ engine.pos + 3 \in Nat
        <4>1. engine \in EngineType /\ engine.pos \in Nat BY <1>3, EngineIs
        <4> QED BY <4>1
      <3>2. engine' = engine \/ engine' = [engine EXCEPT !.pos = engine.pos + 3] BY <2>1, <3>1 DEF EngineType
      <3> QED BY <3>1, <3>2 DEF EngineType
    <2>8. EngineFine' BY <1>2, <1>3, <2>7 DEF EngineFine
    <2> QED BY <1>7, <2>3, <2>4, <2>5, <2>6, <2>7, <2>8
  <1>9. CASE ~writes
    <2>1. UNCHANGED <<drive, image, src, engine>> BY <1>1, <1>9
    <2>2. EngineFine' /\ DriveFine' /\ HeadFine' BY <1>2, <1>3, <2>1 DEF EngineFine, DriveFine, HeadFine
    <2> QED BY <1>7, <2>1, <2>2
  <1> QED BY <1>8, <1>9

-----------------------------------------------------------------------------
(* The explorer, the reset button, the power and the USB.                  *)

LEMMA FreshIs ==
  ASSUME NEW std \in {"none", "dir", "image"}
  PROVE  Fresh(std) \in DriveType /\ Fresh(std).std = std /\ Fresh(std).at = 0
         /\ (Fresh(std).ready <=> std # "none")
  <1>1. 0 \in 0 .. Limit + 1 BY Numbers
  <1>2. (std # "none") \in BOOLEAN OBVIOUS
  <1> DEFINE r == std # "none"
  <1>3. Fresh(std) = [std |-> std, ready |-> r, home |-> TRUE, at |-> 0,
                      motor |-> FALSE, tx |-> "off", crc |-> FALSE]
    BY DEF Fresh
  <1>4. r \in BOOLEAN BY <1>2
  <1>5. Fresh(std).ready = r BY <1>3
  <1>6. Fresh(std).ready <=> std # "none" BY <1>5
  <1> HIDE DEF r
  <1> QED BY <1>1, <1>3, <1>4, <1>6 DEF DriveType

LEMMA NoEngineIs == NoEngine \in EngineType /\ NoEngine.stage = "idle" /\ NoEngine.open = FALSE
  <1>1. 0 \in Nat /\ 0 \in Int /\ Nothing \in Nat /\ FALSE \in BOOLEAN /\ "idle" \in Stages
        /\ <<>> \in Names \cup {<<>>}
    BY DEF Nothing, Stages
  <1>2. NoEngine = [stage |-> "idle", pos |-> 0, hdr |-> Nothing, left |-> 0, open |-> FALSE, saved |-> <<>>]
    BY DEF NoEngine
  <1>3. NoEngine.stage = "idle" /\ NoEngine.open = FALSE BY <1>2
  <1> QED BY <1>1, <1>2, <1>3 DEF EngineType

\* A new source: whatever was before, the drive and the engine are fresh.
LEMMA OpenKeeps ==
  ASSUME Inv, UNCHANGED cfg, NEW std \in {"none", "dir", "image"}, Open(std), job'.op = "none", job' \in JobType,
         job'.todo = <<>>
  PROVE  Inv' /\ dir' = dir
  <1>1. /\ drive' = Fresh(std) /\ src' = 0 /\ engine' = NoEngine /\ UNCHANGED <<image, dir>>
        /\ \E bad \in Bad : served' = IF std = "dir" THEN Indexed(dir, bad) ELSE <<>>
    BY DEF Open
  <1>2. DriveFine /\ HeadFine /\ DirFine BY DEF Inv
  <1>3. drive' \in DriveType /\ drive'.at = 0 /\ drive'.std = std /\ (drive'.ready <=> std # "none")
    BY <1>1, FreshIs
  <1>4. DriveFine' BY <1>2, <1>3 DEF DriveFine
  <1>5. HeadFine'
    <2>1. image \in Seq(Nat) /\ Len(image) = Len(cfg.image) /\ 0 \in 0 .. Len(image) BY <1>2 DEF HeadFine
    <2> QED BY <1>1, <1>3, <2>1 DEF HeadFine
  <1>6. DirFine'
    <2>1. dir \in Seq(Entry(Names)) /\ Distinct(dir) BY <1>2 DEF DirFine
    <2>2. \A bad : Serves(Indexed(dir, bad), dir, Names) BY <2>1, IndexedServes
    <2>3. Serves(<<>>, dir, Names) BY NothingServes
    <2>4. Serves(served', dir, Names) BY <1>1, <2>2, <2>3
    <2> QED BY <1>1, <2>1, <2>4 DEF DirFine
  <1>7. EngineFine' /\ engine'.stage = "idle" BY <1>1, NoEngineIs DEF EngineFine
  <1>8. ScriptFine' BY <1>3, <1>7 DEF ScriptFine, Fits
  <1> QED BY <1>1, <1>4, <1>5, <1>6, <1>7, <1>8 DEF Inv

LEMMA NoJobIs == NoJob \in JobType /\ NoJob.op = "none" /\ NoJob.todo = <<>>
  <1>1. <<>> \in Seq(Nat) /\ <<>> \in Seq(Act) /\ 0 \in Nat /\ FALSE \in BOOLEAN /\ TRUE \in BOOLEAN OBVIOUS
  <1> QED BY <1>1 DEF NoJob, JobType

LEMMA MountKeeps ==
  ASSUME Inv, UNCHANGED cfg, NEW std \in cfg.mounts, Mount(std)
  PROVE  Inv' /\ Kept
  <1>1. Idle /\ Open(std) /\ job' = job BY DEF Mount
  <1>2. cfg \in Setups /\ ScriptFine BY DEF Inv, DriveFine
  <1>3. std \in {"none", "dir", "image"} BY <1>2, SetupIs
  <1>4. job'.op = "none" /\ job' \in JobType /\ job'.todo = <<>> BY <1>1, <1>2 DEF Idle, ScriptFine, Fits
  <1>5. Inv' /\ dir' = dir BY <1>1, <1>3, <1>4, OpenKeeps
  <1> QED BY <1>5 DEF Kept

LEMMA SoftResetKeeps ==
  ASSUME Inv, UNCHANGED cfg, SoftReset
  PROVE  Inv' /\ Kept
  <1>1. job' = NoJob BY DEF SoftReset
  <1>2. cfg \in Setups /\ DriveFine /\ HeadFine /\ DirFine /\ EngineFine BY DEF Inv, DriveFine
  <1>3. cfg.std \in {"none", "dir", "image"} BY <1>2, SetupIs
  <1>4. CASE drive.std # cfg.std
    <2>1. Open(cfg.std) BY <1>4 DEF SoftReset
    <2>2. Inv' /\ dir' = dir BY <1>1, <1>3, <2>1, NoJobIs, OpenKeeps
    <2> QED BY <2>2 DEF Kept
  <1>5. CASE drive.std = cfg.std
    <2>1. /\ drive' = Fresh(cfg.std) /\ src' = Sought(0) /\ engine' = Aborted
          /\ UNCHANGED <<image, dir, served>>
      BY <1>5 DEF SoftReset
    <2>2. drive' \in DriveType /\ drive'.at = 0 /\ drive'.std = cfg.std /\ (drive'.ready <=> cfg.std # "none")
      BY <1>3, <2>1, FreshIs
    <2>3. DriveFine' /\ DirFine' BY <1>2, <2>1, <2>2 DEF DriveFine, DirFine
    <2>4. HeadFine' BY <1>2, <1>5, <2>1, <2>2, SoughtKeeps
    <2>5. EngineFine' /\ engine'.stage = "idle"
      <3>1. engine' \in EngineType /\ engine'.stage = "idle" /\ engine'.open = FALSE BY <1>2, <2>1, AbortedIs
      <3> QED BY <3>1 DEF EngineFine
    <2>6. ScriptFine' BY <1>1, <2>2, <2>5, RestIsFine
    <2> QED BY <2>1, <2>3, <2>4, <2>5, <2>6 DEF Inv, Kept
  <1> QED BY <1>4, <1>5

LEMMA PowerCutKeeps ==
  ASSUME Inv, UNCHANGED cfg, PowerCut
  PROVE  Inv' /\ Kept
  <1>1. /\ cfg.std = "dir" /\ drive' = Fresh("dir") /\ engine' = NoEngine /\ job' = NoJob
        /\ served' = Indexed(dir, {}) /\ UNCHANGED <<src, image, dir, temp>>
    BY DEF PowerCut
  <1>2. DriveFine /\ HeadFine /\ DirFine BY DEF Inv
  <1>3. drive' \in DriveType /\ drive'.at = 0 /\ drive'.std = "dir" /\ drive'.ready
    <2>1. "dir" \in {"none", "dir", "image"} /\ "dir" # "none" OBVIOUS
    <2> QED BY <1>1, <2>1, FreshIs
  <1>4. DriveFine' BY <1>2, <1>3 DEF DriveFine
  <1>5. HeadFine' BY <1>1, <1>2, <1>3 DEF HeadFine
  <1>6. DirFine'
    <2>1. dir \in Seq(Entry(Names)) /\ Distinct(dir) BY <1>2 DEF DirFine
    <2>2. Serves(Indexed(dir, {}), dir, Names) BY <2>1, IndexedServes
    <2> QED BY <1>1, <2>1, <2>2 DEF DirFine
  <1>7. EngineFine' /\ engine'.stage = "idle" BY <1>1, NoEngineIs DEF EngineFine
  <1>8. ScriptFine' BY <1>1, <1>3, <1>7, RestIsFine
  <1> QED BY <1>1, <1>4, <1>5, <1>6, <1>7, <1>8 DEF Inv, Kept

LEMMA UsbKeeps ==
  ASSUME Inv, UNCHANGED cfg, Usb
  PROVE  Inv' /\ Kept
  <1>1. Idle /\ UNCHANGED <<cfg, drive, src, image, temp, served, engine, job>> BY DEF Usb
  <1>2. DriveFine' /\ HeadFine' /\ EngineFine'
    BY <1>1 DEF Inv, DriveFine, HeadFine, EngineFine
  <1>3. ScriptFine'
    <2>1. Heard' = Heard /\ IsDir' = IsDir BY <1>1, SameDrive
    <2> QED BY <1>1, <2>1 DEF Inv, ScriptFine
  <1>4. DirFine /\ cfg \in Setups BY DEF Inv, DriveFine
  <1>5. dir \in Seq(Entry(Names)) /\ Distinct(dir) /\ Serves(served, dir, Names) BY <1>4 DEF DirFine
  <1>6. \/ \E e \in ToSet(dir) : dir' = Without(dir, e.fat)
        \/ \E p \in cfg.usb : /\ ~Taken(dir, UsbName)
                              /\ dir' = Append(dir, [fat |-> UsbName, head |-> p, body |-> Programs[p].body])
    BY DEF Usb
  <1>7. ASSUME NEW e \in ToSet(dir), dir' = Without(dir, e.fat) PROVE DirFine'
    <2> DEFINE S == {x \in ToSet(dir) : x.fat # e.fat}
    <2>1. dir' = Only(dir, S) BY <1>7 DEF Without
    <2> HIDE DEF S
    <2>2. dir' \in Seq(Entry(Names)) /\ Distinct(dir') /\ Serves(served, dir', Names) BY <1>4, <2>1, SubDir
    <2> QED BY <1>1, <2>2 DEF DirFine
  <1>8. ASSUME NEW p \in cfg.usb, ~Taken(dir, UsbName),
               dir' = Append(dir, [fat |-> UsbName, head |-> p, body |-> Programs[p].body])
        PROVE  DirFine'
    <2> DEFINE x == [fat |-> UsbName, head |-> p, body |-> Programs[p].body]
    <2>1. p \in DOMAIN Programs /\ p # 0 /\ Programs[p].body \in Seq(Nat)
      <3>1. p \in DOMAIN Programs BY <1>4, SetupIs
      <3> QED BY <3>1, Numbers
    <2>2. UsbName \in Names BY DEF Names
    <2>3. x \in Entry(Names) /\ x.fat = UsbName /\ IsProgram(x) BY <2>1, <2>2 DEF Entry, IsProgram
    <2>4. \A y \in ToSet(dir) : y.fat # UsbName BY <1>5, <1>8, TakenIs
    <2>5. dir' = Append(dir, x) BY <1>8
    <2> HIDE DEF x
    <2>6. dir' \in Seq(Entry(Names)) /\ ToSet(dir') = ToSet(dir) \cup {x} BY <1>5, <2>3, <2>5, SetOfAppend
    <2>7. Distinct(dir')
      <3>1. Len(dir) \in Nat /\ Len(dir') = Len(dir) + 1 /\ dir'[Len(dir) + 1] = x
            /\ \A i \in 1 .. Len(dir) : dir'[i] = dir[i] /\ dir[i] \in ToSet(dir)
        <4>1. Len(dir) \in Nat /\ \A i \in 1 .. Len(dir) : dir[i] \in ToSet(dir) BY <1>5, SetOf
        <4> QED BY <1>5, <2>5, <4>1
      <3>2. ASSUME NEW i \in 1 .. Len(dir'), NEW j \in 1 .. Len(dir'), dir'[i].fat = dir'[j].fat PROVE i = j
        <4>1. (i \in 1 .. Len(dir) \/ i = Len(dir) + 1) /\ (j \in 1 .. Len(dir) \/ j = Len(dir) + 1) BY <3>1
        <4>2. CASE i \in 1 .. Len(dir) /\ j \in 1 .. Len(dir)
          <5>1. dir[i].fat = dir[j].fat BY <3>1, <3>2, <4>2
          <5> QED BY <1>5, <4>2, <5>1 DEF Distinct
        <4>3. CASE i \in 1 .. Len(dir) /\ j = Len(dir) + 1 BY <2>3, <2>4, <3>1, <3>2, <4>3
        <4>4. CASE j \in 1 .. Len(dir) /\ i = Len(dir) + 1 BY <2>3, <2>4, <3>1, <3>2, <4>4
        <4> QED BY <4>1, <4>2, <4>3, <4>4
      <3> QED BY <3>2 DEF Distinct
    <2>8. Serves(served, dir', Names) BY <1>5, <2>3, <2>6 DEF Serves
    <2> QED BY <1>1, <2>6, <2>7, <2>8 DEF DirFine
  <1>9. DirFine' BY <1>6, <1>7, <1>8
  <1> QED BY <1>1, <1>2, <1>3, <1>9 DEF Inv, Kept

-----------------------------------------------------------------------------
(* The theorems.                                                           *)

LEMMA InitHolds == Init => Inv
  <1> SUFFICES ASSUME Init PROVE Inv OBVIOUS
  <1>1. /\ cfg \in Setups /\ drive = Fresh(cfg.std) /\ src = 0 /\ image = cfg.image /\ dir = cfg.dir
        /\ served = (IF cfg.std = "dir" THEN Indexed(cfg.dir, {}) ELSE <<>>)
        /\ engine = NoEngine /\ job = NoJob
    BY DEF Init
  <1>2. /\ cfg.dir \in Seq(Entry(Names)) /\ Distinct(cfg.dir) /\ cfg.image \in Seq(Nat)
        /\ cfg.std \in {"none", "dir", "image"}
    BY <1>1, SetupIs
  <1>3. drive \in DriveType /\ drive.at = 0 /\ drive.std = cfg.std /\ (drive.ready <=> cfg.std # "none")
    BY <1>1, <1>2, FreshIs
  <1>4. DriveFine BY <1>1, <1>3 DEF DriveFine
  <1>5. HeadFine
    <2>1. 0 \in 0 .. Len(cfg.image) BY <1>2
    <2> QED BY <1>1, <1>2, <1>3, <2>1 DEF HeadFine
  <1>6. DirFine
    <2>1. Serves(Indexed(cfg.dir, {}), cfg.dir, Names) BY <1>2, IndexedServes
    <2>2. Serves(<<>>, cfg.dir, Names) BY NothingServes
    <2> QED BY <1>1, <1>2, <2>1, <2>2 DEF DirFine
  <1>7. EngineFine /\ engine.stage = "idle" BY <1>1, NoEngineIs DEF EngineFine
  <1>8. ScriptFine BY <1>1, <1>3, <1>7, NoJobIs DEF ScriptFine, Fits
  <1> QED BY <1>4, <1>5, <1>6, <1>7, <1>8 DEF Inv

LEMMA StepKeeps == Inv /\ Next => Inv' /\ Kept
  <1> SUFFICES ASSUME Inv, Next PROVE Inv' /\ Kept OBVIOUS
  <1>1. Step /\ UNCHANGED cfg BY DEF Next
  <1>2. /\ cfg.saves \subseteq DOMAIN Programs /\ cfg.ops \subseteq {"list", "format"}
    BY SetupIs DEF Inv, DriveFine
  <1>3. CASE \E p \in cfg.saves : Start("save", p) BY <1>1, <1>2, <1>3, StartKeeps
  <1>4. CASE \E op \in cfg.ops : Start(op, 1) BY <1>1, <1>2, <1>4, StartKeeps
  <1>5. CASE MotorOn BY <1>1, <1>5, MotorOnKeeps
  <1>6. CASE MotorOff BY <1>1, <1>6, MotorOffKeeps
  <1>7. CASE Receive BY <1>1, <1>7, ReceiveKeeps
  <1>8. CASE Hunt BY <1>1, <1>8, HuntStepKeeps
  <1>9. CASE ReadData BY <1>1, <1>9, ReadDataKeeps
  <1>10. CASE Verify BY <1>1, <1>10, VerifyKeeps
  <1>11. CASE Gap BY <1>1, <1>11, GapKeeps
  <1>12. CASE SyncMark BY <1>1, <1>12, SyncMarkKeeps
  <1>13. CASE WriteData BY <1>1, <1>13, WriteDataKeeps
  <1>14. CASE Trailer BY <1>1, <1>14, TrailerKeeps
  <1>15. CASE \E std \in cfg.mounts : Mount(std) BY <1>1, <1>15, MountKeeps
  <1>16. CASE SoftReset BY <1>1, <1>16, SoftResetKeeps
  <1>17. CASE PowerCut BY <1>1, <1>17, PowerCutKeeps
  <1>18. CASE Usb BY <1>1, <1>18, UsbKeeps
  <1> QED BY <1>1, <1>3, <1>4, <1>5, <1>6, <1>7, <1>8, <1>9, <1>10, <1>11, <1>12, <1>13, <1>14, <1>15,
             <1>16, <1>17, <1>18 DEF Step

LEMMA StutterKeeps == Inv /\ UNCHANGED vars => Inv' /\ ToSet(dir) \ ToSet(dir') = {}
  <1> SUFFICES ASSUME Inv, UNCHANGED vars PROVE Inv' /\ ToSet(dir) \ ToSet(dir') = {} OBVIOUS
  <1>1. UNCHANGED <<cfg, drive, src, image, dir, temp, served, engine, job>> BY DEF vars
  <1>2. Heard' = Heard /\ IsDir' = IsDir BY <1>1, SameDrive
  <1>3. DriveFine' /\ HeadFine' /\ DirFine' /\ EngineFine'
    BY <1>1 DEF Inv, DriveFine, HeadFine, DirFine, EngineFine
  <1>4. ScriptFine' BY <1>1, <1>2 DEF Inv, ScriptFine
  <1> QED BY <1>1, <1>3, <1>4 DEF Inv

LEMMA InvHolds == Spec => []Inv
  <1>1. Inv /\ [Next]_vars => Inv' BY StepKeeps, StutterKeeps
  <1> QED BY <1>1, InitHolds, PTL DEF Spec

LEMMA InvSays == Inv => HeadInStep
  <1> SUFFICES ASSUME Inv PROVE HeadInStep OBVIOUS
  <1>1. DriveFine /\ HeadFine /\ DirFine /\ EngineFine BY DEF Inv
  <1>2. drive.at \in 0 .. Limit + 1 /\ src \in 0 .. Len(image) BY <1>1, DriveIs DEF HeadFine
  <1>3. engine.stage \in {"idle", "count", "header", "body", "formatting"} BY <1>1, EngineIs DEF Stages
  <1>4. engine.open => engine.stage = "body" /\ temp # <<>> /\ temp[1] = engine.hdr
    <2>1. engine.open => engine.stage = "body" /\ temp = <<engine.hdr, temp[2]>> BY <1>1 DEF EngineFine
    <2>2. \A a, b : <<a, b>> # <<>> /\ <<a, b>>[1] = a OBVIOUS
    <2> QED BY <2>1, <2>2
  <1>5. Len(served) <= MaxFiles /\ TapeLen(served) <= MaxSize /\ Distinct(dir) BY <1>1 DEF DirFine, Serves
  <1>6. drive.std = "image" => Size = Len(image) BY <1>1, DriveIs
  <1>7. drive.std = "image" /\ drive.at < Size /\ drive.at <= Limit => src = drive.at BY <1>1, <1>6 DEF HeadFine
  <1> QED BY <1>2, <1>3, <1>4, <1>5, <1>7 DEF HeadInStep, TypeOK

\* What the guest writes into an image lands under the head (HeadInStep), on a
\* medium whose accesses do not fail, whatever the size of the image; and
\* the types hold: the index never outgrows the count or the medium, no two
\* files have one name, and the temporary file is that of the body being
\* written, whatever is begun and given up, mounted, reset or cut off.
THEOREM HeadTheorem == Spec => []HeadInStep
  BY InvHolds, InvSays, PTL

\* No listing costs a file, no save costs a file other than the program whose
\* exact Sharp name it saves, and no format one that is not a program, whichever
\* access of a job fails and wherever it is given up (OthersSurvive).
THEOREM SurvivalTheorem == Spec => OthersSurvive
  <1>1. Inv /\ [Next]_vars => [Kept]_vars
    <2> SUFFICES ASSUME Inv, [Next]_vars PROVE [Kept]_vars OBVIOUS
    <2>1. CASE Next BY <2>1, StepKeeps
    <2>2. CASE UNCHANGED vars BY <2>2
    <2> QED BY <2>1, <2>2
  <1>2. Spec => [][Kept]_vars BY <1>1, InvHolds, PTL DEF Spec
  <1> QED BY <1>2 DEF OthersSurvive, Kept
====
