---------------------------- MODULE FloppyProofs ---------------------------
(***************************************************************************)
(* The floppy controller, proved for every size of unit, every disk in the *)
(* DSK layout and every number of tracks: TransferInv and ReadsBack.       *)
(***************************************************************************)
EXTENDS Floppy, WellFoundedInduction, TLAPS

-----------------------------------------------------------------------------
(* Induction over the naturals, from the library's well-founded minimum.   *)

\* A set with 0 and the successor of each of its members is all of Nat.
LEMMA NatInd ==
  ASSUME NEW S \in SUBSET Nat, 0 \in S, \A n \in S : n + 1 \in S
  PROVE  S = Nat
  <1>1. SUFFICES ASSUME Nat \ S # {} PROVE FALSE
    OBVIOUS
  <1>2. IsWellFoundedOn(OpToRel(<,Nat), Nat) BY NatLessThanWellFounded
  <1>3. PICK n \in Nat \ S : \A y \in Nat \ S : <<y, n>> \notin OpToRel(<, Nat)
    BY <1>1, <1>2, WFMin
  <1>4. n # 0 BY <1>3
  <1>5. n - 1 \in Nat /\ n - 1 < n BY <1>4
  <1>6. n - 1 \in S
    <2>1. <<n - 1, n>> \in OpToRel(<, Nat) BY <1>5 DEF OpToRel
    <2> QED BY <1>3, <1>5, <2>1
  <1> QED BY <1>6

\* A set of naturals that is not empty has a least one.
LEMMA LeastOf == ASSUME NEW S \in SUBSET Nat, S # {} PROVE Min(S) \in S
  <1> DEFINE B == {m \in Nat : \A k \in S : m <= k}
  <1>1. SUFFICES ASSUME ~(\E m \in S : \A k \in S : m <= k) PROVE FALSE
    BY DEF Min
  <1>2. 0 \in B OBVIOUS
  <1>3. \A m \in B : m + 1 \in B BY <1>1
  <1>4. B = Nat
    <2> HIDE DEF B
    <2>1. B \in SUBSET Nat BY DEF B
    <2> QED BY <1>2, <1>3, <2>1, NatInd
  <1>5. PICK k \in S : TRUE OBVIOUS
  <1>6. k \in Nat /\ k + 1 \in Nat BY <1>5
  <1>7. k + 1 <= k BY <1>4, <1>5, <1>6
  <1> QED BY <1>6, <1>7

LEMMA Placed ==
  ASSUME NEW ids \in Seq(Nat), NEW id
  PROVE  \/ Place(ids, id) = 0 /\ \A i \in 1 .. Len(ids) : ids[i] # id
         \/ Place(ids, id) \in 1 .. Len(ids) /\ ids[Place(ids, id)] = id
  <1> DEFINE I == {i \in 1 .. Len(ids) : ids[i] = id}
  <1>1. Place(ids, id) = IF I # {} THEN Min(I) ELSE 0 BY DEF Place, SelectInSeq
  <1>2. I \in SUBSET Nat OBVIOUS
  <1>3. CASE I = {} BY <1>1, <1>3
  <1>4. CASE I # {}
    <2>1. Min(I) \in I
      <3> HIDE DEF I
      <3> QED BY <1>2, <1>4, LeastOf
    <2> QED BY <1>1, <1>4, <2>1
  <1> QED BY <1>3, <1>4

Summing(f, table, m) ==
    f = [s \in 0 .. m |-> IF s = 0 THEN 1 ELSE f[s - 1] + table[s - 1]]
Summable(table, m) == \E f \in [0 .. m -> Nat] : Summing(f, table, m)

\* Two sums of the same sizes agree.
LEMMA SummingAgrees ==
  ASSUME NEW n \in Nat, NEW t \in [0 .. n -> Nat],
         NEW f, NEW g, NEW m1 \in 0 .. n + 1, NEW m2 \in 0 .. n + 1, NEW m \in 0 .. n + 1,
         Summing(f, t, m1), Summing(g, t, m2), m <= m1, m <= m2
  PROVE  f[m] = g[m] /\ f[m] \in Nat \ {0}
  <1> DEFINE A == {s \in Nat : s <= m => f[s] = g[s] /\ f[s] \in Nat \ {0}}
  <1>1. /\ \A s \in 0 .. m1 : f[s] = IF s = 0 THEN 1 ELSE f[s - 1] + t[s - 1]
        /\ \A s \in 0 .. m2 : g[s] = IF s = 0 THEN 1 ELSE g[s - 1] + t[s - 1]
    BY DEF Summing
  <1>2. 0 \in A BY <1>1
  <1>3. ASSUME NEW s \in A PROVE s + 1 \in A
    <2>1. CASE s + 1 <= m
      <3>1. s \in 0 .. n /\ t[s] \in Nat /\ f[s] = g[s] /\ f[s] \in Nat \ {0}
        BY <2>1
      <3>2. s + 1 \in 0 .. m1 /\ s + 1 \in 0 .. m2 /\ s + 1 # 0 /\ (s + 1) - 1 = s BY <2>1
      <3>3. f[s + 1] = f[s] + t[s] /\ g[s + 1] = g[s] + t[s] BY <1>1, <3>2
      <3> QED BY <3>1, <3>3
    <2> QED BY <2>1
  <1>4. A = Nat
    <2> HIDE DEF A
    <2>1. A \in SUBSET Nat BY DEF A
    <2> QED BY <1>2, <1>3, <2>1, NatInd
  <1> QED BY <1>4

LEMMA SumExists ==
  ASSUME NEW n \in Nat, NEW table \in [0 .. n -> Nat], NEW m \in 0 .. n + 1
  PROVE  Summable(table, m)
  <1> DEFINE E == {k \in Nat : k <= n + 1 => Summable(table, k)}
  <1>1. 0 \in E
    <2>1. [s \in 0 .. 0 |-> 1] \in [0 .. 0 -> Nat] /\ Summing([s \in 0 .. 0 |-> 1], table, 0)
      BY DEF Summing
    <2> QED BY <2>1 DEF Summable
  <1>2. ASSUME NEW k \in E PROVE k + 1 \in E
    <2>1. SUFFICES ASSUME k + 1 <= n + 1 PROVE Summable(table, k + 1)
      OBVIOUS
    <2>2. PICK f \in [0 .. k -> Nat] : Summing(f, table, k) BY <1>2, <2>1 DEF Summable
    <2> DEFINE g == [s \in 0 .. k + 1 |-> IF s = k + 1 THEN f[k] + table[k] ELSE f[s]]
    <2>3. k \in 0 .. n /\ table[k] \in Nat /\ f[k] \in Nat BY <2>1, <2>2
    <2>4. g \in [0 .. k + 1 -> Nat] BY <2>3, <2>2
    <2>5. \A s \in 0 .. k : f[s] = IF s = 0 THEN 1 ELSE f[s - 1] + table[s - 1]
      BY <2>2 DEF Summing
    <2>6. \A s \in 0 .. k + 1 : g[s] = IF s = 0 THEN 1 ELSE g[s - 1] + table[s - 1]
      BY <2>5, <2>3
    <2>7. Summing(g, table, k + 1) BY <2>4, <2>6 DEF Summing
    <2> QED BY <2>4, <2>7 DEF Summable
  <1>3. E = Nat
    <2> HIDE DEF E
    <2>1. E \in SUBSET Nat BY DEF E
    <2> QED BY <1>1, <1>2, <2>1, NatInd
  <1>4. m \in E BY <1>3
  <1> QED BY <1>4

LEMMA StartSums ==
  ASSUME NEW n \in Nat, NEW table \in [0 .. n -> Nat], NEW m \in 0 .. n + 1
  PROVE  \E f : Summing(f, table, m) /\ Start(table, m) = f[m]
  <1> DEFINE G == CHOOSE g : Summing(g, table, m)
  <1>1. Summing(G, table, m) BY SumExists DEF Summable
  <1>2. Start(table, m) = G[m] BY DEF Start, Summing
  <1> QED BY <1>1, <1>2

\* getTrackOffset adds the sizes of the tracks before.
LEMMA StartIs ==
  ASSUME NEW n \in Nat, NEW table \in [0 .. n -> Nat]
  PROVE  /\ Start(table, 0) = 1
         /\ \A m \in 0 .. n + 1 : Start(table, m) \in Nat \ {0}
         /\ \A m \in 0 .. n : Start(table, m + 1) = Start(table, m) + table[m]
  <1>1. ASSUME NEW m \in 0 .. n + 1 PROVE Start(table, m) \in Nat \ {0}
    <2>1. PICK f : Summing(f, table, m) /\ Start(table, m) = f[m] BY StartSums
    <2>2. f[m] \in Nat \ {0} BY <2>1, SummingAgrees
    <2> QED BY <2>1, <2>2
  <1>2. Start(table, 0) = 1
    <2>1. PICK f : Summing(f, table, 0) /\ Start(table, 0) = f[0] BY StartSums
    <2> QED BY <2>1 DEF Summing
  <1>3. ASSUME NEW m \in 0 .. n PROVE Start(table, m + 1) = Start(table, m) + table[m]
    <2>0. m \in 0 .. n + 1 /\ m + 1 \in 0 .. n + 1 /\ m <= m + 1 OBVIOUS
    <2>1. PICK f : Summing(f, table, m) /\ Start(table, m) = f[m] BY <2>0, StartSums
    <2>2. PICK g : Summing(g, table, m + 1) /\ Start(table, m + 1) = g[m + 1] BY <2>0, StartSums
    <2>3. f[m] = g[m] BY <2>0, <2>1, <2>2, SummingAgrees
    <2>4. g[m + 1] = g[m] + table[m] BY <2>2 DEF Summing
    <2> QED BY <2>1, <2>2, <2>3, <2>4
  <1> QED BY <1>1, <1>2, <1>3

Same(t1, t2, m) == \A i \in 0 .. m - 1 : t1[i] = t2[i]

\* It depends on the sizes below the slot alone.
LEMMA StartDepends ==
  ASSUME NEW n \in Nat, NEW t1 \in [0 .. n -> Nat], NEW t2 \in [0 .. n -> Nat], NEW m \in 0 .. n + 1,
         Same(t1, t2, m)
  PROVE  Start(t1, m) = Start(t2, m)
  <1> DEFINE A == {k \in Nat : k <= m => Start(t1, k) = Start(t2, k)}
  <1>1. /\ Start(t1, 0) = 1 /\ Start(t2, 0) = 1
        /\ \A k \in 0 .. n : Start(t1, k + 1) = Start(t1, k) + t1[k] /\ Start(t2, k + 1) = Start(t2, k) + t2[k]
    BY StartIs
  <1> HIDE DEF Start
  <1>2. 0 \in A BY <1>1
  <1>3. ASSUME NEW k \in A PROVE k + 1 \in A
    <2>1. k + 1 <= m => k \in 0 .. n /\ t1[k] = t2[k] /\ Start(t1, k) = Start(t2, k) BY DEF Same
    <2> QED BY <1>1, <2>1
  <1>4. A = Nat
    <2> HIDE DEF A
    <2>1. A \in SUBSET Nat BY DEF A
    <2> QED BY <1>2, <1>3, <2>1, NatInd
  <1>5. m \in A BY <1>4
  <1> QED BY <1>5

LEMMA StartGrows ==
  ASSUME NEW n \in Nat, NEW table \in [0 .. n -> Nat], NEW s \in 0 .. n, NEW m \in 0 .. n + 1, s < m
  PROVE  Start(table, s) + table[s] <= Start(table, m)
  <1> DEFINE A == {k \in Nat : s < k /\ k <= n + 1 => Start(table, s) + table[s] <= Start(table, k)}
  <1> HIDE DEF Start
  <1>1. 0 \in A OBVIOUS
  <1>2. ASSUME NEW k \in A PROVE k + 1 \in A
    <2>1. CASE s < k + 1 /\ k + 1 <= n + 1
      <3>1. k \in 0 .. n /\ s \in 0 .. n + 1 /\ k \in 0 .. n + 1 /\ k + 1 \in 0 .. n + 1 BY <2>1
      <3>2. /\ Start(table, s) \in Nat /\ Start(table, k) \in Nat /\ table[k] \in Nat /\ table[s] \in Nat
            /\ Start(table, k + 1) = Start(table, k) + table[k]
        BY <3>1, StartIs
      <3>3. CASE s = k BY <3>2, <3>3, <2>1
      <3>4. CASE s < k
        <4>1. Start(table, s) + table[s] <= Start(table, k) BY <3>4, <3>1
        <4>2. Start(table, s) + table[s] <= Start(table, k + 1) BY <3>2, <4>1
        <4> QED BY <4>2
      <3> QED BY <3>3, <3>4, <2>1
    <2> QED BY <2>1
  <1>3. A = Nat
    <2> HIDE DEF A
    <2>1. A \in SUBSET Nat BY DEF A
    <2> QED BY <1>1, <1>2, <2>1, NatInd
  <1>4. m \in A BY <1>3
  <1> QED BY <1>4

-----------------------------------------------------------------------------
(* The arithmetic of units.                                                *)

LEMMA Times ==
  ASSUME NEW B \in Nat \ {0}, NEW a \in Nat, NEW b \in Nat
  PROVE  /\ a * B \in Nat /\ (a < b => a * B + B <= b * B)
         /\ (a * B < b * B <=> a < b)
  <1>1. a * B \in Nat /\ b * B \in Nat OBVIOUS
  <1>2. ASSUME a < b PROVE a * B + B <= b * B
    <2>1. b - a - 1 \in Nat /\ b = a + 1 + (b - a - 1) BY <1>2
    <2>2. b * B = a * B + B + (b - a - 1) * B /\ (b - a - 1) * B \in Nat BY <2>1
    <2> QED BY <1>1, <2>2
  <1>3. ASSUME ~(a < b) PROVE ~(a * B < b * B)
    <2>1. a - b \in Nat /\ a = b + (a - b) BY <1>3
    <2>2. a * B = b * B + (a - b) * B /\ (a - b) * B \in Nat BY <2>1
    <2> QED BY <1>1, <2>2
  <1> QED BY <1>1, <1>2, <1>3

LEMMA Remainder ==
  ASSUME NEW B \in Nat \ {0}, NEW k \in Nat, NEW r \in 0 .. B - 1
  PROVE  (k * B + r) % B = r
  <1> DEFINE x == k * B + r
             q == x \div B
             m == x % B
  <1>0. k * B \in Nat BY Times
  <1>1. x \in Nat BY <1>0
  <1>2. x = q * B + m /\ m \in 0 .. B - 1 /\ q \in Nat BY <1>1
  <1>3. x = k * B + r OBVIOUS
  <1> HIDE DEF x, q, m
  <1>4. q * B \in Nat BY <1>2, Times
  <1>5. ~(k < q)
    <2>1. k < q => k * B + B <= q * B BY <1>2, Times
    <2> QED BY <1>0, <1>2, <1>3, <1>4, <2>1
  <1>6. ~(q < k)
    <2>1. q < k => q * B + B <= k * B BY <1>2, Times
    <2> QED BY <1>0, <1>2, <1>3, <1>4, <2>1
  <1>7. q = k BY <1>2, <1>5, <1>6
  <1>8. m = r BY <1>0, <1>2, <1>3, <1>7
  <1> QED BY <1>8 DEF m, x

-----------------------------------------------------------------------------
(* The stream of a format.                                                 *)

\* An ID mark is followed by the four bytes of the ID.
Marked(s) == \A p \in 1 .. Len(s) :
                s[p] = IdMark => p + 4 <= Len(s) /\ s[p + 3] >= 0 /\ s[p + 4] >= 0
Fine(s) == s \in Seq(Int) /\ Marked(s)

LEMMA FineJoins == ASSUME NEW a, NEW b, Fine(a), Fine(b) PROVE Fine(a \o b)
  <1> DEFINE s == a \o b
  <1>1. s \in Seq(Int) /\ Len(s) = Len(a) + Len(b) /\ Len(a) \in Nat /\ Len(b) \in Nat BY DEF Fine
  <1>2. \A p \in 1 .. Len(a) : s[p] = a[p] BY DEF Fine
  <1>3. \A p \in Len(a) + 1 .. Len(s) : s[p] = b[p - Len(a)] BY DEF Fine
  <1> HIDE DEF s
  <1>4. ASSUME NEW p \in 1 .. Len(s), s[p] = IdMark
        PROVE  p + 4 <= Len(s) /\ s[p + 3] >= 0 /\ s[p + 4] >= 0
    <2>1. CASE p \in 1 .. Len(a)
      <3>1. p + 4 <= Len(a) /\ a[p + 3] >= 0 /\ a[p + 4] >= 0 BY <1>2, <1>4, <2>1 DEF Fine, Marked
      <3>2. p + 3 \in 1 .. Len(a) /\ p + 4 \in 1 .. Len(a) BY <1>1, <2>1, <3>1
      <3> QED BY <1>1, <1>2, <3>1, <3>2
    <2>2. CASE p \in Len(a) + 1 .. Len(s)
      <3> DEFINE q == p - Len(a)
      <3>1. q \in 1 .. Len(b) /\ b[q] = IdMark BY <1>1, <1>3, <1>4, <2>2
      <3>2. q + 4 <= Len(b) /\ b[q + 3] >= 0 /\ b[q + 4] >= 0 BY <3>1 DEF Fine, Marked
      <3>3. p + 3 \in Len(a) + 1 .. Len(s) /\ p + 4 \in Len(a) + 1 .. Len(s) BY <1>1, <2>2, <3>2
      <3>4. s[p + 3] = b[q + 3] /\ s[p + 4] = b[q + 4]
        <4>1. s[p + 3] = b[p + 3 - Len(a)] /\ s[p + 4] = b[p + 4 - Len(a)] BY <1>3, <3>3
        <4>2. p + 3 - Len(a) = q + 3 /\ p + 4 - Len(a) = q + 4 BY <1>1, <2>2
        <4> QED BY <4>1, <4>2
      <3> QED BY <1>1, <2>2, <3>2, <3>3, <3>4
    <2> QED BY <1>1, <2>1, <2>2
  <1>5. Fine(s) BY <1>1, <1>4 DEF Fine, Marked
  <1> QED BY <1>5 DEF s

Flattening(f, seqs, m) ==
    f = [i \in 1 .. m |-> IF i = 1 THEN seqs[i] ELSE f[i - 1] \o seqs[i]]
Flattens(seqs, m) == \E f : Flattening(f, seqs, m)

LEMMA FlattenExists == ASSUME NEW seqs, NEW m \in Nat PROVE Flattens(seqs, m)
  <1> DEFINE E == {k \in Nat : Flattens(seqs, k)}
  <1>1. 0 \in E
    <2>1. Flattening([i \in 1 .. 0 |-> 0], seqs, 0) BY DEF Flattening
    <2> QED BY <2>1 DEF Flattens
  <1>2. ASSUME NEW k \in E PROVE k + 1 \in E
    <2>1. PICK f : Flattening(f, seqs, k) BY <1>2 DEF Flattens
    <2> DEFINE g == [i \in 1 .. k + 1 |-> IF i = k + 1 THEN IF i = 1 THEN seqs[i] ELSE f[k] \o seqs[i]
                                          ELSE f[i]]
    <2>2. \A i \in 1 .. k : f[i] = IF i = 1 THEN seqs[i] ELSE f[i - 1] \o seqs[i]
      BY <2>1 DEF Flattening
    <2>3. k \in Nat OBVIOUS
    <2>4. \A i \in 1 .. k + 1 : g[i] = IF i = 1 THEN seqs[i] ELSE g[i - 1] \o seqs[i]
      BY <2>2, <2>3
    <2>5. g = [i \in 1 .. k + 1 |-> g[i]] OBVIOUS
    <2>6. Flattening(g, seqs, k + 1)
      <3> HIDE DEF g
      <3> QED BY <2>4, <2>5 DEF Flattening
    <2> QED BY <2>6 DEF Flattens
  <1>3. E = Nat
    <2> HIDE DEF E
    <2>1. E \in SUBSET Nat BY DEF E
    <2> QED BY <1>1, <1>2, <2>1, NatInd
  <1> QED BY <1>3

LEMMA FineFlattens ==
  ASSUME NEW n \in Nat, NEW seqs, Len(seqs) = n, n = 0 => seqs = <<>>,
         \A i \in 1 .. n : Fine(seqs[i])
  PROVE  Fine(FlattenSeq(seqs))
  <1>1. CASE n = 0 BY <1>1 DEF FlattenSeq, Fine, Marked
  <1>2. CASE n # 0
    <2> DEFINE G == CHOOSE g : Flattening(g, seqs, n)
    <2>1. Flattening(G, seqs, n) BY FlattenExists DEF Flattens
    <2>2. FlattenSeq(seqs) = G[n] BY <1>2 DEF FlattenSeq, Flattening
    <2> HIDE DEF G
    <2> DEFINE A == {i \in Nat : i \in 1 .. n => Fine(G[i])}
    <2>3. \A i \in 1 .. n : G[i] = IF i = 1 THEN seqs[i] ELSE G[i - 1] \o seqs[i]
      BY <2>1 DEF Flattening
    <2>4. 0 \in A OBVIOUS
    <2>5. ASSUME NEW i \in A PROVE i + 1 \in A
      <3>1. SUFFICES ASSUME i + 1 \in 1 .. n PROVE Fine(G[i + 1]) OBVIOUS
      <3>2. CASE i = 0 BY <2>3, <3>1, <3>2
      <3>3. CASE i # 0
        <4>1. i \in 1 .. n /\ Fine(G[i]) BY <3>1, <3>3
        <4>2. \A j \in 1 .. n : j # 1 => G[j] = G[j - 1] \o seqs[j] BY <2>3
        <4>4. i + 1 # 1 /\ (i + 1) - 1 = i BY <3>3
        <4>3. G[i + 1] = G[i] \o seqs[i + 1] BY <3>1, <4>2, <4>4
        <4> QED BY <3>1, <4>1, <4>3, FineJoins
      <3> QED BY <3>2, <3>3
    <2>6. A = Nat
      <3> HIDE DEF A
      <3>1. A \in SUBSET Nat BY DEF A
      <3> QED BY <2>4, <2>5, <3>1, NatInd
    <2>7. n \in A BY <2>6
    <2> QED BY <1>2, <2>2, <2>7
  <1> QED BY <1>1, <1>2

LEMMA StreamFine ==
  ASSUME NEW layout \in LayoutType PROVE Fine(Stream(layout)) /\ Stream(layout) # <<>>
  <1> DEFINE n == Len(layout.ids)
             c == layout.code * U
             Fill == [i \in 1 .. c |-> layout.fill]
             Block(k) == <<IdMark, 0, 0, layout.ids[k], layout.code, DataMark>> \o Fill \o <<Gap>>
             seqs == [k \in 1 .. n |-> Block(k)]
  <1>0. n \in Nat /\ c \in Nat /\ layout.fill \in Nat /\ layout.code \in Nat
        /\ \A k \in 1 .. n : layout.ids[k] \in Nat
    BY FloppyAssumption, Times DEF LayoutType
  <1>1. Fine(<<IndexMark>>) /\ Fine(<<Gap>>) BY DEF Fine, Marked, IndexMark, Gap, IdMark
  <1>2. Fine(Fill)
    <2>1. Fill \in Seq(Int) /\ Len(Fill) = c /\ \A p \in 1 .. c : Fill[p] >= 0 BY <1>0
    <2> HIDE DEF Fill
    <2> QED BY <1>0, <2>1 DEF Fine, Marked, IdMark
  <1>3. ASSUME NEW k \in 1 .. n PROVE Fine(Block(k))
    <2>1. Fine(<<IdMark, 0, 0, layout.ids[k], layout.code, DataMark>>)
      BY <1>0 DEF Fine, Marked, IdMark, DataMark
    <2> HIDE DEF Fill
    <2> QED BY <1>1, <1>2, <2>1, FineJoins
  <1>4. seqs \in Seq({Block(k) : k \in 1 .. n}) /\ Len(seqs) = n /\ \A k \in 1 .. n : seqs[k] = Block(k)
    <2> HIDE DEF Block
    <2> QED BY <1>0
  <1>5. n = 0 => seqs = <<>> BY <1>0, <1>4
  <1>6. Fine(FlattenSeq(seqs))
    <2> HIDE DEF seqs, n, Block
    <2>1. \A i \in 1 .. n : Fine(seqs[i]) BY <1>3, <1>4
    <2> QED BY <1>0, <1>4, <1>5, <2>1, FineFlattens
  <1>7. Stream(layout) = <<IndexMark>> \o FlattenSeq(seqs) \o <<Gap>> BY DEF Stream
  <1>8. Fine(Stream(layout))
    <2> HIDE DEF seqs
    <2> QED BY <1>1, <1>6, <1>7, FineJoins
  <1>9. Stream(layout) # <<>>
    <2> HIDE DEF seqs
    <2>1. FlattenSeq(seqs) \in Seq(Int) BY <1>6 DEF Fine
    <2> QED BY <1>7, <2>1
  <1> QED BY <1>8, <1>9
-----------------------------------------------------------------------------
(* The inductive invariant: types.                                         *)

Flags == {Busy, Drq, NotFound, Crc, Fault, NotReady, Protect, Track0}
Commands == {"none", "move", "read", "write", "address", "track", "format"}
RegType ==
    [status : SUBSET Flags, data : Nat, track : 0 .. MaxTrack, sector : Nat, side : {0, 1},
     sel : Drives, cmd : Commands, count : Nat, pos : 0 .. U - 1, multi : BOOLEAN,
     script : 0 .. 4, polls : 0 .. MaxPolls, errint : BOOLEAN, stage : 0 .. 4, marks : Nat,
     ids : Seq(Nat), code : Nat, fill : Int, phase : 0 .. 2, idx : Nat, rest : Nat]
BufType == [0 .. U - 1 -> Byte]
DriveType ==
    [in : BOOLEAN, track : 0 .. MaxTrack, side : {0, 1}, sector : Nat,
     size : {c * U : c \in Nat}, at : Nat, offset : Nat]
ImageType == [table : [Slots -> Nat], units : Seq(UnitType)]
JobType ==
    [op : Commands, id : Nat, ready : BOOLEAN, done : BOOLEAN, multi : BOOLEAN,
     byte : Int, stream : Seq(Int)]

RegFine(r) == r \in RegType /\ SlotOf(r.track, r.side) \in Slots
JobFine(j) == /\ j \in JobType
              /\ j.done => j.op = "read" /\ j.ready
              /\ IF j.op = "format" THEN j.stream # <<>> /\ Marked(j.stream) ELSE j.stream = <<>>
TracksFine(tracks) == DOMAIN tracks = Slots /\ \A s \in Slots : IsTrack(tracks[s])

Types == /\ disk \in Setups /\ RegFine(reg) /\ buf \in BufType /\ JobFine(job)
         /\ drive \in [Drives -> DriveType] /\ file \in [Drives -> ImageType]
         /\ DOMAIN belief = Drives /\ \A d \in Drives : TracksFine(belief[d])
         /\ wrong \in BOOLEAN

-----------------------------------------------------------------------------
(* The inductive invariant: the command under way.                         *)

HeaderOf(image, p) == IF p < Len(image.units) THEN image.units[p + 1] ELSE Header(<<>>, 0)
PlaceOn(image, o, id) == Place(HeaderOf(image, o).ids, id)
CodeOn(image, o) == HeaderOf(image, o).code
First(image, o, id) == o + 1 + (PlaceOn(image, o, id) - 1) * CodeOn(image, o)
Present(image, o, id) ==
    PlaceOn(image, o, id) # 0 /\ CodeOn(image, o) # 0 /\ First(image, o, id) < Len(image.units)

\* What the driver of a transfer has been told is true of the registers.
Carries(j) == j.op \in {"read", "write"} /\ ~j.done
Live(r, j) == r.cmd = j.op /\ r.count # 0
Controlled(r, j) ==
    /\ r.cmd \in {"none", j.op}
    /\ j.op = "none" => r.count = 0 /\ r.status = {} /\ r.script = 0
    /\ Carries(j) =>
          /\ Live(r, j) => r.script = 2 \/ (r.script \in {0, 1} /\ {Busy, Drq} \subseteq r.status)
          /\ r.script = 2 \/ (r.script \in {0, 1} /\ Drq \in r.status) => Live(r, j)
          /\ j.ready => Drq \in r.status /\ r.script = 0
          /\ j.op = "read" /\ ~j.ready /\ Live(r, j) => r.polls <= 1 /\ (r.script # 0 => r.polls = 0)

\* The counter, the place in the buffer and the position agree, and the buffer
\* holds what has been read from the image or is to be written to it.
MovingIn(image, d, r, b, j) ==
    LET first == First(image, d.offset, j.id)
        k == d.at - (IF j.op = "read" THEN 1 ELSE 0) - first
    IN  /\ d.in /\ d.track = r.track /\ d.side = r.side /\ d.sector = j.id
        /\ Present(image, d.offset, j.id) /\ d.size = CodeOn(image, d.offset) * U
        /\ k >= 0 /\ r.count + k * U + r.pos = d.size
        /\ j.op = "read" => d.at <= Len(image.units) /\ b = image.units[d.at].bytes
        /\ j.op = "write" =>
              /\ \A i \in 0 .. r.pos - 1 : b[i] = j.byte
              /\ \A p \in first + 1 .. d.at : \A i \in 0 .. U - 1 : image.units[p].bytes[i] = j.byte
UnderwayIn(image, d, r, b, j) == Carries(j) /\ Live(r, j) => MovingIn(image, d, r, b, j)

AddressIn(r, b, j) == j.op = "address" /\ r.cmd = "address" /\ r.count >= 2 => b[0] = r.track

\* Where READ TRACK is: before the sectors, before a sector, or in its data.
TrackIn(image, d, r, j) ==
    j.op = "track" /\ r.cmd = "track" /\ r.count # 0 =>
    LET n == Len(r.ids)
        size == r.code * U
        start == d.offset + 1 + (r.idx - 1) * r.code
        ended == d.at >= Len(image.units)
    IN  /\ d.in /\ d.track = r.track /\ d.side = r.side /\ d.offset < Len(image.units)
        /\ HeaderOf(image, d.offset).ids = r.ids /\ CodeOn(image, d.offset) = r.code /\ r.code # 0
        /\ \/ r.phase = 0 /\ r.idx = 1 /\ d.at = start /\ r.count = 1 + n * (1 + size)
           \/ /\ r.phase = 1 /\ r.idx \in 1 .. n + 1 /\ r.count = (n + 1 - r.idx) * (1 + size)
              /\ d.at = start \/ ended
           \/ /\ r.phase = 2 /\ r.idx \in 1 .. n /\ r.rest \in 1 .. size
              /\ r.count = r.rest + (n - r.idx) * (1 + size)
              /\ ended \/ \E k \in 0 .. r.code - 1, i \in 0 .. U - 1 :
                              size - r.rest = k * U + i /\ d.at = start + k

\* In an ID the driver has the bytes of the sector and its size code to come.
FormatIn(r, j) ==
    j.op = "format" /\ r.cmd = "format" /\ r.stage = 2 /\ r.marks <= 4 =>
        /\ r.marks >= 1 /\ Len(j.stream) >= 5 - r.marks
        /\ j.stream[5 - r.marks] >= 0
        /\ r.marks <= 3 => j.stream[4 - r.marks] >= 0

-----------------------------------------------------------------------------
(* The inductive invariant: the images.                                    *)

Blank(tracks) == \A s \in Slots : tracks[s].ids = <<>>
CachedIn(image, d, tracks) ==
    LET slot == SlotOf(d.track, d.side)
        o == Offset(image, slot)
    IN  d.in => Blank(tracks) \/ (slot \in Slots /\ o # 0 /\ d.offset = o)
HoldsIn(image, tracks) == Laid(image) /\ \A s \in Slots : Bears(image, s, tracks[s])
Holds == \A d \in Drives : HoldsIn(file[d], belief[d]) /\ CachedIn(file[d], drive[d], belief[d])

Inv == /\ Types /\ Controlled(reg, job)
       /\ UnderwayIn(Image, Cur, reg, buf, job)
       /\ AddressIn(reg, buf, job) /\ TrackIn(Image, Cur, reg, job) /\ FormatIn(reg, job)
       /\ Holds /\ ~wrong

-----------------------------------------------------------------------------
(* The disks.                                                              *)

LastSlot == Cardinality(Slots) - 1

LEMMA Disks ==
  ASSUME disk \in Setups
  PROVE  /\ LastSlot \in Nat /\ Slots = 0 .. LastSlot /\ 0 \in Drives /\ MaxTrack \in Nat
         /\ \A t \in Nat, s \in {0, 1} : SlotOf(t, s) \in Nat /\ (SlotOf(t, s) <= LastSlot => t \in 0 .. MaxTrack)
         /\ \A d \in Drives :
               /\ disk[d].dirsrc \in BOOLEAN /\ disk[d].configured \in BOOLEAN /\ disk[d].frail \in BOOLEAN
               /\ disk[d].file \in ImageType /\ HoldsIn(disk[d].file, disk[d].holds)
               /\ TracksFine(disk[d].holds) /\ disk[d].layouts \subseteq LayoutType
  <1>1. /\ 0 \in Drives /\ LastSlot \in Nat
        /\ \A d \in Drives :
              /\ {disk[d].wp, disk[d].dirsrc, disk[d].configured, disk[d].frail} \subseteq BOOLEAN
              /\ disk[d].file = [table |-> disk[d].file.table, units |-> disk[d].file.units]
              /\ disk[d].file.table \in [0 .. LastSlot -> Nat] /\ disk[d].file.units \in Seq(UnitType)
              /\ Laid(disk[d].file)
              /\ disk[d].layouts \subseteq LayoutType
              /\ DOMAIN disk[d].holds = 0 .. LastSlot
              /\ \A t \in 0 .. LastSlot : IsTrack(disk[d].holds[t]) /\ Bears(disk[d].file, t, disk[d].holds[t])
    BY SetupAssumption DEF LastSlot, Drives, Slots
  <1>2. Slots = 0 .. LastSlot BY <1>1 DEF Slots
  <1>3. MaxTrack = LastSlot \div 2 BY DEF MaxTrack, LastSlot
  <1>4. /\ MaxTrack \in Nat
        /\ \A t \in Nat, s \in {0, 1} : SlotOf(t, s) \in Nat /\ (SlotOf(t, s) <= LastSlot => t \in 0 .. MaxTrack)
    BY <1>1, <1>3 DEF SlotOf
  <1>5. ASSUME NEW d \in Drives
        PROVE  /\ disk[d].file \in ImageType /\ HoldsIn(disk[d].file, disk[d].holds)
               /\ TracksFine(disk[d].holds) /\ disk[d].layouts \subseteq LayoutType
    <2>1. disk[d].file \in ImageType
      <3> DEFINE t == disk[d].file.table
                 u == disk[d].file.units
      <3>1. disk[d].file = [table |-> t, units |-> u] /\ t \in [Slots -> Nat] /\ u \in Seq(UnitType)
        BY <1>1, <1>2
      <3> HIDE DEF t, u
      <3> QED BY <3>1 DEF ImageType
    <2>2. HoldsIn(disk[d].file, disk[d].holds) BY <1>1, <1>2 DEF HoldsIn
    <2>3. TracksFine(disk[d].holds) BY <1>1, <1>2 DEF TracksFine
    <2> QED BY <1>1, <2>1, <2>2, <2>3
  <1>6. \A d \in Drives : /\ disk[d].dirsrc \in BOOLEAN /\ disk[d].configured \in BOOLEAN
                          /\ disk[d].frail \in BOOLEAN
    BY <1>1
  <1> QED BY <1>1, <1>2, <1>4, <1>5, <1>6

\* What the types are built from does not change.
LEMMA TypesStay ==
  ASSUME disk' = disk
  PROVE  /\ Slots' = Slots /\ Drives' = Drives /\ MaxTrack' = MaxTrack /\ RegType' = RegType
         /\ DriveType' = DriveType /\ ImageType' = ImageType
         /\ \A r : RegFine(r)' <=> RegFine(r)
         /\ \A t : TracksFine(t)' <=> TracksFine(t)
         /\ \A i, t : HoldsIn(i, t)' <=> HoldsIn(i, t)
         /\ \A i, d, t : CachedIn(i, d, t)' <=> CachedIn(i, d, t)
  <1>1. Slots' = Slots /\ Drives' = Drives BY DEF Slots, Drives
  <1>2. MaxTrack' = MaxTrack BY <1>1 DEF MaxTrack
  <1>3. RegType' = RegType BY <1>1, <1>2 DEF RegType
  <1>4. DriveType' = DriveType BY <1>2 DEF DriveType
  <1>5. ImageType' = ImageType BY <1>1 DEF ImageType
  <1>6. \A r : RegFine(r)' <=> RegFine(r) BY <1>1, <1>3 DEF RegFine
  <1>7. \A t : TracksFine(t)' <=> TracksFine(t) BY <1>1 DEF TracksFine
  <1>8. \A i, t : HoldsIn(i, t)' <=> HoldsIn(i, t) BY <1>1 DEF HoldsIn
  <1>9. \A i, d, t : CachedIn(i, d, t)' <=> CachedIn(i, d, t) BY <1>1 DEF CachedIn, Blank
  <1> QED BY <1>1, <1>2, <1>3, <1>4, <1>5, <1>6, <1>7, <1>8, <1>9

-----------------------------------------------------------------------------
(* The steps of the head.                                                  *)

LEMMA Sizes ==
  ASSUME NEW c \in Nat
  PROVE  c * U \in Nat /\ c * U \in {k * U : k \in Nat} /\ (c # 0 => c * U >= U)
  <1>1. c * U \in Nat BY FloppyAssumption
  <1>2. c # 0 => c * U >= U
    <2>1. c # 0 => 0 * U + U <= c * U BY FloppyAssumption, Times
    <2> QED BY <1>1, <2>1, FloppyAssumption
  <1> QED BY <1>1, <1>2

LEMMA HeaderFine ==
  ASSUME NEW image \in ImageType, NEW p \in Nat
  PROVE  /\ HeaderOf(image, p).ids \in Seq(Nat) /\ HeaderOf(image, p).code \in Nat
         /\ HeaderOf(image, p).ids # <<>> => p < Len(image.units)
         /\ p < Len(image.units) => image.units[p + 1] \in UnitType /\ HeaderOf(image, p) = image.units[p + 1]
  <1>1. CASE p < Len(image.units)
    <2>1. image.units[p + 1] \in UnitType BY <1>1 DEF ImageType
    <2> QED BY <1>1, <2>1 DEF HeaderOf, UnitType
  <1>2. CASE ~(p < Len(image.units))
    <2>1. HeaderOf(image, p).ids = <<>> /\ HeaderOf(image, p).code = 0 BY <1>2 DEF HeaderOf, Header
    <2> QED BY <1>2, <2>1
  <1> QED BY <1>1, <1>2

\* The sector found is the one the header of the track gives, whole in the buffer.
LEMMA Found1 ==
  ASSUME NEW image \in ImageType, NEW o \in Nat, NEW id, Present(image, o, id)
  PROVE  /\ CodeOn(image, o) \in Nat \ {0} /\ First(image, o, id) \in Nat /\ First(image, o, id) > o
         /\ PlaceOn(image, o, id) \in 1 .. Len(HeaderOf(image, o).ids)
         /\ HeaderOf(image, o).ids[PlaceOn(image, o, id)] = id
         /\ o < Len(image.units)
  <1>1. HeaderOf(image, o).ids \in Seq(Nat) /\ HeaderOf(image, o).code \in Nat BY HeaderFine
  <1>2. PlaceOn(image, o, id) \in 1 .. Len(HeaderOf(image, o).ids)
        /\ HeaderOf(image, o).ids[PlaceOn(image, o, id)] = id
    BY <1>1, Placed DEF Present, PlaceOn
  <1>3. CodeOn(image, o) \in Nat \ {0} BY <1>1 DEF Present, CodeOn
  <1>4. o < Len(image.units) BY <1>1, <1>2, HeaderFine
  <1> DEFINE q == PlaceOn(image, o, id) - 1
  <1>5. q \in Nat BY <1>1, <1>2
  <1>6. q * CodeOn(image, o) \in Nat BY <1>3, <1>5
  <1>7. First(image, o, id) = o + 1 + q * CodeOn(image, o) BY DEF First
  <1> HIDE DEF q
  <1> QED BY <1>2, <1>3, <1>4, <1>6, <1>7

LEMMA Sought ==
  ASSUME Types, NEW d \in DriveType, NEW id \in Nat, NEW ok \in BOOLEAN
  PROVE  LET s == SectorSought(d, id, ok)
         IN  /\ s \in DriveType
             /\ s.in = d.in /\ s.track = d.track /\ s.side = d.side /\ s.offset = d.offset
             /\ Found(s) <=> ok /\ Present(Image, d.offset, id)
             /\ Found(s) => /\ s.sector = id /\ s.at = First(Image, d.offset, id) /\ s.at < Size
                            /\ s.size = CodeOn(Image, d.offset) * U /\ s.size >= U /\ Chunk(s) = U
  <1> DEFINE s == SectorSought(d, id, ok)
             o == d.offset
  <1>1. Image \in ImageType /\ o \in Nat /\ HeaderAt(o) = HeaderOf(Image, o)
    BY DEF Types, RegFine, RegType, DriveType, Image, HeaderAt, HeaderOf, Unit, Size
  <1>2. CASE ok /\ Present(Image, o, id)
    <2>1. /\ CodeOn(Image, o) \in Nat \ {0} /\ First(Image, o, id) \in Nat /\ First(Image, o, id) < Size
      BY <1>1, <1>2, Found1 DEF Present, Size
    <2>2. s = [d EXCEPT !.size = CodeOn(Image, o) * U, !.sector = id, !.at = First(Image, o, id)]
      BY <1>1, <1>2, <2>1 DEF SectorSought, Present, PlaceOn, CodeOn, First, Size
    <2> HIDE DEF s, o
    <2>3. /\ CodeOn(Image, o) * U \in Nat /\ CodeOn(Image, o) * U \in {k * U : k \in Nat}
          /\ CodeOn(Image, o) * U >= U
      BY <2>1, Sizes
    <2>4. s \in DriveType BY <2>1, <2>2, <2>3 DEF DriveType
    <2>5. s.size = CodeOn(Image, o) * U /\ s.sector = id /\ s.at = First(Image, o, id)
          /\ s.in = d.in /\ s.track = d.track /\ s.side = d.side /\ s.offset = d.offset
      BY <2>2 DEF DriveType
    <2>6. Found(s) /\ Chunk(s) = U BY <2>3, <2>5, FloppyAssumption DEF Found, Chunk
    <2> QED BY <1>2, <2>1, <2>3, <2>4, <2>5, <2>6 DEF s, o
  <1>3. CASE ~(ok /\ Present(Image, o, id))
    <2>1. s = [d EXCEPT !.size = 0] \/ s = [d EXCEPT !.size = 0, !.sector = 0]
      <3>1. CASE ~ok \/ PlaceOn(Image, o, id) = 0 \/ CodeOn(Image, o) = 0
        BY <1>1, <3>1 DEF SectorSought, PlaceOn, CodeOn
      <3>2. CASE ~(First(Image, o, id) < Size) /\ PlaceOn(Image, o, id) # 0 /\ CodeOn(Image, o) # 0
        <4>1. HeaderOf(Image, o).ids \in Seq(Nat) /\ CodeOn(Image, o) \in Nat BY <1>1, HeaderFine DEF CodeOn
        <4>2. PlaceOn(Image, o, id) \in Nat BY <4>1, Placed DEF PlaceOn
        <4>3. (PlaceOn(Image, o, id) - 1) * CodeOn(Image, o) \in Int BY <4>1, <4>2
        <4>4. First(Image, o, id) \in Int BY <1>1, <4>3 DEF First
        <4>5. Size \in Nat BY <1>1 DEF Size, ImageType
        <4>6. First(Image, o, id) >= Size BY <3>2, <4>4, <4>5
        <4> QED BY <1>1, <3>2, <4>6 DEF SectorSought, PlaceOn, CodeOn, First
      <3> QED BY <1>3, <3>1, <3>2 DEF Present, Size
    <2>2. 0 \in {k * U : k \in Nat}
      <3>1. 0 * U = 0 BY FloppyAssumption
      <3> QED BY <3>1
    <2> HIDE DEF s, o
    <2> DEFINE Kept(x) == x \in DriveType /\ x.size = 0 /\ x.in = d.in /\ x.track = d.track
                          /\ x.side = d.side /\ x.offset = d.offset
    <2>4. Kept([d EXCEPT !.size = 0]) /\ Kept([d EXCEPT !.size = 0, !.sector = 0])
      BY <2>2 DEF DriveType
    <2>3. Kept(s) BY <2>1, <2>4
    <2> QED BY <1>3, <2>3 DEF s, o, Found
  <1> QED BY <1>2, <1>3

LEMMA FieldsOf ==
  ASSUME NEW r \in RegType
  PROVE  /\ r.status \subseteq Flags /\ r.data \in Nat /\ r.track \in 0 .. MaxTrack /\ r.sector \in Nat
         /\ r.side \in {0, 1} /\ r.sel \in Drives /\ r.cmd \in Commands /\ r.count \in Nat
         /\ r.pos \in 0 .. U - 1 /\ r.multi \in BOOLEAN /\ r.script \in 0 .. 4
         /\ r.polls \in 0 .. MaxPolls /\ r.errint \in BOOLEAN /\ r.stage \in 0 .. 4 /\ r.marks \in Nat
         /\ r.ids \in Seq(Nat) /\ r.code \in Nat /\ r.fill \in Int /\ r.phase \in 0 .. 2
         /\ r.idx \in Nat /\ r.rest \in Nat
  BY DEF RegType

LEMMA Selected ==
  ASSUME Types
  PROVE  /\ disk \in Setups /\ reg \in RegType /\ reg.sel \in Drives /\ Here \in Slots
         /\ reg.track \in 0 .. MaxTrack /\ reg.side \in {0, 1} /\ reg.pos \in 0 .. U - 1
         /\ reg.count \in Nat /\ reg.sector \in Nat
         /\ Image \in ImageType /\ Cur \in DriveType /\ buf \in BufType /\ Works \subseteq BOOLEAN
         /\ Size = Len(Image.units) /\ Size \in Nat
  <1>1. /\ disk \in Setups /\ reg \in RegType /\ Here \in Slots
        /\ drive \in [Drives -> DriveType] /\ file \in [Drives -> ImageType] /\ buf \in BufType
    BY DEF Types, RegFine, Here
  <1>2. reg.sel \in Drives /\ reg.track \in 0 .. MaxTrack /\ reg.side \in {0, 1} /\ reg.pos \in 0 .. U - 1
        /\ reg.count \in Nat /\ reg.sector \in Nat
    BY <1>1, FieldsOf
  <1>3. Image \in ImageType /\ Cur \in DriveType BY <1>1, <1>2 DEF Image, Cur
  <1>4. Works \subseteq BOOLEAN BY DEF Works
  <1>5. Size = Len(Image.units) /\ Size \in Nat BY <1>3 DEF Size, ImageType
  <1> QED BY <1>1, <1>2, <1>3, <1>4, <1>5

LEMMA OffsetIs ==
  ASSUME disk \in Setups, NEW image \in ImageType, NEW slot \in Slots
  PROVE  /\ Offset(image, slot) \in Nat
         /\ Offset(image, slot) # 0 <=> image.units # <<>> /\ \A i \in 0 .. slot - 1 : image.table[i] # 0
         /\ Offset(image, slot) # 0 => Offset(image, slot) = Start(image.table, slot)
  <1>0. LastSlot \in Nat /\ Slots = 0 .. LastSlot BY Disks
  <1>1. slot \in 0 .. LastSlot + 1 /\ image.table \in [0 .. LastSlot -> Nat]
    BY <1>0 DEF ImageType
  <1>2. Start(image.table, slot) \in Nat \ {0} BY <1>0, <1>1, StartIs
  <1> QED BY <1>2 DEF Offset

\* setTrack leaves the cache good, and on the track only with the offset that
\* the table gives.
LEMMA TrackSought ==
  ASSUME Types, NEW ok \in BOOLEAN
  PROVE  LET t == TrackSet(ok)
         IN  /\ t \in DriveType /\ t.in = Cur.in
             /\ OnTrack(t) => t.track = reg.track /\ t.side = reg.side
             /\ OnTrack(t) /\ ~OnTrack(Cur) => t.offset = Offset(Image, Here) /\ t.offset # 0
             /\ OnTrack(Cur) => t = Cur
             /\ ~OnTrack(t) => t.track = Cur.track /\ t.side = Cur.side /\ t.offset = Cur.offset
  <1> DEFINE t == TrackSet(ok)
             o == IF ok THEN Offset(Image, Here) ELSE 0
             lost == [Cur EXCEPT !.sector = 0, !.size = 0]
  <1>1. Image \in ImageType /\ Cur \in DriveType /\ Here \in Slots /\ disk \in Setups
        /\ reg.track \in 0 .. MaxTrack /\ reg.side \in {0, 1}
    BY Selected
  <1>2. o \in Nat BY <1>1, OffsetIs
  <1>3. 0 \in {k * U : k \in Nat}
    <2>1. 0 * U = 0 BY FloppyAssumption
    <2> QED BY <2>1
  <1>4. lost \in DriveType /\ lost.in = Cur.in /\ lost.track = Cur.track /\ lost.side = Cur.side
        /\ lost.offset = Cur.offset
    BY <1>1, <1>3 DEF DriveType
  <1>5. t = IF OnTrack(Cur) THEN Cur ELSE IF o = 0 THEN lost
            ELSE [lost EXCEPT !.offset = o, !.track = reg.track, !.side = reg.side]
    BY DEF TrackSet
  <1> HIDE DEF t, lost
  <1>6. CASE OnTrack(Cur) BY <1>1, <1>5, <1>6 DEF OnTrack, t
  <1>7. CASE ~OnTrack(Cur) /\ o = 0 BY <1>4, <1>5, <1>7 DEF OnTrack, t
  <1>8. CASE ~OnTrack(Cur) /\ o # 0
    <2>1. t = [lost EXCEPT !.offset = o, !.track = reg.track, !.side = reg.side] BY <1>5, <1>8
    <2>2. t \in DriveType /\ t.in = Cur.in /\ t.track = reg.track /\ t.side = reg.side /\ t.offset = o
      BY <1>1, <1>2, <1>4, <2>1 DEF DriveType
    <2> QED BY <1>8, <2>2 DEF OnTrack, t
  <1> QED BY <1>6, <1>7, <1>8

-----------------------------------------------------------------------------
(* The images.                                                             *)

LEMMA Image1 ==
  ASSUME NEW t \in [Slots -> Nat], NEW u \in Seq(UnitType)
  PROVE  [table |-> t, units |-> u] \in ImageType
  BY DEF ImageType

\* The units of a track that is believed of, from its header to its last sector.
LEMMA Spans ==
  ASSUME disk \in Setups, NEW image \in ImageType, Laid(image), NEW s \in Slots,
         NEW tr, IsTrack(tr), Bears(image, s, tr), tr.ids # <<>>
  PROVE  LET o == Start(image.table, s)
             n == Len(tr.ids)
             code == image.units[o + 1].code
         IN  /\ o \in Nat \ {0} /\ o < Len(image.units) /\ n \in Nat \ {0} /\ code \in Nat \ {0}
             /\ tr.ids \in Seq(Nat) /\ image.units[o + 1].ids = tr.ids
             /\ \A i \in 0 .. s : image.table[i] # 0
             /\ n * code \in Nat /\ o + n * code < Len(image.units)
             /\ image.table[s] = 1 + n * code
             /\ HeaderOf(image, o) = image.units[o + 1]
             /\ \A i \in 1 .. n, j \in 1 .. code : o + 1 + (i - 1) * code + j \in o + 2 .. o + 1 + n * code
  <1> DEFINE o == Start(image.table, s)
             n == Len(tr.ids)
             code == image.units[o + 1].code
  <1>0. LastSlot \in Nat /\ Slots = 0 .. LastSlot BY Disks
  <1>1. o \in Nat \ {0}
    <2>1. s \in 0 .. LastSlot + 1 /\ image.table \in [0 .. LastSlot -> Nat] BY <1>0 DEF ImageType
    <2> QED BY <1>0, <2>1, StartIs
  <1>2. tr.ids \in Seq(Nat) /\ n \in Nat \ {0} BY DEF IsTrack
  <1>3. /\ \A i \in 0 .. s : image.table[i] # 0
        /\ o < Len(image.units) /\ o + n * code < Len(image.units) /\ image.units[o + 1].ids = tr.ids /\ code # 0
    BY DEF Bears
  <1> HIDE DEF o, n
  <1>4. code \in Nat \ {0} /\ n * code \in Nat
    <2>1. image.units[o + 1] \in UnitType BY <1>1, <1>3 DEF ImageType
    <2>2. code \in Nat \ {0} BY <1>3, <2>1 DEF UnitType
    <2> HIDE DEF code
    <2> QED BY <1>2, <2>2
  <1>5. HeaderOf(image, o) = image.units[o + 1] BY <1>3 DEF HeaderOf
  <1>6. image.table[s] = 1 + n * code BY <1>2, <1>3 DEF Laid, n, o, ImageType
  <1>7. ASSUME NEW i \in 1 .. n, NEW j \in 1 .. code
        PROVE  o + 1 + (i - 1) * code + j \in o + 2 .. o + 1 + n * code
    <2> DEFINE q == i - 1
    <2>1. q \in Nat /\ q < n BY <1>2
    <2> HIDE DEF q, code
    <2>2. q * code \in Nat /\ q * code + code <= n * code BY <1>2, <1>4, <2>1, Times
    <2>3. o + 1 + q * code + j \in o + 2 .. o + 1 + n * code BY <1>1, <1>4, <2>2
    <2> QED BY <2>3 DEF q
  <1> QED BY <1>1, <1>2, <1>3, <1>4, <1>5, <1>6, <1>7 DEF o, n

\* What is believed of a track stays true while its units and sizes do.
LEMMA BearsStay ==
  ASSUME disk \in Setups, NEW image \in ImageType, Laid(image), NEW s \in Slots,
         NEW tr, IsTrack(tr), Bears(image, s, tr), NEW img \in ImageType,
         \A i \in 0 .. s : img.table[i] = image.table[i],
         \A q \in Start(image.table, s) + 1 .. Start(image.table, s) + image.table[s] :
             q <= Len(image.units) => q <= Len(img.units) /\ img.units[q] = image.units[q]
  PROVE  Bears(img, s, tr)
  <1>1. SUFFICES ASSUME tr.ids # <<>> PROVE Bears(img, s, tr) BY DEF Bears
  <1> DEFINE o == Start(image.table, s)
             n == Len(tr.ids)
             code == image.units[o + 1].code
  <1>2. /\ o \in Nat \ {0} /\ o < Len(image.units) /\ n \in Nat \ {0} /\ code \in Nat \ {0}
        /\ tr.ids \in Seq(Nat) /\ image.units[o + 1].ids = tr.ids
        /\ \A i \in 0 .. s : image.table[i] # 0
        /\ n * code \in Nat /\ o + n * code < Len(image.units)
        /\ image.table[s] = 1 + n * code
        /\ \A i \in 1 .. n, j \in 1 .. code : o + 1 + (i - 1) * code + j \in o + 2 .. o + 1 + n * code
    BY <1>1, Spans
  <1>3. Start(img.table, s) = o
    <2>0. LastSlot \in Nat /\ Slots = 0 .. LastSlot BY Disks
    <2>1. s \in 0 .. LastSlot + 1 /\ image.table \in [0 .. LastSlot -> Nat]
          /\ img.table \in [0 .. LastSlot -> Nat]
      BY <2>0 DEF ImageType
    <2>2. Same(img.table, image.table, s) BY <2>0 DEF Same
    <2> QED BY <2>0, <2>1, <2>2, StartDepends
  <1>4. \A q \in o + 1 .. o + 1 + n * code : q <= Len(img.units) /\ img.units[q] = image.units[q]
    <2>0. Len(image.units) \in Nat BY DEF ImageType
    <2>1. \A q \in o + 1 .. o + image.table[s] :
              q <= Len(image.units) => q <= Len(img.units) /\ img.units[q] = image.units[q]
      OBVIOUS
    <2> DEFINE m == n * code
    <2>2. m \in Nat /\ o + m < Len(image.units) /\ image.table[s] = 1 + m /\ o \in Nat BY <1>2
    <2> HIDE DEF o, n, code, m
    <2>3. \A q \in o + 1 .. o + 1 + m : q \in o + 1 .. o + image.table[s] /\ q <= Len(image.units)
      BY <2>0, <2>2
    <2>4. \A q \in o + 1 .. o + 1 + m : q <= Len(img.units) /\ img.units[q] = image.units[q]
      BY <2>1, <2>3
    <2> QED BY <2>4 DEF m
  <1>5. \A i \in 1 .. n, j \in 1 .. code, b \in 0 .. U - 1 :
            i = Place(tr.ids, tr.ids[i]) =>
                tr.data[tr.ids[i]] \in {Undefined, image.units[o + 1 + (i - 1) * code + j].bytes[b]}
    BY <1>1 DEF Bears
  <1> HIDE DEF o, n, code
  <1>6. o < Len(img.units) /\ o + n * code < Len(img.units) /\ img.units[o + 1] = image.units[o + 1]
    <2> DEFINE m == n * code
    <2>1. m \in Nat /\ o \in Nat /\ \A q \in o + 1 .. o + 1 + m :
              q <= Len(img.units) /\ img.units[q] = image.units[q]
      BY <1>2, <1>4
    <2>2. Len(img.units) \in Nat BY DEF ImageType
    <2> HIDE DEF m
    <2>3. o + 1 \in o + 1 .. o + 1 + m /\ o + 1 + m \in o + 1 .. o + 1 + m BY <2>1
    <2>4. o + 1 <= Len(img.units) /\ o + 1 + m <= Len(img.units) /\ img.units[o + 1] = image.units[o + 1]
      BY <2>1, <2>3
    <2>5. o < Len(img.units) /\ o + m < Len(img.units) BY <2>1, <2>2, <2>4
    <2> QED BY <2>4, <2>5 DEF m
  <1>7. \A i \in 1 .. n, j \in 1 .. code, b \in 0 .. U - 1 :
            i = Place(tr.ids, tr.ids[i]) =>
                tr.data[tr.ids[i]] \in {Undefined, img.units[o + 1 + (i - 1) * code + j].bytes[b]}
    <2> TAKE i \in 1 .. n, j \in 1 .. code, b \in 0 .. U - 1
    <2>1. o + 1 + (i - 1) * code + j \in o + 1 .. o + 1 + n * code BY <1>2
    <2>2. img.units[o + 1 + (i - 1) * code + j] = image.units[o + 1 + (i - 1) * code + j] BY <1>4, <2>1
    <2> QED BY <1>5, <2>2
  <1>8. code = img.units[o + 1].code BY <1>6 DEF code
  <1>9. \A i \in 0 .. s : img.table[i] # 0 BY <1>2
  <1> QED BY <1>2, <1>3, <1>6, <1>7, <1>8, <1>9 DEF Bears, n

\* So does the layout, while every unit is as it was or is no header.
LEMMA LaidStays ==
  ASSUME disk \in Setups, NEW image \in ImageType, Laid(image), NEW img \in ImageType,
         img.table = image.table,
         \A q \in 1 .. Len(img.units) :
             (q <= Len(image.units) /\ img.units[q] = image.units[q]) \/ img.units[q].ids = <<>>
  PROVE  Laid(img)
  <1>1. SUFFICES ASSUME NEW s \in DOMAIN img.table, \A i \in 0 .. s : img.table[i] # 0,
                        Start(img.table, s) < Len(img.units),
                        img.units[Start(img.table, s) + 1].ids # <<>>
                 PROVE  img.table[s] = 1 + Len(img.units[Start(img.table, s) + 1].ids)
                                             * img.units[Start(img.table, s) + 1].code
    BY DEF Laid
  <1> DEFINE o == Start(image.table, s)
  <1>2. s \in Slots BY DEF ImageType
  <1>3. o \in Nat \ {0}
    <2>0. LastSlot \in Nat /\ Slots = 0 .. LastSlot BY Disks
    <2>1. s \in 0 .. LastSlot + 1 /\ image.table \in [0 .. LastSlot -> Nat] BY <1>2, <2>0 DEF ImageType
    <2> QED BY <2>0, <2>1, StartIs
  <1> HIDE DEF o
  <1>4. o + 1 \in 1 .. Len(img.units) /\ Len(image.units) \in Nat BY <1>1, <1>3 DEF ImageType, o
  <1>5. o + 1 <= Len(image.units) /\ img.units[o + 1] = image.units[o + 1] BY <1>1, <1>4 DEF o
  <1>6. o < Len(image.units) BY <1>3, <1>4, <1>5
  <1> QED BY <1>1, <1>5, <1>6 DEF Laid, o

\* What is believed once a sector is written, or is being written.
Know(tracks, slot, id, v) ==
    IF id \in ToSet(tracks[slot].ids) THEN [tracks EXCEPT ![slot].data[id] = v] ELSE tracks

LEMMA Known ==
  ASSUME NEW tracks, TracksFine(tracks), NEW slot \in Slots, NEW id, NEW v \in Byte
  PROVE  LET t == Know(tracks, slot, id, v)
         IN  /\ TracksFine(t)
             /\ \A s \in Slots : t[s].ids = tracks[s].ids /\ (s # slot => t[s] = tracks[s])
             /\ \A x \in ToSet(tracks[slot].ids) :
                    t[slot].data[x] = IF x = id THEN v ELSE tracks[slot].data[x]
  <1> DEFINE tr == tracks[slot]
             t == Know(tracks, slot, id, v)
  <1>1. DOMAIN tracks = Slots /\ \A s \in Slots : IsTrack(tracks[s]) BY DEF TracksFine
  <1>2. tr = [ids |-> tr.ids, data |-> tr.data] /\ tr.ids \in Seq(Nat) /\ tr.data \in [ToSet(tr.ids) -> Byte]
    BY <1>1 DEF IsTrack
  <1>3. CASE id \in ToSet(tr.ids)
    <2> DEFINE u == [tr EXCEPT !.data[id] = v]
    <2>1. t = [tracks EXCEPT ![slot] = u] BY <1>3 DEF Know
    <2>2. u.ids = tr.ids /\ u.data = [tr.data EXCEPT ![id] = v] /\ u = [ids |-> u.ids, data |-> u.data]
      <3> HIDE DEF tr
      <3>1. tr = [ids |-> tr.ids, data |-> tr.data] BY <1>2
      <3> DEFINE a == tr.ids
                 b == tr.data
      <3>2. tr = [ids |-> a, data |-> b] BY <3>1
      <3> HIDE DEF a, b
      <3> QED BY <3>2
    <2>3. u.data \in [ToSet(tr.ids) -> Byte]
          /\ \A x \in ToSet(tr.ids) : u.data[x] = IF x = id THEN v ELSE tr.data[x]
      BY <1>2, <1>3, <2>2
    <2>4. IsTrack(u) BY <1>2, <2>2, <2>3 DEF IsTrack
    <2> HIDE DEF u, t
    <2>5. DOMAIN t = Slots /\ t[slot] = u /\ \A s \in Slots : s # slot => t[s] = tracks[s]
      BY <1>1, <2>1
    <2>6. TracksFine(t) BY <1>1, <2>4, <2>5 DEF TracksFine
    <2> QED BY <2>2, <2>3, <2>5, <2>6 DEF t
  <1>4. CASE id \notin ToSet(tr.ids)
    BY <1>4 DEF Know
  <1> QED BY <1>3, <1>4

LEMMA InIds == ASSUME NEW ids \in Seq(Nat), NEW i \in 1 .. Len(ids) PROVE ids[i] \in ToSet(ids)
  BY DEF ToSet

\* Nothing is known of a sector that is being written.
LEMMA Doubted ==
  ASSUME disk \in Setups, NEW image \in ImageType, NEW tracks, TracksFine(tracks), HoldsIn(image, tracks),
         NEW slot \in Slots, NEW id
  PROVE  HoldsIn(image, Know(tracks, slot, id, Undefined))
  <1> DEFINE t == Know(tracks, slot, id, Undefined)
  <1>0. Undefined \in Byte BY DEF Byte
  <1>1. /\ \A s \in Slots : t[s].ids = tracks[s].ids /\ (s # slot => t[s] = tracks[s])
        /\ \A x \in ToSet(tracks[slot].ids) :
                    t[slot].data[x] = IF x = id THEN Undefined ELSE tracks[slot].data[x]
    BY <1>0, Known
  <1> HIDE DEF t
  <1>2. ASSUME NEW s \in Slots PROVE Bears(image, s, t[s])
    <2>1. Bears(image, s, tracks[s]) /\ IsTrack(tracks[s]) BY DEF HoldsIn, TracksFine
    <2>2. tracks[s].ids \in Seq(Nat) BY <2>1 DEF IsTrack
    <2>3. \A i \in 1 .. Len(t[s].ids) : t[s].data[t[s].ids[i]] \in {tracks[s].data[tracks[s].ids[i]], Undefined}
      BY <1>1, <2>2, InIds
    <2>4. t[s].ids = tracks[s].ids BY <1>1
    <2> QED BY <2>1, <2>3, <2>4 DEF Bears
  <1> QED BY <1>2 DEF HoldsIn, t

\* An image one unit of which is written.
LEMMA StoredAt ==
  ASSUME NEW image \in ImageType, NEW at \in Nat, at < Len(image.units), NEW unit \in UnitType,
         NEW img, img = [image EXCEPT !.units[at + 1] = unit]
  PROVE  /\ img \in ImageType /\ img.table = image.table /\ image.table \in [Slots -> Nat]
         /\ Len(img.units) = Len(image.units) /\ at + 1 \in 1 .. Len(image.units) /\ image.units \in Seq(UnitType)
         /\ \A q \in 1 .. Len(image.units) : img.units[q] = IF q = at + 1 THEN unit ELSE image.units[q]
  <1>1. /\ image.table \in [Slots -> Nat] /\ image.units \in Seq(UnitType)
        /\ img.table = image.table /\ img.units = [image.units EXCEPT ![at + 1] = unit]
        /\ img \in ImageType
    <2>1. image = [table |-> image.table, units |-> image.units]
          /\ image.table \in [Slots -> Nat] /\ image.units \in Seq(UnitType)
      BY DEF ImageType
    <2> DEFINE u == [image.units EXCEPT ![at + 1] = unit]
    <2>2. u \in Seq(UnitType) BY <2>1
    <2>3. img = [table |-> image.table, units |-> u] BY <2>1
    <2> HIDE DEF u
    <2> DEFINE tab == image.table
    <2>5. tab \in [Slots -> Nat] /\ img = [table |-> tab, units |-> u] BY <2>1, <2>3
    <2> HIDE DEF tab
    <2>7. [table |-> tab, units |-> u] \in ImageType BY <2>2, <2>5, Image1
    <2>8. img.table = tab BY <2>5
    <2>9. img.units = u BY <2>5
    <2>6. img.table = tab /\ img.units = u /\ img \in ImageType BY <2>5, <2>7, <2>8, <2>9
    <2>4. img.table = image.table /\ img.units = u /\ img \in ImageType BY <2>6 DEF tab
    <2> QED BY <2>1, <2>4 DEF u
  <1>2. /\ Len(img.units) = Len(image.units) /\ at + 1 \in 1 .. Len(image.units)
        /\ \A q \in 1 .. Len(image.units) : img.units[q] = IF q = at + 1 THEN unit ELSE image.units[q]
    BY <1>1
  <1> QED BY <1>1, <1>2

\* A unit of a sector is written: the layout stands, the other sectors are as
\* they were, and this one is as believed, doubted or all of it written.
LEMMA SectorStored ==
  ASSUME disk \in Setups, NEW image \in ImageType, NEW tracks, TracksFine(tracks), HoldsIn(image, tracks),
         NEW slot \in Slots, NEW id \in Nat, NEW v \in Byte, NEW at \in Nat, NEW unit \in UnitType,
         unit.ids = <<>>, at < Len(image.units),
         NEW img, img = [image EXCEPT !.units[at + 1] = unit],
         Blank(tracks) \/
             /\ \A i \in 0 .. slot - 1 : image.table[i] # 0
             /\ LET o == Start(image.table, slot)
                    first == First(image, o, id)
                    code == CodeOn(image, o)
                IN  /\ Present(image, o, id) /\ at \in first .. first + code - 1
                    /\ v # Undefined => \A p \in first + 1 .. first + code, i \in 0 .. U - 1 :
                                            img.units[p].bytes[i] = v
  PROVE  img \in ImageType /\ HoldsIn(img, Know(tracks, slot, id, v))
  <1> DEFINE t == Know(tracks, slot, id, v)
  <1>1. /\ \A s \in Slots : t[s].ids = tracks[s].ids /\ (s # slot => t[s] = tracks[s])
        /\ \A x \in ToSet(tracks[slot].ids) :
                    t[slot].data[x] = IF x = id THEN v ELSE tracks[slot].data[x]
    BY Known
  <1> HIDE DEF t
  <1>2. img \in ImageType /\ img.table = image.table /\ image.table \in [Slots -> Nat] /\ image.units \in Seq(UnitType)
    BY StoredAt
  <1>3. /\ Len(img.units) = Len(image.units) /\ at + 1 \in 1 .. Len(image.units)
        /\ \A q \in 1 .. Len(image.units) : img.units[q] = IF q = at + 1 THEN unit ELSE image.units[q]
    BY StoredAt
  <1>4. Laid(img)
    <2>1. Laid(image) BY DEF HoldsIn
    <2>2. \A q \in 1 .. Len(img.units) :
             (q <= Len(image.units) /\ img.units[q] = image.units[q]) \/ img.units[q].ids = <<>>
      BY <1>3
    <2> QED BY <1>2, <2>1, <2>2, LaidStays
  <1>5. CASE Blank(tracks)
    <2>1. \A s \in Slots : Bears(img, s, t[s]) BY <1>1, <1>5 DEF Blank, Bears
    <2> QED BY <1>2, <1>4, <2>1 DEF HoldsIn, t
  <1>6. CASE ~Blank(tracks)
    <2> DEFINE o == Start(image.table, slot)
               first == First(image, o, id)
               code == CodeOn(image, o)
               header == HeaderOf(image, o)
               m == Len(header.ids)
               h == PlaceOn(image, o, id)
    <2>1. /\ \A i \in 0 .. slot - 1 : image.table[i] # 0
          /\ Present(image, o, id) /\ at \in first .. first + code - 1
          /\ v # Undefined => \A p \in first + 1 .. first + code, i \in 0 .. U - 1 :
                                            img.units[p].bytes[i] = v
      BY <1>6
    <2>2. LastSlot \in Nat /\ Slots = 0 .. LastSlot BY Disks
    <2>3. slot \in 0 .. LastSlot + 1 /\ image.table \in [0 .. LastSlot -> Nat] BY <1>2, <2>2
    <2>4. o \in Nat \ {0} BY <2>2, <2>3, StartIs
    <2>5. /\ code \in Nat \ {0} /\ first \in Nat /\ first > o /\ h \in 1 .. m /\ header.ids[h] = id
          /\ o < Len(image.units)
      BY <2>1, <2>4, Found1
    <2>6. header = image.units[o + 1] /\ header.ids \in Seq(Nat) /\ m \in Nat
      BY <2>4, <2>5, HeaderFine DEF HeaderOf
    <2>7. first = o + 1 + (h - 1) * code BY DEF First
    <2>8. at + 1 \in o + 2 .. o + 1 + m * code
      <3> DEFINE q == h - 1
      <3>1. q \in Nat /\ q < m BY <2>5, <2>6
      <3> HIDE DEF o, first, code, header, m, h, q
      <3>2. q * code \in Nat /\ q * code + code <= m * code /\ m * code \in Nat BY <2>5, <2>6, <3>1, Times
      <3>3. first = o + 1 + q * code BY <2>7 DEF q
      <3>4. at >= first /\ at <= first + code - 1 /\ first \in Nat /\ code \in Nat BY <2>1, <2>5
      <3> DEFINE x == q * code
                 y == m * code
      <3>5. x \in Nat /\ x + code <= y /\ y \in Nat /\ first = o + 1 + x BY <3>2, <3>3
      <3> HIDE DEF x, y
      <3>6. at + 1 \in o + 2 .. o + 1 + y BY <2>4, <3>4, <3>5
      <3> QED BY <3>6 DEF y
    <2>9. ASSUME NEW s \in Slots, s # slot PROVE Bears(img, s, t[s])
      <3>0. t[s] = tracks[s] BY <1>1, <2>9
      <3>10. tracks[s].ids = <<>> => Bears(img, s, tracks[s]) BY DEF Bears
      <3>1. SUFFICES ASSUME tracks[s].ids # <<>> PROVE Bears(img, s, tracks[s])
        BY <3>0, <3>10
      <3>2. Laid(image) /\ Bears(image, s, tracks[s]) /\ IsTrack(tracks[s]) BY DEF HoldsIn, TracksFine
      <3> DEFINE a == Start(image.table, s)
                 b == a + image.table[s]
      <3>3. a \in Nat /\ image.table[s] \in Nat /\ \A i \in 0 .. s : image.table[i] # 0
        BY <1>2, <3>1, <3>2, Spans
      <3>4. at + 1 \notin a + 1 .. b
        <4>1. CASE s < slot
          <5>1. s \in 0 .. LastSlot BY <2>2
          <5>2. b <= o BY <2>2, <2>3, <4>1, <5>1, StartGrows
          <5> HIDE DEF o, a, b, m, code
          <5>3. b \in Nat BY <1>2, <3>3 DEF b
          <5>4. at + 1 >= o + 2 BY <2>8
          <5> QED BY <2>4, <5>2, <5>3, <5>4
        <4>2. CASE slot < s
          <5>1. image.table[slot] # 0 /\ \A i \in 0 .. slot : image.table[i] # 0
            BY <2>2, <3>3, <4>2
          <5>2. header.ids # <<>> BY <2>5, <2>6
          <5>3. image.table[slot] = 1 + m * code
            BY <2>5, <2>6, <3>2, <5>1, <5>2, <1>2 DEF Laid, CodeOn
          <5>4. s \in 0 .. LastSlot + 1 /\ slot \in 0 .. LastSlot BY <2>2
          <5>5. o + image.table[slot] <= a BY <2>2, <2>3, <4>2, <5>4, StartGrows
          <5> DEFINE mc == m * code
          <5>6. mc \in Nat BY <2>5, <2>6
          <5>7. at + 1 <= o + 1 + mc /\ o + 1 + mc <= a
            <6>1. at + 1 <= o + 1 + mc BY <2>8
            <6>2. image.table[slot] = 1 + mc BY <5>3
            <6> HIDE DEF mc, o, a
            <6>3. o + 1 + mc <= a BY <2>4, <5>5, <5>6, <6>2
            <6> QED BY <6>1, <6>3
          <5> HIDE DEF mc, o, a, b
          <5> QED BY <2>4, <3>3, <5>6, <5>7
        <4> QED BY <2>2, <2>9, <4>1, <4>2
      <3>5. \A q \in a + 1 .. b : q <= Len(image.units) => q <= Len(img.units) /\ img.units[q] = image.units[q]
        <4> TAKE q \in a + 1 .. b
        <4>1. q # at + 1 BY <3>4
        <4>2. q \in Nat \ {0} BY <3>3
        <4> QED BY <1>2, <1>3, <4>1, <4>2
      <3> QED BY <1>2, <3>2, <3>5, BearsStay
    <2>10. Bears(img, slot, t[slot])
      <3> DEFINE tr == tracks[slot]
                 n == Len(tr.ids)
      <3>1. SUFFICES ASSUME tr.ids # <<>> PROVE Bears(img, slot, t[slot])
        BY <1>1 DEF Bears
      <3>2. Laid(image) /\ Bears(image, slot, tr) /\ IsTrack(tr) BY DEF HoldsIn, TracksFine
      <3>3. /\ n \in Nat \ {0} /\ tr.ids \in Seq(Nat) /\ header.ids = tr.ids
            /\ \A i \in 0 .. slot : image.table[i] # 0
            /\ o + n * code < Len(image.units) /\ n = m
        <4>1. /\ n \in Nat \ {0} /\ tr.ids \in Seq(Nat) /\ image.units[o + 1].ids = tr.ids
              /\ \A i \in 0 .. slot : image.table[i] # 0
              /\ o + n * image.units[o + 1].code < Len(image.units)
          BY <3>1, <3>2, Spans
        <4>2. code = image.units[o + 1].code BY <2>6 DEF CodeOn
        <4> HIDE DEF code, o, n
        <4> QED BY <2>6, <4>1, <4>2 DEF n
      <3>4. img.units[o + 1] = header
        <4> HIDE DEF o, m, code, header
        <4>1. o + 1 # at + 1 /\ o + 1 \in 1 .. Len(image.units) BY <2>4, <2>5, <2>8
        <4> QED BY <1>3, <2>6, <4>1
      <3>5. ASSUME NEW i \in 1 .. n, NEW j \in 1 .. code, NEW b \in 0 .. U - 1, i = Place(tr.ids, tr.ids[i])
            PROVE  t[slot].data[tr.ids[i]] \in {Undefined, img.units[o + 1 + (i - 1) * code + j].bytes[b]}
        <4> DEFINE p == o + 1 + (i - 1) * code + j
        <4>1. tr.ids[i] \in ToSet(tr.ids) BY <3>3, InIds
        <4>2. CASE tr.ids[i] = id
          <5>1. i = h BY <3>3, <3>5, <4>2 DEF PlaceOn
          <5>2. p \in first + 1 .. first + code
            <6>1. p = first + j BY <2>7, <5>1
            <6> HIDE DEF p, first, code
            <6> QED BY <2>5, <6>1
          <5>3. v # Undefined => img.units[p].bytes[b] = v BY <2>1, <5>2
          <5>4. t[slot].data[tr.ids[i]] = v BY <1>1, <4>1, <4>2
          <5> QED BY <5>3, <5>4
        <4>3. CASE tr.ids[i] # id
          <5>1. i # h BY <2>5, <3>3, <4>3
          <5>2. p # at + 1
            <6> DEFINE e == i - 1
                       f == h - 1
                       x == e * code
                       y == f * code
            <6>0. h \in Nat \ {0} /\ i \in Nat \ {0}
              <7>1. h \in 1 .. m /\ m \in Nat /\ n \in Nat BY <2>5, <2>6, <3>3
              <7> HIDE DEF h, m, n, o, code, header, tr, p
              <7> QED BY <7>1
            <6>1. e \in Nat /\ f \in Nat /\ e # f
              <7> HIDE DEF h
              <7> QED BY <6>0, <5>1
            <6>2. p = o + 1 + x + j /\ first = o + 1 + y BY <2>7
            <6> HIDE DEF e, f, p, o, first, code
            <6>3. x \in Nat /\ y \in Nat /\ (e < f => x + code <= y) /\ (f < e => y + code <= x)
              BY <2>5, <6>1, Times
            <6>4. at >= first /\ at <= first + code - 1 /\ code \in Nat /\ j >= 1 /\ j <= code
                  /\ o \in Nat /\ first \in Nat /\ j \in Nat
              BY <2>1, <2>4, <2>5
            <6> HIDE DEF x, y
            <6>5. CASE e < f BY <6>2, <6>3, <6>4, <6>5
            <6>6. CASE f < e BY <6>2, <6>3, <6>4, <6>6
            <6> QED BY <6>1, <6>5, <6>6
          <5>3. p \in 1 .. Len(image.units)
            <6> DEFINE e == i - 1
                       x == e * code
                       y == n * code
            <6>1. e \in Nat /\ e < n BY <3>3
            <6>2. p = o + 1 + x + j BY DEF p
            <6> HIDE DEF e, p, o, code, n
            <6>3. x \in Nat /\ x + code <= y /\ y \in Nat BY <2>5, <3>3, <6>1, Times
            <6>5. o + y < Len(image.units) /\ o \in Nat /\ code \in Nat
              BY <2>4, <2>5, <3>3
            <6>4. Len(image.units) \in Nat /\ j >= 1 /\ j <= code /\ j \in Nat
              BY <1>2, <6>5
            <6> HIDE DEF x, y
            <6> QED BY <6>2, <6>3, <6>4, <6>5
          <5>4. img.units[p] = image.units[p] BY <1>3, <5>2, <5>3
          <5>5. t[slot].data[tr.ids[i]] = tr.data[tr.ids[i]] BY <1>1, <4>1, <4>3
          <5>6. tr.data[tr.ids[i]] \in {Undefined, image.units[p].bytes[b]}
            BY <2>6, <3>1, <3>2, <3>5 DEF Bears, CodeOn
          <5> QED BY <5>4, <5>5, <5>6
        <4> QED BY <4>2, <4>3
      <3>6. t[slot].ids = tr.ids /\ Start(img.table, slot) = o /\ img.units[o + 1].code = code
        BY <1>1, <1>2, <3>4 DEF CodeOn
      <3>7. o < Len(img.units) /\ o + n * code < Len(img.units) /\ img.units[o + 1].ids = tr.ids /\ code # 0
            /\ \A i \in 0 .. slot : img.table[i] # 0
        BY <1>2, <1>3, <2>5, <3>3, <3>4
      <3>8. \A i \in 1 .. n, j \in 1 .. code, b \in 0 .. U - 1 : i = Place(tr.ids, tr.ids[i]) =>
                t[slot].data[tr.ids[i]] \in {Undefined, img.units[o + 1 + (i - 1) * code + j].bytes[b]}
        BY <3>5
      <3> DEFINE x == t[slot]
                 y == img.units[Start(img.table, slot) + 1]
      <3> HIDE DEF o, code, header, tr
      <3>9. x.ids = tr.ids /\ Start(img.table, slot) = o /\ y.code = code /\ y.ids = tr.ids
            /\ img.units[o + 1] = y
        BY <3>6, <3>7
      <3>10. \A i \in 1 .. Len(x.ids), j \in 1 .. y.code, b \in 0 .. U - 1 : i = Place(x.ids, x.ids[i]) =>
                x.data[x.ids[i]] \in
                    {Undefined, img.units[Start(img.table, slot) + 1 + (i - 1) * y.code + j].bytes[b]}
        <4> HIDE DEF x, y
        <4>1. \A i \in 1 .. Len(tr.ids), j \in 1 .. code, b \in 0 .. U - 1 : i = Place(tr.ids, tr.ids[i]) =>
                x.data[tr.ids[i]] \in {Undefined, img.units[o + 1 + (i - 1) * code + j].bytes[b]}
          BY <3>8 DEF x
        <4> TAKE i \in 1 .. Len(x.ids), j \in 1 .. y.code, b \in 0 .. U - 1
        <4>2. i \in 1 .. Len(tr.ids) /\ j \in 1 .. code BY <3>9
        <4>3. i = Place(tr.ids, tr.ids[i]) =>
                  x.data[tr.ids[i]] \in {Undefined, img.units[o + 1 + (i - 1) * code + j].bytes[b]}
          BY <4>1, <4>2
        <4> QED BY <3>9, <4>3
      <3>11. Start(img.table, slot) < Len(img.units)
             /\ Start(img.table, slot) + Len(x.ids) * y.code < Len(img.units) /\ y.ids = x.ids /\ y.code # 0
        BY <3>7, <3>9
      <3> QED BY <3>7, <3>10, <3>11 DEF Bears
    <2> QED BY <1>2, <1>4, <2>9, <2>10 DEF HoldsIn, t
  <1> QED BY <1>5, <1>6

LEMMA Units ==
  /\ \A v \in Byte : Filled(v) \in UnitType /\ Filled(v).ids = <<>> /\ \A i \in 0 .. U - 1 : Filled(v).bytes[i] = v
  /\ \A b \in BufType : Sector(b) \in UnitType /\ Sector(b).ids = <<>> /\ Sector(b).bytes = b
  /\ \A ids \in Seq(Nat), code \in Nat : Header(ids, code) \in UnitType /\ Header(ids, code).ids = ids
                                          /\ Header(ids, code).code = code
  BY DEF Filled, Sector, Header, UnitType, BufType, Byte

LEMMA BlankHolds == ASSUME NEW image, Laid(image), NEW tracks, Blank(tracks) PROVE HoldsIn(image, tracks)
  BY DEF HoldsIn, Blank, Bears

LEMMA SizedForm ==
  ASSUME NEW t, NEW w, NEW n
  PROVE  Sized([table |-> t, units |-> w], n) =
             [table |-> t, units |-> [q \in 1 .. n |-> IF q <= Len(w) THEN w[q] ELSE Filled(Undefined)]]
  <1> DEFINE r == [table |-> t, units |-> w]
             u == [q \in 1 .. n |-> IF q <= Len(r.units) THEN r.units[q] ELSE Filled(Undefined)]
  <1>1. Sized(r, n) = [r EXCEPT !.units = u] BY DEF Sized
  <1>2. r.units = w OBVIOUS
  <1>3. u = [q \in 1 .. n |-> IF q <= Len(w) THEN w[q] ELSE Filled(Undefined)] BY <1>2
  <1> HIDE DEF u
  <1>4. [r EXCEPT !.units = u] = [table |-> t, units |-> u] OBVIOUS
  <1> QED BY <1>1, <1>3, <1>4

\* An image cut or grown to a length.
LEMMA SizedIs ==
  ASSUME disk \in Setups, NEW image \in ImageType, Laid(image), NEW n \in Nat
  PROVE  LET i == Sized(image, n)
         IN  /\ i \in ImageType /\ i.table = image.table /\ Len(i.units) = n /\ Laid(i)
             /\ \A q \in 1 .. n : q <= Len(image.units) => i.units[q] = image.units[q]
  <1> DEFINE i == Sized(image, n)
             t == image.table
             u == [q \in 1 .. n |-> IF q <= Len(image.units) THEN image.units[q] ELSE Filled(Undefined)]
  <1>1. image = [table |-> t, units |-> image.units] /\ t \in [Slots -> Nat] /\ image.units \in Seq(UnitType)
    BY DEF ImageType
  <1>2. Filled(Undefined) \in UnitType /\ Filled(Undefined).ids = <<>> BY Units DEF Byte
  <1>3. u \in Seq(UnitType) /\ Len(u) = n
    <2>1. \A q \in 1 .. n : u[q] \in UnitType BY <1>1, <1>2
    <2> QED BY <2>1
  <1>4. i = [table |-> t, units |-> u]
    <2> DEFINE w == image.units
    <2>1. image = [table |-> t, units |-> w] BY <1>1
    <2> HIDE DEF w, t
    <2> QED BY <2>1, SizedForm DEF i, u, w
  <1>5. /\ \A q \in 1 .. n : q <= Len(image.units) => u[q] = image.units[q]
        /\ \A q \in 1 .. n : (q <= Len(image.units) /\ u[q] = image.units[q]) \/ u[q].ids = <<>>
    BY <1>2
  <1> HIDE DEF t, u, i
  <1>6. i.table = t BY <1>4
  <1>7. i.units = u BY <1>4
  <1>8. i \in ImageType BY <1>1, <1>3, <1>4, Image1
  <1>9. Laid(i) BY <1>3, <1>5, <1>6, <1>7, <1>8, LaidStays DEF t
  <1> QED BY <1>3, <1>5, <1>6, <1>7, <1>8, <1>9 DEF i, t

\* What comes before a track, while the image keeps it.
LEMMA BeforeStays ==
  ASSUME disk \in Setups, NEW image \in ImageType, NEW tracks, TracksFine(tracks), HoldsIn(image, tracks),
         NEW slot \in Slots, NEW img \in ImageType, NEW s \in 0 .. slot - 1,
         \A i \in 0 .. slot - 1 : img.table[i] = image.table[i],
         Start(image.table, slot) <= Len(img.units),
         \A q \in 1 .. Start(image.table, slot) : q <= Len(image.units) => img.units[q] = image.units[q]
  PROVE  Bears(img, s, tracks[s])
  <1>1. LastSlot \in Nat /\ Slots = 0 .. LastSlot BY Disks
  <1>2. s \in 0 .. LastSlot /\ slot \in 0 .. LastSlot + 1 /\ s < slot /\ s \in Slots
        /\ image.table \in [0 .. LastSlot -> Nat]
    BY <1>1 DEF ImageType
  <1> DEFINE a == Start(image.table, s)
             o == Start(image.table, slot)
  <1>3. a + image.table[s] <= o BY <1>1, <1>2, StartGrows
  <1>4. a \in Nat /\ o \in Nat /\ image.table[s] \in Nat
    <2>1. s \in 0 .. LastSlot + 1 BY <1>1, <1>2
    <2>2. a \in Nat /\ o \in Nat BY <1>1, <1>2, <2>1, StartIs
    <2> QED BY <1>2, <2>2
  <1>5. o <= Len(img.units) /\ Len(img.units) \in Nat
        /\ \A q \in 1 .. o : q <= Len(image.units) => img.units[q] = image.units[q]
    BY DEF ImageType
  <1>6. Laid(image) /\ Bears(image, s, tracks[s]) /\ IsTrack(tracks[s]) BY <1>2 DEF HoldsIn, TracksFine
  <1>7. \A q \in a + 1 .. a + image.table[s] :
            q <= Len(image.units) => q <= Len(img.units) /\ img.units[q] = image.units[q]
    <2> HIDE DEF a, o
    <2> QED BY <1>3, <1>4, <1>5
  <1>8. \A i \in 0 .. s : img.table[i] = image.table[i] BY <1>1, <1>2
  <1> QED BY <1>2, <1>6, <1>7, <1>8, BearsStay

\* The table and the header go with the track that has been written.
LEMMA TrackedIs ==
  ASSUME Types, NEW tracks, TracksFine(tracks), HoldsIn(Image, tracks), NEW next, TracksFine(next),
         reg.code # 0, Offset(Image, Here) # 0,
         NEW img,
         \/ img = Tracked /\ next[Here] = Formatted
         \/ img \in {Image, Sized(Image, TrackEnd)} /\ next[Here] = NoTrack,
         \A s \in Slots : /\ s < Here => next[s] = tracks[s]
                          /\ s > Here => next[s] = NoTrack
  PROVE  img \in ImageType /\ HoldsIn(img, next) /\ Offset(img, Here) = Offset(Image, Here)
  <1> DEFINE o == Offset(Image, Here)
             m == Len(reg.ids) * reg.code
             h == Here
  <1>1. /\ disk \in Setups /\ Image \in ImageType /\ h \in Slots /\ LastSlot \in Nat /\ Slots = 0 .. LastSlot
        /\ reg.ids \in Seq(Nat) /\ reg.code \in Nat /\ reg.fill \in Int
    BY Selected, Disks, FieldsOf
  <1>2. /\ o \in Nat \ {0} /\ o = Start(Image.table, h) /\ Image.units # <<>>
        /\ \A i \in 0 .. h - 1 : Image.table[i] # 0
    BY <1>1, OffsetIs
  <1>3. m \in Nat BY <1>1
  <1>4. TrackEnd = o + 1 + m /\ TrackEnd \in Nat BY <1>2, <1>3 DEF TrackEnd
  <1>5. Laid(Image) BY DEF HoldsIn
  <1> DEFINE z == Sized(Image, TrackEnd)
  <1>6. /\ z \in ImageType /\ z.table = Image.table /\ Len(z.units) = TrackEnd /\ Laid(z)
        /\ \A q \in 1 .. TrackEnd : q <= Len(Image.units) => z.units[q] = Image.units[q]
    BY <1>1, <1>4, <1>5, SizedIs
  <1> HIDE DEF o, m, h, z
  <1>7. CASE img \in {Image, z} /\ next[h] = NoTrack
    <2>1. img \in ImageType /\ Laid(img) /\ img.table = Image.table BY <1>1, <1>5, <1>6, <1>7
    <2>2. img.units # <<>>
      <3>1. z.units # <<>> BY <1>4, <1>6, <1>2, <1>3
      <3> QED BY <1>2, <1>7, <3>1
    <2>3. Offset(img, h) = o
      <3>1. Offset(Image, h) = o BY DEF o, h
      <3> QED BY <1>2, <2>1, <2>2, <3>1 DEF Offset
    <2>4. ASSUME NEW s \in Slots PROVE Bears(img, s, next[s])
      <3>1. CASE s < h
        <4>1. s \in 0 .. h - 1 /\ next[s] = tracks[s] BY <1>1, <3>1 DEF h
        <4>2. CASE img = Image BY <4>1, <4>2 DEF HoldsIn
        <4>3. CASE img = z
          <5>1. /\ Start(Image.table, h) <= Len(img.units)
                /\ \A q \in 1 .. Start(Image.table, h) : q <= Len(Image.units) => img.units[q] = Image.units[q]
            BY <1>2, <1>3, <1>4, <1>6, <4>3
          <5>2. Bears(img, s, tracks[s]) BY <1>1, <2>1, <4>1, <5>1, BeforeStays
          <5> QED BY <4>1, <5>2
        <4> QED BY <1>7, <4>2, <4>3
      <3>2. CASE ~(s < h)
        <4>1. next[s].ids = <<>> BY <1>1, <1>7, <3>2 DEF NoTrack, h
        <4> QED BY <4>1 DEF Bears
      <3> QED BY <3>1, <3>2
    <2> QED BY <2>1, <2>3, <2>4 DEF HoldsIn, h, o
  <1>8. CASE img = Tracked /\ next[h] = Formatted
    <2> DEFINE t == [z.table EXCEPT ![h] = m + 1]
               u == [p \in 1 .. TrackEnd |->
                        IF p <= o THEN z.units[p]
                        ELSE IF p = o + 1 THEN Header(reg.ids, reg.code) ELSE Filled(reg.fill)]
    <2>1. img = [table |-> t, units |-> u] BY <1>8 DEF Tracked, z, o, m, h
    <2>2. t \in [Slots -> Nat] /\ t[h] = m + 1 /\ \A i \in Slots : i # h => t[i] = Image.table[i]
      <3>1. Image.table \in [Slots -> Nat] BY <1>1 DEF ImageType
      <3> QED BY <1>1, <1>3, <1>6, <3>1
    <2>3. /\ Header(reg.ids, reg.code) \in UnitType /\ Header(reg.ids, reg.code).ids = reg.ids
          /\ Header(reg.ids, reg.code).code = reg.code
          /\ Filled(reg.fill) \in UnitType /\ Filled(reg.fill).ids = <<>>
          /\ \A b \in 0 .. U - 1 : Filled(reg.fill).bytes[b] = reg.fill
      BY <1>1, Units DEF Byte
    <2>4. u \in Seq(UnitType) /\ Len(u) = TrackEnd
      <3>1. ASSUME NEW p \in 1 .. TrackEnd PROVE u[p] \in UnitType
        <4>1. z.units[p] \in UnitType BY <1>6 DEF ImageType
        <4> QED BY <2>3, <4>1
      <3> QED BY <1>4, <3>1
    <2>5. /\ \A p \in 1 .. o : u[p] = z.units[p]
          /\ u[o + 1] = Header(reg.ids, reg.code)
          /\ \A p \in o + 2 .. TrackEnd : u[p] = Filled(reg.fill)
      BY <1>2, <1>3, <1>4
    <2> HIDE DEF t, u
    <2>6. img.table = t BY <2>1
    <2>7. img.units = u BY <2>1
    <2>8. img \in ImageType BY <2>1, <2>2, <2>4, Image1
    <2>9. \A i \in 0 .. h - 1 : img.table[i] = Image.table[i] /\ img.table[i] # 0
      BY <1>1, <1>2, <2>2, <2>6
    <2>10. /\ h \in 0 .. LastSlot + 1 /\ h \in 0 .. LastSlot /\ Image.table \in [0 .. LastSlot -> Nat]
           /\ img.table \in [0 .. LastSlot -> Nat]
      BY <1>1, <2>2, <2>6 DEF ImageType
    <2>11. Start(img.table, h) = o
      <3>1. Same(img.table, Image.table, h) BY <2>9 DEF Same
      <3> QED BY <1>1, <1>2, <2>10, <3>1, StartDepends
    <2>12. Offset(img, h) = o
      <3>1. img.units # <<>> BY <1>2, <1>3, <1>4, <2>4, <2>7
      <3> QED BY <2>9, <2>11, <3>1 DEF Offset
    <2>13. Laid(img)
      <3>1. SUFFICES ASSUME NEW s \in Slots, \A i \in 0 .. s : img.table[i] # 0,
                            Start(img.table, s) < Len(img.units),
                            img.units[Start(img.table, s) + 1].ids # <<>>
                     PROVE  img.table[s] = 1 + Len(img.units[Start(img.table, s) + 1].ids)
                                                 * img.units[Start(img.table, s) + 1].code
        BY <2>2, <2>6 DEF Laid
      <3> DEFINE a == Start(img.table, s)
      <3>2. s \in 0 .. LastSlot + 1 /\ s \in 0 .. LastSlot BY <1>1
      <3>3. CASE s = h
        <4>1. img.units[a + 1] = Header(reg.ids, reg.code) BY <2>5, <2>7, <2>11, <3>3
        <4> QED BY <2>2, <2>3, <2>6, <3>3, <4>1, <1>3 DEF m
      <3>4. CASE s < h
        <4>1. a = Start(Image.table, s)
          <5>1. Same(img.table, Image.table, s) BY <1>1, <2>9, <3>2, <3>4 DEF Same
          <5> QED BY <1>1, <2>10, <3>2, <5>1, StartDepends
        <4>2. a + Image.table[s] <= o /\ a \in Nat /\ Image.table[s] \in Nat \ {0} /\ s \in 0 .. h - 1
          <5>1. a + Image.table[s] <= o BY <1>1, <1>2, <2>10, <3>2, <3>4, <4>1, StartGrows
          <5>2. a \in Nat BY <1>1, <2>10, <3>2, <4>1, StartIs
          <5>3. s \in 0 .. h - 1 BY <1>1, <3>4
          <5>4. Image.table[s] \in Nat \ {0} BY <1>2, <2>10, <3>2, <5>3
          <5> QED BY <5>1, <5>2, <5>3, <5>4
        <4> HIDE DEF a
        <4>3. a + 1 \in 1 .. o /\ a + 1 \in 1 .. TrackEnd BY <1>2, <1>3, <1>4, <4>2
        <4>4. img.units[a + 1] = z.units[a + 1] BY <2>5, <2>7, <4>3
        <4>5. \A i \in 0 .. s : z.table[i] # 0 BY <1>1, <1>2, <1>6, <4>2
        <4>6. a < Len(z.units) BY <1>4, <1>6, <4>2, <4>3
        <4>7. z.table[s] = 1 + Len(z.units[a + 1].ids) * z.units[a + 1].code
          <5>1. Start(z.table, s) = a /\ s \in DOMAIN z.table BY <1>1, <1>6, <2>10, <4>1
          <5>2. z.units[a + 1].ids # <<>> BY <3>1, <4>4 DEF a
          <5> QED BY <1>6, <4>5, <4>6, <5>1, <5>2 DEF Laid
        <4> QED BY <1>6, <2>9, <4>2, <4>4, <4>7 DEF a
      <3>5. CASE h < s
        <4>1. o + img.table[h] <= a BY <1>1, <2>10, <2>11, <3>2, <3>5, StartGrows
        <4>2. a \in Nat BY <1>1, <2>10, <3>2, StartIs
        <4>3. a < TrackEnd BY <2>4, <2>7, <3>1
        <4> HIDE DEF a
        <4> QED BY <1>2, <1>3, <1>4, <2>2, <2>6, <4>1, <4>2, <4>3
      <3> QED BY <1>1, <3>2, <3>3, <3>4, <3>5
    <2>14. ASSUME NEW s \in Slots PROVE Bears(img, s, next[s])
      <3>1. CASE s < h
        <4>1. s \in 0 .. h - 1 /\ next[s] = tracks[s] BY <1>1, <3>1 DEF h
        <4>2. Start(Image.table, h) <= Len(img.units) BY <1>2, <1>3, <1>4, <2>4, <2>7
        <4>3. \A q \in 1 .. Start(Image.table, h) : q <= Len(Image.units) => img.units[q] = Image.units[q]
          BY <1>2, <1>3, <1>4, <1>6, <2>5, <2>7
        <4>4. Bears(img, s, tracks[s]) BY <1>1, <2>8, <2>9, <4>1, <4>2, <4>3, BeforeStays
        <4> QED BY <4>1, <4>4
      <3>2. CASE s = h
        <4>1. next[s].ids = reg.ids /\ next[s].data = [id \in ToSet(reg.ids) |-> reg.fill]
          BY <1>8, <3>2 DEF Formatted
        <4>2. \A i \in 0 .. h : img.table[i] # 0 BY <1>1, <1>3, <2>2, <2>6, <2>9
        <4>3. o < Len(img.units) /\ o + Len(reg.ids) * reg.code < Len(img.units)
          BY <1>2, <1>3, <1>4, <2>4, <2>7 DEF m
        <4>4. img.units[o + 1].ids = reg.ids /\ img.units[o + 1].code = reg.code BY <2>3, <2>5, <2>7
        <4>5. ASSUME NEW i \in 1 .. Len(reg.ids), NEW j \in 1 .. reg.code, NEW b \in 0 .. U - 1
              PROVE  next[s].data[reg.ids[i]] = img.units[o + 1 + (i - 1) * reg.code + j].bytes[b]
          <5> DEFINE e == i - 1
                     x == e * reg.code
          <5>1. e \in Nat /\ e < Len(reg.ids) BY <1>1
          <5> HIDE DEF e
          <5> DEFINE c == reg.code
                     n == Len(reg.ids)
          <5>2. x \in Nat /\ x + c <= m
            <6>1. c \in Nat \ {0} /\ n \in Nat /\ e < n /\ m = n * c /\ x = e * c BY <1>1, <5>1 DEF m
            <6> HIDE DEF c, n, x
            <6> QED BY <5>1, <6>1, Times
          <5> HIDE DEF x
          <5>3. j \in Nat \ {0} /\ j <= c /\ c \in Nat BY <1>1
          <5> HIDE DEF c, n
          <5>4. o + 1 + x + j \in o + 2 .. TrackEnd BY <1>2, <1>3, <1>4, <5>2, <5>3
          <5>5. img.units[o + 1 + x + j] = Filled(reg.fill) BY <2>5, <2>7, <5>4
          <5>6. reg.ids[i] \in ToSet(reg.ids) BY <1>1, InIds
          <5> QED BY <2>3, <4>1, <5>5, <5>6 DEF x, e
        <4> DEFINE x == next[s]
                   y == img.units[Start(img.table, s) + 1]
        <4>6. Start(img.table, s) = o /\ x.ids = reg.ids /\ y.ids = reg.ids /\ y.code = reg.code
          BY <2>11, <3>2, <4>1, <4>4
        <4>7. ASSUME NEW i \in 1 .. Len(x.ids), NEW j \in 1 .. y.code, NEW b \in 0 .. U - 1
              PROVE  x.data[x.ids[i]] \in
                         {Undefined, img.units[Start(img.table, s) + 1 + (i - 1) * y.code + j].bytes[b]}
          <5>1. i \in 1 .. Len(reg.ids) /\ j \in 1 .. reg.code BY <4>6
          <5>2. x.data[reg.ids[i]] = img.units[o + 1 + (i - 1) * reg.code + j].bytes[b] BY <4>5, <5>1
          <5> QED BY <4>6, <5>2
        <4>8. /\ Start(img.table, s) < Len(img.units)
              /\ Start(img.table, s) + Len(x.ids) * y.code < Len(img.units)
              /\ y.ids = x.ids /\ y.code # 0 /\ \A i \in 0 .. s : img.table[i] # 0
          BY <3>2, <4>2, <4>3, <4>6
        <4> QED BY <4>7, <4>8 DEF Bears
      <3>3. CASE s > h
        <4>1. next[s].ids = <<>> BY <3>3 DEF NoTrack, h
        <4> QED BY <4>1 DEF Bears
      <3> QED BY <1>1, <3>1, <3>2, <3>3
    <2> QED BY <2>8, <2>12, <2>13, <2>14 DEF HoldsIn, h, o
  <1> QED BY <1>7, <1>8 DEF z, h

LEMMA StampedIs ==
  ASSUME Types
  PROVE  Stamped \in ImageType /\ Laid(Stamped)
  <1> DEFINE t == [s \in Slots |-> 0]
             u == IF Image.units = <<>> THEN <<Header(<<>>, 0)>> ELSE Image.units
  <1>1. Image \in ImageType /\ LastSlot \in Nat /\ Slots = 0 .. LastSlot BY Selected, Disks
  <1>2. Header(<<>>, 0) \in UnitType
    <2>1. <<>> \in Seq(Nat) OBVIOUS
    <2> QED BY <2>1, Units
  <1>3. Image.units \in Seq(UnitType) BY <1>1 DEF ImageType
  <1>4. u \in Seq(UnitType) BY <1>2, <1>3
  <1>5. t \in [Slots -> Nat] OBVIOUS
  <1>6. Stamped = [table |-> t, units |-> u] BY DEF Stamped
  <1>7. \A s \in Slots : t[s] = 0 OBVIOUS
  <1> HIDE DEF t, u
  <1>8. Stamped \in ImageType BY <1>4, <1>5, <1>6, Image1
  <1>9. Stamped.table = t BY <1>6
  <1>10. Laid(Stamped)
    <2>1. \A s \in DOMAIN Stamped.table : s \in 0 .. s /\ Stamped.table[s] = 0 BY <1>1, <1>5, <1>7, <1>9
    <2> QED BY <2>1 DEF Laid
  <1> QED BY <1>8, <1>10

-----------------------------------------------------------------------------
(* The steps: what most of them leave alone.                               *)

LEMMA Zeros == 0 \in 0 .. MaxPolls /\ 0 \in 0 .. U - 1 /\ 0 \in {k * U : k \in Nat}
  <1>1. 0 * U = 0 BY FloppyAssumption
  <1> QED BY <1>1, FloppyAssumption

LEMMA NoRegisters == ASSUME disk \in Setups PROVE RegFine(Registers) /\ JobFine(NoJob) /\ NoBuffer \in BufType
  <1>1. 0 \in Drives /\ 0 \in Slots /\ 0 \in 0 .. MaxTrack /\ SlotOf(0, 0) = 0
    <2>1. LastSlot \in Nat /\ Slots = 0 .. LastSlot /\ 0 \in Drives /\ MaxTrack \in Nat BY Disks
    <2> QED BY <2>1 DEF SlotOf
  <1>2. 0 \in 0 .. U - 1 /\ 0 \in 0 .. MaxPolls BY FloppyAssumption
  <1>3. Registers \in RegType BY <1>1, <1>2 DEF Registers, RegType, Commands, Flags
  <1>4. Registers.track = 0 /\ Registers.side = 0 BY DEF Registers
  <1>5. JobFine(NoJob) BY DEF NoJob, JobFine, JobType, Commands
  <1>6. NoBuffer \in BufType BY DEF NoBuffer, BufType, Byte
  <1> QED BY <1>1, <1>3, <1>4, <1>5, <1>6 DEF RegFine

\* The driver of a command that no byte is taken of yet.
NewJob(op, id, multi, byte) ==
    [op |-> op, id |-> id, ready |-> FALSE, done |-> FALSE, multi |-> multi, byte |-> byte, stream |-> <<>>]

LEMMA JobOf ==
  ASSUME NEW op \in {"none", "move", "read", "write", "address", "track"}, NEW id \in Nat,
         NEW multi \in BOOLEAN, NEW byte \in Int
  PROVE  LET j == NewJob(op, id, multi, byte)
         IN  JobFine(j) /\ j.op = op /\ j.id = id /\ j.byte = byte /\ ~j.ready /\ ~j.done
  <1> DEFINE j == NewJob(op, id, multi, byte)
  <1>1. op \in Commands /\ op # "format" BY DEF Commands
  <1>2. <<>> \in Seq(Int) OBVIOUS
  <1>3. j \in JobType BY <1>1, <1>2 DEF JobType, NewJob
  <1>4. j.op = op /\ j.id = id /\ j.byte = byte /\ ~j.ready /\ ~j.done /\ j.stream = <<>> BY DEF NewJob
  <1> HIDE DEF j
  <1> QED BY <1>1, <1>3, <1>4 DEF JobFine, j

PlainJob(op) == [NoJob EXCEPT !.op = op]

LEMMA Plain ==
  ASSUME NEW op \in {"none", "move", "read", "write", "address", "track"}
  PROVE  JobFine(PlainJob(op)) /\ PlainJob(op).op = op /\ ~PlainJob(op).ready /\ ~PlainJob(op).done
  <1> DEFINE j == PlainJob(op)
  <1>1. op \in Commands /\ op # "format" BY DEF Commands
  <1>2. <<>> \in Seq(Int) OBVIOUS
  <1>3. j \in JobType
    <2>1. NoJob \in JobType BY <1>2 DEF NoJob, JobType, Commands
    <2> QED BY <1>1, <2>1 DEF JobType, PlainJob
  <1>4. j.op = op /\ ~j.ready /\ ~j.done /\ j.stream = <<>> BY DEF PlainJob, NoJob
  <1> HIDE DEF j
  <1> QED BY <1>1, <1>3, <1>4 DEF JobFine, j

\* Registers that a command writes.
LEMMA Refuses ==
  ASSUME NEW r, RegFine(r), NEW st \in SUBSET Flags
  PROVE  LET q == Refused(r, st)
         IN  /\ RegFine(q) /\ q.status = st /\ q.cmd = r.cmd /\ q.count = r.count /\ q.script = r.script
             /\ q.sel = r.sel /\ q.track = r.track /\ q.side = r.side /\ q.stage = r.stage
  <1> DEFINE q == Refused(r, st)
  <1>1. r \in RegType BY DEF RegFine
  <1>2. q \in RegType BY <1>1 DEF RegType, Refused
  <1>3. /\ q.status = st /\ q.cmd = r.cmd /\ q.count = r.count /\ q.script = r.script
        /\ q.sel = r.sel /\ q.track = r.track /\ q.side = r.side /\ q.stage = r.stage
    BY <1>1 DEF RegType, Refused
  <1> HIDE DEF q
  <1> QED BY <1>2, <1>3 DEF RegFine, q

LEMMA Commanding ==
  ASSUME RegFine(reg), NEW cmd \in Commands
  PROVE  LET q == Commanded(cmd)
         IN  /\ RegFine(q) /\ q.status = reg.status /\ q.cmd = cmd /\ q.count = reg.count
             /\ q.script = reg.script /\ q.polls = 0 /\ q.sector = reg.sector
             /\ q.sel = reg.sel /\ q.track = reg.track /\ q.side = reg.side /\ q.stage = reg.stage
  <1> DEFINE q == Commanded(cmd)
  <1>1. reg \in RegType /\ 0 \in 0 .. MaxPolls BY Zeros DEF RegFine
  <1>2. q \in RegType BY <1>1 DEF RegType, Commanded
  <1>3. /\ q.status = reg.status /\ q.cmd = cmd /\ q.count = reg.count
        /\ q.script = reg.script /\ q.polls = 0 /\ q.sector = reg.sector
        /\ q.sel = reg.sel /\ q.track = reg.track /\ q.side = reg.side /\ q.stage = reg.stage
    BY <1>1 DEF RegType, Commanded
  <1> HIDE DEF q
  <1> QED BY <1>2, <1>3 DEF RegFine, q

Lay(r, st, n, p, k) == [r EXCEPT !.status = st, !.count = n, !.pos = p, !.script = k]

LEMMA Written ==
  ASSUME NEW r, RegFine(r), NEW st \in SUBSET Flags, NEW n \in Nat, NEW p \in 0 .. U - 1, NEW k \in 0 .. 4
  PROVE  LET q == Lay(r, st, n, p, k)
         IN  /\ RegFine(q) /\ q.status = st /\ q.cmd = r.cmd /\ q.count = n /\ q.script = k
             /\ q.pos = p /\ q.polls = r.polls /\ q.sector = r.sector
             /\ q.sel = r.sel /\ q.track = r.track /\ q.side = r.side /\ q.stage = r.stage
  <1> DEFINE q == Lay(r, st, n, p, k)
  <1>1. r \in RegType BY DEF RegFine
  <1>2. q \in RegType BY <1>1 DEF RegType, Lay
  <1>3. /\ q.status = st /\ q.cmd = r.cmd /\ q.count = n /\ q.script = k
        /\ q.pos = p /\ q.polls = r.polls /\ q.sector = r.sector
        /\ q.sel = r.sel /\ q.track = r.track /\ q.side = r.side /\ q.stage = r.stage
    BY <1>1 DEF RegType, Lay
  <1> HIDE DEF q
  <1> QED BY <1>2, <1>3 DEF RegFine, q

LEMMA EndedIs ==
  ASSUME disk \in Setups, NEW r, RegFine(r), NEW st \in SUBSET Flags
  PROVE  LET e == Ended(r, st)
         IN  /\ RegFine(e) /\ e.status = st /\ e.cmd = "none" /\ e.count = 0 /\ e.script = 0 /\ e.stage = 0
             /\ e.sel = r.sel /\ e.track = r.track /\ e.side = r.side
  <1> DEFINE e == Ended(r, st)
  <1>1. Registers \in RegType BY NoRegisters DEF RegFine
  <1>2. r \in RegType BY DEF RegFine
  <1>3. e \in RegType
    <2>1. /\ r.data \in Nat /\ r.track \in 0 .. MaxTrack /\ r.side \in {0, 1} /\ r.sector \in Nat /\ r.sel \in Drives
      BY <1>2, FieldsOf
    <2> QED BY <1>1, <2>1 DEF Ended, RegType
  <1>4. /\ e.status = st /\ e.cmd = "none" /\ e.count = 0 /\ e.script = 0 /\ e.stage = 0
        /\ e.sel = r.sel /\ e.track = r.track /\ e.side = r.side
    BY DEF Ended, Registers
  <1> HIDE DEF e
  <1>5. RegFine(e) BY <1>3, <1>4 DEF RegFine
  <1> QED BY <1>4, <1>5 DEF e

\* The cache is good of a drive whose head and offset are as they were.
LEMMA CachedSame ==
  ASSUME NEW image, NEW t, NEW d, NEW e, CachedIn(image, d, t),
         e.in => d.in, e.track = d.track, e.side = d.side, e.offset = d.offset
  PROVE  CachedIn(image, e, t)
  BY DEF CachedIn

\* A step after which the guest is not in a command.
LEMMA Idles ==
  ASSUME job'.op \in {"none", "move"} \/ reg'.cmd = "none"
  PROVE  /\ UnderwayIn(Image, Cur, reg, buf, job)' /\ AddressIn(reg, buf, job)' /\ TrackIn(Image, Cur, reg, job)'
         /\ FormatIn(reg, job)'
  <1>0. ~(Carries(job') /\ Live(reg', job')) BY DEF Carries, Live
  <1>1. UnderwayIn(Image, Cur, reg, buf, job)' BY <1>0 DEF UnderwayIn
  <1>2. AddressIn(reg, buf, job)' BY DEF AddressIn
  <1>3. TrackIn(Image, Cur, reg, job)' BY DEF TrackIn
  <1>4. FormatIn(reg, job)' BY DEF FormatIn
  <1> QED BY <1>1, <1>2, <1>3, <1>4

\* A step that leaves the images and what is believed of them.
LEMMA HoldsKept ==
  ASSUME Inv, disk' = disk, UNCHANGED <<file, belief, wrong>>,
         RegFine(reg'), JobFine(job'), buf' \in BufType,
         drive' \in [Drives -> DriveType],
         \A d \in Drives : CachedIn(file[d], drive'[d], belief[d])
  PROVE  Types' /\ Holds' /\ ~wrong'
  <1>1. Types'
    <2>1. RegFine(reg)' BY TypesStay
    <2>2. JobFine(job)' BY DEF JobFine
    <2>3. drive' \in [Drives' -> DriveType'] /\ file' \in [Drives' -> ImageType'] BY TypesStay DEF Inv, Types
    <2>4. DOMAIN belief' = Drives' /\ \A d \in Drives' : TracksFine(belief[d])' BY TypesStay DEF Inv, Types
    <2>5. (buf \in BufType)' BY DEF BufType
    <2> QED BY <2>1, <2>2, <2>3, <2>4, <2>5 DEF Inv, Types
  <1>2. Holds'
    <2>1. \A d \in Drives : HoldsIn(file[d], belief[d]) BY DEF Inv, Holds
    <2>2. \A d \in Drives : HoldsIn(file[d], belief[d])' /\ CachedIn(file[d], drive[d], belief[d])'
      BY <2>1, TypesStay
    <2> QED BY <2>2, TypesStay DEF Holds
  <1> QED BY <1>1, <1>2 DEF Inv

\* The command's drive alone has moved, by setTrack or not at all.
LEMMA CurKept ==
  ASSUME Inv, disk' = disk, UNCHANGED <<file, belief, wrong>>,
         RegFine(reg'), JobFine(job'), buf' \in BufType,
         NEW d \in DriveType, drive' = [drive EXCEPT ![reg.sel] = d],
         d.in => Cur.in,
         \/ d.track = Cur.track /\ d.side = Cur.side /\ d.offset = Cur.offset
         \/ d.track = reg.track /\ d.side = reg.side /\ d.offset = Offset(Image, Here) /\ d.offset # 0
  PROVE  Types' /\ Holds' /\ ~wrong' /\ drive'[reg.sel] = d
  <1>1. reg.sel \in Drives /\ drive \in [Drives -> DriveType] /\ Here \in Slots BY Selected DEF Inv, Types
  <1>2. drive' \in [Drives -> DriveType] /\ drive'[reg.sel] = d
        /\ \A e \in Drives : e # reg.sel => drive'[e] = drive[e]
    BY <1>1
  <1>3. \A e \in Drives : CachedIn(file[e], drive[e], belief[e]) BY DEF Inv, Holds
  <1>4. CachedIn(Image, Cur, belief[reg.sel]) BY <1>1, <1>3 DEF Image, Cur
  <1>5. CachedIn(Image, d, belief[reg.sel])
    <2>1. CASE d.track = Cur.track /\ d.side = Cur.side /\ d.offset = Cur.offset BY <1>4, <2>1, CachedSame
    <2>2. CASE d.track = reg.track /\ d.side = reg.side /\ d.offset = Offset(Image, Here) /\ d.offset # 0
      BY <1>1, <2>2 DEF CachedIn, Here
    <2> QED BY <2>1, <2>2
  <1>6. \A e \in Drives : CachedIn(file[e], drive'[e], belief[e]) BY <1>2, <1>3, <1>5 DEF Image
  <1> QED BY <1>2, <1>6, HoldsKept

LEMMA SetKeeps ==
  ASSUME Inv, disk' = disk, NEW r, Set(r), RegFine(r),
         r.count = reg.count, r.cmd = reg.cmd, r.status = reg.status, r.script = reg.script
  PROVE  Inv'
  <1>1. Idle /\ reg' = r /\ UNCHANGED <<buf, drive, job, file, belief, wrong>> BY DEF Set, Media
  <1>2. job'.op = "none" BY <1>1 DEF Idle
  <1>3. JobFine(job') /\ buf' \in BufType /\ drive' \in [Drives -> DriveType]
        /\ \A d \in Drives : CachedIn(file[d], drive'[d], belief[d])
    BY <1>1 DEF Inv, Types, Holds
  <1>4. Types' /\ Holds' /\ ~wrong' BY <1>1, <1>3, HoldsKept
  <1>5. Controlled(reg, job)' BY <1>1, <1>2 DEF Inv, Controlled, Carries, Idle
  <1> QED BY <1>2, <1>4, <1>5, Idles DEF Inv

LEMMA SelectDriveKeeps == ASSUME Inv, disk' = disk, NEW d \in Drives, SelectDrive(d) PROVE Inv'
  <1> DEFINE r == [reg EXCEPT !.sel = d]
  <1>1. reg \in RegType /\ Here \in Slots BY DEF Inv, Types, RegFine, Here
  <1>2. r \in RegType BY <1>1 DEF RegType
  <1>3. r.track = reg.track /\ r.side = reg.side /\ r.count = reg.count /\ r.cmd = reg.cmd
        /\ r.status = reg.status /\ r.script = reg.script
    BY <1>1 DEF RegType
  <1>4. Set(r) BY DEF SelectDrive
  <1> HIDE DEF r
  <1>5. RegFine(r) BY <1>1, <1>2, <1>3 DEF RegFine, Here
  <1> QED BY <1>3, <1>4, <1>5, SetKeeps

LEMMA SelectSideKeeps == ASSUME Inv, disk' = disk, NEW s \in {0, 1}, SelectSide(s) PROVE Inv'
  <1> DEFINE r == [reg EXCEPT !.side = s]
  <1>1. reg \in RegType BY DEF Inv, Types, RegFine
  <1>2. r \in RegType BY <1>1 DEF RegType
  <1>3. r.track = reg.track /\ r.side = s /\ r.count = reg.count /\ r.cmd = reg.cmd
        /\ r.status = reg.status /\ r.script = reg.script
    BY <1>1 DEF RegType
  <1>4. Set(r) /\ SlotOf(reg.track, s) \in Slots BY DEF SelectSide
  <1> HIDE DEF r
  <1>5. RegFine(r) BY <1>2, <1>3, <1>4 DEF RegFine
  <1> QED BY <1>3, <1>4, <1>5, SetKeeps

LEMMA TrackRegisterKeeps == ASSUME Inv, disk' = disk, NEW t \in 0 .. MaxTrack, TrackRegister(t) PROVE Inv'
  <1> DEFINE r == [reg EXCEPT !.track = t]
  <1>1. reg \in RegType BY DEF Inv, Types, RegFine
  <1>2. r \in RegType BY <1>1 DEF RegType
  <1>3. r.track = t /\ r.side = reg.side /\ r.count = reg.count /\ r.cmd = reg.cmd
        /\ r.status = reg.status /\ r.script = reg.script
    BY <1>1 DEF RegType
  <1>4. Set(r) /\ SlotOf(t, reg.side) \in Slots BY DEF TrackRegister
  <1> HIDE DEF r
  <1>5. RegFine(r) BY <1>2, <1>3, <1>4 DEF RegFine
  <1> QED BY <1>3, <1>4, <1>5, SetKeeps

LEMMA DataRegistersKeep ==
  ASSUME Inv, disk' = disk, NEW n \in Nat,
         SectorRegister(n) \/ Stage(n) \/ ReadSectorRegister
  PROVE  Inv'
  <1>1. reg \in RegType /\ Here \in Slots BY DEF Inv, Types, RegFine, Here
  <1>2. Cur.sector \in Nat BY Selected DEF Inv, DriveType
  <1>3. PICK r \in {[reg EXCEPT !.sector = n], [reg EXCEPT !.data = n, !.errint = FALSE],
                    [reg EXCEPT !.sector = Cur.sector]} : Set(r)
    BY DEF SectorRegister, Stage, ReadSectorRegister
  <1>4. r \in RegType
    <2>1. [reg EXCEPT !.sector = n] \in RegType BY <1>1 DEF RegType
    <2>2. [reg EXCEPT !.data = n, !.errint = FALSE] \in RegType BY <1>1 DEF RegType
    <2>3. [reg EXCEPT !.sector = Cur.sector] \in RegType BY <1>1, <1>2 DEF RegType
    <2> QED BY <1>3, <2>1, <2>2, <2>3
  <1>5. r.track = reg.track /\ r.side = reg.side /\ r.count = reg.count /\ r.cmd = reg.cmd
        /\ r.status = reg.status /\ r.script = reg.script
    BY <1>1, <1>3 DEF RegType
  <1>6. RegFine(r) BY <1>1, <1>4, <1>5 DEF RegFine, Here
  <1> QED BY <1>3, <1>5, <1>6, SetKeeps

-----------------------------------------------------------------------------
(* The steps between commands.                                             *)

LEMMA MoveKeeps ==
  ASSUME Inv, disk' = disk, NEW kind \in {"restore", "seek", "stepIn", "stepOut"}, Move(kind)
  PROVE  Inv'
  <1> DEFINE c == Commanded("none")
             r == Headed(kind, c)
  <1>0. Types BY DEF Inv
  <1>1. reg \in RegType /\ Here \in Slots /\ disk \in Setups /\ reg.track \in 0 .. MaxTrack
        /\ reg.side \in {0, 1} /\ reg.data \in Nat /\ 0 \in 0 .. MaxPolls /\ 0 \in 0 .. U - 1
    BY <1>0, Selected, FieldsOf, Zeros
  <1>2. /\ Idle /\ r.track <= MaxTrack /\ SlotOf(r.track, r.side) <= Cardinality(Slots) - 1
        /\ job' = [NoJob EXCEPT !.op = "move"]
        /\ reg' = IF ~Cur.in THEN Refused(Commanded("move"), {NotReady})
                  ELSE [r EXCEPT !.status = IF r.track = 0 THEN {Track0} ELSE {},
                                 !.count = 0, !.pos = 0, !.script = 1]
        /\ UNCHANGED <<buf, drive, file, belief, wrong>>
    BY DEF Move, Media
  <1>3. /\ LastSlot \in Nat /\ Slots = 0 .. LastSlot /\ MaxTrack \in Nat
        /\ \A t \in Nat, s \in {0, 1} : SlotOf(t, s) \in Nat
    BY <1>1, Disks
  <1>4. c \in RegType /\ c.track = reg.track /\ c.side = reg.side /\ c.cmd = "none" BY <1>1 DEF Commanded, RegType, Commands
  <1>5. \E x \in Nat : /\ r = [c EXCEPT !.track = x] \/ r = [c EXCEPT !.track = x, !.side = 0]
                       /\ r.track = x /\ r.side \in {0, 1}
    <2>0. c.track \in Nat
      <3>1. MaxTrack \in Nat BY <1>3
      <3>2. reg.track \in Nat BY <1>1, <3>1
      <3> QED BY <1>4, <3>2
    <2> HIDE DEF c
    <2>1. CASE kind = "restore"
      <3>1. r = [c EXCEPT !.track = 0, !.side = 0] BY <2>1 DEF Headed
      <3> QED BY <1>1, <1>4, <3>1 DEF RegType
    <2>2. CASE kind = "seek"
      <3>1. r = [c EXCEPT !.track = reg.data] BY <2>2 DEF Headed
      <3> QED BY <1>1, <1>4, <3>1 DEF RegType
    <2>3. CASE kind = "stepIn"
      <3>1. r = [c EXCEPT !.track = c.track + 1] BY <2>3 DEF Headed
      <3>2. c.track + 1 \in Nat BY <2>0
      <3> QED BY <1>1, <1>4, <3>1, <3>2 DEF RegType
    <2>4. CASE kind = "stepOut"
      <3> DEFINE x == IF c.track > 0 THEN c.track - 1 ELSE 0
      <3>1. r = [c EXCEPT !.track = x] BY <2>4 DEF Headed
      <3>2. x \in Nat BY <2>0
      <3> HIDE DEF x
      <3> QED BY <1>1, <1>4, <3>1, <3>2 DEF RegType
    <2> QED BY <2>1, <2>2, <2>3, <2>4
  <1> HIDE DEF c, r
  <1>6. RegFine(reg') /\ reg'.cmd \in {"none", "move"}
    <2>1. CASE Cur.in
      <3>1. PICK x \in Nat : /\ r = [c EXCEPT !.track = x] \/ r = [c EXCEPT !.track = x, !.side = 0]
                             /\ r.track = x /\ r.side \in {0, 1}
        BY <1>5
      <3>2. x \in 0 .. MaxTrack BY <1>2, <1>3, <3>1
      <3>3. SlotOf(r.track, r.side) \in Slots
        <4> DEFINE y == SlotOf(r.track, r.side)
        <4>1. r.track \in Nat BY <3>1
        <4>2. y \in Nat /\ y <= LastSlot /\ LastSlot \in Nat BY <1>2, <1>3, <3>1, <4>1 DEF LastSlot
        <4> HIDE DEF y
        <4>3. y \in 0 .. LastSlot BY <4>2
        <4> QED BY <1>3, <4>3 DEF y
      <3>4. r \in RegType /\ r.cmd = "none"
        <4>1. CASE r = [c EXCEPT !.track = x] BY <1>4, <3>2, <4>1 DEF RegType
        <4>2. CASE r = [c EXCEPT !.track = x, !.side = 0] BY <1>4, <3>2, <4>2 DEF RegType
        <4> QED BY <3>1, <4>1, <4>2
      <3>5. RegFine(r) BY <3>3, <3>4 DEF RegFine
      <3> DEFINE st == IF r.track = 0 THEN {Track0} ELSE {}
      <3>6. st \in SUBSET Flags BY DEF Flags
      <3>7. reg' = Lay(r, st, 0, 0, 1) BY <1>2, <2>1 DEF Lay
      <3> HIDE DEF st
      <3>8. RegFine(Lay(r, st, 0, 0, 1)) /\ Lay(r, st, 0, 0, 1).cmd = r.cmd BY <1>1, <3>5, <3>6, Written
      <3> QED BY <3>4, <3>7, <3>8
    <2>2. CASE ~Cur.in
      <3>1. RegFine(Commanded("move")) /\ Commanded("move").cmd = "move"
        BY <1>0, Commanding DEF Types, Commands
      <3>2. /\ RegFine(Refused(Commanded("move"), {NotReady}))
            /\ Refused(Commanded("move"), {NotReady}).cmd = "move"
        BY <3>1, Refuses DEF Flags
      <3> QED BY <1>2, <2>2, <3>2
    <2> QED BY <2>1, <2>2
  <1>7. JobFine(job') /\ job'.op = "move"
    <2>1. job' = PlainJob("move") BY <1>2 DEF PlainJob
    <2>2. JobFine(PlainJob("move")) /\ PlainJob("move").op = "move" BY Plain
    <2> QED BY <2>1, <2>2
  <1>8. buf' \in BufType /\ drive' \in [Drives -> DriveType]
        /\ \A d \in Drives : CachedIn(file[d], drive'[d], belief[d])
    BY <1>2 DEF Inv, Types, Holds
  <1>9. Types' /\ Holds' /\ ~wrong' BY <1>2, <1>6, <1>7, <1>8, HoldsKept
  <1>10. Controlled(reg, job)' BY <1>6, <1>7 DEF Controlled, Carries
  <1> QED BY <1>7, <1>9, <1>10, Idles DEF Inv

LEMMA FreshOn ==
  ASSUME disk \in Setups, NEW d \in Drives, NEW in \in BOOLEAN,
         file[d] \in ImageType, TracksFine(belief[d]), HoldsIn(file[d], belief[d])
  PROVE  Fresh(d, in) \in DriveType /\ CachedIn(file[d], Fresh(d, in), belief[d])
  <1>0. disk \in Setups /\ file[d] \in ImageType OBVIOUS
  <1>1. 0 \in Slots /\ 0 \in 0 .. MaxTrack /\ SlotOf(0, 0) = 0
    <2>1. LastSlot \in Nat /\ Slots = 0 .. LastSlot /\ MaxTrack \in Nat BY <1>0, Disks
    <2> QED BY <2>1 DEF SlotOf
  <1>2. 0 \in {k * U : k \in Nat}
    <2>1. 0 * U = 0 BY FloppyAssumption
    <2> QED BY <2>1
  <1> DEFINE f == Fresh(d, in)
  <1>3. f \in DriveType /\ f.in = in /\ f.track = 0 /\ f.side = 0
        /\ f.offset = IF in /\ file[d].units # <<>> THEN 1 ELSE 0
    BY <1>1, <1>2 DEF Fresh, DriveType
  <1> HIDE DEF f
  <1>4. SUFFICES ASSUME in PROVE Blank(belief[d]) \/ (Offset(file[d], 0) # 0 /\ f.offset = Offset(file[d], 0))
    BY <1>1, <1>3 DEF CachedIn, f
  <1>5. CASE file[d].units = <<>>
    <2>1. ASSUME NEW s \in Slots PROVE belief[d][s].ids = <<>>
      <3>1. Bears(file[d], s, belief[d][s]) BY DEF HoldsIn
      <3>2. Laid(file[d]) /\ IsTrack(belief[d][s]) BY DEF TracksFine, HoldsIn
      <3>3. belief[d][s].ids # <<>> =>
               Start(file[d].table, s) \in Nat \ {0} /\ Start(file[d].table, s) < Len(file[d].units)
        BY <1>0, <3>1, <3>2, Spans
      <3> QED BY <1>5, <3>3
    <2> QED BY <2>1 DEF Blank
  <1>6. CASE file[d].units # <<>>
    <2>1. Offset(file[d], 0) = Start(file[d].table, 0) /\ Offset(file[d], 0) # 0
      BY <1>0, <1>1, <1>6, OffsetIs
    <2>2. Start(file[d].table, 0) = 1
      <3>1. LastSlot \in Nat /\ file[d].table \in [0 .. LastSlot -> Nat] BY <1>0, Disks DEF ImageType
      <3> QED BY <3>1, StartIs
    <2> QED BY <1>3, <1>4, <1>6, <2>1, <2>2
  <1> QED BY <1>5, <1>6

LEMMA FreshIs ==
  ASSUME Inv, NEW d \in Drives, NEW in \in BOOLEAN
  PROVE  Fresh(d, in) \in DriveType /\ CachedIn(file[d], Fresh(d, in), belief[d])
  <1>1. disk \in Setups /\ file[d] \in ImageType /\ TracksFine(belief[d]) /\ HoldsIn(file[d], belief[d])
    BY DEF Inv, Types, Holds
  <1> QED BY <1>1, FreshOn

LEMMA IsNoTrack == NoTrack.ids = <<>> /\ IsTrack(NoTrack)
  <1>1. NoTrack.ids = <<>> /\ NoTrack.data = <<>> /\ NoTrack = [ids |-> NoTrack.ids, data |-> NoTrack.data]
    BY DEF NoTrack
  <1>2. ToSet(<<>>) = {} BY DEF ToSet
  <1>3. <<>> \in [{} -> Byte] /\ <<>> \in Seq(Nat) OBVIOUS
  <1> QED BY <1>1, <1>2, <1>3 DEF IsTrack

LEMMA Forgotten ==
  ASSUME Inv, NEW d \in Drives, NEW slots
  PROVE  LET b == Forgetting(d, slots)
         IN  /\ DOMAIN b = Drives /\ \A e \in Drives : TracksFine(b[e]) /\ (e # d => b[e] = belief[e])
             /\ \A s \in Slots : b[d][s] = IF s \in slots THEN NoTrack ELSE belief[d][s]
  <1> DEFINE b == Forgetting(d, slots)
             t == [s \in Slots |-> IF s \in slots THEN NoTrack ELSE belief[d][s]]
  <1>1. DOMAIN belief = Drives /\ \A e \in Drives : TracksFine(belief[e]) BY DEF Inv, Types
  <1>2. b = [belief EXCEPT ![d] = t] BY DEF Forgetting
  <1>3. TracksFine(t) BY <1>1, IsNoTrack DEF TracksFine
  <1>4. \A s \in Slots : t[s] = IF s \in slots THEN NoTrack ELSE belief[d][s] OBVIOUS
  <1> HIDE DEF t
  <1> QED BY <1>1, <1>2, <1>3, <1>4

\* A step that forgets what is believed of some drives.
LEMMA HoldsForgotten ==
  ASSUME Inv, disk' = disk, UNCHANGED <<file, wrong>>,
         RegFine(reg'), JobFine(job'), buf' \in BufType,
         drive' \in [Drives -> DriveType], DOMAIN belief' = Drives,
         \A d \in Drives :
             \/ belief'[d] = belief[d] /\ CachedIn(file[d], drive'[d], belief[d])
             \/ TracksFine(belief'[d]) /\ Blank(belief'[d])
  PROVE  Types' /\ Holds' /\ ~wrong'
  <1>1. \A d \in Drives : TracksFine(belief'[d]) BY DEF Inv, Types
  <1>2. Types'
    <2>1. RegFine(reg)' BY TypesStay
    <2>2. JobFine(job)' BY DEF JobFine
    <2>3. drive' \in [Drives' -> DriveType'] /\ file' \in [Drives' -> ImageType'] BY TypesStay DEF Inv, Types
    <2>4. DOMAIN belief' = Drives' /\ \A d \in Drives' : TracksFine(belief[d])' BY <1>1, TypesStay
    <2>5. (buf \in BufType)' BY DEF BufType
    <2> QED BY <2>1, <2>2, <2>3, <2>4, <2>5 DEF Inv, Types
  <1>3. ASSUME NEW d \in Drives PROVE HoldsIn(file[d], belief'[d]) /\ CachedIn(file[d], drive'[d], belief'[d])
    <2>1. HoldsIn(file[d], belief[d]) BY DEF Inv, Holds
    <2>2. CASE Blank(belief'[d])
      <3>1. Laid(file[d]) BY <2>1 DEF HoldsIn
      <3> QED BY <2>2, <3>1, BlankHolds DEF CachedIn
    <2> QED BY <2>1, <2>2
  <1>4. Holds' BY <1>3, TypesStay DEF Holds
  <1> QED BY <1>2, <1>4 DEF Inv

LEMMA MountKeeps == ASSUME Inv, disk' = disk, NEW d \in Drives, Mount(d) PROVE Inv'
  <1>1. Idle /\ drive' = [drive EXCEPT ![d] = Fresh(d, TRUE)] /\ UNCHANGED <<reg, buf, job, file, belief, wrong>>
    BY DEF Mount, Media
  <1>2. RegFine(reg') /\ JobFine(job') /\ buf' \in BufType /\ drive \in [Drives -> DriveType]
    BY <1>1 DEF Inv, Types
  <1>3. Fresh(d, TRUE) \in DriveType /\ CachedIn(file[d], Fresh(d, TRUE), belief[d]) BY FreshIs
  <1>4. drive' \in [Drives -> DriveType] /\ \A e \in Drives : CachedIn(file[e], drive'[e], belief[e])
    BY <1>1, <1>2, <1>3 DEF Inv, Holds
  <1>5. Types' /\ Holds' /\ ~wrong' BY <1>1, <1>2, <1>4, HoldsKept
  <1>6. job'.op = "none" BY <1>1 DEF Idle
  <1>7. Controlled(reg, job)' BY <1>1 DEF Inv, Controlled, Live, Carries
  <1> QED BY <1>5, <1>6, <1>7, Idles DEF Inv

LEMMA EjectKeeps == ASSUME Inv, disk' = disk, NEW d \in Drives, Eject(d) PROVE Inv'
  <1>1. /\ Idle /\ drive' = [drive EXCEPT ![d] = Fresh(d, FALSE)] /\ UNCHANGED <<reg, buf, job, file, wrong>>
        /\ belief' = IF disk[d].dirsrc THEN Forgetting(d, Slots) ELSE belief
    BY DEF Eject
  <1>2. RegFine(reg') /\ JobFine(job') /\ buf' \in BufType /\ drive \in [Drives -> DriveType]
        /\ DOMAIN belief = Drives
    BY <1>1 DEF Inv, Types
  <1>3. Fresh(d, FALSE) \in DriveType /\ CachedIn(file[d], Fresh(d, FALSE), belief[d]) BY FreshIs
  <1>4. drive' \in [Drives -> DriveType] /\ \A e \in Drives : CachedIn(file[e], drive'[e], belief[e])
    BY <1>1, <1>2, <1>3 DEF Inv, Holds
  <1> DEFINE b == Forgetting(d, Slots)
  <1>5. /\ DOMAIN b = Drives /\ \A e \in Drives : TracksFine(b[e]) /\ (e # d => b[e] = belief[e])
        /\ \A s \in Slots : b[d][s] = NoTrack
    BY Forgotten
  <1>6. TracksFine(b[d]) /\ Blank(b[d]) BY <1>5, IsNoTrack DEF Blank
  <1> HIDE DEF b
  <1>7. belief' = b \/ belief' = belief BY <1>1 DEF b
  <1>8. DOMAIN belief' = Drives /\ \A e \in Drives :
             \/ belief'[e] = belief[e] /\ CachedIn(file[e], drive'[e], belief[e])
             \/ TracksFine(belief'[e]) /\ Blank(belief'[e])
    BY <1>2, <1>4, <1>5, <1>6, <1>7
  <1>9. Types' /\ Holds' /\ ~wrong' BY <1>1, <1>2, <1>4, <1>8, HoldsForgotten
  <1>10. job'.op = "none" BY <1>1 DEF Idle
  <1>11. Controlled(reg, job)' BY <1>1 DEF Inv, Controlled, Live, Carries
  <1> QED BY <1>9, <1>10, <1>11, Idles DEF Inv

LEMMA SoftResetKeeps == ASSUME Inv, disk' = disk, SoftReset PROVE Inv'
  <1>1. /\ reg' = Registers /\ job' = NoJob /\ buf' = NoBuffer /\ UNCHANGED <<file, wrong>>
        /\ drive' = [d \in Drives |-> IF drive[d].in = disk[d].configured THEN drive[d]
                                      ELSE Fresh(d, disk[d].configured)]
        /\ belief' = [d \in Drives |-> IF disk[d].dirsrc THEN Forgetting(d, Slots)[d] ELSE belief[d]]
    BY DEF SoftReset
  <1>2. disk \in Setups /\ drive \in [Drives -> DriveType] BY DEF Inv, Types
  <1>3. RegFine(reg') /\ JobFine(job') /\ buf' \in BufType BY <1>1, <1>2, NoRegisters
  <1>4. ASSUME NEW d \in Drives
        PROVE  drive'[d] \in DriveType /\ CachedIn(file[d], drive'[d], belief[d])
    <2>1. disk[d].configured \in BOOLEAN BY <1>2, Disks
    <2>2. Fresh(d, disk[d].configured) \in DriveType
          /\ CachedIn(file[d], Fresh(d, disk[d].configured), belief[d])
      BY <2>1, FreshIs
    <2>3. drive[d] \in DriveType /\ CachedIn(file[d], drive[d], belief[d]) BY <1>2 DEF Inv, Holds
    <2>4. drive'[d] = drive[d] \/ drive'[d] = Fresh(d, disk[d].configured) BY <1>1
    <2> QED BY <2>2, <2>3, <2>4
  <1>5. drive' \in [Drives -> DriveType] BY <1>1, <1>4
  <1>6. ASSUME NEW d \in Drives
        PROVE  \/ belief'[d] = belief[d] /\ CachedIn(file[d], drive'[d], belief[d])
               \/ TracksFine(belief'[d]) /\ Blank(belief'[d])
    <2> DEFINE b == Forgetting(d, Slots)
    <2>1. TracksFine(b[d]) /\ \A s \in Slots : b[d][s] = NoTrack BY Forgotten
    <2>2. Blank(b[d]) BY <2>1, IsNoTrack DEF Blank
    <2>3. belief'[d] = b[d] \/ belief'[d] = belief[d] BY <1>1
    <2> HIDE DEF b
    <2> QED BY <1>4, <2>1, <2>2, <2>3
  <1>7. DOMAIN belief' = Drives BY <1>1
  <1>8. Types' /\ Holds' /\ ~wrong' BY <1>1, <1>3, <1>5, <1>6, <1>7, HoldsForgotten
  <1>9. /\ job'.op = "none" /\ ~job'.ready /\ reg'.cmd = "none" /\ reg'.count = 0 /\ reg'.status = {}
        /\ reg'.script = 0
    BY <1>1 DEF NoJob, Registers
  <1>10. Controlled(reg, job)' BY <1>9 DEF Controlled, Live, Carries
  <1> QED BY <1>8, <1>9, <1>10, Idles DEF Inv

-----------------------------------------------------------------------------
(* The steps of a command under way.                                       *)

\* The head and the cached offset of the drive are as they were.
AtHead(d) == /\ d \in DriveType /\ d.in = Cur.in
             /\ d.track = Cur.track /\ d.side = Cur.side /\ d.offset = Cur.offset

Outcome(o) == /\ o = [reg |-> o.reg, drive |-> o.drive, buf |-> o.buf]
              /\ RegFine(o.reg) /\ o.buf \in BufType /\ AtHead(o.drive)

LEMMA Became ==
  ASSUME Types, NEW o, Becomes(o), Outcome(o)
  PROVE  LET d == drive'[reg.sel]
         IN  /\ AtHead(d) /\ drive' = [drive EXCEPT ![reg.sel] = d]
             /\ reg' = o.reg /\ buf' \in BufType
             /\ o.reg.cmd # "none" => d = o.drive /\ buf' = o.buf
  <1> DEFINE e == [o.drive EXCEPT !.at = 0]
  <1>1. AtHead(o.drive) /\ o.drive \in DriveType BY DEF Outcome, AtHead
  <1>2. e \in DriveType /\ e.in = o.drive.in /\ e.track = o.drive.track /\ e.side = o.drive.side
        /\ e.offset = o.drive.offset
    BY <1>1 DEF DriveType
  <1>3. AtHead(e) BY <1>1, <1>2 DEF AtHead
  <1>4. NoBuffer \in BufType BY NoRegisters DEF Types
  <1>5. drive \in [Drives -> DriveType] /\ reg.sel \in Drives BY Selected DEF Types
  <1> HIDE DEF e
  <1>6. CASE o.reg.cmd = "none"
    <2>1. reg' = o.reg /\ buf' = NoBuffer /\ drive' = [drive EXCEPT ![reg.sel] = e]
      BY <1>6 DEF Becomes, CurBecomes, e
    <2> QED BY <1>3, <1>4, <1>5, <1>6, <2>1
  <1>7. CASE o.reg.cmd # "none"
    <2>1. reg' = o.reg /\ buf' = o.buf /\ drive' = [drive EXCEPT ![reg.sel] = o.drive]
      BY <1>7 DEF Becomes, CurBecomes
    <2> QED BY <1>1, <1>5, <2>1 DEF Outcome
  <1> QED BY <1>6, <1>7

\* A step that leaves the images alone and all it moves is what o says.
LEMMA BecameKeeps ==
  ASSUME Inv, disk' = disk, UNCHANGED <<file, belief, wrong>>, JobFine(job'),
         NEW o, Becomes(o), Outcome(o)
  PROVE  /\ Types' /\ Holds' /\ ~wrong' /\ reg' = o.reg
         /\ o.reg.cmd # "none" => drive'[reg.sel] = o.drive /\ buf' = o.buf
  <1> DEFINE d == drive'[reg.sel]
  <1>1. Types BY DEF Inv
  <1>2. /\ AtHead(d) /\ drive' = [drive EXCEPT ![reg.sel] = d]
        /\ reg' = o.reg /\ buf' \in BufType
        /\ o.reg.cmd # "none" => d = o.drive /\ buf' = o.buf
    BY <1>1, Became
  <1>3. RegFine(reg') BY <1>2 DEF Outcome
  <1> HIDE DEF d
  <1>4. d \in DriveType /\ (d.in => Cur.in) /\ d.track = Cur.track /\ d.side = Cur.side
        /\ d.offset = Cur.offset
    BY <1>2 DEF AtHead
  <1>5. Types' /\ Holds' /\ ~wrong' BY <1>2, <1>3, <1>4, CurKept
  <1> QED BY <1>2, <1>5 DEF d

LEMMA CurHead == ASSUME Types PROVE AtHead(Cur)
  BY Selected DEF AtHead

LEMMA ForceInterruptKeeps == ASSUME Inv, disk' = disk, ForceInterrupt PROVE Inv'
  <1> DEFINE o == [reg |-> Ended(reg, {}), drive |-> Cur, buf |-> buf]
  <1>0. Types BY DEF Inv
  <1>1. Becomes(o) /\ job' = NoJob /\ UNCHANGED <<file, belief, wrong>> BY DEF ForceInterrupt, Media
  <1>2. /\ o.reg = Ended(reg, {}) /\ o.drive = Cur /\ o.buf = buf
        /\ o = [reg |-> o.reg, drive |-> o.drive, buf |-> o.buf]
    OBVIOUS
  <1>3. /\ RegFine(Ended(reg, {})) /\ Ended(reg, {}).status = {} /\ Ended(reg, {}).cmd = "none"
        /\ Ended(reg, {}).count = 0 /\ Ended(reg, {}).script = 0
    BY <1>0, EndedIs DEF Types
  <1> HIDE DEF o
  <1>4. Outcome(o) BY <1>0, <1>2, <1>3, CurHead DEF Outcome, Types
  <1>5. JobFine(job') BY <1>0, <1>1, NoRegisters DEF Types
  <1>6. Types' /\ Holds' /\ ~wrong' /\ reg' = o.reg BY <1>1, <1>4, <1>5, BecameKeeps
  <1>7. job'.op = "none" /\ ~job'.ready BY <1>1 DEF NoJob
  <1>8. Controlled(reg, job)' BY <1>2, <1>3, <1>6, <1>7 DEF Controlled, Live, Carries
  <1> QED BY <1>6, <1>7, <1>8, Idles DEF Inv

LEMMA DrainKeeps == ASSUME Inv, disk' = disk, Drain PROVE Inv'
  <1>1. /\ job.op = "read" /\ job.ready /\ job' = [job EXCEPT !.done = TRUE]
        /\ UNCHANGED <<reg, buf, drive, file, belief, wrong>>
    BY DEF Drain, Media
  <1>2. JobFine(job) /\ RegFine(reg') /\ buf' \in BufType /\ drive' \in [Drives -> DriveType]
    BY <1>1 DEF Inv, Types
  <1>3. job' \in JobType /\ job'.op = "read" /\ job'.ready /\ job'.done /\ job'.stream = job.stream
    BY <1>1, <1>2 DEF JobFine, JobType
  <1>4. JobFine(job') BY <1>1, <1>2, <1>3 DEF JobFine
  <1>5. Types' /\ Holds' /\ ~wrong'
    <2>1. \A d \in Drives : CachedIn(file[d], drive'[d], belief[d]) BY <1>1 DEF Inv, Holds
    <2> QED BY <1>1, <1>2, <1>4, <2>1, HoldsKept
  <1>6. Controlled(reg, job)' BY <1>1, <1>3 DEF Inv, Controlled, Live, Carries
  <1>7. UnderwayIn(Image, Cur, reg, buf, job)' /\ AddressIn(reg, buf, job)'
        /\ TrackIn(Image, Cur, reg, job)' /\ FormatIn(reg, job)'
    BY <1>3 DEF UnderwayIn, Carries, AddressIn, TrackIn, FormatIn
  <1> QED BY <1>5, <1>6, <1>7 DEF Inv

\* What a step tells of the command under way is what its outcome does.
LEMMA Primed ==
  /\ UnderwayIn(Image, Cur, reg, buf, job)' <=> UnderwayIn(Image', Cur', reg', buf', job')
  /\ AddressIn(reg, buf, job)' <=> AddressIn(reg', buf', job')
  /\ TrackIn(Image, Cur, reg, job)' <=> TrackIn(Image', Cur', reg', job')
  /\ FormatIn(reg, job)' <=> FormatIn(reg', job')
  /\ Controlled(reg, job)' <=> Controlled(reg', job')
  OBVIOUS

LEMMA SameImage ==
  ASSUME reg'.sel = reg.sel, file' = file
  PROVE  Image' = Image /\ Cur' = drive'[reg.sel]
  <1>1. Image' = Image BY DEF Image
  <1>2. Cur' = drive'[reg.sel] BY DEF Cur
  <1> QED BY <1>1, <1>2

LEMMA Together ==
  ASSUME Types', Holds', ~wrong', Controlled(reg', job'),
         UnderwayIn(Image', Cur', reg', buf', job'), AddressIn(reg', buf', job'),
         TrackIn(Image', Cur', reg', job'), FormatIn(reg', job')
  PROVE  Inv'
  BY Primed DEF Inv

-----------------------------------------------------------------------------
(* The steps that give a command.                                          *)

\* The drive after the head has sought its track and a sector of it.
Moved(d) == /\ d \in DriveType /\ d.in = Cur.in
            /\ \/ d.track = Cur.track /\ d.side = Cur.side /\ d.offset = Cur.offset
               \/ d.track = reg.track /\ d.side = reg.side /\ d.offset = Offset(Image, Here) /\ d.offset # 0

OnSector(d, id) ==
    /\ d.track = reg.track /\ d.side = reg.side /\ d.sector = id
    /\ Present(Image, d.offset, id) /\ d.at = First(Image, d.offset, id) /\ d.at < Size
    /\ d.size = CodeOn(Image, d.offset) * U /\ d.size >= U /\ Chunk(d) = U

LEMMA Positioned ==
  ASSUME Types, NEW ok \in BOOLEAN, NEW id \in Nat
  PROVE  LET t == TrackSet(ok)
             d == IF OnTrack(t) THEN SectorSought(t, id, ok) ELSE t
         IN  Moved(t) /\ Moved(d) /\ (OnTrack(t) /\ Found(d) => OnSector(d, id))
  <1> DEFINE t == TrackSet(ok)
             s == SectorSought(t, id, ok)
  <1>1. /\ t \in DriveType /\ t.in = Cur.in
        /\ OnTrack(t) => t.track = reg.track /\ t.side = reg.side
        /\ OnTrack(t) /\ ~OnTrack(Cur) => t.offset = Offset(Image, Here) /\ t.offset # 0
        /\ OnTrack(Cur) => t = Cur
        /\ ~OnTrack(t) => t.track = Cur.track /\ t.side = Cur.side /\ t.offset = Cur.offset
    BY TrackSought
  <1> HIDE DEF t
  <1>2. Moved(t) BY <1>1 DEF Moved
  <1>3. /\ s \in DriveType
        /\ s.in = t.in /\ s.track = t.track /\ s.side = t.side /\ s.offset = t.offset
        /\ Found(s) <=> ok /\ Present(Image, t.offset, id)
        /\ Found(s) => /\ s.sector = id /\ s.at = First(Image, t.offset, id) /\ s.at < Size
                       /\ s.size = CodeOn(Image, t.offset) * U /\ s.size >= U /\ Chunk(s) = U
    BY <1>1, Sought
  <1> HIDE DEF s
  <1>4. Moved(s) BY <1>2, <1>3 DEF Moved
  <1>5. OnTrack(t) /\ Found(s) => OnSector(s, id) BY <1>1, <1>3 DEF OnSector
  <1> QED BY <1>2, <1>4, <1>5 DEF t, s

\* The registers when a transfer is asked for, and when its first unit is there.
Asked(cmd, multi) == [Started(cmd) EXCEPT !.multi = multi]

LEMMA Asking ==
  ASSUME RegFine(reg), NEW cmd \in Commands, NEW multi \in BOOLEAN
  PROVE  LET q == Asked(cmd, multi)
         IN  /\ RegFine(q) /\ q.status = {} /\ q.cmd = cmd /\ q.count = 0 /\ q.script = 1
             /\ q.pos = 0 /\ q.polls = 0 /\ q.sel = reg.sel /\ q.track = reg.track /\ q.side = reg.side
  <1> DEFINE c == Commanded(cmd)
             l == Lay(c, {}, 0, 0, 1)
             q == Asked(cmd, multi)
  <1>1. /\ RegFine(c) /\ c.cmd = cmd /\ c.polls = 0
        /\ c.sel = reg.sel /\ c.track = reg.track /\ c.side = reg.side
    BY Commanding
  <1>2. 0 \in 0 .. U - 1 BY Zeros
  <1> HIDE DEF c
  <1>3. /\ RegFine(l) /\ l.status = {} /\ l.cmd = cmd /\ l.count = 0 /\ l.script = 1
        /\ l.pos = 0 /\ l.polls = 0 /\ l.sel = reg.sel /\ l.track = reg.track /\ l.side = reg.side
    BY <1>1, <1>2, Written
  <1>4. q = [l EXCEPT !.multi = multi] BY DEF Asked, Started, Lay, c
  <1> HIDE DEF l, q
  <1>5. l \in RegType BY <1>3 DEF RegFine
  <1>6. q \in RegType BY <1>4, <1>5 DEF RegType
  <1>7. /\ q.status = l.status /\ q.cmd = l.cmd /\ q.count = l.count /\ q.script = l.script
        /\ q.pos = l.pos /\ q.polls = l.polls /\ q.sel = l.sel /\ q.track = l.track /\ q.side = l.side
    BY <1>4, <1>5 DEF RegType
  <1>8. RegFine(q) BY <1>3, <1>6, <1>7 DEF RegFine
  <1> QED BY <1>3, <1>7, <1>8 DEF q

LEMMA Transferring ==
  ASSUME NEW r, RegFine(r), NEW d, d.size \in Nat
  PROVE  LET q == Transfer(r, d)
         IN  /\ RegFine(q) /\ q.status = {Busy, Drq} /\ q.cmd = r.cmd /\ q.count = d.size
             /\ q.script = r.script /\ q.pos = r.pos /\ q.polls = r.polls
             /\ q.sel = r.sel /\ q.track = r.track /\ q.side = r.side
  <1> DEFINE n == d.size
             q == [r EXCEPT !.count = n, !.status = {Busy, Drq}]
  <1>1. r \in RegType /\ n \in Nat /\ {Busy, Drq} \in SUBSET Flags BY DEF RegFine, Flags
  <1>2. Transfer(r, d) = q BY DEF Transfer
  <1> HIDE DEF n
  <1>3. q \in RegType BY <1>1 DEF RegType
  <1>4. /\ q.status = {Busy, Drq} /\ q.cmd = r.cmd /\ q.count = n
        /\ q.script = r.script /\ q.pos = r.pos /\ q.polls = r.polls
        /\ q.sel = r.sel /\ q.track = r.track /\ q.side = r.side
    BY <1>1 DEF RegType
  <1> HIDE DEF q
  <1>5. RegFine(q) BY <1>3, <1>4 DEF RegFine
  <1> QED BY <1>2, <1>4, <1>5 DEF n

AtScript(r, k) == [r EXCEPT !.script = k]

LEMMA Scripted ==
  ASSUME NEW r, RegFine(r), NEW k \in 0 .. 4
  PROVE  LET q == AtScript(r, k)
         IN  /\ RegFine(q) /\ q.status = r.status /\ q.cmd = r.cmd /\ q.count = r.count /\ q.script = k
             /\ q.sel = r.sel /\ q.track = r.track /\ q.side = r.side
  <1> DEFINE q == AtScript(r, k)
  <1>1. r \in RegType BY DEF RegFine
  <1>2. q \in RegType BY <1>1 DEF RegType, AtScript
  <1>3. /\ q.status = r.status /\ q.cmd = r.cmd /\ q.count = r.count /\ q.script = k
        /\ q.sel = r.sel /\ q.track = r.track /\ q.side = r.side
    BY <1>1 DEF RegType, AtScript
  <1> HIDE DEF q
  <1>4. RegFine(q) BY <1>2, <1>3 DEF RegFine
  <1> QED BY <1>3, <1>4 DEF q

\* The flags are apart.
LEMMA FlagsApart == /\ Drq \notin {Busy, NotFound, Crc, Fault, NotReady, Protect, Track0}
                    /\ Busy \notin {Drq, NotFound, Crc, Fault, NotReady, Protect, Track0}
                    /\ Fault \notin {Busy, Drq, NotFound, Crc, NotReady, Protect, Track0}
                    /\ {Busy, Drq, NotFound, Crc, Fault, NotReady, Protect} \subseteq Flags
  BY DEF Busy, Drq, NotFound, Crc, Fault, NotReady, Protect, Track0, Flags

LEMMA Starting ==
  ASSUME RegFine(reg), NEW cmd \in Commands
  PROVE  LET q == Started(cmd)
         IN  /\ RegFine(q) /\ q.status = {} /\ q.cmd = cmd /\ q.count = 0 /\ q.script = 1
             /\ q.sel = reg.sel /\ q.track = reg.track /\ q.side = reg.side
  <1> DEFINE c == Commanded(cmd)
             l == Lay(c, {}, 0, 0, 1)
  <1>1. /\ RegFine(c) /\ c.cmd = cmd
        /\ c.sel = reg.sel /\ c.track = reg.track /\ c.side = reg.side
    BY Commanding
  <1>2. 0 \in 0 .. U - 1 BY Zeros
  <1>3. Started(cmd) = l BY DEF Started, Lay, c
  <1> HIDE DEF c
  <1>4. /\ RegFine(l) /\ l.status = {} /\ l.cmd = cmd /\ l.count = 0 /\ l.script = 1
        /\ l.sel = reg.sel /\ l.track = reg.track /\ l.side = reg.side
    BY <1>1, <1>2, Written
  <1> HIDE DEF l
  <1> QED BY <1>3, <1>4

\* A unit is taken from the image into the buffer.
LEMMA Taking ==
  ASSUME Types, NEW d \in DriveType, Chunk(d) = U, NEW ok \in BOOLEAN
  PROVE  /\ Past(d) \in DriveType /\ Past(d).at = d.at + 1 /\ Past(d).in = d.in /\ Past(d).track = d.track
         /\ Past(d).side = d.side /\ Past(d).offset = d.offset /\ Past(d).size = d.size
         /\ Past(d).sector = d.sector
         /\ Readable(d, ok) => /\ d.at < Size /\ Loaded(d) \in BufType
                               /\ Loaded(d) = Image.units[d.at + 1].bytes
  <1>1. U # 0 BY FloppyAssumption
  <1> DEFINE k == d.at + 1
  <1>2. Past(d) = [d EXCEPT !.at = k] BY <1>1 DEF Past
  <1>3. k \in Nat /\ d.at \in Nat BY DEF DriveType
  <1> HIDE DEF k
  <1>4. /\ Past(d) \in DriveType /\ Past(d).at = k /\ Past(d).in = d.in /\ Past(d).track = d.track
        /\ Past(d).side = d.side /\ Past(d).offset = d.offset /\ Past(d).size = d.size
        /\ Past(d).sector = d.sector
    BY <1>2, <1>3 DEF DriveType
  <1>5. ASSUME Readable(d, ok)
        PROVE  d.at < Size /\ Loaded(d) \in BufType /\ Loaded(d) = Image.units[d.at + 1].bytes
    <2>1. d.at < Size BY <1>1, <1>5 DEF Readable
    <2>2. Loaded(d) = Image.units[d.at + 1].bytes BY <1>1 DEF Loaded, Unit
    <2>3. Image \in ImageType /\ Size = Len(Image.units) /\ Size \in Nat BY Selected
    <2>4. d.at + 1 \in 1 .. Len(Image.units) BY <1>3, <2>1, <2>3
    <2>5. Image.units[d.at + 1] \in UnitType BY <2>3, <2>4 DEF ImageType
    <2>6. Image.units[d.at + 1].bytes \in BufType BY <2>5 DEF UnitType, BufType
    <2> QED BY <2>1, <2>2, <2>6
  <1> QED BY <1>4, <1>5 DEF k

LEMMA Begins ==
  ASSUME Inv, disk' = disk, UNCHANGED <<file, belief, wrong>>,
         NEW d, Moved(d), drive' = [drive EXCEPT ![reg.sel] = d],
         RegFine(reg'), reg'.sel = reg.sel, JobFine(job'), buf' \in BufType
  PROVE  Types' /\ Holds' /\ ~wrong' /\ Image' = Image /\ Cur' = d
  <1>1. d \in DriveType /\ (d.in => Cur.in) BY DEF Moved
  <1>2. Types' /\ Holds' /\ ~wrong' /\ drive'[reg.sel] = d BY <1>1, CurKept DEF Moved
  <1>3. Image' = Image /\ Cur' = drive'[reg.sel] BY SameImage
  <1> QED BY <1>2, <1>3

\* Nothing is asked of a driver whose transfer has no byte to come.
LEMMA NoTransfer ==
  ASSUME NEW r, NEW j, j.op \in {"read", "write"}, ~j.ready, r.cmd \in {"none", j.op},
         r.cmd = "none" \/ r.count = 0,
         r.script # 2, Drq \notin r.status \/ r.script \in {3, 4}
  PROVE  /\ Controlled(r, j) /\ AddressIn(r, buf', j) /\ FormatIn(r, j)
         /\ UnderwayIn(Image', Cur', r, buf', j) /\ TrackIn(Image', Cur', r, j)
  <1>1. ~Live(r, j) BY DEF Live
  <1>2. Controlled(r, j) BY <1>1 DEF Controlled, Carries
  <1>3. UnderwayIn(Image', Cur', r, buf', j) BY <1>1 DEF UnderwayIn
  <1> QED BY <1>2, <1>3 DEF AddressIn, FormatIn, TrackIn

\* At the first byte of a sector.
LEMMA AtFirst ==
  ASSUME NEW image \in ImageType, NEW d \in DriveType, NEW r, RegFine(r), NEW b, NEW j,
         j.op \in {"read", "write"},
         d.in, d.track = r.track, d.side = r.side, d.sector = j.id,
         Present(image, d.offset, j.id), d.size = CodeOn(image, d.offset) * U,
         r.count = d.size, r.pos = 0,
         IF j.op = "read"
         THEN d.at = First(image, d.offset, j.id) + 1 /\ d.at <= Len(image.units) /\ b = image.units[d.at].bytes
         ELSE d.at = First(image, d.offset, j.id)
  PROVE  MovingIn(image, d, r, b, j)
  <1> DEFINE first == First(image, d.offset, j.id)
             k == d.at - (IF j.op = "read" THEN 1 ELSE 0) - first
  <1>1. first \in Nat
    <2>1. d.offset \in Nat BY DEF DriveType
    <2> QED BY <2>1, Found1
  <1>2. d.size \in Nat
    <2>1. r.count \in Nat BY FieldsOf DEF RegFine
    <2> QED BY <2>1
  <1> HIDE DEF first
  <1>3. k = 0 BY <1>1 DEF first
  <1>4. r.count + k * U + r.pos = d.size
    <2>1. 0 * U = 0 BY FloppyAssumption
    <2> HIDE DEF k
    <2> QED BY <1>2, <1>3, <2>1
  <1>5. j.op = "write" =>
              /\ \A i \in 0 .. r.pos - 1 : b[i] = j.byte
              /\ \A p \in first + 1 .. d.at : \A i \in 0 .. U - 1 : image.units[p].bytes[i] = j.byte
    <2>1. j.op = "write" => d.at = first BY DEF first
    <2>2. \A i \in 0 .. r.pos - 1 : FALSE OBVIOUS
    <2>3. j.op = "write" => \A p \in first + 1 .. d.at : FALSE BY <1>1, <2>1
    <2> QED BY <2>2, <2>3
  <1>6. k >= 0 BY <1>3
  <1> QED BY <1>3, <1>4, <1>5, <1>6 DEF MovingIn, first

LEMMA ReadSectorKeeps ==
  ASSUME Inv, disk' = disk, NEW multi \in BOOLEAN, ReadSector(multi) PROVE Inv'
  <1>0. Types /\ RegFine(reg) /\ buf \in BufType BY DEF Inv, Types
  <1>1. /\ Image \in ImageType /\ Cur \in DriveType /\ reg.sector \in Nat /\ reg.sel \in Drives
        /\ drive \in [Drives -> DriveType] /\ Works \subseteq BOOLEAN /\ Size = Len(Image.units) /\ Size \in Nat
    BY <1>0, Selected DEF Types
  <1> DEFINE T(ok) == TrackSet(ok)
             D(ok) == IF OnTrack(T(ok)) THEN SectorSought(T(ok), reg.sector, ok) ELSE T(ok)
             r == Asked("read", multi)
  <1>2. PICK ok \in BOOLEAN, ok2 \in BOOLEAN :
            \/ ~Cur.in /\ reg' = Refused(Started("read"), {NotReady}) /\ UNCHANGED <<buf, drive>>
            \/ /\ Cur.in /\ CurBecomes(D(ok))
               /\ reg' = [r EXCEPT !.script = 3] /\ UNCHANGED buf
            \/ /\ Cur.in /\ OnTrack(T(ok)) /\ Found(D(ok))
               /\ IF Readable(D(ok), ok2)
                  THEN reg' = Transfer(r, D(ok)) /\ buf' = Loaded(D(ok)) /\ CurBecomes(Past(D(ok)))
                  ELSE /\ reg' = Refused([r EXCEPT !.cmd = "none"], {Crc})
                       /\ CurBecomes(D(ok)) /\ UNCHANGED buf
    <2> HIDE DEF T
    <2>1. \E ok \in Works, ok2 \in Works :
            \/ ~Cur.in /\ reg' = Refused(Started("read"), {NotReady}) /\ UNCHANGED <<buf, drive>>
            \/ /\ Cur.in /\ CurBecomes(D(ok))
               /\ reg' = [r EXCEPT !.script = 3] /\ UNCHANGED buf
            \/ /\ Cur.in /\ OnTrack(T(ok)) /\ Found(D(ok))
               /\ IF Readable(D(ok), ok2)
                  THEN reg' = Transfer(r, D(ok)) /\ buf' = Loaded(D(ok)) /\ CurBecomes(Past(D(ok)))
                  ELSE /\ reg' = Refused([r EXCEPT !.cmd = "none"], {Crc})
                       /\ CurBecomes(D(ok)) /\ UNCHANGED buf
      BY DEF ReadSector, Asked, T
    <2> HIDE DEF D, r
    <2> QED BY <1>1, <2>1
  <1> DEFINE t == T(ok)
             d == D(ok)
  <1>3. /\ job' = NewJob("read", reg.sector, multi, 0)
        /\ UNCHANGED <<file, belief, wrong>>
    BY DEF ReadSector, Media, NewJob, NoJob
  <1>4. JobFine(job') /\ job'.op = "read" /\ job'.id = reg.sector /\ ~job'.ready /\ ~job'.done
    <2>1. 0 \in Int OBVIOUS
    <2> HIDE DEF T, D, r, t, d
    <2> QED BY <1>1, <1>3, <2>1, JobOf
  <1>5. Moved(t) /\ Moved(d) /\ (OnTrack(t) /\ Found(d) => OnSector(d, reg.sector))
    BY <1>0, <1>1, Positioned
  <1>6. /\ RegFine(r) /\ r.status = {} /\ r.cmd = "read" /\ r.count = 0 /\ r.script = 1
        /\ r.pos = 0 /\ r.polls = 0 /\ r.sel = reg.sel /\ r.track = reg.track /\ r.side = reg.side
    BY <1>0, Asking DEF Commands
  <1> HIDE DEF T, D, r, t, d
  <1>7. CASE ~Cur.in /\ reg' = Refused(Started("read"), {NotReady}) /\ UNCHANGED <<buf, drive>>
    <2>1. /\ RegFine(Started("read")) /\ Started("read").cmd = "read" /\ Started("read").count = 0
          /\ Started("read").script = 1 /\ Started("read").sel = reg.sel
      BY <1>0, Starting DEF Commands
    <2>2. /\ RegFine(reg') /\ reg'.status = {NotReady} /\ reg'.cmd = "read" /\ reg'.count = 0
          /\ reg'.script = 1 /\ reg'.sel = reg.sel
      BY <1>7, <2>1, Refuses DEF Flags
    <2>3. Moved(Cur) /\ drive' = [drive EXCEPT ![reg.sel] = Cur] BY <1>1, <1>7 DEF Moved, Cur
    <2>4. Types' /\ Holds' /\ ~wrong' BY <1>0, <1>3, <1>4, <1>7, <2>2, <2>3, Begins
    <2> QED BY <1>4, <2>2, <2>4, NoTransfer, Together, FlagsApart
  <1>8. CASE Cur.in /\ CurBecomes(d) /\ reg' = [r EXCEPT !.script = 3] /\ UNCHANGED buf
    <2>0. reg' = AtScript(r, 3) BY <1>8 DEF AtScript
    <2>1. /\ RegFine(reg') /\ reg'.cmd = "read" /\ reg'.count = 0 /\ reg'.script = 3 /\ reg'.sel = reg.sel
      BY <1>6, <2>0, Scripted
    <2>2. Types' /\ Holds' /\ ~wrong' BY <1>0, <1>3, <1>4, <1>5, <1>8, <2>1, Begins DEF CurBecomes
    <2> QED BY <1>4, <2>1, <2>2, NoTransfer, Together
  <1>9. CASE /\ Cur.in /\ OnTrack(t) /\ Found(d)
             /\ Readable(d, ok2) /\ reg' = Transfer(r, d) /\ buf' = Loaded(d) /\ CurBecomes(Past(d))
    <2>1. OnSector(d, reg.sector) /\ d \in DriveType /\ d.in BY <1>5, <1>9 DEF Moved
    <2>2. Chunk(d) = U BY <2>1 DEF OnSector
    <2>3. /\ Past(d) \in DriveType /\ Past(d).at = d.at + 1 /\ Past(d).in = d.in /\ Past(d).track = d.track
          /\ Past(d).side = d.side /\ Past(d).offset = d.offset /\ Past(d).size = d.size
          /\ Past(d).sector = d.sector
          /\ d.at < Size /\ Loaded(d) \in BufType /\ Loaded(d) = Image.units[d.at + 1].bytes
      BY <1>0, <1>9, <2>1, <2>2, Taking
    <2>4. d.size \in Nat /\ d.size # 0 /\ d.offset \in Nat /\ d.at \in Nat
      <3>1. CodeOn(Image, d.offset) \in Nat \ {0} BY <1>1, <2>1, Found1 DEF OnSector, DriveType
      <3>2. d.size \in Nat BY <2>1, <3>1, Sizes DEF OnSector
      <3> QED BY <2>1, <3>2, FloppyAssumption DEF OnSector, DriveType
    <2>5. /\ RegFine(reg') /\ reg'.status = {Busy, Drq} /\ reg'.cmd = "read" /\ reg'.count = d.size
          /\ reg'.script = 1 /\ reg'.pos = 0 /\ reg'.polls = 0
          /\ reg'.sel = reg.sel /\ reg'.track = reg.track /\ reg'.side = reg.side
      BY <1>6, <1>9, <2>4, Transferring
    <2>6. Moved(Past(d)) BY <1>5, <2>3 DEF Moved
    <2>7. Types' /\ Holds' /\ ~wrong' /\ Image' = Image /\ Cur' = Past(d)
      BY <1>0, <1>3, <1>4, <1>9, <2>3, <2>5, <2>6, Begins DEF CurBecomes
    <2>8. MovingIn(Image, Past(d), reg', buf', job')
      <3>1. /\ Past(d).in /\ Past(d).track = reg'.track /\ Past(d).side = reg'.side
            /\ Past(d).sector = job'.id /\ Present(Image, Past(d).offset, job'.id)
            /\ Past(d).size = CodeOn(Image, Past(d).offset) * U /\ reg'.count = Past(d).size
            /\ Past(d).at = First(Image, Past(d).offset, job'.id) + 1
        BY <1>4, <2>1, <2>3, <2>5 DEF OnSector
      <3>2. Past(d).at <= Len(Image.units) /\ buf' = Image.units[Past(d).at].bytes
        BY <1>1, <1>9, <2>3, <2>4
      <3> QED BY <1>1, <1>4, <2>3, <2>5, <3>1, <3>2, AtFirst
    <2>9. Controlled(reg', job') BY <1>4, <2>4, <2>5, FlagsApart DEF Controlled, Live, Carries
    <2>10. UnderwayIn(Image', Cur', reg', buf', job') BY <2>7, <2>8 DEF UnderwayIn
    <2>11. AddressIn(reg', buf', job') /\ TrackIn(Image', Cur', reg', job') /\ FormatIn(reg', job')
      BY <1>4 DEF AddressIn, TrackIn, FormatIn
    <2> QED BY <2>7, <2>9, <2>10, <2>11, Together
  <1>10. CASE Cur.in /\ reg' = Refused([r EXCEPT !.cmd = "none"], {Crc}) /\ CurBecomes(d) /\ UNCHANGED buf
    <2> DEFINE q == [r EXCEPT !.cmd = "none"]
    <2>1. RegFine(q) /\ q.cmd = "none" /\ q.count = 0 /\ q.script = 1 /\ q.sel = reg.sel
      <3>1. r \in RegType BY <1>6 DEF RegFine
      <3>2. q \in RegType BY <3>1 DEF RegType, Commands
      <3>3. q.cmd = "none" /\ q.count = r.count /\ q.script = r.script /\ q.sel = r.sel
            /\ q.track = r.track /\ q.side = r.side
        BY <3>1 DEF RegType
      <3> HIDE DEF q
      <3> QED BY <1>6, <3>2, <3>3 DEF RegFine
    <2>5. reg' = Refused(q, {Crc}) BY <1>10
    <2> HIDE DEF q
    <2>2. /\ RegFine(reg') /\ reg'.status = {Crc} /\ reg'.cmd = "none" /\ reg'.count = 0
          /\ reg'.script = 1 /\ reg'.sel = reg.sel
      BY <2>1, <2>5, Refuses DEF Flags
    <2>3. Types' /\ Holds' /\ ~wrong' BY <1>0, <1>3, <1>4, <1>5, <1>10, <2>2, Begins DEF CurBecomes
    <2> QED BY <1>4, <2>2, <2>3, NoTransfer, Together, FlagsApart
  <1> QED BY <1>2, <1>7, <1>8, <1>9, <1>10 DEF t, d

LEMMA WriteSectorKeeps ==
  ASSUME Inv, disk' = disk, NEW multi \in BOOLEAN, NEW byte \in Data, WriteSector(multi, byte) PROVE Inv'
  <1>0. Types /\ RegFine(reg) /\ buf \in BufType BY DEF Inv, Types
  <1>1. /\ Image \in ImageType /\ Cur \in DriveType /\ reg.sector \in Nat /\ reg.sel \in Drives
        /\ drive \in [Drives -> DriveType] /\ Works \subseteq BOOLEAN /\ Size = Len(Image.units) /\ Size \in Nat
    BY <1>0, Selected DEF Types
  <1> DEFINE T(ok) == TrackSet(ok)
             D(ok) == IF OnTrack(T(ok)) THEN SectorSought(T(ok), reg.sector, ok) ELSE T(ok)
             r == Asked("write", multi)
  <1>2. PICK ok \in BOOLEAN :
            \/ ~Cur.in /\ reg' = Refused(Started("write"), {NotReady}) /\ UNCHANGED drive
            \/ reg' = Refused(Started("none"), {Protect}) /\ UNCHANGED drive
            \/ /\ Cur.in /\ CurBecomes(D(ok))
               /\ reg' = IF OnTrack(T(ok)) /\ Found(D(ok)) THEN Transfer(r, D(ok)) ELSE [r EXCEPT !.script = 3]
    <2> HIDE DEF T
    <2>1. \E ok \in Works :
            \/ ~Cur.in /\ reg' = Refused(Started("write"), {NotReady}) /\ UNCHANGED drive
            \/ reg' = Refused(Started("none"), {Protect}) /\ UNCHANGED drive
            \/ /\ Cur.in /\ CurBecomes(D(ok))
               /\ reg' = IF OnTrack(T(ok)) /\ Found(D(ok)) THEN Transfer(r, D(ok)) ELSE [r EXCEPT !.script = 3]
      BY DEF WriteSector, Asked, T
    <2> HIDE DEF D, r
    <2> QED BY <1>1, <2>1
  <1> DEFINE t == T(ok)
             d == D(ok)
  <1>3. /\ job' = NewJob("write", reg.sector, multi, byte)
        /\ UNCHANGED <<buf, file, belief, wrong>>
    BY DEF WriteSector, Media, NewJob, NoJob
  <1>4. JobFine(job') /\ job'.op = "write" /\ job'.id = reg.sector /\ ~job'.ready /\ ~job'.done
    <2>1. byte \in Int BY FloppyAssumption
    <2> HIDE DEF T, D, r, t, d
    <2> QED BY <1>1, <1>3, <2>1, JobOf
  <1>5. Moved(t) /\ Moved(d) /\ (OnTrack(t) /\ Found(d) => OnSector(d, reg.sector))
    BY <1>0, <1>1, Positioned
  <1>6. /\ RegFine(r) /\ r.status = {} /\ r.cmd = "write" /\ r.count = 0 /\ r.script = 1
        /\ r.pos = 0 /\ r.sel = reg.sel /\ r.track = reg.track /\ r.side = reg.side
    BY <1>0, Asking DEF Commands
  <1>c. buf' \in BufType BY <1>0, <1>3
  <1> HIDE DEF T, D, r, t, d
  <1>7. ASSUME NEW cmd \in {"write", "none"}, NEW st \in {{NotReady}, {Protect}},
               reg' = Refused(Started(cmd), st), UNCHANGED drive
        PROVE  Inv'
    <2>1. /\ RegFine(Started(cmd)) /\ Started(cmd).cmd = cmd /\ Started(cmd).count = 0
          /\ Started(cmd).script = 1 /\ Started(cmd).sel = reg.sel
      BY <1>0, Starting DEF Commands
    <2>2. /\ RegFine(reg') /\ reg'.status = st /\ reg'.cmd = cmd /\ reg'.count = 0
          /\ reg'.script = 1 /\ reg'.sel = reg.sel
      BY <1>7, <2>1, Refuses DEF Flags
    <2>3. Moved(Cur) /\ drive' = [drive EXCEPT ![reg.sel] = Cur] BY <1>1, <1>7 DEF Moved, Cur
    <2>4. Types' /\ Holds' /\ ~wrong' BY <1>0, <1>3, <1>4, <1>c, <2>2, <2>3, Begins
    <2>5. Drq \notin st BY FlagsApart
    <2> QED BY <1>4, <2>2, <2>4, <2>5, NoTransfer, Together
  <1>8. CASE Cur.in /\ CurBecomes(d) /\ reg' = [r EXCEPT !.script = 3]
    <2>0. reg' = AtScript(r, 3) BY <1>8 DEF AtScript
    <2>1. /\ RegFine(reg') /\ reg'.cmd = "write" /\ reg'.count = 0 /\ reg'.script = 3 /\ reg'.sel = reg.sel
      BY <1>6, <2>0, Scripted
    <2>2. Types' /\ Holds' /\ ~wrong' BY <1>0, <1>3, <1>4, <1>5, <1>8, <1>c, <2>1, Begins DEF CurBecomes
    <2> QED BY <1>4, <2>1, <2>2, NoTransfer, Together
  <1>9. CASE Cur.in /\ CurBecomes(d) /\ OnTrack(t) /\ Found(d) /\ reg' = Transfer(r, d)
    <2>1. OnSector(d, reg.sector) /\ d \in DriveType /\ d.in BY <1>5, <1>9 DEF Moved
    <2>4. d.size \in Nat /\ d.size # 0 /\ d.offset \in Nat /\ d.at \in Nat
      <3>1. CodeOn(Image, d.offset) \in Nat \ {0} BY <1>1, <2>1, Found1 DEF OnSector, DriveType
      <3>2. d.size \in Nat BY <2>1, <3>1, Sizes DEF OnSector
      <3> QED BY <2>1, <3>2, FloppyAssumption DEF OnSector, DriveType
    <2>5. /\ RegFine(reg') /\ reg'.status = {Busy, Drq} /\ reg'.cmd = "write" /\ reg'.count = d.size
          /\ reg'.script = 1 /\ reg'.pos = 0
          /\ reg'.sel = reg.sel /\ reg'.track = reg.track /\ reg'.side = reg.side
      BY <1>6, <1>9, <2>4, Transferring
    <2>7. Types' /\ Holds' /\ ~wrong' /\ Image' = Image /\ Cur' = d
      BY <1>0, <1>3, <1>4, <1>5, <1>9, <1>c, <2>5, Begins DEF CurBecomes
    <2>8. MovingIn(Image, d, reg', buf', job')
      <3>1. /\ d.track = reg'.track /\ d.side = reg'.side
            /\ d.sector = job'.id /\ Present(Image, d.offset, job'.id)
            /\ d.size = CodeOn(Image, d.offset) * U /\ reg'.count = d.size
            /\ d.at = First(Image, d.offset, job'.id)
        BY <1>4, <2>1, <2>5 DEF OnSector
      <3> QED BY <1>1, <1>4, <2>1, <2>5, <3>1, AtFirst
    <2>9. Controlled(reg', job') BY <1>4, <2>4, <2>5, FlagsApart DEF Controlled, Live, Carries
    <2>10. UnderwayIn(Image', Cur', reg', buf', job') BY <2>7, <2>8 DEF UnderwayIn
    <2>11. AddressIn(reg', buf', job') /\ TrackIn(Image', Cur', reg', job') /\ FormatIn(reg', job')
      BY <1>4 DEF AddressIn, TrackIn, FormatIn
    <2> QED BY <2>7, <2>9, <2>10, <2>11, Together
  <1> QED BY <1>2, <1>7, <1>8, <1>9 DEF t, d

\* A command that takes or gives no sector.
LEMMA NoSector ==
  ASSUME NEW r, NEW j, j.op \notin {"none", "read", "write"}, r.cmd \in {"none", j.op}
  PROVE  Controlled(r, j) /\ UnderwayIn(Image', Cur', r, buf', j)
  BY DEF Controlled, UnderwayIn, Carries

LEMMA ReadAddressKeeps == ASSUME Inv, disk' = disk, ReadAddress PROVE Inv'
  <1>0. Types /\ RegFine(reg) /\ buf \in BufType BY DEF Inv, Types
  <1>1. /\ Image \in ImageType /\ Cur \in DriveType /\ reg.sel \in Drives
        /\ drive \in [Drives -> DriveType] /\ Works \subseteq BOOLEAN
    BY <1>0, Selected DEF Types
  <1> DEFINE T(ok) == TrackSet(ok)
             D(ok) == IF OnTrack(T(ok)) /\ (T(ok).sector = 0 \/ T(ok).size = 0)
                      THEN SectorSought(T(ok), 1, ok) ELSE T(ok)
             r == Commanded("address")
             Told(d) == [r EXCEPT !.sector = d.sector, !.count = 2, !.pos = 0, !.status = {Busy, Drq}, !.script = 1]
  <1>2. PICK ok \in BOOLEAN :
            \/ reg' = Refused(r, {NotReady}) /\ UNCHANGED <<buf, drive>>
            \/ CurBecomes(D(ok)) /\ reg' = r /\ UNCHANGED buf
            \/ /\ CurBecomes(D(ok)) /\ OnTrack(T(ok)) /\ reg' = Told(D(ok))
               /\ buf' = [buf EXCEPT ![0] = D(ok).track, ![1] = D(ok).sector]
    <2> HIDE DEF T
    <2>1. \E ok \in Works :
            \/ reg' = Refused(r, {NotReady}) /\ UNCHANGED <<buf, drive>>
            \/ CurBecomes(D(ok)) /\ reg' = r /\ UNCHANGED buf
            \/ /\ CurBecomes(D(ok)) /\ OnTrack(T(ok)) /\ reg' = Told(D(ok))
               /\ buf' = [buf EXCEPT ![0] = D(ok).track, ![1] = D(ok).sector]
      BY DEF ReadAddress, T
    <2> HIDE DEF D, r, Told
    <2> QED BY <1>1, <2>1
  <1> DEFINE t == T(ok)
             d == D(ok)
  <1>3. /\ job' = PlainJob("address") /\ UNCHANGED <<file, belief, wrong>>
    BY DEF ReadAddress, Media, PlainJob
  <1>4. JobFine(job') /\ job'.op = "address" /\ ~job'.ready /\ ~job'.done
    <2> HIDE DEF T, D, r, t, d, Told
    <2> QED BY <1>3, Plain
  <1>5. Moved(d) /\ (OnTrack(t) => d.track = reg.track)
    <2>1. 1 \in Nat OBVIOUS
    <2>2. Moved(t) BY <1>0, <2>1, Positioned
    <2>3. t \in DriveType /\ (OnTrack(t) => t.track = reg.track) BY <1>0, TrackSought
    <2> DEFINE s == SectorSought(t, 1, ok)
    <2> HIDE DEF T, t
    <2>4. s \in DriveType /\ s.in = t.in /\ s.track = t.track /\ s.side = t.side /\ s.offset = t.offset
      BY <1>0, <2>1, <2>3, Sought
    <2>5. d = s \/ d = t BY DEF t
    <2> HIDE DEF d, s
    <2> QED BY <2>2, <2>3, <2>4, <2>5 DEF Moved
  <1>6. /\ RegFine(r) /\ r.cmd = "address" /\ r.sel = reg.sel /\ r.track = reg.track /\ r.side = reg.side
        /\ r.count = 0
    <2>1. Idle BY DEF ReadAddress
    <2>2. reg.count = 0 BY <2>1 DEF Inv, Controlled, Idle
    <2> QED BY <1>0, <2>2, Commanding DEF Commands
  <1> HIDE DEF T, D, r, t, d
  <1>7. CASE reg' = Refused(r, {NotReady}) /\ UNCHANGED <<buf, drive>>
    <2>1. RegFine(reg') /\ reg'.cmd = "address" /\ reg'.count = 0 /\ reg'.sel = reg.sel
      BY <1>6, <1>7, Refuses DEF Flags
    <2>2. Moved(Cur) /\ drive' = [drive EXCEPT ![reg.sel] = Cur] BY <1>1, <1>7 DEF Moved, Cur
    <2>3. Types' /\ Holds' /\ ~wrong' BY <1>0, <1>3, <1>4, <1>7, <2>1, <2>2, Begins
    <2>4. AddressIn(reg', buf', job') /\ TrackIn(Image', Cur', reg', job') /\ FormatIn(reg', job')
      BY <1>4, <2>1 DEF AddressIn, TrackIn, FormatIn
    <2> QED BY <1>4, <2>1, <2>3, <2>4, NoSector, Together
  <1>8. CASE CurBecomes(d) /\ reg' = r /\ UNCHANGED buf
    <2>1. RegFine(reg') /\ reg'.cmd = "address" /\ reg'.count = 0 /\ reg'.sel = reg.sel BY <1>6, <1>8
    <2>3. Types' /\ Holds' /\ ~wrong' BY <1>0, <1>3, <1>4, <1>5, <1>8, <2>1, Begins DEF CurBecomes
    <2>4. AddressIn(reg', buf', job') /\ TrackIn(Image', Cur', reg', job') /\ FormatIn(reg', job')
      BY <1>4, <2>1 DEF AddressIn, TrackIn, FormatIn
    <2> QED BY <1>4, <2>1, <2>3, <2>4, NoSector, Together
  <1>9. CASE /\ CurBecomes(d) /\ OnTrack(t) /\ reg' = Told(d)
             /\ buf' = [buf EXCEPT ![0] = d.track, ![1] = d.sector]
    <2>1. d.track \in 0 .. MaxTrack /\ d.sector \in Nat BY <1>5 DEF Moved, DriveType
    <2>2. MaxTrack \in Nat BY <1>0, Disks DEF Types
    <2>3. buf' \in BufType /\ buf'[0] = d.track
      <3>1. 0 \in 0 .. U - 1 /\ 1 \in 0 .. U - 1 /\ 0 # 1 BY FloppyAssumption
      <3>2. d.track \in Byte /\ d.sector \in Byte BY <2>1, <2>2 DEF Byte
      <3> HIDE DEF Told
      <3> QED BY <1>0, <1>9, <3>1, <3>2 DEF BufType
    <2>4. RegFine(reg') /\ reg'.cmd = "address" /\ reg'.sel = reg.sel /\ reg'.track = reg.track
      <3>1. reg' = [Lay(r, {Busy, Drq}, 2, 0, 1) EXCEPT !.sector = d.sector] BY <1>9 DEF Lay
      <3> DEFINE l == Lay(r, {Busy, Drq}, 2, 0, 1)
                 sec == d.sector
      <3>2. /\ RegFine(l) /\ l.cmd = "address" /\ l.sel = reg.sel /\ l.track = reg.track /\ l.side = reg.side
        BY <1>6, Zeros, Written, FlagsApart
      <3>3. sec \in Nat /\ reg' = [l EXCEPT !.sector = sec] BY <2>1, <3>1
      <3> HIDE DEF l, sec, Told
      <3>4. l \in RegType BY <3>2 DEF RegFine
      <3>5. reg' \in RegType BY <3>3, <3>4 DEF RegType
      <3>6. reg'.cmd = l.cmd /\ reg'.sel = l.sel /\ reg'.track = l.track /\ reg'.side = l.side
        BY <3>3, <3>4 DEF RegType
      <3> QED BY <3>2, <3>5, <3>6 DEF RegFine
    <2> HIDE DEF Told
    <2>5. Types' /\ Holds' /\ ~wrong' BY <1>0, <1>3, <1>4, <1>5, <1>9, <2>3, <2>4, Begins DEF CurBecomes
    <2>6. AddressIn(reg', buf', job') BY <1>5, <1>9, <2>3, <2>4 DEF AddressIn
    <2>7. TrackIn(Image', Cur', reg', job') /\ FormatIn(reg', job') BY <1>4 DEF TrackIn, FormatIn
    <2> QED BY <1>4, <2>4, <2>5, <2>6, <2>7, NoSector, Together
  <1> QED BY <1>2, <1>7, <1>8, <1>9 DEF t, d

Marking(r, st, m) == [r EXCEPT !.stage = st, !.marks = m]

LEMMA MarkingIs ==
  ASSUME NEW r, RegFine(r), NEW st \in 0 .. 4, NEW m \in Nat
  PROVE  LET q == Marking(r, st, m)
         IN  /\ RegFine(q) /\ q.stage = st /\ q.marks = m /\ q.cmd = r.cmd /\ q.count = r.count
             /\ q.ids = r.ids /\ q.sel = r.sel /\ q.track = r.track /\ q.side = r.side
  <1> DEFINE q == Marking(r, st, m)
  <1>1. r \in RegType BY DEF RegFine
  <1>2. q \in RegType BY <1>1 DEF RegType, Marking
  <1>3. /\ q.stage = st /\ q.marks = m /\ q.cmd = r.cmd /\ q.count = r.count
        /\ q.ids = r.ids /\ q.sel = r.sel /\ q.track = r.track /\ q.side = r.side
    BY <1>1 DEF RegType, Marking
  <1> HIDE DEF q
  <1>4. RegFine(q) BY <1>2, <1>3 DEF RegFine
  <1> QED BY <1>3, <1>4 DEF q

Listing(r, rest, ids) == [r EXCEPT !.rest = rest, !.ids = ids]

LEMMA ListingIs ==
  ASSUME NEW r \in RegType, NEW rest \in Nat, NEW ids \in Seq(Nat)
  PROVE  LET q == Listing(r, rest, ids)
         IN  /\ q \in RegType /\ q.phase = r.phase /\ q.idx = r.idx /\ q.rest = rest /\ q.ids = ids
             /\ q.cmd = r.cmd /\ q.sel = r.sel /\ q.track = r.track /\ q.side = r.side
  BY DEF RegType, Listing

\* The registers when a track is about to be read.
Tracking(r, ids, code, n) ==
    [r EXCEPT !.status = {Busy, Drq}, !.phase = 0, !.idx = 1, !.rest = 0, !.ids = ids, !.code = code, !.count = n]

LEMMA TrackingIs ==
  ASSUME NEW r, RegFine(r), NEW ids \in Seq(Nat), NEW code \in Nat, NEW n \in Nat
  PROVE  LET q == Tracking(r, ids, code, n)
         IN  /\ RegFine(q) /\ q.phase = 0 /\ q.idx = 1 /\ q.rest = 0 /\ q.ids = ids /\ q.code = code
             /\ q.count = n /\ q.cmd = r.cmd /\ q.sel = r.sel /\ q.track = r.track /\ q.side = r.side
  <1> DEFINE q == Tracking(r, ids, code, n)
             a == [r EXCEPT !.status = {Busy, Drq}, !.phase = 0, !.idx = 1]
             b == [a EXCEPT !.rest = 0, !.ids = ids]
  <1>1. r \in RegType /\ {Busy, Drq} \in SUBSET Flags /\ 0 \in 0 .. 2 BY DEF RegFine, Flags
  <1>4. q = [b EXCEPT !.code = code, !.count = n] BY DEF Tracking
  <1> HIDE DEF q
  <1>5. /\ a \in RegType /\ a.phase = 0 /\ a.idx = 1
        /\ a.cmd = r.cmd /\ a.sel = r.sel /\ a.track = r.track /\ a.side = r.side
    BY <1>1 DEF RegType
  <1> HIDE DEF a
  <1>8. b = Listing(a, 0, ids) BY DEF Listing
  <1>6. /\ b \in RegType /\ b.phase = 0 /\ b.idx = 1 /\ b.rest = 0 /\ b.ids = ids
        /\ b.cmd = r.cmd /\ b.sel = r.sel /\ b.track = r.track /\ b.side = r.side
    <2> DEFINE z == 0
               c == Listing(a, z, ids)
    <2>1. z \in Nat /\ z = 0 OBVIOUS
    <2>2. b = c BY <1>8
    <2> HIDE DEF b, z
    <2>3. /\ c \in RegType /\ c.phase = a.phase /\ c.idx = a.idx /\ c.rest = z /\ c.ids = ids
          /\ c.cmd = a.cmd /\ c.sel = a.sel /\ c.track = a.track /\ c.side = a.side
      BY <1>5, <2>1, ListingIs
    <2> HIDE DEF c
    <2> QED BY <1>5, <2>1, <2>2, <2>3
  <1> HIDE DEF b
  <1>2. q \in RegType BY <1>4, <1>6 DEF RegType
  <1>3. /\ q.phase = 0 /\ q.idx = 1 /\ q.rest = 0 /\ q.ids = ids /\ q.code = code
        /\ q.count = n /\ q.cmd = r.cmd /\ q.sel = r.sel /\ q.track = r.track /\ q.side = r.side
    BY <1>4, <1>6 DEF RegType
  <1>7. RegFine(q) BY <1>2, <1>3 DEF RegFine
  <1> QED BY <1>3, <1>7 DEF q

LEMMA Without ==
  ASSUME NEW r, RegFine(r)
  PROVE  LET q == [r EXCEPT !.cmd = "none"]
         IN  /\ RegFine(q) /\ q.cmd = "none" /\ q.count = r.count /\ q.script = r.script
             /\ q.sel = r.sel /\ q.track = r.track /\ q.side = r.side
  <1> DEFINE q == [r EXCEPT !.cmd = "none"]
  <1>1. r \in RegType BY DEF RegFine
  <1>2. q \in RegType BY <1>1 DEF RegType, Commands
  <1>3. /\ q.cmd = "none" /\ q.count = r.count /\ q.script = r.script
        /\ q.sel = r.sel /\ q.track = r.track /\ q.side = r.side
    BY <1>1 DEF RegType
  <1> HIDE DEF q
  <1>4. RegFine(q) BY <1>2, <1>3 DEF RegFine
  <1> QED BY <1>3, <1>4 DEF q

LEMMA ReadTrackKeeps == ASSUME Inv, disk' = disk, ReadTrack PROVE Inv'
  <1>0. Types /\ RegFine(reg) /\ buf \in BufType BY DEF Inv, Types
  <1>1. /\ Image \in ImageType /\ Cur \in DriveType /\ reg.sel \in Drives /\ Size = Len(Image.units)
        /\ drive \in [Drives -> DriveType] /\ Works \subseteq BOOLEAN /\ Size \in Nat
    BY <1>0, Selected DEF Types
  <1> DEFINE D(ok) == TrackSet(ok)
             H(ok) == HeaderAt(D(ok).offset)
             r == [Commanded("track") EXCEPT !.count = 0, !.pos = 0, !.script = 1]
             N(ok) == 1 + Len(H(ok).ids) * (1 + H(ok).code * U)
  <1>2. PICK ok \in BOOLEAN :
            \/ reg' = Refused(r, {NotReady}) /\ UNCHANGED drive
            \/ CurBecomes(D(ok)) /\ reg' = Refused([r EXCEPT !.cmd = "none"], {NotFound})
            \/ /\ Cur.in /\ OnTrack(D(ok)) /\ Len(H(ok).ids) > 0 /\ H(ok).code # 0 /\ D(ok).offset + 1 < Size
               /\ reg' = Tracking(r, H(ok).ids, H(ok).code, N(ok))
               /\ CurBecomes([D(ok) EXCEPT !.at = D(ok).offset + 1])
    <2> HIDE DEF D
    <2>1. \E ok \in Works :
            \/ reg' = Refused(r, {NotReady}) /\ UNCHANGED drive
            \/ CurBecomes(D(ok)) /\ reg' = Refused([r EXCEPT !.cmd = "none"], {NotFound})
            \/ /\ Cur.in /\ OnTrack(D(ok)) /\ Len(H(ok).ids) > 0 /\ H(ok).code # 0 /\ D(ok).offset + 1 < Size
               /\ reg' = Tracking(r, H(ok).ids, H(ok).code, N(ok))
               /\ CurBecomes([D(ok) EXCEPT !.at = D(ok).offset + 1])
      BY DEF ReadTrack, D, Tracking
    <2> HIDE DEF H, N, r
    <2> QED BY <1>1, <2>1
  <1> DEFINE d == D(ok)
             h == H(ok)
             n == N(ok)
  <1>3. job' = PlainJob("track") /\ UNCHANGED <<buf, file, belief, wrong>>
    BY DEF ReadTrack, Media, PlainJob
  <1>4. JobFine(job') /\ job'.op = "track" /\ ~job'.ready /\ ~job'.done
    <2> HIDE DEF D, H, N, r, d, h, n
    <2> QED BY <1>3, Plain
  <1>5. /\ Moved(d) /\ d \in DriveType /\ d.in = Cur.in /\ (OnTrack(d) => d.track = reg.track /\ d.side = reg.side)
    BY <1>0, TrackSought, Positioned
  <1>6. /\ RegFine(r) /\ r.cmd = "track" /\ r.sel = reg.sel /\ r.track = reg.track /\ r.side = reg.side
        /\ r.count = 0
    <2> DEFINE c == Commanded("track")
    <2>1. RegFine(c) /\ c.cmd = "track" /\ c.sel = reg.sel /\ c.track = reg.track /\ c.side = reg.side
      BY <1>0, Commanding DEF Commands
    <2>2. c.status \in SUBSET Flags /\ 0 \in 0 .. U - 1 BY <2>1, Zeros, FieldsOf DEF RegFine
    <2>3. r = Lay(c, c.status, 0, 0, 1)
      <3>1. c \in RegType BY <2>1 DEF RegFine
      <3> HIDE DEF c
      <3>2. [c EXCEPT !.status = c.status] = c BY <3>1 DEF RegType
      <3>3. Lay(c, c.status, 0, 0, 1) = [[c EXCEPT !.status = c.status] EXCEPT !.count = 0, !.pos = 0, !.script = 1]
        BY DEF Lay
      <3> QED BY <3>2, <3>3 DEF c
    <2> HIDE DEF c, r
    <2> QED BY <2>1, <2>2, <2>3, Written
  <1>7. buf' \in BufType BY <1>0, <1>3
  <1>8. AddressIn(reg', buf', job') /\ FormatIn(reg', job') BY <1>4 DEF AddressIn, FormatIn
  <1>9. /\ h = HeaderOf(Image, d.offset) /\ h.ids \in Seq(Nat) /\ h.code \in Nat
    <2>1. h = HeaderOf(Image, d.offset) BY <1>1 DEF HeaderAt, HeaderOf, Unit, Size
    <2>2. d.offset \in Nat BY <1>5 DEF DriveType
    <2> HIDE DEF h, D, H, N, r, d
    <2> QED BY <1>1, <2>1, <2>2, HeaderFine
  <1>10. n = 1 + Len(h.ids) * (1 + h.code * U) OBVIOUS
  <1> HIDE DEF D, H, N, r, d, h, n
  <1>11. CASE reg' = Refused(r, {NotReady}) /\ UNCHANGED drive
    <2>1. RegFine(reg') /\ reg'.cmd = "track" /\ reg'.count = 0 /\ reg'.sel = reg.sel
      BY <1>6, <1>11, Refuses DEF Flags
    <2>2. Moved(Cur) /\ drive' = [drive EXCEPT ![reg.sel] = Cur] BY <1>1, <1>11 DEF Moved, Cur
    <2>3. Types' /\ Holds' /\ ~wrong' BY <1>0, <1>3, <1>4, <1>7, <2>1, <2>2, Begins
    <2>4. TrackIn(Image', Cur', reg', job') BY <1>4, <2>1 DEF TrackIn
    <2> QED BY <1>4, <1>8, <2>1, <2>3, <2>4, NoSector, Together
  <1>12. CASE CurBecomes(d) /\ reg' = Refused([r EXCEPT !.cmd = "none"], {NotFound})
    <2> DEFINE q == [r EXCEPT !.cmd = "none"]
    <2>1. RegFine(q) /\ q.cmd = "none" /\ q.sel = reg.sel BY <1>6, Without
    <2>2. reg' = Refused(q, {NotFound}) BY <1>12
    <2> HIDE DEF q
    <2>3. RegFine(reg') /\ reg'.cmd = "none" /\ reg'.sel = reg.sel BY <2>1, <2>2, Refuses DEF Flags
    <2>4. Types' /\ Holds' /\ ~wrong' BY <1>0, <1>3, <1>4, <1>5, <1>7, <1>12, <2>3, Begins DEF CurBecomes
    <2>5. TrackIn(Image', Cur', reg', job') BY <1>4, <2>3 DEF TrackIn
    <2> QED BY <1>4, <1>8, <2>3, <2>4, <2>5, NoSector, Together
  <1>13. CASE /\ Cur.in /\ OnTrack(d) /\ Len(h.ids) > 0 /\ h.code # 0 /\ d.offset + 1 < Size
              /\ reg' = Tracking(r, h.ids, h.code, n)
              /\ CurBecomes([d EXCEPT !.at = d.offset + 1])
    <2> DEFINE k == d.offset + 1
               e == [d EXCEPT !.at = k]
    <2>1. d.offset \in Nat /\ k \in Nat BY <1>5 DEF DriveType
    <2>2. drive' = [drive EXCEPT ![reg.sel] = e] BY <1>13 DEF CurBecomes
    <2> HIDE DEF k
    <2>3. e \in DriveType /\ e.at = k /\ e.in = d.in /\ e.track = d.track /\ e.side = d.side
          /\ e.offset = d.offset
      BY <1>5, <2>1 DEF DriveType
    <2> HIDE DEF e
    <2>4. Moved(e) BY <1>5, <2>3 DEF Moved
    <2>5. n \in Nat
      <3> DEFINE x == h.code * U
                 l == Len(h.ids)
      <3>1. x \in Nat BY <1>9, Sizes
      <3>2. l \in Nat BY <1>9
      <3>3. n = 1 + l * (1 + x) BY <1>10
      <3> HIDE DEF x, l
      <3> QED BY <3>1, <3>2, <3>3
    <2>6. /\ RegFine(reg') /\ reg'.phase = 0 /\ reg'.idx = 1 /\ reg'.ids = h.ids /\ reg'.code = h.code
          /\ reg'.count = n /\ reg'.cmd = "track" /\ reg'.sel = reg.sel /\ reg'.track = reg.track
          /\ reg'.side = reg.side
      BY <1>6, <1>9, <1>13, <2>5, TrackingIs
    <2>7. Types' /\ Holds' /\ ~wrong' /\ Image' = Image /\ Cur' = e
      BY <1>0, <1>3, <1>4, <1>7, <2>2, <2>4, <2>6, Begins
    <2>8. TrackIn(Image, e, reg', job')
      <3>1. e.in /\ e.track = reg'.track /\ e.side = reg'.side /\ e.offset < Len(Image.units)
        BY <1>1, <1>5, <1>13, <2>1, <2>3, <2>6
      <3>2. /\ HeaderOf(Image, e.offset).ids = reg'.ids /\ CodeOn(Image, e.offset) = reg'.code /\ reg'.code # 0
        BY <1>9, <1>13, <2>3, <2>6 DEF CodeOn
      <3>3. e.at = e.offset + 1 + (reg'.idx - 1) * reg'.code
        <4> DEFINE c == reg'.code
        <4>1. c \in Nat /\ reg'.idx = 1 /\ e.at = e.offset + 1 /\ e.offset \in Nat BY <1>9, <2>1, <2>3, <2>6 DEF k
        <4> HIDE DEF c
        <4>2. (1 - 1) * c = 0 BY <4>1
        <4>3. e.offset + 1 + (1 - 1) * c = e.at BY <4>1, <4>2
        <4> QED BY <4>1, <4>3 DEF c
      <3>4. reg'.count = 1 + Len(reg'.ids) * (1 + reg'.code * U) BY <1>10, <2>6
      <3> QED BY <2>6, <3>1, <3>2, <3>3, <3>4 DEF TrackIn
    <2> QED BY <1>4, <1>8, <2>6, <2>7, <2>8, NoSector, Together
  <1> QED BY <1>2, <1>11, <1>12, <1>13 DEF d, h, n

LEMMA WriteTrackKeeps ==
  ASSUME Inv, disk' = disk, NEW layout \in disk[reg.sel].layouts, WriteTrack(layout) PROVE Inv'
  <1>0. Types /\ RegFine(reg) /\ buf \in BufType BY DEF Inv, Types
  <1> DEFINE c == Commanded("format")
             r == [c EXCEPT !.script = 1]
             q(st) == [Refused(r, st) EXCEPT !.cmd = "none", !.errint = TRUE]
  <1>1. /\ \/ \E st \in {{NotReady}, {Protect}} : reg' = q(st)
           \/ reg' = [r EXCEPT !.stage = 0, !.marks = 0, !.count = 0, !.pos = 0, !.status = {Busy, Drq}]
        /\ job' = [NoJob EXCEPT !.op = "format", !.stream = Stream(layout)]
        /\ UNCHANGED <<buf, drive, file, belief, wrong>>
    BY DEF WriteTrack, Media
  <1>2. RegFine(c) /\ c.cmd = "format" /\ c.sel = reg.sel BY <1>0, Commanding DEF Commands
  <1>3. r \in RegType /\ r.cmd = "format" /\ r.sel = reg.sel /\ RegFine(r)
    <2>1. r = AtScript(c, 1) BY DEF AtScript
    <2> HIDE DEF r, c
    <2>2. RegFine(r) /\ r.cmd = "format" /\ r.sel = reg.sel BY <1>2, <2>1, Scripted
    <2> QED BY <2>2 DEF RegFine
  <1> HIDE DEF c, r
  <1>4. RegFine(reg') /\ reg'.cmd \in {"none", "format"} /\ (reg'.cmd = "format" => reg'.stage = 0)
    <2>1. ASSUME NEW st \in {{NotReady}, {Protect}}, reg' = q(st)
          PROVE  RegFine(reg') /\ reg'.cmd = "none"
      <3> DEFINE p == Refused(r, st)
      <3>1. RegFine(p) BY <1>3, Refuses DEF Flags
      <3>2. reg' = [p EXCEPT !.cmd = "none", !.errint = TRUE] BY <2>1
      <3> HIDE DEF p, q
      <3>3. p \in RegType BY <3>1 DEF RegFine
      <3>4. reg' \in RegType BY <3>2, <3>3 DEF RegType, Commands
      <3>5. reg'.cmd = "none" /\ reg'.track = p.track /\ reg'.side = p.side BY <3>2, <3>3 DEF RegType
      <3> QED BY <3>1, <3>4, <3>5 DEF RegFine
    <2>2. CASE reg' = [r EXCEPT !.stage = 0, !.marks = 0, !.count = 0, !.pos = 0, !.status = {Busy, Drq}]
      <3> DEFINE l == Lay(r, {Busy, Drq}, 0, 0, r.script)
      <3>1. 0 \in 0 .. U - 1 /\ {Busy, Drq} \in SUBSET Flags /\ r.script \in 0 .. 4
        BY <1>3, Zeros, FieldsOf DEF Flags
      <3>2. reg' = Marking(l, 0, 0)
        <4>1. [r EXCEPT !.script = r.script] = r BY <1>3 DEF RegType
        <4>2. l = [[r EXCEPT !.script = r.script] EXCEPT !.status = {Busy, Drq}, !.count = 0, !.pos = 0]
          BY DEF Lay
        <4> QED BY <2>2, <4>1, <4>2 DEF Marking
      <3>3. RegFine(l) /\ l.cmd = r.cmd BY <1>3, <3>1, Written
      <3> HIDE DEF q, l
      <3>4. 0 \in 0 .. 4 /\ 0 \in Nat OBVIOUS
      <3>5. /\ RegFine(Marking(l, 0, 0)) /\ Marking(l, 0, 0).stage = 0
            /\ Marking(l, 0, 0).cmd = l.cmd
        BY <3>3, <3>4, MarkingIs
      <3> QED BY <1>3, <3>2, <3>3, <3>5
    <2> QED BY <1>1, <2>1, <2>2
  <1>5. JobFine(job') /\ job'.op = "format"
    <2> DEFINE s == Stream(layout)
    <2>1. layout \in LayoutType
      <3>1. disk \in Setups /\ reg.sel \in Drives BY <1>0, Selected
      <3>2. disk[reg.sel].layouts \subseteq LayoutType BY <3>1, Disks
      <3> QED BY <3>2
    <2>2. s \in Seq(Int) /\ Marked(s) /\ s # <<>> BY <2>1, StreamFine DEF Fine
    <2>3. job' = [NoJob EXCEPT !.op = "format", !.stream = s] BY <1>1
    <2> HIDE DEF s, q
    <2>4. NoJob \in JobType /\ ~NoJob.done BY DEF NoJob, JobType, Commands
    <2>5. job' \in JobType BY <2>2, <2>3, <2>4 DEF JobType, Commands
    <2>6. job'.op = "format" /\ job'.stream = s /\ ~job'.done BY <2>3, <2>4 DEF JobType
    <2> QED BY <2>2, <2>5, <2>6 DEF JobFine
  <1> HIDE DEF q
  <1>6. Types' /\ Holds' /\ ~wrong'
    <2>1. buf' \in BufType /\ drive' \in [Drives -> DriveType]
          /\ \A d \in Drives : CachedIn(file[d], drive'[d], belief[d])
      BY <1>1 DEF Inv, Types, Holds
    <2> QED BY <1>1, <1>4, <1>5, <2>1, HoldsKept
  <1>7. AddressIn(reg', buf', job') /\ TrackIn(Image', Cur', reg', job') /\ FormatIn(reg', job')
    BY <1>4, <1>5 DEF AddressIn, TrackIn, FormatIn
  <1> QED BY <1>4, <1>5, <1>6, <1>7, NoSector, Together

-----------------------------------------------------------------------------
(* The steps that take or give a byte.                                     *)

\* A command goes on to the next sector, or finds none, or fails to read it.
Afoot(o, r) == o.reg.cmd = r.cmd /\ o.reg.status = r.status /\ o.reg.polls = r.polls
GivenUp(o, r) == Afoot(o, r) /\ o.reg.script = 4 /\ o.reg.count = r.count
Failed(o) == o.reg.cmd = "none" /\ o.reg.count = 0 /\ o.reg.script = 0 /\ o.reg.status = {Crc}
ToNext(o, r, d) ==
    LET id == d.sector + 1
        first == First(Image, d.offset, id)
    IN  /\ Afoot(o, r) /\ o.reg.script = 2 /\ o.reg.pos = 0
        /\ o.reg.count = o.drive.size /\ o.reg.count >= U
        /\ o.drive.sector = id /\ Present(Image, d.offset, id) /\ o.drive.size = CodeOn(Image, d.offset) * U
        /\ IF r.cmd = "read"
           THEN o.drive.at = first + 1 /\ o.drive.at <= Size /\ o.buf = Image.units[o.drive.at].bytes
           ELSE o.drive.at = first

LEMMA ToSector ==
  ASSUME NEW r, RegFine(r), NEW n \in Nat
  PROVE  LET q == [r EXCEPT !.sector = n]
         IN  /\ RegFine(q) /\ q.status = r.status /\ q.cmd = r.cmd /\ q.count = r.count /\ q.script = r.script
             /\ q.polls = r.polls /\ q.pos = r.pos /\ q.sel = r.sel /\ q.track = r.track /\ q.side = r.side
  <1> DEFINE q == [r EXCEPT !.sector = n]
  <1>1. r \in RegType BY DEF RegFine
  <1>2. q \in RegType BY <1>1 DEF RegType
  <1>3. /\ q.status = r.status /\ q.cmd = r.cmd /\ q.count = r.count /\ q.script = r.script
        /\ q.polls = r.polls /\ q.pos = r.pos /\ q.sel = r.sel /\ q.track = r.track /\ q.side = r.side
    BY <1>1 DEF RegType
  <1> HIDE DEF q
  <1>4. RegFine(q) BY <1>2, <1>3 DEF RegFine
  <1> QED BY <1>3, <1>4 DEF q

LEMMA AdvancedIs ==
  ASSUME Types, NEW r, RegFine(r), NEW d, AtHead(d), NEW ok \in BOOLEAN, NEW ok2 \in BOOLEAN
  PROVE  LET o == Advanced(r, d, ok, ok2)
         IN  /\ Outcome(o) /\ o.reg.sel = r.sel /\ o.reg.track = r.track /\ o.reg.side = r.side
             /\ GivenUp(o, r) \/ (r.cmd = "read" /\ Failed(o)) \/ ToNext(o, r, d)
  <1> DEFINE o == Advanced(r, d, ok, ok2)
             n == d.sector
             id == n + 1
             s == SectorSought(d, id, ok)
             t == [r EXCEPT !.sector = id]
             u == [r EXCEPT !.sector = n]
             reading == r.cmd = "read"
  <1>1. d \in DriveType /\ n \in Nat BY DEF AtHead, DriveType
  <1>2. id \in Nat BY <1>1
  <1>3. o = IF ~Found(s) THEN [reg |-> [r EXCEPT !.sector = n, !.script = 4], drive |-> s, buf |-> buf]
            ELSE IF reading /\ ~Readable(s, ok2)
            THEN [reg |-> Ended(t, {Crc}), drive |-> s, buf |-> buf]
            ELSE [reg |-> [t EXCEPT !.count = s.size, !.pos = 0, !.script = 2],
                  drive |-> IF reading THEN Past(s) ELSE s, buf |-> IF reading THEN Loaded(s) ELSE buf]
    BY DEF Advanced
  <1>4. id = d.sector + 1 OBVIOUS
  <1>5. /\ RegFine(t) /\ t.status = r.status /\ t.cmd = r.cmd /\ t.count = r.count
        /\ t.polls = r.polls /\ t.sel = r.sel /\ t.track = r.track /\ t.side = r.side
    BY <1>2, ToSector
  <1>6. /\ RegFine(u) /\ u.status = r.status /\ u.cmd = r.cmd /\ u.count = r.count
        /\ u.polls = r.polls /\ u.sel = r.sel /\ u.track = r.track /\ u.side = r.side
    BY <1>1, ToSector
  <1>7. [r EXCEPT !.sector = n, !.script = 4] = AtScript(u, 4) BY DEF AtScript
  <1> HIDE DEF n, id, t, u, o
  <1>8. /\ s \in DriveType
        /\ s.in = d.in /\ s.track = d.track /\ s.side = d.side /\ s.offset = d.offset
        /\ Found(s) => /\ Present(Image, d.offset, id) /\ s.sector = id
                       /\ s.at = First(Image, d.offset, id) /\ s.at < Size
                       /\ s.size = CodeOn(Image, d.offset) * U /\ s.size >= U /\ Chunk(s) = U
    BY <1>1, <1>2, Sought
  <1> HIDE DEF s
  <1>9. AtHead(s) BY <1>8 DEF AtHead
  <1>10. buf \in BufType /\ disk \in Setups /\ 0 \in 0 .. U - 1 BY Zeros DEF Types
  <1>11. CASE ~Found(s)
    <2>1. o = [reg |-> AtScript(u, 4), drive |-> s, buf |-> buf] BY <1>3, <1>7, <1>11
    <2>2. /\ o.reg = AtScript(u, 4) /\ o.drive = s /\ o.buf = buf
          /\ o = [reg |-> o.reg, drive |-> o.drive, buf |-> o.buf]
      BY <2>1
    <2>3. /\ RegFine(AtScript(u, 4)) /\ AtScript(u, 4).status = u.status /\ AtScript(u, 4).cmd = u.cmd
          /\ AtScript(u, 4).count = u.count /\ AtScript(u, 4).script = 4 /\ AtScript(u, 4).sel = u.sel
          /\ AtScript(u, 4).track = u.track /\ AtScript(u, 4).side = u.side
      BY <1>6, Scripted
    <2>4. AtScript(u, 4).polls = u.polls BY <1>6 DEF AtScript, RegFine, RegType
    <2> QED BY <1>6, <1>9, <1>10, <2>2, <2>3, <2>4 DEF Outcome, GivenUp, Afoot, o
  <1>12. CASE Found(s) /\ reading /\ ~Readable(s, ok2)
    <2>1. o = [reg |-> Ended(t, {Crc}), drive |-> s, buf |-> buf] BY <1>3, <1>12
    <2>2. /\ o.reg = Ended(t, {Crc}) /\ o.drive = s /\ o.buf = buf
          /\ o = [reg |-> o.reg, drive |-> o.drive, buf |-> o.buf]
      BY <2>1
    <2>3. {Crc} \in SUBSET Flags BY DEF Flags
    <2>4. /\ RegFine(o.reg) /\ o.reg.status = {Crc} /\ o.reg.cmd = "none" /\ o.reg.count = 0
          /\ o.reg.script = 0 /\ o.reg.sel = t.sel /\ o.reg.track = t.track /\ o.reg.side = t.side
      BY <1>5, <1>10, <2>2, <2>3, EndedIs
    <2> QED BY <1>5, <1>9, <1>10, <1>12, <2>2, <2>4 DEF Outcome, Failed, o
  <1>13. CASE Found(s) /\ ~(reading /\ ~Readable(s, ok2))
    <2> DEFINE z == s.size
               q == Lay(t, t.status, z, 0, 2)
    <2>1. [t EXCEPT !.count = z, !.pos = 0, !.script = 2] = q
      <3>1. [t EXCEPT !.status = t.status] = t BY <1>5 DEF RegFine, RegType
      <3> HIDE DEF z
      <3>2. q = [[t EXCEPT !.status = t.status] EXCEPT !.count = z, !.pos = 0, !.script = 2]
        BY DEF Lay
      <3> QED BY <3>1, <3>2
    <2>2. o = [reg |-> q, drive |-> IF reading THEN Past(s) ELSE s, buf |-> IF reading THEN Loaded(s) ELSE buf]
      BY <1>3, <1>13, <2>1
    <2>3. /\ o.reg = q /\ o.drive = (IF reading THEN Past(s) ELSE s)
          /\ o.buf = (IF reading THEN Loaded(s) ELSE buf)
          /\ o = [reg |-> o.reg, drive |-> o.drive, buf |-> o.buf]
      <3> DEFINE dd == IF reading THEN Past(s) ELSE s
                 bb == IF reading THEN Loaded(s) ELSE buf
      <3>1. o = [reg |-> q, drive |-> dd, buf |-> bb] BY <2>2
      <3> HIDE DEF q, dd, bb
      <3>2. /\ o.reg = q /\ o.drive = dd /\ o.buf = bb
            /\ o = [reg |-> o.reg, drive |-> o.drive, buf |-> o.buf]
        BY <3>1
      <3> QED BY <3>2 DEF dd, bb
    <2>4. z \in Nat
      <3>1. Image \in ImageType /\ d.offset \in Nat BY <1>1, Selected DEF DriveType
      <3>2. CodeOn(Image, d.offset) \in Nat BY <3>1, HeaderFine DEF CodeOn
      <3> QED BY <1>8, <1>13, <3>2, Sizes
    <2>5. t.status \in SUBSET Flags BY <1>5, FieldsOf DEF RegFine
    <2> HIDE DEF z
    <2>6. /\ RegFine(q) /\ q.status = t.status /\ q.cmd = t.cmd /\ q.count = z /\ q.script = 2
          /\ q.pos = 0 /\ q.polls = t.polls /\ q.sel = t.sel /\ q.track = t.track /\ q.side = t.side
      BY <1>5, <1>10, <2>4, <2>5, Written
    <2> HIDE DEF q
    <2>7. CASE reading
      <3>1. /\ Past(s) \in DriveType /\ Past(s).at = s.at + 1 /\ Past(s).in = s.in /\ Past(s).track = s.track
            /\ Past(s).side = s.side /\ Past(s).offset = s.offset /\ Past(s).size = s.size
            /\ Past(s).sector = s.sector
            /\ s.at < Size /\ Loaded(s) \in BufType /\ Loaded(s) = Image.units[s.at + 1].bytes
        BY <1>8, <1>13, <2>7, Taking
      <3>2. AtHead(Past(s)) BY <1>9, <3>1 DEF AtHead
      <3>3. o.drive = Past(s) /\ o.buf = Loaded(s) BY <2>3, <2>7
      <3>4. s.at + 1 <= Size
        <4>1. s.at \in Nat /\ Size \in Nat BY <1>8, Selected DEF DriveType
        <4> QED BY <3>1, <4>1
      <3>5. Outcome(o) BY <2>3, <2>6, <3>1, <3>2, <3>3 DEF Outcome
      <3>6. ToNext(o, r, d) BY <1>4, <1>5, <1>8, <1>13, <2>3, <2>6, <2>7, <3>1, <3>3, <3>4 DEF ToNext, Afoot, z
      <3> QED BY <1>5, <2>3, <2>6, <3>5, <3>6 DEF o
    <2>8. CASE ~reading
      <3>3. o.drive = s /\ o.buf = buf BY <2>3, <2>8
      <3>5. Outcome(o) BY <1>9, <1>10, <2>3, <2>6, <3>3 DEF Outcome
      <3>6. ToNext(o, r, d) BY <1>4, <1>5, <1>8, <1>13, <2>3, <2>6, <2>8, <3>3 DEF ToNext, Afoot, z
      <3> QED BY <1>5, <2>3, <2>6, <3>5, <3>6 DEF o
    <2> QED BY <2>7, <2>8
  <1> QED BY <1>11, <1>12, <1>13

\* Registers that differ in what a status read changes alone.
Alike(q, r) ==
    /\ q.cmd = r.cmd /\ q.count = r.count /\ q.pos = r.pos /\ q.sel = r.sel /\ q.track = r.track /\ q.side = r.side
    /\ q.stage = r.stage /\ q.marks = r.marks /\ q.ids = r.ids /\ q.code = r.code /\ q.phase = r.phase
    /\ q.idx = r.idx /\ q.rest = r.rest
Likewise(k, j) == k.op = j.op /\ k.id = j.id /\ k.byte = j.byte /\ k.done = j.done /\ k.stream = j.stream

LEMMA AlikeIn ==
  ASSUME NEW q, NEW r, Alike(q, r), NEW k, NEW j, Likewise(k, j), NEW i, NEW d, NEW b
  PROVE  /\ UnderwayIn(i, d, r, b, j) => UnderwayIn(i, d, q, b, k)
         /\ AddressIn(r, b, j) => AddressIn(q, b, k)
         /\ TrackIn(i, d, r, j) => TrackIn(i, d, q, k)
         /\ FormatIn(r, j) => FormatIn(q, k)
         /\ Carries(k) <=> Carries(j)
         /\ Live(q, k) <=> Live(r, j)
  <1>1. MovingIn(i, d, r, b, j) => MovingIn(i, d, q, b, k) BY DEF MovingIn, Alike, Likewise
  <1>2. (Carries(k) <=> Carries(j)) /\ (Live(q, k) <=> Live(r, j)) BY DEF Carries, Live, Alike, Likewise
  <1>3. UnderwayIn(i, d, r, b, j) => UnderwayIn(i, d, q, b, k) BY <1>1, <1>2 DEF UnderwayIn
  <1>4. AddressIn(r, b, j) => AddressIn(q, b, k) BY DEF AddressIn, Alike, Likewise
  <1>5. TrackIn(i, d, r, j) => TrackIn(i, d, q, k) BY DEF TrackIn, Alike, Likewise
  <1>6. FormatIn(r, j) => FormatIn(q, k) BY DEF FormatIn, Alike, Likewise
  <1> QED BY <1>2, <1>3, <1>4, <1>5, <1>6

LEMMA AfterIs ==
  ASSUME NEW r, RegFine(r)
  PROVE  LET q == After(r)
         IN  /\ RegFine(q) /\ Alike(q, r) /\ q.polls = r.polls /\ q.script = 0
             /\ r.script \in {0, 1} => q.status = r.status
             /\ r.script = 2 => q.status = {Busy, Drq}
             /\ r.script \in {3, 4} => Drq \notin q.status
  <1> DEFINE st == CASE r.script = 2 -> {Busy, Drq}
                     [] r.script = 3 -> {NotFound, Crc}
                     [] r.script = 4 -> {}
                     [] OTHER -> r.status
             q == [r EXCEPT !.script = 0, !.status = st]
  <1>1. r \in RegType /\ r.status \in SUBSET Flags /\ r.script \in 0 .. 4 BY FieldsOf DEF RegFine
  <1>2. After(r) = q BY DEF After
  <1>3. /\ st \in SUBSET Flags
        /\ r.script \in {0, 1} => st = r.status
        /\ r.script = 2 => st = {Busy, Drq}
        /\ r.script \in {3, 4} => Drq \notin st
    <2>1. CASE r.script \in {0, 1}
      <3>1. st = r.status BY <2>1
      <3> QED BY <1>1, <2>1, <3>1
    <2>2. CASE r.script = 2 BY <2>2 DEF Flags
    <2>3. CASE r.script = 3 BY <2>3, FlagsApart
    <2>4. CASE r.script = 4 BY <2>4
    <2> QED BY <1>1, <2>1, <2>2, <2>3, <2>4
  <1> HIDE DEF st
  <1>4. q \in RegType
    <2> DEFINE p == [r EXCEPT !.script = 0]
    <2>1. q = [p EXCEPT !.status = st] OBVIOUS
    <2>2. p \in RegType
      <3>1. 0 \in 0 .. 4 OBVIOUS
      <3>2. RegFine(AtScript(r, 0)) BY <3>1, Scripted
      <3> QED BY <3>2 DEF AtScript, RegFine
    <2> HIDE DEF p, q
    <2> QED BY <1>3, <2>1, <2>2 DEF RegType
  <1>5. Alike(q, r) BY <1>1 DEF RegType, Alike
  <1>6. q.polls = r.polls /\ q.script = 0 /\ q.status = st BY <1>1 DEF RegType
  <1> HIDE DEF q
  <1>7. RegFine(q) BY <1>4, <1>5 DEF RegFine, Alike
  <1> QED BY <1>2, <1>3, <1>5, <1>6, <1>7

\* A poll acknowledges /INT and may be counted.
LEMMA Acked ==
  ASSUME NEW r, RegFine(r), NEW p \in 0 .. MaxPolls
  PROVE  LET q == [r EXCEPT !.errint = FALSE]
             c == [q EXCEPT !.polls = p]
         IN  /\ RegFine(q) /\ Alike(q, r) /\ q.status = r.status /\ q.script = r.script /\ q.polls = r.polls
             /\ q.multi = r.multi
             /\ RegFine(c) /\ Alike(c, r) /\ c.status = r.status /\ c.script = r.script /\ c.polls = p
             /\ c.multi = r.multi
  <1> DEFINE q == [r EXCEPT !.errint = FALSE]
             c == [q EXCEPT !.polls = p]
  <1>1. r \in RegType BY DEF RegFine
  <1>2. q \in RegType BY <1>1 DEF RegType
  <1>3. Alike(q, r) BY <1>1 DEF RegType, Alike
  <1>4. q.status = r.status /\ q.script = r.script /\ q.polls = r.polls /\ q.multi = r.multi BY <1>1 DEF RegType
  <1> HIDE DEF q
  <1>5. c \in RegType BY <1>2 DEF RegType
  <1>6. Alike(c, q) BY <1>2 DEF RegType, Alike
  <1>7. c.status = q.status /\ c.script = q.script /\ c.polls = p /\ c.multi = q.multi BY <1>2 DEF RegType
  <1> HIDE DEF c
  <1>8. Alike(c, r) BY <1>3, <1>6 DEF Alike
  <1>9. RegFine(q) /\ RegFine(c) BY <1>2, <1>3, <1>5, <1>8 DEF RegFine, Alike
  <1> QED BY <1>3, <1>4, <1>7, <1>8, <1>9 DEF q, c

LEMMA Answering ==
  ASSUME JobFine(job), NEW st
  PROVE  LET a == Answered(st)
         IN  /\ JobFine(a)
             /\ \/ a = NoJob
                \/ Likewise(a, job) /\ a = job /\ st = {Busy}
                \/ Likewise(a, job) /\ a.ready /\ {Busy, Drq} \subseteq st
  <1> DEFINE a == Answered(st)
             b == [job EXCEPT !.ready = TRUE]
  <1>1. JobFine(NoJob)
    <2>1. <<>> \in Seq(Int) OBVIOUS
    <2> QED BY <2>1 DEF NoJob, JobFine, JobType, Commands
  <1>2. job \in JobType BY DEF JobFine
  <1>3. b \in JobType BY <1>2 DEF JobType
  <1>4. Likewise(b, job) /\ b.ready BY <1>2 DEF JobType, Likewise
  <1> HIDE DEF b
  <1>5. JobFine(b) BY <1>3, <1>4 DEF JobFine, Likewise
  <1>6. Likewise(job, job) BY DEF Likewise
  <1>7. \/ a = b /\ {Busy, Drq} \subseteq st
        \/ a = job /\ st = {Busy}
        \/ a = NoJob
    BY DEF Answered, b
  <1> HIDE DEF a
  <1> QED BY <1>1, <1>4, <1>5, <1>6, <1>7 DEF a

LEMMA WithReg ==
  ASSUME NEW o, Outcome(o), NEW q, RegFine(q)
  PROVE  LET e == [o EXCEPT !.reg = q]
         IN  Outcome(e) /\ e.reg = q /\ e.drive = o.drive /\ e.buf = o.buf
  <1> DEFINE d == o.drive
             b == o.buf
             r == o.reg
             e == [o EXCEPT !.reg = q]
  <1>1. o = [reg |-> r, drive |-> d, buf |-> b] /\ b \in BufType /\ AtHead(d) BY DEF Outcome
  <1> HIDE DEF d, b, r
  <1>2. e = [reg |-> q, drive |-> d, buf |-> b] BY <1>1
  <1> HIDE DEF e
  <1>3. e.reg = q /\ e.drive = d /\ e.buf = b BY <1>2
  <1>4. Outcome(e) BY <1>1, <1>2, <1>3 DEF Outcome
  <1> QED BY <1>3, <1>4 DEF e, d, b

\* The answer to a status read in a command that no byte is asked or given of.
LEMMA Polled ==
  ASSUME Inv, ~Idle, ~job.ready \/ job.done, NEW q, RegFine(q), Alike(q, reg),
         q.status = reg.status, q.script = reg.script,
         q.polls = reg.polls \/ q.polls = 0 \/ q.polls = reg.polls + 1,
         NEW a, a = Answered(Shown(q)), a # NoJob
  PROVE  Controlled(After(q), a)
  <1> DEFINE e == After(q)
  <1>1. /\ RegFine(e) /\ Alike(e, q) /\ e.polls = q.polls /\ e.script = 0
        /\ q.script \in {0, 1} => e.status = q.status
        /\ q.script = 2 => e.status = {Busy, Drq}
        /\ q.script \in {3, 4} => Drq \notin e.status
    BY AfterIs
  <1> HIDE DEF e
  <1>2. Alike(e, reg) /\ q.script \in 0 .. 4 /\ reg.polls \in Nat /\ e.polls \in Nat
    <2>1. q.script \in 0 .. 4 /\ reg.polls \in 0 .. MaxPolls /\ e.polls \in 0 .. MaxPolls
      BY <1>1, FieldsOf DEF RegFine, Inv, Types
    <2> QED BY <1>1, <2>1 DEF Alike
  <1>3. JobFine(job) BY DEF Inv, Types
  <1>4. /\ JobFine(a) /\ Likewise(a, job)
        /\ \/ a = job /\ Shown(q) = {Busy}
           \/ a.ready /\ {Busy, Drq} \subseteq Shown(q)
    BY <1>3, Answering
  <1>5. a.op = job.op /\ a.op # "none" BY <1>4 DEF Likewise, Idle
  <1>6. e.cmd \in {"none", a.op} BY <1>2, <1>5 DEF Inv, Controlled, Alike
  <1>7. ASSUME Carries(a)
        PROVE  /\ Live(e, a) => {Busy, Drq} \subseteq e.status
               /\ Drq \in e.status => Live(e, a)
               /\ a.ready => Drq \in e.status
               /\ a.op = "read" /\ ~a.ready /\ Live(e, a) => e.polls <= 1
    <2>1. Carries(job) /\ (Live(e, a) <=> Live(reg, job)) BY <1>2, <1>4, <1>7, AlikeIn
    <2>2. ~job.ready BY <2>1 DEF Carries
    <2>3. /\ Live(reg, job) => q.script = 2 \/ (q.script \in {0, 1} /\ {Busy, Drq} \subseteq q.status)
          /\ q.script = 2 \/ (q.script \in {0, 1} /\ Drq \in q.status) => Live(reg, job)
          /\ job.op = "read" /\ Live(reg, job) => reg.polls <= 1 /\ (q.script # 0 => reg.polls = 0)
      BY <2>1, <2>2 DEF Inv, Controlled
    <2>4. /\ q.script = 0 => Shown(q) = q.status
          /\ q.script = 1 => Shown(q) = q.status \cup {Busy}
          /\ q.script \in {2, 3} => Shown(q) = {Busy}
          /\ q.script = 4 => Shown(q) = {Busy, NotFound}
      BY DEF Shown
    <2>5. Live(e, a) => {Busy, Drq} \subseteq e.status BY <1>1, <2>1, <2>3
    <2>6. Drq \in e.status => Live(e, a) BY <1>1, <1>2, <2>1, <2>3
    <2>7. a.ready => Drq \in e.status
      <3>1. a.ready => Drq \in Shown(q) BY <1>4, <2>2
      <3> QED BY <1>1, <1>2, <2>4, <3>1, FlagsApart
    <2>8. ASSUME a.op = "read", ~a.ready, Live(e, a) PROVE e.polls <= 1
      <3>1. Shown(q) = {Busy} /\ Live(reg, job) /\ job.op = "read" BY <1>4, <1>5, <2>1, <2>8
      <3>2. q.script = 2 BY <2>3, <2>4, <3>1, FlagsApart
      <3>3. reg.polls = 0 BY <2>3, <3>1, <3>2
      <3> QED BY <1>1, <3>3
    <2> QED BY <2>5, <2>6, <2>7, <2>8
  <1>8. Controlled(e, a) BY <1>1, <1>5, <1>6, <1>7 DEF Controlled
  <1> QED BY <1>8 DEF e

\* A driver that has given up has nothing more to come.
LEMMA Ends ==
  ASSUME Inv, disk' = disk, UNCHANGED <<file, belief, wrong>>, JobFine(job'),
         NEW o, Outcome(o), Becomes(o), o.reg.cmd = "none",
         job'.op # "none" \/ (o.reg.count = 0 /\ o.reg.status = {} /\ o.reg.script = 0),
         Carries(job') => /\ o.reg.count = 0 /\ o.reg.script = 0 /\ Drq \notin o.reg.status /\ ~job'.ready
  PROVE  Inv'
  <1>1. Types' /\ Holds' /\ ~wrong' /\ reg' = o.reg BY BecameKeeps
  <1>2. Controlled(reg', job') BY <1>1 DEF Controlled, Live
  <1> QED BY <1>1, <1>2, Idles, Primed DEF Inv

LEMMA PollKeeps == ASSUME Inv, disk' = disk, Poll PROVE Inv'
  <1>0. Types /\ RegFine(reg) /\ JobFine(job) /\ disk \in Setups /\ buf \in BufType BY DEF Inv, Types
  <1>1. /\ reg.polls \in 0 .. MaxPolls /\ Works \subseteq BOOLEAN /\ reg \in RegType /\ reg.sel \in Drives
        /\ drive \in [Drives -> DriveType]
    BY <1>0, Selected, FieldsOf DEF Types
  <1> DEFINE acked == [reg EXCEPT !.errint = FALSE]
             p == IF acked.polls >= MaxPolls THEN 0 ELSE acked.polls + 1
             counted == [acked EXCEPT !.polls = p]
             same == [reg |-> IF Untouched THEN counted ELSE acked, drive |-> Cur, buf |-> buf]
             O(ok, ok2) == IF ~(Untouched /\ counted.polls = 0) THEN same
                           ELSE IF reg.multi THEN Advanced(counted, Cur, ok, ok2)
                           ELSE [same EXCEPT !.reg = Ended(counted, {})]
             Silent(o) == Untouched /\ counted.polls = 0 /\ o.reg.status = {Crc}
             A(o) == Answered(Shown(o.reg))
             R(o) == /\ Becomes(IF Silent(o) THEN o
                                ELSE IF A(o) = NoJob THEN [o EXCEPT !.reg = Ended(@, {})]
                                ELSE [o EXCEPT !.reg = After(@)])
                     /\ job' = IF Silent(o) THEN job ELSE A(o)
  <1>2. PICK ok \in BOOLEAN, ok2 \in BOOLEAN : R(O(ok, ok2))
    <2>1. \E ok \in Works, ok2 \in Works : R(O(ok, ok2)) BY DEF Poll
    <2> HIDE DEF R, O
    <2> QED BY <1>1, <2>1
  <1>3. Polls /\ UNCHANGED <<file, belief, wrong>> BY DEF Poll, Media
  <1>4. ~Idle /\ (~job.ready \/ job.done \/ Len(job.stream) = 1) BY <1>3 DEF Polls
  <1>5. /\ acked.polls = reg.polls /\ p \in 0 .. MaxPolls
        /\ p = 0 \/ p = reg.polls + 1
        /\ p = 0 => reg.polls >= MaxPolls
    <2>1. acked.polls = reg.polls BY <1>1 DEF RegType
    <2> HIDE DEF acked
    <2> QED BY <1>1, <2>1, FloppyAssumption
  <1> DEFINE q == IF Untouched THEN counted ELSE acked
             o == O(ok, ok2)
  <1>6. /\ RegFine(acked) /\ Alike(acked, reg) /\ acked.status = reg.status /\ acked.script = reg.script
        /\ RegFine(counted) /\ Alike(counted, reg) /\ counted.status = reg.status /\ counted.script = reg.script
        /\ counted.polls = p /\ acked.polls = reg.polls
    <2> HIDE DEF p
    <2> QED BY <1>0, <1>5, Acked
  <1> HIDE DEF acked, p, counted
  <1>7. /\ RegFine(q) /\ Alike(q, reg) /\ q.status = reg.status /\ q.script = reg.script
        /\ q.polls = reg.polls \/ q.polls = 0 \/ q.polls = reg.polls + 1
    BY <1>5, <1>6
  <1> HIDE DEF q
  <1>8. Outcome(same) /\ same.reg = q /\ same.drive = Cur /\ same.buf = buf
    <2>1. same = [reg |-> q, drive |-> Cur, buf |-> buf] BY DEF q
    <2> HIDE DEF same
    <2>2. same.reg = q /\ same.drive = Cur /\ same.buf = buf BY <2>1
    <2> QED BY <1>0, <1>7, <2>1, <2>2, CurHead DEF Outcome
  <1> HIDE DEF same
  <1>9. Outcome(o)
    <2>1. RegFine(Ended(counted, {})) BY <1>0, <1>6, EndedIs
    <2>2. Outcome([same EXCEPT !.reg = Ended(counted, {})]) BY <1>8, <2>1, WithReg
    <2>3. Outcome(Advanced(counted, Cur, ok, ok2)) BY <1>0, <1>6, CurHead, AdvancedIs
    <2> QED BY <1>8, <2>2, <2>3
  <1>10. R(o) BY <1>2
  <1>11. JobFine(A(o)) /\ JobFine(job') BY <1>0, <1>10, Answering
  <1> DEFINE e == [o EXCEPT !.reg = Ended(@, {})]
             f == [o EXCEPT !.reg = After(@)]
  <1>12. /\ Outcome(e) /\ e.reg = Ended(o.reg, {}) /\ e.drive = o.drive /\ e.buf = o.buf
         /\ e.reg.cmd = "none" /\ e.reg.status = {} /\ e.reg.count = 0 /\ e.reg.script = 0
    <2>1. RegFine(o.reg) BY <1>9 DEF Outcome
    <2>2. /\ RegFine(Ended(o.reg, {})) /\ Ended(o.reg, {}).cmd = "none" /\ Ended(o.reg, {}).status = {}
          /\ Ended(o.reg, {}).count = 0 /\ Ended(o.reg, {}).script = 0
      BY <1>0, <2>1, EndedIs
    <2>3. e = [o EXCEPT !.reg = Ended(o.reg, {})] OBVIOUS
    <2> HIDE DEF o, e
    <2> QED BY <1>9, <2>2, <2>3, WithReg
  <1>13. /\ Outcome(f) /\ f.reg = After(o.reg) /\ f.drive = o.drive /\ f.buf = o.buf
         /\ RegFine(o.reg) /\ Alike(f.reg, o.reg)
    <2>1. RegFine(o.reg) BY <1>9 DEF Outcome
    <2>2. RegFine(After(o.reg)) /\ Alike(After(o.reg), o.reg) BY <2>1, AfterIs
    <2>3. f = [o EXCEPT !.reg = After(o.reg)] OBVIOUS
    <2> HIDE DEF o, f
    <2> QED BY <1>9, <2>1, <2>2, <2>3, WithReg
  <1>14. CASE ~Silent(o) /\ A(o) = NoJob
    <2>1. Becomes(e) /\ job' = NoJob BY <1>10, <1>14
    <2>2. NoJob.op = "none" /\ ~NoJob.ready BY DEF NoJob
    <2>3. ~Carries(job') BY <2>1, <2>2 DEF Carries
    <2> HIDE DEF R, O, o, e, Silent, A
    <2> QED BY <1>3, <1>11, <1>12, <2>1, <2>3, Ends
  <1>15. CASE Untouched /\ counted.polls = 0 /\ ~(~Silent(o) /\ A(o) = NoJob)
    <2>1. reg.polls >= MaxPolls BY <1>5, <1>6, <1>15
    <2>2. reg.cmd = "read" /\ reg.count # 0 BY <1>15 DEF Untouched
    <2>3. job.op = "read" BY <2>2 DEF Inv, Controlled
    <2>4. Live(reg, job) BY <2>2, <2>3 DEF Live
    <2>5. job.done
      <3>1. job.stream = <<>> BY <1>0, <2>3 DEF JobFine
      <3>2. Len(job.stream) # 1 BY <3>1
      <3>3. SUFFICES ASSUME ~job.done PROVE FALSE OBVIOUS
      <3>4. ~job.ready BY <1>4, <3>2, <3>3
      <3>5. reg.polls <= 1 BY <2>3, <2>4, <3>3, <3>4 DEF Inv, Controlled, Carries
      <3> QED BY <1>1, <2>1, <3>5, FloppyAssumption
    <2>6. job'.op = "read" /\ job'.done
      <3>1. CASE Silent(o) BY <1>10, <2>3, <2>5, <3>1
      <3>2. CASE ~Silent(o)
        <4>1. job' = A(o) /\ A(o) # NoJob BY <1>10, <1>15, <3>2
        <4>2. Likewise(job', job) BY <1>0, <4>1, Answering
        <4> QED BY <2>3, <2>5, <4>2 DEF Likewise
      <3> QED BY <3>1, <3>2
    <2>7. o.reg.cmd \in {"none", "read"}
      <3>1. counted.cmd = "read" BY <1>6, <2>2 DEF Alike
      <3>2. CASE reg.multi
        <4>1. o = Advanced(counted, Cur, ok, ok2) BY <1>15, <3>2
        <4> DEFINE v == Advanced(counted, Cur, ok, ok2)
        <4>2. GivenUp(v, counted) \/ (counted.cmd = "read" /\ Failed(v)) \/ ToNext(v, counted, Cur)
          BY <1>0, <1>6, CurHead, AdvancedIs
        <4> HIDE DEF v, O, o
        <4>3. v.reg.cmd \in {"none", "read"} BY <3>1, <4>2 DEF GivenUp, Failed, ToNext, Afoot
        <4> QED BY <4>1, <4>3 DEF v
      <3>3. CASE ~reg.multi
        <4>1. o = [same EXCEPT !.reg = Ended(counted, {})] BY <1>15, <3>3
        <4>2. RegFine(Ended(counted, {})) /\ Ended(counted, {}).cmd = "none" BY <1>0, <1>6, EndedIs
        <4>3. [same EXCEPT !.reg = Ended(counted, {})].reg = Ended(counted, {}) BY <1>8, <4>2, WithReg
        <4> QED BY <4>1, <4>2, <4>3
      <3> QED BY <3>2, <3>3
    <2> DEFINE w == IF Silent(o) THEN o ELSE f
    <2>8. Becomes(w) BY <1>10, <1>15
    <2>9. Outcome(w) /\ w.reg.cmd \in {"none", "read"} BY <1>9, <1>13, <2>7 DEF Alike
    <2> HIDE DEF w, R, O, o, e, f, Silent, A
    <2>10. Types' /\ Holds' /\ ~wrong' /\ reg' = w.reg BY <1>3, <1>11, <2>8, <2>9, BecameKeeps
    <2>11. Controlled(reg', job') /\ UnderwayIn(Image', Cur', reg', buf', job')
      BY <2>6, <2>9, <2>10 DEF Controlled, UnderwayIn, Carries
    <2>12. AddressIn(reg', buf', job') /\ TrackIn(Image', Cur', reg', job') /\ FormatIn(reg', job')
      BY <2>6 DEF AddressIn, TrackIn, FormatIn
    <2> QED BY <2>10, <2>11, <2>12, Together
  <1>16. CASE ~(Untouched /\ counted.polls = 0) /\ A(o) # NoJob
    <2>1. o = same /\ o.reg = q BY <1>8, <1>16
    <2>2. ~Silent(o) BY <1>16
    <2>3. Becomes(f) /\ job' = A(o) BY <1>10, <1>16, <2>2
    <2>4. A(o) = Answered(Shown(q)) BY <2>1
    <2>5. f.drive = Cur /\ f.buf = buf BY <1>8, <1>13, <2>1
    <2>6. Alike(f.reg, reg) BY <1>7, <1>13, <2>1 DEF Alike
    <2>7. Likewise(job', job) BY <1>0, <1>16, <2>3, Answering
    <2> HIDE DEF R, O, o, e, f, Silent, A
    <2>8. Types' /\ Holds' /\ ~wrong' /\ reg' = f.reg
          /\ (f.reg.cmd # "none" => drive'[reg.sel] = Cur /\ buf' = buf)
      BY <1>3, <1>11, <1>13, <2>3, <2>5, BecameKeeps
    <2>9. Controlled(reg', job')
      <3>1. ~job.ready \/ job.done \/ job.op \notin {"read", "write"}
        <4>1. job.op \in {"read", "write"} => job.stream = <<>> BY <1>0 DEF JobFine
        <4> QED BY <1>4, <4>1
      <3>2. CASE ~job.ready \/ job.done
        BY <1>4, <1>7, <1>13, <1>16, <2>1, <2>3, <2>4, <2>8, <3>2, Polled
      <3>3. CASE job.op \notin {"read", "write"}
        <4>1. job'.op = job.op /\ job.op # "none" BY <1>4, <2>7 DEF Likewise, Idle
        <4>2. reg'.cmd \in {"none", job.op} BY <2>6, <2>8 DEF Inv, Controlled, Alike
        <4> QED BY <3>3, <4>1, <4>2 DEF Controlled, Carries
      <3> QED BY <3>1, <3>2, <3>3
    <2>10. CASE reg'.cmd = "none" BY <2>8, <2>9, <2>10, Idles, Primed DEF Inv
    <2>11. CASE reg'.cmd # "none"
      <3>1. buf' = buf /\ Image' = Image /\ Cur' = Cur
        <4>1. drive'[reg.sel] = Cur /\ buf' = buf /\ reg'.sel = reg.sel BY <2>6, <2>8, <2>11 DEF Alike
        <4> QED BY <1>3, <4>1, SameImage
      <3>2. /\ UnderwayIn(Image, Cur, reg, buf, job) /\ AddressIn(reg, buf, job)
            /\ TrackIn(Image, Cur, reg, job) /\ FormatIn(reg, job)
        BY DEF Inv
      <3>3. /\ UnderwayIn(Image, Cur, reg', buf, job') /\ AddressIn(reg', buf, job')
            /\ TrackIn(Image, Cur, reg', job') /\ FormatIn(reg', job')
        BY <2>6, <2>7, <2>8, <3>2, AlikeIn
      <3> QED BY <2>8, <2>9, <3>1, <3>3, Together
    <2> QED BY <2>10, <2>11
  <1>17. Silent(o) => Untouched /\ counted.polls = 0 OBVIOUS
  <1> HIDE DEF R, O, o, e, f, Silent, A
  <1> QED BY <1>14, <1>15, <1>16, <1>17

\* What is believed of the track under the head is what the cached offset leads to.
LEMMA KnownAt ==
  ASSUME Inv, Cur.in, Cur.track = reg.track, Cur.side = reg.side, OnDisk.ids # <<>>
  PROVE  /\ IsTrack(OnDisk) /\ OnDisk = belief[reg.sel][Here]
         /\ Cur.offset = Start(Image.table, Here) /\ \A i \in 0 .. Here : Image.table[i] # 0
         /\ HeaderOf(Image, Cur.offset).ids = OnDisk.ids
         /\ \A i \in 1 .. Len(OnDisk.ids), j \in 1 .. CodeOn(Image, Cur.offset), b \in 0 .. U - 1 :
                i = Place(OnDisk.ids, OnDisk.ids[i]) =>
                    OnDisk.data[OnDisk.ids[i]] \in
                        {Undefined,
                         Image.units[Cur.offset + 1 + (i - 1) * CodeOn(Image, Cur.offset) + j].bytes[b]}
  <1>1. /\ disk \in Setups /\ Here \in Slots /\ reg.sel \in Drives /\ Image \in ImageType
    BY Selected DEF Inv
  <1> DEFINE tr == belief[reg.sel][Here]
             o == Start(Image.table, Here)
  <1>2. OnDisk = tr BY <1>1 DEF OnDisk
  <1>3. /\ Laid(Image) /\ Bears(Image, Here, tr) /\ CachedIn(Image, Cur, belief[reg.sel])
        /\ IsTrack(tr)
    <2>1. HoldsIn(Image, belief[reg.sel]) /\ CachedIn(Image, Cur, belief[reg.sel])
      BY <1>1 DEF Inv, Holds, Image, Cur
    <2>2. TracksFine(belief[reg.sel]) BY <1>1 DEF Inv, Types
    <2> QED BY <1>1, <2>1, <2>2 DEF HoldsIn, TracksFine
  <1>4. ~Blank(belief[reg.sel]) BY <1>1, <1>2 DEF Blank
  <1>5. Offset(Image, Here) # 0 /\ Cur.offset = Offset(Image, Here)
    BY <1>3, <1>4 DEF CachedIn, Here
  <1>6. Cur.offset = o BY <1>1, <1>5, OffsetIs
  <1>7. /\ o < Len(Image.units) /\ Image.units[o + 1].ids = tr.ids /\ \A i \in 0 .. Here : Image.table[i] # 0
        /\ HeaderOf(Image, o) = Image.units[o + 1]
    BY <1>1, <1>2, <1>3, Spans
  <1>8. \A i \in 1 .. Len(tr.ids), j \in 1 .. Image.units[o + 1].code, b \in 0 .. U - 1 :
            i = Place(tr.ids, tr.ids[i]) =>
                tr.data[tr.ids[i]] \in
                    {Undefined, Image.units[o + 1 + (i - 1) * Image.units[o + 1].code + j].bytes[b]}
    BY <1>2, <1>3 DEF Bears
  <1> HIDE DEF tr, o
  <1>9. CodeOn(Image, Cur.offset) = Image.units[o + 1].code BY <1>6, <1>7 DEF CodeOn
  <1> DEFINE c == CodeOn(Image, Cur.offset)
  <1> HIDE DEF c
  <1>10. c = Image.units[o + 1].code BY <1>9 DEF c
  <1>11. \A i \in 1 .. Len(tr.ids), j \in 1 .. c, b \in 0 .. U - 1 :
            i = Place(tr.ids, tr.ids[i]) =>
                tr.data[tr.ids[i]] \in {Undefined, Image.units[Cur.offset + 1 + (i - 1) * c + j].bytes[b]}
    <2> DEFINE x == Image.units[o + 1].code
    <2>1. \A i \in 1 .. Len(tr.ids), j \in 1 .. x, b \in 0 .. U - 1 :
            i = Place(tr.ids, tr.ids[i]) =>
                tr.data[tr.ids[i]] \in {Undefined, Image.units[o + 1 + (i - 1) * x + j].bytes[b]}
      BY <1>8
    <2>2. c = x BY <1>10
    <2> HIDE DEF x
    <2>3. \A i \in 1 .. Len(tr.ids), j \in 1 .. c, b \in 0 .. U - 1 :
            i = Place(tr.ids, tr.ids[i]) =>
                tr.data[tr.ids[i]] \in {Undefined, Image.units[o + 1 + (i - 1) * c + j].bytes[b]}
      BY <2>1, <2>2
    <2> QED BY <1>6, <2>3
  <1>12. HeaderOf(Image, Cur.offset).ids = tr.ids BY <1>6, <1>7
  <1> QED BY <1>2, <1>3, <1>6, <1>7, <1>11, <1>12 DEF tr, o, c

LEMMA UnderwayNow ==
  ASSUME Inv, job.op \in {"read", "write"}, ~job.done, reg.cmd = job.op, reg.count # 0
  PROVE  /\ MovingIn(Image, Cur, reg, buf, job) /\ Chunk(Cur) = U /\ CodeOn(Image, Cur.offset) \in Nat \ {0}
         /\ Cur.sector = job.id /\ reg.count \in Nat \ {0} /\ reg.pos \in 0 .. U - 1
         /\ First(Image, Cur.offset, job.id) \in Nat /\ First(Image, Cur.offset, job.id) > Cur.offset
         /\ Cur.offset \in Nat /\ Cur.at \in Nat /\ Cur.size \in Nat
  <1>1. Image \in ImageType /\ Cur \in DriveType /\ reg.count \in Nat /\ reg.pos \in 0 .. U - 1
    BY Selected DEF Inv
  <1>2. Carries(job) /\ Live(reg, job) BY DEF Carries, Live
  <1>3. MovingIn(Image, Cur, reg, buf, job) BY <1>2 DEF Inv, UnderwayIn
  <1>4. Cur.offset \in Nat /\ Cur.at \in Nat BY <1>1 DEF DriveType
  <1>5. Present(Image, Cur.offset, job.id) /\ Cur.size = CodeOn(Image, Cur.offset) * U /\ Cur.sector = job.id
    BY <1>3 DEF MovingIn
  <1>6. /\ CodeOn(Image, Cur.offset) \in Nat \ {0} /\ First(Image, Cur.offset, job.id) \in Nat
        /\ First(Image, Cur.offset, job.id) > Cur.offset
    BY <1>1, <1>4, <1>5, Found1
  <1>7. Cur.size \in Nat /\ Cur.size >= U
    <2> DEFINE c == CodeOn(Image, Cur.offset)
    <2>1. c \in Nat /\ c # 0 /\ Cur.size = c * U BY <1>5, <1>6
    <2> HIDE DEF c
    <2> QED BY <2>1, Sizes
  <1>8. Chunk(Cur) = U BY <1>7, FloppyAssumption DEF Chunk
  <1> QED BY <1>1, <1>3, <1>4, <1>5, <1>6, <1>7, <1>8

\* How many units of the sector are behind, in a transfer under way.
Behind == Cur.at - (IF job.op = "read" THEN 1 ELSE 0) - First(Image, Cur.offset, job.id)

LEMMA BehindIs ==
  ASSUME Inv, job.op \in {"read", "write"}, ~job.done, reg.cmd = job.op, reg.count # 0
  PROVE  /\ Behind \in Nat /\ Behind < CodeOn(Image, Cur.offset)
         /\ reg.count + Behind * U + reg.pos = CodeOn(Image, Cur.offset) * U
         /\ Cur.size = CodeOn(Image, Cur.offset) * U
         /\ Behind * U \in Nat /\ (Behind + 1) * U = Behind * U + U
  <1> DEFINE c == CodeOn(Image, Cur.offset)
             k == Behind
             first == First(Image, Cur.offset, job.id)
  <1>1. /\ MovingIn(Image, Cur, reg, buf, job) /\ c \in Nat \ {0} /\ first \in Nat /\ Cur.at \in Nat
        /\ reg.count \in Nat \ {0} /\ reg.pos \in 0 .. U - 1
    BY UnderwayNow
  <1>2. k \in Nat /\ reg.count + k * U + reg.pos = c * U /\ Cur.size = c * U
    <2>1. k >= 0 /\ reg.count + k * U + reg.pos = Cur.size /\ Cur.size = c * U
      BY <1>1 DEF MovingIn, Behind
    <2>2. k \in Int
      <3> HIDE DEF first
      <3> QED BY <1>1 DEF Behind, first
    <2> HIDE DEF k, c
    <2> QED BY <2>1, <2>2
  <1> HIDE DEF c, k
  <1>3. k * U \in Nat /\ c * U \in Nat /\ (k * U < c * U <=> k < c) BY <1>1, <1>2, FloppyAssumption, Times
  <1>4. k * U < c * U
    <2> DEFINE x == k * U
               y == c * U
    <2>1. x \in Nat /\ y \in Nat /\ reg.count + x + reg.pos = y BY <1>2, <1>3
    <2> HIDE DEF x, y
    <2>2. x < y BY <1>1, <2>1, FloppyAssumption
    <2> QED BY <2>2 DEF x, y
  <1>5. (k + 1) * U = k * U + U BY <1>2, FloppyAssumption
  <1> QED BY <1>2, <1>3, <1>4, <1>5 DEF c, k

LEMMA ReadsRight ==
  ASSUME Inv, job.op = "read", ~job.done, reg.cmd = "read", reg.count # 0
  PROVE  Expected(job.id) \in {buf[reg.pos], Undefined}
  <1>1. SUFFICES ASSUME job.id \in ToSet(OnDisk.ids) PROVE OnDisk.data[job.id] \in {buf[reg.pos], Undefined}
    BY DEF Expected
  <1>2. OnDisk.ids # <<>> BY <1>1 DEF ToSet
  <1> DEFINE o == Cur.offset
             c == CodeOn(Image, o)
             first == First(Image, o, job.id)
             k == Behind
             h == Place(OnDisk.ids, job.id)
  <1>3. /\ MovingIn(Image, Cur, reg, buf, job) /\ c \in Nat \ {0} /\ first \in Nat /\ Cur.at \in Nat /\ o \in Nat
        /\ reg.pos \in 0 .. U - 1
    BY UnderwayNow
  <1>4. k \in Nat /\ k < c BY BehindIs
  <1>5. /\ Cur.in /\ Cur.track = reg.track /\ Cur.side = reg.side /\ Present(Image, o, job.id)
        /\ buf = Image.units[Cur.at].bytes
    BY <1>3 DEF MovingIn
  <1>6. /\ HeaderOf(Image, o).ids = OnDisk.ids
        /\ \A i \in 1 .. Len(OnDisk.ids), j \in 1 .. c, b \in 0 .. U - 1 :
                i = Place(OnDisk.ids, OnDisk.ids[i]) =>
                    OnDisk.data[OnDisk.ids[i]] \in {Undefined, Image.units[o + 1 + (i - 1) * c + j].bytes[b]}
    BY <1>2, <1>5, KnownAt
  <1>7. Image \in ImageType BY Selected DEF Inv
  <1>8. h \in 1 .. Len(OnDisk.ids) /\ OnDisk.ids[h] = job.id /\ first = o + 1 + (h - 1) * c
    BY <1>3, <1>5, <1>6, <1>7, Found1 DEF PlaceOn, First
  <1>9. Cur.at = first + (k + 1)
    <2>1. k = Cur.at - 1 - first BY DEF Behind
    <2> HIDE DEF k, first
    <2> QED BY <1>3, <1>4, <2>1
  <1>10. OnDisk.data[job.id] \in {Undefined, Image.units[o + 1 + (h - 1) * c + (k + 1)].bytes[reg.pos]}
    <2>1. k + 1 \in 1 .. c BY <1>3, <1>4
    <2> HIDE DEF k, c, o, first
    <2> QED BY <1>3, <1>6, <1>8, <2>1
  <1>11. OnDisk.data[job.id] \in {Undefined, Image.units[Cur.at].bytes[reg.pos]}
    <2> HIDE DEF k, c, o, first
    <2> QED BY <1>8, <1>9, <1>10
  <1> QED BY <1>5, <1>11

LEMMA TakenIs ==
  ASSUME RegFine(reg), reg.count # 0
  PROVE  LET q == Taken
         IN  /\ RegFine(q) /\ q.count = reg.count - 1 /\ q.polls = 0
             /\ q.status = reg.status /\ q.script = reg.script /\ q.cmd = reg.cmd /\ q.pos = reg.pos
             /\ q.sel = reg.sel /\ q.track = reg.track /\ q.side = reg.side /\ q.multi = reg.multi
             /\ q.phase = reg.phase /\ q.idx = reg.idx /\ q.rest = reg.rest /\ q.ids = reg.ids /\ q.code = reg.code
  <1> DEFINE n == reg.count - 1
             q == [reg EXCEPT !.errint = FALSE, !.polls = 0, !.count = n]
  <1>1. reg \in RegType /\ reg.count \in Nat /\ 0 \in 0 .. MaxPolls BY FieldsOf, Zeros DEF RegFine
  <1>2. n \in Nat BY <1>1
  <1>3. Taken = q BY DEF Taken
  <1> HIDE DEF n
  <1>4. q \in RegType BY <1>1, <1>2 DEF RegType
  <1>5. /\ q.count = n /\ q.polls = 0
        /\ q.status = reg.status /\ q.script = reg.script /\ q.cmd = reg.cmd /\ q.pos = reg.pos
        /\ q.sel = reg.sel /\ q.track = reg.track /\ q.side = reg.side /\ q.multi = reg.multi
        /\ q.phase = reg.phase /\ q.idx = reg.idx /\ q.rest = reg.rest /\ q.ids = reg.ids /\ q.code = reg.code
    BY <1>1 DEF RegType
  <1> HIDE DEF q
  <1>6. RegFine(q) BY <1>4, <1>5 DEF RegFine
  <1> QED BY <1>3, <1>5, <1>6 DEF n

LEMMA PlacedAt ==
  ASSUME NEW r, RegFine(r), NEW p \in 0 .. U - 1
  PROVE  LET q == [r EXCEPT !.pos = p]
         IN  /\ RegFine(q) /\ q.pos = p /\ q.count = r.count /\ q.polls = r.polls
             /\ q.status = r.status /\ q.script = r.script /\ q.cmd = r.cmd
             /\ q.sel = r.sel /\ q.track = r.track /\ q.side = r.side /\ q.multi = r.multi
  <1> DEFINE q == [r EXCEPT !.pos = p]
  <1>1. r \in RegType BY DEF RegFine
  <1>2. q \in RegType BY <1>1 DEF RegType
  <1>3. /\ q.pos = p /\ q.count = r.count /\ q.polls = r.polls
        /\ q.status = r.status /\ q.script = r.script /\ q.cmd = r.cmd
        /\ q.sel = r.sel /\ q.track = r.track /\ q.side = r.side /\ q.multi = r.multi
    BY <1>1 DEF RegType
  <1> HIDE DEF q
  <1>4. RegFine(q) BY <1>2, <1>3 DEF RegFine
  <1> QED BY <1>3, <1>4 DEF q

\* The driver waits for the next sector, or is told that there is none.
LEMMA Onward ==
  ASSUME JobFine(job), ~job.done, NEW r
  PROVE  LET j == OnToNext(r)
         IN  /\ JobFine(j) /\ j.op = job.op /\ j.byte = job.byte /\ ~j.done /\ j.stream = job.stream
             /\ IF r.cmd = reg.cmd /\ r.count < reg.count /\ r.count # 0 THEN j = job
                ELSE ~j.ready /\ j.id = job.id + 1
  <1> DEFINE n == job.id + 1
             k == [job EXCEPT !.ready = FALSE, !.id = n]
  <1>1. job \in JobType /\ n \in Nat BY DEF JobFine, JobType
  <1>2. OnToNext(r) = IF r.cmd = reg.cmd /\ r.count < reg.count /\ r.count # 0 THEN job ELSE k
    BY DEF OnToNext
  <1> HIDE DEF n
  <1>3. k \in JobType BY <1>1 DEF JobType
  <1>4. k.op = job.op /\ k.byte = job.byte /\ k.done = job.done /\ k.stream = job.stream /\ ~k.ready /\ k.id = n
    BY <1>1 DEF JobType
  <1> HIDE DEF k
  <1>5. JobFine(k) BY <1>3, <1>4 DEF JobFine
  <1> QED BY <1>2, <1>4, <1>5 DEF n

\* After the last byte of a sector.
LEMMA NextTransfer ==
  ASSUME Inv, job.op \in {"read", "write"}, ~job.done, reg.cmd = job.op, reg.count = 1,
         NEW r, r.cmd = reg.cmd, r.count = 0, r.polls = 0, r.track = reg.track, r.side = reg.side,
         NEW o, Outcome(o), o.reg.sel = reg.sel, o.reg.track = reg.track, o.reg.side = reg.side,
         GivenUp(o, r) \/ Failed(o) \/ ToNext(o, r, Cur),
         reg' = o.reg, o.reg.cmd # "none" => drive'[reg.sel] = o.drive /\ buf' = o.buf,
         job' = OnToNext(reg'), Types', Holds', ~wrong',
         Image' \in ImageType, Len(Image'.units) = Len(Image.units),
         HeaderOf(Image', Cur.offset) = HeaderOf(Image, Cur.offset),
         job.op = "read" => Image' = Image
  PROVE  Inv'
  <1>1. JobFine(job) BY DEF Inv, Types
  <1>2. /\ JobFine(job') /\ job'.op = job.op /\ ~job'.done
        /\ IF reg'.cmd = reg.cmd /\ reg'.count < reg.count /\ reg'.count # 0 THEN job' = job
           ELSE ~job'.ready /\ job'.id = job.id + 1
    BY <1>1, Onward
  <1>3. CASE GivenUp(o, r) \/ Failed(o)
    <2>1. /\ reg'.count = 0 /\ reg'.cmd \in {"none", job.op} /\ reg'.script # 2
          /\ Drq \notin reg'.status \/ reg'.script \in {3, 4}
      BY <1>3, FlagsApart DEF GivenUp, Failed, Afoot
    <2>2. ~job'.ready BY <1>2, <2>1
    <2> QED BY <1>2, <2>1, <2>2, NoTransfer, Together
  <1>4. CASE ToNext(o, r, Cur)
    <2> DEFINE id == Cur.sector + 1
               off == Cur.offset
               first == First(Image, off, id)
    <2>1. /\ reg'.cmd = job.op /\ reg'.script = 2 /\ reg'.pos = 0 /\ reg'.polls = 0
          /\ reg'.count = o.drive.size /\ reg'.count >= U
          /\ o.drive.sector = id /\ Present(Image, off, id) /\ o.drive.size = CodeOn(Image, off) * U
          /\ IF job.op = "read"
             THEN o.drive.at = first + 1 /\ o.drive.at <= Size /\ o.buf = Image.units[o.drive.at].bytes
             ELSE o.drive.at = first
      BY <1>4 DEF ToNext, Afoot
    <2>2. RegFine(reg') /\ reg'.count \in Nat /\ reg'.cmd # "none"
      <3>1. RegFine(reg') BY DEF Outcome
      <3>2. reg'.count \in Nat BY <3>1, FieldsOf DEF RegFine
      <3> QED BY <2>1, <3>1, <3>2
    <2>3. reg'.count # 0 /\ ~(reg'.count < reg.count) BY <2>1, <2>2, FloppyAssumption
    <2>4. ~job'.ready /\ job'.id = job.id + 1 BY <1>2, <2>3
    <2>5. Cur.sector = job.id /\ Cur.track = reg.track /\ Cur.side = reg.side /\ Cur.in
      <3>1. MovingIn(Image, Cur, reg, buf, job) BY UnderwayNow
      <3> QED BY <3>1 DEF MovingIn
    <2>6. job'.id = id BY <2>4, <2>5
    <2>7. /\ o.drive \in DriveType /\ o.drive.in /\ o.drive.track = reg'.track /\ o.drive.side = reg'.side
          /\ o.drive.offset = off
      BY <2>5 DEF Outcome, AtHead
    <2>8. Cur' = o.drive /\ buf' = o.buf
      <3>1. Cur' = drive'[reg.sel] BY DEF Cur
      <3> QED BY <2>2, <3>1
    <2>9. /\ Present(Image', off, id) /\ CodeOn(Image', off) = CodeOn(Image, off) /\ First(Image', off, id) = first
      <3>1. PlaceOn(Image', off, id) = PlaceOn(Image, off, id) BY DEF PlaceOn
      <3>2. CodeOn(Image', off) = CodeOn(Image, off) BY DEF CodeOn
      <3> DEFINE img == Image'
      <3> HIDE DEF img, id, off
      <3>3. First(img, off, id) = First(Image, off, id) BY <3>1, <3>2 DEF First, img
      <3>4. Present(img, off, id) BY <2>1, <3>1, <3>2, <3>3 DEF Present, img
      <3> QED BY <3>2, <3>3, <3>4 DEF img
    <2>10. job.op = "read" =>
               o.drive.at = first + 1 /\ o.drive.at <= Len(Image'.units) /\ buf' = Image'.units[o.drive.at].bytes
      <3>1. Size = Len(Image.units) BY DEF Size
      <3> QED BY <2>1, <2>8, <3>1
    <2> DEFINE img == Image'
               dd == o.drive
    <2>11. MovingIn(img, dd, reg', buf', job')
      <3>1. /\ img \in ImageType /\ dd \in DriveType /\ dd.in /\ dd.track = reg'.track /\ dd.side = reg'.side
            /\ dd.sector = job'.id /\ Present(img, dd.offset, job'.id) /\ dd.size = CodeOn(img, dd.offset) * U
            /\ reg'.count = dd.size /\ reg'.pos = 0 /\ job'.op \in {"read", "write"}
        BY <1>2, <2>1, <2>6, <2>7, <2>9
      <3>2. IF job'.op = "read"
            THEN dd.at = First(img, dd.offset, job'.id) + 1 /\ dd.at <= Len(img.units) /\ buf' = img.units[dd.at].bytes
            ELSE dd.at = First(img, dd.offset, job'.id)
        BY <1>2, <2>1, <2>6, <2>7, <2>9, <2>10
      <3> HIDE DEF img, dd
      <3> QED BY <2>2, <3>1, <3>2, AtFirst
    <2>12. UnderwayIn(Image', Cur', reg', buf', job') BY <2>8, <2>11 DEF UnderwayIn
    <2>13. Controlled(reg', job') BY <1>2, <2>1, <2>3, <2>4 DEF Controlled, Live, Carries
    <2>14. AddressIn(reg', buf', job') /\ TrackIn(Image', Cur', reg', job') /\ FormatIn(reg', job')
      BY <1>2 DEF AddressIn, TrackIn, FormatIn
    <2> QED BY <2>12, <2>13, <2>14, Together
  <1> QED BY <1>3, <1>4

\* A transfer goes on in its sector.
LEMMA GoesOn ==
  ASSUME Inv, job.op \in {"read", "write"}, job.ready, ~job.done,
         reg'.cmd = reg.cmd, reg.cmd = job.op, reg'.status = reg.status, reg'.script = reg.script,
         reg.count # 0, reg'.count = reg.count - 1, reg'.count # 0,
         job' = OnToNext(reg'), MovingIn(Image', Cur', reg', buf', job), Types', Holds', ~wrong'
  PROVE  Inv'
  <1>1. reg.count \in Nat BY Selected DEF Inv
  <1>2. job' = job BY <1>1 DEF OnToNext
  <1>3. Carries(job) /\ Live(reg, job) /\ Live(reg', job) BY DEF Carries, Live
  <1>4. Controlled(reg', job) BY <1>3 DEF Inv, Controlled
  <1>5. UnderwayIn(Image', Cur', reg', buf', job) BY DEF UnderwayIn
  <1>6. AddressIn(reg', buf', job) /\ TrackIn(Image', Cur', reg', job) /\ FormatIn(reg', job)
    BY DEF AddressIn, TrackIn, FormatIn
  <1> QED BY <1>2, <1>4, <1>5, <1>6, Together

\* The registers after a byte of a sector: the place in the buffer is back at
\* its start with the last byte of the unit, the sector ends with its last unit.
Stepped == [Taken EXCEPT !.pos = IF reg.pos = Chunk(Cur) - 1 THEN 0 ELSE @ + 1]

LEMMA SteppedIs ==
  ASSUME Inv, job.op \in {"read", "write"}, ~job.done, reg.cmd = job.op, reg.count # 0
  PROVE  /\ RegFine(Stepped) /\ Stepped.count = reg.count - 1 /\ Stepped.polls = 0
         /\ Stepped.status = reg.status /\ Stepped.script = reg.script /\ Stepped.cmd = reg.cmd
         /\ Stepped.sel = reg.sel /\ Stepped.track = reg.track /\ Stepped.side = reg.side
         /\ Stepped.multi = reg.multi
         /\ Stepped.pos = (IF reg.pos = U - 1 THEN 0 ELSE reg.pos + 1)
         /\ reg.pos = Chunk(Cur) - 1 <=> reg.pos = U - 1
         /\ reg.count = 1 => reg.pos = U - 1 /\ Behind = CodeOn(Image, Cur.offset) - 1
  <1> DEFINE p == IF reg.pos = Chunk(Cur) - 1 THEN 0 ELSE Taken.pos + 1
             c == CodeOn(Image, Cur.offset)
             k == Behind
  <1>1. Chunk(Cur) = U /\ reg.pos \in 0 .. U - 1 /\ reg.count \in Nat \ {0} /\ c \in Nat BY UnderwayNow
  <1>2. /\ RegFine(Taken) /\ Taken.count = reg.count - 1 /\ Taken.polls = 0
        /\ Taken.status = reg.status /\ Taken.script = reg.script /\ Taken.cmd = reg.cmd /\ Taken.pos = reg.pos
        /\ Taken.sel = reg.sel /\ Taken.track = reg.track /\ Taken.side = reg.side /\ Taken.multi = reg.multi
    <2>1. RegFine(reg) BY DEF Inv, Types
    <2> QED BY <2>1, TakenIs
  <1>3. p \in 0 .. U - 1 /\ p = (IF reg.pos = U - 1 THEN 0 ELSE reg.pos + 1)
    BY <1>1, <1>2, FloppyAssumption
  <1>4. Stepped = [Taken EXCEPT !.pos = p] BY DEF Stepped
  <1> HIDE DEF p
  <1>5. /\ RegFine(Stepped) /\ Stepped.count = reg.count - 1 /\ Stepped.polls = 0
        /\ Stepped.status = reg.status /\ Stepped.script = reg.script /\ Stepped.cmd = reg.cmd
        /\ Stepped.sel = reg.sel /\ Stepped.track = reg.track /\ Stepped.side = reg.side
        /\ Stepped.multi = reg.multi /\ Stepped.pos = p
    <2> DEFINE t == Taken
               q == [t EXCEPT !.pos = p]
    <2>1. RegFine(t) /\ p \in 0 .. U - 1 BY <1>2, <1>3
    <2>2. /\ RegFine(q) /\ q.pos = p /\ q.count = t.count /\ q.polls = t.polls
          /\ q.status = t.status /\ q.script = t.script /\ q.cmd = t.cmd
          /\ q.sel = t.sel /\ q.track = t.track /\ q.side = t.side /\ q.multi = t.multi
      <3> HIDE DEF t
      <3> QED BY <2>1, PlacedAt
    <2>3. q = Stepped BY <1>4
    <2> HIDE DEF q
    <2> QED BY <1>2, <2>2, <2>3
  <1>6. reg.count = 1 => reg.pos = U - 1 /\ k = c - 1
    <2>1. k \in Nat /\ k < c /\ reg.count + k * U + reg.pos = c * U
          /\ k * U \in Nat /\ (k + 1) * U = k * U + U
      BY BehindIs
    <2> HIDE DEF k, c
    <2>2. c * U \in Nat /\ (k + 1 < c => (k + 1) * U < c * U) BY <1>1, <2>1, FloppyAssumption, Times
    <2> DEFINE x == k * U
               y == c * U
               z == (k + 1) * U
    <2>3. /\ x \in Nat /\ y \in Nat /\ z = x + U /\ reg.count + x + reg.pos = y /\ (k + 1 < c => z < y)
      BY <2>1, <2>2
    <2> HIDE DEF x, y, z
    <2>4. k + 1 < c => reg.count + reg.pos > U BY <1>1, <2>3, FloppyAssumption
    <2>5. reg.count = 1 => k + 1 = c
      <3>1. k \in Nat /\ k < c /\ c \in Nat BY <1>1, <2>1
      <3> QED BY <1>1, <2>4, <3>1, FloppyAssumption
    <2>6. reg.count = 1 => y = z BY <2>5 DEF y, z
    <2>7. reg.count = 1 => reg.pos = U - 1 BY <1>1, <2>3, <2>6, FloppyAssumption
    <2> QED BY <1>1, <2>1, <2>5, <2>7
  <1> QED BY <1>1, <1>3, <1>5, <1>6 DEF c, k

\* A transfer that has ended, with an error or with its last byte.
LEMMA EndsTransfer ==
  ASSUME Inv, disk' = disk, UNCHANGED <<file, belief, wrong>>, job.op \in {"read", "write"}, ~job.done,
         reg.cmd = job.op, NEW o, Outcome(o), Becomes(o), o.reg.cmd = "none", o.reg.count = 0, o.reg.script = 0,
         Drq \notin o.reg.status, job' = OnToNext(reg')
  PROVE  Inv'
  <1>1. JobFine(job) /\ Types BY DEF Inv, Types
  <1>2. reg' = o.reg BY <1>1, Became
  <1>3. JobFine(job') /\ job'.op = job.op /\ ~job'.ready BY <1>1, <1>2, Onward
  <1> QED BY <1>3, Ends

LEMMA ReadByteKeeps == ASSUME Inv, disk' = disk, ReadByte PROVE Inv'
  <1>0. Types /\ RegFine(reg) /\ JobFine(job) /\ disk \in Setups /\ buf \in BufType BY DEF Inv, Types
  <1>1. /\ Works \subseteq BOOLEAN /\ reg.count \in Nat /\ Image \in ImageType /\ Cur \in DriveType
        /\ Size = Len(Image.units) /\ reg.pos \in 0 .. U - 1
    BY <1>0, Selected
  <1>2. /\ job.op = "read" /\ job.ready /\ ~job.done /\ reg.cmd = "read" /\ reg.count # 0 /\ Cur.in
        /\ Judged(buf[reg.pos], job.id) /\ job' = OnToNext(reg') /\ UNCHANGED <<file, belief>>
    BY DEF ReadByte
  <1> DEFINE last == reg.pos = Chunk(Cur) - 1
             same == [reg |-> Stepped, drive |-> Cur, buf |-> buf]
             filled == [same EXCEPT !.drive = Past(Cur), !.buf = Loaded(Cur)]
             failed == [same EXCEPT !.reg = Ended(Stepped, {Crc})]
             ended == [same EXCEPT !.reg = Ended(Stepped, {})]
             F(ok) == IF ~last \/ Stepped.count = 0 THEN same
                      ELSE IF Readable(Cur, ok) THEN filled ELSE failed
             O(ok, ok2) == IF ~SectorOver(F(ok)) THEN F(ok)
                           ELSE IF reg.multi THEN Advanced(Stepped, Cur, ok, ok2) ELSE ended
  <1>3. PICK ok \in BOOLEAN, ok2 \in BOOLEAN : Becomes(O(ok, ok2))
    <2>1. \E ok \in Works, ok2 \in Works : Becomes(O(ok, ok2)) BY DEF ReadByte, Stepped
    <2> HIDE DEF O
    <2> QED BY <1>1, <2>1
  <1>4. /\ RegFine(Stepped) /\ Stepped.count = reg.count - 1 /\ Stepped.polls = 0
        /\ Stepped.status = reg.status /\ Stepped.script = reg.script /\ Stepped.cmd = "read"
        /\ Stepped.sel = reg.sel /\ Stepped.track = reg.track /\ Stepped.side = reg.side
        /\ Stepped.multi = reg.multi
        /\ Stepped.pos = (IF reg.pos = U - 1 THEN 0 ELSE reg.pos + 1)
        /\ last <=> reg.pos = U - 1
        /\ reg.count = 1 => reg.pos = U - 1 /\ Behind = CodeOn(Image, Cur.offset) - 1
    BY <1>2, SteppedIs
  <1>5. UNCHANGED wrong
    <2>1. Expected(job.id) \in {buf[reg.pos], Undefined} BY <1>2, ReadsRight
    <2>2. wrong' = (wrong \/ FALSE) BY <1>2, <2>1 DEF Judged
    <2> QED BY <1>0, <2>2 DEF Types
  <1>6. /\ MovingIn(Image, Cur, reg, buf, job) /\ Chunk(Cur) = U /\ Cur.at \in Nat /\ Cur.offset \in Nat
        /\ First(Image, Cur.offset, job.id) \in Nat
    BY <1>2, UnderwayNow
  <1>7. Outcome(same) /\ same.reg = Stepped /\ same.drive = Cur /\ same.buf = buf
    <2>1. same.reg = Stepped /\ same.drive = Cur /\ same.buf = buf
          /\ same = [reg |-> same.reg, drive |-> same.drive, buf |-> same.buf]
      OBVIOUS
    <2> HIDE DEF same
    <2> QED BY <1>0, <1>4, <2>1, CurHead DEF Outcome
  <1>8. /\ \A st \in SUBSET Flags : RegFine(Ended(Stepped, st)) /\ Ended(Stepped, st).status = st
        /\ \A st \in SUBSET Flags : /\ Ended(Stepped, st).cmd = "none" /\ Ended(Stepped, st).count = 0
                                    /\ Ended(Stepped, st).script = 0
    BY <1>0, <1>4, EndedIs
  <1>9. {Crc} \in SUBSET Flags /\ {} \in SUBSET Flags /\ Drq \notin {Crc} BY FlagsApart DEF Flags
  <1>10. /\ Outcome(failed) /\ failed.reg.cmd = "none" /\ failed.reg.count = 0 /\ failed.reg.script = 0
         /\ Drq \notin failed.reg.status
    <2> HIDE DEF same, failed
    <2>1. Outcome(failed) /\ failed.reg = Ended(Stepped, {Crc}) BY <1>7, <1>8, <1>9, WithReg DEF failed
    <2> QED BY <1>8, <1>9, <2>1
  <1>11. /\ Outcome(ended) /\ ended.reg.cmd = "none" /\ ended.reg.count = 0 /\ ended.reg.script = 0
         /\ Drq \notin ended.reg.status
    <2> HIDE DEF same, ended
    <2>1. Outcome(ended) /\ ended.reg = Ended(Stepped, {}) BY <1>7, <1>8, <1>9, WithReg DEF ended
    <2> QED BY <1>8, <1>9, <2>1
  <1> HIDE DEF failed, ended
  <1>12. /\ Past(Cur) \in DriveType /\ Past(Cur).at = Cur.at + 1 /\ Past(Cur).in = Cur.in
         /\ Past(Cur).track = Cur.track
         /\ Past(Cur).side = Cur.side /\ Past(Cur).offset = Cur.offset /\ Past(Cur).size = Cur.size
         /\ Past(Cur).sector = Cur.sector
         /\ Readable(Cur, ok) => /\ Cur.at < Size /\ Loaded(Cur) \in BufType
                                 /\ Loaded(Cur) = Image.units[Cur.at + 1].bytes
    BY <1>0, <1>1, <1>6, Taking
  <1>13. Readable(Cur, ok) => /\ Outcome(filled) /\ filled.reg = Stepped /\ filled.drive = Past(Cur)
                              /\ filled.buf = Loaded(Cur)
    <2> DEFINE p == Past(Cur)
               l == Loaded(Cur)
               r == Stepped
               s == [reg |-> r, drive |-> Cur, buf |-> buf]
    <2>1. filled = [reg |-> r, drive |-> p, buf |-> l]
      <3>1. filled = [s EXCEPT !.drive = p, !.buf = l] OBVIOUS
      <3> HIDE DEF p, l, r, filled
      <3> QED BY <3>1
    <2> HIDE DEF same, filled
    <2>2. filled.reg = Stepped /\ filled.drive = Past(Cur) /\ filled.buf = Loaded(Cur) BY <2>1
    <2>3. AtHead(Past(Cur)) BY <1>12 DEF AtHead
    <2> QED BY <1>4, <1>12, <2>1, <2>2, <2>3 DEF Outcome
  <1> HIDE DEF same, filled
  <1>14. SectorOver(same) <=> reg.count = 1 BY <1>1, <1>2, <1>4, <1>7 DEF SectorOver
  <1>15. ~SectorOver(failed) BY <1>10 DEF SectorOver
  <1>16. Readable(Cur, ok) => (SectorOver(filled) <=> reg.count = 1)
    BY <1>1, <1>2, <1>4, <1>13 DEF SectorOver
  <1>17. /\ reg.count # 1 /\ ~last => Becomes(same)
         /\ reg.count # 1 /\ last /\ Readable(Cur, ok) => Becomes(filled)
         /\ reg.count # 1 /\ last /\ ~Readable(Cur, ok) => Becomes(failed)
         /\ reg.count = 1 /\ reg.multi => Becomes(Advanced(Stepped, Cur, ok, ok2))
         /\ reg.count = 1 /\ ~reg.multi => Becomes(ended)
    <2>1. Stepped.count = 0 <=> reg.count = 1 BY <1>1, <1>4
    <2>2. Becomes(O(ok, ok2)) BY <1>3
    <2> HIDE DEF last
    <2> QED BY <1>14, <1>15, <1>16, <2>1, <2>2
  <1> HIDE DEF F, O, last
  <1> DEFINE first == First(Image, Cur.offset, job.id)
             k == Cur.at - 1 - first
  <1>18. /\ Cur.track = reg.track /\ Cur.side = reg.side /\ Cur.sector = job.id
         /\ Present(Image, Cur.offset, job.id) /\ Cur.size = CodeOn(Image, Cur.offset) * U
         /\ k >= 0 /\ reg.count + k * U + reg.pos = Cur.size
         /\ Cur.at <= Len(Image.units) /\ buf = Image.units[Cur.at].bytes
    BY <1>2, <1>6 DEF MovingIn
  <1>19. CASE reg.count # 1 /\ ~last
    <2>1. Becomes(same) BY <1>17, <1>19
    <2>2. reg' = Stepped BY <1>0, <1>7, <2>1, Became
    <2>3. JobFine(job') BY <1>0, <1>2, Onward
    <2>4. Types' /\ Holds' /\ ~wrong' /\ drive'[reg.sel] = Cur /\ buf' = buf
      BY <1>2, <1>4, <1>5, <1>7, <2>1, <2>3, BecameKeeps
    <2>5. Image' = Image /\ Cur' = Cur BY <1>2, <1>4, <2>2, <2>4, SameImage
    <2>6. reg'.count + k * U + reg'.pos = Cur.size
      <3> DEFINE x == k * U
      <3>1. reg'.count = reg.count - 1 /\ reg'.pos = reg.pos + 1 BY <1>4, <1>19, <2>2
      <3>2. reg.count + x + reg.pos = Cur.size BY <1>18
      <3>3. x \in Int
        <4>1. k \in Int BY <1>6
        <4> HIDE DEF k
        <4> QED BY <4>1, FloppyAssumption
      <3>4. reg'.count + x + reg'.pos = Cur.size
        <4> HIDE DEF x
        <4> QED BY <1>1, <3>1, <3>2, <3>3
      <3> HIDE DEF k
      <3> QED BY <3>4
    <2>7. MovingIn(Image, Cur, reg', buf, job)
      <3>1. reg'.track = reg.track /\ reg'.side = reg.side BY <1>4, <2>2
      <3> HIDE DEF k
      <3> QED BY <1>2, <1>18, <2>6, <3>1 DEF MovingIn, k
    <2> QED BY <1>1, <1>2, <1>4, <1>19, <2>2, <2>4, <2>5, <2>7, GoesOn
  <1>20. CASE reg.count # 1 /\ last /\ Readable(Cur, ok)
    <2>1. Becomes(filled) BY <1>17, <1>20
    <2>2. reg' = Stepped BY <1>0, <1>13, <1>20, <2>1, Became
    <2>3. JobFine(job') BY <1>0, <1>2, Onward
    <2>4. Types' /\ Holds' /\ ~wrong' /\ drive'[reg.sel] = Past(Cur) /\ buf' = Loaded(Cur)
      BY <1>2, <1>4, <1>5, <1>13, <1>20, <2>1, <2>3, BecameKeeps
    <2>5. Image' = Image /\ Cur' = Past(Cur) BY <1>2, <1>4, <2>2, <2>4, SameImage
    <2> DEFINE h == (Cur.at + 1) - 1 - first
    <2>6. h = k + 1 /\ h >= 0 BY <1>6, <1>18
    <2>7. reg'.count + h * U + reg'.pos = Cur.size
      <3> DEFINE x == k * U
                 y == h * U
      <3>1. reg'.count = reg.count - 1 /\ reg'.pos = 0 /\ reg.pos = U - 1 BY <1>4, <1>20, <2>2
      <3>2. reg.count + x + reg.pos = Cur.size BY <1>18
      <3>3. x \in Int /\ y = x + U
        <4>1. k \in Int BY <1>6
        <4> HIDE DEF k, h
        <4> QED BY <2>6, <4>1, FloppyAssumption
      <3>4. reg'.count + y + reg'.pos = Cur.size
        <4>1. U \in Int /\ reg.count \in Int BY <1>1, FloppyAssumption
        <4>2. reg.count + x + (U - 1) = Cur.size BY <3>1, <3>2
        <4> HIDE DEF x, y
        <4>3. reg'.count + y + reg'.pos = reg.count - 1 + (x + U) + 0 BY <3>1, <3>3
        <4> QED BY <3>3, <4>1, <4>2, <4>3
      <3> HIDE DEF h
      <3> QED BY <3>4
    <2>8. MovingIn(Image, Past(Cur), reg', Loaded(Cur), job)
      <3>1. reg'.track = reg.track /\ reg'.side = reg.side BY <1>4, <2>2
      <3>2. Cur.at + 1 <= Len(Image.units) /\ Loaded(Cur) = Image.units[Cur.at + 1].bytes
        BY <1>1, <1>6, <1>12, <1>20
      <3> DEFINE at == Cur.at + 1
      <3>3. /\ Past(Cur).at = at /\ h = at - 1 - first
            /\ at <= Len(Image.units) /\ Loaded(Cur) = Image.units[at].bytes
        <4>1. Past(Cur).at = at BY <1>12
        <4>2. h = at - 1 - first OBVIOUS
        <4> QED BY <3>2, <4>1, <4>2
      <3> HIDE DEF k, h, at
      <3> QED BY <1>2, <1>12, <1>18, <2>6, <2>7, <3>1, <3>3 DEF MovingIn
    <2> QED BY <1>1, <1>2, <1>4, <1>20, <2>2, <2>4, <2>5, <2>8, GoesOn
  <1>21. CASE reg.count # 1 /\ last /\ ~Readable(Cur, ok)
    BY <1>2, <1>5, <1>10, <1>17, <1>21, EndsTransfer
  <1>22. CASE reg.count = 1 /\ ~reg.multi
    BY <1>2, <1>5, <1>11, <1>17, <1>22, EndsTransfer
  <1>23. CASE reg.count = 1 /\ reg.multi
    <2> DEFINE o == Advanced(Stepped, Cur, ok, ok2)
    <2>1. Becomes(o) BY <1>17, <1>23
    <2>2. /\ Outcome(o) /\ o.reg.sel = reg.sel /\ o.reg.track = reg.track /\ o.reg.side = reg.side
          /\ GivenUp(o, Stepped) \/ Failed(o) \/ ToNext(o, Stepped, Cur)
      BY <1>0, <1>4, CurHead, AdvancedIs
    <2> HIDE DEF o
    <2>3. reg' = o.reg BY <1>0, <2>1, <2>2, Became
    <2>4. JobFine(job') BY <1>0, <1>2, Onward
    <2>5. Types' /\ Holds' /\ ~wrong' /\ (o.reg.cmd # "none" => drive'[reg.sel] = o.drive /\ buf' = o.buf)
      BY <1>2, <1>5, <2>1, <2>2, <2>4, BecameKeeps
    <2>6. Image' = Image BY <1>2, <2>2, <2>3, SameImage
    <2>7. Stepped.count = 0 BY <1>4, <1>23
    <2> QED BY <1>1, <1>2, <1>4, <1>23, <2>2, <2>3, <2>5, <2>6, <2>7, NextTransfer
  <1> QED BY <1>19, <1>20, <1>21, <1>22, <1>23

\* A step that changes the selected drive, its image and what is believed of it.
LEMMA HoldsChanged ==
  ASSUME Inv, disk' = disk, wrong' = wrong, RegFine(reg'), JobFine(job'), buf' \in BufType,
         NEW d \in DriveType, drive' = [drive EXCEPT ![reg.sel] = d],
         NEW img \in ImageType, file' = [file EXCEPT ![reg.sel] = img],
         NEW tracks, TracksFine(tracks), DOMAIN belief' = Drives, belief'[reg.sel] = tracks,
         \A e \in Drives : e # reg.sel => belief'[e] = belief[e],
         HoldsIn(img, tracks), CachedIn(img, d, tracks)
  PROVE  Types' /\ Holds' /\ ~wrong' /\ drive'[reg.sel] = d /\ (reg'.sel = reg.sel => Image' = img /\ Cur' = d)
  <1>1. /\ reg.sel \in Drives /\ drive \in [Drives -> DriveType] /\ file \in [Drives -> ImageType]
        /\ \A e \in Drives : TracksFine(belief[e])
    BY Selected DEF Inv, Types
  <1>2. /\ drive' \in [Drives -> DriveType] /\ drive'[reg.sel] = d
        /\ \A e \in Drives : e # reg.sel => drive'[e] = drive[e]
    BY <1>1
  <1>3. /\ file' \in [Drives -> ImageType] /\ file'[reg.sel] = img
        /\ \A e \in Drives : e # reg.sel => file'[e] = file[e]
    BY <1>1
  <1>4. Types'
    <2>1. RegFine(reg)' BY TypesStay
    <2>2. JobFine(job)' BY DEF JobFine
    <2>3. drive' \in [Drives' -> DriveType'] /\ file' \in [Drives' -> ImageType'] BY <1>2, <1>3, TypesStay
    <2>4. \A e \in Drives : TracksFine(belief'[e]) BY <1>1
    <2>5. DOMAIN belief' = Drives' /\ \A e \in Drives' : TracksFine(belief[e])' BY <2>4, TypesStay
    <2>6. (buf \in BufType)' BY DEF BufType
    <2> QED BY <2>1, <2>2, <2>3, <2>5, <2>6 DEF Inv, Types
  <1>5. \A e \in Drives : HoldsIn(file'[e], belief'[e]) /\ CachedIn(file'[e], drive'[e], belief'[e])
    <2>1. \A e \in Drives : HoldsIn(file[e], belief[e]) /\ CachedIn(file[e], drive[e], belief[e])
      BY DEF Inv, Holds
    <2> QED BY <1>2, <1>3, <2>1
  <1>6. Holds' BY <1>5, TypesStay DEF Holds
  <1>7. reg'.sel = reg.sel => Image' = img /\ Cur' = d BY <1>2, <1>3 DEF Image, Cur
  <1> QED BY <1>2, <1>4, <1>6, <1>7 DEF Inv

LEMMA BelievingIs ==
  ASSUME Inv, NEW id, NEW v \in Byte
  PROVE  LET b == Believing(id, v)
         IN  /\ DOMAIN b = Drives /\ b[reg.sel] = Know(belief[reg.sel], Here, id, v)
             /\ \A e \in Drives : e # reg.sel => b[e] = belief[e]
             /\ TracksFine(Know(belief[reg.sel], Here, id, v))
  <1> DEFINE b == Believing(id, v)
             t == belief[reg.sel]
             u == [t EXCEPT ![Here].data[id] = v]
  <1>1. reg.sel \in Drives /\ Here \in Slots /\ DOMAIN belief = Drives /\ TracksFine(t)
    BY Selected DEF Inv, Types
  <1>2. OnDisk = t[Here] BY <1>1 DEF OnDisk
  <1>3. TracksFine(Know(t, Here, id, v))
    <2> HIDE DEF t
    <2> QED BY <1>1, Known
  <1>4. CASE id \in ToSet(t[Here].ids)
    <2>1. b = [belief EXCEPT ![reg.sel] = u] BY <1>2, <1>4 DEF Believing
    <2>2. Know(t, Here, id, v) = u BY <1>4 DEF Know
    <2> HIDE DEF u, b, t
    <2> QED BY <1>1, <1>3, <2>1, <2>2 DEF t, b
  <1>5. CASE id \notin ToSet(t[Here].ids)
    <2>1. b = belief BY <1>2, <1>5 DEF Believing
    <2>2. Know(t, Here, id, v) = t BY <1>5 DEF Know
    <2> QED BY <1>1, <1>3, <2>1, <2>2
  <1> QED BY <1>4, <1>5

\* The cache is good while the table and the names of the sectors are as they were.
LEMMA CachedStored ==
  ASSUME disk \in Setups, NEW image \in ImageType, NEW img \in ImageType, img.table = image.table,
         Len(img.units) = Len(image.units),
         NEW d, NEW t, NEW u, \A s \in Slots : u[s].ids = t[s].ids, CachedIn(image, d, t)
  PROVE  CachedIn(img, d, u)
  <1>1. img.units = <<>> <=> image.units = <<>>
    <2>1. img.units \in Seq(UnitType) /\ image.units \in Seq(UnitType) BY DEF ImageType
    <2> QED BY <2>1
  <1>2. \A slot : Offset(img, slot) = Offset(image, slot) BY <1>1 DEF Offset
  <1>3. Blank(t) <=> Blank(u) BY DEF Blank
  <1> QED BY <1>2, <1>3 DEF CachedIn

LEMMA WithBuf ==
  ASSUME NEW o, Outcome(o), NEW c \in BufType
  PROVE  LET e == [o EXCEPT !.buf = c]
         IN  Outcome(e) /\ e.reg = o.reg /\ e.drive = o.drive /\ e.buf = c
  <1> DEFINE d == o.drive
             b == o.buf
             r == o.reg
             e == [o EXCEPT !.buf = c]
  <1>1. o = [reg |-> r, drive |-> d, buf |-> b] /\ RegFine(r) /\ AtHead(d) BY DEF Outcome
  <1> HIDE DEF d, b, r
  <1>2. e = [reg |-> r, drive |-> d, buf |-> c] BY <1>1
  <1> HIDE DEF e
  <1>3. e.reg = r /\ e.drive = d /\ e.buf = c BY <1>2
  <1>4. Outcome(e) BY <1>1, <1>2, <1>3 DEF Outcome
  <1> QED BY <1>3, <1>4 DEF e, d, r

\* The byte that is given goes to its place in the buffer.
LEMMA Buffered ==
  ASSUME Inv, job.op = "write", reg.cmd = "write", reg.count # 0
  PROVE  LET b == [buf EXCEPT ![reg.pos] = job.byte]
         IN  /\ b \in BufType /\ Sector(b) \in UnitType /\ Sector(b).ids = <<>> /\ Sector(b).bytes = b
             /\ \A i \in 0 .. reg.pos : b[i] = job.byte
             /\ job.byte \in Byte
  <1> DEFINE b == [buf EXCEPT ![reg.pos] = job.byte]
  <1>1. buf \in BufType /\ reg.pos \in 0 .. U - 1 /\ JobFine(job) BY Selected DEF Inv, Types
  <1>2. job.byte \in Byte /\ ~job.done BY <1>1 DEF JobFine, JobType, Byte
  <1>3. b \in BufType BY <1>1, <1>2 DEF BufType
  <1>4. MovingIn(Image, Cur, reg, buf, job) BY <1>2, UnderwayNow
  <1>5. \A i \in 0 .. reg.pos - 1 : buf[i] = job.byte BY <1>4 DEF MovingIn
  <1>6. \A i \in 0 .. reg.pos : b[i] = job.byte BY <1>1, <1>5, FloppyAssumption DEF BufType
  <1> HIDE DEF b
  <1>7. Sector(b) \in UnitType
    <2>1. <<>> \in Seq(Nat) /\ 0 \in Nat OBVIOUS
    <2> QED BY <1>3, <2>1 DEF Sector, UnitType, BufType
  <1>8. Sector(b).ids = <<>> /\ Sector(b).bytes = b BY DEF Sector
  <1> QED BY <1>2, <1>3, <1>6, <1>7, <1>8 DEF b

\* The unit in the buffer is written where the transfer is.
LEMMA UnitWritten ==
  ASSUME Inv, job.op = "write", reg.cmd = "write", reg.count # 0, reg.pos = U - 1, Cur.at < Size
  PROVE  LET b == [buf EXCEPT ![reg.pos] = job.byte]
             img == [Image EXCEPT !.units[Cur.at + 1] = Sector(b)]
         IN  /\ img \in ImageType /\ Len(img.units) = Len(Image.units)
             /\ HeaderOf(img, Cur.offset) = HeaderOf(Image, Cur.offset)
             /\ \A p \in First(Image, Cur.offset, job.id) + 1 .. Cur.at + 1, i \in 0 .. U - 1 :
                    img.units[p].bytes[i] = job.byte
             /\ \A v \in {Undefined, job.byte} : v = Undefined \/ reg.count = 1 =>
                    LET t == Know(belief[reg.sel], Here, job.id, v)
                    IN  HoldsIn(img, t) /\ CachedIn(img, Cur, t)
  <1> DEFINE b == [buf EXCEPT ![reg.pos] = job.byte]
             unit == Sector(b)
             img == [Image EXCEPT !.units[Cur.at + 1] = unit]
             first == First(Image, Cur.offset, job.id)
             code == CodeOn(Image, Cur.offset)
             tracks == belief[reg.sel]
  <1>1. /\ disk \in Setups /\ Here \in Slots /\ reg.sel \in Drives /\ Image \in ImageType /\ Cur \in DriveType
        /\ Size = Len(Image.units) /\ JobFine(job)
    BY Selected DEF Inv, Types
  <1>2. ~job.done /\ job.id \in Nat BY <1>1 DEF JobFine, JobType
  <1>3. /\ MovingIn(Image, Cur, reg, buf, job) /\ code \in Nat \ {0} /\ first \in Nat /\ first > Cur.offset
        /\ Cur.offset \in Nat /\ Cur.at \in Nat
    BY <1>2, UnderwayNow
  <1>4. Behind \in Nat /\ Behind < code /\ (reg.count = 1 => Behind = code - 1) BY <1>2, BehindIs, SteppedIs
  <1>5. Behind = Cur.at - first
    <2>1. Behind = Cur.at - 0 - first BY DEF Behind
    <2> HIDE DEF first
    <2> QED BY <1>3, <2>1
  <1>6. Cur.at = first + Behind /\ Cur.at \in first .. first + code - 1
        /\ (reg.count = 1 => Cur.at + 1 = first + code)
    <2> HIDE DEF first, code
    <2> QED BY <1>3, <1>4, <1>5
  <1>7. /\ b \in BufType /\ unit \in UnitType /\ unit.ids = <<>> /\ unit.bytes = b /\ job.byte \in Byte
        /\ \A i \in 0 .. U - 1 : b[i] = job.byte
    BY <1>2, Buffered
  <1> HIDE DEF b, unit
  <1>8. /\ img \in ImageType /\ img.table = Image.table
        /\ Len(img.units) = Len(Image.units) /\ Cur.at + 1 \in 1 .. Len(Image.units)
        /\ \A q \in 1 .. Len(Image.units) : img.units[q] = IF q = Cur.at + 1 THEN unit ELSE Image.units[q]
    BY <1>1, <1>3, <1>7, StoredAt
  <1>i. img = [Image EXCEPT !.units[Cur.at + 1] = unit] OBVIOUS
  <1> HIDE DEF img, first, code, tracks
  <1>9. HeaderOf(img, Cur.offset) = HeaderOf(Image, Cur.offset)
    <2>1. Cur.offset + 1 # Cur.at + 1 BY <1>3, <1>6
    <2>2. Len(Image.units) \in Nat BY <1>1 DEF ImageType
    <2> DEFINE o == Cur.offset
    <2>3. o < Len(Image.units) => img.units[o + 1] = Image.units[o + 1]
      <3>1. o < Len(Image.units) => o + 1 \in 1 .. Len(Image.units) BY <1>3, <2>2
      <3> QED BY <1>8, <2>1, <3>1
    <2>4. Len(img.units) = Len(Image.units) BY <1>8
    <2> HIDE DEF o
    <2>5. HeaderOf(img, o) = HeaderOf(Image, o) BY <2>3, <2>4 DEF HeaderOf
    <2> QED BY <2>5 DEF o
  <1>10. ASSUME NEW p \in first + 1 .. Cur.at + 1, NEW i \in 0 .. U - 1
         PROVE  img.units[p].bytes[i] = job.byte
    <2>1. p \in 1 .. Len(Image.units)
      <3>1. Len(Image.units) \in Nat BY <1>1 DEF ImageType
      <3> QED BY <1>3, <1>8, <3>1
    <2>2. CASE p = Cur.at + 1 BY <1>7, <1>8, <2>1, <2>2
    <2>3. CASE p # Cur.at + 1
      <3>1. p \in first + 1 .. Cur.at BY <1>3, <2>3
      <3>2. Image.units[p].bytes[i] = job.byte BY <1>3, <3>1 DEF MovingIn, first
      <3> QED BY <1>8, <2>1, <2>3, <3>2
    <2> QED BY <2>2, <2>3
  <1>11. ASSUME NEW v \in {Undefined, job.byte}, v = Undefined \/ reg.count = 1
         PROVE  HoldsIn(img, Know(tracks, Here, job.id, v)) /\ CachedIn(img, Cur, Know(tracks, Here, job.id, v))
    <2>1. TracksFine(tracks) /\ HoldsIn(Image, tracks) /\ CachedIn(Image, Cur, tracks)
      BY <1>1 DEF Inv, Types, Holds, Image, Cur, tracks
    <2>2. v \in Byte BY <1>7 DEF Byte
    <2> DEFINE t == Know(tracks, Here, job.id, v)
    <2>3. \A s \in Slots : t[s].ids = tracks[s].ids BY <1>1, <2>1, <2>2, Known
    <2>4. CachedIn(img, Cur, t)
      <3> HIDE DEF t
      <3> QED BY <1>1, <1>8, <2>1, <2>3, CachedStored
    <2>5. Blank(tracks) \/
             /\ \A i \in 0 .. Here - 1 : Image.table[i] # 0
             /\ Present(Image, Start(Image.table, Here), job.id)
             /\ Cur.at \in First(Image, Start(Image.table, Here), job.id)
                             .. First(Image, Start(Image.table, Here), job.id)
                                  + CodeOn(Image, Start(Image.table, Here)) - 1
             /\ v # Undefined =>
                  \A p \in First(Image, Start(Image.table, Here), job.id) + 1
                             .. First(Image, Start(Image.table, Here), job.id)
                                  + CodeOn(Image, Start(Image.table, Here)), i \in 0 .. U - 1 :
                      img.units[p].bytes[i] = v
      <3>1. SUFFICES ASSUME ~Blank(tracks)
                     PROVE  /\ \A i \in 0 .. Here - 1 : Image.table[i] # 0
                            /\ Start(Image.table, Here) = Cur.offset
        <4>1. Present(Image, Cur.offset, job.id) BY <1>3 DEF MovingIn
        <4>2. v # Undefined => \A p \in first + 1 .. first + code, i \in 0 .. U - 1 : img.units[p].bytes[i] = v
          BY <1>6, <1>10, <1>11
        <4> QED BY <1>6, <4>1, <4>2 DEF first, code
      <3>2. Cur.in /\ Cur.track = reg.track /\ Cur.side = reg.side BY <1>3 DEF MovingIn
      <3>3. Offset(Image, Here) # 0 /\ Cur.offset = Offset(Image, Here) BY <2>1, <3>1, <3>2 DEF CachedIn, Here
      <3> QED BY <1>1, <3>3, OffsetIs
    <2>6. HoldsIn(img, t)
      <3> HIDE DEF t
      <3> DEFINE at == Cur.at
                 image == Image
                 slot == Here
                 id == job.id
      <3>1. img = [image EXCEPT !.units[at + 1] = unit] BY <1>i
      <3>2. at \in Nat /\ at < Len(image.units) /\ image \in ImageType /\ slot \in Slots /\ id \in Nat
        BY <1>1, <1>2, <1>3
      <3>3. TracksFine(tracks) /\ HoldsIn(image, tracks) BY <2>1
      <3>4. Blank(tracks) \/
             /\ \A i \in 0 .. slot - 1 : image.table[i] # 0
             /\ LET o == Start(image.table, slot)
                    f == First(image, o, id)
                    c == CodeOn(image, o)
                IN  /\ Present(image, o, id) /\ at \in f .. f + c - 1
                    /\ v # Undefined => \A p \in f + 1 .. f + c, i \in 0 .. U - 1 :
                                            img.units[p].bytes[i] = v
        BY <2>5
      <3> HIDE DEF at, image, slot, id
      <3>5. HoldsIn(img, Know(tracks, slot, id, v))
        <4>1. disk \in Setups /\ unit \in UnitType /\ unit.ids = <<>> /\ v \in Byte BY <1>1, <1>7, <2>2
        <4> QED BY <3>1, <3>2, <3>3, <3>4, <4>1, SectorStored, ZenonT(60)
      <3> QED BY <3>5 DEF slot, id, t
    <2> QED BY <2>4, <2>6
  <1> QED BY <1>8, <1>9, <1>10, <1>11 DEF img, unit, b, first, tracks

LEMMA WriteByteKeeps == ASSUME Inv, disk' = disk, WriteByte PROVE Inv'
  <1>0. Types /\ RegFine(reg) /\ JobFine(job) /\ disk \in Setups /\ buf \in BufType BY DEF Inv, Types
  <1>1. /\ Works \subseteq BOOLEAN /\ reg.count \in Nat /\ Image \in ImageType /\ Cur \in DriveType
        /\ Size = Len(Image.units) /\ reg.pos \in 0 .. U - 1 /\ reg.sel \in Drives
        /\ drive \in [Drives -> DriveType] /\ file \in [Drives -> ImageType]
    BY <1>0, Selected DEF Types
  <1>2. /\ job.op = "write" /\ job.ready /\ reg.cmd = "write" /\ reg.count # 0 /\ Cur.in
        /\ job' = OnToNext(reg') /\ UNCHANGED wrong /\ ~job.done
    BY <1>0 DEF WriteByte, JobFine
  <1> DEFINE b == [buf EXCEPT ![reg.pos] = job.byte]
             last == reg.pos = Chunk(Cur) - 1
             S(ok) == last /\ ok /\ Cur.at < Size
             same(ok) == [reg |-> Stepped, drive |-> IF S(ok) THEN Past(Cur) ELSE Cur, buf |-> b]
             failed(ok) == [same(ok) EXCEPT !.reg = Ended(Stepped, {Fault})]
             ended(ok) == [same(ok) EXCEPT !.reg = Ended(Stepped, {})]
             next(ok, ok2) == [Advanced(Stepped, same(ok).drive, ok2, ok2) EXCEPT !.buf = b]
             O(ok, ok2, landed) ==
                 IF last /\ ~S(ok) THEN failed(ok)
                 ELSE IF ~SectorOver(same(ok)) THEN same(ok)
                 ELSE IF disk[reg.sel].dirsrc /\ ~landed THEN failed(ok)
                 ELSE IF reg.multi THEN next(ok, ok2) ELSE ended(ok)
             Wrote(ok, landed) == S(ok) \/ (last /\ Cur.at < Size /\ ~landed)
             R(ok, ok2, landed) ==
                 /\ Becomes(O(ok, ok2, landed))
                 /\ file' = IF Wrote(ok, landed)
                            THEN [file EXCEPT ![reg.sel].units[Cur.at + 1] = Sector(b)] ELSE file
                 /\ belief' = IF SectorOver(same(ok)) /\ Fault \notin O(ok, ok2, landed).reg.status
                              THEN Believing(job.id, job.byte) ELSE Believing(job.id, Undefined)
  <1>3. PICK ok \in BOOLEAN, ok2 \in BOOLEAN, landed \in BOOLEAN : R(ok, ok2, landed)
    <2>1. \E ok \in Works, ok2 \in Works, landed \in Works : R(ok, ok2, landed) BY DEF WriteByte, Stepped
    <2> HIDE DEF R
    <2> QED BY <1>1, <2>1
  <1> DEFINE d == IF S(ok) THEN Past(Cur) ELSE Cur
             s == same(ok)
             o == O(ok, ok2, landed)
             wrote == Wrote(ok, landed)
             img == IF wrote THEN [Image EXCEPT !.units[Cur.at + 1] = Sector(b)] ELSE Image
             v == IF SectorOver(s) /\ Fault \notin o.reg.status THEN job.byte ELSE Undefined
             tracks == Know(belief[reg.sel], Here, job.id, v)
  <1>4. /\ RegFine(Stepped) /\ Stepped.count = reg.count - 1 /\ Stepped.polls = 0
        /\ Stepped.status = reg.status /\ Stepped.script = reg.script /\ Stepped.cmd = "write"
        /\ Stepped.sel = reg.sel /\ Stepped.track = reg.track /\ Stepped.side = reg.side
        /\ Stepped.multi = reg.multi
        /\ Stepped.pos = (IF reg.pos = U - 1 THEN 0 ELSE reg.pos + 1)
        /\ last <=> reg.pos = U - 1
        /\ reg.count = 1 => reg.pos = U - 1 /\ Behind = CodeOn(Image, Cur.offset) - 1
    BY <1>2, SteppedIs
  <1>5. /\ b \in BufType /\ \A i \in 0 .. reg.pos : b[i] = job.byte
        /\ job.byte \in Byte /\ v \in Byte /\ v \in {Undefined, job.byte}
    <2>1. b \in BufType /\ (\A i \in 0 .. reg.pos : b[i] = job.byte) /\ job.byte \in Byte BY <1>2, Buffered
    <2> HIDE DEF b, s, o
    <2> QED BY <2>1 DEF Byte
  <1>6. /\ MovingIn(Image, Cur, reg, buf, job) /\ Chunk(Cur) = U /\ Cur.at \in Nat /\ Cur.offset \in Nat
        /\ First(Image, Cur.offset, job.id) \in Nat
    BY <1>2, UnderwayNow
  <1>7. /\ Past(Cur) \in DriveType /\ Past(Cur).at = Cur.at + 1 /\ Past(Cur).in = Cur.in
        /\ Past(Cur).track = Cur.track
        /\ Past(Cur).side = Cur.side /\ Past(Cur).offset = Cur.offset /\ Past(Cur).size = Cur.size
        /\ Past(Cur).sector = Cur.sector
    BY <1>0, <1>1, <1>6, Taking
  <1>8. /\ AtHead(d) /\ d \in DriveType /\ d.sector = Cur.sector /\ d.size = Cur.size
        /\ d.at = IF S(ok) THEN Cur.at + 1 ELSE Cur.at
    <2>1. AtHead(Past(Cur)) /\ AtHead(Cur) BY <1>1, <1>7 DEF AtHead
    <2> HIDE DEF S
    <2> QED BY <1>1, <1>7, <2>1
  <1>9. Outcome(s) /\ s.reg = Stepped /\ s.drive = d /\ s.buf = b
    <2> HIDE DEF d, b
    <2>1. s = [reg |-> Stepped, drive |-> d, buf |-> b] BY DEF d
    <2> HIDE DEF s
    <2>2. s.reg = Stepped /\ s.drive = d /\ s.buf = b BY <2>1
    <2> QED BY <1>4, <1>5, <1>8, <2>1, <2>2 DEF Outcome
  <1>10. /\ \A st \in SUBSET Flags : RegFine(Ended(Stepped, st)) /\ Ended(Stepped, st).status = st
         /\ \A st \in SUBSET Flags : /\ Ended(Stepped, st).cmd = "none" /\ Ended(Stepped, st).count = 0
                                     /\ Ended(Stepped, st).script = 0 /\ Ended(Stepped, st).sel = reg.sel
    BY <1>0, <1>4, EndedIs
  <1>11. {Fault} \in SUBSET Flags /\ {} \in SUBSET Flags /\ Drq \notin {Fault} BY FlagsApart DEF Flags
  <1> DEFINE Over(x) == /\ Outcome(x) /\ x.reg.cmd = "none" /\ x.reg.count = 0 /\ x.reg.script = 0
                        /\ Drq \notin x.reg.status /\ x.reg.sel = reg.sel
             f == failed(ok)
             e == ended(ok)
             g == next(ok, ok2)
             a == Advanced(Stepped, d, ok2, ok2)
  <1>12. Over(f) /\ f.reg.status = {Fault}
    <2>1. f = [s EXCEPT !.reg = Ended(Stepped, {Fault})] OBVIOUS
    <2> HIDE DEF s, f
    <2>2. Outcome(f) /\ f.reg = Ended(Stepped, {Fault}) BY <1>9, <1>10, <1>11, <2>1, WithReg
    <2> QED BY <1>10, <1>11, <2>2
  <1>13. Over(e)
    <2>1. e = [s EXCEPT !.reg = Ended(Stepped, {})] OBVIOUS
    <2> HIDE DEF s, e
    <2>2. Outcome(e) /\ e.reg = Ended(Stepped, {}) BY <1>9, <1>10, <1>11, <2>1, WithReg
    <2> QED BY <1>10, <1>11, <2>2
  <1>14. /\ Outcome(g) /\ g.reg.sel = reg.sel /\ g.reg.track = reg.track /\ g.reg.side = reg.side
         /\ GivenUp(g, Stepped) \/ ToNext(g, Stepped, Cur)
    <2>1. /\ Outcome(a) /\ a.reg.sel = reg.sel /\ a.reg.track = reg.track /\ a.reg.side = reg.side
          /\ GivenUp(a, Stepped) \/ ToNext(a, Stepped, d)
      <3> HIDE DEF d
      <3> QED BY <1>0, <1>4, <1>8, AdvancedIs
    <2>2. g = [a EXCEPT !.buf = b]
      <3>1. g = [Advanced(Stepped, s.drive, ok2, ok2) EXCEPT !.buf = b] OBVIOUS
      <3> HIDE DEF s, g, b, d
      <3> QED BY <1>9, <3>1
    <2> HIDE DEF a, g, b, d
    <2>3. Outcome(g) /\ g.reg = a.reg /\ g.drive = a.drive BY <1>5, <2>1, <2>2, WithBuf
    <2>4. GivenUp(a, Stepped) => GivenUp(g, Stepped) BY <2>3 DEF GivenUp, Afoot
    <2>5. ToNext(a, Stepped, d) => ToNext(g, Stepped, Cur)
      <3>1. d.sector = Cur.sector /\ d.offset = Cur.offset BY <1>8 DEF AtHead
      <3> QED BY <1>4, <2>3, <3>1 DEF ToNext, Afoot
    <2> QED BY <2>1, <2>3, <2>4, <2>5
  <1>15. SectorOver(s) <=> reg.count = 1
    <2> HIDE DEF s
    <2> QED BY <1>1, <1>2, <1>4, <1>9 DEF SectorOver
  <1>16. /\ R(ok, ok2, landed)
         /\ o = IF last /\ ~S(ok) THEN f ELSE IF ~SectorOver(s) THEN s
                ELSE IF disk[reg.sel].dirsrc /\ ~landed THEN f ELSE IF reg.multi THEN g ELSE e
    BY <1>3
  <1>17. /\ Becomes(o) /\ file' = (IF wrote THEN [file EXCEPT ![reg.sel].units[Cur.at + 1] = Sector(b)] ELSE file)
         /\ belief' = Believing(job.id, v)
    BY <1>16
  <1> HIDE DEF R, O, same, failed, ended, next, s, f, e, g, a, o
  <1>18. Outcome(o) /\ o.reg.sel = reg.sel BY <1>4, <1>9, <1>12, <1>13, <1>14, <1>16
  <1>19. file' = [file EXCEPT ![reg.sel] = img]
    <2>1. CASE wrote BY <1>17, <2>1 DEF Image
    <2>2. CASE ~wrote
      <3>1. file' = file /\ img = Image BY <1>17, <2>2
      <3> QED BY <1>1, <3>1 DEF Image
    <2> QED BY <2>1, <2>2
  <1>20. v = Undefined \/ (reg.count = 1 /\ wrote)
    <2>1. SUFFICES ASSUME v # Undefined PROVE reg.count = 1 /\ wrote OBVIOUS
    <2>2. SectorOver(s) /\ Fault \notin o.reg.status BY <2>1
    <2>3. last BY <1>4, <1>15, <2>2
    <2>4. o # f BY <1>12, <2>2
    <2>5. S(ok) BY <1>16, <2>3, <2>4
    <2> QED BY <1>15, <2>2, <2>5
  <1>21. wrote => reg.pos = U - 1 /\ Cur.at < Size BY <1>4
  <1> DEFINE first == First(Image, Cur.offset, job.id)
  <1>22. /\ img \in ImageType /\ Len(img.units) = Len(Image.units)
         /\ HeaderOf(img, Cur.offset) = HeaderOf(Image, Cur.offset)
         /\ wrote => \A p \in first + 1 .. Cur.at + 1, i \in 0 .. U - 1 : img.units[p].bytes[i] = job.byte
         /\ TracksFine(tracks) /\ HoldsIn(img, tracks) /\ CachedIn(img, Cur, tracks)
    <2>1. TracksFine(tracks)
      <3> HIDE DEF v
      <3> QED BY <1>5, BelievingIs
    <2>2. CASE wrote
      <3>1. img = [Image EXCEPT !.units[Cur.at + 1] = Sector(b)] BY <2>2
      <3> HIDE DEF v, img, wrote, S, last
      <3> QED BY <1>2, <1>5, <1>20, <1>21, <2>1, <2>2, <3>1, UnitWritten
    <2>3. CASE ~wrote
      <3>1. img = Image /\ v = Undefined BY <1>20, <2>3
      <3> HIDE DEF v, img, wrote, S, last
      <3>2. /\ HoldsIn(Image, belief[reg.sel]) /\ CachedIn(Image, Cur, belief[reg.sel])
            /\ TracksFine(belief[reg.sel]) /\ Here \in Slots
        BY <1>0, <1>1, Selected DEF Inv, Types, Holds, Image, Cur
      <3>3. HoldsIn(Image, tracks) BY <1>0, <1>1, <3>1, <3>2, Doubted
      <3>4. \A t \in Slots : tracks[t].ids = belief[reg.sel][t].ids BY <1>5, <3>2, Known
      <3>5. CachedIn(Image, Cur, tracks)
        <4> HIDE DEF tracks
        <4> QED BY <1>0, <1>1, <3>2, <3>4, CachedStored
      <3> QED BY <1>1, <2>1, <2>3, <3>1, <3>3, <3>5
    <2> QED BY <2>2, <2>3
  <1>23. /\ DOMAIN belief' = Drives /\ belief'[reg.sel] = tracks
         /\ \A x \in Drives : x # reg.sel => belief'[x] = belief[x]
    <2> HIDE DEF v
    <2> QED BY <1>5, <1>17, BelievingIs
  <1> HIDE DEF img, tracks, v, first, wrote
  <1>24. reg' = o.reg BY <1>0, <1>17, <1>18, Became
  <1>25. JobFine(job') /\ job'.op = "write" BY <1>0, <1>2, Onward
  <1>26. /\ Types' /\ Holds' /\ ~wrong' /\ Image' = img
         /\ o.reg.cmd # "none" => drive'[reg.sel] = o.drive /\ Cur' = o.drive /\ buf' = o.buf
    <2> DEFINE h == drive'[reg.sel]
    <2>1. /\ AtHead(h) /\ drive' = [drive EXCEPT ![reg.sel] = h] /\ buf' \in BufType
          /\ o.reg.cmd # "none" => h = o.drive /\ buf' = o.buf
      BY <1>0, <1>17, <1>18, Became
    <2> HIDE DEF h
    <2>2. h \in DriveType /\ CachedIn(img, h, tracks) BY <1>22, <2>1, CachedSame DEF AtHead
    <2>3. RegFine(reg') /\ reg'.sel = reg.sel BY <1>18, <1>24 DEF Outcome
    <2>4. Types' /\ Holds' /\ ~wrong' /\ drive'[reg.sel] = h /\ Image' = img /\ Cur' = h
      BY <1>2, <1>19, <1>22, <1>23, <1>25, <2>1, <2>2, <2>3, HoldsChanged
    <2> QED BY <2>1, <2>4
  <1>27. CASE Over(o)
    <2>1. /\ reg'.cmd = "none" /\ reg'.count = 0 /\ reg'.script = 0 /\ Drq \notin reg'.status BY <1>24, <1>27
    <2>2. ~job'.ready BY <1>0, <1>2, <2>1, Onward
    <2> QED BY <1>25, <1>26, <2>1, <2>2, NoTransfer, Together
  <1>28. CASE o = g /\ reg.count = 1
    <2>1. /\ Image' \in ImageType /\ Len(Image'.units) = Len(Image.units)
          /\ HeaderOf(Image', Cur.offset) = HeaderOf(Image, Cur.offset)
      BY <1>22, <1>26
    <2>2. Stepped.count = 0 BY <1>4, <1>28
    <2> QED BY <1>2, <1>4, <1>14, <1>18, <1>24, <1>26, <1>28, <2>1, <2>2, NextTransfer
  <1>29. CASE o = s /\ reg.count # 1 /\ (~last \/ S(ok))
    <2> DEFINE k == d.at - 0 - first
               j == Cur.at - 0 - first
    <2>1. reg' = Stepped /\ reg'.cmd # "none" /\ Cur' = d /\ buf' = b
      BY <1>4, <1>9, <1>24, <1>26, <1>29
    <2>2. /\ Cur.track = reg.track /\ Cur.side = reg.side /\ Cur.sector = job.id
          /\ Present(Image, Cur.offset, job.id) /\ Cur.size = CodeOn(Image, Cur.offset) * U
          /\ j >= 0 /\ reg.count + j * U + reg.pos = Cur.size
          /\ \A p \in first + 1 .. Cur.at : \A i \in 0 .. U - 1 : Image.units[p].bytes[i] = job.byte
      BY <1>2, <1>6 DEF MovingIn, first
    <2>3. first \in Nat /\ j \in Int BY <1>6 DEF first
    <2>4. /\ Present(img, Cur.offset, job.id) /\ CodeOn(img, Cur.offset) = CodeOn(Image, Cur.offset)
          /\ First(img, Cur.offset, job.id) = first
      BY <1>22, <2>2 DEF Present, CodeOn, PlaceOn, First, first
    <2>5. CASE ~last
      <3>1. d = Cur /\ d.at = Cur.at /\ ~wrote BY <1>8, <2>5 DEF wrote
      <3>2. reg'.count = reg.count - 1 /\ reg'.pos = reg.pos + 1 BY <1>4, <2>1, <2>5
      <3>3. reg'.count + k * U + reg'.pos = Cur.size
        <4> DEFINE x == j * U
        <4>1. k = j BY <3>1
        <4>2. x \in Int
          <5> HIDE DEF j
          <5> QED BY <2>3, FloppyAssumption
        <4>3. reg.count + x + reg.pos = Cur.size BY <2>2
        <4>4. reg'.count + x + reg'.pos = Cur.size
          <5> HIDE DEF x
          <5> QED BY <1>1, <3>2, <4>2, <4>3
        <4> HIDE DEF j, k
        <4> QED BY <4>1, <4>4
      <3>4. \A i \in 0 .. reg'.pos - 1 : b[i] = job.byte
        <4>1. 0 .. reg'.pos - 1 = 0 .. reg.pos BY <1>1, <3>2
        <4> QED BY <1>5, <4>1
      <3>5. img = Image BY <3>1 DEF img
      <3>6. MovingIn(img, d, reg', b, job)
        <4>1. reg'.track = reg.track /\ reg'.side = reg.side BY <1>4, <2>1
        <4>2. k >= 0 BY <2>2, <3>1
        <4>3. \A p \in first + 1 .. d.at : \A i \in 0 .. U - 1 : img.units[p].bytes[i] = job.byte
          BY <2>2, <3>1, <3>5
        <4> QED BY <1>2, <2>2, <2>4, <3>1, <3>3, <3>4, <3>5, <4>1, <4>2, <4>3 DEF MovingIn
      <3> QED BY <1>1, <1>2, <1>4, <1>26, <1>29, <2>1, <3>6, GoesOn
    <2>6. CASE last /\ S(ok)
      <3>1. d.at = Cur.at + 1 /\ wrote BY <1>8, <2>6 DEF wrote
      <3>2. reg'.count = reg.count - 1 /\ reg'.pos = 0 /\ reg.pos = U - 1 BY <1>4, <2>1, <2>6
      <3>3. k = j + 1 BY <1>6, <2>3, <3>1
      <3>4. reg'.count + k * U + reg'.pos = Cur.size
        <4> DEFINE x == j * U
                   y == k * U
        <4>2. x \in Int /\ y = x + U
          <5> HIDE DEF j, k
          <5> QED BY <2>3, <3>3, FloppyAssumption
        <4>3. reg.count + x + (U - 1) = Cur.size BY <2>2, <3>2
        <4>4. reg'.count + y + reg'.pos = Cur.size
          <5>1. U \in Int /\ reg.count \in Int BY <1>1, FloppyAssumption
          <5> HIDE DEF x, y
          <5>2. reg'.count + y + reg'.pos = reg.count - 1 + (x + U) + 0 BY <3>2, <4>2
          <5> QED BY <4>2, <4>3, <5>1, <5>2
        <4> HIDE DEF j, k
        <4> QED BY <4>4
      <3>5. MovingIn(img, d, reg', b, job)
        <4>1. reg'.track = reg.track /\ reg'.side = reg.side BY <1>4, <2>1
        <4>2. k >= 0 BY <2>2, <2>3, <3>3
        <4>3. \A p \in first + 1 .. d.at : \A i \in 0 .. U - 1 : img.units[p].bytes[i] = job.byte
          BY <1>22, <3>1
        <4>4. \A i \in 0 .. reg'.pos - 1 : b[i] = job.byte BY <3>2
        <4>5. /\ d.in /\ d.track = reg'.track /\ d.side = reg'.side /\ d.sector = job.id
              /\ d.offset = Cur.offset /\ d.size = Cur.size
          BY <1>2, <1>8, <2>2, <4>1 DEF AtHead
        <4> HIDE DEF d, b
        <4> QED BY <1>2, <2>2, <2>4, <3>4, <4>2, <4>3, <4>4, <4>5 DEF MovingIn
      <3> QED BY <1>1, <1>2, <1>4, <1>26, <1>29, <2>1, <3>5, GoesOn
    <2> QED BY <1>29, <2>5, <2>6
  <1> QED BY <1>12, <1>13, <1>15, <1>16, <1>27, <1>28, <1>29

LEMMA AddressByteKeeps == ASSUME Inv, disk' = disk, AddressByte PROVE Inv'
  <1>0. Types /\ RegFine(reg) /\ JobFine(job) /\ disk \in Setups /\ buf \in BufType /\ reg.count \in Nat
    BY Selected DEF Inv, Types
  <1> DEFINE r == IF reg.count = 1 THEN Ended(Taken, {}) ELSE Taken
             o == [reg |-> r, drive |-> Cur, buf |-> buf]
  <1>1. /\ job.op = "address" /\ reg.cmd = "address" /\ reg.count # 0 /\ ~job.done
        /\ Becomes(o) /\ job' = OnToNext(reg') /\ UNCHANGED <<file, belief>>
        /\ wrong' = (wrong \/ (reg.count = 2 /\ buf[0] # reg.track))
    BY <1>0 DEF AddressByte, JobFine
  <1>2. reg.count >= 2 => buf[0] = reg.track BY <1>1 DEF Inv, AddressIn
  <1>3. wrong' = wrong
    <2>1. wrong' = (wrong \/ FALSE) BY <1>1, <1>2
    <2> QED BY <1>0, <2>1 DEF Types
  <1>4. /\ RegFine(Taken) /\ Taken.count = reg.count - 1 /\ Taken.cmd = "address" /\ Taken.sel = reg.sel
        /\ Taken.track = reg.track
    BY <1>0, <1>1, TakenIs
  <1>5. /\ RegFine(Ended(Taken, {})) /\ Ended(Taken, {}).cmd = "none" /\ Ended(Taken, {}).count = 0
        /\ Ended(Taken, {}).script = 0 /\ Ended(Taken, {}).status = {}
    BY <1>0, <1>4, EndedIs
  <1>6. Outcome(o) /\ o.reg = r /\ o.drive = Cur /\ o.buf = buf
    <2>1. o.reg = r /\ o.drive = Cur /\ o.buf = buf /\ o = [reg |-> o.reg, drive |-> o.drive, buf |-> o.buf]
      OBVIOUS
    <2>2. RegFine(r) BY <1>4, <1>5
    <2> HIDE DEF o, r
    <2> QED BY <1>0, <2>1, <2>2, CurHead DEF Outcome
  <1> HIDE DEF o
  <1>7. JobFine(job') /\ job'.op = "address" BY <1>0, <1>1, Onward
  <1>8. CASE reg.count = 1
    <2>1. o.reg.cmd = "none" BY <1>5, <1>6, <1>8
    <2>2. job'.op # "none" /\ ~Carries(job') BY <1>7 DEF Carries
    <2> HIDE DEF r
    <2> QED BY <1>1, <1>3, <1>6, <1>7, <2>1, <2>2, Ends
  <1>9. CASE reg.count # 1
    <2>1. o.reg = Taken /\ Taken.cmd # "none" BY <1>4, <1>6, <1>9
    <2>2. Types' /\ Holds' /\ ~wrong' /\ reg' = Taken /\ drive'[reg.sel] = Cur /\ buf' = buf
      BY <1>1, <1>3, <1>6, <1>7, <2>1, BecameKeeps
    <2>3. Controlled(reg', job') /\ UnderwayIn(Image', Cur', reg', buf', job')
      BY <1>4, <1>7, <2>2, NoSector
    <2>4. AddressIn(reg', buf', job') BY <1>0, <1>1, <1>2, <1>4, <2>2 DEF AddressIn
    <2>5. TrackIn(Image', Cur', reg', job') /\ FormatIn(reg', job') BY <1>7 DEF TrackIn, FormatIn
    <2> QED BY <2>2, <2>3, <2>4, <2>5, Together
  <1> QED BY <1>8, <1>9

\* Where a byte of a sector is, and where the next one is.
LEMMA NextPlace ==
  ASSUME NEW code \in Nat \ {0}, NEW size, size = code * U, NEW rest \in 1 .. size,
         NEW k \in 0 .. code - 1, NEW i \in 0 .. U - 1, size - rest = k * U + i
  PROVE  /\ size \in Nat \ {0} /\ (size - rest) % U = i
         /\ rest > 1 /\ i # U - 1 => i + 1 \in 0 .. U - 1 /\ size - (rest - 1) = k * U + (i + 1)
         /\ rest > 1 /\ i = U - 1 => k + 1 \in 0 .. code - 1 /\ size - (rest - 1) = (k + 1) * U + 0
         /\ rest = 1 => i = U - 1 /\ k = code - 1
  <1>1. U \in Nat \ {0} /\ k \in Nat /\ k + 1 \in Nat BY FloppyAssumption
  <1>2. size \in Nat \ {0}
    <2>1. code * U \in Nat /\ code * U >= U BY <1>1, Sizes
    <2> QED BY <1>1, <2>1
  <1>3. (size - rest) % U = i BY <1>1, Remainder
  <1> DEFINE x == k * U
             y == (k + 1) * U
  <1>4. x \in Nat /\ y \in Nat /\ y = x + U BY <1>1
  <1>5. (y < size <=> k + 1 < code) /\ (size < y <=> code < k + 1) BY <1>1, Times
  <1>6. size - rest = x + i OBVIOUS
  <1> HIDE DEF x, y
  <1>7. k + 1 = code => y = size BY DEF y
  <1>8. rest > 1 /\ i # U - 1 => i + 1 \in 0 .. U - 1 /\ size - (rest - 1) = x + (i + 1) BY <1>1, <1>2, <1>4, <1>6
  <1>9. rest > 1 /\ i = U - 1 => k + 1 \in 0 .. code - 1 /\ size - (rest - 1) = y + 0
    BY <1>1, <1>2, <1>4, <1>5, <1>6
  <1>10. rest = 1 => i = U - 1 /\ k = code - 1
    <2>1. rest = 1 => size = x + i + 1 BY <1>1, <1>2, <1>4, <1>6
    <2>2. rest = 1 => ~(y < size) BY <1>1, <1>2, <1>4, <2>1
    <2>3. rest = 1 => k + 1 = code BY <1>1, <1>5, <2>2
    <2> QED BY <1>1, <1>2, <1>4, <1>7, <2>1, <2>3
  <1> QED BY <1>2, <1>3, <1>8, <1>9, <1>10 DEF x, y

\* What is to come of the sectors from one on.
LEMMA ToCome ==
  ASSUME NEW n \in Nat, NEW i \in 1 .. n, NEW size \in Nat
  PROVE  /\ (n + 1 - i) * (1 + size) = 1 + size + (n - i) * (1 + size)
         /\ (n - i) * (1 + size) \in Nat
         /\ (n + 1 - (i + 1)) * (1 + size) = (n - i) * (1 + size)
  <1> DEFINE m == n - i
             s == 1 + size
  <1>1. m \in Nat /\ s \in Nat /\ n + 1 - i = m + 1 /\ n + 1 - (i + 1) = m OBVIOUS
  <1> HIDE DEF m, s
  <1>2. (m + 1) * s = s + m * s /\ m * s \in Nat BY <1>1
  <1> QED BY <1>1, <1>2 DEF m, s

Reading(q, r, phase, idx, rest) ==
    /\ RegFine(q) /\ q.phase = phase /\ q.idx = idx /\ q.rest = rest /\ q.cmd = r.cmd /\ q.count = r.count
    /\ q.sel = r.sel /\ q.track = r.track /\ q.side = r.side /\ q.ids = r.ids /\ q.code = r.code

LEMMA ReadingIs ==
  ASSUME NEW r, RegFine(r), NEW n \in Nat, NEW i \in Nat
  PROVE  /\ Reading([r EXCEPT !.phase = 1], r, 1, r.idx, r.rest)
         /\ Reading([r EXCEPT !.phase = 2, !.rest = n], r, 2, r.idx, n)
         /\ Reading([r EXCEPT !.rest = n], r, r.phase, r.idx, n)
         /\ Reading([r EXCEPT !.rest = 0, !.idx = i, !.phase = 1], r, 1, i, 0)
  <1>1. r \in RegType /\ SlotOf(r.track, r.side) \in Slots /\ 1 \in 0 .. 2 /\ 2 \in 0 .. 2 /\ 0 \in Nat
    BY DEF RegFine
  <1> DEFINE a == [r EXCEPT !.phase = 1]
             b == [r EXCEPT !.phase = 2, !.rest = n]
             c == [r EXCEPT !.rest = n]
             d == [r EXCEPT !.rest = 0]
             e == [d EXCEPT !.idx = i, !.phase = 1]
  <1>2. a \in RegType /\ b \in RegType /\ c \in RegType /\ d \in RegType BY <1>1 DEF RegType
  <1>3. Reading(a, r, 1, r.idx, r.rest)
    <2>1. a.phase = 1 /\ a.idx = r.idx /\ a.rest = r.rest /\ a.cmd = r.cmd /\ a.count = r.count
          /\ a.sel = r.sel /\ a.track = r.track /\ a.side = r.side /\ a.ids = r.ids /\ a.code = r.code
      BY <1>1 DEF RegType
    <2> HIDE DEF a
    <2> QED BY <1>1, <1>2, <2>1 DEF Reading, RegFine
  <1>4. Reading(b, r, 2, r.idx, n)
    <2>1. b.phase = 2 /\ b.idx = r.idx /\ b.rest = n /\ b.cmd = r.cmd /\ b.count = r.count
          /\ b.sel = r.sel /\ b.track = r.track /\ b.side = r.side /\ b.ids = r.ids /\ b.code = r.code
      BY <1>1 DEF RegType
    <2> HIDE DEF b
    <2> QED BY <1>1, <1>2, <2>1 DEF Reading, RegFine
  <1>5. Reading(c, r, r.phase, r.idx, n)
    <2>1. c.phase = r.phase /\ c.idx = r.idx /\ c.rest = n /\ c.cmd = r.cmd /\ c.count = r.count
          /\ c.sel = r.sel /\ c.track = r.track /\ c.side = r.side /\ c.ids = r.ids /\ c.code = r.code
      BY <1>1 DEF RegType
    <2> HIDE DEF c
    <2> QED BY <1>1, <1>2, <2>1 DEF Reading, RegFine
  <1>6. Reading([r EXCEPT !.rest = 0, !.idx = i, !.phase = 1], r, 1, i, 0)
    <2>1. d.rest = 0 /\ d.cmd = r.cmd /\ d.count = r.count
          /\ d.sel = r.sel /\ d.track = r.track /\ d.side = r.side /\ d.ids = r.ids /\ d.code = r.code
      BY <1>1 DEF RegType
    <2>2. [r EXCEPT !.rest = 0, !.idx = i, !.phase = 1] = e OBVIOUS
    <2> HIDE DEF d
    <2>3. e \in RegType BY <1>1, <1>2 DEF RegType
    <2>4. e.phase = 1 /\ e.idx = i /\ e.rest = d.rest /\ e.cmd = d.cmd /\ e.count = d.count
          /\ e.sel = d.sel /\ e.track = d.track /\ e.side = d.side /\ e.ids = d.ids /\ e.code = d.code
      BY <1>2 DEF RegType
    <2> HIDE DEF e
    <2>5. Reading(e, r, 1, i, 0) BY <1>1, <2>1, <2>3, <2>4 DEF Reading, RegFine
    <2> QED BY <2>2, <2>5
  <1> QED BY <1>3, <1>4, <1>5, <1>6

\* A byte of a sector that READ TRACK gives is the one believed of it.
LEMMA TracksRight ==
  ASSUME Inv, NEW n \in Nat, NEW k \in 0 .. CodeOn(Image, Cur.offset) - 1, NEW i \in 0 .. U - 1,
         Cur.in, Cur.track = reg.track, Cur.side = reg.side, Cur.offset < Size,
         HeaderOf(Image, Cur.offset).ids = reg.ids, n \in 1 .. Len(reg.ids),
         Place(reg.ids, reg.ids[n]) = n,
         NEW start \in Int, start = Cur.offset + 1 + (n - 1) * CodeOn(Image, Cur.offset),
         Cur.at = start + k
  PROVE  Expected(reg.ids[n]) \in {Unit(Cur.at).bytes[i], Undefined}
  <1> DEFINE id == reg.ids[n]
             code == CodeOn(Image, Cur.offset)
  <1>1. SUFFICES ASSUME id \in ToSet(OnDisk.ids) PROVE OnDisk.data[id] \in {Unit(Cur.at).bytes[i], Undefined}
    BY DEF Expected
  <1>2. OnDisk.ids # <<>> BY <1>1 DEF ToSet
  <1>3. /\ HeaderOf(Image, Cur.offset).ids = OnDisk.ids
        /\ \A m \in 1 .. Len(OnDisk.ids), j \in 1 .. code, b \in 0 .. U - 1 :
                m = Place(OnDisk.ids, OnDisk.ids[m]) =>
                    OnDisk.data[OnDisk.ids[m]] \in
                        {Undefined, Image.units[Cur.offset + 1 + (m - 1) * code + j].bytes[b]}
    BY <1>2, KnownAt
  <1>4. OnDisk.ids = reg.ids BY <1>3
  <1>5. Image \in ImageType /\ Cur \in DriveType BY Selected DEF Inv
  <1>6. Cur.offset \in Nat /\ code \in Nat BY <1>5, HeaderFine DEF DriveType, CodeOn
  <1> HIDE DEF code
  <1>7. k \in 0 .. code - 1 /\ start = Cur.offset + 1 + (n - 1) * code BY DEF code
  <1> DEFINE j == k + 1
  <1>8. j \in 1 .. code BY <1>6, <1>7
  <1>9. Cur.at + 1 = start + j
    <2>1. k \in Int BY <1>6, <1>7
    <2> QED BY <2>1
  <1> HIDE DEF j
  <1>10. OnDisk.data[id] \in {Undefined, Image.units[start + j].bytes[i]} BY <1>3, <1>4, <1>7, <1>8
  <1> QED BY <1>9, <1>10 DEF Unit

LEMMA TrackByteKeeps == ASSUME Inv, disk' = disk, TrackByte PROVE Inv'
  <1>0. Types /\ RegFine(reg) /\ JobFine(job) /\ disk \in Setups /\ buf \in BufType BY DEF Inv, Types
  <1>1. /\ reg.count \in Nat /\ Image \in ImageType /\ Cur \in DriveType /\ Size = Len(Image.units) /\ Size \in Nat
        /\ reg.ids \in Seq(Nat) /\ reg.code \in Nat /\ reg.phase \in 0 .. 2 /\ reg.idx \in Nat /\ reg.rest \in Nat
        /\ Cur.at \in Nat /\ Cur.offset \in Nat
    BY <1>0, Selected, FieldsOf DEF DriveType, RegFine
  <1> DEFINE n == Len(reg.ids)
             size == reg.code * U
             at == size - reg.rest
             byte == Unit(Cur.at).bytes[at % U]
             step == IF at % U = U - 1 THEN 1 ELSE 0
             next == [Cur EXCEPT !.at = Cur.at + step]
             data == reg.phase = 2 /\ Cur.at < Size
             r == IF reg.phase = 0 THEN [Taken EXCEPT !.phase = 1]
                  ELSE IF reg.phase = 1 THEN [Taken EXCEPT !.phase = 2, !.rest = size]
                  ELSE IF reg.rest > 1 THEN [Taken EXCEPT !.rest = Taken.rest - 1]
                  ELSE [Taken EXCEPT !.rest = 0, !.idx = Taken.idx + 1, !.phase = 1]
             known == data /\ Place(reg.ids, reg.ids[reg.idx]) = reg.idx
             d == IF data THEN next ELSE Cur
             o == [reg |-> IF r.count = 0 THEN Ended(r, {}) ELSE r, buf |-> buf, drive |-> d]
             start == Cur.offset + 1 + (reg.idx - 1) * reg.code
  <1>2. /\ job.op = "track" /\ reg.cmd = "track" /\ reg.count # 0 /\ ~job.done
        /\ Becomes(o) /\ job' = OnToNext(reg') /\ UNCHANGED <<file, belief>>
        /\ \/ known /\ Judged(byte, reg.ids[reg.idx])
           \/ UNCHANGED wrong
    BY <1>0 DEF TrackByte, JobFine
  <1>3. /\ Cur.in /\ Cur.track = reg.track /\ Cur.side = reg.side /\ Cur.offset < Size
        /\ HeaderOf(Image, Cur.offset).ids = reg.ids /\ CodeOn(Image, Cur.offset) = reg.code /\ reg.code # 0
        /\ \/ reg.phase = 0 /\ reg.idx = 1 /\ Cur.at = start /\ reg.count = 1 + n * (1 + size)
           \/ /\ reg.phase = 1 /\ reg.idx \in 1 .. n + 1 /\ reg.count = (n + 1 - reg.idx) * (1 + size)
              /\ Cur.at = start \/ Cur.at >= Size
           \/ /\ reg.phase = 2 /\ reg.idx \in 1 .. n /\ reg.rest \in 1 .. size
              /\ reg.count = reg.rest + (n - reg.idx) * (1 + size)
              /\ \/ Cur.at >= Size
                 \/ \E k \in 0 .. reg.code - 1, i \in 0 .. U - 1 : at = k * U + i /\ Cur.at = start + k
    BY <1>1, <1>2 DEF Inv, TrackIn
  <1>4. size \in Nat \ {0} /\ n \in Nat /\ 1 + size \in Nat
    <2>1. size \in Nat /\ size >= U BY <1>1, <1>3, Sizes
    <2> HIDE DEF size
    <2> QED BY <1>1, <2>1, FloppyAssumption
  <1>s. start \in Int
    <2> DEFINE x == reg.idx - 1
               c == reg.code
               y == x * c
    <2>1. x \in Int /\ c \in Int BY <1>1
    <2>2. y \in Int
      <3> HIDE DEF x, c
      <3> QED BY <2>1
    <2> HIDE DEF y
    <2>3. Cur.offset + 1 + y \in Int BY <1>1, <2>2
    <2> QED BY <2>3 DEF y
  <1> HIDE DEF size
  <1>5. wrong' = wrong
    <2>1. SUFFICES ASSUME known, Judged(byte, reg.ids[reg.idx]) PROVE wrong' = wrong BY <1>2
    <2>2. reg.phase = 2 /\ ~(Cur.at >= Size) BY <1>1, <2>1
    <2>3. PICK k \in 0 .. reg.code - 1, i \in 0 .. U - 1 : at = k * U + i /\ Cur.at = start + k BY <1>3, <2>2
    <2>4. reg.idx \in 1 .. n /\ reg.rest \in 1 .. size BY <1>3, <2>2
    <2>5. at % U = i BY <1>1, <1>3, <2>3, <2>4, NextPlace DEF size
    <2> DEFINE m == reg.idx
    <2>a. /\ m \in Nat /\ m \in 1 .. Len(reg.ids) /\ Place(reg.ids, reg.ids[m]) = m
          /\ start = Cur.offset + 1 + (m - 1) * CodeOn(Image, Cur.offset) /\ Cur.at = start + k
          /\ k \in 0 .. CodeOn(Image, Cur.offset) - 1
      BY <1>1, <1>3, <2>1, <2>3, <2>4
    <2>b. /\ Cur.in /\ Cur.track = reg.track /\ Cur.side = reg.side /\ Cur.offset < Size
          /\ HeaderOf(Image, Cur.offset).ids = reg.ids
      BY <1>3
    <2> HIDE DEF n, at, start, m
    <2>c. Expected(reg.ids[m]) \in {Unit(Cur.at).bytes[i], Undefined} BY <1>s, <2>a, <2>b, TracksRight
    <2>6. Expected(reg.ids[reg.idx]) \in {Unit(Cur.at).bytes[i], Undefined} BY <2>c DEF m
    <2>7. wrong' = (wrong \/ FALSE) BY <2>1, <2>5, <2>6 DEF Judged
    <2> QED BY <1>0, <2>7 DEF Types
  <1>6. /\ RegFine(Taken) /\ Taken.count = reg.count - 1 /\ Taken.cmd = "track" /\ Taken.sel = reg.sel
        /\ Taken.track = reg.track /\ Taken.side = reg.side
        /\ Taken.phase = reg.phase /\ Taken.idx = reg.idx /\ Taken.rest = reg.rest /\ Taken.ids = reg.ids
        /\ Taken.code = reg.code
    BY <1>0, <1>2, TakenIs
  <1> DEFINE phase == IF reg.phase = 1 \/ (reg.phase = 2 /\ reg.rest > 1) THEN 2 ELSE 1
             idx == IF reg.phase = 2 /\ ~(reg.rest > 1) THEN reg.idx + 1 ELSE reg.idx
             rest == IF reg.phase = 0 THEN reg.rest ELSE IF reg.phase = 1 THEN size
                     ELSE IF reg.rest > 1 THEN reg.rest - 1 ELSE 0
  <1>7. Reading(r, Taken, phase, idx, rest)
    <2> DEFINE t == Taken
               m == t.rest - 1
               i == t.idx + 1
    <2>1. RegFine(t) /\ i \in Nat /\ (reg.rest > 1 => m \in Nat) /\ m = reg.rest - 1 /\ i = reg.idx + 1
      BY <1>1, <1>6
    <2>2. r = IF reg.phase = 0 THEN [t EXCEPT !.phase = 1]
              ELSE IF reg.phase = 1 THEN [t EXCEPT !.phase = 2, !.rest = size]
              ELSE IF reg.rest > 1 THEN [t EXCEPT !.rest = m]
              ELSE [t EXCEPT !.rest = 0, !.idx = i, !.phase = 1]
      OBVIOUS
    <2>3. t.phase = reg.phase /\ t.idx = reg.idx /\ t.rest = reg.rest BY <1>6
    <2> HIDE DEF t, m, i, r
    <2>4. CASE reg.phase = 0
      <3>1. Reading([t EXCEPT !.phase = 1], t, 1, t.idx, t.rest) BY <2>1, ReadingIs
      <3> QED BY <2>2, <2>3, <2>4, <3>1 DEF t
    <2>5. CASE reg.phase = 1
      <3>1. Reading([t EXCEPT !.phase = 2, !.rest = size], t, 2, t.idx, size) BY <1>4, <2>1, ReadingIs
      <3> QED BY <2>2, <2>3, <2>5, <3>1 DEF t
    <2>6. CASE reg.phase = 2 /\ reg.rest > 1
      <3>1. Reading([t EXCEPT !.rest = m], t, t.phase, t.idx, m) BY <2>1, <2>6, ReadingIs
      <3> QED BY <2>1, <2>2, <2>3, <2>6, <3>1 DEF t
    <2>7. CASE reg.phase = 2 /\ ~(reg.rest > 1)
      <3>1. Reading([t EXCEPT !.rest = 0, !.idx = i, !.phase = 1], t, 1, i, 0) BY <2>1, ReadingIs
      <3> QED BY <2>1, <2>2, <2>3, <2>7, <3>1 DEF t
    <2> QED BY <1>1, <2>4, <2>5, <2>6, <2>7
  <1> HIDE DEF r
  <1>8. /\ RegFine(r) /\ r.cmd = "track" /\ r.count = reg.count - 1 /\ r.sel = reg.sel /\ r.track = reg.track
        /\ r.side = reg.side /\ r.ids = reg.ids /\ r.code = reg.code
        /\ r.phase = phase /\ r.idx = idx /\ r.rest = rest
    BY <1>6, <1>7 DEF Reading
  <1>9. /\ RegFine(Ended(r, {})) /\ Ended(r, {}).cmd = "none" /\ Ended(r, {}).count = 0
        /\ Ended(r, {}).script = 0 /\ Ended(r, {}).status = {}
    BY <1>0, <1>8, EndedIs
  <1>10. /\ AtHead(d) /\ d.in /\ d.offset = Cur.offset /\ d.track = Cur.track /\ d.side = Cur.side
         /\ d.at = IF data THEN Cur.at + step ELSE Cur.at
    <2> DEFINE p == Cur.at + step
    <2>1. p \in Nat
      <3>1. step \in Nat OBVIOUS
      <3> HIDE DEF step
      <3> QED BY <1>1, <3>1
    <2>2. next = [Cur EXCEPT !.at = p] OBVIOUS
    <2> HIDE DEF p, next
    <2>3. /\ next \in DriveType /\ next.at = p /\ next.in = Cur.in /\ next.track = Cur.track
          /\ next.side = Cur.side /\ next.offset = Cur.offset
      BY <1>1, <2>1, <2>2 DEF DriveType
    <2>4. AtHead(next) /\ AtHead(Cur) BY <1>1, <2>3 DEF AtHead
    <2> HIDE DEF data
    <2> QED BY <1>3, <2>3, <2>4 DEF p
  <1>11. Outcome(o) /\ o.reg = (IF r.count = 0 THEN Ended(r, {}) ELSE r) /\ o.drive = d /\ o.buf = buf
    <2> HIDE DEF d
    <2>1. /\ o.reg = (IF r.count = 0 THEN Ended(r, {}) ELSE r) /\ o.drive = d /\ o.buf = buf
          /\ o = [reg |-> o.reg, drive |-> o.drive, buf |-> o.buf]
      OBVIOUS
    <2> HIDE DEF o
    <2> QED BY <1>0, <1>8, <1>9, <1>10, <2>1 DEF Outcome
  <1> HIDE DEF o
  <1>12. JobFine(job') /\ job'.op = "track" BY <1>0, <1>2, Onward
  <1>13. CASE r.count = 0
    <2>1. o.reg.cmd = "none" BY <1>9, <1>11, <1>13
    <2>2. job'.op # "none" /\ ~Carries(job') BY <1>12 DEF Carries
    <2> QED BY <1>2, <1>5, <1>11, <1>12, <2>1, <2>2, Ends
  <1>14. CASE r.count # 0
    <2>1. o.reg = r /\ r.cmd # "none" BY <1>8, <1>11, <1>14
    <2> HIDE DEF d
    <2>2. Types' /\ Holds' /\ ~wrong' /\ reg' = r /\ drive'[reg.sel] = d /\ buf' = buf
      BY <1>2, <1>5, <1>11, <1>12, <2>1, BecameKeeps
    <2>3. Image' = Image /\ Cur' = d BY <1>2, <1>8, <2>2, SameImage
    <2>4. Controlled(reg', job') /\ UnderwayIn(Image', Cur', reg', buf', job')
      BY <1>8, <1>12, <2>2, NoSector
    <2>5. AddressIn(reg', buf', job') /\ FormatIn(reg', job') BY <1>12 DEF AddressIn, FormatIn
    <2> DEFINE start2 == Cur.offset + 1 + (idx - 1) * reg.code
    <2>6. \/ /\ phase = 1 /\ idx \in 1 .. n + 1 /\ r.count = (n + 1 - idx) * (1 + size)
             /\ d.at = start2 \/ d.at >= Size
          \/ /\ phase = 2 /\ idx \in 1 .. n /\ rest \in 1 .. size
             /\ r.count = rest + (n - idx) * (1 + size)
             /\ \/ d.at >= Size
                \/ \E k \in 0 .. reg.code - 1, i \in 0 .. U - 1 : size - rest = k * U + i /\ d.at = start2 + k
      <3>1. CASE reg.phase = 0
        <4>1. phase = 1 /\ idx = 1 /\ d.at = start2 /\ ~data BY <1>3, <1>10, <3>1
        <4>2. r.count = n * (1 + size)
          <5> DEFINE x == n * (1 + size)
          <5>1. x \in Nat
            <6> HIDE DEF n
            <6> QED BY <1>4
          <5>2. reg.count = 1 + x BY <1>3, <3>1
          <5> HIDE DEF x
          <5>3. r.count = x BY <1>8, <5>1, <5>2
          <5> QED BY <5>3 DEF x
        <4>3. n + 1 - idx = n /\ idx \in 1 .. n + 1 BY <1>4, <4>1
        <4> HIDE DEF n, phase, idx
        <4> QED BY <4>1, <4>2, <4>3
      <3>2. CASE reg.phase = 1
        <4>1. phase = 2 /\ idx = reg.idx /\ rest = size /\ d.at = Cur.at BY <1>10, <3>2
        <4>2. reg.idx \in 1 .. n + 1 /\ reg.count = (n + 1 - reg.idx) * (1 + size)
              /\ (Cur.at = start \/ Cur.at >= Size)
          BY <1>3, <3>2
        <4>3. reg.idx \in 1 .. n
          <5>1. reg.idx # n + 1
            <6>1. (n + 1 - (n + 1)) * (1 + size) = 0
              <7>1. n + 1 - (n + 1) = 0 BY <1>4
              <7>2. 0 * (1 + size) = 0 BY <1>4
              <7> HIDE DEF n
              <7> QED BY <7>1, <7>2
            <6> QED BY <1>2, <4>2, <6>1
          <5> QED BY <1>4, <4>2, <5>1
        <4>4. r.count = size + (n - reg.idx) * (1 + size)
          <5> DEFINE x == (n - reg.idx) * (1 + size)
          <5>1. x \in Nat /\ reg.count = 1 + size + x
            <6> HIDE DEF n
            <6> QED BY <1>4, <4>2, <4>3, ToCome
          <5> HIDE DEF x
          <5>2. r.count = size + x BY <1>4, <1>8, <5>1
          <5> QED BY <5>2 DEF x
        <4>5. 0 \in 0 .. reg.code - 1 /\ 0 \in 0 .. U - 1 /\ size - size = 0 * U + 0 /\ start2 = start
              /\ start + 0 = start /\ size \in 1 .. size
          <5>1. start2 = start BY <4>1
          <5>2. reg.code \in Nat /\ reg.code # 0 BY <1>1, <1>3
          <5>3. 0 * U = 0 /\ 0 \in 0 .. U - 1 BY FloppyAssumption
          <5> HIDE DEF start, start2
          <5>4. start + 0 = start BY <1>s
          <5>5. size - size = 0 /\ size \in 1 .. size /\ 0 \in 0 .. reg.code - 1 BY <1>4, <5>2
          <5> QED BY <5>1, <5>3, <5>4, <5>5
        <4>6. \/ d.at >= Size
              \/ \E k \in 0 .. reg.code - 1, i \in 0 .. U - 1 : size - size = k * U + i /\ d.at = start2 + k
          <5> HIDE DEF start, start2
          <5>1. CASE Cur.at = start
            <6>1. size - size = 0 * U + 0 /\ d.at = start2 + 0 BY <4>1, <4>5, <5>1
            <6> QED BY <4>5, <6>1
          <5> QED BY <4>1, <4>2, <5>1
        <4> HIDE DEF phase, idx, rest, n, start2
        <4> QED BY <4>1, <4>3, <4>4, <4>5, <4>6
      <3>3. ASSUME reg.phase = 2
            PROVE  /\ reg.idx \in 1 .. n /\ reg.rest \in 1 .. size /\ reg.count = reg.rest + (n - reg.idx) * (1 + size)
                   /\ (n - reg.idx) * (1 + size) \in Nat
                   /\ r.count = reg.rest - 1 + (n - reg.idx) * (1 + size)
                   /\ Cur.at >= Size => d.at >= Size
                   /\ ~(Cur.at >= Size) => d.at = Cur.at + step
        <4>1. reg.idx \in 1 .. n /\ reg.rest \in 1 .. size /\ reg.count = reg.rest + (n - reg.idx) * (1 + size)
          BY <1>3, <3>3
        <4> DEFINE x == (n - reg.idx) * (1 + size)
        <4>2. x \in Nat
          <5> HIDE DEF n
          <5> QED BY <1>4, <4>1, ToCome
        <4>3. reg.count = reg.rest + x BY <4>1
        <4> HIDE DEF x
        <4>4. r.count = reg.rest - 1 + x BY <1>1, <1>8, <4>2, <4>3
        <4>5. (Cur.at >= Size => d.at >= Size) /\ (~(Cur.at >= Size) => d.at = Cur.at + step)
          <5> HIDE DEF step
          <5> QED BY <1>1, <1>10, <3>3
        <4> QED BY <4>1, <4>2, <4>4, <4>5 DEF x
      <3>4. CASE reg.phase = 2 /\ reg.rest > 1
        <4>1. phase = 2 /\ idx = reg.idx /\ rest = reg.rest - 1 BY <3>4
        <4>2. reg.idx \in 1 .. n /\ rest \in 1 .. size /\ r.count = rest + (n - reg.idx) * (1 + size)
          BY <1>4, <3>3, <3>4, <4>1
        <4>3. \/ d.at >= Size
              \/ \E k \in 0 .. reg.code - 1, i \in 0 .. U - 1 : size - (reg.rest - 1) = k * U + i /\ d.at = start + k
          <5>1. SUFFICES ASSUME ~(Cur.at >= Size)
                         PROVE  \E k \in 0 .. reg.code - 1, i \in 0 .. U - 1 :
                                    size - (reg.rest - 1) = k * U + i /\ d.at = start + k
            BY <3>3, <3>4
          <5>2. PICK k \in 0 .. reg.code - 1, i \in 0 .. U - 1 : at = k * U + i /\ Cur.at = start + k
            BY <1>3, <3>4, <5>1
          <5>3. /\ at % U = i
                /\ i # U - 1 => i + 1 \in 0 .. U - 1 /\ size - (reg.rest - 1) = k * U + (i + 1)
                /\ i = U - 1 => k + 1 \in 0 .. reg.code - 1 /\ size - (reg.rest - 1) = (k + 1) * U + 0
            BY <1>1, <1>3, <3>3, <3>4, <5>2, NextPlace DEF size
          <5>4. d.at = Cur.at + (IF i = U - 1 THEN 1 ELSE 0) BY <3>3, <3>4, <5>1, <5>3
          <5>5. start \in Int /\ Cur.at = start + k BY <1>s, <5>2
          <5> HIDE DEF start, at
          <5>6. CASE i # U - 1
            <6>1. d.at = start + k BY <1>1, <5>4, <5>5, <5>6
            <6> QED BY <5>3, <5>6, <6>1
          <5>7. CASE i = U - 1
            <6>1. d.at = start + (k + 1) BY <1>1, <5>4, <5>5, <5>7
            <6>2. 0 \in 0 .. U - 1 BY FloppyAssumption
            <6> QED BY <5>3, <5>7, <6>1, <6>2
          <5> QED BY <5>6, <5>7
        <4>4. start2 = start BY <4>1
        <4> HIDE DEF phase, idx, rest, n, start2, start
        <4> QED BY <4>1, <4>2, <4>3, <4>4
      <3>5. CASE reg.phase = 2 /\ ~(reg.rest > 1)
        <4>1. phase = 1 /\ idx = reg.idx + 1 BY <3>5
        <4>2. reg.rest = 1 BY <1>4, <3>3, <3>5
        <4>3. idx \in 1 .. n + 1 /\ r.count = (n + 1 - idx) * (1 + size)
          <5>1. (n + 1 - (reg.idx + 1)) * (1 + size) = (n - reg.idx) * (1 + size)
            <6> HIDE DEF n
            <6> QED BY <1>4, <3>3, <3>5, ToCome
          <5> DEFINE x == (n - reg.idx) * (1 + size)
          <5>2. x \in Nat /\ r.count = reg.rest - 1 + x BY <3>3, <3>5
          <5>3. r.count = x
            <6> HIDE DEF x
            <6> QED BY <4>2, <5>2
          <5>4. idx \in 1 .. n + 1 BY <1>4, <3>3, <3>5, <4>1
          <5> QED BY <4>1, <5>1, <5>3, <5>4
        <4>4. d.at = start2 \/ d.at >= Size
          <5>1. SUFFICES ASSUME ~(Cur.at >= Size) PROVE d.at = start2 BY <3>3, <3>5
          <5>2. PICK k \in 0 .. reg.code - 1, i \in 0 .. U - 1 : at = k * U + i /\ Cur.at = start + k
            BY <1>3, <3>5, <5>1
          <5>3. at % U = U - 1 /\ k = reg.code - 1
            <6>1. /\ reg.code \in Nat \ {0} /\ size = reg.code * U /\ reg.rest \in 1 .. size
                  /\ size - reg.rest = k * U + i
              BY <1>1, <1>3, <3>3, <3>5, <5>2 DEF size
            <6>2. at % U = i /\ (reg.rest = 1 => i = U - 1 /\ k = reg.code - 1) BY <6>1, NextPlace
            <6> QED BY <4>2, <6>2
          <5>4. d.at = Cur.at + 1 BY <3>3, <3>5, <5>1, <5>3
          <5> DEFINE x == (reg.idx - 1) * reg.code
                     y == (idx - 1) * reg.code
          <5>5. y = x + reg.code /\ x \in Int
            <6> DEFINE a == reg.idx - 1
                       b == idx - 1
                       c == reg.code
            <6>1. a \in Int /\ c \in Nat /\ b = a + 1 BY <1>1, <4>1
            <6> HIDE DEF a, b, c
            <6>2. b * c = a * c + c /\ a * c \in Int BY <6>1
            <6> QED BY <6>2 DEF a, b, c
          <5>6. Cur.at = Cur.offset + 1 + x + k /\ k = reg.code - 1 BY <5>2, <5>3
          <5> HIDE DEF x, y, idx
          <5>7. d.at = Cur.offset + 1 + y
            <6>1. Cur.offset \in Int /\ reg.code \in Int BY <1>1
            <6>2. d.at = Cur.offset + 1 + x + (reg.code - 1) + 1 BY <5>4, <5>6
            <6> QED BY <5>5, <6>1, <6>2
          <5> QED BY <5>7 DEF y
        <4> HIDE DEF phase, idx, n, start2
        <4> QED BY <4>1, <4>3, <4>4
      <3> QED BY <1>1, <3>1, <3>2, <3>4, <3>5
    <2>7. TrackIn(Image, d, r, job')
      <3> HIDE DEF phase, idx, rest
      <3> QED BY <1>1, <1>3, <1>8, <1>10, <2>6 DEF TrackIn, size
    <2>8. TrackIn(Image', Cur', reg', job') BY <2>2, <2>3, <2>7
    <2> QED BY <2>2, <2>4, <2>5, <2>8, Together
  <1> QED BY <1>13, <1>14

-----------------------------------------------------------------------------
(* Formatting.                                                             *)

\* Registers that differ in what the marks of a format stream set.
InStage(q, r) == RegFine(q) /\ q.cmd = r.cmd /\ q.stage = r.stage /\ q.marks = r.marks

LEMMA Setting ==
  ASSUME NEW r, RegFine(r), NEW ids \in Seq(Nat), NEW c \in Nat, NEW v \in Int
  PROVE  /\ InStage([r EXCEPT !.ids = ids], r) /\ InStage([r EXCEPT !.code = c], r)
         /\ InStage([r EXCEPT !.fill = v], r) /\ InStage([r EXCEPT !.count = c], r)
         /\ InStage([r EXCEPT !.ids = ids, !.code = c], r)
  <1>1. r \in RegType /\ SlotOf(r.track, r.side) \in Slots BY DEF RegFine
  <1>2. InStage([r EXCEPT !.ids = ids], r)
    <2> DEFINE q == [r EXCEPT !.ids = ids]
    <2>1. q \in RegType BY <1>1 DEF RegType
    <2>2. q.cmd = r.cmd /\ q.stage = r.stage /\ q.marks = r.marks /\ q.track = r.track /\ q.side = r.side
      BY <1>1 DEF RegType
    <2> HIDE DEF q
    <2>3. InStage(q, r) BY <1>1, <2>1, <2>2 DEF InStage, RegFine
    <2> QED BY <2>3 DEF q
  <1>3. InStage([r EXCEPT !.code = c], r)
    <2> DEFINE q == [r EXCEPT !.code = c]
    <2>1. q \in RegType BY <1>1 DEF RegType
    <2>2. q.cmd = r.cmd /\ q.stage = r.stage /\ q.marks = r.marks /\ q.track = r.track /\ q.side = r.side
      BY <1>1 DEF RegType
    <2> HIDE DEF q
    <2>3. InStage(q, r) BY <1>1, <2>1, <2>2 DEF InStage, RegFine
    <2> QED BY <2>3 DEF q
  <1>4. InStage([r EXCEPT !.fill = v], r)
    <2> DEFINE q == [r EXCEPT !.fill = v]
    <2>1. q \in RegType BY <1>1 DEF RegType
    <2>2. q.cmd = r.cmd /\ q.stage = r.stage /\ q.marks = r.marks /\ q.track = r.track /\ q.side = r.side
      BY <1>1 DEF RegType
    <2> HIDE DEF q
    <2>3. InStage(q, r) BY <1>1, <2>1, <2>2 DEF InStage, RegFine
    <2> QED BY <2>3 DEF q
  <1>5. InStage([r EXCEPT !.count = c], r)
    <2> DEFINE q == [r EXCEPT !.count = c]
    <2>1. q \in RegType BY <1>1 DEF RegType
    <2>2. q.cmd = r.cmd /\ q.stage = r.stage /\ q.marks = r.marks /\ q.track = r.track /\ q.side = r.side
      BY <1>1 DEF RegType
    <2> HIDE DEF q
    <2>3. InStage(q, r) BY <1>1, <2>1, <2>2 DEF InStage, RegFine
    <2> QED BY <2>3 DEF q
  <1>6. InStage([r EXCEPT !.ids = ids, !.code = c], r)
    <2> DEFINE q == [r EXCEPT !.ids = ids, !.code = c]
    <2>1. q \in RegType BY <1>1 DEF RegType
    <2>2. q.cmd = r.cmd /\ q.stage = r.stage /\ q.marks = r.marks /\ q.track = r.track /\ q.side = r.side
      BY <1>1 DEF RegType
    <2> HIDE DEF q
    <2>3. InStage(q, r) BY <1>1, <2>1, <2>2 DEF InStage, RegFine
    <2> QED BY <2>3 DEF q
  <1> QED BY <1>2, <1>3, <1>4, <1>5, <1>6

LEMMA Staged ==
  ASSUME NEW r, RegFine(r), NEW n \in 0 .. 4
  PROVE  /\ RegFine(ToStage(r, n)) /\ ToStage(r, n).cmd = r.cmd /\ ToStage(r, n).stage = n /\ ToStage(r, n).marks = 1
         /\ RegFine(Stays(r)) /\ Stays(r).cmd = r.cmd /\ Stays(r).stage = r.stage /\ Stays(r).marks = r.marks + 1
  <1>1. r \in RegType /\ SlotOf(r.track, r.side) \in Slots /\ r.marks \in Nat BY FieldsOf DEF RegFine
  <1>2. /\ RegFine(ToStage(r, n)) /\ ToStage(r, n).cmd = r.cmd /\ ToStage(r, n).stage = n /\ ToStage(r, n).marks = 1
    <2> DEFINE q == [r EXCEPT !.stage = n, !.marks = 1]
    <2>1. ToStage(r, n) = q BY DEF ToStage
    <2>2. q \in RegType BY <1>1 DEF RegType
    <2>3. q.cmd = r.cmd /\ q.stage = n /\ q.marks = 1 /\ q.track = r.track /\ q.side = r.side
      BY <1>1 DEF RegType
    <2> HIDE DEF q
    <2>4. RegFine(q) BY <1>1, <2>2, <2>3 DEF RegFine
    <2> QED BY <2>1, <2>3, <2>4
  <1>3. RegFine(Stays(r)) /\ Stays(r).cmd = r.cmd /\ Stays(r).stage = r.stage /\ Stays(r).marks = r.marks + 1
    <2> DEFINE m == r.marks + 1
               q == [r EXCEPT !.marks = m]
    <2>1. Stays(r) = q BY DEF Stays
    <2>2. m \in Nat BY <1>1
    <2> HIDE DEF m
    <2>3. q \in RegType BY <1>1, <2>2 DEF RegType
    <2>4. q.cmd = r.cmd /\ q.stage = r.stage /\ q.marks = m /\ q.track = r.track /\ q.side = r.side
      BY <1>1 DEF RegType
    <2> HIDE DEF q
    <2>5. RegFine(q) BY <1>1, <2>3, <2>4 DEF RegFine
    <2> QED BY <2>1, <2>4, <2>5 DEF m
  <1> QED BY <1>2, <1>3

\* The routine's stream after a byte of it: an ID mark that was its head has its
\* ID in front now.
LEMMA Shorter ==
  ASSUME JobFine(job), job.op = "format",
         job' = [job EXCEPT !.stream = IF Len(@) > 1 THEN Tail(@) ELSE @]
  PROVE  /\ JobFine(job') /\ job'.op = "format" /\ Head(job.stream) = job.stream[1] /\ job.stream[1] \in Int
         /\ job.stream \in Seq(Int) /\ Len(job.stream) \in Nat
         /\ Len(job.stream) > 1 => /\ Len(job'.stream) = Len(job.stream) - 1
                                   /\ \A p \in 1 .. Len(job.stream) - 1 : job'.stream[p] = job.stream[p + 1]
         /\ Head(job.stream) = IdMark =>
                5 <= Len(job.stream) /\ job.stream[4] >= 0 /\ job.stream[5] >= 0
  <1> DEFINE s == job.stream
             t == IF Len(s) > 1 THEN Tail(s) ELSE s
  <1>1. job \in JobType /\ s \in Seq(Int) /\ s # <<>> /\ Marked(s) /\ ~job.done BY DEF JobFine, JobType
  <1>2. job' = [job EXCEPT !.stream = t] OBVIOUS
  <1> HIDE DEF s
  <1>3. Len(s) \in Nat /\ Len(s) >= 1 /\ Head(s) = s[1] /\ s[1] \in Int BY <1>1
  <1>4. t \in Seq(Int) /\ t # <<>>
    <2>1. CASE ~(Len(s) > 1) BY <1>1, <2>1
    <2>2. CASE Len(s) > 1
      <3>1. Tail(s) \in Seq(Int) /\ Len(Tail(s)) = Len(s) - 1 BY <1>1, <2>2
      <3>2. Len(Tail(s)) # 0 BY <1>3, <2>2, <3>1
      <3> DEFINE u == Tail(s)
      <3>3. t = u BY <2>2
      <3> HIDE DEF t, u
      <3>4. u # <<>>
        <4>1. u \in Seq(Int) /\ Len(u) # 0 BY <3>1, <3>2 DEF u
        <4> QED BY <4>1
      <3> QED BY <3>1, <3>3, <3>4 DEF u
    <2> QED BY <2>1, <2>2
  <1>5. Len(s) > 1 => Len(t) = Len(s) - 1 /\ \A p \in 1 .. Len(s) - 1 : t[p] = s[p + 1] BY <1>1, <1>3
  <1>6. Marked(t)
    <2>1. CASE ~(Len(s) > 1) BY <1>1, <2>1
    <2>2. CASE Len(s) > 1
      <3> HIDE DEF t
      <3> SUFFICES ASSUME NEW p \in 1 .. Len(t), t[p] = IdMark
                   PROVE  p + 4 <= Len(t) /\ t[p + 3] >= 0 /\ t[p + 4] >= 0
        BY DEF Marked
      <3>1. p + 1 \in 1 .. Len(s) /\ s[p + 1] = IdMark BY <1>3, <1>5, <2>2
      <3>2. (p + 1) + 4 <= Len(s) /\ s[(p + 1) + 3] >= 0 /\ s[(p + 1) + 4] >= 0 BY <1>1, <3>1 DEF Marked
      <3>3. p + 3 \in 1 .. Len(s) - 1 /\ p + 4 \in 1 .. Len(s) - 1 BY <1>3, <3>1, <3>2
      <3>4. t[p + 3] = s[(p + 3) + 1] /\ t[p + 4] = s[(p + 4) + 1] BY <1>5, <2>2, <3>3
      <3>5. (p + 3) + 1 = (p + 1) + 3 /\ (p + 4) + 1 = (p + 1) + 4 OBVIOUS
      <3> QED BY <1>3, <1>5, <2>2, <3>2, <3>4, <3>5
    <2> QED BY <2>1, <2>2
  <1>7. Head(s) = IdMark => 5 <= Len(s) /\ s[4] >= 0 /\ s[5] >= 0
    <2>1. 1 \in 1 .. Len(s) BY <1>3
    <2>2. s[1] = IdMark => 1 + 4 <= Len(s) /\ s[1 + 3] >= 0 /\ s[1 + 4] >= 0 BY <1>1, <2>1 DEF Marked
    <2> QED BY <1>3, <2>2
  <1> HIDE DEF t
  <1>8. job' \in JobType /\ job'.op = "format" /\ job'.stream = t /\ ~job'.done
    BY <1>1, <1>2, <1>4 DEF JobType
  <1>9. JobFine(job') BY <1>4, <1>6, <1>8 DEF JobFine
  <1> QED BY <1>1, <1>3, <1>5, <1>7, <1>8, <1>9 DEF s

\* A byte of the stream that leaves the disk alone.
LEMMA FormatGoes ==
  ASSUME Inv, disk' = disk, UNCHANGED <<drive, file, belief, buf, wrong>>,
         JobFine(job'), job'.op = "format", RegFine(reg'), reg'.cmd \in {"none", "format"}, FormatIn(reg', job')
  PROVE  Inv'
  <1>1. buf' \in BufType /\ drive' \in [Drives -> DriveType]
        /\ \A d \in Drives : CachedIn(file[d], drive'[d], belief[d])
    BY DEF Inv, Types, Holds
  <1>2. Types' /\ Holds' /\ ~wrong' BY <1>1, HoldsKept
  <1>3. Controlled(reg', job') /\ UnderwayIn(Image', Cur', reg', buf', job') BY NoSector
  <1>4. AddressIn(reg', buf', job') /\ TrackIn(Image', Cur', reg', job') BY DEF AddressIn, TrackIn
  <1> QED BY <1>2, <1>3, <1>4, Together

LEMMA IsFormatted == ASSUME RegFine(reg) PROVE IsTrack(Formatted)
  <1>1. reg.ids \in Seq(Nat) /\ reg.fill \in Byte BY FieldsOf DEF RegFine, Byte
  <1> DEFINE ids == reg.ids
             data == [id \in ToSet(ids) |-> reg.fill]
  <1>2. Formatted = [ids |-> ids, data |-> data] BY DEF Formatted
  <1>3. data \in [ToSet(ids) -> Byte] BY <1>1
  <1>4. ids \in Seq(Nat) BY <1>1
  <1> HIDE DEF ids, data
  <1>5. Formatted.ids = ids /\ Formatted.data = data BY <1>2
  <1> QED BY <1>2, <1>3, <1>4, <1>5 DEF IsTrack

\* The end of a format: the track is in the image and in the table, or it is
\* not and nothing is believed of it.
LEMMA FinishKeeps ==
  ASSUME Inv, disk' = disk, UNCHANGED <<buf, wrong>>, JobFine(job'), job'.op = "format", Finish
  PROVE  Inv'
  <1> DEFINE o == Offset(Image, Here)
             r == Ended(reg, {})
             h == Here
             later == {s \in Slots : s > h}
             d == [Cur EXCEPT !.offset = o, !.track = reg.track, !.side = reg.side, !.sector = 0, !.size = 0]
  <1>1. /\ Types /\ disk \in Setups /\ RegFine(reg) /\ reg.sel \in Drives /\ h \in Slots /\ Image \in ImageType
        /\ Cur \in DriveType /\ reg.track \in 0 .. MaxTrack /\ reg.side \in {0, 1} /\ buf' \in BufType
        /\ h = SlotOf(reg.track, reg.side) /\ LastSlot \in Nat /\ Slots = 0 .. LastSlot
    BY Selected, Disks DEF Inv, Types, Here
  <1>2. RegFine(r) /\ r.cmd = "none" /\ r.sel = reg.sel BY <1>1, EndedIs
  <1>3. \A st \in {{NotFound}, {Fault}} : RegFine(Refused(r, st)) /\ Refused(r, st).cmd = "none"
                                          /\ Refused(r, st).sel = reg.sel
    <2> HIDE DEF r
    <2>1. \A st \in {{NotFound}, {Fault}} : st \in SUBSET Flags BY DEF Flags
    <2> QED BY <1>2, <2>1, Refuses
  <1>4. \/ reg' = Refused(r, {NotFound}) /\ UNCHANGED <<drive, file, belief>>
        \/ /\ reg.code # 0 /\ o # 0 /\ drive' = [drive EXCEPT ![reg.sel] = d]
           /\ \/ /\ reg' = r /\ file' = [file EXCEPT ![reg.sel] = Tracked]
                 /\ belief' = [Forgetting(reg.sel, later) EXCEPT ![reg.sel][h] = Formatted]
              \/ /\ reg' = Refused(r, {Fault})
                 /\ \E image \in {Image, Sized(Image, TrackEnd)} : file' = [file EXCEPT ![reg.sel] = image]
                 /\ belief' = Forgetting(reg.sel, later \cup {h})
    BY DEF Finish, CurBecomes
  <1> HIDE DEF r
  <1>5. CASE reg' = Refused(r, {NotFound}) /\ UNCHANGED <<drive, file, belief>>
    <2>1. RegFine(reg') /\ reg'.cmd = "none" BY <1>3, <1>5
    <2>2. FormatIn(reg', job') BY <2>1 DEF FormatIn
    <2> QED BY <1>5, <2>1, <2>2, FormatGoes
  <1>6. ASSUME reg.code # 0, o # 0, drive' = [drive EXCEPT ![reg.sel] = d],
               RegFine(reg'), reg'.cmd = "none", reg'.sel = reg.sel,
               NEW img, file' = [file EXCEPT ![reg.sel] = img],
               NEW next, belief'[reg.sel] = next, DOMAIN belief' = Drives, TracksFine(next),
               \A e \in Drives : e # reg.sel => belief'[e] = belief[e],
               \/ img = Tracked /\ next[h] = Formatted
               \/ img \in {Image, Sized(Image, TrackEnd)} /\ next[h] = NoTrack,
               \A s \in Slots : /\ s < h => next[s] = belief[reg.sel][s]
                                /\ s > h => next[s] = NoTrack
        PROVE  Inv'
    <2> DEFINE tracks == belief[reg.sel]
    <2>1. TracksFine(tracks) /\ HoldsIn(Image, tracks) BY <1>1 DEF Inv, Types, Holds, Image
    <2>2. o \in Nat BY <1>1, OffsetIs
    <2>3. d \in DriveType /\ d.track = reg.track /\ d.side = reg.side /\ d.offset = o
      <3> HIDE DEF o
      <3>1. 0 \in {k * U : k \in Nat} BY Zeros
      <3>2. d \in DriveType BY <1>1, <2>2, <3>1 DEF DriveType
      <3>3. d.track = reg.track /\ d.side = reg.side /\ d.offset = o BY <1>1 DEF DriveType
      <3> QED BY <3>2, <3>3
    <2> HIDE DEF d, tracks
    <2>4. img \in ImageType /\ HoldsIn(img, next) /\ Offset(img, Here) = Offset(Image, Here)
      <3>1. /\ \/ img = Tracked /\ next[Here] = Formatted
               \/ img \in {Image, Sized(Image, TrackEnd)} /\ next[Here] = NoTrack
            /\ \A s \in Slots : /\ s < Here => next[s] = tracks[s]
                                /\ s > Here => next[s] = NoTrack
        BY <1>6 DEF tracks
      <3>2. Types /\ TracksFine(tracks) /\ HoldsIn(Image, tracks) /\ TracksFine(next) BY <1>1, <1>6, <2>1
      <3>3. reg.code # 0 /\ Offset(Image, Here) # 0 BY <1>6
      <3> HIDE DEF h, o
      <3> QED BY <3>1, <3>2, <3>3, TrackedIs
    <2>5. CachedIn(img, d, next)
      <3>1. SlotOf(d.track, d.side) = h BY <1>1, <2>3
      <3>2. Offset(img, h) = o /\ o # 0 /\ d.offset = o BY <1>6, <2>3, <2>4
      <3> HIDE DEF h, o
      <3> QED BY <1>1, <3>1, <3>2 DEF CachedIn
    <2>6. Types' /\ Holds' /\ ~wrong' BY <1>1, <1>6, <2>3, <2>4, <2>5, HoldsChanged
    <2>7. Controlled(reg', job') /\ UnderwayIn(Image', Cur', reg', buf', job') BY <1>6, NoSector
    <2> QED BY <1>6, <2>6, <2>7, Idles, Primed DEF Inv
  <1>7. ASSUME NEW slots
        PROVE  LET b == Forgetting(reg.sel, slots)
               IN  /\ DOMAIN b = Drives /\ \A e \in Drives : TracksFine(b[e]) /\ (e # reg.sel => b[e] = belief[e])
                   /\ \A s \in Slots : b[reg.sel][s] = IF s \in slots THEN NoTrack ELSE belief[reg.sel][s]
    BY <1>1, Forgotten
  <1>8. \A s \in Slots : (s \in later <=> s > h) /\ (s > h => s # h) /\ (s < h => s # h /\ ~(s > h)) /\ h \notin later
    BY <1>1
  <1>9. CASE /\ reg.code # 0 /\ o # 0 /\ drive' = [drive EXCEPT ![reg.sel] = d]
             /\ reg' = r /\ file' = [file EXCEPT ![reg.sel] = Tracked]
             /\ belief' = [Forgetting(reg.sel, later) EXCEPT ![reg.sel][h] = Formatted]
    <2> DEFINE b == Forgetting(reg.sel, later)
               next == [b[reg.sel] EXCEPT ![h] = Formatted]
    <2>1. /\ DOMAIN b = Drives /\ \A e \in Drives : TracksFine(b[e]) /\ (e # reg.sel => b[e] = belief[e])
          /\ \A s \in Slots : b[reg.sel][s] = IF s \in later THEN NoTrack ELSE belief[reg.sel][s]
      BY <1>7
    <2>2. belief' = [b EXCEPT ![reg.sel] = next] BY <1>9
    <2> HIDE DEF b, d, o, later
    <2>3. /\ next[h] = Formatted /\ \A s \in Slots : s # h => next[s] = b[reg.sel][s]
          /\ DOMAIN next = Slots
      BY <1>1, <2>1 DEF TracksFine
    <2> HIDE DEF next, h
    <2>4. TracksFine(next)
      <3>1. IsTrack(Formatted) BY <1>1, IsFormatted
      <3>2. \A s \in Slots : IsTrack(b[reg.sel][s]) BY <1>1, <2>1 DEF TracksFine
      <3> QED BY <2>3, <3>1, <3>2 DEF TracksFine
    <2>5. belief'[reg.sel] = next /\ DOMAIN belief' = Drives
          /\ \A e \in Drives : e # reg.sel => belief'[e] = belief[e]
      BY <1>1, <2>1, <2>2
    <2>6. \A s \in Slots : /\ s < h => next[s] = belief[reg.sel][s]
                           /\ s > h => next[s] = NoTrack
      BY <1>8, <2>1, <2>3
    <2>7. RegFine(reg') /\ reg'.cmd = "none" /\ reg'.sel = reg.sel BY <1>2, <1>9
    <2> QED BY <1>6, <1>9, <2>3, <2>4, <2>5, <2>6, <2>7
  <1>10. CASE /\ reg.code # 0 /\ o # 0 /\ drive' = [drive EXCEPT ![reg.sel] = d]
              /\ reg' = Refused(r, {Fault})
              /\ \E image \in {Image, Sized(Image, TrackEnd)} : file' = [file EXCEPT ![reg.sel] = image]
              /\ belief' = Forgetting(reg.sel, later \cup {h})
    <2> DEFINE slots == later \cup {h}
               b == Forgetting(reg.sel, slots)
               next == b[reg.sel]
    <2>1. /\ DOMAIN b = Drives /\ \A e \in Drives : TracksFine(b[e]) /\ (e # reg.sel => b[e] = belief[e])
          /\ \A s \in Slots : b[reg.sel][s] = IF s \in slots THEN NoTrack ELSE belief[reg.sel][s]
      BY <1>7
    <2>2. PICK image \in {Image, Sized(Image, TrackEnd)} : file' = [file EXCEPT ![reg.sel] = image] BY <1>10
    <2>3. \A s \in Slots : s \in slots <=> (s \in later \/ s = h) OBVIOUS
    <2>4. belief' = b BY <1>10
    <2> HIDE DEF slots, b, d, o, later, h
    <2>5. /\ next[h] = NoTrack
          /\ \A s \in Slots : /\ s < h => next[s] = belief[reg.sel][s]
                              /\ s > h => next[s] = NoTrack
      BY <1>1, <1>8, <2>1, <2>3
    <2>6. belief'[reg.sel] = next /\ DOMAIN belief' = Drives /\ TracksFine(next)
          /\ \A e \in Drives : e # reg.sel => belief'[e] = belief[e]
      BY <1>1, <2>1, <2>4
    <2>7. RegFine(reg') /\ reg'.cmd = "none" /\ reg'.sel = reg.sel BY <1>3, <1>10
    <2> HIDE DEF next
    <2> QED BY <1>6, <1>10, <2>2, <2>5, <2>6, <2>7
  <1> QED BY <1>4, <1>5, <1>9, <1>10

\* The index mark of the first track: the table is cleared.
LEMMA StampKeeps ==
  ASSUME Inv, disk' = disk, UNCHANGED <<drive, buf, wrong>>, JobFine(job'), job'.op = "format",
         RegFine(reg'), reg'.cmd \in {"none", "format"}, reg'.stage # 2, reg'.sel = reg.sel,
         file' = [file EXCEPT ![reg.sel] = Stamped] \/ file' = file,
         belief' = Forgetting(reg.sel, Slots)
  PROVE  Inv'
  <1>1. /\ Types /\ reg.sel \in Drives /\ Image \in ImageType /\ Cur \in DriveType /\ buf' \in BufType
        /\ drive \in [Drives -> DriveType] /\ file \in [Drives -> ImageType] /\ Laid(Image)
    BY Selected DEF Inv, Types, Holds, HoldsIn, Image
  <1> DEFINE next == belief'[reg.sel]
  <1>2. /\ DOMAIN belief' = Drives /\ TracksFine(next)
        /\ \A e \in Drives : e # reg.sel => belief'[e] = belief[e]
        /\ \A s \in Slots : next[s] = NoTrack
    BY <1>1, Forgotten
  <1> HIDE DEF next
  <1>3. Blank(next) BY <1>2, IsNoTrack DEF Blank
  <1>4. drive' = [drive EXCEPT ![reg.sel] = Cur] BY <1>1 DEF Cur
  <1>5. PICK img \in {Stamped, Image} : file' = [file EXCEPT ![reg.sel] = img]
    <2>1. file = [file EXCEPT ![reg.sel] = Image] BY <1>1 DEF Image
    <2> QED BY <2>1
  <1>6. img \in ImageType /\ Laid(img) BY <1>1, <1>5, StampedIs
  <1>7. HoldsIn(img, next) /\ CachedIn(img, Cur, next) BY <1>3, <1>6, BlankHolds DEF CachedIn
  <1>8. belief'[reg.sel] = next BY DEF next
  <1>9. Types' /\ Holds' /\ ~wrong' BY <1>1, <1>2, <1>4, <1>5, <1>6, <1>7, <1>8, HoldsChanged
  <1>10. Controlled(reg', job') /\ UnderwayIn(Image', Cur', reg', buf', job') BY NoSector
  <1>11. AddressIn(reg', buf', job') /\ TrackIn(Image', Cur', reg', job') /\ FormatIn(reg', job')
    BY DEF AddressIn, TrackIn, FormatIn
  <1> QED BY <1>9, <1>10, <1>11, Together

LEMMA FormatByteKeeps == ASSUME Inv, disk' = disk, FormatByte PROVE Inv'
  <1> DEFINE byte == Head(job.stream)
             r == [reg EXCEPT !.errint = FALSE]
             m == reg.marks
             s == job.stream
             Goes(t) == reg' = t /\ UNCHANGED <<drive, file, belief>>
  <1>1. /\ Types /\ RegFine(reg) /\ JobFine(job) /\ disk \in Setups
        /\ job.op = "format" /\ reg.cmd = "format" /\ UNCHANGED <<buf, wrong>>
        /\ job' = [job EXCEPT !.stream = IF Len(@) > 1 THEN Tail(@) ELSE @]
    BY DEF Inv, Types, FormatByte
  <1>2. /\ JobFine(job') /\ job'.op = "format" /\ byte = s[1] /\ byte \in Int
        /\ s \in Seq(Int) /\ Len(s) \in Nat
        /\ Len(s) > 1 => Len(job'.stream) = Len(s) - 1 /\ \A p \in 1 .. Len(s) - 1 : job'.stream[p] = s[p + 1]
        /\ byte = IdMark => 5 <= Len(s) /\ s[4] >= 0 /\ s[5] >= 0
    BY <1>1, Shorter
  <1>3. /\ RegFine(r) /\ r.cmd = "format" /\ r.stage = reg.stage /\ r.marks = m /\ r.sel = reg.sel
        /\ m \in Nat /\ reg.stage \in 0 .. 4 /\ reg.code \in Nat /\ reg.ids \in Seq(Nat) /\ r.ids = reg.ids
    <2>1. reg.polls \in 0 .. MaxPolls BY <1>1, FieldsOf DEF RegFine
    <2>2. RegFine(r) /\ Alike(r, reg) BY <1>1, <2>1, Acked
    <2> HIDE DEF r
    <2> QED BY <1>1, <2>2, FieldsOf DEF RegFine, Alike
  <1>4. FormatIn(reg, job) BY DEF Inv
  <1>5. RegFine(Aborted) /\ Aborted.cmd = "none" /\ Aborted.sel = reg.sel /\ Aborted.stage = 0
    BY <1>1, EndedIs DEF Aborted
  <1>6. \/ /\ reg.stage = 0 /\ byte = IndexMark /\ Here = 0
           /\ \E ok \in Works :
                 /\ reg' = IF ok THEN ToStage([r EXCEPT !.ids = <<>>, !.code = 0], 1) ELSE Aborted
                 /\ file' = IF ok THEN [file EXCEPT ![reg.sel] = Stamped] ELSE file
                 /\ belief' = Forgetting(reg.sel, Slots)
           /\ UNCHANGED drive
        \/ Goes(ToStage([r EXCEPT !.ids = <<>>, !.code = 0], 1))
        \/ Goes(Aborted)
        \/ reg.stage \in {0, 1} /\ Goes(Stays(r))
        \/ byte = IdMark /\ Goes(ToStage([r EXCEPT !.ids = <<>>], 2))
        \/ reg.stage = 2 /\ m = 3 /\ Goes(Stays([r EXCEPT !.ids = Append(@, byte)]))
        \/ reg.stage = 2 /\ m = 4 /\ Goes(Stays([r EXCEPT !.code = byte]))
        \/ reg.stage = 2 /\ m < 3 /\ Goes(Stays(r))
        \/ Goes([ToStage(r, 3) EXCEPT !.count = reg.code * U])
        \/ reg.stage = 2 /\ m > 4 /\ Goes(Stays(r))
        \/ /\ reg.stage = 3
           /\ \E f \in {r, [r EXCEPT !.fill = byte]} :
                 Goes([ToStage(f, 4) EXCEPT !.count = 0]) \/ Goes(Stays(f))
        \/ byte = IdMark /\ Goes(ToStage(r, 2))
        \/ reg.stage = 4 /\ Goes(Stays(r))
        \/ Finish
    BY DEF FormatByte
  <1>7. ASSUME NEW q, Goes(q), RegFine(q), q.cmd \in {"none", "format"},
               q.cmd = "format" => FormatIn(q, job')
        PROVE  Inv'
    <2>1. FormatIn(reg', job') BY <1>7 DEF FormatIn
    <2> QED BY <1>1, <1>2, <1>7, <2>1, FormatGoes
  <1>8. ASSUME NEW f, RegFine(f)
        PROVE  /\ \A n \in 0 .. 4 : RegFine(ToStage(f, n)) /\ ToStage(f, n).cmd = f.cmd
                                    /\ ToStage(f, n).stage = n /\ ToStage(f, n).marks = 1
               /\ RegFine(Stays(f)) /\ Stays(f).cmd = f.cmd /\ Stays(f).stage = f.stage
               /\ Stays(f).marks = f.marks + 1
    BY <1>8, Staged
  <1>9. \A ids \in Seq(Nat) : \A c \in Nat : \A v \in Int :
            /\ InStage([r EXCEPT !.ids = ids], r) /\ InStage([r EXCEPT !.code = c], r)
            /\ InStage([r EXCEPT !.fill = v], r) /\ InStage([r EXCEPT !.ids = ids, !.code = c], r)
    BY <1>3, Setting
  <1> DEFINE clear == [r EXCEPT !.ids = <<>>, !.code = 0]
             none == [r EXCEPT !.ids = <<>>]
             filled == [r EXCEPT !.fill = byte]
  <1>10. InStage(clear, r) /\ InStage(none, r) /\ InStage(filled, r)
    <2>1. <<>> \in Seq(Nat) /\ 0 \in Nat OBVIOUS
    <2> HIDE DEF r, byte
    <2> QED BY <1>2, <1>9, <2>1
  <1> HIDE DEF r, byte, clear, none, filled, m, s
  <1>11. \A q : q.cmd = "format" /\ q.stage # 2 => FormatIn(q, job') BY DEF FormatIn
  \* The first track.
  <1>12. CASE \E ok \in Works :
                 /\ reg' = IF ok THEN ToStage(clear, 1) ELSE Aborted
                 /\ file' = IF ok THEN [file EXCEPT ![reg.sel] = Stamped] ELSE file
                 /\ belief' = Forgetting(reg.sel, Slots)
              /\ UNCHANGED drive
    <2>1. /\ reg' \in {ToStage(clear, 1), Aborted} /\ belief' = Forgetting(reg.sel, Slots)
          /\ file' = [file EXCEPT ![reg.sel] = Stamped] \/ file' = file
          /\ UNCHANGED drive
      BY <1>12
    <2>2. /\ RegFine(ToStage(clear, 1)) /\ ToStage(clear, 1).cmd = "format" /\ ToStage(clear, 1).stage = 1
      BY <1>3, <1>8, <1>10 DEF InStage
    <2>3. ToStage(clear, 1).sel = reg.sel
      <3>1. clear \in RegType BY <1>10 DEF InStage, RegFine
      <3>2. clear.sel = r.sel
        <4>1. r \in RegType BY <1>3 DEF RegFine
        <4> QED BY <4>1 DEF clear, RegType
      <3>3. ToStage(clear, 1).sel = clear.sel BY <3>1 DEF ToStage, RegType
      <3> QED BY <1>3, <3>2, <3>3
    <2>4. RegFine(reg') /\ reg'.cmd \in {"none", "format"} /\ reg'.stage # 2 /\ reg'.sel = reg.sel
      BY <1>5, <2>1, <2>2, <2>3
    <2> QED BY <1>1, <1>2, <2>1, <2>4, StampKeeps
  <1>13. CASE Goes(ToStage(clear, 1))
    <2> DEFINE q == ToStage(clear, 1)
    <2>1. RegFine(q) /\ q.cmd = "format" /\ q.stage = 1 BY <1>3, <1>8, <1>10 DEF InStage
    <2> HIDE DEF Goes
    <2> QED BY <1>7, <1>11, <1>13, <2>1
  <1>14. CASE Goes(Aborted)
    <2> HIDE DEF Goes
    <2> QED BY <1>5, <1>7, <1>14
  \* Gaps.
  <1>15. CASE (reg.stage \in {0, 1, 4} \/ m > 4) /\ Goes(Stays(r))
    <2> DEFINE q == Stays(r)
    <2>1. RegFine(q) /\ q.cmd = "format" /\ q.stage = reg.stage /\ q.marks = m + 1 BY <1>3, <1>8
    <2> HIDE DEF q, Goes
    <2>2. FormatIn(q, job') BY <1>3, <1>15, <2>1 DEF FormatIn
    <2> QED BY <1>7, <1>15, <2>1, <2>2 DEF q
  \* An ID: the bytes that are to come are numbers.
  <1>16. CASE byte = IdMark /\ (Goes(ToStage(none, 2)) \/ Goes(ToStage(r, 2)))
    <2>1. ASSUME NEW f, RegFine(f), f.cmd = "format", Goes(ToStage(f, 2)) PROVE Inv'
      <3> DEFINE q == ToStage(f, 2)
      <3>1. RegFine(q) /\ q.cmd = "format" /\ q.stage = 2 /\ q.marks = 1 BY <1>8, <2>1
      <3>2. Len(s) > 1 /\ Len(job'.stream) = Len(s) - 1 /\ job'.stream[3] = s[4] /\ job'.stream[4] = s[5]
        BY <1>2, <1>16
      <3> HIDE DEF q, Goes
      <3>3. FormatIn(q, job') BY <1>2, <1>16, <3>1, <3>2 DEF FormatIn
      <3> QED BY <1>7, <2>1, <3>1, <3>3 DEF q
    <2> HIDE DEF Goes
    <2> QED BY <1>3, <1>10, <1>16, <2>1 DEF InStage
  <1>17. CASE reg.stage = 2 /\ m = 3 /\ Goes(Stays([r EXCEPT !.ids = Append(r.ids, byte)]))
    <2> DEFINE ids == Append(r.ids, byte)
               f == [r EXCEPT !.ids = ids]
               q == Stays(f)
    <2>1. Len(s) >= 2 /\ s[2] >= 0 /\ s[1] >= 0 BY <1>1, <1>4, <1>17 DEF FormatIn, m, s
    <2>2. byte \in Nat BY <1>2, <2>1
    <2>3. ids \in Seq(Nat) BY <1>3, <2>2
    <2> HIDE DEF ids
    <2>4. InStage(f, r)
      <3>1. 0 \in Nat /\ 0 \in Int OBVIOUS
      <3> QED BY <1>9, <2>3, <3>1
    <2> HIDE DEF f
    <2>5. RegFine(q) /\ q.cmd = "format" /\ q.stage = 2 /\ q.marks = 4 BY <1>3, <1>8, <1>17, <2>4 DEF InStage
    <2>6. Len(job'.stream) >= 1 /\ job'.stream[1] >= 0 BY <1>2, <2>1
    <2> HIDE DEF q, Goes
    <2>7. FormatIn(q, job') BY <2>5, <2>6 DEF FormatIn
    <2> QED BY <1>7, <1>17, <2>5, <2>7 DEF q, f, ids
  <1>18. CASE reg.stage = 2 /\ m = 4 /\ Goes(Stays([r EXCEPT !.code = byte]))
    <2> DEFINE f == [r EXCEPT !.code = byte]
               q == Stays(f)
    <2>1. s[1] >= 0 BY <1>1, <1>4, <1>18 DEF FormatIn, m, s
    <2>2. byte \in Nat BY <1>2, <2>1
    <2>3. InStage(f, r)
      <3>1. <<>> \in Seq(Nat) /\ 0 \in Int OBVIOUS
      <3> QED BY <1>9, <2>2, <3>1
    <2> HIDE DEF f
    <2>4. RegFine(q) /\ q.cmd = "format" /\ q.stage = 2 /\ q.marks = 5 BY <1>3, <1>8, <1>18, <2>3 DEF InStage
    <2> HIDE DEF q, Goes
    <2>5. FormatIn(q, job') BY <2>4 DEF FormatIn
    <2> QED BY <1>7, <1>18, <2>4, <2>5 DEF q, f
  <1>19. CASE reg.stage = 2 /\ m < 3 /\ Goes(Stays(r))
    <2> DEFINE q == Stays(r)
    <2>1. RegFine(q) /\ q.cmd = "format" /\ q.stage = 2 /\ q.marks = m + 1 BY <1>3, <1>8, <1>19
    <2>2. m <= 4 /\ m <= 3 BY <1>3, <1>19
    <2>3. m >= 1 /\ Len(s) >= 5 - m /\ s[5 - m] >= 0 /\ s[4 - m] >= 0
      BY <1>1, <1>4, <1>19, <2>2 DEF FormatIn, m, s
    <2> HIDE DEF q, Goes
    <2>4. FormatIn(q, job')
      <3>1. CASE m = 1
        <4>1. Len(s) >= 4 /\ s[4] >= 0 /\ s[3] >= 0 BY <2>3, <3>1
        <4>2. Len(job'.stream) >= 3 /\ job'.stream[3] >= 0 /\ job'.stream[2] >= 0
          <5>1. Len(s) > 1 /\ 3 \in 1 .. Len(s) - 1 /\ 2 \in 1 .. Len(s) - 1 BY <1>2, <4>1
          <5>2. Len(job'.stream) = Len(s) - 1 /\ job'.stream[3] = s[4] /\ job'.stream[2] = s[3] BY <1>2, <5>1
          <5> QED BY <1>2, <4>1, <5>2
        <4> QED BY <2>1, <3>1, <4>2 DEF FormatIn
      <3>2. CASE m = 2
        <4>1. Len(s) >= 3 /\ s[3] >= 0 /\ s[2] >= 0 BY <2>3, <3>2
        <4>2. Len(job'.stream) >= 2 /\ job'.stream[2] >= 0 /\ job'.stream[1] >= 0 BY <1>2, <4>1
        <4> QED BY <2>1, <3>2, <4>2 DEF FormatIn
      <3> QED BY <1>3, <1>19, <2>3, <3>1, <3>2
    <2> QED BY <1>7, <1>19, <2>1, <2>4 DEF q
  \* The data of a sector.
  <1>20. CASE Goes([ToStage(r, 3) EXCEPT !.count = reg.code * U])
    <2> DEFINE f == ToStage(r, 3)
               n == reg.code * U
               q == [f EXCEPT !.count = n]
    <2>1. RegFine(f) /\ f.cmd = "format" /\ f.stage = 3 BY <1>3, <1>8
    <2>2. n \in Nat BY <1>3, FloppyAssumption
    <2>4. Goes(q) BY <1>20
    <2> HIDE DEF f, n
    <2>3. InStage(q, f)
      <3>1. <<>> \in Seq(Nat) /\ 0 \in Int OBVIOUS
      <3> QED BY <2>1, <2>2, <3>1, Setting
    <2> HIDE DEF q, Goes
    <2> QED BY <1>7, <1>11, <2>1, <2>3, <2>4 DEF InStage
  <1>21. CASE /\ reg.stage = 3
              /\ \E f \in {r, filled} : Goes([ToStage(f, 4) EXCEPT !.count = 0]) \/ Goes(Stays(f))
    <2>1. PICK f \in {r, filled} : Goes([ToStage(f, 4) EXCEPT !.count = 0]) \/ Goes(Stays(f)) BY <1>21
    <2>2. RegFine(f) /\ f.cmd = "format" /\ f.stage = 3 BY <1>3, <1>10, <1>21, <2>1 DEF InStage
    <2> DEFINE g == ToStage(f, 4)
               q == [g EXCEPT !.count = 0]
               t == Stays(f)
    <2>3. RegFine(g) /\ g.cmd = "format" /\ g.stage = 4 BY <1>8, <2>2
    <2>4. RegFine(t) /\ t.cmd = "format" /\ t.stage = 3 BY <1>8, <2>2
    <2> HIDE DEF g
    <2>5. InStage(q, g)
      <3>1. <<>> \in Seq(Nat) /\ 0 \in Int /\ 0 \in Nat OBVIOUS
      <3> QED BY <2>3, <3>1, Setting
    <2>6. Goes(q) \/ Goes(t) BY <2>1 DEF g
    <2> HIDE DEF q, t, Goes
    <2>7. CASE Goes(q) BY <1>7, <1>11, <2>3, <2>5, <2>7 DEF InStage
    <2>8. CASE Goes(t) BY <1>7, <1>11, <2>4, <2>8
    <2> QED BY <2>6, <2>7, <2>8
  <1>22. CASE Finish BY <1>1, <1>2, <1>22, FinishKeeps
  <1> HIDE DEF Goes
  <1> QED BY <1>6, <1>12, <1>13, <1>14, <1>15, <1>16, <1>17, <1>18, <1>19, <1>20, <1>21, <1>22
           DEF clear, none, filled

-----------------------------------------------------------------------------
(* The specification.                                                      *)

LEMMA InitInv == ASSUME Init PROVE Inv
  <1>1. /\ disk \in Setups /\ reg = Registers /\ buf = NoBuffer /\ job = NoJob /\ wrong = FALSE
        /\ file = [d \in Drives |-> disk[d].file]
        /\ drive = [d \in Drives |-> Fresh(d, disk[d].configured)]
        /\ belief = [d \in Drives |-> disk[d].holds]
    BY DEF Init
  <1>2. ASSUME NEW d \in Drives
        PROVE  /\ file[d] \in ImageType /\ TracksFine(belief[d]) /\ HoldsIn(file[d], belief[d])
               /\ drive[d] \in DriveType /\ CachedIn(file[d], drive[d], belief[d])
    <2>1. /\ disk[d].configured \in BOOLEAN /\ disk[d].file \in ImageType
          /\ HoldsIn(disk[d].file, disk[d].holds) /\ TracksFine(disk[d].holds)
      BY <1>1, Disks
    <2>2. file[d] = disk[d].file /\ belief[d] = disk[d].holds /\ drive[d] = Fresh(d, disk[d].configured)
      BY <1>1
    <2>3. file[d] \in ImageType /\ TracksFine(belief[d]) /\ HoldsIn(file[d], belief[d]) BY <2>1, <2>2
    <2>4. Fresh(d, disk[d].configured) \in DriveType
          /\ CachedIn(file[d], Fresh(d, disk[d].configured), belief[d])
      BY <1>1, <2>1, <2>3, FreshOn
    <2> QED BY <2>2, <2>3, <2>4
  <1>3. RegFine(reg) /\ JobFine(job) /\ buf \in BufType BY <1>1, NoRegisters
  <1>4. drive \in [Drives -> DriveType] /\ file \in [Drives -> ImageType] /\ DOMAIN belief = Drives
    BY <1>1, <1>2
  <1>5. Types BY <1>1, <1>2, <1>3, <1>4 DEF Types
  <1>6. /\ reg.cmd = "none" /\ reg.count = 0 /\ reg.status = {} /\ reg.script = 0
        /\ job.op = "none" /\ ~job.ready
    BY <1>1 DEF Registers, NoJob
  <1>7. Controlled(reg, job) BY <1>6 DEF Controlled, Carries
  <1>8. /\ UnderwayIn(Image, Cur, reg, buf, job) /\ AddressIn(reg, buf, job)
        /\ TrackIn(Image, Cur, reg, job) /\ FormatIn(reg, job)
    BY <1>6 DEF UnderwayIn, Carries, AddressIn, TrackIn, FormatIn
  <1>9. Holds BY <1>2 DEF Holds
  <1> QED BY <1>1, <1>5, <1>7, <1>8, <1>9 DEF Inv

LEMMA NextKeeps == ASSUME Inv, Next PROVE Inv'
  <1>1. disk' = disk BY DEF Next
  <1>2. MaxTrack \in Nat /\ Data \subseteq Nat BY Disks, FloppyAssumption DEF Inv, Types
  <1>3. CASE \E d \in Drives : SelectDrive(d) BY <1>1, <1>3, SelectDriveKeeps
  <1>4. CASE \E d \in Drives \cap Explored : Mount(d) \/ Eject(d) BY <1>1, <1>4, MountKeeps, EjectKeeps
  <1>5. CASE \E s \in {0, 1} : SelectSide(s) BY <1>1, <1>5, SelectSideKeeps
  <1>6. CASE \E t \in 0 .. MaxTrack : TrackRegister(t) \/ Stage(t)
    <2>1. PICK t \in 0 .. MaxTrack : TrackRegister(t) \/ Stage(t) BY <1>6
    <2>2. t \in Nat BY <1>2
    <2> QED BY <1>1, <2>1, <2>2, TrackRegisterKeeps, DataRegistersKeep
  <1>7. CASE \E n \in SectorIds : SectorRegister(n)
    <2>1. PICK n \in SectorIds : SectorRegister(n) BY <1>7
    <2>2. n \in Nat BY DEF SectorIds
    <2> QED BY <1>1, <2>1, <2>2, DataRegistersKeep
  <1>8. CASE ReadSectorRegister
    <2>1. 0 \in Nat OBVIOUS
    <2> QED BY <1>1, <1>8, <2>1, DataRegistersKeep
  <1>9. CASE \E kind \in {"restore", "seek", "stepIn", "stepOut"} : Move(kind) BY <1>1, <1>9, MoveKeeps
  <1>10. CASE \E multi \in BOOLEAN : ReadSector(multi) BY <1>1, <1>10, ReadSectorKeeps
  <1>11. CASE \E multi \in BOOLEAN, v \in Data : WriteSector(multi, v) BY <1>1, <1>11, WriteSectorKeeps
  <1>12. CASE ReadAddress \/ ReadTrack BY <1>1, <1>12, ReadAddressKeeps, ReadTrackKeeps
  <1>13. CASE \E layout \in disk[reg.sel].layouts : WriteTrack(layout) BY <1>1, <1>13, WriteTrackKeeps
  <1>14. CASE ForceInterrupt \/ Poll \/ Drain BY <1>1, <1>14, ForceInterruptKeeps, PollKeeps, DrainKeeps
  <1>15. CASE ReadByte BY <1>1, <1>15, ReadByteKeeps
  <1>16. CASE WriteByte BY <1>1, <1>16, WriteByteKeeps
  <1>17. CASE AddressByte BY <1>1, <1>17, AddressByteKeeps
  <1>18. CASE TrackByte BY <1>1, <1>18, TrackByteKeeps
  <1>19. CASE FormatByte BY <1>1, <1>19, FormatByteKeeps
  <1>20. CASE SoftReset BY <1>1, <1>20, SoftResetKeeps
  <1> QED BY <1>3, <1>4, <1>5, <1>6, <1>7, <1>8, <1>9, <1>10, <1>11, <1>12, <1>13, <1>14, <1>15, <1>16,
             <1>17, <1>18, <1>19, <1>20 DEF Next, Step

LEMMA StutterKeeps == ASSUME Inv, UNCHANGED vars PROVE Inv'
  <1>1. UNCHANGED <<disk, reg, buf, drive, file, job, belief, wrong>> BY DEF vars
  <1>2. RegFine(reg') /\ JobFine(job') /\ buf' \in BufType /\ drive' \in [Drives -> DriveType]
        /\ \A d \in Drives : CachedIn(file[d], drive'[d], belief[d])
    BY <1>1 DEF Inv, Types, Holds
  <1>3. Types' /\ Holds' /\ ~wrong' BY <1>1, <1>2, HoldsKept
  <1>4. Image' = Image /\ Cur' = Cur BY <1>1 DEF Image, Cur
  <1>5. /\ Controlled(reg', job') /\ UnderwayIn(Image', Cur', reg', buf', job') /\ AddressIn(reg', buf', job')
        /\ TrackIn(Image', Cur', reg', job') /\ FormatIn(reg', job')
    BY <1>1, <1>4 DEF Inv
  <1> QED BY <1>3, <1>5, Together

LEMMA InvIsTyped == ASSUME Inv PROVE TypeOK
  <1>1. reg \in RegType /\ drive \in [Drives -> DriveType] BY DEF Inv, Types, RegFine
  <1>2. /\ reg.status \in SUBSET Flags /\ reg.track \in 0 .. MaxTrack /\ reg.side \in {0, 1} /\ reg.sel \in Drives
        /\ reg.script \in 0 .. 4 /\ reg.stage \in 0 .. 4 /\ reg.pos \in 0 .. U - 1 /\ reg.cmd \in Commands
    BY <1>1, FieldsOf
  <1>3. ASSUME NEW d \in Drives PROVE drive[d].size % U = 0 /\ drive[d].track \in 0 .. MaxTrack
    <2>1. drive[d].size \in {c * U : c \in Nat} /\ drive[d].track \in 0 .. MaxTrack BY <1>1 DEF DriveType
    <2>2. PICK c \in Nat : drive[d].size = c * U BY <2>1
    <2>3. U \in Nat \ {0} /\ 0 \in 0 .. U - 1 BY FloppyAssumption
    <2>4. c * U \in Nat BY <2>3
    <2>5. (c * U + 0) % U = 0 BY <2>3, Remainder
    <2>6. c * U + 0 = c * U BY <2>4
    <2> QED BY <2>1, <2>2, <2>5, <2>6
  <1> QED BY <1>2, <1>3 DEF TypeOK, Flags, Commands

LEMMA InvTransfers == ASSUME Inv PROVE TransferInv
  <1>1. SUFFICES ASSUME job.op \in {"read", "write"}, job.ready, ~job.done
        PROVE  LET d == SectorSought(Cur, Cur.sector, TRUE)
                   ahead == IF job.op = "read" THEN 1 ELSE 0
               IN  /\ reg.cmd = job.op /\ reg.count > 0 /\ reg.pos < Chunk(Cur) /\ OnTrack(Cur)
                   /\ Cur.sector = job.id
                   /\ Cur.size = d.size
                   /\ reg.count + (Cur.at - ahead - d.at) * U + reg.pos = Cur.size
    BY InvIsTyped DEF TransferInv
  <1> DEFINE d == SectorSought(Cur, Cur.sector, TRUE)
             ahead == IF job.op = "read" THEN 1 ELSE 0
             first == First(Image, Cur.offset, job.id)
  <1>2. reg.cmd = job.op /\ reg.count # 0
    <2>1. Carries(job) BY <1>1 DEF Carries
    <2>2. Drq \in reg.status /\ reg.script = 0 BY <1>1, <2>1 DEF Inv, Controlled
    <2>3. Live(reg, job) BY <2>1, <2>2 DEF Inv, Controlled
    <2> QED BY <2>3 DEF Live
  <1>3. /\ MovingIn(Image, Cur, reg, buf, job) /\ Chunk(Cur) = U /\ Cur.sector = job.id
        /\ reg.count \in Nat \ {0} /\ reg.pos \in 0 .. U - 1
    BY <1>1, <1>2, UnderwayNow
  <1>4. /\ Cur.track = reg.track /\ Cur.side = reg.side /\ Present(Image, Cur.offset, job.id)
        /\ Cur.size = CodeOn(Image, Cur.offset) * U
        /\ reg.count + (Cur.at - ahead - first) * U + reg.pos = Cur.size
    BY <1>3 DEF MovingIn
  <1>5. d.size = CodeOn(Image, Cur.offset) * U /\ d.at = first
    <2>1. Types /\ Cur \in DriveType BY Selected DEF Inv
    <2>2. Cur.sector \in Nat /\ TRUE \in BOOLEAN BY <2>1 DEF DriveType
    <2>3. Present(Image, Cur.offset, Cur.sector) BY <1>3, <1>4
    <2>4. Found(d) BY <2>1, <2>2, <2>3, Sought
    <2>5. d.at = First(Image, Cur.offset, Cur.sector) /\ d.size = CodeOn(Image, Cur.offset) * U
      BY <2>1, <2>2, <2>4, Sought
    <2> QED BY <1>3, <2>5
  <1>6. reg.count > 0 /\ reg.pos < Chunk(Cur) BY <1>3, FloppyAssumption
  <1>7. OnTrack(Cur) BY <1>4 DEF OnTrack
  <1> HIDE DEF d, ahead, first
  <1>8. reg.count + (Cur.at - ahead - d.at) * U + reg.pos = Cur.size BY <1>4, <1>5
  <1> QED BY <1>2, <1>3, <1>4, <1>5, <1>6, <1>7, <1>8 DEF d, ahead

LEMMA Invariant == Spec => []Inv
  <1>1. Init => Inv BY InitInv
  <1>2. Inv /\ [Next]_vars => Inv' BY NextKeeps, StutterKeeps
  <1> QED BY <1>1, <1>2, PTL DEF Spec

\* While a guest is told that data is requested, the byte counter, the place in
\* the buffer and the position in the image agree, on the sector the guest counts
\* on, for every size of unit and of sector, every layout and every failure of the
\* medium.
THEOREM TransferTheorem == Spec => []TransferInv
  <1>1. Inv => TransferInv BY InvTransfers
  <1> QED BY <1>1, Invariant, PTL

\* No byte that a read gives differs from what the guest last wrote or formatted
\* there, whatever commands, formats, failures, mounts and resets come between.
THEOREM ReadsBackTheorem == Spec => []ReadsBack
  <1>1. Inv => ReadsBack BY DEF Inv, ReadsBack
  <1> QED BY <1>1, Invariant, PTL
=============================================================================
