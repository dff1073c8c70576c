---------------------------- MODULE History_proofs ----------------------------
(***************************************************************************)
(* Proofs about History where no file is trimmed: type correctness; shells *)
(* read inside of the file; the lines flushed are kept, whole and in their *)
(* order; command numbers are ranks.                                       *)
(***************************************************************************)
EXTENDS History, FiniteSetTheorems, SequenceTheorems, WellFoundedInduction, TLAPS

--------------------------------------------------------------------------------
(* Numbers, cells and files. *)

LEMMA Numbers ==
    /\ Size \in Nat /\ Size >= 3 /\ Radix \in Nat /\ Radix >= 2
    /\ MarkEvery \in Nat /\ ScanSize \in Nat /\ TrimSize \in Nat
    /\ MaxCmd \in Nat /\ MaxInode \in Nat /\ 1 \in Inode
    /\ Restart = 1
<1>1. /\ Size \in Nat /\ Size >= 3 /\ Radix \in Nat /\ Radix >= 2
  BY SizeAssumption
<1>2. /\ MarkEvery \in Nat /\ ScanSize \in Nat /\ TrimSize \in Nat
  BY DistanceAssumption
<1>3. /\ MaxCmd \in Nat /\ MaxInode \in Nat /\ 1 \in Inode
  BY HistoryBoundAssumption DEF Inode
<1>4. Restart = 1
  BY <1>1 DEF Restart
<1>5. QED
  BY <1>1, <1>2, <1>3, <1>4

(* A set of numbers has a least one. *)
LEMMA Least ==
    ASSUME NEW S \in SUBSET Nat, S # {}
    PROVE  \E n \in S : \A m \in S : n <= m
<1>1. PICK n \in S : \A m \in S : ~ (<<m, n>> \in OpToRel(<, Nat))
  BY NatLessThanWellFounded, WFMin, Zenon
<1>2. \A m, k \in Nat : <<m, k>> \in OpToRel(<, Nat) <=> m < k
  BY DEF OpToRel
<1>3. \A m \in S : ~ (m < n)
  BY <1>1, <1>2
<1>4. QED
  BY <1>3

LEMMA MinOfIs ==
    ASSUME NEW S \in SUBSET Nat, S # {}
    PROVE  MinOf(S) \in S /\ \A m \in S : MinOf(S) <= m
<1>1. PICK n \in S : \A m \in S : n <= m
  BY Least
<1>2. QED
  BY <1>1 DEF MinOf

Kinds == {"head", "tail", "undo", "zero", "mark"}

LEMMA FrontIs ==
    ASSUME NEW S, NEW q \in Seq(S), q # <<>>
    PROVE  /\ Front(q) \in Seq(S) /\ Len(q) >= 1 /\ Len(Front(q)) = Len(q) - 1
           /\ \A i \in 1..Len(q) - 1 : Front(q)[i] = q[i]
<1>1. Len(q) \in Nat /\ Len(q) # 0
  OBVIOUS
<1>2. Front(q) = SubSeq(q, 1, Len(q) - 1)
  BY DEF Front
<1>3. \A i \in 1..Len(q) - 1 : q[i] \in S
  BY <1>1
<1> DEFINE n == Len(q) - 1
<1>4. n \in Nat
  BY <1>1
<1>5. \A i \in 1..n : q[i] \in S
  BY <1>3
<1> HIDE DEF n
<1>5a. n \in Int /\ 1 \in Int /\ (IF 1 <= n THEN n - 1 + 1 ELSE 0) = n /\ n - 1 + 1 = n
  BY <1>4
<1>6. /\ SubSeq(q, 1, n) \in Seq(S) /\ Len(SubSeq(q, 1, n)) = n
      /\ \A i \in 1..n : SubSeq(q, 1, n)[i] = q[1 + i - 1]
  BY <1>5a, <1>5, SubSeqProperties
<1>7. \A i \in 1..n : 1 + i - 1 = i
  BY <1>4
<1>8. QED
  BY <1>1, <1>2, <1>6, <1>7 DEF n

LEMMA CellFacts ==
    ASSUME NEW c \in Cell
    PROVE  c.t \in Kinds /\ c.v \in Int
BY Numbers DEF Cell, Kinds, Cmd

LEMMA CellsMade ==
    /\ Undo \in Cell /\ Zero \in Cell
    /\ \A c \in Cmd : Head1(c) \in Cell /\ Tail1(c) \in Cell
    /\ \A n \in Int : Mark(n) \in Cell
BY DEF Undo, Zero, Head1, Tail1, Mark, Cell

LEMMA FileFacts ==
    ASSUME NEW f \in Seq(Cell)
    PROVE  /\ Len(f) \in Nat
           /\ \A i \in 1..Len(f) : f[i] \in Cell /\ f[i].t \in Kinds /\ f[i].v \in Int
BY CellFacts

(* g is f with more cells behind it. *)
Longer(f, g) == Len(f) <= Len(g) /\ \A i \in 1..Len(f) : g[i] = f[i]

LEMMA Longer1 ==
    ASSUME NEW f \in Seq(Cell), NEW c \in Cell
    PROVE  /\ Append(f, c) \in Seq(Cell) /\ Len(Append(f, c)) = Len(f) + 1
           /\ Append(f, c)[Len(f) + 1] = c /\ Longer(f, Append(f, c))
BY FileFacts DEF Longer

LEMMA LongerTwice ==
    ASSUME NEW f \in Seq(Cell), NEW g \in Seq(Cell), NEW h \in Seq(Cell),
           Longer(f, g), Longer(g, h)
    PROVE  Longer(f, h)
<1>1. Len(f) \in Nat /\ Len(g) \in Nat /\ Len(h) \in Nat
  BY FileFacts
<1>2. \A i \in 1..Len(f) : i \in 1..Len(g)
  BY <1>1 DEF Longer
<1>3. QED
  BY <1>1, <1>2 DEF Longer

--------------------------------------------------------------------------------
(* What Read does: the function that it is the last value of. *)

ReadUpTo(f, g, i) == IF i = 0 THEN Begin ELSE ReadCell(g[i - 1], f[i], i)

ReadFn(f) == CHOOSE g : g = [i \in 0..Len(f) |-> ReadUpTo(f, g, i)]

(* What was read of f up to offset n. *)
ReadOf(f, n) == ReadFn(f)[n]

LEMMA ReadExists ==
    ASSUME NEW f, NEW n \in Nat
    PROVE  \E g : g = [i \in 0..n |-> ReadUpTo(f, g, i)]
<1> DEFINE Has(k) == \E g : g = [i \in 0..k |-> ReadUpTo(f, g, i)]
           Bad == {k \in Nat : ~ Has(k)}
<1>1. SUFFICES ASSUME ~ Has(n)
               PROVE  FALSE
  OBVIOUS
<1>2. Bad \in SUBSET Nat /\ Bad # {}
  <2> HIDE DEF Has
  <2>1. QED
    BY <1>1
<1>3. PICK k \in Bad : \A m \in Bad : k <= m
  <2> HIDE DEF Bad
  <2>1. QED
    BY <1>2, Least
<1>4. k # 0
  <2> DEFINE g == [i \in 0..0 |-> Begin]
  <2>1. g = [i \in 0..0 |-> ReadUpTo(f, g, i)]
    BY DEF ReadUpTo
  <2>2. Has(0)
    BY <2>1
  <2>3. QED
    BY <1>3, <2>2
<1>5. k - 1 \in Nat /\ k \in Nat
  BY <1>3, <1>4
<1>6. Has(k - 1)
  <2> HIDE DEF Has
  <2>1. ~ (k <= k - 1)
    BY <1>5
  <2>2. QED
    BY <1>3, <1>5, <2>1
<1>7. PICK g : g = [i \in 0..k - 1 |-> ReadUpTo(f, g, i)]
  BY <1>6
<1> DEFINE h == [i \in 0..k |-> IF i = k THEN ReadCell(g[k - 1], f[k], k) ELSE g[i]]
<1>8. \A i \in 0..k : h[i] = ReadUpTo(f, h, i)
  <2> SUFFICES ASSUME NEW i \in 0..k
               PROVE  h[i] = ReadUpTo(f, h, i)
    OBVIOUS
  <2>1. CASE i = k
    <3>1. h[k - 1] = g[k - 1]
      BY <1>5
    <3>2. h[i] = ReadCell(g[k - 1], f[k], k)
      BY <2>1
    <3>3. QED
      BY <3>1, <3>2, <2>1, <1>4 DEF ReadUpTo
  <2>2. CASE i # k
    <3>1. i \in 0..k - 1 /\ h[i] = g[i] /\ (i # 0 => h[i - 1] = g[i - 1])
      BY <2>2, <1>5
    <3>2. g[i] = ReadUpTo(f, g, i)
      BY <1>7, <3>1
    <3>3. QED
      BY <3>1, <3>2 DEF ReadUpTo
  <2>3. QED
    BY <2>1, <2>2
<1>9. h = [i \in 0..k |-> ReadUpTo(f, h, i)]
  BY <1>8
<1>10. Has(k)
  BY <1>9
<1>11. QED
  BY <1>10, <1>3

LEMMA ReadSteps ==
    ASSUME NEW f \in Seq(Cell)
    PROVE  /\ ReadOf(f, 0) = Begin
           /\ \A i \in 1..Len(f) : ReadOf(f, i) = ReadCell(ReadOf(f, i - 1), f[i], i)
           /\ Read(f) = ReadOf(f, Len(f))
<1>1. Len(f) \in Nat
  BY FileFacts
<1>2. ReadFn(f) = [i \in 0..Len(f) |-> ReadUpTo(f, ReadFn(f), i)]
  BY <1>1, ReadExists DEF ReadFn
<1>3. Read(f) = ReadFn(f)[Len(f)]
  BY Zenon DEF Read, ReadFn, ReadUpTo
<1> DEFINE g == ReadFn(f)
<1> HIDE DEF g
<1>4. \A i \in 0..Len(f) : g[i] = ReadUpTo(f, g, i)
  BY <1>2, Zenon DEF g
<1>5. g[0] = Begin
  BY <1>1, <1>4 DEF ReadUpTo
<1>6. \A i \in 1..Len(f) : g[i] = ReadCell(g[i - 1], f[i], i)
  <2>1. \A i \in 1..Len(f) : i \in 0..Len(f) /\ i # 0
    BY <1>1
  <2>2. QED
    BY <1>4, <2>1 DEF ReadUpTo
<1>7. QED
  BY <1>3, <1>5, <1>6 DEF ReadOf, g

Reading == [in : BOOLEAN, start : Nat, list : Seq(Nat)]

LEMMA ReadCellIs ==
    ASSUME NEW b \in Reading, NEW c \in Cell, NEW pos \in Nat \ {0}
    PROVE  /\ ReadCell(b, c, pos) \in Reading
           /\ ReadCell(b, c, pos).in <=> c.t = "head"
           /\ c.t = "head" => /\ ReadCell(b, c, pos).list = b.list
                              /\ ReadCell(b, c, pos).start = IF b.in THEN b.start ELSE pos - 1
           /\ c.t # "head" /\ b.in => ReadCell(b, c, pos).list = Append(b.list, b.start)
           /\ c.t = "tail" /\ ~ b.in => ReadCell(b, c, pos).list = Append(b.list, pos - 1)
           /\ c.t = "undo" /\ ~ b.in /\ b.list # <<>> => ReadCell(b, c, pos).list = Front(b.list)
           /\ c.t \in {"zero", "mark"} /\ ~ b.in => ReadCell(b, c, pos).list = b.list
<1>1. b.in \in BOOLEAN /\ b.start \in Nat /\ b.list \in Seq(Nat) /\ pos - 1 \in Nat
  BY DEF Reading
<1>2. c.t \in Kinds
  BY CellFacts
<1>3. b.list # <<>> => Front(b.list) \in Seq(Nat)
  BY <1>1, FrontIs
<1>4. CASE c.t = "head"
  BY <1>1, <1>4 DEF ReadCell, EndsText, Reading
<1>5. CASE c.t # "head" /\ b.in
  <2>1. ReadCell(b, c, pos) = [in |-> FALSE, start |-> 0, list |-> Append(b.list, b.start)]
    BY <1>5 DEF ReadCell, EndsText, Begin
  <2>2. QED
    BY <1>1, <1>5, <2>1 DEF Reading
<1>6. CASE c.t = "tail" /\ ~ b.in
  <2>1. ReadCell(b, c, pos) = [in |-> FALSE, start |-> 0, list |-> Append(b.list, pos - 1)]
    BY <1>6 DEF ReadCell, EndsText, Begin
  <2>2. QED
    BY <1>1, <1>6, <2>1 DEF Reading
<1>7. CASE c.t = "undo" /\ ~ b.in
  <2>1. ReadCell(b, c, pos) =
           [in |-> FALSE, start |-> 0, list |-> IF b.list # <<>> THEN Front(b.list) ELSE b.list]
    BY <1>7 DEF ReadCell, EndsText, Begin
  <2>2. QED
    BY <1>1, <1>3, <1>7, <2>1 DEF Reading
<1>8. CASE c.t \in {"zero", "mark"} /\ ~ b.in
  <2>1. ReadCell(b, c, pos) = [in |-> FALSE, start |-> 0, list |-> b.list]
    BY <1>8 DEF ReadCell, EndsText, Begin
  <2>2. QED
    BY <1>1, <1>8, <2>1 DEF Reading
<1>9. QED
  BY <1>2, <1>4, <1>5, <1>6, <1>7, <1>8 DEF Kinds

LEMMA ReadCellList ==
    ASSUME NEW b \in Reading, NEW c \in Cell, NEW pos \in Nat \ {0}
    PROVE  LET r == ReadCell(b, c, pos)
           IN  /\ c.t = "head" => r.list = b.list
               /\ c.t # "head" /\ b.in => r.list = Append(b.list, b.start)
               /\ c.t = "tail" /\ ~ b.in => r.list = Append(b.list, pos - 1)
               /\ c.t = "undo" /\ ~ b.in /\ b.list # <<>> => r.list = Front(b.list)
               /\ c.t \in {"zero", "mark"} /\ ~ b.in => r.list = b.list
<1> DEFINE r == ReadCell(b, c, pos)
<1> HIDE DEF r
<1>1. c.t = "head" => r.list = b.list
  BY ReadCellIs DEF r
<1>2. c.t # "head" /\ b.in => r.list = Append(b.list, b.start)
  BY ReadCellIs DEF r
<1>3. c.t = "tail" /\ ~ b.in => r.list = Append(b.list, pos - 1)
  BY DEF r, ReadCell, EndsText, Begin
<1>4. c.t = "undo" /\ ~ b.in /\ b.list # <<>> => r.list = Front(b.list)
  BY ReadCellIs DEF r
<1>5. c.t \in {"zero", "mark"} /\ ~ b.in => r.list = b.list
  BY ReadCellIs DEF r
<1>6. QED
  BY <1>1, <1>2, <1>3, <1>4, <1>5 DEF r

(* What was read is well formed, and a command is under way after a head only. *)
LEMMA ReadTyped ==
    ASSUME NEW f \in Seq(Cell), NEW n \in 0..Len(f)
    PROVE  /\ ReadOf(f, n) \in Reading
           /\ ReadOf(f, n).in <=> n >= 1 /\ f[n].t = "head"
<1> DEFINE Bad == {k \in 0..Len(f) : ReadOf(f, k) \notin Reading}
<1>0. Len(f) \in Nat
  BY FileFacts
<1>1. \A k \in 0..Len(f) : ReadOf(f, k) \in Reading
  <2> SUFFICES ASSUME Bad # {}
               PROVE  FALSE
    OBVIOUS
  <2>1. Bad \in SUBSET Nat
    OBVIOUS
  <2>2. PICK k \in Bad : \A m \in Bad : k <= m
    <3> HIDE DEF Bad
    <3>1. QED
      BY <2>1, Least
  <2>3. k # 0
    <3>1. Begin \in Reading
      BY DEF Begin, Reading
    <3>2. QED
      BY <2>2, <3>1, ReadSteps
  <2>4. k \in 1..Len(f) /\ k - 1 \in 0..Len(f) /\ k \in Nat \ {0}
    BY <1>0, <2>2, <2>3
  <2>5. ReadOf(f, k - 1) \in Reading
    BY <2>2, <2>4
  <2>6. f[k] \in Cell
    BY <2>4, FileFacts
  <2>7. ReadOf(f, k) = ReadCell(ReadOf(f, k - 1), f[k], k)
    BY <2>4, ReadSteps
  <2>8. ReadOf(f, k) \in Reading
    <3>1. ReadCell(ReadOf(f, k - 1), f[k], k) \in Reading
      BY <2>4, <2>5, <2>6, ReadCellIs, Zenon
    <3>2. QED
      BY <2>7, <3>1, Zenon
  <2>9. QED
    BY <2>2, <2>8
<1>2. CASE n = 0
  BY <1>1, <1>2, ReadSteps DEF Begin
<1>3. CASE n # 0
  <2>1. n \in 1..Len(f) /\ n - 1 \in 0..Len(f) /\ n \in Nat \ {0}
    BY <1>0, <1>3
  <2>2. f[n] \in Cell /\ ReadOf(f, n) = ReadCell(ReadOf(f, n - 1), f[n], n) /\ ReadOf(f, n - 1) \in Reading
    BY <1>1, <2>1, FileFacts, ReadSteps
  <2>3. ReadOf(f, n).in <=> f[n].t = "head"
    <3>1. ReadCell(ReadOf(f, n - 1), f[n], n).in <=> f[n].t = "head"
      BY <2>1, <2>2, ReadCellIs, Zenon
    <3>2. QED
      BY <2>2, <3>1, Zenon
  <2>4. QED
    BY <1>1, <2>1, <2>3
<1>4. QED
  BY <1>2, <1>3

(* What was read depends on what was read. *)
LEMMA ReadSame ==
    ASSUME NEW f \in Seq(Cell), NEW g \in Seq(Cell), NEW n \in Nat, n <= Len(f), n <= Len(g),
           \A i \in 1..n : f[i] = g[i]
    PROVE  ReadOf(f, n) = ReadOf(g, n)
<1> DEFINE Bad == {k \in 0..n : ReadOf(f, k) # ReadOf(g, k)}
<1>0. Len(f) \in Nat /\ Len(g) \in Nat
  BY FileFacts
<1> SUFFICES ASSUME Bad # {}
             PROVE  FALSE
  OBVIOUS
<1>1. PICK k \in Bad : \A m \in Bad : k <= m
  <2>1. Bad \in SUBSET Nat
    OBVIOUS
  <2> HIDE DEF Bad
  <2>2. QED
    BY <2>1, Least
<1>2. k # 0
  BY ReadSteps
<1>3. k \in 1..n /\ k \in 1..Len(f) /\ k \in 1..Len(g) /\ k - 1 \in 0..n /\ ~ (k <= k - 1)
  BY <1>0, <1>1, <1>2
<1>4. ReadOf(f, k - 1) = ReadOf(g, k - 1)
  BY <1>1, <1>3
<1>5. /\ ReadOf(f, k) = ReadCell(ReadOf(f, k - 1), f[k], k)
      /\ ReadOf(g, k) = ReadCell(ReadOf(g, k - 1), g[k], k)
  BY <1>3, ReadSteps
<1>6. QED
  BY <1>1, <1>3, <1>4, <1>5

LEMMA ReadLonger ==
    ASSUME NEW f \in Seq(Cell), NEW g \in Seq(Cell), Longer(f, g), NEW n \in 0..Len(f)
    PROVE  ReadOf(g, n) = ReadOf(f, n)
<1>1. Len(f) \in Nat /\ Len(g) \in Nat
  BY FileFacts
<1>2. n \in Nat /\ n <= Len(f) /\ n <= Len(g) /\ \A i \in 1..n : f[i] = g[i]
  BY <1>1 DEF Longer
<1>3. QED
  BY <1>2, ReadSame

(* One more cell. *)
LEMMA ReadAppend ==
    ASSUME NEW f \in Seq(Cell), NEW c \in Cell
    PROVE  ReadOf(Append(f, c), Len(f) + 1) = ReadCell(ReadOf(f, Len(f)), c, Len(f) + 1)
<1> DEFINE g == Append(f, c)
<1>1. g \in Seq(Cell) /\ Len(g) = Len(f) + 1 /\ g[Len(f) + 1] = c /\ Longer(f, g) /\ Len(f) \in Nat
  BY Longer1, FileFacts
<1> HIDE DEF g
<1>2. Len(f) + 1 \in 1..Len(g) /\ Len(f) \in 0..Len(f) /\ Len(f) + 1 - 1 = Len(f)
  BY <1>1
<1>3. ReadOf(g, Len(f) + 1) = ReadCell(ReadOf(g, Len(f)), c, Len(f) + 1)
  BY <1>1, <1>2, ReadSteps
<1>4. ReadOf(g, Len(f)) = ReadOf(f, Len(f))
  BY <1>1, <1>2, ReadLonger
<1>5. QED
  BY <1>3, <1>4 DEF g

--------------------------------------------------------------------------------
(* What Scan does. *)

Scanning == [ind : Int, cmds : [Index -> Nat], mark : Nat, in : BOOLEAN, pad : BOOLEAN]

ScanStart(h, in) == [ind |-> h.ind, cmds |-> h.cmds, mark |-> h.mark, in |-> in, pad |-> FALSE]

ScanUpTo(h, f, from, in, initial, g, i) ==
    IF i = from THEN ScanStart(h, in) ELSE Scanned(g[i - 1], f[i], i, initial)

ScanFn(h, f, from, in, initial) ==
    CHOOSE g : g = [i \in from..Len(f) |-> ScanUpTo(h, f, from, in, initial, g, i)]

(* g has what was found after each cell. *)
IsScan(g, h, f, from, in, initial) ==
    /\ g[from] = ScanStart(h, in)
    /\ \A i \in from + 1..Len(f) : g[i] = Scanned(g[i - 1], f[i], i, initial)

LEMMA ScanExists ==
    ASSUME NEW h, NEW f, NEW in, NEW initial, NEW from \in Nat, NEW n \in Nat, from <= n
    PROVE  \E g : g = [i \in from..n |-> ScanUpTo(h, f, from, in, initial, g, i)]
<1> DEFINE Has(k) == \E g : g = [i \in from..k |-> ScanUpTo(h, f, from, in, initial, g, i)]
           Bad == {k \in Nat : from <= k /\ ~ Has(k)}
<1>1. SUFFICES ASSUME ~ Has(n)
               PROVE  FALSE
  OBVIOUS
<1>2. Bad \in SUBSET Nat /\ Bad # {}
  <2> HIDE DEF Has
  <2>1. QED
    BY <1>1
<1>3. PICK k \in Bad : \A m \in Bad : k <= m
  <2> HIDE DEF Bad
  <2>1. QED
    BY <1>2, Least
<1>4. k # from
  <2> DEFINE g == [i \in from..from |-> ScanStart(h, in)]
  <2>1. g = [i \in from..from |-> ScanUpTo(h, f, from, in, initial, g, i)]
    BY DEF ScanUpTo
  <2>2. Has(from)
    BY <2>1
  <2>3. QED
    BY <1>3, <2>2
<1>5. k - 1 \in Nat /\ k \in Nat /\ from <= k - 1
  BY <1>3, <1>4
<1>6. Has(k - 1)
  <2> HIDE DEF Has
  <2>1. ~ (k <= k - 1)
    BY <1>5
  <2>2. QED
    BY <1>3, <1>5, <2>1
<1>7. PICK g : g = [i \in from..k - 1 |-> ScanUpTo(h, f, from, in, initial, g, i)]
  BY <1>6
<1> DEFINE q == [i \in from..k |-> IF i = k THEN Scanned(g[k - 1], f[k], k, initial) ELSE g[i]]
<1>8. \A i \in from..k : q[i] = ScanUpTo(h, f, from, in, initial, q, i)
  <2> SUFFICES ASSUME NEW i \in from..k
               PROVE  q[i] = ScanUpTo(h, f, from, in, initial, q, i)
    OBVIOUS
  <2>1. CASE i = k
    <3>1. q[k - 1] = g[k - 1]
      BY <1>5
    <3>2. q[i] = Scanned(g[k - 1], f[k], k, initial)
      BY <2>1
    <3>3. QED
      BY <3>1, <3>2, <2>1, <1>4 DEF ScanUpTo
  <2>2. CASE i # k
    <3>1. i \in from..k - 1 /\ q[i] = g[i] /\ (i # from => q[i - 1] = g[i - 1])
      BY <2>2, <1>5
    <3>2. g[i] = ScanUpTo(h, f, from, in, initial, g, i)
      BY <1>7, <3>1
    <3>3. QED
      BY <3>1, <3>2 DEF ScanUpTo
  <2>3. QED
    BY <2>1, <2>2
<1>9. q = [i \in from..k |-> ScanUpTo(h, f, from, in, initial, q, i)]
  BY <1>8
<1>10. Has(k)
  BY <1>9
<1>11. QED
  BY <1>10, <1>3

LEMMA ScanSteps ==
    ASSUME NEW h, NEW f \in Seq(Cell), NEW in, NEW initial, NEW from \in 0..Len(f)
    PROVE  \E g : IsScan(g, h, f, from, in, initial) /\ Scan(h, f, from, in, initial) = g[Len(f)]
<1> DEFINE g == ScanFn(h, f, from, in, initial)
<1>1. Len(f) \in Nat /\ from \in Nat /\ from <= Len(f)
  BY FileFacts
<1>2. g = [i \in from..Len(f) |-> ScanUpTo(h, f, from, in, initial, g, i)]
  BY <1>1, ScanExists DEF ScanFn
<1>3. Scan(h, f, from, in, initial) = g[Len(f)]
  BY Zenon DEF Scan, ScanFn, ScanUpTo, ScanStart
<1> HIDE DEF g
<1>4. \A i \in from..Len(f) : g[i] = ScanUpTo(h, f, from, in, initial, g, i)
  BY <1>2, Zenon
<1>5. g[from] = ScanStart(h, in)
  BY <1>1, <1>4 DEF ScanUpTo
<1>6. \A i \in from + 1..Len(f) : g[i] = Scanned(g[i - 1], f[i], i, initial)
  <2>1. \A i \in from + 1..Len(f) : i \in from..Len(f) /\ i # from
    BY <1>1
  <2>2. QED
    BY <1>4, <2>1 DEF ScanUpTo
<1>7. IsScan(g, h, f, from, in, initial)
  BY <1>5, <1>6 DEF IsScan
<1>8. QED
  BY <1>3, <1>7

(* The number of the next command after a cell. *)
NextNumber(st, cell, initial) ==
    CASE cell.t = "head" -> st.ind
      [] cell.t # "head" /\ (st.in \/ cell.t = "tail" \/ (cell.t = "zero" /\ ~ st.pad)) -> st.ind + 1
      [] cell.t = "zero" /\ ~ st.in /\ st.pad -> st.ind
      [] cell.t = "undo" /\ ~ st.in -> st.ind - 1
      [] cell.t = "mark" /\ ~ st.in -> IF initial THEN st.ind ELSE MarkerNumber(cell.v)

LEMMA ScannedIs ==
    ASSUME NEW st \in Scanning, NEW cell \in Cell, NEW pos \in Nat, NEW initial \in BOOLEAN
    PROVE  LET new == Scanned(st, cell, pos, initial)
           IN  /\ new \in Scanning
               /\ new.in <=> cell.t = "head"
               /\ new.ind = NextNumber(st, cell, initial)
               /\ new.cmds = IF cell.t = "head" THEN st.cmds ELSE [st.cmds EXCEPT ![new.ind] = pos]
<1> DEFINE At(n) == [st EXCEPT !.ind = n, !.cmds[n] = pos, !.in = FALSE, !.pad = FALSE]
           new == Scanned(st, cell, pos, initial)
<1>1. /\ st.ind \in Int /\ st.cmds \in [Index -> Nat] /\ st.mark \in Nat /\ st.in \in BOOLEAN
      /\ st.pad \in BOOLEAN
  BY DEF Scanning
<1>2. cell.t \in Kinds /\ cell.v \in Int
  BY CellFacts
<1>3. \A n \in Int : [st.cmds EXCEPT ![n] = pos] \in [Index -> Nat]
  BY <1>1
<1>4. \A n \in Int : /\ At(n) \in Scanning /\ At(n).ind = n /\ At(n).in = FALSE
                     /\ At(n).cmds = [st.cmds EXCEPT ![n] = pos]
  BY <1>1, <1>3 DEF Scanning
<1>5. MarkerNumber(cell.v) \in Int
  BY <1>2 DEF MarkerNumber
<1> USE DEF EndsText
<1>6. CASE cell.t = "head"
  <2>1. new = [st EXCEPT !.in = TRUE]
    BY <1>6 DEF Scanned
  <2>2. QED
    BY <1>1, <1>6, <2>1 DEF Scanning, NextNumber
<1>7. CASE cell.t # "head" /\ (st.in \/ cell.t = "tail" \/ (cell.t = "zero" /\ ~ st.pad))
  <2>1. new = [At(st.ind + 1) EXCEPT !.pad = TRUE]
    BY <1>7 DEF Scanned
  <2>2. st.ind + 1 \in Int /\ NextNumber(st, cell, initial) = st.ind + 1
    BY <1>1, <1>7 DEF NextNumber
  <2> HIDE DEF At, new
  <2>3. PICK a : a = At(st.ind + 1)
    OBVIOUS
  <2>4. a \in Scanning /\ a.ind = st.ind + 1 /\ a.in = FALSE /\ a.cmds = [st.cmds EXCEPT ![st.ind + 1] = pos]
    BY <1>4, <2>2, <2>3
  <2>5. new = [a EXCEPT !.pad = TRUE]
    BY <2>1, <2>3
  <2>6. new \in Scanning /\ new.ind = a.ind /\ new.in = a.in /\ new.cmds = a.cmds
    BY <2>4, <2>5 DEF Scanning
  <2>7. QED
    BY <1>7, <2>2, <2>4, <2>6 DEF new
<1>8. CASE cell.t = "zero" /\ ~ st.in /\ st.pad
  <2>1. new = [st EXCEPT !.cmds[st.ind] = pos]
    BY <1>8 DEF Scanned
  <2>2. NextNumber(st, cell, initial) = st.ind
    BY <1>8 DEF NextNumber
  <2>3. QED
    BY <1>1, <1>3, <1>8, <2>1, <2>2 DEF Scanning
<1>9. CASE cell.t = "undo" /\ ~ st.in
  <2>1. new = At(st.ind - 1)
    BY <1>9 DEF Scanned
  <2>2. st.ind - 1 \in Int /\ NextNumber(st, cell, initial) = st.ind - 1
    BY <1>1, <1>9 DEF NextNumber
  <2> HIDE DEF At, new
  <2>3. new \in Scanning /\ new.ind = st.ind - 1 /\ new.in = FALSE /\ new.cmds = [st.cmds EXCEPT ![st.ind - 1] = pos]
    BY <1>4, <2>1, <2>2
  <2>4. QED
    BY <1>9, <2>2, <2>3 DEF new
<1>10. CASE cell.t = "mark" /\ ~ st.in
  <2> DEFINE n == IF initial THEN st.ind ELSE MarkerNumber(cell.v)
  <2>1. new = [At(n) EXCEPT !.mark = pos]
    BY <1>10 DEF Scanned
  <2>2. n \in Int /\ NextNumber(st, cell, initial) = n
    BY <1>1, <1>5, <1>10 DEF NextNumber
  <2> HIDE DEF n, At, new
  <2>3. PICK a : a = At(n)
    OBVIOUS
  <2>4. a \in Scanning /\ a.ind = n /\ a.in = FALSE /\ a.cmds = [st.cmds EXCEPT ![n] = pos]
    BY <1>4, <2>2, <2>3
  <2>5. new = [a EXCEPT !.mark = pos]
    BY <2>1, <2>3
  <2>6. new \in Scanning /\ new.ind = a.ind /\ new.in = a.in /\ new.cmds = a.cmds
    BY <2>4, <2>5 DEF Scanning
  <2>7. QED
    BY <1>10, <2>2, <2>4, <2>6 DEF new
<1>11. QED
  BY <1>2, <1>6, <1>7, <1>8, <1>9, <1>10 DEF Kinds

HistIndex(h) == h.ind \in Int /\ h.cmds \in [Index -> Nat] /\ h.mark \in Nat

(* A scan has a well formed result, and is in a command when the last cell is a head. *)
LEMMA ScanTyped ==
    ASSUME NEW h, HistIndex(h), NEW f \in Seq(Cell), NEW in \in BOOLEAN, NEW initial \in BOOLEAN,
           NEW from \in 0..Len(f), NEW g,
           IsScan(g, h, f, from, in, initial)
    PROVE  \A n \in from..Len(f) : /\ g[n] \in Scanning
                                   /\ n > from => (g[n].in <=> f[n].t = "head")
<1> DEFINE Bad == {k \in from..Len(f) : g[k] \notin Scanning}
<1>0. Len(f) \in Nat /\ from \in Nat
  BY FileFacts
<1>1. \A k \in from..Len(f) : g[k] \in Scanning
  <2> SUFFICES ASSUME Bad # {}
               PROVE  FALSE
    OBVIOUS
  <2>1. Bad \in SUBSET Nat
    BY <1>0
  <2>2. PICK k \in Bad : \A m \in Bad : k <= m
    <3> HIDE DEF Bad
    <3>1. QED
      BY <2>1, Least
  <2>3. k # from
    <3>1. ScanStart(h, in) \in Scanning
      BY DEF ScanStart, Scanning, HistIndex
    <3>2. QED
      BY <2>2, <3>1 DEF IsScan
  <2>4. k \in from + 1..Len(f) /\ k - 1 \in from..Len(f) /\ k \in Nat /\ ~ (k <= k - 1) /\ k \in 1..Len(f)
    BY <1>0, <2>2, <2>3
  <2>5. g[k - 1] \in Scanning
    BY <2>2, <2>4
  <2>6. f[k] \in Cell
    BY <2>4, FileFacts
  <2>7. g[k] = Scanned(g[k - 1], f[k], k, initial)
    BY <2>4 DEF IsScan
  <2>8. Scanned(g[k - 1], f[k], k, initial) \in Scanning
    BY <2>4, <2>5, <2>6, ScannedIs, Zenon
  <2>9. QED
    BY <2>2, <2>7, <2>8, Zenon
<1>2. ASSUME NEW n \in from..Len(f), n > from
      PROVE  g[n].in <=> f[n].t = "head"
  <2>1. n \in from + 1..Len(f) /\ n - 1 \in from..Len(f) /\ n \in Nat /\ n \in 1..Len(f)
    BY <1>0, <1>2
  <2>2. f[n] \in Cell /\ g[n - 1] \in Scanning
    BY <1>1, <2>1, FileFacts
  <2>3. Scanned(g[n - 1], f[n], n, initial).in <=> f[n].t = "head"
    BY <2>1, <2>2, ScannedIs, Zenon
  <2>4. QED
    BY <2>1, <2>3 DEF IsScan
<1>3. QED
  BY <1>1, <1>2

--------------------------------------------------------------------------------
(* The file as the shells that wrote it meant it. *)

(* Zero bytes end a command that has no end, markers follow a command, undo records
   have a command to take back, and the file begins with a command. *)
TidyAt(f, i) ==
    /\ f[i].t = "zero" => i > 1 /\ f[i - 1].t = "head"
    /\ f[i].t = "mark" => i > 1 /\ f[i - 1].t = "tail"
    /\ f[i].t = "undo" => ReadOf(f, i - 1).list # <<>>
    /\ i = 1 => f[i].t = "head"

Tidy(f) == \A i \in 1..Len(f) : TidyAt(f, i)

(* The number of the next command after offset n. *)
Rank(f, n) == Len(ReadOf(f, n).list) + 1

(* Markers have the right numbers, and none that they cannot store. *)
Numbered(f) == \A i \in 1..Len(f) : f[i].t = "mark" => f[i].v = Rank(f, i) /\ f[i].v < Radix

LEMMA RankType ==
    ASSUME NEW f \in Seq(Cell), NEW n \in 0..Len(f)
    PROVE  Rank(f, n) \in Nat /\ Rank(f, n) >= 1
<1>1. ReadOf(f, n).list \in Seq(Nat)
  BY ReadTyped DEF Reading
<1>2. QED
  BY <1>1 DEF Rank

LEMMA MarkerRight ==
    ASSUME NEW n \in Nat, n >= 1, n < Radix
    PROVE  MarkerNumber(n) = n
<1>1. n % Radix = n
  BY Numbers
<1>2. QED
  BY <1>1 DEF MarkerNumber

(* One cell: the scan counts as Read does. *)
LEMMA ScanRank1 ==
    ASSUME NEW f \in Seq(Cell), Tidy(f), Numbered(f), NEW n \in 1..Len(f),
           NEW st \in Scanning, NEW initial \in BOOLEAN,
           st.ind = Rank(f, n - 1), st.in = ReadOf(f, n - 1).in
    PROVE  Scanned(st, f[n], n, initial).ind = Rank(f, n)
<1> DEFINE b == ReadOf(f, n - 1)
           c == f[n]
           r == ReadCell(b, c, n)
<1>1. n \in Nat \ {0} /\ n - 1 \in 0..Len(f) /\ c \in Cell /\ c.t \in Kinds /\ Len(f) \in Nat
  BY FileFacts
<1>2. b \in Reading /\ (b.in <=> n - 1 >= 1 /\ f[n - 1].t = "head")
  BY <1>1, ReadTyped
<1>3. ReadOf(f, n) = r
  BY ReadSteps
<1>4. TidyAt(f, n)
  BY DEF Tidy
<1>5. b.list \in Seq(Nat) /\ b.start \in Nat /\ b.in \in BOOLEAN /\ Len(b.list) \in Nat
  BY <1>2 DEF Reading
<1>6. Scanned(st, c, n, initial).ind = NextNumber(st, c, initial)
  BY <1>1, ScannedIs, Zenon
<1>7. st.ind = Len(b.list) + 1 /\ st.in = b.in /\ Rank(f, n) = Len(r.list) + 1
  BY <1>3 DEF Rank
<1>8. /\ c.t = "head" => r.list = b.list
      /\ c.t # "head" /\ b.in => r.list = Append(b.list, b.start)
      /\ c.t = "tail" /\ ~ b.in => r.list = Append(b.list, n - 1)
      /\ c.t = "undo" /\ ~ b.in /\ b.list # <<>> => r.list = Front(b.list)
      /\ c.t \in {"zero", "mark"} /\ ~ b.in => r.list = b.list
  <2>1. b \in Reading /\ c \in Cell /\ n \in Nat \ {0}
    BY <1>1, <1>2
  <2> HIDE DEF b, c, r
  <2>2. r = ReadCell(b, c, n)
    BY DEF r, b, c
  <2>3. /\ c.t = "head" => ReadCell(b, c, n).list = b.list
        /\ c.t # "head" /\ b.in => ReadCell(b, c, n).list = Append(b.list, b.start)
        /\ c.t = "tail" /\ ~ b.in => ReadCell(b, c, n).list = Append(b.list, n - 1)
        /\ c.t = "undo" /\ ~ b.in /\ b.list # <<>> => ReadCell(b, c, n).list = Front(b.list)
        /\ c.t \in {"zero", "mark"} /\ ~ b.in => ReadCell(b, c, n).list = b.list
    BY <2>1, ReadCellList, Zenon
  <2>4. QED
    BY <2>2, <2>3, Zenon
<1>9. /\ Len(Append(b.list, b.start)) = Len(b.list) + 1
      /\ Len(Append(b.list, n - 1)) = Len(b.list) + 1
      /\ b.list # <<>> => Len(Front(b.list)) = Len(b.list) - 1
  BY <1>1, <1>5, FrontIs
<1>10. /\ c.t = "zero" => n > 1 /\ f[n - 1].t = "head"
       /\ c.t = "mark" => n > 1 /\ f[n - 1].t = "tail"
       /\ c.t = "undo" => b.list # <<>>
  BY <1>4 DEF TidyAt
<1>11. /\ c.t = "zero" => b.in
       /\ c.t = "mark" => ~ b.in
  BY <1>1, <1>2, <1>10
<1>12. c.t = "mark" => MarkerNumber(c.v) = Rank(f, n)
  <2>1. SUFFICES ASSUME c.t = "mark"
                 PROVE  MarkerNumber(c.v) = Rank(f, n)
    OBVIOUS
  <2>2. c.v = Rank(f, n) /\ c.v < Radix
    BY <2>1 DEF Numbered
  <2>3. n \in 0..Len(f)
    BY <1>1
  <2>4. Rank(f, n) \in Nat /\ Rank(f, n) >= 1
    BY <2>3, RankType
  <2>5. QED
    BY <2>2, <2>4, MarkerRight
<1> HIDE DEF b, c, r
<1>13. NextNumber(st, c, initial) = Rank(f, n)
  <2>1. CASE c.t = "head"
    BY <2>1, <1>7, <1>8 DEF NextNumber
  <2>2. CASE c.t # "head" /\ b.in
    BY <2>2, <1>7, <1>8, <1>9 DEF NextNumber
  <2>3. CASE c.t = "tail" /\ ~ b.in
    BY <2>3, <1>7, <1>8, <1>9 DEF NextNumber
  <2>4. CASE c.t = "undo" /\ ~ b.in
    <3>1. r.list = Front(b.list) /\ Len(r.list) = Len(b.list) - 1
      BY <2>4, <1>8, <1>9, <1>10
    <3>2. NextNumber(st, c, initial) = st.ind - 1
      BY <2>4, <1>7 DEF NextNumber
    <3>3. QED
      BY <3>1, <3>2, <1>5, <1>7
  <2>5. CASE c.t = "mark" /\ ~ b.in
    <3>1. NextNumber(st, c, initial) = IF initial THEN st.ind ELSE MarkerNumber(c.v)
      BY <2>5, <1>7 DEF NextNumber
    <3>2. QED
      BY <3>1, <2>5, <1>7, <1>8, <1>12
  <2>6. QED
    BY <2>1, <2>2, <2>3, <2>4, <2>5, <1>1, <1>11 DEF Kinds
<1>14. QED
  BY <1>6, <1>13 DEF c

(* Once the scan counts as Read does, it goes on so. *)
LEMMA ScanRank ==
    ASSUME NEW h, HistIndex(h), NEW f \in Seq(Cell), NEW in \in BOOLEAN, NEW initial \in BOOLEAN,
           NEW from \in 0..Len(f), NEW g,
           IsScan(g, h, f, from, in, initial),
           Tidy(f), Numbered(f), NEW k \in from..Len(f),
           g[k].ind = Rank(f, k), g[k].in = ReadOf(f, k).in
    PROVE  g[Len(f)].ind = Rank(f, Len(f)) /\ g[Len(f)].in = ReadOf(f, Len(f)).in
<1> DEFINE Right(n) == g[n].ind = Rank(f, n) /\ g[n].in = ReadOf(f, n).in
           Bad == {n \in k..Len(f) : ~ Right(n)}
<1>0. Len(f) \in Nat /\ from \in Nat /\ k \in Nat /\ Len(f) \in k..Len(f)
  BY FileFacts
<1>1. \A n \in from..Len(f) : g[n] \in Scanning /\ (n > from => (g[n].in <=> f[n].t = "head"))
  BY ScanTyped
<1> HIDE DEF Right
<1>2. \A n \in k..Len(f) : Right(n)
  <2> SUFFICES ASSUME Bad # {}
               PROVE  FALSE
    OBVIOUS
  <2>1. Bad \in SUBSET Nat
    BY <1>0
  <2>2. PICK n \in Bad : \A m \in Bad : n <= m
    <3> HIDE DEF Bad
    <3>1. QED
      BY <2>1, Least
  <2>3. n # k
    BY <2>2 DEF Right
  <2>4. /\ n \in from + 1..Len(f) /\ n - 1 \in k..Len(f) /\ n - 1 \in from..Len(f) /\ n \in Nat
        /\ ~ (n <= n - 1) /\ n \in 1..Len(f) /\ n \in 0..Len(f) /\ n > from /\ n \in from..Len(f) /\ n >= 1
    BY <1>0, <2>2, <2>3
  <2>5. Right(n - 1)
    BY <2>2, <2>4
  <2>6. g[n - 1] \in Scanning /\ (g[n].in <=> f[n].t = "head") /\ g[n].in \in BOOLEAN
    BY <1>1, <2>4 DEF Scanning
  <2>7. ReadOf(f, n).in <=> f[n].t = "head"
    BY <2>4, ReadTyped
  <2>8. ReadOf(f, n).in \in BOOLEAN
    BY <2>4, ReadTyped DEF Reading
  <2>9. g[n].ind = Rank(f, n)
    <3>1. g[n] = Scanned(g[n - 1], f[n], n, initial)
      BY <2>4 DEF IsScan
    <3>2. Scanned(g[n - 1], f[n], n, initial).ind = Rank(f, n)
      BY <2>4, <2>5, <2>6, ScanRank1 DEF Right
    <3>3. QED
      BY <3>1, <3>2
  <2>10. Right(n)
    BY <2>6, <2>7, <2>8, <2>9 DEF Right
  <2>11. QED
    BY <2>2, <2>10
<1>3. QED
  BY <1>0, <1>2 DEF Right

--------------------------------------------------------------------------------
(* hist_nearend and hist_eof. *)

LEMMA NearEndIs ==
    ASSUME NEW f \in Seq(Cell), NEW p
    PROVE  LET r == NearEnd(f, p)
           IN  \/ r.ind = 1 /\ r.cnt = 0
               \/ r.cnt \in 1..Len(f) /\ f[r.cnt].t = "mark" /\ r.ind = f[r.cnt].v
<1> DEFINE ends == {i \in p + 1..Len(f) : EndsText(f[i])}
           marks == {i \in DOMAIN f : f[i].t = "mark" /\ ends # {} /\ i > MinOf(ends)}
           r == NearEnd(f, p)
<1>1. DOMAIN f = 1..Len(f) /\ Len(f) \in Nat
  BY FileFacts
<1>2. CASE p <= 0 \/ marks = {}
  <2>1. r = [ind |-> 1, cnt |-> 0]
    BY <1>2 DEF NearEnd
  <2>2. QED
    BY <2>1
<1>3. CASE ~ (p <= 0 \/ marks = {})
  <2>1. r = [ind |-> f[MinOf(marks)].v, cnt |-> MinOf(marks)]
    BY <1>3 DEF NearEnd
  <2>2. marks \in SUBSET Nat /\ marks # {}
    <3>1. \A i \in marks : i \in DOMAIN f
      OBVIOUS
    <3> HIDE DEF marks
    <3>2. QED
      BY <1>1, <1>3, <3>1
  <2> DEFINE i == MinOf(marks)
  <2>3. i \in marks
    <3> HIDE DEF marks
    <3>1. QED
      BY <2>2, MinOfIs
  <2>4. i \in 1..Len(f) /\ f[i].t = "mark"
    BY <1>1, <2>3
  <2> HIDE DEF i
  <2>5. r.cnt = i /\ r.ind = f[i].v
    BY <2>1 DEF i
  <2>6. QED
    BY <2>4, <2>5
<1>4. QED
  BY <1>2, <1>3

LEMMA HistFields ==
    ASSUME NEW h \in Hist
    PROVE  /\ h.ind \in Int /\ h.cnt \in Nat /\ h.mark \in Nat /\ h.own \in Nat /\ h.hsize \in Nat
           /\ h.cmds \in [Index -> Nat] /\ h.ino \in Inode \cup {0} /\ h.old \in Inode \cup {0}
           /\ h.cmd \in Cmd \cup {0} /\ HistIndex(h)
           /\ h.ret \in {"open", "clean", "prompt", "parse", "edit"}
           /\ h.pc \in {"off", "open", "clean", "copy", "exec", "prompt", "parse", "edit", "repair"}
<1>1. /\ h.ind \in Int /\ h.cnt \in Nat /\ h.mark \in Nat /\ h.own \in Nat /\ h.hsize \in Nat
      /\ h.cmds \in [Index -> Nat] /\ h.ino \in Inode \cup {0} /\ h.old \in Inode \cup {0}
      /\ h.cmd \in Cmd \cup {0}
      /\ h.ret \in {"open", "clean", "prompt", "parse", "edit"}
      /\ h.pc \in {"off", "open", "clean", "copy", "exec", "prompt", "parse", "edit", "repair"}
  BY DEF Hist
<1>2. QED
  BY <1>1 DEF HistIndex

LEMMA ClosedIs == Closed \in Hist
<1>1. [n \in Index |-> 0] \in [Index -> Nat]
  OBVIOUS
<1>2. QED
  BY <1>1 DEF Closed, Hist

(* A shell that was positioned by hist_nearend is where a marker is, or at the start. *)
LEMMA FromIs ==
    ASSUME NEW h \in Hist, NEW f \in Seq(Cell), NEW p
    PROVE  LET k == From(h, NearEnd(f, p))
           IN  /\ k \in Hist /\ k.cnt \in 0..Len(f)
               /\ k.ino = h.ino /\ k.cmd = h.cmd /\ k.own = h.own /\ k.hsize = h.hsize /\ k.cmds = h.cmds
               /\ Numbered(f) => k.ind = Rank(f, k.cnt)
               /\ ~ ReadOf(f, k.cnt).in
               /\ k.cnt >= 1 => f[k.cnt].t = "mark"
<1> DEFINE r == NearEnd(f, p)
           k == From(h, r)
<1>1. \/ r.ind = 1 /\ r.cnt = 0
      \/ r.cnt \in 1..Len(f) /\ f[r.cnt].t = "mark" /\ r.ind = f[r.cnt].v
  BY NearEndIs
<1> HIDE DEF r
<1>2. r.cnt \in 0..Len(f) /\ r.ind \in Int /\ r.cnt \in Nat
  BY <1>1, FileFacts
<1>3. k = [h EXCEPT !.ind = r.ind, !.cnt = r.cnt, !.mark = r.cnt]
  BY DEF From
<1>4. /\ k \in Hist /\ k.cnt = r.cnt /\ k.ind = r.ind
      /\ k.ino = h.ino /\ k.cmd = h.cmd /\ k.own = h.own /\ k.hsize = h.hsize /\ k.cmds = h.cmds
  BY <1>2, <1>3 DEF Hist
<1>5. Numbered(f) => r.ind = Rank(f, r.cnt)
  <2>1. CASE r.cnt = 0
    <3>1. r.ind = 1
      BY <1>1, <2>1
    <3>2. Rank(f, 0) = 1
      BY ReadSteps DEF Rank, Begin
    <3>3. QED
      BY <2>1, <3>1, <3>2
  <2>2. CASE r.cnt # 0
    BY <1>1, <2>2 DEF Numbered
  <2>3. QED
    BY <2>1, <2>2
<1>6. ~ ReadOf(f, r.cnt).in /\ (r.cnt >= 1 => f[r.cnt].t = "mark")
  BY <1>1, <1>2, ReadTyped
<1> HIDE DEF k
<1>7. QED
  BY <1>2, <1>4, <1>5, <1>6 DEF k, r

(* The result of hist_eof. *)
AfterEof(h, f, ret, k) ==
    /\ k \in Hist /\ k.cnt = Len(f) /\ k.ino = h.ino /\ k.cmd = h.cmd /\ k.own = h.own
    /\ k.hsize = h.hsize
    /\ \/ k.pc = "repair" /\ k.ret = ret /\ k.cnt >= 1 /\ f[k.cnt].t = "head"
       \/ k.pc = ret
    /\ Tidy(f) /\ Numbered(f) /\ h.ind = Rank(f, h.cnt) /\ ~ ReadOf(f, h.cnt).in =>
          k.ind = Rank(f, k.cnt) /\ (k.pc # "repair" => ~ ReadOf(f, k.cnt).in)

LEMMA ScanIs ==
    ASSUME NEW f \in Seq(Cell), NEW h, HistIndex(h), NEW c \in 0..Len(f), NEW initial \in BOOLEAN
    PROVE  LET st == Scan(h, f, c, FALSE, initial)
           IN  /\ st \in Scanning
               /\ st.in => Len(f) >= 1 /\ f[Len(f)].t = "head"
               /\ Tidy(f) /\ Numbered(f) /\ h.ind = Rank(f, c) /\ ~ ReadOf(f, c).in =>
                     st.ind = Rank(f, Len(f)) /\ (~ st.in => ~ ReadOf(f, Len(f)).in)
<1>0. PICK no \in BOOLEAN : no = FALSE
  OBVIOUS
<1>1. PICK g : IsScan(g, h, f, c, no, initial) /\ Scan(h, f, c, no, initial) = g[Len(f)]
  BY ScanSteps
<1> DEFINE st == Scan(h, f, c, FALSE, initial)
<1> HIDE DEF st
<1>2. st = g[Len(f)]
  BY <1>0, <1>1, Zenon DEF st
<1>3. Len(f) \in Nat /\ c \in c..Len(f) /\ Len(f) \in c..Len(f)
  BY FileFacts
<1>4. \A n \in c..Len(f) : /\ g[n] \in Scanning
                           /\ n > c => (g[n].in <=> f[n].t = "head")
  BY <1>1, ScanTyped
<1>5. st \in Scanning /\ (Len(f) > c => (st.in <=> f[Len(f)].t = "head"))
  BY <1>2, <1>3, <1>4
<1>6. st.in => Len(f) >= 1 /\ f[Len(f)].t = "head"
  <2>1. CASE Len(f) > c
    BY <1>3, <1>5, <2>1
  <2>2. CASE Len(f) = c
    <3>1. st = ScanStart(h, no)
      BY <1>1, <1>2, <2>2 DEF IsScan
    <3>2. QED
      BY <1>0, <3>1 DEF ScanStart
  <2>3. QED
    BY <1>3, <2>1, <2>2
<1>7. ASSUME Tidy(f), Numbered(f), h.ind = Rank(f, c), ~ ReadOf(f, c).in
      PROVE  st.ind = Rank(f, Len(f)) /\ (~ st.in => ~ ReadOf(f, Len(f)).in)
  <2>1. g[c].ind = Rank(f, c) /\ g[c].in = FALSE
    BY <1>0, <1>1, <1>7 DEF ScanStart, IsScan
  <2>2. ReadOf(f, c).in = FALSE
    BY <1>7, ReadTyped DEF Reading
  <2>3. g[c].in = ReadOf(f, c).in
    BY <2>1, <2>2, Zenon
  <2>4. g[Len(f)].ind = Rank(f, Len(f)) /\ g[Len(f)].in = ReadOf(f, Len(f)).in
    BY <1>1, <1>3, <1>7, <2>1, <2>3, ScanRank
  <2>5. QED
    BY <1>2, <2>4
<1>8. QED
  BY <1>5, <1>6, <1>7 DEF st

(* Where hist_eof may return to. *)
Returns == {"open", "clean", "prompt", "parse", "edit"}

LEMMA GoesOn ==
    ASSUME NEW k \in Hist, NEW x \in Returns \cup {"repair"}, NEW y \in Returns
    PROVE  [k EXCEPT !.pc = x, !.ret = y] \in Hist
BY DEF Hist, Returns

LEMMA HistEofIs ==
    ASSUME NEW f \in Seq(Cell), NEW h \in Hist, h.cnt <= Len(f), NEW s \in Shell,
           NEW ret \in {"open", "clean", "prompt", "parse", "edit"}, NEW initial \in BOOLEAN,
           HistEof(s, h, f, ret, initial)
    PROVE  \E k : AfterEof(h, f, ret, k) /\ sh' = [sh EXCEPT ![s] = k]
<1> DEFINE st == Scan(h, f, h.cnt, FALSE, initial)
           k == [Indexed(h, f, st) EXCEPT !.pc = IF st.in THEN "repair" ELSE ret,
                                          !.ret = IF st.in THEN ret ELSE "open"]
<1>1. sh' = [sh EXCEPT ![s] = k]
  BY DEF HistEof
<1>2. h.cnt \in 0..Len(f) /\ HistIndex(h) /\ Len(f) \in Nat
  BY HistFields, FileFacts
<1>3. /\ st \in Scanning
      /\ st.in => Len(f) >= 1 /\ f[Len(f)].t = "head"
      /\ Tidy(f) /\ Numbered(f) /\ h.ind = Rank(f, h.cnt) /\ ~ ReadOf(f, h.cnt).in =>
            st.ind = Rank(f, Len(f)) /\ (~ st.in => ~ ReadOf(f, Len(f)).in)
  BY <1>2, ScanIs, Zenon
<1> HIDE DEF st
<1>4. /\ k \in Hist /\ k.cnt = Len(f) /\ k.ino = h.ino /\ k.cmd = h.cmd /\ k.own = h.own
      /\ k.hsize = h.hsize /\ k.ind = st.ind /\ k.cmds = st.cmds
      /\ k.pc = (IF st.in THEN "repair" ELSE ret) /\ k.ret = IF st.in THEN ret ELSE "open"
  <2>1. st.ind \in Int /\ st.cmds \in [Index -> Nat] /\ st.mark \in Nat /\ st.in \in BOOLEAN
    BY <1>3 DEF Scanning
  <2> DEFINE read == Indexed(h, f, st)
             pc == IF st.in THEN "repair" ELSE ret
             back == IF st.in THEN ret ELSE "open"
  <2>2. /\ read \in Hist /\ read.cnt = Len(f) /\ read.ino = h.ino /\ read.cmd = h.cmd
        /\ read.own = h.own /\ read.hsize = h.hsize /\ read.ind = st.ind /\ read.cmds = st.cmds
    BY <1>2, <2>1 DEF Indexed, Hist
  <2>3. k = [read EXCEPT !.pc = pc, !.ret = back]
    OBVIOUS
  <2>4. pc \in Returns \cup {"repair"} /\ back \in Returns
    BY <2>1 DEF Returns
  <2> HIDE DEF read, k, pc, back
  <2>5. read \in Hist
    BY <2>2
  <2>6. k \in Hist
    BY <2>3, <2>4, <2>5, GoesOn
  <2>7. k.pc = pc /\ k.ret = back
    BY <2>3, <2>5 DEF Hist
  <2>8. k.cnt = read.cnt /\ k.ino = read.ino /\ k.cmd = read.cmd /\ k.own = read.own
    BY <2>3, <2>5 DEF Hist
  <2>9. k.hsize = read.hsize /\ k.ind = read.ind /\ k.cmds = read.cmds
    BY <2>3, <2>5 DEF Hist
  <2>10. QED
    BY <2>2, <2>6, <2>7, <2>8, <2>9 DEF pc, back
<1> HIDE DEF k
<1>5. AfterEof(h, f, ret, k)
  BY <1>3, <1>4 DEF AfterEof
<1>6. QED
  BY <1>1, <1>5

--------------------------------------------------------------------------------
(* Type correctness, and what holds of each shell by itself. *)

(* A shell that sends a line, or will when it has repaired the file. *)
Sends(h) == h.pc = "parse" \/ (h.pc = "repair" /\ h.ret = "parse")

ShellOK(h, f) ==
    /\ h.pc # "copy"
    /\ h.pc # "off" => h.ino = 1 /\ h.cnt + h.own <= Len(f)
    /\ h.own # 0 => h.own = 1 /\ h.pc = "parse"
    /\ Sends(h) \/ h.pc = "edit" \/ (h.pc = "repair" /\ h.ret = "edit") => h.cmd # 0
    /\ h.pc = "repair" => h.cnt >= 1 /\ f[h.cnt].t = "head"

(* Without trimming there is one file. *)
TInv ==
    /\ data \in [Inode -> Seq(Cell)] /\ path \in {0, 1} /\ recent = TRUE
    /\ sh \in [Shell -> Hist] /\ next \in 1..MaxCmd + 1 /\ log \in Seq(Cmd)
    /\ raced \in BOOLEAN /\ broken \in BOOLEAN
    /\ \A s \in Shell : ShellOK(sh[s], data[1])

LEMMA ShellOKLonger ==
    ASSUME NEW f \in Seq(Cell), NEW g \in Seq(Cell), Longer(f, g), NEW h \in Hist, ShellOK(h, f)
    PROVE  ShellOK(h, g)
<1>1. Len(f) \in Nat /\ Len(g) \in Nat /\ h.cnt \in Nat /\ h.own \in Nat
  BY FileFacts, HistFields
<1>2. Len(f) <= Len(g) /\ \A i \in 1..Len(f) : g[i] = f[i]
  BY DEF Longer
<1>3. h.pc = "repair" => h.cnt \in 1..Len(f)
  BY <1>1 DEF ShellOK
<1>4. QED
  BY <1>1, <1>2, <1>3 DEF ShellOK

(* A step of one shell, after which the file may be longer. *)
LEMMA ShellMoves ==
    ASSUME TInv, NEW s \in Shell, NEW k \in Hist, sh' = [sh EXCEPT ![s] = k],
           data' \in [Inode -> Seq(Cell)], Longer(data[1], data'[1]), ShellOK(k, data'[1]),
           path' \in {0, 1}, recent' = TRUE, next' \in 1..MaxCmd + 1, log' \in Seq(Cmd),
           raced' \in BOOLEAN, broken' \in BOOLEAN
    PROVE  TInv'
<1>1. data[1] \in Seq(Cell) /\ data'[1] \in Seq(Cell)
  BY Numbers DEF TInv
<1>2. sh' \in [Shell -> Hist]
  BY DEF TInv
<1>3. \A t \in Shell : ShellOK(sh'[t], data'[1])
  <2> SUFFICES ASSUME NEW t \in Shell
               PROVE  ShellOK(sh'[t], data'[1])
    OBVIOUS
  <2>1. CASE t = s
    <3>1. sh'[t] = k
      BY <2>1 DEF TInv
    <3>2. QED
      BY <3>1
  <2>2. CASE t # s
    <3>1. sh'[t] = sh[t] /\ sh[t] \in Hist /\ ShellOK(sh[t], data[1])
      BY <2>2 DEF TInv
    <3>2. ShellOK(sh[t], data'[1])
      BY <1>1, <3>1, ShellOKLonger
    <3>3. QED
      BY <3>1, <3>2
  <2>3. QED
    BY <2>1, <2>2
<1>4. QED
  BY <1>2, <1>3 DEF TInv

LEMMA LongerSelf ==
    ASSUME NEW f \in Seq(Cell)
    PROVE  Longer(f, f)
BY FileFacts DEF Longer

(* The state of a shell. *)
LEMMA ShellFacts ==
    ASSUME TInv, NEW s \in Shell
    PROVE  /\ sh[s] \in Hist /\ ShellOK(sh[s], data[1]) /\ data[1] \in Seq(Cell)
           /\ sh[s].pc # "off" => File(s) = data[1] /\ sh[s].ino = 1
                                  /\ sh[s].cnt + sh[s].own <= Len(data[1]) /\ sh[s].cnt <= Len(data[1])
           /\ sh[s].own \in {0, 1} /\ sh[s].cnt \in Nat /\ Len(data[1]) \in Nat
<1>1. sh[s] \in Hist /\ ShellOK(sh[s], data[1]) /\ data[1] \in Seq(Cell)
  BY Numbers DEF TInv
<1>2. sh[s].own \in Nat /\ sh[s].cnt \in Nat /\ Len(data[1]) \in Nat
  BY <1>1, HistFields, FileFacts
<1>3. QED
  BY <1>1, <1>2 DEF ShellOK, File

(* A step of one shell that leaves the file as it is. *)
LEMMA ShellReads ==
    ASSUME TInv, NEW s \in Shell, NEW k \in Hist, sh' = [sh EXCEPT ![s] = k], ShellOK(k, data[1]),
           UNCHANGED data,
           path' \in {0, 1}, recent' = TRUE, next' \in 1..MaxCmd + 1, log' \in Seq(Cmd),
           raced' \in BOOLEAN, broken' \in BOOLEAN
    PROVE  TInv'
<1>1. data' \in [Inode -> Seq(Cell)] /\ data[1] \in Seq(Cell) /\ data'[1] = data[1]
  BY Numbers DEF TInv
<1>2. Longer(data[1], data'[1]) /\ ShellOK(k, data'[1])
  BY <1>1, LongerSelf
<1>3. QED
  BY <1>1, <1>2, ShellMoves

LEMMA InitTInv == Init => TInv
<1> SUFFICES ASSUME Init
             PROVE  TInv
  OBVIOUS
<1>1. data = [i \in Inode |-> <<>>] /\ <<>> \in Seq(Cell) /\ <<>> \in Seq(Cmd)
  BY DEF Init
<1>2. data \in [Inode -> Seq(Cell)]
  BY <1>1
<1>3. sh \in [Shell -> Hist] /\ \A s \in Shell : sh[s] = Closed
  BY ClosedIs DEF Init
<1>4. 1 \in 1..MaxCmd + 1
  BY Numbers
<1>5. \A f : ShellOK(Closed, f)
  BY DEF ShellOK, Closed, Sends
<1>6. QED
  BY <1>1, <1>2, <1>3, <1>4, <1>5 DEF Init, TInv

--------------------------------------------------------------------------------
(* What each action does. *)

(* hist_eof read the file for a shell without an unfinished line. *)
LEMMA ReadsEof ==
    ASSUME TInv, NEW s \in Shell, NEW h \in Hist, NEW k, NEW ret,
           AfterEof(h, data[1], ret, k), sh' = [sh EXCEPT ![s] = k], UNCHANGED data,
           h.ino = 1, h.own = 0, ret \in {"open", "clean", "prompt", "parse", "edit"},
           ret \in {"parse", "edit"} => h.cmd # 0,
           path' = path, recent' = recent, next' \in 1..MaxCmd + 1, log' = log,
           raced' = raced, broken' = broken
    PROVE  TInv'
<1>1. data[1] \in Seq(Cell) /\ Len(data[1]) \in Nat
  BY Numbers, FileFacts DEF TInv
<1>2. k \in Hist /\ ShellOK(k, data[1])
  BY <1>1 DEF AfterEof, ShellOK, Sends
<1>3. /\ path' \in {0, 1} /\ recent' = TRUE /\ log' \in Seq(Cmd)
      /\ raced' \in BOOLEAN /\ broken' \in BOOLEAN
  BY DEF TInv
<1>4. QED
  BY <1>2, <1>3, ShellReads

(* The next number of a shell is that of the next command. *)
RankOK(h, f) ==
    /\ h.pc # "off" => h.ind = Rank(f, h.cnt) /\ (h.pc # "repair" => ~ ReadOf(f, h.cnt).in)
    /\ h.pc = "off" => h.ind = 1

(* The shell s reads the file as h, which is where s is or where a marker is. *)
ReadsAs(s, h, ret) ==
    /\ h \in Hist /\ h.ino = 1 /\ h.own = 0 /\ h.cnt \in 0..Len(data[1])
    /\ Numbered(data[1]) /\ RankOK(sh[s], data[1]) =>
          h.ind = Rank(data[1], h.cnt) /\ ~ ReadOf(data[1], h.cnt).in
    /\ \E k : AfterEof(h, data[1], ret, k) /\ sh' = [sh EXCEPT ![s] = k]

(* Open of a file that exists. *)
LEMMA OpenIs ==
    ASSUME TInv, NEW s \in Shell, Open(s)
    PROVE  \/ /\ path' = 1 /\ data[1] = <<>> /\ recent' = TRUE
              /\ sh' = [sh EXCEPT ![s] = [Closed EXCEPT !.pc = "exec", !.ino = 1]]
           \/ /\ path' = path /\ recent' = recent
              /\ \E h : ReadsAs(s, h, "open")
<1>1. CASE path = 0
  BY <1>1 DEF Open
<1>2. CASE path # 0
  <2> DEFINE f == data[1]
             h == [Closed EXCEPT !.ino = path, !.hsize = Len(f)]
             h2 == From(h, NearEnd(f, Len(f) - ScanSize))
  <2>1. path = 1 /\ f \in Seq(Cell) /\ Len(f) \in Nat
    BY <1>2, Numbers, FileFacts DEF TInv
  <2>2. HistEof(s, h2, f, "open", TRUE) /\ path' = path /\ recent' = recent
    BY <1>2, <2>1 DEF Open
  <2>3. h \in Hist /\ h.ino = 1 /\ h.own = 0
    BY <2>1, ClosedIs, Numbers DEF Hist, Closed
  <2> HIDE DEF f, h
  <2>4. /\ h2 \in Hist /\ h2.cnt \in 0..Len(f) /\ h2.ino = h.ino /\ h2.own = h.own
        /\ Numbered(f) => h2.ind = Rank(f, h2.cnt)
        /\ ~ ReadOf(f, h2.cnt).in
    BY <2>1, <2>3, FromIs
  <2> HIDE DEF h2
  <2>5. h2.cnt <= Len(f)
    BY <2>1, <2>4
  <2>6. \E k : AfterEof(h2, f, "open", k) /\ sh' = [sh EXCEPT ![s] = k]
    <3>1. PICK yes \in BOOLEAN : yes = TRUE
      OBVIOUS
    <3>2. HistEof(s, h2, f, "open", yes)
      BY <2>2, <3>1, Zenon
    <3>3. QED
      BY <2>1, <2>4, <2>5, <3>2, HistEofIs
  <2>7. ReadsAs(s, h2, "open")
    BY <2>3, <2>4, <2>6 DEF f, ReadsAs
  <2>8. QED
    BY <2>2, <2>7
<1>3. QED
  BY <1>1, <1>2

LEMMA OpenEndIs ==
    ASSUME TInv, NEW s \in Shell, OpenEnd(s)
    PROVE  \E h : ReadsAs(s, h, "clean")
<1> DEFINE h == sh[s]
           f == data[1]
           start == IF h.ind - Size <= 0 THEN 1 ELSE h.ind - Size
           Near(j) == NearEnd(f, h.hsize - ScanSize * 2^j)
           far == CHOOSE j \in 0..Len(f) : Near(j).ind <= start /\ \A i \in 0..j - 1 : Near(i).ind > start
           first == NearEnd(f, h.hsize - ScanSize)
           h2 == IF first.ind <= start THEN h ELSE From(h, Near(far))
<1>1. h.pc = "open"
  BY DEF OpenEnd
<1>2. /\ h \in Hist /\ ShellOK(h, f) /\ f \in Seq(Cell) /\ h.pc # "off" /\ File(s) = f
      /\ h.ino = 1 /\ h.cnt <= Len(f) /\ h.cnt \in Nat /\ Len(f) \in Nat
  BY <1>1, ShellFacts
<1>3. HistEof(s, h2, f, "clean", TRUE)
  BY <1>2, Zenon DEF OpenEnd
<1>4. h.own = 0
  BY <1>1, <1>2 DEF ShellOK
<1>5. PICK p : p = h.hsize - ScanSize * 2^far
  OBVIOUS
<1>6. h2 = h \/ h2 = From(h, NearEnd(f, p))
  BY <1>5
<1>7. RankOK(h, f) => h.ind = Rank(f, h.cnt) /\ ~ ReadOf(f, h.cnt).in
  BY <1>1 DEF RankOK
<1> HIDE DEF h, f, h2
<1>8. /\ h2 \in Hist /\ h2.cnt \in 0..Len(f) /\ h2.ino = 1 /\ h2.own = 0
      /\ Numbered(f) /\ RankOK(h, f) => h2.ind = Rank(f, h2.cnt) /\ ~ ReadOf(f, h2.cnt).in
  <2>1. CASE h2 = h
    BY <1>2, <1>4, <1>7, <2>1
  <2>2. CASE h2 = From(h, NearEnd(f, p))
    <3>1. /\ h2 \in Hist /\ h2.cnt \in 0..Len(f) /\ h2.ino = h.ino /\ h2.own = h.own
          /\ Numbered(f) => h2.ind = Rank(f, h2.cnt)
          /\ ~ ReadOf(f, h2.cnt).in
      BY <1>2, <2>2, FromIs
    <3>2. QED
      BY <1>2, <1>4, <3>1
  <2>3. QED
    BY <1>6, <2>1, <2>2
<1>9. h2.cnt <= Len(f)
  BY <1>2, <1>8
<1>10. \E k : AfterEof(h2, f, "clean", k) /\ sh' = [sh EXCEPT ![s] = k]
  <2>1. PICK yes \in BOOLEAN : yes = TRUE
    OBVIOUS
  <2>2. HistEof(s, h2, f, "clean", yes)
    BY <1>3, <2>1, Zenon
  <2>3. QED
    BY <1>2, <1>8, <1>9, <2>2, HistEofIs
<1>11. ReadsAs(s, h2, "clean")
  BY <1>8, <1>10 DEF ReadsAs, h, f
<1>12. QED
  BY <1>11

(* The command loop and the hist built-in read from where the shell is. *)
LEMMA ReadsOn ==
    ASSUME TInv, NEW s \in Shell, sh[s].pc \in {"exec", "prompt"},
           NEW h \in Hist, h.ino = sh[s].ino, h.cnt = sh[s].cnt, h.ind = sh[s].ind, h.own = 0,
           NEW ret \in {"prompt", "parse", "edit"}, HistEof(s, h, File(s), ret, FALSE)
    PROVE  ReadsAs(s, h, ret)
<1> DEFINE f == data[1]
<1>1. /\ f \in Seq(Cell) /\ File(s) = f /\ sh[s].ino = 1 /\ sh[s].cnt <= Len(f) /\ sh[s].cnt \in Nat
      /\ Len(f) \in Nat
  BY ShellFacts
<1>2. h.cnt <= Len(f) /\ h.cnt \in 0..Len(f)
  BY <1>1
<1>3. \E k : AfterEof(h, f, ret, k) /\ sh' = [sh EXCEPT ![s] = k]
  <2>1. PICK no \in BOOLEAN : no = FALSE
    OBVIOUS
  <2>2. HistEof(s, h, f, ret, no)
    BY <1>1, <2>1, Zenon
  <2>3. QED
    BY <1>1, <1>2, <2>2, HistEofIs
<1>4. RankOK(sh[s], f) => h.ind = Rank(f, h.cnt) /\ ~ ReadOf(f, h.cnt).in
  BY DEF RankOK
<1>5. QED
  BY <1>1, <1>2, <1>3, <1>4 DEF ReadsAs

LEMMA PromptIs ==
    ASSUME TInv, NEW s \in Shell, Prompt(s)
    PROVE  ReadsAs(s, sh[s], "prompt")
<1>1. sh[s].pc = "exec" /\ HistEof(s, sh[s], File(s), "prompt", FALSE)
  BY DEF Prompt
<1>2. sh[s] \in Hist /\ sh[s].own = 0
  BY <1>1, ShellFacts DEF ShellOK
<1>3. QED
  BY <1>1, <1>2, ReadsOn

LEMMA ReadLineIs ==
    ASSUME TInv, NEW s \in Shell, ReadLine(s)
    PROVE  /\ next \in Cmd /\ next' = next + 1
           /\ ReadsAs(s, [sh[s] EXCEPT !.cmd = next, !.own = 0], "parse")
<1> DEFINE h == [sh[s] EXCEPT !.cmd = next, !.own = 0]
<1>1. sh[s].pc = "prompt" /\ HistEof(s, h, File(s), "parse", FALSE) /\ next' = next + 1 /\ next <= MaxCmd
  BY DEF ReadLine
<1>2. next \in Cmd
  BY <1>1, Numbers DEF TInv, Cmd
<1>3. sh[s] \in Hist
  BY ShellFacts
<1>4. h \in Hist /\ h.ino = sh[s].ino /\ h.cnt = sh[s].cnt /\ h.ind = sh[s].ind /\ h.own = 0
  BY <1>2, <1>3 DEF Hist
<1> HIDE DEF h
<1>5. ReadsAs(s, h, "parse")
  BY <1>1, <1>4, ReadsOn
<1>6. QED
  BY <1>1, <1>2, <1>5 DEF h

LEMMA EditIs ==
    ASSUME TInv, NEW s \in Shell, Edit(s)
    PROVE  sh[s].cmd # 0 /\ ReadsAs(s, sh[s], "edit")
<1>1. sh[s].pc = "exec" /\ HistEof(s, sh[s], File(s), "edit", FALSE) /\ sh[s].cmd # 0
  BY DEF Edit
<1>2. sh[s] \in Hist /\ sh[s].own = 0
  BY <1>1, ShellFacts DEF ShellOK
<1>3. QED
  BY <1>1, <1>2, ReadsOn

(* What is written goes behind the file. *)
LEMMA Appended ==
    ASSUME NEW f \in Seq(Cell), NEW c \in Cell, NEW d \in Cell, NEW e \in Cell
    PROVE  /\ f \o <<c>> = Append(f, c)
           /\ f \o <<c, d>> = Append(Append(f, c), d)
           /\ f \o Append(<<c>>, e) = Append(Append(f, c), e)
           /\ f \o Append(<<c, d>>, e) = Append(Append(Append(f, c), d), e)
<1>1. f \o <<c>> = Append(f, c)
  OBVIOUS
<1>2. \A g, h \in Seq(Cell) : (f \o g) \o h = f \o (g \o h)
  OBVIOUS
<1>3. \A g \in Seq(Cell) : g \o <<d>> = Append(g, d) /\ g \o <<e>> = Append(g, e)
  OBVIOUS
<1>4. <<c>> \in Seq(Cell) /\ <<d>> \in Seq(Cell) /\ <<e>> \in Seq(Cell) /\ <<c, d>> \in Seq(Cell)
      /\ Append(f, c) \in Seq(Cell)
  OBVIOUS
<1>5. <<c, d>> = <<c>> \o <<d>>
  <2>1. <<c>> \o <<d>> = Append(<<c>>, d)
    BY <1>3, <1>4
  <2> DEFINE p == Append(<<c>>, d)
             q == <<c, d>>
  <2>2. p \in Seq(Cell) /\ Len(p) = 2 /\ p[1] = c /\ p[2] = d
    BY <1>4
  <2>3. q \in Seq(Cell) /\ Len(q) = 2 /\ q[1] = c /\ q[2] = d
    BY <1>4
  <2> HIDE DEF p, q
  <2>4. p = q
    BY <2>2, <2>3, SeqEqual
  <2>5. QED
    BY <2>1, <2>4 DEF p, q
<1>6. f \o <<c, d>> = Append(Append(f, c), d)
  BY <1>1, <1>2, <1>3, <1>4, <1>5
<1>7. f \o Append(<<c>>, e) = Append(Append(f, c), e)
  BY <1>1, <1>2, <1>3, <1>4
<1>8. Append(Append(f, c), d) \in Seq(Cell)
  BY <1>4
<1>9. f \o Append(<<c, d>>, e) = Append(Append(Append(f, c), d), e)
  BY <1>2, <1>3, <1>4, <1>6, <1>8
<1>10. QED
  BY <1>1, <1>6, <1>7, <1>9

LEMMA WrittenIs ==
    ASSUME TInv, NEW s \in Shell, sh[s].pc # "off", NEW cells, Written(s, cells),
           NEW g \in Seq(Cell), data[1] \o cells = g
    PROVE  data' \in [Inode -> Seq(Cell)] /\ data'[1] = g /\ recent' = TRUE
<1>1. data' = [data EXCEPT ![1] = data[1] \o cells] /\ sh[s].ino = 1
  BY ShellFacts DEF Written
<1>2. recent' = TRUE
  BY DEF Written, TInv
<1>3. QED
  BY <1>1, <1>2, Numbers DEF TInv

(* What a part of a line that goes to the file does. *)
Overflows(s) ==
    LET h == sh[s]
        g == Append(data[1], Head1(h.cmd))
        k == [h EXCEPT !.own = 1]
    IN  /\ h.pc = "parse" /\ h.own = 0 /\ h.cmd \in Cmd /\ k \in Hist
        /\ data' \in [Inode -> Seq(Cell)] /\ data'[1] = g /\ recent' = TRUE
        /\ sh' = [sh EXCEPT ![s] = k]

LEMMA OverflowIs ==
    ASSUME TInv, NEW s \in Shell, Overflow(s)
    PROVE  Overflows(s)
<1> DEFINE h == sh[s]
           g == Append(data[1], Head1(h.cmd))
<1>1. h.pc = "parse" /\ h.own = 0 /\ Written(s, <<Head1(h.cmd)>>) /\ sh' = [sh EXCEPT ![s].own = 1]
  BY DEF Overflow
<1>2. h \in Hist /\ ShellOK(h, data[1]) /\ data[1] \in Seq(Cell)
  BY ShellFacts
<1>3. h.cmd \in Cmd
  BY <1>1, <1>2, HistFields DEF ShellOK, Sends
<1>4. Head1(h.cmd) \in Cell
  BY <1>3, CellsMade
<1>5. g \in Seq(Cell) /\ data[1] \o <<Head1(h.cmd)>> = g
  BY <1>2, <1>4, Appended, Longer1
<1>6. data' \in [Inode -> Seq(Cell)] /\ data'[1] = g /\ recent' = TRUE
  <2>1. h.pc # "off"
    BY <1>1
  <2> HIDE DEF h, g
  <2>2. QED
    BY <1>1, <1>5, <2>1, WrittenIs DEF h
<1>7. sh' = [sh EXCEPT ![s] = [h EXCEPT !.own = 1]] /\ [h EXCEPT !.own = 1] \in Hist
  BY <1>1, <1>2 DEF TInv, Hist
<1>8. QED
  BY <1>1, <1>3, <1>6, <1>7 DEF Overflows

(* The line, and perhaps a marker. *)
Lined(f, h) ==
    IF h.own > 0 THEN Append(f, Tail1(h.cmd)) ELSE Append(Append(f, Head1(h.cmd)), Tail1(h.cmd))

(* What a flush does. *)
Flushes(s) ==
    LET h == sh[s]
        f == data[1]
    IN  /\ h.pc = "parse" /\ h.cmd \in Cmd
        /\ data' \in [Inode -> Seq(Cell)] /\ recent' = TRUE
        /\ data'[1] = Lined(f, h) \/ data'[1] = Append(Lined(f, h), Mark(h.ind + 1))
        /\ \E k \in Hist : /\ sh' = [sh EXCEPT ![s] = k]
                           /\ k.pc = "exec" /\ k.ino = 1 /\ k.own = 0 /\ k.cmd = h.cmd
                           /\ k.ind = h.ind + 1 /\ k.cnt = Len(data'[1])
                           /\ k.cmds = [h.cmds EXCEPT ![k.ind] = k.cnt]

LEMMA FlushIs ==
    ASSUME TInv, NEW s \in Shell, Flush(s)
    PROVE  Flushes(s)
<1> DEFINE h == sh[s]
           f == data[1]
           text == IF h.own > 0 THEN <<Tail1(h.cmd)>> ELSE <<Head1(h.cmd), Tail1(h.cmd)>>
           new == Flushed(h, f, text)
           cnt == Len(f) + Len(text)
           marked == cnt > h.mark + MarkEvery
           end == IF marked THEN cnt + 1 ELSE cnt
           k == [new.hist EXCEPT !.pc = "exec", !.own = 0]
           g == IF marked THEN Append(Lined(f, h), Mark(h.ind + 1)) ELSE Lined(f, h)
<1>1. h.pc = "parse"
  BY DEF Flush
<1>2. /\ h \in Hist /\ ShellOK(h, f) /\ f \in Seq(Cell) /\ File(s) = f /\ h.ino = 1 /\ Len(f) \in Nat
      /\ h.ind \in Int /\ h.cmds \in [Index -> Nat] /\ h.mark \in Nat
  BY <1>1, ShellFacts, HistFields
<1>3. h.cmd \in Cmd
  BY <1>1, <1>2, HistFields DEF ShellOK, Sends
<1>4. Written(s, new.cells) /\ sh' = [sh EXCEPT ![s] = k]
  BY <1>2 DEF Flush
<1>5. /\ Head1(h.cmd) \in Cell /\ Tail1(h.cmd) \in Cell /\ Mark(h.ind + 1) \in Cell
  BY <1>2, <1>3, CellsMade
<1>6. /\ new.cells = IF marked THEN Append(text, Mark(h.ind + 1)) ELSE text
      /\ new.hist = [h EXCEPT !.ind = h.ind + 1, !.cnt = end, !.cmds[h.ind + 1] = end,
                              !.mark = IF marked THEN end ELSE h.mark]
  BY DEF Flushed
<1>7. /\ f \o new.cells = g /\ g \in Seq(Cell) /\ Len(g) = end
  <2> DEFINE a == Head1(h.cmd)
             b == Tail1(h.cmd)
             m == Mark(h.ind + 1)
  <2>1. a \in Cell /\ b \in Cell /\ m \in Cell
    BY <1>5
  <2>2. /\ f \o <<b>> = Append(f, b)
        /\ f \o <<a, b>> = Append(Append(f, a), b)
        /\ f \o Append(<<b>>, m) = Append(Append(f, b), m)
        /\ f \o Append(<<a, b>>, m) = Append(Append(Append(f, a), b), m)
    <3> HIDE DEF a, b, m, f
    <3>1. QED
      BY <1>2, <2>1, Appended
  <2>3. Lined(f, h) = IF h.own > 0 THEN Append(f, b) ELSE Append(Append(f, a), b)
    BY DEF Lined
  <2>4. Len(text) = IF h.own > 0 THEN 1 ELSE 2
    OBVIOUS
  <2>5. new.cells = IF marked THEN Append(IF h.own > 0 THEN <<b>> ELSE <<a, b>>, m)
                    ELSE IF h.own > 0 THEN <<b>> ELSE <<a, b>>
    BY <1>6
  <2> HIDE DEF a, b, m, f, h, text, new
  <2>6. Lined(f, h) \in Seq(Cell) /\ Len(Lined(f, h)) = cnt
    BY <1>2, <2>1, <2>3, <2>4
  <2>7. g \in Seq(Cell) /\ Len(g) = end
    BY <1>2, <2>1, <2>6 DEF m
  <2>8. f \o new.cells = g
    <3>1. CASE marked
      BY <2>2, <2>3, <2>5, <3>1 DEF m
    <3>2. CASE ~ marked
      BY <2>2, <2>3, <2>5, <3>2
    <3>3. QED
      BY <3>1, <3>2
  <2>9. QED
    BY <2>7, <2>8
<1>8. data' \in [Inode -> Seq(Cell)] /\ data'[1] = g /\ recent' = TRUE
  <2>1. h.pc # "off"
    BY <1>1
  <2> HIDE DEF h, g, f, new
  <2>2. QED
    BY <1>4, <1>7, <2>1, WrittenIs DEF h, f
<1>9. end \in Nat
  <2>1. Len(text) \in Nat
    OBVIOUS
  <2> HIDE DEF text
  <2>2. cnt \in Nat
    BY <1>2, <2>1
  <2>3. QED
    BY <2>2
<1> HIDE DEF g, end, marked, f
<1>10. /\ k \in Hist /\ k.pc = "exec" /\ k.ino = 1 /\ k.own = 0 /\ k.cmd = h.cmd
       /\ k.ind = h.ind + 1 /\ k.cnt = end /\ k.cmds = [h.cmds EXCEPT ![h.ind + 1] = end]
  <2> HIDE DEF new
  <2>1. h.ind + 1 \in Int /\ [h.cmds EXCEPT ![h.ind + 1] = end] \in [Index -> Nat]
    <3> HIDE DEF h, k, text, cnt
    <3>1. \A c \in [Index -> Nat], n \in Int, e \in Nat : [c EXCEPT ![n] = e] \in [Index -> Nat]
      OBVIOUS
    <3>2. h.ind + 1 \in Int
      BY <1>2
    <3>3. QED
      BY <1>2, <1>9, <3>1, <3>2
  <2>2. new.hist = [h EXCEPT !.ind = h.ind + 1, !.cnt = end, !.cmds = [h.cmds EXCEPT ![h.ind + 1] = end],
                             !.mark = IF marked THEN end ELSE h.mark]
    BY <1>6
  <2>3. (IF marked THEN end ELSE h.mark) \in Nat
    <3>1. CASE marked
      BY <1>9, <3>1
    <3>2. CASE ~ marked
      BY <1>2, <3>2
    <3>3. QED
      BY <3>1, <3>2
  <2>4. k = [h EXCEPT !.ind = h.ind + 1, !.cnt = end, !.cmds = [h.cmds EXCEPT ![h.ind + 1] = end],
                      !.mark = IF marked THEN end ELSE h.mark, !.pc = "exec", !.own = 0]
    BY <2>2
  <2> HIDE DEF h, k
  <2>5. QED
    BY <1>2, <1>9, <2>1, <2>3, <2>4 DEF Hist
<1> HIDE DEF k, h, new
<1>11. g = Lined(f, h) \/ g = Append(Lined(f, h), Mark(h.ind + 1))
  BY DEF g
<1>12. \E q \in Hist : /\ sh' = [sh EXCEPT ![s] = q]
                       /\ q.pc = "exec" /\ q.ino = 1 /\ q.own = 0 /\ q.cmd = h.cmd
                       /\ q.ind = h.ind + 1 /\ q.cnt = Len(data'[1])
                       /\ q.cmds = [h.cmds EXCEPT ![q.ind] = q.cnt]
  <2>1. k.cmds = [h.cmds EXCEPT ![k.ind] = k.cnt] /\ k.cnt = Len(data'[1])
    BY <1>7, <1>8, <1>10
  <2>2. QED
    BY <1>4, <1>10, <2>1
<1>13. QED
  BY <1>1, <1>3, <1>8, <1>11, <1>12 DEF h, f, Flushes

(* What hist_cancel does. *)
Cancels(s) ==
    LET h == sh[s]
        g == Append(data[1], Undo)
    IN  /\ h.pc = "edit" /\ h.own = 0
        /\ data' \in [Inode -> Seq(Cell)] /\ data'[1] = g /\ recent' = TRUE
        /\ log' = (IF log = <<>> THEN log ELSE Front(log)) /\ log' \in Seq(Cmd)
        /\ \E k \in Hist : /\ sh' = [sh EXCEPT ![s] = k]
                           /\ k.ino = 1 /\ k.own = 0 /\ k.cnt = h.cnt + 1 /\ k.ind = h.ind - 1
                           /\ k.cmds = [h.cmds EXCEPT ![k.ind] = k.cnt]
                           /\ \/ k.pc = "parse" /\ k.cmd = next /\ next \in Cmd /\ next' = next + 1
                              \/ k.pc = "exec" /\ k.cmd = 0 /\ next' = next

LEMMA EditEndIs ==
    ASSUME TInv, NEW s \in Shell, EditEnd(s)
    PROVE  Cancels(s)
<1> DEFINE h == sh[s]
           g == Append(data[1], Undo)
<1>1. h.pc = "edit" /\ Written(s, <<Undo>>)
  BY DEF EditEnd
<1>2. /\ h \in Hist /\ ShellOK(h, data[1]) /\ data[1] \in Seq(Cell) /\ h.ino = 1
      /\ h.ind \in Int /\ h.cmds \in [Index -> Nat] /\ h.cnt \in Nat
  BY <1>1, ShellFacts, HistFields
<1>3. h.own = 0
  BY <1>1, <1>2 DEF ShellOK
<1>4. g \in Seq(Cell) /\ data[1] \o <<Undo>> = g
  BY <1>2, CellsMade, Appended, Longer1
<1>5. data' \in [Inode -> Seq(Cell)] /\ data'[1] = g /\ recent' = TRUE
  <2>1. h.pc # "off"
    BY <1>1
  <2> HIDE DEF h, g
  <2>2. QED
    BY <1>1, <1>4, <2>1, WrittenIs DEF h
<1>6. log' = (IF log = <<>> THEN log ELSE Front(log)) /\ log' \in Seq(Cmd)
  <2>1. log' = (IF log = <<>> THEN log ELSE Front(log))
    BY DEF EditEnd
  <2>2. log \in Seq(Cmd)
    BY DEF TInv
  <2>3. QED
    BY <2>1, <2>2, FrontIs
<1>7. \/ /\ next <= MaxCmd
         /\ sh' = [sh EXCEPT ![s] = [Cancelled(h) EXCEPT !.pc = "parse", !.cmd = next]]
         /\ next' = next + 1
      \/ /\ sh' = [sh EXCEPT ![s] = [Cancelled(h) EXCEPT !.pc = "exec", !.cmd = 0]]
         /\ next' = next
  BY DEF EditEnd
<1> HIDE DEF h
<1>8. PICK c : c = [h.cmds EXCEPT ![h.ind - 1] = h.cnt + 1]
  OBVIOUS
<1>9. c \in [Index -> Nat] /\ h.ind - 1 \in Int /\ h.cnt + 1 \in Nat
  <2>1. h.ind - 1 \in Int /\ h.cnt + 1 \in Nat
    BY <1>2
  <2>2. \A b \in [Index -> Nat], n \in Int, e \in Nat : [b EXCEPT ![n] = e] \in [Index -> Nat]
    OBVIOUS
  <2>3. QED
    BY <1>2, <1>8, <2>1, <2>2
<1>10. Cancelled(h) = [h EXCEPT !.cnt = h.cnt + 1, !.ind = h.ind - 1, !.cmds = c]
  BY <1>8 DEF Cancelled
<1>11. \A p \in {"parse", "exec"}, n \in Cmd \cup {0} :
          LET k == [Cancelled(h) EXCEPT !.pc = p, !.cmd = n]
          IN  /\ k \in Hist /\ k.ino = 1 /\ k.own = 0 /\ k.cnt = h.cnt + 1 /\ k.ind = h.ind - 1
              /\ k.cmds = c /\ k.pc = p /\ k.cmd = n
  <2> DEFINE d == Cancelled(h)
  <2>1. /\ d \in Hist /\ d.ino = 1 /\ d.own = 0 /\ d.cnt = h.cnt + 1 /\ d.ind = h.ind - 1
        /\ d.cmds = c
    BY <1>2, <1>3, <1>9, <1>10 DEF Hist
  <2> HIDE DEF d
  <2> SUFFICES ASSUME NEW p \in {"parse", "exec"}, NEW n \in Cmd \cup {0}
               PROVE  LET k == [d EXCEPT !.pc = p, !.cmd = n]
                      IN  /\ k \in Hist /\ k.ino = 1 /\ k.own = 0 /\ k.cnt = h.cnt + 1 /\ k.ind = h.ind - 1
                          /\ k.cmds = c /\ k.pc = p /\ k.cmd = n
    BY Zenon DEF d
  <2> DEFINE k == [d EXCEPT !.pc = p, !.cmd = n]
  <2>2. k = [d EXCEPT !.pc = p, !.cmd = n]
    OBVIOUS
  <2> HIDE DEF k
  <2>3. k \in Hist /\ k.pc = p /\ k.cmd = n
    BY <2>1, <2>2 DEF Hist
  <2>4. k.ino = d.ino /\ k.own = d.own /\ k.cnt = d.cnt
    BY <2>1, <2>2 DEF Hist
  <2>5. k.ind = d.ind /\ k.cmds = d.cmds
    BY <2>1, <2>2 DEF Hist
  <2>6. /\ k \in Hist /\ k.ino = 1 /\ k.own = 0 /\ k.cnt = h.cnt + 1 /\ k.ind = h.ind - 1
        /\ k.cmds = c /\ k.pc = p /\ k.cmd = n
    BY <2>1, <2>3, <2>4, <2>5, Zenon
  <2>7. QED
    BY <2>6, Zenon DEF k
<1>12. next <= MaxCmd => next \in Cmd
  BY Numbers DEF TInv, Cmd
<1>13. \E k \in Hist : /\ sh' = [sh EXCEPT ![s] = k]
                       /\ k.ino = 1 /\ k.own = 0 /\ k.cnt = h.cnt + 1 /\ k.ind = h.ind - 1
                       /\ k.cmds = [h.cmds EXCEPT ![k.ind] = k.cnt]
                       /\ \/ k.pc = "parse" /\ k.cmd = next /\ next \in Cmd /\ next' = next + 1
                          \/ k.pc = "exec" /\ k.cmd = 0 /\ next' = next
  <2>1. CASE /\ next <= MaxCmd
             /\ sh' = [sh EXCEPT ![s] = [Cancelled(h) EXCEPT !.pc = "parse", !.cmd = next]]
             /\ next' = next + 1
    <3> DEFINE k == [Cancelled(h) EXCEPT !.pc = "parse", !.cmd = next]
    <3>1. /\ k \in Hist /\ k.ino = 1 /\ k.own = 0 /\ k.cnt = h.cnt + 1 /\ k.ind = h.ind - 1
          /\ k.cmds = c /\ k.pc = "parse" /\ k.cmd = next
      BY <1>11, <1>12, <2>1
    <3> HIDE DEF k
    <3>2. sh' = [sh EXCEPT ![s] = k]
      BY <2>1 DEF k
    <3>3. QED
      BY <1>8, <1>12, <2>1, <3>1, <3>2
  <2>2. CASE /\ sh' = [sh EXCEPT ![s] = [Cancelled(h) EXCEPT !.pc = "exec", !.cmd = 0]]
             /\ next' = next
    <3> DEFINE k == [Cancelled(h) EXCEPT !.pc = "exec", !.cmd = 0]
    <3>1. /\ k \in Hist /\ k.ino = 1 /\ k.own = 0 /\ k.cnt = h.cnt + 1 /\ k.ind = h.ind - 1
          /\ k.cmds = c /\ k.pc = "exec" /\ k.cmd = 0
      BY <1>11
    <3> HIDE DEF k
    <3>2. sh' = [sh EXCEPT ![s] = k]
      BY <2>2 DEF k
    <3>3. QED
      BY <1>8, <2>2, <3>1, <3>2
  <2>3. QED
    BY <1>7, <2>1, <2>2
<1>14. QED
  BY <1>1, <1>3, <1>5, <1>6, <1>13 DEF h, g, Cancels

(* The scan of the whole file after a repair: it begins in a command, as the file does. *)
LEMMA ScanAllIs ==
    ASSUME NEW f \in Seq(Cell), Len(f) >= 1, NEW h, HistIndex(h), h.ind = 1, NEW initial \in BOOLEAN
    PROVE  LET st == Scan(h, f, 0, TRUE, initial)
           IN  /\ st \in Scanning
               /\ Tidy(f) /\ Numbered(f) => st.ind = Rank(f, Len(f))
<1> DEFINE st == Scan(h, f, 0, TRUE, initial)
<1>0. PICK yes \in BOOLEAN : yes = TRUE
  OBVIOUS
<1>1. Len(f) \in Nat /\ 0 \in 0..Len(f) /\ 1 \in 0..Len(f) /\ Len(f) \in 0..Len(f) /\ 1 \in 0 + 1..Len(f)
      /\ 1 \in 1..Len(f)
  BY FileFacts
<1>2. PICK g : IsScan(g, h, f, 0, yes, initial) /\ Scan(h, f, 0, yes, initial) = g[Len(f)]
  BY <1>1, ScanSteps
<1> HIDE DEF st
<1>3. st = g[Len(f)]
  BY <1>0, <1>2, Zenon DEF st
<1>4. \A n \in 0..Len(f) : /\ g[n] \in Scanning
                           /\ n > 0 => (g[n].in <=> f[n].t = "head")
  BY <1>1, <1>2, ScanTyped
<1>5. st \in Scanning
  BY <1>1, <1>3, <1>4
<1>6. ASSUME Tidy(f), Numbered(f)
      PROVE  st.ind = Rank(f, Len(f))
  <2>1. f[1].t = "head" /\ f[1] \in Cell
    BY <1>1, <1>6, FileFacts DEF Tidy, TidyAt
  <2>2. g[0] = ScanStart(h, yes) /\ g[1] = Scanned(g[0], f[1], 1, initial) /\ g[0] \in Scanning
    <3>1. 1 - 1 = 0
      OBVIOUS
    <3>2. QED
      BY <1>1, <1>2, <1>4, <3>1 DEF IsScan
  <2>3. Scanned(g[0], f[1], 1, initial).ind = NextNumber(g[0], f[1], initial)
    <3>1. 1 \in Nat /\ g[0] \in Scanning /\ f[1] \in Cell /\ initial \in BOOLEAN
      BY <2>1, <2>2
    <3>2. QED
      BY <3>1, ScannedIs, Zenon
  <2>4. g[1].ind = 1
    BY <2>1, <2>2, <2>3 DEF NextNumber, ScanStart
  <2>5. ReadOf(f, 1) = ReadCell(Begin, f[1], 1)
    BY <1>1, ReadSteps
  <2>6. ReadCell(Begin, f[1], 1).list = <<>>
    BY <2>1 DEF ReadCell, Begin, EndsText
  <2>7. Rank(f, 1) = 1
    BY <2>5, <2>6 DEF Rank
  <2>8. g[1].in = ReadOf(f, 1).in
    <3>1. g[1].in \in BOOLEAN /\ ReadOf(f, 1).in \in BOOLEAN
      BY <1>1, <1>4, ReadTyped DEF Scanning, Reading
    <3>2. g[1].in <=> f[1].t = "head"
      BY <1>1, <1>4
    <3>3. ReadOf(f, 1).in <=> f[1].t = "head"
      BY <1>1, ReadTyped
    <3>4. QED
      BY <3>1, <3>2, <3>3
  <2>9. g[Len(f)].ind = Rank(f, Len(f)) /\ g[Len(f)].in = ReadOf(f, Len(f)).in
    BY <1>1, <1>2, <1>6, <2>4, <2>7, <2>8, ScanRank
  <2>10. QED
    BY <1>3, <2>9
<1>7. QED
  BY <1>5, <1>6 DEF st

(* What the repair of an incomplete command does. *)
Repairs(s) ==
    LET h == sh[s]
        g == Append(Append(data[1], Zero), Undo)
    IN  /\ h.pc = "repair" /\ h.own = 0 /\ g \in Seq(Cell)
        /\ data' \in [Inode -> Seq(Cell)] /\ data'[1] = g /\ recent' = TRUE
        /\ \E k \in Hist : /\ sh' = [sh EXCEPT ![s] = k]
                           /\ k.pc = h.ret /\ k.ino = 1 /\ k.own = 0 /\ k.cmd = h.cmd
                           /\ k.cnt = Len(g)
                           /\ Tidy(g) /\ Numbered(g) => k.ind = Rank(g, Len(g))

LEMMA RepairIs ==
    ASSUME TInv, NEW s \in Shell, Repair(s)
    PROVE  Repairs(s)
<1> DEFINE h == sh[s]
           g == Append(Append(data[1], Zero), Undo)
           h1 == [h EXCEPT !.ind = Restart]
           initial == h.ret \in {"open", "clean"}
           st == Scan(h1, g, 0, TRUE, initial)
           k == [Indexed(h, g, st) EXCEPT !.pc = h.ret, !.ret = "open"]
<1>1. h.pc = "repair" /\ Written(s, <<Zero, Undo>>)
  BY DEF Repair
<1>2. /\ h \in Hist /\ ShellOK(h, data[1]) /\ data[1] \in Seq(Cell) /\ h.ino = 1 /\ File(s) = data[1]
      /\ h.ret \in {"open", "clean", "prompt", "parse", "edit"}
  BY <1>1, ShellFacts, HistFields
<1>3. h.own = 0
  BY <1>1, <1>2 DEF ShellOK
<1>4. g \in Seq(Cell) /\ data[1] \o <<Zero, Undo>> = g /\ Len(g) >= 1 /\ Len(g) \in Nat
  <2>1. Append(data[1], Zero) \in Seq(Cell) /\ data[1] \o <<Zero, Undo>> = g
    BY <1>2, CellsMade, Appended, Longer1
  <2>2. g \in Seq(Cell) /\ Len(g) = Len(Append(data[1], Zero)) + 1
    BY <2>1, CellsMade, Longer1
  <2>3. QED
    BY <2>1, <2>2, FileFacts
<1>5. data' \in [Inode -> Seq(Cell)] /\ data'[1] = g /\ recent' = TRUE
  <2>1. h.pc # "off"
    BY <1>1
  <2> HIDE DEF h, g
  <2>2. QED
    BY <1>1, <1>4, <2>1, WrittenIs DEF h
<1>6. sh' = [sh EXCEPT ![s] = [Indexed(h, File(s) \o <<Zero, Undo>>,
                  Scan([h EXCEPT !.ind = Restart], File(s) \o <<Zero, Undo>>, 0, TRUE, h.ret \in {"open", "clean"}))
                  EXCEPT !.pc = h.ret, !.ret = "open"]]
  BY Zenon DEF Repair
<1>7. sh' = [sh EXCEPT ![s] = k]
  <2>1. File(s) \o <<Zero, Undo>> = g
    BY <1>2, <1>4
  <2> HIDE DEF g
  <2>2. QED
    BY <1>6, <2>1
<1>8. h1 \in Hist /\ h1.ind = 1
  <2>1. Restart = 1
    BY Numbers
  <2>2. \A q \in Hist : LET r == [q EXCEPT !.ind = 1] IN r \in Hist /\ r.ind = 1
    BY DEF Hist
  <2> HIDE DEF h
  <2>3. QED
    BY <1>2, <2>1, <2>2
<1>9. HistIndex(h1)
  <2> HIDE DEF h1
  <2>1. QED
    BY <1>8, HistFields
<1>10. st \in Scanning /\ (Tidy(g) /\ Numbered(g) => st.ind = Rank(g, Len(g)))
  <2>1. initial \in BOOLEAN
    <3>1. (h.ret \in {"open", "clean"}) \in BOOLEAN
      OBVIOUS
    <3>2. QED
      BY <3>1
  <2> HIDE DEF g, h1, initial
  <2>2. QED
    BY <1>4, <1>8, <1>9, <2>1, ScanAllIs, Zenon
<1> HIDE DEF st, g
<1>11. /\ k \in Hist /\ k.pc = h.ret /\ k.ino = 1 /\ k.own = 0 /\ k.cmd = h.cmd
       /\ k.cnt = Len(g) /\ k.ind = st.ind
  <2>1. st.ind \in Int /\ st.cmds \in [Index -> Nat] /\ st.mark \in Nat
    BY <1>10 DEF Scanning
  <2> HIDE DEF h
  <2>2. QED
    BY <1>2, <1>3, <1>4, <2>1 DEF Indexed, Hist
<1> HIDE DEF k
<1>12. QED
  BY <1>1, <1>3, <1>4, <1>5, <1>7, <1>10, <1>11 DEF g, Repairs

LEMMA ReadsTInv ==
    ASSUME TInv, NEW s \in Shell, NEW h, NEW ret \in {"open", "clean", "prompt", "parse", "edit"},
           ReadsAs(s, h, ret), ret \in {"parse", "edit"} => h.cmd # 0,
           UNCHANGED <<data, path, recent, log, raced, broken>>, next' \in 1..MaxCmd + 1
    PROVE  TInv'
<1>1. h \in Hist /\ h.ino = 1 /\ h.own = 0
  BY DEF ReadsAs
<1>2. PICK k : AfterEof(h, data[1], ret, k) /\ sh' = [sh EXCEPT ![s] = k]
  BY DEF ReadsAs
<1>3. /\ UNCHANGED data /\ path' = path /\ recent' = recent /\ log' = log /\ raced' = raced
      /\ broken' = broken
  OBVIOUS
<1>4. QED
  BY <1>1, <1>2, <1>3, ReadsEof

(* What remains of a shell that is gone. *)
LEMMA ShellGone ==
    ASSUME TInv, NEW s \in Shell, sh' = [sh EXCEPT ![s] = Closed], broken' \in BOOLEAN,
           UNCHANGED <<data, path, recent, next, log, raced>>
    PROVE  TInv'
<1>1. ShellOK(Closed, data[1])
  BY DEF ShellOK, Closed, Sends
<1>2. /\ path' \in {0, 1} /\ recent' = TRUE /\ next' \in 1..MaxCmd + 1 /\ log' \in Seq(Cmd)
      /\ raced' \in BOOLEAN /\ UNCHANGED data
  BY DEF TInv
<1>3. QED
  BY <1>1, <1>2, ClosedIs, ShellReads

LEMMA TInvOpen ==
    ASSUME TInv, NEW s \in Shell, Open(s)
    PROVE  TInv'
<1>1. UNCHANGED <<data, next, log, raced, broken>>
  BY DEF Open
<1>2. /\ next' \in 1..MaxCmd + 1 /\ log' \in Seq(Cmd) /\ raced' \in BOOLEAN /\ broken' \in BOOLEAN
  BY <1>1 DEF TInv
<1>3. CASE /\ path' = 1 /\ data[1] = <<>> /\ recent' = TRUE
           /\ sh' = [sh EXCEPT ![s] = [Closed EXCEPT !.pc = "exec", !.ino = 1]]
  <2> DEFINE k == [Closed EXCEPT !.pc = "exec", !.ino = 1]
  <2>1. /\ k \in Hist /\ k.pc = "exec" /\ k.ino = 1 /\ k.cnt = 0 /\ k.own = 0
    BY ClosedIs, Numbers DEF Hist, Closed
  <2>2. sh' = [sh EXCEPT ![s] = k] /\ path' \in {0, 1}
    BY <1>3
  <2> HIDE DEF k
  <2>3. ShellOK(k, data[1])
    BY <2>1, ShellFacts DEF ShellOK, Sends
  <2>4. QED
    BY <1>1, <1>2, <1>3, <2>1, <2>2, <2>3, ShellReads
<1>4. CASE path' = path /\ recent' = recent /\ \E h : ReadsAs(s, h, "open")
  <2>1. PICK h : ReadsAs(s, h, "open")
    BY <1>4
  <2>2. UNCHANGED <<data, path, recent, log, raced, broken>>
    BY <1>1, <1>4
  <2>3. QED
    BY <1>2, <2>1, <2>2, ReadsTInv
<1>5. QED
  BY <1>3, <1>4, OpenIs

LEMMA TInvRepair ==
    ASSUME TInv, NEW s \in Shell, Repair(s)
    PROVE  TInv'
<1> DEFINE f == data[1]
           h == sh[s]
           g == Append(Append(f, Zero), Undo)
<1>1. /\ h.pc = "repair" /\ h.own = 0 /\ g \in Seq(Cell)
      /\ data' \in [Inode -> Seq(Cell)] /\ data'[1] = g /\ recent' = TRUE
      /\ \E k \in Hist : /\ sh' = [sh EXCEPT ![s] = k]
                         /\ k.pc = h.ret /\ k.ino = 1 /\ k.own = 0 /\ k.cmd = h.cmd
                         /\ k.cnt = Len(g)
                         /\ Tidy(g) /\ Numbered(g) => k.ind = Rank(g, Len(g))
  BY RepairIs, Zenon DEF Repairs
<1>2. UNCHANGED <<path, next, log, raced>> /\ broken' \in BOOLEAN
  BY DEF Repair, TInv
<1>3. f \in Seq(Cell) /\ h \in Hist /\ ShellOK(h, f)
  BY ShellFacts
<1>4. Longer(f, g)
  <2>1. Append(f, Zero) \in Seq(Cell) /\ Longer(f, Append(f, Zero))
    BY <1>3, CellsMade, Longer1
  <2>2. Longer(Append(f, Zero), g)
    BY <2>1, CellsMade, Longer1
  <2>3. QED
    BY <1>1, <1>3, <2>1, <2>2, LongerTwice
<1> HIDE DEF g, f, h
<1>5. PICK k \in Hist : /\ sh' = [sh EXCEPT ![s] = k]
                        /\ k.pc = h.ret /\ k.ino = 1 /\ k.own = 0 /\ k.cmd = h.cmd
                        /\ k.cnt = Len(g)
  BY <1>1
<1>6. h.ret \in {"open", "clean", "prompt", "parse", "edit"} /\ Len(g) \in Nat
  BY <1>1, <1>3, HistFields, FileFacts
<1>7. ShellOK(k, g)
  BY <1>1, <1>3, <1>5, <1>6 DEF ShellOK, Sends
<1>8. QED
  <2>1. /\ path' \in {0, 1} /\ next' \in 1..MaxCmd + 1 /\ log' \in Seq(Cmd) /\ raced' \in BOOLEAN
    BY <1>2 DEF TInv
  <2>2. Longer(data[1], data'[1]) /\ ShellOK(k, data'[1])
    BY <1>1, <1>4, <1>7 DEF f
  <2>3. QED
    BY <1>1, <1>2, <1>5, <2>1, <2>2, ShellMoves

LEMMA TInvOverflow ==
    ASSUME TInv, NEW s \in Shell, Overflow(s)
    PROVE  TInv'
<1> DEFINE f == data[1]
           h == sh[s]
           g == Append(f, Head1(h.cmd))
           k == [h EXCEPT !.own = 1]
<1>1. /\ h.pc = "parse" /\ h.own = 0 /\ h.cmd \in Cmd /\ k \in Hist
      /\ data' \in [Inode -> Seq(Cell)] /\ data'[1] = g /\ recent' = TRUE
      /\ sh' = [sh EXCEPT ![s] = k]
  BY OverflowIs, Zenon DEF Overflows
<1>2. UNCHANGED <<path, next, log>> /\ raced' \in BOOLEAN /\ broken' \in BOOLEAN
  BY DEF Overflow, TInv
<1>3. f \in Seq(Cell) /\ h \in Hist /\ ShellOK(h, f) /\ h.cnt \in Nat /\ Len(f) \in Nat
  BY ShellFacts
<1>4. g \in Seq(Cell) /\ Len(g) = Len(f) + 1 /\ Longer(f, g)
  BY <1>1, <1>3, CellsMade, Longer1
<1>5. /\ k.pc = h.pc /\ k.ino = h.ino /\ k.cnt = h.cnt /\ k.own = 1 /\ k.cmd = h.cmd /\ k.ret = h.ret
  BY <1>3 DEF Hist
<1> HIDE DEF g, f, h, k
<1>6. ShellOK(k, g)
  BY <1>1, <1>3, <1>4, <1>5 DEF ShellOK, Sends, Cmd
<1>7. /\ path' \in {0, 1} /\ next' \in 1..MaxCmd + 1 /\ log' \in Seq(Cmd)
  BY <1>2 DEF TInv
<1>8. Longer(data[1], data'[1]) /\ ShellOK(k, data'[1])
  BY <1>1, <1>4, <1>6 DEF f
<1>9. QED
  BY <1>1, <1>2, <1>7, <1>8, ShellMoves

LEMMA LinedIs ==
    ASSUME NEW f \in Seq(Cell), NEW h \in Hist, h.cmd \in Cmd
    PROVE  /\ Lined(f, h) \in Seq(Cell) /\ Longer(f, Lined(f, h))
           /\ Len(Lined(f, h)) = IF h.own > 0 THEN Len(f) + 1 ELSE Len(f) + 2
<1>1. Head1(h.cmd) \in Cell /\ Tail1(h.cmd) \in Cell /\ Len(f) \in Nat
  BY CellsMade, FileFacts
<1>2. CASE h.own > 0
  BY <1>1, <1>2, Longer1 DEF Lined
<1>3. CASE ~ (h.own > 0)
  <2> DEFINE e == Append(f, Head1(h.cmd))
  <2>1. e \in Seq(Cell) /\ Longer(f, e) /\ Len(e) = Len(f) + 1
    BY <1>1, Longer1
  <2>2. Lined(f, h) = Append(e, Tail1(h.cmd))
    BY <1>3 DEF Lined
  <2> HIDE DEF e
  <2>3. /\ Lined(f, h) \in Seq(Cell) /\ Longer(e, Lined(f, h)) /\ Len(Lined(f, h)) = Len(e) + 1
    BY <1>1, <2>1, <2>2, Longer1
  <2>4. Longer(f, Lined(f, h))
    BY <2>1, <2>3, LongerTwice
  <2>5. QED
    BY <1>1, <1>3, <2>1, <2>3, <2>4
<1>4. QED
  BY <1>2, <1>3

LEMMA TInvFlush ==
    ASSUME TInv, NEW s \in Shell, Flush(s)
    PROVE  TInv'
<1> DEFINE f == data[1]
           h == sh[s]
           g == data'[1]
<1>1. /\ h.pc = "parse" /\ h.cmd \in Cmd
      /\ data' \in [Inode -> Seq(Cell)] /\ recent' = TRUE
      /\ g = Lined(f, h) \/ g = Append(Lined(f, h), Mark(h.ind + 1))
      /\ \E k \in Hist : /\ sh' = [sh EXCEPT ![s] = k]
                         /\ k.pc = "exec" /\ k.ino = 1 /\ k.own = 0 /\ k.cmd = h.cmd
                         /\ k.ind = h.ind + 1 /\ k.cnt = Len(g)
                         /\ k.cmds = [h.cmds EXCEPT ![k.ind] = k.cnt]
  BY FlushIs, Zenon DEF Flushes
<1>2. UNCHANGED <<path, next>> /\ raced' \in BOOLEAN /\ broken' \in BOOLEAN /\ log' = Append(log, h.cmd)
  BY DEF Flush, TInv
<1>3. f \in Seq(Cell) /\ h \in Hist /\ h.ind \in Int
  BY ShellFacts, HistFields
<1>4. Lined(f, h) \in Seq(Cell) /\ Longer(f, Lined(f, h))
  BY <1>1, <1>3, LinedIs
<1>5. g \in Seq(Cell) /\ Longer(f, g)
  <2> DEFINE l == Lined(f, h)
             m == Append(l, Mark(h.ind + 1))
  <2>1. m \in Seq(Cell) /\ Longer(l, m)
    <3>1. Mark(h.ind + 1) \in Cell
      BY <1>3, CellsMade
    <3> HIDE DEF l
    <3>2. QED
      BY <1>4, <3>1, Longer1 DEF l
  <2>2. Longer(f, m)
    BY <1>3, <1>4, <2>1, LongerTwice
  <2>3. QED
    BY <1>1, <1>4, <2>1, <2>2
<1>6. Len(g) \in Nat
  BY <1>5, FileFacts
<1> HIDE DEF g
<1>7. PICK k \in Hist : /\ sh' = [sh EXCEPT ![s] = k]
                        /\ k.pc = "exec" /\ k.ino = 1 /\ k.own = 0 /\ k.cnt = Len(g)
  BY <1>1
<1>8. ShellOK(k, g)
  BY <1>6, <1>7 DEF ShellOK, Sends
<1>9. /\ path' \in {0, 1} /\ next' \in 1..MaxCmd + 1 /\ log' \in Seq(Cmd)
  BY <1>1, <1>2 DEF TInv
<1>10. QED
  BY <1>1, <1>2, <1>5, <1>7, <1>8, <1>9, ShellMoves DEF g

LEMMA TInvEditEnd ==
    ASSUME TInv, NEW s \in Shell, EditEnd(s)
    PROVE  TInv'
<1> DEFINE f == data[1]
           h == sh[s]
           g == Append(f, Undo)
<1>1. /\ h.pc = "edit" /\ h.own = 0
      /\ data' \in [Inode -> Seq(Cell)] /\ data'[1] = g /\ recent' = TRUE
      /\ log' \in Seq(Cmd)
      /\ \E k \in Hist : /\ sh' = [sh EXCEPT ![s] = k]
                         /\ k.ino = 1 /\ k.own = 0 /\ k.cnt = h.cnt + 1 /\ k.ind = h.ind - 1
                         /\ k.cmds = [h.cmds EXCEPT ![k.ind] = k.cnt]
                         /\ \/ k.pc = "parse" /\ k.cmd = next /\ next \in Cmd /\ next' = next + 1
                            \/ k.pc = "exec" /\ k.cmd = 0 /\ next' = next
  BY EditEndIs, Zenon DEF Cancels
<1>2. UNCHANGED path /\ raced' \in BOOLEAN /\ broken' \in BOOLEAN
  BY DEF EditEnd, TInv
<1>3. f \in Seq(Cell) /\ h \in Hist /\ h.cnt \in Nat /\ Len(f) \in Nat /\ h.cnt <= Len(f)
  BY <1>1, ShellFacts
<1>4. g \in Seq(Cell) /\ Longer(f, g) /\ Len(g) = Len(f) + 1
  BY <1>3, CellsMade, Longer1
<1> HIDE DEF g, h, f
<1>5. PICK k \in Hist : /\ sh' = [sh EXCEPT ![s] = k]
                        /\ k.ino = 1 /\ k.own = 0 /\ k.cnt = h.cnt + 1
                        /\ \/ k.pc = "parse" /\ k.cmd = next /\ next \in Cmd /\ next' = next + 1
                           \/ k.pc = "exec" /\ k.cmd = 0 /\ next' = next
  BY <1>1
<1>6. ShellOK(k, g)
  BY <1>3, <1>4, <1>5 DEF ShellOK, Sends, Cmd
<1>7. path' \in {0, 1} /\ next' \in 1..MaxCmd + 1
  BY <1>2, <1>5, Numbers DEF TInv, Cmd
<1>8. Longer(data[1], data'[1]) /\ ShellOK(k, data'[1])
  BY <1>1, <1>4, <1>6 DEF f
<1>9. QED
  BY <1>1, <1>2, <1>5, <1>7, <1>8, ShellMoves

(* What these proofs are about: no file is trimmed. *)
NoTrim == "trim" \notin Ops

LEMMA NoneTrims ==
    ASSUME NoTrim, TInv
    PROVE  /\ ~ Age
           /\ \A s \in Shell : ~ TrimUnlink(s) /\ ~ TrimCopy(s)
<1>1. recent = TRUE /\ \A s \in Shell : sh[s].pc # "copy"
  BY DEF TInv, ShellOK
<1>2. QED
  BY <1>1 DEF NoTrim, Age, TrimUnlink, TrimCopy, Trims

LEMMA TInvNext ==
    ASSUME NoTrim, TInv, [Next]_vars
    PROVE  TInv'
<1>1. CASE UNCHANGED vars
  BY <1>1 DEF vars, TInv, ShellOK
<1>2. CASE Next
  <2>1. PICK s \in Shell :
          \/ Open(s) \/ OpenEnd(s) \/ Opened(s)
          \/ Prompt(s) \/ ReadLine(s) \/ Repair(s) \/ Overflow(s) \/ Flush(s) \/ FlushEmpty(s)
          \/ Edit(s) \/ EditEnd(s) \/ Exit(s) \/ Crash(s)
    BY <1>2, NoneTrims DEF Next
  <2> DEFINE h == sh[s]
  <2>2. /\ h \in Hist /\ ShellOK(h, data[1]) /\ data[1] \in Seq(Cell) /\ Len(data[1]) \in Nat
        /\ h.cnt \in Nat /\ h.own \in Nat
    BY ShellFacts, HistFields
  <2>3. /\ path \in {0, 1} /\ recent = TRUE /\ next \in 1..MaxCmd + 1 /\ log \in Seq(Cmd)
        /\ raced \in BOOLEAN /\ broken \in BOOLEAN
    BY DEF TInv
  <2>4. CASE Open(s)
    BY <2>4, TInvOpen
  <2>5. CASE OpenEnd(s)
    <3>1. UNCHANGED <<data, path, recent, log, raced, broken>> /\ next' \in 1..MaxCmd + 1
      BY <2>3, <2>5 DEF OpenEnd
    <3>2. QED
      BY <2>5, <3>1, OpenEndIs, ReadsTInv
  <2>6. CASE Opened(s)
    <3> DEFINE k == [h EXCEPT !.pc = "exec", !.hsize = 0]
    <3>1. /\ sh' = [sh EXCEPT ![s] = k] /\ h.pc = "clean"
          /\ UNCHANGED <<data, path, recent, next, log, raced, broken>>
      BY <2>6 DEF Opened, TInv
    <3>2. k \in Hist /\ k.pc = "exec" /\ k.ino = h.ino /\ k.cnt = h.cnt /\ k.own = h.own /\ k.cmd = h.cmd
      BY <2>2 DEF Hist
    <3> HIDE DEF k, h
    <3>3. ShellOK(k, data[1])
      BY <2>2, <3>1, <3>2 DEF ShellOK, Sends
    <3>4. QED
      BY <2>3, <3>1, <3>2, <3>3, ShellReads
  <2>7. CASE Prompt(s)
    <3>1. UNCHANGED <<data, path, recent, log, raced, broken>> /\ next' \in 1..MaxCmd + 1
      BY <2>3, <2>7 DEF Prompt
    <3>2. QED
      BY <2>7, <3>1, PromptIs, ReadsTInv
  <2>8. CASE ReadLine(s)
    <3> DEFINE k == [h EXCEPT !.cmd = next, !.own = 0]
    <3>1. UNCHANGED <<data, path, recent, log, raced, broken>>
      BY <2>8 DEF ReadLine
    <3>2. next \in Cmd /\ next' = next + 1 /\ ReadsAs(s, k, "parse")
      BY <2>8, ReadLineIs
    <3>3. next' \in 1..MaxCmd + 1 /\ k.cmd # 0
      <4>1. next \in Nat /\ next # 0 /\ next' \in 1..MaxCmd + 1
        BY <3>2, Numbers DEF Cmd
      <4>2. k.cmd = next
        BY <2>2 DEF Hist
      <4>3. QED
        BY <4>1, <4>2
    <3> HIDE DEF k
    <3>4. QED
      BY <3>1, <3>2, <3>3, ReadsTInv
  <2>9. CASE Repair(s)
    BY <2>9, TInvRepair
  <2>10. CASE Overflow(s)
    BY <2>10, TInvOverflow
  <2>11. CASE Flush(s)
    BY <2>11, TInvFlush
  <2>12. CASE FlushEmpty(s)
    <3> DEFINE k == [h EXCEPT !.pc = "exec", !.cmd = 0, !.cnt = Len(data[1])]
    <3>1. /\ h.pc = "parse" /\ h.own = 0 /\ raced' \in BOOLEAN
          /\ sh' = [sh EXCEPT ![s].pc = "exec", ![s].cmd = 0, ![s].cnt = Len(File(s))]
          /\ UNCHANGED <<data, path, recent, next, log, broken>>
      BY <2>3, <2>12 DEF FlushEmpty
    <3>2. File(s) = data[1]
      BY <3>1, ShellFacts
    <3>3. sh' = [sh EXCEPT ![s] = k]
      BY <3>1, <3>2 DEF TInv
    <3>4. k \in Hist /\ k.pc = "exec" /\ k.ino = h.ino /\ k.cnt = Len(data[1]) /\ k.own = h.own
      BY <2>2 DEF Hist
    <3> HIDE DEF k, h
    <3>5. ShellOK(k, data[1])
      BY <2>2, <3>1, <3>4 DEF ShellOK, Sends
    <3>6. QED
      BY <2>3, <3>1, <3>3, <3>4, <3>5, ShellReads
  <2>13. CASE Edit(s)
    <3>1. UNCHANGED <<data, path, recent, log, raced, broken>> /\ next' \in 1..MaxCmd + 1
      BY <2>3, <2>13 DEF Edit
    <3>2. QED
      BY <2>13, <3>1, EditIs, ReadsTInv
  <2>14. CASE EditEnd(s)
    BY <2>14, TInvEditEnd
  <2>15. CASE Exit(s)
    <3>1. /\ sh' = [sh EXCEPT ![s] = Closed] /\ broken' \in BOOLEAN
          /\ UNCHANGED <<data, path, recent, next, log, raced>>
      BY <2>3, <2>15 DEF Exit
    <3>2. QED
      BY <3>1, ShellGone
  <2>16. CASE Crash(s)
    <3>1. /\ sh' = [sh EXCEPT ![s] = Closed] /\ broken' \in BOOLEAN
          /\ UNCHANGED <<data, path, recent, next, log, raced>>
      BY <2>3, <2>16 DEF Crash
    <3>2. QED
      BY <3>1, ShellGone
  <2>17. QED
    BY <2>1, <2>4, <2>5, <2>6, <2>7, <2>8, <2>9, <2>10, <2>11, <2>12, <2>13, <2>14, <2>15, <2>16
<1>3. QED
  BY <1>1, <1>2

LEMMA TInvAlways == ASSUME NoTrim PROVE Spec => []TInv
<1>1. TInv /\ [Next]_vars => TInv'
  BY TInvNext
<1>2. QED
  BY <1>1, InitTInv, PTL DEF Spec

(* No shell believes to have read more of its file than there is: hist_eof would take
   the file for a new one, and its repair would overwrite the start of the file. *)
THEOREM ReadInside == ASSUME NoTrim PROVE Spec => []ReadInsideFile
<1>1. TInv => ReadInsideFile
  <2> SUFFICES ASSUME TInv, NEW s \in Shell, Indexing(s)
               PROVE  sh[s].cnt <= Len(File(s))
    BY DEF ReadInsideFile
  <2>1. sh[s].pc # "off"
    BY DEF Indexing
  <2>2. QED
    BY <2>1, ShellFacts
<1>2. QED
  BY <1>1, TInvAlways, PTL

--------------------------------------------------------------------------------
(* What the cells that are written do to the commands in the file. *)

LEMMA ReadOne ==
    ASSUME NEW f \in Seq(Cell), NEW c \in Cell
    PROVE  LET b == ReadOf(f, Len(f))
               r == ReadOf(Append(f, c), Len(f) + 1)
           IN  /\ b \in Reading /\ r \in Reading
               /\ r.in <=> c.t = "head"
               /\ c.t = "head" => r.list = b.list
               /\ c.t = "head" /\ ~ b.in => r.start = Len(f)
               /\ c.t # "head" /\ b.in => r.list = Append(b.list, b.start)
               /\ c.t = "undo" /\ ~ b.in /\ b.list # <<>> => r.list = Front(b.list)
               /\ c.t \in {"zero", "mark"} /\ ~ b.in => r.list = b.list
<1> DEFINE b == ReadOf(f, Len(f))
           g == Append(f, c)
           n == Len(f) + 1
           r == ReadOf(g, n)
<1>1. Len(f) \in Nat /\ n \in Nat \ {0} /\ Len(f) \in 0..Len(f) /\ n - 1 = Len(f)
  BY FileFacts
<1>2. g \in Seq(Cell) /\ Len(g) = n /\ g[n] = c /\ n \in 0..Len(g) /\ n >= 1
  BY <1>1, Longer1
<1>3. r = ReadCell(b, c, n)
  BY ReadAppend
<1>4. b \in Reading
  BY <1>1, ReadTyped
<1> HIDE DEF g, n
<1>5. r \in Reading /\ (r.in <=> c.t = "head")
  BY <1>2, ReadTyped
<1> HIDE DEF b, r
<1>6. /\ c.t = "head" => r.list = b.list
      /\ c.t # "head" /\ b.in => r.list = Append(b.list, b.start)
      /\ c.t = "undo" /\ ~ b.in /\ b.list # <<>> => r.list = Front(b.list)
      /\ c.t \in {"zero", "mark"} /\ ~ b.in => r.list = b.list
  BY <1>1, <1>3, <1>4, ReadCellList
<1>7. c.t = "head" /\ ~ b.in => r.start = Len(f)
  <2>1. ASSUME c.t = "head", ~ b.in
        PROVE  r.start = Len(f)
    <3>1. r = [b EXCEPT !.in = TRUE, !.start = n - 1]
      BY <1>3, <2>1 DEF ReadCell, EndsText
    <3>2. QED
      BY <1>1, <1>4, <3>1 DEF Reading
  <2>2. QED
    BY <2>1
<1>8. QED
  BY <1>4, <1>5, <1>6, <1>7 DEF b, r, g, n

LEMMA TidyAppend ==
    ASSUME NEW f \in Seq(Cell), Tidy(f), NEW c \in Cell,
           c.t = "zero" => Len(f) >= 1 /\ f[Len(f)].t = "head",
           c.t = "mark" => Len(f) >= 1 /\ f[Len(f)].t = "tail",
           c.t = "undo" => ReadOf(f, Len(f)).list # <<>>,
           Len(f) = 0 => c.t = "head"
    PROVE  Tidy(Append(f, c))
<1> DEFINE g == Append(f, c)
<1>1. Len(f) \in Nat /\ g \in Seq(Cell) /\ Len(g) = Len(f) + 1 /\ g[Len(f) + 1] = c /\ Longer(f, g)
  BY FileFacts, Longer1
<1> HIDE DEF g
<1>2. \A i \in 1..Len(f) : g[i] = f[i]
  BY <1>1 DEF Longer
<1>3. ASSUME NEW i \in 1..Len(g)
      PROVE  TidyAt(g, i)
  <2>1. CASE i = Len(f) + 1
    <3>1. i - 1 = Len(f) /\ g[i] = c /\ ReadOf(g, i - 1) = ReadOf(f, Len(f))
      BY <1>1, <2>1, ReadLonger
    <3>2. Len(f) >= 1 => g[i - 1] = f[Len(f)] /\ i > 1
      BY <1>1, <1>2, <2>1, <3>1
    <3>3. i = 1 => Len(f) = 0
      BY <1>1, <2>1
    <3>4. QED
      BY <3>1, <3>2, <3>3 DEF TidyAt
  <2>2. CASE i # Len(f) + 1
    <3>1. i \in 1..Len(f) /\ i - 1 \in 0..Len(f) /\ (i > 1 => i - 1 \in 1..Len(f))
      BY <1>1, <2>2
    <3>2. g[i] = f[i] /\ ReadOf(g, i - 1) = ReadOf(f, i - 1) /\ (i > 1 => g[i - 1] = f[i - 1])
      BY <1>1, <1>2, <3>1, ReadLonger
    <3>3. TidyAt(f, i)
      BY <3>1 DEF Tidy
    <3>4. QED
      BY <3>2, <3>3 DEF TidyAt
  <2>3. QED
    BY <2>1, <2>2
<1>4. QED
  BY <1>3 DEF Tidy, g

LEMMA NumberedAppend ==
    ASSUME NEW f \in Seq(Cell), Numbered(f), NEW c \in Cell,
           c.t = "mark" => c.v = Rank(Append(f, c), Len(f) + 1) /\ c.v < Radix
    PROVE  Numbered(Append(f, c))
<1> DEFINE g == Append(f, c)
<1>1. Len(f) \in Nat /\ g \in Seq(Cell) /\ Len(g) = Len(f) + 1 /\ g[Len(f) + 1] = c /\ Longer(f, g)
  BY FileFacts, Longer1
<1>2. c.t = "mark" => c.v = Rank(g, Len(f) + 1) /\ c.v < Radix
  OBVIOUS
<1> HIDE DEF g
<1>3. ASSUME NEW i \in 1..Len(g), g[i].t = "mark"
      PROVE  g[i].v = Rank(g, i) /\ g[i].v < Radix
  <2>1. CASE i = Len(f) + 1
    BY <1>1, <1>2, <1>3, <2>1
  <2>2. CASE i # Len(f) + 1
    <3>1. i \in 1..Len(f) /\ i \in 0..Len(f)
      BY <1>1, <2>2
    <3>2. g[i] = f[i] /\ ReadOf(g, i) = ReadOf(f, i)
      BY <1>1, <3>1, ReadLonger DEF Longer
    <3>3. QED
      BY <1>3, <3>1, <3>2 DEF Numbered, Rank
  <2>3. QED
    BY <2>1, <2>2
<1>4. QED
  BY <1>3 DEF Numbered, g

(* The commands in the file are the lines of l, each in a piece. *)
Kept(f, l) ==
    LET list == ReadOf(f, Len(f)).list
    IN  /\ Len(list) = Len(l)
        /\ \A k \in 1..Len(l) : /\ list[k] + 2 <= Len(f)
                                /\ f[list[k] + 1] = Head1(l[k])
                                /\ f[list[k] + 2] = Tail1(l[k])

LEMMA LastRead ==
    ASSUME NEW f \in Seq(Cell)
    PROVE  /\ ReadOf(f, Len(f)) \in Reading /\ ReadOf(f, Len(f)).list \in Seq(Nat)
           /\ Len(ReadOf(f, Len(f)).list) \in Nat /\ Len(f) \in Nat
           /\ ReadOf(f, Len(f)).in <=> Len(f) >= 1 /\ f[Len(f)].t = "head"
           /\ Len(f) = 0 => ReadOf(f, Len(f)).list = <<>>
<1>1. Len(f) \in Nat /\ Len(f) \in 0..Len(f)
  BY FileFacts
<1>2. ReadOf(f, Len(f)) \in Reading /\ (ReadOf(f, Len(f)).in <=> Len(f) >= 1 /\ f[Len(f)].t = "head")
  BY <1>1, ReadTyped
<1>3. ReadOf(f, Len(f)).list \in Seq(Nat)
  BY <1>2 DEF Reading
<1>4. Len(f) = 0 => ReadOf(f, Len(f)).list = <<>>
  <2>1. Begin.list = <<>> /\ ReadOf(f, 0) = Begin
    BY ReadSteps DEF Begin
  <2>2. QED
    BY <2>1
<1>5. QED
  BY <1>1, <1>2, <1>3, <1>4

LEMMA TwoCells ==
    ASSUME NEW f \in Seq(Cell), NEW g \in Seq(Cell), Longer(f, g), NEW p \in Nat, p + 2 <= Len(f)
    PROVE  p + 2 <= Len(g) /\ g[p + 1] = f[p + 1] /\ g[p + 2] = f[p + 2]
<1>1. Len(f) \in Nat /\ Len(g) \in Nat
  BY FileFacts
<1>2. p + 1 \in 1..Len(f) /\ p + 2 \in 1..Len(f)
  BY <1>1
<1>3. QED
  BY <1>1, <1>2 DEF Longer

LEMMA KeptSame ==
    ASSUME NEW f \in Seq(Cell), NEW g \in Seq(Cell), Longer(f, g), NEW l \in Seq(Cmd), Kept(f, l),
           ReadOf(g, Len(g)).list = ReadOf(f, Len(f)).list
    PROVE  Kept(g, l)
<1> DEFINE list == ReadOf(f, Len(f)).list
<1>1. list \in Seq(Nat) /\ Len(f) \in Nat /\ Len(g) \in Nat /\ Len(l) \in Nat
  BY LastRead, FileFacts
<1>2. Len(list) = Len(l)
  BY DEF Kept
<1>3. ASSUME NEW k \in 1..Len(l)
      PROVE  /\ list[k] + 2 <= Len(g)
             /\ g[list[k] + 1] = Head1(l[k])
             /\ g[list[k] + 2] = Tail1(l[k])
  <2>1. list[k] + 2 <= Len(f) /\ f[list[k] + 1] = Head1(l[k]) /\ f[list[k] + 2] = Tail1(l[k])
    BY DEF Kept
  <2> HIDE DEF list
  <2>2. list[k] \in Nat
    BY <1>1, <1>2
  <2>3. QED
    BY <2>1, <2>2, TwoCells
<1>4. ReadOf(g, Len(g)).list = list
  OBVIOUS
<1> HIDE DEF list
<1>5. QED
  BY <1>2, <1>3, <1>4 DEF Kept

LEMMA KeptMore ==
    ASSUME NEW f \in Seq(Cell), NEW g \in Seq(Cell), Longer(f, g), NEW l \in Seq(Cmd), Kept(f, l),
           NEW p \in Nat, NEW c \in Cmd, p + 2 <= Len(g), g[p + 1] = Head1(c), g[p + 2] = Tail1(c),
           ReadOf(g, Len(g)).list = Append(ReadOf(f, Len(f)).list, p)
    PROVE  Kept(g, Append(l, c))
<1> DEFINE list == ReadOf(f, Len(f)).list
           new == Append(list, p)
           m == Append(l, c)
<1>1. list \in Seq(Nat) /\ Len(f) \in Nat /\ Len(g) \in Nat /\ Len(l) \in Nat
  BY LastRead, FileFacts
<1>2. Len(list) = Len(l)
  BY DEF Kept
<1>3. ReadOf(g, Len(g)).list = new
  OBVIOUS
<1>4. \A k \in 1..Len(l) : list[k] + 2 <= Len(f) /\ f[list[k] + 1] = Head1(l[k]) /\ f[list[k] + 2] = Tail1(l[k])
  BY DEF Kept
<1> HIDE DEF list
<1>5. /\ Len(new) = Len(l) + 1 /\ Len(m) = Len(l) + 1 /\ new[Len(l) + 1] = p /\ m[Len(l) + 1] = c
      /\ \A k \in 1..Len(l) : new[k] = list[k] /\ m[k] = l[k] /\ list[k] \in Nat
  BY <1>1, <1>2
<1> HIDE DEF new, m
<1>6. ASSUME NEW k \in 1..Len(m)
      PROVE  new[k] + 2 <= Len(g) /\ g[new[k] + 1] = Head1(m[k]) /\ g[new[k] + 2] = Tail1(m[k])
  <2>1. CASE k = Len(l) + 1
    BY <1>5, <2>1
  <2>2. CASE k # Len(l) + 1
    <3>1. k \in 1..Len(l)
      BY <1>1, <1>5, <2>2
    <3>2. /\ new[k] = list[k] /\ m[k] = l[k] /\ list[k] \in Nat
          /\ list[k] + 2 <= Len(f) /\ f[list[k] + 1] = Head1(l[k]) /\ f[list[k] + 2] = Tail1(l[k])
      BY <1>4, <1>5, <3>1
    <3>3. /\ list[k] + 2 <= Len(g)
          /\ g[list[k] + 1] = f[list[k] + 1] /\ g[list[k] + 2] = f[list[k] + 2]
      BY <3>2, TwoCells
    <3>4. QED
      BY <3>2, <3>3, Zenon
  <2>3. QED
    BY <2>1, <2>2
<1>7. QED
  BY <1>3, <1>5, <1>6 DEF Kept, m

LEMMA KeptLess ==
    ASSUME NEW f \in Seq(Cell), NEW g \in Seq(Cell), Longer(f, g), NEW l \in Seq(Cmd), Kept(f, l),
           l # <<>>, ReadOf(g, Len(g)).list = Front(ReadOf(f, Len(f)).list)
    PROVE  Kept(g, Front(l))
<1> DEFINE list == ReadOf(f, Len(f)).list
           new == Front(list)
           m == Front(l)
<1>1. list \in Seq(Nat) /\ Len(f) \in Nat /\ Len(g) \in Nat /\ Len(l) \in Nat
  BY LastRead, FileFacts
<1>2. Len(list) = Len(l) /\ Len(l) # 0
  BY DEF Kept
<1>3. ReadOf(g, Len(g)).list = new
  OBVIOUS
<1>4. \A k \in 1..Len(l) : list[k] + 2 <= Len(f) /\ f[list[k] + 1] = Head1(l[k]) /\ f[list[k] + 2] = Tail1(l[k])
  BY DEF Kept
<1> HIDE DEF list
<1>5. list # <<>>
  BY <1>1, <1>2
<1>6. /\ Len(new) = Len(l) - 1 /\ Len(m) = Len(l) - 1
      /\ \A k \in 1..Len(l) - 1 : new[k] = list[k] /\ m[k] = l[k]
  BY <1>1, <1>2, <1>5, FrontIs
<1> HIDE DEF new, m
<1>7. ASSUME NEW k \in 1..Len(m)
      PROVE  new[k] + 2 <= Len(g) /\ g[new[k] + 1] = Head1(m[k]) /\ g[new[k] + 2] = Tail1(m[k])
  <2>1. k \in 1..Len(l) - 1 /\ k \in 1..Len(l)
    BY <1>1, <1>6
  <2>2. list[k] \in Nat
    BY <1>1, <1>2, <2>1
  <2>3. new[k] = list[k] /\ m[k] = l[k]
    BY <1>6, <2>1
  <2>4. list[k] + 2 <= Len(f) /\ f[list[k] + 1] = Head1(l[k]) /\ f[list[k] + 2] = Tail1(l[k])
    BY <1>4, <2>1
  <2>5. QED
    BY <2>2, <2>3, <2>4, TwoCells
<1>8. QED
  BY <1>3, <1>6, <1>7 DEF Kept, m

(* A line that is flushed is one more command, whether its start was written before or
   not. *)
LEMMA LinedRead ==
    ASSUME NEW f \in Seq(Cell), Tidy(f), NEW h \in Hist, h.cmd \in Cmd, NEW l \in Seq(Cmd), Kept(f, l),
           h.own > 0 => /\ Len(f) >= 1 /\ f[Len(f)] = Head1(h.cmd)
                        /\ ReadOf(f, Len(f)).start = Len(f) - 1,
           ~ (h.own > 0) => ~ ReadOf(f, Len(f)).in
    PROVE  LET g == Lined(f, h)
           IN  /\ Tidy(g) /\ Kept(g, Append(l, h.cmd))
               /\ Len(g) >= 1 /\ g[Len(g)].t = "tail"
               /\ Len(ReadOf(g, Len(g)).list) = Len(ReadOf(f, Len(f)).list) + 1
               /\ Numbered(f) => Numbered(g)
<1> DEFINE c == h.cmd
           hd == Head1(c)
           tl == Tail1(c)
           g == Lined(f, h)
<1>1. hd \in Cell /\ tl \in Cell /\ hd.t = "head" /\ tl.t = "tail" /\ c \in Cmd /\ Len(f) \in Nat
  BY CellsMade, FileFacts DEF Head1, Tail1
<1>2. g \in Seq(Cell) /\ Longer(f, g)
  BY LinedIs
<1>3. ReadOf(f, Len(f)).list \in Seq(Nat)
  BY LastRead
<1> HIDE DEF c
<1>4. CASE h.own > 0
  <2>1. /\ Len(f) >= 1 /\ f[Len(f)] = hd /\ ReadOf(f, Len(f)).start = Len(f) - 1
        /\ g = Append(f, tl)
    BY <1>4 DEF Lined, c
  <2> DEFINE p == Len(f) - 1
  <2>2. p \in Nat /\ p + 1 = Len(f) /\ p + 2 = Len(f) + 1 /\ Len(f) \in 1..Len(f) /\ Len(f) # 0
    BY <1>1, <2>1
  <2> HIDE DEF hd, tl, g
  <2>3. Len(g) = Len(f) + 1 /\ g[Len(f) + 1] = tl /\ g[Len(f)] = hd
    BY <1>1, <2>1, <2>2, Longer1 DEF Longer
  <2>4. ReadOf(f, Len(f)).in
    BY <1>1, <2>1, LastRead
  <2>5. ReadOf(g, Len(f) + 1).list = Append(ReadOf(f, Len(f)).list, p)
    <3>1. LET b == ReadOf(f, Len(f))
              r == ReadOf(Append(f, tl), Len(f) + 1)
          IN  tl.t # "head" /\ b.in => r.list = Append(b.list, b.start)
      BY <1>1, ReadOne, Zenon
    <3>2. tl.t # "head"
      BY <1>1
    <3>3. QED
      BY <2>1, <2>4, <3>1, <3>2
  <2>6. Tidy(g)
    BY <1>1, <2>1, <2>2, TidyAppend
  <2>7. Numbered(f) => Numbered(g)
    BY <1>1, <2>1, NumberedAppend
  <2>8. p + 2 <= Len(g) /\ g[p + 1] = Head1(c) /\ g[p + 2] = Tail1(c)
    BY <1>1, <2>2, <2>3 DEF hd, tl
  <2> HIDE DEF p
  <2>9. ReadOf(g, Len(g)).list = Append(ReadOf(f, Len(f)).list, p)
    BY <2>3, <2>5
  <2>10. Kept(g, Append(l, c))
    BY <1>1, <1>2, <2>2, <2>8, <2>9, KeptMore
  <2>11. Len(ReadOf(g, Len(g)).list) = Len(ReadOf(f, Len(f)).list) + 1
    BY <1>3, <2>2, <2>9
  <2>12. Len(g) >= 1 /\ g[Len(g)].t = "tail"
    BY <1>1, <2>3
  <2>13. QED
    BY <2>6, <2>7, <2>10, <2>11, <2>12 DEF g, c
<1>5. CASE ~ (h.own > 0)
  <2> DEFINE e == Append(f, hd)
             p == Len(f)
  <2>1. g = Append(e, tl)
    BY <1>5 DEF Lined, c
  <2> HIDE DEF hd, tl, g
  <2>2. /\ e \in Seq(Cell) /\ Len(e) = Len(f) + 1 /\ e[Len(f) + 1] = hd /\ Longer(f, e)
    BY <1>1, Longer1
  <2>3. LET b == ReadOf(f, Len(f))
            r == ReadOf(e, Len(f) + 1)
        IN  /\ r.in <=> hd.t = "head"
            /\ hd.t = "head" => r.list = b.list
            /\ hd.t = "head" /\ ~ b.in => r.start = Len(f)
    BY <1>1, ReadOne, Zenon
  <2>4. /\ ReadOf(e, Len(f) + 1).in /\ ReadOf(e, Len(f) + 1).list = ReadOf(f, Len(f)).list
        /\ ReadOf(e, Len(f) + 1).start = p
    BY <1>1, <1>5, <2>3
  <2>5. Tidy(e) /\ (Numbered(f) => Numbered(e))
    BY <1>1, TidyAppend, NumberedAppend
  <2> HIDE DEF e
  <2>6. /\ Len(g) = Len(e) + 1 /\ g[Len(e) + 1] = tl /\ Longer(e, g) /\ Len(e) \in Nat
    BY <1>1, <2>1, <2>2, Longer1
  <2>7. p \in Nat /\ p + 1 = Len(e) /\ p + 2 = Len(g) /\ p + 1 \in 1..Len(e) /\ Len(e) >= 1
    BY <1>1, <2>2, <2>6
  <2>8. p + 2 <= Len(g) /\ g[p + 1] = Head1(c) /\ g[p + 2] = Tail1(c)
    <3>1. g[p + 1] = e[p + 1]
      BY <2>6, <2>7 DEF Longer
    <3>2. QED
      BY <2>2, <2>6, <2>7, <3>1 DEF hd, tl
  <2>9. ReadOf(g, Len(g)).list = Append(ReadOf(f, Len(f)).list, p)
    <3>1. LET b == ReadOf(e, Len(e))
              r == ReadOf(Append(e, tl), Len(e) + 1)
          IN  tl.t # "head" /\ b.in => r.list = Append(b.list, b.start)
      BY <1>1, <2>2, ReadOne, Zenon
    <3>2. tl.t # "head"
      BY <1>1
    <3>3. ReadOf(g, Len(e) + 1).list = Append(ReadOf(e, Len(e)).list, ReadOf(e, Len(e)).start)
      BY <2>1, <2>2, <2>4, <3>1, <3>2
    <3>4. QED
      BY <2>2, <2>4, <2>6, <3>3
  <2>10. Tidy(g) /\ (Numbered(f) => Numbered(g))
    BY <1>1, <2>1, <2>2, <2>5, <2>7, TidyAppend, NumberedAppend
  <2>11. Kept(g, Append(l, c))
    BY <1>1, <1>2, <2>7, <2>8, <2>9, KeptMore
  <2>12. Len(ReadOf(g, Len(g)).list) = Len(ReadOf(f, Len(f)).list) + 1
    BY <1>3, <2>7, <2>9
  <2>13. Len(g) >= 1 /\ g[Len(g)].t = "tail"
    BY <1>1, <2>6
  <2>14. QED
    BY <2>10, <2>11, <2>12, <2>13 DEF g, c
<1>6. QED
  BY <1>4, <1>5

LEMMA MarkedRead ==
    ASSUME NEW f \in Seq(Cell), Tidy(f), NEW l \in Seq(Cmd), Kept(f, l),
           Len(f) >= 1, f[Len(f)].t = "tail", NEW n \in Int
    PROVE  LET g == Append(f, Mark(n))
           IN  /\ Tidy(g) /\ Kept(g, l)
               /\ ReadOf(g, Len(g)).list = ReadOf(f, Len(f)).list /\ ~ ReadOf(g, Len(g)).in
               /\ Numbered(f) /\ n = Len(ReadOf(f, Len(f)).list) + 1 /\ n < Radix => Numbered(g)
<1> DEFINE c == Mark(n)
           g == Append(f, c)
<1>1. c \in Cell /\ c.t = "mark" /\ c.v = n /\ Len(f) \in Nat
  BY CellsMade, FileFacts DEF Mark
<1> HIDE DEF c
<1>2. g \in Seq(Cell) /\ Len(g) = Len(f) + 1 /\ Longer(f, g)
  BY <1>1, Longer1
<1>3. ~ ReadOf(f, Len(f)).in
  BY LastRead
<1>4. LET b == ReadOf(f, Len(f))
          r == ReadOf(g, Len(f) + 1)
      IN  /\ r.in <=> c.t = "head"
          /\ c.t \in {"zero", "mark"} /\ ~ b.in => r.list = b.list
  BY <1>1, ReadOne, Zenon
<1>5. Tidy(g)
  BY <1>1, TidyAppend
<1>6. ReadOf(g, Len(f) + 1).list = ReadOf(f, Len(f)).list /\ ~ ReadOf(g, Len(f) + 1).in
  BY <1>1, <1>3, <1>4
<1>7. Numbered(f) /\ n = Len(ReadOf(f, Len(f)).list) + 1 /\ n < Radix => Numbered(g)
  <2>1. ASSUME Numbered(f), n = Len(ReadOf(f, Len(f)).list) + 1, n < Radix
        PROVE  Numbered(g)
    <3>1. c.v = Rank(g, Len(f) + 1) /\ c.v < Radix
      BY <1>1, <1>6, <2>1 DEF Rank
    <3>2. QED
      BY <1>1, <2>1, <3>1, NumberedAppend
  <2>2. QED
    BY <2>1
<1> HIDE DEF g
<1>8. Kept(g, l)
  BY <1>2, <1>6, KeptSame
<1>9. QED
  BY <1>2, <1>5, <1>6, <1>7, <1>8 DEF g, c

(* An undo record takes back the last command. *)
LEMMA CancelRead ==
    ASSUME NEW f \in Seq(Cell), Tidy(f), NEW l \in Seq(Cmd), Kept(f, l), l # <<>>,
           ~ ReadOf(f, Len(f)).in
    PROVE  LET g == Append(f, Undo)
           IN  /\ Tidy(g) /\ Kept(g, Front(l)) /\ ~ ReadOf(g, Len(g)).in
               /\ Len(ReadOf(g, Len(g)).list) = Len(ReadOf(f, Len(f)).list) - 1
               /\ Numbered(f) => Numbered(g)
<1> DEFINE c == Undo
           g == Append(f, c)
           list == ReadOf(f, Len(f)).list
<1>1. c \in Cell /\ c.t = "undo" /\ Len(f) \in Nat /\ list \in Seq(Nat)
  BY CellsMade, LastRead DEF Undo
<1>2. list # <<>> /\ Len(f) # 0
  <2>1. Len(list) = Len(l) /\ Len(l) # 0
    BY DEF Kept
  <2>2. list # <<>>
    BY <2>1
  <2>3. QED
    BY <2>2, LastRead
<1> HIDE DEF c
<1>3. g \in Seq(Cell) /\ Len(g) = Len(f) + 1 /\ Longer(f, g)
  BY <1>1, Longer1
<1>4. LET b == ReadOf(f, Len(f))
          r == ReadOf(g, Len(f) + 1)
      IN  /\ r.in <=> c.t = "head"
          /\ c.t = "undo" /\ ~ b.in /\ b.list # <<>> => r.list = Front(b.list)
  BY <1>1, ReadOne, Zenon
<1>5. Tidy(g) /\ (Numbered(f) => Numbered(g))
  BY <1>1, <1>2, TidyAppend, NumberedAppend
<1>6. ReadOf(g, Len(f) + 1).list = Front(list) /\ ~ ReadOf(g, Len(f) + 1).in
  BY <1>1, <1>2, <1>4
<1> HIDE DEF g
<1>7. Kept(g, Front(l))
  BY <1>3, <1>6, KeptLess
<1>8. Len(ReadOf(g, Len(g)).list) = Len(list) - 1
  BY <1>1, <1>2, <1>3, <1>6, FrontIs
<1>9. QED
  BY <1>3, <1>5, <1>6, <1>7, <1>8 DEF g, c

(* The repair makes a command of what has no end, and takes it back. *)
LEMMA RepairRead ==
    ASSUME NEW f \in Seq(Cell), Tidy(f), NEW l \in Seq(Cmd), Kept(f, l),
           Len(f) >= 1, f[Len(f)].t = "head"
    PROVE  LET g == Append(Append(f, Zero), Undo)
           IN  /\ Tidy(g) /\ Kept(g, l) /\ ~ ReadOf(g, Len(g)).in
               /\ Numbered(f) => Numbered(g)
<1> DEFINE z == Zero
           c == Undo
           e == Append(f, z)
           g == Append(e, c)
           list == ReadOf(f, Len(f)).list
<1>1. c \in Cell /\ c.t = "undo" /\ z \in Cell /\ z.t = "zero" /\ Len(f) \in Nat /\ list \in Seq(Nat)
      /\ ReadOf(f, Len(f)).start \in Nat
  BY CellsMade, LastRead DEF Undo, Zero, Reading
<1> HIDE DEF c, z
<1>2. e \in Seq(Cell) /\ Len(e) = Len(f) + 1 /\ Longer(f, e) /\ Tidy(e) /\ (Numbered(f) => Numbered(e))
  BY <1>1, Longer1, TidyAppend, NumberedAppend
<1>3. ReadOf(f, Len(f)).in
  BY LastRead
<1>4. LET b == ReadOf(f, Len(f))
          r == ReadOf(e, Len(f) + 1)
      IN  /\ r.in <=> z.t = "head"
          /\ z.t # "head" /\ b.in => r.list = Append(b.list, b.start)
  BY <1>1, ReadOne, Zenon
<1>5. /\ ReadOf(e, Len(e)).list = Append(list, ReadOf(f, Len(f)).start)
      /\ ~ ReadOf(e, Len(e)).in
  BY <1>1, <1>2, <1>3, <1>4
<1> HIDE DEF e
<1>6. g \in Seq(Cell) /\ Len(g) = Len(e) + 1 /\ Longer(e, g) /\ Len(e) \in Nat
  BY <1>1, <1>2, Longer1, FileFacts
<1>7. LET b == ReadOf(e, Len(e))
          r == ReadOf(g, Len(e) + 1)
      IN  /\ r.in <=> c.t = "head"
          /\ c.t = "undo" /\ ~ b.in /\ b.list # <<>> => r.list = Front(b.list)
  BY <1>1, <1>2, ReadOne, Zenon
<1>8. PICK a \in Nat : a = ReadOf(f, Len(f)).start
  BY <1>1
<1>9. ReadOf(e, Len(e)).list = Append(list, a)
  BY <1>5, <1>8
<1> HIDE DEF list
<1>10. Append(list, a) # <<>> /\ Front(Append(list, a)) = list
  <2> DEFINE m == Append(list, a)
  <2>1. m \in Seq(Nat) /\ Len(m) = Len(list) + 1 /\ Len(list) \in Nat
        /\ \A i \in 1..Len(list) : m[i] = list[i]
    BY <1>1
  <2> HIDE DEF m
  <2>2. m # <<>>
    BY <2>1
  <2>3. /\ Front(m) \in Seq(Nat) /\ Len(Front(m)) = Len(m) - 1
        /\ \A i \in 1..Len(m) - 1 : Front(m)[i] = m[i]
    BY <2>1, <2>2, FrontIs
  <2>4. Len(Front(m)) = Len(list) /\ \A i \in 1..Len(list) : Front(m)[i] = list[i]
    BY <2>1, <2>3
  <2>5. Front(m) = list
    BY <1>1, <2>3, <2>4, SeqEqual
  <2>6. QED
    BY <2>2, <2>5 DEF m
<1>11. ReadOf(g, Len(e) + 1).list = list /\ ~ ReadOf(g, Len(e) + 1).in
  BY <1>1, <1>5, <1>7, <1>9, <1>10
<1>12. Tidy(g) /\ (Numbered(f) => Numbered(g))
  <2>1. ReadOf(e, Len(e)).list # <<>> /\ Len(e) # 0
    BY <1>1, <1>2, <1>9, <1>10
  <2>2. QED
    BY <1>1, <1>2, <2>1, TidyAppend, NumberedAppend
<1> HIDE DEF g
<1>13. Longer(f, g)
  BY <1>2, <1>6, LongerTwice
<1>14. Kept(g, l)
  BY <1>6, <1>11, <1>13, KeptSame DEF list
<1>15. QED
  BY <1>6, <1>11, <1>12, <1>14 DEF g, e, c, z

--------------------------------------------------------------------------------
(* The steps. *)

(* A step of s that leaves the file and the lines as they are.  If s has a line
   afterwards that is to be flushed, it is a new one. *)
Quiet(s) ==
    /\ data' = data /\ log' = log /\ (broken => broken') /\ (raced => raced')
    /\ next' \in {next, next + 1}
    /\ \E k \in Hist :
          /\ sh' = [sh EXCEPT ![s] = k] /\ k.own = 0
          /\ Sends(k) => k.cmd = next /\ next' = next + 1
          /\ ~ raced' /\ Tidy(data[1]) /\ Numbered(data[1]) /\ RankOK(sh[s], data[1]) =>
                RankOK(k, data[1])

LEMMA QuietReads ==
    ASSUME TInv, NEW s \in Shell, NEW h, NEW ret \in {"open", "clean", "prompt", "parse", "edit"},
           ReadsAs(s, h, ret), UNCHANGED <<data, log, raced, broken>>,
           next' \in {next, next + 1}, ret = "parse" => h.cmd = next /\ next' = next + 1
    PROVE  Quiet(s)
<1>1. /\ h \in Hist /\ h.own = 0
      /\ Numbered(data[1]) /\ RankOK(sh[s], data[1]) =>
            h.ind = Rank(data[1], h.cnt) /\ ~ ReadOf(data[1], h.cnt).in
  BY DEF ReadsAs
<1>2. PICK k : AfterEof(h, data[1], ret, k) /\ sh' = [sh EXCEPT ![s] = k]
  BY DEF ReadsAs
<1>3. k \in Hist /\ k.own = 0 /\ (k.pc = ret \/ (k.pc = "repair" /\ k.ret = ret)) /\ k.cmd = h.cmd
  <2>1. /\ k \in Hist /\ k.own = h.own /\ (k.pc = ret \/ (k.pc = "repair" /\ k.ret = ret))
        /\ k.cmd = h.cmd
    BY <1>2, Zenon DEF AfterEof
  <2>2. QED
    BY <1>1, <2>1
<1>4. Sends(k) => k.cmd = next /\ next' = next + 1
  BY <1>3 DEF Sends
<1>5. Tidy(data[1]) /\ Numbered(data[1]) /\ RankOK(sh[s], data[1]) => RankOK(k, data[1])
  BY <1>1, <1>2, <1>3 DEF AfterEof, RankOK
<1>6. QED
  BY <1>2, <1>3, <1>4, <1>5 DEF Quiet

LEMMA QuietOpen ==
    ASSUME TInv, NEW s \in Shell, Open(s)
    PROVE  Quiet(s)
<1>1. UNCHANGED <<data, next, log, raced, broken>>
  BY DEF Open
<1>2. CASE sh' = [sh EXCEPT ![s] = [Closed EXCEPT !.pc = "exec", !.ino = 1]]
  <2> DEFINE k == [Closed EXCEPT !.pc = "exec", !.ino = 1]
  <2>1. /\ k \in Hist /\ k.pc = "exec" /\ k.ind = 1 /\ k.cnt = 0 /\ k.own = 0
    BY ClosedIs, Numbers DEF Hist, Closed
  <2>2. sh' = [sh EXCEPT ![s] = k]
    BY <1>2
  <2> HIDE DEF k
  <2>3. Begin.list = <<>> /\ ~ Begin.in /\ ReadOf(data[1], 0) = Begin
    BY ShellFacts, ReadSteps DEF Begin
  <2>4. RankOK(k, data[1])
    BY <2>1, <2>3 DEF RankOK, Rank
  <2>5. QED
    BY <1>1, <2>1, <2>2, <2>4 DEF Quiet, Sends
<1>3. CASE \E h : ReadsAs(s, h, "open")
  BY <1>1, <1>3, QuietReads
<1>4. QED
  BY <1>2, <1>3, OpenIs

LEMMA QuietGone ==
    ASSUME TInv, NEW s \in Shell, sh' = [sh EXCEPT ![s] = Closed], broken => broken',
           UNCHANGED <<data, next, log, raced>>
    PROVE  Quiet(s)
<1>1. Closed \in Hist /\ Closed.own = 0 /\ ~ Sends(Closed) /\ RankOK(Closed, data[1])
  BY ClosedIs DEF Closed, Sends, RankOK
<1>2. QED
  BY <1>1 DEF Quiet

LEMMA StepKinds ==
    ASSUME NoTrim, TInv, Next
    PROVE  \E s \in Shell : Quiet(s) \/ Overflow(s) \/ Flush(s) \/ EditEnd(s) \/ Repair(s)
<1>1. PICK s \in Shell :
          \/ Open(s) \/ OpenEnd(s) \/ Opened(s)
          \/ Prompt(s) \/ ReadLine(s) \/ Repair(s) \/ Overflow(s) \/ Flush(s) \/ FlushEmpty(s)
          \/ Edit(s) \/ EditEnd(s) \/ Exit(s) \/ Crash(s)
  BY NoneTrims DEF Next
<1> DEFINE h == sh[s]
<1>2. /\ h \in Hist /\ ShellOK(h, data[1]) /\ data[1] \in Seq(Cell) /\ Len(data[1]) \in Nat
      /\ h.cnt \in Nat /\ h.own \in Nat
  BY ShellFacts, HistFields
<1>3. CASE Open(s)
  BY <1>3, QuietOpen
<1>4. CASE OpenEnd(s)
  <2>1. UNCHANGED <<data, next, log, raced, broken>>
    BY <1>4 DEF OpenEnd
  <2>2. Quiet(s)
    BY <1>4, <2>1, OpenEndIs, QuietReads
  <2>3. QED
    BY <2>2
<1>5. CASE Opened(s)
  <2> DEFINE k == [h EXCEPT !.pc = "exec", !.hsize = 0]
  <2>1. /\ sh' = [sh EXCEPT ![s] = k] /\ h.pc = "clean"
        /\ UNCHANGED <<data, next, log, raced, broken>>
    BY <1>5 DEF Opened, TInv
  <2>2. k \in Hist /\ k.pc = "exec" /\ k.ind = h.ind /\ k.cnt = h.cnt /\ k.own = h.own
    BY <1>2 DEF Hist
  <2> HIDE DEF k
  <2>3. RankOK(h, data[1]) => RankOK(k, data[1])
    BY <2>1, <2>2 DEF RankOK, Rank
  <2>4. k.own = 0 /\ ~ Sends(k)
    BY <1>2, <2>1, <2>2 DEF ShellOK, Sends
  <2>5. Quiet(s)
    BY <2>1, <2>2, <2>3, <2>4 DEF Quiet
  <2>6. QED
    BY <2>5
<1>6. CASE Prompt(s)
  <2>1. UNCHANGED <<data, next, log, raced, broken>>
    BY <1>6 DEF Prompt
  <2>2. Quiet(s)
    BY <1>6, <2>1, PromptIs, QuietReads
  <2>3. QED
    BY <2>2
<1>7. CASE ReadLine(s)
  <2> DEFINE k == [h EXCEPT !.cmd = next, !.own = 0]
  <2>1. UNCHANGED <<data, log, raced, broken>>
    BY <1>7 DEF ReadLine
  <2>2. next' = next + 1 /\ ReadsAs(s, k, "parse")
    BY <1>7, ReadLineIs
  <2>3. k.cmd = next
    BY <1>2 DEF Hist
  <2> HIDE DEF k
  <2>4. Quiet(s)
    BY <2>1, <2>2, <2>3, QuietReads
  <2>5. QED
    BY <2>4
<1>8. CASE FlushEmpty(s)
  <2> DEFINE k == [h EXCEPT !.pc = "exec", !.cmd = 0, !.cnt = Len(data[1])]
  <2>1. /\ h.pc = "parse" /\ h.own = 0 /\ raced' = (raced \/ ~ UpToDate(s))
        /\ sh' = [sh EXCEPT ![s].pc = "exec", ![s].cmd = 0, ![s].cnt = Len(File(s))]
        /\ UNCHANGED <<data, next, log, broken>>
    BY <1>8 DEF FlushEmpty
  <2>2. File(s) = data[1]
    BY <2>1, ShellFacts
  <2>3. sh' = [sh EXCEPT ![s] = k]
    BY <2>1, <2>2 DEF TInv
  <2>4. k \in Hist /\ k.pc = "exec" /\ k.ind = h.ind /\ k.cnt = Len(data[1]) /\ k.own = h.own
    BY <1>2 DEF Hist
  <2>5. ~ raced' => h.cnt = Len(data[1])
    <3>1. UpToDate(s) => Len(data[1]) = h.cnt + 0
      BY <2>1, <2>2 DEF UpToDate
    <3>2. ~ raced' => UpToDate(s)
      BY <2>1, Zenon
    <3>3. QED
      BY <1>2, <3>1, <3>2
  <2> HIDE DEF k
  <2>6. ~ raced' /\ RankOK(h, data[1]) => RankOK(k, data[1])
    BY <2>1, <2>4, <2>5 DEF RankOK, Rank
  <2>7. k.own = 0 /\ ~ Sends(k)
    BY <2>1, <2>4 DEF Sends
  <2>8. Quiet(s)
    BY <2>1, <2>3, <2>4, <2>6, <2>7 DEF Quiet
  <2>9. QED
    BY <2>8
<1>9. CASE Edit(s)
  <2>1. UNCHANGED <<data, next, log, raced, broken>>
    BY <1>9 DEF Edit
  <2>2. Quiet(s)
    BY <1>9, <2>1, EditIs, QuietReads
  <2>3. QED
    BY <2>2
<1>10. CASE Exit(s)
  <2>1. Quiet(s)
    BY <1>10, QuietGone DEF Exit
  <2>2. QED
    BY <2>1
<1>11. CASE Crash(s)
  <2>1. Quiet(s)
    BY <1>11, QuietGone DEF Crash
  <2>2. QED
    BY <2>1
<1>12. QED
  BY <1>1, <1>3, <1>4, <1>5, <1>6, <1>7, <1>8, <1>9, <1>10, <1>11

--------------------------------------------------------------------------------
(* Every line is flushed once. *)

Fresh(l, n) ==
    /\ \A i, j \in 1..Len(l) : l[i] = l[j] => i = j
    /\ \A i \in 1..Len(l) : l[i] < n

(* A line that is to be flushed is not among those that were, and belongs to one shell. *)
NewLine(h, l, n) == Sends(h) => h.cmd < n /\ \A i \in 1..Len(l) : l[i] # h.cmd

FInv ==
    /\ Fresh(log, next)
    /\ \A s \in Shell : NewLine(sh[s], log, next)
    /\ \A s, t \in Shell : s # t /\ Sends(sh[s]) /\ Sends(sh[t]) => sh[s].cmd # sh[t].cmd

LEMMA FreshFront ==
    ASSUME NEW l \in Seq(Cmd), l # <<>>, NEW n, Fresh(l, n)
    PROVE  /\ Fresh(Front(l), n)
           /\ \A i \in 1..Len(Front(l)) : Front(l)[i] = l[i] /\ i \in 1..Len(l)
<1>1. /\ Len(l) \in Nat /\ Len(Front(l)) = Len(l) - 1
      /\ \A i \in 1..Len(l) - 1 : Front(l)[i] = l[i]
  BY FrontIs
<1>2. \A i \in 1..Len(l) - 1 : i \in 1..Len(l)
  BY <1>1
<1>3. QED
  BY <1>1, <1>2 DEF Fresh

(* A step of one shell, after which there are no more lines. *)
LEMMA FInvMoves ==
    ASSUME TInv, FInv, NEW s \in Shell, NEW k, sh' = [sh EXCEPT ![s] = k],
           next' \in {next, next + 1},
           Sends(k) => \/ k.cmd = next /\ next' = next + 1
                       \/ Sends(sh[s]) /\ k.cmd = sh[s].cmd,
           \/ log' = log
           \/ log # <<>> /\ log' = Front(log)
    PROVE  FInv'
<1>1. /\ log \in Seq(Cmd) /\ next \in Nat /\ (next' = next \/ next' = next + 1)
      /\ \A t \in Shell : Sends(sh[t]) => sh[t].cmd \in Cmd
  BY Numbers, HistFields DEF TInv, ShellOK
<1>2. Fresh(log, next) /\ \A i \in 1..Len(log) : log[i] \in Nat
  BY <1>1, Numbers DEF FInv, Cmd
<1>3. /\ \A i \in 1..Len(log') : log'[i] = log[i] /\ i \in 1..Len(log)
      /\ \A i, j \in 1..Len(log') : log'[i] = log'[j] => i = j
  <2>1. CASE log' = log
    BY <1>2, <2>1 DEF Fresh
  <2>2. CASE log # <<>> /\ log' = Front(log)
    <3>1. /\ Fresh(Front(log), next)
          /\ \A i \in 1..Len(Front(log)) : Front(log)[i] = log[i] /\ i \in 1..Len(log)
      BY <1>1, <1>2, <2>2, FreshFront
    <3>2. QED
      BY <2>2, <3>1 DEF Fresh
  <2>3. QED
    BY <2>1, <2>2
<1>4. Fresh(log', next')
  BY <1>1, <1>2, <1>3 DEF Fresh
<1>5. \A t \in Shell : t # s => sh'[t] = sh[t]
  BY DEF TInv
<1>6. sh'[s] = k
  BY DEF TInv
<1>7. \A t \in Shell : NewLine(sh[t], log', next')
  BY <1>1, <1>3, Numbers DEF FInv, NewLine, Cmd
<1>8. NewLine(k, log', next')
  <2>1. CASE k.cmd = next /\ next' = next + 1
    BY <1>1, <1>2, <1>3, <2>1 DEF Fresh, NewLine
  <2>2. CASE Sends(sh[s]) /\ k.cmd = sh[s].cmd
    BY <1>7, <2>2 DEF NewLine
  <2>3. QED
    BY <2>1, <2>2 DEF NewLine
<1>9. \A t \in Shell : t # s /\ Sends(k) /\ Sends(sh[t]) => k.cmd # sh[t].cmd
  <2> SUFFICES ASSUME NEW t \in Shell, t # s, Sends(k), Sends(sh[t])
               PROVE  k.cmd # sh[t].cmd
    OBVIOUS
  <2>1. CASE k.cmd = next
    BY <1>1, <2>1, Numbers DEF FInv, NewLine, Cmd
  <2>2. CASE Sends(sh[s]) /\ k.cmd = sh[s].cmd
    BY <2>2 DEF FInv
  <2>3. QED
    BY <2>1, <2>2
<1>10. \A t \in Shell : NewLine(sh'[t], log', next')
  <2> SUFFICES ASSUME NEW t \in Shell
               PROVE  NewLine(sh'[t], log', next')
    OBVIOUS
  <2>1. CASE t = s
    BY <1>6, <1>8, <2>1
  <2>2. CASE t # s
    BY <1>5, <1>7, <2>2
  <2>3. QED
    BY <2>1, <2>2
<1>11. \A t, u \in Shell : t # u /\ Sends(sh'[t]) /\ Sends(sh'[u]) => sh'[t].cmd # sh'[u].cmd
  <2> SUFFICES ASSUME NEW t \in Shell, NEW u \in Shell, t # u, Sends(sh'[t]), Sends(sh'[u])
               PROVE  sh'[t].cmd # sh'[u].cmd
    OBVIOUS
  <2>1. CASE t = s
    BY <1>5, <1>6, <1>9, <2>1
  <2>2. CASE u = s
    BY <1>5, <1>6, <1>9, <2>2
  <2>3. CASE t # s /\ u # s
    BY <1>5, <2>3 DEF FInv
  <2>4. QED
    BY <2>1, <2>2, <2>3
<1>12. QED
  BY <1>4, <1>10, <1>11 DEF FInv

LEMMA FInvFlush ==
    ASSUME TInv, FInv, NEW s \in Shell, Flush(s)
    PROVE  FInv'
<1> DEFINE h == sh[s]
           l == Append(log, h.cmd)
<1>1. /\ h.pc = "parse" /\ h.cmd \in Cmd
      /\ \E k \in Hist : sh' = [sh EXCEPT ![s] = k] /\ k.pc = "exec"
  <2>1. Flushes(s)
    BY FlushIs
  <2>2. QED
    BY <2>1 DEF Flushes
<1>2. PICK k : sh' = [sh EXCEPT ![s] = k] /\ k.pc = "exec"
  BY <1>1
<1>3. log' = l /\ next' = next
  BY DEF Flush
<1>4. Sends(h) /\ ~ Sends(k)
  BY <1>1, <1>2 DEF Sends
<1>5. log \in Seq(Cmd) /\ Len(log) \in Nat
  BY DEF TInv
<1>6. /\ Fresh(log, next) /\ NewLine(h, log, next)
      /\ \A t \in Shell : t # s /\ Sends(sh[t]) => h.cmd # sh[t].cmd
  BY <1>4 DEF FInv
<1>7. h.cmd < next /\ \A i \in 1..Len(log) : log[i] # h.cmd
  BY <1>4, <1>6 DEF NewLine
<1>8. \A t \in Shell : t # s => sh'[t] = sh[t]
  BY <1>2 DEF TInv
<1>9. sh'[s] = k
  BY <1>2 DEF TInv
<1> HIDE DEF h
<1>10. Len(l) = Len(log) + 1 /\ l[Len(log) + 1] = h.cmd /\ \A i \in 1..Len(log) : l[i] = log[i]
  BY <1>1, <1>5
<1> HIDE DEF l
<1>11. \A i \in 1..Len(l) : i \in 1..Len(log) \/ i = Len(log) + 1
  BY <1>5, <1>10
<1>12. Fresh(l, next)
  <2>1. \A i \in 1..Len(l) : l[i] < next
    BY <1>6, <1>7, <1>10, <1>11 DEF Fresh
  <2>2. \A i, j \in 1..Len(l) : l[i] = l[j] => i = j
    <3> SUFFICES ASSUME NEW i \in 1..Len(l), NEW j \in 1..Len(l), l[i] = l[j]
                 PROVE  i = j
      OBVIOUS
    <3>1. CASE i \in 1..Len(log) /\ j \in 1..Len(log)
      BY <1>6, <1>10, <3>1 DEF Fresh
    <3>2. CASE i = Len(log) + 1 /\ j \in 1..Len(log)
      BY <1>7, <1>10, <3>2
    <3>3. CASE j = Len(log) + 1 /\ i \in 1..Len(log)
      BY <1>7, <1>10, <3>3
    <3>4. QED
      BY <1>11, <3>1, <3>2, <3>3
  <2>3. QED
    BY <2>1, <2>2 DEF Fresh
<1>13. \A t \in Shell : NewLine(sh'[t], l, next)
  <2> SUFFICES ASSUME NEW t \in Shell, Sends(sh'[t])
               PROVE  sh'[t].cmd < next /\ \A i \in 1..Len(l) : l[i] # sh'[t].cmd
    BY DEF NewLine
  <2>1. t # s /\ sh'[t] = sh[t]
    BY <1>4, <1>8, <1>9
  <2>2. sh[t].cmd < next /\ \A i \in 1..Len(log) : log[i] # sh[t].cmd
    BY <2>1 DEF FInv, NewLine
  <2>3. QED
    BY <1>6, <1>10, <1>11, <2>1, <2>2
<1>14. \A t, u \in Shell : t # u /\ Sends(sh'[t]) /\ Sends(sh'[u]) => sh'[t].cmd # sh'[u].cmd
  BY <1>4, <1>8, <1>9 DEF FInv
<1>15. QED
  BY <1>3, <1>12, <1>13, <1>14 DEF FInv

LEMMA FInvNext ==
    ASSUME NoTrim, TInv, FInv, [Next]_vars
    PROVE  FInv'
<1>1. CASE UNCHANGED vars
  BY <1>1 DEF vars, FInv
<1>2. CASE Next
  <2>1. PICK s \in Shell : Quiet(s) \/ Overflow(s) \/ Flush(s) \/ EditEnd(s) \/ Repair(s)
    BY <1>2, StepKinds
  <2>2. CASE Quiet(s)
    <3>1. PICK k \in Hist : sh' = [sh EXCEPT ![s] = k] /\ (Sends(k) => k.cmd = next /\ next' = next + 1)
      BY <2>2 DEF Quiet
    <3>2. next' \in {next, next + 1} /\ log' = log
      BY <2>2 DEF Quiet
    <3>3. QED
      BY <3>1, <3>2, FInvMoves
  <2>3. CASE Overflow(s)
    <3> DEFINE k == [sh[s] EXCEPT !.own = 1]
    <3>1. sh' = [sh EXCEPT ![s] = k] /\ sh[s].pc = "parse" /\ next' = next /\ log' = log
      BY <2>3 DEF Overflow, TInv
    <3>2. k.pc = sh[s].pc /\ k.cmd = sh[s].cmd
      BY ShellFacts DEF Hist
    <3> HIDE DEF k
    <3>3. Sends(k) => Sends(sh[s]) /\ k.cmd = sh[s].cmd
      BY <3>1, <3>2 DEF Sends
    <3>4. QED
      BY <3>1, <3>3, FInvMoves
  <2>4. CASE Flush(s)
    BY <2>4, FInvFlush
  <2>5. CASE EditEnd(s)
    <3>1. Cancels(s)
      BY <2>5, EditEndIs
    <3>2. PICK k \in Hist :
              /\ sh' = [sh EXCEPT ![s] = k]
              /\ \/ k.pc = "parse" /\ k.cmd = next /\ next' = next + 1
                 \/ k.pc = "exec" /\ next' = next
      BY <3>1 DEF Cancels
    <3>3. log' = log \/ (log # <<>> /\ log' = Front(log))
      BY <3>1 DEF Cancels
    <3>4. Sends(k) => k.cmd = next /\ next' = next + 1
      BY <3>2 DEF Sends
    <3>5. QED
      BY <3>2, <3>3, <3>4, FInvMoves
  <2>6. CASE Repair(s)
    <3>1. Repairs(s)
      BY <2>6, RepairIs
    <3>2. PICK k \in Hist : sh' = [sh EXCEPT ![s] = k] /\ k.pc = sh[s].ret /\ k.cmd = sh[s].cmd
      BY <3>1 DEF Repairs
    <3>3. sh[s].pc = "repair" /\ sh[s].ret \in {"open", "clean", "prompt", "parse", "edit"}
      BY <3>1, ShellFacts, HistFields DEF Repairs
    <3>4. Sends(k) => Sends(sh[s]) /\ k.cmd = sh[s].cmd
      BY <3>2, <3>3 DEF Sends
    <3>5. next' = next /\ log' = log
      BY <2>6 DEF Repair
    <3>6. QED
      BY <3>2, <3>4, <3>5, FInvMoves
  <2>7. QED
    BY <2>1, <2>2, <2>3, <2>4, <2>5, <2>6
<1>3. QED
  BY <1>1, <1>2

LEMMA InitFInv == Init => FInv
BY DEF Init, FInv, Fresh, NewLine, Sends, Closed

(* There are never more lines than the bound. *)
LEMMA LogBound ==
    ASSUME NEW l \in Seq(Cmd), NEW n, Fresh(l, n)
    PROVE  Len(l) \in Nat /\ Len(l) <= MaxCmd
<1>1. Len(l) \in Nat /\ MaxCmd \in Nat
  BY Numbers
<1>2. DOMAIN l = 1..Len(l) /\ l \in [1..Len(l) -> 1..MaxCmd]
  BY <1>1 DEF Cmd
<1>3. \A i, j \in 1..Len(l) : l[i] = l[j] => i = j
  BY DEF Fresh
<1>4. l \in Injection(1..Len(l), 1..MaxCmd)
  BY <1>2, <1>3 DEF Injection, IsInjective
<1>5. /\ IsFiniteSet(1..MaxCmd) /\ Cardinality(1..MaxCmd) = IF 1 > MaxCmd THEN 0 ELSE MaxCmd - 1 + 1
      /\ Cardinality(1..Len(l)) = IF 1 > Len(l) THEN 0 ELSE Len(l) - 1 + 1
  <2>1. 1 \in Int /\ MaxCmd \in Int /\ Len(l) \in Int
    BY <1>1
  <2>2. QED
    BY <2>1, FS_Interval
<1>6. Cardinality(1..Len(l)) <= Cardinality(1..MaxCmd)
  BY <1>4, <1>5, FS_Injection
<1>7. QED
  BY <1>1, <1>5, <1>6

--------------------------------------------------------------------------------
(* The lines are kept. *)

(* Of a line that goes to the file in two pieces the first is there, unless somebody
   has written since. *)
OwnOK(h, f) ==
    h.own = 1 /\ Len(f) = h.cnt + 1 =>
        f[Len(f)] = Head1(h.cmd) /\ ReadOf(f, Len(f)).start = Len(f) - 1

KInv ==
    ~ broken => Tidy(data[1]) /\ Kept(data[1], log) /\ \A s \in Shell : OwnOK(sh[s], data[1])

LEMMA NotTorn ==
    ASSUME TInv, NEW s \in Shell, sh[s].pc # "off", sh[s].own = 0, ~ TornByOther(s)
    PROVE  ~ ReadOf(data[1], Len(data[1])).in
<1> DEFINE f == data[1]
<1>1. File(s) = f /\ f \in Seq(Cell) /\ Len(f) \in Nat
  BY ShellFacts
<1>2. ~ (f # <<>> /\ f[Len(f)].t = "head")
  BY <1>1 DEF TornByOther, EndsText, Last
<1>3. ReadOf(f, Len(f)).in <=> Len(f) >= 1 /\ f[Len(f)].t = "head"
  BY <1>1, LastRead
<1> HIDE DEF f
<1>4. Len(f) >= 1 => f # <<>>
  BY <1>1
<1>5. QED
  BY <1>2, <1>3, <1>4 DEF f

(* The file became longer: what the other shells wrote is not its last cell. *)
LEMMA OwnLonger ==
    ASSUME NEW f \in Seq(Cell), NEW g \in Seq(Cell), Len(g) > Len(f), NEW h \in Hist, ShellOK(h, f)
    PROVE  OwnOK(h, g)
<1>1. Len(f) \in Nat /\ Len(g) \in Nat /\ h.cnt \in Nat /\ h.own \in Nat
  BY FileFacts, HistFields
<1>2. h.own = 1 => h.cnt + 1 <= Len(f)
  BY <1>1 DEF ShellOK
<1>3. QED
  BY <1>1, <1>2 DEF OwnOK

LEMMA OwnAll ==
    ASSUME TInv, TInv', NEW s \in Shell, NEW k, sh' = [sh EXCEPT ![s] = k],
           OwnOK(k, data'[1]), Len(data'[1]) > Len(data[1])
    PROVE  \A t \in Shell : OwnOK(sh'[t], data'[1])
<1> SUFFICES ASSUME NEW t \in Shell
             PROVE  OwnOK(sh'[t], data'[1])
  OBVIOUS
<1>1. data[1] \in Seq(Cell) /\ data'[1] \in Seq(Cell)
  BY Numbers DEF TInv
<1>2. CASE t = s
  BY <1>2 DEF TInv
<1>3. CASE t # s
  <2>1. sh'[t] = sh[t] /\ sh[t] \in Hist /\ ShellOK(sh[t], data[1])
    BY <1>3 DEF TInv
  <2>2. QED
    BY <1>1, <2>1, OwnLonger
<1>4. QED
  BY <1>2, <1>3

LEMMA KInvOverflow ==
    ASSUME TInv, TInv', KInv, NEW s \in Shell, Overflow(s)
    PROVE  KInv'
<1> DEFINE f == data[1]
           h == sh[s]
           c == Head1(h.cmd)
           g == Append(f, c)
           k == [h EXCEPT !.own = 1]
<1>1. /\ h.pc = "parse" /\ h.own = 0 /\ h.cmd \in Cmd /\ k \in Hist
      /\ data' \in [Inode -> Seq(Cell)] /\ data'[1] = g /\ recent' = TRUE
      /\ sh' = [sh EXCEPT ![s] = k]
  BY OverflowIs, Zenon DEF Overflows
<1>2. broken' = (broken \/ TornByOther(s)) /\ log' = log
  BY DEF Overflow
<1>3. f \in Seq(Cell) /\ h \in Hist /\ h.cnt \in Nat /\ Len(f) \in Nat /\ log \in Seq(Cmd) /\ h.pc # "off"
  BY <1>1, ShellFacts DEF TInv
<1>4. c \in Cell /\ c.t = "head"
  BY <1>1, CellsMade DEF Head1
<1> SUFFICES ASSUME ~ broken'
             PROVE  Tidy(g) /\ Kept(g, log) /\ \A t \in Shell : OwnOK(sh'[t], g)
  BY <1>1, <1>2 DEF KInv
<1>5. Tidy(f) /\ Kept(f, log) /\ ~ TornByOther(s)
  BY <1>2 DEF KInv
<1>6. ~ ReadOf(f, Len(f)).in
  BY <1>1, <1>3, <1>5, NotTorn
<1>7. k.own = 1 /\ k.cmd = h.cmd /\ k.cnt = h.cnt
  BY <1>3 DEF Hist
<1> HIDE DEF c, k, h
<1>8. g \in Seq(Cell) /\ Len(g) = Len(f) + 1 /\ g[Len(f) + 1] = c /\ Longer(f, g)
  BY <1>3, <1>4, Longer1
<1>9. LET b == ReadOf(f, Len(f))
          r == ReadOf(g, Len(f) + 1)
      IN  /\ c.t = "head" => r.list = b.list
          /\ c.t = "head" /\ ~ b.in => r.start = Len(f)
  BY <1>3, <1>4, ReadOne, Zenon
<1>10. ReadOf(g, Len(f) + 1).list = ReadOf(f, Len(f)).list /\ ReadOf(g, Len(f) + 1).start = Len(f)
  BY <1>4, <1>6, <1>9
<1>11. Tidy(g)
  BY <1>3, <1>4, <1>5, TidyAppend
<1> HIDE DEF g
<1>12. Kept(g, log)
  BY <1>3, <1>5, <1>8, <1>10, KeptSame
<1>13. OwnOK(k, g)
  BY <1>3, <1>7, <1>8, <1>10 DEF OwnOK, c
<1>14. Len(data'[1]) > Len(data[1]) /\ OwnOK(k, data'[1])
  BY <1>1, <1>3, <1>8, <1>13
<1>15. \A t \in Shell : OwnOK(sh'[t], g)
  BY <1>1, <1>14, OwnAll
<1>16. QED
  BY <1>11, <1>12, <1>15

(* What a flush leaves in the file. *)
LEMMA FlushedFile ==
    ASSUME TInv, KInv, NEW s \in Shell, Flush(s), ~ broken'
    PROVE  LET g == data'[1]
           IN  /\ Tidy(g) /\ Kept(g, Append(log, sh[s].cmd)) /\ ~ ReadOf(g, Len(g)).in
               /\ Len(g) > Len(data[1])
               /\ Len(ReadOf(g, Len(g)).list) = Len(ReadOf(data[1], Len(data[1])).list) + 1
               /\ Numbered(data[1]) /\ sh[s].ind = Len(ReadOf(data[1], Len(data[1])).list) + 1
                  /\ sh[s].ind + 1 < Radix => Numbered(g)
<1> DEFINE f == data[1]
           h == sh[s]
           e == Lined(f, h)
           g == data'[1]
<1>1. /\ h.pc = "parse" /\ h.cmd \in Cmd
      /\ g = e \/ g = Append(e, Mark(h.ind + 1))
  <2>1. Flushes(s)
    BY FlushIs
  <2>2. QED
    BY <2>1 DEF Flushes
<1>2. /\ f \in Seq(Cell) /\ h \in Hist /\ h.cnt \in Nat /\ h.own \in {0, 1} /\ Len(f) \in Nat
      /\ log \in Seq(Cmd) /\ h.pc # "off" /\ File(s) = f /\ h.ind \in Int
  BY <1>1, ShellFacts, HistFields DEF TInv
<1>3. ~ broken /\ ~ TornByOther(s) /\ (h.own > 0 => UpToDate(s))
  BY DEF Flush
<1>4. Tidy(f) /\ Kept(f, log) /\ OwnOK(h, f)
  BY <1>3 DEF KInv
<1>5. ~ (h.own > 0) => ~ ReadOf(f, Len(f)).in
  <2>1. ~ (h.own > 0) => h.own = 0
    BY <1>2
  <2>2. QED
    BY <1>2, <1>3, <2>1, NotTorn
<1>6. h.own > 0 => Len(f) >= 1 /\ f[Len(f)] = Head1(h.cmd) /\ ReadOf(f, Len(f)).start = Len(f) - 1
  <2>1. h.own > 0 => h.own = 1 /\ Len(f) = h.cnt + 1
    BY <1>2, <1>3 DEF UpToDate
  <2>2. QED
    BY <1>2, <1>4, <2>1 DEF OwnOK
<1>7. e \in Seq(Cell) /\ Len(e) > Len(f) /\ Len(e) \in Nat
  BY <1>1, <1>2, LinedIs
<1> HIDE DEF f, h, g
<1>8. /\ Tidy(e) /\ Kept(e, Append(log, h.cmd)) /\ Len(e) >= 1 /\ e[Len(e)].t = "tail"
      /\ Len(ReadOf(e, Len(e)).list) = Len(ReadOf(f, Len(f)).list) + 1
      /\ Numbered(f) => Numbered(e)
  BY <1>1, <1>2, <1>4, <1>5, <1>6, LinedRead
<1> HIDE DEF e
<1>9. CASE g = e
  <2>1. ~ ReadOf(e, Len(e)).in
    BY <1>7, <1>8, LastRead
  <2>2. QED
    BY <1>7, <1>8, <1>9, <2>1 DEF f, g, h
<1>10. CASE g = Append(e, Mark(h.ind + 1))
  <2> DEFINE n == h.ind + 1
             l == Append(log, h.cmd)
  <2>1. n \in Int /\ l \in Seq(Cmd)
    BY <1>1, <1>2
  <2>2. Mark(n) \in Cell
    BY <2>1, CellsMade
  <2>3. Len(g) = Len(e) + 1
    BY <1>7, <1>10, <2>2, Longer1
  <2> HIDE DEF l
  <2>4. /\ Tidy(g) /\ Kept(g, l)
        /\ ReadOf(g, Len(g)).list = ReadOf(e, Len(e)).list /\ ~ ReadOf(g, Len(g)).in
        /\ Numbered(e) /\ n = Len(ReadOf(e, Len(e)).list) + 1 /\ n < Radix => Numbered(g)
    <3> HIDE DEF n
    <3>1. g = Append(e, Mark(n))
      BY <1>10 DEF n
    <3>2. Kept(e, l)
      BY <1>8 DEF l
    <3>3. QED
      BY <1>7, <1>8, <2>1, <3>1, <3>2, MarkedRead
  <2>5. Len(g) > Len(f)
    BY <1>2, <1>7, <2>3
  <2>6. QED
    BY <1>8, <2>4, <2>5 DEF l, f, g, h
<1>11. QED
  BY <1>1, <1>9, <1>10

LEMMA KInvFlush ==
    ASSUME TInv, TInv', KInv, NEW s \in Shell, Flush(s)
    PROVE  KInv'
<1> SUFFICES ASSUME ~ broken'
             PROVE  Tidy(data'[1]) /\ Kept(data'[1], log') /\ \A t \in Shell : OwnOK(sh'[t], data'[1])
  BY DEF KInv
<1>1. /\ Tidy(data'[1]) /\ Kept(data'[1], Append(log, sh[s].cmd)) /\ Len(data'[1]) > Len(data[1])
  BY FlushedFile, Zenon
<1>2. log' = Append(log, sh[s].cmd)
  BY DEF Flush
<1>3. PICK k \in Hist : sh' = [sh EXCEPT ![s] = k] /\ k.own = 0
  <2>1. Flushes(s)
    BY FlushIs
  <2>2. QED
    BY <2>1 DEF Flushes
<1>4. OwnOK(k, data'[1])
  BY <1>3 DEF OwnOK
<1>5. \A t \in Shell : OwnOK(sh'[t], data'[1])
  BY <1>1, <1>3, <1>4, OwnAll
<1>6. QED
  BY <1>1, <1>2, <1>5

(* What cancelling a command leaves. *)
LEMMA CancelledFile ==
    ASSUME TInv, KInv, NEW s \in Shell, EditEnd(s), ~ broken'
    PROVE  LET g == Append(data[1], Undo)
           IN  /\ data'[1] = g /\ g \in Seq(Cell) /\ Len(g) = Len(data[1]) + 1
               /\ Tidy(g) /\ Kept(g, log') /\ ~ ReadOf(g, Len(g)).in
               /\ Len(ReadOf(g, Len(g)).list) = Len(ReadOf(data[1], Len(data[1])).list) - 1
               /\ Numbered(data[1]) => Numbered(g)
<1> DEFINE f == data[1]
           g == Append(f, Undo)
<1>1. /\ sh[s].pc = "edit" /\ sh[s].own = 0 /\ data'[1] = g
      /\ log' = (IF log = <<>> THEN log ELSE Front(log))
  <2>1. Cancels(s)
    BY EditEndIs
  <2>2. QED
    BY <2>1 DEF Cancels
<1>2. ~ broken /\ ~ TornByOther(s) /\ log # <<>>
  BY DEF EditEnd
<1>3. Tidy(f) /\ Kept(f, log)
  BY <1>2 DEF KInv
<1>4. ~ ReadOf(f, Len(f)).in
  BY <1>1, <1>2, NotTorn
<1>5. f \in Seq(Cell) /\ log \in Seq(Cmd)
  BY Numbers DEF TInv
<1>6. log' = Front(log)
  BY <1>1, <1>2
<1>7. g \in Seq(Cell) /\ Len(g) = Len(f) + 1
  BY <1>5, CellsMade, Longer1
<1> HIDE DEF f
<1>8. /\ Tidy(g) /\ Kept(g, Front(log)) /\ ~ ReadOf(g, Len(g)).in
      /\ Len(ReadOf(g, Len(g)).list) = Len(ReadOf(f, Len(f)).list) - 1
      /\ Numbered(f) => Numbered(g)
  BY <1>2, <1>3, <1>4, <1>5, CancelRead
<1>9. QED
  BY <1>1, <1>6, <1>7, <1>8 DEF f

LEMMA KInvEditEnd ==
    ASSUME TInv, TInv', KInv, NEW s \in Shell, EditEnd(s)
    PROVE  KInv'
<1> SUFFICES ASSUME ~ broken'
             PROVE  Tidy(data'[1]) /\ Kept(data'[1], log') /\ \A t \in Shell : OwnOK(sh'[t], data'[1])
  BY DEF KInv
<1>1. Tidy(data'[1]) /\ Kept(data'[1], log') /\ Len(data'[1]) = Len(data[1]) + 1
  BY CancelledFile
<1>2. PICK k \in Hist : sh' = [sh EXCEPT ![s] = k] /\ k.own = 0
  <2>1. Cancels(s)
    BY EditEndIs
  <2>2. QED
    BY <2>1 DEF Cancels
<1>3. OwnOK(k, data'[1]) /\ Len(data'[1]) > Len(data[1])
  <2>1. Len(data[1]) \in Nat
    BY ShellFacts
  <2>2. QED
    BY <1>1, <1>2, <2>1 DEF OwnOK
<1>4. \A t \in Shell : OwnOK(sh'[t], data'[1])
  BY <1>2, <1>3, OwnAll
<1>5. QED
  BY <1>1, <1>4

LEMMA RepairedFile ==
    ASSUME TInv, KInv, NEW s \in Shell, Repair(s), ~ broken'
    PROVE  LET g == Append(Append(data[1], Zero), Undo)
           IN  /\ data'[1] = g /\ g \in Seq(Cell) /\ Len(g) = Len(data[1]) + 2
               /\ Tidy(g) /\ Kept(g, log) /\ ~ ReadOf(g, Len(g)).in
               /\ Numbered(data[1]) => Numbered(g)
<1> DEFINE f == data[1]
           e == Append(f, Zero)
           g == Append(e, Undo)
<1>1. sh[s].pc = "repair" /\ data'[1] = g /\ g \in Seq(Cell)
  <2>1. Repairs(s)
    BY RepairIs
  <2>2. QED
    BY <2>1 DEF Repairs
<1>2. ~ broken /\ Len(File(s)) = sh[s].cnt
  BY DEF Repair
<1>3. Tidy(f) /\ Kept(f, log)
  BY <1>2 DEF KInv
<1>4. f \in Seq(Cell) /\ log \in Seq(Cmd) /\ File(s) = f /\ ShellOK(sh[s], f)
  BY <1>1, ShellFacts DEF TInv
<1>5. Len(f) >= 1 /\ f[Len(f)].t = "head"
  BY <1>1, <1>2, <1>4 DEF ShellOK
<1>6. Len(g) = Len(f) + 2
  <2>1. e \in Seq(Cell) /\ Len(e) = Len(f) + 1 /\ Len(f) \in Nat
    BY <1>4, CellsMade, Longer1, FileFacts
  <2> HIDE DEF e
  <2>2. Len(g) = Len(e) + 1
    BY <2>1, CellsMade, Longer1
  <2>3. QED
    BY <2>1, <2>2
<1> HIDE DEF f
<1>7. Tidy(g) /\ Kept(g, log) /\ ~ ReadOf(g, Len(g)).in /\ (Numbered(f) => Numbered(g))
  BY <1>3, <1>4, <1>5, RepairRead
<1>8. QED
  BY <1>1, <1>6, <1>7 DEF f

LEMMA KInvRepair ==
    ASSUME TInv, TInv', KInv, NEW s \in Shell, Repair(s)
    PROVE  KInv'
<1> SUFFICES ASSUME ~ broken'
             PROVE  Tidy(data'[1]) /\ Kept(data'[1], log') /\ \A t \in Shell : OwnOK(sh'[t], data'[1])
  BY DEF KInv
<1>1. Tidy(data'[1]) /\ Kept(data'[1], log) /\ Len(data'[1]) = Len(data[1]) + 2
  BY RepairedFile
<1>2. PICK k \in Hist : sh' = [sh EXCEPT ![s] = k] /\ k.own = 0
  <2>1. Repairs(s)
    BY RepairIs
  <2>2. QED
    BY <2>1 DEF Repairs
<1>3. OwnOK(k, data'[1]) /\ Len(data'[1]) > Len(data[1]) /\ log' = log
  <2>1. Len(data[1]) \in Nat
    BY ShellFacts
  <2>2. QED
    BY <1>1, <1>2, <2>1 DEF OwnOK, Repair
<1>4. \A t \in Shell : OwnOK(sh'[t], data'[1])
  BY <1>2, <1>3, OwnAll
<1>5. QED
  BY <1>1, <1>3, <1>4

LEMMA KInvNext ==
    ASSUME NoTrim, TInv, TInv', KInv, [Next]_vars
    PROVE  KInv'
<1>1. CASE UNCHANGED vars
  BY <1>1 DEF vars, KInv
<1>2. CASE Next
  <2>1. PICK s \in Shell : Quiet(s) \/ Overflow(s) \/ Flush(s) \/ EditEnd(s) \/ Repair(s)
    BY <1>2, StepKinds
  <2>2. CASE Quiet(s)
    <3> SUFFICES ASSUME ~ broken'
                 PROVE  Tidy(data[1]) /\ Kept(data[1], log) /\ \A t \in Shell : OwnOK(sh'[t], data[1])
      BY <2>2 DEF KInv, Quiet
    <3>1. PICK k \in Hist : sh' = [sh EXCEPT ![s] = k] /\ k.own = 0
      BY <2>2 DEF Quiet
    <3>2. ~ broken
      BY <2>2 DEF Quiet
    <3>3. Tidy(data[1]) /\ Kept(data[1], log) /\ \A t \in Shell : OwnOK(sh[t], data[1])
      BY <3>2 DEF KInv
    <3>4. ASSUME NEW t \in Shell
          PROVE  OwnOK(sh'[t], data[1])
      <4>1. CASE t = s
        <5>1. sh'[t] = k
          BY <3>1, <4>1 DEF TInv
        <5>2. QED
          BY <3>1, <5>1 DEF OwnOK
      <4>2. CASE t # s
        <5>1. sh'[t] = sh[t]
          BY <3>1, <4>2 DEF TInv
        <5>2. QED
          BY <3>3, <5>1
      <4>3. QED
        BY <4>1, <4>2
    <3>5. QED
      BY <3>3, <3>4
  <2>3. CASE Overflow(s)
    BY <2>3, KInvOverflow
  <2>4. CASE Flush(s)
    BY <2>4, KInvFlush
  <2>5. CASE EditEnd(s)
    BY <2>5, KInvEditEnd
  <2>6. CASE Repair(s)
    BY <2>6, KInvRepair
  <2>7. QED
    BY <2>1, <2>2, <2>3, <2>4, <2>5, <2>6
<1>3. QED
  BY <1>1, <1>2

LEMMA InitKInv == Init => KInv
<1> SUFFICES ASSUME Init
             PROVE  Tidy(data[1]) /\ Kept(data[1], log) /\ \A s \in Shell : OwnOK(sh[s], data[1])
  BY DEF KInv
<1>1. data[1] = <<>> /\ data[1] \in Seq(Cell) /\ Len(data[1]) = 0 /\ log = <<>> /\ Len(log) = 0
  BY Numbers DEF Init
<1>2. ReadOf(data[1], Len(data[1])).list = <<>>
  BY <1>1, LastRead
<1>3. Tidy(data[1]) /\ Kept(data[1], log)
  BY <1>1, <1>2 DEF Tidy, Kept
<1>4. \A s \in Shell : OwnOK(sh[s], data[1])
  BY DEF Init, Closed, OwnOK
<1>5. QED
  BY <1>3, <1>4

(* A shell that starts finds the lines that were flushed and not taken back, whole and
   in their order, whatever shells were killed in between. *)
LEMMA TextIs ==
    ASSUME NEW f \in Seq(Cell), NEW p \in Nat, NEW c \in Cmd,
           p + 2 <= Len(f), f[p + 1] = Head1(c), f[p + 2] = Tail1(c)
    PROVE  Text(f, p) = <<Head1(c), Tail1(c)>>
<1> DEFINE ends == {i \in p + 1..Len(f) : EndsText(f[i])}
<1>1. Len(f) \in Nat /\ p + 2 \in p + 1..Len(f) /\ p + 1 \in p + 1..Len(f)
  BY FileFacts
<1>2. EndsText(f[p + 2]) /\ ~ EndsText(f[p + 1])
  BY DEF EndsText, Head1, Tail1
<1>3. p + 2 \in ends /\ p + 1 \notin ends /\ ends \in SUBSET Nat /\ \A i \in ends : i >= p + 1
  BY <1>1, <1>2
<1>4. Text(f, p) = SubSeq(f, p + 1, IF ends = {} THEN Len(f) ELSE MinOf(ends))
  BY DEF Text
<1> HIDE DEF ends
<1>5. ends # {} /\ MinOf(ends) \in ends /\ \A i \in ends : MinOf(ends) <= i
  BY <1>3, MinOfIs
<1>6. MinOf(ends) = p + 2
  <2>1. PICK m \in Nat : m = MinOf(ends)
    BY <1>3, <1>5
  <2>2. m \in ends /\ m <= p + 2 /\ m >= p + 1
    BY <1>3, <1>5, <2>1
  <2>3. m # p + 1
    BY <1>3, <2>2
  <2>4. QED
    BY <2>1, <2>2, <2>3
<1>7. Text(f, p) = SubSeq(f, p + 1, p + 2)
  BY <1>4, <1>5, <1>6
<1> DEFINE q == SubSeq(f, p + 1, p + 2)
           r == <<Head1(c), Tail1(c)>>
<1>8. q \in Seq(Cell) /\ Len(q) = 2 /\ q[1] = f[p + 1] /\ q[2] = f[p + 2]
  <2>1. \A i \in p + 1..p + 2 : f[i] \in Cell
    BY <1>1, FileFacts
  <2> DEFINE a == p + 1
             b == p + 2
  <2>2. /\ a \in Int /\ b \in Int /\ (IF a <= b THEN b - a + 1 ELSE 0) = 2
        /\ 1 \in 1..b - a + 1 /\ 2 \in 1..b - a + 1 /\ a + 1 - 1 = p + 1 /\ a + 2 - 1 = p + 2
    OBVIOUS
  <2>3. \A i \in a..b : f[i] \in Cell
    BY <2>1
  <2> HIDE DEF a, b
  <2>4. /\ SubSeq(f, a, b) \in Seq(Cell) /\ Len(SubSeq(f, a, b)) = 2
        /\ \A i \in 1..b - a + 1 : SubSeq(f, a, b)[i] = f[a + i - 1]
    BY <2>2, <2>3, SubSeqProperties
  <2>5. SubSeq(f, a, b)[1] = f[p + 1] /\ SubSeq(f, a, b)[2] = f[p + 2]
    BY <2>2, <2>4
  <2>6. QED
    BY <2>4, <2>5 DEF a, b
<1>9. r \in Seq(Cell) /\ Len(r) = 2 /\ r[1] = Head1(c) /\ r[2] = Tail1(c)
  BY CellsMade
<1> HIDE DEF q, r
<1>10. \A i \in 1..2 : i = 1 \/ i = 2
  OBVIOUS
<1>11. q = r
  BY <1>8, <1>9, <1>10, SeqEqual
<1>12. QED
  BY <1>7, <1>11 DEF q, r

LEMMA KeptShown ==
    ASSUME TInv, KInv
    PROVE  LinesKept
<1> SUFFICES ASSUME path # 0, ~ broken
             PROVE  LET f == data[path]
                        list == Commands(f)
                    IN  [i \in DOMAIN list |-> Text(f, list[i])]
                            = [i \in DOMAIN log |-> <<Head1(log[i]), Tail1(log[i])>>]
  BY DEF LinesKept
<1> DEFINE f == data[1]
           list == ReadOf(f, Len(f)).list
<1>1. path = 1 /\ f \in Seq(Cell) /\ log \in Seq(Cmd) /\ Len(log) \in Nat
  BY Numbers DEF TInv
<1>2. Commands(f) = list /\ list \in Seq(Nat)
  BY <1>1, ReadSteps, LastRead DEF Commands
<1>3. /\ Len(list) = Len(log)
      /\ \A k \in 1..Len(log) : /\ list[k] + 2 <= Len(f)
                                /\ f[list[k] + 1] = Head1(log[k])
                                /\ f[list[k] + 2] = Tail1(log[k])
  BY DEF KInv, Kept
<1> HIDE DEF f, list
<1>4. DOMAIN list = 1..Len(log) /\ DOMAIN log = 1..Len(log)
  BY <1>1, <1>2, <1>3
<1>5. \A k \in 1..Len(log) : Text(f, list[k]) = <<Head1(log[k]), Tail1(log[k])>>
  <2> SUFFICES ASSUME NEW k \in 1..Len(log)
               PROVE  Text(f, list[k]) = <<Head1(log[k]), Tail1(log[k])>>
    OBVIOUS
  <2>1. list[k] \in Nat /\ log[k] \in Cmd
    <3>1. \A q \in Seq(Nat) : k \in 1..Len(q) => q[k] \in Nat
      OBVIOUS
    <3>2. list[k] \in Nat
      BY <1>2, <1>3, <3>1
    <3>3. QED
      BY <1>1, <3>2
  <2>2. QED
    BY <1>1, <1>3, <2>1, TextIs
<1>6. [i \in DOMAIN list |-> Text(f, list[i])]
          = [i \in DOMAIN log |-> <<Head1(log[i]), Tail1(log[i])>>]
  BY <1>4, <1>5
<1>7. data[path] = f /\ Commands(data[path]) = list
  BY <1>1, <1>2 DEF f
<1>8. QED
  BY <1>6, <1>7, Zenon

LEMMA KInvAlways == ASSUME NoTrim PROVE Spec => []KInv
<1>1. TInv /\ TInv' /\ KInv /\ [Next]_vars => KInv'
  BY KInvNext
<1>2. QED
  BY <1>1, InitKInv, TInvAlways, PTL DEF Spec

(* A shell that starts finds the lines that were flushed and not taken back, whole and
   in their order, whatever shells were killed in between. *)
THEOREM LinesAreKept == ASSUME NoTrim PROVE Spec => []LinesKept
BY KeptShown, TInvAlways, KInvAlways, PTL

--------------------------------------------------------------------------------
(* Command numbers. *)

(* A marker never has a number that it cannot store: hist_cmdno is decoded wrongly when
   the last digit is zero. *)
FewLines == MaxCmd + 1 < Radix

RInv == ~ raced /\ ~ broken => Numbered(data[1]) /\ \A s \in Shell : RankOK(sh[s], data[1])

LEMMA RankLonger ==
    ASSUME NEW f \in Seq(Cell), NEW g \in Seq(Cell), Longer(f, g), NEW h \in Hist, ShellOK(h, f),
           RankOK(h, f)
    PROVE  RankOK(h, g)
<1>1. Len(f) \in Nat /\ h.cnt \in Nat /\ h.own \in Nat
  BY FileFacts, HistFields
<1>2. h.pc # "off" => h.cnt \in 0..Len(f)
  BY <1>1 DEF ShellOK
<1>3. h.pc # "off" => ReadOf(g, h.cnt) = ReadOf(f, h.cnt)
  BY <1>2, ReadLonger
<1>4. QED
  BY <1>3 DEF RankOK, Rank

LEMMA RankAll ==
    ASSUME TInv, TInv', NEW s \in Shell, NEW k, sh' = [sh EXCEPT ![s] = k],
           RankOK(k, data'[1]), Longer(data[1], data'[1]), \A t \in Shell : RankOK(sh[t], data[1])
    PROVE  \A t \in Shell : RankOK(sh'[t], data'[1])
<1> SUFFICES ASSUME NEW t \in Shell
             PROVE  RankOK(sh'[t], data'[1])
  OBVIOUS
<1>1. data[1] \in Seq(Cell) /\ data'[1] \in Seq(Cell)
  BY Numbers DEF TInv
<1>2. CASE t = s
  BY <1>2 DEF TInv
<1>3. CASE t # s
  <2>1. sh'[t] = sh[t] /\ sh[t] \in Hist /\ ShellOK(sh[t], data[1]) /\ RankOK(sh[t], data[1])
    BY <1>3 DEF TInv
  <2>2. RankOK(sh[t], data'[1])
    BY <1>1, <2>1, RankLonger
  <2>3. QED
    BY <2>1, <2>2
<1>4. QED
  BY <1>2, <1>3

(* A shell at the end of its file. *)
LEMMA RankEnd ==
    ASSUME NEW f \in Seq(Cell), NEW k, k.pc # "off", k.cnt = Len(f), ~ ReadOf(f, Len(f)).in,
           k.ind = Len(ReadOf(f, Len(f)).list) + 1
    PROVE  RankOK(k, f)
BY DEF RankOK, Rank

LEMMA RInvOverflow ==
    ASSUME TInv, TInv', RInv, NEW s \in Shell, Overflow(s)
    PROVE  RInv'
<1> DEFINE f == data[1]
           h == sh[s]
           c == Head1(h.cmd)
           g == Append(f, c)
           k == [h EXCEPT !.own = 1]
<1>1. /\ h.pc = "parse" /\ h.own = 0 /\ h.cmd \in Cmd /\ k \in Hist
      /\ data' \in [Inode -> Seq(Cell)] /\ data'[1] = g /\ recent' = TRUE
      /\ sh' = [sh EXCEPT ![s] = k]
  BY OverflowIs, Zenon DEF Overflows
<1>2. (broken => broken') /\ (raced => raced')
  BY DEF Overflow
<1> SUFFICES ASSUME ~ raced', ~ broken'
             PROVE  Numbered(g) /\ \A t \in Shell : RankOK(sh'[t], g)
  BY <1>1 DEF RInv
<1>3. Numbered(f) /\ \A t \in Shell : RankOK(sh[t], f)
  BY <1>2 DEF RInv
<1>4. f \in Seq(Cell) /\ h \in Hist /\ ShellOK(h, f)
  BY ShellFacts
<1>5. c \in Cell /\ c.t = "head"
  BY <1>1, CellsMade DEF Head1
<1>6. RankOK(k, f)
  <2>1. k.pc = h.pc /\ k.ind = h.ind /\ k.cnt = h.cnt
    BY <1>4 DEF Hist
  <2> HIDE DEF k
  <2>2. QED
    BY <1>3, <2>1 DEF RankOK
<1>7. k.pc = h.pc /\ k.cnt = h.cnt /\ k.own = 1 /\ h.cnt \in Nat
  BY <1>4 DEF Hist
<1> HIDE DEF c, k, h
<1>8. g \in Seq(Cell) /\ Longer(f, g) /\ Numbered(g)
  BY <1>3, <1>4, <1>5, Longer1, NumberedAppend
<1>9. RankOK(k, g)
  <2>1. h.cnt \in 0..Len(f)
    BY <1>1, <1>4, <1>7, FileFacts DEF ShellOK
  <2>2. ReadOf(g, k.cnt) = ReadOf(f, k.cnt)
    BY <1>4, <1>7, <1>8, <2>1, ReadLonger
  <2>3. QED
    BY <1>6, <2>2 DEF RankOK, Rank
<1> HIDE DEF g
<1>10. Longer(data[1], data'[1]) /\ RankOK(k, data'[1]) /\ \A t \in Shell : RankOK(sh[t], data[1])
  BY <1>1, <1>3, <1>8, <1>9
<1>11. \A t \in Shell : RankOK(sh'[t], g)
  BY <1>1, <1>10, RankAll
<1>12. QED
  BY <1>8, <1>11

LEMMA LongerData ==
    ASSUME TInv, NEW s \in Shell, Flush(s) \/ EditEnd(s) \/ Repair(s)
    PROVE  Longer(data[1], data'[1])
<1> DEFINE f == data[1]
           h == sh[s]
<1>1. f \in Seq(Cell) /\ h \in Hist /\ h.ind \in Int
  BY ShellFacts, HistFields
<1>2. CASE Flush(s)
  <2>1. Flushes(s)
    BY <1>2, FlushIs
  <2>2. h.cmd \in Cmd /\ (data'[1] = Lined(f, h) \/ data'[1] = Append(Lined(f, h), Mark(h.ind + 1)))
    BY <2>1 DEF Flushes
  <2>3. Mark(h.ind + 1) \in Cell
    BY <1>1, CellsMade
  <2> DEFINE l == Lined(f, h)
             m == Mark(h.ind + 1)
  <2>4. l \in Seq(Cell) /\ Longer(f, l)
    BY <1>1, <2>2, LinedIs
  <2>5. data'[1] = l \/ data'[1] = Append(l, m)
    BY <2>2
  <2> HIDE DEF f, h, l, m
  <2>6. Append(l, m) \in Seq(Cell) /\ Longer(l, Append(l, m))
    BY <2>3, <2>4, Longer1 DEF m
  <2>7. Longer(f, Append(l, m))
    BY <1>1, <2>4, <2>6, LongerTwice
  <2>8. Longer(f, data'[1])
    BY <2>4, <2>5, <2>7
  <2>9. QED
    BY <2>8 DEF f
<1>3. CASE EditEnd(s)
  <2>1. Cancels(s)
    BY <1>3, EditEndIs
  <2>2. data'[1] = Append(data[1], Undo)
    BY <2>1 DEF Cancels
  <2>3. QED
    BY <1>1, <2>2, CellsMade, Longer1
<1>4. CASE Repair(s)
  <2>1. Repairs(s)
    BY <1>4, RepairIs
  <2> DEFINE e == Append(f, Zero)
  <2>2. data'[1] = Append(e, Undo)
    BY <2>1 DEF Repairs
  <2>3. e \in Seq(Cell) /\ Longer(f, e)
    BY <1>1, CellsMade, Longer1
  <2> HIDE DEF e, f
  <2>4. Append(e, Undo) \in Seq(Cell) /\ Longer(e, Append(e, Undo))
    BY <2>3, CellsMade, Longer1
  <2>5. Longer(f, Append(e, Undo))
    BY <1>1, <2>3, <2>4, LongerTwice
  <2>6. QED
    BY <2>2, <2>5 DEF f
<1>5. QED
  BY <1>2, <1>3, <1>4

LEMMA RInvFlush ==
    ASSUME FewLines, TInv, TInv', FInv', KInv, RInv, NEW s \in Shell, Flush(s)
    PROVE  RInv'
<1> DEFINE f == data[1]
           h == sh[s]
           g == data'[1]
           list == ReadOf(f, Len(f)).list
<1> SUFFICES ASSUME ~ raced', ~ broken'
             PROVE  Numbered(g) /\ \A t \in Shell : RankOK(sh'[t], g)
  BY DEF RInv
<1>1. (broken => broken') /\ UpToDate(s) /\ ~ raced
  BY DEF Flush
<1>2. Numbered(f) /\ \A t \in Shell : RankOK(sh[t], f)
  BY <1>1 DEF RInv
<1>3. /\ Tidy(g) /\ Kept(g, Append(log, h.cmd)) /\ ~ ReadOf(g, Len(g)).in /\ Len(g) > Len(f)
      /\ Len(ReadOf(g, Len(g)).list) = Len(list) + 1
      /\ Numbered(f) /\ h.ind = Len(list) + 1 /\ h.ind + 1 < Radix => Numbered(g)
  BY FlushedFile, Zenon
<1>4. /\ h.pc = "parse"
      /\ \E k \in Hist : /\ sh' = [sh EXCEPT ![s] = k] /\ k.pc = "exec"
                         /\ k.ind = h.ind + 1 /\ k.cnt = Len(g)
  <2>1. Flushes(s)
    BY FlushIs
  <2>2. QED
    BY <2>1 DEF Flushes
<1>5. /\ f \in Seq(Cell) /\ g \in Seq(Cell) /\ h \in Hist /\ ShellOK(h, f) /\ h.cnt \in Nat
      /\ h.own \in {0, 1} /\ Len(f) \in Nat /\ File(s) = f /\ h.ind \in Int /\ list \in Seq(Nat)
  BY <1>4, ShellFacts, HistFields, LastRead, Numbers DEF TInv
<1>6. Len(f) = h.cnt + h.own
  BY <1>1, <1>5 DEF UpToDate
<1>7. h.ind = Len(list) + 1
  <2>1. h.ind = Len(ReadOf(f, h.cnt).list) + 1
    BY <1>2, <1>4 DEF RankOK, Rank
  <2>2. ReadOf(f, h.cnt).list = list
    <3>1. CASE h.own = 0
      <4>1. h.cnt = Len(f)
        BY <1>5, <1>6, <3>1
      <4>2. QED
        BY <4>1
    <3>2. CASE h.own = 1
      <4>1. /\ Len(f) \in 1..Len(f) /\ h.cnt = Len(f) - 1 /\ h.cnt \in 0..Len(f) /\ Len(f) = h.cnt + 1
            /\ Len(f) \in Nat \ {0}
        BY <1>5, <1>6, <3>2
      <4>2. f[Len(f)] = Head1(h.cmd)
        <5>1. OwnOK(h, f)
          BY <1>1 DEF KInv
        <5>2. QED
          BY <3>2, <4>1, <5>1 DEF OwnOK
      <4>3. f[Len(f)].t = "head" /\ f[Len(f)] \in Cell
        BY <1>5, <4>1, <4>2, FileFacts DEF Head1
      <4>4. ReadOf(f, Len(f)) = ReadCell(ReadOf(f, Len(f) - 1), f[Len(f)], Len(f))
        BY <1>5, <4>1, ReadSteps
      <4>5. ReadOf(f, h.cnt) \in Reading
        BY <1>5, <4>1, ReadTyped
      <4> HIDE DEF f, h
      <4>6. PICK n : n = Len(f)
        OBVIOUS
      <4>7. ReadCell(ReadOf(f, h.cnt), f[n], n).list = ReadOf(f, h.cnt).list
        BY <4>1, <4>3, <4>5, <4>6, ReadCellList
      <4>8. QED
        BY <4>1, <4>4, <4>6, <4>7 DEF list
    <3>3. QED
      BY <1>5, <3>1, <3>2
  <2>3. QED
    BY <2>1, <2>2
<1>8. h.ind + 1 < Radix
  <2>1. Len(log') \in Nat /\ Len(log') <= MaxCmd
    <3>1. log' \in Seq(Cmd) /\ Fresh(log', next')
      BY DEF TInv, FInv
    <3>2. QED
      BY <3>1, LogBound
  <2>2. Len(ReadOf(g, Len(g)).list) = Len(log')
    BY <1>3 DEF Kept, Flush
  <2>3. QED
    BY <1>3, <1>5, <1>7, <2>1, <2>2, Numbers DEF FewLines
<1>9. Numbered(g)
  BY <1>2, <1>3, <1>7, <1>8
<1>10. PICK k \in Hist : /\ sh' = [sh EXCEPT ![s] = k] /\ k.pc = "exec"
                         /\ k.ind = h.ind + 1 /\ k.cnt = Len(g)
  BY <1>4
<1>11. k.ind = Len(ReadOf(g, Len(g)).list) + 1 /\ k.pc # "off"
  BY <1>3, <1>7, <1>10
<1>12. RankOK(k, g)
  <2> HIDE DEF g
  <2>1. QED
    BY <1>3, <1>5, <1>10, <1>11, RankEnd
<1>13. Longer(data[1], data'[1])
  BY LongerData
<1>14. \A t \in Shell : RankOK(sh'[t], g)
  BY <1>2, <1>10, <1>12, <1>13, RankAll
<1>15. QED
  BY <1>9, <1>14

LEMMA RInvEditEnd ==
    ASSUME TInv, TInv', KInv, RInv, NEW s \in Shell, EditEnd(s)
    PROVE  RInv'
<1> DEFINE f == data[1]
           h == sh[s]
           g == data'[1]
           list == ReadOf(f, Len(f)).list
<1> SUFFICES ASSUME ~ raced', ~ broken'
             PROVE  Numbered(g) /\ \A t \in Shell : RankOK(sh'[t], g)
  BY DEF RInv
<1>1. (broken => broken') /\ UpToDate(s) /\ ~ raced
  BY DEF EditEnd
<1>2. Numbered(f) /\ \A t \in Shell : RankOK(sh[t], f)
  BY <1>1 DEF RInv
<1>3. /\ Len(g) = Len(f) + 1 /\ ~ ReadOf(g, Len(g)).in
      /\ Len(ReadOf(g, Len(g)).list) = Len(list) - 1
      /\ Numbered(g)
  <2>1. /\ data'[1] = Append(f, Undo) /\ Len(Append(f, Undo)) = Len(f) + 1
        /\ ~ ReadOf(Append(f, Undo), Len(Append(f, Undo))).in
        /\ Len(ReadOf(Append(f, Undo), Len(Append(f, Undo))).list) = Len(list) - 1
        /\ Numbered(f) => Numbered(Append(f, Undo))
    BY CancelledFile, Zenon
  <2>2. QED
    BY <1>2, <2>1
<1>4. /\ h.pc = "edit" /\ h.own = 0
      /\ \E k \in Hist : /\ sh' = [sh EXCEPT ![s] = k] /\ k.pc # "off"
                         /\ k.ind = h.ind - 1 /\ k.cnt = h.cnt + 1
  <2>1. Cancels(s)
    BY EditEndIs
  <2>2. QED
    BY <2>1 DEF Cancels
<1>5. /\ f \in Seq(Cell) /\ g \in Seq(Cell) /\ h \in Hist /\ h.cnt \in Nat
      /\ Len(f) \in Nat /\ File(s) = f /\ h.ind \in Int /\ list \in Seq(Nat)
  BY <1>4, ShellFacts, HistFields, LastRead, Numbers DEF TInv
<1>6. h.cnt = Len(f)
  BY <1>1, <1>4, <1>5 DEF UpToDate
<1>7. h.ind = Len(list) + 1
  BY <1>2, <1>4, <1>6 DEF RankOK, Rank
<1>8. PICK k \in Hist : /\ sh' = [sh EXCEPT ![s] = k] /\ k.pc # "off"
                        /\ k.ind = h.ind - 1 /\ k.cnt = h.cnt + 1
  BY <1>4
<1>9. k.ind = Len(ReadOf(g, Len(g)).list) + 1 /\ k.cnt = Len(g)
  BY <1>3, <1>5, <1>6, <1>7, <1>8
<1>10. RankOK(k, g)
  <2> HIDE DEF g
  <2>1. QED
    BY <1>3, <1>5, <1>8, <1>9, RankEnd
<1>11. Longer(data[1], data'[1])
  BY LongerData
<1>12. \A t \in Shell : RankOK(sh'[t], g)
  BY <1>2, <1>8, <1>10, <1>11, RankAll
<1>13. QED
  BY <1>3, <1>12

LEMMA RInvRepair ==
    ASSUME TInv, TInv', KInv, RInv, NEW s \in Shell, Repair(s)
    PROVE  RInv'
<1> DEFINE f == data[1]
           h == sh[s]
           g == data'[1]
<1> SUFFICES ASSUME ~ raced', ~ broken'
             PROVE  Numbered(g) /\ \A t \in Shell : RankOK(sh'[t], g)
  BY DEF RInv
<1>1. (broken => broken') /\ raced' = raced
  BY DEF Repair
<1>2. Numbered(f) /\ \A t \in Shell : RankOK(sh[t], f)
  BY <1>1 DEF RInv
<1>3. ~ ReadOf(g, Len(g)).in /\ Tidy(g) /\ Numbered(g)
  BY <1>2, RepairedFile
<1>4. /\ h.pc = "repair"
      /\ \E k \in Hist : /\ sh' = [sh EXCEPT ![s] = k] /\ k.pc = h.ret /\ k.cnt = Len(g)
                         /\ Tidy(g) /\ Numbered(g) => k.ind = Rank(g, Len(g))
  <2>1. Repairs(s)
    BY RepairIs
  <2>2. QED
    BY <2>1 DEF Repairs
<1>5. g \in Seq(Cell) /\ h.ret \in {"open", "clean", "prompt", "parse", "edit"}
  BY ShellFacts, HistFields, Numbers DEF TInv
<1>6. PICK k \in Hist : /\ sh' = [sh EXCEPT ![s] = k] /\ k.pc = h.ret /\ k.cnt = Len(g)
                        /\ k.ind = Rank(g, Len(g))
  BY <1>3, <1>4
<1>7. RankOK(k, g)
  <2>1. k.pc # "off"
    BY <1>5, <1>6
  <2>2. k.ind = Len(ReadOf(g, Len(g)).list) + 1
    BY <1>6 DEF Rank
  <2> HIDE DEF g
  <2>3. QED
    BY <1>3, <1>5, <1>6, <2>1, <2>2, RankEnd
<1>8. Longer(data[1], data'[1])
  BY LongerData
<1>9. \A t \in Shell : RankOK(sh'[t], g)
  BY <1>2, <1>6, <1>7, <1>8, RankAll
<1>10. QED
  BY <1>3, <1>9

LEMMA RInvNext ==
    ASSUME NoTrim, FewLines, TInv, TInv', FInv', KInv, RInv, [Next]_vars
    PROVE  RInv'
<1>1. CASE UNCHANGED vars
  BY <1>1 DEF vars, RInv
<1>2. CASE Next
  <2>1. PICK s \in Shell : Quiet(s) \/ Overflow(s) \/ Flush(s) \/ EditEnd(s) \/ Repair(s)
    BY <1>2, StepKinds
  <2>2. CASE Quiet(s)
    <3> SUFFICES ASSUME ~ raced', ~ broken'
                 PROVE  Numbered(data[1]) /\ \A t \in Shell : RankOK(sh'[t], data'[1])
      BY <2>2 DEF RInv, Quiet
    <3>1. ~ broken /\ ~ raced /\ data' = data
      BY <2>2 DEF Quiet
    <3>2. Tidy(data[1]) /\ Numbered(data[1]) /\ \A t \in Shell : RankOK(sh[t], data[1])
      BY <3>1 DEF KInv, RInv
    <3>3. PICK k \in Hist : sh' = [sh EXCEPT ![s] = k] /\ RankOK(k, data[1])
      BY <2>2, <3>2 DEF Quiet
    <3>4. Longer(data[1], data'[1]) /\ RankOK(k, data'[1])
      BY <3>1, <3>3, ShellFacts, LongerSelf
    <3>5. QED
      BY <3>2, <3>3, <3>4, RankAll
  <2>3. CASE Overflow(s)
    BY <2>3, RInvOverflow
  <2>4. CASE Flush(s)
    BY <2>4, RInvFlush
  <2>5. CASE EditEnd(s)
    BY <2>5, RInvEditEnd
  <2>6. CASE Repair(s)
    BY <2>6, RInvRepair
  <2>7. QED
    BY <2>1, <2>2, <2>3, <2>4, <2>5, <2>6
<1>3. QED
  BY <1>1, <1>2

LEMMA InitRInv == Init => RInv
<1> SUFFICES ASSUME Init
             PROVE  Numbered(data[1]) /\ \A s \in Shell : RankOK(sh[s], data[1])
  BY DEF RInv
<1>1. data[1] = <<>> /\ Len(data[1]) = 0
  BY Numbers DEF Init
<1>2. Numbered(data[1])
  BY <1>1 DEF Numbered
<1>3. \A s \in Shell : RankOK(sh[s], data[1])
  BY DEF Init, Closed, RankOK
<1>4. QED
  BY <1>2, <1>3

LEMMA RInvAlways == ASSUME NoTrim, FewLines PROVE Spec => []RInv
<1>1. FInv /\ TInv /\ [Next]_vars => FInv'
  BY FInvNext
<1>2. Spec => []FInv
  BY <1>1, InitFInv, TInvAlways, PTL DEF Spec
<1>3. TInv /\ TInv' /\ FInv' /\ KInv /\ RInv /\ [Next]_vars => RInv'
  BY RInvNext
<1>4. QED
  BY <1>2, <1>3, InitRInv, TInvAlways, KInvAlways, PTL DEF Spec

(* Records in core and in the file are well formed, and command numbers are positive
   unless shells wrote over each other's records. *)
THEOREM HistoryTypes == ASSUME NoTrim, FewLines PROVE Spec => []TypeOK
<1>1. TInv /\ RInv => TypeOK
  <2> SUFFICES ASSUME TInv, RInv
               PROVE  TypeOK
    OBVIOUS
  <2>1. path \in Inode \cup {0}
    BY Numbers DEF TInv
  <2>2. ASSUME ~ raced, ~ broken, NEW s \in Shell
        PROVE  sh[s].ind > 0
    <3>1. RankOK(sh[s], data[1])
      BY <2>2 DEF RInv
    <3>2. CASE sh[s].pc = "off"
      BY <3>1, <3>2 DEF RankOK
    <3>3. CASE sh[s].pc # "off"
      <4>1. sh[s].cnt \in 0..Len(data[1]) /\ data[1] \in Seq(Cell)
        BY <3>3, ShellFacts
      <4>2. Rank(data[1], sh[s].cnt) \in Nat /\ Rank(data[1], sh[s].cnt) >= 1
        BY <4>1, RankType
      <4>3. QED
        BY <3>1, <3>3, <4>2 DEF RankOK
    <3>4. QED
      BY <3>2, <3>3
  <2>3. QED
    BY <2>1, <2>2 DEF TInv, TypeOK
<1>2. QED
  BY <1>1, TInvAlways, RInvAlways, PTL

(* As long as no shell wrote behind something that it had not read, and none appended a
   record where it means something else, the next number of every shell is one more than
   the commands in the part of the file it has read: where hist_nearend began to read and
   which markers hist_eof passed makes no difference. *)
THEOREM RanksAreNumbers == ASSUME NoTrim, FewLines PROVE Spec => []NumbersAreRanks
<1>1. TInv /\ RInv => NumbersAreRanks
  <2> SUFFICES ASSUME TInv, RInv, ~ raced, ~ broken, NEW s \in Shell, Indexing(s)
               PROVE  sh[s].ind = Len(Commands(SubSeq(File(s), 1, sh[s].cnt))) + 1
    BY DEF NumbersAreRanks
  <2> DEFINE f == data[1]
             n == sh[s].cnt
             q == SubSeq(f, 1, n)
  <2>1. sh[s].pc # "off"
    BY DEF Indexing
  <2>2. /\ f \in Seq(Cell) /\ File(s) = f /\ n \in Nat /\ n <= Len(f) /\ Len(f) \in Nat
    BY <2>1, ShellFacts
  <2>3. sh[s].ind = Len(ReadOf(f, n).list) + 1
    BY <2>1 DEF RInv, RankOK, Rank
  <2> HIDE DEF f, n
  <2>4. q \in Seq(Cell) /\ Len(q) = n /\ \A i \in 1..n : q[i] = f[i]
    <3>1. \A i \in 1..n : f[i] \in Cell
      BY <2>2, FileFacts
    <3>2. n \in Int /\ 1 \in Int /\ (IF 1 <= n THEN n - 1 + 1 ELSE 0) = n /\ n - 1 + 1 = n
      BY <2>2
    <3>3. /\ q \in Seq(Cell) /\ Len(q) = n /\ \A i \in 1..n : q[i] = f[1 + i - 1]
      BY <3>1, <3>2, SubSeqProperties
    <3>4. \A i \in 1..n : 1 + i - 1 = i
      BY <2>2
    <3>5. QED
      BY <3>3, <3>4
  <2> HIDE DEF q
  <2>5. ReadOf(q, n) = ReadOf(f, n)
    BY <2>2, <2>4, ReadSame
  <2>6. Commands(q) = ReadOf(q, n).list
    BY <2>4, ReadSteps DEF Commands
  <2>7. QED
    BY <2>2, <2>3, <2>5, <2>6 DEF q, n
<1>2. QED
  BY <1>1, TInvAlways, RInvAlways, PTL

================================================================================
