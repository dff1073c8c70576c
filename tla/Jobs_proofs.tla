------------------------------ MODULE Jobs_proofs ------------------------------
(* The types of Jobs, for all values of the constants.  The invariant TInv says
   that the job table is well formed (Good), counts the activations that it
   depends on (Counts), and keeps the process ID of a child that is not yet in
   the table apart from those of background jobs (Pends).  First come sequences
   and the functions of jobs.c, then the stack, then one lemma per action. *)
EXTENDS Jobs, FiniteSetTheorems, WellFoundedInduction, TLAPS

-------------------------------------------------------------------------------
(* Sequences. *)

LEMMA Least ==
    ASSUME NEW S \in SUBSET Nat, S # {}
    PROVE  \E n \in S : \A m \in S : n <= m
<1>1. PICK n \in S : \A m \in S : ~ (<<m, n>> \in OpToRel(<, Nat))
  BY NatLessThanWellFounded, WFMin, Zenon
<1>2. \A m, k \in Nat : <<m, k>> \in OpToRel(<, Nat) <=> m < k
  BY DEF OpToRel
<1>3. \A m \in S : ~ (m < n)
  BY <1>1, <1>2
<1>4. QED
  BY <1>3

LEMMA FirstOf ==
    ASSUME NEW n \in Nat, NEW I \in SUBSET (1..n), I # {}
    PROVE  Min(I) \in I /\ \A k \in I : Min(I) <= k
<1>1. \E m \in I : \A k \in I : m <= k
  BY Least
<1>2. QED
  BY <1>1 DEF Min

LEMMA LastOf ==
    ASSUME NEW n \in Nat, NEW I \in SUBSET (1..n), I # {}
    PROVE  Max(I) \in I /\ \A k \in I : k <= Max(I)
<1> DEFINE B == {m \in Nat : \A k \in I : k <= m}
<1>1. B \in SUBSET Nat /\ n \in B
  OBVIOUS
<1>2. PICK m \in B : \A k \in B : m <= k
  BY <1>1, Least
<1>3. m \in I
  <2>1. SUFFICES ASSUME m \notin I
                 PROVE  FALSE
    OBVIOUS
  <2>2. PICK k \in I : TRUE
    OBVIOUS
  <2>3. m >= 1 /\ m \in Nat
    BY <2>2
  <2>4. \A i \in I : i <= m - 1
    BY <2>1
  <2>5. m - 1 \in B
    BY <2>3, <2>4
  <2>6. QED
    BY <1>2, <2>3, <2>5
<1>4. \A k \in I : k <= m
  OBVIOUS
<1>5. QED
  BY <1>3, <1>4 DEF Max

LEMMA ConcatIs ==
    ASSUME NEW T, NEW s \in Seq(T), NEW t \in Seq(T)
    PROVE  /\ s \o t \in Seq(T) /\ Len(s \o t) = Len(s) + Len(t)
           /\ \A i \in 1..Len(s) : (s \o t)[i] = s[i]
           /\ \A i \in 1..Len(t) : (s \o t)[Len(s) + i] = t[i]
  OBVIOUS

(* All but the last. *)
LEMMA FrontIs ==
    ASSUME NEW T, NEW s \in Seq(T), s # <<>>
    PROVE  /\ Front(s) \in Seq(T) /\ Len(Front(s)) = Len(s) - 1
           /\ \A i \in 1..Len(s) - 1 : Front(s)[i] = s[i]
           /\ Len(s) \in Nat \ {0} /\ Last(s) \in T
<1> DEFINE n == Len(s)
<1>1. n \in Nat \ {0} /\ Len(s) = n
  OBVIOUS
<1>2. /\ SubSeq(s, 1, n - 1) \in Seq(T) /\ Len(SubSeq(s, 1, n - 1)) = n - 1
      /\ \A i \in 1..n - 1 : SubSeq(s, 1, n - 1)[i] = s[i]
  <2> HIDE DEF n
  <2>1. n - 1 \in Nat /\ 1 + n - 1 <= Len(s) + 1
    BY <1>1
  <2>2. QED
    BY <1>1, <2>1
<1>3. s[n] \in T
  BY <1>1
<1>4. QED
  BY <1>1, <1>2, <1>3 DEF Front, Last

LEMMA RemoveAtIs ==
    ASSUME NEW T, NEW s \in Seq(T), NEW k \in 1..Len(s)
    PROVE  /\ RemoveAt(s, k) \in Seq(T) /\ Len(RemoveAt(s, k)) = Len(s) - 1
           /\ \A i \in 1..Len(s) - 1 :
                 RemoveAt(s, k)[i] = s[IF i < k THEN i ELSE i + 1]
<1> DEFINE n == Len(s)
           a == SubSeq(s, 1, k - 1)
           b == SubSeq(s, k + 1, n)
<1>1. n \in Nat /\ k \in 1..n
  OBVIOUS
<1>2. /\ a \in Seq(T) /\ Len(a) = k - 1
      /\ \A i \in 1..k - 1 : a[i] = s[i]
  BY <1>1
<1>3. /\ b \in Seq(T) /\ Len(b) = n - k
      /\ \A i \in 1..n - k : b[i] = s[k + i]
  BY <1>1
<1>4. RemoveAt(s, k) = a \o b
  BY DEF RemoveAt
<1> HIDE DEF n, a, b
<1>5. /\ a \o b \in Seq(T) /\ Len(a \o b) = n - 1
      /\ \A i \in 1..n - 1 : (a \o b)[i] = IF i < k THEN a[i] ELSE b[i - (k - 1)]
  <2>1. Len(a) + Len(b) = n - 1
    BY <1>1, <1>2, <1>3
  <2>2. a \o b \in Seq(T) /\ Len(a \o b) = n - 1
    <3>1. a \in Seq(T) /\ b \in Seq(T)
      BY <1>2, <1>3
    <3>2. a \o b \in Seq(T) /\ Len(a \o b) = Len(a) + Len(b)
      BY <3>1
    <3>3. QED
      BY <2>1, <3>2
  <2>3. ASSUME NEW i \in 1..n - 1
        PROVE  (a \o b)[i] = IF i < k THEN a[i] ELSE b[i - (k - 1)]
    <3>1. (a \o b)[i] = IF i <= Len(a) THEN a[i] ELSE b[i - Len(a)]
      <4>1. i \in 1..Len(a) + Len(b)
        BY <2>1
      <4>2. a \in Seq(T) /\ b \in Seq(T)
        BY <1>2, <1>3
      <4> HIDE DEF a, b
      <4>3. QED
        BY <4>1, <4>2
    <3>2. i <= Len(a) <=> i < k
      BY <1>1, <1>2
    <3>3. QED
      BY <1>2, <3>1, <3>2
  <2>4. QED
    BY <2>2, <2>3
<1>6. ASSUME NEW i \in 1..n - 1
      PROVE  (a \o b)[i] = s[IF i < k THEN i ELSE i + 1]
  <2>1. CASE i < k
    BY <1>1, <1>2, <1>5, <2>1
  <2>2. CASE ~(i < k)
    <3>1. i - (k - 1) \in 1..n - k /\ k + (i - (k - 1)) = i + 1
      BY <1>1, <2>2
    <3>2. b[i - (k - 1)] = s[i + 1]
      BY <1>3, <3>1
    <3>3. QED
      BY <1>5, <2>2, <3>2
  <2>3. QED
    BY <2>1, <2>2
<1>7. QED
  BY <1>4, <1>5, <1>6 DEF n

(* A member taken out. *)
LEMMA RemoveFirstIs ==
    ASSUME NEW T, NEW s \in Seq(T), NEW e, Contains(s, e)
    PROVE  \E k \in 1..Len(s) : s[k] = e /\ RemoveFirst(s, e) = RemoveAt(s, k)
<1> DEFINE I == {i \in 1..Len(s) : s[i] = e}
<1>1. I # {} /\ I \in SUBSET (1..Len(s)) /\ Len(s) \in Nat
  BY DEF Contains
<1>2. Min(I) \in I
  BY <1>1, FirstOf
<1>3. RemoveFirst(s, e) = RemoveAt(s, Min(I))
  BY <1>1 DEF RemoveFirst, SelectInSeq
<1>4. QED
  BY <1>2, <1>3

-------------------------------------------------------------------------------
(* Counting activations. *)

Number(s, T) == Cardinality({i \in 1..Len(s) : s[i] \in T})

LEMMA NumberNat ==
    ASSUME NEW F, NEW s \in Seq(F), NEW T
    PROVE  Number(s, T) \in Nat
<1>1. IsFiniteSet(1..Len(s))
  BY FS_Interval
<1>2. QED
  BY <1>1, FS_Subset, FS_CardinalityType DEF Number

LEMMA NumberAppend ==
    ASSUME NEW F, NEW s \in Seq(F), NEW f \in F, NEW T
    PROVE  Number(Append(s, f), T) = IF f \in T THEN Number(s, T) + 1 ELSE Number(s, T)
<1> DEFINE n == Len(s)
           t == Append(s, f)
           I == {i \in 1..n : s[i] \in T}
           J == {i \in 1..Len(t) : t[i] \in T}
<1>1. n \in Nat /\ Len(t) = n + 1 /\ t[n + 1] = f /\ \A i \in 1..n : t[i] = s[i]
  OBVIOUS
<1>2. IsFiniteSet(I) /\ n + 1 \notin I
  <2>1. IsFiniteSet(1..n)
    BY <1>1, FS_Interval
  <2>2. QED
    BY <1>1, <2>1, FS_Subset
<1>3. CASE f \in T
  <2>1. J = I \cup {n + 1}
    <3> HIDE DEF n, t
    <3>1. QED
      BY <1>1, <1>3
  <2>2. Cardinality(J) = Cardinality(I) + 1
    BY <1>2, <2>1, FS_AddElement
  <2>3. QED
    BY <1>3, <2>2 DEF Number
<1>4. CASE f \notin T
  <2>1. J = I
    <3> HIDE DEF n, t
    <3>1. QED
      BY <1>1, <1>4
  <2>2. QED
    BY <1>4, <2>1 DEF Number
<1>5. QED
  BY <1>3, <1>4

LEMMA NumberFront ==
    ASSUME NEW F, NEW s \in Seq(F), s # <<>>, NEW T
    PROVE  Number(Front(s), T) = IF s[Len(s)] \in T THEN Number(s, T) - 1 ELSE Number(s, T)
<1>1. Front(s) \in Seq(F) /\ s[Len(s)] \in F /\ s = Append(Front(s), s[Len(s)])
  <2>1. Front(s) \in Seq(F) /\ Len(s) \in Nat \ {0} /\ s[Len(s)] \in F
    BY FrontIs DEF Last
  <2>2. s = Append(Front(s), s[Len(s)])
    BY DEF Front
  <2>3. QED
    BY <2>1, <2>2
<1> DEFINE a == Front(s)
           f == s[Len(s)]
<1>2. a \in Seq(F) /\ f \in F /\ s = Append(a, f)
  BY <1>1
<1> HIDE DEF a, f
<1>3. Number(s, T) = IF f \in T THEN Number(a, T) + 1 ELSE Number(a, T)
  BY <1>2, NumberAppend
<1>4. Number(a, T) \in Nat
  BY <1>2, NumberNat
<1>5. QED
  BY <1>3, <1>4 DEF a, f

-------------------------------------------------------------------------------
(* What holds of the job table and of the saved statuses. *)

(* Each record is in the table or free, once, and a free one is empty. *)
Once(q) == \A i, k \in 1..Len(q) : q[i] = q[k] => i = k
Apart(q, r) == \A i \in 1..Len(q), k \in 1..Len(r) : q[i] # r[k]
Filled(q, rec) ==
    \A s \in Slot : /\ Contains(q, s) => rec[s].pid \in Pid
                    /\ ~Contains(q, s) => rec[s] = NoProcess
Table(j) ==
    /\ Once(j.pwlist) /\ Once(j.freelist) /\ Apart(j.pwlist, j.freelist)
    /\ Len(j.pwlist) + Len(j.freelist) = MaxSpawn
    /\ Filled(j.pwlist, j.rec)

(* A record behind another one of the same process ID is of an older process,
   which is no background job any more. *)
Ordered(q, rec) ==
    \A k \in 1..Len(q) : \A i \in 1..k - 1 :
       rec[q[i]].pid = rec[q[k]].pid => "BG" \notin rec[q[k]].flag
Behind(j) == Ordered(j.pwlist, j.rec)

Lists(j) == j.bck # <<>> /\ \A n \in 1..Len(j.bck) : Len(j.bck[n]) <= CHILD_MAX

Good(j) == j \in Job /\ Table(j) /\ Behind(j) /\ Lists(j)

(* From j to a no background job came up, and none was marked done. *)
Lean(j, a) ==
    \A s \in Slot : "BG" \in a.rec[s].flag =>
       "BG" \in j.rec[s].flag /\ a.rec[s].pid = j.rec[s].pid
Undone(j, a) ==
    \A s \in Slot : {"BG", "DONE"} \subseteq a.rec[s].flag => "DONE" \in j.rec[s].flag
Counters(j, a) ==
    /\ a.numbjob = j.numbjob /\ a.in_critical = j.in_critical /\ a.waitsafe = j.waitsafe
    /\ Len(a.bck) = Len(j.bck)
Steady(j, a) ==
    Lean(j, a) /\ Undone(j, a) /\ Counters(j, a) /\ Len(a.pwlist) <= Len(j.pwlist)

LEMMA SteadyOnce ==
    ASSUME NEW j
    PROVE  Len(j.pwlist) \in Nat => Steady(j, j)
  BY DEF Steady, Lean, Undone, Counters

LEMMA SteadyTwice ==
    ASSUME NEW j, NEW a, NEW b, Steady(j, a), Steady(a, b),
           Len(j.pwlist) \in Nat, Len(a.pwlist) \in Nat, Len(b.pwlist) \in Nat
    PROVE  Steady(j, b)
<1>1. Lean(j, b) /\ Undone(j, b)
  BY DEF Steady, Lean, Undone
<1>2. Counters(j, b)
  BY DEF Steady, Counters
<1>3. QED
  BY <1>1, <1>2 DEF Steady

(* Only the saved statuses change. *)
WithLists(j, b, e) == [j EXCEPT !.bck = b, !.evicted = e]
LEMMA ListsOnly ==
    ASSUME NEW j, Good(j), NEW b \in Seq(Seq(Saved)), NEW e \in SUBSET Pid,
           Len(b) = Len(j.bck), \A n \in 1..Len(b) : Len(b[n]) <= CHILD_MAX,
           NEW a, a = WithLists(j, b, e)
    PROVE  Good(a) /\ Steady(j, a) /\ a.bck = b /\ a.rec = j.rec /\ a.pwlist = j.pwlist
<1>1. j \in Job
  BY DEF Good
<1>2. /\ a \in Job /\ a.bck = b /\ a.rec = j.rec /\ a.pwlist = j.pwlist
      /\ a.freelist = j.freelist /\ a.numbjob = j.numbjob /\ a.in_critical = j.in_critical
      /\ a.waitsafe = j.waitsafe
  BY <1>1 DEF Job, WithLists
<1>3. Table(a) /\ Behind(a)
  <2>1. Table(j) /\ Behind(j)
    BY DEF Good
  <2>2. Table(a)
    BY <1>2, <2>1 DEF Table
  <2>3. Behind(a)
    BY <1>2, <2>1, Zenon DEF Behind
  <2>4. QED
    BY <2>2, <2>3
<1>4. Lists(a)
  <2>1. Len(j.bck) # 0
    BY <1>1 DEF Good, Lists, Job
  <2>2. b # <<>>
    BY <2>1
  <2>3. QED
    BY <1>2, <2>2 DEF Lists
<1>5. Steady(j, a)
  <2>1. Len(j.pwlist) \in Nat
    BY <1>1 DEF Job
  <2>2. QED
    BY <1>2, <2>1 DEF Steady, Lean, Undone, Counters
<1>6. QED
  BY <1>2, <1>3, <1>4, <1>5 DEF Good

(* Where job_chksave finds a status. *)
LEMMA SavedAtIs ==
    ASSUME NEW j, Good(j), NEW p
    PROVE  /\ SavedAt(j, p) \in 0..Len(j.bck)
           /\ SavedAt(j, p) # 0 => \E i \in 1..Len(j.bck[SavedAt(j, p)]) :
                                     j.bck[SavedAt(j, p)][i].pid = p
           /\ \A n \in 1..Len(j.bck) : n > SavedAt(j, p) =>
                 \A i \in 1..Len(j.bck[n]) : j.bck[n][i].pid # p
<1> DEFINE N == {n \in 1..Len(j.bck) : \E i \in 1..Len(j.bck[n]) : j.bck[n][i].pid = p}
<1>1. SavedAt(j, p) = IF N # {} THEN Max(N) ELSE 0
  BY DEF SavedAt, SelectLastInSeq
<1>2. Len(j.bck) \in Nat
  BY DEF Good, Job
<1>3. CASE N = {}
  BY <1>1, <1>2, <1>3
<1>4. CASE N # {}
  <2>1. Max(N) \in N /\ \A n \in N : n <= Max(N)
    <3>1. N \in SUBSET (1..Len(j.bck))
      OBVIOUS
    <3> HIDE DEF N
    <3>2. QED
      BY <1>2, <1>4, <3>1, LastOf
  <2>2. SavedAt(j, p) = Max(N)
    BY <1>1, <1>4
  <2>3. ASSUME NEW n \in 1..Len(j.bck), n > SavedAt(j, p)
        PROVE  n \notin N
    <3>1. SavedAt(j, p) \in 1..Len(j.bck)
      BY <2>1, <2>2
    <3>2. QED
      BY <1>2, <2>1, <2>2, <2>3, <3>1
  <2>4. SavedAt(j, p) \in N
    BY <2>1, <2>2
  <2>5. \A n \in 1..Len(j.bck) : n > SavedAt(j, p) =>
           \A i \in 1..Len(j.bck[n]) : j.bck[n][i].pid # p
    BY <2>3
  <2> HIDE DEF N
  <2>6. SavedAt(j, p) \in 0..Len(j.bck)
    BY <1>2, <2>4 DEF N
  <2>7. \E i \in 1..Len(j.bck[SavedAt(j, p)]) : j.bck[SavedAt(j, p)][i].pid = p
    BY <2>4 DEF N
  <2>8. QED
    BY <2>5, <2>6, <2>7
<1>5. QED
  BY <1>3, <1>4

(* The first entry for p in a list of statuses. *)
Entry(l, p) == SelectInSeq(l, LAMBDA x : x.pid = p)

LEMMA EntryIs ==
    ASSUME NEW l \in Seq(Saved), NEW p, \E i \in 1..Len(l) : l[i].pid = p
    PROVE  /\ Entry(l, p) \in 1..Len(l) /\ l[Entry(l, p)].pid = p
           /\ \A i \in 1..Entry(l, p) - 1 : l[i].pid # p
           /\ RemoveFirstMatch(l, LAMBDA x : x.pid = p) = RemoveAt(l, Entry(l, p))
<1> DEFINE I == {i \in 1..Len(l) : l[i].pid = p}
<1>1. I # {} /\ I \in SUBSET (1..Len(l)) /\ Len(l) \in Nat
  OBVIOUS
<1>2. Entry(l, p) = Min(I)
  BY <1>1 DEF Entry, SelectInSeq
<1>3. Min(I) \in I /\ \A i \in I : Min(I) <= i
  <2> HIDE DEF I
  <2>1. QED
    BY <1>1, FirstOf
<1>4. RemoveFirstMatch(l, LAMBDA x : x.pid = p) = RemoveAt(l, Entry(l, p))
  BY <1>1 DEF RemoveFirstMatch, Entry
<1>5. \A i \in 1..Min(I) - 1 : i \notin I
  <2>1. Min(I) \in 1..Len(l)
    BY <1>3
  <2> DEFINE m == Min(I)
  <2>2. m \in Nat /\ \A i \in I : m <= i
    BY <2>1, <1>3
  <2> HIDE DEF m
  <2>3. \A i \in 1..m - 1 : i \notin I
    <3> HIDE DEF I
    <3>1. QED
      BY <2>2
  <2>4. QED
    BY <2>3 DEF m
<1>6. \A i \in 1..Min(I) - 1 : i \in 1..Len(l)
  BY <1>3
<1>7. QED
  BY <1>2, <1>3, <1>4, <1>5, <1>6

(* What job_chksave leaves. *)
LEMMA ChksaveIs ==
    ASSUME NEW j, Good(j), NEW p
    PROVE  LET n == SavedAt(j, p)
               a == job_chksave(j, p)
           IN  /\ n = 0 => a = j
               /\ n # 0 => /\ Entry(j.bck[n], p) \in 1..Len(j.bck[n])
                           /\ a = [j EXCEPT !.bck = [j.bck EXCEPT ![n] =
                                                       RemoveAt(j.bck[n], Entry(j.bck[n], p))]]
               /\ Good(a) /\ Steady(j, a) /\ a.rec = j.rec /\ a.pwlist = j.pwlist
               /\ a.evicted = j.evicted
<1> DEFINE n == SavedAt(j, p)
           a == job_chksave(j, p)
           l == RemoveAt(j.bck[n], Entry(j.bck[n], p))
           b == [j.bck EXCEPT ![n] = l]
<1>1. j \in Job /\ j.bck \in Seq(Seq(Saved)) /\ Len(j.bck) \in Nat /\ Len(j.pwlist) \in Nat
  BY DEF Good, Job
<1>2. CASE n = 0
  <2>1. a = j
    BY <1>2 DEF job_chksave
  <2>2. QED
    BY <1>1, <1>2, <2>1, SteadyOnce
<1>3. CASE n # 0
  <2>1. n \in 1..Len(j.bck) /\ \E i \in 1..Len(j.bck[n]) : j.bck[n][i].pid = p
    BY <1>1, <1>3, SavedAtIs
  <2>2. j.bck[n] \in Seq(Saved)
    BY <1>1, <2>1
  <2>3. /\ Entry(j.bck[n], p) \in 1..Len(j.bck[n])
        /\ RemoveFirstMatch(j.bck[n], LAMBDA x : x.pid = p) = l
    BY <2>1, <2>2, EntryIs
  <2>4. l \in Seq(Saved) /\ Len(l) = Len(j.bck[n]) - 1
    BY <2>2, <2>3, RemoveAtIs
  <2>5. a = [j EXCEPT !.bck = b]
    <3>1. a = [j EXCEPT !.bck = [j.bck EXCEPT ![n] =
                                     RemoveFirstMatch(j.bck[n], LAMBDA x : x.pid = p)]]
      BY <1>1, <1>3 DEF job_chksave
    <3>2. QED
      BY <2>3, <3>1
  <2>6. b \in Seq(Seq(Saved)) /\ Len(b) = Len(j.bck)
    <3> HIDE DEF l, n
    <3>1. QED
      BY <1>1, <2>1, <2>4
  <2>7. \A i \in 1..Len(b) : Len(b[i]) <= CHILD_MAX
    <3>1. \A i \in 1..Len(j.bck) : Len(j.bck[i]) <= CHILD_MAX /\ Len(j.bck[i]) \in Nat
      BY <1>1 DEF Good, Lists
    <3>2. \A i \in 1..Len(j.bck) : b[i] = IF i = n THEN l ELSE j.bck[i]
      <4> HIDE DEF l, n
      <4>1. QED
        BY <1>1
    <3> HIDE DEF b, l, n
    <3>3. QED
      <4>1. ASSUME NEW i \in 1..Len(b)
            PROVE  Len(b[i]) <= CHILD_MAX
        <5>1. CASE i = n
          <6>1. b[i] = l /\ Len(l) = Len(j.bck[n]) - 1
            BY <2>4, <2>6, <3>2, <5>1
          <6>2. Len(j.bck[n]) <= CHILD_MAX /\ Len(j.bck[n]) \in Nat
            BY <2>1, <3>1
          <6>3. QED
            BY <6>1, <6>2, LimitAssumption
        <5>2. CASE i # n
          BY <2>6, <3>1, <3>2, <5>2
        <5>3. QED
          BY <5>1, <5>2
      <4>2. QED
        BY <4>1
  <2>8. j.evicted \in SUBSET Pid
    BY <1>1 DEF Job
  <2>9. a = WithLists(j, b, j.evicted)
    <3> HIDE DEF b
    <3>1. QED
      BY <1>1, <2>5 DEF Job, WithLists
  <2>10. Good(a) /\ Steady(j, a) /\ a.rec = j.rec /\ a.pwlist = j.pwlist
    <3> HIDE DEF b, a, l, n
    <3>1. \A i \in 1..Len(b) : Len(b[i]) <= CHILD_MAX
      BY <2>7
    <3>2. b \in Seq(Seq(Saved)) /\ Len(b) = Len(j.bck)
      BY <2>6
    <3>3. QED
      BY <2>8, <2>9, <3>1, <3>2, ListsOnly
  <2>11. a.evicted = j.evicted
    <3> HIDE DEF b
    <3>1. QED
      BY <1>1, <2>9 DEF Job, WithLists
  <2>12. QED
    BY <1>3, <2>3, <2>5, <2>10, <2>11
<1>4. QED
  BY <1>2, <1>3

(* The list of the innermost shell changes. *)
LEMMA PutList ==
    ASSUME NEW j, Good(j), NEW l \in Seq(Saved), Len(l) <= CHILD_MAX, NEW e \in SUBSET Pid,
           NEW a, a = WithLists(j, [j.bck EXCEPT ![Len(j.bck)] = l], e)
    PROVE  /\ Good(a) /\ Steady(j, a) /\ a.rec = j.rec /\ a.pwlist = j.pwlist
           /\ a.bck = [j.bck EXCEPT ![Len(j.bck)] = l]
<1> DEFINE b == [j.bck EXCEPT ![Len(j.bck)] = l]
<1>1. /\ j.bck \in Seq(Seq(Saved)) /\ Len(j.bck) \in Nat \ {0}
      /\ \A n \in 1..Len(j.bck) : Len(j.bck[n]) <= CHILD_MAX
  <2>1. j.bck \in Seq(Seq(Saved)) /\ j.bck # <<>>
    BY DEF Good, Job, Lists
  <2>2. QED
    BY <2>1 DEF Good, Lists
<1>2. b \in Seq(Seq(Saved)) /\ Len(b) = Len(j.bck)
  BY <1>1
<1>3. \A n \in 1..Len(j.bck) : b[n] = IF n = Len(j.bck) THEN l ELSE j.bck[n]
  BY <1>1
<1> HIDE DEF b
<1>4. \A n \in 1..Len(b) : Len(b[n]) <= CHILD_MAX
  BY <1>1, <1>2, <1>3
<1>5. a = WithLists(j, b, e)
  BY DEF b
<1>6. QED
  <2>1. Good(a) /\ Steady(j, a) /\ a.rec = j.rec /\ a.pwlist = j.pwlist /\ a.bck = b
    BY <1>2, <1>4, <1>5, ListsOnly
  <2>2. QED
    BY <2>1 DEF b

LEMMA LastList ==
    ASSUME NEW j, Good(j)
    PROVE  /\ Last(j.bck) \in Seq(Saved) /\ Len(Last(j.bck)) <= CHILD_MAX
           /\ Len(j.bck) \in Nat \ {0} /\ j.bck \in Seq(Seq(Saved))
           /\ Last(j.bck) = j.bck[Len(j.bck)]
<1>1. j.bck \in Seq(Seq(Saved)) /\ j.bck # <<>>
  BY DEF Good, Job, Lists
<1>2. Len(j.bck) \in Nat \ {0}
  BY <1>1
<1>3. Len(j.bck) \in 1..Len(j.bck)
  BY <1>2
<1>4. Len(j.bck[Len(j.bck)]) <= CHILD_MAX
  BY <1>3 DEF Good, Lists
<1>5. QED
  BY <1>1, <1>2, <1>3, <1>4 DEF Last

LEMMA DropOldestIs ==
    ASSUME NEW j, Good(j), Last(j.bck) # <<>>
    PROVE  LET a == DropOldest(j)
               l == Last(j.bck)
           IN  /\ Good(a) /\ Steady(j, a) /\ a.rec = j.rec /\ a.pwlist = j.pwlist
               /\ a.bck = [j.bck EXCEPT ![Len(j.bck)] = Front(l)]
               /\ a.evicted = j.evicted \cup {l[Len(l)].pid}
               /\ Last(a.bck) = Front(l) /\ Len(Front(l)) < CHILD_MAX
<1> DEFINE a == DropOldest(j)
           l == Last(j.bck)
           b == [j.bck EXCEPT ![Len(j.bck)] = Front(l)]
           e == j.evicted \cup {Last(l).pid}
<1>1. /\ l \in Seq(Saved) /\ Len(l) <= CHILD_MAX /\ Len(j.bck) \in Nat \ {0}
      /\ j.bck \in Seq(Seq(Saved)) /\ l = j.bck[Len(j.bck)]
  BY LastList
<1>2. Front(l) \in Seq(Saved) /\ Len(Front(l)) = Len(l) - 1 /\ Last(l) \in Saved
  <2> HIDE DEF l
  <2>1. l # <<>>
    BY DEF l
  <2>2. QED
    BY <1>1, <2>1, FrontIs
<1>3. e \in SUBSET Pid /\ j \in Job
  BY <1>2 DEF Saved, Good, Job
<1>4. a = WithLists(j, b, e)
  <2>1. a = [j EXCEPT !.bck = [j.bck EXCEPT ![Len(j.bck)] = Front(l)], !.evicted = e]
    <3>1. [j EXCEPT !.bck[Len(j.bck)] = Front(l)] = [j EXCEPT !.bck = b]
      BY <1>3 DEF Job
    <3>2. QED
      BY <1>3 DEF DropOldest, Job
  <2>2. QED
    BY <2>1 DEF WithLists
<1>5. Len(l) \in Nat /\ Len(Front(l)) < CHILD_MAX
  BY <1>1, <1>2, LimitAssumption
<1>6. Good(a) /\ Steady(j, a) /\ a.rec = j.rec /\ a.pwlist = j.pwlist /\ a.bck = b
  <2> HIDE DEF a, l, e
  <2>1. Len(Front(l)) <= CHILD_MAX
    BY <1>2, <1>5, LimitAssumption
  <2>2. QED
    BY <1>2, <1>3, <1>4, <2>1, PutList
<1>7. a.evicted = e
  <2> HIDE DEF b, e
  <2>1. QED
    BY <1>3, <1>4 DEF WithLists, Job
<1>8. Last(b) = Front(l)
  BY <1>1 DEF Last
<1>9. Last(l) = l[Len(l)]
  BY DEF Last
<1>10. QED
  BY <1>5, <1>6, <1>7, <1>8, <1>9

(* jobsave_create: what is dropped, and what is put in front. *)
Trimmed(j) == IF Len(Last(j.bck)) + 1 > CHILD_MAX /\ Last(j.bck) # <<>> THEN DropOldest(j) ELSE j

LEMMA TrimmedIs ==
    ASSUME NEW j, Good(j)
    PROVE  LET b == Trimmed(j)
           IN  /\ Good(b) /\ Steady(j, b) /\ b.rec = j.rec /\ b.pwlist = j.pwlist
               /\ Len(Last(b.bck)) < CHILD_MAX /\ Len(b.bck) = Len(j.bck)
<1>1. /\ Last(j.bck) \in Seq(Saved) /\ Len(Last(j.bck)) <= CHILD_MAX
      /\ Len(j.bck) \in Nat \ {0} /\ j.bck \in Seq(Seq(Saved)) /\ Len(j.pwlist) \in Nat
  BY LastList DEF Good, Job
<1>2. CASE Len(Last(j.bck)) + 1 > CHILD_MAX /\ Last(j.bck) # <<>>
  <2>1. Trimmed(j) = DropOldest(j)
    BY <1>2 DEF Trimmed
  <2> DEFINE b == DropOldest(j)
  <2>2. /\ Good(b) /\ Steady(j, b) /\ b.rec = j.rec /\ b.pwlist = j.pwlist
        /\ Last(b.bck) = Front(Last(j.bck)) /\ Len(Front(Last(j.bck))) < CHILD_MAX
    BY <1>2, DropOldestIs
  <2>3. Len(b.bck) = Len(j.bck)
    BY <2>2 DEF Steady, Counters
  <2>4. QED
    BY <2>1, <2>2, <2>3
<1>3. CASE ~(Len(Last(j.bck)) + 1 > CHILD_MAX /\ Last(j.bck) # <<>>)
  <2>1. Trimmed(j) = j
    BY <1>3 DEF Trimmed
  <2>2. Len(Last(j.bck)) < CHILD_MAX
    <3>1. Len(Last(j.bck)) \in Nat
      BY <1>1
    <3>2. CASE Last(j.bck) = <<>>
      BY <3>1, <3>2, LimitAssumption
    <3>3. CASE Last(j.bck) # <<>>
      BY <1>3, <3>1, <3>3, LimitAssumption
    <3>4. QED
      BY <3>2, <3>3
  <2>3. QED
    BY <1>1, <2>1, <2>2, SteadyOnce
<1>4. QED
  BY <1>2, <1>3

LEMMA CreateIs ==
    ASSUME NEW j, Good(j), NEW p \in Pid, NEW x \in Status \cup {0}
    PROVE  LET b == Trimmed(job_chksave(j, p))
               a == jobsave_create(j, p, x)
           IN  /\ Good(a) /\ Steady(j, a) /\ a.rec = j.rec /\ a.pwlist = j.pwlist
               /\ a.bck = [b.bck EXCEPT ![Len(b.bck)] =
                             <<[pid |-> p, exitval |-> x]>> \o Last(b.bck)]
               /\ a.evicted = b.evicted
<1> DEFINE c == job_chksave(j, p)
           b == Trimmed(c)
           a == jobsave_create(j, p, x)
           new == <<[pid |-> p, exitval |-> x]>>
           l == new \o Last(b.bck)
<1>1. Good(c) /\ Steady(j, c) /\ c.rec = j.rec /\ c.pwlist = j.pwlist
  BY ChksaveIs
<1>2. /\ Good(b) /\ Steady(c, b) /\ b.rec = c.rec /\ b.pwlist = c.pwlist
      /\ Len(Last(b.bck)) < CHILD_MAX /\ Len(b.bck) = Len(c.bck)
  <2> HIDE DEF c
  <2>1. QED
    BY <1>1, TrimmedIs
<1>3. a = [b EXCEPT !.bck[Len(b.bck)] = new \o @]
  BY DEF jobsave_create, Trimmed
<1> HIDE DEF b, a
<1>4. /\ Last(b.bck) \in Seq(Saved) /\ Len(b.bck) \in Nat \ {0}
      /\ b.bck \in Seq(Seq(Saved)) /\ Last(b.bck) = b.bck[Len(b.bck)]
  BY <1>2, LastList
<1>5. b \in Job
  BY <1>2 DEF Good
<1>6. a = WithLists(b, [b.bck EXCEPT ![Len(b.bck)] = l], b.evicted)
  <2>1. a = [b EXCEPT !.bck = [b.bck EXCEPT ![Len(b.bck)] = new \o b.bck[Len(b.bck)]]]
    <3> HIDE DEF new
    <3>1. QED
      BY <1>3, <1>5 DEF Job
  <2>2. a = [b EXCEPT !.bck = [b.bck EXCEPT ![Len(b.bck)] = l]]
    BY <1>4, <2>1
  <2> HIDE DEF l
  <2>3. QED
    BY <1>5, <2>2 DEF Job, WithLists
<1>7. l \in Seq(Saved) /\ Len(l) <= CHILD_MAX
  <2>1. new \in Seq(Saved) /\ Len(new) = 1
    BY DEF Saved
  <2> HIDE DEF new
  <2>2. l \in Seq(Saved) /\ Len(l) = 1 + Len(Last(b.bck)) /\ Len(Last(b.bck)) \in Nat
    <3> DEFINE m == Last(b.bck)
    <3>1. m \in Seq(Saved) /\ Len(m) \in Nat
      BY <1>4
    <3> HIDE DEF m
    <3>2. new \o m \in Seq(Saved) /\ Len(new \o m) = Len(new) + Len(m)
      BY <2>1, <3>1, ConcatIs
    <3>3. QED
      BY <2>1, <3>1, <3>2 DEF m
  <2>3. QED
    BY <1>2, <2>2, LimitAssumption
<1>8. b.evicted \in SUBSET Pid
  BY <1>5 DEF Job
<1>9. /\ Good(a) /\ Steady(b, a) /\ a.rec = b.rec /\ a.pwlist = b.pwlist
      /\ a.bck = [b.bck EXCEPT ![Len(b.bck)] = l]
  <2> HIDE DEF l
  <2>1. QED
    BY <1>2, <1>6, <1>7, <1>8, PutList
<1>10. a.evicted = b.evicted
  <2> HIDE DEF l
  <2>1. QED
    BY <1>5, <1>6 DEF WithLists, Job
<1>11. Steady(j, a)
  <2>1. Len(j.pwlist) \in Nat /\ Len(c.pwlist) \in Nat /\ Len(b.pwlist) \in Nat
    BY <1>1, <1>2 DEF Good, Job
  <2> HIDE DEF c
  <2>2. Steady(j, b)
    BY <1>1, <1>2, <2>1, SteadyTwice
  <2>3. QED
    BY <1>9, <2>1, <2>2, SteadyTwice
<1>12. a.rec = j.rec /\ a.pwlist = j.pwlist
  BY <1>1, <1>2, <1>9
<1>13. QED
  BY <1>9, <1>10, <1>11, <1>12 DEF a, b

(* Records change in the table, but no process ID does and no job becomes a
   background job. *)
LEMMA RecordsOnly ==
    ASSUME NEW j, Good(j), NEW a \in Job,
           a.pwlist = j.pwlist, a.freelist = j.freelist, a.bck = j.bck,
           \A s \in Slot : /\ a.rec[s].pid = j.rec[s].pid
                           /\ "BG" \in a.rec[s].flag => "BG" \in j.rec[s].flag
                           /\ ~Contains(j.pwlist, s) => a.rec[s] = j.rec[s]
    PROVE  Good(a) /\ Lean(j, a)
<1>1. /\ Once(j.pwlist) /\ Once(j.freelist) /\ Apart(j.pwlist, j.freelist)
      /\ Len(j.pwlist) + Len(j.freelist) = MaxSpawn /\ Filled(j.pwlist, j.rec)
      /\ Ordered(j.pwlist, j.rec) /\ Lists(j)
      /\ j.pwlist \in Seq(Slot) /\ Len(j.pwlist) \in Nat
  BY DEF Good, Table, Behind, Job
<1>2. Filled(a.pwlist, a.rec)
  BY <1>1 DEF Filled
<1>3. Ordered(a.pwlist, a.rec)
  <2>1. ASSUME NEW k \in 1..Len(j.pwlist), NEW i \in 1..k - 1,
               a.rec[j.pwlist[i]].pid = a.rec[j.pwlist[k]].pid
        PROVE  "BG" \notin a.rec[j.pwlist[k]].flag
    <3>1. i \in 1..Len(j.pwlist)
      BY <1>1
    <3>2. j.pwlist[i] \in Slot /\ j.pwlist[k] \in Slot
      BY <1>1, <3>1
    <3>3. "BG" \notin j.rec[j.pwlist[k]].flag
      BY <1>1, <2>1, <3>2 DEF Ordered
    <3>4. QED
      BY <3>2, <3>3
  <2>2. QED
    BY <2>1 DEF Ordered
<1>4. Lists(a)
  BY <1>1 DEF Lists
<1>5. Table(a) /\ Behind(a)
  BY <1>1, <1>2, <1>3 DEF Table, Behind
<1>6. Lean(j, a)
  BY DEF Lean
<1>7. QED
  BY <1>4, <1>5, <1>6 DEF Good

(* Flags of a record are cleared. *)
LEMMA SetFlagIs ==
    ASSUME NEW j, Good(j), NEW s \in Slot, NEW F \in SUBSET Flag(j, s)
    PROVE  LET a == SetFlag(j, s, F)
           IN  /\ Good(a) /\ Steady(j, a) /\ a.bck = j.bck /\ a.evicted = j.evicted
               /\ a.pwlist = j.pwlist /\ a.rec = [j.rec EXCEPT ![s] = [j.rec[s] EXCEPT !.flag = F]]
<1> DEFINE a == SetFlag(j, s, F)
           r == [j.rec[s] EXCEPT !.flag = F]
<1>1. j \in Job /\ Filled(j.pwlist, j.rec) /\ Len(j.pwlist) \in Nat /\ j.rec[s] \in Process
  BY DEF Good, Table, Job
<1>2. r \in Process /\ r.pid = j.rec[s].pid /\ r.flag = F /\ F \subseteq j.rec[s].flag
      /\ r.exit = j.rec[s].exit /\ r.env = j.rec[s].env
  BY <1>1 DEF Process, Flag
<1>3. ~Contains(j.pwlist, s) => r = j.rec[s]
  <2>1. ASSUME ~Contains(j.pwlist, s)
        PROVE  r = j.rec[s]
    <3>1. j.rec[s] = NoProcess
      BY <1>1, <2>1 DEF Filled
    <3>2. F = {}
      BY <1>2, <3>1 DEF NoProcess
    <3>3. QED
      BY <3>1, <3>2 DEF NoProcess
  <2>2. QED
    BY <2>1
<1>4. a = [j EXCEPT !.rec = [j.rec EXCEPT ![s] = r]]
  BY <1>1 DEF SetFlag, Job
<1> HIDE DEF r, a
<1>5. /\ a \in Job /\ a.rec = [j.rec EXCEPT ![s] = r] /\ a.pwlist = j.pwlist
      /\ a.freelist = j.freelist /\ a.bck = j.bck /\ a.evicted = j.evicted
      /\ a.numbjob = j.numbjob /\ a.in_critical = j.in_critical /\ a.waitsafe = j.waitsafe
  BY <1>1, <1>2, <1>4 DEF Job
<1>6. \A t \in Slot : a.rec[t] = IF t = s THEN r ELSE j.rec[t]
  BY <1>1, <1>5 DEF Job
<1>7. Good(a) /\ Lean(j, a)
  <2>1. \A t \in Slot : /\ a.rec[t].pid = j.rec[t].pid
                        /\ "BG" \in a.rec[t].flag => "BG" \in j.rec[t].flag
                        /\ ~Contains(j.pwlist, t) => a.rec[t] = j.rec[t]
    BY <1>2, <1>3, <1>6
  <2>2. QED
    BY <1>5, <2>1, RecordsOnly
<1>8. Undone(j, a)
  BY <1>2, <1>6 DEF Undone
<1>9. Steady(j, a)
  BY <1>1, <1>5, <1>7, <1>8 DEF Steady, Counters
<1>10. QED
  BY <1>5, <1>7, <1>9 DEF a, r

(* A record leaves the table. *)
LEMMA ReleasedIs ==
    ASSUME NEW j, Good(j), NEW s \in Slot, Contains(j.pwlist, s)
    PROVE  LET a == Released(j, s)
           IN  /\ Good(a) /\ Steady(j, a) /\ a.bck = j.bck /\ a.evicted = j.evicted
               /\ a.rec = [j.rec EXCEPT ![s] = NoProcess]
               /\ \E k \in 1..Len(j.pwlist) : j.pwlist[k] = s /\ a.pwlist = RemoveAt(j.pwlist, k)
<1> DEFINE a == Released(j, s)
           q == j.pwlist
           r == RemoveFirst(q, s)
           f == <<s>> \o j.freelist
           rec == [j.rec EXCEPT ![s] = NoProcess]
           n == Len(q)
<1>1. /\ j \in Job /\ q \in Seq(Slot) /\ n \in Nat /\ j.freelist \in Seq(Slot)
      /\ j.rec \in [Slot -> Process] /\ Len(j.freelist) \in Nat
  BY DEF Good, Job
<1>2. /\ Once(q) /\ Once(j.freelist) /\ Apart(q, j.freelist)
      /\ n + Len(j.freelist) = MaxSpawn /\ Filled(q, j.rec) /\ Ordered(q, j.rec) /\ Lists(j)
  BY DEF Good, Table, Behind
<1>3. PICK k \in 1..n : q[k] = s /\ r = RemoveAt(q, k)
  BY <1>1, RemoveFirstIs
<1>4. /\ r \in Seq(Slot) /\ Len(r) = n - 1
      /\ \A i \in 1..n - 1 : r[i] = q[IF i < k THEN i ELSE i + 1]
  BY <1>1, <1>3, RemoveAtIs
<1>5. /\ f \in Seq(Slot) /\ Len(f) = Len(j.freelist) + 1 /\ f[1] = s
      /\ \A i \in 1..Len(j.freelist) : f[i + 1] = j.freelist[i]
  <2>1. <<s>> \in Seq(Slot) /\ Len(<<s>>) = 1 /\ <<s>>[1] = s
    OBVIOUS
  <2> DEFINE o == <<s>>
  <2> HIDE DEF o
  <2>2. o \in Seq(Slot) /\ Len(o) = 1 /\ o[1] = s
    BY <2>1 DEF o
  <2>3. /\ o \o j.freelist \in Seq(Slot) /\ Len(o \o j.freelist) = 1 + Len(j.freelist)
        /\ (o \o j.freelist)[1] = o[1]
        /\ \A i \in 1..Len(j.freelist) : (o \o j.freelist)[1 + i] = j.freelist[i]
    BY <1>1, <2>2, ConcatIs
  <2>4. f = o \o j.freelist
    BY DEF o
  <2> HIDE DEF f
  <2>5. \A i \in 1..Len(j.freelist) : 1 + i = i + 1
    BY <1>1
  <2>6. QED
    BY <1>1, <2>2, <2>3, <2>4, <2>5
<1>6. NoProcess \in Process
  BY DEF NoProcess, Process
<1>7. a = [j EXCEPT !.pwlist = r, !.freelist = f, !.rec = rec]
  BY <1>1 DEF Released, Job
<1> HIDE DEF a, r, f
<1>8. /\ a \in Job /\ a.pwlist = r /\ a.freelist = f /\ a.rec = rec /\ a.bck = j.bck
      /\ a.evicted = j.evicted /\ a.numbjob = j.numbjob /\ a.in_critical = j.in_critical
      /\ a.waitsafe = j.waitsafe
  BY <1>1, <1>4, <1>5, <1>6, <1>7 DEF Job
<1>9. \A t \in Slot : rec[t] = IF t = s THEN NoProcess ELSE j.rec[t]
  BY <1>1
<1> HIDE DEF rec
<1> DEFINE at(i) == IF i < k THEN i ELSE i + 1
<1>10. \A i \in 1..n - 1 : at(i) \in 1..n /\ at(i) # k /\ r[i] = q[at(i)]
  BY <1>1, <1>4
<1>11. \A i \in 1..n - 1 : r[i] # s /\ r[i] \in Slot
  <2>1. \A i \in 1..n : i # k => q[i] # s
    BY <1>2, <1>3 DEF Once
  <2> HIDE DEF at
  <2>2. QED
    BY <1>1, <1>10, <2>1
<1>12. Once(r)
  <2>1. ASSUME NEW i \in 1..n - 1, NEW m \in 1..n - 1, r[i] = r[m]
        PROVE  i = m
    <3>1. at(i) = at(m)
      <4> HIDE DEF at
      <4>1. q[at(i)] = q[at(m)]
        BY <1>10, <2>1
      <4>2. QED
        BY <1>2, <1>10, <4>1 DEF Once
    <3>2. QED
      BY <1>1, <3>1
  <2>2. QED
    BY <1>4, <2>1 DEF Once
<1>13. \A i \in 1..n, m \in 1..Len(j.freelist) : q[i] # j.freelist[m]
  BY <1>2 DEF Apart
<1>14. \A m \in 1..Len(f) : m = 1 \/ (m - 1 \in 1..Len(j.freelist) /\ f[m] = j.freelist[m - 1])
  <2>1. ASSUME NEW m \in 1..Len(f), m # 1
        PROVE  m - 1 \in 1..Len(j.freelist) /\ f[m] = j.freelist[m - 1]
    <3>1. m - 1 \in 1..Len(j.freelist) /\ (m - 1) + 1 = m
      BY <1>1, <1>5, <2>1
    <3>2. QED
      BY <1>5, <3>1
  <2>2. QED
    BY <2>1
<1>15. Apart(r, f)
  <2>1. ASSUME NEW i \in 1..n - 1, NEW m \in 1..Len(f)
        PROVE  r[i] # f[m]
    <3>1. CASE m = 1
      BY <1>5, <1>11, <3>1
    <3>2. CASE m # 1
      <4> HIDE DEF at
      <4>1. QED
        BY <1>10, <1>13, <1>14, <3>2
    <3>3. QED
      BY <3>1, <3>2
  <2>2. QED
    BY <1>4, <2>1 DEF Apart
<1>16. Once(f)
  <2>1. ASSUME NEW i \in 1..Len(f), NEW m \in 1..Len(f), f[i] = f[m]
        PROVE  i = m
    <3>1. i = 1 <=> m = 1
      BY <1>3, <1>5, <1>13, <1>14, <2>1
    <3>2. CASE i # 1 /\ m # 1
      <4>1. i - 1 = m - 1
        BY <1>2, <1>14, <2>1, <3>2 DEF Once
      <4>2. QED
        BY <4>1
    <3>3. QED
      BY <3>1, <3>2
  <2>2. QED
    BY <2>1 DEF Once
<1>17. Len(r) + Len(f) = MaxSpawn
  <2> DEFINE m == Len(j.freelist)
  <2>1. n \in Nat /\ m \in Nat /\ n + m = MaxSpawn
    BY <1>1, <1>2
  <2>2. Len(r) = n - 1 /\ Len(f) = m + 1
    BY <1>4, <1>5
  <2> HIDE DEF n, m
  <2>3. QED
    BY <2>1, <2>2
<1>18. Filled(r, rec)
  <2>1. ASSUME NEW t \in Slot, Contains(r, t)
        PROVE  rec[t].pid \in Pid
    <3>1. PICK i \in 1..n - 1 : r[i] = t
      BY <1>4, <2>1 DEF Contains
    <3>2. t # s /\ Contains(q, t)
      <4> HIDE DEF at
      <4>1. QED
        BY <1>10, <1>11, <3>1 DEF Contains
    <3>3. QED
      BY <1>2, <1>9, <3>2 DEF Filled
  <2>2. ASSUME NEW t \in Slot, ~Contains(r, t)
        PROVE  rec[t] = NoProcess
    <3>1. CASE t = s
      BY <1>9, <3>1
    <3>2. CASE t # s
      <4>1. ~Contains(q, t)
        <5>1. ASSUME NEW m \in 1..n, q[m] = t
              PROVE  FALSE
          <6>1. m # k
            BY <1>3, <3>2, <5>1
          <6>2. CASE m < k
            <7>1. m \in 1..n - 1 /\ r[m] = t
              BY <1>1, <1>4, <5>1, <6>2
            <7>2. QED
              BY <1>4, <2>2, <7>1 DEF Contains
          <6>3. CASE m > k
            <7>1. m - 1 \in 1..n - 1 /\ ~(m - 1 < k) /\ (m - 1) + 1 = m
              BY <1>1, <6>3
            <7>2. r[m - 1] = t
              BY <1>4, <5>1, <7>1
            <7>3. QED
              BY <1>4, <2>2, <7>1, <7>2 DEF Contains
          <6>4. QED
            BY <1>1, <6>1, <6>2, <6>3
        <5>2. QED
          BY <5>1 DEF Contains
      <4>2. QED
        BY <1>2, <1>9, <3>2, <4>1 DEF Filled
    <3>3. QED
      BY <3>1, <3>2
  <2>3. QED
    BY <2>1, <2>2 DEF Filled
<1>19. Ordered(r, rec)
  <2>1. ASSUME NEW m \in 1..n - 1, NEW i \in 1..m - 1, rec[r[i]].pid = rec[r[m]].pid
        PROVE  "BG" \notin rec[r[m]].flag
    <3>1. i \in 1..n - 1 /\ at(i) < at(m) /\ at(i) \in 1..n /\ at(m) \in 1..n
      BY <1>1
    <3>2. at(i) \in 1..at(m) - 1
      BY <3>1
    <3> HIDE DEF at
    <3>3. rec[r[i]] = j.rec[q[at(i)]] /\ rec[r[m]] = j.rec[q[at(m)]]
      BY <1>9, <1>10, <1>11, <3>1
    <3>4. QED
      BY <1>2, <2>1, <3>1, <3>2, <3>3 DEF Ordered
  <2>2. QED
    BY <1>4, <2>1 DEF Ordered
<1>20. Good(a)
  <2>1. Table(a)
    BY <1>8, <1>12, <1>15, <1>16, <1>17, <1>18 DEF Table
  <2>2. Behind(a) /\ Lists(a)
    BY <1>2, <1>8, <1>19 DEF Behind, Lists
  <2>3. QED
    BY <1>8, <2>1, <2>2 DEF Good
<1>21. Lean(j, a) /\ Undone(j, a)
  BY <1>8, <1>9 DEF Lean, Undone, NoProcess
<1>22. Steady(j, a)
  BY <1>1, <1>4, <1>8, <1>21 DEF Steady, Counters
<1>23. QED
  BY <1>3, <1>8, <1>20, <1>22 DEF a, rec, r

LEMMA UnpostIs ==
    ASSUME NEW j, Good(j), NEW s \in Slot, NEW notify \in BOOLEAN
    PROVE  Good(job_unpost(j, s, notify)) /\ Steady(j, job_unpost(j, s, notify))
<1> DEFINE c == jobsave_create(j, j.rec[s].pid, j.rec[s].exit)
<1>1. j \in Job /\ Len(j.pwlist) \in Nat /\ j.rec[s] \in Process
  BY DEF Good, Job
<1>2. CASE Kept(j, s, notify)
  <2>1. job_unpost(j, s, notify) = j
    BY <1>2 DEF job_unpost
  <2>2. Steady(j, j)
    BY <1>1, SteadyOnce
  <2>3. QED
    BY <2>1, <2>2
<1>3. CASE ~Kept(j, s, notify) /\ "EXITSAVE" \notin Flag(j, s)
  <2>1. job_unpost(j, s, notify) = Released(j, s)
    BY <1>3 DEF job_unpost
  <2>2. Contains(j.pwlist, s)
    BY <1>3 DEF Kept
  <2>3. Good(Released(j, s)) /\ Steady(j, Released(j, s))
    BY <2>2, ReleasedIs
  <2>4. QED
    BY <2>1, <2>3
<1>4. CASE ~Kept(j, s, notify) /\ "EXITSAVE" \in Flag(j, s)
  <2>1. job_unpost(j, s, notify) = Released(c, s)
    BY <1>4 DEF job_unpost
  <2>2. Contains(j.pwlist, s)
    BY <1>4 DEF Kept
  <2>3. j.rec[s].pid \in Pid /\ j.rec[s].exit \in Status \cup {0}
    BY <1>1, <2>2 DEF Good, Table, Filled, Process
  <2>4. Good(c) /\ Steady(j, c) /\ c.pwlist = j.pwlist
    BY <2>3, CreateIs
  <2> HIDE DEF c
  <2>5. Good(Released(c, s)) /\ Steady(c, Released(c, s))
    BY <2>2, <2>4, ReleasedIs
  <2>6. Len(c.pwlist) \in Nat /\ Len(Released(c, s).pwlist) \in Nat
    BY <2>4, <2>5 DEF Good, Job
  <2>7. Steady(j, Released(c, s))
    BY <1>1, <2>4, <2>5, <2>6, SteadyTwice
  <2>8. QED
    BY <2>1, <2>5, <2>7
<1>5. QED
  BY <1>2, <1>3, <1>4

(* The records are unposted one after the other. *)
Unposted1(j, S, f, i) ==
    IF i = 0 THEN j
    ELSE IF j.pwlist[i] \in S THEN job_unpost(f[i - 1], j.pwlist[i], FALSE)
    ELSE f[i - 1]

LEMMA UnpostedExists ==
    ASSUME NEW j, Len(j.pwlist) \in Nat, NEW S
    PROVE  \E f : f = [i \in 0..Len(j.pwlist) |-> Unposted1(j, S, f, i)]
<1> DEFINE top == Len(j.pwlist)
           Has(d) == \E f : f = [i \in 0..d |-> Unposted1(j, S, f, i)]
           Bad == {d \in 0..top : ~ Has(d)}
<1>1. SUFFICES ASSUME ~ Has(top)
               PROVE  FALSE
  OBVIOUS
<1>2. top \in Nat
  OBVIOUS
<1> HIDE DEF top
<1>3. Bad \in SUBSET Nat /\ Bad # {}
  <2> HIDE DEF Has
  <2>1. top \in Bad
    BY <1>1, <1>2
  <2>2. QED
    BY <1>2, <2>1
<1>4. PICK d \in Bad : \A m \in Bad : d <= m
  <2> HIDE DEF Bad
  <2>1. QED
    BY <1>3, Least
<1>5. d # 0
  <2> DEFINE f == [i \in 0..0 |-> j]
  <2>1. f = [i \in 0..0 |-> Unposted1(j, S, f, i)]
    BY DEF Unposted1
  <2>2. Has(0)
    BY <2>1
  <2>3. QED
    BY <1>4, <2>2
<1>6. d \in 0..top /\ d - 1 \in 0..top /\ d - 1 \notin Bad
  <2> HIDE DEF Has
  <2>1. d \in 0..top /\ d - 1 \in 0..top
    BY <1>2, <1>4, <1>5
  <2>2. QED
    BY <1>4, <2>1
<1>7. PICK f : f = [i \in 0..d - 1 |-> Unposted1(j, S, f, i)]
  BY <1>6
<1> DEFINE w == Unposted1(j, S, f, d)
           g == [i \in 0..d |-> IF i = d THEN w ELSE f[i]]
<1>8. g = [i \in 0..d |-> Unposted1(j, S, g, i)]
  <2>1. ASSUME NEW i \in 0..d
        PROVE  g[i] = Unposted1(j, S, g, i)
    <3>1. CASE i = d
      <4>1. g[d - 1] = f[d - 1] /\ g[d] = w
        BY <1>5, <1>6
      <4> HIDE DEF g
      <4>2. QED
        BY <3>1, <4>1 DEF Unposted1
    <3>2. CASE i # d
      <4>1. i \in 0..d - 1
        BY <1>6, <3>2
      <4>2. f[i] = Unposted1(j, S, f, i)
        BY <1>7, <4>1, Zenon
      <4>3. g[i] = f[i] /\ (i # 0 => g[i - 1] = f[i - 1])
        <5> HIDE DEF w
        <5>1. i # 0 => i - 1 \in 0..d /\ i - 1 # d
          BY <1>6, <4>1
        <5>2. QED
          BY <3>2, <5>1
      <4> HIDE DEF g
      <4>4. Unposted1(j, S, g, i) = Unposted1(j, S, f, i)
        BY <4>3 DEF Unposted1
      <4>5. QED
        BY <4>2, <4>3, <4>4
    <3>3. QED
      BY <3>1, <3>2
  <2>2. QED
    <3>1. g = [i \in 0..d |-> g[i]]
      OBVIOUS
    <3> HIDE DEF g
    <3>2. QED
      BY <2>1, <3>1
<1>9. Has(d)
  <2> HIDE DEF g
  <2>1. QED
    BY <1>8
<1>10. QED
  BY <1>4, <1>9

LEMMA Up ==
    ASSUME NEW n \in Nat, NEW G \in SUBSET (0..n), 0 \in G,
           \A i \in 1..n : i - 1 \in G => i \in G
    PROVE  n \in G
<1> DEFINE Bad == (0..n) \ G
<1>1. SUFFICES ASSUME n \notin G
               PROVE  FALSE
  OBVIOUS
<1>2. Bad \in SUBSET Nat /\ Bad # {}
  BY <1>1
<1>3. PICK i \in Bad : \A m \in Bad : i <= m
  <2> HIDE DEF Bad
  <2>1. QED
    BY <1>2, Least
<1>4. i \in 1..n /\ i - 1 \in 0..n
  BY <1>3
<1>5. i - 1 \in G
  BY <1>3, <1>4
<1>6. QED
  BY <1>3, <1>4, <1>5

(* A set that job_unpost does not leave holds what unposting several records
   makes of a member. *)
LEMMA UnpostedStays ==
    ASSUME NEW X, NEW j \in X, j.pwlist \in Seq(Slot), NEW S,
           \A a \in X, s \in Slot : s \in S => job_unpost(a, s, FALSE) \in X
    PROVE  Unposted(j, S) \in X
<1> DEFINE n == Len(j.pwlist)
           f == CHOOSE g : g = [i \in 0..n |-> Unposted1(j, S, g, i)]
           G == {i \in 0..n : f[i] \in X}
<1>1. n \in Nat /\ \A i \in 1..n : j.pwlist[i] \in Slot
  OBVIOUS
<1>2. Unposted(j, S) = f[n]
  BY DEF Unposted, Unposted1
<1>3. \E g : g = [i \in 0..n |-> Unposted1(j, S, g, i)]
  BY <1>1, UnpostedExists
<1>4. f = [i \in 0..n |-> Unposted1(j, S, f, i)]
  <2> HIDE DEF n
  <2>1. QED
    BY <1>3, Zenon
<1> HIDE DEF f, n
<1>5. \A i \in 0..n : f[i] = Unposted1(j, S, f, i)
  BY <1>4, Zenon
<1>6. 0 \in G
  <2>1. 0 \in 0..n
    BY <1>1
  <2>2. f[0] = Unposted1(j, S, f, 0)
    BY <1>5, <2>1, Zenon
  <2>3. QED
    BY <2>1, <2>2 DEF Unposted1
<1>7. ASSUME NEW i \in 1..n, i - 1 \in G
      PROVE  i \in G
  <2>1. i \in 0..n /\ i # 0 /\ f[i - 1] \in X
    BY <1>1, <1>7
  <2>2. f[i] = IF j.pwlist[i] \in S THEN job_unpost(f[i - 1], j.pwlist[i], FALSE) ELSE f[i - 1]
    BY <1>5, <2>1 DEF Unposted1
  <2>3. f[i] \in X
    BY <1>1, <2>1, <2>2
  <2>4. QED
    BY <2>1, <2>3
<1>8. n \in G
  <2> HIDE DEF G
  <2>1. G \in SUBSET (0..n)
    BY DEF G
  <2>2. QED
    BY <1>1, <1>6, <1>7, <2>1, Up
<1>9. QED
  BY <1>2, <1>8

LEMMA UnpostedIs ==
    ASSUME NEW j, Good(j), NEW S
    PROVE  Good(Unposted(j, S)) /\ Steady(j, Unposted(j, S))
<1> DEFINE X == {a \in Job : Good(a) /\ Steady(j, a)}
<1>1. j \in Job /\ j.pwlist \in Seq(Slot) /\ Len(j.pwlist) \in Nat
  BY DEF Good, Job
<1>2. j \in X
  BY <1>1, SteadyOnce
<1>3. ASSUME NEW a \in X, NEW s \in Slot
      PROVE  job_unpost(a, s, FALSE) \in X
  <2> DEFINE b == job_unpost(a, s, FALSE)
  <2>1. Good(a) /\ Steady(j, a)
    OBVIOUS
  <2>2. FALSE \in BOOLEAN
    OBVIOUS
  <2>3. \A z \in BOOLEAN : Good(job_unpost(a, s, z)) /\ Steady(a, job_unpost(a, s, z))
    BY <2>1, UnpostIs
  <2>4. Good(b) /\ Steady(a, b)
    BY <2>2, <2>3, Zenon
  <2> HIDE DEF b
  <2>5. Len(a.pwlist) \in Nat /\ Len(b.pwlist) \in Nat /\ b \in Job
    BY <2>1, <2>4 DEF Good, Job
  <2>6. Steady(j, b)
    BY <1>1, <2>1, <2>4, <2>5, SteadyTwice
  <2>7. QED
    BY <2>4, <2>5, <2>6 DEF b
<1> HIDE DEF X
<1>4. Unposted(j, S) \in X
  BY <1>1, <1>2, <1>3, UnpostedStays
<1>5. QED
  BY <1>4 DEF X

-------------------------------------------------------------------------------
(* Finding, posting and ending a job. *)

LEMMA BypidIs ==
    ASSUME NEW j, Good(j), NEW p
    PROVE  \/ job_bypid(j, p) = 0 /\ \A i \in 1..Len(j.pwlist) : j.rec[j.pwlist[i]].pid # p
           \/ \E i \in 1..Len(j.pwlist) : /\ job_bypid(j, p) = j.pwlist[i]
                                          /\ j.rec[j.pwlist[i]].pid = p
                                          /\ \A k \in 1..i - 1 : j.rec[j.pwlist[k]].pid # p
<1> DEFINE q == j.pwlist
           I == {i \in 1..Len(q) : j.rec[q[i]].pid = p}
           n == SelectInSeq(q, LAMBDA s : j.rec[s].pid = p)
<1>1. n = IF I # {} THEN Min(I) ELSE 0
  BY DEF SelectInSeq
<1>2. job_bypid(j, p) = IF n = 0 THEN 0 ELSE q[n]
  BY DEF job_bypid
<1>3. Len(q) \in Nat
  BY DEF Good, Job
<1> HIDE DEF n
<1>4. CASE I = {}
  BY <1>1, <1>2, <1>4
<1>5. CASE I # {}
  <2>1. n \in I /\ \A i \in I : n <= i
    <3>1. I \in SUBSET (1..Len(q))
      OBVIOUS
    <3>2. n = Min(I)
      BY <1>1, <1>5
    <3> HIDE DEF I
    <3>3. QED
      BY <1>3, <1>5, <3>1, <3>2, FirstOf
  <2>2. n \in 1..Len(q) /\ j.rec[q[n]].pid = p /\ n # 0
    BY <1>3, <2>1
  <2>3. \A k \in 1..n - 1 : j.rec[q[k]].pid # p
    <3>1. ASSUME NEW k \in 1..n - 1, j.rec[q[k]].pid = p
          PROVE  FALSE
      <4>1. k \in I
        BY <1>3, <2>2, <3>1
      <4> HIDE DEF I
      <4>2. n <= k /\ n \in Nat /\ k < n /\ k \in Nat
        BY <1>3, <2>1, <2>2, <4>1
      <4>3. QED
        BY <4>2
    <3>2. QED
      BY <3>1
  <2>4. QED
    BY <1>2, <2>2, <2>3
<1>6. QED
  BY <1>4, <1>5

LEMMA BypidSame ==
    ASSUME NEW j, NEW a, a.rec = j.rec, a.pwlist = j.pwlist, NEW p
    PROVE  job_bypid(a, p) = job_bypid(j, p)
  BY DEF job_bypid, SelectInSeq

LEMMA BypidSlot ==
    ASSUME NEW j, Good(j), NEW p
    PROVE  /\ job_bypid(j, p) \in Slot \cup {0}
           /\ job_bypid(j, p) # 0 => /\ Contains(j.pwlist, job_bypid(j, p))
                                     /\ j.rec[job_bypid(j, p)].pid = p
<1>1. j.pwlist \in Seq(Slot)
  BY DEF Good, Job
<1>2. \A i \in 1..Len(j.pwlist) : j.pwlist[i] \in Slot /\ Contains(j.pwlist, j.pwlist[i])
  BY <1>1 DEF Contains
<1>3. QED
  BY <1>2, BypidIs

LEMMA InTable ==
    ASSUME NEW j, Good(j), NEW s \in Slot, NEW x \in j.rec[s].flag
    PROVE  Contains(j.pwlist, s) /\ j.rec[s].pid \in Pid
<1>1. Contains(j.pwlist, s)
  BY DEF Good, Table, Filled, NoProcess
<1>2. QED
  BY <1>1 DEF Good, Table, Filled

(* The first record of a process ID is the one that may be a background job. *)
LEMMA BackgroundIs ==
    ASSUME NEW j, Good(j), NEW s \in Slot, "BG" \in j.rec[s].flag
    PROVE  job_bypid(j, j.rec[s].pid) = s
<1> DEFINE q == j.pwlist
           p == j.rec[s].pid
<1>1. PICK k \in 1..Len(q) : q[k] = s
  BY InTable DEF Contains
<1>2. Ordered(q, j.rec) /\ Len(q) \in Nat
  BY DEF Good, Behind, Job
<1>3. PICK i \in 1..Len(q) : /\ job_bypid(j, p) = q[i] /\ j.rec[q[i]].pid = p
                             /\ \A m \in 1..i - 1 : j.rec[q[m]].pid # p
  BY <1>1, BypidIs
<1>4. ~(k < i)
  <2>1. k < i => k \in 1..i - 1
    BY <1>2
  <2>2. QED
    BY <1>1, <1>3, <2>1
<1>5. ~(i < k)
  <2>1. i < k => i \in 1..k - 1
    BY <1>2
  <2>2. QED
    BY <1>1, <1>2, <1>3, <2>1 DEF Ordered
<1>6. i = k
  BY <1>2, <1>4, <1>5
<1>7. QED
  BY <1>1, <1>3, <1>6

LEMMA NotBackground ==
    ASSUME NEW j, Good(j), NEW p, ~Background(j, p)
    PROVE  \A s \in Slot : "BG" \in j.rec[s].flag => j.rec[s].pid # p
<1>1. ASSUME NEW s \in Slot, "BG" \in j.rec[s].flag, j.rec[s].pid = p
      PROVE  FALSE
  <2>1. job_bypid(j, p) = s
    BY <1>1, BackgroundIs
  <2>2. s # 0
    BY DEF Slot
  <2>3. QED
    BY <1>1, <2>1, <2>2 DEF Background, Flag
<1>2. QED
  BY <1>1

(* Nothing changes that Good speaks of. *)
LEMMA Scalars ==
    ASSUME NEW j, Good(j), NEW a \in Job,
           a.pwlist = j.pwlist, a.freelist = j.freelist, a.rec = j.rec, a.bck = j.bck
    PROVE  Good(a) /\ Lean(j, a) /\ Undone(j, a)
<1>1. Table(j) /\ Behind(j) /\ Lists(j)
  BY DEF Good
<1>2. Table(a)
  BY <1>1 DEF Table
<1>3. Behind(a)
  BY <1>1 DEF Behind
<1>4. Lists(a)
  BY <1>1 DEF Lists
<1>5. QED
  BY <1>2, <1>3, <1>4 DEF Good, Lean, Undone

(* A new record in front. *)
NewRecord(p, bg, env) == [pid |-> p, exit |-> 0, env |-> env,
                          flag |-> {"EXITSAVE"} \cup IF bg THEN {"BG"} ELSE {}]
Posted(j, p, bg, env) ==
    [j EXCEPT !.freelist = Tail(@), !.pwlist = <<Head(j.freelist)>> \o @,
              !.rec[Head(j.freelist)] = NewRecord(p, bg, env),
              !.numbjob = IF bg THEN @ + 1 ELSE @]

PostedAs(j, a, h, p, bg, env) ==
    /\ Good(a) /\ h \in Slot /\ ~Contains(j.pwlist, h)
    /\ a.rec = [j.rec EXCEPT ![h] = NewRecord(p, bg, env)]
    /\ a.pwlist = <<h>> \o j.pwlist /\ Len(a.pwlist) = Len(j.pwlist) + 1
    /\ a.numbjob = IF bg THEN j.numbjob + 1 ELSE j.numbjob
    /\ a.in_critical = j.in_critical /\ a.waitsafe = j.waitsafe
    /\ a.bck = j.bck /\ a.evicted = j.evicted

LEMMA PostedIs ==
    ASSUME NEW j, Good(j), NEW p \in Pid, NEW bg \in BOOLEAN, NEW env \in Nat,
           Len(j.pwlist) < MaxSpawn,
           \A s \in Slot : "BG" \in j.rec[s].flag => j.rec[s].pid # p
    PROVE  PostedAs(j, Posted(j, p, bg, env), Head(j.freelist), p, bg, env)
<1> DEFINE a == Posted(j, p, bg, env)
           h == Head(j.freelist)
           f == Tail(j.freelist)
           q == <<h>> \o j.pwlist
           new == NewRecord(p, bg, env)
           rec == [j.rec EXCEPT ![h] = new]
           n == Len(j.pwlist)
           m == Len(j.freelist)
<1>1. /\ j \in Job /\ j.pwlist \in Seq(Slot) /\ n \in Nat /\ j.freelist \in Seq(Slot)
      /\ j.rec \in [Slot -> Process] /\ m \in Nat
  BY DEF Good, Job
<1>2. /\ Once(j.pwlist) /\ Once(j.freelist) /\ Apart(j.pwlist, j.freelist)
      /\ n + m = MaxSpawn /\ Filled(j.pwlist, j.rec) /\ Ordered(j.pwlist, j.rec) /\ Lists(j)
  BY DEF Good, Table, Behind
<1>3. m > 0 /\ n < MaxSpawn
  <2>1. n < MaxSpawn
    OBVIOUS
  <2> HIDE DEF n, m
  <2>2. QED
    BY <1>1, <1>2, <2>1, JobsBoundAssumption
<1>4. /\ h \in Slot /\ h = j.freelist[1] /\ f \in Seq(Slot) /\ Len(f) = m - 1
      /\ \A i \in 1..m - 1 : f[i] = j.freelist[i + 1]
  <2>1. j.freelist # <<>>
    BY <1>3
  <2>2. QED
    BY <1>1, <2>1
<1>5. /\ q \in Seq(Slot) /\ Len(q) = n + 1 /\ q[1] = h
      /\ \A i \in 1..n : q[1 + i] = j.pwlist[i]
  <2> DEFINE o == <<h>>
  <2>1. o \in Seq(Slot) /\ Len(o) = 1 /\ o[1] = h
    <3> HIDE DEF h
    <3>1. QED
      BY <1>4
  <2> HIDE DEF o
  <2>2. /\ o \o j.pwlist \in Seq(Slot) /\ Len(o \o j.pwlist) = 1 + n
        /\ (o \o j.pwlist)[1] = o[1]
        /\ \A i \in 1..n : (o \o j.pwlist)[1 + i] = j.pwlist[i]
    <3>1. /\ o \o j.pwlist \in Seq(Slot) /\ Len(o \o j.pwlist) = Len(o) + Len(j.pwlist)
          /\ \A i \in 1..Len(o) : (o \o j.pwlist)[i] = o[i]
          /\ \A i \in 1..Len(j.pwlist) : (o \o j.pwlist)[Len(o) + i] = j.pwlist[i]
      BY <1>1, <2>1, ConcatIs
    <3>2. QED
      BY <2>1, <3>1
  <2>3. q = o \o j.pwlist
    BY DEF o
  <2> HIDE DEF q, n
  <2>4. QED
    BY <1>1, <2>1, <2>2, <2>3
<1>6. new \in Process /\ new.pid = p /\ (("BG" \in new.flag) <=> bg)
  BY DEF Process, NewRecord
<1>7. a = [j EXCEPT !.freelist = f, !.pwlist = q, !.rec = rec,
                    !.numbjob = IF bg THEN j.numbjob + 1 ELSE j.numbjob]
  <2>1. a = [j EXCEPT !.freelist = f, !.pwlist = q, !.rec[h] = new,
                      !.numbjob = IF bg THEN j.numbjob + 1 ELSE j.numbjob]
    <3> HIDE DEF h
    <3>1. QED
      BY <1>1 DEF Posted, Job, h
  <2> HIDE DEF f, q, new, h, a
  <2>2. QED
    BY <1>1, <2>1 DEF Job
<1> HIDE DEF a, f, q, new, h
<1>8. rec \in [Slot -> Process] /\ \A t \in Slot : rec[t] = IF t = h THEN new ELSE j.rec[t]
  BY <1>1, <1>4, <1>6
<1> HIDE DEF rec
<1>9. /\ a \in Job /\ a.freelist = f /\ a.pwlist = q /\ a.rec = rec
      /\ a.numbjob = (IF bg THEN j.numbjob + 1 ELSE j.numbjob)
      /\ a.in_critical = j.in_critical /\ a.waitsafe = j.waitsafe /\ a.bck = j.bck
      /\ a.evicted = j.evicted
  <2> DEFINE nb == IF bg THEN j.numbjob + 1 ELSE j.numbjob
  <2>1. nb \in Int
    BY <1>1 DEF Job
  <2> HIDE DEF nb
  <2>2. a = [j EXCEPT !.freelist = f, !.pwlist = q, !.rec = rec, !.numbjob = nb]
    BY <1>7 DEF nb
  <2>3. /\ a \in Job /\ a.freelist = f /\ a.pwlist = q /\ a.rec = rec /\ a.numbjob = nb
        /\ a.in_critical = j.in_critical /\ a.waitsafe = j.waitsafe /\ a.bck = j.bck
        /\ a.evicted = j.evicted
    BY <1>1, <1>4, <1>5, <1>8, <2>1, <2>2 DEF Job
  <2>4. QED
    BY <2>3 DEF nb
<1>10. \A i \in 1..n : j.pwlist[i] # h /\ j.pwlist[i] \in Slot
  <2>1. 1 \in 1..m
    BY <1>1, <1>3
  <2>2. QED
    BY <1>1, <1>2, <1>4, <2>1 DEF Apart
<1>11. ~Contains(j.pwlist, h)
  BY <1>10 DEF Contains
<1>12. \A i \in 1..Len(q) : i = 1 \/ (i - 1 \in 1..n /\ q[i] = j.pwlist[i - 1])
  <2>1. ASSUME NEW i \in 1..Len(q), i # 1
        PROVE  i - 1 \in 1..n /\ q[i] = j.pwlist[i - 1]
    <3>1. i - 1 \in 1..n /\ 1 + (i - 1) = i
      BY <1>1, <1>5, <2>1
    <3>2. QED
      BY <1>5, <3>1
  <2>2. QED
    BY <2>1
<1>13. Once(q)
  <2>1. ASSUME NEW i \in 1..Len(q), NEW k \in 1..Len(q), q[i] = q[k]
        PROVE  i = k
    <3>1. i = 1 <=> k = 1
      BY <1>5, <1>10, <1>12, <2>1
    <3>2. CASE i # 1 /\ k # 1
      <4>1. i - 1 = k - 1
        BY <1>2, <1>12, <2>1, <3>2 DEF Once
      <4>2. QED
        BY <4>1
    <3>3. QED
      BY <3>1, <3>2
  <2>2. QED
    BY <2>1 DEF Once
<1>14. \A i \in 1..m - 1 : i + 1 \in 1..m /\ i + 1 # 1
  BY <1>1
<1>15. Once(f)
  <2>1. ASSUME NEW i \in 1..m - 1, NEW k \in 1..m - 1, f[i] = f[k]
        PROVE  i = k
    <3>1. i + 1 = k + 1
      BY <1>2, <1>4, <1>14, <2>1 DEF Once
    <3>2. QED
      BY <3>1
  <2>2. QED
    BY <1>4, <2>1 DEF Once
<1>16. Apart(q, f)
  <2>1. ASSUME NEW i \in 1..Len(q), NEW k \in 1..m - 1, q[i] = f[k]
        PROVE  FALSE
    <3>1. f[k] = j.freelist[k + 1] /\ k + 1 \in 1..m /\ k + 1 # 1 /\ 1 \in 1..m
      BY <1>1, <1>3, <1>4, <1>14
    <3>2. i # 1
      BY <1>2, <1>4, <1>5, <2>1, <3>1 DEF Once
    <3>3. QED
      BY <1>2, <1>12, <2>1, <3>1, <3>2 DEF Apart
  <2>2. QED
    BY <1>4, <2>1 DEF Apart
<1>17. Len(q) + Len(f) = MaxSpawn
  <2> HIDE DEF n, m
  <2>1. QED
    BY <1>1, <1>2, <1>4, <1>5
<1>18. \A t \in Slot : Contains(q, t) <=> (t = h \/ Contains(j.pwlist, t))
  <2>1. ASSUME NEW t \in Slot, Contains(q, t)
        PROVE  t = h \/ Contains(j.pwlist, t)
    BY <1>5, <1>12, <2>1 DEF Contains
  <2>2. ASSUME NEW t \in Slot, t = h \/ Contains(j.pwlist, t)
        PROVE  Contains(q, t)
    <3>1. CASE t = h
      <4>1. 1 \in 1..Len(q)
        BY <1>1, <1>5
      <4>2. QED
        BY <1>5, <3>1, <4>1 DEF Contains
    <3>2. CASE Contains(j.pwlist, t)
      <4>1. PICK i \in 1..n : j.pwlist[i] = t
        BY <3>2 DEF Contains
      <4>2. 1 + i \in 1..Len(q) /\ q[1 + i] = t
        BY <1>1, <1>5, <4>1
      <4>3. QED
        BY <4>2 DEF Contains
    <3>3. QED
      BY <2>2, <3>1, <3>2
  <2>3. QED
    BY <2>1, <2>2
<1>19. Filled(q, rec)
  BY <1>2, <1>6, <1>8, <1>18 DEF Filled
<1>20. Ordered(q, rec)
  <2>1. ASSUME NEW k \in 1..Len(q), NEW i \in 1..k - 1, rec[q[i]].pid = rec[q[k]].pid
        PROVE  "BG" \notin rec[q[k]].flag
    <3>1. k # 1 /\ k - 1 \in 1..n /\ q[k] = j.pwlist[k - 1] /\ i \in 1..Len(q)
      BY <1>1, <1>5, <1>12, <2>1
    <3>2. rec[q[k]] = j.rec[q[k]] /\ q[k] \in Slot
      BY <1>8, <1>10, <3>1
    <3>3. CASE i = 1
      <4>1. rec[q[i]].pid = p
        BY <1>4, <1>5, <1>6, <1>8, <3>3
      <4>2. QED
        BY <2>1, <3>2, <4>1
    <3>4. CASE i # 1
      <4>1. i - 1 \in 1..n /\ q[i] = j.pwlist[i - 1]
        BY <1>12, <3>1, <3>4
      <4>2. rec[q[i]] = j.rec[q[i]]
        BY <1>8, <1>10, <4>1
      <4>3. i - 1 \in 1..(k - 1) - 1
        BY <1>1, <3>1, <4>1
      <4>4. QED
        BY <1>2, <2>1, <3>1, <3>2, <4>1, <4>2, <4>3 DEF Ordered
    <3>5. QED
      BY <3>3, <3>4
  <2>2. QED
    BY <2>1 DEF Ordered
<1>21. Good(a)
  <2>1. Table(a)
    BY <1>9, <1>13, <1>15, <1>16, <1>17, <1>19 DEF Table
  <2>2. Behind(a) /\ Lists(a)
    BY <1>2, <1>9, <1>20 DEF Behind, Lists
  <2>3. QED
    BY <1>9, <2>1, <2>2 DEF Good
<1> HIDE DEF a, h, new
<1>22. PostedAs(j, a, h, p, bg, env)
  BY <1>4, <1>5, <1>9, <1>11, <1>21 DEF PostedAs, q, rec, new
<1>23. QED
  BY <1>22 DEF a, h

(* job_post. *)
Cleared(j, p) == IF job_bypid(j, p) = 0 THEN j ELSE job_unpost(j, job_bypid(j, p), FALSE)

LEMMA ClearedIs ==
    ASSUME NEW j, Good(j), NEW p
    PROVE  Good(Cleared(j, p)) /\ Steady(j, Cleared(j, p))
<1>1. CASE job_bypid(j, p) = 0
  <2>1. Len(j.pwlist) \in Nat
    BY DEF Good, Job
  <2>2. QED
    BY <1>1, <2>1, SteadyOnce DEF Cleared
<1>2. CASE job_bypid(j, p) # 0
  <2>1. job_bypid(j, p) \in Slot
    BY <1>2, BypidSlot
  <2>2. \A s \in Slot, z \in BOOLEAN : Good(job_unpost(j, s, z)) /\ Steady(j, job_unpost(j, s, z))
    BY UnpostIs
  <2>3. FALSE \in BOOLEAN
    OBVIOUS
  <2>4. Good(job_unpost(j, job_bypid(j, p), FALSE)) /\ Steady(j, job_unpost(j, job_bypid(j, p), FALSE))
    BY <2>1, <2>2, <2>3, Zenon
  <2>5. QED
    BY <1>2, <2>4 DEF Cleared
<1>3. QED
  BY <1>1, <1>2

PostAs(j, a, p, bg) ==
    /\ Good(a) /\ Len(a.pwlist) <= Len(j.pwlist) + 1
    /\ a.numbjob = IF bg THEN j.numbjob + 1 ELSE j.numbjob
    /\ a.in_critical = j.in_critical /\ a.waitsafe = j.waitsafe
    /\ Len(a.bck) = Len(j.bck)
    /\ \A s \in Slot : "BG" \in a.rec[s].flag =>
          \/ bg /\ a.rec[s].pid = p /\ "DONE" \notin a.rec[s].flag
          \/ /\ "BG" \in j.rec[s].flag /\ a.rec[s].pid = j.rec[s].pid
             /\ "DONE" \in a.rec[s].flag => "DONE" \in j.rec[s].flag

LEMMA PostIs ==
    ASSUME NEW j, Good(j), NEW p \in Pid, NEW bg \in BOOLEAN, NEW env \in Nat,
           Len(j.pwlist) < MaxSpawn,
           \A s \in Slot : "BG" \in j.rec[s].flag => j.rec[s].pid # p
    PROVE  PostAs(j, job_post(j, p, bg, env), p, bg)
<1> DEFINE b == Cleared(j, p)
           c == Posted(b, p, bg, env)
           a == job_post(j, p, bg, env)
           new == NewRecord(p, bg, env)
           h == Head(b.freelist)
<1>1. Good(b) /\ Steady(j, b)
  BY ClearedIs
<1>2. a = job_chksave(c, p)
  BY DEF job_post, Posted, Cleared, NewRecord
<1>3. Len(b.pwlist) \in Nat /\ Len(j.pwlist) \in Nat /\ Len(b.pwlist) < MaxSpawn
  <2>1. Len(b.pwlist) \in Nat /\ Len(j.pwlist) \in Nat
    <3> HIDE DEF b
    <3>1. QED
      BY <1>1 DEF Good, Job
  <2>2. Len(b.pwlist) <= Len(j.pwlist)
    BY <1>1 DEF Steady
  <2>3. QED
    BY <2>1, <2>2, JobsBoundAssumption
<1> HIDE DEF b, a
<1>4. \A s \in Slot : "BG" \in b.rec[s].flag => b.rec[s].pid # p
  BY <1>1 DEF Steady, Lean
<1>5. /\ Good(c) /\ h \in Slot /\ c.rec = [b.rec EXCEPT ![h] = new]
      /\ Len(c.pwlist) = Len(b.pwlist) + 1
      /\ c.numbjob = IF bg THEN b.numbjob + 1 ELSE b.numbjob
      /\ c.in_critical = b.in_critical /\ c.waitsafe = b.waitsafe /\ c.bck = b.bck
  <2>1. Good(b) /\ p \in Pid /\ bg \in BOOLEAN /\ env \in Nat /\ Len(b.pwlist) < MaxSpawn
    BY <1>1, <1>3
  <2>2. PostedAs(b, c, h, p, bg, env)
    BY <1>4, <2>1, PostedIs, Zenon
  <2> HIDE DEF c, h, new
  <2>3. QED
    BY <2>2 DEF PostedAs, new
<1> HIDE DEF c, h
<1>6. Good(a) /\ Steady(c, a) /\ a.rec = c.rec /\ a.pwlist = c.pwlist
  BY <1>2, <1>5, ChksaveIs
<1>7. Len(a.pwlist) <= Len(j.pwlist) + 1
  BY <1>1, <1>3, <1>5, <1>6 DEF Steady
<1>8. a.numbjob = IF bg THEN j.numbjob + 1 ELSE j.numbjob
  BY <1>1, <1>5, <1>6 DEF Steady, Counters
<1>9. a.in_critical = j.in_critical /\ a.waitsafe = j.waitsafe /\ Len(a.bck) = Len(j.bck)
  BY <1>1, <1>5, <1>6 DEF Steady, Counters
<1>10. \A s \in Slot : a.rec[s] = IF s = h THEN new ELSE b.rec[s]
  <2>1. b.rec \in [Slot -> Process]
    BY <1>1 DEF Good, Job
  <2> HIDE DEF new
  <2>2. QED
    BY <1>5, <1>6, <2>1
<1>11. ASSUME NEW s \in Slot, "BG" \in a.rec[s].flag
       PROVE  \/ bg /\ a.rec[s].pid = p /\ "DONE" \notin a.rec[s].flag
              \/ /\ "BG" \in j.rec[s].flag /\ a.rec[s].pid = j.rec[s].pid
                 /\ "DONE" \in a.rec[s].flag => "DONE" \in j.rec[s].flag
  <2>1. CASE s = h
    <3>1. a.rec[s] = new
      BY <1>10, <2>1
    <3>2. new.pid = p /\ "DONE" \notin new.flag /\ ("BG" \in new.flag => bg)
      BY DEF NewRecord
    <3> HIDE DEF new
    <3>3. QED
      BY <1>11, <3>1, <3>2
  <2>2. CASE s # h
    <3>1. a.rec[s] = b.rec[s]
      BY <1>10, <2>2
    <3>2. QED
      BY <1>1, <1>11, <3>1 DEF Steady, Lean, Undone
  <2>3. QED
    BY <2>1, <2>2
<1>12. PostAs(j, a, p, bg)
  BY <1>6, <1>7, <1>8, <1>9, <1>11 DEF PostAs
<1>13. QED
  BY <1>12 DEF a

(* What a reaped process leaves. *)
RecordEndAs(j, a, p) ==
    /\ Good(a) /\ Lean(j, a) /\ Len(a.pwlist) <= Len(j.pwlist)
    /\ a.in_critical = j.in_critical /\ Len(a.bck) = Len(j.bck)
    /\ a.numbjob = IF Background(j, p) THEN j.numbjob - 1 ELSE j.numbjob
    /\ \A s \in Slot : {"BG", "DONE"} \subseteq a.rec[s].flag =>
          a.rec[s].pid = p \/ "DONE" \in j.rec[s].flag

LEMMA RecordEndIs ==
    ASSUME NEW j, Good(j), NEW p \in Pid, NEW x \in Status \cup {0}, NEW trapped \in BOOLEAN
    PROVE  RecordEndAs(j, RecordEnd(j, p, x, trapped), p)
<1> DEFINE c == IF x = 0 THEN job_chksave(j, p) ELSE j
           b == [c EXCEPT !.waitsafe = Bump(c.waitsafe)]
           a == RecordEnd(j, p, x, trapped)
           s == job_bypid(b, p)
           bg == Background(b, p)
           new == [b.rec[s] EXCEPT !.exit = x,
                      !.flag = (@ \cup {"DONE"} \cup IF bg THEN {"NOTIFY"} ELSE {})
                                  \ IF trapped THEN {} ELSE {"BG"}]
<1>1. Good(c) /\ Steady(j, c) /\ c.rec = j.rec /\ c.pwlist = j.pwlist
  <2>1. Len(j.pwlist) \in Nat
    BY DEF Good, Job
  <2>2. CASE x = 0
    <3>1. c = job_chksave(j, p)
      BY <2>2
    <3>2. QED
      BY <3>1, ChksaveIs
  <2>3. CASE x # 0
    BY <2>1, <2>3, SteadyOnce
  <2>4. QED
    BY <2>2, <2>3
<1>2. a = IF s = 0 THEN jobsave_create(b, p, x)
          ELSE [b EXCEPT !.rec[s].exit = x,
                      !.rec[s].flag = (@ \cup {"DONE"} \cup IF bg THEN {"NOTIFY"} ELSE {})
                                         \ IF trapped THEN {} ELSE {"BG"},
                      !.numbjob = IF bg THEN @ - 1 ELSE @]
  <2>1. b = [IF x = 0 THEN job_chksave(j, p) ELSE j EXCEPT !.waitsafe = Bump(@)]
    OBVIOUS
  <2> HIDE DEF b
  <2>2. QED
    BY <2>1 DEF RecordEnd
<1> HIDE DEF c, a
<1>3. /\ b \in Job /\ b.pwlist = c.pwlist /\ b.freelist = c.freelist /\ b.rec = c.rec
      /\ b.bck = c.bck /\ b.numbjob = c.numbjob /\ b.in_critical = c.in_critical
  <2>1. c \in Job
    BY <1>1 DEF Good
  <2>2. Bump(c.waitsafe) \in 0..WaitsafeMod - 1
    BY <2>1, LimitAssumption DEF Job, Bump
  <2>3. QED
    BY <2>1, <2>2 DEF Job
<1> HIDE DEF b
<1>4. Good(b) /\ Lean(c, b) /\ Undone(c, b)
  BY <1>1, <1>3, Scalars
<1>5. b.rec = j.rec /\ b.pwlist = j.pwlist /\ b.numbjob = j.numbjob
      /\ b.in_critical = j.in_critical /\ Len(b.bck) = Len(j.bck)
  BY <1>1, <1>3 DEF Steady, Counters
<1>6. job_bypid(j, p) = s
  BY <1>5, BypidSame
<1>7. Background(j, p) <=> bg
  BY <1>5, <1>6 DEF Background, Flag
<1>8. s \in Slot \cup {0} /\ (s # 0 => Contains(b.pwlist, s) /\ b.rec[s].pid = p)
  BY <1>4, BypidSlot
<1>9. Len(j.pwlist) \in Nat
  BY DEF Good, Job
<1>10. CASE s = 0
  <2>1. a = jobsave_create(b, p, x)
    BY <1>2, <1>10
  <2>2. Good(a) /\ Steady(b, a) /\ a.rec = b.rec /\ a.pwlist = b.pwlist
    BY <1>4, <2>1, CreateIs
  <2>3. ~bg
    BY <1>10 DEF Background
  <2>4. a.numbjob = j.numbjob /\ a.in_critical = j.in_critical /\ Len(a.bck) = Len(j.bck)
    BY <1>5, <2>2 DEF Steady, Counters
  <2>5. a.rec = j.rec /\ Len(a.pwlist) <= Len(j.pwlist)
    BY <1>5, <1>9, <2>2
  <2>6. Lean(j, a) /\ \A t \in Slot : {"BG", "DONE"} \subseteq a.rec[t].flag => "DONE" \in j.rec[t].flag
    BY <2>5 DEF Lean
  <2>7. RecordEndAs(j, a, p)
    BY <1>7, <2>2, <2>3, <2>4, <2>5, <2>6 DEF RecordEndAs
  <2>8. QED
    BY <2>7 DEF a
<1>11. CASE s # 0
  <2> DEFINE nb == IF bg THEN b.numbjob - 1 ELSE b.numbjob
  <2>1. b.rec \in [Slot -> Process] /\ s \in Slot /\ b.rec[s] \in Process /\ b.numbjob \in Int
    BY <1>3, <1>8, <1>11 DEF Job
  <2>2. /\ new \in Process /\ new.pid = p /\ ("BG" \in new.flag => "BG" \in b.rec[s].flag)
    BY <1>8, <1>11, <2>1 DEF Process
  <2>3. a = [b EXCEPT !.rec = [b.rec EXCEPT ![s] = new], !.numbjob = nb]
    <3>1. a = [b EXCEPT !.rec[s].exit = x,
                      !.rec[s].flag = (@ \cup {"DONE"} \cup IF bg THEN {"NOTIFY"} ELSE {})
                                         \ IF trapped THEN {} ELSE {"BG"},
                      !.numbjob = IF bg THEN @ - 1 ELSE @]
      BY <1>2, <1>11
    <3> DEFINE F == (b.rec[s].flag \cup {"DONE"} \cup IF bg THEN {"NOTIFY"} ELSE {})
                       \ IF trapped THEN {} ELSE {"BG"}
    <3>2. a = [b EXCEPT !.rec[s].exit = x, !.rec[s].flag = F, !.numbjob = nb]
      <4> HIDE DEF s, bg
      <4>1. QED
        BY <1>3, <2>1, <3>1 DEF Job, Process
    <3>3. new = [b.rec[s] EXCEPT !.exit = x, !.flag = F]
      <4> HIDE DEF s, bg
      <4>1. QED
        BY <2>1 DEF Process
    <3> HIDE DEF F, new, nb, s
    <3>4. QED
      BY <1>3, <2>1, <3>2, <3>3 DEF Job, Process
  <2>4. nb \in Int
    BY <2>1
  <2> HIDE DEF new, nb, s, bg
  <2>5. /\ a \in Job /\ a.rec = [b.rec EXCEPT ![s] = new] /\ a.numbjob = nb
        /\ a.pwlist = b.pwlist /\ a.freelist = b.freelist /\ a.bck = b.bck
        /\ a.in_critical = b.in_critical
    BY <1>3, <2>1, <2>2, <2>3, <2>4 DEF Job
  <2>6. \A t \in Slot : a.rec[t] = IF t = s THEN new ELSE b.rec[t]
    BY <2>1, <2>5
  <2>7. Good(a) /\ Lean(b, a)
    <3>1. \A t \in Slot : /\ a.rec[t].pid = b.rec[t].pid
                          /\ "BG" \in a.rec[t].flag => "BG" \in b.rec[t].flag
                          /\ ~Contains(b.pwlist, t) => a.rec[t] = b.rec[t]
      BY <1>8, <1>11, <2>2, <2>6
    <3>2. QED
      BY <1>4, <2>5, <3>1, RecordsOnly
  <2>8. Lean(j, a)
    BY <1>5, <2>7 DEF Lean
  <2>9. \A t \in Slot : {"BG", "DONE"} \subseteq a.rec[t].flag =>
                     a.rec[t].pid = p \/ "DONE" \in j.rec[t].flag
    BY <1>5, <2>2, <2>6
  <2>10. a.numbjob = IF Background(j, p) THEN j.numbjob - 1 ELSE j.numbjob
    BY <1>5, <1>7, <2>5 DEF nb
  <2>11. Len(a.pwlist) <= Len(j.pwlist) /\ a.in_critical = j.in_critical /\ Len(a.bck) = Len(j.bck)
    BY <1>5, <1>9, <2>5
  <2>12. RecordEndAs(j, a, p)
    BY <2>7, <2>8, <2>9, <2>10, <2>11 DEF RecordEndAs
  <2>13. QED
    BY <2>12 DEF a
<1>12. QED
  BY <1>10, <1>11 DEF a

(* The scalars of the job table. *)
Same(j, a) ==
    /\ a \in Job /\ a.pwlist = j.pwlist /\ a.freelist = j.freelist /\ a.rec = j.rec
    /\ a.bck = j.bck

LEMMA LockIs ==
    ASSUME NEW j, Good(j)
    PROVE  /\ Same(j, job_lock(j)) /\ Good(job_lock(j)) /\ Lean(j, job_lock(j)) /\ Undone(j, job_lock(j))
           /\ job_lock(j).numbjob = j.numbjob /\ job_lock(j).evicted = j.evicted
           /\ job_lock(j).in_critical = (j.in_critical + 1) % CriticalMod
           /\ job_lock(j).savesig = j.savesig /\ job_lock(j).waitsafe = j.waitsafe
<1> DEFINE n == (j.in_critical + 1) % CriticalMod
           a == job_lock(j)
<1>1. j \in Job /\ n \in 0..CriticalMod - 1
  BY LimitAssumption DEF Good, Job
<1>2. a = [j EXCEPT !.in_critical = n]
  BY <1>1 DEF job_lock
<1> HIDE DEF n, a
<1>3. Same(j, a) /\ a.numbjob = j.numbjob /\ a.evicted = j.evicted /\ a.in_critical = n
      /\ a.savesig = j.savesig /\ a.waitsafe = j.waitsafe
  BY <1>1, <1>2 DEF Job, Same
<1>4. Good(a) /\ Lean(j, a) /\ Undone(j, a)
  BY <1>3, Scalars DEF Same
<1>5. QED
  BY <1>3, <1>4 DEF a, n

LEMMA StartReapIs ==
    ASSUME NEW j, Good(j)
    PROVE  /\ Same(j, StartReap(j)) /\ Good(StartReap(j)) /\ Steady(j, StartReap(j))
           /\ StartReap(j).evicted = j.evicted /\ StartReap(j).savesig = FALSE
<1> DEFINE a == StartReap(j)
<1>1. j \in Job /\ Len(j.pwlist) \in Nat /\ FALSE \in BOOLEAN
  BY DEF Good, Job
<1>2. a = [j EXCEPT !.savesig = FALSE]
  BY DEF StartReap
<1> HIDE DEF a
<1>3. Same(j, a) /\ a.numbjob = j.numbjob /\ a.evicted = j.evicted /\ a.savesig = FALSE
      /\ a.in_critical = j.in_critical /\ a.waitsafe = j.waitsafe
  BY <1>1, <1>2 DEF Job, Same
<1>4. Good(a) /\ Lean(j, a) /\ Undone(j, a)
  BY <1>3, Scalars DEF Same
<1>5. Steady(j, a)
  BY <1>1, <1>3, <1>4 DEF Steady, Counters, Same
<1>6. QED
  BY <1>3, <1>4, <1>5 DEF a

(* Flags are taken away from the records of a set. *)
LEMMA FlagsOnly ==
    ASSUME NEW j, Good(j), NEW a, a = [j EXCEPT !.rec = a.rec], a.rec \in [Slot -> Process],
           \A s \in Slot : /\ a.rec[s].pid = j.rec[s].pid
                           /\ a.rec[s].flag \subseteq j.rec[s].flag
                           /\ ~Contains(j.pwlist, s) => a.rec[s] = j.rec[s]
    PROVE  Good(a) /\ Steady(j, a) /\ a.bck = j.bck /\ a.evicted = j.evicted /\ a.pwlist = j.pwlist
<1>1. j \in Job /\ Len(j.pwlist) \in Nat
  BY DEF Good, Job
<1>2. /\ a \in Job /\ a.pwlist = j.pwlist /\ a.freelist = j.freelist /\ a.bck = j.bck
      /\ a.evicted = j.evicted /\ a.numbjob = j.numbjob /\ a.in_critical = j.in_critical
      /\ a.waitsafe = j.waitsafe
  BY <1>1 DEF Job
<1>3. Good(a) /\ Lean(j, a)
  BY <1>2, RecordsOnly
<1>4. Undone(j, a)
  BY DEF Undone
<1>5. QED
  BY <1>1, <1>2, <1>3, <1>4 DEF Steady, Counters

LEMMA NoticeIs ==
    ASSUME NEW j, Good(j), NEW s \in Slot \cup {0}
    PROVE  Good(Notice(j, s)) /\ Steady(j, Notice(j, s))
<1>1. Len(j.pwlist) \in Nat
  BY DEF Good, Job
<1>2. CASE Monitor \/ s = 0
  BY <1>1, <1>2, SteadyOnce DEF Notice
<1>3. CASE ~(Monitor \/ s = 0)
  <2>1. Flag(j, s) \ {"NOTIFY"} \in SUBSET Flag(j, s) /\ s \in Slot
    BY <1>3
  <2>2. Notice(j, s) = SetFlag(j, s, Flag(j, s) \ {"NOTIFY"})
    BY <1>3 DEF Notice
  <2> DEFINE F == Flag(j, s) \ {"NOTIFY"}
             a == SetFlag(j, s, F)
  <2>3. Good(a) /\ Steady(j, a)
    <3> HIDE DEF F
    <3>1. QED
      BY <2>1, SetFlagIs DEF F
  <2>4. QED
    BY <2>2, <2>3
<1>4. QED
  BY <1>2, <1>3

LEMMA TrapTakenIs ==
    ASSUME NEW j, Good(j), NEW s \in Slot
    PROVE  /\ Good(TrapTaken(j, s)) /\ Steady(j, TrapTaken(j, s))
           /\ TrapTaken(j, s).rec = [j.rec EXCEPT ![s] = [j.rec[s] EXCEPT !.flag = @ \ {"BG"}]]
<1>1. Flag(j, s) \ {"BG"} \in SUBSET Flag(j, s)
  OBVIOUS
<1> DEFINE F == Flag(j, s) \ {"BG"}
           a == SetFlag(j, s, F)
<1>2. Good(a) /\ Steady(j, a) /\ a.rec = [j.rec EXCEPT ![s] = [j.rec[s] EXCEPT !.flag = F]]
  <2>1. F \in SUBSET Flag(j, s)
    BY <1>1
  <2> HIDE DEF F
  <2>2. QED
    BY <2>1, SetFlagIs
<1>3. j.rec \in [Slot -> Process]
  BY DEF Good, Job
<1>4. [j.rec EXCEPT ![s] = [j.rec[s] EXCEPT !.flag = F]]
        = [j.rec EXCEPT ![s] = [j.rec[s] EXCEPT !.flag = @ \ {"BG"}]]
  BY <1>3 DEF Process, Flag
<1>5. QED
  BY <1>2, <1>4 DEF TrapTaken

(* p_nxtjob *)
LEMMA NextIs ==
    ASSUME NEW j, Good(j), NEW s \in Slot
    PROVE  p_nxtjob(j, s) \in Slot \cup {0}
<1> DEFINE q == IF Contains(j.pwlist, s) THEN j.pwlist ELSE j.freelist
           I == {i \in 1..Len(q) : q[i] = s}
           i == SelectInSeq(q, LAMBDA x : x = s)
<1>1. q \in Seq(Slot)
  BY DEF Good, Job
<1>2. p_nxtjob(j, s) = IF i = Len(q) THEN 0 ELSE q[i + 1]
  BY DEF p_nxtjob
<1>3. i = IF I = {} THEN 0 ELSE Min(I)
  BY DEF SelectInSeq
<1> DEFINE n == Len(q)
<1> HIDE DEF i, q
<1>4. n \in Nat /\ I \in SUBSET (1..n)
  BY <1>1
<1>5. i \in 0..n
  <2> HIDE DEF n, I
  <2>1. CASE I = {}
    BY <1>3, <1>4, <2>1
  <2>2. CASE I # {}
    <3>1. Min(I) \in I
      BY <1>4, <2>2, FirstOf
    <3>2. i = Min(I)
      BY <1>3, <2>2
    <3>3. Min(I) \in 1..n
      BY <1>4, <3>1
    <3>4. \A x \in 1..n : x \in 0..n
      BY <1>4
    <3>5. QED
      BY <3>2, <3>3, <3>4, Zenon
  <2>3. QED
    BY <2>1, <2>2
<1>6. CASE i = n
  BY <1>2, <1>6
<1>7. CASE i # n
  <2>1. i + 1 \in 1..n
    BY <1>4, <1>5, <1>7
  <2>2. QED
    BY <1>1, <1>2, <1>7, <2>1
<1>8. QED
  BY <1>6, <1>7

LEMMA SavedStatusIs ==
    ASSUME NEW j, Good(j), NEW p
    PROVE  SavedStatus(j, p) \in Status \cup {0, -1}
<1> DEFINE n == SavedAt(j, p)
<1>1. CASE n = 0
  BY <1>1 DEF SavedStatus
<1>2. CASE n # 0
  <2>1. j.bck \in Seq(Seq(Saved)) /\ n \in 1..Len(j.bck)
    BY <1>2, SavedAtIs DEF Good, Job
  <2>2. j.bck[n] \in Seq(Saved) /\ \E i \in 1..Len(j.bck[n]) : j.bck[n][i].pid = p
    BY <1>2, <2>1, SavedAtIs
  <2>3. Entry(j.bck[n], p) \in 1..Len(j.bck[n])
    BY <2>2, EntryIs
  <2>4. SavedStatus(j, p) = j.bck[n][Entry(j.bck[n], p)].exitval
    BY <1>2 DEF SavedStatus, Entry
  <2> HIDE DEF n
  <2>5. j.bck[n][Entry(j.bck[n], p)] \in Saved
    BY <2>2, <2>3
  <2>6. QED
    BY <2>4, <2>5 DEF Saved
<1>3. QED
  BY <1>1, <1>2

(* The lists of saved statuses come or go. *)
LEMMA ListsChange ==
    ASSUME NEW j, Good(j), NEW b \in Seq(Seq(Saved)), b # <<>>, NEW e \in SUBSET Pid,
           \A n \in 1..Len(b) : Len(b[n]) <= CHILD_MAX,
           NEW a, a = WithLists(j, b, e)
    PROVE  /\ Good(a) /\ Lean(j, a) /\ Undone(j, a) /\ a.bck = b /\ a.evicted = e
           /\ a.rec = j.rec /\ a.pwlist = j.pwlist /\ a.numbjob = j.numbjob
           /\ a.in_critical = j.in_critical /\ a.waitsafe = j.waitsafe
<1>1. j \in Job
  BY DEF Good
<1>2. /\ a \in Job /\ a.bck = b /\ a.rec = j.rec /\ a.pwlist = j.pwlist /\ a.evicted = e
      /\ a.freelist = j.freelist /\ a.numbjob = j.numbjob /\ a.in_critical = j.in_critical
      /\ a.waitsafe = j.waitsafe
  BY <1>1 DEF WithLists, Job
<1>3. Lists(a)
  BY <1>2 DEF Lists
<1>4. Good(a)
  BY <1>2, <1>3 DEF Good, Table, Behind
<1>5. Lean(j, a) /\ Undone(j, a)
  BY <1>2 DEF Lean, Undone
<1>6. QED
  BY <1>2, <1>4, <1>5

(* job_subsave *)
LEMMA SubsaveIs ==
    ASSUME NEW j, Good(j)
    PROVE  LET a == [j EXCEPT !.bck = Append(@, <<>>)]
           IN  /\ Good(a) /\ Lean(j, a) /\ Undone(j, a) /\ Len(a.bck) = Len(j.bck) + 1
               /\ a.rec = j.rec /\ a.pwlist = j.pwlist /\ a.numbjob = j.numbjob
               /\ a.in_critical = j.in_critical /\ a.evicted = j.evicted
<1> DEFINE b == Append(j.bck, <<>>)
           a == [j EXCEPT !.bck = Append(@, <<>>)]
           n == Len(j.bck)
<1>1. /\ j \in Job /\ j.bck \in Seq(Seq(Saved)) /\ j.evicted \in SUBSET Pid /\ n \in Nat
      /\ \A i \in 1..n : Len(j.bck[i]) <= CHILD_MAX
  BY DEF Good, Job, Lists
<1>2. /\ b \in Seq(Seq(Saved)) /\ Len(b) = n + 1 /\ b[n + 1] = <<>> /\ Len(<<>>) = 0
      /\ \A i \in 1..n : b[i] = j.bck[i]
  BY <1>1
<1>3. a = WithLists(j, b, j.evicted)
  BY <1>1 DEF Job, WithLists
<1> HIDE DEF a, b, n
<1>4. \A i \in 1..Len(b) : Len(b[i]) <= CHILD_MAX
  <2>1. \A i \in 1..n + 1 : i \in 1..n \/ i = n + 1
    BY <1>1
  <2>2. Len(b[n + 1]) = 0
    BY <1>2, Zenon
  <2>3. 0 <= CHILD_MAX
    BY LimitAssumption
  <2>4. QED
    BY <1>1, <1>2, <2>1, <2>2, <2>3
<1>5. b # <<>>
  BY <1>1, <1>2
<1>6. /\ Good(a) /\ Lean(j, a) /\ Undone(j, a) /\ a.bck = b /\ a.evicted = j.evicted
      /\ a.rec = j.rec /\ a.pwlist = j.pwlist /\ a.numbjob = j.numbjob
      /\ a.in_critical = j.in_critical
  BY <1>1, <1>2, <1>3, <1>4, <1>5, ListsChange
<1>7. QED
  BY <1>2, <1>6 DEF a, n

(* job_subrestore *)
LEMMA PrefixIs ==
    ASSUME NEW T, NEW s \in Seq(T), NEW k \in 0..Len(s)
    PROVE  /\ SubSeq(s, 1, k) \in Seq(T) /\ Len(SubSeq(s, 1, k)) = k
           /\ \A i \in 1..k : SubSeq(s, 1, k)[i] = s[i]
  OBVIOUS

LEMMA MergedIs ==
    ASSUME NEW b \in Seq(Seq(Saved)), Len(b) >= 2
    PROVE  /\ Merged(b) \in Seq(Seq(Saved)) /\ Len(Merged(b)) = Len(b) - 1
           /\ \A n \in 1..Len(b) - 2 : Merged(b)[n] = b[n]
           /\ Merged(b)[Len(b) - 1] = b[Len(b)] \o b[Len(b) - 1]
<1> DEFINE n == Len(b)
           u == SubSeq(b, 1, n - 2)
           v == <<b[n] \o b[n - 1]>>
<1>1. n \in Nat /\ n >= 2
  OBVIOUS
<1>2. b[n] \in Seq(Saved) /\ b[n - 1] \in Seq(Saved)
  BY <1>1
<1>3. v \in Seq(Seq(Saved)) /\ Len(v) = 1 /\ v[1] = b[n] \o b[n - 1]
  <2>1. b[n] \o b[n - 1] \in Seq(Saved)
    BY <1>2, ConcatIs
  <2>2. \A x \in Seq(Saved) : <<x>> \in Seq(Seq(Saved)) /\ Len(<<x>>) = 1 /\ <<x>>[1] = x
    OBVIOUS
  <2>3. QED
    BY <2>1, <2>2, Zenon
<1>4. u \in Seq(Seq(Saved)) /\ Len(u) = n - 2 /\ \A i \in 1..n - 2 : u[i] = b[i]
  <2>1. n - 2 \in 0..Len(b)
    BY <1>1
  <2>2. QED
    BY <2>1, PrefixIs
<1>5. Merged(b) = u \o v
  BY DEF Merged
<1> HIDE DEF u, v
<1>6. /\ u \o v \in Seq(Seq(Saved)) /\ Len(u \o v) = (n - 2) + 1
      /\ \A i \in 1..n - 2 : (u \o v)[i] = u[i]
      /\ \A i \in 1..1 : (u \o v)[(n - 2) + i] = v[i]
  <2> HIDE DEF n
  <2>1. /\ u \o v \in Seq(Seq(Saved)) /\ Len(u \o v) = Len(u) + Len(v)
        /\ \A i \in 1..Len(u) : (u \o v)[i] = u[i]
        /\ \A i \in 1..Len(v) : (u \o v)[Len(u) + i] = v[i]
    <3> DEFINE T == Seq(Saved)
    <3>1. u \in Seq(T) /\ v \in Seq(T)
      BY <1>3, <1>4
    <3> HIDE DEF T
    <3>2. u \o v \in Seq(T) /\ Len(u \o v) = Len(u) + Len(v)
      BY <3>1, ConcatIs
    <3>3. /\ \A i \in 1..Len(u) : (u \o v)[i] = u[i]
          /\ \A i \in 1..Len(v) : (u \o v)[Len(u) + i] = v[i]
      BY <3>1, ConcatIs
    <3>4. QED
      BY <3>2, <3>3 DEF T
  <2>2. Len(u) = n - 2 /\ Len(v) = 1
    BY <1>3, <1>4
  <2>3. QED
    BY <2>1, <2>2, Zenon
<1>7. (n - 2) + 1 = n - 1 /\ 1 \in 1..1
  BY <1>1
<1> HIDE DEF n
<1>8. QED
  BY <1>3, <1>4, <1>5, <1>6, <1>7 DEF n

SubrestoreAs(j, a) ==
    /\ Good(a) /\ Lean(j, a) /\ a.numbjob = j.numbjob /\ a.in_critical = j.in_critical
    /\ Len(a.bck) = Len(j.bck) - 1 /\ Len(a.pwlist) <= Len(j.pwlist)

LEMMA ExcessIs ==
    ASSUME NEW j, Good(j), Len(j.bck) >= 2
    PROVE  LET a == DropExcess([j EXCEPT !.bck = Merged(@)])
           IN  SubrestoreAs(j, a) /\ Undone(j, a) /\ a.rec = j.rec /\ a.pwlist = j.pwlist
<1> DEFINE m == Merged(j.bck)
           c == [j EXCEPT !.bck = Merged(@)]
           a == DropExcess(c)
           n == Len(j.bck) - 1
           d == Dropped(m)
           k == Len(m[n]) - Len(d)
           l == SubSeq(m[n], 1, k)
           b == [m EXCEPT ![n] = l]
           e == j.evicted \cup {x.pid : x \in Range(d)}
<1>1. /\ j \in Job /\ j.bck \in Seq(Seq(Saved)) /\ j.evicted \in SUBSET Pid /\ Len(j.bck) \in Nat
      /\ \A i \in 1..Len(j.bck) : Len(j.bck[i]) <= CHILD_MAX
  BY DEF Good, Job, Lists
<1>2. n \in Nat \ {0} /\ n - 1 = Len(j.bck) - 2 /\ n = Len(j.bck) - 1
      /\ \A i \in 1..n - 1 : i \in 1..Len(j.bck)
  BY <1>1
<1>3. m \in Seq(Seq(Saved)) /\ Len(m) = n /\ \A i \in 1..n - 1 : m[i] = j.bck[i]
  BY <1>1, <1>2, MergedIs
<1>4. m # <<>> /\ Last(m) = m[n] /\ m[n] \in Seq(Saved) /\ Len(m[n]) \in Nat
  <2> HIDE DEF m, n
  <2>1. QED
    BY <1>2, <1>3 DEF Last
<1>5. d \in Seq(Saved) /\ k \in 0..Len(m[n]) /\ k <= CHILD_MAX
  <2> DEFINE w == m[n]
             v == Len(w)
  <2>1. d = IF v > CHILD_MAX THEN SubSeq(w, CHILD_MAX + 1, v) ELSE <<>>
    BY <1>4 DEF Dropped
  <2>2. w \in Seq(Saved) /\ v \in Nat
    BY <1>4
  <2> HIDE DEF d, w, m, n
  <2>3. CASE v > CHILD_MAX
    <3>1. SubSeq(w, CHILD_MAX + 1, v) \in Seq(Saved) /\ Len(SubSeq(w, CHILD_MAX + 1, v)) = v - CHILD_MAX
      BY <2>2, <2>3, LimitAssumption
    <3>2. Len(d) = v - CHILD_MAX /\ d \in Seq(Saved)
      BY <2>1, <2>3, <3>1
    <3> HIDE DEF v
    <3>3. QED
      BY <2>2, <2>3, <3>2, LimitAssumption DEF v, w
  <2>4. CASE ~(v > CHILD_MAX)
    <3>1. d = <<>> /\ Len(d) = 0 /\ d \in Seq(Saved)
      BY <2>1, <2>4
    <3> HIDE DEF v
    <3>2. QED
      BY <2>2, <2>4, <3>1, LimitAssumption DEF v, w
  <2>5. QED
    BY <2>3, <2>4
<1>6. l \in Seq(Saved) /\ Len(l) = k
  <2> HIDE DEF m, n, k
  <2>1. QED
    BY <1>4, <1>5
<1>7. e \in SUBSET Pid
  <2> HIDE DEF d
  <2>1. \A x \in Range(d) : x \in Saved
    BY <1>5 DEF Range
  <2>2. QED
    BY <1>1, <2>1 DEF Saved
<1>9. c.bck = m /\ c.evicted = j.evicted /\ c = [j EXCEPT !.bck = m]
  BY <1>1 DEF Job
<1>10. a = [c EXCEPT !.bck = [m EXCEPT ![n] = l], !.evicted = e]
  <2>1. Len(c.bck) = n /\ Dropped(c.bck) = d /\ c.bck[n] = m[n]
    BY <1>3, <1>9
  <2> HIDE DEF c, m, n, d
  <2>2. a = [c EXCEPT !.bck = [c.bck EXCEPT ![Len(c.bck)] =
                                  SubSeq(c.bck[Len(c.bck)], 1, Len(c.bck[Len(c.bck)]) - Len(Dropped(c.bck)))],
                      !.evicted = c.evicted \cup {x.pid : x \in Range(Dropped(c.bck))}]
    <3>1. n \in DOMAIN m
      BY <1>2, <1>3
    <3>2. QED
      BY <1>9, <2>1, <3>1, <1>1 DEF DropExcess, Job
  <2>3. QED
    BY <1>9, <2>1, <2>2
<1>11. a = WithLists(j, b, e)
  <2> HIDE DEF c, m, a, e, l
  <2>1. QED
    BY <1>1, <1>9, <1>10 DEF WithLists, Job
<1>12. b \in Seq(Seq(Saved)) /\ Len(b) = n /\ b # <<>>
      /\ \A i \in 1..n : b[i] = IF i = n THEN l ELSE m[i]
  <2> HIDE DEF l, m, n
  <2>1. b \in Seq(Seq(Saved)) /\ Len(b) = n
    BY <1>2, <1>3, <1>6
  <2>2. QED
    BY <1>2, <1>3, <2>1
<1> HIDE DEF a, b, e, l, m, c, d, k
<1>13. \A i \in 1..Len(b) : Len(b[i]) <= CHILD_MAX
  <2>1. \A i \in 1..n : i = n \/ i \in 1..n - 1
    BY <1>2
  <2> HIDE DEF n
  <2>2. QED
    BY <1>1, <1>2, <1>3, <1>5, <1>6, <1>12, <2>1
<1>14. /\ Good(a) /\ Lean(j, a) /\ Undone(j, a) /\ a.bck = b /\ a.rec = j.rec
       /\ a.pwlist = j.pwlist /\ a.numbjob = j.numbjob /\ a.in_critical = j.in_critical
  BY <1>7, <1>11, <1>12, <1>13, ListsChange
<1>15. Len(j.pwlist) \in Nat
  BY <1>1 DEF Job
<1>16. SubrestoreAs(j, a)
  BY <1>2, <1>12, <1>14, <1>15 DEF SubrestoreAs
<1>17. QED
  BY <1>14, <1>16 DEF a, c

LEMMA MarkDoneIs ==
    ASSUME NEW j, Good(j), NEW env
    PROVE  LET a == MarkDone(j, env)
           IN  Good(a) /\ Lean(j, a) /\ Counters(j, a) /\ a.pwlist = j.pwlist
<1> DEFINE rec == [s \in Slot |-> IF Contains(j.pwlist, s) /\ j.rec[s].env = env
                                 THEN [j.rec[s] EXCEPT !.flag = @ \cup {"DONE"}] ELSE j.rec[s]]
           a == MarkDone(j, env)
<1>1. j \in Job /\ j.rec \in [Slot -> Process]
  BY DEF Good, Job
<1>2. a = [j EXCEPT !.rec = rec]
  BY DEF MarkDone
<1>3. \A s \in Slot : /\ rec[s] \in Process /\ rec[s].pid = j.rec[s].pid
                      /\ "BG" \in rec[s].flag => "BG" \in j.rec[s].flag
                      /\ ~Contains(j.pwlist, s) => rec[s] = j.rec[s]
  BY <1>1 DEF Process
<1>4. rec \in [Slot -> Process]
  BY <1>3
<1> HIDE DEF rec, a
<1>5. /\ a \in Job /\ a.pwlist = j.pwlist /\ a.freelist = j.freelist /\ a.bck = j.bck
      /\ a.rec = rec /\ a.numbjob = j.numbjob /\ a.in_critical = j.in_critical
      /\ a.waitsafe = j.waitsafe
  BY <1>1, <1>2, <1>4 DEF Job
<1>6. Good(a) /\ Lean(j, a)
  BY <1>3, <1>5, RecordsOnly
<1>7. QED
  BY <1>5, <1>6 DEF a, Counters

LEMMA SubrestoreIs ==
    ASSUME NEW j, Good(j), Len(j.bck) >= 2, NEW env
    PROVE  SubrestoreAs(j, job_subrestore(j, env))
<1> DEFINE c == DropExcess([j EXCEPT !.bck = Merged(@)])
           b == MarkDone(c, env)
           S == {s \in Slot : b.rec[s].env = env}
           a == Unposted(b, S)
<1>1. job_subrestore(j, env) = a
  BY DEF job_subrestore
<1>2. SubrestoreAs(j, c)
  BY ExcessIs
<1> HIDE DEF c
<1>3. Good(b) /\ Lean(c, b) /\ Counters(c, b) /\ b.pwlist = c.pwlist
  BY <1>2, MarkDoneIs DEF SubrestoreAs
<1> HIDE DEF b, S
<1>4. Good(a) /\ Steady(b, a)
  BY <1>3, UnpostedIs
<1> HIDE DEF a
<1>5. Len(a.pwlist) \in Nat /\ Len(b.pwlist) \in Nat /\ Len(c.pwlist) \in Nat /\ Len(j.pwlist) \in Nat
  <2>1. \A x \in Job : Len(x.pwlist) \in Nat
    BY DEF Job
  <2>2. a \in Job /\ b \in Job /\ c \in Job /\ j \in Job
    BY <1>2, <1>3, <1>4 DEF SubrestoreAs, Good
  <2>3. QED
    BY <2>1, <2>2
<1>6. Lean(j, a)
  BY <1>2, <1>3, <1>4 DEF SubrestoreAs, Lean, Steady
<1>7. a.numbjob = j.numbjob /\ a.in_critical = j.in_critical /\ Len(a.bck) = Len(j.bck) - 1
  BY <1>2, <1>3, <1>4 DEF SubrestoreAs, Steady, Counters
<1>8. Len(a.pwlist) <= Len(j.pwlist)
  BY <1>2, <1>3, <1>4, <1>5 DEF SubrestoreAs, Steady
<1>9. QED
  BY <1>1, <1>4, <1>6, <1>7, <1>8 DEF SubrestoreAs

-------------------------------------------------------------------------------
(* The stack. *)

Founded(s) == s \in Seq(Frame) /\ s # <<>> /\ s[1].fn = "main"

LEMMA ReturnIs ==
    ASSUME Founded(stack), Top.fn # "main"
    PROVE  /\ Founded(Caller) /\ Top \in Frame
           /\ \A T : Number(Caller, T) = IF Top \in T THEN Number(stack, T) - 1 ELSE Number(stack, T)
<1> DEFINE n == Len(stack)
<1>1. /\ Caller \in Seq(Frame) /\ Len(Caller) = n - 1 /\ n \in Nat \ {0}
      /\ \A i \in 1..n - 1 : Caller[i] = stack[i]
  BY FrontIs DEF Founded, Caller
<1>2. n # 1
  BY DEF Founded, Top
<1>3. Top \in Frame
  BY <1>1 DEF Founded, Top
<1>4. Founded(Caller)
  <2> HIDE DEF n
  <2>1. 1 \in 1..n - 1 /\ Len(Caller) # 0
    BY <1>1, <1>2
  <2>2. QED
    BY <1>1, <2>1 DEF Founded
<1>5. \A T : Number(Caller, T) = IF Top \in T THEN Number(stack, T) - 1 ELSE Number(stack, T)
  BY NumberFront DEF Founded, Caller, Top
<1>6. QED
  BY <1>3, <1>4, <1>5

LEMMA PushIs ==
    ASSUME NEW s, Founded(s), NEW f \in Frame
    PROVE  /\ Founded(Append(s, f))
           /\ \A T : Number(Append(s, f), T) = IF f \in T THEN Number(s, T) + 1 ELSE Number(s, T)
<1>1. s \in Seq(Frame) /\ Len(s) \in Nat \ {0}
  BY DEF Founded
<1>2. Append(s, f) \in Seq(Frame) /\ Append(s, f) # <<>> /\ Append(s, f)[1] = s[1]
  BY <1>1
<1>3. QED
  BY <1>1, <1>2, NumberAppend DEF Founded

LEMMA ContinueIs ==
    ASSUME Founded(stack), NEW f \in Frame, Top.fn = "main" => f.fn = "main"
    PROVE  /\ Founded(Continue(f)) /\ Top \in Frame
           /\ \A T : /\ Number(Continue(f), T) \in Nat
                     /\ Number(Continue(f), T) + (IF Top \in T THEN 1 ELSE 0)
                          = Number(stack, T) + (IF f \in T THEN 1 ELSE 0)
<1> DEFINE n == Len(stack)
<1>1. /\ Caller \in Seq(Frame) /\ Len(Caller) = n - 1 /\ n \in Nat \ {0}
      /\ \A i \in 1..n - 1 : Caller[i] = stack[i]
  BY FrontIs DEF Founded, Caller
<1>2. Top \in Frame
  BY <1>1 DEF Founded, Top
<1>3. /\ Continue(f) \in Seq(Frame) /\ Len(Continue(f)) = n /\ Continue(f) # <<>>
      /\ \A i \in 1..n - 1 : Continue(f)[i] = stack[i]
      /\ Continue(f)[n] = f
  BY <1>1 DEF Continue
<1>4. Founded(Continue(f))
  <2>1. CASE n = 1
    <3>1. Top = stack[1]
      BY <2>1 DEF Top
    <3>2. QED
      BY <1>3, <2>1, <3>1 DEF Founded
  <2>2. CASE n # 1
    <3>1. 1 \in 1..n - 1
      BY <1>1, <2>2
    <3>2. QED
      BY <1>3, <3>1 DEF Founded
  <2>3. QED
    BY <2>1, <2>2
<1>5. ASSUME NEW T
      PROVE  /\ Number(Continue(f), T) \in Nat
             /\ Number(Continue(f), T) + (IF Top \in T THEN 1 ELSE 0)
                  = Number(stack, T) + (IF f \in T THEN 1 ELSE 0)
  <2>1. Number(Caller, T) = IF Top \in T THEN Number(stack, T) - 1 ELSE Number(stack, T)
    BY NumberFront DEF Founded, Caller, Top
  <2>2. Number(Continue(f), T) = IF f \in T THEN Number(Caller, T) + 1 ELSE Number(Caller, T)
    BY <1>1, NumberAppend DEF Continue
  <2>3. Number(stack, T) \in Nat /\ Number(Caller, T) \in Nat /\ Number(Continue(f), T) \in Nat
    BY <1>1, <1>3, NumberNat DEF Founded
  <2>4. QED
    BY <2>1, <2>2, <2>3
<1>6. QED
  BY <1>2, <1>4, <1>5

(* An activation that is on top counts. *)
LEMMA TopCounts ==
    ASSUME Founded(stack), NEW T, Top \in T
    PROVE  Number(stack, T) \in Nat \ {0}
<1>1. Number(Front(stack), T) = Number(stack, T) - 1
  BY NumberFront DEF Founded, Top
<1>2. Number(stack, T) \in Nat /\ Number(Front(stack), T) \in Nat
  BY NumberNat, FrontIs DEF Founded
<1>3. QED
  BY <1>1, <1>2

LEMMA NoneCount ==
    ASSUME NEW s \in Seq(Frame), NEW T, \A i \in 1..Len(s) : s[i] \notin T
    PROVE  Number(s, T) = 0
<1>1. {i \in 1..Len(s) : s[i] \in T} = {}
  OBVIOUS
<1>2. QED
  BY <1>1, FS_EmptySet DEF Number

(* What the counts below are about: forks whose child is not in the table,
   subshells, handlers, and forks of process p whose child has started. *)
Forking == {f \in ForkFrame : f.pc \notin {"posted", "done"}}
InSub == {f \in SubFrame : f.pc # "leave"}
InTrap == {f \in BaseFrame : f.fn = "trap"}
Pending(p) == {f \in ForkFrame : f.pc = "forked" /\ f.pid = p}
Marked == {Forking, InSub, InTrap} \cup {Pending(p) : p \in Pid \cup {0}}

Void(f) == \A T \in Marked : f \notin T
Alike(f, g) == \A T \in Marked : f \in T <=> g \in T
Level(s) == Founded(s) /\ \A T \in Marked : Number(s, T) = Number(stack, T)

LEMMA Kinds ==
    ASSUME NEW f \in Frame
    PROVE  /\ f.fn \in {"main", "trap"} <=> f \in BaseFrame
           /\ f.fn = "sub" <=> f \in SubFrame
           /\ f.fn = "fork" <=> f \in ForkFrame
           /\ f.fn = "wait" <=> f \in WaitFrame
           /\ f.fn = "reap" <=> f \in ReapFrame
           /\ f.fn = "unlock" <=> f \in UnlockFrame
           /\ f.fn = "chldtrap" <=> f \in ChldtrapFrame
  BY DEF Frame, BaseFrame, SubFrame, ForkFrame, WaitFrame, ReapFrame, UnlockFrame, ChldtrapFrame

LEMMA VoidIs ==
    ASSUME NEW f \in Frame,
           \/ f.fn \notin {"fork", "sub", "trap"}
           \/ f.fn = "fork" /\ f.pc \in {"posted", "done"}
           \/ f.fn = "sub" /\ f.pc = "leave"
    PROVE  Void(f)
<1>1. f \notin Forking /\ f \notin InSub /\ f \notin InTrap
  BY DEF Forking, InSub, InTrap, BaseFrame, SubFrame, ForkFrame
<1>2. \A p : f \notin Pending(p)
  BY DEF Pending, ForkFrame
<1>3. QED
  BY <1>1, <1>2 DEF Void, Marked

LEMMA AlikeForks ==
    ASSUME NEW f \in ForkFrame, NEW g \in ForkFrame,
           f.pc \notin {"forked", "posted", "done"}, g.pc \notin {"forked", "posted", "done"}
    PROVE  Alike(f, g)
<1>1. f \in Forking /\ g \in Forking /\ f \notin InSub /\ g \notin InSub /\ f \notin InTrap /\ g \notin InTrap
  BY DEF Forking, InSub, InTrap, BaseFrame, SubFrame, ForkFrame
<1>2. \A p : f \notin Pending(p) /\ g \notin Pending(p)
  BY DEF Pending
<1>3. QED
  BY <1>1, <1>2 DEF Alike, Marked

LEMMA AlikeVoid ==
    ASSUME NEW f, NEW g, Void(f), Void(g)
    PROVE  Alike(f, g)
  BY DEF Void, Alike

LEMMA LevelReturn ==
    ASSUME Founded(stack), Top.fn # "main", Void(Top)
    PROVE  Level(Caller)
  BY ReturnIs DEF Level, Void

LEMMA LevelContinue ==
    ASSUME Founded(stack), NEW f \in Frame, Top.fn = "main" => f.fn = "main", Alike(Top, f)
    PROVE  Level(Continue(f))
<1>1. Founded(Continue(f))
  BY ContinueIs
<1>2. ASSUME NEW T \in Marked
      PROVE  Number(Continue(f), T) = Number(stack, T)
  <2>1. /\ Number(Continue(f), T) \in Nat
        /\ Number(Continue(f), T) + (IF Top \in T THEN 1 ELSE 0)
             = Number(stack, T) + (IF f \in T THEN 1 ELSE 0)
    BY ContinueIs
  <2>2. Top \in T <=> f \in T
    BY DEF Alike
  <2>3. Number(stack, T) \in Nat
    BY NumberNat DEF Founded
  <2>4. QED
    BY <2>1, <2>2, <2>3
<1>3. QED
  BY <1>1, <1>2 DEF Level

LEMMA LevelPush ==
    ASSUME NEW s, Level(s), NEW f \in Frame, Void(f)
    PROVE  Level(Append(s, f))
  BY PushIs DEF Level, Void

LEMMA LevelCall ==
    ASSUME Founded(stack), NEW f \in Frame, Top.fn = "main" => f.fn = "main", Alike(Top, f),
           NEW g \in Frame, Void(g)
    PROVE  Level(Call(f, g))
  BY LevelContinue, LevelPush DEF Call

LEMMA LevelStays ==
    ASSUME Founded(stack)
    PROVE  Level(stack)
  BY DEF Level

(* The next command of the main program, of a handler or of a subshell. *)
LEMMA CommandIs ==
    ASSUME Top \in Frame, Top.fn \in {"main", "trap", "sub"}, Top.pc \in {"idle", "post"},
           NEW c \in {"idle", "post"}
    PROVE  /\ At(c) \in Frame /\ At(c).fn = Top.fn /\ At(c).pc = c /\ Alike(Top, At(c))
           /\ Top \notin Forking /\ \A p : Top \notin Pending(p)
<1>1. Top \in BaseFrame \/ Top \in SubFrame
  BY Kinds
<1>2. CASE Top \in BaseFrame
  <2>1. At(c) \in BaseFrame /\ At(c).fn = Top.fn /\ At(c).pc = c
    BY <1>2 DEF BaseFrame, At
  <2>2. /\ Top \in InTrap <=> At(c) \in InTrap
        /\ Top \notin InSub /\ At(c) \notin InSub /\ Top \notin Forking /\ At(c) \notin Forking
    BY <1>2, <2>1 DEF InTrap, InSub, Forking, BaseFrame, SubFrame, ForkFrame
  <2>3. \A p : Top \notin Pending(p) /\ At(c) \notin Pending(p)
    BY <1>2, <2>1 DEF Pending, BaseFrame, ForkFrame
  <2>4. QED
    BY <2>1, <2>2, <2>3 DEF Alike, Marked, Frame
<1>3. CASE Top \in SubFrame
  <2>1. At(c) \in SubFrame /\ At(c).fn = Top.fn /\ At(c).pc = c
    BY <1>3 DEF SubFrame, At
  <2>2. /\ Top \in InSub /\ At(c) \in InSub
        /\ Top \notin InTrap /\ At(c) \notin InTrap /\ Top \notin Forking /\ At(c) \notin Forking
    BY <1>3, <2>1 DEF InTrap, InSub, Forking, BaseFrame, SubFrame, ForkFrame
  <2>3. \A p : Top \notin Pending(p) /\ At(c) \notin Pending(p)
    BY <1>3, <2>1 DEF Pending, SubFrame, ForkFrame
  <2>4. QED
    BY <2>1, <2>2, <2>3 DEF Alike, Marked, Frame
<1>4. QED
  BY <1>1, <1>2, <1>3

-------------------------------------------------------------------------------
(* The inductive invariant behind TypeOK: every record has its place, the
   children started and not yet in the table have room in it, and none of them
   has the process ID of a background job that is still in the table. *)
Typed ==
    /\ Founded(stack) /\ Good(job) /\ sh \in Shell
    /\ kernel \in [Pid -> Kernel] /\ child \in [Pid -> Child]
    /\ sigchld \in BOOLEAN /\ spawned \in 0..MaxSpawn
Counts ==
    /\ Len(job.pwlist) + Number(stack, Forking) <= spawned
    /\ Len(job.bck) = 1 + Number(stack, InSub)
    /\ sh.intrap = Number(stack, InTrap)
NoBg(j, p) == \A s \in Slot : "BG" \in j.rec[s].flag => j.rec[s].pid # p
Pends ==
    /\ Number(stack, Pending(0)) = 0
    /\ \A p \in Pid : /\ Number(stack, Pending(p)) <= 1
                      /\ Number(stack, Pending(p)) # 0 => NoBg(job, p)
TInv == Typed /\ Counts /\ Pends

(* A step that brings no background job up, ends none, and starts no child. *)
Mild(j, a) ==
    /\ Good(a) /\ Lean(j, a) /\ Undone(j, a) /\ Len(a.bck) = Len(j.bck)
    /\ Len(a.pwlist) <= Len(j.pwlist) /\ a.numbjob = j.numbjob
Calm ==
    /\ Lean(job, job') /\ Undone(job, job') /\ job'.numbjob = job.numbjob
    /\ \A p \in Pid : Number(stack', Pending(p)) = Number(stack, Pending(p))
    /\ kernel' = kernel /\ child' = child

LEMMA MildOnce ==
    ASSUME NEW j, Good(j)
    PROVE  Mild(j, j)
<1>1. Len(j.pwlist) \in Nat
  BY DEF Good, Job
<1>2. QED
  BY <1>1 DEF Mild, Lean, Undone

LEMMA MildTwice ==
    ASSUME NEW j, Good(j), NEW a, Mild(j, a), NEW b, Mild(a, b)
    PROVE  Mild(j, b)
<1>1. \A x \in Job : Len(x.pwlist) \in Nat
  BY DEF Job
<1>2. j \in Job /\ a \in Job /\ b \in Job
  BY DEF Mild, Good
<1>3. Lean(j, b) /\ Undone(j, b)
  BY DEF Mild, Lean, Undone
<1>4. Len(b.pwlist) <= Len(j.pwlist)
  BY <1>1, <1>2 DEF Mild
<1>5. QED
  BY <1>3, <1>4 DEF Mild

LEMMA MildSteady ==
    ASSUME NEW j, NEW a, Good(a), Steady(j, a)
    PROVE  Mild(j, a)
  BY DEF Mild, Steady, Counters

LEMMA MildSame ==
    ASSUME NEW j, Good(j), NEW a, Same(j, a), a.numbjob = j.numbjob
    PROVE  Mild(j, a)
<1>1. Good(a) /\ Lean(j, a) /\ Undone(j, a)
  BY Scalars DEF Same
<1>2. Len(j.pwlist) \in Nat
  BY DEF Good, Job
<1>3. QED
  BY <1>1, <1>2 DEF Mild, Same

LEMMA MildLock ==
    ASSUME NEW j, Good(j)
    PROVE  Mild(j, job_lock(j))
  BY LockIs, MildSame

LEMMA QuietStep ==
    ASSUME TInv, Level(stack'), Good(job'), Lean(job, job'), Len(job'.bck) = Len(job.bck),
           Len(job'.pwlist) <= Len(job.pwlist), sh' \in Shell, sh'.intrap = sh.intrap,
           kernel' \in [Pid -> Kernel], child' \in [Pid -> Child], sigchld' \in BOOLEAN,
           spawned' = spawned
    PROVE  TInv' /\ \A p \in Pid : Number(stack', Pending(p)) = Number(stack, Pending(p))
<1>1. /\ Founded(stack')
      /\ Number(stack', Forking) = Number(stack, Forking)
      /\ Number(stack', InSub) = Number(stack, InSub)
      /\ Number(stack', InTrap) = Number(stack, InTrap)
      /\ \A p \in Pid \cup {0} : Number(stack', Pending(p)) = Number(stack, Pending(p))
  BY DEF Level, Marked
<1>2. Typed'
  BY <1>1 DEF TInv, Typed
<1>3. Counts'
  <2>1. \A x \in Job : Len(x.pwlist) \in Nat
    BY DEF Job
  <2>2. Len(job.pwlist) \in Nat /\ Len(job'.pwlist) \in Nat /\ spawned \in Nat
        /\ Number(stack, Forking) \in Nat
    BY <2>1, NumberNat DEF TInv, Typed, Good, Founded
  <2>3. Len(job'.pwlist) + Number(stack, Forking) <= spawned
    BY <2>2 DEF TInv, Counts
  <2>4. QED
    BY <1>1, <2>3 DEF TInv, Counts
<1>4. Pends'
  <2>1. \A p : NoBg(job, p) => NoBg(job', p)
    BY DEF NoBg, Lean
  <2>2. QED
    BY <1>1, <2>1 DEF TInv, Pends
<1>5. QED
  BY <1>1, <1>2, <1>3, <1>4 DEF TInv

LEMMA CalmStep ==
    ASSUME TInv, Level(stack'), Mild(job, job'), sh' \in Shell, sh'.intrap = sh.intrap,
           kernel' = kernel, child' = child, sigchld' \in BOOLEAN, spawned' = spawned
    PROVE  TInv' /\ Calm
<1>1. kernel' \in [Pid -> Kernel] /\ child' \in [Pid -> Child]
  BY DEF TInv, Typed
<1>2. TInv' /\ \A p \in Pid : Number(stack', Pending(p)) = Number(stack, Pending(p))
  BY <1>1, QuietStep DEF Mild
<1>3. QED
  BY <1>2 DEF Calm, Mild

LEMMA TopIs ==
    ASSUME TInv
    PROVE  Top \in Frame /\ Founded(stack) /\ Good(job) /\ job \in Job
<1>1. Len(stack) \in Nat \ {0} /\ stack \in Seq(Frame)
  BY DEF TInv, Typed, Founded
<1>2. QED
  BY <1>1 DEF Top, TInv, Typed, Good

-------------------------------------------------------------------------------
(* The steps of job_reap, job_unlock and the handler of SIGCHLD. *)

LEMMA AtReap ==
    ASSUME Top \in Frame, Top.fn = "reap"
    PROVE  /\ \A s \in Slot \cup {0} : \A y \in BOOLEAN :
                [Top EXCEPT !.nohang = y, !.pw = s] \in ReapFrame
           /\ \A s \in Slot \cup {0} : [Top EXCEPT !.pw = s] \in ReapFrame
           /\ Top \in ReapFrame
<1>1. Top \in ReapFrame
  BY Kinds
<1>2. QED
  BY <1>1 DEF ReapFrame

LEMMA ReapOneTypes ==
    ASSUME TInv, ReapOne
    PROVE  /\ TInv'
           /\ \A q \in Pid : Number(stack', Pending(q)) = Number(stack, Pending(q))
           /\ \E p \in Pid : \E a :
                 /\ kernel[p].st = "zombie" /\ kernel' = [kernel EXCEPT ![p] = [st |-> "free"]]
                 /\ RecordEndAs(job, a, p) /\ Mild(a, job')
<1>1. Top \in Frame /\ Founded(stack) /\ Good(job)
  BY TopIs
<1>2. PICK p \in Pid :
         /\ kernel[p].st = "zombie"
         /\ LET s == job_bypid(job, p)
                trap == sh.trapcom /\ Background(job, p)
                ended == RecordEnd(job, p, kernel[p].status, sh.trapcom)
            IN /\ sh' = IF trap THEN Note(Top.sig) ELSE sh
               /\ IF trap /\ ~Top.sig
                  THEN job' = ended /\ stack' = Call(Reaped(s), Chldtrap(FALSE))
                  ELSE job' = Notice(ended, s) /\ stack' = Continue(Reaped(0))
         /\ kernel' = [kernel EXCEPT ![p] = [st |-> "free"]]
  BY DEF ReapOne
<1> DEFINE s == job_bypid(job, p)
           ended == RecordEnd(job, p, kernel[p].status, sh.trapcom)
<1>3. Top.fn = "reap" /\ child' = child /\ sigchld' = sigchld /\ spawned' = spawned
  BY DEF ReapOne
<1>4. /\ kernel \in [Pid -> Kernel] /\ child \in [Pid -> Child] /\ sigchld \in BOOLEAN
      /\ sh \in Shell
  BY DEF TInv, Typed
<1>5. kernel[p].status \in Status \cup {0} /\ sh.trapcom \in BOOLEAN
  BY <1>2, <1>4 DEF Kernel, Shell
<1>6. RecordEndAs(job, ended, p)
  BY <1>1, <1>5, RecordEndIs
<1>7. s \in Slot \cup {0}
  BY <1>1, BypidSlot
<1>8. Top \in ReapFrame
  BY <1>1, <1>3, Kinds
<1>9. /\ Reaped(s) \in Frame /\ Reaped(0) \in Frame /\ Void(Top)
      /\ Void(Reaped(s)) /\ Void(Reaped(0))
  <2>1. \A x \in Slot \cup {0} : Reaped(x) \in ReapFrame /\ Reaped(x).fn = "reap"
    BY <1>8 DEF Reaped, ReapFrame
  <2>2. \A x \in Slot \cup {0} : Reaped(x) \in Frame /\ Void(Reaped(x))
    BY <2>1, VoidIs DEF Frame
  <2>3. Void(Top)
    BY <1>1, <1>3, VoidIs
  <2>4. QED
    BY <1>7, <2>2, <2>3
<1>10. Chldtrap(FALSE) \in Frame /\ Void(Chldtrap(FALSE))
  <2>1. Chldtrap(FALSE) \in ChldtrapFrame /\ Chldtrap(FALSE).fn = "chldtrap"
    BY DEF Chldtrap, ChldtrapFrame
  <2>2. QED
    BY <2>1, VoidIs DEF Frame
<1> HIDE DEF s, ended
<1>11. Level(stack') /\ Mild(ended, job')
  <2>1. CASE sh.trapcom /\ Background(job, p) /\ ~Top.sig
    <3>1. job' = ended /\ stack' = Call(Reaped(s), Chldtrap(FALSE))
      BY <1>2, <2>1 DEF s, ended
    <3>2. Level(Call(Reaped(s), Chldtrap(FALSE)))
      BY <1>1, <1>3, <1>9, <1>10, AlikeVoid, LevelCall
    <3>3. Mild(ended, ended)
      BY <1>6, MildOnce DEF RecordEndAs
    <3>4. QED
      BY <3>1, <3>2, <3>3
  <2>2. CASE ~(sh.trapcom /\ Background(job, p) /\ ~Top.sig)
    <3>1. job' = Notice(ended, s) /\ stack' = Continue(Reaped(0))
      BY <1>2, <2>2 DEF s, ended
    <3>2. Level(Continue(Reaped(0)))
      BY <1>1, <1>3, <1>9, AlikeVoid, LevelContinue
    <3>3. Good(Notice(ended, s)) /\ Steady(ended, Notice(ended, s))
      BY <1>6, <1>7, NoticeIs DEF RecordEndAs
    <3>4. QED
      BY <3>1, <3>2, <3>3, MildSteady
  <2>3. QED
    BY <2>1, <2>2
<1>12. sh' \in Shell /\ sh'.intrap = sh.intrap
  <2>1. Top.sig \in BOOLEAN
    BY <1>8 DEF ReapFrame
  <2>2. Note(Top.sig) \in Shell /\ Note(Top.sig).intrap = sh.intrap
    BY <1>4, <2>1 DEF Note, Shell
  <2>3. QED
    BY <1>2, <1>4, <2>2
<1>13. kernel' \in [Pid -> Kernel]
  BY <1>2, <1>4 DEF Kernel
<1>14. /\ Lean(job, job') /\ Len(job'.bck) = Len(job.bck) /\ Len(job'.pwlist) <= Len(job.pwlist)
       /\ Good(job')
  <2>1. \A x \in Job : Len(x.pwlist) \in Nat
    BY DEF Job
  <2>2. job \in Job /\ ended \in Job /\ job' \in Job /\ Good(job')
    BY <1>1, <1>6, <1>11 DEF RecordEndAs, Mild, Good
  <2>3. Lean(job, job')
    BY <1>6, <1>11 DEF RecordEndAs, Mild, Lean
  <2>4. QED
    BY <1>6, <1>11, <2>1, <2>2, <2>3 DEF RecordEndAs, Mild
<1>15. TInv' /\ \A q \in Pid : Number(stack', Pending(q)) = Number(stack, Pending(q))
  BY <1>3, <1>4, <1>11, <1>12, <1>13, <1>14, QuietStep
<1>16. QED
  BY <1>2, <1>6, <1>11, <1>15

LEMMA ReapNoticeTypes ==
    ASSUME TInv, ReapNotice
    PROVE  TInv' /\ Calm
<1>1. Top \in Frame /\ Founded(stack) /\ Good(job)
  BY TopIs
<1>2. /\ Top.fn = "reap" /\ job' = Notice(job, Top.pw)
      /\ stack' = Continue([Top EXCEPT !.pw = 0])
      /\ UNCHANGED <<sh, kernel, sigchld, child, spawned>>
  BY DEF ReapNotice
<1>3. [Top EXCEPT !.pw = 0] \in ReapFrame /\ Top \in ReapFrame
  BY <1>1, <1>2, AtReap
<1>4. [Top EXCEPT !.pw = 0] \in Frame /\ Top.pw \in Slot \cup {0} /\ [Top EXCEPT !.pw = 0].fn = "reap"
  BY <1>3 DEF Frame, ReapFrame
<1>5. Level(stack')
  BY <1>1, <1>2, <1>4, VoidIs, AlikeVoid, LevelContinue
<1>6. Mild(job, job')
  BY <1>1, <1>2, <1>4, NoticeIs, MildSteady
<1>7. QED
  BY <1>2, <1>5, <1>6, CalmStep DEF TInv, Typed

LEMMA ReapEndTypes ==
    ASSUME TInv, ReapEnd
    PROVE  /\ TInv' /\ Lean(job, job') /\ Undone(job, job') /\ UNCHANGED <<kernel, child>>
           /\ \A p \in Pid : Number(stack', Pending(p)) = Number(stack, Pending(p))
           /\ job'.numbjob = IF NoChild THEN 0 ELSE job.numbjob
           /\ job'.in_critical = job.in_critical
<1>1. Top \in Frame /\ Founded(stack) /\ Good(job) /\ job \in Job
  BY TopIs
<1> DEFINE c == IF Top.async THEN job.nochild ELSE NoChild
           n == IF NoChild THEN 0 ELSE job.numbjob
<1>2. /\ Top.fn = "reap" /\ stack' = Caller
      /\ UNCHANGED <<sh, kernel, sigchld, child, spawned>>
      /\ job' = [job EXCEPT !.nochild = IF Top.async THEN @ ELSE NoChild,
                            !.numbjob = IF NoChild THEN 0 ELSE @]
  BY DEF ReapEnd
<1>3. c \in BOOLEAN /\ n \in Int
  <2>1. job.nochild \in BOOLEAN /\ job.numbjob \in Int
    BY <1>1 DEF Job
  <2>2. NoChild \in BOOLEAN
    BY Zenon DEF NoChild
  <2>3. c \in BOOLEAN
    BY <2>1, <2>2, Zenon
  <2>4. n \in Int
    BY <2>1
  <2>5. QED
    BY <2>3, <2>4
<1>4. job' = [job EXCEPT !.nochild = c, !.numbjob = n]
  BY <1>1, <1>2 DEF Job
<1> HIDE DEF c
<1>5. n = IF NoChild THEN 0 ELSE job.numbjob
  OBVIOUS
<1> HIDE DEF n
<1>6. Same(job, job') /\ job'.numbjob = n /\ job'.in_critical = job.in_critical
  BY <1>1, <1>3, <1>4 DEF Job, Same
<1>7. Good(job') /\ Lean(job, job') /\ Undone(job, job')
  BY <1>1, <1>6, Scalars DEF Same
<1>8. Level(stack')
  BY <1>1, <1>2, VoidIs, LevelReturn
<1>9. Len(job.pwlist) \in Nat
  BY <1>1 DEF Job
<1>10. TInv' /\ \A p \in Pid : Number(stack', Pending(p)) = Number(stack, Pending(p))
  BY <1>2, <1>6, <1>7, <1>8, <1>9, QuietStep DEF TInv, Typed, Same
<1>11. QED
  BY <1>2, <1>5, <1>6, <1>7, <1>10

LEMMA FramesAre ==
    /\ Unlock \in Frame /\ Void(Unlock)
    /\ \A x, y \in BOOLEAN : Reap(x, y) \in Frame /\ Void(Reap(x, y))
    /\ \A x \in BOOLEAN : Chldtrap(x) \in Frame /\ Void(Chldtrap(x))
<1>1. Unlock \in UnlockFrame /\ Unlock.fn = "unlock"
  BY DEF Unlock, UnlockFrame
<1>2. ASSUME NEW x \in BOOLEAN, NEW y \in BOOLEAN
      PROVE  Reap(x, y) \in ReapFrame /\ Reap(x, y).fn = "reap"
  BY <1>2 DEF Reap, ReapFrame
<1>3. ASSUME NEW x \in BOOLEAN
      PROVE  Chldtrap(x) \in ChldtrapFrame /\ Chldtrap(x).fn = "chldtrap"
  BY <1>3 DEF Chldtrap, ChldtrapFrame
<1>4. Unlock \in Frame /\ Void(Unlock)
  BY <1>1, VoidIs DEF Frame
<1>5. \A x, y \in BOOLEAN : Reap(x, y) \in Frame /\ Void(Reap(x, y))
  BY <1>2, VoidIs DEF Frame
<1>6. \A x \in BOOLEAN : Chldtrap(x) \in Frame /\ Void(Chldtrap(x))
  BY <1>3, VoidIs DEF Frame
<1>7. QED
  BY <1>4, <1>5, <1>6

LEMMA UnlockTestTypes ==
    ASSUME TInv, UnlockTest
    PROVE  TInv' /\ Calm
<1>1. Top \in Frame /\ Founded(stack) /\ Good(job)
  BY TopIs
<1>2. /\ Top.fn = "unlock" /\ UNCHANGED <<sh, kernel, sigchld, child, spawned>>
      /\ \/ stack' = Call(At("leave"), Reap(TRUE, FALSE)) /\ job' = StartReap(job)
         \/ stack' = Continue(At("leave")) /\ job' = job
  BY DEF UnlockTest
<1>3. At("leave") \in Frame /\ At("leave").fn = "unlock"
  <2>1. Top \in UnlockFrame
    BY <1>1, <1>2, Kinds
  <2>2. QED
    BY <2>1 DEF At, UnlockFrame, Frame
<1>4. Alike(Top, At("leave"))
  BY <1>1, <1>2, <1>3, VoidIs, AlikeVoid
<1>5. Reap(TRUE, FALSE) \in Frame /\ Void(Reap(TRUE, FALSE))
  BY FramesAre, Zenon
<1>6. Level(stack')
  BY <1>1, <1>2, <1>3, <1>4, <1>5, LevelCall, LevelContinue
<1>7. Mild(job, job')
  BY <1>1, <1>2, StartReapIs, MildSteady, MildOnce
<1>8. QED
  BY <1>2, <1>6, <1>7, CalmStep DEF TInv, Typed

LEMMA UnlockLeaveTypes ==
    ASSUME TInv, UnlockLeave
    PROVE  /\ TInv' /\ Calm
           /\ job'.in_critical = IF job.in_critical = 0 THEN CriticalMod - 1 ELSE job.in_critical - 1
<1>1. Top \in Frame /\ Founded(stack) /\ Good(job) /\ job \in Job
  BY TopIs
<1> DEFINE n == IF job.in_critical = 0 THEN CriticalMod - 1 ELSE job.in_critical - 1
<1>2. /\ Top.fn = "unlock" /\ UNCHANGED <<sh, kernel, sigchld, child, spawned>>
      /\ stack' = Caller /\ job' = [job EXCEPT !.in_critical = IF @ = 0 THEN CriticalMod - 1 ELSE @ - 1]
  BY DEF UnlockLeave
<1>3. n \in 0..CriticalMod - 1
  BY <1>1, LimitAssumption DEF Job
<1>4. job' = [job EXCEPT !.in_critical = n]
  BY <1>1, <1>2 DEF Job
<1>5. n = IF job.in_critical = 0 THEN CriticalMod - 1 ELSE job.in_critical - 1
  OBVIOUS
<1> HIDE DEF n
<1>6. Same(job, job') /\ job'.numbjob = job.numbjob /\ job'.in_critical = n
  BY <1>1, <1>3, <1>4 DEF Job, Same
<1>7. Level(stack')
  BY <1>1, <1>2, VoidIs, LevelReturn
<1>8. TInv' /\ Calm
  BY <1>1, <1>2, <1>6, <1>7, MildSame, CalmStep DEF TInv, Typed
<1>9. QED
  BY <1>5, <1>6, <1>8

LEMMA SigChldTypes ==
    ASSUME TInv, SigChld
    PROVE  TInv' /\ Calm /\ job'.in_critical = job.in_critical
<1>1. Top \in Frame /\ Founded(stack) /\ Good(job) /\ job \in Job
  BY TopIs
<1>2. sigchld' = FALSE /\ UNCHANGED <<sh, kernel, child, spawned>>
  BY DEF SigChld
<1>3. Reap(TRUE, TRUE) \in Frame /\ Void(Reap(TRUE, TRUE))
  BY FramesAre, Zenon
<1>4. StartReap(job).in_critical = job.in_critical /\ Mild(job, StartReap(job))
      /\ Same(job, StartReap(job)) /\ Good(StartReap(job))
  BY <1>1, StartReapIs, MildSteady DEF Steady, Counters
<1>5. CASE stack' = Append(stack, Reap(TRUE, TRUE)) /\ job' = StartReap(job)
  <2>1. Level(stack')
    BY <1>1, <1>3, <1>5, LevelStays, LevelPush
  <2>2. QED
    BY <1>2, <1>4, <1>5, <2>1, CalmStep DEF TInv, Typed
<1>6. CASE /\ Blocked /\ stack' = Append(Caller, Reap(TRUE, TRUE))
           /\ job' = [StartReap(job) EXCEPT !.nochild = FALSE]
  <2>1. Level(Caller)
    BY <1>1, <1>6, VoidIs, LevelReturn DEF Blocked
  <2>2. Level(stack')
    BY <1>3, <1>6, <2>1, LevelPush
  <2> DEFINE a == StartReap(job)
  <2>3. a \in Job /\ FALSE \in BOOLEAN
    BY <1>4 DEF Same
  <2>4. job' = [a EXCEPT !.nochild = FALSE]
    BY <1>6
  <2> HIDE DEF a
  <2>5. Same(a, job') /\ job'.numbjob = a.numbjob /\ job'.in_critical = a.in_critical
    BY <2>3, <2>4 DEF Job, Same
  <2>6. Mild(job, job')
    BY <1>1, <1>4, <2>5, MildSame, MildTwice DEF a
  <2>7. QED
    BY <1>2, <1>4, <2>2, <2>5, <2>6, CalmStep DEF TInv, Typed, a
<1>7. CASE stack' = stack /\ job' = [job EXCEPT !.savesig = TRUE, !.waitsafe = Bump(@)]
  <2> DEFINE w == Bump(job.waitsafe)
  <2>1. w \in 0..WaitsafeMod - 1 /\ TRUE \in BOOLEAN
    BY <1>1, LimitAssumption DEF Job, Bump
  <2>2. job' = [job EXCEPT !.savesig = TRUE, !.waitsafe = w]
    BY <1>1, <1>7 DEF Job
  <2> HIDE DEF w
  <2>3. Same(job, job') /\ job'.numbjob = job.numbjob /\ job'.in_critical = job.in_critical
    BY <1>1, <2>1, <2>2 DEF Job, Same
  <2>4. Level(stack')
    BY <1>1, <1>7, LevelStays
  <2>5. QED
    BY <1>1, <1>2, <2>3, <2>4, MildSame, CalmStep DEF TInv, Typed
<1>8. QED
  BY <1>5, <1>6, <1>7 DEF SigChld

LEMMA ChildExitTypes ==
    ASSUME TInv, NEW p \in Pid, ChildExit(p)
    PROVE  TInv'
<1>1. Top \in Frame /\ Founded(stack) /\ Good(job)
  BY TopIs
<1>2. /\ sigchld' = TRUE /\ UNCHANGED <<stack, job, sh, spawned>>
      /\ \E x \in Status : /\ kernel' = [kernel EXCEPT ![p] = [st |-> "zombie", status |-> x]]
                           /\ child' = [child EXCEPT ![p].status = x]
  BY DEF ChildExit
<1>3. PICK x \in Status : /\ kernel' = [kernel EXCEPT ![p] = [st |-> "zombie", status |-> x]]
                          /\ child' = [child EXCEPT ![p].status = x]
  BY <1>2
<1>4. kernel \in [Pid -> Kernel] /\ child \in [Pid -> Child]
  BY DEF TInv, Typed
<1>5. kernel' \in [Pid -> Kernel]
  BY <1>3, <1>4 DEF Kernel
<1>6. child' \in [Pid -> Child]
  BY <1>3, <1>4 DEF Child
<1>7. Level(stack')
  BY <1>1, <1>2, LevelStays
<1>8. Mild(job, job')
  BY <1>1, <1>2, MildOnce
<1>9. QED
  BY <1>2, <1>5, <1>6, <1>7, <1>8, QuietStep DEF TInv, Typed, Mild

-------------------------------------------------------------------------------
(* The steps of job_chldtrap, and commands. *)

LEMMA OtherStep ==
    ASSUME TInv, Founded(stack'), Good(job'), Lean(job, job'),
           Len(job'.pwlist) + Number(stack', Forking) <= spawned',
           Len(job'.bck) = 1 + Number(stack', InSub), sh'.intrap = Number(stack', InTrap),
           \A p \in Pid \cup {0} : Number(stack', Pending(p)) = Number(stack, Pending(p)),
           sh' \in Shell, kernel' \in [Pid -> Kernel], child' \in [Pid -> Child],
           sigchld' \in BOOLEAN, spawned' \in 0..MaxSpawn
    PROVE  TInv'
<1>1. Typed' /\ Counts'
  BY DEF Typed, Counts
<1>2. \A p : NoBg(job, p) => NoBg(job', p)
  BY DEF NoBg, Lean
<1>3. Pends'
  BY <1>2 DEF TInv, Pends
<1>4. QED
  BY <1>1, <1>3 DEF TInv

LEMMA ChldtrapStartTypes ==
    ASSUME TInv, ChldtrapStart
    PROVE  TInv' /\ Calm
<1>1. Top \in Frame /\ Founded(stack) /\ Good(job) /\ job \in Job
  BY TopIs
<1> DEFINE w == IF job.pwlist = <<>> THEN 0 ELSE Head(job.pwlist)
           f == [Top EXCEPT !.pc = "scan", !.trapnote = sh.trapnote, !.pw = w]
<1>2. /\ Top.fn = "chldtrap" /\ job' = job_lock(job) /\ stack' = Continue(f)
      /\ sh' = [sh EXCEPT !.sigflag = FALSE, !.trapnote = FALSE]
      /\ UNCHANGED <<kernel, sigchld, child, spawned>>
  BY DEF ChldtrapStart
<1>3. w \in Slot \cup {0}
  <2>1. job.pwlist \in Seq(Slot)
    BY <1>1 DEF Job
  <2>2. QED
    BY <2>1
<1>4. sh \in Shell /\ sh.trapnote \in BOOLEAN
  BY DEF TInv, Typed, Shell
<1>5. Top \in ChldtrapFrame
  BY <1>1, <1>2, Kinds
<1> HIDE DEF w
<1>6. f \in ChldtrapFrame /\ f.fn = "chldtrap"
  BY <1>3, <1>4, <1>5 DEF ChldtrapFrame
<1> HIDE DEF f
<1>7. f \in Frame /\ Alike(Top, f)
  BY <1>1, <1>2, <1>6, VoidIs, AlikeVoid DEF Frame
<1>8. Level(stack')
  BY <1>1, <1>2, <1>7, LevelContinue
<1>9. sh' \in Shell /\ sh'.intrap = sh.intrap
  BY <1>2, <1>4 DEF Shell
<1>10. QED
  BY <1>1, <1>2, <1>8, <1>9, MildLock, CalmStep DEF TInv, Typed

(* The trap is taken for the record Top.pw. *)
Taken(p) ==
    /\ Top.pw \in Slot /\ p = job.rec[Top.pw].pid /\ p \in Pid
    /\ {"BG", "DONE"} \subseteq job.rec[Top.pw].flag
    /\ job' = TrapTaken(job, Top.pw) /\ Mild(job, job')
    /\ job'.in_critical = job.in_critical
    /\ child' = [child EXCEPT ![p].traps = IF sh.trapcom THEN @ + 1 ELSE @]

LEMMA ChldtrapScanTypes ==
    ASSUME TInv, ChldtrapScan
    PROVE  /\ TInv' /\ job'.in_critical = job.in_critical
           /\ Calm \/ \E p \in Pid : /\ Taken(p) /\ kernel' = kernel
                                     /\ \A q \in Pid : Number(stack', Pending(q)) = Number(stack, Pending(q))
<1>1. Top \in Frame /\ Founded(stack) /\ Good(job) /\ job \in Job
  BY TopIs
<1> DEFINE s == Top.pw
           p == job.rec[s].pid
           next == p_nxtjob(job, s)
           f == [Top EXCEPT !.pc = "handled", !.next = next, !.bckpid = sh.bckpid]
           g == [Top EXCEPT !.pw = next]
<1>2. Top.fn = "chldtrap" /\ Top.pw # 0 /\ UNCHANGED <<kernel, sigchld, spawned>>
  BY DEF ChldtrapScan
<1>3. Top \in ChldtrapFrame
  BY <1>1, <1>2, Kinds
<1>4. s \in Slot
  BY <1>2, <1>3 DEF ChldtrapFrame
<1>5. next \in Slot \cup {0}
  BY <1>1, <1>4, NextIs
<1>6. /\ sh \in Shell /\ sh.bckpid \in Pid \cup {0} /\ sh.intrap \in Nat /\ sh.trapcom \in BOOLEAN
      /\ child \in [Pid -> Child] /\ kernel \in [Pid -> Kernel] /\ sigchld \in BOOLEAN
      /\ spawned \in 0..MaxSpawn
  BY DEF TInv, Typed, Shell
<1>7. CASE ~({"BG", "DONE"} \subseteq Flag(job, s))
  <2>1. stack' = Continue(g) /\ UNCHANGED <<job, sh, child>>
    BY <1>7 DEF ChldtrapScan
  <2> HIDE DEF next
  <2>2. g \in ChldtrapFrame /\ g.fn = "chldtrap"
    BY <1>3, <1>5 DEF ChldtrapFrame
  <2> HIDE DEF g
  <2>3. g \in Frame /\ Alike(Top, g)
    BY <1>1, <1>2, <2>2, VoidIs, AlikeVoid DEF Frame
  <2>4. Level(stack')
    BY <1>1, <1>2, <2>1, <2>3, LevelContinue
  <2>5. TInv' /\ Calm
    BY <1>1, <1>2, <1>6, <2>1, <2>4, MildOnce, CalmStep
  <2>6. QED
    BY <2>1, <2>5
<1>8. CASE {"BG", "DONE"} \subseteq Flag(job, s)
  <2>1. /\ job' = TrapTaken(job, s)
        /\ sh' = [sh EXCEPT !.bckpid = p, !.intrap = IF sh.trapcom THEN @ + 1 ELSE @]
        /\ child' = [child EXCEPT ![p].traps = IF sh.trapcom THEN @ + 1 ELSE @]
        /\ stack' = IF sh.trapcom THEN Call(f, Handler) ELSE Continue(f)
    BY <1>8 DEF ChldtrapScan
  <2>2. "BG" \in job.rec[s].flag /\ {"BG", "DONE"} \subseteq job.rec[s].flag
    BY <1>8 DEF Flag
  <2>3. p \in Pid
    BY <1>1, <1>4, <2>2, InTable
  <2>4. Good(job') /\ Steady(job, job')
    BY <1>1, <1>4, <2>1, TrapTakenIs
  <2> HIDE DEF next
  <2>5. f \in ChldtrapFrame /\ f.fn = "chldtrap"
    BY <1>3, <1>5, <1>6 DEF ChldtrapFrame
  <2> HIDE DEF f
  <2>6. f \in Frame /\ Alike(Top, f)
    BY <1>1, <1>2, <2>5, VoidIs, AlikeVoid DEF Frame
  <2>7. Level(Continue(f))
    BY <1>1, <1>2, <2>6, LevelContinue
  <2>8. child' \in [Pid -> Child]
    <3>1. child[p] \in Child /\ child[p].traps \in Nat
      BY <1>6, <2>3 DEF Child
    <3> HIDE DEF p
    <3>2. QED
      BY <1>6, <2>1, <2>3, <3>1 DEF Child
  <2>9. Mild(job, job') /\ job'.in_critical = job.in_critical
    BY <2>4, MildSteady DEF Steady, Counters
  <2>10. Taken(p)
    BY <1>4, <2>1, <2>2, <2>3, <2>9 DEF Taken
  <2>11. TInv' /\ \A q \in Pid : Number(stack', Pending(q)) = Number(stack, Pending(q))
    <3>1. CASE ~sh.trapcom
      <4>1. stack' = Continue(f) /\ sh' = [sh EXCEPT !.bckpid = p, !.intrap = sh.intrap]
        BY <1>6, <2>1, <3>1
      <4>2. sh' \in Shell /\ sh'.intrap = sh.intrap
        BY <1>6, <2>3, <4>1 DEF Shell
      <4>3. QED
        BY <1>2, <1>6, <2>7, <2>8, <2>9, <4>1, <4>2, QuietStep DEF Mild
    <3>2. CASE sh.trapcom
      <4>1. stack' = Append(Continue(f), Handler) /\ sh' = [sh EXCEPT !.bckpid = p, !.intrap = sh.intrap + 1]
        BY <1>6, <2>1, <3>2 DEF Call
      <4>2. sh' \in Shell /\ sh'.intrap = sh.intrap + 1
        <5>1. \A x \in Pid, y \in Nat : /\ [sh EXCEPT !.bckpid = x, !.intrap = y] \in Shell
                                        /\ [sh EXCEPT !.bckpid = x, !.intrap = y].intrap = y
          BY <1>6 DEF Shell
        <5>2. sh.intrap + 1 \in Nat
          BY <1>6
        <5>3. QED
          BY <2>3, <4>1, <5>1, <5>2
      <4>3. /\ Handler \in Frame /\ Handler \in InTrap /\ Handler \notin InSub
            /\ Handler \notin Forking /\ \A q : Handler \notin Pending(q)
        <5>1. Handler \in BaseFrame /\ Handler.fn = "trap"
          BY DEF Handler, BaseFrame
        <5>2. QED
          BY <5>1 DEF Frame, InTrap, InSub, Forking, Pending, BaseFrame, SubFrame, ForkFrame
      <4>4. /\ Founded(stack')
            /\ Number(stack', Forking) = Number(stack, Forking)
            /\ Number(stack', InSub) = Number(stack, InSub)
            /\ Number(stack', InTrap) = Number(stack, InTrap) + 1
            /\ \A q \in Pid \cup {0} : Number(stack', Pending(q)) = Number(stack, Pending(q))
        BY <2>7, <4>1, <4>3, PushIs DEF Level, Marked
      <4>5. /\ Len(job'.pwlist) + Number(stack', Forking) <= spawned'
            /\ Len(job'.bck) = 1 + Number(stack', InSub) /\ sh'.intrap = Number(stack', InTrap)
        <5>1. \A x \in Job : Len(x.pwlist) \in Nat
          BY DEF Job
        <5>2. Len(job.pwlist) \in Nat /\ Len(job'.pwlist) \in Nat /\ Number(stack, Forking) \in Nat
          BY <1>1, <2>4, <5>1, NumberNat DEF Good, Founded
        <5>3. Len(job'.pwlist) <= Len(job.pwlist) /\ Len(job'.bck) = Len(job.bck)
          BY <2>9 DEF Mild
        <5>4. /\ Len(job.pwlist) + Number(stack, Forking) <= spawned
              /\ Len(job.bck) = 1 + Number(stack, InSub) /\ sh.intrap = Number(stack, InTrap)
          BY DEF TInv, Counts
        <5>5. QED
          BY <1>2, <1>6, <4>2, <4>4, <5>2, <5>3, <5>4
      <4>6. QED
        BY <1>2, <1>6, <2>8, <2>9, <4>2, <4>4, <4>5, OtherStep DEF Mild
    <3>3. QED
      BY <3>1, <3>2
  <2>12. QED
    BY <1>2, <2>3, <2>9, <2>10, <2>11
<1>9. QED
  BY <1>7, <1>8

LEMMA ChldtrapHandledTypes ==
    ASSUME TInv, ChldtrapHandled
    PROVE  TInv' /\ Calm /\ job'.in_critical = job.in_critical
<1>1. Top \in Frame /\ Founded(stack) /\ Good(job) /\ job \in Job
  BY TopIs
<1> DEFINE f == [Top EXCEPT !.pc = "scan", !.pw = Top.next]
<1>2. /\ Top.fn = "chldtrap" /\ stack' = Continue(f)
      /\ sh' = [sh EXCEPT !.bckpid = Top.bckpid]
      /\ UNCHANGED <<kernel, sigchld, child, spawned>>
      /\ job' = IF Top.unpost /\ Top.pw # 0 /\ job.rec[Top.pw].pid = Top.bckpid
                THEN job_unpost(job, Top.pw, FALSE) ELSE job
  BY DEF ChldtrapHandled
<1>3. Top \in ChldtrapFrame
  BY <1>1, <1>2, Kinds
<1>4. Top.pw \in Slot \cup {0} /\ Top.next \in Slot \cup {0} /\ Top.bckpid \in Pid \cup {0}
  BY <1>3 DEF ChldtrapFrame
<1>5. f \in ChldtrapFrame /\ f.fn = "chldtrap"
  BY <1>3, <1>4 DEF ChldtrapFrame
<1> HIDE DEF f
<1>6. f \in Frame /\ Alike(Top, f)
  BY <1>1, <1>2, <1>5, VoidIs, AlikeVoid DEF Frame
<1>7. Level(stack')
  BY <1>1, <1>2, <1>6, LevelContinue
<1>8. Good(job') /\ Steady(job, job')
  <2>1. Len(job.pwlist) \in Nat
    BY <1>1 DEF Job
  <2>2. \A s \in Slot, z \in BOOLEAN : Good(job_unpost(job, s, z)) /\ Steady(job, job_unpost(job, s, z))
    BY <1>1, UnpostIs
  <2>3. FALSE \in BOOLEAN
    OBVIOUS
  <2>4. \A s \in Slot : Good(job_unpost(job, s, FALSE)) /\ Steady(job, job_unpost(job, s, FALSE))
    BY <2>2, <2>3, Zenon
  <2>5. QED
    BY <1>1, <1>2, <1>4, <2>1, <2>4, SteadyOnce
<1>9. sh' \in Shell /\ sh'.intrap = sh.intrap
  BY <1>2, <1>4 DEF TInv, Typed, Shell
<1>10. TInv' /\ Calm
  BY <1>2, <1>7, <1>8, <1>9, MildSteady, CalmStep DEF TInv, Typed
<1>11. QED
  BY <1>8, <1>10 DEF Steady, Counters

LEMMA ChldtrapEndTypes ==
    ASSUME TInv, ChldtrapEnd
    PROVE  TInv' /\ Calm
<1>1. Top \in Frame /\ Founded(stack) /\ Good(job)
  BY TopIs
<1>2. /\ Top.fn = "chldtrap" /\ stack' = Continue(Unlock)
      /\ sh' = [sh EXCEPT !.trapnote = Top.trapnote]
      /\ UNCHANGED <<job, kernel, sigchld, child, spawned>>
  BY DEF ChldtrapEnd
<1>3. Top.trapnote \in BOOLEAN
  BY <1>1, <1>2, Kinds DEF ChldtrapFrame
<1>4. sh' \in Shell /\ sh'.intrap = sh.intrap
  BY <1>2, <1>3 DEF TInv, Typed, Shell
<1>5. Level(stack')
  BY <1>1, <1>2, FramesAre, VoidIs, AlikeVoid, LevelContinue
<1>6. QED
  BY <1>1, <1>2, <1>4, <1>5, MildOnce, CalmStep DEF TInv, Typed

LEMMA CommandTypes ==
    ASSUME TInv, Builtin \/ Chktrap \/ TrapChld
    PROVE  TInv' /\ Calm /\ job' = job
<1>1. Top \in Frame /\ Founded(stack) /\ Good(job) /\ sh \in Shell /\ sigchld \in BOOLEAN
  BY TopIs DEF TInv, Typed
<1>2. /\ Top.fn \in {"main", "sub", "trap"} /\ Top.pc \in {"idle", "post"}
      /\ UNCHANGED <<job, kernel, sigchld, child, spawned>>
  BY DEF Builtin, Chktrap, TrapChld, Idle
<1>3. /\ At("idle") \in Frame /\ At("idle").fn = Top.fn /\ Alike(Top, At("idle"))
      /\ At("post") \in Frame /\ At("post").fn = Top.fn /\ Alike(Top, At("post"))
  BY <1>1, <1>2, CommandIs
<1>4. Chldtrap(TRUE) \in Frame /\ Void(Chldtrap(TRUE))
  BY FramesAre, Zenon
<1>5. Level(Continue(At("idle"))) /\ Level(Continue(At("post"))) /\ Level(Call(At("idle"), Chldtrap(TRUE)))
  BY <1>1, <1>3, <1>4, LevelContinue, LevelCall
<1>6. Level(stack') /\ sh' \in Shell /\ sh'.intrap = sh.intrap
  <2>1. CASE Builtin
    BY <1>1, <1>5, <2>1 DEF Builtin
  <2>2. CASE Chktrap
    BY <1>1, <1>5, <2>2 DEF Chktrap, Shell
  <2>3. CASE TrapChld
    <3>1. PICK on \in BOOLEAN : sh' = [sh EXCEPT !.trapcom = on, !.sigflag = on /\ @]
      BY <2>3 DEF TrapChld
    <3>2. stack' = Continue(At("post"))
      BY <2>3 DEF TrapChld
    <3>3. (on /\ sh.sigflag) \in BOOLEAN
      BY Zenon
    <3>4. sh' \in Shell /\ sh'.intrap = sh.intrap
      BY <1>1, <3>1, <3>3 DEF Shell
    <3>5. QED
      BY <1>5, <3>2, <3>4
  <2>4. QED
    BY <2>1, <2>2, <2>3
<1>7. QED
  BY <1>1, <1>2, <1>6, MildOnce, CalmStep

LEMMA HandlerEndTypes ==
    ASSUME TInv, HandlerEnd \/ HandlerError
    PROVE  TInv' /\ Calm /\ job' = job
<1>1. Top \in Frame /\ Founded(stack) /\ Good(job) /\ sh \in Shell /\ sigchld \in BOOLEAN
  BY TopIs DEF TInv, Typed
<1>2. /\ Top.fn = "trap" /\ UNCHANGED <<job, kernel, sigchld, child, spawned>>
      /\ stack' \in {Continue(Unlock), Caller} /\ sh' = [sh EXCEPT !.intrap = @ - 1]
  BY DEF HandlerEnd, HandlerError
<1>3. /\ Top \in InTrap /\ Top \notin InSub /\ Top \notin Forking /\ \A q : Top \notin Pending(q)
  <2>1. Top \in BaseFrame
    BY <1>1, <1>2, Kinds
  <2>2. QED
    BY <1>2, <2>1 DEF InTrap, InSub, Forking, Pending, BaseFrame, SubFrame, ForkFrame
<1>4. /\ Unlock \in Frame /\ Unlock \notin InTrap /\ Unlock \notin InSub /\ Unlock \notin Forking
      /\ \A q \in Pid \cup {0} : Unlock \notin Pending(q)
  BY FramesAre DEF Void, Marked
<1>5. \A T : Number(stack, T) \in Nat
  BY <1>1, NumberNat DEF Founded
<1>6. ASSUME NEW s \in {Continue(Unlock), Caller}
      PROVE  /\ Founded(s)
             /\ Number(s, Forking) = Number(stack, Forking)
             /\ Number(s, InSub) = Number(stack, InSub)
             /\ Number(s, InTrap) = Number(stack, InTrap) - 1
             /\ \A q \in Pid \cup {0} : Number(s, Pending(q)) = Number(stack, Pending(q))
  <2>1. CASE s = Caller
    BY <1>1, <1>2, <1>3, <2>1, ReturnIs
  <2>2. CASE s = Continue(Unlock)
    <3>1. Founded(s) /\ \A T : /\ Number(s, T) \in Nat
                               /\ Number(s, T) + (IF Top \in T THEN 1 ELSE 0)
                                    = Number(stack, T) + (IF Unlock \in T THEN 1 ELSE 0)
      BY <1>1, <1>2, <1>4, <2>2, ContinueIs
    <3>2. Number(s, Forking) = Number(stack, Forking) /\ Number(s, InSub) = Number(stack, InSub)
      <4>1. \A T : Top \notin T /\ Unlock \notin T => Number(s, T) = Number(stack, T)
        BY <1>5, <3>1
      <4>2. QED
        BY <1>3, <1>4, <4>1
    <3>3. Number(s, InTrap) = Number(stack, InTrap) - 1
      <4>1. Number(s, InTrap) + 1 = Number(stack, InTrap) + 0
        BY <1>3, <1>4, <3>1
      <4>2. QED
        BY <1>5, <3>1, <4>1
    <3>4. \A q \in Pid \cup {0} : Number(s, Pending(q)) = Number(stack, Pending(q))
      <4>1. \A T : Top \notin T /\ Unlock \notin T => Number(s, T) = Number(stack, T)
        BY <1>5, <3>1
      <4>2. QED
        BY <1>3, <1>4, <4>1
    <3>5. QED
      BY <3>1, <3>2, <3>3, <3>4
  <2>3. QED
    BY <2>1, <2>2
<1>7. /\ Founded(stack')
      /\ Number(stack', Forking) = Number(stack, Forking)
      /\ Number(stack', InSub) = Number(stack, InSub)
      /\ Number(stack', InTrap) = Number(stack, InTrap) - 1
      /\ \A q \in Pid \cup {0} : Number(stack', Pending(q)) = Number(stack, Pending(q))
  BY <1>2, <1>6
<1>8. Number(stack, InTrap) \in Nat \ {0}
  BY <1>1, <1>3, TopCounts
<1>9. sh' \in Shell /\ sh'.intrap = Number(stack', InTrap)
  <2>1. sh.intrap = Number(stack, InTrap)
    BY DEF TInv, Counts
  <2>2. sh' = [sh EXCEPT !.intrap = sh.intrap - 1] /\ sh.intrap - 1 \in Nat
    BY <1>1, <1>2, <1>8, <2>1 DEF Shell
  <2>3. sh' \in Shell /\ sh'.intrap = sh.intrap - 1
    BY <1>1, <2>2 DEF Shell
  <2>4. QED
    BY <1>7, <2>1, <2>3
<1>10. TInv'
  <2>1. Lean(job, job')
    BY <1>2 DEF Lean
  <2>2. /\ Len(job'.pwlist) + Number(stack', Forking) <= spawned'
        /\ Len(job'.bck) = 1 + Number(stack', InSub)
    BY <1>2, <1>7 DEF TInv, Counts
  <2>3. QED
    BY <1>2, <1>7, <1>9, <2>1, <2>2, OtherStep DEF TInv, Typed
<1>11. Calm
  BY <1>2, <1>7 DEF Calm, Lean, Undone
<1>12. QED
  BY <1>2, <1>10, <1>11

-------------------------------------------------------------------------------
(* The steps of sh_fork and sh_ntfork. *)

LEMMA AtFork ==
    ASSUME Top \in Frame, Top.fn = "fork",
           NEW c \in {"jobmax", "reaped", "lock", "assign", "assigned", "forked", "posted", "done"}
    PROVE  /\ Top \in ForkFrame /\ At(c) \in ForkFrame /\ At(c) \in Frame
           /\ At(c).fn = "fork" /\ At(c).pc = c /\ At(c).pid = Top.pid
<1>1. Top \in ForkFrame
  BY Kinds
<1>2. At(c) \in ForkFrame /\ At(c).fn = "fork" /\ At(c).pc = c /\ At(c).pid = Top.pid
  BY <1>1 DEF At, ForkFrame
<1>3. QED
  BY <1>1, <1>2 DEF Frame

LEMMA CommandLevel ==
    ASSUME TInv, Idle, NEW g \in Frame, Void(g)
    PROVE  Level(Call(At("post"), g))
<1>1. Top \in Frame /\ Founded(stack)
  BY TopIs
<1>2. At("post") \in Frame /\ At("post").fn = Top.fn /\ Alike(Top, At("post"))
  BY <1>1, CommandIs DEF Idle
<1>3. QED
  BY <1>1, <1>2, LevelCall

LEMMA StartForkTypes ==
    ASSUME TInv, StartFork
    PROVE  TInv' /\ Calm /\ job' = job
<1>1. Top \in Frame /\ Founded(stack) /\ Good(job) /\ job \in Job
  BY TopIs
<1>2. PICK bg \in BOOLEAN : stack' = Call(At("post"), Fork(bg))
  BY DEF StartFork
<1>3. /\ Idle /\ spawned < MaxSpawn /\ spawned' = spawned + 1
      /\ UNCHANGED <<job, sh, kernel, sigchld, child>>
  BY DEF StartFork
<1>4. At("post") \in Frame /\ At("post").fn = Top.fn /\ Alike(Top, At("post"))
  BY <1>1, <1>3, CommandIs DEF Idle
<1>5. Level(Continue(At("post")))
  BY <1>1, <1>4, LevelContinue
<1>6. /\ Fork(bg) \in ForkFrame /\ Fork(bg).pc \in {"jobmax", "lock"}
  <2>1. Fork(bg) \in ForkFrame
    BY DEF Fork, ForkFrame
  <2>2. Fork(bg).pc \in {"jobmax", "lock"}
    BY DEF Fork
  <2>3. QED
    BY <2>1, <2>2
<1>7. /\ Fork(bg) \in Frame /\ Fork(bg) \in Forking /\ Fork(bg) \notin InSub
      /\ Fork(bg) \notin InTrap /\ \A q : Fork(bg) \notin Pending(q)
  BY <1>6 DEF Frame, Forking, InSub, InTrap, Pending, BaseFrame, SubFrame, ForkFrame
<1> DEFINE s == Continue(At("post"))
<1>8. stack' = Append(s, Fork(bg)) /\ Level(s)
  BY <1>2, <1>5 DEF Call
<1> HIDE DEF s
<1>9. /\ Founded(stack')
      /\ Number(stack', Forking) = Number(stack, Forking) + 1
      /\ Number(stack', InSub) = Number(stack, InSub)
      /\ Number(stack', InTrap) = Number(stack, InTrap)
      /\ \A q \in Pid \cup {0} : Number(stack', Pending(q)) = Number(stack, Pending(q))
  BY <1>7, <1>8, PushIs DEF Level, Marked
<1>10. Len(job'.pwlist) + Number(stack', Forking) <= spawned'
  <2>1. /\ Len(job.pwlist) \in Nat /\ Number(stack, Forking) \in Nat /\ spawned \in Nat
    BY <1>1, NumberNat DEF Job, Founded, TInv, Typed
  <2>2. QED
    BY <1>3, <1>9, <2>1 DEF TInv, Counts
<1>11. spawned' \in 0..MaxSpawn
  BY <1>3, JobsBoundAssumption DEF TInv, Typed
<1>12. Lean(job, job') /\ Undone(job, job')
  BY <1>3 DEF Lean, Undone
<1>13. TInv'
  BY <1>1, <1>3, <1>9, <1>10, <1>11, <1>12, OtherStep DEF TInv, Typed, Counts
<1>14. QED
  BY <1>3, <1>9, <1>12, <1>13 DEF Calm

LEMMA ForkWaitTypes ==
    ASSUME TInv, JobmaxWait \/ JobmaxWaited \/ Ntfork \/ NtforkError
    PROVE  TInv' /\ Calm
<1>1. Top \in Frame /\ Founded(stack) /\ Good(job) /\ job \in Job
  BY TopIs
<1>2. /\ Top.fn = "fork" /\ Top.pc \in {"jobmax", "reaped", "lock", "assign"}
      /\ UNCHANGED <<sh, kernel, sigchld, child, spawned>>
  BY DEF JobmaxWait, JobmaxWaited, Ntfork, NtforkError
<1>3. \A c \in {"jobmax", "reaped", "assign", "assigned"} :
         At(c) \in Frame /\ At(c).fn = "fork" /\ Alike(Top, At(c))
  <2>1. ASSUME NEW c \in {"jobmax", "reaped", "assign", "assigned"}
        PROVE  At(c) \in Frame /\ At(c).fn = "fork" /\ Alike(Top, At(c))
    <3>1. Top \in ForkFrame /\ At(c) \in ForkFrame /\ At(c) \in Frame /\ At(c).fn = "fork" /\ At(c).pc = c
      BY <1>1, <1>2, AtFork
    <3>2. QED
      BY <1>2, <3>1, AlikeForks
  <2>2. QED
    BY <2>1
<1>4. /\ Reap(FALSE, FALSE) \in Frame /\ Void(Reap(FALSE, FALSE))
      /\ Unlock \in Frame /\ Void(Unlock)
  BY FramesAre, Zenon
<1>5. Level(stack') /\ Mild(job, job')
  <2>1. Mild(job, job_lock(job)) /\ Mild(job, job) /\ Mild(job, StartReap(job_lock(job)))
    <3>1. Good(job_lock(job)) /\ Mild(job, job_lock(job))
      BY <1>1, LockIs, MildLock
    <3>2. Mild(job_lock(job), StartReap(job_lock(job)))
      BY <3>1, StartReapIs, MildSteady
    <3>3. QED
      BY <1>1, <3>1, <3>2, MildOnce, MildTwice
  <2>2. CASE JobmaxWait
    BY <1>1, <1>2, <1>3, <1>4, <2>1, <2>2, LevelCall DEF JobmaxWait
  <2>3. CASE JobmaxWaited
    BY <1>1, <1>2, <1>3, <1>4, <2>1, <2>3, LevelCall DEF JobmaxWaited
  <2>4. CASE Ntfork
    BY <1>1, <1>2, <1>3, <1>4, <2>1, <2>4, LevelContinue DEF Ntfork
  <2>5. CASE NtforkError
    <3>1. job' = job /\ stack' \in {Call(At("assigned"), Unlock), Continue(At("assigned"))}
      BY <2>5 DEF NtforkError
    <3>2. QED
      BY <1>1, <1>2, <1>3, <1>4, <2>1, <3>1, LevelCall, LevelContinue
  <2>6. QED
    BY <2>2, <2>3, <2>4, <2>5
<1>6. QED
  BY <1>2, <1>5, CalmStep DEF TInv, Typed

(* A child starts as process p. *)
Started(p, bg) ==
    /\ kernel[p].st = "free" /\ kernel' = [kernel EXCEPT ![p] = [st |-> "run"]]
    /\ \E o \in BOOLEAN :
          child' = [child EXCEPT ![p] = [status |-> -1, bg |-> bg, traps |-> 0, owed |-> o]]
    /\ NoBg(job, p) /\ Mild(job, job')
    /\ \A q \in Pid : Number(stack', Pending(q)) =
                         IF q = p THEN 1 ELSE Number(stack, Pending(q))
    /\ Number(stack, Pending(p)) = 0

ForkedAs(p) == [Top EXCEPT !.pc = "forked", !.pid = p]

LEMMA StartTypes ==
    ASSUME TInv, NEW p \in Pid, NEW bg \in BOOLEAN, Start(p, bg),
           Top.fn = "fork", Top.pc \in {"jobmax", "assign", "assigned"},
           stack' \in {Continue(ForkedAs(p)), Call(ForkedAs(p), Unlock)},
           job' = [job_lock(job) EXCEPT !.evicted = @ \ {p}],
           UNCHANGED <<sh, sigchld, spawned>>
    PROVE  /\ TInv' /\ job'.in_critical = (job.in_critical + 1) % CriticalMod
           /\ Started(p, bg)
<1>1. Top \in Frame /\ Founded(stack) /\ Good(job) /\ job \in Job
  BY TopIs
<1>2. Top.fn = "fork" /\ Top.pc \in {"jobmax", "assign", "assigned"} /\ UNCHANGED <<sh, sigchld, spawned>>
  OBVIOUS
<1> DEFINE f == ForkedAs(p)
           o == bg /\ sh.curenv = 0
<1>5. Top \in ForkFrame
  BY <1>1, <1>2, Kinds
<1>6. f \in ForkFrame /\ f.fn = "fork" /\ f.pc = "forked" /\ f.pid = p
  BY <1>5 DEF ForkFrame, ForkedAs
<1>7. /\ Top \in Forking /\ f \in Forking /\ Top \notin InSub /\ f \notin InSub
      /\ Top \notin InTrap /\ f \notin InTrap /\ f \in Frame
      /\ \A q : Top \notin Pending(q) /\ (f \in Pending(q) <=> q = p)
  <2> HIDE DEF f
  <2>1. QED
    BY <1>2, <1>5, <1>6 DEF Frame, Forking, InSub, InTrap, Pending, BaseFrame, SubFrame, ForkFrame
<1> DEFINE s == Continue(f)
<1>8. Founded(s) /\ \A T : /\ Number(s, T) \in Nat
                           /\ Number(s, T) + (IF Top \in T THEN 1 ELSE 0)
                                = Number(stack, T) + (IF f \in T THEN 1 ELSE 0)
  <2> HIDE DEF f
  <2>1. QED
    BY <1>1, <1>2, <1>7, ContinueIs
<1>9. stack' = s \/ stack' = Append(s, Unlock)
  BY DEF Call
<1>10. /\ Unlock \in Frame /\ Unlock \notin InTrap /\ Unlock \notin InSub /\ Unlock \notin Forking
       /\ \A q \in Pid \cup {0} : Unlock \notin Pending(q)
  BY FramesAre DEF Void, Marked
<1>11. \A T : Number(stack, T) \in Nat
  BY <1>1, NumberNat DEF Founded
<1> HIDE DEF s, f
<1>12. /\ Founded(stack')
       /\ Number(stack', Forking) = Number(s, Forking) /\ Number(stack', InSub) = Number(s, InSub)
       /\ Number(stack', InTrap) = Number(s, InTrap)
       /\ \A q \in Pid \cup {0} : Number(stack', Pending(q)) = Number(s, Pending(q))
  <2>1. CASE stack' = s
    BY <1>8, <2>1
  <2>2. CASE stack' = Append(s, Unlock)
    BY <1>8, <1>10, <2>2, PushIs
  <2>3. QED
    BY <1>9, <2>1, <2>2
<1>13. \A T : (Top \in T <=> f \in T) => Number(s, T) = Number(stack, T)
  BY <1>8, <1>11
<1>14. /\ Number(s, Forking) = Number(stack, Forking) /\ Number(s, InSub) = Number(stack, InSub)
       /\ Number(s, InTrap) = Number(stack, InTrap)
       /\ \A q : q # p => Number(s, Pending(q)) = Number(stack, Pending(q))
  BY <1>7, <1>13
<1>15. Number(s, Pending(p)) + 0 = Number(stack, Pending(p)) + 1
  BY <1>7, <1>8
<1>16. /\ kernel[p].st = "free" /\ ~Background(job, p)
       /\ \A i \in 1..Len(stack) : ~(stack[i].fn \in {"fork", "wait"} /\ stack[i].pid = p)
       /\ kernel' = [kernel EXCEPT ![p] = [st |-> "run"]]
       /\ child' = [child EXCEPT ![p] = [status |-> -1, bg |-> bg, traps |-> 0, owed |-> o]]
  BY DEF Start, Unused
<1>17. Number(stack, Pending(p)) = 0
  <2>1. stack \in Seq(Frame)
    BY <1>1 DEF Founded
  <2>2. \A g \in Pending(p) : g.fn = "fork" /\ g.pid = p
    BY DEF Pending, ForkFrame
  <2>3. \A i \in 1..Len(stack) : stack[i] \notin Pending(p)
    BY <1>16, <2>2
  <2>4. QED
    BY <2>1, <2>3, NoneCount
<1>18. \A q \in Pid \cup {0} : Number(stack', Pending(q)) = IF q = p THEN 1 ELSE Number(stack, Pending(q))
  <2>1. Number(s, Pending(p)) = 1
    BY <1>8, <1>15, <1>17
  <2>2. QED
    BY <1>12, <1>14, <2>1
<1>19. NoBg(job, p)
  BY <1>1, <1>16, NotBackground DEF NoBg
<1>20. Mild(job, job') /\ job'.in_critical = (job.in_critical + 1) % CriticalMod
  <2> DEFINE a == job_lock(job)
             e == a.evicted \ {p}
  <2>1. Good(a) /\ Mild(job, a) /\ a.in_critical = (job.in_critical + 1) % CriticalMod
    BY <1>1, LockIs, MildLock
  <2>2. job' = [a EXCEPT !.evicted = @ \ {p}]
    OBVIOUS
  <2> HIDE DEF a
  <2>3. a \in Job
    BY <2>1 DEF Good
  <2>4. e \in SUBSET Pid /\ job' = [a EXCEPT !.evicted = e]
    BY <2>2, <2>3 DEF Job
  <2> HIDE DEF e
  <2>5. Same(a, job') /\ job'.numbjob = a.numbjob /\ job'.in_critical = a.in_critical
    BY <2>3, <2>4 DEF Job, Same
  <2>6. Mild(a, job')
    BY <2>1, <2>5, MildSame
  <2>7. Mild(job, job')
    BY <1>1, <2>1, <2>6, MildTwice
  <2>8. QED
    BY <2>1, <2>5, <2>7
<1>21. o \in BOOLEAN /\ kernel \in [Pid -> Kernel] /\ child \in [Pid -> Child]
  <2>1. o \in BOOLEAN
    BY Zenon
  <2>2. QED
    BY <2>1 DEF TInv, Typed
<1>22. kernel' \in [Pid -> Kernel]
  BY <1>16, <1>21 DEF Kernel
<1> HIDE DEF o
<1>23. child' \in [Pid -> Child]
  <2>1. [status |-> -1, bg |-> bg, traps |-> 0, owed |-> o] \in Child
    BY <1>21 DEF Child
  <2>2. QED
    BY <1>16, <1>21, <2>1
<1>24. Typed'
  BY <1>2, <1>12, <1>20, <1>22, <1>23 DEF TInv, Typed, Mild
<1>25. Counts'
  <2>1. \A x \in Job : Len(x.pwlist) \in Nat
    BY DEF Job
  <2>2. Len(job.pwlist) \in Nat /\ Len(job'.pwlist) \in Nat /\ spawned \in Nat
    BY <1>1, <1>20, <2>1 DEF Mild, Good, TInv, Typed
  <2>3. Len(job'.pwlist) <= Len(job.pwlist) /\ Len(job'.bck) = Len(job.bck)
    BY <1>20 DEF Mild
  <2>4. /\ Len(job.pwlist) + Number(stack, Forking) <= spawned
        /\ Len(job.bck) = 1 + Number(stack, InSub) /\ sh.intrap = Number(stack, InTrap)
    BY DEF TInv, Counts
  <2>5. Len(job'.pwlist) + Number(stack, Forking) <= spawned
    BY <1>11, <2>2, <2>3, <2>4
  <2>6. QED
    BY <1>2, <1>12, <1>14, <2>3, <2>4, <2>5 DEF Counts
<1>26. Pends'
  <2>1. \A q : NoBg(job, q) => NoBg(job', q)
    BY <1>20 DEF NoBg, Lean, Mild
  <2>2. 0 # p
    BY PidAssumption
  <2>3. QED
    BY <1>18, <1>19, <2>1, <2>2 DEF TInv, Pends
<1>27. Started(p, bg)
  BY <1>16, <1>17, <1>18, <1>19, <1>20, <1>21 DEF Started
<1>28. QED
  BY <1>20, <1>24, <1>25, <1>26, <1>27 DEF TInv

LEMMA ForkTypes ==
    ASSUME TInv, Fork_bg \/ Fork_fg
    PROVE  /\ TInv' /\ job'.in_critical = (job.in_critical + 1) % CriticalMod
           /\ \/ Fork_bg /\ \E p \in Pid : Started(p, TRUE)
              \/ Fork_fg /\ \E p \in Pid : Started(p, FALSE)
<1>1. ASSUME NEW p \in Pid
      PROVE  \A bg \in BOOLEAN :
               /\ Start(p, bg) /\ Top.fn = "fork" /\ Top.pc \in {"jobmax", "assign", "assigned"}
               /\ stack' \in {Continue(ForkedAs(p)), Call(ForkedAs(p), Unlock)}
               /\ job' = [job_lock(job) EXCEPT !.evicted = @ \ {p}]
               /\ UNCHANGED <<sh, sigchld, spawned>>
               => /\ TInv' /\ job'.in_critical = (job.in_critical + 1) % CriticalMod
                  /\ Started(p, bg)
  BY StartTypes
<1>2. TRUE \in BOOLEAN /\ FALSE \in BOOLEAN
  OBVIOUS
<1>3. CASE Fork_bg
  <2>1. PICK p \in Pid : /\ Start(p, TRUE) /\ stack' = Continue(ForkedAs(p))
                         /\ job' = [job_lock(job) EXCEPT !.evicted = @ \ {p}]
    BY <1>3 DEF Fork_bg, ForkedAs
  <2>2. /\ Top.fn = "fork" /\ Top.pc \in {"jobmax", "assign", "assigned"}
        /\ stack' \in {Continue(ForkedAs(p)), Call(ForkedAs(p), Unlock)}
        /\ UNCHANGED <<sh, sigchld, spawned>>
    BY <1>3, <2>1 DEF Fork_bg
  <2>3. /\ TInv' /\ job'.in_critical = (job.in_critical + 1) % CriticalMod /\ Started(p, TRUE)
    BY <1>1, <1>2, <2>1, <2>2, Zenon
  <2>4. QED
    BY <1>3, <2>3, Zenon
<1>4. CASE Fork_fg
  <2>1. PICK p \in Pid : /\ Start(p, FALSE) /\ stack' = Call(ForkedAs(p), Unlock)
                         /\ job' = [job_lock(job) EXCEPT !.evicted = @ \ {p}]
    BY <1>4 DEF Fork_fg, ForkedAs
  <2>2. /\ Top.fn = "fork" /\ Top.pc \in {"jobmax", "assign", "assigned"}
        /\ stack' \in {Continue(ForkedAs(p)), Call(ForkedAs(p), Unlock)}
        /\ UNCHANGED <<sh, sigchld, spawned>>
    BY <1>4, <2>1 DEF Fork_fg
  <2>3. /\ TInv' /\ job'.in_critical = (job.in_critical + 1) % CriticalMod /\ Started(p, FALSE)
    BY <1>1, <1>2, <2>1, <2>2, Zenon
  <2>4. QED
    BY <1>4, <2>3, Zenon
<1>5. QED
  BY <1>3, <1>4

LEMMA ForkPostTypes ==
    ASSUME TInv, ForkPost
    PROVE  /\ TInv' /\ UNCHANGED <<kernel, child>> /\ Top \in ForkFrame /\ Top.pid \in Pid
           /\ \E a : PostAs(job, a, Top.pid, Top.bg) /\ job' = job_lock(a)
           /\ Number(stack, Pending(Top.pid)) = 1
           /\ \A q \in Pid : Number(stack', Pending(q)) =
                               IF q = Top.pid THEN 0 ELSE Number(stack, Pending(q))
<1> DEFINE p == Top.pid
           a == job_post(job, Top.pid, Top.bg, sh.curenv)
           f == At("posted")
           s == Continue(f)
<1>1. Top \in Frame /\ Founded(stack) /\ Good(job) /\ job \in Job
  BY TopIs
<1>2. /\ Top.fn = "fork" /\ Top.pc = "forked" /\ job' = job_lock(a)
      /\ sh' = [sh EXCEPT !.jobenv = sh.curenv] /\ stack' = Append(s, Unlock)
      /\ UNCHANGED <<kernel, sigchld, child, spawned>>
  BY DEF ForkPost, Call
<1>3. /\ Top \in ForkFrame /\ f \in ForkFrame /\ f \in Frame /\ f.fn = "fork" /\ f.pc = "posted"
  BY <1>1, <1>2, AtFork
<1>4. Top.bg \in BOOLEAN /\ p \in Pid \cup {0}
  BY <1>3 DEF ForkFrame
<1>5. p \in Pid /\ Number(stack, Pending(p)) = 1 /\ NoBg(job, p)
  <2>1. Top \in Pending(p)
    BY <1>2, <1>3 DEF Pending
  <2>2. Number(stack, Pending(p)) \in Nat \ {0}
    BY <1>1, <2>1, TopCounts
  <2>3. p # 0
    BY <2>2 DEF TInv, Pends
  <2>4. QED
    BY <1>4, <2>2, <2>3 DEF TInv, Pends
<1>6. /\ Top \in Forking /\ f \notin Forking /\ Top \notin InSub /\ f \notin InSub
      /\ Top \notin InTrap /\ f \notin InTrap
      /\ \A q : f \notin Pending(q) /\ (Top \in Pending(q) <=> q = p)
  <2> HIDE DEF f
  <2>1. QED
    BY <1>2, <1>3 DEF Frame, Forking, InSub, InTrap, Pending, BaseFrame, SubFrame, ForkFrame
<1>7. Founded(s) /\ \A T : /\ Number(s, T) \in Nat
                           /\ Number(s, T) + (IF Top \in T THEN 1 ELSE 0)
                                = Number(stack, T) + (IF f \in T THEN 1 ELSE 0)
  <2> HIDE DEF f
  <2>1. QED
    BY <1>1, <1>2, <1>3, ContinueIs
<1>8. /\ Unlock \in Frame /\ Unlock \notin InTrap /\ Unlock \notin InSub /\ Unlock \notin Forking
      /\ \A q \in Pid \cup {0} : Unlock \notin Pending(q)
  BY FramesAre DEF Void, Marked
<1>9. \A T : Number(stack, T) \in Nat
  BY <1>1, NumberNat DEF Founded
<1> HIDE DEF s, f
<1>10. /\ Founded(stack')
       /\ Number(stack', Forking) = Number(s, Forking) /\ Number(stack', InSub) = Number(s, InSub)
       /\ Number(stack', InTrap) = Number(s, InTrap)
       /\ \A q \in Pid \cup {0} : Number(stack', Pending(q)) = Number(s, Pending(q))
  BY <1>2, <1>7, <1>8, PushIs
<1>11. \A T : (Top \in T <=> f \in T) => Number(s, T) = Number(stack, T)
  BY <1>7, <1>9
<1>12. /\ Number(s, InSub) = Number(stack, InSub) /\ Number(s, InTrap) = Number(stack, InTrap)
       /\ \A q : q # p => Number(s, Pending(q)) = Number(stack, Pending(q))
  BY <1>6, <1>11
<1>13. Number(s, Pending(p)) + 1 = Number(stack, Pending(p)) + 0
       /\ Number(s, Forking) + 1 = Number(stack, Forking) + 0
  BY <1>6, <1>7
<1>14. \A q \in Pid \cup {0} : Number(stack', Pending(q)) = IF q = p THEN 0 ELSE Number(stack, Pending(q))
  <2>1. Number(s, Pending(p)) = 0
    BY <1>5, <1>7, <1>13
  <2>2. QED
    BY <1>10, <1>12, <2>1
<1>15. Number(stack', Forking) = Number(stack, Forking) - 1 /\ Number(stack, Forking) \in Nat \ {0}
  BY <1>7, <1>9, <1>10, <1>13
<1>16. sh.curenv \in Nat /\ sh \in Shell /\ sh' \in Shell /\ sh'.intrap = sh.intrap
  BY <1>2 DEF TInv, Typed, Shell
<1>17. Len(job.pwlist) < MaxSpawn
  <2>1. Len(job.pwlist) \in Nat /\ spawned \in 0..MaxSpawn
    BY <1>1 DEF Job, TInv, Typed
  <2>2. QED
    BY <1>15, <2>1, JobsBoundAssumption DEF TInv, Counts
<1>18. PostAs(job, a, p, Top.bg)
  BY <1>1, <1>4, <1>5, <1>16, <1>17, PostIs DEF NoBg
<1> HIDE DEF a
<1>19. Good(job_lock(a)) /\ Mild(a, job_lock(a))
  BY <1>18, LockIs, MildLock DEF PostAs
<1>20. Typed'
  BY <1>2, <1>10, <1>16, <1>19 DEF TInv, Typed
<1>21. Counts'
  <2>1. \A x \in Job : Len(x.pwlist) \in Nat
    BY DEF Job
  <2>2. Len(job.pwlist) \in Nat /\ Len(a.pwlist) \in Nat /\ Len(job'.pwlist) \in Nat /\ spawned \in Nat
    BY <1>1, <1>2, <1>18, <1>19, <2>1 DEF PostAs, Good, TInv, Typed
  <2>3. /\ Len(job'.pwlist) <= Len(a.pwlist) /\ Len(a.pwlist) <= Len(job.pwlist) + 1
        /\ Len(job'.bck) = Len(job.bck)
    BY <1>2, <1>18, <1>19 DEF Mild, PostAs
  <2>4. /\ Len(job.pwlist) + Number(stack, Forking) <= spawned
        /\ Len(job.bck) = 1 + Number(stack, InSub) /\ sh.intrap = Number(stack, InTrap)
    BY DEF TInv, Counts
  <2>5. Len(job'.pwlist) + Number(stack', Forking) <= spawned
    BY <1>15, <2>2, <2>3, <2>4
  <2>6. QED
    BY <1>2, <1>10, <1>12, <1>16, <2>3, <2>4, <2>5 DEF Counts
<1>22. Pends'
  <2>1. \A q : q # p /\ NoBg(job, q) => NoBg(job', q)
    BY <1>2, <1>18, <1>19 DEF NoBg, Lean, Mild, PostAs
  <2>2. 0 # p
    BY <1>5, PidAssumption
  <2>3. QED
    BY <1>14, <2>1, <2>2 DEF TInv, Pends
<1>23. QED
  BY <1>2, <1>3, <1>5, <1>14, <1>18, <1>20, <1>21, <1>22 DEF TInv

LEMMA ForkEndTypes ==
    ASSUME TInv, ForkEnd \/ ForkDone
    PROVE  TInv' /\ Calm /\ job' = job
<1>1. Top \in Frame /\ Founded(stack) /\ Good(job) /\ sh \in Shell
  BY TopIs DEF TInv, Typed
<1>2. /\ Top.fn = "fork" /\ Top.pc \in {"posted", "done"}
      /\ UNCHANGED <<job, kernel, sigchld, child, spawned>>
  BY DEF ForkEnd, ForkDone
<1>3. Top \in ForkFrame /\ At("done") \in Frame /\ At("done").fn = "fork" /\ At("done").pc = "done"
  BY <1>1, <1>2, AtFork
<1>4. Void(Top) /\ Void(At("done")) /\ Unlock \in Frame /\ Void(Unlock)
  BY <1>1, <1>2, <1>3, VoidIs, FramesAre
<1>5. Level(stack') /\ sh' \in Shell /\ sh'.intrap = sh.intrap
  <2>1. CASE ForkEnd
    BY <1>1, <1>2, <1>3, <1>4, <2>1, AlikeVoid, LevelCall DEF ForkEnd
  <2>2. CASE ForkDone
    <3>1. Level(Caller)
      BY <1>1, <1>2, <1>4, LevelReturn
    <3>2. Top.pid \in Pid \cup {0}
      BY <1>3 DEF ForkFrame
    <3>3. QED
      BY <1>1, <2>2, <3>1, <3>2 DEF ForkDone, Shell
  <2>3. QED
    BY <2>1, <2>2
<1>6. QED
  BY <1>1, <1>2, <1>5, MildOnce, CalmStep DEF TInv, Typed

-------------------------------------------------------------------------------
(* The steps of job_wait and job_walk. *)

LEMMA WaitFrameIs ==
    ASSUME NEW p \in Pid \cup {0}, NEW s \in Slot \cup {0},
           NEW c \in {"walk", "loop", "reaped", "end", "cleanup", "return"}, NEW o \in BOOLEAN,
           NEW x \in Status \cup {0, 1, NotFound}
    PROVE  /\ Wait(p, s, c, o) \in Frame /\ Void(Wait(p, s, c, o))
           /\ [Wait(p, s, c, o) EXCEPT !.intr = FALSE] \in Frame
           /\ Void([Wait(p, s, c, o) EXCEPT !.intr = FALSE])
           /\ [Wait(p, s, "loop", o) EXCEPT !.pc = "return", !.exitval = x] \in Frame
           /\ Void([Wait(p, s, "loop", o) EXCEPT !.pc = "return", !.exitval = x])
<1>1. Wait(p, s, c, o) \in WaitFrame
  BY DEF Wait, WaitFrame
<1>2. [Wait(p, s, c, o) EXCEPT !.intr = FALSE] \in WaitFrame
  BY DEF Wait, WaitFrame
<1>3. [Wait(p, s, "loop", o) EXCEPT !.pc = "return", !.exitval = x] \in WaitFrame
  BY DEF Wait, WaitFrame
<1>4. \A f \in WaitFrame : f \in Frame /\ Void(f)
  <2>1. ASSUME NEW f \in WaitFrame
        PROVE  f \in Frame /\ f.fn = "wait"
    BY DEF Frame, WaitFrame
  <2>2. QED
    BY <2>1, VoidIs
<1>5. QED
  BY <1>1, <1>2, <1>3, <1>4

LEMMA WaitForegroundTypes ==
    ASSUME TInv, WaitForeground
    PROVE  TInv' /\ Calm /\ job'.in_critical = (job.in_critical + 1) % CriticalMod
<1> DEFINE p == Top.pid
           s == job_bypid(job, p)
           a == IF s = 0 THEN job_chksave(job, p)
                ELSE SetFlag(job, s, Flag(job, s) \ {"EXITSAVE"})
           w == [Wait(p, s, "loop", FALSE) EXCEPT !.intr = FALSE]
<1>1. Top \in Frame /\ Founded(stack) /\ Good(job) /\ job \in Job
  BY TopIs
<1>2. /\ Top.fn = "fork" /\ Top.pc = "done" /\ job' = job_lock(a)
      /\ stack' = IF s = 0 THEN Continue(Unlock) ELSE Continue(w)
      /\ UNCHANGED <<sh, kernel, sigchld, child, spawned>>
  BY DEF WaitForeground
<1>3. Top \in ForkFrame /\ p \in Pid \cup {0}
  BY <1>1, <1>2, Kinds DEF ForkFrame
<1>4. s \in Slot \cup {0}
  BY <1>1, BypidSlot
<1>5. Good(a) /\ Steady(job, a)
  <2>1. CASE s = 0
    BY <1>1, <2>1, ChksaveIs
  <2>2. CASE s # 0
    <3> DEFINE F == Flag(job, s) \ {"EXITSAVE"}
               b == SetFlag(job, s, F)
    <3>1. s \in Slot /\ F \in SUBSET Flag(job, s)
      BY <1>4, <2>2
    <3>2. a = b
      BY <2>2
    <3> HIDE DEF F, s
    <3>3. Good(b) /\ Steady(job, b)
      BY <1>1, <3>1, SetFlagIs
    <3>4. QED
      BY <3>2, <3>3
  <2>3. QED
    BY <2>1, <2>2
<1> HIDE DEF a, s
<1>6. Mild(job, job_lock(a)) /\ job_lock(a).in_critical = (job.in_critical + 1) % CriticalMod
  <2>1. Mild(job, a) /\ Mild(a, job_lock(a))
    BY <1>5, MildSteady, MildLock
  <2>2. a.in_critical = job.in_critical
    BY <1>5 DEF Steady, Counters
  <2>3. QED
    BY <1>1, <1>5, <2>1, <2>2, MildTwice, LockIs
<1>7. w \in Frame /\ Void(w)
  <2>1. \A o \in BOOLEAN : /\ [Wait(p, s, "loop", o) EXCEPT !.intr = FALSE] \in Frame
                           /\ Void([Wait(p, s, "loop", o) EXCEPT !.intr = FALSE])
    <3> HIDE DEF p
    <3>1. "loop" \in {"walk", "loop", "reaped", "end", "cleanup", "return"}
          /\ 1 \in Status \cup {0, 1, NotFound}
      OBVIOUS
    <3>2. QED
      BY <1>3, <1>4, <3>1, WaitFrameIs
  <2>2. FALSE \in BOOLEAN
    OBVIOUS
  <2>3. QED
    BY <2>1, <2>2, Zenon
<1>8. Unlock \in Frame /\ Void(Unlock) /\ Void(Top)
  BY <1>1, <1>2, FramesAre, VoidIs
<1> HIDE DEF w
<1>9. Level(stack')
  BY <1>1, <1>2, <1>7, <1>8, AlikeVoid, LevelContinue
<1>10. QED
  BY <1>2, <1>6, <1>9, CalmStep DEF TInv, Typed

(* The frame of wait p; it looks for the record before anything else. *)
WaitOf(p, o) == Wait(p, job_bypid(job, p), "loop", o)
Refused(w, x) == [w EXCEPT !.pc = "return", !.exitval = x]

LEMMA WaitForTypes ==
    ASSUME TInv, NEW p \in Pid, WaitFor(p)
    PROVE  TInv' /\ Calm /\ job'.in_critical = (job.in_critical + 1) % CriticalMod
<1> DEFINE s == job_bypid(job, p)
           x == SavedStatus(job, p)
           o == Owed(p)
           w == Wait(p, s, "loop", o)
           y == IF x < 0 THEN NotFound ELSE x
           a == IF s = 0 THEN job_chksave(job, p) ELSE job
           P == At("post")
<1>1. Top \in Frame /\ Founded(stack) /\ Good(job) /\ job \in Job
  BY TopIs
<1>2. Idle /\ UNCHANGED <<sh, kernel, sigchld, child, spawned>>
  BY DEF WaitFor
<1>3. job' = job_lock(a) /\ (\/ stack' = Append(Call(P, Refused(w, y)), Unlock)
                             \/ stack' = Call(P, w)
                             \/ stack' = Append(Call(P, Refused(w, NotFound)), Unlock))
  <2>1. CASE s = 0
    <3>1. job' = job_lock(job_chksave(job, p)) /\ stack' = Append(Call(P, Refused(w, y)), Unlock)
      BY <2>1 DEF WaitFor, Refused
    <3>2. QED
      BY <2>1, <3>1
  <2>2. CASE s # 0
    <3>1. job' = job_lock(job) /\ (\/ stack' = Call(P, w)
                                   \/ stack' = Append(Call(P, Refused(w, NotFound)), Unlock))
      BY <2>2 DEF WaitFor, Refused
    <3>2. QED
      BY <2>2, <3>1
  <2>3. QED
    BY <2>1, <2>2
<1>4. s \in Slot \cup {0}
  BY <1>1, BypidSlot
<1>5. o \in BOOLEAN
  BY Zenon DEF Owed
<1>6. y \in Status \cup {0, 1, NotFound} /\ NotFound \in Status \cup {0, 1, NotFound}
  <2>1. x \in Status \cup {0, -1}
    BY <1>1, SavedStatusIs
  <2> HIDE DEF x
  <2>2. QED
    BY <2>1
<1> HIDE DEF s, o, y, x
<1>7. /\ w \in Frame /\ Void(w)
      /\ \A z \in Status \cup {0, 1, NotFound} : Refused(w, z) \in Frame /\ Void(Refused(w, z))
  <2>1. "loop" \in {"walk", "loop", "reaped", "end", "cleanup", "return"} /\ p \in Pid \cup {0}
    OBVIOUS
  <2>2. QED
    BY <1>4, <1>5, <1>6, <2>1, WaitFrameIs DEF Refused
<1>8. Unlock \in Frame /\ Void(Unlock)
  BY FramesAre
<1> HIDE DEF w, P
<1>9. \A f \in Frame : Void(f) => Level(Call(P, f)) /\ Level(Append(Call(P, f), Unlock))
  <2>1. ASSUME NEW f \in Frame, Void(f)
        PROVE  Level(Call(P, f)) /\ Level(Append(Call(P, f), Unlock))
    <3>1. Level(Call(P, f))
      BY <1>2, <2>1, CommandLevel DEF P
    <3>2. QED
      BY <1>8, <3>1, LevelPush
  <2>2. QED
    BY <2>1
<1>10. Level(stack')
  BY <1>3, <1>6, <1>7, <1>9
<1>11. Good(a) /\ Steady(job, a)
  <2>1. Len(job.pwlist) \in Nat
    BY <1>1 DEF Job
  <2>2. CASE s = 0
    BY <1>1, <2>2, ChksaveIs
  <2>3. CASE s # 0
    BY <1>1, <2>1, <2>3, SteadyOnce
  <2>4. QED
    BY <2>2, <2>3
<1> HIDE DEF a
<1>12. Mild(job, job_lock(a)) /\ job_lock(a).in_critical = (job.in_critical + 1) % CriticalMod
  <2>1. Mild(job, a) /\ Mild(a, job_lock(a))
    BY <1>11, MildSteady, MildLock
  <2>2. a.in_critical = job.in_critical
    BY <1>11 DEF Steady, Counters
  <2>3. QED
    BY <1>1, <1>11, <2>1, <2>2, MildTwice, LockIs
<1>13. QED
  BY <1>2, <1>3, <1>10, <1>12, CalmStep DEF TInv, Typed

LEMMA WalkFrames ==
    /\ Wait(0, 0, "loop", FALSE) \in Frame /\ Void(Wait(0, 0, "loop", FALSE))
    /\ Wait(0, 0, "walk", FALSE) \in Frame /\ Void(Wait(0, 0, "walk", FALSE))
<1>1. \A o \in BOOLEAN, c \in {"walk", "loop"} :
         Wait(0, 0, c, o) \in Frame /\ Void(Wait(0, 0, c, o))
  <2>1. ASSUME NEW o \in BOOLEAN, NEW c \in {"walk", "loop"}
        PROVE  Wait(0, 0, c, o) \in Frame /\ Void(Wait(0, 0, c, o))
    <3>1. c \in {"walk", "loop", "reaped", "end", "cleanup", "return"}
      OBVIOUS
    <3>2. 0 \in Pid \cup {0} /\ 0 \in Slot \cup {0} /\ 0 \in Status \cup {0, 1, NotFound}
      OBVIOUS
    <3>3. QED
      BY <2>1, <3>1, <3>2, WaitFrameIs
  <2>2. QED
    BY <2>1
<1>2. FALSE \in BOOLEAN /\ "walk" \in {"walk", "loop"} /\ "loop" \in {"walk", "loop"}
  OBVIOUS
<1>3. QED
  BY <1>1, <1>2, Zenon

LEMMA WaitAllTypes ==
    ASSUME TInv, WaitAll \/ Jobs
    PROVE  TInv' /\ Calm /\ job'.in_critical = (job.in_critical + 1) % CriticalMod
<1>1. Top \in Frame /\ Founded(stack) /\ Good(job) /\ job \in Job
  BY TopIs
<1>2. Idle /\ UNCHANGED <<sh, kernel, sigchld, child, spawned>>
  BY DEF WaitAll, Jobs
<1> DEFINE a == job_lock(job)
           P == At("post")
           w == Wait(0, 0, "walk", FALSE)
<1>3. Good(a) /\ Mild(job, a) /\ a.in_critical = (job.in_critical + 1) % CriticalMod
  BY <1>1, LockIs, MildLock
<1>4. Reap(TRUE, FALSE) \in Frame /\ Void(Reap(TRUE, FALSE))
  BY FramesAre, Zenon
<1>5. Level(Call(P, w)) /\ Level(Call(P, Wait(0, 0, "loop", FALSE)))
  BY <1>2, WalkFrames, CommandLevel
<1>6. Level(Append(Call(P, w), Reap(TRUE, FALSE)))
  BY <1>4, <1>5, LevelPush
<1>7. Level(stack') /\ Mild(job, job') /\ job'.in_critical = a.in_critical
  <2>1. CASE WaitAll
    BY <1>3, <1>5, <2>1 DEF WaitAll
  <2>2. CASE Jobs /\ a.in_critical # 0
    <3>1. job' = [a EXCEPT !.savesig = TRUE, !.waitsafe = Bump(@)] /\ stack' = Call(P, w)
      BY <2>2 DEF Jobs
    <3> DEFINE v == Bump(a.waitsafe)
    <3> HIDE DEF a
    <3>2. a \in Job
      BY <1>3 DEF Good
    <3>3. v \in 0..WaitsafeMod - 1 /\ TRUE \in BOOLEAN
      BY <3>2, LimitAssumption DEF Job, Bump
    <3>4. job' = [a EXCEPT !.savesig = TRUE, !.waitsafe = v]
      BY <3>1, <3>2 DEF Job
    <3> HIDE DEF v
    <3>5. Same(a, job') /\ job'.numbjob = a.numbjob /\ job'.in_critical = a.in_critical
      BY <3>2, <3>3, <3>4 DEF Job, Same
    <3>6. Mild(a, job')
      BY <1>3, <3>5, MildSame
    <3>7. Mild(job, job')
      BY <1>1, <1>3, <3>6, MildTwice
    <3>8. QED
      BY <1>5, <3>1, <3>5, <3>7
  <2>3. CASE Jobs /\ a.in_critical = 0
    <3>1. job' = StartReap(a) /\ stack' = Append(Call(P, w), Reap(TRUE, FALSE))
      BY <2>3 DEF Jobs
    <3> HIDE DEF a
    <3>2. Mild(a, job') /\ job'.in_critical = a.in_critical
      BY <1>3, <3>1, StartReapIs, MildSteady DEF Steady, Counters
    <3>3. Mild(job, job')
      BY <1>1, <1>3, <3>2, MildTwice
    <3>4. QED
      BY <1>6, <3>1, <3>2, <3>3
  <2>4. QED
    BY <2>1, <2>2, <2>3
<1>8. QED
  BY <1>2, <1>3, <1>7, CalmStep DEF TInv, Typed

LEMMA AtWait ==
    ASSUME Top \in Frame, Top.fn = "wait",
           NEW c \in {"walk", "loop", "reaped", "end", "cleanup", "return"},
           NEW x \in Status \cup {0, 1, NotFound}
    PROVE  /\ Top \in WaitFrame /\ At(c) \in Frame /\ Alike(Top, At(c))
           /\ [Top EXCEPT !.pc = "end", !.exitval = x] \in Frame
           /\ Alike(Top, [Top EXCEPT !.pc = "end", !.exitval = x])
           /\ At(c).fn = "wait"
<1>1. Top \in WaitFrame
  BY Kinds
<1>2. At(c) \in WaitFrame /\ [Top EXCEPT !.pc = "end", !.exitval = x] \in WaitFrame
  BY <1>1 DEF At, WaitFrame
<1>3. \A f \in WaitFrame : f \in Frame /\ Void(f) /\ f.fn = "wait"
  <2>1. ASSUME NEW f \in WaitFrame
        PROVE  f \in Frame /\ f.fn = "wait"
    BY DEF Frame, WaitFrame
  <2>2. QED
    BY <2>1, VoidIs
<1>4. QED
  BY <1>1, <1>2, <1>3, AlikeVoid

LEMMA JobsWalkTypes ==
    ASSUME TInv, JobsWalk
    PROVE  TInv' /\ Calm /\ job'.in_critical = job.in_critical
<1>1. Top \in Frame /\ Founded(stack) /\ Good(job) /\ job \in Job
  BY TopIs
<1> DEFINE rec == [s \in Slot |-> IF Told(job, s)
                                  THEN [job.rec[s] EXCEPT !.flag = @ \ {"NOTIFY"}]
                                  ELSE job.rec[s]]
<1>2. /\ Top.fn = "wait" /\ job' = [job EXCEPT !.rec = rec] /\ stack' = Call(At("cleanup"), Unlock)
      /\ UNCHANGED <<sh, kernel, sigchld, child, spawned>>
  BY DEF JobsWalk
<1>3. job.rec \in [Slot -> Process]
  BY <1>1 DEF Job
<1>4. \A s \in Slot : /\ rec[s] \in Process /\ rec[s].pid = job.rec[s].pid
                      /\ rec[s].flag \subseteq job.rec[s].flag
                      /\ ~Contains(job.pwlist, s) => rec[s] = job.rec[s]
  BY <1>3 DEF Process, Told
<1>5. rec \in [Slot -> Process]
  BY <1>4
<1> HIDE DEF rec
<1>6. job'.rec = rec
  BY <1>1, <1>2 DEF Job
<1>7. Good(job') /\ Steady(job, job')
  BY <1>1, <1>2, <1>4, <1>5, <1>6, FlagsOnly
<1>8. Level(stack')
  BY <1>1, <1>2, AtWait, FramesAre, LevelCall
<1>9. TInv' /\ Calm
  BY <1>2, <1>7, <1>8, MildSteady, CalmStep DEF TInv, Typed
<1>10. QED
  BY <1>7, <1>9 DEF Steady, Counters

LEMMA WaitDoneTypes ==
    ASSUME TInv, WaitDone
    PROVE  TInv' /\ Calm /\ job'.in_critical = job.in_critical
<1>1. Top \in Frame /\ Founded(stack) /\ Good(job) /\ job \in Job
  BY TopIs
<1> DEFINE s == Top.pw
           F == Flag(job, s) \ ({"NOTIFY"} \cup IF Top.intr THEN {"EXITSAVE"} ELSE {})
           a == SetFlag(job, s, F)
           y == IF Top.intr /\ sh.trapnote THEN 1 ELSE job.rec[s].exit
<1>2. /\ Top.fn = "wait" /\ s # 0 /\ job' = job_unpost(a, s, TRUE)
      /\ stack' = Continue([Top EXCEPT !.pc = "end", !.exitval = y])
      /\ UNCHANGED <<sh, kernel, sigchld, child, spawned>>
  BY DEF WaitDone, WaitEnds, Reported
<1>3. s \in Slot
  BY <1>1, <1>2, Kinds DEF WaitFrame
<1>4. y \in Status \cup {0, 1, NotFound}
  <2>1. job.rec[s] \in Process
    BY <1>1, <1>3 DEF Job
  <2>2. QED
    BY <2>1 DEF Process
<1>5. F \in SUBSET Flag(job, s)
  OBVIOUS
<1> HIDE DEF s, F, y
<1>6. Good(a) /\ Steady(job, a)
  BY <1>1, <1>3, <1>5, SetFlagIs
<1> HIDE DEF a
<1>7. Good(job') /\ Steady(a, job')
  <2>1. \A z \in BOOLEAN : Good(job_unpost(a, s, z)) /\ Steady(a, job_unpost(a, s, z))
    BY <1>3, <1>6, UnpostIs
  <2>2. TRUE \in BOOLEAN
    OBVIOUS
  <2>3. QED
    BY <1>2, <2>1, <2>2, Zenon
<1>8. Mild(job, a) /\ Mild(a, job')
  BY <1>6, <1>7, MildSteady
<1>9. Mild(job, job')
  BY <1>1, <1>8, MildTwice
<1>10. Level(stack')
  BY <1>1, <1>2, <1>4, AtWait, LevelContinue
<1>11. job'.in_critical = job.in_critical
  BY <1>6, <1>7 DEF Steady, Counters
<1>12. QED
  BY <1>2, <1>9, <1>10, <1>11, CalmStep DEF TInv, Typed

LEMMA WaitReapTypes ==
    ASSUME TInv, WaitReap
    PROVE  TInv' /\ Calm /\ job'.in_critical = job.in_critical
<1>1. Top \in Frame /\ Founded(stack) /\ Good(job) /\ job \in Job
  BY TopIs
<1> DEFINE a == [job EXCEPT !.waitsafe = 0]
<1>2. /\ Top.fn = "wait" /\ job' = StartReap(a)
      /\ stack' = Call(At("reaped"), Reap(job.savesig, FALSE))
      /\ UNCHANGED <<sh, kernel, sigchld, child, spawned>>
  BY DEF WaitReap
<1>3. 0 \in 0..WaitsafeMod - 1 /\ job.savesig \in BOOLEAN
  BY <1>1, LimitAssumption DEF Job
<1>4. Same(job, a) /\ a.numbjob = job.numbjob /\ a.in_critical = job.in_critical
  BY <1>1, <1>3 DEF Job, Same
<1> HIDE DEF a
<1>5. Good(a) /\ Mild(job, a)
  BY <1>1, <1>4, MildSame DEF Mild
<1>6. Mild(a, job') /\ job'.in_critical = a.in_critical
  BY <1>2, <1>5, StartReapIs, MildSteady DEF Steady, Counters
<1>7. Mild(job, job')
  BY <1>1, <1>5, <1>6, MildTwice
<1>8. Reap(job.savesig, FALSE) \in Frame /\ Void(Reap(job.savesig, FALSE))
  <2>1. FALSE \in BOOLEAN
    OBVIOUS
  <2>2. QED
    BY <1>3, <2>1, FramesAre, Zenon
<1>9. At("reaped") \in Frame /\ Alike(Top, At("reaped")) /\ At("reaped").fn = "wait"
  BY <1>1, <1>2, AtWait
<1>10. Level(stack')
  BY <1>1, <1>2, <1>8, <1>9, LevelCall
<1>11. QED
  BY <1>2, <1>4, <1>6, <1>7, <1>10, CalmStep DEF TInv, Typed

LEMMA WaitReapedTypes ==
    ASSUME TInv, WaitReaped \/ WaitEnd
    PROVE  TInv' /\ Calm /\ job' = job
<1>1. Top \in Frame /\ Founded(stack) /\ Good(job) /\ job \in Job
  BY TopIs
<1>2. Top.fn = "wait" /\ UNCHANGED <<job, sh, kernel, sigchld, child, spawned>>
  BY DEF WaitReaped, WaitEnd
<1>3. Top.exitval \in Status \cup {0, 1, NotFound}
  BY <1>1, <1>2, Kinds DEF WaitFrame
<1>4. Level(stack')
  <2>1. CASE WaitReaped
    <3> DEFINE y == IF Top.intr /\ sh.trapnote THEN 1 ELSE Top.exitval
    <3>1. stack' = Continue([Top EXCEPT !.pc = "end", !.exitval = y]) \/ stack' = Continue(At("loop"))
      BY <2>1 DEF WaitReaped, WaitEnds
    <3>2. y \in Status \cup {0, 1, NotFound}
      BY <1>3
    <3> HIDE DEF y
    <3>3. QED
      BY <1>1, <1>2, <3>1, <3>2, AtWait, LevelContinue
  <2>2. CASE WaitEnd
    <3>1. stack' = Call(At("return"), Unlock) \/ stack' = Call(At("cleanup"), Unlock)
      BY <2>2 DEF WaitEnd
    <3>2. QED
      BY <1>1, <1>2, <3>1, AtWait, FramesAre, LevelCall
  <2>3. QED
    BY <2>1, <2>2
<1>5. QED
  BY <1>1, <1>2, <1>4, MildOnce, CalmStep DEF TInv, Typed

LEMMA WaitCleanupTypes ==
    ASSUME TInv, WaitCleanup
    PROVE  /\ TInv' /\ Calm
           /\ job'.in_critical = IF sh.intrap = 0 THEN (job.in_critical + 1) % CriticalMod
                                                  ELSE job.in_critical
<1>1. Top \in Frame /\ Founded(stack) /\ Good(job) /\ job \in Job
  BY TopIs
<1>2. Top.fn = "wait" /\ UNCHANGED <<sh, kernel, sigchld, child, spawned>>
  BY DEF WaitCleanup
<1>3. Level(Continue(At("return"))) /\ Level(Call(At("return"), Unlock))
  BY <1>1, <1>2, AtWait, FramesAre, LevelContinue, LevelCall
<1>4. CASE sh.intrap = 0
  <2> DEFINE a == Unposted(job, Slot)
  <2>1. job' = job_lock(a) /\ stack' = Call(At("return"), Unlock)
    BY <1>4 DEF WaitCleanup
  <2>2. Good(a) /\ Steady(job, a)
    BY <1>1, UnpostedIs
  <2> HIDE DEF a
  <2>3. Mild(job, a) /\ Mild(a, job') /\ a.in_critical = job.in_critical
    BY <2>1, <2>2, MildSteady, MildLock DEF Steady, Counters
  <2>4. Mild(job, job') /\ job'.in_critical = (job.in_critical + 1) % CriticalMod
    BY <1>1, <2>1, <2>2, <2>3, MildTwice, LockIs
  <2>5. QED
    BY <1>2, <1>3, <1>4, <2>1, <2>4, CalmStep DEF TInv, Typed
<1>5. CASE sh.intrap # 0
  <2>1. job' = job /\ stack' = Continue(At("return"))
    BY <1>5 DEF WaitCleanup
  <2>2. QED
    BY <1>1, <1>2, <1>3, <1>5, <2>1, MildOnce, CalmStep DEF TInv, Typed
<1>6. QED
  BY <1>4, <1>5

LEMMA WaitReturnTypes ==
    ASSUME TInv, WaitReturn
    PROVE  /\ TInv' /\ job' = job /\ kernel' = kernel
           /\ \A p \in Pid : Number(stack', Pending(p)) = Number(stack, Pending(p))
           /\ \A p \in Pid : /\ child'[p].status = child[p].status /\ child'[p].bg = child[p].bg
                             /\ child'[p].traps = child[p].traps
<1>1. Top \in Frame /\ Founded(stack) /\ Good(job) /\ job \in Job
  BY TopIs
<1>2. /\ Top.fn = "wait" /\ stack' = Caller /\ UNCHANGED <<job, sh, kernel, sigchld, spawned>>
      /\ child' = IF Top.pid = 0 THEN child ELSE [child EXCEPT ![Top.pid].owed = FALSE]
  BY DEF WaitReturn
<1>3. Top.pid \in Pid \cup {0} /\ child \in [Pid -> Child]
  BY <1>1, <1>2, Kinds DEF WaitFrame, TInv, Typed
<1>4. /\ child' \in [Pid -> Child]
      /\ \A p \in Pid : /\ child'[p].status = child[p].status /\ child'[p].bg = child[p].bg
                        /\ child'[p].traps = child[p].traps
  BY <1>2, <1>3 DEF Child
<1>5. Level(stack')
  BY <1>1, <1>2, VoidIs, LevelReturn
<1>6. Mild(job, job')
  BY <1>1, <1>2, MildOnce
<1>7. TInv' /\ \A p \in Pid : Number(stack', Pending(p)) = Number(stack, Pending(p))
  BY <1>2, <1>4, <1>5, <1>6, QuietStep DEF TInv, Typed, Mild
<1>8. QED
  BY <1>2, <1>4, <1>7

-------------------------------------------------------------------------------
(* The steps of sh_subshell. *)

LEMMA AtSub ==
    ASSUME Top \in Frame, Top.fn = "sub", NEW c \in {"idle", "leave"}
    PROVE  /\ Top \in SubFrame /\ At(c) \in SubFrame /\ At(c) \in Frame
           /\ At(c).fn = "sub" /\ At(c).pc = c
<1>1. Top \in SubFrame
  BY Kinds
<1>2. At(c) \in SubFrame /\ At(c).fn = "sub" /\ At(c).pc = c
  BY <1>1 DEF At, SubFrame
<1>3. QED
  BY <1>1, <1>2 DEF Frame

LEMMA SubMarks ==
    ASSUME NEW f \in SubFrame, f.pc # "leave"
    PROVE  /\ f \in Frame /\ f \in InSub /\ f \notin InTrap /\ f \notin Forking
           /\ \A q : f \notin Pending(q)
  BY DEF Frame, InSub, InTrap, Forking, Pending, SubFrame, BaseFrame, ForkFrame

LEMMA EnterSubTypes ==
    ASSUME TInv, EnterSub
    PROVE  TInv' /\ Calm /\ job'.in_critical = (job.in_critical + 1) % CriticalMod
<1>1. Top \in Frame /\ Founded(stack) /\ Good(job) /\ job \in Job /\ sh \in Shell
  BY TopIs DEF TInv, Typed
<1> DEFINE a == job_lock(job)
           f == Sub(sh.curenv)
           P == At("post")
           s == Continue(P)
           t == Append(s, f)
           env == IF sh.curenv = 0 THEN 1 ELSE sh.subenv + 1
<1>2. /\ Idle /\ job' = [a EXCEPT !.bck = Append(@, <<>>)] /\ stack' = Append(t, Unlock)
      /\ sh' = [sh EXCEPT !.curenv = env, !.subenv = env]
      /\ UNCHANGED <<kernel, sigchld, child, spawned>>
  BY DEF EnterSub, Call
<1>3. env \in Nat /\ sh.curenv \in Nat /\ sh.trapcom \in BOOLEAN /\ sh.bckpid \in Pid \cup {0}
  BY <1>1 DEF Shell
<1>4. f \in SubFrame /\ f.pc # "leave"
  BY <1>3 DEF Sub, SubFrame
<1> HIDE DEF f, env
<1>5. /\ f \in Frame /\ f \in InSub /\ f \notin InTrap /\ f \notin Forking
      /\ \A q : f \notin Pending(q)
  BY <1>4, SubMarks
<1>6. P \in Frame /\ P.fn = Top.fn /\ Alike(Top, P)
  BY <1>1, <1>2, CommandIs DEF Idle
<1>7. Level(s)
  BY <1>1, <1>6, LevelContinue
<1> HIDE DEF s
<1>8. /\ Founded(t) /\ Number(t, InSub) = Number(stack, InSub) + 1
      /\ Number(t, InTrap) = Number(stack, InTrap) /\ Number(t, Forking) = Number(stack, Forking)
      /\ \A q \in Pid \cup {0} : Number(t, Pending(q)) = Number(stack, Pending(q))
  BY <1>5, <1>7, PushIs DEF Level, Marked
<1>9. /\ Unlock \in Frame /\ Unlock \notin InTrap /\ Unlock \notin InSub /\ Unlock \notin Forking
      /\ \A q \in Pid \cup {0} : Unlock \notin Pending(q)
  BY FramesAre DEF Void, Marked
<1> HIDE DEF t
<1>10. /\ Founded(stack') /\ Number(stack', InSub) = Number(stack, InSub) + 1
       /\ Number(stack', InTrap) = Number(stack, InTrap)
       /\ Number(stack', Forking) = Number(stack, Forking)
       /\ \A q \in Pid \cup {0} : Number(stack', Pending(q)) = Number(stack, Pending(q))
  BY <1>2, <1>8, <1>9, PushIs
<1>11. Good(a) /\ Mild(job, a) /\ a.in_critical = (job.in_critical + 1) % CriticalMod
  BY <1>1, LockIs, MildLock
<1> HIDE DEF a
<1>12. /\ Good(job') /\ Lean(a, job') /\ Undone(a, job') /\ Len(job'.bck) = Len(a.bck) + 1
       /\ job'.pwlist = a.pwlist /\ job'.numbjob = a.numbjob /\ job'.in_critical = a.in_critical
  BY <1>2, <1>11, SubsaveIs
<1>13. Lean(job, job') /\ Undone(job, job') /\ job'.numbjob = job.numbjob
  BY <1>11, <1>12 DEF Mild, Lean, Undone
<1>14. sh' \in Shell /\ sh'.intrap = sh.intrap
  BY <1>1, <1>2, <1>3 DEF Shell
<1>15. /\ Len(job'.pwlist) + Number(stack', Forking) <= spawned'
       /\ Len(job'.bck) = 1 + Number(stack', InSub) /\ sh'.intrap = Number(stack', InTrap)
  <2>1. \A x \in Job : Len(x.pwlist) \in Nat
    BY DEF Job
  <2>2. /\ Len(job.pwlist) \in Nat /\ Len(a.pwlist) \in Nat /\ Number(stack, Forking) \in Nat
        /\ Number(stack, InSub) \in Nat /\ spawned \in Nat
    BY <1>1, <1>11, <2>1, NumberNat DEF Good, Founded, TInv, Typed
  <2>3. Len(a.pwlist) <= Len(job.pwlist) /\ Len(a.bck) = Len(job.bck)
    BY <1>11 DEF Mild
  <2>4. /\ Len(job.pwlist) + Number(stack, Forking) <= spawned
        /\ Len(job.bck) = 1 + Number(stack, InSub) /\ sh.intrap = Number(stack, InTrap)
    BY DEF TInv, Counts
  <2>5. Len(a.pwlist) + Number(stack, Forking) <= spawned
    BY <2>2, <2>3, <2>4
  <2>6. Len(job'.bck) = 1 + (Number(stack, InSub) + 1)
    BY <1>12, <2>2, <2>3, <2>4
  <2>7. QED
    BY <1>2, <1>10, <1>12, <1>14, <2>4, <2>5, <2>6
<1>16. TInv'
  BY <1>2, <1>10, <1>12, <1>13, <1>14, <1>15, OtherStep DEF TInv, Typed
<1>17. QED
  BY <1>2, <1>10, <1>11, <1>12, <1>13, <1>16 DEF Calm

LEMMA SigresetIs ==
    ASSUME sh \in Shell
    PROVE  sh_sigreset \in Shell /\ sh_sigreset.intrap = sh.intrap
<1> DEFINE z == sh.sigflag /\ ~sh.trapcom
<1>1. z \in BOOLEAN /\ FALSE \in BOOLEAN
  BY Zenon
<1>2. sh_sigreset = [sh EXCEPT !.trapcom = FALSE, !.sigflag = z, !.trapnote = FALSE]
  BY DEF sh_sigreset
<1> HIDE DEF z
<1>3. QED
  BY <1>1, <1>2 DEF Shell

LEMMA SubResetTypes ==
    ASSUME TInv, SubReset
    PROVE  TInv' /\ Calm /\ job' = job
<1>1. Top \in Frame /\ Founded(stack) /\ Good(job) /\ job \in Job /\ sh \in Shell
  BY TopIs DEF TInv, Typed
<1>2. /\ Top.fn = "sub" /\ Top.pc = "reset" /\ sh' = sh_sigreset /\ stack' = Continue(At("idle"))
      /\ UNCHANGED <<job, kernel, sigchld, child, spawned>>
  BY DEF SubReset
<1>3. /\ Top \in SubFrame /\ At("idle") \in SubFrame /\ At("idle") \in Frame
      /\ At("idle").fn = "sub" /\ At("idle").pc = "idle"
  BY <1>1, <1>2, AtSub
<1> DEFINE f == At("idle")
<1> HIDE DEF f
<1>4. Alike(Top, f)
  <2>1. /\ Top \in InSub /\ Top \notin InTrap /\ Top \notin Forking
        /\ \A q : Top \notin Pending(q)
    BY <1>2, <1>3, SubMarks
  <2>2. f \in SubFrame /\ f.pc # "leave"
    BY <1>3 DEF f
  <2>3. /\ f \in InSub /\ f \notin InTrap /\ f \notin Forking /\ \A q : f \notin Pending(q)
    BY <2>2, SubMarks
  <2>4. QED
    BY <2>1, <2>3 DEF Alike, Marked
<1>5. Level(stack')
  BY <1>1, <1>2, <1>3, <1>4, LevelContinue DEF f
<1>6. sh' \in Shell /\ sh'.intrap = sh.intrap
  BY <1>1, <1>2, SigresetIs
<1>7. QED
  BY <1>1, <1>2, <1>5, <1>6, MildOnce, CalmStep DEF TInv, Typed

LEMMA LeaveSubTypes ==
    ASSUME TInv, LeaveSub
    PROVE  /\ TInv' /\ Lean(job, job') /\ job'.numbjob = job.numbjob
           /\ job'.in_critical = (job.in_critical + 1) % CriticalMod
           /\ \A q \in Pid : Number(stack', Pending(q)) = Number(stack, Pending(q))
           /\ kernel' = kernel /\ child' = child
<1>1. Top \in Frame /\ Founded(stack) /\ Good(job) /\ job \in Job /\ sh \in Shell
  BY TopIs DEF TInv, Typed
<1> DEFINE a == job_subrestore(job, sh.curenv)
           f == At("leave")
           s == Continue(f)
<1>2. /\ Top.fn = "sub" /\ Top.pc = "idle" /\ job' = job_lock(a) /\ stack' = Append(s, Unlock)
      /\ UNCHANGED <<sh, kernel, sigchld, child, spawned>>
  BY DEF LeaveSub, Call
<1>3. /\ Top \in SubFrame /\ f \in Frame /\ f.fn = "sub" /\ f.pc = "leave"
  BY <1>1, <1>2, AtSub
<1>4. /\ Top \in InSub /\ Top \notin InTrap /\ Top \notin Forking
      /\ \A q : Top \notin Pending(q)
  BY <1>2, <1>3, SubMarks
<1> HIDE DEF f
<1>5. /\ f \notin InSub /\ f \notin InTrap /\ f \notin Forking
      /\ \A q \in Pid \cup {0} : f \notin Pending(q)
  BY <1>3, VoidIs DEF Void, Marked
<1>6. Founded(s) /\ \A T : /\ Number(s, T) \in Nat
                           /\ Number(s, T) + (IF Top \in T THEN 1 ELSE 0)
                                = Number(stack, T) + (IF f \in T THEN 1 ELSE 0)
  BY <1>1, <1>2, <1>3, ContinueIs
<1>7. /\ Unlock \in Frame /\ Unlock \notin InTrap /\ Unlock \notin InSub /\ Unlock \notin Forking
      /\ \A q \in Pid \cup {0} : Unlock \notin Pending(q)
  BY FramesAre DEF Void, Marked
<1>8. \A T : Number(stack, T) \in Nat
  BY <1>1, NumberNat DEF Founded
<1> HIDE DEF s
<1>9. /\ Founded(stack')
      /\ Number(stack', Forking) = Number(s, Forking) /\ Number(stack', InSub) = Number(s, InSub)
      /\ Number(stack', InTrap) = Number(s, InTrap)
      /\ \A q \in Pid \cup {0} : Number(stack', Pending(q)) = Number(s, Pending(q))
  BY <1>2, <1>6, <1>7, PushIs
<1>10. \A T : Top \notin T /\ f \notin T => Number(s, T) = Number(stack, T)
  BY <1>6, <1>8
<1>11. /\ Number(stack', Forking) = Number(stack, Forking)
       /\ Number(stack', InTrap) = Number(stack, InTrap)
       /\ \A q \in Pid \cup {0} : Number(stack', Pending(q)) = Number(stack, Pending(q))
  BY <1>4, <1>5, <1>9, <1>10
<1>12. Number(s, InSub) + 1 = Number(stack, InSub) + 0
  BY <1>4, <1>5, <1>6
<1>13. Number(stack', InSub) = Number(stack, InSub) - 1 /\ Number(stack, InSub) \in Nat \ {0}
  BY <1>6, <1>8, <1>9, <1>12
<1>14. Len(job.bck) >= 2 /\ Len(job.bck) = 1 + Number(stack, InSub)
  BY <1>13 DEF TInv, Counts
<1>15. SubrestoreAs(job, a)
  BY <1>1, <1>14, SubrestoreIs
<1> HIDE DEF a
<1>16. Good(a) /\ Good(job') /\ Mild(a, job') /\ a.in_critical = job.in_critical
       /\ job'.in_critical = (job.in_critical + 1) % CriticalMod
  BY <1>2, <1>15, LockIs, MildLock DEF SubrestoreAs
<1>17. Lean(job, job') /\ job'.numbjob = job.numbjob
  BY <1>15, <1>16 DEF SubrestoreAs, Mild, Lean
<1>18. /\ Len(job'.pwlist) + Number(stack', Forking) <= spawned'
       /\ Len(job'.bck) = 1 + Number(stack', InSub) /\ sh'.intrap = Number(stack', InTrap)
  <2>1. \A x \in Job : Len(x.pwlist) \in Nat
    BY DEF Job
  <2>2. /\ Len(job.pwlist) \in Nat /\ Len(a.pwlist) \in Nat /\ Len(job'.pwlist) \in Nat
        /\ Number(stack, Forking) \in Nat /\ spawned \in Nat
    BY <1>1, <1>16, <2>1, NumberNat DEF Good, Founded, TInv, Typed
  <2>3. /\ Len(job'.pwlist) <= Len(a.pwlist) /\ Len(job'.bck) = Len(a.bck)
        /\ Len(a.pwlist) <= Len(job.pwlist) /\ Len(a.bck) = Len(job.bck) - 1
    BY <1>15, <1>16 DEF Mild, SubrestoreAs
  <2>4. Len(job.pwlist) + Number(stack, Forking) <= spawned /\ sh.intrap = Number(stack, InTrap)
    BY DEF TInv, Counts
  <2>5. Len(job'.pwlist) + Number(stack, Forking) <= spawned
    BY <2>2, <2>3, <2>4
  <2>6. Len(job'.bck) = 1 + (Number(stack, InSub) - 1)
    BY <1>13, <1>14, <2>3
  <2>7. QED
    BY <1>2, <1>11, <1>13, <2>4, <2>5, <2>6
<1>19. TInv'
  BY <1>2, <1>9, <1>6, <1>11, <1>16, <1>17, <1>18, OtherStep DEF TInv, Typed
<1>20. QED
  BY <1>2, <1>11, <1>16, <1>17, <1>19

LEMMA SubLeftTypes ==
    ASSUME TInv, SubLeft
    PROVE  TInv' /\ Calm /\ job' = job
<1>1. Top \in Frame /\ Founded(stack) /\ Good(job) /\ job \in Job /\ sh \in Shell
  BY TopIs DEF TInv, Typed
<1>2. /\ Top.fn = "sub" /\ Top.pc = "leave" /\ stack' = Caller
      /\ sh' = [sh_sigreset EXCEPT !.curenv = Top.env, !.jobenv = Top.env,
                                   !.bckpid = Top.bckpid, !.trapcom = Top.trapcom]
      /\ UNCHANGED <<job, kernel, sigchld, child, spawned>>
  BY DEF SubLeft
<1>3. Top.env \in Nat /\ Top.bckpid \in Pid \cup {0} /\ Top.trapcom \in BOOLEAN
  BY <1>1, <1>2, Kinds DEF SubFrame
<1> DEFINE z == sh_sigreset
<1>4. z \in Shell /\ z.intrap = sh.intrap
  BY <1>1, SigresetIs
<1> HIDE DEF z
<1>5. sh' \in Shell /\ sh'.intrap = sh.intrap
  BY <1>2, <1>3, <1>4 DEF Shell, z
<1>6. Level(stack')
  BY <1>1, <1>2, VoidIs, LevelReturn
<1>7. QED
  BY <1>1, <1>2, <1>5, <1>6, MildOnce, CalmStep DEF TInv, Typed

-------------------------------------------------------------------------------
LEMMA InitTypes ==
    ASSUME Init
    PROVE  TInv
<1> DEFINE rec == [s \in Slot |-> [pid |-> 0, exit |-> 0, env |-> 0, flag |-> {}]]
           free == [s \in Slot |-> s]
<1>1. MaxSpawn \in Nat /\ CriticalMod \in Nat \ {0} /\ WaitsafeMod \in Nat \ {0} /\ CHILD_MAX \in Nat
  BY LimitAssumption, JobsBoundAssumption
<1>2. free \in Seq(Slot) /\ Len(free) = MaxSpawn /\ \A i \in Slot : free[i] = i
  BY <1>1 DEF Slot
<1>3. rec \in [Slot -> Process] /\ \A s \in Slot : rec[s] = NoProcess
  BY DEF Process, NoProcess
<1> HIDE DEF rec, free
<1>4. /\ <<>> \in Seq(Slot) /\ Len(<<>>) = 0
      /\ <<<<>>>> \in Seq(Seq(Saved)) /\ Len(<<<<>>>>) = 1 /\ <<<<>>>>[1] = <<>> /\ <<<<>>>> # <<>>
  OBVIOUS
<1>5. /\ job.pwlist = <<>> /\ job.rec = rec /\ job.freelist = free /\ job.bck = <<<<>>>>
      /\ job \in Job
  <2>1. job = [pwlist |-> <<>>, rec |-> rec, freelist |-> free, bck |-> <<<<>>>>,
               in_critical |-> 0, savesig |-> FALSE, waitsafe |-> 0, numbjob |-> 0,
               nochild |-> FALSE, evicted |-> {}]
    BY DEF Init, rec, free
  <2>2. 0 \in 0..CriticalMod - 1 /\ 0 \in 0..WaitsafeMod - 1 /\ 0 \in Int /\ FALSE \in BOOLEAN
        /\ {} \in SUBSET Pid
    BY <1>1
  <2>3. QED
    BY <1>2, <1>3, <1>4, <2>1, <2>2 DEF Job
<1>6. Table(job)
  <2>1. Once(free)
    BY <1>1, <1>2 DEF Once, Slot
  <2>2. Once(job.pwlist) /\ Apart(job.pwlist, free) /\ ~ \E s \in Slot : Contains(job.pwlist, s)
    BY <1>4, <1>5 DEF Once, Apart, Contains
  <2>3. Filled(job.pwlist, rec)
    BY <1>3, <2>2 DEF Filled
  <2>4. Len(job.pwlist) + Len(free) = MaxSpawn
    BY <1>1, <1>2, <1>4, <1>5
  <2>5. QED
    BY <1>5, <2>1, <2>2, <2>3, <2>4 DEF Table
<1>7. Behind(job)
  BY <1>4, <1>5 DEF Behind, Ordered
<1>8. Lists(job)
  <2>1. \A n \in 1..Len(job.bck) : job.bck[n] = <<>>
    BY <1>4, <1>5
  <2>2. 0 <= CHILD_MAX
    BY <1>1
  <2>3. QED
    BY <1>4, <1>5, <2>1, <2>2 DEF Lists
<1>9. stack = <<Main>> /\ spawned = 0 /\ sh.intrap = 0
  BY DEF Init
<1>10. Founded(stack) /\ \A i \in 1..Len(stack) : stack[i] = Main
  <2>1. Main \in Frame /\ Main.fn = "main"
    BY DEF Main, Frame, BaseFrame
  <2>2. QED
    BY <1>9, <2>1 DEF Founded
<1>11. \A T : Main \notin T => Number(stack, T) = 0
  BY <1>10, NoneCount DEF Founded
<1>12. Main \notin Forking /\ Main \notin InSub /\ Main \notin InTrap /\ \A p : Main \notin Pending(p)
  BY DEF Main, Forking, InSub, InTrap, Pending, BaseFrame, SubFrame, ForkFrame
<1>13. sh \in Shell /\ sigchld \in BOOLEAN /\ spawned \in 0..MaxSpawn
  <2>1. FALSE \in BOOLEAN
    OBVIOUS
  <2>2. sigchld \in BOOLEAN
    BY <2>1, Zenon DEF Init
  <2>3. spawned \in 0..MaxSpawn
    BY <1>1, <1>9
  <2>4. \A z \in BOOLEAN :
          [trapcom |-> z, sigflag |-> z, trapnote |-> z, bckpid |-> 0,
           curenv |-> 0, jobenv |-> 0, subenv |-> 0, intrap |-> 0] \in Shell
    BY DEF Shell
  <2>5. sh \in Shell
    BY <2>1, <2>4, Zenon DEF Init
  <2>6. QED
    BY <2>2, <2>3, <2>5
<1>14. kernel \in [Pid -> Kernel]
  BY DEF Init, Kernel
<1>15. child \in [Pid -> Child]
  BY DEF Init, Child
<1>16. Typed
  BY <1>5, <1>6, <1>7, <1>8, <1>10, <1>13, <1>14, <1>15 DEF Typed, Good
<1>17. Counts
  BY <1>4, <1>5, <1>9, <1>11, <1>12 DEF Counts
<1>18. Pends
  BY <1>11, <1>12 DEF Pends
<1>19. QED
  BY <1>16, <1>17, <1>18 DEF TInv

(* Every step keeps the invariant. *)
LEMMA NextTypes ==
    ASSUME TInv, [Next]_vars
    PROVE  TInv'
<1>1. CASE Step
  <2>1. CASE ReapOne \/ ReapNotice \/ ReapEnd \/ UnlockTest \/ UnlockLeave
    BY <2>1, ReapOneTypes, ReapNoticeTypes, ReapEndTypes, UnlockTestTypes, UnlockLeaveTypes
  <2>2. CASE ChldtrapStart \/ ChldtrapScan \/ ChldtrapHandled \/ ChldtrapEnd
    BY <2>2, ChldtrapStartTypes, ChldtrapScanTypes, ChldtrapHandledTypes, ChldtrapEndTypes
  <2>3. CASE Builtin \/ Chktrap \/ HandlerEnd \/ HandlerError \/ TrapChld
    BY <2>3, CommandTypes, HandlerEndTypes
  <2>4. CASE Jobs \/ JobsWalk \/ WaitAll
    BY <2>4, WaitAllTypes, JobsWalkTypes
  <2>5. CASE StartFork \/ JobmaxWait \/ JobmaxWaited \/ Ntfork \/ NtforkError
    BY <2>5, StartForkTypes, ForkWaitTypes
  <2>6. CASE Fork_bg \/ Fork_fg \/ ForkPost \/ ForkEnd \/ ForkDone
    BY <2>6, ForkTypes, ForkPostTypes, ForkEndTypes
  <2>7. CASE WaitForeground \/ (\E p \in Pid : WaitFor(p)) \/ WaitDone \/ WaitReap
    BY <2>7, WaitForegroundTypes, WaitForTypes, WaitDoneTypes, WaitReapTypes
  <2>8. CASE WaitReaped \/ WaitEnd \/ WaitCleanup \/ WaitReturn
    BY <2>8, WaitReapedTypes, WaitCleanupTypes, WaitReturnTypes
  <2>9. CASE EnterSub \/ SubReset \/ LeaveSub \/ SubLeft
    BY <2>9, EnterSubTypes, SubResetTypes, LeaveSubTypes, SubLeftTypes
  <2>10. QED
    BY <1>1, <2>1, <2>2, <2>3, <2>4, <2>5, <2>6, <2>7, <2>8, <2>9 DEF Step
<1>2. CASE SigChld
  BY <1>2, SigChldTypes
<1>3. CASE \E p \in Pid : ChildExit(p)
  BY <1>3, ChildExitTypes
<1>4. CASE UNCHANGED vars
  BY <1>4 DEF vars, TInv, Typed, Counts, Pends, NoBg
<1>5. QED
  BY <1>1, <1>2, <1>3, <1>4 DEF Next

LEMMA TypesHold == Spec => []TInv
<1>1. Init => TInv
  BY InitTypes
<1>2. TInv /\ [Next]_vars => TInv'
  BY NextTypes
<1>3. QED
  BY <1>1, <1>2, PTL DEF Spec

LEMMA TableCount ==
    ASSUME NEW q \in Seq(Slot), Once(q)
    PROVE  Cardinality(Range(q)) = Len(q)
<1>1. Len(q) \in Nat /\ q \in [1..Len(q) -> Slot] /\ DOMAIN q = 1..Len(q)
  OBVIOUS
<1> DEFINE D == 1..Len(q)
           T == {q[i] : i \in D}
<1>2. Range(q) = T
  BY <1>1 DEF Range
<1>3. q \in Bijection(D, T)
  <2>1. q \in [D -> T]
    BY <1>1
  <2>2. \A i, j \in D : q[i] = q[j] => i = j
    BY DEF Once
  <2>3. \A t \in T : \E i \in D : q[i] = t
    OBVIOUS
  <2>4. QED
    BY <2>1, <2>2, <2>3, Zenon DEF Bijection, Injection, IsInjective, Surjection
<1>4. IsFiniteSet(D) /\ Cardinality(D) = Len(q)
  BY <1>1, FS_Interval
<1> HIDE DEF D, T
<1>5. QED
  BY <1>2, <1>3, <1>4, FS_Bijection DEF ExistsBijection

(* Whatever is run, reaped, waited for and trapped, in whatever order, the job
   table stays well formed: a record is in it or free and never twice in it,
   nothing is read through a null pointer, and job.waitsafe keeps its width
   (job_post, job_unpost, job_reap, job_chldtrap, job_subrestore). *)
THEOREM JobTypes == Spec => []TypeOK
<1>1. TInv => TypeOK
  <2> SUFFICES ASSUME TInv PROVE TypeOK
    OBVIOUS
  <2>1. Table(job) /\ job \in Job /\ job.pwlist \in Seq(Slot) /\ job.freelist \in Seq(Slot)
    BY DEF TInv, Typed, Good, Job
  <2>2. Range(job.pwlist) \cap Range(job.freelist) = {}
    <3>1. ASSUME NEW x \in Range(job.pwlist), x \in Range(job.freelist)
          PROVE  FALSE
      <4>1. PICK i \in 1..Len(job.pwlist) : job.pwlist[i] = x
        BY <2>1 DEF Range
      <4>2. PICK k \in 1..Len(job.freelist) : job.freelist[k] = x
        BY <2>1, <3>1 DEF Range
      <4>3. QED
        BY <2>1, <4>1, <4>2 DEF Table, Apart
    <3>2. QED
      BY <3>1
  <2>3. Cardinality(Range(job.pwlist)) = Len(job.pwlist)
    BY <2>1, TableCount DEF Table
  <2>4. QED
    BY <2>1, <2>2, <2>3 DEF TInv, Typed, Founded, TypeOK
<1>2. QED
  BY <1>1, TypesHold, PTL

(* No list of saved statuses, of this shell or of a subshell's parent, grows
   beyond CHILD_MAX entries: jobsave_create and job_subrestore make room. *)
THEOREM SavedListsBounded == Spec => []SavedBounded
<1>1. TInv => SavedBounded
  BY DEF TInv, Typed, Good, Lists, SavedBounded
<1>2. QED
  BY <1>1, TypesHold, PTL

================================================================================
