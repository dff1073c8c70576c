----------------------------- MODULE Timers_proofs -----------------------------
(***************************************************************************)
(* Proofs about Timers: type correctness; that storage is in one place;    *)
(* that handles are their users' own; that the kernel's alarm is caught    *)
(* and set in time.                                                        *)
(***************************************************************************)
EXTENDS Timers, WellFoundedInduction, TLAPS

--------------------------------------------------------------------------------
(* Numbers. *)

(* A set of numbers has a least one. *)
LEMMA Least ==
    ASSUME NEW S \in SUBSET Nat, S # {}
    PROVE  \E n \in S : \A m \in S : n <= m
<1>1. PICK n \in S : \A m \in S : ~ (<<m, n>> \in OpToRel(<, Nat))
  BY NatLessThanWellFounded, WFMin, Zenon
<1>2. \A m, k \in Nat : <<m, k>> \in OpToRel(<, Nat) <=> m < k
  BY DEF OpToRel
<1>3. \A m \in S : ~ (m < n)
  BY <1>1, <1>2
<1>4. QED
  BY <1>3

(* So a set whose members have numbers has one with the least number. *)
LEMMA LeastOf ==
    ASSUME NEW S, S # {}, NEW f, \A x \in S : f[x] \in Nat
    PROVE  \E x \in S : \A y \in S : f[x] <= f[y]
<1> DEFINE T == {f[x] : x \in S}
<1>1. T \in SUBSET Nat /\ T # {}
  OBVIOUS
<1>2. PICK n \in T : \A m \in T : n <= m
  <2> HIDE DEF T
  <2>1. QED
    BY <1>1, Least
<1>3. PICK x \in S : n = f[x]
  BY <1>2
<1>4. QED
  BY <1>2, <1>3

(* A multiple leaves no remainder, *)
LEMMA Multiple ==
    ASSUME NEW d \in Nat \ {0}, NEW k \in Int
    PROVE  (d * k) % d = 0
<1> DEFINE q == (d * k) \div d
           r == (d * k) % d
<1>1. q \in Int /\ r \in 0..d - 1 /\ d * k = d * q + r
  OBVIOUS
<1>2. r = d * (k - q)
  BY <1>1
<1>3. k - q >= 1 => d * (k - q) >= d
  OBVIOUS
<1>4. k - q <= -1 => d * (k - q) <= -d
  OBVIOUS
<1>5. k = q
  BY <1>1, <1>2, <1>3, <1>4
<1>6. QED
  BY <1>1, <1>2, <1>5

(* and one of any d numbers in a row is a multiple of d away from b. *)
LEMMA Residue ==
    ASSUME NEW d \in Nat \ {0}, NEW a \in Nat, NEW b \in Nat
    PROVE  \E w \in a + 1..a + d : (w - b) % d = 0
<1> DEFINE q == (a - b) \div d
           r == (a - b) % d
           w == a + (d - r)
<1>1. q \in Int /\ r \in 0..d - 1 /\ a - b = d * q + r
  OBVIOUS
<1>2. w \in a + 1..a + d
  BY <1>1
<1>3. w - b = d * (q + 1)
  BY <1>1
<1>4. (w - b) % d = 0
  <2>1. q + 1 \in Int
    BY <1>1
  <2>2. (d * (q + 1)) % d = 0
    <3> HIDE DEF q
    <3>1. QED
      BY <2>1, Multiple
  <2>3. QED
    BY <1>3, <2>2, Zenon
<1>5. QED
  BY <1>2, <1>4

--------------------------------------------------------------------------------
(* Sequences. *)

LEMMA Push ==
    ASSUME NEW X, NEW s \in Seq(X), NEW e \in X
    PROVE  LET t == <<e>> \o s
           IN  /\ t \in Seq(X) /\ t # <<>> /\ Len(t) = Len(s) + 1 /\ DOMAIN t = 1..Len(s) + 1
               /\ t[1] = e /\ Head(t) = e /\ t[Len(t)] = IF s = <<>> THEN e ELSE s[Len(s)]
               /\ \A i \in 1..Len(s) : t[i + 1] = s[i]
               /\ \A i \in DOMAIN t : i # 1 => i - 1 \in DOMAIN s /\ t[i] = s[i - 1]
  OBVIOUS

LEMMA Pop ==
    ASSUME NEW X, NEW s \in Seq(X), s # <<>>
    PROVE  /\ Head(s) = s[1] /\ s[1] \in X /\ Len(s) \in Nat \ {0} /\ DOMAIN s = 1..Len(s)
           /\ Tail(s) \in Seq(X) /\ Len(Tail(s)) = Len(s) - 1 /\ DOMAIN Tail(s) = 1..Len(s) - 1
           /\ \A i \in 1..Len(s) - 1 : Tail(s)[i] = s[i + 1]
  OBVIOUS

LEMMA Sub ==
    ASSUME NEW X, NEW s \in Seq(X), NEW k \in 1..Len(s) + 1
    PROVE  LET t == SubSeq(s, k, Len(s))
           IN  /\ t \in Seq(X) /\ Len(t) = Len(s) - k + 1 /\ DOMAIN t = 1..Len(s) - k + 1
               /\ \A i \in DOMAIN t : i + k - 1 \in DOMAIN s /\ t[i] = s[i + k - 1]
  OBVIOUS

LEMMA Joined ==
    ASSUME NEW X, NEW s \in Seq(X), NEW t \in Seq(X)
    PROVE  /\ s \o t \in Seq(X) /\ ToSet(s \o t) = ToSet(s) \cup ToSet(t)
           /\ IsInjective(s \o t) <=> IsInjective(s) /\ IsInjective(t) /\ ToSet(s) \cap ToSet(t) = {}
<1> DEFINE u == s \o t
<1>1. /\ u \in Seq(X) /\ DOMAIN u = 1..Len(s) + Len(t) /\ Len(s) \in Nat /\ Len(t) \in Nat
      /\ DOMAIN s = 1..Len(s) /\ DOMAIN t = 1..Len(t)
      /\ \A i \in DOMAIN s : i \in DOMAIN u /\ u[i] = s[i]
      /\ \A i \in DOMAIN t : i + Len(s) \in DOMAIN u /\ u[i + Len(s)] = t[i]
      /\ \A i \in DOMAIN u : \/ i \in DOMAIN s /\ u[i] = s[i]
                             \/ i - Len(s) \in DOMAIN t /\ u[i] = t[i - Len(s)]
  OBVIOUS
<1> HIDE DEF u
<1>2. ToSet(u) = ToSet(s) \cup ToSet(t)
  <2>1. \A x : x \in ToSet(u) => x \in ToSet(s) \cup ToSet(t)
    BY <1>1 DEF ToSet
  <2>2. \A x : x \in ToSet(s) => x \in ToSet(u)
    BY <1>1 DEF ToSet
  <2>3. \A x : x \in ToSet(t) => x \in ToSet(u)
    BY <1>1 DEF ToSet
  <2>4. QED
    BY <2>1, <2>2, <2>3, Zenon
<1>3. ASSUME IsInjective(u)
      PROVE  IsInjective(s) /\ IsInjective(t) /\ ToSet(s) \cap ToSet(t) = {}
  <2>1. \A i, j \in DOMAIN u : u[i] = u[j] => i = j
    BY <1>3 DEF IsInjective
  <2>2. IsInjective(s)
    BY <1>1, <2>1 DEF IsInjective
  <2>3. ASSUME NEW i \in DOMAIN t, NEW j \in DOMAIN t, t[i] = t[j]
        PROVE  i = j
    <3>1. i + Len(s) = j + Len(s)
      BY <1>1, <2>1, <2>3
    <3>2. QED
      BY <1>1, <3>1
  <2>4. ASSUME NEW i \in DOMAIN s, NEW j \in DOMAIN t, s[i] = t[j]
        PROVE  FALSE
    <3>1. i = j + Len(s)
      BY <1>1, <2>1, <2>4
    <3>2. QED
      BY <1>1, <3>1
  <2>5. ToSet(s) \cap ToSet(t) = {}
    BY <2>4 DEF ToSet
  <2>6. QED
    BY <2>2, <2>3, <2>5 DEF IsInjective
<1>4. ASSUME IsInjective(s), IsInjective(t), ToSet(s) \cap ToSet(t) = {}
      PROVE  IsInjective(u)
  <2>1. SUFFICES ASSUME NEW i \in DOMAIN u, NEW j \in DOMAIN u, u[i] = u[j]
                 PROVE  i = j
    BY Zenon DEF IsInjective
  <2>2. \A k \in DOMAIN s, l \in DOMAIN t : s[k] # t[l]
    BY <1>4 DEF ToSet
  <2>3. (\A k, l \in DOMAIN s : s[k] = s[l] => k = l) /\ (\A k, l \in DOMAIN t : t[k] = t[l] => k = l)
    BY <1>4, Zenon DEF IsInjective
  <2>4. CASE i \in DOMAIN s /\ u[i] = s[i] /\ j \in DOMAIN s /\ u[j] = s[j]
    BY <2>1, <2>3, <2>4
  <2>5. CASE /\ i - Len(s) \in DOMAIN t /\ u[i] = t[i - Len(s)]
             /\ j - Len(s) \in DOMAIN t /\ u[j] = t[j - Len(s)]
    <3>1. i - Len(s) = j - Len(s)
      BY <2>1, <2>3, <2>5
    <3>2. QED
      BY <1>1, <3>1
  <2>6. ~ (i \in DOMAIN s /\ u[i] = s[i] /\ j - Len(s) \in DOMAIN t /\ u[j] = t[j - Len(s)])
    BY <2>1, <2>2
  <2>7. ~ (j \in DOMAIN s /\ u[j] = s[j] /\ i - Len(s) \in DOMAIN t /\ u[i] = t[i - Len(s)])
    BY <2>1, <2>2
  <2>8. QED
    BY <1>1, <2>4, <2>5, <2>6, <2>7, Zenon
<1>5. QED
  BY <1>1, <1>2, <1>3, <1>4 DEF u

LEMMA Fronted ==
    ASSUME NEW X, NEW s \in Seq(X), NEW e \in X
    PROVE  ToSet(<<e>> \o s) = {e} \cup ToSet(s)
<1>1. <<e>> \in Seq(X) /\ DOMAIN <<e>> = {1} /\ <<e>>[1] = e
  OBVIOUS
<1>2. ToSet(<<e>>) = {e}
  BY <1>1 DEF ToSet
<1>3. QED
  BY <1>1, <1>2, Joined

LEMMA Reversed ==
    ASSUME NEW X, NEW s \in Seq(X)
    PROVE  /\ Reverse(s) \in Seq(X) /\ ToSet(Reverse(s)) = ToSet(s)
           /\ IsInjective(s) => IsInjective(Reverse(s))
<1> DEFINE t == Reverse(s)
<1>1. /\ t \in Seq(X) /\ Len(s) \in Nat /\ DOMAIN s = 1..Len(s) /\ DOMAIN t = 1..Len(s)
      /\ \A i \in 1..Len(s) : Len(s) - i + 1 \in 1..Len(s) /\ t[i] = s[Len(s) - i + 1]
  BY DEF Reverse
<1> HIDE DEF t
<1>2. \A i \in 1..Len(s) : s[i] = t[Len(s) - i + 1]
  BY <1>1
<1>3. ToSet(t) = ToSet(s)
  <2>1. \A x : x \in ToSet(t) => x \in ToSet(s)
    BY <1>1 DEF ToSet
  <2>2. \A x : x \in ToSet(s) => x \in ToSet(t)
    BY <1>1, <1>2 DEF ToSet
  <2>3. QED
    BY <2>1, <2>2, Zenon
<1>4. ASSUME IsInjective(s), NEW i \in DOMAIN t, NEW j \in DOMAIN t, t[i] = t[j]
      PROVE  i = j
  <2>1. Len(s) - i + 1 = Len(s) - j + 1
    BY <1>1, <1>4 DEF IsInjective
  <2>2. QED
    BY <1>1, <2>1
<1>5. IsInjective(s) => IsInjective(t)
  BY <1>4, Zenon DEF IsInjective
<1>6. QED
  BY <1>1, <1>3, <1>5 DEF t

(* What Those leaves: its definition is a function, whose values are those of the
   prefixes of the sequence. *)
Those1(s, S, f, i) ==
    IF i = 0 THEN <<>> ELSE IF s[i] \in S THEN Append(f[i - 1], s[i]) ELSE f[i - 1]

LEMMA ThoseExists ==
    ASSUME NEW S, NEW s, NEW n \in Nat
    PROVE  \E f : f = [i \in 0..n |-> Those1(s, S, f, i)]
<1> DEFINE Has(k) == \E f : f = [i \in 0..k |-> Those1(s, S, f, i)]
           Bad == {k \in Nat : ~ Has(k)}
<1>1. SUFFICES ASSUME ~ Has(n)
               PROVE  FALSE
  OBVIOUS
<1>2. Bad \in SUBSET Nat /\ Bad # {}
  BY <1>1
<1>3. PICK k \in Bad : \A m \in Bad : k <= m
  <2> HIDE DEF Bad
  <2>1. QED
    BY <1>2, Least
<1>4. k # 0
  <2>1. [i \in 0..0 |-> <<>>] = [i \in 0..0 |-> Those1(s, S, [j \in 0..0 |-> <<>>], i)]
    BY DEF Those1
  <2>2. QED
    BY <2>1
<1>5. Has(k - 1)
  <2>1. k - 1 \in Nat /\ k - 1 \notin Bad
    BY <1>3, <1>4
  <2>2. QED
    BY <2>1
<1>6. PICK f : f = [i \in 0..k - 1 |-> Those1(s, S, f, i)]
  BY <1>5
<1> DEFINE v == IF s[k] \in S THEN Append(f[k - 1], s[k]) ELSE f[k - 1]
           g == [i \in 0..k |-> IF i = k THEN v ELSE f[i]]
<1>7. g = [i \in 0..k |-> Those1(s, S, g, i)]
  <2>1. ASSUME NEW i \in 0..k
        PROVE  g[i] = Those1(s, S, g, i)
    <3>1. CASE i = k
      <4>1. g[k - 1] = f[k - 1] /\ g[k] = v
        BY <1>4
      <4> HIDE DEF g
      <4>2. QED
        BY <3>1, <4>1, <1>4 DEF Those1
    <3>2. CASE i < k
      <4>1. g[i] = f[i] /\ f[i] = Those1(s, S, f, i) /\ (i # 0 => g[i - 1] = f[i - 1])
        BY <1>6, <3>2
      <4> HIDE DEF g
      <4>2. QED
        BY <4>1 DEF Those1
    <3>3. QED
      BY <3>1, <3>2
  <2>2. QED
    BY <2>1
<1>8. QED
  BY <1>3, <1>7

LEMMA Selected ==
    ASSUME NEW X, NEW S, NEW s \in Seq(X)
    PROVE  LET t == Those(s, S)
           IN  /\ t \in Seq(X) /\ ToSet(t) = ToSet(s) \cap S
               /\ IsInjective(s) => IsInjective(t)
<1> DEFINE n == Len(s)
           f == CHOOSE f : f = [i \in 0..n |-> Those1(s, S, f, i)]
           Before(i) == {s[j] : j \in 1..i}
           Has(i) == /\ f[i] \in Seq(X) /\ ToSet(f[i]) = Before(i) \cap S
                     /\ IsInjective(s) => IsInjective(f[i])
           Bad == {i \in 0..n : ~ Has(i)}
<1>1. n \in Nat /\ DOMAIN s = 1..n
  OBVIOUS
<1>2. f = [i \in 0..n |-> Those1(s, S, f, i)]
  BY <1>1, ThoseExists
<1>3. Those(s, S) = f[n]
  BY DEF Those, Those1
<1>4. /\ f[0] = <<>>
      /\ \A i \in 1..n : f[i] = IF s[i] \in S THEN Append(f[i - 1], s[i]) ELSE f[i - 1]
  <2> HIDE DEF f
  <2>1. \A i \in 0..n : f[i] = Those1(s, S, f, i)
    BY <1>2
  <2>2. QED
    BY <1>1, <2>1 DEF Those1
<1> HIDE DEF f
<1>5. Has(0)
  BY <1>4 DEF ToSet, IsInjective
<1>6. ASSUME NEW i \in 1..n, Has(i - 1)
      PROVE  Has(i)
  <2> DEFINE u == f[i - 1]
  <2>1. s[i] \in X /\ u \in Seq(X) /\ Before(i) = Before(i - 1) \cup {s[i]}
    BY <1>6
  <2>2. CASE s[i] \notin S
    <3>1. f[i] = u
      BY <1>4, <2>2
    <3>2. QED
      BY <1>6, <2>1, <2>2, <3>1
  <2>3. CASE s[i] \in S
    <3> DEFINE t == <<s[i]>>
    <3>1. f[i] = u \o t
      <4>1. f[i] = Append(u, s[i])
        BY <1>4, <2>3
      <4> HIDE DEF u
      <4>2. QED
        BY <2>1, <4>1
    <3>2. t \in Seq(X) /\ ToSet(t) = {s[i]} /\ IsInjective(t)
      BY <2>1 DEF ToSet, IsInjective
    <3>3. IsInjective(s) => s[i] \notin Before(i - 1)
      BY <1>1 DEF IsInjective
    <3> HIDE DEF u, t
    <3>4. /\ u \o t \in Seq(X) /\ ToSet(u \o t) = ToSet(u) \cup ToSet(t)
          /\ IsInjective(u) /\ IsInjective(t) /\ ToSet(u) \cap ToSet(t) = {} => IsInjective(u \o t)
      BY <2>1, <3>2, Joined
    <3>5. ToSet(u) = Before(i - 1) \cap S /\ (IsInjective(s) => IsInjective(u))
      BY <1>6 DEF u
    <3> HIDE DEF Before
    <3>6. ToSet(f[i]) = Before(i) \cap S
      BY <2>1, <2>3, <3>1, <3>2, <3>4, <3>5
    <3>7. IsInjective(s) => IsInjective(f[i])
      BY <3>1, <3>2, <3>3, <3>4, <3>5
    <3>8. QED
      BY <3>1, <3>4, <3>6, <3>7
  <2>4. QED
    BY <2>2, <2>3
<1>7. Bad = {}
  <2>1. SUFFICES ASSUME Bad # {}
                 PROVE  FALSE
    OBVIOUS
  <2>2. Bad \in SUBSET Nat
    BY <1>1
  <2>3. PICK i \in Bad : \A j \in Bad : i <= j
    <3> HIDE DEF Bad
    <3>1. QED
      BY <2>1, <2>2, Least
  <2>4. i \in 1..n /\ i - 1 \in 0..n /\ i - 1 \notin Bad
    <3> HIDE DEF Has
    <3>1. QED
      BY <1>1, <1>5, <2>3
  <2>5. Has(i - 1)
    <3> HIDE DEF Has
    <3>1. QED
      BY <2>4
  <2>6. QED
    <3>1. Has(i)
      BY <1>6, <2>4, <2>5
    <3> HIDE DEF Has
    <3>2. QED
      BY <2>3, <3>1
<1>8. Has(n)
  <2> HIDE DEF Has
  <2>1. QED
    BY <1>1, <1>7
<1>9. Before(n) = ToSet(s)
  BY <1>1 DEF ToSet
<1>10. QED
  <2> HIDE DEF Before
  <2>1. QED
    BY <1>3, <1>8, <1>9

--------------------------------------------------------------------------------
(* The stack. *)

MainFrame == [fn : {"main"}, pc : {"idle", "wait", "dead"}]
AddFrame == [fn : {"add"}, pc : {"take", "fill", "linked", "call", "called", "return"},
             handle : Client, delay : Delay, repeat : BOOLEAN, tp : Node \cup {Nil}]
HandlerFrame == [fn : {"sigalrm"}, pc : {"scan", "run", "end"}, tp : Node \cup {Nil}]
ActionFrame == [fn : {"action"}, action : Id, handle : Client]

LEMMA Kinds ==
    /\ Frame = MainFrame \cup AddFrame \cup HandlerFrame \cup ActionFrame
    /\ \A f \in Frame : /\ f.fn = "main" => f \in MainFrame
                        /\ f.fn = "add" => f \in AddFrame
                        /\ f.fn = "sigalrm" => f \in HandlerFrame
                        /\ f.fn = "action" => f \in ActionFrame
                        /\ f.fn \in {"main", "add", "sigalrm", "action"}
<1>1. Frame = MainFrame \cup AddFrame \cup HandlerFrame \cup ActionFrame
  BY Zenon DEF Frame, MainFrame, AddFrame, HandlerFrame, ActionFrame
<1>2. /\ \A f \in MainFrame : f.fn = "main"
      /\ \A f \in AddFrame : f.fn = "add"
      /\ \A f \in HandlerFrame : f.fn = "sigalrm"
      /\ \A f \in ActionFrame : f.fn = "action"
  BY DEF MainFrame, AddFrame, HandlerFrame, ActionFrame
<1>3. QED
  BY <1>1, <1>2

(* What is above a frame: an addition is made by the program or by a function, sigalrm
   does not interrupt itself, nor an addition that is linking its timer, and calls
   an action in the middle of its loop. *)
Above(f, g) ==
    /\ g.fn = "add" => f.fn = "sigalrm" /\ g.pc # "linked"
    /\ f.fn = "add" => g.fn \in {"main", "action"}
    /\ f.fn = "sigalrm" => g.fn # "sigalrm"
    /\ f.fn = "action" => g.fn = "sigalrm" /\ g.pc = "scan"

Has(s, fn) == \E f \in ToSet(s) : f.fn = fn

(* The program is at the bottom, and no more than one timer is added at a time. *)
GoodFrame(f) == f.fn = "add" /\ f.pc # "take" => f.tp \in Node
GoodStack(s) ==
    /\ s \in Seq(Frame) /\ s # <<>>
    /\ \A i \in DOMAIN s : s[i].fn = "main" <=> i = Len(s)
    /\ \A i, j \in DOMAIN s : s[i].fn = "add" /\ s[j].fn = "add" => i = j
    /\ \A i \in DOMAIN s : GoodFrame(s[i])
    /\ \A i \in 1..Len(s) - 1 : Above(s[i], s[i + 1])

LEMMA GoodPush ==
    ASSUME NEW s, GoodStack(s), NEW f \in Frame, f.fn # "main", GoodFrame(f),
           Above(f, s[1]), f.fn = "add" => ~ Has(s, "add")
    PROVE  LET t == <<f>> \o s
           IN  /\ GoodStack(t) /\ t[1] = f /\ Tail(t) = s /\ Len(t) = Len(s) + 1
               /\ ToSet(t) = {f} \cup ToSet(s)
<1> DEFINE t == <<f>> \o s
<1>1. /\ s \in Seq(Frame) /\ s # <<>> /\ Len(s) \in Nat \ {0} /\ DOMAIN s = 1..Len(s)
      /\ t \in Seq(Frame) /\ t # <<>> /\ Len(t) = Len(s) + 1 /\ DOMAIN t = 1..Len(s) + 1 /\ t[1] = f
      /\ \A i \in 1..Len(s) : t[i + 1] = s[i]
      /\ \A i \in DOMAIN t : i # 1 => i - 1 \in DOMAIN s /\ t[i] = s[i - 1]
  BY Push DEF GoodStack
<1> HIDE DEF t
<1>2. \A i \in DOMAIN t : t[i].fn = "main" <=> i = Len(t)
  BY <1>1 DEF GoodStack
<1>3. \A i, j \in DOMAIN t : t[i].fn = "add" /\ t[j].fn = "add" => i = j
  <2>1. SUFFICES ASSUME NEW i \in DOMAIN t, NEW j \in DOMAIN t, t[i].fn = "add", t[j].fn = "add"
                 PROVE  i = j
    OBVIOUS
  <2>2. CASE i # 1 /\ j # 1
    <3>1. i - 1 = j - 1
      BY <1>1, <2>1, <2>2 DEF GoodStack
    <3>2. QED
      BY <1>1, <3>1
  <2>3. CASE i = 1 \/ j = 1
    BY <1>1, <2>1, <2>3 DEF Has, ToSet
  <2>4. QED
    BY <2>2, <2>3
<1>4. \A i \in DOMAIN t : GoodFrame(t[i])
  BY <1>1 DEF GoodStack
<1>5. \A i \in 1..Len(t) - 1 : Above(t[i], t[i + 1])
  <2>1. SUFFICES ASSUME NEW i \in 1..Len(s)
                 PROVE  Above(t[i], t[i + 1])
    BY <1>1
  <2>2. CASE i = 1
    BY <1>1, <2>2
  <2>3. CASE i # 1
    <3>1. i - 1 \in 1..Len(s) - 1 /\ t[i] = s[i - 1] /\ t[i + 1] = s[(i - 1) + 1]
      BY <1>1, <2>3
    <3>2. QED
      BY <3>1 DEF GoodStack
  <2>4. QED
    BY <2>2, <2>3
<1>6. ToSet(t) = {f} \cup ToSet(s)
  BY <1>1, Fronted DEF t
<1>7. Tail(t) = s
  BY <1>1 DEF t
<1>8. QED
  BY <1>1, <1>2, <1>3, <1>4, <1>5, <1>6, <1>7 DEF GoodStack, t

LEMMA GoodSub ==
    ASSUME NEW s, GoodStack(s), NEW k \in 1..Len(s)
    PROVE  LET t == SubSeq(s, k, Len(s))
           IN  /\ GoodStack(t) /\ t[1] = s[k] /\ Len(t) = Len(s) - k + 1
               /\ ToSet(t) = {s[i] : i \in k..Len(s)}
<1> DEFINE t == SubSeq(s, k, Len(s))
<1>1. s \in Seq(Frame) /\ s # <<>> /\ Len(s) \in Nat \ {0} /\ DOMAIN s = 1..Len(s)
  BY DEF GoodStack
<1>2. /\ t \in Seq(Frame) /\ Len(t) = Len(s) - k + 1 /\ DOMAIN t = 1..Len(s) - k + 1
      /\ \A i \in DOMAIN t : i + k - 1 \in DOMAIN s /\ t[i] = s[i + k - 1]
  BY <1>1, Sub
<1> HIDE DEF t
<1>3. t # <<>> /\ \A i \in DOMAIN t : t[i].fn = "main" <=> i = Len(t)
  BY <1>1, <1>2 DEF GoodStack
<1>4. ASSUME NEW i \in DOMAIN t, NEW j \in DOMAIN t, t[i].fn = "add", t[j].fn = "add"
      PROVE  i = j
  <2>1. i + k - 1 = j + k - 1
    BY <1>2, <1>4 DEF GoodStack
  <2>2. QED
    BY <1>2, <2>1
<1>5. \A i \in DOMAIN t : GoodFrame(t[i])
  BY <1>2 DEF GoodStack
<1>6. ASSUME NEW i \in 1..Len(t) - 1
      PROVE  Above(t[i], t[i + 1])
  <2>1. /\ i + k - 1 \in 1..Len(s) - 1 /\ t[i] = s[i + k - 1] /\ t[i + 1] = s[(i + k - 1) + 1]
    BY <1>1, <1>2
  <2>2. QED
    BY <2>1 DEF GoodStack
<1>7. ToSet(t) = {s[i] : i \in k..Len(s)}
  <2>1. \A x \in ToSet(t) : x \in {s[i] : i \in k..Len(s)}
    BY <1>1, <1>2 DEF ToSet
  <2>2. ASSUME NEW i \in k..Len(s)
        PROVE  s[i] \in ToSet(t)
    <3>1. i - k + 1 \in DOMAIN t /\ t[i - k + 1] = s[i]
      BY <1>1, <1>2
    <3>2. QED
      BY <3>1 DEF ToSet
  <2>3. QED
    BY <2>1, <2>2
<1>8. t[1] = s[k]
  <2>1. 1 \in DOMAIN t /\ 1 + k - 1 = k
    BY <1>1, <1>2
  <2>2. QED
    BY <1>2, <2>1
<1>9. GoodStack(t)
  BY <1>2, <1>3, <1>4, <1>5, <1>6 DEF GoodStack
<1>10. QED
  BY <1>2, <1>7, <1>8, <1>9 DEF t

(* The top of the stack, what is left without it, and a stack with another top. *)
LEMMA GoodTop ==
    ASSUME NEW s, GoodStack(s)
    PROVE  /\ s \in Seq(Frame) /\ s # <<>> /\ Head(s) = s[1] /\ s[1] \in Frame /\ GoodFrame(s[1])
           /\ Len(s) \in Nat \ {0} /\ DOMAIN s = 1..Len(s) /\ (s[1].fn = "main" <=> Len(s) = 1)
           /\ Tail(s) \in Seq(Frame) /\ Len(Tail(s)) = Len(s) - 1 /\ DOMAIN Tail(s) = 1..Len(s) - 1
           /\ \A i \in 1..Len(s) - 1 : Tail(s)[i] = s[i + 1]
<1>1. s \in Seq(Frame) /\ s # <<>>
  BY DEF GoodStack
<1>2. /\ Head(s) = s[1] /\ s[1] \in Frame /\ Len(s) \in Nat \ {0} /\ DOMAIN s = 1..Len(s)
      /\ Tail(s) \in Seq(Frame) /\ Len(Tail(s)) = Len(s) - 1 /\ DOMAIN Tail(s) = 1..Len(s) - 1
      /\ \A i \in 1..Len(s) - 1 : Tail(s)[i] = s[i + 1]
  BY <1>1, Pop
<1>3. 1 \in DOMAIN s
  BY <1>2
<1>4. GoodFrame(s[1]) /\ (s[1].fn = "main" <=> Len(s) = 1)
  BY <1>3 DEF GoodStack
<1>5. QED
  BY <1>1, <1>2, <1>4

LEMMA GoodPop ==
    ASSUME NEW s, GoodStack(s)
    PROVE  /\ ToSet(s) \subseteq Frame /\ ToSet(s) = {s[1]} \cup ToSet(Tail(s))
           /\ s[1].fn = "add" => \A f \in ToSet(Tail(s)) : f.fn # "add"
           /\ s[1].fn = "main" => s = <<s[1]>> /\ Tail(s) = <<>> /\ ToSet(Tail(s)) = {}
           /\ s[1].fn # "main" => GoodStack(Tail(s)) /\ Tail(s)[1] = s[2] /\ Above(s[1], s[2])
<1>1. /\ s \in Seq(Frame) /\ s # <<>> /\ Len(s) \in Nat \ {0} /\ DOMAIN s = 1..Len(s)
      /\ (s[1].fn = "main" <=> Len(s) = 1)
      /\ Tail(s) \in Seq(Frame) /\ Len(Tail(s)) = Len(s) - 1 /\ DOMAIN Tail(s) = 1..Len(s) - 1
      /\ \A i \in 1..Len(s) - 1 : Tail(s)[i] = s[i + 1]
  BY GoodTop
<1>2. ToSet(s) \subseteq Frame
  BY <1>1 DEF ToSet
<1>3. s = <<s[1]>> \o Tail(s)
  BY <1>1
<1>4. ToSet(s) = {s[1]} \cup ToSet(Tail(s))
  <2>1. ToSet(<<s[1]>> \o Tail(s)) = {s[1]} \cup ToSet(Tail(s))
    <3>1. s[1] \in Frame
      BY GoodTop
    <3>2. QED
      BY <1>1, <3>1, Fronted
  <2>2. QED
    BY <1>3, <2>1, Zenon
<1>5. ASSUME s[1].fn = "add", NEW i \in DOMAIN Tail(s)
      PROVE  Tail(s)[i].fn # "add"
  <2>1. 1 \in DOMAIN s /\ i + 1 \in DOMAIN s /\ i + 1 # 1 /\ Tail(s)[i] = s[i + 1]
    BY <1>1
  <2>2. QED
    BY <1>5, <2>1 DEF GoodStack
<1>6. s[1].fn = "add" => \A f \in ToSet(Tail(s)) : f.fn # "add"
  BY <1>5 DEF ToSet
<1>7. ASSUME s[1].fn = "main"
      PROVE  s = <<s[1]>> /\ Tail(s) = <<>> /\ ToSet(Tail(s)) = {}
  <2>1. Tail(s) = <<>> /\ s = <<s[1]>>
    BY <1>1, <1>7
  <2>2. QED
    BY <2>1 DEF ToSet
<1>8. ASSUME s[1].fn # "main"
      PROVE  GoodStack(Tail(s)) /\ Tail(s)[1] = s[2] /\ Above(s[1], s[2])
  <2>1. Len(s) > 1
    BY <1>1, <1>8
  <2>2. GoodStack(SubSeq(s, 2, Len(s)))
    BY <1>1, <2>1, GoodSub
  <2>3. SubSeq(s, 2, Len(s)) = Tail(s) /\ Tail(s)[1] = s[2]
    BY <1>1, <2>1
  <2>4. Above(s[1], s[2])
    BY <1>1, <2>1 DEF GoodStack
  <2>5. QED
    BY <2>2, <2>3, <2>4
<1>9. QED
  BY <1>2, <1>4, <1>6, <1>7, <1>8

LEMMA GoodReplace ==
    ASSUME NEW s, GoodStack(s), NEW f \in Frame, f.fn = s[1].fn, GoodFrame(f)
    PROVE  LET t == <<f>> \o Tail(s)
           IN  /\ GoodStack(t) /\ t[1] = f /\ Tail(t) = Tail(s) /\ Len(t) = Len(s)
               /\ ToSet(t) = {f} \cup ToSet(Tail(s))
<1> DEFINE t == <<f>> \o Tail(s)
<1>1. /\ s \in Seq(Frame) /\ s # <<>> /\ Len(s) \in Nat \ {0} /\ DOMAIN s = 1..Len(s)
      /\ Tail(s) \in Seq(Frame) /\ Len(Tail(s)) = Len(s) - 1 /\ DOMAIN Tail(s) = 1..Len(s) - 1
      /\ \A i \in 1..Len(s) - 1 : Tail(s)[i] = s[i + 1]
  BY GoodTop
<1>2. /\ t \in Seq(Frame) /\ t # <<>> /\ Len(t) = Len(s) /\ DOMAIN t = DOMAIN s /\ t[1] = f
      /\ \A i \in DOMAIN t : i # 1 => t[i] = Tail(s)[i - 1]
  <2>1. /\ t \in Seq(Frame) /\ t # <<>> /\ Len(t) = Len(Tail(s)) + 1
        /\ DOMAIN t = 1..Len(Tail(s)) + 1 /\ t[1] = f
        /\ \A i \in DOMAIN t : i # 1 => t[i] = Tail(s)[i - 1]
    BY <1>1, Push
  <2> HIDE DEF t
  <2>2. QED
    BY <1>1, <2>1
<1>3. Tail(t) = Tail(s)
  BY <1>1
<1> HIDE DEF t
<1>4. \A i \in DOMAIN t : i # 1 => t[i] = s[i]
  BY <1>1, <1>2
<1>5. \A i \in DOMAIN t : t[i].fn = s[i].fn
  BY <1>4, <1>2
<1>6. \A i \in DOMAIN t : GoodFrame(t[i])
  BY <1>2, <1>4 DEF GoodStack
<1>7. \A i \in 1..Len(t) - 1 : Above(t[i], t[i + 1])
  <2>1. SUFFICES ASSUME NEW i \in 1..Len(s) - 1
                 PROVE  Above(t[i], t[i + 1])
    BY <1>2
  <2>2. i \in DOMAIN t /\ i + 1 \in DOMAIN t /\ i + 1 # 1
    BY <1>1, <1>2
  <2>3. t[i].fn = s[i].fn /\ t[i + 1] = s[i + 1] /\ Above(s[i], s[i + 1])
    BY <1>4, <1>5, <2>1, <2>2 DEF GoodStack
  <2>4. QED
    BY <2>3 DEF Above
<1>8. GoodStack(t)
  <2>1. \A i \in DOMAIN t : t[i].fn = "main" <=> i = Len(t)
    BY <1>2, <1>5 DEF GoodStack
  <2>2. \A i, j \in DOMAIN t : t[i].fn = "add" /\ t[j].fn = "add" => i = j
    BY <1>2, <1>5 DEF GoodStack
  <2>3. QED
    BY <1>2, <1>6, <1>7, <2>1, <2>2 DEF GoodStack
<1>9. ToSet(t) = {f} \cup ToSet(Tail(s))
  BY <1>1, Fronted DEF t
<1>10. QED
  BY <1>2, <1>3, <1>8, <1>9 DEF t

(* The program alone. *)
LEMMA GoodMain ==
    ASSUME NEW f \in MainFrame
    PROVE  GoodStack(<<f>>) /\ <<f>>[1] = f /\ ToSet(<<f>>) = {f} /\ Len(<<f>>) = 1
<1>1. f \in Frame /\ f.fn = "main"
  BY Kinds DEF MainFrame
<1>2. <<f>> \in Seq(Frame) /\ <<f>> # <<>> /\ Len(<<f>>) = 1 /\ DOMAIN <<f>> = {1} /\ <<f>>[1] = f
  BY <1>1
<1>3. QED
  BY <1>1, <1>2 DEF GoodStack, GoodFrame, Above, ToSet

--------------------------------------------------------------------------------
(* Type correctness. *)

(* The flags say what is on top of the stack: sigalrm runs, or a timer is being linked,
   or sigalrm is about to be called. *)
FlagsOf(f) ==
    IF f.fn = "sigalrm" THEN {{"IN_SIGALRM"}}
    ELSE IF f.fn = "add" /\ f.pc = "linked"
         THEN {{"IN_ADDTIMEOUT"}, {"IN_ADDTIMEOUT", "DEFER_SIGALRM"}}
    ELSE IF f.fn = "add" /\ f.pc = "call" THEN {{}, {"SIGALRM_CALL"}}
    ELSE {{}}
Flags == ~ (Top.fn = "main" /\ Top.pc = "dead") => time_state \in FlagsOf(Top)

(* There is room for the timer that is being added, and the one that sigalrm is about
   to run is linked and not deleted. *)
Room == \A f \in ToSet(stack) : f.fn = "add" /\ f.pc \in {"take", "fill"} => added < MaxAdd
NextRuns == Top.fn = "sigalrm" /\ Top.pc = "run" => Top.tp \in Live

Typed == TypeOK /\ GoodStack(stack) /\ Flags /\ Room /\ NextRuns

LEMMA Numbers ==
    /\ Delay \subseteq Nat /\ 0 \notin Delay /\ MaxAdd \in Nat /\ MaxTime \in Nat
    /\ Nil = 0 /\ Nil \notin Node
  BY DelayAssumption, TimerBoundAssumption, NilAssumption DEF Nil

LEMMA TimerType ==
    ASSUME TypeOK, NEW n \in Node
    PROVE  /\ timer[n].wakeup \in Nat /\ timer[n].incr \in Nat /\ timer[n].incr \in Delay \cup {0}
           /\ timer[n].action \in Id \cup {0} /\ timer[n].handle \in Client
<1>1. timer[n] \in Timer
  BY DEF TypeOK
<1>2. Delay \cup {0} \subseteq Nat
  BY Numbers
<1>3. QED
  BY <1>1, <1>2 DEF Timer

(* Linked timers are storage. *)
LEMMA LinkedType ==
    ASSUME TypeOK
    PROVE  Linked \subseteq Node /\ Live \subseteq Linked /\ Expired \subseteq Live /\ DOMAIN list \subseteq Nat
  BY DEF TypeOK, Linked, Live, Expired, ToSet

(* What a round of sigalrm does: tp is the timer that will run, min the one that is
   next. *)
Repeats(tp) == tp # Nil /\ timer[tp].incr # 0
Later(tp) == (Live \ Expired) \cup (IF Repeats(tp) THEN {tp} ELSE {})
Round(tp, min) ==
    /\ Running("sigalrm") /\ Top.pc = "scan"
    /\ tp \in Node \cup {Nil} /\ min \in Node \cup {Nil}
    /\ tp = Nil => Expired = {}
    /\ tp # Nil => tp \in Expired
    /\ timer' \in [Node -> Timer]
    /\ \A n \in Live : /\ timer'[n].action = timer[n].action /\ timer'[n].incr = timer[n].incr
                       /\ timer'[n].handle = timer[n].handle
                       /\ IF Repeats(tp) /\ n = tp THEN timer'[n].wakeup > now
                                                 ELSE timer'[n].wakeup = timer[n].wakeup
    /\ list' \in Seq(Node) /\ free' \in Seq(Node)
    /\ Linked' = Live /\ Live' = Live
    /\ tpmin' = min
    /\ min = Nil => Later(tp) = {}
    /\ min # Nil => /\ min \in Later(tp)
                    /\ \A n \in Later(tp) : timer'[min].wakeup <= timer'[n].wakeup
    /\ IF min # Nil /\ (left = 0 \/ (tp # Nil /\ timer'[min].wakeup < now + left))
       THEN /\ alarm' = IF alarm # 0 /\ alarm < timer'[min].wakeup THEN alarm ELSE timer'[min].wakeup
            /\ left' = alarm' - now
            /\ sigalrmset' = (sigalrmset \/ left = 0)
       ELSE alarm' = alarm /\ left' = left /\ sigalrmset' = sigalrmset
    /\ stack' = <<[Top EXCEPT !.pc = IF tp = Nil THEN "end" ELSE "run", !.tp = tp]>> \o Tail(stack)
    /\ now' = now /\ time_state' = time_state /\ handle' = handle /\ added' = added /\ lapse' = lapse

LEMMA ScanIsRound ==
    ASSUME TypeOK, Scan
    PROVE  \E tp, min \in Node \cup {Nil} : Round(tp, min)
<1> DEFINE due == Expired
           first == {i \in DOMAIN list : list[i] \in due /\
                        \A n \in due : timer[list[i]].wakeup <= timer[n].wakeup}
           tp == IF due = {} THEN Nil ELSE list[CHOOSE i \in first : \A j \in first : i <= j]
           repeats == tp # Nil /\ timer[tp].incr # 0
           later == (Live \ due) \cup (IF repeats THEN {tp} ELSE {})
           wakeup == [n \in later |-> IF n = tp THEN Repeated(tp) ELSE timer[n].wakeup]
           min == IF later = {} THEN Nil
                  ELSE CHOOSE n \in later : \A m \in later : wakeup[n] <= wakeup[m]
<1>1. /\ Linked \subseteq Node /\ Live \subseteq Linked /\ due \subseteq Live
      /\ DOMAIN list \subseteq Nat
  BY LinkedType
<1>2. \A n \in Node : timer[n].wakeup \in Nat /\ timer[n].incr \in Nat
  BY TimerType
<1>3. ASSUME due # {}
      PROVE  first # {} /\ tp \in due
  <2>1. PICK n \in due : \A m \in due : timer[n].wakeup <= timer[m].wakeup
    <3> DEFINE f == [n \in Node |-> timer[n].wakeup]
    <3>1. \A n \in due : f[n] \in Nat /\ f[n] = timer[n].wakeup
      BY <1>1, <1>2
    <3> HIDE DEF f, due
    <3>2. PICK n \in due : \A m \in due : f[n] <= f[m]
      BY <1>3, <3>1, LeastOf
    <3>3. QED
      BY <3>1, <3>2
  <2>2. PICK i \in DOMAIN list : list[i] = n
    BY <1>1, <2>1 DEF Linked, ToSet
  <2>3. i \in first
    BY <2>1, <2>2
  <2>4. first \in SUBSET Nat
    BY <1>1
  <2>5. \E k \in first : \A j \in first : k <= j
    <3> HIDE DEF first
    <3>1. QED
      BY <2>3, <2>4, Least
  <2>6. (CHOOSE k \in first : \A j \in first : k <= j) \in first
    <3> HIDE DEF first
    <3>1. QED
      BY <2>5
  <2>7. QED
    <3> DEFINE k == CHOOSE k \in first : \A j \in first : k <= j
    <3>1. k \in first
      BY <2>6
    <3> HIDE DEF k
    <3>2. list[k] \in due
      BY <3>1
    <3>3. tp = list[k]
      BY <1>3 DEF k
    <3>4. QED
      BY <2>3, <3>2, <3>3
<1>4. (tp = Nil <=> due = {}) /\ (tp # Nil => tp \in due) /\ tp \in Node \cup {Nil}
  BY <1>1, <1>3, Numbers
<1>5. now \in Nat
  BY Numbers DEF TypeOK, Time
<1>6. ASSUME repeats
      PROVE  Repeated(tp) \in Nat /\ Repeated(tp) > now
  <2> HIDE DEF tp, due
  <2>1. tp # Nil /\ timer[tp].incr # 0
    BY <1>6
  <2>2. tp \in Node
    BY <1>4, <2>1
  <2>3. timer[tp].incr \in Nat \ {0} /\ timer[tp].wakeup \in Nat
    BY <1>2, <2>1, <2>2
  <2>4. \E w \in now + 1..now + timer[tp].incr : (w - timer[tp].wakeup) % timer[tp].incr = 0
    BY <1>5, <2>3, Residue
  <2>5. Repeated(tp) \in now + 1..now + timer[tp].incr
    BY <2>4 DEF Repeated
  <2>6. QED
    BY <1>5, <2>3, <2>5
<1>7. ASSUME NEW n \in later
      PROVE  n \in Live /\ wakeup[n] \in Nat /\ (n = tp => repeats)
  <2> HIDE DEF tp
  <2>1. wakeup[n] = IF n = tp THEN Repeated(tp) ELSE timer[n].wakeup
    OBVIOUS
  <2> HIDE DEF wakeup, due
  <2>2. n \in Live /\ n # Nil /\ (n \in due => n = tp /\ repeats)
    BY <1>1, <1>4, Numbers
  <2>3. n = tp => repeats
    BY <1>4, <2>2
  <2>4. QED
    BY <1>1, <1>2, <1>6, <2>1, <2>2, <2>3
<1>8. ASSUME later # {}
      PROVE  min \in later /\ \A n \in later : wakeup[min] <= wakeup[n]
  <2> HIDE DEF later, wakeup
  <2>1. \E n \in later : \A m \in later : wakeup[n] <= wakeup[m]
    BY <1>7, <1>8, LeastOf
  <2>2. QED
    BY <1>8, <2>1
<1>9. /\ Running("sigalrm") /\ Top.pc = "scan"
      /\ list' = Those(list, Live) /\ free' = Reverse(Those(list, Node \ Live)) \o free
      /\ tpmin' = min
      /\ timer' = [n \in Node |-> IF n \notin Live THEN Unused
                                ELSE IF repeats /\ n = tp THEN [timer[n] EXCEPT !.wakeup = wakeup[n]]
                                ELSE timer[n]]
      /\ IF min # Nil /\ (left = 0 \/ (tp # Nil /\ wakeup[min] < now + left))
         THEN /\ alarm' = IF alarm # 0 /\ alarm < wakeup[min] THEN alarm ELSE wakeup[min]
              /\ left' = alarm' - now
              /\ sigalrmset' = (sigalrmset \/ left = 0)
         ELSE UNCHANGED <<alarm, left, sigalrmset>>
      /\ stack' = <<[Top EXCEPT !.pc = IF tp = Nil THEN "end" ELSE "run", !.tp = tp]>> \o Tail(stack)
      /\ UNCHANGED <<now, time_state, handle, added, lapse>>
  BY Zenon DEF Scan
<1> HIDE DEF tp, wakeup, min
<1>10. list' \in Seq(Node) /\ free' \in Seq(Node) /\ Linked' = Live
  <2>1. list \in Seq(Node) /\ free \in Seq(Node)
    BY DEF TypeOK
  <2>2. /\ list' \in Seq(Node) /\ ToSet(list') = ToSet(list) \cap Live
        /\ Those(list, Node \ Live) \in Seq(Node)
    BY <1>9, <2>1, Selected
  <2>3. Reverse(Those(list, Node \ Live)) \in Seq(Node)
    BY <2>2, Reversed
  <2>4. free' \in Seq(Node)
    BY <1>9, <2>1, <2>3, Joined
  <2>5. QED
    BY <1>1, <2>2, <2>4 DEF Linked
<1>11. \A n \in Node : timer[n] \in Timer
  BY DEF TypeOK
<1>12. Unused \in Timer
  BY DEF Unused, Timer, Client
<1>13. ASSUME NEW n \in Node
       PROVE  timer'[n] \in Timer
  <2>1. timer'[n] = IF n \notin Live THEN Unused
                    ELSE IF repeats /\ n = tp THEN [timer[n] EXCEPT !.wakeup = wakeup[n]]
                    ELSE timer[n]
    BY <1>9
  <2>2. CASE n \in Live /\ repeats /\ n = tp
    <3>1. wakeup[n] \in Nat
      BY <1>7, <2>2
    <3>2. QED
      BY <1>11, <2>1, <2>2, <3>1 DEF Timer
  <2>3. CASE ~ (n \in Live /\ repeats /\ n = tp)
    BY <1>11, <1>12, <2>1, <2>3
  <2>4. QED
    BY <2>2, <2>3
<1>14. timer' \in [Node -> Timer]
  BY <1>9, <1>13
<1>15. ASSUME NEW n \in Live
       PROVE  /\ timer'[n].action = timer[n].action /\ timer'[n].incr = timer[n].incr
              /\ timer'[n].handle = timer[n].handle
              /\ timer'[n].wakeup = IF repeats /\ n = tp THEN wakeup[n] ELSE timer[n].wakeup
  <2>1. n \in Node /\ timer[n] \in Timer
    BY <1>1, <1>11
  <2>2. timer'[n] = IF repeats /\ n = tp THEN [timer[n] EXCEPT !.wakeup = wakeup[n]] ELSE timer[n]
    BY <1>9, <2>1
  <2>3. QED
    BY <2>1, <2>2 DEF Timer
<1>16. /\ repeats => wakeup[tp] > now
       /\ \A n \in later : timer'[n].wakeup = wakeup[n]
  <2>1. \A n \in later : wakeup[n] = IF n = tp THEN Repeated(tp) ELSE timer[n].wakeup
    BY DEF wakeup
  <2>2. QED
    BY <1>6, <1>7, <1>15, <2>1
<1>17. Live' = Live
  BY <1>10, <1>15 DEF Live
<1>18. min \in Node \cup {Nil} /\ (min = Nil <=> later = {})
  <2>1. later = {} => min = Nil
    BY DEF min
  <2>2. QED
    BY <1>1, <1>7, <1>8, <2>1, Numbers
<1>19. min # Nil => min \in later /\ \A n \in later : timer'[min].wakeup <= timer'[n].wakeup
  BY <1>8, <1>16, <1>18
<1>20. Round(tp, min)
  <2>1. repeats <=> Repeats(tp)
    BY DEF Repeats
  <2>2. later = Later(tp)
    BY DEF Later, Repeats
  <2>3. \A n \in Live : IF Repeats(tp) /\ n = tp THEN timer'[n].wakeup > now
                                               ELSE timer'[n].wakeup = timer[n].wakeup
    BY <1>15, <1>16, <2>1
  <2>4. IF min # Nil /\ (left = 0 \/ (tp # Nil /\ timer'[min].wakeup < now + left))
        THEN /\ alarm' = IF alarm # 0 /\ alarm < timer'[min].wakeup THEN alarm ELSE timer'[min].wakeup
             /\ left' = alarm' - now
             /\ sigalrmset' = (sigalrmset \/ left = 0)
        ELSE alarm' = alarm /\ left' = left /\ sigalrmset' = sigalrmset
    <3>1. min # Nil => timer'[min].wakeup = wakeup[min]
      BY <1>16, <1>19
    <3> HIDE DEF later, repeats
    <3>2. CASE min # Nil /\ (left = 0 \/ (tp # Nil /\ wakeup[min] < now + left))
      BY <1>9, <3>1, <3>2, Zenon
    <3>3. CASE ~ (min # Nil /\ (left = 0 \/ (tp # Nil /\ wakeup[min] < now + left)))
      <4>1. UNCHANGED <<alarm, left, sigalrmset>>
        BY <1>9, <3>3, Zenon
      <4>2. QED
        BY <3>1, <3>3, <4>1
    <3>4. QED
      BY <3>2, <3>3, Zenon
  <2> HIDE DEF later, repeats, due
  <2>5. min = Nil => Later(tp) = {}
    BY <1>18, <2>2
  <2>6. min # Nil => min \in Later(tp) /\ \A n \in Later(tp) : timer'[min].wakeup <= timer'[n].wakeup
    BY <1>19, <2>2
  <2>7. (tp = Nil => Expired = {}) /\ (tp # Nil => tp \in Expired)
    BY <1>4 DEF due
  <2>8. now' = now /\ time_state' = time_state /\ handle' = handle /\ added' = added /\ lapse' = lapse
    BY <1>9
  <2>9. QED
    BY <1>4, <1>9, <1>10, <1>14, <1>15, <1>17, <1>18, <2>3, <2>4, <2>5, <2>6, <2>7, <2>8, Zenon
       DEF Round
<1>21. QED
  BY <1>4, <1>18, <1>20

LEMMA TopFacts ==
    ASSUME GoodStack(stack)
    PROVE  /\ Top = stack[1] /\ Top \in Frame /\ GoodFrame(Top)
           /\ Top.fn = "main" => Top \in MainFrame
           /\ Top.fn = "add" => Top \in AddFrame
           /\ Top.fn = "sigalrm" => Top \in HandlerFrame
           /\ Top.fn = "action" => Top \in ActionFrame
<1>1. Top = stack[1] /\ Top \in Frame /\ GoodFrame(Top)
  BY GoodTop DEF Top
<1>2. QED
  BY <1>1, Kinds

(* A step that leaves the stack, or the timers, alone. *)
LEMMA TypedSame ==
    ASSUME Typed, TypeOK', stack' = stack, added' = added, time_state' = time_state,
           Live \subseteq Live'
    PROVE  Typed'
<1>1. Flags'
  BY DEF Typed, Flags, Top
<1>2. NextRuns'
  BY DEF Typed, NextRuns, Top
<1>3. Room' /\ GoodStack(stack')
  BY DEF Typed, Room
<1>4. QED
  BY <1>1, <1>2, <1>3 DEF Typed

LEMMA TypedTick ==
    ASSUME Typed, Tick
    PROVE  Typed'
<1>1. now' \in Time
  BY Numbers DEF Typed, TypeOK, Tick, Time
<1>2. TypeOK'
  BY <1>1 DEF Typed, TypeOK, Tick
<1>3. Live' = Live
  BY DEF Tick, Live, Linked
<1>4. QED
  BY <1>2, <1>3, TypedSame DEF Tick

(* sigalrm is entered on top of the frames k. *)
LEMMA Entered ==
    ASSUME TypeOK, NEW k, GoodStack(k), Enter(k),
           k[1].fn = "sigalrm" => time_state \ {"SIGALRM_CALL"} # {},
           k[1].fn = "add" /\ k[1].pc = "linked" => time_state \ {"SIGALRM_CALL"} # {}
    PROVE  /\ left' = 0
           /\ time_state' \subseteq {"IN_ADDTIMEOUT", "IN_SIGALRM", "DEFER_SIGALRM", "SIGALRM_CALL"}
           /\ time_state \ {"SIGALRM_CALL"} # {} =>
                 /\ stack' = k
                 /\ time_state' = IF "IN_ADDTIMEOUT" \in time_state
                                  THEN (time_state \ {"SIGALRM_CALL"}) \cup {"DEFER_SIGALRM"}
                                  ELSE time_state \ {"SIGALRM_CALL"}
           /\ time_state \ {"SIGALRM_CALL"} = {} =>
                 /\ time_state' = {"IN_SIGALRM"} /\ Tail(stack') = k
                 /\ stack'[1] = [fn |-> "sigalrm", pc |-> "scan", tp |-> Nil]
                 /\ ToSet(stack') = {stack'[1]} \cup ToSet(k)
           /\ GoodStack(stack')
<1> DEFINE flags == time_state \ {"SIGALRM_CALL"}
           f == [fn |-> "sigalrm", pc |-> "scan", tp |-> Nil]
<1>1. /\ left' = 0
      /\ flags = {} => time_state' = {"IN_SIGALRM"} /\ stack' = <<f>> \o k
      /\ flags # {} => /\ time_state' = IF "IN_ADDTIMEOUT" \in flags THEN flags \cup {"DEFER_SIGALRM"}
                                                                     ELSE flags
                       /\ stack' = k
  BY DEF Enter
<1>2. time_state \subseteq {"IN_ADDTIMEOUT", "IN_SIGALRM", "DEFER_SIGALRM", "SIGALRM_CALL"}
  BY DEF TypeOK
<1>3. f \in Frame /\ f.fn = "sigalrm" /\ GoodFrame(f)
  BY Kinds DEF HandlerFrame, GoodFrame
<1>4. ASSUME flags = {}
      PROVE  GoodStack(stack') /\ Tail(stack') = k /\ stack'[1] = f /\ ToSet(stack') = {f} \cup ToSet(k)
  <2>1. Above(f, k[1])
    BY <1>3, <1>4 DEF Above
  <2> HIDE DEF f
  <2>2. QED
    BY <1>1, <1>3, <1>4, <2>1, GoodPush
<1>5. flags # {} => GoodStack(stack')
  BY <1>1
<1>6. QED
  BY <1>1, <1>2, <1>4, <1>5

LEMMA TypedSignal ==
    ASSUME Typed, Signal
    PROVE  Typed'
<1>1. /\ Enter(stack) /\ alarm' = 0 /\ Top = stack[1] /\ GoodStack(stack) /\ TypeOK /\ Top \in Frame
      /\ lapse' \in {lapse, lapse \cup {"drop"}}
      /\ UNCHANGED <<now, sigalrmset, timer, list, free, tpmin, handle, added>>
  BY TopFacts DEF Typed, Signal
<1>2. Top.fn = "sigalrm" => time_state \ {"SIGALRM_CALL"} = {"IN_SIGALRM"}
  BY DEF Typed, Flags, FlagsOf
<1>3. Top.fn = "add" /\ Top.pc = "linked" =>
         /\ "IN_ADDTIMEOUT" \in time_state
         /\ time_state \in {{"IN_ADDTIMEOUT"}, {"IN_ADDTIMEOUT", "DEFER_SIGALRM"}}
  BY DEF Typed, Flags, FlagsOf
<1>4. /\ left' = 0 /\ GoodStack(stack')
      /\ time_state' \subseteq {"IN_ADDTIMEOUT", "IN_SIGALRM", "DEFER_SIGALRM", "SIGALRM_CALL"}
      /\ time_state \ {"SIGALRM_CALL"} # {} =>
            /\ stack' = stack
            /\ time_state' = IF "IN_ADDTIMEOUT" \in time_state
                             THEN (time_state \ {"SIGALRM_CALL"}) \cup {"DEFER_SIGALRM"}
                             ELSE time_state \ {"SIGALRM_CALL"}
      /\ time_state \ {"SIGALRM_CALL"} = {} =>
            /\ time_state' = {"IN_SIGALRM"} /\ Tail(stack') = stack
            /\ stack'[1] = [fn |-> "sigalrm", pc |-> "scan", tp |-> Nil]
            /\ ToSet(stack') = {stack'[1]} \cup ToSet(stack)
  <2>1. /\ stack[1].fn = "sigalrm" => time_state \ {"SIGALRM_CALL"} # {}
        /\ stack[1].fn = "add" /\ stack[1].pc = "linked" => time_state \ {"SIGALRM_CALL"} # {}
    BY <1>1, <1>2, <1>3
  <2>2. QED
    BY <1>1, <2>1, Entered
<1>5. TypeOK'
  <2>1. stack' \in Seq(Frame) /\ stack' # <<>>
    BY <1>4 DEF GoodStack
  <2>2. QED
    BY <1>1, <1>4, <2>1 DEF TypeOK
<1>6. Top' = stack'[1]
  BY <1>4, GoodTop DEF Top
<1>7. Live' = Live
  BY <1>1 DEF Live, Linked
<1>8. CASE time_state \ {"SIGALRM_CALL"} = {}
  <2>1. Flags' /\ NextRuns'
    BY <1>4, <1>6, <1>8 DEF Flags, FlagsOf, NextRuns
  <2>2. Room'
    BY <1>1, <1>4, <1>8 DEF Typed, Room
  <2>3. QED
    BY <1>4, <1>5, <2>1, <2>2 DEF Typed
<1>9. CASE time_state \ {"SIGALRM_CALL"} # {}
  <2>1. stack' = stack /\ Top' = Top
    BY <1>4, <1>9 DEF Top
  <2>2. NextRuns' /\ Room'
    BY <1>1, <1>7, <2>1 DEF Typed, NextRuns, Room
  <2>3. Flags'
    <3>1. SUFFICES ASSUME ~ (Top.fn = "main" /\ Top.pc = "dead")
                   PROVE  time_state' \in FlagsOf(Top)
      BY <2>1 DEF Flags
    <3>2. time_state \in FlagsOf(Top)
      BY <3>1 DEF Typed, Flags
    <3>3. QED
      BY <1>4, <1>9, <3>2 DEF FlagsOf
  <2>4. QED
    BY <1>4, <1>5, <2>2, <2>3 DEF Typed
<1>10. QED
  BY <1>8, <1>9

LEMMA TypedKilled ==
    ASSUME Typed, Killed
    PROVE  Typed'
<1> DEFINE f == [fn |-> "main", pc |-> "dead"]
<1>1. f \in MainFrame /\ stack' = <<f>>
  BY DEF MainFrame, Killed
<1>2. GoodStack(stack') /\ stack'[1] = f /\ ToSet(stack') = {f}
  <2> HIDE DEF f
  <2>1. QED
    BY <1>1, GoodMain
<1>3. Top' = f
  BY <1>2, GoodTop DEF Top
<1>4. TypeOK'
  <2>1. stack' \in Seq(Frame) /\ stack' # <<>>
    BY <1>2 DEF GoodStack
  <2>2. QED
    BY <2>1 DEF Typed, TypeOK, Killed
<1>5. QED
  BY <1>2, <1>3, <1>4 DEF Typed, Flags, Room, NextRuns

(* The top of the stack goes on, *)
LEMMA Goes ==
    ASSUME GoodStack(stack), NEW f \in Frame, f.fn = Top.fn, GoodFrame(f),
           stack' = <<f>> \o Tail(stack)
    PROVE  /\ GoodStack(stack') /\ Top' = f /\ Tail(stack') = Tail(stack)
           /\ ToSet(stack') = {f} \cup ToSet(Tail(stack)) /\ Len(stack') = Len(stack)
<1>1. f.fn = stack[1].fn
  BY TopFacts
<1>2. /\ GoodStack(stack') /\ stack'[1] = f /\ Tail(stack') = Tail(stack)
      /\ ToSet(stack') = {f} \cup ToSet(Tail(stack)) /\ Len(stack') = Len(stack)
  BY <1>1, GoodReplace
<1>3. QED
  BY <1>2, GoodTop DEF Top

(* ends, *)
LEMMA Ends ==
    ASSUME GoodStack(stack), Top.fn # "main", stack' = Tail(stack)
    PROVE  /\ GoodStack(stack') /\ Top' = stack'[1] /\ Above(Top, Top')
           /\ ToSet(stack) = {Top} \cup ToSet(stack') /\ Top' \in ToSet(stack') /\ Len(stack') = Len(stack) - 1
<1>1. Top = stack[1]
  BY TopFacts
<1>2. /\ GoodStack(stack') /\ ToSet(stack) = {Top} \cup ToSet(stack') /\ stack'[1] = stack[2]
      /\ Above(stack[1], stack[2])
  BY <1>1, GoodPop
<1>3. Top' = stack'[1]
  BY <1>2, GoodTop DEF Top
<1>4. Top' \in ToSet(stack')
  <2>1. ToSet(stack') = {stack'[1]} \cup ToSet(Tail(stack'))
    BY <1>2, GoodPop
  <2>2. QED
    BY <1>3, <2>1
<1>5. Len(stack') = Len(stack) - 1
  BY GoodTop
<1>6. QED
  BY <1>1, <1>2, <1>3, <1>4, <1>5

(* or calls. *)
LEMMA Calls ==
    ASSUME GoodStack(stack), NEW f \in Frame, NEW g \in Frame, g.fn = Top.fn, GoodFrame(g),
           f.fn # "main", GoodFrame(f), Above(f, g),
           f.fn = "add" => g.fn # "add" /\ ~ Has(Tail(stack), "add"),
           stack' = <<f>> \o (<<g>> \o Tail(stack))
    PROVE  /\ GoodStack(stack') /\ Top' = f /\ Tail(stack') = <<g>> \o Tail(stack)
           /\ GoodStack(Tail(stack')) /\ Tail(stack')[1] = g /\ Tail(Tail(stack')) = Tail(stack)
           /\ ToSet(stack') = {f, g} \cup ToSet(Tail(stack))
           /\ Len(stack') = Len(stack) + 1
<1> DEFINE k == <<g>> \o Tail(stack)
<1>1. g.fn = stack[1].fn
  BY TopFacts
<1>2. /\ GoodStack(k) /\ k[1] = g /\ Tail(k) = Tail(stack) /\ ToSet(k) = {g} \cup ToSet(Tail(stack)) /\ Len(k) = Len(stack)
  BY <1>1, GoodReplace
<1>3. f.fn = "add" => ~ Has(k, "add")
  BY <1>2 DEF Has
<1> HIDE DEF k
<1>4. /\ GoodStack(<<f>> \o k) /\ (<<f>> \o k)[1] = f /\ Tail(<<f>> \o k) = k
      /\ ToSet(<<f>> \o k) = {f} \cup ToSet(k) /\ Len(<<f>> \o k) = Len(k) + 1
  BY <1>2, <1>3, GoodPush
<1>5. stack' = <<f>> \o k
  BY DEF k
<1>6. Top' = f
  BY <1>4, <1>5, GoodTop DEF Top
<1>7. QED
  BY <1>2, <1>4, <1>5, <1>6 DEF k

LEMMA StackType ==
    ASSUME NEW s, GoodStack(s)
    PROVE  s \in Seq(Frame) /\ s # <<>>
  BY DEF GoodStack

(* Fields of the top that change. *)
LEMMA HandlerPc ==
    ASSUME NEW f \in HandlerFrame, NEW pc \in {"scan", "run", "end"}
    PROVE  LET g == [f EXCEPT !.pc = pc]
           IN  g \in HandlerFrame /\ g \in Frame /\ GoodFrame(g) /\ g.pc = pc /\ g.fn = "sigalrm"
<1>1. HandlerFrame \subseteq Frame
  BY Kinds
<1>2. QED
  BY <1>1 DEF HandlerFrame, GoodFrame

(* The steps of sigalrm. *)
LEMMA ScanTop ==
    ASSUME Typed, NEW tp, NEW min, Round(tp, min)
    PROVE  /\ GoodStack(stack') /\ ToSet(stack') = {Top'} \cup ToSet(Tail(stack))
           /\ Top'.fn = "sigalrm" /\ Top'.tp = tp /\ Top'.pc = IF tp = Nil THEN "end" ELSE "run"
           /\ Tail(stack') = Tail(stack) /\ Len(stack') = Len(stack)
<1> DEFINE pc == IF tp = Nil THEN "end" ELSE "run"
           g == [Top EXCEPT !.pc = pc, !.tp = tp]
<1>1. /\ Top.fn = "sigalrm" /\ tp \in Node \cup {Nil} /\ stack' = <<g>> \o Tail(stack)
      /\ pc \in {"run", "end"} /\ GoodStack(stack)
  BY DEF Typed, Round, Running
<1>2. Top \in HandlerFrame
  BY <1>1, TopFacts
<1> HIDE DEF pc
<1>3. g \in Frame /\ GoodFrame(g) /\ g.pc = pc /\ g.fn = "sigalrm" /\ g.tp = tp
  <2>1. g \in HandlerFrame /\ g.pc = pc /\ g.fn = "sigalrm" /\ g.tp = tp
    BY <1>1, <1>2 DEF HandlerFrame
  <2> HIDE DEF g
  <2>2. QED
    BY <2>1, Kinds DEF GoodFrame
<1> HIDE DEF g
<1>4. /\ GoodStack(stack') /\ Top' = g /\ Tail(stack') = Tail(stack)
      /\ ToSet(stack') = {g} \cup ToSet(Tail(stack)) /\ Len(stack') = Len(stack)
  BY <1>1, <1>3, Goes
<1>5. QED
  BY <1>3, <1>4 DEF pc

LEMMA TypedScan ==
    ASSUME Typed, Scan
    PROVE  Typed'
<1>1. TypeOK /\ GoodStack(stack)
  BY DEF Typed
<1>2. PICK tp \in Node \cup {Nil}, min \in Node \cup {Nil} : Round(tp, min)
  BY <1>1, ScanIsRound
<1>3. /\ GoodStack(stack') /\ ToSet(stack') = {Top'} \cup ToSet(Tail(stack))
      /\ Top'.fn = "sigalrm" /\ Top'.tp = tp /\ Top'.pc = IF tp = Nil THEN "end" ELSE "run"
  BY <1>2, ScanTop
<1>4. /\ timer' \in [Node -> Timer] /\ list' \in Seq(Node) /\ free' \in Seq(Node)
      /\ tpmin' \in Node \cup {Nil} /\ Live' = Live
      /\ tp # Nil => tp \in Live
      /\ now' = now /\ time_state' = time_state /\ handle' = handle /\ added' = added /\ lapse' = lapse
      /\ ~ Due /\ Top.fn = "sigalrm"
  BY <1>1, <1>2, LinkedType DEF Round, Running
<1>5. now \in Nat /\ alarm \in Nat /\ (alarm = 0 \/ alarm > now) /\ left \in Nat /\ sigalrmset \in BOOLEAN
  BY <1>1, <1>4, Numbers DEF TypeOK, Time, Due
<1>6. alarm' \in Nat /\ left' \in Nat /\ sigalrmset' \in BOOLEAN
  <2>1. ASSUME min # Nil
        PROVE  timer'[min].wakeup \in Nat /\ timer'[min].wakeup > now
    <3>1. min \in Node /\ timer'[min] \in Timer /\ min \in Later(tp)
      BY <1>2, <1>4, <2>1 DEF Round
    <3>2. timer'[min].wakeup \in Nat
      BY <3>1 DEF Timer
    <3>3. Live \subseteq Node
      BY <1>1, LinkedType
    <3>4. CASE Repeats(tp) /\ min = tp
      BY <1>2, <1>4, <3>2, <3>4 DEF Round, Repeats
    <3>5. CASE ~ (Repeats(tp) /\ min = tp)
      <4>1. min \in Live /\ min \notin Expired
        BY <3>1, <3>5 DEF Later
      <4>2. timer[min].wakeup > now /\ timer'[min].wakeup = timer[min].wakeup
        <5>1. timer[min].wakeup \in Nat
          BY <1>1, <3>1, TimerType
        <5>2. ~ (timer[min].wakeup <= now)
          BY <4>1 DEF Expired
        <5>3. timer'[min].wakeup = timer[min].wakeup
          BY <1>2, <3>5, <4>1 DEF Round
        <5>4. QED
          BY <1>5, <5>1, <5>2, <5>3
      <4>3. QED
        BY <3>2, <4>2
    <3>6. QED
      BY <3>2, <3>4, <3>5
  <2>2. CASE min # Nil /\ (left = 0 \/ (tp # Nil /\ timer'[min].wakeup < now + left))
    <3>1. /\ alarm' = IF alarm # 0 /\ alarm < timer'[min].wakeup THEN alarm ELSE timer'[min].wakeup
          /\ left' = alarm' - now
          /\ sigalrmset' = (sigalrmset \/ left = 0)
      BY <1>2, <2>2 DEF Round
    <3>2. sigalrmset' \in BOOLEAN
      BY <1>5, <3>1
    <3>3. alarm' \in Nat /\ alarm' > now
      BY <1>5, <2>1, <2>2, <3>1
    <3>4. QED
      BY <1>5, <3>1, <3>2, <3>3
  <2>3. CASE ~ (min # Nil /\ (left = 0 \/ (tp # Nil /\ timer'[min].wakeup < now + left)))
    <3>1. alarm' = alarm /\ left' = left /\ sigalrmset' = sigalrmset
      BY <1>2, <2>3 DEF Round
    <3>2. QED
      BY <1>5, <3>1
  <2>4. QED
    BY <2>2, <2>3
<1>7. TypeOK'
  <2>1. stack' \in Seq(Frame) /\ stack' # <<>>
    BY <1>3, StackType
  <2>2. QED
    BY <1>1, <1>4, <1>6, <2>1 DEF TypeOK
<1>8. Flags'
  BY <1>3, <1>4 DEF Typed, Flags, FlagsOf
<1>9. Room'
  <2>1. ToSet(Tail(stack)) \subseteq ToSet(stack)
    BY <1>1, GoodPop
  <2>2. QED
    BY <1>3, <1>4, <2>1 DEF Typed, Room
<1>10. NextRuns'
  BY <1>3, <1>4 DEF NextRuns
<1>11. QED
  BY <1>3, <1>7, <1>8, <1>9, <1>10 DEF Typed

(* sigalrm calls the action of a timer that is linked and not deleted. *)
LEMMA RunTop ==
    ASSUME Typed, Run
    PROVE  /\ GoodStack(stack') /\ Top.tp \in Live /\ Top.tp \in Node
           /\ Top' = [fn |-> "action", action |-> timer[Top.tp].action, handle |-> timer[Top.tp].handle]
           /\ Top' \in Frame
           /\ \E g \in Frame : /\ g.fn = "sigalrm" /\ g.pc = "scan"
                               /\ ToSet(stack') = {Top', g} \cup ToSet(Tail(stack))
           /\ GoodStack(Tail(stack')) /\ Tail(stack')[1].fn = Top.fn /\ Tail(Tail(stack')) = Tail(stack)
<1> DEFINE g == [Top EXCEPT !.pc = "scan"]
           f == [fn |-> "action", action |-> timer[Top.tp].action, handle |-> timer[Top.tp].handle]
<1>1. TypeOK /\ GoodStack(stack) /\ Top.fn = "sigalrm" /\ Top.pc = "run" /\ Top \in HandlerFrame
  BY TopFacts DEF Typed, Run, Running
<1>2. stack' = <<f>> \o (<<g>> \o Tail(stack))
  BY DEF Run, At
<1>3. Top.tp \in Live /\ Top.tp \in Node
  BY <1>1, LinkedType DEF Typed, NextRuns
<1>4. g \in Frame /\ GoodFrame(g) /\ g.fn = "sigalrm" /\ g.pc = "scan"
  BY <1>1, HandlerPc
<1>5. f \in Frame /\ GoodFrame(f) /\ f.fn = "action"
  <2>1. timer[Top.tp].action \in Id /\ timer[Top.tp].handle \in Client
    BY <1>1, <1>3, TimerType DEF Live
  <2>2. f \in ActionFrame
    BY <2>1 DEF ActionFrame
  <2>3. QED
    BY <2>2, Kinds DEF GoodFrame
<1>6. Above(f, g)
  BY <1>4, <1>5 DEF Above
<1> HIDE DEF f, g
<1>7. /\ GoodStack(stack') /\ Top' = f /\ ToSet(stack') = {f, g} \cup ToSet(Tail(stack))
      /\ GoodStack(Tail(stack')) /\ Tail(stack')[1] = g /\ Tail(Tail(stack')) = Tail(stack)
  BY <1>1, <1>2, <1>4, <1>5, <1>6, Calls
<1>8. QED
  BY <1>1, <1>3, <1>4, <1>5, <1>7 DEF f

LEMMA TypedRun ==
    ASSUME Typed, Run
    PROVE  Typed'
<1>1. TypeOK /\ GoodStack(stack) /\ Top.fn = "sigalrm"
  BY DEF Typed, Run, Running
<1>2. /\ GoodStack(stack') /\ Top'.fn = "action" /\ Top.tp \in Node
      /\ \E g \in Frame : g.fn = "sigalrm" /\ ToSet(stack') = {Top', g} \cup ToSet(Tail(stack))
  BY RunTop
<1>3. timer[Top.tp] \in Timer
  BY <1>1, <1>2 DEF TypeOK
<1>4. timer' \in [Node -> Timer]
  <2>1. [timer[Top.tp] EXCEPT !.action = 0] \in Timer
    BY <1>3 DEF Timer
  <2>2. timer' \in {timer, [timer EXCEPT ![Top.tp].action = 0]}
    BY DEF Run
  <2>3. QED
    BY <1>1, <1>2, <2>1, <2>2 DEF TypeOK
<1>5. handle' \in [Client -> Node \cup {Nil}]
  <2>1. handle' = Cleared(timer[Top.tp])
    BY DEF Run
  <2>2. QED
    BY <1>1, <2>1 DEF Cleared, TypeOK
<1>6. TypeOK'
  <2>1. stack' \in Seq(Frame) /\ stack' # <<>>
    BY <1>2, StackType
  <2>2. time_state' = time_state \ {"IN_SIGALRM"}
        /\ UNCHANGED <<now, alarm, sigalrmset, list, free, tpmin, left, added, lapse>>
    BY DEF Run
  <2>3. QED
    BY <1>1, <1>4, <1>5, <2>1, <2>2 DEF TypeOK
<1>7. Flags'
  <2>1. time_state = {"IN_SIGALRM"}
    BY <1>1 DEF Typed, Flags, FlagsOf
  <2>2. time_state' = {}
    BY <2>1 DEF Run
  <2>3. QED
    BY <1>2, <2>2 DEF Flags, FlagsOf
<1>8. Room'
  <2>1. ToSet(Tail(stack)) \subseteq ToSet(stack) /\ added' = added
    BY <1>1, GoodPop DEF Run
  <2>2. QED
    BY <1>2, <2>1 DEF Typed, Room
<1>9. QED
  BY <1>2, <1>6, <1>7, <1>8 DEF Typed, NextRuns

(* A step that only takes a frame off the stack: below a frame no timer is being linked,
   and no timer about to run. *)
LEMMA TypedEnds ==
    ASSUME Typed, Top.fn # "main", stack' = Tail(stack), added' = added, TypeOK',
           time_state' \in FlagsOf(Top')
    PROVE  Typed'
<1>1. /\ GoodStack(stack') /\ Above(Top, Top') /\ ToSet(stack) = {Top} \cup ToSet(stack')
  BY Ends DEF Typed
<1>2. Room'
  BY <1>1 DEF Typed, Room
<1>3. Top'.fn = "sigalrm" => Top'.pc = "scan"
  <2>1. Top.fn \in {"add", "sigalrm", "action"}
    BY TopFacts, Kinds DEF Typed
  <2>2. QED
    BY <1>1, <2>1 DEF Above
<1>4. QED
  BY <1>1, <1>2, <1>3 DEF Typed, Flags, NextRuns

LEMMA TypedActionEnd ==
    ASSUME Typed, ActionEnd
    PROVE  Typed'
<1>1. /\ TypeOK /\ GoodStack(stack) /\ Top.fn = "action" /\ stack' = Tail(stack)
      /\ time_state' = time_state \cup {"IN_SIGALRM"}
      /\ UNCHANGED <<now, alarm, sigalrmset, timer, list, free, tpmin, left, handle, added, lapse>>
  BY DEF Typed, ActionEnd, Running
<1>2. GoodStack(stack') /\ Above(Top, Top')
  BY <1>1, Ends
<1>3. Top'.fn = "sigalrm"
  BY <1>1, <1>2 DEF Above
<1>4. time_state' = {"IN_SIGALRM"}
  <2>1. time_state = {}
    BY <1>1 DEF Typed, Flags, FlagsOf
  <2>2. QED
    BY <1>1, <2>1
<1>5. TypeOK'
  <2>1. stack' \in Seq(Frame) /\ stack' # <<>>
    BY <1>2, StackType
  <2>2. QED
    BY <1>1, <1>4, <2>1 DEF TypeOK
<1>6. time_state' \in FlagsOf(Top')
  BY <1>3, <1>4 DEF FlagsOf
<1>7. QED
  BY <1>1, <1>5, <1>6, TypedEnds

LEMMA TypedEnd ==
    ASSUME Typed, End
    PROVE  Typed'
<1>1. /\ TypeOK /\ GoodStack(stack) /\ Top.fn = "sigalrm" /\ stack' = Tail(stack)
      /\ time_state' = time_state \ {"IN_SIGALRM"} /\ sigalrmset' = StillCaught
      /\ left' \in {left, 0}
      /\ UNCHANGED <<now, alarm, timer, list, free, tpmin, handle, added, lapse>>
  BY DEF Typed, End, Running
<1>2. GoodStack(stack') /\ Above(Top, Top')
  BY <1>1, Ends
<1>3. time_state' = {}
  <2>1. time_state = {"IN_SIGALRM"}
    BY <1>1 DEF Typed, Flags, FlagsOf
  <2>2. QED
    BY <1>1, <2>1
<1>4. TypeOK'
  <2>1. stack' \in Seq(Frame) /\ stack' # <<>>
    BY <1>2, StackType
  <2>2. sigalrmset' \in BOOLEAN
    BY <1>1 DEF StillCaught, TypeOK
  <2>3. QED
    BY <1>1, <1>3, <2>1, <2>2 DEF TypeOK
<1>5. time_state' \in FlagsOf(Top')
  <2>1. Top'.fn # "sigalrm" /\ ~ (Top'.fn = "add" /\ Top'.pc = "linked")
    BY <1>1, <1>2 DEF Above
  <2>2. QED
    BY <1>3, <2>1 DEF FlagsOf
<1>6. QED
  BY <1>1, <1>4, <1>5, TypedEnds

(* A jump leaves the frames of an outer action or only the program; it is noted if
   timers were due or no alarm is set, and if it ends an addition. *)
LEMMA JumpTop ==
    ASSUME Typed, Jump
    PROVE  /\ GoodStack(stack') /\ Top.fn = "action" /\ ToSet(stack') \subseteq ToSet(stack) \cup MainFrame
           /\ Top'.fn = "main" => /\ stack' = <<Top'>> /\ Top'.pc = "idle" /\ Len(stack') = 1
                                  /\ left' = 0
           /\ Top'.fn # "main" => /\ Top'.fn = "action" /\ left' = left
                                  /\ ToSet(stack') \subseteq ToSet(stack)
           /\ lapse \subseteq lapse' /\ lapse' \subseteq lapse \cup {"jump", "stale"}
           /\ "jump" \notin lapse' => \A n \in Live : ~ (timer[n].wakeup <= now) /\ alarm # 0
           /\ "stale" \notin lapse' => \A f \in ToSet(stack) : f.fn = "add" => f \in ToSet(stack')
<1> DEFINE outer == {i \in 2..Len(stack) : stack[i].fn = "action"}
           to == IF outer = {} THEN Len(stack) ELSE CHOOSE i \in outer : \A j \in outer : i <= j
           m == [fn |-> "main", pc |-> "idle"]
<1>1. /\ Top.fn = "action" /\ GoodStack(stack)
      /\ stack' = IF outer = {} THEN <<m>> ELSE SubSeq(stack, to, Len(stack))
      /\ left' = IF outer = {} THEN 0 ELSE left
      /\ lapse' = lapse
            \cup (IF \E n \in Live : timer[n].wakeup <= now \/ alarm = 0 THEN {"jump"} ELSE {})
            \cup (IF \E i \in 1..to : stack[i].fn = "add" THEN {"stale"} ELSE {})
  BY DEF Typed, Jump, Running
<1>2. /\ Len(stack) \in Nat \ {0} /\ DOMAIN stack = 1..Len(stack)
      /\ \A i \in DOMAIN stack : stack[i].fn = "main" <=> i = Len(stack)
  BY <1>1, GoodTop DEF GoodStack
<1>3. outer # {} => to \in outer
  <2>1. outer \in SUBSET Nat
    BY <1>2
  <2>2. outer # {} => \E i \in outer : \A j \in outer : i <= j
    <3> HIDE DEF outer
    <3>1. QED
      BY <2>1, Least
  <2>3. QED
    BY <2>2
<1>4. m \in MainFrame /\ m.fn = "main" /\ m.pc = "idle"
  BY DEF MainFrame
<1> HIDE DEF m, to
<1>5. CASE outer = {}
  <2>1. stack' = <<m>> /\ left' = 0 /\ to = Len(stack)
    BY <1>1, <1>5 DEF to
  <2>2. GoodStack(stack') /\ stack'[1] = m /\ ToSet(stack') = {m} /\ Len(stack') = 1
    BY <1>4, <2>1, GoodMain
  <2>3. Top' = m
    BY <2>2, GoodTop DEF Top
  <2>4. ASSUME "stale" \notin lapse', NEW f \in ToSet(stack)
        PROVE  f.fn # "add"
    BY <1>1, <1>2, <2>1, <2>4 DEF ToSet
  <2>5. "jump" \notin lapse' => \A n \in Live : ~ (timer[n].wakeup <= now) /\ alarm # 0
    BY <1>1
  <2>6. lapse \subseteq lapse' /\ lapse' \subseteq lapse \cup {"jump", "stale"}
    BY <1>1
  <2>7. QED
    BY <1>1, <1>4, <2>1, <2>2, <2>3, <2>4, <2>5, <2>6
<1>6. CASE outer # {}
  <2>1. to \in 2..Len(stack) /\ stack[to].fn = "action" /\ to \in 1..Len(stack)
    BY <1>2, <1>3, <1>6
  <2>2. stack' = SubSeq(stack, to, Len(stack)) /\ left' = left
    BY <1>1, <1>6
  <2>3. GoodStack(stack') /\ stack'[1] = stack[to] /\ ToSet(stack') = {stack[i] : i \in to..Len(stack)}
    BY <1>1, <2>1, <2>2, GoodSub
  <2>4. Top' = stack[to]
    BY <2>3, GoodTop DEF Top
  <2>5. ToSet(stack') \subseteq ToSet(stack)
    BY <1>2, <2>1, <2>3 DEF ToSet
  <2>6. ASSUME "stale" \notin lapse', NEW f \in ToSet(stack), f.fn = "add"
        PROVE  f \in ToSet(stack')
    <3>1. PICK i \in 1..Len(stack) : f = stack[i]
      BY <1>2 DEF ToSet
    <3>2. i \notin 1..to
      BY <1>1, <2>6, <3>1
    <3>3. i \in to..Len(stack)
      BY <1>2, <2>1, <3>1, <3>2
    <3>4. QED
      BY <2>3, <3>1, <3>3
  <2>8. "jump" \notin lapse' => \A n \in Live : ~ (timer[n].wakeup <= now) /\ alarm # 0
    BY <1>1
  <2>9. lapse \subseteq lapse' /\ lapse' \subseteq lapse \cup {"jump", "stale"}
    BY <1>1
  <2>10. QED
    BY <1>1, <2>1, <2>2, <2>3, <2>4, <2>5, <2>6, <2>8, <2>9
<1>7. QED
  BY <1>5, <1>6

LEMMA TypedJump ==
    ASSUME Typed, Jump
    PROVE  Typed'
<1>1. /\ GoodStack(stack') /\ Top.fn = "action" /\ ToSet(stack') \subseteq ToSet(stack) \cup MainFrame
      /\ Top'.fn \in {"main", "action"} /\ left' \in {left, 0}
      /\ lapse' \subseteq lapse \cup {"jump", "stale"}
  BY JumpTop
<1>2. /\ TypeOK
      /\ UNCHANGED <<now, alarm, sigalrmset, timer, list, free, tpmin, time_state, handle, added>>
  BY DEF Typed, Jump
<1>3. TypeOK'
  <2>1. stack' \in Seq(Frame) /\ stack' # <<>>
    BY <1>1, StackType
  <2>2. QED
    BY <1>1, <1>2, <2>1 DEF TypeOK
<1>4. Flags'
  <2>1. time_state' = {}
    BY <1>1, <1>2 DEF Typed, Flags, FlagsOf
  <2>2. QED
    BY <1>1, <2>1 DEF Flags, FlagsOf
<1>5. Room'
  BY <1>1, <1>2 DEF Typed, Room, MainFrame
<1>6. QED
  BY <1>1, <1>3, <1>4, <1>5 DEF Typed, NextRuns

--------------------------------------------------------------------------------
(* The steps of sh_timeradd. *)

(* It is on top, with the timer that it took. *)
LEMMA AddingTop ==
    ASSUME Typed, Running("add")
    PROVE  /\ GoodStack(stack) /\ TypeOK /\ Top \in AddFrame /\ Top.fn = "add" /\ GoodFrame(Top)
           /\ Top.handle \in Client /\ Top.delay \in Delay /\ Top.delay \in Nat \ {0}
           /\ Top.pc # "take" => Top.tp \in Node
           /\ ToSet(stack) = {Top} \cup ToSet(Tail(stack))
           /\ \A f \in ToSet(Tail(stack)) : f.fn # "add"
<1>1. GoodStack(stack) /\ TypeOK /\ Top \in AddFrame /\ Top.fn = "add" /\ GoodFrame(Top) /\ Top = stack[1]
  BY TopFacts DEF Typed, Running
<1>2. Top.handle \in Client /\ Top.delay \in Delay
  BY <1>1 DEF AddFrame
<1>3. Top.delay \in Nat \ {0}
  BY <1>2, Numbers
<1>4. /\ ToSet(stack) = {Top} \cup ToSet(Tail(stack))
      /\ \A f \in ToSet(Tail(stack)) : f.fn # "add"
  BY <1>1, GoodPop
<1>5. QED
  BY <1>1, <1>2, <1>3, <1>4 DEF GoodFrame

(* A step of it that goes on with another program counter. *)
LEMMA AddGoes ==
    ASSUME Typed, Running("add"), Top.pc # "take",
           NEW pc \in {"linked", "call", "called", "return"}, stack' = At(pc)
    PROVE  /\ GoodStack(stack') /\ Top'.fn = "add" /\ Top'.pc = pc /\ Top'.tp = Top.tp
           /\ Top'.handle = Top.handle
           /\ ToSet(stack') = {Top'} \cup ToSet(Tail(stack)) /\ Tail(stack') = Tail(stack)
<1> DEFINE g == [Top EXCEPT !.pc = pc]
<1>1. Top \in AddFrame /\ GoodStack(stack) /\ Top.tp \in Node /\ Top.fn = "add"
  BY AddingTop
<1>2. g \in AddFrame /\ g.pc = pc /\ g.fn = "add" /\ g.tp = Top.tp /\ g.handle = Top.handle
  BY <1>1 DEF AddFrame
<1>3. stack' = <<g>> \o Tail(stack)
  BY DEF At
<1> HIDE DEF g
<1>4. g \in Frame
  BY <1>2, Kinds
<1>5. /\ GoodStack(stack') /\ Top' = g /\ ToSet(stack') = {g} \cup ToSet(Tail(stack))
      /\ Tail(stack') = Tail(stack)
  BY <1>1, <1>2, <1>3, <1>4, Goes DEF GoodFrame
<1>6. QED
  BY <1>2, <1>5

LEMMA AddTakeTop ==
    ASSUME Typed, AddTake
    PROVE  /\ GoodStack(stack') /\ Top'.fn = "add" /\ Top'.pc = "fill" /\ Top'.handle = Top.handle
           /\ IF free # <<>> THEN Top'.tp = free[1] ELSE Top'.tp \in Node \ Linked
           /\ Top'.tp \in Node
           /\ ToSet(stack') = {Top'} \cup ToSet(Tail(stack)) /\ Tail(stack') = Tail(stack)
<1> DEFINE used == Linked \cup {stack[i].tp : i \in {j \in DOMAIN stack : stack[j].fn = "add"}}
           new == CHOOSE n \in Node \ used : TRUE
           tp == IF free # <<>> THEN Head(free) ELSE new
           g == [Top EXCEPT !.pc = "fill", !.tp = tp]
<1>1. /\ Running("add") /\ (free # <<>> \/ Node \ used # {}) /\ stack' = <<g>> \o Tail(stack)
  BY DEF AddTake, Adding
<1>2. TypeOK /\ GoodStack(stack) /\ Top \in AddFrame /\ Top.fn = "add"
  BY <1>1, AddingTop
<1>3. free # <<>> => Head(free) = free[1] /\ Head(free) \in Node
  <2>1. free \in Seq(Node)
    BY <1>2 DEF TypeOK
  <2>2. QED
    BY <2>1, Pop
<1>4. Node \ used # {} => new \in Node \ Linked
  <2>1. Node \ used # {} => new \in Node \ used
    BY Zenon
  <2>2. QED
    BY <2>1
<1> HIDE DEF used, new
<1>5. tp \in Node /\ IF free # <<>> THEN tp = free[1] ELSE tp \in Node \ Linked
  BY <1>1, <1>3, <1>4
<1> HIDE DEF tp
<1>6. g \in Frame /\ g.pc = "fill" /\ g.fn = "add" /\ g.tp = tp /\ g.handle = Top.handle
  <2>1. g \in AddFrame /\ g.pc = "fill" /\ g.fn = "add" /\ g.tp = tp /\ g.handle = Top.handle
    BY <1>2, <1>5 DEF AddFrame
  <2> HIDE DEF g
  <2>2. QED
    BY <2>1, Kinds
<1> HIDE DEF g
<1>7. /\ GoodStack(stack') /\ Top' = g /\ ToSet(stack') = {g} \cup ToSet(Tail(stack))
      /\ Tail(stack') = Tail(stack)
  BY <1>1, <1>2, <1>5, <1>6, Goes DEF GoodFrame
<1>8. QED
  BY <1>5, <1>6, <1>7

(* A step that has a new top, which is not sigalrm. *)
LEMMA TypedNewTop ==
    ASSUME Typed, TypeOK', GoodStack(stack'), ToSet(stack') \subseteq {Top'} \cup ToSet(stack),
           time_state' \in FlagsOf(Top'), added' = added, Top'.fn # "sigalrm",
           Top'.fn = "add" /\ Top'.pc \in {"take", "fill"} => added < MaxAdd
    PROVE  Typed'
<1>1. Room'
  BY DEF Typed, Room
<1>2. QED
  BY <1>1 DEF Typed, Flags, NextRuns

LEMMA TypedAddTake ==
    ASSUME Typed, AddTake
    PROVE  Typed'
<1>1. /\ Running("add") /\ Top.pc = "take"
      /\ UNCHANGED <<now, alarm, sigalrmset, timer, list, free, tpmin, time_state, left, handle,
                     added, lapse>>
  BY DEF AddTake, Adding
<1>2. /\ TypeOK /\ Top.fn = "add" /\ ToSet(stack) = {Top} \cup ToSet(Tail(stack))
  BY <1>1, AddingTop
<1>3. /\ GoodStack(stack') /\ Top'.fn = "add" /\ Top'.pc = "fill"
      /\ ToSet(stack') = {Top'} \cup ToSet(Tail(stack))
  BY AddTakeTop
<1>4. TypeOK'
  <2>1. stack' \in Seq(Frame) /\ stack' # <<>>
    BY <1>3, StackType
  <2>2. QED
    BY <1>1, <1>2, <2>1 DEF TypeOK
<1>5. time_state \in FlagsOf(Top) /\ added < MaxAdd
  BY <1>1, <1>2 DEF Typed, Flags, Room
<1>6. time_state' \in FlagsOf(Top')
  BY <1>1, <1>2, <1>3, <1>5 DEF FlagsOf
<1>7. QED
  BY <1>1, <1>2, <1>3, <1>4, <1>5, <1>6, TypedNewTop

(* What is left of the free timers. *)
LEMMA PoppedType ==
    ASSUME TypeOK, NEW tp
    PROVE  /\ Popped(tp) \in Seq(Node) /\ ToSet(Popped(tp)) \subseteq ToSet(free)
           /\ IsInjective(free) => IsInjective(Popped(tp)) /\ tp \notin ToSet(Popped(tp))
<1> DEFINE at == {i \in DOMAIN free : free[i] = tp}
           k == CHOOSE i \in at : TRUE
<1>1. free \in Seq(Node) /\ Len(free) \in Nat /\ DOMAIN free = 1..Len(free)
  BY DEF TypeOK
<1>2. CASE at = {}
  <2>1. Popped(tp) = free
    BY <1>2 DEF Popped
  <2>2. tp \notin ToSet(free)
    BY <1>2 DEF ToSet
  <2>3. QED
    BY <1>1, <2>1, <2>2
<1>3. CASE at # {}
  <2> DEFINE t == SubSeq(free, k + 1, Len(free))
  <2>1. Popped(tp) = t
    BY <1>3 DEF Popped
  <2>2. k \in at
    <3> HIDE DEF at
    <3>1. QED
      BY <1>3
  <2>3. k \in 1..Len(free) /\ free[k] = tp
    BY <1>1, <2>2
  <2> HIDE DEF k, at
  <2>4. k + 1 \in 1..Len(free) + 1
    BY <1>1, <2>3
  <2>5. /\ t \in Seq(Node) /\ Len(t) = Len(free) - (k + 1) + 1 /\ DOMAIN t = 1..Len(free) - (k + 1) + 1
        /\ \A i \in DOMAIN t : i + (k + 1) - 1 \in DOMAIN free /\ t[i] = free[i + (k + 1) - 1]
    BY <1>1, <2>4, Sub
  <2> HIDE DEF t
  <2>6. DOMAIN t = 1..Len(free) - k /\ \A i \in DOMAIN t : i + k \in DOMAIN free /\ t[i] = free[i + k]
    BY <1>1, <2>3, <2>5
  <2>7. ToSet(t) \subseteq ToSet(free)
    BY <2>6 DEF ToSet
  <2>8. ASSUME IsInjective(free)
        PROVE  IsInjective(t) /\ tp \notin ToSet(t)
    <3>1. \A i, j \in DOMAIN free : free[i] = free[j] => i = j
      BY <2>8 DEF IsInjective
    <3>2. ASSUME NEW i \in DOMAIN t, NEW j \in DOMAIN t, t[i] = t[j]
          PROVE  i = j
      <4>1. i + k = j + k
        BY <2>6, <3>1, <3>2
      <4>2. QED
        BY <1>1, <2>3, <2>6, <4>1
    <3>3. ASSUME NEW i \in DOMAIN t, t[i] = tp
          PROVE  FALSE
      <4>1. i + k = k
        BY <1>1, <2>3, <2>6, <3>1, <3>3
      <4>2. QED
        BY <1>1, <2>3, <2>6, <4>1
    <3>4. QED
      BY <3>2, <3>3 DEF IsInjective, ToSet
  <2>9. QED
    BY <2>1, <2>5, <2>7, <2>8
<1>4. QED
  BY <1>2, <1>3

(* What linking a timer does. *)
First == tpmin = Nil \/ now + Top.delay < timer[tpmin].wakeup
LEMMA AddLinkDoes ==
    ASSUME Typed, AddLink
    PROVE  /\ Running("add") /\ Top.pc = "fill" /\ added < MaxAdd
           /\ GoodStack(stack') /\ Top'.fn = "add" /\ Top'.pc = "linked" /\ Top'.tp = Top.tp
           /\ Top'.handle = Top.handle /\ Tail(stack') = Tail(stack)
           /\ ToSet(stack') = {Top'} \cup ToSet(Tail(stack))
           /\ Top.tp \in Node /\ timer'[Top.tp] \in Timer
           /\ timer'[Top.tp].wakeup = now + Top.delay
           /\ timer'[Top.tp].action = added + 1 /\ timer'[Top.tp].handle = Top.handle
           /\ timer' \in [Node -> Timer] /\ \A n \in Node : n # Top.tp => timer'[n] = timer[n]
           /\ list' = <<Top.tp>> \o list /\ list' \in Seq(Node) /\ Linked' = {Top.tp} \cup Linked
           /\ free' = Popped(Top.tp)
           /\ time_state' \in {{"IN_ADDTIMEOUT"}, {"IN_ADDTIMEOUT", "DEFER_SIGALRM"}}
           /\ ~ First /\ timer[tpmin].action = 0 => "DEFER_SIGALRM" \in time_state'
           /\ First => tpmin' = Top.tp /\ alarm' = now + Top.delay /\ sigalrmset' = TRUE
           /\ ~ First => tpmin' = tpmin /\ alarm' = alarm /\ sigalrmset' = sigalrmset
           /\ added' = added + 1 /\ now' = now /\ left' = left /\ handle' = handle /\ lapse' = lapse
<1>1. /\ Running("add") /\ Top.pc = "fill" /\ stack' = At("linked")
      /\ added' = added + 1 /\ free' = Popped(Top.tp)
      /\ timer' = [timer EXCEPT ![Top.tp] =
                      [wakeup |-> now + Top.delay, incr |-> IF Top.repeat THEN Top.delay ELSE 0,
                       action |-> added + 1, handle |-> Top.handle]]
      /\ list' = <<Top.tp>> \o list
      /\ time_state' = time_state \cup {"IN_ADDTIMEOUT"}
                         \cup (IF ~ First /\ timer[tpmin].action = 0 THEN {"DEFER_SIGALRM"} ELSE {})
      /\ IF First THEN tpmin' = Top.tp /\ alarm' = now + Top.delay /\ sigalrmset' = TRUE
                  ELSE UNCHANGED <<tpmin, alarm, sigalrmset>>
      /\ UNCHANGED <<now, left, handle, lapse>>
  BY Zenon DEF AddLink, Adding, First
<1>2. /\ TypeOK /\ Top \in AddFrame /\ Top.fn = "add" /\ Top.tp \in Node /\ Top.handle \in Client
      /\ Top.delay \in Delay /\ Top.delay \in Nat /\ ToSet(stack) = {Top} \cup ToSet(Tail(stack))
  BY <1>1, AddingTop
<1>3. added < MaxAdd
  BY <1>1, <1>2 DEF Typed, Room
<1>4. /\ GoodStack(stack') /\ Top'.fn = "add" /\ Top'.pc = "linked" /\ Top'.tp = Top.tp
      /\ Top'.handle = Top.handle /\ Tail(stack') = Tail(stack)
      /\ ToSet(stack') = {Top'} \cup ToSet(Tail(stack))
  BY <1>1, AddGoes
<1> DEFINE t == [wakeup |-> now + Top.delay, incr |-> IF Top.repeat THEN Top.delay ELSE 0,
                 action |-> added + 1, handle |-> Top.handle]
<1>5. t \in Timer /\ t.wakeup = now + Top.delay /\ t.action = added + 1 /\ t.handle = Top.handle
  <2>1. now \in Nat /\ added \in Nat /\ added + 1 \in Id
    BY <1>2, <1>3, Numbers DEF TypeOK, Time, Id
  <2>2. QED
    BY <1>2, <2>1 DEF Timer
<1>6. timer' = [timer EXCEPT ![Top.tp] = t]
  BY <1>1
<1> HIDE DEF t
<1>7. /\ timer' \in [Node -> Timer] /\ timer'[Top.tp] = t
      /\ \A n \in Node : n # Top.tp => timer'[n] = timer[n]
  BY <1>2, <1>5, <1>6 DEF TypeOK
<1>8. list' \in Seq(Node) /\ Linked' = {Top.tp} \cup Linked
  <2>1. list \in Seq(Node)
    BY <1>2 DEF TypeOK
  <2>2. list' \in Seq(Node)
    BY <1>1, <1>2, <2>1, Push
  <2>3. QED
    BY <1>1, <1>2, <2>1, <2>2, Fronted DEF Linked
<1>9. time_state = {}
  BY <1>1, <1>2 DEF Typed, Flags, FlagsOf
<1>10. /\ time_state' \in {{"IN_ADDTIMEOUT"}, {"IN_ADDTIMEOUT", "DEFER_SIGALRM"}}
       /\ ~ First /\ timer[tpmin].action = 0 => "DEFER_SIGALRM" \in time_state'
  BY <1>1, <1>9
<1>11. QED
  BY <1>1, <1>2, <1>3, <1>4, <1>5, <1>7, <1>8, <1>10

LEMMA TypedAddLink ==
    ASSUME Typed, AddLink
    PROVE  Typed'
<1>1. /\ Running("add") /\ added < MaxAdd
      /\ GoodStack(stack') /\ Top'.fn = "add" /\ Top'.pc = "linked"
      /\ ToSet(stack') = {Top'} \cup ToSet(Tail(stack)) /\ Top.tp \in Node
      /\ timer' \in [Node -> Timer] /\ list' \in Seq(Node) /\ free' = Popped(Top.tp)
      /\ time_state' \in {{"IN_ADDTIMEOUT"}, {"IN_ADDTIMEOUT", "DEFER_SIGALRM"}}
      /\ First => tpmin' = Top.tp /\ alarm' = now + Top.delay /\ sigalrmset' = TRUE
      /\ ~ First => tpmin' = tpmin /\ alarm' = alarm /\ sigalrmset' = sigalrmset
      /\ added' = added + 1 /\ now' = now /\ left' = left /\ handle' = handle /\ lapse' = lapse
  BY AddLinkDoes
<1>2. TypeOK /\ Top.delay \in Nat /\ \A f \in ToSet(Tail(stack)) : f.fn # "add"
  BY <1>1, AddingTop
<1>3. TypeOK'
  <2>1. stack' \in Seq(Frame) /\ stack' # <<>>
    BY <1>1, StackType
  <2>2. free' \in Seq(Node)
    BY <1>1, <1>2, PoppedType
  <2>3. tpmin' \in Node \cup {Nil} /\ alarm' \in Nat /\ sigalrmset' \in BOOLEAN
    <3>1. now \in Nat
      BY <1>2, Numbers DEF TypeOK, Time
    <3>2. tpmin \in Node \cup {Nil} /\ alarm \in Nat /\ sigalrmset \in BOOLEAN
      BY <1>2 DEF TypeOK
    <3>3. CASE First
      BY <1>1, <1>2, <3>1, <3>3
    <3>4. CASE ~ First
      BY <1>1, <3>2, <3>4
    <3>5. QED
      BY <3>3, <3>4
  <2>4. added' \in 0..MaxAdd
    BY <1>1, <1>2, Numbers DEF TypeOK
  <2>5. QED
    BY <1>1, <1>2, <2>1, <2>2, <2>3, <2>4 DEF TypeOK
<1>4. Room'
  BY <1>1, <1>2 DEF Room
<1>5. QED
  BY <1>1, <1>3, <1>4 DEF Typed, Flags, FlagsOf, NextRuns

LEMMA TypedAddLinked ==
    ASSUME Typed, AddLinked
    PROVE  Typed'
<1> DEFINE pc == IF Deferred THEN "call" ELSE "return"
<1>1. /\ Running("add") /\ Top.pc = "linked" /\ stack' = At(pc)
      /\ time_state' = IF Deferred THEN {"SIGALRM_CALL"} ELSE time_state \ {"IN_ADDTIMEOUT"}
      /\ UNCHANGED <<now, alarm, sigalrmset, timer, list, free, tpmin, left, handle, added, lapse>>
  BY DEF AddLinked, Adding
<1>2. /\ TypeOK /\ Top.fn = "add" /\ ToSet(stack) = {Top} \cup ToSet(Tail(stack))
  BY <1>1, AddingTop
<1>3. pc = IF Deferred THEN "call" ELSE "return"
  OBVIOUS
<1> HIDE DEF pc
<1>4. /\ GoodStack(stack') /\ Top'.fn = "add" /\ Top'.pc = pc
      /\ ToSet(stack') = {Top'} \cup ToSet(Tail(stack))
  BY <1>1, <1>3, AddGoes
<1>5. time_state \in {{"IN_ADDTIMEOUT"}, {"IN_ADDTIMEOUT", "DEFER_SIGALRM"}}
  BY <1>1, <1>2 DEF Typed, Flags, FlagsOf
<1>6. time_state' \in FlagsOf(Top')
  BY <1>1, <1>3, <1>4, <1>5 DEF FlagsOf, Deferred
<1>7. TypeOK'
  <2>1. stack' \in Seq(Frame) /\ stack' # <<>>
    BY <1>4, StackType
  <2>2. time_state' \subseteq {"IN_ADDTIMEOUT", "IN_SIGALRM", "DEFER_SIGALRM", "SIGALRM_CALL"}
    BY <1>1, <1>5
  <2>3. QED
    BY <1>1, <1>2, <2>1, <2>2 DEF TypeOK
<1>8. QED
  BY <1>1, <1>2, <1>3, <1>4, <1>6, <1>7, TypedNewTop

(* The handler that sh_timeradd calls itself. *)
LEMMA AddCallDoes ==
    ASSUME Typed, AddCall
    PROVE  /\ Running("add") /\ Top.pc = "call" /\ left' = 0 /\ time_state' = {"IN_SIGALRM"}
           /\ GoodStack(stack') /\ Top'.fn = "sigalrm" /\ Top'.pc = "scan"
           /\ alarm' \in {alarm, 0}
           /\ GoodStack(Tail(stack')) /\ Tail(stack')[1].fn = "add" /\ Tail(Tail(stack')) = Tail(stack)
           /\ \E g \in Frame : /\ g.fn = "add" /\ g.pc = "called" /\ g.tp = Top.tp
                               /\ g.handle = Top.handle
                               /\ ToSet(stack') = {Top', g} \cup ToSet(Tail(stack))
           /\ UNCHANGED <<now, sigalrmset, timer, list, free, tpmin, handle, added, lapse>>
<1> DEFINE g == [Top EXCEPT !.pc = "called"]
           k == <<g>> \o Tail(stack)
<1>1. /\ Running("add") /\ Top.pc = "call" /\ Enter(k) /\ alarm' \in {alarm, 0}
      /\ UNCHANGED <<now, sigalrmset, timer, list, free, tpmin, handle, added, lapse>>
  BY DEF AddCall, Adding, At
<1>2. /\ TypeOK /\ GoodStack(stack) /\ Top \in AddFrame /\ Top.fn = "add" /\ Top.tp \in Node
  BY <1>1, AddingTop
<1>3. g \in AddFrame /\ g.pc = "called" /\ g.fn = "add" /\ g.tp = Top.tp /\ g.handle = Top.handle
  BY <1>2 DEF AddFrame
<1> HIDE DEF g
<1>4. g \in Frame /\ GoodFrame(g) /\ g.fn = stack[1].fn
  BY <1>2, <1>3, Kinds, TopFacts DEF GoodFrame
<1>5. /\ GoodStack(k) /\ k[1] = g /\ ToSet(k) = {g} \cup ToSet(Tail(stack)) /\ Tail(k) = Tail(stack)
  BY <1>2, <1>4, GoodReplace
<1> HIDE DEF k
<1>6. time_state \ {"SIGALRM_CALL"} = {}
  BY <1>1, <1>2 DEF Typed, Flags, FlagsOf
<1>7. /\ left' = 0 /\ time_state' = {"IN_SIGALRM"} /\ Tail(stack') = k
      /\ stack'[1] = [fn |-> "sigalrm", pc |-> "scan", tp |-> Nil]
      /\ ToSet(stack') = {stack'[1]} \cup ToSet(k) /\ GoodStack(stack')
  BY <1>1, <1>2, <1>3, <1>5, <1>6, Entered
<1>8. Top' = stack'[1]
  BY <1>7, GoodTop DEF Top
<1>9. ToSet(stack') = {Top', g} \cup ToSet(Tail(stack))
  BY <1>5, <1>7, <1>8
<1>10. \E h \in Frame : /\ h.fn = "add" /\ h.pc = "called" /\ h.tp = Top.tp /\ h.handle = Top.handle
                        /\ ToSet(stack') = {Top', h} \cup ToSet(Tail(stack))
  BY <1>3, <1>4, <1>9
<1>11. Top'.fn = "sigalrm" /\ Top'.pc = "scan"
  BY <1>7, <1>8
<1>12. QED
  BY <1>1, <1>3, <1>5, <1>7, <1>10, <1>11

LEMMA TypedAddCall ==
    ASSUME Typed, AddCall
    PROVE  Typed'
<1>1. /\ Running("add") /\ left' = 0 /\ time_state' = {"IN_SIGALRM"}
      /\ GoodStack(stack') /\ Top'.fn = "sigalrm" /\ Top'.pc = "scan" /\ alarm' \in {alarm, 0}
      /\ UNCHANGED <<now, sigalrmset, timer, list, free, tpmin, handle, added, lapse>>
  BY AddCallDoes
<1>2. PICK g \in Frame : g.pc = "called" /\ ToSet(stack') = {Top', g} \cup ToSet(Tail(stack))
  BY AddCallDoes
<1>3. TypeOK /\ ToSet(stack) = {Top} \cup ToSet(Tail(stack))
  BY <1>1, AddingTop
<1>4. TypeOK'
  <2>1. stack' \in Seq(Frame) /\ stack' # <<>>
    BY <1>1, StackType
  <2>2. alarm' \in Nat
    BY <1>1, <1>3 DEF TypeOK
  <2>3. QED
    BY <1>1, <1>3, <2>1, <2>2 DEF TypeOK
<1>5. Room'
  BY <1>1, <1>2, <1>3 DEF Typed, Room
<1>6. QED
  BY <1>1, <1>4, <1>5 DEF Typed, Flags, FlagsOf, NextRuns

LEMMA TypedAddReturn ==
    ASSUME Typed, AddReturn
    PROVE  Typed'
<1>1. /\ Running("add") /\ Top.pc \in {"return", "called"} /\ stack' = Tail(stack)
      /\ UNCHANGED <<now, alarm, sigalrmset, timer, list, free, tpmin, time_state, left, added>>
  BY DEF AddReturn, Adding
<1>2. /\ TypeOK /\ GoodStack(stack) /\ Top.fn = "add" /\ Top.tp \in Node /\ Top.handle \in Client
  BY <1>1, AddingTop
<1>3. GoodStack(stack') /\ Above(Top, Top')
  BY <1>1, <1>2, Ends
<1>4. handle' \in [Client -> Node \cup {Nil}]
  <2> DEFINE tp == IF Top.pc = "called" /\ Top.tp # Head(list \o <<Nil>>) THEN Nil ELSE Top.tp
  <2>1. handle' = [handle EXCEPT ![Top.handle] = tp]
    BY DEF AddReturn
  <2>2. tp \in Node \cup {Nil}
    BY <1>2
  <2> HIDE DEF tp
  <2>3. QED
    BY <1>2, <2>1, <2>2 DEF TypeOK
<1>5. lapse' \in {lapse, lapse \cup {"stale"}}
  BY DEF AddReturn
<1>6. TypeOK'
  <2>1. stack' \in Seq(Frame) /\ stack' # <<>>
    BY <1>3, StackType
  <2>2. QED
    BY <1>1, <1>2, <1>4, <1>5, <2>1 DEF TypeOK
<1>7. time_state' \in FlagsOf(Top')
  <2>1. time_state = {}
    BY <1>1, <1>2 DEF Typed, Flags, FlagsOf
  <2>2. Top'.fn \in {"main", "action"}
    BY <1>2, <1>3 DEF Above
  <2>3. QED
    BY <1>1, <2>1, <2>2 DEF FlagsOf
<1>8. QED
  BY <1>1, <1>2, <1>6, <1>7, TypedEnds

--------------------------------------------------------------------------------
(* The steps of the users. *)

(* No timer is being added while a user may add one. *)
LEMMA UserRuns ==
    ASSUME Typed, Idle \/ InFunction
    PROVE  /\ TypeOK /\ GoodStack(stack) /\ ~ Due /\ Top = stack[1] /\ time_state = {}
           /\ ~ Has(stack, "add") /\ Top.fn \in {"main", "action"}
           /\ Top.fn = "main" => Idle /\ stack = <<Top>> /\ Top.pc = "idle"
           /\ Top.fn = "action" => InFunction /\ \A f \in ToSet(Tail(stack)) : f.fn # "action"
<1>1. TypeOK /\ GoodStack(stack) /\ ~ Due /\ Top = stack[1]
  BY TopFacts DEF Typed, Idle, InFunction, Running
<1>2. CASE Idle
  <2>1. Top.fn = "main" /\ Top.pc = "idle" /\ time_state = {}
    BY <1>2 DEF Idle, Running, Typed, Flags, FlagsOf
  <2>2. stack = <<Top>> /\ ToSet(Tail(stack)) = {} /\ ToSet(stack) = {Top} \cup ToSet(Tail(stack))
    BY <1>1, <2>1, GoodPop
  <2>3. ~ Has(stack, "add")
    BY <2>1, <2>2 DEF Has
  <2>4. QED
    BY <1>1, <1>2, <2>1, <2>2, <2>3
<1>3. CASE InFunction
  <2>1. Top.fn = "action" /\ \A i \in 2..Len(stack) : stack[i].fn \notin {"action", "add"}
    BY <1>3 DEF InFunction, Running
  <2>2. time_state = {}
    BY <2>1 DEF Typed, Flags, FlagsOf
  <2>3. ToSet(stack) = {Top} \cup ToSet(Tail(stack))
    BY <1>1, GoodPop
  <2>4. \A f \in ToSet(Tail(stack)) : f.fn \notin {"action", "add"}
    <3>1. /\ DOMAIN Tail(stack) = 1..Len(stack) - 1 /\ Len(stack) \in Nat
          /\ \A i \in 1..Len(stack) - 1 : Tail(stack)[i] = stack[i + 1]
      BY <1>1, GoodTop
    <3>2. \A i \in 1..Len(stack) - 1 : i + 1 \in 2..Len(stack)
      BY <3>1
    <3>3. QED
      BY <2>1, <3>1, <3>2 DEF ToSet
  <2>5. ~ Has(stack, "add")
    BY <2>1, <2>3, <2>4 DEF Has
  <2>6. QED
    BY <1>1, <1>3, <2>1, <2>2, <2>4, <2>5
<1>4. QED
  BY <1>2, <1>3

(* A timer is deleted by clearing its action. *)
LEMMA DeletedDoes ==
    ASSUME TypeOK, NEW c \in Client
    PROVE  /\ Deleted(c) \in [Node -> Timer]
           /\ \A n \in Node : /\ Deleted(c)[n].wakeup = timer[n].wakeup
                              /\ Deleted(c)[n].handle = timer[n].handle
                              /\ Deleted(c)[n].action = IF n = handle[c] THEN 0 ELSE timer[n].action
<1>1. handle[c] \in Node \cup {Nil} /\ timer \in [Node -> Timer] /\ Nil \notin Node
  BY Numbers DEF TypeOK
<1>2. CASE handle[c] = Nil
  BY <1>1, <1>2 DEF Deleted
<1>3. CASE handle[c] # Nil
  <2>1. Deleted(c) = [timer EXCEPT ![handle[c]].action = 0]
    BY <1>3 DEF Deleted
  <2>2. handle[c] \in Node /\ timer[handle[c]] \in Timer
    BY <1>1, <1>3
  <2>3. /\ [timer[handle[c]] EXCEPT !.action = 0] \in Timer
        /\ [timer[handle[c]] EXCEPT !.action = 0].action = 0
        /\ [timer[handle[c]] EXCEPT !.action = 0].wakeup = timer[handle[c]].wakeup
        /\ [timer[handle[c]] EXCEPT !.action = 0].handle = timer[handle[c]].handle
    BY <2>2 DEF Timer
  <2>4. QED
    BY <1>1, <2>1, <2>2, <2>3
<1>4. QED
  BY <1>2, <1>3

LEMMA SetAlarmDoes ==
    ASSUME Typed, NEW c \in Alarm, NEW t \in Delay, NEW repeat \in BOOLEAN, SetAlarm(c, t, repeat)
    PROVE  /\ Idle \/ InFunction
           /\ GoodStack(stack') /\ Top' = Add(c, t, repeat) /\ Tail(stack') = stack
           /\ ToSet(stack') = {Top'} \cup ToSet(stack) /\ Len(stack') = Len(stack) + 1
           /\ added < MaxAdd /\ timer' = Deleted(c) /\ lapse' = Orphaned(c)
           /\ UNCHANGED <<now, alarm, sigalrmset, list, free, tpmin, time_state, left, handle, added>>
<1>1. /\ Idle \/ InFunction
      /\ added < MaxAdd /\ timer' = Deleted(c) /\ lapse' = Orphaned(c)
      /\ stack' = <<Add(c, t, repeat)>> \o stack
      /\ UNCHANGED <<now, alarm, sigalrmset, list, free, tpmin, time_state, left, handle, added>>
  BY DEF SetAlarm
<1>2. /\ GoodStack(stack) /\ Top = stack[1] /\ ~ Has(stack, "add") /\ Top.fn \in {"main", "action"}
  BY <1>1, UserRuns
<1> DEFINE f == Add(c, t, repeat)
<1>3. f \in AddFrame /\ f.fn = "add" /\ f.pc = "take"
  BY DEF AddFrame, Add, Client
<1> HIDE DEF f
<1>4. f \in Frame /\ GoodFrame(f) /\ Above(f, stack[1])
  BY <1>2, <1>3, Kinds DEF GoodFrame, Above
<1>5. /\ GoodStack(stack') /\ stack'[1] = f /\ Tail(stack') = stack /\ Len(stack') = Len(stack) + 1
      /\ ToSet(stack') = {f} \cup ToSet(stack)
  <2>1. stack' = <<f>> \o stack
    BY <1>1 DEF f
  <2>2. QED
    BY <1>2, <1>3, <1>4, <2>1, GoodPush
<1>6. Top' = f
  BY <1>5, GoodTop DEF Top
<1>7. QED
  BY <1>1, <1>5, <1>6 DEF f

LEMMA TypedSetAlarm ==
    ASSUME Typed, NEW c \in Alarm, NEW t \in Delay, NEW repeat \in BOOLEAN, SetAlarm(c, t, repeat)
    PROVE  Typed'
<1>1. /\ Idle \/ InFunction
      /\ GoodStack(stack') /\ Top' = Add(c, t, repeat)
      /\ ToSet(stack') = {Top'} \cup ToSet(stack)
      /\ added < MaxAdd /\ timer' = Deleted(c) /\ lapse' = Orphaned(c)
      /\ UNCHANGED <<now, alarm, sigalrmset, list, free, tpmin, time_state, left, handle, added>>
  BY SetAlarmDoes
<1>2. TypeOK /\ time_state = {} /\ c \in Client
  BY <1>1, UserRuns DEF Client
<1>3. TypeOK'
  <2>1. stack' \in Seq(Frame) /\ stack' # <<>>
    BY <1>1, StackType
  <2>2. timer' \in [Node -> Timer] /\ lapse' \in {lapse, lapse \cup {"orphan"}}
    BY <1>1, <1>2, DeletedDoes DEF Orphaned
  <2>3. QED
    BY <1>1, <1>2, <2>1, <2>2 DEF TypeOK
<1>4. Top'.fn = "add" /\ Top'.pc = "take"
  BY <1>1 DEF Add
<1>5. time_state' \in FlagsOf(Top')
  BY <1>1, <1>2, <1>4 DEF FlagsOf
<1>6. QED
  BY <1>1, <1>3, <1>4, <1>5, TypedNewTop

LEMMA TypedUnsetAlarm ==
    ASSUME Typed, NEW c \in Alarm, UnsetAlarm(c)
    PROVE  Typed'
<1>1. /\ Idle \/ InFunction
      /\ timer' = Deleted(c) /\ handle' = [handle EXCEPT ![c] = Nil] /\ lapse' = Orphaned(c)
      /\ UNCHANGED <<now, alarm, sigalrmset, list, free, tpmin, time_state, left, stack, added>>
  BY DEF UnsetAlarm
<1>2. TypeOK /\ c \in Client /\ GoodStack(stack) /\ Top.fn # "sigalrm"
  BY <1>1, UserRuns DEF Client
<1>3. TypeOK'
  <2>1. timer' \in [Node -> Timer] /\ lapse' \in {lapse, lapse \cup {"orphan"}}
    BY <1>1, <1>2, DeletedDoes DEF Orphaned
  <2>2. handle' \in [Client -> Node \cup {Nil}]
    BY <1>1, <1>2 DEF TypeOK
  <2>3. QED
    BY <1>1, <1>2, <2>1, <2>2 DEF TypeOK
<1>4. Flags' /\ Room' /\ NextRuns' /\ GoodStack(stack')
  BY <1>1, <1>2 DEF Typed, Flags, Room, NextRuns, Top
<1>5. QED
  BY <1>3, <1>4 DEF Typed

(* A read waits, with or without a timer that it adds first. *)
LEMMA ReadDoes ==
    ASSUME Typed, Read
    PROVE  /\ Idle /\ GoodStack(stack')
           /\ \/ stack' = <<Top'>> /\ Top'.fn = "main" /\ Top'.pc = "wait"
              \/ \E t \in Delay, g \in MainFrame :
                    /\ Top' = Add("read", t, FALSE) /\ added < MaxAdd
                    /\ g.fn = "main" /\ g.pc = "wait" /\ Tail(stack') = <<g>>
                    /\ ToSet(stack') = {Top', g}
           /\ UNCHANGED <<now, alarm, sigalrmset, timer, list, free, tpmin, time_state, left, handle,
                          added, lapse>>
<1> DEFINE g == [Top EXCEPT !.pc = "wait"]
<1>1. /\ Idle
      /\ \/ stack' = At("wait")
         \/ added < MaxAdd /\ \E t \in Delay : stack' = <<Add("read", t, FALSE)>> \o At("wait")
      /\ UNCHANGED <<now, alarm, sigalrmset, timer, list, free, tpmin, time_state, left, handle,
                     added, lapse>>
  BY DEF Read
<1>2. TypeOK /\ GoodStack(stack) /\ stack = <<Top>> /\ Top.fn = "main"
  <2>1. Top.fn = "main"
    BY <1>1 DEF Idle, Running
  <2>2. QED
    BY <1>1, <2>1, UserRuns
<1>3. g \in MainFrame /\ g.fn = "main" /\ g.pc = "wait"
  <2>1. Top \in MainFrame
    BY <1>2, TopFacts
  <2>2. QED
    BY <2>1 DEF MainFrame
<1>4. At("wait") = <<g>>
  <2>1. Tail(stack) = <<>> /\ At("wait") = <<g>> \o Tail(stack)
    BY <1>2 DEF At
  <2> HIDE DEF g
  <2>2. <<g>> \o <<>> = <<g>>
    BY <1>3
  <2>3. QED
    BY <2>1, <2>2, Zenon
<1> HIDE DEF g
<1>5. GoodStack(<<g>>) /\ <<g>>[1] = g /\ ToSet(<<g>>) = {g} /\ Len(<<g>>) = 1
  BY <1>3, GoodMain
<1>6. CASE stack' = At("wait")
  <2>1. Top' = g
    BY <1>4, <1>5, <1>6, GoodTop DEF Top
  <2>2. QED
    BY <1>1, <1>3, <1>4, <1>5, <1>6, <2>1
<1>7. ASSUME NEW t \in Delay, stack' = <<Add("read", t, FALSE)>> \o At("wait"), added < MaxAdd
      PROVE  /\ GoodStack(stack') /\ Top' = Add("read", t, FALSE) /\ Tail(stack') = <<g>>
             /\ ToSet(stack') = {Top', g}
  <2> DEFINE f == Add("read", t, FALSE)
             s == <<g>>
  <2>1. f \in AddFrame /\ f.fn = "add" /\ f.pc = "take"
    BY DEF AddFrame, Add, Client
  <2>2. stack' = <<f>> \o s
    BY <1>4, <1>7
  <2>3. GoodStack(s) /\ s[1] = g /\ ToSet(s) = {g}
    BY <1>5
  <2> HIDE DEF f, s
  <2>4. f \in Frame /\ GoodFrame(f) /\ Above(f, s[1]) /\ ~ Has(s, "add")
    BY <1>3, <2>1, <2>3, Kinds DEF GoodFrame, Above, Has
  <2>5. /\ GoodStack(stack') /\ stack'[1] = f /\ Tail(stack') = s /\ ToSet(stack') = {f} \cup ToSet(s)
    BY <2>1, <2>2, <2>3, <2>4, GoodPush
  <2>6. Top' = f
    BY <2>5, GoodTop DEF Top
  <2>7. QED
    BY <2>3, <2>5, <2>6 DEF f, s
<1>8. QED
  BY <1>1, <1>3, <1>6, <1>7

LEMMA TypedRead ==
    ASSUME Typed, Read
    PROVE  Typed'
<1>1. /\ Idle /\ GoodStack(stack')
      /\ UNCHANGED <<now, alarm, sigalrmset, timer, list, free, tpmin, time_state, left, handle,
                     added, lapse>>
  BY ReadDoes
<1>2. TypeOK /\ time_state = {}
  BY <1>1, UserRuns
<1>3. TypeOK'
  <2>1. stack' \in Seq(Frame) /\ stack' # <<>>
    BY <1>1, StackType
  <2>2. QED
    BY <1>1, <1>2, <2>1 DEF TypeOK
<1>4. CASE stack' = <<Top'>> /\ Top'.fn = "main" /\ Top'.pc = "wait"
  <2>1. ToSet(stack') = {Top'}
    <3>1. ToSet(stack') = {stack'[1]} \cup ToSet(Tail(stack')) /\ stack'[1] = Top' /\ Tail(stack') = <<>>
      BY <1>1, <1>4, GoodPop, GoodTop DEF Top
    <3>2. QED
      BY <3>1 DEF ToSet
  <2>2. QED
    BY <1>1, <1>2, <1>3, <1>4, <2>1 DEF Typed, Flags, FlagsOf, Room, NextRuns
<1>5. CASE \E t \in Delay, g \in MainFrame :
              /\ Top' = Add("read", t, FALSE) /\ added < MaxAdd
              /\ g.fn = "main" /\ g.pc = "wait" /\ ToSet(stack') = {Top', g}
  <2>1. Top'.fn = "add" /\ Top'.pc = "take"
    BY <1>5 DEF Add
  <2>2. QED
    BY <1>1, <1>2, <1>3, <1>5, <2>1 DEF Typed, Flags, FlagsOf, Room, NextRuns
<1>6. QED
  BY <1>4, <1>5, ReadDoes

LEMMA ReadEndDoes ==
    ASSUME Typed, ReadEnd
    PROVE  /\ TypeOK /\ GoodStack(stack') /\ Top'.fn = "main" /\ Top'.pc = "idle" /\ stack' = <<Top'>>
           /\ ToSet(stack') = {Top'} /\ stack = <<Top>> /\ Top.fn = "main" /\ Top.pc = "wait" /\ ~ Due
           /\ timer' = Deleted("read") /\ handle' = [handle EXCEPT !["read"] = Nil]
           /\ UNCHANGED <<now, alarm, sigalrmset, list, free, tpmin, time_state, left, added, lapse>>
<1> DEFINE g == [Top EXCEPT !.pc = "idle"]
<1>1. /\ Top.fn = "main" /\ Top.pc = "wait" /\ GoodStack(stack) /\ TypeOK /\ Top = stack[1] /\ ~ Due
      /\ stack' = At("idle") /\ timer' = Deleted("read") /\ handle' = [handle EXCEPT !["read"] = Nil]
      /\ UNCHANGED <<now, alarm, sigalrmset, list, free, tpmin, time_state, left, added, lapse>>
  BY TopFacts DEF Typed, ReadEnd, Running
<1>2. stack = <<Top>> /\ Tail(stack) = <<>>
  BY <1>1, GoodPop
<1>3. g \in MainFrame /\ g.fn = "main" /\ g.pc = "idle"
  <2>1. Top \in MainFrame
    BY <1>1, TopFacts
  <2>2. QED
    BY <2>1 DEF MainFrame
<1>4. stack' = <<g>>
  BY <1>1, <1>2 DEF At
<1> HIDE DEF g
<1>5. GoodStack(stack') /\ stack'[1] = g /\ ToSet(stack') = {g}
  BY <1>3, <1>4, GoodMain
<1>6. Top' = g
  BY <1>5, GoodTop DEF Top
<1>7. QED
  BY <1>1, <1>2, <1>3, <1>4, <1>5, <1>6

LEMMA TypedReadEnd ==
    ASSUME Typed, ReadEnd
    PROVE  Typed'
<1>1. /\ TypeOK /\ GoodStack(stack') /\ Top'.fn = "main" /\ Top'.pc = "idle"
      /\ ToSet(stack') = {Top'} /\ Top.fn = "main" /\ Top.pc = "wait"
      /\ timer' = Deleted("read") /\ handle' = [handle EXCEPT !["read"] = Nil]
      /\ UNCHANGED <<now, alarm, sigalrmset, list, free, tpmin, time_state, left, added, lapse>>
  BY ReadEndDoes
<1>2. TypeOK'
  <2>1. stack' \in Seq(Frame) /\ stack' # <<>>
    BY <1>1, StackType
  <2>2. "read" \in Client
    BY DEF Client
  <2>3. timer' \in [Node -> Timer]
    BY <1>1, <2>2, DeletedDoes
  <2>4. handle' \in [Client -> Node \cup {Nil}]
    BY <1>1 DEF TypeOK
  <2>5. QED
    BY <1>1, <2>1, <2>3, <2>4 DEF TypeOK
<1>3. time_state = {}
  BY <1>1 DEF Typed, Flags, FlagsOf
<1>4. QED
  BY <1>1, <1>2, <1>3 DEF Typed, Flags, FlagsOf, Room, NextRuns

LEMMA TypedInit ==
    ASSUME Init
    PROVE  Typed /\ stack = <<Top>> /\ Linked = {}
<1> DEFINE f == [fn |-> "main", pc |-> "idle"]
<1>1. f \in MainFrame /\ stack = <<f>> /\ f.fn = "main" /\ f.pc = "idle"
  BY DEF MainFrame, Init
<1> HIDE DEF f
<1>2. GoodStack(stack) /\ stack[1] = f /\ ToSet(stack) = {f}
  BY <1>1, GoodMain
<1>3. Top = f
  BY <1>2, GoodTop DEF Top
<1>4. stack \in Seq(Frame) /\ stack # <<>>
  BY <1>2, StackType
<1>5. Unused \in Timer
  BY DEF Unused, Timer, Client
<1>6. TypeOK
  <2>1. timer \in [Node -> Timer] /\ handle \in [Client -> Node \cup {Nil}]
    BY <1>5 DEF Init
  <2>2. now \in Time /\ added \in 0..MaxAdd
    BY Numbers DEF Init, Time
  <2>3. list \in Seq(Node) /\ free \in Seq(Node)
    BY DEF Init
  <2>4. QED
    BY <1>4, <2>1, <2>2, <2>3 DEF Init, TypeOK, Nil
<1>7. Linked = {}
  BY DEF Init, Linked, ToSet
<1>8. QED
  BY <1>1, <1>2, <1>3, <1>6, <1>7 DEF Init, Typed, Flags, FlagsOf, Room, NextRuns

LEMMA TypedNext ==
    ASSUME Typed, [Next]_vars
    PROVE  Typed'
<1>1. CASE Tick
  BY <1>1, TypedTick
<1>2. CASE Signal
  BY <1>2, TypedSignal
<1>3. CASE Killed
  BY <1>3, TypedKilled
<1>4. CASE Scan
  BY <1>4, TypedScan
<1>5. CASE Run
  BY <1>5, TypedRun
<1>6. CASE ActionEnd
  BY <1>6, TypedActionEnd
<1>7. CASE Jump
  BY <1>7, TypedJump
<1>8. CASE End
  BY <1>8, TypedEnd
<1>9. CASE AddTake
  BY <1>9, TypedAddTake
<1>10. CASE AddLink
  BY <1>10, TypedAddLink
<1>11. CASE AddLinked
  BY <1>11, TypedAddLinked
<1>12. CASE AddCall
  BY <1>12, TypedAddCall
<1>13. CASE AddReturn
  BY <1>13, TypedAddReturn
<1>14. CASE \E c \in Alarm : UnsetAlarm(c)
  BY <1>14, TypedUnsetAlarm
<1>15. CASE \E c \in Alarm, t \in Delay, repeat \in BOOLEAN : SetAlarm(c, t, repeat)
  BY <1>15, TypedSetAlarm
<1>16. CASE Read
  BY <1>16, TypedRead
<1>17. CASE ReadEnd
  BY <1>17, TypedReadEnd
<1>18. CASE UNCHANGED vars
  <2>1. TypeOK'
    BY <1>18 DEF vars, Typed, TypeOK
  <2>2. QED
    BY <1>18, <2>1 DEF vars, Typed, Flags, Room, NextRuns, Live, Linked, Top
<1>19. QED
  BY <1>1, <1>2, <1>3, <1>4, <1>5, <1>6, <1>7, <1>8, <1>9, <1>10, <1>11, <1>12, <1>13, <1>14,
     <1>15, <1>16, <1>17, <1>18 DEF Next, Step

(* The state keeps its type: in particular every node that a list, a handle or a frame
   refers to is storage that sh_timeradd allocated, and sigalrm runs no deleted timer. *)
THEOREM TypeCorrect == Spec => []TypeOK
<1>1. Init => Typed
  BY TypedInit
<1>2. Typed /\ [Next]_vars => Typed'
  BY TypedNext
<1>3. Typed => TypeOK
  BY DEF Typed
<1>4. QED
  BY <1>1, <1>2, <1>3, PTL DEF Spec

--------------------------------------------------------------------------------
(* What the steps do to the frames. *)

(* A signal leaves the stack alone or has sigalrm on top of it. *)
LEMMA SignalDoes ==
    ASSUME Typed, Signal
    PROVE  /\ Due /\ sigalrmset /\ alarm' = 0 /\ left' = 0 /\ GoodStack(stack')
           /\ lapse' \in {lapse, lapse \cup {"drop"}}
           /\ Top.fn = "sigalrm" /\ Top.pc = "end" => "drop" \in lapse'
           /\ UNCHANGED <<now, sigalrmset, timer, list, free, tpmin, handle, added>>
           /\ \/ /\ stack' = stack /\ Top' = Top
                 /\ \/ Top.fn = "sigalrm"
                    \/ Top.fn = "add" /\ Top.pc = "linked" /\ "DEFER_SIGALRM" \in time_state'
                    \/ Top.fn = "main" /\ Top.pc = "dead"
              \/ /\ Top'.fn = "sigalrm" /\ Top'.pc = "scan" /\ Tail(stack') = stack
                 /\ ToSet(stack') = {Top'} \cup ToSet(stack)
<1>1. /\ Due /\ sigalrmset /\ Enter(stack) /\ alarm' = 0 /\ Top = stack[1] /\ GoodStack(stack) /\ TypeOK
      /\ Top \in Frame /\ lapse' \in {lapse, lapse \cup {"drop"}}
      /\ Top.fn = "sigalrm" /\ Top.pc = "end" => "drop" \in lapse'
      /\ UNCHANGED <<now, sigalrmset, timer, list, free, tpmin, handle, added>>
  BY TopFacts DEF Typed, Signal
<1>2. Top.fn = "sigalrm" => time_state \ {"SIGALRM_CALL"} # {}
  BY DEF Typed, Flags, FlagsOf
<1>3. Top.fn = "add" /\ Top.pc = "linked" =>
         "IN_ADDTIMEOUT" \in time_state /\ time_state \ {"SIGALRM_CALL"} # {}
  BY DEF Typed, Flags, FlagsOf
<1>4. /\ left' = 0 /\ GoodStack(stack')
      /\ time_state \ {"SIGALRM_CALL"} # {} =>
            /\ stack' = stack
            /\ time_state' = IF "IN_ADDTIMEOUT" \in time_state
                             THEN (time_state \ {"SIGALRM_CALL"}) \cup {"DEFER_SIGALRM"}
                             ELSE time_state \ {"SIGALRM_CALL"}
      /\ time_state \ {"SIGALRM_CALL"} = {} =>
            /\ Tail(stack') = stack
            /\ stack'[1] = [fn |-> "sigalrm", pc |-> "scan", tp |-> Nil]
            /\ ToSet(stack') = {stack'[1]} \cup ToSet(stack)
  <2>1. /\ stack[1].fn = "sigalrm" => time_state \ {"SIGALRM_CALL"} # {}
        /\ stack[1].fn = "add" /\ stack[1].pc = "linked" => time_state \ {"SIGALRM_CALL"} # {}
    BY <1>1, <1>2, <1>3
  <2>2. QED
    BY <1>1, <2>1, Entered
<1>5. CASE time_state \ {"SIGALRM_CALL"} = {}
  <2>1. Top' = stack'[1]
    BY <1>4, GoodTop DEF Top
  <2>2. QED
    BY <1>1, <1>4, <1>5, <2>1
<1>6. CASE time_state \ {"SIGALRM_CALL"} # {}
  <2>1. stack' = stack /\ Top' = Top
    BY <1>4, <1>6 DEF Top
  <2>2. Top.fn = "sigalrm" \/ (Top.fn = "add" /\ Top.pc = "linked") \/ (Top.fn = "main" /\ Top.pc = "dead")
    BY <1>6 DEF Typed, Flags, FlagsOf
  <2>3. QED
    BY <1>1, <1>3, <1>4, <1>6, <2>1, <2>2
<1>7. QED
  BY <1>5, <1>6

(* The steps other than those of sh_timeradd, SetAlarm and Read leave the calls of
   sh_timeradd alone, unless they jump over one. *)
Adds(s) == {f \in ToSet(s) : f.fn = "add"}
Plain == Tick \/ Signal \/ Killed \/ Scan \/ Run \/ ActionEnd \/ Jump \/ End
         \/ (\E c \in Alarm : UnsetAlarm(c)) \/ ReadEnd \/ UNCHANGED vars

LEMMA PlainAdds ==
    ASSUME Typed, Plain
    PROVE  /\ Adds(stack') \subseteq Adds(stack) /\ lapse \subseteq lapse'
           /\ lapse' \cap {"stale", "killed"} = {} => Adds(stack') = Adds(stack)
<1>0. TypeOK /\ GoodStack(stack) /\ ToSet(stack) = {Top} \cup ToSet(Tail(stack))
  BY TopFacts, GoodPop DEF Typed
<1>1. CASE stack' = stack /\ lapse \subseteq lapse'
  BY <1>1 DEF Adds
<1>2. CASE Signal
  BY <1>2, SignalDoes DEF Adds
<1>3. CASE Killed
  <2> DEFINE f == [fn |-> "main", pc |-> "dead"]
  <2>1. f \in MainFrame /\ f.fn = "main" /\ stack' = <<f>>
    BY <1>3 DEF MainFrame, Killed
  <2> HIDE DEF f
  <2>2. ToSet(stack') = {f}
    BY <2>1, GoodMain
  <2>3. QED
    BY <1>3, <2>1, <2>2 DEF Adds, Killed
<1>4. CASE Scan
  <2>1. PICK tp \in Node \cup {Nil}, min \in Node \cup {Nil} : Round(tp, min)
    BY <1>0, <1>4, ScanIsRound
  <2>2. ToSet(stack') = {Top'} \cup ToSet(Tail(stack)) /\ Top'.fn = "sigalrm" /\ Top.fn = "sigalrm"
    BY <2>1, ScanTop DEF Round, Running
  <2>3. QED
    BY <1>0, <1>4, <2>2 DEF Adds, Scan
<1>5. CASE Run
  <2>1. PICK g \in Frame : g.fn = "sigalrm" /\ ToSet(stack') = {Top', g} \cup ToSet(Tail(stack))
    BY <1>5, RunTop
  <2>2. Top'.fn = "action" /\ Top.fn = "sigalrm"
    BY <1>5, RunTop DEF Run, Running
  <2>3. QED
    BY <1>0, <1>5, <2>1, <2>2 DEF Adds, Run
<1>6. CASE ActionEnd \/ End
  <2>1. Top.fn \in {"action", "sigalrm"} /\ stack' = Tail(stack) /\ lapse' = lapse
    BY <1>6 DEF ActionEnd, End, Running
  <2>2. QED
    BY <1>0, <2>1 DEF Adds
<1>7. CASE Jump
  <2>1. /\ ToSet(stack') \subseteq ToSet(stack) \cup MainFrame /\ lapse \subseteq lapse'
        /\ "stale" \notin lapse' => \A f \in ToSet(stack) : f.fn = "add" => f \in ToSet(stack')
    BY <1>7, JumpTop
  <2>2. QED
    BY <2>1 DEF Adds, MainFrame
<1>8. CASE ReadEnd
  <2>1. /\ Top'.fn = "main" /\ ToSet(stack') = {Top'} /\ stack = <<Top>> /\ Top.fn = "main"
        /\ lapse' = lapse
    BY <1>8, ReadEndDoes
  <2>2. ToSet(stack) = {Top}
    <3>1. Tail(stack) = <<>>
      BY <2>1
    <3>2. QED
      BY <1>0, <3>1 DEF ToSet
  <2>3. QED
    BY <2>1, <2>2 DEF Adds
<1>9. ASSUME NEW c \in Alarm, UnsetAlarm(c)
      PROVE  stack' = stack /\ lapse \subseteq lapse'
  BY <1>9 DEF UnsetAlarm, Orphaned
<1>10. Tick \/ UNCHANGED vars => stack' = stack /\ lapse \subseteq lapse'
  BY DEF Tick, vars
<1>11. QED
  BY <1>1, <1>2, <1>3, <1>4, <1>5, <1>6, <1>7, <1>8, <1>9, <1>10 DEF Plain

(* Steps of sh_timeradd, of which there is one call, *)
LEMMA OneAdd ==
    ASSUME Typed, Running("add")
    PROVE  Adds(stack) = {Top}
  BY AddingTop DEF Adds

LEMMA AddSteps ==
    ASSUME Typed
    PROVE  /\ (AddTake \/ AddLink \/ AddLinked \/ AddCall) =>
                 \E g \in Frame : /\ Adds(stack') = {g} /\ g.handle = Top.handle
                                  /\ IF AddTake THEN g = Top' ELSE g.pc # "fill"
           /\ AddReturn => Adds(stack') = {}
<1>1. ASSUME Running("add")
      PROVE  \A f \in ToSet(Tail(stack)) : f.fn # "add"
  BY <1>1, AddingTop
<1>2. CASE AddTake
  <2>1. Running("add") /\ Top.pc = "take"
    BY <1>2 DEF AddTake, Adding
  <2>2. /\ GoodStack(stack') /\ Top'.fn = "add" /\ Top'.pc = "fill" /\ Top'.handle = Top.handle
        /\ ToSet(stack') = {Top'} \cup ToSet(Tail(stack))
    BY <1>2, AddTakeTop
  <2>3. Top' \in Frame
    BY <2>2, GoodTop DEF Top
  <2>4. Adds(stack') = {Top'}
    BY <1>1, <2>1, <2>2 DEF Adds
  <2>5. ~ AddReturn
    BY <2>1 DEF AddReturn, Adding
  <2>6. QED
    BY <1>2, <2>2, <2>3, <2>4, <2>5
<1>3. CASE AddLink
  <2>1. /\ Running("add") /\ Top.pc = "fill" /\ GoodStack(stack') /\ Top'.fn = "add" /\ Top'.pc = "linked"
        /\ Top'.handle = Top.handle /\ ToSet(stack') = {Top'} \cup ToSet(Tail(stack))
    BY <1>3, AddLinkDoes
  <2>2. Top' \in Frame
    BY <2>1, GoodTop DEF Top
  <2>3. Adds(stack') = {Top'}
    BY <1>1, <2>1 DEF Adds
  <2>4. ~ AddReturn /\ ~ AddTake
    BY <2>1 DEF AddReturn, AddTake, Adding
  <2>5. QED
    BY <2>1, <2>2, <2>3, <2>4
<1>4. CASE AddLinked
  <2> DEFINE pc == IF Deferred THEN "call" ELSE "return"
  <2>1. Running("add") /\ Top.pc = "linked" /\ stack' = At(pc) /\ pc \in {"call", "return"}
    BY <1>4 DEF AddLinked, Adding
  <2> HIDE DEF pc
  <2>2. /\ GoodStack(stack') /\ Top'.fn = "add" /\ Top'.pc = pc
        /\ Top'.handle = Top.handle /\ ToSet(stack') = {Top'} \cup ToSet(Tail(stack))
    BY <2>1, AddGoes
  <2>3. Top' \in Frame
    BY <2>2, GoodTop DEF Top
  <2>4. Adds(stack') = {Top'}
    BY <1>1, <2>1, <2>2 DEF Adds
  <2>5. ~ AddReturn /\ ~ AddTake
    BY <2>1 DEF AddReturn, AddTake, Adding
  <2>6. QED
    BY <2>1, <2>2, <2>3, <2>4, <2>5
<1>5. CASE AddCall
  <2>1. Running("add") /\ Top.pc = "call" /\ Top'.fn = "sigalrm"
    BY <1>5, AddCallDoes
  <2>2. PICK g \in Frame : /\ g.fn = "add" /\ g.pc = "called" /\ g.handle = Top.handle
                           /\ ToSet(stack') = {Top', g} \cup ToSet(Tail(stack))
    BY <1>5, AddCallDoes
  <2>3. Adds(stack') = {g}
    BY <1>1, <2>1, <2>2 DEF Adds
  <2>4. ~ AddReturn /\ ~ AddTake
    BY <2>1 DEF AddReturn, AddTake, Adding
  <2>5. QED
    BY <2>2, <2>3, <2>4
<1>6. CASE AddReturn
  <2>1. Running("add") /\ Top.pc \in {"return", "called"} /\ stack' = Tail(stack)
    BY <1>6 DEF AddReturn, Adding
  <2>2. Adds(stack') = {}
    BY <1>1, <2>1 DEF Adds
  <2>3. ~ (AddTake \/ AddLink \/ AddLinked \/ AddCall)
    BY <2>1 DEF AddTake, AddLink, AddLinked, AddCall, Adding
  <2>4. QED
    BY <2>2, <2>3
<1>7. QED
  BY <1>2, <1>3, <1>4, <1>5, <1>6

(* and those that begin one. *)
LEMMA NewAdd ==
    ASSUME Typed
    PROVE  /\ \A c \in Alarm, t \in Delay, repeat \in BOOLEAN :
                 SetAlarm(c, t, repeat) =>
                    Adds(stack) = {} /\ Adds(stack') = {Add(c, t, repeat)} /\ lapse \subseteq lapse'
           /\ Read => Adds(stack) = {} /\ \A f \in Adds(stack') : f.pc = "take"
<1>1. ASSUME NEW c \in Alarm, NEW t \in Delay, NEW repeat \in BOOLEAN, SetAlarm(c, t, repeat)
      PROVE  Adds(stack) = {} /\ Adds(stack') = {Add(c, t, repeat)} /\ lapse \subseteq lapse'
  <2>1. /\ Idle \/ InFunction
        /\ Top' = Add(c, t, repeat) /\ ToSet(stack') = {Top'} \cup ToSet(stack) /\ lapse' = Orphaned(c)
    BY <1>1, SetAlarmDoes
  <2>2. Adds(stack) = {}
    BY <2>1, UserRuns DEF Adds, Has
  <2>3. Add(c, t, repeat).fn = "add" /\ lapse \subseteq lapse'
    BY <2>1 DEF Add, Orphaned
  <2>4. QED
    BY <2>1, <2>2, <2>3 DEF Adds
<1>2. ASSUME Read
      PROVE  Adds(stack) = {} /\ \A f \in Adds(stack') : f.pc = "take"
  <2>1. Idle /\ GoodStack(stack')
    BY <1>2, ReadDoes
  <2>2. Adds(stack) = {}
    BY <2>1, UserRuns DEF Adds, Has
  <2>3. CASE stack' = <<Top'>> /\ Top'.fn = "main"
    <3>1. ToSet(stack') = {Top'} \cup ToSet(Tail(stack')) /\ Tail(stack') = <<>>
      BY <2>1, <2>3, GoodPop, GoodTop DEF Top
    <3>2. QED
      BY <2>2, <2>3, <3>1 DEF Adds, ToSet
  <2>4. CASE \E t \in Delay, g \in MainFrame :
                Top' = Add("read", t, FALSE) /\ g.fn = "main" /\ ToSet(stack') = {Top', g}
    <3>1. Top'.pc = "take"
      BY <2>4 DEF Add
    <3>2. QED
      BY <2>2, <2>4, <3>1 DEF Adds
  <2>5. QED
    BY <1>2, <2>3, <2>4, ReadDoes
<1>3. QED
  BY <1>1, <1>2

--------------------------------------------------------------------------------
(* Storage is in one place. *)
Apart ==
    /\ IsInjective(list \o free)
    /\ \A f \in Adds(stack) : f.pc = "fill" => f.tp \notin Linked

LEMMA ApartScan ==
    ASSUME Typed, Apart, Scan
    PROVE  Apart'
<1> DEFINE live == Those(list, Live)
           dead == Reverse(Those(list, Node \ Live))
<1>1. /\ TypeOK /\ list \in Seq(Node) /\ free \in Seq(Node) /\ Live \subseteq Linked /\ Linked \subseteq Node
      /\ list' = live /\ free' = dead \o free
  BY LinkedType DEF Typed, TypeOK, Scan
<1>2. IsInjective(list) /\ IsInjective(free) /\ Linked \cap ToSet(free) = {}
  BY <1>1, Joined DEF Apart, Linked
<1>3. /\ live \in Seq(Node) /\ ToSet(live) = Linked \cap Live /\ IsInjective(live)
      /\ Those(list, Node \ Live) \in Seq(Node)
      /\ ToSet(Those(list, Node \ Live)) = Linked \cap (Node \ Live)
      /\ IsInjective(Those(list, Node \ Live))
  BY <1>1, <1>2, Selected DEF Linked
<1>4. dead \in Seq(Node) /\ ToSet(dead) = Linked \cap (Node \ Live) /\ IsInjective(dead)
  BY <1>3, Reversed
<1> HIDE DEF live, dead
<1>5. /\ dead \o free \in Seq(Node) /\ ToSet(dead \o free) = ToSet(dead) \cup ToSet(free)
      /\ IsInjective(dead \o free)
  BY <1>1, <1>2, <1>4, Joined
<1>6. IsInjective(list' \o free')
  <2>1. ToSet(live) \cap ToSet(dead \o free) = {}
    BY <1>1, <1>2, <1>3, <1>4, <1>5
  <2> DEFINE rest == dead \o free
  <2>2. rest \in Seq(Node) /\ IsInjective(rest) /\ ToSet(live) \cap ToSet(rest) = {}
    BY <1>5, <2>1
  <2> HIDE DEF rest
  <2>3. IsInjective(live \o rest)
    BY <1>3, <2>2, Joined
  <2>4. QED
    BY <1>1, <2>3 DEF rest
<1>7. Linked' \subseteq Linked
  BY <1>1, <1>3 DEF Linked
<1>8. Adds(stack') \subseteq Adds(stack)
  BY PlainAdds DEF Plain
<1>9. QED
  BY <1>6, <1>7, <1>8 DEF Apart

LEMMA ApartAddTake ==
    ASSUME Typed, Apart, AddTake
    PROVE  Apart'
<1>1. TypeOK /\ list \in Seq(Node) /\ free \in Seq(Node) /\ list' = list /\ free' = free
  BY DEF Typed, TypeOK, AddTake
<1>2. IF free # <<>> THEN Top'.tp = free[1] ELSE Top'.tp \in Node \ Linked
  BY AddTakeTop
<1>3. free # <<>> => free[1] \notin Linked
  <2>1. Linked \cap ToSet(free) = {}
    BY <1>1, Joined DEF Apart, Linked
  <2>2. free # <<>> => 1 \in DOMAIN free
    BY <1>1
  <2>3. QED
    BY <2>1, <2>2 DEF ToSet
<1>4. Adds(stack') = {Top'}
  BY AddSteps
<1>5. QED
  BY <1>1, <1>2, <1>3, <1>4 DEF Apart, Linked

LEMMA ApartAddLink ==
    ASSUME Typed, Apart, AddLink
    PROVE  Apart'
<1>1. /\ Running("add") /\ Top.pc = "fill" /\ Top.tp \in Node
      /\ list' = <<Top.tp>> \o list /\ list' \in Seq(Node) /\ free' = Popped(Top.tp)
  BY AddLinkDoes
<1>2. TypeOK /\ list \in Seq(Node) /\ free \in Seq(Node)
  BY DEF Typed, TypeOK
<1>3. Top.tp \notin Linked
  BY <1>1, OneAdd DEF Apart
<1>4. IsInjective(list) /\ IsInjective(free) /\ Linked \cap ToSet(free) = {}
  BY <1>2, Joined DEF Apart, Linked
<1>5. /\ free' \in Seq(Node) /\ ToSet(free') \subseteq ToSet(free) /\ IsInjective(free')
      /\ Top.tp \notin ToSet(free')
  BY <1>1, <1>2, <1>4, PoppedType
<1>6. ToSet(list') = {Top.tp} \cup Linked /\ IsInjective(list')
  <2> DEFINE s == <<Top.tp>>
  <2>1. s \in Seq(Node) /\ ToSet(s) = {Top.tp} /\ IsInjective(s)
    BY <1>1 DEF ToSet, IsInjective
  <2>2. list' = s \o list
    BY <1>1
  <2> HIDE DEF s
  <2>3. QED
    BY <1>2, <1>3, <1>4, <2>1, <2>2, Joined DEF Linked
<1>7. IsInjective(list' \o free')
  <2>1. ToSet(list') \cap ToSet(free') = {}
    BY <1>4, <1>5, <1>6
  <2>2. list' \in Seq(Node) /\ free' \in Seq(Node) /\ IsInjective(list') /\ IsInjective(free')
    BY <1>1, <1>5, <1>6
  <2>3. \A s, t \in Seq(Node) :
           IsInjective(s) /\ IsInjective(t) /\ ToSet(s) \cap ToSet(t) = {} => IsInjective(s \o t)
    BY Joined
  <2>4. QED
    BY <2>1, <2>2, <2>3, Zenon
<1>8. \A f \in Adds(stack') : f.pc # "fill"
  <2>1. ~ AddTake
    BY <1>1 DEF AddTake, Adding
  <2>2. QED
    BY <2>1, AddSteps
<1>9. QED
  BY <1>7, <1>8 DEF Apart

LEMMA ApartNext ==
    ASSUME Typed, Apart, [Next]_vars
    PROVE  Apart'
<1>1. ASSUME list' = list, free' = free, \A f \in Adds(stack') : f.pc = "fill" => f \in Adds(stack)
      PROVE  Apart'
  BY <1>1 DEF Apart, Linked
<1>2. CASE Plain /\ ~ Scan
  <2>1. Adds(stack') \subseteq Adds(stack)
    BY <1>2, PlainAdds
  <2>2. ASSUME NEW c \in Alarm, UnsetAlarm(c)
        PROVE  list' = list /\ free' = free
    BY <2>2 DEF UnsetAlarm
  <2>3. list' = list /\ free' = free
    BY <1>2, <2>2 DEF Plain, Tick, Signal, Killed, Run, ActionEnd, Jump, End, ReadEnd, vars
  <2>4. QED
    BY <1>1, <2>1, <2>3
<1>3. CASE Scan
  BY <1>3, ApartScan
<1>4. CASE AddTake
  BY <1>4, ApartAddTake
<1>5. CASE AddLink
  BY <1>5, ApartAddLink
<1>6. CASE AddLinked \/ AddCall
  <2>1. list' = list /\ free' = free /\ ~ AddTake
    BY <1>6 DEF AddLinked, AddCall, AddTake, Adding
  <2>2. \A f \in Adds(stack') : f.pc # "fill"
    BY <1>6, <2>1, AddSteps
  <2>3. QED
    BY <1>1, <2>1, <2>2
<1>7. CASE AddReturn
  <2>1. list' = list /\ free' = free /\ Adds(stack') = {}
    BY <1>7, AddSteps DEF AddReturn
  <2>2. QED
    BY <1>1, <2>1
<1>8. ASSUME NEW c \in Alarm, NEW t \in Delay, NEW repeat \in BOOLEAN, SetAlarm(c, t, repeat)
      PROVE  Apart'
  <2>1. list' = list /\ free' = free /\ Adds(stack') = {Add(c, t, repeat)} /\ Add(c, t, repeat).pc = "take"
    BY <1>8, NewAdd DEF SetAlarm, Add
  <2>2. QED
    BY <1>1, <2>1
<1>9. CASE Read
  <2>1. list' = list /\ free' = free /\ \A f \in Adds(stack') : f.pc = "take"
    BY <1>9, NewAdd DEF Read
  <2>2. QED
    BY <1>1, <2>1
<1>10. QED
  BY <1>2, <1>3, <1>4, <1>5, <1>6, <1>7, <1>8, <1>9 DEF Next, Step, Plain

LEMMA ApartInit ==
    ASSUME Init
    PROVE  Apart
<1>1. list = <<>> /\ free = <<>> /\ list \o free = <<>>
  BY DEF Init
<1>2. Linked = {}
  BY TypedInit
<1>3. QED
  BY <1>1, <1>2 DEF Apart, IsInjective

(* sh_timeradd may be interrupted between looking at the first free timer and taking it,
   and the functions it is interrupted by free timers and take them: still no storage
   is linked twice, linked and free, or taken by two additions. *)
THEOREM StorageApart == Spec => []NodesApart
<1> DEFINE Inv == Typed /\ Apart
<1>1. Init => Inv
  BY TypedInit, ApartInit
<1>2. Inv /\ [Next]_vars => Inv'
  BY TypedNext, ApartNext
<1>3. Inv => NodesApart
  <2>1. SUFFICES ASSUME Inv
                 PROVE  NodesApart
    OBVIOUS
  <2>2. GoodStack(stack) /\ Apart
    BY <2>1 DEF Typed
  <2> HIDE DEF Inv
  <2>3. \A i \in DOMAIN stack : stack[i].fn = "add" => stack[i] \in Adds(stack)
    BY DEF Adds, ToSet
  <2>4. \A i, j \in DOMAIN stack : stack[i].fn = "add" /\ stack[j].fn = "add" => i = j
    BY <2>2, Zenon DEF GoodStack
  <2>5. \A i \in DOMAIN stack : stack[i].fn = "add" /\ stack[i].pc = "fill" => stack[i].tp \notin Linked
    BY <2>2, <2>3 DEF Apart
  <2>6. QED
    BY <2>2, <2>4, <2>5 DEF Apart, NodesApart
<1> HIDE DEF Inv
<1>4. QED
  BY <1>1, <1>2, <1>3, PTL DEF Spec

--------------------------------------------------------------------------------
(* Handles are their users' own. *)
OwnHandle(c) ==
    \/ handle[c] \in Live /\ timer[handle[c]].handle = c
    \/ \E f \in Adds(stack) : f.handle = c
Own ==
    lapse \cap {"stale", "killed"} = {} => \A c \in Client : handle[c] # Nil => OwnHandle(c)

(* A step that changes no timer that a user keeps. *)
LEMMA OwnKept ==
    ASSUME Typed, Own, lapse' \cap {"stale", "killed"} = {}, lapse \subseteq lapse',
           NEW c \in Client, handle[c] # Nil,
           handle'[c] = handle[c],
           handle[c] \in Live => handle[c] \in Live' /\ timer'[handle[c]].handle = timer[handle[c]].handle,
           \A f \in Adds(stack) : f.handle = c => \E g \in Adds(stack') : g.handle = c
    PROVE  OwnHandle(c)'
  BY DEF Own, OwnHandle

(* The deletion of another user's timer. *)
LEMMA OwnDeleted ==
    ASSUME Typed, Own, lapse' \cap {"stale", "killed"} = {}, lapse \subseteq lapse', Adds(stack) = {},
           NEW d \in Client, timer' = Deleted(d), list' = list,
           NEW c \in Client, c # d, handle[c] # Nil, handle'[c] = handle[c]
    PROVE  OwnHandle(c)'
<1>1. handle[c] \in Live /\ timer[handle[c]].handle = c
  BY DEF Own, OwnHandle
<1>2. handle[c] # handle[d]
  <2>1. handle[d] # Nil => timer[handle[d]].handle = d
    BY DEF Own, OwnHandle
  <2>2. QED
    BY <1>1, <2>1
<1>3. handle[c] \in Node /\ TypeOK
  BY <1>1, LinkedType DEF Typed
<1>4. \A n \in Node : /\ timer'[n].handle = timer[n].handle
                      /\ timer'[n].action = IF n = handle[d] THEN 0 ELSE timer[n].action
  BY <1>3, DeletedDoes
<1>5. handle[c] \in Live'
  BY <1>1, <1>2, <1>3, <1>4 DEF Live, Linked
<1>6. QED
  BY <1>1, <1>3, <1>4, <1>5 DEF OwnHandle

LEMMA OwnPlain ==
    ASSUME Typed, Own, Plain
    PROVE  Own'
<1>1. SUFFICES ASSUME lapse' \cap {"stale", "killed"} = {}, NEW c \in Client, handle'[c] # Nil
               PROVE  OwnHandle(c)'
  BY DEF Own
<1>2. lapse \subseteq lapse' /\ Adds(stack') = Adds(stack)
  BY <1>1, PlainAdds
<1>3. TypeOK /\ handle[c] \in Node \cup {Nil}
  BY DEF Typed, TypeOK
<1>4. CASE UNCHANGED <<timer, list, handle>>
  <2>1. Live' = Live
    BY <1>4 DEF Live, Linked
  <2>2. QED
    BY <1>1, <1>2, <1>4, <2>1, OwnKept
<1>5. CASE Scan
  <2>1. PICK tp \in Node \cup {Nil}, min \in Node \cup {Nil} : Round(tp, min)
    BY <1>3, <1>5, ScanIsRound
  <2>2. Live' = Live /\ handle' = handle /\ \A n \in Live : timer'[n].handle = timer[n].handle
    BY <2>1 DEF Round
  <2>3. QED
    BY <1>1, <1>2, <2>2, OwnKept
<1>6. CASE Run
  <2> DEFINE n == Top.tp
  <2>1. n \in Node /\ n \in Live /\ timer[n] \in Timer /\ list' = list
    BY <1>3, <1>6, RunTop DEF TypeOK, Run
  <2>2. CASE timer[n].incr # 0
    <3>1. timer' = timer /\ handle' = handle
      BY <1>6, <2>2 DEF Run, Cleared
    <3>2. QED
      BY <1>4, <2>1, <3>1
  <2>3. CASE timer[n].incr = 0
    <3>1. timer' = [timer EXCEPT ![n].action = 0] /\ handle' = [handle EXCEPT ![timer[n].handle] = Nil]
      BY <1>6, <2>3 DEF Run, Cleared
    <3>2. handle \in [Client -> Node \cup {Nil}] /\ timer \in [Node -> Timer]
      BY <1>3 DEF TypeOK
    <3>3. c # timer[n].handle /\ handle'[c] = handle[c]
      BY <1>1, <3>1, <3>2
    <3>4. \A m \in Node : m # n => timer'[m] = timer[m]
      BY <3>1, <3>2
    <3>5. CASE handle[c] \in Live /\ timer[handle[c]].handle = c
      <4>1. handle[c] # n /\ handle[c] \in Node
        BY <1>3, <3>3, <3>5, LinkedType
      <4>2. handle[c] \in Live'
        BY <2>1, <3>4, <3>5, <4>1 DEF Live, Linked
      <4>3. QED
        BY <3>3, <3>4, <3>5, <4>1, <4>2 DEF OwnHandle
    <3>6. CASE \E f \in Adds(stack) : f.handle = c
      BY <1>2, <3>6 DEF OwnHandle
    <3>7. QED
      BY <1>1, <1>2, <3>3, <3>5, <3>6 DEF Own, OwnHandle
  <2>4. QED
    BY <2>2, <2>3
<1>7. CASE \E d \in Alarm : UnsetAlarm(d)
  <2>1. PICK d \in Alarm : UnsetAlarm(d)
    BY <1>7
  <2>2. /\ Idle \/ InFunction
        /\ timer' = Deleted(d) /\ handle' = [handle EXCEPT ![d] = Nil] /\ list' = list /\ d \in Client
    BY <2>1 DEF UnsetAlarm, Client
  <2>3. Adds(stack) = {}
    BY <2>2, UserRuns DEF Adds, Has
  <2>4. c # d /\ handle'[c] = handle[c]
    BY <1>1, <1>3, <2>2 DEF TypeOK
  <2>5. QED
    BY <1>1, <1>2, <2>2, <2>3, <2>4, OwnDeleted
<1>8. CASE ReadEnd
  <2>1. /\ timer' = Deleted("read") /\ handle' = [handle EXCEPT !["read"] = Nil] /\ list' = list
        /\ "read" \in Client
    BY <1>8, ReadEndDoes DEF Client
  <2>2. Adds(stack) = {}
    <3>1. Top'.fn = "main" /\ ToSet(stack') = {Top'}
      BY <1>8, ReadEndDoes
    <3>2. QED
      BY <1>2, <3>1 DEF Adds
  <2>3. c # "read" /\ handle'[c] = handle[c]
    BY <1>1, <1>3, <2>1 DEF TypeOK
  <2>4. QED
    BY <1>1, <1>2, <2>1, <2>2, <2>3, OwnDeleted
<1>9. QED
  <2>1. Tick \/ Signal \/ Killed \/ ActionEnd \/ Jump \/ End \/ UNCHANGED vars =>
           UNCHANGED <<timer, list, handle>>
    BY DEF Tick, Signal, Killed, ActionEnd, Jump, End, vars
  <2>2. QED
    BY <1>4, <1>5, <1>6, <1>7, <1>8, <2>1 DEF Plain

LEMMA OwnAdd ==
    ASSUME Typed, Apart, Own, AddTake \/ AddLink \/ AddLinked \/ AddCall
    PROVE  Own'
<1>1. Running("add") /\ lapse' = lapse /\ handle' = handle
  BY DEF AddTake, AddLink, AddLinked, AddCall, Adding
<1>2. SUFFICES ASSUME lapse \cap {"stale", "killed"} = {}, NEW c \in Client, handle[c] # Nil
               PROVE  OwnHandle(c)'
  BY <1>1 DEF Own
<1>3. Adds(stack) = {Top} /\ \E g \in Adds(stack') : g.handle = Top.handle
  BY <1>1, OneAdd, AddSteps
<1>4. CASE AddLink
  <2>1. /\ Top.pc = "fill" /\ Linked' = {Top.tp} \cup Linked /\ Top.tp \in Node
        /\ \A n \in Node : n # Top.tp => timer'[n] = timer[n]
    BY <1>4, AddLinkDoes
  <2>2. Top.tp \notin Linked
    BY <1>3, <2>1 DEF Apart
  <2>3. Live \subseteq Linked /\ Linked \subseteq Node
    BY LinkedType DEF Typed
  <2>4. \A n \in Live : n \in Live' /\ timer'[n].handle = timer[n].handle
    BY <2>1, <2>2, <2>3 DEF Live
  <2>5. QED
    BY <1>1, <1>2, <1>3, <2>4, OwnKept
<1>5. CASE AddTake \/ AddLinked \/ AddCall
  <2>1. timer' = timer /\ list' = list
    BY <1>5 DEF AddTake, AddLinked, AddCall
  <2>2. Live' = Live
    BY <2>1 DEF Live, Linked
  <2>3. QED
    BY <1>1, <1>2, <1>3, <2>1, <2>2, OwnKept
<1>6. QED
  BY <1>4, <1>5

LEMMA OwnAddReturn ==
    ASSUME Typed, Own, AddReturn
    PROVE  Own'
<1> DEFINE tp == IF Top.pc = "called" /\ Top.tp # Head(list \o <<Nil>>) THEN Nil ELSE Top.tp
<1>1. /\ Running("add") /\ timer' = timer /\ list' = list
      /\ handle' = [handle EXCEPT ![Top.handle] = tp]
      /\ lapse' = IF tp # Nil /\ (timer[tp].action = 0 \/ tp \notin Linked
                                   \/ timer[tp].handle # Top.handle)
                  THEN lapse \cup {"stale"} ELSE lapse
  BY DEF AddReturn, Adding
<1> HIDE DEF tp
<1>2. SUFFICES ASSUME lapse' \cap {"stale", "killed"} = {}, NEW c \in Client, handle'[c] # Nil
               PROVE  OwnHandle(c)'
  BY DEF Own
<1>3. Live' = Live /\ lapse' = lapse
  BY <1>1, <1>2 DEF Live, Linked
<1>4. handle \in [Client -> Node \cup {Nil}] /\ Adds(stack) = {Top} /\ Top.handle \in Client
  BY <1>1, OneAdd, AddingTop DEF Typed, TypeOK
<1>5. CASE c = Top.handle
  <2>1. handle'[c] = tp /\ tp # Nil
    BY <1>1, <1>2, <1>4, <1>5
  <2>2. tp \in Live /\ timer[tp].handle = c
    BY <1>1, <1>2, <1>5, <2>1 DEF Live
  <2>3. QED
    BY <1>1, <1>3, <2>1, <2>2 DEF OwnHandle
<1>6. CASE c # Top.handle
  <2>1. handle'[c] = handle[c]
    BY <1>1, <1>4, <1>6
  <2>2. QED
    BY <1>1, <1>2, <1>3, <1>4, <1>6, <2>1, OwnKept
<1>7. QED
  BY <1>5, <1>6

LEMMA OwnNext ==
    ASSUME Typed, Apart, Own, [Next]_vars
    PROVE  Own'
<1>1. CASE Plain
  BY <1>1, OwnPlain
<1>2. CASE AddTake \/ AddLink \/ AddLinked \/ AddCall
  BY <1>2, OwnAdd
<1>3. CASE AddReturn
  BY <1>3, OwnAddReturn
<1>4. ASSUME NEW d \in Alarm, NEW t \in Delay, NEW repeat \in BOOLEAN, SetAlarm(d, t, repeat)
      PROVE  Own'
  <2>1. /\ Adds(stack) = {} /\ Adds(stack') = {Add(d, t, repeat)} /\ lapse \subseteq lapse'
        /\ timer' = Deleted(d) /\ list' = list /\ handle' = handle /\ d \in Client
    BY <1>4, NewAdd DEF SetAlarm, Client
  <2>2. SUFFICES ASSUME lapse' \cap {"stale", "killed"} = {}, NEW c \in Client, handle[c] # Nil
                 PROVE  OwnHandle(c)'
    BY <2>1 DEF Own
  <2>3. CASE c = d
    <3>1. Add(d, t, repeat).handle = d
      BY DEF Add
    <3>2. QED
      BY <2>1, <2>3, <3>1 DEF OwnHandle
  <2>4. CASE c # d
    BY <2>1, <2>2, <2>4, OwnDeleted
  <2>5. QED
    BY <2>3, <2>4
<1>5. CASE Read
  <2>1. Adds(stack) = {} /\ timer' = timer /\ list' = list /\ handle' = handle /\ lapse' = lapse
    BY <1>5, NewAdd DEF Read
  <2>2. Live' = Live
    BY <2>1 DEF Live, Linked
  <2>3. ASSUME lapse \cap {"stale", "killed"} = {}, NEW c \in Client, handle[c] # Nil
        PROVE  OwnHandle(c)'
    BY <2>1, <2>2, <2>3, OwnKept
  <2>4. QED
    BY <2>1, <2>3 DEF Own
<1>6. QED
  BY <1>1, <1>2, <1>3, <1>4, <1>5 DEF Next, Step, Plain

(* What a user keeps is its own timer, linked and not yet run, so that deleting it stops
   nobody else's; unless a handle was stale before it could be kept, a jump came
   before the user of a deleted timer had its new one, or the shell was killed. *)
THEOREM OwnHandles == Spec => []HandlesAreOwn
<1> DEFINE Inv == Typed /\ Apart /\ Own
<1>1. Init => Inv
  <2>1. Init => Own
    BY DEF Init, Own
  <2>2. QED
    BY <2>1, TypedInit, ApartInit
<1>2. Inv /\ [Next]_vars => Inv'
  BY TypedNext, ApartNext, OwnNext
<1>3. Inv => HandlesAreOwn
  <2>1. \A f \in Adds(stack) : \E i \in DOMAIN stack : stack[i] = f /\ stack[i].fn = "add"
    BY DEF Adds, ToSet
  <2>2. QED
    BY <2>1 DEF Own, OwnHandle, HandlesAreOwn
<1> HIDE DEF Inv
<1>4. QED
  BY <1>1, <1>2, <1>3, PTL DEF Spec

--------------------------------------------------------------------------------
(* Where sigalrm is in the stack, and whether the program itself adds a timer. *)
AddsAtBottom(s) == Len(s) >= 2 /\ s[Len(s) - 1].fn = "add"
Handling == Has(stack, "sigalrm")
ByMain == AddsAtBottom(stack)

LEMMA BottomPush ==
    ASSUME NEW s, NEW t, GoodStack(s), GoodStack(t), Tail(t) = s
    PROVE  /\ Len(s) >= 2 => (AddsAtBottom(t) <=> AddsAtBottom(s))
           /\ Len(s) = 1 => (AddsAtBottom(t) <=> t[1].fn = "add")
<1>1. /\ Len(t) \in Nat \ {0} /\ Len(s) = Len(t) - 1 /\ Len(s) \in Nat \ {0}
      /\ \A i \in 1..Len(t) - 1 : s[i] = t[i + 1]
  BY GoodTop
<1>2. ASSUME Len(s) >= 2
      PROVE  s[Len(s) - 1] = t[Len(t) - 1]
  <2>1. Len(s) - 1 \in 1..Len(t) - 1 /\ (Len(s) - 1) + 1 = Len(t) - 1
    BY <1>1, <1>2
  <2>2. QED
    BY <1>1, <2>1
<1>3. Len(s) = 1 => Len(t) - 1 = 1 /\ Len(t) >= 2
  <2>1. Len(t) \in Nat /\ Len(s) = Len(t) - 1
    BY <1>1
  <2>2. QED
    BY <2>1
<1>4. QED
  BY <1>1, <1>2, <1>3 DEF AddsAtBottom

LEMMA BottomReplace ==
    ASSUME NEW s, NEW t, GoodStack(s), GoodStack(t), Tail(t) = Tail(s), t[1].fn = s[1].fn
    PROVE  AddsAtBottom(t) <=> AddsAtBottom(s)
<1>1. /\ Len(t) \in Nat \ {0} /\ Len(s) \in Nat \ {0} /\ Len(s) = Len(t)
      /\ \A i \in 1..Len(s) - 1 : s[i + 1] = t[i + 1]
  <2>1. /\ Len(t) \in Nat \ {0} /\ Len(Tail(t)) = Len(t) - 1
        /\ \A i \in 1..Len(t) - 1 : Tail(t)[i] = t[i + 1]
    BY GoodTop
  <2>2. /\ Len(s) \in Nat \ {0} /\ Len(Tail(s)) = Len(s) - 1
        /\ \A i \in 1..Len(s) - 1 : Tail(s)[i] = s[i + 1]
    BY GoodTop
  <2>3. Len(s) = Len(t)
    <3>1. Len(s) \in Nat /\ Len(t) \in Nat /\ Len(s) - 1 = Len(t) - 1
      BY <2>1, <2>2
    <3>2. QED
      BY <3>1
  <2>4. \A i \in 1..Len(s) - 1 : s[i + 1] = t[i + 1]
    BY <2>1, <2>2, <2>3
  <2>5. QED
    BY <2>1, <2>2, <2>3, <2>4
<1>2. CASE Len(s) = 2
  <2>1. Len(s) - 1 = 1
    BY <1>2
  <2>2. QED
    BY <1>1, <1>2, <2>1 DEF AddsAtBottom
<1>3. CASE Len(s) > 2
  <2>1. Len(s) - 2 \in 1..Len(s) - 1 /\ (Len(s) - 2) + 1 = Len(s) - 1
    BY <1>1, <1>3
  <2>2. s[Len(s) - 1] = t[Len(s) - 1]
    BY <1>1, <2>1
  <2>3. QED
    BY <1>1, <2>2 DEF AddsAtBottom
<1>4. QED
  BY <1>1, <1>2, <1>3 DEF AddsAtBottom

LEMMA BottomSub ==
    ASSUME NEW s, GoodStack(s), NEW k \in 1..Len(s) - 1
    PROVE  AddsAtBottom(SubSeq(s, k, Len(s))) <=> AddsAtBottom(s)
<1> DEFINE t == SubSeq(s, k, Len(s))
<1>1. s \in Seq(Frame) /\ Len(s) \in Nat \ {0}
  BY GoodTop
<1>2. /\ Len(t) = Len(s) - k + 1 /\ DOMAIN t = 1..Len(s) - k + 1
      /\ \A i \in DOMAIN t : t[i] = s[i + k - 1]
  BY <1>1, Sub
<1> HIDE DEF t
<1>3. Len(t) - 1 \in DOMAIN t /\ (Len(t) - 1) + k - 1 = Len(s) - 1 /\ Len(t) >= 2 /\ Len(s) >= 2
  BY <1>1, <1>2
<1>4. t[Len(t) - 1] = s[Len(s) - 1]
  BY <1>2, <1>3
<1>5. QED
  BY <1>3, <1>4 DEF AddsAtBottom, t

(* Actions run inside sigalrm; and so does an addition unless the program makes it. *)
LEMMA Inside ==
    ASSUME GoodStack(stack)
    PROVE  /\ Top.fn \in {"action", "sigalrm"} => Handling
           /\ Top.fn = "main" => ~ Handling /\ ~ ByMain /\ Len(stack) = 1
           /\ Top.fn = "add" => (ByMain <=> ~ Handling)
           /\ Handling => Len(stack) >= 2
<1>1. /\ Top = stack[1] /\ Top \in Frame
      /\ Len(stack) \in Nat \ {0} /\ DOMAIN stack = 1..Len(stack) /\ (Top.fn = "main" <=> Len(stack) = 1)
  BY GoodTop DEF Top
<1>2. /\ \A i \in DOMAIN stack : stack[i].fn = "main" <=> i = Len(stack)
      /\ \A i, j \in DOMAIN stack : stack[i].fn = "add" /\ stack[j].fn = "add" => i = j
      /\ \A i \in 1..Len(stack) - 1 : Above(stack[i], stack[i + 1])
  BY DEF GoodStack
<1>3. Handling <=> \E i \in DOMAIN stack : stack[i].fn = "sigalrm"
  BY DEF Handling, Has, ToSet
<1>4. CASE Top.fn = "main"
  <2>1. Len(stack) = 1 /\ \A i \in DOMAIN stack : stack[i].fn = "main"
    BY <1>1, <1>2, <1>4
  <2>2. QED
    BY <1>3, <1>4, <2>1 DEF ByMain, AddsAtBottom
<1>5. CASE Top.fn = "sigalrm"
  <2>1. 1 \in DOMAIN stack /\ Len(stack) >= 2
    BY <1>1, <1>5
  <2>2. QED
    BY <1>1, <1>3, <1>5, <2>1
<1>6. CASE Top.fn = "action"
  <2>1. 1 \in 1..Len(stack) - 1 /\ 2 \in DOMAIN stack /\ Len(stack) >= 2
    BY <1>1, <1>6
  <2>2. Above(stack[1], stack[1 + 1])
    BY <1>2, <2>1
  <2>3. stack[2].fn = "sigalrm"
    BY <1>1, <1>6, <2>2 DEF Above
  <2>4. QED
    BY <1>3, <1>6, <2>1, <2>3
<1>7. CASE Top.fn = "add"
  <2>1. 1 \in 1..Len(stack) - 1 /\ 1 \in DOMAIN stack /\ 2 \in DOMAIN stack /\ Len(stack) >= 2
    BY <1>1, <1>7
  <2>2. Above(stack[1], stack[1 + 1])
    BY <1>2, <2>1
  <2>3. stack[2].fn \in {"main", "action"}
    BY <1>1, <1>7, <2>2 DEF Above
  <2>4. CASE stack[2].fn = "main"
    <3>1. Len(stack) = 2 /\ Len(stack) - 1 = 1
      <4>1. Len(stack) = 2
        BY <1>2, <2>1, <2>4
      <4>2. QED
        BY <4>1
    <3>2. \A i \in DOMAIN stack : i = 1 \/ i = 2
      BY <1>1, <3>1
    <3>3. ByMain /\ ~ Handling
      BY <1>1, <1>3, <1>7, <2>4, <3>1, <3>2 DEF ByMain, AddsAtBottom
    <3>4. QED
      BY <1>7, <2>1, <3>3
  <2>5. CASE stack[2].fn = "action"
    <3>1. Len(stack) > 2
      BY <1>1, <1>2, <2>1, <2>5
    <3>2. 2 \in 1..Len(stack) - 1 /\ 3 \in DOMAIN stack /\ Len(stack) - 1 \in DOMAIN stack
          /\ Len(stack) - 1 # 1
      BY <1>1, <3>1
    <3>3. Above(stack[2], stack[2 + 1])
      BY <1>2, <3>2
    <3>4. stack[3].fn = "sigalrm"
      BY <2>5, <3>3 DEF Above
    <3>5. Handling
      BY <1>3, <3>2, <3>4
    <3>6. ~ ByMain
      BY <1>1, <1>2, <1>7, <2>1, <3>2 DEF ByMain, AddsAtBottom
    <3>7. QED
      BY <1>7, <2>1, <3>5, <3>6
  <2>6. QED
    BY <2>3, <2>4, <2>5
<1>8. QED
  BY <1>1, <1>4, <1>5, <1>6, <1>7, Kinds

(* What the steps do to that. *)
LEMMA SameFrames ==
    ASSUME GoodStack(stack), GoodStack(stack'), Tail(stack') = Tail(stack), Top'.fn = Top.fn
    PROVE  (Handling' <=> Handling) /\ (ByMain' <=> ByMain)
<1>1. Top = stack[1] /\ Top' = stack'[1]
  BY GoodTop DEF Top
<1>2. ToSet(stack) = {Top} \cup ToSet(Tail(stack)) /\ ToSet(stack') = {Top'} \cup ToSet(Tail(stack))
  BY <1>1, GoodPop
<1>3. Handling' <=> Handling
  BY <1>2 DEF Handling, Has
<1>4. ByMain' <=> ByMain
  BY <1>1, BottomReplace DEF ByMain
<1>5. QED
  BY <1>3, <1>4

LEMMA PushedFrames ==
    ASSUME GoodStack(stack), GoodStack(stack'), Tail(stack') = stack
    PROVE  /\ Handling' <=> (Handling \/ Top'.fn = "sigalrm")
           /\ ByMain => ByMain'
<1>1. Top' = stack'[1] /\ Len(stack) \in Nat
  BY GoodTop DEF Top
<1>2. ToSet(stack') = {Top'} \cup ToSet(stack)
  BY <1>1, GoodPop
<1>3. Handling' <=> (Handling \/ Top'.fn = "sigalrm")
  BY <1>2 DEF Handling, Has
<1>4. ByMain => ByMain'
  BY BottomPush DEF ByMain, AddsAtBottom
<1>5. QED
  BY <1>3, <1>4

LEMMA PoppedFrames ==
    ASSUME GoodStack(stack), Top.fn # "main", stack' = Tail(stack)
    PROVE  /\ Handling <=> (Handling' \/ Top.fn = "sigalrm")
           /\ ByMain /\ Handling' => ByMain'
<1>1. /\ GoodStack(stack') /\ ToSet(stack) = {Top} \cup ToSet(stack')
  BY Ends
<1>2. Handling <=> (Handling' \/ Top.fn = "sigalrm")
  BY <1>1 DEF Handling, Has
<1>3. Handling' => Len(stack') >= 2
  <2>1. \A s : GoodStack(s) /\ Has(s, "sigalrm") => Len(s) >= 2
    <3>1. ASSUME NEW s, GoodStack(s), Has(s, "sigalrm")
          PROVE  Len(s) >= 2
      <4>1. Len(s) \in Nat \ {0} /\ (s[1].fn = "main" <=> Len(s) = 1)
        BY <3>1, GoodTop
      <4>2. s[1].fn # "main"
        <5>1. ASSUME s[1].fn = "main"
              PROVE  FALSE
          <6>1. ToSet(s) = {s[1]} \cup ToSet(Tail(s)) /\ ToSet(Tail(s)) = {}
            BY <3>1, <5>1, GoodPop
          <6>2. QED
            BY <3>1, <5>1, <6>1 DEF Has
        <5>2. QED
          BY <5>1
      <4>3. Len(s) # 1
        BY <4>1, <4>2, Zenon
      <4>4. Len(s) \in Nat \ {0}
        BY <4>1
      <4>5. \A n \in Nat \ {0} : n # 1 => n >= 2
        OBVIOUS
      <4>6. QED
        BY <4>3, <4>4, <4>5, Zenon
    <3>2. QED
      BY <3>1
  <2>2. QED
    BY <1>1, <2>1 DEF Handling
<1>4. Len(stack') >= 2 => (ByMain <=> ByMain')
  BY <1>1, BottomPush DEF ByMain
<1>5. QED
  BY <1>2, <1>3, <1>4

(* A call under which the frame of the caller goes on. *)
LEMMA CalledFrames ==
    ASSUME GoodStack(stack), GoodStack(stack'), GoodStack(Tail(stack')),
           Tail(stack')[1].fn = Top.fn, Tail(Tail(stack')) = Tail(stack), Top.fn # "main"
    PROVE  /\ Handling => Handling'
           /\ ByMain <=> ByMain'
<1> DEFINE k == Tail(stack')
<1>1. Top = stack[1] /\ Len(stack) \in Nat \ {0} /\ (Top.fn = "main" <=> Len(stack) = 1)
  BY GoodTop DEF Top
<1>2. AddsAtBottom(k) <=> AddsAtBottom(stack)
  BY <1>1, BottomReplace
<1>3. Len(k) >= 2
  <2>1. Len(Tail(k)) = Len(k) - 1 /\ Len(Tail(stack)) = Len(stack) - 1 /\ Len(k) \in Nat
    BY GoodTop
  <2>2. QED
    BY <1>1, <2>1
<1>4. AddsAtBottom(stack') <=> AddsAtBottom(k)
  BY <1>3, BottomPush
<1>5. Handling => Handling'
  <2>1. /\ ToSet(stack') = {stack'[1]} \cup ToSet(k) /\ ToSet(k) = {k[1]} \cup ToSet(Tail(k))
        /\ ToSet(stack) = {Top} \cup ToSet(Tail(stack))
    BY <1>1, GoodPop
  <2>2. QED
    BY <2>1 DEF Handling, Has
<1>6. QED
  BY <1>2, <1>4, <1>5 DEF ByMain

LEMMA JumpFrames ==
    ASSUME Typed, Jump
    PROVE  Handling /\ (ByMain /\ Handling' => ByMain')
<1> DEFINE outer == {i \in 2..Len(stack) : stack[i].fn = "action"}
           to == IF outer = {} THEN Len(stack) ELSE CHOOSE i \in outer : \A j \in outer : i <= j
<1>1. /\ Top.fn = "action" /\ GoodStack(stack)
      /\ outer # {} => stack' = SubSeq(stack, to, Len(stack))
      /\ outer = {} => stack' = <<[fn |-> "main", pc |-> "idle"]>>
  BY DEF Typed, Jump, Running
<1>2. CASE outer = {}
  <2> DEFINE f == [fn |-> "main", pc |-> "idle"]
  <2>1. f \in MainFrame /\ f.fn = "main" /\ stack' = <<f>>
    BY <1>1, <1>2 DEF MainFrame
  <2> HIDE DEF f
  <2>2. ~ Handling'
    BY <2>1, GoodMain DEF Handling, Has
  <2>3. QED
    BY <1>1, <2>2, Inside
<1>3. CASE outer # {}
  <2>1. outer \in SUBSET Nat
    BY <1>1, GoodTop
  <2>2. to \in outer
    <3> DEFINE S == outer
    <3>1. \E i \in S : \A j \in S : i <= j
      <4>1. S \in SUBSET Nat /\ S # {}
        BY <1>3, <2>1
      <4> HIDE DEF S
      <4>2. QED
        BY <4>1, Least
    <3> HIDE DEF S
    <3>2. (CHOOSE i \in S : \A j \in S : i <= j) \in S
      BY <3>1
    <3>3. QED
      BY <1>3, <3>2 DEF S
  <2>3. to \in 1..Len(stack) - 1
    <3>1. to \in 2..Len(stack) /\ stack[to].fn = "action"
      BY <2>2
    <3>2. Len(stack) \in Nat
      BY <1>1, GoodTop
    <3>3. \A i \in DOMAIN stack : i = Len(stack) => stack[i].fn = "main"
      BY <1>1 DEF GoodStack
    <3>4. DOMAIN stack = 1..Len(stack)
      BY <1>1, GoodTop
    <3> HIDE DEF to
    <3>5. to \in DOMAIN stack
      BY <3>1, <3>2, <3>4
    <3>6. to # Len(stack)
      BY <3>1, <3>3, <3>5
    <3>7. QED
      BY <3>1, <3>2, <3>6
  <2>4. stack' = SubSeq(stack, to, Len(stack))
    BY <1>1, <1>3
  <2> HIDE DEF to, outer
  <2>5. AddsAtBottom(stack') <=> AddsAtBottom(stack)
    BY <1>1, <2>3, <2>4, BottomSub
  <2>6. QED
    BY <1>1, <2>5, Inside DEF ByMain
<1>4. QED
  BY <1>2, <1>3

--------------------------------------------------------------------------------
(* The kernel's alarm.  Known: no action deleted the timer that it is set for. *)
Known == "orphan" \notin lapse
Excuseless == lapse \cap {"jump", "drop", "orphan"} = {}
AtAdd == Top.fn = "add" /\ Top.pc \in {"linked", "call"}
AtScan == Top.fn = "sigalrm" /\ Top.pc = "scan"
Owed == "DEFER_SIGALRM" \in time_state \/ (Top.fn = "add" /\ Top.pc = "call")
Covers == \A n \in Live : alarm <= timer[n].wakeup

(* The timer believed to be next is linked, and no other that is not yet due is earlier. *)
TpminLinked == tpmin = Nil \/ tpmin \in Linked
TpminNext ==
    \A n \in Live : timer[n].wakeup <= now \/ (tpmin # Nil /\ timer[tpmin].wakeup <= timer[n].wakeup)

(* It is not the one that is about to run and will not be repeated; and if it was deleted,
   an addition will look at the timers again. *)
RunIsNotNext ==
    Top.fn = "sigalrm" /\ Top.pc = "run" /\ timer[Top.tp].incr = 0 => tpmin # Top.tp
LooksAgain ==
    Top.fn = "add" /\ Top.pc = "linked" /\ "DEFER_SIGALRM" \notin time_state => tpmin \in Live

(* Only an alarm that nobody keeps account of kills the shell. *)
DeadLost == \A f \in ToSet(stack) : f.fn = "main" /\ f.pc = "dead" => ~ Known

(* The alarm is set for the timer that is next, or for an earlier time; inside sigalrm that
   timer is not deleted unless the program is adding one, after which sigalrm looks
   at the timers again. *)
AlarmFor ==
    Known /\ alarm # 0 =>
        /\ sigalrmset /\ tpmin # Nil /\ alarm <= timer[tpmin].wakeup
        /\ alarm = timer[tpmin].wakeup \/ ~ Handling \/ ByMain
        /\ \/ tpmin \in Live
           \/ (AtAdd \/ AtScan) /\ ByMain /\ \E n \in Live : alarm <= timer[n].wakeup
           \/ ~ Handling /\ ~ AtAdd

(* What sigalrm takes the alarm that it set to have left is not less than it has. *)
LeftFor == Known /\ left # 0 => Handling /\ alarm # 0 /\ alarm <= now + left

(* When sigalrm is through, and outside of it, the alarm is set in time. *)
EndCovers ==
    Excuseless /\ Top.fn = "sigalrm" /\ Top.pc = "end" => Covers /\ (alarm # 0 \/ Live = {})
OutCovers ==
    Excuseless /\ ~ Handling => Covers /\ (alarm # 0 \/ Live = {} \/ Owed)

Alarms ==
    /\ TpminLinked /\ TpminNext /\ RunIsNotNext /\ LooksAgain
    /\ AlarmFor /\ LeftFor /\ EndCovers /\ OutCovers

(* What a step keeps. *)
LEMMA TpminKept ==
    ASSUME TypeOK, TpminLinked, TpminNext, tpmin' = tpmin, list' = list, now' \in Nat, now <= now',
           Live' \subseteq Live, \A n \in Node : timer'[n].wakeup = timer[n].wakeup
    PROVE  TpminLinked' /\ TpminNext'
<1>1. now \in Nat /\ Live \subseteq Node /\ \A n \in Node : timer[n].wakeup \in Nat
  BY Numbers, LinkedType, TimerType DEF TypeOK, Time
<1>2. TpminLinked'
  BY DEF TpminLinked, Linked
<1>3. ASSUME NEW n \in Live', ~ (timer'[n].wakeup <= now')
      PROVE  tpmin # Nil /\ timer'[tpmin].wakeup <= timer'[n].wakeup
  <2>1. n \in Live /\ n \in Node /\ timer'[n].wakeup = timer[n].wakeup /\ timer[n].wakeup \in Nat
    BY <1>1
  <2>2. ~ (timer[n].wakeup <= now)
    BY <1>1, <1>3, <2>1
  <2>3. tpmin # Nil /\ timer[tpmin].wakeup <= timer[n].wakeup
    BY <2>1, <2>2 DEF TpminNext
  <2>4. tpmin \in Node
    BY <2>3 DEF TypeOK
  <2>5. QED
    BY <2>1, <2>3, <2>4
<1>4. QED
  BY <1>2, <1>3 DEF TpminNext

LEMMA AlarmForKept ==
    ASSUME TypeOK, AlarmFor, alarm' \in {alarm, 0}, tpmin' = tpmin, Known' => Known,
           sigalrmset /\ tpmin # Nil => sigalrmset',
           \A n \in Node : timer'[n].wakeup = timer[n].wakeup,
           Known' /\ alarm' # 0 =>
              /\ Handling' => ByMain' \/ (Handling /\ (ByMain => ByMain'))
              /\ \/ ~ Handling' /\ ~ AtAdd'
                 \/ tpmin \in Live /\ tpmin \in Live'
                 \/ AtAdd /\ ByMain' /\ (AtAdd' \/ AtScan') /\ Live' = Live
    PROVE  AlarmFor'
<1>1. SUFFICES ASSUME Known', alarm' # 0
               PROVE  /\ sigalrmset' /\ tpmin' # Nil /\ alarm' <= timer'[tpmin'].wakeup
                      /\ alarm' = timer'[tpmin'].wakeup \/ ~ Handling' \/ ByMain'
                      /\ \/ tpmin' \in Live'
                         \/ (AtAdd' \/ AtScan') /\ ByMain' /\ \E n \in Live' : alarm' <= timer'[n].wakeup
                         \/ ~ Handling' /\ ~ AtAdd'
  BY Zenon DEF AlarmFor
<1>2. alarm' = alarm /\ Known /\ alarm # 0
  BY <1>1
<1>3. /\ sigalrmset /\ tpmin # Nil /\ alarm <= timer[tpmin].wakeup
      /\ alarm = timer[tpmin].wakeup \/ ~ Handling \/ ByMain
      /\ \/ tpmin \in Live
         \/ (AtAdd \/ AtScan) /\ ByMain /\ \E n \in Live : alarm <= timer[n].wakeup
         \/ ~ Handling /\ ~ AtAdd
  BY <1>2 DEF AlarmFor
<1>4. timer'[tpmin].wakeup = timer[tpmin].wakeup /\ Live \subseteq Node
  BY <1>3, LinkedType DEF TypeOK
<1>5. /\ sigalrmset' /\ tpmin' # Nil /\ alarm' <= timer'[tpmin'].wakeup
      /\ alarm' = timer'[tpmin'].wakeup \/ ~ Handling' \/ ByMain'
  BY <1>1, <1>2, <1>3, <1>4
<1>6. CASE AtAdd /\ ByMain' /\ (AtAdd' \/ AtScan') /\ Live' = Live
  <2>1. tpmin \in Live \/ \E n \in Live : alarm <= timer[n].wakeup
    BY <1>3, <1>6
  <2>2. QED
    BY <1>2, <1>4, <1>5, <1>6, <2>1
<1>7. QED
  BY <1>1, <1>5, <1>6

LEMMA LeftKept ==
    ASSUME TypeOK, LeftFor, left' \in {left, 0}, alarm' = alarm, now' \in Nat, now <= now',
           Known' => Known, left' # 0 /\ Handling => Handling'
    PROVE  LeftFor'
<1>1. now \in Nat /\ left \in Nat /\ alarm \in Nat
  BY Numbers DEF TypeOK, Time
<1>2. SUFFICES ASSUME Known', left' # 0
               PROVE  Handling' /\ alarm' # 0 /\ alarm' <= now' + left'
  BY Zenon DEF LeftFor
<1>3. left' = left /\ left # 0 /\ Known
  BY <1>2
<1>4. Handling /\ alarm # 0 /\ alarm <= now + left
  BY <1>3 DEF LeftFor
<1>5. alarm' <= now' + left'
  <2>1. \A a, n, m, l \in Nat : a <= n + l /\ n <= m => a <= m + l
    OBVIOUS
  <2>2. alarm <= now' + left
    BY <1>1, <1>4, <2>1, Zenon
  <2>3. QED
    BY <1>3, <2>2, Zenon
<1>6. QED
  BY <1>2, <1>4, <1>5

LEMMA OutKept ==
    ASSUME TypeOK, OutCovers, Excuseless' => Excuseless, ~ Handling' => ~ Handling, alarm' = alarm,
           Live' \subseteq Live, \A n \in Node : timer'[n].wakeup = timer[n].wakeup, Owed => Owed'
    PROVE  OutCovers'
<1>1. SUFFICES ASSUME Excuseless', ~ Handling'
               PROVE  Covers' /\ (alarm' # 0 \/ Live' = {} \/ Owed')
  BY DEF OutCovers
<1>2. Covers /\ (alarm # 0 \/ Live = {} \/ Owed)
  BY <1>1 DEF OutCovers
<1>3. Live \subseteq Node
  BY LinkedType
<1>4. Covers'
  BY <1>2, <1>3 DEF Covers
<1>5. QED
  BY <1>2, <1>4

(* A step after which the program is elsewhere. *)
LEMMA Elsewhere ==
    ASSUME ~ (Top'.fn = "sigalrm" /\ Top'.pc \in {"run", "end"}),
           ~ (Top'.fn = "add" /\ Top'.pc = "linked")
    PROVE  RunIsNotNext' /\ LooksAgain' /\ EndCovers'
  BY DEF RunIsNotNext, LooksAgain, EndCovers

(* Accidents are not forgotten. *)
LEMMA LapseGrows ==
    ASSUME lapse \subseteq lapse'
    PROVE  (Known' => Known) /\ (Excuseless' => Excuseless)
  BY DEF Known, Excuseless

(* No step but the last one of a shell that is killed leaves it dead. *)
LEMMA Mains ==
    ASSUME Typed, [Next]_vars, ~ Killed
    PROVE  \A f \in ToSet(stack') : f.fn = "main" /\ f.pc = "dead" => f \in ToSet(stack)
<1>0. TypeOK /\ GoodStack(stack) /\ ToSet(stack) = {Top} \cup ToSet(Tail(stack))
  BY TopFacts, GoodPop DEF Typed
<1>1. CASE stack' = stack
  BY <1>1
<1>2. CASE Signal
  BY <1>2, SignalDoes
<1>3. CASE Scan
  <2>1. PICK tp \in Node \cup {Nil}, min \in Node \cup {Nil} : Round(tp, min)
    BY <1>0, <1>3, ScanIsRound
  <2>2. ToSet(stack') = {Top'} \cup ToSet(Tail(stack)) /\ Top'.fn = "sigalrm"
    BY <2>1, ScanTop
  <2>3. QED
    BY <1>0, <2>2
<1>4. CASE Run
  BY <1>0, <1>4, RunTop
<1>5. CASE ActionEnd \/ End \/ AddReturn
  <2>1. stack' = Tail(stack)
    BY <1>5 DEF ActionEnd, End, AddReturn
  <2>2. QED
    BY <1>0, <2>1
<1>6. CASE Jump
  <2>1. ToSet(stack') \subseteq ToSet(stack) \cup MainFrame /\ GoodStack(stack')
        /\ (Top'.fn = "main" => stack' = <<Top'>> /\ Top'.pc = "idle")
        /\ (Top'.fn # "main" => Top'.fn = "action")
    BY <1>6, JumpTop
  <2>2. CASE Top'.fn = "main"
    <3>1. ToSet(stack') = {Top'} \cup ToSet(Tail(stack')) /\ ToSet(Tail(stack')) = {}
      BY <2>1, <2>2, GoodPop, GoodTop DEF Top
    <3>2. QED
      BY <2>1, <2>2, <3>1
  <2>3. CASE Top'.fn # "main"
    BY <1>6, <2>1, <2>3, JumpTop
  <2>4. QED
    BY <2>2, <2>3
<1>7. CASE AddTake
  BY <1>0, <1>7, AddTakeTop
<1>8. CASE AddLink
  BY <1>0, <1>8, AddLinkDoes
<1>9. CASE AddLinked
  <2> DEFINE pc == IF Deferred THEN "call" ELSE "return"
  <2>1. Running("add") /\ Top.pc = "linked" /\ stack' = At(pc) /\ pc \in {"call", "return"}
    BY <1>9 DEF AddLinked, Adding
  <2> HIDE DEF pc
  <2>2. Top'.fn = "add" /\ ToSet(stack') = {Top'} \cup ToSet(Tail(stack))
    BY <2>1, AddGoes
  <2>3. QED
    BY <1>0, <2>2
<1>10. CASE AddCall
  <2>1. PICK g \in Frame : g.fn = "add" /\ ToSet(stack') = {Top', g} \cup ToSet(Tail(stack))
    BY <1>10, AddCallDoes
  <2>2. Top'.fn = "sigalrm"
    BY <1>10, AddCallDoes
  <2>3. QED
    BY <1>0, <2>1, <2>2
<1>11. ASSUME NEW c \in Alarm, NEW t \in Delay, NEW repeat \in BOOLEAN, SetAlarm(c, t, repeat)
       PROVE  \A f \in ToSet(stack') : f.fn = "main" => f \in ToSet(stack)
  <2>1. Top' = Add(c, t, repeat) /\ ToSet(stack') = {Top'} \cup ToSet(stack)
    BY <1>11, SetAlarmDoes
  <2>2. QED
    BY <2>1 DEF Add
<1>12. CASE Read
  <2>1. GoodStack(stack')
    BY <1>12, ReadDoes
  <2>2. CASE stack' = <<Top'>> /\ Top'.fn = "main" /\ Top'.pc = "wait"
    <3>1. ToSet(stack') = {Top'} \cup ToSet(Tail(stack')) /\ ToSet(Tail(stack')) = {}
      BY <2>1, <2>2, GoodPop, GoodTop DEF Top
    <3>2. QED
      BY <2>2, <3>1
  <2>3. CASE \E t \in Delay, g \in MainFrame :
                /\ Top' = Add("read", t, FALSE) /\ g.pc = "wait" /\ ToSet(stack') = {Top', g}
    BY <2>3 DEF Add
  <2>4. QED
    BY <1>12, <2>2, <2>3, ReadDoes
<1>13. CASE ReadEnd
  BY <1>13, ReadEndDoes
<1>14. (Tick \/ (\E c \in Alarm : UnsetAlarm(c)) \/ UNCHANGED vars) => stack' = stack
  BY DEF Tick, UnsetAlarm, vars
<1>15. QED
  BY <1>1, <1>2, <1>3, <1>4, <1>5, <1>6, <1>7, <1>8, <1>9, <1>10, <1>11, <1>12, <1>13, <1>14
     DEF Next, Step

LEMMA LapseNext ==
    ASSUME [Next]_vars
    PROVE  lapse \subseteq lapse'
<1>1. \A c \in Alarm, t \in Delay, repeat \in BOOLEAN :
         UnsetAlarm(c) \/ SetAlarm(c, t, repeat) => lapse \subseteq lapse'
  BY DEF UnsetAlarm, SetAlarm, Orphaned
<1>2. Read \/ ReadEnd \/ Tick \/ UNCHANGED vars => lapse' = lapse
  BY DEF Read, ReadEnd, Tick, vars
<1>3. Signal \/ Killed \/ Jump \/ AddReturn => lapse \subseteq lapse'
  BY DEF Signal, Killed, Jump, AddReturn
<1>4. Scan \/ Run \/ ActionEnd \/ End \/ AddTake \/ AddLink \/ AddLinked \/ AddCall => lapse' = lapse
  BY DEF Scan, Run, ActionEnd, End, AddTake, AddLink, AddLinked, AddCall
<1>5. \A c \in Alarm : UnsetAlarm(c) => lapse \subseteq lapse'
  BY DEF UnsetAlarm, Orphaned
<1>6. QED
  BY <1>1, <1>2, <1>3, <1>4, <1>5 DEF Next, Step

LEMMA DeadNext ==
    ASSUME Typed, AlarmFor, DeadLost, [Next]_vars
    PROVE  DeadLost'
<1>1. lapse \subseteq lapse' /\ (Known' => Known)
  BY LapseNext, LapseGrows
<1>2. CASE Killed
  <2>1. alarm # 0 /\ ~ sigalrmset
    BY <1>2 DEF Killed, Due
  <2>2. ~ Known
    BY <2>1 DEF AlarmFor
  <2>3. QED
    BY <1>1, <2>2 DEF DeadLost
<1>3. CASE ~ Killed
  <2>1. \A f \in ToSet(stack') : f.fn = "main" /\ f.pc = "dead" => f \in ToSet(stack)
    BY <1>3, Mains
  <2>2. QED
    BY <1>1, <2>1 DEF DeadLost
<1>4. QED
  BY <1>2, <1>3

LEMMA AlarmsSame ==
    ASSUME Typed, Alarms, now' \in Nat, now <= now',
           UNCHANGED <<alarm, sigalrmset, timer, list, tpmin, time_state, left, stack, lapse>>
    PROVE  Alarms'
<1>1. Top' = Top /\ Live' = Live /\ Handling' = Handling /\ ByMain' = ByMain
  BY DEF Top, Live, Linked, Handling, ByMain
<1>2. /\ Known' = Known /\ Excuseless' = Excuseless /\ AtAdd' = AtAdd /\ AtScan' = AtScan
      /\ Owed' = Owed /\ Covers' = Covers
  BY <1>1 DEF Known, Excuseless, AtAdd, AtScan, Owed, Covers
<1>3. TpminLinked' /\ TpminNext'
  BY <1>1, TpminKept DEF Typed, Alarms
<1>4. RunIsNotNext' /\ LooksAgain'
  BY <1>1 DEF Alarms, RunIsNotNext, LooksAgain
<1>5. AlarmFor'
  BY <1>1, <1>2 DEF Alarms, AlarmFor
<1>6. EndCovers' /\ OutCovers'
  BY <1>1, <1>2 DEF Alarms, EndCovers, OutCovers
<1>7. LeftFor'
  BY <1>1, <1>2, LeftKept DEF Typed, Alarms
<1>8. QED
  BY <1>3, <1>4, <1>5, <1>6, <1>7 DEF Alarms

LEMMA AlarmsTick ==
    ASSUME Typed, Alarms, Tick
    PROVE  Alarms'
<1>1. now \in Nat
  BY Numbers DEF Typed, TypeOK, Time
<1>2. now' \in Nat /\ now <= now'
  BY <1>1 DEF Tick
<1>3. QED
  BY <1>2, AlarmsSame DEF Tick

LEMMA AlarmsSignal ==
    ASSUME Typed, DeadLost, Alarms, Signal
    PROVE  Alarms'
<1>1. /\ TypeOK /\ GoodStack(stack) /\ alarm' = 0 /\ left' = 0 /\ GoodStack(stack')
      /\ lapse' \in {lapse, lapse \cup {"drop"}}
      /\ Top.fn = "sigalrm" /\ Top.pc = "end" => "drop" \in lapse'
      /\ UNCHANGED <<now, sigalrmset, timer, list, free, tpmin, handle, added>>
  BY SignalDoes DEF Typed
<1>2. Live' = Live
  BY <1>1 DEF Live, Linked
<1>3. TpminLinked' /\ TpminNext'
  BY <1>1, <1>2, TpminKept, Numbers DEF Alarms, TypeOK, Time
<1>4. AlarmFor' /\ LeftFor'
  BY <1>1 DEF AlarmFor, LeftFor
<1>5. Covers'
  <2>1. Live \subseteq Node /\ \A n \in Node : timer[n].wakeup \in Nat
    BY <1>1, LinkedType, TimerType
  <2>2. QED
    BY <1>1, <1>2, <2>1 DEF Covers
<1>6. CASE stack' = stack /\ Top' = Top
  <2>1. RunIsNotNext'
    BY <1>1, <1>6 DEF Alarms, RunIsNotNext
  <2>2. \/ Top.fn = "sigalrm"
        \/ Top.fn = "add" /\ Top.pc = "linked" /\ "DEFER_SIGALRM" \in time_state'
        \/ Top.fn = "main" /\ Top.pc = "dead"
    <3>1. \/ Top.fn = "sigalrm"
          \/ Top.fn = "add" /\ Top.pc = "linked" /\ "DEFER_SIGALRM" \in time_state'
          \/ Top.fn = "main" /\ Top.pc = "dead"
          \/ Top'.fn = "sigalrm"
      BY SignalDoes
    <3>2. QED
      BY <1>6, <3>1
  <2>3. LooksAgain'
    BY <1>6, <2>2 DEF LooksAgain
  <2>4. EndCovers'
    BY <1>1, <1>6 DEF EndCovers, Excuseless
  <2>5. OutCovers'
    <3>1. Handling' = Handling
      BY <1>6 DEF Handling
    <3>2. Top.fn = "sigalrm" => Handling
      BY <1>1, Inside
    <3>3. Top.fn = "main" /\ Top.pc = "dead" => ~ Known
      BY <1>1, TopFacts, GoodPop DEF DeadLost
    <3>4. ~ Known => ~ Excuseless'
      BY <1>1 DEF Known, Excuseless
    <3>5. QED
      BY <1>5, <1>6, <2>2, <3>1, <3>2, <3>3, <3>4 DEF OutCovers, Owed
  <2>6. QED
    BY <1>3, <1>4, <2>1, <2>3, <2>4, <2>5 DEF Alarms
<1>7. CASE Top'.fn = "sigalrm" /\ Top'.pc = "scan"
  <2>1. RunIsNotNext' /\ LooksAgain' /\ EndCovers'
    BY <1>7, Elsewhere
  <2>2. Handling'
    BY <1>1, <1>7, TopFacts, GoodPop, GoodTop DEF Handling, Has, Top
  <2>3. QED
    BY <1>3, <1>4, <2>1, <2>2 DEF Alarms, OutCovers
<1>8. QED
  BY <1>6, <1>7, SignalDoes

LEMMA AlarmsKilled ==
    ASSUME Typed, Alarms, Killed
    PROVE  Alarms'
<1>1. /\ TypeOK /\ GoodStack(stack) /\ Due /\ ~ sigalrmset /\ alarm' = 0 /\ lapse \subseteq lapse'
      /\ stack' = <<[fn |-> "main", pc |-> "dead"]>>
      /\ UNCHANGED <<now, sigalrmset, timer, list, free, tpmin, time_state, left, handle, added>>
  BY DEF Typed, Killed
<1>2. Live' = Live
  BY <1>1 DEF Live, Linked
<1>3. TpminLinked' /\ TpminNext'
  BY <1>1, <1>2, TpminKept, Numbers DEF Alarms, TypeOK, Time
<1>4. ~ Known
  BY <1>1 DEF Alarms, AlarmFor, Due
<1>5. ~ Known' /\ ~ Excuseless'
  BY <1>1, <1>4 DEF Known, Excuseless
<1>6. Top'.fn = "main"
  BY <1>1 DEF Top
<1>7. RunIsNotNext' /\ LooksAgain' /\ EndCovers'
  BY <1>6, Elsewhere
<1>8. QED
  BY <1>3, <1>5, <1>7 DEF Alarms, AlarmFor, LeftFor, OutCovers

(* The steps that only move on in the stack and perhaps delete a timer. *)
LEMMA AlarmsKept ==
    ASSUME Typed, Alarms, GoodStack(stack'),
           now' = now, alarm' = alarm, tpmin' = tpmin, list' = list, lapse \subseteq lapse',
           sigalrmset /\ tpmin # Nil => sigalrmset',
           left' \in {left, 0}, left' # 0 /\ Handling => Handling',
           Live' \subseteq Live, \A n \in Node : timer'[n].wakeup = timer[n].wakeup,
           ~ (Top'.fn = "sigalrm" /\ Top'.pc \in {"run", "end"}),
           ~ (Top'.fn = "add" /\ Top'.pc = "linked"),
           Known' /\ alarm # 0 =>
              /\ Handling' => ByMain' \/ (Handling /\ (ByMain => ByMain'))
              /\ \/ ~ Handling' /\ ~ AtAdd'
                 \/ tpmin \in Live /\ tpmin \in Live'
                 \/ AtAdd /\ ByMain' /\ (AtAdd' \/ AtScan') /\ Live' = Live,
           \/ OutCovers'
           \/ (~ Handling' => ~ Handling) /\ (Owed => Owed')
    PROVE  Alarms'
<1>1. TypeOK /\ (Known' => Known) /\ (Excuseless' => Excuseless)
  BY LapseGrows DEF Typed
<1>2. now \in Nat
  BY <1>1, Numbers DEF TypeOK, Time
<1>3. TpminLinked' /\ TpminNext'
  BY <1>1, <1>2, TpminKept DEF Alarms
<1>4. RunIsNotNext' /\ LooksAgain' /\ EndCovers'
  BY Elsewhere
<1>5. AlarmFor'
  BY <1>1, AlarmForKept DEF Alarms
<1>6. LeftFor'
  BY <1>1, <1>2, LeftKept DEF Alarms
<1>7. OutCovers'
  BY <1>1, OutKept DEF Alarms
<1>8. QED
  BY <1>3, <1>4, <1>5, <1>6, <1>7 DEF Alarms

(* An action, as well as sigalrm before it calls one or ends, is inside sigalrm: if the alarm
   is set for a timer that is next then that timer is not deleted. *)
LEMMA InsideLive ==
    ASSUME Typed, Alarms, Known, alarm # 0,
           Top.fn = "action" \/ (Top.fn = "sigalrm" /\ Top.pc # "scan")
    PROVE  tpmin \in Live
<1>1. Handling
  BY Inside DEF Typed
<1>2. ~ AtAdd /\ ~ AtScan
  BY DEF AtAdd, AtScan
<1>3. QED
  BY <1>1, <1>2 DEF Alarms, AlarmFor

LEMMA AlarmsRun ==
    ASSUME Typed, Alarms, Run
    PROVE  Alarms'
<1>1. /\ TypeOK /\ GoodStack(stack) /\ Top.fn = "sigalrm" /\ Top.pc = "run" /\ left' = left
      /\ UNCHANGED <<now, alarm, sigalrmset, list, tpmin, left, lapse>>
      /\ timer' = IF timer[Top.tp].incr = 0 THEN [timer EXCEPT ![Top.tp].action = 0] ELSE timer
  BY DEF Typed, Run, Running
<1>2. /\ GoodStack(stack') /\ Top'.fn = "action" /\ Top.tp \in Node
      /\ GoodStack(Tail(stack')) /\ Tail(stack')[1].fn = Top.fn /\ Tail(Tail(stack')) = Tail(stack)
  <2>1. Top' = [fn |-> "action", action |-> timer[Top.tp].action, handle |-> timer[Top.tp].handle]
    BY RunTop
  <2>2. Top'.fn = "action"
    BY <2>1
  <2>3. QED
    BY <2>2, RunTop
<1>3. /\ \A n \in Node : timer'[n].wakeup = timer[n].wakeup
      /\ \A n \in Node : timer'[n].action # 0 => timer[n].action # 0
      /\ \A n \in Node : n # Top.tp \/ timer[Top.tp].incr # 0 => timer'[n].action = timer[n].action
  <2>1. CASE timer[Top.tp].incr # 0
    BY <1>1, <2>1
  <2>2. CASE timer[Top.tp].incr = 0
    <3>1. timer \in [Node -> Timer] /\ timer[Top.tp] \in Timer
      BY <1>1, <1>2 DEF TypeOK
    <3> DEFINE t == [timer[Top.tp] EXCEPT !.action = 0]
    <3>2. t.wakeup = timer[Top.tp].wakeup /\ t.action = 0
      BY <3>1 DEF Timer
    <3>3. timer' = [timer EXCEPT ![Top.tp] = t]
      BY <1>1, <2>2
    <3> HIDE DEF t
    <3>4. timer'[Top.tp] = t /\ \A n \in Node : n # Top.tp => timer'[n] = timer[n]
      BY <1>2, <3>1, <3>3
    <3>5. QED
      BY <2>2, <3>2, <3>4
  <2>3. QED
    BY <2>1, <2>2
<1>4. Live' \subseteq Live /\ Linked' = Linked
  BY <1>1, <1>3, LinkedType DEF Live, Linked
<1>5. Known /\ alarm # 0 => tpmin \in Live'
  <2>1. ASSUME Known, alarm # 0
        PROVE  tpmin \in Live'
    <3>1. tpmin \in Live
      BY <1>1, <2>1, InsideLive
    <3>2. tpmin # Top.tp \/ timer[Top.tp].incr # 0
      BY <1>1 DEF Alarms, RunIsNotNext
    <3>3. tpmin \in Node
      BY <1>1, <3>1, LinkedType
    <3>4. QED
      BY <1>1, <1>3, <1>4, <3>1, <3>2, <3>3 DEF Live
  <2>2. QED
    BY <2>1
<1>6. Handling /\ Handling' /\ (ByMain => ByMain')
  BY <1>1, <1>2, Inside, CalledFrames
<1>7. Known' = Known
  BY <1>1 DEF Known
<1>8. QED
  BY <1>1, <1>2, <1>3, <1>4, <1>5, <1>6, <1>7, AlarmsKept DEF OutCovers

(* The steps that leave the timers alone. *)
LEMMA AlarmsMove ==
    ASSUME Typed, Alarms, GoodStack(stack'),
           UNCHANGED <<now, alarm, timer, list, tpmin>>, lapse \subseteq lapse',
           sigalrmset /\ tpmin # Nil => sigalrmset',
           left' \in {left, 0}, left' # 0 /\ Handling => Handling',
           ~ (Top'.fn = "sigalrm" /\ Top'.pc \in {"run", "end"}),
           ~ (Top'.fn = "add" /\ Top'.pc = "linked"),
           Known' /\ alarm # 0 =>
              /\ Handling' => ByMain' \/ (Handling /\ (ByMain => ByMain'))
              /\ \/ ~ Handling' /\ ~ AtAdd'
                 \/ tpmin \in Live
                 \/ AtAdd /\ ByMain' /\ (AtAdd' \/ AtScan'),
           \/ OutCovers'
           \/ (~ Handling' => ~ Handling) /\ (Owed => Owed')
    PROVE  Alarms'
<1>1. Live' = Live
  BY DEF Live, Linked
<1>2. QED
  BY <1>1, AlarmsKept

LEMMA AlarmsActionEnd ==
    ASSUME Typed, Alarms, ActionEnd
    PROVE  Alarms'
<1>1. /\ GoodStack(stack) /\ Top.fn = "action" /\ stack' = Tail(stack)
      /\ UNCHANGED <<now, alarm, sigalrmset, timer, list, tpmin, left, lapse>>
  BY DEF Typed, ActionEnd, Running
<1>2. GoodStack(stack') /\ Top'.fn = "sigalrm" /\ Top'.pc = "scan"
  BY <1>1, Ends DEF Above
<1>3. Handling /\ Handling' /\ (ByMain => ByMain')
  BY <1>1, <1>2, Inside, PoppedFrames
<1>4. Known' /\ alarm # 0 => tpmin \in Live
  BY <1>1, InsideLive DEF Known
<1>5. QED
  BY <1>1, <1>2, <1>3, <1>4, AlarmsMove DEF OutCovers

LEMMA AlarmsJump ==
    ASSUME Typed, Alarms, Jump
    PROVE  Alarms'
<1>1. TypeOK /\ UNCHANGED <<now, alarm, sigalrmset, timer, list, free, tpmin, time_state, handle, added>>
  BY DEF Typed, Jump
<1>2. /\ GoodStack(stack') /\ Top.fn = "action" /\ Top'.fn \in {"main", "action"}
      /\ Top'.fn = "main" => left' = 0
      /\ Top'.fn # "main" => Top'.fn = "action" /\ left' = left
      /\ lapse \subseteq lapse'
      /\ "jump" \notin lapse' => \A n \in Live : ~ (timer[n].wakeup <= now) /\ alarm # 0
  BY JumpTop
<1>3. Handling /\ (ByMain /\ Handling' => ByMain')
  BY JumpFrames
<1>4. Top'.fn = "action" => Handling'
  <2>1. Top' = stack'[1] /\ ToSet(stack') = {stack'[1]} \cup ToSet(Tail(stack'))
        /\ (stack'[1].fn # "main" => GoodStack(Tail(stack')) /\ Tail(stack')[1] = stack'[2]
                                     /\ Above(stack'[1], stack'[2]))
    BY <1>2, GoodPop, GoodTop DEF Top
  <2>2. ASSUME Top'.fn = "action"
        PROVE  Handling'
    <3>1. GoodStack(Tail(stack')) /\ Tail(stack')[1].fn = "sigalrm"
      BY <2>1, <2>2 DEF Above
    <3>2. ToSet(Tail(stack')) = {Tail(stack')[1]} \cup ToSet(Tail(Tail(stack')))
      BY <3>1, GoodPop
    <3>3. QED
      BY <2>1, <3>1, <3>2 DEF Handling, Has
  <2>3. QED
    BY <2>2
<1>5. Known' => Known
  BY <1>2, LapseGrows
<1>6. Known' /\ alarm # 0 => tpmin \in Live
  BY <1>2, <1>5, InsideLive
<1>7. OutCovers'
  <2>1. SUFFICES ASSUME Excuseless'
                 PROVE  Covers' /\ (alarm' # 0 \/ Live' = {})
    BY DEF OutCovers
  <2>2. Known /\ Live' = Live /\ \A n \in Live : ~ (timer[n].wakeup <= now) /\ alarm # 0
    BY <1>1, <1>2, <1>5, <2>1 DEF Excuseless, Known, Live, Linked
  <2>3. ASSUME NEW n \in Live
        PROVE  alarm <= timer[n].wakeup
    <3>1. alarm # 0 /\ tpmin # Nil /\ timer[tpmin].wakeup <= timer[n].wakeup
      BY <2>2, <2>3 DEF Alarms, TpminNext
    <3>2. alarm <= timer[tpmin].wakeup
      BY <2>2, <3>1 DEF Alarms, AlarmFor
    <3>3. alarm \in Nat /\ timer[tpmin].wakeup \in Nat /\ timer[n].wakeup \in Nat
      BY <1>1, <2>3, <3>1, LinkedType, TimerType DEF TypeOK
    <3>4. QED
      BY <3>1, <3>2, <3>3
  <2>4. QED
    BY <1>1, <2>2, <2>3 DEF Covers
<1>8. Top'.fn # "sigalrm" /\ Top'.fn # "add"
  BY <1>2
<1>9. left' \in {left, 0} /\ (left' # 0 /\ Handling => Handling')
  BY <1>2, <1>4
<1>10. QED
  BY <1>1, <1>2, <1>3, <1>6, <1>7, <1>8, <1>9, AlarmsMove

LEMMA AlarmsEnd ==
    ASSUME Typed, Alarms, End
    PROVE  Alarms'
<1>1. /\ TypeOK /\ GoodStack(stack) /\ Top.fn = "sigalrm" /\ Top.pc = "end" /\ stack' = Tail(stack)
      /\ sigalrmset' = (sigalrmset /\ tpmin # Nil)
      /\ left' = IF \E i \in DOMAIN stack' : stack'[i].fn = "sigalrm" THEN left ELSE 0
      /\ UNCHANGED <<now, alarm, timer, list, tpmin, lapse>>
  BY DEF Typed, End, Running, StillCaught
<1>2. GoodStack(stack') /\ Top'.fn # "sigalrm" /\ ~ (Top'.fn = "add" /\ Top'.pc = "linked")
  BY <1>1, Ends DEF Above
<1>3. Handling /\ (ByMain /\ Handling' => ByMain')
  BY <1>1, PoppedFrames
<1>4. Known' /\ alarm # 0 => tpmin \in Live
  BY <1>1, InsideLive DEF Known
<1>5. left' \in {left, 0} /\ (left' # 0 /\ Handling => Handling')
  BY <1>1 DEF Handling, Has, ToSet
<1>6. OutCovers'
  <2>1. Live' = Live /\ Excuseless' = Excuseless
    BY <1>1 DEF Live, Linked, Excuseless
  <2>2. Excuseless => Covers /\ (alarm # 0 \/ Live = {})
    BY <1>1 DEF Alarms, EndCovers
  <2>3. QED
    BY <1>1, <2>1, <2>2 DEF OutCovers, Covers
<1>7. QED
  BY <1>1, <1>2, <1>3, <1>4, <1>5, <1>6, AlarmsMove

LEMMA AlarmsAddTake ==
    ASSUME Typed, Alarms, AddTake
    PROVE  Alarms'
<1>1. /\ Running("add") /\ Top.pc = "take" /\ Top.fn = "add"
      /\ UNCHANGED <<now, alarm, sigalrmset, timer, list, tpmin, time_state, left, lapse>>
  BY DEF AddTake, Adding, Running
<1>2. GoodStack(stack) /\ GoodStack(stack') /\ Top'.fn = "add" /\ Top'.pc = "fill" /\ Tail(stack') = Tail(stack)
  BY AddTakeTop DEF Typed
<1>3. (Handling' <=> Handling) /\ (ByMain' <=> ByMain)
  BY <1>1, <1>2, SameFrames
<1>4. Known' /\ alarm # 0 => tpmin \in Live \/ (~ Handling' /\ ~ AtAdd')
  BY <1>1, <1>2, <1>3 DEF Known, Alarms, AlarmFor, AtAdd, AtScan
<1>5. Owed => Owed'
  BY <1>1 DEF Owed
<1>6. QED
  BY <1>1, <1>2, <1>3, <1>4, <1>5, AlarmsMove

LEMMA AlarmsAddLinked ==
    ASSUME Typed, Alarms, AddLinked
    PROVE  Alarms'
<1> DEFINE pc == IF Deferred THEN "call" ELSE "return"
<1>1. /\ Running("add") /\ Top.pc = "linked" /\ Top.fn = "add" /\ stack' = At(pc)
      /\ UNCHANGED <<now, alarm, sigalrmset, timer, list, tpmin, left, lapse>>
  BY DEF AddLinked, Adding, Running
<1>2. pc = IF "DEFER_SIGALRM" \in time_state THEN "call" ELSE "return"
  BY DEF Deferred
<1> HIDE DEF pc
<1>3. GoodStack(stack) /\ GoodStack(stack') /\ Top'.fn = "add" /\ Top'.pc = pc /\ Tail(stack') = Tail(stack)
  BY <1>1, <1>2, AddGoes DEF Typed
<1>4. (Handling' <=> Handling) /\ (ByMain' <=> ByMain)
  BY <1>1, <1>3, SameFrames
<1>5. Top.fn = "add" => (ByMain <=> ~ Handling)
  BY <1>3, Inside
<1>6. ASSUME Known', alarm # 0
      PROVE  \/ ~ Handling' /\ ~ AtAdd'
             \/ tpmin \in Live
             \/ AtAdd /\ ByMain' /\ (AtAdd' \/ AtScan')
  <2>1. CASE pc = "return"
    BY <1>1, <1>2, <2>1 DEF Alarms, LooksAgain
  <2>2. CASE pc = "call"
    <3>1. AtAdd /\ AtAdd'
      BY <1>1, <1>3, <2>2 DEF AtAdd
    <3>2. tpmin \in Live \/ ByMain
      BY <1>1, <1>6, <3>1 DEF Known, Alarms, AlarmFor
    <3>3. QED
      BY <1>4, <3>1, <3>2
  <2>3. QED
    BY <1>2, <2>1, <2>2
<1>7. Owed => Owed'
  BY <1>1, <1>2, <1>3 DEF Owed
<1>8. Top'.pc # "linked" /\ Top'.fn # "sigalrm"
  BY <1>2, <1>3
<1>9. QED
  BY <1>1, <1>3, <1>4, <1>6, <1>7, <1>8, AlarmsMove

LEMMA AlarmsAddReturn ==
    ASSUME Typed, Alarms, AddReturn
    PROVE  Alarms'
<1>1. /\ Running("add") /\ Top.pc \in {"return", "called"} /\ Top.fn = "add" /\ stack' = Tail(stack)
      /\ UNCHANGED <<now, alarm, sigalrmset, timer, list, tpmin, time_state, left>>
      /\ lapse \subseteq lapse'
  BY DEF AddReturn, Adding, Running
<1>2. GoodStack(stack) /\ GoodStack(stack') /\ Top'.fn \in {"main", "action"}
  BY <1>1, Ends DEF Typed, Above
<1>3. (Handling' <=> Handling) /\ (ByMain /\ Handling' => ByMain')
  BY <1>1, <1>2, PoppedFrames
<1>4. Known' => Known
  BY <1>1, LapseGrows
<1>5. Known' /\ alarm # 0 => tpmin \in Live \/ (~ Handling' /\ ~ AtAdd')
  BY <1>1, <1>2, <1>3, <1>4 DEF Alarms, AlarmFor, AtAdd, AtScan
<1>6. Owed => Owed'
  BY <1>1 DEF Owed
<1>7. Top'.fn # "sigalrm" /\ Top'.fn # "add"
  BY <1>2
<1>8. QED
  BY <1>1, <1>2, <1>3, <1>5, <1>6, <1>7, AlarmsMove

(* A user deletes its timer. *)
LEMMA UserDeletes ==
    ASSUME TypeOK, NEW c \in Client, timer' = Deleted(c), list' = list
    PROVE  /\ Live' \subseteq Live /\ \A n \in Node : timer'[n].wakeup = timer[n].wakeup
           /\ lapse' = Orphaned(c) =>
                 /\ lapse \subseteq lapse'
                 /\ Known' /\ Top.fn = "action" /\ tpmin \in Live => tpmin \in Live'
<1>1. /\ \A n \in Node : timer'[n].wakeup = timer[n].wakeup
      /\ \A n \in Node : timer'[n].action = IF n = handle[c] THEN 0 ELSE timer[n].action
  BY DeletedDoes
<1>2. Live \subseteq Node /\ Linked' = Linked /\ Linked \subseteq Node
  BY LinkedType DEF Linked
<1>3. Live' \subseteq Live
  BY <1>1, <1>2 DEF Live
<1>4. lapse' = Orphaned(c) => lapse \subseteq lapse'
  BY DEF Orphaned
<1>5. ASSUME lapse' = Orphaned(c), Known', Top.fn = "action", tpmin \in Live
      PROVE  tpmin \in Live'
  <2>1. tpmin \in Node /\ tpmin # Nil
    BY <1>2, <1>5, Numbers
  <2>2. handle[c] # tpmin
    BY <1>5, <2>1 DEF Known, Orphaned
  <2>3. QED
    BY <1>1, <1>2, <1>5, <2>1, <2>2 DEF Live
<1>6. QED
  BY <1>1, <1>3, <1>4, <1>5

LEMMA AlarmsSetAlarm ==
    ASSUME Typed, Alarms, NEW c \in Alarm, NEW t \in Delay, NEW repeat \in BOOLEAN,
           SetAlarm(c, t, repeat)
    PROVE  Alarms'
<1>1. /\ TypeOK /\ GoodStack(stack) /\ GoodStack(stack') /\ Tail(stack') = stack
      /\ Top.fn \in {"main", "action"}
      /\ timer' = Deleted(c) /\ lapse' = Orphaned(c) /\ time_state = {}
      /\ UNCHANGED <<now, alarm, sigalrmset, list, tpmin, left>>
  BY SetAlarmDoes, UserRuns DEF Typed
<1>2. Top'.fn = "add" /\ Top'.pc = "take"
  BY SetAlarmDoes DEF Add
<1>3. /\ Live' \subseteq Live /\ \A n \in Node : timer'[n].wakeup = timer[n].wakeup
      /\ lapse \subseteq lapse'
      /\ Known' /\ Top.fn = "action" /\ tpmin \in Live => tpmin \in Live'
  BY <1>1, UserDeletes DEF Client
<1>4. (Handling' <=> Handling) /\ (ByMain => ByMain')
  BY <1>1, <1>2, PushedFrames
<1>5. Known' => Known
  BY <1>3, LapseGrows
<1>6. Known' /\ alarm # 0 => \/ ~ Handling' /\ ~ AtAdd'
                             \/ tpmin \in Live /\ tpmin \in Live'
  <2>1. CASE Top.fn = "main"
    BY <1>1, <1>2, <1>4, <2>1, Inside DEF AtAdd
  <2>2. CASE Top.fn = "action"
    BY <1>3, <1>5, <2>2, InsideLive
  <2>3. QED
    BY <1>1, <2>1, <2>2
<1>7. ~ Owed
  BY <1>1 DEF Owed
<1>8. QED
  BY <1>1, <1>2, <1>3, <1>4, <1>6, <1>7, AlarmsKept

LEMMA AlarmsUnsetAlarm ==
    ASSUME Typed, Alarms, NEW c \in Alarm, UnsetAlarm(c)
    PROVE  Alarms'
<1>1. /\ TypeOK /\ GoodStack(stack) /\ Top.fn \in {"main", "action"} /\ time_state = {}
      /\ timer' = Deleted(c) /\ lapse' = Orphaned(c) /\ stack' = stack
      /\ UNCHANGED <<now, alarm, sigalrmset, list, tpmin, left>>
  BY UserRuns DEF Typed, UnsetAlarm
<1>2. Top' = Top /\ Handling' = Handling /\ ByMain' = ByMain
  BY <1>1 DEF Top, Handling, ByMain
<1>3. /\ Live' \subseteq Live /\ \A n \in Node : timer'[n].wakeup = timer[n].wakeup
      /\ lapse \subseteq lapse'
      /\ Known' /\ Top.fn = "action" /\ tpmin \in Live => tpmin \in Live'
  BY <1>1, UserDeletes DEF Client
<1>4. Known' => Known
  BY <1>3, LapseGrows
<1>5. Known' /\ alarm # 0 => \/ ~ Handling' /\ ~ AtAdd'
                             \/ tpmin \in Live /\ tpmin \in Live'
  <2>1. CASE Top.fn = "main"
    BY <1>1, <1>2, <2>1, Inside DEF AtAdd
  <2>2. CASE Top.fn = "action"
    BY <1>3, <1>4, <2>2, InsideLive
  <2>3. QED
    BY <1>1, <2>1, <2>2
<1>6. ~ Owed
  BY <1>1 DEF Owed
<1>7. QED
  BY <1>1, <1>2, <1>3, <1>5, <1>6, AlarmsKept

LEMMA AlarmsRead ==
    ASSUME Typed, Alarms, Read
    PROVE  Alarms'
<1>1. /\ Idle /\ TypeOK /\ GoodStack(stack) /\ GoodStack(stack') /\ time_state = {}
      /\ UNCHANGED <<now, alarm, sigalrmset, timer, list, tpmin, left, lapse>>
  BY ReadDoes, UserRuns DEF Typed
<1>2. Top.fn = "main" /\ ~ Handling
  BY <1>1, Inside DEF Idle, Running
<1>3. /\ ~ Handling' /\ Top'.fn # "sigalrm"
      /\ Top'.fn = "add" => Top'.pc = "take"
  <2>1. CASE stack' = <<Top'>> /\ Top'.fn = "main" /\ Top'.pc = "wait"
    <3>1. ~ Handling'
      <4>1. ToSet(stack') = {Top'} \cup ToSet(Tail(stack')) /\ ToSet(Tail(stack')) = {}
        BY <1>1, <2>1, GoodPop, GoodTop DEF Top
      <4>2. QED
        BY <2>1, <4>1 DEF Handling, Has
    <3>2. QED
      BY <2>1, <3>1
  <2>2. ASSUME NEW t \in Delay, NEW g \in MainFrame,
               Top' = Add("read", t, FALSE), g.fn = "main", ToSet(stack') = {Top', g}
        PROVE  ~ Handling' /\ Top'.fn = "add" /\ Top'.pc = "take"
    <3>1. Top'.fn = "add" /\ Top'.pc = "take"
      BY <2>2 DEF Add
    <3>2. QED
      BY <2>2, <3>1 DEF Handling, Has
  <2>3. QED
    BY <2>1, <2>2, ReadDoes
<1>4. ~ Owed
  BY <1>1, <1>2 DEF Owed
<1>5. ~ AtAdd'
  BY <1>3 DEF AtAdd
<1>6. QED
  BY <1>1, <1>2, <1>3, <1>4, <1>5, AlarmsMove

LEMMA AlarmsReadEnd ==
    ASSUME Typed, Alarms, ReadEnd
    PROVE  Alarms'
<1>1. /\ TypeOK /\ GoodStack(stack) /\ GoodStack(stack')
      /\ Top'.fn = "main" /\ Top.fn = "main" /\ Top.pc = "wait"
      /\ timer' = Deleted("read")
      /\ UNCHANGED <<now, alarm, sigalrmset, list, tpmin, time_state, left, lapse>>
  BY ReadEndDoes DEF Typed
<1>2. ~ Handling /\ (ToSet(stack') = {Top'} => ~ Handling')
  BY <1>1, Inside DEF Handling, Has
<1>3. ToSet(stack') = {Top'}
  BY ReadEndDoes
<1>4. Live' \subseteq Live /\ \A n \in Node : timer'[n].wakeup = timer[n].wakeup
  BY <1>1, UserDeletes DEF Client
<1>5. ~ AtAdd' /\ (Owed => Owed')
  BY <1>1 DEF AtAdd, Owed
<1>6. QED
  BY <1>1, <1>2, <1>3, <1>4, <1>5, AlarmsKept

LEMMA AlarmsAddCall ==
    ASSUME Typed, Alarms, AddCall
    PROVE  Alarms'
<1>1. /\ TypeOK /\ GoodStack(stack) /\ Top.fn = "add" /\ Top.pc = "call" /\ left' = 0
      /\ GoodStack(stack') /\ Top'.fn = "sigalrm" /\ Top'.pc = "scan" /\ alarm' \in {alarm, 0}
      /\ GoodStack(Tail(stack')) /\ Tail(stack')[1].fn = Top.fn /\ Tail(Tail(stack')) = Tail(stack)
      /\ UNCHANGED <<now, sigalrmset, timer, list, tpmin, lapse>>
  BY AddCallDoes DEF Typed, Running
<1>2. Live' = Live
  BY <1>1 DEF Live, Linked
<1>3. TpminLinked' /\ TpminNext'
  BY <1>1, <1>2, TpminKept, Numbers DEF Alarms, TypeOK, Time
<1>4. RunIsNotNext' /\ LooksAgain' /\ EndCovers'
  BY <1>1, Elsewhere
<1>5. (Handling => Handling') /\ (ByMain <=> ByMain') /\ (ByMain <=> ~ Handling)
  BY <1>1, CalledFrames, Inside
<1>6. AtAdd /\ AtScan' /\ Handling'
  <2>1. Handling'
    BY <1>1, TopFacts, GoodPop, GoodTop DEF Handling, Has, Top
  <2>2. QED
    BY <1>1, <2>1 DEF AtAdd, AtScan
<1>7. Known' = Known
  BY <1>1 DEF Known
<1>8. Known' /\ alarm' # 0 => tpmin \in Live \/ ByMain
  BY <1>1, <1>5, <1>7 DEF Alarms, AlarmFor
<1>9. AlarmFor'
  BY <1>1, <1>2, <1>5, <1>6, <1>7, <1>8, AlarmForKept DEF Alarms
<1>10. LeftFor' /\ OutCovers'
  BY <1>1, <1>6 DEF LeftFor, OutCovers
<1>11. QED
  BY <1>3, <1>4, <1>9, <1>10 DEF Alarms

LEMMA AlarmsAddLink ==
    ASSUME Typed, Apart, Alarms, AddLink
    PROVE  Alarms'
<1> DEFINE tp == Top.tp
           w == now + Top.delay
<1>1. /\ TypeOK /\ GoodStack(stack) /\ Running("add") /\ Top.fn = "add" /\ Top.pc = "fill"
      /\ GoodStack(stack') /\ Top'.fn = "add" /\ Top'.pc = "linked" /\ Tail(stack') = Tail(stack)
      /\ tp \in Node /\ timer'[tp].wakeup = w /\ timer'[tp].action = added + 1
      /\ \A n \in Node : n # tp => timer'[n] = timer[n]
      /\ Linked' = {tp} \cup Linked
      /\ UNCHANGED <<now, left, lapse>>
  BY AddLinkDoes DEF Typed, Running
<1>2. /\ ~ First /\ timer[tpmin].action = 0 => "DEFER_SIGALRM" \in time_state'
      /\ First => tpmin' = tp /\ alarm' = w /\ sigalrmset' = TRUE
      /\ ~ First => tpmin' = tpmin /\ alarm' = alarm /\ sigalrmset' = sigalrmset
      /\ First <=> (tpmin = Nil \/ w < timer[tpmin].wakeup)
  BY AddLinkDoes DEF First
<1>3. /\ w \in Nat /\ w > now /\ now \in Nat /\ alarm \in Nat /\ left \in Nat /\ added + 1 # 0
      /\ \A n \in Node : timer[n].wakeup \in Nat
      /\ Live \subseteq Linked /\ Linked \subseteq Node /\ tp # Nil
  <2>1. Top \in AddFrame
    BY <1>1, TopFacts
  <2>2. Top.delay \in Nat \ {0}
    BY <2>1, Numbers DEF AddFrame
  <2>3. now \in Nat /\ added \in Nat
    BY <1>1, Numbers DEF TypeOK, Time
  <2>4. QED
    BY <1>1, <2>2, <2>3, LinkedType, TimerType, Numbers DEF TypeOK
<1>4. tp \notin Linked
  <2>1. Top \in Adds(stack)
    BY <1>1, OneAdd
  <2>2. QED
    BY <1>1, <2>1 DEF Apart
<1> HIDE DEF w, tp
<1>5. /\ Live' = Live \cup {tp}
      /\ \A n \in Live : n # tp /\ timer'[n].wakeup = timer[n].wakeup /\ timer[n].wakeup \in Nat
  <2>1. \A n \in Linked : n # tp /\ n \in Node /\ timer'[n] = timer[n]
    BY <1>1, <1>3, <1>4
  <2>2. QED
    BY <1>1, <1>3, <2>1 DEF Live
<1>6. /\ tpmin # Nil => tpmin \in Linked /\ timer'[tpmin] = timer[tpmin] /\ timer[tpmin].wakeup \in Nat
  BY <1>1, <1>3, <1>4 DEF Alarms, TpminLinked
<1>7. \A n \in Live : timer[n].wakeup <= now \/ (tpmin # Nil /\ timer[tpmin].wakeup <= timer[n].wakeup)
  BY DEF Alarms, TpminNext
<1>8. (Handling' <=> Handling) /\ (ByMain' <=> ByMain) /\ (ByMain <=> ~ Handling)
  BY <1>1, SameFrames, Inside
<1>9. time_state = {} /\ (alarm = 0 \/ alarm > now)
  BY <1>1, <1>3 DEF Typed, Flags, FlagsOf, Running, Due
<1>10. TpminLinked'
  BY <1>1, <1>2, <1>6 DEF TpminLinked
<1>11. TpminNext'
  <2>1. ASSUME NEW n \in Live'
        PROVE  timer'[n].wakeup <= now \/ (tpmin' # Nil /\ timer'[tpmin'].wakeup <= timer'[n].wakeup)
    <3>1. CASE First
      BY <1>1, <1>2, <1>3, <1>5, <1>6, <1>7, <2>1, <3>1
    <3>2. CASE ~ First
      <4>1. tpmin # Nil /\ tpmin' = tpmin /\ timer[tpmin].wakeup <= w
        BY <1>2, <1>3, <1>6, <3>2
      <4>2. CASE n = tp
        BY <1>1, <1>6, <4>1, <4>2
      <4>3. CASE n \in Live
        BY <1>5, <1>6, <1>7, <4>1, <4>3
      <4>4. QED
        BY <1>5, <2>1, <4>2, <4>3
    <3>3. QED
      BY <3>1, <3>2
  <2>2. QED
    BY <1>1, <2>1 DEF TpminNext
<1>12. RunIsNotNext' /\ EndCovers'
  BY <1>1 DEF RunIsNotNext, EndCovers
<1>13. LooksAgain'
  <2>1. CASE First
    BY <1>2, <1>5, <2>1 DEF LooksAgain
  <2>2. CASE ~ First
    BY <1>2, <1>5, <1>6, <2>2 DEF LooksAgain, Live
  <2>3. QED
    BY <2>1, <2>2
<1>14. AlarmFor'
  <2>1. SUFFICES ASSUME Known', alarm' # 0
                 PROVE  /\ sigalrmset' /\ tpmin' # Nil /\ alarm' <= timer'[tpmin'].wakeup
                        /\ alarm' = timer'[tpmin'].wakeup \/ ~ Handling' \/ ByMain'
                        /\ \/ tpmin' \in Live'
                           \/ AtAdd' /\ ByMain' /\ \E n \in Live' : alarm' <= timer'[n].wakeup
    BY Zenon DEF AlarmFor
  <2>2. CASE First
    BY <1>1, <1>2, <1>3, <1>5, <2>2
  <2>3. CASE ~ First
    <3>1. Known /\ alarm # 0
      BY <1>1, <1>2, <2>1, <2>3 DEF Known
    <3>2. /\ sigalrmset /\ tpmin # Nil /\ alarm <= timer[tpmin].wakeup
          /\ alarm = timer[tpmin].wakeup \/ ~ Handling
          /\ Handling => tpmin \in Live
      BY <1>8, <3>1 DEF Alarms, AlarmFor
    <3>3. timer[tpmin].wakeup <= w
      BY <1>2, <1>3, <1>6, <2>3, <3>2
    <3>4. alarm <= timer'[tp].wakeup /\ tp \in Live' /\ AtAdd'
      BY <1>1, <1>3, <1>5, <1>6, <3>2, <3>3 DEF AtAdd
    <3>5. QED
      BY <1>2, <1>5, <1>6, <1>8, <2>3, <3>2, <3>4
  <2>4. QED
    BY <2>2, <2>3
<1>15. LeftFor'
  <2>1. SUFFICES ASSUME Known', left' # 0
                 PROVE  Handling' /\ alarm' # 0 /\ alarm' <= now + left
    BY <1>1 DEF LeftFor
  <2>2. Known /\ left # 0
    BY <1>1, <2>1 DEF Known
  <2>3. Handling /\ alarm # 0 /\ alarm <= now + left
    BY <2>2 DEF Alarms, LeftFor
  <2>4. tpmin # Nil /\ alarm = timer[tpmin].wakeup
    BY <1>8, <2>2, <2>3 DEF Alarms, AlarmFor
  <2>5. QED
    BY <1>2, <1>3, <1>8, <2>3, <2>4
<1>16. OutCovers'
  <2>1. SUFFICES ASSUME Excuseless', ~ Handling'
                 PROVE  Covers' /\ (alarm' # 0 \/ Owed')
    BY DEF OutCovers
  <2>2. Excuseless /\ Known /\ ~ Handling /\ ~ Owed
    BY <1>1, <1>8, <1>9, <2>1 DEF Excuseless, Known, Owed
  <2>3. (\A n \in Live : alarm <= timer[n].wakeup) /\ (alarm # 0 \/ Live = {})
    BY <2>2 DEF Alarms, OutCovers, Covers
  <2>4. \A n \in Live : tpmin # Nil /\ timer[tpmin].wakeup <= timer[n].wakeup
    <3>1. SUFFICES ASSUME NEW n \in Live
                   PROVE  ~ (timer[n].wakeup <= now)
      BY <1>7
    <3>2. QED
      BY <1>3, <1>5, <1>9, <2>3
  <2>5. CASE First
    <3>1. \A n \in Live : w <= timer[n].wakeup
      BY <1>2, <1>3, <1>5, <1>6, <2>4, <2>5
    <3>2. QED
      BY <1>1, <1>2, <1>3, <1>5, <2>5, <3>1 DEF Covers
  <2>6. CASE ~ First
    <3>1. alarm <= w
      <4>1. alarm # 0 => alarm <= timer[tpmin].wakeup
        BY <2>2 DEF Alarms, AlarmFor
      <4>2. tpmin # Nil /\ timer[tpmin].wakeup <= w
        BY <1>2, <1>3, <1>6, <2>6
      <4>3. QED
        BY <1>3, <1>6, <4>1, <4>2
    <3>2. Covers'
      BY <1>1, <1>2, <1>5, <2>3, <2>6, <3>1 DEF Covers
    <3>3. alarm' # 0 \/ Owed'
      <4>1. CASE alarm = 0
        <5>1. timer[tpmin].action = 0
          BY <1>2, <1>6, <2>3, <2>6, <4>1 DEF Live
        <5>2. QED
          BY <1>2, <2>6, <5>1 DEF Owed
      <4>2. QED
        BY <1>2, <2>6, <4>1
    <3>4. QED
      BY <3>2, <3>3
  <2>7. QED
    BY <2>5, <2>6
<1>17. QED
  BY <1>10, <1>11, <1>12, <1>13, <1>14, <1>15, <1>16 DEF Alarms

LEMMA AlarmsScan ==
    ASSUME Typed, Alarms, Scan
    PROVE  Alarms'
<1>0. TypeOK /\ GoodStack(stack)
  BY DEF Typed
<1>1. PICK tp \in Node \cup {Nil}, min \in Node \cup {Nil} : Round(tp, min)
  BY <1>0, ScanIsRound
<1> DEFINE later == Later(tp)
           Sets == min # Nil /\ (left = 0 \/ (tp # Nil /\ timer'[min].wakeup < now + left))
<1>2. /\ GoodStack(stack') /\ Tail(stack') = Tail(stack) /\ Top.fn = "sigalrm"
      /\ Top'.fn = "sigalrm" /\ Top'.tp = tp /\ Top'.pc = IF tp = Nil THEN "end" ELSE "run"
  <2>1. Top.fn = "sigalrm"
    BY <1>1 DEF Round, Running
  <2>2. QED
    BY <1>1, <2>1, ScanTop
<1>3. Handling /\ Handling' /\ (ByMain' <=> ByMain)
  BY <1>0, <1>2, Inside, SameFrames
<1>4. /\ tp = Nil => Expired = {}
      /\ tp # Nil => tp \in Expired
      /\ \A n \in Live : /\ timer'[n].incr = timer[n].incr
                         /\ IF Repeats(tp) /\ n = tp THEN timer'[n].wakeup > now
                                                   ELSE timer'[n].wakeup = timer[n].wakeup
      /\ Linked' = Live /\ Live' = Live /\ tpmin' = min
      /\ min = Nil => later = {}
      /\ min # Nil => min \in later /\ \A n \in later : timer'[min].wakeup <= timer'[n].wakeup
      /\ UNCHANGED <<now, lapse>>
  BY <1>1 DEF Round
<1>5. /\ Sets => /\ alarm' = IF alarm # 0 /\ alarm < timer'[min].wakeup THEN alarm ELSE timer'[min].wakeup
                 /\ left' = alarm' - now /\ sigalrmset' = (sigalrmset \/ left = 0)
      /\ ~ Sets => alarm' = alarm /\ left' = left /\ sigalrmset' = sigalrmset
  BY <1>1 DEF Round
<1>6. /\ now \in Nat /\ alarm \in Nat /\ left \in Nat /\ (alarm = 0 \/ alarm > now)
      /\ \A n \in Live : n \in Node /\ timer[n].wakeup \in Nat /\ timer'[n].wakeup \in Nat
  <2>1. timer' \in [Node -> Timer] /\ ~ Due
    BY <1>1 DEF Round, Running
  <2>2. \A n \in Node : timer'[n].wakeup \in Nat
    BY <2>1 DEF Timer
  <2>3. now \in Nat /\ alarm \in Nat /\ left \in Nat
    BY <1>0, Numbers DEF TypeOK, Time
  <2>4. alarm = 0 \/ alarm > now
    BY <2>1, <2>3 DEF Due
  <2>5. QED
    BY <1>0, <2>2, <2>3, <2>4, LinkedType, TimerType
<1>7. /\ later \subseteq Live
      /\ \A n \in Live : n \in later <=> (n \notin Expired \/ (Repeats(tp) /\ n = tp))
      /\ \A n \in Live : n \in Expired <=> timer[n].wakeup <= now
      /\ Expired \subseteq Live /\ (Repeats(tp) => tp # Nil /\ timer[tp].incr # 0)
      /\ tp # Nil /\ timer[tp].incr # 0 => Repeats(tp)
  BY <1>4 DEF Later, Expired, Repeats
<1>8. \A n \in later : n \in Live /\ timer'[n].wakeup > now
  BY <1>4, <1>6, <1>7
<1>9. \A n \in Live : n \notin later => timer'[n].wakeup <= now
  BY <1>4, <1>6, <1>7
<1> HIDE DEF later
<1>10. /\ min # Nil => min \in Live /\ timer'[min].wakeup \in Nat /\ timer'[min].wakeup > now
  BY <1>4, <1>6, <1>8
<1>11. TpminLinked'
  BY <1>4, <1>8 DEF TpminLinked
<1>12. TpminNext'
  BY <1>4, <1>9 DEF TpminNext
<1>13. RunIsNotNext'
  <2>1. ASSUME tp # Nil, timer'[tp].incr = 0, min = tp
        PROVE  FALSE
    <3>1. tp \in Expired /\ tp \in Live /\ timer[tp].incr = 0
      BY <1>4, <1>7, <2>1
    <3>2. tp \in later
      BY <1>4, <2>1
    <3>3. QED
      BY <1>7, <3>1, <3>2
  <2>2. QED
    BY <1>2, <1>4, <2>1 DEF RunIsNotNext
<1>14. LooksAgain' /\ OutCovers'
  BY <1>2, <1>3 DEF LooksAgain, OutCovers
<1>15. ASSUME Known, alarm # 0
       PROVE  /\ sigalrmset /\ tpmin # Nil /\ alarm <= timer[tpmin].wakeup /\ alarm > now
              /\ ByMain \/ (alarm = timer[tpmin].wakeup /\ tpmin \in Live)
              /\ tpmin \in Live \/ \E n \in Live : alarm <= timer[n].wakeup
  BY <1>3, <1>6, <1>15 DEF Alarms, AlarmFor
<1>16. ASSUME Known, alarm # 0, min # Nil, alarm < timer'[min].wakeup
       PROVE  ByMain
  <2>1. SUFFICES ASSUME ~ ByMain
                 PROVE  FALSE
    OBVIOUS
  <2>2. alarm = timer[tpmin].wakeup /\ tpmin \in Live /\ alarm > now
    BY <1>15, <1>16, <2>1
  <2>3. tpmin \in later /\ timer'[tpmin].wakeup = timer[tpmin].wakeup
    BY <1>4, <1>6, <1>7, <2>2
  <2>4. QED
    BY <1>4, <1>6, <1>10, <1>16, <2>2, <2>3
<1>17. LeftFor'
  <2>1. Known' = Known
    BY <1>4 DEF Known
  <2>2. CASE Sets
    BY <1>3, <1>4, <1>5, <1>6, <1>10, <2>2 DEF LeftFor
  <2>3. CASE ~ Sets
    BY <1>3, <1>4, <1>5, <2>1, <2>3 DEF Alarms, LeftFor
  <2>4. QED
    BY <2>2, <2>3
<1>18. AlarmFor'
  <2>1. SUFFICES ASSUME Known', alarm' # 0
                 PROVE  /\ sigalrmset' /\ min # Nil /\ alarm' <= timer'[min].wakeup
                        /\ alarm' = timer'[min].wakeup \/ ByMain
                        /\ min \in Live
    BY <1>3, <1>4 DEF AlarmFor
  <2>2. Known
    BY <1>4, <2>1 DEF Known
  <2>3. CASE Sets
    <3>1. alarm' <= timer'[min].wakeup /\ (alarm' = timer'[min].wakeup \/ ByMain)
      BY <1>5, <1>6, <1>10, <1>16, <2>2, <2>3
    <3>2. left # 0 => sigalrmset
      BY <1>15, <2>2 DEF Alarms, LeftFor
    <3>3. QED
      BY <1>5, <1>10, <2>3, <3>1, <3>2
  <2>4. CASE ~ Sets
    <3>1. alarm' = alarm /\ alarm # 0 /\ sigalrmset' = sigalrmset
      BY <1>5, <2>1, <2>4
    <3>2. PICK n \in Live : alarm <= timer[n].wakeup
      BY <1>15, <2>2, <3>1
    <3>3. n \in later
      BY <1>6, <1>7, <1>15, <2>2, <3>1, <3>2
    <3>4. min # Nil
      BY <1>4, <3>3
    <3>5. alarm <= timer'[min].wakeup
      <4>1. CASE tp # Nil
        <5>1. left # 0 /\ timer'[min].wakeup >= now + left
          BY <1>6, <1>10, <2>4, <3>4, <4>1
        <5>2. alarm <= now + left
          BY <2>2, <5>1 DEF Alarms, LeftFor
        <5>3. QED
          BY <1>6, <1>10, <3>4, <5>1, <5>2
      <4>2. CASE tp = Nil
        <5>1. timer'[min].wakeup = timer[min].wakeup /\ ~ (timer[min].wakeup <= now)
          BY <1>4, <1>6, <1>7, <1>10, <3>4, <4>2
        <5>2. timer[tpmin].wakeup <= timer[min].wakeup
          BY <1>10, <3>4, <5>1 DEF Alarms, TpminNext
        <5>3. alarm <= timer[tpmin].wakeup /\ tpmin # Nil
          BY <1>15, <2>2, <3>1
        <5>4. timer[tpmin].wakeup \in Nat
          BY <1>0, <5>3, TimerType DEF TypeOK
        <5>5. QED
          BY <1>6, <1>10, <3>4, <5>1, <5>2, <5>3, <5>4
      <4>3. QED
        BY <4>1, <4>2
    <3>6. alarm = timer'[min].wakeup \/ ByMain
      BY <1>6, <1>10, <1>16, <2>2, <3>1, <3>4, <3>5
    <3>7. QED
      BY <1>10, <1>15, <2>2, <3>1, <3>4, <3>5, <3>6
  <2>5. QED
    BY <2>3, <2>4
<1>19. EndCovers'
  <2>1. SUFFICES ASSUME Excuseless', tp = Nil
                 PROVE  Covers' /\ (alarm' # 0 \/ Live' = {})
    BY <1>2 DEF EndCovers
  <2>2. Known' /\ Known
    BY <1>4, <2>1 DEF Excuseless, Known
  <2>3. later = Live /\ \A n \in Live : timer'[n].wakeup = timer[n].wakeup
    BY <1>4, <1>7, <2>1
  <2>4. Covers'
    <3>1. alarm' # 0 => min # Nil /\ alarm' <= timer'[min].wakeup
      BY <1>4, <1>18, <2>2 DEF AlarmFor
    <3>2. alarm' \in Nat
      BY <1>5, <1>6, <1>10
    <3>3. QED
      BY <1>4, <1>6, <1>10, <2>3, <3>1, <3>2 DEF Covers
  <2>5. alarm' # 0 \/ Live' = {}
    <3>1. CASE Sets
      BY <1>5, <1>6, <1>10, <3>1
    <3>2. CASE ~ Sets
      <4>1. min = Nil \/ left # 0
        BY <3>2
      <4>2. left # 0 => alarm # 0
        BY <2>2 DEF Alarms, LeftFor
      <4>3. QED
        BY <1>4, <1>5, <2>3, <3>2, <4>1, <4>2
    <3>3. QED
      BY <3>1, <3>2
  <2>6. QED
    BY <2>4, <2>5
<1>20. QED
  BY <1>11, <1>12, <1>13, <1>14, <1>17, <1>18, <1>19 DEF Alarms

LEMMA AlarmsInit ==
    ASSUME Init
    PROVE  Alarms /\ DeadLost
<1>1. /\ alarm = 0 /\ left = 0 /\ tpmin = Nil /\ list = <<>> /\ now = 0
      /\ stack = <<[fn |-> "main", pc |-> "idle"]>>
  BY DEF Init
<1>2. Live = {} /\ Linked = {}
  BY <1>1 DEF Live, Linked, ToSet
<1>3. Top.fn = "main" /\ \A f \in ToSet(stack) : f.pc = "idle"
  BY <1>1 DEF Top, ToSet
<1>4. QED
  BY <1>1, <1>2, <1>3 DEF Alarms, DeadLost, TpminLinked, TpminNext, RunIsNotNext, LooksAgain,
     AlarmFor, LeftFor, EndCovers, OutCovers, Covers

LEMMA AlarmsNext ==
    ASSUME Typed, Apart, DeadLost, Alarms, [Next]_vars
    PROVE  Alarms'
<1>1. CASE Step
  BY <1>1, AlarmsSignal, AlarmsKilled, AlarmsScan, AlarmsRun, AlarmsActionEnd, AlarmsJump, AlarmsEnd,
     AlarmsAddTake, AlarmsAddLink, AlarmsAddLinked, AlarmsAddCall, AlarmsAddReturn DEF Step
<1>2. ASSUME NEW c \in Alarm, UnsetAlarm(c) \/ \E t \in Delay, repeat \in BOOLEAN : SetAlarm(c, t, repeat)
      PROVE  Alarms'
  BY <1>2, AlarmsUnsetAlarm, AlarmsSetAlarm
<1>3. CASE UNCHANGED vars
  <2>1. now \in Nat
    BY Numbers DEF Typed, TypeOK, Time
  <2>2. now' \in Nat /\ now <= now'
    BY <1>3, <2>1 DEF vars
  <2>3. QED
    BY <1>3, <2>2, AlarmsSame DEF vars
<1>4. QED
  BY <1>1, <1>2, <1>3, AlarmsTick, AlarmsRead, AlarmsReadEnd DEF Next

(* What the kernel's alarm is set for and whether its signal is caught, in one invariant. *)
AlarmInv == Typed /\ Apart /\ DeadLost /\ Alarms

LEMMA AlarmInvariant == Spec => []AlarmInv
<1>1. Init => AlarmInv
  BY TypedInit, ApartInit, AlarmsInit DEF AlarmInv
<1>2. AlarmInv /\ [Next]_vars => AlarmInv'
  BY TypedNext, ApartNext, DeadNext, AlarmsNext DEF AlarmInv, Alarms
<1>3. QED
  BY <1>1, <1>2, PTL DEF Spec

(* SIGALRM is caught whenever the kernel's alarm is set, for any number of timers and any
   interleaving with sh_timeradd, sigalrm and the actions it calls, unless an action
   deleted the timer that the alarm is set for. *)
THEOREM AlarmCaught == Spec => []AlarmIsCaught
<1>1. AlarmInv => AlarmIsCaught
  BY DEF AlarmInv, Alarms, AlarmFor, Known, AlarmIsCaught
<1>2. QED
  BY <1>1, AlarmInvariant, PTL

(* While the program runs the kernel's alarm is set, for the time of the next timer or an
   earlier one, whatever the timers are and however the signals came, unless one of the
   accidents that AlarmIsSet names happened before. *)
THEOREM AlarmSet == Spec => []AlarmIsSet
<1>1. AlarmInv => AlarmIsSet
  <2>1. SUFFICES ASSUME AlarmInv, Len(stack) = 1, Excuseless
                 PROVE  \A n \in Live : alarm # 0 /\ alarm <= timer[n].wakeup
    BY DEF AlarmIsSet, Excuseless
  <2>2. TypeOK /\ GoodStack(stack) /\ Flags
    BY <2>1 DEF AlarmInv, Typed
  <2>3. Top.fn = "main" /\ ~ Handling /\ Top \in ToSet(stack)
    <3>1. Top.fn = "main"
      BY <2>1, <2>2, GoodTop DEF Top
    <3>2. QED
      BY <2>2, <3>1, Inside, TopFacts, GoodPop
  <2>4. Known /\ Top.pc # "dead"
    BY <2>1, <2>3 DEF AlarmInv, DeadLost, Excuseless, Known
  <2>5. time_state = {}
    BY <2>2, <2>3, <2>4 DEF Flags, FlagsOf
  <2>6. Covers /\ (alarm # 0 \/ Live = {})
    BY <2>1, <2>3, <2>5 DEF AlarmInv, Alarms, OutCovers, Owed
  <2>7. QED
    BY <2>6 DEF Covers
<1>2. QED
  BY <1>1, AlarmInvariant, PTL

================================================================================
