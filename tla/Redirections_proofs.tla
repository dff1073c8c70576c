-------------------------- MODULE Redirections_proofs --------------------------
(***************************************************************************)
(* Proofs about Redirections: type correctness; what the shell has put     *)
(* aside is held; descriptors are restored.                                *)
(***************************************************************************)
EXTENDS Redirections, FiniteSetTheorems, SequenceTheorems, WellFoundedInduction, TLAPS

--------------------------------------------------------------------------------
(* The operators on descriptors, one by one. *)

(* A set of numbers has a least one. *)
LEMMA Least ==
    ASSUME NEW S \in SUBSET Nat, S # {}
    PROVE  \E n \in S : \A m \in S : n <= m
<1>1. PICK n \in S : \A m \in S : ~ (<<m, n>> \in OpToRel(<, Nat))
  BY NatLessThanWellFounded, WFMin, Zenon
<1>2. \A m, k \in Nat : <<m, k>> \in OpToRel(<, Nat) <=> m < k
  BY DEF OpToRel
<1>3. \A m \in S : ~ (m < n)
  BY <1>1, <1>2
<1>4. QED
  BY <1>3

LEMMA Numbers ==
    /\ Low \subseteq Nat /\ High \subseteq Nat /\ NoFd \notin Low /\ NoFd \notin High
    /\ Low \cap High = {} /\ Closed \notin File /\ MaxTop \in Nat /\ MaxDepth \in Nat /\ MaxFork \in Nat
BY RedirectionAssumption DEF NoFd, Closed

(* Entries that differ in what they hold at most. *)
Alike(f, g) ==
    /\ Len(f) = Len(g)
    /\ \A i \in DOMAIN g : /\ f[i].orig = g[i].orig /\ f[i].subshell = g[i].subshell
                           /\ f[i].was = g[i].was

LEMMA IoFields ==
    ASSUME NEW t \in Io
    PROVE  /\ t.fd \in [Fd -> File \cup {Closed}] /\ t.filemap \in Seq(Save)
           /\ t.fdptrs \in [High -> 0..MaxTop] /\ t.own \in SUBSET High
           /\ Len(t.filemap) \in Nat
BY DEF Io

LEMMA SaveFields ==
    ASSUME NEW s \in Save
    PROVE  /\ s.orig \in Fd /\ s.save \in High \cup {NoFd} /\ s.subshell \in BOOLEAN
           /\ s.was \in File \cup {Closed}
BY DEF Save

LEMMA MapFacts ==
    ASSUME NEW t \in Io, NEW i \in DOMAIN t.filemap
    PROVE  /\ t.filemap[i] \in Save /\ i \in Nat /\ i >= 1 /\ i <= Len(t.filemap)
           /\ t.filemap[i].orig \in Fd /\ t.filemap[i].save \in High \cup {NoFd}
           /\ t.filemap[i].subshell \in BOOLEAN /\ t.filemap[i].was \in File \cup {Closed}
<1>1. t.filemap \in Seq(Save)
  BY IoFields
<1>2. t.filemap[i] \in Save /\ i \in Nat /\ i >= 1 /\ i <= Len(t.filemap)
  BY <1>1
<1>3. QED
  BY <1>2, SaveFields

LEMMA NewFdFacts ==
    ASSUME NEW t \in Io, \E n \in High : t.fd[n] = Closed
    PROVE  NewFd(t) \in High /\ t.fd[NewFd(t)] = Closed
<1> DEFINE F == {n \in High : t.fd[n] = Closed}
<1>1. F # {} /\ F \in SUBSET Nat
  BY Numbers
<1>2. PICK n \in F : \A m \in F : n <= m
  <2> HIDE DEF F
  <2>1. QED
    BY <1>1, Least
<1>3. n \in High /\ t.fd[n] = Closed /\ \A m \in High : m < n => t.fd[m] # Closed
  BY <1>2, Numbers
<1>4. QED
  BY <1>3 DEF NewFd

LEMMA SetSaveFacts ==
    ASSUME NEW t \in Io, NEW n \in Fd, NEW new \in High \cup {NoFd}
    PROVE  LET f == SetSave(t, n, new)
           IN  /\ f \in Seq(Save) /\ Alike(f, t.filemap)
               /\ \A i \in DOMAIN t.filemap :
                     f[i].save = IF n \in High /\ t.fdptrs[n] = i THEN new ELSE t.filemap[i].save
<1> DEFINE g == t.filemap
<1>1. g \in Seq(Save) /\ \A i \in DOMAIN g : i # 0
  BY IoFields
<1>2. CASE ~ (sh_inuse(t, n) /\ t.fdptrs[n] \in DOMAIN g)
  <2>1. SetSave(t, n, new) = g
    BY <1>2 DEF SetSave
  <2>2. \A i \in DOMAIN g : ~ (n \in High /\ t.fdptrs[n] = i)
    BY <1>1, <1>2 DEF sh_inuse
  <2>3. QED
    BY <1>1, <2>1, <2>2 DEF Alike
<1>3. CASE sh_inuse(t, n) /\ t.fdptrs[n] \in DOMAIN g
  <2> DEFINE p == t.fdptrs[n]
             e == [g[p] EXCEPT !.save = new]
  <2>1. g[p] \in Save /\ n \in High
    BY <1>1, <1>3 DEF sh_inuse
  <2>2. /\ e \in Save /\ e.orig = g[p].orig /\ e.subshell = g[p].subshell /\ e.was = g[p].was
        /\ e.save = new
    BY <2>1 DEF Save
  <2>3. SetSave(t, n, new) = [g EXCEPT ![p] = e]
    BY <1>3 DEF SetSave
  <2> DEFINE f == SetSave(t, n, new)
  <2> HIDE DEF e, f
  <2>4. f \in Seq(Save) /\ Len(f) = Len(g) /\ f[p] = e /\ \A i \in DOMAIN g : i # p => f[i] = g[i]
    BY <1>1, <1>3, <2>2, <2>3 DEF f
  <2>5. Alike(f, g)
    BY <2>2, <2>4 DEF Alike
  <2>6. \A i \in DOMAIN g : f[i].save = IF n \in High /\ t.fdptrs[n] = i THEN new ELSE g[i].save
    BY <2>1, <2>2, <2>4
  <2>7. QED
    BY <2>4, <2>5, <2>6 DEF f
<1>4. QED
  BY <1>2, <1>3

LEMMA CloseFacts ==
    ASSUME NEW t \in Io, NEW n \in Fd
    PROVE  LET c == sh_close(t, n)
           IN  /\ c \in Io /\ Alike(c.filemap, t.filemap)
               /\ \A i \in DOMAIN t.filemap :
                     c.filemap[i].save = IF n \in High /\ t.fdptrs[n] = i THEN NoFd ELSE t.filemap[i].save
               /\ \A m \in Fd : c.fd[m] = IF m = n THEN Closed ELSE t.fd[m]
               /\ c.own = t.own \ {n}
               /\ \A m \in High : c.fdptrs[m] = IF m = n THEN 0 ELSE t.fdptrs[m]
<1> DEFINE f == SetSave(t, n, NoFd)
           fd == [t.fd EXCEPT ![n] = Closed]
           ptrs == [m \in High |-> IF m = n THEN 0 ELSE t.fdptrs[m]]
<1>1. /\ t.fd \in [Fd -> File \cup {Closed}] /\ t.fdptrs \in [High -> 0..MaxTop]
      /\ t.own \in SUBSET High /\ t = [fd |-> t.fd, filemap |-> t.filemap, fdptrs |-> t.fdptrs, own |-> t.own]
  BY DEF Io
<1>2. /\ f \in Seq(Save) /\ Alike(f, t.filemap)
      /\ \A i \in DOMAIN t.filemap :
            f[i].save = IF n \in High /\ t.fdptrs[n] = i THEN NoFd ELSE t.filemap[i].save
  BY SetSaveFacts
<1>3. fd \in [Fd -> File \cup {Closed}] /\ \A m \in Fd : fd[m] = IF m = n THEN Closed ELSE t.fd[m]
  BY <1>1
<1>4. ptrs \in [High -> 0..MaxTop] /\ \A m \in High : ptrs[m] = IF m = n THEN 0 ELSE t.fdptrs[m]
  BY <1>1, Numbers
<1> DEFINE c == sh_close(t, n)
<1>5. c = [t EXCEPT !.fd = fd, !.filemap = f, !.own = t.own \ {n}, !.fdptrs = ptrs]
  BY <1>1 DEF sh_close
<1> HIDE DEF f, fd, ptrs, c
<1>6. c.fd = fd /\ c.filemap = f /\ c.fdptrs = ptrs /\ c.own = t.own \ {n}
  BY <1>5 DEF Io
<1>7. c \in Io
  BY <1>1, <1>2, <1>3, <1>4, <1>5 DEF Io
<1>8. QED
  BY <1>2, <1>3, <1>4, <1>6, <1>7 DEF c

Entry(n, save, subshell, was) == [orig |-> n, save |-> save, subshell |-> subshell, was |-> was]

LEMMA IosaveFacts ==
    ASSUME NEW t \in Io, NEW n \in Fd, NEW oldtop, NEW subshell \in BOOLEAN, NEW keep \in BOOLEAN,
           Len(t.filemap) < MaxTop, keep \/ t.fd[n] = Closed \/ \E m \in High : t.fd[m] = Closed
    PROVE  LET s == sh_iosave(t, n, oldtop, subshell, keep)
           IN  /\ s \in Io
               /\ SavedSince(t, n, oldtop) => s = t
               /\ ~ SavedSince(t, n, oldtop) =>
                     \E save \in High \cup {NoFd} :
                        /\ save = NoFd <=> keep \/ t.fd[n] = Closed
                        /\ save # NoFd => t.fd[save] = Closed
                        /\ s.filemap = Append(t.filemap, Entry(n, save, subshell,
                                                               IF keep THEN Closed ELSE t.fd[n]))
                        /\ s.own = t.own
                        /\ \A m \in Fd : s.fd[m] = IF m = save THEN t.fd[n] ELSE t.fd[m]
                        /\ \A m \in High : s.fdptrs[m] = IF m = save THEN Len(t.filemap) + 1
                                                                     ELSE t.fdptrs[m]
<1> DEFINE save == IF keep \/ t.fd[n] = Closed THEN NoFd ELSE NewFd(t)
           was == IF keep THEN Closed ELSE t.fd[n]
           f == Append(t.filemap, Entry(n, save, subshell, was))
           s == sh_iosave(t, n, oldtop, subshell, keep)
<1>1. /\ t.fd \in [Fd -> File \cup {Closed}] /\ t.filemap \in Seq(Save)
      /\ t.fdptrs \in [High -> 0..MaxTop] /\ t.own \in SUBSET High /\ Len(t.filemap) \in Nat
  BY IoFields
<1>2. /\ save \in High \cup {NoFd} /\ (save = NoFd <=> keep \/ t.fd[n] = Closed)
      /\ (save # NoFd => save \in High /\ t.fd[save] = Closed)
  BY NewFdFacts, Numbers
<1>3. f \in Seq(Save)
  <2>1. Entry(n, save, subshell, was) \in Save
    BY <1>1, <1>2 DEF Entry, Save
  <2> HIDE DEF was, save
  <2>2. QED
    BY <1>1, <2>1
<1>4. SavedSince(t, n, oldtop) => s = t
  BY DEF sh_iosave
<1>5. CASE ~ SavedSince(t, n, oldtop) /\ save = NoFd
  <2>1. s = [t EXCEPT !.filemap = f]
    <3>1. s = [t EXCEPT !.filemap = Append(@, [orig |-> n, save |-> save, subshell |-> subshell,
                                               was |-> was])]
      BY <1>5 DEF sh_iosave
    <3> HIDE DEF s, save, was
    <3>2. QED
      BY <1>1, <3>1 DEF Entry, Io
  <2> HIDE DEF s, f
  <2>2. s \in Io /\ s.filemap = f /\ s.own = t.own /\ s.fd = t.fd /\ s.fdptrs = t.fdptrs
    BY <1>3, <2>1 DEF Io
  <2>3. NoFd \notin Fd /\ NoFd \notin High
    BY Numbers DEF Fd
  <2> HIDE DEF save
  <2>4. QED
    BY <1>2, <1>5, <2>2, <2>3 DEF s, f, was
<1>6. CASE ~ SavedSince(t, n, oldtop) /\ save # NoFd
  <2> DEFINE fd == [t.fd EXCEPT ![save] = t.fd[n]]
             ptrs == [t.fdptrs EXCEPT ![save] = Len(t.filemap) + 1]
  <2>1. s = [t EXCEPT !.filemap = f, !.fd = fd, !.fdptrs = ptrs]
    <3>1. s = [[t EXCEPT !.filemap = Append(@, [orig |-> n, save |-> save, subshell |-> subshell,
                                               was |-> was])]
                  EXCEPT !.fd[save] = t.fd[n], !.fdptrs[save] = Pointer(t)]
      BY <1>6 DEF sh_iosave
    <3> HIDE DEF s, save, was
    <3>2. QED
      BY <1>1, <3>1 DEF Entry, Pointer, Io
  <2>2. save \in High /\ save \in Fd
    BY <1>2, <1>6 DEF Fd
  <2>3. fd \in [Fd -> File \cup {Closed}] /\ \A m \in Fd : fd[m] = IF m = save THEN t.fd[n] ELSE t.fd[m]
    <3> HIDE DEF save
    <3>1. QED
      BY <1>1, <2>2
  <2>4. /\ ptrs \in [High -> 0..MaxTop]
        /\ \A m \in High : ptrs[m] = IF m = save THEN Len(t.filemap) + 1 ELSE t.fdptrs[m]
    <3> HIDE DEF save
    <3>1. Len(t.filemap) + 1 \in 0..MaxTop
      BY <1>1, Numbers
    <3>2. QED
      BY <1>1, <2>2, <3>1
  <2> HIDE DEF s, f, fd, ptrs, save
  <2>5. s \in Io /\ s.filemap = f /\ s.own = t.own /\ s.fd = fd /\ s.fdptrs = ptrs
    BY <1>3, <2>1, <2>3, <2>4 DEF Io
  <2>6. QED
    BY <1>2, <1>6, <2>3, <2>4, <2>5 DEF s, f, was
<1>7. QED
  <2>1. SavedSince(t, n, oldtop) => s \in Io
    BY <1>4
  <2>2. QED
    BY <1>4, <1>5, <1>6, <2>1

LEMMA IosaveFd ==
    ASSUME NEW t \in Io, NEW n \in Fd, NEW oldtop, NEW subshell \in BOOLEAN, NEW keep \in BOOLEAN,
           Len(t.filemap) < MaxTop, keep \/ t.fd[n] = Closed \/ \E m \in High : t.fd[m] = Closed,
           ~ SavedSince(t, n, oldtop)
    PROVE  \E save \in High \cup {NoFd} :
              \A m \in Fd : sh_iosave(t, n, oldtop, subshell, keep).fd[m] =
                             IF m = save THEN t.fd[n] ELSE t.fd[m]
<1> DEFINE s == sh_iosave(t, n, oldtop, subshell, keep)
<1>1. \E save \in High \cup {NoFd} :
          /\ save = NoFd <=> keep \/ t.fd[n] = Closed
          /\ save # NoFd => t.fd[save] = Closed
          /\ s.filemap = Append(t.filemap, Entry(n, save, subshell, IF keep THEN Closed ELSE t.fd[n]))
          /\ s.own = t.own
          /\ \A m \in Fd : s.fd[m] = IF m = save THEN t.fd[n] ELSE t.fd[m]
          /\ \A m \in High : s.fdptrs[m] = IF m = save THEN Len(t.filemap) + 1 ELSE t.fdptrs[m]
  BY IosaveFacts
<1> HIDE DEF s
<1>2. QED
  BY <1>1 DEF s

LEMMA PreserveFacts ==
    ASSUME NEW t \in Io, NEW n \in High, \E m \in High : t.fd[m] = Closed
    PROVE  LET p == io_preserve(t, n)
               new == NewFd(t)
           IN  /\ p \in Io /\ Alike(p.filemap, t.filemap) /\ new \in High /\ t.fd[new] = Closed
               /\ \A i \in DOMAIN t.filemap :
                     p.filemap[i].save = IF t.fdptrs[n] = i THEN new ELSE t.filemap[i].save
               /\ p.own = t.own
               /\ \A m \in Fd : p.fd[m] = IF m = new THEN t.fd[n] ELSE t.fd[m]
               /\ \A m \in High : p.fdptrs[m] = IF m = n THEN 0
                                                ELSE IF m = new THEN t.fdptrs[n] ELSE t.fdptrs[m]
<1> DEFINE new == NewFd(t)
           f == SetSave(t, n, new)
           fd == [t.fd EXCEPT ![new] = t.fd[n]]
           ptrs == [[t.fdptrs EXCEPT ![new] = t.fdptrs[n]] EXCEPT ![n] = 0]
           p == io_preserve(t, n)
<1>1. /\ t.fd \in [Fd -> File \cup {Closed}] /\ t.filemap \in Seq(Save)
      /\ t.fdptrs \in [High -> 0..MaxTop] /\ t.own \in SUBSET High /\ Len(t.filemap) \in Nat
  BY IoFields
<1>2. new \in High /\ t.fd[new] = Closed /\ n \in Fd /\ new \in Fd
  BY NewFdFacts DEF Fd
<1>3. /\ f \in Seq(Save) /\ Alike(f, t.filemap)
      /\ \A i \in DOMAIN t.filemap : f[i].save = IF t.fdptrs[n] = i THEN new ELSE t.filemap[i].save
  BY <1>2, SetSaveFacts
<1>4. p = [t EXCEPT !.fd = fd, !.filemap = f, !.fdptrs = ptrs]
  BY <1>1 DEF io_preserve
<1> HIDE DEF new
<1>5. fd \in [Fd -> File \cup {Closed}] /\ \A m \in Fd : fd[m] = IF m = new THEN t.fd[n] ELSE t.fd[m]
  BY <1>1, <1>2
<1>6. /\ ptrs \in [High -> 0..MaxTop]
      /\ \A m \in High : ptrs[m] = IF m = n THEN 0 ELSE IF m = new THEN t.fdptrs[n] ELSE t.fdptrs[m]
  BY <1>1, <1>2, Numbers
<1> HIDE DEF f, fd, ptrs, p
<1>7. p \in Io /\ p.fd = fd /\ p.filemap = f /\ p.own = t.own /\ p.fdptrs = ptrs
  BY <1>3, <1>4, <1>5, <1>6 DEF Io
<1>8. QED
  BY <1>2, <1>3, <1>5, <1>6, <1>7 DEF p, new

(* What RestoreEntry does. *)
PutBack(t, i) ==
    LET n == t.filemap[i].orig
        c == sh_close(t, n)
        save == c.filemap[i].save
        r == RestoreEntry(t, i)
    IN  /\ r \in Io /\ Alike(r.filemap, t.filemap) /\ save \in High \cup {NoFd}
        /\ save = NoFd => r = c
        /\ save # NoFd =>
              /\ \A m \in Fd : r.fd[m] = IF m = save THEN Closed
                                         ELSE IF m = n THEN c.fd[save] ELSE t.fd[m]
              /\ r.own = ((t.own \ {n}) \cup ({n} \cap High)) \ {save}
              /\ \A m \in High : r.fdptrs[m] = IF m = n \/ m = save THEN 0 ELSE t.fdptrs[m]
              /\ \A j \in DOMAIN t.filemap :
                    r.filemap[j].save = IF c.fdptrs[save] = j THEN NoFd ELSE c.filemap[j].save

LEMMA RestoreFacts ==
    ASSUME NEW t \in Io, NEW i \in DOMAIN t.filemap
    PROVE  PutBack(t, i)
<1> USE DEF PutBack
<1> DEFINE n == t.filemap[i].orig
           c == sh_close(t, n)
           save == c.filemap[i].save
           r == RestoreEntry(t, i)
           fd == [c.fd EXCEPT ![n] = c.fd[save]]
           own == IF n \in High THEN c.own \cup {n} ELSE c.own
           d == [c EXCEPT !.fd[n] = c.fd[save], !.own = IF n \in High THEN @ \cup {n} ELSE @]
<1>1. n \in Fd
  BY MapFacts
<1>2. /\ c \in Io /\ Alike(c.filemap, t.filemap)
      /\ \A m \in Fd : c.fd[m] = IF m = n THEN Closed ELSE t.fd[m]
      /\ c.own = t.own \ {n}
      /\ \A m \in High : c.fdptrs[m] = IF m = n THEN 0 ELSE t.fdptrs[m]
  BY <1>1, CloseFacts
<1>3. i \in DOMAIN c.filemap
  <2>1. t.filemap \in Seq(Save) /\ c.filemap \in Seq(Save)
    BY <1>2, IoFields
  <2>2. QED
    BY <1>2, <2>1 DEF Alike
<1>4. save \in High \cup {NoFd}
  <2> HIDE DEF c
  <2>1. QED
    BY <1>2, <1>3, MapFacts
<1>5. r = IF save = NoFd THEN c ELSE sh_close(d, save)
  BY DEF RestoreEntry
<1>6. CASE save = NoFd
  BY <1>2, <1>4, <1>5, <1>6
<1>7. CASE save # NoFd
  <2> HIDE DEF c, save
  <2>1. /\ c.fd \in [Fd -> File \cup {Closed}] /\ c.filemap \in Seq(Save)
        /\ c.fdptrs \in [High -> 0..MaxTop] /\ c.own \in SUBSET High
    BY <1>2, IoFields
  <2>2. save \in High /\ save \in Fd
    BY <1>4, <1>7 DEF Fd
  <2>3. d = [c EXCEPT !.fd = fd, !.own = own]
    BY <2>1
  <2>4. fd \in [Fd -> File \cup {Closed}] /\ \A m \in Fd : fd[m] = IF m = n THEN c.fd[save] ELSE c.fd[m]
    BY <1>1, <2>1, <2>2
  <2>5. own \in SUBSET High /\ own = c.own \cup ({n} \cap High)
    BY <2>1
  <2> HIDE DEF d, fd, own
  <2>6. /\ d \in Io /\ d.fd = fd /\ d.own = own /\ d.filemap = c.filemap /\ d.fdptrs = c.fdptrs
    BY <1>2, <2>3, <2>4, <2>5 DEF Io
  <2> HIDE DEF r, n
  <2>7. r = sh_close(d, save)
    BY <1>5, <1>7
  <2> DEFINE e == sh_close(d, save)
  <2>8. /\ e \in Io /\ Alike(e.filemap, d.filemap)
        /\ \A j \in DOMAIN d.filemap :
              e.filemap[j].save = IF save \in High /\ d.fdptrs[save] = j THEN NoFd
                                  ELSE d.filemap[j].save
        /\ \A m \in Fd : e.fd[m] = IF m = save THEN Closed ELSE d.fd[m]
        /\ e.own = d.own \ {save}
        /\ \A m \in High : e.fdptrs[m] = IF m = save THEN 0 ELSE d.fdptrs[m]
    BY <2>2, <2>6, CloseFacts
  <2> HIDE DEF e
  <2>9. r = e
    BY <2>7 DEF e
  <2>10. t.filemap \in Seq(Save) /\ DOMAIN t.filemap = DOMAIN d.filemap
    BY <1>2, <2>1, <2>6, IoFields DEF Alike
  <2>11. Alike(r.filemap, t.filemap)
    BY <1>2, <2>6, <2>8, <2>9, <2>10 DEF Alike
  <2>12. r \in Io
    BY <2>8, <2>9
  <2>13. \A m \in Fd : r.fd[m] = IF m = save THEN Closed ELSE IF m = n THEN c.fd[save] ELSE t.fd[m]
    BY <1>2, <2>4, <2>6, <2>8, <2>9
  <2>14. r.own = ((t.own \ {n}) \cup ({n} \cap High)) \ {save}
    BY <1>2, <2>5, <2>6, <2>8, <2>9
  <2>15. \A m \in High : r.fdptrs[m] = IF m = n \/ m = save THEN 0 ELSE t.fdptrs[m]
    BY <1>2, <2>6, <2>8, <2>9
  <2>16. \A j \in DOMAIN t.filemap : r.filemap[j].save = IF c.fdptrs[save] = j THEN NoFd
                                                         ELSE c.filemap[j].save
    BY <2>2, <2>6, <2>8, <2>9, <2>10
  <2>17. QED
    BY <1>7, <2>11, <2>12, <2>13, <2>14, <2>15, <2>16, <1>4 DEF c, n, r, save
<1>8. QED
  BY <1>6, <1>7

(* The loop of sh_iorestore, from the last entry down. *)
Restored1(t, all, f, i) ==
    IF i = Len(t.filemap) THEN t
    ELSE LET above == f[i + 1]
         IN  IF above.filemap[i + 1].subshell /\ ~ all THEN above
             ELSE RestoreEntry(above, i + 1)

LEMMA RestoredExists ==
    ASSUME NEW t, Len(t.filemap) \in Nat, NEW all, NEW last \in 0..Len(t.filemap)
    PROVE  \E f : f = [i \in last..Len(t.filemap) |-> Restored1(t, all, f, i)]
<1> DEFINE top == Len(t.filemap)
           Has(d) == \E f : f = [i \in top - d..top |-> Restored1(t, all, f, i)]
           Bad == {d \in 0..top : ~ Has(d)}
<1> HIDE DEF top
<1>1. SUFFICES ASSUME ~ Has(top - last)
               PROVE  FALSE
  <2>1. top - (top - last) = last /\ top \in Nat
    BY DEF top
  <2>2. Has(top - last)
    BY <1>1
  <2>3. QED
    BY <2>1, <2>2 DEF top
<1>2. top \in Nat /\ last \in 0..top
  BY DEF top
<1>3. Bad \in SUBSET Nat /\ Bad # {}
  <2>1. top - last \in 0..top
    BY <1>2
  <2> HIDE DEF Has
  <2>2. top - last \in Bad
    BY <1>1, <2>1
  <2>3. QED
    BY <1>2, <2>2
<1>4. PICK d \in Bad : \A m \in Bad : d <= m
  <2> HIDE DEF Bad
  <2>1. QED
    BY <1>3, Least
<1>5. d # 0
  <2> DEFINE f == [i \in top..top |-> t]
  <2>1. f = [i \in top..top |-> Restored1(t, all, f, i)]
    BY <1>2 DEF Restored1, top
  <2>2. top - 0 = top
    BY <1>2
  <2>3. Has(0)
    BY <2>1, <2>2
  <2>4. QED
    BY <1>4, <2>3
<1>6. d \in 0..top /\ d - 1 \in 0..top /\ d - 1 \notin Bad
  <2> HIDE DEF Has
  <2>1. d \in 0..top /\ d - 1 \in 0..top
    BY <1>2, <1>4, <1>5
  <2>2. QED
    BY <1>4, <2>1
<1>7. Has(d - 1)
  BY <1>6
<1> DEFINE k == top - d
<1>8. k \in Nat /\ k < top /\ top - (d - 1) = k + 1
  BY <1>2, <1>5, <1>6
<1> HIDE DEF k
<1>9. PICK f : f = [i \in k + 1..top |-> Restored1(t, all, f, i)]
  BY <1>7, <1>8
<1> DEFINE w == Restored1(t, all, f, k)
           g == [i \in k..top |-> IF i = k THEN w ELSE f[i]]
<1>10. g = [i \in k..top |-> Restored1(t, all, g, i)]
  <2>1. ASSUME NEW i \in k..top
        PROVE  g[i] = Restored1(t, all, g, i)
    <3>1. CASE i = k
      <4>1. g[k + 1] = f[k + 1] /\ g[k] = w
        BY <1>2, <1>8
      <4> HIDE DEF g
      <4>2. QED
        BY <3>1, <4>1 DEF Restored1
    <3>2. CASE i > k
      <4>1. g[i] = f[i] /\ f[i] = Restored1(t, all, f, i)
        <5>1. i \in k + 1..top
          BY <1>2, <1>8, <3>2
        <5>2. f[i] = Restored1(t, all, f, i)
          BY <1>9, <5>1, Zenon
        <5> HIDE DEF w
        <5>3. QED
          BY <1>8, <3>2, <5>2
      <4>2. i # top => g[i + 1] = f[i + 1]
        BY <1>2, <1>8, <3>2
      <4> HIDE DEF g
      <4>3. QED
        BY <4>1, <4>2 DEF Restored1, top
    <3>3. QED
      BY <1>8, <3>1, <3>2
  <2>2. QED
    BY <2>1
<1>11. Has(d)
  BY <1>10 DEF k
<1>12. QED
  BY <1>4, <1>11

LEMMA RestoreLoop ==
    ASSUME NEW t \in Io, NEW all \in BOOLEAN, NEW last \in Nat, last < Len(t.filemap)
    PROVE  \E f : /\ f[Len(t.filemap)] = t
                  /\ \A i \in last..Len(t.filemap) - 1 :
                        f[i] = IF f[i + 1].filemap[i + 1].subshell /\ ~ all THEN f[i + 1]
                               ELSE RestoreEntry(f[i + 1], i + 1)
                  /\ sh_iorestore(t, last, all) =
                        [f[last] EXCEPT !.filemap = IF all THEN SubSeq(@, 1, last) ELSE Compact(@, last)]
<1> DEFINE top == Len(t.filemap)
           f == CHOOSE f : f = [i \in last..top |-> Restored1(t, all, f, i)]
<1>1. top \in Nat /\ last \in 0..top
  BY IoFields
<1>2. f = [i \in last..top |-> Restored1(t, all, f, i)]
  BY <1>1, RestoredExists
<1>3. sh_iorestore(t, last, all) =
         [f[last] EXCEPT !.filemap = IF all THEN SubSeq(@, 1, last) ELSE Compact(@, last)]
  <2>1. last < top /\ ~ (last >= top)
    BY <1>1
  <2>2. sh_iorestore(t, last, all) =
           [(IF last < top THEN f[last] ELSE t) EXCEPT
               !.filemap = IF last >= top THEN @ ELSE IF all THEN SubSeq(@, 1, last) ELSE Compact(@, last)]
    BY Zenon DEF sh_iorestore, Restored1
  <2> HIDE DEF f, top
  <2>3. QED
    BY <2>1, <2>2
<1> HIDE DEF f
<1>4. \A i \in last..top : f[i] = Restored1(t, all, f, i)
  BY <1>2, Zenon
<1>5. f[top] = t
  <2>1. top \in last..top
    BY <1>1
  <2>2. QED
    BY <1>4, <2>1 DEF Restored1
<1>6. \A i \in last..top - 1 : f[i] = IF f[i + 1].filemap[i + 1].subshell /\ ~ all THEN f[i + 1]
                                      ELSE RestoreEntry(f[i + 1], i + 1)
  <2>1. \A i \in last..top - 1 : i \in last..top /\ i # top
    BY <1>1
  <2> HIDE DEF top
  <2>2. QED
    BY <1>4, <2>1 DEF Restored1, top
<1>7. QED
  BY <1>3, <1>5, <1>6, Zenon

LEMMA RestoreNothing ==
    ASSUME NEW t \in Io, NEW all \in BOOLEAN, NEW last \in Nat, last >= Len(t.filemap)
    PROVE  sh_iorestore(t, last, all) = t
<1>1. Len(t.filemap) \in Nat /\ ~ (last < Len(t.filemap))
  BY IoFields
<1>2. sh_iorestore(t, last, all) = [t EXCEPT !.filemap = t.filemap]
  BY <1>1 DEF sh_iorestore
<1>3. QED
  BY <1>2 DEF Io

(* The entries that sh_iorestore keeps. *)
Kept1(map, last, f, i) ==
    IF i = last THEN SubSeq(map, 1, last)
    ELSE IF map[i].subshell THEN Append(f[i - 1], map[i]) ELSE f[i - 1]

LEMMA KeptExists ==
    ASSUME NEW map, NEW last \in Nat, NEW n \in Nat, last <= n
    PROVE  \E f : f = [i \in last..n |-> Kept1(map, last, f, i)]
<1> DEFINE Has(k) == \E f : f = [i \in last..k |-> Kept1(map, last, f, i)]
           Bad == {k \in Nat : last <= k /\ ~ Has(k)}
<1>1. SUFFICES ASSUME ~ Has(n)
               PROVE  FALSE
  OBVIOUS
<1>2. Bad \in SUBSET Nat /\ Bad # {}
  <2> HIDE DEF Has
  <2>1. n \in Bad
    BY <1>1
  <2>2. QED
    BY <2>1
<1>3. PICK k \in Bad : \A m \in Bad : k <= m
  <2> HIDE DEF Bad
  <2>1. QED
    BY <1>2, Least
<1>4. k # last
  <2> DEFINE f == [i \in last..last |-> SubSeq(map, 1, last)]
  <2>1. f = [i \in last..last |-> Kept1(map, last, f, i)]
    BY DEF Kept1
  <2>2. Has(last)
    BY <2>1
  <2>3. QED
    BY <1>3, <2>2
<1>5. k \in Nat /\ k - 1 \in Nat /\ last <= k - 1 /\ k - 1 \notin Bad
  <2> HIDE DEF Has
  <2>1. k \in Nat /\ last <= k
    BY <1>3
  <2>2. QED
    BY <1>3, <1>4, <2>1
<1>6. PICK f : f = [i \in last..k - 1 |-> Kept1(map, last, f, i)]
  BY <1>5
<1> DEFINE w == Kept1(map, last, f, k)
           g == [i \in last..k |-> IF i = k THEN w ELSE f[i]]
<1>7. g = [i \in last..k |-> Kept1(map, last, g, i)]
  <2>1. ASSUME NEW i \in last..k
        PROVE  g[i] = Kept1(map, last, g, i)
    <3>1. CASE i = k
      <4>1. g[k - 1] = f[k - 1] /\ g[k] = w
        BY <1>5
      <4> HIDE DEF g
      <4>2. QED
        BY <3>1, <4>1 DEF Kept1
    <3>2. CASE i < k
      <4>1. i \in last..k - 1 /\ (i # last => i - 1 \in last..k - 1)
        BY <1>5, <3>2
      <4>2. f[i] = Kept1(map, last, f, i)
        BY <1>6, <4>1, Zenon
      <4>3. g[i] = f[i] /\ (i # last => g[i - 1] = f[i - 1])
        <5> HIDE DEF w
        <5>1. QED
          BY <1>5, <3>2, <4>1
      <4> HIDE DEF g
      <4>4. QED
        BY <4>2, <4>3 DEF Kept1
    <3>3. QED
      BY <1>5, <3>1, <3>2
  <2>2. QED
    BY <2>1
<1>8. Has(k)
  BY <1>7
<1>9. QED
  BY <1>3, <1>8

(* r consists of the entries of the first i of map up to last, and of those of subshells
   above, in their order: e says where each was. *)
Chosen(map, last, i, r, e) ==
    /\ r \in Seq(Save) /\ Len(r) >= last /\ Len(r) <= i
    /\ e \in [1..Len(r) -> 1..i]
    /\ \A k \in 1..Len(r) : /\ r[k] = map[e[k]] /\ e[k] >= k
                            /\ k <= last => e[k] = k
                            /\ k > last => e[k] > last /\ map[e[k]].subshell
                            /\ e[k] = k \/ \E j \in last + 1..e[k] - 1 : ~ map[j].subshell
    /\ \A k, l \in 1..Len(r) : k < l => e[k] < e[l]
    /\ \A j \in 1..i : j <= last \/ map[j].subshell => \E k \in 1..Len(r) : e[k] = j

LEMMA ChosenMore ==
    ASSUME NEW map \in Seq(Save), NEW last \in Nat, NEW i \in DOMAIN map, last < i,
           NEW r, NEW e, Chosen(map, last, i - 1, r, e)
    PROVE  \E d : Chosen(map, last, i, IF map[i].subshell THEN Append(r, map[i]) ELSE r, d)
<1>1. /\ i \in Nat /\ i >= 1 /\ map[i] \in Save /\ r \in Seq(Save) /\ Len(r) \in Nat
      /\ Len(r) >= last /\ Len(r) <= i - 1 /\ e \in [1..Len(r) -> 1..i - 1]
      /\ \A k \in 1..Len(r) : e[k] \in 1..i - 1 /\ e[k] \in 1..i
  BY DEF Chosen
<1>2. CASE ~ map[i].subshell
  <2>1. e \in [1..Len(r) -> 1..i]
    BY <1>1
  <2>2. \A j \in 1..i : j <= last \/ map[j].subshell => \E k \in 1..Len(r) : e[k] = j
    <3>1. \A j \in 1..i : j <= last \/ map[j].subshell => j \in 1..i - 1
      BY <1>1, <1>2
    <3>2. QED
      BY <3>1 DEF Chosen
  <2>3. Len(r) <= i
    BY <1>1
  <2>4. Chosen(map, last, i, r, e)
    BY <2>1, <2>2, <2>3 DEF Chosen
  <2>5. QED
    BY <1>2, <2>4
<1>3. CASE map[i].subshell
  <2> DEFINE n == Len(r) + 1
             s == Append(r, map[i])
             d == [k \in 1..n |-> IF k = n THEN i ELSE e[k]]
  <2>1. /\ s \in Seq(Save) /\ Len(s) = n /\ s[n] = map[i]
        /\ \A k \in 1..Len(r) : s[k] = r[k]
    BY <1>1
  <2>2. /\ n \in Nat /\ n > last /\ n <= i /\ n = Len(r) + 1
        /\ \A k \in 1..n : k # n => k \in 1..Len(r)
        /\ \A k \in 1..Len(r) : k \in 1..n /\ k # n /\ k < n
    BY <1>1
  <2>3. d \in [1..n -> 1..i]
    BY <1>1, <2>2
  <2>4. d[n] = i /\ \A k \in 1..Len(r) : d[k] = e[k]
    BY <2>2
  <2> HIDE DEF s, d, n
  <2>5. i = n \/ \E j \in last + 1..i - 1 : ~ map[j].subshell
    <3>1. SUFFICES ASSUME \A j \in last + 1..i - 1 : map[j].subshell
                   PROVE  i <= n
      BY <1>1, <2>2
    <3>2. \A j \in 1..i - 1 : j <= last \/ j \in last + 1..i - 1
      BY <1>1
    <3>3. \A j \in 1..i - 1 : \E k \in 1..Len(r) : e[k] = j
      BY <3>1, <3>2 DEF Chosen
    <3>4. \A k \in 1..Len(r) : e[k] >= k /\ (e[k] = k \/ \E j \in last + 1..e[k] - 1 : ~ map[j].subshell)
      BY DEF Chosen
    <3>5. \A k \in 1..Len(r) : \A j \in last + 1..e[k] - 1 : j \in last + 1..i - 1
      BY <1>1
    <3>6. \A k \in 1..Len(r) : e[k] = k
      BY <3>1, <3>4, <3>5
    <3>7. \A j \in 1..i - 1 : j \in 1..Len(r)
      BY <3>3, <3>6
    <3>8. i - 1 = 0 \/ i - 1 \in 1..i - 1
      BY <1>1
    <3>9. QED
      BY <1>1, <2>2, <3>7, <3>8
  <2>6. ASSUME NEW k \in 1..n
        PROVE  /\ s[k] = map[d[k]] /\ d[k] >= k
               /\ k <= last => d[k] = k
               /\ k > last => d[k] > last /\ map[d[k]].subshell
               /\ d[k] = k \/ \E j \in last + 1..d[k] - 1 : ~ map[j].subshell
    <3>1. CASE k = n
      BY <1>3, <2>1, <2>2, <2>4, <2>5, <3>1
    <3>2. CASE k # n
      <4>1. k \in 1..Len(r) /\ s[k] = r[k] /\ d[k] = e[k]
        BY <2>1, <2>2, <2>4, <3>2
      <4>2. QED
        BY <4>1 DEF Chosen
    <3>3. QED
      BY <3>1, <3>2
  <2>7. \A k, l \in 1..n : k < l => d[k] < d[l]
    <3>1. SUFFICES ASSUME NEW k \in 1..n, NEW l \in 1..n, k < l
                   PROVE  d[k] < d[l]
      OBVIOUS
    <3>2. k \in 1..Len(r) /\ d[k] = e[k] /\ e[k] \in 1..i - 1
      BY <1>1, <2>2, <2>4, <3>1
    <3>3. CASE l = n
      BY <1>1, <2>4, <3>2, <3>3
    <3>4. CASE l # n
      <4>1. l \in 1..Len(r) /\ d[l] = e[l]
        BY <2>2, <2>4, <3>4
      <4>2. e[k] < e[l]
        BY <3>1, <3>2, <4>1 DEF Chosen
      <4>3. QED
        BY <3>2, <4>1, <4>2
    <3>5. QED
      BY <3>3, <3>4
  <2>8. \A j \in 1..i : j <= last \/ map[j].subshell => \E k \in 1..n : d[k] = j
    <3>1. SUFFICES ASSUME NEW j \in 1..i, j <= last \/ map[j].subshell
                   PROVE  \E k \in 1..n : d[k] = j
      OBVIOUS
    <3>2. CASE j = i
      BY <2>2, <2>4, <3>2, <1>1
    <3>3. CASE j # i
      <4>1. j \in 1..i - 1
        BY <1>1, <3>3
      <4>2. PICK k \in 1..Len(r) : e[k] = j
        BY <3>1, <4>1 DEF Chosen
      <4>3. QED
        BY <2>2, <2>4, <4>2
    <3>4. QED
      BY <3>2, <3>3
  <2>9. Len(s) >= last /\ Len(s) <= i
    BY <2>1, <2>2, <1>1
  <2>10. Chosen(map, last, i, s, d)
    BY <2>1, <2>3, <2>6, <2>7, <2>8, <2>9 DEF Chosen
  <2>11. QED
    BY <1>3, <2>10 DEF s
<1>4. QED
  BY <1>2, <1>3

LEMMA CompactFacts ==
    ASSUME NEW map \in Seq(Save), NEW last \in Nat, last <= Len(map)
    PROVE  \E e : Chosen(map, last, Len(map), Compact(map, last), e)
<1> DEFINE n == Len(map)
           f == CHOOSE f : f = [i \in last..n |-> Kept1(map, last, f, i)]
           Has(i) == \E e : Chosen(map, last, i, f[i], e)
           Bad == {i \in last..n : ~ Has(i)}
<1>1. n \in Nat /\ DOMAIN map = 1..n /\ last <= n
  OBVIOUS
<1>2. f = [i \in last..n |-> Kept1(map, last, f, i)]
  BY <1>1, KeptExists
<1>3. Compact(map, last) = f[n]
  BY Zenon DEF Compact, Kept1
<1> HIDE DEF f
<1>4. \A i \in last..n : f[i] = Kept1(map, last, f, i)
  BY <1>2, Zenon
<1>5. Has(last)
  <2> DEFINE r == SubSeq(map, 1, last)
             e == [k \in 1..last |-> k]
  <2>0. last \in last..n
    BY <1>1
  <2>1. f[last] = r
    <3>1. f[last] = Kept1(map, last, f, last)
      BY <1>4, <2>0, Zenon
    <3>2. QED
      BY <3>1, Zenon DEF Kept1
  <2>2. r \in Seq(Save) /\ Len(r) = last /\ \A k \in 1..last : r[k] = map[k]
    BY <1>1
  <2>3. e \in [1..last -> 1..last] /\ \A k \in 1..last : e[k] = k
    OBVIOUS
  <2> HIDE DEF r, e
  <2>4. \A j \in 1..last : \E k \in 1..last : e[k] = j
    BY <2>3
  <2>5. Chosen(map, last, last, r, e)
    BY <1>1, <2>2, <2>3, <2>4 DEF Chosen
  <2>6. QED
    BY <2>1, <2>5
<1>6. ASSUME NEW i \in last + 1..n, Has(i - 1)
      PROVE  Has(i)
  <2>1. i \in DOMAIN map /\ last < i /\ i \in last..n /\ i # last
    BY <1>1
  <2>2. f[i] = IF map[i].subshell THEN Append(f[i - 1], map[i]) ELSE f[i - 1]
    BY <1>4, <2>1 DEF Kept1
  <2>3. PICK e : Chosen(map, last, i - 1, f[i - 1], e)
    BY <1>6
  <2>4. \E d : Chosen(map, last, i, IF map[i].subshell THEN Append(f[i - 1], map[i]) ELSE f[i - 1], d)
    BY <2>1, <2>3, ChosenMore
  <2>5. QED
    BY <2>2, <2>4
<1> HIDE DEF Has
<1>7. Bad = {}
  <2>1. SUFFICES ASSUME Bad # {}
                 PROVE  FALSE
    OBVIOUS
  <2>2. Bad \in SUBSET Nat
    BY <1>1
  <2>3. PICK i \in Bad : \A j \in Bad : i <= j
    <3> HIDE DEF Bad
    <3>1. QED
      BY <2>1, <2>2, Least
  <2>4. i \in last + 1..n /\ i - 1 \in last..n /\ i - 1 \notin Bad
    BY <1>1, <1>5, <2>3
  <2>5. Has(i - 1)
    BY <2>4
  <2>6. Has(i)
    BY <1>6, <2>4, <2>5
  <2>7. QED
    BY <2>3, <2>6
<1>8. Has(n)
  BY <1>1, <1>7
<1>9. QED
  BY <1>3, <1>8 DEF Has

(* The loop of sh_iounsave. *)
Unsaved1(t, f, i) ==
    IF i = 0 THEN [io |-> t, new |-> 0]
    ELSE LET u == f[i - 1]
             entry == u.io.filemap[i]
         IN  IF entry.save # NoFd THEN [u EXCEPT !.io = sh_close(u.io, entry.save)]
             ELSE [io |-> [u.io EXCEPT !.filemap[u.new + 1] = entry], new |-> u.new + 1]

LEMMA UnsavedExists ==
    ASSUME NEW t, NEW n \in Nat
    PROVE  \E f : f = [i \in 0..n |-> Unsaved1(t, f, i)]
<1> DEFINE Has(k) == \E f : f = [i \in 0..k |-> Unsaved1(t, f, i)]
           Bad == {k \in Nat : ~ Has(k)}
<1>1. SUFFICES ASSUME ~ Has(n)
               PROVE  FALSE
  OBVIOUS
<1>2. Bad \in SUBSET Nat /\ Bad # {}
  <2> HIDE DEF Has
  <2>1. n \in Bad
    BY <1>1
  <2>2. QED
    BY <2>1
<1>3. PICK k \in Bad : \A m \in Bad : k <= m
  <2> HIDE DEF Bad
  <2>1. QED
    BY <1>2, Least
<1>4. k # 0
  <2> DEFINE f == [i \in 0..0 |-> [io |-> t, new |-> 0]]
  <2>1. f = [i \in 0..0 |-> Unsaved1(t, f, i)]
    BY DEF Unsaved1
  <2>2. Has(0)
    BY <2>1
  <2>3. QED
    BY <1>3, <2>2
<1>5. k \in Nat /\ k - 1 \in Nat /\ k - 1 \notin Bad
  <2> HIDE DEF Has
  <2>1. k \in Nat
    BY <1>3
  <2>2. QED
    BY <1>3, <1>4, <2>1
<1>6. PICK f : f = [i \in 0..k - 1 |-> Unsaved1(t, f, i)]
  BY <1>5
<1> DEFINE w == Unsaved1(t, f, k)
           g == [i \in 0..k |-> IF i = k THEN w ELSE f[i]]
<1>7. g = [i \in 0..k |-> Unsaved1(t, g, i)]
  <2>1. ASSUME NEW i \in 0..k
        PROVE  g[i] = Unsaved1(t, g, i)
    <3>1. CASE i = k
      <4>1. g[k - 1] = f[k - 1] /\ g[k] = w
        BY <1>5
      <4> HIDE DEF g
      <4>2. QED
        BY <3>1, <4>1 DEF Unsaved1
    <3>2. CASE i < k
      <4>1. i \in 0..k - 1 /\ (i # 0 => i - 1 \in 0..k - 1)
        BY <1>5, <3>2
      <4>2. f[i] = Unsaved1(t, f, i)
        BY <1>6, <4>1, Zenon
      <4>3. g[i] = f[i] /\ (i # 0 => g[i - 1] = f[i - 1])
        <5> HIDE DEF w
        <5>1. QED
          BY <1>5, <3>2, <4>1
      <4> HIDE DEF g
      <4>4. QED
        BY <4>2, <4>3 DEF Unsaved1
    <3>3. QED
      BY <1>5, <3>1, <3>2
  <2>2. QED
    BY <2>1
<1>8. Has(k)
  BY <1>7
<1>9. QED
  BY <1>3, <1>8

LEMMA UnsaveLoop ==
    ASSUME NEW t \in Io
    PROVE  \E f : /\ f[0] = [io |-> t, new |-> 0]
                  /\ \A i \in 1..Len(t.filemap) :
                        LET u == f[i - 1]
                            entry == u.io.filemap[i]
                        IN  f[i] = IF entry.save # NoFd
                                   THEN [u EXCEPT !.io = sh_close(u.io, entry.save)]
                                   ELSE [io |-> [u.io EXCEPT !.filemap[u.new + 1] = entry],
                                         new |-> u.new + 1]
                  /\ LET done == f[Len(t.filemap)]
                     IN  sh_iounsave(t) = [done.io EXCEPT !.filemap = SubSeq(@, 1, done.new)]
<1> DEFINE n == Len(t.filemap)
           f == CHOOSE f : f = [i \in 0..n |-> Unsaved1(t, f, i)]
<1>1. n \in Nat
  BY IoFields
<1>2. f = [i \in 0..n |-> Unsaved1(t, f, i)]
  BY <1>1, UnsavedExists
<1>3. sh_iounsave(t) = [f[n].io EXCEPT !.filemap = SubSeq(@, 1, f[n].new)]
  BY Zenon DEF sh_iounsave, Unsaved1
<1> HIDE DEF f
<1>4. \A i \in 0..n : f[i] = Unsaved1(t, f, i)
  BY <1>2, Zenon
<1>5. f[0] = [io |-> t, new |-> 0]
  <2>1. 0 \in 0..n
    BY <1>1
  <2>2. f[0] = Unsaved1(t, f, 0)
    BY <1>4, <2>1, Zenon
  <2>3. QED
    BY <2>2 DEF Unsaved1
<1>6. ASSUME NEW i \in 1..n
      PROVE  LET u == f[i - 1]
                 entry == u.io.filemap[i]
             IN  f[i] = IF entry.save # NoFd THEN [u EXCEPT !.io = sh_close(u.io, entry.save)]
                        ELSE [io |-> [u.io EXCEPT !.filemap[u.new + 1] = entry], new |-> u.new + 1]
  <2>1. i \in 0..n /\ i # 0
    BY <1>1
  <2>2. f[i] = Unsaved1(t, f, i)
    BY <1>4, <2>1, Zenon
  <2>3. QED
    BY <2>1, <2>2, Zenon DEF Unsaved1
<1>7. QED
  BY <1>3, <1>5, <1>6, Zenon

(* Induction from the top down, and from the bottom up. *)
LEMMA Down ==
    ASSUME NEW last \in Nat, NEW top \in Nat, last <= top, NEW G \in SUBSET (last..top), top \in G,
           \A i \in last..top - 1 : i + 1 \in G => i \in G
    PROVE  last \in G
<1> DEFINE Bad == {d \in 0..top - last : top - d \notin G}
<1>1. SUFFICES ASSUME last \notin G
               PROVE  FALSE
  OBVIOUS
<1>2. top - last \in 0..top - last /\ top - (top - last) = last
  OBVIOUS
<1>3. Bad \in SUBSET Nat /\ Bad # {}
  BY <1>1, <1>2
<1>4. PICK d \in Bad : \A m \in Bad : d <= m
  <2> HIDE DEF Bad
  <2>1. QED
    BY <1>3, Least
<1>5. d # 0
  BY <1>4
<1>6. d - 1 \in 0..top - last /\ d - 1 \notin Bad
  BY <1>4, <1>5
<1>7. top - (d - 1) \in G /\ top - (d - 1) = (top - d) + 1 /\ top - d \in last..top - 1
  BY <1>4, <1>5, <1>6
<1>8. top - d \in G
  BY <1>7
<1>9. QED
  BY <1>4, <1>8

LEMMA Up ==
    ASSUME NEW n \in Nat, NEW G \in SUBSET (0..n), 0 \in G,
           \A i \in 1..n : i - 1 \in G => i \in G
    PROVE  n \in G
<1> DEFINE Bad == (0..n) \ G
<1>1. SUFFICES ASSUME n \notin G
               PROVE  FALSE
  OBVIOUS
<1>2. Bad \in SUBSET Nat /\ Bad # {}
  BY <1>1
<1>3. PICK i \in Bad : \A m \in Bad : i <= m
  <2> HIDE DEF Bad
  <2>1. QED
    BY <1>2, Least
<1>4. i \in 1..n /\ i - 1 \in 0..n
  BY <1>3
<1>5. i - 1 \in G
  BY <1>3, <1>4
<1>6. QED
  BY <1>3, <1>4, <1>5

(* Only filemap is another. *)
LEMMA OtherMap ==
    ASSUME NEW t \in Io, NEW f \in Seq(Save)
    PROVE  LET c == [t EXCEPT !.filemap = f]
           IN  c \in Io /\ c.filemap = f /\ c.fd = t.fd /\ c.fdptrs = t.fdptrs /\ c.own = t.own
BY DEF Io

LEMMA AlikeFacts ==
    ASSUME NEW f \in Seq(Save), NEW g \in Seq(Save), Alike(f, g)
    PROVE  Len(f) = Len(g) /\ DOMAIN f = DOMAIN g
BY DEF Alike

LEMMA AlikeThrough ==
    ASSUME NEW f \in Seq(Save), NEW g \in Seq(Save), NEW h \in Seq(Save), Alike(f, g), Alike(g, h)
    PROVE  Alike(f, h)
<1>1. Len(f) = Len(h) /\ DOMAIN f = DOMAIN g /\ DOMAIN g = DOMAIN h
  BY DEF Alike
<1>2. QED
  BY <1>1 DEF Alike

LEMMA RestoreTyped ==
    ASSUME NEW t \in Io, NEW all \in BOOLEAN, NEW last \in Nat
    PROVE  LET r == sh_iorestore(t, last, all)
           IN  r \in Io /\ Len(r.filemap) <= Len(t.filemap)
<1>1. CASE last >= Len(t.filemap)
  <2>1. sh_iorestore(t, last, all) = t
    BY <1>1, RestoreNothing
  <2>2. Len(t.filemap) \in Nat
    BY IoFields
  <2>3. QED
    BY <2>1, <2>2
<1>2. CASE last < Len(t.filemap)
  <2> DEFINE top == Len(t.filemap)
             r == sh_iorestore(t, last, all)
  <2>1. top \in Nat /\ last \in 0..top /\ last <= top /\ t.filemap \in Seq(Save)
    BY <1>2, IoFields
  <2>2. PICK f : /\ f[top] = t
                 /\ \A i \in last..top - 1 :
                       f[i] = IF f[i + 1].filemap[i + 1].subshell /\ ~ all THEN f[i + 1]
                              ELSE RestoreEntry(f[i + 1], i + 1)
                 /\ r = [f[last] EXCEPT !.filemap = IF all THEN SubSeq(@, 1, last) ELSE Compact(@, last)]
    BY <1>2, RestoreLoop
  <2> DEFINE G == {i \in last..top : f[i] \in Io /\ Alike(f[i].filemap, t.filemap)}
  <2>3. top \in G
    BY <2>1, <2>2 DEF Alike
  <2>4. ASSUME NEW i \in last..top - 1, i + 1 \in G
        PROVE  i \in G
    <3> DEFINE u == f[i + 1]
    <3>1. u \in Io /\ Alike(u.filemap, t.filemap) /\ i + 1 \in DOMAIN t.filemap /\ i \in last..top
      BY <2>1, <2>4
    <3> HIDE DEF u
    <3>2. u.filemap \in Seq(Save) /\ i + 1 \in DOMAIN u.filemap
      BY <2>1, <3>1, IoFields, AlikeFacts
    <3>3. LET e == RestoreEntry(u, i + 1) IN e \in Io /\ Alike(e.filemap, u.filemap)
      BY <3>1, <3>2, RestoreFacts DEF PutBack
    <3>4. LET e == RestoreEntry(u, i + 1) IN e \in Io /\ Alike(e.filemap, t.filemap)
      BY <2>1, <3>1, <3>2, <3>3, IoFields, AlikeThrough
    <3>5. f[i] = u \/ f[i] = RestoreEntry(u, i + 1)
      BY <2>2 DEF u
    <3>6. QED
      BY <3>1, <3>4, <3>5
  <2>5. last \in G
    <3> HIDE DEF G
    <3>1. G \in SUBSET (last..top)
      BY DEF G
    <3> HIDE DEF top
    <3>2. QED
      BY <2>1, <2>3, <2>4, <3>1, Down
  <2> DEFINE d == f[last]
             map == IF all THEN SubSeq(d.filemap, 1, last) ELSE Compact(d.filemap, last)
  <2>6. d \in Io /\ d.filemap \in Seq(Save) /\ Len(d.filemap) = top
    BY <2>1, <2>5, IoFields, AlikeFacts
  <2> HIDE DEF d
  <2>7. map \in Seq(Save) /\ Len(map) <= top
    <3>1. CASE all
      BY <2>1, <2>6, <3>1
    <3>2. CASE ~ all
      <4>1. \E e : Chosen(d.filemap, last, Len(d.filemap), Compact(d.filemap, last), e)
        BY <2>1, <2>6, CompactFacts
      <4>2. QED
        BY <2>6, <3>2, <4>1 DEF Chosen
    <3>3. QED
      BY <3>1, <3>2
  <2>8. r = [d EXCEPT !.filemap = map]
    BY <2>2, <2>6 DEF d, Io
  <2> HIDE DEF map, r
  <2>9. r \in Io /\ r.filemap = map
    BY <2>6, <2>7, <2>8, OtherMap
  <2>10. QED
    BY <2>7, <2>9 DEF r
<1>3. QED
  <2>1. Len(t.filemap) \in Nat
    BY IoFields
  <2>2. QED
    BY <1>1, <1>2, <2>1

LEMMA UnsaveTyped ==
    ASSUME NEW t \in Io
    PROVE  LET r == sh_iounsave(t)
           IN  r \in Io /\ Len(r.filemap) <= Len(t.filemap)
<1> DEFINE n == Len(t.filemap)
           r == sh_iounsave(t)
<1>1. n \in Nat /\ t.filemap \in Seq(Save)
  BY IoFields
<1>2. PICK f : /\ f[0] = [io |-> t, new |-> 0]
               /\ \A i \in 1..n :
                     LET u == f[i - 1]
                         entry == u.io.filemap[i]
                     IN  f[i] = IF entry.save # NoFd
                                THEN [u EXCEPT !.io = sh_close(u.io, entry.save)]
                                ELSE [io |-> [u.io EXCEPT !.filemap[u.new + 1] = entry],
                                      new |-> u.new + 1]
               /\ r = [f[n].io EXCEPT !.filemap = SubSeq(@, 1, f[n].new)]
  BY UnsaveLoop
<1> DEFINE G == {i \in 0..n : /\ f[i] \in [io : Io, new : 0..i]
                              /\ Len(f[i].io.filemap) = n}
<1>3. 0 \in G
  BY <1>1, <1>2
<1>4. ASSUME NEW i \in 1..n, i - 1 \in G
      PROVE  i \in G
  <2> DEFINE u == f[i - 1]
             map == u.io.filemap
             entry == map[i]
             g == [map EXCEPT ![u.new + 1] = entry]
  <2>1. u \in [io : Io, new : 0..i - 1] /\ Len(map) = n /\ i \in 0..n
    BY <1>1, <1>4
  <2>2. f[i] = IF entry.save # NoFd THEN [u EXCEPT !.io = sh_close(u.io, entry.save)]
               ELSE [io |-> [u.io EXCEPT !.filemap[u.new + 1] = entry], new |-> u.new + 1]
    BY <1>2
  <2> HIDE DEF u
  <2>3. u.io \in Io /\ u.new \in 0..i - 1 /\ map \in Seq(Save) /\ i \in DOMAIN map
    BY <1>1, <2>1, IoFields
  <2>4. entry \in Save /\ entry.save \in High \cup {NoFd}
    BY <2>3, MapFacts
  <2>5. CASE entry.save # NoFd
    <3> DEFINE c == sh_close(u.io, entry.save)
    <3>1. entry.save \in Fd
      BY <2>4, <2>5 DEF Fd
    <3>2. c \in Io /\ Len(c.filemap) = n
      <4> HIDE DEF entry, c
      <4>1. c \in Io /\ Alike(c.filemap, map)
        BY <2>3, <3>1, CloseFacts DEF c
      <4>2. QED
        BY <2>1, <4>1 DEF Alike
    <3>3. f[i] = [u EXCEPT !.io = c]
      BY <2>2, <2>5
    <3> HIDE DEF c
    <3>4. f[i].io = c /\ f[i] \in [io : Io, new : 0..i]
      BY <2>1, <3>2, <3>3
    <3>5. QED
      BY <2>1, <3>2, <3>4
  <2>6. CASE entry.save = NoFd
    <3> DEFINE d == [u.io EXCEPT !.filemap = g]
    <3>1. f[i] = [io |-> d, new |-> u.new + 1]
      BY <2>2, <2>3, <2>6 DEF Io
    <3>2. g \in Seq(Save) /\ Len(g) = n
      <4> HIDE DEF entry
      <4>1. QED
        BY <2>1, <2>3, <2>4
    <3> HIDE DEF g, d
    <3>3. d \in Io /\ d.filemap = g
      BY <2>3, <3>2, OtherMap DEF d
    <3>4. u.new + 1 \in 0..i
      BY <2>3
    <3>5. QED
      BY <2>1, <3>1, <3>2, <3>3, <3>4
  <2>7. QED
    BY <2>5, <2>6
<1>5. n \in G
  <2> HIDE DEF G
  <2>1. G \in SUBSET (0..n)
    BY DEF G
  <2> HIDE DEF n
  <2>2. QED
    BY <1>1, <1>3, <1>4, <2>1, Up
<1> DEFINE d == f[n].io
           k == f[n].new
           map == SubSeq(d.filemap, 1, k)
<1>6. d \in Io /\ k \in 0..n /\ d.filemap \in Seq(Save) /\ Len(d.filemap) = n
  BY <1>5, IoFields
<1> HIDE DEF d, k
<1>7. map \in Seq(Save) /\ Len(map) = k
  BY <1>1, <1>6
<1>8. r = [d EXCEPT !.filemap = map]
  BY <1>2, <1>6 DEF d, k, Io
<1> HIDE DEF map, r
<1>9. r \in Io /\ r.filemap = map
  BY <1>6, <1>7, <1>8, OtherMap
<1>10. QED
  BY <1>1, <1>6, <1>7, <1>9 DEF r

LEMMA SameSave ==
    ASSUME NEW r \in Save, NEW s \in Save, r.orig = s.orig, r.save = s.save, r.subshell = s.subshell,
           r.was = s.was
    PROVE  r = s
BY DEF Save

(* What a child does to the descriptors, when no entry has moved. *)
LEMMA UnsaveFacts ==
    ASSUME NEW t \in Io,
           \A i \in DOMAIN t.filemap : t.filemap[i].save # NoFd =>
               t.fdptrs[t.filemap[i].save] = i /\ t.filemap[i].save \notin t.own
    PROVE  LET r == sh_iounsave(t)
               Saved1(m) == \E j \in DOMAIN t.filemap : t.filemap[j].save = m
           IN  /\ r.own = t.own
               /\ \A m \in Fd : r.fd[m] = IF Saved1(m) THEN Closed ELSE t.fd[m]
               /\ \A m \in High : r.fdptrs[m] = IF Saved1(m) THEN 0 ELSE t.fdptrs[m]
               /\ \A k \in DOMAIN r.filemap : \E j \in DOMAIN t.filemap :
                     r.filemap[k] = t.filemap[j] /\ t.filemap[j].save = NoFd
<1> DEFINE n == Len(t.filemap)
           r == sh_iounsave(t)
           Till(m, i) == \E j \in 1..i : t.filemap[j].save = m
<1>1. n \in Nat /\ t.filemap \in Seq(Save) /\ DOMAIN t.filemap = 1..n
  BY IoFields
<1>2. PICK f : /\ f[0] = [io |-> t, new |-> 0]
               /\ \A i \in 1..n :
                     LET u == f[i - 1]
                         entry == u.io.filemap[i]
                     IN  f[i] = IF entry.save # NoFd
                                THEN [u EXCEPT !.io = sh_close(u.io, entry.save)]
                                ELSE [io |-> [u.io EXCEPT !.filemap[u.new + 1] = entry],
                                      new |-> u.new + 1]
               /\ r = [f[n].io EXCEPT !.filemap = SubSeq(@, 1, f[n].new)]
  BY UnsaveLoop
<1> DEFINE G == {i \in 0..n :
                   /\ f[i] \in [io : Io, new : 0..i]
                   /\ Len(f[i].io.filemap) = n
                   /\ f[i].io.own = t.own
                   /\ \A m \in Fd : f[i].io.fd[m] = IF Till(m, i) THEN Closed ELSE t.fd[m]
                   /\ \A m \in High : f[i].io.fdptrs[m] = IF Till(m, i) THEN 0 ELSE t.fdptrs[m]
                   /\ \A j \in i + 1..n : f[i].io.filemap[j] = t.filemap[j]
                   /\ \A k \in 1..f[i].new : \E j \in 1..n :
                         f[i].io.filemap[k] = t.filemap[j] /\ t.filemap[j].save = NoFd}
<1>3. 0 \in G
  <2>1. f[0].io = t /\ f[0].new = 0 /\ f[0] \in [io : Io, new : 0..0] /\ 0 \in 0..n
    BY <1>1, <1>2
  <2>2. QED
    BY <2>1
<1>4. ASSUME NEW i \in 1..n, i - 1 \in G
      PROVE  i \in G
  <2> DEFINE u == f[i - 1]
             map == u.io.filemap
             entry == map[i]
             g == [map EXCEPT ![u.new + 1] = entry]
  <2>1. /\ u \in [io : Io, new : 0..i - 1] /\ Len(map) = n /\ i \in 0..n /\ u.io.own = t.own
        /\ \A m \in Fd : u.io.fd[m] = IF Till(m, i - 1) THEN Closed ELSE t.fd[m]
        /\ \A m \in High : u.io.fdptrs[m] = IF Till(m, i - 1) THEN 0 ELSE t.fdptrs[m]
        /\ \A j \in (i - 1) + 1..n : map[j] = t.filemap[j]
        /\ \A k \in 1..u.new : \E j \in 1..n : map[k] = t.filemap[j] /\ t.filemap[j].save = NoFd
    BY <1>1, <1>4
  <2>2. f[i] = IF entry.save # NoFd THEN [u EXCEPT !.io = sh_close(u.io, entry.save)]
               ELSE [io |-> [u.io EXCEPT !.filemap[u.new + 1] = entry], new |-> u.new + 1]
    BY <1>2
  <2> HIDE DEF u
  <2>3. u.io \in Io /\ u.new \in 0..i - 1 /\ map \in Seq(Save) /\ i \in DOMAIN map /\ DOMAIN map = 1..n
    BY <1>1, <2>1, IoFields
  <2>4. entry = t.filemap[i] /\ i \in DOMAIN t.filemap
    BY <1>1, <2>1
  <2>5. entry \in Save /\ entry.save \in High \cup {NoFd}
    BY <2>3, MapFacts
  <2>6. \A m : Till(m, i) <=> (Till(m, i - 1) \/ m = entry.save)
    <3>1. 1..i = (1..i - 1) \cup {i}
      OBVIOUS
    <3>2. QED
      BY <2>4, <3>1
  <2>7. CASE entry.save # NoFd
    <3> DEFINE s == entry.save
               c == sh_close(u.io, s)
    <3>1. s \in Fd /\ s \in High
      BY <2>5, <2>7 DEF Fd
    <3>2. t.fdptrs[s] = i /\ s \notin t.own
      BY <2>4, <2>7
    <3>3. ~ Till(s, i - 1)
      <4>1. \A j \in 1..i - 1 : j \in DOMAIN t.filemap /\ j # i
        BY <1>1
      <4>2. QED
        BY <2>7, <3>2, <4>1
    <3>4. u.io.fdptrs[s] = i
      BY <2>1, <3>1, <3>2, <3>3
    <3>5. /\ c \in Io /\ Alike(c.filemap, map)
          /\ \A j \in DOMAIN map :
                c.filemap[j].save = IF s \in High /\ u.io.fdptrs[s] = j THEN NoFd ELSE map[j].save
          /\ \A m \in Fd : c.fd[m] = IF m = s THEN Closed ELSE u.io.fd[m]
          /\ c.own = u.io.own \ {s}
          /\ \A m \in High : c.fdptrs[m] = IF m = s THEN 0 ELSE u.io.fdptrs[m]
      <4> HIDE DEF s
      <4>1. QED
        BY <2>3, <3>1, CloseFacts
    <3>6. f[i] = [u EXCEPT !.io = c]
      BY <2>2, <2>7
    <3> HIDE DEF c
    <3>7. f[i].io = c /\ f[i].new = u.new /\ f[i] \in [io : Io, new : 0..i]
      BY <2>1, <3>5, <3>6
    <3> HIDE DEF s, entry
    <3>8. Len(c.filemap) = n /\ c.own = t.own
      BY <2>1, <3>2, <3>5 DEF Alike
    <3>9. \A j \in 1..n : j # i => c.filemap[j] = map[j]
      <4>1. SUFFICES ASSUME NEW j \in 1..n, j # i
                     PROVE  c.filemap[j] = map[j]
        OBVIOUS
      <4>2. c.filemap \in Seq(Save) /\ DOMAIN c.filemap = 1..n /\ j \in DOMAIN map
        BY <2>3, <3>5, <3>8, IoFields
      <4>3. c.filemap[j] \in Save /\ map[j] \in Save
        BY <2>3, <4>2
      <4>4. c.filemap[j].save = map[j].save
        BY <3>4, <3>5, <4>1, <4>2
      <4>5. c.filemap[j].orig = map[j].orig /\ c.filemap[j].subshell = map[j].subshell
            /\ c.filemap[j].was = map[j].was
        BY <3>5, <4>2 DEF Alike
      <4>6. QED
        BY <4>3, <4>4, <4>5, SameSave
    <3>10. \A m \in Fd : c.fd[m] = IF Till(m, i) THEN Closed ELSE t.fd[m]
      <4> HIDE DEF Till
      <4>1. QED
        BY <2>1, <2>6, <3>5 DEF s
    <3>11. \A m \in High : c.fdptrs[m] = IF Till(m, i) THEN 0 ELSE t.fdptrs[m]
      <4> HIDE DEF Till
      <4>1. QED
        BY <2>1, <2>6, <3>5 DEF s
    <3>12. \A j \in i + 1..n : c.filemap[j] = t.filemap[j]
      <4>1. \A j \in i + 1..n : j \in (i - 1) + 1..n /\ j # i /\ j \in 1..n
        BY <1>1
      <4>2. QED
        BY <2>1, <3>9, <4>1
    <3>13. \A k \in 1..u.new : \E j \in 1..n : c.filemap[k] = t.filemap[j] /\ t.filemap[j].save = NoFd
      <4>1. \A k \in 1..u.new : k # i /\ k \in 1..n
        BY <1>1, <2>3
      <4>2. QED
        BY <2>1, <3>9, <4>1
    <3> HIDE DEF Till
    <3>14. QED
      BY <2>1, <3>7, <3>8, <3>10, <3>11, <3>12, <3>13
  <2>8. CASE entry.save = NoFd
    <3> DEFINE d == [u.io EXCEPT !.filemap = g]
    <3>1. f[i] = [io |-> d, new |-> u.new + 1]
      BY <2>2, <2>3, <2>8 DEF Io
    <3>2. /\ g \in Seq(Save) /\ Len(g) = n /\ g[u.new + 1] = entry
          /\ \A j \in 1..n : j # u.new + 1 => g[j] = map[j]
      <4>1. u.new + 1 \in 1..n
        BY <1>1, <2>3
      <4> HIDE DEF entry
      <4>2. QED
        BY <2>1, <2>3, <2>5, <4>1
    <3> HIDE DEF g, d
    <3>3. /\ d \in Io /\ d.filemap = g /\ d.fd = u.io.fd /\ d.fdptrs = u.io.fdptrs /\ d.own = u.io.own
      BY <2>3, <3>2, OtherMap DEF d
    <3>4. u.new + 1 \in 0..i /\ 1..u.new + 1 = (1..u.new) \cup {u.new + 1}
      BY <2>3
    <3>5. f[i].io = d /\ f[i].new = u.new + 1 /\ f[i] \in [io : Io, new : 0..i]
      BY <3>1, <3>3, <3>4
    <3>6. \A m \in Fd : Till(m, i) <=> Till(m, i - 1)
      BY <2>6, <2>8, Numbers DEF Fd
    <3>7. \A m \in High : m \in Fd
      BY DEF Fd
    <3>8. \A m \in Fd : d.fd[m] = IF Till(m, i) THEN Closed ELSE t.fd[m]
      BY <2>1, <3>3, <3>6
    <3>9. \A m \in High : d.fdptrs[m] = IF Till(m, i) THEN 0 ELSE t.fdptrs[m]
      BY <2>1, <3>3, <3>6, <3>7
    <3>10. \A j \in i + 1..n : g[j] = t.filemap[j]
      <4>1. \A j \in i + 1..n : j \in (i - 1) + 1..n /\ j # u.new + 1 /\ j \in 1..n
        BY <1>1, <2>3
      <4>2. QED
        BY <2>1, <3>2, <4>1
    <3>11. \A k \in 1..u.new + 1 : \E j \in 1..n : g[k] = t.filemap[j] /\ t.filemap[j].save = NoFd
      <4>1. \A k \in 1..u.new : k # u.new + 1 /\ k \in 1..n
        BY <1>1, <2>3
      <4>2. g[u.new + 1] = t.filemap[i] /\ t.filemap[i].save = NoFd /\ i \in 1..n
        BY <2>4, <2>8, <3>2, <1>4
      <4>3. \A k \in 1..u.new : \E j \in 1..n : g[k] = t.filemap[j] /\ t.filemap[j].save = NoFd
        BY <2>1, <3>2, <4>1
      <4> HIDE DEF entry, n, map
      <4>4. QED
        BY <3>4, <4>2, <4>3
    <3> HIDE DEF Till, entry, map
    <3>12. /\ Len(f[i].io.filemap) = n /\ f[i].io.own = t.own
           /\ \A m \in Fd : f[i].io.fd[m] = IF Till(m, i) THEN Closed ELSE t.fd[m]
           /\ \A m \in High : f[i].io.fdptrs[m] = IF Till(m, i) THEN 0 ELSE t.fdptrs[m]
      BY <2>1, <3>2, <3>3, <3>5, <3>8, <3>9
    <3>13. f[i].io.filemap = g
      BY <3>3, <3>5
    <3>14. QED
      BY <2>1, <3>5, <3>10, <3>11, <3>12, <3>13
  <2>9. QED
    BY <2>7, <2>8
<1>5. n \in G
  <2> HIDE DEF G
  <2>1. G \in SUBSET (0..n)
    BY DEF G
  <2> HIDE DEF n
  <2>2. QED
    BY <1>1, <1>3, <1>4, <2>1, Up
<1> DEFINE d == f[n].io
           k == f[n].new
           map == SubSeq(d.filemap, 1, k)
<1>6. /\ d \in Io /\ k \in 0..n /\ d.filemap \in Seq(Save) /\ Len(d.filemap) = n /\ d.own = t.own
      /\ \A m \in Fd : d.fd[m] = IF Till(m, n) THEN Closed ELSE t.fd[m]
      /\ \A m \in High : d.fdptrs[m] = IF Till(m, n) THEN 0 ELSE t.fdptrs[m]
      /\ \A h \in 1..k : \E j \in 1..n : d.filemap[h] = t.filemap[j] /\ t.filemap[j].save = NoFd
  BY <1>5, IoFields
<1> HIDE DEF d, k
<1>7. map \in Seq(Save) /\ DOMAIN map = 1..k /\ \A h \in 1..k : map[h] = d.filemap[h]
  BY <1>1, <1>6
<1>8. r = [d EXCEPT !.filemap = map]
  BY <1>2, <1>6 DEF d, k, Io
<1> HIDE DEF map, r
<1>9. r \in Io /\ r.filemap = map /\ r.fd = d.fd /\ r.fdptrs = d.fdptrs /\ r.own = d.own
  BY <1>6, <1>7, <1>8, OtherMap
<1>10. \A h \in DOMAIN r.filemap : \E j \in DOMAIN t.filemap :
          r.filemap[h] = t.filemap[j] /\ t.filemap[j].save = NoFd
  <2> HIDE DEF n, Till
  <2>1. \A h \in 1..k : \E j \in 1..n : d.filemap[h] = t.filemap[j] /\ t.filemap[j].save = NoFd
    BY <1>6, Zenon
  <2>2. DOMAIN r.filemap = 1..k /\ DOMAIN t.filemap = 1..n
    BY <1>1, <1>7, <1>9
  <2>3. \A h \in 1..k : r.filemap[h] = d.filemap[h]
    BY <1>7, <1>9
  <2>4. SUFFICES ASSUME NEW h \in 1..k
                 PROVE  \E j \in 1..n : r.filemap[h] = t.filemap[j] /\ t.filemap[j].save = NoFd
    BY <2>2, Zenon
  <2>5. PICK j \in 1..n : d.filemap[h] = t.filemap[j] /\ t.filemap[j].save = NoFd
    BY <2>1
  <2>6. QED
    BY <2>3, <2>5
<1>11. \A m : (\E j \in DOMAIN t.filemap : t.filemap[j].save = m) <=> Till(m, n)
  BY <1>1
<1> HIDE DEF Till
<1>12. QED
  BY <1>6, <1>9, <1>10, <1>11 DEF r

--------------------------------------------------------------------------------
(* Commands: types. *)

PartialFd == UNION {[ns -> File \cup {Closed}] : ns \in SUBSET Fd}

LEMMA Partial ==
    /\ <<>> \in PartialFd
    /\ \A ns \in SUBSET Fd : \A f \in [ns -> File \cup {Closed}] : f \in PartialFd
    /\ \A f \in PartialFd : /\ DOMAIN f \in SUBSET Fd /\ f \in [DOMAIN f -> File \cup {Closed}]
                            /\ \A n \in DOMAIN f : f[n] \in File \cup {Closed}
<1>1. <<>> \in [{} -> File \cup {Closed}]
  <2>1. <<>> = [x \in {} |-> Closed]
    OBVIOUS
  <2>2. QED
    BY <2>1
<1>2. \A ns \in SUBSET Fd : \A f \in [ns -> File \cup {Closed}] : f \in PartialFd
  BY DEF PartialFd
<1>3. <<>> \in PartialFd
  <2>1. {} \in SUBSET Fd
    OBVIOUS
  <2>2. QED
    BY <1>1, <1>2, <2>1
<1>4. ASSUME NEW f \in PartialFd
      PROVE  /\ DOMAIN f \in SUBSET Fd /\ f \in [DOMAIN f -> File \cup {Closed}]
             /\ \A n \in DOMAIN f : f[n] \in File \cup {Closed}
  <2>1. PICK ns \in SUBSET Fd : f \in [ns -> File \cup {Closed}]
    BY DEF PartialFd
  <2>2. QED
    BY <2>1
<1>5. QED
  BY <1>2, <1>3, <1>4

LEMMA OverFacts ==
    ASSUME NEW f \in PartialFd, NEW g \in PartialFd
    PROVE  /\ Over(f, g) \in PartialFd
           /\ DOMAIN Over(f, g) = DOMAIN f \cup DOMAIN g
           /\ \A n \in DOMAIN f \cup DOMAIN g :
                 Over(f, g)[n] = IF n \in DOMAIN f THEN f[n] ELSE g[n]
<1>1. /\ DOMAIN Over(f, g) = DOMAIN f \cup DOMAIN g
      /\ \A n \in DOMAIN f \cup DOMAIN g : Over(f, g)[n] = IF n \in DOMAIN f THEN f[n] ELSE g[n]
  BY DEF Over
<1>2. Over(f, g) \in [DOMAIN f \cup DOMAIN g -> File \cup {Closed}]
  BY Partial DEF Over
<1>3. DOMAIN f \cup DOMAIN g \in SUBSET Fd
  BY Partial
<1>4. QED
  BY <1>1, <1>2, <1>3, Partial

LEMMA ViewFacts ==
    ASSUME NEW t \in Io
    PROVE  /\ View(t) \in [Fd -> File \cup {Closed}] /\ View(t) \in PartialFd /\ DOMAIN View(t) = Fd
           /\ \A n \in Fd : View(t)[n] = IF n \in Low \cup t.own THEN t.fd[n] ELSE Closed
<1>1. View(t) \in [Fd -> File \cup {Closed}]
  BY IoFields DEF View
<1>2. QED
  BY <1>1, Partial DEF View

LEMMA FrameFields ==
    ASSUME NEW c \in Frame
    PROVE  /\ c.kind \in {"block", "function", "exec", "sub"} /\ c.redirect \in BOOLEAN
           /\ c.topfd \in 0..MaxTop /\ c.topfd \in Nat /\ c.fdsaved \in SUBSET Low
           /\ c.v \in High \cup {NoFd} /\ c.before \in PartialFd
           /\ DOMAIN c.before \in SUBSET Fd
<1>1. /\ c.kind \in {"block", "function", "exec", "sub"} /\ c.redirect \in BOOLEAN
      /\ c.topfd \in 0..MaxTop /\ c.fdsaved \in SUBSET Low
      /\ c.v \in High \cup {NoFd} /\ c.before \in PartialFd
  BY DEF Frame, PartialFd
<1>2. QED
  BY <1>1, Partial, Numbers

LEMMA StackFacts ==
    ASSUME TypeOK
    PROVE  /\ stack \in Seq(Frame) /\ Len(stack) \in Nat /\ Len(stack) <= MaxDepth
           /\ DOMAIN stack = 1..Len(stack)
           /\ \A i \in DOMAIN stack : stack[i] \in Frame
           /\ stack # <<>> => /\ 1 \in DOMAIN stack /\ Head(stack) = stack[1] /\ Head(stack) \in Frame
                              /\ Tail(stack) \in Seq(Frame) /\ Len(Tail(stack)) = Len(stack) - 1
                              /\ \A i \in 1..Len(stack) - 1 : Tail(stack)[i] = stack[i + 1]
BY DEF TypeOK

LEMMA SubFacts ==
    ASSUME TypeOK, Virtual
    PROVE  /\ Sub \in Subs /\ \A j \in Subs : Sub <= j
           /\ Sub \in DOMAIN stack /\ Sub \in Nat /\ stack[Sub].kind = "sub"
<1>1. Subs \in SUBSET Nat /\ Subs # {}
  BY StackFacts DEF Subs, Virtual
<1>2. \E i \in Subs : \A j \in Subs : i <= j
  BY <1>1, Least
<1>3. Sub \in Subs /\ \A j \in Subs : Sub <= j
  BY <1>2 DEF Sub
<1>4. QED
  BY <1>1, <1>3 DEF Subs

LEMMA NoteFacts ==
    ASSUME TypeOK, stack # <<>>, NEW ns \in SUBSET Fd
    PROVE  LET s == Note(ns)
               exec == stack[1].kind = "exec"
           IN  /\ s \in Seq(Frame) /\ Len(s) = Len(stack) /\ DOMAIN s = DOMAIN stack
               /\ \A i \in DOMAIN stack :
                     /\ s[i].kind = stack[i].kind /\ s[i].redirect = stack[i].redirect
                     /\ s[i].topfd = stack[i].topfd /\ s[i].v = stack[i].v
                     /\ s[i].fdsaved = IF exec /\ Virtual /\ i = Sub
                                       THEN stack[i].fdsaved \cup (ns \cap Low) ELSE stack[i].fdsaved
                     /\ s[i].before = IF ~ exec /\ i = 1
                                      THEN Over(stack[i].before, [n \in ns |-> View(io)[n]])
                                      ELSE stack[i].before
<1> DEFINE s == Note(ns)
           exec == stack[1].kind = "exec"
           new == [n \in ns |-> View(io)[n]]
<1>1. /\ stack \in Seq(Frame) /\ Len(stack) \in Nat /\ DOMAIN stack = 1..Len(stack) /\ 1 \in DOMAIN stack
      /\ Head(stack) = stack[1] /\ \A i \in DOMAIN stack : stack[i] \in Frame
  BY StackFacts
<1>2. io \in Io
  BY DEF TypeOK
<1>3. new \in PartialFd
  <2>1. View(io) \in [Fd -> File \cup {Closed}]
    BY <1>2, ViewFacts
  <2>2. new \in [ns -> File \cup {Closed}]
    BY <2>1
  <2>3. QED
    BY <2>2, Partial
<1>4. CASE exec
  <2> DEFINE W(i) == [stack[i] EXCEPT !.fdsaved = @ \cup (ns \cap Low)]
             w(i) == IF Virtual /\ i = Sub THEN W(i) ELSE stack[i]
  <2>1. s = [i \in DOMAIN stack |-> w(i)]
    BY <1>1, <1>4 DEF Note
  <2>2. ASSUME NEW i \in DOMAIN stack
        PROVE  /\ W(i) \in Frame /\ W(i).kind = stack[i].kind /\ W(i).redirect = stack[i].redirect
               /\ W(i).topfd = stack[i].topfd /\ W(i).v = stack[i].v
               /\ W(i).fdsaved = stack[i].fdsaved \cup (ns \cap Low)
               /\ W(i).before = stack[i].before
    <3>1. stack[i] \in Frame
      BY <1>1
    <3>2. QED
      BY <3>1 DEF Frame
  <2> HIDE DEF W
  <2>3. \A i \in DOMAIN stack : w(i) \in Frame /\ s[i] = w(i)
    BY <1>1, <2>1, <2>2
  <2>4. s \in Seq(Frame) /\ Len(s) = Len(stack) /\ DOMAIN s = DOMAIN stack
    <3> HIDE DEF w
    <3>1. s \in [1..Len(stack) -> Frame]
      BY <1>1, <2>1, <2>3
    <3> HIDE DEF s
    <3>2. QED
      BY <1>1, <3>1
  <2> HIDE DEF s
  <2>5. QED
    BY <1>4, <2>2, <2>3, <2>4 DEF s
<1>5. CASE ~ exec
  <2> DEFINE w == [stack[1] EXCEPT !.before = Over(@, new)]
  <2>1. s = [stack EXCEPT ![1] = w]
    BY <1>1, <1>5 DEF Note
  <2>2. Over(stack[1].before, new) \in PartialFd
    BY <1>1, <1>3, FrameFields, OverFacts
  <2>3. /\ w \in Frame /\ w.kind = stack[1].kind /\ w.redirect = stack[1].redirect
        /\ w.topfd = stack[1].topfd /\ w.v = stack[1].v /\ w.fdsaved = stack[1].fdsaved
        /\ w.before = Over(stack[1].before, new)
    <3> HIDE DEF new
    <3>1. stack[1] \in Frame
      BY <1>1
    <3>2. QED
      BY <2>2, <3>1 DEF Frame, PartialFd
  <2> HIDE DEF w, s
  <2>4. s \in Seq(Frame) /\ Len(s) = Len(stack) /\ DOMAIN s = DOMAIN stack
    BY <1>1, <2>1, <2>3
  <2>5. s[1] = w /\ \A i \in DOMAIN stack : i # 1 => s[i] = stack[i]
    BY <1>1, <2>1
  <2>6. QED
    BY <1>5, <2>3, <2>4, <2>5 DEF s
<1>6. QED
  BY <1>4, <1>5

LEMMA RoomFacts ==
    ASSUME TypeOK, Room
    PROVE  /\ Len(io.filemap) \in Nat /\ Len(io.filemap) + 1 < MaxTop
           /\ \E m, k \in High : m # k /\ io.fd[m] = Closed /\ io.fd[k] = Closed
<1> DEFINE F == {n \in High : io.fd[n] = Closed}
<1>1. Len(io.filemap) \in Nat
  BY IoFields DEF TypeOK
<1>2. SUFFICES ASSUME \A m, k \in F : m = k
               PROVE  FALSE
  BY <1>1 DEF Room
<1>3. F = {} \/ \E m \in F : F = {m}
  BY <1>2
<1>4. Cardinality(F) = 0 \/ Cardinality(F) = 1
  <2> HIDE DEF F
  <2>1. QED
    BY <1>3, FS_EmptySet, FS_Singleton
<1>5. QED
  BY <1>4 DEF Room

LEMMA SetFd ==
    ASSUME NEW t \in Io, NEW n \in Fd, NEW x \in File \cup {Closed}
    PROVE  LET c == [t EXCEPT !.fd[n] = x]
           IN  /\ c \in Io /\ c.filemap = t.filemap /\ c.fdptrs = t.fdptrs /\ c.own = t.own
               /\ \A m \in Fd : c.fd[m] = IF m = n THEN x ELSE t.fd[m]
<1> DEFINE fd == [t.fd EXCEPT ![n] = x]
           c == [t EXCEPT !.fd[n] = x]
<1>1. fd \in [Fd -> File \cup {Closed}] /\ \A m \in Fd : fd[m] = IF m = n THEN x ELSE t.fd[m]
  BY IoFields
<1>2. c = [t EXCEPT !.fd = fd]
  OBVIOUS
<1> HIDE DEF fd, c
<1>3. c \in Io /\ c.fd = fd /\ c.filemap = t.filemap /\ c.fdptrs = t.fdptrs /\ c.own = t.own
  BY <1>1, <1>2 DEF Io
<1>4. QED
  BY <1>1, <1>3 DEF c

(* {v}>file: the number becomes the program's. *)
Taken(t, n, x) == [t EXCEPT !.fd[n] = x, !.own = @ \cup {n}]

LEMMA TakeFd ==
    ASSUME NEW t \in Io, NEW n \in High, NEW x \in File \cup {Closed}
    PROVE  LET c == Taken(t, n, x)
           IN  /\ c \in Io /\ c.filemap = t.filemap /\ c.fdptrs = t.fdptrs /\ c.own = t.own \cup {n}
               /\ \A m \in Fd : c.fd[m] = IF m = n THEN x ELSE t.fd[m]
<1> DEFINE fd == [t.fd EXCEPT ![n] = x]
           own == t.own \cup {n}
           c == Taken(t, n, x)
<1>1. fd \in [Fd -> File \cup {Closed}] /\ \A m \in Fd : fd[m] = IF m = n THEN x ELSE t.fd[m]
  BY IoFields DEF Fd
<1>2. c = [t EXCEPT !.fd = fd, !.own = own] /\ own \in SUBSET High
  BY IoFields DEF Taken
<1> HIDE DEF fd, c, own
<1>3. c \in Io /\ c.fd = fd /\ c.filemap = t.filemap /\ c.fdptrs = t.fdptrs /\ c.own = own
  BY <1>1, <1>2 DEF Io
<1>4. QED
  BY <1>1, <1>3 DEF c, own

LEMMA IosaveTyped ==
    ASSUME NEW t \in Io, NEW n \in Fd, NEW oldtop, NEW subshell \in BOOLEAN, NEW keep \in BOOLEAN,
           Len(t.filemap) < MaxTop, keep \/ t.fd[n] = Closed \/ \E m \in High : t.fd[m] = Closed
    PROVE  LET s == sh_iosave(t, n, oldtop, subshell, keep)
           IN  s \in Io /\ Len(s.filemap) \in Nat /\ Len(s.filemap) <= Len(t.filemap) + 1
<1> DEFINE s == sh_iosave(t, n, oldtop, subshell, keep)
<1>1. s \in Io
  BY IosaveFacts
<1>2. Len(s.filemap) \in Nat /\ Len(t.filemap) \in Nat /\ t.filemap \in Seq(Save)
  BY <1>1, IoFields
<1>3. s = t \/ \E e : s.filemap = Append(t.filemap, e)
  <2> HIDE DEF s
  <2>1. CASE SavedSince(t, n, oldtop)
    BY <2>1, IosaveFacts DEF s
  <2>2. CASE ~ SavedSince(t, n, oldtop)
    <3>1. \E save \in High \cup {NoFd} :
             s.filemap = Append(t.filemap, Entry(n, save, subshell, IF keep THEN Closed ELSE t.fd[n]))
      BY <2>2, IosaveFacts DEF s
    <3>2. QED
      BY <3>1
  <2>3. QED
    BY <2>1, <2>2
<1> HIDE DEF s
<1>4. QED
  BY <1>1, <1>2, <1>3 DEF s

(* What Saved is. *)
LEMMA SavedIs ==
    ASSUME NEW t \in Io, NEW n \in Fd
    PROVE  \/ Saved(t, n) = t /\ Head(stack).kind = "exec" /\ ~ sh_subsavefd(n)
           \/ \E subshell \in BOOLEAN :
                 /\ Saved(t, n) = sh_iosave(t, n, Head(stack).topfd, subshell, FALSE)
                 /\ subshell <=> Head(stack).kind = "exec"
                 /\ subshell => sh_subsavefd(n)
BY DEF Saved

LEMMA SavedTyped ==
    ASSUME NEW t \in Io, NEW n \in Fd, Len(t.filemap) < MaxTop, \E m \in High : t.fd[m] = Closed
    PROVE  Saved(t, n) \in Io /\ Len(Saved(t, n).filemap) \in Nat
           /\ Len(Saved(t, n).filemap) <= Len(t.filemap) + 1
<1>1. Len(t.filemap) \in Nat
  BY IoFields
<1>2. CASE Saved(t, n) = t
  BY <1>1, <1>2
<1>3. CASE \E subshell \in BOOLEAN : Saved(t, n) = sh_iosave(t, n, Head(stack).topfd, subshell, FALSE)
  BY <1>3, IosaveTyped
<1>4. QED
  BY <1>2, <1>3, SavedIs

(* Types, action by action. *)
LEMMA TypeInit == Init => TypeOK
<1>1. SUFFICES ASSUME Init
               PROVE  TypeOK
  OBVIOUS
<1>2. PICK n \in Low, file \in File :
          io = [fd |-> [m \in Fd |-> IF m = n THEN file ELSE Closed], filemap |-> <<>>,
                fdptrs |-> [m \in High |-> 0], own |-> {}]
  BY <1>1 DEF Init
<1>3. io \in Io /\ Len(io.filemap) <= MaxTop
  <2>1. 0 \in 0..MaxTop /\ 0 <= MaxTop
    BY Numbers
  <2>2. io.filemap = <<>>
    BY <1>2
  <2>3. QED
    BY <1>2, <2>1, <2>2 DEF Io
<1>4. stack \in Seq(Frame) /\ Len(stack) <= MaxDepth
  BY <1>1, Numbers DEF Init
<1>5. ops \in Programs /\ v \in High \cup {NoFd} /\ jump \in BOOLEAN /\ lapse \in SUBSET Lapse
  BY <1>1 DEF Init
<1>6. forks \in 0..MaxFork
  BY <1>1, Numbers DEF Init
<1>7. QED
  BY <1>3, <1>4, <1>5, <1>6 DEF TypeOK

LEMMA TypeRedirect ==
    ASSUME TypeOK, NEW n \in Fd, NEW file \in File \cup {Closed}, Redirect(n, file)
    PROVE  TypeOK'
<1>1. io \in Io /\ stack # <<>> /\ Room
  BY DEF TypeOK, Redirect, Redirecting
<1>2. Len(io.filemap) \in Nat /\ Len(io.filemap) + 1 < MaxTop /\ \E m \in High : io.fd[m] = Closed
  BY <1>1, RoomFacts
<1> DEFINE s == Saved(io, n)
<1>3. s \in Io /\ Len(s.filemap) \in Nat /\ Len(s.filemap) <= Len(io.filemap) + 1
  <2>1. Len(io.filemap) < MaxTop
    BY <1>2, Numbers
  <2>2. QED
    BY <1>1, <1>2, <2>1, SavedTyped
<1> HIDE DEF s
<1>4. io' = [s EXCEPT !.fd[n] = file]
  BY DEF Redirect, s
<1>5. io' \in Io /\ io'.filemap = s.filemap
  BY <1>3, <1>4, SetFd
<1>6. Len(io'.filemap) <= MaxTop
  BY <1>2, <1>3, <1>5, Numbers
<1>7. stack' \in Seq(Frame) /\ Len(stack') = Len(stack)
  <2>1. stack' = Note({n}) /\ {n} \in SUBSET Fd
    BY DEF Redirect
  <2>2. QED
    BY <1>1, <2>1, NoteFacts
<1>8. UNCHANGED <<ops, v, jump, forks>> /\ lapse' \in SUBSET Lapse
  BY DEF Redirect, Lapses, TypeOK, Lapse
<1>9. QED
  BY <1>5, <1>6, <1>7, <1>8 DEF TypeOK

LEMMA TypeClose ==
    ASSUME TypeOK, NEW n \in Fd, CloseFd(n)
    PROVE  TypeOK'
<1>1. io \in Io /\ stack # <<>> /\ Room
  BY DEF TypeOK, CloseFd, Redirecting
<1>2. Len(io.filemap) \in Nat /\ Len(io.filemap) + 1 < MaxTop /\ \E m \in High : io.fd[m] = Closed
  BY <1>1, RoomFacts
<1> DEFINE s == Saved(io, n)
<1>3. s \in Io /\ Len(s.filemap) \in Nat /\ Len(s.filemap) <= Len(io.filemap) + 1
  <2>1. Len(io.filemap) < MaxTop
    BY <1>2, Numbers
  <2>2. QED
    BY <1>1, <1>2, <2>1, SavedTyped
<1> HIDE DEF s
<1>4. io' = sh_close(s, n)
  BY DEF CloseFd, s
<1>5. io' \in Io /\ Len(io'.filemap) = Len(s.filemap)
  BY <1>3, <1>4, CloseFacts DEF Alike
<1>6. Len(io'.filemap) <= MaxTop
  BY <1>2, <1>3, <1>5, Numbers
<1>7. stack' \in Seq(Frame) /\ Len(stack') = Len(stack)
  <2>1. stack' = Note({n}) /\ {n} \in SUBSET Fd
    BY DEF CloseFd
  <2>2. QED
    BY <1>1, <2>1, NoteFacts
<1>8. UNCHANGED <<ops, v, jump, forks>> /\ lapse' \in SUBSET Lapse
  BY DEF CloseFd, Lapses, TypeOK, Lapse
<1>9. QED
  BY <1>5, <1>6, <1>7, <1>8 DEF TypeOK

(* What Move saves before it closes m, and then. *)
MoveSaved(m) ==
    IF Head(stack).kind = "exec" THEN io ELSE sh_iosave(io, m, Head(stack).topfd, FALSE, FALSE)
MoveClosed(m) == sh_close(MoveSaved(m), m)

LEMMA MoveTyped ==
    ASSUME TypeOK, Room, NEW m \in Fd
    PROVE  /\ MoveSaved(m) \in Io /\ MoveClosed(m) \in Io
           /\ Len(MoveSaved(m).filemap) \in Nat /\ Len(MoveSaved(m).filemap) < MaxTop
           /\ Len(MoveClosed(m).filemap) = Len(MoveSaved(m).filemap)
           /\ \E k \in High : MoveClosed(m).fd[k] = Closed
<1> DEFINE s == MoveSaved(m)
           c == MoveClosed(m)
<1>1. io \in Io
  BY DEF TypeOK
<1>2. Len(io.filemap) \in Nat /\ Len(io.filemap) + 1 < MaxTop
  BY RoomFacts
<1>3. PICK a, b \in High : a # b /\ io.fd[a] = Closed /\ io.fd[b] = Closed
  BY RoomFacts
<1>4. s \in Io /\ Len(s.filemap) \in Nat /\ Len(s.filemap) <= Len(io.filemap) + 1
  <2>1. CASE Head(stack).kind = "exec"
    BY <1>1, <1>2, <2>1 DEF MoveSaved
  <2>2. CASE Head(stack).kind # "exec"
    <3>1. s = sh_iosave(io, m, Head(stack).topfd, FALSE, FALSE)
      BY <2>2 DEF MoveSaved
    <3>2. Len(io.filemap) < MaxTop
      BY <1>2, Numbers
    <3> HIDE DEF s
    <3>3. QED
      BY <1>1, <1>3, <3>1, <3>2, IosaveTyped
  <2>3. QED
    BY <2>1, <2>2
<1>5. s.fd[a] = Closed \/ s.fd[b] = Closed
  <2>1. CASE s = io
    BY <1>3, <2>1
  <2>2. CASE s # io
    <3>1. s = sh_iosave(io, m, Head(stack).topfd, FALSE, FALSE)
      BY <2>2 DEF MoveSaved
    <3>2. Len(io.filemap) < MaxTop /\ \A k \in High : k \in Fd
      BY <1>2, Numbers DEF Fd
    <3> HIDE DEF s
    <3>3. \E save \in High \cup {NoFd} : \A k \in Fd : s.fd[k] = IF k = save THEN io.fd[m] ELSE io.fd[k]
      <4>1. ~ SavedSince(io, m, Head(stack).topfd)
        BY <2>2, <3>1 DEF sh_iosave
      <4>2. io.fd[m] = Closed \/ \E k \in High : io.fd[k] = Closed
        BY <1>3
      <4>3. QED
        <5>1. \A subshell, keep \in BOOLEAN : \E save \in High \cup {NoFd} :
                 \A k \in Fd : sh_iosave(io, m, Head(stack).topfd, subshell, keep).fd[k] =
                                IF k = save THEN io.fd[m] ELSE io.fd[k]
          BY <1>1, <3>2, <4>1, <4>2, IosaveFd
        <5>2. QED
          BY <3>1, <5>1, Zenon
    <3>4. QED
      BY <1>3, <3>2, <3>3
  <2>3. QED
    BY <2>1, <2>2
<1> HIDE DEF s
<1>6. c = sh_close(s, m)
  BY DEF MoveClosed, s
<1> HIDE DEF c
<1>7. /\ c \in Io /\ Len(c.filemap) = Len(s.filemap)
      /\ \A k \in Fd : c.fd[k] = IF k = m THEN Closed ELSE s.fd[k]
  BY <1>4, <1>6, CloseFacts DEF Alike
<1>8. \E k \in High : c.fd[k] = Closed
  BY <1>5, <1>7 DEF Fd
<1>9. Len(s.filemap) < MaxTop
  BY <1>2, <1>4, Numbers
<1>10. QED
  BY <1>4, <1>7, <1>8, <1>9 DEF s, c

LEMMA ViewOpen ==
    ASSUME NEW t \in Io, NEW m \in Fd, View(t)[m] # Closed
    PROVE  m \in Low \cup t.own /\ View(t)[m] = t.fd[m] /\ t.fd[m] \in File \cup {Closed}
BY ViewFacts, IoFields

LEMMA TypeMove ==
    ASSUME TypeOK, NEW n \in Low, NEW m \in Fd, Move(n, m)
    PROVE  TypeOK'
<1>1. io \in Io /\ stack # <<>> /\ Room /\ View(io)[m] # Closed /\ n \in Fd
  BY DEF TypeOK, Move, Redirecting, Fd
<1> DEFINE c == MoveClosed(m)
           s == Saved(c, n)
<1>2. /\ c \in Io /\ Len(c.filemap) \in Nat /\ Len(c.filemap) < MaxTop
      /\ \E k \in High : c.fd[k] = Closed
  BY <1>1, MoveTyped
<1>3. io' = [s EXCEPT !.fd[n] = io.fd[m]]
  BY DEF Move, MoveClosed, MoveSaved
<1> HIDE DEF c
<1>4. s \in Io /\ Len(s.filemap) \in Nat /\ Len(s.filemap) <= Len(c.filemap) + 1
  BY <1>1, <1>2, SavedTyped
<1> HIDE DEF s
<1>5. io.fd[m] \in File \cup {Closed}
  BY <1>1, ViewOpen
<1>6. io' \in Io /\ io'.filemap = s.filemap
  BY <1>1, <1>3, <1>4, <1>5, SetFd
<1>7. Len(io'.filemap) <= MaxTop
  BY <1>2, <1>4, <1>6, Numbers
<1>8. stack' \in Seq(Frame) /\ Len(stack') = Len(stack)
  <2>1. PICK ns \in SUBSET Fd : stack' = Note(ns)
    <3>1. {n} \in SUBSET Fd /\ {n, m} \in SUBSET Fd
      BY <1>1
    <3>2. stack' = Note({n}) \/ stack' = Note({n, m})
      BY DEF Move
    <3>3. QED
      BY <3>1, <3>2
  <2>2. QED
    BY <1>1, <2>1, NoteFacts
<1>9. UNCHANGED <<ops, v, jump, forks>> /\ lapse' \in SUBSET Lapse
  BY DEF Move, Lapses, TypeOK, Lapse
<1>10. QED
  BY <1>6, <1>7, <1>8, <1>9 DEF TypeOK

(* {v}>file, before the shell notes it. *)
VarOpened(file) == Taken(io, NewFd(io), file)

LEMMA VarOpenFacts ==
    ASSUME TypeOK, NEW file \in File, VarOpen(file)
    PROVE  LET n == NewFd(io)
               t == VarOpened(file)
           IN  /\ n \in High /\ io.fd[n] = Closed /\ v' = n
               /\ t \in Io /\ t.filemap = io.filemap /\ t.fdptrs = io.fdptrs /\ t.own = io.own \cup {n}
               /\ \A m \in Fd : t.fd[m] = IF m = n THEN file ELSE io.fd[m]
               /\ io' = IF Head(stack).kind = "exec" /\ ~ Virtual THEN t
                        ELSE sh_iosave(t, n, Head(stack).topfd, FALSE, TRUE)
               /\ stack' = Note({n}) /\ stack # <<>>
               /\ Len(io.filemap) \in Nat /\ Len(io.filemap) < MaxTop
<1> DEFINE n == NewFd(io)
           t == VarOpened(file)
<1>1. io \in Io /\ stack # <<>> /\ Room /\ v' = n /\ stack' = Note({n})
  BY DEF TypeOK, VarOpen, Redirecting
<1>2. Len(io.filemap) \in Nat /\ Len(io.filemap) + 1 < MaxTop /\ \E m \in High : io.fd[m] = Closed
  BY <1>1, RoomFacts
<1>3. Len(io.filemap) < MaxTop
  BY <1>2, Numbers
<1>4. n \in High /\ io.fd[n] = Closed
  BY <1>1, <1>2, NewFdFacts
<1>5. io' = IF Head(stack).kind = "exec" /\ ~ Virtual THEN t
            ELSE sh_iosave(t, n, Head(stack).topfd, FALSE, TRUE)
  BY DEF VarOpen, VarOpened, Taken
<1> HIDE DEF n
<1>6. /\ t \in Io /\ t.filemap = io.filemap /\ t.fdptrs = io.fdptrs /\ t.own = io.own \cup {n}
      /\ \A m \in Fd : t.fd[m] = IF m = n THEN file ELSE io.fd[m]
  <2>1. t = Taken(io, n, file) /\ file \in File \cup {Closed}
    BY DEF VarOpened, n
  <2> HIDE DEF t
  <2>2. QED
    BY <1>1, <1>4, <2>1, TakeFd
<1>7. QED
  BY <1>1, <1>2, <1>3, <1>4, <1>5, <1>6, Zenon DEF n

LEMMA TypeVarOpen ==
    ASSUME TypeOK, NEW file \in File, VarOpen(file)
    PROVE  TypeOK'
<1> DEFINE n == NewFd(io)
           t == VarOpened(file)
<1>1. /\ n \in High /\ v' = n
      /\ t \in Io /\ t.filemap = io.filemap
      /\ io' = IF Head(stack).kind = "exec" /\ ~ Virtual THEN t
               ELSE sh_iosave(t, n, Head(stack).topfd, FALSE, TRUE)
      /\ stack' = Note({n}) /\ stack # <<>>
      /\ Len(io.filemap) \in Nat /\ Len(io.filemap) < MaxTop
  BY VarOpenFacts
<1> HIDE DEF n, t
<1>2. io' \in Io /\ Len(io'.filemap) <= Len(io.filemap) + 1
  <2>1. n \in Fd
    BY <1>1 DEF Fd
  <2>2. CASE io' = t
    <3>1. io' \in Io /\ io'.filemap = io.filemap /\ Len(io.filemap) \in Nat
      BY <1>1, <2>2, Zenon
    <3>2. QED
      BY <3>1
  <2>3. CASE io' = sh_iosave(t, n, Head(stack).topfd, FALSE, TRUE)
    BY <1>1, <2>1, <2>3, IosaveTyped
  <2>4. QED
    BY <1>1, <2>2, <2>3
<1>3. Len(io'.filemap) <= MaxTop
  <2>1. Len(io'.filemap) \in Nat /\ Len(io'.filemap) <= Len(io.filemap) + 1
    BY <1>2, IoFields
  <2>2. Len(io.filemap) \in Nat /\ Len(io.filemap) < MaxTop /\ MaxTop \in Nat
    BY <1>1, Numbers, Zenon
  <2>3. QED
    BY <2>1, <2>2
<1>4. stack' \in Seq(Frame) /\ Len(stack') = Len(stack)
  <2>1. {n} \in SUBSET Fd
    BY <1>1 DEF Fd
  <2>2. QED
    BY <1>1, <2>1, NoteFacts
<1>5. UNCHANGED <<ops, jump, forks>> /\ lapse' \in SUBSET Lapse
  BY DEF VarOpen, Lapses, TypeOK, Lapse
<1>6. QED
  BY <1>1, <1>2, <1>3, <1>4, <1>5 DEF TypeOK

LEMMA TypeVarClose ==
    ASSUME TypeOK, VarClose
    PROVE  TypeOK'
<1>1. io \in Io /\ v \in High /\ v \in Fd /\ Room
  BY DEF TypeOK, VarClose, Fd
<1> DEFINE t == IF sh_inuse(io, v) THEN io_preserve(io, v) ELSE io
<1>2. t \in Io /\ Len(t.filemap) = Len(io.filemap)
  <2>1. \E m \in High : io.fd[m] = Closed
    BY <1>1, RoomFacts
  <2>2. io_preserve(io, v) \in Io /\ Len(io_preserve(io, v).filemap) = Len(io.filemap)
    BY <1>1, <2>1, PreserveFacts DEF Alike
  <2>3. QED
    BY <1>1, <2>2
<1>3. io' = sh_close(t, v)
  BY DEF VarClose
<1> HIDE DEF t
<1>4. io' \in Io /\ Len(io'.filemap) = Len(io.filemap)
  BY <1>1, <1>2, <1>3, CloseFacts DEF Alike
<1>5. UNCHANGED <<ops, v, stack, jump, forks>> /\ lapse' \in SUBSET Lapse
  BY DEF VarClose, TypeOK, Lapse
<1>6. QED
  BY <1>4, <1>5 DEF TypeOK

(* The end of a command. *)
LEMMA TypeLeave ==
    ASSUME TypeOK, stack # <<>>, NEW all \in BOOLEAN, Leave(all)
    PROVE  /\ io' \in Io /\ Len(io'.filemap) <= MaxTop
           /\ stack' \in Seq(Frame) /\ Len(stack') <= MaxDepth
           /\ ops' \in Programs /\ forks' \in 0..MaxFork /\ lapse' \in SUBSET Lapse
<1>1. io \in Io /\ Head(stack) \in Frame /\ Len(io.filemap) <= MaxTop
  BY StackFacts DEF TypeOK
<1>2. Head(stack).topfd \in Nat
  BY <1>1, FrameFields
<1>3. io' = sh_iorestore(io, Head(stack).topfd, all)
  BY DEF Leave
<1>4. io' \in Io /\ Len(io'.filemap) <= Len(io.filemap)
  BY <1>1, <1>2, <1>3, RestoreTyped
<1>5. Len(io'.filemap) <= MaxTop
  BY <1>1, <1>4, IoFields, Numbers
<1>6. stack' \in Seq(Frame) /\ Len(stack') <= MaxDepth
  BY StackFacts, Numbers DEF Leave
<1>7. ops' \in Programs /\ forks' \in 0..MaxFork /\ lapse' \in SUBSET Lapse
  BY DEF TypeOK, Leave, Lapse
<1>8. QED
  BY <1>4, <1>5, <1>6, <1>7

LEMMA TypeCaught ==
    ASSUME TypeOK, Caught
    PROVE  TypeOK'
<1>1. io \in Io /\ Len(io.filemap) <= MaxTop
  BY DEF TypeOK
<1>2. io' \in Io /\ Len(io'.filemap) <= Len(io.filemap)
  BY <1>1, RestoreTyped DEF Caught
<1>3. Len(io'.filemap) <= MaxTop
  BY <1>1, <1>2, IoFields, Numbers
<1>4. UNCHANGED <<ops, v, stack, forks, lapse>> /\ jump' \in BOOLEAN
  BY DEF Caught
<1>5. QED
  BY <1>2, <1>3, <1>4 DEF TypeOK

LEMMA TypeFork ==
    ASSUME TypeOK, Fork
    PROVE  TypeOK'
<1>1. io \in Io /\ Len(io.filemap) <= MaxTop
  BY DEF TypeOK
<1>2. io' \in Io /\ Len(io'.filemap) <= Len(io.filemap)
  BY <1>1, UnsaveTyped DEF Fork
<1>3. Len(io'.filemap) <= MaxTop
  BY <1>1, <1>2, IoFields, Numbers
<1>4. stack' \in Seq(Frame) /\ Len(stack') <= MaxDepth
  BY Numbers DEF Fork
<1>5. UNCHANGED <<ops, v, jump>> /\ lapse' \in SUBSET Lapse
  BY DEF Fork, Lapses, TypeOK, Lapse
<1>6. forks' \in 0..MaxFork
  BY Numbers DEF Fork, TypeOK
<1>7. QED
  BY <1>2, <1>3, <1>4, <1>5, <1>6 DEF TypeOK

LEMMA TypeSubfork ==
    ASSUME TypeOK, Subfork
    PROVE  TypeOK'
<1>1. Sub \in DOMAIN stack /\ Sub \in Nat
  BY SubFacts DEF Subfork
<1>2. /\ stack \in Seq(Frame) /\ Len(stack) \in Nat /\ Len(stack) <= MaxDepth
      /\ DOMAIN stack = 1..Len(stack)
  BY StackFacts
<1> DEFINE k == Sub - 1
<1>3. k \in 0..Len(stack)
  BY <1>1, <1>2
<1>4. stack' = SubSeq(stack, 1, k)
  BY DEF Subfork
<1> HIDE DEF k
<1>5. stack' \in Seq(Frame) /\ Len(stack') = k
  BY <1>2, <1>3, <1>4
<1>6. Len(stack') <= MaxDepth
  BY <1>2, <1>3, <1>5, Numbers
<1>7. forks' \in 0..MaxFork
  BY Numbers DEF Subfork, TypeOK
<1>8. UNCHANGED <<ops, io, v, jump, lapse>>
  BY DEF Subfork
<1>9. QED
  BY <1>5, <1>6, <1>7, <1>8 DEF TypeOK

LEMMA TypeBegin ==
    ASSUME TypeOK, NEW kind \in {"block", "function", "exec", "sub"}, Begin(kind)
    PROVE  TypeOK'
<1> DEFINE c == [kind |-> kind, redirect |-> kind # "sub", topfd |-> Len(io.filemap),
                 fdsaved |-> {}, v |-> IF kind = "sub" THEN v ELSE NoFd,
                 before |-> IF kind = "sub" THEN View(io) ELSE <<>>]
<1>1. io \in Io /\ v \in High \cup {NoFd}
  BY DEF TypeOK
<1>2. Len(io.filemap) \in 0..MaxTop
  BY <1>1, IoFields, Numbers DEF TypeOK
<1>3. View(io) \in PartialFd /\ <<>> \in PartialFd
  BY <1>1, ViewFacts, Partial
<1>4. c \in Frame
  <2> DEFINE before == IF kind = "sub" THEN View(io) ELSE <<>>
             w == IF kind = "sub" THEN v ELSE NoFd
  <2>1. before \in PartialFd /\ w \in High \cup {NoFd}
    BY <1>1, <1>3
  <2> HIDE DEF before, w
  <2>2. c = [kind |-> kind, redirect |-> kind # "sub", topfd |-> Len(io.filemap),
             fdsaved |-> {}, v |-> w, before |-> before]
    BY DEF before, w
  <2>3. QED
    BY <1>2, <2>1, <2>2 DEF Frame, PartialFd
<1>5. stack' = <<c>> \o stack /\ Len(stack) < MaxDepth
  BY DEF Begin
<1> HIDE DEF c
<1>6. stack' \in Seq(Frame) /\ Len(stack') = Len(stack) + 1
  BY <1>4, <1>5, StackFacts
<1>7. Len(stack') <= MaxDepth
  BY <1>5, <1>6, StackFacts, Numbers
<1>8. UNCHANGED <<ops, io, v, jump, forks, lapse>>
  BY DEF Begin
<1>9. QED
  BY <1>6, <1>7, <1>8 DEF TypeOK

LEMMA TypeRun ==
    ASSUME TypeOK, Run
    PROVE  TypeOK'
<1> DEFINE c == [stack[1] EXCEPT !.redirect = FALSE]
<1>1. /\ stack \in Seq(Frame) /\ 1 \in DOMAIN stack /\ stack[1] \in Frame
  BY StackFacts DEF Run, Redirecting
<1>2. c \in Frame
  BY <1>1 DEF Frame
<1>3. stack' = [stack EXCEPT ![1] = c]
  BY DEF Run
<1> HIDE DEF c
<1>4. stack' \in Seq(Frame) /\ Len(stack') = Len(stack)
  BY <1>1, <1>2, <1>3
<1>5. UNCHANGED <<ops, io, v, jump, forks, lapse>>
  BY DEF Run
<1>6. QED
  BY <1>4, <1>5 DEF TypeOK

LEMMA TypeEnds ==
    ASSUME TypeOK, Ends
    PROVE  TypeOK'
<1>1. ASSUME NEW all \in BOOLEAN, Leave(all), stack # <<>>
      PROVE  /\ io' \in Io /\ Len(io'.filemap) <= MaxTop
             /\ stack' \in Seq(Frame) /\ Len(stack') <= MaxDepth
             /\ ops' \in Programs /\ forks' \in 0..MaxFork /\ lapse' \in SUBSET Lapse
  BY <1>1, TypeLeave
<1>2. CASE End
  <2>1. Leave(FALSE) /\ stack # <<>> /\ v' \in High \cup {NoFd} /\ jump' \in BOOLEAN
    BY <1>2 DEF End, TypeOK
  <2>2. QED
    BY <1>1, <2>1 DEF TypeOK
<1>3. CASE EndExec
  <2>1. stack # <<>> /\ stack' = Tail(stack) /\ UNCHANGED <<ops, io, v, jump, forks, lapse>>
    BY <1>3 DEF EndExec, Redirecting
  <2>2. stack' \in Seq(Frame) /\ Len(stack') <= MaxDepth
    BY <2>1, StackFacts, Numbers
  <2>3. QED
    BY <2>1, <2>2 DEF TypeOK
<1>4. CASE Fail
  <2>1. stack # <<>> /\ v' \in High \cup {NoFd} /\ jump' \in BOOLEAN
    BY <1>4 DEF Fail, Redirecting, TypeOK
  <2>2. CASE Head(stack).kind = "exec"
    <3>1. stack' = Tail(stack) /\ UNCHANGED <<ops, io, forks, lapse>>
      BY <1>4, <2>2 DEF Fail
    <3>2. stack' \in Seq(Frame) /\ Len(stack') <= MaxDepth
      BY <2>1, <3>1, StackFacts, Numbers
    <3>3. QED
      BY <2>1, <3>1, <3>2 DEF TypeOK
  <2>3. CASE Head(stack).kind # "exec"
    <3>1. Leave(FALSE)
      BY <1>4, <2>3 DEF Fail
    <3>2. QED
      BY <1>1, <2>1, <3>1 DEF TypeOK
  <2>4. QED
    BY <2>2, <2>3
<1>5. CASE Unwind
  <2>1. Leave(FALSE) /\ stack # <<>> /\ v' \in High \cup {NoFd} /\ jump' \in BOOLEAN
    BY <1>5 DEF Unwind, TypeOK
  <2>2. QED
    BY <1>1, <2>1 DEF TypeOK
<1>6. CASE SubshellEnd
  <2>1. Leave(TRUE) /\ stack # <<>> /\ v' = Head(stack).v /\ jump' = FALSE
    BY <1>6 DEF SubshellEnd
  <2>2. v' \in High \cup {NoFd}
    BY <2>1, StackFacts, FrameFields
  <2>3. QED
    BY <1>1, <2>1, <2>2 DEF TypeOK
<1>7. QED
  BY <1>2, <1>3, <1>4, <1>5, <1>6 DEF Ends

LEMMA TypeStep == TypeOK /\ [Next]_vars => TypeOK'
<1>1. SUFFICES ASSUME TypeOK, [Next]_vars
               PROVE  TypeOK'
  OBVIOUS
<1>2. CASE UNCHANGED vars
  BY <1>1, <1>2 DEF TypeOK, vars
<1>3. CASE \E kind \in {"block", "function", "exec", "sub"} : Begin(kind)
  BY <1>1, <1>3, TypeBegin
<1>4. CASE Run
  BY <1>1, <1>4, TypeRun
<1>5. ASSUME NEW n \in Low, NEW file \in File, Open(n, file)
      PROVE  TypeOK'
  <2>1. n \in Fd /\ file \in File \cup {Closed}
    BY DEF Fd
  <2>2. QED
    BY <1>1, <1>5, <2>1, TypeRedirect DEF Open
<1>6. ASSUME NEW n \in Low, NEW m \in Fd, Dup(n, m)
      PROVE  TypeOK'
  <2>1. n \in Fd /\ io.fd[m] \in File \cup {Closed}
    BY <1>1, IoFields DEF Fd, TypeOK
  <2>2. QED
    BY <1>1, <1>6, <2>1, TypeRedirect DEF Dup
<1>7. ASSUME NEW n \in Low, NEW m \in Fd, Move(n, m)
      PROVE  TypeOK'
  BY <1>1, <1>7, TypeMove
<1>8. ASSUME NEW n \in Low, CloseFd(n)
      PROVE  TypeOK'
  <2>1. n \in Fd
    BY DEF Fd
  <2>2. QED
    BY <1>1, <1>8, <2>1, TypeClose
<1>9. CASE \E file \in File : VarOpen(file)
  BY <1>1, <1>9, TypeVarOpen
<1>10. CASE VarClose
  BY <1>1, <1>10, TypeVarClose
<1>11. CASE Ends
  BY <1>1, <1>11, TypeEnds
<1>12. CASE Caught
  BY <1>1, <1>12, TypeCaught
<1>13. CASE Fork
  BY <1>1, <1>13, TypeFork
<1>14. CASE Subfork
  BY <1>1, <1>14, TypeSubfork
<1>15. QED
  BY <1>1, <1>2, <1>3, <1>4, <1>5, <1>6, <1>7, <1>8, <1>9, <1>10, <1>11, <1>12, <1>13, <1>14
     DEF Next, Ends

(* Every state is one of the declared kind, whatever was redirected, saved, moved and
   put back: what sh_iosave notes fits filemap (TypeOK). *)
THEOREM TypeCorrect == Spec => []TypeOK
<1>1. Init => TypeOK
  BY TypeInit
<1>2. TypeOK /\ [Next]_vars => TypeOK'
  BY TypeStep
<1>3. QED
  BY <1>1, <1>2, PTL DEF Spec

--------------------------------------------------------------------------------
(* What the shell has put aside. *)

(* Where it is: a pointer is that of the entry, or an old one, higher, when the entry
   has moved. *)
Aside(t) ==
    \A i \in DOMAIN t.filemap :
        LET save == t.filemap[i].save
        IN  /\ t.filemap[i].was = Closed <=> save = NoFd
            /\ save # NoFd => /\ t.fd[save] = t.filemap[i].was /\ save \notin t.own
                              /\ t.fdptrs[save] >= i
                              /\ ~ t.filemap[i].subshell => t.fdptrs[save] = i
Exact(t) ==
    \A i \in DOMAIN t.filemap : t.filemap[i].save # NoFd => t.fdptrs[t.filemap[i].save] = i
Apart(t) ==
    \A i, j \in DOMAIN t.filemap :
        t.filemap[i].save # NoFd /\ t.filemap[i].save = t.filemap[j].save => i = j
InUse(t) == \A n \in High : t.fdptrs[n] # 0 => \E i \in DOMAIN t.filemap : t.filemap[i].save = n
OwnOpen(t) == \A n \in t.own : t.fd[n] # Closed
Accounted(t) ==
    \A n \in High : t.fd[n] # Closed => n \in t.own \/ \E i \in DOMAIN t.filemap : t.filemap[i].save = n

Sound(t) == Aside(t) /\ Apart(t) /\ InUse(t) /\ OwnOpen(t) /\ Accounted(t)
Held == Sound(io) /\ (lapse = {} => Exact(io))

(* The loop of sh_iorestore when the entries above i have been put back: those that are
   yet to be, or stay; those that have been. *)
Live(t, all, i, j) == j \in DOMAIN t.filemap /\ (j <= i \/ (t.filemap[j].subshell /\ ~ all))
Put(t, all, i, n, j) ==
    j \in DOMAIN t.filemap /\ j > i /\ t.filemap[j].orig = n /\ (all \/ ~ t.filemap[j].subshell)

Loop(t, all, i, u) ==
    /\ u \in Io /\ Alike(u.filemap, t.filemap)
    /\ \A j : Live(t, all, i, j) =>
          LET save == t.filemap[j].save
          IN  /\ u.filemap[j].save = save
              /\ save # NoFd => /\ u.fd[save] = t.filemap[j].was /\ save \notin u.own
                                /\ u.fdptrs[save] = t.fdptrs[save]
    /\ \A n \in High : u.fdptrs[n] # 0 => \E j : Live(t, all, i, j) /\ t.filemap[j].save = n
    /\ OwnOpen(u)
    /\ \A n \in High : u.fd[n] # Closed =>
          n \in u.own \/ \E j : Live(t, all, i, j) /\ t.filemap[j].save = n
    /\ \A n \in Fd : (\A j : ~ Put(t, all, i, n, j)) => View(u)[n] = View(t)[n]
    /\ \A n \in Fd : \A j : Put(t, all, i, n, j) /\ (\A k : Put(t, all, i, n, k) => j <= k) =>
          View(u)[n] = t.filemap[j].was

(* What is put back is not put where something is held that is put back later. *)
NotTaken(t, last, all) ==
    \A i \in last + 1..Len(t.filemap), j \in DOMAIN t.filemap :
        t.filemap[i].orig = t.filemap[j].save /\ (all \/ ~ t.filemap[i].subshell) =>
            ~ Live(t, all, i, j)

LEMMA LoopStart ==
    ASSUME NEW t \in Io, Sound(t), NEW all \in BOOLEAN
    PROVE  Loop(t, all, Len(t.filemap), t)
<1> DEFINE n == Len(t.filemap)
<1>1. n \in Nat /\ t.filemap \in Seq(Save) /\ DOMAIN t.filemap = 1..n
  BY IoFields
<1>2. \A j : Live(t, all, n, j) <=> j \in DOMAIN t.filemap
  BY <1>1 DEF Live
<1>3. \A m, j : ~ Put(t, all, n, m, j)
  BY <1>1 DEF Put
<1>4. Alike(t.filemap, t.filemap)
  BY DEF Alike
<1> HIDE DEF n
<1>5. \A j : Live(t, all, n, j) =>
          LET save == t.filemap[j].save
          IN  /\ t.filemap[j].save = save
              /\ save # NoFd => /\ t.fd[save] = t.filemap[j].was /\ save \notin t.own
                                /\ t.fdptrs[save] = t.fdptrs[save]
  BY <1>2 DEF Sound, Aside
<1>6. \A m \in High : t.fdptrs[m] # 0 => \E j : Live(t, all, n, j) /\ t.filemap[j].save = m
  BY <1>2 DEF Sound, InUse
<1>7. \A m \in High : t.fd[m] # Closed => m \in t.own \/ \E j : Live(t, all, n, j) /\ t.filemap[j].save = m
  BY <1>2 DEF Sound, Accounted
<1>8. OwnOpen(t)
  BY DEF Sound
<1>9. QED
  BY <1>3, <1>4, <1>5, <1>6, <1>7, <1>8 DEF Loop, n

LEMMA LoopSkip ==
    ASSUME NEW t \in Io, NEW all \in BOOLEAN, NEW i \in Nat, i + 1 \in DOMAIN t.filemap, NEW u,
           Loop(t, all, i + 1, u), t.filemap[i + 1].subshell /\ ~ all
    PROVE  Loop(t, all, i, u)
<1>0. \A j \in DOMAIN t.filemap : j \in Nat
  BY MapFacts
<1>1. \A j : Live(t, all, i, j) <=> Live(t, all, i + 1, j)
  BY <1>0 DEF Live
<1>2. \A n, j : Put(t, all, i, n, j) <=> Put(t, all, i + 1, n, j)
  BY <1>0 DEF Put
<1>3. QED
  BY <1>1, <1>2 DEF Loop

(* What closing n does when nothing is held there. *)
LEMMA CloseFree ==
    ASSUME NEW t \in Io, NEW n \in Fd, n \in High => t.fdptrs[n] = 0
    PROVE  LET c == sh_close(t, n)
           IN  /\ c \in Io /\ c.filemap = t.filemap
               /\ \A m \in Fd : c.fd[m] = IF m = n THEN Closed ELSE t.fd[m]
               /\ c.own = t.own \ {n}
               /\ \A m \in High : c.fdptrs[m] = t.fdptrs[m]
<1> DEFINE c == sh_close(t, n)
<1>1. /\ c \in Io /\ Alike(c.filemap, t.filemap)
      /\ \A i \in DOMAIN t.filemap :
            c.filemap[i].save = IF n \in High /\ t.fdptrs[n] = i THEN NoFd ELSE t.filemap[i].save
      /\ \A m \in Fd : c.fd[m] = IF m = n THEN Closed ELSE t.fd[m]
      /\ c.own = t.own \ {n}
      /\ \A m \in High : c.fdptrs[m] = IF m = n THEN 0 ELSE t.fdptrs[m]
  BY CloseFacts
<1>2. ~ sh_inuse(t, n)
  BY DEF sh_inuse
<1>3. c.filemap = t.filemap
  <2>1. SetSave(t, n, NoFd) = t.filemap
    BY <1>2 DEF SetSave
  <2>2. c.filemap = SetSave(t, n, NoFd)
    BY DEF sh_close, Io
  <2>3. QED
    BY <2>1, <2>2
<1> HIDE DEF c
<1>4. QED
  BY <1>1, <1>3 DEF c

LEMMA LoopStep ==
    ASSUME NEW t \in Io, Sound(t), NEW all \in BOOLEAN, NEW last \in Nat, NotTaken(t, last, all),
           NEW i \in Nat, i >= last, i + 1 \in DOMAIN t.filemap, NEW u, Loop(t, all, i + 1, u),
           all \/ ~ t.filemap[i + 1].subshell
    PROVE  Loop(t, all, i, RestoreEntry(u, i + 1))
<1> DEFINE k == i + 1
           n == t.filemap[k].orig
           s == t.filemap[k].save
           c == sh_close(u, n)
           r == RestoreEntry(u, k)
<1>1. /\ u \in Io /\ Alike(u.filemap, t.filemap) /\ k \in Nat /\ k \in last + 1..Len(t.filemap)
      /\ k \in DOMAIN t.filemap /\ Len(t.filemap) \in Nat
      /\ \A j \in DOMAIN t.filemap : j \in Nat /\ j >= 1
      /\ DOMAIN u.filemap = DOMAIN t.filemap
  <2>1. u \in Io /\ Alike(u.filemap, t.filemap)
    BY DEF Loop
  <2>2. u.filemap \in Seq(Save) /\ t.filemap \in Seq(Save)
    BY <2>1, IoFields
  <2>3. QED
    BY <2>1, <2>2, MapFacts, AlikeFacts
<1> HIDE DEF k
<1>2. \A j : Live(t, all, k, j) =>
          LET save == t.filemap[j].save
          IN  /\ u.filemap[j].save = save
              /\ save # NoFd => /\ u.fd[save] = t.filemap[j].was /\ save \notin u.own
                                /\ u.fdptrs[save] = t.fdptrs[save]
  BY DEF Loop, k
<1>3. /\ n \in Fd /\ s \in High \cup {NoFd} /\ u.filemap[k].orig = n /\ u.filemap[k].save = s
      /\ t.filemap[k].was \in File \cup {Closed}
  <2>1. Live(t, all, k, k)
    BY <1>1 DEF Live
  <2>2. u.filemap[k].save = s
    BY <1>2, <2>1
  <2>3. u.filemap[k].orig = n
    BY <1>1 DEF Alike
  <2>4. QED
    BY <1>1, <2>2, <2>3, MapFacts
<1>4. /\ \A j : Live(t, all, i, j) => Live(t, all, k, j)
      /\ \A j : Live(t, all, k, j) /\ j # k => Live(t, all, i, j)
      /\ \A j : Live(t, all, i, j) => j # k
  BY <1>1 DEF Live, k
<1>5. \A j : Live(t, all, k, j) => t.filemap[j].save # n
  <2>1. SUFFICES ASSUME NEW j, Live(t, all, k, j), t.filemap[j].save = n
                 PROVE  FALSE
    OBVIOUS
  <2>2. j \in DOMAIN t.filemap
    BY <2>1 DEF Live
  <2>3. all \/ ~ t.filemap[k].subshell
    BY DEF k
  <2>4. QED
    BY <1>1, <2>1, <2>2, <2>3 DEF NotTaken
<1>6. n \in High => u.fdptrs[n] = 0
  BY <1>5 DEF Loop, k
<1>7. /\ c \in Io /\ c.filemap = u.filemap
      /\ \A m \in Fd : c.fd[m] = IF m = n THEN Closed ELSE u.fd[m]
      /\ c.own = u.own \ {n}
      /\ \A m \in High : c.fdptrs[m] = u.fdptrs[m]
  <2> HIDE DEF n
  <2>1. QED
    BY <1>1, <1>3, <1>6, CloseFree
<1>8. s # n /\ s \notin u.own
  <2>1. Live(t, all, k, k)
    BY <1>1 DEF Live
  <2>2. u.own \in SUBSET High
    BY <1>1, IoFields
  <2>3. QED
    BY <1>2, <1>5, <2>1, <2>2, Numbers
<1>9. /\ r \in Io /\ Alike(r.filemap, u.filemap)
      /\ s = NoFd => r = c
      /\ s # NoFd =>
            /\ \A m \in Fd : r.fd[m] = IF m = s THEN Closed ELSE IF m = n THEN c.fd[s] ELSE u.fd[m]
            /\ r.own = ((u.own \ {n}) \cup ({n} \cap High)) \ {s}
            /\ \A m \in High : r.fdptrs[m] = IF m = n \/ m = s THEN 0 ELSE u.fdptrs[m]
            /\ \A j \in DOMAIN u.filemap :
                  r.filemap[j].save = IF c.fdptrs[s] = j THEN NoFd ELSE c.filemap[j].save
  <2>1. LET n1 == u.filemap[k].orig
            c1 == sh_close(u, n1)
            save == c1.filemap[k].save
            r1 == RestoreEntry(u, k)
        IN  /\ r1 \in Io /\ Alike(r1.filemap, u.filemap) /\ save \in High \cup {NoFd}
            /\ save = NoFd => r1 = c1
            /\ save # NoFd =>
                 /\ \A m \in Fd : r1.fd[m] = IF m = save THEN Closed
                                             ELSE IF m = n1 THEN c1.fd[save] ELSE u.fd[m]
                 /\ r1.own = ((u.own \ {n1}) \cup ({n1} \cap High)) \ {save}
                 /\ \A m \in High : r1.fdptrs[m] = IF m = n1 \/ m = save THEN 0 ELSE u.fdptrs[m]
                 /\ \A j \in DOMAIN u.filemap :
                       r1.filemap[j].save = IF c1.fdptrs[save] = j THEN NoFd ELSE c1.filemap[j].save
    <3>1. k \in DOMAIN u.filemap /\ u \in Io
      BY <1>1
    <3>2. PutBack(u, k)
      BY <3>1, RestoreFacts
    <3>3. QED
      BY <3>2 DEF PutBack
  <2>2. u.filemap[k].orig = n /\ c.filemap[k].save = s
    BY <1>3, <1>7
  <2> HIDE DEF n, s
  <2>3. QED
    BY <2>1, <2>2
<1>10. Alike(r.filemap, t.filemap)
  BY <1>1, <1>9, IoFields, AlikeThrough
<1> DEFINE was == t.filemap[k].was
<1>11. /\ was = Closed <=> s = NoFd
       /\ s # NoFd => s \in High /\ s \in Fd /\ u.fd[s] = was /\ t.fdptrs[s] = u.fdptrs[s] /\ t.fdptrs[s] >= k
  <2>1. Live(t, all, k, k)
    BY <1>1 DEF Live
  <2>2. QED
    BY <1>1, <1>2, <1>3, <2>1 DEF Sound, Aside, Fd
(* The state after the step, whatever was saved. *)
<1>12. /\ \A m \in Fd : r.fd[m] = IF m = n THEN was ELSE IF m = s THEN Closed ELSE u.fd[m]
       /\ r.own = IF n \in High /\ s # NoFd THEN u.own \cup {n} ELSE u.own \ {n}
       /\ \A m \in High : r.fdptrs[m] = IF m = s THEN 0 ELSE u.fdptrs[m]
  <2>1. CASE s = NoFd
    <3>1. r = c /\ was = Closed
      BY <1>9, <1>11, <2>1
    <3>2. s \notin High /\ s \notin Fd
      BY <2>1, Numbers DEF Fd
    <3> HIDE DEF r, c, n, s, was
    <3>3. QED
      BY <1>7, <2>1, <3>1, <3>2
  <2>2. CASE s # NoFd
    <3>1. c.fd[s] = was
      BY <1>7, <1>8, <1>11, <2>2
    <3>2. u.own \in SUBSET High /\ Low \cap High = {}
      BY <1>1, IoFields, Numbers
    <3> HIDE DEF r, c, n, s, was
    <3>3. r.own = IF n \in High /\ s # NoFd THEN u.own \cup {n} ELSE u.own \ {n}
      <4>1. r.own = ((u.own \ {n}) \cup ({n} \cap High)) \ {s}
        BY <1>9, <2>2
      <4>2. QED
        BY <1>8, <2>2, <3>2, <4>1
    <3>4. \A m \in Fd : r.fd[m] = IF m = n THEN was ELSE IF m = s THEN Closed ELSE u.fd[m]
      BY <1>8, <1>9, <2>2, <3>1
    <3>5. \A m \in High : r.fdptrs[m] = IF m = s THEN 0 ELSE u.fdptrs[m]
      BY <1>6, <1>9, <2>2
    <3>6. QED
      BY <3>3, <3>4, <3>5
  <2>3. QED
    BY <2>1, <2>2
(* Entries that are live keep what they hold: the pointer of entry k is that of no such. *)
<1>13. \A j : Live(t, all, i, j) => r.filemap[j].save = t.filemap[j].save
  <2>1. SUFFICES ASSUME NEW j, Live(t, all, i, j)
                 PROVE  r.filemap[j].save = t.filemap[j].save
    OBVIOUS
  <2>2. j \in DOMAIN t.filemap /\ u.filemap[j].save = t.filemap[j].save /\ j # k
    BY <1>2, <1>4, <2>1 DEF Live
  <2>3. CASE s = NoFd
    BY <1>7, <1>9, <2>2, <2>3
  <2>4. CASE s # NoFd
    <3>1. c.fdptrs[s] = t.fdptrs[s] /\ t.fdptrs[s] >= k
      BY <1>7, <1>11, <2>4
    <3>2. c.fdptrs[s] # j
      <4>1. CASE ~ t.filemap[k].subshell
        <5>1. t.fdptrs[s] = k
          BY <1>1, <2>4, <4>1 DEF Sound, Aside
        <5>2. QED
          BY <2>2, <3>1, <5>1
      <4>2. CASE t.filemap[k].subshell
        <5>1. all
          BY <4>2 DEF k
        <5>2. j <= i
          BY <2>1, <5>1 DEF Live
        <5>3. t.fdptrs[s] \in Nat
          <6>1. t.fdptrs \in [High -> 0..MaxTop] /\ s \in High /\ MaxTop \in Nat
            BY <1>11, <2>4, IoFields, Numbers
          <6> HIDE DEF s
          <6>2. QED
            BY <6>1
        <5>4. j \in Nat /\ j < k
          BY <1>1, <2>2, <5>2 DEF k
        <5> HIDE DEF s, c
        <5>5. QED
          BY <1>1, <3>1, <5>3, <5>4
      <4>3. QED
        BY <4>1, <4>2
    <3> HIDE DEF r, c, s
    <3>3. r.filemap[j].save = c.filemap[j].save
      BY <1>1, <1>9, <2>2, <2>4, <3>2
    <3>4. QED
      BY <1>7, <2>2, <3>3
  <2>5. QED
    BY <2>3, <2>4
<1>14. \A j : Live(t, all, i, j) => t.filemap[j].save # n /\ (t.filemap[j].save # NoFd => t.filemap[j].save # s)
  <2>1. SUFFICES ASSUME NEW j, Live(t, all, i, j), t.filemap[j].save # NoFd, t.filemap[j].save = s
                 PROVE  FALSE
    BY <1>4, <1>5
  <2>2. j \in DOMAIN t.filemap /\ j # k
    BY <1>4, <2>1 DEF Live
  <2>3. QED
    BY <1>1, <2>1, <2>2 DEF Sound, Apart
<1>15. \A j : Live(t, all, i, j) => t.filemap[j].save \in High \cup {NoFd}
  BY MapFacts DEF Live
<1> HIDE DEF r, c
<1>16. \A j : Live(t, all, i, j) /\ t.filemap[j].save # NoFd =>
          LET save == t.filemap[j].save
          IN  /\ r.fd[save] = t.filemap[j].was /\ save \notin r.own /\ r.fdptrs[save] = t.fdptrs[save]
  <2>1. SUFFICES ASSUME NEW j, Live(t, all, i, j), t.filemap[j].save # NoFd
                 PROVE  LET save == t.filemap[j].save
                        IN  /\ r.fd[save] = t.filemap[j].was /\ save \notin r.own
                            /\ r.fdptrs[save] = t.fdptrs[save]
    OBVIOUS
  <2> DEFINE save == t.filemap[j].save
  <2>2. /\ save \in High /\ save \in Fd /\ save # n /\ save # s
        /\ u.fd[save] = t.filemap[j].was /\ save \notin u.own /\ u.fdptrs[save] = t.fdptrs[save]
    BY <1>2, <1>4, <1>14, <1>15, <2>1 DEF Fd
  <2> HIDE DEF save, n, s
  <2>3. r.fd[save] = t.filemap[j].was /\ save \notin r.own /\ r.fdptrs[save] = t.fdptrs[save]
    BY <1>12, <2>2
  <2>4. QED
    BY <2>3 DEF save
<1>17. ASSUME NEW m \in High
       PROVE  /\ r.fdptrs[m] # 0 => \E j : Live(t, all, i, j) /\ t.filemap[j].save = m
              /\ r.fd[m] # Closed => m \in r.own \/ \E j : Live(t, all, i, j) /\ t.filemap[j].save = m
  <2>1. m \in Fd
    BY DEF Fd
  <2>2. m # s => ((\E j : Live(t, all, k, j) /\ t.filemap[j].save = m) =>
                     \E j : Live(t, all, i, j) /\ t.filemap[j].save = m)
    BY <1>4
  <2>3. u.fdptrs[m] # 0 => \E j : Live(t, all, k, j) /\ t.filemap[j].save = m
    BY DEF Loop, k
  <2>4. u.fd[m] # Closed => m \in u.own \/ \E j : Live(t, all, k, j) /\ t.filemap[j].save = m
    BY DEF Loop, k
  <2> DEFINE E1 == \E j : Live(t, all, k, j) /\ t.filemap[j].save = m
             E2 == \E j : Live(t, all, i, j) /\ t.filemap[j].save = m
  <2> HIDE DEF E1, E2
  <2>5. (m # s /\ E1 => E2) /\ (u.fdptrs[m] # 0 => E1) /\ (u.fd[m] # Closed => m \in u.own \/ E1)
    BY <2>2, <2>3, <2>4 DEF E1, E2
  <2> HIDE DEF n, s, was
  <2>6. (r.fdptrs[m] # 0 => E2) /\ (r.fd[m] # Closed => m \in r.own \/ E2)
    BY <1>8, <1>11, <1>12, <2>1, <2>5
  <2>7. QED
    BY <2>6 DEF E2
<1>18. OwnOpen(r)
  <2>1. OwnOpen(u) /\ u.own \in SUBSET High
    BY <1>1, IoFields DEF Loop, k
  <2> HIDE DEF n, s, was
  <2>2. \A m \in r.own : m \in Fd
    BY <1>3, <1>12, <2>1 DEF Fd
  <2>3. QED
    BY <1>8, <1>11, <1>12, <2>1, <2>2 DEF OwnOpen
(* What the program sees. *)
<1>19. /\ \A m \in Fd : m # n => View(r)[m] = View(u)[m]
       /\ View(r)[n] = was
  <2>1. /\ \A m \in Fd : View(r)[m] = IF m \in Low \cup r.own THEN r.fd[m] ELSE Closed
        /\ \A m \in Fd : View(u)[m] = IF m \in Low \cup u.own THEN u.fd[m] ELSE Closed
    BY <1>1, <1>9, ViewFacts
  <2>2. s \notin Low /\ n \in Low \cup High /\ u.own \in SUBSET High /\ Low \cap High = {}
    BY <1>1, <1>3, IoFields, Numbers DEF Fd
  <2> HIDE DEF n, s, was
  <2>3. \A m \in Fd : m # n => View(r)[m] = View(u)[m]
    BY <1>8, <1>12, <2>1, <2>2
  <2>4. View(r)[n] = was
    <3>1. CASE s = NoFd
      <4>1. was = Closed
        BY <1>11, <3>1
      <4>2. QED
        BY <1>3, <1>12, <2>1, <2>2, <4>1
    <3>2. CASE s # NoFd
      BY <1>3, <1>12, <2>1, <2>2, <3>2
    <3>3. QED
      BY <3>1, <3>2
  <2>5. QED
    BY <2>3, <2>4
<1>20. \A m, j : Put(t, all, i, m, j) <=> (Put(t, all, k, m, j) \/ (j = k /\ m = n))
  <2>1. \A j \in DOMAIN t.filemap : j > i <=> (j > k \/ j = k)
    BY <1>1 DEF k
  <2>2. ~ (k > k) /\ (all \/ ~ t.filemap[k].subshell)
    BY <1>1 DEF k
  <2>3. QED
    BY <1>1, <2>1, <2>2 DEF Put
<1>21. /\ \A m \in Fd : (\A j : ~ Put(t, all, k, m, j)) => View(u)[m] = View(t)[m]
       /\ \A m \in Fd : \A j : Put(t, all, k, m, j) /\ (\A h : Put(t, all, k, m, h) => j <= h) =>
             View(u)[m] = t.filemap[j].was
  BY DEF Loop, k
<1>22. ASSUME NEW m \in Fd, \A j : ~ Put(t, all, i, m, j)
       PROVE  View(r)[m] = View(t)[m]
  <2>1. m # n /\ \A j : ~ Put(t, all, k, m, j)
    BY <1>20, <1>22
  <2>2. QED
    BY <1>19, <1>21, <2>1
<1>23. ASSUME NEW m \in Fd, NEW j, Put(t, all, i, m, j), \A h : Put(t, all, i, m, h) => j <= h
       PROVE  View(r)[m] = t.filemap[j].was
  <2>1. CASE m = n
    <3>1. j <= k /\ j \in DOMAIN t.filemap /\ j > i
      BY <1>20, <1>23, <2>1 DEF Put
    <3>2. j = k
      BY <1>1, <3>1 DEF k
    <3>3. QED
      BY <1>19, <2>1, <3>2
  <2>2. CASE m # n
    <3>1. Put(t, all, k, m, j) /\ \A h : Put(t, all, k, m, h) => j <= h
      BY <1>20, <1>23, <2>2
    <3>2. QED
      BY <1>19, <1>21, <2>2, <3>1
  <2>3. QED
    BY <2>1, <2>2
<1>24. r \in Io
  BY <1>9
<1>25. Loop(t, all, i, r)
  BY <1>10, <1>13, <1>16, <1>17, <1>18, <1>22, <1>23, <1>24 DEF Loop
<1>26. QED
  BY <1>25 DEF r, k

(* The entries of r are those of t up to last, and of those above the ones that stay,
   in their order: e says where each was. *)
Brought(t, r, last, all, e) ==
    /\ e \in [DOMAIN r.filemap -> DOMAIN t.filemap] /\ Len(r.filemap) >= last
    /\ \A k \in DOMAIN r.filemap :
          /\ r.filemap[k] = t.filemap[e[k]] /\ e[k] >= k
          /\ k <= last => e[k] = k
          /\ k > last => e[k] > last /\ t.filemap[e[k]].subshell /\ ~ all
          /\ e[k] = k \/ \E j \in last + 1..e[k] - 1 : ~ t.filemap[j].subshell
    /\ \A k, l \in DOMAIN r.filemap : k < l => e[k] < e[l]
    /\ \A j : Live(t, all, last, j) => \E k \in DOMAIN r.filemap : e[k] = j

NotMoved(t, last) ==
    \A i, j \in last + 1..Len(t.filemap) :
        i < j /\ ~ t.filemap[i].subshell /\ t.filemap[j].subshell => t.filemap[j].save = NoFd

LEMMA BroughtLive ==
    ASSUME NEW t \in Io, NEW r \in Io, NEW last \in Nat, NEW all \in BOOLEAN, NEW e, Brought(t, r, last, all, e),
           NEW k \in DOMAIN r.filemap
    PROVE  /\ Live(t, all, last, e[k]) /\ e[k] \in DOMAIN t.filemap /\ e[k] \in Nat /\ k \in Nat
           /\ r.filemap[k] = t.filemap[e[k]] /\ e[k] >= k
           /\ ~ t.filemap[e[k]].subshell => e[k] = k
<1>1. e[k] \in DOMAIN t.filemap /\ k \in Nat
  BY MapFacts DEF Brought
<1>2. e[k] \in Nat
  BY <1>1, MapFacts
<1>3. /\ r.filemap[k] = t.filemap[e[k]] /\ e[k] >= k /\ (k <= last => e[k] = k)
      /\ (k > last => e[k] > last /\ t.filemap[e[k]].subshell /\ ~ all)
  BY DEF Brought
<1>4. k <= last \/ k > last
  BY <1>1
<1>5. QED
  BY <1>1, <1>2, <1>3, <1>4 DEF Live

LEMMA BroughtSound ==
    ASSUME NEW t \in Io, Sound(t), NEW all \in BOOLEAN, NEW last \in Nat, last <= Len(t.filemap),
           NEW d, Loop(t, all, last, d), NEW r \in Io, r.fd = d.fd, r.own = d.own, r.fdptrs = d.fdptrs,
           NEW e, Brought(t, r, last, all, e)
    PROVE  Sound(r) /\ (Exact(t) /\ (all \/ NotMoved(t, last)) => Exact(r))
<1>1. \A j : Live(t, all, last, j) =>
          LET save == t.filemap[j].save
          IN  save # NoFd => /\ r.fd[save] = t.filemap[j].was /\ save \notin r.own
                             /\ r.fdptrs[save] = t.fdptrs[save]
  BY DEF Loop
<1>2. \A k \in DOMAIN r.filemap :
          /\ Live(t, all, last, e[k]) /\ e[k] \in DOMAIN t.filemap /\ e[k] \in Nat /\ k \in Nat
          /\ r.filemap[k] = t.filemap[e[k]] /\ e[k] >= k /\ (~ t.filemap[e[k]].subshell => e[k] = k)
  BY BroughtLive
<1>3. Aside(r)
  <2>1. SUFFICES ASSUME NEW k \in DOMAIN r.filemap
                 PROVE  LET save == r.filemap[k].save
                        IN  /\ r.filemap[k].was = Closed <=> save = NoFd
                            /\ save # NoFd => /\ r.fd[save] = r.filemap[k].was /\ save \notin r.own
                                              /\ r.fdptrs[save] >= k
                                              /\ ~ r.filemap[k].subshell => r.fdptrs[save] = k
    BY DEF Aside
  <2> DEFINE j == e[k]
             save == t.filemap[j].save
  <2>2. /\ Live(t, all, last, j) /\ j \in DOMAIN t.filemap /\ j \in Nat /\ k \in Nat
        /\ r.filemap[k] = t.filemap[j] /\ j >= k /\ (~ t.filemap[j].subshell => j = k)
    BY <1>2
  <2> HIDE DEF j
  <2>3. /\ t.filemap[j].was = Closed <=> save = NoFd
        /\ save # NoFd => /\ t.fd[save] = t.filemap[j].was /\ save \notin t.own
                          /\ t.fdptrs[save] >= j
                          /\ ~ t.filemap[j].subshell => t.fdptrs[save] = j
    BY <2>2 DEF Sound, Aside
  <2>4. save # NoFd => /\ r.fd[save] = t.filemap[j].was /\ save \notin r.own
                       /\ r.fdptrs[save] = t.fdptrs[save]
    BY <1>1, <2>2
  <2>5. save # NoFd => t.fdptrs[save] \in Nat
    <3>1. save \in High \cup {NoFd} /\ t.fdptrs \in [High -> 0..MaxTop] /\ MaxTop \in Nat
      BY <2>2, IoFields, MapFacts, Numbers
    <3> HIDE DEF save
    <3>2. QED
      BY <3>1
  <2> HIDE DEF save
  <2>6. save # NoFd => r.fdptrs[save] >= k /\ (~ t.filemap[j].subshell => r.fdptrs[save] = k)
    BY <2>2, <2>3, <2>4, <2>5
  <2>7. QED
    BY <2>2, <2>3, <2>4, <2>6 DEF save
<1>4. Apart(r)
  <2>1. SUFFICES ASSUME NEW k \in DOMAIN r.filemap, NEW l \in DOMAIN r.filemap,
                        r.filemap[k].save # NoFd, r.filemap[k].save = r.filemap[l].save
                 PROVE  k = l
    BY DEF Apart
  <2>2. e[k] = e[l]
    BY <1>2, <2>1 DEF Sound, Apart
  <2>3. e[k] \in Nat /\ k \in Nat /\ l \in Nat /\ (k < l => e[k] < e[l]) /\ (l < k => e[l] < e[k])
    BY <1>2 DEF Brought
  <2>4. QED
    BY <2>2, <2>3
<1>5. \A n : (\E j : Live(t, all, last, j) /\ t.filemap[j].save = n) =>
          \E k \in DOMAIN r.filemap : r.filemap[k].save = n
  <2>1. SUFFICES ASSUME NEW n, NEW j, Live(t, all, last, j), t.filemap[j].save = n
                 PROVE  \E k \in DOMAIN r.filemap : r.filemap[k].save = n
    OBVIOUS
  <2>2. PICK k \in DOMAIN r.filemap : e[k] = j
    BY <2>1 DEF Brought
  <2>3. QED
    BY <1>2, <2>1, <2>2
<1>6. InUse(r)
  BY <1>5 DEF Loop, InUse
<1>7. OwnOpen(r)
  BY DEF Loop, OwnOpen
<1>8. Accounted(r)
  BY <1>5 DEF Loop, Accounted
<1>9. ASSUME Exact(t), all \/ NotMoved(t, last)
      PROVE  Exact(r)
  <2>1. SUFFICES ASSUME NEW k \in DOMAIN r.filemap, r.filemap[k].save # NoFd
                 PROVE  r.fdptrs[r.filemap[k].save] = k
    BY DEF Exact
  <2> DEFINE j == e[k]
  <2>2. /\ Live(t, all, last, j) /\ j \in DOMAIN t.filemap /\ j \in Nat /\ k \in Nat
        /\ r.filemap[k] = t.filemap[j] /\ t.filemap[j].save # NoFd
    BY <1>2, <2>1
  <2>3. r.fdptrs[r.filemap[k].save] = j
    BY <1>1, <1>9, <2>2 DEF Exact
  <2>4. j = k
    <3>1. SUFFICES ASSUME j # k
                   PROVE  FALSE
      OBVIOUS
    <3>2. PICK i \in last + 1..j - 1 : ~ t.filemap[i].subshell
      BY <3>1 DEF Brought
    <3>3. k > last
      BY <2>2, <3>1 DEF Brought
    <3>4. j > last /\ t.filemap[j].subshell /\ ~ all
      BY <3>3 DEF Brought
    <3> HIDE DEF j
    <3>5. j <= Len(t.filemap) /\ Len(t.filemap) \in Nat
      BY <2>2, MapFacts, IoFields
    <3>6. i \in last + 1..Len(t.filemap) /\ j \in last + 1..Len(t.filemap) /\ i < j
      BY <2>2, <3>2, <3>4, <3>5
    <3>7. QED
      BY <1>9, <2>2, <3>2, <3>4, <3>6 DEF NotMoved
  <2>5. QED
    BY <2>3, <2>4
<1>10. QED
  BY <1>3, <1>4, <1>6, <1>7, <1>8, <1>9 DEF Sound

(* sh_iorestore, when all that is to be put back is still there. *)
Restoring(t, last, all, r) ==
    /\ r \in Io /\ Sound(r) /\ \E e : Brought(t, r, last, all, e)
    /\ Exact(t) /\ (all \/ NotMoved(t, last)) => Exact(r)
    /\ \A n \in Fd : (\A j : ~ Put(t, all, last, n, j)) => View(r)[n] = View(t)[n]
    /\ \A n \in Fd : \A j : Put(t, all, last, n, j) /\ (\A k : Put(t, all, last, n, k) => j <= k) =>
          View(r)[n] = t.filemap[j].was

LEMMA RestoreHolds ==
    ASSUME NEW t \in Io, Sound(t), NEW all \in BOOLEAN, NEW last \in Nat, last <= Len(t.filemap),
           NotTaken(t, last, all)
    PROVE  Restoring(t, last, all, sh_iorestore(t, last, all))
<1> DEFINE r == sh_iorestore(t, last, all)
           top == Len(t.filemap)
<1>1. top \in Nat /\ last \in 0..top /\ t.filemap \in Seq(Save) /\ DOMAIN t.filemap = 1..top
  BY IoFields
<1>2. CASE last = top
  <2>1. r = t
    <3>1. last >= Len(t.filemap)
      BY <1>1, <1>2
    <3>2. QED
      BY <3>1, RestoreNothing
  <2> DEFINE e == [k \in DOMAIN t.filemap |-> k]
  <2>2. Brought(t, t, last, all, e)
    <3>1. e \in [DOMAIN t.filemap -> DOMAIN t.filemap] /\ \A k \in DOMAIN t.filemap : e[k] = k
      OBVIOUS
    <3> HIDE DEF e
    <3>2. \A k \in DOMAIN t.filemap : k \in Nat /\ k <= last
      BY <1>1, <1>2
    <3>3. \A j : Live(t, all, last, j) => \E k \in DOMAIN t.filemap : e[k] = j
      BY <3>1 DEF Live
    <3>4. last >= last
      OBVIOUS
    <3> HIDE DEF top
    <3>5. \A k \in DOMAIN t.filemap : e[k] >= k /\ ~ (k > last)
      BY <3>1, <3>2
    <3>6. QED
      BY <1>2, <3>1, <3>3, <3>4, <3>5 DEF Brought, top
  <2>3. \A n, j : ~ Put(t, all, last, n, j)
    BY <1>1, <1>2 DEF Put
  <2> HIDE DEF r, e
  <2>4. QED
    BY <2>1, <2>2, <2>3 DEF Restoring, r
<1>3. CASE last < top
  <2>1. PICK f : /\ f[top] = t
                 /\ \A i \in last..top - 1 :
                       f[i] = IF f[i + 1].filemap[i + 1].subshell /\ ~ all THEN f[i + 1]
                              ELSE RestoreEntry(f[i + 1], i + 1)
                 /\ r = [f[last] EXCEPT !.filemap = IF all THEN SubSeq(@, 1, last) ELSE Compact(@, last)]
    BY <1>3, RestoreLoop
  <2> DEFINE G == {i \in last..top : Loop(t, all, i, f[i])}
  <2>2. top \in G
    BY <1>1, <2>1, LoopStart
  <2>3. ASSUME NEW i \in last..top - 1, i + 1 \in G
        PROVE  i \in G
    <3>1. /\ i \in Nat /\ i >= last /\ i + 1 \in DOMAIN t.filemap /\ i \in last..top
          /\ Loop(t, all, i + 1, f[i + 1])
      BY <1>1, <2>3
    <3>2. f[i + 1].filemap[i + 1].subshell = t.filemap[i + 1].subshell
      BY <3>1 DEF Loop, Alike
    <3>3. CASE t.filemap[i + 1].subshell /\ ~ all
      <4>1. f[i] = f[i + 1]
        BY <2>1, <3>2, <3>3
      <4>2. Loop(t, all, i, f[i + 1])
        BY <3>1, <3>3, LoopSkip
      <4>3. QED
        BY <3>1, <4>1, <4>2
    <3>4. CASE all \/ ~ t.filemap[i + 1].subshell
      <4>1. f[i] = RestoreEntry(f[i + 1], i + 1)
        BY <2>1, <3>2, <3>4
      <4>2. Loop(t, all, i, RestoreEntry(f[i + 1], i + 1))
        BY <3>1, <3>4, LoopStep
      <4>3. QED
        BY <3>1, <4>1, <4>2
    <3>5. QED
      BY <3>3, <3>4
  <2>4. last \in G
    <3> HIDE DEF G
    <3>1. G \in SUBSET (last..top)
      BY DEF G
    <3> HIDE DEF top
    <3>2. QED
      BY <1>1, <1>3, <2>2, <2>3, <3>1, Down
  <2> DEFINE d == f[last]
             map == IF all THEN SubSeq(d.filemap, 1, last) ELSE Compact(d.filemap, last)
  <2>5. Loop(t, all, last, d) /\ d \in Io /\ Alike(d.filemap, t.filemap)
    BY <2>4 DEF Loop
  <2>6. r = [d EXCEPT !.filemap = map]
    BY <2>1, <2>5 DEF d, Io
  <2> HIDE DEF d, G
  <2>7. d.filemap \in Seq(Save) /\ Len(d.filemap) = top /\ DOMAIN d.filemap = 1..top
    BY <1>1, <2>5, IoFields, AlikeFacts
  <2>8. PICK e : /\ map \in Seq(Save) /\ Len(map) >= last /\ Len(map) \in Nat
                 /\ e \in [1..Len(map) -> 1..top]
                 /\ \A k \in 1..Len(map) : /\ map[k] = d.filemap[e[k]] /\ e[k] >= k
                                           /\ k <= last => e[k] = k
                                           /\ k > last => e[k] > last /\ d.filemap[e[k]].subshell /\ ~ all
                                           /\ e[k] = k \/ \E j \in last + 1..e[k] - 1 : ~ d.filemap[j].subshell
                 /\ \A k, l \in 1..Len(map) : k < l => e[k] < e[l]
                 /\ \A j \in 1..top : j <= last \/ (d.filemap[j].subshell /\ ~ all) =>
                       \E k \in 1..Len(map) : e[k] = j
    <3>1. CASE all
      <4> DEFINE e == [k \in 1..last |-> k]
      <4>1. map = SubSeq(d.filemap, 1, last)
        BY <3>1
      <4> HIDE DEF map
      <4>2. map \in Seq(Save) /\ Len(map) = last /\ \A k \in 1..last : map[k] = d.filemap[k]
        BY <1>1, <2>7, <4>1
      <4>3. e \in [1..last -> 1..top] /\ \A k \in 1..last : e[k] = k
        <5>1. \A k \in 1..last : k \in 1..top
          BY <1>1
        <5>2. QED
          BY <5>1
      <4> HIDE DEF e
      <4>4. \A j \in 1..top : j <= last \/ (d.filemap[j].subshell /\ ~ all) => \E k \in 1..last : e[k] = j
        <5>1. \A j \in 1..top : j <= last => j \in 1..last
          BY <1>1
        <5>2. QED
          BY <3>1, <4>3, <5>1
      <4>5. \A k \in 1..last : e[k] >= k /\ k <= last /\ ~ (k > last)
        BY <4>3
      <4>6. \A k, l \in 1..last : k < l => e[k] < e[l]
        BY <4>3
      <4> HIDE DEF top
      <4>7. QED
        BY <4>2, <4>3, <4>4, <4>5, <4>6
    <3>2. CASE ~ all
      <4>1. map = Compact(d.filemap, last)
        BY <3>2
      <4>2. PICK e : Chosen(d.filemap, last, top, map, e)
        <5>1. last <= Len(d.filemap)
          BY <1>1, <2>7
        <5>2. QED
          BY <2>7, <4>1, <5>1, CompactFacts
      <4> HIDE DEF map, top
      <4>3. Len(map) \in Nat /\ map \in Seq(Save)
        BY <4>2 DEF Chosen
      <4>4. QED
        BY <3>2, <4>2, <4>3 DEF Chosen
    <3>3. QED
      BY <3>1, <3>2
  <2> HIDE DEF map, r
  <2>9. r \in Io /\ r.filemap = map /\ r.fd = d.fd /\ r.fdptrs = d.fdptrs /\ r.own = d.own
    BY <2>5, <2>6, <2>8, OtherMap
  <2>10. \A j \in 1..top : d.filemap[j].subshell = t.filemap[j].subshell
    BY <1>1, <2>5 DEF Alike
  <2>11. ASSUME NEW k \in 1..Len(map)
         PROVE  map[k] = t.filemap[e[k]]
    <3>1. map[k] = d.filemap[e[k]] /\ e[k] \in 1..top /\ Live(t, all, last, e[k])
      BY <1>1, <2>8, <2>10 DEF Live
    <3>2. d.filemap[e[k]] \in Save /\ t.filemap[e[k]] \in Save
      BY <1>1, <2>7, <3>1
    <3>3. d.filemap[e[k]].save = t.filemap[e[k]].save
      BY <2>5, <3>1 DEF Loop
    <3>4. d.filemap[e[k]].orig = t.filemap[e[k]].orig /\ d.filemap[e[k]].subshell = t.filemap[e[k]].subshell
          /\ d.filemap[e[k]].was = t.filemap[e[k]].was
      BY <1>1, <2>5, <3>1 DEF Alike
    <3>5. QED
      BY <3>1, <3>2, <3>3, <3>4, SameSave
  <2>12. Brought(t, r, last, all, e)
    <3>1. DOMAIN r.filemap = 1..Len(map)
      BY <2>8, <2>9
    <3>2. \A j : Live(t, all, last, j) => \E k \in 1..Len(map) : e[k] = j
      BY <1>1, <2>8, <2>10 DEF Live
    <3>3. \A k \in 1..Len(map) :
             /\ map[k] = t.filemap[e[k]] /\ e[k] >= k
             /\ k <= last => e[k] = k
             /\ k > last => e[k] > last /\ t.filemap[e[k]].subshell /\ ~ all
             /\ e[k] = k \/ \E j \in last + 1..e[k] - 1 : ~ t.filemap[j].subshell
      <4>1. SUFFICES ASSUME NEW k \in 1..Len(map)
                     PROVE  /\ map[k] = t.filemap[e[k]] /\ e[k] >= k
                            /\ k <= last => e[k] = k
                            /\ k > last => e[k] > last /\ t.filemap[e[k]].subshell /\ ~ all
                            /\ e[k] = k \/ \E j \in last + 1..e[k] - 1 : ~ t.filemap[j].subshell
        OBVIOUS
      <4>2. e[k] \in 1..top /\ e[k] \in Nat /\ \A j \in last + 1..e[k] - 1 : j \in 1..top
        <5>1. e[k] \in 1..top
          BY <2>8
        <5>2. QED
          BY <1>1, <5>1
      <4>3. /\ e[k] >= k /\ (k <= last => e[k] = k)
            /\ (k > last => e[k] > last /\ d.filemap[e[k]].subshell /\ ~ all)
            /\ (e[k] = k \/ \E j \in last + 1..e[k] - 1 : ~ d.filemap[j].subshell)
        BY <2>8
      <4> HIDE DEF top
      <4>4. QED
        BY <2>10, <2>11, <4>2, <4>3
    <3> HIDE DEF top
    <3>4. QED
      BY <1>1, <2>8, <2>9, <3>1, <3>2, <3>3 DEF Brought
  <2>13. Sound(r) /\ (Exact(t) /\ (all \/ NotMoved(t, last)) => Exact(r))
    BY <2>5, <2>9, <2>12, BroughtSound
  <2>14. \A n \in Fd : View(r)[n] = View(d)[n]
    BY <2>9 DEF View
  <2>15. /\ \A n \in Fd : (\A j : ~ Put(t, all, last, n, j)) => View(d)[n] = View(t)[n]
         /\ \A n \in Fd : \A j : Put(t, all, last, n, j) /\ (\A k : Put(t, all, last, n, k) => j <= k) =>
               View(d)[n] = t.filemap[j].was
    BY <2>5 DEF Loop
  <2>16. QED
    BY <2>9, <2>12, <2>13, <2>14, <2>15 DEF Restoring, r
<1>4. QED
  BY <1>1, <1>2, <1>3

(* What is put aside stays so when something is put aside, *)
Stays(t, s) ==
    /\ s \in Io /\ Sound(s) /\ (Exact(t) => Exact(s)) /\ View(s) = View(t) /\ s.own = t.own
    /\ \A m \in Fd : t.fd[m] # Closed => s.fd[m] = t.fd[m]

LEMMA SoundIosave ==
    ASSUME NEW t \in Io, Sound(t), NEW n \in Fd, NEW oldtop, NEW subshell \in BOOLEAN, NEW keep \in BOOLEAN,
           Len(t.filemap) < MaxTop, keep \/ t.fd[n] = Closed \/ \E m \in High : t.fd[m] = Closed
    PROVE  LET s == sh_iosave(t, n, oldtop, subshell, keep)
           IN  /\ Stays(t, s)
               /\ SavedSince(t, n, oldtop) => s = t
               /\ ~ SavedSince(t, n, oldtop) =>
                     \E save : s.filemap = Append(t.filemap, Entry(n, save, subshell,
                                                                   IF keep THEN Closed ELSE t.fd[n]))
<1> DEFINE s == sh_iosave(t, n, oldtop, subshell, keep)
           was == IF keep THEN Closed ELSE t.fd[n]
           k == Len(t.filemap) + 1
<1>1. s \in Io /\ (SavedSince(t, n, oldtop) => s = t)
  BY IosaveFacts
<1>2. CASE SavedSince(t, n, oldtop)
  <2>1. s = t
    BY <1>1, <1>2
  <2> HIDE DEF s
  <2>2. QED
    BY <1>1, <1>2, <2>1 DEF s, Stays
<1>3. CASE ~ SavedSince(t, n, oldtop)
  <2>1. PICK save \in High \cup {NoFd} :
            /\ save = NoFd <=> keep \/ t.fd[n] = Closed
            /\ save # NoFd => t.fd[save] = Closed
            /\ s.filemap = Append(t.filemap, Entry(n, save, subshell, was))
            /\ s.own = t.own
            /\ \A m \in Fd : s.fd[m] = IF m = save THEN t.fd[n] ELSE t.fd[m]
            /\ \A m \in High : s.fdptrs[m] = IF m = save THEN k ELSE t.fdptrs[m]
    BY <1>3, IosaveFacts
  <2> DEFINE entry == Entry(n, save, subshell, was)
             f == s.filemap
             g == t.filemap
  <2> HIDE DEF s
  <2>2. entry.orig = n /\ entry.save = save /\ entry.subshell = subshell /\ entry.was = was
    BY DEF Entry
  <2>3. was = Closed <=> save = NoFd
    BY <2>1
  <2>4. save # NoFd => save \in High /\ save \in Fd /\ s.fd[save] = was
    <3>1. save # NoFd => save \in High /\ save \in Fd /\ ~ keep
      BY <2>1 DEF Fd
    <3>2. QED
      BY <2>1, <3>1
  <2> HIDE DEF was, entry
  <2>5. /\ g \in Seq(Save) /\ f = Append(g, entry) /\ Len(g) \in Nat /\ k \in Nat /\ k \notin DOMAIN g
        /\ DOMAIN f = DOMAIN g \cup {k} /\ f[k] = entry /\ \A i \in DOMAIN g : f[i] = g[i]
        /\ \A i \in DOMAIN g : i \in Nat /\ i < k
    <3>1. g \in Seq(Save) /\ f = Append(g, entry)
      BY <2>1, IoFields DEF entry
    <3> HIDE DEF f, g
    <3>2. QED
      BY <3>1 DEF g
  <2> HIDE DEF k
  <2>6. \A i \in DOMAIN g : g[i].save # NoFd => g[i].save \in High /\ g[i].save \in Fd /\ g[i].save # save
    <3>1. SUFFICES ASSUME NEW i \in DOMAIN g, g[i].save # NoFd
                   PROVE  g[i].save \in High /\ g[i].save \in Fd /\ g[i].save # save
      OBVIOUS
    <3>2. g[i].save \in High /\ g[i].save \in Fd
      BY <3>1, MapFacts DEF Fd
    <3>3. t.fd[g[i].save] # Closed
      BY <3>1 DEF Sound, Aside
    <3>4. QED
      BY <2>1, <3>1, <3>2, <3>3
  <2>7. Aside(s)
    <3>1. \A i \in DOMAIN g : /\ g[i].was = Closed <=> g[i].save = NoFd
                              /\ g[i].save # NoFd => /\ s.fd[g[i].save] = g[i].was
                                                     /\ g[i].save \notin s.own
                                                     /\ s.fdptrs[g[i].save] >= i
                                                     /\ ~ g[i].subshell => s.fdptrs[g[i].save] = i
      BY <2>1, <2>6 DEF Sound, Aside
    <3>2. save # NoFd => s.fdptrs[save] = k /\ save \notin s.own /\ k >= k
      BY <2>1, <2>4, <2>5 DEF Sound, OwnOpen
    <3> HIDE DEF f, g
    <3>3. \A i \in DOMAIN f :
             /\ f[i].was = Closed <=> f[i].save = NoFd
             /\ f[i].save # NoFd => /\ s.fd[f[i].save] = f[i].was /\ f[i].save \notin s.own
                                    /\ s.fdptrs[f[i].save] >= i
                                    /\ ~ f[i].subshell => s.fdptrs[f[i].save] = i
      BY <2>2, <2>3, <2>4, <2>5, <3>1, <3>2
    <3>4. QED
      BY <3>3 DEF Aside, f
  <2>8. Apart(s)
    <3>1. \A i, j \in DOMAIN g : g[i].save # NoFd /\ g[i].save = g[j].save => i = j
      BY DEF Sound, Apart
    <3> HIDE DEF f, g
    <3>2. \A i, j \in DOMAIN f : f[i].save # NoFd /\ f[i].save = f[j].save => i = j
      BY <2>2, <2>5, <2>6, <3>1
    <3>3. QED
      BY <3>2 DEF Apart, f
  <2>9. InUse(s)
    <3>1. \A m \in High : t.fdptrs[m] # 0 => \E i \in DOMAIN g : g[i].save = m
      BY DEF Sound, InUse
    <3> HIDE DEF f, g
    <3>2. \A m \in High : s.fdptrs[m] # 0 => \E i \in DOMAIN f : f[i].save = m
      BY <2>1, <2>2, <2>5, <3>1
    <3>3. QED
      BY <3>2 DEF InUse, f
  <2>10. OwnOpen(s)
    <3>1. \A m \in t.own : m \in Fd /\ t.fd[m] # Closed /\ m # save
      BY <2>1, IoFields, Numbers DEF Sound, OwnOpen, Fd
    <3>2. QED
      BY <2>1, <3>1 DEF OwnOpen
  <2>11. Accounted(s)
    <3>1. \A m \in High : t.fd[m] # Closed => m \in t.own \/ \E i \in DOMAIN g : g[i].save = m
      BY DEF Sound, Accounted
    <3> HIDE DEF f, g
    <3>2. \A m \in High : m \in Fd
      BY DEF Fd
    <3>3. \A m \in High : s.fd[m] # Closed => m \in s.own \/ \E i \in DOMAIN f : f[i].save = m
      BY <2>1, <2>2, <2>5, <3>1, <3>2
    <3>4. QED
      BY <3>3 DEF Accounted, f
  <2>12. Exact(t) => Exact(s)
    <3>1. SUFFICES ASSUME Exact(t)
                   PROVE  Exact(s)
      OBVIOUS
    <3>2. \A i \in DOMAIN g : g[i].save # NoFd => t.fdptrs[g[i].save] = i
      BY <3>1 DEF Exact
    <3> HIDE DEF f, g
    <3>3. \A i \in DOMAIN f : f[i].save # NoFd => s.fdptrs[f[i].save] = i
      BY <2>1, <2>2, <2>4, <2>5, <2>6, <3>2
    <3>4. QED
      BY <3>3 DEF Exact, f
  <2>13. View(s) = View(t)
    <3>1. \A m \in Fd : m \in Low \cup t.own => s.fd[m] = t.fd[m]
      <4>1. save \notin Low \/ save = NoFd
        BY <2>4, Numbers
      <4>2. save # NoFd => save \notin t.own
        BY <2>1 DEF Sound, OwnOpen
      <4>3. NoFd \notin Fd
        BY Numbers DEF Fd
      <4>4. QED
        BY <2>1, <4>1, <4>2, <4>3
    <3>2. s.own = t.own
      BY <2>1
    <3>3. QED
      BY <3>1, <3>2 DEF View
  <2>14. \A m \in Fd : t.fd[m] # Closed => s.fd[m] = t.fd[m]
    BY <2>1, Numbers DEF Fd
  <2>15. \E w : s.filemap = Append(t.filemap, Entry(n, w, subshell, was))
    BY <2>1
  <2> HIDE DEF f, g
  <2>16. QED
    BY <1>1, <1>3, <2>1, <2>7, <2>8, <2>9, <2>10, <2>11, <2>12, <2>13, <2>14, <2>15 DEF Sound, Stays, s, was
<1>4. QED
  BY <1>2, <1>3

(* when a descriptor of the program's is another, *)
LEMMA SoundSetFd ==
    ASSUME NEW t \in Io, Sound(t), NEW n \in Low, NEW x \in File \cup {Closed}
    PROVE  LET c == [t EXCEPT !.fd[n] = x]
           IN  /\ c \in Io /\ Sound(c) /\ (Exact(t) => Exact(c)) /\ c.filemap = t.filemap /\ c.own = t.own
               /\ \A m \in Fd : View(c)[m] = IF m = n THEN x ELSE View(t)[m]
<1> DEFINE c == [t EXCEPT !.fd[n] = x]
<1>1. n \in Fd /\ n \notin High
  BY Numbers DEF Fd
<1>2. /\ c \in Io /\ c.filemap = t.filemap /\ c.fdptrs = t.fdptrs /\ c.own = t.own
      /\ \A m \in Fd : c.fd[m] = IF m = n THEN x ELSE t.fd[m]
  BY <1>1, SetFd
<1> HIDE DEF c
<1>3. \A m \in High : c.fd[m] = t.fd[m]
  BY <1>1, <1>2 DEF Fd
<1>4. \A i \in DOMAIN t.filemap : t.filemap[i].save # NoFd => t.filemap[i].save \in High
  BY MapFacts
<1>5. Aside(c)
  BY <1>2, <1>3, <1>4 DEF Sound, Aside
<1>6. OwnOpen(c)
  BY <1>2, <1>3, IoFields DEF Sound, OwnOpen
<1>7. Apart(c) /\ InUse(c) /\ Accounted(c) /\ (Exact(t) => Exact(c))
  BY <1>2, <1>3 DEF Sound, Apart, InUse, Accounted, Exact
<1>8. \A m \in Fd : View(c)[m] = IF m = n THEN x ELSE View(t)[m]
  BY <1>2 DEF View
<1>9. QED
  BY <1>2, <1>5, <1>6, <1>7, <1>8 DEF Sound, c

(* when one is closed, *)
LEMMA SoundClose ==
    ASSUME NEW t \in Io, Sound(t), NEW n \in Fd, n \in Low \cup t.own \/ t.fdptrs[n] = 0
    PROVE  LET c == sh_close(t, n)
           IN  /\ c \in Io /\ Sound(c) /\ (Exact(t) => Exact(c)) /\ c.filemap = t.filemap
               /\ c.own = t.own \ {n}
               /\ \A m \in Fd : View(c)[m] = IF m = n THEN Closed ELSE View(t)[m]
               /\ \A m \in Fd : m # n => c.fd[m] = t.fd[m]
<1> DEFINE c == sh_close(t, n)
<1>1. n \in High => t.fdptrs[n] = 0
  <2>1. SUFFICES ASSUME n \in High, n \in t.own
                 PROVE  t.fdptrs[n] = 0
    BY Numbers
  <2>2. \A i \in DOMAIN t.filemap : t.filemap[i].save # n
    BY <2>1, Numbers DEF Sound, Aside
  <2>3. QED
    BY <2>1, <2>2 DEF Sound, InUse
<1>2. /\ c \in Io /\ c.filemap = t.filemap
      /\ \A m \in Fd : c.fd[m] = IF m = n THEN Closed ELSE t.fd[m]
      /\ c.own = t.own \ {n}
      /\ \A m \in High : c.fdptrs[m] = t.fdptrs[m]
  BY <1>1, CloseFree
<1> HIDE DEF c
<1>3. \A i \in DOMAIN t.filemap : t.filemap[i].save # NoFd =>
          t.filemap[i].save \in High /\ t.filemap[i].save \in Fd /\ t.filemap[i].save # n
  <2>1. SUFFICES ASSUME NEW i \in DOMAIN t.filemap, t.filemap[i].save # NoFd
                 PROVE  t.filemap[i].save \in High /\ t.filemap[i].save # n
    BY DEF Fd
  <2>2. t.filemap[i].save \in High
    BY <2>1, MapFacts
  <2>3. t.fdptrs[t.filemap[i].save] >= i /\ i \in Nat /\ i >= 1
    BY <2>1, MapFacts DEF Sound, Aside
  <2>4. t.fdptrs[t.filemap[i].save] # 0
    BY <2>3
  <2>5. QED
    BY <1>1, <2>2, <2>4
<1>4. Aside(c)
  BY <1>2, <1>3 DEF Sound, Aside
<1>5. OwnOpen(c)
  BY <1>2, IoFields DEF Sound, OwnOpen, Fd
<1>6. Apart(c) /\ InUse(c) /\ Accounted(c)
  BY <1>2 DEF Sound, Apart, InUse, Accounted, Fd
<1>7. Exact(t) => Exact(c)
  BY <1>2, <1>3 DEF Exact
<1>8. \A m \in Fd : View(c)[m] = IF m = n THEN Closed ELSE View(t)[m]
  BY <1>2 DEF View
<1>9. QED
  BY <1>2, <1>4, <1>5, <1>6, <1>7, <1>8 DEF Sound, c

(* when the program takes a number that is free, *)
LEMMA SoundTake ==
    ASSUME NEW t \in Io, Sound(t), NEW n \in High, t.fd[n] = Closed, NEW x \in File
    PROVE  LET c == Taken(t, n, x)
           IN  /\ c \in Io /\ Sound(c) /\ (Exact(t) => Exact(c)) /\ c.filemap = t.filemap
               /\ c.own = t.own \cup {n} /\ c.fd[n] = x
               /\ \A m \in Fd : View(c)[m] = IF m = n THEN x ELSE View(t)[m]
<1> DEFINE c == Taken(t, n, x)
<1>1. x \in File \cup {Closed} /\ x # Closed /\ n \in Fd
  BY Numbers DEF Fd
<1>2. /\ c \in Io /\ c.filemap = t.filemap /\ c.fdptrs = t.fdptrs /\ c.own = t.own \cup {n}
      /\ \A m \in Fd : c.fd[m] = IF m = n THEN x ELSE t.fd[m]
  BY <1>1, TakeFd
<1> HIDE DEF c
<1>3. \A i \in DOMAIN t.filemap : t.filemap[i].save # NoFd =>
          /\ t.filemap[i].save \in High /\ t.filemap[i].save \in Fd /\ t.fd[t.filemap[i].save] # Closed
          /\ t.filemap[i].save # n
  <2>1. SUFFICES ASSUME NEW i \in DOMAIN t.filemap, t.filemap[i].save # NoFd
                 PROVE  t.filemap[i].save \in High /\ t.fd[t.filemap[i].save] # Closed
    BY DEF Fd
  <2>2. QED
    BY <2>1, MapFacts DEF Sound, Aside
<1>4. Aside(c)
  BY <1>2, <1>3 DEF Sound, Aside
<1>5. OwnOpen(c)
  BY <1>1, <1>2, IoFields DEF Sound, OwnOpen, Fd
<1>6. Apart(c) /\ InUse(c) /\ Accounted(c) /\ (Exact(t) => Exact(c))
  BY <1>2 DEF Sound, Apart, InUse, Accounted, Exact, Fd
<1>7. \A m \in Fd : View(c)[m] = IF m = n THEN x ELSE View(t)[m]
  BY <1>2 DEF View
<1>8. QED
  BY <1>1, <1>2, <1>4, <1>5, <1>6, <1>7 DEF Sound, c

(* and when the program closes a number where something is put aside. *)
LEMMA SoundPreserve ==
    ASSUME NEW t \in Io, Sound(t), NEW n \in High, NEW i \in DOMAIN t.filemap, t.filemap[i].save = n,
           t.fdptrs[n] = i, \E m \in High : t.fd[m] = Closed
    PROVE  LET c == sh_close(io_preserve(t, n), n)
           IN  /\ c \in Io /\ Sound(c) /\ (Exact(t) => Exact(c)) /\ Alike(c.filemap, t.filemap)
               /\ c.own = t.own /\ \A m \in Fd : View(c)[m] = View(t)[m]
<1> DEFINE p == io_preserve(t, n)
           new == NewFd(t)
           c == sh_close(p, n)
           f == c.filemap
           g == t.filemap
<1>1. /\ p \in Io /\ Alike(p.filemap, t.filemap) /\ new \in High /\ t.fd[new] = Closed
      /\ \A j \in DOMAIN g : p.filemap[j].save = IF t.fdptrs[n] = j THEN new ELSE g[j].save
      /\ p.own = t.own
      /\ \A m \in Fd : p.fd[m] = IF m = new THEN t.fd[n] ELSE t.fd[m]
      /\ \A m \in High : p.fdptrs[m] = IF m = n THEN 0 ELSE IF m = new THEN t.fdptrs[n] ELSE t.fdptrs[m]
  BY PreserveFacts
<1> HIDE DEF p, new
<1>2. n \in Fd /\ new \in Fd /\ n # NoFd /\ new # NoFd /\ i \in Nat
  <2>1. i \in Nat
    BY MapFacts
  <2>2. QED
    BY <1>1, <2>1, Numbers DEF Fd
<1>3. /\ c \in Io /\ c.filemap = p.filemap
      /\ \A m \in Fd : c.fd[m] = IF m = n THEN Closed ELSE p.fd[m]
      /\ c.own = p.own \ {n}
      /\ \A m \in High : c.fdptrs[m] = p.fdptrs[m]
  BY <1>1, <1>2, CloseFree
<1> HIDE DEF c
<1>4. t.fd[n] = g[i].was /\ g[i].was # Closed /\ n \notin t.own /\ new # n /\ new \notin t.own
  BY <1>1, <1>2 DEF Sound, Aside, OwnOpen
<1>5. /\ c.own = t.own
      /\ \A m \in Fd : c.fd[m] = IF m = n THEN Closed ELSE IF m = new THEN t.fd[n] ELSE t.fd[m]
      /\ \A m \in High : c.fdptrs[m] = IF m = n THEN 0 ELSE IF m = new THEN i ELSE t.fdptrs[m]
      /\ \A j \in DOMAIN g : f[j].save = IF j = i THEN new ELSE g[j].save
  BY <1>1, <1>3, <1>4
<1>6. Alike(f, g) /\ DOMAIN f = DOMAIN g
  BY <1>1, <1>3, IoFields, AlikeFacts
<1>7. \A j \in DOMAIN g : /\ f[j].orig = g[j].orig /\ f[j].subshell = g[j].subshell /\ f[j].was = g[j].was
                          /\ j \in Nat
  BY <1>6, MapFacts DEF Alike
<1>8. \A j \in DOMAIN g : j # i /\ g[j].save # NoFd =>
          /\ g[j].save \in High /\ g[j].save \in Fd /\ g[j].save # n /\ g[j].save # new
          /\ t.fd[g[j].save] = g[j].was /\ g[j].save \notin t.own /\ t.fdptrs[g[j].save] >= j
          /\ (~ g[j].subshell => t.fdptrs[g[j].save] = j)
  <2>1. SUFFICES ASSUME NEW j \in DOMAIN g, j # i, g[j].save # NoFd
                 PROVE  /\ g[j].save \in High /\ g[j].save \in Fd /\ g[j].save # n /\ g[j].save # new
                        /\ t.fd[g[j].save] = g[j].was /\ g[j].save \notin t.own /\ t.fdptrs[g[j].save] >= j
                        /\ (~ g[j].subshell => t.fdptrs[g[j].save] = j)
    OBVIOUS
  <2>2. g[j].save \in High /\ g[j].save \in Fd
    BY <2>1, MapFacts DEF Fd
  <2>3. g[j].save # n
    BY <2>1 DEF Sound, Apart
  <2>4. /\ t.fd[g[j].save] = g[j].was /\ g[j].was # Closed /\ g[j].save \notin t.own
        /\ t.fdptrs[g[j].save] >= j /\ (~ g[j].subshell => t.fdptrs[g[j].save] = j)
    BY <2>1 DEF Sound, Aside
  <2>5. QED
    BY <1>1, <2>2, <2>3, <2>4
<1>9. \A j \in DOMAIN g : g[j].was = Closed <=> g[j].save = NoFd
  BY DEF Sound, Aside
<1> HIDE DEF f, g
<1>10. Aside(c)
  <2>1. \A j \in DOMAIN f :
            /\ f[j].was = Closed <=> f[j].save = NoFd
            /\ f[j].save # NoFd => /\ c.fd[f[j].save] = f[j].was /\ f[j].save \notin c.own
                                   /\ c.fdptrs[f[j].save] >= j
                                   /\ ~ f[j].subshell => c.fdptrs[f[j].save] = j
    <3>1. SUFFICES ASSUME NEW j \in DOMAIN g
                   PROVE  /\ f[j].was = Closed <=> f[j].save = NoFd
                          /\ f[j].save # NoFd => /\ c.fd[f[j].save] = f[j].was /\ f[j].save \notin c.own
                                                 /\ c.fdptrs[f[j].save] >= j
                                                 /\ ~ f[j].subshell => c.fdptrs[f[j].save] = j
      BY <1>6
    <3>2. CASE j = i
      <4>1. f[j].save = new /\ f[j].was = g[i].was /\ c.fd[new] = t.fd[n] /\ c.fdptrs[new] = i
        BY <1>1, <1>2, <1>4, <1>5, <1>7, <3>2
      <4>2. QED
        BY <1>2, <1>4, <1>5, <3>2, <4>1
    <3>3. CASE j # i
      <4>1. f[j].save = g[j].save
        BY <1>5, <3>3
      <4>2. f[j].save # NoFd => c.fd[f[j].save] = t.fd[g[j].save] /\ c.fdptrs[f[j].save] = t.fdptrs[g[j].save]
        BY <1>5, <1>8, <3>3, <4>1
      <4>3. QED
        BY <1>5, <1>7, <1>8, <1>9, <3>3, <4>1, <4>2
    <3>4. QED
      BY <3>2, <3>3
  <2>2. QED
    BY <2>1 DEF Aside, f
<1>11. Apart(c)
  <2>1. \A j, k \in DOMAIN g : g[j].save # NoFd /\ g[j].save = g[k].save => j = k
    BY DEF Sound, Apart, g
  <2>2. \A j, k \in DOMAIN f : f[j].save # NoFd /\ f[j].save = f[k].save => j = k
    BY <1>2, <1>5, <1>6, <1>8, <2>1
  <2>3. QED
    BY <2>2 DEF Apart, f
<1>12. InUse(c)
  <2>1. \A m \in High : t.fdptrs[m] # 0 => \E j \in DOMAIN g : g[j].save = m
    BY DEF Sound, InUse, g
  <2>2. ASSUME NEW m \in High, c.fdptrs[m] # 0
        PROVE  \E j \in DOMAIN f : f[j].save = m
    <3>1. CASE m = new
      BY <1>5, <1>6, <3>1 DEF g
    <3>2. CASE m # new
      <4>1. m # n /\ t.fdptrs[m] # 0
        BY <1>5, <2>2, <3>2
      <4>2. PICK j \in DOMAIN g : g[j].save = m
        BY <2>1, <4>1
      <4>3. j # i
        BY <4>1, <4>2 DEF g
      <4>4. QED
        BY <1>5, <1>6, <4>2, <4>3
    <3>3. QED
      BY <3>1, <3>2
  <2>3. QED
    BY <2>2 DEF InUse, f
<1>13. OwnOpen(c)
  <2>1. \A m \in t.own : m \in Fd /\ t.fd[m] # Closed
    BY IoFields DEF Sound, OwnOpen, Fd
  <2>2. QED
    BY <1>4, <1>5, <2>1 DEF OwnOpen
<1>14. Accounted(c)
  <2>1. \A m \in High : t.fd[m] # Closed => m \in t.own \/ \E j \in DOMAIN g : g[j].save = m
    BY DEF Sound, Accounted, g
  <2>2. ASSUME NEW m \in High, c.fd[m] # Closed, m \notin c.own
        PROVE  \E j \in DOMAIN f : f[j].save = m
    <3>0. m \in Fd
      BY DEF Fd
    <3>1. CASE m = new
      BY <1>5, <1>6, <3>1 DEF g
    <3>2. CASE m # new
      <4>1. m # n /\ t.fd[m] # Closed /\ m \notin t.own
        BY <1>5, <2>2, <3>0, <3>2
      <4>2. PICK j \in DOMAIN g : g[j].save = m
        BY <2>1, <4>1
      <4>3. j # i
        BY <4>1, <4>2 DEF g
      <4>4. QED
        BY <1>5, <1>6, <4>2, <4>3
    <3>3. QED
      BY <3>1, <3>2
  <2>3. QED
    BY <2>2 DEF Accounted, f
<1>15. ASSUME Exact(t)
       PROVE  Exact(c)
  <2>1. \A j \in DOMAIN g : g[j].save # NoFd => t.fdptrs[g[j].save] = j
    BY <1>15 DEF Exact, g
  <2>2. ASSUME NEW j \in DOMAIN f, f[j].save # NoFd
        PROVE  c.fdptrs[f[j].save] = j
    <3>1. CASE j = i
      BY <1>1, <1>4, <1>5, <1>6, <3>1
    <3>2. CASE j # i
      <4>1. f[j].save = g[j].save /\ j \in DOMAIN g
        BY <1>5, <1>6, <3>2
      <4>2. QED
        BY <1>5, <1>8, <2>1, <2>2, <3>2, <4>1
    <3>3. QED
      BY <3>1, <3>2
  <2>3. QED
    BY <2>2 DEF Exact, f
<1>16. \A m \in Fd : View(c)[m] = View(t)[m]
  <2>1. n \notin Low /\ new \notin Low
    BY <1>1, Numbers
  <2>2. QED
    BY <1>4, <1>5, <2>1 DEF View
<1>17. QED
  BY <1>3, <1>5, <1>6, <1>10, <1>11, <1>12, <1>13, <1>14, <1>15, <1>16 DEF Sound, c, p, f, g

--------------------------------------------------------------------------------
(* How the entries f of filemap, the commands s and what the program sees, w, belong
   together. *)

IsBlock(s, k) == s[k].kind \in {"block", "function"}
IsSub(s, k) == s[k].kind = "sub"

(* The outer commands have the lower entries. *)
Framed(f, s) ==
    /\ \A k \in DOMAIN s :
          /\ s[k].redirect => k = 1
          /\ s[k].kind = "exec" => s[k].redirect /\ s[k].before = <<>>
          /\ s[k].kind = "sub" => ~ s[k].redirect /\ DOMAIN s[k].before = Fd
          /\ s[k].topfd <= Len(f)
    /\ \A k, l \in DOMAIN s : k < l => s[l].topfd <= s[k].topfd

(* The part of filemap that a command has, and the entries of its own: others are left
   there by exec in a subshell. *)
Part(f, s, k) == {i \in DOMAIN f : s[k].topfd < i /\ (k > 1 => i <= s[k - 1].topfd)}
Own(f, s, k) == {i \in Part(f, s, k) : ~ f[i].subshell}

(* In a shell that has not forked nothing else is in filemap. *)
Rooted(f, s) ==
    /\ s = <<>> => f = <<>>
    /\ s # <<>> => s[Len(s)].topfd = 0
    /\ \A i \in DOMAIN f : f[i].subshell => \E k \in DOMAIN s : IsSub(s, k) /\ s[k].topfd < i

(* The entries of a block or function are those of what it redirected, once each. *)
Blocks(f, s) ==
    \A k \in DOMAIN s : IsBlock(s, k) =>
        /\ \A i \in Own(f, s, k) : f[i].orig \in DOMAIN s[k].before /\ f[i].was = s[k].before[f[i].orig]
        /\ \A n \in DOMAIN s[k].before : \E i \in Own(f, s, k) : f[i].orig = n
        /\ \A i, j \in Own(f, s, k) : f[i].orig = f[j].orig => i = j
        /\ s[k].redirect => Own(f, s, k) = Part(f, s, k)

(* exec leaves entries of its own only where its subshell is what it runs in. *)
Execs(f, s) ==
    \A k \in DOMAIN s : s[k].kind = "exec" /\ Own(f, s, k) # {} => 2 \in DOMAIN s /\ IsSub(s, 2)

(* What exec changes in a subshell has been saved by that subshell before anything in it
   saved it: an entry above the bottom of a subshell, and of none inside of it. *)
Owner(s, k, i) == IsSub(s, k) /\ s[k].topfd < i /\ \A m \in 1..k - 1 : IsSub(s, m) => i <= s[m].topfd
First(f, s, k, i) == \A j \in DOMAIN f : s[k].topfd < j /\ j < i => f[j].orig # f[i].orig
Subshells(f, s) ==
    \A k \in DOMAIN s : IsSub(s, k) =>
        /\ \A n \in s[k].fdsaved : \E i \in DOMAIN f : Owner(s, k, i) /\ f[i].subshell /\ f[i].orig = n
        /\ \A i \in DOMAIN f : Owner(s, k, i) /\ f[i].subshell => First(f, s, k, i)

(* What a subshell found is what it would put back. *)
Returns(f, s, w) ==
    \A k \in DOMAIN s : IsSub(s, k) =>
        /\ \A n \in Fd : \/ w[n] = s[k].before[n]
                         \/ \E i \in DOMAIN f : s[k].topfd < i /\ f[i].orig = n
        /\ \A i \in DOMAIN f : s[k].topfd < i /\ First(f, s, k, i) => f[i].was = s[k].before[f[i].orig]

Layers(f, s, w) == Framed(f, s) /\ Blocks(f, s) /\ Execs(f, s) /\ Subshells(f, s) /\ Returns(f, s, w)
Layered == Layers(io.filemap, stack, View(io)) /\ (forks = 0 => Rooted(io.filemap, stack))

IInv == TypeOK /\ (Faithful => Held /\ Layered)

(* The lapses are never taken back. *)
LEMMA FaithfulBack == Next /\ Faithful' => Faithful
<1>1. Next => lapse \subseteq lapse'
  BY DEF Next, Begin, Run, Open, Dup, Redirect, Move, CloseFd, VarOpen, VarClose, End, EndExec, Fail,
         Unwind, SubshellEnd, Leave, Caught, Fork, Subfork, Lapses
<1>2. QED
  BY <1>1 DEF Faithful

LEMMA InitIInv == Init => IInv
<1>1. SUFFICES ASSUME Init
               PROVE  Held /\ Layered
  BY TypeInit DEF IInv
<1>2. PICK n \in Low, file \in File :
          io = [fd |-> [m \in Fd |-> IF m = n THEN file ELSE Closed], filemap |-> <<>>,
                fdptrs |-> [m \in High |-> 0], own |-> {}]
  BY <1>1 DEF Init
<1>3. /\ io.filemap = <<>> /\ io.own = {} /\ DOMAIN io.filemap = {} /\ stack = <<>> /\ DOMAIN stack = {}
      /\ \A m \in High : io.fd[m] = Closed /\ io.fdptrs[m] = 0
  <2>1. \A m \in High : m \in Fd /\ m # n
    BY Numbers DEF Fd
  <2>2. QED
    BY <1>1, <1>2, <2>1 DEF Init
<1>4. Held
  BY <1>3 DEF Held, Sound, Aside, Apart, InUse, OwnOpen, Accounted, Exact
<1>5. Layered
  BY <1>3 DEF Layered, Layers, Framed, Blocks, Execs, Subshells, Returns, Rooted
<1>6. QED
  BY <1>4, <1>5

(* Numbers of entries and commands. *)
LEMMA Indices ==
    ASSUME TypeOK
    PROVE  /\ io \in Io /\ io.filemap \in Seq(Save) /\ Len(io.filemap) \in Nat
           /\ DOMAIN io.filemap = 1..Len(io.filemap)
           /\ \A i \in DOMAIN io.filemap : i \in Nat /\ i >= 1 /\ i <= Len(io.filemap)
           /\ \A k \in DOMAIN stack : k \in Nat /\ k >= 1 /\ stack[k].topfd \in Nat
           /\ View(io) \in [Fd -> File \cup {Closed}]
<1>1. io \in Io
  BY DEF TypeOK
<1>2. \A k \in DOMAIN stack : stack[k].topfd \in Nat /\ k \in Nat /\ k >= 1
  BY StackFacts, FrameFields
<1>3. io.filemap \in Seq(Save)
  BY <1>1, IoFields
<1>4. QED
  BY <1>1, <1>2, <1>3, ViewFacts

LEMMA LayerBegin ==
    ASSUME TypeOK, Layered, NEW kind \in {"block", "function", "exec", "sub"}, Begin(kind)
    PROVE  Layered'
<1> DEFINE f == io.filemap
           s == stack
           w == View(io)
           c == [kind |-> kind, redirect |-> kind # "sub", topfd |-> Len(io.filemap),
                 fdsaved |-> {}, v |-> IF kind = "sub" THEN v ELSE NoFd,
                 before |-> IF kind = "sub" THEN View(io) ELSE <<>>]
           r == stack'
<1>1. /\ f \in Seq(Save) /\ Len(f) \in Nat /\ DOMAIN f = 1..Len(f)
      /\ \A i \in DOMAIN f : i \in Nat /\ i >= 1 /\ i <= Len(f)
      /\ \A k \in DOMAIN s : k \in Nat /\ k >= 1 /\ s[k].topfd \in Nat
  BY Indices
<1>2. /\ s \in Seq(Frame) /\ Len(s) \in Nat /\ DOMAIN s = 1..Len(s)
  BY StackFacts
<1>3. /\ c.kind = kind /\ (kind = "sub" => ~ c.redirect) /\ (kind # "sub" => c.redirect)
      /\ c.topfd = Len(f) /\ c.fdsaved = {}
      /\ c.before = IF kind = "sub" THEN w ELSE <<>>
  OBVIOUS
<1>4. r = <<c>> \o s /\ UNCHANGED <<io, forks>>
  BY DEF Begin
<1> HIDE DEF c
<1>5. /\ Len(r) = Len(s) + 1 /\ DOMAIN r = 1..Len(s) + 1 /\ r[1] = c
      /\ \A k \in DOMAIN s : r[k + 1] = s[k] /\ k + 1 \in DOMAIN r
      /\ \A k \in DOMAIN r : k = 1 \/ (k - 1 \in DOMAIN s /\ r[k] = s[k - 1])
  <2> DEFINE S == Frame \cup {c}
             b == <<c>>
  <2>1. /\ b \in Seq(S) /\ Len(b) = 1 /\ b[1] = c /\ s \in Seq(S)
    BY <1>2
  <2>2. r = b \o s
    BY <1>4
  <2> HIDE DEF r, S, b, s
  <2>3. /\ r \in Seq(S) /\ Len(r) = 1 + Len(s) /\ r[1] = b[1]
        /\ \A k \in 1..Len(s) : r[1 + k] = s[k]
    <3>1. /\ r \in Seq(S) /\ Len(r) = Len(b) + Len(s)
          /\ \A i \in 1..Len(b) + Len(s) : r[i] = IF i <= Len(b) THEN b[i] ELSE s[i - Len(b)]
      BY <2>1, <2>2, ConcatProperties
    <3>2. \A k \in 1..Len(s) : 1 + k \in 1..1 + Len(s) /\ ~ (1 + k <= 1) /\ (1 + k) - 1 = k
      BY <1>2
    <3>3. 1 \in 1..1 + Len(s) /\ 1 <= 1
      BY <1>2
    <3>4. QED
      BY <2>1, <3>1, <3>2, <3>3
  <2>4. \A k \in 1..Len(s) : k + 1 = 1 + k /\ k + 1 \in 1..Len(s) + 1
    BY <1>2
  <2>5. \A k \in 1..Len(s) + 1 : k = 1 \/ (k - 1 \in 1..Len(s) /\ k = 1 + (k - 1))
    BY <1>2
  <2>6. Len(r) = Len(s) + 1 /\ DOMAIN r = 1..Len(s) + 1
    BY <1>2, <2>3
  <2>7. QED
    <3>1. \A k \in DOMAIN r : k = 1 \/ (k - 1 \in DOMAIN s /\ r[k] = s[k - 1])
      <4>1. ASSUME NEW k \in DOMAIN r, k # 1
            PROVE  k - 1 \in DOMAIN s /\ r[k] = s[k - 1]
        <5> DEFINE j == k - 1
        <5>1. j \in 1..Len(s) /\ k = 1 + j
          BY <2>5, <2>6, <4>1
        <5> HIDE DEF j
        <5>2. r[k] = s[j]
          BY <2>3, <5>1
        <5>3. QED
          BY <1>2, <5>1, <5>2 DEF j
      <4>2. QED
        BY <4>1
    <3>2. \A k \in DOMAIN s : r[k + 1] = s[k] /\ k + 1 \in DOMAIN r
      BY <1>2, <2>3, <2>4, <2>6
    <3>3. QED
      BY <2>1, <2>3, <2>6, <3>1, <3>2
<1>6. \A k \in DOMAIN s : ~ s[k].redirect /\ s[k].kind # "exec"
  <2>1. s # <<>> => ~ s[1].redirect
    BY StackFacts DEF Begin, Running
  <2>2. \A k \in DOMAIN s : (s[k].redirect => k = 1) /\ (s[k].kind = "exec" => s[k].redirect)
    BY DEF Layered, Layers, Framed
  <2>3. QED
    BY <1>2, <2>1, <2>2
<1>7. f' = f /\ View(io)' = w
  BY <1>4
<1>8. DOMAIN w = Fd
  BY Indices
<1> HIDE DEF f, s, w, r
<1>9. Framed(f, r)
  <2>1. Framed(f, s)
    BY DEF Layered, Layers, f, s
  <2>2. \A k \in DOMAIN r : k > 1 => k - 1 \in DOMAIN s /\ r[k] = s[k - 1]
    BY <1>5
  <2>3. ASSUME NEW k \in DOMAIN r
        PROVE  /\ r[k].redirect => k = 1
               /\ r[k].kind = "exec" => r[k].redirect /\ r[k].before = <<>>
               /\ r[k].kind = "sub" => ~ r[k].redirect /\ DOMAIN r[k].before = Fd
               /\ r[k].topfd <= Len(f)
    <3>1. CASE k = 1
      BY <1>1, <1>3, <1>5, <1>8, <3>1
    <3>2. CASE k # 1
      <4>1. k - 1 \in DOMAIN s /\ r[k] = s[k - 1]
        BY <1>5, <3>2
      <4>2. QED
        BY <1>6, <2>1, <4>1 DEF Framed
    <3>3. QED
      BY <3>1, <3>2
  <2>4. ASSUME NEW k \in DOMAIN r, NEW l \in DOMAIN r, k < l
        PROVE  r[l].topfd <= r[k].topfd
    <3>1. k \in Nat /\ l \in Nat /\ k >= 1 /\ l # 1
      BY <1>2, <1>5, <2>4
    <3>2. l - 1 \in DOMAIN s /\ r[l] = s[l - 1]
      BY <1>5, <3>1
    <3>3. CASE k = 1
      BY <1>3, <1>5, <2>1, <3>2, <3>3 DEF Framed
    <3>4. CASE k # 1
      <4>1. k - 1 \in DOMAIN s /\ r[k] = s[k - 1] /\ k - 1 < l - 1
        BY <1>5, <2>4, <3>1, <3>4
      <4>2. QED
        BY <2>1, <3>2, <4>1 DEF Framed
    <3>5. QED
      BY <3>3, <3>4
  <2>5. QED
    BY <2>3, <2>4 DEF Framed
<1>10. \A k \in DOMAIN s : Part(f, r, k + 1) = Part(f, s, k) /\ Own(f, r, k + 1) = Own(f, s, k)
  <2>1. SUFFICES ASSUME NEW k \in DOMAIN s
                 PROVE  Part(f, r, k + 1) = Part(f, s, k)
    BY <1>5 DEF Own
  <2>2. r[k + 1] = s[k] /\ k \in Nat /\ k >= 1 /\ k + 1 > 1 /\ (k + 1) - 1 = k
    BY <1>1, <1>5
  <2>3. k = 1 => r[k].topfd = Len(f)
    BY <1>3, <1>5
  <2>4. k > 1 => r[k] = s[k - 1]
    BY <1>1, <1>2, <1>5
  <2>5. k = 1 \/ k > 1
    BY <2>2
  <2>6. QED
    BY <1>1, <2>2, <2>3, <2>4, <2>5 DEF Part
<1>11. Part(f, r, 1) = {} /\ Own(f, r, 1) = {}
  BY <1>1, <1>3, <1>5 DEF Part, Own
<1>12. Blocks(f, r)
  <2>1. Blocks(f, s)
    BY DEF Layered, Layers, f, s
  <2>2. SUFFICES ASSUME NEW k \in DOMAIN r, IsBlock(r, k)
                 PROVE  /\ \A i \in Own(f, r, k) : f[i].orig \in DOMAIN r[k].before
                                                   /\ f[i].was = r[k].before[f[i].orig]
                        /\ \A n \in DOMAIN r[k].before : \E i \in Own(f, r, k) : f[i].orig = n
                        /\ \A i, j \in Own(f, r, k) : f[i].orig = f[j].orig => i = j
                        /\ r[k].redirect => Own(f, r, k) = Part(f, r, k)
    BY DEF Blocks
  <2>3. CASE k = 1
    <3>1. DOMAIN r[1].before = {}
      BY <1>3, <1>5, <2>2, <2>3 DEF IsBlock
    <3>2. QED
      BY <1>11, <2>3, <3>1
  <2>4. CASE k # 1
    <3>1. k - 1 \in DOMAIN s /\ r[k] = s[k - 1] /\ (k - 1) + 1 = k
      BY <1>5, <2>4
    <3>2. Part(f, r, k) = Part(f, s, k - 1) /\ Own(f, r, k) = Own(f, s, k - 1)
      BY <1>10, <3>1
    <3>3. IsBlock(s, k - 1)
      BY <2>2, <3>1 DEF IsBlock
    <3>4. QED
      BY <2>1, <3>1, <3>2, <3>3 DEF Blocks
  <2>5. QED
    BY <2>3, <2>4
<1>13. Execs(f, r)
  BY <1>5, <1>6, <1>11 DEF Execs
<1>14. \A k \in DOMAIN s : IsSub(s, k) => IsSub(r, k + 1) /\ \A i \in DOMAIN f :
          (Owner(r, k + 1, i) <=> Owner(s, k, i)) /\ (First(f, r, k + 1, i) <=> First(f, s, k, i))
  <2>1. SUFFICES ASSUME NEW k \in DOMAIN s, IsSub(s, k), NEW i \in DOMAIN f
                 PROVE  /\ Owner(r, k + 1, i) <=> Owner(s, k, i)
                        /\ First(f, r, k + 1, i) <=> First(f, s, k, i)
    BY <1>5 DEF IsSub
  <2>2. r[k + 1] = s[k]
    BY <1>5
  <2>3. First(f, r, k + 1, i) <=> First(f, s, k, i)
    BY <2>2 DEF First
  <2>4. ASSUME \A m \in 1..(k + 1) - 1 : IsSub(r, m) => i <= r[m].topfd, NEW m \in 1..k - 1, IsSub(s, m)
        PROVE  i <= s[m].topfd
    <3>1. m + 1 \in 1..(k + 1) - 1 /\ m \in DOMAIN s
      BY <1>1, <1>2
    <3>2. r[m + 1] = s[m]
      BY <1>5, <3>1
    <3>3. IsSub(r, m + 1)
      BY <2>4, <3>2 DEF IsSub
    <3>4. QED
      BY <2>4, <3>1, <3>2, <3>3
  <2>5. ASSUME \A m \in 1..k - 1 : IsSub(s, m) => i <= s[m].topfd, NEW m \in 1..(k + 1) - 1, IsSub(r, m)
        PROVE  i <= r[m].topfd
    <3>1. CASE m = 1
      BY <1>1, <1>3, <1>5, <3>1
    <3>2. CASE m # 1
      <4>1. m - 1 \in 1..k - 1 /\ m \in DOMAIN r
        BY <1>1, <1>2, <1>5, <3>2
      <4>2. r[m] = s[m - 1]
        BY <1>5, <3>2, <4>1
      <4>3. IsSub(s, m - 1)
        BY <2>5, <4>2 DEF IsSub
      <4>4. QED
        BY <2>5, <4>1, <4>2, <4>3
    <3>3. QED
      BY <3>1, <3>2
  <2>6. Owner(r, k + 1, i) <=> Owner(s, k, i)
    BY <2>2, <2>4, <2>5 DEF Owner, IsSub
  <2>7. QED
    BY <2>3, <2>6
<1>15. Subshells(f, r)
  <2>1. SUFFICES ASSUME NEW k \in DOMAIN r, IsSub(r, k)
                 PROVE  /\ \A n \in r[k].fdsaved : \E i \in DOMAIN f :
                              Owner(r, k, i) /\ f[i].subshell /\ f[i].orig = n
                        /\ \A i \in DOMAIN f : Owner(r, k, i) /\ f[i].subshell => First(f, r, k, i)
    BY DEF Subshells
  <2>2. CASE k = 1
    BY <1>1, <1>3, <1>5, <2>2 DEF Owner
  <2>3. CASE k # 1
    <3>1. k - 1 \in DOMAIN s /\ r[k] = s[k - 1] /\ (k - 1) + 1 = k
      BY <1>5, <2>3
    <3>2. IsSub(s, k - 1)
      BY <2>1, <3>1 DEF IsSub
    <3>3. \A i \in DOMAIN f : (Owner(r, k, i) <=> Owner(s, k - 1, i)) /\ (First(f, r, k, i) <=> First(f, s, k - 1, i))
      BY <1>14, <3>1, <3>2
    <3>4. Subshells(f, s)
      BY DEF Layered, Layers, f, s
    <3>5. QED
      BY <3>1, <3>2, <3>3, <3>4 DEF Subshells
  <2>4. QED
    BY <2>2, <2>3
<1>16. Returns(f, r, w)
  <2>1. SUFFICES ASSUME NEW k \in DOMAIN r, IsSub(r, k)
                 PROVE  /\ \A n \in Fd : \/ w[n] = r[k].before[n]
                                         \/ \E i \in DOMAIN f : r[k].topfd < i /\ f[i].orig = n
                        /\ \A i \in DOMAIN f : r[k].topfd < i /\ First(f, r, k, i) =>
                              f[i].was = r[k].before[f[i].orig]
    BY DEF Returns
  <2>2. CASE k = 1
    <3>1. r[1].before = w /\ r[1].topfd = Len(f)
      BY <1>3, <1>5, <2>1, <2>2 DEF IsSub
    <3>2. QED
      BY <1>1, <2>2, <3>1
  <2>3. CASE k # 1
    <3>1. k - 1 \in DOMAIN s /\ r[k] = s[k - 1] /\ (k - 1) + 1 = k
      BY <1>5, <2>3
    <3>2. IsSub(s, k - 1)
      BY <2>1, <3>1 DEF IsSub
    <3>3. \A i \in DOMAIN f : First(f, r, k, i) <=> First(f, s, k - 1, i)
      BY <1>14, <3>1, <3>2
    <3>4. Returns(f, s, w)
      BY DEF Layered, Layers, f, s, w
    <3>5. QED
      BY <3>1, <3>2, <3>3, <3>4 DEF Returns
  <2>4. QED
    BY <2>2, <2>3
<1>17. ASSUME forks = 0
       PROVE  Rooted(f, r)
  <2>1. Rooted(f, s)
    BY <1>17 DEF Layered, f, s
  <2>2. r # <<>> /\ Len(r) = Len(s) + 1
    BY <1>2, <1>5
  <2>3. r[Len(r)].topfd = 0
    <3>1. CASE s = <<>>
      BY <1>1, <1>2, <1>3, <1>5, <2>1, <3>1 DEF Rooted
    <3>2. CASE s # <<>>
      <4>1. Len(s) \in DOMAIN s
        BY <1>2, <3>2
      <4>2. QED
        BY <1>5, <2>1, <2>2, <3>2, <4>1 DEF Rooted
    <3>3. QED
      BY <3>1, <3>2
  <2>4. \A i \in DOMAIN f : f[i].subshell => \E k \in DOMAIN r : IsSub(r, k) /\ r[k].topfd < i
    <3>1. SUFFICES ASSUME NEW i \in DOMAIN f, f[i].subshell
                   PROVE  \E k \in DOMAIN r : IsSub(r, k) /\ r[k].topfd < i
      OBVIOUS
    <3>2. PICK k \in DOMAIN s : IsSub(s, k) /\ s[k].topfd < i
      BY <2>1, <3>1 DEF Rooted
    <3>3. k + 1 \in DOMAIN r /\ r[k + 1] = s[k]
      BY <1>5
    <3>4. QED
      BY <3>2, <3>3 DEF IsSub
  <2>5. QED
    BY <2>2, <2>3, <2>4 DEF Rooted
<1>18. QED
  BY <1>4, <1>7, <1>9, <1>12, <1>13, <1>15, <1>16, <1>17 DEF Layered, Layers, f, s, w, r

--------------------------------------------------------------------------------
(* A redirection adds entries to filemap: g has those of f and others for descriptors
   of ns, with what they had, w; x is what the program sees then, and r the commands. *)
Grows(f, s, w, g, r, x, ns) ==
    /\ f \in Seq(Save) /\ g \in Seq(Save) /\ s \in Seq(Frame) /\ r \in Seq(Frame) /\ ns \subseteq Fd
    /\ Len(f) <= Len(g) /\ Len(r) = Len(s) /\ s # <<>>
    /\ \A i \in DOMAIN f : g[i].orig = f[i].orig /\ g[i].subshell = f[i].subshell /\ g[i].was = f[i].was
    /\ \A i \in DOMAIN g : i \notin DOMAIN f => g[i].orig \in ns /\ g[i].was = w[g[i].orig]
    /\ \A k \in DOMAIN s :
          /\ r[k].kind = s[k].kind /\ r[k].redirect = s[k].redirect /\ r[k].topfd = s[k].topfd
          /\ (k = 1 /\ IsBlock(s, 1)) \/ r[k].before = s[k].before
    /\ \A n \in Fd : n \notin ns => x[n] = w[n]
    /\ \A n \in ns : \A k \in DOMAIN s : IsSub(s, k) => \E i \in DOMAIN g : s[k].topfd < i /\ g[i].orig = n

LEMMA GrowsFacts ==
    ASSUME NEW f, NEW s, NEW w, NEW g, NEW r, NEW x, NEW ns, Grows(f, s, w, g, r, x, ns), Framed(f, s)
    PROVE  /\ Len(f) \in Nat /\ Len(g) \in Nat /\ Len(f) <= Len(g) /\ DOMAIN f = 1..Len(f) /\ DOMAIN g = 1..Len(g)
           /\ \A i \in DOMAIN f : i \in DOMAIN g /\ i \in Nat /\ i >= 1 /\ i <= Len(f)
           /\ \A i \in DOMAIN g : i \in Nat /\ i >= 1 /\ (i \in DOMAIN f <=> i <= Len(f))
           /\ DOMAIN r = DOMAIN s /\ 1 \in DOMAIN s /\ DOMAIN s = 1..Len(s) /\ Len(s) \in Nat
           /\ \A k \in DOMAIN s : /\ k \in Nat /\ k >= 1 /\ s[k].topfd \in Nat /\ s[k].topfd <= Len(f)
                                  /\ k > 1 => k - 1 \in DOMAIN s
           /\ \A k \in DOMAIN s : s[k].topfd <= s[1].topfd
<1>1. /\ f \in Seq(Save) /\ g \in Seq(Save) /\ s \in Seq(Frame) /\ r \in Seq(Frame)
      /\ Len(f) <= Len(g) /\ Len(r) = Len(s) /\ s # <<>>
  BY DEF Grows
<1>2. /\ DOMAIN f = 1..Len(f) /\ DOMAIN g = 1..Len(g) /\ Len(f) \in Nat /\ Len(g) \in Nat
      /\ DOMAIN s = 1..Len(s) /\ DOMAIN r = 1..Len(s) /\ Len(s) \in Nat /\ Len(s) >= 1
  BY <1>1
<1>3. \A k \in DOMAIN s : s[k] \in Frame
  BY <1>1, <1>2
<1>4. \A k \in DOMAIN s : s[k].topfd \in Nat /\ k \in Nat /\ k >= 1 /\ (k > 1 => k - 1 \in DOMAIN s)
  BY <1>2, <1>3, FrameFields
<1>5. \A k \in DOMAIN s : s[k].topfd <= Len(f)
  BY DEF Framed
<1>6. 1 \in DOMAIN s
  BY <1>2
<1>7. \A k \in DOMAIN s : s[k].topfd <= s[1].topfd
  <2>1. \A k \in DOMAIN s : 1 < k => s[k].topfd <= s[1].topfd
    BY <1>6 DEF Framed
  <2>2. \A k \in DOMAIN s : k = 1 \/ 1 < k
    BY <1>2
  <2>3. s[1].topfd <= s[1].topfd
    BY <1>4, <1>6
  <2>4. QED
    BY <2>1, <2>2, <2>3
<1>8. \A i \in DOMAIN f : i \in DOMAIN g /\ i \in Nat /\ i >= 1 /\ i <= Len(f)
  BY <1>1, <1>2
<1>9. \A i \in DOMAIN g : i \in Nat /\ i >= 1 /\ (i \in DOMAIN f <=> i <= Len(f))
  BY <1>1, <1>2
<1>10. QED
  BY <1>1, <1>2, <1>4, <1>5, <1>6, <1>7, <1>8, <1>9

LEMMA GrowsFramed ==
    ASSUME NEW f, NEW s, NEW w, NEW g, NEW r, NEW x, NEW ns, Grows(f, s, w, g, r, x, ns), Framed(f, s)
    PROVE  Framed(g, r)
<1>1. /\ DOMAIN r = DOMAIN s /\ Len(f) \in Nat /\ Len(g) \in Nat /\ Len(f) <= Len(g)
      /\ \A k \in DOMAIN s : s[k].topfd \in Nat /\ s[k].topfd <= Len(f)
  BY GrowsFacts
<1>2. \A k \in DOMAIN s :
          /\ r[k].kind = s[k].kind /\ r[k].redirect = s[k].redirect /\ r[k].topfd = s[k].topfd
          /\ s[k].kind \in {"exec", "sub"} => r[k].before = s[k].before
  BY DEF Grows, IsBlock
<1>3. \A k \in DOMAIN s : r[k].topfd <= Len(g)
  BY <1>1, <1>2
<1>4. QED
  BY <1>1, <1>2, <1>3 DEF Framed

(* The parts of all commands but the innermost are the same. *)
LEMMA GrowsParts ==
    ASSUME NEW f, NEW s, NEW w, NEW g, NEW r, NEW x, NEW ns, Grows(f, s, w, g, r, x, ns), Framed(f, s)
    PROVE  /\ \A k \in DOMAIN s : k > 1 => Part(g, r, k) = Part(f, s, k) /\ Own(g, r, k) = Own(f, s, k)
           /\ \A i : i \in Part(g, r, 1) <=> i \in Part(f, s, 1) \/ (i \in DOMAIN g /\ i \notin DOMAIN f)
           /\ \A k \in DOMAIN s : k > 1 => r[k].before = s[k].before
           /\ \A k \in DOMAIN s : IsSub(s, k) => r[k].before = s[k].before
<1>1. /\ Len(f) \in Nat /\ Len(g) \in Nat /\ Len(f) <= Len(g) /\ DOMAIN f = 1..Len(f) /\ DOMAIN g = 1..Len(g)
      /\ \A i \in DOMAIN f : i \in DOMAIN g /\ i \in Nat /\ i >= 1 /\ i <= Len(f)
      /\ \A i \in DOMAIN g : i \in Nat /\ i >= 1 /\ (i \in DOMAIN f <=> i <= Len(f))
      /\ DOMAIN r = DOMAIN s /\ 1 \in DOMAIN s
      /\ \A k \in DOMAIN s : /\ k \in Nat /\ s[k].topfd \in Nat /\ s[k].topfd <= Len(f)
                             /\ k > 1 => k - 1 \in DOMAIN s
  BY GrowsFacts
<1>2. /\ \A i \in DOMAIN f : g[i].orig = f[i].orig /\ g[i].subshell = f[i].subshell
      /\ \A k \in DOMAIN s : r[k].topfd = s[k].topfd
      /\ \A k \in DOMAIN s : (k = 1 /\ IsBlock(s, 1)) \/ r[k].before = s[k].before
  BY DEF Grows
<1>3. ASSUME NEW k \in DOMAIN s, k > 1
      PROVE  Part(g, r, k) = Part(f, s, k) /\ Own(g, r, k) = Own(f, s, k) /\ r[k].before = s[k].before
  <2>1. k - 1 \in DOMAIN s /\ s[k - 1].topfd <= Len(f) /\ s[k - 1].topfd \in Nat
        /\ r[k - 1].topfd = s[k - 1].topfd /\ r[k].topfd = s[k].topfd
    BY <1>1, <1>2, <1>3
  <2>2. Part(g, r, k) = {i \in DOMAIN g : s[k].topfd < i /\ i <= s[k - 1].topfd}
    BY <1>3, <2>1 DEF Part
  <2>3. Part(f, s, k) = {i \in DOMAIN f : s[k].topfd < i /\ i <= s[k - 1].topfd}
    BY <1>3, <2>1 DEF Part
  <2>4. \A i \in DOMAIN g : i <= s[k - 1].topfd => i \in DOMAIN f
    BY <1>1, <2>1
  <2>5. Part(g, r, k) = Part(f, s, k)
    BY <1>1, <2>2, <2>3, <2>4
  <2>6. \A i \in Part(f, s, k) : i \in DOMAIN f
    BY DEF Part
  <2>7. Own(g, r, k) = Own(f, s, k)
    BY <1>2, <2>5, <2>6 DEF Own
  <2>8. k # 1
    BY <1>1, <1>3
  <2>9. QED
    BY <1>2, <2>5, <2>7, <2>8
<1>4. \A i : i \in Part(g, r, 1) <=> i \in Part(f, s, 1) \/ (i \in DOMAIN g /\ i \notin DOMAIN f)
  <2>1. r[1].topfd = s[1].topfd /\ s[1].topfd \in Nat /\ s[1].topfd <= Len(f)
    BY <1>1, <1>2
  <2>2. Part(g, r, 1) = {i \in DOMAIN g : s[1].topfd < i} /\ Part(f, s, 1) = {i \in DOMAIN f : s[1].topfd < i}
    BY <2>1 DEF Part
  <2>3. \A i \in DOMAIN g : i \notin DOMAIN f => s[1].topfd < i
    BY <1>1, <2>1
  <2>4. QED
    BY <1>1, <2>2, <2>3
<1>5. \A k \in DOMAIN s : IsSub(s, k) => r[k].before = s[k].before
  BY <1>2 DEF IsSub, IsBlock
<1>6. QED
  BY <1>3, <1>4, <1>5

LEMMA GrowsFirst ==
    ASSUME NEW f, NEW s, NEW w, NEW g, NEW r, NEW x, NEW ns, Grows(f, s, w, g, r, x, ns), Framed(f, s),
           NEW k \in DOMAIN s
    PROVE  /\ IsSub(r, k) <=> IsSub(s, k)
           /\ \A i : Owner(r, k, i) <=> Owner(s, k, i)
           /\ \A i \in DOMAIN f : First(g, r, k, i) <=> First(f, s, k, i)
<1>1. /\ Len(f) \in Nat /\ Len(g) \in Nat /\ Len(f) <= Len(g) /\ DOMAIN f = 1..Len(f) /\ DOMAIN g = 1..Len(g)
      /\ \A i \in DOMAIN f : i \in DOMAIN g /\ i \in Nat /\ i <= Len(f)
      /\ \A i \in DOMAIN g : i \in Nat /\ (i \in DOMAIN f <=> i <= Len(f))
      /\ DOMAIN s = 1..Len(s) /\ Len(s) \in Nat /\ k \in Nat
  BY GrowsFacts
<1>2. /\ \A i \in DOMAIN f : g[i].orig = f[i].orig
      /\ \A m \in DOMAIN s : r[m].topfd = s[m].topfd /\ r[m].kind = s[m].kind
  BY DEF Grows
<1>3. \A m \in 1..k - 1 : m \in DOMAIN s
  BY <1>1
<1>4. \A i : Owner(r, k, i) <=> Owner(s, k, i)
  BY <1>2, <1>3 DEF Owner, IsSub
<1>5. ASSUME NEW i \in DOMAIN f
      PROVE  First(g, r, k, i) <=> First(f, s, k, i)
  <2>1. \A j \in DOMAIN g : j < i => j \in DOMAIN f
    BY <1>1
  <2>2. \A j \in DOMAIN f : j \in DOMAIN g
    BY <1>1
  <2>3. r[k].topfd = s[k].topfd /\ g[i].orig = f[i].orig
    BY <1>2
  <2>4. QED
    BY <1>2, <2>1, <2>2, <2>3 DEF First
<1>6. QED
  BY <1>2, <1>4, <1>5 DEF IsSub

LEMMA GrowsReturns ==
    ASSUME NEW f, NEW s, NEW w, NEW g, NEW r, NEW x, NEW ns, Grows(f, s, w, g, r, x, ns), Framed(f, s),
           Returns(f, s, w)
    PROVE  Returns(g, r, x)
<1>1. /\ DOMAIN r = DOMAIN s /\ \A i \in DOMAIN f : i \in DOMAIN g /\ i \in Nat /\ i <= Len(f)
      /\ Len(f) \in Nat /\ \A i \in DOMAIN g : i \in Nat /\ (i \in DOMAIN f <=> i <= Len(f))
  BY GrowsFacts
<1>2. SUFFICES ASSUME NEW k \in DOMAIN s, IsSub(s, k)
               PROVE  /\ \A n \in Fd : \/ x[n] = s[k].before[n]
                                       \/ \E i \in DOMAIN g : s[k].topfd < i /\ g[i].orig = n
                      /\ \A i \in DOMAIN g : s[k].topfd < i /\ First(g, r, k, i) =>
                            g[i].was = s[k].before[g[i].orig]
  <2>1. \A k \in DOMAIN s : /\ r[k].topfd = s[k].topfd /\ (IsSub(r, k) <=> IsSub(s, k))
                            /\ IsSub(s, k) => r[k].before = s[k].before
    <3>1. \A k \in DOMAIN s : r[k].topfd = s[k].topfd /\ r[k].kind = s[k].kind
      BY DEF Grows
    <3>2. \A k \in DOMAIN s : IsSub(s, k) => r[k].before = s[k].before
      BY GrowsParts
    <3>3. QED
      BY <3>1, <3>2 DEF IsSub
  <2>2. QED
    BY <1>1, <1>2, <2>1 DEF Returns
<1>3. /\ \A n \in Fd : \/ w[n] = s[k].before[n]
                       \/ \E i \in DOMAIN f : s[k].topfd < i /\ f[i].orig = n
      /\ \A i \in DOMAIN f : s[k].topfd < i /\ First(f, s, k, i) => f[i].was = s[k].before[f[i].orig]
  BY <1>2 DEF Returns
<1>4. /\ \A i \in DOMAIN f : g[i].orig = f[i].orig /\ g[i].was = f[i].was
      /\ \A i \in DOMAIN g : i \notin DOMAIN f => g[i].orig \in ns /\ g[i].was = w[g[i].orig]
      /\ \A n \in Fd : n \notin ns => x[n] = w[n]
      /\ \A n \in ns : \E i \in DOMAIN g : s[k].topfd < i /\ g[i].orig = n
      /\ ns \subseteq Fd /\ r[k].topfd = s[k].topfd
  BY <1>2 DEF Grows
<1>5. ASSUME NEW n \in Fd
      PROVE  \/ x[n] = s[k].before[n]
             \/ \E i \in DOMAIN g : s[k].topfd < i /\ g[i].orig = n
  <2>1. CASE n \in ns
    BY <1>4, <2>1
  <2>2. CASE n \notin ns
    BY <1>1, <1>3, <1>4, <2>2
  <2>3. QED
    BY <2>1, <2>2
<1>6. ASSUME NEW i \in DOMAIN g, s[k].topfd < i, First(g, r, k, i)
      PROVE  g[i].was = s[k].before[g[i].orig]
  <2>1. CASE i \in DOMAIN f
    <3>1. First(f, s, k, i)
      BY <1>6, <2>1, GrowsFirst
    <3>2. QED
      BY <1>3, <1>4, <1>6, <2>1, <3>1
  <2>2. CASE i \notin DOMAIN f
    <3>1. \A j \in DOMAIN f : s[k].topfd < j => f[j].orig # g[i].orig
      <4>1. \A j \in DOMAIN f : j < i /\ j \in DOMAIN g
        BY <1>1, <2>2
      <4>2. QED
        BY <1>4, <1>6, <4>1 DEF First
    <3>2. QED
      BY <1>3, <1>4, <2>2, <3>1
  <2>3. QED
    BY <2>1, <2>2
<1>7. QED
  BY <1>5, <1>6

LEMMA GrowsRooted ==
    ASSUME NEW f, NEW s, NEW w, NEW g, NEW r, NEW x, NEW ns, Grows(f, s, w, g, r, x, ns), Framed(f, s),
           Rooted(f, s),
           \A i \in DOMAIN g : i \notin DOMAIN f /\ g[i].subshell => \E k \in DOMAIN s : IsSub(s, k)
    PROVE  Rooted(g, r)
<1>1. /\ DOMAIN r = DOMAIN s /\ 1 \in DOMAIN s /\ DOMAIN s = 1..Len(s) /\ Len(s) \in Nat
      /\ Len(f) \in Nat /\ \A i \in DOMAIN g : i \in Nat /\ (i \in DOMAIN f <=> i <= Len(f))
      /\ \A k \in DOMAIN s : s[k].topfd \in Nat /\ s[k].topfd <= Len(f)
  BY GrowsFacts
<1>2. /\ \A k \in DOMAIN s : r[k].topfd = s[k].topfd /\ r[k].kind = s[k].kind
      /\ Len(r) = Len(s) /\ s # <<>>
      /\ \A i \in DOMAIN f : g[i].subshell = f[i].subshell
  BY DEF Grows
<1>3. r # <<>>
  BY <1>1
<1>4. r[Len(r)].topfd = 0
  <2>1. Len(s) \in DOMAIN s
    BY <1>1
  <2>2. QED
    BY <1>2, <2>1 DEF Rooted
<1>5. ASSUME NEW i \in DOMAIN g, g[i].subshell
      PROVE  \E k \in DOMAIN r : IsSub(r, k) /\ r[k].topfd < i
  <2>1. \E k \in DOMAIN s : IsSub(s, k) /\ s[k].topfd < i
    <3>1. CASE i \in DOMAIN f
      BY <1>2, <1>5, <3>1 DEF Rooted
    <3>2. CASE i \notin DOMAIN f
      <4>1. PICK k \in DOMAIN s : IsSub(s, k)
        BY <1>5, <3>2
      <4>2. s[k].topfd < i
        BY <1>1, <3>2
      <4>3. QED
        BY <4>1, <4>2
    <3>3. QED
      BY <3>1, <3>2
  <2>2. QED
    BY <1>1, <1>2, <2>1 DEF IsSub
<1>6. QED
  BY <1>3, <1>4, <1>5 DEF Rooted

(* Blocks of the commands around the innermost one. *)
LEMMA GrowsOuter ==
    ASSUME NEW f, NEW s, NEW w, NEW g, NEW r, NEW x, NEW ns, Grows(f, s, w, g, r, x, ns), Framed(f, s),
           Blocks(f, s), NEW k \in DOMAIN s, k > 1, IsBlock(s, k)
    PROVE  /\ \A i \in Own(g, r, k) : g[i].orig \in DOMAIN r[k].before /\ g[i].was = r[k].before[g[i].orig]
           /\ \A n \in DOMAIN r[k].before : \E i \in Own(g, r, k) : g[i].orig = n
           /\ \A i, j \in Own(g, r, k) : g[i].orig = g[j].orig => i = j
           /\ r[k].redirect => Own(g, r, k) = Part(g, r, k)
<1>1. Part(g, r, k) = Part(f, s, k) /\ Own(g, r, k) = Own(f, s, k) /\ r[k].before = s[k].before
  BY GrowsParts
<1>2. \A i \in Own(f, s, k) : g[i].orig = f[i].orig /\ g[i].was = f[i].was
  BY DEF Own, Part, Grows
<1>3. r[k].redirect = s[k].redirect
  BY DEF Grows
<1>4. QED
  BY <1>1, <1>2, <1>3 DEF Blocks

LEMMA OverValues ==
    ASSUME NEW b \in PartialFd, NEW h \in PartialFd
    PROVE  /\ DOMAIN Over(b, h) = DOMAIN b \cup DOMAIN h
           /\ \A n \in DOMAIN b : Over(b, h)[n] = b[n]
           /\ \A n \in DOMAIN h : n \notin DOMAIN b => Over(b, h)[n] = h[n]
<1>1. /\ DOMAIN Over(b, h) = DOMAIN b \cup DOMAIN h
      /\ \A n \in DOMAIN b \cup DOMAIN h : Over(b, h)[n] = IF n \in DOMAIN b THEN b[n] ELSE h[n]
  BY OverFacts
<1>2. QED
  BY <1>1

LEMMA GrowsBlock ==
    ASSUME NEW f, NEW s, NEW w, NEW g, NEW r, NEW x, NEW ns,
           Grows(f, s, w, g, r, x, ns), Layers(f, s, w),
           IsBlock(s, 1), s[1].redirect, \A k \in DOMAIN s : r[k].fdsaved = s[k].fdsaved,
           DOMAIN r[1].before = DOMAIN s[1].before \cup ns,
           \A n \in DOMAIN s[1].before : r[1].before[n] = s[1].before[n],
           \A n \in ns : n \notin DOMAIN s[1].before => r[1].before[n] = w[n],
           \A i \in DOMAIN g : i \notin DOMAIN f =>
              ~ g[i].subshell /\ \A j \in DOMAIN g : s[1].topfd < j /\ j # i => g[j].orig # g[i].orig,
           \A n \in ns : \E i \in DOMAIN g : s[1].topfd < i /\ g[i].orig = n
    PROVE  Layers(g, r, x)
<1>1. Framed(f, s) /\ Blocks(f, s) /\ Execs(f, s) /\ Subshells(f, s) /\ Returns(f, s, w)
  BY DEF Layers
<1>2. /\ Len(f) \in Nat /\ DOMAIN r = DOMAIN s /\ 1 \in DOMAIN s
      /\ \A i \in DOMAIN f : i \in DOMAIN g /\ i \in Nat /\ i <= Len(f)
      /\ \A i \in DOMAIN g : i \in Nat /\ (i \in DOMAIN f <=> i <= Len(f))
      /\ \A k \in DOMAIN s : k \in Nat /\ k >= 1 /\ s[k].topfd \in Nat /\ s[k].topfd <= Len(f)
  BY <1>1, GrowsFacts
<1>3. Framed(g, r) /\ Returns(g, r, x)
  BY <1>1, GrowsFramed, GrowsReturns
<1>4. /\ \A k \in DOMAIN s : /\ r[k].kind = s[k].kind /\ r[k].redirect = s[k].redirect
                             /\ r[k].topfd = s[k].topfd
      /\ \A i \in DOMAIN f : /\ g[i].orig = f[i].orig /\ g[i].subshell = f[i].subshell
                             /\ g[i].was = f[i].was
      /\ \A i \in DOMAIN g : i \notin DOMAIN f => g[i].orig \in ns /\ g[i].was = w[g[i].orig]
  BY <1>2 DEF Grows
<1>5. /\ DOMAIN r[1].before = DOMAIN s[1].before \cup ns
      /\ \A n \in DOMAIN s[1].before : r[1].before[n] = s[1].before[n]
      /\ \A n \in ns : n \notin DOMAIN s[1].before => r[1].before[n] = w[n]
  OBVIOUS
<1>6. \A i : i \in Part(g, r, 1) <=> i \in Part(f, s, 1) \/ (i \in DOMAIN g /\ i \notin DOMAIN f)
  BY <1>1, GrowsParts
<1>7. /\ \A i \in Part(f, s, 1) : i \in DOMAIN f /\ s[1].topfd < i
      /\ \A i \in DOMAIN f : s[1].topfd < i => i \in Part(f, s, 1)
      /\ \A i \in DOMAIN g : s[1].topfd < i => i \in Part(g, r, 1)
      /\ Own(f, s, 1) = Part(f, s, 1)
  BY <1>1, <1>2, <1>4 DEF Part, Blocks
<1>8. Own(g, r, 1) = Part(g, r, 1)
  <2>1. \A i \in Part(g, r, 1) : ~ g[i].subshell
    <3>1. \A i \in Part(f, s, 1) : ~ f[i].subshell
      BY <1>7 DEF Own
    <3>2. QED
      BY <1>4, <1>6, <1>7, <3>1
  <2>2. QED
    BY <2>1 DEF Own
<1>9. \A i \in Part(f, s, 1) : f[i].orig \in DOMAIN s[1].before /\ f[i].was = s[1].before[f[i].orig]
  BY <1>1, <1>2, <1>7 DEF Blocks
<1>10. \A n \in DOMAIN s[1].before : \E i \in Part(f, s, 1) : f[i].orig = n
  BY <1>1, <1>2, <1>7 DEF Blocks
<1>11. \A i, j \in Part(f, s, 1) : f[i].orig = f[j].orig => i = j
  BY <1>1, <1>2, <1>7 DEF Blocks
<1>12. \A i \in DOMAIN g : i \notin DOMAIN f =>
          g[i].orig \notin DOMAIN s[1].before
  <2>1. SUFFICES ASSUME NEW i \in DOMAIN g, i \notin DOMAIN f, g[i].orig \in DOMAIN s[1].before
                 PROVE  FALSE
    OBVIOUS
  <2>2. PICK j \in Part(f, s, 1) : f[j].orig = g[i].orig
    BY <1>10, <2>1
  <2>3. j \in DOMAIN g /\ j # i /\ s[1].topfd < j /\ g[j].orig = g[i].orig
    BY <1>2, <1>4, <1>7, <2>1, <2>2
  <2>4. QED
    BY <2>1, <2>3
<1>13. ASSUME NEW i \in Own(g, r, 1)
       PROVE  g[i].orig \in DOMAIN r[1].before /\ g[i].was = r[1].before[g[i].orig]
  <2>1. CASE i \in Part(f, s, 1)
    BY <1>4, <1>5, <1>7, <1>9, <2>1
  <2>2. CASE i \notin Part(f, s, 1)
    <3>1. i \in DOMAIN g /\ i \notin DOMAIN f
      BY <1>6, <1>8, <1>13, <2>2
    <3>2. QED
      BY <1>4, <1>5, <1>12, <3>1
  <2>3. QED
    BY <2>1, <2>2
<1>14. ASSUME NEW n \in DOMAIN r[1].before
       PROVE  \E i \in Own(g, r, 1) : g[i].orig = n
  <2>1. CASE n \in ns
    BY <1>7, <1>8, <2>1
  <2>2. CASE n \in DOMAIN s[1].before
    <3>1. PICK i \in Part(f, s, 1) : f[i].orig = n
      BY <1>10, <2>2
    <3>2. g[i].orig = n /\ i \in Own(g, r, 1)
      BY <1>4, <1>6, <1>7, <1>8, <3>1
    <3>3. QED
      BY <3>2
  <2>3. QED
    BY <1>5, <2>1, <2>2
<1>15. ASSUME NEW i \in Own(g, r, 1), NEW j \in Own(g, r, 1), g[i].orig = g[j].orig
       PROVE  i = j
  <2>1. i \in DOMAIN g /\ j \in DOMAIN g /\ s[1].topfd < i /\ s[1].topfd < j
    BY <1>2, <1>4, <1>8 DEF Part
  <2>2. CASE i \in DOMAIN f /\ j \in DOMAIN f
    BY <1>4, <1>7, <1>11, <1>15, <2>1, <2>2
  <2>3. CASE i \notin DOMAIN f \/ j \notin DOMAIN f
    BY <1>15, <2>1, <2>3
  <2>4. QED
    BY <2>2, <2>3
<1>16. Blocks(g, r)
  <2>1. SUFFICES ASSUME NEW k \in DOMAIN s, IsBlock(s, k)
                 PROVE  /\ \A i \in Own(g, r, k) : g[i].orig \in DOMAIN r[k].before
                                                   /\ g[i].was = r[k].before[g[i].orig]
                        /\ \A n \in DOMAIN r[k].before : \E i \in Own(g, r, k) : g[i].orig = n
                        /\ \A i, j \in Own(g, r, k) : g[i].orig = g[j].orig => i = j
                        /\ r[k].redirect => Own(g, r, k) = Part(g, r, k)
    BY <1>2, <1>4 DEF Blocks, IsBlock
  <2>2. CASE k = 1
    BY <1>8, <1>13, <1>14, <1>15, <2>2
  <2>3. CASE k # 1
    <3>1. k > 1
      BY <1>2, <2>3
    <3>2. QED
      BY <1>1, <2>1, <3>1, GrowsOuter
  <2>4. QED
    BY <2>2, <2>3
<1>17. Execs(g, r)
  <2>1. \A k \in DOMAIN r : r[k].kind # "exec"
    BY <1>1, <1>2, <1>4 DEF Framed, IsBlock
  <2>2. QED
    BY <2>1 DEF Execs
<1>18. Subshells(g, r)
  <2>1. SUFFICES ASSUME NEW k \in DOMAIN s, IsSub(s, k)
                 PROVE  /\ \A n \in s[k].fdsaved : \E i \in DOMAIN g :
                              Owner(r, k, i) /\ g[i].subshell /\ g[i].orig = n
                        /\ \A i \in DOMAIN g : Owner(r, k, i) /\ g[i].subshell => First(g, r, k, i)
    BY <1>2, <1>4 DEF Subshells, IsSub
  <2>2. /\ \A n \in s[k].fdsaved : \E i \in DOMAIN f : Owner(s, k, i) /\ f[i].subshell /\ f[i].orig = n
        /\ \A i \in DOMAIN f : Owner(s, k, i) /\ f[i].subshell => First(f, s, k, i)
    BY <1>1, <2>1 DEF Subshells
  <2>3. /\ \A i : Owner(r, k, i) <=> Owner(s, k, i)
        /\ \A i \in DOMAIN f : First(g, r, k, i) <=> First(f, s, k, i)
    BY <1>1, GrowsFirst
  <2>4. \A n \in s[k].fdsaved : \E i \in DOMAIN g : Owner(r, k, i) /\ g[i].subshell /\ g[i].orig = n
    BY <1>2, <1>4, <2>2, <2>3
  <2>5. \A i \in DOMAIN g : g[i].subshell => i \in DOMAIN f
    OBVIOUS
  <2>6. \A i \in DOMAIN g : Owner(r, k, i) /\ g[i].subshell => First(g, r, k, i)
    BY <1>4, <2>2, <2>3, <2>5
  <2>7. QED
    BY <2>4, <2>6
<1>19. QED
  BY <1>3, <1>16, <1>17, <1>18 DEF Layers

Innermost(s, k) == IsSub(s, k) /\ \A m \in 1..k - 1 : ~ IsSub(s, m)

LEMMA GrowsExec ==
    ASSUME NEW f, NEW s, NEW w, NEW g, NEW r, NEW x, NEW ns,
           Grows(f, s, w, g, r, x, ns), Layers(f, s, w), s[1].kind = "exec",
           \A k \in DOMAIN s : \A n \in r[k].fdsaved : n \in s[k].fdsaved \/
              (Innermost(s, k) /\ \E i \in DOMAIN g : i \notin DOMAIN f /\ g[i].subshell /\ g[i].orig = n),
           \A i \in DOMAIN g : i \notin DOMAIN f /\ g[i].subshell =>
              \A k \in DOMAIN s : Innermost(s, k) =>
                 \A j \in DOMAIN g : s[k].topfd < j /\ j < i => g[j].orig # g[i].orig,
           \A i \in DOMAIN g : i \notin DOMAIN f /\ ~ g[i].subshell => 2 \in DOMAIN s /\ IsSub(s, 2)
    PROVE  Layers(g, r, x)
<1>1. Framed(f, s) /\ Blocks(f, s) /\ Execs(f, s) /\ Subshells(f, s) /\ Returns(f, s, w)
  BY DEF Layers
<1>2. /\ Len(f) \in Nat /\ DOMAIN r = DOMAIN s /\ 1 \in DOMAIN s /\ DOMAIN s = 1..Len(s) /\ Len(s) \in Nat
      /\ \A i \in DOMAIN f : i \in DOMAIN g /\ i \in Nat /\ i <= Len(f)
      /\ \A i \in DOMAIN g : i \in Nat /\ (i \in DOMAIN f <=> i <= Len(f))
      /\ \A k \in DOMAIN s : k \in Nat /\ k >= 1 /\ s[k].topfd \in Nat /\ s[k].topfd <= Len(f)
  BY <1>1, GrowsFacts
<1>3. Framed(g, r) /\ Returns(g, r, x)
  BY <1>1, GrowsFramed, GrowsReturns
<1>4. /\ \A k \in DOMAIN s : /\ r[k].kind = s[k].kind /\ r[k].redirect = s[k].redirect
                             /\ r[k].topfd = s[k].topfd
      /\ \A i \in DOMAIN f : /\ g[i].orig = f[i].orig /\ g[i].subshell = f[i].subshell
                             /\ g[i].was = f[i].was
  BY <1>2 DEF Grows
<1>5. Blocks(g, r)
  <2>1. SUFFICES ASSUME NEW k \in DOMAIN s, IsBlock(s, k)
                 PROVE  /\ \A i \in Own(g, r, k) : g[i].orig \in DOMAIN r[k].before
                                                   /\ g[i].was = r[k].before[g[i].orig]
                        /\ \A n \in DOMAIN r[k].before : \E i \in Own(g, r, k) : g[i].orig = n
                        /\ \A i, j \in Own(g, r, k) : g[i].orig = g[j].orig => i = j
                        /\ r[k].redirect => Own(g, r, k) = Part(g, r, k)
    BY <1>2, <1>4 DEF Blocks, IsBlock
  <2>2. k # 1
    BY <2>1 DEF IsBlock
  <2>3. k > 1
    BY <1>2, <2>2
  <2>4. QED
    BY <1>1, <2>1, <2>3, GrowsOuter
<1>6. Execs(g, r)
  <2>1. SUFFICES ASSUME NEW k \in DOMAIN s, s[k].kind = "exec", NEW i \in Own(g, r, k)
                 PROVE  2 \in DOMAIN s /\ IsSub(s, 2)
    <3>1. \A m \in DOMAIN s : r[m].kind = s[m].kind
      BY <1>4
    <3>2. IsSub(s, 2) /\ 2 \in DOMAIN s => IsSub(r, 2)
      BY <3>1 DEF IsSub
    <3>3. QED
      BY <1>2, <3>1, <3>2 DEF Execs
  <2>2. k = 1
    BY <1>1, <2>1 DEF Framed
  <2>3. i \in DOMAIN g /\ ~ g[i].subshell /\ s[1].topfd < i
    BY <1>2, <1>4, <2>1, <2>2 DEF Own, Part
  <2>4. CASE i \in DOMAIN f
    <3>1. i \in Own(f, s, 1)
      BY <1>4, <2>3, <2>4 DEF Own, Part
    <3>2. QED
      BY <1>1, <1>2, <3>1 DEF Execs
  <2>5. CASE i \notin DOMAIN f
    BY <2>3, <2>5
  <2>6. QED
    BY <2>4, <2>5
<1>7. Subshells(g, r)
  <2>1. SUFFICES ASSUME NEW k \in DOMAIN s, IsSub(s, k)
                 PROVE  /\ \A n \in r[k].fdsaved : \E i \in DOMAIN g :
                              Owner(r, k, i) /\ g[i].subshell /\ g[i].orig = n
                        /\ \A i \in DOMAIN g : Owner(r, k, i) /\ g[i].subshell => First(g, r, k, i)
    BY <1>2, <1>4 DEF Subshells, IsSub
  <2>2. /\ \A n \in s[k].fdsaved : \E i \in DOMAIN f : Owner(s, k, i) /\ f[i].subshell /\ f[i].orig = n
        /\ \A i \in DOMAIN f : Owner(s, k, i) /\ f[i].subshell => First(f, s, k, i)
    BY <1>1, <2>1 DEF Subshells
  <2>3. /\ \A i : Owner(r, k, i) <=> Owner(s, k, i)
        /\ \A i \in DOMAIN f : First(g, r, k, i) <=> First(f, s, k, i)
    BY <1>1, GrowsFirst
  <2>4. \A m \in 1..k - 1 : m \in DOMAIN s
    BY <1>2
  <2>5. ASSUME NEW i \in DOMAIN g, i \notin DOMAIN f
        PROVE  Owner(s, k, i) <=> Innermost(s, k)
    <3>1. \A m \in DOMAIN s : s[m].topfd < i /\ ~ (i <= s[m].topfd)
      BY <1>2, <2>5
    <3>2. QED
      BY <2>1, <2>4, <3>1 DEF Owner, Innermost
  <2>6. ASSUME NEW n \in r[k].fdsaved
        PROVE  \E i \in DOMAIN g : Owner(r, k, i) /\ g[i].subshell /\ g[i].orig = n
    <3>1. CASE n \in s[k].fdsaved
      BY <1>2, <1>4, <2>2, <2>3, <3>1
    <3>2. CASE Innermost(s, k) /\ \E i \in DOMAIN g : i \notin DOMAIN f /\ g[i].subshell /\ g[i].orig = n
      BY <2>3, <2>5, <3>2
    <3>3. QED
      BY <2>6, <3>1, <3>2
  <2>7. ASSUME NEW i \in DOMAIN g, Owner(r, k, i), g[i].subshell
        PROVE  First(g, r, k, i)
    <3>1. CASE i \in DOMAIN f
      BY <1>4, <2>2, <2>3, <2>7, <3>1
    <3>2. CASE i \notin DOMAIN f
      BY <1>4, <2>3, <2>5, <2>7, <3>2 DEF First
    <3>3. QED
      BY <3>1, <3>2
  <2>8. QED
    BY <2>6, <2>7
<1>8. QED
  BY <1>3, <1>5, <1>6, <1>7 DEF Layers

(* The entries that g has beyond those of f. *)
Noted(f, g, ns, w, bottom, subshell) ==
    /\ g \in Seq(Save) /\ Len(f) <= Len(g)
    /\ \A i \in DOMAIN f : g[i].orig = f[i].orig /\ g[i].subshell = f[i].subshell /\ g[i].was = f[i].was
    /\ \A i \in DOMAIN g : i \notin DOMAIN f =>
          /\ g[i].orig \in ns /\ g[i].was = w[g[i].orig] /\ g[i].subshell = subshell
          /\ \A j \in DOMAIN g : bottom < j /\ j # i => g[j].orig # g[i].orig

Adds(t, n, oldtop, subshell, keep, w, bottom) ==
    LET g == sh_iosave(t, n, oldtop, subshell, keep).filemap
    IN  /\ Noted(t.filemap, g, {n}, w, bottom, subshell)
        /\ \E i \in DOMAIN g : oldtop < i /\ g[i].orig = n
        /\ ~ SavedSince(t, n, oldtop) =>
              \E i \in DOMAIN g : i \notin DOMAIN t.filemap /\ g[i].subshell = subshell /\ g[i].orig = n

LEMMA NotedIosave ==
    ASSUME NEW t \in Io, Sound(t), NEW n \in Fd, NEW oldtop \in Nat, oldtop <= Len(t.filemap),
           NEW subshell \in BOOLEAN, NEW keep \in BOOLEAN, Len(t.filemap) < MaxTop,
           keep \/ t.fd[n] = Closed \/ \E m \in High : t.fd[m] = Closed,
           NEW w, w[n] = IF keep THEN Closed ELSE t.fd[n],
           NEW bottom \in Nat, SavedSince(t, n, bottom) => SavedSince(t, n, oldtop)
    PROVE  Adds(t, n, oldtop, subshell, keep, w, bottom)
<1> DEFINE f == t.filemap
           s == sh_iosave(t, n, oldtop, subshell, keep)
           g == s.filemap
<1>1. f \in Seq(Save) /\ Len(f) \in Nat /\ DOMAIN f = 1..Len(f)
  BY IoFields
<1>2. s \in Io
  BY SoundIosave DEF Stays
<1>3. g \in Seq(Save)
  BY <1>2, IoFields
<1>4. CASE SavedSince(t, n, oldtop)
  <2>1. s = t
    BY <1>4, SoundIosave
  <2>2. PICK i \in oldtop + 1..Len(t.filemap) : t.filemap[i].orig = n
    BY <1>4 DEF SavedSince
  <2>3. i \in DOMAIN f /\ oldtop < i
    BY <1>1, <2>2
  <2>4. g = f
    BY <2>1
  <2> HIDE DEF s, g
  <2>5. Noted(f, g, {n}, w, bottom, subshell)
    BY <1>1, <1>3, <2>4 DEF Noted
  <2>6. QED
    BY <1>4, <2>2, <2>3, <2>4, <2>5 DEF Adds, g, s
<1>5. CASE ~ SavedSince(t, n, oldtop)
  <2>1. PICK save : s.filemap = Append(t.filemap, Entry(n, save, subshell, IF keep THEN Closed ELSE t.fd[n]))
    BY <1>5, SoundIosave
  <2> DEFINE e == Entry(n, save, subshell, IF keep THEN Closed ELSE t.fd[n])
  <2>2. e.orig = n /\ e.subshell = subshell /\ e.was = w[n]
    BY DEF Entry
  <2>3. g = Append(f, e)
    BY <2>1
  <2> HIDE DEF e, s, g, f
  <2>4. /\ Len(g) = Len(f) + 1 /\ DOMAIN g = 1..Len(f) + 1 /\ g[Len(f) + 1] = e
        /\ \A i \in DOMAIN f : g[i] = f[i]
    BY <1>1, <2>3
  <2> DEFINE i == Len(f) + 1
  <2>5. \A j \in DOMAIN g : j \notin DOMAIN f => j = i
    BY <1>1, <2>4
  <2>6. i \in DOMAIN g /\ i \notin DOMAIN f /\ oldtop < i /\ Len(f) <= Len(g)
    BY <1>1, <2>4 DEF f
  <2>7. ~ SavedSince(t, n, bottom)
    BY <1>5
  <2>8. \A j \in DOMAIN g : bottom < j /\ j # i => g[j].orig # n
    <3>1. SUFFICES ASSUME NEW j \in DOMAIN g, bottom < j, j # i
                   PROVE  g[j].orig # n
      OBVIOUS
    <3>2. j \in DOMAIN f /\ g[j] = f[j]
      BY <2>4, <2>5, <3>1
    <3>3. j \in bottom + 1..Len(f)
      BY <1>1, <3>1, <3>2
    <3>4. QED
      BY <2>7, <3>2, <3>3 DEF SavedSince, f
  <2> HIDE DEF i
  <2>9. g[i] = e
    BY <2>4 DEF i
  <2>10. Noted(f, g, {n}, w, bottom, subshell)
    BY <1>3, <2>2, <2>4, <2>5, <2>6, <2>8, <2>9 DEF Noted
  <2>11. QED
    BY <2>2, <2>6, <2>9, <2>10 DEF Adds, f, g, s
<1>6. QED
  BY <1>4, <1>5

(* The two ways in which it is used. *)
LEMMA NotedCopied ==
    ASSUME NEW t \in Io, Sound(t), NEW n \in Fd, NEW oldtop \in Nat, oldtop <= Len(t.filemap),
           Len(t.filemap) < MaxTop, \E m \in High : t.fd[m] = Closed, NEW w, w[n] = t.fd[n],
           NEW bottom \in Nat, SavedSince(t, n, bottom) => SavedSince(t, n, oldtop)
    PROVE  Adds(t, n, oldtop, FALSE, FALSE, w, bottom) /\ Adds(t, n, oldtop, TRUE, FALSE, w, bottom)
<1>1. \A subshell, keep \in BOOLEAN :
          w[n] = (IF keep THEN Closed ELSE t.fd[n]) => Adds(t, n, oldtop, subshell, keep, w, bottom)
  <2>1. SUFFICES ASSUME NEW subshell \in BOOLEAN, NEW keep \in BOOLEAN,
                        w[n] = (IF keep THEN Closed ELSE t.fd[n])
                 PROVE  Adds(t, n, oldtop, subshell, keep, w, bottom)
    OBVIOUS
  <2>2. keep \/ t.fd[n] = Closed \/ \E m \in High : t.fd[m] = Closed
    OBVIOUS
  <2>3. QED
    BY <2>1, <2>2, NotedIosave
<1>2. w[n] = (IF FALSE THEN Closed ELSE t.fd[n])
  OBVIOUS
<1>3. QED
  BY <1>1, <1>2, Zenon

LEMMA NotedKept ==
    ASSUME NEW t \in Io, Sound(t), NEW n \in Fd, NEW oldtop \in Nat, oldtop <= Len(t.filemap),
           Len(t.filemap) < MaxTop, NEW w, w[n] = Closed,
           NEW bottom \in Nat, SavedSince(t, n, bottom) => SavedSince(t, n, oldtop)
    PROVE  Adds(t, n, oldtop, FALSE, TRUE, w, bottom)
<1>1. \A subshell, keep \in BOOLEAN :
          keep = TRUE => Adds(t, n, oldtop, subshell, keep, w, bottom)
  <2>1. SUFFICES ASSUME NEW subshell \in BOOLEAN, NEW keep \in BOOLEAN, keep = TRUE
                 PROVE  Adds(t, n, oldtop, subshell, keep, w, bottom)
    OBVIOUS
  <2>2. /\ keep \/ t.fd[n] = Closed \/ \E m \in High : t.fd[m] = Closed
        /\ w[n] = (IF keep THEN Closed ELSE t.fd[n])
    BY <2>1
  <2>3. QED
    BY <2>1, <2>2, NotedIosave
<1>2. QED
  BY <1>1, Zenon

LEMMA NotedThrough ==
    ASSUME NEW f \in Seq(Save), NEW g, NEW h, NEW ns, NEW ms, NEW w, NEW x, NEW bottom \in Nat, NEW subshell,
           Noted(f, g, ns, w, bottom, subshell), Noted(g, h, ms, x, bottom, subshell),
           bottom <= Len(f), \A n \in ms : x[n] = w[n]
    PROVE  Noted(f, h, ns \cup ms, w, bottom, subshell)
<1>1. /\ g \in Seq(Save) /\ h \in Seq(Save) /\ Len(f) <= Len(g) /\ Len(g) <= Len(h)
      /\ Len(f) \in Nat /\ Len(g) \in Nat /\ Len(h) \in Nat
      /\ DOMAIN f = 1..Len(f) /\ DOMAIN g = 1..Len(g) /\ DOMAIN h = 1..Len(h)
  BY DEF Noted
<1>2. /\ \A i \in DOMAIN f : i \in DOMAIN g
      /\ \A i \in DOMAIN g : i \in DOMAIN h
      /\ \A i \in DOMAIN h : i \notin DOMAIN f => bottom < i
      /\ Len(f) <= Len(h)
  BY <1>1
<1>3. /\ \A i \in DOMAIN f : g[i].orig = f[i].orig /\ g[i].subshell = f[i].subshell /\ g[i].was = f[i].was
      /\ \A i \in DOMAIN g : i \notin DOMAIN f =>
            /\ g[i].orig \in ns /\ g[i].was = w[g[i].orig] /\ g[i].subshell = subshell
            /\ \A j \in DOMAIN g : bottom < j /\ j # i => g[j].orig # g[i].orig
  BY DEF Noted
<1>4. /\ \A i \in DOMAIN g : h[i].orig = g[i].orig /\ h[i].subshell = g[i].subshell /\ h[i].was = g[i].was
      /\ \A i \in DOMAIN h : i \notin DOMAIN g =>
            /\ h[i].orig \in ms /\ h[i].was = x[h[i].orig] /\ h[i].subshell = subshell
            /\ \A j \in DOMAIN h : bottom < j /\ j # i => h[j].orig # h[i].orig
  BY DEF Noted
<1>5. \A i \in DOMAIN f : h[i].orig = f[i].orig /\ h[i].subshell = f[i].subshell /\ h[i].was = f[i].was
  BY <1>2, <1>3, <1>4
<1>6. ASSUME NEW i \in DOMAIN h, i \notin DOMAIN f
      PROVE  /\ h[i].orig \in ns \cup ms /\ h[i].was = w[h[i].orig] /\ h[i].subshell = subshell
             /\ \A j \in DOMAIN h : bottom < j /\ j # i => h[j].orig # h[i].orig
  <2>1. CASE i \in DOMAIN g
    <3>1. h[i].orig \in ns \cup ms /\ h[i].was = w[h[i].orig] /\ h[i].subshell = subshell
      BY <1>3, <1>4, <1>6, <2>1
    <3>2. ASSUME NEW j \in DOMAIN h, bottom < j, j # i
          PROVE  h[j].orig # h[i].orig
      <4>1. CASE j \in DOMAIN g
        BY <1>3, <1>4, <1>6, <2>1, <3>2, <4>1
      <4>2. CASE j \notin DOMAIN g
        BY <1>2, <1>4, <1>6, <2>1, <3>2, <4>2
      <4>3. QED
        BY <4>1, <4>2
    <3>3. QED
      BY <3>1, <3>2
  <2>2. CASE i \notin DOMAIN g
    BY <1>4, <1>6, <2>2
  <2>3. QED
    BY <2>1, <2>2
<1>7. QED
  BY <1>1, <1>2, <1>5, <1>6 DEF Noted

(* What the list of redirections of a block or function does, as for filemap. *)
LEMMA LayerBlock ==
    ASSUME TypeOK, Layered, Redirecting, IsBlock(stack, 1), NEW ns \in SUBSET Fd,
           stack' = Note(ns), forks' = forks,
           Noted(io.filemap, io'.filemap, ns, View(io), stack[1].topfd, FALSE),
           \A n \in ns : \E i \in DOMAIN io'.filemap : stack[1].topfd < i /\ io'.filemap[i].orig = n,
           \A n \in Fd : n \notin ns => View(io)'[n] = View(io)[n]
    PROVE  Layered'
<1> DEFINE f == io.filemap
           s == stack
           w == View(io)
           g == io'.filemap
           r == stack'
           x == View(io)'
<1>1. /\ s # <<>> /\ 1 \in DOMAIN s /\ s \in Seq(Frame) /\ s[1].kind # "exec" /\ s[1].redirect
      /\ f \in Seq(Save) /\ w \in [Fd -> File \cup {Closed}]
      /\ \A k \in DOMAIN s : k \in Nat /\ k >= 1 /\ s[k].topfd \in Nat
  BY StackFacts, Indices DEF Redirecting, IsBlock
<1>2. /\ r \in Seq(Frame) /\ Len(r) = Len(s) /\ DOMAIN r = DOMAIN s
      /\ \A k \in DOMAIN s :
            /\ r[k].kind = s[k].kind /\ r[k].redirect = s[k].redirect /\ r[k].topfd = s[k].topfd
            /\ r[k].fdsaved = s[k].fdsaved
            /\ r[k].before = IF k = 1 THEN Over(s[k].before, [n \in ns |-> w[n]]) ELSE s[k].before
  BY <1>1, NoteFacts
<1>3. Layers(f, s, w) /\ (forks = 0 => Rooted(f, s))
  BY DEF Layered
<1>4. Framed(f, s)
  BY <1>3 DEF Layers
<1>5. \A k \in DOMAIN s : s[k].topfd <= s[1].topfd
  BY <1>1, <1>4 DEF Framed
<1>6. /\ g \in Seq(Save) /\ Len(f) <= Len(g)
      /\ \A i \in DOMAIN f : g[i].orig = f[i].orig /\ g[i].subshell = f[i].subshell /\ g[i].was = f[i].was
      /\ \A i \in DOMAIN g : i \notin DOMAIN f =>
            /\ g[i].orig \in ns /\ g[i].was = w[g[i].orig] /\ ~ g[i].subshell
            /\ \A j \in DOMAIN g : s[1].topfd < j /\ j # i => g[j].orig # g[i].orig
  BY DEF Noted
<1> HIDE DEF f, s, w, g, r, x
<1>7. \A n \in ns : \E i \in DOMAIN g : s[1].topfd < i /\ g[i].orig = n
  BY DEF g, s
<1>8. Grows(f, s, w, g, r, x, ns)
  <2>1. ASSUME NEW n \in ns, NEW k \in DOMAIN s
        PROVE  \E i \in DOMAIN g : s[k].topfd < i /\ g[i].orig = n
    <3>1. PICK i \in DOMAIN g : s[1].topfd < i /\ g[i].orig = n
      BY <1>7
    <3>2. s[k].topfd < i
      <4>1. i \in Nat
        BY <1>6
      <4>2. QED
        BY <1>1, <1>5, <3>1, <4>1
    <3>3. QED
      BY <3>1, <3>2
  <2>2. \A n \in Fd : n \notin ns => x[n] = w[n]
    BY DEF x, w
  <2>3. IsBlock(s, 1)
    BY DEF s
  <2>4. QED
    BY <1>1, <1>2, <1>6, <2>1, <2>2, <2>3 DEF Grows
<1>9. Layers(g, r, x)
  <2>1. /\ IsBlock(s, 1) /\ s[1].redirect /\ \A k \in DOMAIN s : r[k].fdsaved = s[k].fdsaved
    BY <1>1, <1>2 DEF s
  <2>2. /\ DOMAIN r[1].before = DOMAIN s[1].before \cup ns
        /\ \A n \in DOMAIN s[1].before : r[1].before[n] = s[1].before[n]
        /\ \A n \in ns : n \notin DOMAIN s[1].before => r[1].before[n] = w[n]
    <3> DEFINE b == s[1].before
               h == [n \in ns |-> w[n]]
    <3>1. h \in [ns -> File \cup {Closed}] /\ DOMAIN h = ns /\ \A n \in ns : h[n] = w[n]
      BY <1>1
    <3>2. r[1].before = Over(b, h)
      BY <1>1, <1>2
    <3> HIDE DEF b, h
    <3>3. b \in PartialFd
      BY <1>1, FrameFields DEF b
    <3>4. h \in PartialFd
      BY <3>1, Partial
    <3>5. /\ DOMAIN Over(b, h) = DOMAIN b \cup DOMAIN h
          /\ \A n \in DOMAIN b : Over(b, h)[n] = b[n]
          /\ \A n \in DOMAIN h : n \notin DOMAIN b => Over(b, h)[n] = h[n]
      BY Zenon, <3>3, <3>4, OverValues
    <3>6. QED
      BY Zenon, <3>1, <3>2, <3>5 DEF b
  <2>3. QED
    BY <1>1, <1>3, <1>6, <1>7, <1>8, <2>1, <2>2, GrowsBlock
<1>10. forks = 0 => Rooted(g, r)
  BY <1>3, <1>4, <1>6, <1>8, GrowsRooted
<1>11. QED
  BY <1>9, <1>10 DEF Layered, g, r, x

LEMMA InnermostIs ==
    ASSUME TypeOK, Virtual
    PROVE  /\ Innermost(stack, Sub) /\ Sub \in DOMAIN stack
           /\ \A k \in DOMAIN stack : Innermost(stack, k) => k = Sub
           /\ \A k \in DOMAIN stack : IsSub(stack, k) => Sub <= k
<1>1. /\ Sub \in DOMAIN stack /\ Sub \in Nat /\ IsSub(stack, Sub)
      /\ \A k \in DOMAIN stack : IsSub(stack, k) => Sub <= k
  BY SubFacts DEF Subs, IsSub
<1>2. DOMAIN stack = 1..Len(stack) /\ Len(stack) \in Nat
  BY StackFacts
<1>3. \A m \in 1..Sub - 1 : ~ IsSub(stack, m)
  <2>1. \A m \in 1..Sub - 1 : m \in DOMAIN stack /\ ~ (Sub <= m)
    BY <1>1, <1>2
  <2>2. QED
    BY <1>1, <2>1
<1>4. ASSUME NEW k \in DOMAIN stack, Innermost(stack, k)
      PROVE  k = Sub
  <2>1. Sub <= k
    BY <1>1, <1>4 DEF Innermost
  <2>2. Sub \in 1..k - 1 \/ Sub = k
    BY <1>1, <1>2, <2>1
  <2>3. QED
    BY <1>1, <1>4, <2>2 DEF Innermost
<1>5. QED
  BY <1>1, <1>3, <1>4 DEF Innermost

(* The same of exec in a subshell. *)
SavedNow(f, g, n) == \E i \in DOMAIN g : i \notin DOMAIN f /\ g[i].subshell /\ g[i].orig = n

LEMMA LayerExec ==
    ASSUME TypeOK, Layered, Redirecting, stack[1].kind = "exec", Virtual, NEW n \in Fd,
           NEW ns \in SUBSET Fd, \A m : m \in ns <=> m = n,
           stack' = Note(ns), forks' = forks, NEW bottom \in Nat, NEW subshell \in BOOLEAN,
           Noted(io.filemap, io'.filemap, ns, View(io), bottom, subshell),
           subshell = TRUE => bottom = stack[Sub].topfd, subshell = FALSE => Sub = 2,
           \E i \in DOMAIN io'.filemap : stack[Sub].topfd < i /\ io'.filemap[i].orig = n,
           n \in Low /\ n \notin stack[Sub].fdsaved => SavedNow(io.filemap, io'.filemap, n),
           \A m \in Fd : m # n => View(io)'[m] = View(io)[m]
    PROVE  Layered'
<1> DEFINE f == io.filemap
           s == stack
           w == View(io)
           g == io'.filemap
           r == stack'
           x == View(io)'
           o == Sub
<1>1. /\ s # <<>> /\ 1 \in DOMAIN s /\ s \in Seq(Frame)
      /\ f \in Seq(Save)
      /\ \A k \in DOMAIN s : k \in Nat /\ k >= 1 /\ s[k].topfd \in Nat
  BY StackFacts, Indices DEF Redirecting
<1>2. /\ r \in Seq(Frame) /\ Len(r) = Len(s) /\ DOMAIN r = DOMAIN s
      /\ \A k \in DOMAIN s :
            /\ r[k].kind = s[k].kind /\ r[k].redirect = s[k].redirect /\ r[k].topfd = s[k].topfd
            /\ r[k].fdsaved = IF k = o THEN s[k].fdsaved \cup (ns \cap Low) ELSE s[k].fdsaved
            /\ r[k].before = s[k].before
  BY <1>1, NoteFacts
<1>3. Layers(f, s, w) /\ (forks = 0 => Rooted(f, s))
  BY DEF Layered
<1>4. Framed(f, s)
  BY <1>3 DEF Layers
<1>5. /\ Innermost(s, o) /\ o \in DOMAIN s /\ IsSub(s, o)
      /\ \A k \in DOMAIN s : Innermost(s, k) => k = o
      /\ \A k \in DOMAIN s : IsSub(s, k) => o <= k
  BY InnermostIs DEF Innermost
<1> HIDE DEF o
<1>6. \A k \in DOMAIN s : IsSub(s, k) => s[k].topfd <= s[o].topfd
  <2>1. \A k \in DOMAIN s : o < k => s[k].topfd <= s[o].topfd
    BY <1>4, <1>5 DEF Framed
  <2>2. \A k \in DOMAIN s : IsSub(s, k) => o < k \/ o = k
    BY <1>1, <1>5
  <2>3. s[o].topfd <= s[o].topfd
    BY <1>1, <1>5
  <2>4. QED
    BY <2>1, <2>2, <2>3
<1>7. /\ g \in Seq(Save) /\ Len(f) <= Len(g)
      /\ \A i \in DOMAIN f : g[i].orig = f[i].orig /\ g[i].subshell = f[i].subshell /\ g[i].was = f[i].was
      /\ \A i \in DOMAIN g : i \notin DOMAIN f =>
            /\ g[i].orig = n /\ g[i].was = w[g[i].orig] /\ g[i].subshell = subshell
            /\ \A j \in DOMAIN g : bottom < j /\ j # i => g[j].orig # g[i].orig
  BY DEF Noted
<1>8. /\ subshell = TRUE => bottom = s[o].topfd
      /\ subshell = FALSE => o = 2
      /\ \E i \in DOMAIN g : s[o].topfd < i /\ g[i].orig = n
      /\ n \in Low /\ n \notin s[o].fdsaved => SavedNow(f, g, n)
      /\ \A m \in Fd : m # n => x[m] = w[m]
      /\ s[1].kind = "exec"
  BY DEF o
<1> HIDE DEF f, s, w, g, r, x
<1>9. Grows(f, s, w, g, r, x, ns)
  <2>1. ASSUME NEW k \in DOMAIN s, IsSub(s, k)
        PROVE  \E i \in DOMAIN g : s[k].topfd < i /\ g[i].orig = n
    <3>1. PICK i \in DOMAIN g : s[o].topfd < i /\ g[i].orig = n
      BY <1>8
    <3>2. s[k].topfd < i
      <4>1. i \in Nat
        BY <1>7
      <4>2. QED
        BY <1>1, <1>5, <1>6, <2>1, <3>1, <4>1
    <3>3. QED
      BY <3>1, <3>2
  <2>2. \A i \in DOMAIN g : i \notin DOMAIN f => g[i].orig \in ns /\ g[i].was = w[g[i].orig]
    BY <1>7
  <2>3. \A m \in ns : \A k \in DOMAIN s : IsSub(s, k) => \E i \in DOMAIN g : s[k].topfd < i /\ g[i].orig = m
    BY <2>1
  <2>4. \A m \in Fd : m \notin ns => x[m] = w[m]
    BY <1>8
  <2>5. /\ g \in Seq(Save) /\ Len(f) <= Len(g)
        /\ \A i \in DOMAIN f : g[i].orig = f[i].orig /\ g[i].subshell = f[i].subshell /\ g[i].was = f[i].was
    BY <1>7
  <2>6. \A k \in DOMAIN s :
          /\ r[k].kind = s[k].kind /\ r[k].redirect = s[k].redirect /\ r[k].topfd = s[k].topfd
          /\ r[k].before = s[k].before
    BY <1>2
  <2>7. QED
    BY <1>1, <1>2, <2>2, <2>3, <2>4, <2>5, <2>6 DEF Grows
<1>10. \A k \in DOMAIN s : \A m \in r[k].fdsaved : m \in s[k].fdsaved \/
          (Innermost(s, k) /\ \E i \in DOMAIN g : i \notin DOMAIN f /\ g[i].subshell /\ g[i].orig = m)
  <2>1. SUFFICES ASSUME NEW k \in DOMAIN s, NEW m \in r[k].fdsaved, m \notin s[k].fdsaved
                 PROVE  Innermost(s, k) /\ SavedNow(f, g, m)
    BY DEF SavedNow
  <2>2. k = o /\ m \in ns \cap Low
    BY <1>2, <2>1
  <2>3. m = n
    BY <2>2
  <2>4. QED
    BY <1>5, <1>8, <2>1, <2>2, <2>3
<1>11. \A i \in DOMAIN g : i \notin DOMAIN f /\ g[i].subshell =>
          \A k \in DOMAIN s : Innermost(s, k) =>
             \A j \in DOMAIN g : s[k].topfd < j /\ j < i => g[j].orig # g[i].orig
  <2>1. SUFFICES ASSUME NEW i \in DOMAIN g, i \notin DOMAIN f, g[i].subshell,
                        NEW k \in DOMAIN s, Innermost(s, k), NEW j \in DOMAIN g, s[k].topfd < j, j < i
                 PROVE  g[j].orig # g[i].orig
    OBVIOUS
  <2>2. k = o /\ subshell = TRUE /\ i \in Nat /\ j \in Nat
    BY <1>5, <1>7, <2>1
  <2>3. bottom < j /\ j # i
    BY <1>8, <2>1, <2>2
  <2>4. \A h \in DOMAIN g : bottom < h /\ h # i => g[h].orig # g[i].orig
    BY <1>7, <2>1
  <2>5. QED
    BY <2>1, <2>3, <2>4
<1>12. \A i \in DOMAIN g : i \notin DOMAIN f /\ ~ g[i].subshell => 2 \in DOMAIN s /\ IsSub(s, 2)
  BY <1>5, <1>7, <1>8
<1>13. Layers(g, r, x)
  BY <1>3, <1>8, <1>9, <1>10, <1>11, <1>12, GrowsExec
<1>14. forks = 0 => Rooted(g, r)
  BY <1>3, <1>4, <1>5, <1>9, GrowsRooted
<1>15. QED
  BY <1>13, <1>14 DEF Layered, g, r, x

(* What changes nothing but what the program sees, outside of subshells. *)
LEMMA LayerPlain ==
    ASSUME TypeOK, Layered, ~ Virtual, stack' = stack, forks' = forks, io' \in Io,
           Alike(io'.filemap, io.filemap)
    PROVE  Layered'
<1> DEFINE f == io.filemap
           s == stack
           w == View(io)
           g == io'.filemap
           x == View(io)'
<1>1. f \in Seq(Save) /\ g \in Seq(Save)
  BY Indices, IoFields
<1>2. Layers(f, s, w) /\ (forks = 0 => Rooted(f, s)) /\ \A k \in DOMAIN s : ~ IsSub(s, k)
  BY DEF Layered, Virtual, Subs, IsSub
<1>3. Alike(g, f)
  OBVIOUS
<1> HIDE DEF f, s, w, g, x
<1>4. /\ Len(g) = Len(f) /\ DOMAIN g = DOMAIN f
      /\ \A i \in DOMAIN f : g[i].orig = f[i].orig /\ g[i].subshell = f[i].subshell /\ g[i].was = f[i].was
  BY <1>1, <1>3, AlikeFacts DEF Alike
<1>5. \A k : Part(g, s, k) = Part(f, s, k) /\ Own(g, s, k) = Own(f, s, k)
  BY <1>4 DEF Part, Own
<1>6. Framed(g, s)
  BY <1>2, <1>4 DEF Layers, Framed
<1>7. Blocks(g, s)
  <2>1. \A k : \A i \in Own(f, s, k) : i \in DOMAIN f
    BY DEF Own, Part
  <2>2. Blocks(f, s)
    BY <1>2 DEF Layers
  <2>3. QED
    BY <1>4, <1>5, <2>1, <2>2 DEF Blocks
<1>8. Execs(g, s)
  BY <1>2, <1>5 DEF Layers, Execs
<1>9. Subshells(g, s) /\ Returns(g, s, x)
  BY <1>2 DEF Subshells, Returns
<1>10. forks = 0 => Rooted(g, s)
  <2>1. forks = 0 /\ s = <<>> => g = <<>>
    <3>1. f = <<>> => g = <<>>
      BY <1>1, <1>4
    <3>2. QED
      BY <1>2, <3>1 DEF Rooted
  <2>2. QED
    BY <1>2, <1>4, <2>1 DEF Rooted
<1>11. QED
  BY <1>6, <1>7, <1>8, <1>9, <1>10 DEF Layered, Layers, g, s, x

--------------------------------------------------------------------------------
(* The steps of a list of redirections. *)

LEMMA Heads ==
    ASSUME TypeOK, Layered, Redirecting
    PROVE  /\ Head(stack) = stack[1] /\ stack # <<>> /\ 1 \in DOMAIN stack
           /\ stack[1].topfd \in Nat /\ stack[1].topfd <= Len(io.filemap)
           /\ stack[1].kind = "exec" \/ IsBlock(stack, 1)
           /\ stack[1].kind = "exec" => ~ IsBlock(stack, 1)
           /\ io \in Io /\ Len(io.filemap) \in Nat
           /\ Virtual => /\ Sub \in DOMAIN stack /\ stack[Sub].topfd \in Nat
                         /\ stack[Sub].topfd <= stack[1].topfd
<1>1. /\ Head(stack) = stack[1] /\ stack # <<>> /\ 1 \in DOMAIN stack /\ stack[1] \in Frame /\ stack[1].redirect
  BY StackFacts DEF Redirecting
<1>2. io \in Io /\ Len(io.filemap) \in Nat /\ \A k \in DOMAIN stack : stack[k].topfd \in Nat /\ k \in Nat /\ k >= 1
  BY Indices
<1>3. Framed(io.filemap, stack)
  BY DEF Layered, Layers
<1>4. stack[1].topfd <= Len(io.filemap) /\ stack[1].kind # "sub"
  BY <1>1, <1>3 DEF Framed
<1>5. stack[1].kind = "exec" \/ IsBlock(stack, 1)
  BY <1>1, <1>4, FrameFields DEF IsBlock
<1>6. ASSUME Virtual
      PROVE  /\ Sub \in DOMAIN stack /\ stack[Sub].topfd \in Nat
             /\ stack[Sub].topfd <= stack[1].topfd
  <2>1. Sub \in DOMAIN stack /\ Sub \in Nat /\ stack[Sub].kind = "sub"
    BY <1>6, SubFacts
  <2>2. 1 < Sub
    BY <1>2, <1>4, <2>1
  <2>3. QED
    BY <1>1, <1>2, <1>3, <2>1, <2>2 DEF Framed
<1>7. QED
  BY <1>1, <1>2, <1>4, <1>5, <1>6 DEF IsBlock

(* Outside of subshells exec notes nothing. *)
LEMMA NoteNothing ==
    ASSUME TypeOK, stack # <<>>, stack[1].kind = "exec", ~ Virtual, NEW ns \in SUBSET Fd
    PROVE  Note(ns) = stack
<1>1. Head(stack) = stack[1] /\ stack \in Seq(Frame)
  BY StackFacts
<1>2. Note(ns) = [i \in DOMAIN stack |-> stack[i]]
  BY <1>1 DEF Note
<1>3. QED
  BY <1>1, <1>2

LEMMA SavedHolds ==
    ASSUME NEW t \in Io, Sound(t), NEW n \in Fd, Len(t.filemap) < MaxTop, \E m \in High : t.fd[m] = Closed
    PROVE  Stays(t, Saved(t, n))
<1>1. CASE Saved(t, n) = t
  BY <1>1 DEF Stays
<1>2. CASE \E subshell \in BOOLEAN : Saved(t, n) = sh_iosave(t, n, Head(stack).topfd, subshell, FALSE)
  <2>1. \A subshell, keep \in BOOLEAN : Stays(t, sh_iosave(t, n, Head(stack).topfd, subshell, keep))
    BY SoundIosave
  <2>2. \A subshell \in BOOLEAN : Stays(t, sh_iosave(t, n, Head(stack).topfd, subshell, FALSE))
    BY <2>1, Zenon
  <2>3. QED
    BY <1>2, <2>2
<1>3. QED
  BY <1>1, <1>2, SavedIs

(* n>file and n>&-, as for filemap. *)
LEMMA LayerLow ==
    ASSUME TypeOK, Layered, Sound(io), Redirecting, Room, NEW n \in Low, ~ Nested(n),
           io' \in Io, io'.filemap = Saved(io, n).filemap, stack' = Note({n}), forks' = forks,
           \A m \in Fd : m # n => View(io)'[m] = View(io)[m]
    PROVE  Layered'
<1> DEFINE w == View(io)
           b == stack[1].topfd
<1>1. /\ Head(stack) = stack[1] /\ stack # <<>> /\ b \in Nat /\ b <= Len(io.filemap)
      /\ stack[1].kind = "exec" \/ IsBlock(stack, 1)
      /\ stack[1].kind = "exec" => ~ IsBlock(stack, 1)
      /\ io \in Io /\ Len(io.filemap) \in Nat
  BY Heads
<1>2. Len(io.filemap) < MaxTop /\ \E m \in High : io.fd[m] = Closed
  BY RoomFacts, Numbers
<1>3. n \in Fd /\ w[n] = io.fd[n]
  BY <1>1, ViewFacts DEF Fd
<1> HIDE DEF w, b
<1>4. PICK ns \in SUBSET Fd : ns = {n}
  BY <1>3
<1>5. stack' = Note(ns) /\ \A m : m \in ns <=> m = n
  BY <1>4
<1>6. CASE IsBlock(stack, 1)
  <2>1. Adds(io, n, b, FALSE, FALSE, w, b)
    BY <1>1, <1>2, <1>3, NotedCopied
  <2>2. io'.filemap = sh_iosave(io, n, b, FALSE, FALSE).filemap
    BY <1>1, <1>6 DEF Saved, b
  <2>3. /\ Noted(io.filemap, io'.filemap, ns, w, b, FALSE)
        /\ \E i \in DOMAIN io'.filemap : b < i /\ io'.filemap[i].orig = n
    BY <1>4, <2>1, <2>2 DEF Adds
  <2>4. /\ \A m \in ns : \E i \in DOMAIN io'.filemap : b < i /\ io'.filemap[i].orig = m
        /\ \A m \in Fd : m \notin ns => View(io)'[m] = View(io)[m]
    BY <1>5, <2>3
  <2>5. QED
    BY <1>5, <1>6, <2>3, <2>4, LayerBlock DEF w, b
<1>7. CASE stack[1].kind = "exec" /\ ~ Virtual
  <2>1. io'.filemap = io.filemap
    BY <1>1, <1>7 DEF Saved, sh_subsavefd
  <2>2. stack' = stack
    BY <1>1, <1>5, <1>7, NoteNothing
  <2>3. Alike(io'.filemap, io.filemap)
    BY <2>1 DEF Alike
  <2>4. QED
    BY <1>7, <2>2, <2>3, LayerPlain
<1>8. CASE stack[1].kind = "exec" /\ Virtual
  <2> DEFINE a == stack[Sub].topfd
  <2>1. Sub \in DOMAIN stack /\ a \in Nat /\ a <= b
    BY <1>8, Heads DEF b
  <2>2. \A m \in Fd : m # n => View(io)'[m] = View(io)[m]
    OBVIOUS
  <2> HIDE DEF a
  <2>3. /\ Noted(io.filemap, io'.filemap, ns, w, a, TRUE)
        /\ \E i \in DOMAIN io'.filemap : a < i /\ io'.filemap[i].orig = n
        /\ n \in Low /\ n \notin stack[Sub].fdsaved => SavedNow(io.filemap, io'.filemap, n)
    <3>1. CASE n \in stack[Sub].fdsaved
      <4>1. io'.filemap = io.filemap
        BY <1>1, <1>8, <3>1 DEF Saved, sh_subsavefd
      <4>2. \E i \in DOMAIN io.filemap : Owner(stack, Sub, i) /\ io.filemap[i].orig = n
        <5>1. IsSub(stack, Sub) /\ Subshells(io.filemap, stack)
          BY <1>8, InnermostIs DEF Layered, Layers, Innermost
        <5>2. QED
          BY <2>1, <3>1, <5>1 DEF Subshells
      <4>3. \E i \in DOMAIN io.filemap : a < i /\ io.filemap[i].orig = n
        BY <4>2 DEF Owner, a
      <4>4. io.filemap \in Seq(Save) /\ Len(io.filemap) <= Len(io.filemap)
        BY <1>1, IoFields
      <4>5. Noted(io.filemap, io'.filemap, ns, w, a, TRUE)
        BY <4>1, <4>4 DEF Noted
      <4>6. QED
        BY <3>1, <4>1, <4>3, <4>5
    <3>2. CASE n \notin stack[Sub].fdsaved
      <4>1. sh_subsavefd(n)
        BY <1>8, <3>2 DEF sh_subsavefd
      <4>2. io'.filemap = sh_iosave(io, n, b, TRUE, FALSE).filemap
        BY <1>1, <1>8, <4>1 DEF Saved, b
      <4>3. ~ SavedSince(io, n, a)
        BY <1>1, <1>8, <4>1 DEF Nested, a
      <4>4. ~ SavedSince(io, n, b)
        <5>1. \A i \in b + 1..Len(io.filemap) : i \in a + 1..Len(io.filemap)
          BY <1>1, <2>1
        <5>2. QED
          BY <4>3, <5>1 DEF SavedSince
      <4>5. Adds(io, n, b, TRUE, FALSE, w, a)
        BY <1>1, <1>2, <1>3, <2>1, <4>3, NotedCopied
      <4>6. /\ Noted(io.filemap, io'.filemap, ns, w, a, TRUE)
            /\ \E i \in DOMAIN io'.filemap : b < i /\ io'.filemap[i].orig = n
            /\ SavedNow(io.filemap, io'.filemap, n)
        BY <1>4, <4>2, <4>4, <4>5 DEF Adds, SavedNow
      <4>7. \E i \in DOMAIN io'.filemap : a < i /\ io'.filemap[i].orig = n
        <5>1. PICK i \in DOMAIN io'.filemap : b < i /\ io'.filemap[i].orig = n
          BY <4>6
        <5>2. i \in Nat
          BY <5>1, MapFacts
        <5>3. a < i
          BY <1>1, <2>1, <5>1, <5>2
        <5>4. QED
          BY <5>1, <5>3
      <4>8. QED
        BY <4>6, <4>7
    <3>3. QED
      BY <3>1, <3>2
  <2>4. QED
    BY <1>3, <1>5, <1>8, <2>1, <2>2, <2>3, LayerExec DEF a, w
<1>9. QED
  BY <1>1, <1>6, <1>7, <1>8

LEMMA NotNested ==
    ASSUME NEW n, Lapses("nested", Nested(n)), Faithful'
    PROVE  ~ Nested(n) /\ lapse' = lapse
BY DEF Lapses, Faithful

LEMMA HeldKept ==
    ASSUME Held, Sound(io)', Exact(io) => Exact(io)', lapse' = {} => lapse = {}
    PROVE  Held'
BY DEF Held

(* n>file *)
LEMMA StepRedirect ==
    ASSUME TypeOK, Held, Layered, Faithful', NEW n \in Low, NEW file \in File \cup {Closed}, Redirect(n, file)
    PROVE  Held' /\ Layered'
<1> DEFINE s == Saved(io, n)
<1>1. /\ io \in Io /\ Room /\ Redirecting /\ stack' = Note({n}) /\ forks' = forks /\ n \in Fd
      /\ io' = [s EXCEPT !.fd[n] = file] /\ Sound(io)
  BY DEF TypeOK, Redirect, Held, Fd
<1>2. Len(io.filemap) < MaxTop /\ \E m \in High : io.fd[m] = Closed
  BY <1>1, RoomFacts, Numbers
<1>3. ~ Nested(n) /\ lapse' = lapse
  BY NotNested DEF Redirect
<1>4. Stays(io, s)
  BY <1>1, <1>2, SavedHolds
<1> HIDE DEF s
<1>5. s \in Io /\ Sound(s) /\ (Exact(io) => Exact(s)) /\ View(s) = View(io)
  BY <1>4 DEF Stays
<1>6. /\ io' \in Io /\ Sound(io') /\ (Exact(s) => Exact(io')) /\ io'.filemap = s.filemap
      /\ \A m \in Fd : View(io')[m] = IF m = n THEN file ELSE View(s)[m]
  BY <1>1, <1>5, SoundSetFd
<1>7. Held'
  BY <1>3, <1>5, <1>6, HeldKept
<1>8. Layered'
  <2>1. \A m \in Fd : m # n => View(io)'[m] = View(io)[m]
    BY <1>5, <1>6
  <2>2. QED
    BY <1>1, <1>3, <1>6, <2>1, LayerLow DEF s
<1>9. QED
  BY <1>7, <1>8

(* n>&- *)
LEMMA StepClose ==
    ASSUME TypeOK, Held, Layered, Faithful', NEW n \in Low, CloseFd(n)
    PROVE  Held' /\ Layered'
<1> DEFINE s == Saved(io, n)
<1>1. /\ io \in Io /\ Room /\ Redirecting /\ stack' = Note({n}) /\ forks' = forks /\ n \in Fd
      /\ io' = sh_close(s, n) /\ Sound(io)
  BY DEF TypeOK, CloseFd, Held, Fd
<1>2. Len(io.filemap) < MaxTop /\ \E m \in High : io.fd[m] = Closed
  BY <1>1, RoomFacts, Numbers
<1>3. ~ Nested(n) /\ lapse' = lapse
  BY NotNested DEF CloseFd
<1>4. Stays(io, s)
  BY <1>1, <1>2, SavedHolds
<1> HIDE DEF s
<1>5. s \in Io /\ Sound(s) /\ (Exact(io) => Exact(s)) /\ View(s) = View(io)
  BY <1>4 DEF Stays
<1>6. /\ io' \in Io /\ Sound(io') /\ (Exact(s) => Exact(io')) /\ io'.filemap = s.filemap
      /\ \A m \in Fd : View(io')[m] = IF m = n THEN Closed ELSE View(s)[m]
  BY <1>1, <1>5, SoundClose
<1>7. Held'
  BY <1>3, <1>5, <1>6, HeldKept
<1>8. Layered'
  <2>1. \A m \in Fd : m # n => View(io)'[m] = View(io)[m]
    BY <1>5, <1>6
  <2>2. QED
    BY <1>1, <1>3, <1>6, <2>1, LayerLow DEF s
<1>9. QED
  BY <1>7, <1>8

(* n>&m- *)
LEMMA StepMove ==
    ASSUME TypeOK, Held, Layered, Faithful', NEW n \in Low, NEW m \in Fd, Move(n, m)
    PROVE  Held' /\ Layered'
<1> DEFINE a == MoveSaved(m)
           c == MoveClosed(m)
           s == Saved(c, n)
           w == View(io)
           b == stack[1].topfd
<1>1. /\ io \in Io /\ Room /\ Redirecting /\ forks' = forks /\ n \in Fd /\ w[m] # Closed /\ n # m
      /\ io' = [s EXCEPT !.fd[n] = io.fd[m]] /\ Sound(io) /\ c = sh_close(a, m)
  BY DEF TypeOK, Move, Held, Fd, MoveClosed, MoveSaved
<1>2. /\ Head(stack) = stack[1] /\ stack # <<>> /\ b \in Nat /\ b <= Len(io.filemap)
      /\ stack[1].kind = "exec" \/ IsBlock(stack, 1)
      /\ stack[1].kind = "exec" => ~ IsBlock(stack, 1)
      /\ Len(io.filemap) \in Nat
  BY <1>1, Heads
<1>3. Len(io.filemap) < MaxTop /\ \E k \in High : io.fd[k] = Closed
  BY <1>1, RoomFacts, Numbers
<1>4. m \in Low \cup io.own /\ w[m] = io.fd[m] /\ io.fd[m] \in File \cup {Closed}
  BY <1>1, ViewOpen
<1>5. ~ (stack[1].kind = "exec" /\ Virtual) /\ ~ Nested(n) /\ lapse' = lapse
  <2>1. ~ (stack[1].kind = "exec" /\ Virtual)
    BY <1>2 DEF Move, Lapses, Faithful
  <2>2. QED
    BY <1>2, <2>1, NotNested DEF Move
<1>6. Stays(io, a)
  <2>1. CASE stack[1].kind = "exec"
    <3>1. a = io
      BY <1>2, <2>1 DEF MoveSaved
    <3>2. QED
      BY <1>1, <3>1 DEF Stays
  <2>2. CASE stack[1].kind # "exec"
    <3>1. \A subshell, keep \in BOOLEAN : Stays(io, sh_iosave(io, m, b, subshell, keep))
      BY <1>1, <1>3, SoundIosave
    <3>2. a = sh_iosave(io, m, b, FALSE, FALSE)
      BY <1>2, <2>2 DEF MoveSaved
    <3>3. QED
      BY <3>1, <3>2, Zenon
  <2>3. QED
    BY <2>1, <2>2
<1>7. /\ c \in Io /\ Len(c.filemap) < MaxTop
      /\ \E k \in High : c.fd[k] = Closed
  BY <1>1, MoveTyped
<1> HIDE DEF a, c
<1>8. a \in Io /\ Sound(a) /\ (Exact(io) => Exact(a)) /\ View(a) = w /\ a.own = io.own
  BY <1>6 DEF Stays
<1>9. /\ Sound(c) /\ (Exact(a) => Exact(c)) /\ c.filemap = a.filemap
      /\ \A k \in Fd : View(c)[k] = IF k = m THEN Closed ELSE View(a)[k]
  BY <1>1, <1>4, <1>8, SoundClose
<1>10. Stays(c, s)
  BY <1>1, <1>7, <1>9, SavedHolds
<1> HIDE DEF s
<1>11. s \in Io /\ Sound(s) /\ (Exact(c) => Exact(s)) /\ View(s) = View(c)
  BY <1>10 DEF Stays
<1>12. /\ io' \in Io /\ Sound(io') /\ (Exact(s) => Exact(io')) /\ io'.filemap = s.filemap
       /\ \A k \in Fd : View(io')[k] = IF k = n THEN io.fd[m] ELSE View(s)[k]
  BY <1>1, <1>4, <1>11, SoundSetFd
<1>13. Held'
  BY <1>5, <1>8, <1>9, <1>11, <1>12, HeldKept
<1>14. \A k \in Fd : k # n /\ k # m => View(io)'[k] = w[k]
  BY <1>8, <1>9, <1>11, <1>12
<1> HIDE DEF w, b
<1>15. CASE IsBlock(stack, 1)
  <2>1. a = sh_iosave(io, m, b, FALSE, FALSE) /\ s = sh_iosave(c, n, b, FALSE, FALSE)
    BY <1>2, <1>15 DEF a, s, b, MoveSaved, Saved
  <2>2. Adds(io, m, b, FALSE, FALSE, w, b)
    BY <1>1, <1>2, <1>3, <1>4, NotedCopied
  <2>3. /\ Noted(io.filemap, a.filemap, {m}, w, b, FALSE)
        /\ \E i \in DOMAIN a.filemap : b < i /\ a.filemap[i].orig = m
    BY <2>1, <2>2 DEF Adds
  <2>4. b <= Len(c.filemap) /\ c.filemap \in Seq(Save) /\ io.filemap \in Seq(Save)
    <3>1. Len(io.filemap) <= Len(a.filemap)
      BY <2>3 DEF Noted
    <3>2. Len(a.filemap) \in Nat
      BY <1>8, IoFields
    <3>3. QED
      BY <1>1, <1>2, <1>7, <1>9, <3>1, <3>2, IoFields
  <2>5. View(c)[n] = c.fd[n] /\ View(c)[n] = w[n]
    BY <1>1, <1>7, <1>8, <1>9, ViewFacts
  <2>6. Adds(c, n, b, FALSE, FALSE, View(c), b)
    BY <1>1, <1>2, <1>7, <1>9, <2>4, <2>5, NotedCopied
  <2>7. /\ Noted(c.filemap, s.filemap, {n}, View(c), b, FALSE)
        /\ \E i \in DOMAIN s.filemap : b < i /\ s.filemap[i].orig = n
    BY <2>1, <2>6 DEF Adds
  <2>8. Noted(io.filemap, s.filemap, {m} \cup {n}, w, b, FALSE)
    <3>1. \A k \in {n} : View(c)[k] = w[k]
      BY <2>5
    <3>2. Noted(a.filemap, s.filemap, {n}, View(c), b, FALSE)
      BY <1>9, <2>7
    <3>3. QED
      BY <1>2, <2>3, <2>4, <3>1, <3>2, NotedThrough
  <2>9. \E i \in DOMAIN s.filemap : b < i /\ s.filemap[i].orig = m
    <3>1. PICK i \in DOMAIN a.filemap : b < i /\ a.filemap[i].orig = m
      BY <2>3
    <3>2. i \in DOMAIN c.filemap /\ c.filemap[i].orig = m
      BY <1>9, <3>1
    <3>3. s.filemap[i].orig = m
      BY <2>7, <3>2 DEF Noted
    <3>4. i \in DOMAIN s.filemap
      <4>1. s.filemap \in Seq(Save) /\ Len(c.filemap) <= Len(s.filemap)
        BY <2>7 DEF Noted
      <4>2. QED
        BY <2>4, <3>2, <4>1
    <3>5. QED
      BY <3>1, <3>3, <3>4
  <2>10. PICK ns \in SUBSET Fd : ns = {n, m}
    BY <1>1
  <2>11. stack' = Note(ns)
    BY <1>2, <1>15, <2>10 DEF Move
  <2>12. Noted(io.filemap, io'.filemap, ns, w, b, FALSE)
    <3>1. ns = {m} \cup {n}
      BY <2>10
    <3>2. QED
      BY <1>12, <2>8, <3>1
  <2>13. \A k \in ns : \E i \in DOMAIN io'.filemap : b < i /\ io'.filemap[i].orig = k
    BY <1>12, <2>7, <2>9, <2>10
  <2>14. \A k \in Fd : k \notin ns => View(io)'[k] = w[k]
    BY <1>14, <2>10
  <2>15. Layered'
    BY <1>1, <1>15, <2>11, <2>12, <2>13, <2>14, LayerBlock DEF w, b
  <2>16. QED
    BY <1>13, <2>15
<1>16. CASE stack[1].kind = "exec"
  <2>1. ~ Virtual
    BY <1>5, <1>16
  <2>2. a = io /\ s = c
    BY <1>2, <1>16, <2>1 DEF a, s, MoveSaved, Saved, sh_subsavefd
  <2>3. Alike(io'.filemap, io.filemap)
    BY <1>9, <1>12, <2>2 DEF Alike
  <2>4. stack' = Note({n})
    BY <1>2, <1>16 DEF Move
  <2>5. PICK ns \in SUBSET Fd : ns = {n}
    BY <1>1
  <2>6. stack' = stack
    BY <1>2, <1>16, <2>1, <2>4, <2>5, NoteNothing
  <2>7. Layered'
    BY <1>1, <1>12, <2>1, <2>3, <2>6, LayerPlain
  <2>8. QED
    BY <1>13, <2>7
<1>17. QED
  BY <1>2, <1>15, <1>16

(* {v}>file *)
LEMMA StepVarOpen ==
    ASSUME TypeOK, Held, Layered, Faithful', NEW file \in File, VarOpen(file)
    PROVE  Held' /\ Layered'
<1> DEFINE n == NewFd(io)
           t == VarOpened(file)
           w == View(io)
           b == stack[1].topfd
<1>1. /\ io \in Io /\ Redirecting /\ forks' = forks /\ Sound(io)
  BY DEF TypeOK, VarOpen, Held
<1>2. /\ n \in High /\ io.fd[n] = Closed
      /\ t \in Io /\ t.filemap = io.filemap
      /\ io' = IF Head(stack).kind = "exec" /\ ~ Virtual THEN t
               ELSE sh_iosave(t, n, Head(stack).topfd, FALSE, TRUE)
      /\ stack' = Note({n})
      /\ Len(io.filemap) \in Nat /\ Len(io.filemap) < MaxTop
  BY VarOpenFacts
<1>3. /\ Head(stack) = stack[1] /\ stack # <<>> /\ b \in Nat /\ b <= Len(io.filemap)
      /\ stack[1].kind = "exec" \/ IsBlock(stack, 1)
      /\ stack[1].kind = "exec" => ~ IsBlock(stack, 1)
      /\ Virtual => /\ Sub \in DOMAIN stack /\ stack[Sub].topfd \in Nat
                    /\ stack[Sub].topfd <= stack[1].topfd
  BY <1>1, Heads
<1>4. /\ lapse' = lapse
      /\ Head(stack).kind = "exec" /\ Virtual => Sub = 2
  BY DEF VarOpen, Lapses, Faithful
<1>5. t = Taken(io, n, file)
  BY DEF VarOpened
<1> HIDE DEF t, n
<1>6. /\ Sound(t) /\ (Exact(io) => Exact(t))
      /\ \A m \in Fd : View(t)[m] = IF m = n THEN file ELSE w[m]
  BY <1>1, <1>2, <1>5, SoundTake
<1>7. n \in Fd /\ n \notin Low /\ w[n] = Closed
  <2>1. n \in Fd /\ n \notin Low
    BY <1>2, Numbers DEF Fd
  <2>2. n \notin io.own
    BY <1>1, <1>2 DEF Sound, OwnOpen
  <2>3. QED
    BY <1>1, <2>1, <2>2, ViewFacts
<1>8. PICK ns \in SUBSET Fd : ns = {n}
  BY <1>7
<1>9. stack' = Note(ns) /\ \A m : m \in ns <=> m = n
  BY <1>2, <1>8
<1> HIDE DEF w, b
<1>10. CASE stack[1].kind = "exec" /\ ~ Virtual
  <2>1. io' = t
    BY <1>2, <1>3, <1>10
  <2>2. Held'
    BY <1>4, <1>6, <2>1, HeldKept
  <2>3. Alike(io'.filemap, io.filemap)
    BY <1>2, <2>1 DEF Alike
  <2>4. stack' = stack
    BY <1>3, <1>9, <1>10, NoteNothing
  <2>5. Layered'
    BY <1>1, <1>2, <1>10, <2>1, <2>3, <2>4, LayerPlain
  <2>6. QED
    BY <2>2, <2>5
<1>11. ASSUME IsBlock(stack, 1) \/ (stack[1].kind = "exec" /\ Virtual)
       PROVE  Held' /\ Layered'
  <2>1. io' = sh_iosave(t, n, b, FALSE, TRUE)
    BY <1>2, <1>3, <1>11 DEF b
  <2>2. Stays(t, io')
    <3>1. \A subshell, keep \in BOOLEAN : keep = TRUE => Stays(t, sh_iosave(t, n, b, subshell, keep))
      BY <1>2, <1>6, <1>7, SoundIosave
    <3>2. QED
      BY <2>1, <3>1, Zenon
  <2>3. io' \in Io /\ Sound(io') /\ (Exact(t) => Exact(io')) /\ View(io)' = View(t)
    BY <2>2 DEF Stays
  <2>4. Held'
    BY <1>4, <1>6, <2>3, HeldKept
  <2>5. Adds(t, n, b, FALSE, TRUE, w, b)
    BY <1>2, <1>3, <1>6, <1>7, NotedKept
  <2>6. /\ Noted(io.filemap, io'.filemap, ns, w, b, FALSE)
        /\ \E i \in DOMAIN io'.filemap : b < i /\ io'.filemap[i].orig = n
    BY <1>2, <1>8, <2>1, <2>5 DEF Adds
  <2>7. \A m \in Fd : m # n => View(io)'[m] = w[m]
    BY <1>6, <2>3
  <2>8. CASE IsBlock(stack, 1)
    <3>1. /\ \A m \in ns : \E i \in DOMAIN io'.filemap : b < i /\ io'.filemap[i].orig = m
          /\ \A m \in Fd : m \notin ns => View(io)'[m] = w[m]
      BY <1>9, <2>6, <2>7
    <3>2. Layered'
      BY <1>1, <1>9, <2>6, <2>8, <3>1, LayerBlock DEF w, b
    <3>3. QED
      BY <2>4, <3>2
  <2>9. CASE stack[1].kind = "exec" /\ Virtual
    <3>1. \E i \in DOMAIN io'.filemap : stack[Sub].topfd < i /\ io'.filemap[i].orig = n
      <4>1. PICK i \in DOMAIN io'.filemap : b < i /\ io'.filemap[i].orig = n
        BY <2>6
      <4>2. i \in Nat
        BY <2>3, <4>1, MapFacts
      <4>3. stack[Sub].topfd < i
        BY <1>3, <2>9, <4>1, <4>2 DEF b
      <4>4. QED
        BY <4>1, <4>3
    <3>2. Sub = 2
      BY <1>3, <1>4, <2>9
    <3>3. \A subshell \in BOOLEAN : subshell = FALSE =>
             (Noted(io.filemap, io'.filemap, ns, w, b, subshell) => Layered')
      <4>1. SUFFICES ASSUME NEW subshell \in BOOLEAN, subshell = FALSE,
                            Noted(io.filemap, io'.filemap, ns, w, b, subshell)
                     PROVE  Layered'
        OBVIOUS
      <4>2. subshell = TRUE => b = stack[Sub].topfd
        BY <4>1
      <4>3. n \in Low /\ n \notin stack[Sub].fdsaved => SavedNow(io.filemap, io'.filemap, n)
        BY <1>7
      <4>4. QED
        BY <1>1, <1>3, <1>7, <1>9, <2>7, <2>9, <3>1, <3>2, <4>1, <4>2, <4>3, LayerExec DEF w
    <3>4. Layered'
      BY <2>6, <3>3, Zenon
    <3>5. QED
      BY <2>4, <3>4
  <2>10. QED
    BY <1>11, <2>8, <2>9
<1>12. QED
  BY <1>3, <1>10, <1>11

(* {v}>&- *)
LEMMA StepVarClose ==
    ASSUME TypeOK, Held, Layered, Faithful', VarClose
    PROVE  Held' /\ Layered'
<1>1. /\ io \in Io /\ v \in High /\ v \in Fd /\ Room /\ Sound(io) /\ stack' = stack /\ forks' = forks
  BY DEF TypeOK, VarClose, Held, Fd
<1>2. ~ Virtual /\ ~ Stale /\ (lapse' = {} => lapse = {})
  BY DEF VarClose, Faithful
<1>3. io' \in Io /\ Sound(io') /\ (Exact(io) => Exact(io')) /\ Alike(io'.filemap, io.filemap)
  <2>1. CASE sh_inuse(io, v)
    <3>1. PICK i \in DOMAIN io.filemap : io.filemap[i].save = v /\ i = io.fdptrs[v]
      BY <1>2, <2>1 DEF Stale
    <3>2. \E m \in High : io.fd[m] = Closed
      BY <1>1, RoomFacts
    <3>3. io' = sh_close(io_preserve(io, v), v)
      BY <2>1 DEF VarClose
    <3>4. QED
      BY <1>1, <3>1, <3>2, <3>3, SoundPreserve
  <2>2. CASE ~ sh_inuse(io, v)
    <3>1. io' = sh_close(io, v) /\ io.fdptrs[v] = 0
      BY <1>1, <2>2 DEF VarClose, sh_inuse
    <3>2. io' \in Io /\ Sound(io') /\ (Exact(io) => Exact(io')) /\ io'.filemap = io.filemap
      BY <1>1, <3>1, SoundClose
    <3>3. QED
      BY <3>2 DEF Alike
  <2>3. QED
    BY <2>1, <2>2
<1>4. Held'
  BY <1>2, <1>3, HeldKept
<1>5. Layered'
  BY <1>1, <1>2, <1>3, LayerPlain
<1>6. QED
  BY <1>4, <1>5

LEMMA StepRun ==
    ASSUME TypeOK, Held, Layered, Run
    PROVE  Held' /\ Layered'
<1> DEFINE f == io.filemap
           s == stack
           r == stack'
<1>1. /\ s \in Seq(Frame) /\ 1 \in DOMAIN s /\ s[1] \in Frame /\ s[1].redirect /\ s[1].kind # "exec"
  BY StackFacts DEF Run, Redirecting
<1>2. r = [s EXCEPT ![1].redirect = FALSE] /\ UNCHANGED <<io, forks, lapse>>
  BY DEF Run
<1>3. /\ DOMAIN r = DOMAIN s /\ Len(r) = Len(s) /\ (r = <<>> <=> s = <<>>)
      /\ \A k \in DOMAIN s :
            /\ r[k].kind = s[k].kind /\ r[k].topfd = s[k].topfd /\ r[k].before = s[k].before
            /\ r[k].fdsaved = s[k].fdsaved /\ ~ r[k].redirect
  <2>1. \A k \in DOMAIN s : k # 1 => ~ s[k].redirect
    BY DEF Layered, Layers, Framed
  <2>2. s[1] = [kind |-> s[1].kind, redirect |-> s[1].redirect, topfd |-> s[1].topfd,
                fdsaved |-> s[1].fdsaved, v |-> s[1].v, before |-> s[1].before]
    BY <1>1 DEF Frame
  <2>3. \A k \in DOMAIN s : s[k] \in Frame
    BY <1>1
  <2>4. DOMAIN r = DOMAIN s /\ Len(r) = Len(s) /\ (r = <<>> <=> s = <<>>)
    BY <1>1, <1>2
  <2>5. /\ r[1].kind = s[1].kind /\ r[1].topfd = s[1].topfd /\ r[1].before = s[1].before
        /\ r[1].fdsaved = s[1].fdsaved /\ ~ r[1].redirect
    BY <1>1, <1>2, <2>2
  <2>6. \A k \in DOMAIN s : k # 1 => r[k] = s[k]
    BY <1>1, <1>2
  <2>7. QED
    BY <2>1, <2>4, <2>5, <2>6
<1>4. Layers(f, s, View(io)) /\ (forks = 0 => Rooted(f, s))
  BY DEF Layered
<1> HIDE DEF f, s, r
<1>5. \A k \in DOMAIN s : (IsSub(r, k) <=> IsSub(s, k)) /\ (IsBlock(r, k) <=> IsBlock(s, k))
  BY <1>3 DEF IsSub, IsBlock
<1>6. \A k \in DOMAIN s : \A m \in 1..k - 1 : m \in DOMAIN s
  BY <1>1
<1>7. \A k \in DOMAIN s : k > 1 => k - 1 \in DOMAIN s
  BY <1>1
<1>8. \A k \in DOMAIN s : Part(f, r, k) = Part(f, s, k) /\ Own(f, r, k) = Own(f, s, k)
  BY <1>3, <1>7 DEF Part, Own
<1>9. \A k \in DOMAIN s : \A i \in DOMAIN f : Owner(r, k, i) <=> Owner(s, k, i)
  BY <1>3, <1>5, <1>6 DEF Owner
<1>10. \A k \in DOMAIN s : \A i \in DOMAIN f : First(f, r, k, i) <=> First(f, s, k, i)
  BY <1>3 DEF First
<1>11. Framed(f, r)
  <2>1. Framed(f, s)
    BY <1>4 DEF Layers
  <2>2. \A k \in DOMAIN s : s[k].kind # "exec"
    BY <1>1, <2>1 DEF Framed
  <2>3. QED
    BY <1>3, <2>1, <2>2 DEF Framed
<1>12. Blocks(f, r)
  BY <1>3, <1>4, <1>5, <1>8 DEF Layers, Blocks
<1>13. Execs(f, r)
  BY <1>3, <1>4, <1>5, <1>8 DEF Layers, Execs
<1>14. Subshells(f, r)
  BY <1>3, <1>4, <1>5, <1>9, <1>10 DEF Layers, Subshells
<1>15. Returns(f, r, View(io))
  BY <1>3, <1>4, <1>5, <1>10 DEF Layers, Returns
<1>16. forks = 0 => Rooted(f, r)
  <2>1. s # <<>> => Len(s) \in DOMAIN s
    BY <1>1
  <2>2. QED
    BY <1>3, <1>4, <1>5, <2>1 DEF Rooted
<1>17. Layered'
  BY <1>2, <1>11, <1>12, <1>13, <1>14, <1>15, <1>16 DEF Layered, Layers, f, r
<1>18. Held'
  BY <1>2 DEF Held
<1>19. QED
  BY <1>17, <1>18

--------------------------------------------------------------------------------
(* The end of a command. *)

(* What is left of filemap: e says where each entry was. *)
Left(f, s, g, e) ==
    LET last == s[1].topfd
    IN  /\ f \in Seq(Save) /\ g \in Seq(Save) /\ s \in Seq(Frame) /\ s # <<>>
        /\ e \in [DOMAIN g -> DOMAIN f] /\ Len(g) >= last
        /\ \A k \in DOMAIN g : /\ g[k] = f[e[k]] /\ e[k] >= k
                               /\ k <= last => e[k] = k
                               /\ k > last => e[k] > last /\ f[e[k]].subshell /\ ~ IsSub(s, 1)
        /\ \A k, l \in DOMAIN g : k < l => e[k] < e[l]
        /\ \A j \in DOMAIN f : j <= last \/ (f[j].subshell /\ ~ IsSub(s, 1)) => \E k \in DOMAIN g : e[k] = j

LEMMA LeftFacts ==
    ASSUME NEW f, NEW s, NEW g, NEW e, Left(f, s, g, e), Framed(f, s)
    PROVE  LET t == Tail(s)
               last == s[1].topfd
           IN  /\ Len(f) \in Nat /\ Len(g) \in Nat /\ DOMAIN f = 1..Len(f) /\ DOMAIN g = 1..Len(g)
               /\ last \in Nat /\ last <= Len(f) /\ last <= Len(g)
               /\ \A i \in DOMAIN f : i \in Nat /\ i >= 1
               /\ \A k \in DOMAIN g : k \in Nat /\ k >= 1 /\ e[k] \in DOMAIN f /\ e[k] \in Nat
               /\ 1 \in DOMAIN s /\ DOMAIN s = 1..Len(s) /\ Len(s) \in Nat
               /\ Len(t) = Len(s) - 1 /\ DOMAIN t = 1..Len(s) - 1
               /\ \A k \in DOMAIN t : /\ k \in Nat /\ k >= 1 /\ k + 1 \in DOMAIN s /\ t[k] = s[k + 1]
                                      /\ k > 1 => k - 1 \in DOMAIN t
                                      /\ t[k].topfd \in Nat /\ t[k].topfd <= last
               /\ \A k \in DOMAIN s : k = 1 \/ (k - 1 \in DOMAIN t /\ t[k - 1] = s[k])
<1>1. /\ f \in Seq(Save) /\ g \in Seq(Save) /\ s \in Seq(Frame) /\ s # <<>>
      /\ e \in [DOMAIN g -> DOMAIN f] /\ Len(g) >= s[1].topfd
  BY DEF Left
<1>2. /\ Len(f) \in Nat /\ Len(g) \in Nat /\ DOMAIN f = 1..Len(f) /\ DOMAIN g = 1..Len(g)
      /\ DOMAIN s = 1..Len(s) /\ Len(s) \in Nat /\ Len(s) >= 1
  BY <1>1
<1>3. \A k \in DOMAIN s : s[k].topfd \in Nat
  BY <1>1, <1>2, FrameFields
<1>4. 1 \in DOMAIN s
  BY <1>2
<1>5. s[1].topfd <= Len(f) /\ \A k \in DOMAIN s : k > 1 => s[k].topfd <= s[1].topfd
  BY <1>4 DEF Framed
<1> DEFINE t == Tail(s)
<1>6. Len(t) = Len(s) - 1 /\ DOMAIN t = 1..Len(s) - 1 /\ \A k \in DOMAIN t : t[k] = s[k + 1]
  BY <1>1, <1>2
<1> HIDE DEF t
<1>7. \A k \in DOMAIN t : k \in Nat /\ k >= 1 /\ k + 1 \in DOMAIN s /\ k + 1 > 1 /\ (k > 1 => k - 1 \in DOMAIN t)
  BY <1>2, <1>6
<1>8. \A k \in DOMAIN t : t[k].topfd \in Nat /\ t[k].topfd <= s[1].topfd
  BY <1>3, <1>5, <1>6, <1>7
<1>9. \A k \in DOMAIN s : k = 1 \/ (k - 1 \in DOMAIN t /\ t[k - 1] = s[k])
  BY <1>2, <1>6
<1>10. \A k \in DOMAIN g : k \in Nat /\ k >= 1 /\ e[k] \in DOMAIN f /\ e[k] \in Nat
  BY <1>1, <1>2
<1>11. \A i \in DOMAIN f : i \in Nat /\ i >= 1
  BY <1>2
<1>12. QED
  BY <1>1, <1>2, <1>3, <1>4, <1>5, <1>6, <1>7, <1>8, <1>9, <1>10, <1>11 DEF t

LEMMA LeftFramed ==
    ASSUME NEW f, NEW s, NEW g, NEW e, Left(f, s, g, e), Framed(f, s)
    PROVE  Framed(g, Tail(s)) /\ Execs(g, Tail(s)) /\ \A k \in DOMAIN Tail(s) : ~ Tail(s)[k].redirect
<1> DEFINE t == Tail(s)
           last == s[1].topfd
<1>1. /\ Len(g) \in Nat /\ last \in Nat /\ last <= Len(g)
      /\ \A k \in DOMAIN t : /\ k \in Nat /\ k >= 1 /\ k + 1 \in DOMAIN s /\ t[k] = s[k + 1]
                             /\ t[k].topfd \in Nat /\ t[k].topfd <= last
  BY LeftFacts
<1> HIDE DEF t, last
<1>2. \A k \in DOMAIN t : t[k].topfd <= Len(g) /\ k + 1 # 1
  BY <1>1
<1>3. \A k \in DOMAIN t : ~ t[k].redirect
  BY <1>1, <1>2 DEF Framed
<1>4. \A k \in DOMAIN t : /\ t[k].kind # "exec"
                          /\ t[k].kind = "sub" => DOMAIN t[k].before = Fd
  BY <1>1, <1>3 DEF Framed
<1>5. \A k, l \in DOMAIN t : k < l => t[l].topfd <= t[k].topfd
  <2>1. \A k, l \in DOMAIN t : k < l => k + 1 < l + 1
    BY <1>1
  <2>2. QED
    BY <1>1, <2>1 DEF Framed
<1>6. Framed(g, t)
  BY <1>2, <1>3, <1>4, <1>5 DEF Framed
<1>7. Execs(g, t)
  BY <1>4 DEF Execs
<1>8. QED
  BY <1>3, <1>6, <1>7 DEF t

LEMMA LeftBlocks ==
    ASSUME NEW f, NEW s, NEW g, NEW e, Left(f, s, g, e), Framed(f, s), Blocks(f, s)
    PROVE  Blocks(g, Tail(s))
<1> DEFINE t == Tail(s)
           last == s[1].topfd
<1>1. /\ Len(f) \in Nat /\ Len(g) \in Nat /\ DOMAIN f = 1..Len(f) /\ DOMAIN g = 1..Len(g)
      /\ last \in Nat /\ last <= Len(f) /\ last <= Len(g)
      /\ \A k \in DOMAIN t : /\ k \in Nat /\ k >= 1 /\ k + 1 \in DOMAIN s /\ t[k] = s[k + 1]
                             /\ k > 1 => k - 1 \in DOMAIN t
                             /\ t[k].topfd \in Nat /\ t[k].topfd <= last
  BY LeftFacts
<1>2. \A i \in DOMAIN g : /\ i <= last => g[i] = f[i]
                          /\ i > last => g[i].subshell
  <2>1. \A i \in DOMAIN g : g[i] = f[e[i]] /\ (i <= last => e[i] = i) /\ (i > last => f[e[i]].subshell)
    BY DEF Left
  <2>2. QED
    BY <2>1
<1>3. \A k \in DOMAIN t : ~ t[k].redirect
  BY LeftFramed
<1> HIDE DEF t, last
<1>4. \A i : i \in DOMAIN f /\ i <= last => i \in DOMAIN g
  BY <1>1
<1>5. \A i : i \in DOMAIN g /\ i <= last => i \in DOMAIN f
  BY <1>1
<1>6. ASSUME NEW k \in DOMAIN t
      PROVE  Own(g, t, k) = Own(f, s, k + 1) /\ \A i \in Own(f, s, k + 1) : g[i] = f[i]
  <2>1. k + 1 > 1 /\ (k + 1) - 1 = k /\ t[k] = s[k + 1] /\ k \in Nat /\ k >= 1
    BY <1>1
  <2>2. k > 1 => t[k - 1] = s[k] /\ t[k - 1].topfd <= last /\ t[k - 1].topfd \in Nat
    <3>1. k > 1 => k - 1 \in DOMAIN t /\ (k - 1) + 1 = k
      BY <1>1
    <3>2. QED
      BY <1>1, <3>1
  <2>3. \A i : i \in Own(f, s, k + 1) <=>
              i \in DOMAIN f /\ t[k].topfd < i /\ i <= s[k].topfd /\ ~ f[i].subshell
    BY <2>1 DEF Own, Part
  <2>4. \A i : i \in Own(g, t, k) <=>
              i \in DOMAIN g /\ t[k].topfd < i /\ (k > 1 => i <= s[k].topfd) /\ ~ g[i].subshell
    BY <2>2 DEF Own, Part
  <2>5. s[k].topfd <= last /\ s[k].topfd \in Nat /\ (k = 1 => s[k].topfd = last)
    BY <1>1, <2>1, <2>2 DEF last
  <2>6. \A i \in DOMAIN g : i \in Nat /\ (i <= last \/ i > last)
    BY <1>1
  <2>7. \A i \in DOMAIN f : i \in Nat /\ (i <= s[k].topfd => i <= last)
    BY <1>1, <2>5
  <2>8. ASSUME NEW i, i \in Own(f, s, k + 1)
        PROVE  i \in Own(g, t, k) /\ g[i] = f[i]
    <3>1. i \in DOMAIN f /\ i <= last
      BY <2>3, <2>7, <2>8
    <3>2. i \in DOMAIN g /\ g[i] = f[i]
      BY <1>2, <1>4, <3>1
    <3>3. QED
      BY <2>3, <2>4, <2>8, <3>2
  <2>9. ASSUME NEW i, i \in Own(g, t, k)
        PROVE  i \in Own(f, s, k + 1)
    <3>1. i \in DOMAIN g /\ ~ g[i].subshell
      BY <2>4, <2>9
    <3>2. i <= last
      BY <1>2, <2>6, <3>1
    <3>3. i \in DOMAIN f /\ g[i] = f[i]
      BY <1>2, <1>5, <3>1, <3>2
    <3>4. i <= s[k].topfd
      <4>1. CASE k = 1
        BY <2>5, <3>2, <4>1
      <4>2. CASE k # 1
        BY <2>1, <2>4, <2>9, <4>2
      <4>3. QED
        BY <4>1, <4>2
    <3>5. QED
      BY <2>3, <2>4, <2>9, <3>3, <3>4
  <2>10. QED
    BY <2>8, <2>9
<1>7. ASSUME NEW k \in DOMAIN t, IsBlock(t, k)
      PROVE  /\ \A i \in Own(g, t, k) : g[i].orig \in DOMAIN t[k].before /\ g[i].was = t[k].before[g[i].orig]
             /\ \A n \in DOMAIN t[k].before : \E i \in Own(g, t, k) : g[i].orig = n
             /\ \A i, j \in Own(g, t, k) : g[i].orig = g[j].orig => i = j
             /\ t[k].redirect => Own(g, t, k) = Part(g, t, k)
  <2> DEFINE l == k + 1
             O == Own(f, s, l)
  <2>1. l \in DOMAIN s /\ t[k] = s[l] /\ IsBlock(s, l)
    BY <1>1, <1>7 DEF IsBlock
  <2>2. Own(g, t, k) = O /\ \A i \in O : g[i] = f[i]
    BY <1>6
  <2> HIDE DEF l
  <2>3. /\ \A i \in O : f[i].orig \in DOMAIN s[l].before /\ f[i].was = s[l].before[f[i].orig]
        /\ \A n \in DOMAIN s[l].before : \E i \in O : f[i].orig = n
        /\ \A i, j \in O : f[i].orig = f[j].orig => i = j
    BY <2>1 DEF Blocks
  <2> HIDE DEF O
  <2>4. ~ t[k].redirect
    BY <1>3
  <2>5. QED
    BY <2>1, <2>2, <2>3, <2>4
<1>8. QED
  BY <1>7 DEF Blocks, t

(* Where an entry was, with respect to the commands that go on. *)
LEMMA LeftPlace ==
    ASSUME NEW f, NEW s, NEW g, NEW e, Left(f, s, g, e), Framed(f, s), NEW k \in DOMAIN Tail(s)
    PROVE  LET t == Tail(s)
               last == s[1].topfd
           IN  /\ \A i \in DOMAIN g : /\ g[i] = f[e[i]] /\ e[i] \in DOMAIN f
                                      /\ (t[k].topfd < i <=> t[k].topfd < e[i])
                                      /\ (i <= last <=> e[i] <= last) /\ (i <= last => e[i] = i)
                                      /\ i > last => f[e[i]].subshell /\ ~ IsSub(s, 1)
               /\ \A i, j \in DOMAIN g : i < j <=> e[i] < e[j]
<1> DEFINE t == Tail(s)
           last == s[1].topfd
<1>1. /\ last \in Nat
      /\ \A i \in DOMAIN g : i \in Nat /\ i >= 1 /\ e[i] \in DOMAIN f /\ e[i] \in Nat
      /\ t[k].topfd \in Nat /\ t[k].topfd <= last
  BY LeftFacts
<1>2. /\ \A i \in DOMAIN g : /\ g[i] = f[e[i]] /\ e[i] >= i
                             /\ i <= last => e[i] = i
                             /\ i > last => e[i] > last /\ f[e[i]].subshell /\ ~ IsSub(s, 1)
      /\ \A i, j \in DOMAIN g : i < j => e[i] < e[j]
  BY DEF Left
<1> HIDE DEF t, last
<1>3. ASSUME NEW i \in DOMAIN g
      PROVE  /\ t[k].topfd < i <=> t[k].topfd < e[i]
             /\ i <= last <=> e[i] <= last
  <2>1. CASE i <= last
    <3>1. e[i] = i
      BY <1>2, <2>1
    <3>2. QED
      BY <2>1, <3>1
  <2>2. CASE i > last
    <3>1. e[i] > last
      BY <1>2, <2>2
    <3>2. QED
      BY <1>1, <2>2, <3>1
  <2>3. QED
    BY <1>1, <2>1, <2>2
<1>4. ASSUME NEW i \in DOMAIN g, NEW j \in DOMAIN g
      PROVE  i < j <=> e[i] < e[j]
  <2>1. i < j \/ i = j \/ j < i
    BY <1>1
  <2>2. CASE i < j
    BY <1>2, <2>2
  <2>3. CASE i = j
    BY <1>1, <2>3
  <2>4. CASE j < i
    <3>1. e[j] < e[i]
      BY <1>2, <2>4
    <3>2. QED
      BY <1>1, <2>4, <3>1
  <2>5. QED
    BY <2>1, <2>2, <2>3, <2>4
<1>5. QED
  BY <1>1, <1>2, <1>3, <1>4 DEF t, last

LEMMA LeftSubshells ==
    ASSUME NEW f, NEW s, NEW g, NEW e, Left(f, s, g, e), Framed(f, s), Subshells(f, s)
    PROVE  Subshells(g, Tail(s))
<1> DEFINE t == Tail(s)
           last == s[1].topfd
<1>1. /\ DOMAIN s = 1..Len(s) /\ Len(s) \in Nat /\ last \in Nat
      /\ DOMAIN t = 1..Len(s) - 1
      /\ \A i \in DOMAIN f : i \in Nat /\ i >= 1
      /\ \A i \in DOMAIN g : i \in Nat /\ i >= 1 /\ e[i] \in DOMAIN f /\ e[i] \in Nat
      /\ \A k \in DOMAIN t : /\ k \in Nat /\ k >= 1 /\ k + 1 \in DOMAIN s /\ t[k] = s[k + 1]
                             /\ t[k].topfd \in Nat /\ t[k].topfd <= last
  BY LeftFacts
<1>2. SUFFICES ASSUME NEW k \in DOMAIN t, IsSub(t, k)
               PROVE  /\ \A n \in t[k].fdsaved : \E i \in DOMAIN g : Owner(t, k, i) /\ g[i].subshell /\ g[i].orig = n
                      /\ \A i \in DOMAIN g : Owner(t, k, i) /\ g[i].subshell => First(g, t, k, i)
  BY DEF Subshells
<1>3. /\ \A i \in DOMAIN g : /\ g[i] = f[e[i]] /\ e[i] \in DOMAIN f
                             /\ (t[k].topfd < i <=> t[k].topfd < e[i])
                             /\ (i <= last <=> e[i] <= last) /\ (i <= last => e[i] = i)
                             /\ i > last => f[e[i]].subshell /\ ~ IsSub(s, 1)
      /\ \A i, j \in DOMAIN g : i < j <=> e[i] < e[j]
  BY LeftPlace
<1>4. \A j \in DOMAIN f : j <= last \/ (f[j].subshell /\ ~ IsSub(s, 1)) => \E i \in DOMAIN g : e[i] = j
  BY DEF Left
<1>5. /\ k + 1 \in DOMAIN s /\ t[k] = s[k + 1] /\ IsSub(s, k + 1) /\ k \in Nat /\ k >= 1
      /\ (k + 1) - 1 = k /\ k <= Len(s) - 1
  BY <1>1, <1>2 DEF IsSub
<1>6. \A m \in 1..k - 1 : /\ t[m] = s[m + 1] /\ m + 1 \in 1..k /\ (IsSub(t, m) <=> IsSub(s, m + 1))
                          /\ t[m].topfd \in Nat /\ t[m].topfd <= last
  <2>1. \A m \in 1..k - 1 : m \in DOMAIN t /\ m + 1 \in 1..k
    BY <1>1, <1>5
  <2>2. QED
    BY <1>1, <2>1 DEF IsSub
<1>7. \A m \in 1..k : m = 1 \/ (m - 1 \in 1..k - 1 /\ (m - 1) + 1 = m)
  BY <1>5
<1>8. IsSub(s, 1) => \A i : Owner(s, k + 1, i) => i <= last
  <2>1. 1 \in 1..(k + 1) - 1
    BY <1>5
  <2>2. QED
    BY <2>1 DEF Owner
<1> HIDE DEF t, last
<1>9. ASSUME NEW i \in DOMAIN g
      PROVE  Owner(t, k, i) <=> Owner(s, k + 1, e[i])
  <2>1. /\ (t[k].topfd < i <=> s[k + 1].topfd < e[i]) /\ i \in Nat /\ e[i] \in Nat
        /\ (i <= last <=> e[i] <= last) /\ (i <= last => e[i] = i)
        /\ i > last => ~ IsSub(s, 1)
    BY <1>1, <1>3, <1>5
  <2>2. \A m \in 1..k - 1 : i <= t[m].topfd <=> e[i] <= s[m + 1].topfd
    BY <1>1, <1>6, <2>1
  <2>3. ASSUME IsSub(s, 1)
        PROVE  e[i] <= s[1].topfd
    BY <1>1, <2>1, <2>3 DEF last
  <2>4. (\A m \in 1..k - 1 : IsSub(t, m) => i <= t[m].topfd) <=> (\A m \in 1..k : IsSub(s, m) => e[i] <= s[m].topfd)
    <3>1. ASSUME \A m \in 1..k - 1 : IsSub(t, m) => i <= t[m].topfd, NEW m \in 1..k, IsSub(s, m)
          PROVE  e[i] <= s[m].topfd
      <4>1. CASE m = 1
        BY <2>3, <3>1, <4>1
      <4>2. CASE m # 1
        <5>1. m - 1 \in 1..k - 1 /\ (m - 1) + 1 = m
          BY <1>7, <4>2
        <5>2. QED
          BY <1>6, <2>2, <3>1, <5>1
      <4>3. QED
        BY <4>1, <4>2
    <3>2. ASSUME \A m \in 1..k : IsSub(s, m) => e[i] <= s[m].topfd, NEW m \in 1..k - 1, IsSub(t, m)
          PROVE  i <= t[m].topfd
      BY <1>6, <2>2, <3>2
    <3>3. QED
      BY <3>1, <3>2
  <2>5. QED
    BY <1>2, <1>5, <2>1, <2>4 DEF Owner
<1>10. ASSUME NEW n \in t[k].fdsaved
       PROVE  \E i \in DOMAIN g : Owner(t, k, i) /\ g[i].subshell /\ g[i].orig = n
  <2>1. PICK j \in DOMAIN f : Owner(s, k + 1, j) /\ f[j].subshell /\ f[j].orig = n
    BY <1>5, <1>10 DEF Subshells
  <2>2. j <= last \/ (f[j].subshell /\ ~ IsSub(s, 1))
    BY <1>8, <2>1
  <2>3. PICK i \in DOMAIN g : e[i] = j
    BY <1>4, <2>2
  <2>4. QED
    BY <1>3, <1>9, <2>1, <2>3
<1>11. ASSUME NEW i \in DOMAIN g, Owner(t, k, i), g[i].subshell
       PROVE  First(g, t, k, i)
  <2>1. First(f, s, k + 1, e[i])
    BY <1>3, <1>5, <1>9, <1>11 DEF Subshells
  <2>2. ASSUME NEW j \in DOMAIN g, t[k].topfd < j, j < i
        PROVE  g[j].orig # g[i].orig
    BY <1>3, <1>5, <2>1, <2>2 DEF First
  <2>3. QED
    BY <2>2 DEF First
<1>12. QED
  BY <1>10, <1>11

LEMMA LeftRooted ==
    ASSUME NEW f, NEW s, NEW g, NEW e, Left(f, s, g, e), Framed(f, s), Rooted(f, s)
    PROVE  Rooted(g, Tail(s))
<1> DEFINE t == Tail(s)
           last == s[1].topfd
<1>1. /\ DOMAIN s = 1..Len(s) /\ Len(s) \in Nat /\ 1 \in DOMAIN s /\ last \in Nat
      /\ Len(t) = Len(s) - 1 /\ DOMAIN t = 1..Len(s) - 1 /\ Len(g) \in Nat /\ DOMAIN g = 1..Len(g)
      /\ \A i \in DOMAIN g : i \in Nat /\ i >= 1 /\ e[i] \in DOMAIN f /\ e[i] \in Nat
      /\ \A k \in DOMAIN t : k + 1 \in DOMAIN s /\ t[k] = s[k + 1]
      /\ \A k \in DOMAIN s : k = 1 \/ (k - 1 \in DOMAIN t /\ t[k - 1] = s[k])
  BY LeftFacts
<1>2. /\ s # <<>> /\ g \in Seq(Save) /\ s \in Seq(Frame)
      /\ \A i \in DOMAIN g : i > last => f[e[i]].subshell /\ ~ IsSub(s, 1)
  BY DEF Left
<1>3. s[Len(s)].topfd = 0
  BY <1>2 DEF Rooted
<1>4. ASSUME NEW i \in DOMAIN g, f[e[i]].subshell, i > last => ~ IsSub(s, 1)
      PROVE  \E k \in DOMAIN t : IsSub(t, k) /\ t[k].topfd < i
  <2>1. PICK l \in DOMAIN s : IsSub(s, l) /\ s[l].topfd < e[i]
    BY <1>1, <1>4 DEF Rooted
  <2>2. l # 1
    <3>1. CASE i > last
      BY <1>4, <2>1, <3>1
    <3>2. CASE i <= last
      <4>1. e[i] = i
        BY <3>2 DEF Left
      <4>2. QED
        BY <1>1, <2>1, <3>2, <4>1
    <3>3. QED
      BY <1>1, <3>1, <3>2
  <2>3. l - 1 \in DOMAIN t /\ t[l - 1] = s[l]
    BY <1>1, <2>2
  <2>4. t[l - 1].topfd < i
    BY <2>1, <2>3, LeftPlace
  <2>5. QED
    BY <2>1, <2>3, <2>4 DEF IsSub
<1>5. ASSUME t = <<>>
      PROVE  g = <<>>
  <2>1. Len(s) = 1
    BY <1>1, <1>5
  <2>2. last = 0
    BY <1>3, <2>1
  <2>3. \A i \in DOMAIN g : FALSE
    <3>1. DOMAIN t = {}
      BY <1>5
    <3> HIDE DEF t
    <3>2. QED
      BY <1>1, <1>2, <1>4, <2>2, <3>1
  <2>4. Len(g) = 0
    <3>1. Len(g) >= 1 => 1 \in DOMAIN g
      BY <1>1
    <3>2. QED
      BY <1>1, <2>3, <3>1
  <2>5. QED
    BY <1>2, <2>4
<1>6. ASSUME t # <<>>
      PROVE  t[Len(t)].topfd = 0
  <2>1. t \in Seq(Frame)
    BY <1>2
  <2>2. Len(t) \in DOMAIN t /\ Len(t) + 1 = Len(s)
    <3> HIDE DEF t
    <3>1. QED
      BY <1>1, <1>6, <2>1
  <2>3. t[Len(t)] = s[Len(s)]
    BY <1>1, <2>2
  <2>4. QED
    BY <1>3, <2>3
<1>7. \A i \in DOMAIN g : g[i] = f[e[i]]
  BY DEF Left
<1>8. \A i \in DOMAIN g : g[i].subshell => \E k \in DOMAIN t : IsSub(t, k) /\ t[k].topfd < i
  BY <1>2, <1>4, <1>7
<1>9. QED
  BY <1>5, <1>6, <1>8 DEF Rooted, t

(* What exec has saved in a subshell while a command was running: it was the first to. *)
LEMMA InnerFirst ==
    ASSUME NEW f \in Seq(Save), NEW s \in Seq(Frame), s # <<>>, Framed(f, s), Subshells(f, s), ~ IsSub(s, 1),
           NEW k \in DOMAIN s, IsSub(s, k), NEW i \in DOMAIN f, s[1].topfd < i, f[i].subshell
    PROVE  \A j \in DOMAIN f : s[1].topfd < j /\ j < i => f[j].orig # f[i].orig
<1> DEFINE S == {m \in DOMAIN s : IsSub(s, m)}
<1>1. /\ DOMAIN s = 1..Len(s) /\ Len(s) \in Nat /\ 1 \in DOMAIN s /\ DOMAIN f = 1..Len(f) /\ Len(f) \in Nat
      /\ \A m \in DOMAIN s : m \in Nat /\ m >= 1 /\ s[m].topfd \in Nat
  <2>1. \A m \in DOMAIN s : s[m] \in Frame
    OBVIOUS
  <2>2. QED
    BY <2>1, FrameFields
<1>2. S # {} /\ S \in SUBSET Nat
  BY <1>1
<1>3. PICK l \in S : \A m \in S : l <= m
  <2> HIDE DEF S
  <2>1. QED
    BY <1>2, Least
<1>4. l \in DOMAIN s /\ IsSub(s, l) /\ l # 1
  BY <1>3
<1>5. \A m \in 1..l - 1 : ~ IsSub(s, m)
  <2>1. \A m \in 1..l - 1 : m \in DOMAIN s /\ ~ (l <= m)
    BY <1>1, <1>4
  <2>2. QED
    BY <1>3, <2>1
<1>6. s[l].topfd <= s[1].topfd
  <2>1. 1 < l
    BY <1>1, <1>4
  <2>2. QED
    BY <1>1, <1>4, <2>1 DEF Framed
<1> HIDE DEF S
<1>7. s[l].topfd < i
  BY <1>1, <1>4, <1>6
<1>8. Owner(s, l, i)
  BY <1>4, <1>5, <1>7 DEF Owner
<1>9. First(f, s, l, i)
  BY <1>4, <1>8 DEF Subshells
<1>10. \A j \in DOMAIN f : s[1].topfd < j => s[l].topfd < j
  BY <1>1, <1>4, <1>6
<1>11. QED
  BY <1>9, <1>10 DEF First

LEMMA LeftReturnsBlock ==
    ASSUME NEW f, NEW s, NEW g, NEW e, Left(f, s, g, e), Framed(f, s), Blocks(f, s), Subshells(f, s),
           NEW w, Returns(f, s, w), IsBlock(s, 1), NEW x,
           \A n \in Fd : (\A j \in Own(f, s, 1) : f[j].orig # n) => x[n] = w[n],
           \A j \in Own(f, s, 1) : x[f[j].orig] = f[j].was
    PROVE  Returns(g, Tail(s), x)
<1> DEFINE t == Tail(s)
           last == s[1].topfd
           O == Own(f, s, 1)
<1>1. /\ last \in Nat /\ 1 \in DOMAIN s
      /\ \A i \in DOMAIN f : i \in Nat /\ i >= 1
      /\ \A i \in DOMAIN g : i \in Nat /\ i >= 1 /\ e[i] \in DOMAIN f /\ e[i] \in Nat
      /\ \A k \in DOMAIN t : /\ k \in Nat /\ k >= 1 /\ k + 1 \in DOMAIN s /\ t[k] = s[k + 1]
                             /\ t[k].topfd \in Nat /\ t[k].topfd <= last
  BY LeftFacts
<1>2. /\ f \in Seq(Save) /\ s \in Seq(Frame) /\ s # <<>> /\ ~ IsSub(s, 1)
      /\ \A j \in DOMAIN f : j <= last \/ f[j].subshell => \E i \in DOMAIN g : e[i] = j
  BY DEF Left, IsBlock, IsSub
<1>3. \A i : i \in O <=> i \in DOMAIN f /\ last < i /\ ~ f[i].subshell
  BY DEF Own, Part
<1>4. \A i, j \in O : f[i].orig = f[j].orig => i = j
  BY <1>1 DEF Blocks
<1> HIDE DEF last, O
<1>5. SUFFICES ASSUME NEW k \in DOMAIN t, IsSub(t, k)
               PROVE  /\ \A n \in Fd : \/ x[n] = t[k].before[n]
                                       \/ \E i \in DOMAIN g : t[k].topfd < i /\ g[i].orig = n
                      /\ \A i \in DOMAIN g : t[k].topfd < i /\ First(g, t, k, i) =>
                            g[i].was = t[k].before[g[i].orig]
  BY DEF Returns
<1> DEFINE l == k + 1
<1>6. l \in DOMAIN s /\ t[k] = s[l] /\ IsSub(s, l) /\ t[k].topfd \in Nat /\ t[k].topfd <= last
  BY <1>1, <1>5 DEF IsSub
<1>7. /\ \A i \in DOMAIN g : /\ g[i] = f[e[i]] /\ e[i] \in DOMAIN f
                             /\ (t[k].topfd < i <=> t[k].topfd < e[i])
                             /\ (i <= last <=> e[i] <= last) /\ (i <= last => e[i] = i)
                             /\ i > last => f[e[i]].subshell
      /\ \A i, j \in DOMAIN g : i < j <=> e[i] < e[j]
  BY LeftPlace DEF last
<1> HIDE DEF l, t
<1>8. /\ \A n \in Fd : \/ w[n] = s[l].before[n]
                       \/ \E i \in DOMAIN f : s[l].topfd < i /\ f[i].orig = n
      /\ \A i \in DOMAIN f : s[l].topfd < i /\ First(f, s, l, i) => f[i].was = s[l].before[f[i].orig]
  BY <1>6 DEF Returns
<1>9. \A j \in DOMAIN f : j \in O \/ \E i \in DOMAIN g : e[i] = j
  BY <1>1, <1>2, <1>3
<1>10. ASSUME NEW n \in Fd, \A i \in DOMAIN g : t[k].topfd < i => g[i].orig # n
       PROVE  x[n] = t[k].before[n]
  <2>1. \A j \in DOMAIN f : s[l].topfd < j /\ f[j].orig = n => j \in O
    BY <1>6, <1>7, <1>9, <1>10
  <2>2. CASE \E j \in O : f[j].orig = n
    <3>1. PICK j \in O : f[j].orig = n
      BY <2>2
    <3>2. j \in DOMAIN f /\ s[l].topfd < j
      BY <1>1, <1>3, <1>6, <3>1
    <3>3. First(f, s, l, j)
      <4>1. SUFFICES ASSUME NEW i \in DOMAIN f, s[l].topfd < i, i < j, f[i].orig = f[j].orig
                     PROVE  FALSE
        BY DEF First
      <4>2. i \in O
        BY <2>1, <3>1, <4>1
      <4>3. i = j
        BY <1>4, <3>1, <4>1, <4>2
      <4>4. QED
        BY <1>1, <3>2, <4>1, <4>3
    <3>4. f[j].was = s[l].before[n]
      BY <1>8, <3>1, <3>2, <3>3
    <3>5. x[n] = f[j].was
      BY <3>1 DEF O
    <3>6. QED
      BY <1>6, <3>4, <3>5
  <2>3. CASE \A j \in O : f[j].orig # n
    <3>1. x[n] = w[n]
      BY <2>3 DEF O
    <3>2. ~ \E i \in DOMAIN f : s[l].topfd < i /\ f[i].orig = n
      BY <2>1, <2>3
    <3>3. QED
      BY <1>6, <1>8, <3>1, <3>2
  <2>4. QED
    BY <2>2, <2>3
<1>11. ASSUME NEW i \in DOMAIN g, t[k].topfd < i, First(g, t, k, i)
       PROVE  g[i].was = t[k].before[g[i].orig]
  <2> DEFINE p == e[i]
  <2>1. p \in DOMAIN f /\ s[l].topfd < p /\ g[i] = f[p] /\ p \in Nat
    BY <1>1, <1>6, <1>7, <1>11
  <2>2. First(f, s, l, p)
    <3>1. SUFFICES ASSUME NEW j \in DOMAIN f, s[l].topfd < j, j < p, f[j].orig = f[p].orig
                   PROVE  FALSE
      BY DEF First
    <3>2. CASE \E m \in DOMAIN g : e[m] = j
      <4>1. PICK m \in DOMAIN g : e[m] = j
        BY <3>2
      <4>2. m < i /\ t[k].topfd < m /\ g[m].orig = g[i].orig
        BY <1>6, <1>7, <2>1, <3>1, <4>1
      <4>3. QED
        BY <1>11, <4>1, <4>2 DEF First
    <3>3. CASE j \in O
      <4>1. last < j
        BY <1>3, <3>3
      <4>2. last < p
        BY <1>1, <2>1, <3>1, <4>1
      <4>3. f[p].subshell
        <5>1. ~ (i <= last)
          BY <1>1, <1>7, <2>1, <4>2
        <5>2. i > last
          BY <1>1, <5>1
        <5>3. QED
          BY <1>7, <5>2
      <4>4. s[1].topfd < p /\ s[1].topfd < j
        BY <4>1, <4>2 DEF last
      <4> HIDE DEF p
      <4>5. f[j].orig # f[p].orig
        BY <1>2, <1>6, <2>1, <3>1, <4>3, <4>4, InnerFirst
      <4>6. QED
        BY <3>1, <4>5
    <3>4. QED
      BY <1>9, <3>2, <3>3
  <2> HIDE DEF p
  <2>3. QED
    BY <1>6, <1>8, <2>1, <2>2
<1>12. QED
  BY <1>10, <1>11

LEMMA LeftReturnsSub ==
    ASSUME NEW f, NEW s, NEW g, NEW e, Left(f, s, g, e), Framed(f, s),
           NEW w, Returns(f, s, w), IsSub(s, 1), NEW x, \A n \in Fd : x[n] = s[1].before[n]
    PROVE  Returns(g, Tail(s), x)
<1> DEFINE t == Tail(s)
           last == s[1].topfd
<1>1. /\ last \in Nat /\ 1 \in DOMAIN s /\ DOMAIN f = 1..Len(f) /\ Len(f) \in Nat
      /\ \A i \in DOMAIN f : i \in Nat /\ i >= 1
      /\ \A i \in DOMAIN g : i \in Nat /\ i >= 1 /\ e[i] \in DOMAIN f /\ e[i] \in Nat
      /\ \A k \in DOMAIN t : /\ k \in Nat /\ k >= 1 /\ k + 1 \in DOMAIN s /\ t[k] = s[k + 1]
                             /\ t[k].topfd \in Nat /\ t[k].topfd <= last
  BY LeftFacts
<1>2. /\ f \in Seq(Save)
      /\ \A j \in DOMAIN f : j <= last => \E i \in DOMAIN g : e[i] = j
      /\ \A i \in DOMAIN g : ~ (i > last) /\ (i <= last => e[i] = i) /\ g[i] = f[e[i]]
  BY DEF Left
<1>3. \A i \in DOMAIN g : i \in DOMAIN f /\ i <= last /\ e[i] = i /\ g[i] = f[i]
  BY <1>1, <1>2
<1>4. \A j \in DOMAIN f : j <= last => j \in DOMAIN g
  BY <1>2, <1>3
<1>5. /\ \A n \in Fd : \/ w[n] = s[1].before[n]
                       \/ \E i \in DOMAIN f : last < i /\ f[i].orig = n
      /\ \A i \in DOMAIN f : last < i /\ First(f, s, 1, i) => f[i].was = s[1].before[f[i].orig]
  BY <1>1 DEF Returns
<1>6. SUFFICES ASSUME NEW k \in DOMAIN t, IsSub(t, k)
               PROVE  /\ \A n \in Fd : \/ x[n] = t[k].before[n]
                                       \/ \E i \in DOMAIN g : t[k].topfd < i /\ g[i].orig = n
                      /\ \A i \in DOMAIN g : t[k].topfd < i /\ First(g, t, k, i) =>
                            g[i].was = t[k].before[g[i].orig]
  BY DEF Returns
<1> DEFINE l == k + 1
<1>7. l \in DOMAIN s /\ t[k] = s[l] /\ IsSub(s, l) /\ t[k].topfd \in Nat /\ t[k].topfd <= last
  BY <1>1, <1>6 DEF IsSub
<1> HIDE DEF l, t
<1>8. /\ \A n \in Fd : \/ w[n] = s[l].before[n]
                       \/ \E i \in DOMAIN f : s[l].topfd < i /\ f[i].orig = n
      /\ \A i \in DOMAIN f : s[l].topfd < i /\ First(f, s, l, i) => f[i].was = s[l].before[f[i].orig]
  BY <1>7 DEF Returns
<1>9. ASSUME NEW n \in Fd, \A i \in DOMAIN g : t[k].topfd < i => g[i].orig # n
      PROVE  x[n] = t[k].before[n]
  <2> DEFINE J == {j \in DOMAIN f : last < j /\ f[j].orig = n}
  <2>1. \A j \in DOMAIN f : s[l].topfd < j /\ f[j].orig = n => j \in J
    <3>1. SUFFICES ASSUME NEW j \in DOMAIN f, s[l].topfd < j, f[j].orig = n, j <= last
                   PROVE  FALSE
      BY <1>1
    <3>2. j \in DOMAIN g
      BY <1>4, <3>1
    <3>3. QED
      BY <1>3, <1>7, <1>9, <3>1, <3>2
  <2>2. CASE J = {}
    <3>1. w[n] = s[1].before[n] /\ w[n] = s[l].before[n]
      BY <1>5, <1>8, <2>1, <2>2
    <3>2. QED
      BY <1>7, <3>1
  <2>3. CASE J # {}
    <3>1. J \in SUBSET Nat
      BY <1>1
    <3>2. PICK j \in J : \A i \in J : j <= i
      <4> HIDE DEF J
      <4>1. QED
        BY <2>3, <3>1, Least
    <3>3. j \in DOMAIN f /\ last < j /\ f[j].orig = n /\ s[l].topfd < j
      BY <1>1, <1>7, <3>2
    <3>4. \A i \in DOMAIN f : i < j => i \notin J
      BY <1>1, <3>2, <3>3
    <3>5. First(f, s, 1, j)
      BY <3>3, <3>4 DEF First, last
    <3>6. First(f, s, l, j)
      BY <2>1, <3>3, <3>4 DEF First
    <3>7. QED
      BY <1>5, <1>7, <1>8, <3>3, <3>5, <3>6
  <2>4. QED
    BY <2>2, <2>3
<1>10. ASSUME NEW i \in DOMAIN g, t[k].topfd < i, First(g, t, k, i)
       PROVE  g[i].was = t[k].before[g[i].orig]
  <2>1. i \in DOMAIN f /\ g[i] = f[i] /\ i <= last /\ s[l].topfd < i
    BY <1>3, <1>7, <1>10
  <2>2. First(f, s, l, i)
    <3>1. SUFFICES ASSUME NEW j \in DOMAIN f, s[l].topfd < j, j < i
                   PROVE  f[j].orig # f[i].orig
      BY DEF First
    <3>2. j <= last
      BY <1>1, <2>1, <3>1
    <3>3. j \in DOMAIN g /\ g[j] = f[j]
      BY <1>3, <1>4, <3>2
    <3>4. QED
      BY <1>7, <1>10, <2>1, <3>1, <3>3 DEF First
  <2>3. QED
    BY <1>7, <1>8, <2>1, <2>2
<1>11. QED
  BY <1>9, <1>10

(* What sh_iorestore does at the end of a command: what is left, and what the program
   sees then, x, where it saw w. *)
Undone(f, s, n, j) ==
    j \in DOMAIN f /\ j > s[1].topfd /\ f[j].orig = n /\ (IsSub(s, 1) \/ ~ f[j].subshell)
Back(f, s, w, g, x) ==
    /\ \E e : Left(f, s, g, e)
    /\ \A n \in Fd : (\A j : ~ Undone(f, s, n, j)) => x[n] = w[n]
    /\ \A n \in Fd : \A j : Undone(f, s, n, j) /\ (\A k : Undone(f, s, n, k) => j <= k) =>
          x[n] = f[j].was

LEMMA LeaveBack ==
    ASSUME TypeOK, Held, Layered, Faithful', stack # <<>>, NEW all \in BOOLEAN, Leave(all),
           all = TRUE <=> IsSub(stack, 1)
    PROVE  /\ Held' /\ Back(io.filemap, stack, View(io), io'.filemap, View(io)')
           /\ stack' = Tail(stack) /\ forks' = forks /\ io' \in Io
<1> DEFINE last == stack[1].topfd
<1>1. /\ Head(stack) = stack[1] /\ 1 \in DOMAIN stack /\ stack \in Seq(Frame) /\ io \in Io
      /\ last \in Nat /\ last <= Len(io.filemap) /\ Len(io.filemap) \in Nat /\ io.filemap \in Seq(Save)
      /\ DOMAIN io.filemap = 1..Len(io.filemap)
  <2>1. Head(stack) = stack[1] /\ 1 \in DOMAIN stack /\ stack \in Seq(Frame)
    BY StackFacts
  <2>2. last <= Len(io.filemap)
    BY <2>1 DEF Layered, Layers, Framed
  <2>3. QED
    BY <2>1, <2>2, Indices
<1>2. /\ io' = sh_iorestore(io, last, all) /\ stack' = Tail(stack) /\ forks' = forks
      /\ lapse' = lapse \cup (IF ~ all /\ Moves(last) THEN {"moved"} ELSE {})
                        \cup (IF Takes(last, all) THEN {"taken"} ELSE {})
  BY <1>1 DEF Leave
<1> HIDE DEF last
<1>3. NotTaken(io, last, all)
  <2>1. ~ Takes(last, all)
    BY <1>2 DEF Faithful
  <2>2. QED
    BY <2>1 DEF Takes, NotTaken, Live
<1>4. Restoring(io, last, all, io')
  BY <1>1, <1>2, <1>3, RestoreHolds DEF Held
<1>5. lapse' = {} => lapse = {} /\ (all \/ NotMoved(io, last))
  <2>1. lapse' = {} => lapse = {} /\ ~ (~ all /\ Moves(last))
    BY <1>2
  <2>2. ~ Moves(last) => NotMoved(io, last)
    BY DEF Moves, NotMoved
  <2>3. QED
    BY <2>1, <2>2
<1>6. Held'
  BY <1>4, <1>5 DEF Held, Restoring
<1>7. io' \in Io /\ io'.filemap \in Seq(Save)
  BY <1>4, IoFields DEF Restoring
<1>8. \E e : Left(io.filemap, stack, io'.filemap, e)
  <2>1. PICK e : Brought(io, io', last, all, e)
    BY <1>4 DEF Restoring
  <2>2. /\ e \in [DOMAIN io'.filemap -> DOMAIN io.filemap] /\ Len(io'.filemap) >= last
        /\ \A k \in DOMAIN io'.filemap :
              /\ io'.filemap[k] = io.filemap[e[k]] /\ e[k] >= k
              /\ k <= last => e[k] = k
              /\ k > last => e[k] > last /\ io.filemap[e[k]].subshell /\ ~ IsSub(stack, 1)
        /\ \A k, l \in DOMAIN io'.filemap : k < l => e[k] < e[l]
    BY <2>1 DEF Brought
  <2>3. \A j \in DOMAIN io.filemap : j <= last \/ (io.filemap[j].subshell /\ ~ IsSub(stack, 1)) =>
           \E k \in DOMAIN io'.filemap : e[k] = j
    BY <2>1 DEF Brought, Live
  <2>4. QED
    BY <1>1, <1>7, <2>2, <2>3 DEF Left, last
<1>9. \A n, j : Put(io, all, last, n, j) <=> Undone(io.filemap, stack, n, j)
  BY DEF Put, Undone, last
<1>10. Back(io.filemap, stack, View(io), io'.filemap, View(io)')
  BY <1>4, <1>8, <1>9 DEF Back, Restoring
<1>11. QED
  BY <1>2, <1>6, <1>7, <1>10

(* The same, when the command is a block or function, and what it had redirected. *)
LEMMA BackBlock ==
    ASSUME NEW f \in Seq(Save), NEW s \in Seq(Frame), s # <<>>, NEW w, NEW g, NEW x, Back(f, s, w, g, x),
           Layers(f, s, w), IsBlock(s, 1)
    PROVE  /\ Layers(g, Tail(s), x)
           /\ \A n \in Fd : x[n] = IF n \in DOMAIN s[1].before THEN s[1].before[n] ELSE w[n]
<1> DEFINE O == Own(f, s, 1)
<1>1. PICK e : Left(f, s, g, e)
  BY DEF Back
<1>2. Framed(f, s) /\ Blocks(f, s) /\ Subshells(f, s) /\ Returns(f, s, w)
  BY DEF Layers
<1>3. 1 \in DOMAIN s /\ ~ IsSub(s, 1) /\ \A i \in DOMAIN f : i \in Nat
  BY DEF IsBlock, IsSub
<1>4. \A n, j : Undone(f, s, n, j) <=> j \in O /\ f[j].orig = n
  BY <1>3 DEF Own, Part, Undone
<1>5. /\ \A i \in O : f[i].orig \in DOMAIN s[1].before /\ f[i].was = s[1].before[f[i].orig]
      /\ \A n \in DOMAIN s[1].before : \E i \in O : f[i].orig = n
      /\ \A i, j \in O : f[i].orig = f[j].orig => i = j
  BY <1>2, <1>3 DEF Blocks
<1>6. \A i \in O : i \in DOMAIN f /\ i \in Nat /\ f[i].orig \in Fd
  <2>1. \A i \in O : i \in DOMAIN f
    BY DEF Own, Part
  <2>2. \A i \in DOMAIN f : f[i] \in Save
    OBVIOUS
  <2>3. QED
    BY <1>3, <2>1, <2>2, SaveFields
<1>7. \A n \in Fd : (\A j \in O : f[j].orig # n) => x[n] = w[n]
  BY <1>4 DEF Back
<1>8. ASSUME NEW j \in O
      PROVE  x[f[j].orig] = f[j].was
  <2>1. Undone(f, s, f[j].orig, j)
    BY <1>4
  <2>2. ASSUME NEW k, Undone(f, s, f[j].orig, k)
        PROVE  j <= k
    <3>1. k = j
      BY <1>4, <1>5, <2>2
    <3>2. QED
      BY <1>6, <3>1
  <2>3. QED
    BY <1>6, <2>1, <2>2 DEF Back
<1>9. Returns(g, Tail(s), x)
  BY <1>1, <1>2, <1>7, <1>8, LeftReturnsBlock
<1>10. Layers(g, Tail(s), x)
  BY <1>1, <1>2, <1>9, LeftFramed, LeftBlocks, LeftSubshells DEF Layers
<1>11. ASSUME NEW n \in Fd
       PROVE  x[n] = IF n \in DOMAIN s[1].before THEN s[1].before[n] ELSE w[n]
  <2> HIDE DEF O
  <2>1. CASE n \in DOMAIN s[1].before
    <3>1. PICK i \in O : f[i].orig = n
      BY <1>5, <2>1
    <3>2. QED
      BY <1>5, <1>8, <2>1, <3>1
  <2>2. CASE n \notin DOMAIN s[1].before
    <3>1. \A j \in O : f[j].orig # n
      BY <1>5, <2>2
    <3>2. QED
      BY <1>7, <2>2, <3>1
  <2>3. QED
    BY <2>1, <2>2
<1>12. QED
  BY <1>10, <1>11

(* And when it is a subshell. *)
LEMMA BackSub ==
    ASSUME NEW f \in Seq(Save), NEW s \in Seq(Frame), s # <<>>, NEW w, NEW g, NEW x, Back(f, s, w, g, x),
           Layers(f, s, w), IsSub(s, 1)
    PROVE  /\ Layers(g, Tail(s), x)
           /\ DOMAIN s[1].before = Fd /\ \A n \in Fd : x[n] = s[1].before[n]
<1>1. PICK e : Left(f, s, g, e)
  BY DEF Back
<1>2. Framed(f, s) /\ Blocks(f, s) /\ Subshells(f, s) /\ Returns(f, s, w)
  BY DEF Layers
<1>3. 1 \in DOMAIN s /\ \A i \in DOMAIN f : i \in Nat
  OBVIOUS
<1>4. DOMAIN s[1].before = Fd
  BY <1>2, <1>3 DEF Framed, IsSub
<1>5. ASSUME NEW n \in Fd
      PROVE  x[n] = s[1].before[n]
  <2> DEFINE J == {j \in DOMAIN f : Undone(f, s, n, j)}
  <2>1. \A j : j \in J <=> j \in DOMAIN f /\ s[1].topfd < j /\ f[j].orig = n
    <3>1. s[1] \in Frame
      BY <1>3
    <3>2. s[1].topfd \in Nat
      BY <3>1, FrameFields
    <3>3. QED
      BY <1>3, <3>2 DEF Undone
  <2>2. \A j : Undone(f, s, n, j) <=> j \in J
    BY DEF Undone
  <2> HIDE DEF J
  <2>3. CASE J = {}
    <3>1. x[n] = w[n]
      BY <2>2, <2>3 DEF Back
    <3>2. w[n] = s[1].before[n]
      BY <1>2, <1>3, <2>1, <2>3 DEF Returns
    <3>3. QED
      BY <3>1, <3>2
  <2>4. CASE J # {}
    <3>1. J \in SUBSET Nat
      BY <1>3, <2>1
    <3>2. PICK j \in J : \A i \in J : j <= i
      BY <2>4, <3>1, Least
    <3>3. x[n] = f[j].was
      BY <2>2, <3>2 DEF Back
    <3>4. j \in DOMAIN f /\ s[1].topfd < j /\ f[j].orig = n
      BY <2>1
    <3>5. First(f, s, 1, j)
      <4>1. SUFFICES ASSUME NEW i \in DOMAIN f, s[1].topfd < i, i < j, f[i].orig = f[j].orig
                     PROVE  FALSE
        BY DEF First
      <4>2. j <= i
        BY <2>1, <3>2, <3>4, <4>1
      <4>3. QED
        BY <1>3, <3>4, <4>1, <4>2
    <3>6. f[j].was = s[1].before[n]
      BY <1>2, <1>3, <3>4, <3>5 DEF Returns
    <3>7. QED
      BY <3>3, <3>6
  <2>5. QED
    BY <2>3, <2>4
<1>6. Returns(g, Tail(s), x)
  BY <1>1, <1>2, <1>5, LeftReturnsSub
<1>7. Layers(g, Tail(s), x)
  BY <1>1, <1>2, <1>6, LeftFramed, LeftBlocks, LeftSubshells DEF Layers
<1>8. QED
  BY <1>4, <1>5, <1>7

(* exec is over, and what it noted is left in filemap. *)
LEMMA LayersExec ==
    ASSUME NEW f \in Seq(Save), NEW s \in Seq(Frame), s # <<>>, NEW w, Layers(f, s, w), s[1].kind = "exec"
    PROVE  Layers(f, Tail(s), w) /\ (Rooted(f, s) => Rooted(f, Tail(s)))
<1> DEFINE t == Tail(s)
           last == s[1].topfd
<1>1. /\ DOMAIN s = 1..Len(s) /\ Len(s) \in Nat /\ 1 \in DOMAIN s /\ t \in Seq(Frame)
      /\ Len(t) = Len(s) - 1 /\ DOMAIN t = 1..Len(s) - 1
      /\ \A k \in DOMAIN t : t[k] = s[k + 1]
      /\ DOMAIN f = 1..Len(f) /\ Len(f) \in Nat
  OBVIOUS
<1> HIDE DEF t
<1>2. /\ \A k \in DOMAIN t : /\ k \in Nat /\ k >= 1 /\ k + 1 \in DOMAIN s /\ k + 1 > 1 /\ (k + 1) - 1 = k
                             /\ k > 1 => k - 1 \in DOMAIN t /\ (k - 1) + 1 = k
      /\ \A k \in DOMAIN s : k = 1 \/ (k - 1 \in DOMAIN t /\ (k - 1) + 1 = k /\ t[k - 1] = s[k])
  BY <1>1
<1>3. /\ Framed(f, s) /\ Blocks(f, s) /\ Execs(f, s) /\ Subshells(f, s) /\ Returns(f, s, w)
      /\ ~ IsSub(s, 1) /\ \A i \in DOMAIN f : i \in Nat
      /\ last \in Nat
  <2>1. s[1] \in Frame
    BY <1>1
  <2>2. QED
    BY <1>1, <2>1, FrameFields DEF Layers, IsSub
<1>4. \A k \in DOMAIN t : (IsSub(t, k) <=> IsSub(s, k + 1)) /\ (IsBlock(t, k) <=> IsBlock(s, k + 1))
  BY <1>1 DEF IsSub, IsBlock
<1>5. \A k \in DOMAIN t : ~ t[k].redirect /\ t[k].kind # "exec"
  <2>1. \A k \in DOMAIN t : ~ t[k].redirect
    BY <1>1, <1>2, <1>3 DEF Framed
  <2>2. \A k \in DOMAIN s : s[k].kind = "exec" => s[k].redirect
    BY <1>3 DEF Framed
  <2>3. QED
    BY <1>1, <1>2, <2>1, <2>2
<1>6. Framed(f, t) /\ Execs(f, t)
  <2>1. \A k \in DOMAIN t : /\ t[k].kind = "sub" => DOMAIN t[k].before = Fd
                            /\ t[k].topfd <= Len(f)
    <3>1. \A k \in DOMAIN s : /\ s[k].kind = "sub" => DOMAIN s[k].before = Fd
                              /\ s[k].topfd <= Len(f)
      BY <1>3 DEF Framed
    <3>2. QED
      BY <1>1, <1>2, <3>1
  <2>2. \A k, l \in DOMAIN t : k < l => t[l].topfd <= t[k].topfd
    <3>1. \A k, l \in DOMAIN t : k < l => k + 1 < l + 1
      BY <1>2
    <3>2. QED
      BY <1>1, <1>2, <1>3, <3>1 DEF Framed
  <2>3. QED
    BY <1>5, <2>1, <2>2 DEF Framed, Execs
<1>7. ASSUME NEW k \in DOMAIN t, IsBlock(t, k)
      PROVE  Own(f, t, k) = Own(f, s, k + 1)
  <2>1. IsBlock(s, k + 1) /\ k + 1 \in DOMAIN s /\ t[k] = s[k + 1]
    BY <1>1, <1>2, <1>4, <1>7
  <2>2. \A i : i \in Own(f, s, k + 1) <=>
              i \in DOMAIN f /\ t[k].topfd < i /\ i <= s[k].topfd /\ ~ f[i].subshell
    BY <1>2, <2>1 DEF Own, Part
  <2>3. CASE k = 1
    <3>1. Own(f, s, 1) = {}
      <4>1. IsBlock(s, 2)
        BY <2>1, <2>3
      <4>2. ~ IsSub(s, 2)
        BY <4>1 DEF IsBlock, IsSub
      <4>3. QED
        BY <1>1, <1>3, <4>2 DEF Execs
    <3>2. \A i \in DOMAIN f : ~ f[i].subshell => i <= last
      <4>1. \A i : i \in Own(f, s, 1) <=> i \in DOMAIN f /\ last < i /\ ~ f[i].subshell
        BY DEF Own, Part
      <4> HIDE DEF last
      <4>2. QED
        BY <1>3, <3>1, <4>1
    <3>3. \A i : i \in Own(f, t, k) <=> i \in DOMAIN f /\ t[k].topfd < i /\ ~ f[i].subshell
      BY <2>3 DEF Own, Part
    <3>4. QED
      BY <2>2, <2>3, <3>2, <3>3
  <2>4. CASE k # 1
    <3>1. k > 1 /\ t[k - 1] = s[k]
      BY <1>1, <1>2, <2>4
    <3>2. \A i : i \in Own(f, t, k) <=> i \in DOMAIN f /\ t[k].topfd < i /\ i <= s[k].topfd /\ ~ f[i].subshell
      BY <3>1 DEF Own, Part
    <3>3. QED
      BY <2>2, <3>2
  <2>5. QED
    BY <2>3, <2>4
<1>8. Blocks(f, t)
  <2>1. SUFFICES ASSUME NEW k \in DOMAIN t, IsBlock(t, k)
                 PROVE  /\ \A i \in Own(f, t, k) : f[i].orig \in DOMAIN t[k].before /\ f[i].was = t[k].before[f[i].orig]
                        /\ \A n \in DOMAIN t[k].before : \E i \in Own(f, t, k) : f[i].orig = n
                        /\ \A i, j \in Own(f, t, k) : f[i].orig = f[j].orig => i = j
                        /\ t[k].redirect => Own(f, t, k) = Part(f, t, k)
    BY DEF Blocks
  <2> DEFINE l == k + 1
             O == Own(f, s, l)
  <2>2. l \in DOMAIN s /\ t[k] = s[l] /\ IsBlock(s, l) /\ Own(f, t, k) = O /\ ~ t[k].redirect
    BY <1>1, <1>2, <1>4, <1>5, <1>7, <2>1
  <2> HIDE DEF l
  <2>3. /\ \A i \in O : f[i].orig \in DOMAIN s[l].before /\ f[i].was = s[l].before[f[i].orig]
        /\ \A n \in DOMAIN s[l].before : \E i \in O : f[i].orig = n
        /\ \A i, j \in O : f[i].orig = f[j].orig => i = j
    BY <1>3, <2>2 DEF Blocks
  <2> HIDE DEF O
  <2>4. QED
    BY <2>2, <2>3
<1>9. \A k \in DOMAIN t : \A i \in DOMAIN f : First(f, t, k, i) <=> First(f, s, k + 1, i)
  BY <1>1 DEF First
<1>10. ASSUME NEW k \in DOMAIN t, NEW i \in DOMAIN f
       PROVE  Owner(t, k, i) <=> Owner(s, k + 1, i)
  <2>1. \A m \in 1..k - 1 : m \in DOMAIN t /\ m + 1 \in 1..k
    BY <1>1
  <2>2. \A m \in 1..k : m = 1 \/ (m - 1 \in 1..k - 1 /\ (m - 1) + 1 = m)
    BY <1>1
  <2>3. (\A m \in 1..k - 1 : IsSub(t, m) => i <= t[m].topfd) <=> (\A m \in 1..k : IsSub(s, m) => i <= s[m].topfd)
    <3>1. ASSUME \A m \in 1..k - 1 : IsSub(t, m) => i <= t[m].topfd, NEW m \in 1..k, IsSub(s, m)
          PROVE  i <= s[m].topfd
      <4>1. m # 1
        BY <1>3, <3>1
      <4>2. m - 1 \in 1..k - 1 /\ (m - 1) + 1 = m
        BY <2>2, <4>1
      <4>3. QED
        BY <1>1, <1>4, <2>1, <3>1, <4>2
    <3>2. ASSUME \A m \in 1..k : IsSub(s, m) => i <= s[m].topfd, NEW m \in 1..k - 1, IsSub(t, m)
          PROVE  i <= t[m].topfd
      BY <1>1, <1>4, <2>1, <3>2
    <3>3. QED
      BY <3>1, <3>2
  <2>4. t[k] = s[k + 1] /\ (k + 1) - 1 = k /\ (IsSub(t, k) <=> IsSub(s, k + 1))
    BY <1>1, <1>2, <1>4
  <2>5. QED
    BY <2>3, <2>4 DEF Owner
<1>11. Subshells(f, t)
  <2>1. SUFFICES ASSUME NEW k \in DOMAIN t, IsSub(t, k)
                 PROVE  /\ \A n \in t[k].fdsaved : \E i \in DOMAIN f : Owner(t, k, i) /\ f[i].subshell /\ f[i].orig = n
                        /\ \A i \in DOMAIN f : Owner(t, k, i) /\ f[i].subshell => First(f, t, k, i)
    BY DEF Subshells
  <2>2. k + 1 \in DOMAIN s /\ IsSub(s, k + 1) /\ t[k] = s[k + 1]
    BY <1>1, <1>2, <1>4, <2>1
  <2>3. QED
    BY <1>3, <1>9, <1>10, <2>2 DEF Subshells
<1>12. Returns(f, t, w)
  <2>1. SUFFICES ASSUME NEW k \in DOMAIN t, IsSub(t, k)
                 PROVE  /\ \A n \in Fd : \/ w[n] = t[k].before[n]
                                         \/ \E i \in DOMAIN f : t[k].topfd < i /\ f[i].orig = n
                        /\ \A i \in DOMAIN f : t[k].topfd < i /\ First(f, t, k, i) =>
                              f[i].was = t[k].before[f[i].orig]
    BY DEF Returns
  <2>2. k + 1 \in DOMAIN s /\ IsSub(s, k + 1) /\ t[k] = s[k + 1]
    BY <1>1, <1>2, <1>4, <2>1
  <2>3. QED
    BY <1>3, <1>9, <2>2 DEF Returns
<1>13. ASSUME Rooted(f, s)
       PROVE  Rooted(f, t)
  <2>1. \A i \in DOMAIN f : f[i].subshell => \E k \in DOMAIN t : IsSub(t, k) /\ t[k].topfd < i
    <3>1. SUFFICES ASSUME NEW i \in DOMAIN f, f[i].subshell
                   PROVE  \E k \in DOMAIN t : IsSub(t, k) /\ t[k].topfd < i
      OBVIOUS
    <3>2. PICK l \in DOMAIN s : IsSub(s, l) /\ s[l].topfd < i
      BY <1>13, <3>1 DEF Rooted
    <3>3. l # 1
      BY <1>3, <3>2
    <3>4. QED
      BY <1>2, <3>2, <3>3 DEF IsSub
  <2>2. s[Len(s)].topfd = 0
    BY <1>13 DEF Rooted
  <2>3. t # <<>> => t[Len(t)].topfd = 0
    <3>1. SUFFICES ASSUME t # <<>>
                   PROVE  t[Len(t)].topfd = 0
      OBVIOUS
    <3>2. Len(t) \in Nat /\ Len(t) # 0
      <4>1. t \in Seq(Frame)
        BY <1>1
      <4>2. QED
        BY <3>1, <4>1
    <3>3. Len(t) \in DOMAIN t /\ Len(t) + 1 = Len(s)
      BY <1>1, <3>2
    <3>4. QED
      BY <1>1, <2>2, <3>3
  <2>4. t = <<>> => f = <<>>
    <3>1. SUFFICES ASSUME t = <<>>
                   PROVE  f = <<>>
      OBVIOUS
    <3>2. Len(s) = 1 /\ DOMAIN t = {}
      <4>1. DOMAIN t = {}
        BY <3>1
      <4>2. Len(s) >= 2 => 1 \in DOMAIN t
        BY <1>1
      <4>3. Len(s) >= 1
        BY <1>1
      <4> DEFINE n == Len(s)
      <4>4. n \in Nat /\ n >= 1 /\ ~ (n >= 2)
        BY <1>1, <4>1, <4>2, <4>3, Zenon
      <4>5. n = 1
        <5> HIDE DEF n
        <5>1. QED
          BY <4>4
      <4>6. QED
        BY <4>1, <4>5, Zenon
    <3>3. last = 0
      BY <2>2, <3>2
    <3>4. Own(f, s, 1) = {}
      BY <1>1, <1>3, <3>2 DEF Execs
    <3>5. \A i \in DOMAIN f : FALSE
      <4>1. SUFFICES ASSUME NEW i \in DOMAIN f, ~ f[i].subshell
                     PROVE  FALSE
        BY <2>1, <3>2
      <4>2. last < i
        BY <1>1, <3>3
      <4>3. i \in Own(f, s, 1)
        BY <4>1, <4>2 DEF Own, Part
      <4>4. QED
        BY <3>4, <4>3
    <3>6. Len(f) = 0
      <4>1. Len(f) >= 1 => 1 \in DOMAIN f
        BY <1>1
      <4>2. QED
        BY <1>1, <3>5, <4>1
    <3>7. QED
      BY <3>6
  <2>5. QED
    BY <2>1, <2>3, <2>4 DEF Rooted
<1>14. QED
  BY <1>6, <1>8, <1>11, <1>12, <1>13 DEF Layers, t

(* The ends of commands, and what they restore. *)
LEMMA StepLeave ==
    ASSUME TypeOK, Held, Layered, Faithful', stack # <<>>,
           (IsSub(stack, 1) /\ Leave(TRUE)) \/ (IsBlock(stack, 1) /\ Leave(FALSE))
    PROVE  Held' /\ Layered' /\ View(io)' = Over(Head(stack).before, View(io))
<1> DEFINE f == io.filemap
           s == stack
           w == View(io)
           g == io'.filemap
           x == View(io)'
           b == Head(stack).before
<1>1. /\ f \in Seq(Save) /\ s \in Seq(Frame) /\ w \in PartialFd /\ DOMAIN w = Fd
      /\ Head(stack) = s[1] /\ b \in PartialFd /\ DOMAIN b \in SUBSET Fd
      /\ Layers(f, s, w) /\ (forks = 0 => Rooted(f, s)) /\ Framed(f, s)
  <2>1. io \in Io
    BY DEF TypeOK
  <2>2. Layers(f, s, w) /\ (forks = 0 => Rooted(f, s)) /\ Framed(f, s)
    BY DEF Layered, Layers
  <2>3. s \in Seq(Frame) /\ Head(stack) = s[1] /\ Head(stack) \in Frame
    BY StackFacts
  <2>4. QED
    BY <2>1, <2>2, <2>3, ViewFacts, Indices, FrameFields
<1>2. /\ Held' /\ Back(f, s, w, g, x) /\ stack' = Tail(s) /\ forks' = forks /\ io' \in Io
  <2>1. \A all \in BOOLEAN : Leave(all) /\ (all = TRUE <=> IsSub(stack, 1)) =>
           /\ Held' /\ Back(f, s, w, g, x) /\ stack' = Tail(s) /\ forks' = forks /\ io' \in Io
    BY LeaveBack
  <2>2. IsBlock(stack, 1) => ~ IsSub(stack, 1)
    BY DEF IsBlock, IsSub
  <2>3. \E all \in BOOLEAN : Leave(all) /\ (all = TRUE <=> IsSub(stack, 1))
    BY <2>2
  <2>4. QED
    BY <2>1, <2>3, Zenon
<1>3. x \in [Fd -> File \cup {Closed}]
  BY <1>2, ViewFacts
<1>4. IsSub(s, 1) \/ IsBlock(s, 1)
  OBVIOUS
<1> HIDE DEF f, s, w, g, x, b
<1>5. /\ Layers(g, Tail(s), x)
      /\ \A n \in Fd : x[n] = IF n \in DOMAIN b THEN b[n] ELSE w[n]
  <2>1. s # <<>>
    BY DEF s
  <2>2. CASE IsBlock(s, 1)
    <3>1. b = s[1].before
      BY <1>1 DEF b
    <3>2. QED
      BY <1>1, <1>2, <2>1, <2>2, <3>1, BackBlock
  <2>3. CASE IsSub(s, 1)
    <3>1. b = s[1].before
      BY <1>1 DEF b
    <3>2. QED
      BY <1>1, <1>2, <2>1, <2>3, <3>1, BackSub
  <2>4. QED
    BY <1>4, <2>2, <2>3
<1>6. forks = 0 => Rooted(g, Tail(s))
  <2>1. PICK e : Left(f, s, g, e)
    BY <1>2 DEF Back
  <2>2. QED
    BY <1>1, <2>1, LeftRooted
<1>7. Layered'
  BY <1>2, <1>5, <1>6 DEF Layered, g, x
<1>8. x = Over(b, w)
  <2>1. /\ Over(b, w) \in PartialFd /\ DOMAIN Over(b, w) = Fd
        /\ \A n \in Fd : Over(b, w)[n] = IF n \in DOMAIN b THEN b[n] ELSE w[n]
    <3>1. DOMAIN b \cup DOMAIN w = Fd
      BY <1>1
    <3>2. \A p, q \in PartialFd :
             /\ Over(p, q) \in PartialFd
             /\ DOMAIN Over(p, q) = DOMAIN p \cup DOMAIN q
             /\ \A n \in DOMAIN p \cup DOMAIN q : Over(p, q)[n] = IF n \in DOMAIN p THEN p[n] ELSE q[n]
      BY OverFacts
    <3> DEFINE o == Over(b, w)
    <3>3. /\ o \in PartialFd /\ DOMAIN o = DOMAIN b \cup DOMAIN w
          /\ \A n \in DOMAIN b \cup DOMAIN w : o[n] = IF n \in DOMAIN b THEN b[n] ELSE w[n]
      <4>1. b \in PartialFd /\ w \in PartialFd
        BY <1>1
      <4>2. QED
        BY <3>2, <4>1
    <3> HIDE DEF o
    <3>4. /\ o \in PartialFd /\ DOMAIN o = Fd
          /\ \A n \in Fd : o[n] = IF n \in DOMAIN b THEN b[n] ELSE w[n]
      BY <3>1, <3>3
    <3>5. QED
      BY <3>4 DEF o
  <2> DEFINE o == Over(b, w)
  <2>2. o \in [Fd -> File \cup {Closed}]
    BY <2>1, Partial
  <2>3. \A n \in Fd : x[n] = o[n]
    BY <1>5, <2>1
  <2> HIDE DEF o
  <2>4. x = o
    BY <1>3, <2>2, <2>3
  <2>5. QED
    BY <2>4 DEF o
<1>9. QED
  BY <1>2, <1>7, <1>8 DEF x, b, w

LEMMA StepExecEnd ==
    ASSUME TypeOK, Held, Layered, stack # <<>>, Head(stack).kind = "exec", stack' = Tail(stack),
           UNCHANGED <<io, forks, lapse>>
    PROVE  Held' /\ Layered' /\ View(io)' = Over(Head(stack).before, View(io))
<1>1. /\ io.filemap \in Seq(Save) /\ stack \in Seq(Frame) /\ Head(stack) = stack[1] /\ 1 \in DOMAIN stack
      /\ io \in Io
  BY StackFacts, Indices
<1>2. Layers(io.filemap, stack, View(io)) /\ (forks = 0 => Rooted(io.filemap, stack))
  BY DEF Layered
<1>3. Layers(io.filemap, Tail(stack), View(io)) /\ (forks = 0 => Rooted(io.filemap, Tail(stack)))
  BY <1>1, <1>2, LayersExec
<1>4. Held' /\ Layered'
  BY <1>3 DEF Held, Layered
<1>5. Head(stack).before = <<>>
  BY <1>1, <1>2 DEF Layers, Framed
<1>6. Over(<<>>, View(io)) = View(io)
  <2> DEFINE w == View(io)
  <2>1. w \in [Fd -> File \cup {Closed}]
    BY <1>1, ViewFacts
  <2> HIDE DEF w
  <2>2. Over(<<>>, w) = w
    <3>1. DOMAIN w = Fd /\ DOMAIN (<<>>) = {}
      BY <2>1
    <3>2. Over(<<>>, w) = [n \in DOMAIN w |-> w[n]]
      BY <3>1 DEF Over
    <3>3. QED
      BY <2>1, <3>1, <3>2
  <2>3. QED
    BY <2>2 DEF w
<1>7. QED
  BY <1>4, <1>5, <1>6

LEMMA StepCaught ==
    ASSUME TypeOK, Held, Layered, Caught
    PROVE  Held' /\ Layered'
<1>1. io \in Io /\ stack = <<>> /\ forks = 0 /\ io' = sh_iorestore(io, 0, FALSE)
      /\ UNCHANGED <<stack, forks, lapse>>
  BY DEF TypeOK, Caught
<1>2. io.filemap = <<>>
  BY <1>1 DEF Layered, Rooted
<1>3. 0 >= Len(io.filemap)
  BY <1>2
<1>4. io' = io
  <2>1. \A all \in BOOLEAN : sh_iorestore(io, 0, all) = io
    BY <1>1, <1>3, RestoreNothing
  <2>2. QED
    BY <1>1, <2>1, Zenon
<1>5. QED
  BY <1>1, <1>4 DEF Held, Layered

(* What a child closes is not the program's, also when entries have moved. *)
LEMMA UnsaveKeeps ==
    ASSUME NEW t \in Io,
           \A i \in DOMAIN t.filemap : t.filemap[i].save \notin t.own
    PROVE  LET r == sh_iounsave(t)
           IN  r.own = t.own /\ \A m \in Fd : m \in Low \cup t.own => r.fd[m] = t.fd[m]
<1> DEFINE n == Len(t.filemap)
           r == sh_iounsave(t)
<1>1. n \in Nat /\ t.filemap \in Seq(Save) /\ DOMAIN t.filemap = 1..n
  BY IoFields
<1>2. PICK f : /\ f[0] = [io |-> t, new |-> 0]
               /\ \A i \in 1..n :
                     LET u == f[i - 1]
                         entry == u.io.filemap[i]
                     IN  f[i] = IF entry.save # NoFd
                                THEN [u EXCEPT !.io = sh_close(u.io, entry.save)]
                                ELSE [io |-> [u.io EXCEPT !.filemap[u.new + 1] = entry],
                                      new |-> u.new + 1]
               /\ r = [f[n].io EXCEPT !.filemap = SubSeq(@, 1, f[n].new)]
  BY UnsaveLoop
<1> DEFINE G == {i \in 0..n : /\ f[i] \in [io : Io, new : 0..i]
                              /\ Len(f[i].io.filemap) = n
                              /\ f[i].io.own = t.own
                              /\ \A m \in Fd : m \in Low \cup t.own => f[i].io.fd[m] = t.fd[m]
                              /\ \A j \in 1..n : f[i].io.filemap[j].save \notin t.own}
<1>3. 0 \in G
  <2>1. f[0].io = t /\ f[0].new = 0 /\ f[0] \in [io : Io, new : 0..0] /\ 0 \in 0..n
    BY <1>1, <1>2
  <2>2. QED
    BY <1>1, <2>1
<1>4. ASSUME NEW i \in 1..n, i - 1 \in G
      PROVE  i \in G
  <2> DEFINE u == f[i - 1]
             map == u.io.filemap
             entry == map[i]
             g == [map EXCEPT ![u.new + 1] = entry]
  <2>1. /\ u \in [io : Io, new : 0..i - 1] /\ Len(map) = n /\ i \in 0..n /\ u.io.own = t.own
        /\ \A m \in Fd : m \in Low \cup t.own => u.io.fd[m] = t.fd[m]
        /\ \A j \in 1..n : map[j].save \notin t.own
    BY <1>1, <1>4
  <2>2. f[i] = IF entry.save # NoFd THEN [u EXCEPT !.io = sh_close(u.io, entry.save)]
               ELSE [io |-> [u.io EXCEPT !.filemap[u.new + 1] = entry], new |-> u.new + 1]
    BY <1>2
  <2> HIDE DEF u
  <2>3. u.io \in Io /\ u.new \in 0..i - 1 /\ map \in Seq(Save) /\ i \in DOMAIN map /\ DOMAIN map = 1..n
    BY <1>1, <2>1, IoFields
  <2>4. entry \in Save /\ entry.save \in High \cup {NoFd} /\ entry.save \notin t.own
    BY <2>1, <2>3, MapFacts
  <2>5. CASE entry.save # NoFd
    <3> DEFINE s == entry.save
               c == sh_close(u.io, s)
    <3>1. s \in Fd /\ s \in High /\ s \notin Low /\ s \notin t.own /\ NoFd \notin t.own
      BY <2>4, <2>5, Numbers, IoFields DEF Fd
    <3>2. /\ c \in Io /\ Alike(c.filemap, map)
          /\ \A j \in DOMAIN map :
                c.filemap[j].save = IF s \in High /\ u.io.fdptrs[s] = j THEN NoFd ELSE map[j].save
          /\ \A m \in Fd : c.fd[m] = IF m = s THEN Closed ELSE u.io.fd[m]
          /\ c.own = u.io.own \ {s}
      <4> HIDE DEF s
      <4>1. QED
        BY <2>3, <3>1, CloseFacts
    <3>3. f[i] = [u EXCEPT !.io = c]
      BY <2>2, <2>5
    <3> HIDE DEF s, c
    <3>4. f[i].io = c /\ f[i] \in [io : Io, new : 0..i]
      BY <2>1, <3>2, <3>3
    <3>5. Len(c.filemap) = n /\ c.own = t.own
      BY <2>1, <3>1, <3>2 DEF Alike
    <3>6. \A m \in Fd : m \in Low \cup t.own => c.fd[m] = t.fd[m]
      BY <2>1, <3>1, <3>2
    <3>7. \A j \in 1..n : c.filemap[j].save \notin t.own
      BY <2>1, <2>3, <3>1, <3>2
    <3>8. QED
      BY <2>1, <3>4, <3>5, <3>6, <3>7
  <2>6. CASE entry.save = NoFd
    <3> DEFINE d == [u.io EXCEPT !.filemap = g]
    <3>1. f[i] = [io |-> d, new |-> u.new + 1]
      BY <2>2, <2>3, <2>6 DEF Io
    <3>2. g \in Seq(Save) /\ Len(g) = n /\ \A j \in 1..n : g[j] = map[j] \/ g[j] = entry
      <4> HIDE DEF entry
      <4>1. QED
        BY <2>1, <2>3, <2>4
    <3> HIDE DEF g, d
    <3>3. d \in Io /\ d.filemap = g /\ d.own = u.io.own /\ d.fd = u.io.fd
      BY <2>3, <3>2, OtherMap DEF d
    <3>4. u.new + 1 \in 0..i
      BY <2>3
    <3>5. \A j \in 1..n : g[j].save \notin t.own
      BY <2>1, <2>4, <3>2
    <3>6. f[i].io = d /\ f[i] \in [io : Io, new : 0..i]
      BY <3>1, <3>3, <3>4
    <3>7. QED
      BY <2>1, <3>2, <3>3, <3>5, <3>6
  <2>7. QED
    BY <2>5, <2>6
<1>5. n \in G
  <2> HIDE DEF G
  <2>1. G \in SUBSET (0..n)
    BY DEF G
  <2> HIDE DEF n
  <2>2. QED
    BY <1>1, <1>3, <1>4, <2>1, Up
<1> DEFINE d == f[n].io
           k == f[n].new
           map == SubSeq(d.filemap, 1, k)
<1>6. /\ d \in Io /\ k \in 0..n /\ d.filemap \in Seq(Save) /\ Len(d.filemap) = n
      /\ d.own = t.own /\ \A m \in Fd : m \in Low \cup t.own => d.fd[m] = t.fd[m]
  BY <1>5, IoFields
<1> HIDE DEF d, k
<1>7. map \in Seq(Save) /\ Len(map) = k
  BY <1>1, <1>6
<1>8. r = [d EXCEPT !.filemap = map]
  BY <1>2, <1>6 DEF d, k, Io
<1> HIDE DEF map, r
<1>9. r \in Io /\ r.own = d.own /\ r.fd = d.fd
  BY <1>6, <1>7, <1>8, OtherMap
<1>10. QED
  BY <1>6, <1>9 DEF r

(* A child has the descriptors of its parent and nothing that is put aside. *)
LEMMA ForkSound ==
    ASSUME NEW t \in Io, Sound(t), Exact(t)
    PROVE  LET r == sh_iounsave(t)
           IN  /\ r \in Io /\ Sound(r) /\ Exact(r)
               /\ \A n \in High : r.fd[n] # Closed => n \in t.own
<1> DEFINE r == sh_iounsave(t)
           Saved1(m) == \E j \in DOMAIN t.filemap : t.filemap[j].save = m
<1>1. \A i \in DOMAIN t.filemap : t.filemap[i].save # NoFd =>
          t.fdptrs[t.filemap[i].save] = i /\ t.filemap[i].save \notin t.own
  BY DEF Sound, Aside, Exact
<1>2. /\ r.own = t.own
      /\ \A m \in Fd : r.fd[m] = IF Saved1(m) THEN Closed ELSE t.fd[m]
      /\ \A m \in High : r.fdptrs[m] = IF Saved1(m) THEN 0 ELSE t.fdptrs[m]
      /\ \A k \in DOMAIN r.filemap : \E j \in DOMAIN t.filemap :
            r.filemap[k] = t.filemap[j] /\ t.filemap[j].save = NoFd
  BY <1>1, UnsaveFacts
<1>3. r \in Io
  BY UnsaveTyped
<1> HIDE DEF r
<1>4. \A n \in High : n \in Fd /\ n # NoFd
  BY Numbers DEF Fd
<1>5. \A k \in DOMAIN r.filemap : r.filemap[k].save = NoFd /\ r.filemap[k].was = Closed
  <2>1. \A j \in DOMAIN t.filemap : t.filemap[j].save = NoFd => t.filemap[j].was = Closed
    BY DEF Sound, Aside
  <2>2. QED
    BY <1>2, <2>1
<1>6. Aside(r) /\ Apart(r) /\ Exact(r)
  BY <1>5 DEF Aside, Apart, Exact
<1>7. InUse(r)
  <2>1. \A n \in High : t.fdptrs[n] # 0 => Saved1(n)
    BY DEF Sound, InUse
  <2>2. QED
    BY <1>2, <2>1 DEF InUse
<1>8. OwnOpen(r)
  <2>1. \A n \in t.own : n \in Fd /\ n # NoFd /\ ~ Saved1(n) /\ t.fd[n] # Closed
    BY <1>1, <1>4, IoFields DEF Sound, OwnOpen
  <2>2. QED
    BY <1>2, <2>1 DEF OwnOpen
<1>9. \A n \in High : r.fd[n] # Closed => n \in t.own
  BY <1>2, <1>4 DEF Sound, Accounted
<1>10. Accounted(r)
  BY <1>2, <1>9 DEF Accounted
<1>11. QED
  BY <1>3, <1>6, <1>7, <1>8, <1>9, <1>10 DEF Sound, r

LEMMA StepFork ==
    ASSUME TypeOK, Held, Layered, Faithful', Fork
    PROVE  Held' /\ Layered'
<1>1. io \in Io /\ io' = sh_iounsave(io) /\ stack' = <<>> /\ forks' = forks + 1 /\ forks \in Nat
  BY Numbers DEF TypeOK, Fork
<1>2. lapse = {} /\ lapse' = {}
  <2>1. "moved" \notin lapse /\ lapse' = lapse
    BY DEF Fork, Lapses, Faithful
  <2>2. QED
    BY <2>1 DEF Faithful
<1>3. Sound(io) /\ Exact(io)
  BY <1>2 DEF Held
<1>4. Sound(io') /\ Exact(io')
  BY <1>1, <1>3, ForkSound
<1>5. Held'
  BY <1>4 DEF Held
<1>6. forks' # 0
  BY <1>1
<1>7. DOMAIN stack' = {}
  BY <1>1
<1>8. Layered'
  BY <1>6, <1>7 DEF Layered, Layers, Framed, Blocks, Execs, Subshells, Returns
<1>9. QED
  BY <1>5, <1>8

LEMMA StepSubfork ==
    ASSUME TypeOK, Held, Layered, Subfork
    PROVE  Held' /\ Layered'
<1> DEFINE f == io.filemap
           s == stack
           r == stack'
           l == Sub
<1>1. /\ s \in Seq(Frame) /\ DOMAIN s = 1..Len(s) /\ Len(s) \in Nat
      /\ s # <<>> => Head(s) = s[1]
  BY StackFacts
<1>2. /\ l \in DOMAIN s /\ l \in Nat /\ \A k \in DOMAIN s : IsSub(s, k) => l <= k
  BY SubFacts DEF Subfork, Subs, IsSub
<1>3. r = SubSeq(s, 1, l - 1) /\ UNCHANGED <<io, lapse>> /\ forks' = forks + 1 /\ forks \in Nat
  BY Numbers DEF Subfork, TypeOK
<1>4. ~ s[1].redirect
  <2>1. s # <<>>
    BY <1>2
  <2>2. QED
    BY <1>1, <2>1 DEF Subfork, Running
<1>5. Layers(f, s, View(io))
  BY DEF Layered
<1> HIDE DEF f, s, r, l
<1>6. DOMAIN r = 1..l - 1 /\ \A k \in DOMAIN r : r[k] = s[k] /\ k \in DOMAIN s /\ ~ IsSub(s, k)
  <2>1. l - 1 \in Nat /\ l - 1 <= Len(s)
    BY <1>1, <1>2
  <2>2. DOMAIN r = 1..l - 1 /\ \A k \in 1..l - 1 : r[k] = s[k]
    BY <1>1, <1>3, <2>1
  <2>3. \A k \in 1..l - 1 : k \in DOMAIN s /\ ~ (l <= k)
    BY <1>1, <1>2
  <2>4. QED
    BY <1>2, <2>2, <2>3
<1>7. \A k \in DOMAIN r : ~ IsSub(r, k) /\ (IsBlock(r, k) <=> IsBlock(s, k)) /\ (k > 1 => k - 1 \in DOMAIN r)
  BY <1>2, <1>6 DEF IsSub, IsBlock
<1>8. \A k \in DOMAIN r : Part(f, r, k) = Part(f, s, k) /\ Own(f, r, k) = Own(f, s, k)
  BY <1>6, <1>7 DEF Part, Own
<1>9. \A k \in DOMAIN r : ~ r[k].redirect /\ r[k].kind # "exec"
  <2>1. Framed(f, s)
    BY <1>5 DEF Layers
  <2>2. \A k \in DOMAIN s : ~ s[k].redirect
    BY <1>4, <2>1 DEF Framed
  <2>3. QED
    BY <1>6, <2>1, <2>2 DEF Framed
<1>10. Framed(f, r) /\ Execs(f, r)
  <2>1. Framed(f, s)
    BY <1>5 DEF Layers
  <2>2. \A k, m \in DOMAIN r : k < m => r[m].topfd <= r[k].topfd
    BY <1>6, <2>1 DEF Framed
  <2>3. \A k \in DOMAIN r : r[k].kind # "sub" /\ r[k].topfd <= Len(f)
    BY <1>6, <1>7, <2>1 DEF Framed, IsSub
  <2>4. QED
    BY <1>9, <2>2, <2>3 DEF Framed, Execs
<1>11. Blocks(f, r)
  <2>1. Blocks(f, s)
    BY <1>5 DEF Layers
  <2>2. QED
    BY <1>6, <1>7, <1>8, <2>1 DEF Blocks
<1>12. Subshells(f, r) /\ Returns(f, r, View(io))
  BY <1>7 DEF Subshells, Returns
<1>13. Layered'
  <2>1. forks' # 0
    BY <1>3
  <2>2. QED
    BY <1>3, <1>10, <1>11, <1>12, <2>1 DEF Layered, Layers, f, r
<1>14. Held'
  BY <1>3 DEF Held
<1>15. QED
  BY <1>13, <1>14

(* Every step keeps the invariant. *)
LEMMA StepEnds ==
    ASSUME TypeOK, Held, Layered, Faithful', Ends
    PROVE  Held' /\ Layered' /\ View(io)' = Over(Head(stack).before, View(io))
<1>1. stack # <<>> => /\ Head(stack) = stack[1] /\ stack[1] \in Frame
                      /\ Head(stack).kind # "exec" /\ Head(stack).kind # "sub" => IsBlock(stack, 1)
  <2>1. stack # <<>> => Head(stack) = stack[1] /\ stack[1] \in Frame
    BY StackFacts
  <2>2. QED
    BY <2>1, FrameFields DEF IsBlock
<1>2. CASE End
  <2>1. stack # <<>> /\ Leave(FALSE) /\ IsBlock(stack, 1)
    BY <1>1, <1>2 DEF End
  <2>2. QED
    BY <2>1, StepLeave
<1>3. CASE Unwind
  <2>1. stack # <<>> /\ Leave(FALSE) /\ IsBlock(stack, 1)
    BY <1>1, <1>3 DEF Unwind
  <2>2. QED
    BY <2>1, StepLeave
<1>4. CASE EndExec
  <2>1. stack # <<>> /\ Head(stack).kind = "exec" /\ stack' = Tail(stack) /\ UNCHANGED <<io, forks, lapse>>
    BY <1>4 DEF EndExec, Redirecting
  <2>2. QED
    BY <2>1, StepExecEnd
<1>5. CASE Fail
  <2>1. stack # <<>> /\ Head(stack).redirect
    BY <1>5 DEF Fail, Redirecting
  <2>2. CASE Head(stack).kind = "exec"
    <3>1. stack' = Tail(stack) /\ UNCHANGED <<io, forks, lapse>>
      BY <1>5, <2>2 DEF Fail
    <3>2. QED
      BY <2>1, <2>2, <3>1, StepExecEnd
  <2>3. CASE Head(stack).kind # "exec"
    <3>1. Leave(FALSE)
      BY <1>5, <2>3 DEF Fail
    <3>2. Head(stack).kind # "sub"
      <4>1. 1 \in DOMAIN stack /\ Head(stack) = stack[1]
        BY <2>1, StackFacts
      <4>2. QED
        BY <2>1, <4>1 DEF Layered, Layers, Framed
    <3>3. IsBlock(stack, 1)
      BY <1>1, <2>1, <2>3, <3>2
    <3>4. QED
      BY <2>1, <3>1, <3>3, StepLeave
  <2>4. QED
    BY <2>2, <2>3
<1>6. CASE SubshellEnd
  <2>1. stack # <<>> /\ Leave(TRUE) /\ IsSub(stack, 1)
    BY <1>1, <1>6 DEF SubshellEnd, IsSub
  <2>2. QED
    BY <2>1, StepLeave
<1>7. QED
  BY <1>2, <1>3, <1>4, <1>5, <1>6 DEF Ends

LEMMA HeldStep ==
    ASSUME TypeOK, Held, Layered, Faithful', [Next]_vars
    PROVE  Held' /\ Layered'
<1>1. CASE UNCHANGED vars
  BY <1>1 DEF Held, Layered, vars
<1>2. ASSUME NEW kind \in {"block", "function", "exec", "sub"}, Begin(kind)
      PROVE  Held' /\ Layered'
  <2>1. Layered'
    BY <1>2, LayerBegin
  <2>2. Held'
    BY <1>2 DEF Begin, Held
  <2>3. QED
    BY <2>1, <2>2
<1>3. CASE Run
  BY <1>3, StepRun
<1>4. ASSUME NEW n \in Low, NEW file \in File, Open(n, file)
      PROVE  Held' /\ Layered'
  <2>1. file \in File \cup {Closed}
    OBVIOUS
  <2>2. QED
    BY <1>4, <2>1, StepRedirect DEF Open
<1>5. ASSUME NEW n \in Low, NEW m \in Fd, Dup(n, m)
      PROVE  Held' /\ Layered'
  <2>1. io.fd[m] \in File \cup {Closed}
    BY IoFields DEF TypeOK
  <2>2. QED
    BY <1>5, <2>1, StepRedirect DEF Dup
<1>6. ASSUME NEW n \in Low, NEW m \in Fd, Move(n, m)
      PROVE  Held' /\ Layered'
  BY <1>6, StepMove
<1>7. ASSUME NEW n \in Low, CloseFd(n)
      PROVE  Held' /\ Layered'
  BY <1>7, StepClose
<1>8. ASSUME NEW file \in File, VarOpen(file)
      PROVE  Held' /\ Layered'
  BY <1>8, StepVarOpen
<1>9. CASE VarClose
  BY <1>9, StepVarClose
<1>10. CASE Ends
  BY <1>10, StepEnds
<1>11. CASE Caught
  BY <1>11, StepCaught
<1>12. CASE Fork
  BY <1>12, StepFork
<1>13. CASE Subfork
  BY <1>13, StepSubfork
<1>14. QED
  BY <1>1, <1>2, <1>3, <1>4, <1>5, <1>6, <1>7, <1>8, <1>9, <1>10, <1>11, <1>12, <1>13 DEF Next, Ends

LEMMA StepIInv == IInv /\ [Next]_vars => IInv'
<1>1. SUFFICES ASSUME IInv, [Next]_vars
               PROVE  IInv'
  OBVIOUS
<1>2. TypeOK /\ TypeOK'
  BY <1>1, TypeStep DEF IInv
<1>3. ASSUME Faithful'
      PROVE  Held' /\ Layered'
  <2>1. Faithful
    BY <1>1, <1>3, FaithfulBack DEF Faithful, vars
  <2>2. QED
    BY <1>1, <1>2, <1>3, <2>1, HeldStep DEF IInv
<1>4. QED
  BY <1>2, <1>3 DEF IInv

LEMMA IInvHolds == Spec => []IInv
<1>1. Init => IInv
  BY InitIInv
<1>2. QED
  BY <1>1, StepIInv, PTL DEF Spec

(* What the shell puts aside, a descriptor it saved for a command or a subshell, stays
   where it was put, in a place that is neither the program's nor another's (SavesHeld):
   programs may open, close and move what they like, also the number itself. *)
THEOREM SavesStay == Spec => []SavesHeld
<1>1. IInv => SavesHeld
  <2>1. SUFFICES ASSUME IInv, Faithful
                 PROVE  \A i \in DOMAIN io.filemap :
                           LET entry == io.filemap[i]
                           IN  entry.save # NoFd =>
                                  /\ io.fd[entry.save] = entry.was /\ entry.save \notin io.own
                                  /\ \A j \in DOMAIN io.filemap : io.filemap[j].save = entry.save => i = j
    BY DEF SavesHeld
  <2>2. Aside(io) /\ Apart(io)
    BY <2>1 DEF IInv, Held, Sound
  <2>3. QED
    BY <2>2 DEF Aside, Apart
<1>2. QED
  BY <1>1, IInvHolds, PTL

(* No descriptor is lost: one from 10 on that is open is the program's own or is noted in
   filemap, to be put back or closed (NoneLeaked). *)
THEOREM NothingLeaks == Spec => []NoneLeaked
<1>1. IInv => NoneLeaked
  BY DEF IInv, Held, Sound, Accounted, NoneLeaked
<1>2. QED
  BY <1>1, IInvHolds, PTL

(* A child starts with what its parent has, and with nothing that its parent has put
   aside: sh_iounsave closes that and no more (ChildHasTheSame). *)
THEOREM ChildAlike == Spec => ChildHasTheSame
<1>1. ASSUME IInv, Faithful, Fork
      PROVE  /\ View(io)' = View(io)
             /\ \A n \in High : io'.fd[n] # Closed => n \in io.own \/ "moved" \in lapse
  <2>1. io \in Io /\ Sound(io) /\ io' = sh_iounsave(io) /\ (lapse = {} => Exact(io))
    BY <1>1 DEF IInv, TypeOK, Held, Fork
  <2>2. \A i \in DOMAIN io.filemap : io.filemap[i].save \notin io.own
    BY <2>1, Numbers, IoFields DEF Sound, Aside
  <2>3. io'.own = io.own /\ \A m \in Fd : m \in Low \cup io.own => io'.fd[m] = io.fd[m]
    BY <2>1, <2>2, UnsaveKeeps
  <2>4. View(io') = View(io)
    BY <2>3 DEF View
  <2>5. "moved" \notin lapse => \A n \in High : io'.fd[n] # Closed => n \in io.own
    <3>1. "moved" \notin lapse => lapse = {}
      BY <1>1 DEF Faithful
    <3>2. QED
      BY <2>1, <3>1, ForkSound
  <2>6. QED
    BY <2>4, <2>5
<1>2. IInv /\ [Next]_vars => [Faithful /\ Fork =>
          /\ View(io)' = View(io)
          /\ \A n \in High : io'.fd[n] # Closed => n \in io.own \/ "moved" \in lapse]_vars
  BY <1>1
<1>3. QED
  BY <1>2, IInvHolds, PTL DEF Spec, ChildHasTheSame

(* A command leaves the descriptors that it redirected as it found them, and the others as
   they are, however it ends; a subshell leaves all of them as it found them, whatever
   exec did in it and in what order what was saved is put back (Restored). *)
THEOREM DescriptorsRestored == Spec => Restored
<1>1. ASSUME IInv, [Next]_vars
      PROVE  [Faithful' => Restores]_vars
  <2>1. SUFFICES ASSUME Faithful', Ends
                 PROVE  View(io)' = Over(Head(stack).before, View(io))
    BY DEF Restores
  <2>2. Next => Faithful
    BY <2>1, FaithfulBack
  <2>3. Next
    BY <2>1 DEF Next, Ends
  <2>4. QED
    BY <1>1, <2>1, <2>2, <2>3, StepEnds DEF IInv
<1>2. QED
  BY <1>1, IInvHolds, PTL DEF Spec, Restored
================================================================================
