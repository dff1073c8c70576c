-------------------------- MODULE TrapFrames_proofs ---------------------------
(***************************************************************************)
(* Proofs about TrapFrames: type correctness, the agreement of the depth   *)
(* counters with the chain of checkpoints, and what becomes of the trap    *)
(* handlers.                                                               *)
(***************************************************************************)
EXTENDS TrapFrames, FiniteSetTheorems, TLAPS

-------------------------------------------------------------------------------
(* Counting activations. *)

(* The positions counted are finitely many, at most the length of the chain. *)
LEMMA CountBound ==
    ASSUME NEW k \in Seq(Frame), NEW K
    PROVE  /\ IsFiniteSet({j \in 1..Len(k) : k[j].kind \in K})
           /\ Count(k, K) \in Nat /\ Count(k, K) <= Len(k)
<1>1. /\ IsFiniteSet(1..Len(k)) /\ Cardinality(1..Len(k)) = Len(k)
  <2>1. Len(k) \in Nat
    OBVIOUS
  <2>2. QED
    BY <2>1, FS_Interval
<1>2. {j \in 1..Len(k) : k[j].kind \in K} \subseteq 1..Len(k)
  OBVIOUS
<1>3. QED
  BY <1>1, <1>2, FS_Subset, FS_CardinalityType DEF Count

(* Pushing an activation counts it. *)
LEMMA CountAppend ==
    ASSUME NEW k \in Seq(Frame), NEW f \in Frame, NEW K
    PROVE  Count(Append(k, f), K) = Count(k, K) + (IF f.kind \in K THEN 1 ELSE 0)
<1> DEFINE P == {j \in 1..Len(k) : k[j].kind \in K}
           Q == {j \in 1..Len(Append(k, f)) : Append(k, f)[j].kind \in K}
<1>1. IsFiniteSet(P)
  BY CountBound
<1>2. Q = IF f.kind \in K THEN P \cup {Len(k) + 1} ELSE P
  OBVIOUS
<1>3. Len(k) + 1 \notin P
  OBVIOUS
<1>4. Cardinality(P) \in Nat /\ Cardinality(P \cup {Len(k) + 1}) = Cardinality(P) + 1
  BY <1>1, <1>3, FS_AddElement, FS_CardinalityType
<1>5. Count(k, K) = Cardinality(P) /\ Count(Append(k, f), K) = Cardinality(Q)
  BY DEF Count
<1> HIDE DEF P, Q
<1>6. CASE f.kind \in K
  BY <1>2, <1>4, <1>5, <1>6
<1>7. CASE f.kind \notin K
  BY <1>2, <1>4, <1>5, <1>7
<1>8. QED
  BY <1>6, <1>7

(* Popping an activation uncounts it. *)
LEMMA CountPop ==
    ASSUME NEW k \in Seq(Frame), k # <<>>, NEW K
    PROVE  Count(Pop(k), K) = Count(k, K) - (IF Top(k).kind \in K THEN 1 ELSE 0)
<1>1. /\ Pop(k) \in Seq(Frame) /\ Top(k) \in Frame /\ k = Append(Pop(k), Top(k))
  BY DEF Pop, Top
<1>2. Count(Append(Pop(k), Top(k)), K) = Count(Pop(k), K) + (IF Top(k).kind \in K THEN 1 ELSE 0)
  BY <1>1, CountAppend, Zenon
<1>3. Count(Pop(k), K) \in Nat
  BY <1>1, CountBound
<1>4. QED
  <2>1. Count(k, K) = Count(Append(Pop(k), Top(k)), K)
    BY <1>1, Zenon
  <2>2. QED
    BY <1>2, <1>3, <2>1

(* Only the kinds of the activations are counted. *)
LEMMA CountKinds ==
    ASSUME NEW k, NEW l, Len(k) = Len(l), \A j \in 1..Len(k) : k[j].kind = l[j].kind, NEW K
    PROVE  Count(k, K) = Count(l, K)
<1>1. {j \in 1..Len(k) : k[j].kind \in K} = {j \in 1..Len(l) : l[j].kind \in K}
  OBVIOUS
<1>2. QED
  BY <1>1 DEF Count

-------------------------------------------------------------------------------
(* The chain of checkpoints. *)

(* Whatever the kind of an activation, its checkpoint can be given another
   mode (sh_fault, b_return and errexit do). *)
LEMMA FrameMode ==
    ASSUME NEW f \in Frame, NEW m \in JmpMode
    PROVE  [f EXCEPT !.mode = m] \in Frame /\ [f EXCEPT !.mode = m].kind = f.kind
BY DEF Frame, PlainFrame, FunFrame, PosixFrame, DebugFrame, ErrFrame, SigFrame, ExitFrame,
       DoneFrame

(* Every activation has a mode. *)
LEMMA FrameHasMode ==
    ASSUME NEW f \in Frame
    PROVE  f.mode \in JmpMode
BY DEF Frame, PlainFrame, FunFrame, PosixFrame, DebugFrame, ErrFrame, SigFrame, ExitFrame,
       DoneFrame

(* The innermost activation of a chain. *)
LEMMA StackTop ==
    ASSUME NEW k \in Stack
    PROVE  /\ k \in Seq(Frame) /\ k # <<>> /\ Len(k) \in Nat /\ Len(k) >= 1
           /\ Top(k) \in Frame /\ Top(k).mode \in JmpMode
BY FrameHasMode DEF Stack, Top

(* sh_pushcontext *)
LEMMA StackPush ==
    ASSUME NEW k \in Stack, NEW f \in Frame, f.kind # "main"
    PROVE  Append(k, f) \in Stack
<1>1. k \in Seq(Frame) /\ k # <<>> /\ Len(k) \in Nat /\ Len(k) >= 1
  BY DEF Stack
<1>2. /\ Append(k, f) \in Seq(Frame) /\ Append(k, f) # <<>> /\ Len(Append(k, f)) = Len(k) + 1
      /\ Append(k, f)[Len(k) + 1] = f
      /\ \A j \in 1..Len(k) : Append(k, f)[j] = k[j]
  BY <1>1
<1>3. ASSUME NEW j \in 1..Len(k) + 1
      PROVE  Append(k, f)[j].kind = "main" <=> j = 1
  <2>1. CASE j \in 1..Len(k)
    BY <1>1, <1>2, <2>1 DEF Stack
  <2>2. CASE j = Len(k) + 1
    BY <1>1, <1>2, <2>2
  <2>3. QED
    BY <1>1, <2>1, <2>2
<1>4. QED
  BY <1>2, <1>3 DEF Stack

(* sh_popcontext *)
LEMMA StackPop ==
    ASSUME NEW k \in Stack, Top(k).kind # "main"
    PROVE  Pop(k) \in Stack
<1>1. /\ k \in Seq(Frame) /\ Len(k) \in Nat /\ Len(k) >= 1
      /\ \A j \in 1..Len(k) : k[j].kind = "main" <=> j = 1
  BY DEF Stack
<1>2. Len(k) > 1
  BY <1>1 DEF Top
<1>3. /\ Pop(k) \in Seq(Frame) /\ Len(Pop(k)) = Len(k) - 1 /\ Pop(k) # <<>>
      /\ \A j \in 1..Len(k) - 1 : Pop(k)[j] = k[j]
  BY <1>1, <1>2 DEF Pop
<1>4. \A j \in 1..Len(Pop(k)) : Pop(k)[j].kind = "main" <=> j = 1
  BY <1>1, <1>2, <1>3
<1>5. QED
  BY <1>3, <1>4 DEF Stack

(* A new mode for the innermost checkpoint. *)
LEMMA StackMode ==
    ASSUME NEW k \in Stack, NEW m \in JmpMode
    PROVE  /\ SetMode(k, m) \in Stack /\ Len(SetMode(k, m)) = Len(k)
           /\ \A j \in 1..Len(k) : SetMode(k, m)[j].kind = k[j].kind
<1>1. k \in Seq(Frame) /\ Len(k) \in 1..Len(k) /\ k[Len(k)] \in Frame
  BY DEF Stack
<1>2. SetMode(k, m) = [k EXCEPT ![Len(k)] = [k[Len(k)] EXCEPT !.mode = m]]
  BY <1>1 DEF SetMode
<1>3. [k[Len(k)] EXCEPT !.mode = m] \in Frame /\ [k[Len(k)] EXCEPT !.mode = m].kind = k[Len(k)].kind
  BY <1>1, FrameMode
<1>4. SetMode(k, m) \in Seq(Frame) /\ Len(SetMode(k, m)) = Len(k)
  BY <1>1, <1>2, <1>3
<1>5. \A j \in 1..Len(k) : SetMode(k, m)[j].kind = k[j].kind
  BY <1>1, <1>2, <1>3
<1>6. QED
  BY <1>4, <1>5 DEF Stack

-------------------------------------------------------------------------------
(* A chain and a shell state that fit together. *)
Good(k, s) == k \in Stack /\ s \in Shell /\ Agree(k, s)

(* The shell states s and t agree on the depth counters. *)
SameDepths(s, t) == t.dot_depth = s.dot_depth /\ t.intrap = s.intrap /\ t.fn_depth = s.fn_depth

(* The rest of the shell state may change. *)
LEMMA GoodShell ==
    ASSUME NEW k, NEW s, Good(k, s), NEW t \in Shell, SameDepths(s, t)
    PROVE  Good(k, t)
BY DEF Good, Agree, SameDepths

(* So may the modes of the checkpoints. *)
LEMMA GoodKinds ==
    ASSUME NEW k, NEW s, Good(k, s), NEW l \in Stack, Len(l) = Len(k),
           \A j \in 1..Len(k) : l[j].kind = k[j].kind
    PROVE  Good(l, s)
<1>1. \A K : Count(l, K) = Count(k, K)
  BY CountKinds, Zenon DEF Good
<1>2. QED
  BY <1>1 DEF Good, Agree

(* An activation and the counter of its kind come together. *)
LEMMA GoodPush ==
    ASSUME NEW k, NEW s, Good(k, s), NEW f \in Frame, f.kind # "main", NEW t \in Shell,
           t.dot_depth = s.dot_depth + (IF f.kind \in {"posix"} THEN 1 ELSE 0),
           t.intrap = s.intrap + (IF f.kind \in TrapKinds THEN 1 ELSE 0),
           MaxFrames <= MAXDEPTH =>
               t.fn_depth = s.fn_depth + (IF f.kind \in {"fun"} THEN 1 ELSE 0)
    PROVE  Good(Append(k, f), t)
<1>1. k \in Stack /\ k \in Seq(Frame)
  BY DEF Good, Stack
<1>2. Append(k, f) \in Stack
  BY <1>1, StackPush
<1>3. \A K : Count(Append(k, f), K) = Count(k, K) + (IF f.kind \in K THEN 1 ELSE 0)
  BY <1>1, CountAppend
<1>4. QED
  BY <1>2, <1>3 DEF Good, Agree

(* And they go together. *)
LEMMA GoodPop ==
    ASSUME NEW k, NEW s, Good(k, s), Top(k).kind # "main", NEW t \in Shell,
           t.dot_depth = s.dot_depth - (IF Top(k).kind \in {"posix"} THEN 1 ELSE 0),
           t.intrap = s.intrap - (IF Top(k).kind \in TrapKinds THEN 1 ELSE 0),
           MaxFrames <= MAXDEPTH =>
               t.fn_depth = s.fn_depth - (IF Top(k).kind \in {"fun"} THEN 1 ELSE 0)
    PROVE  Good(Pop(k), t)
<1>1. k \in Stack /\ k \in Seq(Frame) /\ k # <<>>
  BY DEF Good, Stack
<1>2. Pop(k) \in Stack
  BY <1>1, StackPop
<1>3. \A K : Count(Pop(k), K) = Count(k, K) - (IF Top(k).kind \in K THEN 1 ELSE 0)
  BY <1>1, CountPop
<1>4. QED
  BY <1>2, <1>3 DEF Good, Agree

-------------------------------------------------------------------------------
(* The helpers keep the type of the shell state. *)

(* sh_exit keeps the type and the depths. *)
LEMMA TypeExit ==
    ASSUME NEW s \in Shell
    PROVE  sh_exit(s) \in Shell /\ SameDepths(s, sh_exit(s))
BY DEF sh_exit, Shell, SameDepths

(* A new exit status keeps them too. *)
LEMMA TypeExitval ==
    ASSUME NEW s \in Shell, NEW x \in 0..255
    PROVE  [s EXCEPT !.exitval = x] \in Shell /\ SameDepths(s, [s EXCEPT !.exitval = x])
BY DEF Shell, SameDepths

(* And a new value of the errexit option. *)
LEMMA TypeErrexit ==
    ASSUME NEW s \in Shell, NEW b \in BOOLEAN
    PROVE  [s EXCEPT !.errexit = b] \in Shell /\ SameDepths(s, [s EXCEPT !.errexit = b])
BY DEF Shell, SameDepths

(* A new value for the scoped state keeps the type. *)
LEMMA TypeSt ==
    ASSUME NEW s \in Shell, NEW st \in Scoped
    PROVE  [s EXCEPT !.st = st] \in Shell /\ SameDepths(s, [s EXCEPT !.st = st])
BY DEF Shell, SameDepths

(* So does a new nesting depth. *)
LEMMA TypeIntrap ==
    ASSUME NEW s \in Shell, NEW n \in Int
    PROVE  /\ [s EXCEPT !.intrap = n] \in Shell /\ [s EXCEPT !.intrap = n].intrap = n
           /\ [s EXCEPT !.intrap = n].dot_depth = s.dot_depth
           /\ [s EXCEPT !.intrap = n].fn_depth = s.fn_depth
           /\ [s EXCEPT !.intrap = n].st = s.st
BY DEF Shell

(* The counters are integers. *)
LEMMA TypeDepths ==
    ASSUME NEW s \in Shell
    PROVE  s.intrap \in Int /\ s.dot_depth \in Int /\ s.fn_depth \in Int /\ s.st \in Scoped
BY DEF Shell

(* sh_trap enters a handler: intrap goes up by one. *)
LEMMA TypeEnterTrap ==
    ASSUME NEW s \in Shell
    PROVE  /\ EnterTrap(s) \in Shell /\ EnterTrap(s).intrap = s.intrap + 1
           /\ EnterTrap(s).dot_depth = s.dot_depth /\ EnterTrap(s).fn_depth = s.fn_depth
<1> DEFINE d == IF s.st.trapdontexec = "off" THEN "s" ELSE s.st.trapdontexec
           st == [s.st EXCEPT !.trapdontexec = d]
<1>1. st \in Scoped
  <2>1. s.st \in Scoped
    BY DEF Shell
  <2>2. d \in {"off", "on", "s"}
    BY <2>1 DEF Scoped
  <2>3. QED
    BY <2>1, <2>2 DEF Scoped
<1> DEFINE t == [s EXCEPT !.intrap = s.intrap + 1]
<1>2. EnterTrap(s) = [t EXCEPT !.st = st]
  BY DEF EnterTrap, Shell, Scoped
<1>3. s.intrap + 1 \in Int
  BY TypeDepths
<1>4. t \in Shell /\ t.intrap = s.intrap + 1 /\ t.dot_depth = s.dot_depth /\ t.fn_depth = s.fn_depth
  BY <1>3, TypeIntrap
<1> HIDE DEF st, t
<1>5. QED
  BY <1>1, <1>2, <1>4, TypeSt DEF SameDepths

(* sh_trap leaves a handler: intrap goes down by one. *)
LEMMA TypeLeaveTrap ==
    ASSUME NEW s \in Shell, NEW f, f.savxit \in 0..255
    PROVE  /\ LeaveTrap(s, f) \in Shell /\ LeaveTrap(s, f).intrap = s.intrap - 1
           /\ LeaveTrap(s, f).dot_depth = s.dot_depth /\ LeaveTrap(s, f).fn_depth = s.fn_depth
<1> DEFINE d == IF f.nodontexec /\ s.st.trapdontexec = "s" THEN "off" ELSE s.st.trapdontexec
           st == [s.st EXCEPT !.trapdontexec = d]
           x == IF s.intrap_exit_n THEN s.exitval ELSE f.savxit
<1>1. st \in Scoped
  <2>1. s.st \in Scoped
    BY DEF Shell
  <2>2. d \in {"off", "on", "s"}
    BY <2>1 DEF Scoped
  <2>3. QED
    BY <2>1, <2>2 DEF Scoped
<1>2. x \in 0..255
  BY DEF Shell
<1> DEFINE t == [s EXCEPT !.intrap = s.intrap - 1]
           u == [t EXCEPT !.st = st]
<1>3. LeaveTrap(s, f) = [u EXCEPT !.exitval = x, !.intrap_exit_n = FALSE]
  BY DEF LeaveTrap, Shell, Scoped
<1>4. s.intrap - 1 \in Int
  BY TypeDepths
<1>5. t \in Shell /\ t.intrap = s.intrap - 1 /\ t.dot_depth = s.dot_depth /\ t.fn_depth = s.fn_depth
  BY <1>4, TypeIntrap
<1> HIDE DEF st, x, t
<1>6. u \in Shell /\ SameDepths(t, u)
  BY <1>1, <1>5, TypeSt
<1> HIDE DEF u
<1>7. LeaveTrap(s, f) \in Shell /\ SameDepths(u, LeaveTrap(s, f))
  BY <1>2, <1>3, <1>6 DEF Shell, SameDepths
<1>8. QED
  BY <1>5, <1>6, <1>7 DEF SameDepths

(* sh_sigreset touches traps only. *)
LEMMA TypeSigreset ==
    ASSUME NEW s \in Shell, NEW mode
    PROVE  sh_sigreset(s, mode) \in Shell /\ SameDepths(s, sh_sigreset(s, mode))
<1> DEFINE com == [i \in SigNo |-> IF i = 0 \/ Caught(s, i) THEN None ELSE s.trapcom[i]]
           pend == {i \in s.pend : ~(i < s.st.trapmax /\ s.trapcom[i] # None)}
           max == IF mode = 1 THEN 0 ELSE s.st.trapmax
           d == IF mode = 1 THEN "off" ELSE s.st.trapdontexec
           st == [s.st EXCEPT !.err = None, !.debug = None, !.trapmax = max, !.trapdontexec = d]
<1>1. com \in Table /\ pend \subseteq Sig
  BY DEF Shell, Table, Trap
<1>2. st \in Scoped
  <2>1. s.st \in Scoped
    BY DEF Shell
  <2>2. max \in Nat /\ d \in {"off", "on", "s"}
    BY <2>1 DEF Scoped
  <2>3. QED
    BY <2>1, <2>2 DEF Scoped
<1>3. sh_sigreset(s, mode) = [s EXCEPT !.trapcom = com, !.pend = pend, !.st = st, !.trapnote = {}]
  BY Zenon DEF sh_sigreset
<1> HIDE DEF com, pend, st
<1>4. [s EXCEPT !.trapcom = com, !.pend = pend, !.st = st, !.trapnote = {}] \in Shell
  BY <1>1, <1>2 DEF Shell
<1>5. SameDepths(s, [s EXCEPT !.trapcom = com, !.pend = pend, !.st = st, !.trapnote = {}])
  BY DEF Shell, SameDepths
<1>6. QED
  BY <1>3, <1>4, <1>5

(* A signal is noted. *)
LEMMA TypeFault ==
    ASSUME NEW s \in Shell, NEW k, NEW i \in Sig
    PROVE  sh_fault(s, k, i) \in Shell /\ SameDepths(s, sh_fault(s, k, i))
BY DEF sh_fault, Shell, SigNo, SameDepths

(* b_trap recomputes the exec guard. *)
LEMMA TypeRecompute ==
    ASSUME NEW s \in Shell
    PROVE  Recompute(s) \in Shell /\ SameDepths(s, Recompute(s))
BY DEF Recompute, Shell, Scoped, SameDepths

(* A pending bit is cleared. *)
LEMMA TypeTaken ==
    ASSUME NEW s \in Shell, NEW i
    PROVE  Taken(s, i) \in Shell /\ SameDepths(s, Taken(s, i))
BY DEF Taken, Shell, SameDepths

(* sh_fault changes modes and notes, never the kinds of the activations. *)
LEMMA FaultFrames ==
    ASSUME NEW s \in Shell, NEW k \in Stack, NEW i \in Sig
    PROVE  /\ fault_frames(s, k, i) \in Stack /\ Len(fault_frames(s, k, i)) = Len(k)
           /\ \A j \in 1..Len(k) : fault_frames(s, k, i)[j].kind = k[j].kind
           /\ Top(fault_frames(s, k, i)).kind = Top(k).kind
<1> DEFINE m == IF Top(k).mode < JmpSub /\ ~Interactive THEN JmpFun ELSE JmpExit
           l == fault_frames(s, k, i)
<1>1. i \in SigNo /\ m \in JmpMode /\ Len(k) \in 1..Len(k)
  BY StackTop DEF SigNo, JmpMode
<1>2. l \in Stack /\ Len(l) = Len(k) /\ \A j \in 1..Len(k) : l[j].kind = k[j].kind
  <2>1. CASE s.trapcom[i] # None
    BY <2>1 DEF fault_frames
  <2>2. CASE s.trapcom[i] = None
    <3>1. l = SetMode(k, m)
      BY <2>2 DEF fault_frames
    <3> HIDE DEF l, m
    <3>2. /\ SetMode(k, m) \in Stack /\ Len(SetMode(k, m)) = Len(k)
          /\ \A j \in 1..Len(k) : SetMode(k, m)[j].kind = k[j].kind
      BY <1>1, StackMode
    <3>3. QED
      BY <3>1, <3>2
  <2>3. QED
    BY <2>1, <2>2
<1> HIDE DEF l
<1>3. Top(l).kind = Top(k).kind
  BY <1>1, <1>2 DEF Top
<1>4. QED
  BY <1>2, <1>3 DEF l

(* So a signal keeps chain and state good. *)
LEMMA GoodFault ==
    ASSUME NEW k, NEW s, Good(k, s), NEW i \in Sig
    PROVE  Good(fault_frames(s, k, i), sh_fault(s, k, i))
<1>1. k \in Stack /\ s \in Shell
  BY DEF Good
<1>2. Good(k, sh_fault(s, k, i))
  BY <1>1, GoodShell, TypeFault
<1>3. /\ fault_frames(s, k, i) \in Stack /\ Len(fault_frames(s, k, i)) = Len(k)
      /\ \A j \in 1..Len(k) : fault_frames(s, k, i)[j].kind = k[j].kind
  BY <1>1, FaultFrames
<1>4. QED
  BY <1>2, <1>3, GoodKinds

(* One member of the scoped state takes a new value. *)
LEMMA TypeMember ==
    ASSUME NEW s \in Shell
    PROVE  /\ \A n \in Int : /\ [s EXCEPT !.st.breakcnt = n] \in Shell
                             /\ SameDepths(s, [s EXCEPT !.st.breakcnt = n])
           /\ \A n \in Int : /\ [s EXCEPT !.st.loopcnt = n] \in Shell
                             /\ SameDepths(s, [s EXCEPT !.st.loopcnt = n])
           /\ \A t \in Handler \cup {None} : /\ [s EXCEPT !.st.err = t] \in Shell
                                             /\ SameDepths(s, [s EXCEPT !.st.err = t])
           /\ \A t \in Handler \cup {None} : /\ [s EXCEPT !.st.debug = t] \in Shell
                                             /\ SameDepths(s, [s EXCEPT !.st.debug = t])
<1>1. s.st \in Scoped
  BY TypeDepths
<1>2. /\ \A n \in Int : [s.st EXCEPT !.breakcnt = n] \in Scoped
      /\ \A n \in Int : [s.st EXCEPT !.loopcnt = n] \in Scoped
      /\ \A t \in Handler \cup {None} : [s.st EXCEPT !.err = t] \in Scoped
      /\ \A t \in Handler \cup {None} : [s.st EXCEPT !.debug = t] \in Scoped
  BY <1>1 DEF Scoped
<1>3. QED
  BY <1>2, TypeSt, Zenon

-------------------------------------------------------------------------------
(* Where the interpreter can be. *)

(* Every point but Bltin, which only the start of a built-in goes to. *)
Landing == Point \ {Bltin}

(* The other control points are landing points. *)
LEMMA PointType ==
    /\ {Read, Cmd, Exec, Exited} \subseteq Landing
    /\ \A e \in BOOLEAN : Post(e) \in Landing
    /\ \A n \in Nat, t \in Resume : Chk(n, t) \in Landing
    /\ \A v \in JmpVal : Jump(v) \in Landing
<1>1. \A p \in Point : p.pc # "bltin" => p \in Landing
  BY DEF Landing, Bltin
<1>2. /\ {Read, Cmd, Exec, Exited} \subseteq Point
      /\ \A e \in BOOLEAN : Post(e) \in Point
      /\ \A n \in Nat, t \in Resume : Chk(n, t) \in Point
      /\ \A v \in JmpVal : Jump(v) \in Point
  BY DEF Point, Post, Chk, Jump
<1>3. /\ \A p \in {Read, Cmd, Exec, Exited} : p.pc # "bltin"
      /\ \A e : Post(e).pc # "bltin"
      /\ \A n, t : Chk(n, t).pc # "bltin"
      /\ \A v : Jump(v).pc # "bltin"
  BY DEF Read, Cmd, Exec, Exited, Post, Chk, Jump
<1>4. QED
  BY <1>1, <1>2, <1>3

(* In sh_chktrap and during a jump the point carries typed values. *)
LEMMA PointParts ==
    ASSUME NEW p \in Point
    PROVE  /\ p.pc = "chk" => p.sig \in Nat /\ p.then \in Resume
           /\ p.pc = "jump" => p.val \in JmpVal
           /\ p.pc = "post" => p.echeck \in BOOLEAN
BY DEF Point, Post, Read, Cmd, Exec, Bltin, Exited

(* Every mode of a checkpoint is a jump value. *)
LEMMA ModeIsVal ==
    JmpMode \subseteq JmpVal /\ JmpMode \subseteq Resume
BY DEF JmpVal, Resume

(* The state a step reaches. *)
Landed ==
    /\ at \in Point
    /\ Good(stack, sh)
    /\ at = Bltin => Top(stack).kind = "cmd"

(* A step that goes to a point with a good chain and state lands. *)
LEMMA GotoLands ==
    ASSUME NEW p \in Landing, NEW k, NEW s, Good(k, s), Goto(p, k, s)
    PROVE  Landed'
BY DEF Goto, Landed, Landing

(* A pending or raised fatal condition lands in a jump. *)
LEMMA SignalExitLands ==
    ASSUME NEW k, NEW s, Good(k, s), SignalExit(k, s)
    PROVE  Landed'
<1>1. k \in Stack /\ s \in Shell
  BY DEF Good
<1>2. [sh_exit(s) EXCEPT !.exitval = 1] \in Shell /\ SameDepths(s, [sh_exit(s) EXCEPT !.exitval = 1])
  <2>1. sh_exit(s) \in Shell /\ SameDepths(s, sh_exit(s)) /\ 1 \in 0..255
    BY <1>1, TypeExit
  <2> HIDE DEF sh_exit
  <2>2. /\ [sh_exit(s) EXCEPT !.exitval = 1] \in Shell
        /\ SameDepths(sh_exit(s), [sh_exit(s) EXCEPT !.exitval = 1])
    BY <2>1, TypeExitval, Zenon
  <2>3. QED
    BY <2>1, <2>2 DEF SameDepths
<1>3. Jump(Top(k).mode) \in Landing
  BY <1>1, StackTop, ModeIsVal, PointType
<1>4. Good(k, [sh_exit(s) EXCEPT !.exitval = 1])
  BY <1>2, GoodShell
<1>5. QED
  BY <1>3, <1>4, GotoLands DEF SignalExit

(* The end of sh_exec lands. *)
LEMMA AfterExecLands ==
    ASSUME NEW k, NEW s, Good(k, s), AfterExec(k, s)
    PROVE  Landed'
BY SignalExitLands, GotoLands, PointType DEF AfterExec

(* The end of the first part of sh_chktrap lands. *)
LEMMA ErrExitLands ==
    ASSUME NEW k, NEW s, Good(k, s), NEW n \in Nat, NEW then \in Resume, ErrExit(k, s, n, then)
    PROVE  Landed'
<1>1. k \in Stack /\ s \in Shell
  BY DEF Good
<1>2. CASE s.errexit
  <2>1. JmpExit \in JmpMode
    BY DEF JmpMode
  <2>2. Jump(JmpExit) \in Landing
    BY <2>1, ModeIsVal, PointType
  <2>3. Good(k, sh_exit(s))
    BY <1>1, TypeExit, GoodShell
  <2>4. Good(SetMode(k, JmpExit), sh_exit(s))
    BY <1>1, <2>1, <2>3, StackMode, GoodKinds
  <2>5. QED
    BY <1>2, <2>2, <2>4, GotoLands DEF ErrExit
<1>3. CASE ~s.errexit
  BY <1>3, PointType, GotoLands DEF ErrExit
<1>4. QED
  BY <1>2, <1>3

(* The end of sh_chktrap lands where it was called from. *)
LEMMA ReturnLands ==
    ASSUME NEW k, NEW s, Good(k, s), NEW then \in Resume, Return(k, s, then)
    PROVE  Landed'
<1>1. CASE then = 0
  BY <1>1, AfterExecLands DEF Return, Done, Reading
<1>2. CASE then # 0 /\ then = Done
  BY <1>2, PointType, GotoLands DEF Return, Done, Reading
<1>3. CASE then # 0 /\ then # Done /\ then = Reading
  BY <1>3, PointType, GotoLands DEF Return, Done, Reading
<1>4. CASE then # 0 /\ then # Done /\ then # Reading
  <2>1. then \in JmpVal
    BY <1>4 DEF Resume
  <2>2. Jump(then) \in Landing
    BY <2>1, PointType
  <2>3. QED
    BY <1>4, <2>2, GotoLands DEF Return
<1>5. QED
  BY <1>1, <1>2, <1>3, <1>4

(* The activations of sh_exec and sh_eval. *)
LEMMA FramePlain ==
    ASSUME NEW c \in {"loop", "eval", "cmd"}, NEW m \in JmpMode
    PROVE  [kind |-> c, mode |-> m] \in Frame
BY DEF Frame, PlainFrame

(* The activation of a handler of sh_chktrap: the ERR trap. *)
LEMMA FrameErr ==
    ASSUME NEW x \in 0..255, NEW d \in BOOLEAN, NEW t \in Handler,
           NEW note \in SUBSET {"SIGSET", "SIGTRAP"}, NEW n \in Nat, NEW then \in Resume
    PROVE  [kind |-> "ERR", mode |-> JmpEval, savxit |-> x, nodontexec |-> d, trap |-> t,
            note |-> note, sig |-> n, then |-> then] \in Frame
BY DEF Frame, ErrFrame, JmpMode

(* And the trap of a signal. *)
LEMMA FrameSig ==
    ASSUME NEW x \in 0..255, NEW d \in BOOLEAN, NEW n \in Nat, NEW then \in Resume
    PROVE  [kind |-> "SIG", mode |-> JmpEval, savxit |-> x, nodontexec |-> d,
            sig |-> n, then |-> then] \in Frame
BY DEF Frame, SigFrame, JmpMode

(* The activation of the EXIT trap in sh_done. *)
LEMMA FrameDone ==
    ASSUME NEW x \in 0..255, NEW d \in BOOLEAN
    PROVE  [kind |-> "DONE", mode |-> JmpEval, savxit |-> x, nodontexec |-> d] \in Frame
BY DEF Frame, DoneFrame, JmpMode

(* The EXIT trap of a function. *)
LEMMA FrameExit ==
    ASSUME NEW x \in 0..255, NEW d \in BOOLEAN, NEW v \in JmpVal \cup {0}
    PROVE  [kind |-> "EXIT", mode |-> JmpEval, savxit |-> x, nodontexec |-> d,
            jmpval |-> v] \in Frame
BY DEF Frame, ExitFrame, JmpMode

(* The DEBUG trap. *)
LEMMA FrameDebug ==
    ASSUME NEW d \in BOOLEAN, NEW st \in Scoped
    PROVE  [kind |-> "DEBUG", mode |-> JmpEval, savxit |-> 0, nodontexec |-> d,
            savst |-> st] \in Frame
BY DEF Frame, DebugFrame, JmpMode

(* The activations of sh_funscope. *)
LEMMA FrameFun ==
    ASSUME NEW st \in Scoped, NEW t \in Table, NEW b \in BOOLEAN
    PROVE  [kind |-> "fun", mode |-> JmpFun, prevst |-> st, savsig |-> t, options |-> b] \in Frame
BY DEF Frame, FunFrame, JmpMode

(* And of a POSIX function or dot script. *)
LEMMA FramePosix ==
    ASSUME NEW n \in Int
    PROVE  [kind |-> "posix", mode |-> JmpFun, loopcnt |-> n] \in Frame
BY DEF Frame, PosixFrame, JmpMode

(* A handler starts: sh_trap pushes its checkpoint. *)
LEMMA HandlerLands ==
    ASSUME NEW k, NEW s, Good(k, s), NEW f \in Frame, f.kind \in TrapKinds, NEW t \in Shell,
           SameDepths(s, t), Goto(Cmd, Append(k, f), EnterTrap(t))
    PROVE  Landed'
<1>1. /\ EnterTrap(t) \in Shell /\ EnterTrap(t).intrap = s.intrap + 1
      /\ EnterTrap(t).dot_depth = s.dot_depth /\ EnterTrap(t).fn_depth = s.fn_depth
  BY TypeEnterTrap DEF SameDepths
<1>2. f.kind # "main" /\ f.kind \notin {"posix"} /\ f.kind \notin {"fun"}
  BY DEF TrapKinds
<1>3. s.dot_depth \in Int /\ s.fn_depth \in Int
  BY TypeDepths DEF Good
<1>4. Good(Append(k, f), EnterTrap(t))
  BY <1>1, <1>2, <1>3, GoodPush
<1>5. QED
  BY <1>4, GotoLands, PointType

(* sh_chktrap lands: in the ERR trap, in errexit's jump or in its scan. *)
LEMMA ChktrapLands ==
    ASSUME NEW k, NEW s, Good(k, s), NEW errexit, NEW then \in Resume,
           sh_chktrap(k, s, errexit, then)
    PROVE  Landed'
<1> DEFINE n == IF s.trapnote = {} THEN 0 ELSE s.st.trapmax
           c == [s EXCEPT !.trapnote = @ \ {"SIGTRAP"}]
           f == [kind |-> "ERR", mode |-> JmpEval, savxit |-> c.exitval,
                 nodontexec |-> c.st.trapdontexec = "off",
                 trap |-> c.st.err, note |-> c.trapnote, sig |-> n, then |-> then]
           t == [c EXCEPT !.st.err = None, !.trapnote = @ \ {"SIGSET"}]
<1>1. s \in Shell
  BY DEF Good
<1>2. n \in Nat
  BY <1>1 DEF Shell, Scoped
<1>3. c \in Shell /\ SameDepths(s, c)
  BY <1>1 DEF Shell, SameDepths
<1>4. Good(k, c)
  BY <1>3, GoodShell
<1>5. CASE ~(errexit /\ c.exitval # 0)
  <2>1. Goto(Chk(n, then), k, c)
    BY <1>5 DEF sh_chktrap
  <2> HIDE DEF n, c
  <2>2. QED
    BY <1>2, <1>4, <2>1, PointType, GotoLands
<1>6. CASE errexit /\ c.exitval # 0 /\ c.st.err = None
  <2>1. ErrExit(k, c, n, then)
    BY <1>6 DEF sh_chktrap
  <2> HIDE DEF n, c
  <2>2. QED
    BY <1>2, <1>4, <2>1, ErrExitLands
<1>7. CASE errexit /\ c.exitval # 0 /\ c.st.err # None
  <2>1. Goto(Cmd, Append(k, f), EnterTrap(t))
    BY <1>7 DEF sh_chktrap
  <2>2. f \in Frame /\ f.kind \in TrapKinds
    <3> HIDE DEF n, c
    <3>1. /\ c.exitval \in 0..255 /\ c.trapnote \in SUBSET {"SIGSET", "SIGTRAP"}
          /\ c.st.err \in Handler
      BY <1>3, <1>7 DEF Shell, Scoped
    <3>2. f \in Frame
      BY <1>2, <3>1, FrameErr
    <3>3. QED
      BY <3>2 DEF TrapKinds
  <2>3. t \in Shell /\ SameDepths(c, t)
    <3> HIDE DEF c
    <3> DEFINE u == [c EXCEPT !.st.err = None]
    <3>1. u \in Shell /\ SameDepths(c, u)
      BY <1>3, TypeMember
    <3>2. t = [u EXCEPT !.trapnote = u.trapnote \ {"SIGSET"}]
      OBVIOUS
    <3> HIDE DEF u
    <3>3. QED
      BY <3>1, <3>2 DEF Shell, SameDepths
  <2> HIDE DEF n, c, f, t
  <2>4. QED
    BY <1>4, <2>1, <2>2, <2>3, HandlerLands
<1>8. QED
  BY <1>5, <1>6, <1>7

(* sh_done lands: in the EXIT trap, in sh_chktrap or at the end. *)
LEMMA DoneLands ==
    ASSUME NEW k, NEW s, Good(k, s), sh_done(k, s)
    PROVE  Landed'
<1> DEFINE d == [s EXCEPT !.trapnote = {}, !.indone = TRUE]
           f == [kind |-> "DONE", mode |-> JmpEval, savxit |-> d.exitval,
                 nodontexec |-> d.st.trapdontexec = "off"]
           e == [d EXCEPT !.trapcom[0] = None]
<1>1. s \in Shell
  BY DEF Good
<1>2. d \in Shell /\ SameDepths(s, d)
  BY <1>1 DEF Shell, SameDepths
<1>3. e \in Shell /\ SameDepths(s, e)
  <2>1. [d.trapcom EXCEPT ![0] = None] \in Table
    BY <1>2 DEF Shell, Table, Trap
  <2> HIDE DEF d
  <2>2. QED
    BY <1>2, <2>1 DEF Shell, SameDepths
<1>4. Good(k, e)
  BY <1>3, GoodShell
<1>5. Done \in Resume
  BY DEF Resume
<1>6. CASE d.trapcom[0] = None
  <2>1. sh_chktrap(k, e, FALSE, Done)
    BY <1>6, TrapAssumption DEF sh_done
  <2> HIDE DEF e
  <2>2. QED
    BY <1>4, <1>5, <2>1, ChktrapLands
<1>7. CASE d.trapcom[0] = Ignore
  <2>1. Goto(Exited, k, e)
    BY <1>7, TrapAssumption DEF sh_done
  <2> HIDE DEF e
  <2>2. QED
    BY <1>4, <2>1, PointType, GotoLands
<1>8. CASE d.trapcom[0] # None /\ d.trapcom[0] # Ignore
  <2>1. Goto(Cmd, Append(k, f), EnterTrap(e))
    BY <1>8 DEF sh_done
  <2>2. f \in Frame /\ f.kind \in TrapKinds
    <3>1. d.exitval \in 0..255
      BY <1>2 DEF Shell
    <3> HIDE DEF d
    <3>2. f \in Frame
      BY <3>1, FrameDone
    <3>3. QED
      BY <3>2 DEF TrapKinds
  <2> HIDE DEF e, f
  <2>3. Good(k, s)
    OBVIOUS
  <2>4. QED
    BY <1>3, <2>1, <2>2, <2>3, HandlerLands
<1>9. QED
  BY <1>6, <1>7, <1>8

-------------------------------------------------------------------------------
(* Leaving functions and handlers. *)

(* What the activations have saved is well-formed. *)
LEMMA FrameParts ==
    ASSUME NEW f \in Frame
    PROVE  /\ f.kind = "fun" => /\ f.prevst \in Scoped /\ f.savsig \in Table
                                /\ f.options \in BOOLEAN
           /\ f.kind = "posix" => f.loopcnt \in Int
           /\ f.kind \in TrapKinds => f.savxit \in 0..255
           /\ f.kind = "DEBUG" => f.savst \in Scoped
           /\ f.kind = "ERR" => /\ f.trap \in Handler /\ f.sig \in Nat /\ f.then \in Resume
                                /\ f.note \in SUBSET {"SIGSET", "SIGTRAP"}
           /\ f.kind = "SIG" => f.sig \in Nat /\ f.then \in Resume
           /\ f.kind = "EXIT" => f.jmpval \in JmpVal \cup {0}
BY DEF Frame, PlainFrame, FunFrame, PosixFrame, DebugFrame, ErrFrame, SigFrame, ExitFrame,
       DoneFrame, TrapKinds

(* The history of deliveries counts. *)
LEMMA SentType ==
    ASSUME sent \in [Sig -> Nat], NEW i \in Sig
    PROVE  [sent EXCEPT ![i] = @ + 1] \in [Sig -> Nat]
OBVIOUS

(* Past the EXIT trap of a function. *)
LEMMA FunctionAfterLands ==
    ASSUME NEW k, NEW s, Good(k, s), NEW v \in JmpVal \cup {0}, FunctionAfter(k, s, v),
           sent \in [Sig -> Nat]
    PROVE  Landed' /\ sent' \in [Sig -> Nat]
<1>1. CASE v > JmpFun
  <2>1. v \in Resume
    BY <1>1 DEF Resume, JmpFun
  <2>2. PICK errexit \in BOOLEAN : sh_chktrap(k, s, errexit, v)
    BY <1>1 DEF FunctionAfter
  <2>3. sent' = sent
    BY <1>1 DEF FunctionAfter
  <2>4. QED
    BY <2>1, <2>2, <2>3, ChktrapLands
<1>2. CASE ~(v > JmpFun) /\ v = JmpFun /\ s.lastsig # 0
  <2>1. s.lastsig \in Sig
    BY <1>2 DEF Good, Shell, SigNo
  <2>2. /\ Goto(Post(TRUE), fault_frames(s, k, s.lastsig), sh_fault(s, k, s.lastsig))
        /\ sent' = [sent EXCEPT ![s.lastsig] = @ + 1]
    BY <1>2 DEF FunctionAfter
  <2>3. Good(fault_frames(s, k, s.lastsig), sh_fault(s, k, s.lastsig))
    BY <2>1, GoodFault
  <2>4. Landed'
    BY <2>2, <2>3, PointType, GotoLands
  <2>5. QED
    BY <2>1, <2>2, <2>4, SentType
<1>3. CASE ~(v > JmpFun) /\ ~(v = JmpFun /\ s.lastsig # 0)
  BY <1>3, PointType, GotoLands DEF FunctionAfter
<1>4. QED
  BY <1>1, <1>2, <1>3

(* A KornShell function is left, at its end (v = 0) or by a jump. *)
LEMMA FunctionLeaveLands ==
    ASSUME Good(stack, sh), Top(stack).kind = "fun", NEW v \in JmpVal \cup {0}, FunctionLeave(v),
           sent \in [Sig -> Nat]
    PROVE  Landed' /\ sent' \in [Sig -> Nat]
<1> DEFINE f == Top(stack)
           u == [sh EXCEPT !.fn_depth = @ - 1]
           left == sh_sigreset(u, 1)
           table == [i \in SigNo |-> IF i < f.prevst.trapmax THEN f.savsig[i] ELSE left.trapcom[i]]
           s == [left EXCEPT !.st = f.prevst, !.errexit = f.options, !.trapnote = {},
                             !.trapcom = table]
           frame == [kind |-> "EXIT", mode |-> JmpEval, savxit |-> s.exitval,
                     nodontexec |-> s.st.trapdontexec = "off", jmpval |-> v]
<1>1. stack \in Stack /\ sh \in Shell /\ f \in Frame /\ f.kind = "fun"
  BY StackTop DEF Good
<1>2. /\ f.prevst \in Scoped /\ f.savsig \in Table /\ f.options \in BOOLEAN
  BY <1>1, FrameParts
<1>3. u \in Shell /\ u.fn_depth = sh.fn_depth - 1 /\ u.dot_depth = sh.dot_depth
      /\ u.intrap = sh.intrap
  <2>1. sh.fn_depth - 1 \in Int
    BY <1>1, TypeDepths
  <2> DEFINE n == sh.fn_depth - 1
  <2>2. u = [sh EXCEPT !.fn_depth = n]
    OBVIOUS
  <2> HIDE DEF n
  <2>3. /\ [sh EXCEPT !.fn_depth = n] \in Shell /\ [sh EXCEPT !.fn_depth = n].fn_depth = n
        /\ [sh EXCEPT !.fn_depth = n].dot_depth = sh.dot_depth
        /\ [sh EXCEPT !.fn_depth = n].intrap = sh.intrap
    <3>1. n \in Int
      BY <2>1 DEF n
    <3>2. QED
      BY <1>1, <3>1 DEF Shell
  <2>4. QED
    BY <2>2, <2>3 DEF n
<1>4. left \in Shell /\ SameDepths(u, left)
  <2> HIDE DEF u
  <2>1. QED
    BY <1>3, TypeSigreset
<1>5. s \in Shell /\ SameDepths(left, s)
  <2> HIDE DEF f, left
  <2>1. table \in Table
    BY <1>2, <1>4 DEF Shell, Table
  <2> HIDE DEF table
  <2>2. QED
    BY <1>2, <1>4, <2>1 DEF Shell, SameDepths
<1>6. Good(Pop(stack), s)
  <2> HIDE DEF u, left, s
  <2>1. s.fn_depth = sh.fn_depth - 1 /\ s.dot_depth = sh.dot_depth /\ s.intrap = sh.intrap
    BY <1>3, <1>4, <1>5 DEF SameDepths
  <2>2. sh.intrap \in Int /\ sh.dot_depth \in Int
    BY <1>1, TypeDepths
  <2>3. f.kind \notin {"posix"} /\ f.kind \notin TrapKinds /\ f.kind \in {"fun"} /\ f.kind # "main"
    BY <1>1 DEF TrapKinds
  <2>4. QED
    BY <1>5, <2>1, <2>2, <2>3, GoodPop
<1>7. CASE sh.fn_depth = 2 /\ v = JmpErrFn
  <2>1. ~(MaxFrames <= MAXDEPTH)
    BY <1>7, BoundAssumption DEF JmpVal, JmpMode, JmpErrFn, JmpEval, JmpCmd, JmpFun, JmpErrExit,
       JmpExit
  <2>2. SignalExit(stack, u) /\ sent' = sent
    BY <1>7 DEF FunctionLeave
  <2> HIDE DEF u
  <2>3. Good(stack, u)
    BY <1>3, <2>1 DEF Good, Agree
  <2>4. QED
    BY <2>2, <2>3, SignalExitLands
<1>8. CASE ~(sh.fn_depth = 2 /\ v = JmpErrFn) /\ sh.trapcom[0] \in Handler
  <2>1. Goto(Cmd, Append(Pop(stack), frame), EnterTrap(s)) /\ sent' = sent
    BY <1>8 DEF FunctionLeave
  <2>2. frame \in Frame /\ frame.kind \in TrapKinds
    <3>1. s.exitval \in 0..255
      BY <1>5 DEF Shell
    <3> HIDE DEF s, f
    <3>2. frame \in Frame
      BY <1>2, <3>1, FrameExit
    <3>3. QED
      BY <3>2 DEF TrapKinds
  <2> HIDE DEF s, frame
  <2>3. SameDepths(s, s)
    BY DEF SameDepths
  <2>4. QED
    BY <1>5, <1>6, <2>1, <2>2, <2>3, HandlerLands
<1>9. CASE ~(sh.fn_depth = 2 /\ v = JmpErrFn) /\ sh.trapcom[0] \notin Handler
  <2>1. FunctionAfter(Pop(stack), s, v)
    BY <1>9 DEF FunctionLeave
  <2> HIDE DEF s
  <2>2. QED
    BY <1>6, <2>1, FunctionAfterLands
<1>10. QED
  BY <1>7, <1>8, <1>9

(* A POSIX function or dot script is left. *)
LEMMA PosixLeaveLands ==
    ASSUME Good(stack, sh), Top(stack).kind = "posix", NEW v \in JmpVal \cup {0}, PosixLeave(v)
    PROVE  Landed'
<1> DEFINE f == Top(stack)
           n == sh.dot_depth - 1
           s == [sh EXCEPT !.dot_depth = n]
           t == [s EXCEPT !.st.loopcnt = f.loopcnt]
<1>1. stack \in Stack /\ sh \in Shell /\ f \in Frame /\ f.kind = "posix"
  BY StackTop DEF Good
<1>2. f.loopcnt \in Int
  BY <1>1, FrameParts
<1>3. n \in Int
  BY <1>1, TypeDepths
<1>4. /\ s \in Shell /\ s.dot_depth = n /\ s.fn_depth = sh.fn_depth /\ s.intrap = sh.intrap
  <2> HIDE DEF n
  <2>1. QED
    BY <1>1, <1>3 DEF Shell
<1>5. Good(Pop(stack), s)
  <2>1. s.dot_depth = sh.dot_depth - 1
    BY <1>4
  <2> HIDE DEF s
  <2>2. sh.intrap \in Int /\ sh.fn_depth \in Int
    BY <1>1, TypeDepths
  <2>3. f.kind \in {"posix"} /\ f.kind \notin TrapKinds /\ f.kind \notin {"fun"} /\ f.kind # "main"
    BY <1>1 DEF TrapKinds
  <2>4. QED
    BY <1>4, <2>1, <2>2, <2>3, GoodPop
<1>6. Good(Pop(stack), t)
  <2> HIDE DEF s
  <2>1. t \in Shell /\ SameDepths(s, t)
    BY <1>2, <1>4, TypeMember
  <2>2. QED
    BY <1>5, <2>1, GoodShell
<1>7. CASE v \in {0, JmpFun}
  <2>1. Goto(Post(TRUE), Pop(stack), t)
    BY <1>7 DEF PosixLeave
  <2> HIDE DEF t
  <2>2. QED
    BY <1>6, <2>1, PointType, GotoLands
<1>8. CASE v \notin {0, JmpFun}
  <2>1. Goto(Jump(v), Pop(stack), s)
    BY <1>8 DEF PosixLeave
  <2> HIDE DEF s
  <2>2. QED
    BY <1>5, <1>8, <2>1, PointType, GotoLands
<1>9. QED
  BY <1>7, <1>8

(* sh_trap takes its checkpoint and its count of intrap back. *)
LEMMA HandlerLeft ==
    ASSUME Good(stack, sh), Top(stack).kind \in TrapKinds
    PROVE  /\ Top(stack) \in Frame
           /\ LeaveTrap(sh, Top(stack)) \in Shell
           /\ Good(Pop(stack), LeaveTrap(sh, Top(stack)))
<1> DEFINE f == Top(stack)
           s == LeaveTrap(sh, f)
<1>1. stack \in Stack /\ sh \in Shell /\ f \in Frame
  BY StackTop DEF Good
<1>2. f.savxit \in 0..255
  BY <1>1, FrameParts
<1>3. /\ s \in Shell /\ s.intrap = sh.intrap - 1 /\ s.dot_depth = sh.dot_depth
      /\ s.fn_depth = sh.fn_depth
  BY <1>1, <1>2, TypeLeaveTrap
<1>4. sh.dot_depth \in Int /\ sh.fn_depth \in Int
  BY <1>1, TypeDepths
<1>5. f.kind \notin {"posix"} /\ f.kind \notin {"fun"} /\ f.kind # "main"
  BY DEF TrapKinds
<1> HIDE DEF s
<1>6. Good(Pop(stack), s)
  BY <1>3, <1>4, <1>5, GoodPop
<1>7. QED
  BY <1>1, <1>3, <1>6 DEF s

(* The caller of sh_trap goes on. *)
LEMMA TrapReturnLands ==
    ASSUME Good(stack, sh), Top(stack).kind \in TrapKinds, TrapReturn, sent \in [Sig -> Nat]
    PROVE  Landed' /\ sent' \in [Sig -> Nat]
<1> DEFINE f == Top(stack)
           k == Pop(stack)
           s == LeaveTrap(sh, f)
           debug == [s EXCEPT !.indebug = FALSE, !.st = f.savst]
           err == [s EXCEPT !.st.err = f.trap, !.trapnote = f.note]
<1>1. f \in Frame /\ s \in Shell /\ Good(k, s)
  BY HandlerLeft
<1>2. CASE f.kind = "DEBUG"
  <2>1. f.savst \in Scoped
    BY <1>1, <1>2, FrameParts
  <2>2. debug \in Shell /\ SameDepths(s, debug)
    <3> HIDE DEF s, f
    <3>1. QED
      BY <1>1, <2>1 DEF Shell, SameDepths
  <2>3. \/ Goto(Jump(JmpFun), k, sh_exit(debug))
        \/ Goto(Post(TRUE), k, [debug EXCEPT !.exitval = 2])
        \/ Goto(Exec, k, debug)
    BY <1>2 DEF TrapReturn
  <2>4. sent' = sent
    BY <1>2 DEF TrapReturn
  <2> HIDE DEF debug, s, k
  <2>5. Good(k, debug)
    BY <1>1, <2>2, GoodShell
  <2>6. Good(k, sh_exit(debug)) /\ Good(k, [debug EXCEPT !.exitval = 2])
    <3>1. 2 \in 0..255
      OBVIOUS
    <3>2. QED
      BY <2>2, <2>5, <3>1, TypeExit, TypeExitval, GoodShell
  <2>7. Jump(JmpFun) \in Landing
    BY PointType DEF JmpVal, JmpMode
  <2>8. Landed'
    BY <2>3, <2>5, <2>6, <2>7, PointType, GotoLands
  <2>9. QED
    BY <2>4, <2>8
<1>3. CASE f.kind = "ERR"
  <2>1. /\ f.trap \in Handler /\ f.sig \in Nat /\ f.then \in Resume
        /\ f.note \in SUBSET {"SIGSET", "SIGTRAP"}
    BY <1>1, <1>3, FrameParts
  <2>2. ErrExit(k, err, f.sig, f.then) /\ sent' = sent
    BY <1>3 DEF TrapReturn
  <2>3. err \in Shell /\ SameDepths(s, err)
    <3> HIDE DEF s, f
    <3> DEFINE t == [s EXCEPT !.st.err = f.trap]
    <3>1. t \in Shell /\ SameDepths(s, t)
      BY <1>1, <2>1, TypeMember
    <3>2. err = [t EXCEPT !.trapnote = f.note]
      OBVIOUS
    <3> HIDE DEF t
    <3>3. [t EXCEPT !.trapnote = f.note] \in Shell
      BY <2>1, <3>1 DEF Shell
    <3>4. SameDepths(s, [t EXCEPT !.trapnote = f.note])
      BY <3>1 DEF Shell, SameDepths
    <3>5. QED
      BY <3>2, <3>3, <3>4
  <2> HIDE DEF err, s, k
  <2>4. Good(k, err)
    BY <1>1, <2>3, GoodShell
  <2>5. QED
    BY <2>1, <2>2, <2>4, ErrExitLands
<1>4. CASE f.kind = "SIG"
  <2>1. f.sig \in Nat /\ f.then \in Resume
    BY <1>1, <1>4, FrameParts
  <2> DEFINE t == [s EXCEPT !.cursig = -1]
  <2>2. Goto(Chk(f.sig, f.then), k, t) /\ sent' = sent
    BY <1>4 DEF TrapReturn
  <2> HIDE DEF s, k
  <2>3. t \in Shell /\ SameDepths(s, t)
    BY <1>1 DEF Shell, SameDepths
  <2> HIDE DEF t
  <2>4. Good(k, t)
    BY <1>1, <2>3, GoodShell
  <2>5. QED
    BY <2>1, <2>2, <2>4, PointType, GotoLands
<1>5. CASE f.kind = "EXIT"
  <2>1. f.jmpval \in JmpVal \cup {0}
    BY <1>1, <1>5, FrameParts
  <2>2. FunctionAfter(k, s, f.jmpval)
    BY <1>5 DEF TrapReturn
  <2> HIDE DEF s, k
  <2>3. QED
    BY <1>1, <2>1, <2>2, FunctionAfterLands
<1>6. CASE f.kind = "DONE"
  <2>1. Goto(Exited, k, s) /\ sent' = sent
    BY <1>6 DEF TrapReturn
  <2> HIDE DEF s, k
  <2>2. QED
    BY <1>1, <2>1, PointType, GotoLands
<1>7. QED
  BY <1>2, <1>3, <1>4, <1>5, <1>6 DEF TrapKinds

-------------------------------------------------------------------------------
(* The steps of the interpreter. *)

(* An activation that no counter counts is pushed. *)
LEMMA PushPlain ==
    ASSUME NEW k, NEW s, Good(k, s), NEW c \in {"loop", "eval", "cmd"}, NEW m \in JmpMode,
           NEW t \in Shell, SameDepths(s, t)
    PROVE  Good(Append(k, [kind |-> c, mode |-> m]), t)
<1> DEFINE f == [kind |-> c, mode |-> m]
<1>1. f \in Frame
  BY FramePlain
<1>2. f.kind \notin {"posix"} /\ f.kind \notin TrapKinds /\ f.kind \notin {"fun"} /\ f.kind # "main"
  BY DEF TrapKinds
<1>3. s.dot_depth \in Int /\ s.intrap \in Int /\ s.fn_depth \in Int
  BY TypeDepths DEF Good
<1> HIDE DEF f
<1>4. Good(Append(k, f), t)
  BY <1>1, <1>2, <1>3, GoodPush DEF SameDepths
<1>5. QED
  BY <1>4 DEF f

(* And popped. *)
LEMMA PopPlain ==
    ASSUME NEW k, NEW s, Good(k, s), Top(k).kind \in {"loop", "eval", "cmd"}, NEW t \in Shell,
           SameDepths(s, t)
    PROVE  Good(Pop(k), t)
<1>1. /\ Top(k).kind \notin {"posix"} /\ Top(k).kind \notin TrapKinds
      /\ Top(k).kind \notin {"fun"} /\ Top(k).kind # "main"
  BY DEF TrapKinds
<1>2. s.dot_depth \in Int /\ s.intrap \in Int /\ s.fn_depth \in Int
  BY TypeDepths DEF Good
<1>3. QED
  BY <1>1, <1>2, GoodPop DEF SameDepths

(* At the outermost checkpoint no activation is counted. *)
LEMMA CountMain ==
    ASSUME NEW k \in Stack, Top(k).kind = "main", NEW K, "main" \notin K
    PROVE  Count(k, K) = 0
<1>1. k \in Seq(Frame) /\ Len(k) = 1 /\ k[1].kind = "main"
  <2>1. k \in Seq(Frame) /\ Len(k) \in Nat /\ Len(k) \in 1..Len(k) /\ k[Len(k)].kind = "main"
    BY StackTop DEF Top
  <2>2. \A j \in 1..Len(k) : k[j].kind = "main" <=> j = 1
    BY DEF Stack
  <2>3. QED
    BY <2>1, <2>2
<1>2. {j \in 1..Len(k) : k[j].kind \in K} = {}
  BY <1>1
<1>3. QED
  BY <1>2, FS_EmptySet DEF Count

(* The deepest nesting is bounded by the chain. *)
LEMMA DepthBound ==
    ASSUME Good(stack, sh), Room, MaxFrames <= MAXDEPTH
    PROVE  sh.fn_depth < MAXDEPTH
<1>1. Count(stack, {"fun"}) <= Len(stack) /\ Len(stack) \in Nat /\ Count(stack, {"fun"}) \in Nat
  BY CountBound, StackTop DEF Good
<1>2. sh.fn_depth = Count(stack, {"fun"})
  BY DEF Good, Agree
<1>3. QED
  BY <1>1, <1>2, BoundAssumption DEF Room

(* The inductive invariant: the types, the agreement of the counters, and that
   a running built-in is in its checkpoint. *)
IInv == TypeOK /\ CountersAgree /\ (at = Bltin => Top(stack).kind = "cmd")

(* What a step needs of it. *)
LEMMA IInvParts ==
    ASSUME IInv
    PROVE  /\ Good(stack, sh) /\ stack \in Stack /\ sh \in Shell /\ at \in Point
           /\ sent \in [Sig -> Nat] /\ ran \in [Sig -> Nat]
BY DEF IInv, TypeOK, CountersAgree, Good

(* The steps of sh_chktrap, and the test at the end of sh_exec. *)
LEMMA ScanLands ==
    ASSUME IInv, ScanNext \/ ScanEnd \/ PostExec
    PROVE  Landed' /\ sent' \in [Sig -> Nat] /\ ran' \in [Sig -> Nat]
<1> USE IInvParts
<1>1. CASE ScanNext
  <2>1. PICK i \in Due : RunTrap(i) \/ SkipTrap(i)
    BY <1>1 DEF ScanNext
  <2>2. i \in Sig /\ i \in SigNo /\ i \in Nat
    BY SigAssumption DEF Due, Shell, SigNo
  <2>3. at.sig \in Nat /\ at.then \in Resume
    BY <1>1, PointParts DEF ScanNext
  <2> DEFINE taken == Taken(sh, i)
             t == [taken EXCEPT !.cursig = i]
             u == [taken EXCEPT !.cursig = IF sh.trapcom[i] = Ignore THEN -1 ELSE taken.cursig]
             f == SigFrameOf(sh, i)
  <2>4. taken \in Shell /\ SameDepths(sh, taken)
    BY TypeTaken
  <2>5. t \in Shell /\ SameDepths(sh, t) /\ u \in Shell /\ SameDepths(sh, u)
    <3> HIDE DEF taken
    <3>1. QED
      BY <2>2, <2>4 DEF Shell, SameDepths
  <2>6. sent' = sent
    BY <1>1 DEF ScanNext
  <2>7. CASE RunTrap(i)
    <3>1. Goto(Cmd, Append(stack, f), EnterTrap(t)) /\ ran' = [ran EXCEPT ![i] = @ + 1]
      BY <2>7 DEF RunTrap
    <3>2. sh.exitval \in 0..255
      BY DEF Shell
    <3>3. f \in Frame /\ f.kind \in TrapKinds
      <4>1. f \in Frame
        BY <2>2, <2>3, <3>2, FrameSig DEF SigFrameOf
      <4>2. QED
        BY <4>1 DEF TrapKinds, SigFrameOf
    <3> HIDE DEF t, f
    <3>4. Landed'
      BY <2>5, <3>1, <3>3, HandlerLands
    <3>5. QED
      BY <2>2, <2>6, <3>1, <3>4
  <2>8. CASE SkipTrap(i)
    <3>1. Goto(Chk(i, at.then), stack, u) /\ ran' = ran
      BY <2>8 DEF SkipTrap
    <3> HIDE DEF u
    <3>2. Good(stack, u)
      BY <2>5, GoodShell
    <3>3. QED
      BY <2>2, <2>3, <2>6, <3>1, <3>2, PointType, GotoLands
  <2>9. QED
    BY <2>1, <2>7, <2>8
<1>2. CASE ScanEnd
  <2>1. at.then \in Resume
    BY <1>2, PointParts DEF ScanEnd
  <2>2. QED
    BY <1>2, <2>1, ReturnLands DEF ScanEnd
<1>3. CASE PostExec
  <2>1. PICK errexit \in BOOLEAN : sh_chktrap(stack, sh, errexit, 0) \/ AfterExec(stack, sh)
    BY <1>3 DEF PostExec
  <2>2. 0 \in Resume
    BY DEF Resume
  <2>3. Landed'
    BY <2>1, <2>2, ChktrapLands, AfterExecLands
  <2>4. QED
    BY <1>3, <2>3 DEF PostExec
<1>4. QED
  BY <1>1, <1>2, <1>3

(* The command loop, the end of the shell, and what reaches the outermost
   checkpoint. *)
LEMMA MainLands ==
    ASSUME IInv, NextLine \/ ReadLine \/ EndOfInput \/ SigCheck \/ UnwindMain
    PROVE  Landed' /\ sent' \in [Sig -> Nat] /\ ran' \in [Sig -> Nat]
<1> USE IInvParts
<1> DEFINE b == [sh EXCEPT !.st.breakcnt = 0]
           n == [b EXCEPT !.trapnote = {}]
<1>1. b \in Shell /\ SameDepths(sh, b) /\ Good(stack, b)
  BY TypeMember, GoodShell
<1>2. n \in Shell /\ SameDepths(sh, n) /\ Good(stack, n)
  <2> HIDE DEF b
  <2>1. n \in Shell /\ SameDepths(sh, n)
    BY <1>1 DEF Shell, SameDepths
  <2> HIDE DEF n
  <2>2. QED
    BY <2>1, GoodShell
<1>3. CASE NextLine
  <2> DEFINE m == IF Top(stack).mode = JmpExit THEN JmpErrExit ELSE Top(stack).mode
  <2>1. m \in JmpMode
    BY StackTop DEF JmpMode
  <2>2. Goto(Read, SetMode(stack, m), n) \/ Goto(Cmd, stack, b)
    BY <1>3 DEF NextLine
  <2> HIDE DEF m, n, b
  <2>3. Good(SetMode(stack, m), n)
    BY <1>2, <2>1, StackMode, GoodKinds
  <2>4. Landed'
    BY <1>1, <2>2, <2>3, PointType, GotoLands
  <2>5. QED
    BY <1>3, <2>4 DEF NextLine
<1>4. CASE ReadLine
  <2>1. \/ SignalExit(stack, sh)
        \/ \E errexit \in BOOLEAN : sh_chktrap(stack, sh, errexit, Reading)
        \/ Goto(Cmd, stack, sh)
    BY <1>4 DEF ReadLine
  <2>2. Reading \in Resume
    BY DEF Resume
  <2>3. Landed'
    BY <2>1, <2>2, SignalExitLands, ChktrapLands, PointType, GotoLands
  <2>4. QED
    BY <1>4, <2>3 DEF ReadLine
<1>5. CASE EndOfInput
  BY <1>5, DoneLands DEF EndOfInput
<1>6. CASE SigCheck
  BY <1>6, SignalExitLands DEF SigCheck
<1>7. CASE UnwindMain
  <2> DEFINE l == [b EXCEPT !.st.loopcnt = 0]
             t == [l EXCEPT !.trapnote = {}]
             u == [t EXCEPT !.intrap = 0]
  <2>1. CASE ~Interactive \/ at.val > JmpErrExit
    <3>1. sh_done(stack, b)
      BY <1>7, <2>1 DEF UnwindMain
    <3> HIDE DEF b
    <3>2. QED
      BY <1>1, <1>7, <3>1, DoneLands DEF UnwindMain
  <2>2. CASE ~(~Interactive \/ at.val > JmpErrExit)
    <3>1. Goto(Cmd, stack, u)
      BY <1>7, <2>2 DEF UnwindMain
    <3>2. l \in Shell /\ SameDepths(sh, l)
      <4> HIDE DEF b
      <4>1. l \in Shell /\ SameDepths(b, l)
        BY <1>1, TypeMember, SMTT(30)
      <4>2. QED
        BY <1>1, <4>1 DEF SameDepths
    <3>3. t \in Shell /\ SameDepths(sh, t)
      <4> HIDE DEF l
      <4>1. QED
        BY <3>2 DEF Shell, SameDepths
    <3>4. u \in Shell /\ u.intrap = 0 /\ u.dot_depth = t.dot_depth /\ u.fn_depth = t.fn_depth
      <4> HIDE DEF t
      <4>1. QED
        BY <3>3, TypeIntrap
    <3>5. Count(stack, TrapKinds) = 0
      BY <1>7, CountMain DEF UnwindMain, TrapKinds
    <3>6. SameDepths(sh, u)
      <4> HIDE DEF t, u
      <4>1. QED
        BY <3>3, <3>4, <3>5 DEF SameDepths, Good, Agree
    <3> HIDE DEF u
    <3>7. Good(stack, u)
      BY <3>4, <3>6, GoodShell
    <3>8. Landed'
      BY <3>1, <3>7, PointType, GotoLands
    <3>9. QED
      BY <1>7, <3>8 DEF UnwindMain
  <2>3. QED
    BY <2>1, <2>2
<1>8. QED
  BY <1>3, <1>4, <1>5, <1>6, <1>7

(* A command that is started: sh_exec resets lastsig and the exit status. *)
LEMMA TypeStarted ==
    ASSUME IInv
    PROVE  Started \in Shell /\ SameDepths(sh, Started)
<1> DEFINE u == [sh EXCEPT !.lastsig = 0]
<1>1. sh \in Shell /\ 0 \in SigNo /\ 0 \in 0..255
  BY IInvParts DEF SigNo
<1>2. u \in Shell /\ SameDepths(sh, u)
  BY <1>1 DEF Shell, SameDepths
<1>3. Started = [u EXCEPT !.exitval = 0]
  BY Zenon DEF Started
<1> HIDE DEF u
<1>4. Started \in Shell /\ SameDepths(u, Started)
  BY <1>1, <1>2, <1>3, TypeExitval
<1>5. QED
  BY <1>2, <1>4 DEF SameDepths

(* The commands that start an activation or run in one. *)
LEMMA CommandLands ==
    ASSUME IInv,
           \/ SimpleCommand \/ LoopStart \/ Simple \/ BuiltinStart \/ BuiltinEnd
           \/ EvalStart \/ Break \/ ReturnOrExit \/ Error \/ SetErrexit
    PROVE  Landed' /\ sent' \in [Sig -> Nat] /\ ran' \in [Sig -> Nat]
<1> USE IInvParts
<1>0. Status \subseteq 0..255
  BY StatusAssumption
<1>1. CASE SimpleCommand
  <2>1. CASE sh.st.debug = None \/ sh.indebug
    <3>1. Goto(Exec, stack, Started)
      BY <1>1, <2>1 DEF SimpleCommand
    <3>2. Good(stack, Started)
      BY TypeStarted, GoodShell
    <3>3. QED
      BY <1>1, <3>1, <3>2, PointType, GotoLands DEF SimpleCommand
  <2>2. CASE ~(sh.st.debug = None \/ sh.indebug)
    <3> DEFINE f == [kind |-> "DEBUG", mode |-> JmpEval, savxit |-> 0,
                     nodontexec |-> sh.st.trapdontexec = "off",
                     savst |-> sh.st]
               u == [Started EXCEPT !.indebug = TRUE]
               t == [u EXCEPT !.st.debug = None]
    <3>1. Goto(Cmd, Append(stack, f), EnterTrap(t))
      BY <1>1, <2>2 DEF SimpleCommand
    <3>2. f \in Frame
      BY TypeDepths, FrameDebug
    <3>3. f.kind \in TrapKinds
      BY DEF TrapKinds
    <3>4. u \in Shell /\ SameDepths(sh, u)
      BY TypeStarted DEF Shell, SameDepths
    <3>5. t \in Shell /\ SameDepths(sh, t)
      <4> HIDE DEF u
      <4>1. t \in Shell /\ SameDepths(u, t)
        BY <3>4, TypeMember
      <4>2. QED
        BY <3>4, <4>1 DEF SameDepths
    <3> HIDE DEF f, t
    <3>6. QED
      BY <1>1, <3>1, <3>2, <3>3, <3>5, HandlerLands DEF SimpleCommand
  <2>3. QED
    BY <2>1, <2>2
<1>2. CASE LoopStart
  <2> DEFINE t == [Started EXCEPT !.st.loopcnt = @ + 1]
             n == Started.st.loopcnt + 1
             u == [Started EXCEPT !.st.loopcnt = n]
  <2>1. Goto(Cmd, Append(stack, [kind |-> "loop", mode |-> Top(stack).mode]), t)
    BY <1>2 DEF LoopStart
  <2>2. n \in Int
    BY TypeStarted, TypeDepths DEF Scoped
  <2>3. u \in Shell /\ SameDepths(Started, u)
    <3> HIDE DEF n
    <3>1. QED
      BY <2>2, TypeStarted, TypeMember
  <2>4. t = u
    BY Zenon
  <2>5. t \in Shell /\ SameDepths(sh, t)
    BY <2>3, <2>4, TypeStarted DEF SameDepths
  <2> HIDE DEF t
  <2>6. Top(stack).mode \in JmpMode
    BY StackTop
  <2>7. Good(Append(stack, [kind |-> "loop", mode |-> Top(stack).mode]), t)
    BY <2>5, <2>6, PushPlain
  <2>8. QED
    BY <1>2, <2>1, <2>7, PointType, GotoLands DEF LoopStart
<1>3. CASE Simple
  <2>1. PICK x \in Status : Goto(Post(TRUE), stack, [sh EXCEPT !.exitval = x])
    BY <1>3 DEF Simple
  <2>2. Good(stack, [sh EXCEPT !.exitval = x])
    BY <1>0, TypeExitval, GoodShell
  <2>3. QED
    BY <1>3, <2>1, <2>2, PointType, GotoLands DEF Simple
<1>4. CASE BuiltinStart
  <2> DEFINE f == [kind |-> "cmd", mode |-> JmpCmd]
  <2>1. at' = Bltin /\ stack' = Append(stack, f) /\ sh' = sh
    BY <1>4 DEF BuiltinStart, Goto
  <2>2. Good(stack', sh')
    BY <2>1, PushPlain DEF SameDepths, JmpMode
  <2>3. Top(stack') = f
    BY <2>1, StackTop DEF Top
  <2>4. Bltin \in Point
    BY DEF Point
  <2>5. QED
    BY <1>4, <2>1, <2>2, <2>3, <2>4 DEF BuiltinStart, Landed
<1>5. CASE BuiltinEnd
  <2>1. CASE SignalExit(stack, sh)
    BY <1>5, <2>1, SignalExitLands DEF BuiltinEnd
  <2>2. ASSUME NEW x \in Status, Goto(Post(TRUE), Pop(stack), [sh EXCEPT !.exitval = x])
        PROVE  Landed'
    <3>1. Top(stack).kind = "cmd"
      BY <1>5 DEF BuiltinEnd, IInv
    <3>2. [sh EXCEPT !.exitval = x] \in Shell /\ SameDepths(sh, [sh EXCEPT !.exitval = x])
      BY <1>0, TypeExitval
    <3>3. Good(Pop(stack), [sh EXCEPT !.exitval = x])
      BY <3>1, <3>2, PopPlain
    <3>4. QED
      BY <2>2, <3>3, PointType, GotoLands
  <2>3. QED
    BY <1>5, <2>1, <2>2 DEF BuiltinEnd
<1>6. CASE EvalStart
  <2>1. Good(Append(stack, [kind |-> "eval", mode |-> JmpEval]), sh)
    BY PushPlain DEF SameDepths, JmpMode
  <2>2. QED
    BY <1>6, <2>1, PointType, GotoLands DEF EvalStart
<1>7. CASE Break
  <2>1. PICK n \in 1..MaxLoop, cont \in BOOLEAN :
          LET c == IF n > sh.st.loopcnt THEN sh.st.loopcnt ELSE n
          IN Goto(Post(TRUE), stack, [sh EXCEPT !.st.breakcnt = IF cont THEN -c ELSE c])
    BY <1>7 DEF Break
  <2> DEFINE c == IF n > sh.st.loopcnt THEN sh.st.loopcnt ELSE n
             b == IF cont THEN -c ELSE c
  <2>2. b \in Int
    BY TypeDepths, BoundAssumption DEF Scoped
  <2>3. Goto(Post(TRUE), stack, [sh EXCEPT !.st.breakcnt = b])
    BY <2>1
  <2> HIDE DEF b
  <2>4. Good(stack, [sh EXCEPT !.st.breakcnt = b])
    BY <2>2, TypeMember, GoodShell
  <2>5. QED
    BY <1>7, <2>3, <2>4, PointType, GotoLands DEF Break
<1>8. CASE ReturnOrExit
  <2>1. PICK exit \in BOOLEAN, x \in Status, operand \in BOOLEAN :
          LET do_exit == exit \/ (sh.fn_depth = 0 /\ sh.dot_depth = 0)
          IN Goto(Jump(IF do_exit THEN JmpExit ELSE JmpFun), stack,
                  [sh_exit(sh) EXCEPT !.exitval = x,
                      !.intrap_exit_n = @ \/ (do_exit /\ operand /\ sh.intrap > 0)])
    BY <1>8 DEF ReturnOrExit
  <2> DEFINE do_exit == exit \/ (sh.fn_depth = 0 /\ sh.dot_depth = 0)
             v == IF do_exit THEN JmpExit ELSE JmpFun
             e == sh.intrap_exit_n \/ (do_exit /\ operand /\ sh.intrap > 0)
             u == [sh_exit(sh) EXCEPT !.exitval = x]
             s == [u EXCEPT !.intrap_exit_n = e]
  <2>2. Goto(Jump(v), stack, s)
    BY <2>1 DEF sh_exit
  <2>3. Jump(v) \in Landing
    BY PointType DEF JmpVal, JmpMode
  <2>4. s \in Shell /\ SameDepths(sh, s)
    <3>1. e \in BOOLEAN
      BY DEF Shell
    <3>2. sh_exit(sh) \in Shell /\ SameDepths(sh, sh_exit(sh))
      BY TypeExit
    <3>3. u \in Shell /\ SameDepths(sh_exit(sh), u)
      <4> HIDE DEF sh_exit
      <4>1. QED
        BY <1>0, <3>2, TypeExitval
    <3> HIDE DEF e, u
    <3>4. s \in Shell /\ SameDepths(u, s)
      BY <3>1, <3>3 DEF Shell, SameDepths
    <3>5. QED
      BY <3>2, <3>3, <3>4 DEF SameDepths
  <2> HIDE DEF s, v
  <2>5. Good(stack, s)
    BY <2>4, GoodShell
  <2>6. QED
    BY <1>8, <2>2, <2>3, <2>5, GotoLands DEF ReturnOrExit
<1>9. CASE Error
  BY <1>9, SignalExitLands DEF Error
<1>10. CASE SetErrexit
  <2>1. PICK on \in BOOLEAN : Goto(Post(TRUE), stack, [sh EXCEPT !.errexit = on])
    BY <1>10 DEF SetErrexit
  <2>2. [sh EXCEPT !.errexit = on] \in Shell /\ SameDepths(sh, [sh EXCEPT !.errexit = on])
    BY DEF Shell, SameDepths
  <2>3. Good(stack, [sh EXCEPT !.errexit = on])
    BY <2>2, GoodShell
  <2>4. QED
    BY <1>10, <2>1, <2>3, PointType, GotoLands DEF SetErrexit
<1>11. QED
  BY <1>1, <1>2, <1>3, <1>4, <1>5, <1>6, <1>7, <1>8, <1>9, <1>10

(* The trap built-in. *)
LEMMA TrapLands ==
    ASSUME IInv, TrapSignal \/ TrapErr \/ TrapDebug
    PROVE  Landed' /\ sent' \in [Sig -> Nat] /\ ran' \in [Sig -> Nat]
<1> USE IInvParts
<1>1. ASSUME NEW s \in Shell, SameDepths(sh, s), Goto(Post(TRUE), stack, Recompute(s))
      PROVE  Landed'
  <2>1. Recompute(s) \in Shell /\ SameDepths(sh, Recompute(s))
    BY <1>1, TypeRecompute DEF SameDepths
  <2>2. Good(stack, Recompute(s))
    BY <2>1, GoodShell
  <2>3. QED
    BY <1>1, <2>2, PointType, GotoLands
<1>2. CASE TrapSignal
  <2>1. PICK i \in SigNo, t \in Trap :
          Goto(Post(TRUE), stack,
               Recompute([sh EXCEPT !.trapcom[i] = t, !.st.trapmax = Trapmax(sh, i, t),
                                    !.pend = IF t = None THEN @ \ {i} ELSE @]))
    BY <1>2 DEF TrapSignal
  <2> DEFINE c == [sh EXCEPT !.trapcom = [sh.trapcom EXCEPT ![i] = t]]
             d == [c EXCEPT !.st = [sh.st EXCEPT !.trapmax = Trapmax(sh, i, t)]]
             s == [d EXCEPT !.pend = IF t = None THEN sh.pend \ {i} ELSE sh.pend]
  <2>2. Goto(Post(TRUE), stack, Recompute(s))
    <3>1. s = [sh EXCEPT !.trapcom[i] = t, !.st.trapmax = Trapmax(sh, i, t),
                         !.pend = IF t = None THEN @ \ {i} ELSE @]
      BY DEF Shell, Scoped
    <3>2. QED
      BY <2>1, <3>1, Zenon
  <2>3. c \in Shell /\ SameDepths(sh, c)
    <3>1. [sh.trapcom EXCEPT ![i] = t] \in Table
      BY DEF Shell, Table
    <3>2. QED
      BY <3>1 DEF Shell, SameDepths
  <2>4. d \in Shell /\ SameDepths(sh, d)
    <3>1. Trapmax(sh, i, t) \in Nat
      BY TypeDepths, SigAssumption DEF Trapmax, Scoped, SigNo
    <3>2. [sh.st EXCEPT !.trapmax = Trapmax(sh, i, t)] \in Scoped
      BY <3>1, TypeDepths DEF Scoped
    <3> HIDE DEF c
    <3>3. d \in Shell /\ SameDepths(c, d)
      BY <2>3, <3>2, TypeSt
    <3>4. QED
      BY <2>3, <3>3 DEF SameDepths
  <2>5. s \in Shell /\ SameDepths(sh, s)
    <3> HIDE DEF d
    <3>1. QED
      BY <2>4 DEF Shell, SameDepths
  <2> HIDE DEF s
  <2>6. QED
    BY <1>1, <1>2, <2>2, <2>5 DEF TrapSignal
<1>3. CASE TrapErr
  <2>1. PICK t \in Handler \cup {None} :
          Goto(Post(TRUE), stack, Recompute([sh EXCEPT !.st.err = t]))
    BY <1>3 DEF TrapErr
  <2>2. [sh EXCEPT !.st.err = t] \in Shell /\ SameDepths(sh, [sh EXCEPT !.st.err = t])
    BY TypeMember
  <2>3. QED
    BY <1>1, <1>3, <2>1, <2>2 DEF TrapErr
<1>4. CASE TrapDebug
  <2>1. PICK t \in Handler \cup {None} :
          Goto(Post(TRUE), stack,
               Recompute([sh EXCEPT !.st.debug = t,
                            !.trapnote = IF t = None THEN {} ELSE @ \cup {"SIGTRAP"}]))
    BY <1>4 DEF TrapDebug
  <2> DEFINE u == [sh EXCEPT !.st.debug = t]
             s == [u EXCEPT !.trapnote = IF t = None THEN {} ELSE u.trapnote \cup {"SIGTRAP"}]
  <2>2. u \in Shell /\ SameDepths(sh, u)
    BY TypeMember
  <2>3. s \in Shell /\ SameDepths(sh, s)
    <3> HIDE DEF u
    <3>1. QED
      BY <2>2 DEF Shell, SameDepths
  <2>4. Goto(Post(TRUE), stack, Recompute(s))
    BY <2>1, Zenon
  <2> HIDE DEF s
  <2>5. QED
    BY <1>1, <1>4, <2>3, <2>4 DEF TrapDebug
<1>5. QED
  BY <1>2, <1>3, <1>4

(* Calls. *)
LEMMA CallLands ==
    ASSUME IInv, CallFunction \/ CallPosix
    PROVE  Landed' /\ sent' \in [Sig -> Nat] /\ ran' \in [Sig -> Nat]
<1> USE IInvParts
<1>0. sh.fn_depth \in Int /\ sh.dot_depth \in Int /\ sh.intrap \in Int /\ sh.st \in Scoped
  BY TypeDepths
<1>1. CASE CallFunction
  <2> DEFINE f == [kind |-> "fun", mode |-> JmpFun, prevst |-> sh.st,
                   savsig |-> sh.trapcom, options |-> sh.errexit]
             l == [sh EXCEPT !.st.loopcnt = 0]
             e == [l EXCEPT !.errexit = FALSE]
             inner == sh_sigreset(e, -1)
             b == IF FuncTrace THEN sh.st.debug ELSE None
             s == [inner EXCEPT !.st.debug = b]
             n == s.fn_depth + 1
             t == [s EXCEPT !.fn_depth = n]
  <2>1. f \in Frame /\ f.kind # "main" /\ f.kind = "fun"
    <3>1. f \in Frame
      BY <1>0, FrameFun DEF Shell
    <3>2. QED
      BY <3>1
  <2>2. s \in Shell /\ SameDepths(sh, s)
    <3>1. l \in Shell /\ SameDepths(sh, l)
      BY TypeMember
    <3>2. e \in Shell /\ SameDepths(l, e)
      <4> HIDE DEF l
      <4>1. QED
        BY <3>1, TypeErrexit
    <3>3. inner \in Shell /\ SameDepths(e, inner)
      <4> HIDE DEF e
      <4>1. QED
        BY <3>2, TypeSigreset
    <3>4. b \in Handler \cup {None}
      BY <1>0 DEF Scoped
    <3>5. s \in Shell /\ SameDepths(inner, s)
      <4> HIDE DEF inner, b
      <4>1. QED
        BY <3>3, <3>4, TypeMember
    <3> HIDE DEF l, e, inner, s
    <3>6. QED
      BY <3>1, <3>2, <3>3, <3>5 DEF SameDepths
  <2>3. f.kind \notin {"posix"} /\ f.kind \notin TrapKinds /\ f.kind \in {"fun"}
    BY DEF TrapKinds
  <2>4. CASE sh.fn_depth >= MAXDEPTH
    <3>1. Goto(Jump(JmpErrFn), Append(stack, f), s)
      BY <1>1, <2>4 DEF CallFunction
    <3>2. ~(MaxFrames <= MAXDEPTH)
      <4>1. Room
        BY <1>1 DEF CallFunction
      <4>2. QED
        BY <1>0, <2>4, <4>1, DepthBound, BoundAssumption
    <3>3. Jump(JmpErrFn) \in Landing
      <4>1. JmpErrFn \in JmpVal
        BY <3>2, BoundAssumption DEF JmpVal
      <4>2. QED
        BY <4>1, PointType
    <3> HIDE DEF f, s
    <3>4. Good(Append(stack, f), s)
      BY <1>0, <2>1, <2>2, <2>3, <3>2, GoodPush DEF SameDepths
    <3>5. QED
      BY <1>1, <3>1, <3>3, <3>4, GotoLands DEF CallFunction
  <2>5. CASE ~(sh.fn_depth >= MAXDEPTH)
    <3>1. Goto(Cmd, Append(stack, f), t)
      BY <1>1, <2>5 DEF CallFunction
    <3>2. t \in Shell /\ t.fn_depth = n /\ t.dot_depth = s.dot_depth /\ t.intrap = s.intrap
      <4>1. n \in Int
        <5> HIDE DEF s
        <5>1. QED
          BY <2>2, TypeDepths
      <4> HIDE DEF s, n
      <4>2. QED
        BY <2>2, <4>1 DEF Shell
    <3>3. t.fn_depth = sh.fn_depth + 1 /\ t.dot_depth = sh.dot_depth /\ t.intrap = sh.intrap
      <4> HIDE DEF s, t
      <4>1. QED
        BY <2>2, <3>2 DEF SameDepths
    <3> HIDE DEF f, t
    <3>4. Good(Append(stack, f), t)
      BY <1>0, <2>1, <2>3, <3>2, <3>3, GoodPush
    <3>5. QED
      BY <1>1, <3>1, <3>4, PointType, GotoLands DEF CallFunction
  <2>6. QED
    BY <2>4, <2>5
<1>2. CASE CallPosix
  <2> DEFINE f == [kind |-> "posix", mode |-> JmpFun, loopcnt |-> sh.st.loopcnt]
             s == [sh EXCEPT !.st.loopcnt = 0]
             n == s.dot_depth + 1
             t == [s EXCEPT !.dot_depth = n]
  <2>1. s \in Shell /\ SameDepths(sh, s)
    BY TypeMember
  <2>2. CASE sh.dot_depth >= MAXDEPTH
    <3>1. SignalExit(stack, s)
      BY <1>2, <2>2 DEF CallPosix
    <3> HIDE DEF s
    <3>2. QED
      BY <1>2, <2>1, <3>1, GoodShell, SignalExitLands DEF CallPosix
  <2>3. CASE ~(sh.dot_depth >= MAXDEPTH)
    <3>1. Goto(Cmd, Append(stack, f), t)
      BY <1>2, <2>3 DEF CallPosix
    <3>2. f \in Frame
      BY <1>0, FramePosix DEF Scoped
    <3>3. /\ f.kind \in {"posix"} /\ f.kind \notin TrapKinds /\ f.kind \notin {"fun"}
          /\ f.kind # "main"
      BY DEF TrapKinds
    <3>4. t \in Shell /\ t.dot_depth = n /\ t.fn_depth = s.fn_depth /\ t.intrap = s.intrap
      <4>1. n \in Int
        BY <2>1, TypeDepths
      <4> HIDE DEF s, n
      <4>2. QED
        BY <2>1, <4>1 DEF Shell
    <3>5. t.dot_depth = sh.dot_depth + 1 /\ t.fn_depth = sh.fn_depth /\ t.intrap = sh.intrap
      <4> HIDE DEF s, t
      <4>1. QED
        BY <2>1, <3>4 DEF SameDepths
    <3> HIDE DEF f, t
    <3>6. Good(Append(stack, f), t)
      BY <1>0, <3>2, <3>3, <3>4, <3>5, GoodPush
    <3>7. QED
      BY <1>2, <3>1, <3>6, PointType, GotoLands DEF CallPosix
  <2>4. QED
    BY <2>2, <2>3
<1>3. QED
  BY <1>1, <1>2

(* The ends of bodies and handlers. *)
LEMMA EndLands ==
    ASSUME IInv, LoopEnd \/ EvalEnd \/ PosixEnd \/ FunctionEnd \/ TrapEnd
    PROVE  Landed' /\ sent' \in [Sig -> Nat] /\ ran' \in [Sig -> Nat]
<1> USE IInvParts
<1>1. CASE LoopEnd
  <2> DEFINE b == IF sh.st.breakcnt < 0 THEN sh.st.breakcnt + 1 ELSE sh.st.breakcnt
             c == IF b > 0 THEN b - 1 ELSE b
             n == sh.st.loopcnt - 1
             s == [sh EXCEPT !.st.breakcnt = c]
             t == [s EXCEPT !.st.loopcnt = n]
             z == [sh EXCEPT !.st.breakcnt = 0]
  <2>1. c \in Int /\ n \in Int
    BY TypeDepths DEF Scoped
  <2>2. s \in Shell /\ SameDepths(sh, s)
    <3> HIDE DEF c
    <3>1. QED
      BY <2>1, TypeMember
  <2>3. t \in Shell /\ SameDepths(sh, t)
    <3> HIDE DEF s, n
    <3>1. t \in Shell /\ SameDepths(s, t)
      BY <2>1, <2>2, TypeMember
    <3>2. QED
      BY <2>2, <3>1 DEF SameDepths
  <2>4. s.st.loopcnt - 1 = n
    BY DEF Shell, Scoped
  <2>5. \/ Goto(Cmd, stack, z)
        \/ Goto(Post(FALSE), Pop(stack), [s EXCEPT !.st.loopcnt = @ - 1])
    BY <1>1, Zenon DEF LoopEnd
  <2>6. [s EXCEPT !.st.loopcnt = @ - 1] = t
    BY <2>4, Zenon
  <2>7. Good(stack, z)
    BY TypeMember, GoodShell
  <2>8. Top(stack).kind = "loop"
    BY <1>1 DEF LoopEnd
  <2> HIDE DEF t, z
  <2>9. Good(Pop(stack), t)
    BY <2>3, <2>8, PopPlain
  <2>10. Landed'
    BY <2>5, <2>6, <2>7, <2>9, PointType, GotoLands
  <2>11. QED
    BY <1>1, <2>10 DEF LoopEnd
<1>2. CASE EvalEnd
  <2>1. Good(Pop(stack), sh)
    BY <1>2, PopPlain DEF EvalEnd, SameDepths
  <2>2. QED
    BY <1>2, <2>1, PointType, GotoLands DEF EvalEnd
<1>3. CASE PosixEnd
  BY <1>3, PosixLeaveLands DEF PosixEnd
<1>4. CASE FunctionEnd
  BY <1>4, FunctionLeaveLands DEF FunctionEnd
<1>5. CASE TrapEnd
  BY <1>5, TrapReturnLands DEF TrapEnd
<1>6. QED
  BY <1>1, <1>2, <1>3, <1>4, <1>5

(* A jump reaches a checkpoint below the outermost one. *)
LEMMA UnwindLands ==
    ASSUME IInv,
           \/ UnwindLoop \/ UnwindEval \/ UnwindBuiltin
           \/ UnwindPosix \/ UnwindFunction \/ UnwindTrap
    PROVE  Landed' /\ sent' \in [Sig -> Nat] /\ ran' \in [Sig -> Nat]
<1> USE IInvParts
<1>1. at \in Landing /\ at.val \in JmpVal
  <2>1. at.pc = "jump"
    BY DEF UnwindLoop, UnwindEval, UnwindBuiltin, UnwindPosix, UnwindFunction, UnwindTrap
  <2>2. QED
    BY <2>1, PointParts DEF Landing, Bltin
<1>2. CASE UnwindLoop
  <2>1. Good(Pop(stack), sh)
    BY <1>2, PopPlain DEF UnwindLoop, SameDepths
  <2>2. QED
    BY <1>1, <1>2, <2>1, GotoLands DEF UnwindLoop
<1>3. CASE UnwindEval
  <2>1. Good(Pop(stack), sh)
    BY <1>3, PopPlain DEF UnwindEval, SameDepths
  <2>2. QED
    BY <1>1, <1>3, <2>1, PointType, GotoLands DEF UnwindEval
<1>4. CASE UnwindBuiltin
  <2>1. Good(Pop(stack), sh)
    BY <1>4, PopPlain DEF UnwindBuiltin, SameDepths
  <2>2. QED
    BY <1>1, <1>4, <2>1, PointType, GotoLands DEF UnwindBuiltin
<1>5. CASE UnwindPosix
  BY <1>1, <1>5, PosixLeaveLands DEF UnwindPosix
<1>6. CASE UnwindFunction
  BY <1>1, <1>6, FunctionLeaveLands DEF UnwindFunction
<1>7. CASE UnwindTrap
  <2>1. CASE at.val <= JmpTrap \/ sh.indone
    BY <1>7, <2>1, TrapReturnLands DEF UnwindTrap
  <2>2. CASE ~(at.val <= JmpTrap \/ sh.indone)
    BY <1>1, <1>7, <2>2, HandlerLeft, GotoLands DEF UnwindTrap
  <2>3. QED
    BY <2>1, <2>2
<1>8. QED
  BY <1>2, <1>3, <1>4, <1>5, <1>6, <1>7

(* A signal arrives, at any point. *)
LEMMA SignalLands ==
    ASSUME IInv, NEW i \in Sig, Signal(i)
    PROVE  Landed' /\ sent' \in [Sig -> Nat] /\ ran' \in [Sig -> Nat]
<1> USE IInvParts
<1> DEFINE s == sh_fault(sh, stack, i)
           k == fault_frames(sh, stack, i)
<1>1. s \in Shell /\ Good(k, s) /\ Top(k).kind = Top(stack).kind
  BY TypeFault, GoodFault, FaultFrames
<1>2. sent' \in [Sig -> Nat] /\ ran' \in [Sig -> Nat]
  BY SentType DEF Signal
<1>3. CASE sh.trapcom[i] \in Handler /\ Top(stack).mode = JmpCmd
  <2> DEFINE e == [sh_exit(s) EXCEPT !.exitval = 1]
  <2>1. Goto(Jump(JmpCmd), k, e)
    BY <1>3 DEF Signal
  <2>2. Jump(JmpCmd) \in Landing
    BY PointType DEF JmpVal, JmpMode
  <2> HIDE DEF s, k
  <2>3. sh_exit(s) \in Shell /\ SameDepths(s, sh_exit(s)) /\ 1 \in 0..255
    BY <1>1, TypeExit
  <2>4. e \in Shell /\ SameDepths(s, e)
    <3> HIDE DEF sh_exit
    <3>1. e \in Shell /\ SameDepths(sh_exit(s), e)
      BY <2>3, TypeExitval, Zenon
    <3>2. QED
      BY <2>3, <3>1 DEF SameDepths
  <2> HIDE DEF e
  <2>5. Good(k, e)
    BY <1>1, <2>4, GoodShell
  <2>6. QED
    BY <1>2, <2>1, <2>2, <2>5, GotoLands
<1>4. CASE ~(sh.trapcom[i] \in Handler /\ Top(stack).mode = JmpCmd)
  <2>1. at' = at /\ stack' = k /\ sh' = s
    BY <1>4 DEF Signal, Goto
  <2> HIDE DEF s, k
  <2>2. QED
    BY <1>1, <1>2, <2>1 DEF Landed, IInv
<1>5. QED
  BY <1>3, <1>4

-------------------------------------------------------------------------------
(* The theorems. *)

(* The inductive invariant holds when exfile starts. *)
LEMMA IInvInit == Init => IInv
<1> SUFFICES ASSUME Init
             PROVE  IInv
  OBVIOUS
<1> DEFINE f == [kind |-> "main", mode |-> IF Interactive THEN JmpErrExit ELSE JmpExit]
           st == [trapmax |-> 0, trapdontexec |-> "off", err |-> None, debug |-> None,
                  loopcnt |-> 0, breakcnt |-> 0]
           com == [i \in SigNo |-> None]
<1>1. at \in Landing
  BY PointType DEF Init
<1>2. stack \in Stack /\ Top(stack).kind = "main"
  <2>1. f \in Frame /\ f.kind = "main"
    BY DEF Frame, PlainFrame, JmpMode
  <2>2. stack = <<f>>
    BY DEF Init
  <2> HIDE DEF f
  <2>3. stack \in Seq(Frame) /\ stack # <<>> /\ Len(stack) = 1 /\ stack[1] = f
    BY <2>1, <2>2
  <2>4. \A j \in 1..Len(stack) : stack[j].kind = "main" <=> j = 1
    BY <2>1, <2>3
  <2>5. stack \in Stack
    BY <2>3, <2>4 DEF Stack
  <2>6. Top(stack).kind = "main"
    BY <2>1, <2>3 DEF Top
  <2>7. QED
    BY <2>5, <2>6
<1>3. sh \in Shell /\ sh.dot_depth = 0 /\ sh.intrap = 0 /\ sh.fn_depth = 0
  <2>1. st \in Scoped
    BY DEF Scoped
  <2>2. com \in Table
    BY DEF Table, Trap
  <2>3. sh = [st |-> st, trapcom |-> com, pend |-> {}, trapnote |-> {},
              cursig |-> -1, lastsig |-> 0, fn_depth |-> 0, dot_depth |-> 0,
              intrap |-> 0, indebug |-> FALSE, indone |-> FALSE, exitval |-> 0,
              intrap_exit_n |-> FALSE, errexit |-> FALSE]
    BY DEF Init
  <2>4. 0 \in SigNo
    BY DEF SigNo
  <2> HIDE DEF st, com
  <2>5. QED
    BY <2>1, <2>2, <2>3, <2>4 DEF Shell
<1>4. CountersAgree
  <2>1. \A K : "main" \notin K => Count(stack, K) = 0
    BY <1>2, CountMain
  <2>2. "main" \notin {"posix"} /\ "main" \notin {"fun"} /\ "main" \notin TrapKinds
    BY DEF TrapKinds
  <2>3. QED
    BY <1>3, <2>1, <2>2 DEF CountersAgree, Agree
<1>5. sent \in [Sig -> Nat] /\ ran \in [Sig -> Nat]
  BY DEF Init
<1>6. QED
  BY <1>1, <1>2, <1>3, <1>4, <1>5 DEF IInv, TypeOK, Landing

(* Every step of the interpreter and every signal preserves it. *)
LEMMA IInvNext == IInv /\ [Next]_vars => IInv'
<1> SUFFICES ASSUME IInv, [Next]_vars
             PROVE  IInv'
  OBVIOUS
<1>1. ASSUME Landed', sent' \in [Sig -> Nat], ran' \in [Sig -> Nat]
      PROVE  IInv'
  BY <1>1 DEF Landed, Good, IInv, TypeOK, CountersAgree
<1>2. CASE Step
  <2>1. CASE NextLine \/ ReadLine \/ EndOfInput \/ SigCheck \/ UnwindMain
    BY <1>1, <2>1, MainLands
  <2>2. CASE \/ SimpleCommand \/ LoopStart \/ Simple \/ BuiltinStart \/ BuiltinEnd
             \/ EvalStart \/ Break \/ ReturnOrExit \/ Error \/ SetErrexit
    BY <1>1, <2>2, CommandLands
  <2>3. CASE TrapSignal \/ TrapErr \/ TrapDebug
    BY <1>1, <2>3, TrapLands
  <2>4. CASE CallFunction \/ CallPosix
    BY <1>1, <2>4, CallLands
  <2>5. CASE LoopEnd \/ EvalEnd \/ PosixEnd \/ FunctionEnd \/ TrapEnd
    BY <1>1, <2>5, EndLands
  <2>6. CASE \/ UnwindLoop \/ UnwindEval \/ UnwindBuiltin
             \/ UnwindPosix \/ UnwindFunction \/ UnwindTrap
    BY <1>1, <2>6, UnwindLands
  <2>7. CASE ScanNext \/ ScanEnd \/ PostExec
    BY <1>1, <2>7, ScanLands
  <2>8. QED
    BY <1>2, <2>1, <2>2, <2>3, <2>4, <2>5, <2>6, <2>7 DEF Step
<1>3. ASSUME NEW i \in Sig, Signal(i)
      PROVE  IInv'
  BY <1>1, <1>3, SignalLands
<1>4. CASE UNCHANGED vars
  BY <1>4 DEF vars, IInv, TypeOK, CountersAgree
<1>5. QED
  BY <1>2, <1>3, <1>4 DEF Next

(* The inductive invariant is an invariant. *)
LEMMA IInvHolds == Spec => []IInv
BY IInvInit, IInvNext, PTL DEF Spec

(* Type correctness: whatever commands run and whenever signals arrive, the
   chain of checkpoints keeps its shape and every saved or live field its
   type; in particular no jump beyond the known modes exists below the
   recursion limit. *)
THEOREM TypeCorrect == Spec => []TypeOK
<1>1. IInv => TypeOK
  BY DEF IInv
<1>2. QED
  BY <1>1, IInvHolds, PTL

(* The depth counters of Shell_t always agree with the activations on the
   chain of checkpoints, for programs of any depth and any signals. *)
THEOREM CountersCorrect == Spec => []CountersAgree
<1>1. IInv => CountersAgree
  BY DEF IInv
<1>2. QED
  BY <1>1, IInvHolds, PTL

-------------------------------------------------------------------------------
(* The trap handlers: each is within reach of the loops over the table, runs at most
   once for a delivery, is named by the guard against re-entry only while it runs, and
   cannot leave the end of the shell. *)

(* The inductive invariant. *)

Covers(table, max) == \A i \in SigNo : table[i] \in Handler => i < max

(* trapmax covers the handlers of every table that is in use or saved, with the
   bound that is saved along with it.  A DEBUG handler runs on a copy of sh.st that
   its end puts back, so the bound in that copy must cover the tables used meanwhile:
   no trap is set then. *)
Reached(k, s) == "trapInDebug" \notin Ops =>
    /\ Covers(s.trapcom, s.st.trapmax)
    /\ \A j \in 1..Len(k) : k[j].kind = "fun" => Covers(k[j].savsig, k[j].prevst.trapmax)
    /\ \A j \in 1..Len(k) : k[j].kind = "DEBUG" =>
          /\ s.indebug /\ Covers(s.trapcom, k[j].savst.trapmax)
          /\ \A m \in 1..Len(k) : m > j =>
                /\ k[m].kind # "DEBUG"
                /\ k[m].kind = "fun" => Covers(k[m].savsig, k[j].savst.trapmax)

(* Below the recursion limit no jump is under way, and none will be resumed, while
   cursig names a signal: then its handler is the innermost of its kind. *)
Below == MaxFrames <= MAXDEPTH
Resumes(f) == (f.kind = "ERR" /\ f.then \in JmpVal) \/ (f.kind = "EXIT" /\ f.jmpval # 0)
Still(s) == Below => s.cursig = -1
Held(k, s) == ~ Still(s) =>
    \E j \in 1..Len(k) :
        /\ k[j].kind = "SIG" /\ k[j].sig = s.cursig
        /\ \A m \in 1..Len(k) : m > j => k[m].kind # "SIG" /\ ~ Resumes(k[m])
Jumps(p) == p.pc = "jump" \/ (p.pc = "chk" /\ p.then \in JmpVal)

(* Of the handlers that sh_done runs there is one, next to exfile's checkpoint, which
   is never taken for that of a built-in. *)
MainModes == {JmpFun, JmpErrExit, JmpExit}
OfDone(f) == f.kind \in {"SIG", "ERR"} /\ f.then = Done
Marked(k) ==
    /\ k[1].mode \in MainModes
    /\ \A j \in 1..Len(k) : OfDone(k[j]) => j = 2 /\ k[j].kind = "SIG"
Base(k) == Len(k) > 1 /\ (k[2].kind = "DONE" \/ (k[2].kind = "SIG" /\ k[2].then = Done))
Ends(p) == p.pc = "chk" /\ p.then = Done

Clean(k, s) == Reached(k, s) /\ Held(k, s) /\ Marked(k)
Sound(k, s) == Clean(k, s) /\ (s.indone => Base(k))
Safe(p, k, s) ==
    /\ Clean(k, s)
    /\ Jumps(p) => Still(s)
    /\ Ends(p) => Len(k) = 1
    /\ s.indone => p = Exited \/ Ends(p) \/ Base(k)

(* A delivery is used up when its handler starts. *)
Handled == \A i \in Sig : ran[i] + (IF i \in sh.pend THEN 1 ELSE 0) <= sent[i]

HInv == IInv /\ Safe(at, stack, sh) /\ Handled

-------------------------------------------------------------------------------
(* Control points. *)

(* The jump values and the other continuations of sh_chktrap do not overlap. *)
LEMMA Numbers ==
    /\ Done \notin JmpVal /\ 0 \notin JmpVal /\ Reading \notin JmpVal /\ Reading # Done
    /\ 0 # Done /\ 0 # Reading
    /\ JmpCmd \notin MainModes /\ JmpMode \subseteq JmpVal
BY DEF Done, Reading, JmpVal, JmpMode, JmpEval, JmpCmd, JmpFun, JmpErrFn, JmpErrExit, JmpExit,
       MainModes

(* Only a jump, and a scan that goes on with one, jumps. *)
LEMMA PointKinds ==
    /\ \A p \in {Read, Cmd, Exec, Bltin, Exited} : ~ Jumps(p) /\ ~ Ends(p)
    /\ \A e : ~ Jumps(Post(e)) /\ ~ Ends(Post(e))
    /\ \A v : ~ Ends(Jump(v))
    /\ \A n, t : /\ Jumps(Chk(n, t)) <=> t \in JmpVal
                 /\ Ends(Chk(n, t)) <=> t = Done
BY DEF Jumps, Ends, Read, Cmd, Exec, Bltin, Exited, Post, Jump, Chk

(* A sound chain is safe at any point but those of the end, with a jump only when
   no handler is named. *)
LEMMA SoundSafe ==
    ASSUME NEW p, NEW k, NEW s, Sound(k, s), ~ Ends(p), Jumps(p) => Still(s)
    PROVE  Safe(p, k, s)
BY DEF Sound, Safe

(* And a safe one is sound before the end. *)
LEMMA SafeSound ==
    ASSUME NEW p, NEW k, NEW s, Safe(p, k, s), ~ Ends(p), p # Exited
    PROVE  Sound(k, s)
BY DEF Sound, Safe

(* A step goes where it says. *)
LEMMA GoesSafe ==
    ASSUME NEW p, NEW k, NEW s, Goto(p, k, s), Safe(p, k, s)
    PROVE  Safe(at, stack, sh)' /\ sh'.pend = s.pend
BY DEF Goto

(* So it does with a sound chain, before the end. *)
LEMMA GoesSound ==
    ASSUME NEW p, NEW k, NEW s, Goto(p, k, s), Sound(k, s), ~ Ends(p), Jumps(p) => Still(s)
    PROVE  Safe(at, stack, sh)' /\ sh'.pend = s.pend
BY SoundSafe, GoesSafe

-------------------------------------------------------------------------------
(* Changes of the shell state. *)

(* What t does not disturb: it may have fewer handlers, and name none. *)
Keeps(s, t) ==
    /\ t.st.trapmax = s.st.trapmax
    /\ \A i \in SigNo : t.trapcom[i] \in Handler => s.trapcom[i] \in Handler
    /\ t.indebug = s.indebug /\ t.indone = s.indone
    /\ t.cursig = s.cursig \/ t.cursig = -1

(* So what was sound stays so. *)
LEMMA KeepsSound ==
    ASSUME NEW k, NEW s, NEW t, Keeps(s, t)
    PROVE  /\ Clean(k, s) => Clean(k, t)
           /\ Sound(k, s) => Sound(k, t)
           /\ Still(s) => Still(t)
<1>1. Reached(k, s) => Reached(k, t)
  BY DEF Reached, Covers, Keeps
<1>2. Still(s) => Still(t)
  BY DEF Still, Keeps
<1>3. Held(k, s) => Held(k, t)
  <2>1. ~ Still(t) => t.cursig = s.cursig
    BY DEF Still, Keeps
  <2>2. QED
    BY <1>2, <2>1 DEF Held
<1>4. t.indone = s.indone
  BY DEF Keeps
<1>5. QED
  BY <1>1, <1>2, <1>3, <1>4 DEF Clean, Sound

(* sh_exit forgets the signal whose handler is running. *)
LEMMA KeepsExit ==
    ASSUME NEW s \in Shell
    PROVE  /\ Keeps(s, sh_exit(s)) /\ Still(sh_exit(s)) /\ sh_exit(s).pend = s.pend
           /\ \A x : /\ Keeps(s, [sh_exit(s) EXCEPT !.exitval = x])
                     /\ Still([sh_exit(s) EXCEPT !.exitval = x])
                     /\ [sh_exit(s) EXCEPT !.exitval = x].pend = s.pend
BY DEF sh_exit, Keeps, Still, Shell

(* sh_trap up to its sh_eval does not disturb the handlers. *)
LEMMA KeepsEnter ==
    ASSUME NEW s \in Shell
    PROVE  Keeps(s, EnterTrap(s)) /\ EnterTrap(s).pend = s.pend
BY DEF EnterTrap, Keeps, Shell, Scoped

(* Neither does its end. *)
LEMMA KeepsLeave ==
    ASSUME NEW s \in Shell, NEW f
    PROVE  Keeps(s, LeaveTrap(s, f)) /\ LeaveTrap(s, f).pend = s.pend
BY DEF LeaveTrap, Keeps, Shell, Scoped

(* sh_sigreset takes the handlers below trapmax away. *)
LEMMA KeepsReset ==
    ASSUME NEW s \in Shell
    PROVE  /\ Keeps(s, sh_sigreset(s, -1)) /\ sh_sigreset(s, -1).pend \subseteq s.pend
           /\ sh_sigreset(s, 1).pend \subseteq s.pend
           /\ \A i \in SigNo : sh_sigreset(s, 1).trapcom[i] \in Handler =>
                 s.trapcom[i] \in Handler /\ ~ (i < s.st.trapmax)
           /\ sh_sigreset(s, 1).indebug = s.indebug /\ sh_sigreset(s, 1).indone = s.indone
           /\ sh_sigreset(s, 1).cursig = s.cursig
<1>1. None \notin Handler /\ 0 \in SigNo
  BY TrapAssumption DEF SigNo
<1>2. s.trapcom \in [SigNo -> Trap] /\ s.st \in Scoped
  BY DEF Shell, Table
<1> DEFINE t(mode) == sh_sigreset(s, mode)
<1>3. ASSUME NEW mode
      PROVE  /\ t(mode).trapcom = [i \in SigNo |-> IF i = 0 \/ Caught(s, i) THEN None ELSE s.trapcom[i]]
             /\ t(mode).pend \subseteq s.pend
             /\ t(mode).indebug = s.indebug /\ t(mode).indone = s.indone
             /\ t(mode).cursig = s.cursig
  BY DEF sh_sigreset, Shell
<1>4. t(-1).st.trapmax = s.st.trapmax
  <2>1. t(-1).st = [s.st EXCEPT !.err = None, !.debug = None,
                      !.trapmax = IF -1 = 1 THEN 0 ELSE s.st.trapmax,
                      !.trapdontexec = IF -1 = 1 THEN "off" ELSE s.st.trapdontexec]
    BY DEF sh_sigreset, Shell
  <2>2. [s.st EXCEPT !.err = None, !.debug = None,
                     !.trapmax = IF -1 = 1 THEN 0 ELSE s.st.trapmax,
                     !.trapdontexec = IF -1 = 1 THEN "off" ELSE s.st.trapdontexec].trapmax
           = s.st.trapmax
    BY <1>2 DEF Scoped
  <2>3. QED
    BY <2>1, <2>2, Zenon
<1> HIDE DEF t
<1>5. ASSUME NEW mode, NEW i \in SigNo, t(mode).trapcom[i] \in Handler
      PROVE  s.trapcom[i] \in Handler /\ ~ (i < s.st.trapmax)
  <2>1. ~ Caught(s, i) /\ t(mode).trapcom[i] = s.trapcom[i]
    BY <1>1, <1>3, <1>5
  <2>2. QED
    BY <1>5, <2>1 DEF Caught
<1>6. Keeps(s, t(-1))
  BY <1>3, <1>4, <1>5 DEF Keeps
<1>7. QED
  BY <1>3, <1>5, <1>6 DEF t

(* The end of a DEBUG handler puts sh.st back and nothing else. *)
LEMMA DebugPutBack ==
    ASSUME NEW s \in Shell, NEW v \in Scoped
    PROVE  LET d == [s EXCEPT !.indebug = FALSE, !.st = v]
           IN  d \in Shell /\ d.st = v /\ d.trapcom = s.trapcom /\ d.pend = s.pend
               /\ d.indone = s.indone /\ d.cursig = s.cursig
<1> DEFINE b == [s EXCEPT !.indebug = FALSE]
<1>1. /\ b \in Shell /\ b.trapcom = s.trapcom /\ b.pend = s.pend
      /\ b.indone = s.indone /\ b.cursig = s.cursig
  BY DEF Shell
<1>2. [s EXCEPT !.indebug = FALSE, !.st = v] = [b EXCEPT !.st = v]
  OBVIOUS
<1> HIDE DEF b
<1>3. LET d == [b EXCEPT !.st = v]
      IN  d \in Shell /\ d.st = v /\ d.trapcom = b.trapcom /\ d.pend = b.pend
          /\ d.indone = b.indone /\ d.cursig = b.cursig
  BY <1>1 DEF Shell
<1>4. QED
  BY <1>1, <1>2, <1>3

(* Taking a note back keeps what a handler depends on. *)
LEMMA KeepsNote ==
    ASSUME NEW s \in Shell, NEW w \in SUBSET {"SIGSET", "SIGTRAP"}
    PROVE  LET t == [s EXCEPT !.trapnote = w]
           IN  t \in Shell /\ Keeps(s, t) /\ t.pend = s.pend
<1> DEFINE t == [s EXCEPT !.trapnote = w]
<1>1. t \in Shell
  BY DEF Shell
<1>2. /\ t.st = s.st /\ t.trapcom = s.trapcom /\ t.indebug = s.indebug
      /\ t.indone = s.indone /\ t.cursig = s.cursig /\ t.pend = s.pend
  BY DEF Shell
<1> HIDE DEF t
<1>3. Keeps(s, t)
  BY <1>2 DEF Keeps
<1>4. QED
  BY <1>1, <1>2, <1>3 DEF t

(* Two changes that do not disturb the handlers make one. *)
LEMMA KeepsTransitive ==
    ASSUME NEW s, NEW t, NEW u, Keeps(s, t), Keeps(t, u)
    PROVE  Keeps(s, u)
BY DEF Keeps

-------------------------------------------------------------------------------
(* Changes of the chain. *)

(* What a push leaves. *)
LEMMA Pushed ==
    ASSUME NEW k \in Stack, NEW f
    PROVE  /\ Len(k) \in Nat /\ Len(k) >= 1 /\ Len(Append(k, f)) = Len(k) + 1
           /\ Append(k, f)[Len(k) + 1] = f
           /\ \A j \in 1..Len(k) : Append(k, f)[j] = k[j]
BY DEF Stack

(* What a pop leaves. *)
LEMMA Popped ==
    ASSUME NEW k \in Stack, Top(k).kind # "main"
    PROVE  /\ Len(k) \in Nat /\ Len(k) > 1 /\ Len(Pop(k)) = Len(k) - 1
           /\ \A j \in 1..Len(k) - 1 : Pop(k)[j] = k[j]
<1>1. /\ k \in Seq(Frame) /\ Len(k) \in Nat /\ Len(k) >= 1
      /\ \A j \in 1..Len(k) : k[j].kind = "main" <=> j = 1
  BY DEF Stack
<1>2. Len(k) > 1
  BY <1>1 DEF Top
<1>3. QED
  BY <1>1, <1>2 DEF Pop

(* A push of most activations. *)
LEMMA ReachedPush ==
    ASSUME NEW k \in Stack, NEW s, Reached(k, s), NEW f, f.kind \notin {"fun", "DEBUG"}
    PROVE  Reached(Append(k, f), s)
<1> DEFINE l == Append(k, f)
<1>1. /\ Len(k) \in Nat /\ Len(l) = Len(k) + 1 /\ l[Len(k) + 1] = f
      /\ \A j \in 1..Len(k) : l[j] = k[j]
  BY Pushed
<1> HIDE DEF l
<1>2. \A j \in 1..Len(l) : (j \in 1..Len(k) /\ l[j] = k[j]) \/ l[j].kind \notin {"fun", "DEBUG"}
  BY <1>1
<1>3. Reached(l, s)
  BY <1>2 DEF Reached
<1>4. QED
  BY <1>3 DEF l

(* A push that starts no handler and resumes no jump goes on top of the running handler. *)
LEMMA HeldPush ==
    ASSUME NEW k \in Stack, NEW s, Held(k, s), NEW f,
           Still(s) \/ (f.kind # "SIG" /\ ~ Resumes(f))
    PROVE  Held(Append(k, f), s)
<1> DEFINE l == Append(k, f)
<1>1. /\ Len(k) \in Nat /\ Len(l) = Len(k) + 1 /\ l[Len(k) + 1] = f
      /\ \A j \in 1..Len(k) : l[j] = k[j]
  BY Pushed
<1> HIDE DEF l
<1>2. CASE Still(s)
  BY <1>2 DEF Held, l
<1>3. CASE ~ Still(s)
  <2>1. f.kind # "SIG" /\ ~ Resumes(f)
    BY <1>3
  <2>2. PICK j \in 1..Len(k) :
           /\ k[j].kind = "SIG" /\ k[j].sig = s.cursig
           /\ \A m \in 1..Len(k) : m > j => k[m].kind # "SIG" /\ ~ Resumes(k[m])
    BY <1>3 DEF Held
  <2>3. \A m \in 1..Len(l) : m > j => l[m].kind # "SIG" /\ ~ Resumes(l[m])
    <3>1. \A m \in 1..Len(l) : m \in 1..Len(k) \/ m = Len(k) + 1
      BY <1>1
    <3>2. QED
      BY <1>1, <2>1, <2>2, <3>1
  <2>4. j \in 1..Len(l) /\ l[j] = k[j]
    BY <1>1
  <2>5. QED
    BY <2>2, <2>3, <2>4 DEF Held, l
<1>4. QED
  BY <1>2, <1>3

(* Only sh_done's own scan pushes a handler of its own. *)
LEMMA MarkedPush ==
    ASSUME NEW k \in Stack, Marked(k), NEW f,
           OfDone(f) => Len(k) = 1 /\ f.kind = "SIG"
    PROVE  Marked(Append(k, f)) /\ (Base(k) => Base(Append(k, f)))
<1> DEFINE l == Append(k, f)
<1>1. /\ Len(k) \in Nat /\ Len(k) >= 1 /\ Len(l) = Len(k) + 1 /\ l[Len(k) + 1] = f
      /\ \A j \in 1..Len(k) : l[j] = k[j]
  BY Pushed
<1> HIDE DEF l
<1>2. l[1] = k[1] /\ (Len(k) > 1 => l[2] = k[2])
  BY <1>1
<1>3. \A j \in 1..Len(l) : (j \in 1..Len(k) /\ l[j] = k[j]) \/ (j = Len(k) + 1 /\ l[j] = f)
  BY <1>1
<1>4. \A j \in 1..Len(l) : OfDone(l[j]) => j = 2 /\ l[j].kind = "SIG"
  BY <1>1, <1>3 DEF Marked
<1>5. Marked(l) /\ (Base(k) => Base(l))
  BY <1>1, <1>2, <1>4 DEF Marked, Base
<1>6. QED
  BY <1>5 DEF l

(* So most activations can be pushed. *)
LEMMA SoundPush ==
    ASSUME NEW k \in Stack, NEW s, Sound(k, s), NEW f, f.kind \notin {"fun", "DEBUG"}, ~ OfDone(f),
           Still(s) \/ (f.kind # "SIG" /\ ~ Resumes(f))
    PROVE  Sound(Append(k, f), s)
BY ReachedPush, HeldPush, MarkedPush DEF Sound, Clean

(* A pop. *)
LEMMA CleanPop ==
    ASSUME NEW k \in Stack, NEW s, Clean(k, s), Top(k).kind # "main",
           Still(s) \/ Top(k).kind # "SIG"
    PROVE  Clean(Pop(k), s)
<1> DEFINE l == Pop(k)
<1>1. /\ Len(k) \in Nat /\ Len(k) > 1 /\ Len(l) = Len(k) - 1
      /\ \A j \in 1..Len(k) - 1 : l[j] = k[j]
  BY Popped
<1> HIDE DEF l
<1>2. \A j \in 1..Len(l) : j \in 1..Len(k) /\ l[j] = k[j]
  BY <1>1
<1>3. Reached(l, s)
  BY <1>2 DEF Reached, Clean
<1>4. Held(l, s)
  <2>1. CASE Still(s)
    BY <2>1 DEF Held
  <2>2. CASE ~ Still(s)
    <3>1. PICK j \in 1..Len(k) :
             /\ k[j].kind = "SIG" /\ k[j].sig = s.cursig
             /\ \A m \in 1..Len(k) : m > j => k[m].kind # "SIG" /\ ~ Resumes(k[m])
      BY <2>2 DEF Held, Clean
    <3>2. j \in 1..Len(l)
      BY <1>1, <2>2, <3>1 DEF Top
    <3>3. QED
      BY <1>2, <3>1, <3>2 DEF Held
  <2>3. QED
    BY <2>1, <2>2
<1>5. Marked(l)
  <2>1. 1 \in 1..Len(l)
    BY <1>1
  <2>2. QED
    BY <1>2, <2>1 DEF Marked, Clean
<1>6. QED
  BY <1>3, <1>4, <1>5 DEF Clean, l

(* A pop that is not that of sh_done's own handler leaves a sound chain. *)
LEMMA SoundPop ==
    ASSUME NEW k \in Stack, NEW s, Sound(k, s), Top(k).kind # "main",
           Still(s) \/ Top(k).kind # "SIG",
           Top(k).kind # "DONE", ~ OfDone(Top(k))
    PROVE  Sound(Pop(k), s)
<1> DEFINE l == Pop(k)
<1>1. /\ Len(k) \in Nat /\ Len(k) > 1 /\ Len(l) = Len(k) - 1
      /\ \A j \in 1..Len(k) - 1 : l[j] = k[j]
  BY Popped
<1>2. Clean(l, s)
  BY CleanPop DEF Sound
<1> HIDE DEF l
<1>3. ASSUME Base(k)
      PROVE  Base(l)
  <2>1. Len(k) # 2
    BY <1>3 DEF Base, Top, OfDone
  <2>2. Len(l) > 1 /\ l[2] = k[2]
    BY <1>1, <2>1
  <2>3. QED
    BY <1>3, <2>2 DEF Base
<1>4. QED
  BY <1>2, <1>3 DEF Sound, l

(* A new mode. *)
Alike(f, g) ==
    /\ g.kind = f.kind
    /\ f.kind = "fun" => g.savsig = f.savsig /\ g.prevst = f.prevst
    /\ f.kind = "DEBUG" => g.savst = f.savst
    /\ f.kind = "SIG" => g.sig = f.sig
    /\ f.kind \in {"SIG", "ERR"} => g.then = f.then
    /\ f.kind = "EXIT" => g.jmpval = f.jmpval

(* A new mode leaves the rest of an activation. *)
LEMMA FrameAlike ==
    ASSUME NEW f \in Frame, NEW m
    PROVE  Alike(f, [f EXCEPT !.mode = m]) /\ [f EXCEPT !.mode = m].mode = m
BY DEF Alike, Frame, PlainFrame, FunFrame, PosixFrame, DebugFrame, ErrFrame, SigFrame, ExitFrame,
       DoneFrame

(* Only the mode of exfile's checkpoint matters. *)
LEMMA SoundAlike ==
    ASSUME NEW k, NEW l, NEW s, Len(l) = Len(k), \A j \in 1..Len(k) : Alike(k[j], l[j]),
           l[1].mode \in MainModes, Len(k) \in Nat
    PROVE  (Clean(k, s) => Clean(l, s)) /\ (Sound(k, s) => Sound(l, s))
<1>1. Reached(k, s) => Reached(l, s)
  BY DEF Reached, Alike
<1>2. Held(k, s) => Held(l, s)
  BY DEF Held, Alike, Resumes
<1>3. Marked(k) => Marked(l)
  BY DEF Marked, Alike, OfDone
<1>4. Base(k) => Base(l)
  BY DEF Base, Alike
<1>5. QED
  BY <1>1, <1>2, <1>3, <1>4 DEF Clean, Sound

(* So the innermost checkpoint may take any of its modes. *)
LEMMA SoundMode ==
    ASSUME NEW k \in Stack, NEW s, NEW m \in MainModes, Marked(k)
    PROVE  /\ Len(SetMode(k, m)) = Len(k)
           /\ Clean(k, s) => Clean(SetMode(k, m), s)
           /\ Sound(k, s) => Sound(SetMode(k, m), s)
<1> DEFINE l == SetMode(k, m)
<1>1. k \in Seq(Frame) /\ Len(k) \in 1..Len(k) /\ Len(k) \in Nat /\ k[Len(k)] \in Frame
  BY DEF Stack
<1>2. l = [k EXCEPT ![Len(k)] = [k[Len(k)] EXCEPT !.mode = m]]
  BY DEF SetMode
<1>3. Alike(k[Len(k)], [k[Len(k)] EXCEPT !.mode = m]) /\ [k[Len(k)] EXCEPT !.mode = m].mode = m
  BY <1>1, FrameAlike
<1>4. Len(l) = Len(k)
  BY <1>1, <1>2
<1>5. \A j \in 1..Len(k) : Alike(k[j], l[j])
  <2>1. \A j \in 1..Len(k) : l[j] = k[j] \/ l[j] = [k[j] EXCEPT !.mode = m]
    BY <1>1, <1>2
  <2>2. \A j \in 1..Len(k) : k[j] \in Frame /\ Alike(k[j], k[j])
    BY <1>1 DEF Alike
  <2>3. \A f \in Frame : Alike(f, [f EXCEPT !.mode = m])
    BY FrameAlike
  <2>4. QED
    BY <2>1, <2>2, <2>3, Zenon
<1>6. l[1].mode \in MainModes
  <2>1. 1 \in 1..Len(k)
    BY <1>1
  <2>2. l[1] = k[1] \/ (l[1] = [k[1] EXCEPT !.mode = m] /\ k[1] \in Frame)
    BY <1>1, <1>2, <2>1
  <2>3. \A f \in Frame : [f EXCEPT !.mode = m].mode = m
    BY FrameAlike
  <2>4. l[1].mode = k[1].mode \/ l[1].mode = m
    BY <2>2, <2>3, Zenon
  <2>5. QED
    BY <2>4 DEF Marked
<1> HIDE DEF l
<1>7. QED
  BY <1>1, <1>4, <1>5, <1>6, SoundAlike DEF l

-------------------------------------------------------------------------------
(* The C functions that steps end with. *)

(* sh_exit as a step: no handler is named during the jump. *)
LEMMA SignalExitSafe ==
    ASSUME NEW k, NEW s \in Shell, Sound(k, s), SignalExit(k, s)
    PROVE  Safe(at, stack, sh)' /\ sh'.pend = s.pend
<1> DEFINE t == [sh_exit(s) EXCEPT !.exitval = 1]
<1>1. Keeps(s, t) /\ Still(t) /\ t.pend = s.pend
  BY KeepsExit
<1>2. Goto(Jump(Top(k).mode), k, t)
  BY DEF SignalExit
<1> HIDE DEF t
<1>3. Sound(k, t)
  BY <1>1, KeepsSound
<1>4. QED
  BY <1>1, <1>2, <1>3, PointKinds, GoesSound

(* The end of sh_exec. *)
LEMMA AfterExecSafe ==
    ASSUME NEW k, NEW s \in Shell, Sound(k, s), AfterExec(k, s)
    PROVE  Safe(at, stack, sh)' /\ sh'.pend = s.pend
BY SignalExitSafe, PointKinds, GoesSound DEF AfterExec

(* The end of the first part of sh_chktrap, not called by sh_done. *)
LEMMA ErrExitSafe ==
    ASSUME NEW k \in Stack, NEW s \in Shell, Sound(k, s), NEW n, NEW then, ErrExit(k, s, n, then),
           then # Done, then \in JmpVal => Still(s)
    PROVE  Safe(at, stack, sh)' /\ sh'.pend = s.pend
<1>1. CASE s.errexit
  <2>1. Goto(Jump(JmpExit), SetMode(k, JmpExit), sh_exit(s))
    BY <1>1 DEF ErrExit
  <2>2. Keeps(s, sh_exit(s)) /\ Still(sh_exit(s)) /\ sh_exit(s).pend = s.pend
    BY KeepsExit
  <2>3. Sound(SetMode(k, JmpExit), sh_exit(s))
    <3>1. Sound(k, sh_exit(s)) /\ Marked(k)
      BY <2>2, KeepsSound DEF Sound, Clean
    <3>2. JmpExit \in MainModes
      BY DEF MainModes
    <3>3. QED
      BY <3>1, <3>2, SoundMode
  <2>4. QED
    BY <2>1, <2>2, <2>3, PointKinds, GoesSound
<1>2. CASE ~ s.errexit
  BY <1>2, PointKinds, GoesSound DEF ErrExit
<1>3. QED
  BY <1>1, <1>2

(* sh_chktrap returns to where it was called from. *)
LEMMA ReturnSafe ==
    ASSUME NEW k, NEW s \in Shell, NEW n, NEW then \in Resume, Safe(Chk(n, then), k, s),
           Return(k, s, then)
    PROVE  Safe(at, stack, sh)' /\ sh'.pend = s.pend
<1>1. CASE then = Done
  <2>1. Goto(Exited, k, s)
    BY <1>1, Numbers DEF Return
  <2>2. Safe(Exited, k, s)
    BY PointKinds DEF Safe
  <2>3. QED
    BY <2>1, <2>2, GoesSafe
<1>2. CASE then # Done
  <2>1. Chk(n, then) # Exited
    BY DEF Chk, Exited
  <2>2. Sound(k, s)
    BY <1>2, <2>1, PointKinds, SafeSound
  <2>3. CASE then = 0
    BY <2>2, <2>3, AfterExecSafe, Numbers DEF Return
  <2>4. CASE then = Reading
    <3>1. Goto(Read, k, s)
      BY <2>4, Numbers DEF Return
    <3>2. QED
      BY <2>2, <3>1, PointKinds, GoesSound
  <2>5. CASE then # 0 /\ then # Reading
    <3>1. then \in JmpVal
      BY <1>2, <2>5 DEF Resume
    <3>2. Still(s)
      BY <3>1, PointKinds DEF Safe
    <3>3. Goto(Jump(then), k, s)
      BY <1>2, <2>5 DEF Return
    <3>4. QED
      BY <2>2, <3>2, <3>3, PointKinds, GoesSound
  <2>6. QED
    BY <2>3, <2>4, <2>5
<1>3. QED
  BY <1>1, <1>2

(* sh_chktrap, when the shell is not about to end. *)
LEMMA ChktrapSafe ==
    ASSUME NEW k \in Stack, NEW s \in Shell, Sound(k, s), NEW errexit, NEW then,
           then # Done, then \in JmpVal => Still(s), sh_chktrap(k, s, errexit, then)
    PROVE  Safe(at, stack, sh)' /\ sh'.pend = s.pend
<1> DEFINE n == IF s.trapnote = {} THEN 0 ELSE s.st.trapmax
           c == [s EXCEPT !.trapnote = @ \ {"SIGTRAP"}]
           f == [kind |-> "ERR", mode |-> JmpEval, savxit |-> c.exitval,
                 nodontexec |-> c.st.trapdontexec = "off",
                 trap |-> c.st.err, note |-> c.trapnote, sig |-> n, then |-> then]
           t == [c EXCEPT !.st.err = None, !.trapnote = @ \ {"SIGSET"}]
<1>1. c \in Shell /\ Keeps(s, c) /\ c.pend = s.pend /\ (Still(s) => Still(c))
  BY DEF Shell, Keeps, Still
<1>2. Sound(k, c)
  BY <1>1, KeepsSound
<1>3. CASE ~(errexit /\ c.exitval # 0)
  <2>1. Goto(Chk(n, then), k, c)
    BY <1>3 DEF sh_chktrap
  <2> HIDE DEF n, c
  <2>2. QED
    BY <1>1, <1>2, <2>1, PointKinds, GoesSound
<1>4. CASE errexit /\ c.exitval # 0 /\ c.st.err = None
  <2>1. ErrExit(k, c, n, then)
    BY <1>4 DEF sh_chktrap
  <2> HIDE DEF n, c
  <2>2. QED
    BY <1>1, <1>2, <2>1, ErrExitSafe
<1>5. CASE errexit /\ c.exitval # 0 /\ c.st.err # None
  <2>1. Goto(Cmd, Append(k, f), EnterTrap(t))
    BY <1>5 DEF sh_chktrap
  <2>2. t \in Shell /\ Keeps(c, t) /\ t.pend = c.pend
    <3> HIDE DEF c
    <3> DEFINE u == [c EXCEPT !.st.err = None]
    <3>1. u \in Shell
      BY <1>1, TypeMember
    <3>2. Keeps(c, u) /\ u.pend = c.pend
      BY <1>1 DEF Shell, Scoped, Keeps
    <3> DEFINE w == c.trapnote \ {"SIGSET"}
    <3>3. t = [u EXCEPT !.trapnote = w] /\ w \in SUBSET {"SIGSET", "SIGTRAP"}
      BY <1>1 DEF Shell
    <3> HIDE DEF u, t, w
    <3>4. t \in Shell /\ Keeps(u, t) /\ t.pend = u.pend
      BY <3>1, <3>3, KeepsNote
    <3>5. QED
      BY <3>2, <3>4, KeepsTransitive
  <2>3. Keeps(t, EnterTrap(t)) /\ EnterTrap(t).pend = t.pend
    <3> HIDE DEF t
    <3>1. QED
      BY <2>2, KeepsEnter
  <2>4. f.kind = "ERR" /\ f.then = then
    OBVIOUS
  <2>5. Still(c) \/ ~ Resumes(f)
    BY <1>1, <2>4 DEF Resumes
  <2> HIDE DEF n, c, f, t
  <2>6. Sound(Append(k, f), c)
    <3>1. f.kind \notin {"fun", "DEBUG", "SIG"} /\ ~ OfDone(f)
      BY <2>4 DEF OfDone
    <3>2. QED
      BY <1>2, <2>5, <3>1, SoundPush
  <2>7. Sound(Append(k, f), EnterTrap(t))
    BY <2>2, <2>3, <2>6, KeepsSound
  <2>8. QED
    BY <1>1, <2>1, <2>2, <2>3, <2>7, PointKinds, GoesSound
<1>6. QED
  BY <1>3, <1>4, <1>5

(* sh_done, which exfile calls. *)
LEMMA DoneSafe ==
    ASSUME NEW k \in Stack, NEW s \in Shell, Clean(k, s), Len(k) = 1, sh_done(k, s)
    PROVE  Safe(at, stack, sh)' /\ sh'.pend = s.pend
<1> DEFINE d == [s EXCEPT !.trapnote = {}, !.indone = TRUE]
           f == [kind |-> "DONE", mode |-> JmpEval, savxit |-> d.exitval,
                 nodontexec |-> d.st.trapdontexec = "off"]
           e == [d EXCEPT !.trapcom[0] = None]
           c == [e EXCEPT !.trapnote = @ \ {"SIGTRAP"}]
<1>1. /\ d \in Shell /\ d.st = s.st /\ d.trapcom = s.trapcom /\ d.indebug = s.indebug
      /\ d.cursig = s.cursig /\ d.pend = s.pend
  BY DEF Shell
<1> HIDE DEF d
<1>2. /\ e \in Shell /\ Keeps(d, e) /\ e.pend = d.pend
  <2>1. d.trapcom \in Table /\ None \notin Handler /\ 0 \in SigNo
    BY <1>1, TrapAssumption DEF Shell, SigNo
  <2>2. /\ [d.trapcom EXCEPT ![0] = None] \in Table
        /\ \A i \in SigNo : [d.trapcom EXCEPT ![0] = None][i] \in Handler => d.trapcom[i] \in Handler
    BY <2>1 DEF Table, Trap
  <2>3. e = [d EXCEPT !.trapcom = [d.trapcom EXCEPT ![0] = None]]
    OBVIOUS
  <2>4. \A table \in Table : LET t == [d EXCEPT !.trapcom = table]
                             IN  /\ t \in Shell /\ t.trapcom = table /\ t.pend = d.pend
                                 /\ t.st = d.st /\ t.indebug = d.indebug /\ t.indone = d.indone
                                 /\ t.cursig = d.cursig
    BY <1>1 DEF Shell
  <2>5. QED
    BY <2>2, <2>3, <2>4, Zenon DEF Keeps
<1> HIDE DEF e
<1>3. c \in Shell /\ Keeps(e, c) /\ c.pend = e.pend
  BY <1>2 DEF Shell, Keeps
<1>4. Clean(k, d)
  BY <1>1 DEF Clean, Reached, Held, Still
<1>5. Clean(k, e) /\ Clean(k, c)
  BY <1>2, <1>3, <1>4, KeepsSound
<1>6. CASE d.trapcom[0] = None
  <2>1. sh_chktrap(k, e, FALSE, Done)
    BY <1>6, TrapAssumption DEF sh_done, d, e
  <2>2. PICK n : Goto(Chk(n, Done), k, c)
    BY <2>1 DEF sh_chktrap
  <2> HIDE DEF c
  <2>3. Safe(Chk(n, Done), k, c)
    BY <1>5, PointKinds, Numbers DEF Safe
  <2>4. QED
    BY <1>1, <1>2, <1>3, <2>2, <2>3, GoesSafe
<1>7. CASE d.trapcom[0] = Ignore
  <2>1. Goto(Exited, k, e)
    BY <1>7, TrapAssumption DEF sh_done, d, e
  <2>2. Safe(Exited, k, e)
    BY <1>5, PointKinds DEF Safe
  <2>3. QED
    BY <1>1, <1>2, <2>1, <2>2, GoesSafe
<1>8. CASE d.trapcom[0] # None /\ d.trapcom[0] # Ignore
  <2>1. Goto(Cmd, Append(k, f), EnterTrap(e))
    BY <1>8 DEF sh_done, d, e
  <2>2. Keeps(e, EnterTrap(e)) /\ EnterTrap(e).pend = e.pend
    BY <1>2, KeepsEnter
  <2>3. f.kind = "DONE"
    OBVIOUS
  <2> HIDE DEF f
  <2>4. Clean(Append(k, f), e) /\ Base(Append(k, f))
    <3>1. f.kind \notin {"fun", "DEBUG", "SIG"} /\ ~ OfDone(f) /\ ~ Resumes(f)
      BY <2>3 DEF OfDone, Resumes
    <3>2. Append(k, f)[2] = f /\ Len(Append(k, f)) = 2
      <4>1. Len(k) + 1 = 2
        OBVIOUS
      <4>2. Len(Append(k, f)) = Len(k) + 1 /\ Append(k, f)[Len(k) + 1] = f
        BY Pushed
      <4>3. QED
        BY <4>1, <4>2, Zenon
    <3>3. QED
      BY <1>5, <2>3, <3>1, <3>2, ReachedPush, HeldPush, MarkedPush DEF Clean, Base
  <2>5. Sound(Append(k, f), EnterTrap(e))
    BY <2>2, <2>4, KeepsSound DEF Sound
  <2>6. QED
    BY <1>1, <1>2, <2>1, <2>2, <2>5, PointKinds, GoesSound
<1>9. QED
  BY <1>6, <1>7, <1>8

-------------------------------------------------------------------------------
(* Small changes of the shell state. *)

(* t has no more pending signals, either. *)
Same(s, t) == Keeps(s, t) /\ t.pend \subseteq s.pend

(* Two such changes make one. *)
LEMMA SameTransitive ==
    ASSUME NEW s, NEW t, NEW u, Same(s, t), Same(t, u)
    PROVE  Same(s, u)
BY KeepsTransitive DEF Same

(* A change of any other member of Shell_t is one. *)
LEMMA SameRest ==
    ASSUME NEW s \in Shell, NEW x
    PROVE  /\ Same(s, [s EXCEPT !.exitval = x]) /\ Same(s, [s EXCEPT !.lastsig = x])
           /\ Same(s, [s EXCEPT !.trapnote = x]) /\ Same(s, [s EXCEPT !.errexit = x])
           /\ Same(s, [s EXCEPT !.fn_depth = x]) /\ Same(s, [s EXCEPT !.dot_depth = x])
           /\ Same(s, [s EXCEPT !.intrap = x]) /\ Same(s, [s EXCEPT !.intrap_exit_n = x])
           /\ Same(s, [s EXCEPT !.cursig = -1])
BY DEF Shell, Same, Keeps

(* So is one of any other member of sh.st. *)
LEMMA SameScoped ==
    ASSUME NEW s \in Shell, NEW x
    PROVE  /\ Same(s, [s EXCEPT !.st.breakcnt = x]) /\ Same(s, [s EXCEPT !.st.loopcnt = x])
           /\ Same(s, [s EXCEPT !.st.err = x]) /\ Same(s, [s EXCEPT !.st.debug = x])
           /\ Same(s, [s EXCEPT !.st.trapdontexec = x])
BY DEF Shell, Scoped, Same, Keeps

(* So with such a change a step goes where it says. *)
LEMMA GoesSame ==
    ASSUME NEW p, NEW k, NEW s, NEW t, Sound(k, s), Same(s, t), Goto(p, k, t), ~ Ends(p),
           Jumps(p) => Still(t)
    PROVE  Safe(at, stack, sh)' /\ sh'.pend \subseteq s.pend
<1>1. Sound(k, t)
  BY KeepsSound DEF Same
<1>2. QED
  BY <1>1, GoesSound DEF Same

-------------------------------------------------------------------------------
(* A signal. *)

(* sh_fault disturbs nothing but adds i to what is pending. *)
LEMMA FaultSafe ==
    ASSUME NEW k \in Stack, NEW s \in Shell, NEW i \in Sig, Clean(k, s)
    PROVE  LET t == sh_fault(s, k, i)
               l == fault_frames(s, k, i)
           IN  /\ t \in Shell /\ l \in Stack /\ Keeps(s, t) /\ t.pend \subseteq s.pend \cup {i}
               /\ Len(l) = Len(k) /\ Clean(l, t) /\ (Sound(k, s) => Sound(l, t))
<1> DEFINE t == sh_fault(s, k, i)
           l == fault_frames(s, k, i)
           m == IF Top(k).mode < JmpSub /\ ~Interactive THEN JmpFun ELSE JmpExit
<1>1. t \in Shell /\ l \in Stack /\ Len(l) = Len(k)
  BY TypeFault, FaultFrames
<1>2. Keeps(s, t) /\ t.pend \subseteq s.pend \cup {i}
  BY DEF sh_fault, Shell, Keeps
<1> HIDE DEF t
<1>3. Clean(k, t) /\ (Sound(k, s) => Sound(k, t))
  BY <1>2, KeepsSound
<1>4. Clean(l, t) /\ (Sound(k, s) => Sound(l, t))
  <2>1. CASE s.trapcom[i] # None
    BY <1>3, <2>1 DEF fault_frames
  <2>2. CASE s.trapcom[i] = None
    <3>1. l = SetMode(k, m)
      BY <2>2 DEF fault_frames
    <3>2. m \in MainModes /\ Marked(k)
      BY DEF MainModes, Clean
    <3> HIDE DEF l, m
    <3>3. QED
      BY <1>3, <3>1, <3>2, SoundMode
  <2>3. QED
    BY <2>1, <2>2
<1>5. QED
  BY <1>1, <1>2, <1>4 DEF t

(* What a step does to the deliveries that are pending. *)
Quiet == sent' = sent /\ sh'.pend \subseteq sh.pend
Arrives == \E i \in Sig : sent' = [sent EXCEPT ![i] = @ + 1] /\ sh'.pend \subseteq sh.pend \cup {i}
Counted == ran' = ran /\ (Quiet \/ Arrives)
Starts == \E i \in sh.pend : /\ sent' = sent /\ ran' = [ran EXCEPT ![i] = @ + 1]
                              /\ sh'.pend \subseteq sh.pend \ {i}

-------------------------------------------------------------------------------
(* Leaving functions and handlers. *)

(* Where the jump that a handler or an EXIT trap interrupted is resumed, no handler
   is named. *)
LEMMA TopResumes ==
    ASSUME NEW k \in Stack, NEW s, Held(k, s), Resumes(Top(k)), Top(k).kind # "SIG"
    PROVE  Still(s)
<1>1. Len(k) \in Nat /\ Len(k) \in 1..Len(k)
  BY DEF Stack
<1>2. SUFFICES ASSUME ~ Still(s)
               PROVE  FALSE
  OBVIOUS
<1>3. PICK j \in 1..Len(k) :
         /\ k[j].kind = "SIG" /\ k[j].sig = s.cursig
         /\ \A m \in 1..Len(k) : m > j => k[m].kind # "SIG" /\ ~ Resumes(k[m])
  BY <1>2 DEF Held
<1>4. j # Len(k)
  BY <1>3 DEF Top
<1>5. QED
  BY <1>1, <1>3, <1>4 DEF Top

(* Past the EXIT trap of a function. *)
LEMMA FunctionAfterSafe ==
    ASSUME NEW k \in Stack, NEW s \in Shell, Sound(k, s), s.pend \subseteq sh.pend,
           NEW v \in JmpVal \cup {0}, v # 0 => Still(s), FunctionAfter(k, s, v)
    PROVE  Safe(at, stack, sh)' /\ (Quiet \/ Arrives)
<1>1. CASE v > JmpFun
  <2>1. v \in JmpVal /\ v # Done
    BY <1>1, Numbers DEF JmpFun
  <2>2. PICK errexit \in BOOLEAN : sh_chktrap(k, s, errexit, v)
    BY <1>1 DEF FunctionAfter
  <2>3. sent' = sent
    BY <1>1 DEF FunctionAfter
  <2>4. Still(s)
    BY <1>1 DEF JmpFun
  <2>5. QED
    BY <2>1, <2>2, <2>3, <2>4, ChktrapSafe DEF Quiet
<1>2. CASE ~(v > JmpFun) /\ v = JmpFun /\ s.lastsig # 0
  <2>1. s.lastsig \in Sig
    BY <1>2 DEF Shell, SigNo
  <2>2. /\ Goto(Post(TRUE), fault_frames(s, k, s.lastsig), sh_fault(s, k, s.lastsig))
        /\ sent' = [sent EXCEPT ![s.lastsig] = @ + 1]
    BY <1>2 DEF FunctionAfter
  <2>3. /\ Sound(fault_frames(s, k, s.lastsig), sh_fault(s, k, s.lastsig))
        /\ sh_fault(s, k, s.lastsig).pend \subseteq s.pend \cup {s.lastsig}
    BY <2>1, FaultSafe DEF Sound
  <2>4. Safe(at, stack, sh)' /\ sh'.pend = sh_fault(s, k, s.lastsig).pend
    BY <2>2, <2>3, PointKinds, GoesSound
  <2>5. QED
    BY <2>1, <2>2, <2>3, <2>4 DEF Arrives
<1>3. CASE ~(v > JmpFun) /\ ~(v = JmpFun /\ s.lastsig # 0)
  <2>1. Goto(Post(TRUE), k, s) /\ sent' = sent
    BY <1>3 DEF FunctionAfter
  <2>2. QED
    BY <2>1, PointKinds, GoesSound DEF Quiet
<1>4. QED
  BY <1>1, <1>2, <1>3

(* A KornShell function is left: the caller has its table back, with the bound that
   was saved along with it. *)
LEMMA FunctionLeaveSafe ==
    ASSUME stack \in Stack, sh \in Shell, Sound(stack, sh), Top(stack).kind = "fun",
           NEW v \in JmpVal \cup {0}, v # 0 => Still(sh), FunctionLeave(v)
    PROVE  Safe(at, stack, sh)' /\ (Quiet \/ Arrives)
<1> DEFINE f == Top(stack)
           k == Pop(stack)
           u == [sh EXCEPT !.fn_depth = @ - 1]
           left == sh_sigreset(u, 1)
           table == [i \in SigNo |-> IF i < f.prevst.trapmax THEN f.savsig[i] ELSE left.trapcom[i]]
           s == [left EXCEPT !.st = f.prevst, !.errexit = f.options, !.trapnote = {},
                             !.trapcom = table]
           frame == [kind |-> "EXIT", mode |-> JmpEval, savxit |-> s.exitval,
                     nodontexec |-> s.st.trapdontexec = "off", jmpval |-> v]
<1>1. f \in Frame /\ f.kind = "fun" /\ k \in Stack
  BY StackTop, StackPop
<1>2. f.prevst \in Scoped /\ f.savsig \in Table /\ f.options \in BOOLEAN
  BY <1>1, FrameParts
<1>3. u \in Shell /\ Same(sh, u) /\ u.st = sh.st /\ u.trapcom = sh.trapcom
  <2>1. sh.fn_depth - 1 \in Int
    BY TypeDepths
  <2> DEFINE n == sh.fn_depth - 1
  <2>2. u = [sh EXCEPT !.fn_depth = n]
    OBVIOUS
  <2>3. n \in Int
    BY <2>1
  <2> HIDE DEF n
  <2>4. /\ [sh EXCEPT !.fn_depth = n] \in Shell /\ [sh EXCEPT !.fn_depth = n].st = sh.st
        /\ [sh EXCEPT !.fn_depth = n].trapcom = sh.trapcom
    BY <2>3 DEF Shell
  <2>5. QED
    BY <2>2, <2>4, SameRest
<1>4. /\ left \in Shell /\ left.pend \subseteq u.pend
      /\ \A i \in SigNo : left.trapcom[i] \in Handler =>
            u.trapcom[i] \in Handler /\ ~ (i < u.st.trapmax)
      /\ left.indebug = u.indebug /\ left.indone = u.indone /\ left.cursig = u.cursig
  <2> HIDE DEF u
  <2>1. QED
    BY <1>3, TypeSigreset, KeepsReset
<1>5. /\ s \in Shell /\ s.st = f.prevst /\ s.trapcom = table /\ s.pend = left.pend
      /\ s.indebug = left.indebug /\ s.indone = left.indone /\ s.cursig = left.cursig
  <2> HIDE DEF f, left
  <2>1. table \in Table
    BY <1>2, <1>4 DEF Shell, Table
  <2> HIDE DEF table
  <2>2. QED
    BY <1>2, <1>4, <2>1 DEF Shell
<1>6. /\ s.pend \subseteq sh.pend /\ s.indebug = sh.indebug /\ s.indone = sh.indone
      /\ s.cursig = sh.cursig
  <2> HIDE DEF left, s
  <2>1. u.pend = sh.pend /\ u.indebug = sh.indebug /\ u.indone = sh.indone /\ u.cursig = sh.cursig
    BY DEF Shell
  <2> HIDE DEF u
  <2>2. QED
    BY <1>4, <1>5, <2>1
<1>7. Sound(k, sh)
  BY SoundPop DEF OfDone
<1>8. Reached(k, s)
  <2>1. SUFFICES ASSUME "trapInDebug" \notin Ops
                 PROVE  Reached(k, s)
    BY DEF Reached
  <2>2. Reached(stack, sh)
    BY DEF Sound, Clean
  <2>3. /\ Len(stack) \in Nat /\ Len(stack) > 1 /\ Len(k) = Len(stack) - 1
        /\ \A j \in 1..Len(stack) - 1 : k[j] = stack[j]
    BY Popped
  <2>4. stack[Len(stack)] = f
    BY DEF Top
  <2> HIDE DEF u, left, k, f, table, s
  <2>5. \A i \in SigNo : left.trapcom[i] \notin Handler
    BY <1>3, <1>4, <2>1, <2>2 DEF Reached, Covers
  <2>6. \A i \in SigNo : s.trapcom[i] \in Handler => i < f.prevst.trapmax /\ f.savsig[i] \in Handler
    BY <1>5, <2>5 DEF table
  <2>7. Covers(s.trapcom, s.st.trapmax)
    BY <1>5, <2>6 DEF Covers
  <2>8. \A j \in 1..Len(k) : k[j].kind = "fun" => Covers(k[j].savsig, k[j].prevst.trapmax)
    BY <1>7, <2>1 DEF Sound, Clean, Reached
  <2>9. ASSUME NEW j \in 1..Len(k), k[j].kind = "DEBUG"
        PROVE  Covers(s.trapcom, k[j].savst.trapmax)
    <3>1. j \in 1..Len(stack) /\ Len(stack) \in 1..Len(stack) /\ Len(stack) > j /\ stack[j] = k[j]
      BY <2>3
    <3>2. Covers(f.savsig, k[j].savst.trapmax)
      BY <1>1, <2>1, <2>2, <2>4, <2>9, <3>1 DEF Reached
    <3>3. QED
      BY <2>6, <3>2 DEF Covers
  <2>10. \A j \in 1..Len(k) : k[j].kind = "DEBUG" =>
            /\ s.indebug
            /\ \A m \in 1..Len(k) : m > j =>
                  /\ k[m].kind # "DEBUG"
                  /\ k[m].kind = "fun" => Covers(k[m].savsig, k[j].savst.trapmax)
    BY <1>6, <1>7, <2>1 DEF Sound, Clean, Reached
  <2>11. QED
    BY <2>7, <2>8, <2>9, <2>10 DEF Reached
<1>9. Sound(k, s) /\ (v # 0 => Still(s))
  <2> HIDE DEF k, s
  <2>1. QED
    BY <1>6, <1>7, <1>8 DEF Sound, Clean, Held, Still
<1>10. CASE sh.fn_depth = 2 /\ v = JmpErrFn
  <2>1. SignalExit(stack, u) /\ sent' = sent
    BY <1>10 DEF FunctionLeave
  <2> HIDE DEF u
  <2>2. Sound(stack, u)
    BY <1>3, KeepsSound DEF Same
  <2>3. QED
    BY <1>3, <2>1, <2>2, SignalExitSafe DEF Quiet, Same
<1>11. CASE ~(sh.fn_depth = 2 /\ v = JmpErrFn) /\ sh.trapcom[0] \in Handler
  <2>1. Goto(Cmd, Append(k, frame), EnterTrap(s)) /\ sent' = sent
    BY <1>11 DEF FunctionLeave
  <2>2. frame.kind = "EXIT" /\ frame.jmpval = v
    OBVIOUS
  <2> HIDE DEF k, s, frame
  <2>3. frame.kind \notin {"fun", "DEBUG", "SIG"} /\ ~ OfDone(frame) /\ (v = 0 => ~ Resumes(frame))
    BY <2>2 DEF OfDone, Resumes
  <2>4. Sound(Append(k, frame), s)
    BY <1>1, <1>9, <2>3, SoundPush
  <2>5. Keeps(s, EnterTrap(s)) /\ EnterTrap(s).pend = s.pend
    BY <1>5, KeepsEnter
  <2>6. Sound(Append(k, frame), EnterTrap(s))
    BY <2>4, <2>5, KeepsSound
  <2>7. QED
    BY <1>6, <2>1, <2>5, <2>6, PointKinds, GoesSound DEF Quiet
<1>12. CASE ~(sh.fn_depth = 2 /\ v = JmpErrFn) /\ sh.trapcom[0] \notin Handler
  <2>1. FunctionAfter(k, s, v)
    BY <1>12 DEF FunctionLeave
  <2> HIDE DEF k, s
  <2>2. QED
    BY <1>1, <1>5, <1>6, <1>9, <2>1, FunctionAfterSafe
<1>13. QED
  BY <1>10, <1>11, <1>12

(* A POSIX function or dot script is left. *)
LEMMA PosixLeaveSafe ==
    ASSUME stack \in Stack, sh \in Shell, Sound(stack, sh), Top(stack).kind = "posix",
           NEW v, v # 0 => Still(sh), PosixLeave(v)
    PROVE  Safe(at, stack, sh)' /\ sh'.pend \subseteq sh.pend
<1> DEFINE f == Top(stack)
           n == sh.dot_depth - 1
           s == [sh EXCEPT !.dot_depth = n]
           t == [s EXCEPT !.st.loopcnt = f.loopcnt]
<1>1. Sound(Pop(stack), sh)
  BY SoundPop DEF OfDone
<1>2. n \in Int
  BY TypeDepths
<1>3. s \in Shell /\ Same(sh, s)
  <2> HIDE DEF n
  <2>1. s \in Shell
    BY <1>2 DEF Shell
  <2>2. QED
    BY <2>1, SameRest
<1>4. Same(sh, t)
  <2> HIDE DEF s
  <2>1. QED
    BY <1>3, SameScoped, SameTransitive
<1>5. CASE v \in {0, JmpFun}
  <2>1. Goto(Post(TRUE), Pop(stack), t)
    BY <1>5 DEF PosixLeave
  <2> HIDE DEF t
  <2>2. QED
    BY <1>1, <1>4, <2>1, PointKinds, GoesSame
<1>6. CASE v \notin {0, JmpFun}
  <2>1. Goto(Jump(v), Pop(stack), s)
    BY <1>6 DEF PosixLeave
  <2>2. Still(s)
    BY <1>3, <1>6, KeepsSound DEF Same
  <2> HIDE DEF s
  <2>3. QED
    BY <1>1, <1>3, <2>1, <2>2, PointKinds, GoesSame
<1>7. QED
  BY <1>5, <1>6

(* The caller of sh_trap goes on. *)
LEMMA TrapReturnSafe ==
    ASSUME Good(stack, sh), Sound(stack, sh), Top(stack).kind \in TrapKinds, TrapReturn
    PROVE  Safe(at, stack, sh)' /\ (Quiet \/ Arrives)
<1> DEFINE f == Top(stack)
           k == Pop(stack)
           s == LeaveTrap(sh, f)
           debug == [s EXCEPT !.indebug = FALSE, !.st = f.savst]
           err == [s EXCEPT !.st.err = f.trap, !.trapnote = f.note]
<1>1. /\ stack \in Stack /\ sh \in Shell /\ f \in Frame /\ s \in Shell /\ k \in Stack
      /\ f.kind # "main" /\ f = stack[Len(stack)]
  BY HandlerLeft DEF Good, TrapKinds, Top
<1>2. Same(sh, s)
  BY <1>1, KeepsLeave DEF Same
<1>3. Sound(stack, s) /\ (Still(sh) => Still(s))
  BY <1>2, KeepsSound DEF Same
<1>4. /\ Len(stack) \in Nat /\ Len(stack) > 1 /\ Len(k) = Len(stack) - 1
      /\ \A j \in 1..Len(k) : k[j] = stack[j]
  <2>1. Top(stack).kind # "main"
    BY <1>1
  <2>2. QED
    BY <1>1, <2>1, Popped
<1>5. CASE f.kind = "DEBUG"
  <2>1. debug \in Shell /\ debug.st = f.savst /\ debug.trapcom = s.trapcom /\ debug.pend = s.pend
        /\ debug.indone = s.indone /\ debug.cursig = s.cursig
    <3>1. f.savst \in Scoped
      BY <1>1, <1>5, FrameParts
    <3>2. s \in Shell
      BY <1>1
    <3> HIDE DEF s, f
    <3>3. QED
      BY <3>1, <3>2, DebugPutBack
  <2>2. \/ Goto(Jump(JmpFun), k, sh_exit(debug))
        \/ Goto(Post(TRUE), k, [debug EXCEPT !.exitval = 2])
        \/ Goto(Exec, k, debug)
    BY <1>5 DEF TrapReturn
  <2>3. sent' = sent
    BY <1>5 DEF TrapReturn
  <2>4. Sound(k, s)
    BY <1>1, <1>3, <1>5, SoundPop DEF OfDone
  <2> HIDE DEF debug, s, k
  <2>5. Reached(k, debug)
    <3>1. SUFFICES ASSUME "trapInDebug" \notin Ops
                   PROVE  Reached(k, debug)
      BY DEF Reached
    <3>2. Len(stack) \in 1..Len(stack) /\ \A j \in 1..Len(k) : j \in 1..Len(stack) /\ Len(stack) > j
      BY <1>4
    <3>3. Reached(stack, s) /\ Reached(k, s)
      BY <1>3, <2>4 DEF Sound, Clean
    <3>4. Covers(s.trapcom, f.savst.trapmax)
      BY <1>1, <1>5, <3>1, <3>2, <3>3 DEF Reached
    <3>5. \A j \in 1..Len(k) : k[j].kind # "DEBUG"
      BY <1>1, <1>4, <1>5, <3>1, <3>2, <3>3 DEF Reached
    <3>6. QED
      BY <2>1, <3>1, <3>3, <3>4, <3>5 DEF Reached
  <2>6. Sound(k, debug)
    BY <2>1, <2>4, <2>5 DEF Sound, Clean, Held, Still
  <2>7. Same(debug, sh_exit(debug)) /\ Still(sh_exit(debug)) /\ Same(debug, debug)
        /\ Same(debug, [debug EXCEPT !.exitval = 2])
    BY <2>1, KeepsExit, SameRest DEF Same, Keeps
  <2>8. Safe(at, stack, sh)' /\ sh'.pend \subseteq debug.pend
    BY <2>2, <2>6, <2>7, PointKinds, GoesSame
  <2>9. QED
    BY <1>2, <2>1, <2>3, <2>8 DEF Quiet, Same
<1>6. CASE f.kind = "ERR"
  <2>1. f.trap \in Handler /\ f.then \in Resume /\ f.note \in SUBSET {"SIGSET", "SIGTRAP"}
    BY <1>1, <1>6, FrameParts
  <2>2. f.then # Done
    <3>1. Marked(stack) /\ Len(stack) \in 1..Len(stack)
      BY <1>4 DEF Sound, Clean
    <3>2. QED
      BY <1>1, <1>6, <3>1 DEF Marked, OfDone
  <2>3. f.then \in JmpVal => Still(s)
    BY <1>1, <1>3, <1>6, TopResumes DEF Resumes, Sound, Clean
  <2>4. ErrExit(k, err, f.sig, f.then) /\ sent' = sent
    BY <1>6 DEF TrapReturn
  <2>5. Sound(k, s)
    BY <1>1, <1>3, <1>6, <2>2, SoundPop DEF OfDone
  <2>6. err \in Shell /\ Same(s, err)
    <3> HIDE DEF s, f
    <3> DEFINE t == [s EXCEPT !.st.err = f.trap]
    <3>1. t \in Shell /\ Same(s, t)
      BY <1>1, <2>1, TypeMember, SameScoped
    <3>2. err = [t EXCEPT !.trapnote = f.note]
      OBVIOUS
    <3> HIDE DEF t
    <3>3. [t EXCEPT !.trapnote = f.note] \in Shell /\ Same(t, [t EXCEPT !.trapnote = f.note])
      BY <2>1, <3>1, SameRest DEF Shell
    <3>4. QED
      BY <3>1, <3>2, <3>3, SameTransitive
  <2> HIDE DEF err, s, k
  <2>7. Sound(k, err) /\ (f.then \in JmpVal => Still(err))
    BY <2>3, <2>5, <2>6, KeepsSound DEF Same
  <2>8. Safe(at, stack, sh)' /\ sh'.pend = err.pend
    BY <1>1, <2>2, <2>4, <2>6, <2>7, ErrExitSafe
  <2>9. QED
    BY <1>2, <2>4, <2>6, <2>8 DEF Quiet, Same
<1>7. CASE f.kind = "SIG"
  <2> DEFINE t == [s EXCEPT !.cursig = -1]
  <2>1. Goto(Chk(f.sig, f.then), k, t) /\ sent' = sent
    BY <1>7 DEF TrapReturn
  <2>2. t \in Shell /\ t.cursig = -1 /\ Same(s, t)
    <3> HIDE DEF s
    <3>1. t \in Shell /\ t.cursig = -1
      BY <1>1 DEF Shell
    <3>2. QED
      BY <1>1, <3>1, SameRest
  <2> HIDE DEF t, s
  <2>3. Sound(stack, t) /\ Still(t)
    BY <1>3, <2>2, KeepsSound DEF Same, Still
  <2>4. sent' = sent /\ t.pend \subseteq sh.pend
    BY <1>2, <2>1, <2>2 DEF Same
  <2>5. CASE f.then = Done
    <3>1. Len(k) = 1
      <4>1. Marked(stack) /\ Len(stack) \in 1..Len(stack)
        BY <1>4, <2>3 DEF Sound, Clean
      <4>2. Len(stack) = 2
        BY <1>1, <1>7, <2>5, <4>1 DEF Marked, OfDone
      <4>3. QED
        BY <1>4, <4>2
    <3>2. Clean(k, t)
      BY <1>1, <2>3, CleanPop DEF Sound
    <3> HIDE DEF k, f
    <3>3. Safe(Chk(f.sig, f.then), k, t)
      BY <2>3, <2>5, <3>1, <3>2, PointKinds DEF Safe
    <3>4. QED
      BY <2>1, <2>4, <3>3, GoesSafe DEF Quiet
  <2>6. CASE f.then # Done
    <3>1. Sound(k, t)
      BY <1>1, <1>7, <2>3, <2>6, SoundPop DEF OfDone
    <3> HIDE DEF k, f
    <3>2. QED
      BY <2>1, <2>3, <2>4, <2>6, <3>1, PointKinds, GoesSound DEF Quiet
  <2>7. QED
    BY <2>5, <2>6
<1>8. CASE f.kind = "EXIT"
  <2>1. f.jmpval \in JmpVal \cup {0}
    BY <1>1, <1>8, FrameParts
  <2>2. FunctionAfter(k, s, f.jmpval)
    BY <1>8 DEF TrapReturn
  <2>3. f.jmpval # 0 => Still(s)
    BY <1>1, <1>3, <1>8, TopResumes DEF Resumes, Sound, Clean
  <2>4. Sound(k, s)
    BY <1>1, <1>3, <1>8, SoundPop DEF OfDone
  <2> HIDE DEF s, k, f
  <2>5. QED
    BY <1>1, <1>2, <2>1, <2>2, <2>3, <2>4, FunctionAfterSafe DEF Same
<1>9. CASE f.kind = "DONE"
  <2>1. Goto(Exited, k, s) /\ sent' = sent
    BY <1>9 DEF TrapReturn
  <2>2. Clean(k, s)
    BY <1>1, <1>3, <1>9, CleanPop DEF Sound
  <2> HIDE DEF s, k
  <2>3. Safe(Exited, k, s)
    BY <2>2, PointKinds DEF Safe
  <2>4. QED
    BY <1>2, <2>1, <2>3, GoesSafe DEF Quiet, Same
<1>10. QED
  BY <1>5, <1>6, <1>7, <1>8, <1>9 DEF TrapKinds

-------------------------------------------------------------------------------
(* The steps of the interpreter. *)

(* What a step needs of the invariant. *)
LEMMA HInvParts ==
    ASSUME HInv
    PROVE  /\ IInv /\ Good(stack, sh) /\ stack \in Stack /\ sh \in Shell /\ at \in Point
           /\ sent \in [Sig -> Nat] /\ ran \in [Sig -> Nat]
           /\ Safe(at, stack, sh)
           /\ (~ Ends(at) /\ at # Exited => Sound(stack, sh))
           /\ (at.pc = "jump" => Still(sh))
BY IInvParts, SafeSound DEF HInv, Safe, Jumps

(* The end of the shell is not among the points where commands run. *)
LEMMA Before ==
    ASSUME \/ at \in {Read, Cmd, Exec, Bltin} \/ at.pc = "post" \/ at.pc = "jump"
    PROVE  ~ Ends(at) /\ at # Exited
BY DEF Ends, Read, Cmd, Exec, Bltin, Exited

(* At the outermost checkpoint there is nothing else. *)
LEMMA MainAlone ==
    ASSUME NEW k \in Stack, Top(k).kind = "main"
    PROVE  Len(k) = 1
<1>1. Len(k) \in Nat /\ Len(k) \in 1..Len(k) /\ k[Len(k)].kind = "main"
  BY StackTop DEF Top
<1>2. QED
  BY <1>1 DEF Stack

(* The deliveries stay accounted for. *)
LEMMA HandledNext ==
    ASSUME IInv, Handled, Counted \/ Starts
    PROVE  Handled'
<1>1. sent \in [Sig -> Nat] /\ ran \in [Sig -> Nat]
  BY IInvParts
<1>2. CASE Counted /\ Quiet
  BY <1>1, <1>2 DEF Counted, Quiet, Handled
<1>3. CASE Counted /\ Arrives
  <2>1. PICK i \in Sig : sent' = [sent EXCEPT ![i] = @ + 1] /\ sh'.pend \subseteq sh.pend \cup {i}
    BY <1>3 DEF Arrives
  <2>2. ran' = ran
    BY <1>3 DEF Counted
  <2>3. ASSUME NEW j \in Sig
        PROVE  ran'[j] + (IF j \in sh'.pend THEN 1 ELSE 0) <= sent'[j]
    BY <1>1, <2>1, <2>2 DEF Handled
  <2>4. QED
    BY <2>3 DEF Handled
<1>4. CASE Starts
  <2>1. PICK i \in sh.pend : /\ sent' = sent /\ ran' = [ran EXCEPT ![i] = @ + 1]
                             /\ sh'.pend \subseteq sh.pend \ {i}
    BY <1>4 DEF Starts
  <2>2. i \in Sig
    BY IInvParts DEF Shell
  <2>3. ASSUME NEW j \in Sig
        PROVE  ran'[j] + (IF j \in sh'.pend THEN 1 ELSE 0) <= sent'[j]
    BY <1>1, <2>1, <2>2 DEF Handled
  <2>4. QED
    BY <2>3 DEF Handled
<1>5. QED
  BY <1>2, <1>3, <1>4 DEF Counted

(* The steps of sh_chktrap, and the test at the end of sh_exec. *)
LEMMA ScanSafe ==
    ASSUME HInv, ScanNext \/ ScanEnd \/ PostExec
    PROVE  Safe(at, stack, sh)' /\ (Counted \/ Starts)
<1> USE HInvParts
<1>1. CASE ScanNext
  <2>1. PICK i \in Due : RunTrap(i) \/ SkipTrap(i)
    BY <1>1 DEF ScanNext
  <2>2. i \in Sig /\ i \in sh.pend /\ sent' = sent /\ at.pc = "chk" /\ at # Exited
    BY <1>1 DEF Due, Shell, ScanNext, Exited
  <2> DEFINE taken == Taken(sh, i)
             t == [taken EXCEPT !.cursig = i]
             u == [taken EXCEPT !.cursig = IF sh.trapcom[i] = Ignore THEN -1 ELSE @]
             f == SigFrameOf(sh, i)
  <2>3. taken \in Shell /\ Same(sh, taken) /\ taken.pend = sh.pend \ {i}
    BY DEF Taken, Shell, Same, Keeps
  <2>4. CASE RunTrap(i)
    <3>1. Goto(Cmd, Append(stack, f), EnterTrap(t)) /\ ran' = [ran EXCEPT ![i] = @ + 1]
      BY <2>4 DEF RunTrap
    <3>2. f.kind = "SIG" /\ f.sig = i /\ f.then = at.then
      BY DEF SigFrameOf
    <3>3. /\ t \in Shell /\ t.cursig = i /\ t.pend = sh.pend \ {i} /\ t.st = sh.st
          /\ t.trapcom = sh.trapcom /\ t.indebug = sh.indebug /\ t.indone = sh.indone
      BY <2>2 DEF Taken, Shell
    <3>4. Keeps(t, EnterTrap(t)) /\ EnterTrap(t).pend = t.pend
      <4> HIDE DEF t
      <4>1. QED
        BY <3>3, KeepsEnter
    <3> HIDE DEF t, f
    <3> DEFINE l == Append(stack, f)
    <3>5. /\ Len(stack) \in Nat /\ Len(stack) >= 1 /\ Len(l) = Len(stack) + 1
          /\ l[Len(stack) + 1] = f
      BY Pushed
    <3>6. Clean(stack, sh) /\ (Ends(at) => Len(stack) = 1)
      BY DEF Safe
    <3>7. Reached(l, t)
      <4>1. Reached(stack, t)
        BY <3>3, <3>6 DEF Clean, Reached
      <4>2. QED
        BY <3>2, <4>1, ReachedPush
    <3>8. Held(l, t)
      <4> HIDE DEF l
      <4>1. QED
        BY <3>2, <3>3, <3>5 DEF Held
    <3>9. OfDone(f) <=> Ends(at)
      BY <2>2, <3>2 DEF OfDone, Ends
    <3>10. Marked(l) /\ (Base(stack) => Base(l))
      BY <3>2, <3>6, <3>9, MarkedPush DEF Clean
    <3>11. t.indone => Base(l)
      <4>1. CASE Ends(at)
        <5>1. Len(l) = 2 /\ l[2] = f
          <6> HIDE DEF l
          <6>1. Len(stack) = 1
            BY <3>6, <4>1, Zenon
          <6>2. Len(stack) + 1 = 2
            BY <6>1
          <6>3. QED
            BY <3>5, <6>2, Zenon
        <5> HIDE DEF l
        <5>2. QED
          BY <2>2, <3>2, <4>1, <5>1 DEF Base, Ends
      <4>2. CASE ~ Ends(at)
        BY <2>2, <3>3, <3>10, <4>2 DEF Safe
      <4>3. QED
        BY <4>1, <4>2
    <3> HIDE DEF l
    <3>12. Sound(l, EnterTrap(t))
      BY <3>4, <3>7, <3>8, <3>10, <3>11, KeepsSound DEF Sound, Clean
    <3>13. Safe(at, stack, sh)' /\ sh'.pend = EnterTrap(t).pend
      BY <3>1, <3>12, PointKinds, GoesSound DEF l
    <3>14. QED
      BY <2>2, <3>1, <3>3, <3>4, <3>13 DEF Starts
  <2>5. CASE SkipTrap(i)
    <3>1. Goto(Chk(i, at.then), stack, u) /\ ran' = ran
      BY <2>5 DEF SkipTrap
    <3>2. Same(sh, u)
      <4> HIDE DEF taken
      <4>1. Same(taken, u)
        BY <2>3, SameRest DEF Same, Keeps, Shell
      <4>2. QED
        BY <2>3, <4>1, SameTransitive
    <3> HIDE DEF u
    <3>3. Clean(stack, u) /\ (Still(sh) => Still(u)) /\ u.indone = sh.indone
      BY <3>2, KeepsSound DEF Same, Safe, Keeps
    <3>4. (Jumps(Chk(i, at.then)) <=> Jumps(at)) /\ (Ends(Chk(i, at.then)) <=> Ends(at))
      BY <2>2, PointKinds DEF Jumps, Ends
    <3>5. Safe(Chk(i, at.then), stack, u)
      BY <2>2, <3>3, <3>4 DEF Safe
    <3>6. QED
      BY <2>2, <3>1, <3>2, <3>5, GoesSafe DEF Counted, Quiet, Same
  <2>6. QED
    BY <2>1, <2>4, <2>5
<1>2. CASE ScanEnd
  <2>1. at.then \in Resume /\ at.pc = "chk" /\ at # Exited
    BY <1>2, PointParts DEF ScanEnd, Exited
  <2>2. /\ (Jumps(Chk(at.sig, at.then)) <=> Jumps(at))
        /\ (Ends(Chk(at.sig, at.then)) <=> Ends(at))
    BY <2>1, PointKinds DEF Jumps, Ends
  <2>3. Safe(Chk(at.sig, at.then), stack, sh)
    BY <2>1, <2>2 DEF Safe
  <2>4. Safe(at, stack, sh)' /\ sh'.pend = sh.pend
    BY <1>2, <2>1, <2>3, ReturnSafe DEF ScanEnd
  <2>5. QED
    BY <1>2, <2>4 DEF ScanEnd, Counted, Quiet
<1>3. CASE PostExec
  <2>1. Sound(stack, sh)
    BY <1>3, Before DEF PostExec
  <2>2. PICK errexit \in BOOLEAN : sh_chktrap(stack, sh, errexit, 0) \/ AfterExec(stack, sh)
    BY <1>3 DEF PostExec
  <2>3. Safe(at, stack, sh)' /\ sh'.pend = sh.pend
    BY <2>1, <2>2, Numbers, ChktrapSafe, AfterExecSafe
  <2>4. QED
    BY <1>3, <2>3 DEF PostExec, Counted, Quiet
<1>4. QED
  BY <1>1, <1>2, <1>3

(* The command loop, the end of the shell, and what reaches the outermost
   checkpoint. *)
LEMMA MainSafe ==
    ASSUME HInv, NextLine \/ ReadLine \/ EndOfInput \/ SigCheck \/ UnwindMain
    PROVE  Safe(at, stack, sh)' /\ Counted
<1> USE HInvParts
<1> DEFINE b == [sh EXCEPT !.st.breakcnt = 0]
           n == [b EXCEPT !.trapnote = {}]
<1>1. b \in Shell /\ Same(sh, b)
  <2>1. b \in Shell
    BY TypeMember
  <2>2. Same(sh, b)
    BY SameScoped
  <2>3. QED
    BY <2>1, <2>2
<1>2. Same(sh, n)
  <2> HIDE DEF b
  <2>1. QED
    BY <1>1, SameRest, SameTransitive
<1>3. Sound(stack, sh) /\ Clean(stack, sh)
  <2>1. \/ at \in {Read, Cmd} \/ at.pc = "jump"
    BY DEF NextLine, ReadLine, EndOfInput, SigCheck, UnwindMain
  <2>2. QED
    BY <2>1, Before DEF Sound
<1>4. CASE NextLine
  <2> DEFINE m == IF Top(stack).mode = JmpExit THEN JmpErrExit ELSE Top(stack).mode
  <2>1. m \in MainModes
    <3>1. Len(stack) = 1
      BY <1>4, MainAlone DEF NextLine
    <3>2. stack[1].mode \in MainModes
      BY <1>3 DEF Clean, Marked
    <3>3. QED
      BY <3>1, <3>2 DEF Top, MainModes
  <2>2. Goto(Read, SetMode(stack, m), n) \/ Goto(Cmd, stack, b)
    BY <1>4 DEF NextLine
  <2> HIDE DEF m, n, b
  <2>3. Sound(SetMode(stack, m), sh)
    BY <1>3, <2>1, SoundMode DEF Clean
  <2>4. Safe(at, stack, sh)' /\ sh'.pend \subseteq sh.pend
    BY <1>1, <1>2, <1>3, <2>2, <2>3, PointKinds, GoesSame
  <2>5. QED
    BY <1>4, <2>4 DEF NextLine, Counted, Quiet
<1>5. CASE ReadLine
  <2>1. \/ SignalExit(stack, sh)
        \/ \E errexit \in BOOLEAN : sh_chktrap(stack, sh, errexit, Reading)
        \/ Goto(Cmd, stack, sh)
    BY <1>5 DEF ReadLine
  <2>2. Safe(at, stack, sh)' /\ sh'.pend = sh.pend
    BY <1>3, <2>1, Numbers, SignalExitSafe, ChktrapSafe, PointKinds, GoesSound
  <2>3. QED
    BY <1>5, <2>2 DEF ReadLine, Counted, Quiet
<1>6. CASE EndOfInput
  <2>1. Len(stack) = 1 /\ sh_done(stack, sh)
    BY <1>6, MainAlone DEF EndOfInput
  <2>2. Safe(at, stack, sh)' /\ sh'.pend = sh.pend
    BY <1>3, <2>1, DoneSafe
  <2>3. QED
    BY <1>6, <2>2 DEF EndOfInput, Counted, Quiet
<1>7. CASE SigCheck
  <2>1. Safe(at, stack, sh)' /\ sh'.pend = sh.pend
    BY <1>3, <1>7, SignalExitSafe DEF SigCheck
  <2>2. QED
    BY <1>7, <2>1 DEF SigCheck, Counted, Quiet
<1>8. CASE UnwindMain
  <2> DEFINE l == [b EXCEPT !.st.loopcnt = 0]
             t == [l EXCEPT !.trapnote = {}]
             u == [t EXCEPT !.intrap = 0]
  <2>1. CASE ~Interactive \/ at.val > JmpErrExit
    <3>1. sh_done(stack, b) /\ Len(stack) = 1
      BY <1>8, <2>1, MainAlone DEF UnwindMain
    <3> HIDE DEF b
    <3>2. Clean(stack, b)
      BY <1>1, <1>3, KeepsSound DEF Same
    <3>3. Safe(at, stack, sh)' /\ sh'.pend = b.pend
      BY <1>1, <3>1, <3>2, DoneSafe
    <3>4. QED
      BY <1>1, <1>8, <3>3 DEF UnwindMain, Counted, Quiet, Same
  <2>2. CASE ~(~Interactive \/ at.val > JmpErrExit)
    <3>1. Goto(Cmd, stack, u)
      BY <1>8, <2>2 DEF UnwindMain
    <3>2. l \in Shell /\ Same(sh, l)
      <4> HIDE DEF b
      <4>1. l \in Shell
        BY <1>1, TypeMember
      <4>2. Same(b, l)
        BY <1>1, SameScoped
      <4>3. QED
        BY <1>1, <4>1, <4>2, SameTransitive
    <3>3. t \in Shell /\ Same(sh, t)
      <4> HIDE DEF l
      <4>1. t \in Shell
        BY <3>2 DEF Shell
      <4>2. QED
        BY <3>2, <4>1, SameRest, SameTransitive
    <3>4. Same(sh, u)
      <4> HIDE DEF t
      <4>1. QED
        BY <3>3, SameRest, SameTransitive
    <3> HIDE DEF u
    <3>5. Safe(at, stack, sh)' /\ sh'.pend \subseteq sh.pend
      BY <1>3, <3>1, <3>4, PointKinds, GoesSame
    <3>6. QED
      BY <1>8, <3>5 DEF UnwindMain, Counted, Quiet
  <2>3. QED
    BY <2>1, <2>2
<1>9. QED
  BY <1>4, <1>5, <1>6, <1>7, <1>8

(* The commands that start an activation or run in one. *)
LEMMA CommandSafe ==
    ASSUME HInv,
           \/ SimpleCommand \/ LoopStart \/ Simple \/ BuiltinStart \/ BuiltinEnd
           \/ EvalStart \/ Break \/ ReturnOrExit \/ Error \/ SetErrexit
    PROVE  Safe(at, stack, sh)' /\ Counted
<1> USE HInvParts
<1>1. Sound(stack, sh)
  <2>1. at \in {Cmd, Exec, Bltin}
    BY DEF SimpleCommand, LoopStart, Simple, BuiltinStart, BuiltinEnd, EvalStart, Break,
           ReturnOrExit, Error, SetErrexit, CanStart
  <2>2. QED
    BY <2>1, Before
<1>2. sent' = sent /\ ran' = ran
  BY DEF SimpleCommand, LoopStart, Simple, BuiltinStart, BuiltinEnd, EvalStart, Break,
         ReturnOrExit, Error, SetErrexit
<1>3. SUFFICES Safe(at, stack, sh)' /\ sh'.pend \subseteq sh.pend
  BY <1>2 DEF Counted, Quiet
<1>4. Started \in Shell /\ Same(sh, Started)
  <2> DEFINE u == [sh EXCEPT !.lastsig = 0]
  <2>1. u \in Shell /\ Same(sh, u)
    BY SameRest DEF Shell, SigNo
  <2>2. Started = [u EXCEPT !.exitval = 0]
    BY Zenon DEF Started
  <2> HIDE DEF u
  <2>3. Same(u, Started)
    BY <2>1, <2>2, SameRest
  <2>4. QED
    BY <2>1, <2>3, TypeStarted, SameTransitive
(* A plain activation is pushed. *)
<1>5. ASSUME NEW c \in {"loop", "eval", "cmd"}, NEW m, NEW t, Same(sh, t), NEW p,
             Goto(p, Append(stack, [kind |-> c, mode |-> m]), t), ~ Ends(p), ~ Jumps(p)
      PROVE  Safe(at, stack, sh)' /\ sh'.pend \subseteq sh.pend
  <2> DEFINE f == [kind |-> c, mode |-> m]
  <2>1. f.kind = c
    OBVIOUS
  <2> HIDE DEF f
  <2>2. f.kind \notin {"fun", "DEBUG", "SIG"} /\ ~ OfDone(f) /\ ~ Resumes(f)
    BY <2>1 DEF OfDone, Resumes
  <2>3. Sound(Append(stack, f), sh)
    BY <1>1, <2>2, SoundPush
  <2>4. QED
    BY <1>5, <2>3, GoesSame DEF f
<1>6. CASE SimpleCommand
  <2>1. CASE sh.st.debug = None \/ sh.indebug
    <3>1. Goto(Exec, stack, Started)
      BY <1>6, <2>1 DEF SimpleCommand
    <3>2. QED
      BY <1>1, <1>4, <3>1, PointKinds, GoesSame
  <2>2. CASE ~(sh.st.debug = None \/ sh.indebug)
    <3> DEFINE f == [kind |-> "DEBUG", mode |-> JmpEval, savxit |-> 0,
                     nodontexec |-> sh.st.trapdontexec = "off",
                     savst |-> sh.st]
               u == [Started EXCEPT !.indebug = TRUE]
               t == [u EXCEPT !.st.debug = None]
    <3>1. Goto(Cmd, Append(stack, f), EnterTrap(t))
      BY <1>6, <2>2 DEF SimpleCommand
    <3>2. f.kind = "DEBUG" /\ f.savst = sh.st
      OBVIOUS
    <3>3. /\ u \in Shell /\ u.indebug = TRUE /\ u.st = Started.st /\ u.trapcom = Started.trapcom
          /\ u.indone = Started.indone /\ u.cursig = Started.cursig /\ u.pend = Started.pend
      BY <1>4 DEF Shell
    <3>4. /\ t \in Shell /\ t.indebug = TRUE /\ t.st.trapmax = Started.st.trapmax
          /\ t.trapcom = Started.trapcom
          /\ t.indone = Started.indone /\ t.cursig = Started.cursig /\ t.pend = Started.pend
      <4> HIDE DEF u
      <4>1. t \in Shell
        BY <3>3, TypeMember
      <4>2. QED
        BY <3>3, <4>1 DEF Shell, Scoped
    <3>5. Sound(stack, Started) /\ Keeps(sh, Started)
      BY <1>1, <1>4, KeepsSound DEF Same
    <3> DEFINE l == Append(stack, f)
    <3> HIDE DEF f, t
    <3>6. /\ Len(stack) \in Nat /\ Len(l) = Len(stack) + 1 /\ l[Len(stack) + 1] = f
          /\ \A j \in 1..Len(stack) : l[j] = stack[j]
      BY Pushed
    <3> HIDE DEF l
    <3>7. Reached(l, t)
      <4>1. SUFFICES ASSUME "trapInDebug" \notin Ops
                     PROVE  Reached(l, t)
        BY DEF Reached
      <4>2. Reached(stack, sh) /\ Reached(stack, Started)
        BY <1>1, <3>5 DEF Sound, Clean
      <4>3. \A j \in 1..Len(stack) : stack[j].kind # "DEBUG"
        BY <2>2, <4>1, <4>2 DEF Reached
      <4>4. \A j \in 1..Len(l) : (j \in 1..Len(stack) /\ l[j] = stack[j])
                                   \/ (j = Len(stack) + 1 /\ l[j] = f)
        BY <3>6
      <4>5. Covers(t.trapcom, t.st.trapmax) /\ Covers(t.trapcom, sh.st.trapmax)
        BY <3>4, <3>5, <4>1, <4>2 DEF Reached, Keeps
      <4>6. \A j \in 1..Len(l) : l[j].kind = "fun" => Covers(l[j].savsig, l[j].prevst.trapmax)
        BY <3>2, <4>1, <4>2, <4>4 DEF Reached
      <4>7. \A j \in 1..Len(l) : l[j].kind = "DEBUG" => l[j] = f /\ j = Len(stack) + 1
        BY <4>3, <4>4
      <4>8. \A m \in 1..Len(l) : ~ (m > Len(stack) + 1)
        BY <3>6
      <4>9. QED
        BY <3>2, <3>4, <4>5, <4>6, <4>7, <4>8 DEF Reached
    <3>8. Held(l, t)
      <4>1. Held(stack, t)
        BY <3>4, <3>5 DEF Sound, Clean, Held, Still
      <4>2. QED
        BY <3>2, <4>1, HeldPush DEF l, Resumes
    <3>9. Marked(l) /\ (t.indone => Base(l))
      BY <3>2, <3>4, <3>5, MarkedPush DEF l, Sound, Clean, OfDone
    <3>10. Keeps(t, EnterTrap(t)) /\ EnterTrap(t).pend = t.pend
      BY <3>4, KeepsEnter
    <3>11. Sound(l, EnterTrap(t))
      BY <3>7, <3>8, <3>9, <3>10, KeepsSound DEF Sound, Clean
    <3>12. Safe(at, stack, sh)' /\ sh'.pend = EnterTrap(t).pend
      BY <3>1, <3>11, PointKinds, GoesSound DEF l
    <3>13. QED
      BY <1>4, <3>4, <3>10, <3>12 DEF Same
  <2>3. QED
    BY <2>1, <2>2
<1>7. CASE LoopStart
  <2> DEFINE t == [Started EXCEPT !.st.loopcnt = @ + 1]
             n == Started.st.loopcnt + 1
             u == [Started EXCEPT !.st.loopcnt = n]
  <2>1. Goto(Cmd, Append(stack, [kind |-> "loop", mode |-> Top(stack).mode]), t)
    BY <1>7 DEF LoopStart
  <2>2. Same(Started, u)
    <3> HIDE DEF n
    <3>1. QED
      BY <1>4, SameScoped
  <2>3. t = u
    BY Zenon
  <2>4. Same(sh, t)
    BY <1>4, <2>2, <2>3, SameTransitive
  <2> HIDE DEF t
  <2>5. QED
    BY <1>5, <2>1, <2>4, PointKinds
<1>8. CASE Simple
  <2>1. PICK x \in Status : Goto(Post(TRUE), stack, [sh EXCEPT !.exitval = x])
    BY <1>8 DEF Simple
  <2>2. QED
    BY <1>1, <2>1, SameRest, PointKinds, GoesSame
<1>9. CASE BuiltinStart
  <2>1. Goto(Bltin, Append(stack, [kind |-> "cmd", mode |-> JmpCmd]), sh)
    BY <1>9 DEF BuiltinStart
  <2>2. Same(sh, sh)
    BY DEF Same, Keeps
  <2>3. QED
    BY <1>5, <2>1, <2>2, PointKinds
<1>10. CASE BuiltinEnd
  <2>1. CASE SignalExit(stack, sh)
    BY <1>1, <2>1, SignalExitSafe
  <2>2. ASSUME NEW x \in Status, Goto(Post(TRUE), Pop(stack), [sh EXCEPT !.exitval = x])
        PROVE  Safe(at, stack, sh)' /\ sh'.pend \subseteq sh.pend
    <3>1. Top(stack).kind = "cmd"
      BY <1>10 DEF BuiltinEnd, IInv
    <3>2. Sound(Pop(stack), sh)
      BY <1>1, <3>1, SoundPop DEF OfDone
    <3>3. QED
      BY <2>2, <3>2, SameRest, PointKinds, GoesSame
  <2>3. QED
    BY <1>10, <2>1, <2>2 DEF BuiltinEnd
<1>11. CASE EvalStart
  <2>1. Goto(Cmd, Append(stack, [kind |-> "eval", mode |-> JmpEval]), sh)
    BY <1>11 DEF EvalStart
  <2>2. Same(sh, sh)
    BY DEF Same, Keeps
  <2>3. QED
    BY <1>5, <2>1, <2>2, PointKinds
<1>12. CASE Break
  <2>1. PICK b : Goto(Post(TRUE), stack, [sh EXCEPT !.st.breakcnt = b])
    BY <1>12 DEF Break
  <2>2. QED
    BY <1>1, <2>1, SameScoped, PointKinds, GoesSame
<1>13. CASE ReturnOrExit
  <2>1. PICK exit \in BOOLEAN, x \in Status, operand \in BOOLEAN :
          LET do_exit == exit \/ (sh.fn_depth = 0 /\ sh.dot_depth = 0)
          IN Goto(Jump(IF do_exit THEN JmpExit ELSE JmpFun), stack,
                  [sh_exit(sh) EXCEPT !.exitval = x,
                      !.intrap_exit_n = @ \/ (do_exit /\ operand /\ sh.intrap > 0)])
    BY <1>13 DEF ReturnOrExit
  <2> DEFINE do_exit == exit \/ (sh.fn_depth = 0 /\ sh.dot_depth = 0)
             v == IF do_exit THEN JmpExit ELSE JmpFun
             e == sh.intrap_exit_n \/ (do_exit /\ operand /\ sh.intrap > 0)
             u == [sh_exit(sh) EXCEPT !.exitval = x]
             s == [u EXCEPT !.intrap_exit_n = e]
  <2>2. Goto(Jump(v), stack, s)
    BY <2>1 DEF sh_exit
  <2> HIDE DEF v, e
  <2>3. Keeps(sh, u) /\ Still(u) /\ u.pend = sh.pend
    BY KeepsExit
  <2>4. u \in Shell
    <3>1. sh_exit(sh) \in Shell /\ x \in 0..255
      BY TypeExit, StatusAssumption
    <3> HIDE DEF sh_exit
    <3>2. QED
      BY <3>1, TypeExitval
  <2> HIDE DEF u
  <2>5. Same(u, s) /\ Still(s)
    BY <2>3, <2>4, SameRest, KeepsSound DEF Same
  <2>6. Sound(stack, u)
    BY <1>1, <2>3, KeepsSound
  <2> HIDE DEF s
  <2>7. QED
    BY <2>2, <2>3, <2>5, <2>6, PointKinds, GoesSame
<1>14. CASE Error
  BY <1>1, <1>14, SignalExitSafe DEF Error
<1>15. CASE SetErrexit
  <2>1. PICK on \in BOOLEAN : Goto(Post(TRUE), stack, [sh EXCEPT !.errexit = on])
    BY <1>15 DEF SetErrexit
  <2>2. QED
    BY <1>1, <2>1, SameRest, PointKinds, GoesSame
<1>16. QED
  BY <1>6, <1>7, <1>8, <1>9, <1>10, <1>11, <1>12, <1>13, <1>14, <1>15

(* The last part of b_trap. *)
LEMMA KeepsRecompute ==
    ASSUME NEW s \in Shell
    PROVE  Same(s, Recompute(s))
BY SameScoped DEF Recompute

(* The trap built-in, which the DEBUG handlers of these programs do not use. *)
LEMMA TrapSafe ==
    ASSUME HInv, TrapSignal \/ TrapErr \/ TrapDebug
    PROVE  Safe(at, stack, sh)' /\ Counted
<1> USE HInvParts
<1>1. Sound(stack, sh) /\ ("trapInDebug" \notin Ops => ~ sh.indebug)
  <2>1. at = Exec /\ TrapAllowed
    BY DEF TrapSignal, TrapErr, TrapDebug, TrapAllowed
  <2>2. QED
    BY <2>1, Before DEF TrapAllowed
<1>2. sent' = sent /\ ran' = ran
  BY DEF TrapSignal, TrapErr, TrapDebug
<1>3. SUFFICES Safe(at, stack, sh)' /\ sh'.pend \subseteq sh.pend
  BY <1>2 DEF Counted, Quiet
<1>4. ASSUME NEW s \in Shell, Sound(stack, s), s.pend \subseteq sh.pend,
             Goto(Post(TRUE), stack, Recompute(s))
      PROVE  Safe(at, stack, sh)' /\ sh'.pend \subseteq sh.pend
  <2>1. Safe(at, stack, sh)' /\ sh'.pend \subseteq s.pend
    BY <1>4, KeepsRecompute, PointKinds, GoesSame
  <2>2. QED
    BY <1>4, <2>1
<1>5. CASE TrapSignal
  <2>1. PICK i \in SigNo, t \in Trap :
          Goto(Post(TRUE), stack,
               Recompute([sh EXCEPT !.trapcom[i] = t, !.st.trapmax = Trapmax(sh, i, t),
                                    !.pend = IF t = None THEN @ \ {i} ELSE @]))
    BY <1>5 DEF TrapSignal
  <2> DEFINE table == [sh.trapcom EXCEPT ![i] = t]
             st == [sh.st EXCEPT !.trapmax = Trapmax(sh, i, t)]
             pend == IF t = None THEN sh.pend \ {i} ELSE sh.pend
             s == [sh EXCEPT !.trapcom = table, !.st = st, !.pend = pend]
  <2>2. Goto(Post(TRUE), stack, Recompute(s))
    <3>1. s = [sh EXCEPT !.trapcom[i] = t, !.st.trapmax = Trapmax(sh, i, t),
                         !.pend = IF t = None THEN @ \ {i} ELSE @]
      BY DEF Shell, Scoped
    <3>2. QED
      BY <2>1, <3>1, Zenon
  <2>3. table \in Table
    BY DEF Shell, Table
  <2>4. st \in Scoped /\ st.trapmax = Trapmax(sh, i, t) /\ Trapmax(sh, i, t) \in Nat
        /\ (t \in Handler => i < Trapmax(sh, i, t)) /\ sh.st.trapmax <= Trapmax(sh, i, t)
        /\ sh.st.trapmax \in Nat
    <3>1. sh.st \in Scoped /\ sh.st.trapmax \in Nat /\ i \in Nat
      BY TypeDepths, SigAssumption DEF Scoped, SigNo
    <3>2. /\ Trapmax(sh, i, t) \in Nat /\ (t \in Handler => i < Trapmax(sh, i, t))
          /\ sh.st.trapmax <= Trapmax(sh, i, t)
      BY <3>1, TrapAssumption DEF Trapmax
    <3>3. QED
      BY <3>1, <3>2 DEF Scoped
  <2>5. pend \subseteq sh.pend
    OBVIOUS
  <2>6. \A j \in SigNo : table[j] = IF j = i THEN t ELSE sh.trapcom[j]
    BY DEF Shell, Table
  <2> HIDE DEF table, st, pend
  <2>7. /\ s \in Shell /\ s.trapcom = table /\ s.st = st /\ s.pend = pend
        /\ s.indebug = sh.indebug /\ s.indone = sh.indone /\ s.cursig = sh.cursig
    BY <2>3, <2>4, <2>5 DEF Shell
  <2> HIDE DEF s
  <2>8. Reached(stack, s)
    <3>1. SUFFICES ASSUME "trapInDebug" \notin Ops
                   PROVE  Reached(stack, s)
      BY DEF Reached
    <3>2. Reached(stack, sh) /\ ~ sh.indebug
      BY <1>1, <3>1 DEF Sound, Clean
    <3>3. Covers(s.trapcom, s.st.trapmax)
      <4>1. ASSUME NEW j \in SigNo, s.trapcom[j] \in Handler
            PROVE  j < s.st.trapmax
        <5>1. CASE j = i
          BY <2>4, <2>6, <2>7, <4>1, <5>1
        <5>2. CASE j # i
          <6>1. sh.trapcom[j] \in Handler
            BY <2>6, <2>7, <4>1, <5>2
          <6>2. j < sh.st.trapmax /\ j \in Nat
            BY <3>1, <3>2, <6>1, SigAssumption DEF Reached, Covers, SigNo
          <6>3. QED
            BY <2>4, <2>7, <6>2
        <5>3. QED
          BY <5>1, <5>2
      <4>2. QED
        BY <4>1 DEF Covers
    <3>4. QED
      BY <3>1, <3>2, <3>3 DEF Reached
  <2>9. Sound(stack, s)
    BY <1>1, <2>7, <2>8 DEF Sound, Clean, Held, Still
  <2>10. QED
    BY <1>4, <2>2, <2>5, <2>7, <2>9
<1>6. CASE TrapErr
  <2>1. PICK t \in Handler \cup {None} :
          Goto(Post(TRUE), stack, Recompute([sh EXCEPT !.st.err = t]))
    BY <1>6 DEF TrapErr
  <2>2. [sh EXCEPT !.st.err = t] \in Shell
    BY TypeMember
  <2>3. Same(sh, [sh EXCEPT !.st.err = t])
    BY SameScoped
  <2>4. QED
    BY <1>1, <1>4, <2>1, <2>2, <2>3, KeepsSound DEF Same
<1>7. CASE TrapDebug
  <2>1. PICK t \in Handler \cup {None} :
          Goto(Post(TRUE), stack,
               Recompute([sh EXCEPT !.st.debug = t,
                            !.trapnote = IF t = None THEN {} ELSE @ \cup {"SIGTRAP"}]))
    BY <1>7 DEF TrapDebug
  <2> DEFINE u == [sh EXCEPT !.st.debug = t]
             note == IF t = None THEN {} ELSE u.trapnote \cup {"SIGTRAP"}
             s == [u EXCEPT !.trapnote = note]
  <2>2. u \in Shell
    BY TypeMember
  <2>3. Same(sh, u)
    BY SameScoped
  <2>4. Goto(Post(TRUE), stack, Recompute(s))
    BY <2>1, Zenon
  <2>5. s \in Shell
    <3> HIDE DEF u
    <3>1. QED
      BY <2>2 DEF Shell
  <2>6. Same(sh, s)
    <3> HIDE DEF u, note
    <3>1. QED
      BY <2>2, <2>3, SameRest, SameTransitive
  <2> HIDE DEF s
  <2>7. QED
    BY <1>1, <1>4, <2>4, <2>5, <2>6, KeepsSound DEF Same
<1>8. QED
  BY <1>5, <1>6, <1>7

(* Calls. *)
LEMMA CallSafe ==
    ASSUME HInv, CallFunction \/ CallPosix
    PROVE  Safe(at, stack, sh)' /\ Counted
<1> USE HInvParts
<1>1. Sound(stack, sh)
  <2>1. at = Exec
    BY DEF CallFunction, CallPosix
  <2>2. QED
    BY <2>1, Before
<1>2. sent' = sent /\ ran' = ran
  BY DEF CallFunction, CallPosix
<1>3. SUFFICES Safe(at, stack, sh)' /\ sh'.pend \subseteq sh.pend
  BY <1>2 DEF Counted, Quiet
<1>4. CASE CallFunction
  <2> DEFINE f == [kind |-> "fun", mode |-> JmpFun, prevst |-> sh.st,
                   savsig |-> sh.trapcom, options |-> sh.errexit]
             l == [sh EXCEPT !.st.loopcnt = 0]
             e == [l EXCEPT !.errexit = FALSE]
             inner == sh_sigreset(e, -1)
             b == IF FuncTrace THEN sh.st.debug ELSE None
             s == [inner EXCEPT !.st.debug = b]
             n == s.fn_depth + 1
             t == [s EXCEPT !.fn_depth = n]
             k == Append(stack, f)
  <2>1. f.kind = "fun" /\ f.savsig = sh.trapcom /\ f.prevst = sh.st
    OBVIOUS
  <2>2. s \in Shell /\ Same(sh, s)
    <3>1. l \in Shell
      BY TypeMember
    <3>2. Same(sh, l)
      BY SameScoped
    <3>3. e \in Shell /\ Same(l, e)
      <4> HIDE DEF l
      <4>1. QED
        BY <3>1, TypeErrexit, SameRest
    <3>4. inner \in Shell /\ Same(e, inner)
      <4> HIDE DEF e
      <4>1. QED
        BY <3>3, TypeSigreset, KeepsReset DEF Same
    <3>5. b \in Handler \cup {None}
      BY TypeDepths DEF Scoped
    <3>6. s \in Shell
      <4> HIDE DEF inner, b
      <4>1. QED
        BY <3>4, <3>5, TypeMember
    <3>7. Same(inner, s)
      <4> HIDE DEF inner, b
      <4>1. QED
        BY <3>4, SameScoped
    <3> HIDE DEF l, e, inner, s
    <3>8. QED
      BY <3>2, <3>3, <3>4, <3>6, <3>7, SameTransitive
  <2>3. Same(sh, t)
    <3> HIDE DEF s, n
    <3>1. QED
      BY <2>2, SameRest, SameTransitive
  <2>4. Sound(k, sh)
    <3>1. /\ Len(stack) \in Nat /\ Len(k) = Len(stack) + 1 /\ k[Len(stack) + 1] = f
          /\ \A j \in 1..Len(stack) : k[j] = stack[j]
      BY Pushed
    <3> HIDE DEF f
    <3>2. Reached(k, sh)
      <4>1. SUFFICES ASSUME "trapInDebug" \notin Ops
                     PROVE  Reached(k, sh)
        BY DEF Reached
      <4>2. Reached(stack, sh)
        BY <1>1 DEF Sound, Clean
      <4> HIDE DEF k
      <4>3. \A j \in 1..Len(k) : (j \in 1..Len(stack) /\ k[j] = stack[j])
                                   \/ (j = Len(stack) + 1 /\ k[j] = f)
        BY <3>1
      <4>4. \A j \in 1..Len(k) : k[j].kind = "fun" => Covers(k[j].savsig, k[j].prevst.trapmax)
        BY <2>1, <4>1, <4>2, <4>3 DEF Reached
      <4>5. ASSUME NEW j \in 1..Len(k), k[j].kind = "DEBUG"
            PROVE  /\ sh.indebug /\ Covers(sh.trapcom, k[j].savst.trapmax)
                   /\ \A m \in 1..Len(k) : m > j =>
                         /\ k[m].kind # "DEBUG"
                         /\ k[m].kind = "fun" => Covers(k[m].savsig, k[j].savst.trapmax)
        <5>1. j \in 1..Len(stack) /\ k[j] = stack[j]
          BY <2>1, <4>3, <4>5
        <5>2. /\ sh.indebug /\ Covers(sh.trapcom, k[j].savst.trapmax)
              /\ \A m \in 1..Len(stack) : m > j =>
                    /\ stack[m].kind # "DEBUG"
                    /\ stack[m].kind = "fun" => Covers(stack[m].savsig, k[j].savst.trapmax)
          BY <4>1, <4>2, <4>5, <5>1 DEF Reached
        <5>3. QED
          BY <2>1, <4>3, <5>2
      <4>6. QED
        BY <4>1, <4>2, <4>4, <4>5 DEF Reached
    <3>3. Held(k, sh)
      BY <1>1, <2>1, HeldPush DEF Sound, Clean, Resumes
    <3>4. Marked(k) /\ (sh.indone => Base(k))
      BY <1>1, <2>1, MarkedPush DEF Sound, Clean, OfDone
    <3>5. QED
      BY <3>2, <3>3, <3>4 DEF Sound, Clean
  <2>5. CASE sh.fn_depth >= MAXDEPTH
    <3>1. Goto(Jump(JmpErrFn), k, s)
      BY <1>4, <2>5 DEF CallFunction
    <3>2. Still(s)
      <4>1. Room /\ sh.fn_depth \in Int
        BY <1>4, TypeDepths DEF CallFunction
      <4>2. QED
        BY <2>5, <4>1, DepthBound, BoundAssumption DEF Still, Below
    <3> HIDE DEF s, k
    <3>3. QED
      BY <2>2, <2>4, <3>1, <3>2, PointKinds, GoesSame
  <2>6. CASE ~(sh.fn_depth >= MAXDEPTH)
    <3>1. Goto(Cmd, k, t)
      BY <1>4, <2>6 DEF CallFunction
    <3> HIDE DEF t, k
    <3>2. QED
      BY <2>3, <2>4, <3>1, PointKinds, GoesSame
  <2>7. QED
    BY <2>5, <2>6
<1>5. CASE CallPosix
  <2> DEFINE f == [kind |-> "posix", mode |-> JmpFun, loopcnt |-> sh.st.loopcnt]
             s == [sh EXCEPT !.st.loopcnt = 0]
             n == s.dot_depth + 1
             t == [s EXCEPT !.dot_depth = n]
  <2>1. s \in Shell
    BY TypeMember
  <2>2. Same(sh, s)
    BY SameScoped
  <2>3. CASE sh.dot_depth >= MAXDEPTH
    <3>1. SignalExit(stack, s)
      BY <1>5, <2>3 DEF CallPosix
    <3> HIDE DEF s
    <3>2. Sound(stack, s)
      BY <1>1, <2>2, KeepsSound DEF Same
    <3>3. QED
      BY <2>1, <2>2, <3>1, <3>2, SignalExitSafe DEF Same
  <2>4. CASE ~(sh.dot_depth >= MAXDEPTH)
    <3>1. Goto(Cmd, Append(stack, f), t)
      BY <1>5, <2>4 DEF CallPosix
    <3>2. f.kind = "posix"
      OBVIOUS
    <3> HIDE DEF f
    <3>3. f.kind \notin {"fun", "DEBUG", "SIG"} /\ ~ OfDone(f) /\ ~ Resumes(f)
      BY <3>2 DEF OfDone, Resumes
    <3>4. Sound(Append(stack, f), sh)
      BY <1>1, <3>3, SoundPush
    <3>5. Same(sh, t)
      <4> HIDE DEF s, n
      <4>1. QED
        BY <2>1, <2>2, SameRest, SameTransitive
    <3> HIDE DEF t
    <3>6. QED
      BY <3>1, <3>4, <3>5, PointKinds, GoesSame
  <2>5. QED
    BY <2>3, <2>4
<1>6. QED
  BY <1>4, <1>5

(* The ends of bodies and handlers. *)
LEMMA EndSafe ==
    ASSUME HInv, LoopEnd \/ EvalEnd \/ PosixEnd \/ FunctionEnd \/ TrapEnd
    PROVE  Safe(at, stack, sh)' /\ Counted
<1> USE HInvParts
<1>1. Sound(stack, sh)
  <2>1. at = Cmd
    BY DEF LoopEnd, EvalEnd, PosixEnd, FunctionEnd, TrapEnd
  <2>2. QED
    BY <2>1, Before
<1>2. CASE LoopEnd
  <2> DEFINE b == IF sh.st.breakcnt < 0 THEN sh.st.breakcnt + 1 ELSE sh.st.breakcnt
             c == IF b > 0 THEN b - 1 ELSE b
             s == [sh EXCEPT !.st.breakcnt = c]
             t == [s EXCEPT !.st.loopcnt = @ - 1]
             z == [sh EXCEPT !.st.breakcnt = 0]
  <2>1. \/ Goto(Cmd, stack, z)
        \/ Goto(Post(FALSE), Pop(stack), t)
    BY <1>2, Zenon DEF LoopEnd
  <2>2. c \in Int
    BY TypeDepths DEF Scoped
  <2>3. Same(sh, z)
    BY SameScoped
  <2>4. s \in Shell
    <3> HIDE DEF c
    <3>1. QED
      BY <2>2, TypeMember
  <2>5. Same(sh, s)
    <3> HIDE DEF c
    <3>1. QED
      BY SameScoped
  <2>6. Same(sh, t)
    <3> DEFINE d == s.st.loopcnt - 1
    <3>1. t = [s EXCEPT !.st.loopcnt = d]
      BY Zenon
    <3> HIDE DEF s, d
    <3>2. Same(s, [s EXCEPT !.st.loopcnt = d])
      BY <2>4, SameScoped
    <3>3. QED
      BY <2>5, <3>1, <3>2, SameTransitive
  <2>7. Sound(Pop(stack), sh)
    BY <1>1, <1>2, SoundPop DEF LoopEnd, OfDone
  <2> HIDE DEF t, z
  <2>8. Safe(at, stack, sh)' /\ sh'.pend \subseteq sh.pend
    BY <1>1, <2>1, <2>3, <2>6, <2>7, PointKinds, GoesSame
  <2>9. QED
    BY <1>2, <2>8 DEF LoopEnd, Counted, Quiet
<1>3. CASE EvalEnd
  <2>1. Sound(Pop(stack), sh)
    BY <1>1, <1>3, SoundPop DEF EvalEnd, OfDone
  <2>2. Safe(at, stack, sh)' /\ sh'.pend = sh.pend
    BY <1>3, <2>1, PointKinds, GoesSound DEF EvalEnd
  <2>3. QED
    BY <1>3, <2>2 DEF EvalEnd, Counted, Quiet
<1>4. CASE PosixEnd
  <2>1. Safe(at, stack, sh)' /\ sh'.pend \subseteq sh.pend
    BY <1>1, <1>4, PosixLeaveSafe DEF PosixEnd
  <2>2. QED
    BY <1>4, <2>1 DEF PosixEnd, Counted, Quiet
<1>5. CASE FunctionEnd
  BY <1>1, <1>5, FunctionLeaveSafe DEF FunctionEnd, Counted
<1>6. CASE TrapEnd
  BY <1>1, <1>6, TrapReturnSafe DEF TrapEnd, Counted
<1>7. QED
  BY <1>2, <1>3, <1>4, <1>5, <1>6

(* A jump reaches a checkpoint below the outermost one: no handler is named. *)
LEMMA UnwindSafe ==
    ASSUME HInv,
           \/ UnwindLoop \/ UnwindEval \/ UnwindBuiltin
           \/ UnwindPosix \/ UnwindFunction \/ UnwindTrap
    PROVE  Safe(at, stack, sh)' /\ Counted
<1> USE HInvParts
<1>1. at.pc = "jump"
  BY DEF UnwindLoop, UnwindEval, UnwindBuiltin, UnwindPosix, UnwindFunction, UnwindTrap
<1>2. Sound(stack, sh) /\ Still(sh) /\ ~ Ends(at) /\ at.val \in JmpVal
  BY <1>1, Before, PointParts
<1>3. ASSUME Top(stack).kind \in {"loop", "eval", "cmd"}, NEW p, p = at \/ p = Post(TRUE),
             Goto(p, Pop(stack), sh), UNCHANGED <<sent, ran>>
      PROVE  Safe(at, stack, sh)' /\ Counted
  <2>1. Sound(Pop(stack), sh)
    BY <1>2, <1>3, SoundPop DEF OfDone
  <2>2. Safe(at, stack, sh)' /\ sh'.pend = sh.pend
    BY <1>2, <1>3, <2>1, PointKinds, GoesSound
  <2>3. QED
    BY <1>3, <2>2 DEF Counted, Quiet
<1>4. CASE UnwindLoop
  BY <1>3, <1>4 DEF UnwindLoop
<1>5. CASE UnwindEval
  BY <1>3, <1>5 DEF UnwindEval
<1>6. CASE UnwindBuiltin
  <2>1. PICK special \in BOOLEAN :
          Goto(IF at.val <= JmpCmd /\ ~special THEN Post(TRUE) ELSE at, Pop(stack), sh)
    BY <1>6 DEF UnwindBuiltin
  <2>2. QED
    BY <1>3, <1>6, <2>1 DEF UnwindBuiltin
<1>7. CASE UnwindPosix
  <2>1. Safe(at, stack, sh)' /\ sh'.pend \subseteq sh.pend
    BY <1>2, <1>7, PosixLeaveSafe DEF UnwindPosix
  <2>2. QED
    BY <1>7, <2>1 DEF UnwindPosix, Counted, Quiet
<1>8. CASE UnwindFunction
  BY <1>2, <1>8, FunctionLeaveSafe DEF UnwindFunction, Counted
<1>9. CASE UnwindTrap
  <2>1. CASE at.val <= JmpTrap \/ sh.indone
    BY <1>2, <1>9, <2>1, TrapReturnSafe DEF UnwindTrap, Counted
  <2>2. CASE ~(at.val <= JmpTrap \/ sh.indone)
    <3> DEFINE s == LeaveTrap(sh, Top(stack))
    <3>1. Goto(at, Pop(stack), s) /\ sent' = sent /\ ran' = ran
      BY <1>9, <2>2 DEF UnwindTrap
    <3>2. Keeps(sh, s) /\ s.pend = sh.pend
      BY KeepsLeave
    <3> HIDE DEF s
    <3>3. Sound(stack, s) /\ Still(s) /\ ~ s.indone
      BY <1>2, <2>2, <3>2, KeepsSound DEF Keeps
    <3>4. Sound(Pop(stack), s)
      BY <1>9, <3>3, CleanPop DEF UnwindTrap, TrapKinds, Sound
    <3>5. Safe(at, stack, sh)' /\ sh'.pend = s.pend
      BY <1>2, <3>1, <3>3, <3>4, GoesSound
    <3>6. QED
      BY <3>1, <3>2, <3>5 DEF Counted, Quiet
  <2>3. QED
    BY <2>1, <2>2
<1>10. QED
  BY <1>4, <1>5, <1>6, <1>7, <1>8, <1>9

(* A signal arrives, at any point. *)
LEMMA SignalSafe ==
    ASSUME HInv, NEW i \in Sig, Signal(i)
    PROVE  Safe(at, stack, sh)' /\ Counted
<1> USE HInvParts
<1> DEFINE s == sh_fault(sh, stack, i)
           k == fault_frames(sh, stack, i)
<1>1. /\ s \in Shell /\ k \in Stack /\ Keeps(sh, s) /\ s.pend \subseteq sh.pend \cup {i}
      /\ Len(k) = Len(stack) /\ Clean(k, s) /\ (Sound(stack, sh) => Sound(k, s))
  BY FaultSafe DEF Safe
<1>2. at # Exited /\ sent' = [sent EXCEPT ![i] = @ + 1] /\ ran' = ran
  BY DEF Signal
<1>3. SUFFICES Safe(at, stack, sh)' /\ sh'.pend \subseteq sh.pend \cup {i}
  BY <1>2 DEF Counted, Arrives
<1>4. CASE sh.trapcom[i] \in Handler /\ Top(stack).mode = JmpCmd
  <2> DEFINE e == [sh_exit(s) EXCEPT !.exitval = 1]
  <2>1. Goto(Jump(JmpCmd), k, e)
    BY <1>4 DEF Signal
  <2>2. ~ Ends(at)
    <3>1. SUFFICES ASSUME Ends(at)
                   PROVE  FALSE
      OBVIOUS
    <3>2. Len(stack) = 1 /\ stack[1].mode \in MainModes
      BY <3>1 DEF Safe, Clean, Marked
    <3>3. QED
      BY <1>4, <3>2, Numbers DEF Top
  <2> HIDE DEF s, k
  <2>3. Keeps(s, e) /\ Still(e) /\ e.pend = s.pend
    BY <1>1, KeepsExit
  <2> HIDE DEF e
  <2>4. Sound(k, e)
    BY <1>1, <1>2, <2>2, <2>3, KeepsSound
  <2>5. Safe(at, stack, sh)' /\ sh'.pend = e.pend
    BY <2>1, <2>3, <2>4, PointKinds, GoesSound
  <2>6. QED
    BY <1>1, <2>3, <2>5
<1>5. CASE ~(sh.trapcom[i] \in Handler /\ Top(stack).mode = JmpCmd)
  <2>1. Goto(at, k, s)
    BY <1>5 DEF Signal
  <2> HIDE DEF s, k
  <2>2. Jumps(at) => Still(s)
    BY <1>1, KeepsSound DEF Safe
  <2>3. Safe(at, k, s)
    <3>1. CASE Ends(at)
      BY <1>1, <2>2, <3>1 DEF Safe
    <3>2. CASE ~ Ends(at)
      BY <1>1, <1>2, <2>2, <3>2, SoundSafe
    <3>3. QED
      BY <3>1, <3>2
  <2>4. Safe(at, stack, sh)' /\ sh'.pend = s.pend
    BY <2>1, <2>3, GoesSafe
  <2>5. QED
    BY <1>1, <2>4
<1>6. QED
  BY <1>4, <1>5

-------------------------------------------------------------------------------
(* The theorems. *)

(* The invariant holds when exfile starts. *)
LEMMA HInvInit == Init => HInv
<1> SUFFICES ASSUME Init
             PROVE  HInv
  OBVIOUS
<1> DEFINE f == [kind |-> "main", mode |-> IF Interactive THEN JmpErrExit ELSE JmpExit]
<1>1. IInv
  BY IInvInit
<1>2. stack = <<f>>
  BY DEF Init
<1>3. f.kind = "main" /\ f.mode \in MainModes
  BY DEF MainModes
<1> HIDE DEF f
<1>4. Len(stack) = 1 /\ stack[1] = f /\ 1..Len(stack) = {1}
  BY <1>2
<1>5. /\ sh.trapcom = [i \in SigNo |-> None] /\ sh.pend = {} /\ sh.cursig = -1
      /\ sh.indone = FALSE
  BY DEF Init
<1>6. Reached(stack, sh)
  BY <1>3, <1>4, <1>5, TrapAssumption DEF Reached, Covers
<1>7. Held(stack, sh) /\ Still(sh)
  BY <1>5 DEF Held, Still
<1>8. Marked(stack)
  BY <1>3, <1>4 DEF Marked, OfDone
<1>9. ~ Ends(at)
  BY PointKinds DEF Init
<1>10. Safe(at, stack, sh)
  BY <1>5, <1>6, <1>7, <1>8, <1>9 DEF Safe, Clean
<1>11. Handled
  BY <1>5 DEF Init, Handled
<1>12. QED
  BY <1>1, <1>10, <1>11 DEF HInv

(* Every step of the interpreter and every signal preserves it. *)
LEMMA HInvNext == HInv /\ [Next]_vars => HInv'
<1> SUFFICES ASSUME HInv, [Next]_vars
             PROVE  HInv'
  OBVIOUS
<1>1. IInv /\ IInv' /\ Handled
  BY IInvNext DEF HInv
<1>2. ASSUME Safe(at, stack, sh)', Counted \/ Starts
      PROVE  HInv'
  BY <1>1, <1>2, HandledNext DEF HInv
<1>3. CASE Step
  <2>1. CASE NextLine \/ ReadLine \/ EndOfInput \/ SigCheck \/ UnwindMain
    BY <1>2, <2>1, MainSafe
  <2>2. CASE \/ SimpleCommand \/ LoopStart \/ Simple \/ BuiltinStart \/ BuiltinEnd
             \/ EvalStart \/ Break \/ ReturnOrExit \/ Error \/ SetErrexit
    BY <1>2, <2>2, CommandSafe
  <2>3. CASE TrapSignal \/ TrapErr \/ TrapDebug
    BY <1>2, <2>3, TrapSafe
  <2>4. CASE CallFunction \/ CallPosix
    BY <1>2, <2>4, CallSafe
  <2>5. CASE LoopEnd \/ EvalEnd \/ PosixEnd \/ FunctionEnd \/ TrapEnd
    BY <1>2, <2>5, EndSafe
  <2>6. CASE \/ UnwindLoop \/ UnwindEval \/ UnwindBuiltin
             \/ UnwindPosix \/ UnwindFunction \/ UnwindTrap
    BY <1>2, <2>6, UnwindSafe
  <2>7. CASE ScanNext \/ ScanEnd \/ PostExec
    BY <1>2, <2>7, ScanSafe
  <2>8. QED
    BY <1>3, <2>1, <2>2, <2>3, <2>4, <2>5, <2>6, <2>7 DEF Step
<1>4. ASSUME NEW i \in Sig, Signal(i)
      PROVE  HInv'
  BY <1>2, <1>4, SignalSafe
<1>5. CASE UNCHANGED vars
  BY <1>1, <1>5 DEF vars, HInv, Handled, Safe
<1>6. QED
  BY <1>3, <1>4, <1>5 DEF Next

(* The inductive invariant is an invariant. *)
LEMMA HInvHolds == Spec => []HInv
BY HInvInit, HInvNext, PTL DEF Spec

(* As long as no DEBUG handler uses the trap built-in, every handler lies below
   trapmax, so sh_chktrap and sh_sigreset reach it, through all the saves and
   restores of sh.st and the table by functions and handlers. *)
THEOREM TrapmaxReaches ==
    ASSUME "trapInDebug" \notin Ops
    PROVE  Spec => []TrapmaxCovers
<1>1. HInv => TrapmaxCovers
  BY DEF HInv, Safe, Clean, Reached, Covers, TrapmaxCovers
<1>2. QED
  BY <1>1, HInvHolds, PTL

(* However sh_fault and sh_chktrap interleave, a delivered signal runs its handler
   at most once. *)
THEOREM DeliveryHandledOnce == Spec => []HandledOnce
<1>1. HInv => HandledOnce
  <2>1. SUFFICES ASSUME HInv, NEW i \in Sig
                 PROVE  ran[i] <= sent[i]
    BY DEF HandledOnce
  <2>2. ran[i] \in Nat /\ sent[i] \in Nat
    BY <2>1, HInvParts
  <2>3. QED
    BY <2>1, <2>2 DEF HInv, Handled
<1>2. QED
  BY <1>1, HInvHolds, PTL

(* Below the recursion limit, the guard against re-entry of sh_chktrap names a
   handler that is running: sh_exit and every way out of a handler take it back. *)
THEOREM CursigNamesRunning ==
    ASSUME MaxFrames <= MAXDEPTH
    PROVE  Spec => []CursigHeld
<1>1. HInv => CursigHeld
  BY DEF HInv, Safe, Clean, Held, Still, Below, CursigHeld
<1>2. QED
  BY <1>1, HInvHolds, PTL

(* Once sh_done has begun, no error, exit or signal in a handler that it runs takes
   the shell back to its command loop. *)
THEOREM EndIsFinal == Spec => []DoneIsFinal
<1>1. HInv => DoneIsFinal
  <2>1. SUFFICES ASSUME HInv, sh.indone, at.pc = "jump" \/ at = Cmd
                 PROVE  Len(stack) > 1 /\ Top(stack).kind # "main"
    BY DEF DoneIsFinal
  <2>2. Base(stack) /\ stack \in Stack
    BY <2>1, HInvParts, Before DEF Sound
  <2>3. Len(stack) > 1
    BY <2>2 DEF Base
  <2>4. ASSUME Top(stack).kind = "main"
        PROVE  FALSE
    <3>1. Len(stack) = 1
      BY <2>2, <2>4, MainAlone
    <3>2. QED
      BY <2>3, <3>1
  <2>5. QED
    BY <2>3, <2>4
<1>2. QED
  BY <1>1, HInvHolds, PTL
================================================================================
