--------------------------- MODULE TrapGuards_proofs ---------------------------
(***************************************************************************)
(* Proofs about two guards of TrapFrames that are saved and restored with  *)
(* sh.st: the flag that keeps the shell from being replaced while a trap   *)
(* waits for it, and the count of the loops that break and continue may    *)
(* leave; and that the trap handlers are scoped to functions.              *)
(***************************************************************************)
EXTENDS TrapFrames_proofs, WellFoundedInduction

-------------------------------------------------------------------------------
(* The flag. *)

(* With handlers in the table the flag is set. *)
Kept(st, table) == st.trapdontexec # "on" => \A i \in SigNo : table[i] \notin Handler

NoFun(k) == \A j \in 1..Len(k) : k[j].kind # "fun"
Outermost(k, j) == k[j].kind = "fun" /\ \A m \in 1..Len(k) : m < j => k[m].kind # "fun"

(* It matters outside of KornShell functions only: so what the first of them has saved must
   agree with the table that was saved along with it, and what a DEBUG handler will put back
   with the table that there will be then, which is the same one. *)
Guarded(k, s) ==
    /\ NoFun(k) => Kept(s.st, s.trapcom)
    /\ \A j \in 1..Len(k) : Outermost(k, j) => Kept(k[j].prevst, k[j].savsig)
    /\ \A j \in 1..Len(k) : k[j].kind = "DEBUG" =>
          /\ NoFun(k) => Kept(k[j].savst, s.trapcom)
          /\ \A m \in 1..Len(k) : m > j /\ Outermost(k, m) => Kept(k[j].savst, k[m].savsig)

(* What t does not disturb. *)
KeepsOn(s, t) ==
    /\ \A i \in SigNo : t.trapcom[i] \in Handler => s.trapcom[i] \in Handler
    /\ s.st.trapdontexec = "on" => t.st.trapdontexec = "on"

(* So what was guarded stays so. *)
LEMMA KeepsGuarded ==
    ASSUME NEW k, NEW s, NEW t, Guarded(k, s), KeepsOn(s, t)
    PROVE  Guarded(k, t)
BY DEF Guarded, KeepsOn, Kept

(* And it is there after a step that goes where it says. *)
LEMMA GoesOn ==
    ASSUME NEW p, NEW k, NEW s, NEW t, Guarded(k, s), KeepsOn(s, t), Goto(p, k, t)
    PROVE  Guarded(stack, sh)'
<1>1. Guarded(k, t)
  BY KeepsGuarded
<1>2. stack' = k /\ sh' = t
  BY DEF Goto
<1>3. QED
  BY <1>1, <1>2 DEF Guarded, NoFun, Outermost, Kept

(* Two such changes make one, and none is one. *)
LEMMA OnTransitive ==
    /\ \A s : KeepsOn(s, s)
    /\ \A s, t, u : KeepsOn(s, t) /\ KeepsOn(t, u) => KeepsOn(s, u)
BY DEF KeepsOn

(* Changes of other members of Shell_t. *)
LEMMA OnRest ==
    ASSUME NEW s \in Shell, NEW x
    PROVE  /\ KeepsOn(s, [s EXCEPT !.exitval = x]) /\ KeepsOn(s, [s EXCEPT !.lastsig = x])
           /\ KeepsOn(s, [s EXCEPT !.trapnote = x]) /\ KeepsOn(s, [s EXCEPT !.errexit = x])
           /\ KeepsOn(s, [s EXCEPT !.fn_depth = x]) /\ KeepsOn(s, [s EXCEPT !.dot_depth = x])
           /\ KeepsOn(s, [s EXCEPT !.intrap = x]) /\ KeepsOn(s, [s EXCEPT !.intrap_exit_n = x])
           /\ KeepsOn(s, [s EXCEPT !.cursig = x]) /\ KeepsOn(s, [s EXCEPT !.pend = x])
           /\ KeepsOn(s, [s EXCEPT !.indebug = x]) /\ KeepsOn(s, [s EXCEPT !.indone = x])
BY DEF Shell, KeepsOn

(* And of sh.st. *)
LEMMA OnScoped ==
    ASSUME NEW s \in Shell, NEW x
    PROVE  /\ KeepsOn(s, [s EXCEPT !.st.breakcnt = x]) /\ KeepsOn(s, [s EXCEPT !.st.loopcnt = x])
           /\ KeepsOn(s, [s EXCEPT !.st.err = x]) /\ KeepsOn(s, [s EXCEPT !.st.debug = x])
BY DEF Shell, Scoped, KeepsOn

(* sh_exit, and a handler's begin and end. *)
LEMMA OnExit ==
    ASSUME NEW s \in Shell, NEW x
    PROVE  KeepsOn(s, sh_exit(s)) /\ KeepsOn(s, [sh_exit(s) EXCEPT !.exitval = x])
BY DEF sh_exit, KeepsOn, Shell

LEMMA OnEnter ==
    ASSUME NEW s \in Shell
    PROVE  KeepsOn(s, EnterTrap(s))
BY DEF EnterTrap, KeepsOn, Shell, Scoped

LEMMA OnLeave ==
    ASSUME NEW s \in Shell, NEW f
    PROVE  KeepsOn(s, LeaveTrap(s, f))
BY DEF LeaveTrap, KeepsOn, Shell, Scoped

(* A signal that is noted. *)
LEMMA OnFault ==
    ASSUME NEW s \in Shell, NEW k, NEW i
    PROVE  KeepsOn(s, sh_fault(s, k, i))
BY DEF sh_fault, KeepsOn, Shell

-------------------------------------------------------------------------------
(* The chain. *)

(* Most activations do not matter. *)
LEMMA GuardedPush ==
    ASSUME NEW k \in Stack, NEW s, Guarded(k, s), NEW f, f.kind \notin {"fun", "DEBUG"}
    PROVE  Guarded(Append(k, f), s)
<1> DEFINE l == Append(k, f)
<1>1. /\ Len(k) \in Nat /\ Len(l) = Len(k) + 1 /\ l[Len(k) + 1] = f
      /\ \A j \in 1..Len(k) : l[j] = k[j]
  BY Pushed
<1> HIDE DEF l
<1>2. \A j \in 1..Len(l) : (j \in 1..Len(k) /\ l[j] = k[j]) \/ l[j].kind \notin {"fun", "DEBUG"}
  BY <1>1
<1>3. \A j \in 1..Len(k) : j \in 1..Len(l)
  BY <1>1
<1>4. NoFun(l) => NoFun(k)
  BY <1>1, <1>3 DEF NoFun
<1>5. \A j \in 1..Len(l) : Outermost(l, j) => j \in 1..Len(k) /\ l[j] = k[j] /\ Outermost(k, j)
  BY <1>1, <1>2, <1>3 DEF Outermost
<1>6. Guarded(l, s)
  BY <1>2, <1>4, <1>5 DEF Guarded
<1>7. QED
  BY <1>6 DEF l

LEMMA GuardedPop ==
    ASSUME NEW k \in Stack, NEW s, Guarded(k, s), Top(k).kind \notin {"main", "fun"}
    PROVE  Guarded(Pop(k), s)
<1> DEFINE l == Pop(k)
<1>1. /\ Len(k) \in Nat /\ Len(k) > 1 /\ Len(l) = Len(k) - 1 /\ k[Len(k)].kind # "fun"
      /\ \A j \in 1..Len(k) - 1 : l[j] = k[j]
  BY Popped DEF Top
<1> HIDE DEF l
<1>2. \A j \in 1..Len(l) : j \in 1..Len(k) /\ l[j] = k[j]
  BY <1>1
<1>3. \A j \in 1..Len(k) : j = Len(k) \/ j \in 1..Len(l)
  BY <1>1
<1>4. NoFun(l) => NoFun(k)
  BY <1>1, <1>2, <1>3 DEF NoFun
<1>5. \A j \in 1..Len(l) : Outermost(l, j) => Outermost(k, j)
  BY <1>1, <1>2, <1>3 DEF Outermost
<1>6. Guarded(l, s)
  BY <1>2, <1>4, <1>5 DEF Guarded
<1>7. QED
  BY <1>6 DEF l

(* Modes do not matter either. *)
LEMMA GuardedAlike ==
    ASSUME NEW k, NEW l, NEW s, Guarded(k, s), Len(l) = Len(k), \A j \in 1..Len(k) : Alike(k[j], l[j])
    PROVE  Guarded(l, s)
<1>1. NoFun(l) => NoFun(k)
  BY DEF NoFun, Alike
<1>2. \A j \in 1..Len(k) : Outermost(l, j) => Outermost(k, j)
  BY DEF Outermost, Alike
<1>3. QED
  BY <1>1, <1>2 DEF Guarded, Alike, Outermost

LEMMA GuardedMode ==
    ASSUME NEW k \in Stack, NEW s, Guarded(k, s), NEW m
    PROVE  Guarded(SetMode(k, m), s)
<1> DEFINE l == SetMode(k, m)
<1>1. k \in Seq(Frame) /\ Len(k) \in 1..Len(k)
  BY DEF Stack
<1>2. l = [k EXCEPT ![Len(k)] = [k[Len(k)] EXCEPT !.mode = m]]
  BY DEF SetMode
<1>3. Len(l) = Len(k)
  BY <1>1, <1>2
<1>4. \A j \in 1..Len(k) : Alike(k[j], l[j])
  <2>1. \A j \in 1..Len(k) : l[j] = k[j] \/ l[j] = [k[j] EXCEPT !.mode = m]
    BY <1>1, <1>2
  <2>2. \A j \in 1..Len(k) : k[j] \in Frame /\ Alike(k[j], k[j])
    BY <1>1 DEF Alike
  <2>3. \A f \in Frame : Alike(f, [f EXCEPT !.mode = m])
    BY FrameAlike
  <2>4. QED
    BY <2>1, <2>2, <2>3, Zenon
<1> HIDE DEF l
<1>5. QED
  BY <1>3, <1>4, GuardedAlike DEF l

LEMMA GuardedFault ==
    ASSUME NEW k \in Stack, NEW s, Guarded(k, s), NEW t, NEW i
    PROVE  Guarded(fault_frames(t, k, i), s)
BY GuardedMode DEF fault_frames

-------------------------------------------------------------------------------
(* The C functions that steps end with. *)

LEMMA SignalExitOn ==
    ASSUME NEW k, NEW s \in Shell, Guarded(k, s), SignalExit(k, s)
    PROVE  Guarded(stack, sh)'
BY OnExit, GoesOn DEF SignalExit

LEMMA AfterExecOn ==
    ASSUME NEW k, NEW s \in Shell, Guarded(k, s), AfterExec(k, s)
    PROVE  Guarded(stack, sh)'
BY SignalExitOn, OnTransitive, GoesOn DEF AfterExec

LEMMA ErrExitOn ==
    ASSUME NEW k \in Stack, NEW s \in Shell, Guarded(k, s), NEW n, NEW then, ErrExit(k, s, n, then)
    PROVE  Guarded(stack, sh)'
<1>1. CASE s.errexit
  <2>1. Goto(Jump(JmpExit), SetMode(k, JmpExit), sh_exit(s))
    BY <1>1 DEF ErrExit
  <2>2. Guarded(SetMode(k, JmpExit), s)
    BY GuardedMode
  <2>3. QED
    BY <2>1, <2>2, OnExit, GoesOn
<1>2. CASE ~ s.errexit
  BY <1>2, OnTransitive, GoesOn DEF ErrExit
<1>3. QED
  BY <1>1, <1>2

LEMMA ReturnOn ==
    ASSUME NEW k, NEW s \in Shell, NEW then, Guarded(k, s), Return(k, s, then)
    PROVE  Guarded(stack, sh)'
<1>1. CASE then = 0
  BY <1>1, AfterExecOn, Numbers DEF Return
<1>2. CASE then # 0
  <2>1. PICK p : Goto(p, k, s)
    BY <1>2 DEF Return
  <2>2. QED
    BY <2>1, OnTransitive, GoesOn
<1>3. QED
  BY <1>1, <1>2

LEMMA ChktrapOn ==
    ASSUME NEW k \in Stack, NEW s \in Shell, Guarded(k, s), NEW errexit, NEW then,
           sh_chktrap(k, s, errexit, then)
    PROVE  Guarded(stack, sh)'
<1> DEFINE n == IF s.trapnote = {} THEN 0 ELSE s.st.trapmax
           w == s.trapnote \ {"SIGTRAP"}
           c == [s EXCEPT !.trapnote = w]
           f == [kind |-> "ERR", mode |-> JmpEval, savxit |-> c.exitval,
                 nodontexec |-> c.st.trapdontexec = "off",
                 trap |-> c.st.err, note |-> c.trapnote, sig |-> n, then |-> then]
           u == [c EXCEPT !.st.err = None]
           v == u.trapnote \ {"SIGSET"}
           t == [u EXCEPT !.trapnote = v]
<1>1. /\ c \in Shell /\ KeepsOn(s, c)
      /\ u \in Shell /\ KeepsOn(c, u)
      /\ t \in Shell /\ KeepsOn(u, t)
  <2>1. w \in SUBSET {"SIGSET", "SIGTRAP"}
    BY DEF Shell
  <2> HIDE DEF w
  <2>2. c \in Shell /\ KeepsOn(s, c)
    BY <2>1, KeepsNote, OnRest
  <2> HIDE DEF c
  <2>3. u \in Shell
    BY <2>2, TypeMember
  <2>4. KeepsOn(c, u)
    BY <2>2, OnScoped
  <2> HIDE DEF u
  <2>5. v \in SUBSET {"SIGSET", "SIGTRAP"}
    BY <2>3 DEF Shell
  <2> HIDE DEF v
  <2>6. t \in Shell /\ KeepsOn(u, t)
    BY <2>3, <2>5, KeepsNote, OnRest
  <2>7. QED
    BY <2>2, <2>3, <2>4, <2>6
<1>2. \/ Goto(Chk(n, then), k, c)
      \/ ErrExit(k, c, n, then)
      \/ Goto(Cmd, Append(k, f), EnterTrap(t))
  BY DEF sh_chktrap
<1>3. f.kind \notin {"fun", "DEBUG"}
  OBVIOUS
<1> HIDE DEF n, w, c, f, u, v, t
<1>4. CASE Goto(Chk(n, then), k, c)
  BY <1>1, <1>4, GoesOn
<1>5. CASE ErrExit(k, c, n, then)
  BY <1>1, <1>5, KeepsGuarded, ErrExitOn
<1>6. CASE Goto(Cmd, Append(k, f), EnterTrap(t))
  <2>1. KeepsOn(s, EnterTrap(t))
    BY <1>1, OnEnter, OnTransitive
  <2>2. QED
    BY <1>3, <1>6, <2>1, GuardedPush, GoesOn
<1>7. QED
  BY <1>2, <1>4, <1>5, <1>6

LEMMA DoneOn ==
    ASSUME NEW k \in Stack, NEW s \in Shell, Guarded(k, s), sh_done(k, s)
    PROVE  Guarded(stack, sh)'
<1> DEFINE b == [s EXCEPT !.trapnote = {}]
           d == [b EXCEPT !.indone = TRUE]
           f == [kind |-> "DONE", mode |-> JmpEval, savxit |-> d.exitval,
                 nodontexec |-> d.st.trapdontexec = "off"]
           e == [d EXCEPT !.trapcom[0] = None]
<1>1. b \in Shell /\ KeepsOn(s, b)
  BY KeepsNote, OnRest
<1>2. d \in Shell /\ KeepsOn(s, d)
  <2> HIDE DEF b
  <2>1. d \in Shell
    BY <1>1 DEF Shell
  <2>2. KeepsOn(b, d)
    BY <1>1, OnRest
  <2>3. QED
    BY <1>1, <2>1, <2>2, OnTransitive
<1>3. e \in Shell /\ KeepsOn(d, e)
  <2> HIDE DEF d
  <2>1. d.trapcom \in Table /\ None \notin Handler /\ 0 \in SigNo
    BY <1>2, TrapAssumption DEF Shell, SigNo
  <2> DEFINE table == [d.trapcom EXCEPT ![0] = None]
  <2>2. /\ table \in Table
        /\ \A i \in SigNo : table[i] \in Handler => d.trapcom[i] \in Handler
    BY <2>1 DEF Table, Trap
  <2>3. e = [d EXCEPT !.trapcom = table]
    OBVIOUS
  <2> HIDE DEF table, e
  <2>4. e \in Shell /\ e.trapcom = table /\ e.st = d.st
    BY <1>2, <2>2, <2>3 DEF Shell
  <2>5. QED
    BY <2>2, <2>4 DEF KeepsOn
<1>4. \/ sh_chktrap(k, e, FALSE, Done)
      \/ Goto(Exited, k, e)
      \/ Goto(Cmd, Append(k, f), EnterTrap(e))
  BY DEF sh_done
<1>5. f.kind \notin {"fun", "DEBUG"}
  OBVIOUS
<1> HIDE DEF b, d, e, f
<1>6. KeepsOn(s, e) /\ KeepsOn(s, EnterTrap(e))
  BY <1>2, <1>3, OnEnter, OnTransitive
<1>7. CASE sh_chktrap(k, e, FALSE, Done)
  <2>1. Guarded(k, e)
    BY <1>6, KeepsGuarded
  <2>2. \A errexit : sh_chktrap(k, e, errexit, Done) => Guarded(stack, sh)'
    BY <1>3, <2>1, ChktrapOn
  <2>3. QED
    BY <1>7, <2>2, Zenon
<1>8. CASE Goto(Exited, k, e)
  BY <1>6, <1>8, GoesOn
<1>9. CASE Goto(Cmd, Append(k, f), EnterTrap(e))
  BY <1>5, <1>6, <1>9, GuardedPush, GoesOn
<1>10. QED
  BY <1>4, <1>7, <1>8, <1>9

-------------------------------------------------------------------------------
(* Leaving functions and handlers. *)

LEMMA FunctionAfterOn ==
    ASSUME NEW k \in Stack, NEW s \in Shell, Guarded(k, s), NEW v, FunctionAfter(k, s, v)
    PROVE  Guarded(stack, sh)'
<1>1. CASE \E errexit \in BOOLEAN : sh_chktrap(k, s, errexit, v)
  BY <1>1, ChktrapOn
<1>2. CASE Goto(Post(TRUE), fault_frames(s, k, s.lastsig), sh_fault(s, k, s.lastsig))
  BY <1>2, GuardedFault, OnFault, GoesOn
<1>3. CASE Goto(Post(TRUE), k, s)
  BY <1>3, OnTransitive, GoesOn
<1>4. QED
  BY <1>1, <1>2, <1>3 DEF FunctionAfter

(* A function gives back the table that it found, and the flag that goes with it. *)
LEMMA FunctionLeaveOn ==
    ASSUME stack \in Stack, sh \in Shell, Reached(stack, sh), "trapInDebug" \notin Ops,
           Guarded(stack, sh), Top(stack).kind = "fun", NEW v, FunctionLeave(v)
    PROVE  Guarded(stack, sh)'
<1> DEFINE f == Top(stack)
           k == Pop(stack)
           n == sh.fn_depth - 1
           u == [sh EXCEPT !.fn_depth = n]
           left == sh_sigreset(u, 1)
           table == [i \in SigNo |-> IF i < f.prevst.trapmax THEN f.savsig[i] ELSE left.trapcom[i]]
           s == [left EXCEPT !.st = f.prevst, !.errexit = f.options, !.trapnote = {},
                             !.trapcom = table]
           frame == [kind |-> "EXIT", mode |-> JmpEval, savxit |-> s.exitval,
                     nodontexec |-> s.st.trapdontexec = "off", jmpval |-> v]
<1>1. f \in Frame /\ f.kind = "fun" /\ k \in Stack
  BY StackTop, StackPop
<1>2. f.prevst \in Scoped /\ f.savsig \in Table /\ f.options \in BOOLEAN
  BY <1>1, FrameParts
<1>3. u \in Shell /\ KeepsOn(sh, u) /\ u.st = sh.st /\ u.trapcom = sh.trapcom
  <2>1. n \in Int
    BY TypeDepths
  <2> HIDE DEF n
  <2>2. u \in Shell /\ u.st = sh.st /\ u.trapcom = sh.trapcom
    BY <2>1 DEF Shell
  <2>3. QED
    BY <2>2, OnRest
<1>4. \/ SignalExit(stack, u)
      \/ Goto(Cmd, Append(k, frame), EnterTrap(s))
      \/ FunctionAfter(k, s, v)
  BY DEF FunctionLeave
<1>5. /\ left \in Shell
      /\ \A i \in SigNo : left.trapcom[i] \in Handler =>
            u.trapcom[i] \in Handler /\ ~ (i < u.st.trapmax)
  <2> HIDE DEF u
  <2>1. QED
    BY <1>3, TypeSigreset, KeepsReset
<1>6. \A i \in SigNo : left.trapcom[i] \notin Handler
  <2> HIDE DEF u, left
  <2>1. QED
    BY <1>3, <1>5 DEF Reached, Covers
<1>7. /\ s \in Shell /\ s.st = f.prevst
      /\ \A i \in SigNo : s.trapcom[i] \in Handler => f.savsig[i] \in Handler
  <2> HIDE DEF f, left
  <2>1. table \in Table
    BY <1>2, <1>5 DEF Shell, Table
  <2>2. \A i \in SigNo : table[i] \in Handler => f.savsig[i] \in Handler
    BY <1>6
  <2> HIDE DEF table
  <2>3. s \in Shell /\ s.st = f.prevst /\ s.trapcom = table
    BY <1>2, <1>5, <2>1 DEF Shell
  <2>4. QED
    BY <2>2, <2>3
<1>8. frame.kind \notin {"fun", "DEBUG"}
  OBVIOUS
<1>9. /\ Len(stack) \in Nat /\ Len(stack) > 1 /\ Len(k) = Len(stack) - 1
      /\ \A j \in 1..Len(stack) - 1 : k[j] = stack[j]
  BY Popped
<1>10. stack[Len(stack)] = f
  BY DEF Top
<1> HIDE DEF f, k, n, u, left, table, s, frame
<1>11. Guarded(k, s)
  <2>1. /\ Len(stack) \in 1..Len(stack)
        /\ \A j \in 1..Len(k) : j \in 1..Len(stack) /\ k[j] = stack[j] /\ Len(stack) > j
        /\ \A j \in 1..Len(stack) : j < Len(stack) => j \in 1..Len(k)
    BY <1>9
  <2>2. ASSUME NoFun(k)
        PROVE  Outermost(stack, Len(stack))
    BY <1>1, <1>10, <2>1, <2>2 DEF NoFun, Outermost
  <2>3. \A j \in 1..Len(k) : Outermost(k, j) => Outermost(stack, j)
    <3>1. ASSUME NEW j \in 1..Len(k), Outermost(k, j), NEW m \in 1..Len(stack), m < j
          PROVE  stack[m].kind # "fun"
      <4>1. m \in 1..Len(k)
        BY <1>9, <3>1
      <4>2. QED
        BY <2>1, <3>1, <4>1 DEF Outermost
    <3>2. QED
      BY <2>1, <3>1 DEF Outermost
  <2>4. NoFun(k) => Kept(s.st, s.trapcom)
    BY <1>7, <1>10, <2>1, <2>2 DEF Guarded, Kept
  <2>5. \A j \in 1..Len(k) : k[j].kind = "DEBUG" /\ NoFun(k) => Kept(k[j].savst, s.trapcom)
    BY <1>7, <1>10, <2>1, <2>2 DEF Guarded, Kept
  <2>6. QED
    BY <2>1, <2>3, <2>4, <2>5 DEF Guarded
<1>12. CASE SignalExit(stack, u)
  BY <1>3, <1>12, KeepsGuarded, SignalExitOn
<1>13. CASE Goto(Cmd, Append(k, frame), EnterTrap(s))
  BY <1>1, <1>7, <1>8, <1>11, <1>13, GuardedPush, OnEnter, GoesOn
<1>14. CASE FunctionAfter(k, s, v)
  BY <1>1, <1>7, <1>11, <1>14, FunctionAfterOn
<1>15. QED
  BY <1>4, <1>12, <1>13, <1>14

LEMMA PosixLeaveOn ==
    ASSUME stack \in Stack, sh \in Shell, Guarded(stack, sh), Top(stack).kind = "posix",
           NEW v, PosixLeave(v)
    PROVE  Guarded(stack, sh)'
<1> DEFINE f == Top(stack)
           n == sh.dot_depth - 1
           s == [sh EXCEPT !.dot_depth = n]
           t == [s EXCEPT !.st.loopcnt = f.loopcnt]
<1>1. Guarded(Pop(stack), sh)
  BY GuardedPop
<1>2. n \in Int
  BY TypeDepths
<1>3. s \in Shell /\ KeepsOn(sh, s)
  <2> HIDE DEF n
  <2>1. s \in Shell
    BY <1>2 DEF Shell
  <2>2. QED
    BY <2>1, OnRest
<1>4. KeepsOn(sh, t)
  <2> HIDE DEF s
  <2>1. QED
    BY <1>3, OnScoped, OnTransitive
<1>5. Goto(Post(TRUE), Pop(stack), t) \/ Goto(Jump(v), Pop(stack), s)
  BY DEF PosixLeave
<1> HIDE DEF s, t
<1>6. QED
  BY <1>1, <1>3, <1>4, <1>5, GoesOn

LEMMA TrapReturnOn ==
    ASSUME Good(stack, sh), Guarded(stack, sh), Top(stack).kind \in TrapKinds, TrapReturn
    PROVE  Guarded(stack, sh)'
<1> DEFINE f == Top(stack)
           k == Pop(stack)
           s == LeaveTrap(sh, f)
           debug == [s EXCEPT !.indebug = FALSE, !.st = f.savst]
           err == [s EXCEPT !.st.err = f.trap, !.trapnote = f.note]
<1>1. /\ stack \in Stack /\ sh \in Shell /\ f \in Frame /\ s \in Shell /\ k \in Stack
      /\ f.kind \notin {"main", "fun"}
  BY HandlerLeft DEF Good, TrapKinds
<1>2. KeepsOn(sh, s) /\ Guarded(stack, s)
  BY <1>1, OnLeave, KeepsGuarded
<1>3. Guarded(k, s)
  BY <1>1, <1>2, GuardedPop
<1>4. CASE f.kind = "DEBUG"
  <2>1. debug \in Shell /\ debug.st = f.savst /\ debug.trapcom = s.trapcom
    <3>1. f.savst \in Scoped /\ s \in Shell
      BY <1>1, <1>4, FrameParts
    <3> HIDE DEF s, f
    <3>2. QED
      BY <3>1, DebugPutBack
  <2>2. \/ Goto(Jump(JmpFun), k, sh_exit(debug))
        \/ Goto(Post(TRUE), k, [debug EXCEPT !.exitval = 2])
        \/ Goto(Exec, k, debug)
    BY <1>4 DEF TrapReturn
  <2>3. /\ Len(stack) \in Nat /\ Len(stack) \in 1..Len(stack) /\ stack[Len(stack)] = f
        /\ Len(k) = Len(stack) - 1 /\ \A j \in 1..Len(k) : k[j] = stack[j]
    <3>1. Top(stack).kind # "main"
      BY <1>1
    <3>2. QED
      BY <1>1, <3>1, Popped DEF Top
  <2> HIDE DEF debug, s, k, f
  <2>4. NoFun(k) => NoFun(stack)
    <3>1. \A j \in 1..Len(stack) : j = Len(stack) \/ j \in 1..Len(k)
      BY <2>3
    <3>2. QED
      BY <1>4, <2>3, <3>1 DEF NoFun
  <2>5. NoFun(k) => Kept(f.savst, s.trapcom)
    BY <1>2, <1>4, <2>3, <2>4 DEF Guarded
  <2>6. Guarded(k, debug)
    BY <1>3, <2>1, <2>5 DEF Guarded
  <2>7. /\ KeepsOn(debug, debug) /\ KeepsOn(debug, sh_exit(debug))
        /\ KeepsOn(debug, [debug EXCEPT !.exitval = 2])
    BY <2>1, OnExit, OnRest, OnTransitive
  <2>8. CASE Goto(Jump(JmpFun), k, sh_exit(debug))
    BY <2>6, <2>7, <2>8, GoesOn
  <2>9. CASE Goto(Post(TRUE), k, [debug EXCEPT !.exitval = 2])
    BY <2>6, <2>7, <2>9, GoesOn
  <2>10. CASE Goto(Exec, k, debug)
    BY <2>6, <2>7, <2>10, GoesOn
  <2>11. QED
    BY <2>2, <2>8, <2>9, <2>10
<1>5. CASE f.kind = "ERR"
  <2> DEFINE t == [s EXCEPT !.st.err = f.trap]
  <2>1. f.trap \in Handler /\ f.note \in SUBSET {"SIGSET", "SIGTRAP"}
    BY <1>1, <1>5, FrameParts
  <2>2. ErrExit(k, err, f.sig, f.then)
    BY <1>5 DEF TrapReturn
  <2>3. err \in Shell /\ KeepsOn(s, err)
    <3> HIDE DEF s, f
    <3>1. t \in Shell
      BY <1>1, <2>1, TypeMember
    <3>2. KeepsOn(s, t)
      BY <1>1, OnScoped
    <3>3. err = [t EXCEPT !.trapnote = f.note]
      OBVIOUS
    <3> HIDE DEF t
    <3>4. /\ [t EXCEPT !.trapnote = f.note] \in Shell
          /\ KeepsOn(t, [t EXCEPT !.trapnote = f.note])
      BY <2>1, <3>1, KeepsNote, OnRest
    <3>5. QED
      BY <3>2, <3>3, <3>4, OnTransitive
  <2> HIDE DEF err, s, k
  <2>4. QED
    BY <1>1, <1>3, <2>2, <2>3, KeepsGuarded, ErrExitOn
<1>6. CASE f.kind = "SIG"
  <2>1. Goto(Chk(f.sig, f.then), k, [s EXCEPT !.cursig = -1])
    BY <1>6 DEF TrapReturn
  <2> HIDE DEF s, k
  <2>2. QED
    BY <1>1, <1>3, <2>1, OnRest, GoesOn
<1>7. CASE f.kind = "EXIT"
  <2>1. FunctionAfter(k, s, f.jmpval)
    BY <1>7 DEF TrapReturn
  <2> HIDE DEF s, k
  <2>2. QED
    BY <1>1, <1>3, <2>1, FunctionAfterOn
<1>8. CASE f.kind = "DONE"
  <2>1. Goto(Exited, k, s)
    BY <1>8 DEF TrapReturn
  <2> HIDE DEF s, k
  <2>2. QED
    BY <1>3, <2>1, OnTransitive, GoesOn
<1>9. QED
  BY <1>4, <1>5, <1>6, <1>7, <1>8 DEF TrapKinds

-------------------------------------------------------------------------------
(* The steps of the interpreter. *)

LEMMA ScanOn ==
    ASSUME HInv, Guarded(stack, sh), ScanNext \/ ScanEnd \/ PostExec
    PROVE  Guarded(stack, sh)'
<1> USE HInvParts
<1>1. CASE ScanNext
  <2>1. PICK i \in Due : RunTrap(i) \/ SkipTrap(i)
    BY <1>1 DEF ScanNext
  <2> DEFINE taken == Taken(sh, i)
             t == [taken EXCEPT !.cursig = i]
             n == IF sh.trapcom[i] = Ignore THEN -1 ELSE taken.cursig
             u == [taken EXCEPT !.cursig = n]
             f == SigFrameOf(sh, i)
  <2>2. i \in Sig /\ taken \in Shell /\ KeepsOn(sh, taken)
    BY OnRest DEF Due, Shell, Taken
  <2>3. t \in Shell /\ KeepsOn(sh, t)
    <3> HIDE DEF taken
    <3>1. t \in Shell
      BY <2>2 DEF Shell
    <3>2. QED
      BY <2>2, <3>1, OnRest, OnTransitive
  <2>4. KeepsOn(sh, u)
    <3> HIDE DEF taken, n
    <3>1. QED
      BY <2>2, OnRest, OnTransitive
  <2>5. f.kind \notin {"fun", "DEBUG"}
    BY DEF SigFrameOf
  <2>6. CASE RunTrap(i)
    <3>1. Goto(Cmd, Append(stack, f), EnterTrap(t))
      BY <2>6 DEF RunTrap
    <3> HIDE DEF f, t
    <3>2. KeepsOn(sh, EnterTrap(t))
      BY <2>3, OnEnter, OnTransitive
    <3>3. QED
      BY <2>5, <3>1, <3>2, GuardedPush, GoesOn
  <2>7. CASE SkipTrap(i)
    <3>1. Goto(Chk(i, at.then), stack, u)
      BY <2>7 DEF SkipTrap
    <3> HIDE DEF u
    <3>2. QED
      BY <2>4, <3>1, GoesOn
  <2>8. QED
    BY <2>1, <2>6, <2>7
<1>2. CASE ScanEnd
  BY <1>2, ReturnOn DEF ScanEnd
<1>3. CASE PostExec
  <2>1. PICK errexit \in BOOLEAN : sh_chktrap(stack, sh, errexit, 0) \/ AfterExec(stack, sh)
    BY <1>3 DEF PostExec
  <2>2. QED
    BY <2>1, ChktrapOn, AfterExecOn
<1>4. QED
  BY <1>1, <1>2, <1>3

LEMMA MainOn ==
    ASSUME HInv, Guarded(stack, sh), NextLine \/ ReadLine \/ EndOfInput \/ SigCheck \/ UnwindMain
    PROVE  Guarded(stack, sh)'
<1> USE HInvParts
<1> DEFINE b == [sh EXCEPT !.st.breakcnt = 0]
           n == [b EXCEPT !.trapnote = {}]
           l == [b EXCEPT !.st.loopcnt = 0]
           t == [l EXCEPT !.trapnote = {}]
           u == [t EXCEPT !.intrap = 0]
<1>1. b \in Shell /\ KeepsOn(sh, b)
  <2>1. b \in Shell
    BY TypeMember
  <2>2. QED
    BY <2>1, OnScoped
<1>2. KeepsOn(sh, n)
  <2> HIDE DEF b
  <2>1. QED
    BY <1>1, OnRest, OnTransitive
<1>3. l \in Shell /\ KeepsOn(sh, l)
  <2> HIDE DEF b
  <2>1. l \in Shell
    BY <1>1, TypeMember
  <2>2. QED
    BY <1>1, <2>1, OnScoped, OnTransitive
<1>4. t \in Shell /\ KeepsOn(sh, t)
  <2> HIDE DEF l
  <2>1. t \in Shell
    BY <1>3, KeepsNote
  <2>2. QED
    BY <1>3, <2>1, OnRest, OnTransitive
<1>5. KeepsOn(sh, u)
  <2> HIDE DEF t
  <2>1. QED
    BY <1>4, OnRest, OnTransitive
<1>6. CASE NextLine
  <2> DEFINE m == IF Top(stack).mode = JmpExit THEN JmpErrExit ELSE Top(stack).mode
  <2>1. Goto(Read, SetMode(stack, m), n) \/ Goto(Cmd, stack, b)
    BY <1>6 DEF NextLine
  <2>2. Guarded(SetMode(stack, m), sh)
    BY GuardedMode
  <2> HIDE DEF m, n, b
  <2>3. QED
    BY <1>1, <1>2, <2>1, <2>2, GoesOn
<1>7. CASE ReadLine
  <2>1. \/ SignalExit(stack, sh)
        \/ \E errexit \in BOOLEAN : sh_chktrap(stack, sh, errexit, Reading)
        \/ Goto(Cmd, stack, sh)
    BY <1>7 DEF ReadLine
  <2>2. QED
    BY <2>1, SignalExitOn, ChktrapOn, OnTransitive, GoesOn
<1>8. CASE EndOfInput
  BY <1>8, DoneOn DEF EndOfInput
<1>9. CASE SigCheck
  BY <1>9, SignalExitOn DEF SigCheck
<1>10. CASE UnwindMain
  <2>1. sh_done(stack, b) \/ Goto(Cmd, stack, u)
    BY <1>10 DEF UnwindMain
  <2> HIDE DEF b, u
  <2>2. QED
    BY <1>1, <1>5, <2>1, KeepsGuarded, DoneOn, GoesOn
<1>11. QED
  BY <1>6, <1>7, <1>8, <1>9, <1>10

LEMMA CommandOn ==
    ASSUME HInv, Guarded(stack, sh), "trapInDebug" \notin Ops,
           \/ SimpleCommand \/ LoopStart \/ Simple \/ BuiltinStart \/ BuiltinEnd
           \/ EvalStart \/ Break \/ ReturnOrExit \/ Error \/ SetErrexit
    PROVE  Guarded(stack, sh)'
<1> USE HInvParts
<1>1. Started \in Shell /\ KeepsOn(sh, Started)
  <2> DEFINE u == [sh EXCEPT !.lastsig = 0]
  <2>1. u \in Shell /\ KeepsOn(sh, u)
    BY OnRest DEF Shell, SigNo
  <2>2. Started = [u EXCEPT !.exitval = 0]
    BY Zenon DEF Started
  <2> HIDE DEF u
  <2>3. KeepsOn(u, Started)
    BY <2>1, <2>2, OnRest
  <2>4. QED
    BY <2>1, <2>3, TypeStarted, OnTransitive
(* A plain activation is pushed. *)
<1>2. ASSUME NEW c \in {"loop", "eval", "cmd"}, NEW m, NEW t, KeepsOn(sh, t), NEW p,
             Goto(p, Append(stack, [kind |-> c, mode |-> m]), t)
      PROVE  Guarded(stack, sh)'
  <2> DEFINE f == [kind |-> c, mode |-> m]
  <2>1. f.kind \notin {"fun", "DEBUG"}
    OBVIOUS
  <2> HIDE DEF f
  <2>2. Guarded(Append(stack, f), sh)
    BY <2>1, GuardedPush
  <2>3. QED
    BY <1>2, <2>2, GoesOn DEF f
<1>3. CASE SimpleCommand
  <2>1. CASE sh.st.debug = None \/ sh.indebug
    <3>1. Goto(Exec, stack, Started)
      BY <1>3, <2>1 DEF SimpleCommand
    <3>2. QED
      BY <1>1, <3>1, GoesOn
  <2>2. CASE ~(sh.st.debug = None \/ sh.indebug)
    <3> DEFINE f == [kind |-> "DEBUG", mode |-> JmpEval, savxit |-> 0,
                     nodontexec |-> sh.st.trapdontexec = "off",
                     savst |-> sh.st]
               u == [Started EXCEPT !.indebug = TRUE]
               t == [u EXCEPT !.st.debug = None]
               l == Append(stack, f)
    <3>1. Goto(Cmd, l, EnterTrap(t))
      BY <1>3, <2>2 DEF SimpleCommand
    <3>2. f.kind = "DEBUG" /\ f.savst = sh.st
      OBVIOUS
    <3>3. /\ u \in Shell /\ KeepsOn(Started, u)
          /\ t \in Shell /\ KeepsOn(u, t)
      <4>1. u \in Shell /\ KeepsOn(Started, u)
        BY <1>1, OnRest DEF Shell
      <4> HIDE DEF u
      <4>2. t \in Shell
        BY <4>1, TypeMember
      <4>3. QED
        BY <4>1, <4>2, OnScoped
    <3> HIDE DEF f, u, t
    <3>4. KeepsOn(sh, EnterTrap(t))
      BY <1>1, <3>3, OnEnter, OnTransitive
    <3>5. /\ Len(stack) \in Nat /\ Len(l) = Len(stack) + 1 /\ l[Len(stack) + 1] = f
          /\ \A j \in 1..Len(stack) : l[j] = stack[j]
      BY Pushed
    <3> HIDE DEF l
    <3>6. \A j \in 1..Len(l) : \/ j \in 1..Len(stack) /\ l[j] = stack[j]
                               \/ j = Len(stack) + 1 /\ l[j] = f
      BY <3>5
    <3>7. \A j \in 1..Len(stack) : j \in 1..Len(l)
      BY <3>5
    <3>8. \A j \in 1..Len(stack) : stack[j].kind # "DEBUG"
      BY <2>2 DEF Safe, Clean, Reached
    <3>9. NoFun(l) => NoFun(stack)
      BY <3>5, <3>7 DEF NoFun
    <3>10. \A j \in 1..Len(l) : Outermost(l, j) =>
              j \in 1..Len(stack) /\ l[j] = stack[j] /\ Outermost(stack, j)
      BY <3>2, <3>5, <3>6, <3>7 DEF Outermost
    <3>11. \A j \in 1..Len(l) : l[j].kind = "DEBUG" => j = Len(stack) + 1 /\ l[j] = f
      BY <3>6, <3>8
    <3>12. ~ \E m \in 1..Len(stack) : m > Len(stack) + 1
      BY <3>5
    <3>13. Guarded(l, sh)
      BY <3>2, <3>9, <3>10, <3>11, <3>12 DEF Guarded
    <3>14. QED
      BY <3>1, <3>4, <3>13, GoesOn
  <2>3. QED
    BY <2>1, <2>2
<1>4. CASE LoopStart
  <2> DEFINE t == [Started EXCEPT !.st.loopcnt = @ + 1]
             n == Started.st.loopcnt + 1
             u == [Started EXCEPT !.st.loopcnt = n]
  <2>1. Goto(Cmd, Append(stack, [kind |-> "loop", mode |-> Top(stack).mode]), t)
    BY <1>4 DEF LoopStart
  <2>2. KeepsOn(Started, u)
    <3> HIDE DEF n
    <3>1. QED
      BY <1>1, OnScoped
  <2>3. t = u
    BY Zenon
  <2>4. KeepsOn(sh, t)
    BY <1>1, <2>2, <2>3, OnTransitive
  <2> HIDE DEF t
  <2>5. QED
    BY <1>2, <2>1, <2>4
<1>5. CASE Simple
  BY <1>5, OnRest, GoesOn DEF Simple
<1>6. CASE BuiltinStart
  BY <1>2, <1>6, OnTransitive DEF BuiltinStart
<1>7. CASE BuiltinEnd
  <2>1. CASE SignalExit(stack, sh)
    BY <2>1, SignalExitOn
  <2>2. ASSUME NEW x \in Status, Goto(Post(TRUE), Pop(stack), [sh EXCEPT !.exitval = x])
        PROVE  Guarded(stack, sh)'
    <3>1. Top(stack).kind = "cmd"
      BY <1>7 DEF BuiltinEnd, IInv
    <3>2. Guarded(Pop(stack), sh)
      BY <3>1, GuardedPop
    <3>3. QED
      BY <2>2, <3>2, OnRest, GoesOn
  <2>3. QED
    BY <1>7, <2>1, <2>2 DEF BuiltinEnd
<1>8. CASE EvalStart
  BY <1>2, <1>8, OnTransitive DEF EvalStart
<1>9. CASE Break
  <2>1. PICK b : Goto(Post(TRUE), stack, [sh EXCEPT !.st.breakcnt = b])
    BY <1>9 DEF Break
  <2>2. QED
    BY <2>1, OnScoped, GoesOn
<1>10. CASE ReturnOrExit
  <2>1. PICK exit \in BOOLEAN, x \in Status, operand \in BOOLEAN :
          LET do_exit == exit \/ (sh.fn_depth = 0 /\ sh.dot_depth = 0)
          IN Goto(Jump(IF do_exit THEN JmpExit ELSE JmpFun), stack,
                  [sh_exit(sh) EXCEPT !.exitval = x,
                      !.intrap_exit_n = @ \/ (do_exit /\ operand /\ sh.intrap > 0)])
    BY <1>10 DEF ReturnOrExit
  <2> DEFINE do_exit == exit \/ (sh.fn_depth = 0 /\ sh.dot_depth = 0)
             v == IF do_exit THEN JmpExit ELSE JmpFun
             e == sh.intrap_exit_n \/ (do_exit /\ operand /\ sh.intrap > 0)
             u == [sh_exit(sh) EXCEPT !.exitval = x]
             s == [u EXCEPT !.intrap_exit_n = e]
  <2>2. Goto(Jump(v), stack, s)
    BY <2>1 DEF sh_exit
  <2> HIDE DEF v, e
  <2>3. u \in Shell /\ KeepsOn(sh, u)
    <3>1. sh_exit(sh) \in Shell /\ x \in 0..255 /\ KeepsOn(sh, u)
      BY TypeExit, StatusAssumption, OnExit
    <3> HIDE DEF sh_exit
    <3>2. QED
      BY <3>1, TypeExitval
  <2> HIDE DEF u
  <2>4. KeepsOn(sh, s)
    BY <2>3, OnRest, OnTransitive
  <2> HIDE DEF s
  <2>5. QED
    BY <2>2, <2>4, GoesOn
<1>11. CASE Error
  BY <1>11, SignalExitOn DEF Error
<1>12. CASE SetErrexit
  BY <1>12, OnRest, GoesOn DEF SetErrexit
<1>13. QED
  BY <1>3, <1>4, <1>5, <1>6, <1>7, <1>8, <1>9, <1>10, <1>11, <1>12

(* A chain without KornShell functions. *)
LEMMA Depthless ==
    ASSUME NEW k, NEW s, Good(k, s), MaxFrames <= MAXDEPTH
    PROVE  s.fn_depth = 0 <=> NoFun(k)
<1> DEFINE S == {j \in 1..Len(k) : k[j].kind \in {"fun"}}
<1>1. s.fn_depth = Cardinality(S) /\ Len(k) \in Nat
  BY DEF Good, Agree, Count, Stack
<1>2. IsFiniteSet(S)
  <2>1. IsFiniteSet(1..Len(k)) /\ S \subseteq 1..Len(k)
    BY <1>1, FS_Interval
  <2>2. QED
    BY <2>1, FS_Subset
<1>3. Cardinality(S) = 0 <=> S = {}
  BY <1>2, FS_EmptySet
<1>4. S = {} <=> NoFun(k)
  BY DEF NoFun
<1>5. QED
  BY <1>1, <1>3, <1>4

(* Outside of functions b_trap sets the flag anew. *)
LEMMA RecomputeKept ==
    ASSUME NEW s \in Shell, s.fn_depth = 0
    PROVE  Kept(Recompute(s).st, Recompute(s).trapcom)
BY DEF Recompute, Kept, Shell, Scoped

(* The trap built-in, which no DEBUG handler uses: the tables that are saved stay. *)
LEMMA TrapOn ==
    ASSUME HInv, Guarded(stack, sh), "trapInDebug" \notin Ops, MaxFrames <= MAXDEPTH,
           TrapSignal \/ TrapErr \/ TrapDebug
    PROVE  Guarded(stack, sh)'
<1> USE HInvParts
<1>1. \A j \in 1..Len(stack) : stack[j].kind # "DEBUG"
  BY DEF TrapSignal, TrapErr, TrapDebug, TrapAllowed, Safe, Clean, Reached
<1>2. NoFun(stack) => sh.fn_depth = 0
  BY Depthless
<1>3. ASSUME NEW s \in Shell, s.fn_depth = sh.fn_depth,
             Goto(Post(TRUE), stack, Recompute(s))
      PROVE  Guarded(stack, sh)'
  <2> DEFINE r == Recompute(s)
  <2>1. NoFun(stack) => Kept(r.st, r.trapcom)
    BY <1>2, <1>3, RecomputeKept
  <2>2. Goto(Post(TRUE), stack, r)
    BY <1>3
  <2> HIDE DEF r
  <2>3. Guarded(stack, r)
    BY <1>1, <2>1 DEF Guarded
  <2>4. QED
    BY <2>2, <2>3, OnTransitive, GoesOn
<1>4. CASE TrapSignal
  <2>1. PICK i \in SigNo, t \in Trap :
          Goto(Post(TRUE), stack,
               Recompute([sh EXCEPT !.trapcom[i] = t, !.st.trapmax = Trapmax(sh, i, t),
                                    !.pend = IF t = None THEN @ \ {i} ELSE @]))
    BY <1>4 DEF TrapSignal
  <2> DEFINE table == [sh.trapcom EXCEPT ![i] = t]
             st == [sh.st EXCEPT !.trapmax = Trapmax(sh, i, t)]
             pend == IF t = None THEN sh.pend \ {i} ELSE sh.pend
             s == [sh EXCEPT !.trapcom = table, !.st = st, !.pend = pend]
  <2>2. Goto(Post(TRUE), stack, Recompute(s))
    <3>1. s = [sh EXCEPT !.trapcom[i] = t, !.st.trapmax = Trapmax(sh, i, t),
                         !.pend = IF t = None THEN @ \ {i} ELSE @]
      BY DEF Shell, Scoped
    <3>2. QED
      BY <2>1, <3>1, Zenon
  <2>3. table \in Table /\ pend \in SUBSET Sig
    BY DEF Shell, Table
  <2>4. st \in Scoped
    <3>1. sh.st \in Scoped /\ sh.st.trapmax \in Nat /\ i \in Nat
      BY TypeDepths, SigAssumption DEF Scoped, SigNo
    <3>2. Trapmax(sh, i, t) \in Nat
      BY <3>1 DEF Trapmax
    <3>3. QED
      BY <3>1, <3>2 DEF Scoped
  <2> HIDE DEF table, st, pend
  <2>5. s \in Shell /\ s.fn_depth = sh.fn_depth
    BY <2>3, <2>4 DEF Shell
  <2> HIDE DEF s
  <2>6. QED
    BY <1>3, <2>2, <2>5
<1>5. CASE TrapErr
  <2>1. PICK t \in Handler \cup {None} :
          Goto(Post(TRUE), stack, Recompute([sh EXCEPT !.st.err = t]))
    BY <1>5 DEF TrapErr
  <2> DEFINE s == [sh EXCEPT !.st.err = t]
  <2>2. s \in Shell
    BY TypeMember
  <2>3. s.fn_depth = sh.fn_depth
    BY DEF Shell
  <2>4. QED
    BY <1>3, <2>1, <2>2, <2>3
<1>6. CASE TrapDebug
  <2>1. PICK t \in Handler \cup {None} :
          Goto(Post(TRUE), stack,
               Recompute([sh EXCEPT !.st.debug = t,
                            !.trapnote = IF t = None THEN {} ELSE @ \cup {"SIGTRAP"}]))
    BY <1>6 DEF TrapDebug
  <2> DEFINE u == [sh EXCEPT !.st.debug = t]
             note == IF t = None THEN {} ELSE u.trapnote \cup {"SIGTRAP"}
             s == [u EXCEPT !.trapnote = note]
  <2>2. u \in Shell /\ u.fn_depth = sh.fn_depth
    <3>1. u \in Shell
      BY TypeMember
    <3>2. u.fn_depth = sh.fn_depth
      BY DEF Shell
    <3>3. QED
      BY <3>1, <3>2
  <2>3. Goto(Post(TRUE), stack, Recompute(s))
    BY <2>1, Zenon
  <2>4. s \in Shell /\ s.fn_depth = sh.fn_depth
    <3> HIDE DEF u
    <3>1. QED
      BY <2>2 DEF Shell
  <2> HIDE DEF s
  <2>5. QED
    BY <1>3, <2>3, <2>4
<1>7. QED
  BY <1>4, <1>5, <1>6

(* A call saves the flag together with the table. *)
LEMMA CallOn ==
    ASSUME HInv, Guarded(stack, sh), CallFunction \/ CallPosix
    PROVE  Guarded(stack, sh)'
<1> USE HInvParts
<1>1. CASE CallFunction
  <2> DEFINE f == [kind |-> "fun", mode |-> JmpFun, prevst |-> sh.st,
                   savsig |-> sh.trapcom, options |-> sh.errexit]
             k == Append(stack, f)
  <2>1. PICK p, t : Goto(p, k, t)
    BY <1>1 DEF CallFunction
  <2>2. f.kind = "fun" /\ f.savsig = sh.trapcom /\ f.prevst = sh.st
    OBVIOUS
  <2>3. /\ Len(stack) \in Nat /\ Len(k) = Len(stack) + 1 /\ k[Len(stack) + 1] = f
        /\ \A j \in 1..Len(stack) : k[j] = stack[j]
    BY Pushed
  <2> HIDE DEF f, k
  <2>4. \A j \in 1..Len(k) : \/ j \in 1..Len(stack) /\ k[j] = stack[j]
                             \/ j = Len(stack) + 1 /\ k[j] = f
    BY <2>3
  <2>5. /\ \A j \in 1..Len(stack) : j \in 1..Len(k) /\ j < Len(stack) + 1
        /\ Len(stack) + 1 \in 1..Len(k)
    BY <2>3
  <2>6. ~ NoFun(k)
    BY <2>2, <2>3, <2>5 DEF NoFun
  <2>7. \A j \in 1..Len(k) : Outermost(k, j) =>
            \/ j \in 1..Len(stack) /\ Outermost(stack, j) /\ k[j] = stack[j]
            \/ k[j] = f /\ NoFun(stack)
    BY <2>3, <2>4, <2>5 DEF Outermost, NoFun
  <2>8. \A j \in 1..Len(k) : k[j].kind = "DEBUG" => j \in 1..Len(stack) /\ k[j] = stack[j]
    BY <2>2, <2>4
  <2>9. Guarded(k, t)
    BY <2>2, <2>6, <2>7, <2>8 DEF Guarded
  <2>10. QED
    BY <2>1, <2>9, OnTransitive, GoesOn
<1>2. CASE CallPosix
  <2> DEFINE f == [kind |-> "posix", mode |-> JmpFun, loopcnt |-> sh.st.loopcnt]
             s == [sh EXCEPT !.st.loopcnt = 0]
             n == s.dot_depth + 1
             t == [s EXCEPT !.dot_depth = n]
  <2>1. s \in Shell
    BY TypeMember
  <2>2. KeepsOn(sh, s)
    BY OnScoped
  <2>3. KeepsOn(sh, t)
    <3> HIDE DEF s, n
    <3>1. QED
      BY <2>1, <2>2, OnRest, OnTransitive
  <2>4. SignalExit(stack, s) \/ Goto(Cmd, Append(stack, f), t)
    BY <1>2 DEF CallPosix
  <2>5. f.kind \notin {"fun", "DEBUG"}
    OBVIOUS
  <2> HIDE DEF s, f, t
  <2>6. CASE SignalExit(stack, s)
    BY <2>1, <2>2, <2>6, KeepsGuarded, SignalExitOn
  <2>7. CASE Goto(Cmd, Append(stack, f), t)
    BY <2>3, <2>5, <2>7, GuardedPush, GoesOn
  <2>8. QED
    BY <2>4, <2>6, <2>7
<1>3. QED
  BY <1>1, <1>2

LEMMA EndOn ==
    ASSUME HInv, Guarded(stack, sh), "trapInDebug" \notin Ops,
           LoopEnd \/ EvalEnd \/ PosixEnd \/ FunctionEnd \/ TrapEnd
    PROVE  Guarded(stack, sh)'
<1> USE HInvParts
<1>1. CASE LoopEnd
  <2> DEFINE b == IF sh.st.breakcnt < 0 THEN sh.st.breakcnt + 1 ELSE sh.st.breakcnt
             c == IF b > 0 THEN b - 1 ELSE b
             s == [sh EXCEPT !.st.breakcnt = c]
             t == [s EXCEPT !.st.loopcnt = @ - 1]
             z == [sh EXCEPT !.st.breakcnt = 0]
  <2>1. \/ Goto(Cmd, stack, z)
        \/ Goto(Post(FALSE), Pop(stack), t)
    BY <1>1, Zenon DEF LoopEnd
  <2>2. c \in Int
    BY TypeDepths DEF Scoped
  <2>3. KeepsOn(sh, z)
    BY OnScoped
  <2>4. s \in Shell
    <3> HIDE DEF c
    <3>1. QED
      BY <2>2, TypeMember
  <2>5. KeepsOn(sh, s)
    <3> HIDE DEF c
    <3>1. QED
      BY OnScoped
  <2>6. KeepsOn(sh, t)
    <3> DEFINE d == s.st.loopcnt - 1
    <3>1. t = [s EXCEPT !.st.loopcnt = d]
      BY Zenon
    <3> HIDE DEF s, d
    <3>2. KeepsOn(s, [s EXCEPT !.st.loopcnt = d])
      BY <2>4, OnScoped
    <3>3. QED
      BY <2>5, <3>1, <3>2, OnTransitive
  <2>7. Guarded(Pop(stack), sh)
    BY <1>1, GuardedPop DEF LoopEnd
  <2> HIDE DEF t, z
  <2>8. QED
    BY <2>1, <2>3, <2>6, <2>7, GoesOn
<1>2. CASE EvalEnd
  BY <1>2, GuardedPop, OnTransitive, GoesOn DEF EvalEnd
<1>3. CASE PosixEnd
  BY <1>3, PosixLeaveOn DEF PosixEnd
<1>4. CASE FunctionEnd
  BY <1>4, FunctionLeaveOn DEF FunctionEnd, Safe, Clean
<1>5. CASE TrapEnd
  BY <1>5, TrapReturnOn DEF TrapEnd
<1>6. QED
  BY <1>1, <1>2, <1>3, <1>4, <1>5

LEMMA UnwindOn ==
    ASSUME HInv, Guarded(stack, sh), "trapInDebug" \notin Ops,
           \/ UnwindLoop \/ UnwindEval \/ UnwindBuiltin
           \/ UnwindPosix \/ UnwindFunction \/ UnwindTrap
    PROVE  Guarded(stack, sh)'
<1> USE HInvParts
<1>1. ASSUME Top(stack).kind \in {"loop", "eval", "cmd"}, NEW p, Goto(p, Pop(stack), sh)
      PROVE  Guarded(stack, sh)'
  BY <1>1, GuardedPop, OnTransitive, GoesOn
<1>2. CASE UnwindLoop
  BY <1>1, <1>2 DEF UnwindLoop
<1>3. CASE UnwindEval
  BY <1>1, <1>3 DEF UnwindEval
<1>4. CASE UnwindBuiltin
  BY <1>1, <1>4 DEF UnwindBuiltin
<1>5. CASE UnwindPosix
  BY <1>5, PosixLeaveOn DEF UnwindPosix
<1>6. CASE UnwindFunction
  BY <1>6, FunctionLeaveOn DEF UnwindFunction, Safe, Clean
<1>7. CASE UnwindTrap
  <2>1. CASE TrapReturn
    BY <1>7, <2>1, TrapReturnOn DEF UnwindTrap
  <2>2. CASE Goto(at, Pop(stack), LeaveTrap(sh, Top(stack)))
    <3>1. Guarded(Pop(stack), sh)
      BY <1>7, GuardedPop DEF UnwindTrap, TrapKinds
    <3>2. QED
      BY <2>2, <3>1, OnLeave, GoesOn
  <2>3. QED
    BY <1>7, <2>1, <2>2 DEF UnwindTrap
<1>8. QED
  BY <1>2, <1>3, <1>4, <1>5, <1>6, <1>7

LEMMA SignalOn ==
    ASSUME HInv, Guarded(stack, sh), NEW i \in Sig, Signal(i)
    PROVE  Guarded(stack, sh)'
<1> USE HInvParts
<1> DEFINE s == sh_fault(sh, stack, i)
           k == fault_frames(sh, stack, i)
<1>1. Guarded(k, sh)
  BY GuardedFault
<1>2. s \in Shell /\ KeepsOn(sh, s)
  BY FaultSafe, OnFault DEF Safe
<1>3. KeepsOn(s, [sh_exit(s) EXCEPT !.exitval = 1])
  <2> HIDE DEF s
  <2>1. QED
    BY <1>2, OnExit
<1>4. \/ Goto(Jump(JmpCmd), k, [sh_exit(s) EXCEPT !.exitval = 1])
      \/ Goto(at, k, s)
  BY DEF Signal
<1> HIDE DEF s, k
<1>5. QED
  BY <1>1, <1>2, <1>3, <1>4, OnTransitive, GoesOn

(* The inductive invariant. *)
GInv == HInv /\ Guarded(stack, sh)

LEMMA GInvInit == Init => GInv
<1> SUFFICES ASSUME Init
             PROVE  GInv
  OBVIOUS
<1> DEFINE f == [kind |-> "main", mode |-> IF Interactive THEN JmpErrExit ELSE JmpExit]
<1>1. stack = <<f>> /\ f.kind = "main"
  BY DEF Init
<1> HIDE DEF f
<1>2. Len(stack) = 1 /\ stack[1] = f /\ 1..Len(stack) = {1}
  BY <1>1
<1>3. sh.trapcom = [i \in SigNo |-> None]
  BY DEF Init
<1>4. Guarded(stack, sh)
  BY <1>1, <1>2, <1>3, TrapAssumption DEF Guarded, Outermost, Kept
<1>5. QED
  BY <1>4, HInvInit DEF GInv

LEMMA GInvNext ==
    ASSUME "trapInDebug" \notin Ops, MaxFrames <= MAXDEPTH
    PROVE  GInv /\ [Next]_vars => GInv'
<1> SUFFICES ASSUME HInv, Guarded(stack, sh), [Next]_vars
             PROVE  Guarded(stack, sh)'
  BY HInvNext DEF GInv
<1>1. CASE Step
  <2>1. CASE NextLine \/ ReadLine \/ EndOfInput \/ SigCheck \/ UnwindMain
    BY <2>1, MainOn
  <2>2. CASE \/ SimpleCommand \/ LoopStart \/ Simple \/ BuiltinStart \/ BuiltinEnd
             \/ EvalStart \/ Break \/ ReturnOrExit \/ Error \/ SetErrexit
    BY <2>2, CommandOn
  <2>3. CASE TrapSignal \/ TrapErr \/ TrapDebug
    BY <2>3, TrapOn
  <2>4. CASE CallFunction \/ CallPosix
    BY <2>4, CallOn
  <2>5. CASE LoopEnd \/ EvalEnd \/ PosixEnd \/ FunctionEnd \/ TrapEnd
    BY <2>5, EndOn
  <2>6. CASE \/ UnwindLoop \/ UnwindEval \/ UnwindBuiltin
             \/ UnwindPosix \/ UnwindFunction \/ UnwindTrap
    BY <2>6, UnwindOn
  <2>7. CASE ScanNext \/ ScanEnd \/ PostExec
    BY <2>7, ScanOn
  <2>8. QED
    BY <1>1, <2>1, <2>2, <2>3, <2>4, <2>5, <2>6, <2>7 DEF Step
<1>2. ASSUME NEW i \in Sig, Signal(i)
      PROVE  Guarded(stack, sh)'
  BY <1>2, SignalOn
<1>3. CASE UNCHANGED vars
  BY <1>3 DEF vars, Guarded, NoFun, Outermost, Kept
<1>4. QED
  BY <1>1, <1>2, <1>3 DEF Next

(* Below the recursion limit, and as long as no DEBUG handler uses the trap built-in,
   the flag that sh_exec tests is set whenever an EXIT or signal handler is, so the
   shell is not replaced by its last command: sh_funscope puts the flag back with the
   table it belongs to, a DEBUG handler with the table it found, and sh_trap takes it
   back only when it has set it itself. *)
THEOREM HandlersKeepShell ==
    ASSUME "trapInDebug" \notin Ops, MaxFrames <= MAXDEPTH
    PROVE  Spec => []ExecGuard
<1>1. GInv => ExecGuard
  <2>1. SUFFICES ASSUME GInv, sh.fn_depth = 0, sh.st.trapdontexec = "off"
                 PROVE  \A i \in SigNo : sh.trapcom[i] \notin Handler
    BY DEF ExecGuard
  <2>2. Good(stack, sh)
    BY <2>1, HInvParts DEF GInv
  <2>3. NoFun(stack)
    BY <2>1, <2>2, Depthless
  <2>4. QED
    BY <2>1, <2>3 DEF GInv, Guarded, Kept
<1>2. QED
  BY <1>1, GInvInit, GInvNext, PTL DEF Spec

-------------------------------------------------------------------------------
(* The loops that enclose the activation that follows the first n. *)
CallKinds == {"fun", "posix"}
Loops(k, n) ==
    Cardinality({j \in 1..n : /\ k[j].kind = "loop"
                              /\ \A i \in 1..n : k[i].kind \in CallKinds => i < j})

(* Activation by activation. *)
LEMMA LoopsNext ==
    ASSUME NEW k, NEW n \in Nat
    PROVE  /\ Loops(k, n) \in Nat
           /\ Loops(k, n + 1) = IF k[n + 1].kind = "loop" THEN Loops(k, n) + 1
                                ELSE IF k[n + 1].kind \in CallKinds THEN 0 ELSE Loops(k, n)
<1> DEFINE S == {j \in 1..n : /\ k[j].kind = "loop"
                              /\ \A i \in 1..n : k[i].kind \in CallKinds => i < j}
           T == {j \in 1..n + 1 : /\ k[j].kind = "loop"
                                  /\ \A i \in 1..n + 1 : k[i].kind \in CallKinds => i < j}
<1>1. Loops(k, n) = Cardinality(S) /\ Loops(k, n + 1) = Cardinality(T)
  BY DEF Loops
<1>2. IsFiniteSet(S) /\ Cardinality(S) \in Nat /\ n + 1 \notin S
  <2>1. IsFiniteSet(1..n) /\ S \subseteq 1..n
    BY FS_Interval
  <2>2. IsFiniteSet(S)
    BY <2>1, FS_Subset
  <2>3. QED
    BY <2>1, <2>2, FS_CardinalityType
<1>3. \A j \in 1..n + 1 : j \in 1..n \/ j = n + 1
  OBVIOUS
<1>4. 1..n \subseteq 1..n + 1 /\ n + 1 \in 1..n + 1 /\ \A j \in 1..n : j < n + 1 /\ ~ (n + 1 < j)
  OBVIOUS
<1>5. CASE k[n + 1].kind = "loop"
  <2>1. T = S \cup {n + 1}
    BY <1>3, <1>4, <1>5 DEF CallKinds
  <2>2. QED
    BY <1>1, <1>2, <1>5, <2>1, FS_AddElement DEF CallKinds
<1>6. CASE k[n + 1].kind \in CallKinds
  <2>1. T = {}
    BY <1>3, <1>4, <1>6 DEF CallKinds
  <2>2. Cardinality(T) = 0
    BY <2>1, FS_EmptySet
  <2>3. QED
    BY <1>1, <1>2, <1>6, <2>2 DEF CallKinds
<1>7. CASE k[n + 1].kind # "loop" /\ k[n + 1].kind \notin CallKinds
  <2>1. T = S
    BY <1>3, <1>4, <1>7
  <2>2. QED
    BY <1>1, <1>2, <1>7, <2>1
<1>8. QED
  BY <1>5, <1>6, <1>7

(* Only the kinds count. *)
LEMMA LoopsSame ==
    ASSUME NEW k, NEW l, NEW n, \A j \in 1..n : l[j].kind = k[j].kind
    PROVE  Loops(l, n) = Loops(k, n)
BY DEF Loops

(* Between two that are counted. *)
Through(f, n) == IF f.kind = "loop" THEN n + 1 ELSE IF f.kind \in CallKinds THEN 0 ELSE n
Around(k) == Loops(k, Len(k))

LEMMA LoopsPush ==
    ASSUME NEW k \in Stack, NEW f
    PROVE  Around(k) \in Nat /\ Around(Append(k, f)) = Through(f, Around(k))
<1> DEFINE l == Append(k, f)
<1>1. /\ Len(k) \in Nat /\ Len(l) = Len(k) + 1 /\ l[Len(k) + 1] = f
      /\ \A j \in 1..Len(k) : l[j] = k[j]
  BY Pushed
<1> HIDE DEF l
<1>2. Loops(l, Len(k)) = Loops(k, Len(k))
  BY <1>1, LoopsSame
<1>3. QED
  BY <1>1, <1>2, LoopsNext DEF Around, Through, l

LEMMA LoopsPop ==
    ASSUME NEW k \in Stack, Top(k).kind # "main"
    PROVE  /\ Around(Pop(k)) \in Nat /\ Around(k) = Through(Top(k), Around(Pop(k)))
           /\ Around(Pop(k)) = Loops(k, Len(k) - 1)
<1> DEFINE l == Pop(k)
           n == Len(k) - 1
<1>1. /\ Len(k) \in Nat /\ Len(k) > 1 /\ Len(l) = n /\ \A j \in 1..n : l[j] = k[j]
  BY Popped
<1>2. n \in Nat /\ n + 1 = Len(k)
  BY <1>1
<1> HIDE DEF l, n
<1>3. Loops(l, n) = Loops(k, n)
  BY <1>1, LoopsSame
<1>4. Loops(k, n + 1) = Through(k[n + 1], Loops(k, n)) /\ Loops(k, n) \in Nat
  BY <1>2, LoopsNext DEF Through
<1>5. QED
  BY <1>1, <1>2, <1>3, <1>4 DEF Around, Top, l, n

LEMMA LoopsMain ==
    ASSUME NEW k \in Stack, Top(k).kind = "main"
    PROVE  Around(k) = 0
<1>1. Len(k) = 1 /\ k[1].kind = "main"
  BY MainAlone DEF Top
<1>2. {j \in 1..1 : /\ k[j].kind = "loop"
                    /\ \A i \in 1..1 : k[i].kind \in CallKinds => i < j} = {}
  BY <1>1
<1>3. QED
  BY <1>1, <1>2, FS_EmptySet DEF Around, Loops

-------------------------------------------------------------------------------
(* What a shell that no signal has reached keeps of its loops, up to its end: every
   activation that will put a count back has that of the loops around it, only return
   and exit jump, and break has no effect on what is returned from. *)
Onward == {0, Done, Reading, JmpExit}
Fits(f, n) ==
    /\ f.kind = "fun" => f.prevst.loopcnt = n /\ f.prevst.breakcnt = 0
    /\ f.kind = "posix" => f.loopcnt = n
    /\ f.kind = "DEBUG" => f.savst.loopcnt = n /\ f.savst.breakcnt = 0
    /\ f.kind = "ERR" => "SIGSET" \notin f.note
    /\ f.kind \in {"ERR", "SIG"} => f.then \in Onward
    /\ f.kind = "EXIT" => f.jmpval \in {0, JmpFun, JmpExit}
Fitting(k) == \A j \in 1..Len(k) : Fits(k[j], Loops(k, j - 1))

Calm(s) == "SIGSET" \notin s.trapnote /\ s.lastsig = 0
Even(k, s) ==
    /\ s.st.loopcnt = Around(k)
    /\ s.st.breakcnt \in Int /\ -s.st.loopcnt <= s.st.breakcnt /\ s.st.breakcnt <= s.st.loopcnt
Loose(k, s) == s.indone \/ (Calm(s) /\ Fitting(k))
Level(k, s) == s.indone \/ (Calm(s) /\ Fitting(k) /\ Even(k, s))
Straight(s) == s.indone \/ s.st.breakcnt = 0

Looped(p, k, s) ==
    /\ Loose(k, s)
    /\ p.pc = "jump" => s.indone \/ p.val = JmpExit \/ (p.val = JmpFun /\ Straight(s))
    /\ p.pc = "chk" => s.indone \/ p.then \in Onward
    /\ p.pc # "jump" => Level(k, s)
    /\ p \in {Exec, Bltin} => Straight(s)

(* A step goes to a level point, or jumps. *)
LEMMA GoesLevel ==
    ASSUME NEW p, NEW k, NEW s, Goto(p, k, s), Level(k, s), p.pc # "jump",
           p.pc = "chk" => s.indone \/ p.then \in Onward, p \in {Exec, Bltin} => Straight(s)
    PROVE  Looped(at, stack, sh)'
<1>1. Looped(p, k, s)
  BY DEF Looped, Loose, Level
<1>2. QED
  BY <1>1 DEF Goto

LEMMA GoesJump ==
    ASSUME NEW v, NEW k, NEW s, Goto(Jump(v), k, s), Loose(k, s),
           s.indone \/ v = JmpExit \/ (v = JmpFun /\ Straight(s))
    PROVE  Looped(at, stack, sh)'
<1>1. Looped(Jump(v), k, s)
  <2>1. Jump(v).pc = "jump" /\ Jump(v).val = v /\ Jump(v) \notin {Exec, Bltin}
    BY DEF Jump, Exec, Bltin
  <2>2. QED
    BY <2>1 DEF Looped
<1>2. QED
  BY <1>1 DEF Goto

(* The points. *)
LEMMA PointShapes ==
    /\ \A p \in {Read, Cmd, Exec, Bltin, Exited} : p.pc # "jump" /\ p.pc # "chk"
    /\ Read \notin {Exec, Bltin} /\ Cmd \notin {Exec, Bltin} /\ Exited \notin {Exec, Bltin}
    /\ \A e : Post(e).pc # "jump" /\ Post(e).pc # "chk" /\ Post(e) \notin {Exec, Bltin}
    /\ \A n, t : /\ Chk(n, t).pc = "chk" /\ Chk(n, t).then = t /\ Chk(n, t) \notin {Exec, Bltin}
BY DEF Read, Cmd, Exec, Bltin, Exited, Post, Chk

(* What t does not disturb. *)
Steady(s, t) ==
    /\ t.st.loopcnt = s.st.loopcnt /\ t.st.breakcnt = s.st.breakcnt /\ t.indone = s.indone
    /\ s.lastsig = 0 => t.lastsig = 0
    /\ "SIGSET" \notin s.trapnote => "SIGSET" \notin t.trapnote

LEMMA SteadyLevel ==
    ASSUME NEW s, NEW t, Steady(s, t)
    PROVE  /\ \A k : Loose(k, s) => Loose(k, t)
           /\ \A k : Level(k, s) => Level(k, t)
           /\ Straight(s) => Straight(t)
BY DEF Steady, Loose, Level, Straight, Calm, Even

LEMMA SteadyTransitive ==
    /\ \A s : Steady(s, s)
    /\ \A s, t, u : Steady(s, t) /\ Steady(t, u) => Steady(s, u)
BY DEF Steady

LEMMA SteadyRest ==
    ASSUME NEW s \in Shell, NEW x
    PROVE  /\ Steady(s, [s EXCEPT !.exitval = x]) /\ Steady(s, [s EXCEPT !.errexit = x])
           /\ Steady(s, [s EXCEPT !.fn_depth = x]) /\ Steady(s, [s EXCEPT !.dot_depth = x])
           /\ Steady(s, [s EXCEPT !.intrap = x]) /\ Steady(s, [s EXCEPT !.intrap_exit_n = x])
           /\ Steady(s, [s EXCEPT !.cursig = x]) /\ Steady(s, [s EXCEPT !.pend = x])
           /\ Steady(s, [s EXCEPT !.indebug = x]) /\ Steady(s, [s EXCEPT !.trapcom = x])
           /\ Steady(s, [s EXCEPT !.lastsig = 0])
           /\ (x \subseteq s.trapnote \cup {"SIGTRAP"} => Steady(s, [s EXCEPT !.trapnote = x]))
BY DEF Shell, Steady

LEMMA SteadyScoped ==
    ASSUME NEW s \in Shell, NEW x
    PROVE  /\ Steady(s, [s EXCEPT !.st.err = x]) /\ Steady(s, [s EXCEPT !.st.debug = x])
           /\ Steady(s, [s EXCEPT !.st.trapdontexec = x])
BY DEF Shell, Scoped, Steady

LEMMA SteadyExit ==
    ASSUME NEW s \in Shell, NEW x
    PROVE  Steady(s, sh_exit(s)) /\ Steady(s, [sh_exit(s) EXCEPT !.exitval = x])
BY DEF sh_exit, Steady, Shell

LEMMA SteadyEnter ==
    ASSUME NEW s \in Shell
    PROVE  Steady(s, EnterTrap(s))
BY DEF EnterTrap, Steady, Shell, Scoped

LEMMA SteadyLeave ==
    ASSUME NEW s \in Shell, NEW f
    PROVE  Steady(s, LeaveTrap(s, f))
BY DEF LeaveTrap, Steady, Shell, Scoped

-------------------------------------------------------------------------------
(* Pushes and pops. *)

LEMMA FittingPush ==
    ASSUME NEW k \in Stack, NEW f, Fitting(k), Fits(f, Around(k))
    PROVE  Fitting(Append(k, f))
<1> DEFINE l == Append(k, f)
<1>1. /\ Len(k) \in Nat /\ Len(l) = Len(k) + 1 /\ l[Len(k) + 1] = f
      /\ \A j \in 1..Len(k) : l[j] = k[j]
  BY Pushed
<1> HIDE DEF l
<1>2. ASSUME NEW j \in 1..Len(l)
      PROVE  Fits(l[j], Loops(l, j - 1))
  <2>1. \A i \in 1..j - 1 : l[i].kind = k[i].kind
    BY <1>1
  <2>2. Loops(l, j - 1) = Loops(k, j - 1)
    BY <2>1, LoopsSame
  <2>3. CASE j \in 1..Len(k)
    BY <1>1, <2>2, <2>3 DEF Fitting
  <2>4. CASE j \notin 1..Len(k)
    <3>1. j = Len(k) + 1 /\ j - 1 = Len(k)
      BY <1>1, <2>4
    <3>2. QED
      BY <1>1, <2>2, <3>1 DEF Around
  <2>5. QED
    BY <2>3, <2>4
<1>3. QED
  BY <1>2 DEF Fitting, l

LEMMA FittingPop ==
    ASSUME NEW k \in Stack, Top(k).kind # "main", Fitting(k)
    PROVE  Fitting(Pop(k)) /\ Fits(Top(k), Around(Pop(k)))
<1> DEFINE l == Pop(k)
<1>1. /\ Len(k) \in Nat /\ Len(k) > 1 /\ Len(l) = Len(k) - 1
      /\ \A j \in 1..Len(k) - 1 : l[j] = k[j]
  BY Popped
<1>2. Around(l) = Loops(k, Len(k) - 1)
  BY LoopsPop
<1> HIDE DEF l
<1>3. ASSUME NEW j \in 1..Len(l)
      PROVE  Fits(l[j], Loops(l, j - 1))
  <2>1. /\ j \in 1..Len(k) /\ l[j] = k[j]
        /\ \A i \in 1..j - 1 : l[i].kind = k[i].kind
    BY <1>1
  <2>2. Loops(l, j - 1) = Loops(k, j - 1)
    BY <2>1, LoopsSame
  <2>3. QED
    BY <2>1, <2>2 DEF Fitting
<1>4. Len(k) \in 1..Len(k)
  BY <1>1
<1>5. Fits(Top(k), Around(l))
  BY <1>2, <1>4 DEF Fitting, Top
<1>6. QED
  BY <1>3, <1>5 DEF Fitting, l

(* Most activations leave the count of the loops as it is. *)
LEMMA LevelPush ==
    ASSUME NEW k \in Stack, NEW f, NEW s, Level(k, s), f.kind \notin CallKinds \cup {"loop"},
           s.indone \/ Fits(f, Around(k))
    PROVE  Level(Append(k, f), s)
<1>1. Around(Append(k, f)) = Around(k)
  BY LoopsPush DEF Through
<1>2. Fitting(k) /\ Fits(f, Around(k)) => Fitting(Append(k, f))
  BY FittingPush
<1>3. QED
  BY <1>1, <1>2 DEF Level, Even

LEMMA LoosePop ==
    ASSUME NEW k \in Stack, NEW s, Loose(k, s), Top(k).kind # "main"
    PROVE  Loose(Pop(k), s) /\ (s.indone \/ Fits(Top(k), Around(Pop(k))))
BY FittingPop DEF Loose

LEMMA LevelPop ==
    ASSUME NEW k \in Stack, NEW s, Level(k, s), Top(k).kind \notin CallKinds \cup {"loop", "main"}
    PROVE  Level(Pop(k), s) /\ (s.indone \/ Fits(Top(k), Around(Pop(k))))
<1>1. Around(Pop(k)) = Around(k)
  BY LoopsPop DEF Through
<1>2. Fitting(k) => Fitting(Pop(k)) /\ Fits(Top(k), Around(Pop(k)))
  BY FittingPop
<1>3. QED
  BY <1>1, <1>2 DEF Level, Even

(* A new mode changes nothing else. *)
LEMMA LevelMode ==
    ASSUME NEW k \in Stack, NEW m, NEW s
    PROVE  /\ Loose(k, s) => Loose(SetMode(k, m), s)
           /\ Level(k, s) => Level(SetMode(k, m), s)
<1> DEFINE l == SetMode(k, m)
<1>1. k \in Seq(Frame) /\ Len(k) \in 1..Len(k)
  BY DEF Stack
<1>2. l = [k EXCEPT ![Len(k)] = [k[Len(k)] EXCEPT !.mode = m]]
  BY DEF SetMode
<1>3. Len(l) = Len(k)
  BY <1>1, <1>2
<1>4. \A j \in 1..Len(k) : l[j] = k[j] \/ l[j] = [k[j] EXCEPT !.mode = m]
  BY <1>1, <1>2
<1>5. \A f \in Frame : LET g == [f EXCEPT !.mode = m]
                       IN /\ g.kind = f.kind
                          /\ \A n : Fits(f, n) => Fits(g, n)
  BY DEF Frame, PlainFrame, FunFrame, PosixFrame, DebugFrame, ErrFrame, SigFrame, ExitFrame,
         DoneFrame, Fits
<1>6. \A j \in 1..Len(k) : k[j] \in Frame
  BY <1>1
<1> HIDE DEF l
<1>7. \A j \in 1..Len(k) : l[j].kind = k[j].kind
  BY <1>4, <1>5, <1>6, Zenon
<1>8. \A j \in 1..Len(k) : \A n : Fits(k[j], n) => Fits(l[j], n)
  BY <1>4, <1>5, <1>6, Zenon
<1>9. \A n \in 0..Len(k) : Loops(l, n) = Loops(k, n)
  <2>1. ASSUME NEW n \in 0..Len(k)
        PROVE  Loops(l, n) = Loops(k, n)
    <3>1. \A j \in 1..n : l[j].kind = k[j].kind
      BY <1>1, <1>7
    <3>2. QED
      BY <3>1, LoopsSame
  <2>2. QED
    BY <2>1
<1>10. Around(l) = Around(k)
  <2>1. Len(k) \in 0..Len(k)
    BY <1>1
  <2>2. QED
    BY <1>3, <1>9, <2>1 DEF Around
<1>11. Fitting(k) => Fitting(l)
  <2>1. ASSUME Fitting(k), NEW j \in 1..Len(k)
        PROVE  Fits(l[j], Loops(l, j - 1))
    <3>1. j - 1 \in 0..Len(k)
      BY <1>1
    <3>2. Loops(l, j - 1) = Loops(k, j - 1)
      BY <1>9, <3>1
    <3>3. QED
      BY <1>8, <2>1, <3>2 DEF Fitting
  <2>2. QED
    BY <1>3, <2>1 DEF Fitting
<1>12. QED
  BY <1>10, <1>11 DEF Loose, Level, Even, l

-------------------------------------------------------------------------------
(* The C functions that steps end with. *)

(* After the end has begun anything goes. *)
LEMMA SignalExitEnds ==
    ASSUME NEW k, NEW s \in Shell, s.indone, SignalExit(k, s)
    PROVE  Looped(at, stack, sh)'
<1> DEFINE t == [sh_exit(s) EXCEPT !.exitval = 1]
<1>1. Goto(Jump(Top(k).mode), k, t) /\ Steady(s, t)
  BY SteadyExit DEF SignalExit
<1> HIDE DEF t
<1>2. t.indone /\ Loose(k, t)
  BY <1>1 DEF Steady, Loose
<1>3. QED
  BY <1>1, <1>2, GoesJump

LEMMA AfterExecLooped ==
    ASSUME NEW k, NEW s \in Shell, Level(k, s), AfterExec(k, s)
    PROVE  Looped(at, stack, sh)'
<1>1. CASE "SIGSET" \in s.trapnote
  <2>1. s.indone /\ SignalExit(k, s)
    BY <1>1 DEF Level, Calm, AfterExec
  <2>2. QED
    BY <2>1, SignalExitEnds
<1>2. CASE "SIGSET" \notin s.trapnote
  BY <1>2, PointShapes, GoesLevel DEF AfterExec
<1>3. QED
  BY <1>1, <1>2

LEMMA ErrExitLooped ==
    ASSUME NEW k \in Stack, NEW s \in Shell, Level(k, s), NEW n, NEW then,
           s.indone \/ then \in Onward, ErrExit(k, s, n, then)
    PROVE  Looped(at, stack, sh)'
<1>1. CASE s.errexit
  <2>1. Goto(Jump(JmpExit), SetMode(k, JmpExit), sh_exit(s))
    BY <1>1 DEF ErrExit
  <2>2. Loose(SetMode(k, JmpExit), s)
    BY LevelMode DEF Level, Loose
  <2>3. Loose(SetMode(k, JmpExit), sh_exit(s))
    BY <2>2, SteadyExit, SteadyLevel
  <2>4. QED
    BY <2>1, <2>3, GoesJump
<1>2. CASE ~ s.errexit
  <2>1. Goto(Chk(n, then), k, s)
    BY <1>2 DEF ErrExit
  <2>2. QED
    BY <2>1, PointShapes, GoesLevel
<1>3. QED
  BY <1>1, <1>2

LEMMA ReturnLooped ==
    ASSUME NEW k, NEW s \in Shell, NEW then, Level(k, s), s.indone \/ then \in Onward,
           Return(k, s, then)
    PROVE  Looped(at, stack, sh)'
<1>1. CASE then = 0
  BY <1>1, AfterExecLooped, Numbers DEF Return
<1>2. CASE then = Done
  <2>1. Goto(Exited, k, s)
    BY <1>2, Numbers DEF Return
  <2>2. QED
    BY <2>1, PointShapes, GoesLevel
<1>3. CASE then = Reading
  <2>1. Goto(Read, k, s)
    BY <1>3, Numbers DEF Return
  <2>2. QED
    BY <2>1, PointShapes, GoesLevel
<1>4. CASE then \notin {0, Done, Reading}
  <2>1. Goto(Jump(then), k, s)
    BY <1>4 DEF Return
  <2>2. s.indone \/ then = JmpExit
    BY <1>4 DEF Onward
  <2>3. Loose(k, s)
    BY DEF Level, Loose
  <2>4. QED
    BY <2>1, <2>2, <2>3, GoesJump
<1>5. QED
  BY <1>1, <1>2, <1>3, <1>4

LEMMA ChktrapLooped ==
    ASSUME NEW k \in Stack, NEW s \in Shell, Level(k, s), NEW errexit, NEW then,
           s.indone \/ then \in Onward, sh_chktrap(k, s, errexit, then)
    PROVE  Looped(at, stack, sh)'
<1> DEFINE n == IF s.trapnote = {} THEN 0 ELSE s.st.trapmax
           w == s.trapnote \ {"SIGTRAP"}
           c == [s EXCEPT !.trapnote = w]
           f == [kind |-> "ERR", mode |-> JmpEval, savxit |-> c.exitval,
                 nodontexec |-> c.st.trapdontexec = "off",
                 trap |-> c.st.err, note |-> c.trapnote, sig |-> n, then |-> then]
           u == [c EXCEPT !.st.err = None]
           v == u.trapnote \ {"SIGSET"}
           t == [u EXCEPT !.trapnote = v]
<1>1. /\ c \in Shell /\ Steady(s, c)
      /\ u \in Shell /\ Steady(c, u)
      /\ t \in Shell /\ Steady(u, t)
  <2>1. w \in SUBSET {"SIGSET", "SIGTRAP"} /\ w \subseteq s.trapnote \cup {"SIGTRAP"}
    BY DEF Shell
  <2> HIDE DEF w
  <2>2. c \in Shell /\ Steady(s, c)
    BY <2>1, KeepsNote, SteadyRest
  <2> HIDE DEF c
  <2>3. u \in Shell
    BY <2>2, TypeMember
  <2>4. Steady(c, u)
    BY <2>2, SteadyScoped
  <2> HIDE DEF u
  <2>5. v \in SUBSET {"SIGSET", "SIGTRAP"} /\ v \subseteq u.trapnote \cup {"SIGTRAP"}
    BY <2>3 DEF Shell
  <2> HIDE DEF v
  <2>6. t \in Shell /\ Steady(u, t)
    BY <2>3, <2>5, KeepsNote, SteadyRest
  <2>7. QED
    BY <2>2, <2>3, <2>4, <2>6
<1>2. \/ Goto(Chk(n, then), k, c)
      \/ ErrExit(k, c, n, then)
      \/ Goto(Cmd, Append(k, f), EnterTrap(t))
  BY DEF sh_chktrap
<1>3. f.kind = "ERR" /\ f.note = c.trapnote /\ f.then = then
  OBVIOUS
<1> HIDE DEF n, w, c, f, u, v, t
<1>4. Level(k, c) /\ (c.indone \/ then \in Onward)
  BY <1>1, SteadyLevel DEF Steady
<1>5. CASE Goto(Chk(n, then), k, c)
  BY <1>4, <1>5, PointShapes, GoesLevel
<1>6. CASE ErrExit(k, c, n, then)
  BY <1>1, <1>4, <1>6, ErrExitLooped
<1>7. CASE Goto(Cmd, Append(k, f), EnterTrap(t))
  <2>1. Steady(c, EnterTrap(t))
    BY <1>1, SteadyEnter, SteadyTransitive
  <2>2. c.indone \/ Fits(f, Around(k))
    BY <1>3, <1>4 DEF Fits, Level, Calm
  <2>3. Level(Append(k, f), c)
    BY <1>3, <1>4, <2>2, LevelPush DEF CallKinds
  <2>4. Level(Append(k, f), EnterTrap(t))
    BY <2>1, <2>3, SteadyLevel
  <2>5. QED
    BY <1>7, <2>4, PointShapes, GoesLevel
<1>8. QED
  BY <1>2, <1>5, <1>6, <1>7

LEMMA DoneLooped ==
    ASSUME NEW k \in Stack, NEW s \in Shell, sh_done(k, s)
    PROVE  Looped(at, stack, sh)'
<1> DEFINE b == [s EXCEPT !.trapnote = {}]
           d == [b EXCEPT !.indone = TRUE]
           f == [kind |-> "DONE", mode |-> JmpEval, savxit |-> d.exitval,
                 nodontexec |-> d.st.trapdontexec = "off"]
           table == [d.trapcom EXCEPT ![0] = None]
           e == [d EXCEPT !.trapcom = table]
<1>1. d \in Shell /\ d.indone
  BY DEF Shell
<1>2. \/ sh_chktrap(k, e, FALSE, Done)
      \/ Goto(Exited, k, e)
      \/ Goto(Cmd, Append(k, f), EnterTrap(e))
  BY DEF sh_done
<1>3. table \in Table
  BY <1>1 DEF Shell, Table, Trap
<1> HIDE DEF b, d, table, f
<1>4. e \in Shell /\ e.indone
  BY <1>1, <1>3 DEF Shell
<1> HIDE DEF e
<1>5. \A l : Level(l, e) /\ Level(l, EnterTrap(e))
  BY <1>4, SteadyEnter DEF Level, Steady
<1>6. CASE sh_chktrap(k, e, FALSE, Done)
  <2>1. \A errexit : sh_chktrap(k, e, errexit, Done) => Looped(at, stack, sh)'
    BY <1>4, <1>5, ChktrapLooped
  <2>2. QED
    BY <1>6, <2>1, Zenon
<1>7. CASE Goto(Exited, k, e)
  BY <1>5, <1>7, PointShapes, GoesLevel
<1>8. CASE Goto(Cmd, Append(k, f), EnterTrap(e))
  BY <1>5, <1>8, PointShapes, GoesLevel
<1>9. QED
  BY <1>2, <1>6, <1>7, <1>8

-------------------------------------------------------------------------------
(* Leaving functions, dot scripts and handlers. *)

LEMMA FunctionAfterLooped ==
    ASSUME NEW k \in Stack, NEW s \in Shell, Level(k, s), NEW v,
           s.indone \/ v \in {0, JmpFun, JmpExit}, FunctionAfter(k, s, v)
    PROVE  Looped(at, stack, sh)'
<1>1. CASE v > JmpFun
  <2>1. \E errexit \in BOOLEAN : sh_chktrap(k, s, errexit, v)
    BY <1>1 DEF FunctionAfter
  <2>2. s.indone \/ v \in Onward
    BY <1>1 DEF JmpFun, JmpExit, Onward
  <2>3. QED
    BY <2>1, <2>2, ChktrapLooped
<1>2. CASE ~(v > JmpFun) /\ v = JmpFun /\ s.lastsig # 0
  <2> DEFINE t == sh_fault(s, k, s.lastsig)
             l == fault_frames(s, k, s.lastsig)
  <2>1. Goto(Post(TRUE), l, t)
    BY <1>2 DEF FunctionAfter
  <2>2. s.indone
    BY <1>2 DEF Level, Calm
  <2>3. t.indone
    BY <2>2 DEF sh_fault, Shell
  <2> HIDE DEF t, l
  <2>4. Level(l, t)
    BY <2>3 DEF Level
  <2>5. QED
    BY <2>1, <2>4, PointShapes, GoesLevel
<1>3. CASE ~(v > JmpFun) /\ ~(v = JmpFun /\ s.lastsig # 0)
  <2>1. Goto(Post(TRUE), k, s)
    BY <1>3 DEF FunctionAfter
  <2>2. QED
    BY <2>1, PointShapes, GoesLevel
<1>4. QED
  BY <1>1, <1>2, <1>3

(* A function gives back the counts of its caller. *)
LEMMA FunctionLeaveLooped ==
    ASSUME stack \in Stack, sh \in Shell, Loose(stack, sh), Top(stack).kind = "fun",
           NEW v, sh.indone \/ v \in {0, JmpFun, JmpExit}, FunctionLeave(v)
    PROVE  Looped(at, stack, sh)'
<1> DEFINE f == Top(stack)
           k == Pop(stack)
           n == sh.fn_depth - 1
           u == [sh EXCEPT !.fn_depth = n]
           left == sh_sigreset(u, 1)
           table == [i \in SigNo |-> IF i < f.prevst.trapmax THEN f.savsig[i] ELSE left.trapcom[i]]
           s == [left EXCEPT !.st = f.prevst, !.errexit = f.options, !.trapnote = {},
                             !.trapcom = table]
           frame == [kind |-> "EXIT", mode |-> JmpEval, savxit |-> s.exitval,
                     nodontexec |-> s.st.trapdontexec = "off", jmpval |-> v]
<1>1. f \in Frame /\ f.kind = "fun" /\ k \in Stack
  BY StackTop, StackPop
<1>2. f.prevst \in Scoped /\ f.savsig \in Table /\ f.options \in BOOLEAN
  BY <1>1, FrameParts
<1>3. u \in Shell /\ Steady(sh, u)
  <2>1. n \in Int
    BY TypeDepths
  <2> HIDE DEF n
  <2>2. u \in Shell
    BY <2>1 DEF Shell
  <2>3. QED
    BY <2>2, SteadyRest
<1>4. \/ SignalExit(stack, u) /\ v = JmpErrFn
      \/ Goto(Cmd, Append(k, frame), EnterTrap(s))
      \/ FunctionAfter(k, s, v)
  BY DEF FunctionLeave
<1>5. left \in Shell /\ left.lastsig = u.lastsig /\ left.indone = u.indone
  <2> HIDE DEF u
  <2>1. left \in Shell
    BY <1>3, TypeSigreset
  <2>2. left.lastsig = u.lastsig /\ left.indone = u.indone
    BY <1>3 DEF sh_sigreset, Shell
  <2>3. QED
    BY <2>1, <2>2
<1>6. /\ s \in Shell /\ s.st = f.prevst /\ s.lastsig = left.lastsig /\ s.indone = left.indone
      /\ s.trapnote = {}
  <2> HIDE DEF f, left
  <2>1. table \in Table
    BY <1>2, <1>5 DEF Shell, Table
  <2> HIDE DEF table
  <2>2. QED
    BY <1>2, <1>5, <2>1 DEF Shell
<1>7. frame.kind = "EXIT" /\ frame.jmpval = v
  OBVIOUS
<1>8. Loose(k, sh) /\ (sh.indone \/ Fits(f, Around(k)))
  BY LoosePop
<1>9. s.indone = sh.indone /\ (sh.lastsig = 0 => s.lastsig = 0)
  <2> HIDE DEF s, left, u
  <2>1. QED
    BY <1>3, <1>5, <1>6 DEF Steady
<1>10. Around(k) \in Nat
  BY <1>1, LoopsPop
<1> HIDE DEF f, k, n, left, table, s, frame
<1>11. Level(k, s)
  BY <1>1, <1>6, <1>8, <1>9, <1>10 DEF Level, Loose, Calm, Even, Fits
<1>12. CASE SignalExit(stack, u) /\ v = JmpErrFn
  <2>1. u.indone
    BY <1>3, <1>12 DEF Steady, JmpErrFn, JmpFun, JmpExit
  <2> HIDE DEF u
  <2>2. QED
    BY <1>3, <1>12, <2>1, SignalExitEnds
<1>13. CASE Goto(Cmd, Append(k, frame), EnterTrap(s))
  <2>1. s.indone \/ Fits(frame, Around(k))
    BY <1>7, <1>9 DEF Fits
  <2>2. Level(Append(k, frame), s)
    BY <1>1, <1>7, <1>11, <2>1, LevelPush DEF CallKinds
  <2>3. Level(Append(k, frame), EnterTrap(s))
    BY <1>6, <2>2, SteadyEnter, SteadyLevel
  <2>4. QED
    BY <1>13, <2>3, PointShapes, GoesLevel
<1>14. CASE FunctionAfter(k, s, v)
  BY <1>1, <1>6, <1>9, <1>11, <1>14, FunctionAfterLooped
<1>15. QED
  BY <1>4, <1>12, <1>13, <1>14

LEMMA PosixLeaveLooped ==
    ASSUME stack \in Stack, sh \in Shell, Loose(stack, sh), Top(stack).kind = "posix",
           NEW v, v \in {0, JmpFun} => Straight(sh), sh.indone \/ v \in {0, JmpFun, JmpExit},
           PosixLeave(v)
    PROVE  Looped(at, stack, sh)'
<1> DEFINE f == Top(stack)
           k == Pop(stack)
           n == sh.dot_depth - 1
           s == [sh EXCEPT !.dot_depth = n]
           t == [s EXCEPT !.st.loopcnt = f.loopcnt]
<1>1. n \in Int
  BY TypeDepths
<1>2. s \in Shell /\ Steady(sh, s)
  <2> HIDE DEF n
  <2>1. s \in Shell
    BY <1>1 DEF Shell
  <2>2. QED
    BY <2>1, SteadyRest
<1>3. /\ t.st.loopcnt = f.loopcnt /\ t.st.breakcnt = s.st.breakcnt /\ t.indone = s.indone
      /\ t.lastsig = s.lastsig /\ t.trapnote = s.trapnote
  <2> HIDE DEF s, f
  <2>1. QED
    BY <1>2 DEF Shell, Scoped
<1>4. \/ v \in {0, JmpFun} /\ Goto(Post(TRUE), k, t)
      \/ v \notin {0, JmpFun} /\ Goto(Jump(v), k, s)
  <2>1. IF v \in {0, JmpFun} THEN Goto(Post(TRUE), k, t) ELSE Goto(Jump(v), k, s)
    BY Zenon DEF PosixLeave
  <2> HIDE DEF s, t, k
  <2>2. QED
    BY <2>1
<1>5. Loose(k, sh) /\ (sh.indone \/ Fits(f, Around(k))) /\ Around(k) \in Nat
  BY LoosePop, LoopsPop
<1>6. f.kind = "posix"
  OBVIOUS
<1> HIDE DEF f, k, n, s, t
<1>7. CASE v \in {0, JmpFun} /\ Goto(Post(TRUE), k, t)
  <2>1. t.st.breakcnt = sh.st.breakcnt /\ t.indone = sh.indone /\ (sh.lastsig = 0 => t.lastsig = 0)
        /\ ("SIGSET" \notin sh.trapnote => "SIGSET" \notin t.trapnote)
    BY <1>2, <1>3 DEF Steady
  <2>2. Straight(sh)
    BY <1>7
  <2>3. Level(k, t)
    BY <1>3, <1>5, <1>6, <2>1, <2>2 DEF Level, Loose, Calm, Even, Fits, Straight
  <2>4. QED
    BY <1>7, <2>3, PointShapes, GoesLevel
<1>8. CASE v \notin {0, JmpFun} /\ Goto(Jump(v), k, s)
  <2>1. Loose(k, s) /\ (s.indone \/ v = JmpExit)
    BY <1>2, <1>5, <1>8, SteadyLevel DEF Steady
  <2>2. QED
    BY <1>8, <2>1, GoesJump
<1>9. QED
  BY <1>4, <1>7, <1>8

LEMMA TrapReturnLooped ==
    ASSUME Good(stack, sh), Level(stack, sh), Top(stack).kind \in TrapKinds, TrapReturn
    PROVE  Looped(at, stack, sh)'
<1> DEFINE f == Top(stack)
           k == Pop(stack)
           s == LeaveTrap(sh, f)
           debug == [s EXCEPT !.indebug = FALSE, !.st = f.savst]
           err == [s EXCEPT !.st.err = f.trap, !.trapnote = f.note]
<1>1. /\ stack \in Stack /\ sh \in Shell /\ f \in Frame /\ s \in Shell /\ k \in Stack
      /\ f.kind \notin CallKinds \cup {"loop", "main"}
  BY HandlerLeft DEF Good, TrapKinds, CallKinds
<1>2. Steady(sh, s)
  BY <1>1, SteadyLeave
<1>3. Level(k, sh) /\ (sh.indone \/ Fits(f, Around(k)))
  BY <1>1, LevelPop
<1>4. Level(k, s) /\ (s.indone \/ Fits(f, Around(k))) /\ Around(k) \in Nat
  <2>1. Around(k) \in Nat
    BY <1>1, LoopsPop
  <2> HIDE DEF s, k, f
  <2>2. QED
    BY <1>2, <1>3, <2>1, SteadyLevel DEF Steady
<1>5. CASE f.kind = "DEBUG"
  <2>1. /\ debug \in Shell /\ debug.st = f.savst /\ debug.indone = s.indone
        /\ debug.lastsig = s.lastsig /\ debug.trapnote = s.trapnote
    <3>1. f.savst \in Scoped /\ s \in Shell
      BY <1>1, <1>5, FrameParts
    <3> HIDE DEF s, f
    <3>2. debug \in Shell /\ debug.st = f.savst
      BY <3>1, DebugPutBack
    <3>3. /\ debug.indone = s.indone /\ debug.lastsig = s.lastsig /\ debug.trapnote = s.trapnote
      BY <3>1 DEF Shell
    <3>4. QED
      BY <3>2, <3>3
  <2>2. \/ Goto(Jump(JmpFun), k, sh_exit(debug))
        \/ Goto(Post(TRUE), k, [debug EXCEPT !.exitval = 2])
        \/ Goto(Exec, k, debug)
    BY <1>5 DEF TrapReturn
  <2> HIDE DEF debug, s, k, f
  <2>3. Level(k, debug) /\ Straight(debug)
    BY <1>4, <1>5, <2>1 DEF Level, Calm, Even, Fits, Straight
  <2>4. Steady(debug, sh_exit(debug)) /\ Steady(debug, [debug EXCEPT !.exitval = 2])
    BY <2>1, SteadyExit, SteadyRest
  <2>5. CASE Goto(Jump(JmpFun), k, sh_exit(debug))
    <3>1. Loose(k, sh_exit(debug)) /\ Straight(sh_exit(debug))
      BY <2>3, <2>4, SteadyLevel DEF Level, Loose
    <3>2. QED
      BY <2>5, <3>1, GoesJump
  <2>6. CASE Goto(Post(TRUE), k, [debug EXCEPT !.exitval = 2])
    <3>1. Level(k, [debug EXCEPT !.exitval = 2])
      BY <2>3, <2>4, SteadyLevel
    <3>2. QED
      BY <2>6, <3>1, PointShapes, GoesLevel
  <2>7. CASE Goto(Exec, k, debug)
    BY <2>3, <2>7, PointShapes, GoesLevel
  <2>8. QED
    BY <2>2, <2>5, <2>6, <2>7
<1>6. CASE f.kind = "ERR"
  <2> DEFINE t == [s EXCEPT !.st.err = f.trap]
  <2>1. f.trap \in Handler /\ f.note \in SUBSET {"SIGSET", "SIGTRAP"}
    BY <1>1, <1>6, FrameParts
  <2>2. ErrExit(k, err, f.sig, f.then)
    BY <1>6 DEF TrapReturn
  <2>3. /\ err \in Shell /\ err.st.loopcnt = s.st.loopcnt /\ err.st.breakcnt = s.st.breakcnt
        /\ err.indone = s.indone /\ err.lastsig = s.lastsig /\ err.trapnote = f.note
    <3> HIDE DEF s, f
    <3>1. t \in Shell
      BY <1>1, <2>1, TypeMember
    <3>2. /\ t.st.loopcnt = s.st.loopcnt /\ t.st.breakcnt = s.st.breakcnt
          /\ t.indone = s.indone /\ t.lastsig = s.lastsig
      BY <1>1 DEF Shell, Scoped
    <3>3. err = [t EXCEPT !.trapnote = f.note]
      OBVIOUS
    <3> HIDE DEF t
    <3>4. /\ [t EXCEPT !.trapnote = f.note] \in Shell
          /\ [t EXCEPT !.trapnote = f.note].st = t.st
          /\ [t EXCEPT !.trapnote = f.note].indone = t.indone
          /\ [t EXCEPT !.trapnote = f.note].lastsig = t.lastsig
          /\ [t EXCEPT !.trapnote = f.note].trapnote = f.note
      BY <2>1, <3>1 DEF Shell
    <3>5. QED
      BY <3>2, <3>3, <3>4
  <2> HIDE DEF err, s, k, f
  <2>4. Level(k, err) /\ (err.indone \/ f.then \in Onward)
    BY <1>4, <1>6, <2>3 DEF Level, Calm, Even, Fits
  <2>5. QED
    BY <1>1, <2>2, <2>3, <2>4, ErrExitLooped
<1>7. CASE f.kind = "SIG"
  <2> DEFINE t == [s EXCEPT !.cursig = -1]
  <2>1. Goto(Chk(f.sig, f.then), k, t)
    BY <1>7 DEF TrapReturn
  <2>2. Steady(s, t)
    <3> HIDE DEF s
    <3>1. QED
      BY <1>1, SteadyRest
  <2> HIDE DEF s, k, f, t
  <2>3. Level(k, t) /\ (t.indone \/ f.then \in Onward)
    BY <1>4, <1>7, <2>2, SteadyLevel DEF Fits, Steady
  <2>4. QED
    BY <2>1, <2>3, PointShapes, GoesLevel
<1>8. CASE f.kind = "EXIT"
  <2>1. FunctionAfter(k, s, f.jmpval)
    BY <1>8 DEF TrapReturn
  <2> HIDE DEF s, k, f
  <2>2. s.indone \/ f.jmpval \in {0, JmpFun, JmpExit}
    BY <1>4, <1>8 DEF Fits
  <2>3. QED
    BY <1>1, <1>4, <2>1, <2>2, FunctionAfterLooped
<1>9. CASE f.kind = "DONE"
  <2>1. Goto(Exited, k, s)
    BY <1>9 DEF TrapReturn
  <2> HIDE DEF s, k, f
  <2>2. QED
    BY <1>4, <2>1, PointShapes, GoesLevel
<1>10. QED
  BY <1>5, <1>6, <1>7, <1>8, <1>9 DEF TrapKinds

-------------------------------------------------------------------------------
(* The steps of the interpreter, in a shell that no signal has reached. *)
NoSignal == \A i \in Sig : sent[i] = 0

LEMMA NothingPending ==
    ASSUME HInv, NoSignal
    PROVE  sh.pend = {}
<1>1. ASSUME NEW i \in Sig, i \in sh.pend
      PROVE  FALSE
  <2>1. ran[i] + 1 <= sent[i] /\ sent[i] = 0 /\ ran[i] \in Nat
    BY <1>1, HInvParts DEF HInv, Handled, NoSignal
  <2>2. QED
    BY <2>1
<1>2. sh.pend \subseteq Sig
  BY HInvParts DEF Shell
<1>3. QED
  BY <1>1, <1>2

LEMMA ScanLooped ==
    ASSUME HInv, NoSignal, Looped(at, stack, sh), ScanNext \/ ScanEnd \/ PostExec
    PROVE  Looped(at, stack, sh)'
<1> USE HInvParts
<1>1. CASE ScanNext
  <2>1. Due = {}
    BY NothingPending DEF Due
  <2>2. QED
    BY <1>1, <2>1 DEF ScanNext
<1>2. CASE ScanEnd
  <2>1. Level(stack, sh) /\ (sh.indone \/ at.then \in Onward)
    BY <1>2 DEF ScanEnd, Looped
  <2>2. QED
    BY <1>2, <2>1, ReturnLooped DEF ScanEnd
<1>3. CASE PostExec
  <2>1. Level(stack, sh)
    BY <1>3 DEF PostExec, Looped
  <2>2. PICK errexit \in BOOLEAN : sh_chktrap(stack, sh, errexit, 0) \/ AfterExec(stack, sh)
    BY <1>3 DEF PostExec
  <2>3. QED
    BY <2>1, <2>2, ChktrapLooped, AfterExecLooped DEF Onward
<1>4. QED
  BY <1>1, <1>2, <1>3

LEMMA MainLooped ==
    ASSUME HInv, Looped(at, stack, sh), NextLine \/ ReadLine \/ EndOfInput \/ SigCheck \/ UnwindMain
    PROVE  Looped(at, stack, sh)'
<1> USE HInvParts
<1>1. ASSUME at \in {Read, Cmd}
      PROVE  Level(stack, sh)
  BY <1>1, PointShapes DEF Looped
<1> DEFINE b == [sh EXCEPT !.st.breakcnt = 0]
<1>2. /\ b \in Shell /\ b.st.breakcnt = 0 /\ b.st.loopcnt = sh.st.loopcnt
      /\ b.indone = sh.indone /\ b.lastsig = sh.lastsig /\ b.trapnote = sh.trapnote
  <2>1. b \in Shell
    BY TypeMember
  <2>2. QED
    BY <2>1 DEF Shell, Scoped
<1>3. CASE NextLine
  <2> DEFINE m == IF Top(stack).mode = JmpExit THEN JmpErrExit ELSE Top(stack).mode
             n == [b EXCEPT !.trapnote = {}]
  <2>1. Goto(Read, SetMode(stack, m), n) \/ Goto(Cmd, stack, b)
    BY <1>3 DEF NextLine
  <2>2. Steady(b, n)
    <3> HIDE DEF b
    <3>1. QED
      BY <1>2, SteadyRest
  <2>3. Around(stack) \in Nat
    BY LoopsPush
  <2> HIDE DEF b, n, m
  <2>4. Level(stack, sh)
    BY <1>1, <1>3 DEF NextLine
  <2>5. Level(stack, b)
    BY <1>2, <2>3, <2>4 DEF Level, Calm, Even
  <2>6. Level(SetMode(stack, m), n)
    BY <2>2, <2>5, SteadyLevel, LevelMode
  <2>7. QED
    BY <2>1, <2>5, <2>6, PointShapes, GoesLevel
<1>4. CASE ReadLine
  <2>1. Level(stack, sh)
    BY <1>1, <1>4 DEF ReadLine
  <2>2. \/ SignalExit(stack, sh) /\ "SIGSET" \in sh.trapnote
        \/ \E errexit \in BOOLEAN : sh_chktrap(stack, sh, errexit, Reading)
        \/ Goto(Cmd, stack, sh)
    BY <1>4 DEF ReadLine
  <2>3. CASE SignalExit(stack, sh) /\ "SIGSET" \in sh.trapnote
    BY <2>1, <2>3, SignalExitEnds DEF Level, Calm
  <2>4. CASE \E errexit \in BOOLEAN : sh_chktrap(stack, sh, errexit, Reading)
    BY <2>1, <2>4, ChktrapLooped DEF Onward
  <2>5. CASE Goto(Cmd, stack, sh)
    BY <2>1, <2>5, PointShapes, GoesLevel
  <2>6. QED
    BY <2>2, <2>3, <2>4, <2>5
<1>5. CASE EndOfInput
  BY <1>5, DoneLooped DEF EndOfInput
<1>6. CASE SigCheck
  <2>1. SignalExit(stack, sh) /\ sh.indone
    BY <1>1, <1>6 DEF SigCheck, Level, Calm
  <2>2. QED
    BY <2>1, SignalExitEnds
<1>7. CASE UnwindMain
  <2> DEFINE l == [b EXCEPT !.st.loopcnt = 0]
             t == [l EXCEPT !.trapnote = {}]
             u == [t EXCEPT !.intrap = 0]
  <2>1. sh_done(stack, b) \/ Goto(Cmd, stack, u)
    BY <1>7 DEF UnwindMain
  <2>2. /\ l \in Shell /\ l.st.breakcnt = 0 /\ l.st.loopcnt = 0
        /\ l.indone = sh.indone /\ l.lastsig = sh.lastsig /\ l.trapnote = sh.trapnote
    <3> HIDE DEF b
    <3>1. l \in Shell
      BY <1>2, TypeMember
    <3>2. QED
      BY <1>2, <3>1 DEF Shell, Scoped
  <2>3. t \in Shell /\ Steady(l, t)
    <3> HIDE DEF l
    <3>1. QED
      BY <2>2, KeepsNote, SteadyRest
  <2>4. Steady(t, u)
    <3> HIDE DEF t
    <3>1. QED
      BY <2>3, SteadyRest
  <2>5. Around(stack) = 0
    BY <1>7, LoopsMain DEF UnwindMain
  <2> HIDE DEF b, l, t, u
  <2>6. Level(stack, l)
    BY <2>2, <2>5 DEF Looped, Loose, Level, Calm, Even
  <2>7. Level(stack, u)
    BY <2>3, <2>4, <2>6, SteadyLevel
  <2>8. QED
    BY <1>2, <2>1, <2>7, PointShapes, DoneLooped, GoesLevel
<1>8. QED
  BY <1>3, <1>4, <1>5, <1>6, <1>7

LEMMA CommandLooped ==
    ASSUME HInv, Looped(at, stack, sh), "error" \notin Ops,
           \/ SimpleCommand \/ LoopStart \/ Simple \/ BuiltinStart \/ BuiltinEnd
           \/ EvalStart \/ Break \/ ReturnOrExit \/ Error \/ SetErrexit
    PROVE  Looped(at, stack, sh)'
<1> USE HInvParts
<1>1. Level(stack, sh) /\ Around(stack) \in Nat
  <2>1. at \in {Cmd, Exec, Bltin}
    BY DEF SimpleCommand, LoopStart, Simple, BuiltinStart, BuiltinEnd, EvalStart, Break,
           ReturnOrExit, Error, SetErrexit, CanStart
  <2>2. QED
    BY <2>1, PointShapes, LoopsPush DEF Looped
<1>2. at \in {Exec, Bltin} => Straight(sh)
  BY DEF Looped
<1>3. Started \in Shell /\ Steady(sh, Started)
  <2> DEFINE u == [sh EXCEPT !.lastsig = 0]
  <2>1. u \in Shell /\ Steady(sh, u)
    BY SteadyRest DEF Shell, SigNo
  <2>2. Started = [u EXCEPT !.exitval = 0]
    BY Zenon DEF Started
  <2> HIDE DEF u
  <2>3. Steady(u, Started)
    BY <2>1, <2>2, SteadyRest
  <2>4. QED
    BY <2>1, <2>3, TypeStarted, SteadyTransitive
<1>4. CanStart => Level(stack, Started) /\ Straight(Started)
  BY <1>1, <1>3, SteadyLevel DEF CanStart, Straight
<1>5. CASE SimpleCommand
  <2>1. CASE sh.st.debug = None \/ sh.indebug
    <3>1. Goto(Exec, stack, Started)
      BY <1>5, <2>1 DEF SimpleCommand
    <3>2. QED
      BY <1>4, <1>5, <3>1, PointShapes, GoesLevel DEF SimpleCommand
  <2>2. CASE ~(sh.st.debug = None \/ sh.indebug)
    <3> DEFINE f == [kind |-> "DEBUG", mode |-> JmpEval, savxit |-> 0,
                     nodontexec |-> sh.st.trapdontexec = "off",
                     savst |-> sh.st]
               u == [Started EXCEPT !.indebug = TRUE]
               t == [u EXCEPT !.st.debug = None]
    <3>1. Goto(Cmd, Append(stack, f), EnterTrap(t))
      BY <1>5, <2>2 DEF SimpleCommand
    <3>2. f.kind = "DEBUG" /\ f.savst = sh.st
      OBVIOUS
    <3>3. /\ u \in Shell /\ Steady(Started, u)
          /\ t \in Shell /\ Steady(u, t)
      <4>1. u \in Shell /\ Steady(Started, u)
        BY <1>3, SteadyRest DEF Shell
      <4> HIDE DEF u
      <4>2. t \in Shell
        BY <4>1, TypeMember
      <4>3. QED
        BY <4>1, <4>2, SteadyScoped
    <3> HIDE DEF f, u, t
    <3>4. Steady(sh, EnterTrap(t))
      BY <1>3, <3>3, SteadyEnter, SteadyTransitive
    <3>5. sh.indone \/ Fits(f, Around(stack))
      BY <1>1, <1>5, <3>2 DEF SimpleCommand, CanStart, Fits, Level, Even
    <3>6. Level(Append(stack, f), sh)
      BY <1>1, <3>2, <3>5, LevelPush DEF CallKinds
    <3>7. QED
      BY <3>1, <3>4, <3>6, SteadyLevel, PointShapes, GoesLevel
  <2>3. QED
    BY <2>1, <2>2
<1>6. CASE LoopStart
  <2> DEFINE t == [Started EXCEPT !.st.loopcnt = @ + 1]
             n == Started.st.loopcnt + 1
             u == [Started EXCEPT !.st.loopcnt = n]
             f == [kind |-> "loop", mode |-> Top(stack).mode]
  <2>1. Goto(Cmd, Append(stack, f), t)
    BY <1>6 DEF LoopStart
  <2>2. /\ u.st.loopcnt = n /\ u.st.breakcnt = Started.st.breakcnt /\ u.indone = Started.indone
        /\ u.lastsig = Started.lastsig /\ u.trapnote = Started.trapnote
    <3> HIDE DEF n
    <3>1. QED
      BY <1>3 DEF Shell, Scoped
  <2>3. t = u
    BY Zenon
  <2>4. f.kind = "loop"
    OBVIOUS
  <2> HIDE DEF t, u, f
  <2>5. Level(stack, Started) /\ Straight(Started)
    BY <1>4, <1>6 DEF LoopStart
  <2>6. Around(Append(stack, f)) = Around(stack) + 1 /\ (Fitting(stack) => Fitting(Append(stack, f)))
    BY <2>4, LoopsPush, FittingPush DEF Through, Fits
  <2>7. Level(Append(stack, f), u)
    BY <1>1, <2>2, <2>5, <2>6 DEF Level, Calm, Even, Straight
  <2>8. QED
    BY <2>1, <2>3, <2>7, PointShapes, GoesLevel
<1>7. CASE Simple
  <2>1. PICK x \in Status : Goto(Post(TRUE), stack, [sh EXCEPT !.exitval = x])
    BY <1>7 DEF Simple
  <2>2. Level(stack, [sh EXCEPT !.exitval = x])
    BY <1>1, SteadyRest, SteadyLevel
  <2>3. QED
    BY <2>1, <2>2, PointShapes, GoesLevel
(* A plain activation that is no loop. *)
<1>8. ASSUME NEW c \in {"eval", "cmd"}, NEW m
      PROVE  Level(Append(stack, [kind |-> c, mode |-> m]), sh)
  <2> DEFINE f == [kind |-> c, mode |-> m]
  <2>1. f.kind \in {"eval", "cmd"}
    OBVIOUS
  <2> HIDE DEF f
  <2>2. Level(Append(stack, f), sh)
    BY <1>1, <2>1, LevelPush DEF CallKinds, Fits
  <2>3. QED
    BY <2>2 DEF f
<1>9. CASE BuiltinStart
  <2>1. Goto(Bltin, Append(stack, [kind |-> "cmd", mode |-> JmpCmd]), sh) /\ Straight(sh)
    BY <1>2, <1>9 DEF BuiltinStart
  <2>2. Level(Append(stack, [kind |-> "cmd", mode |-> JmpCmd]), sh)
    BY <1>8
  <2>3. QED
    BY <2>1, <2>2, PointShapes, GoesLevel
<1>10. CASE BuiltinEnd
  <2>1. PICK x \in Status : Goto(Post(TRUE), Pop(stack), [sh EXCEPT !.exitval = x])
    BY <1>10 DEF BuiltinEnd
  <2>2. Top(stack).kind = "cmd"
    BY <1>10 DEF BuiltinEnd, IInv
  <2>3. Level(Pop(stack), sh)
    BY <1>1, <2>2, LevelPop DEF CallKinds
  <2>4. Level(Pop(stack), [sh EXCEPT !.exitval = x])
    BY <2>3, SteadyRest, SteadyLevel
  <2>5. QED
    BY <2>1, <2>4, PointShapes, GoesLevel
<1>11. CASE EvalStart
  <2>1. Goto(Cmd, Append(stack, [kind |-> "eval", mode |-> JmpEval]), sh)
    BY <1>11 DEF EvalStart
  <2>2. Level(Append(stack, [kind |-> "eval", mode |-> JmpEval]), sh)
    BY <1>8
  <2>3. QED
    BY <2>1, <2>2, PointShapes, GoesLevel
<1>12. CASE Break
  <2>1. PICK n \in 1..MaxLoop, cont \in BOOLEAN :
          LET c == IF n > sh.st.loopcnt THEN sh.st.loopcnt ELSE n
          IN Goto(Post(TRUE), stack, [sh EXCEPT !.st.breakcnt = IF cont THEN -c ELSE c])
    BY <1>12 DEF Break
  <2> DEFINE c == IF n > sh.st.loopcnt THEN sh.st.loopcnt ELSE n
             b == IF cont THEN -c ELSE c
             t == [sh EXCEPT !.st.breakcnt = b]
  <2>2. Goto(Post(TRUE), stack, t)
    BY <2>1
  <2>3. n \in Nat /\ sh.st.loopcnt \in Int
    BY TypeDepths, BoundAssumption DEF Scoped
  <2>4. sh.st.loopcnt \in Nat => b \in Int /\ -sh.st.loopcnt <= b /\ b <= sh.st.loopcnt
    BY <2>3
  <2> HIDE DEF b
  <2>5. /\ t.st.loopcnt = sh.st.loopcnt /\ t.st.breakcnt = b /\ t.indone = sh.indone
        /\ t.lastsig = sh.lastsig /\ t.trapnote = sh.trapnote
    BY DEF Shell, Scoped
  <2> HIDE DEF t
  <2>6. Level(stack, t)
    BY <1>1, <2>4, <2>5 DEF Level, Calm, Even
  <2>7. QED
    BY <2>2, <2>6, PointShapes, GoesLevel
<1>13. CASE ReturnOrExit
  <2>1. PICK exit \in BOOLEAN, x \in Status, operand \in BOOLEAN :
          LET do_exit == exit \/ (sh.fn_depth = 0 /\ sh.dot_depth = 0)
          IN Goto(Jump(IF do_exit THEN JmpExit ELSE JmpFun), stack,
                  [sh_exit(sh) EXCEPT !.exitval = x,
                      !.intrap_exit_n = @ \/ (do_exit /\ operand /\ sh.intrap > 0)])
    BY <1>13 DEF ReturnOrExit
  <2> DEFINE do_exit == exit \/ (sh.fn_depth = 0 /\ sh.dot_depth = 0)
             v == IF do_exit THEN JmpExit ELSE JmpFun
             e == sh.intrap_exit_n \/ (do_exit /\ operand /\ sh.intrap > 0)
             u == [sh_exit(sh) EXCEPT !.exitval = x]
             s == [u EXCEPT !.intrap_exit_n = e]
  <2>2. Goto(Jump(v), stack, s)
    BY <2>1 DEF sh_exit
  <2>3. v \in {JmpExit, JmpFun}
    OBVIOUS
  <2> HIDE DEF v, e
  <2>4. u \in Shell /\ Steady(sh, u)
    <3>1. sh_exit(sh) \in Shell /\ x \in 0..255 /\ Steady(sh, u)
      BY TypeExit, StatusAssumption, SteadyExit
    <3> HIDE DEF sh_exit
    <3>2. QED
      BY <3>1, TypeExitval
  <2> HIDE DEF u
  <2>5. Steady(sh, s)
    BY <2>4, SteadyRest, SteadyTransitive
  <2> HIDE DEF s
  <2>6. Loose(stack, s) /\ Straight(s)
    BY <1>1, <1>2, <1>13, <2>5, SteadyLevel DEF ReturnOrExit, Level, Loose
  <2>7. QED
    BY <2>2, <2>3, <2>6, GoesJump
<1>14. CASE Error
  BY <1>14 DEF Error
<1>15. CASE SetErrexit
  <2>1. PICK on \in BOOLEAN : Goto(Post(TRUE), stack, [sh EXCEPT !.errexit = on])
    BY <1>15 DEF SetErrexit
  <2>2. Level(stack, [sh EXCEPT !.errexit = on])
    BY <1>1, SteadyRest, SteadyLevel
  <2>3. QED
    BY <2>1, <2>2, PointShapes, GoesLevel
<1>16. QED
  BY <1>5, <1>6, <1>7, <1>9, <1>10, <1>11, <1>12, <1>13, <1>14, <1>15

LEMMA TrapLooped ==
    ASSUME HInv, Looped(at, stack, sh), TrapSignal \/ TrapErr \/ TrapDebug
    PROVE  Looped(at, stack, sh)'
<1> USE HInvParts
<1>1. Level(stack, sh)
  BY PointShapes DEF TrapSignal, TrapErr, TrapDebug, TrapAllowed, Looped
<1>2. ASSUME NEW s \in Shell, Steady(sh, s), Goto(Post(TRUE), stack, Recompute(s))
      PROVE  Looped(at, stack, sh)'
  <2>1. Steady(s, Recompute(s))
    BY SteadyScoped DEF Recompute
  <2>2. Level(stack, Recompute(s))
    BY <1>1, <1>2, <2>1, SteadyLevel
  <2>3. QED
    BY <1>2, <2>2, PointShapes, GoesLevel
<1>3. CASE TrapSignal
  <2>1. PICK i \in SigNo, t \in Trap :
          Goto(Post(TRUE), stack,
               Recompute([sh EXCEPT !.trapcom[i] = t, !.st.trapmax = Trapmax(sh, i, t),
                                    !.pend = IF t = None THEN @ \ {i} ELSE @]))
    BY <1>3 DEF TrapSignal
  <2> DEFINE table == [sh.trapcom EXCEPT ![i] = t]
             st == [sh.st EXCEPT !.trapmax = Trapmax(sh, i, t)]
             pend == IF t = None THEN sh.pend \ {i} ELSE sh.pend
             s == [sh EXCEPT !.trapcom = table, !.st = st, !.pend = pend]
  <2>2. Goto(Post(TRUE), stack, Recompute(s))
    <3>1. s = [sh EXCEPT !.trapcom[i] = t, !.st.trapmax = Trapmax(sh, i, t),
                         !.pend = IF t = None THEN @ \ {i} ELSE @]
      BY DEF Shell, Scoped
    <3>2. QED
      BY <2>1, <3>1, Zenon
  <2>3. table \in Table /\ pend \in SUBSET Sig
    BY DEF Shell, Table
  <2>4. st \in Scoped /\ st.loopcnt = sh.st.loopcnt /\ st.breakcnt = sh.st.breakcnt
    <3>1. sh.st \in Scoped /\ sh.st.trapmax \in Nat /\ i \in Nat
      BY TypeDepths, SigAssumption DEF Scoped, SigNo
    <3>2. Trapmax(sh, i, t) \in Nat
      BY <3>1 DEF Trapmax
    <3>3. QED
      BY <3>1, <3>2 DEF Scoped
  <2> HIDE DEF table, st, pend
  <2>5. s \in Shell /\ s.st = st /\ s.indone = sh.indone /\ s.lastsig = sh.lastsig
        /\ s.trapnote = sh.trapnote
    BY <2>3, <2>4 DEF Shell
  <2> HIDE DEF s
  <2>6. Steady(sh, s)
    BY <2>4, <2>5 DEF Steady
  <2>7. QED
    BY <1>2, <2>2, <2>5, <2>6
<1>4. CASE TrapErr
  <2>1. PICK t \in Handler \cup {None} :
          Goto(Post(TRUE), stack, Recompute([sh EXCEPT !.st.err = t]))
    BY <1>4 DEF TrapErr
  <2>2. [sh EXCEPT !.st.err = t] \in Shell
    BY TypeMember
  <2>3. Steady(sh, [sh EXCEPT !.st.err = t])
    BY SteadyScoped
  <2>4. QED
    BY <1>2, <2>1, <2>2, <2>3
<1>5. CASE TrapDebug
  <2>1. PICK t \in Handler \cup {None} :
          Goto(Post(TRUE), stack,
               Recompute([sh EXCEPT !.st.debug = t,
                            !.trapnote = IF t = None THEN {} ELSE @ \cup {"SIGTRAP"}]))
    BY <1>5 DEF TrapDebug
  <2> DEFINE u == [sh EXCEPT !.st.debug = t]
             note == IF t = None THEN {} ELSE u.trapnote \cup {"SIGTRAP"}
             s == [u EXCEPT !.trapnote = note]
  <2>2. u \in Shell /\ Steady(sh, u)
    <3>1. u \in Shell
      BY TypeMember
    <3>2. QED
      BY <3>1, SteadyScoped
  <2>3. Goto(Post(TRUE), stack, Recompute(s))
    BY <2>1, Zenon
  <2>4. note \subseteq u.trapnote \cup {"SIGTRAP"} /\ note \in SUBSET {"SIGSET", "SIGTRAP"}
    <3> HIDE DEF u
    <3>1. QED
      BY <2>2 DEF Shell
  <2>5. s \in Shell /\ Steady(u, s)
    <3> HIDE DEF u, note
    <3>1. QED
      BY <2>2, <2>4, KeepsNote, SteadyRest
  <2> HIDE DEF s, u
  <2>6. Steady(sh, s)
    BY <2>2, <2>5, SteadyTransitive
  <2>7. QED
    BY <1>2, <2>3, <2>5, <2>6
<1>6. QED
  BY <1>3, <1>4, <1>5

(* A call starts without loops. *)
LEMMA CallLooped ==
    ASSUME HInv, Looped(at, stack, sh), MaxFrames <= MAXDEPTH, CallFunction \/ CallPosix
    PROVE  Looped(at, stack, sh)'
<1> USE HInvParts
<1>1. Level(stack, sh) /\ Straight(sh)
  BY PointShapes DEF CallFunction, CallPosix, Looped
<1>2. CASE CallFunction
  <2> DEFINE f == [kind |-> "fun", mode |-> JmpFun, prevst |-> sh.st,
                   savsig |-> sh.trapcom, options |-> sh.errexit]
             l == [sh EXCEPT !.st.loopcnt = 0]
             e == [l EXCEPT !.errexit = FALSE]
             inner == sh_sigreset(e, -1)
             b == IF FuncTrace THEN sh.st.debug ELSE None
             s == [inner EXCEPT !.st.debug = b]
             n == s.fn_depth + 1
             t == [s EXCEPT !.fn_depth = n]
             k == Append(stack, f)
  <2>1. Goto(Cmd, k, t)
    <3>1. sh.fn_depth < MAXDEPTH
      BY <1>2, DepthBound DEF CallFunction
    <3>2. ~ (sh.fn_depth >= MAXDEPTH)
      BY <3>1, TypeDepths, BoundAssumption
    <3>3. QED
      BY <1>2, <3>2 DEF CallFunction
  <2>2. f.kind = "fun" /\ f.prevst = sh.st
    OBVIOUS
  <2>3. /\ l \in Shell /\ l.st.loopcnt = 0 /\ l.st.breakcnt = sh.st.breakcnt
        /\ l.indone = sh.indone /\ l.lastsig = sh.lastsig
    <3>1. l \in Shell
      BY TypeMember
    <3>2. QED
      BY <3>1 DEF Shell, Scoped
  <2>4. e \in Shell /\ Steady(l, e) /\ e.lastsig = l.lastsig
    <3> HIDE DEF l
    <3>1. e \in Shell /\ Steady(l, e)
      BY <2>3, TypeErrexit, SteadyRest
    <3>2. QED
      BY <2>3, <3>1 DEF Shell
  <2>5. inner \in Shell /\ Steady(e, inner)
    <3> HIDE DEF e
    <3>1. inner \in Shell
      BY <2>4, TypeSigreset
    <3>2. Steady(e, inner)
      BY <2>4 DEF sh_sigreset, Steady, Shell, Scoped
    <3>3. QED
      BY <3>1, <3>2
  <2>6. s \in Shell /\ Steady(inner, s)
    <3>1. b \in Handler \cup {None}
      BY TypeDepths DEF Scoped
    <3> HIDE DEF inner, b
    <3>2. s \in Shell
      BY <2>5, <3>1, TypeMember
    <3>3. QED
      BY <2>5, <3>2, SteadyScoped
  <2>7. Steady(s, t)
    <3> HIDE DEF s, n
    <3>1. QED
      BY <2>6, SteadyRest
  <2>8. inner.trapnote = {}
    <3> HIDE DEF e
    <3>1. QED
      BY <2>4 DEF sh_sigreset, Shell
  <2> HIDE DEF f, l, e, inner, s, t
  <2>9. Steady(l, inner) /\ Steady(inner, t)
    BY <2>4, <2>5, <2>6, <2>7, SteadyTransitive
  <2>10. Fitting(stack) /\ Fits(f, Around(stack)) => Fitting(k)
    BY FittingPush
  <2>11. Around(k) = 0
    BY <2>2, LoopsPush DEF Through, CallKinds
  <2> HIDE DEF k
  <2>12. sh.indone \/ Fits(f, Around(stack))
    BY <1>1, <2>2 DEF Level, Even, Straight, Fits
  <2>13. Level(k, inner)
    BY <1>1, <2>3, <2>8, <2>9, <2>10, <2>11, <2>12 DEF Level, Calm, Even, Straight, Steady
  <2>14. Level(k, t)
    BY <2>9, <2>13, SteadyLevel
  <2>15. QED
    BY <2>1, <2>14, PointShapes, GoesLevel
<1>3. CASE CallPosix
  <2> DEFINE f == [kind |-> "posix", mode |-> JmpFun, loopcnt |-> sh.st.loopcnt]
             s == [sh EXCEPT !.st.loopcnt = 0]
             n == s.dot_depth + 1
             t == [s EXCEPT !.dot_depth = n]
             k == Append(stack, f)
  <2>1. Goto(Cmd, k, t)
    <3>1. /\ Count(stack, {"posix"}) <= Len(stack) /\ Len(stack) \in Nat
          /\ Count(stack, {"posix"}) \in Nat
      BY CountBound, StackTop
    <3>2. ~ (sh.dot_depth >= MAXDEPTH)
      BY <1>3, <3>1, BoundAssumption DEF Good, Agree, Room, CallPosix
    <3>3. QED
      BY <1>3, <3>2 DEF CallPosix
  <2>2. f.kind = "posix" /\ f.loopcnt = sh.st.loopcnt
    OBVIOUS
  <2>3. /\ s \in Shell /\ s.st.loopcnt = 0 /\ s.st.breakcnt = sh.st.breakcnt
        /\ s.indone = sh.indone /\ s.lastsig = sh.lastsig /\ s.trapnote = sh.trapnote
    <3>1. s \in Shell
      BY TypeMember
    <3>2. QED
      BY <3>1 DEF Shell, Scoped
  <2>4. Steady(s, t)
    <3> HIDE DEF s, n
    <3>1. QED
      BY <2>3, SteadyRest
  <2> HIDE DEF f, s, t
  <2>5. Fitting(stack) /\ Fits(f, Around(stack)) => Fitting(k)
    BY FittingPush
  <2>6. Around(k) = 0
    BY <2>2, LoopsPush DEF Through, CallKinds
  <2> HIDE DEF k
  <2>7. sh.indone \/ Fits(f, Around(stack))
    BY <1>1, <2>2 DEF Level, Even, Fits
  <2>8. Level(k, s)
    BY <1>1, <2>3, <2>5, <2>6, <2>7 DEF Level, Calm, Even, Straight
  <2>9. Level(k, t)
    BY <2>4, <2>8, SteadyLevel
  <2>10. QED
    BY <2>1, <2>9, PointShapes, GoesLevel
<1>4. QED
  BY <1>2, <1>3

LEMMA EndLooped ==
    ASSUME HInv, Looped(at, stack, sh), LoopEnd \/ EvalEnd \/ PosixEnd \/ FunctionEnd \/ TrapEnd
    PROVE  Looped(at, stack, sh)'
<1> USE HInvParts
<1>1. Level(stack, sh) /\ Loose(stack, sh)
  BY PointShapes DEF LoopEnd, EvalEnd, PosixEnd, FunctionEnd, TrapEnd, Looped
<1>2. CASE LoopEnd
  <2> DEFINE b == IF sh.st.breakcnt < 0 THEN sh.st.breakcnt + 1 ELSE sh.st.breakcnt
             c == IF b > 0 THEN b - 1 ELSE b
             s == [sh EXCEPT !.st.breakcnt = c]
             t == [s EXCEPT !.st.loopcnt = @ - 1]
             z == [sh EXCEPT !.st.breakcnt = 0]
             k == Pop(stack)
  <2>1. \/ Goto(Cmd, stack, z)
        \/ Goto(Post(FALSE), k, t)
    BY <1>2, Zenon DEF LoopEnd
  <2>2. Around(k) \in Nat /\ Around(stack) = Around(k) + 1
    BY <1>2, LoopsPop DEF LoopEnd, Through
  <2>3. Fitting(stack) => Fitting(k)
    BY <1>2, FittingPop DEF LoopEnd
  <2>4. sh.st.breakcnt \in Int /\ sh.st.loopcnt \in Int
    BY TypeDepths DEF Scoped
  <2>5. /\ c \in Int
        /\ \A m \in Int : -m <= sh.st.breakcnt /\ sh.st.breakcnt <= m /\ m >= 1 =>
              -(m - 1) <= c /\ c <= m - 1
    BY <2>4
  <2>6. /\ z.st.breakcnt = 0 /\ z.st.loopcnt = sh.st.loopcnt /\ z.indone = sh.indone
        /\ z.lastsig = sh.lastsig /\ z.trapnote = sh.trapnote
    BY DEF Shell, Scoped
  <2>7. /\ t.st.breakcnt = c /\ t.st.loopcnt = sh.st.loopcnt - 1 /\ t.indone = sh.indone
        /\ t.lastsig = sh.lastsig /\ t.trapnote = sh.trapnote
    <3> HIDE DEF c
    <3>1. QED
      BY DEF Shell, Scoped
  <2> HIDE DEF c, t, z, k
  <2>8. Level(stack, z)
    BY <1>1, <2>2, <2>6 DEF Level, Calm, Even
  <2>9. ASSUME ~ sh.indone
        PROVE  Calm(t) /\ Fitting(k) /\ Even(k, t)
    <3>1. Calm(sh) /\ Fitting(stack) /\ Even(stack, sh)
      BY <1>1, <2>9 DEF Level
    <3>2. sh.st.loopcnt = Around(k) + 1 /\ sh.st.loopcnt >= 1
      BY <2>2, <3>1 DEF Even
    <3>3. -(sh.st.loopcnt - 1) <= c /\ c <= sh.st.loopcnt - 1
      BY <2>4, <2>5, <3>1, <3>2 DEF Even
    <3>4. QED
      BY <2>2, <2>3, <2>5, <2>7, <3>1, <3>2, <3>3 DEF Calm, Even
  <2>10. Level(k, t)
    BY <2>7, <2>9 DEF Level
  <2>11. QED
    BY <2>1, <2>8, <2>10, PointShapes, GoesLevel
<1>3. CASE EvalEnd
  <2>1. Level(Pop(stack), sh)
    BY <1>1, <1>3, LevelPop DEF EvalEnd, CallKinds
  <2>2. Goto(Post(TRUE), Pop(stack), sh)
    BY <1>3 DEF EvalEnd
  <2>3. QED
    BY <2>1, <2>2, PointShapes, GoesLevel
<1>4. CASE PosixEnd
  <2>1. Around(stack) = 0
    BY <1>4, LoopsPop DEF PosixEnd, Through, CallKinds
  <2>2. Straight(sh)
    BY <1>1, <2>1 DEF Level, Even, Straight
  <2>3. PosixLeave(0) /\ Top(stack).kind = "posix"
    BY <1>4 DEF PosixEnd
  <2>4. QED
    BY <1>1, <2>2, <2>3, PosixLeaveLooped
<1>5. CASE FunctionEnd
  BY <1>1, <1>5, FunctionLeaveLooped DEF FunctionEnd
<1>6. CASE TrapEnd
  BY <1>1, <1>6, TrapReturnLooped DEF TrapEnd
<1>7. QED
  BY <1>2, <1>3, <1>4, <1>5, <1>6

LEMMA UnwindLooped ==
    ASSUME HInv, Looped(at, stack, sh),
           \/ UnwindLoop \/ UnwindEval \/ UnwindBuiltin
           \/ UnwindPosix \/ UnwindFunction \/ UnwindTrap
    PROVE  Looped(at, stack, sh)'
<1> USE HInvParts
<1>1. at.pc = "jump"
  BY DEF UnwindLoop, UnwindEval, UnwindBuiltin, UnwindPosix, UnwindFunction, UnwindTrap
<1>2. /\ Loose(stack, sh) /\ at = Jump(at.val)
      /\ (sh.indone \/ at.val = JmpExit \/ (at.val = JmpFun /\ Straight(sh)))
  <2>1. at = Jump(at.val)
    BY <1>1 DEF Point, Jump, Read, Cmd, Exec, Bltin, Exited, Post
  <2>2. QED
    BY <1>1, <2>1 DEF Looped
<1>3. ASSUME Top(stack).kind \in {"loop", "eval", "cmd"}, Goto(at, Pop(stack), sh)
      PROVE  Looped(at, stack, sh)'
  <2>1. Loose(Pop(stack), sh)
    BY <1>2, <1>3, LoosePop
  <2>2. QED
    BY <1>2, <1>3, <2>1, GoesJump
<1>4. ASSUME Top(stack).kind \in {"eval", "cmd"}, at.val <= JmpCmd, Goto(Post(TRUE), Pop(stack), sh)
      PROVE  Looped(at, stack, sh)'
  <2>1. sh.indone
    BY <1>2, <1>4 DEF JmpExit, JmpFun, JmpCmd
  <2>2. Level(Pop(stack), sh)
    BY <2>1 DEF Level
  <2>3. QED
    BY <1>4, <2>2, PointShapes, GoesLevel
<1>5. CASE UnwindLoop
  BY <1>3, <1>5 DEF UnwindLoop
<1>6. CASE UnwindEval
  <2>1. at.val <= JmpEval => at.val <= JmpCmd
    BY <1>1, PointParts DEF JmpEval, JmpCmd, JmpVal, JmpMode, JmpFun, JmpErrExit, JmpExit, JmpErrFn
  <2>2. QED
    BY <1>3, <1>4, <1>6, <2>1 DEF UnwindEval
<1>7. CASE UnwindBuiltin
  BY <1>3, <1>4, <1>7 DEF UnwindBuiltin
<1>8. CASE UnwindPosix
  <2>1. at.val \in {0, JmpFun} => Straight(sh)
    BY <1>1, <1>2, PointParts, Numbers DEF JmpExit, JmpFun, Straight
  <2>2. sh.indone \/ at.val \in {0, JmpFun, JmpExit}
    BY <1>2
  <2>3. QED
    BY <1>2, <1>8, <2>1, <2>2, PosixLeaveLooped DEF UnwindPosix
<1>9. CASE UnwindFunction
  BY <1>2, <1>9, FunctionLeaveLooped DEF UnwindFunction
<1>10. CASE UnwindTrap
  <2>1. CASE at.val <= JmpTrap \/ sh.indone
    <3>1. sh.indone
      BY <1>2, <2>1 DEF JmpExit, JmpFun, JmpTrap
    <3>2. Level(stack, sh) /\ TrapReturn /\ Top(stack).kind \in TrapKinds
      BY <1>10, <2>1, <3>1 DEF UnwindTrap, Level
    <3>3. QED
      BY <3>2, TrapReturnLooped
  <2>2. CASE ~(at.val <= JmpTrap \/ sh.indone)
    <3> DEFINE s == LeaveTrap(sh, Top(stack))
    <3>1. Goto(at, Pop(stack), s)
      BY <1>10, <2>2 DEF UnwindTrap
    <3>2. Loose(Pop(stack), sh)
      BY <1>2, <1>10, LoosePop DEF UnwindTrap, TrapKinds
    <3>3. Steady(sh, s)
      BY SteadyLeave
    <3> HIDE DEF s
    <3>4. Loose(Pop(stack), s) /\ (Straight(sh) => Straight(s)) /\ s.indone = sh.indone
      BY <3>2, <3>3, SteadyLevel DEF Steady
    <3>5. QED
      BY <1>2, <3>1, <3>4, GoesJump
  <2>3. QED
    BY <2>1, <2>2
<1>11. QED
  BY <1>5, <1>6, <1>7, <1>8, <1>9, <1>10

(* Deliveries are never forgotten. *)
LEMMA SentGrows ==
    ASSUME HInv, [Next]_vars, NoSignal'
    PROVE  NoSignal /\ ~ \E i \in Sig : Signal(i)
<1> USE HInvParts
<1>1. ASSUME NEW i \in Sig, Signal(i)
      PROVE  FALSE
  <2>1. sent' = [sent EXCEPT ![i] = @ + 1] /\ sent'[i] = 0
    BY <1>1 DEF Signal, NoSignal
  <2>2. QED
    BY <2>1
<1>2. ASSUME Counted \/ Starts
      PROVE  NoSignal
  <2>1. ASSUME NEW i \in Sig, sent' = [sent EXCEPT ![i] = @ + 1]
        PROVE  FALSE
    BY <2>1 DEF NoSignal
  <2>2. ~ Arrives
    BY <2>1 DEF Arrives
  <2>3. sent' = sent
    BY <1>2, <2>2 DEF Counted, Quiet, Starts
  <2>4. QED
    BY <2>3 DEF NoSignal
<1>3. CASE Step
  <2>1. CASE NextLine \/ ReadLine \/ EndOfInput \/ SigCheck \/ UnwindMain
    BY <1>1, <1>2, <2>1, MainSafe
  <2>2. CASE \/ SimpleCommand \/ LoopStart \/ Simple \/ BuiltinStart \/ BuiltinEnd
             \/ EvalStart \/ Break \/ ReturnOrExit \/ Error \/ SetErrexit
    BY <1>1, <1>2, <2>2, CommandSafe
  <2>3. CASE TrapSignal \/ TrapErr \/ TrapDebug
    BY <1>1, <1>2, <2>3, TrapSafe
  <2>4. CASE CallFunction \/ CallPosix
    BY <1>1, <1>2, <2>4, CallSafe
  <2>5. CASE LoopEnd \/ EvalEnd \/ PosixEnd \/ FunctionEnd \/ TrapEnd
    BY <1>1, <1>2, <2>5, EndSafe
  <2>6. CASE \/ UnwindLoop \/ UnwindEval \/ UnwindBuiltin
             \/ UnwindPosix \/ UnwindFunction \/ UnwindTrap
    BY <1>1, <1>2, <2>6, UnwindSafe
  <2>7. CASE ScanNext \/ ScanEnd \/ PostExec
    BY <1>1, <1>2, <2>7, ScanSafe
  <2>8. QED
    BY <1>3, <2>1, <2>2, <2>3, <2>4, <2>5, <2>6, <2>7 DEF Step
<1>4. CASE UNCHANGED vars
  BY <1>1, <1>4 DEF vars, NoSignal
<1>5. QED
  BY <1>1, <1>3, <1>4 DEF Next

(* The inductive invariant. *)
LInv == HInv /\ (NoSignal => Looped(at, stack, sh))

LEMMA LInvInit == Init => LInv
<1> SUFFICES ASSUME Init
             PROVE  LInv
  OBVIOUS
<1>1. HInv /\ stack \in Stack
  BY HInvInit, HInvParts
<1> DEFINE f == [kind |-> "main", mode |-> IF Interactive THEN JmpErrExit ELSE JmpExit]
<1>2. stack = <<f>> /\ f.kind = "main"
  BY DEF Init
<1> HIDE DEF f
<1>3. Len(stack) = 1 /\ stack[1] = f /\ 1..Len(stack) = {1} /\ Top(stack).kind = "main"
  BY <1>2 DEF Top
<1>4. Around(stack) = 0
  BY <1>1, <1>3, LoopsMain
<1>5. Fitting(stack)
  BY <1>2, <1>3 DEF Fitting, Fits
<1>6. Calm(sh) /\ sh.st.loopcnt = 0 /\ sh.st.breakcnt = 0
  BY DEF Init, Calm
<1>7. Level(stack, sh) /\ Loose(stack, sh)
  BY <1>4, <1>5, <1>6 DEF Level, Loose, Even
<1>8. at.pc # "jump" /\ at.pc # "chk" /\ at \notin {Exec, Bltin}
  BY PointShapes DEF Init
<1>9. QED
  BY <1>1, <1>7, <1>8 DEF LInv, Looped

LEMMA LInvNext ==
    ASSUME MaxFrames <= MAXDEPTH, "error" \notin Ops
    PROVE  LInv /\ [Next]_vars => LInv'
<1> SUFFICES ASSUME HInv, NoSignal => Looped(at, stack, sh), [Next]_vars, NoSignal'
             PROVE  Looped(at, stack, sh)'
  BY HInvNext DEF LInv
<1>1. NoSignal /\ Looped(at, stack, sh) /\ ~ \E i \in Sig : Signal(i)
  BY SentGrows
<1>2. CASE Step
  <2>1. CASE NextLine \/ ReadLine \/ EndOfInput \/ SigCheck \/ UnwindMain
    BY <1>1, <2>1, MainLooped
  <2>2. CASE \/ SimpleCommand \/ LoopStart \/ Simple \/ BuiltinStart \/ BuiltinEnd
             \/ EvalStart \/ Break \/ ReturnOrExit \/ Error \/ SetErrexit
    BY <1>1, <2>2, CommandLooped
  <2>3. CASE TrapSignal \/ TrapErr \/ TrapDebug
    BY <1>1, <2>3, TrapLooped
  <2>4. CASE CallFunction \/ CallPosix
    BY <1>1, <2>4, CallLooped
  <2>5. CASE LoopEnd \/ EvalEnd \/ PosixEnd \/ FunctionEnd \/ TrapEnd
    BY <1>1, <2>5, EndLooped
  <2>6. CASE \/ UnwindLoop \/ UnwindEval \/ UnwindBuiltin
             \/ UnwindPosix \/ UnwindFunction \/ UnwindTrap
    BY <1>1, <2>6, UnwindLooped
  <2>7. CASE ScanNext \/ ScanEnd \/ PostExec
    BY <1>1, <2>7, ScanLooped
  <2>8. QED
    BY <1>2, <2>1, <2>2, <2>3, <2>4, <2>5, <2>6, <2>7 DEF Step
<1>3. CASE UNCHANGED vars
  <2>1. at' = at /\ stack' = stack /\ sh' = sh
    BY <1>3 DEF vars
  <2> DEFINE Q(p, k, s) == Looped(p, k, s)
  <2>2. Q(at, stack, sh) => Q(at', stack', sh')
    BY <2>1
  <2>3. QED
    BY <1>1, <2>2
<1>4. QED
  BY <1>1, <1>2, <1>3 DEF Next

(* As long as no signal has been delivered, in programs below the recursion limit in
   which no command fails with an error, loopcnt counts the loops around the current
   command in its function and breakcnt asks for no more than these, however functions,
   dot scripts and handlers are left: sh_funscope and b_dot_cmd put the caller's count
   back, and no return or exit carries a break along. *)
THEOREM LoopsAreCounted ==
    ASSUME MaxFrames <= MAXDEPTH, "error" \notin Ops
    PROVE  Spec => []((\A i \in Sig : sent[i] = 0) => LoopsCounted)
<1>1. LInv => (NoSignal => LoopsCounted)
  <2>1. SUFFICES ASSUME HInv, Looped(at, stack, sh)
                 PROVE  LoopsCounted
    BY DEF LInv
  <2>2. Cardinality(Enclosing) = Around(stack)
    <3>1. Enclosing = {j \in 1..Len(stack) : /\ stack[j].kind = "loop"
                          /\ \A i \in 1..Len(stack) : stack[i].kind \in CallKinds => i < j}
      BY DEF Enclosing, FunctionFrames, CallKinds
    <3>2. QED
      BY <3>1 DEF Around, Loops
  <2>3. at.pc # "jump" /\ ~ sh.indone => Even(stack, sh)
    BY <2>1 DEF Looped, Level
  <2>4. at = Cmd => at.pc # "jump"
    BY PointShapes
  <2>5. Around(stack) \in Nat
    BY <2>1, HInvParts, LoopsPush
  <2>6. Even(stack, sh) => /\ sh.st.loopcnt = Around(stack)
                           /\ sh.st.breakcnt \in -Around(stack)..Around(stack)
    BY <2>5 DEF Even
  <2>7. QED
    BY <2>2, <2>3, <2>4, <2>6 DEF LoopsCounted, BreakStaysInside
<1>2. Spec => [](NoSignal => LoopsCounted)
  BY <1>1, LInvInit, LInvNext, PTL DEF Spec
<1>3. QED
  BY <1>2 DEF NoSignal

-------------------------------------------------------------------------------
(* The scopes of the trap handlers: TrapFrames implements TrapScopes. *)

(* A nonempty set of numbers has a least one. *)
LEMMA Least ==
    ASSUME NEW S \in SUBSET Nat, S # {}
    PROVE  \E n \in S : \A m \in S : n <= m
<1>1. PICK n \in S : \A m \in S : ~ (<<m, n>> \in OpToRel(<, Nat))
  BY NatLessThanWellFounded, WFMin, Zenon
<1>2. \A m, k \in Nat : <<m, k>> \in OpToRel(<, Nat) <=> m < k
  BY DEF OpToRel
<1>3. \A m \in S : ~ (m < n)
  BY <1>1, <1>2
<1>4. QED
  BY <1>3

UpTo(F, j) == {i \in F : i <= j}

(* Up to a greater member there are more of them. *)
LEMMA UpToGrows ==
    ASSUME NEW N \in Nat, NEW F \in SUBSET (1..N), NEW j \in Int, NEW m \in F, j < m
    PROVE  /\ Cardinality(UpTo(F, j)) \in Nat
           /\ Cardinality(UpTo(F, j)) < Cardinality(UpTo(F, m))
<1>0. \A i \in F : i \in Nat /\ 1 <= i /\ i <= N
  OBVIOUS
<1>1. IsFiniteSet(F)
  <2>1. IsFiniteSet(1..N)
    BY FS_Interval
  <2>2. QED
    BY <2>1, FS_Subset
<1>2. UpTo(F, j) \subseteq F /\ UpTo(F, m) \subseteq F
  BY DEF UpTo
<1>3. IsFiniteSet(UpTo(F, j)) /\ IsFiniteSet(UpTo(F, m))
  BY <1>1, <1>2, FS_Subset
<1>4. UpTo(F, j) \subseteq UpTo(F, m) /\ UpTo(F, j) # UpTo(F, m)
  <2>1. m \in UpTo(F, m) /\ m \notin UpTo(F, j)
    BY <1>0 DEF UpTo
  <2>2. \A i \in F : i <= j => i <= m
    BY <1>0
  <2>3. QED
    BY <2>1, <2>2 DEF UpTo
<1>5. /\ Cardinality(UpTo(F, j)) <= Cardinality(UpTo(F, m))
      /\ Cardinality(UpTo(F, j)) # Cardinality(UpTo(F, m))
  BY <1>3, <1>4, FS_Subset
<1>6. Cardinality(UpTo(F, j)) \in Nat /\ Cardinality(UpTo(F, m)) \in Nat
  BY <1>3, FS_CardinalityType
<1>7. QED
  BY <1>5, <1>6

(* The n-th member is there, and is the only one. *)
LEMMA NthIs ==
    ASSUME NEW N \in Nat, NEW F \in SUBSET (1..N), NEW n \in 1..Cardinality(F)
    PROVE  Nth(F, n) \in F /\ Cardinality(UpTo(F, Nth(F, n))) = n
<1> DEFINE S == {m \in Nat : Cardinality(UpTo(F, m)) >= n}
<1>0. \A i \in F : i \in Nat /\ 1 <= i /\ i <= N
  OBVIOUS
<1>1. IsFiniteSet(F) /\ Cardinality(F) \in Nat
  <2>1. IsFiniteSet(1..N)
    BY FS_Interval
  <2>2. QED
    BY <2>1, FS_Subset, FS_CardinalityType
<1>2. N \in S
  <2>1. UpTo(F, N) = F
    BY <1>0 DEF UpTo
  <2>2. QED
    BY <1>1, <2>1
<1>3. PICK m \in S : \A i \in S : m <= i
  BY <1>2, Least
<1>4. m # 0
  <2>1. UpTo(F, 0) = {}
    <3>1. \A i \in F : ~ (i <= 0)
      BY <1>0
    <3>2. QED
      BY <3>1 DEF UpTo
  <2>2. Cardinality(UpTo(F, 0)) = 0
    BY <2>1, FS_EmptySet
  <2>3. QED
    BY <2>2
<1>5. m \in Nat /\ m - 1 \in Nat /\ Cardinality(UpTo(F, m)) >= n
  BY <1>4
<1>6. UpTo(F, m - 1) \subseteq F /\ IsFiniteSet(UpTo(F, m - 1))
  BY <1>1, FS_Subset DEF UpTo
<1>7. Cardinality(UpTo(F, m - 1)) \in Nat /\ Cardinality(UpTo(F, m - 1)) < n
  <2>1. Cardinality(UpTo(F, m - 1)) \in Nat
    BY <1>6, FS_CardinalityType
  <2>2. m - 1 \notin S
    BY <1>3, <1>5
  <2>3. QED
    BY <1>1, <1>5, <2>1, <2>2
<1>8. m \in F
  <2>1. m \notin F => UpTo(F, m) = UpTo(F, m - 1)
    <3>1. m \notin F => \A i \in F : i <= m <=> i <= m - 1
      BY <1>0, <1>5
    <3>2. QED
      BY <3>1 DEF UpTo
  <2>2. QED
    BY <1>1, <1>5, <1>7, <2>1
<1>9. Cardinality(UpTo(F, m)) = n
  <2>1. UpTo(F, m) = UpTo(F, m - 1) \cup {m} /\ m \notin UpTo(F, m - 1)
    <3>1. \A i \in F : i <= m <=> i <= m - 1 \/ i = m
      BY <1>0, <1>5
    <3>2. m <= m /\ ~ (m <= m - 1)
      BY <1>5
    <3>3. QED
      BY <1>8, <3>1, <3>2 DEF UpTo
  <2>2. Cardinality(UpTo(F, m)) = Cardinality(UpTo(F, m - 1)) + 1
    BY <1>6, <2>1, FS_AddElement
  <2>3. QED
    BY <1>1, <1>5, <1>7, <2>2
<1>10. \E j \in F : Cardinality({i \in F : i <= j}) = n
  BY <1>8, <1>9 DEF UpTo
<1>11. QED
  BY <1>10 DEF Nth, UpTo

LEMMA NthOnly ==
    ASSUME NEW N \in Nat, NEW F \in SUBSET (1..N), NEW n \in 1..Cardinality(F),
           NEW j \in F, Cardinality(UpTo(F, j)) = n
    PROVE  j = Nth(F, n)
<1>1. Nth(F, n) \in F /\ Cardinality(UpTo(F, Nth(F, n))) = n
  BY NthIs
<1>0. \A i \in F : i \in Nat /\ 1 <= i /\ i <= N
  OBVIOUS
<1>2. ASSUME NEW a \in F, NEW b \in F, a < b
      PROVE  Cardinality(UpTo(F, a)) # Cardinality(UpTo(F, b))
  <2>1. /\ Cardinality(UpTo(F, a)) \in Nat
        /\ Cardinality(UpTo(F, a)) < Cardinality(UpTo(F, b))
    <3>1. a \in Int
      BY <1>0
    <3>2. QED
      BY <1>2, <3>1, UpToGrows
  <2>2. QED
    BY <2>1
<1>3. ~ (j < Nth(F, n)) /\ ~ (Nth(F, n) < j)
  BY <1>1, <1>2
<1>4. j \in Nat /\ Nth(F, n) \in Nat
  BY <1>0, <1>1, Zenon
<1>5. QED
  BY <1>3, <1>4

(* A greater member is the last, and the others keep their places. *)
LEMMA NthLast ==
    ASSUME NEW N \in Nat, NEW F \in SUBSET (1..N)
    PROVE  /\ Cardinality(F) \in Nat
           /\ Cardinality(F \cup {N + 1}) = Cardinality(F) + 1
           /\ Nth(F \cup {N + 1}, Cardinality(F) + 1) = N + 1
           /\ \A n \in 1..Cardinality(F) : Nth(F \cup {N + 1}, n) = Nth(F, n)
<1> DEFINE G == F \cup {N + 1}
           c == Cardinality(F)
<1>0. \A i \in F : i \in Nat /\ 1 <= i /\ i <= N
  OBVIOUS
<1>1. IsFiniteSet(F) /\ c \in Nat
  <2>1. IsFiniteSet(1..N)
    BY FS_Interval
  <2>2. QED
    BY <2>1, FS_Subset, FS_CardinalityType
<1>2. N + 1 \notin F
  OBVIOUS
<1>3. Cardinality(G) = c + 1
  BY <1>1, <1>2, FS_AddElement
<1>4. N + 1 \in Nat /\ G \in SUBSET (1..N + 1) /\ N + 1 \in G
  OBVIOUS
<1>5. UpTo(G, N + 1) = G /\ \A j \in F : UpTo(G, j) = UpTo(F, j)
  <2>1. \A i \in G : i <= N + 1
    BY <1>0
  <2>2. \A j \in F : ~ (N + 1 <= j)
    BY <1>0
  <2>3. QED
    BY <2>1, <2>2 DEF UpTo
<1> HIDE DEF G, c
<1>6. Nth(G, c + 1) = N + 1
  <2>1. c + 1 \in 1..Cardinality(G)
    BY <1>1, <1>3
  <2>2. Cardinality(UpTo(G, N + 1)) = c + 1
    BY <1>3, <1>5
  <2>3. QED
    BY <1>4, <2>1, <2>2, NthOnly
<1>7. ASSUME NEW n \in 1..c
      PROVE  Nth(G, n) = Nth(F, n)
  <2>1. Nth(F, n) \in F /\ Cardinality(UpTo(F, Nth(F, n))) = n
    BY NthIs DEF c
  <2>2. n \in 1..Cardinality(G) /\ Nth(F, n) \in G
    BY <1>1, <1>3, <2>1 DEF G
  <2>3. Cardinality(UpTo(G, Nth(F, n))) = n
    BY <1>5, <2>1
  <2>4. QED
    BY <1>4, <2>2, <2>3, NthOnly
<1>8. QED
  BY <1>1, <1>3, <1>6, <1>7 DEF G, c
(* The n-th scope is that of the caller of the n-th function on the chain, as it was saved. *)
LEMMA ScopesParts ==
    ASSUME NEW k \in Stack, NEW table
    PROVE  /\ Len(k) \in Nat /\ FunsOf(k) \in SUBSET (1..Len(k)) /\ Cardinality(FunsOf(k)) \in Nat
           /\ DOMAIN ScopesOf(k, table) = 1..Cardinality(FunsOf(k)) + 1
           /\ Len(ScopesOf(k, table)) = Cardinality(FunsOf(k)) + 1
           /\ ScopesOf(k, table)[Cardinality(FunsOf(k)) + 1] = Handlers(table)
           /\ \A n \in 1..Cardinality(FunsOf(k)) :
                 /\ Nth(FunsOf(k), n) \in FunsOf(k)
                 /\ ScopesOf(k, table)[n] = Handlers(k[Nth(FunsOf(k), n)].savsig)
<1> DEFINE F == FunsOf(k)
           c == Cardinality(F)
<1>1. Len(k) \in Nat /\ F \in SUBSET (1..Len(k))
  BY StackTop DEF FunsOf
<1> HIDE DEF F
<1>2. c \in Nat
  BY <1>1, NthLast
<1>3. \A n \in 1..c : Nth(F, n) \in F
  BY <1>1, NthIs
<1>4. ScopesOf(k, table) = [n \in 1..c + 1 |-> Handlers(IF n <= c THEN k[Nth(F, n)].savsig ELSE table)]
  BY DEF ScopesOf, F
<1> HIDE DEF c
<1> DEFINE z == ScopesOf(k, table)
<1>5. /\ DOMAIN z = 1..c + 1 /\ z[c + 1] = Handlers(table)
      /\ \A n \in 1..c : z[n] = Handlers(k[Nth(F, n)].savsig)
  <2>1. c + 1 \in 1..c + 1 /\ ~ (c + 1 <= c) /\ \A n \in 1..c : n \in 1..c + 1 /\ n <= c
    BY <1>2
  <2>2. QED
    BY <1>4, <2>1
<1>6. Len(z) = c + 1
  <2>1. c + 1 \in Nat
    BY <1>2
  <2>2. \E S : z \in [1..c + 1 -> S]
    <3>1. z \in [1..c + 1 -> {z[n] : n \in 1..c + 1}]
      BY <1>4
    <3>2. QED
      BY <3>1
  <2>3. QED
    BY <1>5, <2>1, <2>2
<1>7. QED
  BY <1>1, <1>2, <1>3, <1>5, <1>6 DEF F, c

(* Functions that are alike. *)
LEMMA ScopesAlike ==
    ASSUME NEW k \in Stack, NEW l, NEW table, FunsOf(l) = FunsOf(k),
           \A j \in FunsOf(k) : l[j].savsig = k[j].savsig
    PROVE  ScopesOf(l, table) = ScopesOf(k, table)
<1> DEFINE F == FunsOf(k)
           c == Cardinality(F)
<1>1. c \in Nat /\ \A n \in 1..c : Nth(F, n) \in F
  BY ScopesParts
<1>2. ASSUME NEW n \in 1..c + 1
      PROVE  (IF n <= c THEN l[Nth(F, n)].savsig ELSE table) = IF n <= c THEN k[Nth(F, n)].savsig ELSE table
  <2>1. n <= c => n \in 1..c
    BY <1>1
  <2>2. QED
    BY <1>1, <2>1
<1>3. QED
  BY <1>2 DEF ScopesOf
(* Other activations have no scope. *)
LEMMA ScopesPush ==
    ASSUME NEW k \in Stack, NEW f, f.kind # "fun", NEW table
    PROVE  ScopesOf(Append(k, f), table) = ScopesOf(k, table)
<1> DEFINE l == Append(k, f)
<1>1. /\ Len(k) \in Nat /\ Len(l) = Len(k) + 1 /\ l[Len(k) + 1] = f
      /\ \A j \in 1..Len(k) : l[j] = k[j]
  BY Pushed
<1> HIDE DEF l
<1>2. \A j \in 1..Len(l) : (j \in 1..Len(k) /\ l[j] = k[j]) \/ l[j].kind # "fun"
  BY <1>1
<1>3. \A j \in 1..Len(k) : j \in 1..Len(l)
  BY <1>1
<1>4. FunsOf(l) = FunsOf(k) /\ \A j \in FunsOf(k) : l[j].savsig = k[j].savsig
  BY <1>1, <1>2, <1>3 DEF FunsOf
<1>5. QED
  BY <1>4, ScopesAlike DEF l

LEMMA ScopesPop ==
    ASSUME NEW k \in Stack, Top(k).kind \notin {"main", "fun"}, NEW table
    PROVE  ScopesOf(Pop(k), table) = ScopesOf(k, table)
<1> DEFINE l == Pop(k)
<1>1. /\ Len(k) \in Nat /\ Len(k) > 1 /\ Len(l) = Len(k) - 1 /\ k[Len(k)].kind # "fun"
      /\ \A j \in 1..Len(k) - 1 : l[j] = k[j]
  BY Popped DEF Top
<1> HIDE DEF l
<1>2. \A j \in 1..Len(l) : j \in 1..Len(k) /\ l[j] = k[j]
  BY <1>1
<1>3. \A j \in 1..Len(k) : j = Len(k) \/ j \in 1..Len(l)
  BY <1>1
<1>4. FunsOf(l) = FunsOf(k) /\ \A j \in FunsOf(k) : l[j].savsig = k[j].savsig
  BY <1>1, <1>2, <1>3 DEF FunsOf
<1>5. QED
  BY <1>4, ScopesAlike DEF l

(* Nor do modes matter. *)
LEMMA ScopesMode ==
    ASSUME NEW k \in Stack, NEW m, NEW table
    PROVE  ScopesOf(SetMode(k, m), table) = ScopesOf(k, table)
<1> DEFINE l == SetMode(k, m)
<1>1. k \in Seq(Frame) /\ Len(k) \in 1..Len(k)
  BY DEF Stack
<1>2. l = [k EXCEPT ![Len(k)] = [k[Len(k)] EXCEPT !.mode = m]]
  BY DEF SetMode
<1>3. Len(l) = Len(k)
  BY <1>1, <1>2
<1>4. \A j \in 1..Len(k) : Alike(k[j], l[j])
  <2>1. \A j \in 1..Len(k) : l[j] = k[j] \/ l[j] = [k[j] EXCEPT !.mode = m]
    BY <1>1, <1>2
  <2>2. \A j \in 1..Len(k) : k[j] \in Frame /\ Alike(k[j], k[j])
    BY <1>1 DEF Alike
  <2>3. \A f \in Frame : Alike(f, [f EXCEPT !.mode = m])
    BY FrameAlike
  <2>4. QED
    BY <2>1, <2>2, <2>3, Zenon
<1> HIDE DEF l
<1>5. FunsOf(l) = FunsOf(k) /\ \A j \in FunsOf(k) : l[j].savsig = k[j].savsig
  BY <1>3, <1>4 DEF FunsOf, Alike
<1>6. QED
  BY <1>5, ScopesAlike DEF l

LEMMA ScopesFault ==
    ASSUME NEW k \in Stack, NEW s, NEW i, NEW table
    PROVE  ScopesOf(fault_frames(s, k, i), table) = ScopesOf(k, table)
BY ScopesMode DEF fault_frames

(* A function has a scope on top of its caller's. *)
LEMMA ScopesCall ==
    ASSUME NEW k \in Stack, NEW l \in Stack, NEW table, Len(l) = Len(k) + 1, l[Len(l)].kind = "fun",
           \A j \in 1..Len(k) : l[j] = k[j]
    PROVE  ScopesOf(l, table) = Append(ScopesOf(k, l[Len(l)].savsig), Handlers(table))
<1> DEFINE F == FunsOf(k)
           G == FunsOf(l)
           c == Cardinality(F)
           z == ScopesOf(k, l[Len(l)].savsig)
           y == ScopesOf(l, table)
<1>1. /\ Len(k) \in Nat /\ F \in SUBSET (1..Len(k)) /\ c \in Nat
      /\ DOMAIN z = 1..c + 1 /\ Len(z) = c + 1 /\ z[c + 1] = Handlers(l[Len(l)].savsig)
      /\ \A n \in 1..c : Nth(F, n) \in F /\ z[n] = Handlers(k[Nth(F, n)].savsig)
  BY ScopesParts
<1>2. G = F \cup {Len(k) + 1}
  <2>1. \A j \in 1..Len(l) : j \in 1..Len(k) \/ j = Len(k) + 1
    BY <1>1
  <2>2. Len(k) + 1 \in 1..Len(l) /\ \A j \in 1..Len(k) : j \in 1..Len(l)
    BY <1>1
  <2>3. QED
    BY <2>1, <2>2 DEF FunsOf
<1>3. /\ Cardinality(G) = c + 1 /\ Nth(G, c + 1) = Len(k) + 1
      /\ \A n \in 1..c : Nth(G, n) = Nth(F, n)
  <2> HIDE DEF F
  <2>1. /\ Cardinality(F \cup {Len(k) + 1}) = Cardinality(F) + 1
        /\ Nth(F \cup {Len(k) + 1}, Cardinality(F) + 1) = Len(k) + 1
        /\ \A n \in 1..Cardinality(F) : Nth(F \cup {Len(k) + 1}, n) = Nth(F, n)
    BY <1>1, NthLast
  <2>2. QED
    BY <1>2, <2>1
<1>4. /\ DOMAIN y = 1..Cardinality(G) + 1 /\ Len(y) = Cardinality(G) + 1
      /\ y[Cardinality(G) + 1] = Handlers(table)
      /\ \A n \in 1..Cardinality(G) : y[n] = Handlers(l[Nth(G, n)].savsig)
  BY ScopesParts
<1> HIDE DEF F, G, z, y
<1> HIDE DEF c
<1>5. /\ DOMAIN y = 1..c + 2 /\ y[c + 2] = Handlers(table)
      /\ \A n \in 1..c + 1 : y[n] = Handlers(l[Nth(G, n)].savsig)
  <2>1. c + 1 + 1 = c + 2
    BY <1>1
  <2>2. QED
    BY <1>3, <1>4, <2>1
<1>6. \A n \in 1..c + 1 : y[n] = z[n]
  <2>1. c + 1 \in 1..c + 1 /\ \A n \in 1..c + 1 : n \in 1..c \/ n = c + 1
    BY <1>1
  <2>2. y[c + 1] = z[c + 1]
    BY <1>1, <1>3, <1>5, <2>1
  <2>3. ASSUME NEW n \in 1..c
        PROVE  y[n] = z[n]
    <3>1. n \in 1..c + 1
      BY <1>1
    <3>2. Nth(F, n) \in 1..Len(k)
      BY <1>1
    <3>3. QED
      BY <1>1, <1>3, <1>5, <3>1, <3>2
  <2>4. QED
    BY <2>1, <2>2, <2>3
<1>7. y = Append(z, Handlers(table))
  <2>1. \E S : y \in [1..c + 2 -> S] /\ z \in [1..c + 1 -> S]
    <3>1. y \in [1..c + 2 -> {y[n] : n \in 1..c + 2}]
      <4>1. y = [n \in 1..c + 2 |-> y[n]]
        BY <1>3, <1>5, <1>1 DEF y, ScopesOf, G
      <4>2. QED
        BY <4>1
    <3>2. z \in [1..c + 1 -> {y[n] : n \in 1..c + 2}]
      <4>1. z = [n \in 1..c + 1 |-> z[n]]
        BY <1>1 DEF z, ScopesOf, F, c
      <4>2. \A n \in 1..c + 1 : n \in 1..c + 2
        BY <1>1
      <4>3. QED
        BY <1>6, <4>1, <4>2
    <3>3. QED
      BY <3>1, <3>2
  <2>2. PICK S : y \in [1..c + 2 -> S] /\ z \in [1..c + 1 -> S]
    BY <2>1
  <2>3. y \in Seq(S) /\ z \in Seq(S)
    BY <1>1, <2>2
  <2>4. Handlers(table) \in S /\ Len(y) = c + 2 /\ Len(z) = c + 1
    BY <1>1, <1>4, <1>5, <2>2, <1>3
  <2>5. QED
    BY <1>1, <1>5, <1>6, <2>3, <2>4
<1>8. QED
  BY <1>7 DEF y, z

-------------------------------------------------------------------------------
(* What a chain and a shell state show of TrapScopes. *)
Shows(z, k, s) == ScopesOf(k, s.trapcom) = z

(* A step of TrapScopes, or none. *)
Turns(z, y) ==
    \/ y = z
    \/ \E i \in SigNo :
          y \in {[z EXCEPT ![Len(z)] = [@ EXCEPT ![i] = t]] : t \in Handler \cup {None}}
    \/ y = Append(z, [i \in SigNo |-> None])
    \/ Len(z) > 1 /\ y = SubSeq(z, 1, Len(z) - 1)
Turned(z) == \E y : Turns(z, y) /\ Shows(y, stack', sh')

(* Most of what the C functions do leaves the table alone. *)
SameTable(s, t) == t.trapcom = s.trapcom

LEMMA SameShown ==
    ASSUME NEW k, NEW s, NEW t, NEW z, Shows(z, k, s), SameTable(s, t)
    PROVE  Shows(z, k, t)
BY DEF Shows, SameTable

(* What is shown is shown after a step that goes where it says. *)
LEMMA GoesShown ==
    ASSUME NEW p, NEW k, NEW s, NEW t, NEW z, Shows(z, k, s), SameTable(s, t), Goto(p, k, t)
    PROVE  Shows(z, stack', sh')
<1>1. Shows(z, k, t)
  BY SameShown
<1>2. stack' = k /\ sh' = t
  BY DEF Goto
<1>3. QED
  BY <1>1, <1>2

(* Two such changes make one, and none is one. *)
LEMMA TableTransitive ==
    /\ \A s : SameTable(s, s)
    /\ \A s, t, u : SameTable(s, t) /\ SameTable(t, u) => SameTable(s, u)
BY DEF SameTable

(* Changes of other members of Shell_t. *)
LEMMA TableRest ==
    ASSUME NEW s \in Shell, NEW x
    PROVE  /\ SameTable(s, [s EXCEPT !.exitval = x]) /\ SameTable(s, [s EXCEPT !.lastsig = x])
           /\ SameTable(s, [s EXCEPT !.trapnote = x]) /\ SameTable(s, [s EXCEPT !.errexit = x])
           /\ SameTable(s, [s EXCEPT !.fn_depth = x]) /\ SameTable(s, [s EXCEPT !.dot_depth = x])
           /\ SameTable(s, [s EXCEPT !.intrap = x]) /\ SameTable(s, [s EXCEPT !.intrap_exit_n = x])
           /\ SameTable(s, [s EXCEPT !.cursig = x]) /\ SameTable(s, [s EXCEPT !.pend = x])
           /\ SameTable(s, [s EXCEPT !.indebug = x]) /\ SameTable(s, [s EXCEPT !.indone = x])
BY DEF Shell, SameTable

(* And of sh.st. *)
LEMMA TableScoped ==
    ASSUME NEW s \in Shell, NEW x
    PROVE  /\ SameTable(s, [s EXCEPT !.st.breakcnt = x]) /\ SameTable(s, [s EXCEPT !.st.loopcnt = x])
           /\ SameTable(s, [s EXCEPT !.st.err = x]) /\ SameTable(s, [s EXCEPT !.st.debug = x])
BY DEF Shell, Scoped, SameTable

(* sh_exit, and a handler's begin and end. *)
LEMMA TableExit ==
    ASSUME NEW s \in Shell, NEW x
    PROVE  SameTable(s, sh_exit(s)) /\ SameTable(s, [sh_exit(s) EXCEPT !.exitval = x])
BY DEF sh_exit, SameTable, Shell

LEMMA TableEnter ==
    ASSUME NEW s \in Shell
    PROVE  SameTable(s, EnterTrap(s))
BY DEF EnterTrap, SameTable, Shell, Scoped

LEMMA TableLeave ==
    ASSUME NEW s \in Shell, NEW f
    PROVE  SameTable(s, LeaveTrap(s, f))
BY DEF LeaveTrap, SameTable, Shell, Scoped

(* A signal that is noted. *)
LEMMA TableFault ==
    ASSUME NEW s \in Shell, NEW k, NEW i
    PROVE  SameTable(s, sh_fault(s, k, i))
BY DEF sh_fault, SameTable, Shell

-------------------------------------------------------------------------------
(* The chain. *)

LEMMA ShownPush ==
    ASSUME NEW k \in Stack, NEW s, NEW z, Shows(z, k, s), NEW f, f.kind # "fun"
    PROVE  Shows(z, Append(k, f), s)
BY ScopesPush DEF Shows

LEMMA ShownPop ==
    ASSUME NEW k \in Stack, NEW s, NEW z, Shows(z, k, s), Top(k).kind \notin {"main", "fun"}
    PROVE  Shows(z, Pop(k), s)
BY ScopesPop DEF Shows

LEMMA ShownMode ==
    ASSUME NEW k \in Stack, NEW s, NEW z, Shows(z, k, s), NEW m
    PROVE  Shows(z, SetMode(k, m), s)
BY ScopesMode DEF Shows

LEMMA ShownFault ==
    ASSUME NEW k \in Stack, NEW s, NEW z, Shows(z, k, s), NEW t, NEW i
    PROVE  Shows(z, fault_frames(t, k, i), s)
BY ScopesFault DEF Shows

-------------------------------------------------------------------------------
(* The C functions that steps end with. *)

(* The C functions that steps end with. *)

LEMMA SignalExitShown ==
    ASSUME NEW k, NEW s \in Shell, NEW z, Shows(z, k, s), SignalExit(k, s)
    PROVE  Shows(z, stack', sh')
BY TableExit, GoesShown DEF SignalExit

LEMMA AfterExecShown ==
    ASSUME NEW k, NEW s \in Shell, NEW z, Shows(z, k, s), AfterExec(k, s)
    PROVE  Shows(z, stack', sh')
BY SignalExitShown, TableTransitive, GoesShown DEF AfterExec

LEMMA ErrExitShown ==
    ASSUME NEW k \in Stack, NEW s \in Shell, NEW z, Shows(z, k, s), NEW n, NEW then, ErrExit(k, s, n, then)
    PROVE  Shows(z, stack', sh')
<1>1. CASE s.errexit
  <2>1. Goto(Jump(JmpExit), SetMode(k, JmpExit), sh_exit(s))
    BY <1>1 DEF ErrExit
  <2>2. Shows(z, SetMode(k, JmpExit), s)
    BY ShownMode
  <2>3. QED
    BY <2>1, <2>2, TableExit, GoesShown
<1>2. CASE ~ s.errexit
  BY <1>2, TableTransitive, GoesShown DEF ErrExit
<1>3. QED
  BY <1>1, <1>2

LEMMA ReturnShown ==
    ASSUME NEW k, NEW s \in Shell, NEW then, NEW z, Shows(z, k, s), Return(k, s, then)
    PROVE  Shows(z, stack', sh')
<1>1. CASE then = 0
  BY <1>1, AfterExecShown, Numbers DEF Return
<1>2. CASE then # 0
  <2>1. PICK p : Goto(p, k, s)
    BY <1>2 DEF Return
  <2>2. QED
    BY <2>1, TableTransitive, GoesShown
<1>3. QED
  BY <1>1, <1>2

LEMMA ChktrapShown ==
    ASSUME NEW k \in Stack, NEW s \in Shell, NEW z, Shows(z, k, s), NEW errexit, NEW then,
           sh_chktrap(k, s, errexit, then)
    PROVE  Shows(z, stack', sh')
<1> DEFINE n == IF s.trapnote = {} THEN 0 ELSE s.st.trapmax
           w == s.trapnote \ {"SIGTRAP"}
           c == [s EXCEPT !.trapnote = w]
           f == [kind |-> "ERR", mode |-> JmpEval, savxit |-> c.exitval,
                 nodontexec |-> c.st.trapdontexec = "off",
                 trap |-> c.st.err, note |-> c.trapnote, sig |-> n, then |-> then]
           u == [c EXCEPT !.st.err = None]
           v == u.trapnote \ {"SIGSET"}
           t == [u EXCEPT !.trapnote = v]
<1>1. /\ c \in Shell /\ SameTable(s, c)
      /\ u \in Shell /\ SameTable(c, u)
      /\ t \in Shell /\ SameTable(u, t)
  <2>1. w \in SUBSET {"SIGSET", "SIGTRAP"}
    BY DEF Shell
  <2> HIDE DEF w
  <2>2. c \in Shell /\ SameTable(s, c)
    BY <2>1, KeepsNote, TableRest
  <2> HIDE DEF c
  <2>3. u \in Shell
    BY <2>2, TypeMember
  <2>4. SameTable(c, u)
    BY <2>2, TableScoped
  <2> HIDE DEF u
  <2>5. v \in SUBSET {"SIGSET", "SIGTRAP"}
    BY <2>3 DEF Shell
  <2> HIDE DEF v
  <2>6. t \in Shell /\ SameTable(u, t)
    BY <2>3, <2>5, KeepsNote, TableRest
  <2>7. QED
    BY <2>2, <2>3, <2>4, <2>6
<1>2. \/ Goto(Chk(n, then), k, c)
      \/ ErrExit(k, c, n, then)
      \/ Goto(Cmd, Append(k, f), EnterTrap(t))
  BY DEF sh_chktrap
<1>3. f.kind # "fun"
  OBVIOUS
<1> HIDE DEF n, w, c, f, u, v, t
<1>4. CASE Goto(Chk(n, then), k, c)
  BY <1>1, <1>4, GoesShown
<1>5. CASE ErrExit(k, c, n, then)
  BY <1>1, <1>5, SameShown, ErrExitShown
<1>6. CASE Goto(Cmd, Append(k, f), EnterTrap(t))
  <2>1. SameTable(s, EnterTrap(t))
    BY <1>1, TableEnter, TableTransitive
  <2>2. QED
    BY <1>3, <1>6, <2>1, ShownPush, GoesShown
<1>7. QED
  BY <1>2, <1>4, <1>5, <1>6

(* The trap built-in and the end of the shell set one handler of the innermost scope. *)
LEMMA ShownSet ==
    ASSUME NEW k \in Stack, NEW s, NEW t, NEW z, Shows(z, k, s), NEW i \in SigNo, NEW c \in Trap,
           s.trapcom \in Table, t.trapcom = [s.trapcom EXCEPT ![i] = c]
    PROVE  \E y : Turns(z, y) /\ Shows(y, k, t)
<1> DEFINE h == IF c \in Handler THEN c ELSE None
           y == ScopesOf(k, t.trapcom)
           n == Cardinality(FunsOf(k))
           w == [z EXCEPT ![Len(z)] = [@ EXCEPT ![i] = h]]
<1>1. Handlers(t.trapcom) = [Handlers(s.trapcom) EXCEPT ![i] = h]
  BY DEF Handlers, Table
<1>2. /\ n \in Nat /\ Len(z) = n + 1 /\ z[n + 1] = Handlers(s.trapcom)
      /\ z = [m \in 1..n + 1 |-> z[m]]
      /\ \A m \in 1..n : z[m] = Handlers(k[Nth(FunsOf(k), m)].savsig)
  <2>1. z = [m \in 1..n + 1 |-> z[m]]
    BY DEF Shows, ScopesOf
  <2>2. QED
    BY <2>1, ScopesParts DEF Shows
<1>3. /\ y[n + 1] = Handlers(t.trapcom)
      /\ y = [m \in 1..n + 1 |-> y[m]]
      /\ \A m \in 1..n : y[m] = Handlers(k[Nth(FunsOf(k), m)].savsig)
  <2>1. y = [m \in 1..n + 1 |-> y[m]]
    BY DEF ScopesOf
  <2>2. QED
    BY <2>1, ScopesParts
<1> HIDE DEF y, n, h
<1>4. /\ n + 1 \in 1..n + 1 /\ \A m \in 1..n + 1 : m = n + 1 \/ (m \in 1..n /\ m # n + 1)
  BY <1>2
<1>5. w = [m \in 1..n + 1 |-> IF m = n + 1 THEN [z[m] EXCEPT ![i] = h] ELSE z[m]]
  BY <1>2, <1>4
<1>6. y = w
  <2>1. y[n + 1] = [z[n + 1] EXCEPT ![i] = h]
    BY <1>1, <1>2, <1>3
  <2>2. \A m \in 1..n : y[m] = z[m]
    BY <1>2, <1>3
  <2>3. \A m \in 1..n + 1 : y[m] = IF m = n + 1 THEN [z[m] EXCEPT ![i] = h] ELSE z[m]
    BY <1>4, <2>1, <2>2
  <2> HIDE DEF w
  <2>4. QED
    BY <1>3, <1>5, <2>3
<1>7. Turns(z, y)
  <2>1. h \in Handler \cup {None}
    BY DEF h
  <2>2. QED
    BY <1>6, <2>1 DEF Turns
<1>8. QED
  BY <1>7 DEF Shows, y

LEMMA DoneShown ==
    ASSUME NEW k \in Stack, NEW s \in Shell, NEW z, Shows(z, k, s), sh_done(k, s)
    PROVE  Turned(z)
<1> DEFINE b == [s EXCEPT !.trapnote = {}]
           d == [b EXCEPT !.indone = TRUE]
           f == [kind |-> "DONE", mode |-> JmpEval, savxit |-> d.exitval,
                 nodontexec |-> d.st.trapdontexec = "off"]
           e == [d EXCEPT !.trapcom[0] = None]
<1>1. b \in Shell /\ SameTable(s, b)
  BY KeepsNote, TableRest
<1>2. d \in Shell /\ SameTable(s, d)
  <2> HIDE DEF b
  <2>1. d \in Shell
    BY <1>1 DEF Shell
  <2>2. SameTable(b, d)
    BY <1>1, TableRest
  <2>3. QED
    BY <1>1, <2>1, <2>2, TableTransitive
<1>3. /\ e \in Shell /\ 0 \in SigNo /\ None \in Trap /\ d.trapcom \in Table
      /\ e.trapcom = [d.trapcom EXCEPT ![0] = None]
  <2> HIDE DEF d
  <2>1. d.trapcom \in Table /\ None \in Trap /\ 0 \in SigNo
    BY <1>2 DEF Shell, SigNo, Trap
  <2> DEFINE table == [d.trapcom EXCEPT ![0] = None]
  <2>2. table \in Table
    BY <2>1 DEF Table
  <2>3. e = [d EXCEPT !.trapcom = table]
    OBVIOUS
  <2> HIDE DEF table, e
  <2>4. e \in Shell /\ e.trapcom = table
    BY <1>2, <2>2, <2>3 DEF Shell
  <2>5. QED
    BY <2>1, <2>4 DEF table
<1>4. \/ sh_chktrap(k, e, FALSE, Done)
      \/ Goto(Exited, k, e)
      \/ Goto(Cmd, Append(k, f), EnterTrap(e))
  BY DEF sh_done
<1>5. f.kind # "fun"
  OBVIOUS
<1> HIDE DEF b, d, e, f
<1>6. PICK y : Turns(z, y) /\ Shows(y, k, e)
  BY <1>2, <1>3, SameShown, ShownSet
<1>7. SameTable(e, EnterTrap(e)) /\ SameTable(e, e)
  BY <1>3, TableEnter, TableTransitive
<1>8. CASE sh_chktrap(k, e, FALSE, Done)
  <2>1. \A errexit : sh_chktrap(k, e, errexit, Done) => Shows(y, stack', sh')
    BY <1>3, <1>6, ChktrapShown
  <2>2. QED
    BY <1>6, <1>8, <2>1, Zenon DEF Turned
<1>9. CASE Goto(Exited, k, e)
  BY <1>6, <1>7, <1>9, GoesShown DEF Turned
<1>10. CASE Goto(Cmd, Append(k, f), EnterTrap(e))
  BY <1>5, <1>6, <1>7, <1>10, ShownPush, GoesShown DEF Turned
<1>11. QED
  BY <1>4, <1>8, <1>9, <1>10

-------------------------------------------------------------------------------
(* Leaving functions and handlers. *)

LEMMA FunctionAfterShown ==
    ASSUME NEW k \in Stack, NEW s \in Shell, NEW z, Shows(z, k, s), NEW v, FunctionAfter(k, s, v)
    PROVE  Shows(z, stack', sh')
<1>1. CASE \E errexit \in BOOLEAN : sh_chktrap(k, s, errexit, v)
  BY <1>1, ChktrapShown
<1>2. CASE Goto(Post(TRUE), fault_frames(s, k, s.lastsig), sh_fault(s, k, s.lastsig))
  BY <1>2, ShownFault, TableFault, GoesShown
<1>3. CASE Goto(Post(TRUE), k, s)
  BY <1>3, TableTransitive, GoesShown
<1>4. QED
  BY <1>1, <1>2, <1>3 DEF FunctionAfter

(* A function gives back the table that it found, and the flag that goes with it. *)

(* A function that is left takes its scope along: what lies beyond trapmax, in its own table and
   in the one that was saved, is no handler. *)
LEMMA FunctionLeaveShown ==
    ASSUME stack \in Stack, sh \in Shell, Reached(stack, sh), "trapInDebug" \notin Ops,
           NEW z, Shows(z, stack, sh), Top(stack).kind = "fun", NEW v, FunctionLeave(v)
    PROVE  Turned(z)
<1> DEFINE f == Top(stack)
           k == Pop(stack)
           n == sh.fn_depth - 1
           u == [sh EXCEPT !.fn_depth = n]
           left == sh_sigreset(u, 1)
           table == [i \in SigNo |-> IF i < f.prevst.trapmax THEN f.savsig[i] ELSE left.trapcom[i]]
           s == [left EXCEPT !.st = f.prevst, !.errexit = f.options, !.trapnote = {},
                             !.trapcom = table]
           frame == [kind |-> "EXIT", mode |-> JmpEval, savxit |-> s.exitval,
                     nodontexec |-> s.st.trapdontexec = "off", jmpval |-> v]
           y == ScopesOf(k, f.savsig)
<1>1. f \in Frame /\ f.kind = "fun" /\ k \in Stack
  BY StackTop, StackPop
<1>2. f.prevst \in Scoped /\ f.savsig \in Table /\ f.options \in BOOLEAN
  BY <1>1, FrameParts
<1>3. u \in Shell /\ SameTable(sh, u) /\ u.st = sh.st /\ u.trapcom = sh.trapcom
  <2>1. n \in Int
    BY TypeDepths
  <2> HIDE DEF n
  <2>2. u \in Shell /\ u.st = sh.st /\ u.trapcom = sh.trapcom
    BY <2>1 DEF Shell
  <2>3. QED
    BY <2>2, TableRest
<1>4. \/ SignalExit(stack, u)
      \/ Goto(Cmd, Append(k, frame), EnterTrap(s))
      \/ FunctionAfter(k, s, v)
  BY DEF FunctionLeave
<1>5. /\ left \in Shell
      /\ \A i \in SigNo : left.trapcom[i] \in Handler =>
            u.trapcom[i] \in Handler /\ ~ (i < u.st.trapmax)
  <2> HIDE DEF u
  <2>1. QED
    BY <1>3, TypeSigreset, KeepsReset
<1>6. \A i \in SigNo : left.trapcom[i] \notin Handler
  <2> HIDE DEF u, left
  <2>1. QED
    BY <1>3, <1>5 DEF Reached, Covers
<1>7. /\ Len(stack) \in Nat /\ Len(stack) > 1 /\ Len(k) = Len(stack) - 1
      /\ \A j \in 1..Len(stack) - 1 : k[j] = stack[j]
  BY Popped
<1>8. stack[Len(stack)] = f
  BY DEF Top
<1>9. Covers(f.savsig, f.prevst.trapmax)
  <2>1. Len(stack) \in 1..Len(stack)
    BY <1>7
  <2>2. QED
    BY <1>1, <1>8, <2>1 DEF Reached
<1>10. s \in Shell /\ Handlers(s.trapcom) = Handlers(f.savsig)
  <2> HIDE DEF f, left
  <2>1. table \in Table
    BY <1>2, <1>5 DEF Shell, Table
  <2>2. \A i \in SigNo : /\ i < f.prevst.trapmax => table[i] = f.savsig[i]
                         /\ ~ (i < f.prevst.trapmax) =>
                               table[i] \notin Handler /\ f.savsig[i] \notin Handler
    BY <1>6, <1>9 DEF Covers
  <2> HIDE DEF table
  <2>3. s \in Shell /\ s.trapcom = table
    BY <1>2, <1>5, <2>1 DEF Shell
  <2>4. \A i \in SigNo : (IF table[i] \in Handler THEN table[i] ELSE None)
                           = IF f.savsig[i] \in Handler THEN f.savsig[i] ELSE None
    BY <2>2
  <2>5. QED
    BY <2>3, <2>4 DEF Handlers
<1>11. frame.kind # "fun"
  OBVIOUS
<1> HIDE DEF f, k, n, u, left, table, s, frame
<1>12. z = Append(y, Handlers(sh.trapcom))
  <2>1. \A j \in 1..Len(k) : stack[j] = k[j]
    BY <1>7
  <2>2. Len(stack) = Len(k) + 1
    BY <1>7
  <2>3. QED
    BY <1>1, <1>8, <2>1, <2>2, ScopesCall DEF Shows
<1>13. Turns(z, y)
  <2>1. \E S : y \in Seq(S) /\ y # <<>>
    <3> DEFINE m == Cardinality(FunsOf(k)) + 1
    <3>1. m \in Nat /\ m >= 1 /\ Len(y) = m
      BY <1>1, ScopesParts
    <3>2. y = [j \in 1..m |-> y[j]]
      BY DEF ScopesOf
    <3> HIDE DEF y, m
    <3>3. y \in [1..m -> {y[j] : j \in 1..m}]
      BY <3>2
    <3>4. y \in Seq({y[j] : j \in 1..m})
      BY <3>1, <3>3
    <3>5. QED
      BY <3>1, <3>4
  <2> HIDE DEF y
  <2>2. PICK S : y \in Seq(S) /\ y # <<>>
    BY <2>1
  <2>3. Len(z) > 1 /\ y = SubSeq(z, 1, Len(z) - 1)
    BY <1>12, <2>2
  <2>4. QED
    BY <2>3 DEF Turns
<1>14. Shows(y, k, s)
  BY <1>10 DEF Shows, ScopesOf, y
<1> HIDE DEF y
<1>15. CASE SignalExit(stack, u)
  <2>1. Shows(z, stack', sh')
    BY <1>3, <1>15, SameShown, SignalExitShown
  <2>2. QED
    BY <2>1 DEF Turned, Turns
<1>16. CASE Goto(Cmd, Append(k, frame), EnterTrap(s))
  BY <1>1, <1>10, <1>11, <1>13, <1>14, <1>16, ShownPush, TableEnter, GoesShown DEF Turned
<1>17. CASE FunctionAfter(k, s, v)
  BY <1>1, <1>10, <1>13, <1>14, <1>17, FunctionAfterShown DEF Turned
<1>18. QED
  BY <1>4, <1>15, <1>16, <1>17

LEMMA PosixLeaveShown ==
    ASSUME stack \in Stack, sh \in Shell, NEW z, Shows(z, stack, sh), Top(stack).kind = "posix",
           NEW v, PosixLeave(v)
    PROVE  Shows(z, stack', sh')
<1> DEFINE f == Top(stack)
           n == sh.dot_depth - 1
           s == [sh EXCEPT !.dot_depth = n]
           t == [s EXCEPT !.st.loopcnt = f.loopcnt]
<1>1. Shows(z, Pop(stack), sh)
  BY ShownPop
<1>2. n \in Int
  BY TypeDepths
<1>3. s \in Shell /\ SameTable(sh, s)
  <2> HIDE DEF n
  <2>1. s \in Shell
    BY <1>2 DEF Shell
  <2>2. QED
    BY <2>1, TableRest
<1>4. SameTable(sh, t)
  <2> HIDE DEF s
  <2>1. QED
    BY <1>3, TableScoped, TableTransitive
<1>5. Goto(Post(TRUE), Pop(stack), t) \/ Goto(Jump(v), Pop(stack), s)
  BY DEF PosixLeave
<1> HIDE DEF s, t
<1>6. QED
  BY <1>1, <1>3, <1>4, <1>5, GoesShown

LEMMA TrapReturnShown ==
    ASSUME Good(stack, sh), NEW z, Shows(z, stack, sh), Top(stack).kind \in TrapKinds, TrapReturn
    PROVE  Shows(z, stack', sh')
<1> DEFINE f == Top(stack)
           k == Pop(stack)
           s == LeaveTrap(sh, f)
           debug == [s EXCEPT !.indebug = FALSE, !.st = f.savst]
           err == [s EXCEPT !.st.err = f.trap, !.trapnote = f.note]
<1>1. /\ stack \in Stack /\ sh \in Shell /\ f \in Frame /\ s \in Shell /\ k \in Stack
      /\ f.kind \notin {"main", "fun"}
  BY HandlerLeft DEF Good, TrapKinds
<1>2. SameTable(sh, s) /\ Shows(z, stack, s)
  BY <1>1, TableLeave, SameShown
<1>3. Shows(z, k, s)
  BY <1>1, <1>2, ShownPop
<1>4. CASE f.kind = "DEBUG"
  <2>1. debug \in Shell /\ debug.st = f.savst /\ debug.trapcom = s.trapcom
    <3>1. f.savst \in Scoped /\ s \in Shell
      BY <1>1, <1>4, FrameParts
    <3> HIDE DEF s, f
    <3>2. QED
      BY <3>1, DebugPutBack
  <2>2. \/ Goto(Jump(JmpFun), k, sh_exit(debug))
        \/ Goto(Post(TRUE), k, [debug EXCEPT !.exitval = 2])
        \/ Goto(Exec, k, debug)
    BY <1>4 DEF TrapReturn
  <2> HIDE DEF debug, s, k, f
  <2>3. Shows(z, k, debug)
    BY <1>3, <2>1, SameShown DEF SameTable
  <2>4. /\ SameTable(debug, debug) /\ SameTable(debug, sh_exit(debug))
        /\ SameTable(debug, [debug EXCEPT !.exitval = 2])
    BY <2>1, TableExit, TableRest, TableTransitive
  <2>5. CASE Goto(Jump(JmpFun), k, sh_exit(debug))
    BY <2>3, <2>4, <2>5, GoesShown
  <2>6. CASE Goto(Post(TRUE), k, [debug EXCEPT !.exitval = 2])
    BY <2>3, <2>4, <2>6, GoesShown
  <2>7. CASE Goto(Exec, k, debug)
    BY <2>3, <2>4, <2>7, GoesShown
  <2>8. QED
    BY <2>2, <2>5, <2>6, <2>7
<1>5. CASE f.kind = "ERR"
  <2> DEFINE t == [s EXCEPT !.st.err = f.trap]
  <2>1. f.trap \in Handler /\ f.note \in SUBSET {"SIGSET", "SIGTRAP"}
    BY <1>1, <1>5, FrameParts
  <2>2. ErrExit(k, err, f.sig, f.then)
    BY <1>5 DEF TrapReturn
  <2>3. err \in Shell /\ SameTable(s, err)
    <3> HIDE DEF s, f
    <3>1. t \in Shell
      BY <1>1, <2>1, TypeMember
    <3>2. SameTable(s, t)
      BY <1>1, TableScoped
    <3>3. err = [t EXCEPT !.trapnote = f.note]
      OBVIOUS
    <3> HIDE DEF t
    <3>4. /\ [t EXCEPT !.trapnote = f.note] \in Shell
          /\ SameTable(t, [t EXCEPT !.trapnote = f.note])
      BY <2>1, <3>1, KeepsNote, TableRest
    <3>5. QED
      BY <3>2, <3>3, <3>4, TableTransitive
  <2> HIDE DEF err, s, k
  <2>4. QED
    BY <1>1, <1>3, <2>2, <2>3, SameShown, ErrExitShown
<1>6. CASE f.kind = "SIG"
  <2>1. Goto(Chk(f.sig, f.then), k, [s EXCEPT !.cursig = -1])
    BY <1>6 DEF TrapReturn
  <2> HIDE DEF s, k
  <2>2. QED
    BY <1>1, <1>3, <2>1, TableRest, GoesShown
<1>7. CASE f.kind = "EXIT"
  <2>1. FunctionAfter(k, s, f.jmpval)
    BY <1>7 DEF TrapReturn
  <2> HIDE DEF s, k
  <2>2. QED
    BY <1>1, <1>3, <2>1, FunctionAfterShown
<1>8. CASE f.kind = "DONE"
  <2>1. Goto(Exited, k, s)
    BY <1>8 DEF TrapReturn
  <2> HIDE DEF s, k
  <2>2. QED
    BY <1>3, <2>1, TableTransitive, GoesShown
<1>9. QED
  BY <1>4, <1>5, <1>6, <1>7, <1>8 DEF TrapKinds

-------------------------------------------------------------------------------
(* The steps of the interpreter. *)

(* A step that shows the same is none of TrapScopes. *)
LEMMA ShownTurned ==
    ASSUME NEW z, Shows(z, stack', sh')
    PROVE  Turned(z)
BY DEF Turned, Turns

LEMMA ScanShown ==
    ASSUME HInv, NEW z, Shows(z, stack, sh), ScanNext \/ ScanEnd \/ PostExec
    PROVE  Shows(z, stack', sh')
<1> USE HInvParts
<1>1. CASE ScanNext
  <2>1. PICK i \in Due : RunTrap(i) \/ SkipTrap(i)
    BY <1>1 DEF ScanNext
  <2> DEFINE taken == Taken(sh, i)
             t == [taken EXCEPT !.cursig = i]
             n == IF sh.trapcom[i] = Ignore THEN -1 ELSE taken.cursig
             u == [taken EXCEPT !.cursig = n]
             f == SigFrameOf(sh, i)
  <2>2. i \in Sig /\ taken \in Shell /\ SameTable(sh, taken)
    BY TableRest DEF Due, Shell, Taken
  <2>3. t \in Shell /\ SameTable(sh, t)
    <3> HIDE DEF taken
    <3>1. t \in Shell
      BY <2>2 DEF Shell
    <3>2. QED
      BY <2>2, <3>1, TableRest, TableTransitive
  <2>4. SameTable(sh, u)
    <3> HIDE DEF taken, n
    <3>1. QED
      BY <2>2, TableRest, TableTransitive
  <2>5. f.kind # "fun"
    BY DEF SigFrameOf
  <2>6. CASE RunTrap(i)
    <3>1. Goto(Cmd, Append(stack, f), EnterTrap(t))
      BY <2>6 DEF RunTrap
    <3> HIDE DEF f, t
    <3>2. SameTable(sh, EnterTrap(t))
      BY <2>3, TableEnter, TableTransitive
    <3>3. QED
      BY <2>5, <3>1, <3>2, ShownPush, GoesShown
  <2>7. CASE SkipTrap(i)
    <3>1. Goto(Chk(i, at.then), stack, u)
      BY <2>7 DEF SkipTrap
    <3> HIDE DEF u
    <3>2. QED
      BY <2>4, <3>1, GoesShown
  <2>8. QED
    BY <2>1, <2>6, <2>7
<1>2. CASE ScanEnd
  BY <1>2, ReturnShown DEF ScanEnd
<1>3. CASE PostExec
  <2>1. PICK errexit \in BOOLEAN : sh_chktrap(stack, sh, errexit, 0) \/ AfterExec(stack, sh)
    BY <1>3 DEF PostExec
  <2>2. QED
    BY <2>1, ChktrapShown, AfterExecShown
<1>4. QED
  BY <1>1, <1>2, <1>3

LEMMA MainShown ==
    ASSUME HInv, NEW z, Shows(z, stack, sh),
           NextLine \/ ReadLine \/ EndOfInput \/ SigCheck \/ UnwindMain
    PROVE  Turned(z)
<1> USE HInvParts
<1> DEFINE b == [sh EXCEPT !.st.breakcnt = 0]
           n == [b EXCEPT !.trapnote = {}]
           l == [b EXCEPT !.st.loopcnt = 0]
           t == [l EXCEPT !.trapnote = {}]
           u == [t EXCEPT !.intrap = 0]
<1>1. b \in Shell /\ SameTable(sh, b)
  <2>1. b \in Shell
    BY TypeMember
  <2>2. QED
    BY <2>1, TableScoped
<1>2. SameTable(sh, n)
  <2> HIDE DEF b
  <2>1. QED
    BY <1>1, TableRest, TableTransitive
<1>3. l \in Shell /\ SameTable(sh, l)
  <2> HIDE DEF b
  <2>1. l \in Shell
    BY <1>1, TypeMember
  <2>2. QED
    BY <1>1, <2>1, TableScoped, TableTransitive
<1>4. t \in Shell /\ SameTable(sh, t)
  <2> HIDE DEF l
  <2>1. t \in Shell
    BY <1>3, KeepsNote
  <2>2. QED
    BY <1>3, <2>1, TableRest, TableTransitive
<1>5. SameTable(sh, u)
  <2> HIDE DEF t
  <2>1. QED
    BY <1>4, TableRest, TableTransitive
<1>6. CASE NextLine
  <2> DEFINE m == IF Top(stack).mode = JmpExit THEN JmpErrExit ELSE Top(stack).mode
  <2>1. Goto(Read, SetMode(stack, m), n) \/ Goto(Cmd, stack, b)
    BY <1>6 DEF NextLine
  <2>2. Shows(z, SetMode(stack, m), sh)
    BY ShownMode
  <2> HIDE DEF m, n, b
  <2>3. QED
    BY <1>1, <1>2, <2>1, <2>2, ShownTurned, GoesShown
<1>7. CASE ReadLine
  <2>1. \/ SignalExit(stack, sh)
        \/ \E errexit \in BOOLEAN : sh_chktrap(stack, sh, errexit, Reading)
        \/ Goto(Cmd, stack, sh)
    BY <1>7 DEF ReadLine
  <2>2. QED
    BY <2>1, SignalExitShown, ChktrapShown, TableTransitive, GoesShown, ShownTurned
<1>8. CASE EndOfInput
  BY <1>8, DoneShown DEF EndOfInput
<1>9. CASE SigCheck
  BY <1>9, SignalExitShown, ShownTurned DEF SigCheck
<1>10. CASE UnwindMain
  <2>1. sh_done(stack, b) \/ Goto(Cmd, stack, u)
    BY <1>10 DEF UnwindMain
  <2> HIDE DEF b, u
  <2>2. QED
    BY <1>1, <1>5, <2>1, SameShown, DoneShown, ShownTurned, GoesShown
<1>11. QED
  BY <1>6, <1>7, <1>8, <1>9, <1>10

LEMMA CommandShown ==
    ASSUME HInv, NEW z, Shows(z, stack, sh),
           \/ SimpleCommand \/ LoopStart \/ Simple \/ BuiltinStart \/ BuiltinEnd
           \/ EvalStart \/ Break \/ ReturnOrExit \/ Error \/ SetErrexit
    PROVE  Shows(z, stack', sh')
<1> USE HInvParts
<1>1. Started \in Shell /\ SameTable(sh, Started)
  <2> DEFINE u == [sh EXCEPT !.lastsig = 0]
  <2>1. u \in Shell /\ SameTable(sh, u)
    BY TableRest DEF Shell, SigNo
  <2>2. Started = [u EXCEPT !.exitval = 0]
    BY Zenon DEF Started
  <2> HIDE DEF u
  <2>3. SameTable(u, Started)
    BY <2>1, <2>2, TableRest
  <2>4. QED
    BY <2>1, <2>3, TypeStarted, TableTransitive
(* A plain activation is pushed. *)
<1>2. ASSUME NEW c \in {"loop", "eval", "cmd"}, NEW m, NEW t, SameTable(sh, t), NEW p,
             Goto(p, Append(stack, [kind |-> c, mode |-> m]), t)
      PROVE  Shows(z, stack', sh')
  <2> DEFINE f == [kind |-> c, mode |-> m]
  <2>1. f.kind # "fun"
    OBVIOUS
  <2> HIDE DEF f
  <2>2. Shows(z, Append(stack, f), sh)
    BY <2>1, ShownPush
  <2>3. QED
    BY <1>2, <2>2, GoesShown DEF f
<1>3. CASE SimpleCommand
  <2>1. CASE sh.st.debug = None \/ sh.indebug
    <3>1. Goto(Exec, stack, Started)
      BY <1>3, <2>1 DEF SimpleCommand
    <3>2. QED
      BY <1>1, <3>1, GoesShown
  <2>2. CASE ~(sh.st.debug = None \/ sh.indebug)
    <3> DEFINE f == [kind |-> "DEBUG", mode |-> JmpEval, savxit |-> 0,
                     nodontexec |-> sh.st.trapdontexec = "off",
                     savst |-> sh.st]
               u == [Started EXCEPT !.indebug = TRUE]
               t == [u EXCEPT !.st.debug = None]
    <3>1. Goto(Cmd, Append(stack, f), EnterTrap(t))
      BY <1>3, <2>2 DEF SimpleCommand
    <3>2. f.kind # "fun"
      OBVIOUS
    <3>3. /\ u \in Shell /\ SameTable(Started, u)
          /\ t \in Shell /\ SameTable(u, t)
      <4>1. u \in Shell /\ SameTable(Started, u)
        BY <1>1, TableRest DEF Shell
      <4> HIDE DEF u
      <4>2. t \in Shell
        BY <4>1, TypeMember
      <4>3. QED
        BY <4>1, <4>2, TableScoped
    <3> HIDE DEF f, u, t
    <3>4. SameTable(sh, EnterTrap(t))
      BY <1>1, <3>3, TableEnter, TableTransitive
    <3>5. QED
      BY <3>1, <3>2, <3>4, ShownPush, GoesShown
  <2>3. QED
    BY <2>1, <2>2
<1>4. CASE LoopStart
  <2> DEFINE t == [Started EXCEPT !.st.loopcnt = @ + 1]
             n == Started.st.loopcnt + 1
             u == [Started EXCEPT !.st.loopcnt = n]
  <2>1. Goto(Cmd, Append(stack, [kind |-> "loop", mode |-> Top(stack).mode]), t)
    BY <1>4 DEF LoopStart
  <2>2. SameTable(Started, u)
    <3> HIDE DEF n
    <3>1. QED
      BY <1>1, TableScoped
  <2>3. t = u
    BY Zenon
  <2>4. SameTable(sh, t)
    BY <1>1, <2>2, <2>3, TableTransitive
  <2> HIDE DEF t
  <2>5. QED
    BY <1>2, <2>1, <2>4
<1>5. CASE Simple
  BY <1>5, TableRest, GoesShown DEF Simple
<1>6. CASE BuiltinStart
  BY <1>2, <1>6, TableTransitive DEF BuiltinStart
<1>7. CASE BuiltinEnd
  <2>1. CASE SignalExit(stack, sh)
    BY <2>1, SignalExitShown
  <2>2. ASSUME NEW x \in Status, Goto(Post(TRUE), Pop(stack), [sh EXCEPT !.exitval = x])
        PROVE  Shows(z, stack', sh')
    <3>1. Top(stack).kind = "cmd"
      BY <1>7 DEF BuiltinEnd, IInv
    <3>2. Shows(z, Pop(stack), sh)
      BY <3>1, ShownPop
    <3>3. QED
      BY <2>2, <3>2, TableRest, GoesShown
  <2>3. QED
    BY <1>7, <2>1, <2>2 DEF BuiltinEnd
<1>8. CASE EvalStart
  BY <1>2, <1>8, TableTransitive DEF EvalStart
<1>9. CASE Break
  <2>1. PICK b : Goto(Post(TRUE), stack, [sh EXCEPT !.st.breakcnt = b])
    BY <1>9 DEF Break
  <2>2. QED
    BY <2>1, TableScoped, GoesShown
<1>10. CASE ReturnOrExit
  <2>1. PICK exit \in BOOLEAN, x \in Status, operand \in BOOLEAN :
          LET do_exit == exit \/ (sh.fn_depth = 0 /\ sh.dot_depth = 0)
          IN Goto(Jump(IF do_exit THEN JmpExit ELSE JmpFun), stack,
                  [sh_exit(sh) EXCEPT !.exitval = x,
                      !.intrap_exit_n = @ \/ (do_exit /\ operand /\ sh.intrap > 0)])
    BY <1>10 DEF ReturnOrExit
  <2> DEFINE do_exit == exit \/ (sh.fn_depth = 0 /\ sh.dot_depth = 0)
             v == IF do_exit THEN JmpExit ELSE JmpFun
             e == sh.intrap_exit_n \/ (do_exit /\ operand /\ sh.intrap > 0)
             u == [sh_exit(sh) EXCEPT !.exitval = x]
             s == [u EXCEPT !.intrap_exit_n = e]
  <2>2. Goto(Jump(v), stack, s)
    BY <2>1 DEF sh_exit
  <2> HIDE DEF v, e
  <2>3. u \in Shell /\ SameTable(sh, u)
    <3>1. sh_exit(sh) \in Shell /\ x \in 0..255 /\ SameTable(sh, u)
      BY TypeExit, StatusAssumption, TableExit
    <3> HIDE DEF sh_exit
    <3>2. QED
      BY <3>1, TypeExitval
  <2> HIDE DEF u
  <2>4. SameTable(sh, s)
    BY <2>3, TableRest, TableTransitive
  <2> HIDE DEF s
  <2>5. QED
    BY <2>2, <2>4, GoesShown
<1>11. CASE Error
  BY <1>11, SignalExitShown DEF Error
<1>12. CASE SetErrexit
  BY <1>12, TableRest, GoesShown DEF SetErrexit
<1>13. QED
  BY <1>3, <1>4, <1>5, <1>6, <1>7, <1>8, <1>9, <1>10, <1>11, <1>12

(* The trap built-in, which no DEBUG handler uses: the tables that are saved stay. *)
(* The trap built-in. *)
LEMMA TrapShown ==
    ASSUME HInv, NEW z, Shows(z, stack, sh), TrapSignal \/ TrapErr \/ TrapDebug
    PROVE  Turned(z)
<1> USE HInvParts
<1>1. ASSUME NEW s \in Shell, SameTable(sh, s), Goto(Post(TRUE), stack, Recompute(s))
      PROVE  Turned(z)
  <2>1. SameTable(s, Recompute(s))
    BY DEF Recompute, SameTable, Shell
  <2>2. QED
    BY <1>1, <2>1, TableTransitive, GoesShown, ShownTurned
<1>2. CASE TrapSignal
  <2>1. PICK i \in SigNo, t \in Trap :
          Goto(Post(TRUE), stack,
               Recompute([sh EXCEPT !.trapcom[i] = t, !.st.trapmax = Trapmax(sh, i, t),
                                    !.pend = IF t = None THEN @ \ {i} ELSE @]))
    BY <1>2 DEF TrapSignal
  <2> DEFINE table == [sh.trapcom EXCEPT ![i] = t]
             st == [sh.st EXCEPT !.trapmax = Trapmax(sh, i, t)]
             pend == IF t = None THEN sh.pend \ {i} ELSE sh.pend
             s == [sh EXCEPT !.trapcom = table, !.st = st, !.pend = pend]
  <2>2. Goto(Post(TRUE), stack, Recompute(s))
    <3>1. s = [sh EXCEPT !.trapcom[i] = t, !.st.trapmax = Trapmax(sh, i, t),
                         !.pend = IF t = None THEN @ \ {i} ELSE @]
      BY DEF Shell, Scoped
    <3>2. QED
      BY <2>1, <3>1, Zenon
  <2>3. table \in Table /\ pend \in SUBSET Sig
    BY DEF Shell, Table
  <2>4. st \in Scoped
    <3>1. sh.st \in Scoped /\ sh.st.trapmax \in Nat /\ i \in Nat
      BY TypeDepths, SigAssumption DEF Scoped, SigNo
    <3>2. Trapmax(sh, i, t) \in Nat
      BY <3>1 DEF Trapmax
    <3>3. QED
      BY <3>1, <3>2 DEF Scoped
  <2> HIDE DEF table, st, pend
  <2>5. s \in Shell /\ s.trapcom = table
    BY <2>3, <2>4 DEF Shell
  <2>6. SameTable(s, Recompute(s))
    <3> HIDE DEF s
    <3>1. QED
      BY <2>5 DEF Recompute, SameTable, Shell
  <2> HIDE DEF s
  <2>7. sh.trapcom \in Table /\ s.trapcom = [sh.trapcom EXCEPT ![i] = t]
    BY <2>5 DEF Shell, table
  <2>8. PICK y : Turns(z, y) /\ Shows(y, stack, s)
    BY <2>7, ShownSet
  <2>9. QED
    BY <2>2, <2>6, <2>8, GoesShown DEF Turned
<1>3. CASE TrapErr
  <2>1. PICK t \in Handler \cup {None} :
          Goto(Post(TRUE), stack, Recompute([sh EXCEPT !.st.err = t]))
    BY <1>3 DEF TrapErr
  <2> DEFINE s == [sh EXCEPT !.st.err = t]
  <2>2. s \in Shell
    BY TypeMember
  <2>3. SameTable(sh, s)
    BY TableScoped
  <2>4. QED
    BY <1>1, <2>1, <2>2, <2>3
<1>4. CASE TrapDebug
  <2>1. PICK t \in Handler \cup {None} :
          Goto(Post(TRUE), stack,
               Recompute([sh EXCEPT !.st.debug = t,
                            !.trapnote = IF t = None THEN {} ELSE @ \cup {"SIGTRAP"}]))
    BY <1>4 DEF TrapDebug
  <2> DEFINE u == [sh EXCEPT !.st.debug = t]
             note == IF t = None THEN {} ELSE u.trapnote \cup {"SIGTRAP"}
             s == [u EXCEPT !.trapnote = note]
  <2>2. u \in Shell /\ SameTable(sh, u)
    <3>1. u \in Shell
      BY TypeMember
    <3>2. SameTable(sh, u)
      BY TableScoped
    <3>3. QED
      BY <3>1, <3>2
  <2>3. Goto(Post(TRUE), stack, Recompute(s))
    BY <2>1, Zenon
  <2>4. s \in Shell /\ SameTable(sh, s)
    <3> HIDE DEF u
    <3>1. note \in SUBSET {"SIGSET", "SIGTRAP"}
      BY <2>2 DEF Shell
    <3> HIDE DEF note
    <3>2. s \in Shell /\ SameTable(u, s)
      BY <2>2, <3>1, KeepsNote, TableRest
    <3>3. QED
      BY <2>2, <3>2, TableTransitive
  <2> HIDE DEF s
  <2>5. QED
    BY <1>1, <2>3, <2>4
<1>5. QED
  BY <1>2, <1>3, <1>4

(* A function begins without handlers: those of the caller are below trapmax, where sh_sigreset
   finds them. *)
LEMMA ResetClears ==
    ASSUME NEW s \in Shell, Covers(s.trapcom, s.st.trapmax), NEW mode
    PROVE  Handlers(sh_sigreset(s, mode).trapcom) = [i \in SigNo |-> None]
<1>1. None \notin Handler
  BY TrapAssumption
<1>2. sh_sigreset(s, mode).trapcom
         = [i \in SigNo |-> IF i = 0 \/ Caught(s, i) THEN None ELSE s.trapcom[i]]
  BY DEF sh_sigreset, Shell
<1>3. \A i \in SigNo : sh_sigreset(s, mode).trapcom[i] \notin Handler
  BY <1>1, <1>2 DEF Covers, Caught
<1>4. QED
  BY <1>3 DEF Handlers

LEMMA CallShown ==
    ASSUME HInv, "trapInDebug" \notin Ops, NEW z, Shows(z, stack, sh), CallFunction \/ CallPosix
    PROVE  Turned(z)
<1> USE HInvParts
<1>1. CASE CallFunction
  <2> DEFINE f == [kind |-> "fun", mode |-> JmpFun, prevst |-> sh.st,
                   savsig |-> sh.trapcom, options |-> sh.errexit]
             l == [sh EXCEPT !.st.loopcnt = 0]
             e == [l EXCEPT !.errexit = FALSE]
             inner == sh_sigreset(e, -1)
             b == IF FuncTrace THEN sh.st.debug ELSE None
             s == [inner EXCEPT !.st.debug = b]
             n == s.fn_depth + 1
             t == [s EXCEPT !.fn_depth = n]
             k == Append(stack, f)
             y == Append(z, [i \in SigNo |-> None])
  <2>1. \/ Goto(Jump(JmpErrFn), k, s)
        \/ Goto(Cmd, k, t)
    BY <1>1 DEF CallFunction
  <2>2. f.kind = "fun" /\ f.savsig = sh.trapcom
    OBVIOUS
  <2>3. k \in Stack
    <3>1. f \in Frame
      BY TypeDepths, FrameFun DEF Shell
    <3>2. f.kind # "main"
      OBVIOUS
    <3> HIDE DEF f
    <3>3. QED
      BY <3>1, <3>2, StackPush
  <2>4. /\ Len(stack) \in Nat /\ Len(k) = Len(stack) + 1 /\ k[Len(stack) + 1] = f
        /\ \A j \in 1..Len(stack) : k[j] = stack[j]
    BY Pushed
  <2>5. l \in Shell /\ SameTable(sh, l) /\ l.st.trapmax = sh.st.trapmax
    <3>1. l \in Shell
      BY TypeMember
    <3>2. SameTable(sh, l)
      BY TableScoped
    <3>3. l.st.trapmax = sh.st.trapmax
      BY TypeDepths DEF Shell, Scoped
    <3>4. QED
      BY <3>1, <3>2, <3>3
  <2>6. e \in Shell /\ SameTable(sh, e) /\ e.st.trapmax = sh.st.trapmax
    <3> HIDE DEF l
    <3>1. e \in Shell /\ SameTable(l, e)
      BY <2>5, TypeErrexit, TableRest
    <3>2. e.st = l.st
      BY <2>5 DEF Shell
    <3>3. QED
      BY <2>5, <3>1, <3>2, TableTransitive
  <2>7. inner \in Shell /\ Handlers(inner.trapcom) = [i \in SigNo |-> None]
    <3> HIDE DEF e
    <3>1. Covers(e.trapcom, e.st.trapmax)
      BY <2>6 DEF Safe, Clean, Reached, SameTable
    <3>2. QED
      BY <2>6, <3>1, TypeSigreset, ResetClears
  <2>8. s \in Shell /\ SameTable(inner, s)
    <3>1. b \in Handler \cup {None}
      BY TypeDepths DEF Scoped
    <3> HIDE DEF inner, b
    <3>2. s \in Shell
      BY <2>7, <3>1, TypeMember
    <3>3. SameTable(inner, s)
      BY <2>7, TableScoped
    <3>4. QED
      BY <3>2, <3>3
  <2>9. SameTable(s, t)
    <3> HIDE DEF s, n
    <3>1. QED
      BY <2>8, TableRest
  <2> HIDE DEF f, l, e, inner, b, s, t, k
  <2>10. ScopesOf(k, s.trapcom) = Append(ScopesOf(stack, f.savsig), Handlers(s.trapcom))
    BY <2>2, <2>3, <2>4, ScopesCall
  <2>11. Shows(y, k, s)
    BY <2>2, <2>7, <2>8, <2>10 DEF Shows, SameTable
  <2>12. Turns(z, y)
    BY DEF Turns
  <2> HIDE DEF y
  <2>13. Shows(y, stack', sh')
    BY <2>1, <2>9, <2>11, TableTransitive, GoesShown
  <2>14. QED
    BY <2>12, <2>13 DEF Turned
<1>2. CASE CallPosix
  <2> DEFINE f == [kind |-> "posix", mode |-> JmpFun, loopcnt |-> sh.st.loopcnt]
             s == [sh EXCEPT !.st.loopcnt = 0]
             n == s.dot_depth + 1
             t == [s EXCEPT !.dot_depth = n]
  <2>1. s \in Shell
    BY TypeMember
  <2>2. SameTable(sh, s)
    BY TableScoped
  <2>3. SameTable(sh, t)
    <3> HIDE DEF s, n
    <3>1. QED
      BY <2>1, <2>2, TableRest, TableTransitive
  <2>4. SignalExit(stack, s) \/ Goto(Cmd, Append(stack, f), t)
    BY <1>2 DEF CallPosix
  <2>5. f.kind # "fun"
    OBVIOUS
  <2> HIDE DEF s, f, t
  <2>6. CASE SignalExit(stack, s)
    BY <2>1, <2>2, <2>6, SameShown, SignalExitShown, ShownTurned
  <2>7. CASE Goto(Cmd, Append(stack, f), t)
    BY <2>3, <2>5, <2>7, ShownPush, GoesShown, ShownTurned
  <2>8. QED
    BY <2>4, <2>6, <2>7
<1>3. QED
  BY <1>1, <1>2

LEMMA EndShown ==
    ASSUME HInv, NEW z, Shows(z, stack, sh), "trapInDebug" \notin Ops,
           LoopEnd \/ EvalEnd \/ PosixEnd \/ FunctionEnd \/ TrapEnd
    PROVE  Turned(z)
<1> USE HInvParts
<1>1. CASE LoopEnd
  <2> DEFINE b == IF sh.st.breakcnt < 0 THEN sh.st.breakcnt + 1 ELSE sh.st.breakcnt
             c == IF b > 0 THEN b - 1 ELSE b
             s == [sh EXCEPT !.st.breakcnt = c]
             t == [s EXCEPT !.st.loopcnt = @ - 1]
             w == [sh EXCEPT !.st.breakcnt = 0]
  <2>1. \/ Goto(Cmd, stack, w)
        \/ Goto(Post(FALSE), Pop(stack), t)
    BY <1>1, Zenon DEF LoopEnd
  <2>2. c \in Int
    BY TypeDepths DEF Scoped
  <2>3. SameTable(sh, w)
    BY TableScoped
  <2>4. s \in Shell
    <3> HIDE DEF c
    <3>1. QED
      BY <2>2, TypeMember
  <2>5. SameTable(sh, s)
    <3> HIDE DEF c
    <3>1. QED
      BY TableScoped
  <2>6. SameTable(sh, t)
    <3> DEFINE d == s.st.loopcnt - 1
    <3>1. t = [s EXCEPT !.st.loopcnt = d]
      BY Zenon
    <3> HIDE DEF s, d
    <3>2. SameTable(s, [s EXCEPT !.st.loopcnt = d])
      BY <2>4, TableScoped
    <3>3. QED
      BY <2>5, <3>1, <3>2, TableTransitive
  <2>7. Shows(z, Pop(stack), sh)
    BY <1>1, ShownPop DEF LoopEnd
  <2> HIDE DEF t, w
  <2>8. QED
    BY <2>1, <2>3, <2>6, <2>7, GoesShown, ShownTurned
<1>2. CASE EvalEnd
  BY <1>2, ShownPop, TableTransitive, GoesShown, ShownTurned DEF EvalEnd
<1>3. CASE PosixEnd
  BY <1>3, PosixLeaveShown, ShownTurned DEF PosixEnd
<1>4. CASE FunctionEnd
  BY <1>4, FunctionLeaveShown DEF FunctionEnd, Safe, Clean
<1>5. CASE TrapEnd
  BY <1>5, TrapReturnShown, ShownTurned DEF TrapEnd
<1>6. QED
  BY <1>1, <1>2, <1>3, <1>4, <1>5

LEMMA UnwindShown ==
    ASSUME HInv, NEW z, Shows(z, stack, sh), "trapInDebug" \notin Ops,
           \/ UnwindLoop \/ UnwindEval \/ UnwindBuiltin
           \/ UnwindPosix \/ UnwindFunction \/ UnwindTrap
    PROVE  Turned(z)
<1> USE HInvParts
<1>1. ASSUME Top(stack).kind \in {"loop", "eval", "cmd"}, NEW p, Goto(p, Pop(stack), sh)
      PROVE  Turned(z)
  BY <1>1, ShownPop, TableTransitive, GoesShown, ShownTurned
<1>2. CASE UnwindLoop
  BY <1>1, <1>2 DEF UnwindLoop
<1>3. CASE UnwindEval
  BY <1>1, <1>3 DEF UnwindEval
<1>4. CASE UnwindBuiltin
  BY <1>1, <1>4 DEF UnwindBuiltin
<1>5. CASE UnwindPosix
  BY <1>5, PosixLeaveShown, ShownTurned DEF UnwindPosix
<1>6. CASE UnwindFunction
  BY <1>6, FunctionLeaveShown DEF UnwindFunction, Safe, Clean
<1>7. CASE UnwindTrap
  <2>1. CASE TrapReturn
    BY <1>7, <2>1, TrapReturnShown, ShownTurned DEF UnwindTrap
  <2>2. CASE Goto(at, Pop(stack), LeaveTrap(sh, Top(stack)))
    <3>1. Shows(z, Pop(stack), sh)
      BY <1>7, ShownPop DEF UnwindTrap, TrapKinds
    <3>2. QED
      BY <2>2, <3>1, TableLeave, GoesShown, ShownTurned
  <2>3. QED
    BY <1>7, <2>1, <2>2 DEF UnwindTrap
<1>8. QED
  BY <1>2, <1>3, <1>4, <1>5, <1>6, <1>7

LEMMA SignalShown ==
    ASSUME HInv, NEW z, Shows(z, stack, sh), NEW i \in Sig, Signal(i)
    PROVE  Shows(z, stack', sh')
<1> USE HInvParts
<1> DEFINE s == sh_fault(sh, stack, i)
           k == fault_frames(sh, stack, i)
<1>1. Shows(z, k, sh)
  BY ShownFault
<1>2. s \in Shell /\ SameTable(sh, s)
  BY FaultSafe, TableFault DEF Safe
<1>3. SameTable(s, [sh_exit(s) EXCEPT !.exitval = 1])
  <2> HIDE DEF s
  <2>1. QED
    BY <1>2, TableExit
<1>4. \/ Goto(Jump(JmpCmd), k, [sh_exit(s) EXCEPT !.exitval = 1])
      \/ Goto(at, k, s)
  BY DEF Signal
<1> HIDE DEF s, k
<1>5. QED
  BY <1>1, <1>2, <1>3, <1>4, TableTransitive, GoesShown

-------------------------------------------------------------------------------
(* The refinement. *)

LEMMA ScopesInit == Init => Abstract!Init
<1> SUFFICES ASSUME Init
             PROVE  ScopesOf(stack, sh.trapcom) = <<[i \in SigNo |-> None]>>
  BY DEF Abstract!Init, Abstract!Empty
<1> DEFINE f == [kind |-> "main", mode |-> IF Interactive THEN JmpErrExit ELSE JmpExit]
<1>1. stack = <<f>> /\ f.kind = "main"
  BY DEF Init
<1> HIDE DEF f
<1>2. FunsOf(stack) = {}
  BY <1>1 DEF FunsOf
<1>3. Cardinality(FunsOf(stack)) = 0
  BY <1>2, FS_EmptySet
<1>4. Handlers(sh.trapcom) = [i \in SigNo |-> None]
  BY DEF Init, Handlers
<1>5. ScopesOf(stack, sh.trapcom) = [n \in 1..1 |-> Handlers(sh.trapcom)]
  BY <1>3 DEF ScopesOf
<1>6. QED
  BY <1>4, <1>5

(* What turns is a step of TrapScopes. *)
LEMMA TurnedStep ==
    ASSUME Turned(ScopesOf(stack, sh.trapcom))
    PROVE  [Abstract!Next]_(ScopesOf(stack, sh.trapcom))
<1> DEFINE z == ScopesOf(stack, sh.trapcom)
<1>1. PICK y : Turns(z, y) /\ Shows(y, stack', sh')
  BY DEF Turned
<1>2. y = ScopesOf(stack, sh.trapcom)'
  BY <1>1 DEF Shows, ScopesOf, FunsOf, Nth, Handlers
<1>3. CASE y = z
  BY <1>2, <1>3
<1>4. ASSUME NEW i \in SigNo,
             y \in {[z EXCEPT ![Len(z)] = [@ EXCEPT ![i] = t]] : t \in Handler \cup {None}}
      PROVE  Abstract!Set
  BY <1>2, <1>4 DEF Abstract!Set
<1>5. ASSUME y = Append(z, [i \in SigNo |-> None])
      PROVE  Abstract!Enter
  BY <1>2, <1>5 DEF Abstract!Enter, Abstract!Empty
<1>6. ASSUME Len(z) > 1 /\ y = SubSeq(z, 1, Len(z) - 1)
      PROVE  Abstract!Leave
  BY <1>2, <1>6 DEF Abstract!Leave
<1>7. QED
  BY <1>1, <1>3, <1>4, <1>5, <1>6 DEF Turns, Abstract!Next

LEMMA ScopesNext ==
    ASSUME "trapInDebug" \notin Ops
    PROVE  HInv /\ [Next]_vars => [Abstract!Next]_(ScopesOf(stack, sh.trapcom))
<1> SUFFICES ASSUME HInv, [Next]_vars
             PROVE  Turned(ScopesOf(stack, sh.trapcom))
  BY TurnedStep
<1> DEFINE z == ScopesOf(stack, sh.trapcom)
<1>1. Shows(z, stack, sh)
  BY DEF Shows
<1> HIDE DEF z
<1>2. CASE Step
  <2>1. CASE NextLine \/ ReadLine \/ EndOfInput \/ SigCheck \/ UnwindMain
    BY <1>1, <2>1, MainShown DEF z
  <2>2. CASE \/ SimpleCommand \/ LoopStart \/ Simple \/ BuiltinStart \/ BuiltinEnd
             \/ EvalStart \/ Break \/ ReturnOrExit \/ Error \/ SetErrexit
    BY <1>1, <2>2, CommandShown, ShownTurned DEF z
  <2>3. CASE TrapSignal \/ TrapErr \/ TrapDebug
    BY <1>1, <2>3, TrapShown DEF z
  <2>4. CASE CallFunction \/ CallPosix
    BY <1>1, <2>4, CallShown DEF z
  <2>5. CASE LoopEnd \/ EvalEnd \/ PosixEnd \/ FunctionEnd \/ TrapEnd
    BY <1>1, <2>5, EndShown DEF z
  <2>6. CASE \/ UnwindLoop \/ UnwindEval \/ UnwindBuiltin
             \/ UnwindPosix \/ UnwindFunction \/ UnwindTrap
    BY <1>1, <2>6, UnwindShown DEF z
  <2>7. CASE ScanNext \/ ScanEnd \/ PostExec
    BY <1>1, <2>7, ScanShown, ShownTurned DEF z
  <2>8. QED
    BY <1>2, <2>1, <2>2, <2>3, <2>4, <2>5, <2>6, <2>7 DEF Step
<1>3. ASSUME NEW i \in Sig, Signal(i)
      PROVE  Turned(ScopesOf(stack, sh.trapcom))
  BY <1>1, <1>3, SignalShown, ShownTurned DEF z
<1>4. CASE UNCHANGED vars
  <2>1. Shows(z, stack', sh')
    BY <1>1, <1>4 DEF vars
  <2>2. QED
    BY <2>1, ShownTurned DEF z
<1>5. QED
  BY <1>2, <1>3, <1>4 DEF Next

(* As long as no DEBUG handler uses the trap built-in, the trap handlers are scoped: TrapFrames
   implements TrapScopes.  A KornShell function begins without handlers, only the handlers of the
   innermost function change, and however a function is left, by its end, by return, an error, a
   signal, exit or the recursion limit, the caller has exactly the handlers that it had. *)
THEOREM HandlersAreScoped ==
    ASSUME "trapInDebug" \notin Ops
    PROVE  Spec => TrapsAreScoped
<1>1. Init => Abstract!Init
  BY ScopesInit
<1>2. HInv /\ [Next]_vars => [Abstract!Next]_(ScopesOf(stack, sh.trapcom))
  BY ScopesNext
<1>3. QED
  BY <1>1, <1>2, HInvHolds, PTL DEF Spec, TrapsAreScoped, Abstract!Spec

================================================================================
