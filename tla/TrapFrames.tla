------------------------------ MODULE TrapFrames ------------------------------
(***************************************************************************)
(* The non-local control flow of the shell process: the chain of           *)
(* checkpoints that sh_pushcontext builds and siglongjmp unwinds           *)
(* (include/fault.h), and the state that must survive it: the scoped       *)
(* state sh.st, the trap table, pending traps, the depth counters and the  *)
(* handler guards (sh/fault.c, sh/xec.c, bltins/trap.c, bltins/cflow.c).   *)
(*                                                                         *)
(* A program is any interleaving of commands; `at` is the point the        *)
(* interpreter has reached, `stack` the C activations that hold saved      *)
(* state (the last one is sh.jmplist), `sh` the fields of Shell_t.         *)
(* Signals arrive at any point.  Virtual subshells, jobs and ^Z are out    *)
(* of this module (sh.subshell = 0, job control off).                      *)
(***************************************************************************)
EXTENDS Integers, Sequences, FiniteSets

CONSTANTS
    Sig,          \* signal numbers whose default action is SH_SIGDONE
    Handler,      \* trap actions that are non-empty commands
    None,         \* no trap: a null pointer in the table
    Ignore,       \* the empty trap action
    Status,       \* exit statuses of commands
    Interactive,  \* an interactive shell, or one running a script
    FuncTrace,    \* the functrace option
    MAXDEPTH,     \* include/path.h
    Ops,          \* the kinds of commands the programs of this instance use
    MaxFrames,    \* bound: commands that nest are issued below this depth
    MaxLoop,      \* bound on sh.st.loopcnt
    MaxSent       \* bound on deliveries of each signal

OpNames == {"builtin", "function", "posix", "eval", "loop", "signal", "err",
            "debug", "return", "exit", "error", "errexit",
            "escape",       \* return, exit and errors inside trap handlers
            "trapInDebug"}  \* the trap built-in inside DEBUG handlers

ASSUME SigAssumption == Sig \subseteq Nat \ {0}
ASSUME TrapAssumption == None # Ignore /\ {None, Ignore} \cap Handler = {}
ASSUME StatusAssumption == Status \subseteq 0..255 /\ 0 \in Status
ASSUME FlagAssumption == Interactive \in BOOLEAN /\ FuncTrace \in BOOLEAN
ASSUME BoundAssumption ==
    /\ MAXDEPTH \in Nat /\ MaxFrames \in Nat /\ MaxLoop \in Nat /\ MaxSent \in Nat
    /\ Ops \subseteq OpNames

(* longjmp values: a greater one unwinds further *)
JmpEval    == 3
JmpTrap    == 4
JmpCmd     == 6
JmpFun     == 7
JmpErrFn   == 8
JmpSub     == 9
JmpErrExit == 10
JmpExit    == 11
JmpMode    == {JmpEval, JmpCmd, JmpFun, JmpErrExit, JmpExit}
(* JmpErrFn is raised only where the recursion limit can be reached. *)
JmpVal     == JmpMode \cup (IF MaxFrames > MAXDEPTH THEN {JmpErrFn} ELSE {})

SigNo == Sig \cup {0}                    \* 0 is EXIT
Trap  == Handler \cup {None, Ignore}
Table == [SigNo -> Trap]

(* The members of struct sh_scoped that the properties tell apart. *)
Scoped == [trapmax : Nat, trapdontexec : {"off", "on", "s"},
           err : Handler \cup {None}, debug : Handler \cup {None},
           loopcnt : Int, breakcnt : Int]

Shell == [st : Scoped, trapcom : Table, pend : SUBSET Sig,
          trapnote : SUBSET {"SIGSET", "SIGTRAP"},
          cursig : Sig \cup {-1}, lastsig : SigNo,
          fn_depth : Int, dot_depth : Int, intrap : Int, indebug : BOOLEAN,
          indone : BOOLEAN, exitval : 0..255, intrap_exit_n : BOOLEAN, errexit : BOOLEAN]

(* Where sh_chktrap returns to: the end of sh_exec (0), sh_done, a read from a
   slow device, or the rethrow of a jump value out of a KornShell function. *)
Done    == 99
Reading == 98
Resume == {0, Done, Reading} \cup JmpVal

(* Activations that own a checkpoint, with the C locals they keep. *)
PlainFrame == [kind : {"main", "loop", "eval", "cmd"}, mode : JmpMode]
FunFrame   == [kind : {"fun"}, mode : JmpMode, prevst : Scoped, savsig : Table,
               options : BOOLEAN]
PosixFrame == [kind : {"posix"}, mode : JmpMode, loopcnt : Int]
DebugFrame == [kind : {"DEBUG"}, mode : JmpMode, savxit : 0..255, nodontexec : BOOLEAN,
               savst : Scoped]
ErrFrame   == [kind : {"ERR"}, mode : JmpMode, savxit : 0..255, nodontexec : BOOLEAN,
               trap : Handler, note : SUBSET {"SIGSET", "SIGTRAP"}, sig : Nat, then : Resume]
SigFrame   == [kind : {"SIG"}, mode : JmpMode, savxit : 0..255, nodontexec : BOOLEAN,
               sig : Nat, then : Resume]
ExitFrame  == [kind : {"EXIT"}, mode : JmpMode, savxit : 0..255, nodontexec : BOOLEAN,
               jmpval : JmpVal \cup {0}]
DoneFrame  == [kind : {"DONE"}, mode : JmpMode, savxit : 0..255, nodontexec : BOOLEAN]

Frame == PlainFrame \cup FunFrame \cup PosixFrame \cup DebugFrame \cup ErrFrame
           \cup SigFrame \cup ExitFrame \cup DoneFrame
TrapKinds == {"DEBUG", "ERR", "SIG", "EXIT", "DONE"}

(* exfile's checkpoint is the outermost, and there is only one. *)
Stack == {k \in Seq(Frame) : k # <<>> /\ \A j \in 1..Len(k) : k[j].kind = "main" <=> j = 1}

(* Control points of the interpreter. *)
Read      == [pc |-> "read"]     \* reading a line from a slow device
Cmd       == [pc |-> "cmd"]      \* between commands: sh_exec is about to be called, or a body ends
Exec      == [pc |-> "exec"]     \* in sh_exec, past the DEBUG trap
Bltin     == [pc |-> "bltin"]    \* a built-in is running in its checkpoint
Exited    == [pc |-> "exited"]
Post(e)   == [pc |-> "post", echeck |-> e]            \* after the switch of sh_exec
Chk(n, t) == [pc |-> "chk", sig |-> n, then |-> t]    \* in the loop of sh_chktrap
Jump(v)   == [pc |-> "jump", val |-> v]               \* siglongjmp under way
Point == {Read, Cmd, Exec, Bltin, Exited}
           \cup {Post(e) : e \in BOOLEAN}
           \cup [pc : {"chk"}, sig : Nat, then : Resume]
           \cup [pc : {"jump"}, val : JmpVal]

VARIABLES
    at,      \* control point
    stack,   \* the checkpoint chain, innermost last
    sh,      \* the shell state
    sent,    \* history: deliveries of each signal
    ran      \* history: handler runs for each signal
vars == <<at, stack, sh, sent, ran>>

Top(k) == k[Len(k)]
Pop(k) == SubSeq(k, 1, Len(k) - 1)
SetMode(k, m) == [k EXCEPT ![Len(k)].mode = m]

Init ==
    /\ at = IF Interactive THEN Read ELSE Cmd
    /\ stack = <<[kind |-> "main", mode |-> IF Interactive THEN JmpErrExit ELSE JmpExit]>>
    /\ sh = [st |-> [trapmax |-> 0, trapdontexec |-> "off", err |-> None, debug |-> None,
                     loopcnt |-> 0, breakcnt |-> 0],
             trapcom |-> [i \in SigNo |-> None], pend |-> {}, trapnote |-> {},
             cursig |-> -1, lastsig |-> 0, fn_depth |-> 0, dot_depth |-> 0,
             intrap |-> 0, indebug |-> FALSE, indone |-> FALSE, exitval |-> 0,
             intrap_exit_n |-> FALSE, errexit |-> FALSE]
    /\ sent = [i \in Sig |-> 0]
    /\ ran = [i \in Sig |-> 0]

-------------------------------------------------------------------------------
(* What the C functions do to the shell state. *)

(* sh_exit: forgets the signal whose handler is running; its other resets are
   parser and arithmetic state that is not modelled. *)
sh_exitKeepsCursig(s) == s
sh_exit(s) == [s EXCEPT !.cursig = -1]

(* sh_sigreset(mode), mode -1 (entering a function) or 1 (leaving it): clears
   the caught traps below trapmax, and the EXIT and pseudosignal traps; traps
   that ignore a signal stay. *)
CaughtBelowMax(s, i) == i < s.st.trapmax - 1 /\ s.trapcom[i] \in Handler
Caught(s, i) == i < s.st.trapmax /\ s.trapcom[i] \in Handler
sh_sigreset(s, mode) ==
    [s EXCEPT
       !.trapcom = [i \in SigNo |-> IF i = 0 \/ Caught(s, i) THEN None ELSE s.trapcom[i]],
       !.pend = {i \in s.pend : ~(i < s.st.trapmax /\ s.trapcom[i] # None)},
       !.st = [s.st EXCEPT !.err = None, !.debug = None,
                           !.trapmax = IF mode = 1 THEN 0 ELSE s.st.trapmax,
                           !.trapdontexec = IF mode = 1 THEN "off" ELSE s.st.trapdontexec],
       !.trapnote = {}]

(* sh_fault: what the handler of signal i records (outside critical regions). *)
sh_fault(s, k, i) ==
    CASE s.trapcom[i] = Ignore -> s
      [] s.trapcom[i] = None   -> [s EXCEPT !.lastsig = i, !.trapnote = @ \cup {"SIGSET"}]
      [] OTHER -> [s EXCEPT !.lastsig = IF Top(k).mode = JmpCmd THEN i ELSE @,
                            !.trapnote = @ \cup {"SIGTRAP"}, !.pend = @ \cup {i}]

(* sh_fault changes where the innermost checkpoint jumps to when no trap is
   set. *)
fault_frames(s, k, i) ==
    IF s.trapcom[i] # None THEN k
    ELSE SetMode(k, IF Top(k).mode < JmpSub /\ ~Interactive THEN JmpFun ELSE JmpExit)

(* sh_trap up to its sh_eval, and from sh_popcontext on. *)
EnterTrap(s) ==
    [s EXCEPT !.intrap = @ + 1,
              !.st.trapdontexec = IF @ = "off" THEN "s" ELSE @]
LeaveTrapForgets(s, f) ==
    [s EXCEPT !.intrap = @ - 1,
              !.st.trapdontexec = IF f.nodontexec THEN "off" ELSE @,
              !.exitval = IF s.intrap_exit_n THEN @ ELSE f.savxit,
              !.intrap_exit_n = FALSE]
LeaveTrap(s, f) ==
    [s EXCEPT !.intrap = @ - 1,
              !.st.trapdontexec = IF f.nodontexec /\ @ = "s" THEN "off" ELSE @,
              !.exitval = IF s.intrap_exit_n THEN @ ELSE f.savxit,
              !.intrap_exit_n = FALSE]

Goto(p, k, s) == at' = p /\ stack' = k /\ sh' = s

(* sh_exit as a step: jump to the innermost checkpoint. *)
SignalExit(k, s) == Goto(Jump(Top(k).mode), k, [sh_exit(s) EXCEPT !.exitval = 1])

(* The end of sh_exec: a pending fatal signal leaves through sh_exit. *)
AfterExec(k, s) ==
    IF "SIGSET" \in s.trapnote THEN SignalExit(k, s) ELSE Goto(Cmd, k, s)

-------------------------------------------------------------------------------
(* sh_chktrap.  The first part runs the ERR trap, the second (Scan) the traps
   of pending signals from trapmax downwards. *)

ErrExit(k, s, n, then) ==
    IF s.errexit THEN Goto(Jump(JmpExit), SetMode(k, JmpExit), sh_exit(s))
                 ELSE Goto(Chk(n, then), k, s)

sh_chktrap(k, s, errexit, then) ==
    LET n == IF s.trapnote = {} THEN 0 ELSE s.st.trapmax
        c == [s EXCEPT !.trapnote = @ \ {"SIGTRAP"}]
        frame == [kind |-> "ERR", mode |-> JmpEval, savxit |-> c.exitval,
                  nodontexec |-> c.st.trapdontexec = "off",
                  trap |-> c.st.err, note |-> c.trapnote, sig |-> n, then |-> then]
    IN IF ~(errexit /\ c.exitval # 0) THEN Goto(Chk(n, then), k, c)
       ELSE IF c.st.err = None        THEN ErrExit(k, c, n, then)
       ELSE Goto(Cmd, Append(k, frame),
                 EnterTrap([c EXCEPT !.st.err = None, !.trapnote = @ \ {"SIGSET"}]))

ReturnForgetsDone(k, s, then) ==
    IF then = 0 THEN AfterExec(k, s)
    ELSE Goto(IF then = Reading THEN Read ELSE Jump(then), k, s)
Return(k, s, then) ==
    CASE then = 0       -> AfterExec(k, s)
      [] then = Done    -> Goto(Exited, k, s)
      [] then = Reading -> Goto(Read, k, s)
      [] OTHER          -> Goto(Jump(then), k, s)

Due == {i \in sh.pend : i < at.sig /\ i # sh.cursig}
TakenKeepsFlag(s, i) == s
Taken(s, i) == [s EXCEPT !.pend = @ \ {i}]
SigFrameOf(s, i) == [kind |-> "SIG", mode |-> JmpEval, savxit |-> s.exitval,
                     nodontexec |-> s.st.trapdontexec = "off", sig |-> i, then |-> at.then]

RunTrap(i) ==
    /\ sh.trapcom[i] \in Handler
    /\ Goto(Cmd, Append(stack, SigFrameOf(sh, i)), EnterTrap([Taken(sh, i) EXCEPT !.cursig = i]))
    /\ ran' = [ran EXCEPT ![i] = @ + 1]
SkipTrap(i) ==
    /\ sh.trapcom[i] \notin Handler
    /\ Goto(Chk(i, at.then), stack,
            [Taken(sh, i) EXCEPT !.cursig = IF sh.trapcom[i] = Ignore THEN -1 ELSE @])
    /\ ran' = ran
ScanNext ==
    /\ at.pc = "chk"
    /\ \E i \in Due : (\A j \in Due : j <= i) /\ (RunTrap(i) \/ SkipTrap(i))
    /\ UNCHANGED sent

ScanEnd ==
    /\ at.pc = "chk" /\ Due = {}
    /\ Return(stack, sh, at.then)
    /\ UNCHANGED <<sent, ran>>

(* After the switch of sh_exec.  Whether the exit status counts for the ERR
   trap and errexit depends on the flags of the caller: either may be. *)
PostExecOnFailure ==
    /\ at.pc = "post"
    /\ \E errexit \in BOOLEAN :
          IF sh.exitval # 0 /\ errexit /\ (sh.trapnote # {} \/ at.echeck)
          THEN sh_chktrap(stack, sh, errexit, 0)
          ELSE AfterExec(stack, sh)
    /\ UNCHANGED <<sent, ran>>
PostExec ==
    /\ at.pc = "post"
    /\ \E errexit \in BOOLEAN :
          IF sh.trapnote # {} \/ (sh.exitval # 0 /\ errexit /\ at.echeck)
          THEN sh_chktrap(stack, sh, errexit, 0)
          ELSE AfterExec(stack, sh)
    /\ UNCHANGED <<sent, ran>>
-------------------------------------------------------------------------------
(* exfile: the command loop, and the end of the shell. *)

(* The next complete command is parsed.  An interactive shell drops what is
   pending, takes back an exit it survived, and waits for a line. *)
NextLine ==
    /\ at = Cmd /\ Top(stack).kind = "main"
    /\ IF Interactive
       THEN Goto(Read, SetMode(stack, IF Top(stack).mode = JmpExit THEN JmpErrExit
                                      ELSE Top(stack).mode),
                 [sh EXCEPT !.st.breakcnt = 0, !.trapnote = {}])
       ELSE Goto(Cmd, stack, [sh EXCEPT !.st.breakcnt = 0])
    /\ UNCHANGED <<sent, ran>>

(* slowexcept: a read that a signal interrupts. *)
ReadLine ==
    /\ at = Read
    /\ CASE "SIGSET" \in sh.trapnote  -> SignalExit(stack, sh)
         [] "SIGTRAP" \in sh.trapnote -> \E errexit \in BOOLEAN :
                                           sh_chktrap(stack, sh, errexit, Reading)
         [] OTHER -> Goto(Cmd, stack, sh)
    /\ UNCHANGED <<sent, ran>>

sh_done(k, s) ==
    LET d == [s EXCEPT !.trapnote = {}, !.indone = TRUE]
        frame == [kind |-> "DONE", mode |-> JmpEval, savxit |-> d.exitval,
                  nodontexec |-> d.st.trapdontexec = "off"]
        e == [d EXCEPT !.trapcom[0] = None]
    IN CASE d.trapcom[0] = None   -> sh_chktrap(k, e, FALSE, Done)
         [] d.trapcom[0] = Ignore -> Goto(Exited, k, e)
         [] OTHER                 -> Goto(Cmd, Append(k, frame), EnterTrap(e))

EndOfInput ==
    /\ at \in {Read, Cmd} /\ Top(stack).kind = "main"
    /\ sh_done(stack, sh)
    /\ UNCHANGED <<sent, ran>>

-------------------------------------------------------------------------------
(* sh_exec: the start of a command, and the commands. *)

(* Commands that nest, or grow a table, are issued below MaxFrames. *)
Room == Len(stack) < MaxFrames
Escapes == sh.intrap = 0 \/ "escape" \in Ops

CanStart == at = Cmd /\ sh.st.breakcnt = 0 /\ "SIGSET" \notin sh.trapnote
Started == [sh EXCEPT !.lastsig = 0, !.exitval = 0]

(* sh_sigcheck *)
SigCheck ==
    /\ at = Cmd /\ "SIGSET" \in sh.trapnote
    /\ SignalExit(stack, sh)
    /\ UNCHANGED <<sent, ran>>

(* A simple command; sh_debug runs first. *)
SimpleCommand ==
    /\ CanStart
    /\ IF sh.st.debug = None \/ sh.indebug
       THEN Goto(Exec, stack, Started)
       ELSE LET frame == [kind |-> "DEBUG", mode |-> JmpEval, savxit |-> 0,
                          nodontexec |-> sh.st.trapdontexec = "off",
                          savst |-> sh.st]
            IN Goto(Cmd, Append(stack, frame),
                    EnterTrap([Started EXCEPT !.indebug = TRUE, !.st.debug = None]))
    /\ UNCHANGED <<sent, ran>>

(* for, while and until: the checkpoint copies the mode of the one outside. *)
LoopStart ==
    /\ "loop" \in Ops /\ Room /\ CanStart /\ sh.st.loopcnt < MaxLoop
    /\ Goto(Cmd, Append(stack, [kind |-> "loop", mode |-> Top(stack).mode]),
            [Started EXCEPT !.st.loopcnt = @ + 1])
    /\ UNCHANGED <<sent, ran>>

(* An external command, or a built-in that nothing interrupts. *)
Simple ==
    /\ at = Exec
    /\ \E x \in Status : Goto(Post(TRUE), stack, [sh EXCEPT !.exitval = x])
    /\ UNCHANGED <<sent, ran>>

(* Built-ins that run long enough for signals to arrive, in a checkpoint. *)
BuiltinStart ==
    /\ "builtin" \in Ops /\ Room /\ at = Exec
    /\ Goto(Bltin, Append(stack, [kind |-> "cmd", mode |-> JmpCmd]), sh)
    /\ UNCHANGED <<sent, ran>>

BuiltinEnd ==
    /\ at = Bltin
    /\ \/ \E x \in Status : Goto(Post(TRUE), Pop(stack), [sh EXCEPT !.exitval = x])
       \/ "error" \in Ops /\ Escapes /\ SignalExit(stack, sh)
    /\ UNCHANGED <<sent, ran>>

EvalStart ==
    /\ "eval" \in Ops /\ Room /\ at = Exec
    /\ Goto(Cmd, Append(stack, [kind |-> "eval", mode |-> JmpEval]), sh)
    /\ UNCHANGED <<sent, ran>>

(* b_break, for break and continue *)
Break ==
    /\ "loop" \in Ops /\ at = Exec
    /\ \E n \in 1..MaxLoop, cont \in BOOLEAN :
          LET c == IF n > sh.st.loopcnt THEN sh.st.loopcnt ELSE n
          IN Goto(Post(TRUE), stack, [sh EXCEPT !.st.breakcnt = IF cont THEN -c ELSE c])
    /\ UNCHANGED <<sent, ran>>

(* b_return, for return and exit *)
ReturnOrExit ==
    /\ at = Exec /\ Escapes
    /\ \E exit \in {e \in BOOLEAN : (IF e THEN "exit" ELSE "return") \in Ops},
          x \in Status, operand \in BOOLEAN :
          LET do_exit == exit \/ (sh.fn_depth = 0 /\ sh.dot_depth = 0)
          IN Goto(Jump(IF do_exit THEN JmpExit ELSE JmpFun), stack,
                  [sh_exit(sh) EXCEPT !.exitval = x,
                      !.intrap_exit_n = @ \/ (do_exit /\ operand /\ sh.intrap > 0)])
    /\ UNCHANGED <<sent, ran>>

(* An error outside built-ins: an expansion or an assignment fails. *)
Error ==
    /\ "error" \in Ops /\ at = Exec /\ Escapes
    /\ SignalExit(stack, sh)
    /\ UNCHANGED <<sent, ran>>

SetErrexit ==
    /\ "errexit" \in Ops /\ at = Exec
    /\ \E on \in BOOLEAN : Goto(Post(TRUE), stack, [sh EXCEPT !.errexit = on])
    /\ UNCHANGED <<sent, ran>>

-------------------------------------------------------------------------------
(* b_trap *)

TrapAllowed == at = Exec /\ Room /\ (~sh.indebug \/ "trapInDebug" \in Ops)

(* The last part: the flag that keeps sh_exec from replacing the process. *)
Recompute(s) ==
    LET old == IF s.fn_depth = 0 THEN "off" ELSE s.st.trapdontexec
        set == s.st.err # None \/ \E i \in SigNo : s.trapcom[i] \in Handler
    IN [s EXCEPT !.st.trapdontexec = IF old = "off" /\ set THEN "on" ELSE old]

TrapmaxOffByOne(s, i, t) == IF t # None /\ i > s.st.trapmax THEN i ELSE s.st.trapmax
Trapmax(s, i, t) == IF t # None /\ i >= s.st.trapmax THEN i + 1 ELSE s.st.trapmax
TrapSignal ==
    /\ "signal" \in Ops /\ TrapAllowed
    /\ \E i \in SigNo, t \in Trap :
          Goto(Post(TRUE), stack,
               Recompute([sh EXCEPT !.trapcom[i] = t, !.st.trapmax = Trapmax(sh, i, t),
                                    !.pend = IF t = None THEN @ \ {i} ELSE @]))
    /\ UNCHANGED <<sent, ran>>

TrapErr ==
    /\ "err" \in Ops /\ TrapAllowed
    /\ \E t \in Handler \cup {None} :
          Goto(Post(TRUE), stack, Recompute([sh EXCEPT !.st.err = t]))
    /\ UNCHANGED <<sent, ran>>

(* Setting the DEBUG trap also notes a trap, clearing it drops every note. *)
TrapDebug ==
    /\ "debug" \in Ops /\ TrapAllowed
    /\ \E t \in Handler \cup {None} :
          Goto(Post(TRUE), stack,
               Recompute([sh EXCEPT !.st.debug = t,
                            !.trapnote = IF t = None THEN {} ELSE @ \cup {"SIGTRAP"}]))
    /\ UNCHANGED <<sent, ran>>

-------------------------------------------------------------------------------
(* sh_funscope: KornShell functions get a trap table of their own, POSIX
   functions and dot scripts share the caller's. *)

CallFunction ==
    /\ "function" \in Ops /\ Room /\ at = Exec
    /\ LET frame == [kind |-> "fun", mode |-> JmpFun, prevst |-> sh.st,
                     savsig |-> sh.trapcom, options |-> sh.errexit]
           inner == sh_sigreset([sh EXCEPT !.st.loopcnt = 0, !.errexit = FALSE], -1)
           s == [inner EXCEPT !.st.debug = IF FuncTrace THEN sh.st.debug ELSE None]
       IN IF sh.fn_depth >= MAXDEPTH
          THEN Goto(Jump(JmpErrFn), Append(stack, frame), s)
          ELSE Goto(Cmd, Append(stack, frame), [s EXCEPT !.fn_depth = @ + 1])
    /\ UNCHANGED <<sent, ran>>

CallPosix ==
    /\ "posix" \in Ops /\ Room /\ at = Exec
    /\ LET s == [sh EXCEPT !.st.loopcnt = 0]
       IN IF sh.dot_depth >= MAXDEPTH THEN SignalExit(stack, s)
          ELSE Goto(Cmd, Append(stack, [kind |-> "posix", mode |-> JmpFun,
                                        loopcnt |-> sh.st.loopcnt]),
                    [s EXCEPT !.dot_depth = @ + 1])
    /\ UNCHANGED <<sent, ran>>

(* v is 0 at the end of the body and a jump value otherwise. *)
PosixLeaveKeepsDepth(v) ==
    LET f == Top(stack)
        s == [sh EXCEPT !.dot_depth = IF v = 0 THEN @ - 1 ELSE @]
    IN IF v \in {0, JmpFun}
       THEN Goto(Post(TRUE), Pop(stack), [s EXCEPT !.st.loopcnt = f.loopcnt])
       ELSE Goto(Jump(v), Pop(stack), s)
PosixLeaveKeepsLoops(v) ==
    Goto(IF v \in {0, JmpFun} THEN Post(TRUE) ELSE Jump(v), Pop(stack),
         [sh EXCEPT !.dot_depth = @ - 1])
PosixLeave(v) ==
    LET f == Top(stack)
        s == [sh EXCEPT !.dot_depth = @ - 1]
    IN IF v \in {0, JmpFun}
       THEN Goto(Post(TRUE), Pop(stack), [s EXCEPT !.st.loopcnt = f.loopcnt])
       ELSE Goto(Jump(v), Pop(stack), s)

(* Past the EXIT trap of the function: a fatal signal is sent again, now to
   the caller; greater jumps go on. *)
FunctionAfter(k, s, v) ==
    IF v > JmpFun THEN /\ \E errexit \in BOOLEAN : sh_chktrap(k, s, errexit, v)
                       /\ sent' = sent
    ELSE IF v = JmpFun /\ s.lastsig # 0
         THEN /\ Goto(Post(TRUE), fault_frames(s, k, s.lastsig), sh_fault(s, k, s.lastsig))
              /\ sent' = [sent EXCEPT ![s.lastsig] = @ + 1]
         ELSE /\ Goto(Post(TRUE), k, s)
              /\ sent' = sent

FunctionLeave(v) ==
    LET f == Top(stack)
        t == sh.trapcom[0]
        left == sh_sigreset([sh EXCEPT !.fn_depth = @ - 1], 1)
        s == [left EXCEPT
                !.st = f.prevst, !.errexit = f.options, !.trapnote = {},
                !.trapcom = [i \in SigNo |-> IF i < f.prevst.trapmax THEN f.savsig[i]
                                             ELSE left.trapcom[i]]]
        frame == [kind |-> "EXIT", mode |-> JmpEval, savxit |-> s.exitval,
                  nodontexec |-> s.st.trapdontexec = "off", jmpval |-> v]
    IN IF sh.fn_depth = 2 /\ v = JmpErrFn
       THEN /\ SignalExit(stack, [sh EXCEPT !.fn_depth = @ - 1])
            /\ sent' = sent
       ELSE IF t \in Handler
       THEN /\ Goto(Cmd, Append(Pop(stack), frame), EnterTrap(s))
            /\ sent' = sent
       ELSE FunctionAfter(Pop(stack), s, v)

-------------------------------------------------------------------------------
(* The end of a body, and of a trap handler. *)

LoopEnd ==
    /\ at = Cmd /\ Top(stack).kind = "loop"
    /\ LET b == IF sh.st.breakcnt < 0 THEN sh.st.breakcnt + 1 ELSE sh.st.breakcnt
       IN \/ b = 0 /\ Goto(Cmd, stack, [sh EXCEPT !.st.breakcnt = 0])
          \/ Goto(Post(FALSE), Pop(stack),
                  [sh EXCEPT !.st.breakcnt = IF b > 0 THEN b - 1 ELSE b, !.st.loopcnt = @ - 1])
    /\ UNCHANGED <<sent, ran>>

EvalEnd ==
    /\ at = Cmd /\ Top(stack).kind = "eval"
    /\ Goto(Post(TRUE), Pop(stack), sh)
    /\ UNCHANGED <<sent, ran>>

PosixEnd ==
    /\ at = Cmd /\ Top(stack).kind = "posix"
    /\ PosixLeave(0)
    /\ UNCHANGED <<sent, ran>>

FunctionEnd ==
    /\ at = Cmd /\ Top(stack).kind = "fun"
    /\ FunctionLeave(0)
    /\ UNCHANGED ran

(* What the caller of sh_trap does when it returns. *)
TrapReturn ==
    LET f == Top(stack)
        k == Pop(stack)
        s == LeaveTrap(sh, f)
        debug == [s EXCEPT !.indebug = FALSE, !.st = f.savst]
        err == [s EXCEPT !.st.err = f.trap, !.trapnote = f.note]
    IN CASE f.kind = "DEBUG" -> /\ IF sh.exitval = 255 /\ s.fn_depth + s.dot_depth # 0
                                  THEN Goto(Jump(JmpFun), k, sh_exit(debug))
                                  ELSE IF sh.exitval = 2
                                  THEN Goto(Post(TRUE), k, [debug EXCEPT !.exitval = 2])
                                  ELSE Goto(Exec, k, debug)
                               /\ sent' = sent
         [] f.kind = "ERR"  -> ErrExit(k, err, f.sig, f.then) /\ sent' = sent
         [] f.kind = "SIG"  -> /\ Goto(Chk(f.sig, f.then), k, [s EXCEPT !.cursig = -1])
                               /\ sent' = sent
         [] f.kind = "EXIT" -> FunctionAfter(k, s, f.jmpval)
         [] f.kind = "DONE" -> Goto(Exited, k, s) /\ sent' = sent

TrapEnd ==
    /\ at = Cmd /\ Top(stack).kind \in TrapKinds
    /\ TrapReturn
    /\ UNCHANGED ran

-------------------------------------------------------------------------------
(* siglongjmp reaches the innermost checkpoint. *)

UnwindLoop ==
    /\ at.pc = "jump" /\ Top(stack).kind = "loop"
    /\ Goto(at, Pop(stack), sh)
    /\ UNCHANGED <<sent, ran>>

UnwindEval ==
    /\ at.pc = "jump" /\ Top(stack).kind = "eval"
    /\ Goto(IF at.val <= JmpEval THEN Post(TRUE) ELSE at, Pop(stack), sh)
    /\ UNCHANGED <<sent, ran>>

(* The failure of a special built-in is not caught. *)
UnwindBuiltin ==
    /\ at.pc = "jump" /\ Top(stack).kind = "cmd"
    /\ \E special \in BOOLEAN :
          Goto(IF at.val <= JmpCmd /\ ~special THEN Post(TRUE) ELSE at, Pop(stack), sh)
    /\ UNCHANGED <<sent, ran>>

UnwindPosix ==
    /\ at.pc = "jump" /\ Top(stack).kind = "posix"
    /\ PosixLeave(at.val)
    /\ UNCHANGED <<sent, ran>>

UnwindFunction ==
    /\ at.pc = "jump" /\ Top(stack).kind = "fun"
    /\ FunctionLeave(at.val)
    /\ UNCHANGED ran

(* A handler is left early: sh_trap cleans up after itself, but the caller
   of sh_trap is jumped over, except in sh_done. *)
UnwindTrapAlways ==
    /\ at.pc = "jump" /\ Top(stack).kind \in TrapKinds
    /\ IF at.val <= JmpTrap
       THEN TrapReturn
       ELSE Goto(at, Pop(stack), LeaveTrap(sh, Top(stack))) /\ sent' = sent
    /\ UNCHANGED ran
UnwindTrap ==
    /\ at.pc = "jump" /\ Top(stack).kind \in TrapKinds
    /\ IF at.val <= JmpTrap \/ sh.indone
       THEN TrapReturn
       ELSE Goto(at, Pop(stack), LeaveTrap(sh, Top(stack))) /\ sent' = sent
    /\ UNCHANGED ran

UnwindMain ==
    /\ at.pc = "jump" /\ Top(stack).kind = "main"
    /\ IF ~Interactive \/ at.val > JmpErrExit
       THEN sh_done(stack, [sh EXCEPT !.st.breakcnt = 0])
       ELSE Goto(Cmd, stack, [sh EXCEPT !.st.breakcnt = 0, !.st.loopcnt = 0,
                                        !.trapnote = {}, !.intrap = 0])
    /\ UNCHANGED <<sent, ran>>

-------------------------------------------------------------------------------
(* Signal i arrives.  In a built-in a caught signal jumps out at once. *)
Signal(i) ==
    /\ at # Exited /\ sent[i] < MaxSent
    /\ LET s == sh_fault(sh, stack, i)
           k == fault_frames(sh, stack, i)
       IN IF sh.trapcom[i] \in Handler /\ Top(stack).mode = JmpCmd
          THEN Goto(Jump(JmpCmd), k, [sh_exit(s) EXCEPT !.exitval = 1])
          ELSE Goto(at, k, s)
    /\ sent' = [sent EXCEPT ![i] = @ + 1]
    /\ ran' = ran

Step ==
    \/ NextLine \/ ReadLine \/ EndOfInput \/ SigCheck
    \/ SimpleCommand \/ LoopStart \/ Simple \/ BuiltinStart \/ BuiltinEnd
    \/ EvalStart \/ Break \/ ReturnOrExit \/ Error \/ SetErrexit
    \/ TrapSignal \/ TrapErr \/ TrapDebug
    \/ CallFunction \/ CallPosix
    \/ LoopEnd \/ EvalEnd \/ PosixEnd \/ FunctionEnd \/ TrapEnd
    \/ UnwindLoop \/ UnwindEval \/ UnwindBuiltin \/ UnwindPosix
    \/ UnwindFunction \/ UnwindTrap \/ UnwindMain
    \/ ScanNext \/ ScanEnd \/ PostExec

Next == Step \/ \E i \in Sig : Signal(i)

(* The shell process runs: it is never stopped between two of its steps. *)
Spec == Init /\ [][Next]_vars /\ WF_vars(Step)

(* Every variable stays in its type: the control point is one the interpreter
   has, and every checkpoint keeps well-formed saved state (shell.h, fault.h). *)
TypeOK ==
    /\ at \in Point
    /\ stack \in Stack
    /\ sh \in Shell
    /\ sent \in [Sig -> Nat]
    /\ ran \in [Sig -> Nat]

-------------------------------------------------------------------------------
(* Properties. *)

Count(k, kinds) == Cardinality({j \in 1..Len(k) : k[j].kind \in kinds})

(* The three depth counters of Shell_t agree with the activations that exist:
   however a function or handler is left, by its end, by return, by an error,
   by a signal or by exit, its counter is taken back exactly once
   (sh_funscope, sh_trap).  fn_depth drifts when the recursion limit is hit. *)
Agree(k, s) ==
    /\ s.dot_depth = Count(k, {"posix"})
    /\ s.intrap = Count(k, TrapKinds)
    /\ MaxFrames <= MAXDEPTH => s.fn_depth = Count(k, {"fun"})
CountersAgree == Agree(stack, sh)

(* Caught traps are scoped: a KornShell function starts with none, sets its
   own, and when it is left, however that happens, the caller has exactly the
   handlers it had (sh_funscope with sh_sigreset). *)
Handlers(table) == [i \in SigNo |-> IF table[i] \in Handler THEN table[i] ELSE None]
FunsOf(k) == {j \in 1..Len(k) : k[j].kind = "fun"}
Nth(F, n) == CHOOSE j \in F : Cardinality({i \in F : i <= j}) = n
ScopesOf(k, table) ==
    LET F == FunsOf(k)
    IN [n \in 1..Cardinality(F) + 1 |->
          Handlers(IF n <= Cardinality(F) THEN k[Nth(F, n)].savsig ELSE table)]
Abstract == INSTANCE TrapScopes WITH Slot <- SigNo, scopes <- ScopesOf(stack, sh.trapcom)
TrapsAreScoped == Abstract!Spec

(* Every handler lies below trapmax, so the loops of sh_chktrap and
   sh_sigreset reach it, across all the saves and restores of sh.st. *)
TrapmaxCovers == \A i \in SigNo : sh.trapcom[i] \in Handler => i < sh.st.trapmax

(* While an EXIT or signal handler is set, sh_exec does not replace the shell
   process by its last command: the flag it tests survives every function and
   handler. *)
ExecGuard ==
    sh.fn_depth = 0 /\ sh.st.trapdontexec = "off" => \A i \in SigNo : sh.trapcom[i] \notin Handler

(* loopcnt counts the loops that enclose the current command in its function,
   and breakcnt never asks for more: break and continue reach the loops they
   name and never a loop of the caller. *)
FunctionFrames == {j \in 1..Len(stack) : stack[j].kind \in {"fun", "posix"}}
Enclosing == {j \in 1..Len(stack) : stack[j].kind = "loop" /\ \A i \in FunctionFrames : i < j}
BreakStaysInside ==
    at = Cmd /\ ~sh.indone => sh.st.breakcnt \in -Cardinality(Enclosing)..Cardinality(Enclosing)
LoopsCounted ==
    /\ at.pc # "jump" /\ ~sh.indone => sh.st.loopcnt = Cardinality(Enclosing)
    /\ BreakStaysInside

(* A delivery of a caught signal runs its handler at most once. *)
HandledOnce == \A i \in Sig : ran[i] <= sent[i]

(* sh_chktrap's guard against re-entry names a handler that is running. *)
CursigHeld ==
    sh.cursig # -1 => \E j \in 1..Len(stack) : stack[j].kind = "SIG" /\ stack[j].sig = sh.cursig

(* Once sh_done has begun nothing jumps past it: no error, exit or signal in
   a trap it runs takes the shell back to its command loop. *)
DoneIsFinal ==
    sh.indone => /\ at.pc = "jump" => Len(stack) > 1
                 /\ at = Cmd => Top(stack).kind # "main"

(* A noted trap is looked at, and a fatal signal acted on, eventually. *)
NotesAreSeen == \A n \in {"SIGTRAP", "SIGSET"} : 
    n \in sh.trapnote ~> n \notin sh.trapnote \/ at = Exited
===============================================================================
