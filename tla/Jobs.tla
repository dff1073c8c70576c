--------------------------------- MODULE Jobs ---------------------------------
(***************************************************************************)
(* Child processes of the shell: the job table, the saved exit statuses,   *)
(* the wait built-in and the CHLD trap (sh/jobs.c, include/jobs.h), with   *)
(* the callers that fork (sh/xec.c) and the virtual subshells that set     *)
(* part of the state aside (sh/subshell.c).                                *)
(*                                                                         *)
(* `stack` holds the C activations that take part, innermost last, each    *)
(* at its own pc; the last one runs.  SIGCHLD interrupts it between any    *)
(* two steps: job_waitsafe then reaps at once, or only notes the signal    *)
(* when job.in_critical says that the table is in use.  A job has one      *)
(* process, and no process stops: pipelines and ^Z are left out.           *)
(***************************************************************************)
EXTENDS Integers, Sequences, FiniteSets, SequencesExt

CONSTANTS
    Pid,          \* process IDs the kernel hands out; it may reuse them
    Status,       \* exit statuses of children
    CHILD_MAX,    \* sh.lim.child_max: how many exit statuses are kept
    JOBMAX,       \* the variable JOBMAX, 0 when unset
    Monitor,      \* the monitor option: jobs have process groups
    CriticalMod,  \* job.in_critical wraps here: UINT_MAX + 1
    WaitsafeMod,  \* job.waitsafe, a char, wraps here
    Ops,          \* the kinds of commands the programs of this instance use
    MaxSpawn,     \* bound on the children of a run
    MaxTraps,     \* bound: handlers nested this deep run built-ins only
    MaxSub        \* bound on subshells inside subshells of one parent

OpNames == {"fg", "wait", "waitall", "jobs", "trap", "subshell", "error"}

ASSUME PidAssumption == Pid \subseteq Nat \ {0}
ASSUME StatusAssumption == Status \subseteq 0..255 \ {127}
ASSUME LimitAssumption ==
    /\ CHILD_MAX \in Nat \ {0} /\ JOBMAX \in Nat
    /\ CriticalMod \in Nat \ 0..3 /\ WaitsafeMod \in Nat \ 0..1
ASSUME JobsBoundAssumption ==
    /\ MaxSpawn \in Nat /\ MaxTraps \in Nat \ {0} /\ MaxSub \in Nat
    /\ Monitor \in BOOLEAN /\ Ops \subseteq OpNames

Slot == 1..MaxSpawn       \* struct process objects; 0 is the null pointer
NotFound == 127           \* ERROR_NOENT

Process == [pid : Pid \cup {0}, exit : Status \cup {0}, env : Nat,
            flag : SUBSET {"EXITSAVE", "DONE", "NOTIFY", "BG"}]
Saved == [pid : Pid, exitval : Status \cup {0}]           \* struct jobsave

(* struct jobs and the statics of jobs.c. *)
Job == [pwlist : Seq(Slot),        \* the job table, latest first
        rec : [Slot -> Process],
        freelist : Seq(Slot),
        bck : Seq(Seq(Saved)),     \* saved statuses; those of outer shells come first
        in_critical : 0..CriticalMod - 1, savesig : BOOLEAN,
        waitsafe : 0..WaitsafeMod - 1, numbjob : Int,
        nochild : BOOLEAN,         \* the value job_reap returned
        evicted : SUBSET Pid]      \* history: statuses dropped for lack of room

(* The fields of Shell_t that jobs.c uses. *)
Shell == [trapcom : BOOLEAN,       \* a CHLD trap is set
          sigflag : BOOLEAN,       \* SH_SIGTRAP in sh.sigflag[SIGCHLD]
          trapnote : BOOLEAN, bckpid : Pid \cup {0}, curenv : Nat, jobenv : Nat,
          subenv : Nat, intrap : Nat]

(* Activations. *)
Main       == [fn |-> "main", pc |-> "idle"]
Handler    == [fn |-> "trap", pc |-> "idle"]
Fork(b)    == [fn |-> "fork", pc |-> IF b THEN "jobmax" ELSE "lock", bg |-> b, pid |-> 0]
Wait(p, s, pc, o) ==
    [fn |-> "wait", pc |-> pc, pid |-> p, pw |-> s, intr |-> TRUE, exitval |-> 0, owed |-> o]
Reap(s, a) == [fn |-> "reap", nohang |-> s, sig |-> s, async |-> a, pw |-> 0]
Unlock     == [fn |-> "unlock", pc |-> "test"]

VARIABLES
    stack,    \* the C activations, innermost last
    job,      \* struct jobs job
    sh,       \* Shell_t sh
    kernel,   \* the state of each process ID: free, running, or a zombie
    sigchld,  \* SIGCHLD is pending
    child,    \* history: the child last started with each process ID
    spawned   \* history: forks so far
vars == <<stack, job, sh, kernel, sigchld, child, spawned>>

Kernel == [st : {"free", "run"}] \cup [st : {"zombie"}, status : Status]
Child == [status : Status \cup {-1}, bg : BOOLEAN, owed : BOOLEAN, traps : Nat]

Init ==
    /\ stack = <<Main>>
    /\ job = [pwlist |-> <<>>,
              rec |-> [s \in Slot |-> [pid |-> 0, exit |-> 0, env |-> 0, flag |-> {}]],
              freelist |-> [s \in Slot |-> s], bck |-> <<<<>>>>,
              in_critical |-> 0, savesig |-> FALSE, waitsafe |-> 0, numbjob |-> 0,
              nochild |-> FALSE, evicted |-> {}]
    /\ sh = [trapcom |-> FALSE, sigflag |-> FALSE, trapnote |-> FALSE, bckpid |-> 0,
             curenv |-> 0, jobenv |-> 0, subenv |-> 0, intrap |-> 0]
    /\ kernel = [p \in Pid |-> [st |-> "free"]]
    /\ sigchld = FALSE
    /\ child = [p \in Pid |-> [status |-> -1, bg |-> FALSE, owed |-> FALSE, traps |-> 0]]
    /\ spawned = 0

Top == stack[Len(stack)]
Caller == Front(stack)
At(pc) == [Top EXCEPT !.pc = pc]
Continue(f) == Append(Caller, f)           \* the activation goes on as f
Call(f, g) == Append(Continue(f), g)       \* it goes on as f once g returns

-------------------------------------------------------------------------------
(* The job table and the saved statuses. *)

BumpInt(x) == x + 1
Bump(x) == (x + 1) % WaitsafeMod          \* job.waitsafe++
Flag(j, s) == j.rec[s].flag
SetFlag(j, s, flags) == [j EXCEPT !.rec[s].flag = flags]

(* job_bypid *)
job_bypid(j, p) ==
    LET i == SelectInSeq(j.pwlist, LAMBDA s : j.rec[s].pid = p)
    IN IF i = 0 THEN 0 ELSE j.pwlist[i]

(* p_nxtjob links the records of the table, and those of the free list. *)
p_nxtjob(j, s) ==
    LET q == IF Contains(j.pwlist, s) THEN j.pwlist ELSE j.freelist
        i == SelectInSeq(q, LAMBDA x : x = s)
    IN IF i = Len(q) THEN 0 ELSE q[i + 1]

(* job_chksave(p): the status saved for p, the innermost shell first, is
   taken out; -1 if there is none. *)
SavedAt(j, p) == SelectLastInSeq(j.bck, LAMBDA l : \E i \in 1..Len(l) : l[i].pid = p)
SavedStatus(j, p) ==
    LET n == SavedAt(j, p)
    IN IF n = 0 THEN -1
       ELSE j.bck[n][SelectInSeq(j.bck[n], LAMBDA x : x.pid = p)].exitval
job_chksave(j, p) ==
    LET n == SavedAt(j, p)
    IN IF n = 0 THEN j
       ELSE [j EXCEPT !.bck[n] = RemoveFirstMatch(@, LAMBDA x : x.pid = p)]

(* job_chksave(0): the oldest status of this shell is dropped. *)
DropOldest(j) ==
    LET l == Last(j.bck)
    IN [j EXCEPT !.bck[Len(j.bck)] = Front(l), !.evicted = @ \cup {Last(l).pid}]

jobsave_createTooMany(j, p, x) ==
    LET a == job_chksave(j, p)
        b == IF Len(Last(a.bck)) > CHILD_MAX THEN DropOldest(a) ELSE a
    IN [b EXCEPT !.bck[Len(b.bck)] = <<[pid |-> p, exitval |-> x]>> \o @]
jobsave_create(j, p, x) ==
    LET a == job_chksave(j, p)
        b == IF Len(Last(a.bck)) + 1 > CHILD_MAX /\ Last(a.bck) # <<>> THEN DropOldest(a) ELSE a
    IN [b EXCEPT !.bck[Len(b.bck)] = <<[pid |-> p, exitval |-> x]>> \o @]

(* job_unpost: a job that is done leaves the table, unless a CHLD trap is
   still due for it or (notify = FALSE) the user has not been told. *)
Kept(j, s, notify) ==
    \/ ~Contains(j.pwlist, s) \/ "BG" \in Flag(j, s) \/ "DONE" \notin Flag(j, s)
    \/ ~notify /\ "NOTIFY" \in Flag(j, s) /\ j.rec[s].env = 0
NoProcess == [pid |-> 0, exit |-> 0, env |-> 0, flag |-> {}]
Released(j, s) ==
    [j EXCEPT !.pwlist = RemoveFirst(@, s), !.freelist = <<s>> \o @, !.rec[s] = NoProcess]
job_unpost(j, s, notify) ==
    IF Kept(j, s, notify) THEN j
    ELSE IF "EXITSAVE" \notin Flag(j, s) THEN Released(j, s)
    ELSE Released(jobsave_create(j, j.rec[s].pid, j.rec[s].exit), s)
(* The records of S are unposted in the order of the table. *)
Unposted(j, S) ==
    LET unposted[i \in 0..Len(j.pwlist)] ==
            IF i = 0 THEN j
            ELSE IF j.pwlist[i] \in S THEN job_unpost(unposted[i - 1], j.pwlist[i], FALSE)
            ELSE unposted[i - 1]
    IN  unposted[Len(j.pwlist)]

(* job_post: bg counts as a background job; a record of an older process
   with the same ID goes first.  job_fork makes the status that may be saved
   under this ID void. *)
job_post(j, p, bg, env) ==
    LET a == IF job_bypid(j, p) = 0 THEN j ELSE job_unpost(j, job_bypid(j, p), FALSE)
        s == Head(a.freelist)
        new == [pid |-> p, exit |-> 0, env |-> env,
                flag |-> {"EXITSAVE"} \cup IF bg THEN {"BG"} ELSE {}]
    IN job_chksave([a EXCEPT !.freelist = Tail(@), !.pwlist = <<s>> \o @, !.rec[s] = new,
                             !.numbjob = IF bg THEN @ + 1 ELSE @], p)

(* What job_reap records of process p, which ended with status x. *)
Background(j, p) == LET s == job_bypid(j, p) IN s # 0 /\ "BG" \in Flag(j, s)
RecordEnd(j, p, x, trapped) ==
    LET a == [IF x = 0 THEN job_chksave(j, p) ELSE j
                 EXCEPT !.waitsafe = Bump(@)]
        s == job_bypid(a, p)
        bg == Background(a, p)
    IN IF s = 0 THEN jobsave_create(a, p, x)
       ELSE [a EXCEPT !.rec[s].exit = x,
                      !.rec[s].flag = (@ \cup {"DONE"} \cup IF bg THEN {"NOTIFY"} ELSE {})
                                         \ IF trapped THEN {} ELSE {"BG"},
                      !.numbjob = IF bg THEN @ - 1 ELSE @]

job_lock(j) == [j EXCEPT !.in_critical = (@ + 1) % CriticalMod]
StartReap(j) == [j EXCEPT !.savesig = FALSE]

-------------------------------------------------------------------------------
(* job_reap and job_unlock. *)

NoChild == \A p \in Pid : kernel[p].st = "free"

(* Without process groups nobody is told that a job is done. *)
Notice(j, s) == IF Monitor \/ s = 0 THEN j ELSE SetFlag(j, s, Flag(j, s) \ {"NOTIFY"})

(* waitpid returns a process.  With the CHLD trap set its end is noted; a
   blocking job_reap runs the trap itself before it goes on. *)
NoteFlag(sig) == [sh EXCEPT !.sigflag = TRUE]
Note(sig) == [sh EXCEPT !.sigflag = TRUE, !.trapnote = @ \/ sig]
ReapedBlocks(s) == [Top EXCEPT !.pw = s]
Reaped(s) == [Top EXCEPT !.nohang = TRUE, !.pw = s]
Chldtrap(unpost) == [fn |-> "chldtrap", pc |-> "start", pw |-> 0, next |-> 0,
                     unpost |-> unpost, trapnote |-> FALSE, bckpid |-> 0]
ReapOne ==
    /\ Top.fn = "reap" /\ Top.pw = 0
    /\ \E p \in Pid :
         /\ kernel[p].st = "zombie"
         /\ LET s == job_bypid(job, p)
                trap == sh.trapcom /\ Background(job, p)
                ended == RecordEnd(job, p, kernel[p].status, sh.trapcom)
            IN /\ sh' = IF trap THEN Note(Top.sig) ELSE sh
               /\ IF trap /\ ~Top.sig
                  THEN job' = ended /\ stack' = Call(Reaped(s), Chldtrap(FALSE))
                  ELSE job' = Notice(ended, s) /\ stack' = Continue(Reaped(0))
         /\ kernel' = [kernel EXCEPT ![p] = [st |-> "free"]]
    /\ UNCHANGED <<sigchld, child, spawned>>
ReapNotice ==
    /\ Top.fn = "reap" /\ Top.pw # 0
    /\ job' = Notice(job, Top.pw)
    /\ stack' = Continue([Top EXCEPT !.pw = 0])
    /\ UNCHANGED <<sh, kernel, sigchld, child, spawned>>

ReapEnd ==
    /\ Top.fn = "reap" /\ Top.pw = 0
    /\ \A p \in Pid : kernel[p].st # "zombie"
    /\ NoChild \/ Top.nohang
    /\ job' = [job EXCEPT !.nochild = IF Top.async THEN @ ELSE NoChild,
                          !.numbjob = IF NoChild THEN 0 ELSE @]
    /\ stack' = Caller
    /\ UNCHANGED <<sh, kernel, sigchld, child, spawned>>

(* job_unlock tests savesig before it leaves the outermost critical region; a
   SIGCHLD between the test and the decrement stays noted. *)
UnlockTest ==
    /\ Top.fn = "unlock" /\ Top.pc = "test" /\ job.in_critical = 1
    /\ IF job.savesig
       THEN /\ stack' = Call(At("leave"), Reap(TRUE, FALSE))
            /\ job' = StartReap(job)
       ELSE stack' = Continue(At("leave")) /\ job' = job
    /\ UNCHANGED <<sh, kernel, sigchld, child, spawned>>

UnlockLeave ==
    /\ Top.fn = "unlock" /\ (Top.pc = "leave" \/ job.in_critical # 1)
    /\ job' = [job EXCEPT !.in_critical = IF @ = 0 THEN CriticalMod - 1 ELSE @ - 1]
    /\ stack' = Caller
    /\ UNCHANGED <<sh, kernel, sigchld, child, spawned>>

-------------------------------------------------------------------------------
(* job_waitsafe, the handler of SIGCHLD; the signal is blocked while it runs. *)
ReapsAlways == TRUE
MayReap == job.in_critical = 0

Blocked == Top.fn = "reap" /\ Top.pw = 0 /\ ~Top.nohang
SigChld ==
    /\ sigchld /\ \A i \in 1..Len(stack) : ~(stack[i].fn = "reap" /\ stack[i].async)
    /\ sigchld' = FALSE
    /\ \/ /\ MayReap
          /\ stack' = Append(stack, Reap(TRUE, TRUE))
          /\ job' = StartReap(job)
       \/ /\ MayReap /\ Blocked       \* waitpid is interrupted, so job_reap returns
          /\ stack' = Append(Caller, Reap(TRUE, TRUE))
          /\ job' = [StartReap(job) EXCEPT !.nochild = FALSE]
       \/ /\ ~MayReap
          /\ stack' = stack
          /\ job' = [job EXCEPT !.savesig = TRUE, !.waitsafe = Bump(@)]
    /\ UNCHANGED <<sh, kernel, child, spawned>>

(* A child ends. *)
ChildExit(p) ==
    /\ kernel[p].st = "run"
    /\ \E x \in Status :
          /\ kernel' = [kernel EXCEPT ![p] = [st |-> "zombie", status |-> x]]
          /\ child' = [child EXCEPT ![p].status = x]
    /\ sigchld' = TRUE
    /\ UNCHANGED <<stack, job, sh, spawned>>

-------------------------------------------------------------------------------
(* job_chldtrap: the CHLD trap runs for every job that is done, with $! and
   $? set to it.  The next record is remembered while the trap runs. *)

ChldtrapStart ==
    /\ Top.fn = "chldtrap" /\ Top.pc = "start"
    /\ job' = job_lock(job)
    /\ sh' = [sh EXCEPT !.sigflag = FALSE, !.trapnote = FALSE]
    /\ stack' = Continue([Top EXCEPT !.pc = "scan", !.trapnote = sh.trapnote,
                                     !.pw = IF job.pwlist = <<>> THEN 0 ELSE Head(job.pwlist)])
    /\ UNCHANGED <<kernel, sigchld, child, spawned>>

DueKeepsBg(j, s) == j
TrapTaken(j, s) == SetFlag(j, s, Flag(j, s) \ {"BG"})
ChldtrapScan ==
    /\ Top.fn = "chldtrap" /\ Top.pc = "scan" /\ Top.pw # 0
    /\ LET s == Top.pw
           p == job.rec[s].pid
           next == p_nxtjob(job, s)
           f == [Top EXCEPT !.pc = "handled", !.next = next, !.bckpid = sh.bckpid]
       IN IF ~({"BG", "DONE"} \subseteq Flag(job, s))
          THEN stack' = Continue([Top EXCEPT !.pw = next]) /\ UNCHANGED <<job, sh, child>>
          ELSE /\ job' = TrapTaken(job, s)
               /\ sh' = [sh EXCEPT !.bckpid = p, !.intrap = IF sh.trapcom THEN @ + 1 ELSE @]
               /\ child' = [child EXCEPT ![p].traps = IF sh.trapcom THEN @ + 1 ELSE @]
               /\ stack' = IF sh.trapcom THEN Call(f, Handler) ELSE Continue(f)
    /\ UNCHANGED <<kernel, sigchld, spawned>>

ChldtrapHandled ==
    /\ Top.fn = "chldtrap" /\ Top.pc = "handled"
    /\ job' = IF Top.unpost /\ Top.pw # 0 /\ job.rec[Top.pw].pid = Top.bckpid
              THEN job_unpost(job, Top.pw, FALSE) ELSE job
    /\ sh' = [sh EXCEPT !.bckpid = Top.bckpid]
    /\ stack' = Continue([Top EXCEPT !.pc = "scan", !.pw = Top.next])
    /\ UNCHANGED <<kernel, sigchld, child, spawned>>

ChldtrapEndLocked ==
    /\ Top.fn = "chldtrap" /\ Top.pc = "scan" /\ Top.pw = 0
    /\ sh' = [sh EXCEPT !.trapnote = Top.trapnote]
    /\ stack' = Caller
    /\ UNCHANGED <<job, kernel, sigchld, child, spawned>>
ChldtrapEnd ==
    /\ Top.fn = "chldtrap" /\ Top.pc = "scan" /\ Top.pw = 0
    /\ sh' = [sh EXCEPT !.trapnote = Top.trapnote]
    /\ stack' = Continue(Unlock)
    /\ UNCHANGED <<job, kernel, sigchld, child, spawned>>

-------------------------------------------------------------------------------
(* Commands.  The main program, a trap handler and the body of a subshell
   are sequences of commands; sh_chktrap follows each. *)

Idle == Top.fn \in {"main", "trap", "sub"} /\ Top.pc = "idle"
Room == sh.intrap < MaxTraps

Builtin ==
    /\ Idle
    /\ stack' = Continue(At("post"))
    /\ UNCHANGED <<job, sh, kernel, sigchld, child, spawned>>

Chktrap ==
    /\ Top.fn \in {"main", "trap", "sub"} /\ Top.pc = "post"
    /\ sh' = [sh EXCEPT !.trapnote = FALSE]
    /\ stack' = IF sh.trapnote /\ sh.sigflag /\ sh.trapcom
                THEN Call(At("idle"), Chldtrap(TRUE)) ELSE Continue(At("idle"))
    /\ UNCHANGED <<job, kernel, sigchld, child, spawned>>

(* The end of the CHLD trap, by its last command or by an error in it:
   sh_exit leaves a critical region. *)
HandlerEnd ==
    /\ Idle /\ Top.fn = "trap"
    /\ sh' = [sh EXCEPT !.intrap = @ - 1]
    /\ stack' = Caller
    /\ UNCHANGED <<job, kernel, sigchld, child, spawned>>

HandlerError ==
    /\ "error" \in Ops /\ Idle /\ Top.fn = "trap"
    /\ sh' = [sh EXCEPT !.intrap = @ - 1]
    /\ stack' = IF job.in_critical # 0 THEN Continue(Unlock) ELSE Caller
    /\ UNCHANGED <<job, kernel, sigchld, child, spawned>>

(* trap command CHLD and trap - CHLD *)
TrapChld ==
    /\ "trap" \in Ops /\ Idle
    /\ \E on \in BOOLEAN : sh' = [sh EXCEPT !.trapcom = on, !.sigflag = on /\ @]
    /\ stack' = Continue(At("post"))
    /\ UNCHANGED <<job, kernel, sigchld, child, spawned>>

(* jobs: job_walk has the children reaped, or reaps them when it leaves the
   critical region, and tells of the jobs of this environment; job_wait(0)
   clears the table. *)
Jobs ==
    /\ "jobs" \in Ops /\ Idle /\ Room
    /\ LET walk == Call(At("post"), Wait(0, 0, "walk", FALSE))
           a == job_lock(job)
       IN IF a.in_critical # 0
          THEN /\ job' = [a EXCEPT !.savesig = TRUE, !.waitsafe = Bump(@)]
               /\ stack' = walk
          ELSE job' = StartReap(a) /\ stack' = Append(walk, Reap(TRUE, FALSE))
    /\ UNCHANGED <<sh, kernel, sigchld, child, spawned>>
Told(j, s) == Contains(j.pwlist, s) /\ j.rec[s].env = sh.jobenv
JobsWalk ==
    /\ Top.fn = "wait" /\ Top.pc = "walk"
    /\ job' = [job EXCEPT !.rec =
                  [s \in Slot |-> IF Told(job, s)
                                  THEN [job.rec[s] EXCEPT !.flag = @ \ {"NOTIFY"}]
                                  ELSE job.rec[s]]]
    /\ stack' = Call(At("cleanup"), Unlock)
    /\ UNCHANGED <<sh, kernel, sigchld, child, spawned>>

-------------------------------------------------------------------------------
(* sh_fork for background jobs, sh_ntfork for foreground commands. *)

(* The kernel goes through all other process IDs before it uses one again: by
   then nobody forks or waits for the process that had it, and its trap has run.
   There is an ID for every fork under way. *)
Unused(p) ==
    /\ kernel[p].st = "free" /\ ~Background(job, p)
    /\ \A i \in 1..Len(stack) : ~(stack[i].fn \in {"fork", "wait"} /\ stack[i].pid = p)
PidsLeft == Cardinality({p \in Pid : Unused(p)})
              > Cardinality({i \in 1..Len(stack) : stack[i].fn = "fork" /\ stack[i].pid = 0})

StartFork ==
    /\ Idle /\ Room /\ spawned < MaxSpawn /\ PidsLeft
    /\ \E bg \in IF "fg" \in Ops THEN BOOLEAN ELSE {TRUE} : stack' = Call(At("post"), Fork(bg))
    /\ spawned' = spawned + 1
    /\ UNCHANGED <<job, sh, kernel, sigchld, child>>

(* While JOBMAX background jobs run, the shell waits for one to end. *)
FullLate == JOBMAX > 0 /\ job.numbjob > JOBMAX
Full == JOBMAX > 0 /\ job.numbjob >= JOBMAX
JobmaxWait ==
    /\ Top.fn = "fork" /\ Top.pc = "jobmax" /\ Full
    /\ job' = StartReap(job_lock(job))
    /\ stack' = Call(At("reaped"), Reap(FALSE, FALSE))
    /\ UNCHANGED <<sh, kernel, sigchld, child, spawned>>
JobmaxWaited ==
    /\ Top.fn = "fork" /\ Top.pc = "reaped"
    /\ stack' = Call(At("jobmax"), Unlock)
    /\ UNCHANGED <<job, sh, kernel, sigchld, child, spawned>>

(* A child starts as process p. *)
Start(p, bg) ==
    /\ Unused(p)
    /\ kernel' = [kernel EXCEPT ![p] = [st |-> "run"]]
    /\ child' = [child EXCEPT ![p] = [status |-> -1, bg |-> bg, traps |-> 0,
                                      owed |-> bg /\ sh.curenv = 0]]

(* sh_fork: SIGCHLD is held off from before the fork until the child is in
   the table. *)
Fork_bg ==
    /\ Top.fn = "fork" /\ Top.pc = "jobmax" /\ ~Full
    /\ \E p \in Pid : /\ Start(p, TRUE)
                      /\ stack' = Continue([Top EXCEPT !.pc = "forked", !.pid = p])
                      /\ job' = [job_lock(job) EXCEPT !.evicted = @ \ {p}]
    /\ UNCHANGED <<sh, sigchld, spawned>>

(* sh_ntfork evaluates redirections and assignments in a critical region of
   its own.  An error in a command substitution there ends that subshell
   only, but sh_exit leaves the region. *)
Ntfork ==
    /\ Top.fn = "fork" /\ Top.pc = "lock"
    /\ job' = job_lock(job)
    /\ stack' = Continue(At("assign"))
    /\ UNCHANGED <<sh, kernel, sigchld, child, spawned>>
NtforkError ==
    /\ "error" \in Ops /\ Top.fn = "fork" /\ Top.pc = "assign"
    /\ stack' = IF job.in_critical # 0 THEN Call(At("assigned"), Unlock)
                                       ELSE Continue(At("assigned"))
    /\ UNCHANGED <<job, sh, kernel, sigchld, child, spawned>>
Fork_fg ==
    /\ Top.fn = "fork" /\ Top.pc \in {"assign", "assigned"}
    /\ \E p \in Pid : /\ Start(p, FALSE)
                      /\ stack' = Call([Top EXCEPT !.pc = "forked", !.pid = p], Unlock)
                      /\ job' = [job_lock(job) EXCEPT !.evicted = @ \ {p}]
    /\ UNCHANGED <<sh, sigchld, spawned>>

(* _sh_fork, and job_fork in the parent *)
ForkPost ==
    /\ Top.fn = "fork" /\ Top.pc = "forked"
    /\ job' = job_lock(job_post(job, Top.pid, Top.bg, sh.curenv))
    /\ sh' = [sh EXCEPT !.jobenv = sh.curenv]
    /\ stack' = Call(At("posted"), Unlock)
    /\ UNCHANGED <<kernel, sigchld, child, spawned>>
ForkEnd ==
    /\ Top.fn = "fork" /\ Top.pc = "posted"
    /\ stack' = Call(At("done"), Unlock)
    /\ UNCHANGED <<job, sh, kernel, sigchld, child, spawned>>
ForkDone ==
    /\ Top.fn = "fork" /\ Top.pc = "done" /\ Top.bg
    /\ sh' = [sh EXCEPT !.bckpid = Top.pid]
    /\ stack' = Caller
    /\ UNCHANGED <<job, kernel, sigchld, child, spawned>>

-------------------------------------------------------------------------------
(* job_wait *)

(* The shell waits for its foreground child. *)
WaitForeground ==
    /\ Top.fn = "fork" /\ Top.pc = "done" /\ ~Top.bg
    /\ LET p == Top.pid
           s == job_bypid(job, p)
           a == IF s = 0 THEN job_chksave(job, p)
                ELSE SetFlag(job, s, Flag(job, s) \ {"EXITSAVE"})
       IN /\ job' = job_lock(a)
          /\ stack' = IF s = 0 THEN Continue(Unlock)
                      ELSE Continue([Wait(p, s, "loop", FALSE) EXCEPT !.intr = FALSE])
    /\ UNCHANGED <<sh, kernel, sigchld, child, spawned>>

(* wait p: a process of another environment is not a child of this shell. *)
Owed(p) == child[p].owed /\ p \notin job.evicted /\ sh.curenv = 0
WaitFor(p) ==
    /\ "wait" \in Ops /\ Idle /\ Room
    /\ LET s == job_bypid(job, p)
           x == SavedStatus(job, p)
           w == Wait(p, s, "loop", Owed(p))
       IN IF s = 0
          THEN /\ job' = job_lock(job_chksave(job, p))
               /\ stack' = Append(Call(At("post"), [w EXCEPT !.pc = "return",
                                               !.exitval = IF x < 0 THEN NotFound ELSE x]), Unlock)
          ELSE /\ job' = job_lock(job)
               /\ stack' = IF job.rec[s].env = sh.curenv THEN Call(At("post"), w)
                           ELSE Append(Call(At("post"), [w EXCEPT !.pc = "return",
                                                                  !.exitval = NotFound]), Unlock)
    /\ UNCHANGED <<sh, kernel, sigchld, child, spawned>>

WaitAll ==
    /\ "waitall" \in Ops /\ Idle /\ Room
    /\ job' = job_lock(job)
    /\ stack' = Call(At("post"), Wait(0, 0, "loop", FALSE))
    /\ UNCHANGED <<sh, kernel, sigchld, child, spawned>>

WaitEnds(f, x) ==
    Continue([f EXCEPT !.pc = "end", !.exitval = IF f.intr /\ sh.trapnote THEN 1 ELSE x])

(* The process is done: its status is the result. *)
Reported == Top.pw # 0 /\ "DONE" \in Flag(job, Top.pw)
WaitDone ==
    /\ Top.fn = "wait" /\ Top.pc = "loop" /\ Reported
    /\ job' = job_unpost(SetFlag(job, Top.pw, Flag(job, Top.pw)
                                   \ ({"NOTIFY"} \cup IF Top.intr THEN {"EXITSAVE"} ELSE {})),
                         Top.pw, TRUE)
    /\ stack' = WaitEnds(Top, job.rec[Top.pw].exit)
    /\ UNCHANGED <<sh, kernel, sigchld, child, spawned>>

(* Otherwise the shell reaps, blocking unless a signal is noted. *)
WaitReap ==
    /\ Top.fn = "wait" /\ Top.pc = "loop" /\ ~Reported
    /\ job' = StartReap([job EXCEPT !.waitsafe = 0])
    /\ stack' = Call(At("reaped"), Reap(job.savesig, FALSE))
    /\ UNCHANGED <<sh, kernel, sigchld, child, spawned>>
WaitReaped ==
    /\ Top.fn = "wait" /\ Top.pc = "reaped"
    /\ stack' = IF job.waitsafe = 0 /\ (job.nochild \/ (Top.intr /\ sh.trapnote))
                THEN WaitEnds(Top, Top.exitval) ELSE Continue(At("loop"))
    /\ UNCHANGED <<job, sh, kernel, sigchld, child, spawned>>

(* wait without operands returns here. *)
WaitEnd ==
    /\ Top.fn = "wait" /\ Top.pc = "end"
    /\ stack' = Call(At(IF Top.pid = 0 THEN "return" ELSE "cleanup"), Unlock)
    /\ UNCHANGED <<job, sh, kernel, sigchld, child, spawned>>
WaitCleanup ==
    /\ Top.fn = "wait" /\ Top.pc = "cleanup"
    /\ IF sh.intrap = 0
       THEN job' = job_lock(Unposted(job, Slot)) /\ stack' = Call(At("return"), Unlock)
       ELSE job' = job /\ stack' = Continue(At("return"))
    /\ UNCHANGED <<sh, kernel, sigchld, child, spawned>>
WaitReturn ==
    /\ Top.fn = "wait" /\ Top.pc = "return"
    /\ stack' = Caller
    /\ child' = IF Top.pid = 0 THEN child ELSE [child EXCEPT ![Top.pid].owed = FALSE]
    /\ UNCHANGED <<job, sh, kernel, sigchld, spawned>>

-------------------------------------------------------------------------------
(* sh_subshell: a subshell without a process of its own. *)

(* job_subsave sets the saved statuses aside under a new environment number;
   sh_sigreset then takes the traps away. *)
Sub(env) == [fn |-> "sub", pc |-> "reset", env |-> env, trapcom |-> sh.trapcom,
             bckpid |-> sh.bckpid]
EnterSub ==
    /\ "subshell" \in Ops /\ Idle /\ Room
    /\ sh.curenv = 0 \/ sh.subenv < MaxSub
    /\ LET env == IF sh.curenv = 0 THEN 1 ELSE sh.subenv + 1
       IN sh' = [sh EXCEPT !.curenv = env, !.subenv = env]
    /\ job' = [job_lock(job) EXCEPT !.bck = Append(@, <<>>)]
    /\ stack' = Append(Call(At("post"), Sub(sh.curenv)), Unlock)
    /\ UNCHANGED <<kernel, sigchld, child, spawned>>

sh_sigreset == [sh EXCEPT !.trapcom = FALSE, !.sigflag = @ /\ ~sh.trapcom, !.trapnote = FALSE]
SubReset ==
    /\ Top.fn = "sub" /\ Top.pc = "reset"
    /\ sh' = sh_sigreset
    /\ stack' = Continue(At("idle"))
    /\ UNCHANGED <<job, kernel, sigchld, child, spawned>>

(* job_subrestore: the statuses saved in the subshell come before those set
   aside, and its jobs count as done. *)
Merged(b) == SubSeq(b, 1, Len(b) - 2) \o <<b[Len(b)] \o b[Len(b) - 1]>>
Dropped(b) == IF Len(Last(b)) > CHILD_MAX
              THEN SubSeq(Last(b), CHILD_MAX + 1, Len(Last(b))) ELSE <<>>
DropExcess(j) ==
    [j EXCEPT !.bck[Len(j.bck)] = SubSeq(@, 1, Len(@) - Len(Dropped(j.bck))),
              !.evicted = @ \cup {x.pid : x \in Range(Dropped(j.bck))}]
MarkDone(j, env) ==
    [j EXCEPT !.rec = [s \in Slot |-> IF Contains(j.pwlist, s) /\ j.rec[s].env = env
                                     THEN [j.rec[s] EXCEPT !.flag = @ \cup {"DONE"}]
                                     ELSE j.rec[s]]]
job_subrestore(j, env) ==
    LET a == MarkDone(DropExcess([j EXCEPT !.bck = Merged(@)]), env)
    IN Unposted(a, {s \in Slot : a.rec[s].env = env})
LeaveSub ==
    /\ Top.fn = "sub" /\ Top.pc = "idle"
    /\ job' = job_lock(job_subrestore(job, sh.curenv))
    /\ stack' = Call(At("leave"), Unlock)
    /\ UNCHANGED <<sh, kernel, sigchld, child, spawned>>
SubLeft ==
    /\ Top.fn = "sub" /\ Top.pc = "leave"
    /\ sh' = [sh_sigreset EXCEPT !.curenv = Top.env, !.jobenv = Top.env,
                                 !.bckpid = Top.bckpid, !.trapcom = Top.trapcom]
    /\ stack' = Caller
    /\ UNCHANGED <<job, kernel, sigchld, child, spawned>>

-------------------------------------------------------------------------------
Step ==
    \/ ReapOne \/ ReapNotice \/ ReapEnd \/ UnlockTest \/ UnlockLeave
    \/ ChldtrapStart \/ ChldtrapScan \/ ChldtrapHandled \/ ChldtrapEnd
    \/ Builtin \/ Chktrap \/ HandlerEnd \/ HandlerError \/ TrapChld \/ Jobs \/ JobsWalk
    \/ StartFork \/ JobmaxWait \/ JobmaxWaited \/ Fork_bg
    \/ Ntfork \/ NtforkError \/ Fork_fg \/ ForkPost \/ ForkEnd \/ ForkDone
    \/ WaitForeground \/ (\E p \in Pid : WaitFor(p)) \/ WaitAll \/ WaitDone \/ WaitReap \/ WaitReaped
    \/ WaitEnd \/ WaitCleanup \/ WaitReturn
    \/ EnterSub \/ SubReset \/ LeaveSub \/ SubLeft

Next == Step \/ SigChld \/ \E p \in Pid : ChildExit(p)

(* The shell runs unless it waits for a child, and a pending signal is
   delivered; nothing says that a child ends. *)
Spec == Init /\ [][Next]_vars /\ WF_vars(Step) /\ WF_vars(SigChld)

-------------------------------------------------------------------------------
(* Properties. *)

BaseFrame == [fn : {"main", "trap"}, pc : {"idle", "post"}]
SubFrame == [fn : {"sub"}, pc : {"reset", "idle", "post", "leave"}, env : Nat,
             trapcom : BOOLEAN, bckpid : Pid \cup {0}]
ForkFrame == [fn : {"fork"}, bg : BOOLEAN, pid : Pid \cup {0},
              pc : {"jobmax", "reaped", "lock", "assign", "assigned", "forked", "posted", "done"}]
WaitFrame == [fn : {"wait"}, pc : {"walk", "loop", "reaped", "end", "cleanup", "return"},
              pid : Pid \cup {0}, pw : Slot \cup {0}, intr : BOOLEAN,
              exitval : Status \cup {0, 1, NotFound}, owed : BOOLEAN]
ReapFrame == [fn : {"reap"}, nohang : BOOLEAN, sig : BOOLEAN, async : BOOLEAN, pw : Slot \cup {0}]
UnlockFrame == [fn : {"unlock"}, pc : {"test", "leave"}]
ChldtrapFrame ==
    [fn : {"chldtrap"}, pc : {"start", "scan", "handled"}, pw : Slot \cup {0},
     next : Slot \cup {0}, unpost : BOOLEAN, trapnote : BOOLEAN, bckpid : Pid \cup {0}]
Frame == BaseFrame \cup SubFrame \cup ForkFrame \cup WaitFrame \cup ReapFrame
           \cup UnlockFrame \cup ChldtrapFrame

(* Every variable has its type; job.waitsafe stays in its width, and a record
   is in the job table or free, never both. *)
TypeOK ==
    /\ stack \in Seq(Frame) /\ stack # <<>> /\ stack[1].fn = "main"
    /\ job \in Job /\ sh \in Shell
    /\ kernel \in [Pid -> Kernel] /\ child \in [Pid -> Child]
    /\ sigchld \in BOOLEAN /\ spawned \in 0..MaxSpawn
    /\ Range(job.pwlist) \cap Range(job.freelist) = {}
    /\ Cardinality(Range(job.pwlist)) = Len(job.pwlist)

(* wait p returns the status with which the background child p ended, whatever
   was reaped, unposted, saved or run in subshells before and meanwhile; only
   a status that CHILD_MAX evicted may be lost (job_wait, job_unpost,
   jobsave_create, job_chksave, job_subsave, job_subrestore). *)
StatusReported ==
    \A i \in 1..Len(stack) :
       stack[i].fn = "wait" /\ stack[i].pc = "return" /\ stack[i].owed
         => stack[i].exitval = child[stack[i].pid].status

(* At most CHILD_MAX statuses are kept for each shell, also after those of a
   subshell are merged into those of its parent. *)
SavedBounded == \A n \in 1..Len(job.bck) : Len(job.bck[n]) <= CHILD_MAX

(* wait returns once the children it waits for have ended, though others run
   on: no SIGCHLD is missed between the test of the record and waitpid
   (job_wait, job_reap). *)
Ended(p) == child[p].status # -1
WaitDue == \E i \in 1..Len(stack) :
              /\ stack[i].fn = "wait"
              /\ IF stack[i].pid = 0 THEN \A p \in Pid : kernel[p].st # "run"
                                     ELSE Ended(stack[i].pid)
WaitReturns == WaitDue ~> ~WaitDue

(* job.in_critical counts the activations that hold the lock. *)
Holds(f) ==
    \/ f.fn = "unlock"
    \/ f.fn = "wait" /\ f.pc \in {"walk", "loop", "reaped", "end"}
    \/ f.fn = "chldtrap" /\ f.pc \in {"scan", "handled"}
    \/ f.fn = "fork" /\ f.pc \in {"reaped", "assign", "assigned", "forked", "posted"}
Holders == {i \in 1..Len(stack) : Holds(stack[i])}
LocksBalanced == job.in_critical = Cardinality(Holders)

(* The CHLD trap runs at most once for a child, and never before it ended. *)
ChldTrapOnce == \A p \in Pid : child[p].traps > 0 => child[p].traps = 1 /\ Ended(p)

(* Where every child and every handler ends, the CHLD trap runs for each
   background job whose end was noted, unless the trap is removed: no note is
   lost in nested handlers, critical regions or wait (job_reap, job_chldtrap,
   sh_chktrap). *)
Due(s) == Contains(job.pwlist, s) /\ {"BG", "DONE"} \subseteq Flag(job, s)
Ending == SF_vars(HandlerEnd) /\ \A p \in Pid : WF_vars(ChildExit(p))
ChldTrapRuns == Ending => \A s \in Slot : Due(s) /\ sh.sigflag ~> ~Due(s) \/ ~sh.trapcom

(* No more than JOBMAX background children run at a time. *)
JobmaxHolds ==
    JOBMAX > 0 => Cardinality({p \in Pid : kernel[p].st = "run" /\ child[p].bg}) <= JOBMAX

===============================================================================
