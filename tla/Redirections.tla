----------------------------- MODULE Redirections -----------------------------
(***************************************************************************)
(* Redirections (sh/io.c).  A redirection changes the descriptors of the    *)
(* shell's own process.  Before that sh_iosave copies a descriptor to a     *)
(* number of 10 or above and notes it in filemap; sh_iorestore copies back  *)
(* whatever was noted since a given height of filemap.  The redirections of *)
(* exec last, but in a virtual subshell they too are undone at its end.     *)
(*                                                                         *)
(* Programs use the descriptors of Low by number and those of High by the   *)
(* variable v of {v}>file.  One process is followed: where the shell forks  *)
(* this is the child.                                                       *)
(*                                                                         *)
(* Left out: the streams in front of descriptors, descriptors 0 to 2,       *)
(* close-on-exec, seeks, here documents, <>; (truncated at the end),        *)
(* pipelines, and commands that the shell ends with, which save nothing.    *)
(***************************************************************************)
EXTENDS Integers, Sequences, FiniteSets, TLC

CONSTANTS
    Low,      \* the descriptors below 10
    High,     \* those from 10 on
    File,     \* open files
    Programs, \* what programs do: sets of the names of actions
    MaxTop,   \* bound on the entries of filemap
    MaxDepth, \* bound on the commands active
    MaxFork   \* bound on the forks

Closed == "closed"
NoFd == 0

ASSUME RedirectionAssumption ==
    /\ Low \subseteq Nat \ {NoFd} /\ High \subseteq Nat \ {NoFd} /\ Low \cap High = {}
    /\ IsFiniteSet(Low) /\ IsFiniteSet(High)
    /\ Closed \notin File
    /\ \A program \in Programs : program \subseteq
          {"block", "function", "exec", "sub", "dup", "move", "close", "var", "error", "fork"}
    /\ MaxTop \in Nat /\ MaxDepth \in Nat /\ MaxFork \in Nat

Fd == Low \cup High

VARIABLES
    ops,    \* what the program does, of Programs
    io,     \* the descriptors and what the shell knows of them, see Io
    v,      \* the variable v
    stack,  \* the commands active that may redirect, innermost first
    jump,   \* an error is on its way to who catches it
    forks,  \* number of forks
    lapse   \* history: why what was redirected may not be restored

vars == <<ops, io, v, stack, jump, forks, lapse>>

(* struct fdsave; was is what the descriptor had when it was saved. *)
Save == [orig : Fd, save : High \cup {NoFd}, subshell : BOOLEAN, was : File \cup {Closed}]

(* fdptrs has for a descriptor that holds a saved one the index in filemap of
   that; own are those of High that belong to the program. *)
Io == [fd : [Fd -> File \cup {Closed}], filemap : Seq(Save), fdptrs : [High -> 0..MaxTop],
       own : SUBSET High]

(* A command, or a virtual subshell.  redirect: its list of redirections is
   being executed; fdsaved: what a subshell has saved; v: the variable when a
   subshell began.  before is a history: what the program had open at the start,
   of a command other than exec for the descriptors that it has redirected. *)
Frame == [kind : {"block", "function", "exec", "sub"}, redirect : BOOLEAN, topfd : 0..MaxTop,
          fdsaved : SUBSET Low, v : High \cup {NoFd},
          before : UNION {[ns -> File \cup {Closed}] : ns \in SUBSET Fd}]

Lapse == {"nested", "picked", "close", "stale", "move", "taken", "moved", "inherited"}

TypeOK ==
    /\ ops \in Programs
    /\ io \in Io /\ Len(io.filemap) <= MaxTop
    /\ v \in High \cup {NoFd}
    /\ stack \in Seq(Frame) /\ Len(stack) <= MaxDepth
    /\ jump \in BOOLEAN /\ forks \in 0..MaxFork /\ lapse \in SUBSET Lapse

Over(f, g) == [x \in DOMAIN f \cup DOMAIN g |-> IF x \in DOMAIN f THEN f[x] ELSE g[x]]

(* What the program has open. *)
View(t) == [n \in Fd |-> IF n \in Low \cup t.own THEN t.fd[n] ELSE Closed]

Init ==
    /\ ops \in Programs
    /\ \E n \in Low, file \in File :
          io = [fd |-> [m \in Fd |-> IF m = n THEN file ELSE Closed], filemap |-> <<>>,
                fdptrs |-> [m \in High |-> 0], own |-> {}]
    /\ v = NoFd /\ stack = <<>> /\ jump = FALSE /\ forks = 0 /\ lapse = {}

--------------------------------------------------------------------------------
(* Saving and restoring.  These operators act on a value t of Io. *)

NewFd(t) == CHOOSE n \in High : t.fd[n] = Closed /\ \A m \in High : m < n => t.fd[m] # Closed

sh_inuse(t, n) == n \in High /\ t.fdptrs[n] # 0

(* Through fdptrs, a pointer into filemap, the entry learns of a new number. *)
SetSave(t, n, new) ==
    IF sh_inuse(t, n) /\ t.fdptrs[n] \in DOMAIN t.filemap
    THEN [t.filemap EXCEPT ![t.fdptrs[n]].save = new] ELSE t.filemap

sh_close(t, n) ==
    [t EXCEPT !.fd[n] = Closed, !.filemap = SetSave(t, n, NoFd), !.own = @ \ {n},
              !.fdptrs = [m \in High |-> IF m = n THEN 0 ELSE @[m]]]

(* A saved descriptor is moved when the program wants its number. *)
PreserveForgets(t, n) ==                                            \* mutant
    LET new == NewFd(t)
    IN  [t EXCEPT !.fd[new] = t.fd[n], !.fdptrs = [@ EXCEPT ![new] = t.fdptrs[n], ![n] = 0]]
io_preserve(t, n) ==
    LET new == NewFd(t)
    IN  [t EXCEPT !.fd[new] = t.fd[n], !.filemap = SetSave(t, n, new),
                  !.fdptrs = [@ EXCEPT ![new] = t.fdptrs[n], ![n] = 0]]

(* Saved before, since filemap had the height oldtop.  One that is not open is
   saved as such; keep: it is not copied, to be closed in the end. *)
SavedSince(t, n, oldtop) == \E i \in oldtop + 1..Len(t.filemap) : t.filemap[i].orig = n

PointerPast(t) == Len(t.filemap) + 2                                \* mutant
Pointer(t) == Len(t.filemap) + 1

sh_iosave(t, n, oldtop, subshell, keep) ==
    LET save == IF keep \/ t.fd[n] = Closed THEN NoFd ELSE NewFd(t)
        entry == [orig |-> n, save |-> save, subshell |-> subshell,
                  was |-> IF keep THEN Closed ELSE t.fd[n]]
        noted == [t EXCEPT !.filemap = Append(@, entry)]
    IN  IF SavedSince(t, n, oldtop) THEN t
        ELSE IF save = NoFd THEN noted
        ELSE [noted EXCEPT !.fd[save] = t.fd[n], !.fdptrs[save] = Pointer(t)]

(* Entry i is put back; closing the descriptor may affect the entry itself. *)
RestoreKeepsSave(t, i) ==                                           \* mutant
    LET n == t.filemap[i].orig
        closed == sh_close(t, n)
        save == closed.filemap[i].save
    IN  IF save = NoFd THEN closed
        ELSE [closed EXCEPT !.fd[n] = closed.fd[save], !.fdptrs[save] = 0]
RestoreEntry(t, i) ==
    LET n == t.filemap[i].orig
        closed == sh_close(t, n)
        save == closed.filemap[i].save
    IN  IF save = NoFd THEN closed
        ELSE sh_close([closed EXCEPT !.fd[n] = closed.fd[save],
                                     !.own = IF n \in High THEN @ \cup {n} ELSE @], save)

(* The entries of a subshell are left for its end, where all is TRUE.  They move
   down in filemap. *)
CompactAll(map, last) == SubSeq(map, 1, last)                       \* mutant
Compact(map, last) ==
    LET kept[i \in last..Len(map)] ==     \* of the first i entries
            IF i = last THEN SubSeq(map, 1, last)
            ELSE IF map[i].subshell THEN Append(kept[i - 1], map[i]) ELSE kept[i - 1]
    IN  kept[Len(map)]

sh_iorestore(t, last, all) ==
    LET Top == Len(t.filemap)
        restored[i \in last..Top] ==    \* all the entries above i
            IF i = Top THEN t
            ELSE LET above == restored[i + 1]
                 IN  IF above.filemap[i + 1].subshell /\ ~ all THEN above
                     ELSE RestoreEntry(above, i + 1)
        done == IF last < Top THEN restored[last] ELSE t
    IN  [done EXCEPT !.filemap = IF last >= Top THEN @
                                 ELSE IF all THEN SubSeq(@, 1, last) ELSE Compact(@, last)]

(* A child closes what its parent saved, and keeps the other entries. *)
UnsaveForgets(t) ==                                                 \* mutant
    LET NotOpen(entry) == entry.save = NoFd
    IN  [t EXCEPT !.filemap = SelectSeq(@, NotOpen)]
sh_iounsave(t) ==
    LET unsaved[i \in 0..Len(t.filemap)] ==     \* of the first i entries
            IF i = 0 THEN [io |-> t, new |-> 0]
            ELSE LET u == unsaved[i - 1]
                     entry == u.io.filemap[i]
                 IN  IF entry.save # NoFd THEN [u EXCEPT !.io = sh_close(u.io, entry.save)]
                     ELSE [io |-> [u.io EXCEPT !.filemap[u.new + 1] = entry], new |-> u.new + 1]
        done == unsaved[Len(t.filemap)]
    IN  [done.io EXCEPT !.filemap = SubSeq(@, 1, done.new)]

--------------------------------------------------------------------------------
(* Commands *)

Subs == {i \in DOMAIN stack : stack[i].kind = "sub"}
Virtual == Subs # {}
Sub == CHOOSE i \in Subs : \A j \in Subs : i <= j       \* the innermost one

Running == ~ jump /\ (stack # <<>> => ~ Head(stack).redirect)
Redirecting == ~ jump /\ stack # <<>> /\ Head(stack).redirect
Room == Len(io.filemap) + 1 < MaxTop /\ Cardinality({n \in High : io.fd[n] = Closed}) > 1

(* A block is any compound command, a function also stands for a built-in, whose
   redirections are treated alike. *)
Begin(kind) ==
    /\ Running /\ Len(stack) < MaxDepth
    /\ kind \in ops
    /\ stack' = <<[kind |-> kind, redirect |-> kind # "sub", topfd |-> Len(io.filemap),
                   fdsaved |-> {}, v |-> IF kind = "sub" THEN v ELSE NoFd,
                   before |-> IF kind = "sub" THEN View(io) ELSE <<>>]>> \o stack
    /\ UNCHANGED <<ops, io, v, jump, forks, lapse>>

Run ==
    /\ Redirecting /\ Head(stack).kind # "exec"
    /\ stack' = [stack EXCEPT ![1].redirect = FALSE]
    /\ UNCHANGED <<ops, io, v, jump, forks, lapse>>

(* sh_subsavefd: the first change of n by exec in this subshell. *)
sh_subsavefd(n) == Virtual /\ n \notin stack[Sub].fdsaved

(* What the list of redirections saves before it changes n: a block or function
   always, exec once in a subshell. *)
Saved(t, n) ==
    IF Head(stack).kind # "exec" THEN sh_iosave(t, n, Head(stack).topfd, FALSE, FALSE)
    ELSE IF sh_subsavefd(n) THEN sh_iosave(t, n, Head(stack).topfd, TRUE, FALSE)
    ELSE t

(* What is known then of the descriptors redirected, with what they were. *)
Note(ns) ==
    IF Head(stack).kind = "exec"
    THEN [i \in DOMAIN stack |->
             IF Virtual /\ i = Sub THEN [stack[i] EXCEPT !.fdsaved = @ \cup (ns \cap Low)]
             ELSE stack[i]]
    ELSE [stack EXCEPT ![1].before = Over(@, [n \in ns |-> View(io)[n]])]

(* History: the subshell saves what a block in it has changed. *)
Lapses(why, cond) == lapse' = IF cond THEN lapse \cup {why} ELSE lapse
Nested(n) ==
    /\ Head(stack).kind = "exec" /\ sh_subsavefd(n)
    /\ SavedSince(io, n, stack[Sub].topfd)

(* n>file, and n>&m *)
Redirect(n, file) ==
    /\ Redirecting /\ Room
    /\ io' = [Saved(io, n) EXCEPT !.fd[n] = file]
    /\ stack' = Note({n})
    /\ Lapses("nested", Nested(n))
    /\ UNCHANGED <<ops, v, jump, forks>>
Open(n, file) == Redirect(n, file)
Dup(n, m) ==
    "dup" \in ops /\ n # m /\ View(io)[m] # Closed /\ Redirect(n, io.fd[m])

(* n>&-; a compound command with one of these forks a virtual subshell first. *)
CloseFd(n) ==
    /\ "close" \in ops /\ Redirecting /\ Room
    /\ Head(stack).kind = "block" => ~ Virtual
    /\ io' = sh_close(Saved(io, n), n)
    /\ stack' = Note({n})
    /\ Lapses("nested", Nested(n))
    /\ UNCHANGED <<ops, v, jump, forks>>

(* n>&m-; exec does not save m. *)
Move(n, m) ==
    /\ "move" \in ops /\ Redirecting /\ Room /\ n # m /\ View(io)[m] # Closed
    /\ LET exec == Head(stack).kind = "exec"
           t == IF exec THEN io ELSE sh_iosave(io, m, Head(stack).topfd, FALSE, FALSE)
       IN  /\ io' = [Saved(sh_close(t, m), n) EXCEPT !.fd[n] = io.fd[m]]
           /\ stack' = Note(IF exec THEN {n} ELSE {n, m})
           /\ IF exec /\ Virtual THEN Lapses("move", TRUE) ELSE Lapses("nested", Nested(n))
    /\ UNCHANGED <<ops, v, jump, forks>>

(* {v}>file takes the first free number from 10 on; it is noted to be closed in the
   end, but for exec outside of subshells. *)
VarOpen(file) ==
    /\ "var" \in ops /\ Redirecting /\ Room
    /\ LET n == NewFd(io)
           exec == Head(stack).kind = "exec"
           t == [io EXCEPT !.fd[n] = file, !.own = @ \cup {n}]
       IN  /\ io' = IF exec /\ ~ Virtual THEN t
                    ELSE sh_iosave(t, n, Head(stack).topfd, FALSE, TRUE)
           /\ v' = n
           /\ stack' = Note({n})
           /\ Lapses("picked", exec /\ Virtual /\ Sub # 2)
    /\ UNCHANGED <<ops, jump, forks>>

(* History: the shell has taken the number, and the pointer to its entry is old. *)
Stale == sh_inuse(io, v) /\ \A i \in DOMAIN io.filemap : io.filemap[i].save = v => i # io.fdptrs[v]

(* {v}>&- saves nothing.  The number may by now be one that the shell has taken. *)
VarClose ==
    /\ "var" \in ops /\ Redirecting /\ Room /\ v # NoFd
    /\ io' = sh_close(IF sh_inuse(io, v) THEN io_preserve(io, v) ELSE io, v)
    /\ lapse' = lapse \cup (IF Virtual THEN {"close"} ELSE {}) \cup (IF Stale THEN {"stale"} ELSE {})
    /\ UNCHANGED <<ops, v, stack, jump, forks>>

--------------------------------------------------------------------------------
(* The end of commands *)

(* History: entries that hold descriptors get a lower index, and an entry is put
   back while its own number holds one that is put back later. *)
Moves(last) ==
    \E i, j \in last + 1..Len(io.filemap) :
        /\ i < j /\ ~ io.filemap[i].subshell
        /\ io.filemap[j].subshell /\ io.filemap[j].save # NoFd
Takes(last, all) ==
    \E i \in last + 1..Len(io.filemap), j \in DOMAIN io.filemap :
        /\ io.filemap[i].orig = io.filemap[j].save
        /\ all \/ ~ io.filemap[i].subshell
        /\ j <= i \/ (io.filemap[j].subshell /\ ~ all)

Leave(all) ==
    LET last == Head(stack).topfd
    IN  /\ io' = sh_iorestore(io, last, all)
        /\ stack' = Tail(stack)
        /\ lapse' = lapse \cup (IF ~ all /\ Moves(last) THEN {"moved"} ELSE {})
                          \cup (IF Takes(last, all) THEN {"taken"} ELSE {})
        /\ UNCHANGED <<ops, forks>>

End ==
    /\ Running /\ stack # <<>> /\ Head(stack).kind \in {"block", "function"}
    /\ Leave(FALSE) /\ UNCHANGED <<v, jump>>

EndExec ==
    /\ Redirecting /\ Head(stack).kind = "exec"
    /\ stack' = Tail(stack) /\ UNCHANGED <<ops, io, v, jump, forks, lapse>>

(* A redirection fails: the command is over.  exec is special, and the error goes
   on from there, while the built-in redirect does the same without that. *)
Fail ==
    /\ "error" \in ops /\ Redirecting
    /\ IF Head(stack).kind = "exec"
       THEN stack' = Tail(stack) /\ jump' \in BOOLEAN /\ UNCHANGED <<ops, io, forks, lapse>>
       ELSE Leave(FALSE) /\ UNCHANGED jump
    /\ UNCHANGED v

(* An error is caught by a function, perhaps, and by a subshell. *)
Unwind ==
    /\ jump /\ stack # <<>> /\ Head(stack).kind \in {"block", "function"}
    /\ Leave(FALSE)
    /\ jump' \in IF Head(stack).kind = "function" THEN BOOLEAN ELSE {TRUE}
    /\ UNCHANGED v

SubshellEnd ==
    /\ jump \/ Running
    /\ stack # <<>> /\ Head(stack).kind = "sub"
    /\ Leave(TRUE)
    /\ v' = Head(stack).v /\ jump' = FALSE

(* exfile: an interactive shell goes on. *)
Caught ==
    /\ jump /\ stack = <<>> /\ forks = 0
    /\ io' = sh_iorestore(io, 0, FALSE)
    /\ jump' = FALSE
    /\ UNCHANGED <<ops, v, stack, forks, lapse>>

(* A child of its own: what follows is the rest of one command.  History: entries
   that moved are closed through old pointers. *)
Fork ==
    /\ "fork" \in ops /\ Running /\ forks < MaxFork
    /\ io' = sh_iounsave(io)
    /\ stack' = <<>> /\ forks' = forks + 1
    /\ Lapses("inherited", "moved" \in lapse)
    /\ UNCHANGED <<ops, v, jump>>

(* sh_subfork: the rest of the innermost subshell. *)
Subfork ==
    /\ "fork" \in ops /\ Running /\ forks < MaxFork /\ Virtual
    /\ stack' = SubSeq(stack, 1, Sub - 1) /\ forks' = forks + 1
    /\ UNCHANGED <<ops, io, v, jump, lapse>>

--------------------------------------------------------------------------------
Next ==
    \/ \E kind \in {"block", "function", "exec", "sub"} : Begin(kind)
    \/ Run
    \/ \E n \in Low : \/ \E file \in File : Open(n, file)
                      \/ \E m \in Fd : Dup(n, m) \/ Move(n, m)
                      \/ CloseFd(n)
    \/ \E file \in File : VarOpen(file)
    \/ VarClose
    \/ End \/ EndExec \/ Fail \/ Unwind \/ SubshellEnd \/ Caught
    \/ Fork \/ Subfork

Spec == Init /\ [][Next]_vars

(* Bounds the runs: what the program does after a lapse is not looked at, except
   that entries moved. *)
Faithful == lapse \subseteq {"moved"}

(* Files are alike. *)
Symmetry == Permutations(File)

--------------------------------------------------------------------------------
(* Properties *)

(* What the shell has put aside is still there, each in a place of its own that the
   program has not got. *)
SavesHeld ==
    Faithful => \A i \in DOMAIN io.filemap :
        LET entry == io.filemap[i]
        IN  entry.save # NoFd =>
               /\ io.fd[entry.save] = entry.was /\ entry.save \notin io.own
               /\ \A j \in DOMAIN io.filemap : io.filemap[j].save = entry.save => i = j

(* Every descriptor that is open is the program's, or will be put back. *)
NoneLeaked ==
    Faithful => \A n \in High : io.fd[n] # Closed =>
        n \in io.own \/ \E i \in DOMAIN io.filemap : io.filemap[i].save = n

(* At the end of a command, however it ends, the descriptors that it redirected are
   what they were before it, and the others what they are now; after a subshell
   all of them are what they were. *)
Ends == End \/ EndExec \/ Fail \/ Unwind \/ SubshellEnd
Restores ==
    Ends => View(io)' = Over(Head(stack).before, View(io))
Isolated == [][Restores]_vars

(* But for the cases that lapse names. *)
Restored == [][Faithful' => Restores]_vars

(* A child has what its parent has, and nothing that the parent has put aside. *)
ChildHasTheSame ==
    [][Faithful /\ Fork =>
          /\ View(io)' = View(io)
          /\ \A n \in High : io'.fd[n] # Closed => n \in io.own \/ "moved" \in lapse]_vars
================================================================================
