------------------------------- MODULE Subshells -------------------------------
(***************************************************************************)
(* Virtual subshells (sh/subshell.c).  A subshell runs in the process of   *)
(* its parent.  Variables are saved one by one when they are first changed *)
(* (sh_assignok), functions go into a table of their own, and the working  *)
(* directory is held by an open descriptor; all is put back at the end.    *)
(* When something cannot be put back the subshell forks in the middle      *)
(* (sh_subfork).                                                           *)
(*                                                                         *)
(* One process is followed: where the shell forks, this is the child.  The *)
(* parent leaves the subshell at once, or has not changed.  A subshell that *)
(* an error or a signal ends is left frame by frame as one that returns.   *)
(*                                                                         *)
(* Left out, and restored in the same way: options, traps, jobs, umask,    *)
(* aliases, positional parameters; the output of a command substitution    *)
(* and redirections.                                                       *)
(***************************************************************************)
EXTENDS Integers, Sequences, FiniteSets

CONSTANTS
    Name,      \* variables
    Value,     \* values of variables
    Function,  \* names of functions
    Body,      \* bodies of functions
    Dir,       \* directories
    Programs,  \* what programs do: sets of the names of actions
    MaxFd,     \* bound on the descriptors that the shell moves out of the way
    MaxDepth,  \* bound on the subshells and functions active
    MaxFork    \* bound on the forks

Null == "null"      \* a variable without a value
Absent == "absent"  \* not in this scope or table
Dummy == "dummy"    \* hides a function of an outer table
Free == "free"      \* a descriptor not open

ASSUME SubshellAssumption ==
    /\ {Null, Absent} \cap Value = {} /\ {Absent, Dummy} \cap Body = {}
    /\ {Free} \cap Dir = {}
    /\ MaxFd \in Nat \ {0} /\ MaxDepth \in Nat /\ MaxFork \in Nat
    /\ \A program \in Programs : program \subseteq
          {"assign", "typeset", "subtypeset", "function", "cd", "share", "fork", "job"}
    /\ Dir # {}

Fd == 1..MaxFd
NoFd == 0
Scope == [Name -> Value \cup {Null, Absent}]
FunTable == [Function -> Body \cup {Absent, Dummy}]

(* A node is a variable of the scope that is so far from the global one. *)
Node == (Nat \ {0}) \X Name

VARIABLES
    ops,       \* what the program does, of Programs
    tree,      \* Seq(Scope): sh.var_tree, the global scope and those of functions
    funs,      \* Seq(FunTable): sh.fun_tree, the base and those of subshells
    cwd,       \* the working directory of the process
    pwd,       \* sh.pwd
    pwdfd,     \* sh.pwdfd
    fd,        \* [Fd -> Dir \cup {Free}]
    subshare,  \* sh.subshare
    calls,     \* the subshells and functions active, innermost first
    data,      \* subshell_data, innermost first; a child may have its parent's
    forks      \* number of forks

vars == <<ops, tree, funs, cwd, pwd, pwdfd, fd, subshare, calls, data, forks>>

Frame == {"sub", "fun"}

(* struct subshell; svar has what the variables saved contained. *)
IsSaved(sp) ==
    /\ DOMAIN sp = {"svar", "sfun", "pwd", "pwdfd", "subshare"}
    /\ DOMAIN sp.svar \subseteq Node /\ \A n \in DOMAIN sp.svar : sp.svar[n] \in Value \cup {Null}
    /\ sp.sfun \in BOOLEAN
    /\ sp.pwd \in Dir /\ sp.pwdfd \in Fd \cup {NoFd} /\ sp.subshare \in BOOLEAN

Subs == {i \in DOMAIN calls : calls[i] = "sub"}
Subshell == Cardinality(Subs)                      \* sh.subshell

TypeOK ==
    /\ ops \in Programs
    /\ tree \in Seq(Scope) /\ tree # <<>> /\ \A n \in Name : tree[1][n] # Absent
    /\ funs \in Seq(FunTable) /\ funs # <<>>
    /\ cwd \in Dir /\ pwd \in Dir /\ pwdfd \in Fd \cup {NoFd}
    /\ fd \in [Fd -> Dir \cup {Free}]
    /\ subshare \in BOOLEAN
    /\ calls \in Seq(Frame)
    /\ \A i \in DOMAIN data : IsSaved(data[i])
    /\ Subshell <= Len(data)
    /\ forks \in 0..MaxFork

(* The directory may have been impossible to open. *)
Init ==
    /\ ops \in Programs /\ tree = <<[n \in Name |-> Null]>>
    /\ funs = <<[f \in Function |-> Absent]>>
    /\ cwd = CHOOSE d \in Dir : TRUE
    /\ pwd = cwd
    /\ \/ pwdfd = NoFd /\ fd = [n \in Fd |-> Free]
       \/ pwdfd = 1 /\ fd = [n \in Fd |-> IF n = 1 THEN cwd ELSE Free]
    /\ subshare = FALSE /\ calls = <<>> /\ data = <<>> /\ forks = 0

--------------------------------------------------------------------------------
(* Variables.  A function sees its own and the global ones. *)

Virtual == Subshell > 0 /\ ~ subshare
Found(n) == IF tree[Len(tree)][n] # Absent THEN <<Len(tree), n>> ELSE <<1, n>>

(* sh_assignok: the innermost subshell saves what it has not yet saved. *)
SavedAnywhere(node) == \E i \in DOMAIN data : node \in DOMAIN data[i].svar     \* mutant
IsKept(node) == node \in DOMAIN data[1].svar

(* A variable that has just been made has no value. *)
ValueFound(node) == tree[node[1]][node[2]]                          \* mutant
ValueOf(node) == IF tree[node[1]][node[2]] = Absent THEN Null ELSE tree[node[1]][node[2]]

sh_assignok(node) ==
    IF ~ Virtual \/ IsKept(node) THEN data
    ELSE [data EXCEPT ![1].svar = [m \in DOMAIN @ \cup {node} |-> IF m = node THEN ValueOf(m) ELSE @[m]]]

Put(node, value) ==
    /\ tree' = [tree EXCEPT ![node[1]][node[2]] = value]
    /\ data' = sh_assignok(node)
    /\ UNCHANGED <<ops, funs, cwd, pwd, pwdfd, fd, subshare, calls, forks>>

Assign(n, v) == "assign" \in ops /\ Put(Found(n), v)
Unset(n) == "assign" \in ops /\ Put(Found(n), Null)

(* A declaration in a function makes a variable in the scope of that function,
   without a value at first. *)
Typeset(n, v) ==
    /\ "typeset" \in ops /\ tree[Len(tree)][n] = Absent
    /\ Virtual /\ Head(calls) = "sub" => "subtypeset" \in ops
    /\ Put(<<Len(tree), n>>, v)

--------------------------------------------------------------------------------
(* Functions *)

(* sh_subfuntree: the table of a subshell is made when it is needed. *)
NewTable == Virtual /\ ~ data[1].sfun
Tables == IF NewTable THEN Append(funs, [f \in Function |-> Absent]) ELSE funs
Tabled == IF NewTable THEN [data EXCEPT ![1].sfun = TRUE] ELSE data

Lookup(tables, f) ==
    LET in == {i \in DOMAIN tables : tables[i][f] # Absent}
        last == CHOOSE i \in in : \A j \in in : j <= i
    IN  IF in = {} \/ tables[last][f] = Dummy THEN Absent ELSE tables[last][f]

DefineFunction(f, b) ==
    /\ "function" \in ops
    /\ funs' = [Tables EXCEPT ![Len(Tables)][f] = b]
    /\ data' = Tabled
    /\ UNCHANGED <<ops, tree, cwd, pwd, pwdfd, fd, subshare, calls, forks>>

(* What takes the place of a function in the last of the tables. *)
RemovedAlways(tables, f) == Absent                                  \* mutant
Removed(tables, f) ==
    IF Len(tables) > 1 /\ (tables[Len(tables)][f] # Absent \/ Lookup(tables, f) # Absent)
    THEN Dummy ELSE Absent

UnsetFunction(f) ==
    /\ "function" \in ops
    /\ funs' = [Tables EXCEPT ![Len(Tables)][f] = Removed(Tables, f)]
    /\ data' = Tabled
    /\ UNCHANGED <<ops, tree, cwd, pwd, pwdfd, fd, subshare, calls, forks>>

FunctionCall ==
    /\ "typeset" \in ops /\ Len(calls) < MaxDepth
    /\ calls' = <<"fun">> \o calls
    /\ tree' = Append(tree, [n \in Name |-> Absent])
    /\ UNCHANGED <<ops, funs, cwd, pwd, pwdfd, fd, subshare, data, forks>>

(* Its variables are unset, and saved once more for that, and then deleted from
   the first list that has them (nv_subsaved). *)
KeepsNodes(node) == Len(data) + 1                                   \* mutant
Saver(node) ==
    LET in == {i \in DOMAIN data : node \in DOMAIN data[i].svar}
    IN  IF Virtual THEN 1
        ELSE IF in = {} THEN Len(data) + 1 ELSE CHOOSE i \in in : \A j \in in : i <= j

FunctionReturn ==
    /\ calls # <<>> /\ Head(calls) = "fun"
    /\ calls' = Tail(calls)
    /\ tree' = SubSeq(tree, 1, Len(tree) - 1)
    /\ data' = [i \in DOMAIN data |->
                  LET svar == data[i].svar
                      kept == {n \in DOMAIN svar : n[1] # Len(tree) \/ Saver(n) # i}
                  IN  [data[i] EXCEPT !.svar = [n \in kept |-> svar[n]]]]
    /\ UNCHANGED <<ops, funs, cwd, pwd, pwdfd, fd, subshare, forks>>

--------------------------------------------------------------------------------
(* The working directory *)

(* A new descriptor has the lowest number that is free. *)
HasFree == \E n \in Fd : fd[n] = Free
NewFd == CHOOSE n \in Fd : fd[n] = Free /\ \A m \in 1..n - 1 : fd[m] # Free

(* sh_pwdupdate closes the descriptor of the old directory, if the subshell will
   not need it. *)
NeverNeeded == FALSE                                                \* mutant
AlwaysNeeded == TRUE                                                \* mutant
Needed == Virtual /\ pwdfd = data[1].pwdfd

PwdUpdate(table) == [n \in Fd |-> IF n = pwdfd /\ ~ Needed THEN Free ELSE table[n]]

(* In a subshell this is for directories that can be left again: there is a
   descriptor, and it and the name agree.  Otherwise cd forks first. *)
Cd(d) ==
    /\ "cd" \in ops /\ HasFree
    /\ Virtual => data[1].pwdfd # NoFd /\ (pwdfd = NoFd \/ fd[pwdfd] = pwd)
    /\ fd' = PwdUpdate([fd EXCEPT ![NewFd] = d])
    /\ pwdfd' = NewFd /\ cwd' = d /\ pwd' = d
    /\ UNCHANGED <<ops, tree, funs, subshare, calls, data, forks>>

--------------------------------------------------------------------------------
(* Subshells *)

(* A shared one, ${ ...; }, saves nothing; inside of a virtual one it forks first. *)
SubshellEnter(share) ==
    /\ share => "share" \in ops /\ ~ Virtual
    /\ Len(calls) < MaxDepth
    /\ calls' = <<"sub">> \o calls
    /\ data' = <<[svar |-> <<>>, sfun |-> FALSE, pwd |-> pwd,
                  pwdfd |-> IF share THEN NoFd ELSE pwdfd, subshare |-> subshare]>> \o data
    /\ subshare' = share
    /\ UNCHANGED <<ops, tree, funs, cwd, pwd, pwdfd, fd, forks>>

(* nv_restore *)
Restored(sp) ==
    [i \in DOMAIN tree |-> [n \in Name |-> IF <<i, n>> \in DOMAIN sp.svar THEN sp.svar[<<i, n>>]
                                                                          ELSE tree[i][n]]]

(* If it cannot go back to the directory the shell gives up. *)
SubshellLeave ==
    LET sp == data[1]
        back == ~ subshare /\ pwdfd # sp.pwdfd
    IN  /\ calls # <<>> /\ Head(calls) = "sub"
        /\ back => fd[sp.pwdfd] \in Dir
        /\ tree' = Restored(sp)
        /\ cwd' = IF back THEN fd[sp.pwdfd] ELSE cwd
        /\ fd' = IF back THEN PwdUpdate(fd) ELSE fd
        /\ IF subshare THEN UNCHANGED <<funs, pwd, pwdfd>>
           ELSE /\ funs' = IF sp.sfun THEN SubSeq(funs, 1, Len(funs) - 1) ELSE funs
                /\ pwd' = sp.pwd /\ pwdfd' = sp.pwdfd
        /\ subshare' = sp.subshare
        /\ calls' = Tail(calls) /\ data' = Tail(data)
        /\ UNCHANGED <<ops, forks>>

(* The child closes the descriptors of the subshells that it will not return to
   (sh_clear_subshell_pwdfd), comparing each with the last that it closed. *)
Cleared ==
    LET before(i) == {j \in 1..i - 1 : data[j].pwdfd # NoFd}
        last(i) == IF before(i) = {} THEN pwdfd
                   ELSE data[CHOOSE j \in before(i) : \A m \in before(i) : m <= j].pwdfd
        closed == {data[i].pwdfd : i \in {j \in DOMAIN data : data[j].pwdfd \notin {NoFd, last(j)}}}
    IN  [n \in Fd |-> IF n \in closed THEN Free ELSE fd[n]]

(* sh_subfork: the child runs the rest of the innermost subshell and ends. *)
Subfork ==
    /\ "fork" \in ops /\ Virtual /\ forks < MaxFork
    /\ forks' = forks + 1 /\ fd' = Cleared
    /\ data' = <<>>
    /\ calls' = SubSeq(calls, 1, (CHOOSE i \in Subs : \A j \in Subs : i <= j) - 1)
    /\ UNCHANGED <<ops, tree, funs, cwd, pwd, pwdfd, subshare>>

(* sh_fork for a job: the child runs one command and ends. *)
Fork ==
    /\ "job" \in ops /\ forks < MaxFork
    /\ forks' = forks + 1 /\ fd' = Cleared
    /\ calls' = <<>>
    /\ UNCHANGED <<ops, tree, funs, cwd, pwd, pwdfd, subshare, data>>

--------------------------------------------------------------------------------
Next ==
    \/ \E n \in Name : Unset(n) \/ \E v \in Value : Assign(n, v) \/ Typeset(n, v)
    \/ \E f \in Function : UnsetFunction(f) \/ \E b \in Body : DefineFunction(f, b)
    \/ \E d \in Dir : Cd(d)
    \/ FunctionCall \/ FunctionReturn
    \/ \E share \in BOOLEAN : SubshellEnter(share)
    \/ SubshellLeave \/ Subfork \/ Fork

Spec == Init /\ [][Next]_vars

--------------------------------------------------------------------------------
(* Properties.  Level i of the subshells active, from the innermost, is that of
   data[i]; the shared ones are the outermost. *)

IsShared(i) == IF i = 1 THEN subshare ELSE data[i - 1].subshare
Levels == {i \in 1..Subshell : ~ IsShared(i)}

(* The number of scopes that there were when subshell i began. *)
ScopesAt(i) ==
    LET at == CHOOSE p \in Subs : Cardinality({q \in Subs : q <= p}) = i
    IN  Len(tree) - Cardinality({p \in 1..at : calls[p] = "fun"})

(* The environment as subshell i found it, from what has been saved. *)
Saved(i, node) ==
    LET in == {j \in 1..i : node \in DOMAIN data[j].svar}
    IN  IF in = {} THEN tree[node[1]][node[2]]
        ELSE data[CHOOSE j \in in : \A m \in in : m <= j].svar[node]
TablesAt(i) == SubSeq(funs, 1, Len(funs) - Cardinality({j \in 1..i : data[j].sfun}))
Environment(i) ==
    [tree |-> [s \in 1..ScopesAt(i) |-> [n \in Name |-> Saved(i, <<s, n>>)]],
     funs |-> [f \in Function |-> Lookup(TablesAt(i), f)],
     cwd |-> data[i].pwd]

Current == [tree |-> tree, funs |-> [f \in Function |-> Lookup(funs, f)],
            cwd |-> cwd]

Forked == INSTANCE ForkedShell WITH
    env <- Current, parents <- [i \in 1..Cardinality(Levels) |-> Environment(i)]

(* A virtual subshell is indistinguishable from a forked one: what is done in it
   changes the environment that it sees as it should, and that of its parents
   not at all. *)
RunsAsForked == Forked!Spec

(* unset -f makes a function unknown, in whatever table it is defined. *)
FunctionsRemoved == [][\A f \in Function : UnsetFunction(f) => Lookup(funs', f) = Absent]_vars

(* The shell knows the directory it is in and holds it open, and each virtual
   subshell that has one to return to holds that one. *)
PwdHeld ==
    /\ pwd = cwd
    /\ pwdfd # NoFd => fd[pwdfd] = cwd
    /\ \A i \in Levels : data[i].pwdfd # NoFd => fd[data[i].pwdfd] = data[i].pwd

(* No descriptor of a directory stays open that nobody will use. *)
NoneLeaked ==
    \A n \in Fd : fd[n] \in Dir => n = pwdfd \/ \E i \in Levels : n = data[i].pwdfd

(* What a subshell will restore exists: no variable of a function that has returned. *)
SavedExist ==
    \A i \in Levels : \A n \in DOMAIN data[i].svar :
        n[1] \in DOMAIN tree /\ tree[n[1]][n[2]] # Absent
================================================================================
