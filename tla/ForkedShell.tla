------------------------------ MODULE ForkedShell ------------------------------
(***************************************************************************)
(* What a subshell promises to programs: it has a copy of the environment  *)
(* of its parent, and its parent goes on with its own environment, which   *)
(* nothing that the subshell did has changed.  This is what fork gives.    *)
(***************************************************************************)
EXTENDS Sequences, Naturals

CONSTANTS Name, Value, Function, Body, Dir, Null, Absent

VARIABLES
    env,      \* the environment of the shell that runs: [tree, funs, cwd]
    parents   \* those of the shells that wait for it in this process, innermost first

Init == parents = <<>>

(* What the shell that runs may do to its own environment, one thing at a time. *)
Assign ==
    \E s \in {1, Len(env.tree)}, n \in Name, v \in Value \cup {Null} :
        env' = [env EXCEPT !.tree[s][n] = v]
Define == \E f \in Function, b \in Body \cup {Absent} : env' = [env EXCEPT !.funs[f] = b]
Cd == \E d \in Dir : env' = [env EXCEPT !.cwd = d]
Call == env' = [env EXCEPT !.tree = Append(@, [n \in Name |-> Absent])]
Return ==
    /\ Len(env.tree) > 1
    /\ env' = [env EXCEPT !.tree = SubSeq(@, 1, Len(@) - 1)]

Change == (Assign \/ Define \/ Cd \/ Call \/ Return) /\ UNCHANGED parents

Enter == parents' = <<env>> \o parents /\ UNCHANGED env
Leave == parents # <<>> /\ env' = Head(parents) /\ parents' = Tail(parents)

(* The subshell becomes a process of its own. *)
Fork == parents' = <<>> /\ UNCHANGED env

Next == Change \/ Enter \/ Leave \/ Fork
Spec == Init /\ [][Next]_<<env, parents>>
================================================================================
