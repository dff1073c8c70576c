------------------------------ MODULE TrapScopes ------------------------------
(***************************************************************************)
(* What the trap table promises to programs: handlers are lexically scoped *)
(* to the KornShell function that sets them.  A function begins with no    *)
(* handlers; only the handlers of the innermost scope ever change; leaving *)
(* a function gives back those of its caller, untouched.                   *)
(***************************************************************************)
EXTENDS Naturals, Sequences

CONSTANTS Slot, Handler, None

VARIABLE scopes   \* the tables of the active scopes, innermost last

Table == [Slot -> Handler \cup {None}]
Empty == [i \in Slot |-> None]

Init == scopes = <<Empty>>

(* trap sets or clears one handler; the EXIT handler is taken when it runs. *)
Set == \E i \in Slot :
          scopes' \in {[scopes EXCEPT ![Len(scopes)] = [@ EXCEPT ![i] = t]] : t \in Handler \cup {None}}
Enter == scopes' = Append(scopes, Empty)
Leave == Len(scopes) > 1 /\ scopes' = SubSeq(scopes, 1, Len(scopes) - 1)

Next == Set \/ Enter \/ Leave
Spec == Init /\ [][Next]_scopes

TypeOK == scopes \in Seq(Table) /\ scopes # <<>>
===============================================================================
