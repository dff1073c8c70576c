--------------------------------- MODULE Timers ---------------------------------
(***************************************************************************)
(* The timers of the shell (sh/timers.c) and two of their users: the alarm *)
(* built-in (bltins/alarm.c) and a read with a time limit (read -t in      *)
(* bltins/read.c, TMOUT in sh/io.c).                                       *)
(*                                                                         *)
(* One real-time alarm of the kernel serves a list of timers.  SIGALRM may *)
(* arrive between any two steps of sh_timeradd, of its own handler sigalrm *)
(* and of the actions that the handler calls; only while the handler is    *)
(* being entered is it blocked.  The handler is entered again from         *)
(* sh_timeradd when a signal came while that was linking a timer.  An      *)
(* action may leave the handler by a jump to the read that it ends, and    *)
(* while the shell waits for a terminal the action of an alarm runs a      *)
(* user's function, which may set and unset alarms itself.                 *)
(*                                                                         *)
(* Left out: sh_timerdel(NULL), which a child calls, an alarm that the     *)
(* shell inherits, and a SIGALRM that another process sends.               *)
(***************************************************************************)
EXTENDS Integers, Sequences, FiniteSets, SequencesExt

CONSTANTS
    Node,      \* storage for timers; what malloc returns is never given back
    Alarm,     \* variables that the alarm built-in made
    Delay,     \* durations
    Ops,       \* what the user of this instance does
    MaxAdd,    \* bound on the timers added
    MaxTime    \* bound on the time

ASSUME DelayAssumption == Delay \subseteq Nat \ {0}
ASSUME TimerBoundAssumption ==
    /\ MaxAdd \in Nat /\ MaxTime \in Nat
    /\ Ops \subseteq {"read", "jump", "repeat", "function", "late"}

Id == 1..MaxAdd                \* timers in the order in which they were added
Time == 0..MaxTime
Client == Alarm \cup {"read"}  \* who has a timer
Nil == 0
ASSUME NilAssumption == Nil \notin Node /\ "read" \notin Alarm

(* Timer_t, without its link.  A timer's action is named by its number, and
   its argument by the user it belongs to. *)
Timer == [wakeup : Nat, incr : Delay \cup {0}, action : Id \cup {0}, handle : Client]

(* What runs, innermost first: the program, a call of sh_timeradd, sigalrm,
   or the action of a timer. *)
Frame == [fn : {"main"}, pc : {"idle", "wait", "dead"}]
         \cup [fn : {"add"}, pc : {"take", "fill", "linked", "call", "called", "return"},
               handle : Client, delay : Delay, repeat : BOOLEAN, tp : Node \cup {Nil}]
         \cup [fn : {"sigalrm"}, pc : {"scan", "run", "end"}, tp : Node \cup {Nil}]
         \cup [fn : {"action"}, action : Id, handle : Client]

VARIABLES
    now,         \* the time
    alarm,       \* when the kernel's alarm goes off, 0 if it is not set
    sigalrmset,  \* SIGALRM is caught by sigalrm
    timer,       \* [Node -> Timer]
    list,        \* the timers linked from tptop
    free,        \* those linked from tpfree
    tpmin,       \* the timer that is next
    time_state,  \* IN_ADDTIMEOUT, IN_SIGALRM, DEFER_SIGALRM, SIGALRM_CALL
    left,        \* the static variable of sigalrm: what the alarm it set has left
    stack,       \* Seq(Frame)
    handle,      \* [Client -> Node]: what the user keeps for sh_timerdel
    added,       \* the number of timers added
    lapse        \* history: accidents after which a timer may not run

vars == <<now, alarm, sigalrmset, timer, list, free, tpmin, time_state, left, stack, handle,
          added, lapse>>

TypeOK ==
    /\ now \in Time /\ alarm \in Nat
    /\ timer \in [Node -> Timer]
    /\ list \in Seq(Node) /\ free \in Seq(Node) /\ tpmin \in Node \cup {Nil}
    /\ time_state \subseteq {"IN_ADDTIMEOUT", "IN_SIGALRM", "DEFER_SIGALRM", "SIGALRM_CALL"}
    /\ sigalrmset \in BOOLEAN /\ left \in Nat
    /\ stack \in Seq(Frame) /\ stack # <<>>
    /\ handle \in [Client -> Node \cup {Nil}]
    /\ added \in 0..MaxAdd
    /\ lapse \subseteq {"jump", "drop", "stale", "orphan", "killed"}

(* What a timer contains that is not linked does not matter. *)
Unused == [wakeup |-> 0, incr |-> 0, action |-> 0, handle |-> "read"]

Init ==
    /\ now = 0 /\ alarm = 0 /\ sigalrmset = FALSE
    /\ timer = [n \in Node |-> Unused]
    /\ list = <<>> /\ free = <<>> /\ tpmin = Nil /\ time_state = {} /\ left = 0
    /\ stack = <<[fn |-> "main", pc |-> "idle"]>>
    /\ handle = [c \in Client |-> Nil] /\ added = 0 /\ lapse = {}

--------------------------------------------------------------------------------
Top == Head(stack)
At(pc) == <<[Top EXCEPT !.pc = pc]>> \o Tail(stack)
Main == Last(stack)

(* The elements of s that are in S, in order: SelectSeq, as a function. *)
Those(s, S) ==
    LET those[i \in 0..Len(s)] == IF i = 0 THEN <<>>
                                  ELSE IF s[i] \in S THEN Append(those[i - 1], s[i])
                                  ELSE those[i - 1]
    IN  those[Len(s)]
Linked == ToSet(list)
Live == {n \in Linked : timer[n].action # 0}

(* The signal is delivered as soon as the alarm goes off. *)
Due == alarm # 0 /\ alarm <= now
Running(fn) == ~ Due /\ Top.fn = fn

(* Time passes; the handler takes no time unless it is "late". *)
Tick ==
    /\ now < MaxTime /\ ~ Due
    /\ Top.fn = "sigalrm" => "late" \in Ops
    /\ now' = now + 1
    /\ UNCHANGED <<alarm, sigalrmset, timer, list, free, tpmin, time_state, left, stack, handle,
                   added, lapse>>

(* Entry of sigalrm, on top of the frames k.  If a timer is being linked or the
   handler runs already it does no more. *)
Enter(k) ==
    LET flags == time_state \ {"SIGALRM_CALL"}
    IN  /\ left' = 0
        /\ IF flags = {}
           THEN /\ time_state' = {"IN_SIGALRM"}
                /\ stack' = <<[fn |-> "sigalrm", pc |-> "scan", tp |-> Nil]>> \o k
           ELSE /\ time_state' = IF "IN_ADDTIMEOUT" \in flags THEN flags \cup {"DEFER_SIGALRM"}
                                                             ELSE flags
                /\ stack' = k

Signal ==
    /\ Due /\ sigalrmset
    /\ Enter(stack) /\ alarm' = 0
    /\ lapse' = IF Top.fn = "sigalrm" /\ Top.pc = "end" THEN lapse \cup {"drop"} ELSE lapse
    /\ UNCHANGED <<now, sigalrmset, timer, list, free, tpmin, handle, added>>

(* The default disposition of the signal ends the process. *)
Killed ==
    /\ Due /\ ~ sigalrmset
    /\ alarm' = 0 /\ lapse' = lapse \cup {"killed"}
    /\ stack' = <<[fn |-> "main", pc |-> "dead"]>>
    /\ UNCHANGED <<now, sigalrmset, timer, list, free, tpmin, time_state, left, handle, added>>

--------------------------------------------------------------------------------
(* sigalrm *)

(* One round: timers without an action go to the free list; the oldest one that
   is due will run, after a repeated one got its next time; and the alarm is set
   for the earliest of the others. *)
RepeatedNow(tp) == now                                 \* mutant
Repeated(tp) ==
    LET t == timer[tp]
    IN  CHOOSE w \in now + 1..now + t.incr : (w - t.wakeup) % t.incr = 0

ExpiredAny == {n \in Linked : timer[n].wakeup <= now}   \* mutant: deleted ones too
Expired == {n \in Live : timer[n].wakeup <= now}

Scan ==
    LET due == Expired
        \* the first in the list of those with the earliest time
        first == {i \in DOMAIN list : list[i] \in due /\
                    \A n \in due : timer[list[i]].wakeup <= timer[n].wakeup}
        tp == IF due = {} THEN Nil ELSE list[CHOOSE i \in first : \A j \in first : i <= j]
        repeats == tp # Nil /\ timer[tp].incr # 0
        later == (Live \ due) \cup (IF repeats THEN {tp} ELSE {})
        wakeup == [n \in later |-> IF n = tp THEN Repeated(tp) ELSE timer[n].wakeup]
        min == IF later = {} THEN Nil
               ELSE CHOOSE n \in later : \A m \in later : wakeup[n] <= wakeup[m]
    IN  /\ Running("sigalrm") /\ Top.pc = "scan"
        /\ list' = Those(list, Live)
        /\ free' = Reverse(Those(list, Node \ Live)) \o free
        /\ tpmin' = min
        /\ timer' = [n \in Node |-> IF n \notin Live THEN Unused
                                  ELSE IF repeats /\ n = tp THEN [timer[n] EXCEPT !.wakeup = wakeup[n]]
                                  ELSE timer[n]]
        /\ IF min # Nil /\ (left = 0 \/ (tp # Nil /\ wakeup[min] < now + left))
           THEN /\ alarm' = IF alarm # 0 /\ alarm < wakeup[min] THEN alarm ELSE wakeup[min]
                /\ left' = alarm' - now
                /\ sigalrmset' = (sigalrmset \/ left = 0)
           ELSE UNCHANGED <<alarm, left, sigalrmset>>
        /\ stack' = <<[Top EXCEPT !.pc = IF tp = Nil THEN "end" ELSE "run", !.tp = tp]>> \o Tail(stack)
        /\ UNCHANGED <<now, time_state, handle, added, lapse>>

(* trap_timeout and time_grace clear what their user keeps of a timer that is
   not repeated, and a read that has timed out is over. *)
NotCleared(t) == handle                                \* mutant
Cleared(t) == IF t.incr = 0 THEN [handle EXCEPT ![t.handle] = Nil] ELSE handle

(* It calls the action. *)
Run ==
    /\ Running("sigalrm") /\ Top.pc = "run"
    /\ LET t == timer[Top.tp]
       IN  /\ timer' = IF t.incr = 0 THEN [timer EXCEPT ![Top.tp].action = 0] ELSE timer
           /\ stack' = <<[fn |-> "action", action |-> t.action, handle |-> t.handle]>> \o At("scan")
           /\ handle' = Cleared(t)
    /\ time_state' = time_state \ {"IN_SIGALRM"}
    /\ UNCHANGED <<now, alarm, sigalrmset, list, free, tpmin, left, added, lapse>>

ActionEnd ==
    /\ Running("action")
    /\ time_state' = time_state \cup {"IN_SIGALRM"}
    /\ stack' = Tail(stack)
    /\ UNCHANGED <<now, alarm, sigalrmset, timer, list, free, tpmin, left, handle, added, lapse>>

(* timedout ends the read by a jump; if an alarm's function runs meanwhile the
   jump ends a command of that function and not the read. *)
Jump ==
    LET outer == {i \in 2..Len(stack) : stack[i].fn = "action"}
        to == IF outer = {} THEN Len(stack) ELSE CHOOSE i \in outer : \A j \in outer : i <= j
    IN  /\ "jump" \in Ops /\ Running("action") /\ Top.handle = "read"
        /\ stack' = IF outer = {} THEN <<[fn |-> "main", pc |-> "idle"]>>
                                  ELSE SubSeq(stack, to, Len(stack))
        /\ left' = IF outer = {} THEN 0 ELSE left
        /\ lapse' = lapse
            \cup (IF \E n \in Live : timer[n].wakeup <= now \/ alarm = 0 THEN {"jump"} ELSE {})
            \cup (IF \E i \in 1..to : stack[i].fn = "add" THEN {"stale"} ELSE {})
        /\ UNCHANGED <<now, alarm, sigalrmset, timer, list, free, tpmin, time_state, handle, added>>

(* Without timers the signal gets its old disposition back. *)
NeverCaught == FALSE                                   \* mutant
StillCaught == sigalrmset /\ tpmin # Nil

End ==
    /\ Running("sigalrm") /\ Top.pc = "end"
    /\ sigalrmset' = StillCaught
    /\ time_state' = time_state \ {"IN_SIGALRM"}
    /\ stack' = Tail(stack)
    /\ left' = IF \E i \in DOMAIN stack' : stack'[i].fn = "sigalrm" THEN left ELSE 0
    /\ UNCHANGED <<now, alarm, timer, list, free, tpmin, handle, added, lapse>>

--------------------------------------------------------------------------------
(* sh_timeradd *)

Adding(pc) == Running("add") /\ Top.pc = pc
Add(c, t, repeat) == [fn |-> "add", pc |-> "take", handle |-> c, delay |-> t, repeat |-> repeat,
                      tp |-> Nil]

(* It takes the first free timer, without blocking the signal, *)
AddTake ==
    LET used == Linked \cup {stack[i].tp : i \in {j \in DOMAIN stack : stack[j].fn = "add"}}
        new == CHOOSE n \in Node \ used : TRUE
    IN  /\ Adding("take")
        /\ free # <<>> \/ Node \ used # {}
        /\ stack' = <<[Top EXCEPT !.pc = "fill", !.tp = IF free # <<>> THEN Head(free) ELSE new]>>
                    \o Tail(stack)
        /\ UNCHANGED <<now, alarm, sigalrmset, timer, list, free, tpmin, time_state, left, handle,
                       added, lapse>>

(* removes it, so that those freed in between get lost, *)
NotPopped(tp) == free                                  \* mutant
Popped(tp) ==
    LET at == {i \in DOMAIN free : free[i] = tp}
    IN  IF at = {} THEN free ELSE SubSeq(free, (CHOOSE i \in at : TRUE) + 1, Len(free))

(* links it as the first and sets the alarm if it is the next to run.  That the
   one believed to be next is deleted is a reason to look at all of them. *)
AddLink ==
    LET tp == Top.tp
        wakeup == now + Top.delay
        first == tpmin = Nil \/ wakeup < timer[tpmin].wakeup
    IN  /\ Adding("fill")
        /\ added' = added + 1
        /\ free' = Popped(tp)
        /\ timer' = [timer EXCEPT ![tp] =
                        [wakeup |-> wakeup, incr |-> IF Top.repeat THEN Top.delay ELSE 0,
                         action |-> added + 1, handle |-> Top.handle]]
        /\ list' = <<tp>> \o list
        /\ time_state' = time_state \cup {"IN_ADDTIMEOUT"}
                           \cup (IF ~ first /\ timer[tpmin].action = 0 THEN {"DEFER_SIGALRM"} ELSE {})
        /\ IF first THEN /\ tpmin' = tp /\ alarm' = wakeup /\ sigalrmset' = TRUE
                    ELSE UNCHANGED <<tpmin, alarm, sigalrmset>>
        /\ stack' = At("linked")
        /\ UNCHANGED <<now, left, handle, lapse>>

(* If a signal came meanwhile it calls the handler. *)
NeverDeferred == FALSE                                 \* mutant
Deferred == "DEFER_SIGALRM" \in time_state

AddLinked ==
    /\ Adding("linked")
    /\ time_state' = IF Deferred THEN {"SIGALRM_CALL"} ELSE time_state \ {"IN_ADDTIMEOUT"}
    /\ stack' = At(IF Deferred THEN "call" ELSE "return")
    /\ UNCHANGED <<now, alarm, sigalrmset, timer, list, free, tpmin, left, handle, added, lapse>>

(* The handler, which cancels the alarm unless it finds that it was called: a
   signal before the call may have found that. *)
AddCall ==
    /\ Adding("call")
    /\ Enter(At("called"))
    /\ alarm' = IF "SIGALRM_CALL" \in time_state THEN alarm ELSE 0
    /\ UNCHANGED <<now, sigalrmset, timer, list, free, tpmin, handle, added, lapse>>

(* A timer that is not the first any more is taken to have run.  The caller keeps
   the handle; its timer may have run since it was linked. *)
AddReturn ==
    LET called == Top.pc = "called"
        tp == IF called /\ Top.tp # Head(list \o <<Nil>>) THEN Nil ELSE Top.tp
    IN  /\ Adding("return") \/ Adding("called")
        /\ handle' = [handle EXCEPT ![Top.handle] = tp]
        /\ lapse' = IF tp # Nil /\ (timer[tp].action = 0 \/ tp \notin Linked
                                     \/ timer[tp].handle # Top.handle)
                    THEN lapse \cup {"stale"} ELSE lapse
        /\ stack' = Tail(stack)
        /\ UNCHANGED <<now, alarm, sigalrmset, timer, list, free, tpmin, time_state, left, added>>

--------------------------------------------------------------------------------
(* The users. *)

(* sh_timerdel for what c keeps, if anything *)
Deleted(c) == IF handle[c] = Nil THEN timer ELSE [timer EXCEPT ![handle[c]].action = 0]

(* An alarm of the kernel is set for a timer that an action deletes. *)
Orphaned(c) == IF Top.fn = "action" /\ handle[c] = tpmin /\ tpmin # Nil
               THEN lapse \cup {"orphan"} ELSE lapse

Idle == Running("main") /\ Top.pc = "idle"

(* A user's function runs as the action of an alarm while a read waits: the
   outermost action, as sh_timetraps ends the waiting state. *)
InFunction ==
    /\ "function" \in Ops /\ Running("action") /\ Top.handle \in Alarm /\ Main.pc = "wait"
    /\ \A i \in 2..Len(stack) : stack[i].fn \notin {"action", "add"}

(* A variable of the alarm built-in gets a value or is unset. *)
SetAlarm(c, t, repeat) ==
    /\ Idle \/ InFunction
    /\ added < MaxAdd
    /\ repeat => "repeat" \in Ops
    /\ timer' = Deleted(c) /\ lapse' = Orphaned(c)
    /\ stack' = <<Add(c, t, repeat)>> \o stack
    /\ UNCHANGED <<now, alarm, sigalrmset, list, free, tpmin, time_state, left, handle, added>>

UnsetAlarm(c) ==
    /\ Idle \/ InFunction
    /\ handle[c] # Nil
    /\ timer' = Deleted(c) /\ handle' = [handle EXCEPT ![c] = Nil] /\ lapse' = Orphaned(c)
    /\ UNCHANGED <<now, alarm, sigalrmset, list, free, tpmin, time_state, left, stack, added>>

(* A read, with or without a time limit. *)
Read ==
    /\ "read" \in Ops /\ Idle
    /\ \/ stack' = At("wait")
       \/ /\ added < MaxAdd
          /\ \E t \in Delay : stack' = <<Add("read", t, FALSE)>> \o At("wait")
    /\ UNCHANGED <<now, alarm, sigalrmset, timer, list, free, tpmin, time_state, left, handle,
                   added, lapse>>

ReadEnd ==
    /\ Running("main") /\ Top.pc = "wait"
    /\ timer' = Deleted("read") /\ handle' = [handle EXCEPT !["read"] = Nil]
    /\ stack' = At("idle")
    /\ UNCHANGED <<now, alarm, sigalrmset, list, free, tpmin, time_state, left, added, lapse>>

--------------------------------------------------------------------------------
Step ==
    \/ Signal \/ Killed \/ Scan \/ Run \/ ActionEnd \/ Jump \/ End
    \/ AddTake \/ AddLink \/ AddLinked \/ AddCall \/ AddReturn

Next ==
    \/ Tick \/ Step
    \/ \E c \in Alarm : UnsetAlarm(c) \/ \E t \in Delay, repeat \in BOOLEAN : SetAlarm(c, t, repeat)
    \/ Read \/ ReadEnd

(* The processor goes on with what it is doing; a user's function ends. *)
Spec == Init /\ [][Next]_vars /\ WF_vars(Step)

--------------------------------------------------------------------------------
(* Properties. *)

(* Storage is in one place: no timer is linked twice, linked and free, or taken by
   two calls of sh_timeradd. *)
NodesApart ==
    LET taken == {i \in DOMAIN stack : stack[i].fn = "add" /\ stack[i].pc = "fill"}
    IN  /\ IsInjective(list \o free)
        /\ \A i \in taken : stack[i].tp \notin Linked
        /\ \A i, j \in taken : i # j => stack[i].tp # stack[j].tp

(* The kernel's alarm is never set while SIGALRM has its default disposition,
   which would kill the shell; unless an action that sigalrm ran deleted the timer
   that the alarm is set for. *)
AlarmIsCaught == alarm # 0 /\ "orphan" \notin lapse => sigalrmset

(* When the program runs, the alarm is set for the time of the next timer or an
   earlier one; unless an action jumped out of the handler while other timers were
   due, the handler was as late as the alarm it had set, or an action deleted the
   timer that the alarm was set for: one added by the next action then moves the
   alarm, and the handler takes it to be set for an earlier time than it is. *)
AlarmIsSet ==
    Len(stack) = 1 /\ lapse \cap {"jump", "drop", "orphan"} = {} =>
        \A n \in Live : alarm # 0 /\ alarm <= timer[n].wakeup

(* What a user keeps is its own timer, linked and not yet run: deleting it stops
   nobody else's.  Unless a handle was stale before it could be kept, a jump
   came before the user of a deleted timer had its new one, or the shell was killed. *)
HandlesAreOwn ==
    lapse \cap {"stale", "killed"} = {} =>
        \A c \in {d \in Client : handle[d] # Nil} :
            \/ handle[c] \in Live /\ timer[handle[c]].handle = c
            \/ \E i \in DOMAIN stack : stack[i].fn = "add" /\ stack[i].handle = c

(* A timer whose time has come runs or is deleted, unless one of the accidents of
   AlarmIsSet and HandlesAreOwn happened or the shell was killed. *)
IsDue(i) == \E n \in Live : timer[n].action = i /\ timer[n].wakeup <= now
Excused == lapse \ {"orphan"} # {}
DueTimersRun ==
    \A i \in Id : IsDue(i) /\ ~ Excused ~> ~ IsDue(i) \/ Excused

================================================================================
