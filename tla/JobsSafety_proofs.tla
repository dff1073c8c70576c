--------------------------- MODULE JobsSafety_proofs ---------------------------
(* What the shell promises about its jobs, proved from the invariant TInv of
   Jobs_proofs: the locks balance, JOBMAX holds, the CHLD trap runs once for each
   child, and wait returns the status of the child that it waited for. *)
EXTENDS Jobs_proofs

-------------------------------------------------------------------------------
(* job.in_critical counts the activations that hold the lock. *)

Holding == {f \in Frame : Holds(f)}
Held(s) == Number(s, Holding)
W(f) == IF Holds(f) THEN 1 ELSE 0

(* The count and the activations agree, but for the width of the counter. *)
Balanced == \E q \in Nat : Held(stack) = job.in_critical + q * CriticalMod

Rise ==
    /\ Held(stack') = Held(stack) + 1
    /\ job'.in_critical = (job.in_critical + 1) % CriticalMod
Keep == Held(stack') = Held(stack) /\ job'.in_critical = job.in_critical
Fall ==
    /\ Held(stack') = Held(stack) - 1
    /\ job'.in_critical = IF job.in_critical = 0 THEN CriticalMod - 1 ELSE job.in_critical - 1

LEMMA HeldIs ==
    ASSUME TInv
    PROVE  /\ Held(stack) \in Nat
           /\ Top.fn # "main" => Held(Caller) = Held(stack) - W(Top) /\ Founded(Caller)
           /\ \A f \in Frame : (Top.fn = "main" => f.fn = "main") =>
                 Held(Continue(f)) = Held(stack) - W(Top) + W(f) /\ Founded(Continue(f))
<1>1. Top \in Frame /\ Founded(stack)
  BY TopIs
<1>2. \A f \in Frame : f \in Holding <=> W(f) = 1
  BY DEF Holding, W
<1>3. \A f : W(f) \in {0, 1}
  BY DEF W
<1>4. Held(stack) \in Nat
  BY <1>1, NumberNat DEF Founded, Held
<1>5. ASSUME Top.fn # "main"
      PROVE  Held(Caller) = Held(stack) - W(Top) /\ Founded(Caller)
  BY <1>1, <1>2, <1>3, <1>4, <1>5, ReturnIs DEF Held
<1>6. ASSUME NEW f \in Frame, Top.fn = "main" => f.fn = "main"
      PROVE  Held(Continue(f)) = Held(stack) - W(Top) + W(f) /\ Founded(Continue(f))
  <2>1. /\ Founded(Continue(f))
        /\ Held(Continue(f)) \in Nat
        /\ Held(Continue(f)) + (IF Top \in Holding THEN 1 ELSE 0)
             = Held(stack) + (IF f \in Holding THEN 1 ELSE 0)
    BY <1>1, <1>6, ContinueIs DEF Held
  <2>2. (IF Top \in Holding THEN 1 ELSE 0) = W(Top) /\ (IF f \in Holding THEN 1 ELSE 0) = W(f)
    BY <1>1, <1>2, <1>3
  <2>3. QED
    BY <1>3, <1>4, <2>1, <2>2
<1>7. QED
  BY <1>4, <1>5, <1>6

LEMMA HeldPush ==
    ASSUME NEW s, Founded(s), NEW f \in Frame
    PROVE  Held(Append(s, f)) = Held(s) + W(f) /\ Founded(Append(s, f)) /\ Held(s) \in Nat
<1>1. Held(s) \in Nat
  BY NumberNat DEF Founded, Held
<1>2. f \in Holding <=> Holds(f)
  BY DEF Holding
<1>3. Held(Append(s, f)) = IF f \in Holding THEN Held(s) + 1 ELSE Held(s)
  BY PushIs DEF Held
<1>4. QED
  BY <1>1, <1>2, <1>3, PushIs DEF W

LEMMA HeldCall ==
    ASSUME TInv, NEW f \in Frame, Top.fn = "main" => f.fn = "main", NEW g \in Frame
    PROVE  /\ Held(Call(f, g)) = Held(stack) - W(Top) + W(f) + W(g)
           /\ Founded(Call(f, g))
<1>1. Held(Continue(f)) = Held(stack) - W(Top) + W(f) /\ Founded(Continue(f))
  BY HeldIs
<1>2. QED
  BY <1>1, HeldPush DEF Call

(* The activations that never hold the lock, and those that always do. *)
LEMMA WeightIs ==
    /\ \A f : f.fn \in {"main", "trap", "sub", "reap"} => W(f) = 0
    /\ \A f : f.fn = "unlock" => W(f) = 1
    /\ \A f : f.fn = "wait" => W(f) = IF f.pc \in {"walk", "loop", "reaped", "end"} THEN 1 ELSE 0
    /\ \A f : f.fn = "chldtrap" => W(f) = IF f.pc \in {"scan", "handled"} THEN 1 ELSE 0
    /\ \A f : f.fn = "fork" =>
          W(f) = IF f.pc \in {"reaped", "assign", "assigned", "forked", "posted"} THEN 1 ELSE 0
  BY DEF W, Holds

LEMMA CommandWeight ==
    ASSUME TInv, Idle
    PROVE  /\ At("post") \in Frame /\ W(At("post")) = 0 /\ W(Top) = 0
           /\ Top.fn = "main" => At("post").fn = "main"
<1>1. Top \in Frame
  BY TopIs
<1>2. At("post") \in Frame /\ At("post").fn = Top.fn
  BY <1>1, CommandIs DEF Idle
<1>3. QED
  BY <1>2, WeightIs DEF Idle

LEMMA FrameWeights ==
    /\ W(Unlock) = 1 /\ (\A x, y : W(Reap(x, y)) = 0) /\ (\A x : W(Chldtrap(x)) = 0)
    /\ W(Handler) = 0 /\ (\A x : W(Fork(x)) = 0)
<1>1. Unlock.fn = "unlock"
  BY DEF Unlock
<1>2. \A x, y : Reap(x, y).fn = "reap"
  BY DEF Reap
<1>3. \A x : Chldtrap(x).fn = "chldtrap" /\ Chldtrap(x).pc = "start"
  BY DEF Chldtrap
<1>4. Handler.fn = "trap"
  BY DEF Handler
<1>5. \A x : Fork(x).fn = "fork" /\ Fork(x).pc \in {"jobmax", "lock"}
  BY DEF Fork
<1>6. QED
  BY <1>1, <1>2, <1>3, <1>4, <1>5, WeightIs

LEMMA ReapLocks ==
    ASSUME TInv, ReapOne \/ ReapNotice \/ ReapEnd \/ SigChld
    PROVE  Keep
<1>1. Top \in Frame /\ Founded(stack) /\ Good(job)
  BY TopIs
<1>2. Held(stack) \in Nat
  BY HeldIs
<1>3. CASE ReapOne
  <2>1. PICK p \in Pid :
           /\ kernel[p].st = "zombie"
           /\ LET s == job_bypid(job, p)
                  trap == sh.trapcom /\ Background(job, p)
                  ended == RecordEnd(job, p, kernel[p].status, sh.trapcom)
              IN IF trap /\ ~Top.sig
                 THEN job' = ended /\ stack' = Call(Reaped(s), Chldtrap(FALSE))
                 ELSE job' = Notice(ended, s) /\ stack' = Continue(Reaped(0))
    BY <1>3 DEF ReapOne
  <2> DEFINE s == job_bypid(job, p)
             ended == RecordEnd(job, p, kernel[p].status, sh.trapcom)
  <2>2. Top.fn = "reap"
    BY <1>3 DEF ReapOne
  <2>3. kernel[p].status \in Status \cup {0} /\ sh.trapcom \in BOOLEAN
    BY <2>1 DEF TInv, Typed, Kernel, Shell
  <2>4. RecordEndAs(job, ended, p)
    BY <1>1, <2>3, RecordEndIs
  <2>5. s \in Slot \cup {0}
    BY <1>1, BypidSlot
  <2>6. Top \in ReapFrame
    BY <1>1, <2>2, Kinds
  <2>7. \A x \in Slot \cup {0} : Reaped(x) \in Frame /\ Reaped(x).fn = "reap"
    BY <2>6 DEF Reaped, ReapFrame, Frame
  <2>8. Chldtrap(FALSE) \in Frame
    BY DEF Chldtrap, ChldtrapFrame, Frame
  <2>9. \/ job' = ended /\ stack' = Call(Reaped(s), Chldtrap(FALSE))
        \/ job' = Notice(ended, s) /\ stack' = Continue(Reaped(0))
    BY <2>1
  <2> HIDE DEF s, ended
  <2> DEFINE f == Reaped(s)
             g == Reaped(0)
             h == Chldtrap(FALSE)
  <2>10. /\ f \in Frame /\ g \in Frame /\ h \in Frame
         /\ f.fn = "reap" /\ g.fn = "reap" /\ W(h) = 0
    BY <2>5, <2>7, <2>8, FrameWeights
  <2>11. Held(stack') = Held(stack)
    <3>1. stack' = Call(f, h) \/ stack' = Continue(g)
      BY <2>9
    <3> HIDE DEF f, g, h
    <3>2. W(f) = 0 /\ W(g) = 0 /\ W(Top) = 0
      BY <2>2, <2>10, WeightIs
    <3>3. QED
      BY <1>2, <2>2, <2>10, <3>1, <3>2, HeldIs, HeldCall
  <2>12. Notice(ended, s).in_critical = ended.in_critical
    BY <2>4, <2>5, NoticeIs DEF RecordEndAs, Steady, Counters
  <2>13. job'.in_critical = job.in_critical
    BY <2>4, <2>9, <2>12 DEF RecordEndAs
  <2>14. QED
    BY <2>11, <2>13 DEF Keep
<1>4. CASE ReapNotice
  <2>1. /\ Top.fn = "reap" /\ job' = Notice(job, Top.pw)
        /\ stack' = Continue([Top EXCEPT !.pw = 0])
    BY <1>4 DEF ReapNotice
  <2>2. [Top EXCEPT !.pw = 0] \in ReapFrame /\ Top \in ReapFrame
    BY <1>1, <2>1, AtReap
  <2>3. [Top EXCEPT !.pw = 0] \in Frame /\ Top.pw \in Slot \cup {0} /\ [Top EXCEPT !.pw = 0].fn = "reap"
    BY <2>2 DEF Frame, ReapFrame
  <2> DEFINE f == [Top EXCEPT !.pw = 0]
  <2>4. Held(stack') = Held(stack)
    <3>1. stack' = Continue(f) /\ f \in Frame /\ f.fn = "reap"
      BY <2>1, <2>3
    <3> HIDE DEF f
    <3>2. W(f) = 0 /\ W(Top) = 0
      BY <2>1, <3>1, WeightIs
    <3>3. QED
      BY <1>2, <2>1, <3>1, <3>2, HeldIs
  <2>5. QED
    BY <1>1, <2>1, <2>3, <2>4, NoticeIs DEF Steady, Counters, Keep
<1>5. CASE ReapEnd
  <2>1. Top.fn = "reap" /\ stack' = Caller
    BY <1>5 DEF ReapEnd
  <2>2. QED
    BY <1>2, <1>5, <2>1, WeightIs, HeldIs, ReapEndTypes DEF Keep
<1>6. CASE SigChld
  <2>1. \/ stack' = Append(stack, Reap(TRUE, TRUE))
        \/ Blocked /\ stack' = Append(Caller, Reap(TRUE, TRUE))
        \/ stack' = stack
    BY <1>6 DEF SigChld
  <2>2. Reap(TRUE, TRUE) \in Frame /\ W(Reap(TRUE, TRUE)) = 0
    BY FrameWeights, FramesAre, Zenon
  <2>3. Blocked => Held(Caller) = Held(stack) /\ Founded(Caller)
    BY <1>2, WeightIs, HeldIs DEF Blocked
  <2> DEFINE f == Reap(TRUE, TRUE)
  <2>4. Held(stack') = Held(stack)
    <3>1. /\ f \in Frame /\ W(f) = 0
          /\ \/ stack' = Append(stack, f)
             \/ Blocked /\ stack' = Append(Caller, f)
             \/ stack' = stack
      BY <2>1, <2>2
    <3> HIDE DEF f
    <3>2. Held(Append(stack, f)) = Held(stack)
      BY <1>1, <1>2, <3>1, HeldPush
    <3>3. Blocked => Held(Append(Caller, f)) = Held(stack)
      BY <1>2, <2>3, <3>1, HeldPush
    <3>4. QED
      BY <3>1, <3>2, <3>3
  <2>5. QED
    BY <1>6, <2>4, SigChldTypes DEF Keep
<1>7. QED
  BY <1>3, <1>4, <1>5, <1>6

LEMMA UnlockLocks ==
    ASSUME TInv
    PROVE  (UnlockTest => Keep) /\ (UnlockLeave => Fall)
<1>1. Top \in Frame /\ Founded(stack) /\ Good(job)
  BY TopIs
<1>2. Held(stack) \in Nat
  BY HeldIs
<1>3. ASSUME UnlockTest
      PROVE  Keep
  <2>1. /\ Top.fn = "unlock"
        /\ \/ stack' = Call(At("leave"), Reap(TRUE, FALSE)) /\ job' = StartReap(job)
           \/ stack' = Continue(At("leave")) /\ job' = job
    BY <1>3 DEF UnlockTest
  <2>2. At("leave") \in Frame /\ At("leave").fn = "unlock"
    <3>1. Top \in UnlockFrame
      BY <1>1, <2>1, Kinds
    <3>2. QED
      BY <3>1 DEF At, UnlockFrame, Frame
  <2>3. Reap(TRUE, FALSE) \in Frame /\ W(Reap(TRUE, FALSE)) = 0
    BY FrameWeights, FramesAre, Zenon
  <2> DEFINE f == At("leave")
             g == Reap(TRUE, FALSE)
  <2>4. Held(stack') = Held(stack)
    <3>1. /\ f \in Frame /\ f.fn = "unlock" /\ g \in Frame /\ W(g) = 0
          /\ stack' = Call(f, g) \/ stack' = Continue(f)
      BY <2>1, <2>2, <2>3
    <3> HIDE DEF f, g
    <3>2. W(f) = 1 /\ W(Top) = 1
      BY <2>1, <3>1, WeightIs
    <3>3. QED
      BY <1>2, <2>1, <3>1, <3>2, HeldIs, HeldCall
  <2>5. QED
    BY <1>1, <2>1, <2>4, StartReapIs DEF Steady, Counters, Keep
<1>4. ASSUME UnlockLeave
      PROVE  Fall
  <2>1. Top.fn = "unlock" /\ stack' = Caller
    BY <1>4 DEF UnlockLeave
  <2>2. QED
    BY <1>2, <1>4, <2>1, WeightIs, HeldIs, UnlockLeaveTypes DEF Fall
<1>5. QED
  BY <1>3, <1>4

LEMMA ChldtrapLocks ==
    ASSUME TInv
    PROVE  /\ ChldtrapStart => Rise
           /\ ChldtrapScan \/ ChldtrapHandled \/ ChldtrapEnd => Keep
<1>1. Top \in Frame /\ Founded(stack) /\ Good(job)
  BY TopIs
<1>2. Held(stack) \in Nat
  BY HeldIs
<1>3. ASSUME Top.fn = "chldtrap",
             NEW c \in {"start", "scan", "handled"}, NEW f \in ChldtrapFrame, f.pc = c
      PROVE  /\ f \in Frame /\ f.fn = "chldtrap"
             /\ W(f) = (IF c = "start" THEN 0 ELSE 1)
             /\ W(Top) = (IF Top.pc = "start" THEN 0 ELSE 1)
  <2>1. Top \in ChldtrapFrame
    BY <1>1, <1>3, Kinds
  <2>2. Top.pc \in {"start", "scan", "handled"} /\ f.fn = "chldtrap" /\ f \in Frame
    BY <2>1 DEF ChldtrapFrame, Frame
  <2>3. QED
    BY <1>3, <2>2, WeightIs
<1>4. Top.fn = "chldtrap" => Top \in ChldtrapFrame
  BY <1>1, Kinds
<1>5. sh \in Shell /\ job \in Job
  BY TopIs DEF TInv, Typed
<1>6. ASSUME ChldtrapStart
      PROVE  Rise
  <2> DEFINE w == IF job.pwlist = <<>> THEN 0 ELSE Head(job.pwlist)
             f == [Top EXCEPT !.pc = "scan", !.trapnote = sh.trapnote, !.pw = w]
  <2>1. /\ Top.fn = "chldtrap" /\ Top.pc = "start" /\ job' = job_lock(job) /\ stack' = Continue(f)
    BY <1>6 DEF ChldtrapStart
  <2>2. w \in Slot \cup {0}
    BY <1>5 DEF Job
  <2>3. sh.trapnote \in BOOLEAN
    BY <1>5 DEF Shell
  <2> HIDE DEF w
  <2>4. f \in ChldtrapFrame /\ f.pc = "scan"
    BY <1>4, <2>1, <2>2, <2>3 DEF ChldtrapFrame
  <2> HIDE DEF f
  <2>5. W(f) = 1 /\ W(Top) = 0 /\ f \in Frame
    BY <1>3, <2>1, <2>4
  <2>6. Held(stack') = Held(stack) + 1
    BY <1>2, <2>1, <2>5, HeldIs
  <2>7. QED
    BY <1>1, <2>1, <2>6, LockIs DEF Rise
<1>7. ASSUME ChldtrapScan
      PROVE  Keep
  <2>1. Top.fn = "chldtrap" /\ Top.pc = "scan" /\ Top.pw # 0
    BY <1>7 DEF ChldtrapScan
  <2> DEFINE next == p_nxtjob(job, Top.pw)
             f == [Top EXCEPT !.pc = "handled", !.next = next, !.bckpid = sh.bckpid]
             g == [Top EXCEPT !.pw = next]
  <2>2. stack' \in {Continue(g), Call(f, Handler), Continue(f)}
    BY <1>7 DEF ChldtrapScan
  <2>3. Top \in ChldtrapFrame
    BY <1>4, <2>1
  <2>4. next \in Slot \cup {0} /\ sh.bckpid \in Pid \cup {0}
    <3>1. Top.pw \in Slot
      BY <2>1, <2>3 DEF ChldtrapFrame
    <3>2. QED
      BY <1>1, <1>5, <3>1, NextIs DEF Shell
  <2> HIDE DEF next
  <2>5. f \in ChldtrapFrame /\ f.pc = "handled" /\ g \in ChldtrapFrame /\ g.pc = "scan"
    BY <2>1, <2>3, <2>4 DEF ChldtrapFrame
  <2> HIDE DEF f, g
  <2>6. f \in Frame /\ g \in Frame /\ W(f) = 1 /\ W(g) = 1 /\ W(Top) = 1
    BY <1>3, <2>1, <2>5
  <2>7. Handler \in Frame /\ W(Handler) = 0
    BY FrameWeights DEF Handler, Frame, BaseFrame
  <2>8. Held(stack') = Held(stack)
    BY <1>2, <2>1, <2>2, <2>6, <2>7, HeldIs, HeldCall
  <2>9. QED
    BY <1>7, <2>8, ChldtrapScanTypes DEF Keep
<1>8. ASSUME ChldtrapHandled
      PROVE  Keep
  <2> DEFINE f == [Top EXCEPT !.pc = "scan", !.pw = Top.next]
  <2>1. Top.fn = "chldtrap" /\ Top.pc = "handled" /\ stack' = Continue(f)
    BY <1>8 DEF ChldtrapHandled
  <2>2. f \in ChldtrapFrame /\ f.pc = "scan"
    BY <1>4, <2>1 DEF ChldtrapFrame
  <2> HIDE DEF f
  <2>3. f \in Frame /\ W(f) = 1 /\ W(Top) = 1
    BY <1>3, <2>1, <2>2
  <2>4. Held(stack') = Held(stack)
    BY <1>2, <2>1, <2>3, HeldIs
  <2>5. QED
    BY <1>8, <2>4, ChldtrapHandledTypes DEF Keep
<1>9. ASSUME ChldtrapEnd
      PROVE  Keep
  <2>1. Top.fn = "chldtrap" /\ Top.pc = "scan" /\ stack' = Continue(Unlock) /\ job' = job
    BY <1>9 DEF ChldtrapEnd
  <2>2. W(Top) = 1 /\ W(Unlock) = 1 /\ Unlock \in Frame
    BY <2>1, WeightIs, FrameWeights, FramesAre
  <2>3. Held(stack') = Held(stack)
    BY <1>2, <2>1, <2>2, HeldIs
  <2>4. QED
    BY <2>1, <2>3 DEF Keep
<1>10. QED
  BY <1>6, <1>7, <1>8, <1>9

LEMMA CommandLocks ==
    ASSUME TInv, Builtin \/ Chktrap \/ HandlerEnd \/ TrapChld \/ StartFork
    PROVE  Keep
<1>1. Top \in Frame /\ Founded(stack) /\ Held(stack) \in Nat
  BY TopIs, HeldIs
<1>2. job' = job /\ Top.fn \in {"main", "trap", "sub"} /\ Top.pc \in {"idle", "post"}
  BY DEF Builtin, Chktrap, HandlerEnd, TrapChld, StartFork, Idle
<1> DEFINE f == At("post")
           g == At("idle")
           h == Chldtrap(TRUE)
<1>3. /\ f \in Frame /\ g \in Frame /\ h \in Frame
      /\ Top.fn = "main" => f.fn = "main" /\ g.fn = "main"
      /\ W(f) = 0 /\ W(g) = 0 /\ W(h) = 0 /\ W(Top) = 0
  <2>1. f \in Frame /\ f.fn = Top.fn /\ g \in Frame /\ g.fn = Top.fn
    BY <1>1, <1>2, CommandIs
  <2>2. h \in Frame
    BY FramesAre, Zenon
  <2>3. W(h) = 0
    BY FrameWeights
  <2> HIDE DEF f, g, h
  <2>4. QED
    BY <1>2, <2>1, <2>2, <2>3, WeightIs
<1>4. /\ \A b \in BOOLEAN : Fork(b) \in Frame /\ W(Fork(b)) = 0
  BY FrameWeights DEF Fork, ForkFrame, Frame
<1>5. \/ stack' \in {Continue(f), Continue(g), Call(g, h)}
      \/ \E b \in BOOLEAN : stack' = Call(f, Fork(b))
      \/ Top.fn = "trap" /\ stack' = Caller
  BY DEF Builtin, Chktrap, HandlerEnd, TrapChld, StartFork
<1> HIDE DEF f, g, h
<1>6. Held(stack') = Held(stack)
  <2>1. CASE stack' \in {Continue(f), Continue(g), Call(g, h)}
    BY <1>1, <1>3, <2>1, HeldIs, HeldCall
  <2>2. CASE \E b \in BOOLEAN : stack' = Call(f, Fork(b))
    <3>1. PICK b \in BOOLEAN : stack' = Call(f, Fork(b))
      BY <2>2
    <3>2. Fork(b) \in Frame /\ W(Fork(b)) = 0
      BY <1>4
    <3> DEFINE k == Fork(b)
    <3>3. stack' = Call(f, k) /\ k \in Frame /\ W(k) = 0
      BY <3>1, <3>2
    <3> HIDE DEF k
    <3>4. QED
      BY <1>1, <1>3, <3>3, HeldCall
  <2>3. CASE Top.fn = "trap" /\ stack' = Caller
    BY <1>1, <1>3, <2>3, HeldIs
  <2>4. QED
    BY <1>5, <2>1, <2>2, <2>3
<1>7. QED
  BY <1>2, <1>6 DEF Keep

LEMMA ForkLocks ==
    ASSUME TInv
    PROVE  /\ JobmaxWait \/ Ntfork \/ Fork_bg \/ Fork_fg \/ ForkPost => Rise
           /\ JobmaxWaited \/ ForkEnd \/ ForkDone => Keep
<1>1. Top \in Frame /\ Founded(stack) /\ Held(stack) \in Nat /\ Good(job)
  BY TopIs, HeldIs
<1>2. ASSUME Top.fn = "fork",
             NEW c \in {"jobmax", "reaped", "lock", "assign", "assigned", "forked", "posted", "done"}
      PROVE  /\ At(c) \in Frame
             /\ W(At(c)) = IF c \in {"reaped", "assign", "assigned", "forked", "posted"} THEN 1 ELSE 0
  <2>1. At(c) \in Frame /\ At(c).fn = "fork" /\ At(c).pc = c
    BY <1>1, <1>2, AtFork
  <2> DEFINE f == At(c)
  <2>2. f.fn = "fork" /\ f.pc = c
    BY <2>1
  <2> HIDE DEF f
  <2>3. W(f) = IF c \in {"reaped", "assign", "assigned", "forked", "posted"} THEN 1 ELSE 0
    BY <2>2, WeightIs
  <2>4. QED
    BY <2>1, <2>3 DEF f
<1>3. Top.fn = "fork" =>
        W(Top) = IF Top.pc \in {"reaped", "assign", "assigned", "forked", "posted"} THEN 1 ELSE 0
  BY WeightIs
<1>4. Unlock \in Frame /\ W(Unlock) = 1
  BY FramesAre, FrameWeights
<1>5. job_lock(job).in_critical = (job.in_critical + 1) % CriticalMod /\ Good(job_lock(job))
  BY <1>1, LockIs
<1>6. ASSUME JobmaxWait
      PROVE  Rise
  <2> DEFINE f == At("reaped")
             g == Reap(FALSE, FALSE)
  <2>1. /\ Top.fn = "fork" /\ Top.pc = "jobmax" /\ stack' = Call(f, g)
        /\ job' = StartReap(job_lock(job))
    BY <1>6 DEF JobmaxWait
  <2>2. g \in Frame /\ W(g) = 0
    BY FramesAre, FrameWeights, Zenon
  <2>3. f \in Frame /\ W(f) = 1 /\ W(Top) = 0
    BY <1>2, <1>3, <2>1
  <2>4. job'.in_critical = job_lock(job).in_critical
    BY <1>5, <2>1, StartReapIs DEF Steady, Counters
  <2> HIDE DEF f, g
  <2>5. Held(stack') = Held(stack) + 1
    BY <1>1, <2>1, <2>2, <2>3, HeldCall
  <2>6. QED
    BY <1>5, <2>4, <2>5 DEF Rise
<1>7. ASSUME Ntfork
      PROVE  Rise
  <2> DEFINE f == At("assign")
  <2>1. Top.fn = "fork" /\ Top.pc = "lock" /\ stack' = Continue(f) /\ job' = job_lock(job)
    BY <1>7 DEF Ntfork
  <2>2. f \in Frame /\ W(f) = 1 /\ W(Top) = 0
    BY <1>2, <1>3, <2>1
  <2> HIDE DEF f
  <2>3. Held(stack') = Held(stack) + 1
    BY <1>1, <2>1, <2>2, HeldIs
  <2>4. QED
    BY <1>5, <2>1, <2>3 DEF Rise
<1>8. ASSUME Fork_bg \/ Fork_fg
      PROVE  Rise
  <2>1. PICK p \in Pid : \/ Fork_bg /\ stack' = Continue(ForkedAs(p))
                         \/ Fork_fg /\ stack' = Call(ForkedAs(p), Unlock)
    BY <1>8 DEF Fork_bg, Fork_fg, ForkedAs
  <2> DEFINE f == ForkedAs(p)
  <2>2. Top.fn = "fork" /\ (Fork_bg => Top.pc = "jobmax") /\ (Fork_fg => Top.pc \in {"assign", "assigned"})
    BY <1>8 DEF Fork_bg, Fork_fg
  <2>3. Top \in ForkFrame
    BY <1>1, <2>2, Kinds
  <2>4. f \in Frame /\ f.fn = "fork" /\ f.pc = "forked"
    BY <2>3 DEF ForkFrame, ForkedAs, Frame
  <2> HIDE DEF f
  <2>5. W(f) = 1
    BY <2>4, WeightIs
  <2>6. CASE Fork_bg /\ stack' = Continue(f)
    <3>1. W(Top) = 0
      BY <1>3, <2>2, <2>6
    <3>2. Held(stack') = Held(stack) + 1
      BY <1>1, <2>2, <2>4, <2>5, <2>6, <3>1, HeldIs
    <3>3. QED
      BY <2>6, <3>2, ForkTypes DEF Rise
  <2>7. CASE Fork_fg /\ stack' = Call(f, Unlock)
    <3>1. W(Top) = 1
      BY <1>3, <2>2, <2>7
    <3>2. Held(stack') = Held(stack) + 1
      BY <1>1, <1>4, <2>2, <2>4, <2>5, <2>7, <3>1, HeldCall
    <3>3. QED
      BY <2>7, <3>2, ForkTypes DEF Rise
  <2>8. QED
    BY <2>1, <2>6, <2>7 DEF f
<1>9. ASSUME ForkPost
      PROVE  Rise
  <2> DEFINE f == At("posted")
  <2>1. Top.fn = "fork" /\ Top.pc = "forked" /\ stack' = Call(f, Unlock)
    BY <1>9 DEF ForkPost
  <2>2. f \in Frame /\ W(f) = 1 /\ W(Top) = 1
    BY <1>2, <1>3, <2>1
  <2>3. PICK a : PostAs(job, a, Top.pid, Top.bg) /\ job' = job_lock(a)
    BY <1>9, ForkPostTypes
  <2>4. job'.in_critical = (job.in_critical + 1) % CriticalMod
    BY <2>3, LockIs DEF PostAs
  <2> HIDE DEF f
  <2>5. Held(stack') = Held(stack) + 1
    BY <1>1, <1>4, <2>1, <2>2, HeldCall
  <2>6. QED
    BY <2>4, <2>5 DEF Rise
<1>10. ASSUME JobmaxWaited \/ ForkEnd
       PROVE  Keep
  <2>1. Top.fn = "fork" /\ Top.pc \in {"reaped", "posted"} /\ job' = job
    BY <1>10 DEF JobmaxWaited, ForkEnd
  <2> DEFINE f == At("jobmax")
             g == At("done")
  <2>2. stack' = Call(f, Unlock) \/ stack' = Call(g, Unlock)
    BY <1>10 DEF JobmaxWaited, ForkEnd
  <2>3. f \in Frame /\ g \in Frame /\ W(f) = 0 /\ W(g) = 0 /\ W(Top) = 1
    BY <1>2, <1>3, <2>1
  <2> HIDE DEF f, g
  <2>4. Held(stack') = Held(stack)
    BY <1>1, <1>4, <2>1, <2>2, <2>3, HeldCall
  <2>5. QED
    BY <2>1, <2>4 DEF Keep
<1>11. ASSUME ForkDone
       PROVE  Keep
  <2>1. Top.fn = "fork" /\ Top.pc = "done" /\ job' = job /\ stack' = Caller
    BY <1>11 DEF ForkDone
  <2>2. W(Top) = 0
    BY <1>3, <2>1
  <2>3. QED
    BY <1>1, <2>1, <2>2, HeldIs DEF Keep
<1>12. QED
  BY <1>6, <1>7, <1>8, <1>9, <1>10, <1>11

LEMMA WaitLocks ==
    ASSUME TInv
    PROVE  /\ WaitForeground \/ WaitAll \/ Jobs \/ (\E p \in Pid : WaitFor(p)) => Rise
           /\ JobsWalk \/ WaitDone \/ WaitReap \/ WaitReaped \/ WaitEnd \/ WaitReturn => Keep
           /\ WaitCleanup => Rise \/ Keep
<1>1. Top \in Frame /\ Founded(stack) /\ Held(stack) \in Nat /\ Good(job)
  BY TopIs, HeldIs
<1>2. Unlock \in Frame /\ W(Unlock) = 1
  BY FramesAre, FrameWeights
<1>3. ASSUME Top.fn = "wait",
             NEW c \in {"walk", "loop", "reaped", "end", "cleanup", "return"}
      PROVE  /\ At(c) \in Frame
             /\ W(At(c)) = IF c \in {"walk", "loop", "reaped", "end"} THEN 1 ELSE 0
  <2>1. 1 \in Status \cup {0, 1, NotFound}
    OBVIOUS
  <2>2. At(c) \in Frame /\ At(c).fn = "wait" /\ Top \in WaitFrame
    BY <1>1, <1>3, <2>1, AtWait
  <2> DEFINE f == At(c)
  <2>3. f.fn = "wait" /\ f.pc = c
    BY <2>2 DEF At, WaitFrame
  <2> HIDE DEF f
  <2>4. W(f) = IF c \in {"walk", "loop", "reaped", "end"} THEN 1 ELSE 0
    BY <2>3, WeightIs
  <2>5. QED
    BY <2>2, <2>4 DEF f
<1>4. Top.fn = "wait" => W(Top) = IF Top.pc \in {"walk", "loop", "reaped", "end"} THEN 1 ELSE 0
  BY WeightIs
<1>5. ASSUME Idle, NEW f \in Frame
      PROVE  /\ Held(Call(At("post"), f)) = Held(stack) + W(f)
             /\ \A g \in Frame : Held(Append(Call(At("post"), f), g)) = Held(stack) + W(f) + W(g)
  <2> DEFINE P == At("post")
  <2>1. P \in Frame /\ W(P) = 0 /\ W(Top) = 0 /\ (Top.fn = "main" => P.fn = "main")
    BY <1>5, CommandWeight
  <2> HIDE DEF P
  <2>2. W(f) \in {0, 1}
    BY DEF W
  <2>3. Held(Call(P, f)) = Held(stack) + W(f) /\ Founded(Call(P, f))
    BY <1>1, <2>1, <2>2, HeldCall
  <2>4. QED
    BY <2>3, HeldPush DEF P
<1>6. ASSUME WaitForeground
      PROVE  Rise
  <2> DEFINE s == job_bypid(job, Top.pid)
             w == Wait(Top.pid, s, "loop", FALSE)
             f == [w EXCEPT !.intr = FALSE]
  <2>1. Top.fn = "fork" /\ Top.pc = "done" /\ (stack' = Continue(Unlock) \/ stack' = Continue(f))
    BY <1>6 DEF WaitForeground
  <2>2. W(Top) = 0
    BY <2>1, WeightIs
  <2>3. Top.pid \in Pid \cup {0} /\ s \in Slot \cup {0}
    <3>1. Top \in ForkFrame
      BY <1>1, <2>1, Kinds
    <3>2. \A q \in Pid \cup {0} : job_bypid(job, q) \in Slot \cup {0}
      BY <1>1, BypidSlot
    <3>3. QED
      BY <3>1, <3>2 DEF ForkFrame
  <2> HIDE DEF s
  <2>4. f \in Frame /\ f.fn = "wait" /\ f.pc = "loop"
    <3>1. \A o \in BOOLEAN : [Wait(Top.pid, s, "loop", o) EXCEPT !.intr = o] \in WaitFrame
      BY <2>3 DEF Wait, WaitFrame
    <3>2. f \in WaitFrame
      BY <3>1 DEF f, w
    <3>3. f.pc = "loop"
      BY DEF Wait
    <3>4. QED
      BY <3>2, <3>3 DEF WaitFrame, Frame
  <2> HIDE DEF f
  <2>5. W(f) = 1
    BY <2>4, WeightIs
  <2>6. Held(stack') = Held(stack) + 1
    BY <1>1, <1>2, <2>1, <2>2, <2>4, <2>5, HeldIs
  <2>7. QED
    BY <1>6, <2>6, WaitForegroundTypes DEF Rise
<1>7. ASSUME NEW p \in Pid, WaitFor(p)
      PROVE  Rise
  <2> DEFINE s == job_bypid(job, p)
             x == SavedStatus(job, p)
             o == Owed(p)
             w == Wait(p, s, "loop", o)
             y == IF x < 0 THEN NotFound ELSE x
             P == At("post")
  <2>1. Idle /\ (\/ stack' = Append(Call(P, Refused(w, y)), Unlock)
                 \/ stack' = Call(P, w)
                 \/ stack' = Append(Call(P, Refused(w, NotFound)), Unlock))
    <3>1. Idle
      BY <1>7 DEF WaitFor
    <3>2. CASE s = 0
      BY <1>7, <3>1, <3>2 DEF WaitFor, Refused
    <3>3. CASE s # 0
      BY <1>7, <3>1, <3>3 DEF WaitFor, Refused
    <3>4. QED
      BY <3>2, <3>3
  <2>2. s \in Slot \cup {0}
    BY <1>1, BypidSlot
  <2>3. o \in BOOLEAN
    BY Zenon DEF Owed
  <2>4. y \in Status \cup {0, 1, NotFound} /\ NotFound \in Status \cup {0, 1, NotFound}
    <3>1. x \in Status \cup {0, -1}
      BY <1>1, SavedStatusIs
    <3> HIDE DEF x
    <3>2. QED
      BY <3>1
  <2> HIDE DEF s, o, y, x
  <2>5. w \in WaitFrame /\ w.pc = "loop"
    BY <2>2, <2>3 DEF Wait, WaitFrame
  <2>6. \A z \in Status \cup {0, 1, NotFound} : Refused(w, z) \in WaitFrame /\ Refused(w, z).pc = "return"
    <3> HIDE DEF w
    <3>1. QED
      BY <2>5 DEF Refused, WaitFrame
  <2> HIDE DEF w
  <2>7. \A f \in WaitFrame : f \in Frame /\ f.fn = "wait"
    BY DEF WaitFrame, Frame
  <2>8. w \in Frame /\ W(w) = 1
    BY <2>5, <2>7, WeightIs
  <2>9. \A z \in Status \cup {0, 1, NotFound} : Refused(w, z) \in Frame /\ W(Refused(w, z)) = 0
    <3>1. ASSUME NEW f \in WaitFrame, f.pc = "return"
          PROVE  W(f) = 0
      BY <2>7, <3>1, WeightIs
    <3>2. QED
      BY <2>6, <2>7, <3>1
  <2>10. Held(stack') = Held(stack) + 1
    <3>1. Held(Call(P, w)) = Held(stack) + 1
      BY <1>5, <2>1, <2>8
    <3>2. ASSUME NEW z \in Status \cup {0, 1, NotFound}
          PROVE  Held(Append(Call(P, Refused(w, z)), Unlock)) = Held(stack) + 1
      <4> DEFINE f == Refused(w, z)
      <4>1. f \in Frame /\ W(f) = 0
        BY <2>9
      <4> HIDE DEF f
      <4>2. Held(Append(Call(P, f), Unlock)) = Held(stack) + W(f) + W(Unlock)
        BY <1>2, <1>5, <2>1, <4>1
      <4>3. QED
        BY <1>1, <1>2, <4>1, <4>2 DEF f
    <3>3. QED
      BY <2>1, <2>4, <3>1, <3>2
  <2>11. QED
    BY <1>7, <2>10, WaitForTypes DEF Rise
<1>8. ASSUME WaitAll \/ Jobs
      PROVE  Rise
  <2> DEFINE w == Wait(0, 0, "loop", FALSE)
             v == Wait(0, 0, "walk", FALSE)
             g == Reap(TRUE, FALSE)
  <2>1. Idle /\ stack' \in {Call(At("post"), w), Call(At("post"), v), Append(Call(At("post"), v), g)}
    BY <1>8 DEF WaitAll, Jobs
  <2>2. w \in Frame /\ v \in Frame
    BY WalkFrames
  <2>3. w.fn = "wait" /\ w.pc = "loop" /\ v.fn = "wait" /\ v.pc = "walk"
    BY DEF Wait
  <2>4. g \in Frame /\ W(g) = 0
    BY FramesAre, FrameWeights, Zenon
  <2> HIDE DEF w, v, g
  <2>5. W(w) = 1 /\ W(v) = 1
    BY <2>3, WeightIs
  <2>6. Held(stack') = Held(stack) + 1
    <3>1. \A f \in Frame : /\ Held(Call(At("post"), f)) = Held(stack) + W(f)
                           /\ Held(Append(Call(At("post"), f), g)) = Held(stack) + W(f) + W(g)
      BY <1>5, <2>1, <2>4
    <3>2. Held(Call(At("post"), w)) = Held(stack) + 1 /\ Held(Call(At("post"), v)) = Held(stack) + 1
      BY <1>1, <2>2, <2>5, <3>1
    <3>3. Held(Append(Call(At("post"), v), g)) = Held(stack) + 1
      BY <1>1, <2>2, <2>4, <2>5, <3>1
    <3>4. QED
      BY <2>1, <3>2, <3>3
  <2>7. QED
    BY <1>8, <2>6, WaitAllTypes DEF Rise
<1>9. ASSUME JobsWalk \/ WaitEnd
      PROVE  Keep
  <2>1. Top.fn = "wait" /\ Top.pc \in {"walk", "end"}
    BY <1>9 DEF JobsWalk, WaitEnd
  <2> DEFINE f == At("cleanup")
             g == At("return")
  <2>2. stack' \in {Call(f, Unlock), Call(g, Unlock)}
    BY <1>9 DEF JobsWalk, WaitEnd
  <2>3. f \in Frame /\ g \in Frame /\ W(f) = 0 /\ W(g) = 0 /\ W(Top) = 1
    BY <1>3, <1>4, <2>1
  <2> HIDE DEF f, g
  <2>4. Held(stack') = Held(stack)
    BY <1>1, <1>2, <2>1, <2>2, <2>3, HeldCall
  <2>5. QED
    BY <1>9, <2>4, JobsWalkTypes, WaitReapedTypes DEF Keep
<1>10. ASSUME WaitDone \/ WaitReaped
       PROVE  Keep
  <2>1. Top.fn = "wait" /\ Top.pc \in {"loop", "reaped"}
    BY <1>10 DEF WaitDone, WaitReaped
  <2> DEFINE x == IF WaitDone THEN job.rec[Top.pw].exit ELSE Top.exitval
             y == IF Top.intr /\ sh.trapnote THEN 1 ELSE x
             f == [Top EXCEPT !.pc = "end", !.exitval = y]
             g == At("loop")
  <2>2. stack' \in {Continue(f), Continue(g)}
    <3>1. CASE WaitDone
      BY <3>1 DEF WaitDone, WaitEnds
    <3>2. CASE ~WaitDone
      BY <1>10, <3>2 DEF WaitReaped, WaitEnds
    <3>3. QED
      BY <3>1, <3>2
  <2>3. Top \in WaitFrame
    BY <1>1, <2>1, Kinds
  <2>4. y \in Status \cup {0, 1, NotFound}
    <3>1. CASE WaitDone
      <4>1. Top.pw \in Slot
        BY <2>3, <3>1 DEF WaitDone, Reported, WaitFrame
      <4>2. job.rec[Top.pw] \in Process
        BY <1>1, <4>1 DEF Good, Job
      <4>3. QED
        BY <3>1, <4>2 DEF Process
    <3>2. CASE ~WaitDone
      BY <2>3, <3>2 DEF WaitFrame
    <3>3. QED
      BY <3>1, <3>2
  <2> HIDE DEF y
  <2>5. f \in Frame /\ f.fn = "wait" /\ f.pc = "end"
    BY <2>3, <2>4 DEF WaitFrame, Frame
  <2>6. g \in Frame /\ W(g) = 1 /\ W(Top) = 1
    BY <1>3, <1>4, <2>1
  <2> HIDE DEF f, g
  <2>7. W(f) = 1
    BY <2>5, WeightIs
  <2>8. Held(stack') = Held(stack)
    BY <1>1, <2>1, <2>2, <2>5, <2>6, <2>7, HeldIs
  <2>9. QED
    BY <1>10, <2>8, WaitDoneTypes, WaitReapedTypes DEF Keep
<1>11. ASSUME WaitReap
       PROVE  Keep
  <2> DEFINE f == At("reaped")
             g == Reap(job.savesig, FALSE)
  <2>1. Top.fn = "wait" /\ Top.pc = "loop" /\ stack' = Call(f, g)
    BY <1>11 DEF WaitReap
  <2>2. g \in Frame /\ W(g) = 0
    <3>1. job.savesig \in BOOLEAN /\ FALSE \in BOOLEAN
      BY <1>1 DEF Good, Job
    <3>2. QED
      BY <3>1, FramesAre, FrameWeights, Zenon
  <2>3. f \in Frame /\ W(f) = 1 /\ W(Top) = 1
    BY <1>3, <1>4, <2>1
  <2> HIDE DEF f, g
  <2>4. Held(stack') = Held(stack)
    BY <1>1, <2>1, <2>2, <2>3, HeldCall
  <2>5. QED
    BY <1>11, <2>4, WaitReapTypes DEF Keep
<1>12. ASSUME WaitReturn
       PROVE  Keep
  <2>1. Top.fn = "wait" /\ Top.pc = "return" /\ stack' = Caller /\ job' = job
    BY <1>12 DEF WaitReturn
  <2>2. W(Top) = 0
    BY <1>4, <2>1
  <2>3. QED
    BY <1>1, <2>1, <2>2, HeldIs DEF Keep
<1>13. ASSUME WaitCleanup
       PROVE  Rise \/ Keep
  <2> DEFINE f == At("return")
  <2>1. /\ Top.fn = "wait" /\ Top.pc = "cleanup"
        /\ stack' = IF sh.intrap = 0 THEN Call(f, Unlock) ELSE Continue(f)
    BY <1>13 DEF WaitCleanup
  <2>2. f \in Frame /\ W(f) = 0 /\ W(Top) = 0
    BY <1>3, <1>4, <2>1
  <2> HIDE DEF f
  <2>3. CASE sh.intrap = 0
    <3>1. Held(stack') = Held(stack) + 1
      BY <1>1, <1>2, <2>1, <2>2, <2>3, HeldCall
    <3>2. QED
      BY <1>13, <2>3, <3>1, WaitCleanupTypes DEF Rise
  <2>4. CASE sh.intrap # 0
    <3>1. Held(stack') = Held(stack)
      BY <1>1, <2>1, <2>2, <2>4, HeldIs
    <3>2. QED
      BY <1>13, <2>4, <3>1, WaitCleanupTypes DEF Keep
  <2>5. QED
    BY <2>3, <2>4
<1>14. QED
  BY <1>6, <1>7, <1>8, <1>9, <1>10, <1>11, <1>12, <1>13

LEMMA SubLocks ==
    ASSUME TInv
    PROVE  /\ EnterSub \/ LeaveSub => Rise
           /\ SubReset \/ SubLeft => Keep
<1>1. Top \in Frame /\ Founded(stack) /\ Held(stack) \in Nat /\ Good(job)
  BY TopIs, HeldIs
<1>2. Unlock \in Frame /\ W(Unlock) = 1
  BY FramesAre, FrameWeights
<1>3. ASSUME Top.fn = "sub", NEW c \in {"idle", "leave"}
      PROVE  At(c) \in Frame /\ W(At(c)) = 0
  <2> DEFINE f == At(c)
  <2>1. f \in Frame /\ f.fn = "sub"
    BY <1>1, <1>3, AtSub
  <2> HIDE DEF f
  <2>2. W(f) = 0
    BY <2>1, WeightIs
  <2>3. QED
    BY <2>1, <2>2 DEF f
<1>4. Top.fn = "sub" => W(Top) = 0
  BY WeightIs
<1>5. ASSUME EnterSub
      PROVE  Rise
  <2> DEFINE f == At("post")
             g == Sub(sh.curenv)
             t == Call(f, g)
  <2>1. Idle /\ stack' = Append(t, Unlock)
    BY <1>5 DEF EnterSub
  <2>2. g \in Frame /\ g.fn = "sub"
    BY DEF Sub, SubFrame, Frame, TInv, Typed, Shell
  <2>3. f \in Frame /\ W(f) = 0 /\ W(Top) = 0 /\ (Top.fn = "main" => f.fn = "main")
    BY <2>1, CommandWeight
  <2> HIDE DEF f, g
  <2>4. W(g) = 0
    BY <2>2, WeightIs
  <2>5. Held(t) = Held(stack) /\ Founded(t)
    BY <1>1, <2>2, <2>3, <2>4, HeldCall
  <2> HIDE DEF t
  <2>6. Held(stack') = Held(stack) + 1
    BY <1>1, <1>2, <2>1, <2>5, HeldPush
  <2>7. QED
    BY <1>5, <2>6, EnterSubTypes DEF Rise
<1>6. ASSUME LeaveSub
      PROVE  Rise
  <2> DEFINE f == At("leave")
  <2>1. Top.fn = "sub" /\ stack' = Call(f, Unlock)
    BY <1>6 DEF LeaveSub
  <2>2. f \in Frame /\ W(f) = 0 /\ W(Top) = 0
    BY <1>3, <1>4, <2>1
  <2> HIDE DEF f
  <2>3. Held(stack') = Held(stack) + 1
    BY <1>1, <1>2, <2>1, <2>2, HeldCall
  <2>4. QED
    BY <1>6, <2>3, LeaveSubTypes DEF Rise
<1>7. ASSUME SubReset
      PROVE  Keep
  <2> DEFINE f == At("idle")
  <2>1. Top.fn = "sub" /\ stack' = Continue(f) /\ job' = job
    BY <1>7 DEF SubReset
  <2>2. f \in Frame /\ W(f) = 0 /\ W(Top) = 0
    BY <1>3, <1>4, <2>1
  <2> HIDE DEF f
  <2>3. Held(stack') = Held(stack)
    BY <1>1, <2>1, <2>2, HeldIs
  <2>4. QED
    BY <2>1, <2>3 DEF Keep
<1>8. ASSUME SubLeft
      PROVE  Keep
  <2>1. Top.fn = "sub" /\ stack' = Caller /\ job' = job
    BY <1>8 DEF SubLeft
  <2>2. QED
    BY <1>1, <1>4, <2>1, HeldIs DEF Keep
<1>9. QED
  BY <1>5, <1>6, <1>7, <1>8

(* Where no error leaves a critical region on its own, every step does to
   job.in_critical what it does to the number of holders. *)
LEMMA NextLocks ==
    ASSUME TInv, [Next]_vars, "error" \notin Ops
    PROVE  Rise \/ Keep \/ Fall
<1>1. ~HandlerError /\ ~NtforkError
  BY DEF HandlerError, NtforkError
<1>2. CASE ReapOne \/ ReapNotice \/ ReapEnd \/ UnlockTest \/ UnlockLeave \/ SigChld
  BY <1>2, ReapLocks, UnlockLocks
<1>3. CASE ChldtrapStart \/ ChldtrapScan \/ ChldtrapHandled \/ ChldtrapEnd
  BY <1>3, ChldtrapLocks
<1>4. CASE Builtin \/ Chktrap \/ HandlerEnd \/ TrapChld \/ StartFork
  BY <1>4, CommandLocks
<1>5. CASE JobmaxWait \/ JobmaxWaited \/ Ntfork \/ Fork_bg \/ Fork_fg
  BY <1>5, ForkLocks
<1>6. CASE ForkPost \/ ForkEnd \/ ForkDone
  BY <1>6, ForkLocks
<1>7. CASE WaitForeground \/ (\E p \in Pid : WaitFor(p)) \/ WaitAll \/ Jobs \/ JobsWalk
  BY <1>7, WaitLocks
<1>8. CASE WaitDone \/ WaitReap \/ WaitReaped \/ WaitEnd \/ WaitReturn \/ WaitCleanup
  BY <1>8, WaitLocks
<1>9. CASE EnterSub \/ SubReset \/ LeaveSub \/ SubLeft
  BY <1>9, SubLocks
<1>10. CASE (\E p \in Pid : ChildExit(p)) \/ UNCHANGED vars
  BY <1>10 DEF ChildExit, vars, Keep, Held
<1>11. QED
  BY <1>1, <1>2, <1>3, <1>4, <1>5, <1>6, <1>7, <1>8, <1>9, <1>10 DEF Next, Step

LEMMA ModUp ==
    ASSUME NEW M \in Nat \ {0}, NEW c \in 0..M - 1
    PROVE  (c + 1) % M = IF c + 1 = M THEN 0 ELSE c + 1
<1>1. CASE c + 1 = M
  BY <1>1
<1>2. CASE c + 1 # M
  BY <1>2
<1>3. QED
  BY <1>1, <1>2

LEMMA BalancedStep ==
    ASSUME TInv, TInv', Balanced, Rise \/ Keep \/ Fall
    PROVE  Balanced'
<1> DEFINE M == CriticalMod
           c == job.in_critical
           h == Held(stack)
<1>1. M \in Nat \ {0} /\ c \in 0..M - 1 /\ h \in Nat /\ h' \in Nat
  <2>1. M \in Nat \ {0} /\ c \in 0..M - 1 /\ h \in Nat
    BY LimitAssumption, TopIs, HeldIs DEF Job
  <2>2. Founded(stack') /\ stack' \in Seq(Frame)
    BY DEF TInv, Typed, Founded
  <2>3. h' \in Nat
    BY <2>2, NumberNat DEF Held
  <2>4. QED
    BY <2>1, <2>3
<1>2. PICK q \in Nat : h = c + q * M
  BY DEF Balanced
<1>3. \/ h' = h + 1 /\ c' = (c + 1) % M
      \/ h' = h /\ c' = c
      \/ h' = h - 1 /\ c' = (IF c = 0 THEN M - 1 ELSE c - 1)
  BY DEF Rise, Keep, Fall
<1> SUFFICES \E n \in Nat : h' = c' + n * M
  BY DEF Balanced
<1> DEFINE d == c'
           k == h'
<1> HIDE DEF M, c, h, d, k
<1>4. CASE k = h + 1 /\ d = (c + 1) % M
  <2>1. d = IF c + 1 = M THEN 0 ELSE c + 1
    BY <1>1, <1>4, ModUp
  <2>2. CASE c + 1 = M
    <3>1. (q + 1) * M = q * M + M
      BY <1>1, <1>2
    <3>2. k = d + (q + 1) * M
      BY <1>1, <1>2, <1>4, <2>1, <2>2, <3>1
    <3>3. QED
      BY <3>2 DEF d, k
  <2>3. CASE c + 1 # M
    <3>1. k = d + q * M
      BY <1>1, <1>2, <1>4, <2>1, <2>3
    <3>2. QED
      BY <3>1 DEF d, k
  <2>4. QED
    BY <2>2, <2>3
<1>5. CASE k = h /\ d = c
  BY <1>2, <1>5 DEF d, k
<1>6. CASE k = h - 1 /\ d = (IF c = 0 THEN M - 1 ELSE c - 1)
  <2>1. CASE c = 0
    <3>1. q # 0
      <4>1. CASE q = 0
        <5>1. h = 0
          BY <1>1, <1>2, <2>1, <4>1
        <5>2. QED
          BY <1>1, <1>6, <5>1 DEF k
      <4>2. QED
        BY <4>1
    <3>2. (q - 1) * M = q * M - M
      BY <1>1, <1>2
    <3>3. k = d + (q - 1) * M
      BY <1>1, <1>2, <1>6, <2>1, <3>2
    <3>4. QED
      BY <1>2, <3>1, <3>3 DEF d, k
  <2>2. CASE c # 0
    <3>1. k = d + q * M
      BY <1>1, <1>2, <1>6, <2>2
    <3>2. QED
      BY <3>1 DEF d, k
  <2>3. QED
    BY <2>1, <2>2
<1>7. QED
  BY <1>3, <1>4, <1>5, <1>6 DEF d, k

LEMMA BalancedHolds ==
    ASSUME "error" \notin Ops
    PROVE  Spec => [](TInv /\ Balanced)
<1>1. Init => TInv /\ Balanced
  <2> SUFFICES ASSUME Init PROVE TInv /\ Balanced
    OBVIOUS
  <2>1. TInv
    BY InitTypes
  <2>2. stack = <<Main>> /\ job.in_critical = 0
    BY DEF Init
  <2>3. Main.fn = "main"
    BY DEF Main
  <2>4. \A i \in 1..Len(stack) : stack[i] \notin Holding
    BY <2>2, <2>3 DEF Holding, Holds
  <2>5. Held(stack) = 0
    BY <2>1, <2>4, NoneCount DEF Held, TInv, Typed, Founded
  <2>6. 0 = 0 + 0 * CriticalMod
    BY LimitAssumption
  <2>7. QED
    BY <2>1, <2>2, <2>5, <2>6 DEF Balanced
<1>2. TInv /\ Balanced /\ [Next]_vars => (TInv /\ Balanced)'
  BY NextTypes, NextLocks, BalancedStep
<1>3. QED
  BY <1>1, <1>2, PTL DEF Spec

LEMMA HoldersCount ==
    ASSUME TInv
    PROVE  Cardinality(Holders) = Held(stack) /\ Held(stack) \in Nat
<1>1. Len(stack) \in Nat /\ \A i \in 1..Len(stack) : stack[i] \in Frame
  BY TopIs DEF Founded
<1>2. Holders = {i \in 1..Len(stack) : stack[i] \in Holding}
  BY <1>1 DEF Holders, Holding
<1>3. QED
  BY <1>2, HeldIs DEF Held, Number

(* job.in_critical is the number of activations that hold the lock, wherever
   a counter of its width can hold that number: no path of job_reap,
   job_chldtrap, sh_fork, sh_ntfork, job_wait and sh_subshell, taken in any
   order and interrupted anywhere, locks or unlocks once too often.  The steps
   an error in a handler or in an assignment takes are left out: sh_exit
   unlocks what it does not hold (see LocksBalanced with "error"). *)
THEOREM LocksCount ==
    ASSUME "error" \notin Ops
    PROVE  Spec => [](Cardinality(Holders) < CriticalMod => LocksBalanced)
<1>1. TInv /\ Balanced => (Cardinality(Holders) < CriticalMod => LocksBalanced)
  <2> SUFFICES ASSUME TInv, Balanced, Cardinality(Holders) < CriticalMod
               PROVE  LocksBalanced
    OBVIOUS
  <2> DEFINE M == CriticalMod
             c == job.in_critical
             h == Held(stack)
  <2>1. M \in Nat \ {0} /\ c \in 0..M - 1 /\ h \in Nat /\ h < M /\ Cardinality(Holders) = h
    BY LimitAssumption, TopIs, HoldersCount DEF Job
  <2>2. PICK q \in Nat : h = c + q * M
    BY DEF Balanced
  <2> HIDE DEF M, c, h
  <2>3. q = 0
    <3>1. CASE q >= 1
      <4>1. q * M >= M
        BY <2>1, <2>2, <3>1
      <4>2. QED
        BY <2>1, <2>2, <4>1
    <3>2. QED
      BY <2>2, <3>1
  <2>4. h = c
    BY <2>1, <2>2, <2>3
  <2>5. QED
    BY <2>1, <2>4 DEF LocksBalanced, c
<1>2. QED
  BY <1>1, BalancedHolds, PTL

-------------------------------------------------------------------------------
(* How activations follow one another: every one is in P, and each pair of
   neighbours, the caller first, is in R. *)
Nested(s, P, R) ==
    /\ \A i \in 1..Len(s) : s[i] \in P
    /\ \A i \in 1..Len(s) - 1 : <<s[i], s[i + 1]>> \in R

LEMMA NestedPush ==
    ASSUME NEW P, NEW R, NEW s, Founded(s), Nested(s, P, R), NEW f \in P, <<s[Len(s)], f>> \in R
    PROVE  Nested(Append(s, f), P, R)
<1> DEFINE n == Len(s)
           t == Append(s, f)
<1>1. n \in Nat \ {0} /\ Len(t) = n + 1 /\ t[n + 1] = f /\ \A i \in 1..n : t[i] = s[i]
  BY DEF Founded
<1> HIDE DEF t
<1>2. ASSUME NEW i \in 1..Len(t)
      PROVE  t[i] \in P
  <2>1. i \in 1..n \/ i = n + 1
    BY <1>1
  <2>2. QED
    BY <1>1, <2>1 DEF Nested
<1>3. ASSUME NEW i \in 1..Len(t) - 1
      PROVE  <<t[i], t[i + 1]>> \in R
  <2>1. CASE i = n
    BY <1>1, <2>1
  <2>2. CASE i # n
    <3>1. i \in 1..n - 1 /\ i \in 1..n /\ i + 1 \in 1..n
      BY <1>1, <2>2
    <3>2. QED
      BY <1>1, <3>1 DEF Nested
  <2>3. QED
    BY <2>1, <2>2
<1>4. QED
  BY <1>2, <1>3 DEF Nested, t

LEMMA NestedReturn ==
    ASSUME NEW P, NEW R, Founded(stack), Nested(stack, P, R)
    PROVE  Nested(Caller, P, R)
<1> DEFINE n == Len(stack)
<1>1. Len(Caller) = n - 1 /\ n \in Nat \ {0} /\ \A i \in 1..n - 1 : Caller[i] = stack[i]
  BY FrontIs DEF Founded, Caller
<1> HIDE DEF n
<1>2. ASSUME NEW i \in 1..Len(Caller)
      PROVE  Caller[i] \in P
  BY <1>1 DEF Nested, n
<1>3. ASSUME NEW i \in 1..Len(Caller) - 1
      PROVE  <<Caller[i], Caller[i + 1]>> \in R
  <2>1. i \in 1..n - 1 /\ i + 1 \in 1..n - 1
    BY <1>1
  <2>2. QED
    BY <1>1, <2>1 DEF Nested, n
<1>4. QED
  BY <1>2, <1>3 DEF Nested

LEMMA NestedContinue ==
    ASSUME NEW P, NEW R, Founded(stack), Nested(stack, P, R), NEW f \in P,
           \A g \in P : <<g, Top>> \in R => <<g, f>> \in R
    PROVE  Nested(Continue(f), P, R) /\ Continue(f)[Len(Continue(f))] = f
<1> DEFINE n == Len(stack)
           t == Continue(f)
<1>1. /\ Caller \in Seq(Frame) /\ Len(Caller) = n - 1 /\ n \in Nat \ {0}
      /\ \A i \in 1..n - 1 : Caller[i] = stack[i]
  BY FrontIs DEF Founded, Caller
<1>2. Len(t) = n /\ t[n] = f /\ \A i \in 1..n - 1 : t[i] = stack[i]
  BY <1>1 DEF Continue
<1> HIDE DEF t
<1>3. ASSUME NEW i \in 1..Len(t)
      PROVE  t[i] \in P
  <2>1. i = n \/ (i \in 1..n - 1 /\ i \in 1..n)
    BY <1>1, <1>2
  <2>2. QED
    BY <1>2, <2>1 DEF Nested
<1>4. ASSUME NEW i \in 1..Len(t) - 1
      PROVE  <<t[i], t[i + 1]>> \in R
  <2>1. i \in 1..n - 1 /\ i \in 1..n /\ i + 1 \in 1..n /\ t[i] = stack[i]
    BY <1>1, <1>2
  <2>2. stack[i] \in P /\ <<stack[i], stack[i + 1]>> \in R
    BY <2>1 DEF Nested
  <2>3. CASE i + 1 = n
    <3>1. <<stack[i], Top>> \in R
      BY <2>2, <2>3 DEF Top
    <3>2. QED
      BY <1>2, <2>1, <2>2, <2>3, <3>1
  <2>4. CASE i + 1 # n
    <3>1. i + 1 \in 1..n - 1
      BY <1>1, <2>1, <2>4
    <3>2. QED
      BY <1>2, <2>1, <2>2, <3>1
  <2>5. QED
    BY <2>3, <2>4
<1>5. Nested(t, P, R)
  BY <1>3, <1>4 DEF Nested
<1>6. QED
  BY <1>2, <1>5 DEF t

LEMMA NestedCall ==
    ASSUME NEW P, NEW R, Founded(stack), Nested(stack, P, R), P \subseteq Frame,
           NEW f \in P, Top.fn = "main" => f.fn = "main",
           \A g \in P : <<g, Top>> \in R => <<g, f>> \in R,
           NEW h \in P, <<f, h>> \in R
    PROVE  Nested(Call(f, h), P, R) /\ Founded(Call(f, h)) /\ Call(f, h)[Len(Call(f, h))] = h
<1> DEFINE s == Continue(f)
<1>1. Nested(s, P, R) /\ s[Len(s)] = f /\ Founded(s)
  BY NestedContinue, ContinueIs
<1>2. Call(f, h) = Append(s, h)
  BY DEF Call
<1> HIDE DEF s
<1>3. Nested(Append(s, h), P, R) /\ Founded(Append(s, h))
  BY <1>1, NestedPush, PushIs
<1>4. Append(s, h)[Len(Append(s, h))] = h
  BY <1>1 DEF Founded
<1>5. QED
  BY <1>2, <1>3, <1>4

-------------------------------------------------------------------------------
(* The reap that the handler of SIGCHLD runs is interrupted by nothing, it
   interrupts a fork for a background job at most, and the child of a fork
   has the kind that its fork gave it until another takes its process ID. *)
Async == {f \in ReapFrame : f.async}
PendBg == {f \in ForkFrame : f.pc = "forked" /\ f.bg}
Kindly(f) ==
    /\ f.pc \in {"jobmax", "reaped"} => f.bg
    /\ f.pc \in {"lock", "assign", "assigned"} => ~f.bg
Apt ==
    {f \in Frame : /\ f.fn = "reap" => (f.async => f.sig)
                   /\ f.fn = "fork" => (/\ f.pc = "forked" /\ f.pid \in Pid
                                        /\ kernel[f.pid].st # "free"
                                       => (child[f.pid].bg <=> f.bg))
                   /\ f.fn = "fork" => Kindly(f)
                   /\ f.fn = "sub" => "subshell" \in Ops}
Calls == {x \in Frame \X Frame : x[1] \notin Async /\ (x[1] \in PendBg => x[2] \in Async)}
Depth == Nested(stack, Apt, Calls)
Plain == {f \in Apt : f \notin Async /\ f \notin PendBg}

LEMMA PlainIs ==
    ASSUME NEW f \in Frame
    PROVE  /\ f.fn \notin {"reap", "fork"} /\ (f.fn = "sub" => "subshell" \in Ops) => f \in Plain
           /\ f.fn = "fork" /\ f.pc # "forked" /\ Kindly(f) => f \in Plain
           /\ f.fn = "reap" /\ ~f.async => f \in Plain
           /\ f.fn = "reap" /\ f.sig => f \in Apt
  BY DEF Plain, Apt, Async, PendBg, ReapFrame, ForkFrame

LEMMA CallsIs ==
    ASSUME NEW f \in Frame, NEW g \in Frame
    PROVE  <<f, g>> \in Calls <=> (f \notin Async /\ (f \in PendBg => g \in Async))
  BY DEF Calls

LEMMA DeepIs ==
    ASSUME TInv, Depth
    PROVE  /\ Top \in Apt
           /\ Nested(Caller, Apt, Calls)
           /\ \A f \in Apt : (Top \in Async => f \in Async) => Nested(Continue(f), Apt, Calls)
           /\ \A f \in Plain, h \in Apt : Top \notin Async /\ (Top.fn = "main" => f.fn = "main") =>
                 /\ Nested(Call(f, h), Apt, Calls)
                 /\ \A k \in Apt : h \in Plain => Nested(Append(Call(f, h), k), Apt, Calls)
<1>1. Founded(stack) /\ Top \in Frame /\ Len(stack) \in Nat \ {0}
  BY TopIs DEF Founded
<1>2. Top \in Apt
  BY <1>1 DEF Depth, Nested, Top
<1>3. Apt \subseteq Frame /\ Plain \subseteq Apt
  BY DEF Apt, Plain
<1>4. ASSUME NEW f \in Apt, Top \in Async => f \in Async
      PROVE  Nested(Continue(f), Apt, Calls)
  <2>1. \A g \in Apt : <<g, Top>> \in Calls => <<g, f>> \in Calls
    BY <1>1, <1>3, <1>4, CallsIs
  <2>2. QED
    BY <1>1, <2>1, NestedContinue DEF Depth
<1>5. ASSUME NEW f \in Plain, NEW h \in Apt, Top \notin Async, Top.fn = "main" => f.fn = "main"
      PROVE  /\ Nested(Call(f, h), Apt, Calls)
             /\ \A k \in Apt : h \in Plain => Nested(Append(Call(f, h), k), Apt, Calls)
  <2>1. <<f, h>> \in Calls
    BY <1>3, CallsIs DEF Plain
  <2>2. \A g \in Apt : <<g, Top>> \in Calls => <<g, f>> \in Calls
    BY <1>1, <1>3, <1>5, CallsIs
  <2>3. f \in Apt
    BY <1>3
  <2> DEFINE s == Call(f, h)
  <2>4. Nested(s, Apt, Calls) /\ Founded(s) /\ s[Len(s)] = h
    BY <1>1, <1>3, <1>5, <2>1, <2>2, <2>3, NestedCall DEF Depth
  <2> HIDE DEF s
  <2>5. ASSUME NEW k \in Apt, h \in Plain
        PROVE  Nested(Append(s, k), Apt, Calls)
    <3>1. <<h, k>> \in Calls
      BY <1>3, <2>5, CallsIs DEF Plain
    <3>2. QED
      BY <2>4, <3>1, NestedPush
  <2>6. QED
    BY <2>4, <2>5 DEF s
<1>6. QED
  BY <1>1, <1>2, <1>4, <1>5, NestedReturn DEF Depth

LEMMA NotAsync ==
    ASSUME Top \in Frame
    PROVE  Top.fn # "reap" \/ ~Top.async => Top \notin Async
  BY DEF Async, ReapFrame

LEMMA SubsOnly ==
    ASSUME TInv, Depth
    PROVE  Top.fn = "sub" => "subshell" \in Ops
  BY DeepIs DEF Apt

Deeper == Nested(stack', Apt, Calls)

LEMMA ReapDepth ==
    ASSUME TInv, Depth, ReapOne \/ ReapNotice \/ ReapEnd \/ SigChld
    PROVE  Deeper
<1>1. Top \in Frame /\ Founded(stack) /\ Good(job) /\ Top \in Apt /\ Len(stack) \in Nat \ {0}
  BY TopIs, DeepIs DEF Founded
<1>2. CASE ReapOne
  <2>1. Top.fn = "reap"
    BY <1>2 DEF ReapOne
  <2>2. Top \in ReapFrame
    BY <1>1, <2>1, Kinds
  <2>3. ASSUME NEW s \in Slot \cup {0}
        PROVE  /\ Reaped(s) \in Frame /\ Reaped(s).fn = "reap" /\ Reaped(s).async = Top.async
               /\ Reaped(s).sig = Top.sig /\ Reaped(s) \in ReapFrame
    BY <2>2 DEF Reaped, ReapFrame, Frame
  <2>4. PICK p \in Pid : \/ ~Top.sig /\ stack' = Call(Reaped(job_bypid(job, p)), Chldtrap(FALSE))
                         \/ stack' = Continue(Reaped(0))
    BY <1>2 DEF ReapOne
  <2> DEFINE s == job_bypid(job, p)
             f == Reaped(s)
             g == Reaped(0)
             h == Chldtrap(FALSE)
  <2>5. s \in Slot \cup {0}
    BY <1>1, BypidSlot
  <2>6. h \in Frame /\ h.fn = "chldtrap"
    BY DEF Chldtrap, ChldtrapFrame, Frame
  <2>7. /\ f \in Frame /\ f.fn = "reap" /\ f.async = Top.async /\ f.sig = Top.sig /\ f \in ReapFrame
        /\ g \in Frame /\ g.fn = "reap" /\ g.async = Top.async /\ g.sig = Top.sig /\ g \in ReapFrame
    BY <2>3, <2>5
  <2>8. stack' = Continue(g) \/ (~Top.sig /\ stack' = Call(f, h))
    BY <2>4
  <2> HIDE DEF f, g, h
  <2>9. Top.async => Top.sig
    BY <1>1, <2>1 DEF Apt
  <2>10. CASE stack' = Continue(g)
    <3>1. g \in Apt /\ (Top \in Async => g \in Async)
      BY <2>7, <2>9, <2>2 DEF Apt, Async
    <3>2. QED
      BY <2>10, <3>1, DeepIs DEF Deeper
  <2>11. CASE ~Top.sig /\ stack' = Call(f, h)
    <3>1. ~Top.async /\ Top \notin Async
      BY <2>9, <2>11 DEF Async
    <3>2. f \in Plain /\ h \in Apt
      BY <2>6, <2>7, <3>1, PlainIs DEF Plain
    <3>3. QED
      BY <2>1, <2>11, <3>1, <3>2, DeepIs DEF Deeper
  <2>12. QED
    BY <2>8, <2>10, <2>11
<1>3. CASE ReapNotice
  <2> DEFINE f == [Top EXCEPT !.pw = 0]
  <2>1. Top.fn = "reap" /\ stack' = Continue(f)
    BY <1>3 DEF ReapNotice
  <2>2. Top \in ReapFrame
    BY <1>1, <2>1, Kinds
  <2>3. f \in ReapFrame /\ f.fn = "reap" /\ f.async = Top.async /\ f.sig = Top.sig
    BY <2>2 DEF ReapFrame
  <2> HIDE DEF f
  <2>4. f \in Apt /\ (Top \in Async => f \in Async)
    BY <1>1, <2>1, <2>3 DEF Apt, Async, Frame
  <2>5. QED
    BY <2>1, <2>4, DeepIs DEF Deeper
<1>4. CASE ReapEnd
  BY <1>4, DeepIs DEF ReapEnd, Deeper
<1>5. CASE SigChld
  <2> DEFINE f == Reap(TRUE, TRUE)
  <2>1. \/ stack' = Append(stack, f) \/ stack' = Append(Caller, f) \/ stack' = stack
    BY <1>5 DEF SigChld
  <2>2. Top \notin Async
    <3>1. ~(Top.fn = "reap" /\ Top.async)
      BY <1>1, <1>5 DEF SigChld, Top
    <3>2. QED
      BY <3>1 DEF Async, ReapFrame
  <2>3. f \in Frame /\ f.fn = "reap" /\ f.async /\ f.sig /\ f \in ReapFrame
    <3>1. \A x, y \in BOOLEAN : Reap(x, y) \in ReapFrame /\ Reap(x, y).async = y /\ Reap(x, y).sig = x
      BY DEF Reap, ReapFrame
    <3>2. TRUE \in BOOLEAN
      OBVIOUS
    <3>3. f \in ReapFrame /\ f.async = TRUE /\ f.sig = TRUE
      BY <3>1, <3>2, Zenon
    <3>4. QED
      BY <3>3 DEF ReapFrame, Frame
  <2> HIDE DEF f
  <2>4. f \in Apt /\ f \in Async
    BY <2>3, PlainIs DEF Async
  <2>5. CASE stack' = Append(stack, f)
    <3>1. <<stack[Len(stack)], f>> \in Calls
      BY <1>1, <2>2, <2>3, <2>4, CallsIs DEF Top
    <3>2. QED
      BY <1>1, <2>4, <2>5, <3>1, NestedPush DEF Deeper, Depth
  <2>6. CASE stack' = Append(Caller, f)
    <3>1. stack' = Continue(f)
      BY <2>6 DEF Continue
    <3>2. QED
      BY <2>2, <2>4, <3>1, DeepIs DEF Deeper
  <2>7. CASE stack' = stack
    BY <2>7 DEF Deeper, Depth
  <2>8. QED
    BY <2>1, <2>5, <2>6, <2>7
<1>6. QED
  BY <1>2, <1>3, <1>4, <1>5

LEMMA PlainFrames ==
    /\ Unlock \in Plain /\ Handler \in Plain
    /\ \A x \in BOOLEAN : /\ Reap(x, FALSE) \in Plain /\ Chldtrap(x) \in Plain /\ Fork(x) \in Plain
<1>1. Unlock \in Frame /\ Unlock.fn = "unlock" /\ Handler \in Frame /\ Handler.fn = "trap"
  BY DEF Unlock, UnlockFrame, Handler, BaseFrame, Frame
<1>2. ASSUME NEW x \in BOOLEAN
      PROVE  /\ Chldtrap(x) \in Frame /\ Chldtrap(x).fn = "chldtrap"
             /\ Fork(x) \in Frame /\ Fork(x).fn = "fork" /\ Fork(x).pc # "forked"
             /\ Kindly(Fork(x))
  <2>1. Chldtrap(x) \in ChldtrapFrame /\ Chldtrap(x).fn = "chldtrap"
    BY DEF Chldtrap, ChldtrapFrame
  <2>2. Fork(x) \in ForkFrame /\ Fork(x).fn = "fork" /\ Fork(x).pc # "forked"
    BY DEF Fork, ForkFrame
  <2>3. Kindly(Fork(x))
    BY DEF Kindly, Fork
  <2>4. QED
    BY <2>1, <2>2, <2>3 DEF Frame
<1>3. ASSUME NEW x \in BOOLEAN
      PROVE  Reap(x, FALSE) \in Plain
  <2>1. \A y \in BOOLEAN : Reap(x, y) \in ReapFrame /\ Reap(x, y).fn = "reap" /\ Reap(x, y).async = y
    BY DEF Reap, ReapFrame
  <2> DEFINE f == Reap(x, FALSE)
  <2>2. f \in ReapFrame /\ f.fn = "reap" /\ f.async = FALSE
    <3>1. FALSE \in BOOLEAN
      OBVIOUS
    <3>2. QED
      BY <2>1, <3>1, Zenon
  <2> HIDE DEF f
  <2>3. f \in Plain
    BY <2>2, PlainIs DEF Frame
  <2>4. QED
    BY <2>3 DEF f
<1>4. QED
  BY <1>1, <1>2, <1>3, PlainIs

LEMMA UnlockDepth ==
    ASSUME TInv, Depth, UnlockTest \/ UnlockLeave
    PROVE  Deeper
<1>1. Top \in Frame /\ Top.fn = "unlock"
  BY TopIs DEF UnlockTest, UnlockLeave
<1> DEFINE f == At("leave")
           g == Reap(TRUE, FALSE)
<1>2. stack' \in {Call(f, g), Continue(f), Caller}
  BY DEF UnlockTest, UnlockLeave
<1>3. f \in Plain /\ g \in Plain
  <2>1. f \in Frame /\ f.fn = "unlock"
    BY <1>1, Kinds DEF At, UnlockFrame, Frame
  <2>2. TRUE \in BOOLEAN
    OBVIOUS
  <2>3. g \in Plain
    BY <2>2, PlainFrames, Zenon
  <2> HIDE DEF f, g
  <2>4. QED
    BY <2>1, <2>3, PlainIs
<1> HIDE DEF f, g
<1>4. Top \notin Async
  BY <1>1, NotAsync
<1>5. QED
  BY <1>1, <1>2, <1>3, <1>4, DeepIs DEF Deeper, Plain

LEMMA ChldtrapDepth ==
    ASSUME TInv, Depth, ChldtrapStart \/ ChldtrapScan \/ ChldtrapHandled \/ ChldtrapEnd
    PROVE  Deeper
<1>1. Top \in Frame /\ Top.fn = "chldtrap" /\ Good(job) /\ job \in Job /\ sh \in Shell
  BY TopIs DEF ChldtrapStart, ChldtrapScan, ChldtrapHandled, ChldtrapEnd, TInv, Typed
<1>2. Top \in ChldtrapFrame /\ Top \notin Async
  BY <1>1, Kinds, NotAsync
<1>3. \A f \in ChldtrapFrame : f \in Plain
  BY PlainIs DEF ChldtrapFrame, Frame
<1>4. ASSUME NEW f \in Plain
      PROVE  Nested(Continue(f), Apt, Calls) /\ Nested(Call(f, Handler), Apt, Calls)
  <2>1. Handler \in Apt /\ f \in Apt
    BY PlainFrames DEF Plain
  <2>2. QED
    BY <1>1, <1>2, <1>4, <2>1, DeepIs
<1>5. CASE ChldtrapStart
  <2> DEFINE w == IF job.pwlist = <<>> THEN 0 ELSE Head(job.pwlist)
             f == [Top EXCEPT !.pc = "scan", !.trapnote = sh.trapnote, !.pw = w]
  <2>1. stack' = Continue(f)
    BY <1>5 DEF ChldtrapStart
  <2>2. w \in Slot \cup {0}
    BY <1>1 DEF Job
  <2>3. sh.trapnote \in BOOLEAN
    BY <1>1 DEF Shell
  <2> HIDE DEF w
  <2>4. f \in ChldtrapFrame
    BY <1>2, <2>2, <2>3 DEF ChldtrapFrame
  <2>5. QED
    BY <1>3, <1>4, <2>1, <2>4 DEF Deeper
<1>6. CASE ChldtrapScan
  <2>1. Top.pw # 0
    BY <1>6 DEF ChldtrapScan
  <2> DEFINE next == p_nxtjob(job, Top.pw)
             f == [Top EXCEPT !.pc = "handled", !.next = next, !.bckpid = sh.bckpid]
             g == [Top EXCEPT !.pw = next]
  <2>2. stack' \in {Continue(g), Call(f, Handler), Continue(f)}
    BY <1>6 DEF ChldtrapScan
  <2>3. next \in Slot \cup {0} /\ sh.bckpid \in Pid \cup {0}
    <3>1. Top.pw \in Slot
      BY <1>2, <2>1 DEF ChldtrapFrame
    <3>2. QED
      BY <1>1, <3>1, NextIs DEF Shell
  <2> HIDE DEF next
  <2>4. f \in ChldtrapFrame /\ g \in ChldtrapFrame
    BY <1>2, <2>3 DEF ChldtrapFrame
  <2> HIDE DEF f, g
  <2>5. QED
    BY <1>3, <1>4, <2>2, <2>4 DEF Deeper
<1>7. CASE ChldtrapHandled
  <2> DEFINE f == [Top EXCEPT !.pc = "scan", !.pw = Top.next]
  <2>1. stack' = Continue(f)
    BY <1>7 DEF ChldtrapHandled
  <2>2. f \in ChldtrapFrame
    BY <1>2 DEF ChldtrapFrame
  <2>3. QED
    BY <1>3, <1>4, <2>1, <2>2 DEF Deeper
<1>8. CASE ChldtrapEnd
  BY <1>4, <1>8, PlainFrames DEF ChldtrapEnd, Deeper
<1>9. QED
  BY <1>5, <1>6, <1>7, <1>8

LEMMA CommandDepth ==
    ASSUME TInv, Depth,
           Builtin \/ Chktrap \/ HandlerEnd \/ HandlerError \/ TrapChld \/ StartFork
    PROVE  Deeper
<1>1. Top \in Frame /\ Top.fn \in {"main", "trap", "sub"} /\ Top.pc \in {"idle", "post"}
  BY TopIs DEF Builtin, Chktrap, HandlerEnd, HandlerError, TrapChld, StartFork, Idle
<1> DEFINE f == At("post")
           g == At("idle")
           h == Chldtrap(TRUE)
<1>2. /\ f \in Plain /\ g \in Plain /\ h \in Plain /\ Unlock \in Plain /\ Top \notin Async
      /\ Top.fn = "main" => f.fn = "main" /\ g.fn = "main"
  <2>1. f \in Frame /\ f.fn = Top.fn /\ g \in Frame /\ g.fn = Top.fn
    BY <1>1, CommandIs
  <2>2. TRUE \in BOOLEAN
    OBVIOUS
  <2>3. h \in Plain
    BY <2>2, PlainFrames, Zenon
  <2>4. Unlock \in Plain /\ Top \notin Async
    BY <1>1, PlainFrames, NotAsync
  <2> HIDE DEF f, g, h
  <2>5. QED
    BY <1>1, <2>1, <2>3, <2>4, PlainIs, SubsOnly
<1>3. \/ stack' \in {Continue(f), Continue(g), Continue(Unlock), Call(g, h), Caller}
      \/ \E b \in BOOLEAN : stack' = Call(f, Fork(b))
  BY DEF Builtin, Chktrap, HandlerEnd, HandlerError, TrapChld, StartFork
<1> HIDE DEF f, g, h
<1>4. CASE stack' \in {Continue(f), Continue(g), Continue(Unlock), Call(g, h), Caller}
  BY <1>2, <1>4, DeepIs DEF Plain, Deeper
<1>5. CASE \E b \in BOOLEAN : stack' = Call(f, Fork(b))
  <2>1. PICK b \in BOOLEAN : stack' = Call(f, Fork(b))
    BY <1>5
  <2> DEFINE k == Fork(b)
  <2>2. stack' = Call(f, k) /\ k \in Plain
    BY <2>1, PlainFrames
  <2> HIDE DEF k
  <2>3. QED
    BY <1>2, <2>2, DeepIs DEF Plain, Deeper
<1>6. QED
  BY <1>3, <1>4, <1>5

LEMMA ForkDepth ==
    ASSUME TInv, Depth,
           \/ JobmaxWait \/ JobmaxWaited \/ Ntfork \/ NtforkError
           \/ ForkPost \/ ForkEnd \/ ForkDone \/ WaitForeground
    PROVE  Deeper
<1>1. Top \in Frame /\ Top.fn = "fork"
  BY TopIs DEF JobmaxWait, JobmaxWaited, Ntfork, NtforkError, ForkPost, ForkEnd, ForkDone, WaitForeground
<1>2. ASSUME NEW c \in {"jobmax", "reaped", "lock", "assign", "assigned", "posted", "done"},
             \/ c \in {"posted", "done"}
             \/ c \in {"jobmax", "reaped"} /\ Top.pc \in {"jobmax", "reaped"}
             \/ c \in {"assign", "assigned"} /\ Top.pc \in {"lock", "assign"}
      PROVE  At(c) \in Plain
  <2> DEFINE f == At(c)
  <2>1. c \in {"jobmax", "reaped", "lock", "assign", "assigned", "forked", "posted", "done"}
    BY <1>2
  <2>2. f \in Frame /\ f.fn = "fork" /\ f.pc = c /\ f.bg = Top.bg
    <3>1. Top \in ForkFrame
      BY <1>1, Kinds
    <3>2. QED
      BY <1>1, <2>1, <3>1, AtFork DEF At, ForkFrame
  <2> HIDE DEF f
  <2>3. Kindly(Top)
    BY <1>1, DeepIs DEF Apt
  <2>4. f \in Plain
    BY <1>2, <2>2, <2>3, PlainIs DEF Kindly
  <2>5. QED
    BY <2>4 DEF f
<1> DEFINE h == Reap(FALSE, FALSE)
<1>3. h \in Plain /\ Unlock \in Plain /\ Top \notin Async
  <2>1. FALSE \in BOOLEAN
    OBVIOUS
  <2>2. h \in Plain
    BY <2>1, PlainFrames, Zenon
  <2>3. QED
    BY <1>1, <2>2, PlainFrames, NotAsync
<1>4. CASE JobmaxWait
  <2>1. stack' = Call(At("reaped"), h) /\ Top.pc = "jobmax"
    BY <1>4 DEF JobmaxWait
  <2> HIDE DEF h
  <2>2. QED
    BY <1>1, <1>2, <1>3, <2>1, DeepIs DEF Deeper, Plain
<1>5. CASE JobmaxWaited \/ NtforkError \/ ForkPost \/ ForkEnd
  <2>1. PICK c \in {"jobmax", "assigned", "posted", "done"} :
               /\ stack' = Call(At(c), Unlock) \/ stack' = Continue(At(c))
               /\ c = "jobmax" => Top.pc = "reaped"
               /\ c = "assigned" => Top.pc = "assign"
    BY <1>5 DEF JobmaxWaited, NtforkError, ForkPost, ForkEnd
  <2>2. At(c) \in Plain
    BY <1>2, <2>1
  <2>3. At(c).fn = "fork" \/ Top.fn # "main"
    BY <1>1
  <2>4. QED
    BY <1>1, <1>3, <2>1, <2>2, <2>3, DeepIs DEF Deeper, Plain
<1>6. CASE Ntfork \/ ForkDone
  <2>1. (stack' = Continue(At("assign")) /\ Top.pc = "lock") \/ stack' = Caller
    BY <1>6 DEF Ntfork, ForkDone
  <2>2. QED
    BY <1>1, <1>2, <1>3, <2>1, DeepIs DEF Deeper, Plain
<1>7. CASE WaitForeground
  <2> DEFINE s == job_bypid(job, Top.pid)
             f == [Wait(Top.pid, s, "loop", FALSE) EXCEPT !.intr = FALSE]
  <2>1. stack' = Continue(Unlock) \/ stack' = Continue(f)
    BY <1>7 DEF WaitForeground
  <2>2. Top.pid \in Pid \cup {0} /\ s \in Slot \cup {0}
    <3>1. Top \in ForkFrame
      BY <1>1, Kinds
    <3>2. \A q \in Pid \cup {0} : job_bypid(job, q) \in Slot \cup {0}
      BY TopIs, BypidSlot
    <3>3. QED
      BY <3>1, <3>2 DEF ForkFrame
  <2> HIDE DEF s
  <2>3. f \in WaitFrame
    <3>1. \A o \in BOOLEAN : [Wait(Top.pid, s, "loop", o) EXCEPT !.intr = o] \in WaitFrame
      BY <2>2 DEF Wait, WaitFrame
    <3>2. QED
      BY <3>1
  <2> HIDE DEF f
  <2>4. f \in Plain
    BY <2>3, PlainIs DEF WaitFrame, Frame
  <2>5. QED
    BY <1>1, <1>3, <2>1, <2>4, DeepIs DEF Deeper, Plain
<1>8. QED
  BY <1>4, <1>5, <1>6, <1>7

LEMMA WaitDepth ==
    ASSUME TInv, Depth,
           \/ WaitAll \/ Jobs \/ (\E p \in Pid : WaitFor(p)) \/ JobsWalk
           \/ WaitDone \/ WaitReap \/ WaitReaped \/ WaitEnd \/ WaitReturn \/ WaitCleanup
    PROVE  Deeper
<1>1. Top \in Frame /\ Good(job)
  BY TopIs
<1>2. \A f \in WaitFrame : f \in Plain
  BY PlainIs DEF WaitFrame, Frame
<1>3. ASSUME Idle, NEW f \in Plain
      PROVE  /\ Nested(Call(At("post"), f), Apt, Calls)
             /\ \A g \in Plain : Nested(Append(Call(At("post"), f), g), Apt, Calls)
  <2> DEFINE P == At("post")
  <2>1. P \in Frame /\ P.fn = Top.fn /\ Top.fn \in {"main", "trap", "sub"}
    BY <1>1, <1>3, CommandIs DEF Idle
  <2> HIDE DEF P
  <2>2. P \in Plain /\ Top \notin Async
    BY <1>1, <2>1, PlainIs, SubsOnly, NotAsync
  <2>3. QED
    BY <1>3, <2>1, <2>2, DeepIs DEF Plain, P
<1>4. Unlock \in Plain
  BY PlainFrames
<1>5. CASE WaitAll \/ Jobs
  <2> DEFINE w == Wait(0, 0, "loop", FALSE)
             v == Wait(0, 0, "walk", FALSE)
             g == Reap(TRUE, FALSE)
  <2>1. Idle /\ stack' \in {Call(At("post"), w), Call(At("post"), v), Append(Call(At("post"), v), g)}
    BY <1>5 DEF WaitAll, Jobs
  <2>2. w \in Plain /\ v \in Plain
    <3>1. w \in Frame /\ v \in Frame
      BY WalkFrames
    <3>2. w.fn = "wait" /\ v.fn = "wait"
      BY DEF Wait
    <3> HIDE DEF w, v
    <3>3. QED
      BY <3>1, <3>2, PlainIs
  <2>3. g \in Plain
    <3>1. TRUE \in BOOLEAN
      OBVIOUS
    <3>2. QED
      BY <3>1, PlainFrames, Zenon
  <2> HIDE DEF w, v, g
  <2>4. QED
    BY <1>3, <2>1, <2>2, <2>3 DEF Deeper
<1>6. CASE \E p \in Pid : WaitFor(p)
  <2>1. PICK p \in Pid : WaitFor(p)
    BY <1>6
  <2> DEFINE s == job_bypid(job, p)
             x == SavedStatus(job, p)
             o == Owed(p)
             w == Wait(p, s, "loop", o)
             y == IF x < 0 THEN NotFound ELSE x
             P == At("post")
  <2>2. Idle /\ (\/ stack' = Append(Call(P, Refused(w, y)), Unlock)
                 \/ stack' = Call(P, w)
                 \/ stack' = Append(Call(P, Refused(w, NotFound)), Unlock))
    <3>1. Idle
      BY <2>1 DEF WaitFor
    <3>2. CASE s = 0
      BY <2>1, <3>1, <3>2 DEF WaitFor, Refused
    <3>3. CASE s # 0
      BY <2>1, <3>1, <3>3 DEF WaitFor, Refused
    <3>4. QED
      BY <3>2, <3>3
  <2>3. s \in Slot \cup {0}
    BY <1>1, BypidSlot
  <2>4. o \in BOOLEAN
    BY Zenon DEF Owed
  <2>5. y \in Status \cup {0, 1, NotFound} /\ NotFound \in Status \cup {0, 1, NotFound}
    <3>1. x \in Status \cup {0, -1}
      BY <1>1, SavedStatusIs
    <3> HIDE DEF x
    <3>2. QED
      BY <3>1
  <2> HIDE DEF s, o, y, x
  <2>6. w \in WaitFrame
    BY <2>3, <2>4 DEF Wait, WaitFrame
  <2> HIDE DEF w
  <2>7. \A z \in Status \cup {0, 1, NotFound} : Refused(w, z) \in WaitFrame
    BY <2>6 DEF Refused, WaitFrame
  <2>8. w \in Plain /\ Refused(w, y) \in Plain /\ Refused(w, NotFound) \in Plain
    BY <1>2, <2>5, <2>6, <2>7
  <2>9. QED
    BY <1>3, <1>4, <2>2, <2>8 DEF Deeper
<1>7. CASE JobsWalk \/ WaitDone \/ WaitReap \/ WaitReaped \/ WaitEnd \/ WaitReturn \/ WaitCleanup
  <2>1. Top.fn = "wait"
    BY <1>7 DEF JobsWalk, WaitDone, WaitReap, WaitReaped, WaitEnd, WaitReturn, WaitCleanup
  <2>2. Top \in WaitFrame /\ Top \notin Async
    BY <1>1, <2>1, Kinds, NotAsync
  <2>3. ASSUME NEW c \in {"walk", "loop", "reaped", "end", "cleanup", "return"},
               NEW x \in Status \cup {0, 1, NotFound}
        PROVE  At(c) \in Plain /\ [Top EXCEPT !.pc = "end", !.exitval = x] \in Plain
    <3>1. At(c) \in WaitFrame /\ [Top EXCEPT !.pc = "end", !.exitval = x] \in WaitFrame
      BY <2>2 DEF At, WaitFrame
    <3>2. QED
      BY <1>2, <3>1
  <2>4. CASE JobsWalk \/ WaitReaped \/ WaitEnd \/ WaitReturn \/ WaitCleanup
    <3> DEFINE f == At("cleanup")
               g == At("return")
               h == At("loop")
               y == IF Top.intr /\ sh.trapnote THEN 1 ELSE Top.exitval
               k == [Top EXCEPT !.pc = "end", !.exitval = y]
    <3>1. stack' \in {Call(f, Unlock), Call(g, Unlock), Continue(g), Continue(h), Continue(k), Caller}
      BY <2>4 DEF JobsWalk, WaitReaped, WaitEnd, WaitReturn, WaitCleanup, WaitEnds
    <3>2. y \in Status \cup {0, 1, NotFound}
      BY <2>2 DEF WaitFrame
    <3> HIDE DEF y
    <3>3. f \in Plain /\ g \in Plain /\ h \in Plain /\ k \in Plain
      BY <2>3, <3>2
    <3> HIDE DEF f, g, h, k
    <3>4. QED
      BY <1>4, <2>1, <2>2, <3>1, <3>3, DeepIs DEF Deeper, Plain
  <2>5. CASE WaitDone
    <3> DEFINE y == IF Top.intr /\ sh.trapnote THEN 1 ELSE job.rec[Top.pw].exit
               k == [Top EXCEPT !.pc = "end", !.exitval = y]
    <3>1. stack' = Continue(k) /\ Top.pw # 0
      BY <2>5 DEF WaitDone, WaitEnds, Reported
    <3>2. y \in Status \cup {0, 1, NotFound}
      <4>1. Top.pw \in Slot
        BY <2>2, <3>1 DEF WaitFrame
      <4>2. job.rec[Top.pw] \in Process
        BY <1>1, <4>1 DEF Good, Job
      <4>3. QED
        BY <4>2 DEF Process
    <3> HIDE DEF y
    <3>3. k \in Plain
      BY <2>3, <3>2
    <3> HIDE DEF k
    <3>4. QED
      BY <2>2, <3>1, <3>3, DeepIs DEF Deeper, Plain
  <2>6. CASE WaitReap
    <3> DEFINE f == At("reaped")
               g == Reap(job.savesig, FALSE)
    <3>1. stack' = Call(f, g)
      BY <2>6 DEF WaitReap
    <3>2. g \in Plain
      <4>1. job.savesig \in BOOLEAN
        BY <1>1 DEF Good, Job
      <4>2. QED
        BY <4>1, PlainFrames
    <3>3. f \in Plain
      <4>1. 1 \in Status \cup {0, 1, NotFound}
        OBVIOUS
      <4>2. QED
        BY <2>3, <4>1
    <3> HIDE DEF f, g
    <3>4. QED
      BY <2>1, <2>2, <3>1, <3>2, <3>3, DeepIs DEF Deeper, Plain
  <2>7. QED
    BY <1>7, <2>4, <2>5, <2>6
<1>8. QED
  BY <1>5, <1>6, <1>7

LEMMA SubDepth ==
    ASSUME TInv, Depth, EnterSub \/ LeaveSub \/ SubReset \/ SubLeft
    PROVE  Deeper
<1>1. Top \in Frame
  BY TopIs
<1>2. Unlock \in Plain
  BY PlainFrames
<1>3. CASE EnterSub
  <2> DEFINE f == At("post")
             g == Sub(sh.curenv)
  <2>1. Idle /\ stack' = Append(Call(f, g), Unlock) /\ "subshell" \in Ops
    BY <1>3 DEF EnterSub
  <2>2. g \in Frame /\ g.fn = "sub"
    BY DEF Sub, SubFrame, Frame, TInv, Typed, Shell
  <2>3. f \in Frame /\ f.fn = Top.fn /\ Top.fn \in {"main", "trap", "sub"}
    BY <1>1, <2>1, CommandIs DEF Idle
  <2> HIDE DEF f, g
  <2>4. f \in Plain /\ g \in Plain /\ Top \notin Async
    BY <1>1, <2>1, <2>2, <2>3, PlainIs, NotAsync
  <2>5. QED
    BY <1>2, <2>1, <2>3, <2>4, DeepIs DEF Deeper, Plain
<1>4. CASE LeaveSub \/ SubReset \/ SubLeft
  <2>1. Top.fn = "sub"
    BY <1>4 DEF LeaveSub, SubReset, SubLeft
  <2> DEFINE f == At("leave")
             g == At("idle")
  <2>2. stack' \in {Call(f, Unlock), Continue(g), Caller}
    BY <1>4 DEF LeaveSub, SubReset, SubLeft
  <2>3. f \in Frame /\ f.fn = "sub" /\ g \in Frame /\ g.fn = "sub"
    BY <1>1, <2>1, AtSub
  <2> HIDE DEF f, g
  <2>4. f \in Plain /\ g \in Plain /\ Top \notin Async
    BY <1>1, <2>1, <2>3, PlainIs, SubsOnly, NotAsync
  <2>5. QED
    BY <1>2, <2>1, <2>2, <2>4, DeepIs DEF Deeper, Plain
<1>5. QED
  BY <1>3, <1>4

(* Nothing but a fork makes an activation unfit. *)
Constant ==
    /\ \A p \in Pid : kernel'[p].st # "free" => kernel[p].st # "free"
    /\ \A p \in Pid : child'[p].bg <=> child[p].bg
LEMMA FitStays ==
    ASSUME TInv, Deeper, Constant
    PROVE  Depth'
<1>1. ASSUME NEW f \in Apt
      PROVE  f \in Apt'
  BY <1>1 DEF Apt, Constant
<1>2. QED
  BY <1>1 DEF Deeper, Depth, Nested


(* A child starts: no activation but the one that forked knows its process ID,
   or it would be taken for that child. *)
LEMMA StartDepth ==
    ASSUME TInv, Depth, NEW p \in Pid, NEW bg \in BOOLEAN, Started(p, bg),
           Top.fn = "fork", Top.pc \in {"jobmax", "assign", "assigned"},
           Top.pc = "jobmax" <=> bg
    PROVE  /\ Nested(Continue(ForkedAs(p)), Apt', Calls)
           /\ ~bg => Nested(Call(ForkedAs(p), Unlock), Apt', Calls)
<1> DEFINE f == ForkedAs(p)
           s == Continue(f)
<1>1. Top \in Frame /\ Founded(stack) /\ Top \in ForkFrame /\ Top \in Apt
  BY TopIs, Kinds, DeepIs
<1>2. /\ f \in ForkFrame /\ f \in Frame /\ f.fn = "fork" /\ f.pc = "forked" /\ f.pid = p
      /\ f.bg = Top.bg
  BY <1>1 DEF ForkedAs, ForkFrame, Frame
<1>3. Top.bg <=> bg
  BY <1>1 DEF Apt, Kindly
<1>4. kernel \in [Pid -> Kernel] /\ child \in [Pid -> Child]
  BY DEF TInv, Typed
<1>5. PICK o \in BOOLEAN :
         child' = [child EXCEPT ![p] = [status |-> -1, bg |-> bg, traps |-> 0, owed |-> o]]
  BY DEF Started
<1>6. child'[p].bg = bg
  BY <1>4, <1>5
<1>7. \A q \in Pid : q # p => child'[q] = child[q] /\ kernel'[q] = kernel[q]
  BY <1>4, <1>5 DEF Started
<1>8. ASSUME NEW g \in Apt, g \notin Pending(p)
      PROVE  g \in Apt'
  <2>1. CASE g.fn = "fork" /\ g.pc = "forked" /\ g.pid \in Pid
    <3>1. g \in ForkFrame
      BY <2>1, Kinds DEF Apt
    <3>2. g.pid # p
      BY <1>8, <2>1, <3>1 DEF Pending
    <3>3. QED
      BY <1>7, <2>1, <3>2 DEF Apt, Kindly
  <2>2. CASE ~(g.fn = "fork" /\ g.pc = "forked" /\ g.pid \in Pid)
    BY <2>2 DEF Apt, Kindly
  <2>3. QED
    BY <2>1, <2>2
<1>9. \A i \in 1..Len(stack) : stack[i] \notin Pending(p)
  <2>1. SUFFICES ASSUME NEW i \in 1..Len(stack), stack[i] \in Pending(p)
                 PROVE  FALSE
    OBVIOUS
  <2>2. Number(stack, Pending(p)) = 0 /\ Len(stack) \in Nat
    BY <1>1 DEF Started, Founded
  <2>3. IsFiniteSet({k \in 1..Len(stack) : stack[k] \in Pending(p)})
    <3>1. IsFiniteSet(1..Len(stack))
      BY <2>2, FS_Interval
    <3>2. {k \in 1..Len(stack) : stack[k] \in Pending(p)} \subseteq 1..Len(stack)
      OBVIOUS
    <3>3. QED
      BY <3>1, <3>2, FS_Subset
  <2>4. {k \in 1..Len(stack) : stack[k] \in Pending(p)} = {}
    BY <2>2, <2>3, FS_EmptySet DEF Number
  <2>5. QED
    BY <2>1, <2>4
<1>10. Nested(stack, Apt', Calls)
  BY <1>8, <1>9 DEF Depth, Nested
<1>11. f \in Apt'
  <2>1. child'[f.pid].bg <=> f.bg
    BY <1>2, <1>3, <1>6
  <2>2. Kindly(f)
    BY <1>2 DEF Kindly
  <2> HIDE DEF f
  <2>3. QED
    BY <1>2, <2>1, <2>2 DEF Apt
<1>12. Apt' \subseteq Frame
  BY DEF Apt
<1> HIDE DEF f
<1>13. \A g \in Apt' : <<g, Top>> \in Calls => <<g, f>> \in Calls
  <2>1. SUFFICES ASSUME NEW g \in Apt', <<g, Top>> \in Calls
                 PROVE  <<g, f>> \in Calls
    OBVIOUS
  <2>2. Top \notin Async
    BY <1>1, NotAsync
  <2>3. g \notin Async /\ g \notin PendBg
    BY <1>1, <1>12, <2>1, <2>2, CallsIs
  <2>4. QED
    BY <1>2, <1>12, <2>3, CallsIs
<1>14. Nested(s, Apt', Calls)
  BY <1>1, <1>10, <1>11, <1>13, NestedContinue
<1>15. ASSUME ~bg
       PROVE  Nested(Call(f, Unlock), Apt', Calls)
  <2>1. f \notin Async /\ f \notin PendBg
    BY <1>2, <1>3, <1>15 DEF Async, ReapFrame, PendBg
  <2>2. Unlock \in Frame /\ Unlock.fn = "unlock"
    BY DEF Unlock, UnlockFrame, Frame
  <2>3. Unlock \in Apt' /\ <<f, Unlock>> \in Calls
    BY <1>2, <2>1, <2>2, CallsIs DEF Apt
  <2>4. QED
    BY <1>1, <1>2, <1>10, <1>11, <1>12, <1>13, <2>3, NestedCall
<1>16. QED
  BY <1>14, <1>15 DEF f

LEMMA StartsDepth ==
    ASSUME TInv, Depth, Fork_bg \/ Fork_fg
    PROVE  Depth'
<1>1. ASSUME NEW p \in Pid
      PROVE  \A bg \in BOOLEAN :
               /\ Start(p, bg) /\ Top.fn = "fork" /\ Top.pc \in {"jobmax", "assign", "assigned"}
               /\ Top.pc = "jobmax" <=> bg
               /\ stack' \in {Continue(ForkedAs(p)), Call(ForkedAs(p), Unlock)}
               /\ job' = [job_lock(job) EXCEPT !.evicted = @ \ {p}]
               /\ UNCHANGED <<sh, sigchld, spawned>>
               => /\ Nested(Continue(ForkedAs(p)), Apt', Calls)
                  /\ ~bg => Nested(Call(ForkedAs(p), Unlock), Apt', Calls)
  BY StartTypes, StartDepth
<1>2. TRUE \in BOOLEAN /\ FALSE \in BOOLEAN
  OBVIOUS
<1>3. CASE Fork_bg
  <2>1. PICK p \in Pid : /\ Start(p, TRUE) /\ stack' = Continue(ForkedAs(p))
                         /\ job' = [job_lock(job) EXCEPT !.evicted = @ \ {p}]
    BY <1>3 DEF Fork_bg, ForkedAs
  <2>2. /\ Top.fn = "fork" /\ Top.pc \in {"jobmax", "assign", "assigned"} /\ Top.pc = "jobmax"
        /\ stack' \in {Continue(ForkedAs(p)), Call(ForkedAs(p), Unlock)}
        /\ UNCHANGED <<sh, sigchld, spawned>>
    BY <1>3, <2>1 DEF Fork_bg
  <2>3. Nested(stack', Apt', Calls)
    BY <1>1, <1>2, <2>1, <2>2, Zenon
  <2>4. QED
    BY <2>3 DEF Depth
<1>4. CASE Fork_fg
  <2>1. PICK p \in Pid : /\ Start(p, FALSE) /\ stack' = Call(ForkedAs(p), Unlock)
                         /\ job' = [job_lock(job) EXCEPT !.evicted = @ \ {p}]
    BY <1>4 DEF Fork_fg, ForkedAs
  <2>2. /\ Top.fn = "fork" /\ Top.pc \in {"jobmax", "assign", "assigned"} /\ ~(Top.pc = "jobmax")
        /\ stack' \in {Continue(ForkedAs(p)), Call(ForkedAs(p), Unlock)}
        /\ UNCHANGED <<sh, sigchld, spawned>>
    BY <1>4, <2>1 DEF Fork_fg
  <2>3. Nested(stack', Apt', Calls)
    BY <1>1, <1>2, <2>1, <2>2, Zenon
  <2>4. QED
    BY <2>3 DEF Depth
<1>5. QED
  BY <1>3, <1>4

LEMMA ConstantIs ==
    ASSUME (kernel' = kernel /\ child' = child) \/ Calm
    PROVE  Constant
  BY DEF Constant, Calm

(* Every step keeps the order of the activations. *)
LEMMA NextDepth ==
    ASSUME TInv, Depth, [Next]_vars
    PROVE  Depth'
<1>1. kernel \in [Pid -> Kernel] /\ child \in [Pid -> Child]
  BY DEF TInv, Typed
<1>2. CASE Step
  <2>1. CASE ReapOne \/ ReapNotice \/ ReapEnd
    <3>1. Deeper
      BY <2>1, ReapDepth
    <3>2. Constant
      <4>1. CASE ReapOne
        <5>1. PICK p \in Pid : kernel[p].st = "zombie" /\ kernel' = [kernel EXCEPT ![p] = [st |-> "free"]]
          BY <4>1, ReapOneTypes
        <5>2. child' = child
          BY <4>1 DEF ReapOne
        <5>3. QED
          BY <1>1, <5>1, <5>2 DEF Constant
      <4>2. CASE ReapNotice
        BY <4>2, ReapNoticeTypes, ConstantIs
      <4>3. CASE ReapEnd
        BY <4>3, ReapEndTypes, ConstantIs
      <4>4. QED
        BY <2>1, <4>1, <4>2, <4>3
    <3>3. QED
      BY <3>1, <3>2, FitStays
  <2>2. CASE UnlockTest \/ UnlockLeave
    BY <2>2, UnlockDepth, UnlockTestTypes, UnlockLeaveTypes, ConstantIs, FitStays
  <2>3. CASE ChldtrapStart \/ ChldtrapScan \/ ChldtrapHandled \/ ChldtrapEnd
    <3>1. Deeper
      BY <2>3, ChldtrapDepth
    <3>2. Constant
      <4>1. CASE ChldtrapScan
        <5>1. Calm \/ \E p \in Pid : Taken(p) /\ kernel' = kernel
          BY <4>1, ChldtrapScanTypes
        <5>2. ASSUME NEW p \in Pid, Taken(p), kernel' = kernel
              PROVE  Constant
          <6> DEFINE n == IF sh.trapcom THEN child[p].traps + 1 ELSE child[p].traps
          <6>1. child' = [child EXCEPT ![p].traps = n]
            BY <5>2 DEF Taken
          <6> HIDE DEF n
          <6>2. \A q \in Pid : child'[q].bg = child[q].bg
            BY <1>1, <6>1 DEF Child
          <6>3. QED
            BY <5>2, <6>2 DEF Constant
        <5>3. QED
          BY <5>1, <5>2, ConstantIs
      <4>2. CASE ChldtrapStart \/ ChldtrapHandled \/ ChldtrapEnd
        BY <4>2, ChldtrapStartTypes, ChldtrapHandledTypes, ChldtrapEndTypes, ConstantIs
      <4>3. QED
        BY <2>3, <4>1, <4>2
    <3>3. QED
      BY <3>1, <3>2, FitStays
  <2>4. CASE Builtin \/ Chktrap \/ HandlerEnd \/ HandlerError \/ TrapChld \/ StartFork
    BY <2>4, CommandDepth, CommandTypes, HandlerEndTypes, StartForkTypes, ConstantIs, FitStays
  <2>5. CASE JobmaxWait \/ JobmaxWaited \/ Ntfork \/ NtforkError \/ ForkEnd \/ ForkDone \/ WaitForeground
    BY <2>5, ForkDepth, ForkWaitTypes, ForkEndTypes, WaitForegroundTypes, ConstantIs, FitStays
  <2>6. CASE ForkPost
    BY <2>6, ForkDepth, ForkPostTypes, ConstantIs, FitStays
  <2>7. CASE Fork_bg \/ Fork_fg
    BY <2>7, StartsDepth
  <2>8. CASE \/ WaitAll \/ Jobs \/ (\E p \in Pid : WaitFor(p)) \/ JobsWalk
             \/ WaitDone \/ WaitReap \/ WaitReaped \/ WaitEnd \/ WaitCleanup
    BY <2>8, WaitDepth, WaitAllTypes, WaitForTypes, JobsWalkTypes, WaitDoneTypes, WaitReapTypes,
       WaitReapedTypes, WaitCleanupTypes, ConstantIs, FitStays
  <2>9. CASE WaitReturn
    <3>1. Deeper
      BY <2>9, WaitDepth
    <3>2. Constant
      BY <2>9, WaitReturnTypes DEF Constant
    <3>3. QED
      BY <3>1, <3>2, FitStays
  <2>10. CASE EnterSub \/ SubReset \/ LeaveSub \/ SubLeft
    BY <2>10, SubDepth, EnterSubTypes, SubResetTypes, LeaveSubTypes, SubLeftTypes, ConstantIs, FitStays
  <2>11. QED
    BY <1>2, <2>1, <2>2, <2>3, <2>4, <2>5, <2>6, <2>7, <2>8, <2>9, <2>10 DEF Step
<1>3. CASE SigChld
  BY <1>3, ReapDepth, SigChldTypes, ConstantIs, FitStays
<1>4. CASE \E p \in Pid : ChildExit(p)
  <2>1. PICK p \in Pid : ChildExit(p)
    BY <1>4
  <2>2. PICK x \in Status : /\ kernel' = [kernel EXCEPT ![p] = [st |-> "zombie", status |-> x]]
                            /\ child' = [child EXCEPT ![p].status = x]
    BY <2>1 DEF ChildExit
  <2>3. kernel[p].st = "run" /\ stack' = stack
    BY <2>1 DEF ChildExit
  <2>4. Constant
    BY <1>1, <2>2, <2>3 DEF Constant, Child
  <2>5. QED
    BY <2>3, <2>4, FitStays DEF Deeper, Depth
<1>5. CASE UNCHANGED vars
  <2>1. Constant /\ Deeper
    BY <1>5, ConstantIs DEF vars, Deeper, Depth
  <2>2. QED
    BY <2>1, FitStays
<1>6. QED
  BY <1>2, <1>3, <1>4, <1>5 DEF Next

LEMMA InitDepth == Init => Depth
<1> SUFFICES ASSUME Init PROVE Depth
  OBVIOUS
<1>1. stack = <<Main>> /\ Len(stack) = 1 /\ stack[1] = Main
  BY DEF Init
<1>2. Main \in Frame /\ Main.fn = "main"
  BY DEF Main, BaseFrame, Frame
<1>3. Main \in Apt
  BY <1>2, PlainIs DEF Plain
<1>4. QED
  BY <1>1, <1>3 DEF Depth, Nested


-------------------------------------------------------------------------------
(* Children and the table.  Counted are the background children that the table
   counts; Late is the one that has started and is not yet in it. *)
BgRun ==
    \A s \in Slot : "BG" \in job.rec[s].flag /\ kernel[job.rec[s].pid].st # "free"
                       => child[job.rec[s].pid].bg
Living == {p \in Pid : kernel[p].st # "free"}
Counted == {p \in Living : child[p].bg /\ Number(stack, Pending(p)) = 0}
Late == {p \in Living : child[p].bg /\ Number(stack, Pending(p)) # 0}
WithinJobmax ==
    JOBMAX > 0 => /\ Cardinality(Counted) <= JOBMAX
                  /\ Late # {} => Cardinality(Counted) < JOBMAX
Limited ==
    BgRun /\ IsFiniteSet(Living) /\ Cardinality(Counted) <= job.numbjob /\ WithinJobmax


LEMMA LateOnce ==
    ASSUME TInv, Depth, NEW p \in Late, NEW q \in Late
    PROVE  p = q
<1> DEFINE n == Len(stack)
<1>1. n \in Nat /\ Founded(stack)
  BY TopIs DEF Founded
<1>2. ASSUME NEW r \in Late
      PROVE  \E i \in 1..n : stack[i] \in PendBg /\ stack[i].pid = r
  <2>1. \E i \in 1..n : stack[i] \in Pending(r)
    <3>1. SUFFICES ASSUME \A i \in 1..n : stack[i] \notin Pending(r)
                   PROVE  FALSE
      OBVIOUS
    <3>2. Number(stack, Pending(r)) = 0
      BY <1>1, <3>1, NoneCount DEF Founded
    <3>3. QED
      BY <1>2, <3>2 DEF Late
  <2>2. PICK i \in 1..n : stack[i] \in Pending(r)
    BY <2>1
  <2>3. stack[i] \in Apt /\ r \in Pid /\ kernel[r].st # "free" /\ child[r].bg
    BY <1>2 DEF Depth, Nested, Late, Living
  <2>4. stack[i] \in ForkFrame /\ stack[i].fn = "fork" /\ stack[i].pc = "forked" /\ stack[i].pid = r
    BY <2>2 DEF Pending, ForkFrame
  <2>5. stack[i].bg
    BY <2>3, <2>4 DEF Apt
  <2>6. QED
    BY <2>4, <2>5 DEF PendBg
<1>3. PICK i \in 1..n : stack[i] \in PendBg /\ stack[i].pid = p
  BY <1>2
<1>4. PICK k \in 1..n : stack[k] \in PendBg /\ stack[k].pid = q
  BY <1>2
<1>5. ASSUME NEW a \in 1..n, NEW b \in 1..n, stack[a] \in PendBg, stack[b] \in PendBg
      PROVE  ~(a < b)
  <2>1. SUFFICES ASSUME a < b PROVE FALSE
    OBVIOUS
  <2>2. a \in 1..n - 1
    BY <1>1, <2>1
  <2>3. <<stack[a], stack[a + 1]>> \in Calls
    BY <2>2 DEF Depth, Nested
  <2>4. stack[a + 1] \in Async
    BY <1>5, <2>3 DEF Calls
  <2>5. a + 1 # b
    BY <1>5, <2>4 DEF Async, PendBg, ReapFrame, ForkFrame
  <2>6. a + 1 \in 1..n - 1
    BY <1>1, <2>1, <2>5
  <2>7. <<stack[a + 1], stack[a + 1 + 1]>> \in Calls
    BY <2>6 DEF Depth, Nested
  <2>8. QED
    BY <2>4, <2>7 DEF Calls
<1>6. i = k
  <2>1. ~(i < k) /\ ~(k < i)
    BY <1>3, <1>4, <1>5
  <2>2. QED
    BY <1>1, <2>1
<1>7. QED
  BY <1>3, <1>4, <1>6

LEMMA CountedIs ==
    ASSUME IsFiniteSet(Living)
    PROVE  /\ IsFiniteSet(Counted) /\ Cardinality(Counted) \in Nat
           /\ Counted \subseteq Living /\ Late \subseteq Living
<1>1. Counted \in SUBSET Living /\ Late \subseteq Living
  BY DEF Counted, Late
<1>2. QED
  BY <1>1, FS_Subset, FS_CardinalityType

LEMMA JobmaxIs == JOBMAX \in Nat
  BY LimitAssumption

LEMMA NumbjobIs ==
    ASSUME TInv
    PROVE  job.numbjob \in Int
  BY TopIs DEF Job

(* The table does not gain a background job, and no child starts, is reaped
   or is posted. *)
Frozen ==
    /\ Lean(job, job') /\ job'.numbjob = job.numbjob
    /\ \A p \in Pid : /\ Number(stack', Pending(p)) = Number(stack, Pending(p))
                      /\ kernel'[p].st = "free" <=> kernel[p].st = "free"
                      /\ child'[p].bg <=> child[p].bg

LEMMA BgRunStays ==
    ASSUME TInv, TInv', BgRun, Lean(job, job'), Constant
    PROVE  BgRun'
<1> SUFFICES ASSUME NEW s \in Slot, "BG" \in job'.rec[s].flag, kernel'[job'.rec[s].pid].st # "free"
             PROVE  child'[job'.rec[s].pid].bg
  BY DEF BgRun
<1>1. "BG" \in job.rec[s].flag /\ job'.rec[s].pid = job.rec[s].pid
  BY DEF Lean
<1>2. job.rec[s].pid \in Pid
  BY <1>1, TopIs, InTable
<1>3. kernel[job.rec[s].pid].st # "free"
  BY <1>1, <1>2 DEF Constant
<1>4. child[job.rec[s].pid].bg
  BY <1>1, <1>3 DEF BgRun
<1>5. QED
  BY <1>1, <1>2, <1>4 DEF Constant

LEMMA FrozenStep ==
    ASSUME TInv, TInv', Limited, Frozen
    PROVE  Limited'
<1>1. Living' = Living /\ Counted' = Counted /\ Late' = Late
  <2>1. Living' = Living
    BY DEF Living, Frozen
  <2>2. Living \subseteq Pid
    BY DEF Living
  <2>3. Counted' = Counted
    BY <2>1, <2>2 DEF Counted, Frozen
  <2>4. Late' = Late
    BY <2>1, <2>2 DEF Late, Frozen
  <2>5. QED
    BY <2>1, <2>3, <2>4
<1>2. BgRun'
  <2>1. Constant
    BY DEF Frozen, Constant
  <2>2. QED
    BY <2>1, BgRunStays DEF Limited, Frozen
<1>3. QED
  BY <1>1, <1>2 DEF Limited, WithinJobmax, Frozen

LEMMA CalmFrozen ==
    ASSUME Calm \/ (Lean(job, job') /\ job'.numbjob = job.numbjob /\ kernel' = kernel /\ child' = child
                      /\ \A p \in Pid : Number(stack', Pending(p)) = Number(stack, Pending(p)))
    PROVE  Frozen
  BY DEF Calm, Frozen

(* A child is reaped. *)
LEMMA ReapOneLimits ==
    ASSUME TInv, Depth, Limited, ReapOne
    PROVE  Limited'
<1>1. PICK p \in Pid : \E a :
         /\ kernel[p].st = "zombie" /\ kernel' = [kernel EXCEPT ![p] = [st |-> "free"]]
         /\ RecordEndAs(job, a, p) /\ Mild(a, job')
  BY ReapOneTypes
<1>2. PICK a : /\ kernel[p].st = "zombie" /\ kernel' = [kernel EXCEPT ![p] = [st |-> "free"]]
               /\ RecordEndAs(job, a, p) /\ Mild(a, job')
  BY <1>1
<1>3. TInv' /\ child' = child /\ \A q \in Pid : Number(stack', Pending(q)) = Number(stack, Pending(q))
  BY ReapOneTypes DEF ReapOne
<1>4. kernel \in [Pid -> Kernel] /\ Good(job) /\ job.numbjob \in Int
  BY TopIs, NumbjobIs DEF TInv, Typed
<1>5. \A q \in Pid : kernel'[q].st = "free" <=> q = p \/ kernel[q].st = "free"
  BY <1>2, <1>4
<1>6. Living' = Living \ {p} /\ Counted' = Counted \ {p} /\ Late' = Late \ {p}
  <2>1. Living' = Living \ {p}
    BY <1>5 DEF Living
  <2>2. Living \subseteq Pid
    BY DEF Living
  <2>3. Counted' = Counted \ {p}
    BY <1>3, <2>1, <2>2 DEF Counted
  <2>4. Late' = Late \ {p}
    BY <1>3, <2>1, <2>2 DEF Late
  <2>5. QED
    BY <2>1, <2>3, <2>4
<1>7. BgRun'
  <2>1. Lean(job, job')
    BY <1>2 DEF RecordEndAs, Mild, Lean
  <2>2. Constant
    BY <1>3, <1>5 DEF Constant
  <2>3. QED
    BY <1>3, <2>1, <2>2, BgRunStays DEF Limited
<1>8. IsFiniteSet(Living) /\ IsFiniteSet(Counted) /\ Cardinality(Counted) \in Nat
  BY CountedIs DEF Limited
<1>9. IsFiniteSet(Living')
  BY <1>6, <1>8, FS_RemoveElement
<1>10. Background(job, p) => p \in Counted
  <2>1. SUFFICES ASSUME Background(job, p) PROVE p \in Counted
    OBVIOUS
  <2> DEFINE s == job_bypid(job, p)
  <2>2. s \in Slot /\ "BG" \in job.rec[s].flag /\ job.rec[s].pid = p
    BY <1>4, <2>1, BypidSlot DEF Background, Flag
  <2> HIDE DEF s
  <2>3. p \in Living /\ child[p].bg
    BY <1>2, <2>2 DEF Limited, BgRun, Living
  <2>4. Number(stack, Pending(p)) = 0
    BY <2>2 DEF TInv, Pends, NoBg
  <2>5. QED
    BY <2>3, <2>4 DEF Counted
<1>11. /\ Cardinality(Counted') \in Nat
       /\ Cardinality(Counted') = IF p \in Counted THEN Cardinality(Counted) - 1 ELSE Cardinality(Counted)
  BY <1>6, <1>8, FS_RemoveElement, FS_CardinalityType
<1>12. job'.numbjob = IF Background(job, p) THEN job.numbjob - 1 ELSE job.numbjob
  BY <1>2 DEF RecordEndAs, Mild
<1>13. Cardinality(Counted') <= job'.numbjob
  BY <1>4, <1>8, <1>10, <1>11, <1>12 DEF Limited
<1>14. WithinJobmax'
  <2>1. Cardinality(Counted') <= Cardinality(Counted)
    BY <1>8, <1>11
  <2>2. Late' # {} => Late # {}
    BY <1>6
  <2>3. QED
    BY <1>8, <1>11, <2>1, <2>2, JobmaxIs DEF Limited, WithinJobmax
<1>15. QED
  BY <1>7, <1>9, <1>13, <1>14 DEF Limited

LEMMA ReapEndLimits ==
    ASSUME TInv, Limited, ReapEnd
    PROVE  Limited'
<1>1. /\ TInv' /\ Lean(job, job') /\ kernel' = kernel /\ child' = child
      /\ \A p \in Pid : Number(stack', Pending(p)) = Number(stack, Pending(p))
      /\ job'.numbjob = IF NoChild THEN 0 ELSE job.numbjob
  BY ReapEndTypes
<1>2. CASE ~NoChild
  <2>1. Frozen
    BY <1>1, <1>2, CalmFrozen
  <2>2. QED
    BY <1>1, <2>1, FrozenStep
<1>3. CASE NoChild
  <2>1. Living' = {} /\ Counted' = {} /\ Late' = {}
    BY <1>1, <1>3 DEF NoChild, Living, Counted, Late
  <2>2. IsFiniteSet({}) /\ Cardinality({}) = 0
    BY FS_EmptySet
  <2>3. BgRun'
    BY <1>1, BgRunStays, ConstantIs DEF Limited
  <2>4. WithinJobmax'
    BY <2>1, <2>2, JobmaxIs DEF WithinJobmax
  <2>5. QED
    BY <1>1, <1>3, <2>1, <2>2, <2>3, <2>4 DEF Limited
<1>4. QED
  BY <1>2, <1>3

(* A child starts; for a background job there is room. *)
LEMMA StartLimits ==
    ASSUME TInv, TInv', Depth, Limited, NEW p \in Pid, NEW bg \in BOOLEAN, Started(p, bg),
           bg => ~Full
    PROVE  Limited'
<1>1. kernel \in [Pid -> Kernel] /\ child \in [Pid -> Child] /\ Good(job) /\ job.numbjob \in Int
  BY TopIs, NumbjobIs DEF TInv, Typed
<1>2. PICK o \in BOOLEAN :
         child' = [child EXCEPT ![p] = [status |-> -1, bg |-> bg, traps |-> 0, owed |-> o]]
  BY DEF Started
<1>3. /\ \A q \in Pid : q # p => child'[q] = child[q] /\ kernel'[q] = kernel[q]
      /\ child'[p].bg = bg /\ kernel'[p].st # "free" /\ kernel[p].st = "free"
  BY <1>1, <1>2 DEF Started
<1>4. /\ \A q \in Pid : q # p => Number(stack', Pending(q)) = Number(stack, Pending(q))
      /\ Number(stack', Pending(p)) # 0
  BY DEF Started
<1>5. Living' = Living \cup {p} /\ p \notin Living
  BY <1>3 DEF Living
<1>6. Counted' = Counted
  <2>1. \A q \in Pid : q \in Counted' <=> q \in Counted
    BY <1>3, <1>4, <1>5 DEF Counted
  <2>2. Counted \subseteq Pid /\ Counted' \subseteq Pid
    BY <1>5 DEF Counted, Living
  <2>3. QED
    BY <2>1, <2>2
<1>7. ~bg => Late' = Late
  <2>1. SUFFICES ASSUME ~bg PROVE Late' = Late
    OBVIOUS
  <2>2. \A q \in Pid : q \in Late' <=> q \in Late
    BY <1>3, <1>4, <1>5, <2>1 DEF Late
  <2>3. Late \subseteq Pid /\ Late' \subseteq Pid
    BY <1>5 DEF Late, Living
  <2>4. QED
    BY <2>2, <2>3
<1>8. IsFiniteSet(Living') /\ Cardinality(Counted) \in Nat
  BY <1>5, CountedIs, FS_AddElement DEF Limited
<1>9. job'.numbjob = job.numbjob /\ Lean(job, job') /\ NoBg(job, p)
  BY DEF Started, Mild
<1>10. BgRun'
  <2> SUFFICES ASSUME NEW s \in Slot, "BG" \in job'.rec[s].flag, kernel'[job'.rec[s].pid].st # "free"
               PROVE  child'[job'.rec[s].pid].bg
    BY DEF BgRun
  <2>1. "BG" \in job.rec[s].flag /\ job'.rec[s].pid = job.rec[s].pid
    BY <1>9 DEF Lean
  <2>2. job.rec[s].pid \in Pid /\ job.rec[s].pid # p
    BY <1>1, <1>9, <2>1, InTable DEF NoBg
  <2>3. child[job.rec[s].pid].bg
    BY <1>3, <2>1, <2>2 DEF Limited, BgRun
  <2>4. QED
    BY <1>3, <2>1, <2>2, <2>3
<1>11. WithinJobmax'
  <2>1. CASE bg
    <3>1. JOBMAX > 0 => job.numbjob < JOBMAX
      BY <1>1, <2>1, JobmaxIs DEF Full
    <3>2. JOBMAX > 0 => Cardinality(Counted) < JOBMAX
      BY <1>1, <1>8, <3>1, JobmaxIs DEF Limited
    <3>3. QED
      BY <1>6, <1>8, <3>2, JobmaxIs DEF WithinJobmax
  <2>2. CASE ~bg
    BY <1>6, <1>7, <2>2 DEF Limited, WithinJobmax
  <2>3. QED
    BY <2>1, <2>2
<1>12. QED
  BY <1>6, <1>8, <1>9, <1>10, <1>11 DEF Limited

LEMMA StartsLimits ==
    ASSUME TInv, Depth, Limited, Fork_bg \/ Fork_fg
    PROVE  Limited'
<1>1. TInv'
  BY ForkTypes
<1>2. \A p \in Pid : \A bg \in BOOLEAN : Started(p, bg) /\ (bg => ~Full) => Limited'
  BY <1>1, StartLimits
<1>3. TRUE \in BOOLEAN /\ FALSE \in BOOLEAN
  OBVIOUS
<1>4. (Fork_bg /\ \E p \in Pid : Started(p, TRUE)) \/ (Fork_fg /\ \E p \in Pid : Started(p, FALSE))
  BY ForkTypes
<1>5. Fork_bg => ~Full
  BY DEF Fork_bg
<1>6. QED
  BY <1>2, <1>3, <1>4, <1>5, Zenon


(* The child is posted: from now on the table counts it. *)
LEMMA PostLimits ==
    ASSUME TInv, Depth, Limited, ForkPost
    PROVE  Limited'
<1> DEFINE p == Top.pid
<1>1. /\ TInv' /\ kernel' = kernel /\ child' = child /\ Top \in ForkFrame /\ p \in Pid
      /\ \E a : PostAs(job, a, p, Top.bg) /\ job' = job_lock(a)
      /\ Number(stack, Pending(p)) = 1
      /\ \A q \in Pid : Number(stack', Pending(q)) = IF q = p THEN 0 ELSE Number(stack, Pending(q))
  BY ForkPostTypes
<1>2. Top \in Apt /\ Top.fn = "fork" /\ Top.pc = "forked" /\ Top.bg \in BOOLEAN
  BY <1>1, DeepIs DEF ForkPost, ForkFrame
<1>3. kernel[p].st # "free" => (child[p].bg <=> Top.bg)
  BY <1>1, <1>2 DEF Apt
<1>4. PICK a : PostAs(job, a, p, Top.bg) /\ job' = job_lock(a)
  BY <1>1
<1> HIDE DEF p
<1>5. /\ job'.rec = a.rec /\ job'.numbjob = IF Top.bg THEN job.numbjob + 1 ELSE job.numbjob
  BY <1>4, LockIs DEF PostAs, Same
<1>6. Living' = Living
  BY <1>1 DEF Living
<1>7. IsFiniteSet(Living) /\ IsFiniteSet(Counted) /\ Cardinality(Counted) \in Nat /\ job.numbjob \in Int
  BY CountedIs, NumbjobIs DEF Limited
<1>8. BgRun'
  <2> SUFFICES ASSUME NEW s \in Slot, "BG" \in job'.rec[s].flag, kernel'[job'.rec[s].pid].st # "free"
               PROVE  child'[job'.rec[s].pid].bg
    BY DEF BgRun
  <2>1. \/ Top.bg /\ job'.rec[s].pid = p
        \/ "BG" \in job.rec[s].flag /\ job'.rec[s].pid = job.rec[s].pid
    BY <1>4, <1>5 DEF PostAs
  <2>2. CASE Top.bg /\ job'.rec[s].pid = p
    BY <1>1, <1>3, <2>2
  <2>3. CASE "BG" \in job.rec[s].flag /\ job'.rec[s].pid = job.rec[s].pid
    BY <1>1, <2>3 DEF Limited, BgRun
  <2>4. QED
    BY <2>1, <2>2, <2>3
<1>9. CASE Top.bg /\ p \in Living
  <2>1. p \in Late /\ p \notin Counted
    BY <1>1, <1>3, <1>9 DEF Late, Counted, Living
  <2>2. Counted' = Counted \cup {p}
    BY <1>1, <1>6, <2>1 DEF Counted, Late, Living
  <2>3. Late' = {}
    <3>1. Late' \subseteq Late \ {p}
      BY <1>1, <1>6 DEF Late, Living
    <3>2. Late = {p}
      BY <2>1, LateOnce
    <3>3. QED
      BY <3>1, <3>2
  <2>4. Cardinality(Counted') = Cardinality(Counted) + 1
    BY <1>7, <2>1, <2>2, FS_AddElement
  <2>5. Cardinality(Counted') <= job'.numbjob
    BY <1>5, <1>7, <1>9, <2>4 DEF Limited
  <2>6. WithinJobmax'
    BY <1>7, <2>1, <2>3, <2>4, JobmaxIs DEF Limited, WithinJobmax
  <2>7. QED
    BY <1>6, <1>7, <1>8, <2>5, <2>6 DEF Limited
<1>10. CASE ~(Top.bg /\ p \in Living)
  <2>1. ~(p \in Living /\ child[p].bg)
    BY <1>3, <1>10 DEF Living
  <2>2. Counted' = Counted
    BY <1>1, <1>6, <2>1 DEF Counted, Living
  <2>3. Late' = Late
    BY <1>1, <1>6, <2>1 DEF Late, Living
  <2>4. Cardinality(Counted') <= job'.numbjob
    BY <1>2, <1>5, <1>7, <2>2 DEF Limited
  <2>5. WithinJobmax'
    BY <2>2, <2>3 DEF Limited, WithinJobmax
  <2>6. QED
    BY <1>6, <1>7, <1>8, <2>4, <2>5 DEF Limited
<1>11. QED
  BY <1>9, <1>10

LEMMA NextLimits ==
    ASSUME TInv, Depth, Limited, [Next]_vars
    PROVE  Limited'
<1>1. kernel \in [Pid -> Kernel] /\ child \in [Pid -> Child]
  BY DEF TInv, Typed
<1>2. ASSUME TInv', Calm
      PROVE  Limited'
  BY <1>2, CalmFrozen, FrozenStep
<1>3. CASE Step
  <2>1. CASE ReapOne \/ ReapEnd \/ Fork_bg \/ Fork_fg \/ ForkPost
    BY <2>1, ReapOneLimits, ReapEndLimits, StartsLimits, PostLimits
  <2>2. CASE ReapNotice \/ UnlockTest \/ UnlockLeave \/ ChldtrapStart \/ ChldtrapHandled \/ ChldtrapEnd
    BY <1>2, <2>2, ReapNoticeTypes, UnlockTestTypes, UnlockLeaveTypes, ChldtrapStartTypes,
       ChldtrapHandledTypes, ChldtrapEndTypes
  <2>3. CASE ChldtrapScan
    <3>1. TInv' /\ (Calm \/ \E p \in Pid : /\ Taken(p) /\ kernel' = kernel
                                           /\ \A q \in Pid : Number(stack', Pending(q)) = Number(stack, Pending(q)))
      BY <2>3, ChldtrapScanTypes
    <3>2. ASSUME NEW p \in Pid, Taken(p), kernel' = kernel,
                 \A q \in Pid : Number(stack', Pending(q)) = Number(stack, Pending(q))
          PROVE  Frozen
      <4> DEFINE n == IF sh.trapcom THEN child[p].traps + 1 ELSE child[p].traps
      <4>1. child' = [child EXCEPT ![p].traps = n]
        BY <3>2 DEF Taken
      <4> HIDE DEF n
      <4>2. \A q \in Pid : child'[q].bg = child[q].bg
        BY <1>1, <4>1 DEF Child
      <4>3. Mild(job, job')
        BY <3>2 DEF Taken
      <4>4. QED
        BY <3>2, <4>2, <4>3 DEF Frozen, Mild
    <3>3. QED
      BY <1>2, <3>1, <3>2, FrozenStep
  <2>4. CASE Builtin \/ Chktrap \/ HandlerEnd \/ HandlerError \/ TrapChld \/ StartFork
    BY <1>2, <2>4, CommandTypes, HandlerEndTypes, StartForkTypes
  <2>5. CASE JobmaxWait \/ JobmaxWaited \/ Ntfork \/ NtforkError \/ ForkEnd \/ ForkDone \/ WaitForeground
    BY <1>2, <2>5, ForkWaitTypes, ForkEndTypes, WaitForegroundTypes
  <2>6. CASE \/ WaitAll \/ Jobs \/ (\E p \in Pid : WaitFor(p)) \/ JobsWalk
             \/ WaitDone \/ WaitReap \/ WaitReaped \/ WaitEnd \/ WaitCleanup
    BY <1>2, <2>6, WaitAllTypes, WaitForTypes, JobsWalkTypes, WaitDoneTypes, WaitReapTypes,
       WaitReapedTypes, WaitCleanupTypes
  <2>7. CASE WaitReturn
    <3>1. /\ TInv' /\ job' = job /\ kernel' = kernel
          /\ \A p \in Pid : Number(stack', Pending(p)) = Number(stack, Pending(p))
          /\ \A p \in Pid : child'[p].bg = child[p].bg
      BY <2>7, WaitReturnTypes
    <3>2. Frozen
      BY <3>1 DEF Frozen, Lean
    <3>3. QED
      BY <3>1, <3>2, FrozenStep
  <2>8. CASE LeaveSub
    BY <2>8, LeaveSubTypes, CalmFrozen, FrozenStep
  <2>9. CASE EnterSub \/ SubReset \/ SubLeft
    BY <1>2, <2>9, EnterSubTypes, SubResetTypes, SubLeftTypes
  <2>10. QED
    BY <1>3, <2>1, <2>2, <2>3, <2>4, <2>5, <2>6, <2>7, <2>8, <2>9 DEF Step
<1>4. CASE SigChld
  BY <1>2, <1>4, SigChldTypes
<1>5. CASE \E p \in Pid : ChildExit(p)
  <2>1. PICK p \in Pid : ChildExit(p)
    BY <1>5
  <2>2. PICK x \in Status : /\ kernel' = [kernel EXCEPT ![p] = [st |-> "zombie", status |-> x]]
                            /\ child' = [child EXCEPT ![p].status = x]
    BY <2>1 DEF ChildExit
  <2>3. kernel[p].st = "run" /\ stack' = stack /\ job' = job
    BY <2>1 DEF ChildExit
  <2>4. \A q \in Pid : (kernel'[q].st = "free" <=> kernel[q].st = "free") /\ child'[q].bg = child[q].bg
    BY <1>1, <2>2, <2>3 DEF Child
  <2>5. Frozen
    BY <2>3, <2>4 DEF Frozen, Lean
  <2>6. QED
    BY <2>1, <2>5, ChildExitTypes, FrozenStep
<1>6. CASE UNCHANGED vars
  <2>1. TInv'
    BY NextTypes
  <2>2. Frozen
    BY <1>6 DEF vars, Frozen, Lean
  <2>3. QED
    BY <2>1, <2>2, FrozenStep
<1>7. QED
  BY <1>3, <1>4, <1>5, <1>6 DEF Next

LEMMA InitLimits == Init => Limited
<1> SUFFICES ASSUME Init PROVE Limited
  OBVIOUS
<1>1. /\ kernel = [p \in Pid |-> [st |-> "free"]]
      /\ job.rec = [s \in Slot |-> [pid |-> 0, exit |-> 0, env |-> 0, flag |-> {}]]
      /\ job.numbjob = 0
  BY DEF Init
<1>2. Living = {} /\ Counted = {} /\ Late = {}
  BY <1>1 DEF Living, Counted, Late
<1>3. IsFiniteSet({}) /\ Cardinality({}) = 0
  BY FS_EmptySet
<1>4. BgRun
  BY <1>1 DEF BgRun
<1>5. QED
  BY <1>1, <1>2, <1>3, <1>4, JobmaxIs DEF Limited, WithinJobmax

LEMMA LimitsHold == Spec => [](TInv /\ Depth /\ Limited)
<1>1. Init => TInv /\ Depth /\ Limited
  BY InitTypes, InitDepth, InitLimits
<1>2. TInv /\ Depth /\ Limited /\ [Next]_vars => TInv' /\ Depth' /\ Limited'
  BY NextTypes, NextDepth, NextLimits
<1>3. QED
  BY <1>1, <1>2, PTL DEF Spec

(* However children end, are reaped, waited for and trapped, between any two
   steps, and whatever handlers of the CHLD trap start meanwhile, no more than
   JOBMAX background children run at a time (sh_fork, job_post, job_reap). *)
THEOREM JobmaxRespected == Spec => []JobmaxHolds
<1>1. TInv /\ Depth /\ Limited => JobmaxHolds
  <2> SUFFICES ASSUME TInv, Depth, Limited, JOBMAX > 0
               PROVE  Cardinality({p \in Pid : kernel[p].st = "run" /\ child[p].bg}) <= JOBMAX
    BY DEF JobmaxHolds
  <2> DEFINE R == {p \in Pid : kernel[p].st = "run" /\ child[p].bg}
             n == Cardinality(Counted)
  <2>1. IsFiniteSet(Counted) /\ n \in Nat /\ n <= JOBMAX /\ (Late # {} => n < JOBMAX)
    BY CountedIs DEF Limited, WithinJobmax
  <2>2. R \subseteq Counted \cup Late
    BY DEF Living, Counted, Late
  <2>3. CASE Late = {}
    <3>1. Cardinality(R) <= n
      BY <2>1, <2>2, <2>3, FS_Subset
    <3>2. IsFiniteSet(R)
      BY <2>1, <2>2, <2>3, FS_Subset
    <3>3. QED
      BY <2>1, <3>1, <3>2, FS_CardinalityType, JobmaxIs
  <2>4. CASE Late # {}
    <3>1. PICK p \in Late : TRUE
      BY <2>4
    <3>2. Late = {p}
      BY <3>1, LateOnce
    <3> DEFINE C == Counted \cup {p}
    <3>3. IsFiniteSet(C) /\ Cardinality(C) <= n + 1 /\ Cardinality(C) \in Nat
      BY <2>1, FS_AddElement, FS_CardinalityType
    <3>4. R \in SUBSET C
      BY <2>2, <3>2
    <3> HIDE DEF R, C
    <3>5. IsFiniteSet(R) /\ Cardinality(R) <= Cardinality(C) /\ Cardinality(R) \in Nat
      BY <3>3, <3>4, FS_Subset, FS_CardinalityType
    <3>6. n + 1 <= JOBMAX
      BY <2>1, <2>4, JobmaxIs
    <3> HIDE DEF n
    <3>7. Cardinality(R) <= JOBMAX
      BY <2>1, <3>3, <3>5, <3>6, JobmaxIs
    <3>8. QED
      BY <3>7 DEF R
  <2>5. QED
    BY <2>3, <2>4
<1>2. QED
  BY <1>1, LimitsHold, PTL


-------------------------------------------------------------------------------
(* The CHLD trap.  Until it has run for a child, the child's record says so:
   a background job has not been trapped for, nor has a child that is not yet
   posted. *)
Untrapped ==
    /\ \A s \in Slot : "BG" \in job.rec[s].flag => child[job.rec[s].pid].traps = 0
    /\ \A p \in Pid : Number(stack, Pending(p)) # 0 => child[p].traps = 0
    /\ \A p \in Pid : child[p].traps <= 1

(* Who is marked done has ended and been reaped, and who is trapped for has ended. *)
Truthful ==
    /\ \A s \in Slot : {"BG", "DONE"} \subseteq job.rec[s].flag =>
          Ended(job.rec[s].pid) /\ kernel[job.rec[s].pid].st = "free"
    /\ \A p \in Pid : kernel[p].st = "zombie" => Ended(p)
    /\ \A p \in Pid : child[p].traps > 0 => Ended(p)

(* Nothing happens that matters to the trap; a fork may end. *)
Plainly ==
    /\ \A p \in Pid : Number(stack', Pending(p)) # 0 => Number(stack, Pending(p)) # 0
    /\ \A p \in Pid : child'[p].traps = child[p].traps /\ child'[p].status = child[p].status
    /\ \A p \in Pid : kernel'[p].st = kernel[p].st

LEMMA PlainlyUntrapped ==
    ASSUME TInv, Untrapped, Lean(job, job'),
           \A p \in Pid : Number(stack', Pending(p)) # 0 => Number(stack, Pending(p)) # 0,
           \A p \in Pid : child'[p].traps = child[p].traps
    PROVE  Untrapped'
<1>1. ASSUME NEW s \in Slot, "BG" \in job'.rec[s].flag
      PROVE  child'[job'.rec[s].pid].traps = 0
  <2>1. "BG" \in job.rec[s].flag /\ job'.rec[s].pid = job.rec[s].pid
    BY <1>1 DEF Lean
  <2>2. job.rec[s].pid \in Pid
    BY <2>1, TopIs, InTable
  <2>3. QED
    BY <2>1, <2>2 DEF Untrapped
<1>2. QED
  BY <1>1 DEF Untrapped

LEMMA PlainlyTruthful ==
    ASSUME TInv, Truthful, Lean(job, job'), Undone(job, job'), Plainly
    PROVE  Truthful'
<1>1. ASSUME NEW s \in Slot, {"BG", "DONE"} \subseteq job'.rec[s].flag
      PROVE  child'[job'.rec[s].pid].status # -1 /\ kernel'[job'.rec[s].pid].st = "free"
  <2>1. {"BG", "DONE"} \subseteq job.rec[s].flag /\ job'.rec[s].pid = job.rec[s].pid
    BY <1>1 DEF Lean, Undone
  <2>2. job.rec[s].pid \in Pid
    BY <2>1, TopIs, InTable
  <2>3. Ended(job.rec[s].pid) /\ kernel[job.rec[s].pid].st = "free"
    BY <2>1 DEF Truthful
  <2>4. QED
    BY <2>1, <2>2, <2>3 DEF Plainly, Ended
<1>2. QED
  BY <1>1 DEF Truthful, Plainly, Ended

LEMMA CalmRights ==
    ASSUME TInv, Untrapped, Calm
    PROVE  Untrapped' /\ (Truthful => Truthful')
  BY PlainlyUntrapped, PlainlyTruthful DEF Calm, Plainly

LEMMA ReapOneRights ==
    ASSUME TInv, Untrapped, ReapOne
    PROVE  Untrapped' /\ (Truthful => Truthful')
<1>1. PICK p \in Pid : \E a :
         /\ kernel[p].st = "zombie" /\ kernel' = [kernel EXCEPT ![p] = [st |-> "free"]]
         /\ RecordEndAs(job, a, p) /\ Mild(a, job')
  BY ReapOneTypes
<1>2. PICK a : /\ kernel[p].st = "zombie" /\ kernel' = [kernel EXCEPT ![p] = [st |-> "free"]]
               /\ RecordEndAs(job, a, p) /\ Mild(a, job')
  BY <1>1
<1>3. /\ TInv' /\ child' = child
      /\ \A q \in Pid : Number(stack', Pending(q)) = Number(stack, Pending(q))
  BY ReapOneTypes DEF ReapOne
<1>4. kernel \in [Pid -> Kernel] /\ Good(job)
  BY TopIs DEF TInv, Typed
<1>5. Lean(job, job')
  BY <1>2 DEF RecordEndAs, Mild, Lean
<1>6. Untrapped'
  BY <1>3, <1>5, PlainlyUntrapped
<1>7. ASSUME Truthful
      PROVE  Truthful'
  <2>1. ASSUME NEW s \in Slot, {"BG", "DONE"} \subseteq job'.rec[s].flag
        PROVE  child'[job'.rec[s].pid].status # -1 /\ kernel'[job'.rec[s].pid].st = "free"
    <3>1. {"BG", "DONE"} \subseteq a.rec[s].flag /\ job'.rec[s].pid = a.rec[s].pid
      BY <1>2, <2>1 DEF Mild, Lean, Undone
    <3>2. "BG" \in job.rec[s].flag /\ job'.rec[s].pid = job.rec[s].pid
      BY <1>5, <2>1 DEF Lean
    <3>3. job.rec[s].pid \in Pid
      BY <1>4, <3>2, InTable
    <3>4. CASE a.rec[s].pid = p
      BY <1>2, <1>3, <1>4, <1>7, <3>1, <3>4 DEF Truthful, Ended
    <3>5. CASE a.rec[s].pid # p
      <4>1. "DONE" \in job.rec[s].flag
        BY <1>2, <3>1, <3>5 DEF RecordEndAs
      <4>2. Ended(job.rec[s].pid) /\ kernel[job.rec[s].pid].st = "free"
        BY <1>7, <3>2, <4>1 DEF Truthful
      <4>3. QED
        BY <1>2, <1>3, <1>4, <3>2, <3>3, <4>2 DEF Ended
    <3>6. QED
      BY <3>4, <3>5
  <2>2. \A q \in Pid : kernel'[q].st = "zombie" => kernel[q].st = "zombie"
    BY <1>2, <1>4
  <2>3. QED
    BY <1>3, <1>7, <2>1, <2>2 DEF Truthful, Ended
<1>8. QED
  BY <1>6, <1>7

(* The trap runs for a job. *)
LEMMA TakenRights ==
    ASSUME TInv, Untrapped, NEW p \in Pid, Taken(p), kernel' = kernel,
           \A q \in Pid : Number(stack', Pending(q)) = Number(stack, Pending(q))
    PROVE  Untrapped' /\ (Truthful => Truthful')
<1> DEFINE t == Top.pw
           n == IF sh.trapcom THEN child[p].traps + 1 ELSE child[p].traps
<1>1. /\ t \in Slot /\ p = job.rec[t].pid /\ {"BG", "DONE"} \subseteq job.rec[t].flag
      /\ job' = TrapTaken(job, t) /\ Mild(job, job') /\ child' = [child EXCEPT ![p].traps = n]
  BY DEF Taken
<1>2. Good(job) /\ child \in [Pid -> Child]
  BY TopIs DEF TInv, Typed
<1>3. child[p].traps = 0 /\ n \in {0, 1}
  BY <1>1 DEF Untrapped
<1> HIDE DEF t, n
<1>4. /\ \A q \in Pid : child'[q].status = child[q].status
      /\ \A q \in Pid : q # p => child'[q].traps = child[q].traps
      /\ child'[p].traps \in {0, 1}
  BY <1>1, <1>2, <1>3 DEF Child
<1>5. "BG" \notin job'.rec[t].flag
  <2>1. job'.rec = [job.rec EXCEPT ![t] = [job.rec[t] EXCEPT !.flag = @ \ {"BG"}]]
    BY <1>1, <1>2, TrapTakenIs
  <2>2. job.rec \in [Slot -> Process]
    BY TopIs DEF Job
  <2>3. QED
    BY <1>1, <2>1, <2>2 DEF Process
<1>6. ASSUME NEW s \in Slot, "BG" \in job'.rec[s].flag
      PROVE  /\ "BG" \in job.rec[s].flag /\ job'.rec[s].pid = job.rec[s].pid
             /\ job.rec[s].pid \in Pid /\ job.rec[s].pid # p
             /\ "DONE" \in job'.rec[s].flag => "DONE" \in job.rec[s].flag
  <2>1. "BG" \in job.rec[s].flag /\ job'.rec[s].pid = job.rec[s].pid
    BY <1>1, <1>6 DEF Mild, Lean
  <2>2. job.rec[s].pid \in Pid
    BY <1>2, <2>1, InTable
  <2>3. s # t
    BY <1>5, <1>6
  <2>4. job_bypid(job, job.rec[s].pid) = s /\ job_bypid(job, p) = t
    BY <1>1, <1>2, <2>1, BackgroundIs
  <2>5. "DONE" \in job'.rec[s].flag => "DONE" \in job.rec[s].flag
    BY <1>1, <1>6 DEF Mild, Undone
  <2>6. QED
    BY <2>1, <2>2, <2>3, <2>4, <2>5
<1>7. Number(stack, Pending(p)) = 0
  <2>1. ~NoBg(job, p)
    BY <1>1 DEF NoBg
  <2>2. QED
    BY <2>1 DEF TInv, Pends
<1>8. Untrapped'
  <2>1. \A s \in Slot : "BG" \in job'.rec[s].flag => child'[job'.rec[s].pid].traps = 0
    BY <1>4, <1>6 DEF Untrapped
  <2>2. \A q \in Pid : Number(stack', Pending(q)) # 0 => child'[q].traps = 0
    BY <1>4, <1>7 DEF Untrapped
  <2>3. \A q \in Pid : child'[q].traps <= 1
    BY <1>4 DEF Untrapped
  <2>4. QED
    BY <2>1, <2>2, <2>3 DEF Untrapped
<1>9. ASSUME Truthful
      PROVE  Truthful'
  <2>1. ASSUME NEW s \in Slot, {"BG", "DONE"} \subseteq job'.rec[s].flag
        PROVE  child'[job'.rec[s].pid].status # -1 /\ kernel'[job'.rec[s].pid].st = "free"
    <3>1. /\ {"BG", "DONE"} \subseteq job.rec[s].flag /\ job'.rec[s].pid = job.rec[s].pid
          /\ job.rec[s].pid \in Pid
      BY <1>6, <2>1
    <3>2. Ended(job.rec[s].pid) /\ kernel[job.rec[s].pid].st = "free"
      BY <1>9, <3>1 DEF Truthful
    <3>3. QED
      BY <1>4, <3>1, <3>2 DEF Ended
  <2>2. child[p].status # -1
    BY <1>1, <1>9 DEF Truthful, Ended
  <2>3. \A q \in Pid : child'[q].traps > 0 => child'[q].status # -1
    BY <1>4, <1>9, <2>2 DEF Truthful, Ended
  <2>4. \A q \in Pid : kernel'[q].st = "zombie" => child'[q].status # -1
    BY <1>4, <1>9 DEF Truthful, Ended
  <2>5. QED
    BY <2>1, <2>3, <2>4 DEF Truthful, Ended
<1>10. QED
  BY <1>8, <1>9

LEMMA StartRights ==
    ASSUME TInv, Untrapped, NEW p \in Pid, NEW bg \in BOOLEAN, Started(p, bg)
    PROVE  Untrapped' /\ (Truthful => Truthful')
<1>1. kernel \in [Pid -> Kernel] /\ child \in [Pid -> Child] /\ Good(job)
  BY TopIs DEF TInv, Typed
<1>2. PICK o \in BOOLEAN :
         child' = [child EXCEPT ![p] = [status |-> -1, bg |-> bg, traps |-> 0, owed |-> o]]
  BY DEF Started
<1>3. /\ \A q \in Pid : q # p => child'[q] = child[q] /\ kernel'[q] = kernel[q]
      /\ child'[p].traps = 0 /\ kernel'[p].st = "run"
  BY <1>1, <1>2 DEF Started
<1>4. \A q \in Pid : q # p => Number(stack', Pending(q)) = Number(stack, Pending(q))
  BY DEF Started
<1>5. Lean(job, job') /\ Undone(job, job') /\ NoBg(job, p)
  BY DEF Started, Mild
<1>6. ASSUME NEW s \in Slot, "BG" \in job'.rec[s].flag
      PROVE  /\ "BG" \in job.rec[s].flag /\ job'.rec[s].pid = job.rec[s].pid
             /\ job.rec[s].pid \in Pid /\ job.rec[s].pid # p
             /\ "DONE" \in job'.rec[s].flag => "DONE" \in job.rec[s].flag
  <2>1. "BG" \in job.rec[s].flag /\ job'.rec[s].pid = job.rec[s].pid
    BY <1>5, <1>6 DEF Lean
  <2>2. job.rec[s].pid \in Pid /\ job.rec[s].pid # p
    BY <1>1, <1>5, <2>1, InTable DEF NoBg
  <2>3. "DONE" \in job'.rec[s].flag => "DONE" \in job.rec[s].flag
    BY <1>5, <1>6 DEF Undone
  <2>4. QED
    BY <2>1, <2>2, <2>3
<1>7. Untrapped'
  <2>1. \A s \in Slot : "BG" \in job'.rec[s].flag => child'[job'.rec[s].pid].traps = 0
    BY <1>3, <1>6 DEF Untrapped
  <2>2. \A q \in Pid : Number(stack', Pending(q)) # 0 => child'[q].traps = 0
    BY <1>3, <1>4 DEF Untrapped
  <2>3. \A q \in Pid : child'[q].traps <= 1
    BY <1>3 DEF Untrapped
  <2>4. QED
    BY <2>1, <2>2, <2>3 DEF Untrapped
<1>8. ASSUME Truthful
      PROVE  Truthful'
  <2>1. ASSUME NEW s \in Slot, {"BG", "DONE"} \subseteq job'.rec[s].flag
        PROVE  child'[job'.rec[s].pid].status # -1 /\ kernel'[job'.rec[s].pid].st = "free"
    <3>1. /\ {"BG", "DONE"} \subseteq job.rec[s].flag /\ job'.rec[s].pid = job.rec[s].pid
          /\ job.rec[s].pid \in Pid /\ job.rec[s].pid # p
      BY <1>6, <2>1
    <3>2. Ended(job.rec[s].pid) /\ kernel[job.rec[s].pid].st = "free"
      BY <1>8, <3>1 DEF Truthful
    <3>3. QED
      BY <1>3, <3>1, <3>2 DEF Ended
  <2>2. QED
    BY <1>3, <1>8, <2>1 DEF Truthful, Ended
<1>9. QED
  BY <1>7, <1>8

LEMMA StartsRights ==
    ASSUME TInv, Untrapped, Fork_bg \/ Fork_fg
    PROVE  Untrapped' /\ (Truthful => Truthful')
<1>1. \A p \in Pid : \A bg \in BOOLEAN : Started(p, bg) => Untrapped' /\ (Truthful => Truthful')
  BY StartRights
<1>2. TRUE \in BOOLEAN /\ FALSE \in BOOLEAN
  OBVIOUS
<1>3. (Fork_bg /\ \E p \in Pid : Started(p, TRUE)) \/ (Fork_fg /\ \E p \in Pid : Started(p, FALSE))
  BY ForkTypes
<1>4. QED
  BY <1>1, <1>2, <1>3, Zenon

LEMMA PostRights ==
    ASSUME TInv, Untrapped, ForkPost
    PROVE  Untrapped' /\ (Truthful => Truthful')
<1> DEFINE p == Top.pid
<1>1. /\ TInv' /\ kernel' = kernel /\ child' = child /\ Top \in ForkFrame /\ p \in Pid
      /\ \E a : PostAs(job, a, p, Top.bg) /\ job' = job_lock(a)
      /\ Number(stack, Pending(p)) = 1
      /\ \A q \in Pid : Number(stack', Pending(q)) = IF q = p THEN 0 ELSE Number(stack, Pending(q))
  BY ForkPostTypes
<1>2. PICK a : PostAs(job, a, p, Top.bg) /\ job' = job_lock(a)
  BY <1>1
<1> HIDE DEF p
<1>3. job'.rec = a.rec
  BY <1>2, LockIs DEF PostAs, Same
<1>4. ASSUME NEW s \in Slot, "BG" \in job'.rec[s].flag
      PROVE  \/ job'.rec[s].pid = p /\ "DONE" \notin job'.rec[s].flag
             \/ /\ "BG" \in job.rec[s].flag /\ job'.rec[s].pid = job.rec[s].pid
                /\ "DONE" \in job'.rec[s].flag => "DONE" \in job.rec[s].flag
  BY <1>2, <1>3, <1>4 DEF PostAs
<1>5. Untrapped'
  <2>1. \A s \in Slot : "BG" \in job'.rec[s].flag => child'[job'.rec[s].pid].traps = 0
    BY <1>1, <1>4 DEF Untrapped
  <2>2. \A q \in Pid : Number(stack', Pending(q)) # 0 => child'[q].traps = 0
    BY <1>1 DEF Untrapped
  <2>3. QED
    BY <1>1, <2>1, <2>2 DEF Untrapped
<1>6. ASSUME Truthful
      PROVE  Truthful'
  <2>1. ASSUME NEW s \in Slot, {"BG", "DONE"} \subseteq job'.rec[s].flag
        PROVE  child'[job'.rec[s].pid].status # -1 /\ kernel'[job'.rec[s].pid].st = "free"
    <3>1. {"BG", "DONE"} \subseteq job.rec[s].flag /\ job'.rec[s].pid = job.rec[s].pid
      BY <1>4, <2>1
    <3>2. QED
      BY <1>1, <1>6, <3>1 DEF Truthful, Ended
  <2>2. QED
    BY <1>1, <1>6, <2>1 DEF Truthful, Ended
<1>7. QED
  BY <1>5, <1>6


LEMMA NextRights ==
    ASSUME TInv, Untrapped, [Next]_vars
    PROVE  Untrapped' /\ (Truthful /\ ~LeaveSub => Truthful')
<1>1. kernel \in [Pid -> Kernel] /\ child \in [Pid -> Child]
  BY DEF TInv, Typed
<1>2. Calm => Untrapped' /\ (Truthful => Truthful')
  BY CalmRights
<1>3. ASSUME Lean(job, job'), Undone(job, job'), kernel' = kernel,
             \A p \in Pid : Number(stack', Pending(p)) = Number(stack, Pending(p)),
             \A p \in Pid : child'[p].traps = child[p].traps /\ child'[p].status = child[p].status
      PROVE  Untrapped' /\ (Truthful => Truthful')
  <2>1. Untrapped'
    BY <1>3, PlainlyUntrapped
  <2>2. Plainly
    BY <1>3 DEF Plainly
  <2>3. QED
    BY <1>3, <2>1, <2>2, PlainlyTruthful
<1>4. CASE Step
  <2>1. CASE ReapOne \/ Fork_bg \/ Fork_fg \/ ForkPost
    BY <2>1, ReapOneRights, StartsRights, PostRights
  <2>2. CASE ReapNotice \/ UnlockTest \/ UnlockLeave \/ ChldtrapStart \/ ChldtrapHandled \/ ChldtrapEnd
    BY <1>2, <2>2, ReapNoticeTypes, UnlockTestTypes, UnlockLeaveTypes, ChldtrapStartTypes,
       ChldtrapHandledTypes, ChldtrapEndTypes
  <2>3. CASE ReapEnd
    BY <1>3, <2>3, ReapEndTypes
  <2>4. CASE ChldtrapScan
    BY <1>2, <2>4, ChldtrapScanTypes, TakenRights
  <2>5. CASE Builtin \/ Chktrap \/ HandlerEnd \/ HandlerError \/ TrapChld \/ StartFork
    BY <1>2, <2>5, CommandTypes, HandlerEndTypes, StartForkTypes
  <2>6. CASE JobmaxWait \/ JobmaxWaited \/ Ntfork \/ NtforkError \/ ForkEnd \/ ForkDone \/ WaitForeground
    BY <1>2, <2>6, ForkWaitTypes, ForkEndTypes, WaitForegroundTypes
  <2>7. CASE \/ WaitAll \/ Jobs \/ (\E p \in Pid : WaitFor(p)) \/ JobsWalk
             \/ WaitDone \/ WaitReap \/ WaitReaped \/ WaitEnd \/ WaitCleanup
    BY <1>2, <2>7, WaitAllTypes, WaitForTypes, JobsWalkTypes, WaitDoneTypes, WaitReapTypes,
       WaitReapedTypes, WaitCleanupTypes
  <2>8. CASE WaitReturn
    <3>1. /\ job' = job /\ kernel' = kernel
          /\ \A p \in Pid : Number(stack', Pending(p)) = Number(stack, Pending(p))
          /\ \A p \in Pid : child'[p].traps = child[p].traps /\ child'[p].status = child[p].status
      BY <2>8, WaitReturnTypes
    <3>2. Lean(job, job') /\ Undone(job, job')
      BY <3>1 DEF Lean, Undone
    <3>3. QED
      BY <1>3, <3>1, <3>2
  <2>9. CASE LeaveSub
    <3>1. /\ Lean(job, job') /\ child' = child
          /\ \A p \in Pid : Number(stack', Pending(p)) = Number(stack, Pending(p))
      BY <2>9, LeaveSubTypes
    <3>2. Untrapped'
      BY <3>1, PlainlyUntrapped
    <3>3. QED
      BY <2>9, <3>2
  <2>10. CASE EnterSub \/ SubReset \/ SubLeft
    BY <1>2, <2>10, EnterSubTypes, SubResetTypes, SubLeftTypes
  <2>11. QED
    BY <1>4, <2>1, <2>2, <2>3, <2>4, <2>5, <2>6, <2>7, <2>8, <2>9, <2>10 DEF Step
<1>5. CASE SigChld
  BY <1>2, <1>5, SigChldTypes
<1>6. CASE \E p \in Pid : ChildExit(p)
  <2>1. PICK p \in Pid : ChildExit(p)
    BY <1>6
  <2>2. PICK x \in Status : /\ kernel' = [kernel EXCEPT ![p] = [st |-> "zombie", status |-> x]]
                            /\ child' = [child EXCEPT ![p].status = x]
    BY <2>1 DEF ChildExit
  <2>3. kernel[p].st = "run" /\ stack' = stack /\ job' = job
    BY <2>1 DEF ChildExit
  <2>4. /\ \A q \in Pid : child'[q].traps = child[q].traps
        /\ \A q \in Pid : q # p => child'[q].status = child[q].status /\ kernel'[q] = kernel[q]
        /\ child'[p].status = x
    BY <1>1, <2>2 DEF Child
  <2>5. x # -1
    BY StatusAssumption
  <2>6. Lean(job, job')
    BY <2>3 DEF Lean
  <2>7. Untrapped'
    BY <2>3, <2>4, <2>6, PlainlyUntrapped
  <2>8. ASSUME Truthful
        PROVE  Truthful'
    <3>1. ASSUME NEW s \in Slot, {"BG", "DONE"} \subseteq job'.rec[s].flag
          PROVE  child'[job'.rec[s].pid].status # -1 /\ kernel'[job'.rec[s].pid].st = "free"
      <4>1. job.rec[s].pid \in Pid
        BY <2>3, <3>1, TopIs, InTable
      <4>2. child[job.rec[s].pid].status # -1 /\ kernel[job.rec[s].pid].st = "free"
        BY <2>3, <2>8, <3>1 DEF Truthful, Ended
      <4>3. QED
        BY <2>3, <2>4, <4>1, <4>2
    <3>2. QED
      BY <2>4, <2>5, <2>8, <3>1 DEF Truthful, Ended
  <2>9. QED
    BY <2>7, <2>8
<1>7. CASE UNCHANGED vars
  <2>1. /\ job' = job /\ kernel' = kernel /\ child' = child /\ stack' = stack
    BY <1>7 DEF vars
  <2>2. Lean(job, job') /\ Undone(job, job')
    BY <2>1 DEF Lean, Undone
  <2>3. QED
    BY <1>3, <2>1, <2>2
<1>8. QED
  BY <1>4, <1>5, <1>6, <1>7 DEF Next

LEMMA InitRights == Init => Untrapped /\ Truthful
<1> SUFFICES ASSUME Init PROVE Untrapped /\ Truthful
  OBVIOUS
<1>1. /\ kernel = [p \in Pid |-> [st |-> "free"]]
      /\ job.rec = [s \in Slot |-> [pid |-> 0, exit |-> 0, env |-> 0, flag |-> {}]]
      /\ child = [p \in Pid |-> [status |-> -1, bg |-> FALSE, owed |-> FALSE, traps |-> 0]]
  BY DEF Init
<1>2. \A s \in Slot : job.rec[s].flag = {}
  BY <1>1
<1>3. \A p \in Pid : child[p].traps = 0 /\ kernel[p].st = "free"
  BY <1>1
<1>4. QED
  BY <1>2, <1>3 DEF Untrapped, Truthful

(* The CHLD trap is run at most once for a child, also where a handler is
   interrupted by another child's end, waits, forks, or fails, where process
   IDs are reused, and where subshells mark jobs as done (job_chldtrap). *)
THEOREM TrappedOnce == Spec => [](\A p \in Pid : child[p].traps <= 1)
<1>1. Init => TInv /\ Untrapped
  BY InitTypes, InitRights
<1>2. TInv /\ Untrapped /\ [Next]_vars => TInv' /\ Untrapped'
  BY NextTypes, NextRights
<1>3. Untrapped => \A p \in Pid : child[p].traps <= 1
  BY DEF Untrapped
<1>4. QED
  BY <1>1, <1>2, <1>3, PTL DEF Spec

(* And it is not run before the child has ended.  A subshell that ends marks
   jobs as done that still run (job_subrestore). *)
THEOREM TrapFollowsEnd ==
    ASSUME "subshell" \notin Ops
    PROVE  Spec => []ChldTrapOnce
<1>1. Init => TInv /\ Depth /\ Untrapped /\ Truthful
  BY InitTypes, InitDepth, InitRights
<1>2. TInv /\ Depth => ~LeaveSub
  BY SubsOnly DEF LeaveSub
<1>3. TInv /\ Depth /\ Untrapped /\ Truthful /\ [Next]_vars
        => TInv' /\ Depth' /\ Untrapped' /\ Truthful'
  BY <1>2, NextTypes, NextDepth, NextRights
<1>4. TInv /\ Untrapped /\ Truthful => ChldTrapOnce
  <2> SUFFICES ASSUME TInv, Untrapped, Truthful, NEW p \in Pid, child[p].traps > 0
               PROVE  child[p].traps = 1 /\ Ended(p)
    BY DEF ChldTrapOnce
  <2>1. child[p].traps \in Nat
    BY DEF TInv, Typed, Child
  <2>2. QED
    BY <2>1 DEF Untrapped, Truthful
<1>5. QED
  BY <1>1, <1>3, <1>4, PTL DEF Spec

-------------------------------------------------------------------------------
(* The saved statuses: which process IDs they have, and each only once. *)

HasEntry(b, p) == \E n \in 1..Len(b) : \E i \in 1..Len(b[n]) : b[n][i].pid = p
SavedAs(b, p, x) ==
    \E n \in 1..Len(b) : \E i \in 1..Len(b[n]) : b[n][i].pid = p /\ b[n][i].exitval = x
OneEntry(b) ==
    \A n, m \in 1..Len(b) : \A i \in 1..Len(b[n]), k \in 1..Len(b[m]) :
       b[n][i].pid = b[m][k].pid => n = m /\ i = k

(* From b to c the entries for the process IDs of S are gone, and no others. *)
Without(b, c, S) ==
    /\ OneEntry(c)
    /\ \A p \in S : ~HasEntry(c, p)
    /\ \A p : HasEntry(c, p) => HasEntry(b, p)
    /\ \A p, x : SavedAs(b, p, x) => p \in S \/ SavedAs(c, p, x)

LEMMA OneIs ==
    ASSUME NEW b, OneEntry(b), NEW n \in 1..Len(b), NEW m \in 1..Len(b),
           NEW i \in 1..Len(b[n]), NEW k \in 1..Len(b[m]), b[n][i].pid = b[m][k].pid
    PROVE  n = m /\ i = k
  BY DEF OneEntry

LEMMA SavedHas ==
    ASSUME NEW b, NEW p, NEW x, SavedAs(b, p, x)
    PROVE  HasEntry(b, p)
  BY DEF SavedAs, HasEntry

(* One entry is taken out of a list: where entry i of list n was before. *)
Origin(m, e, n, i) == IF n = m /\ ~(i < e) THEN i + 1 ELSE i

LEMMA OriginOnce ==
    ASSUME NEW m, NEW e \in Nat, NEW n, NEW i \in Nat, NEW h \in Nat,
           Origin(m, e, n, i) = Origin(m, e, n, h)
    PROVE  i = h
  BY DEF Origin

LEMMA EntryOut ==
    ASSUME NEW b \in Seq(Seq(Saved)), NEW m \in 1..Len(b), NEW l \in Seq(Saved),
           NEW e \in 1..Len(b[m]), Len(l) = Len(b[m]) - 1,
           \A i \in 1..Len(l) : l[i] = b[m][IF i < e THEN i ELSE i + 1],
           OneEntry(b)
    PROVE  Without(b, [b EXCEPT ![m] = l], {b[m][e].pid})
<1> DEFINE c == [b EXCEPT ![m] = l]
<1>1. /\ Len(c) = Len(b) /\ Len(b) \in Nat
      /\ \A n \in 1..Len(b) : c[n] = IF n = m THEN l ELSE b[n]
  OBVIOUS
<1>2. \A n \in 1..Len(b) : Len(b[n]) \in Nat
  OBVIOUS
<1>3. Len(l) \in Nat /\ e \in Nat /\ Len(b[m]) \in Nat
  BY <1>2
<1>0. \A n, k \in 1..Len(b) : \A u \in 1..Len(b[n]), v \in 1..Len(b[k]) :
         b[n][u].pid = b[k][v].pid => n = k /\ u = v
  BY DEF OneEntry
<1> HIDE DEF c
<1>4. ASSUME NEW n \in 1..Len(b), NEW i \in 1..Len(c[n])
      PROVE  /\ Origin(m, e, n, i) \in 1..Len(b[n]) /\ c[n][i] = b[n][Origin(m, e, n, i)]
             /\ ~(n = m /\ Origin(m, e, n, i) = e)
  <2>1. CASE n = m
    <3>1. c[n] = l /\ i \in 1..Len(l)
      BY <1>1, <2>1
    <3>2. Origin(m, e, n, i) = (IF i < e THEN i ELSE i + 1)
      BY <2>1 DEF Origin
    <3>3. l[i] = b[m][Origin(m, e, n, i)]
      BY <3>1, <3>2
    <3>4. Origin(m, e, n, i) \in 1..Len(b[m]) /\ Origin(m, e, n, i) # e
      BY <1>3, <3>1, <3>2
    <3>5. QED
      BY <2>1, <3>1, <3>3, <3>4
  <2>2. CASE n # m
    BY <1>1, <2>2 DEF Origin
  <2>3. QED
    BY <2>1, <2>2
<1>5. ASSUME NEW n \in 1..Len(b), NEW i \in 1..Len(b[n]), ~(n = m /\ i = e)
      PROVE  \E k \in 1..Len(c[n]) : c[n][k] = b[n][i]
  <2>1. CASE n = m /\ i < e
    <3>1. i \in 1..Len(l) /\ l[i] = b[m][i] /\ c[n] = l
      BY <1>1, <1>3, <2>1
    <3>2. QED
      BY <2>1, <3>1
  <2>2. CASE n = m /\ i > e
    <3>1. i - 1 \in 1..Len(l) /\ ~(i - 1 < e) /\ (i - 1) + 1 = i /\ c[n] = l
      BY <1>1, <1>3, <2>2
    <3>2. l[i - 1] = b[m][i]
      BY <3>1
    <3>3. QED
      BY <2>2, <3>1, <3>2
  <2>3. CASE n # m
    BY <1>1, <2>3
  <2>4. QED
    BY <1>3, <1>5, <2>1, <2>2, <2>3
<1>6. OneEntry(c)
  <2>1. ASSUME NEW n \in 1..Len(b), NEW k \in 1..Len(b), NEW i \in 1..Len(c[n]), NEW h \in 1..Len(c[k]),
               c[n][i].pid = c[k][h].pid
        PROVE  n = k /\ i = h
    <3>1. PICK u \in 1..Len(b[n]) : u = Origin(m, e, n, i) /\ c[n][i] = b[n][u]
      BY <1>4
    <3>2. PICK v \in 1..Len(b[k]) : v = Origin(m, e, k, h) /\ c[k][h] = b[k][v]
      BY <1>4
    <3>6. n = k /\ u = v
      <4>1. b[n][u].pid = b[k][v].pid
        BY <2>1, <3>1, <3>2
      <4>2. QED
        BY <1>0, <3>1, <3>2, <4>1, SMTT(30)
    <3>3. Len(c[n]) \in Nat
      BY <1>1, <1>2, <1>3
    <3>4. i \in Nat /\ h \in Nat
      BY <3>3, <3>6
    <3>7. Origin(m, e, n, i) = Origin(m, e, n, h)
      BY <3>1, <3>2, <3>6
    <3>5. QED
      BY <1>3, <3>4, <3>6, <3>7, OriginOnce
  <2>2. QED
    BY <1>1, <2>1 DEF OneEntry
<1>7. ~HasEntry(c, b[m][e].pid)
  <2>1. ASSUME NEW n \in 1..Len(b), NEW i \in 1..Len(c[n]), c[n][i].pid = b[m][e].pid
        PROVE  FALSE
    <3>0. Origin(m, e, n, i) \in 1..Len(b[n]) /\ b[n][Origin(m, e, n, i)].pid = b[m][e].pid /\ ~(n = m /\ Origin(m, e, n, i) = e)
      BY <1>4, <2>1
    <3>1. PICK u \in 1..Len(b[n]) : b[n][u].pid = b[m][e].pid /\ ~(n = m /\ u = e)
      BY <3>0
    <3>2. QED
      BY <1>0, <3>1, SMTT(30)
  <2>2. QED
    BY <1>1, <2>1 DEF HasEntry
<1>8. ASSUME NEW p, HasEntry(c, p)
      PROVE  HasEntry(b, p)
  <2>1. PICK n \in 1..Len(b) : \E i \in 1..Len(c[n]) : c[n][i].pid = p
    BY <1>1, <1>8 DEF HasEntry
  <2>2. PICK i \in 1..Len(c[n]) : c[n][i].pid = p
    BY <2>1
  <2>3. Origin(m, e, n, i) \in 1..Len(b[n]) /\ b[n][Origin(m, e, n, i)].pid = p
    BY <1>4, <2>2
  <2>4. QED
    BY <2>3 DEF HasEntry
<1>9. ASSUME NEW p, NEW x, SavedAs(b, p, x), p # b[m][e].pid
      PROVE  SavedAs(c, p, x)
  <2>1. PICK n \in 1..Len(b) : \E i \in 1..Len(b[n]) : b[n][i].pid = p /\ b[n][i].exitval = x
    BY <1>9 DEF SavedAs
  <2>2. PICK i \in 1..Len(b[n]) : b[n][i].pid = p /\ b[n][i].exitval = x
    BY <2>1
  <2>3. ~(n = m /\ i = e)
    BY <1>9, <2>2
  <2>4. \E k \in 1..Len(c[n]) : c[n][k] = b[n][i]
    BY <1>5, <2>3
  <2>5. QED
    BY <1>1, <2>2, <2>4 DEF SavedAs
<1>10. QED
  BY <1>6, <1>7, <1>8, <1>9 DEF Without, c

(* A status is put in front of a list. *)
LEMMA EntryIn ==
    ASSUME NEW b \in Seq(Seq(Saved)), NEW m \in 1..Len(b), NEW p \in Pid, NEW x \in Status \cup {0},
           OneEntry(b), ~HasEntry(b, p)
    PROVE  LET c == [b EXCEPT ![m] = <<[pid |-> p, exitval |-> x]>> \o b[m]]
           IN  /\ OneEntry(c) /\ SavedAs(c, p, x)
               /\ \A q : HasEntry(c, q) => q = p \/ HasEntry(b, q)
               /\ \A q, y : SavedAs(b, q, y) => SavedAs(c, q, y)
<1> DEFINE new == [pid |-> p, exitval |-> x]
           l == <<new>> \o b[m]
           c == [b EXCEPT ![m] = l]
           at(n, i) == IF n = m THEN i - 1 ELSE i
<1>1. \A n \in 1..Len(b) : Len(b[n]) \in Nat /\ b[n] \in Seq(Saved)
  OBVIOUS
<1>2. /\ Len(l) = Len(b[m]) + 1 /\ l[1] = new
      /\ \A i \in 1..Len(b[m]) : l[i + 1] = b[m][i]
  <2>1. <<new>> \in Seq(Saved) /\ Len(<<new>>) = 1 /\ <<new>>[1] = new
    BY DEF Saved
  <2> DEFINE r == b[m]
  <2>2. r \in Seq(Saved) /\ Len(r) \in Nat
    BY <1>1
  <2> HIDE DEF new, r
  <2>3. /\ Len(<<new>> \o r) = 1 + Len(r)
        /\ \A i \in 1..1 : (<<new>> \o r)[i] = <<new>>[i]
        /\ \A i \in 1..Len(r) : (<<new>> \o r)[1 + i] = r[i]
    BY <2>1, <2>2, ConcatIs
  <2>4. QED
    BY <2>1, <2>2, <2>3 DEF r
<1> HIDE DEF l
<1>0. \A n, k \in 1..Len(b) : \A u \in 1..Len(b[n]), v \in 1..Len(b[k]) :
         b[n][u].pid = b[k][v].pid => n = k /\ u = v
  BY DEF OneEntry
<1>3. /\ Len(c) = Len(b) /\ Len(b) \in Nat
      /\ \A n \in 1..Len(b) : c[n] = IF n = m THEN l ELSE b[n]
  OBVIOUS
<1> HIDE DEF c
<1>4. ASSUME NEW n \in 1..Len(b), NEW i \in 1..Len(c[n])
      PROVE  \/ n = m /\ i = 1 /\ c[n][i] = new
             \/ /\ ~(n = m /\ i = 1)
                /\ at(n, i) \in 1..Len(b[n]) /\ c[n][i] = b[n][at(n, i)]
  <2>1. CASE n = m /\ i = 1
    BY <1>2, <1>3, <2>1
  <2>2. CASE n = m /\ i # 1
    <3>1. c[n] = l /\ i \in Nat /\ i - 1 \in 1..Len(b[m]) /\ (i - 1) + 1 = i
      BY <1>1, <1>2, <1>3, <2>2
    <3>2. l[i] = b[m][i - 1]
      BY <1>2, <3>1
    <3>3. QED
      BY <2>2, <3>1, <3>2
  <2>3. CASE n # m
    BY <1>3, <2>3
  <2>4. QED
    BY <2>1, <2>2, <2>3
<1>5. ASSUME NEW n \in 1..Len(b), NEW i \in 1..Len(b[n])
      PROVE  \E k \in 1..Len(c[n]) : c[n][k] = b[n][i]
  <2>1. CASE n = m
    <3>1. i + 1 \in 1..Len(l) /\ l[i + 1] = b[m][i] /\ c[n] = l
      BY <1>1, <1>2, <1>3, <2>1
    <3>2. QED
      BY <2>1, <3>1
  <2>2. CASE n # m
    BY <1>3, <2>2
  <2>3. QED
    BY <2>1, <2>2
<1>6. ASSUME NEW n \in 1..Len(b), NEW i \in 1..Len(b[n])
      PROVE  b[n][i].pid # p
  BY DEF HasEntry
<1>7. OneEntry(c)
  <2>1. ASSUME NEW n \in 1..Len(b), NEW k \in 1..Len(b), NEW i \in 1..Len(c[n]), NEW h \in 1..Len(c[k]),
               c[n][i].pid = c[k][h].pid
        PROVE  n = k /\ i = h
    <3>0. Len(c[n]) \in Nat /\ Len(c[k]) \in Nat
      BY <1>1, <1>2, <1>3
    <3>1. CASE n = m /\ i = 1
      <4>1. c[k][h].pid = p
        BY <1>2, <1>3, <2>1, <3>1
      <4>2. k = m /\ h = 1
        BY <1>4, <1>6, <4>1
      <4>3. QED
        BY <3>1, <4>2
    <3>2. CASE k = m /\ h = 1
      <4>1. c[n][i].pid = p
        BY <1>2, <1>3, <2>1, <3>2
      <4>2. n = m /\ i = 1
        BY <1>4, <1>6, <4>1
      <4>3. QED
        BY <3>2, <4>2
    <3>3. CASE ~(n = m /\ i = 1) /\ ~(k = m /\ h = 1)
      <4>1. /\ at(n, i) \in 1..Len(b[n]) /\ at(k, h) \in 1..Len(b[k])
            /\ b[n][at(n, i)].pid = b[k][at(k, h)].pid
        BY <1>4, <2>1, <3>3
      <4>2. n = k /\ at(n, i) = at(k, h)
        <5> HIDE DEF at
        <5>1. PICK u \in 1..Len(b[n]) : u = at(n, i)
          BY <4>1
        <5>2. PICK v \in 1..Len(b[k]) : v = at(k, h)
          BY <4>1
        <5>3. b[n][u].pid = b[k][v].pid
          BY <4>1, <5>1, <5>2
        <5>4. n = k /\ u = v
          BY <1>0, <5>1, <5>2, <5>3, SMTT(30)
        <5>5. QED
          BY <5>1, <5>2, <5>4
      <4>3. QED
        BY <3>0, <4>2
    <3>4. QED
      BY <3>1, <3>2, <3>3
  <2>2. QED
    BY <1>3, <2>1 DEF OneEntry
<1>8. SavedAs(c, p, x)
  <2>1. m \in 1..Len(c) /\ 1 \in 1..Len(c[m]) /\ c[m][1] = new
    BY <1>1, <1>2, <1>3
  <2>2. c[m][1].pid = p /\ c[m][1].exitval = x
    BY <2>1
  <2>3. QED
    BY <2>1, <2>2 DEF SavedAs
<1>9. ASSUME NEW q, HasEntry(c, q), q # p
      PROVE  HasEntry(b, q)
  <2>1. PICK n \in 1..Len(b) : \E i \in 1..Len(c[n]) : c[n][i].pid = q
    BY <1>3, <1>9 DEF HasEntry
  <2>2. PICK i \in 1..Len(c[n]) : c[n][i].pid = q
    BY <2>1
  <2>3. at(n, i) \in 1..Len(b[n]) /\ b[n][at(n, i)].pid = q
    BY <1>4, <1>9, <2>2
  <2> HIDE DEF at
  <2>4. QED
    BY <2>3 DEF HasEntry
<1>10. ASSUME NEW q, NEW y, SavedAs(b, q, y)
       PROVE  SavedAs(c, q, y)
  <2>1. PICK n \in 1..Len(b) : \E i \in 1..Len(b[n]) : b[n][i].pid = q /\ b[n][i].exitval = y
    BY <1>10 DEF SavedAs
  <2>2. PICK i \in 1..Len(b[n]) : b[n][i].pid = q /\ b[n][i].exitval = y
    BY <2>1
  <2>3. \E k \in 1..Len(c[n]) : c[n][k] = b[n][i]
    BY <1>5
  <2>4. QED
    BY <1>3, <2>2, <2>3 DEF SavedAs
<1>11. QED
  BY <1>7, <1>8, <1>9, <1>10 DEF c, l

(* What job_chksave takes out, what is dropped for lack of room, and what a new
   status does to the others. *)
LEMMA ChksaveOut ==
    ASSUME NEW j, Good(j), OneEntry(j.bck), NEW p
    PROVE  Without(j.bck, job_chksave(j, p).bck, {p})
<1> DEFINE n == SavedAt(j, p)
           a == job_chksave(j, p)
           e == Entry(j.bck[n], p)
           l == RemoveAt(j.bck[n], e)
<1>1. j.bck \in Seq(Seq(Saved)) /\ Len(j.bck) \in Nat /\ j \in Job
  BY DEF Good, Job
<1>2. /\ n \in 0..Len(j.bck)
      /\ n # 0 => \E i \in 1..Len(j.bck[n]) : j.bck[n][i].pid = p
      /\ \A k \in 1..Len(j.bck) : k > n => \A i \in 1..Len(j.bck[k]) : j.bck[k][i].pid # p
  BY SavedAtIs
<1>3. /\ n = 0 => a = j
      /\ n # 0 => e \in 1..Len(j.bck[n]) /\ a = [j EXCEPT !.bck = [j.bck EXCEPT ![n] = l]]
  BY ChksaveIs
<1> HIDE DEF n, a, l, e
<1>4. CASE n = 0
  <2>1. ~HasEntry(j.bck, p)
    BY <1>1, <1>2, <1>4 DEF HasEntry
  <2>2. QED
    BY <1>3, <1>4, <2>1 DEF Without, a
<1>5. CASE n # 0
  <2>1. n \in 1..Len(j.bck) /\ j.bck[n] \in Seq(Saved)
    BY <1>1, <1>2, <1>5
  <2>2. e \in 1..Len(j.bck[n]) /\ j.bck[n][e].pid = p
    BY <1>2, <1>5, <2>1, EntryIs DEF e
  <2>3. /\ l \in Seq(Saved) /\ Len(l) = Len(j.bck[n]) - 1
        /\ \A i \in 1..Len(l) : l[i] = j.bck[n][IF i < e THEN i ELSE i + 1]
    BY <2>1, <2>2, RemoveAtIs DEF l
  <2>4. Without(j.bck, [j.bck EXCEPT ![n] = l], {p})
    BY <1>1, <2>1, <2>2, <2>3, EntryOut
  <2>5. a.bck = [j.bck EXCEPT ![n] = l]
    BY <1>1, <1>3, <1>5 DEF Job
  <2>6. QED
    BY <2>4, <2>5 DEF a
<1>6. QED
  BY <1>4, <1>5

LEMMA TrimmedOut ==
    ASSUME NEW j, Good(j), OneEntry(j.bck)
    PROVE  \E S \in SUBSET Pid : /\ Without(j.bck, Trimmed(j).bck, S)
                                 /\ Trimmed(j).evicted = j.evicted \cup S
                                 /\ \A q \in S : HasEntry(j.bck, q)
<1> DEFINE l == Last(j.bck)
           m == Len(j.bck)
<1>1. /\ l \in Seq(Saved) /\ m \in Nat \ {0} /\ j.bck \in Seq(Seq(Saved)) /\ l = j.bck[m]
  BY LastList
<1>2. CASE Len(l) + 1 > CHILD_MAX /\ l # <<>>
  <2> DEFINE a == DropOldest(j)
             e == Len(l)
  <2>1. /\ a.bck = [j.bck EXCEPT ![m] = Front(l)] /\ a.evicted = j.evicted \cup {l[e].pid}
    BY <1>2, DropOldestIs
  <2>2. Trimmed(j) = a
    BY <1>2 DEF Trimmed
  <2> HIDE DEF l, m, a
  <2>3. /\ Front(l) \in Seq(Saved) /\ Len(Front(l)) = e - 1 /\ e \in Nat \ {0}
        /\ \A i \in 1..e - 1 : Front(l)[i] = l[i]
    BY <1>1, <1>2, FrontIs
  <2>4. m \in 1..Len(j.bck) /\ e \in 1..Len(j.bck[m]) /\ Len(Front(l)) = Len(j.bck[m]) - 1
    BY <1>1, <2>3 DEF m
  <2>5. \A i \in 1..Len(Front(l)) : Front(l)[i] = j.bck[m][IF i < e THEN i ELSE i + 1]
    BY <1>1, <2>3
  <2>6. Without(j.bck, a.bck, {l[e].pid})
    <3> HIDE DEF e
    <3>1. Without(j.bck, [j.bck EXCEPT ![m] = Front(l)], {j.bck[m][e].pid})
      BY <1>1, <2>3, <2>4, <2>5, EntryOut
    <3>2. QED
      BY <1>1, <2>1, <3>1
  <2>7. HasEntry(j.bck, l[e].pid)
    BY <1>1, <2>4 DEF HasEntry
  <2>8. l[e].pid \in Pid
    <3>1. l[e] \in Saved
      BY <1>1, <2>3
    <3>2. QED
      BY <3>1 DEF Saved
  <2>9. QED
    BY <2>1, <2>2, <2>6, <2>7, <2>8
<1>3. CASE ~(Len(l) + 1 > CHILD_MAX /\ l # <<>>)
  <2>1. Trimmed(j) = j
    BY <1>3 DEF Trimmed
  <2>2. Without(j.bck, j.bck, {})
    BY DEF Without
  <2>3. QED
    BY <2>1, <2>2
<1>4. QED
  BY <1>2, <1>3

(* From j to a the status x of p is saved, and those of S are dropped. *)
SavesOne(j, a, p, x, S) ==
    /\ OneEntry(a.bck) /\ SavedAs(a.bck, p, x)
    /\ a.evicted = j.evicted \cup S /\ p \notin S
    /\ \A q \in S : HasEntry(j.bck, q)
    /\ \A q : HasEntry(a.bck, q) => q = p \/ HasEntry(j.bck, q)
    /\ \A q, y : SavedAs(j.bck, q, y) => q = p \/ q \in S \/ SavedAs(a.bck, q, y)

LEMMA CreateOut ==
    ASSUME NEW j, Good(j), OneEntry(j.bck), NEW p \in Pid, NEW x \in Status \cup {0}
    PROVE  \E S \in SUBSET Pid : SavesOne(j, jobsave_create(j, p, x), p, x, S)
<1> DEFINE c == job_chksave(j, p)
           b == Trimmed(c)
           a == jobsave_create(j, p, x)
           m == Len(b.bck)
<1>1. Good(c) /\ c.evicted = j.evicted /\ Without(j.bck, c.bck, {p})
  BY ChksaveIs, ChksaveOut
<1>2. /\ a.bck = [b.bck EXCEPT ![m] = <<[pid |-> p, exitval |-> x]>> \o Last(b.bck)]
      /\ a.evicted = b.evicted
  BY CreateIs
<1> HIDE DEF c
<1>3. Good(b) /\ \E S \in SUBSET Pid : /\ Without(c.bck, b.bck, S) /\ b.evicted = c.evicted \cup S
                                       /\ \A q \in S : HasEntry(c.bck, q)
  BY <1>1, TrimmedIs, TrimmedOut DEF Without
<1> HIDE DEF a, b
<1>4. PICK S \in SUBSET Pid : /\ Without(c.bck, b.bck, S) /\ b.evicted = c.evicted \cup S
                              /\ \A q \in S : HasEntry(c.bck, q)
  BY <1>3
<1>5. b.bck \in Seq(Seq(Saved)) /\ m \in 1..Len(b.bck) /\ Last(b.bck) = b.bck[m]
  BY <1>3, LastList
<1>6. ~HasEntry(c.bck, p) /\ ~HasEntry(b.bck, p) /\ OneEntry(b.bck)
  BY <1>1, <1>4 DEF Without
<1>7. /\ OneEntry(a.bck) /\ SavedAs(a.bck, p, x)
      /\ \A q : HasEntry(a.bck, q) => q = p \/ HasEntry(b.bck, q)
      /\ \A q, y : SavedAs(b.bck, q, y) => SavedAs(a.bck, q, y)
  <2> HIDE DEF m
  <2>1. a.bck = [b.bck EXCEPT ![m] = <<[pid |-> p, exitval |-> x]>> \o b.bck[m]]
    BY <1>2, <1>5
  <2> DEFINE d == b.bck
             f == [d EXCEPT ![m] = <<[pid |-> p, exitval |-> x]>> \o d[m]]
  <2>2. d \in Seq(Seq(Saved)) /\ m \in 1..Len(d) /\ OneEntry(d) /\ ~HasEntry(d, p)
    BY <1>5, <1>6
  <2> HIDE DEF d
  <2>3. /\ OneEntry(f) /\ SavedAs(f, p, x)
        /\ \A q : HasEntry(f, q) => q = p \/ HasEntry(d, q)
        /\ \A q, y : SavedAs(d, q, y) => SavedAs(f, q, y)
    BY <2>2, EntryIn
  <2>4. a.bck = f
    BY <2>1 DEF d
  <2> HIDE DEF f
  <2>5. QED
    BY <2>3, <2>4 DEF d
<1>8. a.evicted = j.evicted \cup S /\ p \notin S
  BY <1>1, <1>2, <1>4, <1>6
<1>9. /\ \A q \in S : HasEntry(j.bck, q)
      /\ \A q : HasEntry(a.bck, q) => q = p \/ HasEntry(j.bck, q)
  BY <1>1, <1>4, <1>7 DEF Without
<1>10. \A q, y : SavedAs(j.bck, q, y) => q = p \/ q \in S \/ SavedAs(a.bck, q, y)
  BY <1>1, <1>4, <1>7 DEF Without
<1>11. QED
  BY <1>7, <1>8, <1>9, <1>10 DEF SavesOne, a

-------------------------------------------------------------------------------
(* The records and the saved statuses. *)

OneRecord(r) == \A s, t \in Slot : r[s].pid = r[t].pid /\ r[s].pid # 0 => s = t
Parted(j) == \A s \in Slot : j.rec[s].pid # 0 => ~HasEntry(j.bck, j.rec[s].pid)
Untold(r) == \A s \in Slot : "NOTIFY" \notin r[s].flag
Tidy(j) == Good(j) /\ OneEntry(j.bck) /\ OneRecord(j.rec) /\ Parted(j) /\ Untold(j.rec)

(* The record of a child of the main shell that runs or that nobody waited for. *)
Posts(r, s, p) == r[s].pid = p /\ r[s].env = 0 /\ "EXITSAVE" \in r[s].flag
Runs(r, p) == \E s \in Slot : Posts(r, s, p) /\ "DONE" \notin r[s].flag
Stored(j, p, x) ==
    \/ \E s \in Slot : Posts(j.rec, s, p) /\ "DONE" \in j.rec[s].flag /\ j.rec[s].exit = x
    \/ SavedAs(j.bck, p, x)

(* From j to a no such child is forgotten, unless there is no room for its status. *)
Keeps(j, a) ==
    /\ Tidy(a) /\ j.evicted \subseteq a.evicted
    /\ \A p \in Pid : Runs(j.rec, p) => Runs(a.rec, p)
    /\ \A p \in Pid : \A x : Stored(j, p, x) => p \in a.evicted \/ Stored(a, p, x)
    /\ \A s \in Slot : a.rec[s].pid # 0 =>
          a.rec[s].pid = j.rec[s].pid /\ ("DONE" \in j.rec[s].flag => "DONE" \in a.rec[s].flag)

LEMMA KeepsOnce ==
    ASSUME NEW j, Tidy(j)
    PROVE  Keeps(j, j)
  BY DEF Keeps

LEMMA KeepsTwice ==
    ASSUME NEW j, NEW a, NEW b, Keeps(j, a), Keeps(a, b)
    PROVE  Keeps(j, b)
<1>1. ASSUME NEW s \in Slot, b.rec[s].pid # 0
      PROVE  /\ b.rec[s].pid = j.rec[s].pid
             /\ "DONE" \in j.rec[s].flag => "DONE" \in b.rec[s].flag
  BY <1>1 DEF Keeps
<1>2. ASSUME NEW p \in Pid, NEW x, Stored(j, p, x), p \notin b.evicted
      PROVE  Stored(b, p, x)
  BY <1>2 DEF Keeps
<1>3. QED
  BY <1>1, <1>2 DEF Keeps

(* job_unpost takes a record away whose process has ended, and keeps its status. *)
LEMMA UnpostKeeps ==
    ASSUME NEW j, Tidy(j), NEW s \in Slot, NEW notify \in BOOLEAN
    PROVE  /\ Keeps(j, job_unpost(j, s, notify))
           /\ ~Kept(j, s, notify) => job_unpost(j, s, notify).rec = [j.rec EXCEPT ![s] = NoProcess]
<1> DEFINE p == j.rec[s].pid
           x == j.rec[s].exit
           c == jobsave_create(j, p, x)
           a == job_unpost(j, s, notify)
           r == [j.rec EXCEPT ![s] = NoProcess]
<1>1. /\ Good(j) /\ j \in Job /\ j.rec[s] \in Process /\ OneEntry(j.bck) /\ OneRecord(j.rec)
      /\ Parted(j) /\ Untold(j.rec) /\ j.rec \in [Slot -> Process]
  BY DEF Good, Job, Tidy
<1>2. CASE Kept(j, s, notify)
  <2>1. a = j
    BY <1>2 DEF job_unpost
  <2>2. QED
    BY <1>2, <2>1, KeepsOnce
<1>3. CASE ~Kept(j, s, notify)
  <2>1. Contains(j.pwlist, s) /\ "DONE" \in j.rec[s].flag /\ p \in Pid /\ x \in Status \cup {0}
    BY <1>1, <1>3 DEF Kept, Flag, Good, Table, Filled, Process
  <2>2. /\ OneRecord(r) /\ Untold(r)
        /\ \A t \in Slot : /\ r[t].pid # 0 => t # s /\ r[t] = j.rec[t] /\ r[t].pid # p
                           /\ t # s => r[t] = j.rec[t]
    <3>1. \A t \in Slot : r[t] = IF t = s THEN NoProcess ELSE j.rec[t]
      BY <1>1
    <3>2. p # 0
      BY <2>1, PidAssumption
    <3> HIDE DEF r
    <3>3. OneRecord(r) /\ Untold(r)
      BY <1>1, <3>1 DEF OneRecord, Untold, NoProcess
    <3>4. \A t \in Slot : r[t].pid # 0 => t # s
      BY <3>1 DEF NoProcess
    <3>5. \A t \in Slot : t # s => j.rec[t].pid # p
      BY <1>1, <3>2 DEF OneRecord
    <3>6. QED
      BY <3>1, <3>3, <3>4, <3>5
  <2>3. \A q \in Pid : Runs(j.rec, q) => Runs(r, q)
    <3> HIDE DEF r
    <3>1. QED
      BY <2>1, <2>2 DEF Runs, Posts
  <2>4. CASE "EXITSAVE" \notin Flag(j, s)
    <3>1. a = Released(j, s)
      BY <1>3, <2>4 DEF job_unpost
    <3>2. Good(a) /\ a.bck = j.bck /\ a.evicted = j.evicted /\ a.rec = r
      BY <1>1, <2>1, <3>1, ReleasedIs
    <3> HIDE DEF a, r
    <3>3. Parted(a)
      BY <1>1, <2>2, <3>2 DEF Parted
    <3>4. \A q \in Pid : \A y : Stored(j, q, y) => Stored(a, q, y)
      BY <2>2, <2>4, <3>2 DEF Stored, Posts, Flag
    <3>5. Tidy(a)
      BY <1>1, <2>2, <3>2, <3>3 DEF Tidy
    <3>6. QED
      BY <2>2, <2>3, <3>2, <3>4, <3>5 DEF Keeps, a, r
  <2>5. CASE "EXITSAVE" \in Flag(j, s)
    <3>1. a = Released(c, s)
      BY <1>3, <2>5 DEF job_unpost
    <3>2. Good(c) /\ c.rec = j.rec /\ c.pwlist = j.pwlist
      BY <1>1, <2>1, CreateIs
    <3>3. PICK S \in SUBSET Pid : SavesOne(j, c, p, x, S)
      <4> HIDE DEF p, x
      <4>1. QED
        BY <1>1, <2>1, CreateOut
    <3> HIDE DEF c
    <3>4. Good(a) /\ a.bck = c.bck /\ a.evicted = c.evicted /\ a.rec = r
      <4> HIDE DEF a, p, x
      <4>1. /\ Good(Released(c, s)) /\ Released(c, s).bck = c.bck
            /\ Released(c, s).evicted = c.evicted /\ Released(c, s).rec = [c.rec EXCEPT ![s] = NoProcess]
        BY <2>1, <3>2, ReleasedIs
      <4>2. QED
        BY <3>1, <3>2, <4>1
    <3> HIDE DEF a, r, p, x
    <3>5. /\ OneEntry(a.bck) /\ SavedAs(a.bck, p, x)
          /\ a.evicted = j.evicted \cup S /\ p \notin S
          /\ \A q : HasEntry(a.bck, q) => q = p \/ HasEntry(j.bck, q)
          /\ \A q, y : SavedAs(j.bck, q, y) => q = p \/ q \in S \/ SavedAs(a.bck, q, y)
      BY <3>3, <3>4 DEF SavesOne
    <3>6. Parted(a)
      BY <1>1, <2>2, <3>4, <3>5 DEF Parted
    <3>7. ~HasEntry(j.bck, p)
      BY <1>1, <2>1, PidAssumption DEF Parted, p
    <3>8. ASSUME NEW q \in Pid, NEW y, Stored(j, q, y), q \notin a.evicted
          PROVE  Stored(a, q, y)
      <4>1. CASE SavedAs(j.bck, q, y)
        BY <3>5, <3>7, <3>8, <4>1, SavedHas DEF Stored
      <4>2. CASE \E t \in Slot : Posts(j.rec, t, q) /\ "DONE" \in j.rec[t].flag /\ j.rec[t].exit = y
        <5>1. PICK t \in Slot : Posts(j.rec, t, q) /\ "DONE" \in j.rec[t].flag /\ j.rec[t].exit = y
          BY <4>2
        <5>2. CASE t = s
          <6>1. q = p /\ y = x
            BY <5>1, <5>2 DEF Posts, p, x
          <6>2. QED
            BY <3>5, <6>1 DEF Stored
        <5>3. CASE t # s
          <6>1. a.rec[t] = j.rec[t]
            BY <2>2, <3>4, <5>3
          <6>2. QED
            BY <5>1, <6>1 DEF Stored, Posts
        <5>4. QED
          BY <5>2, <5>3
      <4>3. QED
        BY <3>8, <4>1, <4>2 DEF Stored
    <3>9. Tidy(a)
      BY <2>2, <3>4, <3>5, <3>6 DEF Tidy
    <3>10. QED
      BY <2>2, <2>3, <3>4, <3>5, <3>8, <3>9 DEF Keeps, a, r
  <2>6. QED
    BY <2>4, <2>5
<1>4. QED
  BY <1>2, <1>3

LEMMA UnpostedKeeps ==
    ASSUME NEW j, Tidy(j), NEW S
    PROVE  Keeps(j, Unposted(j, S))
<1> DEFINE X == {a \in Job : Keeps(j, a)}
<1>1. j \in Job /\ j.pwlist \in Seq(Slot)
  BY DEF Tidy, Good, Job
<1>2. j \in X
  BY <1>1, KeepsOnce
<1>3. ASSUME NEW a \in X, NEW s \in Slot
      PROVE  job_unpost(a, s, FALSE) \in X
  <2> DEFINE b == job_unpost(a, s, FALSE)
  <2>1. Keeps(j, a) /\ Tidy(a)
    BY DEF Keeps
  <2>2. \A z \in BOOLEAN : Keeps(a, job_unpost(a, s, z))
    BY <2>1, UnpostKeeps
  <2>3. FALSE \in BOOLEAN
    OBVIOUS
  <2>4. Keeps(a, b)
    BY <2>2, <2>3, Zenon
  <2> HIDE DEF b
  <2>5. Keeps(j, b)
    BY <2>1, <2>4, KeepsTwice
  <2>6. b \in Job
    BY <2>4 DEF Keeps, Tidy, Good
  <2>7. QED
    BY <2>5, <2>6 DEF b
<1> HIDE DEF X
<1>4. Unposted(j, S) \in X
  BY <1>1, <1>2, <1>3, UnpostedStays
<1>5. QED
  BY <1>4 DEF X

(* job_post puts the record of a child in, where the one of an older process with
   its ID is done; that one, and what is saved under the ID, are of no use then. *)
Posting(j, a, p, env) ==
    /\ Tidy(a) /\ j.evicted \subseteq a.evicted
    /\ env = 0 => Runs(a.rec, p)
    /\ \A q \in Pid : q # p /\ Runs(j.rec, q) => Runs(a.rec, q)
    /\ \A q \in Pid : \A x : q # p /\ Stored(j, q, x) => q \in a.evicted \/ Stored(a, q, x)
    /\ \A s \in Slot : a.rec[s].pid \notin {0, p} =>
          a.rec[s].pid = j.rec[s].pid /\ ("DONE" \in j.rec[s].flag => "DONE" \in a.rec[s].flag)

LEMMA ClearedKeeps ==
    ASSUME NEW j, Tidy(j), NEW p \in Pid, NoBg(j, p),
           \A s \in Slot : j.rec[s].pid = p => "DONE" \in j.rec[s].flag
    PROVE  Keeps(j, Cleared(j, p)) /\ \A s \in Slot : Cleared(j, p).rec[s].pid # p
<1> DEFINE t == job_bypid(j, p)
<1>1. Good(j) /\ j \in Job /\ OneRecord(j.rec) /\ Untold(j.rec) /\ p # 0
  BY PidAssumption DEF Tidy, Good
<1>2. t \in Slot \cup {0} /\ (t # 0 => Contains(j.pwlist, t) /\ j.rec[t].pid = p)
  BY <1>1, BypidSlot
<1>3. CASE t = 0
  <2>1. ASSUME NEW s \in Slot, j.rec[s].pid = p
        PROVE  FALSE
    <3>1. Contains(j.pwlist, s)
      BY <1>1, <2>1 DEF Good, Table, Filled, NoProcess
    <3>2. PICK n \in 1..Len(j.pwlist) : j.pwlist[n] = s
      BY <3>1 DEF Contains
    <3>3. \A i \in 1..Len(j.pwlist) : j.rec[j.pwlist[i]].pid # p
      <4>1. t \notin Slot
        BY <1>3 DEF Slot
      <4>2. \A i \in 1..Len(j.pwlist) : j.pwlist[i] \in Slot
        BY <1>1 DEF Job
      <4>3. QED
        BY <1>1, <4>1, <4>2, BypidIs
    <3>4. QED
      BY <2>1, <3>2, <3>3
  <2>2. QED
    BY <1>3, <2>1, KeepsOnce DEF Cleared
<1>4. CASE t # 0
  <2>1. t \in Slot /\ Contains(j.pwlist, t) /\ j.rec[t].pid = p
    BY <1>2, <1>4
  <2> HIDE DEF t
  <2>2. ~Kept(j, t, FALSE)
    BY <1>1, <2>1 DEF Kept, Flag, NoBg, Untold
  <2>3. \A z \in BOOLEAN : /\ Keeps(j, job_unpost(j, t, z))
                           /\ ~Kept(j, t, z) => job_unpost(j, t, z).rec = [j.rec EXCEPT ![t] = NoProcess]
    BY <2>1, UnpostKeeps
  <2>4. FALSE \in BOOLEAN
    OBVIOUS
  <2>5. /\ Keeps(j, job_unpost(j, t, FALSE))
        /\ job_unpost(j, t, FALSE).rec = [j.rec EXCEPT ![t] = NoProcess]
    BY <2>2, <2>3, <2>4, Zenon
  <2>6. Cleared(j, p) = job_unpost(j, t, FALSE)
    BY <1>4 DEF Cleared, t
  <2>7. \A s \in Slot : j.rec[s].pid = p => s = t
    BY <1>1, <2>1 DEF OneRecord
  <2>8. \A s \in Slot : [j.rec EXCEPT ![t] = NoProcess][s] = IF s = t THEN NoProcess ELSE j.rec[s]
    BY <1>1 DEF Job
  <2>9. \A s \in Slot : [j.rec EXCEPT ![t] = NoProcess][s].pid # p
    BY <1>1, <2>7, <2>8 DEF NoProcess
  <2>10. QED
    BY <2>5, <2>6, <2>9
<1>5. QED
  BY <1>3, <1>4

LEMMA PostKeeps ==
    ASSUME NEW j, Tidy(j), NEW p \in Pid, NEW bg \in BOOLEAN, NEW env \in Nat,
           Len(j.pwlist) < MaxSpawn, NoBg(j, p),
           \A s \in Slot : j.rec[s].pid = p => "DONE" \in j.rec[s].flag
    PROVE  Posting(j, job_post(j, p, bg, env), p, env)
<1> DEFINE b == Cleared(j, p)
           c == Posted(b, p, bg, env)
           a == job_post(j, p, bg, env)
           new == NewRecord(p, bg, env)
           h == Head(b.freelist)
<1>1. Good(j) /\ Good(b) /\ Steady(j, b) /\ Keeps(j, b) /\ \A s \in Slot : b.rec[s].pid # p
  BY ClearedIs, ClearedKeeps DEF Tidy
<1>2. a = job_chksave(c, p)
  BY DEF job_post, Posted, Cleared, NewRecord
<1> HIDE DEF b, a
<1>3. Len(b.pwlist) < MaxSpawn /\ \A s \in Slot : "BG" \in b.rec[s].flag => b.rec[s].pid # p
  <2>1. Len(b.pwlist) \in Nat /\ Len(j.pwlist) \in Nat
    BY <1>1 DEF Good, Job
  <2>2. QED
    BY <1>1, <2>1, JobsBoundAssumption DEF Steady
<1>4. PostedAs(b, c, h, p, bg, env)
  <2>1. Good(b) /\ p \in Pid /\ bg \in BOOLEAN /\ env \in Nat /\ Len(b.pwlist) < MaxSpawn
    BY <1>1, <1>3
  <2>2. QED
    BY <1>3, <2>1, PostedIs, Zenon
<1> HIDE DEF c, h
<1>5. /\ Good(c) /\ h \in Slot /\ c.rec = [b.rec EXCEPT ![h] = new] /\ c.bck = b.bck
      /\ c.evicted = b.evicted /\ ~Contains(b.pwlist, h)
  BY <1>4 DEF PostedAs
<1>6. /\ Tidy(b) /\ OneEntry(b.bck) /\ OneRecord(b.rec) /\ Parted(b) /\ Untold(b.rec)
      /\ b.rec \in [Slot -> Process] /\ b.rec[h] = NoProcess
  BY <1>1, <1>5 DEF Keeps, Tidy, Good, Job, Table, Filled
<1>7. Good(a) /\ a.rec = c.rec /\ a.evicted = c.evicted /\ Without(b.bck, a.bck, {p})
  BY <1>2, <1>5, <1>6, ChksaveIs, ChksaveOut
<1>8. /\ new.pid = p /\ new.env = env /\ "EXITSAVE" \in new.flag /\ "DONE" \notin new.flag
      /\ "NOTIFY" \notin new.flag /\ p # 0
  BY PidAssumption DEF NewRecord
<1> HIDE DEF new
<1>9. \A s \in Slot : a.rec[s] = IF s = h THEN new ELSE b.rec[s]
  BY <1>5, <1>6, <1>7
<1>10. OneRecord(a.rec) /\ Untold(a.rec)
  BY <1>1, <1>6, <1>8, <1>9 DEF OneRecord, Untold
<1>11. Parted(a)
  BY <1>1, <1>6, <1>7, <1>8, <1>9 DEF Parted, Without
<1>12. env = 0 => Runs(a.rec, p)
  BY <1>5, <1>8, <1>9 DEF Runs, Posts
<1>13. ASSUME NEW q \in Pid, Runs(b.rec, q)
       PROVE  Runs(a.rec, q)
  <2>1. PICK s \in Slot : Posts(b.rec, s, q) /\ "DONE" \notin b.rec[s].flag
    BY <1>13 DEF Runs
  <2>2. s # h
    BY <1>6, <2>1 DEF Posts, NoProcess
  <2>3. QED
    BY <1>9, <2>1, <2>2 DEF Runs, Posts
<1>14. ASSUME NEW q \in Pid, NEW x, q # p, Stored(b, q, x)
       PROVE  Stored(a, q, x)
  <2>1. CASE SavedAs(b.bck, q, x)
    BY <1>7, <1>14, <2>1 DEF Without, Stored
  <2>2. CASE \E s \in Slot : Posts(b.rec, s, q) /\ "DONE" \in b.rec[s].flag /\ b.rec[s].exit = x
    <3>1. PICK s \in Slot : Posts(b.rec, s, q) /\ "DONE" \in b.rec[s].flag /\ b.rec[s].exit = x
      BY <2>2
    <3>2. s # h
      BY <1>6, <3>1 DEF Posts, NoProcess
    <3>3. QED
      BY <1>9, <3>1, <3>2 DEF Stored, Posts
  <2>3. QED
    BY <1>14, <2>1, <2>2 DEF Stored
<1>15. ASSUME NEW s \in Slot, a.rec[s].pid \notin {0, p}
       PROVE  /\ a.rec[s].pid = j.rec[s].pid
              /\ "DONE" \in j.rec[s].flag => "DONE" \in a.rec[s].flag
  BY <1>1, <1>8, <1>9, <1>15 DEF Keeps
<1>16. /\ \A q \in Pid : q # p /\ Runs(j.rec, q) => Runs(a.rec, q)
       /\ \A q \in Pid : \A x : q # p /\ Stored(j, q, x) => q \in a.evicted \/ Stored(a, q, x)
  BY <1>1, <1>5, <1>7, <1>13, <1>14 DEF Keeps
<1>17. Tidy(a) /\ j.evicted \subseteq a.evicted
  BY <1>1, <1>5, <1>7, <1>10, <1>11 DEF Tidy, Keeps, Without
<1>18. QED
  BY <1>12, <1>15, <1>16, <1>17 DEF Posting, a

-------------------------------------------------------------------------------
(* The changes of the table that a command makes. *)

(* As Keeps, but for process p. *)
KeepsOthers(j, a, p) ==
    /\ Tidy(a) /\ j.evicted \subseteq a.evicted
    /\ \A q \in Pid : q # p /\ Runs(j.rec, q) => Runs(a.rec, q)
    /\ \A q \in Pid : \A x : q # p /\ Stored(j, q, x) => q \in a.evicted \/ Stored(a, q, x)
    /\ \A s \in Slot : a.rec[s].pid # 0 =>
          a.rec[s].pid = j.rec[s].pid /\ ("DONE" \in j.rec[s].flag => "DONE" \in a.rec[s].flag)

LEMMA OthersKept ==
    ASSUME NEW j, NEW a, NEW p, KeepsOthers(j, a, p), NEW b, Keeps(a, b)
    PROVE  KeepsOthers(j, b, p)
<1>1. ASSUME NEW s \in Slot, b.rec[s].pid # 0
      PROVE  /\ b.rec[s].pid = j.rec[s].pid
             /\ "DONE" \in j.rec[s].flag => "DONE" \in b.rec[s].flag
  BY <1>1 DEF Keeps, KeepsOthers
<1>2. ASSUME NEW q \in Pid, q # p, NEW x, Stored(j, q, x), q \notin b.evicted
      PROVE  Stored(b, q, x)
  BY <1>2 DEF Keeps, KeepsOthers
<1>3. QED
  BY <1>1, <1>2 DEF Keeps, KeepsOthers

(* What job_lock and the like change is not looked at here. *)
LEMMA SameKeeps ==
    ASSUME NEW j, Tidy(j), NEW a, Good(a), a.bck = j.bck, j.evicted \subseteq a.evicted,
           \A s \in Slot : /\ a.rec[s].pid = j.rec[s].pid /\ a.rec[s].env = j.rec[s].env
                           /\ a.rec[s].exit = j.rec[s].exit /\ a.rec[s].flag = j.rec[s].flag
    PROVE  Keeps(j, a)
<1>1. Tidy(a)
  BY DEF Tidy, OneRecord, Parted, Untold
<1>2. \A p \in Pid : Runs(j.rec, p) => Runs(a.rec, p)
  BY DEF Runs, Posts
<1>3. \A p \in Pid : \A x : Stored(j, p, x) => Stored(a, p, x)
  BY DEF Stored, Posts
<1>4. QED
  BY <1>1, <1>2, <1>3 DEF Keeps

LEMMA FlagKeeps ==
    ASSUME NEW j, Tidy(j), NEW s \in Slot, NEW F \in SUBSET Flag(j, s),
           "DONE" \in Flag(j, s) => "DONE" \in F
    PROVE  KeepsOthers(j, SetFlag(j, s, F), j.rec[s].pid)
<1> DEFINE a == SetFlag(j, s, F)
           p == j.rec[s].pid
           r == [j.rec EXCEPT ![s] = [j.rec[s] EXCEPT !.flag = F]]
<1>1. /\ Good(j) /\ OneEntry(j.bck) /\ OneRecord(j.rec) /\ Parted(j) /\ Untold(j.rec)
      /\ j.rec \in [Slot -> Process]
  BY DEF Tidy, Good, Job
<1>2. Good(a) /\ a.bck = j.bck /\ a.evicted = j.evicted /\ a.rec = r
  BY <1>1, SetFlagIs
<1>3. /\ \A t \in Slot : t # s => r[t] = j.rec[t]
      /\ r[s].pid = p /\ r[s].flag = F
  BY <1>1 DEF Process
<1> HIDE DEF a, r
<1>4. OneRecord(a.rec) /\ Untold(a.rec) /\ \A t \in Slot : a.rec[t].pid = j.rec[t].pid
  BY <1>1, <1>2, <1>3 DEF OneRecord, Untold, Flag
<1>5. Tidy(a)
  BY <1>1, <1>2, <1>4 DEF Tidy, Parted
<1>6. ASSUME NEW q \in Pid, q # p
      PROVE  /\ Runs(j.rec, q) => Runs(a.rec, q)
             /\ \A x : Stored(j, q, x) => Stored(a, q, x)
  <2>1. \A t \in Slot : Posts(j.rec, t, q) => a.rec[t] = j.rec[t]
    BY <1>2, <1>3, <1>6 DEF Posts
  <2>2. QED
    BY <1>2, <2>1 DEF Runs, Stored, Posts
<1>7. \A t \in Slot : "DONE" \in j.rec[t].flag => "DONE" \in a.rec[t].flag
  BY <1>2, <1>3 DEF Flag
<1>8. QED
  BY <1>2, <1>4, <1>5, <1>6, <1>7 DEF KeepsOthers, a

LEMMA ChksaveKeeps ==
    ASSUME NEW j, Tidy(j), NEW p
    PROVE  KeepsOthers(j, job_chksave(j, p), p)
<1> DEFINE a == job_chksave(j, p)
<1>1. /\ Good(j) /\ OneEntry(j.bck) /\ OneRecord(j.rec) /\ Parted(j) /\ Untold(j.rec)
  BY DEF Tidy
<1>2. /\ Good(a) /\ a.rec = j.rec /\ a.evicted = j.evicted /\ Without(j.bck, a.bck, {p})
  BY <1>1, ChksaveIs, ChksaveOut
<1> HIDE DEF a
<1>3. Tidy(a)
  BY <1>1, <1>2 DEF Tidy, Parted, Without
<1>4. \A q \in Pid : \A x : q # p /\ Stored(j, q, x) => Stored(a, q, x)
  BY <1>2 DEF Without, Stored
<1>5. QED
  BY <1>2, <1>3, <1>4 DEF KeepsOthers, a

LEMMA SubsaveKeeps ==
    ASSUME NEW j, Tidy(j)
    PROVE  Keeps(j, [j EXCEPT !.bck = Append(@, <<>>)])
<1> DEFINE b == j.bck
           c == Append(b, <<>>)
           a == [j EXCEPT !.bck = Append(@, <<>>)]
<1>1. /\ Good(j) /\ j \in Job /\ OneEntry(b) /\ OneRecord(j.rec) /\ Parted(j) /\ Untold(j.rec)
      /\ b \in Seq(Seq(Saved))
  BY DEF Tidy, Good, Job
<1>2. Good(a) /\ a.rec = j.rec /\ a.evicted = j.evicted
  BY <1>1, SubsaveIs
<1>3. a.bck = c
  BY <1>1 DEF Job
<1>4. /\ Len(c) = Len(b) + 1 /\ Len(b) \in Nat /\ Len(c[Len(b) + 1]) = 0
      /\ \A n \in 1..Len(b) : c[n] = b[n]
  BY <1>1
<1> HIDE DEF a, b, c
<1>5. \A n \in 1..Len(c) : \A i \in 1..Len(c[n]) : n \in 1..Len(b) /\ c[n] = b[n]
  <2>1. \A n \in 1..Len(c) : n \in 1..Len(b) \/ n = Len(b) + 1
    BY <1>4
  <2>2. QED
    BY <1>4, <2>1
<1>6. OneEntry(c)
  BY <1>1, <1>5 DEF OneEntry
<1>7. \A p : HasEntry(c, p) => HasEntry(b, p)
  BY <1>5 DEF HasEntry
<1>8. \A p, x : SavedAs(b, p, x) => SavedAs(c, p, x)
  <2>1. \A n \in 1..Len(b) : n \in 1..Len(c) /\ c[n] = b[n]
    BY <1>4
  <2>2. QED
    BY <2>1 DEF SavedAs
<1>9. Tidy(a)
  BY <1>1, <1>2, <1>3, <1>6, <1>7 DEF Tidy, Parted, b
<1>10. \A p \in Pid : \A x : Stored(j, p, x) => Stored(a, p, x)
  BY <1>2, <1>3, <1>8 DEF Stored, b
<1>11. QED
  BY <1>2, <1>9, <1>10 DEF Keeps, a

(* job_subrestore: where entry i of list n of the merged lists was before. *)
FromList(b, n, i) == IF n = Len(b) - 1 /\ i <= Len(b[Len(b)]) THEN Len(b) ELSE n
FromPlace(b, n, i) == IF n = Len(b) - 1 /\ i > Len(b[Len(b)]) THEN i - Len(b[Len(b)]) ELSE i

LEMMA Widens ==
    ASSUME NEW w \in Nat, NEW v \in Nat
    PROVE  (\A i \in 1..w : i \in 1..w + v) /\ (\A i \in 1..v : w + i \in 1..w + v)
  OBVIOUS

LEMMA PlacesDiffer ==
    ASSUME NEW L \in Nat, NEW w \in Nat, NEW n \in 1..L - 1, NEW k \in 1..L - 1,
           NEW i \in Nat \ {0}, NEW h \in Nat \ {0},
           (IF n = L - 1 /\ i <= w THEN L ELSE n) = (IF k = L - 1 /\ h <= w THEN L ELSE k),
           (IF n = L - 1 /\ i > w THEN i - w ELSE i) = (IF k = L - 1 /\ h > w THEN h - w ELSE h)
    PROVE  n = k /\ i = h
  OBVIOUS

LEMMA MergedOut ==
    ASSUME NEW b \in Seq(Seq(Saved)), Len(b) >= 2, OneEntry(b)
    PROVE  Without(b, Merged(b), {})
<1> DEFINE c == Merged(b)
           L == Len(b)
           w == Len(b[L])
<1>1. /\ L \in Nat /\ L >= 2 /\ \A n \in 1..L : b[n] \in Seq(Saved) /\ Len(b[n]) \in Nat
      /\ w \in Nat
  OBVIOUS
<1>2. /\ Len(c) = L - 1 /\ \A n \in 1..L - 2 : c[n] = b[n]
      /\ c[L - 1] = b[L] \o b[L - 1]
  BY MergedIs
<1>3. /\ Len(c[L - 1]) = w + Len(b[L - 1])
      /\ \A i \in 1..w : c[L - 1][i] = b[L][i]
      /\ \A i \in 1..Len(b[L - 1]) : c[L - 1][w + i] = b[L - 1][i]
  <2>1. b[L] \in Seq(Saved) /\ b[L - 1] \in Seq(Saved) /\ L - 1 \in 1..L
    BY <1>1
  <2> DEFINE u == b[L]
             v == b[L - 1]
  <2>2. u \in Seq(Saved) /\ v \in Seq(Saved)
    BY <2>1
  <2> HIDE DEF u, v, c
  <2>3. /\ Len(u \o v) = Len(u) + Len(v)
        /\ \A i \in 1..Len(u) : (u \o v)[i] = u[i]
        /\ \A i \in 1..Len(v) : (u \o v)[Len(u) + i] = v[i]
    BY <2>2, ConcatIs
  <2>4. QED
    BY <1>2, <2>3 DEF u, v
<1>0. \A n, k \in 1..L : \A x \in 1..Len(b[n]), y \in 1..Len(b[k]) :
         b[n][x].pid = b[k][y].pid => n = k /\ x = y
  BY DEF OneEntry
<1> DEFINE v == Len(b[L - 1])
<1>10. L \in Nat /\ L >= 2 /\ w \in Nat /\ v \in Nat /\ L - 1 \in 1..L /\ L \in 1..L
  <2>1. L - 1 \in 1..L
    BY <1>1
  <2>2. QED
    BY <1>1, <2>1
<1>11. \A n, i : /\ FromList(b, n, i) = (IF n = L - 1 /\ i <= w THEN L ELSE n)
                /\ FromPlace(b, n, i) = (IF n = L - 1 /\ i > w THEN i - w ELSE i)
  BY DEF FromList, FromPlace
<1>12. /\ Len(c[L - 1]) = w + v
       /\ \A i \in 1..w : c[L - 1][i] = b[L][i]
       /\ \A i \in 1..v : c[L - 1][w + i] = b[L - 1][i]
  BY <1>3
<1>13. w = Len(b[L]) /\ v = Len(b[L - 1]) /\ L = Len(b)
  OBVIOUS
<1> HIDE DEF c, w, v, L
<1>4. ASSUME NEW n \in 1..Len(c), NEW i \in 1..Len(c[n])
      PROVE  /\ FromList(b, n, i) \in 1..L
             /\ FromPlace(b, n, i) \in 1..Len(b[FromList(b, n, i)])
             /\ c[n][i] = b[FromList(b, n, i)][FromPlace(b, n, i)]
             /\ i \in Nat \ {0} /\ n \in 1..L - 1
  <2>0. n \in 1..L - 1 /\ n \in Nat
    BY <1>2, <1>10
  <2>1. CASE n = L - 1
    <3>1. i \in 1..w + v
      BY <1>12, <2>1
    <3>2. CASE i <= w
      <4>1. FromList(b, n, i) = L /\ FromPlace(b, n, i) = i
        BY <1>10, <1>11, <2>0, <2>1, <3>1, <3>2
      <4>2. i \in 1..w
        BY <1>10, <3>1, <3>2
      <4>3. QED
        BY <1>10, <1>12, <1>13, <2>0, <2>1, <4>1, <4>2
    <3>3. CASE i > w
      <4>1. FromList(b, n, i) = L - 1 /\ FromPlace(b, n, i) = i - w
        <5>1. ~(i <= w)
          BY <1>10, <3>1, <3>3
        <5>2. QED
          BY <1>11, <2>1, <3>3, <5>1
      <4>2. i - w \in 1..v /\ w + (i - w) = i
        BY <1>10, <3>1, <3>3
      <4>3. c[n][i] = b[L - 1][i - w]
        BY <1>12, <2>1, <4>2
      <4>4. i \in Nat \ {0}
        BY <1>10, <3>1
      <4>5. QED
        BY <1>10, <1>13, <2>0, <4>1, <4>2, <4>3, <4>4
    <3>4. QED
      BY <1>10, <3>1, <3>2, <3>3
  <2>2. CASE n # L - 1
    <3>1. n \in 1..L - 2 /\ n \in 1..L
      BY <1>10, <2>0, <2>2
    <3>2. c[n] = b[n] /\ i \in 1..Len(b[n]) /\ Len(b[n]) \in Nat
      BY <1>1, <1>2, <3>1
    <3>3. FromList(b, n, i) = n /\ FromPlace(b, n, i) = i
      BY <1>11, <2>2
    <3>4. QED
      BY <2>0, <3>1, <3>2, <3>3
  <2>3. QED
    BY <2>1, <2>2
<1>5. ASSUME NEW n \in 1..L, NEW i \in 1..Len(b[n])
      PROVE  \E m \in 1..Len(c) : \E k \in 1..Len(c[m]) : c[m][k] = b[n][i]
  <2>0. L - 1 \in 1..Len(c) /\ i \in Nat
    <3>1. Len(b[n]) \in Nat
      BY <1>1
    <3>2. QED
      BY <1>2, <1>10, <3>1
  <2>1. CASE n = L
    <3>1. i \in 1..w /\ i \in 1..w + v
      <4>1. i \in 1..w
        BY <1>13, <2>1
      <4>2. QED
        BY <1>10, <4>1, Widens
    <3>2. c[L - 1][i] = b[n][i] /\ i \in 1..Len(c[L - 1])
      BY <1>12, <2>1, <3>1
    <3>3. QED
      BY <2>0, <3>2
  <2>2. CASE n = L - 1
    <3>0. i \in 1..v /\ w + i \in 1..w + v
      <4>1. i \in 1..v
        BY <1>13, <2>2
      <4>2. QED
        BY <1>10, <4>1, Widens
    <3>1. w + i \in 1..Len(c[L - 1])
      BY <1>12, <3>0
    <3>2. c[L - 1][w + i] = b[n][i]
      BY <1>12, <2>2, <3>0
    <3>3. QED
      BY <2>0, <3>1, <3>2
  <2>3. CASE n # L /\ n # L - 1
    <3>1. n \in 1..L - 2 /\ n \in 1..Len(c)
      BY <1>2, <1>10, <2>3
    <3>2. QED
      BY <1>2, <3>1
  <2>4. QED
    BY <2>1, <2>2, <2>3
<1>6. OneEntry(c)
  <2>1. ASSUME NEW n \in 1..Len(c), NEW k \in 1..Len(c), NEW i \in 1..Len(c[n]), NEW h \in 1..Len(c[k]),
               c[n][i].pid = c[k][h].pid
        PROVE  n = k /\ i = h
    <3> DEFINE u == FromList(b, n, i)
               x == FromPlace(b, n, i)
               z == FromList(b, k, h)
               y == FromPlace(b, k, h)
    <3>1. u \in 1..L /\ x \in 1..Len(b[u]) /\ c[n][i] = b[u][x] /\ i \in Nat /\ n \in 1..L - 1
      BY <1>4
    <3>2. z \in 1..L /\ y \in 1..Len(b[z]) /\ c[k][h] = b[z][y] /\ h \in Nat /\ k \in 1..L - 1
      BY <1>4
    <3>4. u = (IF n = L - 1 /\ i <= w THEN L ELSE n) /\ x = (IF n = L - 1 /\ i > w THEN i - w ELSE i)
      BY <1>11
    <3>5. z = (IF k = L - 1 /\ h <= w THEN L ELSE k) /\ y = (IF k = L - 1 /\ h > w THEN h - w ELSE h)
      BY <1>11
    <3> HIDE DEF u, x, y, z
    <3>3. u = z /\ x = y
      <4>1. b[u][x].pid = b[z][y].pid
        BY <2>1, <3>1, <3>2
      <4>2. QED
        BY <1>0, <3>1, <3>2, <4>1
    <3>6. i \in Nat \ {0} /\ h \in Nat \ {0}
      BY <1>4
    <3>7. /\ (IF n = L - 1 /\ i <= w THEN L ELSE n) = (IF k = L - 1 /\ h <= w THEN L ELSE k)
          /\ (IF n = L - 1 /\ i > w THEN i - w ELSE i) = (IF k = L - 1 /\ h > w THEN h - w ELSE h)
      BY <3>3, <3>4, <3>5, Zenon
    <3>8. L \in Nat /\ w \in Nat /\ n \in 1..L - 1 /\ k \in 1..L - 1
      BY <1>10, <3>1, <3>2
    <3>9. QED
      BY <3>6, <3>7, <3>8, PlacesDiffer
  <2>2. QED
    BY <2>1 DEF OneEntry
<1>7. ASSUME NEW p, HasEntry(c, p)
      PROVE  HasEntry(b, p)
  <2>1. PICK n \in 1..Len(c) : \E i \in 1..Len(c[n]) : c[n][i].pid = p
    BY <1>7 DEF HasEntry
  <2>2. PICK i \in 1..Len(c[n]) : c[n][i].pid = p
    BY <2>1
  <2>3. /\ FromList(b, n, i) \in 1..Len(b)
        /\ FromPlace(b, n, i) \in 1..Len(b[FromList(b, n, i)])
        /\ b[FromList(b, n, i)][FromPlace(b, n, i)].pid = p
    BY <1>4, <1>13, <2>2
  <2>4. QED
    BY <2>3 DEF HasEntry
<1>8. ASSUME NEW p, NEW x, SavedAs(b, p, x)
      PROVE  SavedAs(c, p, x)
  <2>1. PICK n \in 1..L : \E i \in 1..Len(b[n]) : b[n][i].pid = p /\ b[n][i].exitval = x
    BY <1>8, <1>13 DEF SavedAs
  <2>2. PICK i \in 1..Len(b[n]) : b[n][i].pid = p /\ b[n][i].exitval = x
    BY <2>1
  <2>3. QED
    BY <1>5, <2>2 DEF SavedAs
<1>9. QED
  BY <1>6, <1>7, <1>8 DEF Without, c

(* The entries of list m from place k + 1 on are dropped. *)
LEMMA TailOut ==
    ASSUME NEW b \in Seq(Seq(Saved)), OneEntry(b), NEW m \in 1..Len(b), NEW k \in 0..Len(b[m])
    PROVE  Without(b, [b EXCEPT ![m] = SubSeq(b[m], 1, k)], {b[m][i].pid : i \in k + 1..Len(b[m])})
<1> DEFINE l == SubSeq(b[m], 1, k)
           c == [b EXCEPT ![m] = l]
           S == {b[m][i].pid : i \in k + 1..Len(b[m])}
<1>1. Len(b[m]) \in Nat /\ k \in Nat /\ k <= Len(b[m]) /\ b[m] \in Seq(Saved)
  OBVIOUS
<1>2. l \in Seq(Saved) /\ Len(l) = k /\ \A i \in 1..k : l[i] = b[m][i]
  BY <1>1, PrefixIs
<1> HIDE DEF l
<1>3. Len(c) = Len(b) /\ \A n \in 1..Len(b) : c[n] = IF n = m THEN l ELSE b[n]
  BY <1>2
<1> HIDE DEF c
<1>0. \A n, h \in 1..Len(b) : \A i \in 1..Len(b[n]), g \in 1..Len(b[h]) :
         b[n][i].pid = b[h][g].pid => n = h /\ i = g
  BY DEF OneEntry
<1>4. \A n \in 1..Len(b) : \A i \in 1..Len(c[n]) : i \in 1..Len(b[n]) /\ c[n][i] = b[n][i]
  BY <1>1, <1>2, <1>3
<1>5. \A n \in 1..Len(b) : \A i \in 1..Len(b[n]) : b[n][i].pid \in S \/ i \in 1..Len(c[n])
  BY <1>1, <1>2, <1>3
<1>6. OneEntry(c)
  <2>1. ASSUME NEW n \in 1..Len(b), NEW h \in 1..Len(b), NEW i \in 1..Len(c[n]), NEW g \in 1..Len(c[h]),
               c[n][i].pid = c[h][g].pid
        PROVE  n = h /\ i = g
    <3>1. /\ i \in 1..Len(b[n]) /\ c[n][i] = b[n][i]
          /\ g \in 1..Len(b[h]) /\ c[h][g] = b[h][g]
      BY <1>4
    <3>2. b[n][i].pid = b[h][g].pid
      BY <2>1, <3>1
    <3>3. QED
      BY <1>0, <3>1, <3>2, SMTT(30)
  <2>2. QED
    BY <1>3, <2>1 DEF OneEntry
<1>7. ASSUME NEW n \in 1..Len(b), NEW i \in 1..Len(c[n]), c[n][i].pid \in S
      PROVE  FALSE
  <2>1. PICK h \in k + 1..Len(b[m]) : b[m][h].pid = c[n][i].pid
    BY <1>7
  <2>2. h \in 1..Len(b[m]) /\ i \in 1..Len(b[n]) /\ b[m][h].pid = b[n][i].pid
    BY <1>1, <1>4, <2>1
  <2>3. m = n /\ h = i
    BY <2>2, OneIs
  <2>4. QED
    BY <1>1, <1>2, <1>3, <2>1, <2>3
<1>8. \A p \in S : ~HasEntry(c, p)
  BY <1>3, <1>7 DEF HasEntry
<1>9. \A p : HasEntry(c, p) => HasEntry(b, p)
  BY <1>3, <1>4 DEF HasEntry
<1>10. \A p, x : SavedAs(b, p, x) => p \in S \/ SavedAs(c, p, x)
  <2> HIDE DEF S
  <2>1. QED
    BY <1>3, <1>4, <1>5 DEF SavedAs
<1>11. QED
  BY <1>6, <1>8, <1>9, <1>10 DEF Without, c, l

LEMMA OneLess ==
    ASSUME NEW L \in Nat, L >= 2
    PROVE  L - 1 \in Nat \ {0}
  OBVIOUS

LEMMA ExcessKeeps ==
    ASSUME NEW j, Tidy(j), Len(j.bck) >= 2
    PROVE  LET a == DropExcess([j EXCEPT !.bck = Merged(@)])
           IN  Keeps(j, a) /\ a.rec = j.rec
<1> DEFINE m == Merged(j.bck)
           c == [j EXCEPT !.bck = Merged(@)]
           a == DropExcess(c)
           n == Len(m)
           d == Dropped(m)
           k == Len(m[n]) - Len(d)
           l == SubSeq(m[n], 1, k)
           b == [m EXCEPT ![n] = l]
           S == {x.pid : x \in Range(d)}
           P == {m[n][i].pid : i \in k + 1..Len(m[n])}
<1>1. /\ Good(j) /\ j \in Job /\ j.bck \in Seq(Seq(Saved)) /\ OneEntry(j.bck)
      /\ OneRecord(j.rec) /\ Parted(j) /\ Untold(j.rec)
  BY DEF Tidy, Good, Job
<1>2. Good(a) /\ a.rec = j.rec
  BY <1>1, ExcessIs DEF SubrestoreAs
<1>3. m \in Seq(Seq(Saved)) /\ n = Len(j.bck) - 1 /\ Without(j.bck, m, {})
  BY <1>1, MergedIs, MergedOut
<1>4. n \in 1..Len(m) /\ Last(m) = m[n] /\ m[n] \in Seq(Saved) /\ Len(m[n]) \in Nat
  <2>1. Len(j.bck) \in Nat
    BY <1>1
  <2> HIDE DEF m
  <2>2. n \in Nat \ {0}
    <3>1. n = Len(j.bck) - 1
      BY <1>3
    <3> HIDE DEF n
    <3>2. Len(j.bck) - 1 \in Nat \ {0}
      BY <2>1, OneLess
    <3>3. QED
      BY <3>1, <3>2
  <2>3. QED
    BY <1>3, <2>2 DEF Last
<1>5. d \in Seq(Saved) /\ k \in 0..Len(m[n]) /\ S = P
  <2> DEFINE w == m[n]
             v == Len(w)
  <2>1. d = IF v > CHILD_MAX THEN SubSeq(w, CHILD_MAX + 1, v) ELSE <<>>
    BY <1>4 DEF Dropped
  <2>2. w \in Seq(Saved) /\ v \in Nat /\ CHILD_MAX \in Nat
    BY <1>4, LimitAssumption
  <2>3. S = {d[i].pid : i \in 1..Len(d)}
    BY DEF Range
  <2> HIDE DEF d, w, m, n, S
  <2>4. CASE v > CHILD_MAX
    <3>1. /\ SubSeq(w, CHILD_MAX + 1, v) \in Seq(Saved)
          /\ Len(SubSeq(w, CHILD_MAX + 1, v)) = v - CHILD_MAX
          /\ \A i \in 1..v - CHILD_MAX : SubSeq(w, CHILD_MAX + 1, v)[i] = w[CHILD_MAX + i]
      BY <2>2, <2>4
    <3>2. /\ Len(d) = v - CHILD_MAX /\ d \in Seq(Saved) /\ k = CHILD_MAX
          /\ \A i \in 1..v - CHILD_MAX : d[i] = w[CHILD_MAX + i]
      <4>1. d = SubSeq(w, CHILD_MAX + 1, v)
        BY <2>1, <2>4
      <4>2. Len(d) = v - CHILD_MAX
        BY <3>1, <4>1
      <4> HIDE DEF v
      <4>3. v - (v - CHILD_MAX) = CHILD_MAX
        BY <2>2
      <4>4. k = CHILD_MAX
        BY <4>2, <4>3 DEF v, w
      <4>5. QED
        BY <3>1, <4>1, <4>2, <4>4
    <3>3. /\ \A i \in 1..v - CHILD_MAX : w[CHILD_MAX + i].pid \in S
          /\ \A y \in S : \E i \in 1..v - CHILD_MAX : y = w[CHILD_MAX + i].pid
      <4>1. 1..Len(d) = 1..v - CHILD_MAX
        BY <3>2
      <4> DEFINE I == 1..v - CHILD_MAX
      <4>2. S = {d[i].pid : i \in I}
        BY <2>3, <4>1
      <4>3. \A i \in I : d[i] = w[CHILD_MAX + i]
        BY <3>2
      <4> HIDE DEF I
      <4>4. /\ \A i \in I : w[CHILD_MAX + i].pid \in S
            /\ \A y \in S : \E i \in I : y = w[CHILD_MAX + i].pid
        BY <4>2, <4>3
      <4>5. QED
        BY <4>4 DEF I
    <3>4. P = {w[i].pid : i \in CHILD_MAX + 1..v}
      BY <3>2 DEF w
    <3> HIDE DEF v, k, P
    <3>5. ASSUME NEW i \in 1..v - CHILD_MAX
          PROVE  w[CHILD_MAX + i].pid \in P
      <4>1. CHILD_MAX + i \in CHILD_MAX + 1..v
        BY <2>2, <2>4
      <4>2. QED
        BY <3>4, <4>1
    <3>6. ASSUME NEW i \in CHILD_MAX + 1..v
          PROVE  w[i].pid \in S
      <4>1. i - CHILD_MAX \in 1..v - CHILD_MAX /\ CHILD_MAX + (i - CHILD_MAX) = i
        BY <2>2, <2>4
      <4>2. QED
        BY <3>3, <4>1
    <3>7. S = P
      <4>1. S \subseteq P
        BY <3>3, <3>5
      <4>2. P \subseteq S
        BY <3>4, <3>6
      <4>3. QED
        BY <4>1, <4>2
    <3>8. k \in 0..v
      BY <2>2, <2>4, <3>2
    <3>9. QED
      BY <3>2, <3>7, <3>8 DEF v, w
  <2>5. CASE ~(v > CHILD_MAX)
    <3>1. d = <<>> /\ Len(d) = 0 /\ d \in Seq(Saved)
      BY <2>1, <2>5
    <3>2. k = v
      BY <2>2, <3>1 DEF w
    <3>3. S = {} /\ P = {}
      <4>1. S = {}
        BY <2>3, <3>1
      <4>2. P = {w[i].pid : i \in v + 1..v}
        BY <3>2 DEF w
      <4>3. v + 1..v = {}
        BY <2>2
      <4>4. QED
        BY <4>1, <4>2, <4>3
    <3>4. QED
      BY <2>2, <3>1, <3>2, <3>3 DEF w
  <2>6. QED
    BY <2>4, <2>5
<1>6. a.bck = b /\ a.evicted = j.evicted \cup S
  <2>1. c.bck = m /\ c.evicted = j.evicted /\ DOMAIN c = DOMAIN j /\ Len(c.bck) = n /\ Dropped(c.bck) = d
    BY <1>1 DEF Job
  <2>2. n \in DOMAIN m
    BY <1>3, <1>4
  <2>3. /\ a.bck = [c.bck EXCEPT ![Len(c.bck)] =
                       SubSeq(c.bck[Len(c.bck)], 1, Len(c.bck[Len(c.bck)]) - Len(Dropped(c.bck)))]
        /\ a.evicted = c.evicted \cup {x.pid : x \in Range(Dropped(c.bck))}
    <3>1. "bck" \in DOMAIN c /\ "evicted" \in DOMAIN c
      BY <1>1 DEF Job
    <3> HIDE DEF c
    <3>2. Len(c.bck) \in DOMAIN c.bck
      BY <2>1, <2>2
    <3>3. QED
      BY <3>1, <3>2 DEF DropExcess
  <2> HIDE DEF c, m, n, d, a
  <2>4. QED
    BY <2>1, <2>3
<1>7. Without(m, b, P)
  <2> HIDE DEF m, n, d, k
  <2>0. OneEntry(m)
    BY <1>3 DEF Without
  <2>1. QED
    BY <1>3, <1>4, <1>5, <2>0, TailOut
<1> HIDE DEF a, b, m, n, d, k, S, P
<1>8. /\ OneEntry(a.bck) /\ \A p : HasEntry(a.bck, p) => HasEntry(j.bck, p)
      /\ \A p, x : SavedAs(j.bck, p, x) => p \in S \/ SavedAs(a.bck, p, x)
  BY <1>3, <1>5, <1>6, <1>7 DEF Without
<1>9. Tidy(a)
  BY <1>1, <1>2, <1>8 DEF Tidy, Parted
<1>10. \A p \in Pid : \A x : Stored(j, p, x) => p \in a.evicted \/ Stored(a, p, x)
  BY <1>2, <1>6, <1>8 DEF Stored
<1>11. QED
  BY <1>2, <1>6, <1>9, <1>10 DEF Keeps, a, c

(* The jobs of a subshell count as done; those of the main shell are not touched. *)
LEMMA MarkDoneKeeps ==
    ASSUME NEW j, Tidy(j), NEW env \in Nat \ {0}
    PROVE  Keeps(j, MarkDone(j, env))
<1> DEFINE a == MarkDone(j, env)
<1>1. /\ Good(j) /\ j \in Job /\ OneEntry(j.bck) /\ OneRecord(j.rec) /\ Parted(j) /\ Untold(j.rec)
      /\ j.rec \in [Slot -> Process]
  BY DEF Tidy, Good, Job
<1>2. Good(a)
  BY <1>1, MarkDoneIs
<1>3. a.bck = j.bck /\ a.evicted = j.evicted
  BY <1>1 DEF MarkDone, Job
<1>4. \A s \in Slot : a.rec[s] = IF Contains(j.pwlist, s) /\ j.rec[s].env = env
                                 THEN [j.rec[s] EXCEPT !.flag = @ \cup {"DONE"}] ELSE j.rec[s]
  BY <1>1 DEF MarkDone, Job
<1>5. \A s \in Slot : j.rec[s] \in Process
  BY <1>1
<1> HIDE DEF a
<1>6. \A s \in Slot : /\ a.rec[s].pid = j.rec[s].pid /\ a.rec[s].env = j.rec[s].env
                      /\ a.rec[s].exit = j.rec[s].exit
                      /\ a.rec[s].flag \subseteq j.rec[s].flag \cup {"DONE"}
                      /\ j.rec[s].flag \subseteq a.rec[s].flag
                      /\ a.rec[s].env = 0 => a.rec[s].flag = j.rec[s].flag
  BY <1>4, <1>5 DEF Process
<1>7. Tidy(a)
  BY <1>1, <1>2, <1>3, <1>6 DEF Tidy, OneRecord, Parted, Untold
<1>8. \A p \in Pid : Runs(j.rec, p) => Runs(a.rec, p)
  BY <1>6 DEF Runs, Posts
<1>9. \A p \in Pid : \A x : Stored(j, p, x) => Stored(a, p, x)
  BY <1>3, <1>6 DEF Stored, Posts
<1>10. QED
  BY <1>3, <1>6, <1>7, <1>8, <1>9 DEF Keeps, a

LEMMA SubrestoreKeeps ==
    ASSUME NEW j, Tidy(j), Len(j.bck) >= 2, NEW env \in Nat \ {0}
    PROVE  Keeps(j, job_subrestore(j, env))
<1> DEFINE b == DropExcess([j EXCEPT !.bck = Merged(@)])
           a == MarkDone(b, env)
           S == {s \in Slot : a.rec[s].env = env}
<1>1. Keeps(j, b)
  BY ExcessKeeps
<1>2. job_subrestore(j, env) = Unposted(a, S)
  BY DEF job_subrestore
<1> HIDE DEF b
<1>3. Keeps(b, a)
  BY <1>1, MarkDoneKeeps DEF Keeps
<1> HIDE DEF a, S
<1>4. Keeps(a, Unposted(a, S))
  BY <1>3, UnpostedKeeps DEF Keeps
<1>5. Keeps(j, a)
  BY <1>1, <1>3, KeepsTwice
<1>6. QED
  BY <1>2, <1>4, <1>5, KeepsTwice

(* job_reap records the end of process q in its record or, if it has none, saves
   the status x; without job control the user is not told. *)
ReapedAs(j, a, q, x) ==
    /\ Tidy(a) /\ j.evicted \subseteq a.evicted
    /\ \A p \in a.evicted : p \in j.evicted \/ HasEntry(j.bck, p)
    /\ a.waitsafe = Bump(j.waitsafe)
    /\ Runs(j.rec, q) => Stored(a, q, x)
    /\ \A p \in Pid : p # q /\ Runs(j.rec, p) => Runs(a.rec, p)
    /\ \A p \in Pid : \A y : p # q /\ Stored(j, p, y) => p \in a.evicted \/ Stored(a, p, y)
    /\ \A s \in Slot : /\ a.rec[s].pid = j.rec[s].pid
                       /\ j.rec[s].pid # q => a.rec[s].flag = j.rec[s].flag
                       /\ j.rec[s].pid = q => "DONE" \in a.rec[s].flag

LEMMA NoRecord ==
    ASSUME NEW j, Good(j), NEW p \in Pid, job_bypid(j, p) = 0
    PROVE  \A s \in Slot : j.rec[s].pid # p
<1>1. j \in Job /\ p # 0
  BY PidAssumption DEF Good
<1>2. \A i \in 1..Len(j.pwlist) : j.pwlist[i] \in Slot
  BY <1>1 DEF Job
<1>3. 0 \notin Slot
  BY DEF Slot
<1>4. \A i \in 1..Len(j.pwlist) : j.rec[j.pwlist[i]].pid # p
  BY <1>2, <1>3, BypidIs
<1>5. ASSUME NEW s \in Slot, j.rec[s].pid = p
      PROVE  FALSE
  <2>1. Contains(j.pwlist, s)
    BY <1>1, <1>5 DEF Good, Table, Filled, NoProcess
  <2>2. PICK n \in 1..Len(j.pwlist) : j.pwlist[n] = s
    BY <2>1 DEF Contains
  <2>3. QED
    BY <1>4, <1>5, <2>2
<1>6. QED
  BY <1>5

LEMMA ReapKeeps ==
    ASSUME NEW j, Tidy(j), NEW q \in Pid, NEW x \in Status \cup {0}, ~Monitor
    PROVE  ReapedAs(j, Notice(RecordEnd(j, q, x, FALSE), job_bypid(j, q)), q, x)
<1> DEFINE c == IF x = 0 THEN job_chksave(j, q) ELSE j
           b == [c EXCEPT !.waitsafe = Bump(c.waitsafe)]
           e == RecordEnd(j, q, x, FALSE)
           s == job_bypid(b, q)
           a == Notice(e, s)
           bg == Background(b, q)
<1>1. /\ Good(j) /\ OneEntry(j.bck) /\ OneRecord(j.rec) /\ Parted(j) /\ Untold(j.rec)
      /\ j \in Job
  BY DEF Tidy, Good
<1>2. /\ Good(c) /\ c.rec = j.rec /\ c.pwlist = j.pwlist /\ c.evicted = j.evicted
      /\ c.waitsafe = j.waitsafe /\ OneEntry(c.bck)
      /\ \A p : HasEntry(c.bck, p) => HasEntry(j.bck, p)
      /\ \A p, y : SavedAs(j.bck, p, y) => p = q \/ SavedAs(c.bck, p, y)
  <2>1. CASE x = 0
    <3>1. c = job_chksave(j, q)
      BY <2>1
    <3> HIDE DEF c
    <3>2. QED
      BY <1>1, <3>1, ChksaveIs, ChksaveOut DEF Without, Steady, Counters
  <2>2. CASE x # 0
    BY <1>1, <2>2
  <2>3. QED
    BY <2>1, <2>2
<1>3. e = IF s = 0 THEN jobsave_create(b, q, x)
          ELSE [b EXCEPT !.rec[s].exit = x,
                      !.rec[s].flag = (@ \cup {"DONE"} \cup IF bg THEN {"NOTIFY"} ELSE {})
                                         \ IF FALSE THEN {} ELSE {"BG"},
                      !.numbjob = IF bg THEN @ - 1 ELSE @]
  <2>1. b = [IF x = 0 THEN job_chksave(j, q) ELSE j EXCEPT !.waitsafe = Bump(@)]
    OBVIOUS
  <2> HIDE DEF b
  <2>2. QED
    BY <2>1 DEF RecordEnd
<1> HIDE DEF c, e
<1>4. /\ b \in Job /\ b.pwlist = c.pwlist /\ b.freelist = c.freelist /\ b.rec = c.rec
      /\ b.bck = c.bck /\ b.evicted = c.evicted /\ b.waitsafe = Bump(c.waitsafe)
  <2>1. c \in Job
    BY <1>2 DEF Good
  <2>2. Bump(c.waitsafe) \in 0..WaitsafeMod - 1
    BY <2>1, LimitAssumption DEF Job, Bump
  <2>3. QED
    BY <2>1, <2>2 DEF Job
<1> HIDE DEF b
<1>5. Good(b)
  BY <1>2, <1>4, Scalars
<1>6. /\ b.rec = j.rec /\ b.pwlist = j.pwlist /\ b.evicted = j.evicted
      /\ b.waitsafe = Bump(j.waitsafe) /\ OneEntry(b.bck)
      /\ \A p : HasEntry(b.bck, p) => HasEntry(j.bck, p)
      /\ \A p, y : SavedAs(j.bck, p, y) => p = q \/ SavedAs(b.bck, p, y)
  BY <1>2, <1>4
<1>7. job_bypid(j, q) = s
  BY <1>6, BypidSame
<1>8. s \in Slot \cup {0} /\ (s # 0 => Contains(b.pwlist, s) /\ b.rec[s].pid = q)
  BY <1>5, BypidSlot
<1>9. q # 0
  BY PidAssumption
<1>10. CASE s = 0
  <2>1. a = jobsave_create(b, q, x)
    BY <1>3, <1>10 DEF Notice
  <2>2. Good(a) /\ Steady(b, a) /\ a.rec = b.rec
    <3> HIDE DEF a
    <3>1. QED
      BY <1>5, <2>1, CreateIs
  <2>3. PICK S \in SUBSET Pid : SavesOne(b, a, q, x, S)
    BY <1>5, <1>6, <2>1, CreateOut
  <2>4. \A t \in Slot : j.rec[t].pid # q
    BY <1>1, <1>7, <1>10, NoRecord
  <2> HIDE DEF a, s
  <2>5. /\ OneEntry(a.bck) /\ a.evicted = j.evicted \cup S /\ a.rec = j.rec
        /\ a.waitsafe = Bump(j.waitsafe)
        /\ \A p \in S : HasEntry(j.bck, p)
        /\ \A p : HasEntry(a.bck, p) => p = q \/ HasEntry(j.bck, p)
        /\ \A p, y : SavedAs(j.bck, p, y) => p = q \/ p \in S \/ SavedAs(a.bck, p, y)
    BY <1>6, <2>2, <2>3 DEF SavesOne, Steady, Counters
  <2>6. Tidy(a)
    BY <1>1, <2>2, <2>4, <2>5 DEF Tidy, Parted
  <2>7. ~Runs(j.rec, q)
    BY <2>4 DEF Runs, Posts
  <2>8. \A p \in Pid : \A y : p # q /\ Stored(j, p, y) => p \in a.evicted \/ Stored(a, p, y)
    BY <2>5 DEF Stored
  <2>9. ReapedAs(j, a, q, x)
    BY <2>4, <2>5, <2>6, <2>7, <2>8 DEF ReapedAs
  <2>10. QED
    BY <1>7, <2>9 DEF a, e
<1>11. CASE s # 0
  <2> DEFINE F == (b.rec[s].flag \cup {"DONE"} \cup IF bg THEN {"NOTIFY"} ELSE {})
                    \ IF FALSE THEN {} ELSE {"BG"}
             nb == IF bg THEN b.numbjob - 1 ELSE b.numbjob
             new == [b.rec[s] EXCEPT !.exit = x, !.flag = F]
             G == Flag(e, s) \ {"NOTIFY"}
             old == b.rec[s]
  <2>1. /\ b.rec \in [Slot -> Process] /\ s \in Slot /\ old \in Process /\ b.numbjob \in Int
        /\ old.pid = q
    BY <1>4, <1>8, <1>11 DEF Job
  <2>2. e = [b EXCEPT !.rec[s].exit = x, !.rec[s].flag = F, !.numbjob = nb]
    <3>1. e = [b EXCEPT !.rec[s].exit = x,
                      !.rec[s].flag = (@ \cup {"DONE"} \cup IF bg THEN {"NOTIFY"} ELSE {})
                                         \ IF FALSE THEN {} ELSE {"BG"},
                      !.numbjob = IF bg THEN @ - 1 ELSE @]
      BY <1>3, <1>11
    <3> HIDE DEF s, bg
    <3>2. QED
      BY <1>4, <2>1, <3>1 DEF Job, Process
  <2>3. /\ new.pid = q /\ new.env = old.env /\ new.exit = x /\ new.flag = F /\ new \in Process
        /\ "DONE" \in F /\ "BG" \notin F /\ F \ {"NOTIFY"} = (old.flag \cup {"DONE"}) \ {"BG", "NOTIFY"}
    <3>1. F \in SUBSET {"EXITSAVE", "DONE", "NOTIFY", "BG"}
      BY <2>1 DEF Process
    <3>2. F \ {"NOTIFY"} = (old.flag \cup {"DONE"}) \ {"BG", "NOTIFY"}
      OBVIOUS
    <3>3. "DONE" \in F /\ "BG" \notin F
      OBVIOUS
    <3> HIDE DEF F
    <3>4. QED
      BY <2>1, <3>1, <3>2, <3>3 DEF Process
  <2>4. nb \in Int
    BY <2>1
  <2>5. e = [b EXCEPT !.rec = [b.rec EXCEPT ![s] = new], !.numbjob = nb]
    <3> HIDE DEF F, nb, s
    <3>1. QED
      BY <1>4, <2>1, <2>2 DEF Job, Process
  <2> HIDE DEF new, nb, s, bg, F
  <2>6. /\ e \in Job /\ e.rec = [b.rec EXCEPT ![s] = new] /\ e.waitsafe = b.waitsafe
        /\ e.pwlist = b.pwlist /\ e.freelist = b.freelist /\ e.bck = b.bck
        /\ e.evicted = b.evicted
    BY <1>4, <2>1, <2>3, <2>4, <2>5 DEF Job
  <2>7. \A t \in Slot : e.rec[t] = IF t = s THEN new ELSE b.rec[t]
    BY <2>1, <2>6
  <2>8. Good(e)
    <3>1. \A t \in Slot : /\ e.rec[t].pid = b.rec[t].pid
                          /\ "BG" \in e.rec[t].flag => "BG" \in b.rec[t].flag
                          /\ ~Contains(b.pwlist, t) => e.rec[t] = b.rec[t]
      BY <1>8, <1>11, <2>1, <2>3, <2>7
    <3>2. QED
      BY <1>5, <2>6, <3>1, RecordsOnly
  <2>9. a = SetFlag(e, s, G)
    BY <1>11 DEF Notice
  <2>10. /\ Good(a) /\ a.bck = e.bck /\ a.evicted = e.evicted /\ Steady(e, a)
         /\ a.rec = [e.rec EXCEPT ![s] = [e.rec[s] EXCEPT !.flag = G]]
    <3>1. G \in SUBSET Flag(e, s)
      OBVIOUS
    <3> HIDE DEF a, G
    <3>2. QED
      BY <2>1, <2>8, <2>9, <3>1, SetFlagIs
  <2>11. /\ e.rec \in [Slot -> Process] /\ G = (old.flag \cup {"DONE"}) \ {"BG", "NOTIFY"}
    BY <2>1, <2>3, <2>6, <2>7 DEF Flag, Job
  <2> HIDE DEF a, G
  <2>12. \A t \in Slot : /\ t # s => a.rec[t] = j.rec[t]
                         /\ t = s => /\ a.rec[t].pid = q /\ a.rec[t].env = j.rec[t].env
                                     /\ a.rec[t].exit = x /\ a.rec[t].flag = G
    <3>1. e.rec[s] = new /\ new \in Process
      BY <2>1, <2>3, <2>7
    <3>2. [e.rec[s] EXCEPT !.flag = G].pid = q /\ [e.rec[s] EXCEPT !.flag = G].env = old.env
          /\ [e.rec[s] EXCEPT !.flag = G].exit = x /\ [e.rec[s] EXCEPT !.flag = G].flag = G
      BY <2>3, <3>1 DEF Process
    <3>3. \A t \in Slot : t # s => a.rec[t] = e.rec[t]
      BY <2>10, <2>11
    <3>4. a.rec[s] = [e.rec[s] EXCEPT !.flag = G]
      BY <2>1, <2>10, <2>11
    <3>5. QED
      BY <1>6, <2>7, <3>2, <3>3, <3>4
  <2>13. j.rec[s].pid = q /\ s \in Slot /\ old = j.rec[s]
    BY <1>6, <2>1
  <2> HIDE DEF old
  <2>14. \A t \in Slot : /\ a.rec[t].pid = j.rec[t].pid
                         /\ j.rec[t].pid = q => t = s
    BY <1>1, <1>9, <2>12, <2>13 DEF OneRecord
  <2>15. /\ OneEntry(a.bck) /\ a.evicted = j.evicted /\ a.waitsafe = Bump(j.waitsafe)
         /\ \A p : HasEntry(a.bck, p) => HasEntry(j.bck, p)
         /\ \A p, y : SavedAs(j.bck, p, y) => p = q \/ SavedAs(a.bck, p, y)
    BY <1>6, <2>6, <2>10 DEF Steady, Counters
  <2>16. Tidy(a)
    <3>1. OneRecord(a.rec)
      BY <1>1, <2>14 DEF OneRecord
    <3>2. Untold(a.rec)
      BY <1>1, <2>11, <2>12 DEF Untold
    <3>3. Parted(a)
      BY <1>1, <2>14, <2>15 DEF Parted
    <3>4. QED
      BY <2>10, <2>15, <3>1, <3>2, <3>3 DEF Tidy
  <2>17. Runs(j.rec, q) => Stored(a, q, x)
    <3>1. ASSUME NEW t \in Slot, Posts(j.rec, t, q)
          PROVE  Posts(a.rec, s, q) /\ "DONE" \in a.rec[s].flag /\ a.rec[s].exit = x
      <4>1. t = s
        BY <2>14, <3>1 DEF Posts
      <4>2. QED
        BY <2>11, <2>12, <2>13, <3>1, <4>1 DEF Posts
    <3>2. QED
      BY <2>13, <3>1 DEF Runs, Stored
  <2>18. \A t \in Slot : j.rec[t].pid # q => a.rec[t] = j.rec[t]
    BY <2>12, <2>13
  <2>19. \A p \in Pid : p # q /\ Runs(j.rec, p) => Runs(a.rec, p)
    BY <2>18 DEF Runs, Posts
  <2>20. \A p \in Pid : \A y : p # q /\ Stored(j, p, y) => Stored(a, p, y)
    BY <2>15, <2>18 DEF Stored, Posts
  <2>21. \A t \in Slot : j.rec[t].pid = q => "DONE" \in a.rec[t].flag
    BY <2>11, <2>12, <2>14
  <2>22. ReapedAs(j, a, q, x)
    BY <2>14, <2>15, <2>16, <2>17, <2>18, <2>19, <2>20, <2>21 DEF ReapedAs
  <2>23. QED
    BY <1>7, <2>22 DEF a, e
<1>12. QED
  BY <1>8, <1>10, <1>11

-------------------------------------------------------------------------------
(* The activations.  Without handlers a stack is: the shell and its subshells, at
   most one command that forks or waits, at most one job_unlock, and job_reap. *)

On(s) == {s[i] : i \in 1..Len(s)}
Base(f) == f.fn \in {"main", "sub"}
Works(f) == f.fn \in {"fork", "wait"}
Calmly(f) ==
    /\ Base(f) \/ Works(f) \/ f.fn \in {"unlock", "reap"}
    /\ f.fn = "sub" => ~f.trapcom
    /\ f.fn = "reap" => f.pw = 0
(* g may run while f waits for it to return. *)
Over(f, g) ==
    /\ Base(g) \/ Works(g) => Base(f)
    /\ f.fn = "sub" /\ g.fn = "sub" => g.env # 0
    /\ g.fn = "unlock" => Base(f) \/ (Works(f) /\ (f.fn = "wait" => f.pc \in {"cleanup", "return"}))
    /\ g.fn = "reap" => /\ f.fn = "fork" => f.pc # "forked"
                        /\ g.async => ~Holds(f)
Chained(s) ==
    /\ \A i \in 1..Len(s) : Calmly(s[i])
    /\ \A k \in 1..Len(s) : \A i \in 1..k - 1 : Over(s[i], s[k])

-------------------------------------------------------------------------------
(* Where the status of a child is that may be asked for. *)

Forked(p) == \E f \in On(stack) : f.fn = "fork" /\ f.pc = "forked" /\ f.pid = p
Waited(p) == \E f \in On(stack) : f.fn = "wait" /\ f.pc \in {"end", "cleanup", "return"} /\ f.pid = p
Standing(p) ==
    \/ Forked(p)
    \/ kernel[p].st # "free" /\ Runs(job.rec, p)
    \/ kernel[p].st = "free" /\ Stored(job, p, child[p].status)
    \/ Waited(p)
Stands == \A p \in Pid : child[p].owed /\ p \notin job.evicted => Standing(p)
Fresh == \A s \in Slot : job.rec[s].pid # 0 /\ "DONE" \notin job.rec[s].flag
                           => kernel[job.rec[s].pid].st # "free"
Zombies == \A p \in Pid : kernel[p].st = "zombie" => child[p].status = kernel[p].status
Untroubled == ~sh.trapcom /\ ~sh.trapnote

(* job.waitsafe does not wrap while a command waits: what may still count is in Slack. *)
Running == {p \in Pid : kernel[p].st = "run"}
Dead == {p \in Pid : kernel[p].st = "zombie"}
Slack == 2 * Cardinality(Running) + Cardinality(Dead) + (IF sigchld THEN 1 ELSE 0)
FewChildren == 2 * Cardinality(Living) + 1 < WaitsafeMod

ForkFits(f) ==
    /\ f.pc = "forked" => /\ f.pid \in Pid /\ kernel[f.pid].st # "free"
                          /\ \A s \in Slot : job.rec[s].pid = f.pid => "DONE" \in job.rec[s].flag
                          /\ child[f.pid].owed => sh.curenv = 0
    /\ f.pid # 0 /\ ~f.bg => ~child[f.pid].owed
WaitFits(f) ==
    /\ f.pc \in {"loop", "reaped"} /\ f.pw # 0 => f.pid \in Pid /\ job.rec[f.pw].pid = f.pid
    /\ f.owed =>
        /\ f.pid \in Pid /\ f.pc # "walk"
        /\ f.pc \in {"loop", "reaped"} => f.pw # 0 /\ child[f.pid].owed /\ f.pid \notin job.evicted
        /\ f.pc \in {"end", "cleanup", "return"} =>
              f.exitval = child[f.pid].status /\ kernel[f.pid].st = "free"
        /\ f.pc = "reaped" => /\ "DONE" \in job.rec[f.pw].flag => job.waitsafe # 0
                              /\ job.waitsafe + Slack < WaitsafeMod
Fits(f) ==
    /\ f.fn = "sub" => sh.curenv # 0
    /\ f.fn = "fork" => ForkFits(f)
    /\ f.fn = "wait" => WaitFits(f)
AllFit == \A f \in On(stack) : Fits(f)
(* job_reap has just returned to job_wait. *)
Asked == Top.fn = "wait" /\ Top.pc = "reaped" /\ Top.owed /\ job.nochild => kernel[Top.pid].st = "free"

SInv == /\ Chained(stack) /\ Untroubled /\ Tidy(job) /\ Stands /\ Fresh /\ Zombies
        /\ AllFit /\ Asked

LEMMA OnPush ==
    ASSUME NEW s \in Seq(Frame), NEW f \in Frame
    PROVE  /\ On(Append(s, f)) = On(s) \cup {f} /\ Append(s, f) \in Seq(Frame)
           /\ Append(s, f)[Len(Append(s, f))] = f
<1>1. /\ Append(s, f) \in Seq(Frame) /\ Len(Append(s, f)) = Len(s) + 1 /\ Len(s) \in Nat
      /\ \A i \in 1..Len(s) : Append(s, f)[i] = s[i]
      /\ Append(s, f)[Len(s) + 1] = f
  OBVIOUS
<1> DEFINE c == Append(s, f)
           n == Len(s)
<1> HIDE DEF c
<1>2. ASSUME NEW g \in On(c)
      PROVE  g \in On(s) \cup {f}
  <2>1. PICK i \in 1..n + 1 : g = c[i]
    BY <1>1 DEF On, c
  <2>2. i \in 1..n \/ i = n + 1
    BY <1>1
  <2>3. QED
    BY <1>1, <2>1, <2>2 DEF On, c
<1>3. ASSUME NEW g \in On(s) \cup {f}
      PROVE  g \in On(c)
  <2>1. n + 1 \in 1..n + 1 /\ \A i \in 1..n : i \in 1..n + 1
    BY <1>1
  <2>2. CASE g = f
    BY <1>1, <2>1, <2>2 DEF On, c
  <2>3. CASE g \in On(s)
    BY <1>1, <2>1, <2>3 DEF On, c
  <2>4. QED
    BY <2>2, <2>3
<1>4. On(c) = On(s) \cup {f}
  BY <1>2, <1>3
<1>5. QED
  BY <1>1, <1>4 DEF c

LEMMA OnTop ==
    ASSUME Founded(stack)
    PROVE  /\ On(stack) = On(Caller) \cup {Top} /\ Caller \in Seq(Frame)
           /\ stack = Append(Caller, Top) /\ Top \in Frame
           /\ On(stack) \subseteq Frame
<1>1. /\ stack \in Seq(Frame) /\ Caller \in Seq(Frame) /\ Len(Caller) = Len(stack) - 1
      /\ \A i \in 1..Len(stack) - 1 : Caller[i] = stack[i]
      /\ Len(stack) \in Nat \ {0}
  <2>1. stack \in Seq(Frame) /\ stack # <<>>
    BY DEF Founded
  <2>2. QED
    BY <2>1, FrontIs DEF Caller
<1>2. Top \in Frame /\ On(stack) \subseteq Frame
  BY <1>1 DEF Top, On
<1>3. stack = Append(Caller, Top)
  <2> DEFINE n == Len(stack)
             c == Append(Caller, Top)
  <2>1. /\ c \in Seq(Frame) /\ Len(c) = Len(Caller) + 1
        /\ \A i \in 1..Len(Caller) : c[i] = Caller[i]
        /\ c[Len(Caller) + 1] = Top
    BY <1>1, <1>2
  <2> HIDE DEF c
  <2>2. Len(c) = Len(stack)
    BY <1>1, <2>1
  <2>3. \A i \in 1..Len(stack) : i \in 1..Len(stack) - 1 \/ i = Len(stack)
    BY <1>1
  <2>4. \A i \in 1..Len(stack) : c[i] = stack[i]
    BY <1>1, <2>1, <2>3 DEF Top
  <2>5. stack = c
    BY <1>1, <2>1, <2>2, <2>4
  <2>6. QED
    BY <2>5 DEF c
<1>4. On(Append(Caller, Top)) = On(Caller) \cup {Top}
  BY <1>1, <1>2, OnPush
<1>5. QED
  BY <1>1, <1>2, <1>3, <1>4

LEMMA ChainPush ==
    ASSUME NEW s \in Seq(Frame), Chained(s), NEW f \in Frame, Calmly(f),
           \A g \in On(s) : Over(g, f)
    PROVE  Chained(Append(s, f))
<1> DEFINE c == Append(s, f)
           n == Len(s)
<1>1. /\ Len(c) = n + 1 /\ n \in Nat /\ \A i \in 1..n : c[i] = s[i]
      /\ c[n + 1] = f
  OBVIOUS
<1> HIDE DEF c
<1>2. \A i \in 1..n + 1 : i \in 1..n \/ i = n + 1
  BY <1>1
<1>3. \A i \in 1..Len(c) : Calmly(c[i])
  BY <1>1, <1>2 DEF Chained
<1>4. ASSUME NEW k \in 1..Len(c), NEW i \in 1..k - 1
      PROVE  Over(c[i], c[k])
  <2>1. CASE k = n + 1
    <3>1. i \in 1..n /\ c[k] = f /\ c[i] = s[i]
      BY <1>1, <2>1
    <3>2. s[i] \in On(s)
      BY <3>1 DEF On
    <3>3. QED
      BY <3>1, <3>2
  <2>2. CASE k \in 1..n
    <3>1. i \in 1..n /\ c[k] = s[k] /\ c[i] = s[i]
      BY <1>1, <2>2
    <3>2. QED
      BY <2>2, <3>1 DEF Chained
  <2>3. QED
    BY <1>1, <1>2, <2>1, <2>2
<1>5. QED
  BY <1>3, <1>4 DEF Chained, c

LEMMA ChainTop ==
    ASSUME Founded(stack), Chained(stack)
    PROVE  /\ Chained(Caller) /\ Calmly(Top)
           /\ \A g \in On(Caller) : Over(g, Top) /\ Calmly(g) /\ g \in Frame
<1> DEFINE n == Len(stack)
<1>1. /\ stack \in Seq(Frame) /\ Caller \in Seq(Frame) /\ Len(Caller) = n - 1
      /\ \A i \in 1..n - 1 : Caller[i] = stack[i] /\ i \in 1..n
      /\ n \in Nat \ {0}
  <2>1. stack \in Seq(Frame) /\ stack # <<>>
    BY DEF Founded
  <2>2. QED
    BY <2>1, FrontIs DEF Caller
<1>2. Top = stack[n] /\ n \in 1..n
  BY <1>1 DEF Top
<1> HIDE DEF n
<1>3. Calmly(Top)
  BY <1>2 DEF Chained, n
<1>4. ASSUME NEW g \in On(Caller)
      PROVE  Over(g, Top) /\ Calmly(g) /\ g \in Frame
  <2>1. PICK i \in 1..n - 1 : g = stack[i] /\ i \in 1..n
    BY <1>1 DEF On
  <2>2. QED
    BY <1>1, <1>2, <2>1 DEF Chained, n
<1>5. Chained(Caller)
  <2>1. ASSUME NEW k \in 1..n - 1, NEW i \in 1..k - 1
        PROVE  i \in 1..n - 1
    BY <1>1, <2>1
  <2>2. \A k \in 1..n - 1 : \A i \in 1..k - 1 : Over(Caller[i], Caller[k])
    BY <1>1, <2>1 DEF Chained, n
  <2>3. QED
    BY <1>1, <2>2 DEF Chained, n
<1>6. QED
  BY <1>3, <1>4, <1>5

(* What runs on may be called, and may call. *)
LEMMA Goes ==
    ASSUME Founded(stack), Chained(stack), NEW f \in Frame, Calmly(f),
           \A g \in On(Caller) : Over(g, f)
    PROVE  /\ Chained(Continue(f)) /\ On(Continue(f)) = On(Caller) \cup {f}
           /\ Continue(f) \in Seq(Frame) /\ Continue(f)[Len(Continue(f))] = f
  BY OnTop, ChainTop, ChainPush, OnPush DEF Continue

LEMMA Calls2 ==
    ASSUME Founded(stack), Chained(stack), NEW f \in Frame, Calmly(f),
           \A g \in On(Caller) : Over(g, f),
           NEW h \in Frame, Calmly(h), \A g \in On(Caller) : Over(g, h), Over(f, h)
    PROVE  /\ Chained(Call(f, h)) /\ On(Call(f, h)) = On(Caller) \cup {f, h}
           /\ Call(f, h) \in Seq(Frame) /\ Call(f, h)[Len(Call(f, h))] = h
<1> DEFINE c == Continue(f)
<1>1. Chained(c) /\ On(c) = On(Caller) \cup {f} /\ c \in Seq(Frame)
  BY Goes
<1> HIDE DEF c
<1>2. \A g \in On(c) : Over(g, h)
  BY <1>1
<1>3. /\ Chained(Append(c, h)) /\ On(Append(c, h)) = On(c) \cup {h} /\ Append(c, h) \in Seq(Frame)
      /\ Append(c, h)[Len(Append(c, h))] = h
  BY <1>1, <1>2, ChainPush, OnPush
<1>4. QED
  BY <1>1, <1>3 DEF Call, c

LEMMA Pushes ==
    ASSUME Founded(stack), Chained(stack), NEW h \in Frame, Calmly(h),
           \A g \in On(stack) : Over(g, h)
    PROVE  /\ Chained(Append(stack, h)) /\ On(Append(stack, h)) = On(stack) \cup {h}
           /\ Append(stack, h)[Len(Append(stack, h))] = h
  BY ChainPush, OnPush DEF Founded

(* The activation that the shell returns to. *)
LEMMA ReturnsTo ==
    ASSUME Founded(stack), Top.fn # "main"
    PROVE  Founded(Caller) /\ Caller[Len(Caller)] \in On(Caller)
<1>1. Founded(Caller)
  BY ReturnIs
<1>2. Len(Caller) \in 1..Len(Caller)
  <2>1. Caller \in Seq(Frame) /\ Caller # <<>>
    BY <1>1 DEF Founded
  <2> HIDE DEF Caller
  <2>2. QED
    BY <2>1
<1>3. QED
  BY <1>1, <1>2 DEF On

(* At most two activations are in a critical region: a command and job_unlock. *)
Place(f) == IF f.fn = "unlock" THEN 2 ELSE 1
LEMMA OneHolder ==
    ASSUME Founded(stack), Chained(stack),
           NEW i \in 1..Len(stack), NEW k \in 1..Len(stack), i # k,
           Holds(stack[i]), Holds(stack[k])
    PROVE  Place(stack[i]) # Place(stack[k])
<1>1. ASSUME NEW u \in 1..Len(stack), NEW v \in 1..Len(stack), u < v,
             Holds(stack[u]), Holds(stack[v])
      PROVE  stack[u].fn # "unlock" /\ stack[v].fn = "unlock"
  <2>1. Len(stack) \in Nat
    BY DEF Founded
  <2>2. u \in 1..v - 1
    BY <1>1, <2>1
  <2>3. Over(stack[u], stack[v]) /\ Calmly(stack[u]) /\ Calmly(stack[v])
    BY <2>2 DEF Chained
  <2>4. ~Base(stack[u]) /\ stack[v].fn \notin {"main", "sub", "reap"}
    BY <1>1 DEF Holds, Base
  <2>5. QED
    BY <2>3, <2>4 DEF Over, Base, Works, Calmly
<1>2. i < k \/ k < i
  BY DEF Founded
<1>3. QED
  BY <1>1, <1>2 DEF Place

LEMMA HeldAtMost ==
    ASSUME TInv, Chained(stack)
    PROVE  Cardinality(Holders) <= 2
<1> DEFINE m == [i \in Holders |-> Place(stack[i])]
<1>1. Founded(stack)
  BY TopIs
<1>2. m \in [Holders -> 1..2]
  BY DEF Place
<1>3. \A i, k \in Holders : m[i] = m[k] => i = k
  BY <1>1, OneHolder DEF Holders
<1>4. m \in Injection(Holders, 1..2)
  BY <1>2, <1>3 DEF Injection, IsInjective
<1>5. IsFiniteSet(1..2) /\ Cardinality(1..2) = 2
  <2>1. 1 \in Int /\ 2 \in Int /\ 2 - 1 + 1 = 2 /\ ~(1 > 2)
    OBVIOUS
  <2>2. QED
    BY <2>1, FS_Interval, Zenon
<1>6. QED
  BY <1>4, <1>5, FS_Injection

(* Hence what job.in_critical says of the stack. *)
LEMMA CriticalIs ==
    ASSUME TInv, Balanced, Chained(stack)
    PROVE  /\ job.in_critical = Cardinality(Holders)
           /\ job.in_critical = 0 => \A f \in On(stack) : ~Holds(f)
           /\ job.in_critical = 1 /\ Holds(Top) => \A f \in On(Caller) : ~Holds(f)
<1>1. Cardinality(Holders) \in 0..2 /\ Cardinality(Holders) = Held(stack) /\ Founded(stack)
  BY HeldAtMost, HoldersCount, TopIs
<1>2. job.in_critical \in 0..CriticalMod - 1 /\ CriticalMod \in Nat /\ CriticalMod > 3
  BY LimitAssumption, TopIs DEF Job
<1>3. job.in_critical = Cardinality(Holders)
  <2>1. PICK q \in Nat : Held(stack) = job.in_critical + q * CriticalMod
    BY DEF Balanced
  <2>2. q = 0 \/ q >= 1
    OBVIOUS
  <2>3. CASE q >= 1
    <3>1. q * CriticalMod >= CriticalMod
      BY <1>2, <2>3
    <3>2. q * CriticalMod \in Nat
      BY <1>2
    <3>3. QED
      BY <1>1, <1>2, <2>1, <3>1, <3>2
  <2>4. CASE q = 0
    BY <1>1, <1>2, <2>1, <2>4
  <2>5. QED
    BY <2>2, <2>3, <2>4
<1>4. IsFiniteSet(Holders)
  <2>1. Len(stack) \in Nat
    BY <1>1 DEF Founded
  <2>2. IsFiniteSet(1..Len(stack))
    BY <2>1, FS_Interval
  <2>3. QED
    BY <2>2, FS_Subset DEF Holders
<1>5. ASSUME job.in_critical = 0, NEW f \in On(stack), Holds(f)
      PROVE  FALSE
  <2>1. Holders = {}
    BY <1>3, <1>4, <1>5, FS_EmptySet
  <2>2. QED
    BY <1>5, <2>1 DEF On, Holders
<1>6. ASSUME job.in_critical = 1, Holds(Top), NEW f \in On(Caller), Holds(f)
      PROVE  FALSE
  <2> DEFINE n == Len(stack)
  <2>1. PICK i \in 1..Len(Caller) : f = Caller[i]
    BY DEF On
  <2>2. /\ n \in Nat \ {0} /\ Len(Caller) = n - 1 /\ Caller[i] = stack[i] /\ Top = stack[n]
    <3>1. stack \in Seq(Frame) /\ stack # <<>>
      BY <1>1 DEF Founded
    <3>2. QED
      BY <3>1, <2>1, FrontIs DEF Caller, Top
  <2> HIDE DEF n
  <2>3. i \in 1..n /\ n \in 1..n /\ i # n
    BY <2>1, <2>2
  <2>4. i \in Holders /\ n \in Holders
    BY <1>6, <2>1, <2>2, <2>3 DEF Holders, n
  <2>5. \E x : Holders = {x}
    BY <1>3, <1>4, <1>6, FS_Singleton
  <2>6. QED
    BY <2>3, <2>4, <2>5
<1>7. QED
  BY <1>3, <1>5, <1>6

-------------------------------------------------------------------------------
(* Two kinds of steps: those of a command, below which only subshells wait, and
   those of job_unlock, job_reap and the signal, which leave the table alone. *)

LEMMA Below ==
    ASSUME Founded(stack), Chained(stack), Base(Top) \/ Works(Top)
    PROVE  \A g \in On(Caller) : Base(g) /\ g.fn \notin {"fork", "wait"} /\ g \in Frame
<1>1. \A g \in On(Caller) : Over(g, Top) /\ g \in Frame
  BY ChainTop
<1>2. QED
  BY <1>1 DEF Over, Base

(* Nobody but process p is forgotten. *)
KeepsBut(j, a, p) ==
    /\ Tidy(a) /\ j.evicted \subseteq a.evicted
    /\ \A q \in Pid : q # p /\ Runs(j.rec, q) => Runs(a.rec, q)
    /\ \A q \in Pid : \A x : q # p /\ Stored(j, q, x) => q \in a.evicted \/ Stored(a, q, x)
StillNamed(p) ==
    \A q \in Pid : q # p =>
       /\ Top.fn = "fork" /\ Top.pc = "forked" /\ Top.pid = q => Forked(q)'
       /\ Top.fn = "wait" /\ Top.pc \in {"end", "cleanup", "return"} /\ Top.pid = q => Waited(q)'

LEMMA CommandStep ==
    ASSUME TInv, SInv, Base(Top) \/ Works(Top),
           Chained(stack'), On(Caller) \subseteq On(stack'),
           \A f \in On(stack') : f \in On(Caller) \/ Fits(f)',
           \A g \in On(Caller) : g.fn = "sub" => sh'.curenv # 0,
           ~sh'.trapcom, ~sh'.trapnote, kernel' = kernel,
           \A q \in Pid : child'[q].status = child[q].status /\ (child'[q].owed => child[q].owed),
           NEW p, KeepsBut(job, job', p), StillNamed(p), Fresh',
           p \in Pid /\ child'[p].owed /\ p \notin job'.evicted => Standing(p)',
           ~(Top'.fn = "wait" /\ Top'.pc = "reaped")
    PROVE  SInv'
<1>1. Founded(stack) /\ Chained(stack) /\ Stands /\ Zombies /\ AllFit
  BY TopIs DEF SInv
<1>2. \A g \in On(Caller) : Base(g) /\ g.fn \notin {"fork", "wait"}
  BY <1>1, Below
<1>3. On(stack) = On(Caller) \cup {Top}
  BY <1>1, OnTop
<1>4. AllFit'
  <2>1. ASSUME NEW f \in On(stack'), f \in On(Caller)
        PROVE  Fits(f)'
    BY <1>2, <2>1 DEF Fits
  <2>2. QED
    BY <2>1 DEF AllFit
<1>5. ASSUME NEW q \in Pid, child'[q].owed, q \notin job'.evicted
      PROVE  Standing(q)'
  <2>1. CASE q = p
    BY <1>5, <2>1
  <2>2. CASE q # p
    <3>1. Standing(q) /\ child'[q].status = child[q].status
      BY <1>1, <1>5 DEF Stands, KeepsBut
    <3>2. CASE Forked(q)
      <4>1. Top.fn = "fork" /\ Top.pc = "forked" /\ Top.pid = q
        BY <1>2, <1>3, <3>2 DEF Forked
      <4>2. QED
        BY <2>2, <4>1 DEF StillNamed, Standing
    <3>3. CASE Waited(q)
      <4>1. Top.fn = "wait" /\ Top.pc \in {"end", "cleanup", "return"} /\ Top.pid = q
        BY <1>2, <1>3, <3>3 DEF Waited
      <4>2. QED
        BY <2>2, <4>1 DEF StillNamed, Standing
    <3>4. CASE kernel[q].st # "free" /\ Runs(job.rec, q)
      BY <2>2, <3>4 DEF KeepsBut, Standing
    <3>5. CASE kernel[q].st = "free" /\ Stored(job, q, child[q].status)
      <4>1. Stored(job', q, child'[q].status)
        BY <1>5, <2>2, <3>1, <3>5 DEF KeepsBut
      <4>2. QED
        BY <3>5, <4>1 DEF Standing
    <3>6. QED
      BY <3>1, <3>2, <3>3, <3>4, <3>5 DEF Standing
  <2>3. QED
    BY <2>1, <2>2
<1>6. Stands'
  BY <1>5 DEF Stands
<1>7. Zombies'
  BY <1>1 DEF Zombies
<1>8. Tidy(job')
  BY DEF KeepsBut
<1>9. QED
  BY <1>4, <1>6, <1>7, <1>8 DEF SInv, Untroubled, Asked

(* No SIGCHLD that job_wait is to hear of is lost in the count. *)
CountsOn ==
    job.waitsafe + Slack < WaitsafeMod =>
       job'.waitsafe + Slack' < WaitsafeMod /\ (job.waitsafe # 0 => job'.waitsafe # 0)

LEMMA HandlerStep ==
    ASSUME TInv, TInv', SInv, Chained(stack'),
           \A f \in On(stack') : f \in On(stack) \/ f.fn \in {"unlock", "reap"},
           \A f \in On(stack) : Works(f) => f \in On(stack'),
           sh' = sh, kernel' = kernel, child' = child, sigchld' => sigchld,
           job'.rec = job.rec, job'.bck = job.bck, job'.evicted = job.evicted,
           Asked', CountsOn
    PROVE  SInv'
<1>1. Founded(stack) /\ Chained(stack) /\ Stands /\ Zombies /\ AllFit /\ Fresh /\ Tidy(job) /\ Untroubled
      /\ Good(job')
  BY TopIs DEF SInv, TInv, Typed
<1>2. Tidy(job') /\ Fresh' /\ Zombies' /\ Untroubled'
  BY <1>1 DEF Tidy, Parted, Fresh, Zombies, Untroubled
<1>3. \A q \in Pid : (Forked(q) => Forked(q)') /\ (Waited(q) => Waited(q)')
  BY DEF Forked, Waited, Works
<1>4. \A q \in Pid : \A x : Stored(job, q, x) => Stored(job', q, x)
  BY DEF Stored
<1>5. Stands'
  BY <1>1, <1>3, <1>4 DEF Stands, Standing
<1>6. \A f : ForkFits(f) => ForkFits(f)'
  BY DEF ForkFits
<1>7. \A f : WaitFits(f) => WaitFits(f)'
  BY DEF WaitFits, CountsOn
<1>8. AllFit'
  <2>1. ASSUME NEW f \in On(stack')
        PROVE  Fits(f)'
    <3>1. CASE f \in On(stack)
      BY <1>1, <1>6, <1>7, <3>1 DEF Fits, AllFit
    <3>2. CASE f.fn \in {"unlock", "reap"}
      BY <3>2 DEF Fits
    <3>3. QED
      BY <3>1, <3>2
  <2>2. QED
    BY <2>1 DEF AllFit
<1>9. QED
  BY <1>2, <1>5, <1>8 DEF SInv

(* The table may be locked meanwhile, or marked in other ways. *)
SameTable(j, a) == a.rec = j.rec /\ a.bck = j.bck /\ a.evicted = j.evicted

LEMMA TableSame ==
    ASSUME NEW j, NEW a, Tidy(j), Good(a), SameTable(j, a)
    PROVE  Keeps(j, a)
  BY SameKeeps DEF SameTable

LEMMA KeptFresh ==
    ASSUME SInv, NEW p, KeepsOthers(job, job', p), kernel' = kernel
    PROVE  KeepsBut(job, job', p) /\ Fresh'
<1>1. Fresh
  BY DEF SInv
<1>2. KeepsBut(job, job', p)
  BY DEF KeepsOthers, KeepsBut
<1>3. ASSUME NEW s \in Slot, job'.rec[s].pid # 0, "DONE" \notin job'.rec[s].flag
      PROVE  kernel'[job'.rec[s].pid].st # "free"
  BY <1>1, <1>3 DEF KeepsOthers, Fresh
<1>4. QED
  BY <1>2, <1>3 DEF Fresh

LEMMA KeptAll ==
    ASSUME SInv, Keeps(job, job'), kernel' = kernel
    PROVE  KeepsBut(job, job', 0) /\ Fresh'
<1>1. KeepsOthers(job, job', 0)
  BY DEF Keeps, KeepsOthers
<1>2. QED
  BY <1>1, KeptFresh

LEMMA PlainStep ==
    ASSUME TInv, TInv', SInv, Base(Top) \/ Works(Top),
           Chained(stack'), On(Caller) \subseteq On(stack'),
           \A f \in On(stack') : f \in On(Caller) \/ Fits(f)',
           \A g \in On(Caller) : g.fn = "sub" => sh'.curenv # 0,
           ~sh'.trapcom, ~sh'.trapnote, kernel' = kernel, child' = child,
           SameTable(job, job'), StillNamed(0), ~(Top'.fn = "wait" /\ Top'.pc = "reaped")
    PROVE  SInv'
<1>1. Keeps(job, job')
  <2>1. Tidy(job) /\ Good(job')
    BY DEF SInv, TInv, Typed
  <2>2. QED
    BY <2>1, TableSame
<1>2. KeepsBut(job, job', 0) /\ Fresh'
  BY <1>1, KeptAll
<1>3. 0 \notin Pid
  BY PidAssumption
<1>4. QED
  BY <1>2, <1>3, CommandStep

(* An activation goes on at another point. *)
Alters(f) == f \in Frame /\ f.fn = Top.fn /\ (f.fn = "sub" => f.env = Top.env /\ ~f.trapcom)
LEMMA AltersIs ==
    ASSUME Founded(stack), Chained(stack), Base(Top) \/ Works(Top) \/ Top.fn = "unlock",
           NEW f, Alters(f)
    PROVE  Calmly(f) /\ \A g \in On(Caller) : Over(g, f)
<1>1. \A g \in On(Caller) : Over(g, Top)
  BY ChainTop
<1>2. Base(f) \/ Works(f) \/ f.fn = "unlock"
  BY DEF Alters, Base, Works
<1>3. Calmly(f)
  BY <1>2 DEF Calmly, Alters, Base, Works
<1>4. QED
  BY <1>1, <1>2, <1>3 DEF Over, Alters, Base, Works

LEMMA GoesOn ==
    ASSUME Founded(stack), Chained(stack), Base(Top) \/ Works(Top) \/ Top.fn = "unlock",
           NEW f, Alters(f)
    PROVE  /\ Chained(Continue(f)) /\ On(Continue(f)) = On(Caller) \cup {f}
           /\ Continue(f)[Len(Continue(f))] = f
  BY AltersIs, Goes DEF Alters

LEMMA CallsOn ==
    ASSUME Founded(stack), Chained(stack), Base(Top) \/ Works(Top),
           NEW f, Alters(f), NEW h \in Frame, Calmly(h), Over(f, h),
           Works(h) \/ h.fn = "unlock" \/ (h.fn = "reap" /\ ~h.async)
    PROVE  /\ Chained(Call(f, h)) /\ On(Call(f, h)) = On(Caller) \cup {f, h}
           /\ Call(f, h)[Len(Call(f, h))] = h
<1>1. Calmly(f) /\ f \in Frame /\ \A g \in On(Caller) : Over(g, f)
  BY AltersIs DEF Alters
<1>2. \A g \in On(Caller) : Base(g) /\ g.fn # "fork" /\ g.fn # "wait"
  BY Below
<1>3. \A g \in On(Caller) : Over(g, h)
  BY <1>2 DEF Over, Works, Base
<1>4. QED
  BY <1>1, <1>3, Calls2

LEMMA CalmFrames ==
    /\ Calmly(Unlock) /\ \A x : Calmly(Reap(x, FALSE)) /\ ~Reap(x, FALSE).async
    /\ \A f : Base(f) => Over(f, Unlock) /\ \A x : Over(f, Reap(x, FALSE))
    /\ \A f : f.fn = "fork" => Over(f, Unlock) /\ \A x : f.pc # "forked" => Over(f, Reap(x, FALSE))
    /\ \A f : f.fn = "wait" => /\ f.pc \in {"cleanup", "return"} => Over(f, Unlock)
                               /\ \A x : Over(f, Reap(x, FALSE))
  BY DEF Calmly, Unlock, Reap, Over, Base, Works

LEMMA InvIs ==
    ASSUME TInv, SInv
    PROVE  /\ Founded(stack) /\ Chained(stack) /\ Top \in Frame /\ Fits(Top) /\ Calmly(Top)
           /\ \A g \in On(Caller) : g.fn = "sub" => sh.curenv # 0
           /\ Tidy(job) /\ Good(job) /\ Untroubled /\ Fresh
           /\ 0 \notin Pid
<1>1. Founded(stack) /\ Chained(stack) /\ AllFit /\ Tidy(job) /\ Untroubled /\ Fresh
  BY TopIs DEF SInv
<1>2. On(stack) = On(Caller) \cup {Top} /\ Top \in Frame
  BY <1>1, OnTop
<1>3. \A f \in On(stack) : Fits(f)
  BY <1>1 DEF AllFit
<1>4. QED
  BY <1>1, <1>2, <1>3, ChainTop, PidAssumption DEF Fits, Tidy

(* The commands of a program without traps. *)
LEMMA BaseTop ==
    ASSUME TInv, SInv, Top.fn \in {"main", "trap", "sub"}, Top.pc \in {"idle", "post"},
           NEW c \in {"idle", "post"}
    PROVE  /\ Base(Top) /\ Alters(At(c)) /\ (Fits(Top) => Fits(At(c))) /\ Base(At(c)) /\ StillNamed(0)
           /\ At(c).fn \notin {"fork", "wait"} /\ (At(c).fn = "sub" <=> Top.fn = "sub")
<1>1. Calmly(Top) /\ Top \in Frame
  BY InvIs
<1>2. Base(Top)
  BY <1>1 DEF Calmly, Base, Works
<1>3. At(c) \in Frame /\ At(c).fn = Top.fn
  BY <1>1, CommandIs
<1>4. Top.fn = "sub" => At(c).env = Top.env /\ At(c).trapcom = Top.trapcom
  <2>1. ASSUME Top.fn = "sub"
        PROVE  Top \in SubFrame
    BY <1>1, <2>1, Kinds
  <2>2. QED
    BY <2>1 DEF At, SubFrame
<1>5. Alters(At(c))
  BY <1>1, <1>3, <1>4 DEF Alters, Calmly
<1>6. QED
  BY <1>2, <1>3, <1>5 DEF Base, Fits, StillNamed

(* The activation goes on as f, or goes on as f once h returns. *)
Stays(f) ==
    /\ Top.fn = "fork" => Top.pc # "forked"
    /\ Top.fn = "wait" /\ Top.pc \in {"end", "cleanup", "return"} =>
          f.pc \in {"end", "cleanup", "return"} /\ f.pid = Top.pid

LEMMA StaysNamed ==
    ASSUME NEW f, Alters(f), Stays(f), f \in On(stack'), NEW p
    PROVE  StillNamed(p)
<1>1. ASSUME NEW q \in Pid, Top.fn = "wait", Top.pc \in {"end", "cleanup", "return"}, Top.pid = q
      PROVE  Waited(q)'
  <2>1. f.fn = "wait" /\ f.pc \in {"end", "cleanup", "return"} /\ f.pid = q
    BY <1>1 DEF Stays, Alters
  <2>2. QED
    BY <2>1 DEF Waited
<1>2. QED
  BY <1>1 DEF StillNamed, Stays

LEMMA MoveOn ==
    ASSUME TInv, SInv, Base(Top) \/ Works(Top), NEW f, Alters(f), stack' = Continue(f), Fits(f)'
    PROVE  /\ Chained(stack') /\ On(stack') = On(Caller) \cup {f} /\ Top' = f
           /\ On(Caller) \subseteq On(stack')
           /\ \A g \in On(stack') : g \in On(Caller) \/ Fits(g)'
<1>1. Founded(stack) /\ Chained(stack)
  BY InvIs
<1>2. Chained(stack') /\ On(stack') = On(Caller) \cup {f} /\ stack'[Len(stack')] = f
  BY <1>1, GoesOn
<1>3. Top' = f
  BY <1>2 DEF Top
<1>4. ASSUME NEW g \in On(stack'), g \notin On(Caller)
      PROVE  Fits(g)'
  <2>1. g = f
    BY <1>2, <1>4
  <2>2. QED
    BY <2>1
<1>5. QED
  BY <1>2, <1>3, <1>4

LEMMA CallOn ==
    ASSUME TInv, SInv, Base(Top) \/ Works(Top), NEW f, Alters(f),
           NEW h \in Frame, Calmly(h), Over(f, h),
           Works(h) \/ h.fn = "unlock" \/ (h.fn = "reap" /\ ~h.async),
           stack' = Call(f, h), Fits(f)', Fits(h)'
    PROVE  /\ Chained(stack') /\ On(stack') = On(Caller) \cup {f, h} /\ Top' = h
           /\ On(Caller) \subseteq On(stack')
           /\ \A g \in On(stack') : g \in On(Caller) \/ Fits(g)'
<1>1. Founded(stack) /\ Chained(stack)
  BY InvIs
<1>2. Chained(stack') /\ On(stack') = On(Caller) \cup {f, h} /\ stack'[Len(stack')] = h
  BY <1>1, CallsOn
<1>3. Top' = h
  BY <1>2 DEF Top
<1>4. ASSUME NEW g \in On(stack'), g \notin On(Caller)
      PROVE  Fits(g)'
  <2>1. g = f \/ g = h
    BY <1>2, <1>4
  <2>2. QED
    BY <2>1
<1>5. QED
  BY <1>2, <1>3, <1>4

LEMMA MoveStep ==
    ASSUME TInv, TInv', SInv, Base(Top) \/ Works(Top), NEW f, Alters(f), Stays(f),
           stack' = Continue(f), Fits(f)', ~(f.fn = "wait" /\ f.pc = "reaped"),
           sh'.curenv = sh.curenv, ~sh'.trapcom, ~sh'.trapnote, kernel' = kernel, child' = child,
           SameTable(job, job')
    PROVE  SInv'
<1>1. /\ Chained(stack') /\ On(stack') = On(Caller) \cup {f} /\ Top' = f
      /\ On(Caller) \subseteq On(stack')
      /\ \A g \in On(stack') : g \in On(Caller) \/ Fits(g)'
  BY MoveOn
<1>2. StillNamed(0)
  BY <1>1, StaysNamed
<1>3. \A g \in On(Caller) : g.fn = "sub" => sh'.curenv # 0
  BY InvIs
<1>4. ~(Top'.fn = "wait" /\ Top'.pc = "reaped")
  BY <1>1
<1>5. QED
  BY <1>1, <1>2, <1>3, <1>4, PlainStep

LEMMA CallStep ==
    ASSUME TInv, TInv', SInv, Base(Top) \/ Works(Top), NEW f, Alters(f), Stays(f),
           NEW h \in Frame, Calmly(h), Over(f, h),
           Works(h) \/ h.fn = "unlock" \/ (h.fn = "reap" /\ ~h.async),
           stack' = Call(f, h), Fits(f)', Fits(h)', ~(h.fn = "wait" /\ h.pc = "reaped"),
           sh'.curenv = sh.curenv, ~sh'.trapcom, ~sh'.trapnote, kernel' = kernel, child' = child,
           SameTable(job, job')
    PROVE  SInv'
<1>1. /\ Chained(stack') /\ On(stack') = On(Caller) \cup {f, h} /\ Top' = h
      /\ On(Caller) \subseteq On(stack')
      /\ \A g \in On(stack') : g \in On(Caller) \/ Fits(g)'
  BY CallOn
<1>2. StillNamed(0)
  BY <1>1, StaysNamed
<1>3. \A g \in On(Caller) : g.fn = "sub" => sh'.curenv # 0
  BY InvIs
<1>4. ~(Top'.fn = "wait" /\ Top'.pc = "reaped")
  BY <1>1
<1>5. QED
  BY <1>1, <1>2, <1>3, <1>4, PlainStep

LEMMA CommandStands ==
    ASSUME TInv, SInv, Builtin \/ Chktrap
    PROVE  SInv'
<1>1. TInv'
  BY CommandTypes
<1>2. /\ Fits(Top) /\ Untroubled
  BY InvIs
<1>3. /\ sh'.curenv = sh.curenv /\ ~sh'.trapcom /\ ~sh'.trapnote
      /\ job' = job /\ kernel' = kernel /\ child' = child
  <2>1. sh \in Shell
    BY DEF TInv, Typed
  <2>2. QED
    BY <1>2, <2>1 DEF Builtin, Chktrap, Untroubled, Shell
<1>4. PICK c \in {"idle", "post"} : stack' = Continue(At(c))
  BY <1>2 DEF Builtin, Chktrap, Untroubled
<1>5. Top.fn \in {"main", "trap", "sub"} /\ Top.pc \in {"idle", "post"}
  BY DEF Builtin, Chktrap, Idle
<1>6. PICK f : f = At(c)
  OBVIOUS
<1>7. Base(Top) /\ Alters(f) /\ f.fn \in {"main", "trap", "sub"} /\ (f.fn = "sub" => sh.curenv # 0)
  BY <1>2, <1>5, <1>6, BaseTop DEF Fits, Base
<1>8. Stays(f)
  BY <1>5 DEF Stays
<1>9. Fits(f)'
  BY <1>3, <1>7 DEF Fits
<1>10. f.fn # "wait" /\ SameTable(job, job') /\ stack' = Continue(f)
  BY <1>3, <1>4, <1>6, <1>7 DEF SameTable
<1>11. QED
  BY <1>1, <1>3, <1>7, <1>8, <1>9, <1>10, MoveStep

-------------------------------------------------------------------------------
(* The steps that leave the table alone. *)

LEMMA CallsOn2 ==
    ASSUME TInv, SInv, Base(Top), NEW f, Alters(f), Base(f),
           NEW g \in Frame, Calmly(g), Over(f, g), Works(g) \/ (g.fn = "sub" /\ g.env = sh.curenv),
           NEW h \in Frame, Calmly(h), Over(f, h), Over(g, h), h.fn = "unlock" \/ (h.fn = "reap" /\ ~h.async),
           stack' = Append(Call(f, g), h), Fits(f)', Fits(g)'
    PROVE  /\ Chained(stack') /\ On(stack') = On(Caller) \cup {f, g, h} /\ Top' = h
           /\ On(Caller) \subseteq On(stack')
           /\ \A x \in On(stack') : x \in On(Caller) \/ Fits(x)'
<1>1. Founded(stack) /\ Chained(stack)
  BY InvIs
<1>2. \A x \in On(Caller) : Base(x) /\ x.fn \notin {"fork", "wait"}
  BY <1>1, Below
<1>3. /\ Calmly(f) /\ f \in Frame /\ \A x \in On(Caller) : Over(x, f)
  BY <1>1, AltersIs DEF Alters
<1>4. \A x \in On(Caller) : x.fn = "sub" => sh.curenv # 0
  BY InvIs
<1>5. \A x \in On(Caller) : Over(x, g)
  BY <1>2, <1>4 DEF Over, Base, Works
<1>6. \A x \in On(Caller) : Over(x, h)
  BY <1>2 DEF Over, Base, Works
<1>7. /\ Chained(Call(f, g)) /\ On(Call(f, g)) = On(Caller) \cup {f, g} /\ Call(f, g) \in Seq(Frame)
  BY <1>1, <1>3, <1>5, Calls2
<1>8. \A x \in On(Call(f, g)) : Over(x, h)
  BY <1>6, <1>7
<1>9. Chained(stack')
  BY <1>7, <1>8, ChainPush
<1>10. On(stack') = On(Caller) \cup {f, g, h} /\ stack'[Len(stack')] = h
  <2>1. On(stack') = On(Call(f, g)) \cup {h} /\ stack'[Len(stack')] = h
    BY <1>7, OnPush
  <2>2. QED
    BY <1>7, <2>1
<1>11. Fits(h)'
  BY DEF Fits
<1>12. ASSUME NEW x \in On(stack'), x \notin On(Caller)
       PROVE  Fits(x)'
  <2>1. x = f \/ x = g \/ x = h
    BY <1>10, <1>12
  <2>2. QED
    BY <1>11, <2>1
<1>13. QED
  BY <1>9, <1>10, <1>12 DEF Top

LEMMA ReturnOn ==
    ASSUME TInv, SInv, Base(Top) \/ Works(Top), Top.fn # "main", stack' = Caller
    PROVE  /\ Chained(stack') /\ On(stack') = On(Caller)
           /\ Top' \in On(Caller) /\ Base(Top') /\ Top'.fn \notin {"fork", "wait"}
<1>1. Founded(stack) /\ Chained(stack)
  BY InvIs
<1>2. Chained(Caller) /\ Caller[Len(Caller)] \in On(Caller)
  BY <1>1, ChainTop, ReturnsTo
<1>3. Top' = Caller[Len(Caller)]
  BY DEF Top
<1>4. QED
  BY <1>1, <1>2, <1>3, Below

LEMMA TableLocks ==
    ASSUME TInv
    PROVE  /\ SameTable(job, job_lock(job)) /\ SameTable(job, StartReap(job_lock(job)))
           /\ \A x : SameTable(job, StartReap([job EXCEPT !.waitsafe = x]))
           /\ \A x : SameTable(job, [job_lock(job) EXCEPT !.savesig = TRUE, !.waitsafe = x])
  BY DEF TInv, Typed, Good, SameTable, job_lock, StartReap, Job

LEMMA ForkStands ==
    ASSUME TInv, SInv, JobmaxWait \/ JobmaxWaited \/ Ntfork \/ ForkEnd
    PROVE  SInv'
<1>1. TInv'
  BY ForkWaitTypes, ForkEndTypes
<1>2. /\ Top \in Frame /\ Fits(Top) /\ Untroubled
  BY InvIs
<1>3. Top.fn = "fork" /\ Top.pc # "forked"
  BY DEF JobmaxWait, JobmaxWaited, Ntfork, ForkEnd
<1>4. /\ sh' = sh /\ kernel' = kernel /\ child' = child /\ SameTable(job, job')
  BY TableLocks DEF JobmaxWait, JobmaxWaited, Ntfork, ForkEnd, SameTable
<1>5. PICK c \in {"reaped", "jobmax", "assign", "done"} :
         \/ stack' = Continue(At(c)) \/ stack' = Call(At(c), Unlock)
         \/ stack' = Call(At(c), Reap(FALSE, FALSE))
  BY DEF JobmaxWait, JobmaxWaited, Ntfork, ForkEnd
<1>6. PICK f : f = At(c)
  OBVIOUS
<1>7. f \in Frame /\ f.fn = "fork" /\ f.pc = c /\ f.pid = Top.pid /\ f.bg = Top.bg
  <2>1. Top \in ForkFrame /\ At(c) \in ForkFrame /\ At(c) \in Frame
        /\ At(c).fn = "fork" /\ At(c).pc = c /\ At(c).pid = Top.pid
    BY <1>2, <1>3, AtFork
  <2>2. At(c).bg = Top.bg
    BY <2>1 DEF At, ForkFrame
  <2>3. QED
    BY <1>6, <2>1, <2>2
<1>8. Alters(f) /\ Stays(f) /\ Works(Top)
  BY <1>3, <1>7 DEF Alters, Stays, Works
<1>9. Fits(f)'
  <2>1. ForkFits(f)'
    BY <1>2, <1>3, <1>4, <1>7 DEF Fits, ForkFits
  <2>2. QED
    BY <1>7, <2>1 DEF Fits
<1>10. ~sh'.trapcom /\ ~sh'.trapnote
  BY <1>2, <1>4 DEF Untroubled
<1>11. CASE stack' = Continue(At(c))
  BY <1>1, <1>4, <1>6, <1>7, <1>8, <1>9, <1>10, <1>11, MoveStep
<1>12. CASE \/ stack' = Call(At(c), Unlock) \/ stack' = Call(At(c), Reap(FALSE, FALSE))
  <2>1. PICK h \in {Unlock, Reap(FALSE, FALSE)} : stack' = Call(f, h)
    BY <1>6, <1>12
  <2>2. h \in Frame /\ Calmly(h)
    BY <2>1, FramesAre, CalmFrames
  <2>3. Over(f, h)
    BY <1>7, <2>1, CalmFrames
  <2>4. h.fn = "unlock" \/ (h.fn = "reap" /\ ~h.async)
    BY DEF Unlock, Reap
  <2>5. Fits(h)'
    BY <2>4 DEF Fits
  <2>6. ~(h.fn = "wait" /\ h.pc = "reaped")
    BY <2>4
  <2>7. QED
    BY <1>1, <1>4, <1>8, <1>9, <1>10, <2>1, <2>2, <2>3, <2>4, <2>5, <2>6, CallStep
<1>13. QED
  BY <1>5, <1>11, <1>12

(* The shell starts a command that forks or waits. *)
LEMMA IdleIs ==
    ASSUME TInv, SInv, Idle
    PROVE  \E f : /\ f = At("post") /\ f \in Frame /\ Base(Top) /\ Alters(f) /\ Base(f) /\ Stays(f)
                  /\ f.fn \in {"main", "trap", "sub"} /\ (f.fn = "sub" => sh.curenv # 0)
<1>1. Fits(Top)
  BY InvIs
<1>2. QED
  BY <1>1, BaseTop DEF Idle, Fits, Base, Stays, Alters

LEMMA StartStands ==
    ASSUME TInv, SInv, StartFork \/ WaitAll
    PROVE  SInv'
<1>1. TInv'
  BY StartForkTypes, WaitAllTypes
<1>2. Idle /\ Untroubled
  BY InvIs DEF StartFork, WaitAll
<1>3. PICK f : /\ f = At("post") /\ f \in Frame /\ Base(Top) /\ Alters(f) /\ Base(f) /\ Stays(f)
               /\ f.fn \in {"main", "trap", "sub"} /\ (f.fn = "sub" => sh.curenv # 0)
  BY <1>2, IdleIs
<1>4. /\ sh' = sh /\ kernel' = kernel /\ child' = child /\ SameTable(job, job')
  BY TableLocks DEF StartFork, WaitAll, SameTable
<1>5. PICK h : /\ h \in {Fork(TRUE), Fork(FALSE), Wait(0, 0, "loop", FALSE)} /\ stack' = Call(f, h)
  BY <1>3 DEF StartFork, WaitAll
<1>6. h \in Frame
  <2>1. Fork(TRUE) \in Frame /\ Fork(FALSE) \in Frame
    BY PlainFrames DEF Plain, Apt
  <2>2. QED
    BY <1>5, <2>1, WalkFrames
<1>7. /\ Works(h) /\ Fits(h)' /\ Calmly(h) /\ ~(h.fn = "wait" /\ h.pc = "reaped")
  BY <1>5 DEF Fork, Wait, Works, Fits, ForkFits, WaitFits, Calmly
<1>8. Over(f, h)
  BY <1>3, <1>7 DEF Over, Works
<1>9. Fits(f)'
  BY <1>3, <1>4 DEF Fits
<1>10. ~sh'.trapcom /\ ~sh'.trapnote
  BY <1>2, <1>4 DEF Untroubled
<1>11. QED
  BY <1>1, <1>3, <1>4, <1>5, <1>6, <1>7, <1>8, <1>9, <1>10, CallStep

LEMMA JobsStands ==
    ASSUME TInv, SInv, Jobs
    PROVE  SInv'
<1>1. TInv'
  BY WaitAllTypes
<1>2. Idle /\ Untroubled
  BY InvIs DEF Jobs
<1>3. PICK f : /\ f = At("post") /\ f \in Frame /\ Base(Top) /\ Alters(f) /\ Base(f) /\ Stays(f)
               /\ f.fn \in {"main", "trap", "sub"} /\ (f.fn = "sub" => sh.curenv # 0)
  BY <1>2, IdleIs
<1>4. /\ sh' = sh /\ kernel' = kernel /\ child' = child /\ SameTable(job, job')
  BY TableLocks DEF Jobs, SameTable
<1>5. PICK w : w = Wait(0, 0, "walk", FALSE)
  OBVIOUS
<1>6. stack' = Call(f, w) \/ stack' = Append(Call(f, w), Reap(TRUE, FALSE))
  BY <1>3, <1>5 DEF Jobs
<1>7. /\ w \in Frame /\ Works(w) /\ Fits(w)' /\ Calmly(w) /\ ~(w.fn = "wait" /\ w.pc = "reaped")
      /\ w.fn = "wait" /\ w.pc = "walk"
  BY <1>5, WalkFrames DEF Wait, Works, Fits, WaitFits, Calmly
<1>8. Over(f, w)
  BY <1>3, <1>7 DEF Over, Works
<1>9. Fits(f)'
  BY <1>3, <1>4 DEF Fits
<1>10. ~sh'.trapcom /\ ~sh'.trapnote
  BY <1>2, <1>4 DEF Untroubled
<1>11. CASE stack' = Call(f, w)
  BY <1>1, <1>3, <1>4, <1>7, <1>8, <1>9, <1>10, <1>11, CallStep
<1>12. CASE stack' = Append(Call(f, w), Reap(TRUE, FALSE))
  <2>1. PICK h : h = Reap(TRUE, FALSE)
    OBVIOUS
  <2>2. h \in Frame /\ Calmly(h) /\ Over(f, h) /\ Over(w, h) /\ h.fn = "reap" /\ ~h.async
    BY <1>3, <1>7, <2>1, FramesAre, CalmFrames DEF Reap
  <2>3. /\ Chained(stack') /\ On(stack') = On(Caller) \cup {f, w, h} /\ Top' = h
        /\ On(Caller) \subseteq On(stack')
        /\ \A x \in On(stack') : x \in On(Caller) \/ Fits(x)'
    BY <1>3, <1>7, <1>8, <1>9, <1>12, <2>1, <2>2, CallsOn2
  <2>4. StillNamed(0)
    BY <1>3, <2>3, StaysNamed
  <2>5. \A g \in On(Caller) : g.fn = "sub" => sh'.curenv # 0
    BY <1>4, InvIs
  <2>6. ~(Top'.fn = "wait" /\ Top'.pc = "reaped")
    BY <2>2, <2>3
  <2>7. QED
    BY <1>1, <1>3, <1>4, <1>10, <2>3, <2>4, <2>5, <2>6, PlainStep
<1>13. QED
  BY <1>6, <1>11, <1>12

LEMMA ForkDoneStands ==
    ASSUME TInv, SInv, ForkDone
    PROVE  SInv'
<1>1. TInv'
  BY ForkEndTypes
<1>2. /\ Untroubled /\ \A g \in On(Caller) : g.fn = "sub" => sh.curenv # 0
  BY InvIs
<1>3. sh'.curenv = sh.curenv /\ ~sh'.trapcom /\ ~sh'.trapnote
  <2>1. sh \in Shell
    BY DEF TInv, Typed
  <2>2. QED
    BY <1>2, <2>1 DEF ForkDone, Untroubled, Shell
<1>4. Works(Top) /\ Top.fn = "fork" /\ Top.pc = "done" /\ stack' = Caller
      /\ kernel' = kernel /\ child' = child /\ SameTable(job, job')
  BY DEF ForkDone, Works, SameTable
<1>5. /\ Chained(stack') /\ On(stack') = On(Caller)
      /\ Top' \in On(Caller) /\ Top'.fn \notin {"fork", "wait"}
  BY <1>4, ReturnOn
<1>6. StillNamed(0)
  BY <1>4 DEF StillNamed
<1>7. QED
  BY <1>1, <1>2, <1>3, <1>4, <1>5, <1>6, PlainStep

LEMMA SubResetStands ==
    ASSUME TInv, SInv, SubReset
    PROVE  SInv'
<1>1. TInv'
  BY SubResetTypes
<1>2. Top \in Frame /\ Fits(Top) /\ Calmly(Top) /\ Top.fn = "sub"
  BY InvIs DEF SubReset
<1>3. /\ sh'.curenv = sh.curenv /\ ~sh'.trapcom /\ ~sh'.trapnote
      /\ kernel' = kernel /\ child' = child /\ SameTable(job, job')
  <2>1. sh \in Shell
    BY DEF TInv, Typed
  <2>2. QED
    BY <2>1 DEF SubReset, sh_sigreset, Shell, SameTable
<1>4. PICK f : f = At("idle")
  OBVIOUS
<1>5. f \in Frame /\ f.fn = "sub" /\ f.env = Top.env /\ f.trapcom = Top.trapcom
  <2>1. Top \in SubFrame /\ At("idle") \in Frame /\ At("idle").fn = "sub"
    BY <1>2, AtSub
  <2>2. QED
    BY <1>4, <2>1 DEF At, SubFrame
<1>6. Alters(f) /\ Stays(f) /\ Base(Top)
  BY <1>2, <1>5 DEF Alters, Stays, Base, Calmly
<1>7. Fits(f)'
  BY <1>2, <1>3, <1>5 DEF Fits
<1>8. stack' = Continue(f) /\ f.fn # "wait"
  BY <1>4, <1>5 DEF SubReset
<1>9. QED
  BY <1>1, <1>3, <1>6, <1>7, <1>8, MoveStep

(* job_wait goes on at point c, or ends with status x. *)
WaitsAs(f, c, x) ==
    /\ f \in Frame /\ f.fn = "wait" /\ f.pc = c /\ f.pid = Top.pid /\ f.pw = Top.pw
    /\ f.owed = Top.owed /\ f.exitval = x /\ Alters(f)
LEMMA WaitsIs ==
    ASSUME TInv, SInv, Top.fn = "wait"
    PROVE  /\ Works(Top) /\ Top \in WaitFrame /\ WaitFits(Top) /\ Untroubled
           /\ \A c \in {"walk", "loop", "reaped", "end", "cleanup", "return"} :
                 WaitsAs(At(c), c, Top.exitval)
           /\ \A x \in Status \cup {0, 1, NotFound} :
                 WaitsAs([Top EXCEPT !.pc = "end", !.exitval = x], "end", x)
<1>1. Top \in Frame /\ Fits(Top) /\ Untroubled
  BY InvIs
<1>2. Top \in WaitFrame
  BY <1>1, Kinds
<1>3. WaitFrame \subseteq Frame
  BY DEF Frame
<1>4. ASSUME NEW c \in {"walk", "loop", "reaped", "end", "cleanup", "return"}
      PROVE  WaitsAs(At(c), c, Top.exitval)
  <2>1. PICK f : f = At(c)
    OBVIOUS
  <2>2. /\ f \in WaitFrame /\ f.fn = "wait" /\ f.pc = c /\ f.pid = Top.pid /\ f.pw = Top.pw
        /\ f.owed = Top.owed /\ f.exitval = Top.exitval
    BY <1>2, <2>1 DEF At, WaitFrame
  <2>3. WaitsAs(f, c, Top.exitval)
    BY <1>3, <2>2 DEF WaitsAs, Alters
  <2>4. QED
    BY <2>1, <2>3
<1>5. ASSUME NEW x \in Status \cup {0, 1, NotFound}
      PROVE  WaitsAs([Top EXCEPT !.pc = "end", !.exitval = x], "end", x)
  <2>1. PICK f : f = [Top EXCEPT !.pc = "end", !.exitval = x]
    OBVIOUS
  <2>2. /\ f \in WaitFrame /\ f.fn = "wait" /\ f.pc = "end" /\ f.pid = Top.pid /\ f.pw = Top.pw
        /\ f.owed = Top.owed /\ f.exitval = x
    BY <1>2, <2>1 DEF WaitFrame
  <2>3. WaitsAs(f, "end", x)
    BY <1>3, <2>2 DEF WaitsAs, Alters
  <2>4. QED
    BY <2>1, <2>3
<1>6. Works(Top) /\ WaitFits(Top)
  BY <1>1, <1>2 DEF Works, Fits, WaitFrame
<1>7. QED
  BY <1>1, <1>2, <1>4, <1>5, <1>6

LEMMA WaitEndStands ==
    ASSUME TInv, SInv, WaitEnd \/ (WaitCleanup /\ sh.intrap # 0)
    PROVE  SInv'
<1>1. TInv'
  BY WaitReapedTypes, WaitCleanupTypes
<1>2. Top.fn = "wait" /\ Top.pc \in {"end", "cleanup"}
      /\ sh' = sh /\ kernel' = kernel /\ child' = child /\ job' = job
  BY DEF WaitEnd, WaitCleanup
<1>3. PICK c \in {"cleanup", "return"} : stack' = Call(At(c), Unlock) \/ stack' = Continue(At(c))
  BY DEF WaitEnd, WaitCleanup
<1>4. Works(Top) /\ Top \in WaitFrame /\ WaitFits(Top) /\ Untroubled
  BY <1>2, WaitsIs
<1>5. PICK f : f = At(c)
  OBVIOUS
<1>6. /\ f \in Frame /\ f.fn = "wait" /\ f.pc = c /\ f.pid = Top.pid /\ f.pw = Top.pw
      /\ f.owed = Top.owed /\ f.exitval = Top.exitval /\ Alters(f)
  <2>1. WaitsAs(f, c, Top.exitval)
    BY <1>2, <1>3, <1>5, WaitsIs
  <2>2. QED
    BY <2>1 DEF WaitsAs
<1>7. Stays(f)
  BY <1>2, <1>6 DEF Stays
<1>8. WaitFits(f)'
  BY <1>2, <1>4, <1>6 DEF WaitFits
<1>9. Fits(f)'
  BY <1>6, <1>8 DEF Fits
<1>10. ~sh'.trapcom /\ ~sh'.trapnote /\ SameTable(job, job')
  BY <1>2, <1>4 DEF Untroubled, SameTable
<1>11. PICK h : h = Unlock
  OBVIOUS
<1>12. h \in Frame /\ Calmly(h) /\ Over(f, h) /\ h.fn = "unlock"
  BY <1>6, <1>11, FramesAre, CalmFrames DEF Unlock
<1>13. Fits(h)'
  BY <1>12 DEF Fits
<1>14. CASE stack' = Continue(At(c))
  BY <1>1, <1>2, <1>4, <1>5, <1>6, <1>7, <1>9, <1>10, <1>14, MoveStep
<1>15. CASE stack' = Call(At(c), Unlock)
  BY <1>1, <1>2, <1>4, <1>5, <1>6, <1>7, <1>9, <1>10, <1>11, <1>12, <1>13, <1>15, CallStep
<1>16. QED
  BY <1>3, <1>14, <1>15

LEMMA SlackBound ==
    ASSUME TInv, IsFiniteSet(Living)
    PROVE  Slack \in Nat /\ Slack <= 2 * Cardinality(Living) + 1
           /\ IsFiniteSet(Running) /\ IsFiniteSet(Dead)
           /\ Cardinality(Running) \in Nat /\ Cardinality(Dead) \in Nat
<1>1. Running \subseteq Living /\ Dead \subseteq Living
  BY DEF Running, Dead, Living
<1>2. IsFiniteSet(Running) /\ IsFiniteSet(Dead)
  BY <1>1, FS_Subset
<1>3. Cardinality(Running) \in Nat /\ Cardinality(Dead) \in Nat /\ Cardinality(Living) \in Nat
  BY <1>2, FS_CardinalityType
<1>4. Dead \subseteq Living \ Running
  BY DEF Running, Dead, Living
<1>5. IsFiniteSet(Living \ Running) /\ Cardinality(Living \ Running) = Cardinality(Living) - Cardinality(Living \cap Running)
  BY FS_Difference
<1>6. Living \cap Running = Running
  BY <1>1
<1>7. Cardinality(Dead) <= Cardinality(Living \ Running)
  BY <1>4, <1>5, FS_Subset
<1>8. PICK b \in {0, 1} : Slack = 2 * Cardinality(Running) + Cardinality(Dead) + b
  BY DEF Slack
<1>9. Cardinality(Dead) <= Cardinality(Living) - Cardinality(Running)
  BY <1>5, <1>6, <1>7
<1>10. QED
  BY <1>2, <1>3, <1>8, <1>9

LEMMA WaitReapStands ==
    ASSUME TInv, IsFiniteSet(Living), FewChildren, SInv, WaitReap
    PROVE  SInv'
<1>1. TInv'
  BY WaitReapTypes
<1>2. /\ Top.fn = "wait" /\ Top.pc = "loop" /\ sh' = sh /\ kernel' = kernel /\ child' = child
      /\ sigchld' = sigchld /\ SameTable(job, job') /\ job'.waitsafe = 0
      /\ (Top.pw # 0 => "DONE" \notin job.rec[Top.pw].flag)
  <2>1. job'.waitsafe = 0
    BY DEF TInv, Typed, Good, Job, WaitReap, StartReap
  <2>2. QED
    BY <2>1, TableLocks DEF WaitReap, Reported, Flag
<1>3. Works(Top) /\ Top \in WaitFrame /\ WaitFits(Top) /\ Untroubled
  BY <1>2, WaitsIs
<1>4. PICK f : f = At("reaped")
  OBVIOUS
<1>5. /\ f \in Frame /\ f.fn = "wait" /\ f.pc = "reaped" /\ f.pid = Top.pid /\ f.pw = Top.pw
      /\ f.owed = Top.owed /\ f.exitval = Top.exitval /\ Alters(f)
  BY <1>2, <1>4, WaitsIs DEF WaitsAs
<1>6. Stays(f)
  BY <1>2 DEF Stays
<1>7. job'.waitsafe + Slack' < WaitsafeMod
  <2>1. Slack' = Slack
    BY <1>2 DEF Slack, Running, Dead
  <2>2. Slack \in Nat /\ Slack <= 2 * Cardinality(Living) + 1 /\ Cardinality(Living) \in Nat
    BY SlackBound, FS_CardinalityType
  <2>3. QED
    BY <1>2, <2>1, <2>2, LimitAssumption DEF FewChildren
<1>8. WaitFits(f)'
  BY <1>2, <1>3, <1>5, <1>7 DEF WaitFits, SameTable
<1>9. Fits(f)'
  BY <1>5, <1>8 DEF Fits
<1>10. ~sh'.trapcom /\ ~sh'.trapnote
  BY <1>2, <1>3 DEF Untroubled
<1>11. PICK h : h = Reap(job.savesig, FALSE)
  OBVIOUS
<1>12. h \in Frame /\ Calmly(h) /\ Over(f, h) /\ h.fn = "reap" /\ ~h.async
  <2>1. job.savesig \in BOOLEAN
    BY DEF TInv, Typed, Good, Job
  <2>2. QED
    BY <1>5, <1>11, <2>1, FramesAre, CalmFrames DEF Reap
<1>13. Fits(h)'
  BY <1>12 DEF Fits
<1>14. stack' = Call(f, h)
  BY <1>4, <1>11 DEF WaitReap
<1>15. ~(h.fn = "wait" /\ h.pc = "reaped")
  BY <1>12
<1>16. QED
  BY <1>1, <1>2, <1>3, <1>5, <1>6, <1>9, <1>10, <1>12, <1>13, <1>14, <1>15, CallStep

(* Nobody is lost: the record that job_wait watches would have been marked. *)
LEMMA NotMissed ==
    ASSUME TInv, SInv, Top.fn = "wait", Top.pc = "reaped", Top.owed, job.waitsafe = 0
    PROVE  ~job.nochild
<1> SUFFICES ASSUME job.nochild PROVE FALSE
  OBVIOUS
<1>1. Stands /\ Asked /\ Tidy(job) /\ Founded(stack) /\ Chained(stack)
  BY InvIs DEF SInv
<1>2. WaitFits(Top) /\ Works(Top) /\ Top \in WaitFrame
  BY WaitsIs
<1>3. /\ Top.pid \in Pid /\ Top.pw # 0 /\ job.rec[Top.pw].pid = Top.pid /\ child[Top.pid].owed
      /\ Top.pid \notin job.evicted /\ "DONE" \notin job.rec[Top.pw].flag
  BY <1>2 DEF WaitFits
<1>4. Top.pw \in Slot
  BY <1>2, <1>3 DEF WaitFrame
<1>5. Standing(Top.pid) /\ kernel[Top.pid].st = "free"
  BY <1>1, <1>3 DEF Stands, Asked
<1>6. On(stack) = On(Caller) \cup {Top} /\ \A g \in On(Caller) : g.fn \notin {"fork", "wait"}
  BY <1>1, <1>2, OnTop, Below
<1>7. ~Forked(Top.pid) /\ ~Waited(Top.pid)
  BY <1>6 DEF Forked, Waited
<1>8. Stored(job, Top.pid, child[Top.pid].status)
  BY <1>5, <1>7 DEF Standing
<1>9. Top.pid # 0
  BY <1>3, PidAssumption
<1>10. ~HasEntry(job.bck, Top.pid)
  BY <1>1, <1>3, <1>4, <1>9 DEF Tidy, Parted
<1>11. ~SavedAs(job.bck, Top.pid, child[Top.pid].status)
  BY <1>10, SavedHas
<1>12. PICK s \in Slot : job.rec[s].pid = Top.pid /\ "DONE" \in job.rec[s].flag
  BY <1>8, <1>11 DEF Stored, Posts
<1>13. s = Top.pw
  BY <1>1, <1>3, <1>4, <1>9, <1>12 DEF Tidy, OneRecord
<1>14. QED
  BY <1>3, <1>12, <1>13

LEMMA WaitReapedStands ==
    ASSUME TInv, SInv, WaitReaped
    PROVE  SInv'
<1>1. TInv'
  BY WaitReapedTypes
<1>2. Top.fn = "wait" /\ Top.pc = "reaped"
      /\ sh' = sh /\ kernel' = kernel /\ child' = child /\ job' = job
  BY DEF WaitReaped
<1>3. Works(Top) /\ Top \in WaitFrame /\ WaitFits(Top) /\ Untroubled
  BY <1>2, WaitsIs
<1>4. Top.exitval \in Status \cup {0, 1, NotFound}
  BY <1>3 DEF WaitFrame
<1>5. ~sh'.trapcom /\ ~sh'.trapnote /\ SameTable(job, job')
  BY <1>2, <1>3 DEF Untroubled, SameTable
<1>6. CASE stack' = Continue(At("loop"))
  <2>1. PICK f : f = At("loop")
    OBVIOUS
  <2>2. /\ f \in Frame /\ f.fn = "wait" /\ f.pc = "loop" /\ f.pid = Top.pid /\ f.pw = Top.pw
        /\ f.owed = Top.owed /\ f.exitval = Top.exitval /\ Alters(f)
    BY <1>2, <1>4, <2>1, WaitsIs DEF WaitsAs
  <2>3. WaitFits(f)'
    BY <1>2, <1>3, <2>2 DEF WaitFits
  <2>4. Fits(f)' /\ Stays(f)
    BY <1>2, <2>2, <2>3 DEF Fits, Stays
  <2>5. QED
    BY <1>1, <1>2, <1>3, <1>5, <1>6, <2>1, <2>2, <2>4, MoveStep
<1>7. CASE job.waitsafe = 0 /\ job.nochild /\ stack' = WaitEnds(Top, Top.exitval)
  <2>1. PICK f : f = [Top EXCEPT !.pc = "end", !.exitval = Top.exitval]
    OBVIOUS
  <2>2. /\ f \in Frame /\ f.fn = "wait" /\ f.pc = "end" /\ f.pid = Top.pid /\ f.pw = Top.pw
        /\ f.owed = Top.owed /\ f.exitval = Top.exitval /\ Alters(f)
    BY <1>2, <1>4, <2>1, WaitsIs DEF WaitsAs
  <2>3. ~f.owed
    BY <1>2, <1>7, <2>2, NotMissed
  <2>4. WaitFits(f)'
    BY <2>2, <2>3 DEF WaitFits
  <2>5. Fits(f)' /\ Stays(f)
    BY <1>2, <2>2, <2>4 DEF Fits, Stays
  <2>6. stack' = Continue(f)
    BY <1>3, <1>7, <2>1 DEF WaitEnds, Untroubled
  <2>7. QED
    BY <1>1, <1>2, <1>3, <1>5, <2>2, <2>5, <2>6, MoveStep
<1>8. QED
  BY <1>3, <1>6, <1>7 DEF WaitReaped, Untroubled

LEMMA WaitReturnStands ==
    ASSUME TInv, SInv, WaitReturn
    PROVE  SInv'
<1>1. Top.fn = "wait" /\ Top.pc = "return"
      /\ sh' = sh /\ kernel' = kernel /\ job' = job /\ stack' = Caller
  BY DEF WaitReturn
<1>2. Works(Top) /\ Top \in WaitFrame /\ Untroubled
  BY <1>1, WaitsIs
<1>3. /\ \A q \in Pid : child'[q].status = child[q].status /\ (child'[q].owed => child[q].owed)
      /\ Top.pid \in Pid => ~child'[Top.pid].owed
  <2>1. child \in [Pid -> Child] /\ Top.pid \in Pid \cup {0} /\ 0 \notin Pid
    BY <1>2, PidAssumption DEF TInv, Typed, WaitFrame
  <2>2. CASE Top.pid = 0
    BY <2>1, <2>2 DEF WaitReturn
  <2>3. CASE Top.pid # 0
    BY <2>1, <2>3 DEF WaitReturn, Child
  <2>4. QED
    BY <2>2, <2>3
<1>4. PICK p : p = Top.pid
  OBVIOUS
<1>5. /\ Chained(stack') /\ On(stack') = On(Caller)
      /\ Top' \in On(Caller) /\ Top'.fn \notin {"fork", "wait"}
  BY <1>1, <1>2, ReturnOn
<1>6. StillNamed(p)
  BY <1>1, <1>4 DEF StillNamed
<1>7. KeepsBut(job, job', p) /\ Fresh'
  <2>1. KeepsOthers(job, job', p)
    BY <1>1, KeepsOnce, InvIs DEF Keeps, KeepsOthers
  <2>2. QED
    BY <1>1, <2>1, KeptFresh
<1>8. \A g \in On(Caller) : g.fn = "sub" => sh'.curenv # 0
  BY <1>1, InvIs
<1>9. ~(p \in Pid /\ child'[p].owed)
  BY <1>3, <1>4
<1>10. ~sh'.trapcom /\ ~sh'.trapnote
  BY <1>1, <1>2 DEF Untroubled
<1>11. QED
  BY <1>1, <1>2, <1>3, <1>5, <1>6, <1>7, <1>8, <1>9, <1>10, CommandStep

-------------------------------------------------------------------------------
(* The steps that change the table: whoever is not waited for is kept. *)

LEMMA TableStep ==
    ASSUME TInv, SInv, Base(Top) \/ Works(Top),
           Chained(stack'), On(Caller) \subseteq On(stack'),
           \A f \in On(stack') : f \in On(Caller) \/ Fits(f)',
           ~(Top'.fn = "wait" /\ Top'.pc = "reaped"),
           sh'.curenv = sh.curenv, ~sh'.trapcom, ~sh'.trapnote, kernel' = kernel, child' = child,
           NEW p, KeepsOthers(job, job', p), StillNamed(p),
           p \in Pid /\ child[p].owed /\ p \notin job'.evicted => Standing(p)'
    PROVE  SInv'
<1>1. KeepsBut(job, job', p) /\ Fresh'
  BY KeptFresh
<1>2. \A g \in On(Caller) : g.fn = "sub" => sh'.curenv # 0
  BY InvIs
<1>3. QED
  BY <1>1, <1>2, CommandStep

LEMMA GoOn ==
    ASSUME TInv, SInv, Base(Top) \/ Works(Top), NEW f \in Frame, Calmly(f),
           Works(f) \/ f.fn = "unlock", stack' = Continue(f), Fits(f)'
    PROVE  /\ Chained(stack') /\ On(stack') = On(Caller) \cup {f} /\ Top' = f
           /\ On(Caller) \subseteq On(stack')
           /\ \A g \in On(stack') : g \in On(Caller) \/ Fits(g)'
<1>1. Founded(stack) /\ Chained(stack)
  BY InvIs
<1>2. \A g \in On(Caller) : Over(g, f)
  <2>1. \A g \in On(Caller) : Base(g) /\ g.fn \notin {"fork", "wait"}
    BY <1>1, Below
  <2>2. QED
    BY <2>1 DEF Over, Base, Works
<1>3. Chained(stack') /\ On(stack') = On(Caller) \cup {f} /\ stack'[Len(stack')] = f
  BY <1>1, <1>2, Goes
<1>4. ASSUME NEW g \in On(stack'), g \notin On(Caller)
      PROVE  Fits(g)'
  <2>1. g = f
    BY <1>3, <1>4
  <2>2. QED
    BY <2>1
<1>5. QED
  BY <1>3, <1>4 DEF Top

LEMMA LockedKeeps ==
    ASSUME NEW j, NEW a, NEW p, KeepsOthers(j, a, p)
    PROVE  KeepsOthers(j, job_lock(a), p)
<1>1. Tidy(a)
  BY DEF KeepsOthers
<1>2. Good(a) /\ Good(job_lock(a)) /\ SameTable(a, job_lock(a))
  <2>1. Good(a)
    BY <1>1 DEF Tidy
  <2>2. QED
    BY <2>1, LockIs DEF Same, SameTable
<1>3. Keeps(a, job_lock(a))
  BY <1>1, <1>2, TableSame
<1>4. QED
  BY <1>3, OthersKept

LEMMA KeepsAny ==
    ASSUME NEW j, NEW a, Keeps(j, a), NEW p
    PROVE  KeepsOthers(j, a, p)
  BY DEF Keeps, KeepsOthers

(* Where the status of a child with a record is. *)
LEMMA StoredAt ==
    ASSUME TInv, SInv, NEW p \in Pid, child[p].owed, p \notin job.evicted, ~Forked(p), ~Waited(p)
    PROVE  /\ \A s \in Slot : job.rec[s].pid = p =>
                 /\ job.rec[s].env = 0
                 /\ "DONE" \in job.rec[s].flag => /\ job.rec[s].exit = child[p].status
                                                  /\ kernel[p].st = "free"
           /\ (\A s \in Slot : job.rec[s].pid # p) =>
                 kernel[p].st = "free" /\ SavedAs(job.bck, p, child[p].status)
<1>1. Tidy(job) /\ Standing(p)
  BY DEF SInv, Stands
<1>2. p # 0
  BY PidAssumption
<1>3. ASSUME NEW s \in Slot, job.rec[s].pid = p
      PROVE  /\ job.rec[s].env = 0
             /\ "DONE" \in job.rec[s].flag => /\ job.rec[s].exit = child[p].status
                                              /\ kernel[p].st = "free"
  <2>1. ~HasEntry(job.bck, p)
    BY <1>1, <1>2, <1>3 DEF Tidy, Parted
  <2>2. ~SavedAs(job.bck, p, child[p].status)
    BY <2>1, SavedHas
  <2>3. \A t \in Slot : job.rec[t].pid = p => t = s
    BY <1>1, <1>2, <1>3 DEF Tidy, OneRecord
  <2>4. CASE Runs(job.rec, p)
    BY <2>3, <2>4 DEF Runs, Posts
  <2>5. CASE kernel[p].st = "free" /\ Stored(job, p, child[p].status)
    BY <2>2, <2>3, <2>5 DEF Stored, Posts
  <2>6. QED
    BY <1>1, <2>4, <2>5 DEF Standing
<1>4. (\A s \in Slot : job.rec[s].pid # p) =>
         kernel[p].st = "free" /\ SavedAs(job.bck, p, child[p].status)
  BY <1>1 DEF Standing, Runs, Stored, Posts
<1>5. QED
  BY <1>3, <1>4

LEMMA WaitDoneStands ==
    ASSUME TInv, SInv, WaitDone
    PROVE  SInv'
<1>1. Top.fn = "wait" /\ Top.pc = "loop" /\ sh' = sh /\ kernel' = kernel /\ child' = child
      /\ Top.pw # 0 /\ "DONE" \in job.rec[Top.pw].flag
  BY DEF WaitDone, Reported, Flag
<1>2. Works(Top) /\ Top \in WaitFrame /\ WaitFits(Top) /\ Untroubled
  BY <1>1, WaitsIs
<1>3. PICK s : s = Top.pw
  OBVIOUS
<1>4. PICK p : p = Top.pid
  OBVIOUS
<1>5. /\ s \in Slot /\ p \in Pid /\ job.rec[s].pid = p
  BY <1>1, <1>2, <1>3, <1>4 DEF WaitFits, WaitFrame
<1>6. Tidy(job) /\ Good(job) /\ Founded(stack) /\ Chained(stack)
  BY InvIs
<1>7. job.rec[s].exit \in Status \cup {0, 1, NotFound}
  BY <1>5, <1>6 DEF Good, Job, Process
<1>8. PICK f : f = [Top EXCEPT !.pc = "end", !.exitval = job.rec[s].exit]
  OBVIOUS
<1>9. /\ f \in Frame /\ f.fn = "wait" /\ f.pc = "end" /\ f.pid = p /\ f.pw = s
      /\ f.owed = Top.owed /\ f.exitval = job.rec[s].exit /\ Alters(f)
  <2>1. WaitsAs(f, "end", job.rec[s].exit)
    BY <1>1, <1>7, <1>8, WaitsIs
  <2>2. QED
    BY <1>3, <1>4, <2>1 DEF WaitsAs
<1>10. KeepsOthers(job, job', p)
  <2>1. PICK F : F = Flag(job, s) \ ({"NOTIFY"} \cup IF Top.intr THEN {"EXITSAVE"} ELSE {})
    OBVIOUS
  <2>2. F \in SUBSET Flag(job, s) /\ ("DONE" \in Flag(job, s) => "DONE" \in F)
    BY <2>1
  <2>3. KeepsOthers(job, SetFlag(job, s, F), p)
    BY <1>5, <1>6, <2>2, FlagKeeps
  <2>4. Tidy(SetFlag(job, s, F))
    BY <2>3 DEF KeepsOthers
  <2>5. Keeps(SetFlag(job, s, F), job_unpost(SetFlag(job, s, F), s, TRUE))
    BY <1>5, <2>4, UnpostKeeps
  <2>6. job' = job_unpost(SetFlag(job, s, F), s, TRUE)
    BY <1>3, <2>1 DEF WaitDone
  <2>7. QED
    BY <2>3, <2>5, <2>6, OthersKept
<1>11. WaitFits(f)'
  <2>1. ASSUME Top.owed
        PROVE  f.exitval = child[p].status /\ kernel[p].st = "free"
    <3>1. child[p].owed /\ p \notin job.evicted
      BY <1>1, <1>2, <1>4, <2>1 DEF WaitFits
    <3>2. On(stack) = On(Caller) \cup {Top} /\ \A g \in On(Caller) : g.fn \notin {"fork", "wait"}
      BY <1>2, <1>6, OnTop, Below
    <3>3. ~Forked(p) /\ ~Waited(p)
      BY <1>1, <3>2 DEF Forked, Waited
    <3>4. QED
      BY <1>1, <1>3, <1>5, <1>9, <3>1, <3>3, StoredAt
  <2>2. QED
    BY <1>1, <1>5, <1>9, <2>1 DEF WaitFits
<1>12. Fits(f)'
  BY <1>9, <1>11 DEF Fits
<1>13. stack' = Continue(f)
  BY <1>2, <1>3, <1>8 DEF WaitDone, WaitEnds, Untroubled
<1>14. /\ Chained(stack') /\ On(stack') = On(Caller) \cup {f} /\ Top' = f
       /\ On(Caller) \subseteq On(stack')
       /\ \A g \in On(stack') : g \in On(Caller) \/ Fits(g)'
  BY <1>2, <1>9, <1>12, <1>13, MoveOn
<1>15. StillNamed(p)
  BY <1>1 DEF StillNamed
<1>16. Standing(p)'
  <2>1. Waited(p)'
    BY <1>9, <1>14 DEF Waited
  <2>2. QED
    BY <2>1 DEF Standing
<1>17. ~sh'.trapcom /\ ~sh'.trapnote
  BY <1>1, <1>2 DEF Untroubled
<1>18. ~(Top'.fn = "wait" /\ Top'.pc = "reaped")
  BY <1>9, <1>14
<1>19. QED
  BY <1>1, <1>2, <1>10, <1>14, <1>15, <1>16, <1>17, <1>18, TableStep

LEMMA WaitCleanupStands ==
    ASSUME TInv, SInv, WaitCleanup \/ JobsWalk
    PROVE  SInv'
<1>1. Top.fn = "wait" /\ Top.pc \in {"cleanup", "walk"} /\ sh' = sh /\ kernel' = kernel /\ child' = child
  BY DEF WaitCleanup, JobsWalk
<1>2. Works(Top) /\ Top \in WaitFrame /\ WaitFits(Top) /\ Untroubled /\ Tidy(job)
  BY <1>1, WaitsIs, InvIs
<1>3. CASE WaitCleanup /\ sh.intrap # 0
  BY <1>3, WaitEndStands
<1>4. CASE JobsWalk \/ sh.intrap = 0
  <2>1. PICK c \in {"cleanup", "return"} : stack' = Call(At(c), Unlock)
    BY <1>4 DEF WaitCleanup, JobsWalk
  <2>2. PICK f : f = At(c)
    OBVIOUS
  <2>3. /\ f \in Frame /\ f.fn = "wait" /\ f.pc = c /\ f.pid = Top.pid /\ f.pw = Top.pw
        /\ f.owed = Top.owed /\ f.exitval = Top.exitval /\ Alters(f)
    <3>1. WaitsAs(f, c, Top.exitval)
      BY <1>1, <2>1, <2>2, WaitsIs
    <3>2. QED
      BY <3>1 DEF WaitsAs
  <2>4. WaitFits(f)'
    BY <1>1, <1>2, <2>1, <2>3 DEF WaitFits
  <2>5. Fits(f)' /\ Stays(f)
    BY <1>1, <2>1, <2>3, <2>4 DEF Fits, Stays
  <2>6. PICK h : h = Unlock
    OBVIOUS
  <2>7. h \in Frame /\ Calmly(h) /\ Over(f, h) /\ h.fn = "unlock"
    BY <2>1, <2>3, <2>6, FramesAre, CalmFrames DEF Unlock
  <2>8. Fits(h)'
    BY <2>7 DEF Fits
  <2>9. stack' = Call(f, h)
    BY <2>1, <2>2, <2>6
  <2>10. /\ Chained(stack') /\ On(stack') = On(Caller) \cup {f, h} /\ Top' = h
         /\ On(Caller) \subseteq On(stack')
         /\ \A g \in On(stack') : g \in On(Caller) \/ Fits(g)'
    BY <1>2, <2>3, <2>5, <2>7, <2>8, <2>9, CallOn
  <2>11. StillNamed(0)
    BY <2>3, <2>5, <2>10, StaysNamed
  <2>12. KeepsOthers(job, job', 0)
    <3>1. CASE WaitCleanup
      <4>1. Keeps(job, Unposted(job, Slot))
        BY <1>2, UnpostedKeeps
      <4>2. KeepsOthers(job, Unposted(job, Slot), 0)
        BY <4>1, KeepsAny
      <4>3. job' = job_lock(Unposted(job, Slot))
        BY <1>4, <3>1 DEF WaitCleanup, JobsWalk
      <4>4. QED
        BY <4>2, <4>3, LockedKeeps
    <3>2. CASE JobsWalk
      <4>1. Good(job) /\ Good(job') /\ Untold(job.rec)
        BY <1>2, <3>2, JobsWalkTypes DEF Tidy, TInv, Typed
      <4>2. job'.rec = [s \in Slot |-> IF Told(job, s)
                                       THEN [job.rec[s] EXCEPT !.flag = @ \ {"NOTIFY"}]
                                       ELSE job.rec[s]]
            /\ job'.bck = job.bck /\ job'.evicted = job.evicted
        BY <3>2, <4>1 DEF JobsWalk, Good, Job
      <4>3. ASSUME NEW s \in Slot
            PROVE  /\ job'.rec[s].pid = job.rec[s].pid /\ job'.rec[s].env = job.rec[s].env
                   /\ job'.rec[s].exit = job.rec[s].exit /\ job'.rec[s].flag = job.rec[s].flag
        <5>1. job.rec[s] \in Process
          BY <4>1 DEF Good, Job
        <5>2. "NOTIFY" \notin job.rec[s].flag
          BY <4>1 DEF Untold
        <5>3. job'.rec[s] = job.rec[s] \/ job'.rec[s] = [job.rec[s] EXCEPT !.flag = @ \ {"NOTIFY"}]
          BY <4>2
        <5>4. QED
          BY <5>1, <5>2, <5>3 DEF Process
      <4>4. Keeps(job, job')
        BY <1>2, <4>1, <4>2, <4>3, SameKeeps
      <4>5. QED
        BY <4>4, KeepsAny
    <3>3. QED
      BY <3>1, <3>2
  <2>13. ~sh'.trapcom /\ ~sh'.trapnote /\ 0 \notin Pid
    BY <1>1, <1>2, PidAssumption DEF Untroubled
  <2>14. ~(Top'.fn = "wait" /\ Top'.pc = "reaped")
    BY <2>7, <2>10
  <2>15. QED
    BY <1>1, <1>2, <2>10, <2>11, <2>12, <2>13, <2>14, TableStep
<1>5. QED
  BY <1>3, <1>4

LEMMA WaitForegroundStands ==
    ASSUME TInv, SInv, WaitForeground
    PROVE  SInv'
<1>1. Top.fn = "fork" /\ Top.pc = "done" /\ ~Top.bg /\ sh' = sh /\ kernel' = kernel /\ child' = child
  BY DEF WaitForeground
<1>2. Top \in Frame /\ Fits(Top) /\ Untroubled /\ Tidy(job) /\ Good(job) /\ Works(Top)
  BY <1>1, InvIs DEF Works
<1>3. Top \in ForkFrame
  BY <1>1, <1>2, Kinds
<1>4. PICK p : p = Top.pid
  OBVIOUS
<1>5. p \in Pid \cup {0} /\ (p # 0 => ~child[p].owed) /\ 0 \notin Pid
  BY <1>1, <1>2, <1>3, <1>4, PidAssumption DEF Fits, ForkFits, ForkFrame
<1>6. PICK s : s = job_bypid(job, p)
  OBVIOUS
<1>7. /\ s \in Slot \cup {0} /\ (s # 0 => Contains(job.pwlist, s) /\ job.rec[s].pid = p)
  BY <1>2, <1>6, BypidSlot
<1>8. s # 0 => p \in Pid
  BY <1>2, <1>7 DEF Good, Table, Filled
<1>9. KeepsOthers(job, job', p)
  <2>1. CASE s = 0
    <3>1. job' = job_lock(job_chksave(job, p))
      BY <1>4, <1>6, <2>1 DEF WaitForeground
    <3>2. QED
      BY <1>2, <3>1, ChksaveKeeps, LockedKeeps
  <2>2. CASE s # 0
    <3>1. PICK F : F = Flag(job, s) \ {"EXITSAVE"}
      OBVIOUS
    <3>2. job' = job_lock(SetFlag(job, s, F))
      BY <1>4, <1>6, <2>2, <3>1 DEF WaitForeground
    <3>3. F \in SUBSET Flag(job, s) /\ ("DONE" \in Flag(job, s) => "DONE" \in F)
      BY <3>1
    <3>4. KeepsOthers(job, SetFlag(job, s, F), p)
      BY <1>2, <1>7, <2>2, <3>3, FlagKeeps
    <3>5. QED
      BY <3>2, <3>4, LockedKeeps
  <2>3. QED
    BY <2>1, <2>2
<1>10. PICK f : f = IF s = 0 THEN Unlock ELSE [Wait(p, s, "loop", FALSE) EXCEPT !.intr = FALSE]
  OBVIOUS
<1>11. /\ stack' = Continue(f) /\ f \in Frame /\ f.fn \in {"unlock", "wait"} /\ Calmly(f)
       /\ Works(f) \/ f.fn = "unlock"
  <2>1. stack' = Continue(f)
    BY <1>4, <1>6, <1>10 DEF WaitForeground
  <2>2. f \in Frame
    BY <1>5, <1>7, <1>10, FramesAre, WaitFrameIs
  <2>3. f.fn \in {"unlock", "wait"}
    BY <1>10 DEF Unlock, Wait
  <2>4. QED
    BY <2>1, <2>2, <2>3 DEF Calmly, Works
<1>12. f.fn = "wait" => f.pc = "loop" /\ ~f.owed /\ f.pid = p /\ f.pw = s /\ s # 0
  BY <1>10 DEF Unlock, Wait
<1>13. job'.rec[s].pid = p \/ s = 0
  <2>1. ASSUME s # 0
        PROVE  job'.rec[s].pid = p
    <3>1. s \in Slot
      BY <1>7, <2>1
    <3>10. PICK F : F = Flag(job, s) \ {"EXITSAVE"}
      OBVIOUS
    <3>2. job' = job_lock(SetFlag(job, s, F))
      BY <1>4, <1>6, <2>1, <3>10 DEF WaitForeground
    <3>3. PICK a : a = SetFlag(job, s, F)
      OBVIOUS
    <3>4. Good(a) /\ a.rec = [job.rec EXCEPT ![s] = [job.rec[s] EXCEPT !.flag = F]]
      <4>1. F \in SUBSET Flag(job, s)
        BY <3>10
      <4>2. QED
        BY <1>2, <3>1, <3>3, <4>1, SetFlagIs
    <3>5. job'.rec = a.rec
      BY <3>2, <3>3, <3>4, LockIs DEF Same
    <3>6. job.rec[s] \in Process /\ job.rec \in [Slot -> Process]
      BY <1>2, <3>1 DEF Good, Job
    <3>7. a.rec[s].pid = job.rec[s].pid
      BY <3>1, <3>4, <3>6 DEF Process
    <3>8. QED
      BY <1>7, <2>1, <3>5, <3>7
  <2>2. QED
    BY <2>1
<1>14. Fits(f)'
  <2>1. f.fn = "wait" => WaitFits(f)'
    BY <1>8, <1>12, <1>13 DEF WaitFits
  <2>2. QED
    BY <1>11, <2>1 DEF Fits
<1>15. /\ Chained(stack') /\ On(stack') = On(Caller) \cup {f} /\ Top' = f
       /\ On(Caller) \subseteq On(stack')
       /\ \A g \in On(stack') : g \in On(Caller) \/ Fits(g)'
  BY <1>2, <1>11, <1>14, GoOn
<1>16. StillNamed(p)
  BY <1>1 DEF StillNamed
<1>17. ~(p \in Pid /\ child[p].owed)
  BY <1>5
<1>18. ~sh'.trapcom /\ ~sh'.trapnote
  BY <1>1, <1>2 DEF Untroubled
<1>19. ~(Top'.fn = "wait" /\ Top'.pc = "reaped")
  BY <1>12, <1>15
<1>20. QED
  BY <1>1, <1>2, <1>9, <1>15, <1>16, <1>17, <1>18, <1>19, TableStep

LEMMA SavedStatusOf ==
    ASSUME NEW j, Tidy(j), NEW p, NEW x, SavedAs(j.bck, p, x)
    PROVE  SavedStatus(j, p) = x
<1>1. Good(j) /\ OneEntry(j.bck) /\ j.bck \in Seq(Seq(Saved))
  BY DEF Tidy, Good, Job
<1>2. PICK m \in 1..Len(j.bck) : \E i \in 1..Len(j.bck[m]) : j.bck[m][i].pid = p /\ j.bck[m][i].exitval = x
  BY DEF SavedAs
<1>3. PICK i \in 1..Len(j.bck[m]) : j.bck[m][i].pid = p /\ j.bck[m][i].exitval = x
  BY <1>2
<1>4. PICK n : n = SavedAt(j, p)
  OBVIOUS
<1>5. /\ n \in 0..Len(j.bck)
      /\ n # 0 => \E k \in 1..Len(j.bck[n]) : j.bck[n][k].pid = p
      /\ \A h \in 1..Len(j.bck) : h > n => \A k \in 1..Len(j.bck[h]) : j.bck[h][k].pid # p
  BY <1>1, <1>4, SavedAtIs
<1>6. n # 0
  BY <1>2, <1>3, <1>5
<1>7. n \in 1..Len(j.bck)
  BY <1>1, <1>5, <1>6
<1>8. j.bck[n] \in Seq(Saved)
  BY <1>1, <1>7
<1>9. Entry(j.bck[n], p) \in 1..Len(j.bck[n]) /\ j.bck[n][Entry(j.bck[n], p)].pid = p
  BY <1>5, <1>6, <1>8, EntryIs
<1>10. n = m /\ Entry(j.bck[n], p) = i
  BY <1>1, <1>2, <1>3, <1>7, <1>9, OneIs
<1>11. SavedStatus(j, p) = j.bck[n][Entry(j.bck[n], p)].exitval
  BY <1>4, <1>6 DEF SavedStatus, Entry
<1>12. QED
  BY <1>3, <1>10, <1>11

LEMMA WaitLoops ==
    ASSUME NEW p \in Pid, NEW s \in Slot \cup {0}, NEW o \in BOOLEAN, NEW g, g = Wait(p, s, "loop", o)
    PROVE  /\ g \in Frame /\ g.fn = "wait" /\ g.pc = "loop"
           /\ g.pid = p /\ g.pw = s /\ g.owed = o
<1>1. g.fn = "wait" /\ g.pc = "loop" /\ g.pid = p /\ g.pw = s /\ g.owed = o
  BY DEF Wait
<1>2. g \in Frame
  <2>1. NotFound \in Status \cup {0, 1, NotFound}
    OBVIOUS
  <2>2. QED
    BY <2>1, WaitFrameIs
<1>3. QED
  BY <1>1, <1>2

LEMMA WaitEndsWith ==
    ASSUME NEW p \in Pid, NEW s \in Slot \cup {0}, NEW o \in BOOLEAN,
           NEW x \in Status \cup {0, 1, NotFound}, NEW g,
           g = Refused(Wait(p, s, "loop", o), x)
    PROVE  /\ g \in Frame /\ g.fn = "wait" /\ g.pc = "return"
           /\ g.pid = p /\ g.owed = o /\ g.exitval = x
<1>1. g.fn = "wait" /\ g.pc = "return" /\ g.pid = p /\ g.owed = o /\ g.exitval = x
  BY DEF Wait, Refused
<1>2. g \in Frame
  BY WaitFrameIs DEF Refused
<1>3. QED
  BY <1>1, <1>2

LEMMA WaitForStands ==
    ASSUME TInv, SInv, NEW p \in Pid, WaitFor(p)
    PROVE  SInv'
<1>1. TInv'
  BY WaitForTypes
<1>2. Idle /\ Untroubled /\ Tidy(job) /\ Good(job) /\ Founded(stack) /\ Chained(stack)
  BY InvIs DEF WaitFor
<1>3. PICK f : /\ f = At("post") /\ f \in Frame /\ Base(Top) /\ Alters(f) /\ Base(f) /\ Stays(f)
               /\ f.fn \in {"main", "trap", "sub"} /\ (f.fn = "sub" => sh.curenv # 0)
  BY <1>2, IdleIs
<1>4. /\ sh' = sh /\ kernel' = kernel /\ child' = child /\ ~sh'.trapcom /\ ~sh'.trapnote
  BY <1>2 DEF WaitFor, Untroubled
<1>5. Fits(f)'
  BY <1>3, <1>4 DEF Fits
<1>6. PICK s : s = job_bypid(job, p)
  OBVIOUS
<1>7. /\ s \in Slot \cup {0} /\ (s # 0 => s \in Slot /\ job.rec[s].pid = p)
      /\ s = 0 => \A t \in Slot : job.rec[t].pid # p
  BY <1>2, <1>6, BypidSlot, NoRecord
<1>8. PICK o : o = Owed(p)
  OBVIOUS
<1>9. o \in BOOLEAN
  <2>1. child[p] \in Child
    BY DEF TInv, Typed
  <2>2. QED
    BY <1>8, <2>1 DEF Owed, Child
<1>10. ~Forked(p) /\ ~Waited(p)
  <2>1. On(stack) = On(Caller) \cup {Top} /\ \A g \in On(Caller) : g.fn \notin {"fork", "wait"}
    BY <1>2, <1>3, OnTop, Below
  <2>2. QED
    BY <1>2, <2>1 DEF Forked, Waited, Idle
<1>11. o => child[p].owed /\ p \notin job.evicted /\ sh.curenv = 0
  BY <1>8 DEF Owed
<1>12. PICK h : h = Unlock
  OBVIOUS
<1>13. h \in Frame /\ Calmly(h) /\ h.fn = "unlock" /\ Over(f, h)
  BY <1>3, <1>12, FramesAre, CalmFrames DEF Unlock
<1>14. ASSUME NEW g \in Frame, g.fn = "wait", g.pc = "return", g.pid = p,
              WaitFits(g)', stack' = Append(Call(f, g), h), KeepsOthers(job, job', p)
       PROVE  SInv'
  <2>1. Fits(g)' /\ Calmly(g) /\ Works(g) /\ Over(f, g) /\ Over(g, h)
    BY <1>3, <1>12, <1>14, CalmFrames DEF Fits, Calmly, Works, Over
  <2>2. /\ Chained(stack') /\ On(stack') = On(Caller) \cup {f, g, h} /\ Top' = h
        /\ On(Caller) \subseteq On(stack')
        /\ \A x \in On(stack') : x \in On(Caller) \/ Fits(x)'
    BY <1>3, <1>5, <1>13, <1>14, <2>1, CallsOn2
  <2>3. StillNamed(p)
    BY <1>3, <2>2, StaysNamed
  <2>4. Standing(p)'
    <3>1. Waited(p)'
      BY <1>14, <2>2 DEF Waited
    <3>2. QED
      BY <3>1 DEF Standing
  <2>5. ~(Top'.fn = "wait" /\ Top'.pc = "reaped")
    BY <1>13, <2>2
  <2>6. QED
    BY <1>3, <1>4, <1>14, <2>2, <2>3, <2>4, <2>5, TableStep
<1>15. CASE s = 0
  <2>1. PICK x : x = IF SavedStatus(job, p) < 0 THEN NotFound ELSE SavedStatus(job, p)
    OBVIOUS
  <2>2. SavedStatus(job, p) \in Status \cup {0, -1} /\ Status \subseteq Nat
    BY <1>2, SavedStatusIs, StatusAssumption
  <2>3. x \in Status \cup {0, 1, NotFound}
    BY <2>1, <2>2
  <2>4. PICK g : g = Refused(Wait(p, s, "loop", o), x)
    OBVIOUS
  <2>5. /\ g \in Frame /\ g.fn = "wait" /\ g.pc = "return"
        /\ g.pid = p /\ g.owed = o /\ g.exitval = x
    BY <1>7, <1>9, <2>3, <2>4, WaitEndsWith
  <2>6. stack' = Append(Call(f, g), h) /\ job' = job_lock(job_chksave(job, p))
    BY <1>3, <1>6, <1>8, <1>12, <1>15, <2>1, <2>4 DEF WaitFor, Refused
  <2>7. KeepsOthers(job, job', p)
    BY <1>2, <2>6, ChksaveKeeps, LockedKeeps
  <2>8. ASSUME o
        PROVE  x = child[p].status /\ kernel[p].st = "free"
    <3>1. kernel[p].st = "free" /\ SavedAs(job.bck, p, child[p].status)
      BY <1>7, <1>10, <1>11, <1>15, <2>8, StoredAt
    <3>2. SavedStatus(job, p) = child[p].status
      BY <1>2, <3>1, SavedStatusOf
    <3>3. child[p].status \in Nat
      <4>1. PICK n \in 1..Len(job.bck) : \E i \in 1..Len(job.bck[n]) :
               job.bck[n][i].pid = p /\ job.bck[n][i].exitval = child[p].status
        BY <3>1 DEF SavedAs
      <4>2. PICK i \in 1..Len(job.bck[n]) : job.bck[n][i].exitval = child[p].status
        BY <4>1
      <4>3. job.bck[n][i] \in Saved
        BY <1>2, <4>1, <4>2 DEF Good, Job
      <4>4. job.bck[n][i].exitval \in Status \cup {0}
        BY <4>3 DEF Saved
      <4>5. job.bck[n][i].exitval \in Nat
        <5>1. Status \cup {0} \subseteq Nat
          BY <2>2
        <5>2. QED
          BY <4>4, <5>1
      <4>6. QED
        BY <4>2, <4>5
    <3>4. x = child[p].status
      <4>1. ~(child[p].status < 0)
        <5>1. PICK y : y = child[p].status
          OBVIOUS
        <5>2. y \in Nat
          BY <3>3, <5>1
        <5>3. QED
          BY <5>1, <5>2
      <4>2. QED
        BY <2>1, <3>2, <4>1
    <3>5. QED
      BY <3>1, <3>4
  <2>9. WaitFits(g)'
    BY <1>4, <2>5, <2>8 DEF WaitFits
  <2>10. QED
    BY <1>14, <2>5, <2>6, <2>7, <2>9
<1>16. CASE s # 0 /\ job.rec[s].env # sh.curenv
  <2>1. PICK g : g = Refused(Wait(p, s, "loop", o), NotFound)
    OBVIOUS
  <2>2. /\ g \in Frame /\ g.fn = "wait" /\ g.pc = "return" /\ g.pid = p /\ g.owed = o
    BY <1>7, <1>9, <2>1, WaitEndsWith
  <2>3. stack' = Append(Call(f, g), h) /\ job' = job_lock(job)
    BY <1>3, <1>6, <1>8, <1>12, <1>16, <2>1 DEF WaitFor, Refused
  <2>4. KeepsOthers(job, job', p)
    BY <1>2, <2>3, KeepsOnce, KeepsAny, LockedKeeps
  <2>5. ~o
    BY <1>7, <1>10, <1>11, <1>16, StoredAt
  <2>6. WaitFits(g)'
    BY <2>2, <2>5 DEF WaitFits
  <2>7. QED
    BY <1>14, <2>2, <2>3, <2>4, <2>6
<1>17. CASE s # 0 /\ job.rec[s].env = sh.curenv
  <2>1. PICK g : g = Wait(p, s, "loop", o)
    OBVIOUS
  <2>2. /\ g \in Frame /\ g.fn = "wait" /\ g.pc = "loop" /\ g.pid = p /\ g.pw = s /\ g.owed = o
    BY <1>7, <1>9, <2>1, WaitLoops
  <2>3. stack' = Call(f, g) /\ job' = job_lock(job) /\ SameTable(job, job')
    BY <1>3, <1>6, <1>8, <1>17, <2>1, TableLocks DEF WaitFor
  <2>4. WaitFits(g)'
    BY <1>4, <1>7, <1>11, <1>17, <2>2, <2>3 DEF WaitFits, SameTable
  <2>5. Fits(g)' /\ Calmly(g) /\ Works(g) /\ Over(f, g) /\ ~(g.fn = "wait" /\ g.pc = "reaped")
    BY <1>3, <2>2, <2>4 DEF Fits, Calmly, Works, Over
  <2>6. QED
    BY <1>1, <1>3, <1>4, <1>5, <2>2, <2>3, <2>5, CallStep
<1>18. QED
  BY <1>15, <1>16, <1>17

LEMMA EnterSubStands ==
    ASSUME TInv, SInv, EnterSub
    PROVE  SInv'
<1>1. Idle /\ Untroubled /\ Tidy(job) /\ Good(job) /\ Fits(Top)
      /\ \A g \in On(Caller) : g.fn = "sub" => sh.curenv # 0
  BY InvIs DEF EnterSub
<1>2. PICK f : /\ f = At("post") /\ f \in Frame /\ Base(Top) /\ Alters(f) /\ Base(f) /\ Stays(f)
               /\ f.fn \in {"main", "trap", "sub"} /\ (f.fn = "sub" => sh.curenv # 0)
  BY <1>1, IdleIs
<1>3. kernel' = kernel /\ child' = child
  BY DEF EnterSub
<1>4. sh \in Shell
  BY DEF TInv, Typed
<1>5. ~sh'.trapcom /\ ~sh'.trapnote /\ sh'.curenv # 0
  <2>1. PICK env : env = IF sh.curenv = 0 THEN 1 ELSE sh.subenv + 1
    OBVIOUS
  <2>2. env # 0
    <3>1. sh.subenv \in Nat
      BY <1>4 DEF Shell
    <3>2. QED
      BY <2>1, <3>1
  <2>3. sh' = [sh EXCEPT !.curenv = env, !.subenv = env]
    BY <2>1 DEF EnterSub
  <2>4. QED
    BY <1>1, <1>4, <2>2, <2>3 DEF Untroubled, Shell
<1>6. PICK g : g = Sub(sh.curenv)
  OBVIOUS
<1>7. /\ g \in SubFrame /\ g.fn = "sub" /\ g.env = sh.curenv /\ ~g.trapcom
  BY <1>1, <1>4, <1>6 DEF Sub, SubFrame, Untroubled, Shell
<1>8. g \in Frame /\ Calmly(g) /\ Over(f, g)
  BY <1>2, <1>7 DEF Frame, Calmly, Over, Base
<1>9. Fits(f)' /\ Fits(g)'
  BY <1>2, <1>5, <1>7 DEF Fits
<1>10. PICK h : h = Unlock
  OBVIOUS
<1>11. h \in Frame /\ Calmly(h) /\ h.fn = "unlock" /\ Over(f, h) /\ Over(g, h)
  <2>1. Base(g)
    BY <1>7 DEF Base
  <2>2. Unlock.fn = "unlock"
    BY DEF Unlock
  <2>3. QED
    BY <1>2, <1>10, <2>1, <2>2, FramesAre, CalmFrames
<1>12. stack' = Append(Call(f, g), h)
  BY <1>2, <1>6, <1>10 DEF EnterSub
<1>13. /\ Chained(stack') /\ On(stack') = On(Caller) \cup {f, g, h} /\ Top' = h
       /\ On(Caller) \subseteq On(stack')
       /\ \A x \in On(stack') : x \in On(Caller) \/ Fits(x)'
  BY <1>2, <1>7, <1>8, <1>9, <1>11, <1>12, CallsOn2
<1>14. StillNamed(0)
  BY <1>2, <1>13, StaysNamed
<1>15. Keeps(job, job')
  <2>1. KeepsOthers(job, job_lock(job), 0)
    BY <1>1, KeepsOnce, KeepsAny, LockedKeeps
  <2>2. Tidy(job_lock(job))
    BY <2>1 DEF KeepsOthers
  <2>3. Keeps(job_lock(job), job')
    BY <2>2, SubsaveKeeps DEF EnterSub
  <2>4. Keeps(job, job_lock(job))
    <3>1. Good(job_lock(job)) /\ SameTable(job, job_lock(job))
      BY <2>2, TableLocks DEF Tidy
    <3>2. QED
      BY <1>1, <3>1, TableSame
  <2>5. QED
    BY <2>3, <2>4, KeepsTwice
<1>16. KeepsBut(job, job', 0) /\ Fresh'
  BY <1>3, <1>15, KeptAll
<1>17. 0 \notin Pid
  BY PidAssumption
<1>18. ~(Top'.fn = "wait" /\ Top'.pc = "reaped")
  BY <1>11, <1>13
<1>19. \A q \in Pid : child'[q].status = child[q].status /\ (child'[q].owed => child[q].owed)
  BY <1>3
<1>20. QED
  BY <1>2, <1>3, <1>5, <1>13, <1>14, <1>16, <1>17, <1>18, <1>19, CommandStep

LEMMA LeaveSubStands ==
    ASSUME TInv, SInv, LeaveSub
    PROVE  SInv'
<1>1. Top.fn = "sub" /\ Top.pc = "idle" /\ sh' = sh /\ kernel' = kernel /\ child' = child
  BY DEF LeaveSub
<1>2. Top \in Frame /\ Fits(Top) /\ Calmly(Top) /\ Untroubled /\ Tidy(job) /\ Founded(stack)
  BY <1>1, InvIs
<1>3. PICK f : f = At("leave")
  OBVIOUS
<1>4. f \in Frame /\ f.fn = "sub" /\ f.env = Top.env /\ f.trapcom = Top.trapcom /\ Top \in SubFrame
  <2>1. Top \in SubFrame /\ At("leave") \in Frame /\ At("leave").fn = "sub"
    BY <1>1, <1>2, AtSub
  <2>2. QED
    BY <1>3, <2>1 DEF At, SubFrame
<1>5. Alters(f) /\ Stays(f) /\ Base(Top) /\ Base(f)
  BY <1>1, <1>2, <1>4 DEF Alters, Stays, Base, Calmly
<1>6. Fits(f)'
  BY <1>1, <1>2, <1>4 DEF Fits
<1>7. PICK h : h = Unlock
  OBVIOUS
<1>8. h \in Frame /\ Calmly(h) /\ Over(f, h) /\ h.fn = "unlock"
  BY <1>5, <1>7, FramesAre, CalmFrames DEF Unlock
<1>9. Fits(h)'
  BY <1>8 DEF Fits
<1>10. stack' = Call(f, h)
  BY <1>3, <1>7 DEF LeaveSub
<1>11. /\ Chained(stack') /\ On(stack') = On(Caller) \cup {f, h} /\ Top' = h
       /\ On(Caller) \subseteq On(stack')
       /\ \A g \in On(stack') : g \in On(Caller) \/ Fits(g)'
  BY <1>5, <1>6, <1>8, <1>9, <1>10, CallOn
<1>12. StillNamed(0)
  BY <1>5, <1>11, StaysNamed
<1>13. KeepsOthers(job, job', 0)
  <2>1. Len(job.bck) >= 2
    <3>1. Top \in InSub
      BY <1>1, <1>4 DEF InSub
    <3>2. Number(stack, InSub) \in Nat \ {0}
      BY <1>2, <3>1, TopCounts
    <3>3. Len(job.bck) = 1 + Number(stack, InSub)
      BY DEF TInv, Counts
    <3>4. QED
      BY <3>2, <3>3
  <2>2. sh.curenv \in Nat \ {0}
    BY <1>1, <1>2 DEF Fits, TInv, Typed, Shell
  <2>3. Keeps(job, job_subrestore(job, sh.curenv))
    BY <1>2, <2>1, <2>2, SubrestoreKeeps
  <2>4. KeepsOthers(job, job_subrestore(job, sh.curenv), 0)
    BY <2>3, KeepsAny
  <2>5. job' = job_lock(job_subrestore(job, sh.curenv))
    BY DEF LeaveSub
  <2>6. QED
    BY <2>4, <2>5, LockedKeeps
<1>14. ~sh'.trapcom /\ ~sh'.trapnote /\ 0 \notin Pid
  BY <1>1, <1>2, PidAssumption DEF Untroubled
<1>15. ~(Top'.fn = "wait" /\ Top'.pc = "reaped")
  BY <1>8, <1>11
<1>16. QED
  BY <1>1, <1>5, <1>11, <1>12, <1>13, <1>14, <1>15, TableStep

LEMMA SubLeftStands ==
    ASSUME TInv, SInv, SubLeft
    PROVE  SInv'
<1>1. TInv'
  BY SubLeftTypes
<1>2. Top.fn = "sub" /\ stack' = Caller /\ kernel' = kernel /\ child' = child /\ SameTable(job, job')
  BY DEF SubLeft, SameTable
<1>3. Calmly(Top) /\ Founded(stack) /\ Chained(stack) /\ Base(Top)
  BY <1>2, InvIs DEF Base
<1>4. ~sh'.trapcom /\ ~sh'.trapnote /\ sh'.curenv = Top.env
  <2>1. sh \in Shell
    BY DEF TInv, Typed
  <2>2. QED
    BY <1>2, <1>3, <2>1 DEF SubLeft, sh_sigreset, Shell, Calmly
<1>5. /\ Chained(stack') /\ On(stack') = On(Caller)
      /\ Top' \in On(Caller) /\ Top'.fn \notin {"fork", "wait"}
  BY <1>2, <1>3, ReturnOn
<1>6. StillNamed(0)
  BY <1>2 DEF StillNamed
<1>7. \A g \in On(Caller) : g.fn = "sub" => sh'.curenv # 0
  <2>1. \A g \in On(Caller) : Over(g, Top)
    BY <1>3, ChainTop
  <2>2. QED
    BY <1>2, <1>4, <2>1 DEF Over
<1>8. QED
  BY <1>1, <1>2, <1>3, <1>4, <1>5, <1>6, <1>7, PlainStep

-------------------------------------------------------------------------------
(* A child starts, and enters the table. *)

LEMMA ForkTopIs ==
    ASSUME TInv, SInv, Top.fn = "fork"
    PROVE  /\ Top \in ForkFrame /\ Works(Top) /\ ForkFits(Top)
           /\ \A g \in On(Caller) : Base(g) /\ g.fn \notin {"fork", "wait"}
           /\ On(stack) = On(Caller) \cup {Top}
<1>1. Top \in Frame /\ Fits(Top) /\ Founded(stack) /\ Chained(stack)
  BY InvIs
<1>2. Works(Top)
  BY DEF Works
<1>3. QED
  BY <1>1, <1>2, Kinds, Below, OnTop DEF Fits

LEMMA ForkedIs ==
    ASSUME Top \in ForkFrame, NEW p \in Pid, NEW f, f = ForkedAs(p)
    PROVE  /\ f \in Frame /\ f.fn = "fork" /\ f.pc = "forked" /\ f.pid = p /\ f.bg = Top.bg
           /\ Alters(f)
<1>1. /\ f \in ForkFrame /\ f.fn = "fork" /\ f.pc = "forked" /\ f.pid = p /\ f.bg = Top.bg
      /\ Top.fn = "fork"
  BY DEF ForkedAs, ForkFrame
<1>2. QED
  BY <1>1 DEF Frame, Alters

LEMMA StartsStand ==
    ASSUME TInv, TInv', SInv, NEW p \in Pid, NEW bg \in BOOLEAN, Start(p, bg),
           Top.fn = "fork", Top.pc # "forked", ~Top.bg => ~bg,
           stack' \in {Continue(ForkedAs(p)), Call(ForkedAs(p), Unlock)},
           sh' = sh, job'.rec = job.rec, job'.bck = job.bck, job'.evicted = job.evicted \ {p}
    PROVE  SInv'
<1>1. /\ Top \in ForkFrame /\ Works(Top)
      /\ \A g \in On(Caller) : Base(g) /\ g.fn \notin {"fork", "wait"}
      /\ On(stack) = On(Caller) \cup {Top}
  BY ForkTopIs
<1>2. /\ Founded(stack) /\ Chained(stack) /\ Tidy(job) /\ Untroubled /\ Fresh /\ Stands /\ Zombies
      /\ \A g \in On(Caller) : g.fn = "sub" => sh.curenv # 0
  BY InvIs DEF SInv
<1>3. PICK f : f = ForkedAs(p)
  OBVIOUS
<1>4. /\ f \in Frame /\ f.fn = "fork" /\ f.pc = "forked" /\ f.pid = p /\ f.bg = Top.bg
      /\ Alters(f)
  BY <1>1, <1>3, ForkedIs
<1>5. /\ kernel[p].st = "free"
      /\ \A q \in Pid : kernel'[q] = IF q = p THEN [st |-> "run"] ELSE kernel[q]
      /\ \A q \in Pid : q # p => child'[q] = child[q]
      /\ child'[p].owed => bg /\ sh.curenv = 0
  BY DEF Start, Unused, TInv, Typed
<1>6. /\ Chained(stack') /\ On(Caller) \subseteq On(stack') /\ f \in On(stack')
      /\ \A g \in On(stack') : g \in On(Caller) \/ g = f \/ g.fn = "unlock"
      /\ Top'.fn # "wait"
  <2>1. CASE stack' = Continue(f)
    <3>1. Chained(stack') /\ On(stack') = On(Caller) \cup {f} /\ stack'[Len(stack')] = f
      BY <1>1, <1>2, <1>4, <2>1, GoesOn
    <3>2. QED
      BY <1>4, <3>1 DEF Top
  <2>2. CASE stack' = Call(f, Unlock)
    <3>1. PICK h : h = Unlock
      OBVIOUS
    <3>2. h \in Frame /\ Calmly(h) /\ h.fn = "unlock" /\ Over(f, h)
      BY <1>4, <3>1, FramesAre, CalmFrames DEF Unlock
    <3>3. Chained(stack') /\ On(stack') = On(Caller) \cup {f, h} /\ stack'[Len(stack')] = h
      BY <1>1, <1>2, <1>4, <2>2, <3>1, <3>2, CallsOn
    <3>4. QED
      BY <3>2, <3>3 DEF Top
  <2>3. QED
    BY <1>3, <2>1, <2>2
<1>7. Tidy(job') /\ Untroubled'
  <2>1. Good(job')
    BY DEF TInv, Typed
  <2>2. QED
    BY <1>2, <2>1 DEF Tidy, Parted, Untroubled
<1>8. ASSUME NEW q \in Pid, child'[q].owed, q \notin job'.evicted
      PROVE  Standing(q)'
  <2>1. CASE q = p
    <3>1. Forked(q)'
      BY <1>4, <1>6, <2>1 DEF Forked
    <3>2. QED
      BY <3>1 DEF Standing
  <2>2. CASE q # p
    <3>1. Standing(q) /\ child'[q] = child[q] /\ kernel'[q] = kernel[q]
      BY <1>2, <1>5, <1>8, <2>2 DEF Stands
    <3>2. ~Forked(q) /\ ~Waited(q)
      BY <1>1 DEF Forked, Waited
    <3>3. Stored(job, q, child[q].status) => Stored(job', q, child'[q].status)
      BY <3>1 DEF Stored
    <3>4. QED
      BY <3>1, <3>2, <3>3 DEF Standing
  <2>3. QED
    BY <2>1, <2>2
<1>9. Fresh'
  <2>1. ASSUME NEW s \in Slot, job'.rec[s].pid # 0, "DONE" \notin job'.rec[s].flag
        PROVE  kernel'[job'.rec[s].pid].st # "free"
    <3>1. job.rec[s].pid \in Pid
      BY <1>2, <2>1 DEF Tidy, Good, Job, Process
    <3>2. kernel[job.rec[s].pid].st # "free"
      BY <1>2, <2>1 DEF Fresh
    <3>3. QED
      BY <1>5, <3>1, <3>2
  <2>2. QED
    BY <2>1 DEF Fresh
<1>10. Zombies'
  <2>1. ASSUME NEW q \in Pid, kernel'[q].st = "zombie"
        PROVE  child'[q].status = kernel'[q].status
    <3>1. q # p
      BY <1>5, <2>1
    <3>2. QED
      BY <1>2, <1>5, <2>1, <3>1 DEF Zombies
  <2>2. QED
    BY <2>1 DEF Zombies
<1>11. Fits(f)'
  <2>1. ASSUME NEW s \in Slot, job'.rec[s].pid = p
        PROVE  "DONE" \in job'.rec[s].flag
    BY <1>2, <1>5, <2>1, PidAssumption DEF Fresh
  <2>2. ForkFits(f)'
    BY <1>4, <1>5, <2>1 DEF ForkFits
  <2>3. QED
    BY <1>4, <2>2 DEF Fits
<1>12. AllFit'
  <2>1. ASSUME NEW g \in On(stack')
        PROVE  Fits(g)'
    <3>1. CASE g = f
      BY <1>11, <3>1
    <3>2. CASE g \in On(Caller)
      BY <1>1, <1>2, <3>2 DEF Fits
    <3>3. CASE g.fn = "unlock"
      BY <3>3 DEF Fits
    <3>4. QED
      BY <1>6, <3>1, <3>2, <3>3
  <2>2. QED
    BY <2>1 DEF AllFit
<1>13. QED
  BY <1>6, <1>7, <1>8, <1>9, <1>10, <1>12 DEF SInv, Stands, Asked

LEMMA ForksStand ==
    ASSUME TInv, Depth, SInv, Fork_bg \/ Fork_fg
    PROVE  SInv'
<1>1. TInv'
  BY ForkTypes
<1>2. Top.fn = "fork" /\ Top.pc \in {"jobmax", "assign", "assigned"} /\ sh' = sh
  BY DEF Fork_bg, Fork_fg
<1>3. PICK p \in Pid : \E bg \in BOOLEAN :
         /\ Start(p, bg) /\ (bg => Top.pc = "jobmax")
         /\ stack' \in {Continue(ForkedAs(p)), Call(ForkedAs(p), Unlock)}
         /\ job' = [job_lock(job) EXCEPT !.evicted = @ \ {p}]
  BY DEF Fork_bg, Fork_fg, ForkedAs
<1>4. PICK bg \in BOOLEAN :
         /\ Start(p, bg) /\ (bg => Top.pc = "jobmax")
         /\ stack' \in {Continue(ForkedAs(p)), Call(ForkedAs(p), Unlock)}
         /\ job' = [job_lock(job) EXCEPT !.evicted = @ \ {p}]
  BY <1>3
<1>5. job'.rec = job.rec /\ job'.bck = job.bck /\ job'.evicted = job.evicted \ {p}
  BY <1>4 DEF TInv, Typed, Good, Job, job_lock
<1>6. ~Top.bg => ~bg
  <2>1. Top \in Apt
    BY DeepIs
  <2>2. Kindly(Top)
    BY <1>2, <2>1 DEF Apt
  <2>3. QED
    BY <1>4, <2>2 DEF Kindly
<1>7. QED
  BY <1>1, <1>2, <1>4, <1>5, <1>6, StartsStand

LEMMA ForkPostStands ==
    ASSUME TInv, SInv, ForkPost
    PROVE  SInv'
<1>1. /\ Top.fn = "fork" /\ Top.pc = "forked" /\ kernel' = kernel /\ child' = child
  BY DEF ForkPost
<1>2. /\ Top \in ForkFrame /\ Works(Top) /\ ForkFits(Top)
  BY <1>1, ForkTopIs
<1>3. /\ Founded(stack) /\ Tidy(job) /\ Untroubled /\ Fresh
      /\ \A g \in On(Caller) : g.fn = "sub" => sh.curenv # 0
  BY InvIs
<1>4. sh'.curenv = sh.curenv /\ ~sh'.trapcom /\ ~sh'.trapnote /\ sh.curenv \in Nat
  <2>1. sh \in Shell
    BY DEF TInv, Typed
  <2>2. QED
    BY <1>3, <2>1 DEF ForkPost, Untroubled, Shell
<1>5. PICK p : p = Top.pid
  OBVIOUS
<1>6. /\ p \in Pid /\ kernel[p].st # "free"
      /\ \A s \in Slot : job.rec[s].pid = p => "DONE" \in job.rec[s].flag
      /\ child[p].owed => sh.curenv = 0
  BY <1>1, <1>2, <1>5 DEF ForkFits
<1>7. PICK a : a = job_post(job, p, Top.bg, sh.curenv)
  OBVIOUS
<1>8. Posting(job, a, p, sh.curenv)
  <2>1. Len(job.pwlist) < MaxSpawn
    <3>1. Top \in Forking
      BY <1>1, <1>2 DEF Forking
    <3>2. Number(stack, Forking) \in Nat \ {0}
      BY <1>3, <3>1, TopCounts
    <3>3. Len(job.pwlist) + Number(stack, Forking) <= spawned /\ spawned \in 0..MaxSpawn
      BY DEF TInv, Counts, Typed
    <3>4. Len(job.pwlist) \in Nat /\ MaxSpawn \in Nat
      BY <1>3, JobsBoundAssumption DEF Tidy, Good, Job
    <3>5. QED
      BY <3>2, <3>3, <3>4
  <2>2. NoBg(job, p)
    <3>1. Top \in Pending(p)
      BY <1>1, <1>2, <1>5 DEF Pending
    <3>2. Number(stack, Pending(p)) # 0
      BY <1>3, <3>1, TopCounts
    <3>3. QED
      BY <1>6, <3>2 DEF TInv, Pends
  <2>3. Top.bg \in BOOLEAN
    BY <1>2 DEF ForkFrame
  <2>4. QED
    BY <1>3, <1>4, <1>6, <1>7, <2>1, <2>2, <2>3, PostKeeps
<1>9. SameTable(a, job') /\ Tidy(job')
  <2>1. job' = job_lock(a)
    BY <1>5, <1>7 DEF ForkPost
  <2>2. Tidy(a) /\ Good(a)
    BY <1>8 DEF Posting, Tidy
  <2>3. Good(job') /\ SameTable(a, job')
    BY <2>1, <2>2, LockIs DEF Same, SameTable
  <2>4. Keeps(a, job')
    BY <2>2, <2>3, TableSame
  <2>5. QED
    BY <2>3, <2>4 DEF Keeps
<1>10. KeepsBut(job, job', p)
  <2>1. \A q \in Pid : \A x : Stored(a, q, x) => Stored(job', q, x)
    BY <1>9 DEF SameTable, Stored
  <2>2. QED
    BY <1>8, <1>9, <2>1 DEF Posting, KeepsBut, SameTable
<1>11. Fresh'
  <2>1. ASSUME NEW s \in Slot, job'.rec[s].pid # 0, "DONE" \notin job'.rec[s].flag
        PROVE  kernel'[job'.rec[s].pid].st # "free"
    BY <1>1, <1>3, <1>6, <1>8, <1>9, <2>1 DEF Posting, SameTable, Fresh
  <2>2. QED
    BY <2>1 DEF Fresh
<1>12. child'[p].owed => Standing(p)'
  <2>1. ASSUME child'[p].owed
        PROVE  Standing(p)'
    <3>1. Runs(a.rec, p)
      BY <1>1, <1>6, <1>8, <2>1 DEF Posting
    <3>2. Runs(job'.rec, p) /\ kernel'[p].st # "free"
      BY <1>1, <1>6, <1>9, <3>1 DEF SameTable
    <3>3. QED
      BY <3>2 DEF Standing
  <2>2. QED
    BY <2>1
<1>13. PICK f : f = At("posted")
  OBVIOUS
<1>14. f \in Frame /\ f.fn = "fork" /\ f.pc = "posted" /\ f.pid = p /\ f.bg = Top.bg /\ Alters(f)
  <2>1. f \in ForkFrame /\ f.fn = "fork" /\ f.pc = "posted" /\ f.pid = p /\ f.bg = Top.bg
    BY <1>2, <1>5, <1>13 DEF At, ForkFrame
  <2>2. QED
    BY <1>1, <2>1 DEF Frame, Alters
<1>15. Fits(f)'
  <2>1. ForkFits(f)'
    BY <1>1, <1>2, <1>5, <1>14 DEF ForkFits
  <2>2. QED
    BY <1>14, <2>1 DEF Fits
<1>16. PICK h : h = Unlock
  OBVIOUS
<1>17. h \in Frame /\ Calmly(h) /\ Over(f, h) /\ h.fn = "unlock"
  BY <1>14, <1>16, FramesAre, CalmFrames DEF Unlock
<1>18. Fits(h)'
  BY <1>17 DEF Fits
<1>19. stack' = Call(f, h)
  BY <1>13, <1>16 DEF ForkPost
<1>20. /\ Chained(stack') /\ On(stack') = On(Caller) \cup {f, h} /\ Top' = h
       /\ On(Caller) \subseteq On(stack')
       /\ \A g \in On(stack') : g \in On(Caller) \/ Fits(g)'
  BY <1>2, <1>14, <1>15, <1>17, <1>18, <1>19, CallOn
<1>21. StillNamed(p)
  BY <1>1, <1>5 DEF StillNamed
<1>22. ~(Top'.fn = "wait" /\ Top'.pc = "reaped")
  BY <1>17, <1>20
<1>23. \A q \in Pid : child'[q].status = child[q].status /\ (child'[q].owed => child[q].owed)
  BY <1>1
<1>24. QED
  BY <1>1, <1>2, <1>3, <1>4, <1>10, <1>11, <1>12, <1>20, <1>21, <1>22, <1>23, CommandStep

-------------------------------------------------------------------------------
(* job_unlock, job_reap, the signal, and the end of a child. *)

LEMMA BumpIs ==
    ASSUME NEW w \in 0..WaitsafeMod - 1, NEW n \in Nat \ {0}, w + n < WaitsafeMod
    PROVE  Bump(w) = w + 1
<1>1. WaitsafeMod \in Nat \ {0}
  BY LimitAssumption
<1>2. (w + 1) % WaitsafeMod = IF w + 1 = WaitsafeMod THEN 0 ELSE w + 1
  BY <1>1, ModUp
<1>3. w + 1 # WaitsafeMod
  BY <1>1
<1>4. QED
  BY <1>2, <1>3 DEF Bump

LEMMA SlackDrops ==
    ASSUME TInv, IsFiniteSet(Living), NEW w, w \in 0..WaitsafeMod - 1, w + Slack < WaitsafeMod,
           NEW n \in Nat, Slack = n + 1
    PROVE  Bump(w) # 0 /\ Bump(w) + n < WaitsafeMod
<1>1. Bump(w) = w + 1
  BY BumpIs
<1>2. WaitsafeMod \in Nat
  BY LimitAssumption
<1>3. QED
  BY <1>1, <1>2

LEMMA WaitsafeIs ==
    ASSUME TInv
    PROVE  job.waitsafe \in 0..WaitsafeMod - 1
  BY DEF TInv, Typed, Good, Job

LEMMA UnlockTestStands ==
    ASSUME TInv, Balanced, SInv, UnlockTest
    PROVE  SInv'
<1>1. TInv'
  BY UnlockTestTypes
<1>2. /\ Top.fn = "unlock" /\ Top.pc = "test" /\ job.in_critical = 1
      /\ sh' = sh /\ kernel' = kernel /\ child' = child /\ sigchld' = sigchld
      /\ job'.rec = job.rec /\ job'.bck = job.bck /\ job'.evicted = job.evicted
      /\ job'.waitsafe = job.waitsafe
  BY DEF UnlockTest, StartReap, TInv, Typed, Good, Job
<1>3. Top \in Frame /\ Founded(stack) /\ Chained(stack) /\ On(stack) = On(Caller) \cup {Top}
  BY InvIs, OnTop
<1>4. \A g \in On(Caller) : ~Holds(g)
  <2>1. Holds(Top)
    BY <1>2 DEF Holds
  <2>2. QED
    BY <1>2, <1>3, <2>1, CriticalIs
<1>5. PICK f : f = At("leave")
  OBVIOUS
<1>6. f \in Frame /\ f.fn = "unlock"
  <2>1. Top \in UnlockFrame
    BY <1>2, <1>3, Kinds
  <2>2. f \in UnlockFrame
    BY <1>5, <2>1 DEF At, UnlockFrame
  <2>3. QED
    BY <2>2 DEF Frame, UnlockFrame
<1>7. Alters(f)
  BY <1>2, <1>6 DEF Alters
<1>8. Calmly(f) /\ \A g \in On(Caller) : Over(g, f)
  BY <1>2, <1>3, <1>7, AltersIs
<1>9. CountsOn
  <2>1. Slack' = Slack
    BY <1>2 DEF Slack, Running, Dead
  <2>2. QED
    BY <1>2, <2>1 DEF CountsOn
<1>10. CASE stack' = Continue(f)
  <2>1. Chained(stack') /\ On(stack') = On(Caller) \cup {f} /\ Top' = f
    BY <1>3, <1>6, <1>8, <1>10, Goes DEF Top
  <2>2. \A g \in On(stack') : g \in On(stack) \/ g.fn \in {"unlock", "reap"}
    BY <1>3, <1>6, <2>1
  <2>3. \A g \in On(stack) : Works(g) => g \in On(stack')
    BY <1>2, <1>3, <2>1 DEF Works
  <2>4. Asked'
    BY <1>6, <2>1 DEF Asked
  <2>5. QED
    BY <1>1, <1>2, <1>9, <2>1, <2>2, <2>3, <2>4, HandlerStep
<1>11. CASE stack' = Call(f, Reap(TRUE, FALSE))
  <2>1. PICK h : h = Reap(TRUE, FALSE)
    OBVIOUS
  <2>2. h \in Frame /\ Calmly(h) /\ h.fn = "reap" /\ ~h.async
    BY <2>1, FramesAre, CalmFrames DEF Reap
  <2>3. Over(f, h)
    BY <1>6, <2>2 DEF Over, Base, Works
  <2>4. \A g \in On(Caller) : Over(g, h)
    BY <1>4, <2>2 DEF Over, Base, Works, Holds
  <2>5. Chained(stack') /\ On(stack') = On(Caller) \cup {f, h} /\ Top' = h
    BY <1>3, <1>6, <1>8, <1>11, <2>1, <2>2, <2>3, <2>4, Calls2 DEF Top
  <2>6. \A g \in On(stack') : g \in On(stack) \/ g.fn \in {"unlock", "reap"}
    BY <1>3, <1>6, <2>2, <2>5
  <2>7. \A g \in On(stack) : Works(g) => g \in On(stack')
    BY <1>2, <1>3, <2>5 DEF Works
  <2>8. Asked'
    BY <2>2, <2>5 DEF Asked
  <2>9. QED
    BY <1>1, <1>2, <1>9, <2>5, <2>6, <2>7, <2>8, HandlerStep
<1>12. QED
  BY <1>5, <1>10, <1>11 DEF UnlockTest

(* Whoever returns leaves the rest of the stack. *)
LEMMA HandlerReturns ==
    ASSUME TInv, SInv, Top.fn \in {"unlock", "reap"}, stack' = Caller
    PROVE  /\ Chained(stack') /\ \A f \in On(stack') : f \in On(stack)
           /\ \A f \in On(stack) : Works(f) => f \in On(stack')
           /\ Top' \in On(stack) /\ Over(Top', Top)
<1>1. Founded(stack) /\ Chained(stack) /\ On(stack) = On(Caller) \cup {Top}
  BY InvIs, OnTop
<1>2. Chained(Caller) /\ \A g \in On(Caller) : Over(g, Top)
  BY <1>1, ChainTop
<1>3. Top' \in On(Caller)
  BY <1>1, ReturnsTo DEF Top
<1>4. QED
  BY <1>1, <1>2, <1>3 DEF Works

LEMMA UnlockLeaveStands ==
    ASSUME TInv, SInv, UnlockLeave
    PROVE  SInv'
<1>1. TInv'
  BY UnlockLeaveTypes
<1>2. /\ Top.fn = "unlock" /\ stack' = Caller
      /\ sh' = sh /\ kernel' = kernel /\ child' = child /\ sigchld' = sigchld
      /\ job'.rec = job.rec /\ job'.bck = job.bck /\ job'.evicted = job.evicted
      /\ job'.waitsafe = job.waitsafe
  BY DEF UnlockLeave, TInv, Typed, Good, Job
<1>3. /\ Chained(stack') /\ \A f \in On(stack') : f \in On(stack)
      /\ \A f \in On(stack) : Works(f) => f \in On(stack')
      /\ Over(Top', Top)
  BY <1>2, HandlerReturns
<1>4. Asked'
  <2>1. ~(Top'.fn = "wait" /\ Top'.pc = "reaped")
    BY <1>2, <1>3 DEF Over, Base
  <2>2. QED
    BY <2>1 DEF Asked
<1>5. CountsOn
  <2>1. Slack' = Slack
    BY <1>2 DEF Slack, Running, Dead
  <2>2. QED
    BY <1>2, <2>1 DEF CountsOn
<1>6. QED
  BY <1>1, <1>2, <1>3, <1>4, <1>5, HandlerStep

LEMMA ReapEndStands ==
    ASSUME TInv, SInv, ReapEnd
    PROVE  SInv'
<1>1. TInv'
  BY ReapEndTypes
<1>2. /\ Top.fn = "reap" /\ stack' = Caller
      /\ sh' = sh /\ kernel' = kernel /\ child' = child /\ sigchld' = sigchld
      /\ job'.rec = job.rec /\ job'.bck = job.bck /\ job'.evicted = job.evicted
      /\ job'.waitsafe = job.waitsafe
      /\ job'.nochild = IF Top.async THEN job.nochild ELSE NoChild
  BY DEF ReapEnd, TInv, Typed, Good, Job
<1>3. /\ Chained(stack') /\ \A f \in On(stack') : f \in On(stack)
      /\ \A f \in On(stack) : Works(f) => f \in On(stack')
      /\ Top' \in On(stack) /\ Over(Top', Top)
  BY <1>2, HandlerReturns
<1>4. Asked'
  <2>1. ASSUME Top'.fn = "wait", Top'.pc = "reaped", Top'.owed, job'.nochild
        PROVE  kernel'[Top'.pid].st = "free"
    <3>1. ~Top.async
      BY <1>2, <1>3, <2>1 DEF Over, Holds
    <3>2. NoChild
      BY <1>2, <2>1, <3>1
    <3>3. WaitFits(Top')
      BY <1>3, <2>1 DEF SInv, AllFit, Fits
    <3>4. Top'.pid \in Pid
      BY <2>1, <3>3 DEF WaitFits
    <3>5. QED
      BY <1>2, <3>2, <3>4 DEF NoChild
  <2>2. QED
    BY <2>1 DEF Asked
<1>5. CountsOn
  <2>1. Slack' = Slack
    BY <1>2 DEF Slack, Running, Dead
  <2>2. QED
    BY <1>2, <2>1 DEF CountsOn
<1>6. QED
  BY <1>1, <1>2, <1>3, <1>4, <1>5, HandlerStep

LEMMA SlackIs ==
    ASSUME TInv, IsFiniteSet(Living)
    PROVE  /\ Slack \in Nat /\ Cardinality(Running) \in Nat /\ Cardinality(Dead) \in Nat
           /\ Slack = 2 * Cardinality(Running) + Cardinality(Dead) + (IF sigchld THEN 1 ELSE 0)
           /\ IsFiniteSet(Running) /\ IsFiniteSet(Dead)
  BY SlackBound DEF Slack

(* The signal itself is one of the things that may still count. *)
LEMMA SignalCounts ==
    ASSUME TInv, IsFiniteSet(Living), sigchld, ~sigchld', kernel' = kernel,
           job'.waitsafe \in {job.waitsafe, Bump(job.waitsafe)}
    PROVE  CountsOn
<1>1. PICK m \in Nat : m = 2 * Cardinality(Running) + Cardinality(Dead)
  <2>1. Cardinality(Running) \in Nat /\ Cardinality(Dead) \in Nat
    BY SlackIs
  <2>2. 2 * Cardinality(Running) + Cardinality(Dead) \in Nat
    BY <2>1
  <2>3. QED
    BY <2>2
<1>2. Slack = m + 1
  BY <1>1, SlackIs
<1>3. Slack' = m
  <2>1. Slack' = m + 0
    BY <1>1 DEF Slack, Running, Dead
  <2>2. QED
    BY <1>1, <2>1
<1>4. job.waitsafe \in 0..WaitsafeMod - 1 /\ WaitsafeMod \in Nat
  BY WaitsafeIs, LimitAssumption
<1>5. ASSUME job.waitsafe + Slack < WaitsafeMod
      PROVE  job'.waitsafe + Slack' < WaitsafeMod /\ (job.waitsafe # 0 => job'.waitsafe # 0)
  <2>1. Bump(job.waitsafe) # 0 /\ Bump(job.waitsafe) + m < WaitsafeMod
    BY <1>1, <1>2, <1>4, <1>5, SlackDrops
  <2>2. CASE job'.waitsafe = Bump(job.waitsafe)
    BY <1>3, <2>1, <2>2
  <2>3. CASE job'.waitsafe = job.waitsafe
    BY <1>1, <1>2, <1>3, <1>4, <1>5, <2>3
  <2>4. QED
    BY <2>2, <2>3
<1>6. QED
  BY <1>5 DEF CountsOn

LEMMA SigChldStands ==
    ASSUME TInv, IsFiniteSet(Living), Balanced, SInv, SigChld
    PROVE  SInv'
<1>1. TInv'
  BY SigChldTypes
<1>2. /\ sigchld /\ ~sigchld' /\ sh' = sh /\ kernel' = kernel /\ child' = child
  BY DEF SigChld
<1>3. Top \in Frame /\ Founded(stack) /\ Chained(stack) /\ On(stack) = On(Caller) \cup {Top}
      /\ job \in Job /\ Asked
  BY InvIs, OnTop, TopIs DEF SInv
<1>4. PICK h : h = Reap(TRUE, TRUE)
  OBVIOUS
<1>5. h \in Frame /\ Calmly(h) /\ h.fn = "reap"
  BY <1>4, FramesAre DEF Reap, Calmly
<1>6. ASSUME MayReap
      PROVE  \A g \in On(stack) : Over(g, h)
  <2>1. \A g \in On(stack) : ~Holds(g)
    BY <1>3, <1>6, CriticalIs DEF MayReap
  <2>2. QED
    BY <1>5, <2>1 DEF Over, Base, Works, Holds
<1>7. CASE /\ MayReap /\ stack' = Append(stack, h) /\ job' = StartReap(job)
  <2>1. Chained(stack') /\ On(stack') = On(stack) \cup {h} /\ Top' = h
    BY <1>3, <1>5, <1>6, <1>7, Pushes DEF Top
  <2>2. /\ job'.rec = job.rec /\ job'.bck = job.bck /\ job'.evicted = job.evicted
        /\ job'.waitsafe = job.waitsafe
    BY <1>3, <1>7 DEF StartReap, Job
  <2>3. CountsOn
    BY <1>2, <2>2, SignalCounts
  <2>4. Asked'
    BY <1>5, <2>1 DEF Asked
  <2>5. \A g \in On(stack') : g \in On(stack) \/ g.fn \in {"unlock", "reap"}
    BY <1>5, <2>1
  <2>6. \A g \in On(stack) : Works(g) => g \in On(stack')
    BY <2>1
  <2>7. QED
    BY <1>1, <1>2, <2>1, <2>2, <2>3, <2>4, <2>5, <2>6, HandlerStep
<1>8. CASE /\ MayReap /\ Blocked /\ stack' = Append(Caller, h)
           /\ job' = [StartReap(job) EXCEPT !.nochild = FALSE]
  <2>1. Top.fn = "reap"
    BY <1>8 DEF Blocked
  <2>2. stack' = Continue(h)
    BY <1>8 DEF Continue
  <2>3. \A g \in On(Caller) : Over(g, h)
    BY <1>3, <1>6, <1>8
  <2>4. Chained(stack') /\ On(stack') = On(Caller) \cup {h} /\ Top' = h
    BY <1>3, <1>5, <2>2, <2>3, Goes DEF Top
  <2>5. /\ job'.rec = job.rec /\ job'.bck = job.bck /\ job'.evicted = job.evicted
        /\ job'.waitsafe = job.waitsafe
    BY <1>3, <1>8 DEF StartReap, Job
  <2>6. CountsOn
    BY <1>2, <2>5, SignalCounts
  <2>7. Asked'
    BY <1>5, <2>4 DEF Asked
  <2>8. \A g \in On(stack') : g \in On(stack) \/ g.fn \in {"unlock", "reap"}
    BY <1>3, <1>5, <2>4
  <2>9. \A g \in On(stack) : Works(g) => g \in On(stack')
    BY <1>3, <2>1, <2>4 DEF Works
  <2>10. QED
    BY <1>1, <1>2, <2>4, <2>5, <2>6, <2>7, <2>8, <2>9, HandlerStep
<1>9. CASE /\ stack' = stack /\ job' = [job EXCEPT !.savesig = TRUE, !.waitsafe = Bump(@)]
  <2>1. /\ job'.rec = job.rec /\ job'.bck = job.bck /\ job'.evicted = job.evicted
        /\ job'.waitsafe = Bump(job.waitsafe) /\ job'.nochild = job.nochild
    BY <1>3, <1>9 DEF Job
  <2>2. CountsOn
    BY <1>2, <2>1, SignalCounts
  <2>3. Top' = Top
    BY <1>9 DEF Top
  <2>4. Asked'
    BY <1>2, <1>3, <2>1, <2>3 DEF Asked
  <2>5. Chained(stack') /\ On(stack') = On(stack)
    BY <1>3, <1>9
  <2>6. QED
    BY <1>1, <1>2, <2>1, <2>2, <2>4, <2>5, HandlerStep
<1>10. QED
  BY <1>4, <1>7, <1>8, <1>9 DEF SigChld

LEMMA ExitCounts ==
    ASSUME TInv, IsFiniteSet(Living), NEW p \in Pid, NEW x, kernel[p].st = "run", sigchld',
           kernel' = [kernel EXCEPT ![p] = [st |-> "zombie", status |-> x]]
    PROVE  Slack' <= Slack /\ Slack' \in Nat /\ Slack \in Nat
<1>1. /\ Slack \in Nat /\ Cardinality(Running) \in Nat /\ Cardinality(Dead) \in Nat
      /\ Slack = 2 * Cardinality(Running) + Cardinality(Dead) + (IF sigchld THEN 1 ELSE 0)
      /\ IsFiniteSet(Running) /\ IsFiniteSet(Dead)
  BY SlackIs
<1>2. \A q \in Pid : kernel'[q] = IF q = p THEN [st |-> "zombie", status |-> x] ELSE kernel[q]
  BY DEF TInv, Typed
<1>3. p \in Running /\ p \notin Dead
  BY DEF Running, Dead
<1>4. Running' = Running \ {p}
  BY <1>2 DEF Running
<1>5. Dead' = Dead \cup {p}
  BY <1>2 DEF Dead
<1>6. Cardinality(Running \ {p}) = Cardinality(Running) - 1
  BY <1>1, <1>3, FS_RemoveElement
<1>7. Cardinality(Dead \cup {p}) = Cardinality(Dead) + 1
  BY <1>1, <1>3, FS_AddElement
<1>8. Cardinality(Running') = Cardinality(Running) - 1
  BY <1>4, <1>6
<1>9. Cardinality(Dead') = Cardinality(Dead) + 1
  BY <1>5, <1>7
<1>10. Slack' = 2 * Cardinality(Running') + Cardinality(Dead') + 1
  BY DEF Slack
<1>11. PICK r \in Nat : r = Cardinality(Running)
  BY <1>1
<1>12. PICK d \in Nat : d = Cardinality(Dead)
  BY <1>1
<1>13. Slack' = 2 * (r - 1) + (d + 1) + 1
  BY <1>8, <1>9, <1>10, <1>11, <1>12
<1>14. Slack = 2 * r + d \/ Slack = 2 * r + d + 1
  BY <1>1, <1>11, <1>12
<1>15. QED
  BY <1>13, <1>14

LEMMA ChildExitStands ==
    ASSUME TInv, IsFiniteSet(Living), SInv, NEW p \in Pid, ChildExit(p)
    PROVE  SInv'
<1>1. PICK x \in Status : /\ kernel' = [kernel EXCEPT ![p] = [st |-> "zombie", status |-> x]]
                          /\ child' = [child EXCEPT ![p].status = x]
  BY DEF ChildExit
<1>2. kernel[p].st = "run" /\ sigchld' /\ stack' = stack /\ job' = job /\ sh' = sh
  BY DEF ChildExit
<1>3. /\ kernel'[p].st = "zombie" /\ kernel'[p].status = x
      /\ \A q \in Pid : q # p => kernel'[q] = kernel[q] /\ child'[q] = child[q]
      /\ child'[p].status = x /\ child'[p].owed = child[p].owed
  <2>1. kernel \in [Pid -> Kernel] /\ child \in [Pid -> Child]
    BY DEF TInv, Typed
  <2>2. QED
    BY <1>1, <2>1 DEF Child
<1>4. \A q \in Pid : /\ kernel'[q].st = "free" <=> kernel[q].st = "free"
                     /\ child'[q].owed = child[q].owed
  BY <1>2, <1>3
<1>5. Chained(stack) /\ Untroubled /\ Tidy(job) /\ Stands /\ Fresh /\ Zombies /\ AllFit /\ Asked
  BY DEF SInv
<1>6. ASSUME NEW q \in Pid, child'[q].owed, q \notin job'.evicted
      PROVE  Standing(q)'
  <2>1. Standing(q)
    BY <1>2, <1>4, <1>5, <1>6 DEF Stands
  <2>2. CASE Forked(q) \/ Waited(q)
    BY <1>2, <2>2 DEF Forked, Waited, Standing
  <2>3. CASE kernel[q].st # "free" /\ Runs(job.rec, q)
    BY <1>2, <1>4, <2>3 DEF Standing
  <2>4. CASE kernel[q].st = "free" /\ Stored(job, q, child[q].status)
    <3>1. q # p
      BY <1>2, <2>4
    <3>2. kernel'[q].st = "free" /\ Stored(job', q, child'[q].status)
      BY <1>2, <1>3, <2>4, <3>1
    <3>3. QED
      BY <3>2 DEF Standing
  <2>5. QED
    BY <2>1, <2>2, <2>3, <2>4 DEF Standing
<1>7. Fresh'
  <2>1. ASSUME NEW s \in Slot, job'.rec[s].pid # 0, "DONE" \notin job'.rec[s].flag
        PROVE  kernel'[job'.rec[s].pid].st # "free"
    <3>1. job.rec[s].pid \in Pid /\ kernel[job.rec[s].pid].st # "free"
      BY <1>2, <1>5, <2>1 DEF Tidy, Good, Job, Process, Fresh
    <3>2. QED
      BY <1>2, <1>4, <3>1
  <2>2. QED
    BY <2>1 DEF Fresh
<1>8. Zombies'
  <2>1. ASSUME NEW q \in Pid, kernel'[q].st = "zombie"
        PROVE  child'[q].status = kernel'[q].status
    BY <1>3, <1>5, <2>1 DEF Zombies
  <2>2. QED
    BY <2>1 DEF Zombies
<1>9. job.waitsafe + Slack < WaitsafeMod => job'.waitsafe + Slack' < WaitsafeMod
  <2>1. Slack' <= Slack /\ Slack' \in Nat /\ Slack \in Nat
    BY <1>1, <1>2, ExitCounts
  <2>2. job.waitsafe \in Nat /\ WaitsafeMod \in Nat
    BY WaitsafeIs, LimitAssumption
  <2>3. QED
    BY <1>2, <2>1, <2>2
<1>10. ASSUME NEW f \in ForkFrame, ForkFits(f)
       PROVE  ForkFits(f)'
  <2>1. f.pid \in Pid \cup {0}
    BY DEF ForkFrame
  <2>2. f.pc = "forked" => /\ f.pid \in Pid /\ kernel'[f.pid].st # "free"
                           /\ \A s \in Slot : job'.rec[s].pid = f.pid => "DONE" \in job'.rec[s].flag
                           /\ child'[f.pid].owed => sh'.curenv = 0
    BY <1>2, <1>4, <1>10 DEF ForkFits
  <2>3. f.pid # 0 /\ ~f.bg => ~child'[f.pid].owed
    BY <1>4, <1>10, <2>1 DEF ForkFits
  <2>4. QED
    BY <2>2, <2>3 DEF ForkFits
<1>11. ASSUME NEW f \in WaitFrame, WaitFits(f)
       PROVE  WaitFits(f)'
  <2>1. ASSUME f.owed, f.pc \in {"end", "cleanup", "return"}
        PROVE  f.exitval = child'[f.pid].status /\ kernel'[f.pid].st = "free"
    <3>1. f.exitval = child[f.pid].status /\ kernel[f.pid].st = "free" /\ f.pid \in Pid
      BY <1>11, <2>1 DEF WaitFits
    <3>2. f.pid # p
      BY <1>2, <3>1
    <3>3. QED
      BY <1>3, <3>1, <3>2
  <2>2. QED
    BY <1>2, <1>4, <1>9, <1>11, <2>1 DEF WaitFits
<1>12. AllFit'
  <2>1. On(stack) \subseteq Frame /\ On(stack') = On(stack)
    BY <1>2, InvIs, OnTop
  <2>2. ASSUME NEW f \in On(stack)
        PROVE  Fits(f)'
    <3>1. f \in Frame /\ Fits(f)
      BY <1>5, <2>1, <2>2 DEF AllFit
    <3>2. f.fn = "fork" => ForkFits(f)'
      BY <1>10, <3>1, Kinds DEF Fits
    <3>3. f.fn = "wait" => WaitFits(f)'
      BY <1>11, <3>1, Kinds DEF Fits
    <3>4. QED
      BY <1>2, <3>1, <3>2, <3>3 DEF Fits
  <2>3. QED
    BY <2>1, <2>2 DEF AllFit
<1>13. Asked'
  <2>1. Top' = Top
    BY <1>2 DEF Top
  <2>2. ASSUME Top.fn = "wait", Top.pc = "reaped", Top.owed, job.nochild
        PROVE  kernel'[Top.pid].st = "free"
    <3>1. Top.pid \in Pid
      BY <2>2, WaitsIs DEF WaitFits
    <3>2. QED
      BY <1>4, <1>5, <2>2, <3>1 DEF Asked
  <2>3. QED
    BY <1>2, <2>1, <2>2 DEF Asked
<1>14. Chained(stack') /\ Untroubled' /\ Tidy(job')
  BY <1>2, <1>5 DEF Untroubled
<1>15. QED
  BY <1>6, <1>7, <1>8, <1>12, <1>13, <1>14 DEF SInv, Stands

LEMMA ReapCounts ==
    ASSUME TInv, IsFiniteSet(Living), NEW p \in Pid, kernel[p].st = "zombie", sigchld' = sigchld,
           kernel' = [kernel EXCEPT ![p] = [st |-> "free"]],
           job'.waitsafe = Bump(job.waitsafe), job.waitsafe + Slack < WaitsafeMod
    PROVE  job'.waitsafe + Slack' < WaitsafeMod /\ job'.waitsafe # 0
<1>1. /\ Slack \in Nat /\ Cardinality(Running) \in Nat /\ Cardinality(Dead) \in Nat
      /\ Slack = 2 * Cardinality(Running) + Cardinality(Dead) + (IF sigchld THEN 1 ELSE 0)
      /\ IsFiniteSet(Running) /\ IsFiniteSet(Dead)
  BY SlackIs
<1>2. \A q \in Pid : kernel'[q] = IF q = p THEN [st |-> "free"] ELSE kernel[q]
  BY DEF TInv, Typed
<1>3. p \notin Running /\ p \in Dead
  BY DEF Running, Dead
<1>4. Running' = Running
  BY <1>2, <1>3 DEF Running
<1>5. Dead' = Dead \ {p}
  BY <1>2, <1>3 DEF Dead
<1>6. IsFiniteSet(Dead \ {p}) /\ Cardinality(Dead \ {p}) = Cardinality(Dead) - 1
  BY <1>1, <1>3, FS_RemoveElement
<1>7. Cardinality(Dead \ {p}) \in Nat
  BY <1>6, FS_CardinalityType
<1>8. PICK b \in {0, 1} : b = IF sigchld THEN 1 ELSE 0
  OBVIOUS
<1>9. PICK n : n = Slack'
  OBVIOUS
<1>10. n = 2 * Cardinality(Running) + (Cardinality(Dead) - 1) + b
  BY <1>4, <1>5, <1>6, <1>8, <1>9 DEF Slack
<1>11. n \in Nat /\ Slack = n + 1
  BY <1>1, <1>6, <1>7, <1>8, <1>10
<1>12. QED
  BY <1>9, <1>11, WaitsafeIs, SlackDrops

LEMMA ReapOneStands ==
    ASSUME TInv, IsFiniteSet(Living), ~Monitor, SInv, ReapOne
    PROVE  SInv'
<1>1. Top \in Frame /\ Founded(stack) /\ Chained(stack) /\ Calmly(Top) /\ Untroubled /\ Tidy(job)
      /\ Stands /\ Fresh /\ Zombies /\ AllFit /\ sh \in Shell
  BY InvIs DEF SInv, TInv, Typed
<1>2. Top.fn = "reap" /\ Top.pw = 0
  BY DEF ReapOne
<1>3. PICK p \in Pid :
         /\ kernel[p].st = "zombie" /\ kernel' = [kernel EXCEPT ![p] = [st |-> "free"]]
         /\ sh' = sh /\ stack' = Continue(Reaped(0))
         /\ job' = Notice(RecordEnd(job, p, kernel[p].status, FALSE), job_bypid(job, p))
  <2>1. sh.trapcom = FALSE
    BY <1>1 DEF Untroubled, Shell
  <2>2. QED
    BY <2>1 DEF ReapOne
<1>4. child' = child /\ sigchld' = sigchld
  BY DEF ReapOne
<1>5. PICK x : x = kernel[p].status
  OBVIOUS
<1>6. x \in Status \cup {0} /\ x = child[p].status
  <2>1. kernel[p] \in Kernel
    BY DEF TInv, Typed
  <2>2. kernel[p].status \in Status
    BY <1>3, <2>1 DEF Kernel
  <2>3. QED
    BY <1>1, <1>3, <1>5, <2>2 DEF Zombies
<1>7. ReapedAs(job, job', p, x)
  BY <1>1, <1>3, <1>5, <1>6, ReapKeeps
<1>8. PICK f : f = Reaped(0)
  OBVIOUS
<1>9. f \in Frame /\ f.fn = "reap" /\ f.pw = 0 /\ f.async = Top.async
  <2>1. Top \in ReapFrame /\ f \in ReapFrame
    BY <1>1, <1>2, <1>8, AtReap DEF Reaped
  <2>2. QED
    BY <1>8, <2>1 DEF Reaped, ReapFrame, Frame
<1>10. \A g \in On(Caller) : Over(g, Top) /\ g \in Frame
  BY <1>1, ChainTop
<1>11. Calmly(f) /\ \A g \in On(Caller) : Over(g, f)
  BY <1>2, <1>9, <1>10 DEF Calmly, Over, Base, Works
<1>12. Chained(stack') /\ On(stack') = On(Caller) \cup {f} /\ Top' = f
  BY <1>1, <1>3, <1>8, <1>9, <1>11, Goes DEF Top
<1>13. On(stack) = On(Caller) \cup {Top}
  BY <1>1, OnTop
<1>14. \A g \in On(Caller) : g.fn = "fork" => g.pc # "forked"
  BY <1>2, <1>10 DEF Over
<1>15. \A q \in Pid : kernel'[q] = IF q = p THEN [st |-> "free"] ELSE kernel[q]
  BY <1>3 DEF TInv, Typed
<1>16. ASSUME NEW q \in Pid, child'[q].owed, q \notin job'.evicted
       PROVE  Standing(q)'
  <2>1. Standing(q)
    BY <1>1, <1>4, <1>7, <1>16 DEF Stands, ReapedAs
  <2>2. ~Forked(q)
    BY <1>2, <1>13, <1>14 DEF Forked
  <2>3. CASE Waited(q)
    <3>1. Waited(q)'
      BY <1>2, <1>12, <1>13, <2>3 DEF Waited
    <3>2. QED
      BY <3>1 DEF Standing
  <2>4. CASE kernel[q].st # "free" /\ Runs(job.rec, q)
    <3>1. CASE q = p
      <4>1. Stored(job', q, child'[q].status) /\ kernel'[q].st = "free"
        BY <1>4, <1>6, <1>7, <1>15, <2>4, <3>1 DEF ReapedAs
      <4>2. QED
        BY <4>1 DEF Standing
    <3>2. CASE q # p
      <4>1. Runs(job'.rec, q) /\ kernel'[q].st # "free"
        BY <1>7, <1>15, <2>4, <3>2 DEF ReapedAs
      <4>2. QED
        BY <4>1 DEF Standing
    <3>3. QED
      BY <3>1, <3>2
  <2>5. CASE kernel[q].st = "free" /\ Stored(job, q, child[q].status)
    <3>1. q # p
      BY <1>3, <2>5
    <3>2. Stored(job', q, child'[q].status) /\ kernel'[q].st = "free"
      BY <1>4, <1>7, <1>15, <1>16, <2>5, <3>1 DEF ReapedAs
    <3>3. QED
      BY <3>2 DEF Standing
  <2>6. QED
    BY <2>1, <2>2, <2>3, <2>4, <2>5 DEF Standing
<1>17. Fresh'
  <2>1. ASSUME NEW s \in Slot, job'.rec[s].pid # 0, "DONE" \notin job'.rec[s].flag
        PROVE  kernel'[job'.rec[s].pid].st # "free"
    <3>1. /\ job'.rec[s].pid = job.rec[s].pid /\ job.rec[s].pid # p
          /\ "DONE" \notin job.rec[s].flag
      BY <1>7, <2>1 DEF ReapedAs
    <3>2. job.rec[s].pid \in Pid /\ kernel[job.rec[s].pid].st # "free"
      BY <1>1, <2>1, <3>1 DEF Tidy, Good, Job, Process, Fresh
    <3>3. QED
      BY <1>15, <3>1, <3>2
  <2>2. QED
    BY <2>1 DEF Fresh
<1>18. Zombies'
  <2>1. ASSUME NEW q \in Pid, kernel'[q].st = "zombie"
        PROVE  child'[q].status = kernel'[q].status
    BY <1>1, <1>4, <1>15, <2>1 DEF Zombies
  <2>2. QED
    BY <2>1 DEF Zombies
<1>19. \A q \in Pid : kernel[q].st = "free" => kernel'[q].st = "free"
  BY <1>15
<1>20. ASSUME NEW g \in WaitFrame, WaitFits(g)
       PROVE  WaitFits(g)'
  <2>1. ASSUME g.pc \in {"loop", "reaped"}, g.pw # 0
        PROVE  /\ g.pid \in Pid /\ job'.rec[g.pw].pid = g.pid
               /\ g.pid \notin job.evicted => g.pid \notin job'.evicted
    <3>1. g.pw \in Slot /\ g.pid \in Pid /\ job.rec[g.pw].pid = g.pid
      BY <1>20, <2>1 DEF WaitFrame, WaitFits
    <3>2. ~HasEntry(job.bck, g.pid)
      BY <1>1, <3>1, PidAssumption DEF Tidy, Parted
    <3>3. QED
      BY <1>7, <3>1, <3>2 DEF ReapedAs
  <2>2. job.waitsafe + Slack < WaitsafeMod =>
           job'.waitsafe + Slack' < WaitsafeMod /\ job'.waitsafe # 0
    BY <1>3, <1>4, <1>7, ReapCounts DEF ReapedAs
  <2>3. g.owed => g.pid \in Pid /\ g.pc # "walk"
    BY <1>20 DEF WaitFits
  <2>4. g.owed /\ g.pc \in {"loop", "reaped"} =>
           g.pw # 0 /\ child'[g.pid].owed /\ g.pid \notin job'.evicted
    BY <1>4, <1>20, <2>1 DEF WaitFits
  <2>5. g.owed /\ g.pc \in {"end", "cleanup", "return"} =>
           g.exitval = child'[g.pid].status /\ kernel'[g.pid].st = "free"
    BY <1>4, <1>19, <1>20, <2>3 DEF WaitFits
  <2>6. g.owed /\ g.pc = "reaped" =>
           job'.waitsafe + Slack' < WaitsafeMod /\ job'.waitsafe # 0
    BY <1>20, <2>2 DEF WaitFits
  <2>7. QED
    BY <2>1, <2>3, <2>4, <2>5, <2>6 DEF WaitFits
<1>21. AllFit'
  <2>1. ASSUME NEW g \in On(Caller)
        PROVE  Fits(g)'
    <3>1. g \in Frame /\ Fits(g)
      BY <1>1, <1>10, <1>13, <2>1 DEF AllFit
    <3>2. g.fn = "fork" => ForkFits(g)'
      BY <1>4, <1>14, <2>1, <3>1 DEF Fits, ForkFits
    <3>3. g.fn = "wait" => WaitFits(g)'
      BY <1>20, <3>1, Kinds DEF Fits
    <3>4. QED
      BY <1>3, <3>1, <3>2, <3>3 DEF Fits
  <2>2. Fits(f)'
    BY <1>9 DEF Fits
  <2>3. ASSUME NEW g \in On(stack')
        PROVE  Fits(g)'
    <3>1. g \in On(Caller) \/ g = f
      BY <1>12, <2>3
    <3>2. QED
      BY <2>1, <2>2, <3>1
  <2>4. QED
    BY <2>3 DEF AllFit
<1>22. Untroubled' /\ Tidy(job') /\ Asked'
  <2>1. Asked'
    BY <1>9, <1>12 DEF Asked
  <2>2. QED
    BY <1>1, <1>3, <1>7, <2>1 DEF Untroubled, ReapedAs
<1>23. QED
  BY <1>12, <1>16, <1>17, <1>18, <1>21, <1>22 DEF SInv, Stands

-------------------------------------------------------------------------------
(* Every step keeps the statuses, and job_wait finds them. *)

(* The table of a shell that starts is empty. *)
LEMMA InitStands ==
    ASSUME Init
    PROVE  SInv
<1>1. Good(job)
  BY InitTypes DEF TInv, Typed
<1>2. /\ \A s \in Slot : job.rec[s].pid = 0 /\ job.rec[s].flag = {}
      /\ job.bck = <<<<>>>>
  BY DEF Init
<1>3. Len(job.bck) = 1 /\ Len(job.bck[1]) = 0
  BY <1>2
<1>4. \A p : ~HasEntry(job.bck, p)
  BY <1>3 DEF HasEntry
<1>5. OneEntry(job.bck)
  BY <1>3 DEF OneEntry
<1>6. Tidy(job)
  BY <1>1, <1>2, <1>4, <1>5 DEF Tidy, OneRecord, Parted, Untold
<1>7. Len(stack) = 1 /\ stack[1] = Main
  BY DEF Init
<1>8. Chained(stack)
  BY <1>7 DEF Chained, Calmly, Base, Main
<1>9. \A f \in On(stack) : f = Main
  BY <1>7 DEF On
<1>10. Top = Main
  BY <1>7 DEF Top
<1>11. \A p \in Pid : kernel[p].st = "free" /\ child[p].owed = FALSE
  BY DEF Init
<1>12. AllFit /\ Asked
  BY <1>9, <1>10 DEF AllFit, Fits, Asked, Main
<1>13. Stands /\ Fresh /\ Zombies
  BY <1>2, <1>11 DEF Stands, Fresh, Zombies
<1>14. Untroubled
  BY DEF Init, Untroubled
<1>15. QED
  BY <1>6, <1>8, <1>12, <1>13, <1>14 DEF SInv

LEMMA StutterStands ==
    ASSUME TInv, SInv, UNCHANGED vars
    PROVE  SInv'
<1>1. /\ stack' = stack /\ job' = job /\ sh' = sh /\ kernel' = kernel /\ sigchld' = sigchld
      /\ child' = child
  BY DEF vars
<1>2. Chained(stack') /\ Tidy(job') /\ Untroubled'
  BY <1>1 DEF SInv, Untroubled
<1>3. \A p : (Forked(p) => Forked(p)') /\ (Waited(p) => Waited(p)')
  BY <1>1 DEF Forked, Waited
<1>4. Stands'
  BY <1>1, <1>3 DEF SInv, Stands, Standing
<1>5. Fresh' /\ Zombies'
  BY <1>1 DEF SInv, Fresh, Zombies
<1>6. Slack' = Slack /\ Top' = Top
  BY <1>1 DEF Slack, Running, Dead, Top
<1>7. \A f : Fits(f) => Fits(f)'
  BY <1>1, <1>6 DEF Fits, ForkFits, WaitFits
<1>8. AllFit' /\ Asked'
  BY <1>1, <1>6, <1>7 DEF SInv, AllFit, Asked
<1>9. QED
  BY <1>2, <1>4, <1>5, <1>8 DEF SInv

LEMMA NextStands ==
    ASSUME ~Monitor, "trap" \notin Ops, "error" \notin Ops,
           TInv, Depth, IsFiniteSet(Living), Balanced, FewChildren, SInv, [Next]_vars
    PROVE  SInv'
<1>1. Calmly(Top)
  BY InvIs
<1>2. ~(\/ ReapNotice \/ ChldtrapStart \/ ChldtrapScan \/ ChldtrapHandled \/ ChldtrapEnd
        \/ HandlerEnd \/ HandlerError \/ TrapChld \/ NtforkError)
  BY <1>1 DEF Calmly, Base, Works, ReapNotice, ChldtrapStart, ChldtrapScan, ChldtrapHandled,
     ChldtrapEnd, HandlerEnd, HandlerError, TrapChld, NtforkError
<1>3. CASE Step
  <2>1. CASE ReapOne \/ ReapEnd \/ UnlockTest \/ UnlockLeave
    BY <2>1, ReapOneStands, ReapEndStands, UnlockTestStands, UnlockLeaveStands
  <2>2. CASE Builtin \/ Chktrap \/ Jobs \/ JobsWalk
    BY <2>2, CommandStands, JobsStands, WaitCleanupStands
  <2>3. CASE \/ StartFork \/ JobmaxWait \/ JobmaxWaited \/ Fork_bg \/ Ntfork \/ Fork_fg
             \/ ForkPost \/ ForkEnd \/ ForkDone
    BY <2>3, StartStands, ForkStands, ForksStand, ForkPostStands, ForkDoneStands
  <2>4. CASE WaitForeground \/ (\E p \in Pid : WaitFor(p)) \/ WaitAll \/ WaitDone \/ WaitReap
    BY <2>4, WaitForegroundStands, WaitForStands, StartStands, WaitDoneStands, WaitReapStands
  <2>5. CASE WaitReaped \/ WaitEnd \/ WaitCleanup \/ WaitReturn
    BY <2>5, WaitReapedStands, WaitEndStands, WaitCleanupStands, WaitReturnStands
  <2>6. CASE EnterSub \/ SubReset \/ LeaveSub \/ SubLeft
    BY <2>6, EnterSubStands, SubResetStands, LeaveSubStands, SubLeftStands
  <2>7. QED
    BY <1>2, <1>3, <2>1, <2>2, <2>3, <2>4, <2>5, <2>6 DEF Step
<1>4. CASE SigChld \/ \E p \in Pid : ChildExit(p)
  BY <1>4, SigChldStands, ChildExitStands
<1>5. CASE UNCHANGED vars
  BY <1>5, StutterStands
<1>6. QED
  BY <1>3, <1>4, <1>5 DEF Next

(* wait p returns the status with which p ended, however SIGCHLD, job_reap,
   job_unpost, JOBMAX, subshells and reused process IDs come between, unless
   CHILD_MAX left no room for it.  That holds of programs that set no CHLD trap
   and do no job control, in which no command fails in a critical region, while
   the SIGCHLDs that may arrive during one wait do not make job.waitsafe wrap:
   a char counts those of 127 children (job_wait, jobsave_create, job_chksave). *)
THEOREM StatusKept ==
    ASSUME ~Monitor, "trap" \notin Ops, "error" \notin Ops
    PROVE  Spec /\ []FewChildren => []StatusReported
<1>1. Init => SInv
  BY InitStands
<1>2. TInv /\ Depth /\ Limited /\ Balanced /\ FewChildren /\ SInv /\ [Next]_vars => SInv'
  BY NextStands DEF Limited
<1>3. Spec => [](TInv /\ Depth /\ Limited)
  BY LimitsHold
<1>4. Spec => [](TInv /\ Balanced)
  BY BalancedHolds
<1>5. SInv => StatusReported
  <2>1. ASSUME SInv, NEW i \in 1..Len(stack),
               stack[i].fn = "wait", stack[i].pc = "return", stack[i].owed
        PROVE  stack[i].exitval = child[stack[i].pid].status
    <3>1. stack[i] \in On(stack)
      BY DEF On
    <3>2. WaitFits(stack[i])
      BY <2>1, <3>1 DEF SInv, AllFit, Fits
    <3>3. QED
      BY <2>1, <3>2 DEF WaitFits
  <2>2. QED
    BY <2>1 DEF StatusReported
<1>6. QED
  BY <1>1, <1>2, <1>3, <1>4, <1>5, PTL DEF Spec

================================================================================
