-------------------------------- MODULE History --------------------------------
(***************************************************************************)
(* The history file of interactive shells (edit/history.c), with the       *)
(* callers in the command loop (sh/main.c exfile), the hist built-in       *)
(* (bltins/hist.c) and sh_eval.                                            *)
(*                                                                         *)
(* Any number of shells append to one file and each keeps an index of it   *)
(* in core, without a lock: a shell reads what the others appended at its  *)
(* prompt and again when a line was typed, and takes for granted that what *)
(* it writes later comes directly behind.  The file is a sequence of cells *)
(* and an offset is the number of cells before it, so that an undo record  *)
(* is shorter than a command, as it is in bytes.  The two bytes that start *)
(* the file are offset 0.                                                  *)
(*                                                                         *)
(* Left out: a file that became shorter (another program truncated it) or  *)
(* that cannot be written, two shells that create the file at once, audit  *)
(* and accounting files, print -s and hist -p, a change of HISTFILE or      *)
(* HISTSIZE, and a HISTSIZE below 3.                                       *)
(***************************************************************************)
EXTENDS Integers, Sequences, FiniteSets, SequencesExt

CONSTANTS
    Shell,       \* processes that use the file
    Size,        \* histsize: how many commands an index covers (HISTSIZE)
    Radix,       \* a marker stores a number in digits of this size (a byte)
    MarkEvery,   \* a marker is written this far behind the last one (HIST_BSIZE/2)
    ScanSize,    \* how far from its end hist_nearend starts to look
    TrimSize,    \* a longer file is trimmed (HIST_MAX)
    Ops,         \* what the users of this instance do
    MaxCmd,      \* bound on the command lines typed
    MaxInode     \* bound on the files that had the name

OpNames == {"empty", "edit", "overflow", "crash", "trim"}

ASSUME SizeAssumption == Size \in Nat \ 0..2 /\ Radix \in Nat \ 0..1
ASSUME DistanceAssumption ==
    /\ MarkEvery \in Nat /\ ScanSize \in Nat \ {0} /\ TrimSize \in Nat
ASSUME HistoryBoundAssumption ==
    /\ MaxCmd \in Nat /\ MaxInode \in Nat \ {0} /\ Ops \subseteq OpNames

Cmd == 1..MaxCmd             \* command lines, in the order they were begun
Inode == 1..MaxInode
Index == -MaxCmd..2 * MaxCmd + 3   \* command numbers: torn texts count, undo records may repeat

(* head: text without its terminating zero byte.  tail: text with it.  zero:
   the byte alone.  undo: HIST_UNDO and a zero byte.  mark: HIST_CMDNO, a zero
   byte, the number and a zero byte. *)
Cell == [t : {"head", "tail"}, v : Cmd] \cup [t : {"undo", "zero"}, v : {0}]
        \cup [t : {"mark"}, v : Int]

(* History_t, with where the shell is: `exec` runs a command, `prompt` waits
   for a line, `parse` has read one and sends it to the file's buffer, `edit`
   runs the editor of the hist built-in, `repair` found an incomplete command
   at the end of the file, and the rest is sh_histinit. *)
Hist == [pc : {"off", "open", "clean", "copy", "exec", "prompt", "parse", "edit", "repair"},
         ret : {"open", "clean", "prompt", "parse", "edit"},  \* repair: what follows hist_eof
         ino : Inode \cup {0},    \* the open file
         old : Inode \cup {0},    \* hist_trim: the file it copies from
         hsize : Nat,             \* sh_histinit: its length when it was opened
         ind : Int,               \* histind: number of the next command
         cnt : Nat,               \* histcnt: offset up to which it was read
         cmds : [Index -> Nat],   \* histcmds: where each command starts
         mark : Nat,              \* histmarker
         cmd : Cmd \cup {0},      \* the line in histfp's buffer
         own : Nat]               \* how much of it has gone to the file

VARIABLES
    data,      \* [Inode -> Seq(Cell)]: what each file contains
    path,      \* the file that has the name, 0 if none
    recent,    \* it was modified within HIST_RECENT seconds
    sh,        \* [Shell -> Hist]
    next,      \* the next command line
    log,       \* history: the lines flushed, without those taken back or trimmed off
    raced,     \* history: some write did not come behind what its shell had read
    broken     \* history: some record was appended where it means something else

vars == <<data, path, recent, sh, next, log, raced, broken>>

Closed == [pc |-> "off", ret |-> "open", ino |-> 0, old |-> 0, hsize |-> 0, ind |-> 1, cnt |-> 0,
           cmds |-> [n \in Index |-> 0], mark |-> 0, cmd |-> 0, own |-> 0]

(* A command number is positive, unless shells wrote over each other's records. *)
TypeOK ==
    /\ data \in [Inode -> Seq(Cell)]
    /\ path \in Inode \cup {0}
    /\ recent \in BOOLEAN
    /\ sh \in [Shell -> Hist]
    /\ next \in 1..MaxCmd + 1
    /\ log \in Seq(Cmd) 
    /\ raced \in BOOLEAN /\ broken \in BOOLEAN
    /\ raced \/ broken \/ \A s \in Shell : sh[s].ind > 0

Init ==
    /\ data = [i \in Inode |-> <<>>] /\ path = 0 /\ recent = TRUE
    /\ sh = [s \in Shell |-> Closed]
    /\ next = 1 /\ log = <<>> /\ raced = FALSE /\ broken = FALSE

--------------------------------------------------------------------------------
(* Reading. *)

Head1(c) == [t |-> "head", v |-> c]
Tail1(c) == [t |-> "tail", v |-> c]
Undo == [t |-> "undo", v |-> 0]
Zero == [t |-> "zero", v |-> 0]
Mark(n) == [t |-> "mark", v |-> n]

EndsText(cell) == cell.t # "head"
MinOf(S) == CHOOSE x \in S : \A y \in S : x <= y

(* The number a marker stands for: the last digit is decremented before the
   digits are combined, then the sum is incremented. *)
MarkerNumber(n) == IF n % Radix = 0 THEN 0 ELSE n

(* The cell that ends at offset `pos` in the scan of hist_eof: `in` is incmd,
   `pad` says that zero bytes belong to the command before. *)
Scanned(st, cell, pos, initial) ==
    LET at(n) == [st EXCEPT !.ind = n, !.cmds[n] = pos, !.in = FALSE, !.pad = FALSE]
    IN  CASE ~ EndsText(cell) -> [st EXCEPT !.in = TRUE]
          [] EndsText(cell) /\ (st.in \/ cell.t = "tail" \/ (cell.t = "zero" /\ ~ st.pad)) ->
                [at(st.ind + 1) EXCEPT !.pad = TRUE]
          [] ~ st.in /\ cell.t = "zero" /\ st.pad -> [st EXCEPT !.cmds[st.ind] = pos]
          [] ~ st.in /\ cell.t = "undo" -> at(st.ind - 1)
          [] ~ st.in /\ cell.t = "mark" ->
                [at(IF initial THEN st.ind ELSE MarkerNumber(cell.v)) EXCEPT !.mark = pos]

(* The scan of `f` from offset `from` to its end. *)
Scan(h, f, from, in, initial) ==
    LET scan[i \in from..Len(f)] ==
            IF i = from
            THEN [ind |-> h.ind, cmds |-> h.cmds, mark |-> h.mark, in |-> in, pad |-> FALSE]
            ELSE Scanned(scan[i - 1], f[i], i, initial)
    IN  scan[Len(f)]

(* h after a scan with result st. *)
Indexed(h, f, st) == [h EXCEPT !.ind = st.ind, !.cmds = st.cmds, !.mark = st.mark, !.cnt = Len(f)]

(* The marker from which hist_nearend starts when it seeks to offset p: it
   finds the end of a command first. *)
NearEnd(f, p) ==
    LET ends == {i \in p + 1..Len(f) : EndsText(f[i])}
        marks == {i \in DOMAIN f : f[i].t = "mark" /\ ends # {} /\ i > MinOf(ends)}
    IN  IF p <= 0 \/ marks = {} THEN [ind |-> 1, cnt |-> 0]
        ELSE LET i == MinOf(marks) IN [ind |-> f[i].v, cnt |-> i]

(* hist_nearend positions h. *)
From(h, near) == [h EXCEPT !.ind = near.ind, !.cnt = near.cnt, !.mark = near.cnt]

(* hist_eof up to the test for an incomplete command.  The shell goes on
   at `ret`, with the index that h has then. *)
HistEof(s, h, f, ret, initial) ==
    LET st == Scan(h, f, h.cnt, FALSE, initial)
    IN  sh' = [sh EXCEPT ![s] = [Indexed(h, f, st) EXCEPT
                   !.pc = IF st.in THEN "repair" ELSE ret, !.ret = IF st.in THEN ret ELSE "open"]]

--------------------------------------------------------------------------------
(* Writing: every write(2) appends to the open file. *)

Written(s, cells) ==
    /\ data' = [data EXCEPT ![sh[s].ino] = @ \o cells]
    /\ recent' = (recent \/ sh[s].ino = path)

(* A mutant of Cancelled: it counts another byte. *)
CancelledLong(h) == [h EXCEPT !.cnt = h.cnt + 2, !.ind = h.ind - 1, !.cmds[h.ind - 1] = h.cnt + 2]

(* A mutant of Cancelled: the number keeps the offset of the command that it had. *)
CancelledStale(h) == [h EXCEPT !.cnt = h.cnt + 1, !.ind = h.ind - 1]

(* hist_cancel, in core. *)
Cancelled(h) == [h EXCEPT !.cnt = h.cnt + 1, !.ind = h.ind - 1, !.cmds[h.ind - 1] = h.cnt + 1]

(* A mutant of Flushed: the marker has the number before it is incremented. *)
FlushedEarly(h, f, cells) ==
    LET cnt == Len(f) + Len(cells)
        marked == cnt > h.mark + MarkEvery
        end == IF marked THEN cnt + 1 ELSE cnt
    IN  [cells |-> IF marked THEN Append(cells, Mark(h.ind)) ELSE cells,
         hist |-> [h EXCEPT !.ind = h.ind + 1, !.cnt = end, !.cmds[h.ind + 1] = end,
                            !.mark = IF marked THEN end ELSE h.mark]]

(* hist_write when called from hist_flush, with the text in `cells`: what it
   appends and the index it leaves. *)
Flushed(h, f, cells) ==
    LET cnt == Len(f) + Len(cells)
        marked == cnt > h.mark + MarkEvery
        end == IF marked THEN cnt + 1 ELSE cnt
    IN  [cells |-> IF marked THEN Append(cells, Mark(h.ind + 1)) ELSE cells,
         hist |-> [h EXCEPT !.ind = h.ind + 1, !.cnt = end, !.cmds[h.ind + 1] = end,
                            !.mark = IF marked THEN end ELSE h.mark]]

Live(s) == sh[s].pc # "off"
File(s) == data[sh[s].ino]

(* What s appends now comes directly behind what it has read and written. *)
UpToDate(s) == Len(File(s)) = sh[s].cnt + sh[s].own

(* The file of s ends in the middle of a command of another shell. *)
TornByOther(s) == File(s) # <<>> /\ ~ EndsText(Last(File(s))) /\ sh[s].own = 0

--------------------------------------------------------------------------------
(* sh_histinit. *)

(* It opens the file, or creates it, seeks back to a marker and reads from there. *)
Open(s) ==
    /\ sh[s].pc = "off"
    /\ IF path = 0
       THEN /\ path' = 1 /\ data[1] = <<>>
            /\ recent' = TRUE
            /\ sh' = [sh EXCEPT ![s] = [Closed EXCEPT !.pc = "exec", !.ino = 1]]
       ELSE /\ LET f == data[path]
                   h == [Closed EXCEPT !.ino = path, !.hsize = Len(f)]
               IN  HistEof(s, From(h, NearEnd(f, Len(f) - ScanSize)), f, "open", TRUE)
            /\ UNCHANGED <<path, recent>>
    /\ UNCHANGED <<data, next, log, raced, broken>>

(* It looks farther back until the index covers Size commands. *)
OpenEnd(s) ==
    LET h == sh[s]
        f == File(s)
        start == IF h.ind - Size <= 0 THEN 1 ELSE h.ind - Size
        near(j) == NearEnd(f, h.hsize - ScanSize * 2^j)
        far == CHOOSE j \in 0..Len(f) : near(j).ind <= start /\ \A i \in 0..j - 1 : near(i).ind > start
        first == NearEnd(f, h.hsize - ScanSize)
        h2 == IF first.ind <= start THEN h ELSE From(h, near(far))
    IN  /\ h.pc = "open"
        /\ HistEof(s, h2, f, "clean", TRUE)
        /\ UNCHANGED <<data, path, recent, next, log, raced, broken>>

(* A long file that nobody used for a while is trimmed.  While a shell runs, its
   timer keeps the file recent. *)
Trims(s) == ~ recent /\ sh[s].ind - Size > 1 /\ sh[s].hsize > TrimSize

Opened(s) ==
    /\ sh[s].pc = "clean" /\ ~ Trims(s)
    /\ sh' = [sh EXCEPT ![s].pc = "exec", ![s].hsize = 0]
    /\ UNCHANGED <<data, path, recent, next, log, raced, broken>>

Age ==
    /\ "trim" \in Ops /\ recent /\ path + Cardinality(Shell) <= MaxInode
    /\ \A s \in Shell : ~ Live(s)
    /\ recent' = FALSE
    /\ UNCHANGED <<data, path, sh, next, log, raced, broken>>

(* hist_trim removes the name, and sh_histinit creates a file under it. *)
TrimUnlink(s) ==
    /\ sh[s].pc = "clean" /\ Trims(s)
    /\ path' = path + 1
    /\ recent' = TRUE
    /\ sh' = [sh EXCEPT ![s].pc = "copy", ![s].old = sh[s].ino, ![s].ino = path + 1]
    /\ broken' = (broken \/ \E t \in Shell \ {s} : Live(t))
    /\ UNCHANGED <<data, next, log, raced>>

(* The command at offset p, with its terminating zero byte if it has one. *)
Text(f, p) ==
    LET ends == {i \in p + 1..Len(f) : EndsText(f[i])}
    IN  SubSeq(f, p + 1, IF ends = {} THEN Len(f) ELSE MinOf(ends))

(* hist_trim copies the commands from number n on, and cancels the last. *)
Copied(h, f, from) ==
    LET copy[n \in from..h.ind] ==
            IF n = from THEN [cells |-> <<>>, hist |-> [Closed EXCEPT !.ino = h.ino]]
            ELSE LET before == copy[n - 1]
                     new == Flushed(before.hist, before.cells, Text(f, h.cmds[n - 1]))
                 IN  [cells |-> before.cells \o new.cells, hist |-> new.hist]
    IN  [cells |-> Append(copy[h.ind].cells, Undo), hist |-> Cancelled(copy[h.ind].hist)]

TrimCopy(s) ==
    LET h == sh[s]
        new == Copied(h, data[h.old], h.ind - Size)
    IN  /\ h.pc = "copy"
        /\ Written(s, new.cells)
        /\ sh' = [sh EXCEPT ![s] = [new.hist EXCEPT !.pc = "exec"]]
        /\ log' = SubSeq(log, IF Len(log) > Size THEN Len(log) - Size + 1 ELSE 1, Len(log) - 1)
        /\ broken' = (broken \/ File(s) # <<>> \/ path # h.ino)
        /\ UNCHANGED <<path, next, raced>>

--------------------------------------------------------------------------------
(* The command loop. *)

(* exfile reads the file before the prompt. *)
Prompt(s) ==
    /\ sh[s].pc = "exec"
    /\ HistEof(s, sh[s], File(s), "prompt", FALSE)
    /\ UNCHANGED <<data, path, recent, next, log, raced, broken>>

(* A line was typed: exfile reads the file again, then parses the line, which
   sends it to histfp. *)
ReadLine(s) ==
    /\ sh[s].pc = "prompt" /\ next <= MaxCmd
    /\ LET h == [sh[s] EXCEPT !.cmd = next, !.own = 0]
       IN  HistEof(s, h, File(s), "parse", FALSE)
    /\ next' = next + 1
    /\ UNCHANGED <<data, path, recent, log, raced, broken>>

(* A mutant of Restart: the number may be negative. *)
RestartUnclamped == 2 - Size

(* The number from which hist_eof counts again after it repaired the file:
   with the count of one cancelled command, oldind and histind cancel out. *)
Restart == IF 2 - Size < 0 THEN 1 ELSE 2 - Size

(* A mutant of Repair: it does not end the command that it cancels. *)
RepairOpen(s) ==
    LET h == sh[s]
        f == Append(File(s), Undo)
        st == Scan([h EXCEPT !.ind = Restart], f, 0, TRUE, h.ret \in {"open", "clean"})
    IN  /\ h.pc = "repair"
        /\ Written(s, <<Undo>>)
        /\ sh' = [sh EXCEPT ![s] = [Indexed(h, f, st) EXCEPT !.pc = h.ret, !.ret = "open"]]
        /\ UNCHANGED <<path, next, log, raced, broken>>

(* hist_eof found that the last command has no end: it ends and cancels it,
   and reads everything again. *)
Repair(s) ==
    LET h == sh[s]
        f == File(s) \o <<Zero, Undo>>
        st == Scan([h EXCEPT !.ind = Restart], f, 0, TRUE, h.ret \in {"open", "clean"})
    IN  /\ h.pc = "repair"
        /\ Written(s, <<Zero, Undo>>)
        /\ sh' = [sh EXCEPT ![s] = [Indexed(h, f, st) EXCEPT !.pc = h.ret, !.ret = "open"]]
        /\ broken' = (broken \/ Len(File(s)) # h.cnt
                             \/ \E t \in Shell : Live(t) /\ sh[t].ino = h.ino /\ sh[t].own > 0)
        /\ UNCHANGED <<path, next, log, raced>>

(* The line is so long that the buffer of histfp overflows: hist_write passes
   on what there is. *)
Overflow(s) ==
    /\ "overflow" \in Ops /\ sh[s].pc = "parse" /\ sh[s].own = 0
    /\ Written(s, <<Head1(sh[s].cmd)>>)
    /\ sh' = [sh EXCEPT ![s].own = 1]
    /\ raced' = (raced \/ ~ UpToDate(s))
    /\ broken' = (broken \/ TornByOther(s))
    /\ UNCHANGED <<path, next, log>>

(* hist_flush.  The line may be the hist built-in, which then reads the file and
   starts an editor. *)
Flush(s) ==
    LET h == sh[s]
        text == IF h.own > 0 THEN <<Tail1(h.cmd)>> ELSE <<Head1(h.cmd), Tail1(h.cmd)>>
        new == Flushed(h, File(s), text)
    IN  /\ h.pc = "parse"
        /\ Written(s, new.cells)
        /\ sh' = [sh EXCEPT ![s] = [new.hist EXCEPT !.pc = "exec", !.own = 0]]
        /\ log' = Append(log, h.cmd)
        /\ raced' = (raced \/ ~ UpToDate(s))
        /\ broken' = (broken \/ TornByOther(s) \/ (h.own > 0 /\ ~ UpToDate(s)))
        /\ UNCHANGED <<path, next>>

(* An empty line is not written, but hist_write has moved histcnt by then. *)
FlushEmpty(s) ==
    /\ "empty" \in Ops /\ sh[s].pc = "parse" /\ sh[s].own = 0
    /\ sh' = [sh EXCEPT ![s].pc = "exec", ![s].cmd = 0, ![s].cnt = Len(File(s))]
    /\ raced' = (raced \/ ~ UpToDate(s))
    /\ UNCHANGED <<data, path, recent, next, log, broken>>

(* b_hist reads the file, then runs the editor. *)
Edit(s) ==
    /\ "edit" \in Ops /\ sh[s].pc = "exec" /\ sh[s].cmd # 0
    /\ HistEof(s, sh[s], File(s), "edit", FALSE)
    /\ UNCHANGED <<data, path, recent, next, log, raced, broken>>

(* b_hist cancels its own line, and unless the editor failed sh_eval parses the
   edited one. *)
EditEnd(s) ==
    LET h == sh[s]
    IN  /\ h.pc = "edit"
        /\ Written(s, <<Undo>>)
        /\ \/ /\ next <= MaxCmd
              /\ sh' = [sh EXCEPT ![s] = [Cancelled(h) EXCEPT !.pc = "parse", !.cmd = next]]
              /\ next' = next + 1
           \/ /\ sh' = [sh EXCEPT ![s] = [Cancelled(h) EXCEPT !.pc = "exec", !.cmd = 0]]
              /\ UNCHANGED next
        /\ log' = IF log = <<>> THEN log ELSE Front(log)
        /\ raced' = (raced \/ ~ UpToDate(s))
        /\ broken' = (broken \/ TornByOther(s) \/ log = <<>> \/ Last(log) # h.cmd)
        /\ UNCHANGED path

(* A shell ends at its prompt, or is killed, also while it copies a line. *)
Exit(s) ==
    /\ sh[s].pc = "prompt"
    /\ sh' = [sh EXCEPT ![s] = Closed]
    /\ UNCHANGED <<data, path, recent, next, log, raced, broken>>

Crash(s) ==
    /\ "crash" \in Ops /\ Live(s)
    /\ sh' = [sh EXCEPT ![s] = Closed]
    /\ broken' = (broken \/ sh[s].pc = "copy")
    /\ UNCHANGED <<data, path, recent, next, log, raced>>

Next ==
    \/ Age
    \/ \E s \in Shell :
          \/ Open(s) \/ OpenEnd(s) \/ Opened(s) \/ TrimUnlink(s) \/ TrimCopy(s)
          \/ Prompt(s) \/ ReadLine(s) \/ Repair(s) \/ Overflow(s) \/ Flush(s) \/ FlushEmpty(s)
          \/ Edit(s) \/ EditEnd(s) \/ Exit(s) \/ Crash(s)

Spec == Init /\ [][Next]_vars

--------------------------------------------------------------------------------
(* Properties. *)

(* The file as it should be understood: the offsets of the commands that are
   complete and not cancelled. *)
Begin == [in |-> FALSE, start |-> 0, list |-> <<>>]

(* What was read before the cell that ends at offset pos, with that cell. *)
ReadCell(b, cell, pos) ==
    IF ~ EndsText(cell)
    THEN [b EXCEPT !.in = TRUE, !.start = IF b.in THEN b.start ELSE pos - 1]
    ELSE [Begin EXCEPT !.list =
             IF b.in \/ cell.t = "tail" THEN Append(b.list, IF b.in THEN b.start ELSE pos - 1)
             ELSE IF cell.t = "undo" /\ b.list # <<>> THEN Front(b.list)
             ELSE b.list]

Read(f) ==
    LET read[i \in 0..Len(f)] == IF i = 0 THEN Begin ELSE ReadCell(read[i - 1], f[i], i)
    IN  read[Len(f)]

Commands(f) == Read(f).list

Indexing(s) == sh[s].pc \in {"exec", "prompt", "parse", "edit"}

(* As long as no shell wrote behind something that it had not read, and none
   appended a record where it means something else, the next number of every
   shell is one more than the commands in the part of the file it has read;
   where the shell began to read, which markers it passed, and whether
   incomplete commands were cancelled makes no difference. *)
NumbersAreRanks ==
    ~ raced /\ ~ broken =>
        \A s \in Shell : Indexing(s) =>
            sh[s].ind = Len(Commands(SubSeq(File(s), 1, sh[s].cnt))) + 1

(* Then, too, whatever the index of a shell has for a number that is offered is the
   command of that number, also after commands were cancelled and their numbers given
   to others.  It has nothing (the 0 of memset) for the number from which it began to
   read. *)
OffsetsFit ==
    ~ raced /\ ~ broken =>
        \A s \in Shell : Indexing(s) =>
            LET h == sh[s]
                list == Commands(SubSeq(File(s), 1, h.cnt))
            IN  \A n \in DOMAIN list :
                    n > h.ind - Size /\ h.cmds[n] # 0 => Text(File(s), h.cmds[n]) = Text(File(s), list[n])

(* A shell that starts finds the lines that were flushed and not taken back, whole
   and in their order, whatever shells were killed in between. *)
LinesKept ==
    path # 0 /\ ~ broken /\ (\A s \in Shell : sh[s].pc # "copy") =>
        LET f == data[path]
            list == Commands(f)
        IN  [i \in DOMAIN list |-> Text(f, list[i])]
                = [i \in DOMAIN log |-> <<Head1(log[i]), Tail1(log[i])>>]

(* No shell believes to have read more of its file than there is: hist_eof would
   take the file for a new one and hist_eof's repair would overwrite its start. *)
ReadInsideFile ==
    \A s \in Shell : Indexing(s) => sh[s].cnt <= Len(File(s))
================================================================================
