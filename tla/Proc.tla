-------------------------------- MODULE Proc --------------------------------
(***************************************************************************)
(* The native processes of the desktop kernel: the process table           *)
(* (process.c), the tick (sched.c), fork/wait/exit (sys_proc.c), the trap  *)
(* (syscall.c, idt.c) and the part of the main loop that enters ring 3     *)
(* (desktop.c).  Everything here runs on the boot CPU.  The main loop      *)
(* reads the keyboard, drains the queue of ring-3 entries, wakes one       *)
(* reader of a typed line, and starts over; a program runs inside the      *)
(* drain until it exits or parks.  Traps run with interrupts off, so a     *)
(* system call, with the part of the drain that follows it up to the sti,  *)
(* is one step; the timer interrupts the main loop and ring 3.             *)
(***************************************************************************)
EXTENDS Naturals, Sequences, FiniteSets, FiniteSetsExt

CONSTANTS
    NPROC,     \* MAX_PROCESSES (16), slot 0 is the kernel's own
    QLEN,      \* ENTRY_QUEUE_LEN (4)
    SLICE,     \* SCHED_SLICE_TICKS (10)
    KBDLEN,    \* KBD_QUEUE_LEN (8)
    Windows,   \* the terminal windows
    HasInit,   \* whether /sbin/init is in the file system
    Calls,     \* the system calls the programs make
    MaxPid,    \* bound: processes ever created
    MaxLines   \* bound: lines ever typed

Slots == 0 .. NPROC - 1
Pids == 1 .. MaxPid
Syscalls == {"exit", "fork", "wait", "yield", "read", "kill"}

ASSUME ProcAssumption ==
    /\ NPROC \in Nat \ {0, 1} /\ QLEN \in Nat \ {0, 1} /\ SLICE \in Nat \ {0, 1}
    /\ KBDLEN \in Nat \ {0} /\ HasInit \in BOOLEAN /\ Calls \subseteq Syscalls
    /\ MaxPid \in Nat /\ MaxLines \in Nat

VARIABLES
    proc,       \* processes[]
    cur,        \* current_slot
    nextPid,
    queue,      \* entry_queue[]: the pid of a used entry, else 0
    arrived,    \* the same pids, oldest first (not in the code)
    stage,      \* the staged resume of each slot, by its EAX: wait (-2), retry (0)
    armed,      \* park_armed[]/park_ret[]
    canExit,    \* syscall_can_exit
    busy,       \* switch_busy
    runWait,    \* run_wait_pid, 0 for -1
    initArmed,
    kbd,        \* kbd_count
    wakeArmed,  \* kbd_wake_armed
    lines,      \* lines typed so far
    pc,         \* the main loop: keys, drain, wake; ring3; crashed
    via,        \* who entered ring 3: drain or wake
    spin        \* the program sits in the loop after an exit that returned

mainVars == <<queue, arrived, runWait, initArmed, kbd, wakeArmed, lines>>
vars == <<proc, cur, nextPid, stage, armed, canExit, busy, pc, via, spin, mainVars>>

-----------------------------------------------------------------------------
(* The process table                                                       *)

Free == [pid |-> 0, st |-> "unused", parent |-> 0, entered |-> FALSE,
         ticks |-> 0, win |-> "none", term |-> FALSE]

FreshEntered(p, par, w) ==
    [pid |-> p, st |-> "ready", parent |-> par, entered |-> TRUE,
     ticks |-> SLICE, win |-> w, term |-> FALSE]

\* process_create and what spawn and fork fill in
Fresh(p, par, w) ==
    [pid |-> p, st |-> "ready", parent |-> par, entered |-> FALSE,
     ticks |-> SLICE, win |-> w, term |-> FALSE]

Users(ps) == {s \in Slots \ {0} : ps[s].st # "unused"}
Unused(ps) == {s \in Slots \ {0} : ps[s].st = "unused"}
Add(ps, new) == [ps EXCEPT ![Min(Unused(ps))] = new]

\* process_get: a live slot by pid
Live(ps, p) == \E s \in Users(ps) : ps[s].pid = p
SlotOf(ps, p) == CHOOSE s \in Users(ps) : ps[s].pid = p
Me == proc[cur].pid

\* Only a RUNNING thread is demoted: the dead and the parked keep their state.
DemotedNever(st) == st
Demoted(st) == IF st = "running" THEN "ready" ELSE st

\* process_switch
Switched(ps, from, to) ==
    [ps EXCEPT ![from].st = Demoted(@), ![to].st = "running"]

\* sys_proc_reparent_to_init, then process_destroy
Reparented(ps, p) ==
    [s \in Slots |-> IF ps[s].st # "unused" /\ s # 0 /\ ps[s].parent = p
                       THEN [ps[s] EXCEPT !.parent = 1] ELSE ps[s]]
Reaped(ps, s) == [Reparented(ps, ps[s].pid) EXCEPT ![s] = Free]

\* process_next: the next entered READY process after the current one, or pid 0
NextSlot(ps) ==
    LET ready == {d \in 1 .. NPROC :
                    LET c == ps[(cur + d) % NPROC]
                    IN  c.st = "ready" /\ c.pid # 0 /\ c.entered}
    IN  IF ready = {} THEN 0 ELSE (cur + Min(ready)) % NPROC

-----------------------------------------------------------------------------
(* The queue of ring-3 entries                                             *)

FreeEntries == {e \in 1 .. QLEN : queue[e] = 0}
UsedEntries == 1 .. QLEN \ FreeEntries
Pending == UsedEntries # {}

NextEntry == Min(UsedEntries)

Enqueued(q, p) == [q EXCEPT ![Min({e \in 1 .. QLEN : q[e] = 0})] = p]

Without(seq, p) ==
    LET i == CHOOSE i \in 1 .. Len(seq) : seq[i] = p
    IN  SubSeq(seq, 1, i - 1) \o SubSeq(seq, i + 1, Len(seq))

-----------------------------------------------------------------------------
Init ==
    /\ proc = [s \in Slots |-> IF s = 0
                 THEN [Free EXCEPT !.st = "running", !.ticks = SLICE] ELSE Free]
    /\ cur = 0 /\ nextPid = 1
    /\ queue = [e \in 1 .. QLEN |-> 0] /\ arrived = <<>>
    /\ stage = [s \in Slots |-> "none"] /\ armed = [s \in Slots |-> "none"]
    /\ canExit = FALSE /\ busy = FALSE /\ runWait = 0 /\ initArmed = FALSE
    /\ kbd = 0 /\ wakeArmed = FALSE /\ lines = 0
    /\ pc = "keys" /\ via = "drain" /\ spin = FALSE

(* A line typed in terminal w is offered to the programs and, unless one   *)
(* of them owns the terminal, run by the kernel's shell.                   *)

Owned(w) == \E s \in Users(proc) : proc[s].win = w
Queueable == Users(proc) # {} /\ kbd < KBDLEN

Offer ==
    /\ pc = "keys" /\ lines < MaxLines
    /\ lines' = lines + 1
    /\ kbd' = IF Queueable THEN kbd + 1 ELSE kbd
    /\ wakeArmed' = (wakeArmed \/ Queueable)

TypeToProgram(w) ==
    /\ Offer /\ Owned(w)
    /\ UNCHANGED <<proc, cur, nextPid, stage, armed, canExit, busy, pc, via, spin,
                   queue, arrived, runWait, initArmed>>

\* The first run also spawns init, which gets pid 1; its entry follows the
\* program's.  The queue was empty, so neither entry is refused.
WithInit(w) ==
    IF HasInit /\ ~initArmed /\ Unused(proc) # {}
      THEN Add(proc, Fresh(nextPid, 0, w)) ELSE proc
InitPid == IF WithInit("none") = proc THEN {} ELSE {nextPid}

\* run: refused while an entry is pending, when the file is no ELF program or
\* no slot is left
TypeRun(w, elf, background) ==
    LET ps == WithInit(w)
        p == nextPid + Cardinality(InitPid)
        q == Enqueued(queue, p)
    IN  /\ Offer /\ ~Owned(w) /\ nextPid < MaxPid
        /\ initArmed' = TRUE
        /\ \/ /\ Pending \/ ~elf \/ Unused(ps) = {}
              /\ proc' = ps /\ nextPid' = p
              /\ UNCHANGED <<queue, arrived, canExit, runWait>>
           \/ /\ ~Pending /\ elf /\ Unused(ps) # {}
              /\ proc' = Add(ps, Fresh(p, 0, w)) /\ nextPid' = p + 1
              /\ queue' = IF InitPid = {} THEN q ELSE Enqueued(q, nextPid)
              /\ arrived' = IF InitPid = {} THEN Append(arrived, p)
                                           ELSE Append(Append(arrived, p), nextPid)
              /\ canExit' = TRUE
              /\ runWait' = IF background THEN runWait ELSE p
        /\ UNCHANGED <<cur, stage, armed, busy, pc, via, spin>>

KeysDone ==
    /\ pc = "keys" /\ pc' = "drain"
    /\ UNCHANGED <<proc, cur, nextPid, stage, armed, canExit, busy, via, spin, mainVars>>

-----------------------------------------------------------------------------
(* Entering ring 3                                                         *)

\* sched_prepare and the IRET, with the tick held off by switch_busy
Enter(s, resumed, by) ==
    /\ proc' = [Switched(proc, cur, s) EXCEPT ![s].entered = TRUE,
                  ![s].ticks = IF resumed THEN SLICE ELSE @]
    /\ cur' = s /\ busy' = TRUE /\ pc' = "ring3" /\ via' = by

\* A parked process whose wake condition holds is resumed, the dead and the
\* others that are parked are dropped from the queue.
Work == \/ Pending \/ kbd > 0
        \/ \E s \in Users(proc) : proc[s].st = "ready" /\ proc[s].entered
WakeDue(s) ==
    \/ stage[s] = "wait" /\ \E c \in Users(proc) :
                               proc[c].parent = proc[s].pid /\ proc[c].st = "zombie"
    \/ stage[s] = "retry" /\ Work
Resumes(p) ==
    Live(proc, p) /\ LET s == SlotOf(proc, p)
                     IN  proc[s].st = "blocked" /\ proc[s].entered /\ WakeDue(s)
Enterable(p) ==
    Live(proc, p) /\ (proc[SlotOf(proc, p)].st = "ready" \/ Resumes(p))

DrainNext ==
    LET p == queue[NextEntry]
    IN  /\ pc = "drain" /\ Pending
        /\ queue' = [queue EXCEPT ![NextEntry] = 0]
        /\ arrived' = Without(arrived, p)
        /\ stage' = IF Resumes(p) THEN [stage EXCEPT ![SlotOf(proc, p)] = "none"]
                                  ELSE stage
        /\ IF Enterable(p) THEN Enter(SlotOf(proc, p), Resumes(p), "drain")
             ELSE UNCHANGED <<proc, cur, busy, pc, via>>
        /\ UNCHANGED <<nextPid, armed, canExit, spin, runWait, initArmed, kbd,
                       wakeArmed, lines>>

DrainDone ==
    /\ pc = "drain" /\ ~Pending /\ pc' = "wake"
    /\ UNCHANGED <<proc, cur, nextPid, stage, armed, canExit, busy, via, spin, mainVars>>

\* The first parked process that is not waiting for a child takes the line.
Readers == {s \in Users(proc) :
              proc[s].st = "blocked" /\ proc[s].entered /\ stage[s] = "retry"}

WakeReader ==
    /\ pc = "wake" /\ wakeArmed /\ Readers # {}
    /\ wakeArmed' = FALSE
    /\ stage' = [stage EXCEPT ![Min(Readers)] = "none"]
    /\ Enter(Min(Readers), TRUE, "wake")
    /\ UNCHANGED <<nextPid, armed, canExit, spin, queue, arrived, runWait, initArmed,
                   kbd, lines>>

WakeNobody ==
    /\ pc = "wake" /\ ~(wakeArmed /\ Readers # {})
    /\ wakeArmed' = FALSE /\ pc' = "keys"
    /\ UNCHANGED <<proc, cur, nextPid, stage, armed, canExit, busy, via, spin, queue,
                   arrived, runWait, initArmed, kbd, lines>>

-----------------------------------------------------------------------------
(* System calls                                                            *)

\* A trap with no park to consume
Trap(call) == pc = "ring3" /\ ~spin /\ call \in Calls /\ armed[cur] = "none"
Returns == UNCHANGED <<cur, stage, canExit, busy, pc, via, spin, runWait, initArmed,
                       wakeArmed, lines>>

\* Back in the main loop: sched_unprepare, the end of the drain's round
Home(ps) ==
    /\ proc' = Switched(ps, cur, 0) /\ cur' = 0
    /\ pc' = IF via = "drain" THEN "drain" ELSE "keys"

\* isr_handler consumes an armed park when the program traps the next time,
\* before it looks at the call.
StagedByDrainOnly == [stage EXCEPT ![cur] = IF via = "drain" THEN armed[cur] ELSE @]
Staged == [stage EXCEPT ![cur] = armed[cur]]

ParkedState == "blocked"

Park ==
    /\ pc = "ring3" /\ ~spin /\ armed[cur] # "none"
    /\ armed' = [armed EXCEPT ![cur] = "none"]
    /\ stage' = Staged
    /\ Home([proc EXCEPT ![cur].st = ParkedState, ![cur].ticks = SLICE])
    /\ canExit' = (canExit \/ via = "drain")
    /\ busy' = (busy /\ via = "wake" /\ Pending)
    /\ UNCHANGED <<nextPid, via, spin, mainVars>>

\* sys_proc_exit_current; a parked parent is made READY
WaitsUnlessGone(st) == st # "unused"
Waits(st) == st = "blocked"

Zombied ==
    LET par == proc[cur].parent
        ps == [proc EXCEPT ![cur].st = "zombie"]
    IN  IF Live(ps, par) /\ Waits(ps[SlotOf(ps, par)].st)
          THEN [ps EXCEPT ![SlotOf(ps, par)].st = "ready"] ELSE ps

MayExit == Trap("exit") /\ canExit

\* Only the drain reaps: the program of the foreground run and those started
\* by the shell.
Exit ==
    LET reap == via = "drain" /\ (Me = runWait \/ proc[cur].parent = 0)
        ps == [Zombied EXCEPT ![cur].term = @ /\ via = "wake"]
    IN  /\ MayExit
        /\ canExit' = FALSE
        /\ Home(IF reap THEN Reaped(ps, cur) ELSE ps)
        /\ stage' = IF reap THEN [stage EXCEPT ![cur] = "none"] ELSE stage
        /\ runWait' = IF reap /\ Me = runWait THEN 0 ELSE runWait
        /\ busy' = (busy /\ Pending)
        /\ UNCHANGED <<nextPid, armed, via, spin, queue, arrived, initArmed, kbd,
                       wakeArmed, lines>>

\* With syscall_can_exit clear the call returns, and usys_exit loops.
ExitReturns ==
    /\ Trap("exit") /\ ~canExit /\ spin' = TRUE
    /\ UNCHANGED <<proc, cur, nextPid, stage, armed, canExit, busy, pc, via, mainVars>>

\* sys_proc_fork; an entry that does not fit the queue is dropped
Fork ==
    /\ Trap("fork") /\ Unused(proc) # {} /\ nextPid <= MaxPid
    /\ proc' = Add(proc, Fresh(nextPid, Me, proc[cur].win))
    /\ nextPid' = nextPid + 1
    /\ IF FreeEntries = {} THEN UNCHANGED <<queue, arrived>>
         ELSE /\ queue' = Enqueued(queue, nextPid)
              /\ arrived' = Append(arrived, nextPid)
    /\ Returns /\ UNCHANGED <<armed, kbd>>

\* A page cannot be copied, or the trapped frame leaves no room for the stub:
\* the child is destroyed again, and its pid is used up.
ForkFails ==
    /\ Trap("fork") /\ Unused(proc) # {} /\ nextPid <= MaxPid
    /\ nextPid' = nextPid + 1
    /\ Returns /\ UNCHANGED <<proc, armed, queue, arrived, kbd>>

\* sys_proc_wait_park: the first dead child is destroyed; with living children
\* only, the park is armed.  A caller without children is told so.
Wait(want) ==
    LET kids == {s \in Users(proc) :
                   proc[s].parent = Me /\ want \in {0, proc[s].pid}}
        dead == {s \in kids : proc[s].st = "zombie"}
    IN  /\ Trap("wait") /\ kids # {}
        /\ \/ /\ dead # {}
              /\ proc' = [proc EXCEPT ![Min(dead)] = Free]
              /\ stage' = [stage EXCEPT ![Min(dead)] = "none"]
              /\ UNCHANGED armed
           \/ /\ dead = {}
              /\ armed' = [armed EXCEPT ![cur] = "wait"]
              /\ UNCHANGED <<proc, stage>>
        /\ UNCHANGED <<cur, nextPid, canExit, busy, pc, via, spin, mainVars>>

\* sys_yield arms a park unless a line is queued
Yield ==
    /\ Trap("yield")
    /\ proc' = [proc EXCEPT ![cur].ticks = SLICE]
    /\ armed' = IF kbd > 0 THEN armed ELSE [armed EXCEPT ![cur] = "retry"]
    /\ Returns /\ UNCHANGED <<nextPid, queue, arrived, kbd>>

\* sys_read(0) takes a queued line or arms a park
Read ==
    /\ Trap("read")
    /\ \/ kbd > 0 /\ kbd' = kbd - 1 /\ UNCHANGED armed
       \/ kbd = 0 /\ armed' = [armed EXCEPT ![cur] = "retry"] /\ UNCHANGED kbd
    /\ Returns /\ UNCHANGED <<proc, nextPid, queue, arrived>>

\* sys_proc_kill with SIG_TERM: a pending bit that only the exit path looks at
Kill(p) ==
    /\ Trap("kill") /\ Live(proc, p)
    /\ proc' = [proc EXCEPT ![SlotOf(proc, p)].term = TRUE]
    /\ Returns /\ UNCHANGED <<nextPid, armed, queue, arrived, kbd>>

-----------------------------------------------------------------------------
(* The timer interrupt                                                     *)

\* The wake pass: one parker tagged with a single tick is made READY.
Woken ==
    LET tagged == {s \in Users(proc) : proc[s].st = "blocked" /\ proc[s].ticks = 1}
    IN  IF Work /\ tagged # {}
          THEN [proc EXCEPT ![Min(tagged)].st = "ready", ![Min(tagged)].ticks = SLICE]
          ELSE proc

Counts ==
    /\ pc # "crashed" /\ Woken[cur].ticks > 1
    /\ proc' = [Woken EXCEPT ![cur].ticks = @ - 1]
    /\ UNCHANGED <<cur, nextPid, stage, armed, canExit, busy, pc, via, spin, mainVars>>

\* The slice is over.  process_switch_to gives up on the trap stack of a user
\* process and while switch_busy is set.  Otherwise the target is a process that
\* only ever ran from an IRET: its kernel stack holds the seed, no frame to
\* return through.
Preempts == cur = 0 /\ NextSlot(Woken) # 0 /\ ~busy

Expires ==
    /\ pc # "crashed" /\ Woken[cur].ticks <= 1
    /\ proc' = [Woken EXCEPT ![cur].ticks = SLICE, ![NextSlot(Woken)].ticks = SLICE]
    /\ pc' = IF Preempts THEN "crashed" ELSE pc
    /\ UNCHANGED <<cur, nextPid, stage, armed, canExit, busy, via, spin, mainVars>>

MainLoop == KeysDone \/ DrainNext \/ DrainDone \/ WakeReader \/ WakeNobody
Program ==
    \/ Park \/ Exit \/ ExitReturns \/ Fork \/ ForkFails \/ Yield \/ Read
    \/ \E want \in 0 .. MaxPid : Wait(want)
    \/ \E p \in Pids : Kill(p)
Keyboard ==
    \E w \in Windows :
        \/ TypeToProgram(w)
        \/ \E elf, background \in BOOLEAN : TypeRun(w, elf, background)
Timer == Counts \/ Expires

Next == MainLoop \/ Program \/ Keyboard \/ Timer

Spec == Init /\ [][Next]_vars
FairSpec == Spec /\ WF_vars(MainLoop) /\ WF_vars(Program) /\ WF_vars(Timer)

-----------------------------------------------------------------------------
Process ==
    [pid : 0 .. MaxPid, st : {"unused", "ready", "running", "blocked", "zombie"},
     parent : 0 .. MaxPid, entered : BOOLEAN, ticks : 0 .. SLICE,
     win : Windows \cup {"none"}, term : BOOLEAN]

\* Every variable has its type, and the tables are indexed inside their bounds.
TypeOK ==
    /\ proc \in [Slots -> Process]
    /\ cur \in Slots /\ nextPid \in 1 .. MaxPid + 1
    /\ queue \in [1 .. QLEN -> 0 .. MaxPid]
    /\ arrived \in Seq(Pids) /\ Len(arrived) = Cardinality(UsedEntries)
    /\ stage \in [Slots -> {"none", "wait", "retry"}]
    /\ armed \in [Slots -> {"none", "wait", "retry"}]
    /\ canExit \in BOOLEAN /\ busy \in BOOLEAN /\ initArmed \in BOOLEAN
    /\ wakeArmed \in BOOLEAN /\ spin \in BOOLEAN
    /\ runWait \in 0 .. MaxPid /\ kbd \in 0 .. KBDLEN /\ lines \in 0 .. MaxLines
    /\ pc \in {"keys", "drain", "wake", "ring3", "crashed"}
    /\ via \in {"drain", "wake"}

\* Across entries, parks and exits exactly one thread is RUNNING and it is the
\* current one: the kernel's in the main loop, a program's in ring 3 (the trap
\* handler, the fd table and wait all act on process_current).
OneRunner ==
    /\ TypeOK
    /\ \A s \in Slots : proc[s].st = "running" <=> s = cur
    /\ pc # "crashed" => (pc = "ring3" <=> cur # 0)

\* A process that died stays dead until its slot is freed, also when its own
\* children die after it and wake their parent (the [reapchk] bug recorded in
\* process_switch left such a process READY).
NoResurrection ==
    [][\A s \in Slots : proc[s].st = "zombie" =>
          \/ proc'[s].st = "unused"
          \/ proc'[s].st = "zombie" /\ proc'[s].pid = proc[s].pid]_vars

\* The entry queue names each process at most once, and only processes that
\* live and never were in ring 3: the drain's arms for dead and for parked
\* pids are never needed, and no pid is entered twice.
QueueIsFresh ==
    /\ \A e, f \in UsedEntries : queue[e] = queue[f] => e = f
    /\ \A e \in UsedEntries :
          /\ Live(proc, queue[e])
          /\ LET c == proc[SlotOf(proc, queue[e])] IN c.st = "ready" /\ ~c.entered

\* park_armed[] is kept by slot and never cleared on create or destroy: only
\* the running program has a park armed, so no later owner of the slot
\* inherits one.
ArmedIsMine == \A s \in Slots : armed[s] # "none" => s = cur /\ pc = "ring3"

\* A parked process has a resume staged, and a resume belongs to a process
\* that lives and waits: none is left to hijack the next owner of the slot.
ParksMatch ==
    /\ ArmedIsMine
    /\ \A s \in Slots :
          /\ proc[s].st = "blocked" => stage[s] # "none"
          /\ stage[s] # "none" =>
                proc[s].st \in {"blocked", "ready"} /\ proc[s].entered

\* "parked waiters resume via their own trap iret on wakeup, not via a fresh
\* switch frame" (sched_tick): the timer never switches into a process that
\* has no kernel frame to return through.
NoFramelessSwitch == pc # "crashed"

\* "terminates the calling user program" (SYS_EXIT): exit does not return.
ExitTerminates == ~spin

\* "consumed by the main-loop drain after the matching pid exits" (run_wait_pid):
\* back at the keyboard, no foreground program is dead and still waited for.
ForegroundReaped ==
    pc = "keys" => \A s \in Users(proc) :
        proc[s].pid = runWait => proc[s].st # "zombie"

\* "children of the dead process are adopted by init (pid 1) when it exists,
\* else by pid 0" (sched_reap): the parent of every process exists.
OrphansAdopted ==
    \A s \in Users(proc) : proc[s].parent = 0 \/ Live(proc, proc[s].parent)

\* "Dequeue the oldest pending request" (entry_dequeue)
OldestFirst ==
    [][pc = "drain" /\ queue' # queue => arrived' = Tail(arrived)]_vars

\* "Yield PARKS (no iret back to ring 3)" (SYS_YIELD): a program that armed a
\* park does not run on.
ParkIsImmediate == pc = "ring3" => armed[cur] = "none"

\* "entry goes through the main-loop drain like any spawn" (sched_spawn_elf):
\* a process that was never entered is queued.
SpawnsAreQueued ==
    \A s \in Users(proc) : proc[s].st = "ready" /\ ~proc[s].entered =>
        \E e \in UsedEntries : queue[e] = proc[s].pid

\* "the tick WAKE pass flips the parker READY and the drain re-enters it"
\* (isr_handler): a program parked in yield or read runs again.
ParkedResume ==
    \A s \in Slots \ {0} : (proc[s].st = "blocked" /\ stage[s] = "retry") ~>
        (proc[s].st = "running")

\* "A parked READER with a non-empty kbd queue is ALWAYS woken" (the drain): back
\* at the keyboard nobody sleeps on a queued line, unless the wake is armed.
NoSleepingReader == pc = "keys" /\ kbd > 0 /\ Readers # {} => wakeArmed

\* "TERM kills (+reap)" (sys_proc_drain_signals)
TermKills ==
    \A s \in Slots \ {0} : (proc[s].term ~> ~proc[s].term)

-----------------------------------------------------------------------------
(* The inductive invariant behind the safety properties                     *)

\* A live process has a pid of its own among those handed out.
PidInv ==
    \A s \in Users(proc) :
        /\ proc[s].pid \in 1 .. nextPid - 1
        /\ \A t \in Users(proc) : proc[s].pid = proc[t].pid => s = t

\* Exactly the current thread is RUNNING.  A program that runs was entered, the
\* kernel's own thread never is, and the main loop goes on only on that one.
RunInv ==
    /\ \A s \in Slots : proc[s].st = "running" <=> s = cur
    /\ pc = "ring3" <=> cur # 0
    /\ proc[0].st \in {"ready", "running"} /\ ~proc[0].entered
    /\ cur # 0 => proc[cur].entered

\* A used entry is the pid of one slot, which is READY and was never entered.
QueueInv ==
    /\ \A e, f \in UsedEntries : queue[e] = queue[f] => e = f
    /\ \A e \in UsedEntries : \E s \in Users(proc) :
          /\ proc[s].pid = queue[e] /\ proc[s].st = "ready" /\ ~proc[s].entered

\* The order of arrival names every used entry.
ArrivedInv ==
    \A e \in UsedEntries : \E i \in 1 .. Len(arrived) : arrived[i] = queue[e]

ProcInv == TypeOK /\ PidInv /\ RunInv /\ ParksMatch /\ QueueInv /\ ArrivedInv

=============================================================================
