-------------------------------- MODULE Smp --------------------------------
(***************************************************************************)
(* The job engine of src/src/smp.c: the boot CPU publishes data-parallel   *)
(* loops (smp_parallel_for) through a ring of NSLOT broadcast slots, and   *)
(* any CPU posts single jobs (smp_async_start) through a mailbox of NASYNC *)
(* entries.  Every application processor (AP) runs ap_worker, asleep in    *)
(* HLT until a wake-up interrupt arrives.                                  *)
(*                                                                         *)
(* A step is one access to memory another CPU may touch at that moment;    *)
(* purely local work is folded into the access before it, and a local that *)
(* is dead goes back to its first value.  The accesses                     *)
(* are taken in program order: the code puts a locked instruction or mb()  *)
(* between all of those whose order matters.                               *)
(***************************************************************************)
EXTENDS Naturals, FiniteSets

CONSTANTS
    Boot,         \* the boot CPU
    AP,           \* the application processors that came online
    NoCpu,        \* pub_lock is free
    NoHandle,     \* smp_async_start has not returned a handle
    NSLOT,        \* broadcast slots (16 in the code)
    NASYNC,       \* mailbox entries (8 in the code)
    GenMod,       \* gen_counter is a 32-bit word: generations wrap here
    SeqMod,       \* sequence numbers are masked to 29 bits: they wrap here
    W,            \* the words next and done are 32 bits wide: they wrap here
    NMax,         \* longer loops are cut to this length (0x10000000)
    Loops,        \* the [n, grain] arguments the boot CPU passes
    Faulty,       \* the APs that may take a CPU exception inside a job
    ApItemsPost,  \* TRUE: items of a loop may post async jobs on an AP
    MaxCalls,     \* bound: calls of smp_parallel_for
    MaxPosts      \* bound: calls of smp_async_start

CPU == {Boot} \cup AP
Slots == 0 .. NSLOT - 1
Entries == 0 .. NASYNC - 1
Posts == 1 .. MaxPosts
LoopType == [id : Nat, n : Nat, grain : Nat]   \* id stands for fn and ctx
Handle == [seq : 0 .. SeqMod - 1, idx : Entries]

ASSUME SmpAssumption ==
    /\ Boot \notin AP /\ NoCpu \notin CPU /\ AP # {} /\ IsFiniteSet(AP)
    /\ NSLOT \in Nat \ {0} /\ NASYNC \in Nat \ {0}
    /\ GenMod \in Nat /\ GenMod > 1 /\ SeqMod \in Nat /\ SeqMod > 1
    /\ W \in Nat \ {0} /\ NMax \in 2 .. W - 1
    /\ Loops \subseteq [n : Nat \ {0}, grain : Nat]
    /\ \A l \in Loops : l.n < W /\ l.grain < W
    /\ Faulty \subseteq AP /\ ApItemsPost \in BOOLEAN
    /\ MaxCalls \in Nat /\ MaxPosts \in Nat
    /\ NoHandle \notin Handle

VARIABLES
    gen, active, next, done, job,        \* struct job slots[NSLOT]
    genCounter, smpGen, bspInJob, pubLock,
    astate, aseq, ajob, asyncSeq,        \* struct aent aents[NASYNC]
    ipi,       \* the wake-up interrupt is pending on that CPU
    pc,        \* where each CPU is
    g,         \* the generation it is publishing or joining
    seen,      \* ap_worker: the last generation it joined
    mine,      \* job_join: its copy of fn, ctx, n and grain
    lo, hi,    \* job_join: the chunk [lo, hi) it claimed
    scan,      \* async_ready, async_run: the mailbox entry it looks at
    running,   \* async_run: the job it took from the mailbox
    pick, post, \* smp_async_start: its entry and its job
    ret,       \* where smp_async_start was called, or the exception was taken
    calls,     \* history: loops started; also names the current one
    ran,       \* history: how often each item of the current loop ran
    posts,     \* history: jobs handed to smp_async_start
    starts,    \* history: how often each posted job was entered
    finished,  \* history: the posted jobs that ran to their end
    handle,    \* the handle smp_async_start returned for each job
    told,      \* the jobs smp_async_done has answered 1 for
    polling    \* the job smp_async_done is being asked about

slotVars == <<gen, active, next, done, job>>
pubVars == <<genCounter, smpGen, bspInJob, pubLock>>
mailVars == <<astate, aseq, ajob, asyncSeq>>
joinVars == <<g, seen, mine, lo, hi>>
startVars == <<pick, post, ret>>
loopHist == <<calls, ran>>
postHist == <<posts, starts, finished, handle>>
pollVars == <<told, polling>>
loopVars == <<slotVars, pubVars, joinVars, loopHist>>
asyncVars == <<mailVars, scan, running, startVars, postHist, pollVars>>
vars == <<loopVars, asyncVars, ipi, pc>>

Loop(id, n, grain) == [id |-> id, n |-> n, grain |-> grain]
NoLoop == Loop(0, 0, 0)
MaxN == CHOOSE m \in {l.n : l \in Loops} : \A l \in Loops : l.n <= m
Items == 0 .. MaxN - 1

\* ++counter, skipping the 0 that means "recycling" (or "never used")
Bump(counter, mod) ==
    LET x == (counter + 1) % mod IN IF x = 0 THEN 1 % mod ELSE x

\* smp_parallel_for: the length is cut to NMax; the grain is the caller's,
\* or an eighth of a CPU's share
LengthOf(l) == IF l.n > NMax THEN NMax ELSE l.n
GrainOf(l) ==
    LET share == LengthOf(l) \div (Cardinality(CPU) * 8)
    IN  IF l.grain # 0 THEN l.grain ELSE IF share = 0 THEN 1 ELSE share

SlotOf(c) == g[c] % NSLOT

Init ==
    /\ gen = [s \in Slots |-> 0] /\ active = [s \in Slots |-> 0]
    /\ next = [s \in Slots |-> 0] /\ done = [s \in Slots |-> 0]
    /\ job = [s \in Slots |-> NoLoop]
    /\ genCounter = 0 /\ smpGen = 0 /\ bspInJob = FALSE /\ pubLock = NoCpu
    /\ astate = [i \in Entries |-> 0] /\ aseq = [i \in Entries |-> 0]
    /\ ajob = [i \in Entries |-> 0] /\ asyncSeq = 0
    /\ ipi = [c \in CPU |-> FALSE]
    /\ pc = [c \in CPU |-> IF c = Boot THEN "idle" ELSE "load"]
    /\ g = [c \in CPU |-> 0] /\ seen = [c \in AP |-> 0]
    /\ mine = [c \in CPU |-> NoLoop]
    /\ lo = [c \in CPU |-> 0] /\ hi = [c \in CPU |-> 0]
    /\ scan = [c \in AP |-> 0] /\ running = [c \in AP |-> 0]
    /\ pick = [c \in CPU |-> 0] /\ post = [c \in CPU |-> 0]
    /\ ret = [c \in CPU |-> "idle"]
    /\ calls = 0 /\ ran = [k \in Items |-> 0]
    /\ posts = 0 /\ starts = [j \in Posts |-> 0] /\ finished = {}
    /\ handle = [j \in Posts |-> NoHandle]
    /\ told = {} /\ polling = 0

Goto(c, where) == pc' = [pc EXCEPT ![c] = where]
At(c, where) == pc[c] = where

WakeSelf(c) == ipi' = [d \in CPU |-> ipi[d] \/ (d \in AP /\ d = c)]

\* lapic_ipi_others: every CPU but the sender gets the wake-up vector.  The
\* boot CPU only acknowledges it, so its pending bit is not kept.
WakeOthers(c) == ipi' = [d \in CPU |-> ipi[d] \/ (d \in AP /\ d # c)]

-----------------------------------------------------------------------------
(* smp_parallel_for, on the boot CPU                                       *)

\* A loop of one item runs inline.
CallInline(l) ==
    /\ At(Boot, "idle") /\ calls < MaxCalls /\ l.n < 2
    /\ calls' = calls + 1
    /\ ran' = [k \in Items |-> IF k < l.n THEN 1 ELSE 0]
    /\ UNCHANGED <<slotVars, pubVars, joinVars, asyncVars, ipi, pc>>

\* The call: its arguments become the boot CPU's copy of the job.
Call(l) ==
    /\ At(Boot, "idle") /\ calls < MaxCalls /\ l.n >= 2 /\ ~bspInJob
    /\ calls' = calls + 1
    /\ ran' = [k \in Items |-> 0]
    /\ mine' = [mine EXCEPT ![Boot] = Loop(calls + 1, LengthOf(l), GrainOf(l))]
    /\ Goto(Boot, "lock")
    /\ UNCHANGED <<slotVars, pubVars, g, seen, lo, hi, asyncVars, ipi>>

\* spin_lock(&pub_lock); g = ++gen_counter
CallLock ==
    /\ At(Boot, "lock") /\ pubLock = NoCpu
    /\ pubLock' = Boot
    /\ genCounter' = Bump(genCounter, GenMod)
    /\ g' = [g EXCEPT ![Boot] = genCounter']
    /\ Goto(Boot, "zero")
    /\ UNCHANGED <<slotVars, smpGen, bspInJob, seen, mine, lo, hi, loopHist,
                   asyncVars, ipi>>

\* J->gen = 0: new joiners back off...
CallZero ==
    /\ At(Boot, "zero")
    /\ gen' = [gen EXCEPT ![SlotOf(Boot)] = 0]
    /\ Goto(Boot, "drain")
    /\ UNCHANGED <<active, next, done, job, pubVars, joinVars, loopHist,
                   asyncVars, ipi>>

DrainedUnchecked(s) == TRUE
Drained(s) == active[s] = 0

\* ...and the ones inside finish: while (J->active) relax()
CallDrain ==
    /\ At(Boot, "drain") /\ Drained(SlotOf(Boot))
    /\ Goto(Boot, "fill")
    /\ UNCHANGED <<loopVars, asyncVars, ipi>>

CallFill ==
    /\ At(Boot, "fill")
    /\ job' = [job EXCEPT ![SlotOf(Boot)] = mine[Boot]]
    /\ next' = [next EXCEPT ![SlotOf(Boot)] = 0]
    /\ done' = [done EXCEPT ![SlotOf(Boot)] = 0]
    /\ Goto(Boot, "open")
    /\ UNCHANGED <<gen, active, pubVars, joinVars, loopHist, asyncVars, ipi>>

\* J->gen = g
CallOpen ==
    /\ At(Boot, "open")
    /\ gen' = [gen EXCEPT ![SlotOf(Boot)] = g[Boot]]
    /\ Goto(Boot, "announce")
    /\ UNCHANGED <<active, next, done, job, pubVars, joinVars, loopHist,
                   asyncVars, ipi>>

\* smp_gen = g; bsp_in_job = 1
CallAnnounce ==
    /\ At(Boot, "announce")
    /\ smpGen' = g[Boot] /\ bspInJob' = TRUE
    /\ Goto(Boot, "ipi")
    /\ UNCHANGED <<slotVars, genCounter, pubLock, joinVars, loopHist,
                   asyncVars, ipi>>

CallIpi ==
    /\ At(Boot, "ipi")
    /\ WakeOthers(Boot)
    /\ Goto(Boot, "join")
    /\ UNCHANGED <<loopVars, asyncVars>>

AllDone(s, n) == done[s] = n

\* while (J->done != n) relax(); then bsp_in_job = 0
CallWait ==
    /\ At(Boot, "wait") /\ AllDone(SlotOf(Boot), mine[Boot].n)
    /\ bspInJob' = FALSE
    /\ Goto(Boot, "unlock")
    /\ UNCHANGED <<slotVars, genCounter, smpGen, pubLock, joinVars, loopHist,
                   asyncVars, ipi>>

CallReturn ==
    /\ At(Boot, "unlock")
    /\ pubLock' = NoCpu
    /\ Goto(Boot, "idle")
    /\ UNCHANGED <<slotVars, genCounter, smpGen, bspInJob, joinVars, loopHist,
                   asyncVars, ipi>>

-----------------------------------------------------------------------------
(* job_join, on any CPU                                                    *)

JoinEnter(c) ==
    /\ At(c, "join")
    /\ active' = [active EXCEPT ![SlotOf(c)] = @ + 1]
    /\ Goto(c, "check")
    /\ UNCHANGED <<gen, next, done, job, pubVars, joinVars, loopHist,
                   asyncVars, ipi>>

NotRecycledUnchecked(c) == TRUE
NotRecycled(c) == gen[SlotOf(c)] = g[c]

\* if (J->gen != g) the slot was recycled for a newer job
JoinCheck(c) ==
    /\ At(c, "check")
    /\ Goto(c, IF NotRecycled(c) THEN "read" ELSE "leave")
    /\ UNCHANGED <<loopVars, asyncVars, ipi>>

JoinRead(c) ==
    /\ At(c, "read")
    /\ mine' = [mine EXCEPT ![c] = job[SlotOf(c)]]
    /\ Goto(c, "claim")
    /\ UNCHANGED <<slotVars, pubVars, g, seen, lo, hi, loopHist, asyncVars,
                   ipi>>

CursorByOne(i, grain) == (i + 1) % W
CursorBy(i, grain) == (i + grain) % W

\* i = fetch_and_add(&J->next, grain); e = i + grain, clamped to n, in 32 bits
Claim(c) ==
    LET i == next[SlotOf(c)]
        e == (i + mine[c].grain) % W
    IN  /\ At(c, "claim")
        /\ next' = [next EXCEPT ![SlotOf(c)] = CursorBy(i, mine[c].grain)]
        /\ IF i >= mine[c].n
             THEN Goto(c, "leave") /\ UNCHANGED <<lo, hi>>
             ELSE /\ lo' = [lo EXCEPT ![c] = i]
                  /\ hi' = [hi EXCEPT ![c] =
                              IF e > mine[c].n \/ e < i THEN mine[c].n ELSE e]
                  /\ Goto(c, "run")
        /\ UNCHANGED <<gen, active, done, job, pubVars, g, seen, mine,
                       loopHist, asyncVars, ipi>>

\* fn(ctx, k, cpu) for every k of the chunk.  ran records the items of the
\* current loop only; LoopIsLive says there are no others.
RunItems(c) ==
    /\ At(c, "run")
    /\ ran' = [k \in Items |->
                 IF lo[c] <= k /\ k < hi[c] THEN ran[k] + 1 ELSE ran[k]]
    /\ Goto(c, "add")
    /\ UNCHANGED <<slotVars, pubVars, joinVars, calls, asyncVars, ipi>>

AddDone(c) ==
    /\ At(c, "add")
    /\ done' = [done EXCEPT ![SlotOf(c)] = (@ + (hi[c] - lo[c])) % W]
    /\ lo' = [lo EXCEPT ![c] = 0] /\ hi' = [hi EXCEPT ![c] = 0]
    /\ Goto(c, "claim")
    /\ UNCHANGED <<gen, active, next, job, pubVars, g, seen, mine, loopHist,
                   asyncVars, ipi>>

\* The boot CPU goes on to wait for the others, an AP to its mailbox.
JoinLeave(c) ==
    /\ At(c, "leave")
    /\ active' = [active EXCEPT ![SlotOf(c)] = @ - 1]
    /\ mine' = IF c = Boot THEN mine ELSE [mine EXCEPT ![c] = NoLoop]
    /\ Goto(c, IF c = Boot THEN "wait" ELSE "scan")
    /\ UNCHANGED <<gen, next, done, job, pubVars, g, seen, lo, hi, loopHist,
                   asyncVars, ipi>>

-----------------------------------------------------------------------------
(* smp_async_start, on any CPU                                             *)

\* Code that may post: the boot CPU outside and inside a loop, an AP inside
\* an async job (a decode job asks for help with its tiles).
MayPost(c) ==
    \/ c = Boot /\ pc[c] \in {"idle", "run"}
    \/ c \in AP /\ At(c, "arun")
    \/ c \in AP /\ At(c, "run") /\ ApItemsPost

NeverRefused(c) == FALSE
Refused(c) == bspInJob /\ c = Boot

\* Inside its own loop the boot CPU is refused at once: it holds pub_lock.
StartCall(c) ==
    /\ MayPost(c) /\ posts < MaxPosts
    /\ ~Refused(c)
    /\ posts' = posts + 1
    /\ post' = [post EXCEPT ![c] = posts + 1]
    /\ ret' = [ret EXCEPT ![c] = pc[c]]
    /\ Goto(c, "plock")
    /\ UNCHANGED <<loopVars, mailVars, scan, running, pick, starts, finished,
                   handle, pollVars, ipi>>

StartLock(c) ==
    /\ At(c, "plock") /\ pubLock = NoCpu
    /\ pubLock' = c
    /\ pick' = [pick EXCEPT ![c] = 0]
    /\ Goto(c, "pick")
    /\ UNCHANGED <<slotVars, genCounter, smpGen, bspInJob, joinVars, loopHist,
                   mailVars, scan, running, post, ret, postHist, pollVars,
                   ipi>>

ReusableUnlessPending(i) == astate[i] # 1
Reusable(i) == astate[i] \in {0, 3}

\* The scan for an entry that is free or done; none means return -1.
StartPick(c) ==
    /\ At(c, "pick")
    /\ \/ /\ Reusable(pick[c])
          /\ Goto(c, "pfill") /\ UNCHANGED <<pick, post>>
       \/ /\ ~Reusable(pick[c]) /\ pick[c] + 1 < NASYNC
          /\ pick' = [pick EXCEPT ![c] = @ + 1] /\ UNCHANGED <<pc, post>>
       \/ /\ ~Reusable(pick[c]) /\ pick[c] + 1 = NASYNC
          /\ post' = [post EXCEPT ![c] = 0]
          /\ Goto(c, "punlock") /\ UNCHANGED pick
    /\ UNCHANGED <<loopVars, mailVars, scan, running, ret, postHist, pollVars,
                   ipi>>

\* e->seq, e->fn, e->ctx
StartFill(c) ==
    /\ At(c, "pfill")
    /\ asyncSeq' = Bump(asyncSeq, SeqMod)
    /\ aseq' = [aseq EXCEPT ![pick[c]] = asyncSeq']
    /\ ajob' = [ajob EXCEPT ![pick[c]] = post[c]]
    /\ Goto(c, "ppost")
    /\ UNCHANGED <<loopVars, astate, scan, running, startVars, postHist,
                   pollVars, ipi>>

\* e->state = 1
StartPost(c) ==
    /\ At(c, "ppost")
    /\ astate' = [astate EXCEPT ![pick[c]] = 1]
    /\ Goto(c, "pipi")
    /\ UNCHANGED <<loopVars, aseq, ajob, asyncSeq, scan, running, startVars,
                   postHist, pollVars, ipi>>

StartIpi(c) ==
    /\ At(c, "pipi")
    /\ WakeOthers(c)
    /\ Goto(c, "punlock")
    /\ UNCHANGED <<loopVars, asyncVars>>

\* spin_unlock; h->g = (seq << 3) | idx, from the caller's own seq and idx.
\* The sequence number is still asyncSeq: pub_lock guards both.
StartReturn(c) ==
    /\ At(c, "punlock")
    /\ pubLock' = NoCpu
    /\ handle' = IF post[c] = 0 THEN handle
                 ELSE [handle EXCEPT ![post[c]] =
                         [seq |-> asyncSeq, idx |-> pick[c]]]
    /\ Goto(c, ret[c])
    /\ pick' = [pick EXCEPT ![c] = 0] /\ post' = [post EXCEPT ![c] = 0]
    /\ ret' = [ret EXCEPT ![c] = "idle"]
    /\ UNCHANGED <<slotVars, genCounter, smpGen, bspInJob, joinVars, loopHist,
                   mailVars, scan, running, posts, starts, finished, pollVars,
                   ipi>>

-----------------------------------------------------------------------------
(* smp_async_done, polled by the boot CPU                                  *)

\* e->seq != h->g >> 3: the entry was recycled, the job finished long ago
PollSeq(j) ==
    /\ At(Boot, "idle") /\ handle[j] # NoHandle /\ j \notin told
    /\ IF aseq[handle[j].idx] # handle[j].seq
         THEN told' = told \cup {j} /\ UNCHANGED <<pc, polling>>
         ELSE polling' = j /\ Goto(Boot, "poll") /\ UNCHANGED told
    /\ UNCHANGED <<loopVars, mailVars, scan, running, startVars, postHist,
                   ipi>>

\* return e->state == 3
PollState ==
    /\ At(Boot, "poll")
    /\ told' = IF astate[handle[polling].idx] = 3
                 THEN told \cup {polling} ELSE told
    /\ polling' = 0
    /\ Goto(Boot, "idle")
    /\ UNCHANGED <<loopVars, mailVars, scan, running, startVars, postHist,
                   ipi>>

-----------------------------------------------------------------------------
(* ap_worker                                                               *)

\* cli; g = smp_gen; if (g != seen) join it
ApLoad(c) ==
    /\ At(c, "load")
    /\ scan' = [scan EXCEPT ![c] = 0]
    /\ IF smpGen # seen[c]
         THEN /\ g' = [g EXCEPT ![c] = smpGen]
              /\ seen' = [seen EXCEPT ![c] = smpGen]
              /\ Goto(c, "join")
         ELSE Goto(c, "ready") /\ UNCHANGED <<g, seen>>
    /\ UNCHANGED <<slotVars, pubVars, mine, lo, hi, loopHist, mailVars,
                   running, startVars, postHist, pollVars, ipi>>

HaltUnmasked(c) ==
    /\ Goto(c, "hlt") /\ scan' = [scan EXCEPT ![c] = 0]
    /\ ipi' = [ipi EXCEPT ![c] = FALSE]

\* sti; hlt: an interrupt held back since cli is taken by the HLT, not before
Halt(c) ==
    /\ Goto(c, "hlt") /\ scan' = [scan EXCEPT ![c] = 0]
    /\ UNCHANGED ipi

\* async_ready, one entry at a time; nothing pending means sti; hlt
ApReady(c) ==
    /\ At(c, "ready")
    /\ IF astate[scan[c]] = 1
         THEN scan' = [scan EXCEPT ![c] = 0] /\ Goto(c, "scan")
                /\ UNCHANGED ipi
         ELSE IF scan[c] + 1 < NASYNC
           THEN scan' = [scan EXCEPT ![c] = @ + 1] /\ UNCHANGED <<pc, ipi>>
           ELSE Halt(c)
    /\ UNCHANGED <<loopVars, mailVars, running, startVars, postHist,
                   pollVars>>

\* The interrupt, pending since cli or arriving now, ends the HLT.
ApWake(c) ==
    /\ At(c, "hlt") /\ ipi[c]
    /\ ipi' = [ipi EXCEPT ![c] = FALSE]
    /\ Goto(c, "load")
    /\ UNCHANGED <<loopVars, asyncVars>>

\* async_run: on to the next entry, or back to the top of ap_worker
NextEntry(c) ==
    IF scan[c] + 1 < NASYNC
      THEN scan' = [scan EXCEPT ![c] = @ + 1] /\ Goto(c, "scan")
      ELSE scan' = [scan EXCEPT ![c] = 0] /\ Goto(c, "load")

\* e->state == 1 && ...
RunScan(c) ==
    /\ At(c, "scan")
    /\ IF astate[scan[c]] = 1 THEN Goto(c, "cas") /\ UNCHANGED scan
                              ELSE NextEntry(c)
    /\ UNCHANGED <<loopVars, mailVars, running, startVars, postHist, pollVars,
                   ipi>>

CasBlind(i) == TRUE
CasWins(i) == astate[i] = 1

\* ... compare_and_swap(&e->state, 1, 2)
RunCas(c) ==
    /\ At(c, "cas")
    /\ IF CasWins(scan[c])
         THEN /\ astate' = [astate EXCEPT ![scan[c]] = 2]
              /\ Goto(c, "fetch") /\ UNCHANGED scan
         ELSE NextEntry(c) /\ UNCHANGED astate
    /\ UNCHANGED <<loopVars, aseq, ajob, asyncSeq, running, startVars,
                   postHist, pollVars, ipi>>

\* fn = e->fn; ctx = e->ctx; the job is entered
RunFetch(c) ==
    /\ At(c, "fetch")
    /\ running' = [running EXCEPT ![c] = ajob[scan[c]]]
    /\ starts' = [starts EXCEPT ![ajob[scan[c]]] = @ + 1]
    /\ Goto(c, "arun")
    /\ UNCHANGED <<loopVars, mailVars, scan, startVars, posts, finished,
                   handle, pollVars, ipi>>

\* fn returned: e->state = 3
RunFinish(c) ==
    /\ At(c, "arun")
    /\ finished' = finished \cup {running[c]}
    /\ astate' = [astate EXCEPT ![scan[c]] = 3]
    /\ running' = [running EXCEPT ![c] = 0]
    /\ NextEntry(c)
    /\ UNCHANGED <<loopVars, aseq, ajob, asyncSeq, startVars, posts, starts,
                   handle, pollVars, ipi>>

\* smp_fault_hook: an exception inside a job parks the AP for good
ApFault(c) ==
    /\ c \in Faulty /\ pc[c] \in {"run", "arun"}
    /\ Goto(c, "dead")
    /\ ret' = [ret EXCEPT ![c] = pc[c]]
    /\ UNCHANGED <<loopVars, mailVars, scan, running, pick, post, postHist,
                   pollVars, ipi>>

-----------------------------------------------------------------------------
CallStep ==
    \/ CallLock \/ CallZero \/ CallDrain \/ CallFill \/ CallOpen
    \/ CallAnnounce \/ CallIpi \/ CallWait \/ CallReturn

JoinStep(c) ==
    \/ JoinEnter(c) \/ JoinCheck(c) \/ JoinRead(c) \/ Claim(c)
    \/ RunItems(c) \/ AddDone(c) \/ JoinLeave(c)

StartStep(c) ==
    \/ StartLock(c) \/ StartPick(c) \/ StartFill(c) \/ StartPost(c)
    \/ StartIpi(c) \/ StartReturn(c)

WorkerStep(c) ==
    \/ ApLoad(c) \/ ApReady(c) \/ ApWake(c) \/ RunScan(c) \/ RunCas(c)
    \/ RunFetch(c) \/ RunFinish(c)

\* What a CPU does by itself, as opposed to what its caller decides to do
Step(c) ==
    \/ JoinStep(c)
    \/ StartStep(c)
    \/ c = Boot /\ (CallStep \/ PollState)
    \/ c \in AP /\ WorkerStep(c)

Next ==
    \/ \E l \in Loops : CallInline(l) \/ Call(l)
    \/ \E j \in Posts : PollSeq(j)
    \/ \E c \in CPU : Step(c) \/ StartCall(c)
    \/ \E c \in AP : ApFault(c)

Spec == Init /\ [][Next]_vars

\* Every CPU that is not halted keeps executing its own instructions.
Fairness == \A c \in CPU : WF_vars(Step(c))
FairSpec == Spec /\ Fairness

-----------------------------------------------------------------------------
Inside == {"check", "read", "claim", "run", "add", "leave"}
Checked == {"read", "claim", "run", "add"}
Starting == {"plock", "pick", "pfill", "ppost", "pipi", "punlock"}
InCall == {"lock", "zero", "drain", "fill", "open", "announce", "ipi",
           "join", "wait", "unlock"} \cup Inside
Pcs == {"idle", "poll", "load", "ready", "hlt", "scan", "cas", "fetch",
        "arun", "dead"} \cup InCall \cup Starting

SlotType ==
    /\ gen \in [Slots -> 0 .. GenMod - 1] /\ active \in [Slots -> Nat]
    /\ next \in [Slots -> 0 .. W - 1] /\ done \in [Slots -> 0 .. W - 1]
    /\ job \in [Slots -> LoopType]

PubType ==
    /\ genCounter \in 0 .. GenMod - 1 /\ smpGen \in 0 .. GenMod - 1
    /\ bspInJob \in BOOLEAN /\ pubLock \in CPU \cup {NoCpu}

MailType ==
    /\ astate \in [Entries -> 0 .. 3] /\ aseq \in [Entries -> 0 .. SeqMod - 1]
    /\ ajob \in [Entries -> 0 .. MaxPosts] /\ asyncSeq \in 0 .. SeqMod - 1

JoinType ==
    /\ g \in [CPU -> 0 .. GenMod - 1] /\ seen \in [AP -> 0 .. GenMod - 1]
    /\ mine \in [CPU -> LoopType]
    /\ lo \in [CPU -> Nat] /\ hi \in [CPU -> Nat]

RunType == scan \in [AP -> Entries] /\ running \in [AP -> 0 .. MaxPosts]

StartType ==
    /\ pick \in [CPU -> Entries] /\ post \in [CPU -> 0 .. MaxPosts]
    /\ ret \in [CPU -> {"idle", "run", "arun"}]

HistType ==
    /\ calls \in 0 .. MaxCalls /\ ran \in [Items -> Nat]
    /\ posts \in 0 .. MaxPosts /\ starts \in [Posts -> Nat]
    /\ finished \subseteq 0 .. MaxPosts
    /\ handle \in [Posts -> Handle \cup {NoHandle}]
    /\ told \subseteq Posts /\ polling \in 0 .. MaxPosts

\* Every variable has its type; the words stay inside their width.
TypeOK ==
    /\ SlotType /\ PubType /\ MailType /\ JoinType /\ RunType /\ StartType
    /\ HistType /\ ipi \in [CPU -> BOOLEAN] /\ pc \in [CPU -> Pcs]

\* smp_parallel_for "returns when every item is done": each item of [0, n)
\* has run exactly once when the boot CPU stops waiting, and no item ever
\* runs twice, however the CPUs race for chunks (smp.c:108-149).
ItemsRunOnce ==
    /\ \A k \in Items : ran[k] <= 1
    /\ At(Boot, "unlock") => \A k \in Items : k < mine[Boot].n => ran[k] = 1

\* fn and ctx belong to the caller's frame: a CPU about to run items runs
\* those of the loop the boot CPU is still inside, never of an earlier one
\* whose slot was recycled (smp.c:98-107).
LoopIsLive ==
    \A c \in CPU : At(c, "run") =>
        /\ mine[c].id = calls
        /\ pc[Boot] \in {"announce", "ipi", "join", "wait"} \cup Inside

\* While a slot is refilled no CPU is between its generation check and its
\* exit, so no CPU sees half of an old and half of a new job (smp.c:137-144).
NoTornJob ==
    pc[Boot] \in {"fill", "open"} =>
        \A c \in AP : pc[c] \in Checked => SlotOf(c) # SlotOf(Boot)

\* "each runs exactly once" (smp.h): no posted job is entered twice, and a
\* job two CPUs saw pending goes to one of them (smp.c:205-213).
PostRunsOnce == \A j \in Posts : starts[j] <= 1

\* smp_async_done answers 1 only for a job that has run to its end, also when
\* its entry was recycled between the two reads of the poll (smp.c:190-195).
DoneIsSound == told \subseteq finished

\* An AP that sleeps without a pending interrupt has missed nothing: the CPU
\* that published newer work is still about to send the IPI (smp.c:223-228).
NoLostWakeup ==
    \A c \in AP : At(c, "hlt") /\ ~ipi[c] =>
        /\ smpGen # seen[c] => At(Boot, "ipi")
        /\ \A i \in Entries : astate[i] = 1 =>
             \E d \in CPU : At(d, "pipi") /\ pick[d] = i

\* The boot CPU gets out of every loop it starts.
CallReturns == At(Boot, "lock") ~> At(Boot, "idle")

\* Every job that got a handle is run by some AP, and the poll can tell.
PostsFinish == \A j \in Posts : handle[j] # NoHandle ~> j \in finished
=============================================================================
