------------------------------- MODULE GcMark -------------------------------
(***************************************************************************)
(* A collection of the ojs JavaScript heap (src/src/ojs/gc.c), with the    *)
(* marking done in parallel on the CPUs that the embedder offers           *)
(* (par_worker, par_drain), the serial drain with its rescan after a mark  *)
(* stack could not grow, and the weak structures (src/src/ojs/b_map.c).    *)
(*                                                                         *)
(* A mark stack is the set of the objects on it: which entry is popped or  *)
(* given away first is left open.  What runs under P->lock is one step;    *)
(* the reads of mark bits, of P->np and of P->done outside it are steps of *)
(* their own.  Types, sizes, pages and statistics are left out: an object  *)
(* is a model value and the heap is the graph of what trace() follows.     *)
(***************************************************************************)
EXTENDS Naturals, Sequences, FiniteSets

CONSTANTS
    Obj,        \* the objects
    Worker,     \* the items of ojs_par_run, one marker each (at most PAR_MAXW)
    Graphs,     \* heaps: what trace() marks for each object
    InitRoots,  \* what mark_roots finds
    InitEph,    \* entries of WeakMaps: [table, key, value]
    InitCells,  \* cells of FinalizationRegistries: [reg, target, held]
    CHUNK,      \* PAR_CHUNK
    SPARE,      \* chunks of the pool beyond those that hold the roots (64)
    MaxFail     \* how many allocations fail

ASSUME ConstantsAssumption ==
    /\ IsFiniteSet(Obj) /\ IsFiniteSet(Worker) /\ Worker # {}
    /\ Graphs \subseteq [Obj -> SUBSET Obj]
    /\ InitRoots \subseteq Obj
    /\ InitEph \subseteq [table : Obj, key : Obj, value : Obj]
    /\ InitCells \subseteq [reg : Obj, target : Obj, held : Obj]
    /\ CHUNK \in Nat \ {0} /\ SPARE \in Nat /\ MaxFail \in Nat

VARIABLES
    edge,       \* the graph (strong pointers other than held values)
    roots,      \* what mark_roots finds
    heap,       \* objects that are not GT_FREE
    eph,        \* entries of weak tables
    cells,      \* cells of registries
    holed,      \* cells whose target was replaced by JV_HOLE: cleanup pending
    jobs,       \* how many cleanup jobs of each registry are queued or running
    stage,      \* where gc_collect stands
    marked,     \* objects with GCF_MARK
    stk0,       \* the main marker's stack (H->m0)
    over0,      \* m0.overflow
    moverflow,  \* H->mark_overflow
    rest,       \* objects that the rescan of drain has not visited
    visit,      \* entries that weak_process_ephemerons has not visited
    more,       \* its result so far
    pool, cap,  \* the chunks of struct gc_par and their limit
    nstarted, nidle, done, poverflow,
    pc,         \* where each worker stands
    stk, over,  \* each worker's marker
    todo,       \* the pointers of the object it traces, still to be looked at,
    saw,        \* and the one that it just saw unmarked
    fails       \* failed allocations (bound)

mutVars == <<edge, roots, heap, eph, cells, holed, jobs>>
serVars == <<stage, stk0, over0, moverflow, rest, visit, more>>
parVars == <<pool, cap, nstarted, nidle, done, poverflow>>
wrkVars == <<pc, stk, over, todo, saw>>
vars == <<mutVars, serVars, parVars, wrkVars, marked, fails>>

Stages == {"idle", "roots", "par", "strong", "eph", "last"}
PCs == {"off", "scan", "trace", "mark", "offer", "idle", "grab", "left"}

(***************************************************************************)
(* What trace() passes to gc_mark_ptr for an object.  A registry also      *)
(* holds its held values strongly (finreg_trace).                          *)
(***************************************************************************)
Children(x) == edge[x] \cup {c.held : c \in {d \in cells : d.reg = x}}

\* The chunks that n pointers fill.
Chunks(n) == (n + CHUNK - 1) \div CHUNK

(***************************************************************************)
(* A push fails when the stack cannot grow.  Trace0: the main marker       *)
(* marks the objects of new and pushes those it has room for; lost counts  *)
(* other allocations that fail in the same step.                           *)
(***************************************************************************)
Fail(n) == fails + n <= MaxFail /\ fails' = fails + n

Trace0(new, lost) ==
    \E dropped \in SUBSET new :
        /\ Fail(Cardinality(dropped) + lost)
        /\ marked' = marked \cup new
        /\ stk0' = stk0 \cup (new \ dropped)
        /\ over0' = (over0 \/ dropped # {})

-----------------------------------------------------------------------------
(* The program, between collections. *)

\* A root goes away.
Unroot(r) ==
    /\ stage = "idle" /\ r \in roots
    /\ roots' = roots \ {r}
    /\ UNCHANGED <<edge, heap, eph, cells, holed, jobs, serVars, parVars, wrkVars, marked, fails>>

\* A cleanup job calls the callback for one dead cell after the other, up to
\* one that throws.  A callback may collect.
FinregJob(r) ==
    /\ stage = "idle" /\ jobs[r] > 0
    /\ LET dead == {c \in holed : c.reg = r}
           ended == [jobs EXCEPT ![r] = @ - 1]
       IN  \/ dead = {} /\ jobs' = ended /\ UNCHANGED <<cells, holed>>
           \/ \E c \in dead : /\ cells' = cells \ {c} /\ holed' = holed \ {c}
                             /\ jobs' \in {jobs, ended}
    /\ UNCHANGED <<edge, roots, heap, eph, serVars, parVars, wrkVars, marked, fails>>

-----------------------------------------------------------------------------
(* The collecting thread. *)

\* mark_roots: the roots proper and the arguments of jobs, which are found in
\* the queue and, of the one that runs, on the stack.
RootSet == roots \cup {r \in Obj : jobs[r] > 0}

\* gc_collect clears the main marker and marks the roots.
Collect ==
    /\ stage = "idle"
    /\ stage' = "roots"
    /\ \E dropped \in SUBSET RootSet :
        /\ Fail(Cardinality(dropped))
        /\ marked' = marked \cup RootSet
        /\ stk0' = RootSet \ dropped
        /\ over0' = (dropped # {})
    /\ moverflow' = FALSE
    /\ UNCHANGED <<mutVars, rest, visit, more, parVars, wrkVars>>

\* s cut into chunks, the last one with what is left over.
IsChunking(p, s) ==
    /\ \A i \in 1 .. Len(p) - 1 : Cardinality(p[i]) = CHUNK
    /\ \A i, j \in 1 .. Len(p) : i # j => p[i] \cap p[j] = {}
    /\ \A x \in s : \E i \in 1 .. Len(p) : x \in p[i]

\* par_drain: the main stack becomes chunks, the workers are offered.
ParDrain ==
    /\ stage = "roots" /\ stk0 # {}
    /\ stage' = "par"
    /\ \E p \in [1 .. Chunks(Cardinality(stk0)) -> SUBSET stk0] :
        IsChunking(p, stk0) /\ pool' = p
    /\ cap' = Chunks(Cardinality(stk0)) + SPARE
    /\ stk0' = {}
    /\ nstarted' = 0 /\ nidle' = 0 /\ done' = FALSE /\ poverflow' = FALSE
    /\ pc' = [w \in Worker |-> "off"]
    /\ stk' = [w \in Worker |-> {}]
    /\ over' = [w \in Worker |-> FALSE]
    /\ UNCHANGED <<mutVars, over0, moverflow, rest, visit, more, todo, saw, marked, fails>>

\* Small heap, one CPU, nothing to mark, no memory: par_drain returns 0.
Alone ==
    /\ stage = "roots"
    /\ stage' = "strong"
    /\ UNCHANGED <<mutVars, stk0, over0, moverflow, rest, visit, more, parVars, wrkVars, marked, fails>>

\* ojs_par_run returns when every item has run.
Join ==
    /\ stage = "par"
    /\ \A w \in Worker : pc[w] = "left"
    /\ stage' = "strong"
    /\ moverflow' = (moverflow \/ poverflow)
    /\ UNCHANGED <<mutVars, stk0, over0, rest, visit, more, parVars, wrkVars, marked, fails>>

Draining == stage \in {"strong", "eph", "last"} /\ visit = {}

\* drain pops an object and traces it.
DrainOne ==
    /\ Draining /\ rest = {}
    /\ \E x \in stk0 :
        \E dropped \in SUBSET (Children(x) \ marked) :
            /\ Fail(Cardinality(dropped))
            /\ marked' = marked \cup Children(x)
            /\ stk0' = (stk0 \ {x}) \cup (Children(x) \ (marked \cup dropped))
            /\ over0' = (over0 \/ dropped # {})
    /\ UNCHANGED <<mutVars, stage, moverflow, rest, visit, more, parVars, wrkVars>>

\* A push had failed: drain goes through the heap for marked objects.
Rescan ==
    /\ Draining /\ rest = {} /\ stk0 = {}
    /\ over0 \/ moverflow
    /\ over0' = FALSE /\ moverflow' = FALSE
    /\ rest' = heap
    /\ UNCHANGED <<mutVars, stage, stk0, visit, more, parVars, wrkVars, marked, fails>>

\* One object of that walk: it is traced if it is marked by now.
RescanOne ==
    /\ Draining
    /\ \E x \in rest :
        /\ rest' = rest \ {x}
        /\ IF x \in marked THEN Trace0(Children(x) \ marked, 0)
                           ELSE UNCHANGED <<marked, stk0, over0, fails>>
    /\ UNCHANGED <<mutVars, stage, moverflow, visit, more, parVars, wrkVars>>

Drained == Draining /\ rest = {} /\ stk0 = {} /\ ~over0 /\ ~moverflow

\* weak_process_ephemerons starts, for the first time or because it marked.
Ephemerons ==
    /\ Drained
    /\ stage = "strong" \/ (stage = "eph" /\ more)
    /\ stage' = "eph" /\ more' = FALSE /\ visit' = eph
    /\ UNCHANGED <<mutVars, stk0, over0, moverflow, rest, parVars, wrkVars, marked, fails>>

\* Mutant: it does not say that it marked.
EphemeronOnce ==
    /\ \E e \in visit :
        /\ visit' = visit \ {e}
        /\ IF {e.table, e.key} \subseteq marked /\ e.value \notin marked
           THEN Trace0({e.value}, 0)
           ELSE UNCHANGED <<marked, stk0, over0, fails>>
    /\ UNCHANGED <<mutVars, stage, moverflow, rest, more, parVars, wrkVars>>

\* One entry of it: the value of a live table's live key is marked.
EphemeronOne ==
    /\ \E e \in visit :
        /\ visit' = visit \ {e}
        /\ IF {e.table, e.key} \subseteq marked /\ e.value \notin marked
           THEN Trace0({e.value}, 0) /\ more' = TRUE
           ELSE UNCHANGED <<marked, stk0, over0, fails, more>>
    /\ UNCHANGED <<mutVars, stage, moverflow, rest, parVars, wrkVars>>

\* finreg_process: cells of live registries whose target is dead.  Their
\* registries get a job, unless there is no memory for one.
DeadCells == {c \in cells \ holed : c.reg \in marked /\ c.target \notin marked}

Finregs ==
    /\ Drained
    /\ stage = "eph" /\ ~more
    /\ stage' = "last"
    /\ holed' = holed \cup DeadCells
    /\ \E unqueued \in SUBSET {c.reg : c \in DeadCells} :
        /\ jobs' = [r \in Obj |-> IF r \in {c.reg : c \in DeadCells} \ unqueued
                                 THEN jobs[r] + 1 ELSE jobs[r]]
        /\ Trace0({c.held : c \in DeadCells} \ marked, Cardinality(unqueued))
    /\ UNCHANGED <<edge, roots, heap, eph, cells, moverflow, rest, visit, more, parVars, wrkVars>>

(***************************************************************************)
(* weak_clear_dead forgets entries with a dead key and the tables and      *)
(* registries that die; sweep frees what is not marked and clears the bit  *)
(* of what stays.                                                          *)
(***************************************************************************)
EntriesOfLiveTables == {e \in eph : e.table \in marked}     \* mutant: dead keys stay

LiveEntries == {e \in eph : {e.table, e.key} \subseteq marked}

Sweep ==
    /\ Drained
    /\ stage = "last"
    /\ stage' = "idle"
    /\ eph' = LiveEntries
    /\ cells' = {c \in cells : c.reg \in marked}
    /\ holed' = {c \in holed : c.reg \in marked}
    /\ heap' = heap \cap marked
    /\ marked' = {}
    /\ UNCHANGED <<edge, roots, jobs, stk0, over0, moverflow, rest, visit, more, parVars, wrkVars, fails>>

-----------------------------------------------------------------------------
(* The workers (par_worker). *)

\* An item starts, whenever a CPU takes it.
Start(w) ==
    /\ stage = "par" /\ pc[w] = "off"
    /\ nstarted' = nstarted + 1
    /\ pc' = [pc EXCEPT ![w] = "scan"]
    /\ UNCHANGED <<mutVars, serVars, pool, cap, nidle, done, poverflow, stk, over, todo, saw, marked, fails>>

\* It pops an object and begins to trace it.
Pop(w) ==
    /\ stage = "par" /\ pc[w] = "scan"
    /\ \E x \in stk[w] :
        /\ stk' = [stk EXCEPT ![w] = @ \ {x}]
        /\ todo' = [todo EXCEPT ![w] = Children(x)]
    /\ pc' = [pc EXCEPT ![w] = "trace"]
    /\ UNCHANGED <<mutVars, serVars, parVars, over, saw, marked, fails>>

\* gc_mark_ptr reads the mark bit of a pointer ...
Look(w) ==
    /\ stage = "par" /\ pc[w] = "trace"
    /\ \E c \in todo[w] :
        IF c \in marked
        THEN todo' = [todo EXCEPT ![w] = @ \ {c}] /\ UNCHANGED <<pc, saw>>
        ELSE /\ saw' = [saw EXCEPT ![w] = {c}]
             /\ pc' = [pc EXCEPT ![w] = "mark"]
             /\ UNCHANGED todo
    /\ UNCHANGED <<mutVars, serVars, parVars, stk, over, marked, fails>>

\* ... and sets it later, also when another worker has set it meanwhile.
Mark(w) ==
    /\ stage = "par" /\ pc[w] = "mark"
    /\ marked' = marked \cup saw[w]
    /\ \/ /\ stk' = [stk EXCEPT ![w] = @ \cup saw[w]]
          /\ UNCHANGED <<over, fails>>
       \/ /\ fails < MaxFail
          /\ fails' = fails + 1
          /\ over' = [over EXCEPT ![w] = TRUE]
          /\ UNCHANGED stk
    /\ todo' = [todo EXCEPT ![w] = @ \ saw[w]]
    /\ saw' = [saw EXCEPT ![w] = {}]
    /\ pc' = [pc EXCEPT ![w] = "trace"]
    /\ UNCHANGED <<mutVars, serVars, parVars>>

\* A traced object: with a long stack, an empty pool and somebody idle it shares.
Traced(w) ==
    /\ stage = "par" /\ pc[w] = "trace" /\ todo[w] = {}
    /\ pc' = [pc EXCEPT ![w] =
                IF Cardinality(stk[w]) > 2 * CHUNK /\ Len(pool) = 0 /\ nidle > 0
                THEN "offer" ELSE "scan"]
    /\ UNCHANGED <<mutVars, serVars, parVars, stk, over, todo, saw, marked, fails>>

\* par_share: under the lock, if there is (still) room.
Share(w) ==
    /\ stage = "par" /\ pc[w] = "offer"
    /\ IF Len(pool) < cap /\ Cardinality(stk[w]) > 2 * CHUNK
       THEN \E s \in SUBSET stk[w] :
                /\ Cardinality(s) = CHUNK
                /\ pool' = Append(pool, s)
                /\ stk' = [stk EXCEPT ![w] = @ \ s]
       ELSE UNCHANGED <<pool, stk>>
    /\ pc' = [pc EXCEPT ![w] = "scan"]
    /\ UNCHANGED <<mutVars, serVars, cap, nstarted, nidle, done, poverflow, over, todo, saw, marked, fails>>

\* Mutant: a dropped chunk is forgotten.
TakeSilently(w) ==
    /\ pool' = SubSeq(pool, 1, Len(pool) - 1)
    /\ \/ /\ stk' = [stk EXCEPT ![w] = @ \cup pool[Len(pool)]]
          /\ UNCHANGED <<over, fails>>
       \/ /\ fails < MaxFail
          /\ fails' = fails + 1
          /\ UNCHANGED <<over, stk>>

\* par_take: the newest chunk, which is dropped when the stack cannot grow.
Take(w) ==
    /\ pool' = SubSeq(pool, 1, Len(pool) - 1)
    /\ \/ /\ stk' = [stk EXCEPT ![w] = @ \cup pool[Len(pool)]]
          /\ UNCHANGED <<over, fails>>
       \/ /\ fails < MaxFail
          /\ fails' = fails + 1
          /\ over' = [over EXCEPT ![w] = TRUE]
          /\ UNCHANGED stk

\* Mutant: it waits for all the workers, not for those that started.
RestForAll(w) ==
    /\ stage = "par" /\ pc[w] = "scan" /\ stk[w] = {}
    /\ \/ /\ pool # <<>>
          /\ Take(w)
          /\ UNCHANGED <<pc, nidle, done>>
       \/ /\ pool = <<>>
          /\ nidle' = nidle + 1
          /\ done' = (done \/ nidle + 1 = Cardinality(Worker))
          /\ pc' = [pc EXCEPT ![w] = "idle"]
          /\ UNCHANGED <<pool, stk, over, fails>>
    /\ UNCHANGED <<mutVars, serVars, cap, nstarted, poverflow, todo, saw, marked>>

\* Its stack is empty: it takes a chunk, or it is idle, perhaps the last one.
Rest(w) ==
    /\ stage = "par" /\ pc[w] = "scan" /\ stk[w] = {}
    /\ \/ /\ pool # <<>>
          /\ Take(w)
          /\ UNCHANGED <<pc, nidle, done>>
       \/ /\ pool = <<>>
          /\ nidle' = nidle + 1
          /\ done' = (done \/ nidle + 1 = nstarted)
          /\ pc' = [pc EXCEPT ![w] = "idle"]
          /\ UNCHANGED <<pool, stk, over, fails>>
    /\ UNCHANGED <<mutVars, serVars, cap, nstarted, poverflow, todo, saw, marked>>

\* An idle worker sees a chunk, without the lock ...
Wake(w) ==
    /\ stage = "par" /\ pc[w] = "idle" /\ ~done /\ pool # <<>>
    /\ pc' = [pc EXCEPT ![w] = "grab"]
    /\ UNCHANGED <<mutVars, serVars, parVars, stk, over, todo, saw, marked, fails>>

\* Mutant: a worker that takes a chunk still counts as idle.
GrabIdly(w) ==
    /\ stage = "par" /\ pc[w] = "grab"
    /\ \/ /\ pool # <<>>
          /\ Take(w)
          /\ pc' = [pc EXCEPT ![w] = "scan"]
       \/ /\ pool = <<>>
          /\ pc' = [pc EXCEPT ![w] = "idle"]
          /\ UNCHANGED <<pool, stk, over, fails>>
    /\ UNCHANGED <<mutVars, serVars, cap, nstarted, nidle, done, poverflow, todo, saw, marked>>

\* ... and takes it under the lock, if it is still there.
Grab(w) ==
    /\ stage = "par" /\ pc[w] = "grab"
    /\ \/ /\ pool # <<>>
          /\ nidle' = nidle - 1
          /\ Take(w)
          /\ pc' = [pc EXCEPT ![w] = "scan"]
       \/ /\ pool = <<>>
          /\ pc' = [pc EXCEPT ![w] = "idle"]
          /\ UNCHANGED <<nidle, pool, stk, over, fails>>
    /\ UNCHANGED <<mutVars, serVars, cap, nstarted, done, poverflow, todo, saw, marked>>

\* Mutant: it leaves without a word of its overflow.
LeaveSilently(w) ==
    /\ stage = "par" /\ pc[w] = "idle" /\ done
    /\ pc' = [pc EXCEPT ![w] = "left"]
    /\ UNCHANGED <<mutVars, serVars, parVars, stk, over, todo, saw, marked, fails>>

\* It sees P->done and tells of its overflow.
Leave(w) ==
    /\ stage = "par" /\ pc[w] = "idle" /\ done
    /\ poverflow' = (poverflow \/ over[w])
    /\ pc' = [pc EXCEPT ![w] = "left"]
    /\ UNCHANGED <<mutVars, serVars, pool, cap, nstarted, nidle, done, stk, over, todo, saw, marked, fails>>

-----------------------------------------------------------------------------
Serial == \/ Collect \/ ParDrain \/ Alone \/ Join \/ DrainOne \/ Rescan \/ RescanOne
          \/ Ephemerons \/ EphemeronOne \/ Finregs \/ Sweep

WorkerStep(w) == \/ Pop(w) \/ Look(w) \/ Mark(w) \/ Traced(w) \/ Share(w)
                 \/ Rest(w) \/ Wake(w) \/ Grab(w) \/ Leave(w)

Next == \/ \E r \in Obj : Unroot(r) \/ FinregJob(r)
        \/ Serial
        \/ \E w \in Worker : Start(w) \/ WorkerStep(w)

Init ==
    /\ edge \in Graphs
    /\ roots = InitRoots /\ heap = Obj /\ eph = InitEph /\ cells = InitCells /\ holed = {}
    /\ jobs = [r \in Obj |-> 0]
    /\ stage = "idle" /\ marked = {}
    /\ stk0 = {} /\ over0 = FALSE /\ moverflow = FALSE /\ rest = {} /\ visit = {} /\ more = FALSE
    /\ pool = <<>> /\ cap = 0 /\ nstarted = 0 /\ nidle = 0 /\ done = FALSE /\ poverflow = FALSE
    /\ pc = [w \in Worker |-> "off"]
    /\ stk = [w \in Worker |-> {}]
    /\ over = [w \in Worker |-> FALSE]
    /\ todo = [w \in Worker |-> {}] /\ saw = [w \in Worker |-> {}]
    /\ fails = 0

Spec == Init /\ [][Next]_vars

(***************************************************************************)
(* The collecting thread and a running item go on.  An item that has not   *)
(* started is only sure to start when no other one is running: the APs may *)
(* be busy, and smp_parallel_for then runs the items one after the other   *)
(* on the calling CPU.  The program need not do anything.                  *)
(***************************************************************************)
NobodyRuns == \A w \in Worker : pc[w] \in {"off", "left"}

Fairness ==
    /\ WF_vars(Serial /\ stage # "idle")
    /\ \A w \in Worker : WF_vars(WorkerStep(w))
    /\ \A w \in Worker : WF_vars(Start(w) /\ NobodyRuns)

FairSpec == Spec /\ Fairness
-----------------------------------------------------------------------------
Entry == [table : Obj, key : Obj, value : Obj]
Cell == [reg : Obj, target : Obj, held : Obj]

MutType ==
    /\ edge \in [Obj -> SUBSET Obj]
    /\ roots \subseteq Obj /\ heap \subseteq Obj /\ jobs \in [Obj -> Nat]
    /\ eph \subseteq Entry /\ cells \subseteq Cell /\ holed \subseteq cells

SerType ==
    /\ stage \in Stages
    /\ stk0 \subseteq Obj /\ over0 \in BOOLEAN /\ moverflow \in BOOLEAN
    /\ rest \subseteq Obj /\ visit \subseteq Entry /\ more \in BOOLEAN

ParType ==
    /\ pool \in Seq(SUBSET Obj) /\ cap \in Nat
    /\ nstarted \in Nat /\ nidle \in Nat /\ done \in BOOLEAN /\ poverflow \in BOOLEAN

WrkType ==
    /\ pc \in [Worker -> PCs]
    /\ stk \in [Worker -> SUBSET Obj] /\ over \in [Worker -> BOOLEAN]
    /\ todo \in [Worker -> SUBSET Obj] /\ saw \in [Worker -> SUBSET Obj]

\* Every variable has its type, and a pending cell is a cell of a registry.
TypeOK == MutType /\ SerType /\ ParType /\ WrkType /\ marked \subseteq Obj /\ fails \in 0 .. MaxFail

(***************************************************************************)
(* What the program can still get at: the least set with the roots that    *)
(* is closed under pointers and under the entries of weak tables.          *)
(***************************************************************************)
Closed(S) ==
    /\ RootSet \subseteq S
    /\ \A x \in S : Children(x) \subseteq S
    /\ \A e \in eph : {e.table, e.key} \subseteq S => e.value \in S

Live == {x \in Obj : \A S \in SUBSET Obj : Closed(S) => x \in S}

\* Objects on some mark stack or in the pool, or left to the rescan.
Waiting(x) ==
    \/ x \in stk0 \/ x \in rest
    \/ \E i \in 1 .. Len(pool) : x \in pool[i]
    \/ \E w \in Worker : x \in stk[w]

\* Somebody could not push, and the rescan that makes up for it is to come.
RescanDue == \/ over0 \/ moverflow
             \/ stage = "par" /\ (poverflow \/ \E w \in Worker : over[w])

(***************************************************************************)
(* NothingMissed: while marking goes on, a pointer of a marked object      *)
(* leads to a marked one, or the object is still waiting to be traced, or  *)
(* a worker has that pointer before it, or the heap will be rescanned      *)
(* (the comment on struct marker's overflow; par_take's "the serial rescan *)
(* after the phase picks it up").                                          *)
(***************************************************************************)
NothingMissed ==
    \A x \in marked : \A c \in Children(x) :
        \/ c \in marked
        \/ Waiting(x)
        \/ \E w \in Worker : c \in todo[w]
        \/ RescanDue

(***************************************************************************)
(* DoneIsQuiet: once P->done is set no chunk is in the pool and no worker  *)
(* has anything to trace, also those that start after it (the comment of   *)
(* par_worker: "everybody who ever started is idle and nothing is          *)
(* waiting: finished").                                                    *)
(***************************************************************************)
DoneIsQuiet ==
    done => /\ pool = <<>>
            /\ \A w \in Worker :
                  stk[w] = {} /\ todo[w] = {} /\ pc[w] \in {"off", "scan", "idle", "grab", "left"}

(***************************************************************************)
(* NoLiveFreed: what the program can get at is never freed, whatever the   *)
(* workers' steps, the CPUs that came late and the pushes that failed.     *)
(***************************************************************************)
NoLiveFreed == Live \subseteq heap

(***************************************************************************)
(* WeakSound: between collections the weak structures of living objects    *)
(* point to living objects (weak_clear_dead), and a registry's cleanup is  *)
(* pending only for targets that are gone (finreg_process).                *)
(***************************************************************************)
WeakSound ==
    stage = "idle" =>
        /\ \A e \in eph : {e.table, e.key, e.value} \subseteq heap
        /\ \A c \in cells : /\ {c.reg, c.held} \subseteq heap
                            /\ c \in holed <=> c.target \notin heap

(***************************************************************************)
(* SweepExact: a collection frees exactly what the program cannot get at   *)
(* and forgets exactly the weak entries whose table or key it frees, none  *)
(* before the end.  The double marking of a race or a rescan keeps nothing *)
(* alive; a value found late keeps its own entries (gc_collect: "loop      *)
(* until stable").                                                         *)
(***************************************************************************)
Swept == stage = "last" /\ stage' = "idle"

SweepExact ==
    [][stage # "idle" =>
          /\ Swept => heap' = heap \cap Live
          /\ eph' = IF Swept THEN {e \in eph : {e.table, e.key} \subseteq Live}
                            ELSE eph]_vars

(***************************************************************************)
(* CollectionEnds: gc_collect returns, also when some of the workers never *)
(* get a CPU before the others have finished.                              *)
(***************************************************************************)
CollectionEnds == stage = "roots" ~> stage = "idle"
=============================================================================
