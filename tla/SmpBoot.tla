------------------------------ MODULE SmpBoot ------------------------------
(***************************************************************************)
(* Bringing up the application processors, smp_init and start_ap of        *)
(* src/src/smp.c: the boot CPU starts them one by one through a trampoline *)
(* page they all share, and waits at most 500 ms for each.  A CPU index    *)
(* is used up only by an AP that answered.                                 *)
(***************************************************************************)
EXTENDS Naturals, FiniteSets

CONSTANTS
    N,        \* the other CPUs of the ACPI table, started in the order 1..N
    MaxCpus,  \* SMP_MAX_CPUS (32), the boot CPU included
    Late      \* the APs that may need more than 500 ms to come up

Aps == 1 .. N
Idx == 0 .. MaxCpus - 1

ASSUME BootAssumption ==
    N \in Nat /\ MaxCpus \in Nat \ {0, 1} /\ Late \subseteq Aps

VARIABLES
    pc,                \* smp_init: next, send, wait, done or stopped
    i,                 \* its loop over the ACPI table
    ncpuTotal,
    state, stack, apicId,  \* cpus[]
    startIdx,
    trampStack,        \* the stack pointer in the trampoline page
    allocs,            \* stacks kmalloc has handed out so far; names the next
    dead,              \* the APs that never answer
    ap,                \* each AP: off, woken, stacked or online
    apStack, apIdx     \* the stack it runs on and the index it took

cpus == <<state, stack, apicId>>
bsp == <<pc, i, ncpuTotal, startIdx, trampStack, allocs, dead>>
aps == <<ap, apStack, apIdx>>
vars == <<bsp, cpus, aps>>

Init ==
    /\ pc = "next" /\ i = 1 /\ ncpuTotal = 1
    /\ state = [k \in Idx |-> IF k = 0 THEN "online" ELSE "none"]
    /\ stack = [k \in Idx |-> 0] /\ apicId = [k \in Idx |-> 0]
    /\ startIdx = 0 /\ trampStack = 0 /\ allocs = 0
    /\ dead \in SUBSET Aps
    /\ ap = [p \in Aps |-> "off"]
    /\ apStack = [p \in Aps |-> 0] /\ apIdx = [p \in Aps |-> 0]

-----------------------------------------------------------------------------
(* The boot CPU                                                            *)

More == i <= N /\ ncpuTotal < MaxCpus

\* start_ap up to the IPIs: a stack, the trampoline, start_idx
Prepare ==
    /\ pc = "next" /\ More
    /\ allocs' = allocs + 1
    /\ stack' = [stack EXCEPT ![ncpuTotal] = allocs + 1]
    /\ apicId' = [apicId EXCEPT ![ncpuTotal] = i]
    /\ state' = [state EXCEPT ![ncpuTotal] = "starting"]
    /\ trampStack' = allocs + 1 /\ startIdx' = ncpuTotal
    /\ pc' = "send"
    /\ UNCHANGED <<i, ncpuTotal, dead, aps>>

\* No memory for an AP stack: c->stack is null and the AP is passed over.
NoStack ==
    /\ pc = "next" /\ More
    /\ stack' = [stack EXCEPT ![ncpuTotal] = 0]
    /\ i' = i + 1
    /\ UNCHANGED <<pc, ncpuTotal, startIdx, trampStack, allocs, dead, state,
                   apicId, aps>>

\* INIT, then STARTUP twice; the second is ignored by a CPU that woke
Send ==
    /\ pc = "send"
    /\ ap' = [ap EXCEPT ![i] = IF i \in dead THEN "off" ELSE "woken"]
    /\ pc' = "wait"
    /\ UNCHANGED <<i, ncpuTotal, startIdx, trampStack, allocs, dead, cpus,
                   apStack, apIdx>>

SameIndexAgain == ncpuTotal
NextIndex == ncpuTotal + 1

\* The AP is online before the 500 ms are over.
Answered ==
    /\ pc = "wait" /\ state[ncpuTotal] = "online"
    /\ ncpuTotal' = NextIndex /\ i' = i + 1 /\ pc' = "next"
    /\ UNCHANGED <<startIdx, trampStack, allocs, dead, cpus, aps>>

WaitForever == FALSE
WaitOver == i \in dead \cup Late

\* An AP that failed gives its index to the next one.
IndexAfterFailure == ncpuTotal

TimedOut ==
    /\ pc = "wait" /\ state[ncpuTotal] # "online" /\ WaitOver
    /\ state' = [state EXCEPT ![ncpuTotal] = "failed"]
    /\ i' = i + 1 /\ ncpuTotal' = IndexAfterFailure /\ pc' = "next"
    /\ UNCHANGED <<startIdx, trampStack, allocs, dead, stack, apicId, aps>>

Finished ==
    /\ pc = "next" /\ ~More
    /\ pc' = "done"
    /\ UNCHANGED <<i, ncpuTotal, startIdx, trampStack, allocs, dead, cpus, aps>>

Stoppable == 1 .. ncpuTotal - 1

\* smp_stop_others, before a reset: INIT to every CPU that was counted
StopOthers ==
    /\ pc = "done"
    /\ pc' = "stopped"
    /\ ap' = [p \in Aps |-> IF \E k \in Stoppable : apicId[k] = p
                              THEN "off" ELSE ap[p]]
    /\ UNCHANGED <<i, ncpuTotal, startIdx, trampStack, allocs, dead, cpus,
                   apStack, apIdx>>

-----------------------------------------------------------------------------
(* An application processor                                                *)

\* ap_tramp.asm: mov esp, [ap_tramp_stack]
LoadStack(p) ==
    /\ ap[p] = "woken"
    /\ apStack' = [apStack EXCEPT ![p] = trampStack]
    /\ ap' = [ap EXCEPT ![p] = "stacked"]
    /\ UNCHANGED <<bsp, cpus, apIdx>>

\* smp_ap_entry: idx = start_idx; its entry of cpus[] goes online
Enter(p) ==
    /\ ap[p] = "stacked"
    /\ apIdx' = [apIdx EXCEPT ![p] = startIdx]
    /\ apicId' = [apicId EXCEPT ![startIdx] = p]
    /\ state' = [state EXCEPT ![startIdx] = "online"]
    /\ ap' = [ap EXCEPT ![p] = "online"]
    /\ UNCHANGED <<bsp, stack, apStack>>

Next ==
    \/ Prepare \/ NoStack \/ Send \/ Answered \/ TimedOut \/ Finished
    \/ StopOthers
    \/ \E p \in Aps : LoadStack(p) \/ Enter(p)

Spec == Init /\ [][Next]_vars
FairSpec ==
    Spec /\ WF_vars(Prepare \/ Send \/ Answered \/ TimedOut \/ Finished)
         /\ \A p \in Aps : WF_vars(LoadStack(p) \/ Enter(p))

-----------------------------------------------------------------------------
\* Every variable has its type; cpus[] is never indexed past its end.
TypeOK ==
    /\ pc \in {"next", "send", "wait", "done", "stopped"} /\ i \in 1 .. N + 1
    /\ ncpuTotal \in 1 .. MaxCpus /\ startIdx \in Idx
    /\ state \in [Idx -> {"none", "starting", "online", "failed"}]
    /\ stack \in [Idx -> 0 .. N] /\ apicId \in [Idx -> 0 .. N]
    /\ trampStack \in 0 .. N /\ allocs \in 0 .. N /\ dead \subseteq Aps
    /\ ap \in [Aps -> {"off", "woken", "stacked", "online"}]
    /\ apStack \in [Aps -> 0 .. N] /\ apIdx \in [Aps -> Idx]

\* "it runs on a 256KB private stack" (smp.h): no two APs that run share a
\* stack, and the stack is the one cpus[] records, by which smp_cpu_index
\* and the fault hook tell the CPUs apart.
PrivateStacks ==
    \A p, q \in Aps : ap[p] \in {"stacked", "online"} =>
        /\ p # q /\ ap[q] \in {"stacked", "online"} => apStack[p] # apStack[q]
        /\ ap[p] = "online" => apIdx[p] # 0 /\ stack[apIdx[p]] = apStack[p]

\* When smp_init is done the online APs have the indices 1 .. ncpu-1, one each.
IndicesDense ==
    pc = "done" =>
        {apIdx[p] : p \in {q \in Aps : ap[q] = "online"}} = 1 .. ncpuTotal - 1

\* The APs that run are apart: each on a stack of its own and, once smp_init is
\* done, under an index of its own without a gap, whichever of them never
\* answered or got no stack.  smp_parallel_for counts on it, and so does
\* smp_stop_others, which reaches 1 .. ncpu-1 and nobody else.
ApsApart == TypeOK /\ PrivateStacks /\ IndicesDense

\* The boot CPU waits for no AP forever.
BootEnds == <>(pc = "done")
=============================================================================
