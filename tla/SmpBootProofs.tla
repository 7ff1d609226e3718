--------------------------- MODULE SmpBootProofs ---------------------------
(***************************************************************************)
(* Bringing up the APs keeps them apart, for any number of CPUs, as long   *)
(* as none comes up after the boot CPU gave up on it (Late = {}; an AP     *)
(* that is late takes the stack of the next one, see SmpBootLate.cfg).     *)
(***************************************************************************)
EXTENDS SmpBoot, TLAPS

Starting == pc \in {"send", "wait"}
Running == {"stacked", "online"}

\* Each AP costs at most one stack, so stacks can be told apart by number; an
\* index is free while an AP is being started.
LoopInv ==
    /\ Starting => i <= N /\ ncpuTotal < MaxCpus /\ allocs <= i
    /\ ~Starting => allocs <= i - 1

\* What start_ap wrote for the AP at hand is still there.
HandInv ==
    Starting => /\ startIdx = ncpuTotal /\ trampStack = allocs
                /\ stack[ncpuTotal] = allocs /\ allocs > 0

\* The AP at hand: it goes on by what it finds in the trampoline page.
StartedInv ==
    /\ pc = "send" => ap[i] = "off" /\ state[ncpuTotal] # "online"
    /\ pc = "wait" =>
          /\ ap[i] = "off" <=> i \in dead
          /\ ap[i] = "online" <=> state[ncpuTotal] = "online"
          /\ ap[i] \in Running => apStack[i] = allocs
          /\ ap[i] = "online" => apIdx[i] = ncpuTotal

\* The APs before it run under an index that was counted, on its stack, or not
\* at all; those after it are off.
OthersInv ==
    \A p \in Aps :
        /\ p < i => ap[p] \in {"off", "online"}
        /\ p > i => ap[p] = "off"
        /\ ~Starting /\ p >= i => ap[p] = "off"
        /\ p < i /\ ap[p] = "online" =>
              /\ apIdx[p] \in 1 .. ncpuTotal - 1 /\ stack[apIdx[p]] = apStack[p]
              /\ apStack[p] <= allocs /\ (Starting => apStack[p] < allocs)

\* No two of them share a stack.
DistinctInv ==
    \A p, q \in Aps :
        p < i /\ q < i /\ p # q /\ ap[p] = "online" /\ ap[q] = "online"
            => apStack[p] # apStack[q]

\* Each counted index has its AP.
CountedInv ==
    pc # "stopped" => \A k \in 1 .. ncpuTotal - 1 :
        \E p \in Aps : p < i /\ ap[p] = "online" /\ apIdx[p] = k

BootInv ==
    /\ TypeOK /\ LoopInv /\ HandInv /\ StartedInv /\ OthersInv
    /\ DistinctInv /\ CountedInv

-----------------------------------------------------------------------------
\* What the arithmetic below needs of the types.
LEMMA Numbers ==
    ASSUME TypeOK
    PROVE  /\ N \in Nat /\ MaxCpus \in Nat /\ Aps \subseteq Nat /\ Idx \subseteq Nat
           /\ i \in Nat /\ 1 <= i /\ i <= N + 1
           /\ ncpuTotal \in Nat /\ 1 <= ncpuTotal /\ ncpuTotal <= MaxCpus
           /\ allocs \in Nat /\ allocs <= N
           /\ \A p \in Aps : apStack[p] \in Nat /\ apIdx[p] \in Nat
           /\ i <= N => i \in Aps
           /\ ncpuTotal < MaxCpus => ncpuTotal \in Idx
BY BootAssumption DEF TypeOK, Aps, Idx

\* The trampoline is empty and every AP is off.
LEMMA BootInit == Init => BootInv
BY BootAssumption DEF Init, BootInv, TypeOK, LoopInv, HandInv, StartedInv,
   OthersInv, DistinctInv, CountedInv, Starting, Running, Aps, Idx

\* start_ap writes only the entry nobody counted yet, with a stack nobody has.
LEMMA PrepareStep == BootInv /\ Prepare => BootInv'
<1> SUFFICES ASSUME BootInv, Prepare PROVE BootInv'
    OBVIOUS
<1> USE DEF BootInv, Prepare, More, Starting, aps
<1>1. allocs + 1 <= i /\ allocs + 1 \in 0 .. N /\ i \in Aps /\ ncpuTotal \in Idx
    BY Numbers DEF LoopInv
<1>2. TypeOK'
    <2>1. /\ stack' \in [Idx -> 0 .. N] /\ apicId' \in [Idx -> 0 .. N]
          /\ state' \in [Idx -> {"none", "starting", "online", "failed"}]
        BY <1>1 DEF TypeOK, Aps
    <2> QED
        BY <1>1, <2>1 DEF TypeOK
<1>3. LoopInv' /\ HandInv'
    BY <1>1, <1>2, Numbers DEF LoopInv, HandInv, TypeOK
<1>4. StartedInv'
    BY <1>1, Numbers DEF StartedInv, OthersInv, TypeOK
<1>5. OthersInv'
    <2> SUFFICES ASSUME NEW p \in Aps
                 PROVE  /\ p < i => ap[p] \in {"off", "online"}
                        /\ p > i => ap[p] = "off"
                        /\ p < i /\ ap[p] = "online" =>
                              /\ apIdx[p] \in 1 .. ncpuTotal - 1
                              /\ stack'[apIdx[p]] = apStack[p]
                              /\ apStack[p] < allocs + 1
        BY Numbers DEF OthersInv
    <2>1. apIdx[p] \in Idx /\ stack \in [Idx -> 0 .. N]
        BY DEF TypeOK
    <2> QED
        BY <2>1, Numbers DEF OthersInv
<1>6. DistinctInv' /\ CountedInv'
    BY DEF DistinctInv, CountedInv
<1> QED
    BY <1>2, <1>3, <1>4, <1>5, <1>6

\* Passing over an AP without a stack leaves it off.
LEMMA NoStackStep == BootInv /\ NoStack => BootInv'
<1> SUFFICES ASSUME BootInv, NoStack PROVE BootInv'
    OBVIOUS
<1> USE DEF BootInv, NoStack, More, Starting, aps
<1>1. i \in Aps /\ ncpuTotal \in Idx /\ ap[i] = "off"
    BY Numbers DEF OthersInv
<1>2. TypeOK'
    <2>1. stack' \in [Idx -> 0 .. N]
        BY <1>1, Numbers DEF TypeOK
    <2> QED
        BY <2>1, Numbers DEF TypeOK
<1>3. LoopInv' /\ HandInv' /\ StartedInv'
    BY Numbers DEF LoopInv, HandInv, StartedInv
<1>4. OthersInv'
    <2> SUFFICES ASSUME NEW p \in Aps
                 PROVE  /\ p < i + 1 => ap[p] \in {"off", "online"}
                        /\ p >= i + 1 => ap[p] = "off"
                        /\ p < i + 1 /\ ap[p] = "online" =>
                              /\ apIdx[p] \in 1 .. ncpuTotal - 1
                              /\ stack'[apIdx[p]] = apStack[p]
                              /\ apStack[p] <= allocs
        BY Numbers DEF OthersInv
    <2>1. apIdx[p] \in Idx /\ stack \in [Idx -> 0 .. N]
        BY DEF TypeOK
    <2> QED
        BY <1>1, <2>1, Numbers DEF OthersInv
<1>5. DistinctInv'
    BY <1>1, Numbers DEF DistinctInv
<1>6. CountedInv'
    BY Numbers DEF CountedInv
<1> QED
    BY <1>2, <1>3, <1>4, <1>5, <1>6

\* The IPIs wake the AP at hand, unless it is dead.
LEMMA SendStep == BootInv /\ Send => BootInv'
<1> SUFFICES ASSUME BootInv, Send PROVE BootInv'
    OBVIOUS
<1> USE DEF BootInv, Send, Starting, cpus
<1>1. i \in Aps /\ \A p \in Aps : p # i => ap'[p] = ap[p]
    BY Numbers DEF LoopInv, TypeOK
<1>2. TypeOK' /\ LoopInv' /\ HandInv'
    BY DEF TypeOK, LoopInv, HandInv
<1>3. StartedInv'
    BY <1>1 DEF StartedInv, TypeOK, Running
<1>4. OthersInv'
    BY <1>1, Numbers DEF OthersInv
<1>5. DistinctInv' /\ CountedInv'
    BY <1>1, Numbers DEF DistinctInv, CountedInv
<1> QED
    BY <1>1, <1>2, <1>3, <1>4, <1>5

\* The AP that answered is counted: its index is the one just used, and its
\* stack is newer than any other.
LEMMA AnsweredStep == BootInv /\ Answered => BootInv'
<1> SUFFICES ASSUME BootInv, Answered PROVE BootInv'
    OBVIOUS
<1> USE DEF BootInv, Answered, NextIndex, Starting, aps, cpus
<1>1. /\ i \in Aps /\ ap[i] = "online" /\ apIdx[i] = ncpuTotal /\ apStack[i] = allocs
      /\ stack[ncpuTotal] = allocs /\ i <= N /\ ncpuTotal < MaxCpus
    BY Numbers DEF StartedInv, HandInv, LoopInv, Running
<1>2. TypeOK'
    BY <1>1, Numbers DEF TypeOK
<1>3. LoopInv' /\ HandInv' /\ StartedInv'
    BY <1>1, Numbers DEF LoopInv, HandInv, StartedInv
<1>4. OthersInv'
    <2> SUFFICES ASSUME NEW p \in Aps
                 PROVE  /\ p < i + 1 => ap[p] \in {"off", "online"}
                        /\ p >= i + 1 => ap[p] = "off"
                        /\ p < i + 1 /\ ap[p] = "online" =>
                              /\ apIdx[p] \in 1 .. ncpuTotal
                              /\ stack[apIdx[p]] = apStack[p]
                              /\ apStack[p] <= allocs
        BY Numbers DEF OthersInv
    <2>1. CASE p = i
        BY <1>1, <2>1, Numbers
    <2>2. CASE p # i
        BY <2>2, Numbers DEF OthersInv
    <2> QED
        BY <2>1, <2>2
<1>5. DistinctInv'
    <2> SUFFICES ASSUME NEW p \in Aps, NEW q \in Aps, p < i + 1, q < i + 1, p # q,
                        ap[p] = "online", ap[q] = "online"
                 PROVE  apStack[p] # apStack[q]
        BY DEF DistinctInv
    <2>1. \A r \in Aps : r < i /\ ap[r] = "online" => apStack[r] < allocs
        BY DEF OthersInv
    <2>2. p < i \/ p = i
        BY Numbers
    <2>3. q < i \/ q = i
        BY Numbers
    <2> QED
        BY <1>1, <2>1, <2>2, <2>3, Numbers DEF DistinctInv
<1>6. CountedInv'
    <2> SUFFICES ASSUME NEW k \in 1 .. ncpuTotal
                 PROVE  \E p \in Aps : p < i + 1 /\ ap[p] = "online" /\ apIdx[p] = k
        BY Numbers DEF CountedInv
    <2>1. CASE k = ncpuTotal
        BY <1>1, <2>1, Numbers
    <2>2. CASE k # ncpuTotal
        <3>1. k \in 1 .. ncpuTotal - 1
            BY <2>2, Numbers
        <3>2. PICK p \in Aps : p < i /\ ap[p] = "online" /\ apIdx[p] = k
            BY <3>1 DEF CountedInv
        <3> QED
            BY <3>2, Numbers
    <2> QED
        BY <2>1, <2>2
<1> QED
    BY <1>2, <1>3, <1>4, <1>5, <1>6

\* The boot CPU gives up only on an AP that is off, and uses no index for it.
LEMMA TimedOutStep == Late = {} /\ BootInv /\ TimedOut => BootInv'
<1> SUFFICES ASSUME Late = {}, BootInv, TimedOut PROVE BootInv'
    OBVIOUS
<1> USE DEF BootInv, TimedOut, WaitOver, IndexAfterFailure, Starting, aps
<1>1. i \in Aps /\ i <= N /\ ncpuTotal \in Idx /\ ap[i] = "off"
    BY Numbers DEF LoopInv, StartedInv
<1>2. TypeOK'
    BY <1>1, Numbers DEF TypeOK
<1>3. LoopInv' /\ HandInv' /\ StartedInv'
    BY <1>1, Numbers DEF LoopInv, HandInv, StartedInv
<1>4. OthersInv'
    BY <1>1, Numbers DEF OthersInv
<1>5. DistinctInv' /\ CountedInv'
    <2>1. \A p \in Aps : p < i + 1 /\ ap[p] = "online" => p < i
        BY <1>1, Numbers
    <2>2. \A p \in Aps : p < i => p < i + 1
        BY Numbers
    <2> QED
        BY <2>1, <2>2 DEF DistinctInv, CountedInv
<1> QED
    BY <1>2, <1>3, <1>4, <1>5

\* Leaving the loop, and stopping the others before a reset.
LEMMA EndSteps == BootInv /\ (Finished \/ StopOthers) => BootInv'
<1> SUFFICES ASSUME BootInv, Finished \/ StopOthers PROVE BootInv'
    OBVIOUS
<1> USE DEF BootInv, Finished, StopOthers, Starting, aps, cpus
<1>1. TypeOK' /\ LoopInv' /\ HandInv' /\ StartedInv'
    BY DEF TypeOK, LoopInv, HandInv, StartedInv
<1>2. /\ \A p \in Aps : ap'[p] = ap[p] \/ ap'[p] = "off"
      /\ pc # "stopped" /\ (pc' # "stopped" => ap' = ap)
      /\ UNCHANGED <<i, ncpuTotal, allocs, stack, apStack, apIdx>>
    OBVIOUS
<1>3. OthersInv'
    BY <1>2 DEF OthersInv
<1>4. DistinctInv'
    BY <1>2 DEF DistinctInv
<1>5. CountedInv'
    BY <1>2 DEF CountedInv
<1> QED
    BY <1>1, <1>3, <1>4, <1>5

\* An AP that is on its way is the one at hand: all others are off or online.
LEMMA AtHand ==
    ASSUME BootInv, NEW p \in Aps, ap[p] \in {"woken", "stacked"}
    PROVE  pc = "wait" /\ p = i
<1> USE DEF BootInv, Starting
<1>1. ~(p < i) /\ ~(p > i)
    BY DEF OthersInv
<1>2. p = i
    BY <1>1, Numbers
<1>3. Starting /\ pc # "send"
    BY <1>2, Numbers DEF OthersInv, StartedInv
<1> QED
    BY <1>2, <1>3

\* It takes the stack start_ap left for it.
LEMMA LoadStackStep ==
    ASSUME NEW p \in Aps, BootInv, LoadStack(p)
    PROVE  BootInv'
<1> USE DEF BootInv, LoadStack, Starting, bsp, cpus
<1>1. /\ pc = "wait" /\ p = i
      /\ \A q \in Aps : q # i => ap'[q] = ap[q] /\ apStack'[q] = apStack[q]
    BY AtHand DEF TypeOK
<1>2. TypeOK' /\ LoopInv' /\ HandInv'
    BY DEF TypeOK, LoopInv, HandInv
<1>3. StartedInv'
    BY <1>1 DEF StartedInv, HandInv, TypeOK, Running
<1>4. OthersInv'
    BY <1>1, Numbers DEF OthersInv
<1>5. DistinctInv' /\ CountedInv'
    BY <1>1, Numbers DEF DistinctInv, CountedInv
<1> QED
    BY <1>2, <1>3, <1>4, <1>5

\* It takes the index start_ap left for it, which is not counted yet.
LEMMA EnterStep ==
    ASSUME NEW p \in Aps, BootInv, Enter(p)
    PROVE  BootInv'
<1> USE DEF BootInv, Enter, Starting, bsp
<1>1. /\ pc = "wait" /\ p = i /\ startIdx = ncpuTotal
      /\ \A q \in Aps : q # i => ap'[q] = ap[q] /\ apIdx'[q] = apIdx[q]
    BY AtHand DEF TypeOK, HandInv
<1>2. TypeOK'
    <2>1. p \in 0 .. N /\ startIdx \in Idx
        BY BootAssumption DEF Aps, TypeOK
    <2> QED
        BY <2>1 DEF TypeOK
<1>3. LoopInv' /\ HandInv'
    BY DEF LoopInv, HandInv
<1>4. StartedInv'
    BY <1>1 DEF StartedInv, TypeOK, Running
<1>5. OthersInv'
    BY <1>1, Numbers DEF OthersInv
<1>6. DistinctInv' /\ CountedInv'
    BY <1>1, Numbers DEF DistinctInv, CountedInv
<1> QED
    BY <1>2, <1>3, <1>4, <1>5, <1>6

\* No step of the boot CPU or of an AP breaks the invariant.
LEMMA BootStep == Late = {} /\ BootInv /\ [Next]_vars => BootInv'
<1>1. BootInv /\ UNCHANGED vars => BootInv'
    BY DEF vars, bsp, cpus, aps, BootInv, TypeOK, LoopInv, HandInv, StartedInv,
           OthersInv, DistinctInv, CountedInv, Starting
<1> QED
    BY <1>1, PrepareStep, NoStackStep, SendStep, AnsweredStep, TimedOutStep,
       EndSteps, LoadStackStep, EnterStep DEF Next

-----------------------------------------------------------------------------
\* The invariant says what is wanted of the APs that run.
LEMMA BootApart == BootInv => ApsApart
<1> SUFFICES ASSUME BootInv PROVE ApsApart
    OBVIOUS
<1> USE DEF BootInv, Starting, Running
<1>1. PrivateStacks
    <2> SUFFICES ASSUME NEW p \in Aps, NEW q \in Aps, ap[p] \in Running
                 PROVE  /\ p # q /\ ap[q] \in Running => apStack[p] # apStack[q]
                        /\ ap[p] = "online" => apIdx[p] # 0 /\ stack[apIdx[p]] = apStack[p]
        BY DEF PrivateStacks
    <2>1. ASSUME NEW r \in Aps, ap[r] \in Running
          PROVE  \/ r < i /\ ap[r] = "online"
                 \/ r = i /\ pc = "wait" /\ apStack[r] = allocs
        <3>1. ~(r > i)
            BY <2>1 DEF OthersInv
        <3>2. CASE r < i
            BY <2>1, <3>2 DEF OthersInv
        <3>3. CASE r = i
            <4>1. pc = "wait"
                BY <2>1, <3>3, Numbers DEF OthersInv, StartedInv
            <4> QED
                BY <2>1, <3>3, <4>1 DEF StartedInv
        <3> QED
            BY <3>1, <3>2, <3>3, Numbers
    <2>2. \A r \in Aps : r < i /\ ap[r] = "online" =>
            /\ apIdx[r] # 0 /\ stack[apIdx[r]] = apStack[r]
            /\ pc = "wait" => apStack[r] # allocs
        BY Numbers DEF OthersInv
    <2>3. p # q /\ ap[q] \in Running => apStack[p] # apStack[q]
        BY <2>1, <2>2, Numbers DEF DistinctInv
    <2>4. ap[p] = "online" => apIdx[p] # 0 /\ stack[apIdx[p]] = apStack[p]
        <3>1. CASE p < i
            BY <2>2, <3>1
        <3>2. CASE ~(p < i)
            BY <2>1, <3>2, Numbers DEF StartedInv, HandInv
        <3> QED
            BY <3>1, <3>2
    <2> QED
        BY <2>3, <2>4
<1>2. IndicesDense
    <2> SUFFICES ASSUME pc = "done"
                 PROVE  {apIdx[p] : p \in {q \in Aps : ap[q] = "online"}} = 1 .. ncpuTotal - 1
        BY DEF IndicesDense
    <2>1. \A p \in Aps : ap[p] = "online" => apIdx[p] \in 1 .. ncpuTotal - 1
        <3>1. \A p \in Aps : ap[p] = "online" => p < i
            BY Numbers DEF OthersInv
        <3> QED
            BY <3>1 DEF OthersInv
    <2>2. \A k \in 1 .. ncpuTotal - 1 : \E p \in Aps : ap[p] = "online" /\ apIdx[p] = k
        BY DEF CountedInv
    <2> QED
        BY <2>1, <2>2
<1> QED
    BY <1>1, <1>2 DEF ApsApart

\* smp_init gives every AP that runs a stack of its own and, when it is done,
\* the indices 1 .. ncpu-1 without a gap, for any number of CPUs, any of them
\* dead and any of them without a stack, as long as none of them is late.
THEOREM ApsStayApart ==
    ASSUME Late = {}
    PROVE  Spec => []ApsApart
<1>1. Init => BootInv
    BY BootInit
<1>2. BootInv /\ [Next]_vars => BootInv'
    BY BootStep
<1>3. BootInv => ApsApart
    BY BootApart
<1> QED
    BY <1>1, <1>2, <1>3, PTL DEF Spec
=============================================================================
