---------------------------- MODULE SmpContract ----------------------------
(***************************************************************************)
(* What src/src/smp.h promises the callers of the job engine, without the  *)
(* CPUs, slots, mailbox entries and interrupts that keep the promise: a    *)
(* loop runs each of its items once, during the call, and returns when     *)
(* every item is done; a posted job goes pending, running, finished, and   *)
(* is entered once; smp_async_done admits to a job only when it is         *)
(* finished.  Runs are counted: doing something twice is a step of its own *)
(* that the contract does not have.                                        *)
(***************************************************************************)
EXTENDS Naturals

CONSTANTS Posts,    \* the jobs handed to smp_async_start
          Items,    \* the item numbers of the longest loop
          Lengths   \* the n arguments of smp_parallel_for

VARIABLES inLoop,   \* the boot CPU is inside smp_parallel_for
          length,   \* the number of items of that loop
          runs,     \* how often each item of the last loop called has run
          status,   \* of each posted job
          entered,  \* how often each posted job was entered
          told      \* the jobs smp_async_done has answered 1 for

loopVars == <<inLoop, length, runs>>
postVars == <<status, entered>>
vars == <<loopVars, postVars, told>>

Init ==
    /\ inLoop = FALSE /\ length = 0 /\ runs = [k \in Items |-> 0]
    /\ status = [j \in Posts |-> "new"] /\ entered = [j \in Posts |-> 0]
    /\ told = {}

Begin(n) ==
    /\ ~inLoop /\ inLoop' = TRUE /\ 0 .. n - 1 \subseteq Items
    /\ length' = n /\ runs' = [k \in Items |-> 0]
    /\ UNCHANGED <<postVars, told>>

Todo == {k \in Items : k < length /\ runs[k] = 0}

Run(S) ==
    /\ inLoop
    /\ runs' = [k \in Items |-> IF k \in S THEN runs[k] + 1 ELSE runs[k]]
    /\ UNCHANGED <<inLoop, length, postVars, told>>

Return ==
    /\ inLoop /\ \A k \in Items : k < length => runs[k] = 1
    /\ inLoop' = FALSE /\ length' = 0
    /\ UNCHANGED <<runs, postVars, told>>

\* A loop too short to share is run by the caller at once.
Inline(n) ==
    /\ ~inLoop /\ n < 2 /\ 0 .. n - 1 \subseteq Items
    /\ runs' = [k \in Items |-> IF k < n THEN 1 ELSE 0]
    /\ UNCHANGED <<inLoop, length, postVars, told>>

Advance(j, from, to) ==
    /\ status[j] = from /\ status' = [status EXCEPT ![j] = to]
    /\ UNCHANGED <<loopVars, told>>

Accept(j) == Advance(j, "new", "pending") /\ UNCHANGED entered

Enter(j) ==
    /\ Advance(j, "pending", "running")
    /\ entered[j] = 0 /\ entered' = [entered EXCEPT ![j] = 1]

Finish(j) == Advance(j, "running", "finished") /\ UNCHANGED entered

Tell(j) ==
    /\ status[j] = "finished" /\ told' = told \cup {j}
    /\ UNCHANGED <<loopVars, postVars>>

Next ==
    \/ \E n \in Lengths : Begin(n) \/ Inline(n)
    \/ \E S \in SUBSET Todo : Run(S)
    \/ Return
    \/ \E j \in Posts : Accept(j) \/ Enter(j) \/ Finish(j) \/ Tell(j)

Spec == Init /\ [][Next]_vars
=============================================================================
