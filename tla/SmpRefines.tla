----------------------------- MODULE SmpRefines -----------------------------
(* The job engine implements its contract.                                 *)
EXTENDS Smp

\* The length of the loop the boot CPU is inside
Length == IF pc[Boot] \in InCall THEN mine[Boot].n ELSE 0

\* A job is pending from the store e->state = 1 to the moment fn is entered
Status(j) ==
    CASE \E c \in AP : running[c] = j -> "running"
      [] \A c \in AP : running[c] # j ->
           IF j \in finished THEN "finished"
           ELSE IF \E i \in Entries : ajob[i] = j /\ astate[i] \in {1, 2}
             THEN "pending" ELSE "new"

Contract == INSTANCE SmpContract WITH
    Lengths <- {LengthOf(l) : l \in Loops},
    inLoop <- pc[Boot] \in InCall,
    length <- Length,
    runs <- ran,
    status <- [j \in Posts |-> Status(j)],
    entered <- starts

\* Behind slots, mailbox, interrupts and races the callers see the contract
\* of smp.h: every step of every CPU is a step of SmpContract or invisible.
\* The counts of runs are the callers' to see, so an item run twice or outside
\* its call, or a job two APs enter, is no step of the contract (smp.c:96-151,
\* 205-213).
KeepsContract == Contract!Spec
=============================================================================
