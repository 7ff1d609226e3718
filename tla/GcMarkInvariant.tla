--------------------------- MODULE GcMarkInvariant ---------------------------
(***************************************************************************)
(* The inductive invariant behind the safety properties of GcMark.         *)
(***************************************************************************)
EXTENDS GcMark

Started == {w \in Worker : pc[w] # "off"}
Idle == {w \in Worker : pc[w] \in {"idle", "grab", "left"}}

\* A worker's local data follow its program counter.
LocalsInv ==
    \A w \in Worker :
        /\ pc[w] \in {"off", "idle", "grab", "left"} => stk[w] = {}
        /\ pc[w] \notin {"trace", "mark"} => todo[w] = {}
        /\ pc[w] # "mark" => saw[w] = {}
        /\ saw[w] \subseteq todo[w]

\* The counters of struct gc_par count, and a worker that left was let go.
CountInv ==
    stage = "par" =>
        /\ nstarted = Cardinality(Started)
        /\ nidle = Cardinality(Idle)
        /\ \A w \in Worker : pc[w] = "left" => done /\ (over[w] => poverflow)

\* Outside the parallel phase the workers have nothing, outside the serial
\* ones the main marker has nothing.
PhaseInv ==
    /\ stage # "par" => pool = <<>> /\ \A w \in Worker : stk[w] = {} /\ todo[w] = {}
    /\ stage \in {"idle", "par"} => stk0 = {}
    /\ stage \in {"idle", "roots", "par"} => rest = {}
    /\ stage # "eph" => visit = {}
    /\ visit \subseteq eph
    /\ stage = "idle" => marked = {}

\* Only what the program can get at is marked or about to be.
SoundInv ==
    \A S \in SUBSET Obj : Closed(S) =>
        /\ marked \subseteq S
        /\ \A w \in Worker : todo[w] \subseteq S

\* What waits to be traced is marked.
GreyInv ==
    /\ stk0 \subseteq marked
    /\ \A w \in Worker : stk[w] \subseteq marked
    /\ \A i \in 1 .. Len(pool) : pool[i] \subseteq marked

\* The roots are marked as long as marking goes on.
RootInv == stage # "idle" => RootSet \subseteq marked

\* Nothing is left to trace.
Still == stk0 = {} /\ rest = {} /\ ~over0 /\ ~moverflow

\* A pass over the ephemerons that has not marked leaves no marking behind.
EphInv ==
    /\ stage = "eph" /\ ~more =>
          /\ Still
          /\ \A e \in eph \ visit : {e.table, e.key} \subseteq marked => e.value \in marked
    /\ stage = "last" =>
          /\ Still
          /\ \A e \in eph : {e.table, e.key} \subseteq marked => e.value \in marked

\* Cells are pending when their target is gone, or about to go.
CellInv ==
    /\ stage # "last" => \A c \in cells : c \in holed <=> c.target \notin heap
    /\ stage = "last" => \A c \in cells : c.reg \in marked => (c \in holed <=> c.target \notin marked)

\* The workers among themselves, and what is marked, kept and cleared.
WorkersInv == LocalsInv /\ CountInv /\ DoneIsQuiet /\ PhaseInv

MarkInv == /\ GreyInv /\ RootInv /\ NothingMissed /\ SoundInv
           /\ Closed(heap) /\ EphInv /\ CellInv /\ WeakSound

GcInv == TypeOK /\ WorkersInv /\ MarkInv
=============================================================================
