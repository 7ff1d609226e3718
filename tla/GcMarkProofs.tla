---------------------------- MODULE GcMarkProofs ----------------------------
(***************************************************************************)
(* Proofs that GcMark keeps its safety properties for every heap, any      *)
(* number of workers and any number of failed allocations.                 *)
(***************************************************************************)
EXTENDS GcMarkInvariant, FiniteSetTheorems, SequenceTheorems, TLAPS

(* Facts about the operators. *)

\* What trace() follows are objects.
LEMMA ChildrenType ==
    ASSUME TypeOK, NEW x \in Obj PROVE Children(x) \subseteq Obj
BY DEF TypeOK, MutType, Cell, Children

\* They depend on the pointers and the cells only.
LEMMA ChildrenSame ==
    ASSUME UNCHANGED <<edge, cells>> PROVE \A x : Children(x)' = Children(x)
BY DEF Children

\* With fewer cells there are fewer of them.
LEMMA ChildrenShrink ==
    ASSUME edge' = edge, cells' \subseteq cells
    PROVE \A x : Children(x)' \subseteq Children(x)
BY DEF Children

\* The number of objects in a set of objects is a number.
LEMMA SomeObjects ==
    ASSUME NEW S \in SUBSET Obj PROVE Cardinality(S) \in Nat
BY FS_Subset, FS_CardinalityType, ConstantsAssumption

\* A count of failures stays within its bound.
LEMMA FailType ==
    ASSUME TypeOK, NEW n \in Nat, Fail(n) PROVE fails' \in 0 .. MaxFail
BY ConstantsAssumption DEF TypeOK, Fail

\* What the main marker does when it marks objects.
LEMMA Trace0Type ==
    ASSUME TypeOK, NEW new \in SUBSET Obj, NEW lost \in Nat, Trace0(new, lost)
    PROVE  /\ fails' \in 0 .. MaxFail
           /\ marked' \subseteq Obj /\ stk0' \subseteq Obj /\ over0' \in BOOLEAN
<1>1. PICK dropped \in SUBSET new :
          /\ Fail(Cardinality(dropped) + lost)
          /\ marked' = marked \cup new
          /\ stk0' = stk0 \cup (new \ dropped)
          /\ over0' = (over0 \/ dropped # {})
  BY DEF Trace0
<1>2. Cardinality(dropped) + lost \in Nat
  BY SomeObjects
<1>3. fails' \in 0 .. MaxFail
  BY <1>1, <1>2, FailType
<1> QED BY <1>1, <1>3 DEF TypeOK, SerType

-----------------------------------------------------------------------------
(* Types. *)

\* The program's part of the state changes in a few actions only.
LEMMA MutFrame == ASSUME MutType, UNCHANGED mutVars PROVE MutType'
BY DEF MutType, mutVars

\* So does the main marker's part, ...
LEMMA SerFrame == ASSUME SerType, UNCHANGED serVars PROVE SerType'
BY DEF SerType, serVars

\* ... the part that the workers share ...
LEMMA ParFrame == ASSUME ParType, UNCHANGED parVars PROVE ParType'
BY DEF ParType, parVars

\* ... and each worker's own.
LEMMA WrkFrame == ASSUME WrkType, UNCHANGED wrkVars PROVE WrkType'
BY DEF WrkType, wrkVars

\* The first state has its type.
LEMMA TypeInit == Init => TypeOK
<1> SUFFICES ASSUME Init PROVE TypeOK OBVIOUS
<1>1. MutType BY ConstantsAssumption DEF Init, MutType, Entry, Cell
<1>2. SerType BY DEF Init, SerType, Stages
<1>3. ParType
  <2>1. pool \in Seq(SUBSET Obj) BY DEF Init
  <2>2. done \in BOOLEAN /\ poverflow \in BOOLEAN BY DEF Init
  <2>3. cap \in Nat /\ nstarted \in Nat /\ nidle \in Nat BY DEF Init
  <2> QED BY <2>1, <2>2, <2>3 DEF ParType
<1>4. WrkType BY DEF Init, WrkType, PCs
<1>5. marked \subseteq Obj /\ fails \in 0 .. MaxFail BY ConstantsAssumption DEF Init
<1> QED BY <1>1, <1>2, <1>3, <1>4, <1>5 DEF TypeOK

\* The steps of the program keep the types.
LEMMA TypeProgram ==
    ASSUME TypeOK, NEW r \in Obj, Unroot(r) \/ FinregJob(r) PROVE TypeOK'
<1> USE DEF TypeOK
<1>1. CASE Unroot(r)
  <2>1. MutType' BY <1>1 DEF Unroot, MutType
  <2> QED BY <1>1, <2>1, SerFrame, ParFrame, WrkFrame DEF Unroot
<1>2. CASE FinregJob(r)
  <2>1. MutType' BY <1>2 DEF FinregJob, MutType
  <2> QED BY <1>2, <2>1, SerFrame, ParFrame, WrkFrame DEF FinregJob
<1> QED BY <1>1, <1>2

\* The steps of the collecting thread keep the types.
LEMMA TypeSerial == ASSUME TypeOK, Serial PROVE TypeOK'
<1>0. MutType /\ SerType /\ ParType /\ WrkType /\ marked \subseteq Obj /\ fails \in 0 .. MaxFail
  BY DEF TypeOK
<1>1. CASE Collect
  <2>1. RootSet \subseteq Obj BY <1>0 DEF MutType, RootSet
  <2>2. PICK dropped \in SUBSET RootSet :
            /\ Fail(Cardinality(dropped))
            /\ marked' = marked \cup RootSet
            /\ stk0' = RootSet \ dropped
            /\ over0' = (dropped # {})
    BY <1>1 DEF Collect
  <2>3. fails' \in 0 .. MaxFail BY <2>1, <2>2, SomeObjects, FailType
  <2>4. SerType' BY <1>0, <1>1, <2>1, <2>2 DEF Collect, SerType, Stages
  <2> QED BY <1>0, <1>1, <2>1, <2>2, <2>3, <2>4, MutFrame, ParFrame, WrkFrame DEF Collect, TypeOK
<1>2. CASE ParDrain
  <2>1. PICK p \in [1 .. Chunks(Cardinality(stk0)) -> SUBSET stk0] : pool' = p
    BY <1>2 DEF ParDrain
  <2>2. Chunks(Cardinality(stk0)) \in Nat
    BY <1>0, SomeObjects, ConstantsAssumption DEF SerType, Chunks
  <2>3. pool' \in Seq(SUBSET Obj) BY <1>0, <2>1, <2>2 DEF SerType
  <2>4. ParType'
    <3>1. done' \in BOOLEAN /\ poverflow' \in BOOLEAN BY <1>2 DEF ParDrain
    <3>2. cap' \in Nat /\ nstarted' \in Nat /\ nidle' \in Nat
      BY <1>2, <2>2, ConstantsAssumption DEF ParDrain
    <3> QED BY <2>3, <3>1, <3>2 DEF ParType
  <2>5. SerType' BY <1>0, <1>2 DEF ParDrain, SerType, Stages
  <2>6. WrkType' BY <1>0, <1>2 DEF ParDrain, WrkType, PCs
  <2> QED BY <1>0, <1>2, <2>4, <2>5, <2>6, MutFrame DEF ParDrain, TypeOK
<1>3. CASE Alone \/ Join \/ Rescan \/ Ephemerons
  <2>1. SerType'
    BY <1>0, <1>3 DEF Alone, Join, Rescan, Ephemerons, SerType, MutType, Stages
  <2> QED BY <1>0, <1>3, <2>1, MutFrame, ParFrame, WrkFrame DEF Alone, Join, Rescan, Ephemerons, TypeOK
<1>4. CASE DrainOne
  <2>1. PICK x \in stk0 : \E dropped \in SUBSET (Children(x) \ marked) :
            /\ Fail(Cardinality(dropped))
            /\ marked' = marked \cup Children(x)
            /\ stk0' = (stk0 \ {x}) \cup (Children(x) \ (marked \cup dropped))
            /\ over0' = (over0 \/ dropped # {})
    BY <1>4 DEF DrainOne
  <2>2. Children(x) \subseteq Obj BY <1>0, ChildrenType DEF SerType
  <2>3. PICK dropped \in SUBSET Obj :
            /\ Fail(Cardinality(dropped))
            /\ marked' = marked \cup Children(x)
            /\ stk0' = (stk0 \ {x}) \cup (Children(x) \ (marked \cup dropped))
            /\ over0' = (over0 \/ dropped # {})
    BY <2>1, <2>2
  <2>4. fails' \in 0 .. MaxFail BY <2>3, SomeObjects, FailType
  <2>5. SerType' BY <1>0, <1>4, <2>2, <2>3 DEF DrainOne, SerType
  <2> QED BY <1>0, <1>4, <2>2, <2>3, <2>4, <2>5, MutFrame, ParFrame, WrkFrame DEF DrainOne, TypeOK
<1>5. CASE RescanOne
  <2>1. PICK x \in rest :
            /\ rest' = rest \ {x}
            /\ \/ Trace0(Children(x) \ marked, 0)
               \/ UNCHANGED <<marked, stk0, over0, fails>>
    BY <1>5 DEF RescanOne
  <2>2. Children(x) \ marked \in SUBSET Obj BY <1>0, ChildrenType DEF SerType
  <2>3. /\ fails' \in 0 .. MaxFail
        /\ marked' \subseteq Obj /\ stk0' \subseteq Obj /\ over0' \in BOOLEAN
    BY <1>0, <2>1, <2>2, Trace0Type DEF SerType
  <2>4. SerType' BY <1>0, <1>5, <2>1, <2>3 DEF RescanOne, SerType
  <2> QED BY <1>0, <1>5, <2>3, <2>4, MutFrame, ParFrame, WrkFrame DEF RescanOne, TypeOK
<1>6. CASE EphemeronOne
  <2>1. PICK e \in visit :
            /\ visit' = visit \ {e}
            /\ \/ Trace0({e.value}, 0) /\ more' = TRUE
               \/ UNCHANGED <<marked, stk0, over0, fails, more>>
    BY <1>6 DEF EphemeronOne
  <2>2. {e.value} \in SUBSET Obj BY <1>0 DEF SerType, Entry
  <2>3. /\ fails' \in 0 .. MaxFail
        /\ marked' \subseteq Obj /\ stk0' \subseteq Obj /\ over0' \in BOOLEAN /\ more' \in BOOLEAN
    BY <1>0, <2>1, <2>2, Trace0Type DEF SerType
  <2>4. SerType' BY <1>0, <1>6, <2>1, <2>3 DEF EphemeronOne, SerType
  <2> QED BY <1>0, <1>6, <2>3, <2>4, MutFrame, ParFrame, WrkFrame DEF EphemeronOne, TypeOK
<1>7. CASE Finregs
  <2>1. DeadCells \subseteq cells BY DEF DeadCells
  <2>2. {c.reg : c \in DeadCells} \subseteq Obj /\ {c.held : c \in DeadCells} \ marked \in SUBSET Obj
    BY <1>0, <2>1 DEF MutType, Cell
  <2>3. PICK unqueued \in SUBSET Obj :
            /\ jobs' = [r \in Obj |-> IF r \in {c.reg : c \in DeadCells} \ unqueued
                                     THEN jobs[r] + 1 ELSE jobs[r]]
            /\ Trace0({c.held : c \in DeadCells} \ marked, Cardinality(unqueued))
    BY <1>7, <2>2 DEF Finregs
  <2>4. Cardinality(unqueued) \in Nat BY SomeObjects
  <2>5. /\ fails' \in 0 .. MaxFail
        /\ marked' \subseteq Obj /\ stk0' \subseteq Obj /\ over0' \in BOOLEAN
    BY <2>2, <2>3, <2>4, Trace0Type
  <2>6. SerType' BY <1>0, <1>7, <2>5 DEF Finregs, SerType, Stages
  <2>7. MutType' BY <1>0, <1>7, <2>1, <2>2, <2>3 DEF Finregs, MutType
  <2> QED BY <1>0, <1>7, <2>5, <2>6, <2>7, ParFrame, WrkFrame DEF Finregs, TypeOK
<1>8. CASE Sweep
  <2>1. MutType' BY <1>0, <1>8 DEF Sweep, MutType, LiveEntries
  <2>2. SerType' BY <1>0, <1>8 DEF Sweep, SerType, Stages
  <2> QED BY <1>0, <1>8, <2>1, <2>2, ParFrame, WrkFrame DEF Sweep, TypeOK
<1> QED BY <1>1, <1>2, <1>3, <1>4, <1>5, <1>6, <1>7, <1>8 DEF Serial

\* A worker that takes a chunk keeps the types.
LEMMA TakeType ==
    ASSUME TypeOK, NEW w \in Worker, pool # <<>>, Take(w)
    PROVE  /\ pool' \in Seq(SUBSET Obj)
           /\ stk' \in [Worker -> SUBSET Obj]
           /\ over' \in [Worker -> BOOLEAN]
           /\ fails' \in 0 .. MaxFail
<1>0. ParType /\ WrkType /\ fails \in 0 .. MaxFail BY DEF TypeOK
<1>1. Len(pool) \in Nat /\ Len(pool) > 0 /\ pool[Len(pool)] \subseteq Obj BY <1>0 DEF ParType
<1>2. pool' \in Seq(SUBSET Obj) BY <1>0, <1>1 DEF Take, ParType
<1>3. CASE stk' = [stk EXCEPT ![w] = @ \cup pool[Len(pool)]] /\ UNCHANGED <<over, fails>>
  BY <1>0, <1>1, <1>2, <1>3 DEF WrkType
<1>4. CASE fails < MaxFail /\ fails' = fails + 1 /\ over' = [over EXCEPT ![w] = TRUE] /\ UNCHANGED stk
  <2>1. fails' \in 0 .. MaxFail BY <1>0, <1>4, ConstantsAssumption
  <2>2. over' \in [Worker -> BOOLEAN] BY <1>0, <1>4 DEF WrkType
  <2> QED BY <1>0, <1>2, <1>4, <2>1, <2>2 DEF WrkType
<1> QED BY <1>3, <1>4 DEF Take

\* The steps of a worker keep the types, given that it counts the idle.
LEMMA TypeWorker ==
    ASSUME TypeOK, NEW w \in Worker, Start(w) \/ WorkerStep(w), nidle = 0 => pc[w] # "grab"
    PROVE  TypeOK'
<1>0. MutType /\ SerType /\ ParType /\ WrkType /\ marked \subseteq Obj /\ fails \in 0 .. MaxFail
  BY DEF TypeOK
<1>1. CASE Start(w)
  <2>1. ParType' BY <1>0, <1>1 DEF Start, ParType
  <2>2. WrkType' BY <1>0, <1>1 DEF Start, WrkType, PCs
  <2> QED BY <1>0, <1>1, <2>1, <2>2, MutFrame, SerFrame DEF Start, TypeOK
<1>2. CASE Pop(w)
  <2>1. PICK x \in stk[w] :
            /\ stk' = [stk EXCEPT ![w] = @ \ {x}]
            /\ todo' = [todo EXCEPT ![w] = Children(x)]
    BY <1>2 DEF Pop
  <2>2. Children(x) \subseteq Obj BY <1>0, ChildrenType DEF WrkType
  <2>3. WrkType' BY <1>0, <1>2, <2>1, <2>2 DEF Pop, WrkType, PCs
  <2> QED BY <1>0, <1>2, <2>3, MutFrame, SerFrame, ParFrame DEF Pop, TypeOK
<1>3. CASE Look(w)
  <2>1. WrkType' BY <1>0, <1>3 DEF Look, WrkType, PCs
  <2> QED BY <1>0, <1>3, <2>1, MutFrame, SerFrame, ParFrame DEF Look, TypeOK
<1>4. CASE Mark(w)
  <2>1. saw[w] \subseteq Obj BY <1>0 DEF WrkType
  <2>2. fails' \in 0 .. MaxFail BY <1>0, <1>4, ConstantsAssumption DEF Mark
  <2>3. over' \in [Worker -> BOOLEAN] BY <1>0, <1>4 DEF Mark, WrkType
  <2>4. WrkType' BY <1>0, <1>4, <2>1, <2>3 DEF Mark, WrkType, PCs
  <2> QED BY <1>0, <1>4, <2>1, <2>2, <2>4, MutFrame, SerFrame, ParFrame DEF Mark, TypeOK
<1>5. CASE Traced(w)
  <2>1. WrkType' BY <1>0, <1>5 DEF Traced, WrkType, PCs
  <2> QED BY <1>0, <1>5, <2>1, MutFrame, SerFrame, ParFrame DEF Traced, TypeOK
<1>6. CASE Share(w)
  <2>1. pool' \in Seq(SUBSET Obj) /\ stk' \in [Worker -> SUBSET Obj]
    <3>1. CASE UNCHANGED <<pool, stk>> BY <1>0, <3>1 DEF ParType, WrkType
    <3>2. ASSUME NEW s \in SUBSET stk[w], pool' = Append(pool, s), stk' = [stk EXCEPT ![w] = @ \ s]
          PROVE  pool' \in Seq(SUBSET Obj) /\ stk' \in [Worker -> SUBSET Obj]
      <4>1. s \in SUBSET Obj BY <1>0 DEF WrkType
      <4>2. pool' \in Seq(SUBSET Obj) BY <1>0, <3>2, <4>1 DEF ParType
      <4>3. stk' \in [Worker -> SUBSET Obj] BY <1>0, <3>2 DEF WrkType
      <4> QED BY <4>2, <4>3
    <3> QED BY <1>6, <3>1, <3>2 DEF Share
  <2>2. ParType' BY <1>0, <1>6, <2>1 DEF Share, ParType
  <2>3. WrkType' BY <1>0, <1>6, <2>1 DEF Share, WrkType, PCs
  <2> QED BY <1>0, <1>6, <2>2, <2>3, MutFrame, SerFrame DEF Share, TypeOK
<1>7. CASE Rest(w)
  <2>1. CASE pool # <<>> /\ Take(w) /\ UNCHANGED <<pc, nidle, done>>
    <3>1. ParType' BY <1>0, <1>7, <2>1, TakeType DEF Rest, ParType
    <3>2. WrkType' BY <1>0, <1>7, <2>1, TakeType DEF Rest, WrkType
    <3> QED BY <1>0, <1>7, <2>1, <3>1, <3>2, TakeType, MutFrame, SerFrame DEF Rest, TypeOK
  <2>2. CASE /\ nidle' = nidle + 1
             /\ done' = (done \/ nidle + 1 = nstarted)
             /\ pc' = [pc EXCEPT ![w] = "idle"]
             /\ UNCHANGED <<pool, stk, over, fails>>
    <3>1. ParType' BY <1>0, <1>7, <2>2 DEF Rest, ParType
    <3>2. WrkType' BY <1>0, <1>7, <2>2 DEF Rest, WrkType, PCs
    <3> QED BY <1>0, <1>7, <2>2, <3>1, <3>2, MutFrame, SerFrame DEF Rest, TypeOK
  <2> QED BY <1>7, <2>1, <2>2 DEF Rest
<1>8. CASE Wake(w)
  <2>1. WrkType' BY <1>0, <1>8 DEF Wake, WrkType, PCs
  <2> QED BY <1>0, <1>8, <2>1, MutFrame, SerFrame, ParFrame DEF Wake, TypeOK
<1>9. CASE Grab(w)
  <2>1. CASE pool # <<>> /\ nidle' = nidle - 1 /\ Take(w) /\ pc' = [pc EXCEPT ![w] = "scan"]
    <3>1. nidle' \in Nat BY <1>0, <1>9, <2>1 DEF Grab, ParType
    <3>2. ParType' BY <1>0, <1>9, <2>1, <3>1, TakeType DEF Grab, ParType
    <3>3. WrkType' BY <1>0, <1>9, <2>1, TakeType DEF Grab, WrkType, PCs
    <3> QED BY <1>0, <1>9, <2>1, <3>2, <3>3, TakeType, MutFrame, SerFrame DEF Grab, TypeOK
  <2>2. CASE pc' = [pc EXCEPT ![w] = "idle"] /\ UNCHANGED <<nidle, pool, stk, over, fails>>
    <3>1. ParType' BY <1>0, <1>9, <2>2 DEF Grab, ParType
    <3>2. WrkType' BY <1>0, <1>9, <2>2 DEF Grab, WrkType, PCs
    <3> QED BY <1>0, <1>9, <2>2, <3>1, <3>2, MutFrame, SerFrame DEF Grab, TypeOK
  <2> QED BY <1>9, <2>1, <2>2 DEF Grab
<1>10. CASE Leave(w)
  <2>1. over[w] \in BOOLEAN BY <1>0 DEF WrkType
  <2>2. ParType' BY <1>0, <1>10, <2>1 DEF Leave, ParType
  <2>3. WrkType' BY <1>0, <1>10 DEF Leave, WrkType, PCs
  <2> QED BY <1>0, <1>10, <2>2, <2>3, MutFrame, SerFrame DEF Leave, TypeOK
<1> QED BY <1>1, <1>2, <1>3, <1>4, <1>5, <1>6, <1>7, <1>8, <1>9, <1>10 DEF WorkerStep

-----------------------------------------------------------------------------
(* The workers among themselves. *)

\* The workers that started or idle are finitely many.
LEMMA FiniteWorkers ==
    /\ IsFiniteSet(Started) /\ Cardinality(Started) \in Nat
    /\ IsFiniteSet(Idle) /\ Cardinality(Idle) \in Nat
    /\ Idle \subseteq Worker /\ Started \subseteq Worker
<1>1. Started \in SUBSET Worker /\ Idle \in SUBSET Worker BY DEF Started, Idle
<1> QED BY <1>1, FS_Subset, FS_CardinalityType, ConstantsAssumption

\* A worker that grabs a chunk is counted as idle.
LEMMA GrabCounted ==
    ASSUME TypeOK, CountInv, NEW w \in Worker, stage = "par", pc[w] = "grab" PROVE nidle # 0
<1>1. w \in Idle BY DEF Idle
<1> QED BY <1>1, FiniteWorkers, FS_EmptySet DEF CountInv

\* A worker's locals follow its program counter.
LEMMA LocalsWorker ==
    ASSUME TypeOK, WorkersInv, NEW w \in Worker, Start(w) \/ WorkerStep(w) PROVE LocalsInv'
<1>0. WrkType /\ LocalsInv /\ PhaseInv BY DEF TypeOK, WorkersInv
<1> USE DEF LocalsInv, WrkType
<1>1. CASE Start(w) BY <1>0, <1>1 DEF Start
<1>2. CASE Pop(w) BY <1>0, <1>2 DEF Pop
<1>3. CASE Look(w) BY <1>0, <1>3 DEF Look
<1>4. CASE Mark(w)
  <2>1. /\ todo' = [todo EXCEPT ![w] = @ \ saw[w]] /\ saw' = [saw EXCEPT ![w] = {}]
        /\ pc' = [pc EXCEPT ![w] = "trace"] /\ \A v \in Worker \ {w} : stk'[v] = stk[v]
    BY <1>0, <1>4 DEF Mark
  <2> QED BY <1>0, <2>1
<1>5. CASE Traced(w) BY <1>0, <1>5 DEF Traced
<1>6. CASE Share(w)
  <2>1. /\ pc' = [pc EXCEPT ![w] = "scan"] /\ UNCHANGED <<todo, saw>>
        /\ \A v \in Worker \ {w} : stk'[v] = stk[v]
    BY <1>0, <1>6 DEF Share
  <2>2. todo[w] = {} BY <1>0, <1>6 DEF Share
  <2> QED BY <1>0, <2>1, <2>2
<1>7. CASE Rest(w)
  <2>1. /\ UNCHANGED <<todo, saw>> /\ \A v \in Worker \ {w} : stk'[v] = stk[v]
        /\ \/ UNCHANGED pc
           \/ pc' = [pc EXCEPT ![w] = "idle"] /\ UNCHANGED stk
    BY <1>0, <1>7 DEF Rest, Take
  <2> QED BY <1>0, <1>7, <2>1 DEF Rest
<1>8. CASE Wake(w) BY <1>0, <1>8 DEF Wake
<1>9. CASE Grab(w)
  <2>1. /\ UNCHANGED <<todo, saw>> /\ \A v \in Worker \ {w} : stk'[v] = stk[v]
        /\ \/ pc' = [pc EXCEPT ![w] = "scan"]
           \/ pc' = [pc EXCEPT ![w] = "idle"] /\ UNCHANGED stk
    BY <1>0, <1>9 DEF Grab, Take
  <2> QED BY <1>0, <1>9, <2>1 DEF Grab
<1>10. CASE Leave(w) BY <1>0, <1>10 DEF Leave
<1> QED BY <1>1, <1>2, <1>3, <1>4, <1>5, <1>6, <1>7, <1>8, <1>9, <1>10 DEF WorkerStep

\* nstarted and nidle count.
LEMMA CountWorker ==
    ASSUME TypeOK, WorkersInv, NEW w \in Worker, Start(w) \/ WorkerStep(w) PROVE CountInv'
<1>0. ParType /\ WrkType /\ LocalsInv /\ CountInv BY DEF TypeOK, WorkersInv
<1>p. stage = "par" BY DEF Start, WorkerStep, Pop, Look, Mark, Traced, Share, Rest, Wake, Grab, Leave
<1>c. /\ nstarted = Cardinality(Started) /\ nidle = Cardinality(Idle)
      /\ \A v \in Worker : pc[v] = "left" => done /\ (over[v] => poverflow)
  BY <1>0, <1>p DEF CountInv
<1>1. CASE Start(w)
  <2>1. Started' = Started \cup {w} /\ w \notin Started /\ Idle' = Idle
    BY <1>0, <1>1 DEF Start, Started, Idle, WrkType
  <2>2. Cardinality(Started') = Cardinality(Started) + 1
    BY <2>1, FiniteWorkers, FS_AddElement
  <2>3. \A v \in Worker : pc'[v] = "left" => done' /\ (over'[v] => poverflow')
    BY <1>0, <1>1, <1>c DEF Start, WrkType
  <2> QED BY <1>1, <1>c, <2>1, <2>2, <2>3 DEF Start, CountInv
<1>2. CASE Pop(w) \/ Look(w) \/ Mark(w) \/ Traced(w) \/ Share(w) \/ Wake(w)
  <2>1. /\ \A v \in Worker \ {w} : pc'[v] = pc[v] /\ over'[v] = over[v]
        /\ pc'[w] # "left" /\ pc[w] # "off" /\ pc'[w] # "off"
        /\ pc[w] \in {"idle", "grab", "left"} <=> pc'[w] \in {"idle", "grab", "left"}
        /\ UNCHANGED <<nstarted, nidle, done, poverflow>>
    <3>1. CASE Pop(w) BY <1>0, <3>1 DEF Pop, parVars, WrkType
    <3>2. CASE Look(w) BY <1>0, <3>2 DEF Look, parVars, WrkType
    <3>3. CASE Mark(w) BY <1>0, <3>3 DEF Mark, parVars, WrkType
    <3>4. CASE Traced(w) BY <1>0, <3>4 DEF Traced, parVars, WrkType
    <3>5. CASE Share(w) BY <1>0, <3>5 DEF Share, WrkType
    <3>6. CASE Wake(w) BY <1>0, <3>6 DEF Wake, parVars, WrkType
    <3> QED BY <1>2, <3>1, <3>2, <3>3, <3>4, <3>5, <3>6
  <2>2. Started' = Started /\ Idle' = Idle BY <2>1 DEF Started, Idle
  <2> QED BY <1>c, <2>1, <2>2 DEF CountInv
<1>3. CASE Rest(w)
  <2>1. CASE UNCHANGED <<pc, nidle, done>>
    <3>1. \A v \in Worker \ {w} : over'[v] = over[v] BY <1>0, <1>3 DEF Rest, Take, WrkType
    <3>2. pc'[w] # "left" BY <1>0, <1>3, <2>1 DEF Rest, WrkType
    <3>3. Started' = Started /\ Idle' = Idle BY <2>1 DEF Started, Idle
    <3> QED BY <1>3, <1>c, <2>1, <3>1, <3>2, <3>3 DEF Rest, CountInv
  <2>2. CASE nidle' = nidle + 1 /\ pc' = [pc EXCEPT ![w] = "idle"]
             /\ done' = (done \/ nidle + 1 = nstarted) /\ UNCHANGED over
    <3>1. Idle' = Idle \cup {w} /\ w \notin Idle /\ Started' = Started
      BY <1>0, <1>3, <2>2 DEF Rest, Started, Idle, WrkType
    <3>2. Cardinality(Idle') = Cardinality(Idle) + 1
      BY <3>1, FiniteWorkers, FS_AddElement
    <3>3. \A v \in Worker : pc'[v] = "left" => done' /\ (over'[v] => poverflow')
      BY <1>0, <1>3, <1>c, <2>2 DEF Rest, WrkType
    <3> QED BY <1>3, <1>c, <2>2, <3>1, <3>2, <3>3 DEF Rest, CountInv
  <2> QED BY <1>3, <2>1, <2>2 DEF Rest
<1>4. CASE Grab(w)
  <2>1. \A v \in Worker \ {w} : over'[v] = over[v] /\ pc'[v] = pc[v]
    BY <1>0, <1>4 DEF Grab, Take, WrkType
  <2>2. \A v \in Worker : pc'[v] = "left" => done' /\ (over'[v] => poverflow')
    BY <1>0, <1>4, <1>c, <2>1 DEF Grab, WrkType
  <2>3. CASE nidle' = nidle - 1 /\ pc' = [pc EXCEPT ![w] = "scan"]
    <3>1. Idle' = Idle \ {w} /\ w \in Idle /\ Started' = Started
      BY <1>0, <1>4, <2>3 DEF Grab, Started, Idle, WrkType
    <3>2. Cardinality(Idle') = Cardinality(Idle) - 1
      BY <3>1, FiniteWorkers, FS_RemoveElement
    <3> QED BY <1>4, <1>c, <2>2, <2>3, <3>1, <3>2 DEF Grab, CountInv
  <2>4. CASE nidle' = nidle /\ pc' = [pc EXCEPT ![w] = "idle"]
    <3>1. Idle' = Idle /\ Started' = Started
      BY <1>0, <1>4, <2>4 DEF Grab, Started, Idle, WrkType
    <3> QED BY <1>4, <1>c, <2>2, <2>4, <3>1 DEF Grab, CountInv
  <2> QED BY <1>4, <2>3, <2>4 DEF Grab
<1>5. CASE Leave(w)
  <2>1. Idle' = Idle /\ Started' = Started BY <1>0, <1>5 DEF Leave, Started, Idle, WrkType
  <2>2. \A v \in Worker : pc'[v] = "left" => done' /\ (over'[v] => poverflow')
    BY <1>0, <1>5, <1>c DEF Leave, WrkType
  <2> QED BY <1>5, <1>c, <2>1, <2>2 DEF Leave, CountInv
<1> QED BY <1>1, <1>2, <1>3, <1>4, <1>5 DEF WorkerStep

\* The last worker to rest finds that all who started idle.
LEMMA AllIdle ==
    ASSUME TypeOK, WorkersInv, NEW w \in Worker, Rest(w), nidle + 1 = nstarted
    PROVE  \A v \in Worker : pc[v] = "off" \/ v \in Idle \/ v = w
<1>0. WrkType /\ CountInv BY DEF TypeOK, WorkersInv
<1>1. w \notin Idle /\ w \in Started /\ Idle \subseteq Started
  BY <1>0 DEF Rest, Idle, Started, WrkType
<1>c. nstarted = Cardinality(Started) /\ nidle = Cardinality(Idle) BY <1>0 DEF CountInv, Rest
<1>a. Cardinality(Idle \cup {w}) = Cardinality(Idle) + 1 BY <1>1, FiniteWorkers, FS_AddElement
<1>2. Cardinality(Idle \cup {w}) = Cardinality(Started) BY <1>c, <1>a
<1>3. Idle \cup {w} \in SUBSET Started BY <1>1
<1>4. Idle \cup {w} = Started BY <1>2, <1>3, FiniteWorkers, FS_Subset
<1> QED BY <1>4 DEF Started

\* After done there is nothing more to trace.
LEMMA DoneWorker ==
    ASSUME TypeOK, WorkersInv, NEW w \in Worker, Start(w) \/ WorkerStep(w) PROVE DoneIsQuiet'
<1>0. WrkType /\ LocalsInv /\ DoneIsQuiet BY DEF TypeOK, WorkersInv
<1>1. CASE ~done /\ done'
  <2>1. Rest(w) /\ pool = <<>> /\ nidle + 1 = nstarted /\ pc' = [pc EXCEPT ![w] = "idle"]
        /\ UNCHANGED <<pool, stk, todo>>
    BY <1>1 DEF Start, WorkerStep, Pop, Look, Mark, Traced, Share, Rest, Wake, Grab, Leave, parVars
  <2>2. \A v \in Worker : pc[v] = "off" \/ v \in Idle \/ v = w
    BY <2>1, AllIdle
  <2>3. \A v \in Worker : stk[v] = {} /\ todo[v] = {}
    BY <1>0, <2>1, <2>2 DEF LocalsInv, Idle, Rest
  <2> QED BY <1>0, <2>1, <2>2, <2>3 DEF DoneIsQuiet, Idle, WrkType
<1>2. CASE done
  <2>1. pool = <<>> /\ \A v \in Worker :
            stk[v] = {} /\ todo[v] = {} /\ pc[v] \in {"off", "scan", "idle", "grab", "left"}
    BY <1>0, <1>2 DEF DoneIsQuiet
  <2>2. ~Pop(w) /\ ~Look(w) /\ ~Mark(w) /\ ~Traced(w) /\ ~Share(w) /\ ~Wake(w)
    BY <2>1 DEF Pop, Look, Mark, Traced, Share, Wake
  <2>3. CASE Start(w) BY <1>0, <2>1, <2>3 DEF Start, DoneIsQuiet, WrkType
  <2>4. CASE Rest(w) BY <1>0, <2>1, <2>4 DEF Rest, DoneIsQuiet, WrkType
  <2>5. CASE Grab(w) BY <1>0, <2>1, <2>5 DEF Grab, DoneIsQuiet, WrkType
  <2>6. CASE Leave(w) BY <1>0, <2>1, <2>6 DEF Leave, DoneIsQuiet, WrkType
  <2> QED BY <2>2, <2>3, <2>4, <2>5, <2>6 DEF WorkerStep
<1>3. CASE ~done' BY <1>3 DEF DoneIsQuiet
<1> QED BY <1>1, <1>2, <1>3

\* All of it, for a step of a worker.
LEMMA WorkersWorker ==
    ASSUME TypeOK, WorkersInv, NEW w \in Worker, Start(w) \/ WorkerStep(w)
    PROVE  TypeOK' /\ WorkersInv'
<1>1. stage = "par" /\ UNCHANGED serVars
  BY DEF Start, WorkerStep, Pop, Look, Mark, Traced, Share, Rest, Wake, Grab, Leave
<1>2. PhaseInv' BY <1>1 DEF WorkersInv, PhaseInv, serVars
<1>3. TypeOK' BY <1>1, TypeWorker, GrabCounted DEF WorkersInv
<1> QED BY <1>2, <1>3, LocalsWorker, CountWorker, DoneWorker DEF WorkersInv

\* The collecting thread and the program leave the workers alone, but for the
\* start of a parallel phase.
LEMMA WorkersSerial == ASSUME TypeOK, WorkersInv, Serial PROVE WorkersInv'
<1>0. WrkType /\ SerType /\ LocalsInv /\ CountInv /\ DoneIsQuiet /\ PhaseInv
  BY DEF TypeOK, WorkersInv
<1>1. CASE ParDrain
  <2>1. /\ stage = "roots" /\ stage' = "par" /\ stk0' = {} /\ done' = FALSE
        /\ nstarted' = 0 /\ nidle' = 0 /\ UNCHANGED <<rest, visit, todo, saw>>
        /\ \A w \in Worker : pc'[w] = "off" /\ stk'[w] = {}
    BY <1>1 DEF ParDrain
  <2>2. Started' = {} /\ Idle' = {} BY <2>1 DEF Started, Idle
  <2>3. CountInv' BY <2>1, <2>2, FS_EmptySet DEF CountInv
  <2>4. LocalsInv' BY <1>0, <2>1 DEF LocalsInv, PhaseInv
  <2>5. PhaseInv' BY <1>0, <2>1 DEF PhaseInv
  <2>6. DoneIsQuiet' BY <2>1 DEF DoneIsQuiet
  <2> QED BY <2>3, <2>4, <2>5, <2>6 DEF WorkersInv
<1>2. CASE ~ParDrain
  <2>1. UNCHANGED parVars /\ UNCHANGED wrkVars /\ stage' # "par"
    BY <1>0, <1>2 DEF Serial, Collect, Alone, Join, DrainOne, Rescan, RescanOne, Ephemerons,
                EphemeronOne, Finregs, Sweep, Draining, Drained, PhaseInv, Stages
  <2>2. LocalsInv' BY <1>0, <2>1 DEF LocalsInv, wrkVars
  <2>3. CountInv' BY <2>1 DEF CountInv
  <2>4. DoneIsQuiet' BY <1>0, <2>1 DEF DoneIsQuiet, wrkVars, parVars
  <2>5. PhaseInv'
    <3> USE <1>0, <2>1 DEF PhaseInv, parVars, wrkVars
    <3>1. CASE Collect BY <3>1 DEF Collect
    <3>2. CASE Alone BY <3>2 DEF Alone
    <3>3. CASE Join
      <4>1. done BY <3>3, ConstantsAssumption DEF Join, CountInv
      <4>2. pool = <<>> /\ \A w \in Worker : stk[w] = {} /\ todo[w] = {} BY <4>1 DEF DoneIsQuiet
      <4> QED BY <3>3, <4>2 DEF Join
    <3>4. CASE DrainOne BY <3>4 DEF DrainOne, Draining
    <3>5. CASE Rescan BY <3>5 DEF Rescan, Draining
    <3>6. CASE RescanOne BY <3>6 DEF RescanOne, Draining
    <3>7. CASE Ephemerons BY <3>7 DEF Ephemerons, mutVars
    <3>8. CASE EphemeronOne BY <3>8 DEF EphemeronOne, mutVars
    <3>9. CASE Finregs BY <3>9 DEF Finregs, Drained, Draining
    <3>10. CASE Sweep BY <3>10 DEF Sweep, Drained, Draining
    <3> QED BY <1>2, <3>1, <3>2, <3>3, <3>4, <3>5, <3>6, <3>7, <3>8, <3>9, <3>10 DEF Serial
  <2> QED BY <2>2, <2>3, <2>4, <2>5 DEF WorkersInv
<1> QED BY <1>1, <1>2

\* Neither does the program between collections, nor a stutter.
LEMMA WorkersFrame ==
    ASSUME WorkersInv, UNCHANGED <<eph, serVars, parVars, wrkVars, marked>> PROVE WorkersInv'
<1> USE DEF serVars, parVars, wrkVars
<1>1. LocalsInv' BY DEF WorkersInv, LocalsInv
<1>2. CountInv' BY DEF WorkersInv, CountInv, Started, Idle
<1>3. DoneIsQuiet' BY DEF WorkersInv, DoneIsQuiet
<1>4. PhaseInv' BY DEF WorkersInv, PhaseInv
<1> QED BY <1>1, <1>2, <1>3, <1>4 DEF WorkersInv

-----------------------------------------------------------------------------
(* Marks. *)

\* What the main marker marks it pushes, or it owes a rescan.
LEMMA Trace0Facts ==
    ASSUME NEW new, NEW lost, Trace0(new, lost)
    PROVE  /\ marked' = marked \cup new
           /\ stk0 \subseteq stk0' /\ stk0' \subseteq stk0 \cup new
           /\ over0 => over0'
           /\ \A x \in new : x \in stk0' \/ over0'
           /\ new = {} => stk0' = stk0 /\ (over0' <=> over0)
<1>1. PICK dropped \in SUBSET new :
          /\ marked' = marked \cup new
          /\ stk0' = stk0 \cup (new \ dropped)
          /\ over0' = (over0 \/ dropped # {})
  BY DEF Trace0
<1> QED BY <1>1

\* What a closed set is depends on the program's part of the state only.
LEMMA ClosedSame ==
    ASSUME UNCHANGED <<edge, cells, eph, roots, jobs>>, NEW S PROVE Closed(S)' <=> Closed(S)
BY ChildrenSame DEF Closed, RootSet

\* Everything that is marked is in the heap.
LEMMA MarkedInHeap ==
    ASSUME TypeOK, SoundInv, Closed(heap)
    PROVE  marked \subseteq heap /\ \A w \in Worker : todo[w] \subseteq heap
BY DEF TypeOK, MutType, SoundInv

\* What the steps of a worker leave alone.
LEMMA WorkerFrame ==
    ASSUME NEW w \in Worker, Start(w) \/ WorkerStep(w)
    PROVE  stage = "par" /\ UNCHANGED mutVars /\ UNCHANGED serVars
BY DEF Start, WorkerStep, Pop, Look, Mark, Traced, Share, Rest, Wake, Grab, Leave

\* The pool without its newest chunk.
LEMMA NewestTaken ==
    ASSUME NEW S, NEW s \in Seq(S), s # <<>>, NEW t, t = SubSeq(s, 1, Len(s) - 1)
    PROVE  Len(t) = Len(s) - 1 /\ \A i \in 1 .. Len(t) : t[i] = s[i]
<1>1. Len(s) \in Nat /\ Len(s) > 0 OBVIOUS
<1>2. PICK n \in Nat : n = Len(s) - 1 BY <1>1
<1>3. 1 \in Int /\ n \in Int /\ \A i \in 1 .. n : s[i] \in S BY <1>1, <1>2
<1>4. /\ Len(SubSeq(s, 1, n)) = IF 1 <= n THEN n - 1 + 1 ELSE 0
      /\ \A i \in 1 .. n - 1 + 1 : SubSeq(s, 1, n)[i] = s[1 + i - 1]
  BY <1>3, SubSeqProperties
<1>5. t = SubSeq(s, 1, n) BY <1>2
<1>6. Len(t) = IF 1 <= n THEN n - 1 + 1 ELSE 0 BY <1>4, <1>5, Zenon
<1>7. \A i \in 1 .. n - 1 + 1 : t[i] = s[1 + i - 1] BY <1>4, <1>5, Zenon
<1>8. Len(t) = n BY <1>6
<1>9. ASSUME NEW i \in 1 .. n PROVE t[i] = s[i]
  <2>1. i \in 1 .. n - 1 + 1 /\ 1 + i - 1 = i OBVIOUS
  <2> QED BY <1>7, <2>1, Zenon
<1> QED BY <1>2, <1>8, <1>9

\* A chunk that is taken was marked.
LEMMA GreyTake ==
    ASSUME TypeOK, GreyInv, NEW w \in Worker, pool # <<>>, Take(w), marked' = marked, stk0' = stk0
    PROVE  GreyInv'
<1>0. ParType /\ WrkType BY DEF TypeOK
<1>1. Len(pool) \in Nat \ {0} BY <1>0 DEF ParType
<1>2. pool[Len(pool)] \subseteq marked BY <1>1 DEF GreyInv
<1>3. Len(pool') = Len(pool) - 1 /\ \A i \in 1 .. Len(pool') : pool'[i] = pool[i]
  <2>1. pool \in Seq(SUBSET Obj) /\ pool' = SubSeq(pool, 1, Len(pool) - 1)
    BY <1>0 DEF Take, ParType
  <2> QED BY <2>1, NewestTaken
<1>4. \A i \in 1 .. Len(pool') : pool'[i] \subseteq marked BY <1>1, <1>3 DEF GreyInv
<1>5. \A v \in Worker : stk'[v] \subseteq marked BY <1>0, <1>2 DEF Take, GreyInv, WrkType
<1> QED BY <1>4, <1>5 DEF GreyInv

\* What waits to be traced stays marked.
LEMMA GreyWorker ==
    ASSUME TypeOK, LocalsInv, GreyInv, NEW w \in Worker, Start(w) \/ WorkerStep(w) PROVE GreyInv'
<1>0. ParType /\ WrkType /\ stk0' = stk0 BY WorkerFrame DEF TypeOK, serVars
<1> USE DEF GreyInv, WrkType
<1>1. CASE Start(w) \/ Look(w) \/ Traced(w) \/ Wake(w) \/ Leave(w)
  BY <1>0, <1>1 DEF Start, Look, Traced, Wake, Leave, parVars
<1>2. CASE Pop(w) BY <1>0, <1>2 DEF Pop, parVars
<1>3. CASE Mark(w)
  <2>1. /\ pool' = pool /\ marked' = marked \cup saw[w]
        /\ stk' = [stk EXCEPT ![w] = @ \cup saw[w]] \/ stk' = stk
    BY <1>3 DEF Mark, parVars
  <2> QED BY <1>0, <2>1
<1>4. CASE Share(w)
  <2>1. CASE UNCHANGED <<pool, stk>> BY <1>0, <1>4, <2>1 DEF Share
  <2>2. ASSUME NEW s \in SUBSET stk[w], pool' = Append(pool, s), stk' = [stk EXCEPT ![w] = @ \ s]
        PROVE  GreyInv'
    <3>1. s \in SUBSET Obj BY <1>0
    <3>2. /\ Len(pool') = Len(pool) + 1 /\ pool'[Len(pool) + 1] = s
          /\ \A i \in 1 .. Len(pool) : pool'[i] = pool[i]
      BY <1>0, <2>2, <3>1 DEF ParType
    <3>3. \A i \in 1 .. Len(pool') : i \in 1 .. Len(pool) \/ i = Len(pool) + 1
      BY <1>0, <3>2 DEF ParType
    <3>4. \A i \in 1 .. Len(pool') : pool'[i] \subseteq marked BY <3>2, <3>3
    <3>5. \A v \in Worker : stk'[v] \subseteq marked BY <1>0, <2>2
    <3> QED BY <1>0, <1>4, <3>4, <3>5 DEF Share
  <2> QED BY <1>4, <2>1, <2>2 DEF Share
<1>5. CASE Rest(w)
  <2>1. CASE pool # <<>> /\ Take(w) BY <1>0, <1>5, <2>1, GreyTake DEF Rest
  <2>2. CASE UNCHANGED <<pool, stk>> BY <1>0, <1>5, <2>2 DEF Rest
  <2> QED BY <1>5, <2>1, <2>2 DEF Rest
<1>6. CASE Grab(w)
  <2>1. CASE pool # <<>> /\ Take(w) BY <1>0, <1>6, <2>1, GreyTake DEF Grab
  <2>2. CASE UNCHANGED <<pool, stk>> BY <1>0, <1>6, <2>2 DEF Grab
  <2> QED BY <1>6, <2>1, <2>2 DEF Grab
<1> QED BY <1>1, <1>2, <1>3, <1>4, <1>5, <1>6 DEF WorkerStep

\* The same for the collecting thread.
LEMMA GreySerial == ASSUME TypeOK, WorkersInv, GreyInv, Serial PROVE GreyInv'
<1>0. SerType /\ PhaseInv BY DEF TypeOK, WorkersInv
<1>1. CASE Collect BY <1>0, <1>1 DEF Collect, GreyInv, PhaseInv, parVars, wrkVars
<1>2. CASE ParDrain
  <2>1. PICK p \in [1 .. Chunks(Cardinality(stk0)) -> SUBSET stk0] : pool' = p
    BY <1>2 DEF ParDrain
  <2>2. Chunks(Cardinality(stk0)) \in Nat
    BY <1>0, SomeObjects, ConstantsAssumption DEF SerType, Chunks
  <2>3. \A i \in 1 .. Len(pool') : pool'[i] \subseteq stk0 BY <2>1, <2>2
  <2> QED BY <1>2, <2>3 DEF ParDrain, GreyInv
<1>3. CASE Alone \/ Join \/ Rescan \/ Ephemerons
  BY <1>3 DEF Alone, Join, Rescan, Ephemerons, GreyInv, parVars, wrkVars
<1>4. CASE DrainOne
  BY <1>4 DEF DrainOne, GreyInv, parVars, wrkVars
<1>5. CASE RescanOne
  <2>1. marked \subseteq marked' /\ stk0' \subseteq marked' /\ UNCHANGED <<pool, stk>>
    BY <1>5, Trace0Facts DEF RescanOne, GreyInv, parVars, wrkVars
  <2> QED BY <2>1 DEF GreyInv
<1>6. CASE EphemeronOne
  <2>1. marked \subseteq marked' /\ stk0' \subseteq marked' /\ UNCHANGED <<pool, stk>>
    BY <1>6, Trace0Facts DEF EphemeronOne, GreyInv, parVars, wrkVars
  <2> QED BY <2>1 DEF GreyInv
<1>7. CASE Finregs
  <2>1. marked \subseteq marked' /\ stk0' \subseteq marked' /\ UNCHANGED <<pool, stk>>
    BY <1>7, Trace0Facts DEF Finregs, GreyInv, parVars, wrkVars
  <2> QED BY <2>1 DEF GreyInv
<1>8. CASE Sweep
  BY <1>0, <1>8 DEF Sweep, Drained, GreyInv, PhaseInv, parVars, wrkVars
<1> QED BY <1>1, <1>2, <1>3, <1>4, <1>5, <1>6, <1>7, <1>8 DEF Serial

\* A step of a worker marks only what the program can get at.
LEMMA SoundWorker ==
    ASSUME TypeOK, LocalsInv, GreyInv, SoundInv, NEW w \in Worker, Start(w) \/ WorkerStep(w)
    PROVE  SoundInv'
<1>0. WrkType /\ UNCHANGED <<edge, cells, eph, roots, jobs>> BY WorkerFrame DEF TypeOK, mutVars
<1> SUFFICES ASSUME NEW S \in SUBSET Obj, Closed(S)
             PROVE  marked' \subseteq S /\ \A v \in Worker : todo'[v] \subseteq S
  BY <1>0, ClosedSame DEF SoundInv
<1>s. marked \subseteq S /\ \A v \in Worker : todo[v] \subseteq S BY DEF SoundInv
<1>1. CASE Pop(w)
  <2>1. PICK x \in stk[w] : todo' = [todo EXCEPT ![w] = Children(x)] BY <1>1 DEF Pop
  <2>2. Children(x) \subseteq S BY <1>s DEF GreyInv, Closed
  <2> QED BY <1>0, <1>1, <1>s, <2>1, <2>2 DEF Pop, WrkType
<1>2. CASE Mark(w) BY <1>0, <1>2, <1>s DEF Mark, LocalsInv, WrkType
<1>3. CASE Look(w) BY <1>0, <1>3, <1>s DEF Look, WrkType
<1>4. CASE Start(w) \/ Traced(w) \/ Share(w) \/ Rest(w) \/ Wake(w) \/ Grab(w) \/ Leave(w)
  BY <1>4, <1>s DEF Start, Traced, Share, Rest, Wake, Grab, Leave
<1> QED BY <1>1, <1>2, <1>3, <1>4 DEF WorkerStep

\* So does a step of the collecting thread.
LEMMA SoundSerial ==
    ASSUME TypeOK, WorkersInv, GreyInv, SoundInv, Serial PROVE SoundInv'
<1>0. MutType /\ SerType /\ PhaseInv BY DEF TypeOK, WorkersInv
<1>1. CASE Sweep
  BY <1>0, <1>1 DEF Sweep, SoundInv, PhaseInv, wrkVars
<1>2. CASE ~Sweep
  <2>1. UNCHANGED <<edge, cells, eph, roots>> /\ RootSet \subseteq RootSet' /\ UNCHANGED todo
    <3>1. CASE Finregs
      <4>1. \A r \in Obj : jobs[r] > 0 => jobs'[r] > 0 BY <1>0, <3>1 DEF Finregs, MutType
      <4> QED BY <3>1, <4>1 DEF Finregs, RootSet, wrkVars
    <3>2. CASE ~Finregs
      BY <1>2, <3>2 DEF Serial, Collect, ParDrain, Alone, Join, DrainOne, Rescan, RescanOne, Ephemerons,
                  EphemeronOne, mutVars, wrkVars, RootSet
    <3> QED BY <3>1, <3>2
  <2> SUFFICES ASSUME NEW S \in SUBSET Obj, Closed(S)' PROVE marked' \subseteq S /\ \A v \in Worker : todo[v] \subseteq S
    BY <2>1 DEF SoundInv
  <2>2. Closed(S) BY <2>1, ChildrenSame DEF Closed
  <2>3. marked \subseteq S /\ \A v \in Worker : todo[v] \subseteq S BY <2>2 DEF SoundInv
  <2>4. CASE Collect BY <2>2, <2>3, <2>4 DEF Collect, Closed
  <2>5. CASE ParDrain \/ Alone \/ Join \/ Rescan \/ Ephemerons
    BY <2>3, <2>5 DEF ParDrain, Alone, Join, Rescan, Ephemerons
  <2>6. CASE DrainOne
    <3>1. PICK x \in stk0 : marked' = marked \cup Children(x) BY <2>6 DEF DrainOne
    <3>2. Children(x) \subseteq S BY <2>2, <2>3 DEF GreyInv, Closed
    <3> QED BY <2>3, <3>1, <3>2
  <2>7. CASE RescanOne
    <3>1. PICK x \in rest : IF x \in marked THEN Trace0(Children(x) \ marked, 0) ELSE marked' = marked
      BY <2>7 DEF RescanOne
    <3>2. x \in marked => Children(x) \subseteq S BY <2>2, <2>3 DEF Closed
    <3> QED BY <2>3, <3>1, <3>2, Trace0Facts
  <2>8. CASE EphemeronOne
    <3>1. PICK e \in visit : IF {e.table, e.key} \subseteq marked /\ e.value \notin marked
                             THEN Trace0({e.value}, 0) ELSE marked' = marked
      BY <2>8 DEF EphemeronOne
    <3>2. {e.table, e.key} \subseteq marked => e.value \in S
      BY <1>0, <2>2, <2>3 DEF PhaseInv, Closed
    <3> QED BY <2>3, <3>1, <3>2, Trace0Facts
  <2>9. CASE Finregs
    <3>1. marked' = marked \cup ({c.held : c \in DeadCells} \ marked) BY <2>9, Trace0Facts DEF Finregs
    <3>2. \A c \in DeadCells : c.held \in Children(c.reg) /\ c.reg \in marked
      BY DEF DeadCells, Children
    <3>3. \A c \in DeadCells : c.held \in S BY <2>2, <2>3, <3>2 DEF Closed
    <3> QED BY <2>3, <3>1, <3>3
  <2> QED BY <1>2, <2>3, <2>4, <2>5, <2>6, <2>7, <2>8, <2>9 DEF Serial
<1> QED BY <1>1, <1>2

\* No pointer of a marked object is forgotten by a worker ...
LEMMA MissedWorker ==
    ASSUME TypeOK, WorkersInv, NothingMissed, NEW w \in Worker, Start(w) \/ WorkerStep(w)
    PROVE  NothingMissed'
<1>0. ParType /\ WrkType /\ LocalsInv /\ stage = "par" /\ stage' = "par"
      /\ UNCHANGED <<edge, cells, stk0, over0, moverflow, rest>>
  BY WorkerFrame DEF TypeOK, WorkersInv, mutVars, serVars
<1> SUFFICES ASSUME NEW x \in marked', NEW c \in Children(x), c \notin marked'
             PROVE  Waiting(x)' \/ (\E v \in Worker : c \in todo'[v]) \/ RescanDue'
  BY <1>0, ChildrenSame DEF NothingMissed
<1>m. marked \subseteq marked'
  BY DEF Start, WorkerStep, Pop, Look, Mark, Traced, Share, Rest, Wake, Grab, Leave
<1>k. x \in marked => Waiting(x) \/ (\E v \in Worker : c \in todo[v]) \/ RescanDue
  BY <1>m DEF NothingMissed
<1>r. RescanDue => RescanDue'
  <2>1. over' = over \/ over' = [over EXCEPT ![w] = TRUE]
    BY DEF Start, WorkerStep, Pop, Look, Mark, Traced, Share, Rest, Take, Wake, Grab, Leave
  <2>2. \A v \in Worker : over[v] => over'[v] BY <1>0, <2>1 DEF WrkType
  <2>3. poverflow => poverflow'
    BY DEF Start, WorkerStep, Pop, Look, Mark, Traced, Share, Rest, Wake, Grab, Leave, parVars
  <2> QED BY <1>0, <2>2, <2>3 DEF RescanDue
<1>1. CASE Start(w) \/ Traced(w) \/ Wake(w) \/ Leave(w)
  <2>1. UNCHANGED <<marked, pool, stk, todo>> BY <1>1 DEF Start, Traced, Wake, Leave, parVars
  <2> QED BY <1>0, <1>k, <1>r, <2>1 DEF Waiting
<1>2. CASE Pop(w)
  <2>1. PICK y \in stk[w] :
            /\ stk' = [stk EXCEPT ![w] = @ \ {y}]
            /\ todo' = [todo EXCEPT ![w] = Children(y)]
    BY <1>2 DEF Pop
  <2>2. todo[w] = {} /\ UNCHANGED <<marked, pool>> BY <1>0, <1>2 DEF Pop, LocalsInv, parVars
  <2>3. CASE x = y BY <1>0, <2>1, <2>3 DEF WrkType
  <2>4. CASE x # y
    <3>1. Waiting(x) => Waiting(x)' BY <1>0, <2>1, <2>2, <2>4 DEF Waiting, WrkType
    <3>2. (\E v \in Worker : c \in todo[v]) => (\E v \in Worker : c \in todo'[v])
      BY <1>0, <2>1, <2>2 DEF WrkType
    <3> QED BY <1>k, <1>r, <2>2, <3>1, <3>2
  <2> QED BY <2>3, <2>4
<1>3. CASE Look(w)
  <2>1. UNCHANGED <<marked, pool, stk>> BY <1>3 DEF Look, parVars
  <2>2. \A v \in Worker : c \in todo[v] => c \in todo'[v] BY <1>0, <1>3, <2>1 DEF Look, WrkType
  <2> QED BY <1>0, <1>k, <1>r, <2>1, <2>2 DEF Waiting
<1>4. CASE Mark(w)
  <2>1. /\ UNCHANGED pool /\ marked' = marked \cup saw[w] /\ todo' = [todo EXCEPT ![w] = @ \ saw[w]]
        /\ \/ stk' = [stk EXCEPT ![w] = @ \cup saw[w]]
           \/ stk' = stk /\ over' = [over EXCEPT ![w] = TRUE]
    BY <1>4 DEF Mark, parVars
  <2>2. CASE x \in saw[w] BY <1>0, <2>1, <2>2 DEF Waiting, RescanDue, WrkType
  <2>3. CASE x \in marked
    <3>1. Waiting(x) => Waiting(x)' BY <1>0, <2>1 DEF Waiting, WrkType
    <3>2. \A v \in Worker : c \in todo[v] => c \in todo'[v] BY <1>0, <2>1 DEF WrkType
    <3> QED BY <1>k, <1>r, <2>3, <3>1, <3>2
  <2> QED BY <2>1, <2>2, <2>3
<1>5. CASE Share(w)
  <2>1. UNCHANGED <<marked, todo>> BY <1>5 DEF Share
  <2>2. Waiting(x) => Waiting(x)'
    <3>1. CASE UNCHANGED <<pool, stk>> BY <1>0, <3>1 DEF Waiting
    <3>2. ASSUME NEW s \in SUBSET stk[w], pool' = Append(pool, s), stk' = [stk EXCEPT ![w] = @ \ s]
          PROVE  Waiting(x) => Waiting(x)'
      <4>1. s \in SUBSET Obj BY <1>0 DEF WrkType
      <4>2. /\ Len(pool') = Len(pool) + 1 /\ pool'[Len(pool) + 1] = s /\ Len(pool) \in Nat
            /\ \A i \in 1 .. Len(pool) : pool'[i] = pool[i]
        BY <1>0, <3>2, <4>1 DEF ParType
      <4>3. x \in stk[w] => x \in stk'[w] \/ x \in s BY <1>0, <3>2 DEF WrkType
      <4>4. \A v \in Worker \ {w} : stk'[v] = stk[v] BY <1>0, <3>2 DEF WrkType
      <4>5. Len(pool) + 1 \in 1 .. Len(pool') /\ 1 .. Len(pool) \subseteq 1 .. Len(pool') BY <4>2
      <4> QED BY <1>0, <4>2, <4>3, <4>4, <4>5 DEF Waiting
    <3> QED BY <1>5, <3>1, <3>2 DEF Share
  <2> QED BY <1>k, <1>r, <2>1, <2>2
<1>6. CASE Take(w) /\ pool # <<>> /\ UNCHANGED <<marked, todo>>
  <2>1. pool \in Seq(SUBSET Obj) /\ pool' = SubSeq(pool, 1, Len(pool) - 1)
    BY <1>0, <1>6 DEF Take, ParType
  <2>2. Len(pool) \in Nat \ {0} BY <1>6, <2>1
  <2>3. Len(pool') = Len(pool) - 1 /\ \A i \in 1 .. Len(pool') : pool'[i] = pool[i]
    BY <1>6, <2>1, NewestTaken
  <2>4. \A i \in 1 .. Len(pool) : i \in 1 .. Len(pool') \/ i = Len(pool) BY <2>2, <2>3
  <2>5. CASE stk' = [stk EXCEPT ![w] = @ \cup pool[Len(pool)]]
    <3>1. Waiting(x) => Waiting(x)' BY <1>0, <2>3, <2>4, <2>5 DEF Waiting, WrkType
    <3> QED BY <1>6, <1>k, <1>r, <3>1
  <2>6. CASE over' = [over EXCEPT ![w] = TRUE] BY <1>0, <2>6 DEF RescanDue, WrkType
  <2> QED BY <1>6, <2>5, <2>6 DEF Take
<1>7. CASE Rest(w) \/ Grab(w)
  <2>1. UNCHANGED <<marked, todo>> BY <1>7 DEF Rest, Grab
  <2>2. CASE UNCHANGED <<pool, stk>> BY <1>0, <1>k, <1>r, <2>1, <2>2 DEF Waiting
  <2> QED BY <1>6, <1>7, <2>1, <2>2 DEF Rest, Grab
<1> QED BY <1>1, <1>2, <1>3, <1>4, <1>5, <1>7 DEF WorkerStep

\* ... nor by the collecting thread.
LEMMA MissedSerial ==
    ASSUME TypeOK, WorkersInv, GreyInv, SoundInv, Closed(heap), NothingMissed, Serial
    PROVE  NothingMissed'
<1>0. SerType /\ PhaseInv /\ CountInv /\ DoneIsQuiet BY DEF TypeOK, WorkersInv
<1>1. CASE Sweep BY <1>1 DEF Sweep, NothingMissed
<1>2. CASE Collect
  <2>1. marked' \subseteq RootSet /\ \A x \in RootSet : x \in stk0' \/ over0'
    BY <1>0, <1>2 DEF Collect, PhaseInv
  <2> QED BY <2>1 DEF NothingMissed, Waiting, RescanDue
<1>3. CASE ~Sweep /\ ~Collect
  <2>0. UNCHANGED <<edge, cells>>
    BY <1>3 DEF Serial, ParDrain, Alone, Join, DrainOne, Rescan, RescanOne, Ephemerons,
                EphemeronOne, Finregs, mutVars
  <2> SUFFICES ASSUME NEW x \in marked', NEW c \in Children(x), c \notin marked'
               PROVE  Waiting(x)' \/ (\E v \in Worker : c \in todo'[v]) \/ RescanDue'
    BY <2>0, ChildrenSame DEF NothingMissed
  <2>k. x \in marked /\ c \notin marked => Waiting(x) \/ (\E v \in Worker : c \in todo[v]) \/ RescanDue
    BY DEF NothingMissed
  <2>1. CASE ParDrain
    <3>1. PICK p \in [1 .. Chunks(Cardinality(stk0)) -> SUBSET stk0] :
              IsChunking(p, stk0) /\ pool' = p
      BY <2>1 DEF ParDrain
    <3>2. \A y \in stk0 : \E i \in 1 .. Len(pool') : y \in pool'[i] BY <3>1 DEF IsChunking
    <3>3. /\ stage = "roots" /\ UNCHANGED <<marked, todo, rest, over0, moverflow>>
      BY <2>1 DEF ParDrain
    <3>4. /\ \A v \in Worker : stk[v] = {}
          /\ Len(pool) = 0
      BY <1>0, <3>3 DEF PhaseInv
    <3>5. Waiting(x) => Waiting(x)' BY <3>2, <3>3, <3>4 DEF Waiting
    <3>6. RescanDue => RescanDue' BY <3>3 DEF RescanDue
    <3> QED BY <2>k, <3>3, <3>5, <3>6
  <2>2. CASE Alone \/ Ephemerons
    <3>1. /\ stage # "par" /\ UNCHANGED <<marked, todo, rest, over0, moverflow, stk0, stk, pool>>
      BY <2>2 DEF Alone, Ephemerons, parVars, wrkVars
    <3> QED BY <2>k, <3>1 DEF Waiting, RescanDue
  <2>3. CASE Join
    <3>1. UNCHANGED <<marked, todo, rest, over0, stk0, stk, pool>> /\ moverflow' = (moverflow \/ poverflow)
      BY <2>3 DEF Join, parVars, wrkVars
    <3>2. \A v \in Worker : over[v] => poverflow BY <1>0, <2>3 DEF Join, CountInv
    <3> QED BY <2>k, <3>1, <3>2 DEF Waiting, RescanDue
  <2>4. CASE DrainOne
    <3>1. PICK y \in stk0 : \E dropped \in SUBSET (Children(y) \ marked) :
              /\ marked' = marked \cup Children(y)
              /\ stk0' = (stk0 \ {y}) \cup (Children(y) \ (marked \cup dropped))
              /\ over0' = (over0 \/ dropped # {})
      BY <2>4 DEF DrainOne
    <3>2. x # y BY <3>1
    <3>3. /\ \A z \in stk0 : z # y => z \in stk0'
          /\ \A z \in Children(y) \ marked : z \in stk0' \/ over0'
          /\ over0 => over0'
      BY <3>1
    <3>4. stage # "par" /\ UNCHANGED <<todo, rest, moverflow, stk, pool>>
      BY <2>4 DEF DrainOne, Draining, parVars, wrkVars
    <3>5. CASE x \in Children(y) \ marked BY <3>3, <3>5 DEF Waiting, RescanDue
    <3>6. CASE x \in marked BY <2>k, <3>1, <3>2, <3>3, <3>4, <3>6 DEF Waiting, RescanDue
    <3> QED BY <3>1, <3>5, <3>6
  <2>5. CASE Rescan
    <3>1. marked \subseteq heap BY MarkedInHeap
    <3> QED BY <2>5, <3>1 DEF Rescan, Waiting
  <2>6. CASE RescanOne
    <3>1. PICK y \in rest :
              /\ rest' = rest \ {y}
              /\ IF y \in marked THEN Trace0(Children(y) \ marked, 0)
                                 ELSE UNCHANGED <<marked, stk0, over0, fails>>
      BY <2>6 DEF RescanOne
    <3>2. stage # "par" /\ UNCHANGED <<todo, moverflow, stk, pool>>
      BY <2>6 DEF RescanOne, Draining, parVars, wrkVars
    <3>3. /\ stk0 \subseteq stk0' /\ (over0 => over0')
          /\ \A z \in marked' \ marked : z \in stk0' \/ over0'
          /\ y \in marked => Children(y) \subseteq marked'
          /\ marked \subseteq marked'
      BY <3>1, Trace0Facts
    <3>4. CASE x \notin marked BY <3>3, <3>4 DEF Waiting, RescanDue
    <3>5. CASE x \in marked
      <4>1. x # y BY <3>3, <3>5
      <4> QED BY <2>k, <3>1, <3>2, <3>3, <3>5, <4>1 DEF Waiting, RescanDue
    <3> QED BY <3>4, <3>5
  <2>7. CASE EphemeronOne \/ Finregs
    <3>1. /\ stk0 \subseteq stk0' /\ (over0 => over0')
          /\ \A z \in marked' \ marked : z \in stk0' \/ over0'
          /\ marked \subseteq marked'
      BY <2>7, Trace0Facts, ZenonT(40) DEF EphemeronOne, Finregs
    <3>2. stage # "par" /\ UNCHANGED <<todo, rest, moverflow, stk, pool>>
      BY <1>0, <2>7 DEF EphemeronOne, Finregs, PhaseInv, parVars, wrkVars
    <3>3. CASE x \notin marked BY <3>1, <3>3 DEF Waiting, RescanDue
    <3>4. CASE x \in marked BY <2>k, <3>1, <3>2, <3>4 DEF Waiting, RescanDue
    <3> QED BY <3>3, <3>4
  <2> QED BY <1>3, <2>1, <2>2, <2>3, <2>4, <2>5, <2>6, <2>7 DEF Serial
<1> QED BY <1>1, <1>2, <1>3

-----------------------------------------------------------------------------
(* The heap and the weak structures. *)

\* When nothing is left to trace, the marked objects are closed.
LEMMA StillClosed ==
    ASSUME WorkersInv, NothingMissed, stage # "par", Still
    PROVE  \A x \in marked : Children(x) \subseteq marked
<1>1. /\ stk0 = {} /\ rest = {} /\ Len(pool) = 0
      /\ \A w \in Worker : stk[w] = {} /\ todo[w] = {}
  BY DEF Still, WorkersInv, PhaseInv
<1>2. ~RescanDue BY DEF Still, RescanDue
<1>3. \A x : ~Waiting(x) BY <1>1 DEF Waiting
<1> QED BY <1>1, <1>2, <1>3 DEF NothingMissed

\* finreg_process finds the held values marked: nothing is left to drain after it.
LEMMA FinregsMarksNothing ==
    ASSUME WorkersInv, MarkInv, Finregs
    PROVE  Still /\ Still' /\ marked' = marked
<1>1. Still /\ stage = "eph" BY DEF Finregs, Drained, Still
<1>2. \A x \in marked : Children(x) \subseteq marked BY <1>1, StillClosed DEF MarkInv
<1>3. \A c \in DeadCells : c.held \in Children(c.reg) /\ c.reg \in marked BY DEF DeadCells, Children
<1>4. {c.held : c \in DeadCells} \ marked = {} BY <1>2, <1>3
<1>5. \E n : Trace0({}, n) BY <1>4 DEF Finregs
<1>6. marked' = marked /\ stk0' = stk0 /\ (over0' <=> over0) BY <1>5, Trace0Facts
<1> QED BY <1>1, <1>6 DEF Finregs, Still

\* The roots stay marked.
LEMMA RootSerial == ASSUME WorkersInv, MarkInv, Serial PROVE RootInv'
<1>0. PhaseInv /\ RootInv BY DEF WorkersInv, MarkInv
<1>1. CASE Collect BY <1>1 DEF Collect, RootInv, RootSet, mutVars
<1>2. CASE ParDrain \/ Alone \/ Join \/ Rescan \/ Ephemerons
  BY <1>0, <1>2 DEF ParDrain, Alone, Join, Rescan, Ephemerons, Draining, Drained, RootInv, RootSet, mutVars
<1>3. CASE DrainOne BY <1>0, <1>3 DEF DrainOne, Draining, RootInv, RootSet, mutVars
<1>4. CASE RescanOne BY <1>0, <1>4, Trace0Facts DEF RescanOne, Draining, RootInv, RootSet, mutVars
<1>5. CASE EphemeronOne
  BY <1>0, <1>5, Trace0Facts DEF EphemeronOne, PhaseInv, RootInv, RootSet, mutVars
<1>6. CASE Finregs
  <2>1. marked' = marked BY <1>6, FinregsMarksNothing
  <2>2. \A c \in DeadCells : c.reg \in marked BY DEF DeadCells
  <2>3. RootSet \subseteq marked BY <1>0, <1>6 DEF Finregs, RootInv
  <2> QED BY <1>6, <2>1, <2>2, <2>3 DEF Finregs, RootInv, RootSet
<1>7. CASE Sweep BY <1>7 DEF Sweep, RootInv
<1> QED BY <1>1, <1>2, <1>3, <1>4, <1>5, <1>6, <1>7 DEF Serial

\* The pass over the ephemerons that ends the loop has seen them all.
LEMMA EphSerial == ASSUME TypeOK, WorkersInv, MarkInv, Serial PROVE EphInv'
<1>0. SerType /\ PhaseInv /\ EphInv BY DEF TypeOK, WorkersInv, MarkInv
<1>1. CASE Collect \/ ParDrain \/ Alone \/ Join \/ Sweep
  <2>1. stage' \notin {"eph", "last"} BY <1>1 DEF Collect, ParDrain, Alone, Join, Sweep
  <2> QED BY <2>1 DEF EphInv
<1>2. CASE DrainOne \/ Rescan \/ RescanOne
  <2>1. ~Still /\ UNCHANGED <<stage, more>> BY <1>2 DEF DrainOne, Rescan, RescanOne, Still
  <2> QED BY <1>0, <2>1 DEF EphInv
<1>3. CASE Ephemerons
  <2>1. Still' /\ stage' = "eph" /\ visit' = eph /\ eph' = eph
    BY <1>3 DEF Ephemerons, Drained, Still, mutVars
  <2> QED BY <2>1 DEF EphInv
<1>4. CASE EphemeronOne
  <2>1. stage = "eph" /\ stage' = "eph" /\ UNCHANGED <<eph, moverflow, rest>>
    BY <1>0, <1>4 DEF EphemeronOne, PhaseInv, mutVars
  <2>2. CASE more' BY <2>1, <2>2 DEF EphInv
  <2>3. CASE ~more'
    <3>1. PICK e \in visit :
              /\ visit' = visit \ {e}
              /\ ~({e.table, e.key} \subseteq marked /\ e.value \notin marked)
              /\ UNCHANGED <<marked, stk0, over0, more>>
      BY <1>4, <2>3 DEF EphemeronOne
    <3>2. Still /\ \A f \in eph \ visit : {f.table, f.key} \subseteq marked => f.value \in marked
      BY <1>0, <2>1, <2>3, <3>1 DEF EphInv
    <3>3. Still' BY <2>1, <3>1, <3>2 DEF Still
    <3> QED BY <2>1, <3>1, <3>2, <3>3 DEF EphInv
  <2> QED BY <2>2, <2>3
<1>5. CASE Finregs
  <2>1. Still' /\ marked' = marked /\ UNCHANGED eph BY <1>5, FinregsMarksNothing DEF Finregs
  <2>2. \A e \in eph : {e.table, e.key} \subseteq marked => e.value \in marked
    BY <1>0, <1>5 DEF Finregs, Drained, Draining, EphInv
  <2>3. stage' = "last" BY <1>5 DEF Finregs
  <2> QED BY <2>1, <2>2, <2>3 DEF EphInv
<1> QED BY <1>1, <1>2, <1>3, <1>4, <1>5 DEF Serial

\* What is marked when the sweep begins is closed, and in the heap.
LEMMA SweepFacts ==
    ASSUME TypeOK, WorkersInv, MarkInv, Sweep PROVE Closed(marked) /\ marked \subseteq heap
<1>1. Still /\ stage = "last" BY DEF Sweep, Drained, Still
<1>2. \A x \in marked : Children(x) \subseteq marked BY <1>1, StillClosed DEF MarkInv
<1>3. marked \subseteq heap BY MarkedInHeap DEF MarkInv
<1> QED BY <1>1, <1>2, <1>3 DEF MarkInv, RootInv, EphInv, Closed

\* The heap stays closed under what the program can follow.
LEMMA HeapSerial == ASSUME TypeOK, WorkersInv, MarkInv, Serial PROVE Closed(heap)'
<1>0. Closed(heap) BY DEF MarkInv
<1>1. CASE Finregs
  <2>1. /\ UNCHANGED <<edge, roots, heap, eph, cells>>
        /\ \A r \in Obj : jobs'[r] # jobs[r] => r \in {c.reg : c \in DeadCells}
    BY <1>1 DEF Finregs
  <2>2. marked \subseteq heap BY MarkedInHeap DEF MarkInv
  <2>3. RootSet' \subseteq heap BY <1>0, <2>1, <2>2 DEF Closed, RootSet, DeadCells
  <2> QED BY <1>0, <2>1, <2>3, ChildrenSame DEF Closed
<1>2. CASE Sweep
  <2>1. Closed(marked) /\ marked \subseteq heap BY <1>2, SweepFacts
  <2>2. /\ UNCHANGED <<edge, roots, jobs>> /\ eph' \subseteq eph /\ cells' \subseteq cells
        /\ heap' = heap \cap marked
    BY <1>2 DEF Sweep, LiveEntries
  <2>3. heap' = marked BY <2>1, <2>2
  <2> QED BY <2>1, <2>2, <2>3, ChildrenShrink DEF Closed, RootSet
<1>3. CASE ~Finregs /\ ~Sweep
  <2>1. UNCHANGED mutVars
    BY <1>3 DEF Serial, Collect, ParDrain, Alone, Join, DrainOne, Rescan, RescanOne, Ephemerons, EphemeronOne
  <2> QED BY <1>0, <2>1, ChildrenSame DEF Closed, RootSet, mutVars
<1> QED BY <1>1, <1>2, <1>3

\* Cleanups are pending for dead targets only, and what is weak is cleared.
LEMMA CellSerial == ASSUME TypeOK, WorkersInv, MarkInv, Serial PROVE CellInv' /\ WeakSound'
<1>0. MutType /\ CellInv /\ EphInv /\ PhaseInv BY DEF TypeOK, WorkersInv, MarkInv
<1>h. marked \subseteq heap BY MarkedInHeap DEF MarkInv
<1>1. CASE Finregs
  <2>1. /\ marked' = marked /\ stage = "eph" /\ stage' = "last"
        /\ UNCHANGED <<cells, heap>> /\ holed' = holed \cup DeadCells
    BY <1>1, FinregsMarksNothing DEF Finregs
  <2>2. \A c \in cells : c \in holed <=> c.target \notin heap BY <1>0, <2>1 DEF CellInv
  <2>3. \A c \in cells : c.reg \in marked => (c \in holed' <=> c.target \notin marked)
    BY <1>h, <2>1, <2>2 DEF DeadCells
  <2> QED BY <2>1, <2>3 DEF CellInv, WeakSound
<1>2. CASE Sweep
  <2>1. Closed(marked) BY <1>2, SweepFacts
  <2>2. /\ stage = "last" /\ stage' = "idle" /\ heap' = marked
        /\ cells' = {c \in cells : c.reg \in marked} /\ holed' = {c \in holed : c.reg \in marked}
        /\ eph' = LiveEntries
    BY <1>2, <1>h DEF Sweep
  <2>3. \A c \in cells' : c \in holed' <=> c.target \notin heap' BY <1>0, <2>2 DEF CellInv
  <2>4. \A c \in cells' : c.held \in Children(c.reg) BY <2>2 DEF Children
  <2>5. \A c \in cells' : {c.reg, c.held} \subseteq heap' BY <2>1, <2>2, <2>4 DEF Closed
  <2>6. \A e \in eph' : {e.table, e.key, e.value} \subseteq heap' BY <2>1, <2>2 DEF LiveEntries, Closed
  <2> QED BY <2>2, <2>3, <2>5, <2>6 DEF CellInv, WeakSound
<1>3. CASE ~Finregs /\ ~Sweep
  <2>1. UNCHANGED <<cells, heap, holed, eph>> /\ stage' # "idle"
    BY <1>0, <1>3 DEF Serial, Collect, ParDrain, Alone, Join, DrainOne, Rescan, RescanOne, Ephemerons,
                EphemeronOne, mutVars, Draining, Drained, PhaseInv
  <2>2. stage = "last" <=> stage' = "last"
    BY <1>0, <1>3 DEF PhaseInv, Serial, Collect, ParDrain, Alone, Join, DrainOne, Rescan, RescanOne,
                      Ephemerons, EphemeronOne
  <2>3. stage = "last" => marked' = marked
    <3> SUFFICES ASSUME stage = "last" PROVE marked' = marked OBVIOUS
    <3>1. Still /\ visit = {} BY <1>0 DEF EphInv, PhaseInv
    <3> QED BY <1>3, <3>1 DEF Still, Serial, Collect, ParDrain, Alone, Join, DrainOne, Rescan, RescanOne,
                              Ephemerons, EphemeronOne
  <2> QED BY <1>0, <2>1, <2>2, <2>3 DEF CellInv, WeakSound
<1> QED BY <1>1, <1>2, <1>3

-----------------------------------------------------------------------------
(* All together. *)

\* The first state satisfies the invariant.
LEMMA InvInit == Init => TypeOK /\ WorkersInv /\ MarkInv
<1> SUFFICES ASSUME Init PROVE TypeOK /\ WorkersInv /\ MarkInv OBVIOUS
<1>1. TypeOK BY TypeInit
<1>2. WorkersInv
  BY DEF Init, WorkersInv, LocalsInv, CountInv, DoneIsQuiet, PhaseInv
<1>3. Closed(heap)
  <2>1. heap = Obj BY DEF Init
  <2>2. \A x \in Obj : Children(x) \subseteq Obj BY <1>1, ChildrenType
  <2> QED BY <1>1, <2>1, <2>2 DEF Closed, RootSet, TypeOK, MutType, Entry
<1>4. GreyInv /\ RootInv /\ NothingMissed /\ SoundInv /\ EphInv
  BY DEF Init, GreyInv, RootInv, NothingMissed, SoundInv, EphInv
<1>5. CellInv /\ WeakSound
  <2>1. heap = Obj /\ holed = {} /\ stage = "idle" /\ eph \subseteq Entry /\ cells \subseteq Cell
    BY <1>1 DEF Init, TypeOK, MutType
  <2> QED BY <2>1 DEF CellInv, WeakSound, Entry, Cell
<1> QED BY <1>1, <1>2, <1>3, <1>4, <1>5 DEF MarkInv

\* What the program does between collections disturbs none of it.
LEMMA MarkProgram ==
    ASSUME TypeOK, WorkersInv, MarkInv, NEW r \in Obj, Unroot(r) \/ FinregJob(r) PROVE MarkInv'
<1>1. /\ stage = "idle" /\ UNCHANGED <<edge, heap, eph, serVars, parVars, wrkVars, marked>>
      /\ cells' \subseteq cells /\ RootSet' \subseteq RootSet
      /\ \A c \in cells' : c \in holed' <=> c \in holed
  <2>1. CASE Unroot(r) BY <2>1 DEF Unroot, RootSet
  <2>2. CASE FinregJob(r)
    <3>1. \A x \in Obj : jobs'[x] > 0 => jobs[x] > 0 BY <2>2 DEF FinregJob, TypeOK, MutType
    <3> QED BY <2>2, <3>1 DEF FinregJob, RootSet
  <2> QED BY <2>1, <2>2
<1>2. marked = {} /\ \A w \in Worker : todo[w] = {} BY <1>1 DEF WorkersInv, PhaseInv
<1>3. GreyInv' BY <1>1 DEF MarkInv, GreyInv, serVars, parVars, wrkVars
<1>4. RootInv' /\ NothingMissed' /\ SoundInv' /\ EphInv'
  BY <1>1, <1>2 DEF RootInv, NothingMissed, SoundInv, EphInv, serVars, wrkVars
<1>5. Closed(heap)' BY <1>1, ChildrenShrink DEF MarkInv, Closed
<1>6. CellInv' /\ WeakSound' BY <1>1 DEF MarkInv, CellInv, WeakSound, serVars
<1> QED BY <1>3, <1>4, <1>5, <1>6 DEF MarkInv

\* A step of a worker keeps it.
LEMMA MarkWorker ==
    ASSUME TypeOK, WorkersInv, MarkInv, NEW w \in Worker, Start(w) \/ WorkerStep(w) PROVE MarkInv'
<1>1. stage = "par" /\ UNCHANGED mutVars /\ UNCHANGED serVars BY WorkerFrame
<1>2. marked \subseteq marked'
  BY DEF Start, WorkerStep, Pop, Look, Mark, Traced, Share, Rest, Wake, Grab, Leave
<1>3. RootInv' BY <1>1, <1>2 DEF MarkInv, RootInv, RootSet, mutVars, serVars
<1>4. EphInv' /\ CellInv' /\ WeakSound'
  BY <1>1 DEF MarkInv, EphInv, CellInv, WeakSound, mutVars, serVars
<1>5. Closed(heap)' BY <1>1, ChildrenSame DEF MarkInv, Closed, RootSet, mutVars
<1> QED BY <1>3, <1>4, <1>5, GreyWorker, SoundWorker, MissedWorker DEF MarkInv, WorkersInv

\* A stuttering step keeps it.
LEMMA MarkStutter == ASSUME MarkInv, UNCHANGED vars PROVE MarkInv'
<1> USE DEF vars, mutVars, serVars, parVars, wrkVars
<1>1. GreyInv' BY DEF MarkInv, GreyInv
<1>2. RootInv' BY DEF MarkInv, RootInv, RootSet
<1>3. \A x : Children(x)' = Children(x) BY ChildrenSame
<1>4. NothingMissed'
  <2>1. (RescanDue' <=> RescanDue) /\ \A x : Waiting(x)' <=> Waiting(x) BY DEF RescanDue, Waiting
  <2> QED BY <1>3, <2>1 DEF MarkInv, NothingMissed
<1>5. SoundInv'
  <2>1. \A S \in SUBSET Obj : Closed(S)' <=> Closed(S) BY ClosedSame
  <2> QED BY <2>1 DEF MarkInv, SoundInv
<1>6. Closed(heap)' BY <1>3 DEF MarkInv, Closed, RootSet
<1>7. EphInv' BY DEF MarkInv, EphInv, Still
<1>8. CellInv' /\ WeakSound' BY DEF MarkInv, CellInv, WeakSound
<1> QED BY <1>1, <1>2, <1>4, <1>5, <1>6, <1>7, <1>8 DEF MarkInv

\* Every step keeps the invariant.
LEMMA InvStep ==
    ASSUME TypeOK, WorkersInv, MarkInv, [Next]_vars PROVE TypeOK' /\ WorkersInv' /\ MarkInv'
<1>1. CASE UNCHANGED vars
  <2>1. TypeOK' BY <1>1, MutFrame, SerFrame, ParFrame, WrkFrame DEF TypeOK, vars
  <2>2. WorkersInv' BY <1>1, WorkersFrame DEF vars, mutVars
  <2> QED BY <1>1, <2>1, <2>2, MarkStutter
<1>2. ASSUME NEW r \in Obj, Unroot(r) \/ FinregJob(r) PROVE TypeOK' /\ WorkersInv' /\ MarkInv'
  <2>1. WorkersInv' BY <1>2, WorkersFrame DEF Unroot, FinregJob
  <2> QED BY <1>2, <2>1, TypeProgram, MarkProgram
<1>3. CASE Serial
  <2>1. GreyInv /\ SoundInv /\ Closed(heap) /\ NothingMissed BY DEF MarkInv
  <2>2. GreyInv' /\ SoundInv' /\ NothingMissed' BY <1>3, <2>1, GreySerial, SoundSerial, MissedSerial
  <2>3. RootInv' /\ EphInv' /\ Closed(heap)' /\ CellInv' /\ WeakSound'
    BY <1>3, RootSerial, EphSerial, HeapSerial, CellSerial
  <2> QED BY <1>3, <2>2, <2>3, TypeSerial, WorkersSerial DEF MarkInv
<1>4. ASSUME NEW w \in Worker, Start(w) \/ WorkerStep(w) PROVE TypeOK' /\ WorkersInv' /\ MarkInv'
  BY <1>4, WorkersWorker, MarkWorker
<1> QED BY <1>1, <1>2, <1>3, <1>4 DEF Next

\* The inductive invariant holds always.
LEMMA Invariance == Spec => [](TypeOK /\ WorkersInv /\ MarkInv)
<1>1. TypeOK /\ WorkersInv /\ MarkInv /\ [Next]_vars => (TypeOK /\ WorkersInv /\ MarkInv)'
  BY InvStep
<1> QED BY <1>1, InvInit, PTL DEF Spec

\* The variables of a collection keep their types: in particular P->nidle,
\* which par_worker counts up and down, is never negative.
THEOREM TypeCorrect == Spec => []TypeOK
BY Invariance, PTL

\* No pointer of a marked object is forgotten while gc.c marks, neither in the
\* race for a mark bit nor when a chunk changes hands or a push fails.
THEOREM NothingIsMissed == Spec => []NothingMissed
<1>1. MarkInv => NothingMissed BY DEF MarkInv
<1> QED BY <1>1, Invariance, PTL

\* P->done is set only when every worker that started is out of work and the
\* pool is empty, and stays right when workers start late.
THEOREM TerminationIsQuiet == Spec => []DoneIsQuiet
<1>1. WorkersInv => DoneIsQuiet BY DEF WorkersInv
<1> QED BY <1>1, Invariance, PTL

\* gc_collect never frees an object that the program can still get at.
THEOREM LiveIsKept == Spec => []NoLiveFreed
<1>1. TypeOK /\ MarkInv => NoLiveFreed
  BY DEF TypeOK, MutType, MarkInv, NoLiveFreed, Live
<1> QED BY <1>1, Invariance, PTL

\* Weak tables and registries never hold a pointer to what was freed.
THEOREM WeakIsSound == Spec => []WeakSound
<1>1. MarkInv => WeakSound BY DEF MarkInv
<1> QED BY <1>1, Invariance, PTL

\* gc_collect frees everything that the program cannot get at, and forgets the
\* weak entries of what it frees and no others.
THEOREM CollectionIsExact == Spec => SweepExact
<1>1. ASSUME TypeOK, WorkersInv, MarkInv, Sweep
      PROVE  heap' = heap \cap Live /\ eph' = {e \in eph : {e.table, e.key} \subseteq Live}
  <2>1. Closed(marked) /\ marked \subseteq heap BY <1>1, SweepFacts
  <2>2. marked \subseteq Obj BY <1>1 DEF TypeOK
  <2>3. Live = marked BY <1>1, <2>1, <2>2 DEF Live, MarkInv, SoundInv
  <2> QED BY <1>1, <2>3 DEF Sweep, LiveEntries
<1>2. ASSUME [Next]_vars, stage # "idle", ~Sweep PROVE UNCHANGED eph /\ ~Swept
  <2>1. CASE UNCHANGED vars BY <2>1 DEF vars, mutVars, serVars, Swept
  <2>2. \A r \in Obj : ~Unroot(r) /\ ~FinregJob(r) BY <1>2 DEF Unroot, FinregJob
  <2>3. ASSUME NEW w \in Worker, Start(w) \/ WorkerStep(w) PROVE UNCHANGED eph /\ ~Swept
    BY <2>3, WorkerFrame DEF mutVars, serVars, Swept
  <2>4. CASE Serial
    BY <1>2, <2>4 DEF Serial, Collect, ParDrain, Alone, Join, DrainOne, Rescan, RescanOne,
                      Ephemerons, EphemeronOne, Finregs, mutVars, Swept
  <2> QED BY <1>2, <2>1, <2>2, <2>3, <2>4 DEF Next
<1>3. Sweep => Swept BY DEF Sweep, Swept
<1>4. TypeOK /\ WorkersInv /\ MarkInv /\ [Next]_vars
        => [stage # "idle" => /\ Swept => heap' = heap \cap Live
                              /\ eph' = IF Swept THEN {e \in eph : {e.table, e.key} \subseteq Live}
                                                ELSE eph]_vars
  BY <1>1, <1>2, <1>3
<1> QED BY <1>4, Invariance, PTL DEF Spec, SweepExact
=============================================================================
