---------------------------- MODULE ProcProofs ----------------------------
(***************************************************************************)
(* Proofs about the native processes, for any number of slots, entries,    *)
(* lines and programs: one thread runs and it is the current one, parks    *)
(* and staged resumes belong to who made them, the entry queue names only  *)
(* fresh processes, and the dead stay dead.                                *)
(***************************************************************************)
EXTENDS Proc, FiniteSetTheorems, SequenceTheorems, WellFoundedInduction, TLAPS

Table == [Slots -> Process]

-----------------------------------------------------------------------------
(* Operators                                                               *)

\* A non-empty set of numbers has a least element.
LEMMA MinIn ==
    ASSUME NEW S, S \subseteq Nat, S # {}
    PROVE  Min(S) \in S /\ \A y \in S : Min(S) <= y
<1>1. PICK x \in S : \A y \in S : ~(<<y, x>> \in OpToRel(<, Nat))
    BY WFMin, NatLessThanWellFounded, Zenon
<1>2. \A y \in S : x <= y
    <2>1. TAKE y \in S
    <2>2. x \in Nat /\ y \in Nat
        OBVIOUS
    <2>3. <<y, x>> \in Nat \X Nat
        BY <2>2
    <2>4. ~(y < x)
        BY <1>1, <2>3 DEF OpToRel
    <2> QED BY <2>2, <2>4
<1> QED BY <1>2 DEF Min

\* The types of the numbers.
LEMMA Numbers ==
    /\ NPROC \in Nat /\ NPROC > 1 /\ QLEN \in Nat /\ QLEN > 1
    /\ SLICE \in Nat /\ SLICE > 1 /\ MaxPid \in Nat
    /\ 0 \in Slots /\ Slots \subseteq Nat
BY ProcAssumption DEF Slots

LEMMA FreeType == Free \in Process
BY Numbers DEF Free, Process

LEMMA FreshType ==
    ASSUME NEW p \in 0 .. MaxPid, NEW par \in 0 .. MaxPid,
           NEW w \in Windows \cup {"none"}
    PROVE  /\ Fresh(p, par, w) \in Process
           /\ Fresh(p, par, w).pid = p /\ Fresh(p, par, w).st = "ready"
           /\ ~Fresh(p, par, w).entered
<1>1. SLICE \in 0 .. SLICE
    BY Numbers
<1> QED BY <1>1 DEF Fresh, Process

LEMMA AddFacts ==
    ASSUME NEW ps \in Table, NEW new \in Process, Unused(ps) # {}
    PROVE  /\ Add(ps, new) \in Table
           /\ \E u \in Unused(ps) : Add(ps, new) = [ps EXCEPT ![u] = new]
<1>1. Unused(ps) \subseteq Nat
    BY Numbers DEF Unused
<1>2. Min(Unused(ps)) \in Unused(ps)
    BY <1>1, MinIn
<1>3. Min(Unused(ps)) \in Slots
    BY <1>2 DEF Unused
<1> QED BY <1>2, <1>3 DEF Add, Table

LEMMA SwitchedFacts ==
    ASSUME NEW ps \in Table, NEW from \in Slots, NEW to \in Slots, from # to
    PROVE  /\ Switched(ps, from, to) \in Table
           /\ \A s \in Slots :
                 /\ Switched(ps, from, to)[s].pid = ps[s].pid
                 /\ Switched(ps, from, to)[s].entered = ps[s].entered
                 /\ Switched(ps, from, to)[s].ticks = ps[s].ticks
                 /\ s # from /\ s # to => Switched(ps, from, to)[s] = ps[s]
           /\ Switched(ps, from, to)[to].st = "running"
           /\ Switched(ps, from, to)[from].st = Demoted(ps[from].st)
<1> DEFINE sw == Switched(ps, from, to)
<1>1. sw = [s \in Slots |->
              IF s = to THEN [ps[s] EXCEPT !.st = "running"]
              ELSE IF s = from THEN [ps[s] EXCEPT !.st = Demoted(@)] ELSE ps[s]]
    BY DEF Switched, Table
<1>2. \A s \in Slots : ps[s] \in Process
    BY DEF Table
<1>3. \A s \in Slots : sw[s] \in Process
    <2>1. TAKE s \in Slots
    <2>2. Demoted(ps[s].st) \in {"unused", "ready", "running", "blocked", "zombie"}
        BY <1>2 DEF Demoted, Process
    <2>3. /\ [ps[s] EXCEPT !.st = "running"] \in Process
          /\ [ps[s] EXCEPT !.st = Demoted(@)] \in Process
        BY <1>2, <2>2 DEF Process
    <2> QED BY <1>1, <2>3, <1>2
<1>4. sw \in Table
    BY <1>1, <1>3 DEF Table
<1>5. \A s \in Slots : /\ sw[s].pid = ps[s].pid /\ sw[s].entered = ps[s].entered
                       /\ sw[s].ticks = ps[s].ticks
                       /\ s # from /\ s # to => sw[s] = ps[s]
    BY <1>1, <1>2 DEF Process
<1>6. sw[to].st = "running" /\ sw[from].st = Demoted(ps[from].st)
    BY <1>1, <1>2 DEF Process
<1> QED BY <1>4, <1>5, <1>6

LEMMA ReapedFacts ==
    ASSUME NEW ps \in Table, NEW c \in Slots, MaxPid > 0
    PROVE  /\ Reaped(ps, c) \in Table /\ Reaped(ps, c)[c] = Free
           /\ \A s \in Slots \ {c} :
                 /\ Reaped(ps, c)[s].pid = ps[s].pid
                 /\ Reaped(ps, c)[s].st = ps[s].st
                 /\ Reaped(ps, c)[s].entered = ps[s].entered
<1> DEFINE re == Reparented(ps, ps[c].pid)
<1>1. \A s \in Slots : ps[s] \in Process /\ 1 \in 0 .. MaxPid
    BY Numbers DEF Table
<1>2. \A s \in Slots : [ps[s] EXCEPT !.parent = 1] \in Process
    BY <1>1 DEF Process
<1>3. \A s \in Slots : re[s] \in {ps[s], [ps[s] EXCEPT !.parent = 1]}
    BY DEF Reparented
<1>4. \A s \in Slots : /\ re[s] \in Process /\ re[s].pid = ps[s].pid
                       /\ re[s].st = ps[s].st /\ re[s].entered = ps[s].entered
    <2>1. TAKE s \in Slots
    <2> DEFINE moved == [ps[s] EXCEPT !.parent = 1]
    <2>2. /\ moved.pid = ps[s].pid /\ moved.st = ps[s].st
          /\ moved.entered = ps[s].entered
        BY <1>1 DEF Process
    <2>3. moved \in Process /\ re[s] \in {ps[s], moved}
        BY <1>2, <1>3
    <2> HIDE DEF moved, re
    <2> QED BY <1>1, <2>2, <2>3
<1>5. re = [s \in Slots |-> re[s]]
    BY DEF Reparented
<1>6. Reaped(ps, c) = [s \in Slots |-> IF s = c THEN Free ELSE re[s]]
    BY <1>5 DEF Reaped
<1> HIDE DEF re
<1> QED BY <1>4, <1>6, FreeType DEF Table

\* The pid of a live process picks its slot.
LEMMA SlotOfFacts ==
    ASSUME NEW ps, NEW p, Live(ps, p)
    PROVE  SlotOf(ps, p) \in Users(ps) /\ ps[SlotOf(ps, p)].pid = p
BY DEF Live, SlotOf

LEMMA NextSlotType ==
    ASSUME NEW ps, cur \in Slots
    PROVE  NextSlot(ps) \in Slots
<1> DEFINE ready == {d \in 1 .. NPROC :
                       LET c == ps[(cur + d) % NPROC]
                       IN  c.st = "ready" /\ c.pid # 0 /\ c.entered}
<1>1. CASE ready = {}
    BY <1>1, Numbers DEF NextSlot
<1>2. CASE ready # {}
    <2>1. Min(ready) \in Nat
        BY <1>2, MinIn, Numbers
    <2> HIDE DEF ready
    <2>2. cur + Min(ready) \in Nat
        BY <2>1, Numbers
    <2>3. (cur + Min(ready)) % NPROC \in 0 .. NPROC - 1
        BY <2>2, Numbers
    <2> USE DEF ready
    <2> QED BY <1>2, <2>3 DEF NextSlot, Slots
<1> QED BY <1>1, <1>2

\* Removing the first occurrence of an element.
LEMMA WithoutFacts ==
    ASSUME NEW S, NEW seq \in Seq(S), NEW p, \E i \in 1 .. Len(seq) : seq[i] = p
    PROVE  /\ Without(seq, p) \in Seq(S) /\ Len(Without(seq, p)) = Len(seq) - 1
           /\ \A i \in 1 .. Len(seq) : seq[i] # p =>
                 \E j \in 1 .. Len(Without(seq, p)) : Without(seq, p)[j] = seq[i]
<1> DEFINE i == CHOOSE k \in 1 .. Len(seq) : seq[k] = p
           a == SubSeq(seq, 1, i - 1)
           b == SubSeq(seq, i + 1, Len(seq))
<1>1. i \in 1 .. Len(seq) /\ seq[i] = p
    OBVIOUS
<1>2. Without(seq, p) = a \o b
    BY DEF Without
<1>3. Len(seq) \in Nat /\ \A k \in 1 .. Len(seq) : seq[k] \in S
    BY LenProperties
<1> HIDE DEF i
<1>4. \A k \in 1 .. i - 1 : seq[k] \in S
    BY <1>1, <1>3
<1>5. \A k \in i + 1 .. Len(seq) : seq[k] \in S
    BY <1>1, <1>3
<1>6. /\ a \in Seq(S) /\ Len(a) = i - 1 /\ \A k \in 1 .. i - 1 : a[k] = seq[k]
    <2>1. /\ a \in Seq(S) /\ Len(a) = IF 1 <= i - 1 THEN (i - 1) - 1 + 1 ELSE 0
          /\ \A k \in 1 .. (i - 1) - 1 + 1 : a[k] = seq[1 + k - 1]
        BY <1>1, <1>3, <1>4, SubSeqProperties
    <2> HIDE DEF a
    <2> QED BY <1>1, <1>3, <2>1
<1>7. /\ b \in Seq(S) /\ Len(b) = Len(seq) - i
      /\ \A k \in 1 .. Len(seq) - i : b[k] = seq[i + k]
    <2>1. /\ b \in Seq(S)
          /\ Len(b) = IF i + 1 <= Len(seq) THEN Len(seq) - (i + 1) + 1 ELSE 0
          /\ \A k \in 1 .. Len(seq) - (i + 1) + 1 : b[k] = seq[(i + 1) + k - 1]
        BY <1>1, <1>3, <1>5, SubSeqProperties
    <2> HIDE DEF b
    <2>2. \A k \in 1 .. Len(seq) - i : b[k] = seq[i + k]
        <3>1. TAKE k \in 1 .. Len(seq) - i
        <3>2. k \in 1 .. Len(seq) - (i + 1) + 1 /\ (i + 1) + k - 1 = i + k
            BY <1>1, <1>3
        <3> QED BY <2>1, <3>2
    <2> QED BY <1>1, <1>3, <2>1, <2>2
<1> HIDE DEF a, b
<1>8. /\ a \o b \in Seq(S) /\ Len(a \o b) = Len(seq) - 1
      /\ \A k \in 1 .. Len(seq) - 1 :
            (a \o b)[k] = IF k <= i - 1 THEN a[k] ELSE b[k - (i - 1)]
    BY <1>1, <1>3, <1>6, <1>7, ConcatProperties
<1>9. ASSUME NEW k \in 1 .. Len(seq), seq[k] # p
      PROVE  \E j \in 1 .. Len(seq) - 1 : (a \o b)[j] = seq[k]
    <2>1. CASE k < i
        BY <2>1, <1>1, <1>3, <1>6, <1>8, SMTT(30)
    <2>2. CASE k > i
        <3>1. k - 1 \in 1 .. Len(seq) - 1 /\ ~(k - 1 <= i - 1)
            BY <2>2, <1>1, <1>3
        <3>2. (k - 1) - (i - 1) \in 1 .. Len(seq) - i /\ i + ((k - 1) - (i - 1)) = k
            BY <2>2, <1>1, <1>3
        <3>3. (a \o b)[k - 1] = b[(k - 1) - (i - 1)]
            BY <3>1, <1>8
        <3>4. b[(k - 1) - (i - 1)] = seq[k]
            BY <3>2, <1>7
        <3> QED BY <3>1, <3>3, <3>4
    <2>3. k # i
        BY <1>1, <1>9
    <2>4. k < i \/ k > i
        BY <2>3, <1>1, <1>3
    <2> QED BY <2>1, <2>2, <2>4
<1> QED BY <1>2, <1>8, <1>9

-----------------------------------------------------------------------------
(* Steps that leave every process in its place                             *)

\* What such a step may do to the table: wake parked processes.
Quiet ==
    /\ \A s \in Slots :
          /\ proc'[s].pid = proc[s].pid /\ proc'[s].entered = proc[s].entered
          /\ \/ proc'[s].st = proc[s].st
             \/ proc[s].st = "blocked" /\ proc'[s].st = "ready"
    /\ UNCHANGED <<cur, nextPid, queue, arrived, stage>>
    /\ pc' = "ring3" <=> pc = "ring3"
    /\ \A s \in Slots : armed'[s] = armed[s] \/ (s = cur /\ pc = "ring3")

\* The dead stay dead in this step.
DeadStay ==
    \A s \in Slots : proc[s].st = "zombie" =>
        \/ proc'[s].st = "unused"
        \/ proc'[s].st = "zombie" /\ proc'[s].pid = proc[s].pid

\* The parts of the invariant that are about more than types
Places == PidInv /\ RunInv /\ ParksMatch /\ QueueInv /\ ArrivedInv

LEMMA QuietUsers ==
    ASSUME Quiet PROVE Users(proc') = Users(proc)
BY DEF Quiet, Users

LEMMA QuietStep ==
    ASSUME TypeOK, Places, Quiet
    PROVE  Places' /\ DeadStay
<1>1. PidInv'
    BY QuietUsers DEF Places, PidInv, Quiet, Users
<1>2. RunInv'
    BY Numbers, SMTT(30) DEF Places, RunInv, Quiet, TypeOK
<1>3. ParksMatch'
    BY DEF Places, ParksMatch, ArmedIsMine, Quiet
<1>4. QueueInv'
    <2>1. UsedEntries' = UsedEntries /\ queue' = queue
        BY DEF Quiet, UsedEntries, FreeEntries
    <2>2. ASSUME NEW e \in UsedEntries
          PROVE  \E s \in Users(proc') : /\ proc'[s].pid = queue[e]
                                        /\ proc'[s].st = "ready" /\ ~proc'[s].entered
        <3>1. PICK s \in Users(proc) : /\ proc[s].pid = queue[e]
                                       /\ proc[s].st = "ready" /\ ~proc[s].entered
            BY <2>2 DEF Places, QueueInv
        <3> QED BY <3>1, QuietUsers DEF Quiet, Users
    <2> QED BY <2>1, <2>2 DEF Places, QueueInv
<1>5. ArrivedInv'
    BY DEF Places, ArrivedInv, Quiet, UsedEntries, FreeEntries
<1>6. DeadStay
    BY DEF Quiet, DeadStay
<1> QED BY <1>1, <1>2, <1>3, <1>4, <1>5, <1>6 DEF Places

\* The wake pass of the tick.
LEMMA WokenFacts ==
    ASSUME TypeOK
    PROVE  /\ Woken \in Table
           /\ \A s \in Slots :
                 /\ Woken[s].pid = proc[s].pid /\ Woken[s].entered = proc[s].entered
                 /\ \/ Woken[s].st = proc[s].st
                    \/ proc[s].st = "blocked" /\ Woken[s].st = "ready"
<1> DEFINE tagged == {s \in Users(proc) : proc[s].st = "blocked" /\ proc[s].ticks = 1}
           m == Min(tagged)
           up == [proc EXCEPT ![m].st = "ready", ![m].ticks = SLICE]
<1>1. proc \in Table /\ \A s \in Slots : proc[s] \in Process
    BY DEF TypeOK, Table
<1>2. Woken = IF Work /\ tagged # {} THEN up ELSE proc
    BY DEF Woken
<1>3. ASSUME tagged # {}
      PROVE  /\ up \in Table
             /\ \A s \in Slots :
                  /\ up[s].pid = proc[s].pid /\ up[s].entered = proc[s].entered
                  /\ \/ up[s].st = proc[s].st
                     \/ proc[s].st = "blocked" /\ up[s].st = "ready"
    <2>1. tagged \subseteq Nat
        BY Numbers DEF Users
    <2>2. m \in Slots /\ proc[m].st = "blocked"
        BY <1>3, <2>1, MinIn DEF Users
    <2> HIDE DEF tagged, m
    <2>3. SLICE \in 0 .. SLICE
        BY Numbers
    <2>4. up = [s \in Slots |-> IF s = m
                  THEN [proc[s] EXCEPT !.st = "ready", !.ticks = SLICE] ELSE proc[s]]
        BY <1>1, <2>2 DEF Table
    <2>5. \A s \in Slots : [proc[s] EXCEPT !.st = "ready", !.ticks = SLICE] \in Process
        BY <1>1, <2>3 DEF Process
    <2>6. up \in Table
        BY <1>1, <2>4, <2>5 DEF Table
    <2> QED BY <1>1, <2>2, <2>4, <2>6 DEF Process
<1> HIDE DEF tagged, up
<1> QED BY <1>1, <1>2, <1>3

\* A step that leaves the table alone, or its pids and states.
LEMMA SameTable ==
    ASSUME TypeOK, proc' = proc, UNCHANGED <<cur, nextPid, queue, arrived, stage>>,
           pc' = "ring3" <=> pc = "ring3",
           \A s \in Slots : armed'[s] = armed[s] \/ (s = cur /\ pc = "ring3")
    PROVE  Quiet
BY DEF Quiet

LEMMA UsedSame ==
    ASSUME queue' = queue PROVE UsedEntries' = UsedEntries
BY DEF UsedEntries, FreeEntries

LEMMA TypeToProgramStep ==
    ASSUME TypeOK, NEW w \in Windows, TypeToProgram(w) PROVE TypeOK' /\ Quiet
<1>1. lines' \in 0 .. MaxLines
    BY ProcAssumption DEF TypeOK, TypeToProgram, Offer
<1>2. kbd' \in 0 .. KBDLEN
    BY ProcAssumption DEF TypeOK, TypeToProgram, Offer, Queueable
<1>3. wakeArmed' \in BOOLEAN
    BY DEF TypeOK, TypeToProgram, Offer
<1>4. Quiet
    BY SameTable DEF TypeToProgram
<1> QED BY <1>1, <1>2, <1>3, <1>4, UsedSame DEF TypeOK, TypeToProgram

LEMMA LoopStep ==
    ASSUME TypeOK, KeysDone \/ DrainDone \/ WakeNobody \/ ExitReturns
    PROVE  TypeOK' /\ Quiet
<1>1. Quiet
    BY SameTable DEF KeysDone, DrainDone, WakeNobody, ExitReturns, mainVars
<1>2. CASE KeysDone
    BY <1>1, <1>2, UsedSame DEF TypeOK, KeysDone, mainVars
<1>3. CASE DrainDone
    BY <1>1, <1>3, UsedSame DEF TypeOK, DrainDone, mainVars
<1>4. CASE WakeNobody
    BY <1>1, <1>4, UsedSame DEF TypeOK, WakeNobody
<1>5. CASE ExitReturns
    BY <1>1, <1>5, UsedSame DEF TypeOK, ExitReturns, mainVars
<1> QED BY <1>1, <1>2, <1>3, <1>4, <1>5

\* Arming a park is an action of the running program on its own entry.
LEMMA ArmedFacts ==
    ASSUME TypeOK, NEW k \in {"none", "wait", "retry"},
           armed' \in {armed, [armed EXCEPT ![cur] = k]}
    PROVE  /\ armed' \in [Slots -> {"none", "wait", "retry"}]
           /\ \A s \in Slots : armed'[s] = armed[s] \/ s = cur
BY DEF TypeOK

LEMMA ReadStep ==
    ASSUME TypeOK, Read PROVE TypeOK' /\ Quiet
<1>1. armed' \in {armed, [armed EXCEPT ![cur] = "retry"]}
    BY DEF Read
<1>2. kbd' \in 0 .. KBDLEN
    BY ProcAssumption DEF TypeOK, Read
<1>3. /\ armed' \in [Slots -> {"none", "wait", "retry"}]
      /\ \A s \in Slots : armed'[s] = armed[s] \/ s = cur
    BY <1>1, ArmedFacts
<1>4. Quiet
    BY <1>3, SameTable DEF Read, Trap, Returns
<1> QED BY <1>2, <1>3, <1>4, UsedSame DEF TypeOK, Read, Returns

\* Setting one field of one process that the invariant ignores.
LEMMA FieldFacts ==
    ASSUME NEW ps \in Table, NEW c \in Slots, NEW n \in 0 .. SLICE, NEW qs,
           qs = [ps EXCEPT ![c].ticks = n] \/ qs = [ps EXCEPT ![c].term = TRUE]
    PROVE  /\ qs \in Table
           /\ \A s \in Slots : /\ qs[s].pid = ps[s].pid /\ qs[s].st = ps[s].st
                               /\ qs[s].entered = ps[s].entered
<1>1. \A s \in Slots : ps[s] \in Process
    BY DEF Table
<1>2. [ps[c] EXCEPT !.ticks = n] \in Process /\ [ps[c] EXCEPT !.term = TRUE] \in Process
    BY <1>1 DEF Process
<1>3. PICK r : /\ r = [ps[c] EXCEPT !.ticks = n] \/ r = [ps[c] EXCEPT !.term = TRUE]
               /\ qs = [ps EXCEPT ![c] = r]
    BY DEF Table
<1>4. r \in Process /\ r.pid = ps[c].pid /\ r.st = ps[c].st /\ r.entered = ps[c].entered
    BY <1>1, <1>2, <1>3 DEF Process
<1> QED BY <1>3, <1>4 DEF Table

LEMMA YieldStep ==
    ASSUME TypeOK, Yield PROVE TypeOK' /\ Quiet
<1>1. armed' \in {armed, [armed EXCEPT ![cur] = "retry"]}
    BY DEF Yield
<1>2. /\ armed' \in [Slots -> {"none", "wait", "retry"}]
      /\ \A s \in Slots : armed'[s] = armed[s] \/ s = cur
    BY <1>1, ArmedFacts
<1>3. SLICE \in 0 .. SLICE /\ cur \in Slots /\ proc \in Table
    BY Numbers DEF TypeOK, Table
<1>4. /\ proc' \in Table
      /\ \A s \in Slots : /\ proc'[s].pid = proc[s].pid /\ proc'[s].st = proc[s].st
                          /\ proc'[s].entered = proc[s].entered
    <2> DEFINE qs == [proc EXCEPT ![cur].ticks = SLICE]
    <2>1. /\ qs \in Table
          /\ \A s \in Slots : /\ qs[s].pid = proc[s].pid /\ qs[s].st = proc[s].st
                              /\ qs[s].entered = proc[s].entered
        BY <1>3, FieldFacts
    <2>2. proc' = qs
        BY DEF Yield
    <2> QED BY <2>1, <2>2, Zenon
<1>5. Quiet
    BY <1>2, <1>4 DEF Quiet, Yield, Returns, Trap
<1> QED BY <1>2, <1>4, <1>5, UsedSame DEF TypeOK, Yield, Returns, Table

LEMMA KillStep ==
    ASSUME TypeOK, NEW p \in Pids, Kill(p) PROVE TypeOK' /\ Quiet
<1>1. 0 \in 0 .. SLICE /\ SlotOf(proc, p) \in Slots /\ proc \in Table
    BY Numbers, SlotOfFacts DEF TypeOK, Kill, Users, Table
<1>2. /\ proc' \in Table
      /\ \A s \in Slots : /\ proc'[s].pid = proc[s].pid /\ proc'[s].st = proc[s].st
                          /\ proc'[s].entered = proc[s].entered
    <2> DEFINE qs == [proc EXCEPT ![SlotOf(proc, p)].term = TRUE]
    <2>1. /\ qs \in Table
          /\ \A s \in Slots : /\ qs[s].pid = proc[s].pid /\ qs[s].st = proc[s].st
                              /\ qs[s].entered = proc[s].entered
        BY <1>1, FieldFacts
    <2>2. proc' = qs
        BY DEF Kill
    <2> QED BY <2>1, <2>2, Zenon
<1>3. Quiet
    BY <1>2 DEF Quiet, Kill, Returns
<1> QED BY <1>2, <1>3, UsedSame DEF TypeOK, Kill, Returns, Table

LEMMA TimerStep ==
    ASSUME TypeOK, RunInv, Timer PROVE TypeOK' /\ Quiet
<1>1. cur \in Slots /\ Woken \in Table /\ Woken[cur] \in Process
    BY WokenFacts DEF TypeOK, Table
<1>2. CASE Counts
    <2>1. Woken[cur].ticks - 1 \in 0 .. SLICE
        BY <1>1, <1>2, Numbers DEF Process, Counts
    <2>2. proc' = [Woken EXCEPT ![cur].ticks = Woken[cur].ticks - 1]
        BY <1>1, <1>2 DEF Counts, Table
    <2>3. /\ proc' \in Table
          /\ \A s \in Slots : /\ proc'[s].pid = Woken[s].pid
                              /\ proc'[s].st = Woken[s].st
                              /\ proc'[s].entered = Woken[s].entered
        <3> DEFINE qs == [Woken EXCEPT ![cur].ticks = Woken[cur].ticks - 1]
        <3>1. /\ qs \in Table
              /\ \A s \in Slots : /\ qs[s].pid = Woken[s].pid /\ qs[s].st = Woken[s].st
                                  /\ qs[s].entered = Woken[s].entered
            BY <1>1, <2>1, FieldFacts
        <3> QED BY <3>1, <2>2, Zenon
    <2>4. Quiet
        BY <1>2, <2>3, WokenFacts DEF Quiet, Counts, mainVars
    <2> QED BY <1>2, <2>3, <2>4, UsedSame DEF TypeOK, Counts, mainVars, Table
<1>3. CASE Expires
    <2>1. SLICE \in 0 .. SLICE /\ NextSlot(Woken) \in Slots
        BY <1>1, Numbers, NextSlotType
    <2> DEFINE one == [Woken EXCEPT ![cur].ticks = SLICE]
    <2>2. /\ one \in Table
          /\ \A s \in Slots : /\ one[s].pid = Woken[s].pid /\ one[s].st = Woken[s].st
                              /\ one[s].entered = Woken[s].entered
        BY <1>1, <2>1, FieldFacts
    <2>3. proc' = [one EXCEPT ![NextSlot(Woken)].ticks = SLICE]
        BY <1>3 DEF Expires
    <2> HIDE DEF one
    <2>4. /\ proc' \in Table
          /\ \A s \in Slots : /\ proc'[s].pid = one[s].pid
                              /\ proc'[s].st = one[s].st
                              /\ proc'[s].entered = one[s].entered
        <3> DEFINE qs == [one EXCEPT ![NextSlot(Woken)].ticks = SLICE]
        <3>1. /\ qs \in Table
              /\ \A s \in Slots : /\ qs[s].pid = one[s].pid /\ qs[s].st = one[s].st
                                  /\ qs[s].entered = one[s].entered
            BY <2>1, <2>2, FieldFacts
        <3> QED BY <3>1, <2>3, Zenon
    <2>5. pc' = "ring3" <=> pc = "ring3"
        BY <1>3 DEF Expires, Preempts, RunInv
    <2>6. Quiet
        BY <1>3, <2>2, <2>4, <2>5, WokenFacts, ZenonT(40) DEF Quiet, Expires, mainVars
    <2> QED BY <1>3, <2>4, <2>6, UsedSame DEF TypeOK, Expires, mainVars, Table
<1> QED BY <1>2, <1>3 DEF Timer

-----------------------------------------------------------------------------
(* Entering ring 3                                                         *)

LEMMA EnterTable ==
    ASSUME TypeOK, Places, cur = 0, NEW s \in Slots \ {0}, NEW resumed,
           NEW by, Enter(s, resumed, by)
    PROVE  /\ proc' \in Table
           /\ \A t \in Slots : proc'[t].pid = proc[t].pid
           /\ \A t \in Slots \ {0, s} : proc'[t] = proc[t]
           /\ proc'[0].st = "ready" /\ proc'[0].entered = proc[0].entered
           /\ proc'[s].st = "running" /\ proc'[s].entered
<1> DEFINE sw == Switched(proc, cur, s)
           t == IF resumed THEN SLICE ELSE sw[s].ticks
           r == [sw[s] EXCEPT !.entered = TRUE, !.ticks = t]
<1>1. cur \in Slots /\ proc \in Table /\ proc[0].st = "running"
    BY Numbers DEF TypeOK, Table, Places, RunInv
<1>2. /\ sw \in Table
      /\ \A q \in Slots : /\ sw[q].pid = proc[q].pid
                          /\ sw[q].entered = proc[q].entered
                          /\ q # cur /\ q # s => sw[q] = proc[q]
      /\ sw[s].st = "running" /\ sw[cur].st = Demoted(proc[cur].st)
    BY <1>1, SwitchedFacts
<1>3. proc' = [sw EXCEPT ![s] = r]
    BY <1>2 DEF Enter, Table
<1> HIDE DEF sw
<1>4. sw[s] \in Process
    BY <1>2 DEF Table
<1>5. t \in 0 .. SLICE
    BY <1>4, Numbers DEF Process
<1> HIDE DEF t
<1>6. r \in Process /\ r.pid = sw[s].pid /\ r.st = sw[s].st /\ r.entered
    BY <1>4, <1>5 DEF Process
<1> HIDE DEF r
<1>7. proc' \in Table /\ proc'[s] = r /\ \A q \in Slots \ {s} : proc'[q] = sw[q]
    BY <1>2, <1>3, <1>6 DEF Table
<1> QED BY <1>1, <1>2, <1>6, <1>7 DEF Demoted

LEMMA EnterStep ==
    ASSUME TypeOK, Places, cur = 0, NEW s \in Users(proc), NEW resumed,
           NEW by, Enter(s, resumed, by), proc[s].st # "zombie",
           nextPid' = nextPid, armed' = armed,
           \A t \in Slots : stage'[t] = IF t = s THEN "none" ELSE stage[t]
    PROVE  PidInv' /\ RunInv' /\ ParksMatch' /\ DeadStay
<1>1. s \in Slots \ {0} /\ cur' = s /\ pc' = "ring3"
    BY DEF Users, Enter
<1>2. /\ \A t \in Slots : proc'[t].pid = proc[t].pid
      /\ \A t \in Slots \ {0, s} : proc'[t] = proc[t]
      /\ proc'[0].st = "ready" /\ proc'[0].entered = proc[0].entered
      /\ proc'[s].st = "running" /\ proc'[s].entered
    BY <1>1, EnterTable
<1>3. Users(proc') = Users(proc)
    BY <1>1, <1>2 DEF Users
<1>4. PidInv'
    BY <1>2, <1>3 DEF Places, PidInv, Users
<1>5. RunInv'
    BY <1>1, <1>2 DEF Places, RunInv, Users
<1>6. ParksMatch'
    <2>1. \A t \in Slots : armed[t] = "none"
        BY DEF Places, ParksMatch, ArmedIsMine, RunInv
    <2>2. stage[0] = "none" /\ proc[0].st = "running"
        BY Numbers DEF Places, ParksMatch, RunInv
    <2> QED BY <1>1, <1>2, <2>1, <2>2 DEF Places, ParksMatch, ArmedIsMine
<1>7. DeadStay
    BY <1>1, <1>2, Numbers DEF DeadStay, Places, RunInv
<1> QED BY <1>4, <1>5, <1>6, <1>7

\* The number of used entries
LEMMA UsedFacts ==
    ASSUME TypeOK
    PROVE  /\ UsedEntries \subseteq 1 .. QLEN /\ IsFiniteSet(UsedEntries)
           /\ Cardinality(UsedEntries) \in Nat
           /\ \A e \in 1 .. QLEN : e \in UsedEntries <=> queue[e] # 0
           /\ \A e \in UsedEntries : queue[e] \in Pids
<1>1. UsedEntries \subseteq 1 .. QLEN
    BY DEF UsedEntries
<1>2. IsFiniteSet(1 .. QLEN)
    BY Numbers, FS_Interval
<1>3. IsFiniteSet(UsedEntries) /\ Cardinality(UsedEntries) \in Nat
    BY <1>1, <1>2, FS_Subset, FS_CardinalityType
<1>4. \A e \in 1 .. QLEN : e \in UsedEntries <=> queue[e] # 0
    BY DEF UsedEntries, FreeEntries
<1>5. \A e \in UsedEntries : queue[e] \in Pids
    BY <1>1, <1>4, Numbers DEF TypeOK, Pids
<1> QED BY <1>1, <1>3, <1>4, <1>5

LEMMA DrainNextStep ==
    ASSUME ProcInv, DrainNext PROVE ProcInv' /\ DeadStay
<1> DEFINE e == NextEntry
           p == queue[e]
           s == SlotOf(proc, p)
<1>0. TypeOK /\ Places
    BY DEF ProcInv, Places
<1>1. e \in UsedEntries /\ e \in 1 .. QLEN
    BY <1>0, UsedFacts, MinIn DEF DrainNext, Pending, NextEntry
<1>2. PICK u \in Users(proc) : proc[u].pid = p /\ proc[u].st = "ready" /\ ~proc[u].entered
    BY <1>0, <1>1 DEF Places, QueueInv
<1>3. Live(proc, p) /\ s = u
    <2>1. Live(proc, p)
        BY <1>2 DEF Live
    <2>2. s \in Users(proc) /\ proc[s].pid = p
        BY <2>1, SlotOfFacts
    <2> QED BY <1>0, <1>2, <2>1, <2>2 DEF Places, PidInv
<1>4. ~Resumes(p) /\ Enterable(p)
    BY <1>2, <1>3 DEF Resumes, Enterable
<1>5. /\ queue' = [queue EXCEPT ![e] = 0] /\ arrived' = Without(arrived, p)
      /\ stage' = stage /\ Enter(u, Resumes(p), "drain") /\ pc = "drain"
      /\ UNCHANGED <<nextPid, armed, canExit, spin, runWait, initArmed, kbd,
                     wakeArmed, lines>>
    BY <1>3, <1>4 DEF DrainNext
<1>6. cur = 0 /\ stage[u] = "none"
    BY <1>0, <1>2, <1>5 DEF Places, RunInv, ParksMatch, Users
<1> HIDE DEF e, p, s
<1>7. PidInv' /\ RunInv' /\ ParksMatch' /\ DeadStay
    BY <1>0, <1>2, <1>5, <1>6, EnterStep
<1>8. u \in Slots \ {0} /\ cur' = u /\ pc' = "ring3" /\ busy' = TRUE /\ via' = "drain"
    BY <1>2, <1>5 DEF Users, Enter
<1>9. proc' \in Table /\ \A t \in Slots \ {0, u} : proc'[t] = proc[t]
    BY <1>0, <1>5, <1>6, <1>8, EnterTable
<1>10. queue \in [1 .. QLEN -> 0 .. MaxPid]
    BY <1>0 DEF TypeOK
<1>11. /\ queue' \in [1 .. QLEN -> 0 .. MaxPid] /\ UsedEntries' = UsedEntries \ {e}
       /\ \A f \in UsedEntries' : queue'[f] = queue[f]
    BY <1>1, <1>5, <1>10, Numbers DEF UsedEntries, FreeEntries
<1>12. QueueInv'
    <2>1. \A f \in UsedEntries' : queue[f] # p
        BY <1>0, <1>1, <1>11 DEF Places, QueueInv, p
    <2>2. ASSUME NEW f \in UsedEntries'
          PROVE  \E t \in Users(proc') : /\ proc'[t].pid = queue'[f]
                                        /\ proc'[t].st = "ready" /\ ~proc'[t].entered
        <3>1. PICK t \in Users(proc) : /\ proc[t].pid = queue[f]
                                       /\ proc[t].st = "ready" /\ ~proc[t].entered
            BY <1>0, <1>11 DEF Places, QueueInv
        <3>2. t # u /\ t \in Slots \ {0}
            BY <1>2, <2>1, <3>1 DEF Users
        <3> QED BY <1>9, <1>11, <3>1, <3>2 DEF Users
    <2> QED BY <1>0, <1>11, <2>2 DEF Places, QueueInv
<1>13. /\ arrived' \in Seq(Pids) /\ Len(arrived') = Len(arrived) - 1
       /\ \A i \in 1 .. Len(arrived) : arrived[i] # p =>
             \E j \in 1 .. Len(arrived') : arrived'[j] = arrived[i]
    <2>1. arrived \in Seq(Pids) /\ \E i \in 1 .. Len(arrived) : arrived[i] = p
        BY <1>0, <1>1 DEF TypeOK, Places, ArrivedInv, p
    <2> DEFINE rest == Without(arrived, p)
    <2>2. /\ rest \in Seq(Pids) /\ Len(rest) = Len(arrived) - 1
          /\ \A i \in 1 .. Len(arrived) : arrived[i] # p =>
                \E j \in 1 .. Len(rest) : rest[j] = arrived[i]
        BY <2>1, WithoutFacts
    <2>3. arrived' = rest
        BY <1>5
    <2> HIDE DEF rest
    <2> QED BY <2>2, <2>3
<1>14. ArrivedInv'
    <2>1. \A f \in UsedEntries' : queue[f] # p
        BY <1>0, <1>1, <1>11 DEF Places, QueueInv, p
    <2>2. ASSUME NEW f \in UsedEntries'
          PROVE  \E j \in 1 .. Len(arrived') : arrived'[j] = queue'[f]
        <3>1. PICK i \in 1 .. Len(arrived) : arrived[i] = queue[f]
            BY <1>0, <1>11 DEF Places, ArrivedInv
        <3> QED BY <1>11, <1>13, <2>1, <3>1
    <2> QED BY <2>2 DEF ArrivedInv
<1>15. Len(arrived') = Cardinality(UsedEntries')
    BY <1>0, <1>1, <1>11, <1>13, UsedFacts, FS_RemoveElement DEF TypeOK
<1>16. TypeOK'
    BY <1>0, <1>5, <1>8, <1>9, <1>11, <1>13, <1>15 DEF TypeOK, Table
<1> QED BY <1>7, <1>12, <1>14, <1>16 DEF ProcInv

LEMMA WakeReaderStep ==
    ASSUME ProcInv, WakeReader PROVE ProcInv' /\ DeadStay
<1> DEFINE s == Min(Readers)
<1>0. TypeOK /\ Places
    BY DEF ProcInv, Places
<1>1. s \in Users(proc) /\ proc[s].st = "blocked" /\ proc[s].entered /\ s \in Slots \ {0}
    <2>1. Readers \subseteq Nat
        BY Numbers DEF Readers, Users
    <2>2. s \in Readers
        BY <2>1, MinIn DEF WakeReader
    <2> HIDE DEF s
    <2> QED BY <2>2 DEF Readers, Users
<1>2. /\ pc = "wake" /\ Enter(s, TRUE, "wake") /\ stage' = [stage EXCEPT ![s] = "none"]
      /\ wakeArmed' = FALSE
      /\ UNCHANGED <<nextPid, armed, canExit, spin, queue, arrived, runWait, initArmed,
                     kbd, lines>>
    BY DEF WakeReader
<1> HIDE DEF s
<1>3. stage' \in [Slots -> {"none", "wait", "retry"}]
      /\ \A t \in Slots : stage'[t] = IF t = s THEN "none" ELSE stage[t]
    BY <1>0, <1>1, <1>2 DEF TypeOK
<1>4. cur = 0
    BY <1>0, <1>2 DEF Places, RunInv
<1>5. PidInv' /\ RunInv' /\ ParksMatch' /\ DeadStay
    BY <1>0, <1>1, <1>2, <1>3, <1>4, EnterStep
<1>6. cur' = s /\ pc' = "ring3" /\ busy' = TRUE /\ via' = "wake"
    BY <1>2 DEF Enter
<1>7. proc' \in Table /\ \A t \in Slots \ {0, s} : proc'[t] = proc[t]
    BY <1>0, <1>1, <1>2, <1>4, EnterTable
<1>8. UsedEntries' = UsedEntries /\ queue' = queue
    BY <1>2 DEF UsedEntries, FreeEntries
<1>9. QueueInv'
    <2>1. ASSUME NEW f \in UsedEntries
          PROVE  \E t \in Users(proc') : /\ proc'[t].pid = queue[f]
                                        /\ proc'[t].st = "ready" /\ ~proc'[t].entered
        <3>1. PICK t \in Users(proc) : /\ proc[t].pid = queue[f]
                                       /\ proc[t].st = "ready" /\ ~proc[t].entered
            BY <1>0, <1>8 DEF Places, QueueInv
        <3>2. t # s /\ t \in Slots \ {0}
            BY <1>1, <3>1 DEF Users
        <3> QED BY <1>7, <3>1, <3>2 DEF Users
    <2> QED BY <1>0, <1>8, <2>1 DEF Places, QueueInv
<1>10. ArrivedInv'
    BY <1>0, <1>2, <1>8 DEF Places, ArrivedInv
<1>11. TypeOK'
    BY <1>0, <1>1, <1>2, <1>3, <1>6, <1>7, <1>8 DEF TypeOK, Table
<1> QED BY <1>5, <1>9, <1>10, <1>11 DEF ProcInv

-----------------------------------------------------------------------------
(* Leaving ring 3                                                          *)

\* What the trap leaves of the table: the program is parked, dead or gone, and
\* parked processes may have been woken.
Left(ps) ==
    /\ ps \in Table
    /\ ps[cur].st \in {"blocked", "zombie", "unused"}
    /\ ps[cur].st # "unused" => ps[cur].pid = proc[cur].pid
    /\ ps[cur].st = "blocked" => ps[cur].entered
    /\ \A s \in Slots \ {cur} :
          /\ ps[s].pid = proc[s].pid /\ ps[s].entered = proc[s].entered
          /\ \/ ps[s].st = proc[s].st
             \/ proc[s].st = "blocked" /\ ps[s].st = "ready"

LEMMA HomeStep ==
    ASSUME TypeOK, Places, pc = "ring3", NEW ps, Left(ps), Home(ps),
           UNCHANGED <<nextPid, queue, arrived>>,
           \A s \in Slots : armed'[s] = "none",
           \A s \in Slots \ {cur} : stage'[s] = stage[s],
           stage'[cur] # "none" <=> ps[cur].st = "blocked"
    PROVE  /\ proc' \in Table /\ cur' = 0 /\ pc' \in {"drain", "keys"}
           /\ Places' /\ DeadStay
<1>1. cur \in Slots /\ cur # 0 /\ 0 \in Slots /\ proc[cur].st = "running"
    BY Numbers DEF TypeOK, Places, RunInv
<1>2. cur' = 0 /\ pc' \in {"drain", "keys"} /\ proc' = Switched(ps, cur, 0)
    BY DEF Home
<1>3. /\ proc' \in Table
      /\ \A s \in Slots : proc'[s].pid = ps[s].pid /\ proc'[s].entered = ps[s].entered
      /\ \A s \in Slots \ {cur, 0} : proc'[s].st = ps[s].st
      /\ proc'[0].st = "running" /\ proc'[cur].st = ps[cur].st
    <2> DEFINE sw == Switched(ps, cur, 0)
    <2>1. /\ sw \in Table
          /\ \A s \in Slots : /\ sw[s].pid = ps[s].pid /\ sw[s].entered = ps[s].entered
                              /\ s # cur /\ s # 0 => sw[s] = ps[s]
          /\ sw[0].st = "running" /\ sw[cur].st = Demoted(ps[cur].st)
        BY <1>1, SwitchedFacts DEF Left
    <2>2. proc' = sw
        BY <1>2
    <2>3. Demoted(ps[cur].st) = ps[cur].st
        BY DEF Left, Demoted
    <2> HIDE DEF sw
    <2> QED BY <2>1, <2>2, <2>3
<1>4. \A s \in Slots \ {cur, 0} :
          /\ proc'[s].pid = proc[s].pid /\ proc'[s].entered = proc[s].entered
          /\ \/ proc'[s].st = proc[s].st
             \/ proc[s].st = "blocked" /\ proc'[s].st = "ready"
    BY <1>3 DEF Left
<1>5. \A s \in Users(proc') : s \in Users(proc) /\ proc'[s].pid = proc[s].pid
    BY <1>1, <1>3, <1>4 DEF Users, Left
<1>6. PidInv'
    BY <1>5 DEF Places, PidInv
<1>7. RunInv'
    <2>1. \A s \in Slots \ {cur} : proc[s].st # "running"
        BY DEF Places, RunInv
    <2>2. ps[cur].st # "running"
        BY DEF Left
    <2>3. \A s \in Slots : proc'[s].st = "running" <=> s = 0
        BY <1>1, <1>3, <1>4, <2>1, <2>2
    <2>4. ~proc'[0].entered
        BY <1>1, <1>3 DEF Places, RunInv, Left
    <2> QED BY <1>2, <1>3, <2>3, <2>4 DEF RunInv
<1>8. ParksMatch'
    <2>1. \A s \in Slots \ {cur, 0} :
              /\ proc'[s].st = "blocked" => stage'[s] # "none"
              /\ stage'[s] # "none" =>
                    proc'[s].st \in {"blocked", "ready"} /\ proc'[s].entered
        BY <1>4 DEF Places, ParksMatch
    <2>2. stage'[0] = "none"
        BY <1>1 DEF Places, ParksMatch, RunInv
    <2>3. /\ proc'[cur].st = "blocked" => stage'[cur] # "none"
          /\ stage'[cur] # "none" =>
                proc'[cur].st \in {"blocked", "ready"} /\ proc'[cur].entered
        BY <1>1, <1>3 DEF Left
    <2> QED BY <1>1, <1>3, <2>1, <2>2, <2>3 DEF ParksMatch, ArmedIsMine
<1>9. UsedEntries' = UsedEntries /\ queue' = queue
    BY DEF UsedEntries, FreeEntries
<1>10. QueueInv'
    <2>1. ASSUME NEW f \in UsedEntries
          PROVE  \E t \in Users(proc') : /\ proc'[t].pid = queue[f]
                                        /\ proc'[t].st = "ready" /\ ~proc'[t].entered
        <3>1. PICK t \in Users(proc) : /\ proc[t].pid = queue[f]
                                       /\ proc[t].st = "ready" /\ ~proc[t].entered
            BY <2>1 DEF Places, QueueInv
        <3>2. t # cur /\ t # 0 /\ t \in Slots
            BY <1>1, <3>1 DEF Users
        <3> QED BY <1>4, <3>1, <3>2 DEF Users
    <2> QED BY <1>9, <2>1 DEF Places, QueueInv
<1>11. ArrivedInv'
    BY <1>9 DEF Places, ArrivedInv
<1>12. DeadStay
    <2>1. ASSUME NEW s \in Slots, proc[s].st = "zombie"
          PROVE  proc'[s].st = "zombie" /\ proc'[s].pid = proc[s].pid
        <3>1. CASE s = 0
            BY <2>1, <3>1 DEF Places, RunInv
        <3>2. CASE s # 0
            BY <1>1, <1>4, <2>1, <3>2
        <3> QED BY <3>1, <3>2
    <2> QED BY <2>1 DEF DeadStay
<1> QED BY <1>2, <1>3, <1>6, <1>7, <1>8, <1>10, <1>11, <1>12 DEF Places

LEMMA ParkStep ==
    ASSUME ProcInv, Park PROVE ProcInv' /\ DeadStay
<1> DEFINE r == [proc[cur] EXCEPT !.st = ParkedState, !.ticks = SLICE]
           ps == [proc EXCEPT ![cur].st = ParkedState, ![cur].ticks = SLICE]
<1>0. TypeOK /\ Places
    BY DEF ProcInv, Places
<1>1. /\ proc \in Table /\ cur \in Slots /\ proc[cur] \in Process
      /\ pc = "ring3" /\ cur # 0 /\ proc[cur].entered
    BY <1>0 DEF TypeOK, Table, Park, Places, RunInv
<1>2. ps = [proc EXCEPT ![cur] = r]
    BY <1>1 DEF Table
<1>3. SLICE \in 0 .. SLICE
    BY Numbers
<1>4. r \in Process /\ r.st = "blocked" /\ r.pid = proc[cur].pid /\ r.entered
    BY <1>1, <1>3 DEF Process, ParkedState
<1>5. Home(ps) /\ UNCHANGED <<nextPid, queue, arrived>>
    BY DEF Park, mainVars
<1> HIDE DEF r, ps
<1>6. Left(ps) /\ ps[cur].st = "blocked"
    BY <1>1, <1>2, <1>4 DEF Left, Table
<1>7. /\ armed' \in [Slots -> {"none", "wait", "retry"}]
      /\ \A s \in Slots : armed'[s] = "none"
    BY <1>0, <1>1 DEF Park, TypeOK, Places, ParksMatch, ArmedIsMine
<1>8. /\ stage' \in [Slots -> {"none", "wait", "retry"}]
      /\ \A s \in Slots \ {cur} : stage'[s] = stage[s]
      /\ stage'[cur] # "none"
    BY <1>0, <1>1 DEF Park, TypeOK, Staged
<1>9. /\ proc' \in Table /\ cur' = 0 /\ pc' \in {"drain", "keys"}
      /\ Places' /\ DeadStay
    BY <1>0, <1>1, <1>5, <1>6, <1>7, <1>8, HomeStep
<1>10. canExit' \in BOOLEAN /\ busy' \in BOOLEAN
    BY <1>0 DEF Park, TypeOK
<1>11. TypeOK'
    BY <1>0, <1>7, <1>8, <1>9, <1>10, Numbers, UsedSame DEF TypeOK, Park, Table, mainVars
<1> QED BY <1>9, <1>11 DEF ProcInv, Places

\* sys_proc_exit_current: the program is dead, its parked parent awake.
LEMMA ZombiedFacts ==
    ASSUME TypeOK, Places, cur # 0
    PROVE  Left(Zombied) /\ Zombied[cur].st = "zombie"
<1> DEFINE par == proc[cur].parent
           ps == [proc EXCEPT ![cur].st = "zombie"]
           q == SlotOf(ps, par)
           up == [ps EXCEPT ![q].st = "ready"]
<1>1. proc \in Table /\ cur \in Slots /\ \A s \in Slots : proc[s] \in Process
    BY DEF TypeOK, Table
<1>2. [proc[cur] EXCEPT !.st = "zombie"] \in Process
    BY <1>1 DEF Process
<1>3. ps = [proc EXCEPT ![cur] = [proc[cur] EXCEPT !.st = "zombie"]]
    BY <1>1 DEF Table
<1>4. /\ ps \in Table /\ ps[cur].st = "zombie" /\ ps[cur].pid = proc[cur].pid
      /\ \A s \in Slots \ {cur} : ps[s] = proc[s]
    BY <1>1, <1>2, <1>3 DEF Table, Process
<1>5. Zombied = IF Live(ps, par) /\ Waits(ps[q].st) THEN up ELSE ps
    BY DEF Zombied
<1> HIDE DEF ps
<1>6. CASE ~(Live(ps, par) /\ Waits(ps[q].st))
    BY <1>4, <1>5, <1>6 DEF Left
<1>7. CASE Live(ps, par) /\ Waits(ps[q].st)
    <2>1. q \in Slots /\ ps[q].st = "blocked" /\ q # cur
        BY <1>4, <1>7, SlotOfFacts DEF Users, Waits
    <2> HIDE DEF q
    <2>2. ps[q] \in Process
        BY <1>4, <2>1 DEF Table
    <2> DEFINE r == [ps[q] EXCEPT !.st = "ready"]
    <2>3. r \in Process /\ r.st = "ready" /\ r.pid = ps[q].pid /\ r.entered = ps[q].entered
        BY <2>2 DEF Process
    <2>4. up = [ps EXCEPT ![q] = r]
        BY <1>4, <2>1 DEF Table
    <2> HIDE DEF r, up
    <2>5. /\ up \in Table /\ up[q] = r
          /\ \A s \in Slots \ {q} : up[s] = ps[s]
        BY <1>4, <2>1, <2>3, <2>4 DEF Table
    <2> QED BY <1>1, <1>4, <1>5, <1>7, <2>1, <2>3, <2>5 DEF Left
<1> QED BY <1>6, <1>7

LEMMA ExitStep ==
    ASSUME ProcInv, Exit PROVE ProcInv' /\ DeadStay
<1> DEFINE reap == via = "drain" /\ (Me = runWait \/ proc[cur].parent = 0)
           tm == Zombied[cur].term /\ via = "wake"
           r == [Zombied[cur] EXCEPT !.term = tm]
           ps == [Zombied EXCEPT ![cur].term = @ /\ via = "wake"]
           qs == IF reap THEN Reaped(ps, cur) ELSE ps
<1>0. TypeOK /\ Places
    BY DEF ProcInv, Places
<1>1. /\ cur \in Slots /\ pc = "ring3" /\ cur # 0 /\ armed[cur] = "none"
      /\ cur \in Users(proc) /\ proc[cur].pid \in 1 .. nextPid - 1
    BY <1>0 DEF TypeOK, Exit, MayExit, Trap, Places, RunInv, PidInv, Users
<1>2. Left(Zombied) /\ Zombied[cur].st = "zombie" /\ Zombied \in Table
    BY <1>0, <1>1, ZombiedFacts DEF Left
<1>3. tm \in BOOLEAN /\ Zombied[cur] \in Process
    BY <1>1, <1>2 DEF Table
<1>4. ps = [Zombied EXCEPT ![cur] = r]
    BY <1>1, <1>2 DEF Table
<1>5. /\ Home(qs) /\ UNCHANGED <<nextPid, queue, arrived, armed, via, spin, initArmed,
                                  kbd, wakeArmed, lines>>
      /\ stage' = IF reap THEN [stage EXCEPT ![cur] = "none"] ELSE stage
      /\ runWait' = IF reap /\ Me = runWait THEN 0 ELSE runWait
      /\ canExit' = FALSE /\ busy' = (busy /\ Pending)
    BY DEF Exit
<1> HIDE DEF tm, ps
<1>6. r \in Process /\ r.st = "zombie" /\ r.pid = Zombied[cur].pid
    BY <1>2, <1>3 DEF Process
<1> HIDE DEF r
<1>7. Left(ps) /\ ps[cur].st = "zombie"
    BY <1>1, <1>2, <1>4, <1>6 DEF Left, Table
<1>8. MaxPid > 0
    BY <1>0, <1>1, Numbers DEF TypeOK
<1>9. Left(qs) /\ qs[cur].st # "blocked"
    <2>1. CASE ~reap
        BY <1>7, <2>1
    <2>2. CASE reap
        <3>1. ps \in Table
            BY <1>7 DEF Left
        <3> DEFINE re == Reaped(ps, cur)
        <3>2. /\ re \in Table /\ re[cur] = Free
              /\ \A s \in Slots \ {cur} : /\ re[s].pid = ps[s].pid /\ re[s].st = ps[s].st
                                          /\ re[s].entered = ps[s].entered
            BY <1>1, <1>8, <3>1, ReapedFacts
        <3>3. qs = re
            BY <2>2
        <3>4. Free.st = "unused"
            BY DEF Free
        <3> HIDE DEF re, qs, reap
        <3> QED BY <1>1, <1>7, <3>2, <3>3, <3>4 DEF Left
    <2> QED BY <2>1, <2>2
<1>10. stage[cur] = "none"
    BY <1>0, <1>1 DEF Places, ParksMatch, RunInv
<1>11. /\ stage' \in [Slots -> {"none", "wait", "retry"}]
       /\ \A s \in Slots \ {cur} : stage'[s] = stage[s]
       /\ stage'[cur] = "none"
    BY <1>0, <1>1, <1>5, <1>10 DEF TypeOK
<1>12. \A s \in Slots : armed'[s] = "none"
    BY <1>0, <1>1, <1>5 DEF Places, ParksMatch, ArmedIsMine
<1> HIDE DEF qs
<1>13. /\ proc' \in Table /\ cur' = 0 /\ pc' \in {"drain", "keys"}
       /\ Places' /\ DeadStay
    BY <1>0, <1>1, <1>5, <1>9, <1>11, <1>12, HomeStep
<1>14. runWait' \in 0 .. MaxPid
    BY <1>0, <1>5, Numbers DEF TypeOK
<1>15. busy' \in BOOLEAN
    BY <1>0, <1>5 DEF TypeOK
<1>16. TypeOK'
    BY <1>0, <1>5, <1>11, <1>13, <1>14, <1>15, Numbers, UsedSame DEF TypeOK, Table
<1> QED BY <1>13, <1>16 DEF ProcInv, Places

-----------------------------------------------------------------------------
(* Making processes                                                        *)

Used(q) == {e \in 1 .. QLEN : q[e] # 0}

\* The parts of the invariant that a new process can disturb, of a table, the
\* next pid, a queue and an order of arrival.
Stocked(ps, np, q, ar) ==
    /\ ps \in Table /\ np \in Nat \ {0}
    /\ \A s \in Users(ps) :
          /\ ps[s].pid \in 1 .. np - 1
          /\ \A t \in Users(ps) : ps[s].pid = ps[t].pid => s = t
    /\ q \in [1 .. QLEN -> 0 .. MaxPid]
    /\ \A e, f \in Used(q) : q[e] = q[f] => e = f
    /\ \A e \in Used(q) : \E s \in Users(ps) :
          ps[s].pid = q[e] /\ ps[s].st = "ready" /\ ~ps[s].entered
    /\ ar \in Seq(Pids) /\ Len(ar) = Cardinality(Used(q))
    /\ \A e \in Used(q) : \E i \in 1 .. Len(ar) : ar[i] = q[e]

\* Slots that were free hold new processes, the others what they held.
Grown(ps, qs) ==
    \A s \in Slots : \/ qs[s] = ps[s]
                     \/ /\ s # 0 /\ ps[s].st = "unused"
                        /\ qs[s].st = "ready" /\ ~qs[s].entered

LEMMA UsedIs == UsedEntries = Used(queue)
BY DEF UsedEntries, FreeEntries, Used

LEMMA StockedNow ==
    ASSUME TypeOK, Places PROVE Stocked(proc, nextPid, queue, arrived)
BY UsedIs, Numbers DEF Stocked, TypeOK, Places, PidInv, QueueInv, ArrivedInv, Table

LEMMA GrownStep ==
    ASSUME TypeOK, Places, UNCHANGED <<cur, stage, armed, pc>>,
           Grown(proc, proc'), Stocked(proc', nextPid', queue', arrived')
    PROVE  Places' /\ DeadStay
<1>1. PidInv'
    BY DEF Stocked, PidInv
<1>2. UsedEntries' = Used(queue')
    BY DEF UsedEntries, FreeEntries, Used
<1>3. QueueInv' /\ ArrivedInv'
    BY <1>2 DEF Stocked, QueueInv, ArrivedInv
<1>4. RunInv'
    BY Numbers DEF TypeOK, Places, RunInv, Grown
<1>5. ParksMatch'
    BY DEF Places, ParksMatch, ArmedIsMine, Grown
<1>6. DeadStay
    BY DEF DeadStay, Grown
<1> QED BY <1>1, <1>3, <1>4, <1>5, <1>6 DEF Places

LEMMA MakeOne ==
    ASSUME NEW ps, NEW np, NEW q, NEW ar, Stocked(ps, np, q, ar), np <= MaxPid,
           Unused(ps) # {}, NEW par \in 0 .. MaxPid, NEW w \in Windows \cup {"none"}
    PROVE  LET qs == Add(ps, Fresh(np, par, w))
           IN  /\ Stocked(qs, np + 1, q, ar) /\ Grown(ps, qs) /\ qs # ps
               /\ \E u \in Users(qs) :
                     qs[u].pid = np /\ qs[u].st = "ready" /\ ~qs[u].entered
               /\ \A s \in Users(ps) : qs[s] = ps[s]
               /\ \A e \in 1 .. QLEN : q[e] # np
<1> DEFINE new == Fresh(np, par, w)
           qs == Add(ps, new)
<1>1. ps \in Table /\ np \in Nat /\ np > 0 /\ np \in 0 .. MaxPid
    BY Numbers DEF Stocked
<1>2. new \in Process /\ new.pid = np /\ new.st = "ready" /\ ~new.entered
    BY <1>1, FreshType
<1> HIDE DEF new
<1>3. PICK u \in Unused(ps) : qs = [ps EXCEPT ![u] = new]
    BY <1>1, <1>2, AddFacts
<1>4. u \in Slots /\ u # 0 /\ ps[u].st = "unused"
    BY DEF Unused
<1> HIDE DEF qs
<1>5. /\ qs \in Table /\ qs[u] = new /\ \A s \in Slots \ {u} : qs[s] = ps[s]
    BY <1>1, <1>2, <1>3, <1>4 DEF Table
<1>6. Users(qs) = Users(ps) \cup {u} /\ u \notin Users(ps)
    BY <1>2, <1>4, <1>5 DEF Users
<1>7. \A s \in Users(ps) : qs[s] = ps[s] /\ ps[s].pid \in 1 .. np - 1
    BY <1>5, <1>6 DEF Users, Stocked
<1>8. \A s \in Users(qs) :
          /\ qs[s].pid \in 1 .. (np + 1) - 1
          /\ \A t \in Users(qs) : qs[s].pid = qs[t].pid => s = t
    <2>1. \A s \in Users(ps) : ps[s].pid # np /\ ps[s].pid \in 1 .. (np + 1) - 1
        BY <1>1, <1>7
    <2>2. np \in 1 .. (np + 1) - 1
        BY <1>1
    <2>3. \A s, t \in Users(ps) : ps[s].pid = ps[t].pid => s = t
        BY DEF Stocked
    <2>4. \A s \in Users(qs) : qs[s].pid \in 1 .. (np + 1) - 1
        BY <1>2, <1>5, <1>6, <1>7, <2>1, <2>2
    <2>5. ASSUME NEW s \in Users(qs), NEW t \in Users(qs), qs[s].pid = qs[t].pid
          PROVE  s = t
        BY <1>2, <1>5, <1>6, <1>7, <2>1, <2>3, <2>5
    <2> QED BY <2>4, <2>5
<1>9. \A e \in Used(q) : \E s \in Users(qs) :
          qs[s].pid = q[e] /\ qs[s].st = "ready" /\ ~qs[s].entered
    BY <1>6, <1>7 DEF Stocked
<1>10. Stocked(qs, np + 1, q, ar)
    <2>1. np + 1 \in Nat \ {0}
        BY <1>1
    <2> QED BY <1>5, <1>8, <1>9, <2>1 DEF Stocked
<1>11. Grown(ps, qs) /\ qs # ps
    BY <1>2, <1>4, <1>5 DEF Grown
<1>12. \A e \in 1 .. QLEN : q[e] # np
    <2>1. ASSUME NEW e \in 1 .. QLEN, q[e] = np PROVE FALSE
        <3>1. e \in Used(q)
            BY <1>1, <2>1 DEF Used
        <3>2. PICK s \in Users(ps) : ps[s].pid = q[e]
            BY <3>1 DEF Stocked
        <3> QED BY <1>1, <1>7, <2>1, <3>2
    <2> QED BY <2>1
<1> USE DEF qs, new
<1> QED
    <2>1. \E v \in Users(qs) : qs[v].pid = np /\ qs[v].st = "ready" /\ ~qs[v].entered
        BY <1>2, <1>5, <1>6
    <2>2. \A s \in Users(ps) : qs[s] = ps[s]
        BY <1>7
    <2> QED BY <1>10, <1>11, <1>12, <2>1, <2>2, Zenon

LEMMA EnqueueOne ==
    ASSUME NEW ps, NEW np, NEW q, NEW ar, Stocked(ps, np, q, ar), NEW p \in Pids,
           \E e \in 1 .. QLEN : q[e] = 0, \A e \in 1 .. QLEN : q[e] # p,
           \E s \in Users(ps) : ps[s].pid = p /\ ps[s].st = "ready" /\ ~ps[s].entered
    PROVE  /\ Stocked(ps, np, Enqueued(q, p), Append(ar, p))
           /\ \E f \in 1 .. QLEN : /\ q[f] = 0
                                   /\ \A e \in 1 .. QLEN : Enqueued(q, p)[e] =
                                         IF e = f THEN p ELSE q[e]
<1> DEFINE free == {e \in 1 .. QLEN : q[e] = 0}
           f == Min(free)
           n == Enqueued(q, p)
           a == Append(ar, p)
<1>0. q \in [1 .. QLEN -> 0 .. MaxPid] /\ ar \in Seq(Pids) /\ p \in 0 .. MaxPid /\ p # 0
    BY Numbers DEF Stocked, Pids
<1>1. f \in 1 .. QLEN /\ q[f] = 0
    <2>1. free \subseteq Nat /\ free # {}
        BY Numbers
    <2>2. f \in free
        BY <2>1, MinIn
    <2> HIDE DEF f
    <2> QED BY <2>2
<1>2. n = [q EXCEPT ![f] = p]
    BY DEF Enqueued
<1> HIDE DEF f, n, free
<1>3. /\ n \in [1 .. QLEN -> 0 .. MaxPid]
      /\ \A e \in 1 .. QLEN : n[e] = IF e = f THEN p ELSE q[e]
    BY <1>0, <1>1, <1>2
<1>4. Used(n) = Used(q) \cup {f} /\ f \notin Used(q)
    BY <1>0, <1>1, <1>3 DEF Used
<1>5. IsFiniteSet(Used(q))
    <2>1. IsFiniteSet(1 .. QLEN) /\ Used(q) \subseteq 1 .. QLEN
        BY Numbers, FS_Interval DEF Used
    <2> QED BY <2>1, FS_Subset
<1>6. Cardinality(Used(n)) = Cardinality(Used(q)) + 1
    BY <1>4, <1>5, FS_AddElement
<1>7. /\ a \in Seq(Pids) /\ Len(a) = Len(ar) + 1 /\ a[Len(ar) + 1] = p
      /\ \A i \in 1 .. Len(ar) : a[i] = ar[i]
    BY <1>0, AppendProperties
<1>8. Len(ar) \in Nat
    BY <1>0, LenProperties
<1> HIDE DEF a
<1>9. \A e \in Used(n) : \E i \in 1 .. Len(a) : a[i] = n[e]
    <2>1. ASSUME NEW e \in Used(n) PROVE \E i \in 1 .. Len(a) : a[i] = n[e]
        <3>1. CASE e = f
            BY <1>1, <1>3, <1>7, <1>8, <3>1
        <3>2. CASE e # f
            <4>1. e \in Used(q) /\ e \in 1 .. QLEN
                BY <1>4, <2>1, <3>2 DEF Used
            <4>2. PICK i \in 1 .. Len(ar) : ar[i] = q[e]
                BY <4>1 DEF Stocked
            <4>3. i \in 1 .. Len(a)
                BY <1>7, <1>8
            <4> QED BY <1>3, <1>7, <3>2, <4>1, <4>2, <4>3
        <3> QED BY <3>1, <3>2
    <2> QED BY <2>1
<1>10. \A e \in Used(n) : \E s \in Users(ps) :
          ps[s].pid = n[e] /\ ps[s].st = "ready" /\ ~ps[s].entered
    <2>1. ASSUME NEW e \in Used(n)
          PROVE  \E s \in Users(ps) :
                    ps[s].pid = n[e] /\ ps[s].st = "ready" /\ ~ps[s].entered
        <3>1. CASE e = f
            BY <1>1, <1>3, <3>1
        <3>2. CASE e # f
            <4>1. e \in Used(q) /\ n[e] = q[e]
                BY <1>3, <1>4, <2>1, <3>2 DEF Used
            <4> QED BY <4>1 DEF Stocked
        <3> QED BY <3>1, <3>2
    <2> QED BY <2>1
<1>11. \A e, g \in Used(n) : n[e] = n[g] => e = g
    BY <1>1, <1>3, <1>4 DEF Stocked, Used
<1>12. Len(a) = Cardinality(Used(n))
    BY <1>6, <1>7 DEF Stocked
<1>13. Stocked(ps, np, n, a)
    BY <1>3, <1>7, <1>9, <1>10, <1>11, <1>12 DEF Stocked
<1> QED BY <1>1, <1>3, <1>13 DEF n, a

LEMMA ForkStep ==
    ASSUME ProcInv, Fork PROVE ProcInv' /\ DeadStay
<1> DEFINE qs == Add(proc, Fresh(nextPid, Me, proc[cur].win))
<1>0. TypeOK /\ Places
    BY DEF ProcInv, Places
<1>1. /\ nextPid \in Nat /\ nextPid > 0 /\ nextPid <= MaxPid /\ nextPid \in Pids
      /\ Unused(proc) # {} /\ Me \in 0 .. MaxPid /\ proc[cur].win \in Windows \cup {"none"}
    <2>1. proc[cur] \in Process
        BY <1>0 DEF TypeOK
    <2>2. /\ nextPid \in Nat /\ nextPid > 0 /\ nextPid <= MaxPid /\ nextPid \in Pids
        BY <1>0, Numbers DEF TypeOK, Fork, Pids
    <2> QED BY <2>1, <2>2 DEF Fork, Me, Process
<1>2. /\ Stocked(qs, nextPid + 1, queue, arrived) /\ Grown(proc, qs)
      /\ \E u \in Users(qs) : qs[u].pid = nextPid /\ qs[u].st = "ready" /\ ~qs[u].entered
      /\ \A e \in 1 .. QLEN : queue[e] # nextPid
    BY <1>0, <1>1, StockedNow, MakeOne
<1>3. /\ proc' = qs /\ nextPid' = nextPid + 1
      /\ \/ FreeEntries = {} /\ UNCHANGED <<queue, arrived>>
         \/ /\ FreeEntries # {} /\ queue' = Enqueued(queue, nextPid)
            /\ arrived' = Append(arrived, nextPid)
      /\ UNCHANGED <<cur, stage, canExit, busy, pc, via, spin, runWait, initArmed,
                     wakeArmed, lines, armed, kbd>>
    BY DEF Fork, Returns
<1> HIDE DEF qs
<1>4. Stocked(proc', nextPid', queue', arrived')
    <2>1. CASE FreeEntries = {}
        BY <1>2, <1>3, <2>1
    <2>2. CASE FreeEntries # {}
        <3>1. \E e \in 1 .. QLEN : queue[e] = 0
            BY <2>2 DEF FreeEntries
        <3>2. Stocked(qs, nextPid + 1, Enqueued(queue, nextPid), Append(arrived, nextPid))
            BY <1>1, <1>2, <3>1, EnqueueOne
        <3> QED BY <1>3, <2>2, <3>2
    <2> QED BY <2>1, <2>2
<1>5. Places' /\ DeadStay
    BY <1>0, <1>2, <1>3, <1>4, GrownStep
<1>6. TypeOK'
    <2>1. nextPid' \in 1 .. MaxPid + 1
        BY <1>1, <1>3, Numbers
    <2>2. UsedEntries' = Used(queue')
        BY DEF UsedEntries, FreeEntries, Used
    <2> QED BY <1>0, <1>3, <1>4, <2>1, <2>2 DEF TypeOK, Stocked, Table
<1> QED BY <1>5, <1>6 DEF ProcInv, Places

LEMMA ForkFailsStep ==
    ASSUME ProcInv, ForkFails PROVE ProcInv' /\ DeadStay
<1>1. /\ UNCHANGED <<proc, cur, stage, armed, canExit, busy, pc, via, spin, queue, arrived,
                     runWait, initArmed, kbd, wakeArmed, lines>>
      /\ nextPid' = nextPid + 1
    BY DEF ForkFails, Returns
<1>2. nextPid \in Nat /\ nextPid' \in 1 .. MaxPid + 1
    BY <1>1, Numbers DEF ProcInv, TypeOK, ForkFails
<1>3. TypeOK'
    BY <1>1, <1>2, UsedSame DEF ProcInv, TypeOK
<1>4. PidInv'
    BY <1>1, <1>2 DEF ProcInv, PidInv, Users
<1>5. RunInv'
    BY <1>1 DEF ProcInv, RunInv
<1>6. QueueInv' /\ ArrivedInv'
    BY <1>1, UsedSame DEF ProcInv, QueueInv, ArrivedInv, Users
<1>7. ParksMatch'
    BY <1>1 DEF ProcInv, ParksMatch, ArmedIsMine, Users
<1>8. DeadStay
    BY <1>1 DEF DeadStay
<1> QED BY <1>3, <1>4, <1>5, <1>6, <1>7, <1>8 DEF ProcInv

LEMMA TypeRunStep ==
    ASSUME ProcInv, NEW w \in Windows, NEW elf, NEW background,
           TypeRun(w, elf, background)
    PROVE  ProcInv' /\ DeadStay
<1> DEFINE first == HasInit /\ ~initArmed /\ Unused(proc) # {}
           ps == WithInit(w)
           p == nextPid + Cardinality(InitPid)
           qs == Add(ps, Fresh(p, 0, w))
           q == Enqueued(queue, p)
           started == ~Pending /\ elf /\ Unused(ps) # {}
<1>0. TypeOK /\ Places /\ Stocked(proc, nextPid, queue, arrived)
    BY StockedNow DEF ProcInv, Places
<1>1. /\ nextPid \in Nat /\ nextPid > 0 /\ nextPid <= MaxPid /\ nextPid < MaxPid /\ 0 \in 0 .. MaxPid
      /\ nextPid \in Pids /\ w \in Windows \cup {"none"} /\ "none" \in Windows \cup {"none"}
    BY <1>0, Numbers DEF TypeOK, TypeRun, Pids
\* The table with init in it.
<1>2. /\ Stocked(ps, p, queue, arrived) /\ Grown(proc, ps)
      /\ InitPid = {} \/ InitPid = {nextPid}
      /\ p = IF InitPid = {} THEN nextPid ELSE nextPid + 1
      /\ InitPid # {} => \E u \in Users(ps) :
            ps[u].pid = nextPid /\ ps[u].st = "ready" /\ ~ps[u].entered
    <2>1. CASE first
        <3> DEFINE is == Add(proc, Fresh(nextPid, 0, w))
                   no == Add(proc, Fresh(nextPid, 0, "none"))
        <3>1. /\ Stocked(is, nextPid + 1, queue, arrived) /\ Grown(proc, is)
              /\ \E u \in Users(is) : is[u].pid = nextPid /\ is[u].st = "ready" /\ ~is[u].entered
            BY <1>0, <1>1, <2>1, MakeOne
        <3>2. no # proc
            BY <1>0, <1>1, <2>1, MakeOne
        <3>3. ps = is /\ WithInit("none") = no
            BY <2>1 DEF WithInit
        <3>4. InitPid = {nextPid}
            BY <3>2, <3>3 DEF InitPid
        <3>5. p = nextPid + 1
            BY <3>4, FS_Singleton
        <3> HIDE DEF is, no, p, ps
        <3> QED BY <3>1, <3>3, <3>4, <3>5
    <2>2. CASE ~first
        <3>1. ps = proc /\ InitPid = {}
            BY <2>2 DEF WithInit, InitPid
        <3>2. p = nextPid
            BY <3>1, <1>1, FS_EmptySet
        <3>3. Grown(proc, proc)
            BY DEF Grown
        <3> HIDE DEF p, ps
        <3> QED BY <1>0, <3>1, <3>2, <3>3
    <2> QED BY <2>1, <2>2
<1>3. /\ lines' = lines + 1 /\ lines < MaxLines
      /\ kbd' = IF Queueable THEN kbd + 1 ELSE kbd
      /\ wakeArmed' = (wakeArmed \/ Queueable)
      /\ initArmed' = TRUE /\ UNCHANGED <<cur, stage, armed, busy, pc, via, spin>>
    BY DEF TypeRun, Offer
<1>4. \/ /\ proc' = ps /\ nextPid' = p
         /\ UNCHANGED <<queue, arrived, canExit, runWait>>
      \/ /\ started /\ proc' = qs /\ nextPid' = p + 1
         /\ queue' = IF InitPid = {} THEN q ELSE Enqueued(q, nextPid)
         /\ arrived' = IF InitPid = {} THEN Append(arrived, p)
                      ELSE Append(Append(arrived, p), nextPid)
         /\ canExit' = TRUE /\ runWait' = IF background THEN runWait ELSE p
    BY DEF TypeRun
<1>5. p \in Nat /\ p > 0 /\ p <= MaxPid /\ p \in Pids
    <2> HIDE DEF p
    <2> QED BY <1>1, <1>2, Numbers DEF Pids
<1> HIDE DEF p, ps
\* The program is in the table, its entry and that of init in the queue.
<1>6. ASSUME started
      PROVE  /\ Stocked(qs, p + 1, q, Append(arrived, p))
             /\ InitPid # {} => Stocked(qs, p + 1, Enqueued(q, nextPid),
                                        Append(Append(arrived, p), nextPid))
             /\ Grown(ps, qs)
    <2>1. /\ Stocked(qs, p + 1, queue, arrived) /\ Grown(ps, qs)
          /\ \E u \in Users(qs) : qs[u].pid = p /\ qs[u].st = "ready" /\ ~qs[u].entered
          /\ \A s \in Users(ps) : qs[s] = ps[s]
          /\ \A e \in 1 .. QLEN : queue[e] # p
        BY <1>1, <1>2, <1>5, <1>6, MakeOne
    <2>2. \A e \in 1 .. QLEN : queue[e] = 0
        BY <1>6 DEF Pending, UsedEntries, FreeEntries
    <2>3. \E e \in 1 .. QLEN : queue[e] = 0
        BY <2>2, Numbers
    <2> HIDE DEF qs
    <2>4. /\ Stocked(qs, p + 1, q, Append(arrived, p))
          /\ \E f \in 1 .. QLEN : /\ queue[f] = 0
                                  /\ \A e \in 1 .. QLEN : q[e] = IF e = f THEN p ELSE queue[e]
        BY <1>5, <2>1, <2>3, EnqueueOne
    <2>5. PICK f \in 1 .. QLEN : \A e \in 1 .. QLEN : q[e] = IF e = f THEN p ELSE queue[e]
        BY <2>4
    <2> HIDE DEF q
    <2>6. \E e \in 1 .. QLEN : q[e] = 0
        <3>1. 1 \in 1 .. QLEN /\ 2 \in 1 .. QLEN /\ (f # 1 \/ f # 2)
            BY Numbers
        <3> QED BY <2>2, <2>5, <3>1
    <2>7. ASSUME InitPid # {}
          PROVE  Stocked(qs, p + 1, Enqueued(q, nextPid), Append(Append(arrived, p), nextPid))
        <3>1. p # nextPid
            BY <1>1, <1>2, <2>7
        <3>2. \A e \in 1 .. QLEN : q[e] # nextPid
            BY <1>1, <2>2, <2>5, <3>1
        <3>3. PICK u \in Users(ps) :
                ps[u].pid = nextPid /\ ps[u].st = "ready" /\ ~ps[u].entered
            BY <1>2, <2>7
        <3>4. u \in Users(qs) /\ qs[u] = ps[u]
            BY <2>1, <3>3 DEF Users
        <3>5. \E v \in Users(qs) :
                qs[v].pid = nextPid /\ qs[v].st = "ready" /\ ~qs[v].entered
            BY <3>3, <3>4
        <3> QED BY <1>1, <2>4, <2>6, <3>2, <3>5, EnqueueOne
    <2> QED BY <2>1, <2>4, <2>7
<1>7. Stocked(proc', nextPid', queue', arrived') /\ Grown(proc, proc')
    <2>1. CASE proc' = ps /\ nextPid' = p /\ UNCHANGED <<queue, arrived>>
        BY <1>2, <2>1
    <2>2. CASE started /\ proc' = qs /\ nextPid' = p + 1
               /\ queue' = (IF InitPid = {} THEN q ELSE Enqueued(q, nextPid))
               /\ arrived' = IF InitPid = {} THEN Append(arrived, p)
                             ELSE Append(Append(arrived, p), nextPid)
        <3>1. Grown(proc, qs)
            <4>1. Grown(proc, ps) /\ Grown(ps, qs)
                BY <1>2, <1>6, <2>2
            <4> HIDE DEF qs
            <4> QED BY <4>1 DEF Grown
        <3> HIDE DEF q, qs
        <3> QED BY <1>6, <2>2, <3>1
    <2> QED BY <1>4, <2>1, <2>2
<1>8. Places' /\ DeadStay
    BY <1>0, <1>3, <1>7, GrownStep
<1>9. TypeOK'
    <2>1. nextPid' \in 1 .. MaxPid + 1
        BY <1>4, <1>5, Numbers
    <2>2. UsedEntries' = Used(queue')
        BY DEF UsedEntries, FreeEntries, Used
    <2>3. kbd' \in 0 .. KBDLEN /\ lines' \in 0 .. MaxLines
        BY <1>0, <1>3, ProcAssumption DEF TypeOK, Queueable
    <2>4. runWait' \in 0 .. MaxPid /\ canExit' \in BOOLEAN
        <3>1. p \in 0 .. MaxPid /\ runWait \in 0 .. MaxPid /\ canExit \in BOOLEAN
            BY <1>0, <1>5, Numbers DEF TypeOK
        <3> QED BY <1>4, <3>1
    <2>5. wakeArmed' \in BOOLEAN /\ initArmed' \in BOOLEAN
        BY <1>0, <1>3 DEF TypeOK
    <2> QED BY <1>0, <1>3, <1>7, <2>1, <2>2, <2>3, <2>4, <2>5 DEF TypeOK, Stocked, Table
<1> QED BY <1>8, <1>9 DEF ProcInv, Places

-----------------------------------------------------------------------------
(* Collecting a child                                                      *)

LEMMA WaitStep ==
    ASSUME ProcInv, NEW want \in 0 .. MaxPid, Wait(want) PROVE ProcInv' /\ DeadStay
<1> DEFINE kids == {s \in Users(proc) :
                      proc[s].parent = Me /\ want \in {0, proc[s].pid}}
           dead == {s \in kids : proc[s].st = "zombie"}
           m == Min(dead)
<1>0. TypeOK /\ Places
    BY DEF ProcInv, Places
<1>1. /\ pc = "ring3" /\ UNCHANGED <<cur, nextPid, canExit, busy, pc, via, spin, queue,
                       arrived, runWait, initArmed, kbd, wakeArmed, lines>>
      /\ \/ /\ dead # {} /\ proc' = [proc EXCEPT ![m] = Free]
            /\ stage' = [stage EXCEPT ![m] = "none"] /\ UNCHANGED armed
         \/ armed' = [armed EXCEPT ![cur] = "wait"] /\ UNCHANGED <<proc, stage>>
    BY DEF Wait, mainVars, Trap
<1>2. CASE armed' = [armed EXCEPT ![cur] = "wait"] /\ UNCHANGED <<proc, stage>>
    <2>1. /\ armed' \in [Slots -> {"none", "wait", "retry"}]
          /\ \A s \in Slots : armed'[s] = armed[s] \/ s = cur
        BY <1>0, <1>2, ArmedFacts
    <2>2. Quiet
        BY <1>0, <1>1, <1>2, <2>1, SameTable
    <2>3. TypeOK'
        BY <1>0, <1>1, <1>2, <2>1, UsedSame DEF TypeOK
    <2> QED BY <1>0, <2>2, <2>3, QuietStep DEF ProcInv, Places
<1>3. CASE dead # {} /\ proc' = [proc EXCEPT ![m] = Free]
           /\ stage' = [stage EXCEPT ![m] = "none"] /\ UNCHANGED armed
    <2>1. dead \subseteq Nat
        BY Numbers DEF Users
    <2>2. m \in dead
        BY <1>3, <2>1, MinIn
    <2>3. m \in Slots /\ m # 0 /\ proc[m].st = "zombie"
        <3> HIDE DEF m
        <3> QED BY <2>2 DEF Users
    <2> HIDE DEF m, dead
    <2>4. m # cur
        BY <1>0, <2>3 DEF Places, RunInv
    <2>5. /\ proc' \in Table /\ proc'[m] = Free /\ Free.st = "unused"
          /\ \A s \in Slots \ {m} : proc'[s] = proc[s]
        <3>1. proc \in Table
            BY <1>0 DEF TypeOK, Table
        <3>2. Free.st = "unused"
            BY DEF Free
        <3> QED BY <1>3, <2>3, <3>1, <3>2, FreeType DEF Table
    <2>6. /\ stage' \in [Slots -> {"none", "wait", "retry"}] /\ stage'[m] = "none"
          /\ \A s \in Slots \ {m} : stage'[s] = stage[s]
        BY <1>0, <1>3, <2>3 DEF TypeOK
    <2>7. Users(proc') = Users(proc) \ {m}
        BY <2>3, <2>5 DEF Users
    <2>8. PidInv'
        BY <1>0, <1>1, <2>5, <2>7 DEF Places, PidInv, Users
    <2>9. RunInv'
        BY <1>0, <1>1, <2>3, <2>4, <2>5, Numbers DEF Places, RunInv, TypeOK
    <2>10. ParksMatch'
        BY <1>0, <1>1, <1>3, <2>5, <2>6 DEF Places, ParksMatch, ArmedIsMine
    <2>11. UsedEntries' = UsedEntries /\ queue' = queue
        BY <1>1 DEF UsedEntries, FreeEntries
    <2>12. QueueInv'
        <3>1. ASSUME NEW f \in UsedEntries
              PROVE  \E t \in Users(proc') : /\ proc'[t].pid = queue[f]
                                            /\ proc'[t].st = "ready" /\ ~proc'[t].entered
            <4>1. PICK t \in Users(proc) : /\ proc[t].pid = queue[f]
                                           /\ proc[t].st = "ready" /\ ~proc[t].entered
                BY <1>0, <3>1 DEF Places, QueueInv
            <4>2. t # m /\ t \in Slots
                BY <2>3, <4>1 DEF Users
            <4> QED BY <2>5, <2>7, <4>1, <4>2
        <3> QED BY <1>0, <2>11, <3>1 DEF Places, QueueInv
    <2>13. ArrivedInv'
        BY <1>0, <1>1, <2>11 DEF Places, ArrivedInv
    <2>14. DeadStay
        BY <2>5 DEF DeadStay
    <2>15. TypeOK'
        BY <1>0, <1>1, <1>3, <2>5, <2>6, <2>11 DEF TypeOK, Table
    <2> QED BY <2>8, <2>9, <2>10, <2>12, <2>13, <2>14, <2>15 DEF ProcInv
<1> QED BY <1>1, <1>2, <1>3

-----------------------------------------------------------------------------
(* The invariant                                                           *)

LEMMA InitProcInv == Init => ProcInv
<1> SUFFICES ASSUME Init PROVE ProcInv
    OBVIOUS
<1> DEFINE k == [Free EXCEPT !.st = "running", !.ticks = SLICE]
<1>1. SLICE \in 0 .. SLICE
    BY Numbers
<1>2. k \in Process /\ k.st = "running" /\ ~k.entered
    <2>1. Free \in Process /\ ~Free.entered
        BY FreeType DEF Free
    <2> QED BY <1>1, <2>1 DEF Process
<1>3. Free.st = "unused"
    BY DEF Free
<1>4. proc = [s \in Slots |-> IF s = 0 THEN k ELSE Free]
    BY DEF Init
<1> HIDE DEF k
<1>5. proc \in [Slots -> Process] /\ proc[0] = k /\ \A s \in Slots \ {0} : proc[s] = Free
    BY <1>2, <1>4, FreeType, Numbers
<1>6. Users(proc) = {} /\ UsedEntries = {}
    BY <1>3, <1>5 DEF Users, UsedEntries, FreeEntries, Init
<1>7. TypeOK
    <2>1. arrived \in Seq(Pids) /\ Len(arrived) = Cardinality(UsedEntries)
        BY <1>6, EmptySeq, FS_EmptySet DEF Init
    <2>2. /\ cur \in Slots /\ nextPid \in 1 .. MaxPid + 1 /\ runWait \in 0 .. MaxPid
          /\ kbd \in 0 .. KBDLEN /\ lines \in 0 .. MaxLines
        BY ProcAssumption, Numbers DEF Init
    <2>3. queue \in [1 .. QLEN -> 0 .. MaxPid]
        BY Numbers DEF Init
    <2> QED BY <1>5, <2>1, <2>2, <2>3 DEF Init, TypeOK
<1>8. PidInv /\ QueueInv /\ ArrivedInv
    BY <1>6 DEF PidInv, QueueInv, ArrivedInv
<1>9. RunInv
    BY <1>2, <1>3, <1>5, Numbers DEF RunInv, Init
<1>10. ParksMatch
    BY <1>2, <1>3, <1>5, Numbers DEF ParksMatch, ArmedIsMine, Init
<1> QED BY <1>7, <1>8, <1>9, <1>10 DEF ProcInv

LEMMA ProcStep ==
    ASSUME ProcInv, [Next]_vars PROVE ProcInv' /\ DeadStay
<1>0. TypeOK /\ Places /\ RunInv
    BY DEF ProcInv, Places
<1>1. ASSUME TypeOK', Quiet PROVE ProcInv' /\ DeadStay
    BY <1>0, <1>1, QuietStep DEF ProcInv, Places
<1>2. CASE MainLoop
    BY <1>0, <1>1, <1>2, LoopStep, DrainNextStep, WakeReaderStep DEF MainLoop
<1>3. CASE Program
    BY <1>0, <1>1, <1>3, LoopStep, ParkStep, ExitStep, ForkStep, ForkFailsStep, YieldStep, ReadStep,
       WaitStep, KillStep DEF Program
<1>4. CASE Keyboard
    BY <1>0, <1>1, <1>4, TypeToProgramStep, TypeRunStep DEF Keyboard
<1>5. CASE Timer
    BY <1>0, <1>1, <1>5, TimerStep
<1>6. CASE UNCHANGED vars
    <2>1. Quiet
        BY <1>0, <1>6, SameTable DEF vars, mainVars
    <2>2. TypeOK'
        BY <1>0, <1>6, UsedSame DEF TypeOK, vars, mainVars
    <2> QED BY <1>1, <2>1, <2>2
<1> QED BY <1>2, <1>3, <1>4, <1>5, <1>6 DEF Next

\* The inductive invariant of the process table, the entry queue and the parks.
THEOREM ProcInvariance == Spec => []ProcInv
<1>1. ProcInv /\ [Next]_vars => ProcInv'
    BY ProcStep
<1> QED BY InitProcInv, <1>1, PTL DEF Spec

\* Across entries, parks, exits and ticks exactly one thread is RUNNING and it
\* is the one process_current names: the kernel's in the main loop, a program's
\* in ring 3.
THEOREM OneRunnerHolds == Spec => []OneRunner
<1>1. ProcInv => OneRunner
    BY DEF ProcInv, RunInv, OneRunner
<1> QED BY <1>1, ProcInvariance, PTL

\* A parked process has a resume staged and a staged resume a living owner that
\* was in ring 3: no later owner of the slot inherits a park.
THEOREM ParksMatchHolds == Spec => []ParksMatch
<1>1. ProcInv => ParksMatch
    BY DEF ProcInv
<1> QED BY <1>1, ProcInvariance, PTL

\* The entry queue names each process at most once, and only processes that
\* live, are READY and never were in ring 3.
THEOREM QueueIsFreshHolds == Spec => []QueueIsFresh
<1>1. ProcInv => QueueIsFresh
    <2> SUFFICES ASSUME ProcInv PROVE QueueIsFresh
        OBVIOUS
    <2>1. ASSUME NEW e \in UsedEntries
          PROVE  /\ Live(proc, queue[e])
                 /\ LET c == proc[SlotOf(proc, queue[e])] IN c.st = "ready" /\ ~c.entered
        <3>1. PICK s \in Users(proc) : /\ proc[s].pid = queue[e]
                                       /\ proc[s].st = "ready" /\ ~proc[s].entered
            BY DEF ProcInv, QueueInv
        <3>2. Live(proc, queue[e])
            BY <3>1 DEF Live
        <3>3. SlotOf(proc, queue[e]) = s
            BY <3>1, <3>2, SlotOfFacts DEF ProcInv, PidInv
        <3> QED BY <3>1, <3>2, <3>3
    <2> QED BY <2>1 DEF ProcInv, QueueInv, QueueIsFresh
<1> QED BY <1>1, ProcInvariance, PTL

\* A process that died stays dead under its pid until its slot is freed, also
\* when its own children die after it and wake their parent.
THEOREM DeadStayDead == Spec => NoResurrection
<1>1. ProcInv /\ [Next]_vars => [DeadStay]_vars
    BY ProcStep
<1>2. [DeadStay]_vars => [\A s \in Slots : proc[s].st = "zombie" =>
          \/ proc'[s].st = "unused"
          \/ proc'[s].st = "zombie" /\ proc'[s].pid = proc[s].pid]_vars
    BY DEF DeadStay
<1> QED BY <1>1, <1>2, ProcInvariance, PTL DEF Spec, NoResurrection
=============================================================================
