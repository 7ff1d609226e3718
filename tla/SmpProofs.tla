----------------------------- MODULE SmpProofs -----------------------------
(***************************************************************************)
(* The safety of the job engine for every number of CPUs, slots, entries,  *)
(* loops and posts.  EngineInv (SmpInvariant) is inductive: EngineInit and *)
(* EngineStep.  Each conjunct has a step lemma with one case per action    *)
(* that can disturb it; a Frame lemma shows that the others leave alone    *)
(* the part of the state the conjunct reads.  The second half does the same *)
(* for LoopInv, on top of EngineInv, and shows that the engine implements  *)
(* its contract.                                                           *)
(***************************************************************************)
EXTENDS SmpRefines, SmpInvariant, WellFoundedInduction, FiniteSetTheorems, TLAPS

USE DEF loopVars, asyncVars, CursorBy

\* gen_counter and async_seq stay inside their word and never become 0, the
\* value that means "recycling" or "never used".
LEMMA BumpType ==
    ASSUME NEW x \in Nat, NEW m \in Nat, m > 1
    PROVE  Bump(x, m) \in 1 .. m - 1
  BY DEF Bump

\* What the proofs use of the assumptions about the constants.
LEMMA ConstantFacts ==
    /\ Boot \in CPU /\ AP \subseteq CPU /\ Boot \notin AP /\ NoCpu \notin CPU
    /\ GenMod \in Nat /\ GenMod > 1 /\ 0 \in 0 .. GenMod - 1
    /\ SeqMod \in Nat /\ SeqMod > 1 /\ 0 \in 0 .. SeqMod - 1
    /\ W \in Nat /\ W > 0 /\ 0 \in 0 .. W - 1
    /\ NASYNC \in Nat /\ 0 \in Entries /\ MaxPosts \in Nat /\ MaxCalls \in Nat
  BY SmpAssumption DEF CPU, Entries

\* g % NSLOT is a slot of the ring.
LEMMA SlotOfType == 
    ASSUME TypeOK, NEW c \in CPU PROVE SlotOf(c) \in Slots
  BY SmpAssumption DEF TypeOK, JoinType, SlotOf, Slots

\* Every step keeps the boot CPU, the APs and pub_lock in step: only the boot
\* CPU is inside a loop, and pub_lock has one holder.
LEMMA ControlStep ==
    ASSUME TypeOK, ControlInv, [Next]_vars
    PROVE  ControlInv'
<1> USE ConstantFacts
    DEF ControlInv, TypeOK, StartType, slotVars, pubVars, startVars, At, Goto,
        BootPcs, ApPcs, InCall, Starting, Inside, Announced, Published, HasLock
<1>1. CASE UNCHANGED vars
  BY <1>1 DEF vars
<1>2. ASSUME NEW l \in Loops, CallInline(l) PROVE ControlInv'
  BY <1>2 DEF CallInline
<1>3. ASSUME NEW l \in Loops, Call(l) PROVE ControlInv'
  BY <1>3 DEF Call
<1>4. ASSUME NEW j \in Posts, PollSeq(j) PROVE ControlInv'
  BY <1>4 DEF PollSeq
<1>5. CASE CallLock
  BY <1>5 DEF CallLock
<1>6. CASE CallZero
  BY <1>6 DEF CallZero
<1>7. CASE CallDrain
  BY <1>7 DEF CallDrain
<1>8. CASE CallFill
  BY <1>8 DEF CallFill
<1>9. CASE CallOpen
  BY <1>9 DEF CallOpen
<1>10. CASE CallAnnounce
  BY <1>10 DEF CallAnnounce
<1>11. CASE CallIpi
  BY <1>11 DEF CallIpi
<1>12. CASE CallWait
  BY <1>12 DEF CallWait
<1>13. CASE CallReturn
  BY <1>13 DEF CallReturn
<1>14. CASE PollState
  BY <1>14 DEF PollState
<1>15. ASSUME NEW c \in CPU, JoinEnter(c) PROVE ControlInv'
  BY <1>15 DEF JoinEnter
<1>16. ASSUME NEW c \in CPU, JoinCheck(c) PROVE ControlInv'
  BY <1>16 DEF JoinCheck
<1>17. ASSUME NEW c \in CPU, JoinRead(c) PROVE ControlInv'
  BY <1>17 DEF JoinRead
<1>18. ASSUME NEW c \in CPU, Claim(c) PROVE ControlInv'
  BY <1>18 DEF Claim
<1>19. ASSUME NEW c \in CPU, RunItems(c) PROVE ControlInv'
  BY <1>19 DEF RunItems
<1>20. ASSUME NEW c \in CPU, AddDone(c) PROVE ControlInv'
  BY <1>20 DEF AddDone
<1>21. ASSUME NEW c \in CPU, JoinLeave(c) PROVE ControlInv'
  BY <1>21 DEF JoinLeave
<1>22. ASSUME NEW c \in CPU, StartCall(c) PROVE ControlInv'
  BY <1>22 DEF StartCall, MayPost, Refused
<1>23. ASSUME NEW c \in CPU, StartLock(c) PROVE ControlInv'
  BY <1>23 DEF StartLock
<1>24. ASSUME NEW c \in CPU, StartPick(c) PROVE ControlInv'
  BY <1>24 DEF StartPick
<1>25. ASSUME NEW c \in CPU, StartFill(c) PROVE ControlInv'
  BY <1>25 DEF StartFill
<1>26. ASSUME NEW c \in CPU, StartPost(c) PROVE ControlInv'
  BY <1>26 DEF StartPost
<1>27. ASSUME NEW c \in CPU, StartIpi(c) PROVE ControlInv'
  BY <1>27 DEF StartIpi
<1>28. ASSUME NEW c \in CPU, StartReturn(c) PROVE ControlInv'
  BY <1>28 DEF StartReturn
<1>29. ASSUME NEW c \in AP, ApLoad(c) PROVE ControlInv'
  BY <1>29 DEF ApLoad
<1>30. ASSUME NEW c \in AP, ApReady(c) PROVE ControlInv'
  BY <1>30 DEF ApReady, Halt
<1>31. ASSUME NEW c \in AP, ApWake(c) PROVE ControlInv'
  BY <1>31 DEF ApWake
<1>32. ASSUME NEW c \in AP, RunScan(c) PROVE ControlInv'
  BY <1>32 DEF RunScan, NextEntry
<1>33. ASSUME NEW c \in AP, RunCas(c) PROVE ControlInv'
  BY <1>33 DEF RunCas, NextEntry
<1>34. ASSUME NEW c \in AP, RunFetch(c) PROVE ControlInv'
  BY <1>34 DEF RunFetch
<1>35. ASSUME NEW c \in AP, RunFinish(c) PROVE ControlInv'
  BY <1>35 DEF RunFinish, NextEntry
<1>36. ASSUME NEW c \in AP, ApFault(c) PROVE ControlInv'
  BY <1>36 DEF ApFault
<1> QED
  BY <1>1, <1>2, <1>3, <1>4, <1>5, <1>6, <1>7, <1>8, <1>9, <1>10, <1>11,
     <1>12, <1>13, <1>14, <1>15, <1>16, <1>17, <1>18, <1>19, <1>20, <1>21,
     <1>22, <1>23, <1>24, <1>25, <1>26, <1>27, <1>28, <1>29, <1>30, <1>31,
     <1>32, <1>33, <1>34, <1>35, <1>36
  DEF Next, Step, JoinStep, CallStep, StartStep, WorkerStep

\* Only smp_async_start and async_run write the mailbox.
LEMMA MailFrame ==
    ASSUME [Next]_vars
    PROVE  \/ UNCHANGED <<astate, ajob, starts, posts, finished>>
           \/ \E c \in CPU : StartCall(c) \/ StartFill(c) \/ StartPost(c)
           \/ \E c \in AP : RunCas(c) \/ RunFetch(c) \/ RunFinish(c)
<1> USE DEF mailVars, postHist
<1>1. CASE UNCHANGED vars
  BY <1>1 DEF vars
<1>2. CASE CallStep \/ PollState \/ (\E l \in Loops : CallInline(l) \/ Call(l))
           \/ (\E j \in Posts : PollSeq(j))
  BY <1>2 DEF CallStep, CallInline, Call, CallLock, CallZero, CallDrain,
     CallFill, CallOpen, CallAnnounce, CallIpi, CallWait, CallReturn, PollSeq,
     PollState
<1>3. CASE \E c \in CPU : JoinStep(c)
  BY <1>3 DEF JoinStep, JoinEnter, JoinCheck, JoinRead, Claim, RunItems,
     AddDone, JoinLeave
<1>4. CASE \E c \in CPU : StartLock(c) \/ StartPick(c) \/ StartIpi(c) \/ StartReturn(c)
  BY <1>4 DEF StartLock, StartPick, StartIpi, StartReturn
<1>5. CASE \E c \in AP : ApLoad(c) \/ ApReady(c) \/ ApWake(c) \/ RunScan(c) \/ ApFault(c)
  BY <1>5 DEF ApLoad, ApReady, ApWake, RunScan, ApFault
<1> QED BY <1>1, <1>2, <1>3, <1>4, <1>5 DEF Next, Step, StartStep, WorkerStep

\* Every step keeps the mailbox consistent: the entry being filled is nobody
\* else's, and a pending entry holds a job.
LEMMA MailStep ==
    ASSUME TypeOK, MailInv, RunnerInv, PosterInv, [Next]_vars
    PROVE  MailInv'
<1> USE DEF At, Goto
<1>1. CASE UNCHANGED <<astate, ajob, starts, posts, finished>>
  BY <1>1 DEF MailInv
<1>2. ASSUME NEW c \in CPU, StartCall(c) PROVE MailInv'
  BY <1>2 DEF StartCall, mailVars, MailInv, TypeOK, HistType, MailType, Posts
<1>3. ASSUME NEW c \in CPU, StartFill(c) PROVE MailInv'
  <2>1. pick[c] \in Entries /\ Reusable(pick[c]) /\ post[c] <= posts
    BY <1>3 DEF StartFill, PosterInv, Posting, Fresh, TypeOK, StartType
  <2>2. \A i \in Entries : astate[i] \in {1, 2} => ajob'[i] = ajob[i]
    BY <1>3, <2>1 DEF StartFill, Reusable, TypeOK, MailType
  <2>3. \A i \in Entries : ajob'[i] \in {ajob[i], post[c]}
    BY <1>3, <2>1 DEF StartFill, TypeOK, MailType
  <2> QED BY <1>3, <2>1, <2>2, <2>3 DEF StartFill, postHist, MailInv
<1>4. ASSUME NEW c \in CPU, StartPost(c) PROVE MailInv'
  <2>1. pick[c] \in Entries /\ ajob[pick[c]] = post[c] /\ Fresh(post[c])
    BY <1>4 DEF StartPost, PosterInv, Posting, TypeOK, StartType
  <2>2. \A i \in Entries : astate'[i] = IF i = pick[c] THEN 1 ELSE astate[i]
    BY <1>4, <2>1 DEF StartPost, TypeOK, MailType
  <2> QED BY <1>4, <2>1, <2>2 DEF StartPost, postHist, MailInv, Fresh
<1>5. ASSUME NEW c \in AP, RunCas(c) PROVE MailInv'
  <2>1. scan[c] \in Entries
    BY DEF TypeOK, RunType
  <2>2. \A i \in Entries : astate'[i] = IF i = scan[c] /\ astate[i] = 1 THEN 2 ELSE astate[i]
    BY <1>5, <2>1 DEF RunCas, CasWins, TypeOK, MailType
  <2> QED BY <1>5, <2>1, <2>2 DEF RunCas, postHist, MailInv
<1>6. ASSUME NEW c \in AP, RunFetch(c) PROVE MailInv'
  <2>1. scan[c] \in Entries /\ astate[scan[c]] = 2 /\ starts[ajob[scan[c]]] = 0
    BY <1>6 DEF RunFetch, RunnerInv, Owns, Loc, Starting, TypeOK, RunType
  <2>2. ajob[scan[c]] \in Posts /\ ajob[scan[c]] <= posts
    BY <2>1 DEF MailInv
  <2>3. \A j \in Posts : starts'[j] = IF j = ajob[scan[c]] THEN 1 ELSE starts[j]
    BY <1>6, <2>1, <2>2 DEF RunFetch, TypeOK, HistType
  <2>4. \A i \in Entries : astate[i] = 1 => ajob[i] # ajob[scan[c]]
    BY <2>1 DEF MailInv
  <2>5. UNCHANGED <<astate, ajob, posts, finished>>
    BY <1>6 DEF RunFetch, mailVars
  <2>6. posts \in Nat /\ \A j \in Posts : j \in Nat
    BY DEF TypeOK, HistType, Posts
  <2> QED BY <2>2, <2>3, <2>4, <2>5, <2>6 DEF MailInv
<1>7. ASSUME NEW c \in AP, RunFinish(c) PROVE MailInv'
  <2>1. scan[c] \in Entries /\ astate[scan[c]] = 2 /\ running[c] = ajob[scan[c]]
    BY <1>7 DEF RunFinish, RunnerInv, Owns, Loc, Starting, TypeOK, RunType
  <2>2. \A i \in Entries : astate'[i] = IF i = scan[c] THEN 3 ELSE astate[i]
    BY <1>7, <2>1 DEF RunFinish, TypeOK, MailType
  <2> QED BY <1>7, <2>1, <2>2 DEF RunFinish, MailInv
<1> QED BY <1>1, <1>2, <1>3, <1>4, <1>5, <1>6, <1>7, MailFrame

\* The loop and the IPI leave the CPUs that run async jobs alone.
LEMMA RunnerFrame ==
    ASSUME TypeOK, ControlInv, [Next]_vars
    PROVE  \/ /\ UNCHANGED <<astate, ajob, starts>>
              /\ \A c \in AP : Owns(c)' => /\ Owns(c) /\ Loc(c)' = Loc(c)
                                           /\ scan'[c] = scan[c]
                                           /\ running'[c] = running[c]
           \/ \E c \in CPU : StartFill(c) \/ StartPost(c)
           \/ \E c \in AP : RunCas(c) \/ RunFetch(c) \/ RunFinish(c)
<1> DEFINE Quiet == /\ UNCHANGED <<astate, ajob, starts>>
                    /\ \A c \in AP : Owns(c)' => /\ Owns(c) /\ Loc(c)' = Loc(c)
                                                 /\ scan'[c] = scan[c]
                                                 /\ running'[c] = running[c]
<1> USE ConstantFacts
    DEF slotVars, pubVars, mailVars, joinVars, startVars, loopHist, postHist,
        pollVars, At, Goto, Owns, Loc, TypeOK, StartType, RunType, Starting
<1>1. CASE UNCHANGED vars
  BY <1>1 DEF vars
<1>2. CASE \E l \in Loops : CallInline(l) \/ Call(l)
  BY <1>2 DEF CallInline, Call
<1>3. CASE CallStep \/ PollState \/ \E j \in Posts : PollSeq(j)
  BY <1>3 DEF CallStep, CallLock, CallZero, CallDrain, CallFill, CallOpen,
     CallAnnounce, CallIpi, CallWait, CallReturn, PollState, PollSeq
<1>4. ASSUME NEW c \in CPU, JoinStep(c) PROVE Quiet
  BY <1>4 DEF JoinStep, JoinEnter, JoinCheck, JoinRead, Claim, RunItems,
     AddDone, JoinLeave
<1>5. ASSUME NEW c \in CPU, StartCall(c) PROVE Quiet
  BY <1>5 DEF StartCall, MayPost
<1>6. ASSUME NEW c \in CPU,
             StartLock(c) \/ StartPick(c) \/ StartIpi(c) \/ StartReturn(c)
      PROVE  Quiet
  BY <1>6 DEF StartLock, StartPick, StartIpi, StartReturn
<1>7. ASSUME NEW c \in AP, ApLoad(c) \/ ApReady(c) \/ ApWake(c) PROVE Quiet
  BY <1>7 DEF ApLoad, ApReady, Halt, ApWake
<1>8. ASSUME NEW c \in AP, RunScan(c) PROVE Quiet
  BY <1>8 DEF RunScan, NextEntry
<1>9. ASSUME NEW c \in AP, ApFault(c) PROVE Quiet
  BY <1>9 DEF ApFault
<1> QED
  BY <1>1, <1>2, <1>3, <1>4, <1>5, <1>6, <1>7, <1>8, <1>9
  DEF Next, Step, StartStep, WorkerStep

\* Every step keeps each taken entry with exactly one runner, whose job has
\* been entered at most once.
LEMMA RunnerStep ==
    ASSUME TypeOK, ControlInv, MailInv, RunnerInv, PosterInv, [Next]_vars
    PROVE  RunnerInv'
<1>0. \A c \in AP : scan[c] \in Entries /\ scan[c]' = scan'[c]
  BY DEF TypeOK, RunType
<1>1. CASE /\ UNCHANGED <<astate, ajob, starts>>
           /\ \A c \in AP : Owns(c)' => /\ Owns(c) /\ Loc(c)' = Loc(c)
                                        /\ scan'[c] = scan[c]
                                        /\ running'[c] = running[c]
  BY <1>1 DEF RunnerInv, Owns
<1>2. ASSUME NEW c \in CPU, StartFill(c) \/ StartPost(c) PROVE RunnerInv'
  <2>1. \A d \in AP : Loc(d)' = Loc(d) /\ scan'[d] = scan[d]
                        /\ running'[d] = running[d]
    BY <1>2, ConstantFacts
    DEF StartFill, StartPost, startVars, At, Goto, Loc, Starting, TypeOK
  <2>2. pick[c] \in Entries /\ astate[pick[c]] # 2 /\ UNCHANGED starts
    BY <1>2 DEF StartFill, StartPost, postHist, At, PosterInv, Posting,
       Reusable, TypeOK, StartType
  <2>3. \A i \in Entries : i # pick[c] =>
          astate'[i] = astate[i] /\ ajob'[i] = ajob[i]
    BY <1>2, <2>2 DEF StartFill, StartPost, TypeOK, MailType
  <2> QED BY <1>0, <2>1, <2>2, <2>3 DEF RunnerInv, Owns
<1>3. ASSUME NEW c \in AP, RunCas(c) PROVE RunnerInv'
  <2>1. \A d \in AP : d # c => Loc(d)' = Loc(d) /\ scan'[d] = scan[d]
    BY <1>3, ConstantFacts
    DEF RunCas, NextEntry, startVars, Goto, Loc, TypeOK, RunType
  <2>2. UNCHANGED <<starts, ajob, running>>
    BY <1>3 DEF RunCas, postHist
  <2>3. CASE CasWins(scan[c])
    <3>1. /\ astate[scan[c]] = 1 /\ scan' = scan /\ Loc(c)' = "fetch"
          /\ \A i \in Entries : astate'[i] = IF i = scan[c] THEN 2 ELSE astate[i]
      BY <1>3, <2>3, <1>0, ConstantFacts
      DEF RunCas, CasWins, Goto, Loc, Starting, TypeOK, MailType
    <3> QED BY <1>0, <2>1, <2>2, <3>1 DEF RunnerInv, MailInv, Owns
  <2>4. CASE ~CasWins(scan[c])
    <3>1. UNCHANGED astate /\ Loc(c)' \in {"scan", "load"}
      BY <1>3, <2>4, ConstantFacts
      DEF RunCas, NextEntry, Goto, Loc, Starting, TypeOK
    <3> QED BY <2>1, <2>2, <3>1 DEF RunnerInv, Owns
  <2> QED BY <2>3, <2>4
<1>4. ASSUME NEW c \in AP, RunFetch(c) PROVE RunnerInv'
  <2>1. /\ Loc(c) = "fetch" /\ Loc(c)' = "arun"
        /\ \A d \in AP : d # c => Loc(d)' = Loc(d) /\ running'[d] = running[d]
    BY <1>4, ConstantFacts
    DEF RunFetch, startVars, At, Goto, Loc, Starting, TypeOK, RunType
  <2>2. UNCHANGED <<astate, ajob, scan>> /\ running'[c] = ajob[scan[c]]
    BY <1>4 DEF RunFetch, mailVars, TypeOK, RunType
  <2>3. \A j \in Posts : j # ajob[scan[c]] => starts'[j] = starts[j]
    BY <1>4 DEF RunFetch, TypeOK, HistType
  <2>4. \A d \in AP : d # c /\ Loc(d) = "fetch" =>
          ajob[scan[d]] # ajob[scan[c]] /\ ajob[scan[d]] \in Posts
    BY <1>0, <2>1 DEF RunnerInv, MailInv, Owns
  <2> QED BY <2>1, <2>2, <2>3, <2>4 DEF RunnerInv, Owns
<1>5. ASSUME NEW c \in AP, RunFinish(c) PROVE RunnerInv'
  <2>1. /\ Loc(c) = "arun" /\ Loc(c)' \in {"scan", "load"}
        /\ \A d \in AP : d # c => /\ Loc(d)' = Loc(d) /\ scan'[d] = scan[d]
                                  /\ running'[d] = running[d]
    BY <1>5, ConstantFacts
    DEF RunFinish, NextEntry, startVars, At, Goto, Loc, Starting, TypeOK, RunType
  <2>2. \A i \in Entries : i # scan[c] => astate'[i] = astate[i]
    BY <1>5 DEF RunFinish, TypeOK, MailType
  <2>3. UNCHANGED <<ajob, starts>>
    BY <1>5 DEF RunFinish
  <2> QED BY <1>0, <2>1, <2>2, <2>3 DEF RunnerInv, Owns
<1> QED BY <1>1, <1>2, <1>3, <1>4, <1>5, RunnerFrame

\* The loop leaves the CPUs inside smp_async_start alone.
LEMMA PosterFrame ==
    ASSUME TypeOK, ControlInv, [Next]_vars
    PROVE  \/ /\ UNCHANGED <<astate, aseq, ajob, asyncSeq, starts, posts, finished>>
              /\ \A c \in CPU : pc'[c] \in Starting =>
                   pc'[c] = pc[c] /\ pick'[c] = pick[c] /\ post'[c] = post[c]
           \/ \E c \in CPU : StartCall(c) \/ StartStep(c)
           \/ \E c \in AP : RunCas(c) \/ RunFetch(c) \/ RunFinish(c)
<1> DEFINE Quiet == /\ UNCHANGED <<astate, aseq, ajob, asyncSeq, starts, posts, finished>>
                    /\ \A c \in CPU : pc'[c] \in Starting =>
                         /\ pc'[c] = pc[c] /\ pick'[c] = pick[c]
                         /\ post'[c] = post[c]
<1> USE ConstantFacts
    DEF mailVars, startVars, postHist, At, Goto, TypeOK, Starting
<1>1. CASE UNCHANGED vars
  BY <1>1 DEF vars
<1>2. CASE \E l \in Loops : CallInline(l) \/ Call(l)
  BY <1>2 DEF CallInline, Call
<1>3. CASE CallStep \/ PollState \/ \E j \in Posts : PollSeq(j)
  BY <1>3 DEF CallStep, CallLock, CallZero, CallDrain, CallFill, CallOpen,
     CallAnnounce, CallIpi, CallWait, CallReturn, PollState, PollSeq
<1>4. ASSUME NEW c \in CPU, JoinStep(c) PROVE Quiet
  BY <1>4 DEF JoinStep, JoinEnter, JoinCheck, JoinRead, Claim, RunItems,
     AddDone, JoinLeave
<1>5. ASSUME NEW c \in AP, ApLoad(c) \/ ApReady(c) \/ ApWake(c) PROVE Quiet
  BY <1>5 DEF ApLoad, ApReady, Halt, ApWake
<1>6. ASSUME NEW c \in AP, RunScan(c) PROVE Quiet
  BY <1>6 DEF RunScan, NextEntry
<1>7. ASSUME NEW c \in AP, ApFault(c) PROVE Quiet
  BY <1>7 DEF ApFault
<1> QED
  BY <1>1, <1>2, <1>3, <1>4, <1>5, <1>6, <1>7
  DEF Next, Step, WorkerStep

\* Every step keeps a job being posted fresh: not entered, not in another
\* entry, not posted by another CPU.
LEMMA PosterStep ==
    ASSUME TypeOK, ControlInv, MailInv, RunnerInv, PosterInv, [Next]_vars
    PROVE  PosterInv'
<1>0. /\ \A c \in CPU : pick[c] \in Entries /\ post[c] \in Nat
      /\ posts \in Nat /\ Posts \subseteq Nat
  BY DEF TypeOK, StartType, HistType, Posts
<1>00. \A c, d \in CPU : c # d => ~(pc[c] \in HasLock /\ pc[d] \in HasLock)
  BY DEF ControlInv
<1>01. \A c \in CPU : pc[c] \in Starting => post[c] <= posts
  BY DEF PosterInv, Starting, Posting, Fresh
<1>1. CASE /\ UNCHANGED <<astate, aseq, ajob, asyncSeq, starts, posts, finished>>
           /\ \A c \in CPU : pc'[c] \in Starting =>
                pc'[c] = pc[c] /\ pick'[c] = pick[c] /\ post'[c] = post[c]
  BY <1>1 DEF PosterInv, Fresh, Settled, Reusable, At, Posting, Starting
<1>2. ASSUME NEW c \in CPU, StartCall(c) PROVE PosterInv'
  <2>1. /\ UNCHANGED <<astate, aseq, ajob, asyncSeq, starts, finished, pick>>
        /\ posts' = posts + 1 /\ posts + 1 \in Posts
    BY <1>2, <1>0, ConstantFacts DEF StartCall, mailVars, Posts, TypeOK, HistType
  <2>2. \A d \in CPU : /\ pc'[d] = IF d = c THEN "plock" ELSE pc[d]
                       /\ post'[d] = IF d = c THEN posts + 1 ELSE post[d]
    BY <1>2 DEF StartCall, Goto, TypeOK, StartType
  <2>3. \A j : j = posts + 1 => Fresh(j)'
    BY <2>1, <1>0 DEF Fresh, MailInv
  <2>4. \A j \in Posts : j <= posts => j <= posts'
    BY <2>1, <1>0
  <2>40. \A j : Fresh(j) => Fresh(j)'
    BY <2>1, <2>4 DEF Fresh
  <2>5. \A j, q, i : Settled(j, q, i) => Settled(j, q, i)'
    BY <2>1 DEF Settled
  <2> QED BY <1>0, <1>01, <2>1, <2>2, <2>3, <2>40, <2>5
      DEF PosterInv, Reusable, At, Posting, Starting
<1>3. ASSUME NEW c \in CPU, StartLock(c) \/ StartPick(c) \/ StartIpi(c) \/ StartReturn(c)
      PROVE  PosterInv'
  <2>1. UNCHANGED <<astate, aseq, ajob, asyncSeq, starts, posts, finished>>
    BY <1>3 DEF StartLock, StartPick, StartIpi, StartReturn, mailVars, postHist
  <2>2. \A d \in CPU : d # c =>
          pc'[d] = pc[d] /\ pick'[d] = pick[d] /\ post'[d] = post[d]
    BY <1>3 DEF StartLock, StartPick, StartIpi, StartReturn, startVars, Goto,
       TypeOK, StartType
  <2>3. CASE StartLock(c)
    <3>1. pc[c] = "plock" /\ pc'[c] = "pick" /\ post'[c] = post[c]
      BY <2>3 DEF StartLock, At, Goto, TypeOK
    <3> QED BY <2>1, <2>2, <3>1
        DEF PosterInv, Fresh, Settled, Reusable, At, Posting, Starting
  <2>4. CASE StartPick(c)
    <3>1. pc[c] = "pick" /\ \/ /\ pc'[c] = "pfill" /\ Reusable(pick[c])
                               /\ pick'[c] = pick[c] /\ post'[c] = post[c]
                            \/ pc'[c] = "pick" /\ post'[c] = post[c]
                            \/ pc'[c] = "punlock" /\ post'[c] = 0
      BY <2>4 DEF StartPick, At, Goto, TypeOK, StartType
    <3> QED BY <1>0, <2>1, <2>2, <3>1
        DEF PosterInv, Fresh, Settled, Reusable, At, Posting, Starting
  <2>5. CASE StartIpi(c)
    <3>1. pc[c] = "pipi" /\ pc'[c] = "punlock" /\ post'[c] = post[c] /\ pick'[c] = pick[c]
      BY <2>5 DEF StartIpi, startVars, At, Goto, TypeOK
    <3> QED BY <2>1, <2>2, <3>1
        DEF PosterInv, Fresh, Settled, Reusable, At, Posting, Starting
  <2>6. CASE StartReturn(c)
    <3>1. pc'[c] \notin Starting
      BY <2>6 DEF StartReturn, At, Goto, TypeOK, StartType, Starting
    <3> QED BY <2>1, <2>2, <3>1
        DEF PosterInv, Fresh, Settled, Reusable, At, Posting, Starting
  <2> QED BY <1>3, <2>3, <2>4, <2>5, <2>6
<1>4. ASSUME NEW c \in CPU, StartFill(c) PROVE PosterInv'
  <2>1. UNCHANGED <<astate, starts, posts, finished, pick, post>>
    BY <1>4 DEF StartFill, startVars, postHist
  <2>2. /\ pc[c] = "pfill" /\ Reusable(pick[c])
        /\ \A d \in CPU : pc'[d] = IF d = c THEN "ppost" ELSE pc[d]
    BY <1>4 DEF StartFill, At, Goto, TypeOK, PosterInv
  <2>3. /\ \A i \in Entries : i # pick[c] => ajob'[i] = ajob[i]
        /\ ajob'[pick[c]] = post[c] /\ aseq'[pick[c]] = asyncSeq'
    BY <1>4, <1>0 DEF StartFill, TypeOK, MailType
  <2>4. \A j : Fresh(j) => Fresh(j)'
    BY <2>1, <2>2, <2>3 DEF Fresh, Reusable
  <2>5. \A d \in CPU : d # c => pc[d] \notin HasLock
    BY <1>00, <2>2 DEF HasLock
  <2> QED BY <1>0, <2>1, <2>2, <2>3, <2>4, <2>5
      DEF PosterInv, Reusable, At, Posting, Starting, HasLock
<1>5. ASSUME NEW c \in CPU, StartPost(c) PROVE PosterInv'
  <2>1. UNCHANGED <<aseq, ajob, asyncSeq, starts, posts, finished, pick, post>>
    BY <1>5 DEF StartPost, startVars, postHist
  <2>2. /\ pc[c] = "ppost"
        /\ \A d \in CPU : pc'[d] = IF d = c THEN "pipi" ELSE pc[d]
    BY <1>5 DEF StartPost, At, Goto, TypeOK, PosterInv
  <2>3. /\ ajob[pick[c]] = post[c] /\ aseq[pick[c]] = asyncSeq
        /\ Fresh(post[c]) /\ post[c] # 0
    BY <2>2 DEF PosterInv, At, Posting, Fresh, Posts
  <2>4. /\ \A i \in Entries : i # pick[c] => astate'[i] = astate[i]
        /\ astate'[pick[c]] = 1
    BY <1>5, <1>0 DEF StartPost, TypeOK, MailType
  <2>5. \A j : Fresh(j) /\ j # post[c] => Fresh(j)'
    BY <2>1, <2>3, <2>4 DEF Fresh
  <2>6. \A d \in CPU : d # c => pc[d] \notin HasLock
    BY <1>00, <2>2 DEF HasLock
  <2>7. Settled(post[c], asyncSeq, pick[c])'
    BY <2>1, <2>3, <2>4 DEF Settled
  <2>8. \A d \in CPU : d # c /\ pc[d] \in Posting => post[d] # post[c]
    BY <2>2, <2>3 DEF PosterInv, Posting, Starting
  <2> QED BY <1>0, <1>01, <2>1, <2>2, <2>3, <2>5, <2>6, <2>7, <2>8
      DEF PosterInv, At, Posting, Starting, HasLock
<1>6. ASSUME NEW c \in AP, RunCas(c) \/ RunFetch(c) \/ RunFinish(c) PROVE PosterInv'
  <2>1. UNCHANGED <<aseq, ajob, asyncSeq, posts, pick, post>>
    BY <1>6 DEF RunCas, RunFetch, RunFinish, mailVars, startVars, postHist
  <2>2. \A d \in CPU : pc'[d] \in Starting => pc'[d] = pc[d]
    BY <1>6, ConstantFacts
    DEF RunCas, RunFetch, RunFinish, NextEntry, Goto, TypeOK, Starting
  <2>3. scan[c] \in Entries
    BY DEF TypeOK, RunType
  <2>4. /\ \A j : Fresh(j) => Fresh(j)'
        /\ \A j, q : \A i \in Entries : Settled(j, q, i) => Settled(j, q, i)'
        /\ \A i \in Entries : Reusable(i) => Reusable(i)'
    <3>1. CASE RunCas(c)
      <4>1. /\ UNCHANGED <<starts, finished>>
            /\ \A i \in Entries : \/ astate'[i] = astate[i]
                                  \/ astate[i] = 1 /\ astate'[i] = 2
        BY <3>1, <2>3 DEF RunCas, CasWins, postHist, TypeOK, MailType
      <4> QED BY <2>1, <4>1 DEF Fresh, Settled, Reusable
    <3>2. CASE RunFetch(c)
      <4>1. astate[scan[c]] = 2 /\ UNCHANGED <<astate, finished>>
        BY <3>2 DEF RunFetch, mailVars, At, RunnerInv, Owns, Loc, Starting
      <4>2. \A j \in Posts : j # ajob[scan[c]] => starts'[j] = starts[j]
        BY <3>2 DEF RunFetch, TypeOK, HistType
      <4> QED BY <2>1, <2>3, <4>1, <4>2 DEF Fresh, Settled, Reusable
    <3>3. CASE RunFinish(c)
      <4>1. /\ astate[scan[c]] = 2 /\ UNCHANGED starts
            /\ finished' = finished \cup {ajob[scan[c]]}
        BY <3>3 DEF RunFinish, At, RunnerInv, Owns, Loc, Starting
      <4>2. \A i \in Entries : astate'[i] = IF i = scan[c] THEN 3 ELSE astate[i]
        BY <3>3, <2>3 DEF RunFinish, TypeOK, MailType
      <4> QED BY <2>1, <2>3, <4>1, <4>2 DEF Fresh, Settled, Reusable
    <3> QED BY <1>6, <3>1, <3>2, <3>3
  <2> QED BY <1>0, <2>1, <2>2, <2>4 DEF PosterInv, At, Posting, Starting
<1> QED BY <1>1, <1>2, <1>3, <1>4, <1>5, <1>6, PosterFrame DEF StartStep

\* Steps that touch neither handles nor the mailbox leave HandleInv alone.
LEMMA HandleFrame ==
    ASSUME TypeOK, ControlInv, [Next]_vars
    PROVE  \/ /\ UNCHANGED <<astate, aseq, ajob, posts, finished, handle, told>>
              /\ pc'[Boot] = "poll" => pc[Boot] = "poll" /\ polling' = polling
           \/ PollState \/ \E j \in Posts : PollSeq(j)
           \/ \E c \in CPU : \/ StartCall(c) \/ StartFill(c) \/ StartPost(c)
                             \/ StartReturn(c)
           \/ \E c \in AP : RunCas(c) \/ RunFinish(c)
<1> DEFINE Quiet == /\ UNCHANGED <<astate, aseq, ajob, posts, finished, handle, told>>
                    /\ pc'[Boot] = "poll" => pc[Boot] = "poll" /\ polling' = polling
<1> USE ConstantFacts
    DEF mailVars, postHist, pollVars, At, Goto, TypeOK
<1>1. CASE UNCHANGED vars
  BY <1>1 DEF vars
<1>2. CASE \E l \in Loops : CallInline(l) \/ Call(l)
  BY <1>2 DEF CallInline, Call
<1>3. CASE CallStep
  BY <1>3 DEF CallStep, CallLock, CallZero, CallDrain, CallFill, CallOpen,
     CallAnnounce, CallIpi, CallWait, CallReturn
<1>4. ASSUME NEW c \in CPU, JoinStep(c) PROVE Quiet
  BY <1>4 DEF JoinStep, JoinEnter, JoinCheck, JoinRead, Claim, RunItems,
     AddDone, JoinLeave
<1>5. ASSUME NEW c \in CPU, StartLock(c) \/ StartPick(c) \/ StartIpi(c) PROVE Quiet
  BY <1>5 DEF StartLock, StartPick, StartIpi
<1>6. ASSUME NEW c \in AP,
             ApLoad(c) \/ ApReady(c) \/ ApWake(c) \/ RunScan(c) \/ RunFetch(c) \/ ApFault(c)
      PROVE  Quiet
  BY <1>6 DEF ApLoad, ApReady, Halt, ApWake, RunScan, NextEntry, RunFetch, ApFault
<1> QED
  BY <1>1, <1>2, <1>3, <1>4, <1>5, <1>6
  DEF Next, Step, StartStep, WorkerStep

\* Every step keeps handles honest: a handle whose entry was recycled, or is
\* in state 3 under its own sequence number, names a finished job.
LEMMA HandleStep ==
    ASSUME TypeOK, ControlInv, MailInv, RunnerInv, PosterInv, HandleInv, [Next]_vars
    PROVE  HandleInv'
<1>0. /\ \A j \in Posts : handle[j] # NoHandle => handle[j].idx \in Entries
      /\ \A c \in CPU : pick[c] \in Entries
      /\ posts \in Nat /\ Posts \subseteq Nat
  BY DEF TypeOK, HistType, StartType, Handle, Posts
<1>1. CASE /\ UNCHANGED <<astate, aseq, ajob, posts, finished, handle, told>>
           /\ pc'[Boot] = "poll" => pc[Boot] = "poll" /\ polling' = polling
  BY <1>1 DEF HandleInv, Settled, At
<1>2. CASE PollState
  <2>1. /\ UNCHANGED <<astate, aseq, ajob, posts, finished, handle>>
        /\ pc'[Boot] = "idle"
    BY <1>2, ConstantFacts DEF PollState, mailVars, postHist, Goto, TypeOK
  <2>2. told' \subseteq finished
    BY <1>2 DEF PollState, At, HandleInv, Settled
  <2> QED BY <2>1, <2>2 DEF HandleInv, Settled, At
<1>3. ASSUME NEW j \in Posts, PollSeq(j) PROVE HandleInv'
  <2>1. UNCHANGED <<astate, aseq, ajob, posts, finished, handle>>
    BY <1>3 DEF PollSeq, mailVars, postHist
  <2>2. told' \subseteq finished
    BY <1>3 DEF PollSeq, HandleInv, Settled
  <2>3. pc'[Boot] = "poll" => polling' = j /\ handle[j] # NoHandle
    BY <1>3, ConstantFacts DEF PollSeq, At, Goto, TypeOK
  <2> QED BY <2>1, <2>2, <2>3 DEF HandleInv, Settled, At
<1>4. ASSUME NEW c \in CPU, StartCall(c) PROVE HandleInv'
  <2>1. /\ UNCHANGED <<astate, aseq, ajob, finished, handle, told, polling>>
        /\ posts' = posts + 1
        /\ pc'[Boot] = "poll" => pc[Boot] = "poll"
    BY <1>4, ConstantFacts DEF StartCall, mailVars, pollVars, Goto, TypeOK
  <2> QED BY <1>0, <2>1 DEF HandleInv, Settled, At
<1>5. ASSUME NEW c \in CPU, StartFill(c) \/ StartPost(c) PROVE HandleInv'
  <2>1. /\ UNCHANGED <<posts, finished, handle, told, polling>>
        /\ pc'[Boot] = "poll" => pc[Boot] = "poll"
    BY <1>5, ConstantFacts DEF StartFill, StartPost, postHist, pollVars, Goto, TypeOK
  <2>2. Reusable(pick[c])
    BY <1>5 DEF StartFill, StartPost, At, PosterInv
  <2>3. \A i \in Entries : i # pick[c] =>
          astate'[i] = astate[i] /\ aseq'[i] = aseq[i] /\ ajob'[i] = ajob[i]
    BY <1>5 DEF StartFill, StartPost, TypeOK, MailType
  <2> QED BY <1>0, <2>1, <2>2, <2>3 DEF HandleInv, Settled, Reusable, At
<1>6. ASSUME NEW c \in CPU, StartReturn(c) PROVE HandleInv'
  <2>1. /\ UNCHANGED <<astate, aseq, ajob, posts, finished, told, polling>>
        /\ pc[c] = "punlock" /\ (pc'[Boot] = "poll" => pc[Boot] = "poll")
    BY <1>6, ConstantFacts
    DEF StartReturn, mailVars, pollVars, At, Goto, TypeOK, StartType
  <2>2. \A j \in Posts :
          handle'[j] = IF j = post[c] THEN [seq |-> asyncSeq, idx |-> pick[c]]
                                      ELSE handle[j]
    BY <1>6, <1>0 DEF StartReturn, Posts, TypeOK, HistType
  <2>3. post[c] \in Posts => /\ post[c] <= posts
                             /\ Settled(post[c], asyncSeq, pick[c])
    BY <2>1 DEF PosterInv, Posts
  <2>4. [seq |-> asyncSeq, idx |-> pick[c]] # NoHandle
    BY <1>0, SmpAssumption DEF Handle, TypeOK, MailType
  <2> QED BY <2>1, <2>2, <2>3, <2>4 DEF HandleInv, Settled, At
<1>7. ASSUME NEW c \in AP, RunCas(c) \/ RunFinish(c) PROVE HandleInv'
  <2>1. /\ UNCHANGED <<aseq, ajob, posts, handle, told, polling>>
        /\ pc'[Boot] = "poll" => pc[Boot] = "poll"
    BY <1>7, ConstantFacts
    DEF RunCas, RunFinish, NextEntry, postHist, pollVars, Goto, TypeOK
  <2>2. scan[c] \in Entries
    BY DEF TypeOK, RunType
  <2>3. CASE RunCas(c)
    <3>1. /\ UNCHANGED finished
          /\ \A i \in Entries : \/ astate'[i] = astate[i]
                                \/ astate[i] = 1 /\ astate'[i] = 2
      BY <2>2, <2>3 DEF RunCas, CasWins, postHist, TypeOK, MailType
    <3> QED BY <1>0, <2>1, <3>1 DEF HandleInv, Settled, At
  <2>4. CASE RunFinish(c)
    <3>1. finished' = finished \cup {ajob[scan[c]]}
      BY <2>4 DEF RunFinish, At, RunnerInv, Owns, Loc, Starting
    <3>2. \A i \in Entries : astate'[i] = IF i = scan[c] THEN 3 ELSE astate[i]
      BY <2>2, <2>4 DEF RunFinish, TypeOK, MailType
    <3> QED BY <1>0, <2>1, <3>1, <3>2 DEF HandleInv, Settled, At
  <2> QED BY <1>7, <2>3, <2>4
<1> QED BY <1>1, <1>2, <1>3, <1>4, <1>5, <1>6, <1>7, HandleFrame

\* The CPUs can be counted.
LEMMA CpuFinite == IsFiniteSet(CPU)
  BY SmpAssumption, FS_AddElement DEF CPU

\* Only JoinEnter and JoinLeave move a CPU into or out of a slot.
LEMMA ActiveFrame ==
    ASSUME TypeOK, ControlInv, [Next]_vars
    PROVE  \/ /\ UNCHANGED active
              /\ \A c \in CPU : /\ Loc(c)' \in Inside <=> Loc(c) \in Inside
                                /\ Loc(c) \in Inside => g'[c] = g[c]
           \/ \E c \in CPU : JoinEnter(c) \/ JoinLeave(c)
<1> DEFINE Quiet == /\ UNCHANGED active
                    /\ \A c \in CPU : /\ Loc(c)' \in Inside <=> Loc(c) \in Inside
                                      /\ Loc(c) \in Inside => g'[c] = g[c]
<1> USE ConstantFacts
    DEF slotVars, joinVars, startVars, At, Goto, TypeOK, JoinType, StartType,
        Loc, Inside, Starting
<1>1. CASE UNCHANGED vars
  BY <1>1 DEF vars
<1>2. CASE \E l \in Loops : CallInline(l) \/ Call(l)
  BY <1>2 DEF CallInline, Call
<1>3. CASE CallStep \/ PollState \/ \E j \in Posts : PollSeq(j)
  BY <1>3 DEF CallStep, CallLock, CallZero, CallDrain, CallFill, CallOpen,
     CallAnnounce, CallIpi, CallWait, CallReturn, PollState, PollSeq
<1>4. ASSUME NEW c \in CPU,
             JoinCheck(c) \/ JoinRead(c) \/ Claim(c) \/ RunItems(c) \/ AddDone(c)
      PROVE  Quiet
  BY <1>4 DEF JoinCheck, JoinRead, Claim, RunItems, AddDone
<1>5. ASSUME NEW c \in CPU, StartCall(c) PROVE Quiet
  BY <1>5 DEF StartCall, MayPost
<1>6. ASSUME NEW c \in CPU, StartStep(c) PROVE Quiet
  BY <1>6 DEF StartStep, StartLock, StartPick, StartFill, StartPost, StartIpi,
     StartReturn
<1>7. ASSUME NEW c \in AP, ApLoad(c) \/ ApReady(c) \/ ApWake(c) PROVE Quiet
  BY <1>7 DEF ApLoad, ApReady, Halt, ApWake
<1>8. ASSUME NEW c \in AP, RunScan(c) \/ RunCas(c) \/ RunFetch(c) \/ RunFinish(c)
      PROVE  Quiet
  BY <1>8 DEF RunScan, RunCas, RunFetch, RunFinish, NextEntry
<1>9. ASSUME NEW c \in AP, ApFault(c) PROVE Quiet
  BY <1>9 DEF ApFault
<1> QED
  BY <1>1, <1>2, <1>3, <1>4, <1>5, <1>6, <1>7, <1>8, <1>9
  DEF Next, Step, JoinStep, WorkerStep

\* The CPUs inside a slot can be counted.
LEMMA WithinFinite ==
    \A s : IsFiniteSet(Within(s)) /\ Cardinality(Within(s)) \in Nat
<1> TAKE s
<1>1. IsFiniteSet(Within(s))
  BY CpuFinite, FS_Subset DEF Within
<1> QED BY <1>1, FS_CardinalityType

\* Every step keeps J->active the number of CPUs between the two updates of
\* it in job_join.
LEMMA ActiveStep ==
    ASSUME TypeOK, ControlInv, ActiveInv, [Next]_vars
    PROVE  ActiveInv'
<1>1. CASE /\ UNCHANGED active
           /\ \A c \in CPU : /\ Loc(c)' \in Inside <=> Loc(c) \in Inside
                             /\ Loc(c) \in Inside => g'[c] = g[c]
  <2>1. \A s \in Slots : Within(s)' = Within(s)
    BY <1>1 DEF Within, SlotOf
  <2> QED BY <1>1, <2>1 DEF ActiveInv
<1>2. ASSUME NEW c \in CPU, JoinEnter(c) PROVE ActiveInv'
  <2>1. /\ Loc(c) \notin Inside /\ Loc(c)' \in Inside /\ UNCHANGED g
        /\ \A d \in CPU : d # c => Loc(d)' = Loc(d)
    BY <1>2 DEF JoinEnter, joinVars, startVars, At, Goto, TypeOK, Loc, Inside,
       Starting
  <2>2. \A s \in Slots : Within(s)' = IF s = SlotOf(c) THEN Within(s) \cup {c}
                                                       ELSE Within(s)
    BY <2>1 DEF Within, SlotOf
  <2>3. c \notin Within(SlotOf(c))
    BY <2>1 DEF Within
  <2>4. Cardinality(Within(SlotOf(c)) \cup {c}) = Cardinality(Within(SlotOf(c))) + 1
    BY <2>3, WithinFinite, FS_AddElement
  <2>5. \A s \in Slots : active'[s] = IF s = SlotOf(c) THEN active[s] + 1
                                                       ELSE active[s]
    BY <1>2 DEF JoinEnter, TypeOK, SlotType
  <2> QED BY <2>2, <2>4, <2>5 DEF ActiveInv
<1>3. ASSUME NEW c \in CPU, JoinLeave(c) PROVE ActiveInv'
  <2>1. /\ Loc(c) \in Inside /\ Loc(c)' \notin Inside /\ UNCHANGED g
        /\ \A d \in CPU : d # c => Loc(d)' = Loc(d)
    BY <1>3 DEF JoinLeave, startVars, At, Goto, TypeOK, Loc, Inside, Starting
  <2>2. \A s \in Slots : Within(s)' = IF s = SlotOf(c) THEN Within(s) \ {c}
                                                       ELSE Within(s)
    BY <2>1 DEF Within, SlotOf
  <2>3. c \in Within(SlotOf(c))
    BY <2>1 DEF Within
  <2>4. Cardinality(Within(SlotOf(c)) \ {c}) = Cardinality(Within(SlotOf(c))) - 1
    BY <2>3, WithinFinite, FS_RemoveElement
  <2>5. \A s \in Slots : active'[s] = IF s = SlotOf(c) THEN active[s] - 1
                                                       ELSE active[s]
    BY <1>3 DEF JoinLeave, TypeOK, SlotType
  <2> QED BY <2>2, <2>4, <2>5 DEF ActiveInv
<1> QED BY <1>1, <1>2, <1>3, ActiveFrame

\* A slot whose active count is 0 has nobody inside.
LEMMA DrainedIsEmpty ==
    ASSUME ActiveInv, NEW s \in Slots, active[s] = 0
    PROVE  Within(s) = {}
  BY WithinFinite, FS_EmptySet DEF ActiveInv

\* Every step keeps checked joiners out of a slot that is being recycled.
LEMMA JoinInvStep ==
    ASSUME TypeOK, ControlInv, ActiveInv, JoinInv, [Next]_vars
    PROVE  JoinInv'
<1> USE ConstantFacts
    DEF slotVars, pubVars, joinVars, startVars, At, Goto, TypeOK, PubType,
        JoinType, StartType, Loc, Inside, Checked, Starting, Published,
        Announced, SlotOf, JoinInv
<1>0. \A c \in CPU : SlotOf(c) \in Slots
  BY SlotOfType
<1>1. CASE UNCHANGED vars
  BY <1>1 DEF vars
<1>2. CASE \E l \in Loops : CallInline(l) \/ Call(l)
  BY <1>2 DEF CallInline, Call
<1>3. CASE CallLock
  <2>1. Bump(genCounter, GenMod) # 0
    BY BumpType
  <2> QED BY <1>3, <2>1 DEF CallLock
<1>4. CASE CallZero
  <2>1. gen'[SlotOf(Boot)] = 0
    BY <1>4, <1>0 DEF CallZero, SlotType
  <2> QED BY <1>4, <2>1 DEF CallZero
<1>5. CASE CallDrain
  <2>1. \A c \in CPU : Loc(c) \in Inside => SlotOf(c) # SlotOf(Boot)
    <3>1. active[SlotOf(Boot)] = 0
      BY <1>5 DEF CallDrain, Drained
    <3>2. Within(SlotOf(Boot)) = {}
      BY <1>0, <3>1, DrainedIsEmpty
    <3> QED BY <3>2 DEF Within
  <2> QED BY <1>5, <2>1 DEF CallDrain
<1>6. CASE CallFill
  BY <1>6 DEF CallFill
<1>7. CASE CallOpen
  BY <1>7 DEF CallOpen
<1>8. CASE CallAnnounce
  BY <1>8 DEF CallAnnounce
<1>9. CASE CallIpi \/ CallWait \/ CallReturn
  BY <1>9 DEF CallIpi, CallWait, CallReturn
<1>10. CASE PollState \/ \E j \in Posts : PollSeq(j)
  BY <1>10 DEF PollState, PollSeq
<1>11. ASSUME NEW c \in CPU, JoinEnter(c) PROVE JoinInv'
  BY <1>11 DEF JoinEnter
<1>12. ASSUME NEW c \in CPU, JoinCheck(c) PROVE JoinInv'
  <2>1. pc'[c] \in Checked => gen[SlotOf(c)] # 0
    BY <1>12 DEF JoinCheck, NotRecycled
  <2> QED BY <1>12, <2>1 DEF JoinCheck
<1>13. ASSUME NEW c \in CPU, JoinRead(c) PROVE JoinInv'
  BY <1>13 DEF JoinRead
<1>14. ASSUME NEW c \in CPU, Claim(c) PROVE JoinInv'
  <2>1. pc'[c] = "run" => lo'[c] <= hi'[c]
    <3>1. mine[c].n \in Nat /\ mine[c].grain \in Nat /\ next[SlotOf(c)] \in Nat
      BY <1>0 DEF LoopType, SlotType
    <3>2. (next[SlotOf(c)] + mine[c].grain) % W \in Nat
      BY <3>1
    <3> QED BY <1>14, <3>1, <3>2 DEF Claim
  <2>2. /\ pc[c] = "claim" /\ pc'[c] \in {"run", "leave"}
        /\ \A d \in CPU : d # c => /\ pc'[d] = pc[d] /\ lo'[d] = lo[d]
                                   /\ hi'[d] = hi[d]
        /\ UNCHANGED <<gen, ret, g, seen, smpGen>>
    BY <1>14 DEF Claim
  <2> QED BY <2>1, <2>2
<1>15. ASSUME NEW c \in CPU, RunItems(c) PROVE JoinInv'
  BY <1>15 DEF RunItems
<1>16. ASSUME NEW c \in CPU, AddDone(c) \/ JoinLeave(c) PROVE JoinInv'
  BY <1>16 DEF AddDone, JoinLeave
<1>17. ASSUME NEW c \in CPU, StartCall(c) PROVE JoinInv'
  BY <1>17 DEF StartCall, MayPost, Refused, ControlInv
<1>18. ASSUME NEW c \in CPU, StartStep(c) PROVE JoinInv'
  BY <1>18 DEF StartStep, StartLock, StartPick, StartFill, StartPost,
     StartIpi, StartReturn
<1>19. ASSUME NEW c \in AP, ApLoad(c) PROVE JoinInv'
  BY <1>19 DEF ApLoad
<1>20. ASSUME NEW c \in AP, ApReady(c) \/ ApWake(c) \/ ApFault(c) PROVE JoinInv'
  BY <1>20 DEF ApReady, Halt, ApWake, ApFault
<1>21. ASSUME NEW c \in AP, RunScan(c) \/ RunCas(c) \/ RunFetch(c) \/ RunFinish(c)
       PROVE  JoinInv'
  BY <1>21 DEF RunScan, RunCas, RunFetch, RunFinish, NextEntry
<1> QED
  BY <1>1, <1>2, <1>3, <1>4, <1>5, <1>6, <1>7, <1>8, <1>9, <1>10, <1>11,
     <1>12, <1>13, <1>14, <1>15, <1>16, <1>17, <1>18, <1>19, <1>20, <1>21
  DEF Next, Step, JoinStep, CallStep, WorkerStep

\* Steps outside smp_parallel_for and job_join leave the slots alone.
LEMMA SlotFrame ==
    ASSUME [Next]_vars
    PROVE  \/ UNCHANGED slotVars
           \/ CallZero \/ CallFill \/ CallOpen
           \/ \E c \in CPU : JoinEnter(c) \/ Claim(c) \/ AddDone(c) \/ JoinLeave(c)
  BY ZenonT(40) DEF Next, Step, JoinStep, CallStep, StartStep, WorkerStep, vars, 
    CallInline, Call, CallLock, CallDrain, CallAnnounce, CallIpi, CallWait,
    CallReturn, JoinCheck, JoinRead, RunItems, StartCall, StartLock, StartPick,
    StartFill, StartPost, StartIpi, StartReturn, PollSeq, PollState, ApLoad,
    ApReady, ApWake, RunScan, RunCas, RunFetch, RunFinish, ApFault

\* Every step keeps the slots typed; next and done wrap inside 32 bits.
LEMMA SlotTypeStep ==
    ASSUME TypeOK, ActiveInv, JoinInv, [Next]_vars
    PROVE  SlotType'
<1>0. \A c \in CPU : SlotOf(c) \in Slots
  BY SlotOfType
<1>1. CASE UNCHANGED slotVars
  BY <1>1 DEF TypeOK, SlotType, slotVars
<1>2. CASE CallZero
  BY <1>2, ConstantFacts DEF CallZero, TypeOK, SlotType
<1>3. CASE CallFill
  BY <1>3, ConstantFacts DEF CallFill, TypeOK, SlotType, JoinType
<1>4. CASE CallOpen
  BY <1>4, ConstantFacts DEF CallOpen, TypeOK, SlotType, JoinType
<1>5. ASSUME NEW c \in CPU, JoinEnter(c) PROVE SlotType'
  BY <1>5, <1>0 DEF JoinEnter, TypeOK, SlotType
<1>6. ASSUME NEW c \in CPU, Claim(c) PROVE SlotType'
  <2>1. mine[c].grain \in Nat /\ next[SlotOf(c)] \in Nat
    BY <1>0 DEF TypeOK, SlotType, JoinType, LoopType
  <2>2. (next[SlotOf(c)] + mine[c].grain) % W \in 0 .. W - 1
    BY <2>1, SmpAssumption
  <2> QED BY <1>6, <2>2 DEF Claim, TypeOK, SlotType
<1>7. ASSUME NEW c \in CPU, AddDone(c) PROVE SlotType'
  <2>1. hi[c] - lo[c] \in Nat
    BY <1>7 DEF AddDone, At, JoinInv, Loc, Starting, TypeOK, JoinType
  <2>2. (done[SlotOf(c)] + (hi[c] - lo[c])) % W \in 0 .. W - 1
    BY <2>1, <1>0, SmpAssumption DEF TypeOK, SlotType
  <2> QED BY <1>7, <2>2 DEF AddDone, TypeOK, SlotType
<1>8. ASSUME NEW c \in CPU, JoinLeave(c) PROVE SlotType'
  <2>1. c \in Within(SlotOf(c))
    BY <1>8 DEF JoinLeave, At, Within, Loc, Inside, Starting
  <2>2. active[SlotOf(c)] # 0
    BY <1>0, <2>1, DrainedIsEmpty
  <2> QED BY <1>0, <1>8, <2>2 DEF JoinLeave, TypeOK, SlotType
<1> QED BY <1>1, <1>2, <1>3, <1>4, <1>5, <1>6, <1>7, <1>8, SlotFrame

\* Every step keeps the publishing words typed.
LEMMA PubTypeStep ==
    ASSUME TypeOK, [Next]_vars
    PROVE  PubType'
<1> USE ConstantFacts DEF TypeOK, PubType, JoinType, pubVars
<1>1. CASE UNCHANGED vars \/ CallLock
  <2>1. Bump(genCounter, GenMod) \in 0 .. GenMod - 1
    BY BumpType
  <2> QED BY <1>1, <2>1 DEF vars, CallLock
<1>2. CASE \E l \in Loops : CallInline(l) \/ Call(l)
  BY <1>2 DEF CallInline, Call
<1>3. CASE CallZero \/ CallDrain \/ CallFill \/ CallOpen \/ CallAnnounce \/ CallIpi
  <2>1. CASE CallAnnounce
    BY <2>1 DEF CallAnnounce
  <2> QED BY <1>3, <2>1 DEF CallZero, CallDrain, CallFill, CallOpen, CallIpi
<1>4. CASE CallWait \/ CallReturn \/ PollState \/ \E j \in Posts : PollSeq(j)
  BY <1>4 DEF CallWait, CallReturn, PollState, PollSeq
<1>5. ASSUME NEW c \in CPU, JoinStep(c) PROVE PubType'
  BY <1>5 DEF JoinStep, JoinEnter, JoinCheck, JoinRead, Claim, RunItems,
     AddDone, JoinLeave
<1>6. ASSUME NEW c \in CPU, StartStep(c) \/ StartCall(c) PROVE PubType'
  BY <1>6 DEF StartStep, StartCall, StartLock, StartPick, StartFill,
     StartPost, StartIpi, StartReturn
<1>7. ASSUME NEW c \in AP, WorkerStep(c) \/ ApFault(c) PROVE PubType'
  BY <1>7 DEF WorkerStep, ApLoad, ApReady, ApWake, RunScan, RunCas, RunFetch,
     RunFinish, ApFault
<1> QED BY <1>1, <1>2, <1>3, <1>4, <1>5, <1>6, <1>7 DEF Next, Step, CallStep

\* Every step keeps the mailbox typed.
LEMMA MailTypeStep ==
    ASSUME TypeOK, [Next]_vars
    PROVE  MailType'
<1> USE ConstantFacts DEF TypeOK, MailType, StartType, mailVars
<1>1. CASE UNCHANGED vars
  BY <1>1 DEF vars
<1>2. CASE CallStep \/ PollState \/ (\E l \in Loops : CallInline(l) \/ Call(l))
           \/ (\E j \in Posts : PollSeq(j))
  BY <1>2 DEF CallStep, CallInline, Call, CallLock, CallZero, CallDrain,
     CallFill, CallOpen, CallAnnounce, CallIpi, CallWait, CallReturn, PollSeq,
     PollState
<1>3. ASSUME NEW c \in CPU, JoinStep(c) PROVE MailType'
  BY <1>3 DEF JoinStep, JoinEnter, JoinCheck, JoinRead, Claim, RunItems,
     AddDone, JoinLeave
<1>4. ASSUME NEW c \in CPU, StartStep(c) \/ StartCall(c) PROVE MailType'
  <2>1. Bump(asyncSeq, SeqMod) \in 0 .. SeqMod - 1
    BY BumpType
  <2> QED BY <1>4, <2>1 DEF StartStep, StartCall, StartLock, StartPick,
      StartFill, StartPost, StartIpi, StartReturn
<1>5. ASSUME NEW c \in AP, WorkerStep(c) \/ ApFault(c) PROVE MailType'
  BY <1>5 DEF WorkerStep, ApLoad, ApReady, ApWake, RunScan, RunCas, RunFetch,
     RunFinish, ApFault
<1> QED BY <1>1, <1>2, <1>3, <1>4, <1>5 DEF Next, Step

\* Every step keeps the locals of job_join typed.
LEMMA JoinTypeStep ==
    ASSUME TypeOK, [Next]_vars
    PROVE  JoinType'
<1> USE ConstantFacts DEF TypeOK, PubType, JoinType, joinVars
<1>0. \A c \in CPU : SlotOf(c) \in Slots
  BY SlotOfType
<1>1. CASE UNCHANGED vars \/ CallLock
  <2>1. Bump(genCounter, GenMod) \in 0 .. GenMod - 1
    BY BumpType
  <2> QED BY <1>1, <2>1 DEF vars, CallLock
<1>2. ASSUME NEW l \in Loops, CallInline(l) \/ Call(l) PROVE JoinType'
  <2>1. Loop(calls + 1, LengthOf(l), GrainOf(l)) \in LoopType
    <3>1. LengthOf(l) \in Nat /\ l.grain \in Nat
      BY SmpAssumption DEF LengthOf
    <3>2. Cardinality(CPU) \in Nat /\ Cardinality(CPU) # 0
      BY CpuFinite, FS_CardinalityType, FS_EmptySet
    <3>3. LengthOf(l) \div (Cardinality(CPU) * 8) \in Nat
      BY <3>1, <3>2
    <3> QED BY <3>1, <3>3 DEF Loop, LoopType, GrainOf, HistType
  <2> QED BY <1>2, <2>1 DEF CallInline, Call
<1>3. CASE CallZero \/ CallDrain \/ CallFill \/ CallOpen \/ CallAnnounce \/ CallIpi
  BY <1>3 DEF CallZero, CallDrain, CallFill, CallOpen, CallAnnounce, CallIpi
<1>4. CASE CallWait \/ CallReturn \/ PollState \/ \E j \in Posts : PollSeq(j)
  BY <1>4 DEF CallWait, CallReturn, PollState, PollSeq
<1>5. ASSUME NEW c \in CPU,
             JoinEnter(c) \/ JoinCheck(c) \/ JoinRead(c) \/ RunItems(c)
               \/ AddDone(c) \/ JoinLeave(c)
      PROVE  JoinType'
  <2>1. NoLoop \in LoopType /\ job[SlotOf(c)] \in LoopType
    BY <1>0 DEF NoLoop, Loop, LoopType, SlotType
  <2> QED BY <1>5, <2>1 DEF JoinEnter, JoinCheck, JoinRead, RunItems, AddDone,
      JoinLeave
<1>6. ASSUME NEW c \in CPU, Claim(c) PROVE JoinType'
  <2>1. mine[c].n \in Nat /\ mine[c].grain \in Nat /\ next[SlotOf(c)] \in Nat
    BY <1>0 DEF LoopType, SlotType
  <2>2. (next[SlotOf(c)] + mine[c].grain) % W \in Nat
    BY <2>1
  <2> QED BY <1>6, <2>1, <2>2 DEF Claim
<1>7. ASSUME NEW c \in CPU, StartStep(c) \/ StartCall(c) PROVE JoinType'
  BY <1>7 DEF StartStep, StartCall, StartLock, StartPick, StartFill,
     StartPost, StartIpi, StartReturn
<1>8. ASSUME NEW c \in AP, WorkerStep(c) \/ ApFault(c) PROVE JoinType'
  BY <1>8 DEF WorkerStep, ApLoad, ApReady, ApWake, RunScan, RunCas, RunFetch,
     RunFinish, ApFault
<1> QED
  BY <1>1, <1>2, <1>3, <1>4, <1>5, <1>6, <1>7, <1>8
  DEF Next, Step, CallStep, JoinStep

\* Every step keeps the locals of async_run typed.
LEMMA RunTypeStep ==
    ASSUME TypeOK, [Next]_vars
    PROVE  RunType'
<1> USE ConstantFacts DEF TypeOK, MailType, RunType
<1>1. CASE UNCHANGED vars
  BY <1>1 DEF vars
<1>2. CASE CallStep \/ PollState \/ (\E l \in Loops : CallInline(l) \/ Call(l))
           \/ (\E j \in Posts : PollSeq(j))
  BY <1>2 DEF CallStep, CallInline, Call, CallLock, CallZero, CallDrain,
     CallFill, CallOpen, CallAnnounce, CallIpi, CallWait, CallReturn, PollSeq,
     PollState
<1>3. ASSUME NEW c \in CPU, JoinStep(c) PROVE RunType'
  BY <1>3 DEF JoinStep, JoinEnter, JoinCheck, JoinRead, Claim, RunItems,
     AddDone, JoinLeave
<1>4. ASSUME NEW c \in CPU, StartStep(c) \/ StartCall(c) PROVE RunType'
  BY <1>4 DEF StartStep, StartCall, StartLock, StartPick, StartFill,
     StartPost, StartIpi, StartReturn
<1>5. ASSUME NEW c \in AP, WorkerStep(c) \/ ApFault(c) PROVE RunType'
  <2>1. /\ scan[c] + 1 < NASYNC => scan[c] + 1 \in Entries
        /\ ajob[scan[c]] \in 0 .. MaxPosts
    BY SMTT(30) DEF Entries
  <2>2. CASE ApLoad(c) \/ ApReady(c) \/ ApWake(c) \/ ApFault(c)
    BY <2>1, <2>2 DEF ApLoad, ApReady, Halt, ApWake, ApFault
  <2>3. CASE RunScan(c) \/ RunCas(c) \/ RunFetch(c) \/ RunFinish(c)
    BY <2>1, <2>3 DEF RunScan, RunCas, RunFetch, RunFinish, NextEntry
  <2> QED BY <1>5, <2>2, <2>3 DEF WorkerStep
<1> QED BY <1>1, <1>2, <1>3, <1>4, <1>5 DEF Next, Step

\* Every step keeps the locals of smp_async_start typed.
LEMMA StartTypeStep ==
    ASSUME TypeOK, [Next]_vars
    PROVE  StartType'
<1> USE ConstantFacts DEF TypeOK, StartType, startVars
<1>1. CASE UNCHANGED vars
  BY <1>1 DEF vars
<1>2. CASE CallStep \/ PollState \/ (\E l \in Loops : CallInline(l) \/ Call(l))
           \/ (\E j \in Posts : PollSeq(j))
  BY <1>2 DEF CallStep, CallInline, Call, CallLock, CallZero, CallDrain,
     CallFill, CallOpen, CallAnnounce, CallIpi, CallWait, CallReturn, PollSeq,
     PollState
<1>3. ASSUME NEW c \in CPU, JoinStep(c) PROVE StartType'
  BY <1>3 DEF JoinStep, JoinEnter, JoinCheck, JoinRead, Claim, RunItems,
     AddDone, JoinLeave
<1>4. ASSUME NEW c \in CPU, StartCall(c) PROVE StartType'
  <2>1. pc[c] \in {"idle", "run", "arun"} /\ posts + 1 \in 0 .. MaxPosts
    BY <1>4 DEF StartCall, MayPost, At, HistType
  <2> QED BY <1>4, <2>1 DEF StartCall
<1>5. ASSUME NEW c \in CPU, StartStep(c) PROVE StartType'
  <2>1. pick[c] + 1 < NASYNC => pick[c] + 1 \in Entries
    BY DEF Entries
  <2> QED BY <1>5, <2>1 DEF StartStep, StartLock, StartPick, StartFill,
      StartPost, StartIpi, StartReturn
<1>6. ASSUME NEW c \in AP, WorkerStep(c) \/ ApFault(c) PROVE StartType'
  BY <1>6 DEF WorkerStep, ApLoad, ApReady, ApWake, RunScan, RunCas, RunFetch,
     RunFinish, ApFault
<1> QED BY <1>1, <1>2, <1>3, <1>4, <1>5, <1>6 DEF Next, Step

\* Counting up one element of a function to Nat gives a function to Nat.
LEMMA CountType ==
    ASSUME NEW S, NEW f \in [S -> Nat], NEW x
    PROVE  [f EXCEPT ![x] = f[x] + 1] \in [S -> Nat]
<1>1. CASE x \in S
  BY <1>1
<1>2. CASE x \notin S
  <2>1. [f EXCEPT ![x] = f[x] + 1] = f
    BY <1>2, Zenon
  <2> QED BY <2>1
<1> QED BY <1>1, <1>2

\* Every step keeps the histories typed.
LEMMA HistTypeStep ==
    ASSUME TypeOK, HandleInv, [Next]_vars
    PROVE  HistType'
<1> USE ConstantFacts DEF TypeOK, HistType, loopHist, postHist, pollVars
<1>1. CASE UNCHANGED vars
  BY <1>1 DEF vars
<1>2. ASSUME NEW l \in Loops, CallInline(l) \/ Call(l) PROVE HistType'
  <2>1. calls' \in 0 .. MaxCalls
    BY <1>2 DEF CallInline, Call
  <2>2. ran' \in [Items -> Nat]
    BY <1>2 DEF CallInline, Call
  <2>3. UNCHANGED <<postHist, pollVars>>
    BY <1>2 DEF CallInline, Call
  <2> QED BY <2>1, <2>2, <2>3
<1>3. CASE CallStep
  BY <1>3 DEF CallStep, CallLock, CallZero, CallDrain, CallFill, CallOpen,
     CallAnnounce, CallIpi, CallWait, CallReturn
<1>4. CASE PollState
  BY <1>4 DEF PollState, At, HandleInv
<1>5. ASSUME NEW j \in Posts, PollSeq(j) PROVE HistType'
  <2>1. told' \subseteq Posts /\ UNCHANGED <<loopHist, postHist>>
    BY <1>5 DEF PollSeq
  <2>2. polling' \in 0 .. MaxPosts
    BY <1>5 DEF PollSeq, Posts
  <2> QED BY <2>1, <2>2
<1>6. ASSUME NEW c \in CPU, JoinStep(c) PROVE HistType'
  <2>1. CASE RunItems(c)
    <3>1. ran' \in [Items -> Nat]
      BY <2>1 DEF RunItems
    <3>2. UNCHANGED <<calls, postHist, pollVars>>
      BY <2>1 DEF RunItems
    <3> QED BY <3>1, <3>2
  <2> QED BY <1>6, <2>1 DEF JoinStep, JoinEnter, JoinCheck, JoinRead, Claim,
      AddDone, JoinLeave
<1>7. ASSUME NEW c \in CPU, StartCall(c) PROVE HistType'
  BY <1>7 DEF StartCall
<1>8. ASSUME NEW c \in CPU, StartStep(c) PROVE HistType'
  <2>1. [seq |-> asyncSeq, idx |-> pick[c]] \in Handle
    BY DEF Handle, MailType, StartType
  <2> QED BY <1>8, <2>1, ZenonT(40) DEF StartStep, StartLock, StartPick, StartFill,
      StartPost, StartIpi, StartReturn
<1>9. ASSUME NEW c \in AP, WorkerStep(c) \/ ApFault(c) PROVE HistType'
  <2>1. CASE RunFetch(c)
    <3>0. PICK x : starts' = [starts EXCEPT ![x] = starts[x] + 1]
      BY <2>1 DEF RunFetch
    <3>1. starts' \in [Posts -> Nat]
      BY <3>0, CountType
    <3>2. UNCHANGED <<loopHist, posts, finished, handle, pollVars>>
      BY <2>1 DEF RunFetch
    <3> QED BY <3>1, <3>2
  <2>2. CASE RunFinish(c)
    BY <2>2 DEF RunFinish, RunType
  <2> QED BY <1>9, <2>1, <2>2 DEF WorkerStep, ApLoad, ApReady, ApWake, RunScan,
      RunCas, ApFault
<1> QED
  BY <1>1, <1>2, <1>3, <1>4, <1>5, <1>6, <1>7, <1>8, <1>9 DEF Next, Step

\* Every step keeps the interrupts and the program counters typed.
LEMMA ControlTypeStep ==
    ASSUME TypeOK, [Next]_vars
    PROVE  ipi' \in [CPU -> BOOLEAN] /\ pc' \in [CPU -> Pcs]
<1> DEFINE Goal == ipi' \in [CPU -> BOOLEAN] /\ pc' \in [CPU -> Pcs]
<1> USE ConstantFacts DEF TypeOK, Pcs, InCall, Inside, Starting, Goto, WakeOthers
<1>1. CASE UNCHANGED vars
  BY <1>1 DEF vars
<1>2. CASE \E l \in Loops : CallInline(l) \/ Call(l)
  BY <1>2 DEF CallInline, Call
<1>3. CASE CallStep \/ PollState \/ \E j \in Posts : PollSeq(j)
  BY <1>3 DEF CallStep, CallLock, CallZero, CallDrain, CallFill, CallOpen,
     CallAnnounce, CallIpi, CallWait, CallReturn, PollState, PollSeq
<1>4. ASSUME NEW c \in CPU, JoinStep(c) PROVE Goal
  BY <1>4 DEF JoinStep, JoinEnter, JoinCheck, JoinRead, Claim, RunItems,
     AddDone, JoinLeave
<1>5. ASSUME NEW c \in CPU, StartStep(c) \/ StartCall(c) PROVE Goal
  <2>1. CASE StartIpi(c)
    BY <2>1 DEF StartIpi
  <2>2. CASE StartReturn(c)
    BY <2>2 DEF StartReturn, StartType
  <2> QED BY <1>5, <2>1, <2>2 DEF StartStep, StartCall, StartLock, StartPick,
      StartFill, StartPost
<1>6. ASSUME NEW c \in AP, WorkerStep(c) \/ ApFault(c) PROVE Goal
  BY <1>6, ZenonT(40) DEF WorkerStep, ApLoad, ApReady, Halt, ApWake, RunScan, RunCas,
     RunFetch, RunFinish, NextEntry, ApFault
<1> QED BY <1>1, <1>2, <1>3, <1>4, <1>5, <1>6 DEF Next, Step

\* Every step keeps an AP that goes to sleep from missing work: whoever publishes
\* it is still to send the interrupt, and cli holds back what comes in between.
LEMMA WakeStep ==
    ASSUME TypeOK, ControlInv, WakeInv, [Next]_vars
    PROVE  WakeInv'
<1> USE ConstantFacts
    DEF slotVars, pubVars, mailVars, joinVars, startVars, At, Goto, WakeInv,
        TypeOK, Starting, Entries
<1>1. CASE UNCHANGED vars
  BY <1>1 DEF vars
<1>2. CASE \E l \in Loops : CallInline(l) \/ Call(l)
  BY <1>2 DEF CallInline, Call
<1>3. CASE CallLock \/ CallZero \/ CallDrain \/ CallFill \/ CallOpen
           \/ CallAnnounce \/ CallWait \/ CallReturn
  BY <1>3 DEF CallLock, CallZero, CallDrain, CallFill, CallOpen, CallAnnounce,
     CallWait, CallReturn
<1>4. CASE CallIpi
  BY <1>4 DEF CallIpi, WakeOthers
<1>5. CASE PollState \/ \E j \in Posts : PollSeq(j)
  BY <1>5 DEF PollState, PollSeq
<1>6. ASSUME NEW c \in CPU, JoinStep(c) PROVE WakeInv'
  BY <1>6 DEF JoinStep, JoinEnter, JoinCheck, JoinRead, Claim, RunItems, AddDone,
     JoinLeave
<1>7. ASSUME NEW c \in CPU, StartCall(c) PROVE WakeInv'
  BY <1>7 DEF StartCall, MayPost
<1>8. ASSUME NEW c \in CPU, StartLock(c) \/ StartPick(c) \/ StartFill(c)
      PROVE  WakeInv'
  <2>1. /\ UNCHANGED <<ipi, smpGen, seen, scan, astate>>
        /\ At(c, "plock") \/ At(c, "pick") \/ At(c, "pfill")
        /\ \A d \in CPU : d # c => pick'[d] = pick[d] /\ pc'[d] = pc[d]
        /\ pc'[c] \in Starting
    BY <1>8 DEF StartLock, StartPick, StartFill, StartType
  <2> QED BY <2>1
<1>9. ASSUME NEW c \in CPU, StartPost(c) PROVE WakeInv'
  BY <1>9 DEF StartPost, MailType
<1>10. ASSUME NEW c \in CPU, StartIpi(c) PROVE WakeInv'
  BY <1>10 DEF StartIpi, WakeOthers
<1>11. ASSUME NEW c \in CPU, StartReturn(c) PROVE WakeInv'
  BY <1>11 DEF StartReturn, ControlInv
<1>12. ASSUME NEW c \in AP, ApLoad(c) PROVE WakeInv'
  BY <1>12 DEF ApLoad, JoinType, RunType
<1>13. ASSUME NEW c \in AP, ApReady(c) PROVE WakeInv'
  BY <1>13 DEF ApReady, Halt, RunType
<1>14. ASSUME NEW c \in AP, ApWake(c) PROVE WakeInv'
  BY <1>14 DEF ApWake
<1>15. ASSUME NEW c \in AP, RunScan(c) \/ RunFetch(c) PROVE WakeInv'
  BY <1>15 DEF RunScan, RunFetch, NextEntry, RunType
<1>16. ASSUME NEW c \in AP, RunCas(c) \/ RunFinish(c) PROVE WakeInv'
  <2>1. /\ UNCHANGED <<ipi, smpGen, seen, pick>>
        /\ pc[c] \in {"cas", "arun"} /\ pc'[c] \in {"scan", "fetch", "load"}
        /\ \A d \in CPU : d # c => pc'[d] = pc[d]
    BY <1>16 DEF RunCas, RunFinish, NextEntry
  <2>2. \A d \in AP : d # c => scan'[d] = scan[d]
    BY <1>16 DEF RunCas, RunFinish, NextEntry, RunType
  <2>3. \A i \in Entries : astate'[i] = 1 => astate[i] = 1
    BY <1>16 DEF RunCas, RunFinish, MailType
  <2> QED BY <2>1, <2>2, <2>3
<1>17. ASSUME NEW c \in AP, ApFault(c) PROVE WakeInv'
  BY <1>17 DEF ApFault
<1> QED
  BY <1>1, <1>2, <1>3, <1>4, <1>5, <1>6, <1>7, <1>8, <1>9, <1>10, <1>11, <1>12,
     <1>13, <1>14, <1>15, <1>16, <1>17 DEF Next, Step, CallStep, StartStep, WorkerStep

\* The engine starts in its invariant: no job, an empty mailbox.
LEMMA EngineInit == Init => EngineInv
<1> SUFFICES ASSUME Init PROVE EngineInv
  OBVIOUS
<1>1. TypeOK
  <2>1. NoLoop \in LoopType
    BY DEF NoLoop, Loop, LoopType
  <2>2. SlotType /\ PubType
    BY <2>1, ConstantFacts DEF Init, SlotType, PubType
  <2>3. MailType /\ RunType
    BY ConstantFacts DEF Init, MailType, RunType
  <2>4. JoinType
    BY <2>1, ConstantFacts DEF Init, JoinType
  <2>5. StartType /\ HistType
    BY ConstantFacts DEF Init, StartType, HistType
  <2>6. ipi \in [CPU -> BOOLEAN] /\ pc \in [CPU -> Pcs]
    BY DEF Init, Pcs
  <2> QED BY <2>2, <2>3, <2>4, <2>5, <2>6 DEF TypeOK
<1>2. \A c \in CPU : pc[c] \in {"idle", "load"} /\ Loc(c) = pc[c]
  BY DEF Init, Loc, Starting
<1>3. ControlInv
  BY ConstantFacts, <1>2 DEF Init, ControlInv, BootPcs, ApPcs, InCall, Inside,
     Starting, Announced, Published, HasLock
<1>4. ActiveInv
  <2>1. \A s : Within(s) = {}
    BY <1>2 DEF Within, Inside
  <2> QED BY <2>1, FS_EmptySet DEF ActiveInv, Init
<1>5. JoinInv
  BY <1>2, ConstantFacts DEF Init, JoinInv, Inside, Published, Announced
<1>6. MailInv /\ RunnerInv
  BY <1>2, ConstantFacts DEF Init, MailInv, RunnerInv, Owns
<1>7. PosterInv /\ HandleInv
  BY <1>2, ConstantFacts DEF Init, PosterInv, HandleInv, Posting, Starting, At
<1>8. WakeInv
  BY <1>2, ConstantFacts DEF Init, WakeInv, At
<1> QED BY <1>1, <1>3, <1>4, <1>5, <1>6, <1>7, <1>8 DEF EngineInv

\* Every step of every CPU keeps the invariant.
LEMMA EngineStep == EngineInv /\ [Next]_vars => EngineInv'
<1> SUFFICES ASSUME EngineInv, [Next]_vars PROVE EngineInv'
  OBVIOUS
<1> USE DEF EngineInv
<1>1. TypeOK'
  <2>1. SlotType' /\ PubType' /\ MailType' /\ JoinType'
    BY SlotTypeStep, PubTypeStep, MailTypeStep, JoinTypeStep
  <2>2. RunType' /\ StartType' /\ HistType'
    BY RunTypeStep, StartTypeStep, HistTypeStep
  <2> QED BY <2>1, <2>2, ControlTypeStep DEF TypeOK
<1>2. ControlInv' /\ ActiveInv' /\ JoinInv'
  BY ControlStep, ActiveStep, JoinInvStep
<1>3. MailInv' /\ RunnerInv' /\ PosterInv' /\ HandleInv' /\ WakeInv'
  BY MailStep, RunnerStep, PosterStep, HandleStep, WakeStep
<1> QED BY <1>1, <1>2, <1>3

\* In every execution, for any number of CPUs, slots and mailbox entries, with
\* CPUs that fault and items that post: the invariant of the engine.
THEOREM EngineInvariance == Spec => []EngineInv
  BY EngineInit, EngineStep, PTL DEF Spec

\* All words of smp.c stay in range; in particular a slot's active counter
\* never goes below zero.
THEOREM TypeCorrect == Spec => []TypeOK
<1>1. EngineInv => TypeOK
  BY DEF EngineInv
<1> QED BY EngineInvariance, <1>1, PTL

\* A slot is refilled only when no CPU is between its generation check and its
\* exit, so a torn job is never run, whatever the number of slots and however
\* generation numbers wrap.
THEOREM NoTornJobs == Spec => []NoTornJob
<1>1. EngineInv => NoTornJob
  BY DEF EngineInv, JoinInv, NoTornJob, Loc, Checked, Starting
<1> QED BY EngineInvariance, <1>1, PTL

\* A posted job is entered at most once, whichever CPUs saw it pending.
THEOREM PostsRunOnce == Spec => []PostRunsOnce
<1>1. EngineInv => PostRunsOnce
  BY DEF EngineInv, MailInv, PostRunsOnce
<1> QED BY EngineInvariance, <1>1, PTL

\* smp_async_done never admits to a job that is still pending or running, even
\* when its entry is recycled between the two reads and sequence numbers wrap.
THEOREM PollsAreSound == Spec => []DoneIsSound
<1>1. EngineInv => DoneIsSound
  BY DEF EngineInv, HandleInv, DoneIsSound
<1> QED BY EngineInvariance, <1>1, PTL

\* No wake-up is lost, for any number of APs and entries: an AP asleep without a
\* pending interrupt has no newer loop and no posted job that nobody is about to
\* announce.
THEOREM WakeupsArrive == Spec => []NoLostWakeup
<1>1. ASSUME EngineInv PROVE NoLostWakeup
  <2> SUFFICES ASSUME NEW c \in AP, At(c, "hlt"), ~ipi[c]
               PROVE  /\ smpGen # seen[c] => At(Boot, "ipi")
                      /\ \A i \in Entries : astate[i] = 1 =>
                           \E d \in CPU : At(d, "pipi") /\ pick[d] = i
    BY DEF NoLostWakeup
  <2>1. smpGen # seen[c] => At(Boot, "ipi")
    BY <1>1 DEF EngineInv, WakeInv, At
  <2>2. ASSUME NEW i \in Entries, astate[i] = 1
        PROVE  \E d \in CPU : At(d, "pipi") /\ pick[d] = i
    BY <1>1, <2>2 DEF EngineInv, WakeInv
  <2> QED BY <2>1, <2>2
<1> QED BY EngineInvariance, <1>1, PTL

-----------------------------------------------------------------------------
(* Operators of the loops                                                  *)

\* Products of naturals grow with their factors.
LEMMA TimesLess ==
    ASSUME NEW a \in Nat, NEW b \in Nat, NEW c \in Nat, b <= c
    PROVE  a * b <= a * c /\ a * b \in Nat /\ a * c \in Nat
  OBVIOUS

\* One factor more leaves room for one summand more.
LEMMA TimesOneLess ==
    ASSUME NEW a \in Nat, NEW b \in Nat, NEW c \in Nat, b + 1 <= c
    PROVE  a * b + a <= a * c /\ a * b \in Nat /\ a * c \in Nat
<1>1. a * (b + 1) = a * b + a
  OBVIOUS
<1>2. a * (b + 1) <= a * c
  BY TimesLess
<1> QED BY <1>1, <1>2, TimesLess

\* Items are counted from 0.
LEMMA ItemsNat == Items \subseteq Nat
  BY DEF Items

-----------------------------------------------------------------------------
(* What a step does to the loops                                           *)

\* A jump of one CPU outside smp_async_start leaves the others where they are.
LEMMA Moves ==
    ASSUME TypeOK, NEW c \in CPU, NEW x, Goto(c, x), ret' = ret,
           x \notin Starting \cup {"dead"}
    PROVE  /\ pc'[c] = x /\ Loc(c)' = x
           /\ \A d \in CPU : d # c => pc'[d] = pc[d] /\ Loc(d)' = Loc(d)
  BY DEF TypeOK, Goto, Loc

\* The boot CPU does not post or fault inside a loop, and an AP is in one only
\* through job_join.
LEMMA Places ==
    ASSUME TypeOK, ControlInv
    PROVE  /\ Loc(Boot) \in InCall <=> pc[Boot] \in InCall
           /\ pc[Boot] \in InCall => Loc(Boot) = pc[Boot]
           /\ \A c \in AP : Loc(c) \in InCall => Loc(c) \in {"join"} \cup Inside
           /\ \A c \in CPU : pc[c] \in InCall => Loc(c) = pc[c]
  BY ConstantFacts
  DEF ControlInv, TypeOK, Loc, BootPcs, ApPcs, InCall, Inside, Starting

\* A step that leaves the loops alone
LoopQuiet ==
    /\ UNCHANGED <<gen, next, done, job, smpGen, g, seen, mine, lo, hi, calls, ran>>
    /\ \A c \in CPU : Loc(c)' = Loc(c) \/ (Loc(c) \notin InCall /\ Loc(c)' \notin InCall)
    /\ pc'[Boot] = pc[Boot] \/ (pc[Boot] \notin InCall /\ pc'[Boot] \notin InCall)

\* Only the steps of smp_parallel_for and job_join, and an AP that sees a new
\* generation, touch the loops; the mailbox does not.
LEMMA LoopFrame ==
    ASSUME TypeOK, ControlInv, [Next]_vars
    PROVE  \/ LoopQuiet
           \/ \E l \in Loops : CallInline(l) \/ Call(l)
           \/ CallStep
           \/ \E c \in CPU : JoinStep(c)
           \/ \E c \in AP : ApLoad(c) /\ smpGen # seen[c]
<1> USE ConstantFacts
    DEF loopVars, slotVars, pubVars, joinVars, loopHist, startVars, At, Goto, LoopQuiet, Loc,
        TypeOK, StartType, Starting, InCall, Inside, ControlInv, BootPcs, ApPcs
<1>1. CASE UNCHANGED vars
  BY <1>1 DEF vars, asyncVars
<1>2. CASE PollState \/ \E j \in Posts : PollSeq(j)
  BY <1>2 DEF PollState, PollSeq
<1>3. ASSUME NEW c \in CPU, StartCall(c) PROVE LoopQuiet
  BY <1>3 DEF StartCall, MayPost, Refused, Announced
<1>4. ASSUME NEW c \in CPU, StartLock(c) \/ StartPick(c) \/ StartFill(c)
                              \/ StartPost(c) \/ StartIpi(c)
      PROVE  LoopQuiet
  BY <1>4 DEF StartLock, StartPick, StartFill, StartPost, StartIpi, asyncVars
<1>5. ASSUME NEW c \in CPU, StartReturn(c) PROVE LoopQuiet
  BY <1>5 DEF StartReturn
<1>6. ASSUME NEW c \in AP, ApLoad(c), smpGen = seen[c] PROVE LoopQuiet
  BY <1>6 DEF ApLoad
<1>7. ASSUME NEW c \in AP, ApReady(c) \/ ApWake(c) PROVE LoopQuiet
  BY <1>7 DEF ApReady, Halt, ApWake, asyncVars
<1>8. ASSUME NEW c \in AP, RunScan(c) \/ RunCas(c) PROVE LoopQuiet
  BY <1>8 DEF RunScan, RunCas, NextEntry
<1>9. ASSUME NEW c \in AP, RunFetch(c) \/ RunFinish(c) PROVE LoopQuiet
  BY <1>9 DEF RunFetch, RunFinish, NextEntry
<1>10. ASSUME NEW c \in AP, ApFault(c) PROVE LoopQuiet
  BY <1>10 DEF ApFault
<1> QED
  BY <1>1, <1>2, <1>3, <1>4, <1>5, <1>6, <1>7, <1>8, <1>9, <1>10
  DEF Next, Step, StartStep, WorkerStep


\* There is at least one CPU.
LEMMA CpuCount == IsFiniteSet(CPU) /\ Cardinality(CPU) \in Nat /\ Cardinality(CPU) > 0
<1>1. IsFiniteSet(CPU) /\ CPU # {}
  BY CpuFinite, ConstantFacts
<1> QED BY <1>1, FS_CardinalityType, FS_EmptySet

\* smp_parallel_for passes on a length and a grain that is not 0.
LEMMA LoopArguments ==
    ASSUME NEW l \in Loops
    PROVE  /\ l.n \in Nat \ {0} /\ LengthOf(l) \in Nat /\ GrainOf(l) \in Nat
           /\ GrainOf(l) > 0
<1>1. l.n \in Nat \ {0} /\ l.grain \in Nat /\ NMax \in Nat
  BY SmpAssumption
<1>2. LengthOf(l) \in Nat
  BY <1>1 DEF LengthOf
<1>3. Cardinality(CPU) * 8 \in Nat /\ Cardinality(CPU) * 8 > 0
  BY CpuCount
<1>4. LengthOf(l) \div (Cardinality(CPU) * 8) \in Nat
  BY <1>2, <1>3
<1> QED BY <1>1, <1>2, <1>4 DEF GrainOf

\* A call publishes a loop with room for every overshoot.
LEMMA ShapedArguments ==
    ASSUME NoWrap, NEW l \in Loops, NEW id \in Nat
    PROVE  Shaped(Loop(id, LengthOf(l), GrainOf(l)))
  BY LoopArguments DEF NoWrap, Shaped, Loop

\* Every step keeps a CPU's copy of a job equal to the one in its slot, because
\* a slot with a CPU past its check is not refilled.
LEMMA ShapeStep ==
    ASSUME EngineInv, NoWrap, ShapeInv, [Next]_vars
    PROVE  ShapeInv'
<1>0. TypeOK /\ ControlInv /\ JoinInv
  BY DEF EngineInv
<1> USE <1>0, ConstantFacts
<1>a. /\ \A c \in CPU : SlotOf(c) \in Slots
      /\ pc[Boot] \in InCall => Loc(Boot) = pc[Boot]
      /\ \A c \in CPU : pc[c] \in InCall => Loc(c) = pc[c]
  BY SlotOfType, Places
<1>1. CASE LoopQuiet
  BY <1>1 DEF LoopQuiet, ShapeInv, SlotOf, Shaped, Opened, InCall, Inside
<1>2. ASSUME NEW l \in Loops, CallInline(l) PROVE ShapeInv'
  BY <1>2 DEF CallInline, slotVars, joinVars, asyncVars, startVars, ShapeInv,
     SlotOf, Shaped, Loc, At, InCall, Inside, Opened
<1>3. ASSUME NEW l \in Loops, Call(l) PROVE ShapeInv'
  <2>1. /\ Goto(Boot, "lock") /\ ret' = ret /\ UNCHANGED <<gen, next, done, job, g>>
        /\ calls' = calls + 1
        /\ mine' = [mine EXCEPT ![Boot] = Loop(calls + 1, LengthOf(l), GrainOf(l))]
    BY <1>3 DEF Call, slotVars, asyncVars, startVars
  <2>2. calls + 1 \in Nat /\ mine \in [CPU -> LoopType]
    BY DEF TypeOK, HistType, JoinType
  <2>3. Shaped(mine[Boot])' /\ mine'[Boot].id = calls'
    BY <2>1, <2>2, ShapedArguments DEF Shaped, Loop
  <2>4. \A c \in CPU : c # Boot => mine'[c] = mine[c]
    BY <2>1, <2>2
  <2>5. pc'[Boot] = "lock" /\ Loc(Boot)' = "lock" /\ \A d \in CPU : d # Boot => Loc(d)' = Loc(d)
    BY <2>1, Moves DEF Starting
  <2> QED BY <2>1, <2>3, <2>4, <2>5 DEF ShapeInv, Opened, Inside, SlotOf, Shaped
<1>4. CASE CallStep /\ ~CallFill
  <2>1. UNCHANGED <<job, mine, calls>> /\ ret' = ret
    BY <1>4 DEF CallStep, CallLock, CallZero, CallDrain, CallOpen,
       CallAnnounce, CallIpi, CallWait, CallReturn, slotVars, joinVars, loopHist,
       loopVars, asyncVars, startVars
  <2>2. /\ pc[Boot] \in InCall /\ \A d \in CPU : d # Boot => Loc(d)' = Loc(d) /\ SlotOf(d)' = SlotOf(d)
        /\ Loc(Boot)' \notin {"claim", "run", "add"}
        /\ pc'[Boot] \in Opened \cup {"open"} => pc[Boot] \in Opened \cup {"open"} /\ g'[Boot] = g[Boot]
    <3>1. CASE CallLock
      BY <2>1, <3>1 DEF CallLock, Loc, TypeOK, JoinType, At, Goto, SlotOf, Opened, Inside, InCall, Starting
    <3>2. CASE ~CallLock
      <4>1. UNCHANGED g
        BY <1>4, <3>2 DEF CallStep, CallZero, CallDrain, CallOpen,
           CallAnnounce, CallIpi, CallWait, CallReturn, joinVars, loopVars
      <4> QED BY <1>4, <3>2, <2>1, <4>1 DEF CallStep, CallZero, CallDrain, CallOpen,
           CallAnnounce, CallIpi, CallWait, CallReturn, Loc, TypeOK, At, Goto, SlotOf,
           Opened, Inside, InCall, Starting
    <3> QED BY <3>1, <3>2
  <2> QED BY <2>1, <2>2 DEF ShapeInv, Shaped, SlotOf
<1>5. CASE CallFill
  <2>1. /\ At(Boot, "fill") /\ Goto(Boot, "open") /\ ret' = ret /\ UNCHANGED <<mine, calls, g>>
        /\ job' = [job EXCEPT ![SlotOf(Boot)] = mine[Boot]]
    BY <1>5 DEF CallFill, joinVars, loopHist, asyncVars, startVars
  <2>2. \A s \in Slots : job'[s] = IF s = SlotOf(Boot) THEN mine[Boot] ELSE job[s]
    BY <2>1 DEF TypeOK, SlotType
  <2>3. pc'[Boot] = "open" /\ Loc(Boot)' = "open" /\ \A d \in CPU : d # Boot => Loc(d)' = Loc(d)
    BY <2>1, Moves DEF Starting
  <2>4. \A c \in AP : Loc(c) \in {"claim", "run", "add"} => SlotOf(c) # SlotOf(Boot)
    BY <2>1 DEF JoinInv, At, Checked
  <2>5. \A c \in CPU : SlotOf(c)' = SlotOf(c)
    BY <2>1 DEF SlotOf
  <2>6. \A c \in CPU : c # Boot => c \in AP
    BY DEF CPU
  <2> QED BY <1>a, <2>1, <2>2, <2>3, <2>4, <2>5, <2>6 DEF ShapeInv, Shaped, At, InCall, Opened
<1>6. ASSUME NEW c \in CPU, JoinStep(c) PROVE ShapeInv'
  <2>1. /\ UNCHANGED <<job, g, calls, ret>> /\ pc[c] \in {"join"} \cup Inside
        /\ \A d \in CPU : d # c => Loc(d)' = Loc(d) /\ pc'[d] = pc[d] /\ mine'[d] = mine[d]
        /\ mine'[c] \in {mine[c]} \cup (IF At(c, "read") THEN {job[SlotOf(c)]} ELSE {})
             \cup (IF c # Boot /\ pc'[c] = "scan" THEN {NoLoop} ELSE {})
        /\ pc'[c] \in {"claim", "run", "add"} => (pc[c] \in {"claim", "run", "add"} /\ mine'[c] = mine[c])
             \/ mine'[c] = job[SlotOf(c)]
        /\ Loc(c)' = pc'[c] /\ pc'[c] \in Inside \cup {"wait", "scan"} /\ (c = Boot => pc'[c] # "scan")
    BY <1>6 DEF JoinStep, JoinEnter, JoinCheck, JoinRead, Claim, RunItems, AddDone, JoinLeave,
       slotVars, joinVars, loopHist, loopVars, asyncVars, startVars, Loc, TypeOK, JoinType,
       At, Goto, Inside, Starting
  <2>2. \A d \in CPU : SlotOf(d)' = SlotOf(d)
    BY <2>1 DEF SlotOf
  <2>3. c = Boot => mine'[Boot] = mine[Boot]
    BY <2>1 DEF ShapeInv, Opened, Inside, At
  <2>4. mine'[Boot] = mine[Boot] /\ (pc'[Boot] \in InCall <=> pc[Boot] \in InCall)
        /\ (pc'[Boot] \in Opened \cup {"open"} <=> pc[Boot] \in Opened \cup {"open"})
    <3>1. CASE c = Boot
      BY <2>1, <2>3, <3>1 DEF Opened, Inside, InCall
    <3> QED BY <2>1, <3>1
  <2>5. \A d \in CPU : Loc(d)' \in {"claim", "run", "add"} => mine'[d] = job[SlotOf(d)]
    BY <1>a, <2>1 DEF ShapeInv, Inside, InCall
  <2> QED BY <2>1, <2>2, <2>4, <2>5 DEF ShapeInv, Shaped
<1>7. ASSUME NEW c \in AP, ApLoad(c), smpGen # seen[c] PROVE ShapeInv'
  <2>1. /\ UNCHANGED <<job, mine, calls, ret>> /\ Goto(c, "join")
        /\ \A d \in CPU : d # c => g'[d] = g[d]
    BY <1>7 DEF ApLoad, slotVars, loopHist, startVars, TypeOK, JoinType
  <2>2. Loc(c)' = "join" /\ \A d \in CPU : d # c => Loc(d)' = Loc(d) /\ pc'[d] = pc[d]
    BY <2>1, Moves DEF Starting
  <2> QED BY <2>1, <2>2 DEF ShapeInv, Shaped, SlotOf
<1> QED BY <1>1, <1>2, <1>3, <1>4, <1>5, <1>6, <1>7, LoopFrame

\* What a step of job_join changes
LEMMA JoinFacts ==
    ASSUME TypeOK, NEW c \in CPU, JoinStep(c)
    PROVE  /\ UNCHANGED <<gen, job, g, seen, smpGen, calls, ret>>
           /\ \A d \in CPU : SlotOf(d)' = SlotOf(d)
           /\ \A d \in CPU : d # c => /\ Loc(d)' = Loc(d) /\ pc'[d] = pc[d] /\ lo'[d] = lo[d]
                                      /\ hi'[d] = hi[d] /\ mine'[d] = mine[d]
           /\ pc[c] \in {"join"} \cup Inside /\ Loc(c) = pc[c] /\ Loc(c)' = pc'[c]
           /\ pc'[c] \in Inside \cup {"wait", "scan"}
           /\ c = Boot => pc'[c] # "scan"
           /\ c # Boot => pc'[c] # "wait"
  BY DEF JoinStep, JoinEnter, JoinCheck, JoinRead, Claim, RunItems, AddDone, JoinLeave,
     slotVars, pubVars, joinVars, loopHist, loopVars, asyncVars, startVars, Loc, TypeOK, JoinType,
     At, Goto, Inside, Starting, SlotOf

\* What a step of smp_parallel_for changes
LEMMA CallFacts ==
    ASSUME TypeOK, CallStep
    PROVE  /\ UNCHANGED <<seen, mine, lo, hi, calls, ran, ret>>
           /\ pc[Boot] \in InCall \ Inside /\ Loc(Boot) = pc[Boot] /\ Loc(Boot)' = pc'[Boot]
           /\ pc'[Boot] \in {"idle", "join"} \cup (InCall \ Inside)
           /\ \A d \in CPU : d # Boot => Loc(d)' = Loc(d) /\ pc'[d] = pc[d] /\ SlotOf(d)' = SlotOf(d)
           /\ ~CallLock => UNCHANGED g
           /\ ~CallFill => UNCHANGED <<job, next, done>>
           /\ ~CallZero /\ ~CallOpen => UNCHANGED gen
           /\ ~CallAnnounce => UNCHANGED smpGen
<1> USE ConstantFacts
    DEF slotVars, pubVars, joinVars, loopHist, loopVars, asyncVars, startVars, Loc, TypeOK,
        JoinType, At, Goto, Inside, InCall, Starting, SlotOf
<1>1. CASE CallLock
  BY <1>1 DEF CallLock, CallFill, CallZero, CallOpen, CallAnnounce
<1>2. CASE CallZero \/ CallDrain \/ CallFill \/ CallOpen
  BY <1>2 DEF CallLock, CallZero, CallDrain, CallFill, CallOpen, CallAnnounce
<1>3. CASE CallAnnounce \/ CallIpi \/ CallWait \/ CallReturn
  BY <1>3 DEF CallLock, CallZero, CallFill, CallOpen, CallAnnounce, CallIpi, CallWait, CallReturn
<1> QED BY <1>1, <1>2, <1>3 DEF CallStep

\* What ap_worker changes when it sees a new generation
LEMMA LoadFacts ==
    ASSUME TypeOK, NEW c \in AP, ApLoad(c), smpGen # seen[c]
    PROVE  /\ UNCHANGED <<gen, next, done, job, smpGen, mine, lo, hi, calls, ran, ret>>
           /\ pc[c] = "load" /\ Loc(c) = "load" /\ pc'[c] = "join" /\ Loc(c)' = "join"
           /\ g'[c] = smpGen /\ seen'[c] = smpGen
           /\ \A d \in CPU : d # c => /\ Loc(d)' = Loc(d) /\ pc'[d] = pc[d] /\ g'[d] = g[d]
                                      /\ SlotOf(d)' = SlotOf(d)
           /\ \A d \in AP : d # c => seen'[d] = seen[d]
  BY ConstantFacts DEF ApLoad, slotVars, pubVars, loopHist, startVars, TypeOK, JoinType, Loc,
     At, Goto, Starting, SlotOf

\* Every step keeps generation g in slot g % NSLOT.
LEMMA GenStep ==
    ASSUME EngineInv, GenInv, [Next]_vars
    PROVE  GenInv'
<1>0. TypeOK /\ ControlInv
  BY DEF EngineInv
<1> USE <1>0, ConstantFacts
<1>1. CASE LoopQuiet
  BY <1>1 DEF LoopQuiet, GenInv, SlotOf, Opened, InCall, Inside
<1>2. ASSUME NEW l \in Loops, CallInline(l) \/ Call(l) PROVE GenInv'
  BY <1>2 DEF CallInline, Call, slotVars, joinVars, GenInv, TypeOK, SlotOf, At, Goto, Inside, Opened
<1>3. CASE CallStep
  <2>1. CASE CallZero \/ CallOpen
    <3>1. UNCHANGED g /\ SlotOf(Boot) \in Slots /\ gen \in [Slots -> 0 .. GenMod - 1]
      BY <2>1, SlotOfType DEF CallZero, CallOpen, joinVars, TypeOK, SlotType
    <3> QED BY <2>1, <3>1 DEF CallZero, CallOpen, GenInv, TypeOK, SlotOf, Goto, Opened, Inside
  <2>2. CASE ~CallZero /\ ~CallOpen
    <3>1. UNCHANGED gen
      BY <1>3, <2>2, CallFacts
    <3>2. pc'[Boot] \in Opened => pc[Boot] \in Opened /\ g' = g
      BY <1>3, <2>2 DEF CallStep, CallLock, CallDrain, CallFill, CallAnnounce, CallIpi, CallWait, CallReturn,
         TypeOK, At, Goto, Opened, Inside, joinVars, loopVars
    <3> QED BY <3>1, <3>2 DEF GenInv, SlotOf
  <2> QED BY <2>1, <2>2
<1>4. ASSUME NEW c \in CPU, JoinStep(c) PROVE GenInv'
  <2>1. pc'[Boot] \in Opened => pc[Boot] \in Opened
    BY <1>4, JoinFacts DEF Opened
  <2> QED BY <1>4, <2>1, JoinFacts DEF GenInv
<1>5. ASSUME NEW c \in AP, ApLoad(c), smpGen # seen[c] PROVE GenInv'
  BY <1>5, LoadFacts DEF GenInv
<1> QED BY <1>1, <1>2, <1>3, <1>4, <1>5, LoopFrame

\* Each CPU is joining a loop at most once and each AP still coming at most once.
LEMMA OvershootFacts ==
    ASSUME NEW s
    PROVE  /\ IsFiniteSet(Joining(s)) /\ Cardinality(Joining(s)) \in 0 .. Cardinality(CPU)
           /\ IsFiniteSet(Coming(s)) /\ Cardinality(Coming(s)) \in 0 .. Cardinality(CPU) - 1
           /\ Overshoots(s) \in 0 .. 2 * Cardinality(CPU) - 1
<1>1. Joining(s) \subseteq CPU
  BY DEF Joining
<1>2. IsFiniteSet(Joining(s)) /\ Cardinality(Joining(s)) <= Cardinality(CPU)
  BY <1>1, CpuCount, FS_Subset
<1>3. IsFiniteSet(AP) /\ Cardinality(CPU) = Cardinality(AP) + 1
  <2>1. IsFiniteSet(AP) /\ CPU = AP \cup {Boot} /\ Boot \notin AP
    BY SmpAssumption DEF CPU
  <2> QED BY <2>1, FS_AddElement
<1>4. Coming(s) \subseteq AP
  BY DEF Coming
<1>5. IsFiniteSet(Coming(s)) /\ Cardinality(Coming(s)) <= Cardinality(AP)
  BY <1>3, <1>4, FS_Subset
<1>6. /\ Cardinality(Joining(s)) \in Nat /\ Cardinality(Coming(s)) \in Nat
      /\ Cardinality(AP) \in Nat /\ Cardinality(CPU) \in Nat
  BY <1>2, <1>3, <1>5, CpuCount, FS_CardinalityType
<1> QED BY <1>2, <1>3, <1>5, <1>6 DEF Overshoots

\* The words of a slot are naturals below the word width.
LEMMA SlotTypes ==
    ASSUME TypeOK, NEW s \in Slots
    PROVE  /\ next[s] \in Nat /\ next[s] < W /\ done[s] \in Nat /\ done[s] < W
           /\ gen[s] \in Nat /\ job[s].n \in Nat /\ job[s].grain \in Nat /\ job[s].id \in Nat
  BY ConstantFacts DEF TypeOK, SlotType, LoopType

\* A claim does not wrap: either it is past the end of the loop, or the loop is
\* live and the chunk is the next items of it.
LEMMA ClaimFacts ==
    ASSUME EngineInv, ShapeInv, ChunkInv, CursorInv, NEW c \in CPU, Claim(c),
           NEW s \in Slots, s = SlotOf(c)
    PROVE  /\ pc[c] = "claim" /\ Loc(c) = "claim" /\ mine[c] = job[s]
           /\ next'[s] = next[s] + job[s].grain
           /\ \A t \in Slots : t # s => next'[t] = next[t]
           /\ UNCHANGED <<done, ran, mine>>
           /\ next[s] >= job[s].n => pc'[c] = "leave" /\ UNCHANGED <<lo, hi>>
           /\ next[s] < job[s].n =>
                /\ pc'[c] = "run" /\ Live(s)
                /\ lo'[c] = next[s] /\ lo'[c] < hi'[c] /\ hi'[c] \in Nat
                /\ hi'[c] = IF next'[s] > job[s].n THEN job[s].n ELSE next'[s]
<1>0. TypeOK /\ ControlInv /\ JoinInv
  BY DEF EngineInv
<1> USE <1>0, ConstantFacts
<1>1. pc[c] = "claim" /\ Loc(c) = "claim"
  BY DEF Claim, At, Loc, Starting
<1>2. mine[c] = job[s]
  BY <1>1 DEF ShapeInv
<1>3. next[s] \in Nat /\ job[s].n \in Nat /\ job[s].grain \in Nat
  BY SlotTypes
<1>4. Overshoots(s) \in Nat /\ Overshoots(s) >= 1
  <2>1. c \in Joining(s)
    BY <1>1 DEF Joining, Checked
  <2>2. Cardinality(Joining(s)) # 0
    BY <2>1, OvershootFacts, FS_EmptySet
  <2> QED BY <2>2, OvershootFacts, CpuCount DEF Overshoots
<1>5. next[s] + job[s].grain < W
  <2>1. job[s].grain * 1 <= job[s].grain * Overshoots(s) /\ job[s].grain * Overshoots(s) \in Nat
    BY <1>3, <1>4, TimesLess
  <2> QED BY <1>3, <2>1 DEF CursorInv
<1>6. (next[s] + job[s].grain) % W = next[s] + job[s].grain
  BY <1>3, <1>5
<1>7. next' = [next EXCEPT ![s] = next[s] + job[s].grain] /\ UNCHANGED <<done, ran, mine>>
  BY <1>2, <1>6 DEF Claim, loopHist
<1>8. next'[s] = next[s] + job[s].grain /\ \A t \in Slots : t # s => next'[t] = next[t]
  BY <1>7 DEF TypeOK, SlotType
<1>9. ASSUME next[s] >= job[s].n PROVE pc'[c] = "leave" /\ UNCHANGED <<lo, hi>>
  BY <1>2, <1>9 DEF Claim, Goto, TypeOK
<1>10. ASSUME next[s] < job[s].n
       PROVE  /\ pc'[c] = "run" /\ lo'[c] = next[s]
              /\ hi'[c] = IF next'[s] > job[s].n THEN job[s].n ELSE next'[s]
  <2>1. ~(next[s] >= mine[c].n)
    BY <1>2, <1>3, <1>10
  <2>2. ~(next[s] + job[s].grain < next[s])
    BY <1>3
  <2> QED BY <1>2, <1>6, <1>8, <2>1, <2>2 DEF Claim, Goto, TypeOK, JoinType
<1>11. ASSUME next[s] < job[s].n PROVE Live(s)
  <2>1. ~(At(Boot, "open") /\ s = SlotOf(Boot))
    BY <1>1 DEF At, JoinInv, Checked, CPU
  <2> QED BY <1>3, <1>11, <2>1 DEF ChunkInv
<1>12. ASSUME next[s] < job[s].n PROVE job[s].grain > 0
  BY <1>3, <1>12 DEF ShapeInv, Shaped
<1> QED BY <1>1, <1>2, <1>3, <1>7, <1>8, <1>9, <1>10, <1>11, <1>12

\* The size of a chunk.
LEMMA RangeCount ==
    ASSUME NEW a \in Nat, NEW b \in Nat, a <= b
    PROVE  IsFiniteSet(a .. b - 1) /\ Cardinality(a .. b - 1) = b - a
<1>1. a \in Int /\ b - 1 \in Int
  OBVIOUS
<1>2. IsFiniteSet(a .. b - 1)
      /\ Cardinality(a .. b - 1) = IF a > b - 1 THEN 0 ELSE (b - 1) - a + 1
  BY <1>1, FS_Interval
<1> QED BY <1>2

\* When done has reached n, every item was handed out and is done.
LEMMA AllFinished ==
    ASSUME EngineInv, ShapeInv, ChunkInv, DoneInv, At(Boot, "wait"), AllDone(SlotOf(Boot), mine[Boot].n)
    PROVE  /\ Finished = 0 .. mine[Boot].n - 1
           /\ \A c \in CPU : ~Working(c)
           /\ next[SlotOf(Boot)] >= mine[Boot].n
<1>0. TypeOK /\ ControlInv
  BY DEF EngineInv
<1> USE <1>0, ConstantFacts
<1> DEFINE s == SlotOf(Boot)  n == mine[Boot].n
<1>1. s \in Slots /\ n \in Nat /\ next[s] \in Nat /\ Loc(Boot) = "wait"
  BY SlotOfType, SlotTypes DEF TypeOK, JoinType, LoopType, Loc, At, Starting
<1>2. job[s] = mine[Boot] /\ Live(s) /\ done[s] = Cardinality(Finished) /\ done[s] = n
  BY DEF ShapeInv, DoneInv, At, Opened, Live, AllDone
<1>3. IsFiniteSet(0 .. n - 1) /\ Cardinality(0 .. n - 1) = n
  <2> HIDE DEF n
  <2>1. n \in Nat /\ 0 <= n /\ n - 0 = n
    BY <1>1
  <2> QED BY <2>1, RangeCount
<1>4. Finished \subseteq 0 .. n - 1
  BY DEF Finished, Handed
<1>5. Finished = 0 .. n - 1
  BY <1>2, <1>3, <1>4, FS_Subset
<1>6. ASSUME NEW c \in CPU, Working(c) PROVE FALSE
  <2>1. SlotOf(c) = s /\ lo[c] \in Nat /\ hi[c] \in Nat /\ lo[c] < hi[c] /\ hi[c] <= n
    BY <1>2, <1>6 DEF ChunkInv, Live, TypeOK, JoinType
  <2>2. lo[c] \in 0 .. n - 1 /\ Chunk(c, lo[c])
    BY <1>1, <2>1 DEF Chunk
  <2> QED BY <1>5, <1>6, <2>2 DEF Finished
<1>7. next[s] >= n
  <2>1. CASE n = 0
    BY <1>1, <2>1
  <2>2. CASE n > 0
    <3>1. n - 1 \in Finished
      BY <1>1, <1>5, <2>2
    <3> QED BY <1>1, <3>1 DEF Finished, Handed
  <2> QED BY <1>1, <2>1, <2>2
<1> QED BY <1>5, <1>6, <1>7

\* A step of job_join other than a claim hands out nothing.
LEMMA OtherJoins ==
    ASSUME TypeOK, NEW c \in CPU, JoinStep(c), ~Claim(c)
    PROVE  /\ UNCHANGED next
           /\ Working(c)' => /\ Loc(c) = "run" /\ Loc(c)' = "add" /\ lo'[c] = lo[c] /\ hi'[c] = hi[c]
           /\ ~AddDone(c) => UNCHANGED <<done, lo, hi>>
           /\ ~RunItems(c) => UNCHANGED ran
           /\ Working(c) => RunItems(c) \/ AddDone(c)
  BY DEF JoinStep, JoinEnter, JoinCheck, JoinRead, RunItems, AddDone, JoinLeave,
     slotVars, joinVars, loopHist, loopVars, asyncVars, startVars, Loc, Working, TypeOK,
     At, Goto, Starting

\* Every step keeps the chunks in hand apart and inside the live loop.
LEMMA ChunkStep ==
    ASSUME EngineInv, ShapeInv, ChunkInv, DoneInv, CursorInv, [Next]_vars
    PROVE  ChunkInv'
<1>0. TypeOK /\ ControlInv /\ JoinInv
  BY DEF EngineInv
<1> USE <1>0, ConstantFacts
<1>a. \A c \in CPU : SlotOf(c) \in Slots
  BY SlotOfType
<1>1. CASE LoopQuiet
  <2>1. \A c \in CPU : SlotOf(c)' = SlotOf(c) /\ (Working(c)' <=> Working(c))
    BY <1>1 DEF LoopQuiet, SlotOf, Working, InCall, Inside
  <2>2. /\ \A s : Live(s)' <=> Live(s)
        /\ At(Boot, "open")' <=> At(Boot, "open")
    BY <1>1, <2>1 DEF LoopQuiet, Live, At, Opened, InCall, Inside
  <2> QED BY <1>1, <2>1, <2>2 DEF LoopQuiet, ChunkInv
<1>2. ASSUME NEW l \in Loops, CallInline(l) \/ Call(l) PROVE ChunkInv'
  <2>1. /\ UNCHANGED <<next, done, job, lo, hi, g, ret>> /\ pc[Boot] = "idle" /\ pc'[Boot] \in {"idle", "lock"}
        /\ \A c \in CPU : c # Boot => pc'[c] = pc[c]
    BY <1>2 DEF CallInline, Call, slotVars, joinVars, asyncVars, startVars, TypeOK, At, Goto
  <2>2. \A c \in CPU : ~Working(c) /\ ~Working(c)'
    BY <2>1 DEF ChunkInv, Live, Opened, Inside, Working, Loc, Starting
  <2>3. \A s : ~Live(s) /\ ~Live(s)'
    BY <2>1 DEF Live, Opened, Inside
  <2> QED BY <2>1, <2>2, <2>3 DEF ChunkInv, At
<1>3. CASE CallStep
  <2>0. /\ UNCHANGED <<lo, hi>> /\ pc[Boot] \in InCall \ Inside
        /\ \A d \in CPU : d # Boot => Loc(d)' = Loc(d) /\ SlotOf(d)' = SlotOf(d)
        /\ \A d \in CPU : Working(d) => Live(SlotOf(d))
        /\ Loc(Boot) = pc[Boot] /\ Loc(Boot)' = pc'[Boot] /\ pc'[Boot] \notin {"run", "add"}
    BY <1>3, CallFacts DEF ChunkInv, InCall, Inside
  <2>w. \A d \in CPU : Working(d)' <=> Working(d)
    BY <2>0 DEF Working, InCall, Inside
  <2>1. CASE CallLock
    <3>1. UNCHANGED <<next, done, job>> /\ pc[Boot] = "lock" /\ pc'[Boot] = "zero"
      BY <2>1 DEF CallLock, slotVars, At, Goto, TypeOK
    <3>2. \A s : ~Live(s) /\ ~Live(s)'
      BY <3>1 DEF Live, Opened, Inside
    <3> QED BY <2>0, <2>w, <3>1, <3>2 DEF ChunkInv, At
  <2>2. CASE CallFill
    <3>1. /\ pc[Boot] = "fill" /\ pc'[Boot] = "open" /\ g' = g
          /\ \A s \in Slots : s # SlotOf(Boot) => next'[s] = next[s] /\ job'[s] = job[s]
          /\ next'[SlotOf(Boot)] = 0 /\ done'[SlotOf(Boot)] = 0
      BY <1>a, <2>2 DEF CallFill, joinVars, At, Goto, TypeOK, SlotType
    <3>2. (\A s : ~Live(s) /\ ~Live(s)') /\ SlotOf(Boot)' = SlotOf(Boot)
      BY <3>1 DEF Live, Opened, Inside, SlotOf
    <3> QED BY <2>0, <2>w, <3>1, <3>2 DEF ChunkInv, At
  <2>3. CASE CallOpen
    <3>1. /\ pc[Boot] = "open" /\ pc'[Boot] = "announce" /\ UNCHANGED <<next, done, job, g>>
      BY <2>3 DEF CallOpen, joinVars, At, Goto, TypeOK
    <3>2. \A s : ~Live(s) /\ (Live(s)' <=> s = SlotOf(Boot))
      BY <3>1 DEF Live, Opened, Inside, SlotOf
    <3> QED BY <2>0, <2>w, <3>1, <3>2 DEF ChunkInv, At
  <2>4. CASE CallWait
    <3>1. /\ pc[Boot] = "wait" /\ pc'[Boot] = "unlock" /\ UNCHANGED <<next, done, job, g>>
      BY <2>4 DEF CallWait, slotVars, joinVars, At, Goto, TypeOK
    <3>2. /\ \A c \in CPU : ~Working(c)
          /\ next[SlotOf(Boot)] >= job[SlotOf(Boot)].n
      BY <2>4, <3>1, AllFinished DEF CallWait, ShapeInv, Opened
    <3>3. \A s : ~Live(s)' /\ (Live(s) <=> s = SlotOf(Boot))
      BY <3>1 DEF Live, Opened, Inside
    <3> QED BY <2>w, <3>1, <3>2, <3>3 DEF ChunkInv, At
  <2>5. CASE CallZero \/ CallDrain \/ CallAnnounce \/ CallIpi \/ CallReturn
    <3>1. UNCHANGED <<next, done, job, g>>
      BY <2>5 DEF CallZero, CallDrain, CallAnnounce, CallIpi, CallReturn, slotVars, joinVars, loopVars
    <3>2. /\ pc[Boot] # "open" /\ pc'[Boot] # "open" /\ (pc'[Boot] \in Opened <=> pc[Boot] \in Opened)
      BY <2>5 DEF CallZero, CallDrain, CallAnnounce, CallIpi, CallReturn, At, Goto, TypeOK, Opened, Inside
    <3>3. (\A s : Live(s)' <=> Live(s)) /\ \A d \in CPU : SlotOf(d)' = SlotOf(d)
      BY <3>1, <3>2 DEF Live, SlotOf
    <3> QED BY <2>0, <2>w, <3>1, <3>2, <3>3 DEF ChunkInv, At
  <2> QED BY <1>3, <2>1, <2>2, <2>3, <2>4, <2>5 DEF CallStep
<1>4. ASSUME NEW c \in CPU, JoinStep(c) PROVE ChunkInv'
  <2>0. /\ UNCHANGED <<job>> /\ \A d \in CPU : SlotOf(d)' = SlotOf(d)
        /\ \A d \in CPU : d # c => Loc(d)' = Loc(d) /\ pc'[d] = pc[d] /\ lo'[d] = lo[d] /\ hi'[d] = hi[d]
    BY <1>4, JoinFacts
  <2>1. /\ pc[Boot] # "open" \/ pc'[Boot] = "open"
        /\ pc'[Boot] # "open" \/ pc[Boot] = "open"
        /\ pc'[Boot] \in Opened <=> pc[Boot] \in Opened
    BY <1>4, JoinFacts DEF Opened, Inside
  <2>2. (\A s : Live(s)' <=> Live(s)) /\ (At(Boot, "open")' <=> At(Boot, "open"))
    BY <2>0, <2>1 DEF Live, At
  <2>3. CASE Claim(c)
    <3> DEFINE s == SlotOf(c)
    <3>1. s \in Slots /\ \A d \in CPU : lo[d] \in Nat /\ hi[d] \in Nat
      BY <1>a DEF TypeOK, JoinType
    <3>2. \A t \in Slots : next[t] \in Nat /\ job[t].n \in Nat /\ job[t].grain \in Nat
      BY SlotTypes
    <3>3. \A t \in Slots : next'[t] >= next[t] /\ next'[t] \in Nat
      BY <2>3, <3>1, <3>2, ClaimFacts
    <3>4. \A d \in CPU : d # c => (Working(d)' <=> Working(d))
      BY <2>0 DEF Working
    <3>5. Loc(c)' = pc'[c]
      BY <1>4, JoinFacts
    <3>6. At(Boot, "open") => c # Boot /\ SlotOf(Boot) # s
      BY <2>3, ClaimFacts, <3>1 DEF At, JoinInv, Checked, CPU
    <3>7. CASE next[s] >= job[s].n
      <4>1. ~Working(c)' /\ ~Working(c) /\ UNCHANGED <<lo, hi, done>>
        BY <2>3, <3>1, <3>5, <3>7, ClaimFacts DEF Working
      <4>2. At(Boot, "open") => next'[SlotOf(Boot)] = next[SlotOf(Boot)]
        BY <1>a, <2>3, <3>1, <3>6, ClaimFacts
      <4> QED BY <1>a, <2>0, <2>2, <3>1, <3>2, <3>3, <3>4, <4>1, <4>2, <3>7 DEF ChunkInv
    <3>8. CASE next[s] < job[s].n
      <4>1. /\ Live(s) /\ lo'[c] = next[s] /\ lo'[c] < hi'[c] /\ hi'[c] \in Nat
            /\ hi'[c] <= job[s].n /\ hi'[c] <= next'[s] /\ UNCHANGED done
        BY <2>3, <3>1, <3>2, <3>3, <3>8, ClaimFacts
      <4>2. ~At(Boot, "open")
        BY <4>1 DEF Live, At, Opened, Inside
      <4>3. \A d \in CPU : d # c /\ Working(d) => SlotOf(d) = s /\ hi[d] <= next[s]
        BY <4>1 DEF ChunkInv, Live
      <4>4. \A d \in CPU : d # c /\ Working(d)' => hi'[d] <= lo'[c]
        BY <2>0, <3>4, <4>1, <4>3
      <4>5. \A d \in CPU : Working(d)' =>
              /\ Live(SlotOf(d))' /\ lo'[d] < hi'[d]
              /\ hi'[d] <= job'[SlotOf(d)'].n /\ hi'[d] <= next'[SlotOf(d)']
        <5>1. ASSUME NEW d \in CPU, d # c, Working(d)'
              PROVE  /\ Live(SlotOf(d))' /\ lo'[d] < hi'[d]
                     /\ hi'[d] <= job'[SlotOf(d)'].n /\ hi'[d] <= next'[SlotOf(d)']
          BY <1>a, <2>0, <2>2, <3>1, <3>2, <3>3, <3>4, <5>1, <4>3 DEF ChunkInv
        <5>2. Live(SlotOf(c))' /\ SlotOf(c)' = s /\ job' = job
          BY <2>0, <2>2, <4>1 DEF Live
        <5> QED BY <4>1, <5>1, <5>2
      <4>6. \A t \in Slots : ~Live(t)' => next'[t] >= job'[t].n
        BY <2>0, <2>2, <3>2, <3>3, <4>2 DEF ChunkInv
      <4>7. \A d, e \in CPU : d # e /\ Working(d)' /\ Working(e)' => hi'[d] <= lo'[e] \/ hi'[e] <= lo'[d]
        <5>1. ASSUME NEW d \in CPU, NEW e \in CPU, d # e, Working(d)', Working(e)', d # c, e # c
              PROVE  hi'[d] <= lo'[e] \/ hi'[e] <= lo'[d]
          BY <2>0, <3>4, <5>1 DEF ChunkInv
        <5> QED BY <4>4, <5>1
      <4> QED BY <2>2, <4>2, <4>5, <4>6, <4>7 DEF ChunkInv
    <3> QED BY <3>1, <3>2, <3>7, <3>8
  <2>4. CASE ~Claim(c)
    <3>1. UNCHANGED next /\ (Working(c)' => Working(c) /\ lo'[c] = lo[c] /\ hi'[c] = hi[c])
      BY <1>4, <2>4, OtherJoins DEF Working
    <3>2. \A d \in CPU : Working(d)' => Working(d) /\ lo'[d] = lo[d] /\ hi'[d] = hi[d]
      BY <2>0, <3>1 DEF Working
    <3>3. At(Boot, "open") => UNCHANGED done
      <4>1. AddDone(c) => Working(c)
        BY DEF AddDone, At, Working, Loc, Starting
      <4>2. At(Boot, "open") => ~Working(c)
        BY DEF ChunkInv, At, Live, Opened, Inside
      <4> QED BY <1>4, <2>4, <4>1, <4>2, OtherJoins
    <3> QED BY <2>0, <2>2, <3>1, <3>2, <3>3 DEF ChunkInv
  <2> QED BY <2>3, <2>4
<1>5. ASSUME NEW c \in AP, ApLoad(c), smpGen # seen[c] PROVE ChunkInv'
  <2>1. /\ UNCHANGED <<next, done, job, lo, hi>> /\ ~Working(c)'
        /\ \A d \in CPU : d # c => SlotOf(d)' = SlotOf(d) /\ (Working(d)' <=> Working(d))
        /\ pc'[Boot] = pc[Boot] /\ SlotOf(Boot)' = SlotOf(Boot)
    BY <1>5, LoadFacts DEF Working
  <2>2. (\A s : Live(s)' <=> Live(s)) /\ (At(Boot, "open")' <=> At(Boot, "open"))
    BY <2>1 DEF Live, At
  <2> QED BY <2>1, <2>2 DEF ChunkInv
<1> QED BY <1>1, <1>2, <1>3, <1>4, <1>5, LoopFrame

\* The loop that is open, seen from a step of job_join: the boot CPU's place
\* changes only within it.
LEMMA JoinStays ==
    ASSUME EngineInv, ShapeInv, NEW c \in CPU, JoinStep(c)
    PROVE  /\ pc'[Boot] \in Opened <=> pc[Boot] \in Opened
           /\ pc'[Boot] \in Filling <=> pc[Boot] \in Filling
           /\ pc'[Boot] = "unlock" <=> pc[Boot] = "unlock"
           /\ mine'[Boot] = mine[Boot] /\ SlotOf(Boot)' = SlotOf(Boot)
<1>0. TypeOK
  BY DEF EngineInv
<1> USE <1>0, ConstantFacts
<1>1. CASE c # Boot
  BY <1>1, JoinFacts
<1>2. CASE c = Boot
  <2>1. pc[Boot] \in {"join"} \cup Inside /\ pc'[Boot] \in Inside \cup {"wait"}
    BY <1>2, JoinFacts
  <2>2. mine'[Boot] = mine[Boot]
    <3>1. CASE JoinRead(c)
      BY <1>2, <3>1 DEF JoinRead, At, ShapeInv, Opened, Inside, TypeOK, JoinType
    <3>2. CASE ~JoinRead(c)
      BY <1>2, <3>2 DEF JoinStep, JoinEnter, JoinCheck, Claim, RunItems, AddDone, JoinLeave, joinVars, loopVars
    <3> QED BY <3>1, <3>2
  <2> QED BY <1>2, <2>1, <2>2, JoinFacts DEF Opened, Filling, Inside
<1> QED BY <1>1, <1>2

Unheld(k) == \A c \in CPU : Loc(c) = "run" => ~Chunk(c, k)

\* Every step keeps the count of each item at 1 from the moment its chunk has run,
\* and at 0 before; the loop returns when all are at 1.
LEMMA RanStep ==
    ASSUME EngineInv, ShapeInv, ChunkInv, DoneInv, CursorInv, RanInv, [Next]_vars
    PROVE  RanInv'
<1>0. TypeOK /\ ControlInv /\ JoinInv
  BY DEF EngineInv
<1> USE <1>0, ConstantFacts
<1>a. SlotOf(Boot) \in Slots /\ next[SlotOf(Boot)] \in Nat /\ mine[Boot].n \in Nat /\ Items \subseteq Nat
  BY SlotOfType, SlotTypes, ItemsNat DEF TypeOK, JoinType, LoopType
<1>b. /\ pc[Boot] \in Filling => \A k \in Items : ran[k] = 0
      /\ pc[Boot] \in Opened => \A k \in Items : ran[k] = IF k \in Handed /\ Unheld(k) THEN 1 ELSE 0
      /\ \A k \in Items : ran[k] <= 1
      /\ pc[Boot] = "unlock" => \A k \in Items : k < mine[Boot].n => ran[k] = 1
  BY DEF RanInv, Unheld, ItemsRunOnce, At
<1>c. SUFFICES /\ pc'[Boot] \in Filling => \A k \in Items : ran'[k] = 0
               /\ pc'[Boot] \in Opened => \A k \in Items : ran'[k] = IF k \in Handed' /\ Unheld(k)' THEN 1 ELSE 0
               /\ \A k \in Items : ran'[k] <= 1
               /\ pc'[Boot] = "unlock" => \A k \in Items : k < mine'[Boot].n => ran'[k] = 1
  BY DEF RanInv, Unheld, ItemsRunOnce, At
<1>1. CASE LoopQuiet
  <2>1. \A k : Unheld(k)' <=> Unheld(k)
    BY <1>1 DEF LoopQuiet, Unheld, Chunk, InCall, Inside
  <2>2. Handed' = Handed
    BY <1>1 DEF LoopQuiet, Handed, SlotOf
  <2> QED BY <1>1, <1>b, <2>1, <2>2 DEF LoopQuiet, Filling, Opened, InCall, Inside
<1>2. ASSUME NEW l \in Loops, CallInline(l) PROVE <1>c!1
  BY <1>2 DEF CallInline, At, Filling, Opened, Inside
<1>3. ASSUME NEW l \in Loops, Call(l) PROVE <1>c!1
  BY <1>3 DEF Call, At, Goto, TypeOK, Filling, Opened, Inside
<1>4. CASE CallStep
  <2>0. UNCHANGED <<ran, mine>>
    BY <1>4, CallFacts
  <2>1. CASE CallLock \/ CallZero \/ CallDrain \/ CallFill
    <3>1. pc[Boot] \in Filling /\ pc'[Boot] \in Filling
      BY <2>1 DEF CallLock, CallZero, CallDrain, CallFill, At, Goto, TypeOK, Filling
    <3> QED BY <1>b, <2>0, <3>1 DEF Filling, Opened, Inside
  <2>2. CASE CallOpen
    <3>1. /\ pc[Boot] = "open" /\ pc'[Boot] = "announce" /\ UNCHANGED <<next, g>>
      BY <2>2 DEF CallOpen, joinVars, At, Goto, TypeOK
    <3>2. Handed' = {}
      BY <1>a, <2>0, <3>1 DEF Handed, ChunkInv, SlotOf, At
    <3> QED BY <1>b, <2>0, <3>1, <3>2 DEF Filling, Opened, Inside
  <2>3. CASE CallAnnounce \/ CallIpi
    <3>1. pc[Boot] \in Opened /\ pc'[Boot] \in Opened /\ UNCHANGED <<next, g, lo, hi>>
      BY <2>3 DEF CallAnnounce, CallIpi, slotVars, joinVars, loopVars, At, Goto, TypeOK, Opened
    <3>2. \A d \in CPU : (Loc(d)' = "run") <=> (Loc(d) = "run")
      BY <2>3, <1>4, CallFacts DEF InCall, Inside
    <3>3. Handed' = Handed /\ \A k : Unheld(k)' <=> Unheld(k)
      BY <2>0, <3>1, <3>2 DEF Handed, SlotOf, Unheld, Chunk
    <3> QED BY <1>b, <2>0, <3>1, <3>3 DEF Filling, Opened, Inside
  <2>4. CASE CallWait
    <3>1. pc[Boot] = "wait" /\ pc'[Boot] = "unlock"
      BY <2>4 DEF CallWait, At, Goto, TypeOK
    <3>2. Finished = 0 .. mine[Boot].n - 1 /\ \A d \in CPU : ~Working(d)
      BY <2>4, AllFinished DEF CallWait
    <3>3. ASSUME NEW k \in Items, k < mine[Boot].n PROVE ran[k] = 1
      <4>1. k \in Handed
        BY <1>a, <3>2, <3>3 DEF Finished
      <4>2. Unheld(k)
        BY <3>2 DEF Unheld, Working
      <4> QED BY <1>b, <3>1, <4>1, <4>2 DEF Opened
    <3> QED BY <1>b, <2>0, <3>1, <3>3 DEF Filling, Opened, Inside
  <2>5. CASE CallReturn
    <3>1. pc'[Boot] = "idle"
      BY <2>5 DEF CallReturn, Goto, TypeOK
    <3> QED BY <1>b, <2>0, <3>1 DEF Filling, Opened, Inside
  <2> QED BY <1>4, <2>1, <2>2, <2>3, <2>4, <2>5 DEF CallStep
<1>5. ASSUME NEW c \in CPU, JoinStep(c) PROVE <1>c!1
  <2>0. /\ pc'[Boot] \in Opened <=> pc[Boot] \in Opened
        /\ pc'[Boot] \in Filling <=> pc[Boot] \in Filling
        /\ pc'[Boot] = "unlock" <=> pc[Boot] = "unlock"
        /\ mine'[Boot] = mine[Boot] /\ SlotOf(Boot)' = SlotOf(Boot)
    BY <1>5, JoinStays
  <2>1. /\ Loc(c)' = pc'[c]
        /\ \A d \in CPU : d # c => Loc(d)' = Loc(d) /\ lo'[d] = lo[d] /\ hi'[d] = hi[d]
    BY <1>5, JoinFacts
  <2>2. CASE Claim(c)
    <3> DEFINE s == SlotOf(c)
    <3>1. s \in Slots /\ next[s] \in Nat /\ job[s].n \in Nat /\ job[s].grain \in Nat
      BY SlotOfType, SlotTypes
    <3>2. ran' = ran /\ Loc(c) = "claim"
      BY <2>2, <3>1, ClaimFacts
    <3>3. CASE next[s] >= job[s].n
      <4>1. pc'[c] = "leave" /\ UNCHANGED <<lo, hi>>
        BY <2>2, <3>1, <3>3, ClaimFacts
      <4>2. \A k : Unheld(k)' <=> Unheld(k)
        BY <2>1, <3>2, <4>1 DEF Unheld, Chunk
      <4>3. pc[Boot] \in Opened => Handed' = Handed
        <5>1. CASE s = SlotOf(Boot)
          <6>1. pc[Boot] \in Opened => mine[Boot] = job[s]
            BY <5>1 DEF ShapeInv
          <6>2. next'[s] = next[s] + job[s].grain
            BY <2>2, <3>1, ClaimFacts
          <6> QED BY <2>0, <3>1, <3>3, <5>1, <6>1, <6>2 DEF Handed
        <5>2. CASE s # SlotOf(Boot)
          BY <1>a, <2>0, <2>2, <3>1, <5>2, ClaimFacts DEF Handed
        <5> QED BY <5>1, <5>2
      <4> QED BY <1>b, <2>0, <3>2, <4>2, <4>3
    <3>4. CASE next[s] < job[s].n
      <4>1. /\ Live(s) /\ pc'[c] = "run" /\ lo'[c] = next[s] /\ hi'[c] \in Nat
            /\ next'[s] = next[s] + job[s].grain
            /\ hi'[c] = IF next'[s] > job[s].n THEN job[s].n ELSE next'[s]
        BY <2>2, <3>1, <3>4, ClaimFacts
      <4>2. s = SlotOf(Boot) /\ pc[Boot] \in Opened /\ mine[Boot] = job[s]
        BY <4>1 DEF Live, ShapeInv
      <4>3. \A k : Unheld(k)' <=> Unheld(k) /\ ~Chunk(c, k)'
        BY <2>1, <3>2, <4>1 DEF Unheld, Chunk
      <4>4. \A k \in Items : (k \in Handed' /\ ~Chunk(c, k)') <=> k \in Handed
        BY <1>a, <2>0, <3>1, <3>4, <4>1, <4>2 DEF Handed, Chunk
      <4> QED BY <1>b, <2>0, <3>2, <4>2, <4>3, <4>4 DEF Filling, Opened, Inside
    <3> QED BY <3>1, <3>3, <3>4
  <2>3. CASE ~Claim(c)
    <3>1. UNCHANGED next /\ Handed' = Handed
      BY <1>5, <2>0, <2>3, OtherJoins DEF Handed
    <3>2. CASE RunItems(c)
      <4>1. /\ Loc(c) = "run" /\ pc'[c] = "add" /\ UNCHANGED <<lo, hi>>
            /\ \A k \in Items : ran'[k] = IF Chunk(c, k) THEN ran[k] + 1 ELSE ran[k]
        BY <3>2 DEF RunItems, joinVars, At, Goto, Loc, Starting, TypeOK, Chunk
      <4>2. /\ Live(SlotOf(c)) /\ hi[c] <= job[SlotOf(c)].n /\ hi[c] <= next[SlotOf(c)] /\ lo[c] \in Nat /\ hi[c] \in Nat
        BY <4>1 DEF ChunkInv, Working, TypeOK, JoinType
      <4>3. SlotOf(c) = SlotOf(Boot) /\ pc[Boot] \in Opened /\ mine[Boot] = job[SlotOf(c)]
        BY <4>2 DEF Live, ShapeInv
      <4>4. \A k \in Items : Chunk(c, k) => k \in Handed /\ ~Unheld(k)
        <5>1. ASSUME NEW k \in Items, Chunk(c, k) PROVE k \in Handed
          <6>1. k \in Nat /\ k < hi[c] /\ hi[c] <= mine[Boot].n /\ hi[c] <= next[SlotOf(Boot)]
            BY <1>a, <4>2, <4>3, <5>1 DEF Chunk
          <6> QED BY <1>a, <4>2, <6>1 DEF Handed
        <5>2. ASSUME NEW k \in Items, Chunk(c, k) PROVE ~Unheld(k)
          BY <4>1, <5>2 DEF Unheld
        <5> QED BY <5>1, <5>2
      <4>5. \A k \in Items : Chunk(c, k) => Unheld(k)'
        <5>1. ASSUME NEW k \in Items, Chunk(c, k), NEW d \in CPU, Loc(d)' = "run" PROVE ~Chunk(d, k)'
          <6>1. d # c /\ Loc(d) = "run" /\ (hi[c] <= lo[d] \/ hi[d] <= lo[c])
            BY <2>1, <4>1, <5>1 DEF ChunkInv, Working
          <6>2. lo[d] \in Nat /\ hi[d] \in Nat /\ k \in Nat
            BY <1>a DEF TypeOK, JoinType
          <6> QED BY <4>1, <4>2, <5>1, <6>1, <6>2 DEF Chunk
        <5> QED BY <5>1 DEF Unheld
      <4>6. \A k \in Items : ~Chunk(c, k) => (Unheld(k)' <=> Unheld(k))
        BY <2>1, <4>1 DEF Unheld, Chunk
      <4> QED BY <1>b, <2>0, <3>1, <4>1, <4>3, <4>4, <4>5, <4>6 DEF Filling, Opened, Inside
    <3>3. CASE ~RunItems(c)
      <4>1. ran' = ran /\ Loc(c) # "run" /\ Loc(c)' # "run"
        BY <1>5, <2>3, <3>3 DEF JoinStep, JoinEnter, JoinCheck, JoinRead, AddDone, JoinLeave,
           loopHist, loopVars, asyncVars, startVars, At, Goto, Loc, Starting, TypeOK
      <4>2. \A k : Unheld(k)' <=> Unheld(k)
        BY <2>1, <4>1 DEF Unheld, Chunk
      <4> QED BY <1>b, <2>0, <3>1, <4>1, <4>2
    <3> QED BY <3>2, <3>3
  <2> QED BY <2>2, <2>3
<1>6. ASSUME NEW c \in AP, ApLoad(c), smpGen # seen[c] PROVE <1>c!1
  <2>1. \A k : Unheld(k)' <=> Unheld(k)
    BY <1>6, LoadFacts DEF Unheld, Chunk
  <2>2. Handed' = Handed
    BY <1>6, LoadFacts DEF Handed
  <2> QED BY <1>6, <1>b, <2>1, <2>2, LoadFacts
<1> QED BY <1>1, <1>2, <1>3, <1>4, <1>5, <1>6, LoopFrame

\* The length of a loop fits the word done.
LEMMA ShapedFits ==
    ASSUME NEW j \in LoopType, Shaped(j)
    PROVE  j.n \in Nat /\ j.grain \in Nat /\ j.n < W
<1>1. j.n \in Nat /\ j.grain \in Nat
  BY DEF LoopType
<1>2. CASE j.n = 0
  BY <1>1, <1>2, ConstantFacts
<1>3. CASE j.n > 0
  <2>1. 2 * Cardinality(CPU) \in Nat /\ 1 <= 2 * Cardinality(CPU)
    BY CpuCount
  <2>2. j.grain * 1 <= j.grain * (2 * Cardinality(CPU)) /\ j.grain * (2 * Cardinality(CPU)) \in Nat
    BY <1>1, <2>1, TimesLess
  <2> QED BY <1>1, <1>3, <2>2, ConstantFacts DEF Shaped
<1> QED BY <1>1, <1>2, <1>3

\* Every step keeps done equal to the number of finished items.
LEMMA DoneStep ==
    ASSUME EngineInv, ShapeInv, ChunkInv, DoneInv, CursorInv, [Next]_vars
    PROVE  DoneInv'
<1>0. TypeOK /\ ControlInv /\ JoinInv
  BY DEF EngineInv
<1> USE <1>0, ConstantFacts
<1>a. SlotOf(Boot) \in Slots /\ next[SlotOf(Boot)] \in Nat /\ mine[Boot].n \in Nat
  BY SlotOfType, SlotTypes DEF TypeOK, JoinType, LoopType
<1>1. CASE LoopQuiet
  <2>1. \A c \in CPU : (Working(c)' <=> Working(c)) /\ \A k : Chunk(c, k)' <=> Chunk(c, k)
    BY <1>1 DEF LoopQuiet, Working, Chunk, InCall, Inside
  <2>2. Finished' = Finished /\ SlotOf(Boot)' = SlotOf(Boot)
    BY <1>1, <2>1 DEF LoopQuiet, Finished, Handed, SlotOf
  <2> QED BY <1>1, <2>2 DEF LoopQuiet, DoneInv, Opened, InCall, Inside
<1>2. ASSUME NEW l \in Loops, CallInline(l) \/ Call(l) PROVE DoneInv'
  BY <1>2 DEF CallInline, Call, At, Goto, TypeOK, DoneInv, Opened, Inside
<1>3. CASE CallStep
  <2>1. CASE CallOpen
    <3>1. /\ pc[Boot] = "open" /\ UNCHANGED <<next, done, g>>
      BY <2>1 DEF CallOpen, joinVars, At
    <3>2. Finished' = {} /\ done'[SlotOf(Boot)'] = 0
      BY <1>a, <3>1 DEF Finished, Handed, ChunkInv, SlotOf, At
    <3> QED BY <3>2, FS_EmptySet DEF DoneInv
  <2>2. CASE CallAnnounce \/ CallIpi
    <3>1. pc[Boot] \in Opened /\ UNCHANGED <<next, done, g, lo, hi, mine>>
      BY <2>2 DEF CallAnnounce, CallIpi, slotVars, joinVars, loopVars, At, Opened
    <3>2. \A d \in CPU : Working(d)' <=> Working(d)
      BY <2>2, <1>3, CallFacts DEF Working, InCall, Inside
    <3>3. Finished' = Finished /\ SlotOf(Boot)' = SlotOf(Boot)
      BY <3>1, <3>2 DEF Finished, Handed, SlotOf, Chunk
    <3> QED BY <3>1, <3>3 DEF DoneInv
  <2>3. CASE ~CallOpen /\ ~CallAnnounce /\ ~CallIpi
    <3>1. pc'[Boot] \notin Opened
      BY <1>3, <2>3 DEF CallStep, CallLock, CallZero, CallDrain, CallFill, CallWait, CallReturn,
         Goto, TypeOK, Opened, Inside
    <3> QED BY <3>1 DEF DoneInv
  <2> QED BY <2>1, <2>2, <2>3
<1>4. ASSUME NEW c \in CPU, JoinStep(c), pc'[Boot] \in Opened
      PROVE  done'[SlotOf(Boot)] = Cardinality(Finished')
  <2>0. /\ pc[Boot] \in Opened /\ mine'[Boot] = mine[Boot] /\ SlotOf(Boot)' = SlotOf(Boot)
        /\ job[SlotOf(Boot)] = mine[Boot] /\ done[SlotOf(Boot)] = Cardinality(Finished)
    BY <1>4, JoinStays DEF ShapeInv, DoneInv
  <2>1. /\ Loc(c)' = pc'[c]
        /\ \A d \in CPU : d # c => Loc(d)' = Loc(d) /\ lo'[d] = lo[d] /\ hi'[d] = hi[d]
    BY <1>4, JoinFacts
  <2>o. \A d \in CPU : d # c => (Working(d)' <=> Working(d)) /\ \A k : Chunk(d, k)' <=> Chunk(d, k)
    BY <2>1 DEF Working, Chunk
  <2>2. CASE Claim(c)
    <3> DEFINE s == SlotOf(c)
    <3>1. s \in Slots /\ next[s] \in Nat /\ job[s].n \in Nat /\ job[s].grain \in Nat
      BY SlotOfType, SlotTypes
    <3>2. done' = done /\ ~Working(c)
      BY <2>2, <3>1, ClaimFacts DEF Working
    <3>3. CASE next[s] >= job[s].n
      <4>1. ~Working(c)'
        BY <2>1, <2>2, <3>1, <3>3, ClaimFacts DEF Working
      <4>2. Handed' = Handed
        <5>1. CASE s = SlotOf(Boot)
          <6>1. next'[s] = next[s] + job[s].grain
            BY <2>2, <3>1, ClaimFacts
          <6> QED BY <2>0, <3>1, <3>3, <5>1, <6>1 DEF Handed
        <5>2. CASE s # SlotOf(Boot)
          BY <1>a, <2>0, <2>2, <3>1, <5>2, ClaimFacts DEF Handed
        <5> QED BY <5>1, <5>2
      <4>3. Finished' = Finished
        BY <2>o, <3>2, <4>1, <4>2 DEF Finished
      <4> QED BY <2>0, <3>2, <4>3
    <3>4. CASE next[s] < job[s].n
      <4>1. /\ Live(s) /\ pc'[c] = "run" /\ lo'[c] = next[s] /\ hi'[c] \in Nat
            /\ next'[s] = next[s] + job[s].grain
            /\ hi'[c] = IF next'[s] > job[s].n THEN job[s].n ELSE next'[s]
        BY <2>2, <3>1, <3>4, ClaimFacts
      <4>2. s = SlotOf(Boot) /\ Working(c)'
        BY <2>1, <4>1 DEF Live, Working
      <4>3. \A k : (k \in Handed' /\ ~Chunk(c, k)') <=> k \in Handed
        BY <1>a, <2>0, <3>1, <3>4, <4>1, <4>2 DEF Handed, Chunk
      <4>4. Finished' = Finished
        BY <2>o, <3>2, <4>2, <4>3 DEF Finished
      <4> QED BY <2>0, <3>2, <4>4
    <3> QED BY <3>1, <3>3, <3>4
  <2>3. CASE AddDone(c)
    <3> DEFINE s == SlotOf(Boot)  a == lo[c]  b == hi[c]  n == mine[Boot].n
    <3>1. Loc(c) = "add" /\ pc'[c] = "claim" /\ next' = next /\ a \in Nat /\ b \in Nat
      BY <2>3 DEF AddDone, At, Goto, Loc, Starting, TypeOK, JoinType
    <3>2. Working(c) /\ ~Working(c)'
      BY <2>1, <3>1 DEF Working
    <3>3. SlotOf(c) = s /\ a < b /\ b <= n /\ b <= next[s]
      BY <2>0, <3>2 DEF ChunkInv, Live
    <3>4. done'[s] = (done[s] + (b - a)) % W
      BY <1>a, <2>3, <3>3 DEF AddDone, TypeOK, SlotType
    <3>5. Handed' = Handed
      BY <2>0, <3>1 DEF Handed
    <3>6. \A k \in a .. b - 1 : k \in Handed /\ Chunk(c, k) /\ \A d \in CPU : d # c /\ Working(d) => ~Chunk(d, k)
      <4>1. ASSUME NEW k \in a .. b - 1 PROVE k \in Handed /\ Chunk(c, k)
        <5>1. k \in Nat /\ a <= k /\ k < b /\ k < n /\ k < next[s]
          BY <1>a, <3>1, <3>3
        <5> QED BY <1>a, <5>1 DEF Handed, Chunk
      <4>2. ASSUME NEW k \in a .. b - 1, NEW d \in CPU, d # c, Working(d) PROVE ~Chunk(d, k)
        <5>1. b <= lo[d] \/ hi[d] <= a
          BY <3>2, <4>2 DEF ChunkInv
        <5>2. lo[d] \in Nat /\ hi[d] \in Nat
          BY DEF TypeOK, JoinType
        <5> QED BY <3>1, <5>1, <5>2 DEF Chunk
      <4> QED BY <4>1, <4>2
    <3>7. \A k \in Handed : Chunk(c, k) => k \in a .. b - 1
      BY <1>a, <3>1 DEF Handed, Chunk
    <3>8. Finished' = Finished \cup (a .. b - 1)
      <4>1. \A k \in Handed : k \in Finished' <=> \A d \in CPU : d # c /\ Working(d) => ~Chunk(d, k)
        BY <2>o, <3>2, <3>5 DEF Finished
      <4>2. \A k \in Handed : k \in Finished <=>
              ~Chunk(c, k) /\ \A d \in CPU : d # c /\ Working(d) => ~Chunk(d, k)
        BY <3>2 DEF Finished
      <4>3. Finished' \subseteq Handed /\ Finished \subseteq Handed
        BY <3>5 DEF Finished
      <4> QED BY <3>6, <3>7, <4>1, <4>2, <4>3
    <3>9. Finished \cap (a .. b - 1) = {}
      BY <3>2, <3>6 DEF Finished
    <3>10. IsFiniteSet(0 .. n - 1) /\ Cardinality(0 .. n - 1) = n
      BY <1>a, RangeCount
    <3>11. IsFiniteSet(a .. b - 1) /\ Cardinality(a .. b - 1) = b - a
      BY <3>1, <3>3, RangeCount
    <3>12. Finished \subseteq 0 .. n - 1 /\ Finished' \subseteq 0 .. n - 1
      BY <3>5 DEF Finished, Handed
    <3>13. IsFiniteSet(Finished) /\ Cardinality(Finished') <= n /\ IsFiniteSet(Finished')
      BY <3>10, <3>12, FS_Subset
    <3>14. Cardinality(Finished') = Cardinality(Finished) + (b - a)
      <4>1. Cardinality(Finished \cup (a .. b - 1)) =
              Cardinality(Finished) + Cardinality(a .. b - 1) - Cardinality(Finished \cap (a .. b - 1))
        BY <3>11, <3>13, FS_Union
      <4>2. Cardinality(Finished \cap (a .. b - 1)) = 0
        BY <3>9, FS_EmptySet
      <4>3. Cardinality(Finished) \in Nat
        BY <3>13, FS_CardinalityType
      <4> QED BY <3>1, <3>3, <3>8, <3>11, <4>1, <4>2, <4>3
    <3>15. n < W
      BY <2>0, <1>a, ShapedFits DEF ShapeInv, TypeOK, SlotType
    <3>16. Cardinality(Finished) \in Nat /\ Cardinality(Finished') \in Nat
      BY <3>13, FS_CardinalityType
    <3> QED BY <1>a, <2>0, <3>1, <3>3, <3>4, <3>13, <3>14, <3>15, <3>16
  <2>4. CASE ~Claim(c) /\ ~AddDone(c)
    <3>1. UNCHANGED <<next, done, lo, hi>>
      BY <1>4, <2>4, OtherJoins
    <3>2. Working(c)' <=> Working(c)
      BY <1>4, <2>4 DEF JoinStep, JoinEnter, JoinCheck, JoinRead, RunItems, JoinLeave,
         asyncVars, startVars, At, Goto, Loc, Working, Starting, TypeOK
    <3>3. Finished' = Finished
      BY <2>0, <2>o, <3>1, <3>2 DEF Finished, Handed, Chunk
    <3> QED BY <2>0, <3>1, <3>3
  <2> QED BY <2>2, <2>3, <2>4
<1>5. ASSUME NEW c \in CPU, JoinStep(c) PROVE DoneInv'
  <2>1. SlotOf(Boot)' = SlotOf(Boot)
    BY <1>5, JoinStays
  <2> QED BY <1>4, <1>5, <2>1 DEF DoneInv
<1>6. ASSUME NEW c \in AP, ApLoad(c), smpGen # seen[c] PROVE DoneInv'
  <2>1. \A d \in CPU : Working(d)' <=> Working(d)
    BY <1>6, LoadFacts DEF Working
  <2>2. Finished' = Finished /\ SlotOf(Boot)' = SlotOf(Boot)
    BY <1>6, <2>1, LoadFacts DEF Finished, Handed, Chunk
  <2> QED BY <1>6, <2>2, LoadFacts DEF DoneInv
<1> QED BY <1>1, <1>2, <1>3, <1>5, <1>6, LoopFrame

\* The boot CPU is the one CPU that is not an AP.
LEMMA ApCount == IsFiniteSet(AP) /\ Cardinality(AP) \in Nat /\ Cardinality(CPU) = Cardinality(AP) + 1
<1>1. IsFiniteSet(AP) /\ CPU = AP \cup {Boot} /\ Boot \notin AP
  BY SmpAssumption DEF CPU
<1> QED BY <1>1, FS_AddElement, FS_CardinalityType

\* Counting the CPUs joining and the APs coming, at most once each.
LEMMA TwoCounts ==
    ASSUME NEW J \in SUBSET CPU, NEW C \in SUBSET AP
    PROVE  /\ IsFiniteSet(J) /\ IsFiniteSet(C) /\ Cardinality(J) \in Nat /\ Cardinality(C) \in Nat
           /\ Cardinality(J) + Cardinality(C) \in 0 .. 2 * Cardinality(CPU) - 1
<1>1. IsFiniteSet(J) /\ Cardinality(J) <= Cardinality(CPU)
  BY CpuCount, FS_Subset
<1>2. IsFiniteSet(C) /\ Cardinality(C) <= Cardinality(AP)
  BY ApCount, FS_Subset
<1>3. Cardinality(J) \in Nat /\ Cardinality(C) \in Nat
  BY <1>1, <1>2, FS_CardinalityType
<1> QED BY <1>1, <1>2, <1>3, ApCount, CpuCount

\* Fewer CPUs may still overshoot, and the cursor has not moved.
LEMMA SameCursor ==
    ASSUME TypeOK, CursorInv, NEW s \in Slots, next'[s] = next[s], job'[s] = job[s],
           Joining(s)' \subseteq Joining(s), Coming(s)' \subseteq Coming(s)
    PROVE  next'[s] + job'[s].grain * Overshoots(s)' < W
<1>1. Joining(s) \in SUBSET CPU /\ Coming(s) \in SUBSET AP
  BY DEF Joining, Coming
<1>2. Joining(s)' \in SUBSET CPU /\ Coming(s)' \in SUBSET AP
  BY <1>1
<1>3. /\ Cardinality(Joining(s)') <= Cardinality(Joining(s))
      /\ Cardinality(Coming(s)') <= Cardinality(Coming(s))
  BY <1>1, TwoCounts, FS_Subset
<1>4. /\ Cardinality(Joining(s)) \in Nat /\ Cardinality(Joining(s)') \in Nat
      /\ Cardinality(Coming(s)) \in Nat /\ Cardinality(Coming(s)') \in Nat
  BY <1>1, <1>2, TwoCounts
<1>5. Overshoots(s) \in Nat /\ Overshoots(s)' \in Nat /\ Overshoots(s)' <= Overshoots(s)
  BY <1>3, <1>4 DEF Overshoots
<1>6. next[s] \in Nat /\ job[s].grain \in Nat
  BY SlotTypes
<1>7. /\ job[s].grain * Overshoots(s)' <= job[s].grain * Overshoots(s)
      /\ job[s].grain * Overshoots(s)' \in Nat /\ job[s].grain * Overshoots(s) \in Nat
  BY <1>5, <1>6, TimesLess
<1>8. next[s] + job[s].grain * Overshoots(s) < W
  BY DEF CursorInv
<1> QED BY <1>6, <1>7, <1>8, ConstantFacts

\* A cursor that was inside the loop has room for the overshoots of all CPUs.
LEMMA RoomForAll ==
    ASSUME NEW s \in Slots, NEW i \in Nat, NEW j \in LoopType, Shaped(j), i + 1 <= j.n \/ i = 0,
           Joining(s)' \in SUBSET CPU, Coming(s)' \in SUBSET AP
    PROVE  /\ i + 1 <= j.n => i + j.grain + j.grain * Overshoots(s)' < W
           /\ j.grain * Overshoots(s)' < W
<1>1. Overshoots(s)' \in 0 .. 2 * Cardinality(CPU) - 1
  BY TwoCounts DEF Overshoots
<1>2. /\ Overshoots(s)' \in Nat /\ 2 * Cardinality(CPU) \in Nat
      /\ Overshoots(s)' + 1 <= 2 * Cardinality(CPU)
  BY <1>1, CpuCount
<1>3. j.n \in Nat /\ j.grain \in Nat
  BY DEF LoopType
<1>4. /\ j.grain * Overshoots(s)' + j.grain <= j.grain * (2 * Cardinality(CPU))
      /\ j.grain * Overshoots(s)' \in Nat /\ j.grain * (2 * Cardinality(CPU)) \in Nat
  BY <1>2, <1>3, TimesOneLess
<1>5. j.n + j.grain * (2 * Cardinality(CPU)) <= W
  BY DEF Shaped
<1>6. j.grain * Overshoots(s)' < W
  <2>1. CASE j.grain = 0
    BY <1>2, <2>1, ConstantFacts
  <2>2. CASE j.grain > 0
    BY <1>3, <1>4, <1>5, <2>2, ConstantFacts
  <2> QED BY <1>3, <2>1, <2>2
<1> QED BY <1>3, <1>4, <1>5, <1>6, ConstantFacts

\* A new loop starts with its cursor at 0 and room for all; the announcement counts
\* the APs that may come because of it.
LEMMA CursorCall ==
    ASSUME EngineInv, ShapeInv, GenInv, ChunkInv, CursorInv, CallStep, NEW s \in Slots
    PROVE  next'[s] + job'[s].grain * Overshoots(s)' < W
<1>0. TypeOK /\ ControlInv /\ JoinInv
  BY DEF EngineInv
<1> USE <1>0, ConstantFacts
<1>a. SlotOf(Boot) \in Slots
  BY SlotOfType
<1>b. Joining(s)' \in SUBSET CPU /\ Coming(s)' \in SUBSET AP
  BY DEF Joining, Coming
<1>c. /\ UNCHANGED seen /\ Loc(Boot) = pc[Boot] /\ Loc(Boot)' = pc'[Boot]
      /\ \A d \in CPU : d # Boot => Loc(d)' = Loc(d) /\ SlotOf(d)' = SlotOf(d)
      /\ \A d \in CPU : d # Boot => g'[d] = g[d]
  <2>1. \A d \in CPU : d # Boot => g'[d] = g[d]
    BY CallFacts DEF CallLock, TypeOK, JoinType
  <2> QED BY <2>1, CallFacts
<1>1. CASE CallLock
  <2>1. /\ pc[Boot] = "lock" /\ pc'[Boot] = "zero" /\ UNCHANGED <<gen, next, job, smpGen>>
    BY <1>1 DEF CallLock, slotVars, At, Goto, TypeOK
  <2>2. Joining(s)' = Joining(s)
    BY <1>c, <2>1 DEF Joining, Checked
  <2>3. Coming(s)' = Coming(s)
    BY <1>c, <2>1 DEF Coming, At
  <2> QED BY <2>1, <2>2, <2>3, SameCursor
<1>2. CASE CallZero
  <2>1. /\ pc[Boot] = "zero" /\ pc'[Boot] = "drain" /\ UNCHANGED <<next, job, smpGen, g>>
        /\ gen'[s] = IF s = SlotOf(Boot) THEN 0 ELSE gen[s]
    BY <1>2 DEF CallZero, pubVars, joinVars, At, Goto, TypeOK, SlotType
  <2>2. Joining(s)' \subseteq Joining(s)
    <3>1. \A d \in CPU : Loc(d)' \in {"announce", "ipi", "join", "check"} => g[d] # 0 /\ Loc(d) = Loc(d)'
      <4>1. \A d \in AP : Loc(d) \notin {"announce", "ipi"}
        BY Places DEF InCall, Inside
      <4> QED BY <1>c, <2>1, <4>1 DEF JoinInv, Inside, CPU
    <3> QED BY <1>c, <2>1, <3>1 DEF Joining, Checked, SlotOf
  <2>3. Coming(s)' \subseteq Coming(s)
    <3>1. CASE s = SlotOf(Boot)
      BY <1>c, <2>1, <3>1 DEF Coming, At, JoinInv
    <3>2. CASE s # SlotOf(Boot)
      BY <1>c, <2>1, <3>2 DEF Coming, At
    <3> QED BY <3>1, <3>2
  <2> QED BY <2>1, <2>2, <2>3, SameCursor
<1>3. CASE CallFill
  <2>1. /\ pc[Boot] = "fill" /\ pc'[Boot] = "open" /\ UNCHANGED <<gen, smpGen, g>>
        /\ s # SlotOf(Boot) => next'[s] = next[s] /\ job'[s] = job[s]
        /\ s = SlotOf(Boot) => next'[s] = 0 /\ job'[s] = mine[Boot]
    BY <1>3 DEF CallFill, pubVars, joinVars, At, Goto, TypeOK, SlotType
  <2>2. Joining(s)' = Joining(s) /\ Coming(s)' = Coming(s)
    BY <1>c, <2>1 DEF Joining, Coming, Checked, At, SlotOf
  <2>3. CASE s # SlotOf(Boot)
    BY <2>1, <2>2, <2>3, SameCursor
  <2>4. CASE s = SlotOf(Boot)
    <3>1. mine[Boot] \in LoopType /\ Shaped(mine[Boot])
      BY <2>1 DEF ShapeInv, InCall, TypeOK, JoinType
    <3>2. mine[Boot].grain * Overshoots(s)' < W /\ Overshoots(s)' \in Nat /\ mine[Boot].grain \in Nat
      <4>1. Overshoots(s)' \in 0 .. 2 * Cardinality(CPU) - 1
        BY <1>b, TwoCounts DEF Overshoots
      <4>2. mine[Boot].grain * Overshoots(s)' < W
        BY <1>b, <3>1, RoomForAll
      <4> QED BY <3>1, <4>1, <4>2, CpuCount DEF LoopType
    <3>3. mine[Boot].grain * Overshoots(s)' \in Nat
      BY <3>2
    <3> QED BY <2>1, <2>4, <3>2, <3>3
  <2> QED BY <2>3, <2>4
<1>4. CASE CallOpen
  <2>1. /\ pc[Boot] = "open" /\ pc'[Boot] = "announce" /\ UNCHANGED <<next, job, smpGen, g>>
        /\ s # SlotOf(Boot) => gen'[s] = gen[s]
    BY <1>4 DEF CallOpen, pubVars, joinVars, At, Goto, TypeOK, SlotType
  <2>2. CASE s # SlotOf(Boot)
    <3>1. Joining(s)' = Joining(s)
      BY <1>c, <2>1, <2>2 DEF Joining, Checked, SlotOf
    <3>2. Coming(s)' = Coming(s)
      BY <1>c, <2>1, <2>2 DEF Coming, At, SlotOf
    <3> QED BY <2>1, <2>2, <3>1, <3>2, SameCursor
  <2>3. CASE s = SlotOf(Boot)
    <3>1. next'[s] = 0 /\ job'[s] \in LoopType /\ Shaped(job'[s])
      BY <2>1, <2>3 DEF ChunkInv, At, ShapeInv, TypeOK, SlotType
    <3>2. job'[s].grain * Overshoots(s)' < W
      BY <1>b, <3>1, RoomForAll
    <3>3. job'[s].grain \in Nat /\ Overshoots(s)' \in Nat
      <4>1. Overshoots(s)' \in 0 .. 2 * Cardinality(CPU) - 1
        BY <1>b, TwoCounts DEF Overshoots
      <4> QED BY <3>1, <4>1, CpuCount DEF LoopType
    <3>4. job'[s].grain * Overshoots(s)' \in Nat
      BY <3>3
    <3> QED BY <3>1, <3>2, <3>4
  <2> QED BY <2>2, <2>3
<1>5. CASE CallAnnounce
  <2>1. /\ pc[Boot] = "announce" /\ pc'[Boot] = "ipi" /\ UNCHANGED <<gen, next, job, g>>
        /\ smpGen' = g[Boot]
    BY <1>5 DEF CallAnnounce, slotVars, joinVars, At, Goto, TypeOK
  <2>2. Joining(s)' = Joining(s)
    BY <1>c, <2>1 DEF Joining, Checked, SlotOf
  <2>3. Coming(s)' \subseteq Coming(s)
    <3>1. g[Boot] # 0 /\ gen[SlotOf(Boot)] = g[Boot] /\ SlotOf(Boot) = g[Boot] % NSLOT
      BY <2>1 DEF JoinInv, Published, GenInv, Opened, SlotOf
    <3>2. CASE s = SlotOf(Boot)
      BY <1>c, <2>1, <3>1, <3>2 DEF Coming, At
    <3>3. CASE s # SlotOf(Boot)
      <4>1. gen[s] # g[Boot]
        BY <3>1, <3>3 DEF GenInv
      <4> QED BY <1>c, <2>1, <4>1 DEF Coming, At
    <3> QED BY <3>2, <3>3
  <2> QED BY <2>1, <2>2, <2>3, SameCursor
<1>6. CASE CallDrain \/ CallIpi \/ CallWait \/ CallReturn
  <2>1. UNCHANGED <<gen, next, job, g, smpGen>>
    BY <1>6 DEF CallDrain, CallIpi, CallWait, CallReturn, slotVars, pubVars, joinVars, loopVars
  <2>2. /\ pc[Boot] # "announce" /\ pc'[Boot] # "announce" /\ pc[Boot] \notin Checked /\ pc'[Boot] \notin Checked
        /\ pc'[Boot] \in {"announce", "ipi", "join", "check"} => pc[Boot] \in {"announce", "ipi", "join", "check"}
    BY <1>6 DEF CallDrain, CallIpi, CallWait, CallReturn, At, Goto, TypeOK, Checked
  <2>3. Joining(s)' \subseteq Joining(s)
    BY <1>c, <2>1, <2>2 DEF Joining, SlotOf
  <2>4. Coming(s)' = Coming(s)
    BY <1>c, <2>1, <2>2 DEF Coming, At
  <2> QED BY <2>1, <2>3, <2>4, SameCursor
<1> QED BY <1>1, <1>2, <1>3, <1>4, <1>5, <1>6 DEF CallStep

\* A claim past the end uses up the claimant's own overshoot.
LEMMA CursorJoin ==
    ASSUME EngineInv, ShapeInv, GenInv, ChunkInv, CursorInv, NEW c \in CPU, JoinStep(c), NEW s \in Slots
    PROVE  next'[s] + job'[s].grain * Overshoots(s)' < W
<1>0. TypeOK /\ ControlInv
  BY DEF EngineInv
<1> USE <1>0, ConstantFacts
<1>1. /\ UNCHANGED <<gen, job, g, seen, smpGen>>
      /\ \A d \in CPU : SlotOf(d)' = SlotOf(d)
      /\ \A d \in CPU : d # c => Loc(d)' = Loc(d) /\ pc'[d] = pc[d]
      /\ Loc(c) = pc[c] /\ Loc(c)' = pc'[c]
      /\ pc[c] \in {"join"} \cup Inside /\ pc'[c] \in Inside \cup {"wait", "scan"}
  BY JoinFacts
<1>2. Coming(s)' = Coming(s)
  <2>1. At(Boot, "announce")' <=> At(Boot, "announce")
    BY <1>1 DEF At, Inside
  <2> QED BY <1>1, <2>1 DEF Coming
<1>3. Joining(s)' \subseteq Joining(s)
  <2>1. /\ pc'[c] \in Checked => pc[c] \in Checked \/ (pc[c] = "check" /\ g[c] = gen[SlotOf(c)])
        /\ pc'[c] \in {"announce", "ipi", "join", "check"} => pc[c] = "join"
    BY DEF JoinStep, JoinEnter, JoinCheck, JoinRead, Claim, RunItems, AddDone, JoinLeave,
       NotRecycled, At, Goto, TypeOK, Checked
  <2> QED BY <1>1, <2>1 DEF Joining
<1>4. CASE ~Claim(c) \/ s # SlotOf(c)
  <2>1. next'[s] = next[s]
    <3>1. CASE ~Claim(c)
      BY <3>1, OtherJoins
    <3>2. CASE Claim(c) /\ s # SlotOf(c)
      BY <3>2, SlotOfType, ClaimFacts
    <3> QED BY <1>4, <3>1, <3>2
  <2> QED BY <1>1, <1>2, <1>3, <2>1, SameCursor
<1>5. CASE Claim(c) /\ s = SlotOf(c)
  <2>1. next[s] \in Nat /\ job[s].n \in Nat /\ job[s].grain \in Nat /\ job[s] \in LoopType /\ Shaped(job[s])
    BY SlotTypes DEF ShapeInv, TypeOK, SlotType
  <2>2. next'[s] = next[s] + job[s].grain /\ job' = job
    BY <1>1, <1>5, ClaimFacts
  <2>3. Joining(s) \in SUBSET CPU /\ Coming(s) \in SUBSET AP
    BY DEF Joining, Coming
  <2>4. CASE next[s] < job[s].n
    <3>1. next[s] + 1 <= job[s].n /\ Joining(s)' \in SUBSET CPU /\ Coming(s)' \in SUBSET AP
      BY <1>2, <1>3, <2>1, <2>3, <2>4
    <3> QED BY <2>1, <2>2, <3>1, RoomForAll
  <2>5. CASE next[s] >= job[s].n
    <3>1. pc'[c] = "leave" /\ c \in Joining(s)
      BY <1>5, <2>5, ClaimFacts DEF Joining, Checked
    <3>2. Joining(s)' \subseteq Joining(s) \ {c}
      BY <1>1, <1>3, <3>1 DEF Joining, Checked
    <3>3. /\ IsFiniteSet(Joining(s)) /\ Cardinality(Joining(s)) \in Nat /\ Cardinality(Coming(s)) \in Nat
          /\ IsFiniteSet(Joining(s) \ {c})
      BY <2>3, TwoCounts
    <3>4. Cardinality(Joining(s) \ {c}) = Cardinality(Joining(s)) - 1
      BY <3>1, <3>3, FS_RemoveElement
    <3>5. Cardinality(Joining(s)') <= Cardinality(Joining(s) \ {c}) /\ Cardinality(Joining(s)') \in Nat
      BY <3>2, <3>3, FS_Subset, FS_CardinalityType
    <3>6. Overshoots(s) \in Nat /\ Overshoots(s)' \in Nat /\ Overshoots(s)' + 1 <= Overshoots(s)
      BY <1>2, <3>3, <3>4, <3>5 DEF Overshoots
    <3>7. /\ job[s].grain * Overshoots(s)' + job[s].grain <= job[s].grain * Overshoots(s)
          /\ job[s].grain * Overshoots(s)' \in Nat /\ job[s].grain * Overshoots(s) \in Nat
      BY <2>1, <3>6, TimesOneLess
    <3>8. next[s] + job[s].grain * Overshoots(s) < W
      BY DEF CursorInv
    <3> QED BY <2>1, <2>2, <3>7, <3>8
  <2> QED BY <2>1, <2>4, <2>5
<1> QED BY <1>4, <1>5

\* An AP that comes in by the announced generation was counted as coming.
LEMMA CursorLoad ==
    ASSUME EngineInv, CursorInv, NEW c \in AP, ApLoad(c), smpGen # seen[c], NEW s \in Slots
    PROVE  next'[s] + job'[s].grain * Overshoots(s)' < W
<1>0. TypeOK
  BY DEF EngineInv
<1> USE <1>0, ConstantFacts
<1>1. UNCHANGED <<gen, next, job, smpGen>> /\ pc'[Boot] = pc[Boot] /\ SlotOf(Boot)' = SlotOf(Boot)
  BY LoadFacts
<1>2. c \notin Joining(s) /\ Joining(s)' \subseteq Joining(s) \cup (IF smpGen = gen[s] THEN {c} ELSE {})
  <2>1. c \notin Joining(s)
    BY LoadFacts DEF Joining, Checked
  <2>2. \A d \in CPU : d # c => (d \in Joining(s)' <=> d \in Joining(s))
    BY LoadFacts DEF Joining
  <2>3. c \in Joining(s)' => smpGen = gen[s]
    BY LoadFacts DEF Joining, Checked
  <2>4. Joining(s)' \subseteq CPU
    BY DEF Joining
  <2> QED BY <2>1, <2>2, <2>3, <2>4
<1>3. CASE smpGen # gen[s]
  <2>1. Coming(s)' = Coming(s)
    BY <1>1, <1>3 DEF Coming, At
  <2> QED BY <1>1, <1>2, <1>3, <2>1, SameCursor
<1>4. CASE smpGen = gen[s]
  <2>1. c \in Coming(s) /\ Coming(s)' \subseteq Coming(s) \ {c}
    <3>1. Coming(s) = {d \in AP : seen[d] # gen[s]} /\ Coming(s)' = {d \in AP : seen'[d] # gen[s]}
      BY <1>1, <1>4 DEF Coming
    <3> QED BY <1>4, <3>1, LoadFacts
  <2>2. Joining(s) \in SUBSET CPU /\ Coming(s) \in SUBSET AP
    BY DEF Joining, Coming
  <2>3. /\ IsFiniteSet(Joining(s)) /\ Cardinality(Joining(s)) \in Nat
        /\ IsFiniteSet(Coming(s)) /\ Cardinality(Coming(s)) \in Nat
    BY <2>2, TwoCounts
  <2>4. /\ IsFiniteSet(Joining(s) \cup {c}) /\ Cardinality(Joining(s) \cup {c}) = Cardinality(Joining(s)) + 1
    BY <1>2, <2>3, FS_AddElement
  <2>5. /\ IsFiniteSet(Coming(s) \ {c}) /\ Cardinality(Coming(s) \ {c}) = Cardinality(Coming(s)) - 1
    BY <2>1, <2>3, FS_RemoveElement
  <2>6. /\ Cardinality(Joining(s)') <= Cardinality(Joining(s)) + 1 /\ Cardinality(Joining(s)') \in Nat
        /\ Cardinality(Coming(s)') <= Cardinality(Coming(s)) - 1 /\ Cardinality(Coming(s)') \in Nat
    <3>1. Joining(s)' \subseteq Joining(s) \cup {c}
      BY <1>2, <1>4
    <3> QED BY <2>1, <2>4, <2>5, <3>1, FS_Subset, FS_CardinalityType
  <2>7. Overshoots(s) \in Nat /\ Overshoots(s)' \in Nat /\ Overshoots(s)' <= Overshoots(s)
    BY <2>3, <2>6 DEF Overshoots
  <2>8. next[s] \in Nat /\ job[s].grain \in Nat
    BY SlotTypes
  <2>9. /\ job[s].grain * Overshoots(s)' <= job[s].grain * Overshoots(s)
        /\ job[s].grain * Overshoots(s)' \in Nat /\ job[s].grain * Overshoots(s) \in Nat
    BY <2>7, <2>8, TimesLess
  <2>10. next[s] + job[s].grain * Overshoots(s) < W
    BY DEF CursorInv
  <2> QED BY <1>1, <2>8, <2>9, <2>10
<1> QED BY <1>3, <1>4

\* Every step keeps the cursor, with all overshoots to come, below the word width.
LEMMA CursorStep ==
    ASSUME EngineInv, ShapeInv, GenInv, ChunkInv, CursorInv, [Next]_vars
    PROVE  CursorInv'
<1>0. TypeOK /\ ControlInv
  BY DEF EngineInv
<1> SUFFICES ASSUME NEW s \in Slots PROVE next'[s] + job'[s].grain * Overshoots(s)' < W
  BY DEF CursorInv
<1> USE <1>0, ConstantFacts
<1>1. CASE LoopQuiet
  <2>1. Joining(s)' = Joining(s)
    BY <1>1 DEF LoopQuiet, Joining, Checked, SlotOf, InCall, Inside
  <2>2. Coming(s)' = Coming(s)
    BY <1>1 DEF LoopQuiet, Coming, At, SlotOf, InCall, Inside
  <2> QED BY <1>1, <2>1, <2>2, SameCursor DEF LoopQuiet
<1>2. ASSUME NEW l \in Loops, CallInline(l) \/ Call(l)
      PROVE  next'[s] + job'[s].grain * Overshoots(s)' < W
  <2>1. /\ UNCHANGED <<gen, next, job, g, seen, smpGen, ret>>
        /\ pc[Boot] = "idle" /\ pc'[Boot] \in {"idle", "lock"}
        /\ \A c \in CPU : c # Boot => pc'[c] = pc[c]
    BY <1>2 DEF CallInline, Call, slotVars, pubVars, joinVars, asyncVars, startVars, TypeOK, At, Goto
  <2>2. Joining(s)' = Joining(s)
    BY <2>1 DEF Joining, Checked, SlotOf, Loc, Starting
  <2>3. Coming(s)' = Coming(s)
    BY <2>1 DEF Coming, At
  <2> QED BY <2>1, <2>2, <2>3, SameCursor
<1> QED BY <1>1, <1>2, CursorCall, CursorJoin, CursorLoad, LoopFrame

\* Every step keeps the job in hand of an AP that is not inside one at none.
LEMMA IdleStep ==
    ASSUME EngineInv, IdleInv, [Next]_vars
    PROVE  IdleInv'
<1>0. TypeOK /\ ControlInv
  BY DEF EngineInv
<1> USE <1>0, ConstantFacts
<1> USE DEF asyncVars, mailVars, startVars, At, Goto, Loc, TypeOK,
        StartType, RunType, Starting, IdleInv, ControlInv, ApPcs, Inside
<1>1. CASE UNCHANGED vars
  BY <1>1 DEF vars
<1>2. CASE (\E l \in Loops : CallInline(l) \/ Call(l)) \/ CallStep
  BY <1>2 DEF CallInline, Call, CallStep, CallLock, CallZero, CallDrain, CallFill, CallOpen,
     CallAnnounce, CallIpi, CallWait, CallReturn
<1>3. CASE PollState \/ \E j \in Posts : PollSeq(j)
  BY <1>3 DEF PollState, PollSeq
<1>4. ASSUME NEW c \in CPU, JoinStep(c) PROVE IdleInv'
  BY <1>4 DEF JoinStep, JoinEnter, JoinCheck, JoinRead, Claim, RunItems, AddDone, JoinLeave
<1>5. ASSUME NEW c \in CPU, StartCall(c) PROVE IdleInv'
  BY <1>5 DEF StartCall, MayPost
<1>6. ASSUME NEW c \in CPU, StartLock(c) \/ StartPick(c) \/ StartFill(c) \/ StartPost(c)
                              \/ StartIpi(c) \/ StartReturn(c)
      PROVE  IdleInv'
  BY <1>6 DEF StartLock, StartPick, StartFill, StartPost, StartIpi, StartReturn
<1>7. ASSUME NEW c \in AP, ApLoad(c) \/ ApReady(c) \/ ApWake(c) PROVE IdleInv'
  BY <1>7 DEF ApLoad, ApReady, Halt, ApWake
<1>8. ASSUME NEW c \in AP, RunScan(c) \/ RunCas(c) PROVE IdleInv'
  BY <1>8 DEF RunScan, RunCas, NextEntry
<1>9. ASSUME NEW c \in AP, RunFetch(c) \/ RunFinish(c) PROVE IdleInv'
  BY <1>9 DEF RunFetch, RunFinish, NextEntry
<1>10. ASSUME NEW c \in AP, ApFault(c) PROVE IdleInv'
  BY <1>10 DEF ApFault
<1> QED
  BY <1>1, <1>2, <1>3, <1>4, <1>5, <1>6, <1>7, <1>8, <1>9, <1>10
  DEF Next, Step, StartStep, WorkerStep

\* All slots start empty.
LEMMA LoopInit == Init => LoopInv
<1> SUFFICES ASSUME Init PROVE LoopInv
  OBVIOUS
<1>0. EngineInv /\ TypeOK
  BY EngineInit DEF EngineInv
<1> USE <1>0, ConstantFacts
<1>1. /\ pc[Boot] = "idle" /\ \A c \in AP : pc[c] = "load"
      /\ \A c \in CPU : Loc(c) = pc[c] /\ Loc(c) \in {"idle", "load"}
  BY DEF Init, Loc, Starting, CPU
<1>2. \A s \in Slots : /\ job[s] = NoLoop /\ next[s] = 0 /\ gen[s] = 0
                       /\ job[s].n = 0 /\ job[s].grain = 0
  BY DEF Init, NoLoop, Loop
<1>3. ShapeInv
  <2>1. 0 * (2 * Cardinality(CPU)) = 0
    BY CpuCount
  <2>2. \A s \in Slots : Shaped(job[s])
    BY <1>2, <2>1 DEF Shaped
  <2> QED BY <1>1, <2>2 DEF ShapeInv, InCall, Opened, Inside
<1>4. GenInv
  BY <1>1, <1>2 DEF GenInv, Opened, Inside
<1>5. ChunkInv
  BY <1>1, <1>2 DEF ChunkInv, At, Working
<1>6. RanInv /\ DoneInv
  BY <1>1 DEF Init, RanInv, DoneInv, Opened, Filling, Inside, ItemsRunOnce, At
<1>7. CursorInv
  <2> SUFFICES ASSUME NEW s \in Slots PROVE next[s] + job[s].grain * Overshoots(s) < W
    BY DEF CursorInv
  <2>1. Joining(s) \in SUBSET CPU /\ Coming(s) \in SUBSET AP
    BY DEF Joining, Coming
  <2>2. Overshoots(s) \in Nat
    BY <2>1, TwoCounts DEF Overshoots
  <2>3. 0 * Overshoots(s) = 0
    BY <2>2
  <2> QED BY <1>2, <2>3
<1>8. IdleInv
  BY DEF Init, IdleInv
<1> QED BY <1>3, <1>4, <1>5, <1>6, <1>7, <1>8 DEF LoopInv

\* Every step of every CPU keeps the invariant of the loops.
LEMMA LoopStep ==
    ASSUME NoWrap, EngineInv, LoopInv, [Next]_vars
    PROVE  LoopInv'
<1> USE DEF LoopInv
<1>1. ShapeInv' /\ GenInv' /\ ChunkInv'
  BY ShapeStep, GenStep, ChunkStep
<1>2. RanInv' /\ DoneInv' /\ CursorInv' /\ IdleInv'
  BY RanStep, DoneStep, CursorStep, IdleStep
<1> QED BY <1>1, <1>2

\* In every execution, for any number of CPUs and slots, with CPUs that fault, items
\* that post and generations that wrap: the invariant of the loops, as long as no
\* loop is so long and its grain so large that the 32-bit cursor could come round
\* (SmpGrainWrap shows what happens then).
THEOREM LoopInvariance == NoWrap => (Spec => []LoopInv)
<1> SUFFICES ASSUME NoWrap PROVE Spec => []LoopInv
  OBVIOUS
<1>1. EngineInv /\ LoopInv /\ [Next]_vars => LoopInv'
  BY LoopStep
<1> QED BY LoopInit, <1>1, EngineInvariance, PTL DEF Spec

\* A CPU about to run items runs those of the loop the boot CPU is still inside:
\* fn and ctx, which live in the caller's frame, are never used after
\* smp_parallel_for has returned (smp.c:98-107).
THEOREM LoopsAreLive == NoWrap => (Spec => []LoopIsLive)
<1> SUFFICES ASSUME NoWrap PROVE Spec => []LoopIsLive
  OBVIOUS
<1>1. ASSUME EngineInv, LoopInv PROVE LoopIsLive
  <2>0. TypeOK /\ ControlInv /\ ShapeInv /\ ChunkInv
    BY <1>1 DEF EngineInv, LoopInv
  <2> SUFFICES ASSUME NEW c \in CPU, At(c, "run")
               PROVE  mine[c].id = calls /\ pc[Boot] \in Opened
    BY DEF LoopIsLive, Opened
  <2>1. Loc(c) = "run"
    BY DEF At, Loc, Starting
  <2>2. Live(SlotOf(c))
    BY <2>0, <2>1 DEF ChunkInv, Working
  <2>3. mine[c] = job[SlotOf(c)]
    BY <2>0, <2>1 DEF ShapeInv
  <2>4. job[SlotOf(Boot)] = mine[Boot] /\ mine[Boot].id = calls
    BY <2>0, <2>2 DEF ShapeInv, Live, Opened, InCall
  <2> QED BY <2>2, <2>3, <2>4 DEF Live
<1> QED BY LoopInvariance, EngineInvariance, <1>1, PTL

\* smp_parallel_for runs no item twice, and returns only when every item has run
\* (smp.c:108-149).
THEOREM ItemsAreRunOnce == NoWrap => (Spec => []ItemsRunOnce)
<1> SUFFICES ASSUME NoWrap PROVE Spec => []ItemsRunOnce
  OBVIOUS
<1>1. LoopInv => ItemsRunOnce
  BY DEF LoopInv, RanInv
<1> QED BY LoopInvariance, <1>1, PTL

-----------------------------------------------------------------------------
(* The engine implements its contract                                      *)

\* The longest loop of the caller exists, and no loop is longer than Items.
LEMMA LoopsFitItems ==
    ASSUME NEW l \in Loops
    PROVE  0 .. LengthOf(l) - 1 \subseteq Items
<1> DEFINE T == {W - k.n : k \in Loops}
<1>1. \A k \in Loops : k.n \in Nat /\ W - k.n \in Nat
  BY SmpAssumption
<1>2. T \subseteq Nat /\ T # {}
  BY <1>1
<1>3. \E x \in T : \A y \in T : ~ (<<y, x>> \in OpToRel(<, Nat))
  <2> HIDE DEF T
  <2> QED BY <1>2, WFMin, NatLessThanWellFounded, Zenon
<1>4. PICK x \in T : \A y \in T : ~ (y < x)
  BY <1>2, <1>3 DEF OpToRel
<1>5. PICK k \in Loops : x = W - k.n
  BY <1>4
<1>6. ASSUME NEW i \in Loops PROVE i.n <= k.n
  <2>1. ~ (W - i.n < W - k.n)
    BY <1>4, <1>5
  <2> QED BY <1>1, <2>1, ConstantFacts
<1>7. \E m \in {i.n : i \in Loops} : \A i \in Loops : i.n <= m
  BY <1>6
<1>8. MaxN \in {i.n : i \in Loops} /\ \A i \in Loops : i.n <= MaxN
  BY <1>7 DEF MaxN
<1>9. LengthOf(l) <= MaxN /\ LengthOf(l) \in Nat /\ MaxN \in Nat
  BY <1>1, <1>8, SmpAssumption DEF LengthOf
<1> QED BY <1>9 DEF Items

\* An AP with a job in hand owns the entry the job is in.
LEMMA Busy ==
    ASSUME EngineInv, IdleInv, NEW c \in AP, running[c] # 0
    PROVE  /\ Loc(c) = "arun" /\ scan[c] \in Entries
           /\ astate[scan[c]] = 2 /\ ajob[scan[c]] = running[c]
           /\ running[c] \in Posts /\ running[c] \notin finished
  BY DEF EngineInv, IdleInv, RunnerInv, MailInv, Owns, TypeOK, RunType

\* No two APs have the same job in hand.
LEMMA Alone ==
    ASSUME EngineInv, IdleInv, NEW c \in AP, NEW d \in AP, c # d, Owns(c)
    PROVE  running[d] # ajob[scan[c]] /\ ajob[scan[c]] \in Posts
<1>1. /\ scan[c] \in Entries /\ astate[scan[c]] = 2 /\ ajob[scan[c]] \in Posts
  BY DEF EngineInv, RunnerInv, MailInv, TypeOK, RunType
<1>2. ajob[scan[c]] # 0
  BY <1>1 DEF Posts
<1>3. CASE running[d] # 0
  BY <1>1, <1>3, Busy DEF EngineInv, RunnerInv, MailInv, Owns
<1> QED BY <1>1, <1>2, <1>3

InMail(j) == \E i \in Entries : ajob[i] = j /\ astate[i] \in {1, 2}
InHand(j) == \E c \in AP : running[c] = j

\* The four states of a posted job, before and after a step.
LEMMA StatusCases ==
    ASSUME NEW j
    PROVE  /\ Status(j) = IF InHand(j) THEN "running"
                          ELSE IF j \in finished THEN "finished"
                          ELSE IF InMail(j) THEN "pending" ELSE "new"
           /\ Status(j)' = IF InHand(j)' THEN "running"
                           ELSE IF j \in finished' THEN "finished"
                           ELSE IF InMail(j)' THEN "pending" ELSE "new"
<1>1. Status(j) = IF InHand(j) THEN "running"
                  ELSE IF j \in finished THEN "finished"
                  ELSE IF InMail(j) THEN "pending" ELSE "new"
  <2>1. CASE InHand(j)
    BY <2>1 DEF Status, InHand
  <2>2. CASE ~InHand(j)
    BY <2>2 DEF Status, InHand, InMail
  <2> QED BY <2>1, <2>2
<1>2. Status(j)' = IF InHand(j)' THEN "running"
                   ELSE IF j \in finished' THEN "finished"
                   ELSE IF InMail(j)' THEN "pending" ELSE "new"
  <2>1. CASE InHand(j)'
    BY <2>1 DEF Status, InHand
  <2>2. CASE ~InHand(j)'
    BY <2>2 DEF Status, InHand, InMail
  <2> QED BY <2>1, <2>2
<1> QED BY <1>1, <1>2

\* What callers see of the posted jobs, and of the loop, does not change.
SamePosts == starts' = starts /\ \A j \in Posts : Status(j)' = Status(j)
SameLoop ==
    /\ pc'[Boot] \in InCall <=> pc[Boot] \in InCall
    /\ Length' = Length /\ ran' = ran

\* A job changes its status when its entry is marked, when an AP enters it and
\* when it returns.
LEMMA PostsFrame ==
    ASSUME EngineInv, IdleInv, [Next]_vars
    PROVE  \/ SamePosts
           \/ \E c \in CPU : StartPost(c)
           \/ \E c \in AP : RunFetch(c) \/ RunFinish(c)
<1>0. TypeOK /\ PosterInv
  BY DEF EngineInv
<1> USE <1>0, ConstantFacts
<1>a. ASSUME UNCHANGED <<ajob, astate, running, finished, starts>> PROVE SamePosts
  BY <1>a DEF SamePosts, Status
<1> USE DEF asyncVars, mailVars, postHist
<1>1. CASE UNCHANGED vars
  BY <1>1, <1>a DEF vars
<1>2. CASE (\E l \in Loops : CallInline(l) \/ Call(l)) \/ CallStep
  BY <1>2, <1>a DEF CallInline, Call, CallStep, CallLock, CallZero, CallDrain, CallFill,
     CallOpen, CallAnnounce, CallIpi, CallWait, CallReturn
<1>3. CASE PollState \/ \E j \in Posts : PollSeq(j)
  BY <1>3, <1>a DEF PollState, PollSeq
<1>4. ASSUME NEW c \in CPU, JoinStep(c) PROVE SamePosts
  BY <1>4, <1>a DEF JoinStep, JoinEnter, JoinCheck, JoinRead, Claim, RunItems, AddDone, JoinLeave
<1>5. ASSUME NEW c \in CPU, StartCall(c) \/ StartLock(c) \/ StartPick(c) \/ StartIpi(c)
                              \/ StartReturn(c)
      PROVE  SamePosts
  BY <1>5, <1>a DEF StartCall, StartLock, StartPick, StartIpi, StartReturn
<1>6. ASSUME NEW c \in CPU, StartFill(c) PROVE SamePosts
  <2>1. /\ UNCHANGED <<astate, running, finished, starts>> /\ pick[c] \in Entries
        /\ astate[pick[c]] \notin {1, 2}
        /\ \A i \in Entries : i # pick[c] => ajob'[i] = ajob[i]
    BY <1>6 DEF StartFill, At, PosterInv, Reusable, TypeOK, StartType, MailType
  <2>2. \A j : (InMail(j)' <=> InMail(j)) /\ (InHand(j)' <=> InHand(j))
    BY <2>1 DEF InMail, InHand
  <2> QED BY <2>1, <2>2, StatusCases DEF SamePosts
<1>7. ASSUME NEW c \in AP, ApLoad(c) \/ ApReady(c) \/ ApWake(c) \/ RunScan(c) PROVE SamePosts
  BY <1>7, <1>a DEF ApLoad, ApReady, ApWake, RunScan
<1>8. ASSUME NEW c \in AP, RunCas(c) PROVE SamePosts
  <2>1. /\ UNCHANGED <<ajob, running, finished, starts>>
        /\ \A i \in Entries : astate'[i] \in {1, 2} <=> astate[i] \in {1, 2}
    BY <1>8 DEF RunCas, CasWins, TypeOK, RunType, MailType
  <2>2. \A j : (InMail(j)' <=> InMail(j)) /\ (InHand(j)' <=> InHand(j))
    BY <2>1 DEF InMail, InHand
  <2> QED BY <2>1, <2>2, StatusCases DEF SamePosts
<1>9. ASSUME NEW c \in AP, ApFault(c) PROVE SamePosts
  BY <1>9, <1>a DEF ApFault
<1> QED
  BY <1>1, <1>2, <1>3, <1>4, <1>5, <1>6, <1>7, <1>8, <1>9
  DEF Next, Step, StartStep, WorkerStep

\* A job is pending from the store that marks its entry.
LEMMA PostAdvances ==
    ASSUME EngineInv, IdleInv, NEW c \in CPU, StartPost(c)
    PROVE  /\ UNCHANGED starts
           /\ \E j \in Posts : /\ Status(j) = "new" /\ Status(j)' = "pending"
                               /\ \A k \in Posts : k # j => Status(k)' = Status(k)
<1>0. TypeOK /\ PosterInv /\ MailInv
  BY DEF EngineInv
<1>1. /\ UNCHANGED <<ajob, running, finished, starts>> /\ pick[c] \in Entries
      /\ astate[pick[c]] \notin {1, 2} /\ ajob[pick[c]] = post[c]
      /\ astate'[pick[c]] = 1 /\ Fresh(post[c])
      /\ \A i \in Entries : i # pick[c] => astate'[i] = astate[i]
  BY <1>0 DEF StartPost, At, PosterInv, Posting, Reusable, TypeOK, StartType, MailType, postHist
<1> PICK j \in Posts : j = post[c]
  BY <1>1 DEF Fresh
<1>2. j \notin finished /\ ~InMail(j) /\ InMail(j)'
  BY <1>1 DEF Fresh, InMail
<1>3. ~InHand(j)
  <2> SUFFICES ASSUME NEW d \in AP, running[d] = j PROVE FALSE
    BY DEF InHand
  <2>1. running[d] # 0
    BY DEF Posts
  <2> QED BY <1>2, <2>1, Busy DEF InMail
<1>4. \A k : InHand(k)' <=> InHand(k)
  BY <1>1 DEF InHand
<1>5. \A k \in Posts : k # j => (InMail(k)' <=> InMail(k))
  BY <1>1 DEF InMail
<1>6. Status(j) = "new" /\ Status(j)' = "pending"
  BY <1>1, <1>2, <1>3, <1>4, StatusCases
<1>7. \A k \in Posts : k # j => Status(k)' = Status(k)
  BY <1>1, <1>4, <1>5, StatusCases
<1> QED BY <1>1, <1>6, <1>7

\* It is running from the moment one AP, and no other, has entered it, and
\* nobody has entered it before.
LEMMA FetchAdvances ==
    ASSUME EngineInv, IdleInv, NEW c \in AP, RunFetch(c)
    PROVE  \E j \in Posts : /\ Status(j) = "pending" /\ Status(j)' = "running"
                            /\ starts[j] = 0 /\ starts' = [starts EXCEPT ![j] = 1]
                            /\ \A k \in Posts : k # j => Status(k)' = Status(k)
<1>0. TypeOK /\ RunnerInv /\ MailInv
  BY DEF EngineInv
<1>1. /\ UNCHANGED <<ajob, astate, finished>> /\ scan[c] \in Entries /\ Loc(c) = "fetch"
      /\ starts' = [starts EXCEPT ![ajob[scan[c]]] = @ + 1]
      /\ running'[c] = ajob[scan[c]] /\ \A d \in AP : d # c => running'[d] = running[d]
  BY <1>0 DEF RunFetch, At, Loc, Starting, TypeOK, RunType, mailVars
<1>2. /\ Owns(c) /\ astate[scan[c]] = 2 /\ ajob[scan[c]] \in Posts
      /\ ajob[scan[c]] \notin finished /\ running[c] = 0
      /\ starts[ajob[scan[c]]] = 0
  BY <1>0, <1>1 DEF RunnerInv, MailInv, Owns, IdleInv
<1> PICK j \in Posts : j = ajob[scan[c]]
  BY <1>2
<1>3. j \notin finished /\ InMail(j) /\ ~InHand(j) /\ InHand(j)'
  BY <1>1, <1>2, Alone DEF InMail, InHand, Posts
<1>4. \A k \in Posts : k # j => (InHand(k)' <=> InHand(k))
  BY <1>1, <1>2 DEF InHand, Posts
<1>5. \A k : InMail(k)' <=> InMail(k)
  BY <1>1 DEF InMail
<1>6. Status(j) = "pending" /\ Status(j)' = "running"
  BY <1>3, StatusCases
<1>7. \A k \in Posts : k # j => Status(k)' = Status(k)
  BY <1>1, <1>4, <1>5, StatusCases
<1>8. starts[j] = 0 /\ starts' = [starts EXCEPT ![j] = 1]
  BY <1>1, <1>2
<1> QED BY <1>6, <1>7, <1>8

\* It is finished when that AP comes back from it.
LEMMA FinishAdvances ==
    ASSUME EngineInv, IdleInv, NEW c \in AP, RunFinish(c)
    PROVE  /\ UNCHANGED starts
           /\ \E j \in Posts : /\ Status(j) = "running" /\ Status(j)' = "finished"
                               /\ \A k \in Posts : k # j => Status(k)' = Status(k)
<1>0. TypeOK /\ RunnerInv /\ MailInv
  BY DEF EngineInv
<1>1. /\ UNCHANGED <<ajob, starts>> /\ scan[c] \in Entries /\ Loc(c) = "arun"
      /\ finished' = finished \cup {running[c]} /\ astate'[scan[c]] = 3
      /\ running'[c] = 0 /\ \A d \in AP : d # c => running'[d] = running[d]
      /\ \A i \in Entries : i # scan[c] => astate'[i] = astate[i]
  BY <1>0 DEF RunFinish, At, Loc, Starting, TypeOK, RunType, MailType
<1>2. /\ Owns(c) /\ running[c] = ajob[scan[c]] /\ ajob[scan[c]] \in Posts
  BY <1>0, <1>1 DEF RunnerInv, MailInv, Owns
<1> PICK j \in Posts : j = ajob[scan[c]]
  BY <1>2
<1>3. j \in finished' /\ InHand(j) /\ ~InHand(j)'
  BY <1>1, <1>2, Alone DEF InHand, Posts
<1>4. \A k \in Posts : k # j => (InHand(k)' <=> InHand(k))
  BY <1>1, <1>2 DEF InHand, Posts
<1>5. \A k \in Posts : k # j => (InMail(k)' <=> InMail(k))
  BY <1>1 DEF InMail
<1>6. Status(j) = "running" /\ Status(j)' = "finished"
  BY <1>3, StatusCases
<1>7. \A k \in Posts : k # j => Status(k)' = Status(k)
  BY <1>1, <1>2, <1>4, <1>5, StatusCases
<1> QED BY <1>1, <1>6, <1>7

\* smp_async_done answers 1 for a finished job only.
LEMMA TellsFinished ==
    ASSUME EngineInv, IdleInv, EngineInv', NEW j \in Posts, told' = told \cup {j}, UNCHANGED finished
    PROVE  Status(j) = "finished"
<1>1. j \in finished
  BY DEF EngineInv, HandleInv
<1>2. ~InHand(j)
  <2> SUFFICES ASSUME NEW d \in AP, running[d] = j PROVE FALSE
    BY DEF InHand
  <2>1. running[d] # 0
    BY DEF Posts
  <2> QED BY <1>1, <2>1, Busy
<1> QED BY <1>1, <1>2, StatusCases

\* A loop changes for its caller when it is called, when items run and when it
\* returns.
LEMMA LoopSide ==
    ASSUME EngineInv, ShapeInv, [Next]_vars
    PROVE  \/ SameLoop
           \/ \E l \in Loops : CallInline(l) \/ Call(l)
           \/ \E c \in CPU : RunItems(c)
           \/ CallReturn
<1>0. TypeOK /\ ControlInv
  BY DEF EngineInv
<1> USE <1>0, ConstantFacts
<1>1. CASE LoopQuiet
  BY <1>1 DEF LoopQuiet, SameLoop, Length
<1>3. ASSUME CallStep, ~CallReturn PROVE SameLoop
  <2>1. UNCHANGED <<mine, ran>> /\ pc[Boot] \in InCall
    BY <1>3, CallFacts
  <2>2. pc'[Boot] \in InCall
    BY <1>3 DEF CallStep, CallLock, CallZero, CallDrain, CallFill, CallOpen, CallAnnounce,
       CallIpi, CallWait, At, Goto, InCall, TypeOK
  <2> QED BY <2>1, <2>2 DEF SameLoop, Length
<1>4. ASSUME NEW c \in CPU, JoinStep(c), ~RunItems(c) PROVE SameLoop
  <2>1. mine'[Boot] = mine[Boot]
    BY <1>4, JoinStays
  <2>2. UNCHANGED ran
    BY <1>4 DEF JoinStep, JoinEnter, JoinCheck, JoinRead, Claim, AddDone, JoinLeave, loopHist, loopVars
  <2>3. pc'[Boot] \in InCall <=> pc[Boot] \in InCall
    BY <1>4, JoinFacts DEF InCall, Inside
  <2> QED BY <2>1, <2>2, <2>3 DEF SameLoop, Length
<1>5. ASSUME NEW c \in AP, ApLoad(c), smpGen # seen[c] PROVE SameLoop
  BY <1>5, LoadFacts DEF SameLoop, Length
<1> QED BY <1>1, <1>3, <1>4, <1>5, LoopFrame

\* The call opens a loop of its length with no item run.
LEMMA CallBegins ==
    ASSUME TypeOK, NEW l \in Loops, Call(l)
    PROVE  /\ pc[Boot] \notin InCall /\ pc'[Boot] \in InCall
           /\ Length' = LengthOf(l) /\ ran' = [k \in Items |-> 0]
  BY ConstantFacts DEF Call, At, Goto, Loop, TypeOK, JoinType, Length, InCall, Inside

\* A loop too short to share is run by its caller at once.
LEMMA InlineRuns ==
    ASSUME TypeOK, NEW l \in Loops, CallInline(l)
    PROVE  /\ pc[Boot] \notin InCall /\ UNCHANGED <<pc, mine>> /\ LengthOf(l) < 2
           /\ ran' = [k \in Items |-> IF k < LengthOf(l) THEN 1 ELSE 0]
<1>1. LengthOf(l) = l.n /\ l.n < 2
  BY SmpAssumption DEF CallInline, LengthOf
<1> QED BY <1>1 DEF CallInline, At, InCall, Inside, joinVars

\* A chunk that runs is made of items of the loop that have not run.
LEMMA ItemsRun ==
    ASSUME EngineInv, LoopInv, NEW c \in CPU, RunItems(c)
    PROVE  /\ pc[Boot] \in InCall /\ pc'[Boot] \in InCall /\ Length' = Length
           /\ \E S \in SUBSET {k \in Items : k < Length /\ ran[k] = 0} :
                ran' = [k \in Items |-> IF k \in S THEN ran[k] + 1 ELSE ran[k]]
<1>0. TypeOK /\ ControlInv /\ ShapeInv /\ ChunkInv /\ RanInv
  BY DEF EngineInv, LoopInv
<1> USE <1>0, ConstantFacts
<1>1. /\ pc[c] = "run" /\ Loc(c) = "run" /\ UNCHANGED mine
      /\ ran' = [k \in Items |-> IF Chunk(c, k) THEN ran[k] + 1 ELSE ran[k]]
  BY DEF RunItems, At, Loc, Starting, joinVars, Chunk
<1>2. Live(SlotOf(c)) /\ hi[c] <= job[SlotOf(c)].n
  BY <1>1 DEF ChunkInv, Working
<1>3. pc[Boot] \in Opened /\ job[SlotOf(c)] = mine[Boot]
  BY <1>2 DEF Live, ShapeInv
<1>4. pc[Boot] \in InCall /\ pc'[Boot] \in InCall
  BY <1>3 DEF RunItems, At, Goto, TypeOK, Opened, InCall, Inside
<1>5. \A k \in Items : k \in Nat /\ ran[k] \in Nat
  BY ItemsNat DEF TypeOK, HistType
<1>6. mine[Boot].n \in Nat /\ hi[c] \in Nat
  BY DEF TypeOK, JoinType, LoopType
<1> DEFINE S == {k \in Items : Chunk(c, k)}
<1>7. ASSUME NEW k \in S PROVE k < mine[Boot].n /\ ran[k] = 0
  BY <1>1, <1>2, <1>3, <1>5, <1>6 DEF RanInv, Chunk
<1>8. Length = mine[Boot].n /\ Length' = Length
  BY <1>1, <1>4 DEF Length
<1>9. S \in SUBSET {k \in Items : k < Length /\ ran[k] = 0}
  BY <1>7, <1>8
<1>10. ran' = [k \in Items |-> IF k \in S THEN ran[k] + 1 ELSE ran[k]]
  BY <1>1
<1> QED BY <1>4, <1>8, <1>9, <1>10

\* smp_parallel_for returns when every item has run once.
LEMMA ReturnsDone ==
    ASSUME TypeOK, RanInv, CallReturn
    PROVE  /\ pc[Boot] \in InCall /\ pc'[Boot] \notin InCall /\ Length' = 0 /\ ran' = ran
           /\ \A k \in Items : k < Length => ran[k] = 1
<1>1. pc[Boot] = "unlock" /\ pc'[Boot] = "idle" /\ ran' = ran
  BY ConstantFacts DEF CallReturn, At, Goto, TypeOK, loopHist
<1>2. \A k \in Items : k < mine[Boot].n => ran[k] = 1
  BY <1>1 DEF RanInv, ItemsRunOnce, At
<1> QED BY <1>1, <1>2 DEF Length, InCall, Inside

\* Only smp_async_done tells.
LEMMA ToldFrame ==
    ASSUME [Next]_vars
    PROVE  \/ UNCHANGED told
           \/ \E j \in Posts : PollSeq(j)
           \/ PollState
<1> USE DEF asyncVars, pollVars
<1>1. CASE UNCHANGED vars
  BY <1>1 DEF vars
<1>2. CASE (\E l \in Loops : CallInline(l) \/ Call(l)) \/ CallStep
  BY <1>2 DEF CallInline, Call, CallStep, CallLock, CallZero, CallDrain, CallFill,
     CallOpen, CallAnnounce, CallIpi, CallWait, CallReturn
<1>3. ASSUME NEW c \in CPU, JoinStep(c) PROVE UNCHANGED told
  BY <1>3 DEF JoinStep, JoinEnter, JoinCheck, JoinRead, Claim, RunItems, AddDone, JoinLeave
<1>4. ASSUME NEW c \in CPU, StartCall(c) \/ StartStep(c) PROVE UNCHANGED told
  BY <1>4 DEF StartStep, StartCall, StartLock, StartPick, StartFill, StartPost, StartIpi, StartReturn
<1>5. ASSUME NEW c \in AP, WorkerStep(c) PROVE UNCHANGED told
  BY <1>5 DEF WorkerStep, ApLoad, ApReady, ApWake, RunScan, RunCas, RunFetch, RunFinish
<1>6. ASSUME NEW c \in AP, ApFault(c) PROVE UNCHANGED told
  BY <1>6 DEF ApFault
<1> QED BY <1>1, <1>2, <1>3, <1>4, <1>5, <1>6 DEF Next, Step

\* The loops, the posted jobs and the polls change in different steps.
LEMMA OneAtATime ==
    ASSUME TypeOK, ControlInv
    PROVE  /\ \A l \in Loops : CallInline(l) \/ Call(l) => SamePosts /\ UNCHANGED told
           /\ \A c \in CPU : RunItems(c) => SamePosts /\ UNCHANGED told
           /\ CallReturn => SamePosts /\ UNCHANGED told
           /\ \A c \in CPU : StartPost(c) => SameLoop /\ UNCHANGED told
           /\ \A c \in AP : RunFetch(c) \/ RunFinish(c) => SameLoop /\ UNCHANGED told
           /\ \A j \in Posts : PollSeq(j) => SameLoop /\ SamePosts /\ UNCHANGED finished
           /\ PollState => SameLoop /\ SamePosts /\ UNCHANGED finished
<1> USE ConstantFacts
<1>a. ASSUME UNCHANGED <<ajob, astate, running, finished, starts>> PROVE SamePosts
  BY <1>a DEF SamePosts, Status
<1>b. ASSUME UNCHANGED <<mine, ran>>, pc'[Boot] \in InCall <=> pc[Boot] \in InCall PROVE SameLoop
  BY <1>b DEF SameLoop, Length
<1> USE DEF asyncVars, mailVars, postHist, pollVars
<1>1. ASSUME NEW l \in Loops, CallInline(l) \/ Call(l) PROVE SamePosts /\ UNCHANGED told
  BY <1>1, <1>a DEF CallInline, Call
<1>2. ASSUME NEW c \in CPU, RunItems(c) PROVE SamePosts /\ UNCHANGED told
  BY <1>2, <1>a DEF RunItems
<1>3. ASSUME CallReturn PROVE SamePosts /\ UNCHANGED told
  BY <1>3, <1>a DEF CallReturn
<1> USE DEF loopVars, joinVars, loopHist, At, Goto, InCall, Inside
<1>4. ASSUME NEW c \in CPU, StartPost(c) PROVE SameLoop /\ UNCHANGED told
  BY <1>4, <1>b DEF StartPost, TypeOK
<1>5. ASSUME NEW c \in AP, RunFetch(c) \/ RunFinish(c) PROVE SameLoop /\ UNCHANGED told
  BY <1>5, <1>b DEF RunFetch, RunFinish, NextEntry, TypeOK
<1>6. ASSUME NEW j \in Posts, PollSeq(j) PROVE SameLoop /\ SamePosts /\ UNCHANGED finished
  BY <1>6, <1>a, <1>b DEF PollSeq, TypeOK
<1>7. ASSUME PollState PROVE SameLoop /\ SamePosts /\ UNCHANGED finished
  BY <1>7, <1>a, <1>b DEF PollState, TypeOK
<1> QED BY <1>1, <1>2, <1>3, <1>4, <1>5, <1>6, <1>7

\* Every step of every CPU is a step of the contract or invisible.
LEMMA ContractStep ==
    ASSUME EngineInv, EngineInv', LoopInv, [Next]_vars
    PROVE  [Contract!Next]_(Contract!vars)
<1> DEFINE st == [j \in Posts |-> Status(j)]
<1>0. TypeOK /\ ControlInv /\ ShapeInv /\ RanInv /\ IdleInv /\ HandleInv
  BY DEF EngineInv, LoopInv
<1> USE <1>0 DEF Contract!loopVars, Contract!postVars
<1>a. ASSUME SamePosts PROVE st' = st /\ starts' = starts
  BY <1>a DEF SamePosts
<1>b. ASSUME SameLoop
      PROVE  Length' = Length /\ ran' = ran /\ (pc[Boot] \in InCall)' = (pc[Boot] \in InCall)
  BY <1>b DEF SameLoop
<1>c. ASSUME NEW j \in Posts, NEW x, Status(j)' = x,
             \A k \in Posts : k # j => Status(k)' = Status(k)
      PROVE  st' = [st EXCEPT ![j] = x]
  BY <1>c
<1>1. ASSUME NEW l \in Loops, Call(l) PROVE Contract!Next
  <2>1. st' = st /\ starts' = starts /\ UNCHANGED told
    BY <1>1, <1>a, OneAtATime
  <2>2. /\ ~(pc[Boot] \in InCall) /\ (pc[Boot] \in InCall)' = TRUE
        /\ Length' = LengthOf(l) /\ ran' = [k \in Items |-> 0]
    BY <1>1, CallBegins
  <2>3. Contract!Begin(LengthOf(l))
    BY <2>1, <2>2, LoopsFitItems DEF Contract!Begin
  <2> QED BY <2>3 DEF Contract!Next
<1>2. ASSUME NEW l \in Loops, CallInline(l) PROVE Contract!Next
  <2>1. st' = st /\ starts' = starts /\ UNCHANGED told
    BY <1>2, <1>a, OneAtATime
  <2>2. /\ pc[Boot] \notin InCall /\ UNCHANGED <<pc, mine>> /\ LengthOf(l) < 2
        /\ ran' = [k \in Items |-> IF k < LengthOf(l) THEN 1 ELSE 0]
    BY <1>2, InlineRuns
  <2>3. Length' = Length /\ (pc[Boot] \in InCall)' = (pc[Boot] \in InCall)
    BY <2>2 DEF Length
  <2>4. Contract!Inline(LengthOf(l))
    BY <2>1, <2>2, <2>3, LoopsFitItems DEF Contract!Inline
  <2> QED BY <2>4 DEF Contract!Next
<1>3. ASSUME NEW c \in CPU, RunItems(c) PROVE Contract!Next
  <2>1. st' = st /\ starts' = starts /\ UNCHANGED told
    BY <1>3, <1>a, OneAtATime
  <2>2. /\ pc[Boot] \in InCall /\ (pc[Boot] \in InCall)' = (pc[Boot] \in InCall)
        /\ Length' = Length
    BY <1>3, ItemsRun
  <2>3. PICK S \in SUBSET {k \in Items : k < Length /\ ran[k] = 0} :
               ran' = [k \in Items |-> IF k \in S THEN ran[k] + 1 ELSE ran[k]]
    BY <1>3, ItemsRun
  <2>4. Contract!Run(S)
    BY <2>1, <2>2, <2>3 DEF Contract!Run
  <2> QED BY <2>3, <2>4 DEF Contract!Next, Contract!Todo
<1>4. ASSUME CallReturn PROVE Contract!Next
  <2>1. st' = st /\ starts' = starts /\ UNCHANGED told
    BY <1>4, <1>a, OneAtATime
  <2>2. /\ pc[Boot] \in InCall /\ (pc[Boot] \in InCall)' = FALSE
        /\ Length' = 0 /\ ran' = ran /\ \A k \in Items : k < Length => ran[k] = 1
    BY <1>4, ReturnsDone
  <2>3. Contract!Return
    BY <2>1, <2>2 DEF Contract!Return
  <2> QED BY <2>3 DEF Contract!Next
<1>5. ASSUME NEW j \in Posts, NEW x, NEW y, Status(j) = x, Status(j)' = y,
             \A k \in Posts : k # j => Status(k)' = Status(k),
             SameLoop, UNCHANGED told
      PROVE  Contract!Advance(j, x, y)
  <2>1. st[j] = x /\ st' = [st EXCEPT ![j] = y]
    BY <1>5, <1>c
  <2>2. /\ Length' = Length /\ ran' = ran /\ UNCHANGED told
        /\ (pc[Boot] \in InCall)' = (pc[Boot] \in InCall)
    BY <1>5, <1>b
  <2> QED BY <2>1, <2>2 DEF Contract!Advance
<1>6. ASSUME NEW c \in CPU, StartPost(c) PROVE Contract!Next
  <2>1. \E j \in Posts : Contract!Advance(j, "new", "pending")
    BY <1>5, <1>6, PostAdvances, OneAtATime
  <2>2. UNCHANGED starts
    BY <1>6, PostAdvances
  <2> QED BY <2>1, <2>2 DEF Contract!Next, Contract!Accept
<1>7. ASSUME NEW c \in AP, RunFetch(c) PROVE Contract!Next
  <2>1. PICK j \in Posts : /\ Status(j) = "pending" /\ Status(j)' = "running"
                           /\ starts[j] = 0 /\ starts' = [starts EXCEPT ![j] = 1]
                           /\ \A k \in Posts : k # j => Status(k)' = Status(k)
    BY <1>7, FetchAdvances
  <2>2. Contract!Advance(j, "pending", "running")
    BY <1>5, <1>7, <2>1, OneAtATime
  <2>3. Contract!Enter(j)
    BY <2>1, <2>2 DEF Contract!Enter
  <2> QED BY <2>3 DEF Contract!Next
<1>8. ASSUME NEW c \in AP, RunFinish(c) PROVE Contract!Next
  <2>1. \E j \in Posts : Contract!Advance(j, "running", "finished")
    BY <1>5, <1>8, FinishAdvances, OneAtATime
  <2>2. UNCHANGED starts
    BY <1>8, FinishAdvances
  <2> QED BY <2>1, <2>2 DEF Contract!Next, Contract!Finish
<1>9. ASSUME SameLoop, SamePosts, UNCHANGED told PROVE UNCHANGED Contract!vars
  BY <1>9, <1>a, <1>b DEF Contract!vars
<1>10. ASSUME NEW j \in Posts, SameLoop, SamePosts, UNCHANGED finished, told' = told \cup {j}
       PROVE  Contract!Next
  <2>1. st[j] = "finished" /\ st' = st /\ starts' = starts
    BY <1>10, <1>a, TellsFinished
  <2>2. Length' = Length /\ ran' = ran /\ (pc[Boot] \in InCall)' = (pc[Boot] \in InCall)
    BY <1>10, <1>b
  <2>3. Contract!Tell(j)
    BY <1>10, <2>1, <2>2 DEF Contract!Tell
  <2> QED BY <2>3 DEF Contract!Next
<1>11. ASSUME (\E j \in Posts : PollSeq(j)) \/ PollState PROVE [Contract!Next]_(Contract!vars)
  <2>1. SameLoop /\ SamePosts /\ UNCHANGED finished
    BY <1>11, OneAtATime
  <2>2. told' = told \/ \E j \in Posts : told' = told \cup {j}
    BY <1>11 DEF PollSeq, PollState, At, HandleInv
  <2> QED BY <2>1, <2>2, <1>9, <1>10
<1> QED
  BY <1>1, <1>2, <1>3, <1>4, <1>6, <1>7, <1>8, <1>9, <1>11, LoopSide, PostsFrame, ToldFrame

\* The engine starts with no loop open and no job posted.
LEMMA ContractInit == Init => Contract!Init
<1> SUFFICES ASSUME Init PROVE Contract!Init
  OBVIOUS
<1>1. pc[Boot] \notin InCall /\ Length = 0 /\ told = {}
  BY ConstantFacts DEF Init, Length, InCall, Inside
<1>2. ASSUME NEW j \in Posts PROVE Status(j) = "new"
  <2>1. ~InHand(j) /\ ~InMail(j) /\ j \notin finished
    BY DEF Init, InHand, InMail, Posts
  <2> QED BY <2>1, StatusCases
<1>3. [j \in Posts |-> Status(j)] = [j \in Posts |-> "new"]
  BY <1>2
<1>4. ran = [k \in Items |-> 0] /\ starts = [j \in Posts |-> 0]
  BY DEF Init
<1> QED BY <1>1, <1>3, <1>4 DEF Contract!Init

\* For any number of CPUs, slots and mailbox entries, with CPUs that fault and
\* items that post, the engine implements smp.h: a loop runs each of its items
\* once, none outside its call, and returns when all are done; a posted job goes
\* pending, running, finished and is entered once; and smp_async_done tells of
\* finished jobs only.
THEOREM EngineKeepsContract == NoWrap => (Spec => KeepsContract)
<1> SUFFICES ASSUME NoWrap PROVE Spec => KeepsContract
  OBVIOUS
<1>1. EngineInv /\ EngineInv' /\ LoopInv /\ [Next]_vars => [Contract!Next]_(Contract!vars)
  BY ContractStep
<1>2. Spec => []EngineInv /\ []LoopInv
  BY EngineInvariance, LoopInvariance
<1> QED BY ContractInit, <1>1, <1>2, PTL DEF Spec, KeepsContract, Contract!Spec
====
