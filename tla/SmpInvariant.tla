---------------------------- MODULE SmpInvariant ----------------------------
(* The inductive invariant of the job engine, in named parts.              *)
EXTENDS Smp

\* Where a CPU is in job_join or async_run, also while it is inside
\* smp_async_start or parked by an exception
Loc(c) == IF pc[c] \in Starting \cup {"dead"} THEN ret[c] ELSE pc[c]

Within(s) == {c \in CPU : Loc(c) \in Inside /\ SlotOf(c) = s}

BootPcs == {"idle", "poll"} \cup InCall \cup Starting
ApPcs == {"load", "ready", "hlt", "scan", "cas", "fetch", "arun", "dead",
          "join"} \cup Inside \cup Starting
Announced == {"ipi", "join", "wait"} \cup Inside
Published == {"zero", "drain", "fill", "open", "announce", "unlock"}
               \cup Announced
HasLock == {"pick", "pfill", "ppost", "pipi", "punlock"}

\* Each CPU stays in its own code, and pub_lock has at most one holder.
ControlInv ==
    /\ pc[Boot] \in BootPcs /\ \A c \in AP : pc[c] \in ApPcs
    /\ pc[Boot] \in Starting => ret[Boot] = "idle"
    /\ \A c \in AP : pc[c] \in Starting \cup {"dead"} => ret[c] \in {"run", "arun"}
    /\ bspInJob <=> pc[Boot] \in Announced
    /\ pc[Boot] \in Published => pubLock = Boot
    /\ \A c \in CPU : pc[c] \in HasLock => pubLock = c

\* The active counter of a slot counts the CPUs inside it.
ActiveInv == \A s \in Slots : active[s] = Cardinality(Within(s))

\* A slot is zeroed before it is drained and has no CPU past its generation
\* check while it is refilled.
JoinInv ==
    /\ \A c \in CPU : Loc(c) \in {"join"} \cup Inside => g[c] # 0
    /\ pc[Boot] \in Published => g[Boot] # 0
    /\ smpGen = 0 => \A c \in AP : seen[c] = 0
    /\ pc[Boot] \in {"drain", "fill", "open"} => gen[SlotOf(Boot)] = 0
    /\ pc[Boot] \in {"fill", "open"} =>
         \A c \in AP : Loc(c) \in Checked => SlotOf(c) # SlotOf(Boot)
    /\ \A c \in CPU : Loc(c) \in {"run", "add"} => lo[c] <= hi[c]

\* Job j, handed to the mailbox entry idx under the number seq, is finished or
\* still in that entry
Settled(j, seq, idx) ==
    \/ j \in finished
    \/ aseq[idx] = seq /\ ajob[idx] = j /\ astate[idx] \in {1, 2}

\* A job on its way into the mailbox: not entered, in no entry
Fresh(j) ==
    /\ j \in Posts /\ j <= posts /\ starts[j] = 0 /\ j \notin finished
    /\ \A i \in Entries : astate[i] \in {1, 2} => ajob[i] # j

MailInv ==
    /\ \A j \in Posts : starts[j] <= 1
    /\ \A j \in Posts : j > posts => starts[j] = 0
    /\ \A j \in finished : j <= posts
    /\ \A i \in Entries : ajob[i] <= posts
    /\ \A i \in Entries : astate[i] = 1 => starts[ajob[i]] = 0
    /\ \A i \in Entries : astate[i] \in {1, 2} =>
         ajob[i] \in Posts /\ ajob[i] \notin finished
    /\ \A i, k \in Entries :
         i # k /\ astate[i] \in {1, 2} /\ astate[k] \in {1, 2}
           => ajob[i] # ajob[k]

\* An AP that won the compare-and-swap owns its entry until it is done.
Owns(c) == Loc(c) \in {"fetch", "arun"}

RunnerInv ==
    /\ \A c \in AP : Owns(c) => astate[scan[c]] = 2
    /\ \A c \in AP : Loc(c) = "fetch" => starts[ajob[scan[c]]] = 0
    /\ \A c \in AP : Loc(c) = "arun" => running[c] = ajob[scan[c]]
    /\ \A c, d \in AP : c # d /\ Owns(c) /\ Owns(d) => scan[c] # scan[d]

Posting == {"plock", "pick", "pfill", "ppost"}

PosterInv ==
    /\ \A c \in CPU : pc[c] \in Posting => Fresh(post[c])
    /\ \A c \in CPU : pc[c] \in {"pipi", "punlock"} =>
         post[c] <= posts /\ (At(c, "pipi") => post[c] # 0)
    /\ \A c, d \in CPU : c # d /\ pc[c] \in Starting /\ pc[d] \in Starting
                           => post[c] # post[d] \/ post[c] = 0
    /\ \A c \in CPU : pc[c] \in {"pfill", "ppost"} => Reusable(pick[c])
    /\ \A c \in CPU : At(c, "ppost") =>
         ajob[pick[c]] = post[c] /\ aseq[pick[c]] = asyncSeq
    /\ \A c \in CPU : pc[c] \in {"pipi", "punlock"} /\ post[c] # 0 =>
         Settled(post[c], asyncSeq, pick[c])

HandleInv ==
    /\ \A j \in Posts : handle[j] # NoHandle =>
         j <= posts /\ Settled(j, handle[j].seq, handle[j].idx)
    /\ At(Boot, "poll") => polling \in Posts /\ handle[polling] # NoHandle
    /\ told \subseteq finished

\* An AP on its way to sleep, or asleep, without a pending interrupt: a newer
\* loop, or a job in an entry it has already looked at, is still to be announced.
WakeInv ==
    \A c \in AP : ~ipi[c] =>
        /\ pc[c] \in {"ready", "hlt"} /\ smpGen # seen[c] => At(Boot, "ipi")
        /\ \A i \in Entries :
              astate[i] = 1 /\ (At(c, "hlt") \/ (At(c, "ready") /\ i < scan[c]))
                  => \E d \in CPU : At(d, "pipi") /\ pick[d] = i

EngineInv ==
    /\ TypeOK /\ ControlInv /\ ActiveInv /\ JoinInv /\ MailInv /\ RunnerInv
    /\ PosterInv /\ HandleInv /\ WakeInv

-----------------------------------------------------------------------------
(* The loops: a second invariant on top of EngineInv                       *)

\* A CPU takes one chunk past the end each time it joins a loop.  An AP joins
\* at most twice, once by a stale generation number before the loop is
\* announced; then the cursor does not come round to items already handed out.
NoWrap ==
    \A l \in Loops : LengthOf(l) + GrainOf(l) * (2 * Cardinality(CPU)) <= W

Shaped(j) ==
    /\ j.n + j.grain * (2 * Cardinality(CPU)) <= W
    /\ j.n > 0 => j.grain > 0

Opened == {"announce", "ipi", "join", "wait"} \cup Inside
Filling == {"lock", "zero", "drain", "fill", "open"}
Live(s) == pc[Boot] \in Opened /\ s = SlotOf(Boot)
Working(c) == Loc(c) \in {"run", "add"}
Chunk(c, k) == lo[c] <= k /\ k < hi[c]

\* Whoever has read a slot has the job that is in it.
ShapeInv ==
    /\ \A s \in Slots : Shaped(job[s])
    /\ pc[Boot] \in InCall => mine[Boot].id = calls /\ Shaped(mine[Boot])
    /\ pc[Boot] \in Opened \cup {"open"} => job[SlotOf(Boot)] = mine[Boot]
    /\ \A c \in CPU : Loc(c) \in {"claim", "run", "add"} =>
         mine[c] = job[SlotOf(c)]

GenInv ==
    /\ \A s \in Slots : gen[s] # 0 => gen[s] % NSLOT = s
    /\ pc[Boot] \in Opened => gen[SlotOf(Boot)] = g[Boot]

\* A loop that is over has no items left, and the chunks of one that is not
\* are apart.
ChunkInv ==
    /\ \A s \in Slots : ~Live(s) /\ ~(At(Boot, "open") /\ s = SlotOf(Boot)) =>
         next[s] >= job[s].n
    /\ At(Boot, "open") => next[SlotOf(Boot)] = 0 /\ done[SlotOf(Boot)] = 0
    /\ \A c \in CPU : Working(c) =>
         /\ Live(SlotOf(c)) /\ lo[c] < hi[c]
         /\ hi[c] <= job[SlotOf(c)].n /\ hi[c] <= next[SlotOf(c)]
    /\ \A c, d \in CPU : c # d /\ Working(c) /\ Working(d) =>
         hi[c] <= lo[d] \/ hi[d] <= lo[c]

\* The items handed out of the open loop, and those of them that are done
Handed == {k \in 0 .. mine[Boot].n - 1 : k < next[SlotOf(Boot)]}
Finished == {k \in Handed : \A c \in CPU : Working(c) => ~Chunk(c, k)}

RanInv ==
    /\ pc[Boot] \in Filling => \A k \in Items : ran[k] = 0
    /\ pc[Boot] \in Opened => \A k \in Items : ran[k] =
         IF k \in Handed /\ \A c \in CPU : Loc(c) = "run" => ~Chunk(c, k)
           THEN 1 ELSE 0
    /\ ItemsRunOnce

DoneInv == pc[Boot] \in Opened => done[SlotOf(Boot)] = Cardinality(Finished)

\* The CPUs that may still take a chunk past the end of the loop in slot s:
\* those on their way into it, and those that may come yet
Joining(s) ==
    {c \in CPU : /\ SlotOf(c) = s
                 /\ \/ Loc(c) \in Checked
                    \/ /\ Loc(c) \in {"announce", "ipi", "join", "check"}
                       /\ g[c] = gen[s]}
Coming(s) ==
    IF smpGen = gen[s] THEN {c \in AP : seen[c] # gen[s]}
    ELSE IF At(Boot, "announce") /\ s = SlotOf(Boot) THEN AP ELSE {}

Overshoots(s) == Cardinality(Joining(s)) + Cardinality(Coming(s))
CursorInv == \A s \in Slots : next[s] + job[s].grain * Overshoots(s) < W

\* An AP has a job of the mailbox in hand only while it runs it.
IdleInv == \A c \in AP : Loc(c) # "arun" => running[c] = 0

LoopInv ==
    /\ ShapeInv /\ GenInv /\ ChunkInv /\ RanInv /\ DoneInv /\ CursorInv
    /\ IdleInv
=============================================================================
