# KAnarchy OS: TLA+ models, checks and proofs

KAnarchy OS (okernel) is a desktop operating system in C with its own kernel,
network stack, browser, JavaScript engine and media decoders. This directory
holds TLA+ models of the parts whose correctness depends on the order of
events: the multiprocessor job engine, the start-up of the other CPUs, the
persistent file system, the native processes with their descriptors and pipes,
a TCP connection, the fetch engine with HTTP/2, and the parallel collector of
the JavaScript engine. TLC checks the models on small instances; TLAPS proves
the safety properties of all of these parts for all instances, and that the job
engine implements the contract of its header.

Paths below are relative to the repository root's `src/` directory, so `smp.c`
is `src/src/smp.c` in `PROJECT.json`. `PROJECT.json` maps each definition to
the lines it models.

- `tlc -config Smp.cfg MCSmp` runs a check (module and cfg of each run are
  in the table under *Runs*).
- `tlapm SmpProofs.tla` checks the proofs about `Smp`; likewise
  `SmpBootProofs`, `PfsProofs`, `ProcProofs`, `FdsProofs`, `TcpProofs`,
  `FetchProofs` and `GcMarkProofs`.

## 1. Inventory

### Parts with state of their own that several actors change

| Part | State | Operations | Who interacts | What is hard |
|---|---|---|---|---|
| Job engine (`smp.c`) | 16 broadcast slots, 8 mailbox entries, generation and sequence counters, `pub_lock` | `smp_parallel_for`, `job_join`, `smp_async_start`, `smp_async_done`, `ap_worker`, `smp_fault_hook` | boot CPU, up to 31 APs, wake-up interrupts; used by the web painter, ojs marking, the media engine | lock-free recycling of slots, lost wake-ups, counters that wrap, deadlock on `pub_lock`, an AP that dies inside a job |
| AP start-up (`smp.c`, `boot/ap_tramp.asm`) | `cpus[]`, the shared trampoline page, `start_idx` | `smp_init`, `start_ap`, `smp_ap_entry`, `smp_stop_others` | boot CPU and each AP | an AP that is dead, slow or without a stack; a 500 ms time limit |
| VFS and PFS (`filesystem.c`, `pfs.c`) | 16 RAM files; superblock with bitmap, 16 table sectors, data sectors | create, write, append, delete; format, mount, hydrate | kernel, disk | power loss between two sector writes, failed writes, full table or disk |
| Recovery system (`recovery.c`) | the same disk | `fsck fix`, `rm` | operator, disk | repairs what a crash left, may itself be interrupted |
| Native processes (`process.c`, `sched.c`, `sys_proc.c`, `syscall.c`, `idt.c`, `desktop.c`) | 16 process slots, a queue of 4 ring-3 entries, armed parks, staged resumes, keyboard lines | run, fork, wait, exit, yield, read, kill, tick, drain | main loop, programs, timer, keyboard | the tick between any two steps; parks and wakes; exits in an order nobody planned |
| Descriptors and pipes (`sys_proc.c`, `process.c`) | fd tables, 64 descriptions with reference counts, 16 pipes | open, close, dup, pipe, read, write, inheritance | processes | shared descriptions, tables at their limits, a pipe reused |
| TCP (`net/network.c`) | 16 sockets: sequence numbers, retransmission buffer, receive ring, reorder slots, timers | open, send, receive, close, abort, segment handler, `tcp_poll` | main loop, owner, peer | loss, repetition, reordering, wrap, shut windows, timers |
| Fetch engine, cache, HTTP/2 (`net/fetch.c`, `fcache.c`, `h2.c`) | request slots, connection pool, sessions with streams, what is known of an origin, cached answers | begin, prefetch, adopt, poll, end | browser, TCP, TLS, servers | late answers to cancelled requests, a session lost under its streams, retries, limits |
| ojs collector (`ojs/gc.c`, `b_map.c`) | mark bits, mark stacks, a pool of chunks, idle and started counters, weak tables, registries | collect, share, take, rescan, clear, sweep | script, APs through the job engine | races for marks, termination, stacks that cannot grow |
| Heap and pages (`memory.c`, `paging.c`) | free lists, page bitmap | allocate, free, split, coalesce | all of the kernel | exhaustion, double free |
| TLS | handshake state | records in, records out | TCP, fetch | order of messages |
| Media engine (`meng.c`) | tile pool, frame queue | decode, present | boot CPU, APs | a user of `smp_async_start` |
| Linux subsystem (`lx*.c`) | tasks, futexes, pipes, epoll, signals | system calls | tasks, timer | blocking and waking |
| Windows, focus, input | z-order, key queue | open, close, raise, key, click | interrupts, main loop | key queue between IRQ and main loop |

The properties that make the first nine correct are the ones of section 3. For
the others they are named with the plan in section 6. Parsers, layout, codecs,
cryptographic primitives, drawing and device set-up are sequential data
processing, which the repository tests against vectors and pages. `PROJECT.json`
lists all of these as components with the reason, and 40 hazards, each at its
line, with the properties that cover it.

## 2. Modules

| Module | Models | In terms of the code |
|---|---|---|
| `Smp` | job engine | one variable per field of `struct job` and `struct aent`, one action per access to memory that another CPU may touch; `pc[c]` says where CPU `c` is in `smp_parallel_for`, `job_join`, `smp_async_start`, `smp_async_done` or `ap_worker` |
| `SmpContract` | what `smp.h` promises | loops begin, run each item and return; posts advance from accepted to finished; polls tell |
| `SmpRefines` | the mapping | `KeepsContract`: `Smp` implements `SmpContract` |
| `SmpInvariant`, `SmpProofs` | proofs about `Smp` | the inductive invariant in named parts, and the theorems |
| `MCSmp` | instances of `Smp` | loop shapes (single item, default grain, a loop cut to `NMax`) and the symmetry of the APs |
| `SmpBoot` | AP start-up | the boot CPU's loop over the ACPI table against each AP's trampoline and entry |
| `SmpBootProofs` | proofs about `SmpBoot` | its inductive invariant and the theorem |
| `Pfs`, `MCPfs` | VFS, PFS, fsck and rm | one action per sector written; `cur` holds the locals of the operation under way |
| `PfsProofs` | proofs about `Pfs` | the theorems; the inductive invariant stands at the end of `Pfs` |
| `Proc`, `MCProc` | native processes | one action per pass of the main loop, system call (interrupts are off) and tick |
| `ProcProofs` | proofs about `Proc` | the theorems; the inductive invariant stands at the end of `Proc` |
| `Fds`, `MCFds` | descriptors and pipes | one action per system call and per event in a process's life |
| `FdsProofs` | proofs about `Fds` | the same |
| `Tcp` | one TCP socket, its peer and the network | `c` is `struct tcp_sock`; a received segment, a poll and a call of the owner are one step each; `wire` and `peer` are what has been sent either way |
| `TcpInvariant`, `TcpProofs` | proofs about `Tcp` | the inductive invariant in named parts, and the theorems; `Sound` says of a socket in the midst of a step what the invariant says between steps |
| `Fetch`, `MCFetch` | slots, connections, sessions, cache | `f` holds the tables; calls of owners come between two polls, a poll first assigns (`PollStarts`) and then steps each connection |
| `FetchProofs` | proofs about `Fetch` | the theorems; the inductive invariant stands at the end of `Fetch` |
| `GcMark`, `MCGcMark` | a collection | `stage` is where `gc_collect` stands, `pc[w]` where worker `w` is in `par_worker`; a section under `P->lock` is one step, an unlocked look at a mark bit, at `np` or at `done` a step of its own |
| `GcMarkInvariant`, `GcMarkProofs` | proofs about `GcMark` | the inductive invariant in named parts, and the theorems |

`SmpRefines` composes `Smp` with its contract. The models of the kernel's other
parts share no variables: `Smp` needs from `SmpBoot` a set of APs with distinct
indices and stacks, which is what `SmpBoot` checks; `Fds` takes from `Proc` only
the life of a process (spawn, fork, exit, destruction). `GcMark` takes from the
job engine what `SmpContract` promises: each worker is run once, some of them
late or one after the other, and the call returns when all have. `Fetch` takes
from TCP a connection that opens or not, delivers in order, and ends.

### Decisions that matter when reading them

- **Memory order.** Accesses are taken in program order. The code runs on x86
  and places a locked instruction or `mb()` between accesses whose order
  matters; what x86 could still reorder (a store with a later load) is always
  separated by one.
- **Interrupts.** `ipi[c]` is the wake-up pending on CPU `c`. The AP looks for
  work with interrupts off and `sti; hlt` enables and sleeps in one step.
- **Words.** Generations wrap at `GenMod` and skip 0, sequence numbers wrap at
  `SeqMod`, the cursor and the done counter at `W`.
- **Names of jobs.** `fn` and `ctx` become the number of the call, so that a job
  put together from fields of two jobs would be visible.
- **Disk.** A sector write happens, fails or never happens; a sector records for
  which name, operation and position it was written. Hydration is modelled as
  it is in the code: each file is read into RAM *and written back*.
- **Trap order.** `isr_handler` consumes an armed park before it dispatches the
  call, so the call after a park is swallowed; `Park` is that step.
- **Network.** What the peer has ever sent may arrive at any time, any number of
  times and cut at any byte. A byte is the number of its place in the stream.
- **Clocks.** `Tcp` and `Fetch` leave time open: at any poll a timer may have run
  out. The liveness runs assume that it does in the end.
- **Answers.** A response is the set of requests its bytes answer, so a byte of an
  earlier user of the slot, the connection or the stream number is visible. What
  is left to read on a kept connection stays there when the next request gets it,
  as in the code. `Sloppy` are the origins whose servers send bytes nobody asked
  for; only theirs are there to be found.
- **Mark stacks** are sets: which entry is popped or shared first is left open. A
  push or the taking of a chunk may fail `MaxFail` times. The collector's heap
  does not change during a collection, as in the code.
- **Histories.** `calls`, `ran`, `posts`, `starts`, `finished` (Smp), `kept`,
  `dirty` (Pfs), `arrived` (Proc) and `flow` (Fds) exist for the properties. No
  guard of a modelled operation reads them, apart from bounds and names: in
  Smp the counters name the next job, and in Pfs `dirty` decides whether the
  operator starts the recovery system.

## 3. Runs

Each listed run answers one question. "Distinct states" are rounded.

| Run | cfg, module | Properties | Instance |
|---|---|---|---|
| `smp` | `Smp`, `MCSmp` | `LoopIsLive NoTornJob PostRunsOnce DoneIsSound NoLostWakeup EngineInv` | 2 APs that may fault, 1 slot, 1 entry, 3 loops, 2 posts; 2.1 M states |
| `smp_live` | `SmpLive`, `MCSmp` | `KeepsContract CallReturns PostsFinish` | 2 APs, 1 slot, 1 entry, 2 loops, 1 post; 250 K states |
| `smp_boot` | `SmpBoot`, `SmpBoot` | `ApsApart BootEnds` | 4 APs, room for 3 |
| `pfs_repair` | `PfsRepair`, `MCPfs` | `Durable NoForeignData DiskConsistent` | 3 names, 2 files, 4 sectors, 4 operations, 2 crashes, 1 failed write or read; 4.1 M states |
| `pfs_power_loss` | `PfsPowerLoss`, `MCPfs` | `Durable` is violated | a normal boot after a crash |
| `proc_table` | `ProcTable`, `MCProc` | `OneRunner QueueIsFresh ParksMatch NoResurrection` | 3 user slots, 4 processes, 2 terminals, 3 lines, all calls; 820 K states |
| `fds_table` | `FdsTable`, `MCFds` | `NoDanglingFd PipeEndsCounted PipeIsFifo` | 2 slots, 3 processes, 3 descriptions, 1 pipe of 2 bytes; 1.7 M states |
| `tcp` | `Tcp`, `Tcp` | `StreamIntact FinInPlace WindowKept WindowReopens` | 3 bytes in and 1 out, ring of 2, 1 reorder slot, both sequence spaces wrap, the next hop may be forgotten; 380 K states, 17 M steps |
| `tcp_send` | `TcpSend`, `Tcp` | `SentInPlace NothingForgotten CloseReleases SendResolves` | 1 byte in, 2 out; 50 K states |
| `fetch` | `Fetch`, `MCFetch` | `OwnAnswer LinksAgree SentTwiceAtMost HandlesKept` | 2 slots, 2 connections, 2 streams, 2 origins, one of them sloppy, 2 requests; 1.5 M states |
| `fetch_live` | `FetchLive`, `MCFetch` | `EveryRequestResolves` | 2 slots, 1 connection, 1 stream; 150 K states |
| `gc_mark` | `GcMark`, `MCGcMark` | `NothingMissed DoneIsQuiet NoLiveFreed WeakSound SweepExact CollectionEnds` | 3 workers, 6 objects, 3 heaps, 1 failed allocation; 240 K states |

Each module states its type invariant as `TypeOK`. The runs check it as a part
of `EngineInv`, `ApsApart`, `DiskConsistent`, `OneRunner`, `NoDanglingFd`,
`WindowKept` and `LinksAgree`; that of `GcMark` is proved. `ItemsRunOnce` is
part of what `KeepsContract` says: the contract counts the runs of every item.

### What they show

**Job engine.** `NoTornJob` and `LoopIsLive`: an AP that read an old generation
either leaves the slot at its check or is waited for by the drain, so it never
works on fields of two jobs nor on a loop whose caller has returned. The danger
needs a slot to be recycled while an AP is between its load of `smp_gen` and its
check; with 1 slot each call reuses it, and with 3 calls and `GenMod = 3` the
generation wraps as well. `DoneIsSound` and `PostRunsOnce` need an entry reused
while an older handle is still polled: 2 posts over 1 entry. That sequence
numbers may wrap too is part of what is proved (section 4). `NoLostWakeup`: no AP
halts with work in the mailbox or a slot and no interrupt pending. `KeepsContract`
says that all of this together implements `SmpContract`: `runs[k]` counts the
runs of item `k` of the current call, an item may be run only from 0 to 1 and
only inside the call, the call returns when all are at 1, and `entered` counts
the entries of each posted job in the same way. A second run of an item, or a run
outside a call, is a step the contract does not have. A user of `smp.h` may so
reason with the contract alone. `CallReturns` and `PostsFinish` are the liveness half.

The passing liveness run has no faulting APs and no items that post, because
with either a loop need not return: see section 5.

**Start-up.** With any set of dead APs and allocations that may fail, running
APs have stacks and indices of their own, indices have no gap (loops over
`1 .. ncpu-1` depend on that, the reset that stops the others among them) and
boot ends.
`N = MaxCpus = 4` lets the table also overflow `cpus[]`.

**Files.** With `fsck fix` after each crash and no failed write or read so far, a
completed file reads back as it was left whatever happens to others. The
instance makes files move (first fit with the old run given back first), the
disk and the table fill up, and a crash fall between any two writes, also inside
fsck, which takes two crashes to matter. Three names for two entries make the
table run full. `DiskConsistent` also covers fsck after one failed write, or one failed read
during hydration, anywhere; `PfsErrors.cfg` checks fsck also after normal boots
without fsck and with crashes during hydration.

**Processes.** `OneRunner`: one thread is running and it is the one the main
loop believes in. `QueueIsFresh`: the queue only names READY processes that were
never entered. `ParksMatch`: parks and staged resumes belong to the process that
made them though they are kept by slot. `NoResurrection`: a
zombie never becomes runnable. Three user slots allow a parent, its child and a
second program; the queue has two entries and so runs full; init is there and
takes a slot.

**Descriptors.** `NoDanglingFd`: a description is never free while an fd names
it; `PipeEndsCounted`: a pipe's reader and writer counts are those of its open
ends, also when `pipe` fails half way; `PipeIsFifo`: the ring holds exactly the
bytes written and not read. All three tables run full in the instance. A ring of
two bytes with reads and writes of up to two wraps at every position.

**TCP.** The instances are small in bytes and complete in events. `tcp` is the
receiving side: the peer's three bytes may come in segments of one or two, in any
order, again and again, with the FIN before them; the ring of two runs full.
`tcp_send` is the sending side with two bytes and a FIN, which are acknowledged
one by one, together, late, twice or never. The sequence numbers of both sides
pass through 0 in the middle of the connection (`W = 32`, starting at 30 and 29).
`StreamIntact` is the promise of
`tcp_recv`. It also says that what is acknowledged is kept, which the code once
got wrong (the comment in `tcp_send_one` on "ACKed-then-dropped bytes").
`FinInPlace` has the two sides of a FIN that overtakes data: the end is neither
reported early nor missed.
`SentInPlace` and `NothingForgotten` say the same of the sending side under
partial, repeated and old acknowledgements. `WindowKept` compares the window
with the room in the ring for all windows ever told; `WindowReopens` excludes
the stall in which the owner has read everything and the peer was told nothing.
`CloseReleases`: linger ends. `SendResolves`: bytes are acknowledged or the
connection fails. It has two hypotheses. The peer's window does not open and
shut for ever: each opening resets `persist_since` and each acknowledgement the
retries, so a peer that alternates can hold a sender; the code means that to be.
And fast retransmits come to an end (`FastRetransmit`): each starts the timer
again, and old ACKs of two numbers that take turns, three of each, keep it from
running out for ever, also in front of a shut window. `TcpDupAcks.cfg` checks
`SendResolvesAnyway`, the same without the second hypothesis, and has that
counterexample. `arp` is whether the next hop's address is known. In `tcp` it may
be forgotten at any time (`ArpForgets`): a full cache overwrites its last entry,
and DHCP or a change of link empties it. `TcpSend.cfg` leaves that out for size;
with it the run passes too (250 K states).

**Fetch engine.** Two requests are enough for a slot, a connection and a stream to
be used twice while an answer to the first is on its way, and for one session to
be lost under two streams. The servers may at each step answer, answer in part,
refuse, stall, close, send GOAWAY (also a second one that names an earlier stream)
or lower and raise the number of streams. A kept connection may turn out not to
take a request when `slot_assign` tries it: it is closed and the next one tried.
Which other origin's connection has been idle longest, and so gives way, is left
open (`Findings`). `OwnAnswer` is the property a user would notice: what a slot
holds answers its own request. It holds for every origin that sends only what it
is asked for. The plain origin of the instance does not: `fetch_poll` hands out
idle connections before `conn_idle` looks for bytes on them, so what it sent
unasked, or after the end of an answer, is read as the next answer. `OwnAnswer`
then says that the harm stays with answers of that origin, and in the cache with
its URLs; `FetchStray` (section 5) is the case itself. `LinksAgree` is why the
rest holds: the two tables point at each other. `SentTwiceAtMost` bounds all retries together (a stale
kept connection and a lost session share one flag). `HandlesKept`: the sweep of
finished speculative loads never takes a slot that a page has adopted.
`EveryRequestResolves` has one connection for two origins, so that waiting,
idle, draining and negotiating connections compete. Its session has one stream;
several streams of one session occur in `fetch` only.

**Collector.** Three workers, so that one may start after the others have
finished, one share a chunk while another rests, and two race for a mark. One
object per chunk and one spare chunk make the pool run full; one failed
allocation drops a push or a chunk. `NothingMissed` is the tricolour invariant of
this collector, with the rescan as its escape. `DoneIsQuiet`: the counters
`nidle` and `nstarted` never agree while work is left, also with workers that
have not started. `NoLiveFreed` and `SweepExact` compare with reachability
defined without any marking (the least closed set). In one heap two objects are
reached through a weak table only, the second by way of the first: a pass over the
table that comes to the second entry first has to be followed by another.
`SweepExact` also says which weak entries are forgotten and that none is before
the end; without the `more` of `weak_process_ephemerons` (the mutant
`EphemeronOnce`) it fails there. The targets of the registry may die together or
one after the other, which queues a second job for it; a job runs one callback
after the other and a collection may come in between.

### Deadlock

`Pfs` and `GcMark` are checked for deadlock: the machine can always be started
again, and the program collect again. The
other cfgs say `CHECK_DEADLOCK FALSE` because the bounded histories end: all
calls made, all processes created, all APs asleep. What must not stop there is
stated as liveness.

### Fairness

- `Smp!FairSpec`: weak fairness of every CPU's next step. A CPU that can go on
  does; nothing pre-empts an AP. Starting a loop or a post is never forced.
- `SmpBoot!FairSpec`: weak fairness of the boot CPU and of each AP that woke.
  `WaitOver` is the 500 ms limit, so an AP that answers in time does so before.
- `Proc!FairSpec` (used by `ProcYield.cfg` and `ProcTerm.cfg`): weak fairness of
  the main loop, of the running program, and of the timer. Keys are not forced.
- `Tcp!LiveSpec`: weak fairness of a poll that finds the linger over, since
  nothing sets `close_tick` back, and of one that finds the retransmission timer
  run out unless fast retransmits go on for ever, as these set `rtx_last_tick`
  back. The other places that do so need something new to be acknowledged or
  sent, which is bounded by what the owner gives. The main loop calls `net_poll`
  for ever and the clock goes on. Peer, network and owner may do anything or
  nothing.
- `Fetch!LiveSpec`: weak fairness of the poll and of each connection's step, and
  strong fairness of its time-outs (connecting, a stalled response or session,
  idle): the clock goes on while the server does other things in between. A
  server that keeps a session alive for ever with frames that answer nothing is
  thereby left out: the code's stall timer is kept per session, so it would
  not fire there.
- `GcMark!FairSpec`: weak fairness of the collecting thread and of each running
  worker. A worker that has not started is only sure to start when no other one
  runs: the APs may be busy, and `smp_parallel_for` then runs the items one after
  the other on the calling CPU.

## 4. Proofs

### The job engine

`SmpProofs` proves, for every number of APs, slots, mailbox entries, calls and
posts, every word width, wrap and loop shape, with and without faults:

| Theorem | States |
|---|---|
| `EngineInvariance` | `Spec => []EngineInv` |
| `TypeCorrect` | all counters stay in their words |
| `NoTornJobs` | while a slot is refilled no CPU is past its generation check in it, so none reads fields of two jobs |
| `PostsRunOnce` | an accepted job is entered at most once |
| `PollsAreSound` | `smp_async_done` answers 1 only about finished jobs |
| `WakeupsArrive` | no AP halts with work to do and no interrupt pending |
| `LoopInvariance` | if `NoWrap` then `Spec => []LoopInv` |
| `LoopsAreLive` | if `NoWrap`: a CPU about to run items runs those of the loop whose caller is still waiting |
| `ItemsAreRunOnce` | if `NoWrap`: no item runs twice, and a loop returns only when all of its items have run |
| `EngineKeepsContract` | if `NoWrap`: `Spec => KeepsContract`, the engine implements `SmpContract` |

**Assumption.** `SmpAssumption`: at least one AP, finitely many; at least
one slot and one entry; words of more than one value; the arguments `n` and
`grain` fit their words; `NMax < W`; the boot CPU is no AP. TLC evaluates it on
each run of `MCSmp`. The theorems about loops have a hypothesis, `NoWrap`: for
each loop that is called, `n + 2 * |CPU| * grain <= W`. The code cuts `n` to 2^28
but takes any grain, so it is the caller's to meet; every caller in the
repository passes 1, 16 or 0 (an eighth of a CPU's share). `SmpGrainWrap`
(section 5) is the counterexample without it. The instances of the runs meet it.

**Argument.** None of the properties is inductive. `EngineInv` adds:

- `ControlInv`: each CPU stays in its own code, and whoever is in a section
  under `pub_lock` holds it. Posts and loops therefore exclude each other.
- `ActiveInv`: `active[s]` is the *number of CPUs inside* slot `s`, also those
  that are in `smp_async_start` called from an item, or parked by an exception.
  Without it, "the drain saw 0" says nothing about who is inside.
- `JoinInv`: from the drain to the opening of a slot its generation is 0, and
  while it is refilled no AP is past the check in it. This is the heart of the
  recycling protocol: an AP enters (active+1) *before* it checks, the boot CPU
  zeroes the generation *before* it drains.
- `MailInv`, `RunnerInv`: two entries in use hold different jobs, an entry in
  use holds an unfinished job, and two APs that won a compare-and-swap own
  different entries.
- `PosterInv`, `HandleInv`: a job on its way into the mailbox is in no entry;
  each handle is *settled*: its job is finished or still in the entry under the
  handle's number. That is why a poll of a reused entry, even one whose number
  wrapped, is right to say yes.
- `WakeInv`: when an AP goes to sleep without a pending interrupt, a loop newer than
  the one it saw, or a job in an entry it has already looked at, is still to be
  announced: its publisher is at the interrupt it sends last.

Each part has a step lemma with one case per action that can disturb it, and a
frame lemma for the others. `EngineInit` and `EngineStep` put them together, and
`PTL` concludes.

The loops need a second invariant on top of it, `LoopInv`:

- `ShapeInv`, `GenInv`: whoever has read a slot has the job that is still in it
  (by `JoinInv` it was not refilled meanwhile), and generation `g` opens slot
  `g % NSLOT` only. A CPU that comes with an old number may therefore enter a
  newer loop only if the number itself came round, and then does its share.
- `ChunkInv`: the cursor of a loop that is over is past its end, so a straggler
  gets no chunk of it; the chunks in hand lie in the open loop and are disjoint.
- `RanInv`: an item of the open loop has run once if it was handed out and is in
  no chunk still to be run, and not at all otherwise.
- `DoneInv`: `done` is the *number* of items that were handed out and are in no
  chunk in hand. When it reaches `n`, all items are among them, so nobody works on
  the loop any more: this is what the boot CPU's wait relies on.
- `CursorInv`: the cursor does not come round. A CPU takes one chunk past the
  end each time it joins; `Overshoots` counts the CPUs that are on their way into
  the slot or may still come. An AP counts at most twice: it may come once by a
  stale number that has wrapped round to this generation, before the
  announcement, and once by the announcement. Hence the factor 2 in `NoWrap`.
- `IdleInv`: an AP has a mailbox job in hand only while it is inside it.

For the refinement, `LoopSide`, `PostsFrame` and `ToldFrame` single out the steps
a caller can see: `Call`, `RunItems`, `CallReturn`; `StartPost`, `RunFetch`,
`RunFinish`; the polls. Each is shown to be its step of `SmpContract`, all others
change nothing there, and no step is two of them at once (`OneAtATime`).

### AP bring-up

`SmpBootProofs` proves `ApsStayApart`: if `Late = {}` then `Spec => []ApsApart`,
for every number of CPUs and size of `cpus[]`, any set of dead APs and any
failures to get a stack. `Late = {}` is needed: `SmpBootLate` (section 5) is the
counterexample without it. Besides it only `BootAssumption` is used.

**Argument.** `BootInv` says that one AP at most is between the trampoline and
`smp_ap_entry`, the one at hand (`OthersInv`, lemma `AtHand`), and that what
`start_ap` wrote for it is still in the page (`HandInv`). Its stack is newer than
any other (`allocs`), its index is not counted yet, so taking them disturbs nobody;
when it answers, it becomes the AP of exactly the next index (`CountedInv`). The
boot CPU gives up only on an AP that is off (`StartedInv`), which is where
`Late = {}` enters.

### Files

`PfsProofs` proves, for any number of names, table entries and sectors, any
largest file, any number of operations, crashes and failed writes, and with or
without the calls that have no caller yet:

| Theorem | Under | States |
|---|---|---|
| `PfsInvariance` | | `Spec => []PfsInv`, from which the others follow |
| `PfsTypes` | | the state keeps its types and no entry points past the data |
| `FsckAlwaysCleans` | | `fsck fix` ends with a consistent disk whatever came before |
| `DiskStaysConsistent` | `FsckFirst` | bitmap, count and table agree when nothing is under way |
| `FilesHoldTheirOwnData` | `FsckFirst` | a file is made of sectors written for it, between any two writes |
| `WritesAreDurable` | `FsckFirst`, `~CrashInBoot` | a completed write or deletion is what the next boot reads |

**Assumptions.** `PfsAssumption`: one entry, one sector and one name at least,
and no file larger than the disk. The two hypotheses are the operator's: the
recovery system runs `fsck fix` after a crash (`pfs_power_loss` is the
counterexample without it), and power holds while files are hydrated
(`PfsBootCrash`). As in the runs, the last three speak of a disk on which no
write or read has failed so far.

**Argument.** None of the three is inductive: a superblock that is one write
behind the table is the normal case in the middle of an operation, and a crash
makes it last. `PfsInv` therefore says which parts of the disk may lag when:

- `LayoutInv` holds *always*, after a crash too: entries do not overlap, have
  different names and hold their own data. It is what survives without the bitmap.
- `SuperInv`: unless the machine went down in the middle of something, the
  bitmap and the count lag only between the write of an entry and that of the
  superblock. `DirtyInv`: where fsck comes first, a mounted disk is never in that
  state.
- `PlanInv`: the bitmap an operation carries in its locals is the one of the
  table *as it will be*, and the run it writes to belongs to no other entry. So
  data written before its entry harms nobody, and the superblock written last
  is right. That needs the old run to be given back only in RAM
  (`WithoutOldRun`).
- `SyncInv`: the sectors written so far are the file's.
- `FsckInv`: the entries that fsck keeps are apart and own exactly the bitmap
  it writes. The audit is a recursive function over the table (`AuditTo`): `AuditExists` shows that it
  is one and `AuditFacts` follows it, both with the least place at which they
  could fail. With `LayoutInv` it drops nothing, so fsck loses no file.
- `KeptInv`: a file nobody works on reads as promised, and a file that is being
  hydrated is written back as it was. `OtherReads` and `SyncedReads` say what a
  sync changes of what a boot would read.

### Processes

`ProcProofs` proves, for any number of slots, processes, terminals and lines,
any size of the queue and with or without an init program:

| Theorem | States |
|---|---|
| `OneRunnerHolds` | one thread runs, and it is the one the main loop believes in |
| `ParksMatchHolds` | an armed park or a staged resume belongs to the process that made it, though both are kept by slot |
| `QueueIsFreshHolds` | the queue names only READY processes that were never entered |
| `DeadStayDead` | no step makes a zombie runnable (an action property) |

**Argument.** `ProcInv` adds to the properties: `PidInv`, pids are not reused
among live slots, so a park that remembers a pid cannot match a later owner of
the slot; `RunInv`, the current thread is exactly the RUNNING one and user code
runs only when it is not the kernel's own; `QueueInv`, two entries never name
one pid. `QueueInv` is what makes `drain` safe: the program it enters cannot
already have run by way of another entry. `DeadStayDead` needs no more than the
invariant at the first of the two states.

### Descriptors and pipes

`FdsProofs` proves for tables of any size, pipes of any capacity and any
interleaving of the processes' calls:

| Theorem | States |
|---|---|
| `NoFdDangles` | a description is never free while an fd names it |
| `PipesCountTheirEnds` | a pipe's counters are the descriptions of its ends |
| `PipesAreFifo` | the ring holds the bytes written and not yet read, in order |

**Argument.** `FdsInv` adds: `RefInv`, a description counts *at least* the fds
that name it (not exactly: `FdsLeak` in section 5 shows counts that stay behind);
`EndInv`, each end of a pipe in use has one description; `UsedInv`, a pipe in use has an
open end; `RingInv`, head and tail are `count` apart around the ring. That
fork adds one reference per inherited fd is a statement on the cardinality of a
disjoint union, and that a read or write of many bytes keeps the queue is shown
position by position with lemmas on places in a ring.

### TCP

`TcpProofs` proves, for every pair of initial sequence numbers, every size of
ring, retransmission buffer, window, scale and reorder buffer, and every bound
on what is sent:

| Theorem | States |
|---|---|
| `StreamIsIntact` | what `tcp_recv` hands out is the peer's stream, and what is acknowledged was kept |
| `FinCountsInPlace` | a FIN that overtakes data neither ends the stream early nor is missed |
| `BytesKeepTheirPlace` | first sendings and repeats carry each byte and the FIN at its place |
| `UnackedIsKept` | a byte the peer does not have is still there to be sent again |
| `WindowIsKept` | types and sizes are kept, and no window told exceeds the room there will be |
| `WindowsReopen` | under `WindowSizes`: an owner that has read everything leaves no peer in front of a small window |

**Assumption.** `TcpAssumption`: less than half of the sequence space is used in one
connection (`seq_lt` compares signed differences; the model counts the places of
one connection from its start, so a stream of more than 2 GB is not covered).
`WindowSizes` says that the thresholds of `tcp_recv` are no larger than the window
of an empty ring, scaled or not; in the code they are 4 segments and 32 KB against
64 KB and 256 KB. `Tcp.cfg` satisfies it.

**Argument.** `TcpInv` describes the socket by places in the two streams instead
of sequence numbers:

- `SendPart`: there is a place `u`, at most the peer's, such that `una` is its
  number and the retransmission buffer is *exactly* the bytes from `u` to the last
  one given to `tcp_send`, with the FIN after them. Old, repeated and partial
  acknowledgements only move `u` on.
- `ReceivePart`: the ring is exactly the bytes after those read, `ack` is the
  number after it, held segments are pieces of what the peer sent, and a FIN that
  waits lies behind a gap. The last is what makes it impossible to miss.
- `WirePart`, `PeerPart`: what is in the network is right, and while a connection is open the
  highest place ever told is within what was read plus the ring.
- `ReopenPart`: the peer was told of a window worth having, or will be by the
  next poll, or the ring is not empty and its reading will say so. If the answer to
  our SYN comes while the next hop is forgotten, our ACK of it is never sent;
  then the window of the SYN stands, which is why `WirePart` bounds it from below.

A handler changes the socket many times before it is done. `Sound` states the
parts for a socket in the midst of a step with segments not yet handed to the
network; each operation (`SendAckSound`, `ResendSound`, `ProcessAckSound`, `DeliverSound`,
`CompleteFinSound`, `TakeFinTaken`, `RtoSound`, ...) is shown to keep it, and `BecomesStep`
turns a sound socket at the end of a step into the invariant. The draining of
the reorder slots is a recursive function; `DrainsMid` follows it with an invariant over
its steps.

### The fetch engine

`FetchProofs` proves, for every set of URLs and of TLS origins, every number of
slots, connections, connections of an origin, streams, pieces of a response and
requests:

| Theorem | States |
|---|---|
| `FetchInvariance` | `Spec => []FetchInv` |
| `AnswersAreOwn` | what a slot holds answers its own request, or came from the cache for its URL; bytes nobody asked for reach only answers of their own origin |
| `LinksHold` | slots and connections agree about who serves whom, and the pools keep their limits |
| `SendsAreFew` | a request goes out at most twice |
| `HandlesStay` | a poll takes no slot from the owner of its handle |

**Assumption.** `FetchAssumption`: the tables have at least one entry, and no
origin is the mark of a free connection. `Sloppy` may be any set of the origins:
with none of them in it `OwnAnswer` is the plain statement.

**Argument.** `FetchInv` says three things of the engine (`Good`):

- `SlotOK`: a slot by itself. A slot that waits has gone out at most as often as
  `Spent` allows, once if it was requeued; that is what a retry counts on.
- `ConnOK`: a connection by itself. Streams are below `next`, no two have one
  number, and only a session has streams. What waits to be read on it comes from
  its origin, and on an idle one from a sloppy origin.
- `LinkOK`, for every slot and every connection: the connection carries the slot
  (`Carries`: as its only request, or with a stream) exactly if the slot runs on
  it, and then what is on the wire is in order for the slot (`InOrder`), and what
  was asked for under the stream's number is the slot's request. `OwnAnswer` is not inductive without the last part: a
  cancelled stream leaves its number in `asked`, and what still arrives for it
  must find no stream.

A step changes one slot and one connection, or takes several slots off one
session. `Both`, `OneSlot`, `OneConn`, `SlotsChange` and `Dropped` say once which
links such a change can disturb, and every operation is reduced to one of them.
`h2_conn_lost`, GOAWAY and the assignment of waiting requests are loops over the
slots: `FoldExists` shows that the recursive function of such a loop is one, and
`Climb` carries an invariant along it. `CloseAllGood` does the same for the kept
connections that are closed on the way. `HostsGrow` counts the connections of an
origin when one more is opened, also in the place of another origin's.

### The collector

`GcMarkProofs` proves, for every finite set of objects and of workers, every
heap, every set of weak-map entries and registry cells, every chunk size and
pool size, and any number of failed allocations:

| Theorem | States |
|---|---|
| `TypeCorrect` | stacks, chunks, flags and counters stay in their types |
| `NothingIsMissed` | the tricolour invariant with the rescan as its escape |
| `TerminationIsQuiet` | `done` is set only when no work is left |
| `LiveIsKept` | nothing reachable is freed |
| `WeakIsSound` | weak structures are consistent between collections |
| `CollectionIsExact` | a collection frees exactly what is unreachable, and forgets exactly the weak entries of what it frees |

**Assumption.** `ConstantsAssumption`: finite sets, at least one worker, chunks of
at least one entry.

**Argument.** `GcInv` in `GcMarkInvariant` adds to the properties:

- `CountInv`: `nstarted` and `nidle` are the *numbers* of workers that have
  started and that are idle. Together with `LocalsInv` (an idle worker has an
  empty stack) this is why the last one to go idle may set `done`: if they are
  equal, every worker that started is idle, and it saw the pool empty under the
  lock.
- a worker that left has passed its overflow flag on (`CountInv`), so that
  `NothingMissed` does not lose its escape when the phase ends. Mutating that one
  line (`LeaveSilently`) frees live objects.
- `PhaseInv`: between the phases stacks and pool are empty, so that
  `NothingMissed` means that the marked set is closed under pointers.
- `SoundInv`: whatever is marked, or about to be, lies in *every* closed set. It
  is the converse half, and with it marking twice keeps nothing alive.
- `EphInv`: during a pass over the weak tables that has marked nothing yet, the
  entries already visited are satisfied; at its end all are, so the marked set
  is closed in the sense of `Closed`, hence contains `Live`.
- `CellInv`: which registry cells are pending, before and after their targets
  are looked at.

Reachability is the intersection of all closed sets. Nothing in the proof is an
induction over paths.

### Only model-checked

Liveness (outside the prover's reach); what `Smp` does with loops whose cursor
may wrap; what `SmpBoot` does with late APs; what `Pfs` does to files after a
boot without fsck.

## 5. Where code and comments disagree

One run, `pfs_power_loss`, shows a property violated that a comment or header
states: power lost between a table entry and the bitmap leaves a listed file's
sectors free. The next normal boot does not look; hydration may then move
another file onto them. `PROJECT.json` quotes the lines.

The following cfgs reproduce further disagreements. They are kept beside the
runs; each names one property of the module, which TLC reports as violated. The
counterexamples were compared with the code.

| cfg (module) | Property | What happens |
|---|---|---|
| `SmpApPost` (`MCSmp`) | `CallReturns` | `smp.h:40` says `smp_async_start` is callable from an AP; an item of a loop that does so waits for `pub_lock`, which the boot CPU holds until the item ends (`smp.c:173`) |
| `SmpFault` (`MCSmp`) | `CallReturns` | `smp.c:253` calls an AP fault "fatal for that CPU only"; the loop it was in never returns |
| `SmpGrainWrap` (`MCSmp`) | `ItemsRunOnce` | a huge grain wraps the 32-bit cursor and items are handed out again |
| `SmpBootLate` (`SmpBoot`) | `PrivateStacks` | an AP that needs more than 500 ms takes the stack and index of the next |
| `PfsBootCrash` (`MCPfs`) | `Durable` | power lost while a file is written back during hydration, onto its own old run, corrupts it |
| `ProcWake` (`MCProc`) | `NoFramelessSwitch` | the exit of a child makes a parked parent READY, and the tick may switch to a thread that has no switch frame (`sys_proc.c:776`, against the comment `sched.c:97`) |
| `ProcExit` (`MCProc`) | `ExitTerminates` | `syscall_can_exit` was cleared by another program's exit: exit returns (`idt.c:276`) |
| `ProcPark` | `ParkIsImmediate` | a call that parks returns to ring 3 once and the next call is swallowed (`idt.c:260`) |
| `ProcYield` | `ParkedResume` | a yielding program is resumed only by a typed line (`desktop.c:2455`, `sched.c:55`) |
| `ProcReader` | `NoSleepingReader` | two lines typed in one go wake one reader (`desktop.c:2562`) |
| `ProcForeground` | `ForegroundReaped` | an exit after a keyboard wake is not reaped (`desktop.c:2617`) |
| `ProcTerm` | `TermKills` | TERM is looked at only on exit (`desktop.c:2477`) |
| `ProcOrphans` | `OrphansAdopted` | orphans get parent 1 though there is none (`sys_proc.c:865`) |
| `ProcOrder` | `OldestFirst` | the queue is drained by index (`syscall.c:44`) |
| `ProcSpawn` | `SpawnsAreQueued` | init stays unqueued when the first run fails (`desktop.c:638`) |
| `TcpDupAcks` (`Tcp`) | `SendResolvesAnyway` | old ACKs of two numbers in turn, three of each, start the timer again for ever (`network.c:1192`), against "a shut window must fail the fetch eventually" (`network.c:162`) |
| `FetchStray` (`MCFetch`) | `StraysUnusable` | a kept connection with bytes nobody asked for is given to the next request (`fetch.c:678`), against "unsolicited bytes: unusable" (`fetch.c:595`) |
| `FdsLeak` (`MCFds`) | `DescriptionsReturn` | a process that ends without closing leaves its descriptions taken, against "Destroy a process and free its resources" (`process.h:115`) |

Met while modelling, without a run: the comment above `struct gc_par` says mark
bits are set with an atomic OR, `gc_mark_ptr` uses a plain one (`GcMark` models
the plain one, and nothing depends on it); `finreg_job` stops at a callback that
throws and leaves the other cells pending without a job; `process_create`
returns -1 for lack of memory with the slot already READY (`process.c:117`); exec
frees the old image before it knows that the new one loads (`sys_proc.c:609`); a
request that `slot_retry_stale` sends again may have been processed by the server,
though its comment says "never processed" (`fetch.c:440`).

## 6. Plan

Done: the modules above. Next, in this order:

1. **The tile pool of the media engine** (`meng.c`: a tile is decoded once, and a
   refused post is decoded by the caller) on top of `SmpContract`.
2. **HTTP/2 flow control** (a window is never overdrawn and never stuck).
3. **Memory.** The heap (blocks never overlap, neighbours are coalesced) and the
   page bitmap; with them exec, sbrk, mmap and a `process_create` that runs out
   of memory on top of `Proc`.
4. **Linux subsystem.** Futexes, pipes, epoll and signals: no lost wake-up.
5. **Smaller parts.** The kernel log ring, the key queue, window z-order, the
   virtio, xHCI and e1000 rings, the TLS handshake, ojs promises.

## 7. Not modelled

- Of the modelled parts: item statistics and the self test of the job engine;
  the choice between xAPIC and x2APIC; disk read errors outside hydration, names
  of 32 characters and more and `pfs_load_file` (which has no caller); partition
  scan, FAT browsing and hexdump of the recovery system, which only read; exec,
  sbrk, mmap, register frames and exit codes; file offsets and file data behind
  fds; round-trip estimates, SACK and checksums of TCP, and
  the layers below it; flow-control windows, HPACK and the
  eviction of cache entries and origins of the fetch engine; conservative stack
  scanning, WeakRefs, atoms and the page allocator of ojs.
- Parsers, cascade, layout, painting, codecs, cryptographic primitives, language
  interpreters and the game: sequential algorithms over large data. They are by
  far the largest share of the repository's lines, and tables (Unicode, root
  certificates, character sets, codec tables) a good part of them.
- Device set-up and port I/O: register tables. Their effect on the models is the
  disk of `Pfs` and the interrupts of `Smp`.
