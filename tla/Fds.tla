-------------------------------- MODULE Fds ---------------------------------
(***************************************************************************)
(* The descriptors of the native processes (sys_proc.c): each process has  *)
(* a table of fds, an fd names an open-file description shared over dup    *)
(* and fork, and a description may be one end of a pipe.  System calls run *)
(* with interrupts off on the boot CPU, so each is one step.  The life of  *)
(* a process is reduced to what its fd table sees of it: spawn, fork, exit *)
(* and the destruction of the slot (module Proc has the rest).             *)
(* The offset and the data of files are left to the file system; the three *)
(* wired streams 0, 1 and 2 never change and are left out.                 *)
(***************************************************************************)
EXTENDS Integers, Sequences, FiniteSets, FiniteSetsExt

CONSTANTS
    Procs,     \* the slots of the process table
    NFD,       \* PROC_MAX_FDS (16) less the wired streams
    NOFD,      \* SYS_PROC_MAX_OFD (64)
    NPIPE,     \* SYS_PROC_MAX_PIPES (16)
    BUF,       \* SYS_PROC_PIPE_BUF (4096)
    Bytes,     \* what is sent through pipes
    MaxLen,    \* bound: the longest read or write
    MaxBirths  \* bound: processes ever created

FdNums == 3 .. 2 + NFD
Ofds == 0 .. NOFD - 1
Pipes == 0 .. NPIPE - 1
FREE == -1

ASSUME FdsAssumption ==
    /\ NFD \in Nat \ {0} /\ NOFD \in Nat \ {0} /\ NPIPE \in Nat \ {0}
    /\ BUF \in Nat \ {0} /\ MaxLen \in Nat \ {0} /\ MaxBirths \in Nat
    /\ IsFiniteSet(Procs) /\ 0 \in Bytes

VARIABLES
    st,       \* the process: none, live or zombie
    fds,      \* fds[] of each slot
    ofd,      \* ofd_tab[]
    pipe,     \* pipes[] without their buffers
    buf,      \* the buffers
    births,
    flow      \* the bytes written to each pipe and not read (not in the code)

vars == <<st, fds, ofd, pipe, buf, births, flow>>

-----------------------------------------------------------------------------
NoFds == [f \in FdNums |-> FREE]
NoPipe == [used |-> FALSE, readers |-> 0, writers |-> 0,
           head |-> 0, tail |-> 0, count |-> 0]

Init ==
    /\ st = [p \in Procs |-> "none"] /\ fds = [p \in Procs |-> NoFds]
    /\ ofd = [o \in Ofds |-> [ref |-> 0, kind |-> "none", pipe |-> FREE,
                              write |-> FALSE]]
    /\ pipe = [i \in Pipes |-> NoPipe]
    /\ buf = [i \in Pipes |-> [k \in 0 .. BUF - 1 |-> 0]]
    /\ births = 0 /\ flow = [i \in Pipes |-> <<>>]

\* process_fd_alloc and ofd_alloc take the lowest free entry.
FreeFds(p) == {f \in FdNums : fds[p][f] = FREE}
FreeOfds == {o \in Ofds : ofd[o].ref = 0}

Description(kind, i, write) ==
    [ref |-> 1, kind |-> kind, pipe |-> i, write |-> write]

\* ofd_hold and ofd_drop
Hold(os, o) == [os EXCEPT ![o].ref = @ + 1]

Drop(os, o) == [os EXCEPT ![o].ref = IF @ > 0 THEN @ - 1 ELSE 0]

GoneAtOnce(os, o) == TRUE
Gone(os, o) == Drop(os, o)[o].ref = 0

Fewer(n) == IF n > 0 THEN n - 1 ELSE 0
EndClosed(q, write) ==
    LET r == IF write THEN q.readers ELSE Fewer(q.readers)
        w == IF write THEN Fewer(q.writers) ELSE q.writers
    IN  [q EXCEPT !.readers = r, !.writers = w, !.used = @ /\ ~(r = 0 /\ w = 0)]

\* The last close of a pipe end
DropPipe(ps, os, o) ==
    IF Gone(os, o) /\ os[o].kind = "pipe"
      THEN [ps EXCEPT ![os[o].pipe] = EndClosed(@, os[o].write)] ELSE ps

-----------------------------------------------------------------------------
(* System calls of the running process p                                   *)

\* sys_proc_open of a file that exists or is created
Open(p) ==
    /\ st[p] = "live" /\ FreeOfds # {}
    /\ LET o == Min(FreeOfds)
           opened == [ofd EXCEPT ![o] = Description("file", FREE, FALSE)]
       IN  IF FreeFds(p) = {}
             THEN ofd' = Drop(opened, o) /\ UNCHANGED fds
             ELSE /\ ofd' = opened
                  /\ fds' = [fds EXCEPT ![p][Min(FreeFds(p))] = o]
    /\ UNCHANGED <<st, pipe, buf, births, flow>>

Close(p, f) ==
    LET o == fds[p][f]
    IN  /\ st[p] = "live" /\ o # FREE
        /\ fds' = [fds EXCEPT ![p][f] = FREE]
        /\ ofd' = Drop(ofd, o) /\ pipe' = DropPipe(pipe, ofd, o)
        /\ UNCHANGED <<st, buf, births, flow>>

Dup(p, f) ==
    LET o == fds[p][f]
        held == Hold(ofd, o)
    IN  /\ st[p] = "live" /\ o # FREE
        /\ IF FreeFds(p) = {}
             THEN ofd' = Drop(held, o) /\ pipe' = DropPipe(pipe, held, o)
                  /\ UNCHANGED fds
             ELSE /\ ofd' = held /\ UNCHANGED pipe
                  /\ fds' = [fds EXCEPT ![p][Min(FreeFds(p))] = o]
        /\ UNCHANGED <<st, buf, births, flow>>

FreePipes == {i \in Pipes : ~pipe[i].used}
OpenedPipe(i) ==
    [pipe EXCEPT ![i] = [used |-> TRUE, readers |-> 1, writers |-> 1, head |-> 0,
                         tail |-> 0, count |-> 0]]

\* sys_proc_pipe: a pipe, two descriptions, two fds
MakePipe(p) ==
    LET i == Min(FreePipes)
        r == Min(FreeOfds)
        w == Min(FreeOfds \ {r})
        os == [ofd EXCEPT ![r] = Description("pipe", i, FALSE),
                          ![w] = Description("pipe", i, TRUE)]
        rfd == Min(FreeFds(p))
        wfd == Min(FreeFds(p) \ {rfd})
    IN  /\ st[p] = "live" /\ FreePipes # {}
        /\ Cardinality(FreeOfds) > 1 /\ Cardinality(FreeFds(p)) > 1
        /\ pipe' = OpenedPipe(i) /\ ofd' = os
        /\ fds' = [fds EXCEPT ![p][rfd] = r, ![p][wfd] = w]
        /\ flow' = [flow EXCEPT ![i] = <<>>]
        /\ UNCHANGED <<st, buf, births>>

\* With fewer than two descriptions left the one it got, not yet a pipe end,
\* is dropped and the pipe is given up.
PipeNoDescriptions(p) ==
    LET i == Min(FreePipes)
    IN  /\ st[p] = "live" /\ FreePipes # {} /\ Cardinality(FreeOfds) < 2
        /\ pipe' = [OpenedPipe(i) EXCEPT ![i].used = FALSE]
        /\ ofd' = [o \in Ofds |-> IF o \in FreeOfds
                     THEN [Description("none", FREE, FALSE) EXCEPT !.ref = 0]
                     ELSE ofd[o]]
        /\ flow' = [flow EXCEPT ![i] = <<>>]
        /\ UNCHANGED <<st, fds, buf, births>>

\* With fewer than two fds left both ends are dropped, which frees the pipe.
PipeNoFds(p) ==
    LET i == Min(FreePipes)
        r == Min(FreeOfds)
        w == Min(FreeOfds \ {r})
        os == [ofd EXCEPT ![r] = Description("pipe", i, FALSE),
                          ![w] = Description("pipe", i, TRUE)]
    IN  /\ st[p] = "live" /\ FreePipes # {} /\ Cardinality(FreeOfds) > 1
        /\ Cardinality(FreeFds(p)) < 2
        /\ ofd' = Drop(Drop(os, r), w)
        /\ pipe' = DropPipe(DropPipe(OpenedPipe(i), os, r), Drop(os, r), w)
        /\ flow' = [flow EXCEPT ![i] = <<>>]
        /\ UNCHANGED <<st, fds, buf, births>>

RoomAnyhow(i) == MaxLen
Room(i) == BUF - pipe[i].count

\* sys_proc_write_fd and sys_proc_read_fd on a pipe end
Write(p, f, data) ==
    LET i == ofd[fds[p][f]].pipe
        q == pipe[i]
        n == Min({Len(data), Room(i)})
        At(k) == (k - q.tail) % BUF
    IN  /\ st[p] = "live" /\ fds[p][f] # FREE
        /\ ofd[fds[p][f]].kind = "pipe" /\ ofd[fds[p][f]].write
        /\ buf' = [buf EXCEPT ![i] = [k \in 0 .. BUF - 1 |->
                     IF At(k) < n THEN data[At(k) + 1] ELSE @[k]]]
        /\ pipe' = [pipe EXCEPT ![i].tail = (@ + n) % BUF, ![i].count = @ + n]
        /\ flow' = [flow EXCEPT ![i] = @ \o SubSeq(data, 1, n)]
        /\ UNCHANGED <<st, fds, ofd, births>>

Read(p, f, len) ==
    LET i == ofd[fds[p][f]].pipe
        n == Min({len, pipe[i].count})
    IN  /\ st[p] = "live" /\ fds[p][f] # FREE
        /\ ofd[fds[p][f]].kind = "pipe" /\ ~ofd[fds[p][f]].write
        /\ pipe' = [pipe EXCEPT ![i].head = (@ + n) % BUF, ![i].count = @ - n]
        /\ flow' = [flow EXCEPT ![i] = SubSeq(@, n + 1, Len(@))]
        /\ UNCHANGED <<st, fds, ofd, buf, births>>

-----------------------------------------------------------------------------
(* The life of a process                                                   *)

\* process_create in slot p, for the shell
Spawn(p) ==
    /\ st[p] = "none" /\ births < MaxBirths
    /\ births' = births + 1
    /\ st' = [st EXCEPT ![p] = "live"] /\ fds' = [fds EXCEPT ![p] = NoFds]
    /\ UNCHANGED <<ofd, pipe, buf, flow>>

\* The child inherits the fds, and every one of them holds its description.
InheritedOnce(p) ==
    [o \in Ofds |-> [ofd[o] EXCEPT
        !.ref = @ + Cardinality({fds[p][f] : f \in FdNums} \cap {o})]]

Inherited(p) ==
    [o \in Ofds |-> [ofd[o] EXCEPT
        !.ref = @ + Cardinality({f \in FdNums : fds[p][f] = o})]]

Fork(p, c) ==
    /\ st[p] = "live" /\ st[c] = "none" /\ births < MaxBirths
    /\ births' = births + 1
    /\ st' = [st EXCEPT ![c] = "live"] /\ fds' = [fds EXCEPT ![c] = fds[p]]
    /\ ofd' = Inherited(p)
    /\ UNCHANGED <<pipe, buf, flow>>

\* sys_proc_exit_current records the status and no more; process_destroy frees
\* the slot.  Neither looks at the fd table.
Exit(p) ==
    /\ st[p] = "live"
    /\ st' = [st EXCEPT ![p] = "zombie"]
    /\ UNCHANGED <<fds, ofd, pipe, buf, births, flow>>

Destroy(p) ==
    /\ st[p] = "zombie"
    /\ st' = [st EXCEPT ![p] = "none"]
    /\ UNCHANGED <<fds, ofd, pipe, buf, births, flow>>

Data == UNION {[1 .. n -> Bytes] : n \in 1 .. MaxLen}

Syscall(p) ==
    \/ Open(p) \/ MakePipe(p) \/ PipeNoDescriptions(p) \/ PipeNoFds(p)
    \/ \E f \in FdNums :
          \/ Close(p, f) \/ Dup(p, f)
          \/ \E data \in Data : Write(p, f, data)
          \/ \E n \in 1 .. MaxLen : Read(p, f, n)

Life(p) == Spawn(p) \/ Exit(p) \/ Destroy(p) \/ \E c \in Procs : Fork(p, c)

Next == \E p \in Procs : Syscall(p) \/ Life(p)

Spec == Init /\ [][Next]_vars

-----------------------------------------------------------------------------
OpenFile == [ref : Nat, kind : {"none", "file", "pipe"}, pipe : Pipes \cup {FREE},
             write : BOOLEAN]
PipeRec == [used : BOOLEAN, readers : 0 .. 1, writers : 0 .. 1, head : 0 .. BUF - 1,
            tail : 0 .. BUF - 1, count : 0 .. BUF]

\* Every variable has its type and every table index is in bounds.
TypeOK ==
    /\ st \in [Procs -> {"none", "live", "zombie"}]
    /\ fds \in [Procs -> [FdNums -> Ofds \cup {FREE}]]
    /\ ofd \in [Ofds -> OpenFile] /\ pipe \in [Pipes -> PipeRec]
    /\ buf \in [Pipes -> [0 .. BUF - 1 -> Bytes]]
    /\ births \in 0 .. MaxBirths /\ flow \in [Pipes -> Seq(Bytes)]

\* The fds of processes that exist and name description o
Names(o) == {pf \in Procs \X FdNums :
               st[pf[1]] # "none" /\ fds[pf[1]][pf[2]] = o}

\* A description is never freed, and so never given to another open, while an
\* fd names it: closes, dups and forks of several processes in any order count
\* at least the fds there are.
NoDanglingFd ==
    /\ TypeOK
    /\ \A o \in Ofds : ofd[o].ref >= Cardinality(Names(o))

Ends(i, write) == {o \in Ofds : /\ ofd[o].ref > 0 /\ ofd[o].kind = "pipe"
                                /\ ofd[o].pipe = i /\ ofd[o].write = write}

\* A pipe is in use exactly while a description of one of its ends is open, and
\* its readers and writers count those descriptions: the failures half way
\* through pipe leave no pipe behind and take none away.
PipeEndsCounted ==
    \A i \in Pipes :
        /\ pipe[i].used <=> Ends(i, TRUE) \cup Ends(i, FALSE) # {}
        /\ pipe[i].used => /\ pipe[i].readers = Cardinality(Ends(i, FALSE))
                           /\ pipe[i].writers = Cardinality(Ends(i, TRUE))

\* The ring of a pipe holds the bytes written and not read, in order, across
\* partial writes into a full ring, wrapped indices and reuse of the pipe.
PipeIsFifo ==
    \A i \in Pipes : pipe[i].used =>
        /\ pipe[i].count = Len(flow[i])
        /\ \A k \in 1 .. Len(flow[i]) :
              buf[i][(pipe[i].head + k - 1) % BUF] = flow[i][k]

\* "Destroy a process and free its resources" (process_destroy): a description
\* with no fd left is free for the next open.
DescriptionsReturn ==
    \A o \in Ofds : Names(o) = {} => ofd[o].ref = 0

-----------------------------------------------------------------------------
(* The inductive invariant behind the safety properties                     *)

\* An open description counts at least the fds that name it.
RefInv == \A o \in Ofds : ofd[o].ref >= Cardinality(Names(o))

IsEnd(o) == ofd[o].ref > 0 /\ ofd[o].kind = "pipe"

\* An open end of a pipe belongs to a pipe in use that counts it, and it is
\* the only one of its kind.
EndInv ==
    \A o \in Ofds : IsEnd(o) =>
        /\ ofd[o].pipe \in Pipes /\ pipe[ofd[o].pipe].used
        /\ ofd[o].write => pipe[ofd[o].pipe].writers = 1
        /\ ~ofd[o].write => pipe[ofd[o].pipe].readers = 1
        /\ \A q \in Ofds : IsEnd(q) /\ ofd[q].pipe = ofd[o].pipe
                               /\ ofd[q].write = ofd[o].write => q = o

\* A pipe in use has an open end, and what it counts is open.
UsedInv ==
    \A i \in Pipes : pipe[i].used =>
        /\ pipe[i].readers = 1 \/ pipe[i].writers = 1
        /\ pipe[i].readers = 1 =>
              \E o \in Ofds : IsEnd(o) /\ ofd[o].pipe = i /\ ~ofd[o].write
        /\ pipe[i].writers = 1 =>
              \E o \in Ofds : IsEnd(o) /\ ofd[o].pipe = i /\ ofd[o].write

\* The ring of a pipe in use: head and tail are count apart.
RingInv ==
    \A i \in Pipes : pipe[i].used =>
        pipe[i].tail = (pipe[i].head + pipe[i].count) % BUF

FdsInv == TypeOK /\ RefInv /\ EndInv /\ UsedInv /\ RingInv /\ PipeIsFifo

=============================================================================
