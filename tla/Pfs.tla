-------------------------------- MODULE Pfs --------------------------------
(***************************************************************************)
(* Files that survive a reboot: the RAM file system (filesystem.c), its    *)
(* write-through to the on-disk OKPFS1 layout (pfs.c) and the repair tool  *)
(* of the recovery system (fsck fix and rm, recovery.c).                   *)
(*                                                                         *)
(* The kernel is single-threaded here, so a step is one sector write; what *)
(* is read and computed between two writes belongs to the step before.  A  *)
(* power cut or a panic may come between any two writes, and a write, or a *)
(* read of hydration, may fail.  File contents are sequences of sectors; a *)
(* sector holds the name, the operation and the position it was written    *)
(* for, which tells apart all that the properties need.                    *)
(***************************************************************************)
EXTENDS Integers, Sequences, FiniteSets

CONSTANTS
    Names,        \* file names (of at most 31 characters)
    NoFile,       \* no file of that name
    Unknown,      \* an interrupted operation: the file may read as anything
    NoEntry,      \* a free sector of the file table
    NSlots,       \* PFS_TABLE_SECTORS and FS_MAX_FILES (16 and 16)
    D,            \* data sectors (at most 3808)
    MaxLen,       \* PFS_MAX_FILE_SECTORS (64)
    UnusedApi,    \* TRUE: fs_append and fs_delete, which have no caller yet
    CrashInBoot,  \* TRUE: power may fail while files are being hydrated
    FsckFirst,    \* TRUE: after a crash the recovery system runs fsck fix
    MaxOps,       \* bound: operations on files
    MaxCrashes,   \* bound: crashes
    MaxErrors     \* bound: failed sector writes and reads

Slots == 0 .. NSlots - 1
Sectors == 1 .. D
SectorData == [name : Names, op : 0 .. MaxOps, at : 1 .. MaxLen]
Contents == UNION {[1 .. n -> SectorData] : n \in 0 .. MaxLen}
Entry == [name : Names, len : 0 .. MaxLen, start : 0 .. D]

ASSUME PfsAssumption ==
    /\ NSlots \in Nat \ {0} /\ D \in Nat \ {0} /\ MaxLen \in 1 .. D
    /\ Names # {} /\ NoEntry \notin Entry
    /\ NoFile \notin Contents /\ Unknown \notin Contents \cup {NoFile}
    /\ UnusedApi \in BOOLEAN /\ CrashInBoot \in BOOLEAN /\ FsckFirst \in BOOLEAN
    /\ MaxOps \in Nat /\ MaxCrashes \in Nat /\ MaxErrors \in Nat

VARIABLES
    sbValid, used, nfiles,  \* sector 0: magic, bitmap and file count
    table,                  \* sectors 1..16
    data,                   \* sectors 17..
    vfs,                    \* files[]: the contents of each file in RAM
    mode,                   \* off, format, hydrate, up or recovery
    cursor,                 \* the loop over the table in format and hydrate
    step,                   \* which sector is written next
    cur,                    \* the locals of the operation being done
    kept,                   \* what each file has to read as after a reboot
    dirty,                  \* the machine went down in the middle of something
    ops, crashes, errors    \* counters for the bounds

disk == <<sbValid, used, nfiles, table, data>>
counters == <<ops, crashes, errors>>
vars == <<disk, vfs, mode, cursor, step, cur, kept, dirty, counters>>

Idle == [name |-> NoFile, slot |-> 0, start |-> 0, k |-> 0, bitmap |-> {},
         drop |-> {}]

Least(S) == CHOOSE x \in S : \A y \in S : x <= y
RunOf(e) == e.start .. e.start + e.len - 1
Taken == {i \in Slots : table[i] # NoEntry}
SlotsOf(n) == {i \in Taken : table[i].name = n}
Blank == [n \in Names |-> NoFile]

\* What the sectors of an entry hold
ReadRun(e) == [k \in 1 .. e.len |-> data[e.start + k - 1]]

\* What hydrating the disk now would read for a name
OnDisk(n) == IF SlotsOf(n) = {} THEN NoFile
             ELSE ReadRun(table[Least(SlotsOf(n))])

\* A fresh disk: no superblock, and whatever was in the table's sectors
Init ==
    /\ sbValid = FALSE /\ used = {} /\ nfiles = 0
    /\ \E n \in Names, junk \in SUBSET Slots :
         table = [i \in Slots |-> IF i \in junk
                    THEN [name |-> n, len |-> 1, start |-> 1] ELSE NoEntry]
    /\ \E n \in Names :
         data = [s \in Sectors |-> [name |-> n, op |-> 0, at |-> 1]]
    /\ vfs = Blank /\ mode = "off" /\ cursor = 0 /\ step = "idle" /\ cur = Idle
    /\ kept = [n \in Names |-> Unknown] /\ dirty = FALSE
    /\ ops = 0 /\ crashes = 0 /\ errors = 0

-----------------------------------------------------------------------------
(* pfs_sync_file: plan in RAM, then data, entry and superblock on the disk *)

\* The lowest run of n free sectors, 0 when there is none
FirstFit(bitmap, n) ==
    LET fits == {s \in Sectors : s .. s + n - 1 \subseteq Sectors \ bitmap}
    IN  IF n = 0 \/ fits = {} THEN 0 ELSE Least(fits)

\* The entry with that name, else the first free one, else none (NSlots)
SlotFor(n) ==
    IF SlotsOf(n) # {} THEN Least(SlotsOf(n))
    ELSE IF Taken # Slots THEN Least(Slots \ Taken) ELSE NSlots

OldRun(n) == IF SlotsOf(n) = {} THEN {} ELSE RunOf(table[Least(SlotsOf(n))])

\* The old run is given back before the new one is looked for.
WithoutOldRun(n) == used \ OldRun(n)

Fits(n, c) ==
    /\ SlotFor(n) \in Slots
    /\ c # << >> => FirstFit(WithoutOldRun(n), Len(c)) # 0

Plan(n, c) ==
    LET start == FirstFit(WithoutOldRun(n), Len(c))
    IN  [name |-> n, slot |-> SlotFor(n), start |-> start, k |-> 0,
         bitmap |-> WithoutOldRun(n) \cup (start .. start + Len(c) - 1),
         drop |-> {}]

\* File n has contents c in RAM; when they do not fit the sync gives up.
Sync(n, c) ==
    /\ vfs' = [vfs EXCEPT ![n] = c]
    /\ IF Fits(n, c)
         THEN cur' = Plan(n, c) /\ step' = IF c = << >> THEN "entry" ELSE "data"
         ELSE UNCHANGED <<cur, step>>

Finish == step' = "idle" /\ cur' = Idle

LastSectorSkipped == cur.k + 2 < Len(vfs[cur.name])
MoreData == cur.k + 1 < Len(vfs[cur.name])

SyncData ==
    /\ step = "data"
    /\ data' = [data EXCEPT ![cur.start + cur.k] = vfs[cur.name][cur.k + 1]]
    /\ cur' = [cur EXCEPT !.k = @ + 1]
    /\ step' = IF MoreData THEN "data" ELSE "entry"
    /\ UNCHANGED <<sbValid, used, nfiles, table, vfs, mode, cursor, kept, dirty,
                   counters>>

SyncEntry ==
    /\ step = "entry"
    /\ table' = [table EXCEPT ![cur.slot] =
                   [name |-> cur.name, len |-> Len(vfs[cur.name]),
                    start |-> cur.start]]
    /\ step' = "super"
    /\ UNCHANGED <<sbValid, used, nfiles, data, vfs, mode, cursor, cur, kept,
                   dirty, counters>>

SyncSuper ==
    /\ step = "super"
    /\ used' = cur.bitmap /\ nfiles' = Cardinality(Taken)
    /\ kept' = IF mode = "up" THEN [kept EXCEPT ![cur.name] = vfs[cur.name]]
                              ELSE kept
    /\ Finish
    /\ UNCHANGED <<sbValid, table, data, vfs, mode, cursor, dirty, counters>>

\* A failed write ends the sync; fs_write does not look at its result.
SyncError ==
    /\ step \in {"data", "entry", "super"} /\ errors < MaxErrors
    /\ errors' = errors + 1 /\ Finish
    /\ UNCHANGED <<disk, vfs, mode, cursor, kept, dirty, ops, crashes>>

-----------------------------------------------------------------------------
(* filesystem.c: the live files                                            *)

Ready == mode = "up" /\ step = "idle" /\ ops < MaxOps
HasRoom(n) ==
    vfs[n] # NoFile \/ Cardinality({m \in Names : vfs[m] # NoFile}) < NSlots

\* From here until the sync is through, a crash may lose the file.
AtRisk(n, c) ==
    kept' = IF Fits(n, c) THEN [kept EXCEPT ![n] = Unknown] ELSE kept

NewSectors(n, from, to) ==
    [k \in 1 .. to - from + 1 |-> [name |-> n, op |-> ops + 1, at |-> from + k - 1]]

\* fs_create leaves the disk alone.
FsCreate(n) ==
    /\ Ready /\ vfs[n] = NoFile /\ HasRoom(n)
    /\ vfs' = [vfs EXCEPT ![n] = << >>] /\ ops' = ops + 1
    /\ UNCHANGED <<disk, mode, cursor, step, cur, kept, dirty, crashes, errors>>

FsWrite(n, len) ==
    LET c == NewSectors(n, 1, len)
    IN  /\ Ready /\ HasRoom(n)
        /\ Sync(n, c) /\ AtRisk(n, c) /\ ops' = ops + 1
        /\ UNCHANGED <<disk, mode, cursor, dirty, crashes, errors>>

\* fs_append changes the last sector, which may be partly filled, and adds
\* more up to the size limit.
FsAppend(n, len) ==
    LET old == IF vfs[n] = NoFile THEN << >> ELSE vfs[n]
        whole == IF old = << >> THEN 0 ELSE Len(old) - 1
        c == SubSeq(old, 1, whole) \o NewSectors(n, whole + 1, len)
    IN  /\ UnusedApi /\ Ready /\ HasRoom(n) /\ len >= Len(old) /\ len > 0
        /\ Sync(n, c) /\ AtRisk(n, c) /\ ops' = ops + 1
        /\ UNCHANGED <<disk, mode, cursor, dirty, crashes, errors>>

\* fs_delete; pfs_delete_file zeroes the entry, then frees its run.
FsDelete(n) ==
    /\ UnusedApi /\ Ready /\ vfs[n] # NoFile
    /\ vfs' = [vfs EXCEPT ![n] = NoFile] /\ ops' = ops + 1
    /\ IF SlotsOf(n) = {} THEN UNCHANGED <<cur, step, kept>>
       ELSE /\ cur' = [Idle EXCEPT !.name = n, !.slot = Least(SlotsOf(n)),
                                   !.bitmap = WithoutOldRun(n)]
            /\ step' = "zero" /\ kept' = [kept EXCEPT ![n] = Unknown]
    /\ UNCHANGED <<disk, mode, cursor, dirty, crashes, errors>>

DeleteEntry ==
    /\ step = "zero"
    /\ table' = [table EXCEPT ![cur.slot] = NoEntry]
    /\ step' = "zsuper"
    /\ UNCHANGED <<sbValid, used, nfiles, data, vfs, mode, cursor, cur, kept,
                   dirty, counters>>

\* The kernel recounts the files, the rm command of recovery counts down.
DeleteSuper ==
    /\ step = "zsuper"
    /\ used' = cur.bitmap
    /\ nfiles' = IF mode = "up" THEN Cardinality(Taken)
                 ELSE IF nfiles > 0 THEN nfiles - 1 ELSE 0
    /\ kept' = [kept EXCEPT ![cur.name] = NoFile]
    /\ Finish
    /\ UNCHANGED <<sbValid, table, data, vfs, mode, cursor, dirty, counters>>

\* The kernel ignores a failed write of the entry and frees the run all the
\* same; rm stops.
DeleteError ==
    /\ step \in {"zero", "zsuper"} /\ errors < MaxErrors
    /\ errors' = errors + 1
    /\ IF step = "zero" /\ mode = "up" THEN step' = "zsuper" /\ UNCHANGED cur
                                       ELSE Finish
    /\ UNCHANGED <<disk, vfs, mode, cursor, kept, dirty, ops, crashes>>

-----------------------------------------------------------------------------
(* pfs_init: mount or format, then hydrate                                 *)

Boot ==
    /\ mode = "off" /\ (FsckFirst => ~dirty)
    /\ mode' = IF sbValid THEN "hydrate" ELSE "format"
    /\ cursor' = 0
    /\ UNCHANGED <<disk, vfs, step, cur, kept, dirty, counters>>

FormatEntry ==
    /\ mode = "format" /\ cursor < NSlots
    /\ cursor' = cursor + 1
    /\ \/ table' = [table EXCEPT ![cursor] = NoEntry] /\ UNCHANGED errors
       \/ errors < MaxErrors /\ errors' = errors + 1 /\ UNCHANGED table
    /\ UNCHANGED <<sbValid, used, nfiles, data, vfs, mode, step, cur, kept, dirty,
                   ops, crashes>>

\* When the superblock cannot be written the machine runs without a disk
\* until the next boot, which is "off" to the disk.
FormatSuper ==
    /\ mode = "format" /\ cursor = NSlots
    /\ \/ /\ sbValid' = TRUE /\ used' = {} /\ nfiles' = 0
          /\ mode' = "hydrate" /\ cursor' = 0 /\ UNCHANGED errors
          /\ kept' = [n \in Names |-> OnDisk(n)]
       \/ /\ errors < MaxErrors /\ errors' = errors + 1
          /\ mode' = "off" /\ UNCHANGED <<sbValid, used, nfiles, cursor, kept>>
    /\ UNCHANGED <<table, data, vfs, step, cur, dirty, ops, crashes>>

\* Each entry is read and handed to fs_write, which syncs it back.
Hydrate ==
    /\ mode = "hydrate" /\ step = "idle" /\ cursor < NSlots
    /\ cursor' = cursor + 1
    /\ LET e == table[cursor]
       IN  IF e = NoEntry \/ ~HasRoom(e.name)
             THEN UNCHANGED <<vfs, cur, step>>
             ELSE Sync(e.name, ReadRun(e))
    /\ UNCHANGED <<disk, mode, kept, dirty, counters>>

\* An entry that cannot be read is skipped; a data sector that cannot be read
\* ends the file there, and the short copy is synced back.
HydrateError ==
    /\ mode = "hydrate" /\ step = "idle" /\ cursor < NSlots
    /\ errors < MaxErrors /\ errors' = errors + 1
    /\ cursor' = cursor + 1
    /\ LET e == table[cursor]
       IN  \/ UNCHANGED <<vfs, cur, step>>
          \/ /\ e # NoEntry /\ HasRoom(e.name)
             /\ \E k \in 0 .. e.len - 1 : Sync(e.name, SubSeq(ReadRun(e), 1, k))
    /\ UNCHANGED <<disk, mode, kept, dirty, ops, crashes>>

Mounted ==
    /\ mode = "hydrate" /\ step = "idle" /\ cursor = NSlots
    /\ mode' = "up" /\ cursor' = 0 /\ dirty' = FALSE
    /\ UNCHANGED <<disk, vfs, step, cur, kept, counters>>

Down == vfs' = Blank /\ mode' = "off" /\ cursor' = 0 /\ Finish

Shutdown ==
    /\ mode = "up" /\ step = "idle" /\ Down
    /\ UNCHANGED <<disk, kept, dirty, counters>>

Crash ==
    /\ mode # "off" /\ crashes < MaxCrashes
    /\ step # "idle" \/ mode \in {"format", "hydrate", "recovery"}
    /\ mode = "hydrate" => CrashInBoot
    /\ crashes' = crashes + 1 /\ dirty' = sbValid /\ Down
    /\ UNCHANGED <<disk, kept, ops, errors>>

-----------------------------------------------------------------------------
(* The recovery system does not mount the disk; it reads and repairs it.   *)

Recover ==
    /\ mode = "off" /\ sbValid
    /\ mode' = "recovery"
    /\ UNCHANGED <<disk, vfs, cursor, step, cur, kept, dirty, counters>>

AuditWithoutOverlap ==
    [owned |-> UNION {RunOf(table[i]) : i \in Taken}, drop |-> {}]

AuditShort ==
    [owned |-> UNION {RunOf(table[i]) \ {table[i].start + table[i].len - 1} : i \in Taken},
     drop |-> {}]

\* An entry that is too large, leaves the disk or overlaps one kept before is
\* dropped.  That a name does not end has no place here: names are values.
Damaged(e) == e.len > MaxLen \/ ~(RunOf(e) \subseteq Sectors)

AuditEntry(before, e, i) ==
    IF e = NoEntry THEN before
    ELSE IF Damaged(e) \/ RunOf(e) \cap before.owned # {}
      THEN [before EXCEPT !.drop = @ \cup {i}]
      ELSE [before EXCEPT !.owned = @ \cup RunOf(e)]

\* fsck walks the table in order.
AuditTo[i \in 0 .. NSlots] ==
    IF i = 0 THEN [owned |-> {}, drop |-> {}]
    ELSE AuditEntry(AuditTo[i - 1], table[i - 1], i - 1)

Audit == AuditTo[NSlots]

\* fsck fix
Fsck ==
    /\ mode = "recovery" /\ step = "idle"
    /\ cur' = [Idle EXCEPT !.bitmap = Audit.owned, !.drop = Audit.drop]
    /\ step' = "drop"
    /\ UNCHANGED <<disk, vfs, mode, cursor, kept, dirty, counters>>

FsckDrop ==
    /\ step = "drop" /\ cur.drop # {}
    /\ table' = [table EXCEPT ![Least(cur.drop)] = NoEntry]
    /\ cur' = [cur EXCEPT !.drop = @ \ {Least(cur.drop)}]
    /\ UNCHANGED <<sbValid, used, nfiles, data, vfs, mode, cursor, step, kept,
                   dirty, counters>>

FsckSuper ==
    /\ step = "drop" /\ cur.drop = {}
    /\ used' = cur.bitmap /\ nfiles' = Cardinality(Taken)
    /\ dirty' = FALSE /\ step' = "clean" /\ cur' = Idle
    /\ UNCHANGED <<sbValid, table, data, vfs, mode, cursor, kept, counters>>

FsckError ==
    /\ step = "drop" /\ errors < MaxErrors
    /\ errors' = errors + 1 /\ Finish
    /\ UNCHANGED <<disk, vfs, mode, cursor, kept, dirty, ops, crashes>>

\* rm name
Rm(n) ==
    /\ mode = "recovery" /\ step = "idle" /\ ops < MaxOps /\ SlotsOf(n) # {}
    /\ cur' = [Idle EXCEPT !.name = n, !.slot = Least(SlotsOf(n)),
                           !.bitmap = WithoutOldRun(n)]
    /\ step' = "zero" /\ kept' = [kept EXCEPT ![n] = Unknown] /\ ops' = ops + 1
    /\ UNCHANGED <<disk, vfs, mode, cursor, dirty, crashes, errors>>

LeaveRecovery ==
    /\ mode = "recovery" /\ step \in {"idle", "clean"} /\ Down
    /\ UNCHANGED <<disk, kept, dirty, counters>>

-----------------------------------------------------------------------------
DiskWrite ==
    \/ SyncData \/ SyncEntry \/ SyncSuper \/ SyncError
    \/ DeleteEntry \/ DeleteSuper \/ DeleteError
    \/ FormatEntry \/ FormatSuper
    \/ FsckDrop \/ FsckSuper \/ FsckError

Next ==
    \/ DiskWrite \/ Boot \/ Hydrate \/ HydrateError \/ Mounted \/ Shutdown \/ Crash
    \/ Recover \/ Fsck \/ LeaveRecovery
    \/ \E n \in Names : FsCreate(n) \/ FsDelete(n) \/ Rm(n)
    \/ \E n \in Names, len \in 0 .. MaxLen : FsWrite(n, len) \/ FsAppend(n, len)

Spec == Init /\ [][Next]_vars

-----------------------------------------------------------------------------
\* Every variable has its type; the runs of all entries lie on the disk.
TypeOK ==
    /\ sbValid \in BOOLEAN /\ used \subseteq Sectors /\ nfiles \in 0 .. NSlots
    /\ table \in [Slots -> Entry \cup {NoEntry}]
    /\ \A i \in Taken : RunOf(table[i]) \subseteq Sectors
    /\ data \in [Sectors -> SectorData]
    /\ vfs \in [Names -> Contents \cup {NoFile}]
    /\ kept \in [Names -> Contents \cup {NoFile, Unknown}]
    /\ mode \in {"off", "format", "hydrate", "up", "recovery"}
    /\ cursor \in 0 .. NSlots
    /\ step \in {"idle", "data", "entry", "super", "zero", "zsuper", "drop",
                 "clean"}
    /\ dirty \in BOOLEAN
    /\ ops \in 0 .. MaxOps /\ crashes \in 0 .. MaxCrashes
    /\ errors \in 0 .. MaxErrors

\* A file whose last operation was completed reads back as it was left, and
\* crashes during operations on other files do not change that.  While a file
\* is being hydrated it is moved, so it is only looked at again when the
\* machine is down or done with it (pfs.c:155-231).  It says nothing once a
\* sector could not be written or read: fs_write ignores the result of the sync,
\* and hydration writes back what it could read.
Durable ==
    errors = 0 =>
      \A n \in Names : kept[n] # Unknown /\ sbValid /\ (mode = "off" \/ cur.name # n)
                         => OnDisk(n) = kept[n]

\* Whatever a file reads as, it is made of sectors written for that name:
\* data goes to the disk before the entry that points to it (pfs.c:204-222).
\* As above, up to the first failed write.
NoForeignData ==
    errors = 0 /\ sbValid => \A i \in Taken : \A s \in RunOf(table[i]) :
        data[s].name = table[i].name

\* The bitmap agrees with the table.
Consistent ==
    /\ used = UNION {RunOf(table[i]) : i \in Taken}
    /\ \A i, j \in Taken : i # j =>
         RunOf(table[i]) \cap RunOf(table[j]) = {}
    /\ nfiles = Cardinality(Taken)

\* When no write is under way on a mounted disk and none has failed, the bitmap
\* marks exactly the sectors of the files, no sector belongs to two files and
\* the count is right.
BitmapExact == errors = 0 /\ mode = "up" /\ step = "idle" => Consistent

\* Whatever crashes and write errors left behind, also one inside an earlier
\* fsck, fsck fix ends with a consistent disk (recovery.c:299-352).
FsckCleans == step = "clean" => Consistent

\* The disk is consistent whenever nobody is at work on it: in normal operation
\* without failed writes, and after fsck fix in any case.
DiskConsistent == TypeOK /\ BitmapExact /\ FsckCleans

-----------------------------------------------------------------------------
(* The inductive invariant, in named parts                                 *)

Syncing == step \in {"data", "entry", "super"}
Deleting == step \in {"zero", "zsuper"}
Busy(n) == (Syncing \/ Deleting) /\ cur.name = n

\* The sectors of the entries S, and the run a sync writes
Runs(S) == UNION {RunOf(table[i]) : i \in S}
NewRun == cur.start .. cur.start + Len(vfs[cur.name]) - 1
Apart(S) == \A i, j \in S : i # j => RunOf(table[i]) \cap RunOf(table[j]) = {}

CurType ==
    cur \in [name : Names \cup {NoFile}, slot : Slots, start : 0 .. D,
            k : 0 .. MaxLen, bitmap : SUBSET Sectors, drop : SUBSET Slots]

\* Which steps belong to which mode
StepInv ==
    /\ mode \in {"off", "format"} => step = "idle"
    /\ mode = "format" => ~sbValid
    /\ mode \in {"hydrate", "up", "recovery"} => sbValid
    /\ Syncing => mode \in {"hydrate", "up"}
    /\ Deleting => mode \in {"up", "recovery"}
    /\ step \in {"drop", "clean"} => mode = "recovery"

\* What a sync has written so far is what the file holds in RAM.
SyncInv ==
    /\ Deleting => cur.name \in Names
    /\ Syncing =>
         /\ cur.name \in Names /\ vfs[cur.name] # NoFile
         /\ NewRun \subseteq Sectors
         /\ cur.k <= Len(vfs[cur.name])
         /\ cur.k < Len(vfs[cur.name]) <=> step = "data"
         /\ \A j \in 1 .. cur.k :
              data[cur.start + j - 1] = vfs[cur.name][j]
    /\ step = "super" => table[cur.slot] =
         [name |-> cur.name, len |-> Len(vfs[cur.name]), start |-> cur.start]

\* The entries fsck keeps do not overlap and own its new bitmap.
FsckInv ==
    /\ step = "drop" =>
         /\ cur.drop \subseteq Taken
         /\ Apart(Taken \ cur.drop)
         /\ cur.bitmap = Runs(Taken \ cur.drop)
    /\ step = "clean" => Consistent

\* The disk of a machine that has had no failed write, and on which fsck runs
\* after every crash
Trusted == FsckFirst /\ errors = 0 /\ sbValid

DirtyInv == FsckFirst /\ mode \in {"format", "hydrate", "up"} => ~dirty

FormatInv ==
    errors = 0 /\ mode = "format" =>
        \A i \in Slots : i < cursor => table[i] = NoEntry

\* Files never overlap, have different names and hold only their own data,
\* also in the middle of an operation and after a crash.
LayoutInv ==
    Trusted =>
      /\ Apart(Taken)
      /\ \A i, j \in Taken : i # j => table[i].name # table[j].name
      /\ \A i \in Taken : \A s \in RunOf(table[i]) : data[s].name = table[i].name

VfsInv ==
    FsckFirst /\ errors = 0 => \A n \in Names : vfs[n] # NoFile =>
        \A k \in DOMAIN vfs[n] : vfs[n][k].name = n

\* The bitmap an operation is about to write is the one of the table as it
\* is then; the run it writes to belongs to no other file.
PlanInv ==
    Trusted =>
      /\ step \in {"data", "entry"} =>
           /\ SlotsOf(cur.name) \subseteq {cur.slot}
           /\ cur.slot \in Taken => table[cur.slot].name = cur.name
           /\ NewRun \cap Runs(Taken \ {cur.slot}) = {}
           /\ cur.bitmap = NewRun \cup Runs(Taken \ {cur.slot})
      /\ step = "super" => cur.bitmap = Runs(Taken)
      /\ step = "zero" =>
           /\ SlotsOf(cur.name) = {cur.slot}
           /\ ~dirty => cur.bitmap = Runs(Taken \ {cur.slot})
      /\ step = "zsuper" =>
           /\ SlotsOf(cur.name) = {}
           /\ ~dirty => cur.bitmap = Runs(Taken) /\ nfiles = Cardinality(Taken) + 1
      /\ step = "drop" => cur.drop = {}

\* Unless the machine went down, the superblock lags behind the table only
\* between the write of an entry and its own.
SuperInv ==
    Trusted /\ ~dirty /\ step \notin {"super", "zsuper"} =>
        used = Runs(Taken) /\ nfiles = Cardinality(Taken)

\* A file nobody works on reads as promised; one that is being changed has no
\* promise; one that is being hydrated is written back as it was.
KeptInv ==
    Trusted /\ ~CrashInBoot =>
      /\ \A n \in Names : kept[n] # Unknown /\ ~Busy(n) => OnDisk(n) = kept[n]
      /\ (Syncing \/ Deleting) /\ mode \in {"up", "recovery"}
           => kept[cur.name] = Unknown
      /\ Syncing /\ mode = "hydrate" /\ kept[cur.name] # Unknown
           => vfs[cur.name] = kept[cur.name]

PfsInv ==
    /\ TypeOK /\ CurType /\ StepInv /\ SyncInv /\ FsckInv /\ DirtyInv
    /\ FormatInv /\ LayoutInv /\ VfsInv /\ PlanInv /\ SuperInv /\ KeptInv
=============================================================================
