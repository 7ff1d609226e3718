----------------------------- MODULE PfsProofs ------------------------------
(***************************************************************************)
(* Proofs about the files on the disk, for any number of files, names and  *)
(* sectors and any number of crashes and failed writes: fsck ends with a   *)
(* consistent disk; where it runs after every crash the bitmap is exact,   *)
(* files hold their own data, and what was written is still there.         *)
(***************************************************************************)
EXTENDS Pfs, FiniteSetTheorems, SequenceTheorems, WellFoundedInduction, TLAPS

Locals == [name : Names \cup {NoFile}, slot : Slots, start : 0 .. D,
           k : 0 .. MaxLen, bitmap : SUBSET Sectors, drop : SUBSET Slots]

-----------------------------------------------------------------------------
(* Operators                                                               *)

LEMMA Numbers ==
    /\ NSlots \in Nat \ {0} /\ D \in Nat \ {0} /\ MaxLen \in Nat /\ MaxLen > 0
    /\ MaxLen <= D /\ MaxOps \in Nat /\ MaxErrors \in Nat /\ MaxCrashes \in Nat
    /\ Slots \subseteq Nat /\ 0 \in Slots
BY PfsAssumption DEF Slots

\* A non-empty set of numbers has a least element.
LEMMA LeastIn ==
    ASSUME NEW S, S \subseteq Nat, S # {}
    PROVE  Least(S) \in S /\ \A y \in S : Least(S) <= y
<1>1. PICK x \in S : \A y \in S : ~(<<y, x>> \in OpToRel(<, Nat))
    BY WFMin, NatLessThanWellFounded, Zenon
<1>2. ASSUME NEW y \in S PROVE x <= y
    <2>1. x \in Nat /\ y \in Nat /\ <<y, x>> \in Nat \X Nat
        OBVIOUS
    <2>2. ~(y < x)
        BY <1>1, <2>1 DEF OpToRel
    <2> QED BY <2>1, <2>2
<1> QED BY <1>2 DEF Least

\* The contents of files are the sequences of sectors of bounded length.
LEMMA ContentsAre ==
    /\ \A c \in Contents : c \in Seq(SectorData) /\ Len(c) \in 0 .. MaxLen
    /\ \A c \in Seq(SectorData) : Len(c) <= MaxLen => c \in Contents
<1>1. ASSUME NEW c \in Contents PROVE c \in Seq(SectorData) /\ Len(c) \in 0 .. MaxLen
    <2>1. PICK n \in 0 .. MaxLen : c \in [1 .. n -> SectorData]
        BY DEF Contents
    <2>2. n \in Nat
        BY Numbers
    <2> QED BY <2>1, <2>2
<1>2. ASSUME NEW c \in Seq(SectorData), Len(c) <= MaxLen PROVE c \in Contents
    <2>1. Len(c) \in 0 .. MaxLen /\ c \in [1 .. Len(c) -> SectorData]
        BY <1>2, Numbers
    <2> QED BY <2>1 DEF Contents
<1> QED BY <1>1, <1>2

LEMMA EmptyFile == << >> \in Contents
<1>1. << >> \in Seq(SectorData) /\ Len(<< >>) = 0
    OBVIOUS
<1>2. Len(<< >>) <= MaxLen
    BY <1>1, Numbers
<1> QED BY <1>1, <1>2, ContentsAre, Zenon

LEMMA Markers == NoFile \notin Contents /\ Unknown \notin Contents /\ Unknown # NoFile
BY PfsAssumption

\* An entry of the table and its run
LEMMA EntryFacts ==
    ASSUME TypeOK, NEW i \in Taken
    PROVE  /\ i \in Slots /\ table[i] \in Entry /\ table[i] # NoEntry
           /\ table[i].name \in Names /\ table[i].len \in 0 .. MaxLen
           /\ table[i].start \in 0 .. D /\ RunOf(table[i]) \subseteq Sectors
<1>1. i \in Slots /\ table[i] # NoEntry
    BY DEF Taken
<1>2. table[i] \in Entry
    BY <1>1 DEF TypeOK
<1> QED BY <1>1, <1>2 DEF TypeOK, Entry

LEMMA TakenFinite == IsFiniteSet(Taken) /\ Cardinality(Taken) \in 0 .. NSlots
<1>1. IsFiniteSet(Slots) /\ Cardinality(Slots) = NSlots
    BY Numbers, FS_Interval DEF Slots
<1>2. Taken \subseteq Slots
    BY DEF Taken
<1>3. IsFiniteSet(Taken) /\ Cardinality(Taken) <= Cardinality(Slots)
    BY <1>1, <1>2, FS_Subset
<1>4. Cardinality(Taken) \in Nat
    BY <1>3, FS_CardinalityType
<1> QED BY <1>1, <1>3, <1>4

\* What is read from an entry is the contents of some file.
LEMMA ReadFacts ==
    ASSUME TypeOK, NEW i \in Taken
    PROVE  /\ ReadRun(table[i]) \in Contents /\ ReadRun(table[i]) \in Seq(SectorData)
           /\ Len(ReadRun(table[i])) = table[i].len
           /\ \A k \in 1 .. table[i].len :
                /\ table[i].start + k - 1 \in RunOf(table[i])
                /\ ReadRun(table[i])[k] = data[table[i].start + k - 1]
<1> DEFINE e == table[i]
<1>1. e.len \in Nat /\ e.start \in Nat /\ e.len <= MaxLen /\ RunOf(e) \subseteq Sectors
    BY EntryFacts, Numbers
<1> HIDE DEF e
<1>2. \A k \in 1 .. e.len : e.start + k - 1 \in RunOf(e)
    BY <1>1 DEF RunOf
<1>3. data \in [Sectors -> SectorData]
    BY DEF TypeOK
<1>4. ReadRun(e) \in [1 .. e.len -> SectorData]
    BY <1>1, <1>2, <1>3 DEF ReadRun
<1>5. ReadRun(e) \in Seq(SectorData) /\ Len(ReadRun(e)) = e.len
    BY <1>1, <1>4
<1>6. ReadRun(e) \in Contents
    BY <1>1, <1>5, ContentsAre
<1>7. \A k \in 1 .. e.len : ReadRun(e)[k] = data[e.start + k - 1]
    BY DEF ReadRun
<1> QED BY <1>2, <1>5, <1>6, <1>7 DEF e

LEMMA SlotsOfFacts ==
    ASSUME TypeOK, NEW n
    PROVE  /\ SlotsOf(n) \subseteq Taken /\ SlotsOf(n) \subseteq Slots /\ SlotsOf(n) \subseteq Nat
           /\ SlotsOf(n) # {} =>
                /\ Least(SlotsOf(n)) \in SlotsOf(n) /\ Least(SlotsOf(n)) \in Taken
                /\ table[Least(SlotsOf(n))].name = n
<1>1. SlotsOf(n) \subseteq Taken /\ Taken \subseteq Slots
    BY DEF SlotsOf, Taken
<1>2. SlotsOf(n) \subseteq Nat
    BY <1>1, Numbers
<1>3. SlotsOf(n) # {} => Least(SlotsOf(n)) \in SlotsOf(n)
    BY <1>2, LeastIn
<1> QED BY <1>1, <1>2, <1>3 DEF SlotsOf

LEMMA OnDiskType ==
    ASSUME TypeOK, NEW n
    PROVE  OnDisk(n) \in Contents \cup {NoFile}
BY SlotsOfFacts, ReadFacts DEF OnDisk

\* First fit finds a run of free sectors.
LEMMA FirstFitFacts ==
    ASSUME NEW B, B \subseteq Sectors, NEW n \in 0 .. MaxLen
    PROVE  /\ FirstFit(B, n) \in 0 .. D
           /\ FirstFit(B, n) # 0 \/ n = 0 =>
                FirstFit(B, n) .. FirstFit(B, n) + n - 1 \subseteq Sectors \ B
<1> DEFINE fits == {s \in Sectors : s .. s + n - 1 \subseteq Sectors \ B}
<1>1. CASE n = 0 \/ fits = {}
    <2>1. FirstFit(B, n) = 0
        BY <1>1 DEF FirstFit
    <2>2. n = 0 => 0 .. 0 + n - 1 = {}
        OBVIOUS
    <2> QED BY <2>1, <2>2, Numbers
<1>2. CASE ~(n = 0 \/ fits = {})
    <2>1. FirstFit(B, n) = Least(fits)
        BY <1>2 DEF FirstFit
    <2>2. fits \subseteq Nat
        BY DEF Sectors
    <2>3. Least(fits) \in fits
        BY <1>2, <2>2, LeastIn
    <2> QED BY <2>1, <2>3, Numbers DEF Sectors
<1> QED BY <1>1, <1>2

\* What pfs_sync_file decides before it writes: the entry of that name or a
\* free one, and a run that is free once the old one is given back.
LEMMA PlanFacts ==
    ASSUME TypeOK, NEW n \in Names, NEW c \in Contents, Fits(n, c)
    PROVE  /\ Plan(n, c) \in Locals /\ Plan(n, c).name = n /\ Plan(n, c).k = 0
           /\ Plan(n, c).drop = {} /\ Plan(n, c).slot = SlotFor(n)
           /\ Plan(n, c).start .. Plan(n, c).start + Len(c) - 1
                \subseteq Sectors \ WithoutOldRun(n)
           /\ Plan(n, c).bitmap = WithoutOldRun(n) \cup
                (Plan(n, c).start .. Plan(n, c).start + Len(c) - 1)
           /\ SlotsOf(n) # {} => SlotFor(n) \in SlotsOf(n)
           /\ SlotsOf(n) = {} => SlotFor(n) \in Slots \ Taken
<1> DEFINE start == FirstFit(WithoutOldRun(n), Len(c))
<1>1. WithoutOldRun(n) \subseteq Sectors
    BY DEF WithoutOldRun, TypeOK
<1>2. Len(c) \in 0 .. MaxLen /\ (c # << >> => start # 0) /\ (c = << >> => Len(c) = 0)
    BY ContentsAre DEF Fits
<1>3. start \in 0 .. D /\ start .. start + Len(c) - 1 \subseteq Sectors \ WithoutOldRun(n)
    <2>1. start # 0 \/ Len(c) = 0
        BY <1>2
    <2> QED BY <1>1, <1>2, <2>1, FirstFitFacts
<1> HIDE DEF start
<1>4. SlotFor(n) \in Slots
    BY DEF Fits
<1>5. Plan(n, c) = [name |-> n, slot |-> SlotFor(n), start |-> start, k |-> 0,
                   bitmap |-> WithoutOldRun(n) \cup (start .. start + Len(c) - 1),
                   drop |-> {}]
    BY DEF Plan, start
<1>6. WithoutOldRun(n) \cup (start .. start + Len(c) - 1) \in SUBSET Sectors
    BY <1>1, <1>3
<1>7. 0 \in 0 .. MaxLen /\ {} \in SUBSET Slots /\ n \in Names \cup {NoFile}
    BY Numbers
<1>8. Plan(n, c) \in Locals
    BY <1>3, <1>4, <1>5, <1>6, <1>7 DEF Locals
<1>9. SlotsOf(n) # {} => SlotFor(n) \in SlotsOf(n)
    BY SlotsOfFacts DEF SlotFor
<1>10. SlotsOf(n) = {} => SlotFor(n) \in Slots \ Taken
    <2>1. SUFFICES ASSUME SlotsOf(n) = {} PROVE SlotFor(n) \in Slots \ Taken
        OBVIOUS
    <2>2. CASE Taken = Slots
        BY <1>4, <2>1, <2>2, Numbers DEF SlotFor, Slots
    <2>3. CASE Taken # Slots
        <3>1. Slots \ Taken # {} /\ Slots \ Taken \subseteq Nat
            BY <2>3, Numbers DEF Taken
        <3>2. SlotFor(n) = Least(Slots \ Taken)
            BY <2>1, <2>3 DEF SlotFor
        <3> QED BY <3>1, <3>2, LeastIn
    <2> QED BY <2>2, <2>3
<1> QED BY <1>3, <1>5, <1>8, <1>9, <1>10

-----------------------------------------------------------------------------
(* The audit of fsck                                                       *)

IsAudit(f, m) ==
    f = [i \in 0 .. m |-> IF i = 0 THEN [owned |-> {}, drop |-> {}]
                          ELSE AuditEntry(f[i - 1], table[i - 1], i - 1)]

\* The walk over the table is defined for every length of the table.
LEMMA AuditExists == \A m \in Nat : \E f : IsAudit(f, m)
<1> DEFINE Bad == {m \in Nat : ~ \E f : IsAudit(f, m)}
<1>1. SUFFICES ASSUME Bad # {} PROVE FALSE
    OBVIOUS
<1> DEFINE m == Least(Bad)
<1>2. m \in Bad /\ \A y \in Bad : m <= y
    BY <1>1, LeastIn
<1> HIDE DEF m
<1>3. CASE m = 0
    <2> DEFINE f == [i \in 0 .. 0 |-> [owned |-> {}, drop |-> {}]]
    <2>1. \A i \in 0 .. 0 : i = 0
        OBVIOUS
    <2>2. IsAudit(f, 0)
        BY <2>1 DEF IsAudit
    <2> QED BY <1>2, <1>3, <2>2
<1>4. CASE m # 0
    <2>1. m \in Nat /\ m - 1 \in Nat /\ m - 1 \notin Bad
        BY <1>2, <1>4
    <2>2. PICK f : IsAudit(f, m - 1)
        BY <2>1
    <2> DEFINE f2 == [i \in 0 .. m |-> IF i = m THEN AuditEntry(f[m - 1], table[m - 1], m - 1)
                                        ELSE f[i]]
    <2>3. \A i \in 0 .. m - 1 : f2[i] = f[i]
        BY <2>1
    <2>4. ASSUME NEW i \in 0 .. m
          PROVE  f2[i] = IF i = 0 THEN [owned |-> {}, drop |-> {}]
                         ELSE AuditEntry(f2[i - 1], table[i - 1], i - 1)
        <3>1. CASE i = m
            <4>1. f2[i] = AuditEntry(f[m - 1], table[m - 1], m - 1)
                BY <3>1
            <4>2. f2[m - 1] = f[m - 1]
                BY <2>1, <2>3
            <4> QED BY <1>4, <3>1, <4>1, <4>2
        <3>2. CASE i # m
            <4>1. i \in 0 .. m - 1 /\ f2[i] = f[i]
                BY <2>1, <2>3, <3>2
            <4>2. f[i] = IF i = 0 THEN [owned |-> {}, drop |-> {}]
                         ELSE AuditEntry(f[i - 1], table[i - 1], i - 1)
                BY <2>2, <4>1 DEF IsAudit
            <4>3. i # 0 => f2[i - 1] = f[i - 1]
                BY <2>1, <2>3, <4>1
            <4> QED BY <4>1, <4>2, <4>3
        <3> QED BY <3>1, <3>2
    <2>5. f2 = [i \in 0 .. m |-> f2[i]]
        OBVIOUS
    <2> HIDE DEF f2
    <2>6. IsAudit(f2, m)
        BY <2>4, <2>5 DEF IsAudit
    <2> QED BY <1>2, <2>6
<1> QED BY <1>3, <1>4

LEMMA AuditRule ==
    /\ AuditTo[0] = [owned |-> {}, drop |-> {}]
    /\ \A i \in 1 .. NSlots : AuditTo[i] = AuditEntry(AuditTo[i - 1], table[i - 1], i - 1)
<1>1. PICK f : IsAudit(f, NSlots)
    BY AuditExists, Numbers
<1>2. IsAudit(AuditTo, NSlots)
    BY <1>1 DEF IsAudit, AuditTo
<1>3. \A i \in 0 .. NSlots : AuditTo[i] =
        IF i = 0 THEN [owned |-> {}, drop |-> {}]
        ELSE AuditEntry(AuditTo[i - 1], table[i - 1], i - 1)
    BY <1>2, Zenon DEF IsAudit
<1>4. 0 \in 0 .. NSlots /\ \A i \in 1 .. NSlots : i \in 0 .. NSlots /\ i # 0
    BY Numbers
<1> QED BY <1>3, <1>4, Zenon

\* After i entries: the kept ones do not overlap and own what is marked, and
\* a dropped one overlaps an earlier entry.
Audited(i) ==
    LET seen == {j \in Taken : j < i}
    IN  /\ AuditTo[i] = [owned |-> AuditTo[i].owned, drop |-> AuditTo[i].drop]
        /\ AuditTo[i].drop \subseteq seen
        /\ Apart(seen \ AuditTo[i].drop)
        /\ AuditTo[i].owned = Runs(seen \ AuditTo[i].drop)
        /\ \A j \in AuditTo[i].drop : \E k \in Taken :
             k # j /\ RunOf(table[k]) \cap RunOf(table[j]) # {}

LEMMA AuditNext ==
    ASSUME TypeOK, NEW i \in 0 .. NSlots - 1, Audited(i)
    PROVE  Audited(i + 1)
<1> DEFINE S == {j \in Taken : j < i}
           T == {j \in Taken : j < i + 1}
           old == AuditTo[i]
           new == AuditTo[i + 1]
           e == table[i]
<1>1. new = AuditEntry(old, e, i)
    <2>1. i + 1 \in 1 .. NSlots /\ (i + 1) - 1 = i
        BY Numbers
    <2> QED BY <2>1, AuditRule
<1>2. i \in Slots /\ Taken \subseteq Nat
    BY Numbers DEF Slots, Taken
<1>3. /\ old = [owned |-> old.owned, drop |-> old.drop]
      /\ old.drop \subseteq S
      /\ Apart(S \ old.drop)
      /\ old.owned = Runs(S \ old.drop)
      /\ \A j \in old.drop : \E k \in Taken :
           k # j /\ RunOf(table[k]) \cap RunOf(table[j]) # {}
    BY DEF Audited
<1>4. i \notin S
    BY <1>2
<1>d. e # NoEntry => ~Damaged(e)
    BY <1>2, Numbers DEF TypeOK, Taken, Entry, Damaged
<1> HIDE DEF old, new
<1>5. CASE e = NoEntry
    <2>1. new = old
        BY <1>1, <1>5 DEF AuditEntry
    <2>2. T = S
        BY <1>2, <1>5 DEF Taken
    <2> QED BY <1>3, <2>1, <2>2 DEF Audited, new
<1>6. CASE e # NoEntry /\ RunOf(e) \cap old.owned # {}
    <2>1. new = [owned |-> old.owned, drop |-> old.drop \cup {i}]
        BY <1>1, <1>3, <1>6, <1>d DEF AuditEntry
    <2>2. T = S \cup {i} /\ i \in Taken
        BY <1>2, <1>6 DEF Taken
    <2>3. T \ new.drop = S \ old.drop /\ new.drop \subseteq T /\ new.owned = old.owned
        BY <1>3, <1>4, <2>1, <2>2
    <2>4. \E k \in Taken : k # i /\ RunOf(table[k]) \cap RunOf(table[i]) # {}
        <3>1. PICK s : s \in RunOf(e) /\ s \in Runs(S \ old.drop)
            BY <1>3, <1>6
        <3>2. PICK k \in S \ old.drop : s \in RunOf(table[k])
            BY <3>1 DEF Runs
        <3>3. k \in Taken /\ k # i
            BY <1>4
        <3> QED BY <3>1, <3>2, <3>3
    <2>5. \A j \in new.drop : \E k \in Taken :
            k # j /\ RunOf(table[k]) \cap RunOf(table[j]) # {}
        BY <1>3, <2>1, <2>4
    <2> QED BY <1>3, <2>1, <2>3, <2>5 DEF Audited, new
<1>7. CASE e # NoEntry /\ RunOf(e) \cap old.owned = {}
    <2>1. new = [owned |-> old.owned \cup RunOf(e), drop |-> old.drop]
        BY <1>1, <1>3, <1>7, <1>d DEF AuditEntry
    <2>2. T = S \cup {i} /\ i \in Taken
        BY <1>2, <1>7 DEF Taken
    <2>3. T \ new.drop = (S \ old.drop) \cup {i} /\ new.drop \subseteq T
        BY <1>3, <1>4, <2>1, <2>2
    <2>4. new.owned = Runs(T \ new.drop)
        BY <1>3, <2>1, <2>3 DEF Runs
    <2>5. \A j \in S \ old.drop : RunOf(table[j]) \cap RunOf(table[i]) = {}
        BY <1>3, <1>7 DEF Runs
    <2>6. Apart(T \ new.drop)
        BY <1>3, <2>3, <2>5 DEF Apart
    <2> QED BY <1>3, <2>1, <2>3, <2>4, <2>6 DEF Audited, new
<1> QED BY <1>5, <1>6, <1>7

\* What fsck is about to repair: it keeps disjoint entries, and drops none
\* when nothing overlaps.
LEMMA AuditFacts ==
    ASSUME TypeOK
    PROVE  /\ Audit.drop \subseteq Taken
           /\ Apart(Taken \ Audit.drop)
           /\ Audit.owned = Runs(Taken \ Audit.drop)
           /\ Apart(Taken) => Audit.drop = {}
<1> DEFINE Bad == {m \in Nat : m <= NSlots /\ ~Audited(m)}
<1>1. Audited(0)
    <2>1. {j \in Taken : j < 0} = {}
        <3>1. Taken \subseteq Nat
            BY Numbers DEF Taken
        <3>2. ASSUME NEW j \in Taken, j < 0 PROVE FALSE
            BY <3>1, <3>2
        <3> QED BY <3>2
    <2> QED BY <2>1, AuditRule DEF Audited, Apart, Runs
<1>2. ASSUME Bad # {} PROVE FALSE
    <2> DEFINE m == Least(Bad)
    <2>1. m \in Bad /\ \A y \in Bad : m <= y
        BY <1>2, LeastIn
    <2> HIDE DEF m
    <2>2. m \in Nat /\ m <= NSlots /\ m # 0 /\ m - 1 \notin Bad
        BY <1>1, <2>1
    <2>3. m - 1 \in 0 .. NSlots - 1 /\ m - 1 \in Nat /\ m - 1 <= NSlots /\ (m - 1) + 1 = m
        BY <2>2, Numbers
    <2>4. Audited(m - 1)
        BY <2>2, <2>3
    <2>5. Audited((m - 1) + 1)
        BY <2>3, <2>4, AuditNext
    <2> QED BY <2>1, <2>3, <2>5
<1>3. Audited(NSlots)
    BY <1>2, Numbers
<1>4. {j \in Taken : j < NSlots} = Taken
    BY Numbers DEF Taken, Slots
<1>5. /\ Audit.drop \subseteq Taken
      /\ Apart(Taken \ Audit.drop)
      /\ Audit.owned = Runs(Taken \ Audit.drop)
      /\ \A j \in Audit.drop : \E k \in Taken :
             k # j /\ RunOf(table[k]) \cap RunOf(table[j]) # {}
    BY <1>3, <1>4 DEF Audited, Audit
<1>6. ASSUME Apart(Taken) PROVE Audit.drop = {}
    <2>1. ASSUME NEW j \in Audit.drop PROVE FALSE
        <3>1. PICK k \in Taken : k # j /\ RunOf(table[k]) \cap RunOf(table[j]) # {}
            BY <1>5
        <3> QED BY <1>5, <1>6, <3>1 DEF Apart
    <2> QED BY <2>1
<1> QED BY <1>5, <1>6

-----------------------------------------------------------------------------
(* The kinds of steps                                                      *)

\* Steps that write nothing and leave no operation under way
Quiet ==
    \/ SyncError \/ DeleteError \/ FsckError \/ Boot \/ Mounted \/ Shutdown \/ Crash
    \/ Recover \/ LeaveRecovery \/ \E n \in Names : FsCreate(n)

LEMMA QuietFacts ==
    ASSUME PfsInv, Quiet
    PROVE  /\ UNCHANGED disk /\ errors' \in 0 .. MaxErrors /\ (errors' = 0 => errors = 0)
           /\ \/ step' = "idle"
              \/ /\ step = "zero" /\ step' = "zsuper" /\ errors' # 0
                 /\ UNCHANGED <<cur, vfs, mode, dirty>>
<1>1. errors \in 0 .. MaxErrors /\ MaxErrors \in Nat
    BY Numbers DEF PfsInv, TypeOK
<1>2. CASE SyncError
    BY <1>1, <1>2 DEF SyncError, Finish, disk
<1>3. CASE DeleteError
    BY <1>1, <1>3 DEF DeleteError, Finish, disk
<1>4. CASE FsckError
    BY <1>1, <1>4 DEF FsckError, Finish, disk
<1>5. CASE Boot \/ Recover
    BY <1>1, <1>5 DEF Boot, Recover, disk, counters, PfsInv, StepInv
<1>6. CASE Mounted
    BY <1>1, <1>6 DEF Mounted, disk, counters
<1>7. CASE Shutdown \/ LeaveRecovery \/ Crash
    BY <1>1, <1>7 DEF Shutdown, LeaveRecovery, Crash, Down, Finish, disk, counters
<1>8. CASE \E n \in Names : FsCreate(n)
    BY <1>1, <1>8 DEF FsCreate, Ready, disk
<1> QED BY <1>2, <1>3, <1>4, <1>5, <1>6, <1>7, <1>8 DEF Quiet

\* The start of a sync, by a program or by hydration
BeginSync(n, c) ==
    /\ step = "idle" /\ mode \in {"up", "hydrate"}
    /\ Sync(n, c) /\ UNCHANGED <<disk, mode, dirty>>
    /\ errors' \in 0 .. MaxErrors /\ (errors' = 0 => errors = 0)
    /\ (FsckFirst /\ errors' = 0 => \A k \in DOMAIN c : c[k].name = n)
    /\ mode = "up" => kept' = IF Fits(n, c) THEN [kept EXCEPT ![n] = Unknown] ELSE kept
    /\ mode = "hydrate" => kept' = kept
    /\ mode = "hydrate" /\ Trusted' /\ ~CrashInBoot /\ kept[n] # Unknown => c = kept[n]

\* An entry that hydration passes over
Skip ==
    /\ step = "idle" /\ mode = "hydrate" /\ UNCHANGED <<disk, mode, dirty, vfs, cur, step, kept>>
    /\ errors' \in 0 .. MaxErrors /\ (errors' = 0 => errors = 0)

LEMMA OwnRead ==
    ASSUME PfsInv, Trusted, NEW i \in Taken
    PROVE  /\ \A k \in DOMAIN ReadRun(table[i]) : ReadRun(table[i])[k].name = table[i].name
           /\ OnDisk(table[i].name) = ReadRun(table[i])
<1> DEFINE n == table[i].name
<1>0. TypeOK
    BY DEF PfsInv
<1>1. /\ \A a, b \in Taken : a # b => table[a].name # table[b].name
      /\ \A a \in Taken : \A s \in RunOf(table[a]) : data[s].name = table[a].name
    BY DEF PfsInv, LayoutInv
<1>2. DOMAIN ReadRun(table[i]) = 1 .. table[i].len
    BY DEF ReadRun
<1>3. \A k \in DOMAIN ReadRun(table[i]) : ReadRun(table[i])[k].name = table[i].name
    BY <1>0, <1>1, <1>2, ReadFacts
<1>4. SlotsOf(n) = {i}
    BY <1>1 DEF SlotsOf
<1>5. Least(SlotsOf(n)) \in SlotsOf(n)
    BY <1>0, <1>4, SlotsOfFacts
<1>6. OnDisk(n) = ReadRun(table[i])
    BY <1>4, <1>5 DEF OnDisk
<1> QED BY <1>3, <1>6

LEMMA HydrateSyncs ==
    ASSUME PfsInv, mode = "hydrate", step = "idle", cursor < NSlots,
           table[cursor] # NoEntry, NEW k \in Nat, k <= table[cursor].len,
           errors' = 0 => errors = 0 /\ k = table[cursor].len,
           errors' \in 0 .. MaxErrors,
           Sync(table[cursor].name, SubSeq(ReadRun(table[cursor]), 1, k)),
           UNCHANGED <<disk, mode, dirty, kept>>
    PROVE  \E n \in Names, c \in Contents : BeginSync(n, c)
<1> DEFINE e == table[cursor]
           n == e.name
           r == ReadRun(e)
           c == SubSeq(r, 1, k)
<1>0. TypeOK /\ cursor \in Taken
    BY Numbers DEF PfsInv, TypeOK, Taken, Slots
<1>1. n \in Names /\ e.len \in 0 .. MaxLen
    BY <1>0, EntryFacts
<1>2. r \in Seq(SectorData) /\ Len(r) = e.len
    BY <1>0, ReadFacts
<1> HIDE DEF r, e
<1>3. c \in Seq(SectorData) /\ Len(c) = k /\ \A j \in 1 .. k : c[j] = r[j]
    BY <1>1, <1>2 DEF e
<1>4. c \in Contents
    <2>1. Len(c) <= MaxLen
        BY <1>1, <1>3, Numbers DEF e
    <2> QED BY <1>3, <2>1, ContentsAre
<1>5. ASSUME FsckFirst, errors' = 0
      PROVE  /\ \A j \in DOMAIN c : c[j].name = n
             /\ OnDisk(n) = c
    <2>1. Trusted
        BY <1>5 DEF Trusted, PfsInv, StepInv
    <2>2. (\A j \in DOMAIN r : r[j].name = n) /\ OnDisk(n) = r
        BY <1>0, <2>1, OwnRead DEF e, r
    <2>3. k = Len(r) /\ DOMAIN c = 1 .. k /\ DOMAIN r = 1 .. k
        BY <1>2, <1>3, <1>5 DEF e
    <2>4. c = r
        BY <1>2, <1>3, <2>3
    <2> QED BY <2>2, <2>4
<1>6. ASSUME Trusted', ~CrashInBoot, kept[n] # Unknown PROVE c = kept[n]
    <2>1. Trusted /\ OnDisk(n) = c
        BY <1>5, <1>6 DEF Trusted, PfsInv, StepInv
    <2>2. ~Busy(n)
        BY DEF Busy, Syncing, Deleting
    <2>3. OnDisk(n) = kept[n]
        BY <1>1, <1>6, <2>1, <2>2 DEF PfsInv, KeptInv
    <2> QED BY <2>1, <2>3
<1>7. Sync(n, c)
    BY DEF e, r
<1> HIDE DEF c
<1>8. BeginSync(n, c)
    BY <1>5, <1>6, <1>7 DEF BeginSync
<1> QED BY <1>1, <1>4, <1>8

LEMMA HydrateFacts ==
    ASSUME PfsInv, Hydrate \/ HydrateError
    PROVE  Skip \/ \E n \in Names, c \in Contents : BeginSync(n, c)
<1> DEFINE e == table[cursor]
<1>0. TypeOK /\ errors \in 0 .. MaxErrors /\ MaxErrors \in Nat
    BY Numbers DEF PfsInv, TypeOK
<1>1. CASE Hydrate
    <2>1. /\ mode = "hydrate" /\ step = "idle" /\ cursor < NSlots
          /\ UNCHANGED <<disk, mode, dirty, kept>> /\ errors' = errors
        BY <1>1 DEF Hydrate, counters
    <2>2. CASE UNCHANGED <<vfs, cur, step>>
        BY <1>0, <2>1, <2>2 DEF Skip
    <2>3. CASE e # NoEntry /\ Sync(e.name, ReadRun(e))
        <3>1. cursor \in Taken
            BY <1>0, <2>1, <2>3, Numbers DEF TypeOK, Taken, Slots
        <3>2. e.len \in Nat /\ ReadRun(e) \in Seq(SectorData) /\ Len(ReadRun(e)) = e.len
            BY <1>0, <3>1, ReadFacts, EntryFacts
        <3>3. SubSeq(ReadRun(e), 1, e.len) = ReadRun(e)
            BY <3>2
        <3>4. Sync(e.name, SubSeq(ReadRun(e), 1, e.len))
            BY <2>3, <3>3, Zenon
        <3>5. e.len <= e.len
            BY <3>2
        <3> QED BY <1>0, <2>1, <2>3, <3>2, <3>4, <3>5, HydrateSyncs
    <2> QED BY <1>1, <2>2, <2>3 DEF Hydrate
<1>2. CASE HydrateError
    <2>1. /\ mode = "hydrate" /\ step = "idle" /\ cursor < NSlots
          /\ UNCHANGED <<disk, mode, dirty, kept>> /\ errors' = errors + 1
          /\ errors < MaxErrors
        BY <1>2 DEF HydrateError
    <2>2. CASE UNCHANGED <<vfs, cur, step>>
        BY <1>0, <2>1, <2>2 DEF Skip
    <2>3. ASSUME e # NoEntry, NEW k \in 0 .. e.len - 1, Sync(e.name, SubSeq(ReadRun(e), 1, k))
          PROVE  \E n \in Names, c \in Contents : BeginSync(n, c)
        <3>1. cursor \in Taken
            BY <1>0, <2>1, <2>3, Numbers DEF TypeOK, Taken, Slots
        <3>2. e.len \in Nat
            BY <1>0, <3>1, EntryFacts
        <3>3. k \in Nat /\ k <= e.len
            BY <3>2
        <3> QED BY <1>0, <2>1, <2>3, <3>3, HydrateSyncs
    <2> QED BY <1>2, <2>2, <2>3 DEF HydrateError
<1> QED BY <1>1, <1>2

LEMMA NewSectorsFacts ==
    ASSUME NEW n \in Names, NEW from \in 1 .. MaxLen + 1, NEW to \in 0 .. MaxLen,
           from <= to + 1, ops \in 0 .. MaxOps, ops < MaxOps
    PROVE  /\ NewSectors(n, from, to) \in Seq(SectorData)
           /\ Len(NewSectors(n, from, to)) = to - from + 1
           /\ \A k \in 1 .. to - from + 1 : NewSectors(n, from, to)[k].name = n
<1> DEFINE s == NewSectors(n, from, to)
           m == to - from + 1
<1>1. m \in Nat
    BY Numbers
<1>2. ASSUME NEW k \in 1 .. m
      PROVE  [name |-> n, op |-> ops + 1, at |-> from + k - 1] \in SectorData
    <2>1. ops + 1 \in 0 .. MaxOps /\ from + k - 1 \in 1 .. MaxLen
        BY Numbers
    <2> QED BY <2>1 DEF SectorData
<1>3. s = [k \in 1 .. m |-> [name |-> n, op |-> ops + 1, at |-> from + k - 1]]
    BY DEF NewSectors
<1> HIDE DEF s, m
<1>4. s \in [1 .. m -> SectorData] /\ \A k \in 1 .. m : s[k].name = n
    BY <1>2, <1>3
<1>5. s \in Seq(SectorData) /\ Len(s) = m
    BY <1>1, <1>4
<1> QED BY <1>4, <1>5 DEF s, m

\* fs_write and fs_append start a sync with contents made for that name.
LEMMA WriteSyncs ==
    ASSUME PfsInv, NEW n \in Names, NEW len \in 0 .. MaxLen,
           FsWrite(n, len) \/ FsAppend(n, len)
    PROVE  \E c \in Contents : BeginSync(n, c)
<1>0. /\ TypeOK /\ errors \in 0 .. MaxErrors /\ ops \in 0 .. MaxOps /\ mode = "up"
      /\ step = "idle" /\ ops < MaxOps /\ UNCHANGED <<disk, mode, dirty, errors>>
    BY DEF PfsInv, TypeOK, FsWrite, FsAppend, Ready
<1>1. SUFFICES ASSUME NEW c \in Contents, Sync(n, c), AtRisk(n, c),
                      FsckFirst /\ errors' = 0 => \A k \in DOMAIN c : c[k].name = n
               PROVE  BeginSync(n, c)
    <2>1. CASE FsWrite(n, len)
        <3> DEFINE c == NewSectors(n, 1, len)
        <3>1. /\ c \in Seq(SectorData) /\ Len(c) = len
              /\ \A k \in 1 .. len : c[k].name = n
            <4>1. 1 \in 1 .. MaxLen + 1 /\ 1 <= len + 1 /\ len - 1 + 1 = len
                BY Numbers
            <4> QED BY <1>0, <4>1, NewSectorsFacts
        <3>2. Sync(n, c) /\ AtRisk(n, c)
            BY <2>1 DEF FsWrite
        <3> HIDE DEF c
        <3>3. c \in Contents /\ DOMAIN c = 1 .. len
            BY <3>1, ContentsAre
        <3> QED BY <1>1, <3>1, <3>2, <3>3
    <2>2. CASE FsAppend(n, len)
        <3> DEFINE old == IF vfs[n] = NoFile THEN << >> ELSE vfs[n]
                   whole == IF old = << >> THEN 0 ELSE Len(old) - 1
                   head == SubSeq(old, 1, whole)
                   tail == NewSectors(n, whole + 1, len)
                   c == head \o tail
        <3>1. len >= Len(old) /\ len > 0 /\ Sync(n, c) /\ AtRisk(n, c)
            BY <2>2 DEF FsAppend
        <3>2. old \in Contents
            <4>1. << >> \in Contents
                BY EmptyFile
            <4> QED BY <1>0, <4>1 DEF TypeOK
        <3>3. old \in Seq(SectorData) /\ Len(old) \in 0 .. MaxLen
            BY <3>2, ContentsAre
        <3>4. FsckFirst /\ errors' = 0 => \A k \in 1 .. Len(old) : old[k].name = n
            <4>1. SUFFICES ASSUME FsckFirst, errors' = 0
                           PROVE  \A k \in 1 .. Len(old) : old[k].name = n
                OBVIOUS
            <4>2. CASE vfs[n] = NoFile
                BY <4>2
            <4>3. CASE vfs[n] # NoFile
                BY <1>0, <3>3, <4>1, <4>3 DEF PfsInv, VfsInv
            <4> QED BY <4>2, <4>3
        <3> HIDE DEF old
        <3>5. /\ whole \in 0 .. MaxLen /\ whole <= Len(old) /\ whole + 1 \in 1 .. MaxLen + 1
              /\ whole + 1 <= len + 1 /\ (len - (whole + 1)) + 1 = len - whole
            <4>1. CASE old = << >>
                BY <4>1, <3>3, Numbers
            <4>2. CASE old # << >>
                <5>1. Len(old) > 0
                    BY <3>3, <4>2
                <5> QED BY <3>1, <3>3, <4>2, <5>1, Numbers
            <4> QED BY <4>1, <4>2
        <3> HIDE DEF whole
        <3>6. /\ head \in Seq(SectorData) /\ Len(head) = whole
              /\ \A k \in 1 .. whole : head[k] = old[k]
            BY <3>3, <3>5
        <3>7. /\ tail \in Seq(SectorData) /\ Len(tail) = len - whole
              /\ \A k \in 1 .. len - whole : tail[k].name = n
            <4>1. /\ tail \in Seq(SectorData) /\ Len(tail) = (len - (whole + 1)) + 1
                  /\ \A k \in 1 .. (len - (whole + 1)) + 1 : tail[k].name = n
                BY <1>0, <3>5, NewSectorsFacts
            <4> QED BY <3>5, <4>1
        <3> HIDE DEF head, tail
        <3>8. /\ c \in Seq(SectorData) /\ Len(c) = len
              /\ \A k \in 1 .. whole : c[k] = head[k]
              /\ \A k \in whole + 1 .. len : c[k] = tail[k - whole]
            BY <3>5, <3>6, <3>7, SMTT(30)
        <3> HIDE DEF c
        <3>9. c \in Contents /\ DOMAIN c = 1 .. len
            BY <3>8, ContentsAre
        <3>10. ASSUME FsckFirst, errors' = 0, NEW k \in 1 .. len PROVE c[k].name = n
            <4>1. CASE k <= whole
                <5>1. k \in 1 .. whole /\ k \in 1 .. Len(old)
                    BY <3>3, <3>5, <4>1
                <5> QED BY <3>4, <3>6, <3>8, <3>10, <5>1
            <4>2. CASE k > whole
                <5>1. k \in whole + 1 .. len /\ k - whole \in 1 .. len - whole
                    BY <3>5, <4>2
                <5> QED BY <3>7, <3>8, <5>1
            <4> QED BY <3>5, <4>1, <4>2
        <3> QED BY <1>1, <3>1, <3>9, <3>10
    <2> QED BY <2>1, <2>2
<1> QED BY <1>0, <1>1 DEF BeginSync, AtRisk

\* The start of fs_delete and of rm, and fs_delete of a file that is only in RAM
BeginDelete(n) ==
    /\ step = "idle" /\ mode \in {"up", "recovery"} /\ SlotsOf(n) # {}
    /\ cur' = [Idle EXCEPT !.name = n, !.slot = Least(SlotsOf(n)),
                           !.bitmap = WithoutOldRun(n)]
    /\ step' = "zero" /\ kept' = [kept EXCEPT ![n] = Unknown]
    /\ vfs' \in {vfs, [vfs EXCEPT ![n] = NoFile]}
    /\ UNCHANGED <<disk, mode, dirty, errors>>

Forget(n) ==
    /\ step = "idle" /\ mode = "up" /\ vfs' = [vfs EXCEPT ![n] = NoFile]
    /\ UNCHANGED <<disk, cur, step, kept, mode, dirty, errors>>

LEMMA DeleteFacts ==
    ASSUME NEW n \in Names, FsDelete(n) \/ Rm(n)
    PROVE  BeginDelete(n) \/ Forget(n)
BY DEF FsDelete, Rm, BeginDelete, Forget, Ready

LEMMA Kinds ==
    ASSUME PfsInv, [Next]_vars
    PROVE  \/ UNCHANGED vars \/ Quiet \/ Skip
           \/ \E n \in Names, c \in Contents : BeginSync(n, c)
           \/ \E n \in Names : BeginDelete(n) \/ Forget(n)
           \/ SyncData \/ SyncEntry \/ SyncSuper \/ DeleteEntry \/ DeleteSuper
           \/ FormatEntry \/ FormatSuper \/ Fsck \/ FsckDrop \/ FsckSuper
<1>1. CASE Hydrate \/ HydrateError
    BY <1>1, HydrateFacts
<1>2. ASSUME NEW n \in Names, NEW len \in 0 .. MaxLen, FsWrite(n, len) \/ FsAppend(n, len)
      PROVE  \E m \in Names, c \in Contents : BeginSync(m, c)
    BY <1>2, WriteSyncs
<1>3. ASSUME NEW n \in Names, FsDelete(n) \/ Rm(n) PROVE BeginDelete(n) \/ Forget(n)
    BY <1>3, DeleteFacts
<1>4. ASSUME NEW n \in Names, FsCreate(n) PROVE Quiet
    BY <1>4 DEF Quiet
<1> QED BY <1>1, <1>2, <1>3, <1>4 DEF Next, DiskWrite, Quiet

LEMMA SyncStarted ==
    ASSUME PfsInv, NEW n \in Names, NEW c \in Contents, BeginSync(n, c)
    PROVE  /\ vfs' \in [Names -> Contents \cup {NoFile}] /\ vfs'[n] = c
           /\ \A m \in Names : m # n => vfs'[m] = vfs[m]
           /\ \/ UNCHANGED <<cur, step>> /\ ~Fits(n, c)
              \/ /\ Fits(n, c) /\ cur' = Plan(n, c)
                 /\ step' = IF c = << >> THEN "entry" ELSE "data"
<1>1. vfs \in [Names -> Contents \cup {NoFile}] /\ vfs' = [vfs EXCEPT ![n] = c]
    BY DEF PfsInv, TypeOK, BeginSync, Sync
<1>2. \/ UNCHANGED <<cur, step>> /\ ~Fits(n, c)
      \/ /\ Fits(n, c) /\ cur' = Plan(n, c)
         /\ step' = IF c = << >> THEN "entry" ELSE "data"
    BY DEF BeginSync, Sync
<1> QED BY <1>1, <1>2

-----------------------------------------------------------------------------
(* Control                                                                 *)

LEMMA StepInvStep ==
    ASSUME PfsInv, [Next]_vars
    PROVE  StepInv'
<1>0. StepInv /\ TypeOK
    BY DEF PfsInv
<1>1. CASE UNCHANGED vars \/ Skip
    BY <1>0, <1>1 DEF StepInv, Syncing, Deleting, vars, disk, Skip
<1>2. CASE SyncError \/ DeleteError \/ FsckError
    BY <1>0, <1>2 DEF SyncError, DeleteError, FsckError, Finish, StepInv, Syncing, Deleting, disk
<1>3. CASE Boot \/ Recover \/ Mounted
    BY <1>0, <1>3 DEF Boot, Recover, Mounted, StepInv, Syncing, Deleting, disk, TypeOK
<1>4. CASE Shutdown \/ Crash \/ LeaveRecovery
    BY <1>0, <1>4 DEF Shutdown, Crash, LeaveRecovery, Down, Finish, StepInv, Syncing, Deleting, disk
<1>5. CASE \E n \in Names : FsCreate(n)
    BY <1>0, <1>5 DEF FsCreate, StepInv, Syncing, Deleting, disk
<1>6. ASSUME NEW n \in Names, NEW c \in Contents, BeginSync(n, c) PROVE StepInv'
    <2>1. step' \in {"idle", "data", "entry"} /\ mode' \in {"up", "hydrate"} /\ sbValid' = sbValid
          /\ mode' = mode
        BY <1>6, SyncStarted DEF BeginSync, disk
    <2> QED BY <1>0, <2>1 DEF StepInv, Syncing, Deleting
<1>7. ASSUME NEW n \in Names, BeginDelete(n) \/ Forget(n) PROVE StepInv'
    BY <1>0, <1>7 DEF BeginDelete, Forget, StepInv, Syncing, Deleting, disk
<1>8. CASE SyncData \/ SyncEntry \/ SyncSuper
    BY <1>0, <1>8 DEF SyncData, SyncEntry, SyncSuper, Finish, StepInv, Syncing, Deleting
<1>9. CASE DeleteEntry \/ DeleteSuper
    BY <1>0, <1>9 DEF DeleteEntry, DeleteSuper, Finish, StepInv, Syncing, Deleting
<1>10. CASE FormatEntry \/ FormatSuper
    BY <1>0, <1>10 DEF FormatEntry, FormatSuper, StepInv, Syncing, Deleting
<1>11. CASE Fsck \/ FsckDrop \/ FsckSuper
    BY <1>0, <1>11 DEF Fsck, FsckDrop, FsckSuper, StepInv, Syncing, Deleting, disk
<1> QED BY <1>1, <1>2, <1>3, <1>4, <1>5, <1>6, <1>7, <1>8, <1>9, <1>10, <1>11, Kinds DEF Quiet

LEMMA DirtyStep ==
    ASSUME PfsInv, [Next]_vars
    PROVE  DirtyInv'
<1>0. DirtyInv /\ TypeOK /\ StepInv
    BY DEF PfsInv
<1>1. CASE UNCHANGED vars \/ Skip
    BY <1>0, <1>1 DEF DirtyInv, vars, Skip
<1>2. CASE SyncError \/ DeleteError \/ FsckError
    BY <1>0, <1>2 DEF SyncError, DeleteError, FsckError, DirtyInv
<1>3. CASE Boot \/ Recover \/ Mounted
    BY <1>0, <1>3 DEF Boot, Recover, Mounted, DirtyInv
<1>4. CASE Shutdown \/ Crash \/ LeaveRecovery
    BY <1>0, <1>4 DEF Shutdown, Crash, LeaveRecovery, Down, DirtyInv
<1>5. CASE \E n \in Names : FsCreate(n)
    BY <1>0, <1>5 DEF FsCreate, DirtyInv
<1>6. ASSUME NEW n \in Names, NEW c \in Contents, BeginSync(n, c) PROVE DirtyInv'
    BY <1>0, <1>6 DEF BeginSync, DirtyInv
<1>7. ASSUME NEW n \in Names, BeginDelete(n) \/ Forget(n) PROVE DirtyInv'
    BY <1>0, <1>7 DEF BeginDelete, Forget, DirtyInv
<1>8. CASE SyncData \/ SyncEntry \/ SyncSuper
    BY <1>0, <1>8 DEF SyncData, SyncEntry, SyncSuper, DirtyInv
<1>9. CASE DeleteEntry \/ DeleteSuper
    BY <1>0, <1>9 DEF DeleteEntry, DeleteSuper, DirtyInv
<1>10. CASE FormatEntry \/ FormatSuper
    BY <1>0, <1>10 DEF FormatEntry, FormatSuper, DirtyInv
<1>11. CASE Fsck \/ FsckDrop \/ FsckSuper
    BY <1>0, <1>11 DEF Fsck, FsckDrop, FsckSuper, DirtyInv
<1> QED BY <1>1, <1>2, <1>3, <1>4, <1>5, <1>6, <1>7, <1>8, <1>9, <1>10, <1>11, Kinds DEF Quiet

\* Formatting empties the entries it has passed.
LEMMA FormatStep ==
    ASSUME PfsInv, [Next]_vars
    PROVE  FormatInv'
<1>0. FormatInv /\ TypeOK /\ StepInv
    BY DEF PfsInv
<1>1. SUFFICES ASSUME errors' = 0, mode' = "format", NEW i \in Slots, i < cursor'
               PROVE  table'[i] = NoEntry
    BY DEF FormatInv
<1>2. StepInv' /\ errors \in Nat
    BY <1>0, StepInvStep, Numbers DEF TypeOK
<1>3. i \in Nat /\ cursor \in Nat
    BY <1>0, Numbers DEF TypeOK
<1>4. CASE FormatEntry
    <2>1. errors' # errors + 1
        BY <1>1, <1>2
    <2>2. /\ table' = [table EXCEPT ![cursor] = NoEntry] /\ errors = 0 /\ cursor' = cursor + 1
          /\ mode = "format" /\ table \in [Slots -> Entry \cup {NoEntry}]
        BY <1>0, <1>1, <1>4, <2>1 DEF FormatEntry, TypeOK
    <2>3. CASE i = cursor
        BY <2>2, <2>3
    <2>4. CASE i # cursor
        <3>1. i < cursor
            BY <1>1, <1>3, <2>2, <2>4
        <3> QED BY <1>0, <2>2, <2>4, <3>1 DEF FormatInv
    <2> QED BY <2>3, <2>4
<1>5. CASE UNCHANGED vars
    BY <1>0, <1>1, <1>5 DEF FormatInv, vars, disk, counters
<1>6. CASE Boot
    BY <1>1, <1>3, <1>6 DEF Boot
<1>7. CASE Crash \/ Shutdown \/ LeaveRecovery \/ Recover \/ Mounted
    BY <1>1, <1>7 DEF Crash, Shutdown, LeaveRecovery, Recover, Mounted, Down
<1>8. CASE SyncError \/ DeleteError \/ FsckError
    BY <1>0, <1>1, <1>8 DEF SyncError, DeleteError, FsckError, StepInv
<1>9. CASE \E n \in Names : FsCreate(n)
    BY <1>1, <1>9 DEF FsCreate, Ready
<1>10. CASE Skip \/ \E n \in Names, c \in Contents : BeginSync(n, c)
    BY <1>1, <1>10 DEF Skip, BeginSync
<1>11. CASE \E n \in Names : BeginDelete(n) \/ Forget(n)
    BY <1>1, <1>11 DEF BeginDelete, Forget
<1>12. CASE SyncData \/ SyncEntry \/ SyncSuper \/ DeleteEntry \/ DeleteSuper
    BY <1>0, <1>1, <1>12
       DEF SyncData, SyncEntry, SyncSuper, DeleteEntry, DeleteSuper, StepInv
<1>13. CASE Fsck \/ FsckDrop \/ FsckSuper
    BY <1>0, <1>1, <1>13 DEF Fsck, FsckDrop, FsckSuper, StepInv
<1>14. CASE FormatSuper
    BY <1>1, <1>14 DEF FormatSuper
<1> QED BY <1>4, <1>5, <1>6, <1>7, <1>8, <1>9, <1>10, <1>11, <1>12, <1>13, <1>14, Kinds DEF Quiet

-----------------------------------------------------------------------------
(* Types                                                                   *)

LEMMA IdleType == Idle \in Locals
BY Numbers DEF Idle, Locals

LEMMA CurFields ==
    ASSUME CurType
    PROVE  /\ cur.name \in Names \cup {NoFile} /\ cur.slot \in Slots /\ cur.start \in 0 .. D
           /\ cur.k \in 0 .. MaxLen /\ cur.bitmap \subseteq Sectors /\ cur.drop \subseteq Slots
BY DEF CurType

\* What is known of a sync under way
LEMMA SyncingFacts ==
    ASSUME PfsInv, Syncing
    PROVE  /\ cur.name \in Names /\ vfs[cur.name] \in Contents /\ vfs[cur.name] \in Seq(SectorData)
           /\ Len(vfs[cur.name]) \in 0 .. MaxLen /\ cur.k \in Nat /\ cur.start \in Nat
           /\ cur.slot \in Slots /\ NewRun \subseteq Sectors
           /\ \A j \in 1 .. Len(vfs[cur.name]) : cur.start + j - 1 \in NewRun
           /\ \A s \in NewRun : s = cur.start + (s - cur.start + 1) - 1
                /\ s - cur.start + 1 \in 1 .. Len(vfs[cur.name])
<1>1. cur.name \in Names /\ vfs[cur.name] # NoFile /\ NewRun \subseteq Sectors
    BY DEF PfsInv, SyncInv
<1>2. vfs[cur.name] \in Contents
    BY <1>1 DEF PfsInv, TypeOK
<1>3. vfs[cur.name] \in Seq(SectorData) /\ Len(vfs[cur.name]) \in 0 .. MaxLen
    BY <1>2, ContentsAre
<1>4. cur.k \in Nat /\ cur.start \in Nat /\ cur.slot \in Slots
    BY CurFields, Numbers DEF PfsInv
<1>5. /\ \A j \in 1 .. Len(vfs[cur.name]) : cur.start + j - 1 \in NewRun
      /\ \A s \in NewRun : s = cur.start + (s - cur.start + 1) - 1
           /\ s - cur.start + 1 \in 1 .. Len(vfs[cur.name])
    <2> DEFINE l == Len(vfs[cur.name])
    <2>1. l \in Nat /\ NewRun = cur.start .. cur.start + l - 1
        BY <1>3, Numbers DEF NewRun
    <2> HIDE DEF l
    <2>2. /\ \A j \in 1 .. l : cur.start + j - 1 \in NewRun
          /\ \A s \in NewRun : s = cur.start + (s - cur.start + 1) - 1
               /\ s - cur.start + 1 \in 1 .. l
        BY <1>4, <2>1, SMTT(30)
    <2> QED BY <2>2 DEF l
<1> QED BY <1>1, <1>2, <1>3, <1>4, <1>5

LEMMA CurTypeStep ==
    ASSUME PfsInv, [Next]_vars
    PROVE  CurType'
<1>0. TypeOK /\ CurType /\ cur \in Locals
    BY DEF PfsInv, CurType, Locals
<1> SUFFICES cur' \in Locals
    BY DEF CurType, Locals
<1>1. CASE UNCHANGED cur
    BY <1>0, <1>1
<1>2. CASE cur' = Idle
    BY <1>2, IdleType
<1>3. CASE Quiet
    <2>1. UNCHANGED cur \/ cur' = Idle
        BY <1>3 DEF Quiet, SyncError, DeleteError, FsckError, Boot, Mounted, Shutdown, Crash,
                    Recover, LeaveRecovery, FsCreate, Down, Finish
    <2> QED BY <1>1, <1>2, <2>1
<1>4. ASSUME NEW n \in Names, NEW c \in Contents, BeginSync(n, c) PROVE cur' \in Locals
    BY <1>0, <1>4, SyncStarted, PlanFacts
<1>5. ASSUME NEW n \in Names, BeginDelete(n) PROVE cur' \in Locals
    <2>1. SlotsOf(n) # {} /\ cur' = [Idle EXCEPT !.name = n, !.slot = Least(SlotsOf(n)),
                           !.bitmap = WithoutOldRun(n)]
        BY <1>5 DEF BeginDelete
    <2>2. Least(SlotsOf(n)) \in Slots
        BY <1>0, <2>1, SlotsOfFacts
    <2>3. WithoutOldRun(n) \in SUBSET Sectors
        BY <1>0 DEF TypeOK, WithoutOldRun
    <2> QED BY <2>1, <2>2, <2>3, IdleType DEF Locals
<1>6. CASE SyncData
    <2>1. Syncing /\ cur.k < Len(vfs[cur.name]) /\ cur' = [cur EXCEPT !.k = cur.k + 1]
        BY <1>6 DEF SyncData, Syncing, PfsInv, SyncInv
    <2>2. cur.k + 1 \in 0 .. MaxLen
        BY <2>1, SyncingFacts, Numbers, SMTT(30)
    <2> QED BY <1>0, <2>1, <2>2 DEF Locals
<1>7. CASE Fsck
    <2>1. cur' = [Idle EXCEPT !.bitmap = Audit.owned, !.drop = Audit.drop]
        BY <1>7 DEF Fsck
    <2>2. Audit.drop \in SUBSET Slots
        BY <1>0, AuditFacts DEF Taken
    <2>3. Audit.owned \in SUBSET Sectors
        BY <1>0, AuditFacts, EntryFacts DEF Runs
    <2> QED BY <2>1, <2>2, <2>3, IdleType DEF Locals
<1>8. CASE FsckDrop
    <2>1. cur' = [cur EXCEPT !.drop = cur.drop \ {Least(cur.drop)}]
        BY <1>8 DEF FsckDrop
    <2>2. cur.drop \ {Least(cur.drop)} \in SUBSET Slots
        BY <1>0, CurFields
    <2> QED BY <1>0, <2>1, <2>2 DEF Locals
<1>9. CASE SyncEntry \/ SyncSuper \/ DeleteEntry \/ DeleteSuper \/ FormatEntry \/ FormatSuper
             \/ FsckSuper
    <2>1. UNCHANGED cur \/ cur' = Idle
        BY <1>9 DEF SyncEntry, SyncSuper, DeleteEntry, DeleteSuper, FormatEntry, FormatSuper,
                    FsckSuper, Finish
    <2> QED BY <1>1, <1>2, <2>1
<1>10. CASE UNCHANGED vars \/ Skip \/ \E n \in Names : Forget(n)
    BY <1>1, <1>10 DEF vars, Skip, Forget
<1> QED BY <1>3, <1>4, <1>5, <1>6, <1>7, <1>8, <1>9, <1>10, Kinds

DiskType ==
    /\ sbValid \in BOOLEAN /\ used \subseteq Sectors /\ nfiles \in 0 .. NSlots
    /\ table \in [Slots -> Entry \cup {NoEntry}]
    /\ \A i \in Taken : RunOf(table[i]) \subseteq Sectors
    /\ data \in [Sectors -> SectorData]

\* Emptying an entry, or writing one whose run lies on the disk
LEMMA TablePut ==
    ASSUME TypeOK, NEW i \in Slots, NEW e \in Entry \cup {NoEntry},
           e # NoEntry => RunOf(e) \subseteq Sectors, table' = [table EXCEPT ![i] = e]
    PROVE  /\ table' \in [Slots -> Entry \cup {NoEntry}]
           /\ \A j \in Taken' : RunOf(table'[j]) \subseteq Sectors
<1>1. table \in [Slots -> Entry \cup {NoEntry}] /\ \A j \in Taken : RunOf(table[j]) \subseteq Sectors
    BY DEF TypeOK
<1>2. table' \in [Slots -> Entry \cup {NoEntry}]
    BY <1>1
<1>3. ASSUME NEW j \in Taken' PROVE RunOf(table'[j]) \subseteq Sectors
    <2>1. j \in Slots /\ table'[j] # NoEntry
        BY DEF Taken
    <2>2. CASE j = i
        BY <1>1, <2>1, <2>2
    <2>3. CASE j # i
        <3>1. table'[j] = table[j] /\ j \in Taken
            BY <1>1, <2>1, <2>3 DEF Taken
        <3> QED BY <1>1, <3>1
    <2> QED BY <2>2, <2>3
<1> QED BY <1>2, <1>3

LEMMA DiskTypeStep ==
    ASSUME PfsInv, [Next]_vars
    PROVE  DiskType'
<1>0. TypeOK /\ DiskType /\ CurType
    BY DEF PfsInv, TypeOK, DiskType
<1>1. CASE UNCHANGED disk
    BY <1>0, <1>1 DEF DiskType, disk, Taken
<1>2. CASE UNCHANGED vars \/ Quiet \/ Skip \/ Fsck
    BY <1>1, <1>2, QuietFacts DEF vars, Skip, Fsck
<1>3. CASE \E n \in Names, c \in Contents : BeginSync(n, c)
    BY <1>1, <1>3 DEF BeginSync
<1>4. CASE \E n \in Names : BeginDelete(n) \/ Forget(n)
    BY <1>1, <1>4 DEF BeginDelete, Forget
<1>5. CASE SyncData
    <2>1. /\ data' = [data EXCEPT ![cur.start + cur.k] = vfs[cur.name][cur.k + 1]] /\ Syncing
          /\ cur.k < Len(vfs[cur.name]) /\ UNCHANGED <<sbValid, used, nfiles, table>>
        BY <1>5 DEF SyncData, Syncing, PfsInv, SyncInv
    <2>2. cur.k + 1 \in 1 .. Len(vfs[cur.name]) /\ vfs[cur.name] \in Seq(SectorData)
        BY <2>1, SyncingFacts
    <2>3. vfs[cur.name][cur.k + 1] \in SectorData
        BY <2>2
    <2> QED BY <1>0, <2>1, <2>3 DEF DiskType, Taken
<1>6. CASE SyncEntry
    <2> DEFINE e == [name |-> cur.name, len |-> Len(vfs[cur.name]), start |-> cur.start]
    <2>1. table' = [table EXCEPT ![cur.slot] = e] /\ Syncing /\ UNCHANGED <<sbValid, used, nfiles, data>>
        BY <1>6 DEF SyncEntry, Syncing
    <2>2. e \in Entry /\ RunOf(e) \subseteq Sectors /\ cur.slot \in Slots
        <3>1. cur.start \in 0 .. D
            BY <1>0, CurFields
        <3>2. RunOf(e) = NewRun
            BY DEF RunOf, NewRun
        <3> QED BY <2>1, <3>1, <3>2, SyncingFacts DEF Entry
    <2> HIDE DEF e
    <2>3. /\ table' \in [Slots -> Entry \cup {NoEntry}]
          /\ \A j \in Taken' : RunOf(table'[j]) \subseteq Sectors
        BY <1>0, <2>1, <2>2, TablePut
    <2> QED BY <1>0, <2>1, <2>3 DEF DiskType
<1>7. CASE SyncSuper
    BY <1>0, <1>7, TakenFinite, CurFields DEF SyncSuper, DiskType, Taken
<1>8. CASE DeleteEntry
    <2>1. table' = [table EXCEPT ![cur.slot] = NoEntry] /\ cur.slot \in Slots
          /\ UNCHANGED <<sbValid, used, nfiles, data>>
        BY <1>0, <1>8, CurFields DEF DeleteEntry
    <2>2. /\ table' \in [Slots -> Entry \cup {NoEntry}]
          /\ \A j \in Taken' : RunOf(table'[j]) \subseteq Sectors
        BY <1>0, <2>1, TablePut
    <2> QED BY <1>0, <2>1, <2>2 DEF DiskType
<1>9. CASE DeleteSuper
    <2>1. used' \subseteq Sectors /\ UNCHANGED <<sbValid, table, data>>
        BY <1>0, <1>9, CurFields DEF DeleteSuper
    <2>2. nfiles' \in 0 .. NSlots
        <3>1. \/ nfiles' = Cardinality(Taken) \/ nfiles' = 0
              \/ nfiles' = nfiles - 1 /\ nfiles > 0
            BY <1>9 DEF DeleteSuper
        <3> QED BY <1>0, <3>1, TakenFinite, Numbers DEF DiskType
    <2> QED BY <1>0, <2>1, <2>2 DEF DiskType, Taken
<1>10. CASE FormatEntry
    <2>1. cursor \in Slots
        BY <1>0, <1>10, Numbers DEF FormatEntry, TypeOK, Slots
    <2>2. CASE table' = [table EXCEPT ![cursor] = NoEntry]
        <3>1. /\ table' \in [Slots -> Entry \cup {NoEntry}]
              /\ \A j \in Taken' : RunOf(table'[j]) \subseteq Sectors
            BY <1>0, <2>1, <2>2, TablePut
        <3> QED BY <1>0, <1>10, <3>1 DEF FormatEntry, DiskType
    <2>3. CASE UNCHANGED table
        BY <1>1, <1>10, <2>3 DEF FormatEntry, disk
    <2> QED BY <1>10, <2>2, <2>3 DEF FormatEntry
<1>11. CASE FormatSuper
    <2>1. \/ sbValid' = TRUE /\ used' = {} /\ nfiles' = 0
          \/ UNCHANGED <<sbValid, used, nfiles>>
        BY <1>11 DEF FormatSuper
    <2>2. UNCHANGED <<table, data>> /\ 0 \in 0 .. NSlots
        BY <1>11, Numbers DEF FormatSuper
    <2> QED BY <1>0, <2>1, <2>2 DEF DiskType, Taken
<1>12. CASE FsckDrop
    <2>1. Least(cur.drop) \in Slots
        <3>1. cur.drop # {} /\ cur.drop \subseteq Slots /\ cur.drop \subseteq Nat
            BY <1>0, <1>12, CurFields, Numbers DEF FsckDrop
        <3> QED BY <3>1, LeastIn
    <2>2. table' = [table EXCEPT ![Least(cur.drop)] = NoEntry]
          /\ UNCHANGED <<sbValid, used, nfiles, data>>
        BY <1>12 DEF FsckDrop
    <2>3. /\ table' \in [Slots -> Entry \cup {NoEntry}]
          /\ \A j \in Taken' : RunOf(table'[j]) \subseteq Sectors
        BY <1>0, <2>1, <2>2, TablePut
    <2> QED BY <1>0, <2>2, <2>3 DEF DiskType
<1>13. CASE FsckSuper
    BY <1>0, <1>13, TakenFinite, CurFields DEF FsckSuper, DiskType, Taken
<1> QED BY <1>2, <1>3, <1>4, <1>5, <1>6, <1>7, <1>8, <1>9, <1>10, <1>11, <1>12, <1>13, Kinds

FileType ==
    /\ vfs \in [Names -> Contents \cup {NoFile}]
    /\ kept \in [Names -> Contents \cup {NoFile, Unknown}]

LEMMA FileTypeStep ==
    ASSUME PfsInv, [Next]_vars
    PROVE  FileType'
<1>0. TypeOK /\ FileType
    BY DEF PfsInv, TypeOK, FileType
<1>1. CASE UNCHANGED <<vfs, kept>>
    BY <1>0, <1>1 DEF FileType
<1>2. CASE vfs' = Blank /\ UNCHANGED kept
    BY <1>0, <1>2 DEF FileType, Blank
<1>3. CASE \E n \in Names : FsCreate(n)
    BY <1>0, <1>3, EmptyFile DEF FsCreate, FileType
<1>4. CASE Quiet
    BY <1>1, <1>2, <1>3, <1>4 DEF Quiet, SyncError, DeleteError, FsckError, Boot, Mounted,
            Shutdown, Crash, Recover, LeaveRecovery, Down
<1>5. ASSUME NEW n \in Names, NEW c \in Contents, BeginSync(n, c) PROVE FileType'
    <2>1. kept' = [kept EXCEPT ![n] = Unknown] \/ kept' = kept
        BY <1>5 DEF BeginSync
    <2> QED BY <1>0, <1>5, <2>1, SyncStarted DEF FileType
<1>6. ASSUME NEW n \in Names, BeginDelete(n) \/ Forget(n) PROVE FileType'
    <2>1. kept' = [kept EXCEPT ![n] = Unknown] \/ kept' = kept
        BY <1>6 DEF BeginDelete, Forget
    <2>2. vfs' = [vfs EXCEPT ![n] = NoFile] \/ vfs' = vfs
        BY <1>6 DEF BeginDelete, Forget
    <2> QED BY <1>0, <2>1, <2>2 DEF FileType
<1>7. CASE SyncSuper
    <2>1. Syncing /\ vfs' = vfs /\ (kept' = kept \/ kept' = [kept EXCEPT ![cur.name] = vfs[cur.name]])
        BY <1>7 DEF SyncSuper, Syncing
    <2> QED BY <1>0, <2>1, SyncingFacts DEF FileType
<1>8. CASE DeleteSuper
    BY <1>0, <1>8 DEF DeleteSuper, FileType
<1>9. CASE FormatSuper
    <2>1. vfs' = vfs /\ (kept' = [n \in Names |-> OnDisk(n)] \/ kept' = kept)
        BY <1>9 DEF FormatSuper
    <2>2. \A n \in Names : OnDisk(n) \in Contents \cup {NoFile, Unknown}
        BY <1>0, OnDiskType
    <2> QED BY <1>0, <2>1, <2>2 DEF FileType
<1>10. CASE UNCHANGED vars \/ Skip \/ SyncData \/ SyncEntry \/ DeleteEntry \/ FormatEntry \/ Fsck
             \/ FsckDrop \/ FsckSuper
    BY <1>1, <1>10 DEF vars, Skip, SyncData, SyncEntry, DeleteEntry, FormatEntry, Fsck,
            FsckDrop, FsckSuper
<1> QED BY <1>4, <1>5, <1>6, <1>7, <1>8, <1>9, <1>10, Kinds

CountType ==
    /\ mode \in {"off", "format", "hydrate", "up", "recovery"}
    /\ cursor \in 0 .. NSlots
    /\ step \in {"idle", "data", "entry", "super", "zero", "zsuper", "drop", "clean"}
    /\ dirty \in BOOLEAN
    /\ ops \in 0 .. MaxOps /\ crashes \in 0 .. MaxCrashes
    /\ errors \in 0 .. MaxErrors

LEMMA CountTypeStep ==
    ASSUME PfsInv, [Next]_vars
    PROVE  CountType'
<1>0. CountType /\ sbValid \in BOOLEAN /\ NSlots \in Nat /\ MaxOps \in Nat /\ MaxCrashes \in Nat
        /\ MaxErrors \in Nat
    BY Numbers DEF PfsInv, TypeOK, CountType
<1>1. CASE UNCHANGED vars
    BY <1>0, <1>1 DEF CountType, vars, counters
<1>2. CASE SyncData \/ SyncEntry \/ SyncSuper \/ SyncError
    BY <1>0, <1>2 DEF CountType, counters, SyncData, SyncEntry, SyncSuper, SyncError, Finish
<1>3. CASE DeleteEntry \/ DeleteSuper \/ DeleteError
    BY <1>0, <1>3 DEF CountType, counters, DeleteEntry, DeleteSuper, DeleteError, Finish
<1>4. CASE FormatEntry \/ FormatSuper
    BY <1>0, <1>4 DEF CountType, counters, FormatEntry, FormatSuper
<1>5. CASE FsckDrop \/ FsckSuper \/ FsckError \/ Fsck
    <2>1. CASE FsckDrop
        BY <1>0, <2>1 DEF CountType, counters, FsckDrop
    <2>2. CASE FsckSuper
        BY <1>0, <2>2 DEF CountType, counters, FsckSuper
    <2>3. CASE FsckError
        BY <1>0, <2>3 DEF CountType, FsckError, Finish
    <2>4. CASE Fsck
        BY <1>0, <2>4 DEF CountType, counters, Fsck
    <2> QED BY <1>5, <2>1, <2>2, <2>3, <2>4
<1>6. CASE Boot \/ Mounted \/ Recover
    <2>1. CASE Boot
        BY <1>0, <2>1 DEF CountType, counters, Boot
    <2>2. CASE Mounted
        <3>1. /\ mode' = "up" /\ cursor' = 0 /\ dirty' = FALSE
              /\ UNCHANGED <<step, ops, crashes, errors>>
            BY <2>2 DEF counters, Mounted
        <3>2. dirty' \in BOOLEAN
            BY <3>1
        <3> QED BY <1>0, <3>1, <3>2 DEF CountType
    <2>3. CASE Recover
        BY <1>0, <2>3 DEF CountType, counters, Recover
    <2> QED BY <1>6, <2>1, <2>2, <2>3
<1>7. CASE Shutdown \/ Crash \/ LeaveRecovery
    BY <1>0, <1>7 DEF CountType, counters, Shutdown, Crash, LeaveRecovery, Down, Finish
<1>8. ASSUME NEW n, NEW c, Sync(n, c) \/ UNCHANGED step
      PROVE  step \in {"idle"} => step' \in {"idle", "data", "entry"}
    BY <1>8 DEF Sync
<1>9. CASE Hydrate \/ HydrateError
    <2>1. step' \in {"idle", "data", "entry"}
        BY <1>8, <1>9 DEF Hydrate, HydrateError
    <2> QED BY <1>0, <1>9, <2>1 DEF CountType, counters, Hydrate, HydrateError
<1>10. ASSUME NEW n \in Names, FsCreate(n) \/ FsDelete(n) \/ Rm(n) PROVE CountType'
    BY <1>0, <1>10 DEF CountType, FsCreate, FsDelete, Rm, Ready
<1>11. ASSUME NEW n \in Names, NEW len \in 0 .. MaxLen, FsWrite(n, len) \/ FsAppend(n, len)
       PROVE  CountType'
    <2>1. step' \in {"idle", "data", "entry"}
        BY <1>8, <1>11 DEF FsWrite, FsAppend, Ready
    <2> QED BY <1>0, <1>11, <2>1 DEF CountType, FsWrite, FsAppend, Ready
<1> QED BY <1>1, <1>2, <1>3, <1>4, <1>5, <1>6, <1>7, <1>9, <1>10, <1>11 DEF Next, DiskWrite

LEMMA TypeStep ==
    ASSUME PfsInv, [Next]_vars
    PROVE  TypeOK'
BY DiskTypeStep, FileTypeStep, CountTypeStep DEF TypeOK, DiskType, FileType, CountType

-----------------------------------------------------------------------------
(* Operations under way                                                    *)

\* Where nothing is being written the next two invariants say nothing.
LEMMA NothingSynced ==
    ASSUME ~Syncing', ~Deleting'
    PROVE  SyncInv'
BY DEF SyncInv, Syncing

LEMMA SyncInvStep ==
    ASSUME PfsInv, [Next]_vars
    PROVE  SyncInv'
<1>0. TypeOK /\ CurType /\ SyncInv /\ StepInv
    BY DEF PfsInv
<1>1. CASE step' \in {"idle", "drop", "clean"}
    BY <1>1, NothingSynced DEF Syncing, Deleting
<1>2. CASE UNCHANGED vars
    BY <1>0, <1>2 DEF SyncInv, Syncing, Deleting, NewRun, vars, disk
<1>3. CASE Quiet
    <2>1. CASE step = "zero" /\ step' = "zsuper" /\ UNCHANGED cur
        BY <1>0, <2>1 DEF SyncInv, Syncing, Deleting
    <2> QED BY <1>1, <1>3, <2>1, QuietFacts
<1>4. ASSUME NEW n \in Names, NEW c \in Contents, BeginSync(n, c) PROVE SyncInv'
    <2>1. CASE ~Fits(n, c)
        <3>1. step' = "idle"
            BY <1>4, <2>1, SyncStarted DEF BeginSync
        <3> QED BY <1>1, <3>1
    <2>2. CASE Fits(n, c)
        <3>1. /\ cur' = Plan(n, c) /\ vfs'[n] = c
              /\ step' = IF c = << >> THEN "entry" ELSE "data"
            BY <1>4, <2>2, SyncStarted
        <3>2. /\ cur'.name = n /\ cur'.k = 0
              /\ cur'.start .. cur'.start + Len(c) - 1 \subseteq Sectors
            BY <1>0, <2>2, <3>1, PlanFacts
        <3>3. c \in Seq(SectorData) /\ Len(c) \in Nat /\ (c = << >> <=> Len(c) = 0) /\ c # NoFile
            BY ContentsAre, Markers
        <3>4. NewRun' \subseteq Sectors
            BY <3>1, <3>2 DEF NewRun
        <3>5. step' # "super" /\ ~Deleting' /\ (step' = "data" <=> 0 < Len(c)) /\ 0 <= Len(c)
            BY <3>1, <3>3 DEF Deleting
        <3> QED BY <3>1, <3>2, <3>3, <3>4, <3>5 DEF SyncInv
    <2> QED BY <2>1, <2>2
<1>5. ASSUME NEW n \in Names, BeginDelete(n) PROVE SyncInv'
    <2>1. step' = "zero" /\ cur'.name = n
        BY <1>5 DEF BeginDelete, Idle
    <2> QED BY <2>1 DEF SyncInv, Syncing, Deleting
<1>6. CASE SyncData
    <2> DEFINE c == vfs[cur.name]
    <2>1. /\ step = "data" /\ Syncing /\ cur.k < Len(c) /\ UNCHANGED <<vfs, table>>
          /\ data' = [data EXCEPT ![cur.start + cur.k] = c[cur.k + 1]]
          /\ cur' = [cur EXCEPT !.k = cur.k + 1]
          /\ step' = IF MoreData THEN "data" ELSE "entry"
        BY <1>0, <1>6 DEF SyncData, Syncing, SyncInv
    <2>2. /\ cur'.name = cur.name /\ cur'.start = cur.start /\ cur'.k = cur.k + 1
        BY <1>0, <2>1 DEF CurType
    <2>3. /\ cur.name \in Names /\ c # NoFile /\ Len(c) \in Nat /\ cur.k \in Nat
          /\ cur.start \in Nat /\ NewRun \subseteq Sectors
          /\ cur.start + cur.k \in NewRun
        <3>1. /\ cur.name \in Names /\ c # NoFile /\ Len(c) \in Nat /\ cur.k \in Nat
              /\ cur.start \in Nat /\ NewRun \subseteq Sectors
            BY <1>0, <2>1, SyncingFacts, Numbers DEF SyncInv
        <3>2. cur.k + 1 \in 1 .. Len(c) /\ cur.start + (cur.k + 1) - 1 = cur.start + cur.k
            BY <2>1, <3>1
        <3>3. cur.start + (cur.k + 1) - 1 \in NewRun
            BY <2>1, <3>2, SyncingFacts
        <3> QED BY <3>1, <3>2, <3>3
    <2>4. NewRun' = NewRun
        BY <2>1, <2>2 DEF NewRun
    <2>5. MoreData <=> cur.k + 1 < Len(c)
        BY DEF MoreData
    <2>6. ASSUME NEW j \in 1 .. cur.k + 1 PROVE data'[cur.start + j - 1] = c[j]
        <3>1. cur.start + cur.k \in Sectors /\ data \in [Sectors -> SectorData]
            BY <1>0, <2>3 DEF TypeOK
        <3>2. CASE j = cur.k + 1
            <4>1. cur.start + j - 1 = cur.start + cur.k
                BY <2>3, <3>2
            <4> QED BY <2>1, <3>1, <3>2, <4>1
        <3>3. CASE j # cur.k + 1
            <4>1. j \in 1 .. cur.k /\ cur.start + j - 1 # cur.start + cur.k
                BY <2>3, <3>3
            <4>2. data[cur.start + j - 1] = c[j]
                BY <1>0, <2>1, <4>1 DEF SyncInv
            <4>3. cur.start + j - 1 \in Sectors
                <5>1. j \in 1 .. Len(c)
                    BY <2>1, <2>3, <4>1
                <5> QED BY <2>1, <2>3, <5>1, SyncingFacts
            <4> QED BY <2>1, <3>1, <4>1, <4>2, <4>3
        <3> QED BY <3>2, <3>3
    <2>7. step' # "super" /\ ~Deleting'
        BY <2>1 DEF Deleting
    <2>8. cur.k + 1 <= Len(c) /\ (cur.k + 1 < Len(c) <=> step' = "data")
        BY <2>1, <2>3, <2>5
    <2> HIDE DEF c
    <2>9. vfs'[cur'.name] = c
        BY <2>1, <2>2 DEF c
    <2> QED BY <2>2, <2>3, <2>4, <2>6, <2>7, <2>8, <2>9 DEF SyncInv
<1>7. CASE SyncEntry
    <2>1. /\ Syncing /\ step = "entry" /\ step' = "super" /\ UNCHANGED <<cur, vfs, data>>
          /\ table' = [table EXCEPT ![cur.slot] =
               [name |-> cur.name, len |-> Len(vfs[cur.name]), start |-> cur.start]]
        BY <1>7 DEF SyncEntry, Syncing
    <2>2. table'[cur.slot] = [name |-> cur.name, len |-> Len(vfs[cur.name]), start |-> cur.start]
        BY <1>0, <2>1, CurFields DEF TypeOK
    <2> QED BY <1>0, <2>1, <2>2 DEF SyncInv, NewRun, Syncing, Deleting
<1>8. CASE DeleteEntry
    <2>1. step = "zero" /\ step' = "zsuper" /\ UNCHANGED cur
        BY <1>8 DEF DeleteEntry
    <2> QED BY <1>0, <2>1 DEF SyncInv, Syncing, Deleting
<1>9. CASE SyncSuper \/ DeleteSuper \/ Fsck \/ FsckDrop \/ FsckSuper \/ FormatEntry \/ FormatSuper
            \/ Skip \/ \E n \in Names : Forget(n)
    <2>1. step' \in {"idle", "drop", "clean"}
        BY <1>0, <1>9 DEF SyncSuper, DeleteSuper, Finish, Fsck, FsckDrop, FsckSuper, FormatEntry,
                FormatSuper, StepInv, Skip, Forget
    <2> QED BY <1>1, <2>1
<1> QED BY <1>2, <1>3, <1>4, <1>5, <1>6, <1>7, <1>8, <1>9, Kinds

\* fsck keeps disjoint entries and its bitmap is theirs; when the last entry
\* it does not keep is gone and the superblock is written, the disk is
\* consistent.
LEMMA FsckInvStep ==
    ASSUME PfsInv, [Next]_vars
    PROVE  FsckInv'
<1>0. TypeOK /\ CurType /\ FsckInv /\ StepInv
    BY DEF PfsInv
<1>1. CASE step' \notin {"drop", "clean"}
    BY <1>1 DEF FsckInv
<1>2. CASE UNCHANGED vars
    BY <1>0, <1>2 DEF FsckInv, Taken, Apart, Runs, Consistent, vars, disk
<1>3. CASE Fsck
    <2>1. /\ cur' = [Idle EXCEPT !.bitmap = Audit.owned, !.drop = Audit.drop]
          /\ step' = "drop" /\ table' = table
        BY <1>3 DEF Fsck, disk
    <2>2. cur'.bitmap = Audit.owned /\ cur'.drop = Audit.drop
        BY <2>1 DEF Idle
    <2>3. /\ Audit.drop \subseteq Taken /\ Apart(Taken \ Audit.drop)
          /\ Audit.owned = Runs(Taken \ Audit.drop)
        BY <1>0, AuditFacts
    <2>4. Taken' = Taken
        BY <2>1 DEF Taken
    <2> QED BY <2>1, <2>2, <2>3, <2>4 DEF FsckInv, Apart, Runs
<1>4. CASE FsckDrop
    <2> DEFINE x == Least(cur.drop)
    <2>1. /\ step = "drop" /\ step' = "drop" /\ cur.drop # {}
          /\ table' = [table EXCEPT ![x] = NoEntry] /\ cur' = [cur EXCEPT !.drop = cur.drop \ {x}]
        BY <1>4 DEF FsckDrop
    <2>2. cur'.drop = cur.drop \ {x} /\ cur'.bitmap = cur.bitmap
        BY <1>0, <2>1 DEF CurType
    <2>3. x \in cur.drop /\ x \in Slots
        <3>1. cur.drop \subseteq Slots /\ cur.drop \subseteq Nat
            BY <1>0, CurFields, Numbers
        <3> QED BY <2>1, <3>1, LeastIn
    <2> HIDE DEF x
    <2>4. Taken' = Taken \ {x} /\ \A j \in Taken' : table'[j] = table[j]
        BY <1>0, <2>1, <2>3 DEF Taken, TypeOK
    <2>5. /\ cur.drop \subseteq Taken /\ Apart(Taken \ cur.drop)
          /\ cur.bitmap = Runs(Taken \ cur.drop)
        BY <1>0, <2>1 DEF FsckInv
    <2>6. Taken' \ cur'.drop = Taken \ cur.drop /\ cur'.drop \subseteq Taken'
        BY <2>2, <2>3, <2>4, <2>5
    <2>7. \A j \in Taken' \ cur'.drop : RunOf(table'[j]) = RunOf(table[j])
        BY <2>4
    <2>8. \A i, j \in Taken' \ cur'.drop : i # j => RunOf(table'[i]) \cap RunOf(table'[j]) = {}
        BY <2>5, <2>6, <2>7 DEF Apart
    <2>9. cur'.bitmap = UNION {RunOf(table'[j]) : j \in Taken' \ cur'.drop}
        BY <2>2, <2>5, <2>6, <2>7 DEF Runs
    <2> QED BY <2>1, <2>6, <2>8, <2>9 DEF FsckInv, Apart, Runs
<1>5. CASE FsckSuper
    <2>1. /\ step = "drop" /\ step' = "clean" /\ cur.drop = {} /\ used' = cur.bitmap
          /\ nfiles' = Cardinality(Taken) /\ table' = table
        BY <1>5 DEF FsckSuper
    <2>2. Taken' = Taken /\ Taken \ cur.drop = Taken
        BY <2>1 DEF Taken
    <2>3. Apart(Taken) /\ cur.bitmap = Runs(Taken)
        BY <1>0, <2>1, <2>2 DEF FsckInv
    <2> QED BY <2>1, <2>2, <2>3 DEF FsckInv, Consistent, Apart, Runs
<1>6. CASE Quiet
    BY <1>1, <1>6, QuietFacts
<1>7. ASSUME NEW n \in Names, NEW c \in Contents, BeginSync(n, c) PROVE FsckInv'
    <2>1. step' \in {"idle", "data", "entry"}
        BY <1>7, SyncStarted DEF BeginSync
    <2> QED BY <1>1, <2>1
<1>8. CASE SyncData \/ SyncEntry \/ SyncSuper \/ DeleteEntry \/ DeleteSuper \/ FormatEntry
            \/ FormatSuper \/ Skip \/ \E n \in Names : BeginDelete(n) \/ Forget(n)
    <2>1. step' \notin {"drop", "clean"}
        BY <1>0, <1>8 DEF SyncData, SyncEntry, SyncSuper, DeleteEntry, DeleteSuper, FormatEntry,
                FormatSuper, Skip, BeginDelete, Forget, Finish, StepInv
    <2> QED BY <1>1, <2>1
<1> QED BY <1>2, <1>3, <1>4, <1>5, <1>6, <1>7, <1>8, Kinds

-----------------------------------------------------------------------------
(* The layout of the disk                                                  *)

\* Errors are never forgotten, and only formatting makes a disk valid.
LEMMA TrustedBefore ==
    ASSUME PfsInv, [Next]_vars
    PROVE  /\ errors' = 0 => errors = 0
           /\ sbValid' => sbValid \/ FormatSuper
           /\ Trusted' => errors = 0 /\ FsckFirst /\ (Trusted \/ FormatSuper)
<1>0. errors \in 0 .. MaxErrors /\ sbValid \in BOOLEAN
    BY DEF PfsInv, TypeOK
<1> SUFFICES (errors' = 0 => errors = 0) /\ (sbValid' => sbValid \/ FormatSuper)
    BY DEF Trusted
<1>1. CASE UNCHANGED vars \/ Skip
    BY <1>1 DEF vars, disk, counters, Skip
<1>2. CASE Quiet
    BY <1>2, QuietFacts DEF disk
<1>3. CASE \E n \in Names, c \in Contents : BeginSync(n, c)
    BY <1>3 DEF BeginSync, disk
<1>4. CASE \E n \in Names : BeginDelete(n) \/ Forget(n)
    BY <1>4 DEF BeginDelete, Forget, disk
<1>5. CASE SyncData \/ SyncEntry \/ SyncSuper \/ DeleteEntry \/ DeleteSuper
    BY <1>5 DEF SyncData, SyncEntry, SyncSuper, DeleteEntry, DeleteSuper, counters
<1>6. CASE FormatEntry \/ FormatSuper
    BY <1>0, <1>6 DEF FormatEntry, FormatSuper
<1>7. CASE Fsck \/ FsckDrop \/ FsckSuper
    BY <1>7 DEF Fsck, FsckDrop, FsckSuper, counters, disk
<1> QED BY <1>1, <1>2, <1>3, <1>4, <1>5, <1>6, <1>7, Kinds

\* A disk that has just been formatted is empty.
LEMMA Formatted ==
    ASSUME PfsInv, FormatSuper, errors = 0
    PROVE  Taken = {} /\ step = "idle" /\ UNCHANGED <<table, data, step, cur, vfs>>
<1>1. mode = "format" /\ cursor = NSlots /\ UNCHANGED <<table, data, step, cur, vfs>>
    BY DEF FormatSuper
<1>2. \A i \in Slots : i < NSlots => table[i] = NoEntry
    BY <1>1 DEF PfsInv, FormatInv
<1>3. \A i \in Slots : i < NSlots
    BY Numbers DEF Slots
<1> QED BY <1>1, <1>2, <1>3 DEF Taken, PfsInv, StepInv

LEMMA VfsStep ==
    ASSUME PfsInv, [Next]_vars
    PROVE  VfsInv'
<1>0. VfsInv /\ vfs \in [Names -> Contents \cup {NoFile}]
    BY DEF PfsInv, TypeOK
<1>1. SUFFICES ASSUME FsckFirst, errors' = 0, NEW n \in Names, vfs'[n] # NoFile,
                      NEW k \in DOMAIN vfs'[n]
               PROVE  vfs'[n][k].name = n
    BY DEF VfsInv
<1>2. errors = 0
    BY <1>1, TrustedBefore
<1>3. CASE vfs'[n] = vfs[n]
    BY <1>0, <1>1, <1>2, <1>3 DEF VfsInv
<1>4. ASSUME NEW m \in Names, FsCreate(m) PROVE vfs'[n][k].name = n
    <2>1. vfs' = [vfs EXCEPT ![m] = << >>]
        BY <1>4 DEF FsCreate
    <2>2. CASE m = n
        <3>1. vfs'[n] = << >> /\ k \in 1 .. 0
            BY <1>0, <1>1, <2>1, <2>2
        <3> QED BY <3>1
    <2>3. CASE m # n
        BY <1>0, <1>3, <2>1, <2>3
    <2> QED BY <2>2, <2>3
<1>5. CASE vfs' = Blank
    BY <1>1, <1>5 DEF Blank
<1>6. CASE Quiet
    <2>1. vfs' = vfs \/ vfs' = Blank \/ \E m \in Names : FsCreate(m)
        BY <1>6 DEF Quiet, SyncError, DeleteError, FsckError, Boot, Mounted, Shutdown, Crash,
                    Recover, LeaveRecovery, Down
    <2> QED BY <1>3, <1>4, <1>5, <2>1
<1>7. ASSUME NEW m \in Names, NEW c \in Contents, BeginSync(m, c) PROVE vfs'[n][k].name = n
    <2>1. vfs'[m] = c /\ (m # n => vfs'[n] = vfs[n])
        BY <1>7, SyncStarted
    <2>2. \A j \in DOMAIN c : c[j].name = m
        BY <1>1, <1>7 DEF BeginSync
    <2> QED BY <1>1, <1>3, <2>1, <2>2
<1>8. ASSUME NEW m \in Names, BeginDelete(m) \/ Forget(m) PROVE vfs'[n][k].name = n
    <2>1. vfs' = vfs \/ vfs' = [vfs EXCEPT ![m] = NoFile]
        BY <1>8 DEF BeginDelete, Forget
    <2> QED BY <1>0, <1>1, <1>3, <2>1
<1>9. CASE UNCHANGED vars \/ Skip \/ SyncData \/ SyncEntry \/ SyncSuper \/ DeleteEntry \/ DeleteSuper
             \/ FormatEntry \/ FormatSuper \/ Fsck \/ FsckDrop \/ FsckSuper
    <2>1. vfs' = vfs
        BY <1>9 DEF vars, Skip, SyncData, SyncEntry, SyncSuper, DeleteEntry, DeleteSuper,
                FormatEntry, FormatSuper, Fsck, FsckDrop, FsckSuper
    <2> QED BY <1>3, <2>1
<1> QED BY <1>6, <1>7, <1>8, <1>9, Kinds

Layout ==
    /\ Apart(Taken)
    /\ \A i, j \in Taken : i # j => table[i].name # table[j].name
    /\ \A i \in Taken : \A s \in RunOf(table[i]) : data[s].name = table[i].name

\* An entry is written when all its data is on the disk, in a run that no
\* other file has.
LEMMA EntryWritten ==
    ASSUME PfsInv, Trusted, SyncEntry
    PROVE  /\ Taken' = Taken \cup {cur.slot} /\ cur.slot \in Slots
           /\ table'[cur.slot] = [name |-> cur.name, len |-> Len(vfs[cur.name]), start |-> cur.start]
           /\ RunOf(table'[cur.slot]) = NewRun
           /\ \A i \in Slots \ {cur.slot} : table'[i] = table[i]
           /\ \A i \in Taken \ {cur.slot} : table[i].name # cur.name
           /\ NewRun \cap Runs(Taken \ {cur.slot}) = {}
           /\ cur.bitmap = NewRun \cup Runs(Taken \ {cur.slot})
           /\ \A s \in NewRun : data[s].name = cur.name
<1> DEFINE e == [name |-> cur.name, len |-> Len(vfs[cur.name]), start |-> cur.start]
<1>0. /\ TypeOK /\ CurType /\ table \in [Slots -> Entry \cup {NoEntry}] /\ step = "entry" /\ Syncing
      /\ table' = [table EXCEPT ![cur.slot] = e] /\ cur.slot \in Slots
    BY CurFields DEF PfsInv, TypeOK, SyncEntry, Syncing
<1>1. e # NoEntry
    <2>1. e \in Entry
        BY <1>0, SyncingFacts, CurFields DEF Entry
    <2> QED BY <2>1, PfsAssumption
<1>2. RunOf(e) = NewRun
    BY DEF RunOf, NewRun
<1> HIDE DEF e
<1>3. table'[cur.slot] = e /\ \A i \in Slots \ {cur.slot} : table'[i] = table[i]
    BY <1>0
<1>4. Taken' = Taken \cup {cur.slot}
    BY <1>0, <1>1, <1>3 DEF Taken
<1>5. /\ SlotsOf(cur.name) \subseteq {cur.slot} /\ NewRun \cap Runs(Taken \ {cur.slot}) = {}
      /\ cur.bitmap = NewRun \cup Runs(Taken \ {cur.slot})
    BY <1>0 DEF PfsInv, PlanInv
<1>6. \A i \in Taken \ {cur.slot} : table[i].name # cur.name
    BY <1>5 DEF SlotsOf
<1>7. ASSUME NEW s \in NewRun PROVE data[s].name = cur.name
    <2> DEFINE j == s - cur.start + 1
    <2>1. s = cur.start + j - 1 /\ j \in 1 .. Len(vfs[cur.name]) /\ cur.name \in Names
          /\ vfs[cur.name] \in Seq(SectorData)
        BY <1>0, SyncingFacts
    <2>2. cur.k = Len(vfs[cur.name]) /\ vfs[cur.name] # NoFile
        <3>1. ~(cur.k < Len(vfs[cur.name])) /\ cur.k <= Len(vfs[cur.name]) /\ vfs[cur.name] # NoFile
            BY <1>0 DEF PfsInv, SyncInv
        <3>2. cur.k \in Nat /\ Len(vfs[cur.name]) \in Nat
            BY <1>0, SyncingFacts, Numbers
        <3> QED BY <3>1, <3>2
    <2> HIDE DEF j
    <2>3. data[cur.start + j - 1] = vfs[cur.name][j]
        BY <1>0, <2>1, <2>2 DEF PfsInv, SyncInv
    <2>4. j \in DOMAIN vfs[cur.name]
        BY <2>1
    <2>5. vfs[cur.name][j].name = cur.name
        BY <2>1, <2>2, <2>4 DEF PfsInv, VfsInv, Trusted
    <2> QED BY <2>1, <2>3, <2>5
<1> QED BY <1>0, <1>2, <1>3, <1>4, <1>5, <1>6, <1>7 DEF e

LEMMA LayoutStep ==
    ASSUME PfsInv, [Next]_vars
    PROVE  LayoutInv'
<1>0. TypeOK /\ CurType /\ StepInv
    BY DEF PfsInv
<1>1. SUFFICES ASSUME Trusted' PROVE Layout'
    BY DEF LayoutInv, Layout
<1>2. CASE FormatSuper
    <2>1. Taken' = {}
        BY <1>1, <1>2, TrustedBefore, Formatted DEF Taken
    <2> QED BY <2>1 DEF Layout, Apart
<1>3. SUFFICES ASSUME Trusted PROVE Layout'
    BY <1>1, <1>2, TrustedBefore
<1>4. Layout
    BY <1>3 DEF PfsInv, LayoutInv, Layout
<1>5. CASE UNCHANGED <<table, data>>
    BY <1>4, <1>5 DEF Layout, Taken, Apart
<1>6. CASE SyncData
    <2> DEFINE x == cur.start + cur.k
               v == vfs[cur.name][cur.k + 1]
    <2>1. /\ step = "data" /\ Syncing /\ table' = table /\ data' = [data EXCEPT ![x] = v]
          /\ cur.k < Len(vfs[cur.name])
        BY <1>6 DEF SyncData, Syncing, PfsInv, SyncInv
    <2>2. cur.k + 1 \in 1 .. Len(vfs[cur.name]) /\ cur.start + (cur.k + 1) - 1 = x
        BY <2>1, SyncingFacts
    <2>3. x \in NewRun /\ x \in Sectors
        BY <2>1, <2>2, SyncingFacts
    <2>4. v.name = cur.name
        <3>1. cur.name \in Names /\ vfs[cur.name] # NoFile /\ cur.k + 1 \in DOMAIN vfs[cur.name]
            BY <2>1, <2>2, SyncingFacts, Markers
        <3> QED BY <1>3, <3>1 DEF PfsInv, VfsInv, Trusted
    <2>5. /\ cur.slot \in Taken => table[cur.slot].name = cur.name
          /\ NewRun \cap Runs(Taken \ {cur.slot}) = {}
        BY <1>3, <2>1 DEF PfsInv, PlanInv
    <2>6. Taken' = Taken /\ data \in [Sectors -> SectorData]
        BY <1>0, <2>1 DEF Taken, TypeOK
    <2> HIDE DEF x, v
    <2>7. ASSUME NEW i \in Taken, NEW s \in RunOf(table[i]) PROVE data'[s].name = table[i].name
        <3>1. s \in Sectors
            BY <1>0, EntryFacts
        <3>2. CASE s # x
            BY <1>4, <2>1, <2>6, <3>1, <3>2 DEF Layout
        <3>3. CASE s = x
            <4>1. i = cur.slot
                <5>1. i # cur.slot => s \in Runs(Taken \ {cur.slot})
                    BY DEF Runs
                <5> QED BY <2>3, <2>5, <3>3, <5>1
            <4> QED BY <2>1, <2>4, <2>5, <2>6, <3>1, <3>3, <4>1
        <3> QED BY <3>2, <3>3
    <2> QED BY <1>4, <2>1, <2>6, <2>7 DEF Layout, Apart
<1>7. CASE SyncEntry
    <2> DEFINE sl == cur.slot
    <2>1. /\ Taken' = Taken \cup {sl} /\ sl \in Slots
          /\ table'[sl].name = cur.name
          /\ RunOf(table'[sl]) = NewRun
          /\ \A i \in Slots \ {sl} : table'[i] = table[i]
          /\ \A i \in Taken \ {sl} : table[i].name # cur.name
          /\ NewRun \cap Runs(Taken \ {sl}) = {}
          /\ \A s \in NewRun : data[s].name = cur.name
        <3>1. table'[sl] = [name |-> cur.name, len |-> Len(vfs[cur.name]), start |-> cur.start]
            BY <1>3, <1>7, EntryWritten
        <3>2. table'[sl].name = cur.name
            BY <3>1
        <3> QED BY <1>3, <1>7, <3>2, EntryWritten
    <2>2. \A i \in Taken' \ {sl} : i \in Taken \ {sl} /\ table'[i] = table[i]
        BY <2>1 DEF Taken
    <2>3. \A i \in Taken \ {sl} : NewRun \cap RunOf(table[i]) = {}
        BY <2>1 DEF Runs
    <2>4. data' = data
        BY <1>7 DEF SyncEntry
    <2> HIDE DEF sl
    <2>5. ASSUME NEW i \in Taken', NEW j \in Taken', i # j
          PROVE  RunOf(table'[i]) \cap RunOf(table'[j]) = {} /\ table'[i].name # table'[j].name
        <3>1. CASE i = sl
            BY <2>1, <2>2, <2>3, <2>5, <3>1
        <3>2. CASE j = sl
            BY <2>1, <2>2, <2>3, <2>5, <3>2
        <3>3. CASE i # sl /\ j # sl
            BY <1>4, <2>2, <2>5, <3>3 DEF Layout, Apart
        <3> QED BY <3>1, <3>2, <3>3
    <2>6. ASSUME NEW i \in Taken', NEW s \in RunOf(table'[i]) PROVE data'[s].name = table'[i].name
        <3>1. CASE i = sl
            BY <2>1, <2>4, <3>1
        <3>2. CASE i # sl
            BY <1>4, <2>2, <2>4, <3>2 DEF Layout
        <3> QED BY <3>1, <3>2
    <2> QED BY <2>5, <2>6 DEF Layout, Apart
<1>8. CASE DeleteEntry
    <2>1. table' = [table EXCEPT ![cur.slot] = NoEntry] /\ data' = data
        BY <1>8 DEF DeleteEntry
    <2>2. Taken' = Taken \ {cur.slot} /\ \A i \in Taken' : table'[i] = table[i]
        BY <1>0, <2>1, CurFields DEF Taken, TypeOK
    <2> QED BY <1>4, <2>1, <2>2 DEF Layout, Apart
<1>9. CASE FsckDrop
    BY <1>3, <1>9 DEF FsckDrop, PfsInv, PlanInv
<1>10. CASE FormatEntry
    BY <1>0, <1>3, <1>10 DEF FormatEntry, StepInv, Trusted
<1>11. CASE Quiet
    BY <1>5, <1>11, QuietFacts DEF disk
<1>12. CASE UNCHANGED vars \/ Skip \/ SyncSuper \/ DeleteSuper \/ Fsck \/ FsckSuper
    BY <1>5, <1>12 DEF vars, Skip, SyncSuper, DeleteSuper, Fsck, FsckSuper, disk
<1>13. CASE \E n \in Names, c \in Contents : BeginSync(n, c)
    BY <1>5, <1>13 DEF BeginSync, disk
<1>14. CASE \E n \in Names : BeginDelete(n) \/ Forget(n)
    BY <1>5, <1>14 DEF BeginDelete, Forget, disk
<1> QED BY <1>2, <1>6, <1>7, <1>8, <1>9, <1>10, <1>11, <1>12, <1>13, <1>14, Kinds

\* On an idle disk with an exact bitmap, what is left when the old run of a
\* file is given back are the runs of the others.
LEMMA OthersRuns ==
    ASSUME PfsInv, Trusted, NEW n, NEW sl \in Slots,
           SlotsOf(n) # {} => sl \in SlotsOf(n), SlotsOf(n) = {} => sl \notin Taken
    PROVE  /\ SlotsOf(n) \subseteq {sl} /\ (sl \in Taken => SlotsOf(n) = {sl} /\ table[sl].name = n)
           /\ ~dirty /\ step = "idle" => WithoutOldRun(n) = Runs(Taken \ {sl})
<1>0. TypeOK /\ Layout
    BY DEF PfsInv, LayoutInv, Layout
<1>1. SlotsOf(n) \subseteq {sl} /\ (sl \in Taken => SlotsOf(n) = {sl} /\ table[sl].name = n)
    BY <1>0 DEF Layout, SlotsOf
<1>2. ASSUME ~dirty, step = "idle" PROVE WithoutOldRun(n) = Runs(Taken \ {sl})
    <2>1. used = Runs(Taken)
        BY <1>2 DEF PfsInv, SuperInv
    <2>2. CASE SlotsOf(n) = {}
        <3>1. Taken \ {sl} = Taken /\ OldRun(n) = {}
            BY <2>2 DEF OldRun
        <3> QED BY <2>1, <3>1 DEF WithoutOldRun
    <2>3. CASE SlotsOf(n) # {}
        <3>1. SlotsOf(n) = {sl} /\ sl \in Taken
            BY <1>1, <2>3 DEF SlotsOf
        <3>2. Least(SlotsOf(n)) = sl
            BY <1>0, <2>3, <3>1, SlotsOfFacts
        <3>3. OldRun(n) = RunOf(table[sl])
            BY <2>3, <3>2 DEF OldRun
        <3>4. \A i \in Taken \ {sl} : RunOf(table[i]) \cap RunOf(table[sl]) = {}
            BY <1>0, <3>1 DEF Layout, Apart
        <3>5. Runs(Taken) \ RunOf(table[sl]) = Runs(Taken \ {sl})
            BY <3>1, <3>4 DEF Runs
        <3> QED BY <2>1, <3>3, <3>5 DEF WithoutOldRun
    <2> QED BY <2>2, <2>3
<1> QED BY <1>1, <1>2

LEMMA PlanStep ==
    ASSUME PfsInv, [Next]_vars
    PROVE  PlanInv'
<1>0. TypeOK /\ CurType /\ StepInv
    BY DEF PfsInv
<1>1. SUFFICES ASSUME Trusted' PROVE PlanInv'
    BY DEF PlanInv
<1>2. CASE step' \in {"idle", "clean"}
    BY <1>2 DEF PlanInv
<1>3. CASE FormatSuper
    BY <1>0, <1>2, <1>3 DEF FormatSuper, StepInv
<1>4. SUFFICES ASSUME Trusted PROVE PlanInv'
    BY <1>1, <1>3, TrustedBefore
<1>5. PlanInv /\ Layout
    BY <1>4 DEF PfsInv, LayoutInv, Layout
<1>6. CASE UNCHANGED vars
    BY <1>4, <1>5, <1>6 DEF PlanInv, SlotsOf, Taken, Runs, NewRun, vars, disk
<1>7. CASE Quiet
    <2>1. step' = "idle" \/ errors' # 0
        BY <1>7, QuietFacts
    <2> QED BY <1>1, <1>2, <2>1 DEF Trusted
<1>8. ASSUME NEW n \in Names, NEW c \in Contents, BeginSync(n, c) PROVE PlanInv'
    <2>0. step = "idle" /\ UNCHANGED <<table, dirty>> /\ mode \in {"up", "hydrate"}
        BY <1>8 DEF BeginSync, disk
    <2>1. CASE ~Fits(n, c)
        BY <1>2, <1>8, <2>0, <2>1, SyncStarted
    <2>2. CASE Fits(n, c)
        <3> DEFINE sl == SlotFor(n)
                   run == Plan(n, c).start .. Plan(n, c).start + Len(c) - 1
        <3>1. /\ cur' = Plan(n, c) /\ vfs'[n] = c /\ step' \in {"data", "entry"}
            BY <1>8, <2>2, SyncStarted
        <3>2. /\ cur'.name = n /\ cur'.slot = sl /\ run \subseteq Sectors \ WithoutOldRun(n)
              /\ cur'.bitmap = WithoutOldRun(n) \cup run
              /\ SlotsOf(n) # {} => sl \in SlotsOf(n)
              /\ SlotsOf(n) = {} => sl \in Slots \ Taken
            BY <1>0, <2>2, <3>1, PlanFacts
        <3>3. sl \in Slots
            BY <2>2 DEF Fits
        <3>4. ~dirty
            BY <1>4, <2>0 DEF PfsInv, DirtyInv, Trusted
        <3>5. NewRun' = run
            BY <3>1, <3>2 DEF NewRun
        <3> HIDE DEF sl, run
        <3>6. /\ SlotsOf(n) \subseteq {sl} /\ (sl \in Taken => table[sl].name = n)
              /\ WithoutOldRun(n) = Runs(Taken \ {sl})
            BY <1>4, <2>0, <3>2, <3>3, <3>4, OthersRuns
        <3>7. /\ run \cap Runs(Taken \ {sl}) = {} /\ cur'.bitmap = run \cup Runs(Taken \ {sl})
            BY <3>2, <3>6
        <3>8. /\ SlotsOf(cur.name)' = SlotsOf(n) /\ Taken' = Taken
              /\ Runs(Taken \ {cur.slot})' = Runs(Taken \ {sl})
            BY <2>0, <3>2 DEF SlotsOf, Taken, Runs
        <3>9. /\ SlotsOf(cur.name)' \subseteq {cur'.slot}
              /\ cur'.slot \in Taken' => table'[cur'.slot].name = cur'.name
              /\ NewRun' \cap Runs(Taken \ {cur.slot})' = {}
              /\ cur'.bitmap = NewRun' \cup Runs(Taken \ {cur.slot})'
            BY <2>0, <3>2, <3>5, <3>6, <3>7, <3>8
        <3> QED BY <3>1, <3>9 DEF PlanInv
    <2> QED BY <2>1, <2>2
<1>9. ASSUME NEW n \in Names, BeginDelete(n) PROVE PlanInv'
    <2> DEFINE sl == Least(SlotsOf(n))
    <2>1. /\ step = "idle" /\ SlotsOf(n) # {} /\ step' = "zero" /\ UNCHANGED <<table, dirty>>
          /\ cur'.name = n /\ cur'.slot = sl /\ cur'.bitmap = WithoutOldRun(n)
        BY <1>9 DEF BeginDelete, disk, Idle
    <2>2. sl \in SlotsOf(n) /\ sl \in Slots /\ sl \in Taken
        BY <1>0, <2>1, SlotsOfFacts
    <2> HIDE DEF sl
    <2>3. SlotsOf(n) = {sl} /\ (~dirty => WithoutOldRun(n) = Runs(Taken \ {sl}))
        BY <1>4, <2>1, <2>2, OthersRuns
    <2>4. /\ SlotsOf(cur.name)' = SlotsOf(n)
          /\ Runs(Taken \ {cur.slot})' = Runs(Taken \ {sl})
        BY <2>1 DEF SlotsOf, Taken, Runs
    <2> QED BY <2>1, <2>3, <2>4 DEF PlanInv
<1>10. CASE SyncData
    <2>1. /\ step = "data" /\ step' \in {"data", "entry"} /\ UNCHANGED <<table, vfs>>
          /\ cur' = [cur EXCEPT !.k = cur.k + 1]
        BY <1>10 DEF SyncData
    <2>2. /\ cur'.name = cur.name /\ cur'.start = cur.start /\ cur'.slot = cur.slot
          /\ cur'.bitmap = cur.bitmap
        BY <1>0, <2>1 DEF CurType
    <2>3. /\ SlotsOf(cur.name)' = SlotsOf(cur.name) /\ NewRun' = NewRun /\ Taken' = Taken
          /\ Runs(Taken \ {cur.slot})' = Runs(Taken \ {cur.slot})
        BY <2>1, <2>2 DEF SlotsOf, Taken, Runs, NewRun
    <2>4. /\ SlotsOf(cur.name) \subseteq {cur.slot}
          /\ cur.slot \in Taken => table[cur.slot].name = cur.name
          /\ NewRun \cap Runs(Taken \ {cur.slot}) = {}
          /\ cur.bitmap = NewRun \cup Runs(Taken \ {cur.slot})
        BY <1>4, <1>5, <2>1 DEF PlanInv
    <2> QED BY <2>1, <2>2, <2>3, <2>4 DEF PlanInv
<1>11. CASE SyncEntry
    <2> DEFINE sl == cur.slot
    <2>1. step' = "super" /\ cur' = cur
        BY <1>11 DEF SyncEntry
    <2>2. /\ Taken' = Taken \cup {sl} /\ RunOf(table'[sl]) = NewRun
          /\ \A i \in Taken \ {sl} : table'[i] = table[i]
          /\ cur.bitmap = NewRun \cup Runs(Taken \ {sl})
        BY <1>4, <1>11, EntryWritten DEF Taken
    <2> HIDE DEF sl
    <2>3. \A i \in Taken' : IF i = sl THEN RunOf(table'[i]) = NewRun
                            ELSE i \in Taken \ {sl} /\ RunOf(table'[i]) = RunOf(table[i])
        BY <2>2
    <2>4. UNION {RunOf(table'[i]) : i \in Taken'} = NewRun \cup Runs(Taken \ {sl})
        BY <2>2, <2>3 DEF Runs
    <2> QED BY <2>1, <2>2, <2>4 DEF PlanInv, Runs
<1>12. CASE DeleteEntry
    <2> DEFINE sl == cur.slot
    <2>1. /\ step = "zero" /\ step' = "zsuper" /\ UNCHANGED <<cur, dirty, nfiles>>
          /\ table' = [table EXCEPT ![sl] = NoEntry]
        BY <1>12 DEF DeleteEntry
    <2>2. Taken' = Taken \ {sl} /\ \A i \in Taken' : table'[i] = table[i]
        BY <1>0, <2>1, CurFields DEF Taken, TypeOK
    <2>3. SlotsOf(cur.name) = {sl} /\ (~dirty => cur.bitmap = Runs(Taken \ {sl}))
        BY <1>4, <1>5, <2>1 DEF PlanInv
    <2>4. SlotsOf(cur.name)' = {}
        BY <2>1, <2>2, <2>3 DEF SlotsOf
    <2>5. Runs(Taken)' = Runs(Taken \ {sl})
        BY <2>2 DEF Runs
    <2>6. ~dirty => nfiles = Cardinality(Taken') + 1
        <3>1. sl \in Taken
            BY <2>3 DEF SlotsOf
        <3>2. Cardinality(Taken \ {sl}) = Cardinality(Taken) - 1 /\ Cardinality(Taken) \in Nat
            BY <3>1, TakenFinite, FS_RemoveElement, FS_CardinalityType
        <3>3. ~dirty => nfiles = Cardinality(Taken)
            BY <1>4, <2>1 DEF PfsInv, SuperInv
        <3> QED BY <2>2, <3>2, <3>3
    <2> QED BY <2>1, <2>3, <2>4, <2>5, <2>6 DEF PlanInv
<1>13. CASE Fsck
    <2>1. step' = "drop" /\ cur'.drop = Audit.drop
        BY <1>13 DEF Fsck, Idle
    <2>2. Audit.drop = {}
        BY <1>0, <1>5, AuditFacts DEF Layout
    <2> QED BY <2>1, <2>2 DEF PlanInv
<1>14. CASE FsckDrop
    BY <1>4, <1>5, <1>14 DEF FsckDrop, PlanInv
<1>15. CASE Skip \/ SyncSuper \/ DeleteSuper \/ FsckSuper \/ FormatEntry \/ \E n \in Names : Forget(n)
    <2>1. step' \in {"idle", "clean"}
        BY <1>0, <1>15 DEF Skip, SyncSuper, DeleteSuper, FsckSuper, FormatEntry, Forget, Finish, StepInv
    <2> QED BY <1>2, <2>1
<1> QED BY <1>3, <1>6, <1>7, <1>8, <1>9, <1>10, <1>11, <1>12, <1>13, <1>14, <1>15, Kinds

LEMMA SuperStep ==
    ASSUME PfsInv, [Next]_vars
    PROVE  SuperInv'
<1>0. TypeOK /\ CurType /\ StepInv /\ DirtyInv
    BY DEF PfsInv
<1>1. SUFFICES ASSUME Trusted', ~dirty', step' \notin {"super", "zsuper"}
               PROVE  used' = Runs(Taken)' /\ nfiles' = Cardinality(Taken')
    BY DEF SuperInv
<1>2. CASE FormatSuper
    <2>1. Taken' = {} /\ errors' # errors + 1
        <3>1. errors = 0 /\ errors' = 0
            BY <1>1, TrustedBefore DEF Trusted
        <3> QED BY <1>2, <3>1, Formatted DEF Taken
    <2>2. used' = {} /\ nfiles' = 0
        BY <1>2, <2>1 DEF FormatSuper
    <2>3. Cardinality({}) = 0
        BY FS_EmptySet
    <2> QED BY <2>1, <2>2, <2>3 DEF Runs
<1>3. SUFFICES ASSUME Trusted PROVE used' = Runs(Taken)' /\ nfiles' = Cardinality(Taken')
    BY <1>1, <1>2, TrustedBefore
<1>4. CASE UNCHANGED <<used, nfiles, table>> /\ ~dirty /\ step \notin {"super", "zsuper"}
    <2>1. used = Runs(Taken) /\ nfiles = Cardinality(Taken)
        BY <1>3, <1>4 DEF PfsInv, SuperInv
    <2>2. Taken' = Taken /\ Runs(Taken)' = Runs(Taken)
        BY <1>4 DEF Taken, Runs
    <2> QED BY <1>4, <2>1, <2>2
<1>5. CASE Quiet
    <2>1. UNCHANGED <<used, nfiles, table>> /\ errors' = 0 /\ errors = 0 /\ sbValid' /\ sbValid /\ FsckFirst
        BY <1>1, <1>3, <1>5, QuietFacts DEF disk, Trusted
    <2>2. ~dirty /\ step \notin {"super", "zsuper"}
        <3>1. CASE SyncError \/ DeleteError \/ FsckError
            BY <2>1, <3>1 DEF SyncError, DeleteError, FsckError
        <3>2. CASE Boot \/ Recover
            BY <1>0, <1>1, <3>2 DEF Boot, Recover, StepInv
        <3>3. CASE Mounted
            BY <1>0, <2>1, <3>3 DEF Mounted, DirtyInv
        <3>4. CASE Crash
            BY <1>1, <2>1, <3>4 DEF Crash
        <3>5. CASE Shutdown \/ LeaveRecovery
            BY <1>1, <3>5 DEF Shutdown, LeaveRecovery
        <3>6. CASE \E n \in Names : FsCreate(n)
            BY <1>1, <3>6 DEF FsCreate, Ready
        <3> QED BY <1>5, <3>1, <3>2, <3>3, <3>4, <3>5, <3>6 DEF Quiet
    <2> QED BY <1>4, <2>1, <2>2
<1>6. CASE UNCHANGED vars \/ Skip
    BY <1>1, <1>4, <1>6 DEF vars, disk, Skip
<1>7. CASE SyncData \/ Fsck
    BY <1>1, <1>4, <1>7 DEF SyncData, Fsck, disk
<1>8. CASE \E n \in Names, c \in Contents : BeginSync(n, c)
    BY <1>1, <1>4, <1>8 DEF BeginSync, disk
<1>9. CASE \E n \in Names : BeginDelete(n) \/ Forget(n)
    BY <1>1, <1>4, <1>9 DEF BeginDelete, Forget, disk
<1>10. CASE SyncEntry \/ DeleteEntry
    BY <1>1, <1>10 DEF SyncEntry, DeleteEntry
<1>11. CASE SyncSuper
    <2>1. used' = cur.bitmap /\ nfiles' = Cardinality(Taken) /\ table' = table /\ step = "super"
        BY <1>11 DEF SyncSuper
    <2>2. cur.bitmap = Runs(Taken)
        BY <1>3, <2>1 DEF PfsInv, PlanInv
    <2>3. Taken' = Taken /\ Runs(Taken)' = Runs(Taken)
        BY <2>1 DEF Taken, Runs
    <2> QED BY <2>1, <2>2, <2>3
<1>12. CASE DeleteSuper
    <2>1. /\ used' = cur.bitmap /\ table' = table /\ step = "zsuper" /\ dirty' = dirty
          /\ \/ nfiles' = Cardinality(Taken)
             \/ nfiles > 0 /\ nfiles' = nfiles - 1
             \/ ~(nfiles > 0) /\ nfiles' = 0
        BY <1>12 DEF DeleteSuper
    <2>2. cur.bitmap = Runs(Taken) /\ nfiles = Cardinality(Taken) + 1
        BY <1>1, <1>3, <2>1 DEF PfsInv, PlanInv
    <2>3. Taken' = Taken /\ Runs(Taken)' = Runs(Taken)
        BY <2>1 DEF Taken, Runs
    <2>4. Cardinality(Taken) \in Nat
        BY TakenFinite, FS_CardinalityType
    <2>5. nfiles' = Cardinality(Taken)
        BY <2>1, <2>2, <2>4
    <2> QED BY <2>1, <2>2, <2>3, <2>5
<1>13. CASE FsckDrop
    BY <1>3, <1>13 DEF FsckDrop, PfsInv, PlanInv
<1>14. CASE FsckSuper
    <2>1. step' = "clean"
        BY <1>14 DEF FsckSuper
    <2>2. Consistent'
        BY <2>1, FsckInvStep DEF FsckInv
    <2> QED BY <2>2 DEF Consistent, Runs
<1>15. CASE FormatEntry
    BY <1>0, <1>3, <1>15 DEF FormatEntry, StepInv, Trusted
<1> QED BY <1>2, <1>5, <1>6, <1>7, <1>8, <1>9, <1>10, <1>11, <1>12, <1>13, <1>14, <1>15, Kinds

-----------------------------------------------------------------------------
(* What files read as                                                      *)

LEMMA SameReads ==
    ASSUME UNCHANGED <<table, data>>, NEW n
    PROVE  OnDisk(n)' = OnDisk(n)
BY DEF OnDisk, SlotsOf, Taken, ReadRun

\* A step that leaves the entries of a name and their sectors alone leaves
\* what the name reads as.
LEMMA OtherReads ==
    ASSUME TypeOK, NEW n, SlotsOf(n)' = SlotsOf(n),
           \A i \in SlotsOf(n) : table'[i] = table[i] /\ \A s \in RunOf(table[i]) : data'[s] = data[s]
    PROVE  OnDisk(n)' = OnDisk(n)
<1>1. CASE SlotsOf(n) = {}
    BY <1>1 DEF OnDisk
<1>2. CASE SlotsOf(n) # {}
    <2> DEFINE i == Least(SlotsOf(n))
               e == table[i]
    <2>1. i \in SlotsOf(n) /\ i \in Taken
        BY <1>2, SlotsOfFacts
    <2>2. OnDisk(n) = ReadRun(table[i])
        BY <1>2 DEF OnDisk
    <2>3. \A k \in 1 .. e.len : data'[e.start + k - 1] = data[e.start + k - 1]
        BY <2>1, ReadFacts
    <2>4. table'[i] = e
        BY <2>1
    <2>5. OnDisk(n)' = [k \in 1 .. table'[i].len |-> data'[table'[i].start + k - 1]]
        BY <1>2 DEF OnDisk, ReadRun
    <2> HIDE DEF e, i
    <2>6. OnDisk(n)' = [k \in 1 .. e.len |-> data[e.start + k - 1]]
        BY <2>3, <2>4, <2>5
    <2>7. OnDisk(n) = [k \in 1 .. e.len |-> data[e.start + k - 1]]
        BY <2>2 DEF ReadRun, e
    <2> QED BY <2>6, <2>7
<1> QED BY <1>1, <1>2

\* When its entry is written, a file reads as it is in RAM.
LEMMA SyncedReads ==
    ASSUME PfsInv, Trusted, step = "super"
    PROVE  OnDisk(cur.name) = vfs[cur.name]
<1> DEFINE e == table[cur.slot]
           c == vfs[cur.name]
<1>0. TypeOK /\ Syncing /\ Layout
    BY DEF PfsInv, Syncing, LayoutInv, Layout
<1>1. /\ e = [name |-> cur.name, len |-> Len(c), start |-> cur.start]
      /\ ~(cur.k < Len(c)) /\ cur.k <= Len(c)
      /\ \A j \in 1 .. cur.k : data[cur.start + j - 1] = c[j]
    BY <1>0 DEF PfsInv, SyncInv
<1>2. cur.k \in Nat /\ Len(c) \in Nat /\ c \in Seq(SectorData) /\ cur.slot \in Slots
    BY <1>0, SyncingFacts, Numbers
<1>3. cur.k = Len(c)
    BY <1>1, <1>2
<1>4. e # NoEntry
    <2>1. e \in Entry
        BY <1>0, <1>1, SyncingFacts, CurFields DEF Entry, PfsInv
    <2> QED BY <2>1, PfsAssumption
<1>5. cur.slot \in Taken /\ e.name = cur.name /\ e.len = Len(c) /\ e.start = cur.start
    BY <1>1, <1>2, <1>4 DEF Taken
<1>6. SlotsOf(cur.name) = {cur.slot}
    BY <1>0, <1>5 DEF Layout, SlotsOf
<1>7. Least(SlotsOf(cur.name)) = cur.slot
    BY <1>0, <1>6, SlotsOfFacts
<1>8. OnDisk(cur.name) = ReadRun(e)
    BY <1>6, <1>7 DEF OnDisk
<1> HIDE DEF c, e
<1>9. ReadRun(e) = [j \in 1 .. Len(c) |-> c[j]]
    BY <1>1, <1>3, <1>5 DEF ReadRun
<1>10. c = [j \in 1 .. Len(c) |-> c[j]]
    BY <1>2
<1> QED BY <1>8, <1>9, <1>10 DEF c

LEMMA KeptStep ==
    ASSUME PfsInv, [Next]_vars
    PROVE  KeptInv'
<1>0. TypeOK /\ CurType /\ StepInv /\ kept \in [Names -> Contents \cup {NoFile, Unknown}]
    BY DEF PfsInv, TypeOK
<1>1. SUFFICES ASSUME Trusted', ~CrashInBoot PROVE KeptInv'
    BY DEF KeptInv
<1>2. CASE FormatSuper
    <2>1. errors = 0 /\ errors' = 0 /\ step' = "idle" /\ UNCHANGED <<table, data>>
        BY <1>1, <1>2, TrustedBefore, Formatted DEF Trusted
    <2>2. kept' = [n \in Names |-> OnDisk(n)]
        BY <1>2, <2>1 DEF FormatSuper
    <2>3. \A n \in Names : OnDisk(n)' = OnDisk(n)
        BY <2>1, SameReads
    <2> QED BY <2>1, <2>2, <2>3 DEF KeptInv, Syncing, Deleting
<1>3. SUFFICES ASSUME Trusted PROVE KeptInv'
    BY <1>1, <1>2, TrustedBefore
<1>4. /\ \A n \in Names : kept[n] # Unknown /\ ~Busy(n) => OnDisk(n) = kept[n]
      /\ (Syncing \/ Deleting) /\ mode \in {"up", "recovery"} => kept[cur.name] = Unknown
      /\ Syncing /\ mode = "hydrate" /\ kept[cur.name] # Unknown => vfs[cur.name] = kept[cur.name]
      /\ Layout
    BY <1>1, <1>3 DEF PfsInv, KeptInv, LayoutInv, Layout
\* No operation is under way any more, and the disk is as it was.
<1>5. ASSUME ~Syncing', ~Deleting', UNCHANGED <<table, data, kept>>,
             (~Syncing /\ ~Deleting) \/ kept[cur.name] = Unknown
      PROVE  KeptInv'
    <2>1. ASSUME NEW n \in Names, kept'[n] # Unknown PROVE OnDisk(n)' = kept'[n]
        <3>1. ~Busy(n)
            BY <1>5, <2>1 DEF Busy
        <3>2. OnDisk(n)' = OnDisk(n)
            BY <1>5, SameReads
        <3> QED BY <1>4, <1>5, <2>1, <3>1, <3>2
    <2> QED BY <1>5, <2>1 DEF KeptInv
<1>6. CASE Quiet
    <2>1. UNCHANGED <<table, data>> /\ step' = "idle" /\ errors' = 0
        BY <1>1, <1>6, QuietFacts DEF disk, Trusted
    <2>2. kept' = kept
        BY <1>6 DEF Quiet, SyncError, DeleteError, FsckError, Boot, Mounted, Shutdown, Crash,
                Recover, LeaveRecovery, FsCreate
    <2>3. (~Syncing /\ ~Deleting) \/ kept[cur.name] = Unknown
        <3>1. CASE Crash
            <4>1. mode # "hydrate"
                BY <1>1, <3>1 DEF Crash
            <4>2. Syncing \/ Deleting => mode \in {"up", "recovery"}
                BY <1>0, <4>1 DEF StepInv
            <4> QED BY <1>4, <4>2
        <3>2. CASE SyncError \/ DeleteError \/ FsckError
            BY <1>0, <2>1, <3>2 DEF SyncError, DeleteError, FsckError, TypeOK
        <3>3. CASE Boot \/ Mounted \/ Shutdown \/ Recover \/ LeaveRecovery
            BY <1>0, <3>3 DEF Boot, Mounted, Shutdown, Recover, LeaveRecovery, StepInv, Syncing, Deleting
        <3>4. CASE \E n \in Names : FsCreate(n)
            BY <3>4 DEF FsCreate, Ready, Syncing, Deleting
        <3> QED BY <1>6, <3>1, <3>2, <3>3, <3>4 DEF Quiet
    <2> QED BY <1>5, <2>1, <2>2, <2>3 DEF Syncing, Deleting
<1>7. CASE Skip \/ Fsck \/ FsckSuper \/ \E n \in Names : Forget(n)
    BY <1>5, <1>7 DEF Skip, Fsck, FsckSuper, Forget, Syncing, Deleting, disk
<1>8. CASE UNCHANGED vars
    <2>1. UNCHANGED <<table, data, kept, vfs, cur, step, mode>>
        BY <1>8 DEF vars, disk
    <2>2. \A n : OnDisk(n)' = OnDisk(n) /\ (Busy(n)' <=> Busy(n))
        BY <2>1, SameReads DEF Busy, Syncing, Deleting
    <2> QED BY <1>4, <2>1, <2>2 DEF KeptInv, Syncing, Deleting
<1>9. ASSUME NEW n \in Names, NEW c \in Contents, BeginSync(n, c) PROVE KeptInv'
    <2>1. step = "idle" /\ UNCHANGED <<table, data, mode>>
        BY <1>9 DEF BeginSync, disk
    <2>2. CASE ~Fits(n, c)
        <3>1. kept' = kept /\ step' = "idle"
            BY <1>9, <2>1, <2>2, SyncStarted DEF BeginSync
        <3> QED BY <1>5, <2>1, <3>1 DEF Syncing, Deleting
    <2>3. CASE Fits(n, c)
        <3>1. cur'.name = n /\ vfs'[n] = c /\ step' \in {"data", "entry"}
            BY <1>0, <1>9, <2>3, SyncStarted, PlanFacts
        <3>2. ASSUME NEW m \in Names, kept'[m] # Unknown, ~Busy(m)' PROVE OnDisk(m)' = kept'[m]
            <4>1. m # n
                BY <3>1, <3>2 DEF Busy, Syncing
            <4>2. kept'[m] = kept[m]
                BY <1>0, <1>9, <2>1, <4>1 DEF BeginSync
            <4>3. ~Busy(m)
                BY <2>1 DEF Busy, Syncing, Deleting
            <4> QED BY <1>4, <2>1, <3>2, <4>2, <4>3, SameReads
        <3>3. mode' \in {"up", "recovery"} => kept'[cur'.name] = Unknown
            <4>1. mode' \in {"up", "recovery"} => mode = "up"
                BY <1>9, <2>1 DEF BeginSync
            <4> QED BY <1>0, <1>9, <2>3, <3>1, <4>1 DEF BeginSync
        <3>4. mode' = "hydrate" /\ kept'[cur'.name] # Unknown => vfs'[cur'.name] = kept'[cur'.name]
            BY <1>1, <1>9, <2>1, <3>1 DEF BeginSync
        <3> QED BY <3>2, <3>3, <3>4 DEF KeptInv
    <2> QED BY <2>2, <2>3
<1>10. ASSUME NEW n \in Names, BeginDelete(n) PROVE KeptInv'
    <2>1. /\ step = "idle" /\ UNCHANGED <<table, data>> /\ cur'.name = n /\ step' = "zero"
          /\ kept' = [kept EXCEPT ![n] = Unknown]
        BY <1>10 DEF BeginDelete, disk, Idle
    <2>2. ASSUME NEW m \in Names, kept'[m] # Unknown PROVE OnDisk(m)' = kept'[m]
        <3>1. kept'[m] = kept[m] /\ ~Busy(m)
            BY <1>0, <2>1, <2>2 DEF Busy, Syncing, Deleting
        <3> QED BY <1>4, <2>1, <2>2, <3>1, SameReads
    <2>3. kept'[n] = Unknown
        BY <1>0, <2>1
    <2> QED BY <2>1, <2>2, <2>3 DEF KeptInv, Syncing
\* The operation goes on; the files of other names are not touched.
<1>11. ASSUME Syncing \/ Deleting, Syncing' \/ Deleting', cur'.name = cur.name, Syncing' => Syncing,
              UNCHANGED <<kept, mode, vfs>>,
              \A n \in Names \ {cur.name} : OnDisk(n)' = OnDisk(n)
       PROVE  KeptInv'
    <2>1. ASSUME NEW n \in Names, kept'[n] # Unknown, ~Busy(n)' PROVE OnDisk(n)' = kept'[n]
        <3>1. n # cur.name
            BY <1>11, <2>1 DEF Busy
        <3>2. ~Busy(n)
            BY <3>1 DEF Busy
        <3> QED BY <1>4, <1>11, <2>1, <3>1, <3>2
    <2> QED BY <1>4, <1>11, <2>1 DEF KeptInv
<1>12. CASE SyncData
    <2> DEFINE x == cur.start + cur.k
    <2>1. /\ step = "data" /\ Syncing /\ table' = table /\ cur.k < Len(vfs[cur.name])
          /\ data' = [data EXCEPT ![x] = vfs[cur.name][cur.k + 1]]
          /\ UNCHANGED <<kept, mode, vfs>> /\ Syncing' /\ cur' = [cur EXCEPT !.k = cur.k + 1]
        BY <1>12 DEF SyncData, Syncing, PfsInv, SyncInv
    <2>2. cur'.name = cur.name
        BY <1>0, <2>1 DEF CurType
    <2>3. cur.k + 1 \in 1 .. Len(vfs[cur.name]) /\ cur.start + (cur.k + 1) - 1 = x
        BY <2>1, SyncingFacts
    <2>4. x \in NewRun
        BY <2>1, <2>3, SyncingFacts
    <2>5. /\ cur.slot \in Taken => table[cur.slot].name = cur.name
          /\ NewRun \cap Runs(Taken \ {cur.slot}) = {}
        BY <1>3, <2>1 DEF PfsInv, PlanInv
    <2> HIDE DEF x
    <2>6. ASSUME NEW n \in Names \ {cur.name} PROVE OnDisk(n)' = OnDisk(n)
        <3>1. SlotsOf(n)' = SlotsOf(n)
            BY <2>1 DEF SlotsOf, Taken
        <3>2. ASSUME NEW i \in SlotsOf(n), NEW s \in RunOf(table[i]) PROVE data'[s] = data[s]
            <4>1. i \in Taken /\ i # cur.slot
                BY <2>5 DEF SlotsOf
            <4>2. s \in Runs(Taken \ {cur.slot})
                BY <4>1 DEF Runs
            <4>3. s # x /\ s \in Sectors
                BY <1>0, <2>4, <2>5, <4>1, <4>2, EntryFacts
            <4> QED BY <1>0, <2>1, <4>3 DEF TypeOK
        <3> QED BY <1>0, <2>1, <3>1, <3>2, OtherReads
    <2> QED BY <1>11, <2>1, <2>2, <2>6
<1>13. CASE SyncEntry
    <2>1. /\ step = "entry" /\ Syncing /\ Syncing' /\ UNCHANGED <<data, kept, mode, vfs, cur>>
        BY <1>13 DEF SyncEntry, Syncing
    <2>2. /\ Taken' = Taken \cup {cur.slot} /\ table'[cur.slot].name = cur.name
          /\ \A i \in Taken \ {cur.slot} : table'[i] = table[i]
        <3>1. table'[cur.slot] = [name |-> cur.name, len |-> Len(vfs[cur.name]), start |-> cur.start]
            BY <1>3, <1>13, EntryWritten
        <3>2. table'[cur.slot].name = cur.name
            BY <3>1
        <3> QED BY <1>3, <1>13, <3>2, EntryWritten DEF Taken
    <2>3. cur.slot \in Taken => table[cur.slot].name = cur.name
        BY <1>3, <2>1 DEF PfsInv, PlanInv
    <2>4. ASSUME NEW n \in Names \ {cur.name} PROVE OnDisk(n)' = OnDisk(n)
        <3>1. \A i \in SlotsOf(n) : i \in Taken \ {cur.slot}
            BY <2>3 DEF SlotsOf
        <3>2. SlotsOf(n)' = SlotsOf(n)
            <4>1. SlotsOf(n)' = {i \in Taken' : table'[i].name = n}
                BY DEF SlotsOf
            <4>2. {i \in Taken' : table'[i].name = n} = {i \in Taken \ {cur.slot} : table[i].name = n}
                BY <2>2
            <4> QED BY <3>1, <4>1, <4>2 DEF SlotsOf
        <3> QED BY <1>0, <2>1, <2>2, <3>1, <3>2, OtherReads
    <2> QED BY <1>11, <2>1, <2>4
<1>14. CASE DeleteEntry
    <2>1. /\ step = "zero" /\ Deleting /\ Deleting' /\ ~Syncing' /\ UNCHANGED <<data, kept, mode, vfs, cur>>
          /\ table' = [table EXCEPT ![cur.slot] = NoEntry]
        BY <1>14 DEF DeleteEntry, Deleting, Syncing
    <2>2. Taken' = Taken \ {cur.slot} /\ \A i \in Taken' : table'[i] = table[i]
        BY <1>0, <2>1, CurFields DEF Taken, TypeOK
    <2>3. SlotsOf(cur.name) = {cur.slot}
        BY <1>3, <2>1 DEF PfsInv, PlanInv
    <2>4. ASSUME NEW n \in Names \ {cur.name} PROVE OnDisk(n)' = OnDisk(n)
        <3>1. \A i \in SlotsOf(n) : i \in Taken \ {cur.slot}
            BY <2>3 DEF SlotsOf
        <3>2. SlotsOf(n)' = SlotsOf(n)
            <4>1. SlotsOf(n)' = {i \in Taken' : table'[i].name = n}
                BY DEF SlotsOf
            <4>2. {i \in Taken' : table'[i].name = n} = {i \in Taken \ {cur.slot} : table[i].name = n}
                BY <2>2
            <4> QED BY <3>1, <4>1, <4>2 DEF SlotsOf
        <3> QED BY <1>0, <2>1, <2>2, <3>1, <3>2, OtherReads
    <2> QED BY <1>11, <2>1, <2>4
<1>15. CASE SyncSuper
    <2>1. /\ step = "super" /\ Syncing /\ step' = "idle" /\ UNCHANGED <<table, data>>
          /\ kept' = IF mode = "up" THEN [kept EXCEPT ![cur.name] = vfs[cur.name]] ELSE kept
        BY <1>15 DEF SyncSuper, Finish, Syncing
    <2>2. OnDisk(cur.name) = vfs[cur.name]
        BY <1>3, <2>1, SyncedReads
    <2>3. ASSUME NEW n \in Names, kept'[n] # Unknown PROVE OnDisk(n)' = kept'[n]
        <3>1. OnDisk(n)' = OnDisk(n)
            BY <2>1, SameReads
        <3>2. CASE n # cur.name
            <4>1. kept'[n] = kept[n] /\ ~Busy(n)
                BY <1>0, <2>1, <3>2 DEF Busy
            <4> QED BY <1>4, <2>3, <3>1, <4>1
        <3>3. CASE n = cur.name /\ mode = "up"
            BY <1>0, <2>1, <2>2, <3>1, <3>3
        <3>4. CASE n = cur.name /\ mode # "up"
            <4>1. mode = "hydrate"
                BY <1>0, <2>1, <3>4 DEF StepInv
            <4> QED BY <1>4, <2>1, <2>2, <2>3, <3>1, <3>4, <4>1
        <3> QED BY <3>2, <3>3, <3>4
    <2> QED BY <2>1, <2>3 DEF KeptInv, Syncing, Deleting
<1>16. CASE DeleteSuper
    <2>1. /\ step = "zsuper" /\ step' = "idle" /\ UNCHANGED <<table, data>>
          /\ kept' = [kept EXCEPT ![cur.name] = NoFile]
        BY <1>16 DEF DeleteSuper, Finish
    <2>2. OnDisk(cur.name) = NoFile
        BY <1>3, <2>1 DEF PfsInv, PlanInv, OnDisk
    <2>3. ASSUME NEW n \in Names, kept'[n] # Unknown PROVE OnDisk(n)' = kept'[n]
        <3>1. OnDisk(n)' = OnDisk(n)
            BY <2>1, SameReads
        <3>2. CASE n # cur.name
            <4>1. kept'[n] = kept[n] /\ ~Busy(n)
                BY <1>0, <2>1, <3>2 DEF Busy
            <4> QED BY <1>4, <2>3, <3>1, <4>1
        <3>3. CASE n = cur.name
            BY <1>0, <2>1, <2>2, <3>1, <3>3
        <3> QED BY <3>2, <3>3
    <2> QED BY <2>1, <2>3 DEF KeptInv, Syncing, Deleting
<1>17. CASE FsckDrop
    BY <1>3, <1>17 DEF FsckDrop, PfsInv, PlanInv
<1>18. CASE FormatEntry
    BY <1>0, <1>3, <1>18 DEF FormatEntry, StepInv, Trusted
<1> QED BY <1>2, <1>6, <1>7, <1>8, <1>9, <1>10, <1>12, <1>13, <1>14, <1>15, <1>16, <1>17, <1>18, Kinds

-----------------------------------------------------------------------------
(* The theorems                                                            *)

LEMMA InitType == Init => TypeOK /\ CurType
<1> SUFFICES ASSUME Init PROVE TypeOK /\ CurType
    OBVIOUS
<1>1. PICK n \in Names, junk \in SUBSET Slots :
        table = [i \in Slots |-> IF i \in junk
                  THEN [name |-> n, len |-> 1, start |-> 1] ELSE NoEntry]
    BY DEF Init
<1>2. [name |-> n, len |-> 1, start |-> 1] \in Entry
    BY Numbers DEF Entry
<1>3. RunOf([name |-> n, len |-> 1, start |-> 1]) \subseteq Sectors
    BY Numbers DEF RunOf, Sectors
<1>4. table \in [Slots -> Entry \cup {NoEntry}]
    BY <1>1, <1>2
<1>5. \A i \in Taken : RunOf(table[i]) \subseteq Sectors
    BY <1>1, <1>3 DEF Taken
<1>6. data \in [Sectors -> SectorData]
    <2>1. PICK m \in Names :
            data = [s \in Sectors |-> [name |-> m, op |-> 0, at |-> 1]]
        BY DEF Init
    <2>2. [name |-> m, op |-> 0, at |-> 1] \in SectorData
        BY Numbers DEF SectorData
    <2> QED BY <2>1, <2>2
<1>7. 0 \in 0 .. NSlots /\ 0 \in 0 .. MaxOps /\ 0 \in 0 .. MaxCrashes
      /\ 0 \in 0 .. MaxErrors
    BY Numbers
<1>8. vfs \in [Names -> Contents \cup {NoFile}]
    BY DEF Init, Blank
<1>9. kept \in [Names -> Contents \cup {NoFile, Unknown}]
    BY DEF Init
<1>10. TypeOK
    BY <1>4, <1>5, <1>6, <1>7, <1>8, <1>9 DEF Init, TypeOK
<1>11. CurType
    BY IdleType DEF Init, CurType, Locals
<1> QED BY <1>10, <1>11

LEMMA PfsInit == Init => PfsInv
<1> SUFFICES ASSUME Init PROVE PfsInv
    OBVIOUS
<1>1. TypeOK /\ CurType
    BY InitType
<1>2. sbValid = FALSE /\ mode = "off" /\ step = "idle" /\ vfs = Blank /\ dirty = FALSE
    BY DEF Init
<1>3. StepInv /\ SyncInv /\ FsckInv
    BY <1>2 DEF StepInv, SyncInv, FsckInv, Syncing, Deleting
<1>4. DirtyInv /\ FormatInv
    BY <1>2 DEF DirtyInv, FormatInv
<1>5. ~Trusted
    BY <1>2 DEF Trusted
<1>6. LayoutInv /\ PlanInv /\ SuperInv /\ KeptInv
    BY <1>5 DEF LayoutInv, PlanInv, SuperInv, KeptInv
<1>7. VfsInv
    BY <1>2 DEF VfsInv, Blank
<1> QED BY <1>1, <1>3, <1>4, <1>6, <1>7 DEF PfsInv

LEMMA PfsStep == PfsInv /\ [Next]_vars => PfsInv'
<1> SUFFICES ASSUME PfsInv, [Next]_vars PROVE PfsInv'
    OBVIOUS
<1>1. TypeOK' /\ CurType' /\ StepInv' /\ SyncInv' /\ FsckInv'
    BY TypeStep, CurTypeStep, StepInvStep, SyncInvStep, FsckInvStep
<1>2. DirtyInv' /\ FormatInv' /\ LayoutInv' /\ VfsInv'
    BY DirtyStep, FormatStep, LayoutStep, VfsStep
<1>3. PlanInv' /\ SuperInv' /\ KeptInv'
    BY PlanStep, SuperStep, KeptStep
<1> QED BY <1>1, <1>2, <1>3 DEF PfsInv

\* The state of the file system (pfs.c, filesystem.c, recovery.c) keeps the
\* inductive invariant through every sector write, crash and failed write.
THEOREM PfsInvariance == Spec => []PfsInv
<1>1. Init => PfsInv
    BY PfsInit
<1>2. PfsInv /\ [Next]_vars => PfsInv'
    BY PfsStep
<1> QED BY <1>1, <1>2, PTL DEF Spec

\* Entries of the table, the bitmap and all that is kept in RAM stay within
\* their types; no entry ever points past the end of the data (pfs.c:154-231).
THEOREM PfsTypes == Spec => []TypeOK
<1>1. PfsInv => TypeOK
    BY DEF PfsInv
<1> QED BY <1>1, PfsInvariance, PTL

\* fsck fix (recovery.c:299-352) ends with a consistent disk whatever crashes
\* and failed writes came before it, with no hypothesis on the boots between.
THEOREM FsckAlwaysCleans == Spec => []FsckCleans
<1>1. PfsInv => FsckCleans
    BY DEF PfsInv, FsckInv, FsckCleans
<1> QED BY <1>1, PfsInvariance, PTL

\* Where fsck runs after every crash, a mounted disk on which no write has
\* failed and none is under way is consistent: pfs_sync_file and
\* pfs_delete_file (pfs.c:154-287) leave the bitmap, the count and the table
\* in agreement, and no two files share a sector.
THEOREM DiskStaysConsistent == FsckFirst => (Spec => []DiskConsistent)
<1> SUFFICES ASSUME FsckFirst PROVE Spec => []DiskConsistent
    OBVIOUS
<1>1. ASSUME PfsInv PROVE DiskConsistent
    <2>1. TypeOK /\ FsckCleans
        BY <1>1 DEF PfsInv, FsckInv, FsckCleans
    <2>2. ASSUME errors = 0, mode = "up", step = "idle" PROVE Consistent
        <3>1. ~dirty /\ Trusted
            BY <1>1, <2>2 DEF PfsInv, DirtyInv, StepInv, Trusted
        <3>2. used = Runs(Taken) /\ nfiles = Cardinality(Taken)
            BY <1>1, <2>2, <3>1 DEF PfsInv, SuperInv
        <3>3. Apart(Taken)
            BY <1>1, <3>1 DEF PfsInv, LayoutInv
        <3> QED BY <3>2, <3>3 DEF Consistent, Runs, Apart
    <2> QED BY <2>1, <2>2 DEF DiskConsistent, BitmapExact
<1> QED BY <1>1, PfsInvariance, PTL

\* Where fsck runs after every crash and no write fails, a file is made of
\* sectors written for it, also in the middle of an operation and right after
\* a power cut: pfs_sync_file writes the data before the entry (pfs.c:201-221).
THEOREM FilesHoldTheirOwnData == FsckFirst => (Spec => []NoForeignData)
<1> SUFFICES ASSUME FsckFirst PROVE Spec => []NoForeignData
    OBVIOUS
<1>1. ASSUME PfsInv PROVE NoForeignData
    BY <1>1 DEF PfsInv, LayoutInv, Trusted, NoForeignData
<1> QED BY <1>1, PfsInvariance, PTL

\* Where fsck runs after every crash and power does not fail while files are
\* being hydrated, a write or deletion that was reported done is what the next
\* boot reads, across any number of crashes in operations on other files.
THEOREM WritesAreDurable == FsckFirst /\ ~CrashInBoot => (Spec => []Durable)
<1> SUFFICES ASSUME FsckFirst, ~CrashInBoot PROVE Spec => []Durable
    OBVIOUS
<1>1. ASSUME PfsInv PROVE Durable
    <2> SUFFICES ASSUME errors = 0, NEW n \in Names, kept[n] # Unknown, sbValid,
                        mode = "off" \/ cur.name # n
                 PROVE  OnDisk(n) = kept[n]
        BY DEF Durable
    <2>1. Trusted
        BY DEF Trusted
    <2>2. ~Busy(n)
        BY <1>1 DEF PfsInv, StepInv, Busy, Syncing, Deleting
    <2> QED BY <1>1, <2>1, <2>2 DEF PfsInv, KeptInv
<1> QED BY <1>1, PfsInvariance, PTL
=============================================================================
