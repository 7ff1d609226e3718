----------------------------- MODULE FdsProofs -----------------------------
(***************************************************************************)
(* Proofs about descriptors and pipes, for any number of processes, fds,   *)
(* descriptions and pipes and any size of a pipe's buffer: no fd outlives  *)
(* its description, pipes count their ends, and bytes leave a pipe in the  *)
(* order they entered it.                                                  *)
(***************************************************************************)
EXTENDS Fds, WellFoundedInduction, FiniteSetTheorems, SequenceTheorems, TLAPS

-----------------------------------------------------------------------------
(* Least numbers and places in a ring                                      *)

\* A non-empty set of numbers has a least element.
LEMMA MinIn ==
    ASSUME NEW S, S \subseteq Nat, S # {}
    PROVE  Min(S) \in S /\ \A y \in S : Min(S) <= y
<1>1. PICK x \in S : \A y \in S : ~(<<y, x>> \in OpToRel(<, Nat))
    BY WFMin, NatLessThanWellFounded, Zenon
<1>2. ASSUME NEW y \in S PROVE x <= y
    <2>1. x \in Nat /\ y \in Nat /\ <<y, x>> \in Nat \X Nat
        OBVIOUS
    <2>2. ~(y < x)
        BY <1>1, <2>1 DEF OpToRel
    <2> QED BY <2>1, <2>2
<1> QED BY <1>2 DEF Min

\* The remainder of a number less than one ring away
LEMMA Ring ==
    ASSUME NEW B \in Nat \ {0}, NEW a \in Int, -B <= a, a < 2 * B
    PROVE  a % B = IF a < 0 THEN a + B ELSE IF a < B THEN a ELSE a - B
<1>1. CASE 0 <= a /\ a < B
    BY <1>1
<1>2. CASE a < 0
    BY <1>2
<1>3. CASE a >= B
    BY <1>3
<1> QED BY <1>1, <1>2, <1>3

\* Steps around a ring: forward by at most its length, and the distance back.
LEMMA RingSum ==
    ASSUME NEW B \in Nat \ {0}, NEW x \in 0 .. B - 1, NEW d \in 0 .. B
    PROVE  /\ (x + d) % B \in 0 .. B - 1
           /\ (x + d) % B = IF x + d < B THEN x + d ELSE (x + d) - B
<1>1. x + d \in Int /\ -B <= x + d /\ x + d < 2 * B /\ ~(x + d < 0)
    OBVIOUS
<1>2. (x + d) % B = IF x + d < B THEN x + d ELSE (x + d) - B
    BY <1>1, Ring
<1> QED BY <1>1, <1>2

LEMMA RingBack ==
    ASSUME NEW B \in Nat \ {0}, NEW x \in 0 .. B - 1, NEW y \in 0 .. B - 1
    PROVE  (x - y) % B = IF x < y THEN (x - y) + B ELSE x - y
<1>1. x - y \in Int /\ -B <= x - y /\ x - y < 2 * B /\ x - y < B
    OBVIOUS
<1>2. (x - y) % B = IF x - y < 0 THEN (x - y) + B ELSE x - y
    BY <1>1, Ring
<1> QED BY <1>2

LEMMA RingTwice ==
    ASSUME NEW B \in Nat \ {0}, NEW x \in 0 .. B - 1, NEW c \in Nat, NEW n \in Nat,
           c + n <= B
    PROVE  (((x + c) % B) + n) % B = (x + (c + n)) % B
<1> DEFINE y == (x + c) % B
<1>1. c \in 0 .. B /\ n \in 0 .. B /\ c + n \in 0 .. B
    OBVIOUS
<1>2. y \in 0 .. B - 1 /\ y = IF x + c < B THEN x + c ELSE (x + c) - B
    BY <1>1, RingSum
<1>3. (x + (c + n)) % B = IF x + (c + n) < B THEN x + (c + n) ELSE (x + (c + n)) - B
    BY <1>1, RingSum
<1> HIDE DEF y
<1>4. (y + n) % B = IF y + n < B THEN y + n ELSE (y + n) - B
    BY <1>1, <1>2, RingSum
<1>5. (y + n) % B = (x + (c + n)) % B
    BY <1>2, <1>3, <1>4
<1> QED BY <1>5 DEF y

\* Where the bytes of a ring lie: the distance of the j-th from the tail.
LEMMA RingPlaces ==
    ASSUME NEW B \in Nat \ {0}, NEW h \in 0 .. B - 1, NEW c \in 0 .. B, NEW j \in 0 .. B - 1
    PROVE  /\ (h + j) % B \in 0 .. B - 1
           /\ (((h + j) % B) - ((h + c) % B)) % B = IF j < c THEN (j - c) + B ELSE j - c
<1> DEFINE x == (h + j) % B
           y == (h + c) % B
<1>0. j \in 0 .. B
    OBVIOUS
<1>1. x \in 0 .. B - 1 /\ x = IF h + j < B THEN h + j ELSE (h + j) - B
    BY <1>0, RingSum
<1>2. y \in 0 .. B - 1 /\ y = IF h + c < B THEN h + c ELSE (h + c) - B
    BY RingSum
<1> HIDE DEF x, y
<1>3. (x - y) % B = IF x < y THEN (x - y) + B ELSE x - y
    BY <1>1, <1>2, RingBack
<1>4. (x - y) % B = IF j < c THEN (j - c) + B ELSE j - c
    <2>1. CASE c < B
        BY <1>1, <1>2, <1>3, <2>1
    <2>2. CASE c = B
        BY <1>1, <1>2, <1>3, <2>2
    <2> QED BY <2>1, <2>2
<1> QED BY <1>1, <1>4 DEF x, y

-----------------------------------------------------------------------------
(* Operators                                                               *)

LEMMA Numbers ==
    /\ FdNums \subseteq Nat /\ Ofds \subseteq Nat /\ Pipes \subseteq Nat
    /\ FREE \notin Ofds /\ FREE \notin Pipes /\ BUF \in Nat \ {0}
BY FdsAssumption DEF FdNums, Ofds, Pipes, FREE

\* ofd_hold and ofd_drop count one description and change nothing else.
LEMMA HoldFacts ==
    ASSUME NEW os \in [Ofds -> OpenFile], NEW o \in Ofds
    PROVE  /\ Hold(os, o) \in [Ofds -> OpenFile]
           /\ Hold(os, o)[o].ref = os[o].ref + 1
           /\ Hold(os, o)[o].kind = os[o].kind /\ Hold(os, o)[o].pipe = os[o].pipe
           /\ Hold(os, o)[o].write = os[o].write
           /\ \A q \in Ofds \ {o} : Hold(os, o)[q] = os[q]
<1> DEFINE r == [os[o] EXCEPT !.ref = os[o].ref + 1]
<1>1. os[o] \in OpenFile /\ os[o].ref + 1 \in Nat
    BY DEF OpenFile
<1>2. /\ r \in OpenFile /\ r.ref = os[o].ref + 1 /\ r.kind = os[o].kind
      /\ r.pipe = os[o].pipe /\ r.write = os[o].write
    BY <1>1 DEF OpenFile
<1>3. Hold(os, o) = [os EXCEPT ![o] = r]
    BY DEF Hold
<1> HIDE DEF r
<1> QED BY <1>2, <1>3

LEMMA DropFacts ==
    ASSUME NEW os \in [Ofds -> OpenFile], NEW o \in Ofds
    PROVE  /\ Drop(os, o) \in [Ofds -> OpenFile]
           /\ Drop(os, o)[o].ref = IF os[o].ref > 0 THEN os[o].ref - 1 ELSE 0
           /\ Drop(os, o)[o].kind = os[o].kind /\ Drop(os, o)[o].pipe = os[o].pipe
           /\ Drop(os, o)[o].write = os[o].write
           /\ \A q \in Ofds \ {o} : Drop(os, o)[q] = os[q]
<1> DEFINE n == IF os[o].ref > 0 THEN os[o].ref - 1 ELSE 0
           r == [os[o] EXCEPT !.ref = n]
<1>1. os[o] \in OpenFile /\ n \in Nat
    BY DEF OpenFile
<1>2. /\ r \in OpenFile /\ r.ref = n /\ r.kind = os[o].kind
      /\ r.pipe = os[o].pipe /\ r.write = os[o].write
    BY <1>1 DEF OpenFile
<1>3. Drop(os, o) = [os EXCEPT ![o] = r]
    BY DEF Drop
<1> HIDE DEF r
<1> QED BY <1>2, <1>3

LEMMA EndClosedFacts ==
    ASSUME NEW q \in PipeRec, NEW write \in BOOLEAN
    PROVE  LET e == EndClosed(q, write)
           IN  /\ e \in PipeRec
               /\ e.head = q.head /\ e.tail = q.tail /\ e.count = q.count
               /\ e.readers = IF write THEN q.readers ELSE 0
               /\ e.writers = IF write THEN 0 ELSE q.writers
               /\ e.used <=> q.used /\ ~(e.readers = 0 /\ e.writers = 0)
<1> DEFINE r == IF write THEN q.readers ELSE Fewer(q.readers)
           w == IF write THEN Fewer(q.writers) ELSE q.writers
           u == q.used /\ ~(r = 0 /\ w = 0)
<1>1. /\ r = IF write THEN q.readers ELSE 0
      /\ w = IF write THEN 0 ELSE q.writers
      /\ r \in 0 .. 1 /\ w \in 0 .. 1
    BY DEF PipeRec, Fewer
<1>2. EndClosed(q, write) = [q EXCEPT !.readers = r, !.writers = w, !.used = u]
    BY DEF EndClosed, PipeRec
<1>3. u \in BOOLEAN
    BY DEF PipeRec
<1> HIDE DEF r, w
<1>4. u <=> q.used /\ ~(r = 0 /\ w = 0)
    OBVIOUS
<1> HIDE DEF u
<1> DEFINE e == [q EXCEPT !.readers = r, !.writers = w, !.used = u]
<1>5. /\ e \in PipeRec /\ e.head = q.head /\ e.tail = q.tail /\ e.count = q.count
      /\ e.readers = r /\ e.writers = w /\ e.used = u
    BY <1>1, <1>3 DEF PipeRec
<1> HIDE DEF e
<1>6. EndClosed(q, write) = e
    BY <1>2 DEF e
<1> QED BY <1>1, <1>4, <1>5, <1>6

-----------------------------------------------------------------------------
(* The fds that name a description                                         *)

Tables == [Procs -> [FdNums -> Ofds \cup {FREE}]]

FdSet(t, p, f, o) == [t EXCEPT ![p][f] = o]

NamesIn(s, t, o) == {pf \in Procs \X FdNums : s[pf[1]] # "none" /\ t[pf[1]][pf[2]] = o}

LEMMA FdsFinite ==
    ASSUME NEW S, S \subseteq FdNums PROVE IsFiniteSet(S) /\ Cardinality(S) \in Nat
<1>1. IsFiniteSet(FdNums)
    BY FdsAssumption, FS_Interval DEF FdNums
<1> QED BY <1>1, FS_Subset, FS_CardinalityType

LEMMA NamesFinite ==
    ASSUME NEW S, S \subseteq Procs \X FdNums
    PROVE  IsFiniteSet(S) /\ Cardinality(S) \in Nat
<1>1. IsFiniteSet(FdNums)
    BY FdsFinite
<1>2. IsFiniteSet(Procs \X FdNums)
    BY <1>1, FdsAssumption, FS_Product
<1> QED BY <1>2, FS_Subset, FS_CardinalityType

LEMMA NamesAre == \A o \in Ofds : Names(o) = NamesIn(st, fds, o)
BY DEF Names, NamesIn

\* A free fd takes description o: o has one more name.
LEMMA NameAdded ==
    ASSUME NEW s, NEW t \in Tables, NEW p \in Procs, s[p] # "none", NEW f \in FdNums,
           t[p][f] = FREE, NEW o \in Ofds
    PROVE  LET u == FdSet(t, p, f, o)
           IN  /\ u \in Tables
               /\ \A g \in FdNums : u[p][g] = IF g = f THEN o ELSE t[p][g]
               /\ \A q \in Ofds \ {o} : NamesIn(s, u, q) = NamesIn(s, t, q)
               /\ Cardinality(NamesIn(s, u, o)) = Cardinality(NamesIn(s, t, o)) + 1
<1> DEFINE u == FdSet(t, p, f, o)
<1>1. u \in Tables
    BY DEF Tables, FdSet
<1>2. \A q \in Procs, g \in FdNums :
          u[q][g] = IF q = p /\ g = f THEN o ELSE t[q][g]
    BY DEF Tables, FdSet
<1> HIDE DEF u
<1>3. \A q \in Ofds \ {o} : NamesIn(s, u, q) = NamesIn(s, t, q)
    <2>1. ASSUME NEW q \in Ofds \ {o}, NEW pf \in Procs \X FdNums
          PROVE  u[pf[1]][pf[2]] = q <=> t[pf[1]][pf[2]] = q
        BY <1>2, Numbers
    <2> QED BY <2>1 DEF NamesIn
<1>4. NamesIn(s, u, o) = NamesIn(s, t, o) \cup {<<p, f>>}
    <2>1. ASSUME NEW pf \in Procs \X FdNums
          PROVE  u[pf[1]][pf[2]] = o <=> (t[pf[1]][pf[2]] = o \/ pf = <<p, f>>)
        BY <1>2
    <2> QED BY <2>1 DEF NamesIn
<1>5. <<p, f>> \notin NamesIn(s, t, o)
    BY Numbers DEF NamesIn
<1>6. IsFiniteSet(NamesIn(s, t, o))
    BY NamesFinite DEF NamesIn
<1>7. Cardinality(NamesIn(s, u, o)) = Cardinality(NamesIn(s, t, o)) + 1
    BY <1>4, <1>5, <1>6, FS_AddElement
<1> QED BY <1>1, <1>2, <1>3, <1>7 DEF u

\* An fd is freed: its description has one name less.
LEMMA NameRemoved ==
    ASSUME NEW s, NEW t \in Tables, NEW p \in Procs, s[p] # "none", NEW f \in FdNums,
           NEW o \in Ofds, t[p][f] = o
    PROVE  LET u == FdSet(t, p, f, FREE)
           IN  /\ u \in Tables
               /\ \A q \in Ofds \ {o} : NamesIn(s, u, q) = NamesIn(s, t, q)
               /\ Cardinality(NamesIn(s, u, o)) = Cardinality(NamesIn(s, t, o)) - 1
               /\ Cardinality(NamesIn(s, t, o)) > 0
<1> DEFINE u == FdSet(t, p, f, FREE)
<1>1. u \in Tables
    BY DEF Tables, FdSet
<1>2. \A q \in Procs, g \in FdNums :
          u[q][g] = IF q = p /\ g = f THEN FREE ELSE t[q][g]
    BY DEF Tables, FdSet
<1> HIDE DEF u
<1>3. \A q \in Ofds \ {o} : NamesIn(s, u, q) = NamesIn(s, t, q)
    <2>1. ASSUME NEW q \in Ofds \ {o}, NEW pf \in Procs \X FdNums
          PROVE  u[pf[1]][pf[2]] = q <=> t[pf[1]][pf[2]] = q
        BY <1>2, Numbers
    <2> QED BY <2>1 DEF NamesIn
<1>4. NamesIn(s, u, o) = NamesIn(s, t, o) \ {<<p, f>>}
    <2>1. ASSUME NEW pf \in Procs \X FdNums
          PROVE  u[pf[1]][pf[2]] = o <=> (t[pf[1]][pf[2]] = o /\ pf # <<p, f>>)
        <3>1. PICK q \in Procs, g \in FdNums : pf = <<q, g>>
            OBVIOUS
        <3>2. u[q][g] = o <=> (t[q][g] = o /\ ~(q = p /\ g = f))
            BY <1>2, Numbers
        <3> QED BY <3>1, <3>2
    <2> QED BY <2>1 DEF NamesIn
<1>5. <<p, f>> \in NamesIn(s, t, o)
    BY DEF NamesIn
<1>6. IsFiniteSet(NamesIn(s, t, o)) /\ Cardinality(NamesIn(s, t, o)) \in Nat
    BY NamesFinite DEF NamesIn
<1>7. Cardinality(NamesIn(s, u, o)) = Cardinality(NamesIn(s, t, o)) - 1
    BY <1>4, <1>5, <1>6, FS_RemoveElement
<1>8. Cardinality(NamesIn(s, t, o)) # 0
    BY <1>5, <1>6, FS_EmptySet
<1>9. Cardinality(NamesIn(s, t, o)) > 0
    BY <1>6, <1>8
<1> QED BY <1>1, <1>3, <1>7, <1>9 DEF u

\* A description that an fd of a living process names is open.
LEMMA NamedIsOpen ==
    ASSUME TypeOK, RefInv, NEW p \in Procs, st[p] # "none", NEW f \in FdNums,
           fds[p][f] # FREE
    PROVE  fds[p][f] \in Ofds /\ ofd[fds[p][f]].ref > 0
<1> DEFINE o == fds[p][f]
<1>1. o \in Ofds /\ ofd[o].ref \in Nat
    BY DEF TypeOK, OpenFile
<1>2. <<p, f>> \in Names(o)
    BY DEF Names
<1>3. IsFiniteSet(Names(o)) /\ Cardinality(Names(o)) \in Nat
    BY NamesFinite DEF Names
<1>4. Cardinality(Names(o)) # 0
    BY <1>2, <1>3, FS_EmptySet
<1>5. ofd[o].ref >= Cardinality(Names(o))
    BY <1>1 DEF RefInv
<1> HIDE DEF o
<1>6. ofd[o].ref > 0
    BY <1>1, <1>3, <1>4, <1>5
<1> QED BY <1>1, <1>6 DEF o

\* A description that is free has no name.
LEMMA FreeHasNoName ==
    ASSUME TypeOK, RefInv, NEW o \in Ofds, ofd[o].ref = 0
    PROVE  Cardinality(Names(o)) = 0
<1>1. Cardinality(Names(o)) \in Nat
    BY NamesFinite DEF Names
<1>2. 0 >= Cardinality(Names(o))
    BY DEF RefInv
<1> QED BY <1>1, <1>2

-----------------------------------------------------------------------------
(* Steps that leave ends and rings alone                                   *)

LEMMA EndsKept ==
    ASSUME EndInv, UsedInv,
           \A o \in Ofds :
              /\ ofd'[o].ref > 0 /\ ofd'[o].kind = "pipe" <=> IsEnd(o)
              /\ IsEnd(o) => ofd'[o].pipe = ofd[o].pipe /\ ofd'[o].write = ofd[o].write,
           \A i \in Pipes :
              /\ pipe'[i].used <=> pipe[i].used
              /\ pipe[i].used => /\ pipe'[i].readers = pipe[i].readers
                                 /\ pipe'[i].writers = pipe[i].writers
    PROVE  EndInv' /\ UsedInv'
<1>1. \A o \in Ofds : IsEnd(o)' <=> IsEnd(o)
    BY DEF IsEnd
<1>2. EndInv'
    BY <1>1 DEF EndInv
<1>3. UsedInv'
    BY <1>1 DEF UsedInv
<1> QED BY <1>2, <1>3

LEMMA RingsKept ==
    ASSUME RingInv, PipeIsFifo,
           \A i \in Pipes : pipe'[i].used =>
              /\ pipe[i].used /\ pipe'[i].head = pipe[i].head
              /\ pipe'[i].tail = pipe[i].tail /\ pipe'[i].count = pipe[i].count
              /\ flow'[i] = flow[i] /\ buf'[i] = buf[i]
    PROVE  RingInv' /\ PipeIsFifo'
<1>1. RingInv'
    BY DEF RingInv
<1>2. PipeIsFifo'
    BY DEF PipeIsFifo
<1> QED BY <1>1, <1>2

LEMMA SameRefs ==
    ASSUME TypeOK, RefInv, ofd' \in [Ofds -> OpenFile],
           \A o \in Ofds : ofd'[o].ref >= ofd[o].ref,
           \A o \in Ofds : Names(o)' \subseteq Names(o)
    PROVE  RefInv'
<1>1. ASSUME NEW o \in Ofds PROVE ofd'[o].ref >= Cardinality(Names(o)')
    <2>1. IsFiniteSet(Names(o)) /\ Cardinality(Names(o)) \in Nat
        BY NamesFinite DEF Names
    <2>2. Names(o)' \subseteq Names(o)
        BY <1>1
    <2>3. Cardinality(Names(o)') <= Cardinality(Names(o)) /\ Cardinality(Names(o)') \in Nat
        BY <2>1, <2>2, FS_Subset, FS_CardinalityType
    <2>4. ofd[o].ref \in Nat /\ ofd'[o].ref \in Nat
        BY DEF TypeOK, OpenFile
    <2>5. ofd[o].ref >= Cardinality(Names(o)) /\ ofd'[o].ref >= ofd[o].ref
        BY DEF RefInv
    <2> QED BY <2>1, <2>3, <2>4, <2>5
<1> QED BY <1>1 DEF RefInv

-----------------------------------------------------------------------------
(* The system calls                                                        *)

LEMMA OpenStep ==
    ASSUME FdsInv, NEW p \in Procs, Open(p) PROVE FdsInv'
<1> DEFINE o == Min(FreeOfds)
           d == Description("file", FREE, FALSE)
           opened == [ofd EXCEPT ![o] = d]
           f == Min(FreeFds(p))
<1>0. /\ TypeOK /\ RefInv /\ EndInv /\ UsedInv /\ RingInv /\ PipeIsFifo
      /\ ofd \in [Ofds -> OpenFile] /\ fds \in Tables /\ st[p] # "none"
    BY DEF FdsInv, TypeOK, Tables, Open
<1>1. o \in Ofds /\ ofd[o].ref = 0
    <2>1. FreeOfds \subseteq Nat /\ FreeOfds # {}
        BY Numbers DEF FreeOfds, Open
    <2>2. o \in FreeOfds
        BY <2>1, MinIn
    <2> HIDE DEF o
    <2> QED BY <2>2 DEF FreeOfds
<1>2. d \in OpenFile /\ d.ref = 1 /\ d.kind = "file"
    BY DEF Description, OpenFile
<1>3. /\ UNCHANGED <<st, pipe, buf, births, flow>>
      /\ \/ FreeFds(p) = {} /\ ofd' = Drop(opened, o) /\ fds' = fds
         \/ /\ FreeFds(p) # {} /\ ofd' = opened
            /\ fds' = [fds EXCEPT ![p][f] = o]
    BY DEF Open
<1> HIDE DEF o, d
<1>4. /\ opened \in [Ofds -> OpenFile] /\ opened[o] = d
      /\ \A q \in Ofds \ {o} : opened[q] = ofd[q]
    BY <1>0, <1>1, <1>2
<1> HIDE DEF opened
<1>5. /\ ofd' \in [Ofds -> OpenFile] /\ \A q \in Ofds \ {o} : ofd'[q] = ofd[q]
      /\ ofd'[o].kind = "file" /\ ofd'[o].ref = IF FreeFds(p) = {} THEN 0 ELSE 1
    <2>1. CASE FreeFds(p) = {}
        <3> DEFINE dr == Drop(opened, o)
        <3>1. /\ dr \in [Ofds -> OpenFile] /\ \A q \in Ofds \ {o} : dr[q] = opened[q]
              /\ dr[o].ref = (IF opened[o].ref > 0 THEN opened[o].ref - 1 ELSE 0)
              /\ dr[o].kind = opened[o].kind
            BY <1>1, <1>4, DropFacts
        <3>2. ofd' = dr
            BY <1>3, <2>1
        <3> HIDE DEF dr
        <3> QED BY <1>2, <1>4, <2>1, <3>1, <3>2
    <2>2. CASE FreeFds(p) # {}
        BY <1>2, <1>3, <1>4, <2>2
    <2> QED BY <2>1, <2>2
<1>6. EndInv' /\ UsedInv'
    <2>1. \A q \in Ofds :
              /\ ofd'[q].ref > 0 /\ ofd'[q].kind = "pipe" <=> IsEnd(q)
              /\ IsEnd(q) => ofd'[q].pipe = ofd[q].pipe /\ ofd'[q].write = ofd[q].write
        BY <1>1, <1>5 DEF IsEnd
    <2> QED BY <1>0, <1>3, <2>1, EndsKept
<1>7. RingInv' /\ PipeIsFifo'
    BY <1>0, <1>3, RingsKept
<1>8. fds' \in Tables /\ RefInv'
    <2>1. CASE FreeFds(p) = {}
        <3>1. \A q \in Ofds : Names(q)' = Names(q)
            BY <1>3, <2>1 DEF Names
        <3>2. \A q \in Ofds : ofd'[q].ref >= ofd[q].ref
            BY <1>0, <1>1, <1>5, <2>1 DEF OpenFile
        <3> QED BY <1>0, <1>3, <1>5, <2>1, <3>1, <3>2, SameRefs
    <2>2. CASE FreeFds(p) # {}
        <3>1. FreeFds(p) \subseteq Nat
            BY Numbers DEF FreeFds
        <3>2. f \in FreeFds(p)
            BY <2>2, <3>1, MinIn
        <3> HIDE DEF f
        <3>3. f \in FdNums /\ fds[p][f] = FREE
            BY <3>2 DEF FreeFds
        <3> DEFINE u == FdSet(fds, p, f, o)
        <3>4. /\ u \in Tables
              /\ \A q \in Ofds \ {o} : NamesIn(st, u, q) = NamesIn(st, fds, q)
              /\ Cardinality(NamesIn(st, u, o)) = Cardinality(NamesIn(st, fds, o)) + 1
            BY <1>0, <1>1, <3>3, NameAdded
        <3>5. st' = st /\ fds' = u
            BY <1>3, <2>2 DEF FdSet
        <3> HIDE DEF u
        <3>6. \A q \in Ofds : Names(q)' = NamesIn(st, u, q)
            BY <3>5 DEF Names, NamesIn
        <3>7. Cardinality(Names(o)) = 0 /\ \A q \in Ofds : Names(q) = NamesIn(st, fds, q)
            BY <1>0, <1>1, FreeHasNoName, NamesAre
        <3>8. Cardinality(NamesIn(st, u, o)) = 1
            BY <1>1, <3>4, <3>7
        <3>9. \A q \in Ofds : ofd'[q].ref >= Cardinality(NamesIn(st, u, q))
            BY <1>0, <1>5, <2>2, <3>4, <3>7, <3>8 DEF RefInv
        <3> QED BY <3>4, <3>5, <3>6, <3>9 DEF RefInv
    <2> QED BY <2>1, <2>2
<1>9. TypeOK'
    BY <1>0, <1>3, <1>5, <1>8 DEF TypeOK, Tables
<1> QED BY <1>6, <1>7, <1>8, <1>9 DEF FdsInv

LEMMA DupStep ==
    ASSUME FdsInv, NEW p \in Procs, NEW g \in FdNums, Dup(p, g) PROVE FdsInv'
<1> DEFINE o == fds[p][g]
           held == Hold(ofd, o)
           dr == Drop(held, o)
           f == Min(FreeFds(p))
<1>0. /\ TypeOK /\ RefInv /\ EndInv /\ UsedInv /\ RingInv /\ PipeIsFifo
      /\ ofd \in [Ofds -> OpenFile] /\ fds \in Tables /\ st[p] # "none" /\ o # FREE
    BY DEF FdsInv, TypeOK, Tables, Dup
<1>1. o \in Ofds /\ ofd[o].ref > 0 /\ ofd[o].ref \in Nat
    BY <1>0, NamedIsOpen DEF OpenFile
<1>2. /\ UNCHANGED <<st, buf, births, flow>>
      /\ \/ FreeFds(p) = {} /\ ofd' = dr /\ pipe' = DropPipe(pipe, held, o) /\ fds' = fds
         \/ /\ FreeFds(p) # {} /\ ofd' = held /\ pipe' = pipe
            /\ fds' = [fds EXCEPT ![p][f] = o]
    BY DEF Dup
<1> HIDE DEF o
<1>3. /\ held \in [Ofds -> OpenFile] /\ held[o].ref = ofd[o].ref + 1
      /\ held[o].kind = ofd[o].kind /\ held[o].pipe = ofd[o].pipe
      /\ held[o].write = ofd[o].write /\ \A q \in Ofds \ {o} : held[q] = ofd[q]
    BY <1>0, <1>1, HoldFacts
<1> HIDE DEF held
<1>4. /\ dr \in [Ofds -> OpenFile] /\ dr[o].ref = ofd[o].ref
      /\ dr[o].kind = ofd[o].kind /\ dr[o].pipe = ofd[o].pipe
      /\ dr[o].write = ofd[o].write /\ \A q \in Ofds \ {o} : dr[q] = ofd[q]
    <2>1. /\ dr \in [Ofds -> OpenFile]
          /\ dr[o].ref = (IF held[o].ref > 0 THEN held[o].ref - 1 ELSE 0)
          /\ dr[o].kind = held[o].kind /\ dr[o].pipe = held[o].pipe
          /\ dr[o].write = held[o].write /\ \A q \in Ofds \ {o} : dr[q] = held[q]
        BY <1>1, <1>3, DropFacts
    <2> HIDE DEF dr
    <2> QED BY <1>1, <1>3, <2>1
<1>5. ~Gone(held, o)
    BY <1>1, <1>4 DEF Gone
<1>6. pipe' = pipe
    BY <1>2, <1>5 DEF DropPipe
<1> HIDE DEF dr
<1>7. /\ ofd' \in [Ofds -> OpenFile] /\ \A q \in Ofds \ {o} : ofd'[q] = ofd[q]
      /\ ofd'[o].kind = ofd[o].kind /\ ofd'[o].pipe = ofd[o].pipe
      /\ ofd'[o].write = ofd[o].write
      /\ ofd'[o].ref = IF FreeFds(p) = {} THEN ofd[o].ref ELSE ofd[o].ref + 1
    BY <1>2, <1>3, <1>4
<1>8. EndInv' /\ UsedInv'
    <2>1. \A q \in Ofds :
              /\ ofd'[q].ref > 0 /\ ofd'[q].kind = "pipe" <=> IsEnd(q)
              /\ IsEnd(q) => ofd'[q].pipe = ofd[q].pipe /\ ofd'[q].write = ofd[q].write
        BY <1>1, <1>7 DEF IsEnd
    <2> QED BY <1>0, <1>6, <2>1, EndsKept
<1>9. RingInv' /\ PipeIsFifo'
    BY <1>0, <1>2, <1>6, RingsKept
<1>10. fds' \in Tables /\ RefInv'
    <2>1. CASE FreeFds(p) = {}
        <3>1. \A q \in Ofds : Names(q)' = Names(q)
            BY <1>2, <2>1 DEF Names
        <3>2. \A q \in Ofds : ofd'[q].ref >= ofd[q].ref
            BY <1>0, <1>1, <1>7, <2>1 DEF OpenFile
        <3> QED BY <1>0, <1>2, <1>7, <2>1, <3>1, <3>2, SameRefs
    <2>2. CASE FreeFds(p) # {}
        <3>1. FreeFds(p) \subseteq Nat
            BY Numbers DEF FreeFds
        <3>2. f \in FreeFds(p)
            BY <2>2, <3>1, MinIn
        <3> HIDE DEF f
        <3>3. f \in FdNums /\ fds[p][f] = FREE
            BY <3>2 DEF FreeFds
        <3> DEFINE u == FdSet(fds, p, f, o)
        <3>4. /\ u \in Tables
              /\ \A q \in Ofds \ {o} : NamesIn(st, u, q) = NamesIn(st, fds, q)
              /\ Cardinality(NamesIn(st, u, o)) = Cardinality(NamesIn(st, fds, o)) + 1
            BY <1>0, <1>1, <3>3, NameAdded
        <3>5. st' = st /\ fds' = u
            BY <1>2, <2>2 DEF FdSet
        <3> HIDE DEF u
        <3>6. \A q \in Ofds : Names(q)' = NamesIn(st, u, q)
            BY <3>5 DEF Names, NamesIn
        <3>7. /\ Cardinality(Names(o)) \in Nat
              /\ \A q \in Ofds : Names(q) = NamesIn(st, fds, q)
            BY NamesFinite, NamesAre DEF Names
        <3>8. /\ ofd'[o].ref >= Cardinality(NamesIn(st, u, o))
            BY <1>0, <1>1, <1>7, <2>2, <3>4, <3>7 DEF RefInv
        <3>9. \A q \in Ofds \ {o} : ofd'[q].ref >= Cardinality(NamesIn(st, u, q))
            BY <1>0, <1>7, <3>4, <3>7 DEF RefInv
        <3> QED BY <3>4, <3>5, <3>6, <3>8, <3>9 DEF RefInv
    <2> QED BY <2>1, <2>2
<1>11. TypeOK'
    BY <1>0, <1>2, <1>6, <1>7, <1>10 DEF TypeOK, Tables
<1> QED BY <1>8, <1>9, <1>10, <1>11 DEF FdsInv

LEMMA CloseStep ==
    ASSUME FdsInv, NEW p \in Procs, NEW f \in FdNums, Close(p, f) PROVE FdsInv'
<1> DEFINE o == fds[p][f]
           i == ofd[o].pipe
           w == ofd[o].write
           dr == Drop(ofd, o)
           u == FdSet(fds, p, f, FREE)
           last == Gone(ofd, o) /\ ofd[o].kind = "pipe"
<1>0. /\ TypeOK /\ RefInv /\ EndInv /\ UsedInv /\ RingInv /\ PipeIsFifo
      /\ ofd \in [Ofds -> OpenFile] /\ fds \in Tables /\ pipe \in [Pipes -> PipeRec]
      /\ st[p] # "none" /\ o # FREE
    BY DEF FdsInv, TypeOK, Tables, Close
<1>1. o \in Ofds /\ ofd[o].ref > 0 /\ ofd[o].ref \in Nat /\ w \in BOOLEAN
    BY <1>0, NamedIsOpen DEF OpenFile
<1>2. /\ UNCHANGED <<st, buf, births, flow>> /\ fds' = u /\ ofd' = dr
      /\ pipe' = IF last THEN [pipe EXCEPT ![i] = EndClosed(pipe[i], w)] ELSE pipe
    BY DEF Close, FdSet, DropPipe
<1>3. /\ u \in Tables
      /\ \A q \in Ofds \ {o} : NamesIn(st, u, q) = NamesIn(st, fds, q)
      /\ Cardinality(NamesIn(st, u, o)) = Cardinality(NamesIn(st, fds, o)) - 1
      /\ Cardinality(NamesIn(st, fds, o)) > 0
    BY <1>0, <1>1, NameRemoved
<1> HIDE DEF o, u
<1>4. /\ ofd' \in [Ofds -> OpenFile] /\ ofd'[o].ref = ofd[o].ref - 1
      /\ ofd'[o].kind = ofd[o].kind /\ ofd'[o].pipe = ofd[o].pipe
      /\ ofd'[o].write = ofd[o].write /\ \A q \in Ofds \ {o} : ofd'[q] = ofd[q]
    <2>1. /\ dr \in [Ofds -> OpenFile]
          /\ dr[o].ref = (IF ofd[o].ref > 0 THEN ofd[o].ref - 1 ELSE 0)
          /\ dr[o].kind = ofd[o].kind /\ dr[o].pipe = ofd[o].pipe
          /\ dr[o].write = ofd[o].write /\ \A q \in Ofds \ {o} : dr[q] = ofd[q]
        BY <1>0, <1>1, DropFacts
    <2>2. ofd' = dr
        BY <1>2
    <2> HIDE DEF dr
    <2> QED BY <1>1, <2>1, <2>2
<1>5. Gone(ofd, o) <=> ofd[o].ref = 1
    BY <1>1, <1>2, <1>4 DEF Gone
<1>6. RefInv'
    <2>1. \A q \in Ofds : Names(q)' = NamesIn(st, u, q)
        BY <1>2 DEF Names, NamesIn
    <2>2. \A q \in Ofds : Names(q) = NamesIn(st, fds, q)
        BY NamesAre
    <2>3. Cardinality(Names(o)) \in Nat
        BY NamesFinite DEF Names
    <2>4. ofd'[o].ref >= Cardinality(NamesIn(st, u, o))
        BY <1>0, <1>1, <1>3, <1>4, <2>2, <2>3 DEF RefInv
    <2>5. \A q \in Ofds \ {o} : ofd'[q].ref >= Cardinality(NamesIn(st, u, q))
        BY <1>0, <1>3, <1>4, <2>2 DEF RefInv
    <2> QED BY <2>1, <2>4, <2>5 DEF RefInv
<1>7. CASE ~last
    <2>1. \A q \in Ofds :
              /\ ofd'[q].ref > 0 /\ ofd'[q].kind = "pipe" <=> IsEnd(q)
              /\ IsEnd(q) => ofd'[q].pipe = ofd[q].pipe /\ ofd'[q].write = ofd[q].write
        BY <1>1, <1>4, <1>5, <1>7 DEF IsEnd
    <2>2. pipe' = pipe
        BY <1>2, <1>7
    <2>3. EndInv' /\ UsedInv'
        BY <1>0, <2>1, <2>2, EndsKept
    <2>4. RingInv' /\ PipeIsFifo'
        BY <1>0, <1>2, <2>2, RingsKept
    <2>5. TypeOK'
        BY <1>0, <1>2, <1>3, <1>4, <2>2 DEF TypeOK, Tables
    <2> QED BY <1>6, <2>3, <2>4, <2>5 DEF FdsInv
<1>8. CASE last
    <2>1. IsEnd(o) /\ i \in Pipes /\ pipe[i].used /\ pipe[i] \in PipeRec
        BY <1>0, <1>1, <1>8 DEF IsEnd, EndInv
    <2> DEFINE e == EndClosed(pipe[i], w)
    <2>2. /\ e \in PipeRec
          /\ e.head = pipe[i].head /\ e.tail = pipe[i].tail /\ e.count = pipe[i].count
          /\ e.readers = IF w THEN pipe[i].readers ELSE 0
          /\ e.writers = IF w THEN 0 ELSE pipe[i].writers
          /\ e.used <=> pipe[i].used /\ ~(e.readers = 0 /\ e.writers = 0)
        BY <1>1, <2>1, EndClosedFacts
    <2>3. pipe' = [pipe EXCEPT ![i] = e]
        BY <1>2, <1>8
    <2> HIDE DEF e
    <2>4. /\ pipe' \in [Pipes -> PipeRec] /\ pipe'[i] = e
          /\ \A j \in Pipes \ {i} : pipe'[j] = pipe[j]
        BY <1>0, <2>1, <2>2, <2>3
    <2>5. \A q \in Ofds : /\ IsEnd(q)' <=> IsEnd(q) /\ q # o
                          /\ ofd'[q].pipe = ofd[q].pipe /\ ofd'[q].write = ofd[q].write
        BY <1>1, <1>4, <1>5, <1>8 DEF IsEnd
    <2>6. EndInv'
        <3> SUFFICES ASSUME NEW q \in Ofds, IsEnd(q)'
                     PROVE  /\ ofd'[q].pipe \in Pipes /\ pipe'[ofd'[q].pipe].used
                            /\ ofd'[q].write => pipe'[ofd'[q].pipe].writers = 1
                            /\ ~ofd'[q].write => pipe'[ofd'[q].pipe].readers = 1
                            /\ \A v \in Ofds : IsEnd(v)' /\ ofd'[v].pipe = ofd'[q].pipe
                                  /\ ofd'[v].write = ofd'[q].write => v = q
            BY DEF EndInv
        <3>1. IsEnd(q) /\ q # o
            BY <2>5
        <3>2. /\ ofd[q].pipe \in Pipes /\ pipe[ofd[q].pipe].used
              /\ ofd[q].write => pipe[ofd[q].pipe].writers = 1
              /\ ~ofd[q].write => pipe[ofd[q].pipe].readers = 1
              /\ \A v \in Ofds : IsEnd(v) /\ ofd[v].pipe = ofd[q].pipe
                                     /\ ofd[v].write = ofd[q].write => v = q
            BY <1>0, <3>1 DEF EndInv
        <3>3. \A v \in Ofds : IsEnd(v)' /\ ofd'[v].pipe = ofd'[q].pipe
                                  /\ ofd'[v].write = ofd'[q].write => v = q
            BY <2>5, <3>2
        <3>4. ofd'[q].pipe = ofd[q].pipe /\ ofd'[q].write = ofd[q].write
            BY <2>5
        <3>5. CASE ofd[q].pipe # i
            BY <2>4, <3>2, <3>3, <3>4, <3>5
        <3>6. CASE ofd[q].pipe = i
            <4>1. ofd[q].write # w
                BY <1>1, <2>1, <3>1, <3>2, <3>6
            <4>2. ofd[q].write \in BOOLEAN
                BY <1>0 DEF OpenFile
            <4> QED BY <1>1, <2>1, <2>2, <2>4, <3>2, <3>3, <3>4, <3>6, <4>1, <4>2
        <3> QED BY <3>5, <3>6
    <2>7. UsedInv'
        <3> SUFFICES ASSUME NEW j \in Pipes, pipe'[j].used
                     PROVE  /\ pipe'[j].readers = 1 \/ pipe'[j].writers = 1
                            /\ pipe'[j].readers = 1 => \E q \in Ofds :
                                  IsEnd(q)' /\ ofd'[q].pipe = j /\ ~ofd'[q].write
                            /\ pipe'[j].writers = 1 => \E q \in Ofds :
                                  IsEnd(q)' /\ ofd'[q].pipe = j /\ ofd'[q].write
            BY DEF UsedInv
        <3>1. CASE j # i
            <4>1. pipe'[j] = pipe[j]
                BY <2>4, <3>1
            <4>2. \A q \in Ofds : IsEnd(q) /\ ofd[q].pipe = j =>
                     IsEnd(q)' /\ ofd'[q].pipe = j /\ ofd'[q].write = ofd[q].write
                BY <2>5, <3>1
            <4> QED BY <1>0, <4>1, <4>2 DEF UsedInv
        <3>2. CASE j = i
            <4>1. e \in PipeRec /\ e.readers \in 0 .. 1 /\ e.writers \in 0 .. 1
                BY <2>2 DEF PipeRec
            <4>2. e.readers = 1 \/ e.writers = 1
                BY <2>2, <2>4, <3>2, <4>1
            <4>3. e.readers = 1 => w /\ pipe[i].readers = 1
                BY <2>2
            <4>4. e.writers = 1 => ~w /\ pipe[i].writers = 1
                BY <2>2
            <4>5. ASSUME e.readers = 1
                  PROVE  \E q \in Ofds : IsEnd(q)' /\ ofd'[q].pipe = i /\ ~ofd'[q].write
                <5>1. PICK q \in Ofds : IsEnd(q) /\ ofd[q].pipe = i /\ ~ofd[q].write
                    BY <1>0, <2>1, <4>3, <4>5 DEF UsedInv
                <5>2. q # o
                    BY <4>3, <4>5, <5>1
                <5> QED BY <2>5, <5>1, <5>2
            <4>6. ASSUME e.writers = 1
                  PROVE  \E q \in Ofds : IsEnd(q)' /\ ofd'[q].pipe = i /\ ofd'[q].write
                <5>1. PICK q \in Ofds : IsEnd(q) /\ ofd[q].pipe = i /\ ofd[q].write
                    BY <1>0, <2>1, <4>4, <4>6 DEF UsedInv
                <5>2. q # o
                    BY <4>4, <4>6, <5>1
                <5> QED BY <2>5, <5>1, <5>2
            <4> QED BY <2>4, <3>2, <4>2, <4>5, <4>6
        <3> QED BY <3>1, <3>2
    <2>8. RingInv' /\ PipeIsFifo'
        <3>1. \A j \in Pipes : pipe'[j].used =>
                 /\ pipe[j].used /\ pipe'[j].head = pipe[j].head
                 /\ pipe'[j].tail = pipe[j].tail /\ pipe'[j].count = pipe[j].count
                 /\ flow'[j] = flow[j] /\ buf'[j] = buf[j]
            BY <1>2, <2>1, <2>2, <2>4
        <3> QED BY <1>0, <3>1, RingsKept
    <2>9. TypeOK'
        BY <1>0, <1>2, <1>3, <1>4, <2>4 DEF TypeOK, Tables
    <2> QED BY <1>6, <2>6, <2>7, <2>8, <2>9 DEF FdsInv
<1> QED BY <1>7, <1>8

-----------------------------------------------------------------------------
(* The life of a process                                                   *)

LEMMA LifeStep ==
    ASSUME FdsInv, NEW p \in Procs, Spawn(p) \/ Exit(p) \/ Destroy(p) PROVE FdsInv'
<1>0. /\ TypeOK /\ RefInv /\ EndInv /\ UsedInv /\ RingInv /\ PipeIsFifo
      /\ UNCHANGED <<ofd, pipe, buf, flow>> /\ fds \in Tables
    BY DEF FdsInv, Spawn, Exit, Destroy, TypeOK, Tables
<1>1. st' \in [Procs -> {"none", "live", "zombie"}] /\ births' \in 0 .. MaxBirths
    <2>1. births' \in 0 .. MaxBirths
        BY <1>0, FdsAssumption DEF TypeOK, Spawn, Exit, Destroy
    <2>2. st' \in [Procs -> {"none", "live", "zombie"}]
        BY <1>0 DEF TypeOK, Spawn, Exit, Destroy
    <2> QED BY <2>1, <2>2
<1>2. fds' \in Tables
    <2>1. NoFds \in [FdNums -> Ofds \cup {FREE}]
        BY DEF NoFds
    <2> QED BY <1>0, <2>1 DEF Spawn, Exit, Destroy, Tables
<1>3. \A o \in Ofds : Names(o)' \subseteq Names(o)
    <2> SUFFICES ASSUME NEW o \in Ofds, NEW q \in Procs, NEW g \in FdNums,
                        st'[q] # "none", fds'[q][g] = o
                 PROVE  st[q] # "none" /\ fds[q][g] = o
        BY DEF Names
    <2>1. CASE Spawn(p)
        <3>1. q # p
            BY <1>0, <2>1, Numbers DEF Spawn, Tables, NoFds
        <3> QED BY <1>0, <2>1, <3>1 DEF Spawn, TypeOK, Tables
    <2>2. CASE Exit(p)
        BY <1>0, <2>2 DEF Exit, TypeOK
    <2>3. CASE Destroy(p)
        BY <1>0, <2>3 DEF Destroy, TypeOK
    <2> QED BY <2>1, <2>2, <2>3
<1>4. RefInv'
    <2>1. ofd' \in [Ofds -> OpenFile] /\ \A o \in Ofds : ofd'[o].ref >= ofd[o].ref
        BY <1>0 DEF TypeOK, OpenFile
    <2> QED BY <1>0, <1>3, <2>1, SameRefs
<1>5. EndInv' /\ UsedInv' /\ RingInv' /\ PipeIsFifo'
    BY <1>0 DEF EndInv, UsedInv, RingInv, PipeIsFifo, IsEnd
<1>6. TypeOK'
    BY <1>0, <1>1, <1>2 DEF TypeOK, Tables
<1> QED BY <1>4, <1>5, <1>6 DEF FdsInv

\* The child's fds are as many new names as the parent's fds hold.
LEMMA NamesOfChild ==
    ASSUME TypeOK, NEW p \in Procs, NEW c \in Procs, st[c] = "none", NEW o \in Ofds,
           st' = [st EXCEPT ![c] = "live"], fds' = [fds EXCEPT ![c] = fds[p]]
    PROVE  Cardinality(Names(o)') =
               Cardinality(Names(o)) + Cardinality({f \in FdNums : fds[p][f] = o})
<1> DEFINE F == {f \in FdNums : fds[p][f] = o}
           C == {c} \X F
<1>1. IsFiniteSet(F) /\ Cardinality(F) \in Nat
    BY FdsFinite
<1>2. IsFiniteSet({c}) /\ Cardinality({c}) = 1
    BY FS_Singleton
<1>3. IsFiniteSet(C) /\ Cardinality(C) = Cardinality({c}) * Cardinality(F)
    BY <1>1, <1>2, FS_Product
<1>4. Cardinality(C) = Cardinality(F)
    BY <1>1, <1>2, <1>3
<1>5. Names(o)' = Names(o) \cup C
    <2>1. ASSUME NEW q \in Procs, NEW g \in FdNums
          PROVE  st'[q] # "none" /\ fds'[q][g] = o <=>
                    \/ st[q] # "none" /\ fds[q][g] = o
                    \/ q = c /\ fds[p][g] = o
        BY DEF TypeOK
    <2>2. ASSUME NEW pf \in Procs \X FdNums
          PROVE  pf \in Names(o)' <=> pf \in Names(o) \/ pf \in C
        <3>1. PICK q \in Procs, g \in FdNums : pf = <<q, g>>
            OBVIOUS
        <3> QED BY <2>1, <3>1 DEF Names
    <2>3. Names(o)' \subseteq Procs \X FdNums /\ Names(o) \subseteq Procs \X FdNums
          /\ C \subseteq Procs \X FdNums
        BY DEF Names
    <2> QED BY <2>2, <2>3
<1>6. Names(o) \cap C = {}
    BY DEF Names
<1>7. IsFiniteSet(Names(o)) /\ Cardinality(Names(o)) \in Nat
    BY NamesFinite DEF Names
<1>8. Cardinality(Names(o) \cup C) =
          Cardinality(Names(o)) + Cardinality(C) - Cardinality(Names(o) \cap C)
    BY <1>3, <1>7, FS_Union
<1>9. Cardinality(Names(o) \cap C) = 0
    BY <1>6, FS_EmptySet
<1> HIDE DEF C, F
<1>10. Cardinality(Names(o)') = Cardinality(Names(o)) + Cardinality(F)
    BY <1>1, <1>4, <1>5, <1>7, <1>8, <1>9
<1> QED BY <1>10 DEF F

LEMMA ForkStep ==
    ASSUME FdsInv, NEW p \in Procs, NEW c \in Procs, Fork(p, c) PROVE FdsInv'
<1> DEFINE n(o) == Cardinality({f \in FdNums : fds[p][f] = o})
<1>0. /\ TypeOK /\ RefInv /\ EndInv /\ UsedInv /\ RingInv /\ PipeIsFifo
      /\ UNCHANGED <<pipe, buf, flow>> /\ fds \in Tables
      /\ ofd \in [Ofds -> OpenFile] /\ st[p] = "live" /\ st[c] = "none"
      /\ st' = [st EXCEPT ![c] = "live"] /\ fds' = [fds EXCEPT ![c] = fds[p]]
      /\ ofd' = [o \in Ofds |-> [ofd[o] EXCEPT !.ref = @ + n(o)]]
    BY DEF FdsInv, Fork, TypeOK, Tables, Inherited
<1>1. \A o \in Ofds : n(o) \in Nat
    <2>1. ASSUME NEW o \in Ofds PROVE n(o) \in Nat
        BY FdsFinite
    <2> QED BY <2>1
<1>2. \A o \in Ofds : n(o) # 0 => ofd[o].ref > 0
    <2>1. ASSUME NEW o \in Ofds, n(o) # 0 PROVE ofd[o].ref > 0
        <3>1. PICK f \in FdNums : fds[p][f] = o
            BY <2>1, FS_EmptySet
        <3> QED BY <1>0, <3>1, NamedIsOpen, Numbers
    <2> QED BY <2>1
<1>3. \A o \in Ofds : Cardinality(Names(o)') = Cardinality(Names(o)) + n(o)
    BY <1>0, NamesOfChild
<1> HIDE DEF n
<1>4. /\ ofd' \in [Ofds -> OpenFile]
      /\ \A o \in Ofds : /\ ofd'[o].ref = ofd[o].ref + n(o)
                          /\ ofd'[o].kind = ofd[o].kind /\ ofd'[o].pipe = ofd[o].pipe
                          /\ ofd'[o].write = ofd[o].write
    <2>1. ASSUME NEW o \in Ofds
          PROVE  /\ ofd'[o] \in OpenFile /\ ofd'[o].ref = ofd[o].ref + n(o)
                 /\ ofd'[o].kind = ofd[o].kind /\ ofd'[o].pipe = ofd[o].pipe
                 /\ ofd'[o].write = ofd[o].write
        <3>1. ofd[o] \in OpenFile /\ ofd[o].ref + n(o) \in Nat
            BY <1>0, <1>1 DEF OpenFile
        <3>2. ofd'[o] = [ofd[o] EXCEPT !.ref = ofd[o].ref + n(o)]
            BY <1>0
        <3> QED BY <3>1, <3>2 DEF OpenFile
    <2>2. ofd' = [o \in Ofds |-> ofd'[o]]
        BY <1>0
    <2> QED BY <2>1, <2>2
<1>5. RefInv'
    <2>1. ASSUME NEW o \in Ofds PROVE ofd'[o].ref >= Cardinality(Names(o)')
        <3>1. Cardinality(Names(o)) \in Nat
            BY NamesFinite DEF Names
        <3>2. ofd[o].ref \in Nat
            BY <1>0 DEF OpenFile
        <3>3. ofd[o].ref >= Cardinality(Names(o))
            BY <1>0 DEF RefInv
        <3> QED BY <1>1, <1>3, <1>4, <3>1, <3>2, <3>3
    <2> QED BY <2>1 DEF RefInv
<1>6. EndInv' /\ UsedInv'
    <2>1. \A o \in Ofds : ofd'[o].ref > 0 <=> ofd[o].ref > 0
        BY <1>0, <1>1, <1>2, <1>4 DEF OpenFile
    <2>2. \A o \in Ofds :
              /\ ofd'[o].ref > 0 /\ ofd'[o].kind = "pipe" <=> IsEnd(o)
              /\ IsEnd(o) => ofd'[o].pipe = ofd[o].pipe /\ ofd'[o].write = ofd[o].write
        BY <1>4, <2>1 DEF IsEnd
    <2> QED BY <1>0, <2>2, EndsKept
<1>7. RingInv' /\ PipeIsFifo'
    BY <1>0, RingsKept
<1>8. births' \in 0 .. MaxBirths
    BY <1>0, FdsAssumption DEF TypeOK, Fork
<1>9. st' \in [Procs -> {"none", "live", "zombie"}] /\ fds' \in Tables
    BY <1>0 DEF TypeOK, Tables
<1>10. TypeOK'
    BY <1>0, <1>4, <1>8, <1>9 DEF TypeOK, Tables
<1> QED BY <1>5, <1>6, <1>7, <1>10 DEF FdsInv

-----------------------------------------------------------------------------
(* pipe                                                                    *)

LEMMA TwoLeast ==
    ASSUME NEW S, S \subseteq Nat, IsFiniteSet(S), Cardinality(S) > 1
    PROVE  /\ Min(S) \in S /\ Min(S \ {Min(S)}) \in S
           /\ Min(S \ {Min(S)}) # Min(S)
<1>1. Cardinality(S) \in Nat
    BY FS_CardinalityType
<1>2. S # {}
    BY <1>1, FS_EmptySet
<1>3. Min(S) \in S
    BY <1>2, MinIn
<1>4. IsFiniteSet(S \ {Min(S)}) /\ Cardinality(S \ {Min(S)}) = Cardinality(S) - 1
    BY <1>3, FS_RemoveElement
<1>5. S \ {Min(S)} # {}
    BY <1>1, <1>4, FS_EmptySet
<1>6. Min(S \ {Min(S)}) \in S \ {Min(S)}
    BY <1>5, MinIn
<1> QED BY <1>3, <1>6

\* The new pipe and its two descriptions
LEMMA NewEnds ==
    ASSUME TypeOK, FreePipes # {}, Cardinality(FreeOfds) > 1
    PROVE  LET i == Min(FreePipes)
               r == Min(FreeOfds)
               w == Min(FreeOfds \ {r})
               rd == Description("pipe", i, FALSE)
               wd == Description("pipe", i, TRUE)
               os == [ofd EXCEPT ![r] = rd, ![w] = wd]
           IN  /\ i \in Pipes /\ ~pipe[i].used
               /\ r \in Ofds /\ w \in Ofds /\ r # w /\ ofd[r].ref = 0 /\ ofd[w].ref = 0
               /\ os \in [Ofds -> OpenFile] /\ os[r] = rd /\ os[w] = wd
               /\ rd.ref = 1 /\ rd.kind = "pipe" /\ rd.pipe = i /\ rd.write = FALSE
               /\ wd.ref = 1 /\ wd.kind = "pipe" /\ wd.pipe = i /\ wd.write = TRUE
               /\ \A q \in Ofds \ {r, w} : os[q] = ofd[q]
<1> DEFINE i == Min(FreePipes)
           r == Min(FreeOfds)
           w == Min(FreeOfds \ {r})
           rd == Description("pipe", i, FALSE)
           wd == Description("pipe", i, TRUE)
           os == [ofd EXCEPT ![r] = rd, ![w] = wd]
<1>1. i \in Pipes /\ ~pipe[i].used
    <2>1. FreePipes \subseteq Nat
        BY Numbers DEF FreePipes
    <2>2. i \in FreePipes
        BY <2>1, MinIn
    <2> HIDE DEF i
    <2> QED BY <2>2 DEF FreePipes
<1>2. r \in FreeOfds /\ w \in FreeOfds /\ w # r
    <2>1. FreeOfds \subseteq Nat /\ FreeOfds \subseteq Ofds
        BY Numbers DEF FreeOfds
    <2>2. IsFiniteSet(Ofds)
        BY FdsAssumption, FS_Interval DEF Ofds
    <2>3. IsFiniteSet(FreeOfds)
        BY <2>1, <2>2, FS_Subset
    <2> QED BY <2>1, <2>3, TwoLeast
<1> HIDE DEF i, r, w
<1>3. r \in Ofds /\ w \in Ofds /\ ofd[r].ref = 0 /\ ofd[w].ref = 0
    BY <1>2 DEF FreeOfds
<1>4. /\ rd \in OpenFile /\ rd.ref = 1 /\ rd.kind = "pipe" /\ rd.pipe = i
      /\ rd.write = FALSE
    BY <1>1 DEF Description, OpenFile
<1>5. /\ wd \in OpenFile /\ wd.ref = 1 /\ wd.kind = "pipe" /\ wd.pipe = i
      /\ wd.write = TRUE
    BY <1>1 DEF Description, OpenFile
<1> HIDE DEF rd, wd
<1>6. /\ os \in [Ofds -> OpenFile] /\ os[r] = rd /\ os[w] = wd
      /\ \A q \in Ofds \ {r, w} : os[q] = ofd[q]
    BY <1>2, <1>3, <1>4, <1>5 DEF TypeOK
<1> HIDE DEF os
<1>7. /\ i \in Pipes /\ ~pipe[i].used
      /\ r \in Ofds /\ w \in Ofds /\ r # w /\ ofd[r].ref = 0 /\ ofd[w].ref = 0
      /\ os \in [Ofds -> OpenFile] /\ os[r] = rd /\ os[w] = wd
      /\ rd.ref = 1 /\ rd.kind = "pipe" /\ rd.pipe = i /\ rd.write = FALSE
      /\ wd.ref = 1 /\ wd.kind = "pipe" /\ wd.pipe = i /\ wd.write = TRUE
      /\ \A q \in Ofds \ {r, w} : os[q] = ofd[q]
    BY <1>1, <1>2, <1>3, <1>4, <1>5, <1>6
<1> QED BY <1>7 DEF i, r, w, rd, wd, os

LEMMA OpenedFacts ==
    ASSUME TypeOK, NEW i \in Pipes
    PROVE  /\ OpenedPipe(i) \in [Pipes -> PipeRec]
           /\ OpenedPipe(i)[i].used /\ OpenedPipe(i)[i].readers = 1
           /\ OpenedPipe(i)[i].writers = 1 /\ OpenedPipe(i)[i].head = 0
           /\ OpenedPipe(i)[i].tail = 0 /\ OpenedPipe(i)[i].count = 0
           /\ \A j \in Pipes \ {i} : OpenedPipe(i)[j] = pipe[j]
<1> DEFINE e == [used |-> TRUE, readers |-> 1, writers |-> 1, head |-> 0, tail |-> 0,
                 count |-> 0]
<1>1. OpenedPipe(i) = [pipe EXCEPT ![i] = e]
    BY DEF OpenedPipe
<1>2. /\ e \in PipeRec /\ e.used /\ e.readers = 1 /\ e.writers = 1 /\ e.head = 0
      /\ e.tail = 0 /\ e.count = 0
    BY Numbers DEF PipeRec
<1> HIDE DEF e
<1> QED BY <1>1, <1>2 DEF TypeOK

LEMMA MakePipeStep ==
    ASSUME FdsInv, NEW p \in Procs, MakePipe(p) PROVE FdsInv'
<1> DEFINE i == Min(FreePipes)
           r == Min(FreeOfds)
           w == Min(FreeOfds \ {r})
           rd == Description("pipe", i, FALSE)
           wd == Description("pipe", i, TRUE)
           os == [ofd EXCEPT ![r] = rd, ![w] = wd]
           rfd == Min(FreeFds(p))
           wfd == Min(FreeFds(p) \ {rfd})
           t == FdSet(fds, p, rfd, r)
           u == FdSet(t, p, wfd, w)
<1>0. /\ TypeOK /\ RefInv /\ EndInv /\ UsedInv /\ RingInv /\ PipeIsFifo
      /\ ofd \in [Ofds -> OpenFile] /\ fds \in Tables /\ pipe \in [Pipes -> PipeRec]
      /\ flow \in [Pipes -> Seq(Bytes)] /\ st[p] # "none"
    BY DEF FdsInv, TypeOK, Tables, MakePipe
<1>1. /\ i \in Pipes /\ ~pipe[i].used
      /\ r \in Ofds /\ w \in Ofds /\ r # w /\ ofd[r].ref = 0 /\ ofd[w].ref = 0
      /\ os \in [Ofds -> OpenFile] /\ os[r] = rd /\ os[w] = wd
      /\ rd.ref = 1 /\ rd.kind = "pipe" /\ rd.pipe = i /\ rd.write = FALSE
      /\ wd.ref = 1 /\ wd.kind = "pipe" /\ wd.pipe = i /\ wd.write = TRUE
      /\ \A q \in Ofds \ {r, w} : os[q] = ofd[q]
    BY <1>0, NewEnds DEF MakePipe
<1>2. /\ UNCHANGED <<st, buf, births>> /\ pipe' = OpenedPipe(i) /\ ofd' = os /\ fds' = u
      /\ flow' = [flow EXCEPT ![i] = <<>>]
    BY DEF MakePipe, FdSet
<1>3. /\ rfd \in FdNums /\ wfd \in FdNums /\ rfd # wfd
      /\ fds[p][rfd] = FREE /\ fds[p][wfd] = FREE
    <2>1. FreeFds(p) \subseteq Nat /\ FreeFds(p) \subseteq FdNums
        BY Numbers DEF FreeFds
    <2>2. IsFiniteSet(FreeFds(p)) /\ Cardinality(FreeFds(p)) > 1
        BY <2>1, FdsFinite DEF MakePipe
    <2>3. rfd \in FreeFds(p) /\ wfd \in FreeFds(p) /\ wfd # rfd
        BY <2>1, <2>2, TwoLeast
    <2> HIDE DEF rfd, wfd
    <2> QED BY <2>3 DEF FreeFds
<1> HIDE DEF i, r, w, rd, wd, os, rfd, wfd
<1>4. /\ pipe' \in [Pipes -> PipeRec] /\ pipe'[i].used /\ pipe'[i].readers = 1
      /\ pipe'[i].writers = 1 /\ pipe'[i].head = 0 /\ pipe'[i].tail = 0
      /\ pipe'[i].count = 0 /\ \A j \in Pipes \ {i} : pipe'[j] = pipe[j]
    BY <1>0, <1>1, <1>2, OpenedFacts
<1>5. flow' \in [Pipes -> Seq(Bytes)] /\ flow'[i] = <<>>
      /\ \A j \in Pipes \ {i} : flow'[j] = flow[j]
    BY <1>0, <1>1, <1>2
\* Both new descriptions have one name.
<1>6. fds' \in Tables /\ RefInv'
    <2>1. /\ t \in Tables
          /\ \A g \in FdNums : t[p][g] = IF g = rfd THEN r ELSE fds[p][g]
          /\ \A q \in Ofds \ {r} : NamesIn(st, t, q) = NamesIn(st, fds, q)
          /\ Cardinality(NamesIn(st, t, r)) = Cardinality(NamesIn(st, fds, r)) + 1
        BY <1>0, <1>1, <1>3, NameAdded
    <2> HIDE DEF t
    <2>2. /\ t \in Tables /\ st[p] # "none" /\ wfd \in FdNums /\ t[p][wfd] = FREE
          /\ w \in Ofds
        BY <1>0, <1>1, <1>3, <2>1
    <2>3. /\ u \in Tables
          /\ \A q \in Ofds \ {w} : NamesIn(st, u, q) = NamesIn(st, t, q)
          /\ Cardinality(NamesIn(st, u, w)) = Cardinality(NamesIn(st, t, w)) + 1
        BY <2>2, NameAdded
    <2> HIDE DEF u
    <2>4. \A q \in Ofds : Names(q)' = NamesIn(st, u, q)
        BY <1>2 DEF Names, NamesIn
    <2>5. /\ Cardinality(Names(r)) = 0 /\ Cardinality(Names(w)) = 0
          /\ \A q \in Ofds : Names(q) = NamesIn(st, fds, q)
        BY <1>0, <1>1, FreeHasNoName, NamesAre
    <2>6. Cardinality(NamesIn(st, u, r)) = 1 /\ Cardinality(NamesIn(st, u, w)) = 1
        BY <1>1, <2>1, <2>3, <2>5
    <2>7. \A q \in Ofds : ofd'[q].ref >= Cardinality(NamesIn(st, u, q))
        BY <1>0, <1>1, <1>2, <2>1, <2>3, <2>5, <2>6 DEF RefInv
    <2> QED BY <1>2, <2>3, <2>4, <2>7 DEF RefInv
<1> HIDE DEF t, u
<1>7. \A q \in Ofds : /\ IsEnd(q)' <=> IsEnd(q) \/ q = r \/ q = w
                      /\ q # r /\ q # w => ofd'[q] = ofd[q]
    BY <1>1, <1>2 DEF IsEnd
<1>8. \A q \in Ofds : IsEnd(q) => ofd[q].pipe # i /\ ofd[q].pipe \in Pipes /\ q # r /\ q # w
    BY <1>0, <1>1 DEF EndInv, IsEnd
<1>9. ofd'[r] = rd /\ ofd'[w] = wd
    BY <1>1, <1>2
<1>10. EndInv'
    <2> SUFFICES ASSUME NEW q \in Ofds, IsEnd(q)'
                 PROVE  /\ ofd'[q].pipe \in Pipes /\ pipe'[ofd'[q].pipe].used
                        /\ ofd'[q].write => pipe'[ofd'[q].pipe].writers = 1
                        /\ ~ofd'[q].write => pipe'[ofd'[q].pipe].readers = 1
                        /\ \A v \in Ofds : IsEnd(v)' /\ ofd'[v].pipe = ofd'[q].pipe
                              /\ ofd'[v].write = ofd'[q].write => v = q
        BY DEF EndInv
    <2>1. CASE q = r
        <3>1. \A v \in Ofds : IsEnd(v)' /\ ofd'[v].pipe = i
                                  /\ ofd'[v].write = FALSE => v = r
            BY <1>1, <1>7, <1>8, <1>9
        <3> QED BY <1>1, <1>4, <1>9, <2>1, <3>1
    <2>2. CASE q = w
        <3>1. \A v \in Ofds : IsEnd(v)' /\ ofd'[v].pipe = i
                                  /\ ofd'[v].write = TRUE => v = w
            BY <1>1, <1>7, <1>8, <1>9
        <3> QED BY <1>1, <1>4, <1>9, <2>2, <3>1
    <2>3. CASE q # r /\ q # w
        <3>1. IsEnd(q) /\ ofd'[q] = ofd[q] /\ ofd[q].pipe # i /\ ofd[q].pipe \in Pipes
            BY <1>7, <1>8, <2>3
        <3>2. pipe'[ofd[q].pipe] = pipe[ofd[q].pipe]
            BY <1>4, <3>1
        <3>3. \A v \in Ofds : IsEnd(v)' /\ ofd'[v].pipe = ofd'[q].pipe
                                  /\ ofd'[v].write = ofd'[q].write => v = q
            BY <1>0, <1>1, <1>7, <1>9, <3>1 DEF EndInv
        <3> QED BY <1>0, <3>1, <3>2, <3>3 DEF EndInv
    <2> QED BY <2>1, <2>2, <2>3
<1>11. UsedInv'
    <2> SUFFICES ASSUME NEW j \in Pipes, pipe'[j].used
                 PROVE  /\ pipe'[j].readers = 1 \/ pipe'[j].writers = 1
                        /\ pipe'[j].readers = 1 => \E q \in Ofds :
                              IsEnd(q)' /\ ofd'[q].pipe = j /\ ~ofd'[q].write
                        /\ pipe'[j].writers = 1 => \E q \in Ofds :
                              IsEnd(q)' /\ ofd'[q].pipe = j /\ ofd'[q].write
        BY DEF UsedInv
    <2>1. CASE j = i
        BY <1>1, <1>4, <1>7, <1>9, <2>1
    <2>2. CASE j # i
        <3>1. pipe'[j] = pipe[j]
            BY <1>4, <2>2
        <3>2. \A q \in Ofds : IsEnd(q) => IsEnd(q)' /\ ofd'[q] = ofd[q]
            BY <1>7, <1>8
        <3>3. /\ pipe[j].readers = 1 \/ pipe[j].writers = 1
              /\ pipe[j].readers = 1 =>
                    \E q \in Ofds : IsEnd(q) /\ ofd[q].pipe = j /\ ~ofd[q].write
              /\ pipe[j].writers = 1 =>
                    \E q \in Ofds : IsEnd(q) /\ ofd[q].pipe = j /\ ofd[q].write
            BY <1>0, <3>1 DEF UsedInv
        <3> QED BY <3>1, <3>2, <3>3
    <2> QED BY <2>1, <2>2
<1>12. RingInv'
    <2>1. ASSUME NEW j \in Pipes, pipe'[j].used
          PROVE  pipe'[j].tail = (pipe'[j].head + pipe'[j].count) % BUF
        <3>1. CASE j = i
            <4>1. (0 + 0) % BUF = 0
                BY Numbers, Ring
            <4> QED BY <1>4, <3>1, <4>1
        <3>2. CASE j # i
            BY <1>0, <1>4, <2>1, <3>2 DEF RingInv
        <3> QED BY <3>1, <3>2
    <2> QED BY <2>1 DEF RingInv
<1>13. PipeIsFifo'
    <2>1. ASSUME NEW j \in Pipes, pipe'[j].used
          PROVE  /\ pipe'[j].count = Len(flow'[j])
                 /\ \A k \in 1 .. Len(flow'[j]) :
                       buf'[j][(pipe'[j].head + k - 1) % BUF] = flow'[j][k]
        <3>1. CASE j = i
            <4>1. Len(flow'[j]) = 0 /\ 1 .. 0 = {}
                BY <1>5, <3>1
            <4> QED BY <1>4, <3>1, <4>1
        <3>2. CASE j # i
            <4>1. pipe'[j] = pipe[j] /\ flow'[j] = flow[j] /\ buf'[j] = buf[j]
                BY <1>2, <1>4, <1>5, <3>2
            <4> QED BY <1>0, <2>1, <4>1 DEF PipeIsFifo
        <3> QED BY <3>1, <3>2
    <2> QED BY <2>1 DEF PipeIsFifo
<1>14. TypeOK'
    BY <1>0, <1>1, <1>2, <1>4, <1>5, <1>6 DEF TypeOK, Tables
<1> QED BY <1>6, <1>10, <1>11, <1>12, <1>13, <1>14 DEF FdsInv

\* A pipe that is given up again leaves everything as it was.
LEMMA GivenUp ==
    ASSUME FdsInv, UNCHANGED <<st, fds, buf, births>>, NEW i \in Pipes, ~pipe[i].used,
           flow' = [flow EXCEPT ![i] = <<>>],
           pipe' \in [Pipes -> PipeRec], ~pipe'[i].used,
           \A j \in Pipes \ {i} : pipe'[j] = pipe[j],
           ofd' \in [Ofds -> OpenFile],
           \A o \in Ofds : ofd'[o] = ofd[o] \/ (ofd[o].ref = 0 /\ ofd'[o].ref = 0)
    PROVE  FdsInv'
<1>0. /\ TypeOK /\ RefInv /\ EndInv /\ UsedInv /\ RingInv /\ PipeIsFifo
      /\ ofd \in [Ofds -> OpenFile]
    BY DEF FdsInv, TypeOK
<1>1. \A o \in Ofds :
          /\ ofd'[o].ref > 0 /\ ofd'[o].kind = "pipe" <=> IsEnd(o)
          /\ IsEnd(o) => ofd'[o].pipe = ofd[o].pipe /\ ofd'[o].write = ofd[o].write
    BY DEF IsEnd
<1>2. EndInv' /\ UsedInv'
    BY <1>0, <1>1, EndsKept
<1>3. \A j \in Pipes : pipe'[j].used =>
          /\ pipe[j].used /\ pipe'[j].head = pipe[j].head
          /\ pipe'[j].tail = pipe[j].tail /\ pipe'[j].count = pipe[j].count
          /\ flow'[j] = flow[j] /\ buf'[j] = buf[j]
    BY <1>0 DEF TypeOK
<1>4. RingInv' /\ PipeIsFifo'
    BY <1>0, <1>3, RingsKept
<1>5. RefInv'
    <2>1. \A o \in Ofds : ofd'[o].ref >= ofd[o].ref
        BY <1>0 DEF OpenFile
    <2>2. \A o \in Ofds : Names(o)' = Names(o)
        BY DEF Names
    <2> QED BY <1>0, <2>1, <2>2, SameRefs
<1>6. flow' \in [Pipes -> Seq(Bytes)]
    BY <1>0 DEF TypeOK
<1>7. TypeOK'
    BY <1>0, <1>6 DEF TypeOK
<1> QED BY <1>2, <1>4, <1>5, <1>7 DEF FdsInv

LEMMA PipeNoDescriptionsStep ==
    ASSUME FdsInv, NEW p \in Procs, PipeNoDescriptions(p) PROVE FdsInv'
<1> DEFINE i == Min(FreePipes)
           e == [OpenedPipe(i)[i] EXCEPT !.used = FALSE]
           d == [Description("none", FREE, FALSE) EXCEPT !.ref = 0]
<1>0. TypeOK /\ ofd \in [Ofds -> OpenFile]
    BY DEF FdsInv, TypeOK
<1>1. i \in Pipes /\ ~pipe[i].used
    <2>1. FreePipes \subseteq Nat
        BY Numbers DEF FreePipes
    <2>2. i \in FreePipes
        BY <2>1, MinIn DEF PipeNoDescriptions
    <2> HIDE DEF i
    <2> QED BY <2>2 DEF FreePipes
<1>2. /\ UNCHANGED <<st, fds, buf, births>> /\ flow' = [flow EXCEPT ![i] = <<>>]
      /\ pipe' = [OpenedPipe(i) EXCEPT ![i].used = FALSE]
      /\ ofd' = [o \in Ofds |-> IF o \in FreeOfds THEN d ELSE ofd[o]]
    BY DEF PipeNoDescriptions
<1> HIDE DEF i
<1>3. /\ OpenedPipe(i) \in [Pipes -> PipeRec]
      /\ \A j \in Pipes \ {i} : OpenedPipe(i)[j] = pipe[j]
    BY <1>0, <1>1, OpenedFacts
<1>4. pipe' = [OpenedPipe(i) EXCEPT ![i] = e]
    BY <1>2
<1>5. e \in PipeRec /\ ~e.used
    <2>1. OpenedPipe(i)[i] \in PipeRec
        BY <1>1, <1>3
    <2> QED BY <2>1 DEF PipeRec
<1> HIDE DEF e
<1>6. /\ pipe' \in [Pipes -> PipeRec] /\ ~pipe'[i].used
      /\ \A j \in Pipes \ {i} : pipe'[j] = pipe[j]
    BY <1>1, <1>3, <1>4, <1>5
<1>7. d \in OpenFile /\ d.ref = 0
    BY DEF Description, OpenFile
<1> HIDE DEF d
<1>8. ofd' \in [Ofds -> OpenFile]
    BY <1>0, <1>2, <1>7
<1>9. \A o \in Ofds : ofd'[o] = ofd[o] \/ (ofd[o].ref = 0 /\ ofd'[o].ref = 0)
    BY <1>2, <1>7 DEF FreeOfds
<1> QED BY <1>1, <1>2, <1>6, <1>8, <1>9, GivenUp

LEMMA PipeNoFdsStep ==
    ASSUME FdsInv, NEW p \in Procs, PipeNoFds(p) PROVE FdsInv'
<1> DEFINE i == Min(FreePipes)
           r == Min(FreeOfds)
           w == Min(FreeOfds \ {r})
           rd == Description("pipe", i, FALSE)
           wd == Description("pipe", i, TRUE)
           os == [ofd EXCEPT ![r] = rd, ![w] = wd]
           o1 == Drop(os, r)
           o2 == Drop(o1, w)
           op == OpenedPipe(i)
           e1 == EndClosed(op[i], FALSE)
           p1 == [op EXCEPT ![i] = e1]
           e2 == EndClosed(p1[i], TRUE)
           p2 == [p1 EXCEPT ![i] = e2]
<1>0. TypeOK /\ ofd \in [Ofds -> OpenFile]
    BY DEF FdsInv, TypeOK
<1>1. /\ i \in Pipes /\ ~pipe[i].used
      /\ r \in Ofds /\ w \in Ofds /\ r # w /\ ofd[r].ref = 0 /\ ofd[w].ref = 0
      /\ os \in [Ofds -> OpenFile] /\ os[r] = rd /\ os[w] = wd
      /\ rd.ref = 1 /\ rd.kind = "pipe" /\ rd.pipe = i /\ rd.write = FALSE
      /\ wd.ref = 1 /\ wd.kind = "pipe" /\ wd.pipe = i /\ wd.write = TRUE
      /\ \A q \in Ofds \ {r, w} : os[q] = ofd[q]
    BY <1>0, NewEnds DEF PipeNoFds
<1>2. /\ UNCHANGED <<st, fds, buf, births>> /\ flow' = [flow EXCEPT ![i] = <<>>]
      /\ ofd' = o2 /\ pipe' = DropPipe(DropPipe(op, os, r), o1, w)
    BY DEF PipeNoFds
<1> HIDE DEF i, r, w, rd, wd, os
<1>3. /\ o1 \in [Ofds -> OpenFile] /\ o1[r].ref = 0 /\ o1[w] = wd
      /\ \A q \in Ofds \ {r, w} : o1[q] = ofd[q]
    <2>1. /\ o1 \in [Ofds -> OpenFile]
          /\ o1[r].ref = (IF os[r].ref > 0 THEN os[r].ref - 1 ELSE 0)
          /\ \A q \in Ofds \ {r} : o1[q] = os[q]
        BY <1>1, DropFacts
    <2> HIDE DEF o1
    <2> QED BY <1>1, <2>1
<1>4. Gone(os, r)
    BY <1>3 DEF Gone
<1> HIDE DEF o1
<1>5. /\ o2 \in [Ofds -> OpenFile] /\ o2[r].ref = 0 /\ o2[w].ref = 0
      /\ \A q \in Ofds \ {r, w} : o2[q] = ofd[q]
    <2>1. /\ o2 \in [Ofds -> OpenFile]
          /\ o2[w].ref = (IF o1[w].ref > 0 THEN o1[w].ref - 1 ELSE 0)
          /\ \A q \in Ofds \ {w} : o2[q] = o1[q]
        BY <1>1, <1>3, DropFacts
    <2> HIDE DEF o2
    <2> QED BY <1>1, <1>3, <2>1
<1>6. Gone(o1, w)
    BY <1>5 DEF Gone
<1> HIDE DEF o2
<1>7. DropPipe(op, os, r) = p1
    BY <1>1, <1>4 DEF DropPipe
<1>8. pipe' = p2
    BY <1>1, <1>2, <1>3, <1>6, <1>7 DEF DropPipe
<1>9. /\ op \in [Pipes -> PipeRec] /\ op[i].readers = 1 /\ op[i].writers = 1
      /\ \A j \in Pipes \ {i} : op[j] = pipe[j]
    BY <1>0, <1>1, OpenedFacts
<1> HIDE DEF op
<1>10. e1 \in PipeRec /\ e1.readers = 0
    BY <1>1, <1>9, EndClosedFacts
<1> HIDE DEF e1
<1>11. p1 \in [Pipes -> PipeRec] /\ p1[i] = e1 /\ \A j \in Pipes \ {i} : p1[j] = pipe[j]
    BY <1>1, <1>9, <1>10
<1> HIDE DEF p1
<1>12. e2 \in PipeRec /\ ~e2.used
    <2>1. p1[i] \in PipeRec /\ p1[i].readers = 0
        BY <1>1, <1>10, <1>11
    <2>2. /\ e2 \in PipeRec /\ e2.readers = p1[i].readers /\ e2.writers = 0
          /\ e2.used <=> p1[i].used /\ ~(e2.readers = 0 /\ e2.writers = 0)
        BY <2>1, EndClosedFacts
    <2> HIDE DEF e2
    <2> QED BY <2>1, <2>2
<1> HIDE DEF e2
<1>13. /\ pipe' \in [Pipes -> PipeRec] /\ ~pipe'[i].used
       /\ \A j \in Pipes \ {i} : pipe'[j] = pipe[j]
    BY <1>1, <1>8, <1>11, <1>12
<1>14. /\ ofd' \in [Ofds -> OpenFile]
       /\ \A q \in Ofds : ofd'[q] = ofd[q] \/ (ofd[q].ref = 0 /\ ofd'[q].ref = 0)
    BY <1>1, <1>2, <1>5
<1> QED BY <1>1, <1>2, <1>13, <1>14, GivenUp

-----------------------------------------------------------------------------
(* The ring of a pipe                                                      *)

\* The part of a step that moves bytes through pipe i and leaves the rest alone.
LEMMA MovedStep ==
    ASSUME FdsInv, UNCHANGED <<st, fds, ofd, births>>, NEW i \in Pipes, NEW e \in PipeRec,
           e.used = pipe[i].used, e.readers = pipe[i].readers, e.writers = pipe[i].writers,
           pipe' = [pipe EXCEPT ![i] = e],
           NEW fl \in Seq(Bytes), flow' = [flow EXCEPT ![i] = fl],
           NEW b \in [0 .. BUF - 1 -> Bytes], buf' = [buf EXCEPT ![i] = b],
           e.tail = (e.head + e.count) % BUF, e.count = Len(fl),
           \A k \in 1 .. Len(fl) : b[(e.head + k - 1) % BUF] = fl[k]
    PROVE  FdsInv'
<1>0. /\ TypeOK /\ RefInv /\ EndInv /\ UsedInv /\ RingInv /\ PipeIsFifo
      /\ pipe \in [Pipes -> PipeRec] /\ flow \in [Pipes -> Seq(Bytes)]
      /\ buf \in [Pipes -> [0 .. BUF - 1 -> Bytes]]
    BY DEF FdsInv, TypeOK
<1>1. /\ pipe' \in [Pipes -> PipeRec] /\ pipe'[i] = e
      /\ flow' \in [Pipes -> Seq(Bytes)] /\ flow'[i] = fl
      /\ buf' \in [Pipes -> [0 .. BUF - 1 -> Bytes]] /\ buf'[i] = b
    BY <1>0
<1>2. \A j \in Pipes \ {i} : pipe'[j] = pipe[j] /\ flow'[j] = flow[j] /\ buf'[j] = buf[j]
    BY <1>0
<1>3. EndInv' /\ UsedInv'
    <2>1. \A j \in Pipes :
              /\ pipe'[j].used <=> pipe[j].used
              /\ pipe[j].used => /\ pipe'[j].readers = pipe[j].readers
                                 /\ pipe'[j].writers = pipe[j].writers
        BY <1>1, <1>2
    <2>2. \A o \in Ofds :
              /\ ofd'[o].ref > 0 /\ ofd'[o].kind = "pipe" <=> IsEnd(o)
              /\ IsEnd(o) => ofd'[o].pipe = ofd[o].pipe /\ ofd'[o].write = ofd[o].write
        BY DEF IsEnd
    <2> QED BY <1>0, <2>1, <2>2, EndsKept
<1>4. RingInv'
    BY <1>0, <1>1, <1>2 DEF RingInv
<1>5. PipeIsFifo'
    <2>1. ASSUME NEW j \in Pipes, pipe'[j].used
          PROVE  /\ pipe'[j].count = Len(flow'[j])
                 /\ \A k \in 1 .. Len(flow'[j]) :
                       buf'[j][(pipe'[j].head + k - 1) % BUF] = flow'[j][k]
        <3>1. CASE j = i
            BY <1>1, <3>1
        <3>2. CASE j # i
            <4>1. pipe'[j] = pipe[j] /\ flow'[j] = flow[j] /\ buf'[j] = buf[j]
                BY <1>2, <3>2
            <4> QED BY <1>0, <2>1, <4>1 DEF PipeIsFifo
        <3> QED BY <3>1, <3>2
    <2> QED BY <2>1 DEF PipeIsFifo
<1>6. RefInv'
    BY <1>0 DEF RefInv, Names
<1>7. TypeOK'
    BY <1>0, <1>1 DEF TypeOK
<1> QED BY <1>3, <1>4, <1>5, <1>6, <1>7 DEF FdsInv

LEMMA WriteStep ==
    ASSUME FdsInv, NEW p \in Procs, NEW f \in FdNums, NEW data \in Data,
           Write(p, f, data)
    PROVE  FdsInv'
<1> DEFINE o == fds[p][f]
           i == ofd[o].pipe
           q == pipe[i]
           n == Min({Len(data), Room(i)})
           At(k) == (k - q.tail) % BUF
           b == [k \in 0 .. BUF - 1 |-> IF At(k) < n THEN data[At(k) + 1] ELSE buf[i][k]]
           e == [q EXCEPT !.tail = (q.tail + n) % BUF, !.count = q.count + n]
           fl == flow[i] \o SubSeq(data, 1, n)
<1>0. /\ TypeOK /\ RefInv /\ EndInv /\ RingInv /\ PipeIsFifo
      /\ pipe \in [Pipes -> PipeRec] /\ flow \in [Pipes -> Seq(Bytes)]
      /\ buf \in [Pipes -> [0 .. BUF - 1 -> Bytes]]
    BY DEF FdsInv, TypeOK
<1>1. i \in Pipes /\ q.used /\ q \in PipeRec
    <2>1. o \in Ofds /\ IsEnd(o)
        BY <1>0, NamedIsOpen DEF Write, IsEnd
    <2> QED BY <1>0, <2>1 DEF EndInv
<1>2. /\ UNCHANGED <<st, fds, ofd, births>>
      /\ buf' = [buf EXCEPT ![i] = b] /\ pipe' = [pipe EXCEPT ![i] = e]
      /\ flow' = [flow EXCEPT ![i] = fl]
    <2>1. UNCHANGED <<st, fds, ofd, births>> /\ flow' = [flow EXCEPT ![i] = fl]
        BY DEF Write
    <2>2. buf' = [buf EXCEPT ![i] = b]
        BY <1>0, <1>1 DEF Write
    <2>3. pipe' = [pipe EXCEPT ![i] = e]
        BY <1>0, <1>1 DEF Write
    <2> QED BY <2>1, <2>2, <2>3
<1>3. /\ q.head \in 0 .. BUF - 1 /\ q.tail \in 0 .. BUF - 1 /\ q.count \in 0 .. BUF
      /\ BUF \in Nat \ {0}
    BY <1>1, Numbers DEF PipeRec
<1>4. data \in Seq(Bytes) /\ Len(data) \in Nat
    <2>1. PICK m \in 1 .. MaxLen : data \in [1 .. m -> Bytes]
        BY DEF Data
    <2>2. m \in Nat
        BY FdsAssumption
    <2> QED BY <2>1, <2>2, SeqDef, LenProperties
<1> HIDE DEF q, i
<1>5. n \in Nat /\ n <= Len(data) /\ n <= BUF - q.count
    <2>1. Room(i) \in Nat /\ Room(i) = BUF - q.count
        BY <1>3 DEF Room, q
    <2>2. /\ n \in {Len(data), Room(i)} /\ \A y \in {Len(data), Room(i)} : n <= y
        BY <1>4, <2>1, MinIn
    <2> HIDE DEF n
    <2> QED BY <1>4, <2>1, <2>2
<1> HIDE DEF n
<1>6. /\ q.count = Len(flow[i]) /\ q.tail = (q.head + q.count) % BUF
      /\ \A k \in 1 .. Len(flow[i]) : buf[i][(q.head + k - 1) % BUF] = flow[i][k]
    BY <1>0, <1>1 DEF RingInv, PipeIsFifo, q
<1>7. flow[i] \in Seq(Bytes) /\ buf[i] \in [0 .. BUF - 1 -> Bytes]
    BY <1>0, <1>1
\* The bytes that go in
<1>8. /\ fl \in Seq(Bytes) /\ Len(fl) = q.count + n
      /\ \A k \in 1 .. q.count : fl[k] = flow[i][k]
      /\ \A k \in 1 .. n : fl[q.count + k] = data[k]
    <2> DEFINE sub == SubSeq(data, 1, n)
    <2>1. \A k \in 1 .. n : data[k] \in Bytes
        BY <1>4, <1>5, ElementOfSeq
    <2>2. /\ sub \in Seq(Bytes) /\ Len(sub) = n /\ \A k \in 1 .. n : sub[k] = data[k]
        <3>1. /\ sub \in Seq(Bytes) /\ Len(sub) = IF 1 <= n THEN n - 1 + 1 ELSE 0
              /\ \A k \in 1 .. n - 1 + 1 : sub[k] = data[1 + k - 1]
            BY <1>5, <2>1, SubSeqProperties
        <3> HIDE DEF sub
        <3> QED BY <1>5, <3>1
    <2>3. /\ flow[i] \o sub \in Seq(Bytes) /\ Len(flow[i] \o sub) = Len(flow[i]) + Len(sub)
          /\ \A k \in 1 .. Len(flow[i]) + Len(sub) : (flow[i] \o sub)[k] =
                IF k <= Len(flow[i]) THEN flow[i][k] ELSE sub[k - Len(flow[i])]
        BY <1>7, <2>2, ConcatProperties
    <2>4. fl = flow[i] \o sub
        OBVIOUS
    <2> HIDE DEF sub, fl
    <2>5. /\ fl \in Seq(Bytes) /\ Len(fl) = q.count + n
          /\ \A k \in 1 .. q.count + n : fl[k] =
                IF k <= q.count THEN flow[i][k] ELSE sub[k - q.count]
        BY <1>6, <2>2, <2>3, <2>4
    <2>6. \A k \in 1 .. n : fl[q.count + k] = data[k]
        <3>1. TAKE k \in 1 .. n
        <3>2. /\ q.count + k \in 1 .. q.count + n /\ ~(q.count + k <= q.count)
              /\ (q.count + k) - q.count = k
            BY <1>3, <1>5
        <3> QED BY <2>2, <2>5, <3>2
    <2>7. \A k \in 1 .. q.count : fl[k] = flow[i][k]
        BY <1>3, <1>5, <2>5
    <2> QED BY <2>5, <2>6, <2>7
<1>9. /\ e \in PipeRec /\ e.used = q.used /\ e.readers = q.readers
      /\ e.writers = q.writers /\ e.head = q.head /\ e.count = q.count + n
      /\ e.tail = (q.tail + n) % BUF
    <2>1. (q.tail + n) % BUF \in 0 .. BUF - 1 /\ q.count + n \in 0 .. BUF
        BY <1>3, <1>5, SMTT(30)
    <2> QED BY <1>1, <2>1 DEF PipeRec
<1>10. e.tail = (e.head + e.count) % BUF
    <2>1. /\ q.head \in 0 .. BUF - 1 /\ q.count \in Nat /\ n \in Nat
          /\ q.count + n <= BUF /\ BUF \in Nat \ {0}
        BY <1>3, <1>5
    <2>2. (((q.head + q.count) % BUF) + n) % BUF = (q.head + (q.count + n)) % BUF
        BY <2>1, RingTwice
    <2> HIDE DEF e
    <2> QED BY <1>6, <1>9, <2>2
<1> HIDE DEF e, fl
<1>11. b \in [0 .. BUF - 1 -> Bytes]
    <2>1. ASSUME NEW k \in 0 .. BUF - 1, At(k) < n PROVE data[At(k) + 1] \in Bytes
        <3>1. At(k) \in 0 .. BUF - 1
            BY <1>3
        <3> HIDE DEF At
        <3>2. At(k) + 1 \in 1 .. Len(data)
            BY <1>4, <1>5, <2>1, <3>1
        <3> QED BY <1>4, <3>2, ElementOfSeq
    <2> HIDE DEF At
    <2> QED BY <1>7, <2>1
<1>12. \A k \in 1 .. Len(fl) : b[(e.head + k - 1) % BUF] = fl[k]
    <2> SUFFICES ASSUME NEW k \in 1 .. q.count + n
                 PROVE  b[(q.head + k - 1) % BUF] = fl[k]
        BY <1>8, <1>9
    <2> DEFINE j == k - 1
               pos == (q.head + j) % BUF
    <2>1. j \in 0 .. BUF - 1 /\ q.head + k - 1 = q.head + j
        BY <1>3, <1>5
    <2>2. /\ pos \in 0 .. BUF - 1
          /\ (pos - ((q.head + q.count) % BUF)) % BUF =
                IF j < q.count THEN (j - q.count) + BUF ELSE j - q.count
        BY <1>3, <2>1, RingPlaces, ZenonT(40)
    <2> HIDE DEF pos
    <2>3. b[pos] = IF At(pos) < n THEN data[At(pos) + 1] ELSE buf[i][pos]
        BY <2>2
    <2>4. At(pos) = IF j < q.count THEN (j - q.count) + BUF ELSE j - q.count
        BY <1>6, <2>2
    <2> HIDE DEF At, b
    <2>5. CASE k <= q.count
        <3>1. ~(At(pos) < n)
            BY <1>3, <1>5, <2>4, <2>5
        <3>2. k \in 1 .. Len(flow[i]) /\ pos = (q.head + k - 1) % BUF
            BY <1>3, <1>6, <2>1, <2>5 DEF pos
        <3>3. buf[i][pos] = flow[i][k]
            BY <1>6, <3>2
        <3>4. fl[k] = flow[i][k]
            BY <1>6, <1>8, <3>2
        <3> QED BY <2>3, <3>1, <3>2, <3>3, <3>4
    <2>6. CASE k > q.count
        <3>1. At(pos) = k - 1 - q.count /\ At(pos) < n /\ k - q.count \in 1 .. n
              /\ At(pos) + 1 = k - q.count /\ q.count + (k - q.count) = k
            BY <1>3, <1>5, <2>4, <2>6, SMTT(30)
        <3>2. b[pos] = data[k - q.count]
            BY <2>3, <3>1
        <3>3. fl[k] = data[k - q.count]
            BY <1>8, <3>1
        <3> QED BY <2>1, <3>2, <3>3 DEF pos
    <2> QED BY <1>3, <2>5, <2>6
<1> HIDE DEF b
<1>13. e.count = Len(fl)
    BY <1>8, <1>9
<1>14. e.used = pipe[i].used /\ e.readers = pipe[i].readers /\ e.writers = pipe[i].writers
    BY <1>9 DEF q
<1>15. fl \in Seq(Bytes) /\ e \in PipeRec /\ i \in Pipes
    BY <1>1, <1>8, <1>9
<1> QED BY <1>2, <1>10, <1>11, <1>12, <1>13, <1>14, <1>15, MovedStep

LEMMA ReadStep ==
    ASSUME FdsInv, NEW p \in Procs, NEW f \in FdNums, NEW len \in 1 .. MaxLen,
           Read(p, f, len)
    PROVE  FdsInv'
<1> DEFINE o == fds[p][f]
           i == ofd[o].pipe
           q == pipe[i]
           n == Min({len, pipe[i].count})
           e == [q EXCEPT !.head = (q.head + n) % BUF, !.count = q.count - n]
           fl == SubSeq(flow[i], n + 1, Len(flow[i]))
<1>0. /\ TypeOK /\ RefInv /\ EndInv /\ RingInv /\ PipeIsFifo
      /\ pipe \in [Pipes -> PipeRec] /\ flow \in [Pipes -> Seq(Bytes)]
      /\ buf \in [Pipes -> [0 .. BUF - 1 -> Bytes]]
    BY DEF FdsInv, TypeOK
<1>1. i \in Pipes /\ q.used /\ q \in PipeRec
    <2>1. o \in Ofds /\ IsEnd(o)
        BY <1>0, NamedIsOpen DEF Read, IsEnd
    <2> QED BY <1>0, <2>1 DEF EndInv
<1>2. /\ UNCHANGED <<st, fds, ofd, births>>
      /\ buf' = [buf EXCEPT ![i] = buf[i]] /\ pipe' = [pipe EXCEPT ![i] = e]
      /\ flow' = [flow EXCEPT ![i] = fl]
    <2>1. UNCHANGED <<st, fds, ofd, births>> /\ buf' = buf
        BY DEF Read
    <2>2. buf' = [buf EXCEPT ![i] = buf[i]]
        BY <1>0, <1>1, <2>1
    <2>3. pipe' = [pipe EXCEPT ![i] = e]
        BY <1>0, <1>1 DEF Read
    <2>4. flow' = [flow EXCEPT ![i] = fl]
        BY <1>0, <1>1 DEF Read
    <2> QED BY <2>1, <2>2, <2>3, <2>4
<1>3. /\ q.head \in 0 .. BUF - 1 /\ q.tail \in 0 .. BUF - 1 /\ q.count \in 0 .. BUF
      /\ BUF \in Nat \ {0} /\ len \in Nat
    BY <1>1, Numbers, FdsAssumption, SMTT(30) DEF PipeRec
<1> HIDE DEF i
<1>4. n \in Nat /\ n <= q.count
    <2>1. n \in {len, q.count} /\ \A y \in {len, q.count} : n <= y
        BY <1>3, MinIn
    <2> HIDE DEF n, q
    <2> QED BY <1>3, <2>1
<1> HIDE DEF q, n
<1>5. /\ q.count = Len(flow[i]) /\ q.tail = (q.head + q.count) % BUF
      /\ \A k \in 1 .. Len(flow[i]) : buf[i][(q.head + k - 1) % BUF] = flow[i][k]
    BY <1>0, <1>1 DEF RingInv, PipeIsFifo, q
<1>6. flow[i] \in Seq(Bytes) /\ buf[i] \in [0 .. BUF - 1 -> Bytes]
    BY <1>0, <1>1
\* What is left
<1>7. /\ fl \in Seq(Bytes) /\ Len(fl) = q.count - n
      /\ \A k \in 1 .. q.count - n : fl[k] = flow[i][n + k]
    <2>1. \A k \in n + 1 .. Len(flow[i]) : flow[i][k] \in Bytes
        BY <1>4, <1>6, ElementOfSeq
    <2>2. n + 1 \in Int /\ Len(flow[i]) \in Int
        BY <1>3, <1>4, <1>5
    <2>3. /\ fl \in Seq(Bytes)
          /\ Len(fl) = IF n + 1 <= Len(flow[i]) THEN Len(flow[i]) - (n + 1) + 1 ELSE 0
          /\ \A k \in 1 .. Len(flow[i]) - (n + 1) + 1 : fl[k] = flow[i][n + 1 + k - 1]
        BY <2>1, <2>2, SubSeqProperties
    <2> HIDE DEF fl
    <2>4. Len(fl) = q.count - n
        BY <1>3, <1>4, <1>5, <2>3
    <2>5. ASSUME NEW k \in 1 .. q.count - n PROVE fl[k] = flow[i][n + k]
        <3>1. k \in 1 .. Len(flow[i]) - (n + 1) + 1 /\ n + 1 + k - 1 = n + k
            BY <1>3, <1>4, <1>5
        <3> QED BY <2>3, <3>1
    <2> QED BY <2>3, <2>4, <2>5
<1>8. /\ e \in PipeRec /\ e.used = q.used /\ e.readers = q.readers
      /\ e.writers = q.writers /\ e.head = (q.head + n) % BUF /\ e.count = q.count - n
      /\ e.tail = q.tail
    <2>1. (q.head + n) % BUF \in 0 .. BUF - 1 /\ q.count - n \in 0 .. BUF
        BY <1>3, <1>4
    <2> QED BY <1>1, <2>1 DEF PipeRec
<1> HIDE DEF e, fl
<1>9. e.tail = (e.head + e.count) % BUF
    <2>1. /\ q.head \in 0 .. BUF - 1 /\ n \in Nat /\ q.count - n \in Nat
          /\ n + (q.count - n) <= BUF /\ BUF \in Nat \ {0} /\ n + (q.count - n) = q.count
        BY <1>3, <1>4
    <2>2. (((q.head + n) % BUF) + (q.count - n)) % BUF = (q.head + (n + (q.count - n))) % BUF
        BY <2>1, RingTwice
    <2> QED BY <1>5, <1>8, <2>1, <2>2
<1>10. \A k \in 1 .. Len(fl) : buf[i][(e.head + k - 1) % BUF] = fl[k]
    <2> SUFFICES ASSUME NEW k \in 1 .. q.count - n
                 PROVE  buf[i][(((q.head + n) % BUF) + k - 1) % BUF] = fl[k]
        BY <1>7, <1>8
    <2>1. /\ n \in Nat /\ k - 1 \in Nat /\ n + (k - 1) <= BUF /\ n + k \in 1 .. q.count
          /\ q.head + (n + (k - 1)) = q.head + (n + k) - 1
          /\ q.head \in 0 .. BUF - 1 /\ BUF \in Nat \ {0}
        BY <1>3, <1>4
    <2>2. (((q.head + n) % BUF) + (k - 1)) % BUF = (q.head + (n + (k - 1))) % BUF
        BY <2>1, RingTwice
    <2>3. buf[i][(q.head + (n + k) - 1) % BUF] = flow[i][n + k]
        BY <1>5, <2>1
    <2>4. ((q.head + n) % BUF) + k - 1 = ((q.head + n) % BUF) + (k - 1)
        BY <1>3, <1>4
    <2> QED BY <1>7, <2>1, <2>2, <2>3, <2>4
<1>11. e.count = Len(fl)
    BY <1>7, <1>8
<1>12. e.used = pipe[i].used /\ e.readers = pipe[i].readers /\ e.writers = pipe[i].writers
    BY <1>8 DEF q
<1>13. fl \in Seq(Bytes) /\ e \in PipeRec /\ i \in Pipes /\ buf[i] \in [0 .. BUF - 1 -> Bytes]
    BY <1>1, <1>6, <1>7, <1>8
<1> QED BY <1>2, <1>9, <1>10, <1>11, <1>12, <1>13, MovedStep

-----------------------------------------------------------------------------
(* The theorems                                                            *)

LEMMA InitFdsInv ==
    ASSUME Init
    PROVE  FdsInv
<1>1. TypeOK
    <2>1. 0 \in Bytes /\ BUF \in Nat \ {0} /\ MaxBirths \in Nat
        BY FdsAssumption
    <2>2. pipe \in [Pipes -> PipeRec]
        BY <2>1 DEF Init, NoPipe, PipeRec
    <2>3. ofd \in [Ofds -> OpenFile]
        BY DEF Init, OpenFile
    <2>4. flow \in [Pipes -> Seq(Bytes)]
        BY DEF Init
    <2>5. buf \in [Pipes -> [0 .. BUF - 1 -> Bytes]]
        BY <2>1 DEF Init
    <2>6. /\ st \in [Procs -> {"none", "live", "zombie"}] /\ births \in 0 .. MaxBirths
          /\ fds \in [Procs -> [FdNums -> Ofds \cup {FREE}]]
        BY <2>1 DEF Init, NoFds
    <2> QED BY <2>2, <2>3, <2>4, <2>5, <2>6 DEF TypeOK
<1>2. RefInv
    <2> SUFFICES ASSUME NEW o \in Ofds PROVE ofd[o].ref >= Cardinality(Names(o))
        BY DEF RefInv
    <2>1. Names(o) = {}
        BY DEF Init, Names
    <2> QED BY <2>1, FS_EmptySet DEF Init
<1>3. EndInv
    BY DEF Init, EndInv, IsEnd
<1>4. UsedInv /\ RingInv /\ PipeIsFifo
    BY DEF Init, NoPipe, UsedInv, RingInv, PipeIsFifo
<1> QED BY <1>1, <1>2, <1>3, <1>4 DEF FdsInv

LEMMA FdsStep ==
    ASSUME FdsInv, [Next]_vars
    PROVE  FdsInv'
<1>1. ASSUME NEW p \in Procs, Syscall(p) PROVE FdsInv'
    <2>1. CASE Open(p)
        BY <2>1, OpenStep
    <2>2. CASE MakePipe(p)
        BY <2>2, MakePipeStep
    <2>3. CASE PipeNoDescriptions(p)
        BY <2>3, PipeNoDescriptionsStep
    <2>4. CASE PipeNoFds(p)
        BY <2>4, PipeNoFdsStep
    <2>5. ASSUME NEW f \in FdNums, Close(p, f) PROVE FdsInv'
        BY <2>5, CloseStep
    <2>6. ASSUME NEW f \in FdNums, Dup(p, f) PROVE FdsInv'
        BY <2>6, DupStep
    <2>7. ASSUME NEW f \in FdNums, NEW data \in Data, Write(p, f, data) PROVE FdsInv'
        BY <2>7, WriteStep
    <2>8. ASSUME NEW f \in FdNums, NEW n \in 1 .. MaxLen, Read(p, f, n) PROVE FdsInv'
        BY <2>8, ReadStep
    <2> QED BY <1>1, <2>1, <2>2, <2>3, <2>4, <2>5, <2>6, <2>7, <2>8 DEF Syscall
<1>2. ASSUME NEW p \in Procs, Life(p) PROVE FdsInv'
    <2>1. CASE Spawn(p) \/ Exit(p) \/ Destroy(p)
        BY <2>1, LifeStep
    <2>2. ASSUME NEW c \in Procs, Fork(p, c) PROVE FdsInv'
        BY <2>2, ForkStep
    <2> QED BY <1>2, <2>1, <2>2 DEF Life
<1>3. CASE UNCHANGED vars
    BY <1>3 DEF vars, FdsInv, TypeOK, RefInv, Names, EndInv, IsEnd, UsedInv, RingInv, PipeIsFifo
<1> QED BY <1>1, <1>2, <1>3 DEF Next

\* The inductive invariant holds in every reachable state, whatever the sizes of
\* the tables and of the pipes' buffers.
THEOREM FdsInvariance == Spec => []FdsInv
<1>1. Init => FdsInv
    BY InitFdsInv
<1>2. FdsInv /\ [Next]_vars => FdsInv'
    BY FdsStep
<1> QED BY <1>1, <1>2, PTL DEF Spec

\* Closes, dups and forks in any order never leave an fd whose description is
\* free for the next open (ofd_hold, ofd_drop, sys_proc_fork).
THEOREM NoFdDangles == Spec => []NoDanglingFd
<1>1. FdsInv => NoDanglingFd
    BY DEF FdsInv, RefInv, NoDanglingFd
<1> QED BY <1>1, FdsInvariance, PTL

\* A pipe is in use exactly while an end of it is open, and it counts its open
\* ends (sys_proc_pipe with its two failures, and ofd_drop).
THEOREM PipesCountTheirEnds == Spec => []PipeEndsCounted
<1>1. ASSUME FdsInv PROVE PipeEndsCounted
    <2>0. EndInv /\ UsedInv /\ pipe \in [Pipes -> PipeRec] /\ ofd \in [Ofds -> OpenFile]
        BY <1>1 DEF FdsInv, TypeOK
    <2> SUFFICES ASSUME NEW i \in Pipes
                 PROVE  /\ pipe[i].used <=> Ends(i, TRUE) \cup Ends(i, FALSE) # {}
                        /\ pipe[i].used => /\ pipe[i].readers = Cardinality(Ends(i, FALSE))
                                           /\ pipe[i].writers = Cardinality(Ends(i, TRUE))
        BY DEF PipeEndsCounted
    <2>1. ASSUME NEW o \in Ends(i, TRUE) \cup Ends(i, FALSE) PROVE pipe[i].used
        BY <2>0 DEF Ends, EndInv, IsEnd
    <2>2. ASSUME pipe[i].used PROVE Ends(i, TRUE) \cup Ends(i, FALSE) # {}
        <3>1. CASE pipe[i].readers = 1
            <4>1. PICK o \in Ofds : IsEnd(o) /\ ofd[o].pipe = i /\ ~ofd[o].write
                BY <2>0, <2>2, <3>1 DEF UsedInv
            <4>2. o \in Ends(i, FALSE)
                BY <2>0, <4>1 DEF Ends, IsEnd, OpenFile
            <4> QED BY <4>2
        <3>2. CASE pipe[i].writers = 1
            <4>1. PICK o \in Ofds : IsEnd(o) /\ ofd[o].pipe = i /\ ofd[o].write
                BY <2>0, <2>2, <3>2 DEF UsedInv
            <4>2. o \in Ends(i, TRUE)
                BY <2>0, <4>1 DEF Ends, IsEnd, OpenFile
            <4> QED BY <4>2
        <3> QED BY <2>0, <2>2, <3>1, <3>2 DEF UsedInv
    <2>3. ASSUME pipe[i].used PROVE pipe[i].readers = Cardinality(Ends(i, FALSE))
        <3>1. CASE pipe[i].readers = 1
            <4>1. PICK o \in Ofds : IsEnd(o) /\ ofd[o].pipe = i /\ ~ofd[o].write
                BY <2>0, <2>3, <3>1 DEF UsedInv
            <4>2. Ends(i, FALSE) = {o}
                BY <2>0, <4>1 DEF Ends, IsEnd, EndInv, OpenFile
            <4> QED BY <3>1, <4>2, FS_Singleton
        <3>2. CASE pipe[i].readers = 0
            <4>1. Ends(i, FALSE) = {}
                BY <2>0, <3>2 DEF Ends, IsEnd, EndInv
            <4> QED BY <3>2, <4>1, FS_EmptySet
        <3>3. pipe[i].readers = 0 \/ pipe[i].readers = 1
            BY <2>0 DEF PipeRec
        <3> QED BY <3>1, <3>2, <3>3
    <2>4. ASSUME pipe[i].used PROVE pipe[i].writers = Cardinality(Ends(i, TRUE))
        <3>1. CASE pipe[i].writers = 1
            <4>1. PICK o \in Ofds : IsEnd(o) /\ ofd[o].pipe = i /\ ofd[o].write
                BY <2>0, <2>4, <3>1 DEF UsedInv
            <4>2. Ends(i, TRUE) = {o}
                BY <2>0, <4>1 DEF Ends, IsEnd, EndInv, OpenFile
            <4> QED BY <3>1, <4>2, FS_Singleton
        <3>2. CASE pipe[i].writers = 0
            <4>1. Ends(i, TRUE) = {}
                BY <2>0, <3>2 DEF Ends, IsEnd, EndInv
            <4> QED BY <3>2, <4>1, FS_EmptySet
        <3>3. pipe[i].writers = 0 \/ pipe[i].writers = 1
            BY <2>0 DEF PipeRec
        <3> QED BY <3>1, <3>2, <3>3
    <2> QED BY <2>1, <2>2, <2>3, <2>4
<1> QED BY <1>1, FdsInvariance, PTL

\* Bytes leave a pipe in the order they entered it, none lost and none twice,
\* for any size of the ring, partial write and wrapped index (the pipe branches
\* of sys_proc_write_fd and sys_proc_read_fd).
THEOREM PipesAreFifo == Spec => []PipeIsFifo
<1>1. FdsInv => PipeIsFifo
    BY DEF FdsInv
<1> QED BY <1>1, FdsInvariance, PTL
=============================================================================
