---------------------------- MODULE FetchProofs -----------------------------
(***************************************************************************)
(* Proofs about the fetch engine, for any pool, any slots, any limits and  *)
(* any URLs: answers reach their own requests, slots and connections agree *)
(* and no request goes out more than twice.                                *)
(***************************************************************************)
EXTENDS Fetch, WellFoundedInduction, FiniteSetTheorems, TLAPS

-----------------------------------------------------------------------------
(* Least numbers                                                           *)

\* A non-empty set of numbers has a least element.
LEMMA MinIn ==
    ASSUME NEW S, S \subseteq Nat, S # {}
    PROVE  Min(S) \in S /\ \A y \in S : Min(S) <= y
<1>1. PICK x \in S : \A y \in S : ~(<<y, x>> \in OpToRel(<, Nat))
    BY WFMin, NatLessThanWellFounded, Zenon
<1>2. ASSUME NEW y \in S PROVE x <= y
    <2>1. x \in Nat /\ y \in Nat /\ <<y, x>> \in Nat \X Nat
        OBVIOUS
    <2>2. ~(y < x)
        BY <1>1, <2>1 DEF OpToRel
    <2> QED BY <2>1, <2>2
<1> QED BY <1>2 DEF Min

-----------------------------------------------------------------------------
(* Counting                                                                *)

LEMMA Constants ==
    /\ NSLOT \in Nat \ {0} /\ NCONN \in Nat \ {0} /\ PERHOST \in Nat \ {0}
    /\ STREAMS \in Nat \ {0} /\ RESPMAX \in Nat \ {0} /\ MaxReq \in Nat
    /\ "none" \notin Origin
BY FetchAssumption DEF Origin

LEMMA LowestIn ==
    ASSUME NEW S, S \subseteq Nat, S # {}
    PROVE  Lowest(S) \in S
<1>1. Min(S) \in S /\ \A y \in S : Min(S) <= y
    BY MinIn
<1> QED BY <1>1 DEF Lowest

LEMMA Pools ==
    /\ IsFiniteSet(Conn) /\ Conn \subseteq Nat /\ 0 \notin Conn
    /\ IsFiniteSet(Slot) /\ Slot \subseteq Nat /\ 0 \notin Slot
<1>1. 1 \in Int /\ NCONN \in Int /\ NSLOT \in Int
    BY Constants
<1>2. IsFiniteSet(1 .. NCONN) /\ IsFiniteSet(1 .. NSLOT)
    BY <1>1, FS_Interval
<1> QED BY <1>1, <1>2, Constants DEF Conn, Slot

\* An origin whose connections are some of those it had stays within its limit.
LEMMA HostsShrink ==
    ASSUME NEW g, HostsOK(g), NEW h,
           \A i \in Conn : h.conns[i].org = g.conns[i].org \/ h.conns[i].org = "none"
    PROVE  HostsOK(h)
<1> SUFFICES ASSUME NEW o \in Origin
             PROVE  Cardinality({i \in Conn : h.conns[i].org = o}) <= PERHOST
    BY DEF HostsOK
<1> DEFINE S == {i \in Conn : g.conns[i].org = o}
           T == {i \in Conn : h.conns[i].org = o}
<1>1. T \subseteq S
    BY Constants
<1>2. S \subseteq Conn
    OBVIOUS
<1>3. IsFiniteSet(S)
    BY <1>2, Pools, FS_Subset
<1>4. Cardinality(S) <= PERHOST
    BY DEF HostsOK
<1> HIDE DEF S, T
<1>5. Cardinality(T) <= Cardinality(S) /\ IsFiniteSet(T)
    BY <1>1, <1>3, FS_Subset
<1>6. Cardinality(S) \in Nat /\ Cardinality(T) \in Nat
    BY <1>3, <1>5, FS_CardinalityType
<1>7. Cardinality(T) <= PERHOST
    BY <1>4, <1>5, <1>6, Constants
<1> QED BY <1>7 DEF T

\* One more connection for an origin that had less than its limit
LEMMA HostsGrow ==
    ASSUME NEW g, HostsOK(g), NEW h, NEW a \in Conn, NEW p,
           Cardinality({i \in Conn : g.conns[i].org = p}) < PERHOST,
           \A i \in Conn \ {a} : h.conns[i].org = g.conns[i].org,
           h.conns[a].org = p
    PROVE  HostsOK(h)
<1> SUFFICES ASSUME NEW o \in Origin
             PROVE  Cardinality({i \in Conn : h.conns[i].org = o}) <= PERHOST
    BY DEF HostsOK
<1> DEFINE S == {i \in Conn : g.conns[i].org = o}
           T == {i \in Conn : h.conns[i].org = o}
<1>2. S \subseteq Conn
    OBVIOUS
<1>3. IsFiniteSet(S)
    BY <1>2, Pools, FS_Subset
<1>4. Cardinality(S) <= PERHOST
    BY DEF HostsOK
<1>5. CASE o # p
    <2>1. T \subseteq S
        BY <1>5
    <2> HIDE DEF S, T
    <2>2. Cardinality(T) <= Cardinality(S) /\ IsFiniteSet(T)
        BY <1>3, <2>1, FS_Subset
    <2>3. Cardinality(S) \in Nat /\ Cardinality(T) \in Nat
        BY <1>3, <2>2, FS_CardinalityType
    <2>4. Cardinality(T) <= PERHOST
        BY <1>4, <2>2, <2>3, Constants
    <2> QED BY <2>4 DEF T
<1>6. CASE o = p
    <2>0. Cardinality(S) < PERHOST
        BY <1>6
    <2>1. T \subseteq S \cup {a}
        BY <1>6
    <2> HIDE DEF S, T
    <2>2. /\ IsFiniteSet(S \cup {a})
          /\ Cardinality(S \cup {a}) = IF a \in S THEN Cardinality(S) ELSE Cardinality(S) + 1
        BY <1>3, FS_AddElement
    <2>3. Cardinality(T) <= Cardinality(S \cup {a}) /\ IsFiniteSet(T)
        BY <2>1, <2>2, FS_Subset
    <2>4. Cardinality(S) \in Nat /\ Cardinality(T) \in Nat
        BY <1>3, <2>3, FS_CardinalityType
    <2>5. Cardinality(T) <= PERHOST
        BY <2>0, <2>2, <2>3, <2>4, Constants
    <2> QED BY <2>5 DEF T
<1> QED BY <1>5, <1>6

-----------------------------------------------------------------------------
(* Changes that keep the engine good                                       *)

\* One slot and one connection change: the slot was nobody else's and is not,
\* and the other slots of the connection are served as before.
LEMMA Both ==
    ASSUME NEW g, Good(g), NEW h, h \in Engine, HostsOK(h),
           NEW j \in Slot, NEW i \in Conn, NEW s, NEW c,
           h.slots = [g.slots EXCEPT ![j] = s], h.conns = [g.conns EXCEPT ![i] = c],
           SlotOK(s), ConnOK(c), LinkOK(s, j, c, i),
           g.slots[j].st = "run" => g.slots[j].conn = i,
           s.st = "run" => s.conn = i,
           \A k \in Slot \ {j} : LinkOK(g.slots[k], k, c, i)
    PROVE  Good(h)
<1>1. /\ g \in Engine /\ \A k \in Slot : SlotOK(g.slots[k])
      /\ \A l \in Conn : ConnOK(g.conns[l])
      /\ \A k \in Slot, l \in Conn : LinkOK(g.slots[k], k, g.conns[l], l)
    BY DEF Good
<1>2. g.slots \in [Slot -> SlotRec] /\ g.conns \in [Conn -> ConnRec]
    BY <1>1 DEF Engine
<1>3. /\ h.slots[j] = s /\ \A k \in Slot \ {j} : h.slots[k] = g.slots[k]
      /\ h.conns[i] = c /\ \A l \in Conn \ {i} : h.conns[l] = g.conns[l]
    BY <1>2
<1>4. ASSUME NEW l \in Conn, l # i PROVE LinkOK(s, j, g.conns[l], l)
    <2>1. LinkOK(g.slots[j], j, g.conns[l], l)
        BY <1>1
    <2>2. ~Carries(g.conns[l], j)
        BY <1>4, <2>1 DEF LinkOK
    <2> QED BY <1>4, <2>2 DEF LinkOK, Carries
<1>5. \A k \in Slot : SlotOK(h.slots[k])
    BY <1>1, <1>3
<1>6. \A l \in Conn : ConnOK(h.conns[l])
    BY <1>1, <1>3
<1>7. ASSUME NEW k \in Slot, NEW l \in Conn PROVE LinkOK(h.slots[k], k, h.conns[l], l)
    <2>1. CASE k = j /\ l = i
        BY <1>3, <2>1
    <2>2. CASE k = j /\ l # i
        BY <1>3, <1>4, <2>2
    <2>3. CASE k # j /\ l = i
        BY <1>3, <2>3
    <2>4. CASE k # j /\ l # i
        BY <1>1, <1>3, <2>4
    <2> QED BY <2>1, <2>2, <2>3, <2>4
<1> QED BY <1>5, <1>6, <1>7 DEF Good

\* Only a connection changes.
LEMMA OneConn ==
    ASSUME NEW g, Good(g), NEW h, h \in Engine, HostsOK(h), NEW i \in Conn, NEW c,
           h.slots = g.slots, h.conns = [g.conns EXCEPT ![i] = c],
           ConnOK(c), \A k \in Slot : LinkOK(g.slots[k], k, c, i)
    PROVE  Good(h)
<1>1. /\ g \in Engine /\ \A k \in Slot : SlotOK(g.slots[k])
      /\ \A l \in Conn : ConnOK(g.conns[l])
      /\ \A k \in Slot, l \in Conn : LinkOK(g.slots[k], k, g.conns[l], l)
    BY DEF Good
<1>2. g.conns \in [Conn -> ConnRec]
    BY <1>1 DEF Engine
<1>3. h.conns[i] = c /\ \A l \in Conn \ {i} : h.conns[l] = g.conns[l]
    BY <1>2
<1>4. \A l \in Conn : ConnOK(h.conns[l])
    BY <1>1, <1>3
<1>5. ASSUME NEW k \in Slot, NEW l \in Conn PROVE LinkOK(h.slots[k], k, h.conns[l], l)
    BY <1>1, <1>3
<1> QED BY <1>1, <1>4, <1>5 DEF Good

\* Only a slot changes.
LEMMA OneSlot ==
    ASSUME NEW g, Good(g), NEW h, h \in Engine, NEW j \in Slot, NEW s,
           h.slots = [g.slots EXCEPT ![j] = s], h.conns = g.conns,
           SlotOK(s), \A l \in Conn : LinkOK(s, j, g.conns[l], l)
    PROVE  Good(h)
<1>1. /\ g \in Engine /\ \A k \in Slot : SlotOK(g.slots[k])
      /\ HostsOK(g) /\ \A l \in Conn : ConnOK(g.conns[l])
      /\ \A k \in Slot, l \in Conn : LinkOK(g.slots[k], k, g.conns[l], l)
    BY DEF Good
<1>2. g.slots \in [Slot -> SlotRec]
    BY <1>1 DEF Engine
<1>3. h.slots[j] = s /\ \A k \in Slot \ {j} : h.slots[k] = g.slots[k]
    BY <1>2
<1>4. \A k \in Slot : SlotOK(h.slots[k])
    BY <1>1, <1>3
<1>5. ASSUME NEW k \in Slot, NEW l \in Conn PROVE LinkOK(h.slots[k], k, h.conns[l], l)
    BY <1>1, <1>3
<1>6. HostsOK(h)
    BY <1>1, HostsShrink
<1> QED BY <1>1, <1>4, <1>5, <1>6 DEF Good

LEMMA NoConnOK ==
    /\ NoConn \in ConnRec /\ ConnOK(NoConn) /\ NoConn.org = "none"
    /\ \A j : ~Carries(NoConn, j)
<1>1. IsFiniteSet({}) /\ Cardinality({}) = 0
    BY FS_EmptySet
<1> QED BY <1>1, Constants DEF NoConn, ConnRec, ConnOK, Carries, Direct

\* A slot and a connection that have nothing to do with each other
LEMMA Apart ==
    ASSUME NEW s, NEW j, NEW c, NEW i, ~Carries(c, j), s.st = "run" => s.conn # i
    PROVE  LinkOK(s, j, c, i)
BY DEF LinkOK, Carries

LEMMA GoodParts ==
    ASSUME NEW g, Good(g)
    PROVE  /\ g \in Engine /\ g.slots \in [Slot -> SlotRec] /\ g.conns \in [Conn -> ConnRec]
           /\ g.origins \in [Origin -> 0 .. 2] /\ g.cache \in SUBSET Cached
           /\ HostsOK(g)
BY DEF Good, Engine

\* The handles are with the owners they had.
Kept(g, h) == \A k \in Slot : h.slots[k].owned = g.slots[k].owned

LEMMA KeptOne ==
    ASSUME NEW g, g.slots \in [Slot -> SlotRec], NEW h, NEW j \in Slot, NEW t,
           h.slots = [g.slots EXCEPT ![j] = t], t.owned = g.slots[j].owned
    PROVE  Kept(g, h)
BY DEF Kept

\* What a connection that serves one request looks like
LEMMA DirectFacts ==
    ASSUME NEW g, Good(g), NEW i \in Conn, g.conns[i].st \in Direct
    PROVE  LET c == g.conns[i]
               j == c.slot
               s == g.slots[j]
           IN  /\ c \in ConnRec /\ ConnOK(c) /\ j \in Slot /\ s \in SlotRec /\ SlotOK(s)
               /\ s.st = "run" /\ s.conn = i /\ LinkOK(s, j, c, i)
               /\ \A k \in Slot \ {j} : g.slots[k].st = "run" => g.slots[k].conn # i
<1> DEFINE c == g.conns[i]
           j == c.slot
           s == g.slots[j]
<1>1. c \in ConnRec /\ ConnOK(c) /\ c.strs = {} /\ j \in Slot
    BY GoodParts DEF Good, ConnOK, Direct
<1>2. s \in SlotRec /\ SlotOK(s) /\ \A k \in Slot : LinkOK(g.slots[k], k, c, i)
    BY <1>1, GoodParts DEF Good
<1>3. s.st = "run" /\ s.conn = i
    BY <1>1, <1>2 DEF LinkOK, Carries
<1>4. ASSUME NEW k \in Slot, k # j, g.slots[k].st = "run", g.slots[k].conn = i PROVE FALSE
    BY <1>1, <1>2, <1>4 DEF LinkOK, Carries
<1> QED BY <1>1, <1>2, <1>3, <1>4

\* A request and the connection it had to itself part: the request ends or
\* waits, the connection is closed or idle.
LEMMA Parts ==
    ASSUME NEW g, Good(g), NEW i \in Conn, g.conns[i].st \in Direct, NEW h, h \in Engine,
           NEW t, SlotOK(t), t.st # "run", NEW d, ConnOK(d), \A k : ~Carries(d, k),
           d.org = g.conns[i].org \/ d.org = "none",
           h.slots = [g.slots EXCEPT ![g.conns[i].slot] = t],
           h.conns = [g.conns EXCEPT ![i] = d]
    PROVE  Good(h)
<1> DEFINE j == g.conns[i].slot
<1>1. /\ j \in Slot /\ g.slots[j].conn = i
      /\ \A k \in Slot \ {j} : g.slots[k].st = "run" => g.slots[k].conn # i
    BY DirectFacts
<1>2. g.conns \in [Conn -> ConnRec] /\ HostsOK(g)
    BY GoodParts
<1> HIDE DEF j
<1>3. HostsOK(h)
    <2>1. \A l \in Conn : h.conns[l].org = g.conns[l].org \/ h.conns[l].org = "none"
        BY <1>2
    <2> QED BY <1>2, <2>1, HostsShrink
<1>4. LinkOK(t, j, d, i)
    BY Apart
<1>5. \A k \in Slot \ {j} : LinkOK(g.slots[k], k, d, i)
    BY <1>1, Apart
<1> QED BY <1>1, <1>3, <1>4, <1>5, Both DEF j

\* A request that has come to its end
LEMMA Ended ==
    ASSUME NEW s \in SlotRec, SlotOK(s), s.st # "free", NEW e \in {"done", "fail"}
    PROVE  LET t == [s EXCEPT !.st = e, !.conn = 0]
           IN  t \in SlotRec /\ SlotOK(t) /\ t.st = e /\ t.owned = s.owned
<1> DEFINE t == [s EXCEPT !.st = e, !.conn = 0]
<1>1. 0 \in 0 .. NCONN /\ e \in {"free", "wait", "run", "done", "fail"} /\ e # "wait" /\ e # "run"
    BY Constants
<1>2. t \in SlotRec
    BY <1>1, Zenon DEF SlotRec
<1>3. /\ t.st = e /\ t.url = s.url /\ t.tags = s.tags /\ t.id = s.id
      /\ t.owned = s.owned /\ t.prefetch = s.prefetch /\ t.sends = s.sends
    BY Zenon DEF SlotRec
<1> HIDE DEF t
<1>4. SlotOK(t)
    BY <1>1, <1>3 DEF SlotOK, InOrder, Tag
<1> QED BY <1>2, <1>3, <1>4 DEF t

LEMMA SlotFailGood ==
    ASSUME NEW g, Good(g), NEW i \in Conn, g.conns[i].st \in Direct
    PROVE  /\ Good(SlotFail(g, g.conns[i].slot, i))
           /\ Kept(g, SlotFail(g, g.conns[i].slot, i))
<1> DEFINE j == g.conns[i].slot
           s == g.slots[j]
           h == SlotFail(g, j, i)
<1>1. /\ j \in Slot /\ s \in SlotRec /\ SlotOK(s) /\ s.st = "run" /\ s.conn = i
      /\ LinkOK(s, j, g.conns[i], i)
    BY DirectFacts
<1>2. g \in Engine /\ g.slots \in [Slot -> SlotRec] /\ g.conns \in [Conn -> ConnRec]
    BY GoodParts
<1>3. s.sends <= Spent(s) + 1
    <2>1. s.sends <= Spent(s) + (IF Unsent(g.conns[i]) THEN 0 ELSE 1)
        BY <1>1, Zenon DEF LinkOK
    <2>2. Spent(s) \in Nat /\ s.sends \in Nat
        BY <1>1 DEF Spent, SlotRec
    <2> QED BY <2>1, <2>2
<1>4. CASE s.reused /\ ~s.retried /\ s.len = 0
    <2> DEFINE t == [s EXCEPT !.retried = TRUE, !.reused = FALSE, !.conn = 0, !.st = "wait"]
    <2>1. t \in SlotRec
        <3>1. 0 \in 0 .. NCONN
            BY Constants
        <3> QED BY <1>1, <3>1, Zenon DEF SlotRec
    <2>2. /\ t.st = "wait" /\ t.url = s.url /\ t.tags = s.tags /\ t.id = s.id /\ t.retried
          /\ t.owned = s.owned /\ t.prefetch = s.prefetch /\ t.sends = s.sends
        BY <1>1, Zenon DEF SlotRec
    <2> HIDE DEF t
    <2>3. SlotOK(t)
        <3>1. s.sends <= 1
            BY <1>3, <1>4 DEF Spent
        <3>2. Spent(t) = 1 /\ t.sends <= 1 /\ t.sends \in Nat
            BY <2>1, <2>2, <3>1 DEF Spent, SlotRec
        <3> QED BY <1>1, <2>2, <3>2 DEF SlotOK, InOrder, Tag
    <2>4. h.slots = [g.slots EXCEPT ![j] = t] /\ h.conns = [g.conns EXCEPT ![i] = NoConn]
        BY <1>2, <1>4, Zenon DEF SlotFail, ConnClose, Engine, t
    <2>5. h \in Engine
        BY <1>1, <1>2, <1>4, <2>1, <2>4, NoConnOK, ZenonT(40) DEF SlotFail, ConnClose, Engine, t
    <2>6. Kept(g, h)
        <3>1. j \in Slot /\ t.owned = g.slots[j].owned
            BY <1>1, <2>2
        <3> HIDE DEF h, j
        <3> QED BY <1>2, <2>4, <3>1 DEF Kept
    <2>7. Good(h)
        BY <1>1, <2>2, <2>3, <2>4, <2>5, NoConnOK, Parts
    <2> QED BY <2>6, <2>7
<1>5. CASE ~(s.reused /\ ~s.retried /\ s.len = 0)
    <2> DEFINE t == [s EXCEPT !.st = "fail", !.conn = 0]
    <2>1. t \in SlotRec /\ SlotOK(t) /\ t.st = "fail" /\ t.owned = s.owned
        BY <1>1, Ended
    <2> HIDE DEF t
    <2>2. h.slots = [g.slots EXCEPT ![j] = t] /\ h.conns = [g.conns EXCEPT ![i] = NoConn]
        BY <1>2, <1>5, Zenon DEF SlotFail, SlotFailAlone, ConnClose, Engine, t
    <2>3. h \in Engine
        BY <1>1, <1>2, <1>5, <2>1, <2>2, NoConnOK, Zenon
        DEF SlotFail, SlotFailAlone, ConnClose, Engine, t
    <2>4. Kept(g, h)
        BY <1>1, <1>2, <2>1, <2>2, KeptOne, SMTT(30)
    <2>5. Good(h)
        BY <1>1, <2>1, <2>2, <2>3, NoConnOK, Parts, SMTT(30)
    <2> QED BY <2>4, <2>5
<1> QED BY <1>4, <1>5

LEMMA StoreFacts ==
    ASSUME NEW g \in Engine, NEW s \in SlotRec, s.url \in Url, SlotOK(s)
    PROVE  LET h == Store(g, s)
           IN  /\ h \in Engine /\ h.slots = g.slots /\ h.conns = g.conns
               /\ h.origins = g.origins
<1> DEFINE e == [req |-> Tag(s), tags |-> s.tags]
           a == {t \in g.cache : t.req.url # s.url} \cup {e}
<1>1. /\ Tag(s) \in Request /\ Tag(s).url = s.url /\ Tag(s).id = s.id
      /\ s.tags \in SUBSET Heard
    BY DEF Tag, Request, SlotRec
<1>2. g.cache \in SUBSET Cached
    BY DEF Engine
<1>3. e \in Cached
    <2>1. ASSUME NEW t \in s.tags PROVE InOrder(Tag(s), t)
        BY <1>1, <2>1 DEF SlotOK, InOrder, Tag
    <2> QED BY <1>1, <2>1 DEF Cached
<1> HIDE DEF e
<1>4. a \in SUBSET Cached
    BY <1>2, <1>3
<1> HIDE DEF a
<1>5. Store(g, s) = g \/ Store(g, s) = [g EXCEPT !.cache = a]
    BY Zenon DEF Store, a, e
<1>6. /\ [g EXCEPT !.cache = a] \in Engine /\ [g EXCEPT !.cache = a].slots = g.slots
      /\ [g EXCEPT !.cache = a].conns = g.conns /\ [g EXCEPT !.cache = a].origins = g.origins
    BY <1>4, Zenon DEF Engine
<1> QED BY <1>5, <1>6, Zenon

\* slot_finish of a connection that has had its answer
LEMMA SlotFinishGood ==
    ASSUME NEW g, Good(g), NEW i \in Conn, g.conns[i].st = "run", ~g.conns[i].shaking,
           NEW whole \in BOOLEAN, NEW keep \in BOOLEAN, NEW rest,
           rest \subseteq g.conns[i].wire, g.conns[i].org \in Sloppy \/ rest = {}
    PROVE  /\ Good(SlotFinish(g, g.conns[i].slot, i, whole, keep, rest))
           /\ Kept(g, SlotFinish(g, g.conns[i].slot, i, whole, keep, rest))
<1> DEFINE c == g.conns[i]
           j == c.slot
           s == g.slots[j]
           h == SlotFinish(g, j, i, whole, keep, rest)
           b == IF whole THEN Store(g, s) ELSE g
           t == [s EXCEPT !.st = "done", !.conn = 0]
           e == [b EXCEPT !.slots[j].st = "done", !.slots[j].conn = 0, !.conns[i].served = TRUE]
           d == [c EXCEPT !.served = TRUE]
           z == [d EXCEPT !.st = "idle", !.slot = 0, !.wire = rest]
<1>0. c.st \in Direct
    BY DEF Direct
<1>1. /\ c \in ConnRec /\ ConnOK(c) /\ j \in Slot /\ s \in SlotRec /\ SlotOK(s)
      /\ s.st = "run" /\ s.conn = i
    BY <1>0, DirectFacts
<1>2. g \in Engine /\ g.slots \in [Slot -> SlotRec] /\ g.conns \in [Conn -> ConnRec]
    BY GoodParts
<1>3. t \in SlotRec /\ SlotOK(t) /\ t.st = "done" /\ t.owned = s.owned
    BY <1>1, Ended
<1>4. b \in Engine /\ b.slots = g.slots /\ b.conns = g.conns
    <2>1. s.url \in Url
        BY <1>1 DEF SlotOK
    <2> QED BY <1>1, <1>2, <2>1, StoreFacts, Zenon
<1>5. /\ d \in ConnRec
      /\ z \in ConnRec /\ z.st = "idle" /\ z.org = c.org /\ z.strs = c.strs /\ z.next = c.next
      /\ z.asked = c.asked /\ z.shaking = c.shaking /\ z.wire = rest
    <2>1. 0 \in 0 .. NSLOT /\ rest \in SUBSET Heard
        BY <1>1, Constants DEF ConnRec
    <2> QED BY <1>1, <2>1, Zenon DEF ConnRec
<1> HIDE DEF t, d, b
<1>6. e.slots = [g.slots EXCEPT ![j] = t] /\ e.conns = [g.conns EXCEPT ![i] = d]
    BY <1>4, Zenon DEF Engine, t, d
<1>7. e \in Engine
    BY <1>1, <1>2, <1>3, <1>4, <1>5, <1>6, Zenon DEF Engine, t, d
<1>8. h = IF keep THEN [e EXCEPT !.conns[i] = [@ EXCEPT !.st = "idle", !.slot = 0, !.wire = rest]]
          ELSE ConnClose(e, i)
    BY Zenon DEF SlotFinish, b
<1> HIDE DEF e, h, z
<1>9. ASSUME keep PROVE Good(h) /\ Kept(g, h)
    <2>1. e.conns[i] = d
        BY <1>2, <1>6
    <2>2. h = [e EXCEPT !.conns = [e.conns EXCEPT ![i] = z]]
        BY <1>8, <1>9, <2>1, Zenon DEF z
    <2>3. h.slots = [g.slots EXCEPT ![j] = t]
        BY <1>6, <1>7, <2>2, Zenon DEF Engine
    <2>4. h.conns = [g.conns EXCEPT ![i] = z]
        <3>1. h.conns = [e.conns EXCEPT ![i] = z]
            BY <1>7, <2>2, Zenon DEF Engine
        <3> QED BY <1>6, <3>1, Zenon
    <2>5. h \in Engine
        BY <1>5, <1>7, <2>2, Zenon DEF Engine
    <2>6. ConnOK(z) /\ \A k : ~Carries(z, k)
        BY <1>0, <1>1, <1>5 DEF ConnOK, Carries, Direct
    <2>7. Kept(g, h)
        BY <1>1, <1>2, <1>3, <2>3, KeptOne
    <2> QED BY <1>0, <1>3, <1>5, <2>3, <2>4, <2>5, <2>6, <2>7, Parts
<1>10. ASSUME ~keep PROVE Good(h) /\ Kept(g, h)
    <2>2. h = [e EXCEPT !.conns = [e.conns EXCEPT ![i] = NoConn]]
        BY <1>8, <1>10, Zenon DEF ConnClose
    <2>3. h.slots = [g.slots EXCEPT ![j] = t]
        BY <1>6, <1>7, <2>2, Zenon DEF Engine
    <2>4. h.conns = [g.conns EXCEPT ![i] = NoConn]
        <3>1. h.conns = [e.conns EXCEPT ![i] = NoConn]
            BY <1>7, <2>2, Zenon DEF Engine
        <3> QED BY <1>6, <3>1, Zenon
    <2>5. h \in Engine
        BY <1>7, <2>2, NoConnOK, Zenon DEF Engine
    <2>6. Kept(g, h)
        BY <1>1, <1>2, <1>3, <2>3, KeptOne
    <2> QED BY <1>0, <1>3, <2>3, <2>4, <2>5, <2>6, NoConnOK, Parts
<1> QED BY <1>9, <1>10 DEF h

\* A connection without a request goes.
LEMMA CloseGood ==
    ASSUME NEW g, Good(g), NEW i \in Conn, \A k \in Slot : ~Carries(g.conns[i], k)
    PROVE  Good(ConnClose(g, i))
<1> DEFINE h == ConnClose(g, i)
<1>1. g \in Engine /\ g.conns \in [Conn -> ConnRec] /\ HostsOK(g)
    BY GoodParts
<1>2. h.slots = g.slots /\ h.conns = [g.conns EXCEPT ![i] = NoConn]
    BY <1>1, Zenon DEF ConnClose, Engine
<1>3. h \in Engine
    BY <1>1, NoConnOK, Zenon DEF ConnClose, Engine
<1> HIDE DEF h
<1>4. HostsOK(h)
    <2>1. \A l \in Conn : h.conns[l].org = g.conns[l].org \/ h.conns[l].org = "none"
        BY <1>1, <1>2, NoConnOK
    <2> QED BY <1>1, <2>1, HostsShrink
<1>5. ASSUME NEW k \in Slot PROVE LinkOK(g.slots[k], k, NoConn, i)
    <2>1. g.slots[k].st = "run" => g.slots[k].conn # i
        BY DEF Good, LinkOK
    <2> QED BY <2>1, NoConnOK, Apart
<1>6. Good(h)
    BY <1>2, <1>3, <1>4, <1>5, NoConnOK, OneConn
<1> QED BY <1>6 DEF h

\* A request and its connection go on together.
LEMMA DirectStep ==
    ASSUME NEW g, Good(g), NEW i \in Conn, g.conns[i].st \in Direct, NEW h, h \in Engine,
           NEW t, SlotOK(t), t.st = "run", t.conn = i,
           NEW d, d.st \in Direct, d.slot = g.conns[i].slot, d.strs = g.conns[i].strs,
           d.asked = g.conns[i].asked, d.next = g.conns[i].next, d.org = g.conns[i].org,
           d.shaking => d.st = "run", d.org = t.url[1],
           \A x \in d.wire : InOrder(t, x) /\ x.url[1] = d.org,
           t.sends <= Spent(t) + (IF Unsent(d) THEN 0 ELSE 1),
           h.slots = [g.slots EXCEPT ![g.conns[i].slot] = t],
           h.conns = [g.conns EXCEPT ![i] = d]
    PROVE  Good(h)
<1> DEFINE c == g.conns[i]
           j == c.slot
<1>1. /\ j \in Slot /\ g.slots[j].conn = i /\ ConnOK(c)
      /\ \A k \in Slot \ {j} : g.slots[k].st = "run" => g.slots[k].conn # i
    BY DirectFacts
<1>2. g.conns \in [Conn -> ConnRec] /\ HostsOK(g) /\ c.strs = {}
    BY <1>1, GoodParts DEF ConnOK, Direct
<1>3. HostsOK(h)
    <2>1. \A l \in Conn : h.conns[l].org = g.conns[l].org \/ h.conns[l].org = "none"
        BY <1>2
    <2> QED BY <1>2, <2>1, HostsShrink
<1>4. ConnOK(d)
    <2>1. d.st # "idle" /\ d.st # "h2" /\ d.st # "free"
        BY DEF Direct
    <2> QED BY <1>1, <2>1 DEF ConnOK, Direct
<1>5. LinkOK(t, j, d, i)
    BY <1>2 DEF LinkOK, Carries
<1>6. ASSUME NEW k \in Slot \ {j} PROVE LinkOK(g.slots[k], k, d, i)
    <2>1. ~Carries(d, k)
        BY <1>2 DEF Carries
    <2> QED BY <1>1, <2>1, Apart
<1> QED BY <1>1, <1>3, <1>4, <1>5, <1>6, Both

\* Only the connection of the two changes, and nothing is sent.
LEMMA ConnStep ==
    ASSUME NEW g, Good(g), NEW i \in Conn, g.conns[i].st \in Direct, NEW h, h \in Engine,
           NEW d, d.st \in Direct, d.slot = g.conns[i].slot, d.strs = g.conns[i].strs,
           d.asked = g.conns[i].asked, d.next = g.conns[i].next, d.org = g.conns[i].org,
           d.shaking => d.st = "run", d.wire = g.conns[i].wire,
           Unsent(d), Unsent(g.conns[i]), h.slots = g.slots,
           h.conns = [g.conns EXCEPT ![i] = d]
    PROVE  Good(h)
<1> DEFINE c == g.conns[i]
           j == c.slot
           s == g.slots[j]
<1>1. /\ j \in Slot /\ s.conn = i /\ s.st = "run" /\ SlotOK(s) /\ LinkOK(s, j, c, i)
      /\ ConnOK(c)
    BY DirectFacts
<1>2. g.slots \in [Slot -> SlotRec]
    BY GoodParts
<1>3. g.slots = [g.slots EXCEPT ![j] = s]
    BY <1>1, <1>2
<1>4. /\ c.org = s.url[1] /\ s.sends <= Spent(s) + 0
      /\ \A x \in c.wire : InOrder(s, x) /\ x.url[1] = c.org
    BY <1>1 DEF LinkOK, ConnOK
<1>5. \A x \in d.wire : InOrder(s, x) /\ x.url[1] = d.org
    BY <1>4
<1>6. d.org = s.url[1]
    BY <1>4
<1>7. h.slots = [g.slots EXCEPT ![g.conns[i].slot] = s]
    BY <1>3
<1>8. SlotOK(s) /\ s.st = "run" /\ s.conn = i
    BY <1>1
<1> HIDE DEF s
<1> QED BY <1>4, <1>5, <1>6, <1>7, <1>8, DirectStep, SMTT(30)

LEMMA ResolvesGood ==
    ASSUME FetchInv, NEW i \in Conn, Resolves(i)
    PROVE  Good(f')
<1> DEFINE d == [f.conns[i] EXCEPT !.st = "tcp"]
<1>1. f \in Engine /\ f.conns \in [Conn -> ConnRec] /\ Good(f) /\ ConnOK(f.conns[i])
    BY GoodParts DEF FetchInv, Good
<1>2. f.conns[i].st = "dns" /\ f' = [f EXCEPT !.conns[i].st = "tcp"]
    BY DEF Resolves, Turn, Ends
<1>3. /\ d \in ConnRec /\ d.st = "tcp" /\ d.slot = f.conns[i].slot /\ d.strs = f.conns[i].strs
      /\ d.asked = f.conns[i].asked /\ d.next = f.conns[i].next /\ d.org = f.conns[i].org
      /\ d.shaking = f.conns[i].shaking /\ d.wire = f.conns[i].wire
    BY <1>1, ZenonT(40) DEF ConnRec
<1>4. f'.slots = f.slots /\ f'.conns = [f.conns EXCEPT ![i] = d]
    BY <1>1, <1>2, Zenon DEF Engine
<1>5. f' \in Engine
    BY <1>1, <1>2, <1>3, Zenon DEF Engine
<1> HIDE DEF d
<1>6. Unsent(d) /\ Unsent(f.conns[i]) /\ ~d.shaking
    BY <1>1, <1>2, <1>3 DEF Unsent, ConnOK
<1>7. d.st \in Direct /\ f.conns[i].st \in Direct
    BY <1>2, <1>3 DEF Direct
<1> QED BY <1>1, <1>3, <1>4, <1>5, <1>6, <1>7, ConnStep

\* h is g with one slot and one connection changed.
Moved(g, h, j, t, i, d) ==
    /\ h \in Engine /\ h.slots = [g.slots EXCEPT ![j] = t]
    /\ h.conns = [g.conns EXCEPT ![i] = d]

LEMMA SentFacts ==
    ASSUME NEW g \in Engine, NEW j \in Slot, NEW i \in Conn, NEW s, NEW c,
           s = g.slots[j], c = g.conns[i], s.url \in Url
    PROVE  Moved(g, Sent(g, j, i), j, [s EXCEPT !.sends = s.sends + 1],
                 i, [c EXCEPT !.wire = c.wire \cup {Tag(s)}])
<1> DEFINE h == Sent(g, j, i)
           t == [s EXCEPT !.sends = s.sends + 1]
           w == c.wire \cup {Tag(s)}
           d == [c EXCEPT !.wire = w]
<1>1. s \in SlotRec /\ c \in ConnRec
    BY DEF Engine
<1>2. s.sends + 1 \in Nat
    BY <1>1 DEF SlotRec
<1>3. w \in SUBSET Heard
    <2>1. Tag(s) \in Request
        BY <1>1 DEF Tag, Request, SlotRec
    <2> QED BY <1>1, <2>1 DEF ConnRec, Heard
<1>4. t \in SlotRec
    BY <1>1, <1>2, Zenon DEF SlotRec
<1>5. d \in ConnRec
    BY <1>1, <1>3, Zenon DEF ConnRec
<1>6. h.slots = [g.slots EXCEPT ![j] = t] /\ h.conns = [g.conns EXCEPT ![i] = d]
    BY Zenon DEF Sent, Engine
<1>7. h \in Engine
    BY <1>4, <1>5, <1>6, Zenon DEF Sent, Engine
<1> QED BY <1>6, <1>7, Zenon DEF Moved

LEMMA SentSlot ==
    ASSUME NEW s \in SlotRec, SlotOK(s), s.st = "run", s.sends <= Spent(s)
    PROVE  LET t == [s EXCEPT !.sends = s.sends + 1]
           IN  /\ SlotOK(t) /\ t.st = "run" /\ t.conn = s.conn
               /\ t.url = s.url /\ t.id = s.id
               /\ t.sends <= Spent(t) + 1
<1> DEFINE t == [s EXCEPT !.sends = s.sends + 1]
<1>1. /\ t.st = s.st /\ t.url = s.url /\ t.tags = s.tags /\ t.id = s.id /\ t.conn = s.conn
      /\ t.owned = s.owned /\ t.prefetch = s.prefetch /\ t.sends = s.sends + 1
      /\ t.retried = s.retried
    BY Zenon DEF SlotRec
<1>2. s.sends \in Nat
    BY DEF SlotRec
<1> HIDE DEF t
<1>3. Spent(t) = Spent(s) /\ Spent(s) \in 0 .. 1
    BY <1>1 DEF Spent
<1>4. SlotOK(t) /\ t.sends <= Spent(t) + 1
    BY <1>1, <1>2, <1>3 DEF SlotOK, InOrder, Tag
<1> QED BY <1>1, <1>3, <1>4 DEF t

\* conn_start_request and the end of a handshake send what was not sent before.
LEMMA SentGood ==
    ASSUME NEW g, Good(g), NEW i \in Conn, g.conns[i].st \in Direct, Unsent(g.conns[i]),
           NEW e, e \in Engine, NEW d \in ConnRec, d.st = "run", ~d.shaking,
           d.slot = g.conns[i].slot, d.strs = g.conns[i].strs,
           d.asked = g.conns[i].asked, d.next = g.conns[i].next, d.org = g.conns[i].org,
           d.wire = g.conns[i].wire,
           e.slots = g.slots, e.conns = [g.conns EXCEPT ![i] = d]
    PROVE  Good(Sent(e, g.conns[i].slot, i))
<1> DEFINE c == g.conns[i]
           j == c.slot
           s == g.slots[j]
           h == Sent(e, j, i)
           t == [s EXCEPT !.sends = s.sends + 1]
           z == [d EXCEPT !.wire = d.wire \cup {Tag(s)}]
<1>1. /\ j \in Slot /\ s \in SlotRec /\ s.conn = i /\ s.st = "run" /\ SlotOK(s)
      /\ LinkOK(s, j, c, i) /\ ConnOK(c)
    BY DirectFacts
<1>2. g.conns \in [Conn -> ConnRec]
    BY GoodParts
<1>3. /\ s.url \in Url /\ s.sends <= Spent(s) /\ c.org = s.url[1]
      /\ \A x \in c.wire : InOrder(s, x) /\ x.url[1] = c.org
    <2>1. Spent(s) + 0 = Spent(s)
        BY DEF Spent
    <2> QED BY <1>1, <2>1 DEF SlotOK, LinkOK, ConnOK
<1>4. e.conns[i] = d /\ e.slots[j] = s
    BY <1>2
<1> HIDE DEF h, s, j
<1>5. /\ h \in Engine /\ h.slots = [g.slots EXCEPT ![j] = t]
      /\ h.conns = [e.conns EXCEPT ![i] = z]
    <2>1. Moved(e, h, j, t, i, z)
        BY <1>1, <1>3, <1>4, SentFacts, Zenon DEF h
    <2> QED BY <2>1, Zenon DEF Moved
<1>6. h.conns = [g.conns EXCEPT ![i] = z]
    BY <1>5, Zenon
<1>7. /\ SlotOK(t) /\ t.st = "run" /\ t.conn = i /\ t.url = s.url /\ t.id = s.id
      /\ t.sends <= Spent(t) + 1
    BY <1>1, <1>3, SentSlot
<1>8. /\ z.st = "run" /\ ~z.shaking /\ z.slot = j /\ z.strs = c.strs /\ z.asked = c.asked
      /\ z.next = c.next /\ z.org = c.org
      /\ z.wire = c.wire \cup {Tag(s)}
    BY Zenon DEF ConnRec, j
<1> HIDE DEF t, z
<1>9. ~Unsent(z) /\ z.st \in Direct
    BY <1>8 DEF Unsent, Direct
<1>10. ASSUME NEW x \in z.wire PROVE InOrder(t, x) /\ x.url[1] = z.org
    <2>1. CASE x \in c.wire
        BY <1>3, <1>7, <1>8, <2>1 DEF InOrder, Tag
    <2>2. CASE x = Tag(s)
        BY <1>3, <1>7, <1>8, <2>2 DEF InOrder, Tag
    <2> QED BY <1>8, <2>1, <2>2
<1>11. Good(h)
    BY <1>3, <1>5, <1>6, <1>7, <1>8, <1>9, <1>10, DirectStep DEF j
<1> QED BY <1>11 DEF h, j

LEMMA ConnectsGood ==
    ASSUME FetchInv, NEW i \in Conn, Connects(i)
    PROVE  Good(f')
<1> DEFINE c == f.conns[i]
           e == [f EXCEPT !.conns[i].st = "run"]
           d == [c EXCEPT !.st = "run"]
           o == f.origins[c.org] # 2
           z == [d EXCEPT !.shaking = TRUE, !.offer = o]
<1>1. f \in Engine /\ f.conns \in [Conn -> ConnRec] /\ Good(f) /\ ConnOK(c) /\ c \in ConnRec
    BY GoodParts DEF FetchInv, Good
<1>2. /\ c.st = "tcp"
      /\ f' = IF c.org \in Https
              THEN [e EXCEPT !.conns[i].shaking = TRUE, !.conns[i].offer = o]
              ELSE Sent(e, c.slot, i)
    BY Zenon DEF Connects, Turn, Ends
<1>3. e \in Engine /\ e.slots = f.slots /\ e.conns = [f.conns EXCEPT ![i] = d]
    BY <1>1, Zenon DEF Engine, ConnRec
<1>4. /\ d \in ConnRec /\ d.st = "run" /\ d.slot = c.slot /\ d.strs = c.strs
      /\ d.asked = c.asked /\ d.next = c.next /\ d.org = c.org /\ d.shaking = c.shaking
      /\ d.wire = c.wire
    BY <1>1, Zenon DEF ConnRec
<1>5. c.st \in Direct /\ Unsent(c) /\ ~c.shaking
    BY <1>1, <1>2 DEF Direct, Unsent, ConnOK
<1>6. CASE c.org \in Https
    <2>1. f' = [e EXCEPT !.conns[i].shaking = TRUE, !.conns[i].offer = o]
        BY <1>2, <1>6, Zenon
    <2>2. e.conns[i] = d
        BY <1>1, <1>3
    <2> HIDE DEF o, d, e
    <2>3. /\ z \in ConnRec /\ z.st = d.st /\ z.slot = d.slot /\ z.strs = d.strs
          /\ z.asked = d.asked /\ z.next = d.next /\ z.org = d.org /\ z.shaking
          /\ z.wire = d.wire
        <3>1. o \in BOOLEAN
            BY DEF o
        <3> QED BY <1>4, <3>1, Zenon DEF ConnRec
    <2>4. f'.slots = e.slots /\ f'.conns = [e.conns EXCEPT ![i] = z]
        BY <1>3, <2>1, <2>2, Zenon DEF Engine
    <2>5. f' \in Engine
        BY <1>3, <2>1, <2>2, <2>3, Zenon DEF Engine
    <2>6. f'.conns = [f.conns EXCEPT ![i] = z]
        BY <1>3, <2>4, Zenon
    <2>7. z.wire = c.wire
        BY <1>1, <2>3, Zenon DEF d, ConnRec
    <2> HIDE DEF z
    <2>8. Unsent(z) /\ z.st \in Direct /\ z.st = "run"
        BY <1>4, <2>3 DEF Unsent, Direct
    <2> QED BY <1>1, <1>3, <1>4, <1>5, <2>3, <2>4, <2>5, <2>6, <2>7, <2>8, ConnStep
<1>7. CASE c.org \notin Https
    <2>1. f' = Sent(e, c.slot, i)
        BY <1>2, <1>7, Zenon
    <2> HIDE DEF d, e
    <2> QED BY <1>1, <1>3, <1>4, <1>5, <2>1, SentGood
<1> QED BY <1>6, <1>7

\* A slot whose links have not changed
SameLinks(s, t) ==
    /\ t.st = s.st /\ t.conn = s.conn /\ t.id = s.id /\ t.url = s.url /\ t.sid = s.sid
    /\ t.sends = s.sends /\ t.retried = s.retried

LEMMA LinkSame ==
    ASSUME NEW s, NEW t, NEW j, NEW c, NEW i, LinkOK(s, j, c, i), SameLinks(s, t)
    PROVE  LinkOK(t, j, c, i)
BY DEF LinkOK, SameLinks, InOrder, Tag, Spent

LEMMA SlotSame ==
    ASSUME NEW g, Good(g), NEW j \in Slot, NEW t, SlotOK(t), SameLinks(g.slots[j], t),
           NEW h \in Engine, h.slots = [g.slots EXCEPT ![j] = t], h.conns = g.conns
    PROVE  Good(h)
<1>1. \A l \in Conn : LinkOK(g.slots[j], j, g.conns[l], l)
    BY DEF Good
<1>2. \A l \in Conn : LinkOK(t, j, g.conns[l], l)
    BY <1>1, LinkSame
<1> QED BY <1>2, OneSlot

LEMMA NegotiatesGood ==
    ASSUME FetchInv, NEW i \in Conn, Negotiates(i, FALSE)
    PROVE  Good(f')
<1> DEFINE c == f.conns[i]
           g == [f EXCEPT !.conns[i].shaking = FALSE, !.conns[i].offer = FALSE]
           e == IF c.offer THEN [g EXCEPT !.origins[c.org] = 2] ELSE g
           d == [c EXCEPT !.shaking = FALSE, !.offer = FALSE]
<1>1. f \in Engine /\ f.conns \in [Conn -> ConnRec] /\ Good(f) /\ ConnOK(c) /\ c \in ConnRec
    BY GoodParts DEF FetchInv, Good
<1>2. c.st = "run" /\ c.shaking /\ f' = Sent(e, c.slot, i)
    BY Zenon DEF Negotiates, Turn, GoesOn
<1>3. /\ d \in ConnRec /\ d.st = "run" /\ d.slot = c.slot /\ d.strs = c.strs
      /\ d.asked = c.asked /\ d.next = c.next /\ d.org = c.org /\ ~d.shaking
      /\ d.wire = c.wire
    BY <1>1, <1>2, Zenon DEF ConnRec
<1>4. g \in Engine /\ g.slots = f.slots /\ g.conns = [f.conns EXCEPT ![i] = d]
    BY <1>1, <1>3, Zenon DEF Engine
<1> HIDE DEF d, g
<1>5. e \in Engine /\ e.slots = f.slots /\ e.conns = [f.conns EXCEPT ![i] = d]
    <2>1. 2 \in 0 .. 2
        OBVIOUS
    <2> QED BY <1>4, <2>1, Zenon DEF Engine
<1> HIDE DEF e
<1>6. c.st \in Direct /\ Unsent(c)
    BY <1>2 DEF Direct, Unsent
<1> QED BY <1>1, <1>2, <1>3, <1>5, <1>6, SentGood

LEMMA ReceivesGood ==
    ASSUME FetchInv, NEW i \in Conn, Receives(i)
    PROVE  Good(f')
<1> DEFINE c == f.conns[i]
           j == c.slot
           s == f.slots[j]
<1>1. f \in Engine /\ Good(f)
    BY GoodParts DEF FetchInv
<1>2. PICK x \in c.wire :
          /\ c.st = "run" /\ s.len < RESPMAX
          /\ f' = [f EXCEPT !.slots[j].tags = @ \cup {x}, !.slots[j].len = @ + 1]
    BY Zenon DEF Receives, Answering, Turn, GoesOn
<1> DEFINE w == s.tags \cup {x}
           n == s.len + 1
           t == [s EXCEPT !.tags = w, !.len = n]
<1>3. c.st \in Direct
    BY <1>2 DEF Direct
<1>4. /\ j \in Slot /\ s \in SlotRec /\ SlotOK(s) /\ LinkOK(s, j, c, i) /\ c \in ConnRec
    BY <1>1, <1>3, DirectFacts
<1>5. (\A y \in w : InOrder(s, y)) /\ w \in SUBSET Heard
    BY <1>3, <1>4 DEF SlotOK, LinkOK, SlotRec, ConnRec
<1>6. n \in 0 .. RESPMAX
    <2>1. s.len \in 0 .. RESPMAX
        BY <1>4 DEF SlotRec
    <2>2. \A a \in 0 .. RESPMAX : a < RESPMAX => a + 1 \in 0 .. RESPMAX
        BY Constants
    <2> QED BY <1>2, <2>1, <2>2, Zenon
<1> HIDE DEF w, n
<1>7. t \in SlotRec
    BY <1>4, <1>5, <1>6, Zenon DEF SlotRec
<1>8. SameLinks(s, t) /\ t.tags = w /\ t.owned = s.owned /\ t.prefetch = s.prefetch
    BY <1>4, Zenon DEF SameLinks, SlotRec
<1>9. f'.slots = [f.slots EXCEPT ![j] = t] /\ f'.conns = f.conns
    BY <1>1, <1>2, Zenon DEF Engine, w, n
<1>10. f' \in Engine
    BY <1>1, <1>2, <1>7, <1>9, Zenon DEF Engine, w, n
<1> HIDE DEF t
<1>11. SlotOK(t)
    <2>1. t.id = s.id /\ t.url = s.url /\ t.tags = w
        BY <1>8 DEF SameLinks
    <2> HIDE DEF s
    <2>2. Tag(t) = Tag(s)
        BY <2>1 DEF Tag
    <2>3. \A y \in t.tags : InOrder(t, y)
        BY <1>5, <2>1, <2>2 DEF InOrder
    <2> QED BY <1>4, <1>8, <2>3 DEF SlotOK, SameLinks, Spent
<1> QED BY <1>1, <1>4, <1>8, <1>9, <1>10, <1>11, SlotSame

LEMMA DirectGood ==
    ASSUME FetchInv, NEW i \in Conn,
           \/ Fails(i) \/ MeetsEof(i)
           \/ \E keep \in BOOLEAN, rest \in SUBSET f.conns[i].wire : Completes(i, keep, rest)
    PROVE  Good(f') /\ Kept(f, f')
<1>0. Good(f)
    BY DEF FetchInv
<1>1. CASE Fails(i)
    <2>1. f.conns[i].st \in Direct /\ f' = SlotFail(f, f.conns[i].slot, i)
        BY <1>1, Zenon DEF Fails, FailsToConnect, FailsRunning, Turn, Ends, Direct
    <2> QED BY <1>0, <2>1, SlotFailGood
<1>2. CASE MeetsEof(i)
    <2>1. /\ f.conns[i].st = "run" /\ ~f.conns[i].shaking
          /\ \/ f' = SlotFail(f, f.conns[i].slot, i)
             \/ f' = SlotFinish(f, f.conns[i].slot, i, FALSE, FALSE, {})
        BY <1>2, Zenon DEF MeetsEof, Answering, Turn, Ends
    <2>2. f.conns[i].st \in Direct
        BY <2>1 DEF Direct
    <2> QED BY <1>0, <2>1, <2>2, SlotFailGood, SlotFinishGood
<1>3. ASSUME NEW keep \in BOOLEAN, NEW rest \in SUBSET f.conns[i].wire, Completes(i, keep, rest)
      PROVE  Good(f') /\ Kept(f, f')
    <2>1. /\ f.conns[i].st = "run" /\ ~f.conns[i].shaking
          /\ f.conns[i].org \in Sloppy \/ rest = {}
          /\ f' = SlotFinish(f, f.conns[i].slot, i, TRUE, keep, rest)
        BY <1>3, Zenon DEF Completes, Answering, Turn, Ends
    <2> QED BY <1>0, <2>1, SlotFinishGood
<1> QED BY <1>1, <1>2, <1>3

LEMMA IdleGood ==
    ASSUME FetchInv, NEW i \in Conn, IdleEnds(i) \/ H2Idles(i)
    PROVE  Good(f')
<1> DEFINE c == f.conns[i]
<1>1. Good(f) /\ ConnOK(c)
    BY DEF FetchInv, Good
<1>2. f' = ConnClose(f, i) /\ (c.st = "idle" \/ (c.st = "h2" /\ Cardinality(c.strs) = 0))
    BY DEF IdleEnds, H2Idles, Turn, Ends, Active
<1>3. c.strs = {} /\ c.st \notin Direct
    <2>1. IsFiniteSet(c.strs) /\ (c.st # "h2" => c.strs = {})
        BY <1>1 DEF ConnOK
    <2>2. Cardinality(c.strs) = 0 => c.strs = {}
        BY <2>1, FS_EmptySet
    <2> QED BY <1>2, <2>1, <2>2 DEF Direct
<1>4. \A k \in Slot : ~Carries(c, k)
    BY <1>3 DEF Carries
<1> QED BY <1>1, <1>2, <1>4, CloseGood

-----------------------------------------------------------------------------
(* HTTP/2                                                                  *)

\* One more stream in a session that has room
AddStream(c, j, q) ==
    [c EXCEPT !.next = c.next + 2,
              !.strs = c.strs \cup {[sid |-> c.next, user |-> j, head |-> FALSE]},
              !.asked = c.asked \cup {[sid |-> c.next, req |-> q]}]

LEMMA StreamAdded ==
    ASSUME NEW c \in ConnRec, ConnOK(c), c.st = "h2", Cardinality(c.strs) < STREAMS,
           NEW j \in Slot, ~Carries(c, j), NEW q \in Request, NEW d, d = AddStream(c, j, q)
    PROVE  /\ d \in ConnRec /\ ConnOK(d) /\ d.org = c.org
           /\ \A s, k, i : k # j /\ LinkOK(s, k, c, i) => LinkOK(s, k, d, i)
           /\ \A s, i : s.st = "run" /\ s.conn = i /\ s.sid = c.next /\ Tag(s) = q
                           /\ s.sends <= Spent(s) + 1 => LinkOK(s, j, d, i)
<1> DEFINE x == [sid |-> c.next, user |-> j, head |-> FALSE]
           y == [sid |-> c.next, req |-> q]
           S == c.strs \cup {x}
           A == c.asked \cup {y}
           n == c.next + 2
<1>0. c.next \in Nat /\ c.strs \in SUBSET [sid : Nat, user : Slot, head : BOOLEAN]
      /\ c.asked \in SUBSET [sid : Nat, req : Request]
    BY DEF ConnRec
<1>1. /\ x \in [sid : Nat, user : Slot, head : BOOLEAN] /\ y \in [sid : Nat, req : Request]
      /\ n \in Nat /\ 1 <= n /\ c.next < n
      /\ x.sid = c.next /\ x.user = j /\ y.sid = c.next /\ y.req = q
    BY <1>0
<1> HIDE DEF x, y, n
<1>2. /\ S \in SUBSET [sid : Nat, user : Slot, head : BOOLEAN]
      /\ A \in SUBSET [sid : Nat, req : Request]
    BY <1>0, <1>1
<1>3. x \notin c.strs
    BY <1>0, <1>1 DEF ConnOK
<1>4. IsFiniteSet(S) /\ Cardinality(S) <= STREAMS
    <2>1. IsFiniteSet(c.strs)
        BY DEF ConnOK
    <2>2. IsFiniteSet(S) /\ Cardinality(S) = Cardinality(c.strs) + 1 /\ Cardinality(c.strs) \in Nat
        BY <1>3, <2>1, FS_AddElement, FS_CardinalityType
    <2> QED BY <2>2, Constants
<1>5. ASSUME NEW r \in S PROVE 1 <= r.sid /\ r.sid < n /\ r.sid \in Nat
    <2>1. CASE r = x
        BY <1>0, <1>1, <2>1 DEF ConnOK
    <2>2. CASE r \in c.strs
        <3>1. r.sid \in Nat /\ 1 <= r.sid /\ r.sid < c.next
            BY <1>0, <2>2 DEF ConnOK
        <3> QED BY <1>0, <1>1, <3>1
    <2> QED BY <2>1, <2>2
<1>6. ASSUME NEW r \in A PROVE r.sid < n
    <2>1. CASE r = y
        BY <1>0, <1>1, <2>1
    <2>2. CASE r \in c.asked
        <3>1. r.sid \in Nat /\ r.sid < c.next
            BY <1>0, <2>2 DEF ConnOK
        <3> QED BY <1>0, <1>1, <3>1
    <2> QED BY <2>1, <2>2
<1>7. ASSUME NEW r \in S, NEW t \in S, r.sid = t.sid PROVE r = t
    <2>1. \A u \in c.strs : u.sid # c.next
        BY <1>0 DEF ConnOK
    <2> QED BY <1>1, <1>7, <2>1 DEF ConnOK
<1> HIDE DEF S, A
<1>8. /\ d.strs = S /\ d.asked = A /\ d.next = n /\ d.st = "h2" /\ d.org = c.org
      /\ d.shaking = c.shaking /\ d.wire = c.wire
    BY Zenon DEF ConnRec, S, A, n, x, y, AddStream
<1>9. d \in ConnRec
    BY <1>1, <1>2, Zenon DEF ConnRec, S, A, n, x, y, AddStream
<1>10. ConnOK(d)
    BY <1>1, <1>4, <1>5, <1>6, <1>7, <1>8 DEF ConnOK, Direct
<1>11. ASSUME NEW s, NEW k, NEW i, k # j, LinkOK(s, k, c, i) PROVE LinkOK(s, k, d, i)
    <2>1. Carries(d, k) <=> Carries(c, k)
        BY <1>1, <1>8, <1>11 DEF Carries, Direct, S
    <2>2. ASSUME NEW r \in S, r.user = k
          PROVE  /\ r.sid = s.sid /\ s.sends <= Spent(s) + 1
                 /\ \A a \in A : a.sid = r.sid => a.req = Tag(s)
        <3>1. r \in c.strs
            BY <1>1, <1>11, <2>2 DEF S
        <3>2. r.sid # c.next
            BY <1>0, <3>1 DEF ConnOK
        <3> QED BY <1>1, <1>11, <2>2, <3>1, <3>2 DEF LinkOK, A
    <2> QED BY <1>8, <1>11, <2>1, <2>2 DEF LinkOK, Direct
<1>12. ASSUME NEW s, NEW i, s.st = "run", s.conn = i, s.sid = c.next, Tag(s) = q,
              s.sends <= Spent(s) + 1
       PROVE  LinkOK(s, j, d, i)
    <2>1. Carries(d, j)
        BY <1>1, <1>8 DEF Carries, S
    <2>2. ASSUME NEW r \in S, r.user = j
          PROVE  /\ r.sid = s.sid
                 /\ \A a \in A : a.sid = r.sid => a.req = Tag(s)
        <3>1. r = x
            BY <2>2 DEF S, Carries
        <3>2. \A a \in c.asked : a.sid # c.next
            BY <1>0 DEF ConnOK
        <3> QED BY <1>1, <1>12, <3>1, <3>2 DEF A
    <2> QED BY <1>8, <1>12, <2>1, <2>2 DEF LinkOK, Direct
<1> QED BY <1>8, <1>9, <1>10, <1>11, <1>12

Opened(s, i, n) ==
    [s EXCEPT !.sid = n, !.conn = i, !.st = "run", !.tags = {}, !.len = 0,
              !.sends = s.sends + 1]

LEMMA H2OpenIs ==
    ASSUME NEW g \in Engine, NEW j \in Slot, NEW i \in Conn,
           Opened(g.slots[j], i, g.conns[i].next) \in SlotRec,
           AddStream(g.conns[i], j, Tag(g.slots[j])) \in ConnRec
    PROVE  Moved(g, H2Open(g, j, i), j, Opened(g.slots[j], i, g.conns[i].next),
                 i, AddStream(g.conns[i], j, Tag(g.slots[j])))
<1> DEFINE h == H2Open(g, j, i)
           t == Opened(g.slots[j], i, g.conns[i].next)
           d == AddStream(g.conns[i], j, Tag(g.slots[j]))
<1>1. h = [g EXCEPT !.conns[i] = d, !.slots[j] = t]
    BY Zenon DEF H2Open, Opened, AddStream
<1> HIDE DEF h, t, d
<1>2. h.slots = [g.slots EXCEPT ![j] = t] /\ h.conns = [g.conns EXCEPT ![i] = d]
    BY <1>1, Zenon DEF Engine
<1>3. h \in Engine
    BY <1>1, Zenon DEF Engine, t, d
<1>4. Moved(g, h, j, t, i, d)
    BY <1>2, <1>3, Zenon DEF Moved
<1> QED BY <1>4 DEF h, t, d

LEMMA H2OpenFacts ==
    ASSUME NEW g \in Engine, NEW j \in Slot, NEW i \in Conn, NEW s, NEW c,
           s = g.slots[j], c = g.conns[i],
           Opened(s, i, c.next) \in SlotRec, AddStream(c, j, Tag(s)) \in ConnRec
    PROVE  Moved(g, H2Open(g, j, i), j, Opened(s, i, c.next), i, AddStream(c, j, Tag(s)))
BY H2OpenIs, Zenon

\* h2_open for a slot that waits, or that has just brought the session up
LEMMA H2OpenGood ==
    ASSUME NEW g, Good(g), NEW j \in Slot, NEW i \in Conn, NEW e \in Engine, NEW s, NEW c,
           e.slots = [g.slots EXCEPT ![j] = s], e.conns = [g.conns EXCEPT ![i] = c],
           s \in SlotRec, SlotOK(s), s.url \in Url, s.sends <= Spent(s),
           c \in ConnRec, ConnOK(c), c.st = "h2", c.org = g.conns[i].org,
           Cardinality(c.strs) < STREAMS, ~Carries(c, j),
           g.slots[j].st = "run" => g.slots[j].conn = i,
           \A k \in Slot \ {j} : LinkOK(g.slots[k], k, c, i)
    PROVE  Good(H2Open(e, j, i))
<1> DEFINE h == H2Open(e, j, i)
           d == AddStream(c, j, Tag(s))
           t == Opened(s, i, c.next)
<1>1. /\ g \in Engine /\ g.slots \in [Slot -> SlotRec] /\ g.conns \in [Conn -> ConnRec]
      /\ HostsOK(g)
    BY GoodParts
<1>2. e.slots[j] = s /\ e.conns[i] = c
    BY <1>1
<1>3. Tag(s) \in Request
    BY DEF Tag, Request, SlotRec
<1>4. /\ d \in ConnRec /\ ConnOK(d) /\ d.org = c.org
      /\ \A x, k, l : k # j /\ LinkOK(x, k, c, l) => LinkOK(x, k, d, l)
      /\ \A x, l : x.st = "run" /\ x.conn = l /\ x.sid = c.next /\ Tag(x) = Tag(s)
                     /\ x.sends <= Spent(x) + 1 => LinkOK(x, j, d, l)
    BY <1>3, StreamAdded, Zenon
<1>5. t \in SlotRec
    <2>1. s.sends + 1 \in Nat
        BY DEF SlotRec
    <2>2. c.next \in Nat
        BY DEF ConnRec
    <2>3. 0 \in 0 .. RESPMAX /\ i \in 0 .. NCONN
        BY Constants DEF Conn
    <2> QED BY <2>1, <2>2, <2>3, Zenon DEF SlotRec, Opened
<1>6. /\ t.sid = c.next /\ t.conn = i /\ t.st = "run" /\ t.tags = {} /\ t.url = s.url
      /\ t.id = s.id /\ t.owned = s.owned /\ t.prefetch = s.prefetch
      /\ t.retried = s.retried /\ t.sends = s.sends + 1
    BY Zenon DEF SlotRec, Opened
<1>7. Moved(e, h, j, t, i, d)
    BY <1>2, <1>4, <1>5, H2OpenFacts, Zenon
<1> HIDE DEF h, d, t
<1>8. h \in Engine /\ h.slots = [e.slots EXCEPT ![j] = t] /\ h.conns = [e.conns EXCEPT ![i] = d]
    BY <1>7, Zenon DEF Moved
<1>9. h.slots = [g.slots EXCEPT ![j] = t] /\ h.conns = [g.conns EXCEPT ![i] = d]
    BY <1>8, Zenon
<1>10. Tag(t) = Tag(s) /\ t.sends <= Spent(t) + 1 /\ SlotOK(t)
    <2>1. s.sends \in Nat
        BY DEF SlotRec
    <2>2. Spent(t) = Spent(s) /\ Spent(s) \in 0 .. 1
        BY <1>6 DEF Spent
    <2>3. t.sends <= 2 /\ t.sends <= Spent(t) + 1
        BY <1>6, <2>1, <2>2
    <2> QED BY <1>6, <2>3 DEF Tag, SlotOK
<1>11. LinkOK(t, j, d, i)
    BY <1>4, <1>6, <1>10
<1>12. \A k \in Slot \ {j} : LinkOK(g.slots[k], k, d, i)
    BY <1>4
<1>13. HostsOK(h)
    <2>1. \A l \in Conn : h.conns[l].org = g.conns[l].org \/ h.conns[l].org = "none"
        BY <1>1, <1>4, <1>9
    <2> QED BY <1>1, <2>1, HostsShrink
<1>14. Good(h)
    BY <1>4, <1>6, <1>8, <1>9, <1>10, <1>11, <1>12, <1>13, Both
<1> QED BY <1>14 DEF h

LEMMA H2AttachGood ==
    ASSUME FetchInv, NEW i \in Conn, Negotiates(i, TRUE)
    PROVE  Good(f')
<1> DEFINE c == f.conns[i]
           j == c.slot
           s == f.slots[j]
           d == [c EXCEPT !.st = "h2", !.slot = 0, !.shaking = FALSE, !.offer = FALSE]
           e == [f EXCEPT !.origins[c.org] = 1,
                          !.conns[i] = [@ EXCEPT !.st = "h2", !.slot = 0, !.shaking = FALSE,
                                                 !.offer = FALSE]]
<1>1. f \in Engine /\ f.conns \in [Conn -> ConnRec] /\ f.slots \in [Slot -> SlotRec] /\ Good(f)
    BY GoodParts DEF FetchInv
<1>2. c.st = "run" /\ c.shaking /\ f' = H2Open(e, j, i)
    BY Zenon DEF Negotiates, Turn, Ends, H2Attach
<1>3. c.st \in Direct /\ Unsent(c)
    BY <1>2 DEF Direct, Unsent
<1>4. /\ c \in ConnRec /\ ConnOK(c) /\ j \in Slot /\ s \in SlotRec /\ SlotOK(s)
      /\ s.st = "run" /\ s.conn = i /\ LinkOK(s, j, c, i)
      /\ \A k \in Slot \ {j} : f.slots[k].st = "run" => f.slots[k].conn # i
    BY <1>1, <1>3, DirectFacts
<1>5. /\ d \in ConnRec /\ d.st = "h2" /\ d.org = c.org /\ d.strs = c.strs /\ d.asked = c.asked
      /\ d.next = c.next /\ ~d.shaking /\ d.wire = c.wire
    <2>1. 0 \in 0 .. NSLOT
        BY Constants
    <2> QED BY <1>4, <2>1, Zenon DEF ConnRec
<1>6. e.slots = f.slots /\ e.conns = [f.conns EXCEPT ![i] = d]
    BY <1>1, Zenon DEF Engine
<1>7. e \in Engine
    <2>1. 1 \in 0 .. 2
        OBVIOUS
    <2> QED BY <1>1, <1>5, <2>1, Zenon DEF Engine
<1> HIDE DEF d, e
<1>8. ConnOK(d) /\ Cardinality(d.strs) < STREAMS /\ \A k : ~Carries(d, k)
    <2>1. d.strs = {}
        BY <1>3, <1>4, <1>5 DEF ConnOK, Direct
    <2>2. IsFiniteSet({}) /\ Cardinality({}) = 0
        BY FS_EmptySet
    <2> QED BY <1>4, <1>5, <2>1, <2>2, <1>2, Constants, SMTT(30) DEF ConnOK, Carries, Direct
<1>9. s.url \in Url /\ s.sends <= Spent(s)
    <2>1. Spent(s) + 0 = Spent(s)
        BY DEF Spent
    <2> QED BY <1>3, <1>4, <2>1 DEF SlotOK, LinkOK
<1>10. e.slots = [f.slots EXCEPT ![j] = s]
    BY <1>1, <1>4, <1>6
<1>11. \A k \in Slot \ {j} : LinkOK(f.slots[k], k, d, i)
    BY <1>4, <1>8, Apart
<1> QED BY <1>1, <1>2, <1>4, <1>5, <1>6, <1>7, <1>8, <1>9, <1>10, <1>11, H2OpenGood

\* What a session's stream looks like
LEMMA StreamFacts ==
    ASSUME NEW g, Good(g), NEW i \in Conn, NEW r \in g.conns[i].strs
    PROVE  /\ r \in [sid : Nat, user : Slot, head : BOOLEAN] /\ r.user \in Slot
           /\ g.conns[i] \in ConnRec /\ ConnOK(g.conns[i]) /\ g.conns[i].st = "h2"
           /\ g.slots[r.user] \in SlotRec /\ SlotOK(g.slots[r.user])
           /\ g.slots[r.user].st = "run" /\ g.slots[r.user].conn = i
           /\ g.slots[r.user].sid = r.sid /\ r.sid \in Nat
           /\ g.slots[r.user].sends <= Spent(g.slots[r.user]) + 1
           /\ \A q \in g.conns[i].asked : q.sid = r.sid => q.req = Tag(g.slots[r.user])
<1> DEFINE c == g.conns[i]
           s == g.slots[r.user]
<1>1. c \in ConnRec /\ ConnOK(c) /\ g.slots \in [Slot -> SlotRec]
    BY GoodParts DEF Good
<1>2. r \in [sid : Nat, user : Slot, head : BOOLEAN] /\ r.user \in Slot /\ r.sid \in Nat
    BY <1>1 DEF ConnRec
<1>3. c.st = "h2"
    BY <1>1 DEF ConnOK
<1>4. s \in SlotRec /\ SlotOK(s) /\ LinkOK(s, r.user, c, i)
    BY <1>1, <1>2 DEF Good
<1>5. /\ s.st = "run" /\ s.conn = i /\ s.sid = r.sid /\ s.sends <= Spent(s) + 1
      /\ \A q \in c.asked : q.sid = r.sid => q.req = Tag(s)
    BY <1>4 DEF LinkOK, Carries
<1> QED BY <1>1, <1>2, <1>3, <1>4, <1>5

\* The first bytes of a stream's head are noted.
LEMMA HeadNoted ==
    ASSUME NEW c \in ConnRec, ConnOK(c), c.st = "h2", NEW r \in c.strs, NEW d,
           d = HeadSeen(c, r)
    PROVE  /\ d \in ConnRec /\ ConnOK(d) /\ d.org = c.org
           /\ \A s, k, i : LinkOK(s, k, c, i) => LinkOK(s, k, d, i)
<1> DEFINE x == [r EXCEPT !.head = TRUE]
           S == (c.strs \ {r}) \cup {x}
<1>1. c.strs \in SUBSET [sid : Nat, user : Slot, head : BOOLEAN]
    BY DEF ConnRec
<1>2. r \in [sid : Nat, user : Slot, head : BOOLEAN]
    BY <1>1
<1>3. x \in [sid : Nat, user : Slot, head : BOOLEAN] /\ x.sid = r.sid /\ x.user = r.user
    BY <1>2
<1> HIDE DEF x
<1>4. S \in SUBSET [sid : Nat, user : Slot, head : BOOLEAN]
    BY <1>1, <1>3
<1>5. IsFiniteSet(S) /\ Cardinality(S) <= STREAMS
    <2> DEFINE R == c.strs \ {r}
    <2>1. IsFiniteSet(c.strs) /\ Cardinality(c.strs) <= STREAMS
        BY DEF ConnOK
    <2>2. IsFiniteSet(R) /\ Cardinality(R) = Cardinality(c.strs) - 1
        BY <2>1, FS_RemoveElement
    <2>3. IsFiniteSet(S) /\ (Cardinality(S) = Cardinality(R) \/ Cardinality(S) = Cardinality(R) + 1)
        BY <2>2, FS_AddElement
    <2>4. Cardinality(R) \in Nat /\ Cardinality(c.strs) \in Nat
        BY <2>1, <2>2, FS_CardinalityType
    <2> HIDE DEF R, S
    <2> QED BY <2>1, <2>2, <2>3, <2>4, Constants
<1>6. /\ d.strs = S /\ d.asked = c.asked /\ d.next = c.next /\ d.st = "h2" /\ d.org = c.org
      /\ d.shaking = c.shaking /\ d.wire = c.wire
    BY Zenon DEF ConnRec, x, HeadSeen
<1>7. d \in ConnRec
    BY <1>4, Zenon DEF ConnRec, x, HeadSeen
<1>8. \A t \in S : \E u \in c.strs : t.sid = u.sid /\ t.user = u.user
    BY <1>3
<1>9. \A u \in c.strs : \E t \in S : t.sid = u.sid /\ t.user = u.user
    BY <1>3
<1>10. ASSUME NEW t \in S, NEW u \in S, t.sid = u.sid PROVE t = u
    BY <1>3, <1>10 DEF ConnOK
<1> HIDE DEF S
<1>11. ConnOK(d)
    <2>1. \A t \in S : 1 <= t.sid /\ t.sid < c.next
        BY <1>8 DEF ConnOK
    <2> QED BY <1>5, <1>6, <1>10, <2>1 DEF ConnOK, Direct
<1>12. ASSUME NEW s, NEW k, NEW i, LinkOK(s, k, c, i) PROVE LinkOK(s, k, d, i)
    <2>1. Carries(d, k) <=> Carries(c, k)
        BY <1>6, <1>8, <1>9 DEF Carries, Direct
    <2>2. ASSUME NEW t \in S, t.user = k
          PROVE  /\ t.sid = s.sid /\ s.sends <= Spent(s) + 1
                 /\ \A q \in c.asked : q.sid = t.sid => q.req = Tag(s)
        <3>1. PICK u \in c.strs : t.sid = u.sid /\ t.user = u.user
            BY <1>8
        <3> QED BY <1>12, <2>2, <3>1 DEF LinkOK
    <2> QED BY <1>6, <1>12, <2>1, <2>2 DEF LinkOK, Direct
<1> QED BY <1>6, <1>7, <1>11, <1>12

LEMMA PieceSlot ==
    ASSUME NEW s \in SlotRec, SlotOK(s), s.st = "run", NEW q \in Request, q = Tag(s)
    PROVE  /\ OnData(s, q) \in SlotRec /\ SlotOK(OnData(s, q)) /\ SameLinks(s, OnData(s, q))
           /\ OnData(s, q).owned = s.owned
<1> DEFINE t == OnData(s, q)
<1>1. /\ t \in SlotRec /\ SameLinks(s, t) /\ t.owned = s.owned /\ t.prefetch = s.prefetch
      /\ t.tags \subseteq s.tags \cup {q}
    <2>1. CASE s.len >= RESPMAX
        <3>1. t = [s EXCEPT !.over = TRUE]
            BY <2>1, Zenon DEF OnData
        <3> QED BY <3>1, Zenon DEF SlotRec, SameLinks
    <2>2. CASE ~(s.len >= RESPMAX)
        <3> DEFINE w == s.tags \cup {q}
                   n == s.len + 1
        <3>1. t = [s EXCEPT !.tags = w, !.len = n]
            BY <2>2, Zenon DEF OnData
        <3>2. s.len \in 0 .. RESPMAX /\ s.tags \in SUBSET Heard /\ q \in Heard
            BY DEF SlotRec, Heard
        <3>3. n \in 0 .. RESPMAX /\ w \in SUBSET Heard
            BY <2>2, <3>2, Constants
        <3> HIDE DEF n, t
        <3>4. t \in SlotRec
            <4> HIDE DEF w
            <4> QED BY <3>1, <3>3, Zenon DEF SlotRec
        <3>5. t.tags = w /\ SameLinks(s, t) /\ t.owned = s.owned /\ t.prefetch = s.prefetch
            <4> HIDE DEF w
            <4> QED BY <3>1, Zenon DEF SlotRec, SameLinks
        <3> QED BY <3>4, <3>5 DEF t
    <2> QED BY <2>1, <2>2
<1> HIDE DEF t
<1>2. SlotOK(t)
    BY <1>1 DEF SlotOK, SameLinks, InOrder, Tag, Spent
<1> QED BY <1>1, <1>2 DEF t

LEMMA H2PieceGood ==
    ASSUME FetchInv, NEW i \in Conn, NEW q \in f.conns[i].asked, H2Piece(i, q)
    PROVE  Good(f')
<1> DEFINE c == f.conns[i]
<1>1. f \in Engine /\ Good(f) /\ c \in ConnRec /\ f.conns \in [Conn -> ConnRec] /\ HostsOK(f)
    BY GoodParts DEF FetchInv
<1>2. CASE Streams(i, q) = {} /\ GoesOn(f)
    BY <1>1, <1>2 DEF GoesOn
<1>3. ASSUME NEW r \in Streams(i, q),
             GoesOn([f EXCEPT !.conns[i] = HeadSeen(f.conns[i], r),
                              !.slots[r.user] = OnData(f.slots[r.user], q.req)])
      PROVE  Good(f')
    <2> DEFINE j == r.user
               s == f.slots[j]
               d == HeadSeen(c, r)
               t == OnData(s, q.req)
    <2>1. r \in c.strs /\ r.sid = q.sid
        BY <1>3 DEF Streams
    <2>3. /\ j \in Slot /\ ConnOK(c) /\ c.st = "h2" /\ s \in SlotRec /\ SlotOK(s)
          /\ s.st = "run" /\ s.conn = i /\ q.req = Tag(s)
        BY <1>1, <2>1, StreamFacts
    <2>4. q.req \in Request
        BY <1>1 DEF ConnRec
    <2>5. t \in SlotRec /\ SlotOK(t) /\ SameLinks(s, t)
        BY <2>3, <2>4, PieceSlot
    <2>6. /\ d \in ConnRec /\ ConnOK(d) /\ d.org = c.org
          /\ \A x, k, l : LinkOK(x, k, c, l) => LinkOK(x, k, d, l)
        BY <1>1, <2>1, <2>3, HeadNoted
    <2>7. f' = [f EXCEPT !.conns[i] = d, !.slots[j] = t]
        BY <1>3, Zenon DEF GoesOn
    <2> HIDE DEF t, d, j
    <2>8. f'.slots = [f.slots EXCEPT ![j] = t] /\ f'.conns = [f.conns EXCEPT ![i] = d]
        BY <1>1, <2>7, Zenon DEF Engine
    <2>12. f' \in Engine
        BY <1>1, <2>5, <2>6, <2>7, Zenon DEF Engine
    <2>9. \A k \in Slot : LinkOK(f.slots[k], k, d, i)
        BY <1>1, <2>6 DEF Good
    <2>10. LinkOK(t, j, d, i) /\ t.st = "run" /\ t.conn = i
        <3>1. LinkOK(s, j, d, i)
            BY <2>3, <2>9
        <3> QED BY <2>3, <2>5, <3>1, LinkSame DEF SameLinks
    <2>11. HostsOK(f')
        <3>1. \A l \in Conn : f'.conns[l].org = f.conns[l].org \/ f'.conns[l].org = "none"
            BY <1>1, <2>6, <2>8
        <3> QED BY <1>1, <3>1, HostsShrink
    <2> QED BY <1>1, <2>3, <2>5, <2>6, <2>8, <2>9, <2>10, <2>11, <2>12, Both
<1> QED BY <1>2, <1>3, Zenon DEF H2Piece

\* Streams of a session go, with the session or without it: their slots no
\* longer run, and the others do not notice.
LEMMA Dropped ==
    ASSUME NEW g, Good(g), NEW i \in Conn, g.conns[i].st = "h2", NEW h \in Engine, NEW d,
           h.conns = [g.conns EXCEPT ![i] = d], ConnOK(d), d.st \notin Direct,
           d.strs \subseteq g.conns[i].strs, d.asked \subseteq g.conns[i].asked,
           d.org = g.conns[i].org \/ d.org = "none",
           \A k \in Slot : SlotOK(h.slots[k]),
           \A k \in Slot :
              IF \E r \in g.conns[i].strs \ d.strs : r.user = k
              THEN h.slots[k].st # "run" ELSE h.slots[k] = g.slots[k]
    PROVE  Good(h)
<1> DEFINE c == g.conns[i]
           Gone(k) == \E r \in c.strs \ d.strs : r.user = k
<1>1. /\ \A l \in Conn : ConnOK(g.conns[l])
      /\ \A k \in Slot, l \in Conn : LinkOK(g.slots[k], k, g.conns[l], l)
      /\ HostsOK(g) /\ g.conns \in [Conn -> ConnRec]
    BY GoodParts DEF Good
<1>2. h.conns[i] = d /\ \A l \in Conn \ {i} : h.conns[l] = g.conns[l]
    BY <1>1
<1>3. \A l \in Conn : ConnOK(h.conns[l])
    BY <1>1, <1>2
<1>4. HostsOK(h)
    <2>1. \A l \in Conn : h.conns[l].org = g.conns[l].org \/ h.conns[l].org = "none"
        BY <1>2
    <2> QED BY <1>1, <2>1, HostsShrink
<1>5. ASSUME NEW k \in Slot, NEW l \in Conn PROVE LinkOK(h.slots[k], k, h.conns[l], l)
    <2>1. CASE l # i /\ ~Gone(k)
        BY <1>1, <1>2, <2>1
    <2>2. CASE l # i /\ Gone(k)
        <3>1. PICK r \in c.strs : r.user = k
            BY <2>2
        <3>2. g.slots[k].conn = i
            BY <3>1, StreamFacts
        <3>3. ~Carries(g.conns[l], k)
            BY <1>1, <2>2, <3>2 DEF LinkOK
        <3>4. h.slots[k].st # "run"
            BY <2>2
        <3> QED BY <1>2, <2>2, <3>3, <3>4, Apart
    <2>3. CASE l = i /\ Gone(k)
        <3>1. PICK r \in c.strs \ d.strs : r.user = k
            BY <2>3
        <3>2. ASSUME NEW t \in d.strs, t.user = k PROVE FALSE
            <4>1. t \in c.strs
                BY <3>2
            <4>2. t.sid = g.slots[k].sid /\ r.sid = g.slots[k].sid
                BY <3>1, <3>2, <4>1, StreamFacts
            <4>3. t = r
                BY <1>1, <3>1, <4>1, <4>2 DEF ConnOK
            <4> QED BY <3>1, <3>2, <4>3
        <3>3. ~Carries(d, k)
            BY <3>2 DEF Carries
        <3>4. h.slots[k].st # "run"
            BY <2>3
        <3> QED BY <1>2, <2>3, <3>3, <3>4, Apart
    <2>4. CASE l = i /\ ~Gone(k)
        <3> DEFINE s == g.slots[k]
        <3>1. h.slots[k] = s /\ LinkOK(s, k, c, i) /\ c.st \notin Direct
            BY <1>1, <2>4 DEF Direct
        <3>2. Carries(d, k) <=> Carries(c, k)
            BY <2>4, <3>1 DEF Carries
        <3> HIDE DEF Gone, s
        <3>3. LinkOK(s, k, d, i)
            BY <3>1, <3>2 DEF LinkOK
        <3> QED BY <1>2, <2>4, <3>1, <3>3
    <2> QED BY <2>1, <2>2, <2>3, <2>4
<1> QED BY <1>3, <1>4, <1>5 DEF Good

\* A slot a session lets go of
LetGo(s, t) == t \in SlotRec /\ SlotOK(t) /\ t.st # "run" /\ t.owned = s.owned

Requeued(s) ==
    [s EXCEPT !.retried = TRUE, !.sid = 0, !.over = FALSE, !.tags = {}, !.len = 0,
              !.conn = 0, !.reused = FALSE, !.st = "wait"]

LEMMA RequeuedFacts ==
    ASSUME NEW s \in SlotRec, SlotOK(s), s.st # "free", ~s.retried, s.sends <= Spent(s) + 1
    PROVE  LetGo(s, Requeued(s))
<1> DEFINE t == Requeued(s)
<1>1. t \in SlotRec
    <2>1. 0 \in 0 .. NCONN /\ 0 \in 0 .. RESPMAX /\ 0 \in Nat
        BY Constants
    <2> QED BY <2>1, Zenon DEF SlotRec, Requeued
<1>2. /\ t.st = "wait" /\ t.url = s.url /\ t.tags = {} /\ t.retried
      /\ t.owned = s.owned /\ t.prefetch = s.prefetch /\ t.sends = s.sends
    BY Zenon DEF SlotRec, Requeued
<1> HIDE DEF t
<1>3. Spent(t) = 1 /\ t.sends <= 1 /\ t.sends \in Nat
    <2>1. s.sends \in Nat
        BY DEF SlotRec
    <2> QED BY <1>2, <2>1 DEF Spent
<1>4. SlotOK(t)
    BY <1>2, <1>3 DEF SlotOK
<1> QED BY <1>1, <1>2, <1>4 DEF LetGo, t

\* What slot_h2_lost and h2_on_end with H2_END_RETRY do to a slot
LostSlot(s, t) == t = [s EXCEPT !.st = "fail", !.conn = 0] \/ (~s.retried /\ t = Requeued(s))

LEMMA LostLetsGo ==
    ASSUME NEW s \in SlotRec, SlotOK(s), s.st # "free", s.sends <= Spent(s) + 1, NEW t,
           LostSlot(s, t)
    PROVE  LetGo(s, t)
<1>1. CASE t = [s EXCEPT !.st = "fail", !.conn = 0]
    <2> DEFINE x == [s EXCEPT !.st = "fail", !.conn = 0]
    <2>1. x \in SlotRec /\ SlotOK(x) /\ x.st = "fail" /\ x.owned = s.owned
        BY Ended
    <2> HIDE DEF x
    <2>2. LetGo(s, x)
        BY <2>1 DEF LetGo
    <2> QED BY <1>1, <2>2 DEF x
<1>2. CASE ~s.retried /\ t = Requeued(s)
    BY <1>2, RequeuedFacts
<1> QED BY <1>1, <1>2 DEF LostSlot

-----------------------------------------------------------------------------
(* Loops over the slots                                                    *)

\* u takes x through the steps.
IsFold(u, N, x, step) == u = [n \in 0 .. N |-> IF n = 0 THEN x ELSE step[n][u[n - 1]]]

LEMMA FoldExists ==
    ASSUME NEW N \in Nat, NEW x, NEW step
    PROVE  \E u : IsFold(u, N, x, step)
<1> DEFINE P(k) == \E u : u = [n \in 0 .. k |-> IF n = 0 THEN x ELSE step[n][u[n - 1]]]
           Bad == {k \in Nat : ~P(k)}
<1>1. P(0)
    <2> DEFINE u == [n \in 0 .. 0 |-> x]
    <2>1. u = [n \in 0 .. 0 |-> IF n = 0 THEN x ELSE step[n][u[n - 1]]]
        OBVIOUS
    <2> QED BY <2>1
<1>2. ASSUME NEW k \in Nat, k # 0, P(k - 1) PROVE P(k)
    <2>1. PICK u : u = [n \in 0 .. k - 1 |-> IF n = 0 THEN x ELSE step[n][u[n - 1]]]
        BY <1>2
    <2> DEFINE v == [n \in 0 .. k |-> IF n = k THEN step[k][u[k - 1]] ELSE u[n]]
               w == [n \in 0 .. k |-> IF n = 0 THEN x ELSE step[n][v[n - 1]]]
    <2>2. ASSUME NEW n \in 0 .. k PROVE v[n] = w[n]
        <3>1. CASE n = k
            <4>1. n - 1 \in 0 .. k /\ n - 1 # k /\ n # 0 /\ n - 1 = k - 1
                BY <1>2, <3>1
            <4>2. v[n - 1] = u[n - 1]
                BY <4>1
            <4> QED BY <3>1, <4>1, <4>2
        <3>2. CASE n # k /\ n = 0
            <4>1. n \in 0 .. k - 1
                BY <1>2, <3>2
            <4> QED BY <2>1, <3>2, <4>1
        <3>3. CASE n # k /\ n # 0
            <4>1. n \in 0 .. k - 1 /\ n - 1 \in 0 .. k /\ n - 1 # k
                BY <3>3
            <4>2. u[n] = step[n][u[n - 1]]
                BY <2>1, <3>3, <4>1
            <4>3. v[n - 1] = u[n - 1]
                BY <4>1
            <4> QED BY <3>3, <4>2, <4>3
        <3> QED BY <3>1, <3>2, <3>3
    <2>3. v = w
        <3> HIDE DEF v
        <3>1. v = [n \in 0 .. k |-> v[n]]
            BY DEF v
        <3> QED BY <2>2, <3>1
    <2> QED BY <2>3
<1> HIDE DEF P
<1>3. Bad = {}
    <2> SUFFICES ASSUME Bad # {} PROVE FALSE
        OBVIOUS
    <2> DEFINE k == Min(Bad)
    <2>1. k \in Bad /\ \A y \in Bad : k <= y
        BY MinIn
    <2> HIDE DEF k
    <2>2. k \in Nat /\ ~P(k) /\ k # 0
        BY <1>1, <2>1
    <2>3. k - 1 \in Nat /\ ~(k <= k - 1)
        BY <2>2
    <2>4. P(k - 1)
        BY <2>1, <2>3
    <2> QED BY <1>2, <2>2, <2>4
<1>4. P(N)
    BY <1>3
<1> QED BY <1>4 DEF P, IsFold

\* What each step passes on holds of every step.
LEMMA Climb ==
    ASSUME NEW N \in Nat, NEW P, NEW u, u[0] \in P[0],
           \A n \in 1 .. N : u[n - 1] \in P[n - 1] => u[n] \in P[n]
    PROVE  \A n \in 0 .. N : u[n] \in P[n]
<1> DEFINE Bad == {k \in 0 .. N : u[k] \notin P[k]}
<1>1. Bad = {}
    <2> SUFFICES ASSUME Bad # {} PROVE FALSE
        OBVIOUS
    <2> DEFINE k == Min(Bad)
    <2>1. k \in Bad /\ \A y \in Bad : k <= y
        BY MinIn
    <2> HIDE DEF k
    <2>2. k \in 0 .. N /\ u[k] \notin P[k] /\ k # 0
        BY <2>1
    <2>3. k \in 1 .. N /\ k - 1 \in 0 .. N /\ ~(k <= k - 1)
        BY <2>2
    <2>4. u[k - 1] \in P[k - 1]
        BY <2>1, <2>3
    <2> QED BY <2>2, <2>3, <2>4
<1> QED BY <1>1

\* The engine after the loop has dealt with the slots up to n of a set
LostUpTo(g, J, n) ==
    {h \in Engine : /\ h.conns = g.conns
                    /\ \A k \in Slot : IF k \in J /\ k <= n
                                       THEN LostSlot(g.slots[k], h.slots[k])
                                       ELSE h.slots[k] = g.slots[k]}

\* One step of the loop
LostOne(g, h, j) ==
    /\ h \in Engine /\ h.conns = g.conns
    /\ \E t \in SlotRec : LostSlot(g.slots[j], t) /\ h.slots = [g.slots EXCEPT ![j] = t]

LEMMA LostStep ==
    ASSUME NEW g \in Engine, NEW J, NEW n \in Slot, NEW x \in LostUpTo(g, J, n - 1), NEW y,
           IF n \in J THEN LostOne(x, y, n) ELSE y = x
    PROVE  y \in LostUpTo(g, J, n)
<1>1. /\ x \in Engine /\ x.conns = g.conns
      /\ \A k \in Slot : IF k \in J /\ k <= n - 1
                         THEN LostSlot(g.slots[k], x.slots[k]) ELSE x.slots[k] = g.slots[k]
    BY DEF LostUpTo
<1>2. n \in Nat /\ Slot \subseteq Nat
    BY Pools
<1>3. CASE n \notin J
    <2>1. ASSUME NEW k \in Slot
          PROVE  IF k \in J /\ k <= n
                 THEN LostSlot(g.slots[k], x.slots[k]) ELSE x.slots[k] = g.slots[k]
        <3>1. k \in J => (k <= n <=> k <= n - 1)
            BY <1>2, <1>3
        <3> QED BY <1>1, <3>1
    <2> QED BY <1>1, <1>3, <2>1 DEF LostUpTo
<1>4. CASE n \in J
    <2>1. y \in Engine /\ y.conns = g.conns
        BY <1>1, <1>4 DEF LostOne
    <2>2. PICK t \in SlotRec : LostSlot(x.slots[n], t) /\ y.slots = [x.slots EXCEPT ![n] = t]
        BY <1>4 DEF LostOne
    <2>3. x.slots \in [Slot -> SlotRec] /\ x.slots[n] = g.slots[n]
        BY <1>1, <1>2 DEF Engine
    <2>4. ASSUME NEW k \in Slot
          PROVE  IF k \in J /\ k <= n
                 THEN LostSlot(g.slots[k], y.slots[k]) ELSE y.slots[k] = g.slots[k]
        <3>1. CASE k = n
            BY <1>2, <1>4, <2>2, <2>3, <3>1
        <3>2. CASE k # n
            <4>1. k <= n <=> k <= n - 1
                BY <1>2, <3>2
            <4>2. y.slots[k] = x.slots[k]
                BY <2>2, <2>3, <3>2
            <4> QED BY <1>1, <4>1, <4>2
        <3> QED BY <3>1, <3>2
    <2> QED BY <2>1, <2>4 DEF LostUpTo
<1> QED BY <1>3, <1>4

LEMMA H2RetryIs ==
    ASSUME NEW g \in Engine, NEW j \in Slot
    PROVE  LostOne(g, H2Retry(g, j), j)
<1> DEFINE s == g.slots[j]
           x == [s EXCEPT !.st = "fail", !.conn = 0]
<1>1. s \in SlotRec
    BY DEF Engine
<1>2. x \in SlotRec /\ Requeued(s) \in SlotRec
    <2>1. 0 \in 0 .. NCONN /\ 0 \in 0 .. RESPMAX /\ 0 \in Nat
        BY Constants
    <2> QED BY <1>1, <2>1, Zenon DEF SlotRec, Requeued
<1>3. CASE s.retried
    <2> DEFINE h == SlotFailAlone(g, j)
    <2>1. H2Retry(g, j) = h
        BY <1>3, Zenon DEF H2Retry
    <2>2. h.conns = g.conns /\ h.slots = [g.slots EXCEPT ![j] = x]
        BY Zenon DEF SlotFailAlone, Engine
    <2>3. h \in Engine
        BY <1>2, <2>2, Zenon DEF SlotFailAlone, Engine
    <2> HIDE DEF h, x
    <2>4. LostSlot(s, x)
        BY DEF LostSlot, x
    <2> QED BY <1>2, <2>1, <2>2, <2>3, <2>4, Zenon DEF LostOne
<1>4. CASE ~s.retried
    <2> DEFINE h == Requeue(g, j)
               t == Requeued(s)
    <2>1. H2Retry(g, j) = h
        BY <1>4, Zenon DEF H2Retry
    <2>2. h.conns = g.conns /\ h.slots = [g.slots EXCEPT ![j] = t]
        BY Zenon DEF Requeue, Requeued, Engine
    <2>3. h \in Engine
        BY <1>2, <2>2, Zenon DEF Requeue, Requeued, Engine
    <2> HIDE DEF h, t
    <2>4. LostSlot(s, t) /\ t \in SlotRec
        BY <1>2, <1>4 DEF LostSlot, t
    <2> QED BY <2>1, <2>2, <2>3, <2>4, Zenon DEF LostOne
<1> QED BY <1>3, <1>4

LEMMA H2LostIs ==
    ASSUME NEW g \in Engine, NEW j \in Slot
    PROVE  LostOne(g, H2LostSlot(g, j), j)
<1> DEFINE s == g.slots[j]
           x == [s EXCEPT !.st = "fail", !.conn = 0]
           t == Requeued(s)
           dead == s.conn # 0 /\ ~g.conns[s.conn].served
           e == IF dead THEN [g EXCEPT !.origins[s.url[1]] = 2] ELSE g
<1>1. s \in SlotRec
    BY DEF Engine
<1>2. x \in SlotRec /\ t \in SlotRec
    <2>1. 0 \in 0 .. NCONN /\ 0 \in 0 .. RESPMAX /\ 0 \in Nat
        BY Constants
    <2> QED BY <1>1, <2>1, Zenon DEF SlotRec, Requeued
<1>3. CASE s.retried \/ s.len # 0
    <2> DEFINE h == SlotFailAlone(g, j)
    <2>1. H2LostSlot(g, j) = h
        BY <1>3, Zenon DEF H2LostSlot
    <2>2. h.conns = g.conns /\ h.slots = [g.slots EXCEPT ![j] = x]
        BY Zenon DEF SlotFailAlone, Engine
    <2>3. h \in Engine
        BY <1>2, <2>2, Zenon DEF SlotFailAlone, Engine
    <2> HIDE DEF h, x
    <2>4. LostSlot(s, x)
        BY DEF LostSlot, x
    <2> QED BY <1>2, <2>1, <2>2, <2>3, <2>4, Zenon DEF LostOne
<1>4. CASE ~(s.retried \/ s.len # 0)
    <2> DEFINE h == Requeue(e, j)
    <2>1. H2LostSlot(g, j) = h
        BY <1>4, Zenon DEF H2LostSlot
    <2>2. e \in Engine /\ e.slots = g.slots /\ e.conns = g.conns
        <3>1. 2 \in 0 .. 2
            OBVIOUS
        <3> QED BY <3>1, Zenon DEF Engine
    <2> HIDE DEF e
    <2>3. h.conns = e.conns /\ h.slots = [g.slots EXCEPT ![j] = t]
        BY <2>2, Zenon DEF Requeue, Requeued, Engine
    <2>4. h \in Engine
        BY <1>2, <2>2, <2>3, Zenon DEF Requeue, Requeued, Engine
    <2> HIDE DEF h, t
    <2>5. LostSlot(s, t) /\ t \in SlotRec
        BY <1>2, <1>4 DEF LostSlot, t
    <2> QED BY <2>1, <2>2, <2>3, <2>4, <2>5, Zenon DEF LostOne
<1> QED BY <1>3, <1>4

LEMMA H2LostLoop ==
    ASSUME NEW g \in Engine, NEW J
    PROVE  ForSlots(g, J, H2LostSlot) \in LostUpTo(g, J, NSLOT)
<1> DEFINE P == [n \in 0 .. NSLOT |-> LostUpTo(g, J, n)]
           Do(n, x) == IF n \in J THEN H2LostSlot(x, n) ELSE x
           step == [n \in 1 .. NSLOT |-> [x \in P[n - 1] |-> Do(n, x)]]
           u == CHOOSE w : w = [j \in 0 .. NSLOT |->
                    IF j = 0 THEN g
                    ELSE IF j \in J THEN H2LostSlot(w[j - 1], j) ELSE w[j - 1]]
<1>1. NSLOT \in Nat /\ Slot = 1 .. NSLOT
    BY Constants DEF Slot
<1>2. g \in P[0]
    <2>1. P[0] = LostUpTo(g, J, 0)
        BY <1>1
    <2>2. \A k \in Slot : ~(k <= 0)
        BY <1>1
    <2> QED BY <2>1, <2>2 DEF LostUpTo
<1>3. ASSUME NEW n \in 1 .. NSLOT, NEW x \in P[n - 1] PROVE Do(n, x) \in P[n]
    <2>1. n \in Slot /\ n - 1 \in 0 .. NSLOT /\ n \in 0 .. NSLOT
        BY <1>1
    <2>2. x \in LostUpTo(g, J, n - 1) /\ P[n] = LostUpTo(g, J, n)
        BY <1>3, <2>1
    <2>3. x \in Engine
        BY <2>2 DEF LostUpTo
    <2>4. LostOne(x, H2LostSlot(x, n), n)
        BY <2>1, <2>3, H2LostIs
    <2>5. IF n \in J THEN LostOne(x, Do(n, x), n) ELSE Do(n, x) = x
        BY <2>4
    <2> HIDE DEF Do, P
    <2> QED BY <2>1, <2>2, <2>5, LostStep
<1> HIDE DEF P
<1>12. PICK v : IsFold(v, NSLOT, g, step)
    <2> HIDE DEF step
    <2> QED BY <1>1, FoldExists
<1>4. v = [n \in 0 .. NSLOT |-> IF n = 0 THEN g ELSE step[n][v[n - 1]]]
    <2> HIDE DEF step
    <2> QED BY <1>12 DEF IsFold
<1>5. \A n \in 0 .. NSLOT : v[n] \in P[n]
    <2>1. v[0] = g /\ \A n \in 1 .. NSLOT : v[n] = step[n][v[n - 1]]
        <3> HIDE DEF step
        <3> QED BY <1>1, <1>4
    <2>2. ASSUME NEW n \in 1 .. NSLOT, v[n - 1] \in P[n - 1] PROVE v[n] \in P[n]
        <3>1. step[n][v[n - 1]] = Do(n, v[n - 1])
            <4> HIDE DEF Do
            <4> QED BY <2>2
        <3> HIDE DEF step, Do
        <3> QED BY <1>3, <2>1, <2>2, <3>1
    <2> QED BY <1>1, <1>2, <2>1, <2>2, Climb
<1>6. v = [j \in 0 .. NSLOT |->
              IF j = 0 THEN g
              ELSE IF j \in J THEN H2LostSlot(v[j - 1], j) ELSE v[j - 1]]
    <2>1. ASSUME NEW n \in 0 .. NSLOT, n # 0 PROVE step[n][v[n - 1]] = Do(n, v[n - 1])
        <3>1. n \in 1 .. NSLOT /\ n - 1 \in 0 .. NSLOT
            BY <1>1, <2>1
        <3>2. v[n - 1] \in P[n - 1]
            BY <1>5, <3>1
        <3> HIDE DEF Do
        <3> QED BY <3>1, <3>2
    <2> HIDE DEF step
    <2>2. [n \in 0 .. NSLOT |-> IF n = 0 THEN g ELSE step[n][v[n - 1]]]
          = [n \in 0 .. NSLOT |-> IF n = 0 THEN g ELSE Do(n, v[n - 1])]
        <3> HIDE DEF Do
        <3> QED BY <2>1
    <2> QED BY <1>4, <2>2, Zenon
<1>7. u = [j \in 0 .. NSLOT |->
              IF j = 0 THEN g
              ELSE IF j \in J THEN H2LostSlot(u[j - 1], j) ELSE u[j - 1]]
    BY <1>6, Zenon
<1> HIDE DEF u
<1>8. u[0] = g /\ \A n \in 1 .. NSLOT : u[n] = Do(n, u[n - 1])
    BY <1>1, <1>7
<1>9. \A n \in 0 .. NSLOT : u[n] \in P[n]
    <2>1. ASSUME NEW n \in 1 .. NSLOT, u[n - 1] \in P[n - 1] PROVE u[n] \in P[n]
        <3> HIDE DEF Do
        <3> QED BY <1>3, <1>8, <2>1
    <2> QED BY <1>1, <1>2, <1>8, <2>1, Climb
<1>10. u[NSLOT] \in LostUpTo(g, J, NSLOT)
    BY <1>1, <1>9 DEF P
<1>11. ForSlots(g, J, H2LostSlot) = u[NSLOT]
    BY Zenon DEF ForSlots, u
<1> QED BY <1>10, <1>11

LEMMA H2RetryLoop ==
    ASSUME NEW g \in Engine, NEW J
    PROVE  ForSlots(g, J, H2Retry) \in LostUpTo(g, J, NSLOT)
<1> DEFINE P == [n \in 0 .. NSLOT |-> LostUpTo(g, J, n)]
           Do(n, x) == IF n \in J THEN H2Retry(x, n) ELSE x
           step == [n \in 1 .. NSLOT |-> [x \in P[n - 1] |-> Do(n, x)]]
           u == CHOOSE w : w = [j \in 0 .. NSLOT |->
                    IF j = 0 THEN g
                    ELSE IF j \in J THEN H2Retry(w[j - 1], j) ELSE w[j - 1]]
<1>1. NSLOT \in Nat /\ Slot = 1 .. NSLOT
    BY Constants DEF Slot
<1>2. g \in P[0]
    <2>1. P[0] = LostUpTo(g, J, 0)
        BY <1>1
    <2>2. \A k \in Slot : ~(k <= 0)
        BY <1>1
    <2> QED BY <2>1, <2>2 DEF LostUpTo
<1>3. ASSUME NEW n \in 1 .. NSLOT, NEW x \in P[n - 1] PROVE Do(n, x) \in P[n]
    <2>1. n \in Slot /\ n - 1 \in 0 .. NSLOT /\ n \in 0 .. NSLOT
        BY <1>1
    <2>2. x \in LostUpTo(g, J, n - 1) /\ P[n] = LostUpTo(g, J, n)
        BY <1>3, <2>1
    <2>3. x \in Engine
        BY <2>2 DEF LostUpTo
    <2>4. LostOne(x, H2Retry(x, n), n)
        BY <2>1, <2>3, H2RetryIs
    <2>5. IF n \in J THEN LostOne(x, Do(n, x), n) ELSE Do(n, x) = x
        BY <2>4
    <2> HIDE DEF Do, P
    <2> QED BY <2>1, <2>2, <2>5, LostStep
<1> HIDE DEF P
<1>12. PICK v : IsFold(v, NSLOT, g, step)
    <2> HIDE DEF step
    <2> QED BY <1>1, FoldExists
<1>4. v = [n \in 0 .. NSLOT |-> IF n = 0 THEN g ELSE step[n][v[n - 1]]]
    <2> HIDE DEF step
    <2> QED BY <1>12 DEF IsFold
<1>5. \A n \in 0 .. NSLOT : v[n] \in P[n]
    <2>1. v[0] = g /\ \A n \in 1 .. NSLOT : v[n] = step[n][v[n - 1]]
        <3> HIDE DEF step
        <3> QED BY <1>1, <1>4
    <2>2. ASSUME NEW n \in 1 .. NSLOT, v[n - 1] \in P[n - 1] PROVE v[n] \in P[n]
        <3>1. step[n][v[n - 1]] = Do(n, v[n - 1])
            <4> HIDE DEF Do
            <4> QED BY <2>2
        <3> HIDE DEF step, Do
        <3> QED BY <1>3, <2>1, <2>2, <3>1
    <2> QED BY <1>1, <1>2, <2>1, <2>2, Climb
<1>6. v = [j \in 0 .. NSLOT |->
              IF j = 0 THEN g
              ELSE IF j \in J THEN H2Retry(v[j - 1], j) ELSE v[j - 1]]
    <2>1. ASSUME NEW n \in 0 .. NSLOT, n # 0 PROVE step[n][v[n - 1]] = Do(n, v[n - 1])
        <3>1. n \in 1 .. NSLOT /\ n - 1 \in 0 .. NSLOT
            BY <1>1, <2>1
        <3>2. v[n - 1] \in P[n - 1]
            BY <1>5, <3>1
        <3> HIDE DEF Do
        <3> QED BY <3>1, <3>2
    <2> HIDE DEF step
    <2>2. [n \in 0 .. NSLOT |-> IF n = 0 THEN g ELSE step[n][v[n - 1]]]
          = [n \in 0 .. NSLOT |-> IF n = 0 THEN g ELSE Do(n, v[n - 1])]
        <3> HIDE DEF Do
        <3> QED BY <2>1
    <2> QED BY <1>4, <2>2, Zenon
<1>7. u = [j \in 0 .. NSLOT |->
              IF j = 0 THEN g
              ELSE IF j \in J THEN H2Retry(u[j - 1], j) ELSE u[j - 1]]
    BY <1>6, Zenon
<1> HIDE DEF u
<1>8. u[0] = g /\ \A n \in 1 .. NSLOT : u[n] = Do(n, u[n - 1])
    BY <1>1, <1>7
<1>9. \A n \in 0 .. NSLOT : u[n] \in P[n]
    <2>1. ASSUME NEW n \in 1 .. NSLOT, u[n - 1] \in P[n - 1] PROVE u[n] \in P[n]
        <3> HIDE DEF Do
        <3> QED BY <1>3, <1>8, <2>1
    <2> QED BY <1>1, <1>2, <1>8, <2>1, Climb
<1>10. u[NSLOT] \in LostUpTo(g, J, NSLOT)
    BY <1>1, <1>9 DEF P
<1>11. ForSlots(g, J, H2Retry) = u[NSLOT]
    BY Zenon DEF ForSlots, u
<1> QED BY <1>10, <1>11

\* A session with some of its streams
LEMMA FewerStreams ==
    ASSUME NEW c, ConnOK(c), c.st = "h2", NEW d, d.st = "h2", d.org = c.org,
           d.strs \subseteq c.strs, d.asked \subseteq c.asked, d.next = c.next,
           d.shaking = c.shaking, d.wire = c.wire
    PROVE  ConnOK(d) /\ d.st \notin Direct
<1>1. IsFiniteSet(c.strs) /\ Cardinality(c.strs) <= STREAMS
    BY DEF ConnOK
<1>2. IsFiniteSet(d.strs) /\ Cardinality(d.strs) <= Cardinality(c.strs)
    BY <1>1, FS_Subset
<1>3. Cardinality(d.strs) \in Nat /\ Cardinality(c.strs) \in Nat
    BY <1>1, <1>2, FS_CardinalityType
<1>4. Cardinality(d.strs) <= STREAMS
    BY <1>1, <1>2, <1>3, Constants
<1> QED BY <1>2, <1>4 DEF ConnOK, Direct

\* Every slot of a set has been let go of, the others are as they were.
LEMMA LoopLetsGo ==
    ASSUME NEW g \in Engine, NEW J, NEW h \in LostUpTo(g, J, NSLOT)
    PROVE  /\ h \in Engine /\ h.conns = g.conns
           /\ \A k \in Slot : IF k \in J THEN LostSlot(g.slots[k], h.slots[k])
                              ELSE h.slots[k] = g.slots[k]
<1>1. \A k \in Slot : k <= NSLOT
    BY Constants DEF Slot
<1> QED BY <1>1 DEF LostUpTo

LEMMA H2BreaksGood ==
    ASSUME FetchInv, NEW i \in Conn, H2Breaks(i)
    PROVE  Good(f') /\ Kept(f, f')
<1> DEFINE c == f.conns[i]
           on == {j \in Slot : /\ f.slots[j].st = "run" /\ f.slots[j].conn = i
                               /\ f.slots[j].sid # 0}
           x == ForSlots(f, on, H2LostSlot)
<1>1. /\ f \in Engine /\ Good(f) /\ f.conns \in [Conn -> ConnRec] /\ ConnOK(c)
      /\ f.slots \in [Slot -> SlotRec]
    BY GoodParts DEF FetchInv, Good
<1>2. c.st = "h2" /\ f' = ConnClose(x, i)
    BY Zenon DEF H2Breaks, Turn, Ends, H2ConnLost
<1>3. x \in LostUpTo(f, on, NSLOT)
    BY <1>1, H2LostLoop
<1> HIDE DEF x
<1>4. /\ x \in Engine /\ x.conns = f.conns
      /\ \A k \in Slot : IF k \in on THEN LostSlot(f.slots[k], x.slots[k])
                         ELSE x.slots[k] = f.slots[k]
    <2> HIDE DEF on
    <2> QED BY <1>1, <1>3, LoopLetsGo
<1>5. /\ f'.slots = x.slots /\ f'.conns = [x.conns EXCEPT ![i] = NoConn]
    BY <1>2, <1>4, Zenon DEF ConnClose, Engine
<1>6. f' \in Engine
    BY <1>2, <1>4, NoConnOK, Zenon DEF ConnClose, Engine
<1>7. f'.conns = [f.conns EXCEPT ![i] = NoConn]
    BY <1>4, <1>5, Zenon
<1>8. ASSUME NEW k \in Slot
      PROVE  k \in on <=> \E r \in c.strs \ NoConn.strs : r.user = k
    <2>1. NoConn.strs = {}
        BY DEF NoConn
    <2>2. ASSUME NEW r \in c.strs, r.user = k PROVE k \in on
        <3>1. f.slots[k].st = "run" /\ f.slots[k].conn = i /\ f.slots[k].sid = r.sid
            BY <1>1, <2>2, StreamFacts
        <3>2. r.sid # 0
            BY <1>1 DEF ConnOK
        <3> QED BY <3>1, <3>2
    <2>3. ASSUME k \in on PROVE \E r \in c.strs : r.user = k
        <3>1. LinkOK(f.slots[k], k, c, i)
            BY <1>1 DEF Good
        <3> QED BY <1>2, <2>3, <3>1 DEF LinkOK, Carries, Direct
    <2> QED BY <2>1, <2>2, <2>3
<1>9. ASSUME NEW k \in Slot, k \in on PROVE LetGo(f.slots[k], f'.slots[k])
    <2>1. PICK r \in c.strs : r.user = k
        BY <1>8, <1>9
    <2>2. /\ f.slots[k] \in SlotRec /\ SlotOK(f.slots[k]) /\ f.slots[k].st = "run"
          /\ f.slots[k].sends <= Spent(f.slots[k]) + 1
        BY <1>1, <2>1, StreamFacts
    <2>3. LostSlot(f.slots[k], f'.slots[k])
        BY <1>4, <1>5, <1>9
    <2> QED BY <2>2, <2>3, LostLetsGo
<1> HIDE DEF on
<1>10. \A k \in Slot : SlotOK(f'.slots[k])
    BY <1>1, <1>4, <1>5, <1>9 DEF LetGo, Good
<1>11. \A k \in Slot :
          IF \E r \in c.strs \ NoConn.strs : r.user = k
          THEN f'.slots[k].st # "run" ELSE f'.slots[k] = f.slots[k]
    BY <1>4, <1>5, <1>8, <1>9 DEF LetGo
<1>12. NoConn.st \notin Direct /\ NoConn.strs \subseteq c.strs /\ NoConn.asked \subseteq c.asked
    BY DEF NoConn, Direct
<1>13. Good(f')
    BY <1>1, <1>2, <1>6, <1>7, <1>10, <1>11, <1>12, NoConnOK, Dropped
<1>14. Kept(f, f')
    BY <1>4, <1>5, <1>9 DEF LetGo, Kept
<1> QED BY <1>13, <1>14

LEMMA H2GoAwayGood ==
    ASSUME FetchInv, NEW i \in Conn, NEW last, H2GoAway(i, last)
    PROVE  Good(f') /\ Kept(f, f')
<1> DEFINE c == f.conns[i]
           gone == {r \in c.strs : r.sid > last}
           J == {r.user : r \in gone}
           S == c.strs \ gone
           A == {q \in c.asked : q.sid <= last}
           d == [c EXCEPT !.goaway = TRUE, !.strs = S, !.asked = A]
           g == [f EXCEPT !.conns[i].goaway = TRUE, !.conns[i].strs = @ \ gone,
                          !.conns[i].asked = {q \in @ : q.sid <= last}]
<1>1. /\ f \in Engine /\ Good(f) /\ f.conns \in [Conn -> ConnRec] /\ ConnOK(c) /\ c \in ConnRec
      /\ f.slots \in [Slot -> SlotRec]
    BY GoodParts DEF FetchInv, Good
<1>2. c.st = "h2" /\ f' = ForSlots(g, J, H2Retry)
    BY Zenon DEF H2GoAway, Turn, GoesOn
<1>3. S \subseteq c.strs /\ A \subseteq c.asked /\ gone = c.strs \ S
    OBVIOUS
<1> HIDE DEF gone, S, A
<1>4. /\ d \in ConnRec /\ d.st = "h2" /\ d.org = c.org /\ d.strs = S /\ d.asked = A
      /\ d.next = c.next /\ d.shaking = c.shaking /\ d.slot = c.slot
      /\ d.wire = c.wire
    <2>1. S \in SUBSET [sid : Nat, user : Slot, head : BOOLEAN]
          /\ A \in SUBSET [sid : Nat, req : Request]
        BY <1>1, <1>3 DEF ConnRec
    <2> QED BY <1>1, <1>2, <2>1, Zenon DEF ConnRec
<1>5. g.slots = f.slots /\ g.conns = [f.conns EXCEPT ![i] = d]
    BY <1>1, Zenon DEF Engine, ConnRec, S, A
<1>6. g \in Engine
    BY <1>1, <1>4, <1>5, Zenon DEF Engine
<1> HIDE DEF g, d
<1>7. f' \in LostUpTo(g, J, NSLOT)
    BY <1>2, <1>6, H2RetryLoop
<1>8. /\ f' \in Engine /\ f'.conns = [f.conns EXCEPT ![i] = d]
      /\ \A k \in Slot : IF k \in J THEN LostSlot(f.slots[k], f'.slots[k])
                         ELSE f'.slots[k] = f.slots[k]
    <2> HIDE DEF J
    <2> QED BY <1>5, <1>6, <1>7, LoopLetsGo
<1>9. ASSUME NEW k \in Slot, k \in J PROVE LetGo(f.slots[k], f'.slots[k])
    <2>1. PICK r \in c.strs : r.user = k
        BY <1>3, <1>9
    <2>2. /\ f.slots[k] \in SlotRec /\ SlotOK(f.slots[k]) /\ f.slots[k].st = "run"
          /\ f.slots[k].sends <= Spent(f.slots[k]) + 1
        BY <1>1, <2>1, StreamFacts
    <2>3. LostSlot(f.slots[k], f'.slots[k])
        BY <1>8, <1>9
    <2> QED BY <2>2, <2>3, LostLetsGo
<1>10. \A k : k \in J <=> \E r \in c.strs \ d.strs : r.user = k
    BY <1>3, <1>4
<1> HIDE DEF J
<1>11. \A k \in Slot : SlotOK(f'.slots[k])
    BY <1>1, <1>8, <1>9 DEF LetGo, Good
<1>12. \A k \in Slot :
          IF \E r \in c.strs \ d.strs : r.user = k
          THEN f'.slots[k].st # "run" ELSE f'.slots[k] = f.slots[k]
    BY <1>8, <1>9, <1>10 DEF LetGo
<1>13. ConnOK(d) /\ d.st \notin Direct
    BY <1>1, <1>2, <1>3, <1>4, FewerStreams
<1>14. Good(f')
    BY <1>1, <1>2, <1>3, <1>4, <1>8, <1>11, <1>12, <1>13, Dropped
<1>15. Kept(f, f')
    BY <1>8, <1>9 DEF LetGo, Kept
<1> QED BY <1>14, <1>15

\* The server is through with one stream.
LEMMA StreamEnds ==
    ASSUME NEW g, Good(g), NEW i \in Conn, NEW r \in g.conns[i].strs, NEW h \in Engine,
           NEW d, d.st = "h2", d.org = g.conns[i].org, d.strs = g.conns[i].strs \ {r},
           d.asked \subseteq g.conns[i].asked, d.next = g.conns[i].next,
           d.shaking = g.conns[i].shaking, d.wire = g.conns[i].wire, NEW t, LetGo(g.slots[r.user], t),
           h.conns = [g.conns EXCEPT ![i] = d], h.slots = [g.slots EXCEPT ![r.user] = t]
    PROVE  Good(h) /\ Kept(g, h)
<1> DEFINE c == g.conns[i]
           j == r.user
<1>1. j \in Slot /\ ConnOK(c) /\ c.st = "h2" /\ g.slots \in [Slot -> SlotRec]
    BY StreamFacts, GoodParts
<1>2. ConnOK(d) /\ d.st \notin Direct
    BY <1>1, FewerStreams
<1>3. h.slots[j] = t /\ \A k \in Slot \ {j} : h.slots[k] = g.slots[k]
    BY <1>1
<1>4. \A k \in Slot : SlotOK(h.slots[k])
    BY <1>3 DEF LetGo, Good
<1>5. c.strs \ d.strs = {r}
    OBVIOUS
<1>6. \A k \in Slot : IF \E x \in c.strs \ d.strs : x.user = k
                      THEN h.slots[k].st # "run" ELSE h.slots[k] = g.slots[k]
    BY <1>3, <1>5 DEF LetGo
<1>7. Kept(g, h)
    BY <1>3 DEF LetGo, Kept
<1>8. Good(h)
    BY <1>1, <1>2, <1>4, <1>6, Dropped
<1> QED BY <1>7, <1>8

\* slot_fail of a slot without a connection, or a retry
LEMMA FailAloneIs ==
    ASSUME NEW g \in Engine, NEW j \in Slot
    PROVE  LostOne(g, SlotFailAlone(g, j), j)
<1> DEFINE s == g.slots[j]
           x == [s EXCEPT !.st = "fail", !.conn = 0]
           h == SlotFailAlone(g, j)
<1>1. s \in SlotRec
    BY DEF Engine
<1>2. x \in SlotRec
    <2>1. 0 \in 0 .. NCONN
        BY Constants
    <2> QED BY <1>1, <2>1, Zenon DEF SlotRec
<1>3. h.conns = g.conns /\ h.slots = [g.slots EXCEPT ![j] = x]
    BY Zenon DEF SlotFailAlone, Engine
<1>4. h \in Engine
    BY <1>2, <1>3, Zenon DEF SlotFailAlone, Engine
<1> HIDE DEF h, x
<1>5. LostSlot(s, x)
    BY DEF LostSlot, x
<1> QED BY <1>2, <1>3, <1>4, <1>5, Zenon DEF LostOne, h

LEMMA LostOneGood ==
    ASSUME NEW g, Good(g), NEW i \in Conn, NEW r \in g.conns[i].strs, NEW e, NEW h,
           NEW d, d.st = "h2", d.org = g.conns[i].org, d.strs = g.conns[i].strs \ {r},
           d.asked \subseteq g.conns[i].asked, d.next = g.conns[i].next,
           d.shaking = g.conns[i].shaking, d.wire = g.conns[i].wire,
           e.slots = g.slots, e.conns = [g.conns EXCEPT ![i] = d], LostOne(e, h, r.user)
    PROVE  Good(h) /\ Kept(g, h)
<1> DEFINE s == g.slots[r.user]
<1>1. /\ s \in SlotRec /\ SlotOK(s) /\ s.st = "run" /\ s.sends <= Spent(s) + 1
    BY StreamFacts
<1>2. h \in Engine /\ h.conns = [g.conns EXCEPT ![i] = d]
    BY DEF LostOne
<1>3. PICK t \in SlotRec : LostSlot(s, t) /\ h.slots = [g.slots EXCEPT ![r.user] = t]
    BY Zenon DEF LostOne
<1>4. LetGo(s, t)
    BY <1>1, <1>3, LostLetsGo
<1> QED BY <1>2, <1>3, <1>4, StreamEnds

\* H2Done with an answer that fits
Done(g, j) ==
    [Store(g, g.slots[j]) EXCEPT !.slots[j].st = "done", !.slots[j].conn = 0,
                                 !.conns[g.slots[j].conn].served = TRUE]

LEMMA DoneGood ==
    ASSUME NEW g, Good(g), NEW i \in Conn, NEW r \in g.conns[i].strs, NEW e \in Engine,
           NEW d \in ConnRec, d.st = "h2", d.org = g.conns[i].org,
           d.strs = g.conns[i].strs \ {r},
           d.asked \subseteq g.conns[i].asked, d.next = g.conns[i].next,
           d.shaking = g.conns[i].shaking, d.wire = g.conns[i].wire,
           e.slots = g.slots, e.conns = [g.conns EXCEPT ![i] = d]
    PROVE  Good(Done(e, r.user)) /\ Kept(g, Done(e, r.user))
<1> DEFINE j == r.user
           s == g.slots[j]
           h == Done(e, j)
           b == Store(e, s)
           t == [s EXCEPT !.st = "done", !.conn = 0]
           z == [d EXCEPT !.served = TRUE]
<1>1. /\ j \in Slot /\ s \in SlotRec /\ SlotOK(s) /\ s.st = "run" /\ s.conn = i
    BY StreamFacts
<1>2. g.conns \in [Conn -> ConnRec] /\ g.slots \in [Slot -> SlotRec]
    BY GoodParts
<1>3. b \in Engine /\ b.slots = g.slots /\ b.conns = e.conns
    <2>1. s.url \in Url
        BY <1>1 DEF SlotOK
    <2> QED BY <1>1, <2>1, StoreFacts
<1>4. b.conns[i] = d /\ b.slots[j] = s
    BY <1>2, <1>3
<1>5. t \in SlotRec /\ SlotOK(t) /\ t.st = "done" /\ t.owned = s.owned
    BY <1>1, Ended
<1>6. LetGo(s, t)
    <2> HIDE DEF t
    <2> QED BY <1>5 DEF LetGo
<1>7. /\ z \in ConnRec /\ z.st = d.st /\ z.org = d.org /\ z.strs = d.strs
      /\ z.asked = d.asked /\ z.next = d.next /\ z.shaking = d.shaking /\ z.wire = d.wire
    BY Zenon DEF ConnRec
<1>8. h = [b EXCEPT !.slots[j].st = "done", !.slots[j].conn = 0, !.conns[i].served = TRUE]
    BY <1>1, Zenon DEF Done
<1> HIDE DEF h, b, s, j
<1>9. h.slots = [b.slots EXCEPT ![j] = t] /\ h.conns = [b.conns EXCEPT ![i] = z]
    BY <1>3, <1>4, <1>8, ZenonT(40) DEF Engine
<1> HIDE DEF t, z
<1>10. h \in Engine
    BY <1>3, <1>4, <1>5, <1>7, <1>8, <1>9, ZenonT(40) DEF Engine, t, z
<1>11. h.slots = [g.slots EXCEPT ![j] = t] /\ h.conns = [g.conns EXCEPT ![i] = z]
    <2>1. h.slots = [g.slots EXCEPT ![j] = t]
        BY <1>3, <1>9, Zenon
    <2>2. h.conns = [[g.conns EXCEPT ![i] = d] EXCEPT ![i] = z]
        BY <1>3, <1>9, Zenon
    <2>3. [[g.conns EXCEPT ![i] = d] EXCEPT ![i] = z] = [g.conns EXCEPT ![i] = z]
        BY <1>2, Zenon
    <2> QED BY <2>1, <2>2, <2>3, Zenon
<1>13. z.st = "h2" /\ z.org = g.conns[i].org /\ z.strs = g.conns[i].strs \ {r}
       /\ z.asked \subseteq g.conns[i].asked /\ z.next = g.conns[i].next
       /\ z.shaking = g.conns[i].shaking /\ z.wire = g.conns[i].wire
    BY <1>7
<1>14. LetGo(g.slots[r.user], t) /\ h.slots = [g.slots EXCEPT ![r.user] = t]
    BY <1>6, <1>11 DEF j, s
<1>12. Good(h) /\ Kept(g, h)
    BY <1>10, <1>11, <1>13, <1>14, StreamEnds
<1> QED BY <1>12 DEF h, j

\* A session whose streams stay
LEMMA SessionSame ==
    ASSUME NEW g, Good(g), NEW i \in Conn, g.conns[i].st = "h2", NEW h \in Engine,
           NEW d, d.st = "h2", d.org = g.conns[i].org, d.strs = g.conns[i].strs,
           d.asked \subseteq g.conns[i].asked, d.next = g.conns[i].next,
           d.shaking = g.conns[i].shaking, d.wire = g.conns[i].wire,
           h.conns = [g.conns EXCEPT ![i] = d], h.slots = g.slots
    PROVE  Good(h)
<1>1. ConnOK(g.conns[i]) /\ \A k \in Slot : SlotOK(h.slots[k])
    BY DEF Good
<1>2. ConnOK(d) /\ d.st \notin Direct
    BY <1>1, FewerStreams
<1>3. ~ \E r \in g.conns[i].strs \ d.strs : TRUE
    OBVIOUS
<1>4. \A k \in Slot : IF \E r \in g.conns[i].strs \ d.strs : r.user = k
                      THEN h.slots[k].st # "run" ELSE h.slots[k] = g.slots[k]
    BY <1>3
<1> QED BY <1>1, <1>2, <1>4, Dropped

LEMMA H2EndsGood ==
    ASSUME FetchInv, NEW i \in Conn, NEW q \in f.conns[i].asked, NEW how, H2Ends(i, q, how)
    PROVE  Good(f') /\ Kept(f, f')
<1> DEFINE c == f.conns[i]
           A == c.asked \ {q}
           g == [f EXCEPT !.conns[i].asked = @ \ {q}]
           b == [c EXCEPT !.asked = A]
<1>1. /\ f \in Engine /\ Good(f) /\ f.conns \in [Conn -> ConnRec] /\ ConnOK(c) /\ c \in ConnRec
    BY GoodParts DEF FetchInv, Good
<1>2. c.st = "h2"
    BY DEF H2Ends, Turn
<1>3. A \subseteq c.asked /\ A \in SUBSET [sid : Nat, req : Request]
    BY <1>1 DEF ConnRec
<1>4. /\ b \in ConnRec /\ b.st = "h2" /\ b.org = c.org /\ b.strs = c.strs /\ b.asked = A
      /\ b.next = c.next /\ b.shaking = c.shaking /\ b.wire = c.wire
    <2> HIDE DEF A
    <2> QED BY <1>1, <1>2, <1>3, Zenon DEF ConnRec
<1>5. g.slots = f.slots /\ g.conns = [f.conns EXCEPT ![i] = b]
    BY <1>1, Zenon DEF Engine
<1>6. g \in Engine
    BY <1>1, <1>4, <1>5, Zenon DEF Engine
<1>7. \/ GoesOn(g)
      \/ \E r \in Streams(i, q) :
            \/ GoesOn(H2Done(Freed(g, i, r), r.user))
            \/ GoesOn(SlotFailAlone(Freed(g, i, r), r.user))
            \/ GoesOn(H2Retry(Freed(g, i, r), r.user))
    BY Zenon DEF H2Ends
<1> HIDE DEF g, b, A
<1>8. CASE GoesOn(g)
    <2>1. f' = g
        BY <1>8 DEF GoesOn
    <2>2. Good(g)
        BY <1>1, <1>2, <1>3, <1>4, <1>5, <1>6, SessionSame
    <2>3. Kept(f, g)
        BY <1>5 DEF Kept
    <2> QED BY <2>1, <2>2, <2>3
<1>9. ASSUME NEW r \in Streams(i, q),
             \/ GoesOn(H2Done(Freed(g, i, r), r.user))
             \/ GoesOn(SlotFailAlone(Freed(g, i, r), r.user))
             \/ GoesOn(H2Retry(Freed(g, i, r), r.user))
      PROVE  Good(f') /\ Kept(f, f')
    <2> DEFINE e == Freed(g, i, r)
               j == r.user
               S == c.strs \ {r}
               d == [b EXCEPT !.strs = S]
    <2>1. r \in c.strs
        BY DEF Streams
    <2>2. j \in Slot /\ f.slots \in [Slot -> SlotRec]
        BY <1>1, <2>1, StreamFacts, GoodParts
    <2>3. S \in SUBSET [sid : Nat, user : Slot, head : BOOLEAN]
        BY <1>1 DEF ConnRec
    <2>4. g.conns[i] = b
        BY <1>1, <1>5
    <2>5. /\ d \in ConnRec /\ d.st = "h2" /\ d.org = c.org /\ d.strs = S /\ d.asked = A
          /\ d.next = c.next /\ d.shaking = c.shaking /\ d.wire = c.wire
        <3> HIDE DEF S
        <3> QED BY <1>4, <2>3, Zenon DEF ConnRec
    <2>6. e.slots = g.slots /\ e.conns = [g.conns EXCEPT ![i] = d]
        BY <1>4, <1>6, <2>4, Zenon DEF Engine, Freed
    <2>7. e \in Engine
        BY <1>4, <1>6, <2>4, <2>5, <2>6, Zenon DEF Engine, Freed
    <2> HIDE DEF e, d
    <2>8. e.conns = [f.conns EXCEPT ![i] = d]
        <3>1. e.conns = [[f.conns EXCEPT ![i] = b] EXCEPT ![i] = d]
            BY <1>5, <2>6, Zenon
        <3>2. [[f.conns EXCEPT ![i] = b] EXCEPT ![i] = d] = [f.conns EXCEPT ![i] = d]
            BY <1>1, Zenon
        <3> QED BY <3>1, <3>2, Zenon
    <2>9. e.slots = f.slots
        BY <1>5, <2>6, Zenon
    <2>10. ASSUME NEW h, LostOne(e, h, j) PROVE Good(h) /\ Kept(f, h)
        BY <1>1, <1>3, <2>1, <2>5, <2>8, <2>9, <2>10, LostOneGood
    <2>11. /\ Good(SlotFailAlone(e, j)) /\ Kept(f, SlotFailAlone(e, j))
           /\ Good(H2Retry(e, j)) /\ Kept(f, H2Retry(e, j))
        BY <2>2, <2>7, <2>10, FailAloneIs, H2RetryIs
    <2>12. Good(Done(e, j)) /\ Kept(f, Done(e, j))
        BY <1>1, <1>3, <2>1, <2>5, <2>7, <2>8, <2>9, DoneGood
    <2>13. H2Done(e, j) = SlotFailAlone(e, j) \/ H2Done(e, j) = Done(e, j)
        BY Zenon DEF H2Done, Done
    <2> QED BY <1>9, <2>11, <2>12, <2>13, Zenon DEF GoesOn, e
<1> QED BY <1>7, <1>8, <1>9

LEMMA H2SettingsGood ==
    ASSUME FetchInv, NEW i \in Conn, NEW m \in 0 .. STREAMS, H2Settings(i, m)
    PROVE  Good(f')
<1> DEFINE c == f.conns[i]
           d == [c EXCEPT !.max = m]
           h == [f EXCEPT !.conns[i].max = m]
<1>1. /\ f \in Engine /\ Good(f) /\ c \in ConnRec
    BY GoodParts DEF FetchInv
<1>2. c.st = "h2" /\ f' = h
    BY DEF H2Settings, Turn, GoesOn
<1>4. /\ d \in ConnRec /\ d.st = "h2" /\ d.org = c.org /\ d.strs = c.strs /\ d.asked = c.asked
      /\ d.next = c.next /\ d.shaking = c.shaking /\ d.wire = c.wire
    BY <1>1, <1>2, Zenon DEF ConnRec
<1>5. h.slots = f.slots /\ h.conns = [f.conns EXCEPT ![i] = d]
    BY <1>1, Zenon DEF Engine
<1>6. h \in Engine
    BY <1>1, <1>4, <1>5, Zenon DEF Engine
<1> HIDE DEF d, h
<1>7. Good(h)
    BY <1>1, <1>2, <1>4, <1>5, <1>6, SessionSame
<1> QED BY <1>2, <1>7


-----------------------------------------------------------------------------
(* slot_assign                                                             *)

\* The engine after slot j got its chance
Assigned(g, h, j) == Good(h) /\ \A k \in Slot \ {j} : h.slots[k] = g.slots[k]

\* What a waiting slot looks like
LEMMA WaitFacts ==
    ASSUME NEW g, Good(g), NEW j \in Slot, g.slots[j].st = "wait"
    PROVE  /\ g.slots[j] \in SlotRec /\ SlotOK(g.slots[j]) /\ g.slots[j].url \in Url
           /\ g.slots[j].url[1] \in Origin
           /\ g.slots[j].sends <= Spent(g.slots[j])
           /\ \A i \in Conn : ~Carries(g.conns[i], j)
<1>1. g.slots[j] \in SlotRec /\ SlotOK(g.slots[j])
    BY GoodParts DEF Good
<1>2. g.slots[j].url \in Url /\ g.slots[j].sends <= Spent(g.slots[j])
    BY <1>1 DEF SlotOK
<1>3. \A i \in Conn : LinkOK(g.slots[j], j, g.conns[i], i)
    BY DEF Good
<1>4. \A i \in Conn : ~Carries(g.conns[i], j)
    BY <1>3 DEF LinkOK
<1>5. g.slots[j].url[1] \in Origin
    BY <1>2, Zenon DEF Origin
<1> QED BY <1>1, <1>2, <1>4, <1>5

LEMMA JoinGood ==
    ASSUME NEW g, Good(g), NEW j \in Slot, g.slots[j].st = "wait", NEW i \in Conn,
           g.conns[i].st = "h2", CanOpen(g.conns[i])
    PROVE  Assigned(g, H2Open([g EXCEPT !.slots[j].reused = g.conns[i].served], j, i), j)
<1> DEFINE c == g.conns[i]
           w == g.slots[j]
           s == [w EXCEPT !.reused = c.served]
           e == [g EXCEPT !.slots[j].reused = c.served]
           h == H2Open(e, j, i)
<1>1. g \in Engine /\ g.slots \in [Slot -> SlotRec] /\ g.conns \in [Conn -> ConnRec]
    BY GoodParts
<1>2. c \in ConnRec /\ ConnOK(c) /\ c.served \in BOOLEAN /\ c.max \in 0 .. STREAMS
    BY <1>1 DEF Good, ConnRec
<1>3. /\ w \in SlotRec /\ SlotOK(w) /\ w.url \in Url /\ w.sends <= Spent(w) /\ ~Carries(c, j)
    BY WaitFacts
<1>4. /\ s \in SlotRec /\ SameLinks(w, s) /\ s.tags = w.tags /\ s.owned = w.owned
      /\ s.prefetch = w.prefetch
    BY <1>2, <1>3, Zenon DEF SlotRec, SameLinks
<1>5. e.slots = [g.slots EXCEPT ![j] = s] /\ e.conns = g.conns
    BY <1>1, Zenon DEF Engine
<1>6. e \in Engine
    BY <1>1, <1>4, <1>5, Zenon DEF Engine
<1> HIDE DEF s, e
<1>7. SlotOK(s) /\ s.url \in Url /\ s.sends <= Spent(s)
    BY <1>3, <1>4 DEF SlotOK, SameLinks, InOrder, Tag, Spent
<1>8. Cardinality(c.strs) < STREAMS
    <2>1. Cardinality(c.strs) < c.max /\ Cardinality(c.strs) \in Nat
        <3>1. IsFiniteSet(c.strs)
            BY <1>2 DEF ConnOK
        <3> QED BY <3>1, FS_CardinalityType DEF CanOpen, Active
    <2> QED BY <1>2, <2>1, Constants
<1>9. e.conns = [g.conns EXCEPT ![i] = c]
    BY <1>1, <1>5
<1>10. \A k \in Slot \ {j} : LinkOK(g.slots[k], k, c, i)
    BY DEF Good
<1>11. Good(h)
    <2> HIDE DEF h
    <2> QED BY <1>2, <1>3, <1>4, <1>5, <1>6, <1>7, <1>8, <1>9, <1>10, H2OpenGood DEF h
<1>12. \E t : h.slots = [e.slots EXCEPT ![j] = t]
    BY <1>6, Zenon DEF H2Open, Engine
<1> HIDE DEF h
<1>13. \A k \in Slot \ {j} : h.slots[k] = g.slots[k]
    BY <1>1, <1>5, <1>12
<1> QED BY <1>11, <1>13 DEF Assigned, h, e

LEMMA ReuseGood ==
    ASSUME NEW g, Good(g), NEW j \in Slot, g.slots[j].st = "wait", NEW i \in Conn,
           g.conns[i].st = "idle", Matches(g.conns[i], g.slots[j])
    PROVE  Assigned(g, Reuse(g, j, i), j)
<1> DEFINE c == g.conns[i]
           w == g.slots[j]
           s == [w EXCEPT !.conn = i, !.st = "run", !.reused = TRUE]
           d == [c EXCEPT !.st = "run", !.slot = j]
           b == [g EXCEPT !.conns[i].st = "run", !.conns[i].slot = j,
                          !.slots[j].conn = i, !.slots[j].st = "run",
                          !.slots[j].reused = TRUE]
           t == [s EXCEPT !.sends = s.sends + 1]
           z == [d EXCEPT !.wire = d.wire \cup {Tag(s)}]
           h == Sent(b, j, i)
<1>1. /\ g \in Engine /\ g.slots \in [Slot -> SlotRec] /\ g.conns \in [Conn -> ConnRec]
      /\ HostsOK(g)
    BY GoodParts
<1>2. c \in ConnRec /\ ConnOK(c) /\ c.org = w.url[1]
    BY <1>1 DEF Good, Matches
<1>3. w \in SlotRec /\ SlotOK(w) /\ w.url \in Url /\ w.sends <= Spent(w)
    BY WaitFacts
<1>4. i \in 0 .. NCONN /\ j \in 0 .. NSLOT
    BY Constants DEF Conn, Slot
<1>5. /\ s \in SlotRec /\ s.st = "run" /\ s.conn = i /\ s.url = w.url /\ s.tags = w.tags
      /\ s.id = w.id /\ s.owned = w.owned /\ s.prefetch = w.prefetch /\ s.sends = w.sends
      /\ s.retried = w.retried
    BY <1>3, <1>4, Zenon DEF SlotRec
<1>6. /\ d \in ConnRec /\ d.st = "run" /\ d.slot = j /\ d.strs = c.strs /\ d.asked = c.asked
      /\ d.next = c.next /\ d.org = c.org /\ d.shaking = c.shaking
      /\ d.wire = c.wire
    BY <1>2, <1>4, Zenon DEF ConnRec
<1>7. b.slots = [g.slots EXCEPT ![j] = s] /\ b.conns = [g.conns EXCEPT ![i] = d]
    BY <1>1, Zenon DEF Engine
<1>8. b \in Engine
    <2> DEFINE x == [g EXCEPT !.conns[i].st = "run", !.conns[i].slot = j]
               y == [x EXCEPT !.slots[j].conn = i, !.slots[j].st = "run",
                              !.slots[j].reused = TRUE]
    <2>1. x.slots = g.slots /\ x.conns = [g.conns EXCEPT ![i] = d]
        BY <1>1, Zenon DEF Engine
    <2>2. x \in Engine
        BY <1>1, <1>6, <2>1, Zenon DEF Engine
    <2>3. b = y
        BY Zenon
    <2> HIDE DEF x, b
    <2>4. y.slots = [x.slots EXCEPT ![j] = s]
        BY <1>1, <2>1, <2>2, Zenon DEF Engine
    <2>5. y \in Engine
        BY <1>1, <1>5, <2>1, <2>2, <2>4, ZenonT(40) DEF Engine
    <2> QED BY <2>3, <2>5, Zenon
<1>9. h = Reuse(g, j, i)
    BY Zenon DEF Reuse
<1> HIDE DEF b, h, s, d
<1>10. b.slots[j] = s /\ b.conns[i] = d
    BY <1>1, <1>7
<1>11. Moved(b, h, j, t, i, z)
    BY <1>3, <1>5, <1>8, <1>10, SentFacts DEF h
<1>12. SlotOK(s) /\ s.sends <= Spent(s)
    BY <1>3, <1>5 DEF SlotOK, InOrder, Tag, Spent
<1>13. /\ SlotOK(t) /\ t.st = "run" /\ t.conn = i /\ t.sends <= Spent(t) + 1
       /\ t.url = s.url /\ t.id = s.id
    BY <1>5, <1>12, SentSlot
<1>14. /\ z.st = "run" /\ z.slot = j /\ z.strs = c.strs /\ z.asked = c.asked
       /\ z.next = c.next /\ z.org = c.org /\ z.shaking = c.shaking
       /\ z.wire = c.wire \cup {Tag(s)}
    BY <1>6, Zenon DEF ConnRec
<1> HIDE DEF t, z
<1>15. /\ h \in Engine /\ h.slots = [g.slots EXCEPT ![j] = t]
       /\ h.conns = [g.conns EXCEPT ![i] = z]
    <2>1. h \in Engine /\ h.slots = [b.slots EXCEPT ![j] = t] /\ h.conns = [b.conns EXCEPT ![i] = z]
        BY <1>11 DEF Moved
    <2>2. [[g.slots EXCEPT ![j] = s] EXCEPT ![j] = t] = [g.slots EXCEPT ![j] = t]
        BY <1>1, Zenon
    <2>3. [[g.conns EXCEPT ![i] = d] EXCEPT ![i] = z] = [g.conns EXCEPT ![i] = z]
        BY <1>1, Zenon
    <2> QED BY <1>7, <2>1, <2>2, <2>3, Zenon
<1>16. c.strs = {} /\ c.asked = {} /\ ~c.shaking
    BY <1>2 DEF ConnOK
<1>23. ASSUME NEW x \in z.wire PROVE InOrder(t, x) /\ x.url[1] = z.org
    <2>1. CASE x \in c.wire
        <3>1. x.url[1] = c.org /\ c.org \in Sloppy
            BY <1>2, <2>1 DEF ConnOK
        <3> QED BY <1>2, <1>5, <1>13, <1>14, <3>1 DEF InOrder
    <2>2. CASE x = Tag(s)
        BY <1>2, <1>5, <1>13, <1>14, <2>2 DEF InOrder, Tag
    <2> QED BY <1>14, <2>1, <2>2
<1>17. ConnOK(z)
    BY <1>2, <1>14, <1>16, <1>23 DEF ConnOK, Direct
<1>18. LinkOK(t, j, z, i)
    <2>1. z.org = t.url[1]
        BY <1>2, <1>5, <1>13, <1>14
    <2> QED BY <1>13, <1>14, <1>16, <1>23, <2>1 DEF LinkOK, Carries, Unsent, Direct
<1>19. \A k \in Slot \ {j} : LinkOK(g.slots[k], k, z, i)
    <2> SUFFICES ASSUME NEW k \in Slot \ {j} PROVE LinkOK(g.slots[k], k, z, i)
        OBVIOUS
    <2>1. LinkOK(g.slots[k], k, c, i)
        BY DEF Good
    <2>2. ~Carries(c, k) /\ ~Carries(z, k)
        BY <1>14, <1>16 DEF Carries, Direct
    <2>3. g.slots[k].st = "run" => g.slots[k].conn # i
        BY <2>1, <2>2 DEF LinkOK
    <2> QED BY <2>2, <2>3, Apart
<1>20. HostsOK(h)
    <2>1. \A l \in Conn : h.conns[l].org = g.conns[l].org \/ h.conns[l].org = "none"
        BY <1>1, <1>14, <1>15
    <2> QED BY <1>1, <2>1, HostsShrink
<1>21. Good(h)
    BY <1>13, <1>15, <1>17, <1>18, <1>19, <1>20, Both
<1>22. \A k \in Slot \ {j} : h.slots[k] = g.slots[k]
    BY <1>1, <1>15
<1> QED BY <1>9, <1>21, <1>22 DEF Assigned

\* A new connection in the place of one that carries nothing
LEMMA NewConnGood ==
    ASSUME NEW g, Good(g), NEW j \in Slot, g.slots[j].st = "wait", NEW i \in Conn,
           \A k \in Slot : ~Carries(g.conns[i], k),
           Cardinality({l \in Conn : g.conns[l].org = g.slots[j].url[1]}) < PERHOST
    PROVE  Assigned(g, NewConn(g, j, i), j)
<1> DEFINE c == g.conns[i]
           w == g.slots[j]
           o == w.url[1]
           t == [w EXCEPT !.conn = i, !.st = "run", !.reused = FALSE]
           d == [NoConn EXCEPT !.st = "dns", !.slot = j, !.org = o]
           h == NewConn(g, j, i)
<1>1. /\ g \in Engine /\ g.slots \in [Slot -> SlotRec] /\ g.conns \in [Conn -> ConnRec]
      /\ HostsOK(g)
    BY GoodParts
<1>2. /\ w \in SlotRec /\ SlotOK(w) /\ w.url \in Url /\ w.sends <= Spent(w) /\ o \in Origin
    BY WaitFacts
<1>3. i \in 0 .. NCONN /\ j \in 0 .. NSLOT
    BY Constants DEF Conn, Slot
<1>4. /\ t \in SlotRec /\ t.st = "run" /\ t.conn = i /\ t.url = w.url /\ t.tags = w.tags
      /\ t.id = w.id /\ t.owned = w.owned /\ t.prefetch = w.prefetch /\ t.sends = w.sends
      /\ t.retried = w.retried
    BY <1>2, <1>3, Zenon DEF SlotRec
<1> HIDE DEF o
<1>5. /\ NoConn \in ConnRec /\ ConnOK(NoConn) /\ NoConn.strs = {} /\ NoConn.asked = {}
      /\ ~NoConn.shaking /\ NoConn.wire = {}
    BY NoConnOK DEF NoConn
<1>6. /\ d \in ConnRec /\ d.st = "dns" /\ d.slot = j /\ d.org = o /\ d.strs = NoConn.strs
      /\ d.asked = NoConn.asked /\ d.next = NoConn.next /\ d.shaking = NoConn.shaking
      /\ d.wire = NoConn.wire
    BY <1>2, <1>3, <1>5, Zenon DEF ConnRec
<1>7. h.slots = [g.slots EXCEPT ![j] = t] /\ h.conns = [g.conns EXCEPT ![i] = d]
    BY <1>1, Zenon DEF Engine, NewConn, o
<1>8. h \in Engine
    <2> DEFINE x == [g EXCEPT !.conns[i] = d]
               y == [x EXCEPT !.slots[j].conn = i, !.slots[j].st = "run",
                              !.slots[j].reused = FALSE]
    <2>1. h = y
        BY Zenon DEF NewConn, o
    <2> HIDE DEF d
    <2>2. x.slots = g.slots /\ x.conns = [g.conns EXCEPT ![i] = d]
        BY <1>1, Zenon DEF Engine
    <2>3. x \in Engine
        BY <1>1, <1>6, <2>2, Zenon DEF Engine
    <2> HIDE DEF x, h
    <2>4. y.slots = [x.slots EXCEPT ![j] = t]
        BY <1>1, <2>2, <2>3, Zenon DEF Engine
    <2>5. y \in Engine
        BY <1>1, <1>4, <2>2, <2>3, <2>4, ZenonT(40) DEF Engine
    <2> QED BY <2>1, <2>5, Zenon
<1> HIDE DEF h, t, d
<1>9. SlotOK(t) /\ t.sends <= Spent(t)
    BY <1>2, <1>4 DEF SlotOK, InOrder, Tag, Spent
<1>10. ConnOK(d)
    BY <1>2, <1>5, <1>6 DEF ConnOK, Direct
<1>11. LinkOK(t, j, d, i)
    <2>1. Spent(t) \in 0 .. 1
        BY DEF Spent
    <2>2. d.org = t.url[1] /\ d.wire = {}
        BY <1>4, <1>5, <1>6 DEF o
    <2> QED BY <1>4, <1>5, <1>6, <1>9, <2>1, <2>2 DEF LinkOK, Carries, Unsent, Direct
<1>12. \A k \in Slot \ {j} : LinkOK(g.slots[k], k, d, i)
    <2> SUFFICES ASSUME NEW k \in Slot \ {j} PROVE LinkOK(g.slots[k], k, d, i)
        OBVIOUS
    <2>1. LinkOK(g.slots[k], k, c, i)
        BY DEF Good
    <2>2. ~Carries(d, k)
        BY <1>5, <1>6 DEF Carries, Direct
    <2>3. g.slots[k].st = "run" => g.slots[k].conn # i
        BY <2>1 DEF LinkOK
    <2> QED BY <2>2, <2>3, Apart
<1>13. HostsOK(h)
    <2>1. /\ \A l \in Conn \ {i} : h.conns[l].org = g.conns[l].org
          /\ h.conns[i].org = o
        BY <1>1, <1>6, <1>7
    <2>2. Cardinality({l \in Conn : g.conns[l].org = o}) < PERHOST
        BY DEF o
    <2> QED BY <1>1, <2>1, <2>2, HostsGrow
<1>14. Good(h)
    BY <1>4, <1>7, <1>8, <1>9, <1>10, <1>11, <1>12, <1>13, Both
<1>15. \A k \in Slot \ {j} : h.slots[k] = g.slots[k]
    BY <1>1, <1>7
<1> QED BY <1>14, <1>15 DEF Assigned, h

\* An idle connection and a session without streams carry nothing.
LEMMA Carefree ==
    ASSUME NEW g, Good(g), NEW i \in Conn,
           g.conns[i].st = "free" \/ Unused(g.conns[i])
    PROVE  \A k : ~Carries(g.conns[i], k)
<1> DEFINE c == g.conns[i]
<1>1. ConnOK(c)
    BY DEF Good
<1>2. IsFiniteSet(c.strs) /\ (c.st # "h2" => c.strs = {})
    BY <1>1 DEF ConnOK
<1>3. Cardinality(c.strs) = 0 => c.strs = {}
    BY <1>2, FS_EmptySet
<1>4. c.strs = {} /\ c.st \notin Direct
    BY <1>2, <1>3 DEF Direct, Active, Unused
<1> QED BY <1>4 DEF Carries

\* Connections without a request go.
LEMMA CloseAllGood ==
    ASSUME NEW g, Good(g), NEW S \in SUBSET Conn,
           \A i \in S : \A k : ~Carries(g.conns[i], k)
    PROVE  /\ Good(CloseAll(g, S)) /\ CloseAll(g, S).slots = g.slots
           /\ \A i \in Conn : CloseAll(g, S).conns[i] = IF i \in S THEN NoConn ELSE g.conns[i]
<1> DEFINE C == [i \in Conn |-> IF i \in S THEN NoConn ELSE g.conns[i]]
           h == CloseAll(g, S)
<1>1. g \in Engine /\ g.conns \in [Conn -> ConnRec] /\ HostsOK(g)
    BY GoodParts
<1>2. C \in [Conn -> ConnRec] /\ \A i \in Conn : C[i] = IF i \in S THEN NoConn ELSE g.conns[i]
    BY <1>1, NoConnOK
<1>3. h = [g EXCEPT !.conns = C]
    BY Zenon DEF CloseAll
<1> HIDE DEF C, h
<1>4. h.slots = g.slots /\ h.conns = C /\ h \in Engine
    BY <1>1, <1>2, <1>3, Zenon DEF Engine
<1>5. HostsOK(h)
    <2>1. \A l \in Conn : h.conns[l].org = g.conns[l].org \/ h.conns[l].org = "none"
        BY <1>2, <1>4, NoConnOK
    <2> QED BY <1>1, <2>1, HostsShrink
<1>6. \A i \in Conn : ConnOK(h.conns[i])
    BY <1>2, <1>4, NoConnOK DEF Good
<1>7. ASSUME NEW k \in Slot, NEW i \in Conn PROVE LinkOK(h.slots[k], k, h.conns[i], i)
    <2>1. LinkOK(g.slots[k], k, g.conns[i], i)
        BY DEF Good
    <2>2. CASE i \notin S
        BY <1>2, <1>4, <2>1, <2>2
    <2>3. CASE i \in S
        <3>1. g.slots[k].st = "run" => g.slots[k].conn # i
            BY <2>1, <2>3 DEF LinkOK
        <3> QED BY <1>2, <1>4, <2>3, <3>1, NoConnOK, Apart
    <2> QED BY <2>2, <2>3
<1>8. \A k \in Slot : SlotOK(h.slots[k])
    BY <1>4 DEF Good
<1>9. Good(h)
    BY <1>4, <1>5, <1>6, <1>7, <1>8 DEF Good
<1> QED BY <1>2, <1>4, <1>9 DEF h

LEMMA LongestIdleIn ==
    ASSUME NEW S \in SUBSET Conn, S # {}, NEW w \in Findings
    PROVE  LongestIdle(S, w) \in S
<1> DEFINE T == {w.since[x] : x \in S}
<1>1. \A x \in Conn : w.since[x] \in Nat
    BY Pools DEF Findings
<1>2. T \subseteq Nat /\ T # {}
    BY <1>1
<1>3. Min(T) \in T /\ \A y \in T : Min(T) <= y
    BY <1>2, MinIn
<1>4. PICK x \in S : w.since[x] = Min(T)
    BY <1>3
<1>5. \A y \in S : w.since[x] <= w.since[y]
    BY <1>3, <1>4
<1> QED BY <1>5, Zenon DEF LongestIdle

LEMMA StartConnGood ==
    ASSUME NEW g, Good(g), NEW j \in Slot, g.slots[j].st = "wait", NEW w \in Findings
    PROVE  Assigned(g, StartConn(g, j, w), j)
<1> DEFINE s == g.slots[j]
           org == s.url[1]
           mine == {i \in Conn : Matches(g.conns[i], s)}
           free == {i \in Conn : g.conns[i].st = "free"}
           other == {i \in Conn \ mine : Unused(g.conns[i])}
           h == StartConn(g, j, w)
<1>1. free # {} => Lowest(free) \in free
    BY Pools, LowestIn
<1>2. other # {} => LongestIdle(other, w) \in other
    <2>1. other \in SUBSET Conn
        OBVIOUS
    <2> HIDE DEF other
    <2> QED BY <2>1, LongestIdleIn
<1>3. \/ h = g
      \/ ~(Cardinality(mine) >= PERHOST) /\ free # {} /\ h = NewConn(g, j, Lowest(free))
      \/ /\ ~(Cardinality(mine) >= PERHOST) /\ other # {}
         /\ h = NewConn(g, j, LongestIdle(other, w))
    BY Zenon DEF StartConn
<1>4. ~(Cardinality(mine) >= PERHOST) =>
      Cardinality({l \in Conn : g.conns[l].org = org}) < PERHOST
    <2>1. org \in Origin
        BY WaitFacts
    <2>2. \A l \in Conn : g.conns[l].org = org => g.conns[l].st # "free"
        BY <2>1, Constants DEF Good, ConnOK
    <2>3. mine = {l \in Conn : g.conns[l].org = org}
        BY <2>2 DEF Matches
    <2>4. IsFiniteSet(mine)
        <3>1. mine \subseteq Conn
            OBVIOUS
        <3> QED BY <3>1, Pools, FS_Subset
    <2>5. Cardinality(mine) \in Nat
        BY <2>4, FS_CardinalityType
    <2> HIDE DEF mine
    <2> QED BY <2>3, <2>5, Constants
<1>5. CASE h = g
    BY <1>5 DEF Assigned
<1>6. ASSUME NEW a \in Conn, g.conns[a].st = "free" \/ Unused(g.conns[a]),
             ~(Cardinality(mine) >= PERHOST)
      PROVE  Assigned(g, NewConn(g, j, a), j)
    <2>1. \A k \in Slot : ~Carries(g.conns[a], k)
        BY <1>6, Carefree
    <2>2. Cardinality({l \in Conn : g.conns[l].org = g.slots[j].url[1]}) < PERHOST
        BY <1>4, <1>6
    <2> QED BY <2>1, <2>2, NewConnGood
<1>7. CASE ~(Cardinality(mine) >= PERHOST) /\ free # {} /\ h = NewConn(g, j, Lowest(free))
    <2>1. Lowest(free) \in Conn /\ g.conns[Lowest(free)].st = "free"
        BY <1>1, <1>7
    <2> HIDE DEF free, mine
    <2>2. Assigned(g, NewConn(g, j, Lowest(free)), j)
        BY <1>6, <1>7, <2>1
    <2> QED BY <1>7, <2>2, Zenon
<1>8. CASE /\ ~(Cardinality(mine) >= PERHOST) /\ other # {}
           /\ h = NewConn(g, j, LongestIdle(other, w))
    <2>1. LongestIdle(other, w) \in Conn /\ Unused(g.conns[LongestIdle(other, w)])
        BY <1>2, <1>8
    <2> HIDE DEF other, mine
    <2>2. Assigned(g, NewConn(g, j, LongestIdle(other, w)), j)
        BY <1>6, <1>8, <2>1
    <2> QED BY <1>8, <2>2, Zenon
<1> HIDE DEF h, mine, free, other
<1> QED BY <1>3, <1>5, <1>7, <1>8 DEF h

LEMMA SlotAssignGood ==
    ASSUME NEW g, Good(g), NEW j \in Slot, g.slots[j].st = "wait", NEW w \in Findings
    PROVE  Assigned(g, SlotAssign(g, j, w), j)
<1> DEFINE s == g.slots[j]
           open == {i \in Sessions(g, s) : CanOpen(g.conns[i])}
           full == \E i \in Sessions(g, s) : ~g.conns[i].goaway
           idle == {i \in Conn : g.conns[i].st = "idle" /\ Matches(g.conns[i], s)}
           able == idle \ w.bad
           S == {i \in idle : \A k \in able : i < k}
           e == CloseAll(g, S)
           h == SlotAssign(g, j, w)
<1>1. Conn \subseteq Nat
    BY Pools
<1>2. Sessions(g, s) \subseteq {i \in Conn : g.conns[i].st = "h2"}
    BY Zenon DEF Sessions
<1>3. open # {} => Lowest(open) \in open
    BY <1>1, <1>2, LowestIn
<1>4. able # {} => Lowest(able) \in able
    BY <1>1, LowestIn
<1>5. \/ open # {}
         /\ h = H2Open([g EXCEPT !.slots[j].reused = g.conns[Lowest(open)].served],
                       j, Lowest(open))
      \/ h = g
      \/ able # {} /\ h = Reuse(e, j, Lowest(able))
      \/ h = StartConn(e, j, w)
    BY Zenon DEF SlotAssign
<1>6. /\ Good(e) /\ e.slots = g.slots
      /\ \A i \in Conn : e.conns[i] = IF i \in S THEN NoConn ELSE g.conns[i]
    <2>1. S \in SUBSET Conn
        OBVIOUS
    <2>2. \A i \in S : Unused(g.conns[i])
        BY DEF Unused
    <2> HIDE DEF S
    <2>3. \A i \in S : \A k : ~Carries(g.conns[i], k)
        BY <2>1, <2>2, Carefree
    <2> QED BY <2>1, <2>3, CloseAllGood
<1>7. ASSUME NEW x, Assigned(e, x, j) PROVE Assigned(g, x, j)
    BY <1>6, <1>7 DEF Assigned
<1>9. CASE h = g
    BY <1>9 DEF Assigned
<1>10. CASE /\ open # {}
            /\ h = H2Open([g EXCEPT !.slots[j].reused = g.conns[Lowest(open)].served],
                          j, Lowest(open))
    <2> DEFINE a == Lowest(open)
    <2>1. a \in Conn /\ g.conns[a].st = "h2" /\ CanOpen(g.conns[a])
        BY <1>2, <1>3, <1>10
    <2> HIDE DEF a, open
    <2>2. Assigned(g, H2Open([g EXCEPT !.slots[j].reused = g.conns[a].served], j, a), j)
        BY <2>1, JoinGood
    <2> QED BY <1>10, <2>2, Zenon DEF a
<1>11. CASE able # {} /\ h = Reuse(e, j, Lowest(able))
    <2> DEFINE a == Lowest(able)
    <2>1. a \in able /\ a \in Conn /\ a \in Nat
        BY <1>1, <1>4, <1>11
    <2>2. a \notin S
        <3>1. ~(a < a)
            BY <2>1
        <3> HIDE DEF a
        <3> QED BY <2>1, <3>1
    <2>3. e.conns[a].st = "idle" /\ Matches(e.conns[a], e.slots[j])
        BY <1>6, <2>1, <2>2
    <2> HIDE DEF a, able, e
    <2>4. Assigned(e, Reuse(e, j, a), j)
        BY <1>6, <2>1, <2>3, ReuseGood
    <2> QED BY <1>7, <1>11, <2>4 DEF a
<1>12. CASE h = StartConn(e, j, w)
    <2> HIDE DEF e
    <2>1. Assigned(e, StartConn(e, j, w), j)
        BY <1>6, StartConnGood
    <2> QED BY <1>7, <1>12, <2>1
<1> HIDE DEF h, open, able, e
<1> QED BY <1>5, <1>9, <1>10, <1>11, <1>12 DEF h

-----------------------------------------------------------------------------
(* The first loop of fetch_poll                                            *)

\* The engine when the slots up to n have had their chance
AssignedUpTo(g, n) ==
    {h \in Engine : Good(h) /\ \A k \in Slot : k > n => h.slots[k] = g.slots[k]}

LEMMA AssignStep ==
    ASSUME NEW g \in Engine, NEW J \in SUBSET Waiting(g), NEW n \in Slot,
           NEW x \in AssignedUpTo(g, n - 1), NEW y, NEW w \in Findings,
           y = IF n \in J THEN SlotAssign(x, n, w) ELSE x
    PROVE  y \in AssignedUpTo(g, n)
<1>1. x \in Engine /\ Good(x) /\ \A k \in Slot : k > n - 1 => x.slots[k] = g.slots[k]
    BY DEF AssignedUpTo
<1>2. n \in Nat /\ Slot \subseteq Nat
    BY Pools
<1>3. CASE n \in J
    <2>1. x.slots[n].st = "wait"
        BY <1>1, <1>2, <1>3 DEF Waiting
    <2>2. Assigned(x, y, n)
        BY <1>1, <1>3, <2>1, SlotAssignGood
    <2>3. Good(y) /\ y \in Engine /\ \A k \in Slot \ {n} : y.slots[k] = x.slots[k]
        BY <2>2, GoodParts DEF Assigned
    <2>4. ASSUME NEW k \in Slot, k > n PROVE y.slots[k] = g.slots[k]
        <3>1. k > n - 1 /\ k # n
            BY <1>2, <2>4
        <3>2. y.slots[k] = x.slots[k]
            BY <2>3, <3>1
        <3>3. x.slots[k] = g.slots[k]
            BY <1>1, <3>1
        <3> QED BY <3>2, <3>3
    <2> QED BY <2>3, <2>4 DEF AssignedUpTo
<1>4. CASE n \notin J
    <2>1. \A k \in Slot : k > n => k > n - 1
        BY <1>2
    <2> QED BY <1>1, <1>4, <2>1 DEF AssignedUpTo
<1> QED BY <1>3, <1>4

\* slot_assign for each slot of a set
AssignEach(g, J, w) ==
    LET each(h, j) == SlotAssign(h, j, w) IN ForSlots(g, J, each)

LEMMA AssignLoop ==
    ASSUME NEW g, Good(g), NEW J \in SUBSET Waiting(g), NEW w \in Findings
    PROVE  Good(AssignEach(g, J, w))
<1> DEFINE P == [n \in 0 .. NSLOT |-> AssignedUpTo(g, n)]
           Do(n, x) == IF n \in J THEN SlotAssign(x, n, w) ELSE x
           step == [n \in 1 .. NSLOT |-> [x \in P[n - 1] |-> Do(n, x)]]
           u == CHOOSE a : a = [j \in 0 .. NSLOT |->
                    IF j = 0 THEN g
                    ELSE IF j \in J THEN SlotAssign(a[j - 1], j, w) ELSE a[j - 1]]
<1>1. NSLOT \in Nat /\ Slot = 1 .. NSLOT /\ g \in Engine
    BY Constants, GoodParts DEF Slot
<1>2. g \in P[0]
    <2>1. P[0] = AssignedUpTo(g, 0)
        BY <1>1
    <2> QED BY <1>1, <2>1 DEF AssignedUpTo
<1>3. ASSUME NEW n \in 1 .. NSLOT, NEW x \in P[n - 1] PROVE Do(n, x) \in P[n]
    <2>1. n \in Slot /\ n - 1 \in 0 .. NSLOT /\ n \in 0 .. NSLOT
        BY <1>1
    <2>2. x \in AssignedUpTo(g, n - 1) /\ P[n] = AssignedUpTo(g, n)
        BY <1>3, <2>1
    <2>3. Do(n, x) = IF n \in J THEN SlotAssign(x, n, w) ELSE x
        OBVIOUS
    <2> HIDE DEF Do, P
    <2> QED BY <1>1, <2>1, <2>2, <2>3, AssignStep
<1> HIDE DEF P
<1>12. PICK v : IsFold(v, NSLOT, g, step)
    <2> HIDE DEF step
    <2> QED BY <1>1, FoldExists
<1>4. v = [n \in 0 .. NSLOT |-> IF n = 0 THEN g ELSE step[n][v[n - 1]]]
    <2> HIDE DEF step
    <2> QED BY <1>12 DEF IsFold
<1>5. \A n \in 0 .. NSLOT : v[n] \in P[n]
    <2>1. v[0] = g /\ \A n \in 1 .. NSLOT : v[n] = step[n][v[n - 1]]
        <3> HIDE DEF step
        <3> QED BY <1>1, <1>4
    <2>2. ASSUME NEW n \in 1 .. NSLOT, v[n - 1] \in P[n - 1] PROVE v[n] \in P[n]
        <3>1. step[n][v[n - 1]] = Do(n, v[n - 1])
            <4> HIDE DEF Do
            <4> QED BY <2>2
        <3> HIDE DEF step, Do
        <3> QED BY <1>3, <2>1, <2>2, <3>1
    <2> QED BY <1>1, <1>2, <2>1, <2>2, Climb
<1>6. v = [j \in 0 .. NSLOT |->
              IF j = 0 THEN g
              ELSE IF j \in J THEN SlotAssign(v[j - 1], j, w) ELSE v[j - 1]]
    <2>1. ASSUME NEW n \in 0 .. NSLOT, n # 0 PROVE step[n][v[n - 1]] = Do(n, v[n - 1])
        <3>1. n \in 1 .. NSLOT /\ n - 1 \in 0 .. NSLOT
            BY <1>1, <2>1
        <3>2. v[n - 1] \in P[n - 1]
            BY <1>5, <3>1
        <3> HIDE DEF Do
        <3> QED BY <3>1, <3>2
    <2> HIDE DEF step
    <2>2. [n \in 0 .. NSLOT |-> IF n = 0 THEN g ELSE step[n][v[n - 1]]]
          = [n \in 0 .. NSLOT |-> IF n = 0 THEN g ELSE Do(n, v[n - 1])]
        <3> HIDE DEF Do
        <3> QED BY <2>1
    <2> QED BY <1>4, <2>2, Zenon
<1>7. u = [j \in 0 .. NSLOT |->
              IF j = 0 THEN g
              ELSE IF j \in J THEN SlotAssign(u[j - 1], j, w) ELSE u[j - 1]]
    BY <1>6, Zenon
<1> HIDE DEF u
<1>8. u[0] = g /\ \A n \in 1 .. NSLOT : u[n] = Do(n, u[n - 1])
    BY <1>1, <1>7
<1>9. \A n \in 0 .. NSLOT : u[n] \in P[n]
    <2>1. ASSUME NEW n \in 1 .. NSLOT, u[n - 1] \in P[n - 1] PROVE u[n] \in P[n]
        <3> HIDE DEF Do
        <3> QED BY <1>3, <1>8, <2>1
    <2> QED BY <1>1, <1>2, <1>8, <2>1, Climb
<1>10. u[NSLOT] \in AssignedUpTo(g, NSLOT)
    BY <1>1, <1>9 DEF P
<1>11. AssignEach(g, J, w) = u[NSLOT]
    BY Zenon DEF AssignEach, ForSlots, u
<1> QED BY <1>10, <1>11 DEF AssignedUpTo

\* The request that has waited longest
Oldest(h) ==
    CHOOSE j \in Waiting(h) : \A k \in Waiting(h) : h.slots[j].id <= h.slots[k].id

LEMMA OldestWaits ==
    ASSUME NEW h \in Engine, Waiting(h) # {}
    PROVE  Oldest(h) \in Waiting(h)
<1> DEFINE I == {h.slots[j].id : j \in Waiting(h)}
<1>1. \A j \in Waiting(h) : h.slots[j].id \in Nat
    BY DEF Waiting, Engine, SlotRec
<1>2. I \subseteq Nat /\ I # {}
    BY <1>1
<1>3. Min(I) \in I /\ \A y \in I : Min(I) <= y
    BY <1>2, MinIn
<1>4. PICK j \in Waiting(h) : h.slots[j].id = Min(I)
    BY <1>3
<1>5. \A k \in Waiting(h) : h.slots[j].id <= h.slots[k].id
    BY <1>3, <1>4
<1> QED BY <1>5, Zenon DEF Oldest

\* One round of the loop
Round(p, w) ==
    IF p.stop \/ Waiting(p.g) = {} THEN p
    ELSE LET b == Oldest(p.g)
             q == SlotAssign(p.g, b, w)
         IN  IF q.slots[b].st = "wait"
             THEN [g |-> AssignEach(q, Waiting(q) \ {b}, w), stop |-> TRUE]
             ELSE [g |-> q, stop |-> FALSE]

Rounds == {p \in [g : Engine, stop : BOOLEAN] : Good(p.g)}

LEMMA RoundGood ==
    ASSUME NEW p \in Rounds, NEW w \in Findings
    PROVE  Round(p, w) \in Rounds
<1> DEFINE b == Oldest(p.g)
           q == SlotAssign(p.g, b, w)
           h == AssignEach(q, Waiting(q) \ {b}, w)
<1>1. p.g \in Engine /\ Good(p.g)
    BY DEF Rounds
<1>2. CASE p.stop \/ Waiting(p.g) = {}
    BY <1>2 DEF Round
<1>3. CASE ~(p.stop \/ Waiting(p.g) = {})
    <2>1. b \in Slot /\ p.g.slots[b].st = "wait"
        <3>1. b \in Waiting(p.g)
            BY <1>1, <1>3, OldestWaits
        <3> HIDE DEF b
        <3> QED BY <3>1 DEF Waiting
    <2>2. Good(q)
        <3> HIDE DEF b
        <3> QED BY <1>1, <2>1, SlotAssignGood DEF Assigned
    <2>3. Good(h)
        <3>1. Waiting(q) \ {b} \in SUBSET Waiting(q)
            OBVIOUS
        <3> HIDE DEF q, b
        <3> QED BY <2>2, <3>1, AssignLoop
    <2>4. Round(p, w) = [g |-> h, stop |-> TRUE] \/ Round(p, w) = [g |-> q, stop |-> FALSE]
        BY <1>3, Zenon DEF Round
    <2>5. h \in Engine /\ q \in Engine
        BY <2>2, <2>3, GoodParts
    <2> HIDE DEF h, q
    <2>6. [g |-> h, stop |-> TRUE] \in Rounds
        BY <2>3, <2>5 DEF Rounds
    <2>7. [g |-> q, stop |-> FALSE] \in Rounds
        BY <2>2, <2>5 DEF Rounds
    <2> QED BY <2>4, <2>6, <2>7, Zenon
<1> QED BY <1>2, <1>3

LEMMA AssignWaitingGood ==
    ASSUME NEW g, Good(g), NEW w \in Findings
    PROVE  Good(AssignWaiting(g, w))
<1> DEFINE P == [n \in 0 .. NSLOT |-> Rounds]
           z == [g |-> g, stop |-> FALSE]
           Do(n, p) == Round(p, w)
           step == [n \in 1 .. NSLOT |-> [x \in P[n - 1] |-> Do(n, x)]]
           u == CHOOSE a : a = [n \in 0 .. NSLOT |-> IF n = 0 THEN z ELSE Round(a[n - 1], w)]
<1>1. NSLOT \in Nat
    BY Constants
<1>2. z \in P[0]
    <2>1. z \in Rounds
        BY GoodParts DEF Rounds
    <2> QED BY <1>1, <2>1
<1>3. ASSUME NEW n \in 1 .. NSLOT, NEW x \in P[n - 1] PROVE Do(n, x) \in P[n]
    <2>1. n - 1 \in 0 .. NSLOT /\ n \in 0 .. NSLOT
        BY <1>1
    <2>2. x \in Rounds /\ P[n] = Rounds
        BY <1>3, <2>1
    <2> QED BY <2>2, RoundGood
<1> HIDE DEF P, z
<1>12. PICK v : IsFold(v, NSLOT, z, step)
    <2> HIDE DEF step
    <2> QED BY <1>1, FoldExists
<1>4. v = [n \in 0 .. NSLOT |-> IF n = 0 THEN z ELSE step[n][v[n - 1]]]
    <2> HIDE DEF step
    <2> QED BY <1>12 DEF IsFold
<1>5. \A n \in 0 .. NSLOT : v[n] \in P[n]
    <2>1. v[0] = z /\ \A n \in 1 .. NSLOT : v[n] = step[n][v[n - 1]]
        <3> HIDE DEF step
        <3> QED BY <1>1, <1>4
    <2>2. ASSUME NEW n \in 1 .. NSLOT, v[n - 1] \in P[n - 1] PROVE v[n] \in P[n]
        <3>1. step[n][v[n - 1]] = Do(n, v[n - 1])
            <4> HIDE DEF Do
            <4> QED BY <2>2
        <3> HIDE DEF step, Do
        <3> QED BY <1>3, <2>1, <2>2, <3>1
    <2> QED BY <1>1, <1>2, <2>1, <2>2, Climb
<1>6. v = [n \in 0 .. NSLOT |->
              IF n = 0 THEN z
              ELSE Round(v[n - 1], w)]
    <2>1. ASSUME NEW n \in 0 .. NSLOT, n # 0 PROVE step[n][v[n - 1]] = Do(n, v[n - 1])
        <3>1. n \in 1 .. NSLOT /\ n - 1 \in 0 .. NSLOT
            BY <1>1, <2>1
        <3>2. v[n - 1] \in P[n - 1]
            BY <1>5, <3>1
        <3> HIDE DEF Do
        <3> QED BY <3>1, <3>2
    <2> HIDE DEF step
    <2>2. [n \in 0 .. NSLOT |-> IF n = 0 THEN z ELSE step[n][v[n - 1]]]
          = [n \in 0 .. NSLOT |-> IF n = 0 THEN z ELSE Do(n, v[n - 1])]
        <3> HIDE DEF Do
        <3> QED BY <2>1
    <2> QED BY <1>4, <2>2, Zenon
<1>7. u = [n \in 0 .. NSLOT |->
              IF n = 0 THEN z
              ELSE Round(u[n - 1], w)]
    BY <1>6, Zenon
<1> HIDE DEF u
<1>8. u[0] = z /\ \A n \in 1 .. NSLOT : u[n] = Do(n, u[n - 1])
    BY <1>1, <1>7
<1>9. \A n \in 0 .. NSLOT : u[n] \in P[n]
    <2>1. ASSUME NEW n \in 1 .. NSLOT, u[n - 1] \in P[n - 1] PROVE u[n] \in P[n]
        <3> HIDE DEF Do
        <3> QED BY <1>3, <1>8, <2>1
    <2> QED BY <1>1, <1>2, <1>8, <2>1, Climb
<1>10. u[NSLOT] \in Rounds
    BY <1>1, <1>9 DEF P
<1>11. AssignWaiting(g, w) = u[NSLOT].g
    BY Zenon DEF AssignWaiting, AssignEach, u, z, Round, Oldest
<1> QED BY <1>10, <1>11 DEF Rounds

LEMMA PollStartsGood ==
    ASSUME FetchInv, PollStarts
    PROVE  Good(f')
BY AssignWaitingGood DEF FetchInv, PollStarts

-----------------------------------------------------------------------------
(* Calls of owners                                                         *)

LEMMA NoSlotOK ==
    /\ NoSlot \in SlotRec /\ SlotOK(NoSlot) /\ NoSlot.st = "free"
    /\ NoSlot.sends = 0 /\ NoSlot.tags = {} /\ NoSlot.len = 0
<1>1. NoSlot \in SlotRec
    BY Constants DEF NoSlot, SlotRec
<1> QED BY <1>1 DEF NoSlot, SlotOK

\* Slots that do not run may change as they like.
LEMMA SlotsChange ==
    ASSUME NEW g, Good(g), NEW h \in Engine, h.conns = g.conns,
           \A k \in Slot : SlotOK(h.slots[k]),
           \A k \in Slot : \/ h.slots[k] = g.slots[k]
                           \/ g.slots[k].st # "run" /\ h.slots[k].st # "run"
    PROVE  Good(h)
<1>1. /\ HostsOK(g) /\ \A l \in Conn : ConnOK(g.conns[l])
      /\ \A k \in Slot, l \in Conn : LinkOK(g.slots[k], k, g.conns[l], l)
    BY DEF Good
<1>2. ASSUME NEW k \in Slot, NEW l \in Conn PROVE LinkOK(h.slots[k], k, h.conns[l], l)
    <2>1. LinkOK(g.slots[k], k, g.conns[l], l)
        BY <1>1
    <2>2. CASE h.slots[k] = g.slots[k]
        BY <2>1, <2>2
    <2>3. CASE g.slots[k].st # "run" /\ h.slots[k].st # "run"
        <3>1. ~Carries(h.conns[l], k)
            BY <2>1, <2>3 DEF LinkOK
        <3> QED BY <2>3, <3>1, Apart
    <2> QED BY <2>2, <2>3
<1>3. HostsOK(h)
    BY <1>1 DEF HostsOK
<1> QED BY <1>1, <1>2, <1>3 DEF Good

\* The same for one slot
LEMMA SlotSet ==
    ASSUME NEW g, Good(g), NEW j \in Slot, g.slots[j].st # "run", NEW t \in SlotRec, SlotOK(t),
           t.st # "run"
    PROVE  LET h == [g EXCEPT !.slots[j] = t]
           IN  Good(h) /\ h.slots[j] = t
<1> DEFINE h == [g EXCEPT !.slots[j] = t]
<1>1. g \in Engine /\ g.slots \in [Slot -> SlotRec]
    BY GoodParts
<1>2. h.conns = g.conns /\ h.slots = [g.slots EXCEPT ![j] = t]
    BY <1>1, Zenon DEF Engine
<1>3. h \in Engine
    BY <1>1, <1>2, Zenon DEF Engine
<1> HIDE DEF h
<1>4. h.slots[j] = t /\ \A k \in Slot \ {j} : h.slots[k] = g.slots[k]
    BY <1>1, <1>2
<1>5. \A k \in Slot : SlotOK(h.slots[k])
    BY <1>4 DEF Good
<1>6. \A k \in Slot : \/ h.slots[k] = g.slots[k]
                      \/ g.slots[k].st # "run" /\ h.slots[k].st # "run"
    BY <1>4
<1>7. Good(h)
    BY <1>2, <1>3, <1>5, <1>6, SlotsChange
<1> QED BY <1>4, <1>7 DEF h

LEMMA PollEndsGood ==
    ASSUME FetchInv, PollEnds
    PROVE  Good(f')
<1> DEFINE S == [j \in Slot |->
                    IF f.slots[j].prefetch /\ f.slots[j].st \in {"done", "fail"}
                    THEN NoSlot ELSE f.slots[j]]
           h == [f EXCEPT !.slots = S]
<1>1. Good(f) /\ f \in Engine /\ f.slots \in [Slot -> SlotRec]
    BY GoodParts DEF FetchInv
<1>2. f' = h
    BY Zenon DEF PollEnds
<1>3. S \in [Slot -> SlotRec]
    BY <1>1, NoSlotOK
<1>4. ASSUME NEW k \in Slot
      PROVE  SlotOK(S[k]) /\ (\/ S[k] = f.slots[k]
                              \/ f.slots[k].st # "run" /\ S[k].st # "run")
    BY <1>1, NoSlotOK DEF Good
<1> HIDE DEF S
<1>5. h.conns = f.conns /\ h.slots = S /\ h \in Engine
    BY <1>1, <1>3, Zenon DEF Engine
<1> HIDE DEF h
<1>6. Good(h)
    BY <1>1, <1>4, <1>5, SlotsChange
<1> QED BY <1>2, <1>6

LEMMA LowestFree ==
    ASSUME FetchInv, FreeSlots # {}
    PROVE  Lowest(FreeSlots) \in Slot /\ f.slots[Lowest(FreeSlots)].st = "free"
<1>1. FreeSlots \subseteq Nat
    BY Pools DEF FreeSlots
<1>2. Lowest(FreeSlots) \in FreeSlots
    BY <1>1, LowestIn
<1> QED BY <1>2 DEF FreeSlots

LEMMA NewRequestGood ==
    ASSUME FetchInv, NEW url \in Url, NEW cacheable \in BOOLEAN, NEW prefetch \in BOOLEAN,
           NewRequest(url, cacheable, prefetch)
    PROVE  Good(f') /\ reqs' \in 0 .. MaxReq
<1> DEFINE j == Lowest(FreeSlots)
           n == reqs + 1
           s == [NoSlot EXCEPT !.st = "wait", !.id = n, !.url = url,
                               !.cacheable = cacheable, !.prefetch = prefetch,
                               !.owned = ~prefetch]
           e == [f EXCEPT !.slots[j] = s]
<1>1. PICK w \in Findings : /\ FreeSlots # {} /\ reqs < MaxReq /\ reqs' = reqs + 1
                           /\ f' = SlotAssign(e, j, w)
    BY Zenon DEF NewRequest
<1>2. Good(f) /\ n \in Nat /\ reqs' \in 0 .. MaxReq
    BY <1>1, Constants DEF FetchInv
<1>3. j \in Slot /\ f.slots[j].st = "free"
    BY <1>1, LowestFree
<1> HIDE DEF j, n
<1>4. (~prefetch) \in BOOLEAN
    BY Zenon
<1>5. /\ s \in SlotRec /\ s.st = "wait" /\ s.url = url /\ s.tags = NoSlot.tags
      /\ s.sends = NoSlot.sends /\ s.owned = ~prefetch /\ s.prefetch = prefetch
    BY <1>2, <1>4, NoSlotOK, ZenonT(40) DEF SlotRec
<1> HIDE DEF s
<1>6. SlotOK(s)
    <2>1. s.owned => ~s.prefetch
        BY <1>5, Zenon
    <2>2. Spent(s) \in 0 .. 1 /\ s.sends = 0 /\ s.tags = {} /\ s.st = "wait" /\ s.url \in Url
        BY <1>5, NoSlotOK DEF Spent
    <2> QED BY <2>1, <2>2 DEF SlotOK
<1>7. Good(e) /\ e.slots[j] = s
    BY <1>2, <1>3, <1>5, <1>6, SlotSet
<1> HIDE DEF e
<1>8. Assigned(e, SlotAssign(e, j, w), j)
    BY <1>3, <1>5, <1>7, SlotAssignGood
<1> QED BY <1>1, <1>2, <1>8 DEF Assigned

LEMMA AdoptGood ==
    ASSUME FetchInv, NEW url \in Url, Adopt(url)
    PROVE  Good(f')
<1> DEFINE j == Lowest(Speculative(url))
           s == f.slots[j]
           t == [s EXCEPT !.prefetch = FALSE, !.owned = TRUE]
           h == [f EXCEPT !.slots[j].prefetch = FALSE, !.slots[j].owned = TRUE]
<1>1. Speculative(url) # {} /\ f' = h
    BY Zenon DEF Adopt
<1>2. Good(f) /\ f \in Engine /\ f.slots \in [Slot -> SlotRec]
    BY GoodParts DEF FetchInv
<1>3. j \in Slot
    <2>1. Speculative(url) \subseteq Slot /\ Slot \subseteq Nat
        BY Pools DEF Speculative
    <2>2. j \in Speculative(url)
        BY <1>1, <2>1, LowestIn
    <2> QED BY <2>1, <2>2
<1> HIDE DEF j
<1>4. s \in SlotRec /\ SlotOK(s)
    BY <1>2, <1>3 DEF Good
<1>5. /\ t \in SlotRec /\ SameLinks(s, t) /\ t.tags = s.tags /\ t.owned /\ ~t.prefetch
    BY <1>4, Zenon DEF SlotRec, SameLinks
<1>6. h.slots = [f.slots EXCEPT ![j] = t] /\ h.conns = f.conns
    BY <1>2, Zenon DEF Engine
<1>7. h \in Engine
    BY <1>2, <1>3, <1>5, <1>6, Zenon DEF Engine
<1> HIDE DEF h, t
<1>8. SlotOK(t)
    BY <1>4, <1>5 DEF SlotOK, SameLinks, InOrder, Tag, Spent
<1>9. Good(h)
    BY <1>2, <1>3, <1>5, <1>6, <1>7, <1>8, SlotSame
<1> QED BY <1>1, <1>9

LEMMA HitGood ==
    ASSUME FetchInv, NEW url \in Url, Hit(url)
    PROVE  Good(f')
<1> DEFINE j == Lowest(FreeSlots)
<1>1. FreeSlots # {}
    BY DEF Hit
<1>2. PICK x \in f.cache :
          /\ x.req.url = url
          /\ f' = [f EXCEPT !.slots[j] =
                      [NoSlot EXCEPT !.st = "done", !.id = x.req.id, !.url = url,
                                     !.tags = x.tags, !.len = 1, !.reused = TRUE,
                                     !.owned = TRUE]]
    BY Zenon DEF Hit
<1>3. /\ Good(f) /\ x.req \in Request /\ x.tags \in SUBSET Heard
      /\ \A t \in x.tags : InOrder(x.req, t)
    BY GoodParts DEF FetchInv, Cached
<1>4. j \in Slot /\ f.slots[j].st = "free"
    BY <1>1, LowestFree
<1> HIDE DEF j
<1> DEFINE s == [NoSlot EXCEPT !.st = "done", !.id = x.req.id, !.url = url, !.tags = x.tags,
                               !.len = 1, !.reused = TRUE, !.owned = TRUE]
           e == [f EXCEPT !.slots[j] = s]
<1>5. x.req.id \in Nat /\ 1 \in 0 .. RESPMAX
    BY <1>3, Constants DEF Request
<1>6. /\ s \in SlotRec /\ s.st = "done" /\ s.url = url /\ s.tags = x.tags /\ s.id = x.req.id
      /\ s.sends = NoSlot.sends /\ s.prefetch = NoSlot.prefetch
    BY <1>3, <1>5, NoSlotOK, Zenon DEF SlotRec
<1>7. f' = e
    BY <1>2, Zenon
<1> HIDE DEF s
<1>8. \A t \in s.tags : InOrder(s, t)
    BY <1>2, <1>3, <1>6 DEF InOrder, Tag
<1>9. NoSlot.prefetch = FALSE
    BY DEF NoSlot
<1>10. SlotOK(s)
    BY <1>6, <1>8, <1>9, NoSlotOK DEF SlotOK
<1>11. Good(e)
    BY <1>3, <1>4, <1>6, <1>10, SlotSet
<1> QED BY <1>7, <1>11, Zenon

LEMMA CloseIdleGood ==
    ASSUME FetchInv, CloseIdle
    PROVE  Good(f')
<1> DEFINE S == {i \in Conn : Unused(f.conns[i])}
<1>1. Good(f) /\ f' = CloseAll(f, S)
    BY Zenon DEF FetchInv, CloseIdle
<1>2. S \in SUBSET Conn /\ \A i \in S : Unused(f.conns[i])
    OBVIOUS
<1> HIDE DEF S
<1>3. \A i \in S : \A k : ~Carries(f.conns[i], k)
    BY <1>1, <1>2, Carefree
<1> QED BY <1>1, <1>2, <1>3, CloseAllGood

LEMMA ForgetGood ==
    ASSUME FetchInv, Forget
    PROVE  Good(f')
<1> DEFINE h == [f EXCEPT !.cache = {}]
<1>1. Good(f) /\ f \in Engine /\ f' = h
    BY GoodParts DEF FetchInv, Forget
<1>2. h.slots = f.slots /\ h.conns = f.conns
    BY <1>1, Zenon DEF Engine
<1>3. {} \in SUBSET Cached
    OBVIOUS
<1>4. h \in Engine
    BY <1>1, <1>3, Zenon DEF Engine
<1> HIDE DEF h
<1>5. \A k \in Slot : SlotOK(h.slots[k])
    BY <1>1, <1>2 DEF Good
<1>6. Good(h)
    BY <1>1, <1>2, <1>4, <1>5, SlotsChange
<1> QED BY <1>1, <1>6

\* fetch_end takes a running request off its connection.
LEMMA EndGood ==
    ASSUME FetchInv, NEW j \in Slot, End(j)
    PROVE  Good(f')
<1> DEFINE s == f.slots[j]
           i == s.conn
           c == f.conns[i]
<1>1. Good(f) /\ f \in Engine /\ f.slots \in [Slot -> SlotRec] /\ f.conns \in [Conn -> ConnRec]
    BY GoodParts DEF FetchInv
<1>2. s \in SlotRec /\ SlotOK(s) /\ (s.st = "run" => i \in Conn /\ i # 0)
    BY <1>1, Pools DEF Good, SlotOK
<1>3. CASE s.st # "run"
    <2> DEFINE h == [f EXCEPT !.slots[j] = NoSlot]
    <2>1. f' = h
        BY <1>3, Zenon DEF End
    <2>2. NoSlot \in SlotRec /\ SlotOK(NoSlot) /\ NoSlot.st # "run"
        BY NoSlotOK
    <2>3. Good(h)
        BY <1>1, <1>3, <2>2, SlotSet
    <2> QED BY <2>1, <2>3, Zenon
<1>4. CASE s.st = "run" /\ c.st # "h2"
    <2> DEFINE b == ConnClose(f, i)
               h == [b EXCEPT !.slots[j] = NoSlot]
    <2>1. f' = h
        BY <1>2, <1>4, Zenon DEF End
    <2>2. LinkOK(s, j, c, i) /\ ConnOK(c) /\ i \in Conn
        BY <1>1, <1>2, <1>4 DEF Good
    <2>3. c.st \in Direct /\ c.slot = j
        BY <1>4, <2>2 DEF LinkOK, Carries, ConnOK
    <2> HIDE DEF i, c
    <2>4. b.slots = f.slots /\ b.conns = [f.conns EXCEPT ![i] = NoConn]
        BY <1>1, Zenon DEF Engine, ConnClose
    <2>5. b \in Engine
        BY <1>1, <2>2, <2>4, NoConnOK, Zenon DEF Engine, ConnClose
    <2> HIDE DEF b
    <2>6. h.slots = [b.slots EXCEPT ![j] = NoSlot] /\ h.conns = b.conns
        BY <2>5, Zenon DEF Engine
    <2>7. h \in Engine
        BY <2>5, <2>6, NoSlotOK, Zenon DEF Engine
    <2> HIDE DEF h
    <2>8. SlotOK(NoSlot) /\ NoSlot.st # "run" /\ ConnOK(NoConn) /\ NoConn.org = "none"
          /\ \A k : ~Carries(NoConn, k)
        BY NoSlotOK, NoConnOK
    <2>9. f.conns[i].st \in Direct /\ f.conns[i].slot = j
        BY <2>3 DEF c
    <2>10. h.slots = [f.slots EXCEPT ![f.conns[i].slot] = NoSlot]
           /\ h.conns = [f.conns EXCEPT ![i] = NoConn]
        BY <2>4, <2>6, <2>9, Zenon
    <2>11. Good(h)
        BY <1>1, <2>2, <2>7, <2>8, <2>9, <2>10, Parts
    <2> QED BY <2>1, <2>11, Zenon
<1>5. CASE s.st = "run" /\ c.st = "h2"
    <2> DEFINE S == {r \in c.strs : r.sid # s.sid}
               d == [c EXCEPT !.strs = S]
               b == H2Cancel(f, i, s.sid)
               h == [b EXCEPT !.slots[j] = NoSlot]
    <2>1. f' = h
        BY <1>2, <1>5, Zenon DEF End
    <2>2. LinkOK(s, j, c, i) /\ ConnOK(c) /\ i \in Conn /\ c \in ConnRec
        BY <1>1, <1>2, <1>5 DEF Good
    <2>3. PICK r \in c.strs : r.user = j
        BY <1>5, <2>2 DEF LinkOK, Carries, Direct
    <2>4. r.sid = s.sid /\ \A t \in c.strs : t.sid = s.sid => t = r
        <3>1. r.sid = s.sid
            BY <2>2, <2>3 DEF LinkOK
        <3>2. \A t \in c.strs : r.sid = t.sid => r = t
            BY <2>2, <2>3 DEF ConnOK
        <3> QED BY <3>1, <3>2
    <2>5. S \in SUBSET [sid : Nat, user : Slot, head : BOOLEAN] /\ S \subseteq c.strs
        BY <2>2 DEF ConnRec
    <2>6. c.strs \ S = {r}
        BY <2>4
    <2> HIDE DEF S
    <2>7. /\ d \in ConnRec /\ d.st = "h2" /\ d.org = c.org /\ d.strs = S /\ d.asked = c.asked
          /\ d.next = c.next /\ d.shaking = c.shaking /\ d.wire = c.wire
        BY <1>5, <2>2, <2>5, Zenon DEF ConnRec
    <2>8. b.slots = f.slots /\ b.conns = [f.conns EXCEPT ![i] = d]
        BY <1>1, Zenon DEF Engine, H2Cancel, S
    <2>9. b \in Engine
        BY <1>1, <2>2, <2>7, <2>8, Zenon DEF Engine, H2Cancel, S
    <2> HIDE DEF b, d, i, c
    <2>10. h.slots = [b.slots EXCEPT ![j] = NoSlot] /\ h.conns = b.conns
        BY <2>9, Zenon DEF Engine
    <2>11. h \in Engine
        BY <2>9, <2>10, NoSlotOK, Zenon DEF Engine
    <2> HIDE DEF h
    <2>12. h.slots[j] = NoSlot /\ \A k \in Slot \ {j} : h.slots[k] = f.slots[k]
        BY <1>1, <2>8, <2>10
    <2>13. \A k \in Slot : SlotOK(h.slots[k])
        BY <1>1, <2>12, NoSlotOK DEF Good
    <2>14. c = f.conns[i]
        BY DEF c
    <2>15. ConnOK(d) /\ d.st \notin Direct
        BY <1>5, <2>2, <2>5, <2>7, FewerStreams
    <2>16. \A k \in Slot : IF \E x \in f.conns[i].strs \ d.strs : x.user = k
                           THEN h.slots[k].st # "run" ELSE h.slots[k] = f.slots[k]
        BY <2>3, <2>6, <2>7, <2>12, <2>14, NoSlotOK
    <2>17. h.conns = [f.conns EXCEPT ![i] = d]
        BY <2>8, <2>10, Zenon
    <2>18. Good(h)
        BY <1>1, <1>5, <2>2, <2>5, <2>7, <2>11, <2>13, <2>14, <2>15, <2>16, <2>17, Dropped
    <2> QED BY <2>1, <2>18, Zenon
<1> QED BY <1>3, <1>4, <1>5

-----------------------------------------------------------------------------
(* Handles                                                                 *)

LEMMA SentKeeps ==
    ASSUME NEW g \in Engine, NEW j \in Slot, NEW i
    PROVE  Kept(g, Sent(g, j, i))
<1> DEFINE s == g.slots[j]
           t == [s EXCEPT !.sends = @ + 1]
           h == Sent(g, j, i)
<1>1. g.slots \in [Slot -> SlotRec] /\ s \in SlotRec
    BY DEF Engine
<1>2. h.slots = [g.slots EXCEPT ![j] = t]
    BY Zenon DEF Sent, Engine
<1>3. t.owned = s.owned
    BY <1>1, Zenon DEF SlotRec
<1> HIDE DEF h, t
<1>4. Kept(g, h)
    BY <1>1, <1>2, <1>3, KeptOne
<1> QED BY <1>4 DEF h

\* A turn of a connection takes no handle from its owner.
LEMMA StepKeeps ==
    ASSUME FetchInv, NEW i \in Conn, Step(i)
    PROVE  Kept(f, f')
<1> DEFINE c == f.conns[i]
           j == c.slot
           e == [f EXCEPT !.conns[i].st = "run"]
           z == [f EXCEPT !.conns[i].shaking = FALSE, !.conns[i].offer = FALSE]
<1>1. Good(f) /\ f \in Engine /\ c \in ConnRec
    BY GoodParts DEF FetchInv
<1>2. c.st \in Direct => j \in Slot /\ f.slots[j].url \in Url
    <2> SUFFICES ASSUME c.st \in Direct PROVE j \in Slot /\ f.slots[j].url \in Url
        OBVIOUS
    <2>1. j \in Slot /\ SlotOK(f.slots[j]) /\ f.slots[j].st = "run"
        BY <1>1, DirectFacts
    <2> QED BY <2>1 DEF SlotOK
<1>3. ASSUME f'.slots = f.slots PROVE Kept(f, f')
    BY <1>3 DEF Kept
<1>4. CASE Skips(i) \/ Waits(i) \/ H2Waits(i)
    BY <1>3, <1>4 DEF Skips, Waits, H2Waits, Ends
<1>5. CASE Resolves(i) \/ IdleEnds(i) \/ H2Idles(i) \/ \E m \in 0 .. STREAMS : H2Settings(i, m)
    <2>1. f'.slots = f.slots
        BY <1>1, <1>5, Zenon DEF Resolves, IdleEnds, H2Idles, H2Settings, Ends, GoesOn, ConnClose, Engine
    <2> QED BY <1>3, <2>1
<1>6. CASE Connects(i)
    <2>1. c.st \in Direct /\ (f'.slots = f.slots \/ f' = Sent(e, j, i))
        BY <1>1, <1>6, Zenon DEF Connects, Turn, Ends, Engine, Direct
    <2>2. e.slots = f.slots
        BY <1>1, Zenon DEF Engine
    <2>3. e \in Engine
        <3>1. [c EXCEPT !.st = "run"] \in ConnRec
            BY <1>1, Zenon DEF ConnRec
        <3>2. e.conns = [f.conns EXCEPT ![i] = [c EXCEPT !.st = "run"]]
            BY <1>1, Zenon DEF Engine
        <3> QED BY <1>1, <3>1, <3>2, Zenon DEF Engine
    <2> HIDE DEF e
    <2>4. Kept(e, Sent(e, j, i))
        BY <1>2, <2>1, <2>3, SentKeeps
    <2> QED BY <1>3, <2>1, <2>2, <2>4 DEF Kept
<1>7. CASE \/ Fails(i) \/ MeetsEof(i)
           \/ \E keep \in BOOLEAN, rest \in SUBSET c.wire : Completes(i, keep, rest)
    BY <1>7, DirectGood
<1>10. CASE Receives(i)
    <2>1. PICK x \in c.wire :
              /\ c.st \in Direct
              /\ f' = [f EXCEPT !.slots[j].tags = @ \cup {x}, !.slots[j].len = @ + 1]
        BY <1>10, Zenon DEF Receives, Answering, Turn, GoesOn, Direct
    <2> DEFINE s == f.slots[j]
               t == [s EXCEPT !.tags = @ \cup {x}, !.len = @ + 1]
    <2>2. f'.slots = [f.slots EXCEPT ![j] = t]
        BY <1>1, <2>1, Zenon DEF Engine
    <2>3. f.slots \in [Slot -> SlotRec] /\ s \in SlotRec
        BY <1>1, <1>2, <2>1 DEF Engine
    <2>4. t.owned = s.owned
        BY <2>3, Zenon DEF SlotRec
    <2>5. j \in Slot
        BY <1>2, <2>1
    <2> HIDE DEF t, j
    <2> QED BY <2>2, <2>3, <2>4, <2>5 DEF Kept
<1>11. CASE Negotiates(i, FALSE)
    <2> DEFINE b == IF c.offer THEN [z EXCEPT !.origins[c.org] = 2] ELSE z
               t == [f.slots[j] EXCEPT !.sends = @ + 1]
    <2>1. c.st \in Direct /\ f' = Sent(b, j, i)
        BY <1>11, Zenon DEF Negotiates, Turn, GoesOn, Direct
    <2>2. f'.slots = [f.slots EXCEPT ![j] = t]
        BY <1>1, <2>1, Zenon DEF Sent, Engine
    <2>3. f.slots \in [Slot -> SlotRec] /\ f.slots[j] \in SlotRec
        BY <1>1, <1>2, <2>1 DEF Engine
    <2>4. t.owned = f.slots[j].owned
        BY <2>3, Zenon DEF SlotRec
    <2> HIDE DEF t
    <2> QED BY <1>2, <2>1, <2>2, <2>3, <2>4, KeptOne
<1>12. CASE Negotiates(i, TRUE)
    <2> DEFINE b == [f EXCEPT !.origins[c.org] = 1,
                              !.conns[i] = [@ EXCEPT !.st = "h2", !.slot = 0, !.shaking = FALSE,
                                                     !.offer = FALSE]]
    <2>1. c.st \in Direct /\ f' = H2Open(b, j, i)
        BY <1>12, Zenon DEF Negotiates, Turn, Ends, H2Attach, Direct
    <2>2. b.slots = f.slots
        BY <1>1, Zenon DEF Engine
    <2>3. \E n : f'.slots = [f.slots EXCEPT ![j] = Opened(f.slots[j], i, n)]
        BY <1>1, <2>1, Zenon DEF H2Open, Opened, Engine
    <2>4. PICK n : f'.slots = [f.slots EXCEPT ![j] = Opened(f.slots[j], i, n)]
        BY <2>3
    <2>5. f.slots \in [Slot -> SlotRec] /\ f.slots[j] \in SlotRec
        BY <1>1, <1>2, <2>1 DEF Engine
    <2>6. Opened(f.slots[j], i, n).owned = f.slots[j].owned
        BY <2>5, Zenon DEF SlotRec, Opened
    <2> QED BY <1>2, <2>1, <2>4, <2>5, <2>6, KeptOne, SMTT(30)
<1>13. CASE \E q \in f.conns[i].asked : H2Piece(i, q)
    <2>1. PICK q \in f.conns[i].asked : H2Piece(i, q)
        BY <1>13
    <2>2. CASE GoesOn(f)
        BY <1>3, <2>2 DEF GoesOn
    <2>3. ASSUME NEW r \in Streams(i, q),
                 GoesOn([f EXCEPT !.conns[i] = HeadSeen(f.conns[i], r),
                                  !.slots[r.user] = OnData(f.slots[r.user], q.req)])
          PROVE  Kept(f, f')
        <3>1. f'.slots = [f.slots EXCEPT ![r.user] = OnData(f.slots[r.user], q.req)]
            BY <1>1, <2>3, Zenon DEF GoesOn, Engine
        <3>2. r \in c.strs
            BY DEF Streams
        <3>3. r.user \in Slot /\ f.slots[r.user] \in SlotRec
            BY <1>1, <3>2, StreamFacts
        <3>4. OnData(f.slots[r.user], q.req).owned = f.slots[r.user].owned
            BY <3>3, Zenon DEF OnData, SlotRec
        <3>5. f.slots \in [Slot -> SlotRec]
            BY <1>1 DEF Engine
        <3> QED BY <3>1, <3>3, <3>4, <3>5, KeptOne
    <2> QED BY <2>1, <2>2, <2>3 DEF H2Piece
<1>14. CASE \E q \in f.conns[i].asked, how \in {"ok", "reset", "refused"} : H2Ends(i, q, how)
    BY <1>14, H2EndsGood
<1>15. CASE \E last \in 0 .. f.conns[i].next : H2GoAway(i, last)
    BY <1>15, H2GoAwayGood
<1>16. CASE H2Breaks(i)
    BY <1>16, H2BreaksGood
<1>17. CASE \E h2 \in BOOLEAN : Negotiates(i, h2)
    BY <1>11, <1>12, <1>17
<1> QED BY <1>4, <1>5, <1>6, <1>7, <1>10, <1>13, <1>14, <1>15, <1>16, <1>17
        DEF Step, H2Event

-----------------------------------------------------------------------------
(* The theorems                                                            *)

LEMMA InitGood ==
    ASSUME Init
    PROVE  FetchInv
<1> DEFINE C == [i \in Conn |-> NoConn]
           S == [j \in Slot |-> NoSlot]
<1>1. f = [conns |-> C, slots |-> S, origins |-> [o \in Origin |-> 0], cache |-> {}]
      /\ at = 0 /\ reqs = 0
    BY Zenon DEF Init
<1>2. C \in [Conn -> ConnRec] /\ S \in [Slot -> SlotRec]
    BY NoConnOK, NoSlotOK
<1>3. (\A i \in Conn : C[i] = NoConn) /\ \A j \in Slot : S[j] = NoSlot
    OBVIOUS
<1> HIDE DEF C, S
<1>4. f.conns = C /\ f.slots = S /\ f \in Engine
    BY <1>1, <1>2 DEF Engine
<1>5. ASSUME NEW k \in Slot, NEW i \in Conn PROVE LinkOK(f.slots[k], k, f.conns[i], i)
    BY <1>3, <1>4, NoConnOK, NoSlotOK, Apart
<1>6. HostsOK(f)
    <2> SUFFICES ASSUME NEW o \in Origin
                 PROVE  Cardinality({i \in Conn : f.conns[i].org = o}) <= PERHOST
        BY DEF HostsOK
    <2>1. {i \in Conn : f.conns[i].org = o} = {}
        BY <1>3, <1>4, NoConnOK, Constants
    <2>2. Cardinality({}) = 0
        BY FS_EmptySet
    <2> QED BY <2>1, <2>2, Constants
<1>7. Good(f)
    BY <1>3, <1>4, <1>5, <1>6, NoConnOK, NoSlotOK DEF Good
<1> QED BY <1>1, <1>7, Constants DEF FetchInv

\* One connection's turn
LEMMA StepGood ==
    ASSUME FetchInv, NEW i \in Conn, Step(i)
    PROVE  FetchInv'
<1>1. Good(f')
    <2>1. CASE Skips(i) \/ Waits(i) \/ H2Waits(i)
        BY <2>1 DEF Skips, Waits, H2Waits, Ends, FetchInv
    <2>2. CASE Resolves(i)
        BY <2>2, ResolvesGood
    <2>3. CASE Connects(i)
        BY <2>3, ConnectsGood
    <2>4. CASE \/ Fails(i) \/ MeetsEof(i)
               \/ \E keep \in BOOLEAN, rest \in SUBSET f.conns[i].wire :
                     Completes(i, keep, rest)
        BY <2>4, DirectGood
    <2>5. CASE \E h2 \in BOOLEAN : Negotiates(i, h2)
        BY <2>5, NegotiatesGood, H2AttachGood
    <2>6. CASE Receives(i)
        BY <2>6, ReceivesGood
    <2>7. CASE IdleEnds(i) \/ H2Idles(i)
        BY <2>7, IdleGood
    <2>8. CASE \E q \in f.conns[i].asked : H2Piece(i, q)
        BY <2>8, H2PieceGood
    <2>9. CASE \E q \in f.conns[i].asked, how \in {"ok", "reset", "refused"} :
                  H2Ends(i, q, how)
        BY <2>9, H2EndsGood
    <2>10. CASE \E last \in 0 .. f.conns[i].next : H2GoAway(i, last)
        BY <2>10, H2GoAwayGood
    <2>11. CASE \E m \in 0 .. STREAMS : H2Settings(i, m)
        BY <2>11, H2SettingsGood
    <2>12. CASE H2Breaks(i)
        BY <2>12, H2BreaksGood
    <2> QED BY <2>1, <2>2, <2>3, <2>4, <2>5, <2>6, <2>7, <2>8, <2>9, <2>10, <2>11, <2>12
            DEF Step, H2Event
<1>2. at = i /\ (at' = at + 1 \/ at' = at) /\ reqs' = reqs
    BY DEF Step, H2Event, Skips, Waits, Resolves, Connects, Fails, FailsToConnect,
           FailsRunning, Negotiates, Receives,
           MeetsEof, IdleEnds, Completes, H2Piece, H2Ends, H2GoAway, H2Settings, H2Breaks,
           H2Idles, H2Waits, Answering, Turn, Ends, GoesOn
<1>3. at' \in 0 .. NCONN + 1
    BY <1>2, Constants DEF Conn
<1> QED BY <1>1, <1>2, <1>3 DEF FetchInv

LEMMA CallGood ==
    ASSUME FetchInv, Call
    PROVE  FetchInv'
<1>1. CASE \E u \in Url, k \in BOOLEAN : Begin(u, k)
    <2>1. PICK u \in Url, k \in BOOLEAN : Begin(u, k)
        BY <1>1
    <2>2. NewRequest(u, k, FALSE)
        BY <2>1 DEF Begin
    <2>3. Good(f') /\ reqs' \in 0 .. MaxReq
        BY <2>2, NewRequestGood
    <2>4. at' = at
        BY <2>2 DEF NewRequest
    <2> QED BY <2>3, <2>4 DEF FetchInv
<1>2. CASE \E u \in Url : Prefetch(u)
    <2>1. PICK u \in Url : Prefetch(u)
        BY <1>2
    <2>2. NewRequest(u, TRUE, TRUE)
        BY <2>1 DEF Prefetch
    <2>3. Good(f') /\ reqs' \in 0 .. MaxReq
        BY <2>2, NewRequestGood
    <2>4. at' = at
        BY <2>2 DEF NewRequest
    <2> QED BY <2>3, <2>4 DEF FetchInv
<1>3. CASE \E u \in Url : Adopt(u)
    <2>1. Good(f')
        BY <1>3, AdoptGood
    <2>2. at' = at /\ reqs' = reqs
        BY <1>3 DEF Adopt
    <2> QED BY <2>1, <2>2 DEF FetchInv
<1>4. CASE \E u \in Url : Hit(u)
    <2>1. Good(f')
        BY <1>4, HitGood
    <2>2. at' = at /\ reqs' = reqs
        BY <1>4 DEF Hit
    <2> QED BY <2>1, <2>2 DEF FetchInv
<1>5. CASE \E j \in Slot : End(j)
    <2>1. Good(f')
        BY <1>5, EndGood
    <2>2. at' = at /\ reqs' = reqs
        BY <1>5 DEF End
    <2> QED BY <2>1, <2>2 DEF FetchInv
<1>6. CASE CloseIdle \/ Forget
    <2>1. Good(f')
        BY <1>6, CloseIdleGood, ForgetGood
    <2>2. at' = at /\ reqs' = reqs
        BY <1>6 DEF CloseIdle, Forget
    <2> QED BY <2>1, <2>2 DEF FetchInv
<1> QED BY <1>1, <1>2, <1>3, <1>4, <1>5, <1>6 DEF Call

\* Bytes nobody asked for are in order for every request of their origin.
LEMMA StraysGood ==
    ASSUME FetchInv, NEW i \in Conn, Strays(i)
    PROVE  FetchInv'
<1> DEFINE c == f.conns[i]
           w == c.wire \cup {Unasked(c.org)}
           d == [c EXCEPT !.wire = w]
<1>1. f \in Engine /\ f.conns \in [Conn -> ConnRec] /\ Good(f) /\ HostsOK(f)
    BY GoodParts DEF FetchInv
<1>2. c \in ConnRec /\ ConnOK(c)
    BY <1>1 DEF Good
<1>3. /\ c.org \in Sloppy /\ at' = at /\ reqs' = reqs
      /\ f' = [f EXCEPT !.conns[i].wire = @ \cup {Unasked(c.org)}]
    BY Zenon DEF Strays
<1>4. Unasked(c.org).url[1] = c.org /\ Unasked(c.org) \in Heard
    BY <1>3 DEF Unasked, Heard
<1>5. w \in SUBSET Heard /\ \A t \in w : t.url[1] = c.org
    BY <1>2, <1>4 DEF ConnRec, ConnOK
<1> HIDE DEF w
<1>6. /\ d \in ConnRec /\ d.st = c.st /\ d.slot = c.slot /\ d.org = c.org /\ d.wire = w
      /\ d.strs = c.strs /\ d.asked = c.asked /\ d.next = c.next /\ d.shaking = c.shaking
    BY <1>2, <1>5, Zenon DEF ConnRec
<1>7. f'.slots = f.slots /\ f'.conns = [f.conns EXCEPT ![i] = d]
    BY <1>1, <1>3, Zenon DEF Engine, w
<1>8. f' \in Engine
    BY <1>1, <1>3, <1>6, <1>7, Zenon DEF Engine
<1> HIDE DEF d
<1>9. ConnOK(d)
    BY <1>2, <1>3, <1>5, <1>6 DEF ConnOK
<1>10. ASSUME NEW k \in Slot PROVE LinkOK(f.slots[k], k, d, i)
    <2> DEFINE s == f.slots[k]
    <2>1. LinkOK(s, k, c, i)
        BY <1>1 DEF Good
    <2>2. c.st \in Direct /\ c.slot = k => \A t \in w : InOrder(s, t)
        BY <1>3, <1>5, <2>1 DEF LinkOK, InOrder
    <2>3. Carries(d, k) <=> Carries(c, k)
        BY <1>6 DEF Carries
    <2>4. Unsent(d) <=> Unsent(c)
        BY <1>6 DEF Unsent
    <2> HIDE DEF s, c
    <2>5. s.st = "run" /\ s.conn = i <=> Carries(d, k)
        BY <2>1, <2>3 DEF LinkOK
    <2>6. d.st \in Direct /\ d.slot = k =>
              /\ d.org = s.url[1] /\ \A t \in d.wire : InOrder(s, t)
              /\ s.sends <= Spent(s) + (IF Unsent(d) THEN 0 ELSE 1)
        BY <1>6, <2>1, <2>2, <2>4 DEF LinkOK
    <2>7. \A r \in d.strs : r.user = k =>
              /\ r.sid = s.sid /\ s.sends <= Spent(s) + 1
              /\ \A q \in d.asked : q.sid = r.sid => q.req = Tag(s)
        BY <1>6, <2>1 DEF LinkOK
    <2>8. LinkOK(s, k, d, i)
        BY <2>5, <2>6, <2>7 DEF LinkOK
    <2> QED BY <2>8 DEF s
<1>11. HostsOK(f')
    <2>1. \A l \in Conn : f'.conns[l].org = f.conns[l].org \/ f'.conns[l].org = "none"
        BY <1>1, <1>6, <1>7
    <2> QED BY <1>1, <2>1, HostsShrink
<1>12. Good(f')
    BY <1>1, <1>7, <1>8, <1>9, <1>10, <1>11, OneConn
<1> QED BY <1>3, <1>12 DEF FetchInv

\* Whatever servers, clocks and owners do, the engine stays good: every slot and
\* every connection by itself, and the two sides of every link.
THEOREM FetchInvariance == Spec => []FetchInv
<1>1. Init => FetchInv
    BY InitGood
<1>2. FetchInv /\ [Next]_vars => FetchInv'
    <2> SUFFICES ASSUME FetchInv, [Next]_vars
                 PROVE  FetchInv'
        OBVIOUS
    <2>1. CASE PollStarts
        <3>1. Good(f')
            BY <2>1, PollStartsGood
        <3>2. at' = 1 /\ reqs' = reqs
            BY <2>1 DEF PollStarts
        <3> QED BY <3>1, <3>2, Constants DEF FetchInv
    <2>2. CASE PollEnds
        <3>1. Good(f')
            BY <2>2, PollEndsGood
        <3>2. at' = 0 /\ reqs' = reqs
            BY <2>2 DEF PollEnds
        <3> QED BY <3>1, <3>2, Constants DEF FetchInv
    <2>3. CASE Call
        BY <2>3, CallGood
    <2>4. CASE \E i \in Conn : Step(i)
        BY <2>4, StepGood
    <2>5. CASE \E i \in Conn : Strays(i)
        BY <2>5, StraysGood
    <2>6. CASE UNCHANGED vars
        BY <2>6 DEF FetchInv, vars
    <2> QED BY <2>1, <2>2, <2>3, <2>4, <2>5, <2>6 DEF Next
<1> QED BY <1>1, <1>2, PTL DEF Spec

\* No byte of an earlier user of a slot, a connection or a stream number gets
\* into a response of an origin that sends only what it is asked for, nor a byte
\* of one origin into a response of another.
THEOREM AnswersAreOwn == Spec => []OwnAnswer
<1>1. FetchInv => OwnAnswer
    BY DEF FetchInv, Good, SlotOK, OwnAnswer
<1> QED BY <1>1, FetchInvariance, PTL

\* A request goes out at most twice, through whatever chain of stale
\* connections, lost sessions and refused streams.
THEOREM SendsAreFew == Spec => []SentTwiceAtMost
<1>1. FetchInv => SentTwiceAtMost
    BY DEF FetchInv, Good, SlotOK, SentTwiceAtMost
<1> QED BY <1>1, FetchInvariance, PTL

\* A running request has one connection, which will report to it; a connection
\* or stream reports only to a slot that waits for it; the pools keep their
\* limits.
THEOREM LinksHold == Spec => []LinksAgree
<1>1. FetchInv => LinksAgree
    <2> SUFFICES ASSUME FetchInv PROVE LinksAgree
        OBVIOUS
    <2>1. Good(f)
        BY DEF FetchInv
    <2>2. /\ f.slots \in [Slot -> SlotRec] /\ f.conns \in [Conn -> ConnRec] /\ HostsOK(f)
        BY <2>1, GoodParts
    <2>3. TypeOK
        <3>1. ASSUME NEW j \in Slot
              PROVE  /\ f.slots[j].st \in {"free", "wait", "run", "done", "fail"}
                     /\ f.slots[j].conn \in 0 .. NCONN /\ f.slots[j].len \in 0 .. RESPMAX
            BY <2>2 DEF SlotRec
        <3>2. ASSUME NEW i \in Conn
              PROVE  /\ f.conns[i].st \in {"free", "dns", "tcp", "run", "idle", "h2"}
                     /\ f.conns[i].slot \in 0 .. NSLOT /\ Active(f.conns[i]) <= STREAMS
            <4>1. f.conns[i] \in ConnRec /\ ConnOK(f.conns[i])
                BY <2>1, <2>2 DEF Good
            <4> QED BY <4>1 DEF ConnRec, ConnOK, Active
        <3> QED BY <2>2, <3>1, <3>2 DEF TypeOK, FetchInv, HostsOK
    <2>4. ASSUME NEW j \in Slot, f.slots[j].st = "run"
          PROVE  LET s == f.slots[j]
                     c == f.conns[s.conn]
                 IN  \/ c.st \in {"dns", "tcp", "run"} /\ c.slot = j
                     \/ c.st = "h2" /\ \E r \in c.strs : r.sid = s.sid /\ r.user = j
        <3> DEFINE i == f.slots[j].conn
        <3>1. i \in Conn
            BY <2>1, <2>4 DEF Good, SlotOK
        <3>2. LinkOK(f.slots[j], j, f.conns[i], i) /\ ConnOK(f.conns[i])
            BY <2>1, <3>1 DEF Good
        <3>3. Carries(f.conns[i], j)
            BY <2>4, <3>2 DEF LinkOK
        <3>4. CASE f.conns[i].st \in Direct /\ f.conns[i].slot = j
            BY <3>4 DEF Direct
        <3>5. CASE \E r \in f.conns[i].strs : r.user = j
            <4>1. PICK r \in f.conns[i].strs : r.user = j
                BY <3>5
            <4>2. r.sid = f.slots[j].sid /\ f.conns[i].st = "h2"
                BY <3>2, <4>1 DEF LinkOK, ConnOK
            <4> QED BY <4>1, <4>2
        <3> QED BY <3>3, <3>4, <3>5 DEF Carries
    <2>5. ASSUME NEW i \in Conn, f.conns[i].st \in {"dns", "tcp", "run"}
          PROVE  f.slots[f.conns[i].slot].st = "run" /\ f.slots[f.conns[i].slot].conn = i
        <3>1. f.conns[i].st \in Direct
            BY <2>5 DEF Direct
        <3> QED BY <2>1, <3>1, DirectFacts
    <2>6. ASSUME NEW i \in Conn, NEW r \in f.conns[i].strs
          PROVE  /\ f.slots[r.user].st = "run" /\ f.slots[r.user].conn = i
                 /\ f.slots[r.user].sid = r.sid
        BY <2>1, StreamFacts
    <2> QED BY <2>3, <2>4, <2>5, <2>6, SMTT(30) DEF LinksAgree
<1> QED BY <1>1, FetchInvariance, PTL

\* Between fetch_begin and fetch_end a handle is its owner's: no answer, failure,
\* retry or lost session of a poll takes it away, and the sweep at the end of a
\* poll takes only the slots of speculative loads nobody has adopted.
THEOREM HandlesStay == Spec => HandlesKept
<1>1. ASSUME FetchInv, [Next]_vars
      PROVE  [\A j \in Slot : f.slots[j].owned /\ f.slots[j].st # "free" /\ at # 0 =>
                 f'.slots[j].owned]_vars
    <2> SUFFICES ASSUME Next, NEW j \in Slot, f.slots[j].owned, at # 0
                 PROVE  f'.slots[j].owned
        BY <1>1
    <2>1. CASE PollStarts \/ Call \/ \E i \in Conn : Strays(i)
        BY <2>1 DEF PollStarts, Strays, Call, Begin, Adopt, Hit, Prefetch, End, CloseIdle, Forget
    <2>2. CASE PollEnds
        <3>1. SlotOK(f.slots[j]) /\ f \in Engine
            BY <1>1, GoodParts DEF FetchInv, Good
        <3>2. ~f.slots[j].prefetch
            BY <3>1 DEF SlotOK
        <3>3. f'.slots = [k \in Slot |->
                  IF f.slots[k].prefetch /\ f.slots[k].st \in {"done", "fail"}
                  THEN NoSlot ELSE f.slots[k]]
            BY <2>2, <3>1, Zenon DEF PollEnds, Engine
        <3>4. f'.slots[j] = f.slots[j]
            BY <3>2, <3>3
        <3> QED BY <3>4
    <2>3. CASE \E i \in Conn : Step(i)
        <3>1. Kept(f, f')
            BY <1>1, <2>3, StepKeeps
        <3> QED BY <3>1 DEF Kept
    <2> QED BY <2>1, <2>2, <2>3 DEF Next
<1> QED BY <1>1, FetchInvariance, PTL DEF Spec, HandlesKept

=============================================================================
