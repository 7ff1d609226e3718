----------------------------- MODULE TcpProofs ------------------------------
(***************************************************************************)
(* Proofs about one TCP connection, for any sequence numbers to start      *)
(* from, any sizes of the buffers and windows and any bounds on what is    *)
(* sent, as long as less than half of the sequence space is in use.        *)
(***************************************************************************)
EXTENDS TcpInvariant, WellFoundedInduction, FiniteSetTheorems, SequenceTheorems, TLAPS

-----------------------------------------------------------------------------
(* Least and greatest numbers and places in a ring                         *)

\* A non-empty set of numbers has a least element.
LEMMA MinIn ==
    ASSUME NEW S, S \subseteq Nat, S # {}
    PROVE  Min(S) \in S /\ \A y \in S : Min(S) <= y
<1>1. PICK x \in S : \A y \in S : ~(<<y, x>> \in OpToRel(<, Nat))
    BY WFMin, NatLessThanWellFounded, Zenon
<1>2. ASSUME NEW y \in S PROVE x <= y
    <2>1. x \in Nat /\ y \in Nat /\ <<y, x>> \in Nat \X Nat
        OBVIOUS
    <2>2. ~(y < x)
        BY <1>1, <2>1 DEF OpToRel
    <2> QED BY <2>1, <2>2
<1> QED BY <1>2 DEF Min

\* A non-empty set of numbers with a bound has a greatest element.
LEMMA GreatestIn ==
    ASSUME NEW S, S \subseteq Int, S # {}, NEW b \in Int, \A y \in S : y <= b
    PROVE  Max(S) \in S /\ \A y \in S : y <= Max(S)
<1> DEFINE T == {b - y : y \in S}
<1>0. PICK z \in S : TRUE
    OBVIOUS
<1>1. T \subseteq Nat /\ T # {}
    <2>1. ASSUME NEW y \in S PROVE b - y \in Nat
        BY y \in Int, y <= b
    <2>2. b - z \in T
        OBVIOUS
    <2> QED BY <2>1, <2>2
<1>2. Min(T) \in T /\ \A y \in T : Min(T) <= y
    BY <1>1, MinIn
<1>3. PICK x \in S : Min(T) = b - x
    BY <1>2
<1>4. ASSUME NEW y \in S PROVE x >= y
    <2>1. b - y \in T /\ x \in Int /\ y \in Int
        OBVIOUS
    <2>2. b - x <= b - y
        BY <1>2, <1>3, <2>1
    <2> QED BY <2>1, <2>2
<1>5. \E w \in S : \A y \in S : w >= y
    BY <1>4
<1>6. Max(S) \in S /\ \A y \in S : Max(S) >= y
    BY <1>5 DEF Max
<1> QED BY <1>6

\* The remainder of a number less than one ring away
LEMMA Ring ==
    ASSUME NEW B \in Nat \ {0}, NEW a \in Int, -B <= a, a < 2 * B
    PROVE  a % B = IF a < 0 THEN a + B ELSE IF a < B THEN a ELSE a - B
<1>1. CASE 0 <= a /\ a < B
    BY <1>1
<1>2. CASE a < 0
    BY <1>2
<1>3. CASE a >= B
    BY <1>3
<1> QED BY <1>1, <1>2, <1>3

\* Steps around a ring: forward by at most its length, and the distance back.
LEMMA RingSum ==
    ASSUME NEW B \in Nat \ {0}, NEW x \in 0 .. B - 1, NEW d \in 0 .. B
    PROVE  /\ (x + d) % B \in 0 .. B - 1
           /\ (x + d) % B = IF x + d < B THEN x + d ELSE (x + d) - B
<1>1. x + d \in Int /\ -B <= x + d /\ x + d < 2 * B /\ ~(x + d < 0)
    OBVIOUS
<1>2. (x + d) % B = IF x + d < B THEN x + d ELSE (x + d) - B
    BY <1>1, Ring
<1> QED BY <1>1, <1>2

LEMMA RingBack ==
    ASSUME NEW B \in Nat \ {0}, NEW x \in 0 .. B - 1, NEW y \in 0 .. B - 1
    PROVE  (x - y) % B = IF x < y THEN (x - y) + B ELSE x - y
<1>1. x - y \in Int /\ -B <= x - y /\ x - y < 2 * B /\ x - y < B
    OBVIOUS
<1>2. (x - y) % B = IF x - y < 0 THEN (x - y) + B ELSE x - y
    BY <1>1, Ring
<1> QED BY <1>2

LEMMA RingTwice ==
    ASSUME NEW B \in Nat \ {0}, NEW x \in 0 .. B - 1, NEW m \in Nat, NEW n \in Nat,
           m + n <= B
    PROVE  (((x + m) % B) + n) % B = (x + (m + n)) % B
<1> DEFINE y == (x + m) % B
<1>1. m \in 0 .. B /\ n \in 0 .. B /\ m + n \in 0 .. B
    OBVIOUS
<1>2. y \in 0 .. B - 1 /\ y = IF x + m < B THEN x + m ELSE (x + m) - B
    BY <1>1, RingSum
<1>3. (x + (m + n)) % B = IF x + (m + n) < B THEN x + (m + n) ELSE (x + (m + n)) - B
    BY <1>1, RingSum
<1> HIDE DEF y
<1>4. (y + n) % B = IF y + n < B THEN y + n ELSE (y + n) - B
    BY <1>1, <1>2, RingSum
<1>5. (y + n) % B = (x + (m + n)) % B
    BY <1>2, <1>3, <1>4
<1> QED BY <1>5 DEF y

\* Where the bytes of a ring lie: the distance of the j-th from the tail.
LEMMA RingPlaces ==
    ASSUME NEW B \in Nat \ {0}, NEW h \in 0 .. B - 1, NEW m \in 0 .. B, NEW j \in 0 .. B - 1
    PROVE  /\ (h + j) % B \in 0 .. B - 1
           /\ (((h + j) % B) - ((h + m) % B)) % B = IF j < m THEN (j - m) + B ELSE j - m
<1> DEFINE x == (h + j) % B
           y == (h + m) % B
<1>0. j \in 0 .. B
    OBVIOUS
<1>1. x \in 0 .. B - 1 /\ x = IF h + j < B THEN h + j ELSE (h + j) - B
    BY <1>0, RingSum
<1>2. y \in 0 .. B - 1 /\ y = IF h + m < B THEN h + m ELSE (h + m) - B
    BY RingSum
<1> HIDE DEF x, y
<1>3. (x - y) % B = IF x < y THEN (x - y) + B ELSE x - y
    BY <1>1, <1>2, RingBack
<1>4. (x - y) % B = IF j < m THEN (j - m) + B ELSE j - m
    <2>1. CASE m < B
        BY <1>1, <1>2, <1>3, <2>1
    <2>2. CASE m = B
        BY <1>1, <1>2, <1>3, <2>2
    <2> QED BY <2>1, <2>2
<1> QED BY <1>1, <1>4 DEF x, y

-----------------------------------------------------------------------------
(* Words and places                                                        *)

LEMMA Constants ==
    /\ W \in Nat \ {0} /\ W \div 2 \in Nat /\ 2 * (W \div 2) <= W
    /\ MaxIn + RXCAP + 4 < W \div 2 /\ MaxOut + 2 < W \div 2
    /\ ISS \in Words /\ IRS \in Words /\ Words = 0 .. W - 1
    /\ RTXCAP \in Nat \ {0} /\ RXCAP \in Nat \ {0} /\ MaxIn \in Nat /\ MaxOut \in Nat
    /\ WINMAX \in Nat \ {0} /\ UNIT \in Nat \ {0} /\ NREORDER \in Nat
    /\ MAXRTX \in Nat \ {0} /\ DUPS \in Nat \ {0} /\ SmallWin \in Nat /\ OpenWin \in Nat
    /\ MaxSeg \in Nat \ {0} /\ MaxOpens \in Nat
<1>1. W \in Nat /\ MaxIn \in Nat /\ RXCAP \in Nat /\ MaxIn + RXCAP + 4 < W \div 2
    BY TcpAssumption
<1>2. W \div 2 \in Nat /\ 2 * (W \div 2) <= W
    BY <1>1
<1>3. W # 0
    BY <1>1, <1>2
<1> QED BY TcpAssumption, <1>2, <1>3 DEF Words

LEMMA Bounds ==
    /\ W \in Nat \ {0} /\ MaxIn \in Nat /\ MaxOut \in Nat /\ RXCAP \in Nat /\ SmallWin \in Nat
    /\ MaxIn + RXCAP + 4 < W /\ MaxOut + 2 < W
BY Constants

\* Sequence numbers near each other compare as their places do.
LEMMA WordPlus ==
    ASSUME NEW b \in Words, NEW x \in 0 .. W
    PROVE  Plus(b, x) \in Words /\ Plus(b, x) \in Int
<1>1. W \in Nat \ {0} /\ b \in 0 .. W - 1
    BY Constants
<1>2. (b + x) % W \in 0 .. W - 1
    BY <1>1, RingSum
<1> QED BY <1>1, <1>2, Constants DEF Plus

LEMMA WordSum ==
    ASSUME NEW b \in Words, NEW x \in Nat, NEW y \in Nat, x + y <= W
    PROVE  Plus(Plus(b, x), y) = Plus(b, x + y)
<1>1. W \in Nat \ {0} /\ b \in 0 .. W - 1
    BY Constants
<1>2. (((b + x) % W) + y) % W = (b + (x + y)) % W
    BY <1>1, RingTwice
<1> QED BY <1>2 DEF Plus

LEMMA WordDistance ==
    ASSUME NEW b \in Words, NEW x \in 0 .. W - 1, NEW y \in 0 .. W
    PROVE  (Plus(b, x) - Plus(b, y)) % W = IF x < y THEN (x - y) + W ELSE x - y
<1>1. W \in Nat \ {0} /\ b \in 0 .. W - 1
    BY Constants
<1>2. (((b + x) % W) - ((b + y) % W)) % W = IF x < y THEN (x - y) + W ELSE x - y
    BY <1>1, RingPlaces
<1> QED BY <1>2 DEF Plus

LEMMA WordZero == ASSUME NEW b \in Words PROVE Plus(b, 0) = b
<1>1. W \in Nat \ {0} /\ b \in 0 .. W - 1 /\ 0 \in 0 .. W
    BY Constants
<1>2. (b + 0) % W = IF b + 0 < W THEN b + 0 ELSE (b + 0) - W
    BY <1>1, RingSum
<1> QED BY <1>1, <1>2 DEF Plus

LEMMA WordPlace ==
    ASSUME NEW b \in Words, NEW x \in 0 .. W - 1
    PROVE  (Plus(b, x) - b) % W = x
<1>1. W \in Nat \ {0} /\ 0 \in 0 .. W
    BY Constants
<1>2. (Plus(b, x) - Plus(b, 0)) % W = IF x < 0 THEN (x - 0) + W ELSE x - 0
    BY <1>1, WordDistance
<1> QED BY <1>2, WordZero

LEMMA Places ==
    ASSUME NEW x \in 0 .. W - 1
    PROVE  PlaceOut(Plus(ISS, x)) = x /\ PlaceIn(Plus(IRS, x)) = x
BY Constants, WordPlace DEF PlaceOut, PlaceIn

LEMMA PlaceIsNumber ==
    ASSUME NEW x \in Words
    PROVE  PlaceOut(x) \in 0 .. W - 1 /\ PlaceIn(x) \in 0 .. W - 1
<1>1. W \in Nat \ {0} /\ x \in 0 .. W - 1 /\ ISS \in 0 .. W - 1 /\ IRS \in 0 .. W - 1
    BY Constants
<1>2. /\ (x - ISS) % W = IF x < ISS THEN (x - ISS) + W ELSE x - ISS
      /\ (x - IRS) % W = IF x < IRS THEN (x - IRS) + W ELSE x - IRS
    BY <1>1, RingBack
<1> QED BY <1>1, <1>2 DEF PlaceOut, PlaceIn

LEMMA WordEqual ==
    ASSUME NEW b \in Words, NEW x \in 0 .. W - 1, NEW y \in 0 .. W - 1,
           Plus(b, x) = Plus(b, y)
    PROVE  x = y
BY WordPlace

LEMMA WordOrder ==
    ASSUME NEW b \in Words, NEW x \in Nat, NEW y \in Nat, x < W \div 2, y < W \div 2
    PROVE  SeqLt(Plus(b, x), Plus(b, y)) <=> x < y
<1>1. /\ W \in Nat \ {0} /\ W \div 2 \in Nat /\ 2 * (W \div 2) <= W
      /\ x \in 0 .. W - 1 /\ y \in 0 .. W
    BY Constants
<1>2. (Plus(b, x) - Plus(b, y)) % W = IF x < y THEN (x - y) + W ELSE x - y
    BY <1>1, WordDistance
<1> DEFINE h == W \div 2
           d == (Plus(b, x) - Plus(b, y)) % W
<1>3. d = (IF x < y THEN (x - y) + W ELSE x - y) /\ h \in Nat /\ 2 * h <= W /\ x < h /\ y < h
    BY <1>1, <1>2
<1>4. SeqLt(Plus(b, x), Plus(b, y)) <=> d >= h
    BY DEF SeqLt
<1> HIDE DEF h, d
<1>5. d >= h <=> x < y
    BY <1>1, <1>3
<1> QED BY <1>4, <1>5

-----------------------------------------------------------------------------
(* Runs of consecutive numbers                                             *)

LEMMA NumbersFacts ==
    ASSUME NEW a \in Nat, NEW b \in Int
    PROVE  /\ Numbers(a, b) \in Seq(Nat)
           /\ Len(Numbers(a, b)) = IF a <= b THEN b - a + 1 ELSE 0
           /\ DOMAIN Numbers(a, b) = 1 .. Len(Numbers(a, b))
           /\ \A k \in 1 .. Len(Numbers(a, b)) : Numbers(a, b)[k] = a + k - 1
<1> DEFINE n == IF a <= b THEN b - a + 1 ELSE 0
<1>1. n \in Nat /\ 1 .. b - a + 1 = 1 .. n
    OBVIOUS
<1> HIDE DEF n
<1>2. Numbers(a, b) = [k \in 1 .. n |-> a + k - 1]
    BY <1>1 DEF Numbers
<1>3. Numbers(a, b) \in [1 .. n -> Nat]
    BY <1>1, <1>2
<1>4. Numbers(a, b) \in Seq(Nat)
    BY <1>1, <1>3, SeqDef
<1>5. Len(Numbers(a, b)) = n
    BY <1>1, <1>3, <1>4, LenProperties
<1> QED BY <1>2, <1>3, <1>4, <1>5 DEF n

LEMMA NumbersLen ==
    ASSUME NEW a \in Nat, NEW b \in Int, NEW n \in Nat, a + n = b + 1
    PROVE  Numbers(a, b) \in Seq(Nat) /\ Len(Numbers(a, b)) = n
<1> DEFINE d == Len(Numbers(a, b))
<1>1. Numbers(a, b) \in Seq(Nat) /\ d = IF a <= b THEN b - a + 1 ELSE 0
    BY NumbersFacts
<1> HIDE DEF d
<1>2. d = n
    BY <1>1
<1> QED BY <1>1, <1>2 DEF d

LEMMA NumbersAre ==
    ASSUME NEW a \in Nat, NEW b \in Int, NEW s \in Seq(Nat),
           Len(s) = (IF a <= b THEN b - a + 1 ELSE 0),
           \A k \in 1 .. Len(s) : s[k] = a + k - 1
    PROVE  s = Numbers(a, b)
<1>1. /\ Numbers(a, b) \in Seq(Nat) /\ Len(Numbers(a, b)) = Len(s)
      /\ \A k \in 1 .. Len(s) : Numbers(a, b)[k] = a + k - 1
    BY NumbersFacts
<1> QED BY <1>1, SeqEqual

LEMMA NumbersEmpty ==
    /\ \A a \in Nat, b \in Int : Numbers(a, b) = << >> <=> b < a
<1> SUFFICES ASSUME NEW a \in Nat, NEW b \in Int PROVE Numbers(a, b) = << >> <=> b < a
    OBVIOUS
<1>1. /\ Numbers(a, b) \in Seq(Nat)
      /\ Len(Numbers(a, b)) = IF a <= b THEN b - a + 1 ELSE 0
    BY NumbersFacts
<1>2. Numbers(a, b) = << >> <=> Len(Numbers(a, b)) = 0
    BY <1>1, EmptySeq
<1> QED BY <1>1, <1>2

\* What is left of a run after its first m numbers
LEMMA NumbersTail ==
    ASSUME NEW a \in Nat, NEW b \in Int, NEW m \in Nat, m <= Len(Numbers(a, b))
    PROVE  SubSeq(Numbers(a, b), m + 1, Len(Numbers(a, b))) = Numbers(a + m, b)
<1> DEFINE s == Numbers(a, b)
           t == SubSeq(s, m + 1, Len(s))
<1>0. /\ s \in Seq(Nat) /\ Len(s) = (IF a <= b THEN b - a + 1 ELSE 0)
      /\ \A k \in 1 .. Len(s) : s[k] = a + k - 1
    BY NumbersFacts
<1> HIDE DEF s
<1>1. /\ s \in Seq(Nat) /\ Len(s) = (IF a <= b THEN b - a + 1 ELSE 0) /\ Len(s) \in Nat
      /\ \A k \in 1 .. Len(s) : s[k] = a + k - 1
    BY <1>0
<1>2. \A k \in m + 1 .. Len(s) : s[k] \in Nat
    BY <1>1
<1>3. m + 1 \in Int /\ Len(s) \in Int
    BY <1>1
<1>4. /\ t \in Seq(Nat)
      /\ Len(t) = IF m + 1 <= Len(s) THEN Len(s) - (m + 1) + 1 ELSE 0
      /\ \A k \in 1 .. Len(s) - (m + 1) + 1 : t[k] = s[m + 1 + k - 1]
    BY <1>2, <1>3, SubSeqProperties
<1> HIDE DEF t
<1>5. Len(t) = Len(s) - m
    BY <1>1, <1>4, m <= Len(s) DEF s
<1>6. Len(t) = IF a + m <= b THEN b - (a + m) + 1 ELSE 0
    BY <1>1, <1>5, m <= Len(s) DEF s
<1>7. ASSUME NEW k \in 1 .. Len(t) PROVE t[k] = (a + m) + k - 1
    <2>1. /\ k \in 1 .. Len(s) - (m + 1) + 1 /\ m + 1 + k - 1 \in 1 .. Len(s)
          /\ m + 1 + k - 1 = m + k
        BY <1>1, <1>5
    <2> QED BY <1>1, <1>4, <2>1
<1>8. t = Numbers(a + m, b)
    BY <1>4, <1>6, <1>7, NumbersAre
<1> QED BY <1>8 DEF t, s

\* Its first m numbers
LEMMA NumbersHead ==
    ASSUME NEW a \in Nat, NEW b \in Int, NEW m \in Nat, m <= Len(Numbers(a, b))
    PROVE  SubSeq(Numbers(a, b), 1, m) = Numbers(a, a + m - 1)
<1> DEFINE s == Numbers(a, b)
           t == SubSeq(s, 1, m)
<1>0. /\ s \in Seq(Nat) /\ Len(s) = (IF a <= b THEN b - a + 1 ELSE 0)
      /\ \A k \in 1 .. Len(s) : s[k] = a + k - 1
    BY NumbersFacts
<1> HIDE DEF s
<1>1. /\ s \in Seq(Nat) /\ Len(s) = (IF a <= b THEN b - a + 1 ELSE 0) /\ Len(s) \in Nat
      /\ \A k \in 1 .. Len(s) : s[k] = a + k - 1
    BY <1>0
<1>2. \A k \in 1 .. m : s[k] \in Nat
    BY <1>1, m <= Len(s) DEF s
<1>4. /\ t \in Seq(Nat)
      /\ Len(t) = IF 1 <= m THEN m - 1 + 1 ELSE 0
      /\ \A k \in 1 .. m - 1 + 1 : t[k] = s[1 + k - 1]
    BY <1>2, SubSeqProperties
<1> HIDE DEF t
<1>5. Len(t) = m /\ Len(t) = IF a <= a + m - 1 THEN a + m - 1 - a + 1 ELSE 0
    BY <1>4
<1>6. m <= Len(s)
    BY DEF s
<1>7. ASSUME NEW k \in 1 .. Len(t) PROVE t[k] = a + k - 1
    <2>1. k \in 1 .. m - 1 + 1 /\ k \in 1 .. Len(s) /\ 1 + k - 1 = k
        BY <1>1, <1>5, <1>6
    <2> QED BY <1>1, <1>4, <2>1
<1>8. t = Numbers(a, a + m - 1)
    BY <1>4, <1>5, <1>7, NumbersAre
<1> QED BY <1>8 DEF t, s

\* Two runs of which the second continues the first
Joined(q, r) == q \o r

LEMMA NumbersJoin ==
    ASSUME NEW a \in Nat, NEW b \in Int, NEW d \in Int, NEW e \in Nat, e = b + 1,
           a <= e, b <= d
    PROVE  Joined(Numbers(a, b), Numbers(e, d)) = Numbers(a, d)
<1> DEFINE s == Numbers(a, b)
           t == Numbers(e, d)
           u == s \o t
<1>1. /\ s \in Seq(Nat) /\ Len(s) = b - a + 1
      /\ \A k \in 1 .. Len(s) : s[k] = a + k - 1
    <2>1. /\ s \in Seq(Nat) /\ Len(s) = (IF a <= b THEN b - a + 1 ELSE 0)
          /\ \A k \in 1 .. Len(s) : s[k] = a + k - 1
        BY NumbersFacts
    <2> HIDE DEF s
    <2> QED BY <2>1
<1>2. /\ t \in Seq(Nat) /\ Len(t) = d - b
      /\ \A k \in 1 .. Len(t) : t[k] = e + k - 1
    <2>1. /\ t \in Seq(Nat) /\ Len(t) = (IF e <= d THEN d - e + 1 ELSE 0)
          /\ \A k \in 1 .. Len(t) : t[k] = e + k - 1
        BY NumbersFacts
    <2> HIDE DEF t
    <2> QED BY <2>1
<1> HIDE DEF s, t
<1>3. /\ u \in Seq(Nat) /\ Len(u) = Len(s) + Len(t)
      /\ \A k \in 1 .. Len(s) + Len(t) : u[k] = IF k <= Len(s) THEN s[k] ELSE t[k - Len(s)]
    BY <1>1, <1>2, ConcatProperties
<1> HIDE DEF u
<1>4. Len(u) = IF a <= d THEN d - a + 1 ELSE 0
    BY <1>1, <1>2, <1>3
<1>5. ASSUME NEW k \in 1 .. Len(u) PROVE u[k] = a + k - 1
    <2>1. k \in 1 .. Len(s) + Len(t) /\ Len(s) \in Nat
        BY <1>1, <1>3
    <2>2. CASE k <= Len(s)
        BY <1>1, <1>3, <2>1, <2>2
    <2>3. CASE ~(k <= Len(s))
        <3>1. k - Len(s) \in 1 .. Len(t) /\ e + (k - Len(s)) - 1 = a + k - 1
            BY <1>1, <1>2, <2>1, <2>3
        <3> QED BY <1>2, <1>3, <2>1, <2>3, <3>1
    <2> QED BY <2>2, <2>3
<1>6. u = Numbers(a, d)
    BY <1>3, <1>4, <1>5, NumbersAre
<1> QED BY <1>6 DEF u, s, t, Joined

-----------------------------------------------------------------------------
(* Sockets in the midst of a step                                          *)

PeerRec == [got : Nat, sent : 0 .. MaxIn, closed : BOOLEAN]

\* What the sender's, and what the receiver's part of the invariant looks at
KeepsSend(s, t) ==
    /\ t.used = s.used /\ t.state = s.state /\ t.failed = s.failed
    /\ t.appClosed = s.appClosed /\ t.syn = s.syn /\ t.fin = s.fin /\ t.rtx = s.rtx
    /\ t.una = s.una /\ t.seq = s.seq
KeepsReceive(s, t) ==
    /\ t.used = s.used /\ t.state = s.state /\ t.failed = s.failed
    /\ t.appClosed = s.appClosed /\ t.rx = s.rx /\ t.ack = s.ack
    /\ t.peerClosed = s.peerClosed /\ t.finPending = s.finPending
    /\ t.finSeq = s.finSeq /\ t.ro = s.ro /\ (t.ackPending => s.ackPending)

Sound(s, n, rd, p, e) ==
    /\ s \in Sock /\ SizesFit(s) /\ SendPart(s, n, p.got) /\ ReceivePart(s, rd, p)
    /\ OutPart(s, n, rd) /\ (WindowSizes => ReopenPart(s, e))

LEMMA SendKept ==
    ASSUME NEW s, NEW t, NEW n, NEW k \in Nat, NEW m \in Nat, k <= m,
           KeepsSend(s, t), SendPart(s, n, k)
    PROVE  SendPart(t, n, m)
<1>1. CASE t.used /\ ~t.failed /\ t.state # "syn_sent"
    <2>1. PICK u \in 1 .. k :
              /\ ~s.syn /\ s.una = Plus(ISS, u) /\ s.rtx = Numbers(u, n)
              /\ IF s.state = "established"
                 THEN u <= n + 1 /\ ~s.fin /\ s.seq = Plus(ISS, n + 1) /\ ~s.appClosed
                 ELSE u <= n + 2 /\ (s.fin <=> u <= n + 1) /\ s.seq = Plus(ISS, n + 2)
        BY <1>1 DEF SendPart, KeepsSend
    <2>2. u \in 1 .. m
        OBVIOUS
    <2> QED BY <1>1, <2>1, <2>2 DEF SendPart, KeepsSend
<1>2. CASE ~(t.used /\ ~t.failed /\ t.state # "syn_sent")
    BY <1>2 DEF SendPart, KeepsSend
<1> QED BY <1>1, <1>2

LEMMA ReceiveKept ==
    ASSUME NEW s, NEW t, NEW rd, NEW p, KeepsReceive(s, t), ReceivePart(s, rd, p)
    PROVE  ReceivePart(t, rd, p)
BY Zenon DEF KeepsReceive, ReceivePart

LEMMA SizesKept ==
    ASSUME NEW s, NEW t, t.rtx = s.rtx, t.rx = s.rx, t.ro = s.ro, SizesFit(s)
    PROVE  SizesFit(t)
BY DEF SizesFit

LEMMA OutKept ==
    ASSUME NEW s, NEW t, NEW n, NEW rd, t.out = s.out, Opening(t) => Opening(s),
           OutPart(s, n, rd)
    PROVE  OutPart(t, n, rd)
BY DEF OutPart

LEMMA ReopenKept ==
    ASSUME NEW s, NEW t, NEW e, t.used = s.used, t.state = s.state, t.rx = s.rx,
           t.ack = s.ack, t.advWin = s.advWin, t.out = s.out, s.ackPending => t.ackPending,
           ReopenPart(s, e)
    PROVE  ReopenPart(t, e)
BY DEF ReopenPart

-----------------------------------------------------------------------------
(* Sending                                                                 *)

LEMMA WindowFacts ==
    ASSUME NEW s \in Sock, Len(s.rx) <= RXCAP, NEW syn \in BOOLEAN
    PROVE  /\ Window(s, syn) \in 0 .. RXCAP /\ Window(s, syn) <= RXCAP - Len(s.rx)
           /\ RxFree(s) \in 0 .. RXCAP
           /\ WindowSizes /\ s.rx = << >> =>
                 Window(s, FALSE) >= SmallWin /\ RxFree(s) >= OpenWin
           /\ s.rx = << >> => Window(s, TRUE) >= Lesser(RXCAP, WINMAX)
<1> DEFINE x == RxFree(s)
           l == Len(s.rx)
<1>1. s.wsOn \in BOOLEAN /\ l \in Nat
    BY LenProperties DEF Sock
<1>2. RXCAP \in Nat /\ WINMAX \in Nat /\ UNIT \in Nat \ {0} /\ WINMAX * UNIT \in Nat
    BY Constants
<1>3. x \in Nat /\ x <= RXCAP - l
    <2> DEFINE y == IF s.wsOn THEN WINMAX * UNIT ELSE WINMAX
    <2>1. y \in Nat /\ x = Lesser(RXCAP - l, y) /\ l <= RXCAP
        BY <1>1, <1>2 DEF RxFree
    <2> HIDE DEF x, y, l
    <2> QED BY <1>1, <1>2, <2>1 DEF Lesser
<1>4. (x \div UNIT) * UNIT \in Nat /\ (x \div UNIT) * UNIT <= x
    <2> HIDE DEF x
    <2> QED BY <1>2, <1>3
<1>5. Window(s, syn) \in Nat /\ Window(s, syn) <= x
    <2> DEFINE y == (x \div UNIT) * UNIT
    <2>1. Window(s, syn) = IF syn THEN Lesser(x, WINMAX) ELSE IF s.wsOn THEN y ELSE x
        BY DEF Window
    <2> HIDE DEF x, y
    <2> QED BY <1>2, <1>3, <1>4, <2>1 DEF Lesser, y
<1>6. ASSUME WindowSizes, s.rx = << >> PROVE Window(s, FALSE) >= SmallWin /\ x >= OpenWin
    <2>1. x = IF s.wsOn THEN Lesser(RXCAP, WINMAX * UNIT) ELSE Lesser(RXCAP, WINMAX)
        <3>1. l = 0
            BY <1>6
        <3>2. RXCAP - l = RXCAP
            BY <1>2, <3>1
        <3> QED BY <1>1, <3>2 DEF RxFree
    <2>2. Window(s, FALSE) = IF s.wsOn THEN (x \div UNIT) * UNIT ELSE x
        BY DEF Window
    <2> HIDE DEF x
    <2>3. CASE s.wsOn
        BY <1>6, <2>1, <2>2, <2>3, Constants DEF WindowSizes
    <2>4. CASE ~s.wsOn
        BY <1>6, <2>1, <2>2, <2>4, Constants DEF WindowSizes
    <2> QED BY <2>3, <2>4
<1> HIDE DEF x
<1>7. /\ Window(s, syn) \in 0 .. RXCAP /\ Window(s, syn) <= RXCAP - l
      /\ x \in 0 .. RXCAP
    BY <1>1, <1>2, <1>3, <1>5
<1>8. ASSUME s.rx = << >> PROVE Window(s, TRUE) >= Lesser(RXCAP, WINMAX)
    <2> DEFINE y == WINMAX * UNIT
    <2>1. x = IF s.wsOn THEN Lesser(RXCAP, y) ELSE Lesser(RXCAP, WINMAX)
        <3>1. l = 0
            BY <1>8
        <3>2. RXCAP - l = RXCAP
            BY <1>2, <3>1
        <3> QED BY <1>1, <3>2 DEF RxFree, x
    <2>2. Window(s, TRUE) = Lesser(x, WINMAX)
        BY DEF Window, x
    <2>3. y \in Nat /\ y >= WINMAX
        BY <1>2
    <2> HIDE DEF y
    <2>4. x \in Nat /\ (x = Lesser(RXCAP, y) \/ x = Lesser(RXCAP, WINMAX))
        BY <1>3, <2>1
    <2>5. Lesser(x, WINMAX) >= Lesser(RXCAP, WINMAX)
        BY <1>2, <2>3, <2>4 DEF Lesser
    <2> QED BY <2>2, <2>5
<1> QED BY <1>6, <1>7, <1>8 DEF x

LEMMA TransmitFacts ==
    ASSUME NEW s \in Sock, Len(s.rx) <= RXCAP, NEW seq \in Words, NEW data \in Seq(Nat),
           NEW syn \in BOOLEAN, NEW fin \in BOOLEAN
    PROVE  LET t == Transmit(s, seq, data, syn, fin)
               g == [seq |-> seq, data |-> data, syn |-> syn, fin |-> fin, ack |-> s.ack,
                     win |-> Window(s, syn)]
           IN  /\ t \in Sock /\ KeepsSend(s, t) /\ KeepsReceive(s, t) /\ t.tries = s.tries
               /\ ~arp => t = s
               /\ arp => /\ t.out = s.out \cup {g} /\ g \in Segment
                         /\ t.advWin = Window(s, syn)
                         /\ ~syn => ~t.ackPending
<1> DEFINE w == Window(s, syn)
           g == [seq |-> seq, data |-> data, syn |-> syn, fin |-> fin, ack |-> s.ack,
                 win |-> w]
           ap == IF syn THEN s.ackPending ELSE FALSE
           o == s.out \cup {g}
           t == Transmit(s, seq, data, syn, fin)
<1>1. w \in 0 .. RXCAP
    BY WindowFacts
<1> HIDE DEF w
<1>2. s.ack \in Words /\ s.ackPending \in BOOLEAN /\ s.out \subseteq Segment
    BY Zenon DEF Sock
<1>3. g \in Segment
    BY <1>1, <1>2 DEF Segment
<1>4. o \in SUBSET Segment /\ ap \in BOOLEAN
    BY <1>2, <1>3
<1>5. arp => t = [s EXCEPT !.advWin = w, !.ackPending = ap, !.out = o]
    BY Zenon DEF Transmit, w
<1>6. ~arp => t = s
    BY DEF Transmit
<1>7. (t.ackPending => s.ackPending) /\ (~syn /\ arp => ~t.ackPending) /\ (arp => t.ackPending = ap)
    <2>1. arp => t.ackPending = ap
        BY <1>5, Zenon DEF Sock
    <2> QED BY <1>6, <2>1
<1> HIDE DEF g, o, ap
<1>8. arp => /\ t \in Sock /\ KeepsSend(s, t) /\ t.tries = s.tries /\ t.out = o /\ t.advWin = w
    <2> SUFFICES ASSUME arp
                 PROVE  t \in Sock /\ KeepsSend(s, t) /\ t.tries = s.tries /\ t.out = o /\ t.advWin = w
        OBVIOUS
    <2> HIDE DEF t
    <2>1. t = [s EXCEPT !.advWin = w, !.ackPending = ap, !.out = o]
        BY <1>5
    <2>2. t \in Sock
        BY <1>1, <1>4, <2>1, Zenon DEF Sock
    <2>3. KeepsSend(s, t)
        BY <2>1, Zenon DEF Sock, KeepsSend
    <2>4. t.tries = s.tries /\ t.out = o /\ t.advWin = w
        BY <2>1, Zenon DEF Sock
    <2> QED BY <2>2, <2>3, <2>4
<1>9. arp => KeepsReceive(s, t)
    <2> SUFFICES ASSUME arp PROVE KeepsReceive(s, t)
        OBVIOUS
    <2> HIDE DEF t
    <2> QED BY <1>5, <1>7, ZenonT(30) DEF Sock, KeepsReceive
<1>10. ~arp => t \in Sock /\ KeepsSend(s, t) /\ KeepsReceive(s, t) /\ t.tries = s.tries
    <2> HIDE DEF t
    <2> QED BY <1>6, Zenon DEF KeepsSend, KeepsReceive
<1> QED BY <1>3, <1>6, <1>7, <1>8, <1>9, <1>10 DEF g, o, w

LEMMA TransmitOut ==
    ASSUME NEW s \in Sock, NEW seq, NEW data, NEW syn, NEW fin
    PROVE  \A h \in Transmit(s, seq, data, syn, fin).out :
               h \in s.out \/ (arp /\ h.seq = seq /\ h.data = data /\ h.syn = syn)
<1> DEFINE t == Transmit(s, seq, data, syn, fin)
           g == [seq |-> seq, data |-> data, syn |-> syn, fin |-> fin, ack |-> s.ack,
                 win |-> Window(s, syn)]
<1>1. g.seq = seq /\ g.data = data /\ g.syn = syn
    OBVIOUS
<1>2. t.out = s.out \/ (arp /\ t.out = s.out \cup {g})
    BY Zenon DEF Transmit, Sock
<1> HIDE DEF t, g
<1>3. \A h \in t.out : h \in s.out \/ (arp /\ h.seq = seq /\ h.data = data /\ h.syn = syn)
    BY <1>1, <1>2
<1> QED BY <1>3 DEF t

\* What the parts say of an established connection
LEMMA EstablishedFacts ==
    ASSUME NEW s, NEW n, NEW rd \in Nat, NEW p \in PeerRec, NEW e,
           Sound(s, n, rd, p, e), s.used, s.state = "established"
    PROVE  /\ ~s.failed /\ ~s.appClosed /\ ~s.peerClosed /\ s \in Sock
           /\ Len(s.rx) \in Nat /\ Len(s.rx) <= RXCAP
           /\ s.rx = Numbers(rd + 1, rd + Len(s.rx)) /\ rd + Len(s.rx) <= p.sent
           /\ s.ack = Plus(IRS, rd + Len(s.rx) + 1)
           /\ PlaceIn(s.ack) = rd + Len(s.rx) + 1
           /\ s.finPending => /\ p.closed /\ s.finSeq = Plus(IRS, p.sent + 1)
                              /\ rd + Len(s.rx) < p.sent
           /\ \A r \in s.ro : HeldPiece(r, p.sent)
<1>1. s \in Sock /\ SizesFit(s) /\ SendPart(s, n, p.got) /\ ReceivePart(s, rd, p)
    BY DEF Sound
<1>2. ~s.failed /\ ~s.appClosed
    BY <1>1 DEF SendPart
<1>3. Len(s.rx) \in Nat /\ Len(s.rx) <= RXCAP
    <2>1. s.rx \in Seq(Nat)
        BY <1>1, Zenon DEF Sock
    <2> QED BY <1>1, <2>1, LenProperties DEF SizesFit
<1>4. /\ ~s.peerClosed /\ s.rx = Numbers(rd + 1, rd + Len(s.rx)) /\ rd + Len(s.rx) <= p.sent
      /\ s.ack = Plus(IRS, rd + Len(s.rx) + 1)
      /\ s.finPending => /\ p.closed /\ s.finSeq = Plus(IRS, p.sent + 1)
                         /\ rd + Len(s.rx) < p.sent
      /\ \A r \in s.ro : HeldPiece(r, p.sent)
    BY <1>1, <1>2 DEF ReceivePart
<1>5. rd + Len(s.rx) + 1 \in 0 .. W - 1
    <2>1. p.sent \in 0 .. MaxIn
        BY DEF PeerRec
    <2> QED BY <1>3, <1>4, <2>1, Bounds
<1>6. PlaceIn(s.ack) = rd + Len(s.rx) + 1
    BY <1>4, <1>5, Places
<1> QED BY <1>1, <1>2, <1>3, <1>4, <1>6

\* A step that changes nothing but counters and timers
LEMMA SoundKept ==
    ASSUME NEW s, NEW t \in Sock, NEW n, NEW rd, NEW p \in PeerRec, NEW e,
           Sound(s, n, rd, p, e), KeepsSend(s, t), KeepsReceive(s, t), t.out = s.out,
           t.advWin = s.advWin, t.ackPending = s.ackPending
    PROVE  Sound(t, n, rd, p, e)
<1>1. /\ t.rtx = s.rtx /\ t.rx = s.rx /\ t.ro = s.ro /\ t.used = s.used /\ t.state = s.state
      /\ t.ack = s.ack
    BY DEF KeepsSend, KeepsReceive
<1>2. SizesFit(t)
    BY <1>1, SizesKept DEF Sound
<1>3. SendPart(t, n, p.got)
    <2>1. p.got \in Nat /\ SendPart(s, n, p.got)
        BY DEF PeerRec, Sound
    <2> QED BY <2>1, SendKept
<1>4. ReceivePart(t, rd, p)
    BY ReceiveKept DEF Sound
<1>5. OutPart(t, n, rd)
    BY <1>1, OutKept DEF Sound, Opening
<1>6. WindowSizes => ReopenPart(t, e)
    BY <1>1, ReopenKept DEF Sound
<1> QED BY <1>2, <1>3, <1>4, <1>5, <1>6 DEF Sound

\* tcp_send_raw leaves a sound socket when what it is given is right.
LEMMA TransmitSound ==
    ASSUME NEW s, NEW n \in Nat, NEW rd \in Nat, NEW p \in PeerRec, NEW e \in Int,
           Sound(s, n, rd, p, e), s.used,
           NEW seq \in Words, NEW data \in Seq(Nat), NEW syn \in BOOLEAN, NEW fin \in BOOLEAN,
           syn <=> s.state = "syn_sent", Opening(s) => ~fin,
           \A k \in 1 .. Len(data) : data[k] = PlaceOut(seq) + k - 1 /\ data[k] \in 1 .. n,
           fin => PlaceOut(seq) + Len(data) = n + 1
    PROVE  LET t == Transmit(s, seq, data, syn, fin)
           IN  /\ Sound(t, n, rd, p, e) /\ KeepsSend(s, t) /\ KeepsReceive(s, t)
               /\ t.tries = s.tries
<1> DEFINE t == Transmit(s, seq, data, syn, fin)
           w == Window(s, syn)
           g == [seq |-> seq, data |-> data, syn |-> syn, fin |-> fin, ack |-> s.ack,
                 win |-> w]
<1>1. s \in Sock /\ SizesFit(s) /\ OutPart(s, n, rd) /\ Len(s.rx) <= RXCAP
    BY DEF Sound, SizesFit
<1>2. /\ t \in Sock /\ KeepsSend(s, t) /\ KeepsReceive(s, t) /\ t.tries = s.tries
      /\ ~arp => t = s
      /\ arp => /\ t.out = s.out \cup {g} /\ g \in Segment /\ t.advWin = w
                /\ ~syn => ~t.ackPending
    BY <1>1, TransmitFacts
<1>3. /\ w \in 0 .. RXCAP /\ w <= RXCAP - Len(s.rx)
      /\ WindowSizes /\ s.rx = << >> => Window(s, FALSE) >= SmallWin
      /\ syn => w >= Lesser(RXCAP, WINMAX)
    <2>1. syn => s.rx = << >>
        <3>1. s.state = "syn_sent" => ~s.appClosed
            BY DEF Sound, SendPart
        <3> QED BY <3>1 DEF Sound, ReceivePart
    <2>2. syn => w = Window(s, TRUE)
        BY Zenon
    <2> QED BY <1>1, <2>1, <2>2, WindowFacts
<1> HIDE DEF t, w
<1>4. ASSUME ~arp PROVE Sound(t, n, rd, p, e)
    BY <1>2, <1>4
<1>5. ASSUME arp PROVE Sound(t, n, rd, p, e)
    <2>1. /\ t.rtx = s.rtx /\ t.rx = s.rx /\ t.ro = s.ro /\ t.used = s.used
          /\ t.state = s.state /\ t.ack = s.ack
        BY <1>2 DEF KeepsSend, KeepsReceive
    <2>2. /\ g.data = data /\ g.seq = seq /\ g.fin = fin /\ g.syn = syn
          /\ Edge(g) = (IF syn THEN 0 ELSE PlaceIn(s.ack) - 1) + w
        BY DEF Edge
    <2> HIDE DEF g
    <2>3. SegmentRight(g, n)
        <3>1. DOMAIN data = 1 .. Len(data)
            BY LenProperties
        <3> QED BY <2>2, <3>1 DEF SegmentRight
    <2>4. Opening(s) => Edge(g) <= rd + RXCAP
        <3>1. CASE s.state = "syn_sent"
            BY <1>3, <2>2, <3>1, Constants
        <3>2. CASE s.state = "established"
            <4>1. PlaceIn(s.ack) = rd + Len(s.rx) + 1 /\ Len(s.rx) \in Nat
                BY <3>2, EstablishedFacts
            <4>2. Edge(g) = rd + Len(s.rx) + 1 - 1 + w
                BY <2>2, <3>2, <4>1
            <4> QED BY <1>3, <4>1, <4>2, Constants
        <3> QED BY <3>1, <3>2 DEF Opening
    <2>5. OutPart(t, n, rd)
        <3> SUFFICES ASSUME NEW h \in t.out
                     PROVE  /\ arp /\ SegmentRight(h, n)
                            /\ Opening(t) => ~h.fin /\ Edge(h) <= rd + RXCAP
                            /\ h.syn => Edge(h) >= Lesser(RXCAP, WINMAX)
            BY DEF OutPart
        <3>1. Opening(t) <=> Opening(s)
            BY <2>1 DEF Opening
        <3>2. CASE h \in s.out
            BY <1>1, <3>1, <3>2 DEF OutPart
        <3>3. CASE h = g
            <4>1. g.syn => Edge(g) >= Lesser(RXCAP, WINMAX)
                BY <1>3, <2>2
            <4> QED BY <1>5, <2>2, <2>3, <2>4, <3>1, <3>3, <4>1
        <3> QED BY <1>2, <1>5, <3>2, <3>3
    <2>6. ASSUME WindowSizes PROVE ReopenPart(t, e)
        <3> SUFFICES ASSUME t.state = "established"
                     PROVE  \/ t.rx # << >> /\ t.advWin < SmallWin
                            \/ \E h \in t.out : Edge(h) >= PlaceIn(t.ack) - 1 + SmallWin
            BY DEF ReopenPart
        <3>1. ~syn /\ w = Window(s, FALSE) /\ PlaceIn(s.ack) \in Int
            <4>1. PlaceIn(s.ack) = rd + Len(s.rx) + 1 /\ Len(s.rx) \in Nat
                BY <2>1, EstablishedFacts
            <4>2. syn = FALSE
                BY <2>1, Zenon
            <4>3. w = Window(s, FALSE)
                BY <4>2, Zenon DEF w
            <4>4. PlaceIn(s.ack) \in Int
                BY <4>1
            <4> QED BY <4>2, <4>3, <4>4
        <3>2. CASE w >= SmallWin
            <4>1. Edge(g) = PlaceIn(t.ack) - 1 + w /\ PlaceIn(t.ack) \in Int
                BY <2>1, <2>2, <3>1
            <4>2. Edge(g) >= PlaceIn(t.ack) - 1 + SmallWin
                BY <1>3, <3>2, <4>1, Bounds
            <4> QED BY <1>2, <1>5, <4>2
        <3>3. CASE ~(w >= SmallWin)
            <4>1. t.rx # << >>
                BY <1>3, <2>1, <2>6, <3>1, <3>3
            <4>2. t.advWin < SmallWin
                <5>1. w \in Int /\ SmallWin \in Int /\ t.advWin = w
                    BY <1>2, <1>3, <1>5, Constants
                <5> QED BY <3>3, <5>1
            <4> QED BY <4>1, <4>2
        <3> QED BY <3>2, <3>3
    <2>7. SizesFit(t)
        BY <1>1, <2>1, SizesKept
    <2>8. SendPart(t, n, p.got)
        <3>1. p.got \in Nat /\ SendPart(s, n, p.got)
            BY DEF PeerRec, Sound
        <3> QED BY <1>2, <3>1, SendKept
    <2>9. ReceivePart(t, rd, p)
        BY <1>2, ReceiveKept DEF Sound
    <2> QED BY <1>2, <2>5, <2>6, <2>7, <2>8, <2>9 DEF Sound
<1>6. Sound(t, n, rd, p, e) /\ KeepsSend(s, t) /\ KeepsReceive(s, t) /\ t.tries = s.tries
    BY <1>2, <1>4, <1>5
<1> QED BY <1>6 DEF t

LEMMA SendAckSound ==
    ASSUME NEW s, NEW n \in Nat, NEW rd \in Nat, NEW p \in PeerRec, NEW e \in Int,
           Sound(s, n, rd, p, e), s.used, s.state # "syn_sent"
    PROVE  /\ Sound(SendAck(s), n, rd, p, e) /\ KeepsSend(s, SendAck(s))
           /\ KeepsReceive(s, SendAck(s))
<1>1. s.seq \in Words
    BY Zenon DEF Sound, Sock
<1>2. << >> \in Seq(Nat) /\ Len(<< >>) = 0
    OBVIOUS
<1>3. FALSE \in BOOLEAN /\ (FALSE <=> s.state = "syn_sent")
    OBVIOUS
<1>4. \A k \in 1 .. Len(<< >>) : << >>[k] = PlaceOut(s.seq) + k - 1 /\ << >>[k] \in 1 .. n
    BY <1>2
<1>5. /\ Sound(Transmit(s, s.seq, << >>, FALSE, FALSE), n, rd, p, e)
      /\ KeepsSend(s, Transmit(s, s.seq, << >>, FALSE, FALSE))
      /\ KeepsReceive(s, Transmit(s, s.seq, << >>, FALSE, FALSE))
    BY <1>1, <1>2, <1>3, <1>4, TransmitSound
<1> QED BY <1>5 DEF SendAck

\* What the sender's part says of a connection that got past its SYN
LEMMA SenderFacts ==
    ASSUME NEW s, NEW n \in 0 .. MaxOut, NEW k \in Nat, SendPart(s, n, k),
           s.used, ~s.failed, s.state # "syn_sent"
    PROVE  LET u == PlaceOut(s.una)
           IN  /\ u \in Nat /\ 1 <= u /\ u <= k /\ u <= n + 2 /\ s.una = Plus(ISS, u)
               /\ ~s.syn /\ s.rtx = Numbers(u, n) /\ s.rtx \in Seq(Nat)
               /\ Len(s.rtx) = IF u <= n THEN n - u + 1 ELSE 0
               /\ \A j \in 1 .. Len(s.rtx) : s.rtx[j] = u + j - 1 /\ s.rtx[j] \in 1 .. n
               /\ IF s.state = "established"
                  THEN u <= n + 1 /\ ~s.fin /\ s.seq = Plus(ISS, n + 1) /\ ~s.appClosed
                  ELSE (s.fin <=> u <= n + 1) /\ s.seq = Plus(ISS, n + 2)
<1>1. PICK u \in 1 .. k :
          /\ ~s.syn /\ s.una = Plus(ISS, u) /\ s.rtx = Numbers(u, n)
          /\ IF s.state = "established"
             THEN u <= n + 1 /\ ~s.fin /\ s.seq = Plus(ISS, n + 1) /\ ~s.appClosed
             ELSE u <= n + 2 /\ (s.fin <=> u <= n + 1) /\ s.seq = Plus(ISS, n + 2)
    BY DEF SendPart
<1>2. u \in Nat /\ 1 <= u /\ u <= k /\ u <= n + 2 /\ n \in Nat
    BY <1>1
<1>3. PlaceOut(s.una) = u
    <2>1. u \in 0 .. W - 1
        BY <1>2, Bounds
    <2> QED BY <1>1, <2>1, Places
<1>4. /\ s.rtx \in Seq(Nat) /\ Len(s.rtx) = (IF u <= n THEN n - u + 1 ELSE 0)
      /\ \A j \in 1 .. Len(s.rtx) : s.rtx[j] = u + j - 1
    <2>1. n \in Int
        BY <1>2
    <2>2. LET x == Numbers(u, n)
          IN  /\ x \in Seq(Nat) /\ Len(x) = (IF u <= n THEN n - u + 1 ELSE 0)
              /\ \A j \in 1 .. Len(x) : x[j] = u + j - 1
        BY <1>2, <2>1, NumbersFacts
    <2> QED BY <1>1, <2>2
<1>5. ASSUME NEW j \in 1 .. Len(s.rtx) PROVE s.rtx[j] = u + j - 1 /\ s.rtx[j] \in 1 .. n
    <2>1. s.rtx[j] = u + j - 1
        BY <1>4
    <2> QED BY <1>2, <1>4, <2>1
<1> QED BY <1>1, <1>2, <1>3, <1>4, <1>5

LEMMA SenderMade ==
    ASSUME NEW t, NEW n \in 0 .. MaxOut, NEW k \in Nat, NEW u \in Nat, 1 <= u, u <= k,
           ~t.failed, t.state # "syn_sent", ~t.syn, t.una = Plus(ISS, u),
           t.rtx = Numbers(u, n),
           IF t.state = "established"
           THEN u <= n + 1 /\ ~t.fin /\ t.seq = Plus(ISS, n + 1) /\ ~t.appClosed
           ELSE u <= n + 2 /\ (t.fin <=> u <= n + 1) /\ t.seq = Plus(ISS, n + 2)
    PROVE  SendPart(t, n, k)
<1>1. u \in 1 .. k
    OBVIOUS
<1> QED BY <1>1 DEF SendPart

\* What is in flight, in numbers
LEMMA FlightIs ==
    ASSUME NEW s \in Sock, ~s.syn
    PROVE  /\ s.fin => Flight(s) = Len(s.rtx) + 1
           /\ ~s.fin => Flight(s) = Len(s.rtx)
           /\ Len(s.rtx) \in Nat
<1> DEFINE a == IF s.syn THEN 1 ELSE 0
           b == IF s.fin THEN 1 ELSE 0
<1>1. Len(s.rtx) \in Nat
    <2>1. s.rtx \in Seq(Nat)
        BY Zenon DEF Sock
    <2> QED BY <2>1, LenProperties
<1>2. a = 0 /\ (s.fin => b = 1) /\ (~s.fin => b = 0)
    BY Zenon
<1>3. Flight(s) = a + Len(s.rtx) + b
    BY DEF Flight
<1> HIDE DEF a, b
<1> QED BY <1>1, <1>2, <1>3

\* tcp_resend
LEMMA ResendSound ==
    ASSUME NEW s, NEW n \in 0 .. MaxOut, NEW rd \in Nat, NEW p \in PeerRec, NEW e \in Int,
           Sound(s, n, rd, p, e), s.used, ~s.failed
    PROVE  /\ Sound(Resend(s), n, rd, p, e) /\ KeepsSend(s, Resend(s))
           /\ KeepsReceive(s, Resend(s))
<1>0. /\ s.una \in Words /\ s.fin \in BOOLEAN /\ n \in Nat /\ p.got \in Nat
      /\ SendPart(s, n, p.got)
    <2>1. s.una \in Words /\ s.fin \in BOOLEAN
        BY Zenon DEF Sound, Sock
    <2> QED BY <2>1 DEF Sound, PeerRec
<1>1. CASE s.state = "syn_sent"
    <2>1. s.syn
        BY <1>0, <1>1 DEF SendPart
    <2>2. << >> \in Seq(Nat) /\ \A k \in 1 .. Len(<< >>) :
              << >>[k] = PlaceOut(s.una) + k - 1 /\ << >>[k] \in 1 .. n
        OBVIOUS
    <2>3. TRUE \in BOOLEAN /\ FALSE \in BOOLEAN /\ (TRUE <=> s.state = "syn_sent")
        BY <1>1
    <2>4. /\ Sound(Transmit(s, s.una, << >>, TRUE, FALSE), n, rd, p, e)
          /\ KeepsSend(s, Transmit(s, s.una, << >>, TRUE, FALSE))
          /\ KeepsReceive(s, Transmit(s, s.una, << >>, TRUE, FALSE))
        BY <1>0, <2>2, <2>3, TransmitSound
    <2> QED BY <2>1, <2>4 DEF Resend
<1>2. CASE s.state # "syn_sent"
    <2> DEFINE u == PlaceOut(s.una)
    <2>1. /\ u \in Nat /\ u <= n + 2 /\ ~s.syn /\ s.rtx \in Seq(Nat)
          /\ Len(s.rtx) = (IF u <= n THEN n - u + 1 ELSE 0)
          /\ \A j \in 1 .. Len(s.rtx) : s.rtx[j] = u + j - 1 /\ s.rtx[j] \in 1 .. n
          /\ s.fin => s.state # "established" /\ u <= n + 1
        BY <1>0, <1>2, SenderFacts
    <2> HIDE DEF u
    <2>2. s.fin => u + Len(s.rtx) = n + 1
        BY <1>0, <2>1
    <2>3. Opening(s) => ~s.fin
        BY <1>2, <2>1 DEF Opening
    <2>4. FALSE \in BOOLEAN /\ (FALSE <=> s.state = "syn_sent")
        BY <1>2
    <2>5. /\ \A k \in 1 .. Len(s.rtx) : s.rtx[k] = PlaceOut(s.una) + k - 1 /\ s.rtx[k] \in 1 .. n
          /\ s.fin => PlaceOut(s.una) + Len(s.rtx) = n + 1
        BY <2>1, <2>2 DEF u
    <2>6. /\ Sound(Transmit(s, s.una, s.rtx, FALSE, s.fin), n, rd, p, e)
          /\ KeepsSend(s, Transmit(s, s.una, s.rtx, FALSE, s.fin))
          /\ KeepsReceive(s, Transmit(s, s.una, s.rtx, FALSE, s.fin))
        BY <1>0, <2>1, <2>3, <2>4, <2>5, TransmitSound
    <2> QED BY <2>1, <2>6 DEF Resend
<1> QED BY <1>1, <1>2

-----------------------------------------------------------------------------
(* Acknowledgements                                                        *)

LEMMA RepeatedAckSound ==
    ASSUME NEW s, NEW n \in 0 .. MaxOut, NEW rd \in Nat, NEW p \in PeerRec, NEW e \in Int,
           Sound(s, n, rd, p, e), s.used,
           NEW ack \in Words, NEW plen
    PROVE  LET t == RepeatedAck(s, ack, plen)
           IN  Sound(t, n, rd, p, e) /\ KeepsSend(s, t) /\ KeepsReceive(s, t)
<1> DEFINE d == IF ack = s.lastAck THEN Lesser(s.dups + 1, DUPS + 1) ELSE 1
           t == [s EXCEPT !.dups = d, !.lastAck = ack]
           m == Lesser(s.tries + 1, MAXRTX)
           v == [s EXCEPT !.dups = d, !.lastAck = ack, !.tries = m]
           r == RepeatedAck(s, ack, plen)
<1>0. s \in Sock /\ s.dups \in 0 .. DUPS + 1 /\ s.tries \in 0 .. MAXRTX /\ SendPart(s, n, p.got)
    BY Zenon DEF Sound, Sock
<1>1. d \in 0 .. DUPS + 1 /\ m \in 0 .. MAXRTX
    <2>1. \A b \in Nat : \A a \in 0 .. b : Lesser(a + 1, b) \in 0 .. b
        BY DEF Lesser
    <2>2. DUPS + 1 \in Nat /\ MAXRTX \in Nat /\ 1 \in 0 .. DUPS + 1
        BY Constants
    <2>3. Lesser(s.dups + 1, DUPS + 1) \in 0 .. DUPS + 1 /\ Lesser(s.tries + 1, MAXRTX) \in 0 .. MAXRTX
        BY <1>0, <2>1, <2>2, Zenon
    <2> QED BY <2>2, <2>3, Zenon
<1> HIDE DEF d, m
<1>2. t \in Sock /\ KeepsSend(s, t) /\ KeepsReceive(s, t)
    BY <1>0, <1>1, Zenon DEF Sock, KeepsSend, KeepsReceive
<1>3. t.out = s.out /\ t.advWin = s.advWin /\ t.ackPending = s.ackPending
    BY <1>0, Zenon DEF Sock
<1>4. v \in Sock /\ KeepsSend(s, v) /\ KeepsReceive(s, v)
    BY <1>0, <1>1, Zenon DEF Sock, KeepsSend, KeepsReceive
<1>5. v.out = s.out /\ v.advWin = s.advWin /\ v.ackPending = s.ackPending
    BY <1>0, Zenon DEF Sock
<1>6. r = IF plen # 0 \/ Flight(s) = 0 THEN s ELSE IF d # DUPS THEN t ELSE Resend(v)
    <2>1. [t EXCEPT !.tries = Lesser(@ + 1, MAXRTX)] = v
        <3>1. t.tries = s.tries
            BY <1>0, Zenon DEF Sock
        <3>2. [t EXCEPT !.tries = Lesser(@ + 1, MAXRTX)] = [t EXCEPT !.tries = m]
            BY <3>1 DEF m
        <3>3. [t EXCEPT !.tries = m] = v
            BY Zenon
        <3> QED BY <3>2, <3>3
    <2>2. r = IF plen # 0 \/ Flight(s) = 0 THEN s ELSE IF d # DUPS THEN t
              ELSE Resend([t EXCEPT !.tries = Lesser(@ + 1, MAXRTX)])
        BY DEF RepeatedAck, d
    <2> HIDE DEF t, v, r
    <2> QED BY <2>1, <2>2
<1> HIDE DEF t, v, r
<1>7. Sound(t, n, rd, p, e) /\ Sound(v, n, rd, p, e)
    BY <1>2, <1>3, <1>4, <1>5, SoundKept
<1>8. CASE plen # 0 \/ Flight(s) = 0
    <2>1. KeepsSend(s, s) /\ KeepsReceive(s, s)
        BY DEF KeepsSend, KeepsReceive
    <2> QED BY <1>6, <1>8, <2>1 DEF r
<1>9. CASE ~(plen # 0 \/ Flight(s) = 0) /\ d # DUPS
    BY <1>2, <1>6, <1>7, <1>9 DEF r
<1>10. CASE ~(plen # 0 \/ Flight(s) = 0) /\ d = DUPS
    <2>1. v.used = s.used /\ v.state = s.state /\ v.failed = s.failed
        BY <1>4 DEF KeepsSend
    <2>2. ~s.failed
        <3>1. s.failed => s.rtx = << >> /\ ~s.syn /\ ~s.fin
            BY <1>0 DEF SendPart
        <3>2. s.rtx = << >> => Len(s.rtx) = 0
            OBVIOUS
        <3>3. s.failed => Flight(s) = 0
            BY <1>0, <3>1, <3>2, FlightIs
        <3> QED BY <1>10, <3>3
    <2>3. Sound(Resend(v), n, rd, p, e) /\ KeepsSend(v, Resend(v)) /\ KeepsReceive(v, Resend(v))
        BY <1>7, <2>1, <2>2, ResendSound
    <2>4. KeepsSend(s, Resend(v)) /\ KeepsReceive(s, Resend(v))
        BY <1>4, <2>3, Zenon DEF KeepsSend, KeepsReceive
    <2> QED BY <1>6, <1>10, <2>3, <2>4 DEF r
<1> QED BY <1>8, <1>9, <1>10

\* The fields tcp_process_ack writes
Acked(s, rtx, fin, una, ack) ==
    [s EXCEPT !.syn = FALSE, !.rtx = rtx, !.fin = fin, !.una = una, !.dups = 0,
              !.lastAck = ack, !.tries = 0]

LEMMA AckedFacts ==
    ASSUME NEW s \in Sock, NEW rtx \in Seq(Nat), NEW fin \in BOOLEAN, NEW una \in Words,
           NEW ack \in Words
    PROVE  LET t == Acked(s, rtx, fin, una, ack)
           IN  /\ t \in Sock /\ KeepsReceive(s, t) /\ t.seq = s.seq
               /\ ~t.syn /\ t.rtx = rtx /\ t.fin = fin /\ t.una = una
               /\ t.out = s.out /\ t.advWin = s.advWin /\ t.ackPending = s.ackPending
<1> DEFINE t == Acked(s, rtx, fin, una, ack)
<1>1. 0 \in 0 .. DUPS + 1 /\ 0 \in 0 .. MAXRTX
    BY Constants
<1>2. t \in Sock
    BY <1>1, Zenon DEF Sock, Acked
<1>3. KeepsReceive(s, t)
    BY Zenon DEF Sock, Acked, KeepsReceive
<1>4. /\ t.seq = s.seq /\ ~t.syn /\ t.rtx = rtx /\ t.fin = fin /\ t.una = una
      /\ t.out = s.out /\ t.advWin = s.advWin /\ t.ackPending = s.ackPending
    BY Zenon DEF Sock, Acked
<1> QED BY <1>2, <1>3, <1>4

LEMMA FreshAckIs ==
    ASSUME NEW s \in Sock, NEW ack
    PROVE  LET n == Lesser((ack - s.una) % W, Flight(s))
               syn == IF s.syn THEN 1 ELSE 0
               take == Lesser(n - syn, Len(s.rtx))
           IN  FreshAck(s, ack) =
                 Acked(s, SubSeq(s.rtx, take + 1, Len(s.rtx)), s.fin /\ n - syn <= take,
                       Plus(s.una, n), ack)
BY Zenon DEF FreshAck, Acked

\* A cut of what is in flight
LEMMA TailIsSeq ==
    ASSUME NEW q \in Seq(Nat), NEW m \in Nat
    PROVE  /\ SubSeq(q, m + 1, Len(q)) \in Seq(Nat)
           /\ Len(SubSeq(q, m + 1, Len(q))) <= Len(q)
           /\ Len(SubSeq(q, m + 1, Len(q))) = IF m <= Len(q) THEN Len(q) - m ELSE 0
<1>1. m + 1 \in Int /\ Len(q) \in Int /\ Len(q) \in Nat
    BY LenProperties
<1>2. \A k \in m + 1 .. Len(q) : q[k] \in Nat
    BY <1>1, ElementOfSeq
<1>3. /\ SubSeq(q, m + 1, Len(q)) \in Seq(Nat)
      /\ Len(SubSeq(q, m + 1, Len(q))) = IF m + 1 <= Len(q) THEN Len(q) - (m + 1) + 1 ELSE 0
    BY <1>1, <1>2, SubSeqProperties
<1> QED BY <1>1, <1>3

LEMMA FreshAckSound ==
    ASSUME NEW s, NEW n \in 0 .. MaxOut, NEW rd \in Nat, NEW p \in PeerRec, NEW e \in Int,
           Sound(s, n, rd, p, e), s.used, s.state # "syn_sent",
           NEW k \in 1 .. p.got, p.got <= MaxOut + 2, SeqLt(s.una, Plus(ISS, k))
    PROVE  LET t == FreshAck(s, Plus(ISS, k))
           IN  Sound(t, n, rd, p, e) /\ KeepsReceive(s, t)
<1> DEFINE ack == Plus(ISS, k)
           d == (ack - s.una) % W
           m == Lesser(d, Flight(s))
           syn == IF s.syn THEN 1 ELSE 0
           take == Lesser(m - syn, Len(s.rtx))
           q == SubSeq(s.rtx, take + 1, Len(s.rtx))
           f == s.fin /\ m - syn <= take
           a == Plus(s.una, m)
           t == Acked(s, q, f, a, ack)
<1>0. /\ s \in Sock /\ SizesFit(s) /\ SendPart(s, n, p.got) /\ s.una \in Words
      /\ s.rtx \in Seq(Nat)
    BY Zenon DEF Sound, Sock
<1>1. n \in Nat /\ k \in Nat /\ p.got \in Nat /\ k <= p.got /\ k <= MaxOut + 2 /\ Len(s.rtx) \in Nat
    BY <1>0, LenProperties, Bounds DEF PeerRec
<1>2. ack \in Words
    <2>1. k \in 0 .. W
        BY <1>1, Bounds
    <2> QED BY <2>1, WordPlus, Constants
<1>3. ~s.syn /\ syn = 0
    <2>1. ~s.syn
        BY <1>0, SenderFacts, <1>1 DEF SendPart
    <2> QED BY <2>1, Zenon
<1>4. FreshAck(s, ack) = t
    BY <1>0, FreshAckIs
<1>5. /\ s.fin => Flight(s) = Len(s.rtx) + 1
      /\ ~s.fin => Flight(s) = Len(s.rtx)
    BY <1>0, <1>3, FlightIs
<1>6. d \in Nat
    BY <1>0, <1>2, Constants
<1> HIDE DEF d, syn
<1>7. m \in Nat /\ m - syn = m /\ take \in Nat /\ take <= Len(s.rtx) /\ m <= d /\ m <= Flight(s)
      /\ take <= m /\ (take = m \/ take = Len(s.rtx))
    BY <1>1, <1>3, <1>5, <1>6, SMTT(30) DEF Lesser
<1> HIDE DEF m, take
<1>8. q \in Seq(Nat) /\ Len(q) <= Len(s.rtx)
    BY <1>0, <1>7, TailIsSeq
<1>9. a \in Words /\ f \in BOOLEAN
    <2>1. a \in Words
        BY <1>0, <1>7, Constants, SMTT(30) DEF Plus
    <2> QED BY <2>1
<1> HIDE DEF q, f, a
<1>10. /\ t \in Sock /\ KeepsReceive(s, t) /\ t.seq = s.seq
       /\ ~t.syn /\ t.rtx = q /\ t.fin = f /\ t.una = a
       /\ t.out = s.out /\ t.advWin = s.advWin /\ t.ackPending = s.ackPending
    BY <1>0, <1>2, <1>8, <1>9, AckedFacts
<1>11. /\ t.used = s.used /\ t.state = s.state /\ t.failed = s.failed
       /\ t.appClosed = s.appClosed /\ t.rx = s.rx /\ t.ro = s.ro /\ t.ack = s.ack
    BY <1>10 DEF KeepsReceive
<1> HIDE DEF t, ack
<1>12. SendPart(t, n, p.got)
    <2>1. CASE s.failed
        <3>1. s.state = "closed" /\ s.rtx = << >> /\ ~s.fin
            BY <1>0, <2>1 DEF SendPart
        <3>2. Len(s.rtx) = 0
            BY <3>1
        <3>3. Len(q) = 0 /\ ~f
            <4>1. ~f
                BY <3>1 DEF f
            <4>2. Len(q) \in Nat
                BY <1>8, LenProperties
            <4> QED BY <1>8, <3>2, <4>1, <4>2
        <3>4. q = << >>
            BY <1>8, <3>3, EmptySeq
        <3> QED BY <1>10, <1>11, <2>1, <3>1, <3>3, <3>4 DEF SendPart
    <2>2. CASE ~s.failed
        <3> DEFINE u == PlaceOut(s.una)
        <3>1. /\ u \in Nat /\ 1 <= u /\ u <= p.got /\ u <= n + 2 /\ s.una = Plus(ISS, u)
              /\ s.rtx = Numbers(u, n) /\ Len(s.rtx) = (IF u <= n THEN n - u + 1 ELSE 0)
              /\ IF s.state = "established"
                 THEN u <= n + 1 /\ ~s.fin /\ s.seq = Plus(ISS, n + 1) /\ ~s.appClosed
                 ELSE (s.fin <=> u <= n + 1) /\ s.seq = Plus(ISS, n + 2)
            BY <1>0, <1>1, <2>2, SenderFacts
        <3> HIDE DEF u
        <3>2. u < k /\ d = k - u
            <4>1. u < W \div 2 /\ k < W \div 2 /\ k \in 0 .. W - 1 /\ u \in 0 .. W
                BY <1>1, <3>1, Constants
            <4>2. SeqLt(Plus(ISS, u), Plus(ISS, k)) <=> u < k
                BY <1>1, <3>1, <4>1, WordOrder, Constants
            <4>3. (Plus(ISS, k) - Plus(ISS, u)) % W = IF k < u THEN (k - u) + W ELSE k - u
                BY <4>1, WordDistance, Constants
            <4>4. u < k
                BY <3>1, <4>2
            <4>5. d = IF k < u THEN (k - u) + W ELSE k - u
                BY <3>1, <4>3 DEF d, ack
            <4> QED BY <1>1, <3>1, <4>4, <4>5
        <3>3. u + m \in Nat /\ 1 <= u + m /\ u + m <= p.got /\ u + m <= n + 2
            BY <1>1, <1>5, <1>7, <3>1, <3>2
        <3>4. a = Plus(ISS, u + m)
            <4>1. u + m <= W
                BY <1>1, <3>3, Bounds
            <4> QED BY <1>7, <3>1, <4>1, WordSum, Constants DEF a
        <3>5. q = Numbers(u + m, n)
            <4>1. q = Numbers(u + take, n)
                <5>1. take <= Len(Numbers(u, n)) /\ n \in Int
                    BY <1>1, <1>7, <3>1
                <5>2. SubSeq(Numbers(u, n), take + 1, Len(Numbers(u, n))) = Numbers(u + take, n)
                    BY <1>7, <3>1, <5>1, NumbersTail
                <5> QED BY <3>1, <5>2 DEF q
            <4>2. CASE take = m
                BY <4>1, <4>2
            <4>3. CASE take = Len(s.rtx) /\ take # m
                <5>1. n < u + take /\ n < u + m /\ n \in Int /\ u + take \in Nat
                    BY <1>1, <1>5, <1>7, <3>1, <4>3
                <5>2. Numbers(u + take, n) = << >> /\ Numbers(u + m, n) = << >>
                    BY <3>3, <5>1, NumbersEmpty
                <5> QED BY <4>1, <5>2
            <4> QED BY <1>7, <4>2, <4>3
        <3>6. CASE s.state = "established"
            <4>1. ~f
                BY <3>1, <3>6 DEF f
            <4>2. u + m <= n + 1
                BY <1>1, <1>5, <1>7, <3>1, <3>6
            <4> QED BY <1>1, <1>10, <1>11, <2>2, <3>1, <3>3, <3>4, <3>5, <3>6, <4>1, <4>2,
                       SenderMade
        <3>7. CASE s.state # "established"
            <4>1. f <=> u + m <= n + 1
                <5>1. f <=> s.fin /\ m <= take
                    BY <1>7 DEF f
                <5> HIDE DEF f
                <5> QED BY <1>1, <1>5, <1>7, <3>1, <3>3, <3>7, <5>1, SMTT(30)
            <4>2. t.fin <=> u + m <= n + 1
                BY <1>10, <4>1
            <4> QED BY <1>1, <1>10, <1>11, <2>2, <3>1, <3>3, <3>4, <3>5, <3>7, <4>2, SenderMade
        <3> QED BY <3>6, <3>7
    <2> QED BY <2>1, <2>2
<1>13. SizesFit(t)
    <2>1. Len(q) \in Nat /\ RTXCAP \in Nat
        BY <1>8, LenProperties, Constants
    <2> QED BY <1>0, <1>1, <1>8, <1>10, <1>11, <2>1 DEF SizesFit
<1>14. ReceivePart(t, rd, p)
    BY <1>10, ReceiveKept DEF Sound
<1>15. OutPart(t, n, rd)
    BY <1>10, <1>11, OutKept DEF Sound, Opening
<1>16. WindowSizes => ReopenPart(t, e)
    BY <1>10, <1>11, ReopenKept DEF Sound
<1>17. Sound(t, n, rd, p, e) /\ KeepsReceive(s, t)
    BY <1>10, <1>12, <1>13, <1>14, <1>15, <1>16 DEF Sound
<1> QED BY <1>4, <1>17 DEF ack

\* tcp_process_ack of an acknowledgement the peer may have sent
LEMMA ProcessAckSound ==
    ASSUME NEW s, NEW n \in 0 .. MaxOut, NEW rd \in Nat, NEW p \in PeerRec, NEW e \in Int,
           Sound(s, n, rd, p, e), s.used, s.state # "syn_sent",
           NEW k \in 1 .. p.got, p.got <= MaxOut + 2, NEW plen
    PROVE  LET t == ProcessAck(s, Plus(ISS, k), plen)
           IN  Sound(t, n, rd, p, e) /\ KeepsReceive(s, t)
<1>1. Plus(ISS, k) \in Words
    <2>1. k \in 0 .. W
        BY Bounds DEF PeerRec
    <2> QED BY <2>1, WordPlus, Constants
<1>2. CASE SeqLt(s.una, Plus(ISS, k))
    BY <1>2, FreshAckSound DEF ProcessAck
<1>3. CASE ~SeqLt(s.una, Plus(ISS, k))
    BY <1>1, <1>3, RepeatedAckSound DEF ProcessAck
<1> QED BY <1>2, <1>3

-----------------------------------------------------------------------------
(* The FIN                                                                 *)

LEMMA SendFinFacts ==
    ASSUME NEW x \in Sock, Len(x.rx) <= RXCAP
    PROVE  LET y == SendFin(x)
           IN  /\ y \in Sock /\ y.state = "fin_wait" /\ y.fin /\ y.seq = Plus(x.seq, 1)
               /\ y.used = x.used /\ y.failed = x.failed /\ y.appClosed = x.appClosed
               /\ y.syn = x.syn /\ y.rtx = x.rtx /\ y.una = x.una
               /\ y.rx = x.rx /\ y.ack = x.ack /\ y.peerClosed = x.peerClosed
               /\ y.finPending = x.finPending /\ y.finSeq = x.finSeq /\ y.ro = x.ro
               /\ \A h \in y.out : h \in x.out \/ (arp /\ h.seq = x.seq /\ h.data = << >> /\ ~h.syn)
<1> DEFINE z == [x EXCEPT !.fin = TRUE]
           sq == x.seq
           no == FALSE
           yes == TRUE
           none == << >>
           t == Transmit(z, sq, none, no, yes)
           q == Plus(x.seq, 1)
           y == [t EXCEPT !.seq = q, !.state = "fin_wait"]
<1>0. sq \in Words /\ none \in Seq(Nat) /\ yes \in BOOLEAN /\ no \in BOOLEAN
    BY Zenon, EmptySeq DEF Sock
<1>1. /\ z \in Sock /\ z.fin /\ z.seq = x.seq /\ z.used = x.used /\ z.failed = x.failed
      /\ z.appClosed = x.appClosed /\ z.syn = x.syn /\ z.rtx = x.rtx /\ z.una = x.una
      /\ z.rx = x.rx /\ z.ack = x.ack /\ z.peerClosed = x.peerClosed
      /\ z.finPending = x.finPending /\ z.finSeq = x.finSeq /\ z.ro = x.ro /\ z.out = x.out
    BY Zenon DEF Sock
<1> HIDE DEF z, sq, no, yes, none
<1>2. /\ t \in Sock /\ KeepsSend(z, t) /\ KeepsReceive(z, t)
      /\ \A h \in t.out : h \in z.out \/ (arp /\ h.seq = sq /\ h.data = none /\ h.syn = no)
    <2>1. Len(z.rx) <= RXCAP /\ z \in Sock
        BY <1>1
    <2>2. t \in Sock /\ KeepsSend(z, t) /\ KeepsReceive(z, t)
        BY <1>0, <2>1, TransmitFacts
    <2>3. \A h \in t.out : h \in z.out \/ (arp /\ h.seq = sq /\ h.data = none /\ h.syn = no)
        BY <2>1, TransmitOut
    <2> QED BY <2>2, <2>3
<1>3. \A h \in t.out : h \in x.out \/ (arp /\ h.seq = x.seq /\ h.data = << >> /\ ~h.syn)
    BY <1>1, <1>2 DEF sq, none, no
<1>4. SendFin(x) = y
    <2>1. t.seq = x.seq
        BY <1>1, <1>2 DEF KeepsSend
    <2> QED BY <2>1, Zenon DEF SendFin, z, sq, no, yes, none
<1> HIDE DEF t
<1>5. q \in Words
    <2>1. 1 \in 0 .. W
        BY Bounds
    <2> QED BY <1>0, <2>1, WordPlus DEF sq
<1> HIDE DEF q
<1>6. /\ y \in Sock /\ y.state = "fin_wait" /\ y.fin = t.fin /\ y.seq = q
      /\ y.used = t.used /\ y.failed = t.failed /\ y.appClosed = t.appClosed
      /\ y.syn = t.syn /\ y.rtx = t.rtx /\ y.una = t.una
    BY <1>2, <1>5, Zenon DEF Sock
<1>7. /\ y.rx = t.rx /\ y.ack = t.ack /\ y.peerClosed = t.peerClosed
      /\ y.finPending = t.finPending /\ y.finSeq = t.finSeq /\ y.ro = t.ro /\ y.out = t.out
    BY <1>2, Zenon DEF Sock
<1> HIDE DEF y
<1>8. /\ y.fin = z.fin /\ y.used = z.used /\ y.failed = z.failed /\ y.appClosed = z.appClosed
      /\ y.syn = z.syn /\ y.rtx = z.rtx /\ y.una = z.una
      /\ y.rx = z.rx /\ y.ack = z.ack /\ y.peerClosed = z.peerClosed
      /\ y.finPending = z.finPending /\ y.finSeq = z.finSeq /\ y.ro = z.ro
    BY <1>2, <1>6, <1>7, Zenon DEF KeepsSend, KeepsReceive
<1> QED BY <1>1, <1>3, <1>4, <1>6, <1>7, <1>8 DEF q

\* The sender's side of closing an established connection
LEMMA SendFinSends ==
    ASSUME NEW s, NEW n \in 0 .. MaxOut, NEW rd \in Nat, NEW p \in PeerRec, NEW e \in Int,
           Sound(s, n, rd, p, e), s.used, s.state = "established",
           NEW x \in Sock, SizesFit(x), x.used, x.failed = s.failed, x.syn = s.syn,
           x.rtx = s.rtx, x.una = s.una, x.seq = s.seq, x.out = s.out
    PROVE  LET y == SendFin(x)
           IN  /\ y \in Sock /\ SizesFit(y) /\ SendPart(y, n, p.got) /\ OutPart(y, n, rd)
               /\ ReopenPart(y, e) /\ y.used /\ y.state = "fin_wait" /\ ~y.failed
               /\ y.appClosed = x.appClosed /\ y.rx = x.rx /\ y.ack = x.ack
               /\ y.peerClosed = x.peerClosed /\ y.finPending = x.finPending
               /\ y.finSeq = x.finSeq
<1> DEFINE y == SendFin(x)
           u == PlaceOut(s.una)
<1>0. SendPart(s, n, p.got) /\ OutPart(s, n, rd) /\ p.got \in Nat /\ n \in Nat
    BY DEF Sound, PeerRec
<1>1. ~s.failed
    BY EstablishedFacts
<1>2. /\ y \in Sock /\ y.state = "fin_wait" /\ y.fin /\ y.seq = Plus(x.seq, 1)
      /\ y.used = x.used /\ y.failed = x.failed /\ y.appClosed = x.appClosed
      /\ y.syn = x.syn /\ y.rtx = x.rtx /\ y.una = x.una
      /\ y.rx = x.rx /\ y.ack = x.ack /\ y.peerClosed = x.peerClosed
      /\ y.finPending = x.finPending /\ y.finSeq = x.finSeq /\ y.ro = x.ro
      /\ \A h \in y.out : h \in x.out \/ (arp /\ h.seq = x.seq /\ h.data = << >> /\ ~h.syn)
    BY SendFinFacts DEF SizesFit
<1> HIDE DEF y
<1>3. /\ u \in Nat /\ 1 <= u /\ u <= p.got /\ s.una = Plus(ISS, u)
      /\ ~s.syn /\ s.rtx = Numbers(u, n) /\ u <= n + 1 /\ s.seq = Plus(ISS, n + 1)
    BY <1>0, <1>1, SenderFacts
<1> HIDE DEF u
<1>4. y.seq = Plus(ISS, n + 2)
    <2>1. n + 1 \in Nat /\ 1 \in Nat /\ (n + 1) + 1 <= W /\ (n + 1) + 1 = n + 2
        BY <1>0, Bounds
    <2>2. Plus(Plus(ISS, n + 1), 1) = Plus(ISS, (n + 1) + 1)
        BY <2>1, WordSum, Constants
    <2> QED BY <1>2, <1>3, <2>1, <2>2
<1>5. SendPart(y, n, p.got)
    <2>1. y.fin <=> u <= n + 1
        BY <1>2, <1>3
    <2>2. u <= n + 2 /\ ~y.failed /\ ~y.syn /\ y.una = Plus(ISS, u) /\ y.rtx = Numbers(u, n)
        BY <1>0, <1>1, <1>2, <1>3
    <2> QED BY <1>0, <1>2, <1>3, <1>4, <2>1, <2>2, SenderMade
<1>6. OutPart(y, n, rd)
    <2>1. ~Opening(y)
        BY <1>2 DEF Opening
    <2>2. ASSUME NEW h \in y.out
          PROVE  arp /\ SegmentRight(h, n) /\ (h.syn => Edge(h) >= Lesser(RXCAP, WINMAX))
        <3>1. CASE h \in x.out
            BY <1>0, <3>1 DEF OutPart
        <3>2. CASE arp /\ h.seq = x.seq /\ h.data = << >> /\ ~h.syn
            <4>1. PlaceOut(h.seq) = n + 1
                <5>1. n + 1 \in 0 .. W - 1
                    BY <1>0, Bounds
                <5> QED BY <1>3, <3>2, <5>1, Places
            <4>2. DOMAIN h.data = {} /\ Len(h.data) = 0
                BY <3>2
            <4>3. PlaceOut(h.seq) + Len(h.data) = n + 1
                BY <1>0, <4>1, <4>2
            <4> QED BY <3>2, <4>2, <4>3 DEF SegmentRight
        <3> QED BY <1>2, <3>1, <3>2
    <2> QED BY <2>1, <2>2 DEF OutPart
<1>7. SizesFit(y) /\ ReopenPart(y, e)
    BY <1>2 DEF SizesFit, ReopenPart
<1> QED BY <1>1, <1>2, <1>5, <1>6, <1>7 DEF y

-----------------------------------------------------------------------------
(* Received data                                                           *)

\* An established socket s while data goes into it: t is what it has become.
Mid(s, t, rd, p) ==
    /\ t \in Sock /\ SizesFit(t) /\ KeepsSend(s, t) /\ t.out = s.out /\ ~t.peerClosed
    /\ t.finPending = s.finPending /\ t.finSeq = s.finSeq
    /\ t.rx = Numbers(rd + 1, rd + Len(t.rx)) /\ rd + Len(t.rx) <= p.sent
    /\ t.ack = Plus(IRS, rd + Len(t.rx) + 1)
    /\ \A r \in t.ro : HeldPiece(r, p.sent)

LEMMA MidStarts ==
    ASSUME NEW s, NEW n, NEW rd \in Nat, NEW p \in PeerRec, NEW e,
           Sound(s, n, rd, p, e), s.used, s.state = "established"
    PROVE  Mid(s, s, rd, p)
BY EstablishedFacts DEF Mid, Sound, KeepsSend

\* A run followed by the first m of the next numbers
LEMMA NumbersGrow ==
    ASSUME NEW r \in Nat, NEW g \in Nat, NEW x \in Nat, NEW b \in Nat, NEW m \in Nat,
           NEW h \in Nat, r <= x, x = g + 1, h = g + m, h <= b
    PROVE  Joined(Numbers(r, g), SubSeq(Numbers(x, b), 1, m)) = Numbers(r, h)
<1>1. b \in Int /\ g \in Int /\ h \in Int /\ g <= h /\ x + m - 1 = h
    OBVIOUS
<1>2. m <= Len(Numbers(x, b))
    <2>1. Len(Numbers(x, b)) = IF x <= b THEN b - x + 1 ELSE 0
        BY <1>1, NumbersFacts
    <2> QED BY <2>1
<1>3. SubSeq(Numbers(x, b), 1, m) = Numbers(x, h)
    <2>1. SubSeq(Numbers(x, b), 1, m) = Numbers(x, x + m - 1)
        BY <1>1, <1>2, NumbersHead
    <2> QED BY <1>1, <2>1
<1>4. Joined(Numbers(r, g), Numbers(x, h)) = Numbers(r, h)
    BY <1>1, NumbersJoin
<1> QED BY <1>3, <1>4, Zenon

\* The bytes up to b that come next
Follows(data, t, rd, p, b) ==
    /\ b \in Nat /\ rd + Len(t.rx) <= b /\ b <= p.sent
    /\ data = Numbers(rd + Len(t.rx) + 1, b)

\* The ring of v is that of t with as much of the data as there was room for.
Grown(t, v, data, rd, b) ==
    /\ Len(data) = b - (rd + Len(t.rx))
    /\ Len(v.rx) = Len(t.rx) + Lesser(Len(data), RXCAP - Len(t.rx))

\* tcp_rx_put of the next bytes of the stream
LEMMA RxPutMid ==
    ASSUME NEW s, NEW t, NEW rd \in Nat, NEW p \in PeerRec, Mid(s, t, rd, p),
           NEW b, NEW data, Follows(data, t, rd, p, b)
    PROVE  /\ Mid(s, RxPut(t, data), rd, p) /\ RxPut(t, data).ro = t.ro
           /\ RxPut(t, data).ackPending = t.ackPending
           /\ Grown(t, RxPut(t, data), data, rd, b)
<1> DEFINE l == Len(t.rx)
           g == rd + l
           c0 == RXCAP - l
           m == Lesser(Len(data), c0)
           x == Joined(t.rx, SubSeq(data, 1, m))
           a == Plus(t.ack, m)
           v == [t EXCEPT !.rx = x, !.ack = a]
<1>0. /\ t \in Sock /\ t.rx \in Seq(Nat) /\ t.ack \in Words /\ l \in Nat /\ l <= RXCAP
      /\ p.sent \in Nat /\ p.sent <= MaxIn
    <2>1. t \in Sock /\ t.rx \in Seq(Nat) /\ t.ack \in Words
        BY Zenon DEF Mid, Sock
    <2> QED BY <2>1, LenProperties, Bounds DEF Mid, SizesFit, PeerRec
<1>1. /\ t.rx = Numbers(rd + 1, g) /\ g <= p.sent /\ t.ack = Plus(IRS, g + 1) /\ g \in Nat
      /\ g <= b /\ g = rd + l /\ data = Numbers(g + 1, b) /\ b \in Nat /\ b <= p.sent
    BY <1>0 DEF Mid, Follows
<1>2. c0 \in Nat /\ c0 = RXCAP - l
    BY <1>0, Bounds
<1> HIDE DEF l, g, c0
<1>3. /\ Len(data) = b - g /\ m \in Nat /\ m <= c0 /\ g + m <= b
      /\ Joined(Numbers(rd + 1, g), SubSeq(data, 1, m)) = Numbers(rd + 1, g + m)
      /\ Numbers(rd + 1, g + m) \in Seq(Nat) /\ Len(Numbers(rd + 1, g + m)) = l + m
    <2> DEFINE r1 == rd + 1
               g1 == g + 1
               h == g + m
               d == Len(data)
    <2>1. g1 \in Nat /\ b \in Int /\ data = Numbers(g1, b) /\ g1 = g + 1
        BY <1>1
    <2> HIDE DEF g1, d
    <2>2. d = IF g1 <= b THEN b - g1 + 1 ELSE 0
        <3>1. Len(Numbers(g1, b)) = IF g1 <= b THEN b - g1 + 1 ELSE 0
            BY <2>1, NumbersFacts, Zenon
        <3> QED BY <2>1, <3>1, Zenon DEF d
    <2>3. d \in Nat /\ d = b - g
        BY <1>1, <2>1, <2>2
    <2>4. m \in Nat /\ m <= c0 /\ g + m <= b
        <3>1. m = Lesser(d, c0)
            BY DEF d
        <3> HIDE DEF m
        <3>2. m = IF d < c0 THEN d ELSE c0
            BY <3>1 DEF Lesser
        <3> QED BY <1>1, <1>2, <2>3, <3>2
    <2>5. /\ r1 \in Nat /\ h \in Nat /\ h \in Int /\ g \in Nat /\ m \in Nat /\ g1 \in Nat
          /\ r1 <= g1 /\ h = g + m /\ h <= b /\ g1 = g + 1
        <3> HIDE DEF m
        <3> QED BY <1>0, <1>1, <2>1, <2>4
    <2>6. /\ Numbers(r1, h) \in Seq(Nat) /\ Len(Numbers(r1, h)) = l + m
        <3> DEFINE n == l + m
        <3>1. n \in Nat /\ r1 + n = h + 1
            <4> HIDE DEF m
            <4> QED BY <1>0, <1>1, <2>4
        <3> HIDE DEF n, r1, h, m
        <3>2. Numbers(r1, h) \in Seq(Nat) /\ Len(Numbers(r1, h)) = n
            BY <2>5, <3>1, NumbersLen
        <3> QED BY <3>2 DEF n
    <2> HIDE DEF r1, h, m
    <2>7. Joined(Numbers(r1, g), SubSeq(Numbers(g1, b), 1, m)) = Numbers(r1, h)
        <3>1. b \in Nat
            BY <1>1
        <3> QED BY <2>5, <3>1, NumbersGrow, SMTT(30)
    <2> QED BY <2>1, <2>3, <2>4, <2>6, <2>7, Zenon DEF r1, h, d
<1> HIDE DEF m
<1>5. x = Numbers(rd + 1, g + m)
    BY <1>1, <1>3
<1>6. x \in Seq(Nat) /\ Len(x) = l + m /\ m <= RXCAP - l
    BY <1>2, <1>3, <1>5
<1>7. a = Plus(IRS, g + m + 1) /\ a \in Words
    <2>1. g + 1 \in Nat /\ (g + 1) + m <= W /\ (g + 1) + m = g + m + 1 /\ (g + 1) + m \in 0 .. W
        BY <1>0, <1>1, <1>3, Bounds
    <2>2. Plus(Plus(IRS, g + 1), m) = Plus(IRS, (g + 1) + m)
        BY <1>3, <2>1, WordSum, Constants
    <2>3. Plus(IRS, (g + 1) + m) \in Words
        BY <2>1, WordPlus, Constants
    <2> QED BY <1>1, <2>1, <2>2, <2>3
<1> HIDE DEF x, a
<1>8. RxPut(t, data) = v
    BY Zenon DEF RxPut, m, x, a, l, c0, Joined
<1>9. v \in Sock /\ KeepsSend(t, v)
    BY <1>0, <1>6, <1>7, Zenon DEF Sock, KeepsSend
<1>10. /\ v.out = t.out /\ v.peerClosed = t.peerClosed /\ v.finPending = t.finPending
       /\ v.finSeq = t.finSeq /\ v.rx = x /\ v.ack = a /\ v.ro = t.ro
       /\ v.ackPending = t.ackPending
    BY <1>0, Zenon DEF Sock
<1> HIDE DEF v
<1>11. KeepsSend(s, v)
    BY <1>9 DEF Mid, KeepsSend
<1>12. SizesFit(v)
    <2>1. v.rtx = t.rtx /\ Len(v.rx) = l + m /\ l + m <= RXCAP
        <3>1. l + m <= RXCAP
            BY <1>0, <1>3, <1>6, Bounds
        <3> QED BY <1>6, <1>9, <1>10, <3>1 DEF KeepsSend
    <2> QED BY <1>10, <2>1 DEF Mid, SizesFit
<1>13. rd + Len(v.rx) = g + m /\ g + m <= p.sent
    <2>1. /\ Len(v.rx) = l + m /\ g = rd + l /\ g \in Nat /\ g + m <= b /\ b \in Nat
          /\ b <= p.sent /\ m \in Nat
        BY <1>1, <1>3, <1>6, <1>10
    <2> HIDE DEF l, g, m
    <2> QED BY <1>0, <2>1
<1>14. Mid(s, v, rd, p)
    BY <1>5, <1>7, <1>9, <1>10, <1>11, <1>12, <1>13 DEF Mid
<1>15. Len(v.rx) = l + m
    BY <1>6, <1>10
<1>16. Grown(t, v, data, rd, b)
    BY <1>3, <1>15 DEF Grown, l, g, m, c0
<1> QED BY <1>8, <1>10, <1>14, <1>16

\* What is held only shrinks.
LEMMA HeldShrinks ==
    ASSUME NEW s, NEW t, NEW rd, NEW p, Mid(s, t, rd, p), NEW q, q \subseteq t.ro
    PROVE  LET v == [t EXCEPT !.ro = q]
           IN  /\ Mid(s, v, rd, p) /\ v.ackPending = t.ackPending /\ v.rx = t.rx
               /\ v.ack = t.ack
<1> DEFINE v == [t EXCEPT !.ro = q]
<1>1. t \in Sock /\ t.ro \subseteq Held
    BY Zenon DEF Mid, Sock
<1>2. q \in SUBSET Held
    BY <1>1
<1>3. v \in Sock /\ KeepsSend(t, v)
    BY <1>1, <1>2, Zenon DEF Sock, KeepsSend
<1>4. /\ v.out = t.out /\ v.peerClosed = t.peerClosed /\ v.finPending = t.finPending
      /\ v.finSeq = t.finSeq /\ v.rx = t.rx /\ v.ack = t.ack /\ v.ro = q
      /\ v.ackPending = t.ackPending
    BY <1>1, Zenon DEF Sock
<1> HIDE DEF v
<1>5. KeepsSend(s, v) /\ v.rtx = t.rtx
    BY <1>3 DEF Mid, KeepsSend
<1>6. SizesFit(v)
    <2>1. IsFiniteSet(t.ro) /\ Cardinality(t.ro) <= NREORDER
        BY DEF Mid, SizesFit
    <2>2. IsFiniteSet(q) /\ Cardinality(q) <= Cardinality(t.ro)
        BY <2>1, FS_Subset
    <2>3. Cardinality(q) \in Nat /\ Cardinality(t.ro) \in Nat /\ NREORDER \in Nat
        BY <2>1, <2>2, FS_CardinalityType, Constants
    <2>4. Cardinality(q) <= NREORDER
        BY <2>1, <2>2, <2>3
    <2> QED BY <1>4, <1>5, <2>2, <2>4 DEF Mid, SizesFit
<1>7. Mid(s, v, rd, p) /\ v.ackPending = t.ackPending /\ v.rx = t.rx /\ v.ack = t.ack
    BY <1>3, <1>4, <1>5, <1>6 DEF Mid
<1> QED BY <1>7 DEF v

LEMMA DrainOneMid ==
    ASSUME NEW s, NEW t, NEW rd \in Nat, NEW p \in PeerRec, Mid(s, t, rd, p)
    PROVE  Mid(s, DrainOne(t), rd, p) /\ DrainOne(t).ackPending = t.ackPending
<1>1. CASE Continuing(t) = {}
    BY <1>1 DEF DrainOne
<1>2. CASE Continuing(t) # {}
    <2> DEFINE r == CHOOSE r \in Continuing(t) : TRUE
               l == Len(t.rx)
               v == RxPut(t, r.data)
    <2>1. r \in t.ro /\ r.seq = t.ack /\ Len(r.data) <= RXCAP - l
        <3>1. r \in Continuing(t)
            BY <1>2
        <3> HIDE DEF r
        <3> QED BY <3>1 DEF Continuing
    <2>2. DrainOne(t) = [v EXCEPT !.ro = v.ro \ {r}]
        BY <1>2, Zenon DEF DrainOne
    <2> HIDE DEF r
    <2>3. PICK a \in 1 .. p.sent :
              /\ r.seq = Plus(IRS, a) /\ Len(r.data) > 0 /\ a + Len(r.data) <= p.sent + 1
              /\ r.data = Numbers(a, a + Len(r.data) - 1)
        BY <2>1 DEF Mid, HeldPiece
    <2>4. /\ p.sent \in Nat /\ p.sent <= MaxIn /\ l \in Nat /\ l <= RXCAP /\ rd + l <= p.sent
          /\ t.ack = Plus(IRS, rd + l + 1) /\ Len(r.data) \in Nat
        <3>1. t.rx \in Seq(Nat) /\ t.ro \subseteq Held
            BY Zenon DEF Mid, Sock
        <3>2. r.data \in Seq(Nat)
            BY <2>1, <3>1 DEF Held
        <3> QED BY <3>1, <3>2, LenProperties, Bounds DEF Mid, SizesFit, PeerRec
    <2>5. a = rd + l + 1
        <3>1. a \in 0 .. W - 1 /\ rd + l + 1 \in 0 .. W - 1
            BY <2>4, Bounds
        <3>2. Plus(IRS, a) = Plus(IRS, rd + l + 1)
            BY <2>1, <2>3, <2>4
        <3> QED BY <3>1, <3>2, WordEqual, Constants
    <2> DEFINE b == rd + l + Len(r.data)
    <2>6. b \in Nat /\ rd + l <= b /\ b <= p.sent /\ a + Len(r.data) - 1 = b
        <3> DEFINE k == Len(r.data)
        <3>1. k \in Nat /\ a + k <= p.sent + 1 /\ b = rd + l + k
            BY <2>3, <2>4
        <3> HIDE DEF k, l, b
        <3>2. b \in Nat /\ rd + l <= b /\ b <= p.sent /\ a + k - 1 = b
            BY <2>4, <2>5, <3>1
        <3> QED BY <3>2 DEF k
    <2> HIDE DEF b
    <2>7. r.data = Numbers(rd + l + 1, b)
        BY <2>3, <2>5, <2>6
    <2>8. Mid(s, v, rd, p) /\ v.ackPending = t.ackPending
        <3>1. b \in Nat /\ rd + Len(t.rx) <= b /\ b <= p.sent
            BY <2>6
        <3>2. r.data = Numbers(rd + Len(t.rx) + 1, b)
            BY <2>7
        <3> DEFINE data == r.data
        <3>3. Follows(data, t, rd, p, b) /\ v = RxPut(t, data)
            BY <3>1, <3>2 DEF Follows
        <3> HIDE DEF data, v, l
        <3>4. Mid(s, RxPut(t, data), rd, p) /\ RxPut(t, data).ackPending = t.ackPending
            BY <3>3, RxPutMid
        <3> QED BY <3>3, <3>4
    <2> HIDE DEF v
    <2>9. v.ro \ {r} \subseteq v.ro
        OBVIOUS
    <2>10. /\ Mid(s, [v EXCEPT !.ro = v.ro \ {r}], rd, p)
           /\ [v EXCEPT !.ro = v.ro \ {r}].ackPending = v.ackPending
        BY <2>8, <2>9, HeldShrinks
    <2> QED BY <2>2, <2>8, <2>10
<1> QED BY <1>1, <1>2


\* The socket after each of the steps of tcp_deliver_in_order's loop
Drains(t) ==
    CHOOSE f : f = [n \in 0 .. NREORDER |-> IF n = 0 THEN t ELSE DrainOne(f[n - 1])]

LEMMA DrainsExist ==
    ASSUME NEW t, NEW m \in Nat
    PROVE  \E f : f = [n \in 0 .. m |-> IF n = 0 THEN t ELSE DrainOne(f[n - 1])]
<1> DEFINE P(k) == \E f : f = [n \in 0 .. k |-> IF n = 0 THEN t ELSE DrainOne(f[n - 1])]
           Bad == {k \in Nat : ~P(k)}
<1>1. P(0)
    <2> DEFINE f == [n \in 0 .. 0 |-> t]
    <2>1. f = [n \in 0 .. 0 |-> IF n = 0 THEN t ELSE DrainOne(f[n - 1])]
        OBVIOUS
    <2> QED BY <2>1
<1>2. ASSUME NEW k \in Nat, k # 0, P(k - 1) PROVE P(k)
    <2>1. PICK f : f = [n \in 0 .. k - 1 |-> IF n = 0 THEN t ELSE DrainOne(f[n - 1])]
        BY <1>2
    <2> DEFINE g == [n \in 0 .. k |-> IF n = k THEN DrainOne(f[k - 1]) ELSE f[n]]
               h == [n \in 0 .. k |-> IF n = 0 THEN t ELSE DrainOne(g[n - 1])]
    <2>2. ASSUME NEW n \in 0 .. k PROVE g[n] = h[n]
        <3>1. CASE n = k
            <4>1. n - 1 \in 0 .. k /\ n - 1 # k /\ n # 0 /\ n - 1 = k - 1
                BY <1>2, <3>1
            <4>2. g[n - 1] = f[n - 1]
                BY <4>1
            <4> QED BY <3>1, <4>1, <4>2
        <3>2. CASE n # k /\ n = 0
            <4>1. n \in 0 .. k - 1
                BY <1>2, <3>2
            <4> QED BY <2>1, <3>2, <4>1
        <3>3. CASE n # k /\ n # 0
            <4>1. n \in 0 .. k - 1 /\ n - 1 \in 0 .. k /\ n - 1 # k
                BY <3>3
            <4>2. f[n] = DrainOne(f[n - 1])
                BY <2>1, <3>3, <4>1
            <4>3. g[n - 1] = f[n - 1]
                BY <4>1
            <4> QED BY <3>3, <4>2, <4>3
        <3> QED BY <3>1, <3>2, <3>3
    <2>3. g = h
        <3> HIDE DEF g
        <3>1. g = [n \in 0 .. k |-> g[n]]
            BY DEF g
        <3> QED BY <2>2, <3>1
    <2> QED BY <2>3
<1> HIDE DEF P
<1>3. Bad = {}
    <2> SUFFICES ASSUME Bad # {} PROVE FALSE
        OBVIOUS
    <2> DEFINE k == Min(Bad)
    <2>1. k \in Bad /\ \A y \in Bad : k <= y
        BY MinIn
    <2> HIDE DEF k
    <2>2. k \in Nat /\ ~P(k) /\ k # 0
        BY <1>1, <2>1
    <2>3. k - 1 \in Nat /\ ~(k <= k - 1)
        BY <2>2
    <2>4. P(k - 1)
        BY <2>1, <2>3
    <2> QED BY <1>2, <2>2, <2>4
<1>4. P(m)
    BY <1>3
<1> QED BY <1>4 DEF P

LEMMA DrainsAre ==
    ASSUME NEW t
    PROVE  /\ Drains(t)[0] = t
           /\ \A n \in 1 .. NREORDER : Drains(t)[n] = DrainOne(Drains(t)[n - 1])
<1> DEFINE f == Drains(t)
<1>1. NREORDER \in Nat
    BY Constants
<1>2. f = [n \in 0 .. NREORDER |-> IF n = 0 THEN t ELSE DrainOne(f[n - 1])]
    BY <1>1, DrainsExist, ZenonT(30) DEF Drains
<1> HIDE DEF f
<1>3. f[0] = t
    BY <1>1, <1>2
<1>4. ASSUME NEW n \in 1 .. NREORDER PROVE f[n] = DrainOne(f[n - 1])
    <2>1. n \in 0 .. NREORDER /\ n # 0
        OBVIOUS
    <2> QED BY <1>2, <2>1
<1> QED BY <1>3, <1>4 DEF f

LEMMA DrainsMid ==
    ASSUME NEW s, NEW t, NEW rd \in Nat, NEW p \in PeerRec, Mid(s, t, rd, p)
    PROVE  Mid(s, Drains(t)[NREORDER], rd, p) /\ Drains(t)[NREORDER].ackPending = t.ackPending
<1> DEFINE f == Drains(t)
           P(k) == Mid(s, f[k], rd, p) /\ f[k].ackPending = t.ackPending
           Bad == {k \in 0 .. NREORDER : ~P(k)}
<1>0. NREORDER \in Nat
    BY Constants
<1>1. f[0] = t /\ \A n \in 1 .. NREORDER : f[n] = DrainOne(f[n - 1])
    BY DrainsAre
<1> HIDE DEF f
<1>2. P(0)
    BY <1>1
<1>3. ASSUME NEW k \in 1 .. NREORDER, P(k - 1) PROVE P(k)
    <2> DEFINE x == f[k - 1]
    <2>1. Mid(s, x, rd, p) /\ x.ackPending = t.ackPending /\ f[k] = DrainOne(x)
        BY <1>1, <1>3
    <2> HIDE DEF x
    <2>2. Mid(s, DrainOne(x), rd, p) /\ DrainOne(x).ackPending = x.ackPending
        BY <2>1, DrainOneMid
    <2> QED BY <2>1, <2>2
<1> HIDE DEF P
<1>4. Bad = {}
    <2> SUFFICES ASSUME Bad # {} PROVE FALSE
        OBVIOUS
    <2> DEFINE k == Min(Bad)
    <2>1. k \in Bad /\ \A y \in Bad : k <= y
        BY <1>0, MinIn
    <2> HIDE DEF k
    <2>2. k \in 0 .. NREORDER /\ ~P(k) /\ k # 0
        BY <1>2, <2>1
    <2>3. k \in 1 .. NREORDER /\ k - 1 \in 0 .. NREORDER /\ ~(k <= k - 1)
        BY <1>0, <2>2
    <2>4. P(k - 1)
        BY <2>1, <2>3
    <2> QED BY <1>3, <2>2, <2>3, <2>4
<1>5. P(NREORDER)
    BY <1>0, <1>4
<1> QED BY <1>5 DEF P, f

LEMMA DrainHeldMid ==
    ASSUME NEW s, NEW t, NEW rd \in Nat, NEW p \in PeerRec, Mid(s, t, rd, p)
    PROVE  Mid(s, DrainHeld(t), rd, p) /\ DrainHeld(t).ackPending = t.ackPending
<1> DEFINE d == Drains(t)[NREORDER]
           q == {r \in d.ro : ~SeqLt(r.seq, d.ack)}
<1>1. DrainHeld(t) = [d EXCEPT !.ro = q]
    BY Zenon DEF DrainHeld, Drains
<1>2. Mid(s, d, rd, p) /\ d.ackPending = t.ackPending
    BY DrainsMid
<1>3. q \subseteq d.ro
    OBVIOUS
<1> HIDE DEF d, q
<1>4. Mid(s, [d EXCEPT !.ro = q], rd, p) /\ [d EXCEPT !.ro = q].ackPending = d.ackPending
    BY <1>2, <1>3, HeldShrinks
<1> QED BY <1>1, <1>2, <1>4


\* Data that has gone in leaves a sound socket, unless it completes the stream.
LEMMA MidSound ==
    ASSUME NEW s, NEW n \in 0 .. MaxOut, NEW rd \in Nat, NEW p \in PeerRec, NEW e,
           Sound(s, n, rd, p, e), s.used, s.state = "established",
           NEW x, Mid(s, x, rd, p), x.ackPending, x.finPending => rd + Len(x.rx) < p.sent
    PROVE  Sound(x, n, rd, p, e) /\ x.used /\ x.state = "established"
<1>1. /\ x \in Sock /\ SizesFit(x) /\ KeepsSend(s, x) /\ x.out = s.out /\ ~x.peerClosed
      /\ x.finPending = s.finPending /\ x.finSeq = s.finSeq
      /\ x.rx = Numbers(rd + 1, rd + Len(x.rx)) /\ rd + Len(x.rx) <= p.sent
      /\ x.ack = Plus(IRS, rd + Len(x.rx) + 1)
      /\ \A r \in x.ro : HeldPiece(r, p.sent)
    BY DEF Mid
<1>2. /\ x.used = s.used /\ x.state = s.state /\ x.failed = s.failed
      /\ x.appClosed = s.appClosed
    BY <1>1 DEF KeepsSend
<1>3. /\ ~s.failed /\ ~s.appClosed
      /\ s.finPending => p.closed /\ s.finSeq = Plus(IRS, p.sent + 1)
    BY EstablishedFacts
<1>4. SendPart(x, n, p.got)
    <2>1. p.got \in Nat /\ SendPart(s, n, p.got)
        BY DEF PeerRec, Sound
    <2> QED BY <1>1, <2>1, SendKept
<1>5. ReceivePart(x, rd, p)
    <2> DEFINE g == rd + Len(x.rx)
    <2>1. x.finPending => p.closed /\ x.finSeq = Plus(IRS, p.sent + 1) /\ g < p.sent
        BY <1>1, <1>3
    <2>2. x.ack = Plus(IRS, g + (IF x.peerClosed THEN 2 ELSE 1))
        BY <1>1
    <2> QED BY <1>1, <1>2, <1>3, <2>1, <2>2 DEF ReceivePart
<1>6. OutPart(x, n, rd)
    BY <1>1, <1>2, OutKept DEF Sound, Opening
<1>7. ReopenPart(x, e)
    BY DEF ReopenPart
<1> QED BY <1>1, <1>2, <1>4, <1>5, <1>6, <1>7 DEF Sound

\* tcp_complete_fin when the stream is complete
LEMMA CompleteFinSound ==
    ASSUME NEW s, NEW n \in 0 .. MaxOut, NEW rd \in Nat, NEW p \in PeerRec, NEW e \in Int,
           Sound(s, n, rd, p, e), s.used, s.state = "established",
           NEW x, Mid(s, x, rd, p), p.closed, rd + Len(x.rx) = p.sent
    PROVE  LET y == CompleteFin(x)
           IN  /\ Sound(y, n, rd, p, e) /\ y.used /\ y.state = "fin_wait" /\ ~y.failed
               /\ y.appClosed = x.appClosed
<1> DEFINE a == Plus(x.ack, 1)
           z == [x EXCEPT !.finPending = FALSE, !.peerClosed = TRUE, !.ack = a, !.tries = 0]
           y == SendFin(z)
<1>1. /\ x \in Sock /\ SizesFit(x) /\ KeepsSend(s, x) /\ x.out = s.out
      /\ x.rx = Numbers(rd + 1, rd + Len(x.rx)) /\ x.ack = Plus(IRS, rd + Len(x.rx) + 1)
    BY DEF Mid
<1>2. /\ x.used = s.used /\ x.state = s.state /\ x.failed = s.failed
      /\ x.appClosed = s.appClosed /\ x.syn = s.syn /\ x.rtx = s.rtx /\ x.una = s.una
      /\ x.seq = s.seq
    BY <1>1 DEF KeepsSend
<1>3. CompleteFin(x) = y
    <2> DEFINE t == [x EXCEPT !.finPending = FALSE, !.peerClosed = TRUE, !.ack = a]
    <2>1. [t EXCEPT !.tries = 0] = z
        BY Zenon
    <2>2. CompleteFin(x) = SendFin([t EXCEPT !.tries = 0])
        BY <1>2, Zenon DEF CompleteFin
    <2> HIDE DEF t, z
    <2> QED BY <2>1, <2>2
<1>4. a = Plus(IRS, rd + Len(x.rx) + 2) /\ a \in Words
    <2> DEFINE g == p.sent
    <2>1. g + 1 \in Nat /\ g + 1 + 1 <= W /\ 1 \in Nat /\ g + 1 + 1 \in 0 .. W /\ g + 1 + 1 = g + 2
        <3>1. g \in 0 .. MaxIn
            BY DEF PeerRec
        <3> HIDE DEF g
        <3> QED BY <3>1, Bounds
    <2>2. x.ack = Plus(IRS, g + 1)
        BY <1>1
    <2> HIDE DEF g
    <2>3. Plus(Plus(IRS, g + 1), 1) = Plus(IRS, g + 1 + 1)
        BY <2>1, WordSum, Constants
    <2>4. Plus(IRS, g + 1 + 1) \in Words
        BY <2>1, WordPlus, Constants
    <2>5. a = Plus(IRS, g + 2) /\ a \in Words
        BY <2>1, <2>2, <2>3, <2>4
    <2> QED BY <2>5 DEF g
<1> HIDE DEF a
<1>5. 0 \in 0 .. MAXRTX
    BY Constants
<1>6. z \in Sock
    BY <1>1, <1>4, <1>5, ZenonT(30) DEF Sock
<1>7. /\ z.used = x.used /\ z.failed = x.failed /\ z.syn = x.syn /\ z.rtx = x.rtx
      /\ z.una = x.una /\ z.seq = x.seq /\ z.out = x.out /\ z.rx = x.rx /\ z.ro = x.ro
      /\ z.appClosed = x.appClosed /\ z.peerClosed /\ ~z.finPending /\ z.ack = a
    BY <1>1, Zenon DEF Sock
<1> HIDE DEF z
<1>8. SizesFit(z)
    BY <1>1, <1>7, SizesKept
<1>9. /\ y \in Sock /\ SizesFit(y) /\ SendPart(y, n, p.got) /\ OutPart(y, n, rd)
      /\ ReopenPart(y, e) /\ y.used /\ y.state = "fin_wait" /\ ~y.failed
      /\ y.appClosed = z.appClosed /\ y.rx = z.rx /\ y.ack = z.ack
      /\ y.peerClosed = z.peerClosed /\ y.finPending = z.finPending
    <2>1. /\ z.used /\ z.failed = s.failed /\ z.syn = s.syn /\ z.rtx = s.rtx
          /\ z.una = s.una /\ z.seq = s.seq /\ z.out = s.out
        BY <1>1, <1>2, <1>7
    <2> QED BY <1>6, <1>8, <2>1, SendFinSends
<1> HIDE DEF y
<1>10. ReceivePart(y, rd, p)
    <2> DEFINE g == rd + Len(y.rx)
    <2>1. y.rx = x.rx /\ y.peerClosed /\ ~y.finPending /\ y.ack = a
        BY <1>7, <1>9
    <2>2. y.rx = Numbers(rd + 1, g) /\ g <= p.sent /\ g = p.sent
        <3>1. p.sent \in Int
            BY DEF PeerRec
        <3> QED BY <1>1, <2>1, <3>1
    <2>3. y.ack = Plus(IRS, g + (IF y.peerClosed THEN 2 ELSE 1))
        BY <1>4, <2>1
    <2> HIDE DEF g
    <2>4. ReceivePart(y, rd, p) <=> (y.used /\ ~y.appClosed =>
              /\ y.rx = Numbers(rd + 1, g) /\ g <= p.sent
              /\ (y.state # "closed" \/ g > 0 =>
                   y.ack = Plus(IRS, g + (IF y.peerClosed THEN 2 ELSE 1)))
              /\ (y.peerClosed => p.closed /\ g = p.sent)
              /\ (y.finPending => p.closed /\ y.finSeq = Plus(IRS, p.sent + 1))
              /\ (y.state # "established" /\ ~y.failed => y.peerClosed))
        BY <1>9, Zenon DEF ReceivePart, g
    <2> QED BY <1>9, <2>1, <2>2, <2>3, <2>4
<1>11. Sound(y, n, rd, p, e)
    BY <1>9, <1>10 DEF Sound
<1> QED BY <1>3, <1>7, <1>9, <1>11


\* Places that the same word stands for, as far as the peer has sent
LEMMA SamePlace ==
    ASSUME NEW p \in PeerRec, NEW x \in Nat, NEW y \in Nat, x <= p.sent + 1, y <= p.sent + 1
    PROVE  /\ x \in 0 .. W - 1 /\ y \in 0 .. W - 1
           /\ Plus(IRS, x) = Plus(IRS, y) <=> x = y
           /\ SeqLt(Plus(IRS, x), Plus(IRS, y)) <=> x < y
<1>1. p.sent \in 0 .. MaxIn
    BY DEF PeerRec
<1> DEFINE h == W \div 2
<1>2. h \in Nat /\ MaxIn \in Nat /\ MaxIn + RXCAP + 4 < h /\ RXCAP \in Nat /\ 2 * h <= W /\ W \in Nat
    BY Constants
<1> HIDE DEF h
<1>3. x < h /\ y < h /\ x \in 0 .. W - 1 /\ y \in 0 .. W - 1
    BY <1>1, <1>2
<1>4. Plus(IRS, x) = Plus(IRS, y) <=> x = y
    BY <1>3, WordEqual, Constants
<1>5. SeqLt(Plus(IRS, x), Plus(IRS, y)) <=> x < y
    BY <1>3, WordOrder, Constants DEF h
<1> QED BY <1>3, <1>4, <1>5

\* What a step that takes data or a FIN leaves
Taken(y, n, rd, p, e) ==
    /\ Sound(y, n, rd, p, e) /\ y.used /\ ~y.failed /\ ~y.appClosed
    /\ y.state \in {"established", "fin_wait"}

LEMMA TakenClosed ==
    ASSUME NEW y, NEW n, NEW rd, NEW p, NEW e, Taken(y, n, rd, p, e), y.state = "fin_wait"
    PROVE  y.peerClosed
BY DEF Taken, Sound, ReceivePart

\* A held FIN is completed exactly when the stream has reached it.
LEMMA FinishMid ==
    ASSUME NEW s, NEW n \in 0 .. MaxOut, NEW rd \in Nat, NEW p \in PeerRec, NEW e \in Int,
           Sound(s, n, rd, p, e), s.used, s.state = "established",
           NEW d, Mid(s, d, rd, p), d.ackPending
    PROVE  Taken(IF d.finPending /\ d.finSeq = d.ack THEN CompleteFin(d) ELSE d, n, rd, p, e)
<1> DEFINE g == rd + Len(d.rx)
<1>0. /\ d \in Sock /\ g <= p.sent /\ d.ack = Plus(IRS, g + 1) /\ KeepsSend(s, d)
      /\ d.finPending = s.finPending /\ d.finSeq = s.finSeq
    BY DEF Mid
<1>1. /\ ~s.failed /\ ~s.appClosed
      /\ s.finPending => p.closed /\ s.finSeq = Plus(IRS, p.sent + 1)
    BY EstablishedFacts
<1>2. g \in Nat /\ g <= p.sent /\ p.sent \in Nat
    <2>1. d.rx \in Seq(Nat)
        BY <1>0, Zenon DEF Sock
    <2>2. Len(d.rx) \in Nat /\ p.sent \in 0 .. MaxIn
        BY <2>1, LenProperties DEF PeerRec
    <2> QED BY <1>0, <2>2, Bounds
<1> HIDE DEF g
<1>3. d.finPending => (d.finSeq = d.ack <=> g = p.sent)
    <2> DEFINE x == g + 1
               y == p.sent + 1
    <2>1. x \in Nat /\ y \in Nat /\ x <= p.sent + 1 /\ y <= p.sent + 1 /\ (x = y <=> g = p.sent)
        BY <1>2
    <2>2. d.ack = Plus(IRS, x) /\ (d.finPending => d.finSeq = Plus(IRS, y))
        BY <1>0, <1>1
    <2> HIDE DEF x, y
    <2>3. Plus(IRS, x) = Plus(IRS, y) <=> x = y
        BY <2>1, SamePlace
    <2> QED BY <2>1, <2>2, <2>3
<1>4. d.appClosed = s.appClosed /\ d.failed = s.failed
    BY <1>0 DEF KeepsSend
<1>5. ASSUME d.finPending /\ d.finSeq = d.ack PROVE Taken(CompleteFin(d), n, rd, p, e)
    <2> DEFINE y == CompleteFin(d)
    <2>1. p.closed /\ rd + Len(d.rx) = p.sent
        BY <1>0, <1>1, <1>3, <1>5 DEF g
    <2>2. /\ Sound(y, n, rd, p, e) /\ y.used /\ y.state = "fin_wait" /\ ~y.failed
          /\ y.appClosed = d.appClosed
        BY <2>1, CompleteFinSound
    <2> HIDE DEF y
    <2>4. ~y.appClosed
        BY <1>1, <1>4, <2>2
    <2>5. Taken(y, n, rd, p, e)
        BY <2>2, <2>4 DEF Taken
    <2> QED BY <2>5 DEF y
<1>6. ASSUME ~(d.finPending /\ d.finSeq = d.ack) PROVE Taken(d, n, rd, p, e)
    <2>1. d.finPending => rd + Len(d.rx) < p.sent
        BY <1>2, <1>3, <1>6 DEF g
    <2>2. Sound(d, n, rd, p, e) /\ d.used /\ d.state = "established"
        BY <2>1, MidSound
    <2> QED BY <1>1, <1>4, <2>2 DEF Taken
<1> QED BY <1>5, <1>6

\* tcp_deliver_in_order
LEMMA DeliverSound ==
    ASSUME NEW s, NEW n \in 0 .. MaxOut, NEW rd \in Nat, NEW p \in PeerRec, NEW e \in Int,
           Sound(s, n, rd, p, e), s.used, s.state = "established",
           NEW b, NEW data, Follows(data, s, rd, p, b)
    PROVE  Taken(DeliverInOrder(s, data), n, rd, p, e)
<1> DEFINE q == RxPut(s, data)
           t == [q EXCEPT !.ackPending = TRUE]
           d == DrainHeld(t)
<1>0. Mid(s, s, rd, p) /\ ~s.failed /\ ~s.appClosed
    BY MidStarts, EstablishedFacts
<1>1. /\ Mid(s, q, rd, p) /\ Len(data) = b - (rd + Len(s.rx))
      /\ Len(q.rx) = Len(s.rx) + Lesser(Len(data), RXCAP - Len(s.rx))
    <2>1. Mid(s, q, rd, p)
        BY <1>0, RxPutMid
    <2>2. Grown(s, q, data, rd, b)
        BY <1>0, RxPutMid
    <2> QED BY <2>1, <2>2 DEF Grown
<1> HIDE DEF q
<1>2. Mid(s, t, rd, p) /\ t.ackPending /\ t.rx = q.rx
    <2>1. q \in Sock
        BY <1>1 DEF Mid
    <2>2. t \in Sock /\ KeepsSend(q, t)
        BY <2>1, Zenon DEF Sock, KeepsSend
    <2>3. /\ t.out = q.out /\ t.peerClosed = q.peerClosed /\ t.finPending = q.finPending
          /\ t.finSeq = q.finSeq /\ t.rx = q.rx /\ t.ack = q.ack /\ t.ro = q.ro
          /\ t.ackPending
        BY <2>1, Zenon DEF Sock
    <2> HIDE DEF t
    <2>4. KeepsSend(s, t) /\ t.rtx = q.rtx
        BY <1>1, <2>2 DEF Mid, KeepsSend
    <2>5. SizesFit(t)
        BY <1>1, <2>3, <2>4, SizesKept DEF Mid
    <2> QED BY <1>1, <2>2, <2>3, <2>4, <2>5 DEF Mid
<1>3. DeliverInOrder(s, data) =
          IF Len(data) > RXCAP - Len(s.rx) THEN t
          ELSE IF d.finPending /\ d.finSeq = d.ack THEN CompleteFin(d) ELSE d
    BY Zenon DEF DeliverInOrder, q
<1> HIDE DEF t
<1>4. ASSUME Len(data) > RXCAP - Len(s.rx) PROVE Taken(t, n, rd, p, e)
    <2>1. /\ b \in Nat /\ b <= p.sent /\ Len(s.rx) \in Nat /\ Len(s.rx) <= RXCAP /\ p.sent \in Nat
          /\ rd + Len(s.rx) <= b
        <3>1. Len(s.rx) \in Nat /\ Len(s.rx) <= RXCAP
            BY EstablishedFacts
        <3>2. p.sent \in 0 .. MaxIn
            BY DEF PeerRec
        <3> QED BY <3>1, <3>2, Bounds DEF Follows
    <2> DEFINE k == Len(data)
               l == Len(s.rx)
               m == Len(t.rx)
    <2>2. k = b - (rd + l) /\ k > RXCAP - l /\ m = l + Lesser(k, RXCAP - l)
        BY <1>1, <1>2, <1>4
    <2>3. l \in Nat /\ l <= RXCAP /\ rd + l <= b
        BY <2>1
    <2> HIDE DEF k, l, m
    <2>4. rd + m < p.sent
        <3>1. Lesser(k, RXCAP - l) = RXCAP - l
            BY <2>1, <2>2, <2>3, Bounds DEF Lesser
        <3>2. m = l + (RXCAP - l)
            BY <2>2, <3>1
        <3> QED BY <2>1, <2>2, <2>3, <3>2, Bounds
    <2>5. Sound(t, n, rd, p, e) /\ t.used /\ t.state = "established"
        BY <1>2, <2>4, MidSound DEF m
    <2>6. ~t.failed /\ ~t.appClosed
        BY <1>0, <1>2 DEF Mid, KeepsSend
    <2> QED BY <2>5, <2>6 DEF Taken
<1>5. Mid(s, d, rd, p) /\ d.ackPending
    BY <1>2, DrainHeldMid
<1> HIDE DEF d
<1>6. Taken(IF d.finPending /\ d.finSeq = d.ack THEN CompleteFin(d) ELSE d, n, rd, p, e)
    BY <1>5, FinishMid
<1> QED BY <1>3, <1>4, <1>6


\* A segment of the peer's stream that begins at place a
Arriving(g, p, a) ==
    /\ a \in 1 .. p.sent + 1 /\ g.seq = Plus(IRS, a) /\ g.data \in Seq(Nat)
    /\ g.data = Numbers(a, a + Len(g.data) - 1) /\ a + Len(g.data) <= p.sent + 1
    /\ g.fin => p.closed /\ a + Len(g.data) = p.sent + 1

LEMMA SendAckTaken ==
    ASSUME NEW s, NEW n \in 0 .. MaxOut, NEW rd \in Nat, NEW p \in PeerRec, NEW e \in Int,
           Taken(s, n, rd, p, e)
    PROVE  Taken(SendAck(s), n, rd, p, e)
<1>1. /\ Sound(s, n, rd, p, e) /\ s.used /\ s.state # "syn_sent" /\ ~s.failed /\ ~s.appClosed
      /\ s.state \in {"established", "fin_wait"} /\ n \in Nat
    BY DEF Taken
<1>2. Sound(SendAck(s), n, rd, p, e) /\ KeepsSend(s, SendAck(s))
    BY <1>1, SendAckSound
<1> QED BY <1>1, <1>2 DEF Taken, KeepsSend

\* An established socket with other segments held
LEMMA HoldSound ==
    ASSUME NEW s, NEW n \in 0 .. MaxOut, NEW rd \in Nat, NEW p \in PeerRec, NEW e,
           Sound(s, n, rd, p, e), s.used, s.state = "established",
           NEW q \in SUBSET Held, IsFiniteSet(q), Cardinality(q) <= NREORDER,
           \A r \in q : HeldPiece(r, p.sent)
    PROVE  Taken([s EXCEPT !.ro = q], n, rd, p, e)
<1> DEFINE y == [s EXCEPT !.ro = q]
<1>0. s \in Sock
    BY DEF Sound
<1>1. y \in Sock /\ KeepsSend(s, y)
    BY <1>0, Zenon DEF Sock, KeepsSend
<1>2. /\ y.used = s.used /\ y.state = s.state /\ y.failed = s.failed
      /\ y.appClosed = s.appClosed /\ y.rtx = s.rtx
      /\ y.out = s.out /\ y.peerClosed = s.peerClosed /\ y.finPending = s.finPending
      /\ y.finSeq = s.finSeq /\ y.rx = s.rx /\ y.ack = s.ack /\ y.ro = q
      /\ y.ackPending = s.ackPending /\ y.advWin = s.advWin
    BY <1>0, Zenon DEF Sock
<1> HIDE DEF y
<1>3. SizesFit(y)
    BY <1>2 DEF Sound, SizesFit
<1>4. SendPart(y, n, p.got)
    <2>1. p.got \in Nat /\ SendPart(s, n, p.got)
        BY DEF PeerRec, Sound
    <2> QED BY <1>1, <2>1, SendKept
<1>5. ~s.failed /\ ~s.appClosed
    BY EstablishedFacts
<1>6. ReceivePart(y, rd, p)
    <2>1. ReceivePart(s, rd, p)
        BY DEF Sound
    <2> QED BY <1>2, <2>1, Zenon DEF ReceivePart
<1>7. OutPart(y, n, rd)
    BY <1>2, OutKept DEF Sound, Opening
<1>8. WindowSizes => ReopenPart(y, e)
    BY <1>2, ReopenKept DEF Sound
<1>9. Taken(y, n, rd, p, e)
    BY <1>1, <1>2, <1>3, <1>4, <1>5, <1>6, <1>7, <1>8 DEF Taken, Sound
<1> QED BY <1>9 DEF y

\* tcp_reorder_store
LEMMA StoreTaken ==
    ASSUME NEW s, NEW n \in 0 .. MaxOut, NEW rd \in Nat, NEW p \in PeerRec, NEW e,
           Taken(s, n, rd, p, e), s.state = "established",
           NEW g, NEW a, Arriving(g, p, a), g.data # << >>
    PROVE  Taken(ReorderStore(s, g), n, rd, p, e)
<1> DEFINE r == [seq |-> g.seq, data |-> g.data]
           q == s.ro \cup {r}
<1>0. Sound(s, n, rd, p, e) /\ s.used /\ s \in Sock /\ SizesFit(s)
    BY DEF Taken, Sound
<1>1. CASE (\E x \in s.ro : x.seq = g.seq) \/ Cardinality(s.ro) = NREORDER
    BY <1>1 DEF ReorderStore
<1>2. CASE ~((\E x \in s.ro : x.seq = g.seq) \/ Cardinality(s.ro) = NREORDER)
    <2>1. ReorderStore(s, g) = [s EXCEPT !.ro = q]
        BY <1>2, Zenon DEF ReorderStore
    <2>2. IsFiniteSet(s.ro) /\ Cardinality(s.ro) < NREORDER /\ Cardinality(s.ro) \in Nat
        <3>1. IsFiniteSet(s.ro) /\ Cardinality(s.ro) <= NREORDER
            BY <1>0 DEF SizesFit
        <3>2. Cardinality(s.ro) \in Nat
            BY <3>1, FS_CardinalityType
        <3> QED BY <1>2, <3>1, <3>2, Constants
    <2>3. r.seq = g.seq /\ r.data = g.data
        OBVIOUS
    <2>4. g.seq \in Words /\ a \in Nat /\ a <= p.sent + 1 /\ p.sent \in Nat
        <3>1. a \in 1 .. p.sent + 1 /\ g.seq = Plus(IRS, a) /\ p.sent \in 0 .. MaxIn
            BY DEF Arriving, PeerRec
        <3>2. a \in 0 .. W
            BY <3>1, Bounds
        <3>3. g.seq \in Words
            BY <3>1, <3>2, WordPlus, Constants
        <3> QED BY <3>1, <3>3, Bounds
    <2>5. r \in Held
        <3>1. g.data \in Seq(Nat)
            BY DEF Arriving
        <3> QED BY <2>4, <3>1 DEF Held
    <2> HIDE DEF r
    <2>6. IsFiniteSet(q) /\ Cardinality(q) <= NREORDER
        <3>1. IsFiniteSet(q) /\ (Cardinality(q) = Cardinality(s.ro) \/ Cardinality(q) = Cardinality(s.ro) + 1)
            BY <2>2, FS_AddElement
        <3> QED BY <2>2, <3>1, Constants
    <2>7. HeldPiece(r, p.sent)
        <3> DEFINE l == Len(g.data)
        <3>1. l \in Nat /\ l > 0
            <4>1. g.data \in Seq(Nat)
                BY DEF Arriving
            <4>2. l \in Nat /\ (l = 0 => g.data = << >>)
                BY <4>1, EmptySeq, LenProperties
            <4> HIDE DEF l
            <4> QED BY <4>2
        <3>2. a + l <= p.sent + 1
            BY DEF Arriving
        <3>3. a \in 1 .. p.sent
            <4>1. a \in 1 .. p.sent + 1
                BY DEF Arriving
            <4> HIDE DEF l
            <4> QED BY <2>4, <3>1, <3>2, <4>1
        <3>4. g.seq = Plus(IRS, a) /\ g.data = Numbers(a, a + l - 1)
            BY DEF Arriving
        <3> QED BY <2>3, <3>1, <3>2, <3>3, <3>4 DEF HeldPiece
    <2>8. q \in SUBSET Held /\ \A x \in q : HeldPiece(x, p.sent)
        <3>1. s.ro \subseteq Held
            BY <1>0, Zenon DEF Sock
        <3>2. \A x \in s.ro : HeldPiece(x, p.sent)
            BY <1>0, EstablishedFacts
        <3> QED BY <2>5, <2>7, <3>1, <3>2
    <2> HIDE DEF q
    <2>9. Taken([s EXCEPT !.ro = q], n, rd, p, e)
        BY <1>0, <2>6, <2>8, HoldSound
    <2> QED BY <2>1, <2>9
<1> QED BY <1>1, <1>2

\* Where a segment lies against what has been received
LEMMA ArrivingFacts ==
    ASSUME NEW s, NEW n \in 0 .. MaxOut, NEW rd \in Nat, NEW p \in PeerRec, NEW e,
           Taken(s, n, rd, p, e), s.state = "established",
           NEW g, NEW a, Arriving(g, p, a)
    PROVE  LET r == rd + Len(s.rx) + 1
               l == Len(g.data)
           IN  /\ a \in Nat /\ r \in Nat /\ l \in Nat /\ p.sent \in Nat /\ 1 <= a /\ 1 <= r
               /\ r <= p.sent + 1 /\ a + l <= p.sent + 1
               /\ g.seq = s.ack <=> a = r
               /\ SeqLt(g.seq, s.ack) <=> a < r
               /\ a < r => (s.ack - g.seq) % W = r - a
<1> DEFINE r == rd + Len(s.rx) + 1
           l == Len(g.data)
<1>1. /\ Len(s.rx) \in Nat /\ rd + Len(s.rx) <= p.sent /\ s.ack = Plus(IRS, r)
    BY EstablishedFacts DEF Taken
<1>2. a \in 1 .. p.sent + 1 /\ g.seq = Plus(IRS, a) /\ g.data \in Seq(Nat) /\ a + l <= p.sent + 1
    BY DEF Arriving
<1>3. p.sent \in 0 .. MaxIn
    BY DEF PeerRec
<1>4. l \in Nat
    BY <1>2, LenProperties
<1> HIDE DEF l
<1>5. r \in Nat /\ 1 <= r /\ r <= p.sent + 1
    BY <1>1, <1>3
<1> HIDE DEF r
<1>6. a \in Nat /\ 1 <= a /\ a <= p.sent + 1 /\ p.sent \in Nat
    BY <1>2, <1>3
<1>7. /\ a \in 0 .. W - 1 /\ r \in 0 .. W - 1
      /\ Plus(IRS, a) = Plus(IRS, r) <=> a = r
      /\ SeqLt(Plus(IRS, a), Plus(IRS, r)) <=> a < r
    BY <1>5, <1>6, SamePlace
<1>8. a < r => (Plus(IRS, r) - Plus(IRS, a)) % W = r - a
    <2>1. a \in 0 .. W /\ W \in Nat
        BY <1>7, Bounds
    <2>2. (Plus(IRS, r) - Plus(IRS, a)) % W = IF r < a THEN (r - a) + W ELSE r - a
        BY <1>7, <2>1, WordDistance, Constants
    <2> DEFINE d == (Plus(IRS, r) - Plus(IRS, a)) % W
    <2>3. d = IF r < a THEN (r - a) + W ELSE r - a
        BY <2>2
    <2> HIDE DEF d
    <2>4. a < r => d = r - a
        BY <1>5, <1>6, <2>3
    <2> QED BY <2>4 DEF d
<1>9. a + l <= p.sent + 1
    BY <1>2
<1> QED BY <1>1, <1>2, <1>4, <1>5, <1>6, <1>7, <1>8, <1>9 DEF r, l


LEMMA TakeDataTaken ==
    ASSUME NEW s, NEW n \in 0 .. MaxOut, NEW rd \in Nat, NEW p \in PeerRec, NEW e \in Int,
           Taken(s, n, rd, p, e), NEW g, NEW a, Arriving(g, p, a)
    PROVE  Taken(TakeData(s, g), n, rd, p, e)
<1> DEFINE skip == (s.ack - g.seq) % W
           r == rd + Len(s.rx) + 1
           l == Len(g.data)
           rest == SubSeq(g.data, skip + 1, Len(g.data))
<1>0. TakeData(s, g) =
          IF g.data = << >> \/ s.state # "established" THEN s
          ELSE IF g.seq = s.ack THEN DeliverInOrder(s, g.data)
          ELSE IF ~SeqLt(g.seq, s.ack) THEN SendAck(ReorderStore(s, g))
          ELSE IF skip < Len(g.data) THEN DeliverInOrder(s, rest)
          ELSE SendAck(s)
    BY Zenon DEF TakeData
<1>1. Taken(SendAck(s), n, rd, p, e)
    BY SendAckTaken
<1> SUFFICES ASSUME g.data # << >>, s.state = "established"
             PROVE  Taken(TakeData(s, g), n, rd, p, e)
    BY <1>0
<1>2. Taken(SendAck(ReorderStore(s, g)), n, rd, p, e)
    BY StoreTaken, SendAckTaken
<1>3. /\ a \in Nat /\ r \in Nat /\ l \in Nat /\ p.sent \in Nat /\ 1 <= a /\ 1 <= r
      /\ r <= p.sent + 1 /\ a + l <= p.sent + 1
    BY ArrivingFacts
<1>4. (g.seq = s.ack <=> a = r) /\ (SeqLt(g.seq, s.ack) <=> a < r)
    BY ArrivingFacts
<1>5. a < r => skip = r - a
    BY ArrivingFacts
<1>6. g.data = Numbers(a, a + l - 1) /\ Sound(s, n, rd, p, e) /\ s.used
    BY DEF Arriving, Taken
<1>7. ASSUME g.seq = s.ack PROVE Taken(DeliverInOrder(s, g.data), n, rd, p, e)
    <2> DEFINE b == a + l - 1
               data == g.data
    <2>1. a = r
        BY <1>4, <1>7
    <2>2. b \in Nat /\ b <= p.sent /\ r - 1 <= b
        <3> HIDE DEF l, r
        <3> QED BY <1>3, <2>1
    <2>3. rd + Len(s.rx) <= b
        <3>1. rd + Len(s.rx) = r - 1
            <4>1. Len(s.rx) \in Nat
                BY <1>6, EstablishedFacts
            <4> QED BY <4>1
        <3> QED BY <2>2, <3>1
    <2>4. data = Numbers(rd + Len(s.rx) + 1, b)
        BY <1>6, <2>1
    <2> HIDE DEF b, data
    <2>5. Follows(data, s, rd, p, b)
        BY <2>2, <2>3, <2>4 DEF Follows
    <2>6. Taken(DeliverInOrder(s, data), n, rd, p, e)
        BY <1>6, <2>5, DeliverSound
    <2> QED BY <2>6 DEF data
<1>8. ASSUME a < r, skip < l PROVE Taken(DeliverInOrder(s, rest), n, rd, p, e)
    <2> DEFINE b == a + l - 1
               k == skip
    <2>1. k = r - a
        BY <1>5, <1>8
    <2>2. k < l
        BY <1>8
    <2> HIDE DEF l, r, k
    <2>3. b \in Nat /\ b <= p.sent /\ r - 1 <= b /\ k \in Nat /\ a + k = r /\ b \in Int /\ b = a + l - 1
        BY <1>3, <1>8, <2>1, <2>2
    <2> HIDE DEF b
    <2>4. g.data = Numbers(a, b) /\ k <= Len(Numbers(a, b))
        <3>1. g.data = Numbers(a, b)
            BY <1>6 DEF b, l
        <3>2. k <= Len(g.data)
            BY <1>3, <2>2, <2>3 DEF l
        <3> QED BY <3>1, <3>2
    <2>5. SubSeq(Numbers(a, b), k + 1, Len(Numbers(a, b))) = Numbers(a + k, b)
        BY <1>3, <2>3, <2>4, NumbersTail, ZenonT(40)
    <2>6. rest = Numbers(r, b)
        BY <2>3, <2>4, <2>5, Zenon DEF k
    <2>7. rd + Len(s.rx) <= b
        <3>1. rd + Len(s.rx) = r - 1
            <4>1. Len(s.rx) \in Nat
                BY <1>6, EstablishedFacts
            <4> QED BY <4>1 DEF r
        <3> QED BY <2>3, <3>1
    <2> HIDE DEF rest
    <2>8. Follows(rest, s, rd, p, b)
        BY <2>3, <2>6, <2>7 DEF Follows, r
    <2> QED BY <1>6, <2>8, DeliverSound
<1> HIDE DEF rest
<1>9. CASE g.seq = s.ack
    BY <1>0, <1>7, <1>9
<1>10. CASE g.seq # s.ack /\ ~SeqLt(g.seq, s.ack)
    BY <1>0, <1>2, <1>10
<1>11. CASE g.seq # s.ack /\ SeqLt(g.seq, s.ack) /\ skip < l
    BY <1>0, <1>4, <1>8, <1>11
<1>12. CASE g.seq # s.ack /\ SeqLt(g.seq, s.ack) /\ ~(skip < l)
    BY <1>0, <1>1, <1>12
<1> QED BY <1>9, <1>10, <1>11, <1>12

LEMMA TakeFinTaken ==
    ASSUME NEW s, NEW n \in 0 .. MaxOut, NEW rd \in Nat, NEW p \in PeerRec, NEW e \in Int,
           Taken(s, n, rd, p, e), NEW g, NEW a, Arriving(g, p, a)
    PROVE  Taken(TakeFin(s, g), n, rd, p, e)
<1> DEFINE end == Plus(g.seq, Len(g.data))
           h == [s EXCEPT !.finPending = TRUE, !.finSeq = end]
<1>0. TakeFin(s, g) =
          IF ~g.fin THEN s
          ELSE IF s.peerClosed THEN SendAck(s)
          ELSE IF end # s.ack /\ SeqLt(s.ack, end) THEN SendAck(h)
          ELSE CompleteFin(s)
    BY Zenon DEF TakeFin
<1>1. Taken(SendAck(s), n, rd, p, e)
    BY SendAckTaken
<1> SUFFICES ASSUME g.fin, ~s.peerClosed
             PROVE  Taken(TakeFin(s, g), n, rd, p, e)
    BY <1>0, <1>1
<1>2. s.state = "established" /\ Sound(s, n, rd, p, e) /\ s.used /\ s \in Sock
    BY TakenClosed DEF Taken, Sound
<1>3. p.closed /\ a + Len(g.data) = p.sent + 1 /\ g.seq = Plus(IRS, a)
    BY DEF Arriving
<1> DEFINE r == rd + Len(s.rx) + 1
           q == p.sent + 1
<1>4. a \in Nat /\ Len(g.data) \in Nat /\ p.sent \in Nat /\ r \in Nat /\ r <= p.sent + 1
    BY <1>2, ArrivingFacts
<1>5. end = Plus(IRS, q) /\ end \in Words
    <2> DEFINE l == Len(g.data)
    <2>1. a \in Nat /\ l \in Nat /\ a + l = q /\ a + l <= W /\ q \in 0 .. W
        <3>1. p.sent \in 0 .. MaxIn
            BY DEF PeerRec
        <3>2. a + l = q /\ l \in Nat /\ q = p.sent + 1
            BY <1>3, <1>4
        <3> HIDE DEF l, q
        <3> QED BY <1>4, <3>1, <3>2, Bounds
    <2> HIDE DEF l, q
    <2>2. Plus(Plus(IRS, a), l) = Plus(IRS, a + l)
        BY <2>1, WordSum, Constants
    <2>3. Plus(IRS, q) \in Words
        BY <2>1, WordPlus, Constants
    <2> QED BY <1>3, <2>1, <2>2, <2>3 DEF l
<1>6. /\ s.ack = Plus(IRS, r) /\ Len(s.rx) \in Nat /\ ~s.failed /\ ~s.appClosed
    BY <1>2, EstablishedFacts
<1>7. q \in Nat /\ r <= q /\ q <= p.sent + 1
    BY <1>4
<1> HIDE DEF end, q, r
<1>8. (Plus(IRS, r) = Plus(IRS, q) <=> r = q) /\ (SeqLt(Plus(IRS, r), Plus(IRS, q)) <=> r < q)
    <2>1. r \in Nat /\ r <= p.sent + 1
        BY <1>4
    <2> QED BY <1>7, <2>1, SamePlace
<1>9. (end # s.ack /\ SeqLt(s.ack, end)) <=> r < q
    <2>1. (end # s.ack /\ SeqLt(s.ack, end)) <=> (r # q /\ r < q)
        BY <1>5, <1>6, <1>8
    <2> QED BY <1>4, <1>7, <2>1
<1>10. ASSUME r < q PROVE Taken(SendAck(h), n, rd, p, e)
    <2>1. h \in Sock /\ KeepsSend(s, h)
        BY <1>2, <1>5, Zenon DEF Sock, KeepsSend
    <2>2. /\ h.used = s.used /\ h.state = s.state /\ h.failed = s.failed
          /\ h.appClosed = s.appClosed /\ h.rtx = s.rtx
          /\ h.out = s.out /\ h.peerClosed = s.peerClosed /\ h.finPending = TRUE
          /\ h.finSeq = end /\ h.rx = s.rx /\ h.ack = s.ack /\ h.ro = s.ro
          /\ h.ackPending = s.ackPending /\ h.advWin = s.advWin
        BY <1>2, Zenon DEF Sock
    <2> HIDE DEF h
    <2>3. SizesFit(h)
        BY <1>2, <2>2, SizesKept DEF Sound
    <2>4. SendPart(h, n, p.got)
        <3>1. p.got \in Nat /\ SendPart(s, n, p.got)
            BY <1>2 DEF PeerRec, Sound
        <3> QED BY <2>1, <3>1, SendKept
    <2>5. rd + Len(s.rx) < p.sent
        <3>1. r = rd + Len(s.rx) + 1 /\ q = p.sent + 1
            BY DEF r, q
        <3> DEFINE l == Len(s.rx)
        <3>2. l \in Nat /\ r = rd + l + 1
            BY <1>6, <3>1
        <3> HIDE DEF l
        <3>3. rd + l < p.sent
            BY <1>4, <1>10, <3>1, <3>2
        <3> QED BY <3>3 DEF l
    <2>6. ReceivePart(h, rd, p)
        <3>1. ReceivePart(s, rd, p)
            BY <1>2 DEF Sound
        <3>2. end = Plus(IRS, p.sent + 1)
            BY <1>5 DEF q
        <3> QED BY <1>2, <1>3, <1>6, <2>2, <2>5, <3>1, <3>2, Zenon DEF ReceivePart
    <2>7. OutPart(h, n, rd)
        BY <1>2, <2>2, OutKept DEF Sound, Opening
    <2>8. WindowSizes => ReopenPart(h, e)
        BY <1>2, <2>2, ReopenKept DEF Sound
    <2>9. Taken(h, n, rd, p, e)
        BY <1>2, <1>6, <2>1, <2>2, <2>3, <2>4, <2>6, <2>7, <2>8 DEF Taken, Sound
    <2> QED BY <2>9, SendAckTaken
<1>11. ASSUME ~(r < q) PROVE Taken(CompleteFin(s), n, rd, p, e)
    <2>1. rd + Len(s.rx) = p.sent
        <3>1. r = rd + Len(s.rx) + 1 /\ q = p.sent + 1
            BY DEF r, q
        <3> DEFINE l == Len(s.rx)
        <3>2. l \in Nat /\ r = rd + l + 1
            BY <1>6, <3>1
        <3> HIDE DEF l
        <3>3. rd + l = p.sent
            BY <1>4, <1>7, <1>11, <3>1, <3>2
        <3> QED BY <3>3 DEF l
    <2> DEFINE y == CompleteFin(s)
    <2>2. Mid(s, s, rd, p)
        BY <1>2, MidStarts
    <2>3. /\ Sound(y, n, rd, p, e) /\ y.used /\ y.state = "fin_wait" /\ ~y.failed
          /\ y.appClosed = s.appClosed
        BY <1>2, <1>3, <2>1, <2>2, CompleteFinSound
    <2> HIDE DEF y
    <2>4. Taken(y, n, rd, p, e)
        BY <1>6, <2>3 DEF Taken
    <2> QED BY <2>4 DEF y
<1> HIDE DEF h
<1> QED BY <1>0, <1>9, <1>10, <1>11


-----------------------------------------------------------------------------
(* The end of a step                                                       *)

LEMMA EdgeIsNumber ==
    ASSUME NEW g \in Segment
    PROVE  Edge(g) \in Int /\ Edge(g) <= W + RXCAP
<1>1. g.ack \in Words /\ g.win \in 0 .. RXCAP /\ g.syn \in BOOLEAN
    BY Zenon DEF Segment
<1> DEFINE x == PlaceIn(g.ack)
           y == IF g.syn THEN 0 ELSE x - 1
<1>2. x \in 0 .. W - 1
    BY <1>1, PlaceIsNumber
<1>3. Edge(g) = y + g.win
    BY DEF Edge
<1> HIDE DEF x
<1>4. y \in Int /\ y <= W
    BY <1>2, Bounds
<1> HIDE DEF y
<1> QED BY <1>1, <1>3, <1>4, Bounds

\* The highest place told
LEMMA EmitEdge ==
    ASSUME NEW w, NEW out, out \subseteq Segment, w.edge \in 0 .. W + RXCAP
    PROVE  LET m == Emit(w, out).edge
           IN  /\ m \in 0 .. W + RXCAP /\ m >= w.edge /\ \A g \in out : m >= Edge(g)
               /\ m = w.edge \/ \E g \in out : m = Edge(g)
<1> DEFINE S == {Edge(g) : g \in out} \cup {w.edge}
           b == W + RXCAP
           m == Max(S)
<1>1. \A g \in out : Edge(g) \in Int /\ Edge(g) <= b
    BY EdgeIsNumber
<1>2. w.edge \in Int /\ w.edge <= b /\ b \in Int /\ 0 <= w.edge
    BY Bounds
<1> HIDE DEF b
<1>3. S \subseteq Int /\ S # {} /\ \A y \in S : y <= b
    BY <1>1, <1>2
<1>4. m \in S /\ \A y \in S : y <= m
    <2> HIDE DEF S
    <2> QED BY <1>2, <1>3, GreatestIn
<1>5. m \in Int /\ m <= b
    BY <1>3, <1>4
<1>6. w.edge \in S /\ \A g \in out : Edge(g) \in S
    OBVIOUS
<1>7. m >= w.edge /\ \A g \in out : m >= Edge(g)
    BY <1>1, <1>2, <1>4, <1>5, <1>6
<1>8. m = w.edge \/ \E g \in out : m = Edge(g)
    BY <1>4
<1>9. Emit(w, out).edge = m
    BY DEF Emit
<1> HIDE DEF m
<1>10. m \in 0 .. W + RXCAP
    BY <1>2, <1>5, <1>7 DEF b
<1> QED BY <1>7, <1>8, <1>9, <1>10

LEMMA EmitBytes ==
    ASSUME NEW w, NEW out, NEW n \in Nat, \A b \in w.bytes : b[1] = b[2] /\ b[1] \in 1 .. n,
           \A g \in out : SegmentRight(g, n)
    PROVE  \A b \in Emit(w, out).bytes : b[1] = b[2] /\ b[1] \in 1 .. n
<1> DEFINE Of(g) == {<<PlaceOut(g.seq) + k - 1, g.data[k]>> : k \in DOMAIN g.data}
<1>1. Emit(w, out).bytes = w.bytes \cup UNION {Of(g) : g \in out}
    BY DEF Emit
<1>2. ASSUME NEW g \in out, NEW b \in Of(g) PROVE b[1] = b[2] /\ b[1] \in 1 .. n
    <2>1. PICK k \in DOMAIN g.data : b = <<PlaceOut(g.seq) + k - 1, g.data[k]>>
        OBVIOUS
    <2>2. g.data[k] = PlaceOut(g.seq) + k - 1 /\ g.data[k] \in 1 .. n
        BY DEF SegmentRight
    <2> QED BY <2>1, <2>2
<1> HIDE DEF Of
<1> QED BY <1>1, <1>2

LEMMA EmitFins ==
    ASSUME NEW w, NEW out, NEW n \in Nat, w.fins \subseteq {n + 1},
           \A g \in out : SegmentRight(g, n)
    PROVE  /\ Emit(w, out).fins \subseteq {n + 1} /\ w.fins \subseteq Emit(w, out).fins
           /\ w.fins = {} /\ (\A g \in out : ~g.fin) => Emit(w, out).fins = {}
<1>1. Emit(w, out).fins = w.fins \cup {PlaceOut(g.seq) + Len(g.data) : g \in {h \in out : h.fin}}
    BY DEF Emit
<1>2. \A g \in {h \in out : h.fin} : PlaceOut(g.seq) + Len(g.data) = n + 1
    BY DEF SegmentRight
<1> QED BY <1>1, <1>2

\* A step that ends in a sound socket keeps the invariant.
LEMMA BecomesStep ==
    ASSUME TcpInv, NEW s, Becomes(s), arp' = arp, opens' = opens, read' = read, peer' = peer,
           sent' \in 0 .. MaxOut, sent' = sent \/ (sent <= sent' /\ Opening(c)),
           Opening(s) => Opening(c), Sound(s, sent', Len(read), peer, wire.edge)
    PROVE  TcpInv'
<1> DEFINE n == sent'
           w == Emit(wire, s.out)
           t == [s EXCEPT !.out = {}]
<1>1. /\ s \in Sock /\ SizesFit(s) /\ SendPart(s, n, peer.got) /\ ReceivePart(s, Len(read), peer)
      /\ OutPart(s, n, Len(read)) /\ (WindowSizes => ReopenPart(s, wire.edge))
    BY DEF Sound
<1>2. c' = t /\ wire' = w
    BY DEF Becomes
<1>3. t \in Sock /\ t.out = {} /\ KeepsSend(s, t) /\ KeepsReceive(s, t)
    BY <1>1, Zenon DEF Sock, KeepsSend, KeepsReceive
<1>4. t.advWin = s.advWin /\ t.ackPending = s.ackPending
    BY <1>1, Zenon DEF Sock
<1> HIDE DEF t
<1>5. /\ t.used = s.used /\ t.state = s.state /\ t.rtx = s.rtx /\ t.rx = s.rx /\ t.ro = s.ro
      /\ t.ack = s.ack
    BY <1>3 DEF KeepsSend, KeepsReceive
<1>6. SizesFit(t)
    BY <1>1, <1>5, SizesKept
<1>7. SendPart(t, n, peer.got)
    <2>1. peer.got \in Nat
        BY DEF TcpInv, PeerPart
    <2> QED BY <1>1, <1>3, <2>1, SendKept
<1>8. ReceivePart(t, Len(read), peer)
    BY <1>1, <1>3, ReceiveKept
<1>9. /\ \A b \in wire.bytes : b[1] = b[2] /\ b[1] \in 1 .. sent
      /\ wire.fins \subseteq {sent + 1} /\ wire.edge \in 0 .. W + RXCAP
      /\ Opening(c) => wire.fins = {} /\ wire.edge <= Len(read) + RXCAP
      /\ wire.syn \in BOOLEAN /\ (wire.syn => wire.edge >= Lesser(RXCAP, WINMAX))
      /\ sent \in 0 .. MaxOut
    BY DEF TcpInv, WirePart
<1>10. /\ \A b \in wire.bytes : b[1] = b[2] /\ b[1] \in 1 .. n
       /\ wire.fins \subseteq {n + 1} /\ n \in Nat /\ sent \in Nat /\ sent <= n
    <2>1. n \in Nat /\ sent \in Nat /\ sent <= n
        BY <1>9, Bounds
    <2>2. wire.fins \subseteq {n + 1}
        BY <1>9
    <2>3. \A x \in 1 .. sent : x \in 1 .. n
        BY <2>1
    <2> QED BY <1>9, <2>1, <2>2, <2>3
<1>11. s.out \subseteq Segment /\ \A g \in s.out : arp /\ SegmentRight(g, n)
    <2>1. s.out \subseteq Segment
        BY <1>1, Zenon DEF Sock
    <2> QED BY <1>1, <2>1 DEF OutPart
<1>12. /\ w.edge \in 0 .. W + RXCAP /\ w.edge >= wire.edge /\ \A g \in s.out : w.edge >= Edge(g)
       /\ w.edge = wire.edge \/ \E g \in s.out : w.edge = Edge(g)
    BY <1>9, <1>11, EmitEdge
<1>13. \A b \in w.bytes : b[1] = b[2] /\ b[1] \in 1 .. n
    BY <1>10, <1>11, EmitBytes
<1>14. /\ w.fins \subseteq {n + 1} /\ wire.fins \subseteq w.fins
       /\ wire.fins = {} /\ (\A g \in s.out : ~g.fin) => w.fins = {}
    BY <1>10, <1>11, EmitFins
<1>15. w.syn \in BOOLEAN /\ (w.syn => w.edge >= Lesser(RXCAP, WINMAX)) /\ (wire.syn => w.syn)
    <2>1. w.syn = (wire.syn \/ \E g \in s.out : g.syn)
        BY DEF Emit
    <2> HIDE DEF w
    <2>2. \A g \in s.out : g.syn => Edge(g) >= Lesser(RXCAP, WINMAX)
        BY <1>1 DEF OutPart
    <2>3. \A g \in s.out : Edge(g) \in Int
        BY <1>11, EdgeIsNumber
    <2> DEFINE y == Lesser(RXCAP, WINMAX)
    <2>4. y \in Int /\ w.edge \in Int /\ wire.edge \in Int
        BY <1>9, <1>12, Constants, Bounds DEF Lesser
    <2> HIDE DEF y
    <2>5. wire.syn => w.edge >= y
        BY <1>9, <1>12, <2>4 DEF y
    <2>6. ASSUME NEW g \in s.out, g.syn PROVE w.edge >= y
        BY <1>12, <2>2, <2>3, <2>4, <2>6 DEF y
    <2>7. w.syn => w.edge >= y
        BY <2>1, <2>5, <2>6
    <2> QED BY <1>9, <2>1, <2>7 DEF y
<1> HIDE DEF w
<1>16. Opening(t) => w.fins = {} /\ w.edge <= Len(read) + RXCAP
    <2> SUFFICES ASSUME Opening(t) PROVE w.fins = {} /\ w.edge <= Len(read) + RXCAP
        OBVIOUS
    <2>1. Opening(s) /\ Opening(c)
        BY <1>5 DEF Opening
    <2>2. \A g \in s.out : ~g.fin /\ Edge(g) <= Len(read) + RXCAP
        BY <1>1, <2>1 DEF OutPart
    <2> QED BY <1>9, <1>12, <1>14, <2>1, <2>2
<1>17. ASSUME WindowSizes PROVE ReopenPart(t, w.edge)
    <2> SUFFICES ASSUME t.used, t.state = "established", ~t.ackPending,
                        ~(t.rx # << >> /\ t.advWin < SmallWin)
                 PROVE  w.edge >= PlaceIn(t.ack) - 1 + SmallWin
        BY DEF ReopenPart
    <2> DEFINE y == PlaceIn(t.ack) - 1 + SmallWin
    <2>1. wire.edge >= y \/ \E g \in s.out : Edge(g) >= y
        BY <1>1, <1>4, <1>5, <1>17 DEF ReopenPart
    <2>2. y \in Int
        <3>1. t.ack \in Words
            BY <1>3, Zenon DEF Sock
        <3> QED BY <3>1, PlaceIsNumber, Bounds
    <2> HIDE DEF y
    <2>3. w.edge \in Int /\ wire.edge \in Int
        BY <1>9, <1>12, Bounds
    <2>4. CASE wire.edge >= y
        <3>1. w.edge >= y
            BY <1>12, <2>2, <2>3, <2>4
        <3> QED BY <3>1 DEF y
    <2>5. CASE \E g \in s.out : Edge(g) >= y
        <3>1. PICK g \in s.out : Edge(g) >= y
            BY <2>5
        <3>2. Edge(g) \in Int
            BY <1>11, EdgeIsNumber
        <3>3. w.edge >= Edge(g)
            BY <1>12
        <3>4. w.edge >= y
            BY <2>2, <2>3, <3>1, <3>2, <3>3
        <3> QED BY <3>4 DEF y
    <2> QED BY <2>1, <2>4, <2>5
<1>18. WirePart'
    BY <1>2, <1>12, <1>13, <1>14, <1>15, <1>16 DEF WirePart, Opening
<1>19. PeerPart'
    <2>1. /\ peer \in [got : Nat, sent : 0 .. MaxIn, closed : BOOLEAN]
          /\ peer.got <= (IF wire.fins = {} THEN sent + 1 ELSE sent + 2)
          /\ peer.got > 0 => wire.syn
        BY DEF TcpInv, PeerPart
    <2>2. peer.got <= (IF w.fins = {} THEN n + 1 ELSE n + 2)
        <3> DEFINE x == peer.got
        <3>1. x \in Nat /\ n \in Nat /\ sent \in Nat /\ sent <= n
            BY <1>10, <2>1
        <3> HIDE DEF x, n
        <3>2. x <= n + 1 \/ (wire.fins # {} /\ x <= n + 2)
            <4>1. x <= (IF wire.fins = {} THEN sent + 1 ELSE sent + 2)
                BY <2>1 DEF x
            <4> QED BY <3>1, <4>1
        <3>3. x <= (IF w.fins = {} THEN n + 1 ELSE n + 2)
            <4>1. CASE x <= n + 1
                BY <3>1, <4>1
            <4>2. CASE wire.fins # {} /\ x <= n + 2
                <5>1. w.fins # {}
                    BY <1>14, <4>2
                <5> QED BY <4>2, <5>1
            <4> QED BY <3>2, <4>1, <4>2
        <3> QED BY <3>3 DEF x
    <2>3. peer.got > 0 => w.syn
        BY <1>15, <2>1
    <2> QED BY <1>2, <2>1, <2>2, <2>3 DEF PeerPart
<1>20. /\ arp' \in BOOLEAN /\ opens' \in 0 .. MaxOpens /\ read' \in Seq(Nat)
       /\ read' = Numbers(1, Len(read'))
    BY DEF TcpInv
<1>21. ReceivePart(c', Len(read'), peer') /\ SendPart(c', sent', peer'.got)
    BY <1>2, <1>7, <1>8
<1>22. WindowSizes => ReopenPart(c', wire'.edge)
    BY <1>2, <1>17
<1> QED BY <1>2, <1>3, <1>6, <1>18, <1>19, <1>20, <1>21, <1>22 DEF TcpInv, ReceivePart, SendPart, ReopenPart, SizesFit


-----------------------------------------------------------------------------
(* Ends of a connection                                                    *)

LEMMA ReleaseSound ==
    ASSUME NEW s, NEW n, NEW rd, NEW p, NEW e, Sound(s, n, rd, p, e)
    PROVE  Sound(Release(s), n, rd, p, e) /\ ~Opening(Release(s))
<1> DEFINE t == Release(s)
<1>1. s.out \in SUBSET Segment /\ OutPart(s, n, rd)
    BY Zenon DEF Sound, Sock
<1>2. /\ t.used = FALSE /\ t.state = "closed" /\ t.rtx = << >> /\ t.rx = << >> /\ t.ro = {}
      /\ t.out = s.out
    BY DEF Release, NoSock
<1>3. t \in Sock
    <2>1. 0 \in Words /\ 0 \in 0 .. MAXRTX /\ 0 \in 0 .. DUPS + 1 /\ 0 \in 0 .. RXCAP
        BY Constants
    <2>2. << >> \in Seq(Nat) /\ {} \in SUBSET Held
        OBVIOUS
    <2> QED BY <1>1, <2>1, <2>2, Zenon DEF Release, NoSock, Sock
<1> HIDE DEF t
<1>4. SizesFit(t)
    <2>1. Len(t.rtx) = 0 /\ Len(t.rx) = 0
        BY <1>2
    <2>2. IsFiniteSet(t.ro) /\ Cardinality(t.ro) = 0
        BY <1>2, FS_EmptySet
    <2> QED BY <2>1, <2>2, Constants DEF SizesFit
<1>5. ~Opening(t)
    BY <1>2 DEF Opening
<1>6. OutPart(t, n, rd)
    BY <1>1, <1>2, <1>5, OutKept
<1>7. Sound(t, n, rd, p, e)
    BY <1>2, <1>3, <1>4, <1>6 DEF Sound, SendPart, ReceivePart, ReopenPart
<1> QED BY <1>5, <1>7 DEF t

\* A connection that has failed: what was received stays.
LEMMA FailSound ==
    ASSUME NEW s, NEW n, NEW rd \in Nat, NEW p \in PeerRec, NEW e, Sound(s, n, rd, p, e),
           NEW t \in Sock, t.used = s.used, t.failed, t.state = "closed", t.rtx = << >>,
           ~t.syn, ~t.fin, t.rx = s.rx, t.ack = s.ack, t.peerClosed = s.peerClosed,
           t.finPending => s.finPending, t.finSeq = s.finSeq, t.ro = s.ro, t.out = s.out,
           t.appClosed = s.appClosed
    PROVE  Sound(t, n, rd, p, e) /\ ~Opening(t)
<1>1. ~Opening(t)
    BY DEF Opening
<1>2. SizesFit(t)
    <2>1. Len(t.rtx) = 0
        OBVIOUS
    <2> QED BY <2>1, Constants DEF Sound, SizesFit
<1>3. SendPart(t, n, p.got) /\ ReopenPart(t, e)
    BY DEF SendPart, ReopenPart
<1>4. OutPart(t, n, rd)
    BY <1>1, OutKept DEF Sound
<1>5. ReceivePart(t, rd, p)
    <2>1. SUFFICES ASSUME s.used, ~s.appClosed PROVE ReceivePart(t, rd, p)
        BY DEF ReceivePart
    <2>2. CASE s.state = "syn_sent"
        <3>1. rd = 0 /\ s.rx = << >> /\ ~s.peerClosed /\ ~s.finPending
            BY <2>1, <2>2 DEF Sound, ReceivePart
        <3>2. Len(t.rx) = 0
            BY <3>1
        <3>3. Numbers(1, 0) = << >>
            <4>1. 1 \in Nat /\ 0 \in Int /\ 0 < 1
                OBVIOUS
            <4> QED BY <4>1, NumbersEmpty
        <3>4. p.sent \in 0 .. MaxIn
            BY DEF PeerRec
        <3> DEFINE g == rd + Len(t.rx)
        <3>5. g = 0 /\ rd + 1 = 1
            BY <3>1, <3>2
        <3>6. t.rx = Numbers(rd + 1, g) /\ g <= p.sent /\ ~(g > 0)
            BY <3>1, <3>3, <3>4, <3>5
        <3> QED BY <3>1, <3>6 DEF ReceivePart
    <2>3. CASE s.state # "syn_sent"
        <3>1. ReceivePart(s, rd, p)
            BY DEF Sound
        <3> DEFINE g == rd + Len(s.rx)
        <3>2. /\ s.rx = Numbers(rd + 1, g) /\ g <= p.sent
              /\ g > 0 => s.ack = Plus(IRS, g + (IF s.peerClosed THEN 2 ELSE 1))
              /\ s.peerClosed => p.closed /\ g = p.sent
              /\ s.finPending => p.closed /\ s.finSeq = Plus(IRS, p.sent + 1)
            BY <2>1, <2>3, <3>1 DEF ReceivePart
        <3> QED BY <3>2, Zenon DEF ReceivePart
    <2> QED BY <2>2, <2>3
<1> QED BY <1>1, <1>2, <1>3, <1>4, <1>5 DEF Sound

LEMMA FailedSound ==
    ASSUME NEW s, NEW n, NEW rd \in Nat, NEW p \in PeerRec, NEW e, Sound(s, n, rd, p, e)
    PROVE  Sound(Failed(s), n, rd, p, e) /\ ~Opening(Failed(s))
<1> DEFINE t == Failed(s)
<1>0. s \in Sock
    BY DEF Sound
<1>1. t \in Sock
    <2>1. << >> \in Seq(Nat)
        OBVIOUS
    <2> QED BY <1>0, <2>1, Zenon DEF Sock, Failed
<1>2. /\ t.used = s.used /\ t.failed /\ t.state = "closed" /\ t.rtx = << >> /\ ~t.syn /\ ~t.fin
      /\ t.rx = s.rx /\ t.ack = s.ack /\ t.peerClosed = s.peerClosed
    BY <1>0, Zenon DEF Sock, Failed
<1>3. /\ t.finPending = s.finPending /\ t.finSeq = s.finSeq /\ t.ro = s.ro /\ t.out = s.out
      /\ t.appClosed = s.appClosed
    BY <1>0, Zenon DEF Sock, Failed
<1> HIDE DEF t
<1>4. Sound(t, n, rd, p, e) /\ ~Opening(t)
    BY <1>1, <1>2, <1>3, FailSound
<1> QED BY <1>4 DEF t

LEMMA BothClosedSound ==
    ASSUME NEW s, NEW n \in 0 .. MaxOut, NEW rd \in Nat, NEW p \in PeerRec, NEW e,
           Taken(s, n, rd, p, e)
    PROVE  Sound(BothClosed(s), n, rd, p, e) /\ (Opening(BothClosed(s)) => s.state = "established")
<1> DEFINE t == [s EXCEPT !.state = "closed"]
<1>0. s \in Sock /\ Sound(s, n, rd, p, e) /\ s.used /\ ~s.failed /\ ~s.appClosed
    BY DEF Taken, Sound
<1>1. CASE ~(s.state = "fin_wait" /\ s.peerClosed /\ ~s.fin /\ s.rtx = << >>)
    BY <1>0, <1>1 DEF BothClosed, Opening, Taken
<1>2. CASE s.state = "fin_wait" /\ s.peerClosed /\ ~s.fin /\ s.rtx = << >>
    <2>1. BothClosed(s) = t
        BY <1>2 DEF BothClosed
    <2>2. t \in Sock
        BY <1>0, Zenon DEF Sock
    <2>3. /\ t.state = "closed" /\ t.used = s.used /\ t.failed = s.failed
          /\ t.appClosed = s.appClosed /\ t.rtx = s.rtx /\ t.syn = s.syn /\ t.fin = s.fin
          /\ t.una = s.una /\ t.seq = s.seq /\ t.rx = s.rx /\ t.ack = s.ack
          /\ t.peerClosed = s.peerClosed /\ t.finPending = s.finPending
          /\ t.finSeq = s.finSeq /\ t.ro = s.ro /\ t.out = s.out
        BY <1>0, Zenon DEF Sock
    <2> HIDE DEF t
    <2>4. SizesFit(t)
        BY <1>0, <2>3, SizesKept DEF Sound
    <2>5. SendPart(t, n, p.got)
        <3>1. SendPart(s, n, p.got)
            BY <1>0 DEF Sound
        <3> QED BY <1>0, <1>2, <2>3, <3>1, Zenon DEF SendPart
    <2>6. ReceivePart(t, rd, p)
        <3>1. ReceivePart(s, rd, p)
            BY <1>0 DEF Sound
        <3> QED BY <1>0, <1>2, <2>3, <3>1, Zenon DEF ReceivePart
    <2>7. ~Opening(t)
        BY <2>3 DEF Opening
    <2>8. OutPart(t, n, rd)
        BY <1>0, <2>3, <2>7, OutKept DEF Sound
    <2>9. ReopenPart(t, e)
        BY <2>3 DEF ReopenPart
    <2>10. Sound(t, n, rd, p, e)
        BY <2>2, <2>4, <2>5, <2>6, <2>8, <2>9 DEF Sound
    <2> QED BY <2>1, <2>7, <2>10
<1> QED BY <1>1, <1>2


-----------------------------------------------------------------------------
(* tcp_handle_packet and tcp_poll                                          *)

LEMMA InvSound ==
    ASSUME TcpInv
    PROVE  /\ Sound(c, sent, Len(read), peer, wire.edge)
           /\ sent \in 0 .. MaxOut /\ Len(read) \in Nat /\ peer \in PeerRec /\ wire.edge \in Int
           /\ peer.got <= MaxOut + 2
<1>1. OutPart(c, sent, Len(read))
    BY DEF TcpInv, OutPart
<1>2. Sound(c, sent, Len(read), peer, wire.edge)
    BY <1>1 DEF TcpInv, Sound
<1>3. sent \in 0 .. MaxOut /\ Len(read) \in Nat /\ peer \in PeerRec /\ wire.edge \in Int
    <2>1. read \in Seq(Nat) /\ wire.edge \in 0 .. W + RXCAP
        BY DEF TcpInv, WirePart
    <2>2. Len(read) \in Nat /\ wire.edge \in Int
        BY <2>1, LenProperties, Bounds
    <2> QED BY <2>2 DEF TcpInv, PeerPart, PeerRec
<1>4. peer.got <= (IF wire.fins = {} THEN sent + 1 ELSE sent + 2) /\ peer.got \in Nat
    BY DEF TcpInv, PeerPart
<1>5. peer.got <= MaxOut + 2
    <2> DEFINE x == peer.got
    <2>1. x \in Nat /\ x <= (IF wire.fins = {} THEN sent + 1 ELSE sent + 2)
        BY <1>4
    <2> HIDE DEF x
    <2>2. x <= MaxOut + 2
        BY <1>3, <2>1, Bounds
    <2> QED BY <2>2 DEF x
<1> QED BY <1>2, <1>3, <1>5

LEMMA HeardSound ==
    ASSUME NEW s, NEW n, NEW rd, NEW p \in PeerRec, NEW e, Sound(s, n, rd, p, e),
           NEW win \in {0, 1}
    PROVE  /\ Sound(Heard(s, win), n, rd, p, e) /\ KeepsSend(s, Heard(s, win))
           /\ KeepsReceive(s, Heard(s, win))
<1> DEFINE b == IF win # 0 THEN FALSE ELSE s.persist
           t == [s EXCEPT !.pwin = win, !.persist = b]
<1>0. s \in Sock /\ s.persist \in BOOLEAN
    BY Zenon DEF Sound, Sock
<1>1. Heard(s, win) = t
    BY Zenon DEF Heard
<1>2. b \in BOOLEAN
    BY <1>0
<1> HIDE DEF b
<1>3. t \in Sock /\ KeepsSend(s, t) /\ KeepsReceive(s, t)
    BY <1>0, <1>2, Zenon DEF Sock, KeepsSend, KeepsReceive
<1>4. t.out = s.out /\ t.advWin = s.advWin /\ t.ackPending = s.ackPending
    BY <1>0, Zenon DEF Sock
<1> HIDE DEF t
<1>5. Sound(t, n, rd, p, e)
    BY <1>3, <1>4, SoundKept
<1> QED BY <1>1, <1>3, <1>5

LEMMA AfterCloseSound ==
    ASSUME NEW s, NEW n \in 0 .. MaxOut, NEW rd \in Nat, NEW p \in PeerRec, NEW e \in Int,
           Sound(s, n, rd, p, e), s.used, s.state = "fin_wait", NEW g
    PROVE  Sound(AfterClose(s, g), n, rd, p, e) /\ ~Opening(AfterClose(s, g))
<1>1. Sound(Release(s), n, rd, p, e) /\ ~Opening(Release(s))
    BY ReleaseSound
<1>2. Sound(SendAck(s), n, rd, p, e) /\ ~Opening(SendAck(s))
    <2>1. n \in Nat
        OBVIOUS
    <2>2. Sound(SendAck(s), n, rd, p, e) /\ KeepsSend(s, SendAck(s))
        BY <2>1, SendAckSound
    <2> QED BY <2>2 DEF KeepsSend, Opening
<1>3. ~Opening(s)
    BY DEF Opening
<1> QED BY <1>1, <1>2, <1>3 DEF AfterClose

\* A segment in a connection that is open or closing
LEMMA AcceptSound ==
    ASSUME NEW s, NEW n \in 0 .. MaxOut, NEW rd \in Nat, NEW p \in PeerRec, NEW e \in Int,
           Sound(s, n, rd, p, e), s.used, s.state \in {"established", "fin_wait"},
           p.got <= MaxOut + 2, NEW g, NEW a, Arriving(g, p, a),
           NEW k \in 1 .. p.got, g.ack = Plus(ISS, k)
    PROVE  /\ Sound(Accept(s, g), n, rd, p, e)
           /\ Opening(Accept(s, g)) => s.state = "established"
<1> DEFINE ack == Plus(ISS, k)
           plen == Len(g.data)
           t == ProcessAck(s, ack, plen)
<1>1. Sound(t, n, rd, p, e) /\ KeepsReceive(s, t)
    <2> HIDE DEF plen
    <2> QED BY ProcessAckSound
<1>2. Accept(s, g) = IF t.state = "fin_wait" /\ t.appClosed THEN AfterClose(t, g)
                     ELSE BothClosed(TakeFin(TakeData(t, g), g))
    BY DEF Accept
<1> HIDE DEF t
<1>3. t.used /\ t.state = s.state /\ t.failed = s.failed /\ t.appClosed = s.appClosed
    BY <1>1 DEF KeepsReceive
<1>4. ~t.failed /\ (t.state = "established" => ~t.appClosed)
    BY <1>1, <1>3 DEF Sound, SendPart
<1>5. ASSUME t.state = "fin_wait" /\ t.appClosed
      PROVE  Sound(AfterClose(t, g), n, rd, p, e) /\ ~Opening(AfterClose(t, g))
    BY <1>1, <1>3, <1>5, AfterCloseSound
<1>6. ASSUME ~(t.state = "fin_wait" /\ t.appClosed)
      PROVE  LET y == BothClosed(TakeFin(TakeData(t, g), g))
             IN  Sound(y, n, rd, p, e) /\ (Opening(y) => s.state = "established")
    <2> DEFINE d == TakeData(t, g)
               f == TakeFin(d, g)
               y == BothClosed(f)
    <2>1. Taken(t, n, rd, p, e)
        BY <1>1, <1>3, <1>4, <1>6 DEF Taken
    <2>2. Taken(d, n, rd, p, e)
        BY <2>1, TakeDataTaken
    <2>3. Taken(f, n, rd, p, e)
        <3> HIDE DEF d
        <3> QED BY <2>2, TakeFinTaken
    <2>4. Sound(y, n, rd, p, e) /\ (Opening(y) => f.state = "established")
        <3> HIDE DEF f
        <3> QED BY <2>3, BothClosedSound
    <2>5. t.state = "fin_wait" => f.state = "fin_wait"
        <3> SUFFICES ASSUME t.state = "fin_wait" PROVE f.state = "fin_wait"
            OBVIOUS
        <3>1. d = t /\ t.peerClosed
            BY <2>1, TakenClosed DEF TakeData
        <3>2. f = t \/ f = SendAck(t)
            BY <3>1 DEF TakeFin
        <3>3. SendAck(t).state = t.state
            <4>1. Sound(t, n, rd, p, e) /\ t.used /\ n \in Nat
                BY <2>1 DEF Taken
            <4>2. KeepsSend(t, SendAck(t))
                BY <4>1, SendAckSound
            <4> QED BY <4>2 DEF KeepsSend
        <3> QED BY <3>2, <3>3
    <2>6. Opening(y) => s.state = "established"
        BY <1>3, <2>4, <2>5
    <2> QED BY <2>4, <2>6
<1>7. CASE t.state = "fin_wait" /\ t.appClosed
    BY <1>2, <1>5, <1>7
<1>8. CASE ~(t.state = "fin_wait" /\ t.appClosed)
    BY <1>2, <1>6, <1>8
<1> QED BY <1>7, <1>8

LEMMA ProbeSound ==
    ASSUME NEW s, NEW n \in 0 .. MaxOut, NEW rd \in Nat, NEW p \in PeerRec, NEW e \in Int,
           Sound(s, n, rd, p, e), s.used, s.state = "established", s.rtx # << >>
    PROVE  LET t == Transmit(s, s.una, <<Head(s.rtx)>>, FALSE, FALSE)
           IN  Sound(t, n, rd, p, e) /\ KeepsSend(s, t)
<1> DEFINE u == PlaceOut(s.una)
           x == s.rtx[1]
           data == <<x>>
           no == FALSE
           sq == s.una
           t == Transmit(s, sq, data, no, no)
<1>0. SendPart(s, n, p.got) /\ p.got \in Nat /\ ~s.failed /\ n \in Nat
    BY EstablishedFacts DEF Sound, PeerRec
<1>1. /\ u \in Nat /\ s.rtx \in Seq(Nat)
      /\ \A j \in 1 .. Len(s.rtx) : s.rtx[j] = u + j - 1 /\ s.rtx[j] \in 1 .. n
    BY <1>0, SenderFacts
<1>2. Len(s.rtx) \in Nat /\ Len(s.rtx) # 0
    BY <1>1, EmptySeq, LenProperties
<1>3. x = u + 1 - 1 /\ x \in 1 .. n
    <2>1. 1 \in 1 .. Len(s.rtx)
        BY <1>2
    <2> QED BY <1>1, <2>1
<1>4. Head(s.rtx) = x
    BY <1>1
<1> HIDE DEF x, u
<1>5. /\ data \in Seq(Nat) /\ Len(data) = 1
      /\ \A j \in 1 .. Len(data) : data[j] = u + j - 1 /\ data[j] \in 1 .. n
    <2>1. data \in Seq(Nat) /\ Len(data) = 1 /\ data[1] = x
        BY <1>0, <1>3
    <2>2. \A j \in 1 .. Len(data) : j = 1
        BY <2>1
    <2> HIDE DEF data
    <2> QED BY <1>3, <2>1, <2>2
<1>6. sq \in Words /\ no \in BOOLEAN /\ (no <=> s.state = "syn_sent") /\ ~no
    BY Zenon DEF Sound, Sock
<1>7. \A j \in 1 .. Len(data) : data[j] = PlaceOut(sq) + j - 1 /\ data[j] \in 1 .. n
    BY <1>5 DEF u
<1> HIDE DEF data, no, sq
<1>8. Sound(t, n, rd, p, e) /\ KeepsSend(s, t)
    BY <1>0, <1>5, <1>6, <1>7, TransmitSound
<1> QED BY <1>4, <1>8 DEF t, data, no, sq

\* The retransmission timer
LEMMA RtoSound ==
    ASSUME NEW s, NEW n \in 0 .. MaxOut, NEW rd \in Nat, NEW p \in PeerRec, NEW e \in Int,
           Sound(s, n, rd, p, e), s.used, Flight(s) # 0,
           NEW over
    PROVE  Sound(Rto(s, over), n, rd, p, e) /\ (Opening(Rto(s, over)) => Opening(s))
<1> DEFINE q == [s EXCEPT !.persist = TRUE]
           m == s.tries + 1
           v == [s EXCEPT !.tries = m]
           pr == Transmit(q, s.una, <<Head(s.rtx)>>, FALSE, FALSE)
<1>0. s \in Sock /\ s.tries \in 0 .. MAXRTX /\ SendPart(s, n, p.got)
    BY Zenon DEF Sound, Sock
<1>1. Rto(s, over) =
          IF s.pwin = 0 /\ s.rtx # << >> /\ s.state = "established"
          THEN IF s.persist /\ over THEN Failed(q) ELSE pr
          ELSE IF s.tries >= MAXRTX THEN Failed(s) ELSE Resend(v)
    BY Zenon DEF Rto
<1>2. q \in Sock /\ KeepsSend(s, q) /\ KeepsReceive(s, q)
    BY <1>0, Zenon DEF Sock, KeepsSend, KeepsReceive
<1>3. q.out = s.out /\ q.advWin = s.advWin /\ q.ackPending = s.ackPending
    BY <1>0, Zenon DEF Sock
<1>4. ~s.failed
    <2>1. s.failed => s.rtx = << >> /\ ~s.syn /\ ~s.fin
        BY <1>0 DEF SendPart
    <2>2. s.rtx = << >> => Len(s.rtx) = 0
        OBVIOUS
    <2>3. s.failed => Flight(s) = 0
        BY <1>0, <2>1, <2>2, FlightIs
    <2> QED BY <2>3
<1> HIDE DEF q
<1>5. Sound(q, n, rd, p, e)
    BY <1>2, <1>3, SoundKept
<1>6. /\ q.used = s.used /\ q.state = s.state /\ q.rtx = s.rtx /\ q.una = s.una
    BY <1>2 DEF KeepsSend
<1>7. Sound(Failed(q), n, rd, p, e) /\ ~Opening(Failed(q))
    BY <1>5, FailedSound
<1>8. Sound(Failed(s), n, rd, p, e) /\ ~Opening(Failed(s))
    BY FailedSound
<1>9. ASSUME s.rtx # << >>, s.state = "established" PROVE Sound(pr, n, rd, p, e)
    BY <1>5, <1>6, <1>9, ProbeSound
<1>10. ASSUME ~(s.tries >= MAXRTX)
       PROVE  Sound(Resend(v), n, rd, p, e) /\ (Opening(Resend(v)) => Opening(s))
    <2>1. m \in 0 .. MAXRTX
        BY <1>0, <1>10, Constants
    <2> HIDE DEF m
    <2>2. v \in Sock /\ KeepsSend(s, v) /\ KeepsReceive(s, v)
        BY <1>0, <2>1, Zenon DEF Sock, KeepsSend, KeepsReceive
    <2>3. v.out = s.out /\ v.advWin = s.advWin /\ v.ackPending = s.ackPending
        BY <1>0, Zenon DEF Sock
    <2> HIDE DEF v
    <2>4. Sound(v, n, rd, p, e)
        BY <2>2, <2>3, SoundKept
    <2>5. v.used = s.used /\ v.state = s.state /\ v.failed = s.failed
        BY <2>2 DEF KeepsSend
    <2>6. Sound(Resend(v), n, rd, p, e) /\ KeepsSend(v, Resend(v))
        BY <1>4, <2>4, <2>5, ResendSound
    <2> QED BY <2>5, <2>6 DEF KeepsSend, Opening
<1> HIDE DEF v, pr
<1>11. s.state = "established" => Opening(s)
    BY DEF Opening
<1> QED BY <1>1, <1>7, <1>8, <1>9, <1>10, <1>11


-----------------------------------------------------------------------------
(* The steps                                                               *)

LEMMA InitInv == ASSUME Init PROVE TcpInv
<1>1. c = NoSock
    BY DEF Init
<1>2. c \in Sock
    <2>1. 0 \in Words /\ 0 \in 0 .. MAXRTX /\ 0 \in 0 .. DUPS + 1 /\ 0 \in 0 .. RXCAP
        BY Constants
    <2>2. << >> \in Seq(Nat) /\ {} \in SUBSET Held /\ {} \in SUBSET Segment
        OBVIOUS
    <2> QED BY <1>1, <2>1, <2>2, Zenon DEF NoSock, Sock
<1>3. ~c.used /\ c.out = {} /\ c.rtx = << >> /\ c.rx = << >> /\ c.ro = {} /\ c.state = "closed"
    BY <1>1 DEF NoSock
<1>4. SizesFit(c)
    <2>1. Len(c.rtx) = 0 /\ Len(c.rx) = 0
        BY <1>3
    <2>2. IsFiniteSet(c.ro) /\ Cardinality(c.ro) = 0
        BY <1>3, FS_EmptySet
    <2> QED BY <2>1, <2>2, Constants DEF SizesFit
<1>5. read \in Seq(Nat) /\ read = Numbers(1, Len(read))
    <2>1. read = << >> /\ Len(read) = 0
        BY DEF Init
    <2>2. 1 \in Nat /\ 0 \in Int /\ 0 < 1
        OBVIOUS
    <2>3. Numbers(1, 0) = << >>
        BY <2>2, NumbersEmpty
    <2> QED BY <2>1, <2>3
<1>6. WirePart
    <2>1. /\ wire.syn = FALSE /\ wire.bytes = {} /\ wire.fins = {} /\ wire.edge = 0
        BY DEF Init, NoWire
    <2>2. wire.edge \in 0 .. W + RXCAP /\ ~Opening(c)
        BY <1>3, <2>1, Bounds DEF Opening
    <2>3. wire.syn \in BOOLEAN /\ ~wire.syn
        BY <2>1
    <2> QED BY <2>1, <2>2, <2>3 DEF WirePart
<1>7. PeerPart
    <2>1. wire.fins = {} /\ peer = NewPeer /\ sent = 0
        BY DEF Init, NoWire
    <2>2. peer.got = 0 /\ peer.sent = 0 /\ peer.closed = FALSE
        BY <2>1 DEF NewPeer
    <2>3. peer \in [got : Nat, sent : 0 .. MaxIn, closed : BOOLEAN]
        BY <2>1, Bounds DEF NewPeer
    <2> QED BY <2>1, <2>2, <2>3 DEF PeerPart
<1>8. sent \in 0 .. MaxOut /\ opens \in 0 .. MaxOpens /\ arp \in BOOLEAN
    BY Constants DEF Init
<1>9. SendPart(c, sent, peer.got) /\ ReceivePart(c, Len(read), peer) /\ ReopenPart(c, wire.edge)
    BY <1>3 DEF SendPart, ReceivePart, ReopenPart
<1> QED BY <1>2, <1>3, <1>4, <1>5, <1>6, <1>7, <1>8, <1>9 DEF TcpInv

LEMMA HeldPieceLater ==
    ASSUME NEW r, NEW l \in Nat, HeldPiece(r, l)
    PROVE  HeldPiece(r, l + 1)
<1>1. PICK a \in 1 .. l :
          /\ r.seq = Plus(IRS, a) /\ Len(r.data) > 0 /\ a + Len(r.data) <= l + 1
          /\ r.data = Numbers(a, a + Len(r.data) - 1)
    BY DEF HeldPiece
<1>2. Len(r.data) \in Nat
    <2> DEFINE b == a + Len(r.data) - 1
    <2>1. CASE b \in Int
        <3>1. Numbers(a, b) \in Seq(Nat)
            <4>1. a \in Nat
                OBVIOUS
            <4> HIDE DEF b
            <4> QED BY <2>1, <4>1, NumbersFacts
        <3> QED BY <1>1, <3>1, LenProperties
    <2>2. CASE b \notin Int
        <3>1. QED
            BY <1>1, <2>2
    <2> QED BY <2>1, <2>2
<1>3. a \in 1 .. l + 1 /\ a + Len(r.data) <= (l + 1) + 1
    BY <1>1, <1>2
<1> QED BY <1>1, <1>3 DEF HeldPiece

\* A step of the network or of the peer that leaves the socket alone
LEMMA PeerStep ==
    ASSUME TcpInv, UNCHANGED <<c, arp, opens, sent, read, wire>>, peer' \in PeerRec,
           peer.got <= peer'.got, PeerPart', ReceivePart(c, Len(read), peer')
    PROVE  TcpInv'
<1>1. peer.got \in Nat /\ peer'.got \in Nat /\ SendPart(c, sent, peer.got) /\ KeepsSend(c, c)
    BY DEF TcpInv, PeerPart, PeerRec, KeepsSend
<1>2. SendPart(c, sent, peer'.got)
    BY <1>1, SendKept
<1>3. WirePart'
    BY DEF TcpInv, WirePart, Opening
<1>4. SendPart(c', sent', peer'.got) /\ ReceivePart(c', Len(read'), peer')
    BY <1>2
<1>5. WindowSizes => ReopenPart(c', wire'.edge)
    BY DEF TcpInv
<1> QED BY <1>3, <1>4, <1>5 DEF TcpInv, SendPart, ReceivePart, ReopenPart, SizesFit

LEMMA PeerTakesStep == ASSUME TcpInv, PeerTakes PROVE TcpInv'
<1>1. /\ peer \in PeerRec /\ peer.got <= (IF wire.fins = {} THEN sent + 1 ELSE sent + 2)
      /\ peer.got > 0 => wire.syn
    BY DEF TcpInv, PeerPart, PeerRec
<1>2. UNCHANGED <<c, arp, opens, sent, read, wire>> /\ peer' = [peer EXCEPT !.got = peer.got + 1]
    BY DEF PeerTakes
<1>3. /\ peer'.got = peer.got + 1 /\ peer'.sent = peer.sent /\ peer'.closed = peer.closed
      /\ peer' \in PeerRec /\ peer.got \in Nat
    BY <1>1, <1>2 DEF PeerRec
<1>4. sent \in Nat
    BY DEF TcpInv
<1>5. peer.got <= sent \/ (wire.fins # {} /\ peer.got = sent + 1)
      \/ (peer.got = 0 /\ wire.syn)
    <2>1. \/ peer.got = 0 /\ wire.syn
          \/ \E b \in wire.bytes : b[1] = peer.got
          \/ peer.got # 0 /\ peer.got \in wire.fins
        BY DEF PeerTakes
    <2>2. CASE \E b \in wire.bytes : b[1] = peer.got
        <3>1. peer.got \in 1 .. sent
            BY <2>2 DEF TcpInv, WirePart
        <3> QED BY <1>4, <3>1
    <2>3. CASE peer.got # 0 /\ peer.got \in wire.fins
        BY <2>3 DEF TcpInv, WirePart
    <2> QED BY <2>1, <2>2, <2>3
<1>6. wire.syn
    <2>1. \/ peer.got = 0 /\ wire.syn
          \/ \E b \in wire.bytes : b[1] = peer.got
          \/ peer.got # 0 /\ peer.got \in wire.fins
        BY DEF PeerTakes
    <2>2. CASE \E b \in wire.bytes : b[1] = peer.got
        <3>1. peer.got \in 1 .. sent
            BY <2>2 DEF TcpInv, WirePart
        <3> QED BY <1>1, <1>4, <3>1
    <2> QED BY <1>1, <1>3, <2>1, <2>2
<1>7. peer'.got <= (IF wire.fins = {} THEN sent + 1 ELSE sent + 2)
    <2> DEFINE x == peer.got
    <2>1. x \in Nat /\ peer'.got = x + 1
        BY <1>3
    <2>2. x <= sent \/ (wire.fins # {} /\ x = sent + 1) \/ x = 0
        BY <1>5
    <2> HIDE DEF x
    <2>3. x + 1 <= (IF wire.fins = {} THEN sent + 1 ELSE sent + 2)
        BY <1>4, <2>1, <2>2
    <2> QED BY <2>1, <2>3
<1>8. PeerPart'
    <2>1. peer' \in [got : Nat, sent : 0 .. MaxIn, closed : BOOLEAN]
        BY <1>3 DEF PeerRec
    <2> QED BY <1>2, <1>6, <1>7, <2>1 DEF PeerPart
<1>9. ReceivePart(c, Len(read), peer')
    <2>1. ReceivePart(c, Len(read), peer)
        BY DEF TcpInv
    <2> QED BY <1>3, <2>1, Zenon DEF ReceivePart
<1>10. peer.got <= peer'.got
    BY <1>3
<1> QED BY <1>2, <1>3, <1>8, <1>9, <1>10, PeerStep

LEMMA PeerSendsStep == ASSUME TcpInv, PeerSends PROVE TcpInv'
<1>1. peer \in PeerRec
    BY DEF TcpInv, PeerPart, PeerRec
<1>2. /\ UNCHANGED <<c, arp, opens, sent, read, wire>> /\ ~peer.closed /\ peer.sent < MaxIn
      /\ peer' = [peer EXCEPT !.sent = peer.sent + 1]
    BY DEF PeerSends
<1>3. /\ peer'.got = peer.got /\ peer'.sent = peer.sent + 1 /\ peer'.closed = peer.closed
      /\ peer' \in PeerRec /\ peer.got \in Nat /\ peer.sent \in Nat
    <2>1. peer.sent \in 0 .. MaxIn /\ peer.got \in Nat
        BY <1>1 DEF PeerRec
    <2>2. peer.sent + 1 \in 0 .. MaxIn /\ peer.sent \in Nat
        BY <1>2, <2>1, Bounds
    <2> QED BY <1>1, <1>2, <2>1, <2>2 DEF PeerRec
<1>4. PeerPart'
    <2>1. peer' \in [got : Nat, sent : 0 .. MaxIn, closed : BOOLEAN]
        BY <1>3 DEF PeerRec
    <2> QED BY <1>2, <1>3, <2>1 DEF TcpInv, PeerPart
<1>5. ReceivePart(c, Len(read), peer')
    <2>1. ReceivePart(c, Len(read), peer)
        BY DEF TcpInv
    <2>2. SUFFICES ASSUME c.used, ~c.appClosed, c.state # "syn_sent"
                   PROVE  ReceivePart(c, Len(read), peer')
        BY <2>1 DEF ReceivePart
    <2> DEFINE g == Len(read) + Len(c.rx)
               rd == Len(read)
    <2>3. /\ c.rx = Numbers(rd + 1, g) /\ g <= peer.sent /\ ~c.peerClosed /\ ~c.finPending
          /\ c.state # "closed" \/ g > 0 =>
                c.ack = Plus(IRS, g + (IF c.peerClosed THEN 2 ELSE 1))
          /\ c.state = "established" => \A r \in c.ro : HeldPiece(r, peer.sent)
          /\ c.state # "established" /\ ~c.failed => c.peerClosed
        BY <1>2, <2>1, <2>2 DEF ReceivePart
    <2>4. g <= peer'.sent
        <3>1. g \in Int
            <4>1. read \in Seq(Nat) /\ c.rx \in Seq(Nat)
                BY Zenon DEF TcpInv, Sock
            <4> QED BY <4>1, LenProperties
        <3> HIDE DEF g
        <3> QED BY <1>3, <2>3, <3>1
    <2>5. c.state = "established" => \A r \in c.ro : HeldPiece(r, peer'.sent)
        BY <1>3, <2>3, HeldPieceLater
    <2> QED BY <2>2, <2>3, <2>4, <2>5, Zenon DEF ReceivePart
<1>6. peer.got <= peer'.got
    BY <1>3
<1> QED BY <1>2, <1>3, <1>4, <1>5, <1>6, PeerStep

LEMMA PeerClosesStep == ASSUME TcpInv, PeerCloses PROVE TcpInv'
<1>1. peer \in PeerRec
    BY DEF TcpInv, PeerPart, PeerRec
<1>2. /\ UNCHANGED <<c, arp, opens, sent, read, wire>> /\ ~peer.closed
      /\ peer' = [peer EXCEPT !.closed = TRUE]
    BY DEF PeerCloses
<1>3. /\ peer'.got = peer.got /\ peer'.sent = peer.sent /\ peer'.closed
      /\ peer' \in PeerRec /\ peer.got \in Nat
    BY <1>1, <1>2 DEF PeerRec
<1>4. PeerPart'
    <2>1. peer' \in [got : Nat, sent : 0 .. MaxIn, closed : BOOLEAN]
        BY <1>3 DEF PeerRec
    <2> QED BY <1>2, <1>3, <2>1 DEF TcpInv, PeerPart
<1>5. ReceivePart(c, Len(read), peer')
    <2>1. ReceivePart(c, Len(read), peer)
        BY DEF TcpInv
    <2> QED BY <1>3, <2>1, Zenon DEF ReceivePart
<1>6. peer.got <= peer'.got
    BY <1>3
<1> QED BY <1>2, <1>3, <1>4, <1>5, <1>6, PeerStep

LEMMA ArpReplyStep == ASSUME TcpInv, ArpReply PROVE TcpInv'
<1>1. UNCHANGED <<c, opens, sent, read, wire, peer>> /\ arp' = TRUE
    BY DEF ArpReply
<1>2. WirePart' /\ PeerPart'
    BY <1>1 DEF TcpInv, WirePart, PeerPart, Opening
<1>3. /\ SendPart(c', sent', peer'.got) /\ ReceivePart(c', Len(read'), peer')
      /\ (WindowSizes => ReopenPart(c', wire'.edge))
    BY <1>1 DEF TcpInv
<1> QED BY <1>1, <1>2, <1>3 DEF TcpInv, SendPart, ReceivePart, ReopenPart, SizesFit

LEMMA ArpForgetStep == ASSUME TcpInv, ArpForget PROVE TcpInv'
<1>1. UNCHANGED <<c, opens, sent, read, wire, peer>> /\ arp' = FALSE
    BY DEF ArpForget
<1>2. WirePart' /\ PeerPart'
    BY <1>1 DEF TcpInv, WirePart, PeerPart, Opening
<1>3. /\ SendPart(c', sent', peer'.got) /\ ReceivePart(c', Len(read'), peer')
      /\ (WindowSizes => ReopenPart(c', wire'.edge))
    BY <1>1 DEF TcpInv
<1> QED BY <1>1, <1>2, <1>3 DEF TcpInv, SendPart, ReceivePart, ReopenPart, SizesFit

LEMMA ArrivesStep ==
    ASSUME TcpInv, NEW g \in Segments, Arrives(g)
    PROVE  TcpInv'
<1> DEFINE n == sent
           rd == Len(read)
           e == wire.edge
           s == Heard(c, g.win)
           plen == Len(g.data)
           ack == g.ack
<1>1. PICK a \in 1 .. peer.sent + 1, b \in 0 .. peer.sent, f \in BOOLEAN,
           k \in 1 .. peer.got, w \in {0, 1} :
          g = [seq |-> Plus(IRS, a), data |-> Numbers(a, b), fin |-> f,
               ack |-> Plus(ISS, k), win |-> w]
    BY DEF Segments
<1>2. /\ g.seq = Plus(IRS, a) /\ g.data = Numbers(a, b) /\ g.fin = f /\ g.ack = Plus(ISS, k)
      /\ g.win \in {0, 1}
    BY <1>1
<1>3. /\ c.used /\ peer.got > 0 /\ CanArrive(g) /\ arp' = arp /\ opens' = opens
      /\ sent' = sent /\ read' = read /\ peer' = peer
      /\ \/ c.state = "syn_sent" /\ Becomes(s)
         \/ c.state = "closed" /\ Becomes(ProcessAck(s, ack, plen))
         \/ c.state \in {"established", "fin_wait"} /\ Becomes(Accept(s, g))
    BY DEF Arrives
<1>4. /\ Sound(c, n, rd, peer, e) /\ n \in 0 .. MaxOut /\ rd \in Nat /\ peer \in PeerRec
      /\ e \in Int /\ peer.got <= MaxOut + 2
    BY <1>3, InvSound
<1> HIDE DEF n, rd, e
<1>5. Sound(s, n, rd, peer, e) /\ KeepsSend(c, s)
    BY <1>2, <1>4, HeardSound
<1> HIDE DEF s
<1>6. s.used = c.used /\ s.state = c.state
    BY <1>5 DEF KeepsSend
<1>7. Arriving(g, peer, a)
    <2> DEFINE l == Len(g.data)
    <2>1. a \in Nat /\ b \in Int /\ peer.sent \in 0 .. MaxIn /\ b \in Nat
        BY <1>4, Bounds DEF PeerRec
    <2>2. Numbers(a, b) \in Seq(Nat) /\ Len(Numbers(a, b)) = IF a <= b THEN b - a + 1 ELSE 0
        BY <2>1, NumbersFacts
    <2>3. g.data \in Seq(Nat) /\ l = IF a <= b THEN b - a + 1 ELSE 0
        BY <1>2, <2>2
    <2>4. PlaceIn(g.seq) = a
        <3>1. a \in 0 .. W - 1
            BY <2>1, Bounds
        <3> QED BY <1>2, <3>1, Places
    <2>5. a + l <= peer.sent + 1 /\ (g.fin => peer.closed /\ a + l = peer.sent + 1)
        BY <1>3, <2>4 DEF CanArrive
    <2>6. g.data = Numbers(a, a + l - 1)
        <3> DEFINE z == a + l - 1
        <3> HIDE DEF l
        <3>1. CASE a <= b
            <4>1. z = b
                BY <2>1, <2>3, <3>1
            <4> QED BY <1>2, <4>1
        <3>2. CASE ~(a <= b)
            <4>1. z \in Int /\ z < a /\ b < a
                BY <2>1, <2>3, <3>2
            <4> HIDE DEF z
            <4>2. Numbers(a, z) = << >> /\ Numbers(a, b) = << >>
                BY <2>1, <4>1, NumbersEmpty
            <4> QED BY <1>2, <4>2 DEF z
        <3> QED BY <3>1, <3>2
    <2> QED BY <1>2, <2>3, <2>5, <2>6 DEF Arriving
<1>8. CASE c.state = "syn_sent" /\ Becomes(s)
    <2>1. Opening(s) => Opening(c)
        BY <1>6 DEF Opening
    <2> QED BY <1>3, <1>4, <1>5, <1>8, <2>1, BecomesStep DEF n, rd, e
<1>9. CASE c.state = "closed" /\ Becomes(ProcessAck(s, ack, plen))
    <2> DEFINE t == ProcessAck(s, ack, plen)
    <2>1. Sound(t, n, rd, peer, e) /\ KeepsReceive(s, t)
        <3> HIDE DEF plen
        <3>1. s.used /\ s.state # "syn_sent" /\ s.state # "established" /\ ack = Plus(ISS, k)
            BY <1>2, <1>3, <1>6, <1>9
        <3> HIDE DEF ack
        <3> QED BY <1>4, <1>5, <3>1, ProcessAckSound
    <2> HIDE DEF t
    <2>2. ~Opening(t)
        BY <1>6, <1>9, <2>1 DEF KeepsReceive, Opening
    <2>3. Becomes(t)
        BY <1>9 DEF t
    <2> QED BY <1>3, <1>4, <2>1, <2>2, <2>3, BecomesStep DEF n, rd, e
<1>10. CASE c.state \in {"established", "fin_wait"} /\ Becomes(Accept(s, g))
    <2> DEFINE t == Accept(s, g)
    <2>1. Sound(t, n, rd, peer, e) /\ (Opening(t) => s.state = "established")
        <3>1. s.used /\ s.state \in {"established", "fin_wait"}
            BY <1>3, <1>6, <1>10
        <3> QED BY <1>2, <1>4, <1>5, <1>7, <3>1, AcceptSound
    <2> HIDE DEF t
    <2>2. Opening(t) => Opening(c)
        BY <1>6, <2>1 DEF Opening
    <2>3. Becomes(t)
        BY <1>10 DEF t
    <2> QED BY <1>3, <1>4, <2>1, <2>2, <2>3, BecomesStep DEF n, rd, e
<1> QED BY <1>3, <1>8, <1>9, <1>10


LEMMA RstArrivesStep ==
    ASSUME TcpInv, NEW acks \in BOOLEAN, NEW win \in {0, 1}, RstArrives(acks, win)
    PROVE  TcpInv'
<1> DEFINE n == sent
           rd == Len(read)
           e == wire.edge
           s == Heard(c, win)
           f == [Failed(s) EXCEPT !.finPending = FALSE]
           y == IF c.state = "syn_sent" /\ ~acks THEN s ELSE IF c.appClosed THEN Release(f) ELSE f
<1>1. /\ c.used /\ arp' = arp /\ opens' = opens /\ sent' = sent /\ read' = read /\ peer' = peer
      /\ Becomes(y)
    BY DEF RstArrives
<1>2. /\ Sound(c, n, rd, peer, e) /\ n \in 0 .. MaxOut /\ rd \in Nat /\ peer \in PeerRec
      /\ e \in Int
    BY InvSound
<1> HIDE DEF n, rd, e
<1>3. Sound(s, n, rd, peer, e) /\ KeepsSend(c, s)
    BY <1>2, HeardSound
<1> HIDE DEF s
<1>4. s.used = c.used /\ s.state = c.state /\ s \in Sock
    BY <1>3 DEF KeepsSend, Sound
<1>5. Sound(f, n, rd, peer, e) /\ ~Opening(f)
    <2>1. f \in Sock
        <3>1. << >> \in Seq(Nat)
            OBVIOUS
        <3> QED BY <1>4, <3>1, Zenon DEF Sock, Failed
    <2>2. /\ f.used = s.used /\ f.failed /\ f.state = "closed" /\ f.rtx = << >> /\ ~f.syn
          /\ ~f.fin /\ f.rx = s.rx /\ f.ack = s.ack /\ f.peerClosed = s.peerClosed
        BY <1>4, Zenon DEF Sock, Failed
    <2>3. /\ ~f.finPending /\ f.finSeq = s.finSeq /\ f.ro = s.ro /\ f.out = s.out
          /\ f.appClosed = s.appClosed
        BY <1>4, Zenon DEF Sock, Failed
    <2> HIDE DEF f
    <2> QED BY <1>2, <1>3, <2>1, <2>2, <2>3, FailSound
<1> HIDE DEF f
<1>6. Sound(Release(f), n, rd, peer, e) /\ ~Opening(Release(f))
    BY <1>5, ReleaseSound
<1>7. Opening(s) => Opening(c)
    BY <1>4 DEF Opening
<1>8. Sound(y, n, rd, peer, e) /\ (Opening(y) => Opening(c))
    BY <1>3, <1>5, <1>6, <1>7
<1> HIDE DEF y
<1> QED BY <1>1, <1>2, <1>8, BecomesStep DEF n, rd, e

LEMMA PollStep ==
    ASSUME TcpInv, NEW late \in BOOLEAN, NEW rto \in BOOLEAN, NEW over \in BOOLEAN,
           Poll(late, rto, over)
    PROVE  TcpInv'
<1> DEFINE n == sent
           rd == Len(read)
           e == wire.edge
           s == IF c.ackPending /\ c.state # "closed" THEN SendAck(c) ELSE c
           y == IF s.appClosed /\ (s.state = "closed" \/ late) THEN Release(s)
                ELSE IF Flight(s) = 0 \/ ~rto THEN s ELSE Rto(s, over)
<1>1. /\ c.used /\ arp' = arp /\ opens' = opens /\ sent' = sent /\ read' = read /\ peer' = peer
      /\ Becomes(y)
    BY DEF Poll
<1>2. /\ Sound(c, n, rd, peer, e) /\ n \in 0 .. MaxOut /\ rd \in Nat /\ peer \in PeerRec
      /\ e \in Int
    BY <1>1, InvSound
<1> HIDE DEF n, rd, e
<1>3. c.ackPending /\ c.state # "closed" => c.state # "syn_sent"
    <2> SUFFICES ASSUME c.state = "syn_sent" PROVE ~c.ackPending
        OBVIOUS
    <2>1. ~c.appClosed
        BY <1>1, <1>2 DEF Sound, SendPart
    <2> QED BY <1>1, <1>2, <2>1 DEF Sound, ReceivePart
<1>4. Sound(s, n, rd, peer, e) /\ KeepsSend(c, s)
    <2>1. CASE c.ackPending /\ c.state # "closed"
        <3>1. n \in Nat
            BY <1>2
        <3>2. Sound(SendAck(c), n, rd, peer, e) /\ KeepsSend(c, SendAck(c))
            BY <1>1, <1>2, <1>3, <2>1, <3>1, SendAckSound
        <3> QED BY <2>1, <3>2
    <2>2. CASE ~(c.ackPending /\ c.state # "closed")
        <3>1. KeepsSend(c, c)
            BY DEF KeepsSend
        <3> QED BY <1>2, <2>2, <3>1
    <2> QED BY <2>1, <2>2
<1> HIDE DEF s
<1>5. s.used = c.used /\ s.state = c.state
    BY <1>4 DEF KeepsSend
<1>6. Sound(Release(s), n, rd, peer, e) /\ ~Opening(Release(s))
    BY <1>4, ReleaseSound
<1>7. Opening(s) => Opening(c)
    BY <1>5 DEF Opening
<1>8. ASSUME Flight(s) # 0
      PROVE  Sound(Rto(s, over), n, rd, peer, e) /\ (Opening(Rto(s, over)) => Opening(c))
    <2>1. Sound(Rto(s, over), n, rd, peer, e) /\ (Opening(Rto(s, over)) => Opening(s))
        BY <1>1, <1>2, <1>4, <1>5, <1>8, RtoSound
    <2> QED BY <1>7, <2>1
<1>9. Sound(y, n, rd, peer, e) /\ (Opening(y) => Opening(c))
    BY <1>4, <1>6, <1>7, <1>8
<1> HIDE DEF y
<1> QED BY <1>1, <1>2, <1>9, BecomesStep DEF n, rd, e

LEMMA CloseStep == ASSUME TcpInv, Close PROVE TcpInv'
<1> DEFINE n == sent
           rd == Len(read)
           e == wire.edge
           s == [c EXCEPT !.appClosed = TRUE, !.rx = << >>]
           y == IF c.state = "established" THEN SendFin(s)
                ELSE IF c.state = "fin_wait" THEN s ELSE Release(s)
<1>1. /\ c.used /\ arp' = arp /\ opens' = opens /\ sent' = sent /\ read' = read /\ peer' = peer
      /\ Becomes(y)
    BY DEF Close
<1>2. /\ Sound(c, n, rd, peer, e) /\ n \in 0 .. MaxOut /\ rd \in Nat /\ peer \in PeerRec
      /\ e \in Int /\ c \in Sock
    BY InvSound DEF Sound
<1> HIDE DEF n, rd, e
<1>3. s \in Sock
    <2>1. << >> \in Seq(Nat)
        OBVIOUS
    <2> QED BY <1>2, <2>1, Zenon DEF Sock
<1>4. /\ s.used = c.used /\ s.state = c.state /\ s.failed = c.failed /\ s.appClosed = TRUE
      /\ s.rtx = c.rtx /\ s.syn = c.syn /\ s.fin = c.fin /\ s.una = c.una /\ s.seq = c.seq
      /\ s.rx = << >> /\ s.ro = c.ro /\ s.out = c.out
    BY <1>2, Zenon DEF Sock
<1> HIDE DEF s
<1>5. SizesFit(s)
    <2>1. Len(s.rx) = 0
        BY <1>4
    <2> QED BY <1>2, <1>4, <2>1, Constants DEF Sound, SizesFit
<1>6. c.used => (c.state = "fin_wait" \/ c.state = "closed" \/ Opening(c))
    <2>1. c.state \in {"closed", "syn_sent", "established", "fin_wait"}
        BY <1>2, Zenon DEF Sock
    <2> QED BY <2>1 DEF Opening
<1>7. ASSUME c.state = "established" PROVE Sound(SendFin(s), n, rd, peer, e) /\ ~Opening(SendFin(s))
    <2> DEFINE t == SendFin(s)
    <2>1. s.used
        BY <1>1, <1>4
    <2>2. /\ t \in Sock /\ SizesFit(t) /\ SendPart(t, n, peer.got) /\ OutPart(t, n, rd)
          /\ ReopenPart(t, e) /\ t.state = "fin_wait" /\ t.appClosed = s.appClosed
        BY <1>1, <1>2, <1>3, <1>4, <1>5, <1>7, <2>1, SendFinSends
    <2> HIDE DEF t
    <2>3. ReceivePart(t, rd, peer) /\ ~Opening(t)
        BY <1>4, <2>2 DEF ReceivePart, Opening
    <2>4. Sound(t, n, rd, peer, e) /\ ~Opening(t)
        BY <2>2, <2>3 DEF Sound
    <2> QED BY <2>4 DEF t
<1>8. Sound(Release(s), n, rd, peer, e) /\ ~Opening(Release(s))
    <2>1. Release(s) = Release(c)
        BY <1>4 DEF Release
    <2> QED BY <1>2, <2>1, ReleaseSound
<1>9. ASSUME c.state = "fin_wait" PROVE Sound(s, n, rd, peer, e) /\ ~Opening(s)
    <2>1. ~Opening(s)
        BY <1>4, <1>9 DEF Opening
    <2>2. OutPart(s, n, rd)
        BY <1>2, <1>4, <2>1, OutKept DEF Sound
    <2>3. SendPart(s, n, peer.got)
        <3>1. SendPart(c, n, peer.got)
            BY <1>2 DEF Sound
        <3> QED BY <1>4, <1>9, <3>1, Zenon DEF SendPart
    <2>4. ReceivePart(s, rd, peer) /\ ReopenPart(s, e)
        BY <1>4, <1>9 DEF ReceivePart, ReopenPart
    <2> QED BY <1>3, <1>5, <2>1, <2>2, <2>3, <2>4 DEF Sound
<1>10. Sound(y, n, rd, peer, e) /\ ~Opening(y)
    BY <1>7, <1>8, <1>9
<1> HIDE DEF y
<1> QED BY <1>1, <1>2, <1>10, BecomesStep DEF n, rd, e

LEMMA AbortStep == ASSUME TcpInv, Abort PROVE TcpInv'
<1>1. c' = Release(c) /\ UNCHANGED <<arp, opens, sent, read, wire, peer>>
    BY DEF Abort
<1>2. Sound(c, sent, Len(read), peer, wire.edge) /\ c.out = {}
    BY InvSound DEF TcpInv
<1> DEFINE t == Release(c)
<1>3. Sound(t, sent, Len(read), peer, wire.edge) /\ ~Opening(t)
    BY <1>2, ReleaseSound
<1>4. t.out = {}
    BY <1>2 DEF Release, NoSock
<1> HIDE DEF t
<1>5. c' = t
    BY <1>1 DEF t
<1>6. WirePart' /\ PeerPart'
    BY <1>1, <1>3, <1>5 DEF TcpInv, WirePart, PeerPart, Opening
<1>7. /\ t \in Sock /\ SizesFit(t) /\ SendPart(t, sent, peer.got)
      /\ ReceivePart(t, Len(read), peer) /\ (WindowSizes => ReopenPart(t, wire.edge))
    BY <1>3 DEF Sound
<1>8. /\ SendPart(c', sent', peer'.got) /\ ReceivePart(c', Len(read'), peer')
      /\ (WindowSizes => ReopenPart(c', wire'.edge)) /\ SizesFit(c')
    BY <1>1, <1>5, <1>7
<1> QED BY <1>1, <1>4, <1>5, <1>6, <1>7, <1>8
        DEF TcpInv, SendPart, ReceivePart, ReopenPart, SizesFit


-----------------------------------------------------------------------------
(* Opening, and the calls of the owner                                     *)

\* The acknowledgement of the SYN, which leaves nothing in flight
LEMMA SynAcked ==
    ASSUME NEW s \in Sock, s.syn, ~s.fin, s.rtx = << >>, s.una = ISS, NEW plen
    PROVE  ProcessAck(s, Plus(ISS, 1), plen) =
               Acked(s, << >>, FALSE, Plus(ISS, 1), Plus(ISS, 1))
<1> DEFINE ack == Plus(ISS, 1)
           d == (ack - s.una) % W
           x == Flight(s)
           m == Lesser(d, x)
           syn == IF s.syn THEN 1 ELSE 0
           l == Len(s.rtx)
           take == Lesser(m - syn, l)
<1>1. d = 1
    <2>1. 1 \in 0 .. W - 1 /\ ISS \in Words
        BY Constants
    <2> QED BY <2>1, WordPlace
<1>2. syn = 1 /\ l = 0
    BY Zenon
<1>3. x = 1
    <2> DEFINE b == IF s.fin THEN 1 ELSE 0
    <2>1. b = 0
        BY Zenon
    <2>2. x = syn + l + b
        BY DEF Flight
    <2> HIDE DEF x, syn, l, b
    <2> QED BY <1>2, <2>1, <2>2
<1>4. SeqLt(s.una, ack)
    <2>1. 0 < W \div 2 /\ 1 < W \div 2 /\ ISS \in Words
        BY Constants
    <2>2. SeqLt(Plus(ISS, 0), Plus(ISS, 1)) <=> 0 < 1
        BY <2>1, WordOrder
    <2> QED BY <2>1, <2>2, WordZero
<1>5. FreshAck(s, ack) = Acked(s, SubSeq(s.rtx, take + 1, l), s.fin /\ m - syn <= take,
                               Plus(s.una, m), ack)
    BY FreshAckIs
<1> HIDE DEF d, x, syn, l
<1>6. m = 1
    BY <1>1, <1>3 DEF Lesser
<1> HIDE DEF m
<1>7. take = 0
    BY <1>2, <1>6 DEF Lesser
<1> HIDE DEF take
<1>8. SubSeq(s.rtx, take + 1, l) = << >>
    <2> DEFINE q == SubSeq(s.rtx, take + 1, l)
    <2>1. s.rtx \in Seq(Nat) /\ take \in Nat /\ Len(s.rtx) = 0
        BY <1>7
    <2>2. q \in Seq(Nat) /\ Len(q) <= Len(s.rtx)
        BY <2>1, TailIsSeq DEF l
    <2> HIDE DEF q
    <2>3. Len(q) \in Nat
        BY <2>2, LenProperties
    <2>4. Len(q) = 0
        BY <2>1, <2>2, <2>3
    <2>5. q = << >>
        BY <2>2, <2>4, EmptySeq
    <2> QED BY <2>5 DEF q
<1>9. (s.fin /\ m - syn <= take) = FALSE
    OBVIOUS
<1>10. Plus(s.una, m) = Plus(ISS, 1)
    BY <1>6
<1>11. FreshAck(s, ack) = Acked(s, << >>, FALSE, Plus(ISS, 1), ack)
    BY <1>5, <1>8, <1>9, <1>10
<1> QED BY <1>4, <1>11 DEF ProcessAck

\* An acknowledgement that is sent is no longer to be sent.
LEMMA SendAckForgets ==
    ASSUME NEW t \in Sock, arp
    PROVE  SendAck(t) = SendAck([t EXCEPT !.ackPending = TRUE])
<1> DEFINE z == [t EXCEPT !.ackPending = TRUE]
<1>1. z.seq = t.seq /\ z.ack = t.ack /\ z.rx = t.rx /\ z.wsOn = t.wsOn /\ z.out = t.out
    BY Zenon DEF Sock
<1>2. Window(z, FALSE) = Window(t, FALSE)
    <2> HIDE DEF z
    <2> QED BY <1>1 DEF Window, RxFree
<1> DEFINE w == Window(t, FALSE)
           o == t.out \cup {[seq |-> t.seq, data |-> << >>, syn |-> FALSE, fin |-> FALSE,
                             ack |-> t.ack, win |-> w]}
<1>3. SendAck(t) = [t EXCEPT !.advWin = w, !.ackPending = FALSE, !.out = o]
    BY Zenon DEF SendAck, Transmit
<1>4. SendAck(z) = [z EXCEPT !.advWin = w, !.ackPending = FALSE, !.out = o]
    <2> HIDE DEF z
    <2>1. SendAck(z) = [z EXCEPT !.advWin = Window(z, FALSE), !.ackPending = FALSE,
              !.out = z.out \cup {[seq |-> z.seq, data |-> << >>, syn |-> FALSE, fin |-> FALSE,
                             ack |-> z.ack, win |-> Window(z, FALSE)]}]
        BY Zenon DEF SendAck, Transmit
    <2> QED BY <1>1, <1>2, <2>1, Zenon
<1> HIDE DEF w, o
<1>5. [z EXCEPT !.advWin = w, !.ackPending = FALSE, !.out = o]
        = [t EXCEPT !.advWin = w, !.ackPending = FALSE, !.out = o]
    BY Zenon DEF Sock
<1> QED BY <1>3, <1>4, <1>5

LEMMA SynAckArrivesStep ==
    ASSUME TcpInv, NEW ws \in BOOLEAN, NEW win \in {0, 1}, SynAckArrives(ws, win)
    PROVE  TcpInv'
<1> DEFINE rd == Len(read)
           e == wire.edge
           h == Heard(c, win)
           a == Plus(IRS, 1)
           u == Plus(ISS, 1)
           s == [h EXCEPT !.ack = a, !.wsOn = ws, !.state = "established"]
           t == ProcessAck(s, u, 0)
           z == [t EXCEPT !.ackPending = TRUE]
<1>1. /\ c.used /\ peer.got > 0 /\ c.state = "syn_sent" /\ Becomes(SendAck(t))
      /\ arp' = arp /\ opens' = opens /\ sent' = sent /\ read' = read /\ peer' = peer
    BY DEF SynAckArrives
<1>2. /\ Sound(c, sent, rd, peer, e) /\ sent \in 0 .. MaxOut /\ rd \in Nat /\ peer \in PeerRec
      /\ e \in Int /\ c.out = {} /\ c \in Sock
    BY <1>1, InvSound DEF TcpInv
<1>3. Sound(h, sent, rd, peer, e) /\ KeepsSend(c, h) /\ KeepsReceive(c, h) /\ h \in Sock
    BY <1>2, HeardSound DEF Sound
<1>4. h.out = {}
    BY <1>2, Zenon DEF Heard, Sock
<1> HIDE DEF h
<1>5. /\ h.used /\ h.state = "syn_sent" /\ ~h.failed /\ h.syn /\ ~h.fin /\ h.rtx = << >>
      /\ h.una = ISS /\ h.seq = u /\ ~h.appClosed /\ sent = 0
    BY <1>1, <1>3 DEF Sound, SendPart, KeepsSend
<1>6. rd = 0 /\ h.rx = << >> /\ ~h.peerClosed /\ ~h.finPending /\ h.ro = {}
    BY <1>3, <1>5 DEF Sound, ReceivePart
<1> HIDE DEF rd, e
<1>7. a \in Words /\ u \in Words
    <2>1. 1 \in 0 .. W /\ ISS \in Words /\ IRS \in Words
        BY Constants
    <2> QED BY <2>1, WordPlus
<1> HIDE DEF a, u
<1>8. s \in Sock
    BY <1>3, <1>7, Zenon DEF Sock
<1>9. /\ s.used = h.used /\ s.state = "established" /\ s.failed = h.failed /\ s.syn = h.syn
      /\ s.fin = h.fin /\ s.rtx = h.rtx /\ s.una = h.una /\ s.seq = h.seq
      /\ s.appClosed = h.appClosed
    BY <1>3, Zenon DEF Sock
<1>10. /\ s.rx = h.rx /\ s.peerClosed = h.peerClosed /\ s.finPending = h.finPending
       /\ s.ro = h.ro /\ s.out = h.out /\ s.ack = a
    BY <1>3, Zenon DEF Sock
<1> HIDE DEF s
<1>11. t = Acked(s, << >>, FALSE, u, u)
    BY <1>5, <1>8, <1>9, SynAcked DEF u
<1> HIDE DEF t
<1>12. /\ t \in Sock /\ KeepsReceive(s, t) /\ t.seq = s.seq /\ ~t.syn /\ t.rtx = << >>
       /\ t.fin = FALSE /\ t.una = u /\ t.out = s.out
    <2> DEFINE q == << >>
               f == FALSE
    <2>1. q \in Seq(Nat) /\ f \in BOOLEAN
        OBVIOUS
    <2>2. t = Acked(s, q, f, u, u)
        BY <1>11
    <2> HIDE DEF q, f
    <2>3. /\ t \in Sock /\ KeepsReceive(s, t) /\ t.seq = s.seq /\ ~t.syn /\ t.rtx = q
          /\ t.fin = f /\ t.una = u /\ t.out = s.out
        BY <1>7, <1>8, <2>1, <2>2, AckedFacts
    <2> QED BY <2>3 DEF q, f
<1>13. z \in Sock
    BY <1>12, Zenon DEF Sock
<1>14. /\ z.used = t.used /\ z.state = t.state /\ z.failed = t.failed /\ z.syn = t.syn
       /\ z.fin = t.fin /\ z.rtx = t.rtx /\ z.una = t.una /\ z.seq = t.seq
       /\ z.appClosed = t.appClosed /\ z.ackPending
    BY <1>12, Zenon DEF Sock
<1>15. /\ z.rx = t.rx /\ z.peerClosed = t.peerClosed /\ z.finPending = t.finPending
       /\ z.ro = t.ro /\ z.out = t.out /\ z.ack = t.ack
    BY <1>12, Zenon DEF Sock
<1> HIDE DEF z
<1>16. /\ z.used /\ z.state = "established" /\ ~z.failed /\ ~z.appClosed /\ z.rx = << >>
       /\ z.ack = Plus(IRS, 1) /\ ~z.peerClosed /\ ~z.finPending /\ z.ro = {} /\ z.out = {}
    BY <1>4, <1>5, <1>6, <1>9, <1>10, <1>12, <1>14, <1>15 DEF KeepsReceive, a
<1>17. /\ ~z.syn /\ ~z.fin /\ z.rtx = << >> /\ z.una = Plus(ISS, 1) /\ z.seq = Plus(ISS, 1)
    BY <1>5, <1>9, <1>12, <1>14 DEF u
<1>18. SendPart(z, 0, peer.got)
    <2>1. 1 \in 1 .. peer.got
        <3>1. peer.got \in Nat
            BY <1>2 DEF PeerRec
        <3> QED BY <1>1, <3>1
    <2>2. Numbers(1, 0) = << >>
        BY NumbersEmpty
    <2>3. 0 + 1 = 1 /\ 1 <= 0 + 1
        OBVIOUS
    <2>4. z.seq = Plus(ISS, 0 + 1)
        BY <1>17, <2>3
    <2> QED BY <1>16, <1>17, <2>1, <2>2, <2>3, <2>4 DEF SendPart
<1>19. ReceivePart(z, 0, peer)
    <2>1. Len(z.rx) = 0 /\ 0 + 0 = 0 /\ 0 + 1 = 1 /\ peer.sent \in Nat
        BY <1>2, <1>16 DEF PeerRec
    <2>2. Numbers(1, 0) = << >>
        BY NumbersEmpty
    <2>3. z.rx = Numbers(0 + 1, 0 + Len(z.rx))
        BY <1>16, <2>1, <2>2
    <2>4. 0 + Len(z.rx) <= peer.sent
        BY <2>1
    <2>5. z.ack = Plus(IRS, (0 + Len(z.rx)) + 1)
        BY <1>16, <2>1
    <2> QED BY <1>16, <2>3, <2>4, <2>5 DEF ReceivePart
<1>20. SizesFit(z) /\ OutPart(z, 0, 0) /\ ReopenPart(z, e)
    <2>1. Len(z.rx) = 0 /\ Len(z.rtx) = 0 /\ IsFiniteSet(z.ro) /\ Cardinality(z.ro) = 0
        BY <1>16, <1>17, FS_EmptySet
    <2> QED BY <1>14, <1>16, <2>1, Constants DEF SizesFit, OutPart, ReopenPart
<1>21. Sound(z, sent, rd, peer, e)
    BY <1>5, <1>6, <1>13, <1>18, <1>19, <1>20 DEF Sound
<1> DEFINE y == SendAck(z)
<1>22. ASSUME arp PROVE Sound(y, sent, rd, peer, e) /\ SendAck(t) = y
    <2>1. sent \in Nat /\ z.state # "syn_sent"
        BY <1>2, <1>16
    <2>2. SendAck(t) = y
        BY <1>12, <1>22, SendAckForgets DEF z
    <2> QED BY <1>2, <1>16, <1>21, <2>1, <2>2, SendAckSound
<1>23. ASSUME ~arp PROVE Sound(t, sent, rd, peer, e) /\ SendAck(t) = t
    <2>1. KeepsSend(z, t) /\ t.out = z.out /\ SizesFit(t)
        BY <1>14, <1>15, <1>20 DEF KeepsSend, SizesFit
    <2>2. SendPart(t, 0, peer.got) /\ OutPart(t, 0, 0)
        <3>1. peer.got \in Nat
            BY <1>2 DEF PeerRec
        <3>2. Opening(t) => Opening(z)
            BY <1>14 DEF Opening
        <3> QED BY <1>18, <1>20, <2>1, <3>1, <3>2, SendKept, OutKept
    <2>3. ReceivePart(t, 0, peer)
        BY <1>14, <1>15, <1>16, <1>19 DEF ReceivePart
    <2>4. ASSUME WindowSizes PROVE ReopenPart(t, e)
        <3>1. e >= Lesser(RXCAP, WINMAX)
            BY <1>1 DEF TcpInv, PeerPart, WirePart, e
        <3>2. SmallWin <= Lesser(RXCAP, WINMAX) /\ Lesser(RXCAP, WINMAX) \in Int /\ SmallWin \in Int
            BY <2>4, Constants DEF WindowSizes, Lesser
        <3>3. PlaceIn(t.ack) = 1
            <4>1. 1 \in 0 .. W - 1
                BY Bounds
            <4> QED BY <1>15, <1>16, <4>1, Places
        <3>4. e >= PlaceIn(t.ack) - 1 + SmallWin
            BY <1>2, <3>1, <3>2, <3>3
        <3> QED BY <3>4 DEF ReopenPart
    <2>5. SendAck(t) = t
        BY <1>23 DEF SendAck, Transmit
    <2> QED BY <1>5, <1>6, <1>12, <2>1, <2>2, <2>3, <2>4, <2>5 DEF Sound
<1> HIDE DEF y
<1>24. Opening(c)
    BY <1>1 DEF Opening
<1>25. Sound(SendAck(t), sent, rd, peer, e)
    BY <1>22, <1>23
<1> QED BY <1>1, <1>2, <1>24, <1>25, BecomesStep DEF rd, e

LEMMA OpenStep == ASSUME TcpInv, Open PROVE TcpInv'
<1> DEFINE s == [NoSock EXCEPT !.used = TRUE, !.seq = ISS, !.una = ISS, !.pwin = 1,
                               !.state = "syn_sent", !.syn = TRUE]
           v == Transmit(s, ISS, << >>, TRUE, FALSE)
           u == Plus(ISS, 1)
           t == [v EXCEPT !.seq = u]
           z == [t EXCEPT !.out = {}]
           w == Emit(NoWire, t.out)
<1>1. /\ c' = z /\ wire' = w /\ opens < MaxOpens /\ opens' = opens + 1 /\ sent' = 0
      /\ read' = << >> /\ peer' = NewPeer /\ arp' = arp
    BY DEF Open
<1>2. /\ s.used /\ s.state = "syn_sent" /\ s.seq = ISS /\ s.una = ISS /\ s.rtx = << >> /\ s.syn
      /\ ~s.fin /\ ~s.failed /\ ~s.appClosed
    BY DEF NoSock
<1>3. /\ s.rx = << >> /\ ~s.peerClosed /\ ~s.finPending /\ s.ro = {} /\ ~s.ackPending
      /\ s.out = {}
    BY DEF NoSock
<1>4. s \in Sock
    <2>1. /\ 0 \in Words /\ 0 \in 0 .. MAXRTX /\ 0 \in 0 .. DUPS + 1 /\ 0 \in 0 .. RXCAP
          /\ ISS \in Words /\ << >> \in Seq(Nat)
        BY Constants
    <2> QED BY <2>1 DEF Sock, NoSock
<1> HIDE DEF s
<1>5. Len(s.rx) = 0 /\ Len(s.rx) <= RXCAP
    BY <1>3, Bounds
<1> DEFINE g == [seq |-> ISS, data |-> << >>, syn |-> TRUE, fin |-> FALSE, ack |-> s.ack,
                 win |-> Window(s, TRUE)]
<1>6. /\ v \in Sock /\ KeepsSend(s, v) /\ KeepsReceive(s, v)
      /\ ~arp => v = s
      /\ arp => v.out = s.out \cup {g} /\ g \in Segment
    <2> DEFINE d == << >>
               b == TRUE
               f == FALSE
    <2>1. d \in Seq(Nat) /\ b \in BOOLEAN /\ f \in BOOLEAN /\ ISS \in Words
        BY Constants
    <2>2. /\ v = Transmit(s, ISS, d, b, f)
          /\ g = [seq |-> ISS, data |-> d, syn |-> b, fin |-> f, ack |-> s.ack,
                  win |-> Window(s, b)]
        OBVIOUS
    <2> HIDE DEF d, b, f, v, g
    <2> QED BY <1>4, <1>5, <2>1, <2>2, TransmitFacts
<1>7. g.data = << >> /\ g.syn /\ ~g.fin
    OBVIOUS
<1>8. Edge(g) <= RXCAP /\ Edge(g) >= Lesser(RXCAP, WINMAX)
    <2> DEFINE x == Window(s, TRUE)
    <2>1. x \in 0 .. RXCAP /\ x >= Lesser(RXCAP, WINMAX)
        BY <1>3, <1>4, <1>5, WindowFacts
    <2>2. Edge(g) = 0 + x
        BY DEF Edge
    <2> HIDE DEF x, g
    <2> QED BY <2>1, <2>2, Bounds
<1> HIDE DEF g, v
<1>10. u \in Words
    <2>1. 1 \in 0 .. W /\ ISS \in Words
        BY Constants
    <2> QED BY <2>1, WordPlus
<1>11. t.out = v.out
    BY <1>6, Zenon DEF Sock
<1>12. z \in Sock
    BY <1>6, <1>10, Zenon DEF Sock
<1>13. /\ z.used = v.used /\ z.state = v.state /\ z.failed = v.failed /\ z.syn = v.syn
       /\ z.fin = v.fin /\ z.rtx = v.rtx /\ z.una = v.una /\ z.seq = u
       /\ z.appClosed = v.appClosed
    BY <1>6, Zenon DEF Sock
<1>14. /\ z.rx = v.rx /\ z.peerClosed = v.peerClosed /\ z.finPending = v.finPending
       /\ z.ro = v.ro /\ z.out = {} /\ z.ackPending = v.ackPending
    BY <1>6, Zenon DEF Sock
<1>15. (arp /\ t.out = {g} /\ g \in Segment) \/ (~arp /\ t.out = {})
    BY <1>3, <1>6, <1>11
<1> HIDE DEF t, z
<1>16. SendPart(z, 0, 0)
    BY <1>2, <1>6, <1>13 DEF SendPart, KeepsSend, u
<1>17. ReceivePart(z, 0, NewPeer)
    <2>1. z.state = "syn_sent" /\ z.rx = << >> /\ ~z.peerClosed /\ ~z.finPending /\ z.ro = {}
          /\ ~z.ackPending
        BY <1>2, <1>3, <1>6, <1>13, <1>14 DEF KeepsReceive
    <2> QED BY <2>1 DEF ReceivePart
<1>18. SizesFit(z)
    <2>1. z.rx = << >> /\ z.rtx = << >> /\ z.ro = {}
        BY <1>2, <1>3, <1>6, <1>13, <1>14 DEF KeepsReceive, KeepsSend
    <2>2. Len(z.rx) = 0 /\ Len(z.rtx) = 0 /\ IsFiniteSet(z.ro) /\ Cardinality(z.ro) = 0
        BY <2>1, FS_EmptySet
    <2> QED BY <2>2, Constants DEF SizesFit
<1>19. \A e : ReopenPart(z, e)
    <2>1. z.state = "syn_sent"
        BY <1>2, <1>6, <1>13 DEF KeepsReceive
    <2> QED BY <2>1 DEF ReopenPart
<1>20. \A h \in t.out : h \in Segment /\ SegmentRight(h, 0) /\ ~h.fin /\ Edge(h) <= RXCAP
    <2>1. SegmentRight(g, 0)
        BY <1>7 DEF SegmentRight
    <2> QED BY <1>7, <1>8, <1>15, <2>1
<1>21. NoWire.syn = FALSE /\ NoWire.bytes = {} /\ NoWire.fins = {} /\ NoWire.edge = 0
    BY DEF NoWire
<1>22. \A b \in w.bytes : b[1] = b[2] /\ b[1] \in 1 .. 0
    BY <1>20, <1>21, EmitBytes
<1>23. w.fins = {}
    BY <1>20, <1>21, EmitFins
<1>24. w.edge \in 0 .. W + RXCAP /\ w.edge <= RXCAP
    <2>1. NoWire.edge \in 0 .. W + RXCAP /\ t.out \subseteq Segment
        BY <1>20, <1>21, Bounds
    <2>2. w.edge \in 0 .. W + RXCAP /\ (w.edge = 0 \/ \E h \in t.out : w.edge = Edge(h))
        BY <1>21, <2>1, EmitEdge
    <2> QED BY <1>20, <2>2, Bounds
<1>25. w.syn \in BOOLEAN /\ (w.syn => w.edge >= Lesser(RXCAP, WINMAX))
    <2>1. w.syn = (NoWire.syn \/ \E h \in t.out : h.syn)
        BY DEF Emit
    <2>2. \A h \in t.out : w.edge >= Edge(h)
        <3>1. NoWire.edge \in 0 .. W + RXCAP /\ t.out \subseteq Segment
            BY <1>20, <1>21, Bounds
        <3> QED BY <3>1, EmitEdge
    <2> HIDE DEF w
    <2>3. \A h \in t.out : Edge(h) \in Int /\ Edge(h) >= Lesser(RXCAP, WINMAX)
        <3>1. \A h \in t.out : Edge(h) \in Int
            BY <1>20, EdgeIsNumber
        <3> QED BY <1>8, <1>15, <3>1
    <2>4. Lesser(RXCAP, WINMAX) \in Int /\ w.edge \in Int
        BY <1>24, Constants, Bounds DEF Lesser
    <2>5. ASSUME NEW h \in t.out PROVE w.edge >= Lesser(RXCAP, WINMAX)
        BY <2>2, <2>3, <2>4
    <2> QED BY <1>21, <2>1, <2>5
<1> HIDE DEF w
<1>26. Len(read') = 0 /\ 0 + RXCAP = RXCAP
    BY <1>1, Bounds
<1>27. WirePart'
    BY <1>1, <1>22, <1>23, <1>24, <1>25, <1>26 DEF WirePart, Opening
<1>28. PeerPart'
    BY <1>1, Bounds DEF PeerPart, NewPeer
<1>29. /\ arp' \in BOOLEAN /\ opens' \in 0 .. MaxOpens /\ sent' \in 0 .. MaxOut
       /\ read' \in Seq(Nat) /\ read' = Numbers(1, Len(read'))
    <2>1. opens' \in 0 .. MaxOpens
        <3>1. opens \in 0 .. MaxOpens /\ MaxOpens \in Nat
            BY Constants DEF TcpInv
        <3> QED BY <1>1, <3>1
    <2>2. Numbers(1, 0) = << >>
        BY NumbersEmpty
    <2>3. arp' \in BOOLEAN /\ sent' \in 0 .. MaxOut
        BY <1>1, Bounds DEF TcpInv
    <2> QED BY <1>1, <1>26, <2>1, <2>2, <2>3
<1>30. /\ SendPart(c', sent', peer'.got) /\ ReceivePart(c', Len(read'), peer') /\ SizesFit(c')
       /\ ReopenPart(c', wire'.edge)
    <2>1. NewPeer.got = 0
        BY DEF NewPeer
    <2> QED BY <1>1, <1>16, <1>17, <1>18, <1>19, <1>26, <2>1
<1> QED BY <1>1, <1>12, <1>14, <1>27, <1>28, <1>29, <1>30
        DEF TcpInv, SendPart, ReceivePart, ReopenPart, SizesFit

\* A segment does not change when the next number to send is counted on.
LEMMA TransmitCounts ==
    ASSUME NEW s \in Sock, NEW x, NEW seq, NEW data
    PROVE  [Transmit(s, seq, data, FALSE, FALSE) EXCEPT !.seq = x]
             = Transmit([s EXCEPT !.seq = x], seq, data, FALSE, FALSE)
<1> DEFINE z == [s EXCEPT !.seq = x]
<1>1. z.ack = s.ack /\ z.rx = s.rx /\ z.wsOn = s.wsOn /\ z.out = s.out
    BY Zenon DEF Sock
<1>2. Window(z, FALSE) = Window(s, FALSE)
    <2> HIDE DEF z
    <2> QED BY <1>1 DEF Window, RxFree
<1> DEFINE w == Window(s, FALSE)
           o == s.out \cup {[seq |-> seq, data |-> data, syn |-> FALSE, fin |-> FALSE,
                             ack |-> s.ack, win |-> w]}
<1>3. arp => Transmit(s, seq, data, FALSE, FALSE) = [s EXCEPT !.advWin = w, !.ackPending = FALSE, !.out = o]
    BY Zenon DEF Transmit
<1>4. arp => Transmit(z, seq, data, FALSE, FALSE) = [z EXCEPT !.advWin = w, !.ackPending = FALSE, !.out = o]
    <2> HIDE DEF z
    <2>1. arp => Transmit(z, seq, data, FALSE, FALSE) =
              [z EXCEPT !.advWin = Window(z, FALSE), !.ackPending = FALSE,
              !.out = z.out \cup {[seq |-> seq, data |-> data, syn |-> FALSE, fin |-> FALSE,
                             ack |-> z.ack, win |-> Window(z, FALSE)]}]
        BY Zenon DEF Transmit
    <2> QED BY <1>1, <1>2, <2>1, Zenon
<1> HIDE DEF w, o
<1>5. [[s EXCEPT !.advWin = w, !.ackPending = FALSE, !.out = o] EXCEPT !.seq = x]
        = [z EXCEPT !.advWin = w, !.ackPending = FALSE, !.out = o]
    BY Zenon DEF Sock
<1> HIDE DEF z
<1>6. CASE arp
    BY <1>3, <1>4, <1>5, <1>6 DEF z
<1>7. CASE ~arp
    BY <1>7 DEF Transmit, z
<1> QED BY <1>6, <1>7

LEMMA SendStep ==
    ASSUME TcpInv, NEW n \in 1 .. MaxOut, Send(n)
    PROVE  TcpInv'
<1> DEFINE rd == Len(read)
           e == wire.edge
           k == sent + n
           a == sent + 1
           data == Numbers(a, k)
           q == Joined(c.rtx, data)
           x == Plus(c.seq, n)
           s == [c EXCEPT !.rtx = q]
           t == IF c.pwin = 0 THEN s ELSE Transmit(s, c.seq, data, FALSE, FALSE)
           y == [t EXCEPT !.seq = x]
           z == [s EXCEPT !.seq = x]
<1>1. /\ c.used /\ ~c.appClosed /\ c.state = "established" /\ ~c.failed
      /\ n <= RTXCAP - Len(c.rtx) /\ k <= MaxOut /\ sent' = k
      /\ arp' = arp /\ opens' = opens /\ read' = read /\ peer' = peer
    BY DEF Send
<1>2. /\ Sound(c, sent, rd, peer, e) /\ sent \in 0 .. MaxOut /\ rd \in Nat /\ peer \in PeerRec
      /\ e \in Int /\ c.out = {} /\ c \in Sock
    BY <1>1, InvSound DEF TcpInv
<1>3. sent \in Nat /\ n \in Nat /\ n >= 1 /\ k \in Nat /\ k \in 0 .. MaxOut /\ a \in Nat
      /\ sent <= k /\ peer.got \in Nat /\ a = sent + 1 /\ k = sent + n
    BY <1>1, <1>2, Bounds DEF PeerRec
<1>4. Becomes(y)
    <2> DEFINE f == [c EXCEPT !.rtx = @ \o Numbers(sent + 1, sent + n)]
               v == IF c.pwin = 0 THEN f
                    ELSE Transmit(f, c.seq, Numbers(sent + 1, sent + n), FALSE, FALSE)
    <2>1. Becomes([v EXCEPT !.seq = Plus(@, n)])
        BY DEF Send
    <2>2. f = s
        BY Zenon DEF Joined, Sock
    <2>3. v = t
        BY <2>2, Zenon
    <2>4. t.seq = c.seq
        BY <1>2, Zenon DEF Transmit, Sock
    <2> HIDE DEF v, t
    <2>5. [v EXCEPT !.seq = Plus(@, n)] = [t EXCEPT !.seq = Plus(c.seq, n)]
        BY <2>3, <2>4, Zenon
    <2> QED BY <2>1, <2>5
<1> HIDE DEF rd, e, k, a
<1> DEFINE u == PlaceOut(c.una)
           l == Len(c.rtx)
<1>5. /\ u \in Nat /\ 1 <= u /\ u <= peer.got /\ c.una = Plus(ISS, u)
      /\ ~c.syn /\ c.rtx = Numbers(u, sent) /\ l = (IF u <= sent THEN sent - u + 1 ELSE 0)
      /\ u <= a /\ ~c.fin /\ c.seq = Plus(ISS, a)
    BY <1>1, <1>2, <1>3, SenderFacts DEF Sound
<1>6. c.seq \in Words /\ PlaceOut(c.seq) = a
    <2>1. a \in 0 .. W - 1 /\ a \in 0 .. W
        BY <1>2, <1>3, Bounds
    <2> QED BY <1>5, <2>1, Places, WordPlus, Constants
<1>7. x = Plus(ISS, k + 1) /\ x \in Words
    <2>1. a + n <= W /\ a + n = k + 1 /\ k + 1 \in 0 .. W
        BY <1>2, <1>3, Bounds
    <2>2. x = Plus(ISS, a + n)
        BY <1>3, <1>5, <2>1, WordSum, Constants
    <2> QED BY <2>1, <2>2, WordPlus, Constants
<1> HIDE DEF u, l, x
<1>8. q = Numbers(u, k)
    <2>1. sent \in Int /\ k \in Int /\ a \in Nat /\ a = sent + 1 /\ sent <= k
        BY <1>3
    <2>2. u \in Nat /\ u <= a /\ c.rtx = Numbers(u, sent)
        BY <1>5, Zenon
    <2>3. Joined(Numbers(u, sent), Numbers(a, k)) = Numbers(u, k)
        BY <2>1, <2>2, NumbersJoin, ZenonT(30)
    <2> QED BY <2>2, <2>3, Zenon
<1> HIDE DEF q
<1>9. q \in Seq(Nat) /\ Len(q) <= RTXCAP
    <2> DEFINE m == Len(q)
    <2>1. q \in Seq(Nat) /\ m = IF u <= k THEN k - u + 1 ELSE 0
        <3>1. k \in Int
            BY <1>3
        <3>2. /\ Numbers(u, k) \in Seq(Nat)
              /\ Len(Numbers(u, k)) = IF u <= k THEN k - u + 1 ELSE 0
            BY <1>5, <3>1, NumbersFacts
        <3> QED BY <1>8, <3>2
    <2>2. n <= RTXCAP - l
        BY <1>1 DEF l
    <2> HIDE DEF m
    <2>3. m <= RTXCAP
        BY <1>3, <1>5, <2>1, <2>2, Constants
    <2> QED BY <2>1, <2>3 DEF m
<1> DEFINE dl == Len(data)
<1>10. /\ data \in Seq(Nat)
       /\ \A j \in 1 .. dl : data[j] = PlaceOut(c.seq) + j - 1 /\ data[j] \in 1 .. k
    <2>1. /\ data \in Seq(Nat) /\ dl = (IF a <= k THEN k - a + 1 ELSE 0)
          /\ \A j \in 1 .. dl : data[j] = a + j - 1
        <3>1. k \in Int
            BY <1>3
        <3> QED BY <1>3, <3>1, NumbersFacts
    <2> HIDE DEF data, dl
    <2>2. ASSUME NEW j \in 1 .. dl PROVE data[j] = a + j - 1 /\ data[j] \in 1 .. k
        <3>1. data[j] = a + j - 1
            BY <2>1
        <3> QED BY <1>3, <2>1, <3>1
    <2> QED BY <1>6, <2>1, <2>2
<1> HIDE DEF data
<1>11. s \in Sock
    BY <1>2, <1>9, Zenon DEF Sock
<1>12. z \in Sock
    BY <1>2, <1>7, <1>9, Zenon DEF Sock
<1>13. KeepsReceive(c, z) /\ z.advWin = c.advWin /\ z.ackPending = c.ackPending /\ z.out = c.out
    BY <1>2, Zenon DEF Sock, KeepsReceive
<1>14. /\ z.syn = c.syn /\ z.fin = c.fin /\ z.una = c.una /\ z.rtx = q /\ z.seq = x
    BY <1>2, Zenon DEF Sock
<1>15. y = IF c.pwin = 0 THEN z ELSE Transmit(z, c.seq, data, FALSE, FALSE)
    <2>1. [Transmit(s, c.seq, data, FALSE, FALSE) EXCEPT !.seq = x]
             = Transmit([s EXCEPT !.seq = x], c.seq, data, FALSE, FALSE)
        BY <1>2, <1>11, TransmitCounts, ZenonT(40)
    <2> QED BY <2>1
<1> HIDE DEF s, t, z, y
<1>16. /\ z.used /\ z.state = "established" /\ ~z.failed /\ ~z.appClosed /\ z.rx = c.rx
       /\ z.ro = c.ro /\ z.ack = c.ack
    BY <1>1, <1>13 DEF KeepsReceive
<1>17. SendPart(z, k, peer.got)
    <2>1. u <= k + 1
        BY <1>3, <1>5
    <2> QED BY <1>3, <1>5, <1>7, <1>8, <1>14, <1>16, <2>1, SenderMade
<1>18. Sound(z, k, rd, peer, e)
    <2>1. SizesFit(z)
        BY <1>2, <1>9, <1>14, <1>16 DEF Sound, SizesFit
    <2>2. ReceivePart(z, rd, peer)
        BY <1>2, <1>13, ReceiveKept DEF Sound
    <2>3. OutPart(z, k, rd)
        BY <1>2, <1>13 DEF OutPart
    <2>4. WindowSizes => ReopenPart(z, e)
        BY <1>1, <1>2, <1>13, <1>16, ReopenKept DEF Sound
    <2> QED BY <1>12, <1>17, <2>1, <2>2, <2>3, <2>4 DEF Sound
<1>19. Sound(y, k, rd, peer, e)
    <2>1. CASE c.pwin = 0
        BY <1>15, <1>18, <2>1
    <2>2. CASE c.pwin # 0
        <3> DEFINE f == FALSE
        <3>1. f \in BOOLEAN /\ (f <=> z.state = "syn_sent") /\ ~f
            BY <1>16
        <3>2. y = Transmit(z, c.seq, data, f, f)
            BY <1>15, <2>2
        <3> HIDE DEF f, dl
        <3>3. \A j \in 1 .. Len(data) : data[j] = PlaceOut(c.seq) + j - 1 /\ data[j] \in 1 .. k
            BY <1>10 DEF dl
        <3>4. /\ k \in Nat /\ rd \in Nat /\ peer \in PeerRec /\ e \in Int /\ z.used
              /\ c.seq \in Words /\ data \in Seq(Nat)
            BY <1>2, <1>3, <1>6, <1>10, <1>16
        <3> HIDE DEF z
        <3>5. Sound(Transmit(z, c.seq, data, f, f), k, rd, peer, e)
            BY <1>18, <3>1, <3>3, <3>4, TransmitSound
        <3> QED BY <3>2, <3>5
    <2> QED BY <2>1, <2>2
<1>20. Opening(c)
    BY <1>1 DEF Opening
<1>21. sent' \in 0 .. MaxOut /\ sent <= sent' /\ Sound(y, sent', Len(read), peer, wire.edge)
    BY <1>1, <1>3, <1>19 DEF rd, e
<1> QED BY <1>1, <1>4, <1>20, <1>21, BecomesStep

LEMMA RecvStep ==
    ASSUME TcpInv, NEW n \in 1 .. RXCAP, Recv(n)
    PROVE  TcpInv'
<1> DEFINE rd == Len(read)
           l == Len(c.rx)
           q == SubSeq(c.rx, n + 1, Len(c.rx))
           f == SubSeq(c.rx, 1, n)
           s == [c EXCEPT !.rx = q]
           b == c.ackPending \/ ( /\ c.state = "established" /\ c.advWin < SmallWin
                                  /\ RxFree(s) >= OpenWin )
           z == [c EXCEPT !.rx = q, !.ackPending = b]
           k == rd + n
<1>1. /\ c.used /\ ~c.appClosed /\ n <= l /\ read' = Joined(read, f)
      /\ arp' = arp /\ opens' = opens /\ sent' = sent /\ wire' = wire /\ peer' = peer
    BY DEF Recv, Joined
<1>2. /\ Sound(c, sent, rd, peer, wire.edge) /\ sent \in 0 .. MaxOut /\ rd \in Nat
      /\ peer \in PeerRec /\ wire.edge \in Int /\ c.out = {} /\ c \in Sock
    BY InvSound DEF TcpInv
<1>3. c' = z
    <2>1. c' = [s EXCEPT !.ackPending = @ \/ ( /\ c.state = "established"
                                               /\ c.advWin < SmallWin
                                               /\ RxFree(s) >= OpenWin )]
        BY DEF Recv
    <2>2. s.ackPending = c.ackPending
        BY <1>2, Zenon DEF Sock
    <2>3. c' = [s EXCEPT !.ackPending = b]
        BY <2>1, <2>2, Zenon
    <2> HIDE DEF b, q
    <2> QED BY <1>2, <2>3, Zenon DEF Sock
<1>4. c.rx \in Seq(Nat) /\ l \in Nat /\ n \in Nat /\ 1 <= n /\ peer.sent \in Nat
    <2>1. c.rx \in Seq(Nat)
        BY <1>2, Zenon DEF Sock
    <2> QED BY <1>2, <2>1, LenProperties DEF PeerRec
<1>5. c.state # "syn_sent"
    <2> SUFFICES ASSUME c.state = "syn_sent" PROVE FALSE
        OBVIOUS
    <2>1. c.rx = << >>
        BY <1>1, <1>2 DEF Sound, ReceivePart
    <2>2. l = 0
        BY <2>1
    <2> HIDE DEF l
    <2> QED BY <1>1, <1>4, <2>2
<1> DEFINE a == rd + 1
           g == rd + l
<1>6. /\ c.rx = Numbers(a, g) /\ g <= peer.sent
      /\ c.state # "closed" \/ g > 0 =>
            c.ack = Plus(IRS, g + (IF c.peerClosed THEN 2 ELSE 1))
      /\ c.peerClosed => peer.closed /\ g = peer.sent
      /\ c.finPending => peer.closed /\ c.finSeq = Plus(IRS, peer.sent + 1)
      /\ c.state = "established" =>
            /\ ~c.peerClosed /\ (c.finPending => g < peer.sent)
            /\ \A r \in c.ro : HeldPiece(r, peer.sent)
      /\ c.state # "established" /\ ~c.failed => c.peerClosed
    BY <1>1, <1>2, <1>5 DEF Sound, ReceivePart
<1>7. a \in Nat /\ g \in Nat /\ g \in Int /\ k \in Nat /\ a + n = k + 1 /\ k <= g /\ k = a + n - 1
    BY <1>1, <1>2, <1>4
<1>8. q = Numbers(k + 1, g) /\ f = Numbers(a, k)
    <2>1. n <= Len(Numbers(a, g))
        BY <1>1, <1>6
    <2> HIDE DEF a, g, k, l
    <2>2. SubSeq(Numbers(a, g), n + 1, Len(Numbers(a, g))) = Numbers(a + n, g)
        BY <1>4, <1>7, <2>1, NumbersTail
    <2>3. SubSeq(Numbers(a, g), 1, n) = Numbers(a, a + n - 1)
        BY <1>4, <1>7, <2>1, NumbersHead
    <2> QED BY <1>6, <1>7, <2>2, <2>3
<1> HIDE DEF q, f
<1> DEFINE m == Len(q)
<1>9. q \in Seq(Nat) /\ m \in Nat /\ k + m = g /\ m <= RXCAP
    <2> HIDE DEF k, g
    <2>1. q \in Seq(Nat) /\ m = IF k + 1 <= g THEN g - (k + 1) + 1 ELSE 0
        <3>1. k + 1 \in Nat
            BY <1>7
        <3>2. /\ Numbers(k + 1, g) \in Seq(Nat)
              /\ Len(Numbers(k + 1, g)) = IF k + 1 <= g THEN g - (k + 1) + 1 ELSE 0
            BY <1>7, <3>1, NumbersFacts
        <3> QED BY <1>8, <3>2
    <2> HIDE DEF m
    <2>2. m \in Nat /\ k + m = g
        <3>1. k \in Nat /\ g \in Nat /\ k <= g /\ m = IF k + 1 <= g THEN g - (k + 1) + 1 ELSE 0
            BY <1>7, <2>1
        <3> QED BY ONLY <3>1
    <2>3. l <= RXCAP
        BY <1>2 DEF Sound, SizesFit
    <2> HIDE DEF l
    <2>4. m <= RXCAP
        BY <1>2, <1>4, <2>2, <2>3, Bounds DEF k, g
    <2> QED BY <2>1, <2>2, <2>4
<1> HIDE DEF l, m
<1>10. read' = Numbers(1, k) /\ read' \in Seq(Nat) /\ Len(read') = k
    <2>1. read = Numbers(1, rd)
        BY DEF TcpInv
    <2> HIDE DEF rd
    <2>2. rd \in Int /\ k \in Int /\ 1 <= a /\ rd <= k
        BY <1>2, <1>4, <1>7
    <2> HIDE DEF k, a
    <2>3. Joined(Numbers(1, rd), Numbers(a, k)) = Numbers(1, k)
        <3>1. a = rd + 1
            BY DEF a
        <3> QED BY <1>7, <2>2, <3>1, NumbersJoin
    <2>4. read' = Numbers(1, k)
        BY <1>1, <1>8, <2>1, <2>3
    <2>5. Numbers(1, k) \in Seq(Nat) /\ Len(Numbers(1, k)) = k
        <3>1. 1 + k = k + 1 /\ 1 \in Nat
            BY <1>7
        <3> QED BY <1>7, <2>2, <3>1, NumbersLen
    <2> QED BY <2>4, <2>5
<1>11. b \in BOOLEAN
    <2>1. c.ackPending \in BOOLEAN
        BY <1>2, Zenon DEF Sock
    <2> QED BY <2>1
<1>12. s \in Sock /\ s.rx = q
    BY <1>2, <1>9, Zenon DEF Sock
<1> DEFINE x == RxFree(s)
<1>13. c.ackPending => b
    OBVIOUS
<1>14. c.state = "established" /\ c.advWin < SmallWin /\ x >= OpenWin => b
    OBVIOUS
<1>15. WindowSizes /\ q = << >> => x >= OpenWin
    <2>1. Len(s.rx) <= RXCAP
        BY <1>9, <1>12 DEF m
    <2>2. TRUE \in BOOLEAN
        OBVIOUS
    <2> HIDE DEF s
    <2> QED BY <1>12, <2>1, <2>2, WindowFacts
<1> HIDE DEF b, s, x
<1>16. z \in Sock /\ KeepsSend(c, z)
    BY <1>2, <1>9, <1>11, Zenon DEF Sock, KeepsSend
<1>17. /\ z.rx = q /\ z.ackPending = b /\ z.advWin = c.advWin /\ z.ack = c.ack
       /\ z.peerClosed = c.peerClosed /\ z.finPending = c.finPending
       /\ z.finSeq = c.finSeq /\ z.ro = c.ro /\ z.out = c.out
    BY <1>2, Zenon DEF Sock
<1> HIDE DEF z
<1>18. /\ z.used = c.used /\ z.state = c.state /\ z.failed = c.failed
       /\ z.appClosed = c.appClosed /\ z.rtx = c.rtx
    BY <1>16 DEF KeepsSend
<1>19. SizesFit(z)
    BY <1>2, <1>9, <1>17, <1>18 DEF Sound, SizesFit, m
<1>20. SendPart(z, sent, peer.got)
    <2>1. peer.got \in Nat /\ SendPart(c, sent, peer.got)
        BY <1>2 DEF PeerRec, Sound
    <2> QED BY <1>16, <2>1, SendKept
<1>21. ReceivePart(z, k, peer)
    <2>1. k + Len(z.rx) = g
        BY <1>9, <1>17 DEF m
    <2> HIDE DEF k, g
    <2>2. z.rx = Numbers(k + 1, g)
        BY <1>8, <1>17
    <2> QED BY <1>5, <1>6, <1>17, <1>18, <2>1, <2>2, Zenon DEF ReceivePart
<1>22. ASSUME WindowSizes PROVE ReopenPart(z, wire.edge)
    <2>1. ReopenPart(c, wire.edge)
        BY <1>2, <1>22 DEF Sound
    <2> QED BY <1>2, <1>13, <1>14, <1>15, <1>17, <1>18, <1>22, <2>1, Zenon DEF ReopenPart
<1>23. WirePart'
    <2>1. Opening(c') <=> Opening(c)
        BY <1>3, <1>18 DEF Opening
    <2>2. wire.edge <= rd + RXCAP => wire.edge <= k + RXCAP
        BY <1>2, <1>4, Bounds
    <2>3. Opening(c') => wire.fins = {} /\ wire.edge <= k + RXCAP
        BY <2>1, <2>2 DEF TcpInv, WirePart
    <2> HIDE DEF k
    <2> QED BY <1>1, <1>10, <2>3 DEF TcpInv, WirePart, Opening
<1> HIDE DEF k
<1>24. PeerPart'
    BY <1>1 DEF TcpInv, PeerPart
<1>25. /\ arp' \in BOOLEAN /\ opens' \in 0 .. MaxOpens /\ sent' \in 0 .. MaxOut
    BY <1>1 DEF TcpInv
<1>26. /\ SendPart(c', sent', peer'.got) /\ ReceivePart(c', Len(read'), peer') /\ SizesFit(c')
       /\ (WindowSizes => ReopenPart(c', wire'.edge))
    BY <1>1, <1>3, <1>10, <1>19, <1>20, <1>21, <1>22
<1>27. c' \in Sock /\ c'.out = {} /\ read' \in Seq(Nat) /\ read' = Numbers(1, Len(read'))
    BY <1>2, <1>3, <1>10, <1>16, <1>17
<1> QED BY <1>23, <1>24, <1>25, <1>26, <1>27
        DEF TcpInv, SendPart, ReceivePart, ReopenPart, SizesFit


-----------------------------------------------------------------------------
(* The invariant holds throughout                                          *)

LEMMA TcpStep == ASSUME TcpInv, [Next]_vars PROVE TcpInv'
<1>1. CASE UNCHANGED vars
    <2>1. UNCHANGED <<c, arp, opens, sent, read, wire, peer>>
        BY <1>1 DEF vars
    <2>2. WirePart' /\ PeerPart'
        BY <2>1 DEF TcpInv, WirePart, PeerPart, Opening
    <2>3. /\ SendPart(c', sent', peer'.got) /\ ReceivePart(c', Len(read'), peer')
          /\ (WindowSizes => ReopenPart(c', wire'.edge))
        BY <2>1 DEF TcpInv
    <2> QED BY <2>1, <2>2, <2>3 DEF TcpInv, SendPart, ReceivePart, ReopenPart, SizesFit
<1>2. CASE Network
    <2>1. \/ PeerTakes \/ PeerSends \/ PeerCloses \/ ArpReply \/ ArpForget
          \/ \E g \in Segments : Arrives(g)
          \/ \E ws \in BOOLEAN, win \in {0, 1} : SynAckArrives(ws, win)
          \/ \E acks \in BOOLEAN, win \in {0, 1} : RstArrives(acks, win)
        BY <1>2 DEF Network
    <2> QED BY <2>1, PeerTakesStep, PeerSendsStep, PeerClosesStep, ArpReplyStep, ArpForgetStep,
               ArrivesStep, SynAckArrivesStep, RstArrivesStep
<1>3. CASE Owner
    <2>1. \/ Open \/ Close \/ Abort
          \/ \E n \in 1 .. MaxOut : Send(n)
          \/ \E n \in 1 .. RXCAP : Recv(n)
        BY <1>3 DEF Owner
    <2> QED BY <2>1, OpenStep, CloseStep, AbortStep, SendStep, RecvStep
<1>4. CASE \E l, r, o \in BOOLEAN : Poll(l, r, o)
    BY <1>4, PollStep
<1> QED BY <1>1, <1>2, <1>3, <1>4 DEF Next

\* However the network treats the segments of either side, and whatever the
\* owner calls, both ends of a connection agree on the two streams: what is
\* unacknowledged is the end of ours, what is in the ring is the next of theirs,
\* and what the peer was told it may send fits.
THEOREM TcpInvariance == Spec => []TcpInv
<1>1. Init => TcpInv
    BY InitInv
<1>2. TcpInv /\ [Next]_vars => TcpInv'
    BY TcpStep
<1> QED BY <1>1, <1>2, PTL DEF Spec

\* What tcp_send_raw puts on the wire, first and again, carries each byte and
\* the FIN at its place in the stream.
THEOREM BytesKeepTheirPlace == Spec => []SentInPlace
<1>1. TcpInv => SentInPlace
    BY DEF TcpInv, WirePart, SentInPlace
<1> QED BY <1>1, TcpInvariance, PTL

\* No acknowledgement, however late or repeated, makes tcp_process_ack forget a
\* byte the peer does not have.
THEOREM UnackedIsKept == Spec => []NothingForgotten
<1>1. ASSUME TcpInv PROVE NothingForgotten
    <2> SUFFICES ASSUME c.used, ~c.failed
                 PROVE  /\ PlaceOut(c.seq) = PlaceOut(c.una) + Flight(c)
                        /\ \A b \in 1 .. sent :
                              b < peer.got \/ \E k \in DOMAIN c.rtx : c.rtx[k] = b
        BY DEF NothingForgotten
    <2>1. /\ SendPart(c, sent, peer.got) /\ sent \in 0 .. MaxOut /\ sent \in Nat
          /\ peer.got \in Nat /\ c \in Sock
        BY <1>1, Bounds DEF TcpInv, PeerPart
    <2>2. CASE c.state = "syn_sent"
        <3>1. c.syn /\ ~c.fin /\ c.rtx = << >> /\ sent = 0 /\ c.una = ISS /\ c.seq = Plus(ISS, 1)
            BY <2>1, <2>2 DEF SendPart
        <3>2. 0 \in 0 .. W - 1 /\ 1 \in 0 .. W - 1 /\ ISS \in Words
            BY Constants
        <3>3. PlaceOut(c.seq) = 1 /\ PlaceOut(c.una) = 0
            BY <3>1, <3>2, Places, WordZero
        <3>4. Flight(c) = 1
            <4> DEFINE x == IF c.syn THEN 1 ELSE 0
                       y == IF c.fin THEN 1 ELSE 0
                       l == Len(c.rtx)
            <4>1. x = 1 /\ y = 0 /\ l = 0
                BY <3>1, Zenon
            <4>2. Flight(c) = x + l + y
                BY DEF Flight
            <4> HIDE DEF x, y, l
            <4> QED BY <4>1, <4>2
        <3> QED BY <3>1, <3>3, <3>4
    <2>3. CASE c.state # "syn_sent"
        <3> DEFINE u == PlaceOut(c.una)
                   l == Len(c.rtx)
                   x == Flight(c)
        <3>1. /\ u \in Nat /\ 1 <= u /\ u <= peer.got /\ u <= sent + 2 /\ ~c.syn
              /\ c.rtx \in Seq(Nat) /\ l = (IF u <= sent THEN sent - u + 1 ELSE 0)
              /\ \A j \in 1 .. l : c.rtx[j] = u + j - 1
              /\ IF c.state = "established"
                 THEN u <= sent + 1 /\ ~c.fin /\ c.seq = Plus(ISS, sent + 1)
                 ELSE (c.fin <=> u <= sent + 1) /\ c.seq = Plus(ISS, sent + 2)
            BY <2>1, <2>3, SenderFacts
        <3>2. (c.fin => x = l + 1) /\ (~c.fin => x = l) /\ l \in Nat
            BY <2>1, <3>1, FlightIs
        <3>3. PlaceOut(c.seq) = IF c.state = "established" THEN sent + 1 ELSE sent + 2
            <4>1. sent + 1 \in 0 .. W - 1 /\ sent + 2 \in 0 .. W - 1
                BY <2>1, Bounds
            <4> QED BY <3>1, <4>1, Places
        <3>4. DOMAIN c.rtx = 1 .. l
            BY <3>1, LenProperties
        <3> HIDE DEF u, l, x
        <3>5. PlaceOut(c.seq) = u + x
            BY <2>1, <3>1, <3>2, <3>3
        <3>6. ASSUME NEW b \in 1 .. sent
              PROVE  b < peer.got \/ \E k \in DOMAIN c.rtx : c.rtx[k] = b
            <4>1. CASE b < u
                BY <2>1, <3>1, <4>1
            <4>2. CASE ~(b < u)
                <5> DEFINE k == b - u + 1
                <5>1. k \in 1 .. l /\ u + k - 1 = b
                    BY <2>1, <3>1, <4>2
                <5> HIDE DEF k
                <5> QED BY <3>1, <3>4, <5>1
            <4> QED BY <4>1, <4>2
        <3> QED BY <3>5, <3>6 DEF u, x
    <2> QED BY <2>2, <2>3
<1> QED BY <1>1, TcpInvariance, PTL

\* What the receiver's part says once the SYN is answered
LEMMA ReceiverFacts ==
    ASSUME TcpInv, c.used, ~c.appClosed, c.state # "syn_sent"
    PROVE  LET g == Len(read) + Len(c.rx)
           IN  /\ Len(read) \in Nat /\ Len(c.rx) \in Nat /\ c.rx \in Seq(Nat)
               /\ c.rx = Numbers(Len(read) + 1, g) /\ g <= peer.sent /\ peer.sent \in 0 .. MaxIn
               /\ c.state # "closed" \/ g > 0 =>
                     PlaceIn(c.ack) = g + (IF c.peerClosed THEN 2 ELSE 1)
               /\ c.peerClosed => peer.closed /\ g = peer.sent
               /\ c.finPending => peer.closed /\ c.finSeq = Plus(IRS, peer.sent + 1)
               /\ c.state = "established" => ~c.peerClosed /\ (c.finPending => g < peer.sent)
<1> DEFINE l == Len(c.rx)
           rd == Len(read)
           g == rd + l
           x == g + (IF c.peerClosed THEN 2 ELSE 1)
<1>1. ReceivePart(c, rd, peer) /\ peer.sent \in 0 .. MaxIn
    BY DEF TcpInv, PeerPart
<1>2. c.rx \in Seq(Nat) /\ l \in Nat /\ rd \in Nat
    <2>1. c \in Sock /\ read \in Seq(Nat)
        BY DEF TcpInv
    <2>2. c.rx \in Seq(Nat)
        BY <2>1, Zenon DEF Sock
    <2> QED BY <2>1, <2>2, LenProperties
<1>3. /\ c.rx = Numbers(rd + 1, g) /\ g <= peer.sent
      /\ c.state # "closed" \/ g > 0 => c.ack = Plus(IRS, x)
      /\ c.peerClosed => peer.closed /\ g = peer.sent
      /\ c.finPending => peer.closed /\ c.finSeq = Plus(IRS, peer.sent + 1)
      /\ c.state = "established" => ~c.peerClosed /\ (c.finPending => g < peer.sent)
    BY <1>1 DEF ReceivePart
<1>4. x \in 0 .. W - 1
    <2> DEFINE y == IF c.peerClosed THEN 2 ELSE 1
    <2>1. y \in {1, 2}
        OBVIOUS
    <2>2. g \in Nat /\ g <= peer.sent
        BY <1>2, <1>3
    <2> HIDE DEF y, g
    <2> QED BY <1>1, <2>1, <2>2, Bounds DEF y
<1> HIDE DEF x
<1>5. c.state # "closed" \/ g > 0 => PlaceIn(c.ack) = x
    BY <1>3, <1>4, Places
<1> QED BY <1>1, <1>2, <1>3, <1>5 DEF x

\* What tcp_recv hands out is the peer's stream, and what is acknowledged has
\* been kept.
THEOREM StreamIsIntact == Spec => []StreamIntact
<1>1. ASSUME TcpInv PROVE StreamIntact
    <2> DEFINE q == Joined(read, c.rx)
               rd == Len(read)
               l == Len(c.rx)
               g == rd + l
               z == IF c.peerClosed THEN 1 ELSE 0
    <2> SUFFICES ASSUME c.used, ~c.appClosed, c.state # "syn_sent"
                 PROVE  /\ q = Numbers(1, Len(q))
                        /\ c.state # "closed" \/ q # << >> => PlaceIn(c.ack) = 1 + Len(q) + z
        BY DEF StreamIntact, Joined
    <2>1. /\ rd \in Nat /\ l \in Nat /\ c.rx = Numbers(rd + 1, g)
          /\ c.state # "closed" \/ g > 0 => PlaceIn(c.ack) = g + (IF c.peerClosed THEN 2 ELSE 1)
        BY <1>1, ReceiverFacts
    <2>2. read = Numbers(1, rd)
        BY <1>1 DEF TcpInv
    <2> HIDE DEF rd, l
    <2>3. rd \in Int /\ g \in Int /\ rd + 1 \in Nat /\ 1 <= rd + 1 /\ rd <= g /\ g \in Nat
        BY <2>1
    <2> HIDE DEF g
    <2>4. Joined(Numbers(1, rd), Numbers(rd + 1, g)) = Numbers(1, g)
        <3> DEFINE y == rd + 1
        <3>1. y \in Nat /\ y = rd + 1 /\ 1 <= y
            BY <2>3
        <3> HIDE DEF y
        <3>2. Joined(Numbers(1, rd), Numbers(y, g)) = Numbers(1, g)
            BY <2>3, <3>1, NumbersJoin
        <3> QED BY <3>2 DEF y
    <2>5. q = Numbers(1, g)
        BY <2>1, <2>2, <2>4
    <2> HIDE DEF q
    <2>6. q \in Seq(Nat) /\ Len(q) = g
        <3>1. 1 + g = g + 1 /\ 1 \in Nat
            BY <2>3
        <3>2. Numbers(1, g) \in Seq(Nat) /\ Len(Numbers(1, g)) = g
            BY <2>3, <3>1, NumbersLen
        <3> QED BY <2>5, <3>2
    <2>7. q # << >> => g > 0
        BY <2>3, <2>6, EmptySeq
    <2>8. g + (IF c.peerClosed THEN 2 ELSE 1) = 1 + g + z
        BY <2>3
    <2> QED BY <2>1, <2>5, <2>6, <2>7, <2>8
<1> QED BY <1>1, TcpInvariance, PTL

\* A FIN that overtakes data neither cuts the stream short nor is missed when
\* the data is there.
THEOREM FinCountsInPlace == Spec => []FinInPlace
<1>1. ASSUME TcpInv PROVE FinInPlace
    <2>1. ASSUME c.used, ~c.appClosed, c.peerClosed
          PROVE  peer.closed /\ Len(read) + Len(c.rx) = peer.sent
        <3>1. c.state # "syn_sent"
            BY <1>1, <2>1 DEF TcpInv, ReceivePart
        <3> QED BY <1>1, <2>1, <3>1, ReceiverFacts
    <2>2. ASSUME c.used, ~c.appClosed, c.state = "established", c.finPending
          PROVE  PlaceIn(c.ack) < PlaceIn(c.finSeq)
        <3> DEFINE g == Len(read) + Len(c.rx)
                   x == PlaceIn(c.ack)
        <3>0. /\ Len(read) \in Nat /\ Len(c.rx) \in Nat
              /\ g < peer.sent /\ peer.sent \in 0 .. MaxIn /\ ~c.peerClosed
              /\ x = g + (IF c.peerClosed THEN 2 ELSE 1)
              /\ c.finSeq = Plus(IRS, peer.sent + 1)
            BY <1>1, <2>2, ReceiverFacts
        <3>1. g \in Nat
            BY <3>0
        <3> HIDE DEF g, x
        <3>2. PlaceIn(c.finSeq) = peer.sent + 1
            <4>1. peer.sent + 1 \in 0 .. W - 1
                BY <3>0, Bounds
            <4> QED BY <3>0, <4>1, Places
        <3>3. x = g + 1
            BY <3>0
        <3>4. x < peer.sent + 1
            BY <3>0, <3>1, <3>3, Bounds
        <3> QED BY <3>2, <3>4 DEF x
    <2> QED BY <2>1, <2>2 DEF FinInPlace, EofIsReal, FinNotMissed
<1> QED BY <1>1, TcpInvariance, PTL

\* The buffers keep to their size, and a byte the peer was allowed to send finds
\* room however late it comes.
THEOREM WindowIsKept == Spec => []WindowKept
<1>1. ASSUME TcpInv PROVE WindowKept
    <2>1. TypeOK
        <3>1. /\ c \in Sock /\ SizesFit(c) /\ c.out = {} /\ opens \in 0 .. MaxOpens
              /\ sent \in 0 .. MaxOut
            BY <1>1 DEF TcpInv
        <3>2. /\ c.used \in BOOLEAN /\ c.seq \in Words /\ c.ack \in Words /\ c.una \in Words
              /\ c.state \in {"closed", "syn_sent", "established", "fin_wait"}
              /\ c.lastAck \in Words /\ c.finSeq \in Words
              /\ c.tries \in 0 .. MAXRTX /\ c.dups \in 0 .. DUPS + 1
            BY <3>1, Zenon DEF Sock
        <3> QED BY <3>1, <3>2 DEF TypeOK, SizesFit
    <2>2. ASSUME c.used, ~c.appClosed, c.state = "established"
          PROVE  wire.edge <= PlaceIn(c.ack) - 1 + RXCAP - Len(c.rx)
        <3> DEFINE rd == Len(read)
                   l == Len(c.rx)
                   x == PlaceIn(c.ack)
        <3>1. rd \in Nat /\ l \in Nat /\ x = (rd + l) + (IF c.peerClosed THEN 2 ELSE 1) /\ ~c.peerClosed
            BY <1>1, <2>2, ReceiverFacts
        <3>2. wire.edge <= rd + RXCAP /\ wire.edge \in Int
            <4>1. Opening(c)
                BY <2>2 DEF Opening
            <4> QED BY <1>1, <4>1, InvSound DEF TcpInv, WirePart
        <3> HIDE DEF rd, l, x
        <3>3. x = rd + l + 1
            BY <3>1
        <3>4. wire.edge <= x - 1 + RXCAP - l
            BY <3>1, <3>2, <3>3, Bounds
        <3> QED BY <3>4 DEF x, l
    <2> QED BY <2>1, <2>2 DEF WindowKept
<1> QED BY <1>1, TcpInvariance, PTL

\* With buffers and thresholds sized as in the code, a peer is never left in
\* front of a small window by an owner that has read everything.
THEOREM WindowsReopen == WindowSizes => (Spec => []WindowReopens)
<1> SUFFICES ASSUME WindowSizes PROVE Spec => []WindowReopens
    OBVIOUS
<1>1. TcpInv => WindowReopens
    <2> SUFFICES ASSUME TcpInv, c.used, c.state = "established", c.rx = << >>, ~c.ackPending
                 PROVE  wire.edge >= PlaceIn(c.ack) - 1 + SmallWin
        BY DEF WindowReopens
    <2>1. ReopenPart(c, wire.edge) /\ c.out = {}
        BY DEF TcpInv
    <2> QED BY <2>1 DEF ReopenPart
<1> QED BY <1>1, TcpInvariance, PTL
=============================================================================
