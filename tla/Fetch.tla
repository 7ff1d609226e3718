------------------------------- MODULE Fetch --------------------------------
(***************************************************************************)
(* The HTTP fetch engine of src/src/net/fetch.c with its HTTP/2 sessions   *)
(* (src/src/net/h2.c): request slots, a pool of connections, keep-alive,   *)
(* ALPN, retries, speculative loads and the response cache, against        *)
(* servers that may answer, stall, refuse or go away at any point.         *)
(*                                                                         *)
(* fetch_poll runs from the main loop: it first hands out connections and  *)
(* then steps them one after the other.  The calls of owners come between  *)
(* two polls.  A response is the set of the requests its bytes answer, so  *)
(* that a byte in the wrong slot shows.  Clocks are left open: a timer may *)
(* have run out at any step, and which connection has been idle longest is *)
(* chosen anew by each poll.  Lack of memory, a request HPACK cannot       *)
(* encode and a TLS error look alike: the request fails.                   *)
(***************************************************************************)
EXTENDS Integers, FiniteSetsExt

CONSTANTS
    Url,        \* pairs <<origin, path>>
    Https,      \* the origins spoken to with TLS
    Sloppy,     \* the origins whose server may send bytes nobody asked for
    NSLOT,      \* FETCH_MAX
    NCONN,      \* CONN_MAX
    PERHOST,    \* CONN_PER_HOST
    STREAMS,    \* H2_OUR_MAX_CONC
    RESPMAX,    \* RESP_MAX, in pieces of a response
    PREMAX,     \* PREFETCH_MAX
    SPARE,      \* PREFETCH_SPARE
    MaxReq      \* bound: requests made

ASSUME FetchAssumption ==
    /\ NSLOT \in Nat \ {0} /\ NCONN \in Nat \ {0} /\ PERHOST \in Nat \ {0}
    /\ STREAMS \in Nat \ {0} /\ RESPMAX \in Nat \ {0} /\ PREMAX \in Nat
    /\ SPARE \in Nat /\ MaxReq \in Nat /\ Sloppy \subseteq {u[1] : u \in Url}
    /\ \A u \in Url : u[1] # "none"

Slot == 1 .. NSLOT
Conn == 1 .. NCONN
Origin == {u[1] : u \in Url}

VARIABLES
    f,      \* the engine: conns, slots, origins and the cache; see Init
    at,     \* where fetch_poll is: the next connection to step, 0 outside
    reqs    \* requests made so far: slot_seq

vars == <<f, at, reqs>>

-----------------------------------------------------------------------------
(* State                                                                    *)

\* struct fslot.  tags: the requests whose bytes are in the response, len: how
\* many pieces it has; owned: a caller of fetch_begin holds the handle; sends:
\* how often the request was put on a connection.
NoSlot == [st |-> "free", id |-> 0, url |-> << >>, conn |-> 0, sid |-> 0,
           tags |-> {}, len |-> 0, over |-> FALSE, retried |-> FALSE,
           reused |-> FALSE, prefetch |-> FALSE, cacheable |-> FALSE,
           owned |-> FALSE, sends |-> 0]

\* struct fconn and its struct h2.  shaking: the TLS handshake is not over;
\* wire: the requests whose answers are on their way or wait to be read, also
\* while the connection is idle; asked: the requests the server has got on an
\* HTTP/2 session, with their streams, also the cancelled ones.
NoConn == [st |-> "free", org |-> "none", slot |-> 0, served |-> FALSE,
           offer |-> FALSE, shaking |-> FALSE, wire |-> {},
           strs |-> {}, next |-> 1, max |-> STREAMS, goaway |-> FALSE,
           asked |-> {}]

Init ==
    /\ f = [conns |-> [i \in Conn |-> NoConn], slots |-> [j \in Slot |-> NoSlot],
            origins |-> [o \in Origin |-> 0], cache |-> {}]
    /\ at = 0 /\ reqs = 0

Tag(s) == [id |-> s.id, url |-> s.url]

\* What the server of an origin sends without having been asked
Unasked(o) == [id |-> 0, url |-> <<o>>]

\* conn_matches; h2_active; h2_can_open
Matches(c, s) == c.st # "free" /\ c.org = s.url[1]
Active(c) == Cardinality(c.strs)
CanOpen(c) == ~c.goaway /\ Active(c) < c.max
Lowest(S) == CHOOSE x \in S : \A y \in S : x <= y

-----------------------------------------------------------------------------
(* Connections and slots                                                    *)

\* conn_close
ConnClose(g, i) == [g EXCEPT !.conns[i] = NoConn]

\* slot_requeue
RequeueOften(g, j) ==
    [g EXCEPT !.slots[j] = [@ EXCEPT !.sid = 0, !.over = FALSE, !.tags = {},
                                     !.len = 0, !.conn = 0, !.reused = FALSE,
                                     !.st = "wait"]]
Requeue(g, j) ==
    [g EXCEPT !.slots[j] = [@ EXCEPT !.retried = TRUE, !.sid = 0, !.over = FALSE,
                                     !.tags = {}, !.len = 0, !.conn = 0,
                                     !.reused = FALSE, !.st = "wait"]]

\* slot_fail, without a connection and with one.  slot_retry_stale: a reused
\* connection that ended before the first byte gets one more try.
SlotFailAlone(g, j) == [g EXCEPT !.slots[j].st = "fail", !.slots[j].conn = 0]

SlotFail(g, j, i) ==
    LET s == g.slots[j]
    IN  IF s.reused /\ ~s.retried /\ s.len = 0
        THEN [ConnClose(g, i) EXCEPT !.slots[j].retried = TRUE,
                                     !.slots[j].reused = FALSE,
                                     !.slots[j].conn = 0, !.slots[j].st = "wait"]
        ELSE ConnClose(SlotFailAlone(g, j), i)

\* fcache_store keeps one response for a key.
Store(g, s) ==
    IF ~s.cacheable THEN g
    ELSE [g EXCEPT !.cache = {t \in @ : t.req.url # s.url}
                                 \cup {[req |-> Tag(s), tags |-> s.tags]}]

\* slot_finish; whole: the framing says that the message is complete, keep: the
\* connection may carry another request, with rest still to be read on it
SlotFinish(g, j, i, whole, keep, rest) ==
    LET t == [(IF whole THEN Store(g, g.slots[j]) ELSE g)
                  EXCEPT !.slots[j].st = "done", !.slots[j].conn = 0,
                         !.conns[i].served = TRUE]
    IN  IF keep THEN [t EXCEPT !.conns[i] = [@ EXCEPT !.st = "idle", !.slot = 0,
                                                      !.wire = rest]]
        ELSE ConnClose(t, i)

\* The request is on its way to the server of connection i, as far as TCP takes
\* it; conn_run pushes the rest.  What was there to be read stays.
Sent(g, j, i) == [g EXCEPT !.conns[i].wire = @ \cup {Tag(g.slots[j])},
                           !.slots[j].sends = @ + 1]

-----------------------------------------------------------------------------
(* HTTP/2                                                                   *)

\* h2_open: the stream of slot j on the session of connection i
H2Open(g, j, i) ==
    LET c == g.conns[i]
        s == g.slots[j]
    IN  [g EXCEPT
            !.conns[i] = [c EXCEPT !.next = c.next + 2,
                                   !.strs = c.strs \cup {[sid |-> c.next, user |-> j,
                                                          head |-> FALSE]},
                                   !.asked = c.asked \cup {[sid |-> c.next,
                                                            req |-> Tag(s)]}],
            !.slots[j] = [s EXCEPT !.sid = c.next, !.conn = i, !.st = "run",
                                   !.tags = {}, !.len = 0, !.sends = s.sends + 1]]

\* h2_attach: the handshake ended with ALPN h2.
H2Attach(g, j, i) ==
    H2Open([g EXCEPT !.origins[g.conns[i].org] = 1,
                     !.conns[i] = [@ EXCEPT !.st = "h2", !.slot = 0,
                                            !.shaking = FALSE, !.offer = FALSE]],
           j, i)

Freed(g, i, r) == [g EXCEPT !.conns[i].strs = @ \ {r}]

\* h2_cancel
H2CancelLate(g, i, sid) == g
H2Cancel(g, i, sid) ==
    [g EXCEPT !.conns[i].strs = {r \in @ : r.sid # sid}]

\* slot_h2_lost: the session is gone.
H2LostSlot(g, j) ==
    LET s == g.slots[j]
        dead == s.conn # 0 /\ ~g.conns[s.conn].served
    IN  IF s.retried \/ s.len # 0 THEN SlotFailAlone(g, j)
        ELSE Requeue(IF dead THEN [g EXCEPT !.origins[s.url[1]] = 2] ELSE g, j)

\* h2_on_end with H2_END_RETRY: the server has not looked at the request.
H2Retry(g, j) == IF g.slots[j].retried THEN SlotFailAlone(g, j) ELSE Requeue(g, j)

\* A step for each slot of a set, in the order of the table
ForSlots(g, J, Do(_, _)) ==
    LET upto[j \in 0 .. NSLOT] ==
            IF j = 0 THEN g
            ELSE IF j \in J THEN Do(upto[j - 1], j) ELSE upto[j - 1]
    IN  upto[NSLOT]

\* h2_conn_lost, also after a connection error, which ends the streams alike
H2ConnLostSilently(g, i) == ConnClose(g, i)
H2ConnLost(g, i) ==
    LET on == {j \in Slot : /\ g.slots[j].st = "run" /\ g.slots[j].conn = i
                            /\ g.slots[j].sid # 0}
    IN  ConnClose(ForSlots(g, on, H2LostSlot), i)

-----------------------------------------------------------------------------
(* slot_assign                                                              *)

\* handshaking: the first connection to an origin is still on its way.
Handshaking(g, s) ==
    \E i \in Conn : /\ Matches(g.conns[i], s)
                    /\ \/ g.conns[i].st \in {"dns", "tcp"}
                       \/ g.conns[i].st = "run" /\ g.conns[i].offer

\* h2_assign: the sessions the request may join; full: it has to wait for one
Sessions(g, s) ==
    IF s.url[1] \notin Https \/ g.origins[s.url[1]] = 2 THEN {}
    ELSE {i \in Conn : g.conns[i].st = "h2" /\ Matches(g.conns[i], s)}

Reuse(g, j, i) ==
    Sent([g EXCEPT !.conns[i].st = "run", !.conns[i].slot = j,
                   !.slots[j].conn = i, !.slots[j].st = "run",
                   !.slots[j].reused = TRUE], j, i)

NewConn(g, j, i) ==
    [g EXCEPT !.conns[i] = [NoConn EXCEPT !.st = "dns", !.slot = j,
                                          !.org = g.slots[j].url[1]],
              !.slots[j].conn = i, !.slots[j].st = "run",
              !.slots[j].reused = FALSE]

\* What a round of assigning finds: the idle connections that cannot take a
\* request, as their socket has failed or a record is half read, and for how
\* long each has been idle.
Findings == [bad : SUBSET Conn, since : [Conn -> Conn]]
LongestIdle(S, w) == CHOOSE x \in S : \A y \in S : w.since[x] <= w.since[y]

\* Kept for later: an idle connection or a session without streams
Unused(c) == c.st = "idle" \/ (c.st = "h2" /\ Active(c) = 0)

\* A new connection, within the limits for the host and the pool
StartConn(g, j, w) ==
    LET s == g.slots[j]
        org == s.url[1]
        mine == {i \in Conn : Matches(g.conns[i], s)}
        free == {i \in Conn : g.conns[i].st = "free"}
        other == {i \in Conn \ mine : Unused(g.conns[i])}
    IN  IF \/ Cardinality(mine) >= PERHOST
           \/ org \in Https /\ g.origins[org] # 2 /\ Handshaking(g, s)
        THEN g
        ELSE IF free # {} THEN NewConn(g, j, Lowest(free))
        ELSE IF other # {} THEN NewConn(g, j, LongestIdle(other, w))
        ELSE g

CloseAll(g, S) ==
    [g EXCEPT !.conns = [i \in Conn |-> IF i \in S THEN NoConn ELSE g.conns[i]]]

\* The request starts, or the slot goes on waiting.  Whether bytes wait on an
\* idle connection is not asked; one that cannot take the request is closed and
\* the next one tried.
SlotAssign(g, j, w) ==
    LET s == g.slots[j]
        open == {i \in Sessions(g, s) : CanOpen(g.conns[i])}
        full == \E i \in Sessions(g, s) : ~g.conns[i].goaway
        idle == {i \in Conn : g.conns[i].st = "idle" /\ Matches(g.conns[i], s)}
        able == idle \ w.bad
        h == CloseAll(g, {i \in idle : \A k \in able : i < k})
    IN  IF open # {}
        THEN LET i == Lowest(open)
             IN  H2Open([g EXCEPT !.slots[j].reused = g.conns[i].served], j, i)
        ELSE IF full THEN g
        ELSE IF able # {} THEN Reuse(h, j, Lowest(able))
        ELSE StartConn(h, j, w)

Waiting(g) == {j \in Slot : g.slots[j].st = "wait"}

\* The first loop of fetch_poll: the oldest request first; when it is blocked
\* each of the others gets one chance.
AssignWaiting(g, w) ==
    LET each(h, j) == SlotAssign(h, j, w)
        others(h, b) == ForSlots(h, Waiting(h) \ {b}, each)
        oldest(h) == CHOOSE j \in Waiting(h) :
                         \A k \in Waiting(h) : h.slots[j].id <= h.slots[k].id
        rounds[n \in 0 .. NSLOT] ==
            IF n = 0 THEN [g |-> g, stop |-> FALSE]
            ELSE LET p == rounds[n - 1]
                 IN  IF p.stop \/ Waiting(p.g) = {} THEN p
                     ELSE LET b == oldest(p.g)
                              q == each(p.g, b)
                          IN  IF q.slots[b].st = "wait"
                              THEN [g |-> others(q, b), stop |-> TRUE]
                              ELSE [g |-> q, stop |-> FALSE]
    IN  rounds[NSLOT].g

-----------------------------------------------------------------------------
(* fetch_poll                                                               *)

PollStarts ==
    /\ at = 0
    /\ \E w \in Findings : f' = AssignWaiting(f, w)
    /\ at' = 1
    /\ UNCHANGED reqs

\* conn_step of the next connection: a step that ends its turn, and one after
\* which it looks for more
Turn(i, st) == at = i /\ f.conns[i].st = st
Ends(g) == f' = g /\ at' = at + 1 /\ UNCHANGED reqs
GoesOn(g) == f' = g /\ UNCHANGED <<at, reqs>>

Skips(i) == Turn(i, "free") /\ Ends(f)

\* Nothing has come and no timer has run out.
Waits(i) ==
    at = i /\ f.conns[i].st \in {"dns", "tcp", "run", "idle"} /\ Ends(f)

Resolves(i) == Turn(i, "dns") /\ Ends([f EXCEPT !.conns[i].st = "tcp"])

\* conn_start_request
Connects(i) ==
    /\ Turn(i, "tcp")
    /\ LET c == f.conns[i]
           g == [f EXCEPT !.conns[i].st = "run"]
       IN  Ends(IF c.org \in Https
                THEN [g EXCEPT !.conns[i].shaking = TRUE,
                               !.conns[i].offer = f.origins[c.org] # 2]
                ELSE Sent(g, c.slot, i))

\* DNS or connecting fails or takes too long.
FailsToConnect(i) ==
    /\ at = i /\ f.conns[i].st \in {"dns", "tcp"}
    /\ Ends(SlotFail(f, f.conns[i].slot, i))

\* The handshake, TLS or sending fails, the response does not fit or stalls.
FailsRunning(i) == Turn(i, "run") /\ Ends(SlotFail(f, f.conns[i].slot, i))

Fails(i) == FailsToConnect(i) \/ FailsRunning(i)

\* conn_run: the handshake is done and says which protocol is spoken.
Negotiates(i, h2) ==
    /\ Turn(i, "run") /\ f.conns[i].shaking
    /\ LET c == f.conns[i]
           g == [f EXCEPT !.conns[i].shaking = FALSE, !.conns[i].offer = FALSE]
       IN  \/ h2 /\ c.offer /\ Ends(H2Attach(f, c.slot, i))
           \/ /\ ~h2
              /\ GoesOn(Sent(IF c.offer THEN [g EXCEPT !.origins[c.org] = 2] ELSE g,
                             c.slot, i))

Answering(i) == Turn(i, "run") /\ ~f.conns[i].shaking

Receives(i) ==
    /\ Answering(i)
    /\ LET j == f.conns[i].slot
       IN  /\ f.slots[j].len < RESPMAX
           /\ \E t \in f.conns[i].wire :
                 GoesOn([f EXCEPT !.slots[j].tags = @ \cup {t},
                                  !.slots[j].len = @ + 1])

\* message_state finds the message complete.  A server that sends what it was
\* asked for has sent nothing else; of another's, the rest is left to be read.
Completes(i, keep, rest) ==
    /\ Answering(i) /\ f.slots[f.conns[i].slot].len > 0
    /\ f.conns[i].org \in Sloppy \/ rest = {}
    /\ Ends(SlotFinish(f, f.conns[i].slot, i, TRUE, keep, rest))

\* The server closed: a body without framing ends there, complete or not.
MeetsEof(i) ==
    /\ Answering(i)
    /\ LET j == f.conns[i].slot
       IN  Ends(IF f.slots[j].len = 0 THEN SlotFail(f, j, i)
                ELSE SlotFinish(f, j, i, FALSE, FALSE, {}))

\* conn_idle: closed by the server, expired, or bytes have come, which nobody
\* asked for.  It looks after slot_assign has had the connection to give away.
IdleEnds(i) == Turn(i, "idle") /\ Ends(ConnClose(f, i))

-----------------------------------------------------------------------------
(* h2_run                                                                   *)

\* The server says something about a stream it was asked for: the callbacks go
\* to the slot of the stream, if there is still one.
Streams(i, q) == {r \in f.conns[i].strs : r.sid = q.sid}

HeadSeen(c, r) ==
    [c EXCEPT !.strs = (c.strs \ {r}) \cup {[r EXCEPT !.head = TRUE]}]

\* h2_on_data
OnData(s, req) ==
    IF s.len >= RESPMAX THEN [s EXCEPT !.over = TRUE]
    ELSE [s EXCEPT !.tags = s.tags \cup {req}, !.len = s.len + 1]

H2Piece(i, q) ==
    /\ Turn(i, "h2") /\ q \in f.conns[i].asked
    /\ \/ Streams(i, q) = {} /\ GoesOn(f)
       \/ \E r \in Streams(i, q) :
             GoesOn([f EXCEPT !.conns[i] = HeadSeen(f.conns[i], r),
                              !.slots[r.user] = OnData(f.slots[r.user], q.req)])

\* stream_end with H2_END_OK
H2Done(g, j) ==
    LET i == g.slots[j].conn
    IN  IF g.slots[j].over THEN SlotFailAlone(g, j)
        ELSE [Store(g, g.slots[j]) EXCEPT !.slots[j].st = "done",
                                          !.slots[j].conn = 0,
                                          !.conns[i].served = TRUE]

\* The server is through with a stream: END_STREAM after a head, a reset, or
\* REFUSED_STREAM before one.
H2Ends(i, q, how) ==
    /\ Turn(i, "h2") /\ q \in f.conns[i].asked
    /\ LET g == [f EXCEPT !.conns[i].asked = @ \ {q}]
       IN  \/ Streams(i, q) = {} /\ GoesOn(g)
           \/ \E r \in Streams(i, q) :
                 LET h == Freed(g, i, r)
                 IN  \/ how = "ok" /\ r.head /\ GoesOn(H2Done(h, r.user))
                     \/ how = "reset" /\ GoesOn(SlotFailAlone(h, r.user))
                     \/ how = "refused" /\ GoesOn(IF r.head
                                                  THEN SlotFailAlone(h, r.user)
                                                  ELSE H2Retry(h, r.user))

\* GOAWAY: the streams after the last one are not looked at.  Another one may
\* follow and name an earlier stream.
H2GoAway(i, last) ==
    /\ Turn(i, "h2")
    /\ LET gone == {r \in f.conns[i].strs : r.sid > last}
           g == [f EXCEPT !.conns[i].goaway = TRUE,
                          !.conns[i].strs = @ \ gone,
                          !.conns[i].asked = {q \in @ : q.sid <= last}]
       IN  GoesOn(ForSlots(g, {r.user : r \in gone}, H2Retry))

\* SETTINGS: MAX_CONCURRENT_STREAMS
H2Settings(i, m) ==
    /\ Turn(i, "h2") /\ m # f.conns[i].max
    /\ GoesOn([f EXCEPT !.conns[i].max = m])

\* An error, the end of the stream, or a stall with streams open
H2Breaks(i) == Turn(i, "h2") /\ Ends(H2ConnLost(f, i))

\* Without a stream: a draining session is closed, another after a time.
H2IdlesDraining(i) ==
    /\ Turn(i, "h2") /\ Active(f.conns[i]) = 0 /\ f.conns[i].goaway
    /\ Ends(ConnClose(f, i))
H2Idles(i) ==
    /\ Turn(i, "h2") /\ Active(f.conns[i]) = 0 /\ Ends(ConnClose(f, i))

\* A turn does not end with a draining session that carries nothing.
H2Waits(i) ==
    /\ Turn(i, "h2") /\ ~(f.conns[i].goaway /\ Active(f.conns[i]) = 0)
    /\ Ends(f)

\* The last loop: finished speculative loads free themselves.
PollEnds ==
    /\ at = NCONN + 1
    /\ f' = [f EXCEPT !.slots = [j \in Slot |->
                IF f.slots[j].prefetch /\ f.slots[j].st \in {"done", "fail"}
                THEN NoSlot ELSE f.slots[j]]]
    /\ at' = 0 /\ UNCHANGED reqs

-----------------------------------------------------------------------------
(* Calls of owners                                                          *)

FreeSlots == {j \in Slot : f.slots[j].st = "free"}

\* begin_request with a free slot
NewRequest(url, cacheable, prefetch) ==
    /\ FreeSlots # {} /\ reqs < MaxReq /\ reqs' = reqs + 1
    /\ LET j == Lowest(FreeSlots)
           s == [NoSlot EXCEPT !.st = "wait", !.id = reqs + 1, !.url = url,
                               !.cacheable = cacheable, !.prefetch = prefetch,
                               !.owned = ~prefetch]
       IN  \E w \in Findings : f' = SlotAssign([f EXCEPT !.slots[j] = s], j, w)
    /\ UNCHANGED at

Speculative(url) ==
    {j \in Slot : f.slots[j].prefetch /\ f.slots[j].url = url}

Begin(url, cacheable) ==
    /\ at = 0
    /\ ~(cacheable /\ (Speculative(url) # {} \/ \E e \in f.cache : e.req.url = url))
    /\ NewRequest(url, cacheable, FALSE)

\* fetch_begin adopts a speculative load of the same thing.
AdoptKeepsFlag(url) ==
    /\ at = 0 /\ Speculative(url) # {}
    /\ f' = [f EXCEPT !.slots[Lowest(Speculative(url))].owned = TRUE]
    /\ UNCHANGED <<at, reqs>>
Adopt(url) ==
    /\ at = 0 /\ Speculative(url) # {}
    /\ LET j == Lowest(Speculative(url))
       IN  f' = [f EXCEPT !.slots[j].prefetch = FALSE, !.slots[j].owned = TRUE]
    /\ UNCHANGED <<at, reqs>>

\* fetch_begin is answered from the cache.
Hit(url) ==
    /\ at = 0 /\ Speculative(url) = {} /\ FreeSlots # {}
    /\ \E e \in f.cache :
          /\ e.req.url = url
          /\ f' = [f EXCEPT !.slots[Lowest(FreeSlots)] =
                      [NoSlot EXCEPT !.st = "done", !.id = e.req.id, !.url = url,
                                     !.tags = e.tags, !.len = 1, !.reused = TRUE,
                                     !.owned = TRUE]]
    /\ UNCHANGED <<at, reqs>>

\* fetch_prefetch
Prefetch(url) ==
    /\ at = 0 /\ ~\E e \in f.cache : e.req.url = url
    /\ ~\E j \in Slot : f.slots[j].cacheable /\ f.slots[j].url = url
    /\ Cardinality({j \in Slot : f.slots[j].prefetch}) < PREMAX
    /\ Cardinality(FreeSlots) > SPARE
    /\ NewRequest(url, TRUE, TRUE)

\* fetch_end, also of a request still running
End(j) ==
    /\ at = 0 /\ f.slots[j].st # "free" /\ f.slots[j].owned
    /\ LET s == f.slots[j]
           g == IF s.st # "run" \/ s.conn = 0 THEN f
                ELSE IF f.conns[s.conn].st = "h2" THEN H2Cancel(f, s.conn, s.sid)
                ELSE ConnClose(f, s.conn)
       IN  f' = [g EXCEPT !.slots[j] = NoSlot]
    /\ UNCHANGED <<at, reqs>>

\* fetch_close_idle
CloseIdle ==
    /\ at = 0
    /\ f' = CloseAll(f, {i \in Conn : Unused(f.conns[i])})
    /\ UNCHANGED <<at, reqs>>

\* fetch_cache_clear; also an entry that is evicted, expires or is not kept
Forget == at = 0 /\ f' = [f EXCEPT !.cache = {}] /\ UNCHANGED <<at, reqs>>

\* Bytes nobody asked for come on a connection, between two polls.
Strays(i) ==
    /\ at = 0 /\ f.conns[i].st \in {"run", "idle"} /\ ~f.conns[i].shaking
    /\ f.conns[i].org \in Sloppy
    /\ f' = [f EXCEPT !.conns[i].wire = @ \cup {Unasked(f.conns[i].org)}]
    /\ UNCHANGED <<at, reqs>>

-----------------------------------------------------------------------------

H2Event(i) ==
    \/ \E q \in f.conns[i].asked : H2Piece(i, q)
    \/ \E q \in f.conns[i].asked, how \in {"ok", "reset", "refused"} :
          H2Ends(i, q, how)
    \/ \E last \in 0 .. f.conns[i].next : H2GoAway(i, last)
    \/ \E m \in 0 .. STREAMS : H2Settings(i, m)
    \/ H2Breaks(i) \/ H2Idles(i) \/ H2Waits(i)

Step(i) ==
    \/ Skips(i) \/ Waits(i) \/ Resolves(i) \/ Connects(i) \/ Fails(i)
    \/ \E h2 \in BOOLEAN : Negotiates(i, h2)
    \/ Receives(i) \/ MeetsEof(i) \/ IdleEnds(i)
    \/ \E keep \in BOOLEAN, rest \in SUBSET f.conns[i].wire : Completes(i, keep, rest)
    \/ H2Event(i)

Call ==
    \/ \E u \in Url, k \in BOOLEAN : Begin(u, k)
    \/ \E u \in Url : Adopt(u) \/ Hit(u) \/ Prefetch(u)
    \/ \E j \in Slot : End(j)
    \/ CloseIdle \/ Forget

Next == PollStarts \/ PollEnds \/ Call \/ \E i \in Conn : Step(i) \/ Strays(i)

Spec == Init /\ [][Next]_vars

\* The main loop polls for ever and time goes on, so that the bound on
\* connecting, the bound on a response that stalls and the idle timeout run out
\* in the end.  The bytes of an answer are finitely many and do not put the
\* stall off for ever; that a server keeps a session busy with frames that
\* answer nothing is left out.
LiveSpec ==
    /\ Spec
    /\ WF_vars(PollStarts) /\ WF_vars(PollEnds)
    /\ \A i \in Conn : /\ WF_vars(Step(i))
                       /\ SF_vars(Fails(i))
                       /\ SF_vars(Active(f.conns[i]) > 0 /\ H2Breaks(i))
                       /\ SF_vars(H2Idles(i) \/ IdleEnds(i))

-----------------------------------------------------------------------------
(* Properties                                                               *)

\* The states of slots and connections; a response stays within RESP_MAX and
\* the connections of an origin within CONN_PER_HOST.
TypeOK ==
    /\ \A j \in Slot :
          /\ f.slots[j].st \in {"free", "wait", "run", "done", "fail"}
          /\ f.slots[j].conn \in 0 .. NCONN /\ f.slots[j].len \in 0 .. RESPMAX
    /\ \A i \in Conn :
          /\ f.conns[i].st \in {"free", "dns", "tcp", "run", "idle", "h2"}
          /\ f.conns[i].slot \in 0 .. NSLOT /\ Active(f.conns[i]) <= STREAMS
    /\ \A o \in Origin :
          Cardinality({i \in Conn : f.conns[i].org = o}) <= PERHOST
    /\ at \in 0 .. NCONN + 1 /\ reqs \in 0 .. MaxReq

\* A byte that answers request t is in order for slot s: it answers the request
\* of s, or it comes from the same origin and that sends what nobody asked for.
InOrder(s, t) == t = Tag(s) \/ (t.url[1] \in Sloppy /\ s.url[1] = t.url[1])

\* Whatever a slot holds answers its own request, or came from the cache for
\* the same URL: no byte of an earlier user of the slot, of the connection or
\* of the stream number reaches it, as long as the origin sends only what it is
\* asked for.  Once one does not, it can spoil its own later answers on a kept
\* connection (fetch.c:678-697), and no other origin's.
OwnAnswer == \A j \in Slot : \A t \in f.slots[j].tags : InOrder(f.slots[j], t)

\* A kept connection on which bytes have come is given to no request, as the
\* comment "unsolicited bytes: unusable" of conn_idle (fetch.c:595) has it.  The
\* code does not keep to it: FetchStray.cfg.
StraysUnusable ==
    [][\A i \in Conn : f.conns[i].st = "idle" /\ f.conns[i].wire # {} =>
          f'.conns[i].st # "run"]_vars

\* Slots and connections agree about who serves whom.  A running request has a
\* connection that will report to it, and only one; a connection or a stream
\* never reports to a slot that does not wait for it.
LinksAgree ==
    /\ TypeOK
    /\ \A j \in Slot : f.slots[j].st = "run" =>
          LET s == f.slots[j]
              c == f.conns[s.conn]
          IN  \/ c.st \in {"dns", "tcp", "run"} /\ c.slot = j
              \/ c.st = "h2" /\ \E r \in c.strs : r.sid = s.sid /\ r.user = j
    /\ \A i \in Conn :
          LET c == f.conns[i]
          IN  /\ c.st \in {"dns", "tcp", "run"} =>
                    f.slots[c.slot].st = "run" /\ f.slots[c.slot].conn = i
              /\ \A r \in c.strs : /\ f.slots[r.user].st = "run"
                                   /\ f.slots[r.user].conn = i
                                   /\ f.slots[r.user].sid = r.sid

\* Whatever goes wrong with sessions, streams and idle connections, a request
\* goes out at most twice.
SentTwiceAtMost == \A j \in Slot : f.slots[j].sends <= 2

\* A handle stays its owner's until fetch_end: the sweep of finished loads
\* does not take a slot an owner holds.
HandlesKept ==
    [][\A j \in Slot : f.slots[j].owned /\ f.slots[j].st # "free" /\ at # 0 =>
          f'.slots[j].owned]_vars

\* Every request is answered or reported as failed in the end: none waits for
\* a connection that was lost from the pool, for a session that stays full or
\* for a handshake that does not end.
EveryRequestResolves ==
    \A j \in Slot : f.slots[j].st \in {"wait", "run"}
                        ~> f.slots[j].st \notin {"wait", "run"}

-----------------------------------------------------------------------------
(* The inductive invariant of the proofs                                    *)

Request == [id : Nat, url : Url]
Heard == Request \cup [id : {0}, url : {<<o>> : o \in Sloppy}]

SlotRec ==
    [st : {"free", "wait", "run", "done", "fail"}, id : Nat,
     url : Url \cup {<< >>}, conn : 0 .. NCONN, sid : Nat, tags : SUBSET Heard,
     len : 0 .. RESPMAX, over : BOOLEAN, retried : BOOLEAN, reused : BOOLEAN,
     prefetch : BOOLEAN, cacheable : BOOLEAN, owned : BOOLEAN, sends : Nat]

ConnRec ==
    [st : {"free", "dns", "tcp", "run", "idle", "h2"}, org : Origin \cup {"none"},
     slot : 0 .. NSLOT, served : BOOLEAN, offer : BOOLEAN, shaking : BOOLEAN,
     wire : SUBSET Heard,
     strs : SUBSET [sid : Nat, user : Slot, head : BOOLEAN], next : Nat,
     max : 0 .. STREAMS, goaway : BOOLEAN,
     asked : SUBSET [sid : Nat, req : Request]]

\* The cache holds what answers the request it was stored for.
Cached == {e \in [req : Request, tags : SUBSET Heard] :
               \A t \in e.tags : InOrder(e.req, t)}

Engine ==
    [conns : [Conn -> ConnRec], slots : [Slot -> SlotRec],
     origins : [Origin -> 0 .. 2], cache : SUBSET Cached]

Direct == {"dns", "tcp", "run"}

\* How often the request of a slot may have gone out before its present try
Spent(s) == IF s.retried THEN 1 ELSE 0

\* A slot by itself
SlotOK(s) ==
    /\ s.st # "free" => s.url \in Url
    /\ s.st = "run" => s.conn \in Conn
    /\ \A t \in s.tags : InOrder(s, t)
    /\ s.owned => ~s.prefetch
    /\ s.sends <= 2 /\ (s.st = "wait" => s.sends <= Spent(s))

\* A connection by itself; no two of a session's streams have one number, and
\* what waits to be read on an idle one is what nobody asked for.
ConnOK(c) ==
    /\ IF c.st = "free" THEN c.org = "none" ELSE c.org \in Origin
    /\ c.st \in Direct => c.slot \in Slot
    /\ c.st # "h2" => c.strs = {} /\ c.asked = {}
    /\ c.shaking => c.st = "run"
    /\ \A t \in c.wire : t.url[1] = c.org /\ (c.st = "idle" => c.org \in Sloppy)
    /\ IsFiniteSet(c.strs) /\ Cardinality(c.strs) <= STREAMS /\ 1 <= c.next
    /\ \A r \in c.strs : 1 <= r.sid /\ r.sid < c.next
    /\ \A q \in c.asked : q.sid < c.next
    /\ \A r, t \in c.strs : r.sid = t.sid => r = t

\* Connection c carries slot j, by itself or with a stream; it does so exactly
\* if j runs on it, and what it will report is the answer to the slot's request.
Carries(c, j) ==
    \/ c.st \in Direct /\ c.slot = j
    \/ \E r \in c.strs : r.user = j

Unsent(c) == c.st # "run" \/ c.shaking

LinkOK(s, j, c, i) ==
    /\ s.st = "run" /\ s.conn = i => Carries(c, j)
    /\ Carries(c, j) => s.st = "run" /\ s.conn = i
    /\ c.st \in Direct /\ c.slot = j =>
          /\ c.org = s.url[1] /\ \A t \in c.wire : InOrder(s, t)
          /\ s.sends <= Spent(s) + (IF Unsent(c) THEN 0 ELSE 1)
    /\ \A r \in c.strs : r.user = j =>
          /\ r.sid = s.sid /\ s.sends <= Spent(s) + 1
          /\ \A q \in c.asked : q.sid = r.sid => q.req = Tag(s)

\* The connections of an origin stay within CONN_PER_HOST.
HostsOK(g) ==
    \A o \in Origin : Cardinality({i \in Conn : g.conns[i].org = o}) <= PERHOST

Good(g) ==
    /\ g \in Engine
    /\ \A j \in Slot : SlotOK(g.slots[j])
    /\ \A i \in Conn : ConnOK(g.conns[i])
    /\ \A j \in Slot, i \in Conn : LinkOK(g.slots[j], j, g.conns[i], i)
    /\ HostsOK(g)

\* Between any two steps of fetch_poll and calls of owners the engine is good.
FetchInv == Good(f) /\ at \in 0 .. NCONN + 1 /\ reqs \in 0 .. MaxReq

=============================================================================
