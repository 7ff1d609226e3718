-------------------------------- MODULE Tcp ---------------------------------
(***************************************************************************)
(* One TCP connection of src/src/net/network.c against a peer that keeps   *)
(* the protocol and a network that loses, repeats and reorders segments.   *)
(* The kernel runs net_poll from one loop, so a received segment, a poll   *)
(* and a call of the owner are one step each.                              *)
(*                                                                         *)
(* The network is kept as what has ever been sent: whatever the peer sent  *)
(* so far may arrive at any time, any number of times, cut at any byte.    *)
(* A byte is the number of its place in the stream, so that a byte in a    *)
(* wrong place shows.  Time is left open: a timer may have run out at any  *)
(* poll.  The estimate of the round-trip time, the options of a SYN except *)
(* window scaling, and SACK blocks change no state kept here.              *)
(***************************************************************************)
EXTENDS Integers, Sequences, FiniteSetsExt

CONSTANTS
    W,         \* sequence numbers are 32-bit words: they wrap here
    ISS, IRS,  \* the first sequence number of either side
    RTXCAP,    \* TCP_RTX_CAP, bytes
    RXCAP,     \* TCP_RX_CAP
    WINMAX,    \* TCP_WIN_MAX
    UNIT,      \* 1 << TCP_RCV_SHIFT
    NREORDER,  \* TCP_REORDER_SLOTS
    MAXRTX,    \* TCP_MAX_RTX
    DUPS,      \* duplicate ACKs that make a fast retransmit (3)
    SmallWin,  \* 4 * TCP_SEG_MAX: a window this small is worth an update
    OpenWin,   \* TCP_WIN_MAX / 2: and so is a ring this free
    ArpForgets, \* TRUE: the address of the next hop may be forgotten
    MaxIn,     \* bound: bytes the peer sends
    MaxSeg,    \* bound: bytes in a segment of the peer
    MaxOut,    \* bound: bytes the owner sends
    MaxOpens   \* bound: calls of tcp_open

ASSUME TcpAssumption ==
    /\ W \in Nat /\ MaxIn + RXCAP + 4 < W \div 2 /\ MaxOut + 2 < W \div 2
    /\ ISS \in 0 .. W - 1 /\ IRS \in 0 .. W - 1
    /\ RTXCAP \in Nat \ {0} /\ RXCAP \in Nat \ {0} /\ WINMAX \in Nat \ {0}
    /\ UNIT \in Nat \ {0} /\ NREORDER \in Nat /\ MAXRTX \in Nat \ {0}
    /\ DUPS \in Nat \ {0} /\ SmallWin \in Nat /\ OpenWin \in Nat
    /\ ArpForgets \in BOOLEAN
    /\ MaxIn \in Nat /\ MaxSeg \in Nat \ {0} /\ MaxOut \in Nat
    /\ MaxOpens \in Nat

VARIABLES
    c,         \* struct tcp_sock
    arp,       \* the address of the next hop is known
    opens,
    sent,      \* bytes the owner has given to tcp_send
    read,      \* bytes the owner has got from tcp_recv
    wire,      \* our side of the network: see Emit
    peer       \* the other end: see NewPeer

vars == <<c, arp, opens, sent, read, wire, peer>>

-----------------------------------------------------------------------------
(* Words                                                                    *)

\* seq_lt
SeqLt(a, b) == (a - b) % W >= W \div 2
Plus(a, n) == (a + n) % W

\* Places in the two streams: our SYN is 0 and our bytes follow; the bytes of
\* the peer begin with 1.
PlaceOut(x) == (x - ISS) % W
PlaceIn(x) == (x - IRS) % W
Lesser(a, b) == IF a < b THEN a ELSE b
Numbers(from, to) == [k \in 1 .. to - from + 1 |-> from + k - 1]

-----------------------------------------------------------------------------
(* Sending                                                                  *)

NoSock == [used |-> FALSE, state |-> "closed", seq |-> 0, ack |-> 0, una |-> 0,
           rtx |-> << >>, syn |-> FALSE, fin |-> FALSE, tries |-> 0,
           pwin |-> 0, persist |-> FALSE, dups |-> 0, lastAck |-> 0,
           finPending |-> FALSE, finSeq |-> 0, rx |-> << >>, wsOn |-> FALSE,
           advWin |-> 0, ackPending |-> FALSE, peerClosed |-> FALSE,
           failed |-> FALSE, appClosed |-> FALSE, ro |-> {}, out |-> {}]

Flight(s) == (IF s.syn THEN 1 ELSE 0) + Len(s.rtx) + (IF s.fin THEN 1 ELSE 0)

\* tcp_rx_free
RxFree(s) == Lesser(RXCAP - Len(s.rx), IF s.wsOn THEN WINMAX * UNIT ELSE WINMAX)

\* The window a segment tells the peer; a SYN's is never scaled.
WindowAhead(s, syn) == RxFree(s) + 1
Window(s, syn) ==
    IF syn THEN Lesser(RxFree(s), WINMAX)
    ELSE IF s.wsOn THEN (RxFree(s) \div UNIT) * UNIT ELSE RxFree(s)

\* tcp_send_raw and tcp_send_one; cut into segments of at most TCP_SEG_MAX,
\* with the FIN on the last, which the network may do to it anyway
Transmit(s, seq, data, syn, fin) ==
    IF ~arp THEN s
    ELSE [s EXCEPT !.advWin = Window(s, syn),
                   !.ackPending = IF syn THEN @ ELSE FALSE,
                   !.out = @ \cup {[seq |-> seq, data |-> data, syn |-> syn,
                                    fin |-> fin, ack |-> s.ack,
                                    win |-> Window(s, syn)]}]

\* tcp_send_ctl with ACK only
SendAck(s) == Transmit(s, s.seq, << >>, FALSE, FALSE)

\* tcp_resend
Resend(s) ==
    IF s.syn THEN Transmit(s, s.una, << >>, TRUE, FALSE)
             ELSE Transmit(s, s.una, s.rtx, FALSE, s.fin)

\* The place up to which a segment lets the peer send
Edge(g) == (IF g.syn THEN 0 ELSE PlaceIn(g.ack) - 1) + g.win

\* What of the segments can reach the peer: that our SYN was sent, the bytes
\* and the FIN with their places, and the highest place it may send up to.
NoWire == [syn |-> FALSE, bytes |-> {}, fins |-> {}, edge |-> 0]

Emit(w, out) ==
    [syn |-> w.syn \/ \E g \in out : g.syn,
     bytes |-> w.bytes \cup UNION {{<<PlaceOut(g.seq) + k - 1, g.data[k]>> :
                                       k \in DOMAIN g.data} : g \in out},
     fins |-> w.fins \cup {PlaceOut(g.seq) + Len(g.data) :
                             g \in {h \in out : h.fin}},
     edge |-> Max({Edge(g) : g \in out} \cup {w.edge})]

\* A step ends with the segments it produced on their way.
Becomes(s) == c' = [s EXCEPT !.out = {}] /\ wire' = Emit(wire, s.out)

\* tcp_release; what it leaves behind is not read before tcp_open clears it.
Release(s) == [NoSock EXCEPT !.out = s.out]

\* RST or too many tries: what was received stays readable
Failed(s) == [s EXCEPT !.failed = TRUE, !.state = "closed", !.rtx = << >>,
                       !.syn = FALSE, !.fin = FALSE]

\* The FIN of tcp_close and tcp_complete_fin
SendFin(s) ==
    LET t == Transmit([s EXCEPT !.fin = TRUE], s.seq, << >>, FALSE, TRUE)
    IN  [t EXCEPT !.seq = Plus(@, 1), !.state = "fin_wait"]

-----------------------------------------------------------------------------
(* The peer                                                                 *)

\* got: the place it expects next of ours; sent: its last byte in the
\* network; closed: its FIN is, after that byte
NewPeer == [got |-> 0, sent |-> 0, closed |-> FALSE]

Init ==
    /\ c = NoSock /\ arp \in BOOLEAN /\ opens = 0
    /\ sent = 0 /\ read = << >> /\ wire = NoWire /\ peer = NewPeer

\* It takes our SYN, our next byte or our FIN.
PeerTakes ==
    /\ c.used
    /\ \/ peer.got = 0 /\ wire.syn
       \/ \E b \in wire.bytes : b[1] = peer.got
       \/ peer.got # 0 /\ peer.got \in wire.fins
    /\ peer' = [peer EXCEPT !.got = @ + 1]
    /\ UNCHANGED <<c, arp, opens, sent, read, wire>>

\* It sends within the window, or one byte to see whether a shut one opened.
PeerSends ==
    /\ c.used /\ peer.got > 0 /\ ~peer.closed /\ peer.sent < MaxIn
    /\ peer.sent <= wire.edge
    /\ peer' = [peer EXCEPT !.sent = @ + 1]
    /\ UNCHANGED <<c, arp, opens, sent, read, wire>>

PeerCloses ==
    /\ c.used /\ peer.got > 0 /\ ~peer.closed
    /\ peer' = [peer EXCEPT !.closed = TRUE]
    /\ UNCHANGED <<c, arp, opens, sent, read, wire>>

ArpReply ==
    /\ ~arp /\ arp' = TRUE
    /\ UNCHANGED <<c, opens, sent, read, wire, peer>>

\* The cache of next hops is overwritten, or emptied by DHCP or a new link.
ArpForget ==
    /\ ArpForgets /\ arp /\ arp' = FALSE
    /\ UNCHANGED <<c, opens, sent, read, wire, peer>>

\* A segment without SYN or RST that may arrive now.
Segments ==
    {[seq |-> Plus(IRS, a), data |-> Numbers(a, b), fin |-> f,
      ack |-> Plus(ISS, k), win |-> w] :
        a \in 1 .. peer.sent + 1, b \in 0 .. peer.sent, f \in BOOLEAN,
        k \in 1 .. peer.got, w \in {0, 1}}

CanArrive(g) ==
    /\ Len(g.data) <= MaxSeg
    /\ PlaceIn(g.seq) + Len(g.data) <= peer.sent + 1
    /\ g.fin => peer.closed /\ PlaceIn(g.seq) + Len(g.data) = peer.sent + 1

-----------------------------------------------------------------------------
(* Acknowledgements                                                         *)

\* An ACK of nothing new: the third in a row resends and starts the timer of
\* retransmission again, see FastRetransmit.  Repeats beyond DUPS make no
\* difference and are not counted; tries stay at MAXRTX, where the byte of the
\* code would begin again after 256 fast retransmits without a fresh ACK.
RepeatedAck(s, ack, plen) ==
    LET n == IF ack = s.lastAck THEN Lesser(s.dups + 1, DUPS + 1) ELSE 1
        t == [s EXCEPT !.dups = n, !.lastAck = ack]
    IN  IF plen # 0 \/ Flight(s) = 0 THEN s
        ELSE IF n # DUPS THEN t
        ELSE Resend([t EXCEPT !.tries = Lesser(@ + 1, MAXRTX)])

\* An ACK of something in flight: first the SYN, then data, last the FIN.
FreshAckDataOnly(s, ack) ==
    LET n == Lesser((ack - s.una) % W, Flight(s))
        syn == IF s.syn THEN 1 ELSE 0
        take == Lesser(n - syn, Len(s.rtx))
    IN  [s EXCEPT !.syn = FALSE, !.rtx = SubSeq(@, take + 1, Len(@)),
                  !.fin = @ /\ n - syn <= take,
                  !.una = Plus(@, take), !.dups = 0, !.lastAck = ack, !.tries = 0]
FreshAck(s, ack) ==
    LET n == Lesser((ack - s.una) % W, Flight(s))
        syn == IF s.syn THEN 1 ELSE 0
        take == Lesser(n - syn, Len(s.rtx))
    IN  [s EXCEPT !.syn = FALSE, !.rtx = SubSeq(@, take + 1, Len(@)),
                  !.fin = @ /\ n - syn <= take,
                  !.una = Plus(@, n), !.dups = 0, !.lastAck = ack, !.tries = 0]

\* tcp_process_ack
ProcessAck(s, ack, plen) ==
    IF SeqLt(s.una, ack) THEN FreshAck(s, ack) ELSE RepeatedAck(s, ack, plen)

-----------------------------------------------------------------------------
(* Received data                                                            *)

\* tcp_complete_fin
CompleteFin(s) ==
    LET t == [s EXCEPT !.finPending = FALSE, !.peerClosed = TRUE,
                       !.ack = Plus(@, 1)]
    IN  IF s.state = "established" THEN SendFin([t EXCEPT !.tries = 0])
                                   ELSE SendAck(t)

\* tcp_rx_put
RxPut(s, data) ==
    LET n == Lesser(Len(data), RXCAP - Len(s.rx))
    IN  [s EXCEPT !.rx = @ \o SubSeq(data, 1, n), !.ack = Plus(@, n)]

\* A held segment that continues the stream and fits follows it.
Continuing(s) == {r \in s.ro : r.seq = s.ack /\ Len(r.data) <= RXCAP - Len(s.rx)}
DrainOne(s) ==
    IF Continuing(s) = {} THEN s
    ELSE LET r == CHOOSE r \in Continuing(s) : TRUE
         IN  [RxPut(s, r.data) EXCEPT !.ro = @ \ {r}]

\* At most one step for each slot; the segments the stream has passed are
\* dropped.
DrainHeld(s) ==
    LET drain[n \in 0 .. NREORDER] == IF n = 0 THEN s ELSE DrainOne(drain[n - 1])
        d == drain[NREORDER]
    IN  [d EXCEPT !.ro = {r \in @ : ~SeqLt(r.seq, d.ack)}]

\* tcp_deliver_in_order
DeliverDropsFin(s, data) ==
    LET t == [RxPut(s, data) EXCEPT !.ackPending = TRUE]
    IN  IF Len(data) > RXCAP - Len(s.rx) THEN t ELSE DrainHeld(t)
DeliverAcksAll(s, data) ==
    LET t == [RxPut(s, data) EXCEPT !.ackPending = TRUE,
                                    !.ack = Plus(s.ack, Len(data))]
        d == DrainHeld(t)
    IN  IF d.finPending /\ d.finSeq = d.ack THEN CompleteFin(d) ELSE d
DeliverInOrder(s, data) ==
    LET t == [RxPut(s, data) EXCEPT !.ackPending = TRUE]
        d == DrainHeld(t)
    IN  IF Len(data) > RXCAP - Len(s.rx) THEN t
        ELSE IF d.finPending /\ d.finSeq = d.ack THEN CompleteFin(d) ELSE d

\* tcp_reorder_store
ReorderStore(s, g) ==
    IF (\E r \in s.ro : r.seq = g.seq) \/ Cardinality(s.ro) = NREORDER THEN s
    ELSE [s EXCEPT !.ro = @ \cup {[seq |-> g.seq, data |-> g.data]}]

\* The data of a segment; only an established connection takes it.
TakeData(s, g) ==
    LET skip == (s.ack - g.seq) % W
    IN  IF g.data = << >> \/ s.state # "established" THEN s
        ELSE IF g.seq = s.ack THEN DeliverInOrder(s, g.data)
        ELSE IF ~SeqLt(g.seq, s.ack) THEN SendAck(ReorderStore(s, g))
        ELSE IF skip < Len(g.data)
             THEN DeliverInOrder(s, SubSeq(g.data, skip + 1, Len(g.data)))
        ELSE SendAck(s)

\* Its FIN; one ahead of missing data is held.
TakeFin(s, g) ==
    LET end == Plus(g.seq, Len(g.data))
    IN  IF ~g.fin THEN s
        ELSE IF s.peerClosed THEN SendAck(s)
        ELSE IF end # s.ack /\ SeqLt(s.ack, end)
             THEN SendAck([s EXCEPT !.finPending = TRUE, !.finSeq = end])
        ELSE CompleteFin(s)

\* Both FINs are exchanged and acknowledged.
BothClosed(s) ==
    IF s.state = "fin_wait" /\ s.peerClosed /\ ~s.fin /\ s.rtx = << >>
    THEN [s EXCEPT !.state = "closed"] ELSE s

-----------------------------------------------------------------------------
(* tcp_handle_packet, by the kind of segment and the state it meets         *)

Heard(s, win) == [s EXCEPT !.pwin = win, !.persist = IF win # 0 THEN FALSE ELSE @]

\* The owner has let go: only the close is finished.
AfterClose(s, g) ==
    IF ~s.fin /\ s.rtx = << >> THEN Release(s)
    ELSE IF g.fin THEN SendAck(s) ELSE s

Accept(s, g) ==
    LET t == ProcessAck(s, g.ack, Len(g.data))
    IN  IF t.state = "fin_wait" /\ t.appClosed THEN AfterClose(t, g)
        ELSE BothClosed(TakeFin(TakeData(t, g), g))

Arrives(g) ==
    /\ c.used /\ peer.got > 0 /\ CanArrive(g)
    /\ LET s == Heard(c, g.win)
       IN  \/ c.state = "syn_sent" /\ Becomes(s)
           \/ c.state = "closed" /\ Becomes(ProcessAck(s, g.ack, Len(g.data)))
           \/ c.state \in {"established", "fin_wait"} /\ Becomes(Accept(s, g))
    /\ UNCHANGED <<arp, opens, sent, read, peer>>

\* The answer to our SYN, with or without window scaling
SynAckArrives(ws, win) ==
    /\ c.used /\ peer.got > 0 /\ c.state = "syn_sent"
    /\ LET s == [Heard(c, win) EXCEPT !.ack = Plus(IRS, 1), !.wsOn = ws,
                                      !.state = "established"]
       IN  Becomes(SendAck(ProcessAck(s, Plus(ISS, 1), 0)))
    /\ UNCHANGED <<arp, opens, sent, read, peer>>

\* The peer may give up at any time.  A RST without an ACK does not answer a
\* SYN.
RstArrives(acks, win) ==
    /\ c.used /\ wire.syn
    /\ LET s == Heard(c, win)
           f == [Failed(s) EXCEPT !.finPending = FALSE]
       IN  Becomes(IF c.state = "syn_sent" /\ ~acks THEN s
                   ELSE IF c.appClosed THEN Release(f) ELSE f)
    /\ UNCHANGED <<arp, opens, sent, read, peer>>

-----------------------------------------------------------------------------
(* The owner                                                                *)

\* tcp_open: a port of its own keeps it apart from earlier connections.
Open ==
    /\ ~c.used /\ opens < MaxOpens
    /\ LET s == [NoSock EXCEPT !.used = TRUE, !.seq = ISS, !.una = ISS,
                               !.pwin = 1, !.state = "syn_sent", !.syn = TRUE]
           t == [Transmit(s, ISS, << >>, TRUE, FALSE) EXCEPT !.seq = Plus(ISS, 1)]
       IN  c' = [t EXCEPT !.out = {}] /\ wire' = Emit(NoWire, t.out)
    /\ opens' = opens + 1 /\ sent' = 0 /\ read' = << >> /\ peer' = NewPeer
    /\ UNCHANGED arp

\* tcp_send; behind a shut window the bytes wait for the probes.
SendRemembersNothing(n) ==
    /\ c.used /\ ~c.appClosed /\ c.state = "established" /\ ~c.failed
    /\ n <= RTXCAP - Len(c.rtx) /\ sent + n <= MaxOut
    /\ LET data == Numbers(sent + 1, sent + n)
           s == [c EXCEPT !.rtx = IF c.rtx = << >> THEN data ELSE @]
           t == IF c.pwin = 0 THEN s ELSE Transmit(s, c.seq, data, FALSE, FALSE)
       IN  Becomes([t EXCEPT !.seq = Plus(@, n)])
    /\ sent' = sent + n
    /\ UNCHANGED <<arp, opens, read, peer>>
Send(n) ==
    /\ c.used /\ ~c.appClosed /\ c.state = "established" /\ ~c.failed
    /\ n <= RTXCAP - Len(c.rtx) /\ sent + n <= MaxOut
    /\ LET data == Numbers(sent + 1, sent + n)
           s == [c EXCEPT !.rtx = @ \o data]
           t == IF c.pwin = 0 THEN s ELSE Transmit(s, c.seq, data, FALSE, FALSE)
       IN  Becomes([t EXCEPT !.seq = Plus(@, n)])
    /\ sent' = sent + n
    /\ UNCHANGED <<arp, opens, read, peer>>

\* tcp_recv, with the window update that wakes a peer we had stopped
RecvSilent(n) ==
    /\ c.used /\ ~c.appClosed /\ n <= Len(c.rx)
    /\ c' = [c EXCEPT !.rx = SubSeq(@, n + 1, Len(@))]
    /\ read' = read \o SubSeq(c.rx, 1, n)
    /\ UNCHANGED <<arp, opens, sent, wire, peer>>
Recv(n) ==
    /\ c.used /\ ~c.appClosed /\ n <= Len(c.rx)
    /\ LET s == [c EXCEPT !.rx = SubSeq(@, n + 1, Len(@))]
       IN  c' = [s EXCEPT !.ackPending = @ \/ ( /\ c.state = "established"
                                                /\ c.advWin < SmallWin
                                                /\ RxFree(s) >= OpenWin )]
    /\ read' = read \o SubSeq(c.rx, 1, n)
    /\ UNCHANGED <<arp, opens, sent, wire, peer>>

\* tcp_close
Close ==
    /\ c.used /\ ~c.appClosed
    /\ LET s == [c EXCEPT !.appClosed = TRUE, !.rx = << >>]
       IN  Becomes(IF c.state = "established" THEN SendFin(s)
                   ELSE IF c.state = "fin_wait" THEN s ELSE Release(s))
    /\ UNCHANGED <<arp, opens, sent, read, peer>>

\* tcp_abort; its RST ends the other side, of which no more is asked.
Abort ==
    /\ c.used /\ ~c.appClosed
    /\ c' = Release(c)
    /\ UNCHANGED <<arp, opens, sent, read, wire, peer>>

-----------------------------------------------------------------------------
(* tcp_poll                                                                 *)

\* The retransmission timer has run out; over: so has the persist timer.
RtoForgetsPersist(s, over) ==
    IF s.tries >= MAXRTX /\ s.pwin # 0 THEN Failed(s)
    ELSE Resend([s EXCEPT !.tries = Lesser(@ + 1, MAXRTX)])
Rto(s, over) ==
    IF s.pwin = 0 /\ s.rtx # << >> /\ s.state = "established"
    THEN IF s.persist /\ over THEN Failed([s EXCEPT !.persist = TRUE])
         ELSE Transmit([s EXCEPT !.persist = TRUE], s.una, <<Head(s.rtx)>>,
                       FALSE, FALSE)
    ELSE IF s.tries >= MAXRTX THEN Failed(s)
    ELSE Resend([s EXCEPT !.tries = @ + 1])

\* late: TCP_CLOSE_LINGER has passed since the owner closed
PollNeverLate(late, rto, over) ==
    /\ c.used
    /\ LET s == IF c.ackPending /\ c.state # "closed" THEN SendAck(c) ELSE c
       IN  Becomes(IF s.appClosed /\ s.state = "closed" /\ ~s.failed THEN Release(s)
                   ELSE IF Flight(s) = 0 \/ ~rto THEN s
                   ELSE Rto(s, over))
    /\ UNCHANGED <<arp, opens, sent, read, peer>>
Poll(late, rto, over) ==
    /\ c.used
    /\ LET s == IF c.ackPending /\ c.state # "closed" THEN SendAck(c) ELSE c
       IN  Becomes(IF s.appClosed /\ (s.state = "closed" \/ late) THEN Release(s)
                   ELSE IF Flight(s) = 0 \/ ~rto THEN s
                   ELSE Rto(s, over))
    /\ UNCHANGED <<arp, opens, sent, read, peer>>

-----------------------------------------------------------------------------

Network == \/ PeerTakes \/ PeerSends \/ PeerCloses \/ ArpReply \/ ArpForget
           \/ \E g \in Segments : Arrives(g)
           \/ \E ws \in BOOLEAN, win \in {0, 1} : SynAckArrives(ws, win)
           \/ \E acks \in BOOLEAN, win \in {0, 1} : RstArrives(acks, win)

Owner == \/ Open \/ Close \/ Abort
         \/ \E n \in 1 .. MaxOut : Send(n)
         \/ \E n \in 1 .. RXCAP : Recv(n)

Next == Network \/ Owner \/ \E l, r, o \in BOOLEAN : Poll(l, r, o)

Spec == Init /\ [][Next]_vars

\* A repeated ACK that resends, and with that starts the timer again
FastRetransmit ==
    c'.dups = DUPS /\ <<c'.dups, c'.lastAck>> # <<c.dups, c.lastAck>>

\* The kernel's loop calls net_poll for ever and the clock it reads runs on.
\* Nothing sets the time of the close back, so it passes.  The timer of
\* retransmission runs out if it is not started again for ever: what else does
\* that, an ACK of something new, a first byte or a FIN, is bounded by what the
\* owner sends.  Nothing is assumed of the peer, the network or the owner.
LiveSpec ==
    /\ Spec
    /\ WF_vars(Poll(TRUE, FALSE, FALSE))
    /\ []<><<FastRetransmit>>_vars \/ WF_vars(Poll(TRUE, TRUE, TRUE))

-----------------------------------------------------------------------------
(* Properties                                                               *)

Words == 0 .. W - 1

\* struct tcp_sock: the flight fits its buffer, the ring its size, the reorder
\* buffer its slots.
TypeOK ==
    /\ c.used \in BOOLEAN
    /\ c.state \in {"closed", "syn_sent", "established", "fin_wait"}
    /\ {c.seq, c.ack, c.una, c.lastAck, c.finSeq} \subseteq Words
    /\ Len(c.rtx) <= RTXCAP /\ Len(c.rx) <= RXCAP
    /\ Cardinality(c.ro) <= NREORDER /\ c.out = {}
    /\ c.tries \in 0 .. MAXRTX /\ c.dups \in 0 .. DUPS + 1
    /\ opens \in 0 .. MaxOpens /\ sent \in 0 .. MaxOut

\* What tcp_recv hands out is the peer's stream from its first byte, without a
\* hole, a repeat or a byte out of place, and exactly what has been kept is
\* acknowledged: a byte that is acknowledged and then dropped would never be
\* sent again.
StreamIntact ==
    c.used /\ ~c.appClosed /\ c.state # "syn_sent" =>
        LET got == read \o c.rx
        IN  /\ got = Numbers(1, Len(got))
            /\ c.state # "closed" \/ got # << >> =>
                   PlaceIn(c.ack) = 1 + Len(got) + (IF c.peerClosed THEN 1 ELSE 0)

\* The end of the stream is reported only where the peer ended it: a FIN that
\* overtook data does not cut the stream short.
EofIsReal ==
    c.used /\ ~c.appClosed /\ c.peerClosed =>
        peer.closed /\ Len(read) + Len(c.rx) = peer.sent

\* And it is not missed: when the last byte before a FIN that came early is in,
\* the connection is at its end, without waiting for the FIN to be repeated.
FinNotMissed ==
    c.used /\ ~c.appClosed /\ c.state = "established" /\ c.finPending =>
        PlaceIn(c.ack) < PlaceIn(c.finSeq)

\* So the FIN counts exactly at its place in the stream, however it travelled.
FinInPlace == EofIsReal /\ FinNotMissed

\* Whatever is sent and sent again carries each byte at its own place, and the
\* FIN after the last.
SentInPlace ==
    /\ \A b \in wire.bytes : b[1] = b[2]
    /\ wire.fins \subseteq {sent + 1}

\* Until the connection fails, a byte of the owner that the peer does not have
\* is still there to be sent again, and the numbers agree with what is kept.
NothingForgotten ==
    c.used /\ ~c.failed =>
        /\ PlaceOut(c.seq) = PlaceOut(c.una) + Flight(c)
        /\ \A b \in 1 .. sent : b < peer.got \/ \E k \in DOMAIN c.rtx : c.rtx[k] = b

\* Buffers hold no more than their size, and the window told is room that is
\* there: a byte the peer was allowed to send finds its place in the ring
\* however late it comes.
WindowKept ==
    /\ TypeOK
    /\ c.used /\ ~c.appClosed /\ c.state = "established" =>
          wire.edge <= PlaceIn(c.ack) - 1 + RXCAP - Len(c.rx)

\* A peer is never left in front of a small window by an owner that has read
\* everything: either it has been told of the room or the next poll tells it.
WindowReopens ==
    c.used /\ ~c.appClosed /\ c.state = "established" /\ c.rx = << >>
    /\ ~c.ackPending =>
        wire.edge >= PlaceIn(c.ack) - 1 + SmallWin

\* A socket the owner has closed becomes free again whatever the peer does.
CloseReleases == (c.used /\ c.appClosed) ~> ~c.used

\* Bytes the owner gave are in the end acknowledged or the connection fails or
\* goes, if the peer's window does not go on opening and shutting for ever and
\* repeated ACKs do not go on starting the timer again (network.c:1185-1194,
\* 1440-1462).  Without the second condition it does not hold: TcpDupAcks.cfg.
SendResolves ==
    /\ <>[](c.pwin = 0) \/ <>[](c.pwin # 0)
    /\ <>[][~FastRetransmit]_vars
    => []<>(c.rtx = << >>)

\* The same with nothing asked of repeated ACKs: old ones of two numbers that
\* take turns, three of each, keep the timer from ever running out.
SendResolvesAnyway ==
    (<>[](c.pwin = 0) \/ <>[](c.pwin # 0)) => []<>(c.rtx = << >>)

=============================================================================
