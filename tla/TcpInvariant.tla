---------------------------- MODULE TcpInvariant ----------------------------
(* The inductive invariant behind the safety properties of Tcp.            *)
EXTENDS Tcp

Held == [seq : Words, data : Seq(Nat)]
Segment == [seq : Words, data : Seq(Nat), syn : BOOLEAN, fin : BOOLEAN,
            ack : Words, win : 0 .. RXCAP]

Sock == [used : BOOLEAN, state : {"closed", "syn_sent", "established", "fin_wait"},
         seq : Words, ack : Words, una : Words, rtx : Seq(Nat), syn : BOOLEAN,
         fin : BOOLEAN, tries : 0 .. MAXRTX, pwin : {0, 1}, persist : BOOLEAN,
         dups : 0 .. DUPS + 1, lastAck : Words, finPending : BOOLEAN,
         finSeq : Words, rx : Seq(Nat), wsOn : BOOLEAN, advWin : 0 .. RXCAP,
         ackPending : BOOLEAN, peerClosed : BOOLEAN, failed : BOOLEAN,
         appClosed : BOOLEAN, ro : SUBSET Held, out : SUBSET Segment]

\* The buffers of a socket keep to their size.
SizesFit(s) ==
    /\ Len(s.rtx) <= RTXCAP /\ Len(s.rx) <= RXCAP
    /\ IsFiniteSet(s.ro) /\ Cardinality(s.ro) <= NREORDER

Opening(s) == s.state \in {"syn_sent", "established"}

\* The sender, after n bytes of its owner and with the peer at place got: what
\* is unacknowledged is the end of the stream, from una on, with the FIN after
\* it once there is one.
SendPart(s, n, got) ==
    s.used =>
      IF s.failed
      THEN s.state = "closed" /\ s.rtx = << >> /\ ~s.syn /\ ~s.fin
      ELSE IF s.state = "syn_sent"
      THEN /\ s.syn /\ ~s.fin /\ s.rtx = << >> /\ n = 0
           /\ s.una = ISS /\ s.seq = Plus(ISS, 1) /\ ~s.appClosed
      ELSE \E u \in 1 .. got :
              /\ ~s.syn /\ s.una = Plus(ISS, u) /\ s.rtx = Numbers(u, n)
              /\ IF s.state = "established"
                 THEN u <= n + 1 /\ ~s.fin /\ s.seq = Plus(ISS, n + 1) /\ ~s.appClosed
                 ELSE u <= n + 2 /\ (s.fin <=> u <= n + 1) /\ s.seq = Plus(ISS, n + 2)

\* A held segment is a piece of the stream sent so far.
HeldPiece(r, last) ==
    \E a \in 1 .. last :
        /\ r.seq = Plus(IRS, a) /\ Len(r.data) > 0 /\ a + Len(r.data) <= last + 1
        /\ r.data = Numbers(a, a + Len(r.data) - 1)

\* The receiver, after the owner has read rd bytes: the ring goes on where the
\* owner stopped, ack is after it and after the FIN that ended the stream.
ReceivePart(s, rd, p) ==
    LET g == rd + Len(s.rx)
    IN  s.used /\ ~s.appClosed =>
        IF s.state = "syn_sent"
        THEN /\ rd = 0 /\ s.rx = << >> /\ ~s.peerClosed /\ ~s.finPending
             /\ s.ro = {} /\ ~s.ackPending
        ELSE /\ s.rx = Numbers(rd + 1, g) /\ g <= p.sent
             /\ s.state # "closed" \/ g > 0 =>
                   s.ack = Plus(IRS, g + (IF s.peerClosed THEN 2 ELSE 1))
             /\ s.peerClosed => p.closed /\ g = p.sent
             /\ s.finPending => p.closed /\ s.finSeq = Plus(IRS, p.sent + 1)
             /\ s.state = "established" =>
                   /\ ~s.peerClosed /\ (s.finPending => g < p.sent)
                   /\ \A r \in s.ro : HeldPiece(r, p.sent)
             /\ s.state # "established" /\ ~s.failed => s.peerClosed

\* A segment carries bytes of the stream at their places, and the FIN after the
\* last; while the stream is open it promises only what the ring can take.  A
\* SYN, the one segment the peer has for certain, tells of an empty ring.
SegmentRight(g, n) ==
    /\ \A k \in DOMAIN g.data : g.data[k] = PlaceOut(g.seq) + k - 1 /\ g.data[k] \in 1 .. n
    /\ g.fin => PlaceOut(g.seq) + Len(g.data) = n + 1

OutPart(s, n, rd) ==
    \A g \in s.out :
        /\ arp /\ SegmentRight(g, n)
        /\ Opening(s) => ~g.fin /\ Edge(g) <= rd + RXCAP
        /\ g.syn => Edge(g) >= Lesser(RXCAP, WINMAX)

\* An empty ring is a window worth having, as it is with the sizes of the code:
\* 64 KB unscaled, 256 KB scaled by 4, against 4 segments and 32 KB.
WindowSizes ==
    /\ SmallWin <= Lesser(RXCAP, WINMAX) /\ OpenWin <= Lesser(RXCAP, WINMAX)
    /\ SmallWin <= (Lesser(RXCAP, WINMAX * UNIT) \div UNIT) * UNIT
    /\ OpenWin <= Lesser(RXCAP, WINMAX * UNIT)

\* The peer has been told of a window worth having, or will be, or the ring has
\* something in it whose reading will say so.
ReopenPart(s, e) ==
    s.used /\ s.state = "established" =>
        \/ s.ackPending
        \/ s.rx # << >> /\ s.advWin < SmallWin
        \/ e >= PlaceIn(s.ack) - 1 + SmallWin
        \/ \E g \in s.out : Edge(g) >= PlaceIn(s.ack) - 1 + SmallWin

WirePart ==
    /\ \A b \in wire.bytes : b[1] = b[2] /\ b[1] \in 1 .. sent
    /\ wire.fins \subseteq {sent + 1} /\ wire.edge \in 0 .. W + RXCAP
    /\ Opening(c) => wire.fins = {} /\ wire.edge <= Len(read) + RXCAP
    /\ wire.syn \in BOOLEAN
    /\ wire.syn => wire.edge >= Lesser(RXCAP, WINMAX)

PeerPart ==
    /\ peer \in [got : Nat, sent : 0 .. MaxIn, closed : BOOLEAN]
    /\ peer.got <= (IF wire.fins = {} THEN sent + 1 ELSE sent + 2)
    /\ peer.got > 0 => wire.syn

TcpInv ==
    /\ c \in Sock /\ c.out = {} /\ SizesFit(c) /\ arp \in BOOLEAN
    /\ opens \in 0 .. MaxOpens /\ sent \in 0 .. MaxOut
    /\ read \in Seq(Nat) /\ read = Numbers(1, Len(read))
    /\ SendPart(c, sent, peer.got) /\ ReceivePart(c, Len(read), peer)
    /\ (WindowSizes => ReopenPart(c, wire.edge)) /\ WirePart /\ PeerPart
=============================================================================
