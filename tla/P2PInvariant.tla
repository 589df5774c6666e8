--------------------------- MODULE P2PInvariant ---------------------------
(***************************************************************************)
(* The inductive invariant of P2PLink, and the predicates its proofs are   *)
(* stated with (P2PLinkProofs.tla).                                        *)
(*                                                                         *)
(* A connection is described against what surrounds it (IsAround): the     *)
(* two streams as the applications wrote them, how far the peer has        *)
(* received and how far it has sent.  Good says of a connection that its   *)
(* sequence numbers, as distances from its initial one, its two buffers    *)
(* and its timers fit those streams; Inv says so of both sides, and of     *)
(* every segment under way that it is a piece of its sender's stream with  *)
(* an acknowledgement of what its sender has received.                     *)
(***************************************************************************)
EXTENDS P2PLink

Half == M \div 2
Nos == 0 .. M - 1
Flags == {"Syn", "Ack", "Fin", "Rst"}
Segs == [seq : Nos, ack : Nos, flags : SUBSET Flags, window : Nat, data : Seq(Nat)]

\* d is a connection that differs from c at most in the fields `changed`.
Fields == DOMAIN NewConnection(0)
Same(c, d, changed) == DOMAIN d = Fields /\ \A f \in Fields \ changed : d[f] = c[f]

One(b) == IF b THEN 1 ELSE 0

\* The sequence numbers of a connection as positions in its stream: 0 is the SYN, 1 the first byte.
Una(c) == SeqSub(c.snd_una, c.iss)
Nxt(c) == SeqSub(c.snd_nxt, c.iss)
Top(c) == SeqSub(c.snd_max, c.iss)
Buf(c) == SeqSub(c.buf_seq, c.iss)
End(c) == Buf(c) + Len(c.send_buf)
\* How far k's connection c has received the peer's stream, and how far c has sent its own.
Pos(k, c) == 1 + k.read + Len(c.recv_buf) + One(c.fin_received)
Horizon(c) == IF c.state = "Closed" THEN M ELSE Top(c)

PeerKnown(c) == c.state \notin {"None", "Listen", "SynSent", "Closed"}
States == {"None", "Listen", "Closed", "SynSent", "SynReceived", "Established", "CloseWait",
           "FinWait1", "FinWait2", "Closing", "LastAck", "TimeWait"}

\* What surrounds a connection: its initial number and the peer's, the bytes its application wrote,
\* how many it read, the bytes the peer's wrote and whether they are all, how far the peer has
\* received, the end of what the peer has sent and whether the peer is gone.
IsAround(k) ==
    /\ k.iss \in Nos /\ k.irs \in Nos /\ k.read \in Nat /\ k.heard \in Nat /\ k.top \in Nos
    /\ k.sent \in Seq(Nat) /\ Len(k.sent) + 2 < Half /\ k.heard <= Len(k.sent) + 2
    /\ k.peer \in Seq(Nat) /\ Len(k.peer) + 2 < Half
    /\ k.ended \in BOOLEAN /\ k.gone \in BOOLEAN
    /\ ~k.gone => SeqSub(k.top, k.irs) < Half

\* A segment of a stream: seq and ack count from iss and irs; the bytes `sent`, ended or not, as far
\* as `horizon`; `pos` has been received of the other stream.
Belongs(iss, irs, sequence, ended, pos, horizon, seg) ==
    /\ seg \in Segs
    /\ "Rst" \notin seg.flags =>
        LET s == SeqSub(seg.seq, iss)
        IN  /\ SegmentLength(seg) > 0 => s < horizon
            /\ "Syn" \in seg.flags => s = 0
            /\ seg.data # <<>> => /\ s >= 1 /\ s + Len(seg.data) <= Len(sequence) + 1
                                  /\ seg.data = SubSeq(sequence, s, s + Len(seg.data) - 1)
            /\ "Fin" \in seg.flags => ended /\ s + Len(seg.data) = Len(sequence) + 1
            /\ "Ack" \in seg.flags => SeqSub(seg.ack, irs) \in 1 .. pos
            /\ "Ack" \notin seg.flags => "Syn" \in seg.flags

Leaves(k, c, seg) ==
    Belongs(k.iss, k.irs, k.sent, c.fin_queued, Pos(k, c), Horizon(c), seg)
Arrives(k, seg) ==
    Belongs(k.irs, k.iss, k.peer, k.ended, k.heard,
            IF k.gone THEN M ELSE SeqSub(k.top, k.irs), seg)
OutOK(k, c) == c.out \in Seq(Segs) /\ \A i \in 1 .. Len(c.out) : Leaves(k, c, c.out[i])

Typed(c) ==
    /\ DOMAIN c = Fields /\ c.state \in States
    /\ c.iss \in Nos /\ c.snd_una \in Nos /\ c.snd_nxt \in Nos /\ c.snd_max \in Nos
    /\ c.buf_seq \in Nos /\ c.send_buf \in Seq(Nat) /\ c.fin_queued \in BOOLEAN
    /\ c.snd_wnd \in Nat /\ c.cwnd \in Nat /\ c.ssthresh \in Nat \ {0} /\ c.retries \in Nat
    /\ c.retransmit \in BOOLEAN /\ c.persist \in BOOLEAN /\ c.delayed_ack \in BOOLEAN
    /\ c.time_wait \in BOOLEAN /\ c.unacked_segments \in Nat
    /\ c.irs \in Nos /\ c.rcv_nxt \in Nos /\ c.rcv_offset \in Nat /\ c.recv_buf \in Seq(Nat)
    /\ c.fin_received \in BOOLEAN

\* What the peer has acknowledged, it has received.
AckOK(k, c) ==
    /\ c.iss = k.iss
    /\ Buf(c) \in 1 .. Len(k.sent) + 1
    /\ Una(c) <= k.heard /\ Una(c) <= Buf(c) + 1 /\ (Buf(c) = 1 \/ Buf(c) <= Una(c))
    /\ Una(c) = Buf(c) + 1 => c.fin_queued /\ Buf(c) = Len(k.sent) + 1

\* What can be read is what comes next of the peer's stream, and the end is its end.
ArrOK(k, c) ==
    /\ k.read + Len(c.recv_buf) <= Len(k.peer)
    /\ c.recv_buf = SubSeq(k.peer, k.read + 1, k.read + Len(c.recv_buf))
    /\ c.fin_received => k.ended /\ k.read + Len(c.recv_buf) = Len(k.peer)

\* The send buffer is what is left of the stream; una, nxt and max are in order.
SndOK(k, c) ==
    /\ End(c) = Len(k.sent) + 1 /\ c.send_buf = SubSeq(k.sent, Buf(c), Len(k.sent))
    /\ Una(c) <= Nxt(c) /\ Nxt(c) <= Top(c) /\ Top(c) <= End(c) + One(c.fin_queued)
    /\ \/ Una(c) = Buf(c)
       \/ Una(c) = Buf(c) + 1
       \/ Una(c) = 0 /\ Top(c) <= 1 /\ Nxt(c) = Top(c) /\ Len(k.sent) = 0 /\ ~c.fin_queued

\* The peer's FIN is still to come.
Accepting(c) == Receiving(c) \/ c.state = "SynReceived"

RcvOK(k, c) ==
    /\ c.rcv_offset = k.read + Len(c.recv_buf)
    /\ PeerKnown(c) => c.irs = k.irs /\ SeqSub(c.rcv_nxt, k.irs) = Pos(k, c)
    /\ ~PeerKnown(c) => c.rcv_offset = 0 /\ ~c.fin_received
    /\ c.fin_received => ~Accepting(c)
    /\ c.peer_fin_seq # NoSeq =>
            k.ended /\ c.peer_fin_seq \in Nos /\ SeqSub(c.peer_fin_seq, k.irs) = Len(k.peer) + 1
    /\ DOMAIN c.out_of_order \in SUBSET Nat /\ IsFiniteSet(DOMAIN c.out_of_order)
    /\ \A o \in DOMAIN c.out_of_order : LET piece == c.out_of_order[o] IN
            /\ piece \in Seq(Nat) /\ o + Len(piece) <= Len(k.peer)
            /\ piece = SubSeq(k.peer, o + 1, o + Len(piece))

NumsOK(c) ==
    /\ c.state \in {"None", "Listen"} => Top(c) = 0
    /\ Handshake(c) => Una(c) = 0 /\ Top(c) = 1
    /\ c.state \in {"FinWait2", "TimeWait"} => Una(c) = Buf(c) + 1
    /\ PeerKnown(c) => c.cwnd > 0
    /\ c.in_recovery => c.recover \in Nos /\ SeqSub(c.recover, c.iss) <= Top(c)
StateOK(c) == NumsOK(c) /\ (PeerKnown(c) /\ ~Handshake(c) => Una(c) >= Buf(c))

Timed(c) == c.snd_una # c.snd_max => c.retransmit
\* Before the peer is known only a SYN can wait for an answer.
Quiet(c) ==
    /\ PeerKnown(c) \/ (~c.persist /\ ~c.delayed_ack)
    /\ c.state \in {"None", "Listen"} => ~c.retransmit
TimOK(c) ==
    /\ Timed(c) /\ Quiet(c)
    /\ (c.state = "TimeWait" => c.time_wait) /\ (c.time_wait => c.state = "TimeWait")

\* An acknowledgement that is owed has a timer.
Owed(c) ==
    /\ c.unacked_segments > 0 => c.delayed_ack
    /\ ~Receiving(c) => c.unacked_segments = 0

CovOK(k, c) ==
    Unsent(c) => c.retransmit \/ c.persist \/ k.gone \/ SeqLt(c.rcv_nxt, k.top)

Good(k, c) ==
    /\ Typed(c) /\ AckOK(k, c) /\ ArrOK(k, c) /\ OutOK(k, c)
    /\ c.state = "Closed" => c.send_buf = <<>>
    /\ c.state # "Closed" => SndOK(k, c) /\ RcvOK(k, c) /\ StateOK(c) /\ TimOK(c) /\ Owed(c) /\ CovOK(k, c)

Around(p) ==
    LET q == Peer(p)
    IN  [iss |-> Iss[p], irs |-> Iss[q], sent |-> sent[p], read |-> Len(read[p]),
         peer |-> sent[q], ended |-> conn[q].fin_queued,
         heard |-> 1 + Len(read[q]) + Len(conn[q].recv_buf) + One(conn[q].fin_received),
         top |-> conn[q].snd_max, gone |-> conn[q].state = "Closed"]

Inv ==
    /\ DOMAIN conn = Sides /\ DOMAIN wire = Sides
    /\ sent \in [Sides -> Seq(Nat)] /\ read \in [Sides -> Seq(Nat)]
    /\ \A p \in Sides :
        /\ Len(sent[p]) <= MaxBytes[p]
        /\ Good(Around(p), conn[p]) /\ conn[p].out = <<>>
        /\ conn[p].state = "Closed" => Armed(conn[p]) = {}
        /\ wire[p] \in Seq(Segs) /\ \A i \in 1 .. Len(wire[p]) : Arrives(Around(p), wire[p][i])
        /\ Len(read[p]) <= Len(sent[Peer(p)]) /\ read[p] = SubSeq(sent[Peer(p)], 1, Len(read[p]))

\* What was sent stays in order when the connection goes on.
Grows(k, c, d) ==
    /\ c.fin_queued => d.fin_queued
    /\ Horizon(c) <= Horizon(d) /\ Pos(k, c) <= Pos(k, d)

\* A connection that knows what to acknowledge.
Acks(k, c) ==
    /\ IsAround(k) /\ Typed(c) /\ OutOK(k, c) /\ c.iss = k.iss
    /\ Nxt(c) <= Top(c) /\ Top(c) <= End(c) + One(c.fin_queued)
    /\ SeqSub(c.rcv_nxt, k.irs) \in 1 .. Pos(k, c)

\* A connection that has something to send from and knows what to acknowledge.
Ready(k, c) ==
    /\ IsAround(k) /\ Typed(c) /\ OutOK(k, c)
    /\ c.iss = k.iss /\ Buf(c) >= 1 /\ c.cwnd > 0
    /\ End(c) = Len(k.sent) + 1 /\ c.send_buf = SubSeq(k.sent, Buf(c), Len(k.sent))
    /\ Buf(c) <= Una(c) /\ Una(c) <= Nxt(c) /\ Nxt(c) <= Top(c)
    /\ Top(c) <= End(c) + One(c.fin_queued)
    /\ SeqSub(c.rcv_nxt, k.irs) \in 1 .. Pos(k, c)

SendFields == {"out", "last_window", "unacked_segments", "delayed_ack",
               "snd_nxt", "snd_max", "retransmit", "persist"}

\* d is c after it has sent something, or nothing.
Sent(k, c, d) ==
    /\ Same(c, d, SendFields) /\ Typed(d) /\ OutOK(k, d)
    /\ Nxt(c) <= Nxt(d) /\ Nxt(d) <= Top(d)
    /\ Top(c) <= Top(d) /\ Top(d) <= End(c) + One(c.fin_queued)
    /\ c.retransmit => d.retransmit
    /\ c.persist => d.persist
    /\ d.snd_max # c.snd_max => d.retransmit
    /\ \/ d.unacked_segments = c.unacked_segments /\ d.delayed_ack = c.delayed_ack
       \/ d.unacked_segments = 0 /\ d.delayed_ack = FALSE

EmitFields == {"out", "last_window", "unacked_segments", "delayed_ack"}

\* The segment EmitSegment makes.
Emitted(c, seq, flags, data) ==
    Segment(seq, IF "Ack" \in flags THEN c.rcv_nxt ELSE 0, flags, ReceiveWindow(c), data)

\* d is c after it has emitted seg, whose flags are `flags`.
Emits(c, d, seg, flags) ==
    /\ Same(c, d, EmitFields) /\ d.out = Append(c.out, seg)
    /\ "Ack" \in flags => d.unacked_segments = 0 /\ d.delayed_ack = FALSE
    /\ "Ack" \notin flags => d.unacked_segments = c.unacked_segments /\ d.delayed_ack = c.delayed_ack

AdvanceFields == {"snd_nxt", "snd_max", "retransmit"}

\* No timer is needed for what is left, or one runs.
Covered(c) == Unsent(c) => c.retransmit \/ c.persist

\* d is c after it sent something that is not new.
Resends(k, c, d) ==
    /\ Sent(k, c, d)
    /\ d.retransmit = c.retransmit /\ d.persist = c.persist
    /\ d.snd_nxt = c.snd_nxt /\ d.snd_max = c.snd_max

\* A connection in the middle of a handler: acknowledgements may be owed and data left without timers.
Core(k, c) ==
    /\ IsAround(k) /\ c.state # "Closed"
    /\ Typed(c) /\ AckOK(k, c) /\ ArrOK(k, c) /\ OutOK(k, c)
    /\ SndOK(k, c) /\ RcvOK(k, c) /\ StateOK(c) /\ TimOK(c)

\* What a handler never takes back.
Later(k, c, d) ==
    /\ d.iss = c.iss /\ d.fin_queued = c.fin_queued /\ Horizon(c) <= Horizon(d)
    /\ Pos(k, c) <= Pos(k, d) /\ Len(c.recv_buf) <= Len(d.recv_buf)
    /\ c.fin_received => d.fin_received
    /\ Buf(c) <= Buf(d)
    /\ Una(c) = Buf(c) + 1 => Una(d) = Buf(d) + 1

\* The fields that neither stream depends on.
SideFields == {"state", "error", "snd_wnd", "snd_wl1", "snd_wl2", "cwnd", "ssthresh", "dupacks",
               "in_recovery", "recover", "retries", "retransmit", "persist", "delayed_ack",
               "time_wait", "unacked_segments", "last_window"}

SideTyped(c) ==
    /\ c.state \in States
    /\ c.snd_wnd \in Nat /\ c.cwnd \in Nat /\ c.ssthresh \in Nat \ {0} /\ c.retries \in Nat
    /\ c.retransmit \in BOOLEAN /\ c.persist \in BOOLEAN /\ c.delayed_ack \in BOOLEAN
    /\ c.time_wait \in BOOLEAN /\ c.unacked_segments \in Nat

\* Core, but for the SYN: it may not be marked as acknowledged yet.
Core0(k, c) ==
    /\ IsAround(k) /\ c.state # "Closed"
    /\ Typed(c) /\ AckOK(k, c) /\ ArrOK(k, c) /\ OutOK(k, c)
    /\ SndOK(k, c) /\ RcvOK(k, c) /\ NumsOK(c) /\ TimOK(c)

WindowFields == {"snd_wnd", "snd_wl1", "snd_wl2", "persist"}

AckedBytes(c, ack) ==
    IF SeqLt(c.buf_seq, ack) THEN Least(SeqSub(ack, c.buf_seq), Len(c.send_buf)) ELSE 0

\* What OnNewAck takes from the send buffer, before it looks at the congestion window.
Taken(c, ack) ==
    [c EXCEPT !.send_buf = SubSeq(@, AckedBytes(c, ack) + 1, Len(@)),
              !.buf_seq = (@ + AckedBytes(c, ack)) % M, !.snd_una = ack,
              !.snd_nxt = IF SeqLt(@, ack) THEN ack ELSE @, !.retries = 0]

TakenFields == {"send_buf", "buf_seq", "snd_una", "snd_nxt", "retries"}

\* The peer has received what it acknowledges, and it was sent and not acknowledged before.
NewAck(k, c, ack) ==
    /\ ack \in Nos /\ SeqSub(ack, k.iss) \in 1 .. k.heard
    /\ Una(c) < SeqSub(ack, c.iss) /\ SeqSub(ack, c.iss) <= Top(c)

\* d is c with an acknowledgement taken into account: nothing was received.
Acked(k, c, d) ==
    /\ Core(k, d) /\ Later(k, c, d) /\ d.state = c.state /\ d.rcv_nxt = c.rcv_nxt
    /\ Owed(c) => Owed(d)

CongestionFields == {"cwnd", "ssthresh", "dupacks", "in_recovery", "recover", "retries"}

\* The congestion window after a new acknowledgement.
NextCwnd(c, ack) ==
    LET acked == SeqSub(ack, c.snd_una)
        partial == c.in_recovery /\ SeqLt(ack, c.recover)
    IN  CASE partial -> IF c.cwnd > acked THEN c.cwnd - acked + Mss ELSE Mss
          [] c.in_recovery /\ ~partial -> c.ssthresh
          [] ~c.in_recovery /\ c.cwnd < c.ssthresh -> c.cwnd + Least(acked, Mss)
          [] OTHER -> c.cwnd + Greatest(1, (Mss * Mss) \div Greatest(c.cwnd, 1))

PartialAck(c, ack) == c.in_recovery /\ SeqLt(ack, c.recover)
Answered(c, ack) == IF PartialAck(c, ack) THEN RetransmitFirst(Taken(c, ack)) ELSE Taken(c, ack)

OpenedFields == {"in_recovery", "cwnd", "dupacks", "retransmit"}

\* d is c with the congestion window of an acknowledgement and its timer.
Opens(c, d, partial, cwnd, running) ==
    /\ Same(c, d, OpenedFields) /\ Same(c, d, SideFields)
    /\ d.in_recovery = partial /\ d.cwnd = cwnd /\ d.retransmit = running

\* d is c with the loss of its first segment noted.
NotesLoss(c, d, s) ==
    /\ Same(c, d, CongestionFields) /\ d.cwnd = c.cwnd /\ d.ssthresh = s
    /\ d.retries = c.retries /\ d.recover = c.snd_max /\ d.snd_una = c.snd_una
    /\ d.snd_max = c.snd_max

EndFields == SideFields \cup {"send_buf", "out_of_order"}

\* What holds of a connection at all times, closed or not.
Base(k, c) == IsAround(k) /\ Typed(c) /\ AckOK(k, c) /\ ArrOK(k, c) /\ OutOK(k, c)

TimerFields == {"retransmit", "persist", "delayed_ack", "time_wait"}

\* d is c with an acknowledgement taken into account, which may have ended the sending of c.
Went(k, c, d) ==
    /\ Core(k, d) /\ Later(k, c, d) /\ d.rcv_nxt = c.rcv_nxt
    /\ Owed(c) => Owed(d)
    /\ PeerKnown(d) /\ ~Handshake(d) /\ d.state # "TimeWait"

\* A segment that acknowledges, and acknowledges something that was sent.
AcksSent(k, c, seg) ==
    /\ Arrives(k, seg) /\ "Rst" \notin seg.flags /\ "Ack" \in seg.flags /\ ~AcksUnsent(c, seg)

\* ProcessAck before it looks at the state of the connection.
AckTaken(c, seg) ==
    LET duplicate == /\ seg.ack = c.snd_una /\ seg.data = <<>> /\ "Fin" \notin seg.flags
                     /\ seg.window = c.snd_wnd /\ c.snd_max # c.snd_una
        acked == CASE SeqLt(c.snd_una, seg.ack) -> OnNewAck(c, seg.ack)
                   [] duplicate -> OnDuplicateAck(c)
                   [] OTHER -> c
    IN  UpdateWindow(acked, seg)

ReceiveFields == {"recv_buf", "rcv_nxt", "rcv_offset", "out_of_order", "peer_fin_seq",
                  "fin_received", "unacked_segments"}

ReceiveTyped(d) ==
    /\ d.recv_buf \in Seq(Nat) /\ d.rcv_nxt \in Nos /\ d.rcv_offset \in Nat
    /\ d.fin_received \in BOOLEAN /\ d.unacked_segments \in Nat

\* d is c with data received.
Receives(c, d, data) ==
    /\ Same(c, d, {"recv_buf", "rcv_nxt", "rcv_offset"})
    /\ d.recv_buf = c.recv_buf \o data /\ d.rcv_nxt = (c.rcv_nxt + Len(data)) % M
    /\ d.rcv_offset = c.rcv_offset + Len(data)

\* x is what comes next in the sequence s after o elements.
Continues(s, o, x) ==
    x \in Seq(Nat) /\ o + Len(x) <= Len(s) /\ x = SubSeq(s, o + 1, o + Len(x))

\* d is c with more of the peer's stream received, or a piece of it kept.
Kept(k, c, d) ==
    /\ Core(k, d) /\ Later(k, c, d) /\ d.state = c.state /\ d.fin_received = c.fin_received
    /\ d.unacked_segments = c.unacked_segments /\ d.delayed_ack = c.delayed_ack

\* Pieces of the peer's stream, by their offsets.
PiecesOK(k, pieces) ==
    /\ DOMAIN pieces \in SUBSET Nat /\ IsFiniteSet(DOMAIN pieces)
    /\ \A o \in DOMAIN pieces : LET piece == pieces[o] IN
            /\ piece \in Seq(Nat) /\ o + Len(piece) <= Len(k.peer)
            /\ piece = SubSeq(k.peer, o + 1, o + Len(piece))

\* The end of the peer's stream, or no end yet.
FinKnown(k, s) ==
    s # NoSeq => k.ended /\ s \in Nos /\ SeqSub(s, k.irs) = Len(k.peer) + 1

\* The data of a segment, as a piece of the peer's stream.
HasData(k, seg) ==
    LET s == SeqSub(seg.seq, k.irs)
    IN  /\ s \in Nat \ {0} /\ seg.data \in Seq(Nat) /\ s + Len(seg.data) <= Len(k.peer) + 1
        /\ seg.data = SubSeq(k.peer, s, s + Len(seg.data) - 1)

\* The skip and the end of InWindow.
InWindowSkip(c, seg) ==
    IF SeqLt(seg.seq, c.rcv_nxt) THEN SeqSub(c.rcv_nxt, seg.seq) ELSE 0
InWindowEnd(c, seg) ==
    LET ahead == IF SeqLt(seg.seq, c.rcv_nxt) THEN 0 ELSE SeqSub(seg.seq, c.rcv_nxt)
        room == Greatest(ReceiveWindow(c) - ahead, 0)
    IN  Least(Len(seg.data), InWindowSkip(c, seg) + room)

TakesFin(c, d) ==
    /\ Same(c, d, {"rcv_nxt", "fin_received"})
    /\ d.rcv_nxt = (c.rcv_nxt + 1) % M /\ d.fin_received = TRUE

\* The two fields that say what acknowledgement is owed decide nothing else.
AckFields == {"unacked_segments", "delayed_ack"}

Arms(c, d) ==
    /\ Same(c, d, AckFields) /\ d.unacked_segments = c.unacked_segments
    /\ d.delayed_ack = (c.delayed_ack \/ c.unacked_segments > 0)

\* d is as good as c, but for the acknowledgement it may owe.
Moved(k, c, d) == Core(k, d) /\ Later(k, c, d) /\ PeerKnown(d) /\ ~Handshake(d)

\* What ProcessData makes of the data, before it looks at the FIN.
Seen(c, seg) ==
    IF "Fin" \in seg.flags
    THEN [c EXCEPT !.peer_fin_seq = (seg.seq + Len(seg.data)) % M] ELSE c
Got(c, seg) ==
    LET data == InWindow(c, seg)
        in_order == SeqLe(seg.seq, c.rcv_nxt)
        offset == c.rcv_offset + SeqSub(seg.seq, c.rcv_nxt)
    IN  CASE data = <<>> -> Seen(c, seg)
          [] data # <<>> /\ in_order ->
                [PullOutOfOrder(Receive(Seen(c, seg), data)) EXCEPT !.unacked_segments = @ + 1]
          [] OTHER -> Store(Seen(c, seg), offset, data)
TakesEnd(c) == c.peer_fin_seq = c.rcv_nxt /\ ~c.fin_received

StartFields == {"state", "snd_una", "snd_nxt", "snd_max", "retransmit", "retries", "irs", "rcv_nxt",
                "cwnd", "snd_wnd", "snd_wl1", "snd_wl2"}

\* What a connection is once it has sent its SYN or answered one.
Started(k, d) ==
    /\ d.state \in {"SynSent", "SynReceived", "Established"}
    /\ d.snd_una \in Nos /\ d.snd_nxt \in Nos /\ d.snd_max \in Nos
    /\ Nxt(d) = 1 /\ Top(d) = 1
    /\ d.state = "Established" => Una(d) = 1 /\ 1 <= k.heard
    /\ d.state # "Established" => Una(d) = 0 /\ d.retransmit
    /\ d.retransmit \in BOOLEAN /\ d.retries \in Nat /\ d.cwnd \in Nat /\ d.snd_wnd \in Nat
    /\ d.irs \in Nos /\ d.rcv_nxt \in Nos
    /\ d.state # "SynSent" => d.irs = k.irs /\ SeqSub(d.rcv_nxt, k.irs) = 1 /\ d.cwnd > 0

FirstCwnd == Least(Least(4 * Mss, Greatest(2 * Mss, 4380)), CwndCap)

\* What d takes from the peer's SYN.
TakesSyn(d, syn) ==
    /\ d.irs = syn.seq /\ d.rcv_nxt = (syn.seq + 1) % M /\ d.cwnd = FirstCwnd
    /\ d.snd_wnd = syn.window

Fine(k, c, d) == Good(k, d) /\ Later(k, c, d)

Ends(c, d) ==
    /\ Same(c, d, EndFields) /\ d.state = "Closed" /\ d.send_buf = <<>>
    /\ d.snd_wnd = c.snd_wnd /\ d.cwnd = c.cwnd /\ d.ssthresh = c.ssthresh
    /\ d.retries = c.retries /\ d.unacked_segments = c.unacked_segments
    /\ d.retransmit = FALSE /\ d.persist = FALSE /\ d.delayed_ack = FALSE /\ d.time_wait = FALSE

\* The numbers of a connection that starts.
Starts(c, d, s, una, next, running) ==
    /\ Same(c, d, StartFields) /\ d.state = s /\ d.snd_una = una
    /\ d.snd_nxt = next /\ d.snd_max = next /\ d.retransmit = running

\* The fields the peer's SYN sets.
SynFields == {"irs", "rcv_nxt", "cwnd", "snd_wnd", "snd_wl1", "snd_wl2"}
Sets(c, d, irs, rcv, cwnd, wnd) ==
    Same(c, d, SynFields) /\ d.irs = irs /\ d.rcv_nxt = rcv /\ d.cwnd = cwnd /\ d.snd_wnd = wnd

\* The numbers a connection starts with, on top of what the SYN set.
Numbers(c, d, s, una, next, running, retries) ==
    /\ Same(c, d, {"state", "snd_una", "snd_nxt", "snd_max", "retransmit", "retries"})
    /\ d.state = s /\ d.snd_una = una /\ d.snd_nxt = next /\ d.snd_max = next
    /\ d.retransmit = running /\ d.retries = retries

Establishes(c, d, seg) ==
    /\ Same(c, d, {"state", "snd_wnd", "snd_wl1", "snd_wl2"})
    /\ d.state = "Established" /\ d.snd_wnd = seg.window

\* The fields a timeout sets before it sends again.
Backs(c, d, ssthresh) ==
    /\ Same(c, d, CongestionFields) /\ d.cwnd = Mss /\ d.ssthresh = ssthresh
    /\ d.retries = c.retries + 1 /\ d.in_recovery = FALSE /\ d.snd_una = c.snd_una

Rewound(b, d, n) == Same(b, d, {"snd_nxt"}) /\ d.snd_nxt = n
Backed(c, s) ==
    [c EXCEPT !.retries = @ + 1, !.ssthresh = s, !.cwnd = Mss, !.in_recovery = FALSE, !.dupacks = 0]
Back(c, s) ==
    LET again == [c EXCEPT !.retries = @ + 1]
    IN  [again EXCEPT !.ssthresh = s, !.cwnd = Mss,
                      !.in_recovery = FALSE, !.dupacks = 0, !.snd_nxt = c.snd_una]

Threshold(c) == Greatest(SeqSub(c.snd_max, c.snd_una) \div 2, 2 * Mss)

Queues(b, d) == Same(b, d, {"fin_queued"}) /\ d.fin_queued

\* The application ends its stream and changes nothing else that the peer or the reader can tell.
Ended(c, d) ==
    /\ ~c.fin_queued /\ d.fin_queued /\ c.state # "Closed" /\ d.state # "Closed" /\ d.iss = c.iss
    /\ Top(c) <= Top(d) /\ d.snd_una = c.snd_una /\ d.buf_seq = c.buf_seq
    /\ d.recv_buf = c.recv_buf /\ d.fin_received = c.fin_received

Writes(k, w, byte) ==
    /\ w.iss = k.iss /\ w.irs = k.irs /\ w.read = k.read /\ w.heard = k.heard /\ w.top = k.top
    /\ w.sent = Append(k.sent, byte) /\ w.peer = k.peer /\ w.ended = k.ended /\ w.gone = k.gone

\* d knows of the two streams what c knows, the bytes it can read apart.
Standing(c, d) ==
    /\ d.iss = c.iss /\ d.snd_una = c.snd_una /\ d.buf_seq = c.buf_seq
    /\ d.fin_queued = c.fin_queued /\ d.fin_received = c.fin_received

Reads(k, w, n) ==
    /\ w.iss = k.iss /\ w.irs = k.irs /\ w.read = k.read + n /\ w.heard = k.heard
    /\ w.top = k.top /\ w.sent = k.sent /\ w.peer = k.peer /\ w.ended = k.ended /\ w.gone = k.gone

\* What a handler does to the streams of the side it runs at: nothing is taken back.
Onward(k, c, w, d) ==
    /\ d.iss = c.iss /\ (c.fin_queued => d.fin_queued) /\ Horizon(c) <= Horizon(d)
    /\ Pos(k, c) <= Pos(w, d)
    /\ k.read + Len(c.recv_buf) <= w.read + Len(d.recv_buf)
    /\ c.fin_received => d.fin_received
    /\ Buf(c) <= Buf(d)
    /\ Una(c) = Buf(c) + 1 => Una(d) = Buf(d) + 1

Leftover(c, d) ==
    /\ DOMAIN d = Fields /\ d.state = "Closed" /\ d.iss = c.iss /\ d.out = <<>>
    /\ d.snd_una = c.snd_una /\ d.buf_seq = c.buf_seq /\ d.send_buf = c.send_buf
    /\ d.recv_buf = c.recv_buf /\ d.fin_queued = c.fin_queued /\ d.fin_received = c.fin_received
    /\ d.snd_nxt = c.iss /\ d.snd_max = c.iss /\ d.snd_wnd = 0 /\ d.cwnd = 0
    /\ d.ssthresh = CwndCap /\ d.retries = 0 /\ d.unacked_segments = 0
    /\ d.irs = 0 /\ d.rcv_nxt = 0 /\ d.rcv_offset = 0

\* How far the peer has sent, of its whole stream if it is gone.
Reach(k) == IF k.gone THEN M ELSE SeqSub(k.top, k.irs)

Grown(k, w) ==
    /\ w.iss = k.iss /\ w.irs = k.irs /\ w.sent = k.sent /\ w.read = k.read
    /\ w.peer = k.peer \/ (~k.ended /\ \E byte \in Nat : w.peer = Append(k.peer, byte))
    /\ k.ended => w.ended
    /\ k.heard <= w.heard /\ Reach(k) <= Reach(w)

AllArrive(k, s) == s \in Seq(Segs) /\ \A i \in 1 .. Len(s) : Arrives(k, s[i])

Mirror(w, c, x) ==
    /\ x.iss = w.irs /\ x.irs = w.iss /\ x.sent = w.peer /\ x.peer = w.sent
    /\ x.heard = Pos(w, c) /\ x.ended = c.fin_queued /\ x.gone = (c.state = "Closed")
    /\ x.top \in Nos /\ (c.state # "Closed" => x.top = c.snd_max)
    /\ x.read \in Nat

\* What the application did to the streams that p writes and reads.
Streamed(p) ==
    /\ sent' \in [Sides -> Seq(Nat)] /\ read' \in [Sides -> Seq(Nat)]
    /\ sent'[Peer(p)] = sent[Peer(p)] /\ read'[Peer(p)] = read[Peer(p)]
    /\ Len(sent'[p]) <= MaxBytes[p]
    /\ \/ sent'[p] = sent[p]
       \/ ~conn[p].fin_queued /\ \E byte \in Nat : sent'[p] = Append(sent[p], byte)
    /\ Len(read'[p]) <= Len(sent[Peer(p)])
    /\ read'[p] = SubSeq(sent[Peer(p)], 1, Len(read'[p]))

\* What steps at p do to the two streams: a handler hears of them, the application ends its own,
\* writes, reads, or nothing happens to either.
Heard(p) ==
    /\ UNCHANGED <<sent, read>> /\ conn'[Peer(p)] = conn[Peer(p)]
    /\ Later(Around(p), conn[p], conn'[p])
Finishes(p) ==
    /\ UNCHANGED <<sent, read>> /\ conn'[Peer(p)] = conn[Peer(p)]
    /\ Ended(conn[p], conn'[p])
Adds(p) ==
    /\ sent' = [sent EXCEPT ![p] = Append(@, Len(sent[p]) + 1)] /\ read' = read
    /\ Len(sent[p]) < MaxBytes[p] /\ ~conn[p].fin_queued /\ conn'[Peer(p)] = conn[Peer(p)]
    /\ Standing(conn[p], conn'[p]) /\ conn'[p].recv_buf = conn[p].recv_buf
Takes(p) ==
    /\ sent' = sent /\ read'[Peer(p)] = read[Peer(p)] /\ conn'[Peer(p)] = conn[Peer(p)]
    /\ Standing(conn[p], conn'[p])
    /\ Len(read[p]) + Len(conn[p].recv_buf) = Len(read'[p]) + Len(conn'[p].recv_buf)

-----------------------------------------------------------------------------
(* The initial state. *)

Fresh(c, iss, state) ==
    /\ DOMAIN c = Fields /\ c.state = state /\ c.iss = iss
    /\ c.snd_una = iss /\ c.snd_nxt = iss /\ c.snd_max = iss /\ c.buf_seq = (iss + 1) % M
    /\ c.snd_wnd = 0 /\ c.send_buf = <<>> /\ c.cwnd = 0 /\ c.ssthresh = CwndCap
    /\ c.retries = 0 /\ c.irs = 0 /\ c.rcv_nxt = 0 /\ c.rcv_offset = 0 /\ c.recv_buf = <<>>
    /\ c.out_of_order = <<>> /\ c.peer_fin_seq = NoSeq
    /\ c.unacked_segments = 0 /\ c.out = <<>>

Still(c) ==
    /\ ~c.fin_queued /\ ~c.fin_received /\ ~c.in_recovery
    /\ ~c.retransmit /\ ~c.persist /\ ~c.delayed_ack /\ ~c.time_wait
    /\ c.fin_queued \in BOOLEAN /\ c.fin_received \in BOOLEAN
    /\ c.retransmit \in BOOLEAN /\ c.persist \in BOOLEAN
    /\ c.delayed_ack \in BOOLEAN /\ c.time_wait \in BOOLEAN

-----------------------------------------------------------------------------
(* The two streams as ByteStreams sees them. *)

Shut == {p \in Sides : conn[p].fin_queued}
Come == [p \in Sides |-> read[Peer(p)] \o conn[Peer(p)].recv_buf]
Over == {p \in Sides : conn[Peer(p)].fin_received}
Told == [p \in Sides |-> SeqSub(conn[p].buf_seq, Iss[p] + 1)]
Sure == {p \in Sides : FinAcked(conn[p])}

\* How many bytes of p's stream have arrived, and how many p knows to have arrived.
Came(p) == Len(read[Peer(p)]) + Len(conn[Peer(p)].recv_buf)
Knows(p) == Buf(conn[p]) - 1

View(p) ==
    /\ sent[p] \in Seq(Nat) /\ Came(p) \in Nat /\ Knows(p) \in Nat /\ Len(sent[p]) \in Nat
    /\ Came(p) <= Len(sent[p]) /\ Knows(p) <= Came(p)
    /\ Come[p] = SubSeq(sent[p], 1, Came(p)) /\ Len(Come[p]) = Came(p)
    /\ p \in Over => p \in Shut /\ Came(p) = Len(sent[p])
    /\ Told[p] = Knows(p) /\ Buf(conn[p]) = Knows(p) + 1
    /\ p \in Sure <=> Una(conn[p]) = Buf(conn[p]) + 1
    /\ p \in Sure => p \in Over /\ Knows(p) = Len(sent[p])

Views == \A p \in Sides : View(p)

\* What p's connection knows and how far it has received stand.
Stands(p) ==
    /\ conn'[Peer(p)] = conn[Peer(p)] /\ read'[Peer(p)] = read[Peer(p)]
    /\ Buf(conn'[p]) = Buf(conn[p]) /\ Una(conn'[p]) = Una(conn[p])
    /\ conn'[p].fin_received = conn[p].fin_received
    /\ Len(read'[p]) + Len(conn'[p].recv_buf) = Len(read[p]) + Len(conn[p].recv_buf)

=============================================================================
