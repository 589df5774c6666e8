------------------------------- MODULE P2PTcp -------------------------------
(***************************************************************************)
(* One TCP connection of the peer-to-peer transport (core/net/p2p_tcp.cpp) *)
(* as a record, and its handlers as operators from a connection to the     *)
(* connection they leave.  The segments a handler emits collect in the     *)
(* field `out`.                                                            *)
(*                                                                         *)
(* Sequence numbers are numbers modulo M (2^32 in the code) and every      *)
(* comparison is the code's signed difference, so a connection may start   *)
(* just below the wrap.  A deadline is the Boolean "armed": which armed    *)
(* deadlines have passed is the choice of the caller of OnTimer, and the   *)
(* round-trip estimate, which only computes durations, is left out.  Both  *)
(* ends offer the same maximum segment size, so snd_mss_ is Mss from the   *)
(* start.  The push flag, checksums and ports decide nothing here.         *)
(***************************************************************************)
EXTENDS Integers, Sequences, FiniteSets
LOCAL INSTANCE FiniteSetsExt

CONSTANTS
    M,              \* sequence numbers wrap at M
    RecvBuffer, SendBuffer, Mss,
    CwndCap,        \* bound: where the congestion window saturates (1 << 30)
    SynRetries, DataRetries

ASSUME SequenceAssumption == M \in Nat /\ M % 2 = 0 /\ 2 * (SendBuffer + RecvBuffer + 2) <= M
ASSUME SizeAssumption ==
    /\ {RecvBuffer, SendBuffer, Mss, CwndCap} \subseteq Nat \ {0}
    /\ {SynRetries, DataRetries} \subseteq Nat

NoSeq == M          \* no FIN of the peer seen

SeqSub(a, b) == (a - b) % M
SeqLt(a, b) == SeqSub(a, b) >= M \div 2
SeqLe(a, b) == a = b \/ SeqLt(a, b)

Least(a, b) == IF a < b THEN a ELSE b
Greatest(a, b) == IF a < b THEN b ELSE a

-----------------------------------------------------------------------------
(* Segments and what a connection knows of itself. *)

Segment(seq, ack, flags, window, data) ==
    [seq |-> seq % M, ack |-> ack, flags |-> flags, window |-> window, data |-> data]

\* The sequence numbers a segment occupies.
SegmentLength(seg) == Len(seg.data) + Cardinality(seg.flags \cap {"Syn", "Fin"})

\* A bare SYN, which opens a connection or is a SYN sent again.
BareSyn(seg) == seg.flags \cap {"Syn", "Ack", "Rst"} = {"Syn"}

\* The reply of a host that has no connection for the segment.
ResetFor(seg) ==
    IF "Rst" \in seg.flags THEN <<>>
    ELSE IF "Ack" \in seg.flags THEN <<Segment(seg.ack, 0, {"Rst"}, 0, <<>>)>>
    ELSE <<Segment(0, (seg.seq + SegmentLength(seg)) % M, {"Rst", "Ack"}, 0, <<>>)>>

NewConnection(iss) ==
    [state |-> "Closed", error |-> "Ok", iss |-> iss,
     snd_una |-> iss, snd_nxt |-> iss, snd_max |-> iss, buf_seq |-> (iss + 1) % M,
     snd_wnd |-> 0, snd_wl1 |-> 0, snd_wl2 |-> 0, send_buf |-> <<>>, fin_queued |-> FALSE,
     cwnd |-> 0, ssthresh |-> CwndCap, dupacks |-> 0, in_recovery |-> FALSE, recover |-> 0,
     retries |-> 0, retransmit |-> FALSE, persist |-> FALSE, delayed_ack |-> FALSE,
     time_wait |-> FALSE, irs |-> 0, rcv_nxt |-> 0, rcv_offset |-> 0, recv_buf |-> <<>>,
     out_of_order |-> <<>>, peer_fin_seq |-> NoSeq, fin_received |-> FALSE,
     unacked_segments |-> 0, last_window |-> 0, out |-> <<>>]

Synchronized(c) == c.state \notin {"Closed", "SynSent", "SynReceived"}
Handshake(c) == c.state \in {"SynSent", "SynReceived"}
Sending(c) == c.state \in {"Established", "CloseWait", "FinWait1", "Closing", "LastAck"}
Receiving(c) == c.state \in {"Established", "FinWait1", "FinWait2"}

ReceiveWindow(c) == RecvBuffer - Least(Len(c.recv_buf), RecvBuffer)
SendSpace(c) == SendBuffer - Least(Len(c.send_buf), SendBuffer)
FinSeq(c) == (c.buf_seq + Len(c.send_buf)) % M
FinSent(c) == c.fin_queued /\ SeqLt(FinSeq(c), c.snd_max)
\* Mutant: the ACK of all data passes for the ACK of the FIN.
FinAckedEarly(c) == c.fin_queued /\ SeqLe(FinSeq(c), c.snd_una)
FinAcked(c) == c.fin_queued /\ SeqLt(FinSeq(c), c.snd_una)

ClearTimers(c) ==
    [c EXCEPT !.retransmit = FALSE, !.persist = FALSE, !.delayed_ack = FALSE, !.time_wait = FALSE]
Terminate(c, error) ==
    [ClearTimers(c) EXCEPT !.state = "Closed", !.error = error,
                           !.send_buf = <<>>, !.out_of_order = <<>>]
\* Mutant: the deadline is set before the timers are cleared.
EnterTimeWaitUntimed(c) == ClearTimers([c EXCEPT !.state = "TimeWait", !.time_wait = TRUE])
EnterTimeWait(c) == [ClearTimers(c) EXCEPT !.state = "TimeWait", !.time_wait = TRUE]

-----------------------------------------------------------------------------
(* Sending. *)

\* Every segment with an ACK is the acknowledgement that was owed.
EmitSegment(c, seq, flags, data) ==
    LET window == ReceiveWindow(c)
        ack == IF "Ack" \in flags THEN c.rcv_nxt ELSE 0
        sent == [c EXCEPT !.out = Append(@, Segment(seq, ack, flags, window, data))]
    IN  IF "Ack" \in flags
        THEN [sent EXCEPT !.last_window = window, !.unacked_segments = 0, !.delayed_ack = FALSE]
        ELSE sent

SendAck(c) == EmitSegment(c, c.snd_max, {"Ack"}, <<>>)
EmitReset(c, seq) == [c EXCEPT !.out = Append(@, Segment(seq, 0, {"Rst"}, 0, <<>>))]
EmitFin(c, seq) == EmitSegment(c, seq, {"Fin", "Ack"}, <<>>)

SendData(c, seq, len) ==
    LET offset == SeqSub(seq, c.buf_seq)
    IN  EmitSegment(c, seq, {"Ack"}, SubSeq(c.send_buf, offset + 1, offset + len))

\* The bytes of send_buf from the sequence number seq on.
Buffered(c, seq) == Greatest(Len(c.send_buf) - SeqSub(seq, c.buf_seq), 0)

\* Mutant: the retransmission timer is not started.
AdvanceUntimed(c, len) ==
    LET next == (c.snd_nxt + len) % M
    IN  [c EXCEPT !.snd_nxt = next, !.snd_max = IF SeqLt(@, next) THEN next ELSE @]

\* snd_nxt passes len numbers; snd_max follows; the retransmission timer runs.
Advance(c, len) ==
    LET next == (c.snd_nxt + len) % M
    IN  [c EXCEPT !.snd_nxt = next, !.snd_max = IF SeqLt(@, next) THEN next ELSE @,
                  !.retransmit = TRUE]

\* One round of the loop of TrySend; where the loop returns, the same connection.
SendOnce(c) ==
    LET available == Buffered(c, c.snd_nxt)
        flight == SeqSub(c.snd_nxt, c.snd_una)
        usable == Greatest(Least(c.snd_wnd, c.cwnd) - flight, 0)
        len == Least(Least(available, usable), Mss)
    IN  CASE FinSent(c) /\ c.snd_nxt = (FinSeq(c) + 1) % M -> c
          [] len > 0 -> Advance(SendData(c, c.snd_nxt, len), len)
          [] available = 0 /\ c.fin_queued /\ c.snd_nxt = FinSeq(c) ->
                Advance(EmitFin(c, c.snd_nxt), 1)
          [] available > 0 /\ c.snd_wnd = 0 /\ c.snd_max = c.snd_una -> [c EXCEPT !.persist = TRUE]
          [] OTHER -> c

TrySend(c) ==
    LET rounds == Len(c.send_buf) + 1
        sent[n \in 0 .. rounds] == IF n = 0 THEN c ELSE SendOnce(sent[n - 1])
    IN  IF Sending(c) THEN sent[rounds] ELSE c

RetransmitFirst(c) ==
    LET len == Least(Buffered(c, c.snd_una), Mss)
    IN  CASE len > 0 -> SendData(c, c.snd_una, len)
          [] len = 0 /\ FinSent(c) -> EmitFin(c, FinSeq(c))
          [] OTHER -> c

-----------------------------------------------------------------------------
(* Opening. *)

Connect(c) ==
    LET next == (c.iss + 1) % M
    IN  EmitSegment([c EXCEPT !.state = "SynSent", !.snd_nxt = next, !.snd_max = next,
                              !.retransmit = TRUE],
                    c.iss, {"Syn"}, <<>>)

\* What both ends of the handshake take from the peer's SYN.
TakeSyn(c, syn, wl2) ==
    [c EXCEPT !.irs = syn.seq, !.rcv_nxt = (syn.seq + 1) % M,
              !.cwnd = Least(Least(4 * Mss, Greatest(2 * Mss, 4380)), CwndCap),
              !.snd_wnd = syn.window, !.snd_wl1 = syn.seq, !.snd_wl2 = wl2]

AcceptSyn(c, syn) ==
    LET next == (c.iss + 1) % M
    IN  EmitSegment([TakeSyn(c, syn, c.iss) EXCEPT !.state = "SynReceived", !.snd_nxt = next,
                                                   !.snd_max = next, !.retransmit = TRUE],
                    c.iss, {"Syn", "Ack"}, <<>>)

HandleSynSent(c, seg) ==
    LET ack_ok == SeqLt(c.iss, seg.ack) /\ SeqLe(seg.ack, c.snd_max)
        opened == TakeSyn(c, seg, seg.ack)
    IN  CASE "Ack" \in seg.flags /\ ~ack_ok /\ "Rst" \notin seg.flags -> EmitReset(c, seg.ack)
          [] "Ack" \in seg.flags /\ ack_ok /\ "Rst" \in seg.flags -> Terminate(c, "ConnRefused")
          [] "Ack" \in seg.flags /\ ack_ok /\ seg.flags \cap {"Rst", "Syn"} = {"Syn"} ->
                TrySend(SendAck([opened EXCEPT !.snd_una = seg.ack, !.retries = 0,
                                               !.retransmit = FALSE, !.state = "Established"]))
          [] BareSyn(seg) ->
                EmitSegment([opened EXCEPT !.state = "SynReceived"], c.iss, {"Syn", "Ack"}, <<>>)
          [] OTHER -> c

-----------------------------------------------------------------------------
(* Acknowledgements. *)

OnNewAck(c, ack) ==
    LET acked == SeqSub(ack, c.snd_una)
        data_acked == IF SeqLt(c.buf_seq, ack) THEN Least(SeqSub(ack, c.buf_seq), Len(c.send_buf))
                                               ELSE 0
        taken == [c EXCEPT !.send_buf = SubSeq(@, data_acked + 1, Len(@)),
                           !.buf_seq = (@ + data_acked) % M, !.snd_una = ack,
                           !.snd_nxt = IF SeqLt(@, ack) THEN ack ELSE @, !.retries = 0]
        partial == c.in_recovery /\ SeqLt(ack, c.recover)
        answered == IF partial THEN RetransmitFirst(taken) ELSE taken
        cwnd == CASE partial -> IF c.cwnd > acked THEN c.cwnd - acked + Mss ELSE Mss
                  [] c.in_recovery /\ ~partial -> c.ssthresh
                  [] ~c.in_recovery /\ c.cwnd < c.ssthresh -> c.cwnd + Least(acked, Mss)
                  [] OTHER -> c.cwnd + Greatest(1, (Mss * Mss) \div Greatest(c.cwnd, 1))
    IN  [answered EXCEPT !.in_recovery = partial, !.cwnd = Least(cwnd, CwndCap), !.dupacks = 0,
                         !.retransmit = ack # c.snd_max]

OnDuplicateAck(c) ==
    LET flight == SeqSub(c.snd_max, c.snd_una)
        threshold == Greatest(flight \div 2, 2 * Mss)
        lost == RetransmitFirst([c EXCEPT !.dupacks = 3, !.recover = c.snd_max, !.in_recovery = TRUE,
                                          !.ssthresh = Least(threshold, CwndCap)])
    IN  CASE c.in_recovery -> [c EXCEPT !.cwnd = Least(@ + Mss, CwndCap)]
          [] ~c.in_recovery /\ c.dupacks + 1 # 3 -> [c EXCEPT !.dupacks = @ + 1]
          [] OTHER -> [lost EXCEPT !.cwnd = Least(threshold + 3 * Mss, CwndCap)]

AcksUnsent(c, seg) == SeqLt(c.snd_max, seg.ack)

\* A segment not older than the last one that updated the send window updates it.
UpdateWindow(c, seg) ==
    IF \/ SeqLt(c.snd_wl1, seg.seq)
       \/ c.snd_wl1 = seg.seq /\ SeqLe(c.snd_wl2, seg.ack)
    THEN [c EXCEPT !.snd_wnd = seg.window, !.snd_wl1 = seg.seq, !.snd_wl2 = seg.ack,
                   !.persist = @ /\ seg.window = 0]
    ELSE c

\* ProcessAck for an ACK of something sent.  It returned false when it left TimeWait or Closed.
ProcessAck(c, seg) ==
    LET duplicate == /\ seg.ack = c.snd_una /\ seg.data = <<>> /\ "Fin" \notin seg.flags
                     /\ seg.window = c.snd_wnd /\ c.snd_max # c.snd_una
        acked == CASE SeqLt(c.snd_una, seg.ack) -> OnNewAck(c, seg.ack)
                   [] duplicate -> OnDuplicateAck(c)
                   [] OTHER -> c
        d == UpdateWindow(acked, seg)
    IN  CASE FinAcked(d) /\ d.state = "FinWait1" -> [d EXCEPT !.state = "FinWait2"]
          [] FinAcked(d) /\ d.state = "Closing" -> EnterTimeWait(d)
          [] FinAcked(d) /\ d.state = "LastAck" -> [ClearTimers(d) EXCEPT !.state = "Closed"]
          [] OTHER -> d

-----------------------------------------------------------------------------
(* Data. *)

\* The bytes a host makes readable, in order.
Receive(c, data) ==
    [c EXCEPT !.recv_buf = @ \o data, !.rcv_nxt = (@ + Len(data)) % M,
              !.rcv_offset = @ + Len(data)]

\* Mutant: the stored data is taken whether or not the hole is filled.
PullPastHole(c) ==
    LET offsets == DOMAIN c.out_of_order
        first == CHOOSE o \in offsets : \A p \in offsets : o <= p
    IN  IF offsets = {} THEN c
        ELSE [Receive(c, c.out_of_order[first])
                EXCEPT !.out_of_order = [o \in offsets \ {first} |-> c.out_of_order[o]]]

\* One round of the loop of PullOutOfOrder: the stored data that starts lowest.
PullOnce(c) ==
    LET offsets == DOMAIN c.out_of_order
        first == CHOOSE o \in offsets : \A p \in offsets : o <= p
        data == c.out_of_order[first]
        rest == [o \in offsets \ {first} |-> c.out_of_order[o]]
    IN  IF offsets = {} \/ first > c.rcv_offset THEN c
        ELSE [Receive(c, SubSeq(data, c.rcv_offset - first + 1, Len(data)))
                EXCEPT !.out_of_order = rest]

PullOutOfOrder(c) ==
    LET rounds == Cardinality(DOMAIN c.out_of_order)
        pulled[n \in 0 .. rounds] == IF n = 0 THEN c ELSE PullOnce(pulled[n - 1])
    IN  pulled[rounds]

Stored(c) == MapThenSumSet(LAMBDA o : Len(c.out_of_order[o]), DOMAIN c.out_of_order)

\* Data past a hole is kept by its offset in the stream, the longest piece per offset.
Store(c, offset, data) ==
    LET known == offset \in DOMAIN c.out_of_order
    IN  IF \/ Stored(c) + Len(data) > RecvBuffer
           \/ known /\ Len(c.out_of_order[offset]) >= Len(data)
        THEN c
        ELSE [c EXCEPT !.out_of_order =
                [o \in DOMAIN @ \cup {offset} |-> IF o = offset THEN data ELSE @[o]]]

\* The part of a segment's data that is new and inside the window.
InWindow(c, seg) ==
    LET late == SeqLt(seg.seq, c.rcv_nxt)
        skip == IF late THEN SeqSub(c.rcv_nxt, seg.seq) ELSE 0
        ahead == IF late THEN 0 ELSE SeqSub(seg.seq, c.rcv_nxt)
        room == Greatest(ReceiveWindow(c) - ahead, 0)
    IN  SubSeq(seg.data, skip + 1, Least(Len(seg.data), skip + room))

\* The peer's FIN, once everything before it has arrived.
TakeFin(c) ==
    LET d == [c EXCEPT !.rcv_nxt = (@ + 1) % M, !.fin_received = TRUE]
    IN  CASE c.state = "Established" -> [d EXCEPT !.state = "CloseWait"]
          [] c.state = "FinWait1" /\ ~FinAcked(c) -> [d EXCEPT !.state = "Closing"]
          [] OTHER -> EnterTimeWait(d)

ProcessData(c, seg) ==
    LET seen == IF "Fin" \in seg.flags
                THEN [c EXCEPT !.peer_fin_seq = (seg.seq + Len(seg.data)) % M] ELSE c
        data == InWindow(c, seg)
        in_order == SeqLe(seg.seq, c.rcv_nxt)
        offset == c.rcv_offset + SeqSub(seg.seq, c.rcv_nxt)
        got == CASE data = <<>> -> seen
                 [] data # <<>> /\ in_order ->
                        [PullOutOfOrder(Receive(seen, data)) EXCEPT !.unacked_segments = @ + 1]
                 [] OTHER -> Store(seen, offset, data)
        fin == got.peer_fin_seq = got.rcv_nxt /\ ~got.fin_received
        d == IF fin THEN TakeFin(got) ELSE got
        ack_now == \/ data # <<>> /\ (~in_order \/ c.out_of_order # <<>>)
                   \/ fin
    IN  CASE ~Receiving(c) -> IF "Fin" \in seg.flags THEN SendAck(c) ELSE c
          [] Receiving(c) /\ (ack_now \/ d.unacked_segments >= 2) -> SendAck(d)
          [] OTHER -> [d EXCEPT !.delayed_ack = @ \/ d.unacked_segments > 0]

-----------------------------------------------------------------------------
(* A segment arrives at a connection that is neither closed nor opening. *)

Acceptable(c, seg) ==
    LET window == ReceiveWindow(c)
        length == SegmentLength(seg)
        in_window(s) == SeqLe(c.rcv_nxt, s) /\ SeqLt(s, (c.rcv_nxt + window) % M)
    IN  \/ length = 0 /\ window = 0 /\ seg.seq = c.rcv_nxt
        \/ window # 0 /\ in_window(seg.seq)
        \/ length # 0 /\ window # 0 /\ in_window((seg.seq + length - 1) % M)

\* With the window closed, an ACK that comes with data or a FIN is still an ACK.
AckOnly(c, seg) ==
    /\ ~Acceptable(c, seg)
    /\ ReceiveWindow(c) = 0 /\ seg.seq = c.rcv_nxt
    /\ seg.flags \cap {"Ack", "Rst", "Syn"} = {"Ack"}

\* The peer sent its SYN again: our SYN-ACK was lost.
SynAgain(c, seg) == c.state = "SynReceived" /\ BareSyn(seg) /\ seg.seq = c.irs

Refuse(c, seg) == IF "Rst" \in seg.flags THEN c ELSE SendAck(c)

OnReset(c, seg) ==
    IF seg.seq # c.rcv_nxt THEN SendAck(c)
    ELSE Terminate(c, CASE c.state \in {"Closing", "LastAck"} -> "Ok"
                        [] c.state = "SynReceived" -> "ConnRefused"
                        [] OTHER -> "ConnReset")

OnAck(c, seg) ==
    LET acked == ProcessAck(c, seg)
    IN  CASE AcksUnsent(c, seg) -> SendAck(c)
          [] ~AcksUnsent(c, seg) /\ acked.state \in {"TimeWait", "Closed"} -> acked
          [] ~AcksUnsent(c, seg) /\ acked.state \notin {"TimeWait", "Closed"} ->
                IF AckOnly(c, seg) THEN SendAck(acked) ELSE TrySend(ProcessData(acked, seg))

\* The ACK of the SYN completes the handshake of the passive end.
OnSynReceivedAck(c, seg) ==
    IF SeqLt(c.snd_una, seg.ack) /\ SeqLe(seg.ack, c.snd_max)
    THEN OnAck([c EXCEPT !.state = "Established", !.snd_wnd = seg.window,
                         !.snd_wl1 = seg.seq, !.snd_wl2 = seg.ack], seg)
    ELSE EmitReset(c, seg.ack)

OnSegment(c, seg) ==
    IF c.state = "SynSent" THEN HandleSynSent(c, seg)
    ELSE IF c.state = "TimeWait"
         THEN IF seg.flags \cap {"Fin", "Rst"} = {"Fin"} THEN SendAck(c) ELSE c
    ELSE IF SynAgain(c, seg) THEN EmitSegment(c, c.iss, {"Syn", "Ack"}, <<>>)
    ELSE IF ~Acceptable(c, seg) /\ ~AckOnly(c, seg) THEN Refuse(c, seg)
    ELSE IF "Rst" \in seg.flags THEN OnReset(c, seg)
    ELSE IF "Syn" \in seg.flags THEN SendAck(c)
    ELSE IF "Ack" \notin seg.flags THEN c
    ELSE IF c.state = "SynReceived" THEN OnSynReceivedAck(c, seg)
    ELSE OnAck(c, seg)

-----------------------------------------------------------------------------
(* Timers: due is the set of armed deadlines that have passed. *)

Armed(c) == {d \in {"time_wait", "delayed_ack", "retransmit", "persist"} : c[d]}

OnRetransmitTimeout(c) ==
    LET limit == IF Handshake(c) THEN SynRetries ELSE DataRetries
        again == [c EXCEPT !.retries = @ + 1]
        threshold == Greatest(SeqSub(c.snd_max, c.snd_una) \div 2, 2 * Mss)
        back == [again EXCEPT !.ssthresh = Least(threshold, CwndCap), !.cwnd = Mss,
                              !.in_recovery = FALSE, !.dupacks = 0, !.snd_nxt = c.snd_una]
    IN  CASE c.retries >= limit ->
                Terminate(IF Synchronized(c) THEN EmitReset(c, c.snd_max) ELSE c, "TimedOut")
          [] c.retries < limit /\ c.state = "SynSent" -> EmitSegment(again, c.iss, {"Syn"}, <<>>)
          [] c.retries < limit /\ c.state = "SynReceived" ->
                EmitSegment(again, c.iss, {"Syn", "Ack"}, <<>>)
          [] OTHER -> [TrySend(back) EXCEPT !.retransmit = TRUE]

OnTimer(c, due) ==
    LET answered == IF "delayed_ack" \in due THEN SendAck(c) ELSE c
        retried == IF "retransmit" \in due THEN OnRetransmitTimeout(answered) ELSE answered
    IN  CASE "time_wait" \in due -> [ClearTimers(c) EXCEPT !.state = "Closed"]
          [] "time_wait" \notin due /\ "persist" \in due /\ retried.persist ->
                EmitSegment(retried, retried.snd_una - 1, {"Ack"}, <<>>)
          [] OTHER -> retried

-----------------------------------------------------------------------------
(* Calls of the application. *)

CanSend(c) == c.error = "Ok" /\ c.state \in {"Established", "CloseWait"} /\ ~c.fin_queued
Send(c, data) == TrySend([c EXCEPT !.send_buf = @ \o data])

\* Reading n bytes; a window update follows when enough has opened.
Recv(c, n) ==
    LET d == [c EXCEPT !.recv_buf = SubSeq(@, n + 1, Len(@))]
        threshold == Least(RecvBuffer \div 2, 2 * Mss)
    IN  IF /\ Synchronized(d) /\ ~d.fin_received
           /\ ReceiveWindow(d) - d.last_window >= threshold
        THEN SendAck(d) ELSE d

Abort(c) ==
    Terminate(IF c.state \in {"Closed", "SynSent", "TimeWait"} THEN c ELSE EmitReset(c, c.snd_max),
              "Ok")

Shutdown(c) ==
    LET fin(state) == TrySend([c EXCEPT !.state = state, !.fin_queued = TRUE])
    IN  IF c.fin_queued THEN c
        ELSE CASE c.state = "SynSent" -> Terminate(c, "Ok")
               [] c.state = "SynReceived" -> Abort(c)
               [] c.state = "Established" -> fin("FinWait1")
               [] c.state = "CloseWait" -> fin("LastAck")
               [] OTHER -> c

Close(c) ==
    IF c.state = "SynSent" \/ (Synchronized(c) /\ c.recv_buf # <<>>) THEN Abort(c)
    ELSE Shutdown(c)

=============================================================================
