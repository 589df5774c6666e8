------------------------------ MODULE P2PLink ------------------------------
(***************************************************************************)
(* Two hosts, one TCP connection over P2P datagrams between them.  Every   *)
(* handler runs under Transport::mutex_ of its host (core/net/             *)
(* p2p_transport.cpp), so that a handler is one step.  The network loses,  *)
(* duplicates and reorders segments.                                       *)
(*                                                                         *)
(* A side of Openers connects; another side listens and takes one SYN.     *)
(***************************************************************************)
EXTENDS P2PTcp, FiniteSetsExt, SequencesExt

CONSTANTS
    Sides, Openers,
    Iss,            \* the initial sequence number of each side
    MaxBytes,       \* bound: the bytes each application writes
    Finishers, Aborters,    \* bound: the sides that shut down or close, and those that abort
    MaxFaults       \* bound: segments lost or duplicated and timers that expire too early

VARIABLES
    conn,           \* the connection of each side, state "None" or "Listen" before there is one
    wire,           \* the segments on their way to each side
    app,            \* "open" until the application closes its socket
    sent, read,     \* ghosts: the bytes the application wrote and those it read
    faults

vars == <<conn, wire, app, sent, read, faults>>

ASSUME SidesAssumption == IsFiniteSet(Sides) /\ Cardinality(Sides) = 2 /\ Openers \subseteq Sides
ASSUME IssAssumption == Iss \in [Sides -> 0 .. M - 1]
\* No segment outlives a turn of the sequence numbers: a stream is shorter than half of them.
ASSUME LifetimeAssumption ==
    /\ MaxBytes \in [Sides -> Nat]
    /\ \A p \in Sides : 2 * (MaxBytes[p] + 3) <= M

Peer(p) == CHOOSE q \in Sides : q # p

Init ==
    /\ conn = [p \in Sides |-> [NewConnection(Iss[p]) EXCEPT
                    !.state = IF p \in Openers THEN "None" ELSE "Listen"]]
    /\ wire = [p \in Sides |-> <<>>]
    /\ app = [p \in Sides |-> "open"]
    /\ sent = [p \in Sides |-> <<>>] /\ read = [p \in Sides |-> <<>>]
    /\ faults = 0

\* No handler reads more of a closed connection than this.
Settled(c) ==
    IF c.state # "Closed" THEN [c EXCEPT !.out = <<>>]
    ELSE [NewConnection(c.iss) EXCEPT
            !.error = c.error, !.snd_una = c.snd_una, !.buf_seq = c.buf_seq, !.send_buf = c.send_buf,
            !.recv_buf = c.recv_buf, !.fin_queued = c.fin_queued, !.fin_received = c.fin_received]

\* The handler at p leaves connection c, and the segments it sent are under way.  The i-th segment
\* under way to p is taken off the wire, unless i is 0 or the network duplicates it.
Handled(p, c, i, mishaps) ==
    /\ conn' = [conn EXCEPT ![p] = Settled(c)]
    /\ \E arrived \in IF i = 0 THEN {wire[p]} ELSE {wire[p], RemoveAt(wire[p], i)} :
            /\ wire' = [wire EXCEPT ![p] = arrived, ![Peer(p)] = @ \o c.out]
            /\ faults' = faults + mishaps + IF i > 0 /\ arrived = wire[p] THEN 1 ELSE 0
    /\ faults' <= MaxFaults

-----------------------------------------------------------------------------
(* The application. *)

Open(p) ==
    /\ conn[p].state = "None"
    /\ Handled(p, Connect(conn[p]), 0, 0)
    /\ UNCHANGED <<app, sent, read>>

Opened(p) == app[p] = "open" /\ conn[p].state \notin {"None", "Listen"}

Write(p) ==
    /\ Opened(p) /\ CanSend(conn[p])
    /\ SendSpace(conn[p]) > 0 /\ Len(sent[p]) < MaxBytes[p]
    /\ LET byte == Len(sent[p]) + 1
       IN  /\ Handled(p, Send(conn[p], <<byte>>), 0, 0)
           /\ sent' = [sent EXCEPT ![p] = Append(@, byte)]
    /\ UNCHANGED <<app, read>>

Read(p) ==
    /\ Opened(p)
    /\ \E n \in 1 .. Len(conn[p].recv_buf) :
            /\ Handled(p, Recv(conn[p], n), 0, 0)
            /\ read' = [read EXCEPT ![p] = @ \o SubSeq(conn[p].recv_buf, 1, n)]
    /\ UNCHANGED <<app, sent>>

ShutdownSend(p) ==
    /\ Opened(p) /\ p \in Finishers
    /\ Handled(p, Shutdown(conn[p]), 0, 0)
    /\ UNCHANGED <<app, sent, read>>

CloseSocket(p) ==
    /\ Opened(p) /\ p \in Finishers
    /\ Handled(p, Close(conn[p]), 0, 0)
    /\ app' = [app EXCEPT ![p] = "closed"]
    /\ UNCHANGED <<sent, read>>

AbortSocket(p) ==
    /\ Opened(p) /\ p \in Aborters
    /\ Handled(p, Abort(conn[p]), 0, 1)
    /\ UNCHANGED <<app, sent, read>>

-----------------------------------------------------------------------------
(* The network. *)

\* A segment on its way to p is lost.
Lose(p) ==
    /\ faults < MaxFaults
    /\ \E i \in DOMAIN wire[p] : wire' = [wire EXCEPT ![p] = RemoveAt(@, i)]
    /\ faults' = faults + 1
    /\ UNCHANGED <<conn, app, sent, read>>

-----------------------------------------------------------------------------
(* The transport thread: HandleStreamSegment and RunTimers. *)

\* A segment that arrives before older ones was reordered.
Overtakes(i) == IF i > 1 THEN 1 ELSE 0

Deliver(p) == \E i \in DOMAIN wire[p] : LET seg == wire[p][i] IN
    /\ conn[p].state \notin {"None", "Listen", "Closed"}
    /\ Handled(p, OnSegment(conn[p], seg), i, Overtakes(i))
    /\ UNCHANGED <<app, sent, read>>

Accept(p) == \E i \in DOMAIN wire[p] : LET seg == wire[p][i] IN
    /\ conn[p].state = "Listen" /\ BareSyn(seg)
    /\ Handled(p, AcceptSyn(conn[p], seg), i, Overtakes(i))
    /\ UNCHANGED <<app, sent, read>>

NobodyListens(p) == \E i \in DOMAIN wire[p] : LET seg == wire[p][i] IN
    /\ conn[p].state \in {"None", "Listen", "Closed"}
    /\ ~(conn[p].state = "Listen" /\ BareSyn(seg))
    /\ Handled(p, [conn[p] EXCEPT !.out = ResetFor(seg)], i, Overtakes(i))
    /\ UNCHANGED <<app, sent, read>>

Arrival(p) == Deliver(p) \/ Accept(p) \/ NobodyListens(p)

\* A timer is early when a segment that may stop it is still under way.
Expire(p, due) ==
    /\ LET early == IF \E q \in Sides : wire[q] # <<>> THEN 1 ELSE 0
          IN  Handled(p, OnTimer(conn[p], due), 0, early)
    /\ UNCHANGED <<app, sent, read>>

RunTimers(p) == \E due \in (SUBSET Armed(conn[p])) \ {{}} : Expire(p, due)
RetransmitDue(p) == \E due \in SUBSET Armed(conn[p]) : "retransmit" \in due /\ Expire(p, due)

Next == \E p \in Sides :
    \/ Open(p) \/ Write(p) \/ Read(p) \/ ShutdownSend(p) \/ CloseSocket(p) \/ AbortSocket(p)
    \/ Lose(p) \/ Arrival(p) \/ RunTimers(p)

Spec == Init /\ [][Next]_vars

\* ThreadMain receives what the network brings, and sleeps no longer than to the next deadline, which
\* is a point in time that nothing but an answer moves: WF of Arrival(p) and SF of RetransmitDue(p),
\* with ENABLED spelt out, since a handler always succeeds.
TimerCanRun(p) == conn[p].retransmit /\ (faults < MaxFaults \/ \A q \in Sides : wire[q] = <<>>)

FairSpec == Spec /\ \A p \in Sides :
    /\ []<>(wire[p] = <<>>) \/ []<><<Arrival(p)>>_vars
    /\ <>[]~TimerCanRun(p) \/ []<><<RetransmitDue(p)>>_vars

-----------------------------------------------------------------------------
(* Properties. *)

\* What the two applications see is two byte streams (ByteStreams.tla): in order, without a gap or a
\* byte twice, whatever the network does, and a side takes for acknowledged only what has arrived.
Streams == INSTANCE ByteStreams WITH
    Bytes <- 1 .. Max({MaxBytes[p] : p \in Sides}),
    sent <- sent,
    shut <- {p \in Sides : conn[p].fin_queued},
    got <- [p \in Sides |-> read[Peer(p)] \o conn[Peer(p)].recv_buf],
    eof <- {p \in Sides : conn[Peer(p)].fin_received},
    acked <- [p \in Sides |-> SeqSub(conn[p].buf_seq, Iss[p] + 1)],
    confirmed <- {p \in Sides : FinAcked(conn[p])}

\* Every handler of p2p_tcp.cpp is a step of the two streams or leaves them alone.
ImplementsStreams == Streams!Spec

\* What p has not managed to send yet, its FIN included.
Unsent(c) == Sending(c) /\ ~FinSent(c) /\ (c.fin_queued \/ c.snd_max # FinSeq(c))

\* Nothing waits on luck: whatever is unacknowledged, unsent or owed has a timer behind it, so that
\* no lost segment stalls a connection (EmitSegment, TrySend, OnNewAck and ProcessAck of p2p_tcp.cpp
\* set and clear the four deadlines).  The one exception is the code's: an ACK that arrives together
\* with data or a FIN the closed receive window refuses opens the send window without sending, and
\* what p has left waits for the peer, which has sent past what p has received and sends it again.
TimerArmed == \A p \in Sides : LET c == conn[p] IN c.state # "Closed" =>
    /\ c.snd_una # c.snd_max => c.retransmit
    /\ c.unacked_segments > 0 => c.delayed_ack
    /\ c.state = "TimeWait" => c.time_wait
    /\ Unsent(c) => \/ c.retransmit \/ c.persist
                    \/ LET d == conn[Peer(p)] IN d.state = "Closed" \/ SeqLt(c.rcv_nxt, d.snd_max)

\* What was sent is acknowledged in the end, or the connection is given up (OnRetransmitTimeout).
AckedOrClosed == \A p \in Sides :
    conn[p].snd_una # conn[p].snd_max ~>
        conn[p].snd_una = conn[p].snd_max \/ conn[p].state = "Closed"

=============================================================================
