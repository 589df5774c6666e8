---------------------------- MODULE ByteStreams ----------------------------
(***************************************************************************)
(* What a connection of the peer-to-peer transport promises: one stream of *)
(* bytes in each direction.  The stream of `p` is written by p and read at *)
(* the other end, where it arrives in order and without a gap, and ends    *)
(* only when p ended it and everything has arrived; what p is told has     *)
(* arrived has arrived.  A connection that breaks stops, and takes nothing *)
(* back.                                                                   *)
(***************************************************************************)
EXTENDS Naturals, Sequences

CONSTANTS Sides, Bytes

VARIABLES
    sent,       \* the bytes written to each stream
    shut,       \* the streams their writers have ended
    got,        \* the bytes that have arrived
    eof,        \* the streams whose end has arrived
    acked,      \* how many bytes the writer knows to have arrived
    confirmed   \* the streams whose writer knows that the end has arrived

vars == <<sent, shut, got, eof, acked, confirmed>>

Init ==
    /\ sent = [p \in Sides |-> <<>>] /\ shut = {}
    /\ got = [p \in Sides |-> <<>>] /\ eof = {}
    /\ acked = [p \in Sides |-> 0] /\ confirmed = {}

\* p adds bytes to its stream, or ends it.
Write(p) ==
    /\ p \notin shut
    /\ \/ \E b \in Bytes : sent' = [sent EXCEPT ![p] = Append(@, b)] /\ UNCHANGED shut
       \/ shut' = shut \cup {p} /\ UNCHANGED sent
    /\ UNCHANGED <<got, eof, acked, confirmed>>

\* More of p's stream arrives, as far as a longer prefix of it and its end.
Arrive(p) ==
    /\ p \notin eof
    /\ \E n \in Len(got[p]) .. Len(sent[p]) :
            /\ got' = [got EXCEPT ![p] = SubSeq(sent[p], 1, n)]
            /\ \/ UNCHANGED eof
               \/ n = Len(sent[p]) /\ p \in shut /\ eof' = eof \cup {p}

\* p learns of what has arrived.
Learn(p) ==
    /\ p \notin confirmed
    /\ \E n \in acked[p] .. Len(got[p]) : acked' = [acked EXCEPT ![p] = n]
    /\ \/ UNCHANGED confirmed
       \/ p \in eof /\ acked'[p] = Len(sent[p]) /\ confirmed' = confirmed \cup {p}

\* A segment reaches p: it may say what arrived of p's stream and carry some of the other.
Segment(p) ==
    /\ Learn(p) \/ UNCHANGED <<acked, confirmed>>
    /\ (\E q \in Sides \ {p} : Arrive(q)) \/ UNCHANGED <<got, eof>>
    /\ UNCHANGED <<sent, shut>>

Next == \E p \in Sides : Write(p) \/ Segment(p)

Spec == Init /\ [][Next]_vars

=============================================================================
