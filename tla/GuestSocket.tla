---------------------------- MODULE GuestSocket ----------------------------
(***************************************************************************)
(* One connected peer-to-peer stream socket of the guest: blocking calls,  *)
(* aborts and close (core/net/guest_net.cpp) over the readiness flags of   *)
(* the transport (StreamSocket of core/net/p2p_transport.cpp).             *)
(*                                                                         *)
(* wait_mutex guards the waiters and the preserved aborts, the mutex of    *)
(* the transport guards the connection and the flags; a thread takes them  *)
(* one after the other, and each time is a step.  The connection is what   *)
(* P2PTcp shows of itself: how much can be read and written, and how it    *)
(* stands.  SocketConnect, datagrams, epoll and MSG_PEEK are left out.     *)
(***************************************************************************)
EXTENDS Integers, FiniteSetsExt

CONSTANTS
    Threads,
    RecvSpace, SendSpace,   \* bound: what the two buffers of the connection hold
    Kinds,                  \* bound: the calls each thread makes, see Kind
    MaxCalls, MaxAborts,    \* bound: calls started, aborts
    AbortFlags,             \* bound: the flags of the aborts, subsets of {"Recv", "Send", "Again"}
    Shutdowns               \* bound: the directions the program shuts down (0 read, 1 write, 2 both)

Sides == {"Recv", "Send"}

\* A blocking send sends all it was given, a blocking receive waits for all of it under MSG_WAITALL.
Kind(side, blocking, all, len) == [side |-> side, blocking |-> blocking, all |-> all, len |-> len]

ASSUME BoundAssumption ==
    /\ {RecvSpace, SendSpace} \subseteq Nat \ {0} /\ {MaxCalls, MaxAborts} \subseteq Nat
    /\ Shutdowns \subseteq {0, 1, 2}
    /\ AbortFlags \subseteq SUBSET {"Recv", "Send", "Again"}
    /\ \A t \in Threads : \A k \in Kinds[t] :
            /\ k \in [side : Sides, blocking : BOOLEAN, all : BOOLEAN, len : Nat \ {0}]
            /\ k.all => k.blocking
            /\ k.side = "Send" => k.all = k.blocking

VARIABLES
    tcp,            \* the connection: its state, unread bytes, room to send, error, FIN seen, FIN queued
    read_shutdown,
    ready,          \* the readiness flags, "Recv" for readable and "Send" for writable
    waiters,        \* the calls registered in GuestSocket::waiters
    pending_abort,  \* the sides with a preserved abort
    send_again,
    closing,
    released,       \* the stream is closed: no reference to the socket is left
    call,           \* the call of each thread
    wake,           \* the threads whose wake handle is signalled
    calls, aborts

vars == <<tcp, read_shutdown, ready, waiters, pending_abort, send_again, closing, released, call,
          wake, calls, aborts>>
socket == <<waiters, pending_abort, send_again, closing, aborts>>
stream == <<tcp, read_shutdown, ready, released>>

\* kind: what the thread called; done: the bytes moved so far.
Idle == [pc |-> "idle", kind |-> Kind("Recv", FALSE, FALSE, 1), done |-> 0,
         aborted |-> FALSE, result |-> "Ok"]

Init ==
    /\ tcp = [state |-> "Established", unread |-> 0, room |-> SendSpace, error |-> "Ok",
              fin_received |-> FALSE, fin_queued |-> FALSE]
    /\ read_shutdown = FALSE
    /\ ready = [Recv |-> FALSE, Send |-> TRUE]
    /\ waiters = {} /\ pending_abort = {} /\ send_again = FALSE
    /\ closing = FALSE /\ released = FALSE
    /\ call = [t \in Threads |-> Idle]
    /\ wake = {} /\ calls = 0 /\ aborts = 0

-----------------------------------------------------------------------------
(* The connection under the transport's mutex. *)

Failed(c) == c.error # "Ok" \/ c.state = "Closed"

Readable(c) == c.unread > 0 \/ c.fin_received \/ Failed(c)
\* Mutant: a broken connection is not writable.
WritableAlive(c) == c.error = "Ok" /\ c.state \in {"Established", "CloseWait"} /\ ~c.fin_queued /\ c.room > 0

Writable(c) == \/ Failed(c)
               \/ c.state \in {"Established", "CloseWait"} /\ ~c.fin_queued /\ c.room > 0

\* Transport::Update: whatever was done to the connection, both flags follow it.
Update(c) == tcp' = c /\ ready' = [Recv |-> Readable(c), Send |-> Writable(c)]

\* The states a FIN of ours and a FIN of the peer lead to.
WithFin(state) == CASE state = "Established" -> "FinWait" [] state = "CloseWait" -> "LastAck"
                    [] OTHER -> state
WithPeerFin(state) == CASE state = "Established" -> "CloseWait" [] state = "FinWait" -> "TimeWait"
                        [] OTHER -> state

Broken(c, error) == [c EXCEPT !.state = "Closed", !.error = error]

ShutdownSend(c) == IF c.state \in {"Established", "CloseWait"}
                   THEN [c EXCEPT !.state = WithFin(@), !.fin_queued = TRUE] ELSE c

\* What a segment or a timer of the connection can do to it, nothing included.
Afterwards(c) ==
    {c}
    \cup {[c EXCEPT !.unread = n] : n \in IF c.state \in {"Established", "FinWait"}
                                          THEN c.unread .. RecvSpace ELSE {}}
    \cup {[c EXCEPT !.room = n] : n \in IF c.state \in {"Established", "CloseWait"}
                                        THEN c.room .. SendSpace ELSE {}}
    \cup (IF c.state \in {"Established", "FinWait"}
          THEN {[c EXCEPT !.state = WithPeerFin(@), !.fin_received = TRUE]} ELSE {})
    \cup (IF c.state \in {"LastAck", "TimeWait"} THEN {[c EXCEPT !.state = "Closed"]} ELSE {})
    \cup (IF c.state \in {"Established", "FinWait", "CloseWait", "LastAck"}
          THEN {Broken(c, "Error")} ELSE {})

\* HandleStreamSegment or RunTimers.
Transport ==
    /\ tcp.state # "Closed"
    /\ \E c \in Afterwards(tcp) : Update(c)
    /\ UNCHANGED <<socket, read_shutdown, released, call, wake, calls>>

\* StreamSocket::Shutdown.
Shutdown(how) ==
    /\ ~released
    /\ read_shutdown' = (read_shutdown \/ how # 1)
    /\ IF how = 0 THEN ready' = [ready EXCEPT !.Recv = TRUE] /\ UNCHANGED tcp
                  ELSE Update(ShutdownSend(tcp))
    /\ UNCHANGED <<socket, released, call, wake, calls>>

-----------------------------------------------------------------------------
(* The guest's other threads: SocketAbort and SocketClose, under wait_mutex. *)

Blocked(side) == \E t \in waiters : call[t].kind.side = side

InterruptWaiters ==
    /\ call' = [t \in Threads |-> [call[t] EXCEPT !.aborted = @ \/ t \in waiters]]
    /\ wake' = wake \cup waiters

SocketAbort(flags) ==
    LET again == "Again" \in flags
        preserve == (flags \cap Sides) \cup IF again THEN {"Send"} ELSE {}
    IN  /\ ~released /\ aborts < MaxAborts
        /\ InterruptWaiters
        /\ pending_abort' = pending_abort \cup {side \in preserve : ~Blocked(side)}
        /\ send_again' = (send_again \/ (again /\ Blocked("Send")))
        /\ aborts' = aborts + 1
        /\ UNCHANGED <<stream, waiters, closing, calls>>

SocketClose ==
    /\ ~closing
    /\ closing' = TRUE
    /\ InterruptWaiters
    /\ UNCHANGED <<stream, waiters, pending_abort, send_again, calls, aborts>>

\* ~GuestSocket: the last call that used the socket has returned, the stream is closed.
LastReference ==
    /\ closing /\ ~released /\ \A t \in Threads : call[t].pc = "idle"
    /\ released' = TRUE
    /\ Update(IF tcp.state # "Closed" /\ tcp.unread > 0 THEN Broken(tcp, "Ok") ELSE ShutdownSend(tcp))
    /\ UNCHANGED <<socket, read_shutdown, call, wake, calls>>

-----------------------------------------------------------------------------
(* A thread receives or sends. *)

\* How RunBlocking ends: "Ok" with bytes moved, "Intr" (AbortedError), or "Fail", which stands for
\* the end of the stream and every other error: the caller stops at each of them alike.
Goto(t, pc) == call' = [call EXCEPT ![t].pc = pc]
Ends(t, result) == call' = [call EXCEPT ![t].pc = "leave", ![t].result = result]

\* The thread has looked the socket up and holds a reference.
Start(t) ==
    /\ call[t].pc = "idle" /\ ~closing /\ calls < MaxCalls
    /\ \E k \in Kinds[t] : call' = [call EXCEPT ![t] = [Idle EXCEPT !.pc = "enter", !.kind = k]]
    /\ calls' = calls + 1
    /\ UNCHANGED <<stream, socket, wake>>

\* RunBlocking of a call that may not block: ConsumePendingAbort.
EnterNonblocking(t) ==
    /\ call[t].pc = "enter" /\ ~call[t].kind.blocking
    /\ pending_abort' = pending_abort \ {call[t].kind.side}
    /\ IF call[t].kind.side \in pending_abort THEN Ends(t, "Intr") ELSE Goto(t, "op")
    /\ UNCHANGED <<stream, waiters, send_again, closing, wake, calls, aborts>>

\* Mutant: a call that starts while the socket closes registers as any other.
EnterClosing(t) ==
    /\ call[t].pc = "enter" /\ call[t].kind.blocking
    /\ wake' = wake \ {t}
    /\ IF call[t].kind.side \in pending_abort
       THEN Ends(t, "Intr") /\ pending_abort' = pending_abort \ {call[t].kind.side} /\ UNCHANGED waiters
       ELSE Goto(t, "check") /\ waiters' = waiters \cup {t} /\ UNCHANGED pending_abort
    /\ UNCHANGED <<stream, send_again, closing, calls, aborts>>

\* WaitScope: the wake handle is drained and the call registered, or refused.
Enter(t) ==
    /\ call[t].pc = "enter" /\ call[t].kind.blocking
    /\ wake' = wake \ {t}
    /\ CASE closing -> Ends(t, "Fail") /\ UNCHANGED <<pending_abort, waiters>>
         [] ~closing /\ call[t].kind.side \in pending_abort ->
                Ends(t, "Intr") /\ pending_abort' = pending_abort \ {call[t].kind.side}
                /\ UNCHANGED waiters
         [] OTHER -> /\ Goto(t, "check") /\ waiters' = waiters \cup {t}
                     /\ UNCHANGED pending_abort
    /\ UNCHANGED <<stream, send_again, closing, calls, aborts>>

Check(t) ==
    /\ call[t].pc = "check"
    /\ IF call[t].aborted THEN Ends(t, "Intr") ELSE Goto(t, "op")
    /\ UNCHANGED <<stream, socket, wake, calls>>

\* The operation would block: the call waits, or returns if it may not.
WouldBlock(t) == IF call[t].kind.blocking THEN Goto(t, "wait") ELSE Ends(t, "Fail")

Moves(t, n) == call' = [call EXCEPT ![t].pc = "leave", ![t].done = @ + n]
Fits(t, space) == Min({call[t].kind.len - call[t].done, space})

\* StreamSocket::Recv.
Recv(t) ==
    /\ call[t].pc = "op" /\ call[t].kind.side = "Recv"
    /\ CASE read_shutdown -> Ends(t, "Fail") /\ UNCHANGED <<tcp, ready>>
         [] ~read_shutdown /\ tcp.unread > 0 ->
                LET n == Fits(t, tcp.unread)
                IN  Moves(t, n) /\ Update([tcp EXCEPT !.unread = @ - n])
         [] ~read_shutdown /\ tcp.unread = 0 /\ Readable(tcp) ->
                Ends(t, "Fail") /\ Update(tcp)
         [] OTHER -> WouldBlock(t) /\ Update(tcp)
    /\ UNCHANGED <<socket, read_shutdown, released, wake, calls>>

SendFails(c) == c.error # "Ok" \/ c.fin_queued \/ c.state \notin {"Established", "CloseWait"}

\* StreamSocket::Send.
Send(t) ==
    /\ call[t].pc = "op" /\ call[t].kind.side = "Send"
    /\ CASE SendFails(tcp) -> Ends(t, "Fail") /\ Update(tcp)
         [] ~SendFails(tcp) /\ tcp.room > 0 ->
                LET n == Fits(t, tcp.room)
                IN  Moves(t, n) /\ Update([tcp EXCEPT !.room = @ - n])
         [] OTHER -> WouldBlock(t) /\ Update(tcp)
    /\ UNCHANGED <<socket, read_shutdown, released, wake, calls>>

\* WaitOne: the wake handle or the readiness flag ends the wait, or the deadline.
Wait(t) ==
    /\ call[t].pc = "wait" /\ (t \in wake \/ ready[call[t].kind.side])
    /\ Goto(t, "check")
    /\ UNCHANGED <<stream, socket, wake, calls>>

WaitTimesOut(t) ==
    /\ call[t].pc = "wait" /\ t \notin wake /\ ~ready[call[t].kind.side]
    /\ Ends(t, "Fail")
    /\ UNCHANGED <<stream, socket, wake, calls>>

\* Mutant: a call that returns leaves its waiter, which is on its stack, in the list.
LeaveRegistered(t) ==
    /\ call[t].pc = "leave"
    /\ Goto(t, "left")
    /\ UNCHANGED <<stream, socket, wake, calls>>

\* ~WaitScope.
Leave(t) ==
    /\ call[t].pc = "leave"
    /\ waiters' = waiters \ {t}
    /\ Goto(t, "left")
    /\ UNCHANGED <<stream, pending_abort, send_again, closing, wake, calls, aborts>>

\* SendAll and ReceiveAll after one RunBlocking.
GoOn(t) ==
    LET c == call[t]
        more == c.result = "Ok" /\ c.kind.all /\ c.done < c.kind.len
        sendAborted == c.kind.side = "Send" /\ c.result = "Intr"
    IN  /\ c.pc = "left"
        /\ call' = [call EXCEPT ![t] = IF more THEN [@ EXCEPT !.pc = "enter", !.aborted = FALSE]
                                               ELSE Idle]
        /\ send_again' = (send_again /\ ~sendAborted)
        /\ pending_abort' = pending_abort
                            \cup IF sendAborted /\ send_again /\ c.done > 0 THEN {"Send"} ELSE {}
        /\ UNCHANGED <<stream, waiters, closing, wake, calls, aborts>>

Step(t) ==
    \/ Enter(t) \/ EnterNonblocking(t) \/ Check(t) \/ Recv(t) \/ Send(t) \/ Wait(t)
    \/ Leave(t) \/ GoOn(t)

Next ==
    \/ \E t \in Threads : Start(t) \/ Step(t) \/ WaitTimesOut(t)
    \/ Transport \/ SocketClose \/ LastReference
    \/ \E how \in Shutdowns : Shutdown(how)
    \/ \E flags \in AbortFlags : SocketAbort(flags)

Spec == Init /\ [][Next]_vars

FairSpec == Spec /\ \A t \in Threads : WF_vars(Step(t))

-----------------------------------------------------------------------------
(* Properties. *)

\* Only calls inside their WaitScope are registered, since the waiters lie on their stacks; and
\* while a call is registered its thread's wake handle is signalled exactly when the call is
\* aborted: a signal left by an earlier call never makes it spin, and no abort leaves it asleep.
WaitersSound ==
    \A t \in waiters : /\ call[t].kind.blocking /\ call[t].pc \in {"check", "op", "wait", "leave"}
                       /\ t \in wake <=> call[t].aborted

\* Close interrupts every call in flight, the ones between two rounds of SendAll and the ones
\* that have looked the socket up and not registered yet included, so the stream is closed.
ClosedCallsEnd == closing ~> \A t \in Threads : call[t].pc = "idle"

\* Calls that sleep on a connection which is reset, times out or ends do return.
BrokenCallsEnd ==
    \A t \in Threads : (tcp.state = "Closed" /\ call[t].pc = "wait") ~> call[t].pc = "idle"

\* The comment of StreamSocket::Shutdown: "reads return EOF now", the ones that sleep included.
ReadsReturnNow ==
    \A t \in Threads : read_shutdown /\ call[t].pc = "wait" /\ call[t].kind.side = "Recv"
                       => ready["Recv"] \/ t \in wake

=============================================================================
