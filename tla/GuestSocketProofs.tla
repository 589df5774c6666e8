------------------------- MODULE GuestSocketProofs -------------------------
(***************************************************************************)
(* What is proved of GuestSocket for any set of threads, any calls and any *)
(* bounds: the registered waiters and the wake handles agree               *)
(* (WaitersSound), and the safety half of "every call ends": nothing is    *)
(* asleep that an abort, the close or the end of the connection should     *)
(* have woken.                                                             *)
(***************************************************************************)
EXTENDS GuestSocket, TLAPS

Connections ==
    [state : {"Established", "CloseWait", "FinWait", "LastAck", "TimeWait", "Closed"},
     unread : Nat, room : Nat, error : {"Ok", "Error"}, fin_received : BOOLEAN, fin_queued : BOOLEAN]
Flags == [Recv : BOOLEAN, Send : BOOLEAN]
AllKinds == [side : Sides, blocking : BOOLEAN, all : BOOLEAN, len : Nat \ {0}]
CallRecords ==
    [pc : {"idle", "enter", "check", "op", "wait", "leave", "left"},
     kind : AllKinds, done : Nat, aborted : BOOLEAN, result : {"Ok", "Intr", "Fail"}]

\* The types of everything the steps read; the other variables only count calls and aborts.
TypeOK ==
    /\ tcp \in Connections /\ ready \in Flags
    /\ read_shutdown \in BOOLEAN
    /\ waiters \in SUBSET Threads /\ wake \in SUBSET Threads
    /\ closing \in BOOLEAN
    /\ call \in [Threads -> CallRecords]

\* A call is not registered, and nobody has aborted it, when it reaches WaitScope; one that waits
\* is registered.
EnterInv ==
    \A t \in Threads :
        /\ call[t].pc = "enter" => t \notin waiters /\ ~call[t].aborted
        /\ call[t].pc = "wait" => t \in waiters
        /\ call[t].pc \in {"check", "op"} /\ call[t].kind.blocking => t \in waiters

\* Once the socket closes, every registered call is aborted.
CloseInv == closing => \A t \in waiters : call[t].aborted

\* The readiness flags say that a broken connection can be read and written.
ReadyInv == Failed(tcp) => ready.Recv /\ ready.Send

\* A call moves no more than it was asked to, and goes on only while something is left.
MovedInv ==
    \A t \in Threads : /\ call[t].done <= call[t].kind.len
                       /\ call[t].pc \in {"enter", "check", "op", "wait"}
                            => call[t].done < call[t].kind.len

IndInv == TypeOK /\ WaitersSound /\ EnterInv /\ CloseInv /\ ReadyInv /\ MovedInv

-----------------------------------------------------------------------------
(* The connection. *)

LEMMA UpdateFlags ==
    ASSUME NEW c \in Connections, Update(c)
    PROVE  tcp' \in Connections /\ ready' \in Flags /\ ReadyInv'
BY DEF Update, Readable, Writable, Failed, ReadyInv, Connections, Flags

LEMMA AfterwardsType ==
    ASSUME NEW c \in Connections, NEW d \in Afterwards(c)
    PROVE  d \in Connections
  <1>1. \A n \in c.unread .. RecvSpace : [c EXCEPT !.unread = n] \in Connections
    BY BoundAssumption DEF Connections
  <1>2. \A n \in c.room .. SendSpace : [c EXCEPT !.room = n] \in Connections
    BY BoundAssumption DEF Connections
  <1>3. [c EXCEPT !.state = WithPeerFin(@), !.fin_received = TRUE] \in Connections
    BY DEF Connections, WithPeerFin
  <1>4. [c EXCEPT !.state = "Closed"] \in Connections
    BY DEF Connections
  <1>5. Broken(c, "Error") \in Connections
    BY DEF Connections, Broken
  <1> QED
    BY <1>1, <1>2, <1>3, <1>4, <1>5 DEF Afterwards

LEMMA ClosingType ==
    ASSUME NEW c \in Connections
    PROVE  ShutdownSend(c) \in Connections /\ Broken(c, "Ok") \in Connections
BY DEF Connections, ShutdownSend, WithFin, Broken

-----------------------------------------------------------------------------
(* The invariant. *)

LEMMA IdleType == Idle \in CallRecords
BY DEF Idle, CallRecords, AllKinds, Kind, Sides

LEMMA InitInv == Init => IndInv
  <1> SUFFICES ASSUME Init PROVE IndInv
    OBVIOUS
  <1> USE BoundAssumption DEF Init
  <1>1. tcp \in Connections /\ ready \in Flags
    BY DEF Connections, Flags
  <1>2. Idle \in CallRecords
    BY IdleType
  <1>3. TypeOK
    BY <1>1, <1>2 DEF TypeOK
  <1>4. WaitersSound /\ CloseInv
    BY DEF WaitersSound, CloseInv
  <1>5. EnterInv
    BY DEF EnterInv, Idle
  <1>6. ReadyInv
    BY DEF ReadyInv, Failed
  <1>7. MovedInv
    BY DEF MovedInv, Idle, Kind
  <1> QED
    BY <1>3, <1>4, <1>5, <1>6, <1>7 DEF IndInv

\* The steps of the transport and of shutdown leave the calls alone.
LEMMA StreamStep ==
    ASSUME IndInv,
           Transport \/ LastReference \/ \E how \in Shutdowns : Shutdown(how)
    PROVE  IndInv'
  <1>1. /\ tcp' \in Connections /\ ready' \in Flags /\ ReadyInv'
        /\ read_shutdown' \in BOOLEAN
    <2>1. CASE Transport
      BY <2>1, UpdateFlags, AfterwardsType DEF Transport, IndInv, TypeOK
    <2>2. CASE LastReference
      BY <2>2, UpdateFlags, ClosingType DEF LastReference, IndInv, TypeOK
    <2>3. ASSUME NEW how \in Shutdowns, Shutdown(how), how = 0
          PROVE  tcp' \in Connections /\ ready' \in Flags /\ ReadyInv' /\ read_shutdown' \in BOOLEAN
      BY <2>3 DEF Shutdown, IndInv, TypeOK, ReadyInv, Flags, Failed
    <2>4. ASSUME NEW how \in Shutdowns, Shutdown(how), how # 0
          PROVE  tcp' \in Connections /\ ready' \in Flags /\ ReadyInv' /\ read_shutdown' \in BOOLEAN
      BY <2>4, UpdateFlags, ClosingType DEF Shutdown, IndInv, TypeOK
    <2> QED
      BY <2>1, <2>2, <2>3, <2>4
  <1>2. UNCHANGED <<waiters, closing, call, wake>>
    BY DEF Transport, LastReference, Shutdown, socket
  <1> QED
    BY <1>1, <1>2 DEF IndInv, TypeOK, WaitersSound, EnterInv, CloseInv, MovedInv

\* An abort or the close reaches every registered call and no other.
LEMMA InterruptStep ==
    ASSUME IndInv, InterruptWaiters, UNCHANGED <<stream, waiters>>, closing' \in BOOLEAN
    PROVE  IndInv'
  <1> USE DEF IndInv, InterruptWaiters, stream
  <1>1. call' \in [Threads -> CallRecords]
    BY DEF TypeOK, CallRecords
  <1>2. TypeOK'
    BY <1>1 DEF TypeOK
  <1>3. \A t \in Threads : /\ call'[t].pc = call[t].pc /\ call'[t].kind = call[t].kind
                           /\ call'[t].aborted = (call[t].aborted \/ t \in waiters)
                           /\ call'[t].done = call[t].done
    BY DEF TypeOK, CallRecords
  <1>4. /\ waiters' = waiters /\ wake' = wake \cup waiters /\ waiters \in SUBSET Threads
        /\ WaitersSound /\ EnterInv
    BY DEF TypeOK
  <1> HIDE DEF IndInv, InterruptWaiters, stream
  <1>7. WaitersSound'
    BY <1>3, <1>4 DEF WaitersSound
  <1>8. EnterInv'
    BY <1>3, <1>4 DEF EnterInv
  <1>9. CloseInv'
    BY <1>3, <1>4 DEF CloseInv
  <1> USE DEF IndInv, InterruptWaiters, stream
  <1>5. ReadyInv'
    BY DEF ReadyInv, Failed
  <1>6. MovedInv'
    BY <1>3 DEF MovedInv
  <1> QED
    BY <1>2, <1>5, <1>6, <1>7, <1>8, <1>9

\* What a step of t may do to t alone; the rest of the state is as before.
LEMMA OwnStep ==
    ASSUME IndInv, NEW t \in Threads, NEW r \in CallRecords,
           call' = [call EXCEPT ![t] = r],
           waiters' \in {waiters, waiters \cup {t}, waiters \ {t}},
           wake' \in {wake, wake \ {t}},
           closing' = closing,
           t \in waiters' =>
                /\ r.kind.blocking /\ r.pc \in {"check", "op", "wait", "leave"}
                /\ t \in wake' <=> r.aborted
                /\ closing => r.aborted,
           r.pc = "enter" => t \notin waiters' /\ ~r.aborted,
           r.pc = "wait" => t \in waiters',
           r.pc \in {"check", "op"} /\ r.kind.blocking => t \in waiters',
           r.done <= r.kind.len,
           r.pc \in {"enter", "check", "op", "wait"} => r.done < r.kind.len,
           tcp' \in Connections /\ ready' \in Flags /\ ReadyInv' /\ read_shutdown' \in BOOLEAN
    PROVE  IndInv'
  <1> USE DEF IndInv
  <1>1. \A u \in Threads : call'[u] = IF u = t THEN r ELSE call[u]
    BY DEF TypeOK
  <1>2. \A u \in Threads : u # t => /\ u \in waiters' <=> u \in waiters
                                    /\ u \in wake' <=> u \in wake
    OBVIOUS
  <1>3. TypeOK'
    BY DEF TypeOK
  <1>4. WaitersSound' /\ EnterInv' /\ CloseInv' /\ MovedInv'
    BY <1>1, <1>2, <1>3 DEF TypeOK, WaitersSound, EnterInv, CloseInv, MovedInv
  <1> QED
    BY <1>3, <1>4

LEMMA StreamKept == IndInv /\ UNCHANGED stream =>
    tcp' \in Connections /\ ready' \in Flags /\ ReadyInv' /\ read_shutdown' \in BOOLEAN
BY DEF IndInv, TypeOK, stream, ReadyInv, Failed

LEMMA StartStep ==
    ASSUME IndInv, NEW t \in Threads, Start(t)
    PROVE  IndInv'
  <1>1. PICK k \in Kinds[t] : call' = [call EXCEPT ![t] = [Idle EXCEPT !.pc = "enter", !.kind = k]]
    BY DEF Start
  <1>2. k \in AllKinds
    BY BoundAssumption DEF AllKinds
  <1> DEFINE r == [Idle EXCEPT !.pc = "enter", !.kind = k]
  <1>3. /\ r \in CallRecords /\ r.pc = "enter" /\ ~r.aborted
        /\ r.done < r.kind.len /\ r.done <= r.kind.len
    <2>1. Idle \in CallRecords
      BY IdleType
    <2>2. r \in CallRecords /\ r.pc = "enter" /\ r.kind = k
      BY <1>2, <2>1 DEF CallRecords
    <2>3. ~r.aborted /\ r.done = 0
      BY DEF Idle
    <2>4. k.len \in Nat /\ k.len > 0
      BY <1>2 DEF AllKinds
    <2> QED
      BY <2>2, <2>3, <2>4
  <1>4. t \notin waiters
    BY DEF Start, IndInv, WaitersSound
  <1> HIDE DEF r
  <1>5. call' = [call EXCEPT ![t] = r] /\ UNCHANGED <<stream, waiters, closing, wake>>
    BY <1>1 DEF Start, socket, r
  <1> QED
    BY <1>3, <1>4, <1>5, OwnStep, StreamKept

LEMMA EnterStep ==
    ASSUME IndInv, NEW t \in Threads, Enter(t) \/ EnterNonblocking(t)
    PROVE  IndInv'
  <1> DEFINE r(pc, result) == [call[t] EXCEPT !.pc = pc, !.result = result]
  <1>1. /\ call[t] \in CallRecords /\ call[t].pc = "enter"
        /\ t \notin waiters /\ ~call[t].aborted
        /\ call[t].done <= call[t].kind.len /\ call[t].done < call[t].kind.len
    BY DEF IndInv, TypeOK, EnterInv, MovedInv, Enter, EnterNonblocking
  <1>2. \A pc \in {"check", "op", "leave"}, result \in {"Ok", "Intr", "Fail"} :
            /\ r(pc, result) \in CallRecords
            /\ r(pc, result).pc = pc /\ r(pc, result).kind = call[t].kind
            /\ r(pc, result).done = call[t].done /\ ~r(pc, result).aborted
    BY <1>1 DEF CallRecords
  <1>3. \A pc, result : Ends(t, result) => call' = [call EXCEPT ![t] = r("leave", result)]
    BY <1>1 DEF Ends, IndInv, TypeOK, CallRecords
  <1>4. \A pc : Goto(t, pc) => call' = [call EXCEPT ![t] = r(pc, call[t].result)]
    BY <1>1 DEF Goto, IndInv, TypeOK, CallRecords
  <1>5. call[t].result \in {"Ok", "Intr", "Fail"}
    BY <1>1 DEF CallRecords
  <1>6. /\ tcp' \in Connections /\ ready' \in Flags /\ ReadyInv' /\ read_shutdown' \in BOOLEAN
        /\ closing' = closing
    BY StreamKept DEF Enter, EnterNonblocking
  <1> HIDE DEF r
  <1>7. CASE Enter(t) /\ waiters' = waiters
    <2>1. PICK result \in {"Intr", "Fail"} : Ends(t, result)
      BY <1>7, <1>1 DEF Enter
    <2>2. /\ call' = [call EXCEPT ![t] = r("leave", result)]
          /\ r("leave", result) \in CallRecords /\ r("leave", result).pc = "leave"
          /\ r("leave", result).done <= r("leave", result).kind.len
      BY <2>1, <1>1, <1>2, <1>3
    <2>3. wake' = wake \ {t}
      BY <1>7 DEF Enter
    <2> QED
      BY <1>7, <2>2, <2>3, <1>1, <1>6, OwnStep
  <1>8. CASE Enter(t) /\ waiters' # waiters
    <2>1. Goto(t, "check") /\ waiters' = waiters \cup {t} /\ ~closing /\ wake' = wake \ {t}
          /\ call[t].kind.blocking
      BY <1>8 DEF Enter
    <2> DEFINE new == r("check", call[t].result)
    <2>2. /\ call' = [call EXCEPT ![t] = new] /\ new \in CallRecords /\ new.pc = "check"
          /\ new.kind.blocking /\ ~new.aborted /\ new.done <= new.kind.len /\ new.done < new.kind.len
      BY <2>1, <1>1, <1>2, <1>4, <1>5
    <2> HIDE DEF new
    <2> QED
      BY <2>1, <2>2, <1>6, OwnStep
  <1>9. CASE EnterNonblocking(t)
    <2>1. PICK pc \in {"leave", "op"}, result \in {"Ok", "Intr", "Fail"} :
            call' = [call EXCEPT ![t] = r(pc, result)]
      BY <1>9, <1>3, <1>4, <1>5 DEF EnterNonblocking
    <2>2. /\ r(pc, result) \in CallRecords /\ r(pc, result).pc = pc
          /\ ~r(pc, result).kind.blocking
          /\ r(pc, result).done <= r(pc, result).kind.len
          /\ r(pc, result).done < r(pc, result).kind.len
      BY <1>1, <1>2, <1>9 DEF EnterNonblocking
    <2>3. waiters' = waiters /\ wake' = wake
      BY <1>9 DEF EnterNonblocking
    <2> QED
      BY <1>1, <2>1, <2>2, <2>3, <1>6, OwnStep
  <1> QED
    BY <1>7, <1>8, <1>9

\* A step of a call between its entry and its end leaves the registration and the wake handle alone.
LEMMA InsideStep ==
    ASSUME IndInv, NEW t \in Threads, NEW pc \in {"op", "wait", "check", "leave"},
           NEW done \in Nat, NEW result \in {"Ok", "Intr", "Fail"},
           call[t].pc \in {"check", "op", "wait"},
           call' = [call EXCEPT ![t].pc = pc, ![t].done = done, ![t].result = result],
           pc = "wait" => call[t].kind.blocking,
           done <= call[t].kind.len, pc # "leave" => done < call[t].kind.len,
           UNCHANGED <<waiters, closing, wake>>,
           tcp' \in Connections /\ ready' \in Flags /\ ReadyInv' /\ read_shutdown' \in BOOLEAN
    PROVE  IndInv'
  <1> DEFINE r == [call[t] EXCEPT !.pc = pc, !.done = done, !.result = result]
  <1>1. /\ call[t] \in CallRecords
        /\ call' = [call EXCEPT ![t] = r]
    BY DEF IndInv, TypeOK, CallRecords
  <1>2. /\ r \in CallRecords /\ r.pc = pc /\ r.kind = call[t].kind
        /\ r.aborted = call[t].aborted /\ r.done = done
    BY <1>1 DEF CallRecords
  <1>3. t \in waiters => /\ call[t].kind.blocking
                         /\ t \in wake <=> call[t].aborted
                         /\ closing => call[t].aborted
    BY DEF IndInv, WaitersSound, CloseInv
  <1>4. call[t].kind.blocking => t \in waiters
    BY DEF IndInv, EnterInv
  <1> HIDE DEF r
  <1> QED
    BY <1>1, <1>2, <1>3, <1>4, OwnStep

LEMMA MinOfTwo ==
    ASSUME NEW a \in Int, NEW b \in Int
    PROVE  Min({a, b}) \in {a, b} /\ Min({a, b}) <= a /\ Min({a, b}) <= b
  <1>1. \E x \in {a, b} : \A y \in {a, b} : x <= y
    OBVIOUS
  <1> QED
    BY <1>1 DEF Min

\* A call moves what is there, what fits and what is left to move.
LEMMA FitsBound ==
    ASSUME TypeOK, MovedInv, NEW t \in Threads, call[t].pc = "op", NEW space \in Nat
    PROVE  /\ Fits(t, space) \in Nat /\ Fits(t, space) <= space
           /\ call[t].done + Fits(t, space) <= call[t].kind.len
  <1>1. /\ call[t].kind.len \in Nat /\ call[t].done \in Nat
        /\ call[t].kind.len - call[t].done \in Nat
    BY DEF TypeOK, MovedInv, CallRecords, AllKinds
  <1> DEFINE left == call[t].kind.len - call[t].done
  <1>2. Fits(t, space) = Min({left, space})
    BY DEF Fits
  <1>3. left \in Int /\ space \in Int
    BY <1>1
  <1>4. left \in Nat /\ call[t].done + left = call[t].kind.len
    BY <1>1
  <1> HIDE DEF left
  <1>5. Fits(t, space) \in {left, space} /\ Fits(t, space) <= left /\ Fits(t, space) <= space
    <2>1. Min({left, space}) \in {left, space} /\ Min({left, space}) <= left
          /\ Min({left, space}) <= space
      BY <1>3, MinOfTwo
    <2> QED
      BY <1>2, <2>1
  <1> QED
    BY <1>1, <1>4, <1>5

LEMMA CheckWaitStep ==
    ASSUME IndInv, NEW t \in Threads, Check(t) \/ Wait(t) \/ WaitTimesOut(t)
    PROVE  IndInv'
  <1>1. PICK pc \in {"op", "check", "leave"}, result \in {"Ok", "Intr", "Fail"} :
            call' = [call EXCEPT ![t].pc = pc, ![t].done = call[t].done, ![t].result = result]
    <2>1. /\ call \in [Threads -> CallRecords]
          /\ call[t].result \in {"Ok", "Intr", "Fail"}
      BY DEF IndInv, TypeOK, CallRecords
    <2>2. \A pc \in {"op", "check"} : Goto(t, pc) =>
            call' = [call EXCEPT ![t].pc = pc, ![t].done = call[t].done,
                                 ![t].result = call[t].result]
      BY <2>1 DEF Goto, CallRecords
    <2>3. \A result \in {"Intr", "Fail"} : Ends(t, result) =>
            call' = [call EXCEPT ![t].pc = "leave", ![t].done = call[t].done,
                                 ![t].result = result]
      BY <2>1 DEF Ends, CallRecords
    <2>4. \/ \E pc \in {"op", "check"} : Goto(t, pc)
          \/ \E result \in {"Intr", "Fail"} : Ends(t, result)
      BY DEF Check, Wait, WaitTimesOut
    <2> QED
      BY <2>1, <2>2, <2>3, <2>4
  <1>2. /\ call[t].pc \in {"check", "wait"} /\ call[t].done \in Nat
        /\ call[t].done <= call[t].kind.len /\ call[t].done < call[t].kind.len
    BY DEF Check, Wait, WaitTimesOut, IndInv, TypeOK, MovedInv, CallRecords
  <1>3. UNCHANGED <<stream, waiters, closing, wake>>
    BY DEF Check, Wait, WaitTimesOut, socket
  <1> QED
    BY <1>1, <1>2, <1>3, InsideStep, StreamKept

\* The three ways Recv and Send leave their call.
LEMMA Outcome ==
    ASSUME IndInv, NEW t \in Threads, call[t].pc = "op", NEW space \in Nat,
           \/ Moves(t, Fits(t, space)) \/ Ends(t, "Fail") \/ WouldBlock(t)
    PROVE  \E pc \in {"wait", "leave"}, done \in Nat, result \in {"Ok", "Intr", "Fail"} :
                /\ call' = [call EXCEPT ![t].pc = pc, ![t].done = done, ![t].result = result]
                /\ done <= call[t].kind.len
                /\ pc = "wait" => call[t].kind.blocking /\ done < call[t].kind.len
  <1>1. /\ call[t].done \in Nat /\ call[t].kind.len \in Nat
        /\ call[t].done < call[t].kind.len /\ call[t].done <= call[t].kind.len
        /\ call[t].result \in {"Ok", "Intr", "Fail"}
    BY DEF IndInv, TypeOK, MovedInv, CallRecords, AllKinds
  <1> DEFINE Next3(pc, done, result) ==
                [call EXCEPT ![t].pc = pc, ![t].done = done, ![t].result = result]
  <1>2. CASE Moves(t, Fits(t, space))
    <2>1. Fits(t, space) \in Nat /\ call[t].done + Fits(t, space) <= call[t].kind.len
      BY FitsBound DEF IndInv
    <2>2. call' = Next3("leave", call[t].done + Fits(t, space), call[t].result)
      BY <1>2 DEF Moves, IndInv, TypeOK, CallRecords
    <2>3. call[t].done + Fits(t, space) \in Nat
      BY <1>1, <2>1
    <2> HIDE DEF Next3
    <2> QED
      BY <1>1, <2>1, <2>2, <2>3 DEF Next3
  <1>3. CASE Ends(t, "Fail")
    <2>1. call' = Next3("leave", call[t].done, "Fail")
      BY <1>3 DEF Ends, IndInv, TypeOK, CallRecords
    <2> HIDE DEF Next3
    <2> QED
      BY <1>1, <2>1 DEF Next3
  <1>4. CASE Goto(t, "wait") /\ call[t].kind.blocking
    <2>1. call' = Next3("wait", call[t].done, call[t].result)
      BY <1>4 DEF Goto, IndInv, TypeOK, CallRecords
    <2> HIDE DEF Next3
    <2> QED
      BY <1>1, <1>4, <2>1 DEF Next3
  <1> QED
    BY <1>2, <1>3, <1>4 DEF WouldBlock

LEMMA ReceiveSendStep ==
    ASSUME IndInv, NEW t \in Threads, Recv(t) \/ Send(t)
    PROVE  IndInv'
  <1>1. /\ call[t].pc = "op" /\ tcp \in Connections /\ tcp.unread \in Nat /\ tcp.room \in Nat
        /\ read_shutdown' \in BOOLEAN
        /\ UNCHANGED <<waiters, closing, wake>>
    BY DEF Recv, Send, IndInv, TypeOK, Connections, socket
  <1>2. \E space \in Nat :
            /\ Moves(t, Fits(t, space)) \/ Ends(t, "Fail") \/ WouldBlock(t)
            /\ UNCHANGED <<tcp, ready>> \/ \E c \in Connections : Update(c)
    <2>1. CASE Recv(t) /\ ~read_shutdown /\ tcp.unread > 0
      <3> DEFINE n == Fits(t, tcp.unread)
      <3>1. n \in Nat /\ n <= tcp.unread
        BY <1>1, FitsBound DEF IndInv
      <3>2. Moves(t, n) /\ Update([tcp EXCEPT !.unread = @ - n])
        BY <2>1 DEF Recv
      <3>3. [tcp EXCEPT !.unread = @ - n] \in Connections
        BY <1>1, <3>1 DEF Connections
      <3> QED
        BY <1>1, <3>2, <3>3
    <2>2. CASE Recv(t) /\ ~(~read_shutdown /\ tcp.unread > 0)
      <3>1. /\ Ends(t, "Fail") \/ WouldBlock(t)
            /\ UNCHANGED <<tcp, ready>> \/ Update(tcp)
        BY <2>2 DEF Recv
      <3> QED
        BY <1>1, <3>1
    <2>3. CASE Send(t) /\ ~SendFails(tcp) /\ tcp.room > 0
      <3> DEFINE n == Fits(t, tcp.room)
      <3>1. n \in Nat /\ n <= tcp.room
        BY <1>1, FitsBound DEF IndInv
      <3>2. Moves(t, n) /\ Update([tcp EXCEPT !.room = @ - n])
        BY <2>3 DEF Send
      <3>3. [tcp EXCEPT !.room = @ - n] \in Connections
        BY <1>1, <3>1 DEF Connections
      <3> QED
        BY <1>1, <3>2, <3>3
    <2>4. CASE Send(t) /\ ~(~SendFails(tcp) /\ tcp.room > 0)
      <3>1. (Ends(t, "Fail") \/ WouldBlock(t)) /\ Update(tcp)
        BY <2>4 DEF Send
      <3> QED
        BY <1>1, <3>1
    <2> QED
      BY <2>1, <2>2, <2>3, <2>4
  <1>3. tcp' \in Connections /\ ready' \in Flags /\ ReadyInv'
    BY <1>2, UpdateFlags DEF IndInv, TypeOK, ReadyInv, Failed
  <1> QED
    BY <1>1, <1>2, <1>3, Outcome, InsideStep

LEMMA LeaveStep ==
    ASSUME IndInv, NEW t \in Threads, Leave(t)
    PROVE  IndInv'
  <1> DEFINE r == [call[t] EXCEPT !.pc = "left"]
  <1>1. r \in CallRecords /\ r.pc = "left" /\ call' = [call EXCEPT ![t] = r]
    BY DEF Leave, Goto, IndInv, TypeOK, CallRecords
  <1>2. r.done <= r.kind.len
    BY DEF IndInv, TypeOK, CallRecords, MovedInv
  <1> HIDE DEF r
  <1> QED
    BY <1>1, <1>2, OwnStep, StreamKept DEF Leave

LEMMA GoOnStep ==
    ASSUME IndInv, NEW t \in Threads, GoOn(t)
    PROVE  IndInv'
  <1>1. call[t] \in CallRecords /\ call[t].done \in Nat /\ call[t].kind.len \in Nat
    BY DEF IndInv, TypeOK, CallRecords, AllKinds
  <1>2. t \notin waiters
    BY DEF GoOn, IndInv, WaitersSound
  <1>3. \E r \in CallRecords :
            /\ call' = [call EXCEPT ![t] = r]
            /\ r.pc \in {"enter", "idle"} /\ ~r.aborted /\ r.done < r.kind.len
    <2>1. CASE call' = [call EXCEPT ![t] = Idle]
      <3>1. Idle.pc = "idle" /\ ~Idle.aborted /\ Idle.done < Idle.kind.len
        BY DEF Idle, Kind
      <3> QED
        BY <2>1, <3>1, IdleType
    <2>2. CASE /\ call' = [call EXCEPT ![t] = [@ EXCEPT !.pc = "enter", !.aborted = FALSE]]
               /\ call[t].done < call[t].kind.len
      <3> DEFINE r == [call[t] EXCEPT !.pc = "enter", !.aborted = FALSE]
      <3>1. r \in CallRecords /\ r.pc = "enter" /\ ~r.aborted /\ r.done < r.kind.len
        BY <1>1, <2>2 DEF CallRecords
      <3>2. call' = [call EXCEPT ![t] = r]
        BY <2>2
      <3> QED
        BY <3>1, <3>2
    <2> QED
      BY <2>1, <2>2 DEF GoOn
  <1>4. UNCHANGED <<stream, waiters, closing, wake>>
    BY DEF GoOn
  <1>5. PICK r \in CallRecords :
            /\ call' = [call EXCEPT ![t] = r]
            /\ r.pc \in {"enter", "idle"} /\ ~r.aborted /\ r.done < r.kind.len
    BY <1>3
  <1>6. r.done <= r.kind.len
    BY <1>5 DEF CallRecords, AllKinds
  <1> QED
    BY <1>2, <1>4, <1>5, <1>6, OwnStep, StreamKept

-----------------------------------------------------------------------------
(* The theorems. *)

LEMMA NextInv == IndInv /\ [Next]_vars => IndInv'
  <1> SUFFICES ASSUME IndInv, [Next]_vars PROVE IndInv'
    OBVIOUS
  <1>1. ASSUME NEW t \in Threads, Start(t) \/ Step(t) \/ WaitTimesOut(t)
        PROVE  IndInv'
    BY <1>1, StartStep, EnterStep, CheckWaitStep, ReceiveSendStep, LeaveStep, GoOnStep DEF Step
  <1>2. CASE Transport \/ LastReference \/ \E how \in Shutdowns : Shutdown(how)
    BY <1>2, StreamStep
  <1>3. CASE SocketClose
    BY <1>3, InterruptStep DEF SocketClose
  <1>4. ASSUME NEW flags \in AbortFlags, SocketAbort(flags)
        PROVE  IndInv'
    BY <1>4, InterruptStep DEF SocketAbort, IndInv, TypeOK
  <1>5. CASE UNCHANGED vars
    BY <1>5 DEF vars, IndInv, TypeOK, WaitersSound, EnterInv, CloseInv, ReadyInv, Failed, MovedInv
  <1> QED
    BY <1>1, <1>2, <1>3, <1>4, <1>5 DEF Next

LEMMA Invariant == Spec => []IndInv
BY InitInv, NextInv, PTL DEF Spec

\* While a call is registered in GuestSocket::waiters it is inside its WaitScope, and its wake handle
\* is signalled exactly when it has been aborted (WaitScope, InterruptWaiters of guest_net.cpp).
THEOREM WaitersAreSound == Spec => []WaitersSound
BY Invariant, PTL DEF IndInv

\* No receive moves more than the guest's buffer holds and no send more than it was given, however
\* often SendAll and ReceiveAll go round.
THEOREM NothingBeyondTheBuffer == Spec => [](\A t \in Threads : call[t].done <= call[t].kind.len)
  <1>1. IndInv => \A t \in Threads : call[t].done <= call[t].kind.len
    BY DEF IndInv, MovedInv
  <1> QED
    BY <1>1, Invariant, PTL

\* A call that waits when the socket is closing, or on a connection that has broken or ended, has its
\* wake handle signalled or its readiness flag set: RunBlocking goes on (InterruptWaiters, Update).
NobodyLeftAsleep ==
    \A t \in Threads : call[t].pc = "wait" /\ (closing \/ tcp.state = "Closed") =>
        t \in wake \/ ready[call[t].kind.side]

THEOREM EndWakesEverybody == Spec => []NobodyLeftAsleep
  <1>1. IndInv => NobodyLeftAsleep
    <2> SUFFICES ASSUME IndInv, NEW t \in Threads, call[t].pc = "wait",
                        closing \/ tcp.state = "Closed"
                 PROVE  t \in wake \/ ready[call[t].kind.side]
      BY DEF NobodyLeftAsleep
    <2>1. CASE closing
      BY <2>1 DEF IndInv, EnterInv, CloseInv, WaitersSound
    <2>2. CASE tcp.state = "Closed"
      <3>1. ready.Recv /\ ready.Send
        BY <2>2 DEF IndInv, ReadyInv, Failed
      <3>2. call[t].kind.side \in {"Recv", "Send"}
        BY DEF IndInv, TypeOK, CallRecords, AllKinds, Sides
      <3> QED
        BY <3>1, <3>2
    <2> QED
      BY <2>1, <2>2
  <1> QED
    BY <1>1, Invariant, PTL

=============================================================================
