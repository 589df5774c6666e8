-------------------------- MODULE SharedFirstMutex --------------------------
(***************************************************************************)
(* Common::SharedFirstMutex (common/shared_first_mutex.h), the lock of the *)
(* memory manager, of the rasterizer's mapped ranges and of the guest's    *)
(* pthread_rwlock.                                                         *)
(*                                                                         *)
(* The word `state` is the pair writer_bit, readers.  Every atomic access  *)
(* to it or to waiting_writers is a step of its own, except where the      *)
(* access and its neighbour on the host mutex mtx commute with everything  *)
(* the other threads do (named at the action).  The compare-exchange loops *)
(* are one step: their outcome is decided at one load or one successful    *)
(* exchange.  compare_exchange_weak does not fail spuriously, as on the    *)
(* x86-64 hosts the program supports.  Waits on cv may wake spuriously.    *)
(*                                                                         *)
(* The callers: a thread that holds the lock exclusively only unlocks it,  *)
(* and a thread that holds it shared does not ask for it exclusively.      *)
(***************************************************************************)
EXTENDS Naturals, FiniteSets

CONSTANTS
    Threads,
    NoOne,          \* the holder of a free mtx
    MaxDepth,       \* bound: shared holds of one thread
    MaxCalls        \* bound: acquisitions in one behaviour

ASSUME ThreadAssumption == NoOne \notin Threads /\ IsFiniteSet(Threads)
ASSUME BoundAssumption == MaxDepth \in Nat /\ MaxCalls \in Nat

VARIABLES
    writer_bit, readers,    \* the two fields of state
    waiting_writers,
    mtx,                    \* holder of mtx
    cv,                     \* the threads blocked in cv.wait
    pc,
    timed,                  \* the thread's call has a deadline
    exclusive, depth,       \* ghosts: who holds the lock, and how often shared
    budget

lockVars == <<writer_bit, readers, waiting_writers>>
vars == <<writer_bit, readers, waiting_writers, mtx, cv, pc, timed, exclusive, depth, budget>>

PcStates == {"out", "l_mtx", "l_cas", "l_block", "l_wait", "l_timeout", "l_dec", "u_notify",
             "s_mtx", "s_block", "s_wait", "s_add", "r_check", "r_notify"}

Init ==
    /\ writer_bit = FALSE /\ readers = 0 /\ waiting_writers = 0
    /\ mtx = NoOne /\ cv = {}
    /\ pc = [t \in Threads |-> "out"]
    /\ timed = [t \in Threads |-> FALSE]
    /\ exclusive = {} /\ depth = [t \in Threads |-> 0]
    /\ budget = MaxCalls

Goto(t, state) == pc' = [pc EXCEPT ![t] = state]

-----------------------------------------------------------------------------
(* Calls. *)

Idle(t) == pc[t] = "out" /\ budget > 0
Spend == budget' = budget - 1

\* lock() and try_lock_until(): the call; the first step takes mtx.
CallLock(t, deadline) ==
    /\ Idle(t) /\ exclusive # {t} /\ depth[t] = 0
    /\ Goto(t, "l_mtx")
    /\ timed' = [timed EXCEPT ![t] = deadline]
    /\ Spend
    /\ UNCHANGED <<lockVars, mtx, cv, exclusive, depth>>

\* mtx is taken and waiting_writers incremented. The two are one step: who reads the counter
\* in between might as well have read it before.
LockEnter(t) ==
    /\ pc[t] = "l_mtx" /\ mtx = NoOne
    /\ mtx' = t
    /\ waiting_writers' = waiting_writers + 1
    /\ Goto(t, "l_cas")
    /\ UNCHANGED <<writer_bit, readers, cv, timed, exclusive, depth, budget>>

\* Mutant: the exchange expects the writer bit clear and does not look at the readers.
NoWriter == ~writer_bit

Free == ~writer_bit /\ readers = 0

\* The compare-exchange of 0 by WRITER_BIT succeeds.
LockCas(t) ==
    /\ pc[t] \in {"l_cas", "l_timeout"} /\ mtx = t /\ Free
    /\ writer_bit' = TRUE
    /\ exclusive' = exclusive \cup {t}
    /\ Goto(t, "l_dec")
    /\ UNCHANGED <<readers, waiting_writers, mtx, cv, timed, depth, budget>>

\* It fails.
LockFail(t) ==
    /\ pc[t] = "l_cas" /\ mtx = t /\ ~Free
    /\ Goto(t, "l_block")
    /\ UNCHANGED <<lockVars, mtx, cv, timed, exclusive, depth, budget>>

\* cv.wait, cv.wait_until, for writers and readers: release mtx and block, in one step.
Block(t) ==
    /\ pc[t] \in {"l_block", "s_block"} /\ mtx = t
    /\ mtx' = NoOne
    /\ cv' = cv \cup {t}
    /\ Goto(t, IF pc[t] = "l_block" THEN "l_wait" ELSE "s_wait")
    /\ UNCHANGED <<lockVars, timed, exclusive, depth, budget>>

\* The wait is over (t was taken off cv) and mtx is held again.
LockWake(t) ==
    /\ pc[t] = "l_wait" /\ t \notin cv /\ mtx = NoOne
    /\ mtx' = t
    /\ Goto(t, "l_cas")
    /\ UNCHANGED <<lockVars, cv, timed, exclusive, depth, budget>>

\* The deadline of wait_until passed, whether or not t was also notified; the exchange is tried
\* once more, then the call gives up.
LockTimeout(t) ==
    /\ pc[t] = "l_wait" /\ timed[t] /\ mtx = NoOne
    /\ cv' = cv \ {t}
    /\ mtx' = t
    /\ Goto(t, "l_timeout")
    /\ UNCHANGED <<lockVars, timed, exclusive, depth, budget>>

\* Mutant: the path that gives up has its own decrement.
GiveUpAndCount(t) ==
    /\ pc[t] = "l_timeout" /\ mtx = t /\ ~Free
    /\ waiting_writers' = waiting_writers - 1
    /\ Goto(t, "l_dec")
    /\ UNCHANGED <<writer_bit, readers, mtx, cv, timed, exclusive, depth, budget>>

LockGiveUp(t) ==
    /\ pc[t] = "l_timeout" /\ mtx = t /\ ~Free
    /\ Goto(t, "l_dec")
    /\ UNCHANGED <<lockVars, mtx, cv, timed, exclusive, depth, budget>>

\* waiting_writers is decremented and mtx released.
LockReturn(t) ==
    /\ pc[t] = "l_dec" /\ mtx = t
    /\ waiting_writers' = waiting_writers - 1
    /\ mtx' = NoOne
    /\ Goto(t, "out")
    /\ UNCHANGED <<writer_bit, readers, cv, timed, exclusive, depth, budget>>

\* try_lock: the exchange happens under mtx.
TryLock(t) ==
    /\ Idle(t) /\ exclusive # {t} /\ depth[t] = 0 /\ mtx = NoOne
    /\ IF Free
       THEN writer_bit' = TRUE /\ exclusive' = exclusive \cup {t}
       ELSE UNCHANGED <<writer_bit, exclusive>>
    /\ Spend
    /\ UNCHANGED <<readers, waiting_writers, mtx, cv, pc, timed, depth>>

\* unlock: the bit is cleared, without mtx; then mtx is taken and everybody notified.
Unlock(t) ==
    /\ pc[t] = "out" /\ t \in exclusive
    /\ writer_bit' = FALSE
    /\ exclusive' = exclusive \ {t}
    /\ Goto(t, "u_notify")
    /\ UNCHANGED <<readers, waiting_writers, mtx, cv, timed, depth, budget>>

NotifyAll == cv' = {}

\* Mutant: the notification does not take mtx.
BareNotify(t) ==
    /\ pc[t] \in {"u_notify", "r_notify"}
    /\ NotifyAll
    /\ Goto(t, "out")
    /\ UNCHANGED <<lockVars, mtx, timed, exclusive, depth, budget>>

Notify(t) ==
    /\ pc[t] \in {"u_notify", "r_notify"} /\ mtx = NoOne
    /\ NotifyAll
    /\ Goto(t, "out")
    /\ UNCHANGED <<lockVars, mtx, timed, exclusive, depth, budget>>

-----------------------------------------------------------------------------
AddReader(t) ==
    /\ readers' = readers + 1
    /\ depth' = [depth EXCEPT ![t] = @ + 1]

\* Mutant: a waiting writer holds off new readers, as in a writer-preferring lock.
CallBehindWriters(t, kind) ==
    /\ Idle(t) /\ t \notin exclusive /\ depth[t] < MaxDepth
    /\ IF ~writer_bit /\ waiting_writers = 0
       THEN AddReader(t) /\ UNCHANGED <<pc, timed>>
       ELSE /\ Goto(t, IF kind = "try" THEN "out" ELSE "s_mtx")
            /\ timed' = [timed EXCEPT ![t] = (kind = "until")]
            /\ UNCHANGED <<readers, depth>>
    /\ Spend
    /\ UNCHANGED <<writer_bit, waiting_writers, mtx, cv, exclusive>>

\* TryAddReader, the head of the three shared acquisitions; kind is the one that was called.
CallLockShared(t, kind) ==
    /\ Idle(t) /\ t \notin exclusive /\ depth[t] < MaxDepth
    /\ IF ~writer_bit
       THEN AddReader(t) /\ UNCHANGED <<pc, timed>>
       ELSE /\ Goto(t, IF kind = "try" THEN "out" ELSE "s_mtx")
            /\ timed' = [timed EXCEPT ![t] = (kind = "until")]
            /\ UNCHANGED <<readers, depth>>
    /\ Spend
    /\ UNCHANGED <<writer_bit, waiting_writers, mtx, cv, exclusive>>

\* mtx is held and the predicate evaluated: wait, or go on to the increment.
SharedTest(t) ==
    /\ \/ pc[t] = "s_mtx"
       \/ pc[t] = "s_wait" /\ t \notin cv
    /\ mtx = NoOne
    /\ mtx' = t
    /\ Goto(t, IF writer_bit THEN "s_block" ELSE "s_add")
    /\ UNCHANGED <<lockVars, cv, timed, exclusive, depth, budget>>

\* The deadline passed: wait_until returns the predicate's last value.
SharedTimeout(t) ==
    /\ pc[t] = "s_wait" /\ timed[t] /\ mtx = NoOne
    /\ cv' = cv \ {t}
    /\ IF writer_bit
       THEN Goto(t, "out") /\ UNCHANGED mtx
       ELSE mtx' = t /\ Goto(t, "s_add")
    /\ UNCHANGED <<lockVars, timed, exclusive, depth, budget>>

\* "A writer only sets its bit under mtx, which we hold": the increment is unconditional.
SharedAdd(t) ==
    /\ pc[t] = "s_add" /\ mtx = t
    /\ AddReader(t)
    /\ mtx' = NoOne
    /\ Goto(t, "out")
    /\ UNCHANGED <<writer_bit, waiting_writers, cv, timed, exclusive, budget>>

\* unlock_shared: the decrement; only the last reader goes on.
UnlockShared(t) ==
    /\ pc[t] = "out" /\ depth[t] > 0
    /\ readers' = readers - 1
    /\ depth' = [depth EXCEPT ![t] = @ - 1]
    /\ Goto(t, IF readers = 1 THEN "r_check" ELSE "out")
    /\ UNCHANGED <<writer_bit, waiting_writers, mtx, cv, timed, exclusive, budget>>

\* The last reader looks for a pending writer, without mtx.
ReaderCheck(t) ==
    /\ pc[t] = "r_check"
    /\ Goto(t, IF waiting_writers # 0 THEN "r_notify" ELSE "out")
    /\ UNCHANGED <<lockVars, mtx, cv, timed, exclusive, depth, budget>>

\* A wait on cv ends although nobody notified.
SpuriousWake(t) ==
    /\ t \in cv
    /\ cv' = cv \ {t}
    /\ UNCHANGED <<lockVars, mtx, pc, timed, exclusive, depth, budget>>

-----------------------------------------------------------------------------
Call(t) ==
    \/ \E deadline \in BOOLEAN : CallLock(t, deadline)
    \/ TryLock(t)
    \/ \E kind \in {"lock", "until", "try"} : CallLockShared(t, kind)

Step(t) ==
    \/ LockEnter(t) \/ LockCas(t) \/ LockFail(t) \/ Block(t) \/ LockWake(t) \/ LockTimeout(t)
    \/ LockGiveUp(t) \/ LockReturn(t) \/ Notify(t)
    \/ SharedTest(t) \/ SharedTimeout(t) \/ SharedAdd(t) \/ ReaderCheck(t)

Release(t) == Unlock(t) \/ UnlockShared(t)

Next == \E t \in Threads : Call(t) \/ Step(t) \/ Release(t) \/ SpuriousWake(t)

Spec == Init /\ [][Next]_vars

\* A thread inside a call keeps running and a holder releases in the end.
FairSpec ==
    Spec /\ \A t \in Threads : WF_vars(Step(t)) /\ WF_vars(Release(t))

-----------------------------------------------------------------------------
TypeOK ==
    /\ writer_bit \in BOOLEAN /\ readers \in Nat /\ waiting_writers \in Nat
    /\ mtx \in Threads \cup {NoOne}
    /\ cv \in SUBSET Threads
    /\ pc \in [Threads -> PcStates]
    /\ timed \in [Threads -> BOOLEAN]
    /\ exclusive \in SUBSET Threads
    /\ depth \in [Threads -> Nat]
    /\ budget \in 0..MaxCalls

\* One writer or readers, never both, although lock_shared increments the word after its test and
\* TryAddReader does not take mtx at all.
MutualExclusion ==
    \A t \in exclusive : exclusive = {t} /\ \A u \in Threads : depth[u] = 0

\* "No wakeup is lost": a thread blocked on cv that could have the lock now has a thread on its
\* way to notify it: for a writer the last reader out or a writer, for a reader a writer.
NoLostWakeup ==
    \A t \in cv :
        /\ (pc[t] = "l_wait" /\ Free) =>
              \E u \in Threads : pc[u] \in {"u_notify", "r_check", "r_notify"}
        /\ (pc[t] = "s_wait" /\ ~writer_bit) => \E u \in Threads : pc[u] = "u_notify"

\* Shared acquisition is recursive: a thread that holds the lock shared never gets into a path that
\* can block, whoever waits for the lock.
RecursiveShared == \A t \in Threads : depth[t] > 0 => pc[t] = "out"

\* Every call ends: acquisitions whose holders release, and releases.
CallsEnd == \A t \in Threads : pc[t] # "out" ~> pc[t] = "out"

\* The lock implements the abstract lock.
Abstract == INSTANCE SharedLock
ImplementsSharedLock == Abstract!Spec

=============================================================================
