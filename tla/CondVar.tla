------------------------------- MODULE CondVar -------------------------------
(***************************************************************************)
(* One guest condition variable and the guest mutex its waiters use        *)
(* (kernel/threads/condvar.cpp, mutex.cpp and the wake-up half of          *)
(* pthread.h), with thread cancellation (pthread.cpp).                     *)
(*                                                                         *)
(* A signal given while holding the waiter's mutex is deferred: the waiter *)
(* goes to the signaling thread's defer_waiters and is woken by the Unlock *)
(* that clears the mutex's Deferred flag, or by the thread's next Sleep.   *)
(*                                                                         *)
(* A step is what lies between two accesses other threads can observe.     *)
(* `chain` is the spin lock of the sleep queue chain; sections that hold   *)
(* it from one end to the other are one step, except Wait's, in which a    *)
(* cancellation can arrive between ClearWake and ShouldCancel. m_owner is  *)
(* only ever compared with the comparing thread, so it and m_lock are one  *)
(* variable.  has_user_waiters and cancel_point are written and never      *)
(* decide anything here: cancellation is of the deferred type.             *)
(*                                                                         *)
(* The caller: waits only with the mutex held, all waiters with this one;  *)
(* the cleanup handlers of a canceled thread release the mutex.            *)
(***************************************************************************)
EXTENDS SleepQueue, FiniteSets

CONSTANTS
    Recursive,              \* the mutex is PTHREAD_MUTEX_RECURSIVE (or else ERRORCHECK)
    MaxDeferWaiters,
    Cancellable,            \* the threads posix_pthread_cancel is called on
    MaxCount, MaxCalls      \* bounds: recursion depth; calls in one behaviour

ASSUME CondAssumption ==
    /\ Recursive \in BOOLEAN /\ MaxDeferWaiters \in Nat \ {0}
    /\ Cancellable \subseteq Threads /\ MaxCount \in Nat /\ MaxCalls \in Nat

VARIABLES
    owner, count, deferred,     \* m_owner and m_lock, m_count, m_flags & Deferred
    chain,                      \* holder of sc_lock
    sleepq,
    pc,
    timed, error,               \* Wait's abstime # nullptr, error = ETIMEDOUT
    recurse,                    \* Wait's recurse
    will_sleep, mutex_obj,      \* the latter TRUE for this mutex, FALSE for nullptr
    wake_sema,
    defer_waiters,
    immediate,                  \* the waiters Signal or Broadcast still has to release
    cancel_pending, cancel_enable,
    exiting,                    \* no_cancel
    held,                       \* ghost: how often the thread has locked the mutex
    budget

mutexVars == <<owner, count, deferred>>
waitVars == <<timed, error, recurse, mutex_obj>>
cancelVars == <<cancel_pending, cancel_enable, exiting>>
wakeVars == <<wake_sema, defer_waiters, immediate, will_sleep>>
vars == <<mutexVars, chain, sleepq, pc, waitVars, wakeVars, cancelVars, held, budget>>

\* The states of a thread inside Wait.
Waiting == {"w_enter", "w_add", "w_check", "w_presleep", "w_sleep", "w_result",
            "w_relock", "w_cancel"}
PcStates == Waiting \cup
    {"out", "lock", "unlocked", "release", "exit", "dead"}

Init ==
    /\ owner = NoOne /\ count = 0 /\ deferred = FALSE
    /\ chain = NoOne /\ sleepq = SleepqInit
    /\ pc = [t \in Threads |-> "out"]
    /\ timed = [t \in Threads |-> FALSE] /\ error = [t \in Threads |-> FALSE]
    /\ recurse = [t \in Threads |-> 0]
    /\ will_sleep = [t \in Threads |-> FALSE] /\ mutex_obj = [t \in Threads |-> FALSE]
    /\ wake_sema = [t \in Threads |-> 0]
    /\ defer_waiters = [t \in Threads |-> <<>>]
    /\ immediate = [t \in Threads |-> <<>>]
    /\ cancel_pending = [t \in Threads |-> FALSE]
    /\ cancel_enable = [t \in Threads |-> TRUE]
    /\ exiting = [t \in Threads |-> FALSE]
    /\ held = [t \in Threads |-> 0]
    /\ budget = MaxCalls

Goto(t, state) == pc' = [pc EXCEPT ![t] = state]
Call(t) == pc[t] = "out" /\ budget > 0 /\ budget' = budget - 1

ShouldCancel(t) == cancel_pending[t] /\ cancel_enable[t] /\ ~exiting[t]

\* PthreadTestCancel outside a critical section: posix_pthread_exit, or on to `next`.
TestCancel(t, next) ==
    IF ShouldCancel(t)
    THEN Goto(t, "exit") /\ exiting' = [exiting EXCEPT ![t] = TRUE]
    ELSE Goto(t, next) /\ UNCHANGED exiting

\* One release of the wake semaphore of every thread in the list.
Released(list) ==
    [u \in Threads |-> wake_sema[u] + Cardinality({i \in DOMAIN list : list[i] = u})]

WakeAll(t) ==
    /\ wake_sema' = Released(defer_waiters[t])
    /\ defer_waiters' = [defer_waiters EXCEPT ![t] = <<>>]

-----------------------------------------------------------------------------
(* The mutex. *)

SelfLock(t) ==
    IF Recursive
    THEN count' = count + 1 /\ held' = [held EXCEPT ![t] = @ + 1]
    ELSE UNCHANGED <<count, held>>

\* Lock, reltimedlock and trylock: a thread that owns the mutex already is served at once.
MutexLock(t, kind) ==
    /\ Call(t)
    /\ IF owner = t
       THEN count < MaxCount /\ SelfLock(t) /\ UNCHANGED <<owner, pc>>
       ELSE IF kind = "try"
       THEN /\ owner' = IF owner = NoOne THEN t ELSE owner
            /\ held' = IF owner = NoOne THEN [held EXCEPT ![t] = 1] ELSE held
            /\ UNCHANGED <<count, pc>>
       ELSE Goto(t, "lock") /\ UNCHANGED <<owner, count, held>>
    /\ timed' = [timed EXCEPT ![t] = (kind = "timed")]
    /\ UNCHANGED <<deferred, chain, sleepq, error, recurse, mutex_obj, wakeVars, cancelVars>>

LockAcquire(t) ==
    /\ pc[t] = "lock" /\ owner = NoOne
    /\ owner' = t
    /\ held' = [held EXCEPT ![t] = 1]
    /\ Goto(t, "out")
    /\ UNCHANGED <<count, deferred, chain, sleepq, waitVars, wakeVars, cancelVars, budget>>

LockTimeout(t) ==
    /\ pc[t] = "lock" /\ timed[t]
    /\ Goto(t, "out")
    /\ UNCHANGED <<mutexVars, chain, sleepq, waitVars, wakeVars, cancelVars, held, budget>>

\* Where a thread is once its Unlock is over.
AfterUnlock(t) == IF exiting[t] THEN "exit" ELSE "out"

\* Mutant: the deferred wakes are left to the next Sleep.
UnlockWithoutWake(t) ==
    /\ pc[t] \in {"out", "exit"} /\ owner = t
    /\ held' = [held EXCEPT ![t] = @ - 1]
    /\ IF Recursive /\ count > 0
       THEN count' = count - 1 /\ UNCHANGED <<owner, deferred, pc>>
       ELSE /\ deferred' = FALSE /\ owner' = NoOne
            /\ Goto(t, AfterUnlock(t))
            /\ UNCHANGED count
    /\ UNCHANGED <<chain, sleepq, waitVars, wakeVars, cancelVars, budget>>

\* Unlock of the owner: one level, or the flag is cleared and the mutex given up.
Unlock(t) ==
    /\ pc[t] \in {"out", "exit"} /\ owner = t
    /\ held' = [held EXCEPT ![t] = @ - 1]
    /\ IF Recursive /\ count > 0
       THEN count' = count - 1 /\ UNCHANGED <<owner, deferred, pc>>
       ELSE /\ deferred' = FALSE /\ owner' = NoOne
            /\ Goto(t, IF ~will_sleep[t] /\ deferred THEN "unlocked" ELSE AfterUnlock(t))
            /\ UNCHANGED count
    /\ UNCHANGED <<chain, sleepq, waitVars, wakeVars, cancelVars, budget>>

\* The mutex is free again when the deferred waiters are woken.
UnlockWake(t) ==
    /\ pc[t] = "unlocked"
    /\ WakeAll(t)
    /\ Goto(t, AfterUnlock(t))
    /\ UNCHANGED <<mutexVars, chain, sleepq, waitVars, immediate, will_sleep, cancelVars, held, budget>>

-----------------------------------------------------------------------------
(* Wait. *)

\* The call, up to TestCancel; a caller that does not own the mutex gets EPERM.
CallWait(t, deadline) ==
    /\ Call(t) /\ owner = t
    /\ TestCancel(t, "w_enter")
    /\ timed' = [timed EXCEPT ![t] = deadline]
    /\ UNCHANGED <<mutexVars, chain, sleepq, error, recurse, mutex_obj, wakeVars,
                   cancel_pending, cancel_enable, held>>

\* SleepqLock, will_sleep = true, CvUnlock. With will_sleep set Unlock wakes nobody.
WaitUnlock(t) ==
    /\ pc[t] = "w_enter" /\ chain = NoOne
    /\ chain' = t
    /\ will_sleep' = [will_sleep EXCEPT ![t] = TRUE]
    /\ recurse' = [recurse EXCEPT ![t] = count]
    /\ count' = 0 /\ deferred' = FALSE /\ owner' = NoOne
    /\ Goto(t, "w_add")
    /\ UNCHANGED <<sleepq, timed, error, mutex_obj, wake_sema, defer_waiters, immediate,
                   cancelVars, held, budget>>

ClearWake(t) == wake_sema' = [wake_sema EXCEPT ![t] = 0]

WaitAdd(t) ==
    /\ pc[t] = "w_add"
    /\ mutex_obj' = [mutex_obj EXCEPT ![t] = TRUE]
    /\ sleepq' = SleepqAdd(sleepq, t)
    /\ ClearWake(t)
    /\ Goto(t, "w_check")
    /\ UNCHANGED <<mutexVars, chain, timed, error, recurse, defer_waiters, immediate, will_sleep,
                   cancelVars, held, budget>>

\* Mutant: nobody looks for a cancellation that was pending before ClearWake.
WaitUnchecked(t) ==
    /\ pc[t] = "w_check"
    /\ chain' = NoOne
    /\ error' = [error EXCEPT ![t] = FALSE]
    /\ Goto(t, "w_presleep")
    /\ UNCHANGED <<mutexVars, sleepq, timed, recurse, mutex_obj, wakeVars, cancelVars, held, budget>>

\* ShouldCancel, SleepqUnlock: a pending cancellation skips the sleep.
WaitCheck(t) ==
    /\ pc[t] = "w_check"
    /\ chain' = NoOne
    /\ error' = [error EXCEPT ![t] = FALSE]
    /\ Goto(t, IF ShouldCancel(t) THEN "w_result" ELSE "w_presleep")
    /\ UNCHANGED <<mutexVars, sleepq, timed, recurse, mutex_obj, wakeVars, cancelVars, held, budget>>

\* Sleep: will_sleep = false and the deferred wakes.
WaitPresleep(t) ==
    /\ pc[t] = "w_presleep"
    /\ will_sleep' = [will_sleep EXCEPT ![t] = FALSE]
    /\ WakeAll(t)
    /\ Goto(t, "w_sleep")
    /\ UNCHANGED <<mutexVars, chain, sleepq, waitVars, immediate, cancelVars, held, budget>>

\* Sleep: the wake semaphore.
WaitAcquire(t) ==
    /\ pc[t] = "w_sleep" /\ wake_sema[t] > 0
    /\ wake_sema' = [wake_sema EXCEPT ![t] = @ - 1]
    /\ Goto(t, "w_result")
    /\ UNCHANGED <<mutexVars, chain, sleepq, waitVars, defer_waiters, immediate, will_sleep,
                   cancelVars, held, budget>>

WaitTimeout(t) ==
    /\ pc[t] = "w_sleep" /\ timed[t] /\ wake_sema[t] = 0
    /\ error' = [error EXCEPT ![t] = TRUE]
    /\ Goto(t, "w_result")
    /\ UNCHANGED <<mutexVars, chain, sleepq, timed, recurse, mutex_obj, wakeVars, cancelVars, held, budget>>

\* The sleep is over and the chain locked. The waiter was taken off the queue: Wait succeeds,
\* whatever ended the sleep.
WaitServed(t) ==
    /\ pc[t] = "w_result" /\ chain = NoOne /\ ~sleepq.wchan[t]
    /\ error' = [error EXCEPT ![t] = FALSE]
    /\ mutex_obj' = [mutex_obj EXCEPT ![t] = FALSE]
    /\ Goto(t, "w_relock")
    /\ UNCHANGED <<mutexVars, chain, sleepq, timed, recurse, wakeVars, cancelVars, held, budget>>

\* It is still queued, and canceled or timed out: it leaves on its own.
WaitGiveUp(t) ==
    /\ pc[t] = "w_result" /\ chain = NoOne /\ sleepq.wchan[t]
    /\ ShouldCancel(t) \/ error[t]
    /\ sleepq' = SleepqRemove(sleepq, t)
    /\ mutex_obj' = [mutex_obj EXCEPT ![t] = FALSE]
    /\ Goto(t, IF ShouldCancel(t) THEN "w_cancel" ELSE "w_relock")
    /\ UNCHANGED <<mutexVars, chain, timed, error, recurse, wakeVars, cancelVars, held, budget>>

\* It was woken for nothing: ClearWake and once more around the loop.
WaitAgain(t) ==
    /\ pc[t] = "w_result" /\ chain = NoOne
    /\ sleepq.wchan[t] /\ ~ShouldCancel(t) /\ ~error[t]
    /\ chain' = t
    /\ ClearWake(t)
    /\ Goto(t, "w_check")
    /\ UNCHANGED <<mutexVars, sleepq, waitVars, defer_waiters, immediate, will_sleep,
                   cancelVars, held, budget>>

\* Mutant: Lock instead of CvLock.
RelockOnce(t) ==
    /\ pc[t] \in {"w_relock", "w_cancel"} /\ owner = NoOne
    /\ owner' = t
    /\ IF pc[t] = "w_cancel" THEN TestCancel(t, "out") ELSE Goto(t, "out") /\ UNCHANGED exiting
    /\ UNCHANGED <<count, deferred, chain, sleepq, waitVars, wakeVars, cancel_pending,
                   cancel_enable, held, budget>>

\* CvLock, then TestCancel if the waiter was canceled.
WaitRelock(t) ==
    /\ pc[t] \in {"w_relock", "w_cancel"} /\ owner = NoOne
    /\ owner' = t
    /\ count' = recurse[t]
    /\ IF pc[t] = "w_cancel" THEN TestCancel(t, "out") ELSE Goto(t, "out") /\ UNCHANGED exiting
    /\ UNCHANGED <<deferred, chain, sleepq, waitVars, wakeVars, cancel_pending, cancel_enable,
                   held, budget>>

-----------------------------------------------------------------------------
(* Signal and Broadcast: one section under the chain lock, then the releases. *)

\* The waiter's mutex is held by the signaling thread.
Defers(t, td) == mutex_obj[td] /\ owner = t

\* Mutant: the array is taken for full one entry late.
FlushedLate(n) == ((n - 1) \div (MaxDeferWaiters + 1)) * (MaxDeferWaiters + 1)

\* Of n waiters collected in an array of MaxDeferWaiters, which is flushed when the next one
\* does not fit, so many have been released when the last one is in.
Flushed(n) == ((n - 1) \div MaxDeferWaiters) * MaxDeferWaiters

\* Wake the waiters of the list after taking them off the queue: through defer_waiters, or through
\* Broadcast's immediate_wakes (Signal's single release).
Wake(t, list) ==
    LET defers == Defers(t, Head(list))
        all == IF defers THEN defer_waiters[t] \o list ELSE list
        flushed == Flushed(Len(all))
        kept == SubSeq(all, flushed + 1, Len(all))
    IN  /\ wake_sema' = Released(SubSeq(all, 1, flushed))
        /\ IF defers
           THEN /\ defer_waiters' = [defer_waiters EXCEPT ![t] = kept]
                /\ deferred' = TRUE
                /\ UNCHANGED <<immediate, pc>>
           ELSE /\ immediate' = [immediate EXCEPT ![t] = kept]
                /\ Goto(t, "release")
                /\ UNCHANGED <<defer_waiters, deferred>>

\* Signal(nullptr) takes the oldest waiter, Signal(thread) that thread if it waits.
Signal(t, td) ==
    /\ Call(t) /\ chain = NoOne
    /\ \E i \in 1..Len(sleepq.blocked) : sleepq.blocked[i] = td
    /\ sleepq' = SleepqRemove(sleepq, td)
    /\ Wake(t, <<td>>)
    /\ UNCHANGED <<owner, count, chain, waitVars, will_sleep, cancelVars, held>>

Broadcast(t) ==
    /\ Call(t) /\ chain = NoOne /\ sleepq.blocked # <<>>
    /\ sleepq' = SleepqDrop(sleepq)
    /\ Wake(t, sleepq.blocked)
    /\ UNCHANGED <<owner, count, chain, waitVars, will_sleep, cancelVars, held>>

Release(t) ==
    /\ pc[t] = "release"
    /\ wake_sema' = [wake_sema EXCEPT ![Head(immediate[t])] = @ + 1]
    /\ immediate' = [immediate EXCEPT ![t] = Tail(@)]
    /\ Goto(t, IF Len(immediate[t]) = 1 THEN "out" ELSE "release")
    /\ UNCHANGED <<mutexVars, chain, sleepq, waitVars, defer_waiters, will_sleep, cancelVars, held, budget>>

-----------------------------------------------------------------------------
(* Cancellation. *)

\* posix_pthread_cancel of another thread: the flag, then once a release.
Cancel(t, td) ==
    /\ Call(t) /\ td # t /\ pc[td] # "dead" /\ ~cancel_pending[td]
    /\ cancel_pending' = [cancel_pending EXCEPT ![td] = TRUE]
    /\ immediate' = [immediate EXCEPT ![t] = <<td>>]
    /\ Goto(t, "release")
    /\ UNCHANGED <<mutexVars, chain, sleepq, waitVars, wake_sema, defer_waiters, will_sleep,
                   cancel_enable, exiting, held>>

\* posix_pthread_setcancelstate; enabling is also posix_pthread_testcancel.
SetCancelState(t, enable) ==
    /\ Call(t)
    /\ cancel_enable' = [cancel_enable EXCEPT ![t] = enable]
    /\ IF enable /\ cancel_pending[t]
       THEN Goto(t, "exit") /\ exiting' = [exiting EXCEPT ![t] = TRUE]
       ELSE UNCHANGED <<pc, exiting>>
    /\ UNCHANGED <<mutexVars, chain, sleepq, waitVars, wakeVars, cancel_pending, held>>

\* The cleanup handlers have released the mutex (Unlock): the thread is gone.
Exit(t) ==
    /\ pc[t] = "exit" /\ owner # t
    /\ Goto(t, "dead")
    /\ UNCHANGED <<mutexVars, chain, sleepq, waitVars, wakeVars, cancelVars, held, budget>>

-----------------------------------------------------------------------------
Calls(t) ==
    \/ \E kind \in {"lock", "timed", "try"} : MutexLock(t, kind)
    \/ \E deadline \in BOOLEAN : CallWait(t, deadline)
    \/ \E td \in Threads : Signal(t, td)
    \/ Broadcast(t)
    \/ \E td \in Cancellable : Cancel(t, td)
    \/ \E enable \in BOOLEAN : t \in Cancellable /\ SetCancelState(t, enable)

Step(t) ==
    \/ LockAcquire(t) \/ LockTimeout(t) \/ UnlockWake(t)
    \/ WaitUnlock(t) \/ WaitAdd(t) \/ WaitCheck(t) \/ WaitPresleep(t)
    \/ WaitAcquire(t) \/ WaitTimeout(t) \/ WaitServed(t) \/ WaitGiveUp(t)
    \/ WaitAgain(t) \/ WaitRelock(t) \/ Release(t) \/ Exit(t)

Next == \E t \in Threads : Calls(t) \/ Step(t) \/ Unlock(t)

Spec == Init /\ [][Next]_vars

\* A thread inside a call keeps running, and who holds the mutex gives it up in the end.
FairSpec == Spec /\ \A t \in Threads : WF_vars(Step(t)) /\ WF_vars(Unlock(t))

-----------------------------------------------------------------------------
TypeOK ==
    /\ owner \in Threads \cup {NoOne} /\ count \in Nat /\ deferred \in BOOLEAN
    /\ chain \in Threads \cup {NoOne}
    /\ SleepqType(sleepq)
    /\ pc \in [Threads -> PcStates]
    /\ timed \in [Threads -> BOOLEAN] /\ error \in [Threads -> BOOLEAN]
    /\ recurse \in [Threads -> Nat]
    /\ will_sleep \in [Threads -> BOOLEAN] /\ mutex_obj \in [Threads -> BOOLEAN]
    /\ wake_sema \in [Threads -> Nat]
    /\ defer_waiters \in [Threads -> Seq(Threads)]
    /\ \A t \in Threads : Len(defer_waiters[t]) <= MaxDeferWaiters
    /\ immediate \in [Threads -> Seq(Threads)]
    /\ cancel_pending \in [Threads -> BOOLEAN] /\ cancel_enable \in [Threads -> BOOLEAN]
    /\ exiting \in [Threads -> BOOLEAN]
    /\ held \in [Threads -> Nat]
    /\ budget \in 0..MaxCalls

\* The sleep queue is sound through waits, signals, broadcasts, timeouts and cancellations: the
\* asserts of SleepqRemove hold, nobody blocks without an object to block on, no object is shared.
SleepQueueSound == BlockedSound(sleepq) /\ ObjectsSound(sleepq) /\ ObjectsDistinct(sleepq)

\* A thread has the mutex as often locked as it has locked it itself, whatever others did with
\* m_count while it waited.
RecursionRestored ==
    \A t \in Threads :
        IF pc[t] \in Waiting \ {"w_enter"}
        THEN held[t] = recurse[t] + 1
        ELSE held[t] = IF owner = t THEN count + 1 ELSE 0

\* A waiter that was taken off the queue and sleeps.
Taken(t) == pc[t] = "w_sleep" /\ ~sleepq.wchan[t] /\ wake_sema[t] = 0

\* Somebody still owes it a release: a thread that releases now, or one that keeps it among its
\* deferred waiters and is bound to wake them, by an Unlock with the flag set, or by a Sleep.
Owes(u, t) ==
    \/ \E i \in DOMAIN immediate[u] : immediate[u][i] = t
    \/ /\ \E i \in DOMAIN defer_waiters[u] : defer_waiters[u][i] = t
       /\ \/ pc[u] \in {"unlocked", "w_add", "w_check", "w_presleep"}
          \/ owner = u /\ deferred

\* No signal is lost: a waiter that was signaled is owed its wake, as long as nobody is canceled.
SignalNotLost ==
    (\A u \in Threads : ~cancel_pending[u]) =>
        \A t \in Threads : Taken(t) => \E u \in Threads : Owes(u, t)

\* A waiter that was signaled wakes up, whoever is canceled.
SignaledWaiterWakes == \A t \in Threads : Taken(t) ~> ~Taken(t)

\* A wait with a deadline ends, and a cancellation ends a wait however it falls between
\* ClearWake, ShouldCancel and Sleep.
WaitsEnd ==
    \A t \in Threads :
        (pc[t] \in Waiting /\ (timed[t] \/ ShouldCancel(t))) ~> pc[t] \notin Waiting

=============================================================================
