----------------------------- MODULE EventFlag -----------------------------
(***************************************************************************)
(* The event flag of the guest kernel (class EventFlagInternal and the     *)
(* sceKernel*EventFlag entry points of threads/event_flag.cpp), one object *)
(* from its creation to the end of its destructor.                         *)
(*                                                                         *)
(* A method locks m_mutex in its first line and holds it to its last, but  *)
(* for the waits on waiter.cv and m_destroy_cv.  So it has one step that   *)
(* calls it and may leave the thread blocked on m_mutex (Enter), one from  *)
(* the lock to such a wait or the end, and one after the wait; the loop of *)
(* Set is one step per waiter with the mutex held, and the destructor lets *)
(* the mutex go a step before the object is gone.  sceKernelPollEventFlag  *)
(* is a wait of zero microseconds: it queues like any other.               *)
(*                                                                         *)
(* Nothing keeps a thread from being blocked on m_mutex, or from getting   *)
(* it in that last step, when the object goes.  What it does from then on  *)
(* is undefined; the behaviour ends there and nothing is claimed of it.    *)
(***************************************************************************)
EXTENDS Integers, Sequences, SequencesExt

CONSTANTS
    Threads,        \* guest threads
    NoOne,          \* the holder of a free mutex
    Prio,           \* attr.prio of each thread
    Bits,           \* the bits of m_bits the guest uses
    Requests,       \* what the guest waits for, records of RequestType
    InitPatterns,   \* initial bits the guest creates the flag with
    SetPatterns,    \* arguments of Set
    ClearPatterns,  \* arguments of Clear: the bits that stay
    CancelPatterns, \* arguments of Cancel
    MaxCalls        \* bound: calls the guest makes in one behaviour

RequestType == [pattern : (SUBSET Bits) \ {{}}, mode : {"And", "Or"},
                clear : {"None", "All", "Bits"}, timed : BOOLEAN]

ASSUME ThreadAssumption == NoOne \notin Threads /\ Prio \in [Threads -> Nat]
ASSUME ArgumentAssumption ==
    /\ Requests \subseteq RequestType
    /\ InitPatterns \subseteq SUBSET Bits
    /\ SetPatterns \subseteq SUBSET Bits /\ ClearPatterns \subseteq SUBSET Bits
    /\ CancelPatterns \subseteq SUBSET Bits
    /\ MaxCalls \in Nat

Flags == {"ready", "canceled", "deleted"}
Results == {"none", "OK", "EACCES", "EPERM", "ETIMEDOUT", "ECANCELED"}

VARIABLES
    m_bits, m_waiters, m_deleted,
    single, prio,   \* m_thread_mode = Single, m_queue_mode = ThreadPrio
    mutex,          \* holder of m_mutex across a step of Set's loop
    it,             \* position of Set's iterator in m_waiters
    freed,          \* the destructor is over
    destroy_notified,
    pc, request,    \* where each thread is and what it waits for
    flags, notified, result,    \* the Waiter of each thread
    ret,            \* what the thread's last wait returned
    consumed,       \* ghost: how often bits were taken for the thread's last sleep
    budget          \* calls the guest may still make

objectVars == <<m_deleted, single, prio, freed, destroy_notified>>
waiterVars == <<flags, notified, result>>
vars == <<m_bits, m_waiters, m_deleted, single, prio, mutex, it, freed, destroy_notified, pc,
          request, flags, notified, result, ret, consumed, budget>>

NoRequest == [pattern |-> {}, mode |-> "Or", clear |-> "None", timed |-> FALSE]

Init ==
    /\ m_bits \in InitPatterns
    /\ m_waiters = <<>> /\ m_deleted = FALSE
    /\ single \in BOOLEAN /\ prio \in BOOLEAN
    /\ mutex = NoOne /\ it = 1
    /\ freed = FALSE /\ destroy_notified = FALSE
    /\ pc = [t \in Threads |-> "idle"]
    /\ request = [t \in Threads |-> NoRequest]
    /\ flags = [t \in Threads |-> {}]
    /\ notified = [t \in Threads |-> FALSE]
    /\ result = [t \in Threads |-> {}]
    /\ ret = [t \in Threads |-> "none"]
    /\ consumed = [t \in Threads |-> 0]
    /\ budget = MaxCalls

-----------------------------------------------------------------------------
\* The guest calls a method of an object that is still there, also of one whose destructor runs,
\* and waits for its mutex.  Which method it is, and with what arguments, shows in the step that
\* gets the mutex: no line before that touches the object.
Enter(t) ==
    /\ pc[t] = "idle" /\ ~freed /\ budget > 0
    /\ pc' = [pc EXCEPT ![t] = "enter"]
    /\ budget' = budget - 1
    /\ UNCHANGED <<objectVars, m_bits, m_waiters, mutex, it, request, waiterVars, ret, consumed>>

\* The lock of a method's first line.
Lock(t) == pc[t] = "enter" /\ mutex = NoOne

\* The method ends, and its lock with it.
Return(t) == pc' = [pc EXCEPT ![t] = "idle"]

ConditionMet(r, bits) ==
    IF r.mode = "And" THEN r.pattern \subseteq bits ELSE r.pattern \cap bits # {}

\* What ApplyClear leaves of the bits.
ApplyClear(r, bits) ==
    CASE r.clear = "None" -> bits
      [] r.clear = "All" -> {}
      [] r.clear = "Bits" -> bits \ r.pattern

\* Mutant: the waiter goes ahead of those of its own priority or greater.
InsertAhead(i, t) ==
    IF ~prio THEN i = Len(m_waiters) + 1
    ELSE /\ \A j \in 1..(i - 1) : Prio[m_waiters[j]] <= Prio[t]
         /\ i <= Len(m_waiters) => Prio[m_waiters[i]] > Prio[t]

\* AddWaiter: the end of the list, or before the first waiter whose number is smaller.
IsInsertPosition(i, t) ==
    IF ~prio THEN i = Len(m_waiters) + 1
    ELSE /\ \A j \in 1..(i - 1) : Prio[m_waiters[j]] >= Prio[t]
         /\ i <= Len(m_waiters) => Prio[m_waiters[i]] < Prio[t]

AddWaiter(t) ==
    \E i \in 1..(Len(m_waiters) + 1) :
        IsInsertPosition(i, t) /\ m_waiters' = InsertAt(m_waiters, i, t)

\* Wait and Poll, the cases that return at once.
WaitFast(t, r) ==
    /\ Lock(t)
    /\ \/ /\ m_deleted
          /\ ret' = [ret EXCEPT ![t] = "EACCES"]
          /\ UNCHANGED <<m_bits, result>>
       \/ /\ ~m_deleted /\ single /\ m_waiters # <<>>
          /\ ret' = [ret EXCEPT ![t] = "EPERM"]
          /\ UNCHANGED <<m_bits, result>>
       \/ /\ ~m_deleted /\ (single => m_waiters = <<>>) /\ ConditionMet(r, m_bits)
          /\ result' = [result EXCEPT ![t] = m_bits]
          /\ m_bits' = ApplyClear(r, m_bits)
          /\ ret' = [ret EXCEPT ![t] = "OK"]
    /\ Return(t)
    /\ UNCHANGED <<objectVars, m_waiters, mutex, it, request, flags, notified, consumed, budget>>

\* Wait and Poll up to the wait on the waiter's condition variable.
WaitEnqueue(t, r) ==
    /\ Lock(t)
    /\ ~m_deleted /\ (single => m_waiters = <<>>) /\ ~ConditionMet(r, m_bits)
    /\ AddWaiter(t)
    /\ request' = [request EXCEPT ![t] = r]
    /\ flags' = [flags EXCEPT ![t] = {}]
    /\ notified' = [notified EXCEPT ![t] = FALSE]
    /\ result' = [result EXCEPT ![t] = {}]
    /\ consumed' = [consumed EXCEPT ![t] = 0]
    /\ pc' = [pc EXCEPT ![t] = "wait"]
    /\ UNCHANGED <<objectVars, m_bits, mutex, it, ret, budget>>

\* Mutant: the destructor is not told that its last waiter has gone.
RemoveQuietly(t) ==
    /\ \E i \in 1..Len(m_waiters) : m_waiters[i] = t /\ m_waiters' = RemoveAt(m_waiters, i)
    /\ UNCHANGED destroy_notified

RemoveWaiter(t) ==
    /\ \E i \in 1..Len(m_waiters) : m_waiters[i] = t /\ m_waiters' = RemoveAt(m_waiters, i)
    /\ destroy_notified' = (destroy_notified \/ (m_deleted /\ m_waiters' = <<>>))

Verdict(f) == CASE "canceled" \in f -> "ECANCELED"
                [] "canceled" \notin f /\ "deleted" \in f -> "EACCES"
                [] OTHER -> "OK"

\* The Waiter on the stack ends with the wait.
WaitEnd(t) ==
    /\ RemoveWaiter(t)
    /\ Return(t)
    /\ request' = [request EXCEPT ![t] = NoRequest]
    /\ flags' = [flags EXCEPT ![t] = {}]
    /\ notified' = [notified EXCEPT ![t] = FALSE]

\* The predicate of the wait holds when the thread has the mutex again, because it was notified
\* or because its time is up.
WaitServed(t) ==
    /\ pc[t] = "wait" /\ mutex = NoOne
    /\ flags[t] # {} /\ (notified[t] \/ request[t].timed)
    /\ WaitEnd(t)
    /\ ret' = [ret EXCEPT ![t] = Verdict(flags[t])]
    /\ UNCHANGED <<m_deleted, single, prio, freed, m_bits, mutex, it, result, consumed, budget>>

\* Mutant: wait_for does not look at the predicate once the time is up.
TimeoutBlindly(t) ==
    /\ pc[t] = "wait" /\ mutex = NoOne /\ request[t].timed
    /\ WaitEnd(t)
    /\ result' = [result EXCEPT ![t] = m_bits]
    /\ ret' = [ret EXCEPT ![t] = "ETIMEDOUT"]
    /\ UNCHANGED <<m_deleted, single, prio, freed, m_bits, mutex, it, consumed, budget>>

\* wait_for returns false: the time is up and the predicate is still false.
WaitTimeout(t) ==
    /\ pc[t] = "wait" /\ mutex = NoOne
    /\ request[t].timed /\ flags[t] = {}
    /\ WaitEnd(t)
    /\ result' = [result EXCEPT ![t] = m_bits]
    /\ ret' = [ret EXCEPT ![t] = "ETIMEDOUT"]
    /\ UNCHANGED <<m_deleted, single, prio, freed, m_bits, mutex, it, consumed, budget>>

-----------------------------------------------------------------------------
\* Set up to its loop.
SetEnter(t, bits) ==
    /\ Lock(t)
    /\ m_bits' = m_bits \cup bits
    /\ mutex' = t /\ it' = 1
    /\ pc' = [pc EXCEPT ![t] = "set"]
    /\ UNCHANGED <<objectVars, m_waiters, request, waiterVars, ret, consumed, budget>>

\* Mutant: the loop ends with the first waiter whose condition is not met.
SetSkipAll(t) ==
    /\ pc[t] = "set" /\ it <= Len(m_waiters)
    /\ ~ConditionMet(request[m_waiters[it]], m_bits)
    /\ it' = Len(m_waiters) + 1
    /\ UNCHANGED <<objectVars, m_bits, m_waiters, mutex, pc, request, waiterVars, ret,
                   consumed, budget>>

\* One iteration of Set, a waiter whose condition is not met.
SetSkip(t) ==
    /\ pc[t] = "set" /\ it <= Len(m_waiters)
    /\ ~ConditionMet(request[m_waiters[it]], m_bits)
    /\ it' = it + 1
    /\ UNCHANGED <<objectVars, m_bits, m_waiters, mutex, pc, request, waiterVars, ret,
                   consumed, budget>>

\* Mutant: the served waiter is unlinked and the iterator moves on all the same.
SetErase(t) ==
    /\ pc[t] = "set" /\ it <= Len(m_waiters)
    /\ ConditionMet(request[m_waiters[it]], m_bits)
    /\ m_waiters' = RemoveAt(m_waiters, it)
    /\ it' = it + 1
    /\ UNCHANGED <<objectVars, m_bits, mutex, pc, request, waiterVars, ret, consumed, budget>>

\* One iteration of Set, a waiter whose condition is met; one that is ready already is served
\* again.
SetServe(t) ==
    /\ pc[t] = "set" /\ it <= Len(m_waiters)
    /\ ConditionMet(request[m_waiters[it]], m_bits)
    /\ LET w == m_waiters[it] IN
          /\ result' = [result EXCEPT ![w] = m_bits]
          /\ m_bits' = ApplyClear(request[w], m_bits)
          /\ flags' = [flags EXCEPT ![w] = @ \cup {"ready"}]
          /\ notified' = [notified EXCEPT ![w] = TRUE]
          /\ consumed' = [consumed EXCEPT ![w] = @ + 1]
    /\ it' = it + 1
    /\ UNCHANGED <<objectVars, m_waiters, mutex, pc, request, ret, budget>>

SetReturn(t) ==
    /\ pc[t] = "set" /\ it > Len(m_waiters)
    /\ mutex' = NoOne
    /\ Return(t)
    /\ UNCHANGED <<objectVars, m_bits, m_waiters, it, request, waiterVars, ret, consumed,
                   budget>>

Clear(t, bits) ==
    /\ Lock(t)
    /\ m_bits' = m_bits \cap bits
    /\ Return(t)
    /\ UNCHANGED <<objectVars, m_waiters, mutex, it, request, waiterVars, ret, consumed, budget>>

Listed(w) == \E i \in 1..Len(m_waiters) : m_waiters[i] = w

\* The loop shared by Cancel and the destructor: every waiter in the list is flagged and notified.
FlagAll(flag) ==
    /\ flags' = [w \in Threads |-> IF Listed(w) THEN flags[w] \cup {flag} ELSE flags[w]]
    /\ notified' = [w \in Threads |-> notified[w] \/ Listed(w)]

Cancel(t, pattern) ==
    /\ Lock(t)
    /\ m_bits' = pattern
    /\ FlagAll("canceled")
    /\ result' = [w \in Threads |-> IF Listed(w) THEN pattern ELSE result[w]]
    /\ Return(t)
    /\ UNCHANGED <<objectVars, m_waiters, mutex, it, request, ret, consumed, budget>>

\* Mutant: the destructor does not wait for its waiters.
DeleteAtOnce(t) ==
    /\ Lock(t) /\ ~m_deleted
    /\ m_deleted' = TRUE
    /\ FlagAll("deleted")
    /\ pc' = [pc EXCEPT ![t] = "free"]
    /\ UNCHANGED <<single, prio, freed, destroy_notified, m_bits, m_waiters, mutex, it, request,
                   result, ret, consumed, budget>>

\* sceKernelDeleteEventFlag: the destructor up to m_destroy_cv.wait, which returns at once when
\* nobody waits.  A guest deletes an object once.
Delete(t) ==
    /\ Lock(t) /\ ~m_deleted
    /\ m_deleted' = TRUE
    /\ FlagAll("deleted")
    /\ pc' = [pc EXCEPT ![t] = IF m_waiters = <<>> THEN "free" ELSE "delete"]
    /\ UNCHANGED <<single, prio, freed, destroy_notified, m_bits, m_waiters, mutex, it, request,
                   result, ret, consumed, budget>>

\* m_destroy_cv.wait returns; the destructor's lock ends with its body.
DeleteDone(t) ==
    /\ pc[t] = "delete" /\ mutex = NoOne /\ destroy_notified /\ m_waiters = <<>>
    /\ pc' = [pc EXCEPT ![t] = "free"]
    /\ UNCHANGED <<objectVars, m_bits, m_waiters, mutex, it, request, waiterVars, ret, consumed,
                   budget>>

\* The members and the memory of the object go, whoever waits for the mutex or has got it since.
Free(t) ==
    /\ pc[t] = "free"
    /\ freed' = TRUE
    /\ Return(t)
    /\ UNCHANGED <<m_deleted, single, prio, destroy_notified, m_bits, m_waiters, mutex, it,
                   request, waiterVars, ret, consumed, budget>>

-----------------------------------------------------------------------------
\* A method from its lock to its first wait or its end.
Method(t) ==
    \/ \E r \in Requests : WaitFast(t, r) \/ WaitEnqueue(t, r)
    \/ \E bits \in SetPatterns : SetEnter(t, bits)
    \/ \E bits \in ClearPatterns : Clear(t, bits)
    \/ \E pattern \in CancelPatterns : Cancel(t, pattern)
    \/ Delete(t)

\* What a thread does by itself once it is in a call, as long as the object is there.
Step(t) ==
    /\ ~freed
    /\ \/ Method(t)
       \/ WaitServed(t) \/ WaitTimeout(t)
       \/ SetSkip(t) \/ SetServe(t) \/ SetReturn(t)
       \/ DeleteDone(t) \/ Free(t)

Next == \E t \in Threads : Enter(t) \/ Step(t)

Spec == Init /\ [][Next]_vars

\* A thread inside a call keeps running: it takes a mutex that is free and answers a notify_one.
FairSpec == Spec /\ \A t \in Threads : WF_vars(Step(t))

-----------------------------------------------------------------------------
TypeOK ==
    /\ m_bits \in SUBSET Bits
    /\ m_waiters \in Seq(Threads)
    /\ m_deleted \in BOOLEAN /\ single \in BOOLEAN /\ prio \in BOOLEAN
    /\ mutex \in Threads \cup {NoOne}
    /\ it \in Nat \ {0} /\ (mutex # NoOne => it <= Len(m_waiters) + 1)
    /\ freed \in BOOLEAN /\ destroy_notified \in BOOLEAN
    /\ pc \in [Threads -> {"idle", "enter", "wait", "set", "delete", "free"}]
    /\ request \in [Threads -> RequestType \cup {NoRequest}]
    /\ flags \in [Threads -> SUBSET Flags]
    /\ notified \in [Threads -> BOOLEAN]
    /\ result \in [Threads -> SUBSET Bits]
    /\ ret \in [Threads -> Results]
    /\ consumed \in [Threads -> Nat]
    /\ budget \in 0..MaxCalls

\* m_waiters links exactly the Waiter objects on the stacks of threads inside a wait, each once,
\* in the order of their numbers when the flag was created for it, and never two when the flag
\* allows one waiter: no loop of Set, Cancel or the destructor touches a dead stack frame.
WaitersSound ==
    /\ \A t \in Threads : Listed(t) <=> pc[t] = "wait"
    /\ \A i, j \in 1..Len(m_waiters) : m_waiters[i] = m_waiters[j] => i = j
    /\ prio => \A i, j \in 1..Len(m_waiters) : i < j => Prio[m_waiters[i]] >= Prio[m_waiters[j]]
    /\ single => Len(m_waiters) <= 1

\* No lost wakeup: whenever no Set is in its loop, a waiter nobody has flagged waits for bits that
\* are not there, whatever was set, consumed, cleared and cancelled before.
NoEligibleSleeper ==
    mutex = NoOne =>
        \A i \in 1..Len(m_waiters) :
            flags[m_waiters[i]] = {} => ~ConditionMet(request[m_waiters[i]], m_bits)

\* A sleeper that returns OK reports bits that met its condition when they were taken for it; one
\* that times out had none taken, also when a Set reached it after its time was up and before it
\* held the mutex again.
HonestReturnStep ==
    \A t \in Threads :
        pc[t] = "wait" /\ pc'[t] = "idle" =>
            /\ ret'[t] = "OK" => consumed'[t] >= 1 /\ ConditionMet(request[t], result'[t])
            /\ ret'[t] = "ETIMEDOUT" => consumed'[t] = 0
HonestReturn == [][HonestReturnStep]_vars

\* The destructor waits for every waiter: when the object goes, no thread sleeps in its list, has
\* been woken and must lock m_mutex once more, or is inside the destructor, whatever the waiters
\* leave by and whoever keeps calling meanwhile.  Only threads it does not wait for may be inside:
\* blocked on m_mutex, or in a Set that got the mutex after the destructor had let it go.
FreedAfterWaiters == freed => \A t \in Threads : pc[t] \in {"idle", "enter", "set"}

\* An untimed wait nobody has decided about.
Sleeps(t) == pc[t] = "wait" /\ ~request[t].timed /\ flags[t] = {}

\* Every call ends or sleeps until somebody sets its bits: a deletion ends although waiters leave
\* by timeout, by their verdict or by its own.  The one exception is a thread that a destroyed
\* object leaves blocked on its mutex or in Set.
CallsEnd ==
    \A t \in Threads :
        pc[t] # "idle" ~> pc[t] = "idle" \/ Sleeps(t) \/ (freed /\ pc[t] \in {"enter", "set"})

=============================================================================
