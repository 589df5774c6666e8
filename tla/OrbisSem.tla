------------------------------ MODULE OrbisSem ------------------------------
(***************************************************************************)
(* The counting semaphore of the guest kernel (class OrbisSem and the      *)
(* sceKernel*Sema entry points of threads/semaphore.cpp), one slot of      *)
(* orbis_sems through one lifetime: created, used, deleted.                *)
(*                                                                         *)
(* Every method holds OrbisSem::mutex from its first to its last line, so  *)
(* a method body is one step that needs the mutex free; the loop of Signal *)
(* is one step per iteration with the mutex held, and the sleep of a       *)
(* waiter, which happens with the mutex released, is split at the two      *)
(* points where another thread can get in: before the host semaphore is    *)
(* acquired (or times out) and before the mutex is taken again.            *)
(***************************************************************************)
EXTENDS Integers, Sequences, SequencesExt

CONSTANTS
    Threads,        \* guest threads
    NoOne,          \* the holder of a free mutex
    Prio,           \* attr.prio of each thread; a greater number is a lower priority
    Needs,          \* needCount arguments the guest passes
    SignalCounts,   \* signalCount arguments, negative ones included
    SetCounts,      \* setCount arguments of sceKernelCancelSema
    InitCounts,     \* initCount arguments of sceKernelCreateSema
    MaxCounts,      \* maxCount arguments of sceKernelCreateSema
    Timeouts,       \* values of *pTimeout
    Overrun,        \* by how much a measured wait may exceed its timeout
    IntMax,         \* greatest s32
    U32,            \* number of u32 values
    MaxCalls        \* bound: calls the guest makes on the semaphore in one behaviour

ASSUME ThreadAssumption == NoOne \notin Threads /\ Prio \in [Threads -> Nat]
ASSUME CountAssumption ==
    /\ IntMax \in Nat /\ Needs \subseteq 0..IntMax
    /\ SignalCounts \subseteq (-IntMax)..IntMax
    /\ SetCounts \subseteq (-IntMax)..IntMax
    /\ InitCounts \subseteq (-IntMax)..IntMax /\ MaxCounts \subseteq (-IntMax)..IntMax
ASSUME TimeAssumption ==
    /\ U32 \in Nat \ {0} /\ Overrun \in Nat /\ Timeouts \subseteq 0..(U32 - 1)
ASSUME CallAssumption == MaxCalls \in Nat

\* A null pTimeout.
NoTimeout == -1

Flags == {"signaled", "deleted", "canceled"}
Results == {"none", "OK", "EINVAL", "ESRCH", "EBUSY", "ETIMEDOUT", "EACCES", "ECANCELED"}
Calls == [op : {"wait"}, n : Needs, timeout : Timeouts \cup {NoTimeout}]
            \cup [op : {"poll"}, n : Needs, timeout : {NoTimeout}]
            \cup [op : {"signal"}, n : SignalCounts, timeout : {NoTimeout}]
            \cup [op : {"cancel"}, n : SetCounts, timeout : {NoTimeout}]
            \cup [op : {"delete"}, n : {0}, timeout : {NoTimeout}]

VARIABLES
    slot,           \* storage of the object: "free", "live" or "erased"
    token_count, max_count, init_count, is_fifo,
    wait_list,      \* the threads whose WaitingThread is linked, in list order
    mutex,          \* holder of OrbisSem::mutex across a step of Signal's loop
    it,             \* position of Signal's iterator in wait_list
    pc, call,       \* where each thread is and the arguments of its call
    was,            \* was_signaled, was_deleted, was_canceled of each WaitingThread
    sem,            \* permits of the BinarySemaphore of each WaitingThread
    elapsed,        \* the measured length of the sleep
    remaining,      \* *pTimeout when the call returned
    result,         \* what the thread's last call returned
    debits,         \* ghost: how often tokens were taken for the thread's last call
    budget          \* calls the guest may still make

objectVars == <<slot, max_count, init_count, is_fifo>>
waiterVars == <<was, sem, elapsed, remaining>>
vars == <<slot, token_count, max_count, init_count, is_fifo, wait_list, mutex, it, pc,
          call, was, sem, elapsed, remaining, result, debits, budget>>

NoCall == [op |-> "none", n |-> 0, timeout |-> NoTimeout]

Init ==
    /\ slot = "free"
    /\ token_count = 0 /\ max_count = 0 /\ init_count = 0 /\ is_fifo = FALSE
    /\ wait_list = <<>> /\ mutex = NoOne /\ it = 1
    /\ pc = [t \in Threads |-> "idle"]
    /\ call = [t \in Threads |-> NoCall]
    /\ was = [t \in Threads |-> {}]
    /\ sem = [t \in Threads |-> 0]
    /\ elapsed = [t \in Threads |-> 0]
    /\ remaining = [t \in Threads |-> 0]
    /\ result = [t \in Threads |-> "none"]
    /\ debits = [t \in Threads |-> 0]
    /\ budget = MaxCalls

-----------------------------------------------------------------------------
\* s32 addition as the build computes it: an overflow wraps.
Add32(a, b) == IF a + b > IntMax THEN a + b - 2 * (IntMax + 1) ELSE
               IF a + b < -IntMax - 1 THEN a + b + 2 * (IntMax + 1) ELSE a + b

\* sceKernelCreateSema: the argument check, then the constructor in a free slot.
CreateSema(t, initCount, maxCount, fifo) ==
    /\ slot = "free" /\ pc[t] = "idle"
    /\ IF initCount < 0 \/ maxCount <= 0 \/ initCount > maxCount
       THEN /\ result' = [result EXCEPT ![t] = "EINVAL"]
            /\ UNCHANGED <<objectVars, token_count>>
       ELSE /\ slot' = "live"
            /\ token_count' = initCount /\ init_count' = initCount
            /\ max_count' = maxCount /\ is_fifo' = fifo
            /\ result' = [result EXCEPT ![t] = "OK"]
    /\ UNCHANGED <<wait_list, mutex, it, pc, call, waiterVars, debits, budget>>

\* The head of the other entry points: IsAllocated, checked without any lock, then the method.
EnterCall(t, c) ==
    /\ slot # "free" /\ pc[t] = "idle" /\ budget > 0
    /\ budget' = budget - 1
    /\ debits' = [debits EXCEPT ![t] = 0]
    /\ remaining' = [remaining EXCEPT ![t] = 0]
    /\ IF slot = "live"
       THEN /\ pc' = [pc EXCEPT ![t] = "lock"]
            /\ call' = [call EXCEPT ![t] = c]
            /\ UNCHANGED result
       ELSE /\ result' = [result EXCEPT ![t] = "ESRCH"]
            /\ UNCHANGED <<pc, call>>
    /\ UNCHANGED <<objectVars, token_count, wait_list, mutex, it, was, sem, elapsed>>

Return(t, r) ==
    /\ pc' = [pc EXCEPT ![t] = "idle"]
    /\ call' = [call EXCEPT ![t] = NoCall]
    /\ result' = [result EXCEPT ![t] = r]

\* OrbisSem::Wait up to AddWaiter, the cases that return at once.
WaitFast(t) ==
    /\ pc[t] = "lock" /\ call[t].op \in {"wait", "poll"} /\ mutex = NoOne
    /\ \/ /\ token_count >= call[t].n
          /\ token_count' = token_count - call[t].n
          /\ debits' = [debits EXCEPT ![t] = @ + 1]
          /\ Return(t, "OK")
       \/ /\ token_count < call[t].n /\ call[t].op = "poll"
          /\ Return(t, "EBUSY")
          /\ UNCHANGED <<token_count, debits>>
       \/ /\ token_count < call[t].n /\ call[t].op = "wait" /\ call[t].timeout = 0
          /\ Return(t, "ETIMEDOUT")
          /\ UNCHANGED <<token_count, debits>>
    /\ UNCHANGED <<objectVars, wait_list, mutex, it, waiterVars, budget>>

Priority(t) == IF is_fifo THEN 0 ELSE Prio[t]

\* Mutant: every waiter is appended, whatever its priority.
AlwaysAppend(i, t) == i = Len(wait_list) + 1

\* AddWaiter: the end of the list, or right before the first waiter of lower priority.
IsInsertPosition(i, t) ==
    IF is_fifo THEN i = Len(wait_list) + 1
    ELSE /\ \A j \in 1..(i - 1) : Priority(wait_list[j]) <= Priority(t)
         /\ i <= Len(wait_list) => Priority(wait_list[i]) > Priority(t)

\* OrbisSem::Wait from AddWaiter to the unlock in WaitingThread::Wait.
WaitEnqueue(t) ==
    /\ pc[t] = "lock" /\ call[t].op = "wait" /\ mutex = NoOne
    /\ token_count < call[t].n /\ call[t].timeout # 0
    /\ \E i \in 1..(Len(wait_list) + 1) :
          /\ IsInsertPosition(i, t)
          /\ wait_list' = InsertAt(wait_list, i, t)
    /\ was' = [was EXCEPT ![t] = {}]
    /\ sem' = [sem EXCEPT ![t] = 0]
    /\ pc' = [pc EXCEPT ![t] = "sleep"]
    /\ UNCHANGED <<objectVars, token_count, mutex, it, call, elapsed, remaining, result,
                   debits, budget>>

Timed(t) == call[t].timeout # NoTimeout

\* sem.acquire() or sem.try_acquire_for(): a permit is there.
SemAcquire(t) ==
    /\ pc[t] = "sleep" /\ sem[t] > 0
    /\ sem' = [sem EXCEPT ![t] = @ - 1]
    /\ \E e \in IF Timed(t) THEN 0..(call[t].timeout + Overrun) ELSE {0} :
          elapsed' = [elapsed EXCEPT ![t] = e]
    /\ pc' = [pc EXCEPT ![t] = "relock"]
    /\ UNCHANGED <<objectVars, token_count, wait_list, mutex, it, call, was, remaining,
                   result, debits, budget>>

\* sem.try_acquire_for(): the time is up and no permit has come.
SemTimeout(t) ==
    /\ pc[t] = "sleep" /\ sem[t] = 0 /\ Timed(t)
    /\ \E e \in call[t].timeout..(call[t].timeout + Overrun) :
          elapsed' = [elapsed EXCEPT ![t] = e]
    /\ pc' = [pc EXCEPT ![t] = "relock"]
    /\ UNCHANGED <<objectVars, token_count, wait_list, mutex, it, call, was, sem, remaining,
                   result, debits, budget>>

\* Mutant: was_signaled is not looked at.
IgnoreSignaled(flags) == CASE "deleted" \in flags -> "EACCES"
                           [] flags = {"canceled"} -> "ECANCELED"
                           [] OTHER -> "ETIMEDOUT"

GetResult(flags) == CASE "signaled" \in flags -> "OK"
                      [] "signaled" \notin flags /\ "deleted" \in flags -> "EACCES"
                      [] flags = {"canceled"} -> "ECANCELED"
                      [] OTHER -> "ETIMEDOUT"

\* Mutant: the subtraction is done in a wider signed type.
SignedTimeLeft(t) == IF "signaled" \in was[t] THEN call[t].timeout - elapsed[t] ELSE 0

\* What WaitingThread::Wait leaves in *timeout; u32 arithmetic wraps.
TimeLeft(t) == IF "signaled" \in was[t] THEN (call[t].timeout - elapsed[t]) % U32 ELSE 0

Queued(t) == \E i \in 1..Len(wait_list) : wait_list[i] = t

\* Mutant: a waiter that timed out stays linked.
LeaveLinked(t) == UNCHANGED wait_list

\* wait_list.erase(it) of a waiter that timed out. ListSound says its node is still linked; the
\* guard only keeps the step defined.
Unlink(t) ==
    IF GetResult(was[t]) = "ETIMEDOUT" /\ Queued(t)
    THEN \E i \in 1..Len(wait_list) : wait_list[i] = t /\ wait_list' = RemoveAt(wait_list, i)
    ELSE UNCHANGED wait_list

\* The end of Wait after lk.lock(): the result, the unlink of a waiter that timed out, and the
\* end of the WaitingThread on the stack.
WaitReturn(t) ==
    /\ pc[t] = "relock" /\ mutex = NoOne
    /\ remaining' = [remaining EXCEPT ![t] = IF Timed(t) THEN TimeLeft(t) ELSE 0]
    /\ Unlink(t)
    /\ Return(t, GetResult(was[t]))
    /\ was' = [was EXCEPT ![t] = {}]
    /\ sem' = [sem EXCEPT ![t] = 0]
    /\ elapsed' = [elapsed EXCEPT ![t] = 0]
    /\ UNCHANGED <<objectVars, token_count, mutex, it, debits, budget>>

-----------------------------------------------------------------------------
\* OrbisSem::Signal up to the loop; a count over the maximum is refused.
SignalEnter(t) ==
    /\ pc[t] = "lock" /\ call[t].op = "signal" /\ mutex = NoOne
    /\ IF Add32(token_count, call[t].n) > max_count
       THEN /\ Return(t, "EINVAL")
            /\ UNCHANGED <<token_count, mutex, it>>
       ELSE /\ token_count' = Add32(token_count, call[t].n)
            /\ mutex' = t /\ it' = 1
            /\ pc' = [pc EXCEPT ![t] = "signal"]
            /\ UNCHANGED <<call, result>>
    /\ UNCHANGED <<objectVars, wait_list, waiterVars, debits, budget>>

\* Mutant: the loop stops at the first waiter it cannot serve.
BreakInsteadOfContinue(t) ==
    /\ pc[t] = "signal" /\ it <= Len(wait_list)
    /\ call[wait_list[it]].n > token_count
    /\ it' = Len(wait_list) + 1
    /\ UNCHANGED <<objectVars, token_count, wait_list, mutex, pc, call, waiterVars, result,
                   debits, budget>>

\* One iteration that leaves a waiter for which there are too few tokens.
SignalSkip(t) ==
    /\ pc[t] = "signal" /\ it <= Len(wait_list)
    /\ call[wait_list[it]].n > token_count
    /\ it' = it + 1
    /\ UNCHANGED <<objectVars, token_count, wait_list, mutex, pc, call, waiterVars, result,
                   debits, budget>>

\* One iteration that unlinks a waiter, takes its tokens and releases it.
SignalWake(t) ==
    /\ pc[t] = "signal" /\ it <= Len(wait_list)
    /\ call[wait_list[it]].n <= token_count
    /\ LET w == wait_list[it] IN
          /\ wait_list' = RemoveAt(wait_list, it)
          /\ token_count' = token_count - call[w].n
          /\ was' = [was EXCEPT ![w] = @ \cup {"signaled"}]
          /\ sem' = [sem EXCEPT ![w] = @ + 1]
          /\ debits' = [debits EXCEPT ![w] = @ + 1]
    /\ UNCHANGED <<objectVars, mutex, it, pc, call, elapsed, remaining, result, budget>>

\* The loop is over: scoped_lock releases the mutex and Signal returns true.
SignalReturn(t) ==
    /\ pc[t] = "signal" /\ it > Len(wait_list)
    /\ mutex' = NoOne
    /\ Return(t, "OK")
    /\ UNCHANGED <<objectVars, token_count, wait_list, it, waiterVars, debits, budget>>

\* Mutant: the waiters are flagged but not released.
FlagOnly(flag) ==
    /\ was' = [w \in Threads |->
                  IF w \in ToSet(wait_list) THEN was[w] \cup {flag} ELSE was[w]]
    /\ wait_list' = <<>>
    /\ UNCHANGED sem

\* The loop shared by Cancel and Delete: flag and release every waiter, empty the list.
ReleaseAll(flag) ==
    /\ was' = [w \in Threads |->
                  IF w \in ToSet(wait_list) THEN was[w] \cup {flag} ELSE was[w]]
    /\ sem' = [w \in Threads |-> IF w \in ToSet(wait_list) THEN sem[w] + 1 ELSE sem[w]]
    /\ wait_list' = <<>>

\* OrbisSem::Cancel; the new count is not compared with max_count.
Cancel(t) ==
    /\ pc[t] = "lock" /\ call[t].op = "cancel" /\ mutex = NoOne
    /\ ReleaseAll("canceled")
    /\ token_count' = IF call[t].n < 0 THEN init_count ELSE call[t].n
    /\ Return(t, "OK")
    /\ UNCHANGED <<objectVars, mutex, it, elapsed, remaining, debits, budget>>

\* OrbisSem::Delete, the first half of sceKernelDeleteSema.
Delete(t) ==
    /\ pc[t] = "lock" /\ call[t].op = "delete" /\ mutex = NoOne
    /\ ReleaseAll("deleted")
    /\ pc' = [pc EXCEPT ![t] = "erase"]
    /\ UNCHANGED <<objectVars, token_count, mutex, it, call, elapsed, remaining, result,
                   debits, budget>>

\* orbis_sems.Erase, the second half; the storage keeps its bytes.
Erase(t) ==
    /\ pc[t] = "erase"
    /\ slot' = "erased"
    /\ Return(t, "OK")
    /\ UNCHANGED <<token_count, max_count, init_count, is_fifo, wait_list, mutex, it,
                   waiterVars, debits, budget>>

-----------------------------------------------------------------------------
\* What a thread does by itself once it is in a call.
Step(t) ==
    \/ WaitFast(t) \/ WaitEnqueue(t) \/ SemAcquire(t) \/ SemTimeout(t) \/ WaitReturn(t)
    \/ SignalEnter(t) \/ SignalSkip(t) \/ SignalWake(t) \/ SignalReturn(t)
    \/ Cancel(t) \/ Delete(t) \/ Erase(t)

Create(t) ==
    \E i \in InitCounts, m \in MaxCounts, f \in BOOLEAN : CreateSema(t, i, m, f)

Begin(t) == \E c \in Calls : EnterCall(t, c)

Next == \E t \in Threads : Create(t) \/ Begin(t) \/ Step(t)

Spec == Init /\ [][Next]_vars

\* A thread inside a call keeps running; a guest need not call again.
FairSpec == Spec /\ \A t \in Threads : WF_vars(Step(t))

-----------------------------------------------------------------------------
TypeOK ==
    /\ slot \in {"free", "live", "erased"}
    /\ token_count \in Int /\ max_count \in Int /\ init_count \in Int /\ is_fifo \in BOOLEAN
    /\ wait_list \in Seq(Threads)
    /\ mutex \in Threads \cup {NoOne}
    /\ it \in Nat \ {0}
    /\ pc \in [Threads -> {"idle", "lock", "sleep", "relock", "signal", "erase"}]
    /\ call \in [Threads -> Calls \cup {NoCall}]
    /\ was \in [Threads -> SUBSET Flags]
    /\ sem \in [Threads -> Nat]
    /\ elapsed \in [Threads -> Nat]
    /\ remaining \in [Threads -> Nat]
    /\ result \in [Threads -> Results]
    /\ debits \in [Threads -> Nat]
    /\ budget \in 0..MaxCalls

InWait(t) == pc[t] \in {"sleep", "relock"}

\* wait_list holds the WaitingThread objects that live on the stacks of threads inside Wait and
\* that nobody has decided about, each once. So no iteration touches a dead stack frame, and the
\* wait_list.erase(it) of a waiter that timed out erases a node that is still linked.
ListSound ==
    /\ \A t \in Threads : Queued(t) <=> InWait(t) /\ was[t] = {}
    /\ \A i, j \in 1..Len(wait_list) : wait_list[i] = wait_list[j] => i = j

\* A waiter gets one verdict and one permit for it: a sleeper holds a permit exactly when it has
\* been signaled, canceled or deleted, and never two (the Win32 BinarySemaphore asserts on a
\* second release), whatever its timeout races with.
OneVerdict ==
    \A t \in Threads :
        /\ \A f, g \in was[t] : f = g
        /\ pc[t] = "sleep" => sem[t] = IF was[t] = {} THEN 0 ELSE 1
        /\ sem[t] <= 1

\* No lost wakeup: whenever no Signal is in its loop, the tokens left do not suffice for any
\* queued waiter, so nobody sleeps on a semaphore that could serve it.
NoEligibleSleeper ==
    mutex = NoOne => \A i \in 1..Len(wait_list) : call[wait_list[i]].n > token_count

\* A call that returns OK took its tokens exactly once and a call that fails took none, also when
\* a Signal reached the waiter after its timeout ran out and before it held the mutex again.
PaidOnceStep ==
    \A t \in Threads :
        (call[t].op \in {"wait", "poll"} /\ pc'[t] = "idle") =>
            debits'[t] = IF result'[t] = "OK" THEN 1 ELSE 0
PaidOnce == [][PaidOnceStep]_vars

\* Signal serves by priority, and in order of arrival among equals: when it wakes a waiter,
\* whoever should have come first needs more tokens than there are, also after timeouts have
\* taken waiters out of the middle of the list and new ones were inserted.
Comes(i, j) ==
    \/ Priority(wait_list[i]) < Priority(wait_list[j])
    \/ Priority(wait_list[i]) = Priority(wait_list[j]) /\ i < j
ServedInOrderStep ==
    \A i, j \in 1..Len(wait_list) :
        Comes(i, j) /\ "signaled" \in was'[wait_list[j]] => call[wait_list[i]].n > token_count
ServedInOrder == [][ServedInOrderStep]_vars

\* Every call ends except an untimed wait nobody has decided about.
CallsEnd ==
    \A t \in Threads :
        (pc[t] # "idle" /\ (call[t].op = "wait" => Timed(t) \/ was[t] # {})) ~> pc[t] = "idle"

=============================================================================
