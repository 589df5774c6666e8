----------------------------- MODULE ThreadLife -----------------------------
(***************************************************************************)
(* The life of a guest thread's Pthread: creation, exit, join, detach,     *)
(* references by other threads, garbage collection and reuse               *)
(* (core/libraries/kernel/threads/thread_state.cpp and pthread.cpp).       *)
(*                                                                         *)
(* thread_list_lock guards `threads` and `gc_list`, Pthread::lock the      *)
(* fields of a Pthread, join_wait_mutex the publication of its end; a      *)
(* thread holds one of them across a step only where a comment says so.    *)
(* Callers are threads that create, join and detach; a created thread only *)
(* runs and exits.  Stacks, TLS and what a thread that uses a recycled     *)
(* Pthread destroys are not modelled.  gc_list is a set: Collect takes all *)
(* of it that has ended, so its order decides nothing.                     *)
(***************************************************************************)
EXTENDS Integers, SequencesExt, FiniteSetsExt

CONSTANTS
    Callers,
    Pthreads,           \* the slots of thread_heap
    None,
    MaxThreads, GcThreshold, MaxCachedThreads,
    MaxCreates, MaxRefs \* bounds: the threads created, the references taken

ASSUME BoundAssumption ==
    /\ {MaxThreads, GcThreshold} \subseteq Nat \ {0}
    /\ {MaxCachedThreads, MaxCreates, MaxRefs} \subseteq Nat
    /\ None \notin Pthreads \cup Callers

\* thread_heap holds as many Pthreads as it was made with; a process has finitely many threads.
ASSUME FiniteAssumption == IsFiniteSet(Callers) /\ IsFiniteSet(Pthreads)

VARIABLES
    pthread,        \* the fields of each Pthread
    run,            \* where the thread of each Pthread is
    leaving,        \* how many threads have published their end and still use the Pthread
    threads, gc_list,
    free_threads,   \* the cache of freed Pthreads, the last one is taken first
    heap,           \* the free slots of thread_heap
    total_threads,
    caller,         \* what each caller is doing, with which Pthread; `work` is Collect's work_list
    creates, refs

vars == <<pthread, run, leaving, threads, gc_list, free_threads, heap, total_threads, caller,
          creates, refs>>
places == <<threads, gc_list, free_threads, heap, total_threads>>
bounds == <<creates, refs>>

Fresh == [refcount |-> 0, dead |-> FALSE, detached |-> FALSE, joiner |-> None, terminated |-> FALSE]
Idle == [pc |-> "idle", target |-> None, work |-> {}]

Init ==
    /\ pthread = [p \in Pthreads |-> Fresh]
    /\ run = [p \in Pthreads |-> "none"] /\ leaving = [p \in Pthreads |-> 0]
    /\ threads = {} /\ gc_list = {} /\ free_threads = <<>>
    /\ heap = Pthreads /\ total_threads = 0
    /\ caller = [c \in Callers |-> Idle] /\ creates = 0 /\ refs = 0

Goto(c, pc, target) == caller' = [caller EXCEPT ![c].pc = pc, ![c].target = target]
Done(c) == caller' = [caller EXCEPT ![c] = Idle]

-----------------------------------------------------------------------------
(* ThreadState::TryCollect, called with the Pthread locked. *)

ShouldCollect(p) == p.refcount = 0 /\ p.dead /\ p.detached

\* Mutant: the reference that pins is forgotten.
PinNothing(p) == p

\* It unlocks; a Pthread to collect is pinned until both locks are held in the right order.
Pin(p) == IF ShouldCollect(p) THEN [p EXCEPT !.refcount = @ + 1] ELSE p

\* Both locks are held.  The list lock is released first: Pthread::lock is still held after.
MoveToGc(p) ==
    LET unpinned == [pthread[p] EXCEPT !.refcount = @ - 1]
    IN  /\ pthread' = [pthread EXCEPT ![p] = unpinned]
        /\ IF ShouldCollect(unpinned)
           THEN threads' = threads \ {p} /\ gc_list' = gc_list \cup {p}
           ELSE UNCHANGED <<threads, gc_list>>

\* A caller gives a Pthread it has just locked its new fields and calls TryCollect.
SettleAndTryCollect(c, p, fields) ==
    /\ pthread' = [pthread EXCEPT ![p] = Pin(fields)]
    /\ IF ShouldCollect(fields) THEN Goto(c, "collect", p) ELSE Done(c)

TryCollect(c) ==
    /\ caller[c].pc = "collect"
    /\ MoveToGc(caller[c].target)
    /\ Goto(c, "unlock", caller[c].target)
    /\ UNCHANGED <<run, leaving, free_threads, heap, total_threads, bounds>>

\* SCOPE_EXIT of TryCollect: thread->lock->unlock().
Unlock(c) ==
    /\ caller[c].pc = "unlock"
    /\ Done(c)
    /\ UNCHANGED <<pthread, run, leaving, places, bounds>>

-----------------------------------------------------------------------------
(* posix_pthread_create_name_np. *)

Create(c) ==
    /\ caller[c].pc = "idle" /\ creates < MaxCreates
    /\ creates' = creates + 1
    /\ Goto(c, IF Cardinality(gc_list) >= GcThreshold THEN "gc" ELSE "alloc", None)
    /\ UNCHANGED <<pthread, run, leaving, places, refs>>

\* Collect takes the terminated threads out of the list, and frees them after the lock.
Collect(c) ==
    LET taken == {p \in gc_list : pthread[p].terminated}
    IN  /\ caller[c].pc = "gc"
        /\ gc_list' = gc_list \ taken
        /\ caller' = [caller EXCEPT ![c].pc = IF taken = {} THEN "alloc" ELSE "free", ![c].work = taken]
        /\ UNCHANGED <<pthread, run, leaving, threads, free_threads, heap, total_threads, bounds>>

\* Free: the Pthread goes to the cache, or is given back when the cache is full.
Free(c) ==
    /\ caller[c].pc = "free"
    /\ \E p \in caller[c].work :
        LET rest == caller[c].work \ {p}
            next == IF rest = {} THEN "alloc" ELSE "free"
        IN  IF Len(free_threads) >= MaxCachedThreads
            THEN /\ caller' = [caller EXCEPT ![c] = [pc |-> "release", target |-> p, work |-> rest]]
                 /\ UNCHANGED free_threads
            ELSE /\ caller' = [caller EXCEPT ![c].pc = next, ![c].work = rest]
                 /\ free_threads' = Append(free_threads, p)
    /\ UNCHANGED <<pthread, run, leaving, threads, gc_list, heap, total_threads, bounds>>

Release(c) ==
    /\ caller[c].pc = "release"
    /\ heap' = heap \cup {caller[c].target}
    /\ Goto(c, "uncount", None)
    /\ UNCHANGED <<pthread, run, leaving, threads, gc_list, free_threads, total_threads, bounds>>

Uncount(c) ==
    /\ caller[c].pc = "uncount"
    /\ total_threads' = total_threads - 1
    /\ Goto(c, IF caller[c].work = {} THEN "alloc" ELSE "free", None)
    /\ UNCHANGED <<pthread, run, leaving, threads, gc_list, free_threads, heap, bounds>>

\* Alloc: the cache first, then the heap unless too many are counted (EAGAIN).
Alloc(c) ==
    /\ caller[c].pc = "alloc"
    /\ IF free_threads # <<>>
       THEN Goto(c, "construct", Last(free_threads)) /\ free_threads' = Front(free_threads)
       ELSE /\ IF total_threads > MaxThreads THEN Done(c) ELSE Goto(c, "count", None)
            /\ UNCHANGED free_threads
    /\ UNCHANGED <<pthread, run, leaving, threads, gc_list, heap, total_threads, bounds>>

Count(c) ==
    /\ caller[c].pc = "count"
    /\ total_threads' = total_threads + 1
    /\ Goto(c, "allocate", None)
    /\ UNCHANGED <<pthread, run, leaving, threads, gc_list, free_threads, heap, bounds>>

Allocate(c) ==
    /\ caller[c].pc = "allocate"
    /\ IF heap = {} THEN Goto(c, "giveup", None) /\ UNCHANGED heap
       ELSE \E p \in heap : Goto(c, "construct", p) /\ heap' = heap \ {p}
    /\ UNCHANGED <<pthread, run, leaving, threads, gc_list, free_threads, total_threads, bounds>>

\* Mutant: a creation that found the heap empty stays counted.
GiveUpCounted(c) ==
    /\ caller[c].pc = "giveup"
    /\ Done(c)
    /\ UNCHANGED <<pthread, run, leaving, places, bounds>>

GiveUp(c) ==
    /\ caller[c].pc = "giveup"
    /\ total_threads' = total_threads - 1
    /\ Done(c)
    /\ UNCHANGED <<pthread, run, leaving, threads, gc_list, free_threads, heap, bounds>>

\* The struct is zeroed and constructed, then filled in; nobody else can find it yet.
Construct(c) ==
    /\ caller[c].pc = "construct"
    /\ \E detached \in BOOLEAN :
            pthread' = [pthread EXCEPT ![caller[c].target] =
                            [Fresh EXCEPT !.refcount = 1, !.detached = detached]]
    /\ Goto(c, "link", caller[c].target)
    /\ UNCHANGED <<run, leaving, places, bounds>>

Link(c) ==
    /\ caller[c].pc = "link"
    /\ threads' = threads \cup {caller[c].target}
    /\ Goto(c, "start", caller[c].target)
    /\ UNCHANGED <<pthread, run, leaving, gc_list, free_threads, heap, total_threads, bounds>>

Start(c) ==
    /\ caller[c].pc = "start"
    /\ run' = [run EXCEPT ![caller[c].target] = "running"]
    /\ Goto(c, "affinity", caller[c].target)
    /\ UNCHANGED <<pthread, leaving, places, bounds>>

\* SetAffinity on the thread that may have run, and ended, meanwhile.
SetAffinity(c) ==
    /\ caller[c].pc = "affinity"
    /\ Done(c)
    /\ UNCHANGED <<pthread, run, leaving, places, bounds>>

-----------------------------------------------------------------------------
(* ExitThread, in the thread of p. *)

Die(p) ==
    LET fields == [pthread[p] EXCEPT !.dead = TRUE, !.refcount = @ - 1]
    IN  /\ run[p] = "running"
        /\ pthread' = [pthread EXCEPT ![p] = Pin(fields)]
        /\ run' = [run EXCEPT ![p] = IF ShouldCollect(fields) THEN "collect" ELSE "publish"]
        /\ UNCHANGED <<leaving, places, caller, bounds>>

TryCollectSelf(p) ==
    /\ run[p] = "collect"
    /\ MoveToGc(p)
    /\ run' = [run EXCEPT ![p] = "publish"]
    /\ UNCHANGED <<leaving, free_threads, heap, total_threads, caller, bounds>>

\* tid becomes TidTerminated under join_wait_mutex.
Publish(p) ==
    /\ run[p] = "publish"
    /\ pthread' = [pthread EXCEPT ![p].terminated = TRUE]
    /\ run' = [run EXCEPT ![p] = "none"]
    /\ leaving' = [leaving EXCEPT ![p] = @ + 1]
    /\ UNCHANGED <<places, caller, bounds>>

\* Mutant: the joiner is not woken.
LeaveQuietly(p) ==
    /\ leaving[p] > 0
    /\ leaving' = [leaving EXCEPT ![p] = @ - 1]
    /\ UNCHANGED <<pthread, run, places, caller, bounds>>

\* Then join_wait_cv.notify_all() and native_thr->Exit(), both through the Pthread.
Leave(p) ==
    /\ leaving[p] > 0
    /\ leaving' = [leaving EXCEPT ![p] = @ - 1]
    /\ caller' = [c \in Callers |-> IF caller[c].pc = "asleep" /\ caller[c].target = p
                                    THEN [caller[c] EXCEPT !.pc = "join"] ELSE caller[c]]
    /\ UNCHANGED <<pthread, run, places, bounds>>

-----------------------------------------------------------------------------
(* JoinThread, posix_pthread_detach, RefAdd and RefDelete of a caller. *)

\* Mutant: two joiners of one thread.
JoinTwice(c, p) ==
    /\ caller[c].pc = "idle" /\ p \in threads /\ ~pthread[p].detached
    /\ pthread' = [pthread EXCEPT ![p].joiner = c]
    /\ Goto(c, "join", p)
    /\ UNCHANGED <<run, leaving, places, bounds>>

\* FindThread holds the list lock until it has the Pthread's: a Pthread it finds stays.
Join(c, p) ==
    /\ caller[c].pc = "idle" /\ p \in threads
    /\ ~pthread[p].detached /\ pthread[p].joiner = None
    /\ pthread' = [pthread EXCEPT ![p].joiner = c]
    /\ Goto(c, "join", p)
    /\ UNCHANGED <<run, leaving, places, bounds>>

\* The loop under join_wait_mutex: has the thread ended?  Else wait on join_wait_cv.
JoinWait(c) ==
    /\ caller[c].pc = "join"
    /\ Goto(c, IF pthread[caller[c].target].terminated THEN "joined" ELSE "asleep", caller[c].target)
    /\ UNCHANGED <<pthread, run, leaving, places, bounds>>

\* The deadline passed or the caller was cancelled: backout_join.
JoinGivesUp(c) ==
    /\ caller[c].pc = "asleep" /\ ~pthread[caller[c].target].terminated
    /\ Goto(c, "backout", caller[c].target)
    /\ UNCHANGED <<pthread, run, leaving, places, bounds>>

BackoutJoin(c) ==
    /\ caller[c].pc = "backout"
    /\ pthread' = [pthread EXCEPT ![caller[c].target].joiner = None]
    /\ Done(c)
    /\ UNCHANGED <<run, leaving, places, bounds>>

Joined(c) ==
    /\ caller[c].pc = "joined"
    /\ LET p == caller[c].target
       IN  SettleAndTryCollect(c, p, [pthread[p] EXCEPT !.detached = TRUE, !.joiner = None])
    /\ UNCHANGED <<run, leaving, places, bounds>>

\* Mutant: a thread with a joiner can be detached.
DetachJoined(c, p) ==
    /\ caller[c].pc = "idle" /\ p \in threads /\ ~pthread[p].detached
    /\ SettleAndTryCollect(c, p, [pthread[p] EXCEPT !.detached = TRUE])
    /\ UNCHANGED <<run, leaving, places, bounds>>

Detach(c, p) ==
    /\ caller[c].pc = "idle" /\ p \in threads
    /\ ~pthread[p].detached /\ pthread[p].joiner = None
    /\ SettleAndTryCollect(c, p, [pthread[p] EXCEPT !.detached = TRUE])
    /\ UNCHANGED <<run, leaving, places, bounds>>

RefAdd(c, p) ==
    /\ caller[c].pc = "idle" /\ refs < MaxRefs
    /\ p \in threads /\ ~pthread[p].dead
    /\ pthread' = [pthread EXCEPT ![p].refcount = @ + 1]
    /\ Goto(c, "ref", p)
    /\ refs' = refs + 1
    /\ UNCHANGED <<run, leaving, places, creates>>

\* Mutant: a reference dropped without a look at what it kept.
RefDeleteOnly(c) ==
    /\ caller[c].pc = "ref"
    /\ pthread' = [pthread EXCEPT ![caller[c].target].refcount = @ - 1]
    /\ Done(c)
    /\ UNCHANGED <<run, leaving, places, bounds>>

RefDelete(c) ==
    /\ caller[c].pc = "ref"
    /\ LET p == caller[c].target
       IN  SettleAndTryCollect(c, p, [pthread[p] EXCEPT !.refcount = @ - 1])
    /\ UNCHANGED <<run, leaving, places, bounds>>

-----------------------------------------------------------------------------

\* What a caller does once it has begun.
Step(c) ==
    \/ TryCollect(c) \/ Unlock(c)
    \/ Collect(c) \/ Free(c) \/ Release(c) \/ Uncount(c) \/ Alloc(c) \/ Count(c) \/ Allocate(c)
    \/ GiveUp(c) \/ Construct(c) \/ Link(c) \/ Start(c) \/ SetAffinity(c)
    \/ JoinWait(c) \/ BackoutJoin(c) \/ Joined(c) \/ RefDelete(c)

ExitStep(p) == TryCollectSelf(p) \/ Publish(p) \/ Leave(p)

Next ==
    \/ \E c \in Callers : Step(c) \/ Create(c) \/ JoinGivesUp(c)
    \/ \E c \in Callers, p \in Pthreads : Join(c, p) \/ Detach(c, p) \/ RefAdd(c, p)
    \/ \E p \in Pthreads : Die(p) \/ ExitStep(p)

Spec == Init /\ [][Next]_vars

\* Threads that have begun an operation are scheduled; a guest thread need not exit.
FairSpec == /\ Spec
            /\ \A c \in Callers : WF_vars(Step(c))
            /\ \A p \in Pthreads : WF_vars(ExitStep(p))

-----------------------------------------------------------------------------
(* Properties. *)

\* refcount is what the collector trusts: one for the thread while it lives, one for every
\* reference, and one for whoever is about to collect it.
RefsCounted ==
    \A p \in threads :
        pthread[p].refcount =
            (IF pthread[p].dead THEN 0 ELSE 1)
            + Cardinality({c \in Callers : caller[c].pc \in {"ref", "collect"} /\ caller[c].target = p})
            + (IF run[p] = "collect" THEN 1 ELSE 0)

\* The Pthreads that c owns alone: taken out of the lists, or not linked yet.
Held(c) == caller[c].work
           \cup IF caller[c].pc \in {"release", "construct", "link"} THEN {caller[c].target} ELSE {}

\* A Pthread is in one place only: linked, to be collected, cached (once), free in the heap or in
\* the hands of one caller.  Collecting twice, or freeing what is linked, breaks it.
OnePlace ==
    /\ IsInjective(free_threads)
    /\ \A p \in Pthreads :
        LET places_of == <<p \in threads, p \in gc_list, p \in ToSet(free_threads), p \in heap,
                           \E c \in Callers : p \in Held(c)>>
        IN  \E i \in 1 .. 5 : \A j \in 1 .. 5 : places_of[j] <=> i = j
    /\ \A c, d \in Callers : c # d => Held(c) \cap Held(d) = {}

\* A thread somebody joins, references, detaches or is about to collect stays linked.
UsedStaysLinked ==
    /\ \A c \in Callers : caller[c].pc \in {"join", "asleep", "joined", "backout", "ref", "collect"}
                          => caller[c].target \in threads
    /\ \A p \in Pthreads : run[p] \in {"running", "collect"} => p \in threads

\* total_threads counts the Pthreads taken from the heap, but for callers halfway through.
TotalCounted ==
    LET halfway == {c \in Callers : caller[c].pc \in {"allocate", "uncount", "giveup"}}
    IN  total_threads = Cardinality(Pthreads \ heap) + Cardinality(halfway)

\* A detached thread that has ended and that nobody references is unlinked.
DeadIsCollected ==
    \A p \in Pthreads : (pthread[p].detached /\ pthread[p].terminated) ~> p \notin threads

\* A joiner does not miss the end of its thread.
JoinReturns ==
    \A c \in Callers, p \in Pthreads :
        (caller[c].pc \in {"join", "asleep"} /\ caller[c].target = p /\ pthread[p].terminated)
            ~> caller[c].pc \notin {"join", "asleep"}

=============================================================================
