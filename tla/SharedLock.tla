----------------------------- MODULE SharedLock -----------------------------
(***************************************************************************)
(* What Common::SharedFirstMutex promises its users: one writer or any     *)
(* number of readers, shared acquisition recursive, and a reader held off  *)
(* by a writer that holds the lock and by nothing else.                    *)
(***************************************************************************)
EXTENDS Naturals

CONSTANTS Threads

VARIABLES
    exclusive,      \* the threads that hold the lock exclusively
    depth           \* how often each thread holds it shared

vars == <<exclusive, depth>>

TypeOK == exclusive \in SUBSET Threads /\ depth \in [Threads -> Nat]

Init == exclusive = {} /\ depth = [t \in Threads |-> 0]

AcquireExclusive(t) ==
    /\ exclusive = {} /\ \A u \in Threads : depth[u] = 0
    /\ exclusive' = {t}
    /\ UNCHANGED depth

ReleaseExclusive(t) ==
    /\ exclusive = {t}
    /\ exclusive' = {}
    /\ UNCHANGED depth

AcquireShared(t) ==
    /\ exclusive = {}
    /\ depth' = [depth EXCEPT ![t] = @ + 1]
    /\ UNCHANGED exclusive

ReleaseShared(t) ==
    /\ depth[t] > 0
    /\ depth' = [depth EXCEPT ![t] = @ - 1]
    /\ UNCHANGED exclusive

Next ==
    \E t \in Threads :
        AcquireExclusive(t) \/ ReleaseExclusive(t) \/ AcquireShared(t) \/ ReleaseShared(t)

Spec == Init /\ [][Next]_vars

=============================================================================
