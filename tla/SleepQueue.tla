----------------------------- MODULE SleepQueue -----------------------------
(***************************************************************************)
(* The sleep queue of one wait channel (kernel/threads/sleepq.cpp).        *)
(*                                                                         *)
(* Every thread owns a SleepQueue object until it blocks.  The first one   *)
(* to block on a channel lends its object as the channel's queue, the      *)
(* others park theirs on sq_freeq; who leaves takes one of them along, not *)
(* necessarily its own.  An object is named after the thread that was      *)
(* created with it.  The record s is the channel together with the         *)
(* sleepqueue and wchan fields of the threads.                             *)
(***************************************************************************)
EXTENDS Naturals, Sequences, SequencesExt

CONSTANTS
    Threads,
    NoOne           \* nullptr

ASSUME NoOneAssumption == NoOne \notin Threads

SleepqInit ==
    [queue |-> NoOne,                           \* the linked object, sc_queues
     freeq |-> <<>>, blocked |-> <<>>,          \* sq_freeq, sq_blocked
     sleepqueue |-> [t \in Threads |-> t],
     wchan |-> [t \in Threads |-> FALSE]]       \* wchan # nullptr

\* The first to block lends its object to the channel, the others theirs to the free list.
SleepqAdd(s, td) ==
    LET first == s.queue = NoOne IN
    [queue      |-> IF first THEN s.sleepqueue[td] ELSE s.queue,
     freeq      |-> IF first THEN s.freeq ELSE <<s.sleepqueue[td]>> \o s.freeq,
     blocked    |-> Append(s.blocked, td),
     sleepqueue |-> [s.sleepqueue EXCEPT ![td] = NoOne],
     wchan      |-> [s.wchan EXCEPT ![td] = TRUE]]

\* std::erase of td, which is there once.
Without(list, td) == RemoveAt(list, CHOOSE i \in 1..Len(list) : list[i] = td)

\* Mutant: whoever leaves takes the channel's queue object along.
RemoveTakingQueue(s, td) ==
    LET last == Len(s.blocked) = 1 IN
    [queue      |-> IF last THEN NoOne ELSE Head(s.freeq),
     freeq      |-> s.freeq,
     blocked    |-> Without(s.blocked, td),
     sleepqueue |-> [s.sleepqueue EXCEPT ![td] = s.queue],
     wchan      |-> [s.wchan EXCEPT ![td] = FALSE]]

\* The last one to leave takes the channel's object, the others one from the free list.
SleepqRemove(s, td) ==
    LET last == Len(s.blocked) = 1 IN
    [queue      |-> IF last THEN NoOne ELSE s.queue,
     freeq      |-> IF last THEN s.freeq ELSE Tail(s.freeq),
     blocked    |-> Without(s.blocked, td),
     sleepqueue |-> [s.sleepqueue EXCEPT ![td] = IF last THEN s.queue ELSE Head(s.freeq)],
     wchan      |-> [s.wchan EXCEPT ![td] = FALSE]]

\* The first blocked thread gets the queue object, the others the free list in order.
SleepqDrop(s) ==
    LET At(td) == {i \in 1..Len(s.blocked) : s.blocked[i] = td}
        Object(i) == IF i = 1 THEN s.queue ELSE s.freeq[i - 1]
    IN  [queue      |-> NoOne,
         freeq      |-> <<>>,
         blocked    |-> <<>>,
         sleepqueue |-> [td \in Threads |->
                            IF At(td) = {} THEN s.sleepqueue[td]
                            ELSE Object(CHOOSE i \in At(td) : TRUE)],
         wchan      |-> [td \in Threads |-> s.wchan[td] /\ At(td) = {}]]

-----------------------------------------------------------------------------
SleepqType(s) ==
    s \in [queue : Threads \cup {NoOne}, freeq : Seq(Threads), blocked : Seq(Threads),
           sleepqueue : [Threads -> Threads \cup {NoOne}], wchan : [Threads -> BOOLEAN]]

\* The list of blocked threads agrees with their wchan, each thread once.
BlockedSound(s) ==
    /\ \A i, j \in 1..Len(s.blocked) : s.blocked[i] = s.blocked[j] => i = j
    /\ \A t \in Threads : s.wchan[t] <=> \E i \in 1..Len(s.blocked) : s.blocked[i] = t

\* A thread owns an object exactly while it is not blocked, and the channel holds one object for
\* every thread that is.
ObjectsSound(s) ==
    /\ \A t \in Threads : s.sleepqueue[t] = NoOne <=> s.wchan[t]
    /\ s.queue = NoOne <=> s.blocked = <<>>
    /\ Len(s.freeq) = IF s.blocked = <<>> THEN 0 ELSE Len(s.blocked) - 1

\* No object is in two places.
ObjectsDistinct(s) ==
    /\ \A t, u \in Threads : s.sleepqueue[t] = s.sleepqueue[u] /\ s.sleepqueue[t] # NoOne => t = u
    /\ \A i, j \in 1..Len(s.freeq) : s.freeq[i] = s.freeq[j] => i = j
    /\ \A t \in Threads, i \in 1..Len(s.freeq) : s.freeq[i] # s.sleepqueue[t]
    /\ s.queue # NoOne =>
          /\ \A t \in Threads : s.queue # s.sleepqueue[t]
          /\ \A i \in 1..Len(s.freeq) : s.queue # s.freeq[i]

=============================================================================
