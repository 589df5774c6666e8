# Verification of the GR2fork emulator core

GR2fork is a fork of the shadPS4 emulator: guest code of a PS4 game runs natively and calls a
re-implemented kernel and system libraries; a GPU front end turns guest command buffers into
Vulkan work. This directory holds TLA+ models of the parts of that program whose correctness
depends on the order in which threads act, the TLC configurations that check them on small
instances and TLAPS proofs that hold for every instance.

Contents: 1 inventory, 2 plan, 3 modules and the code, 4 runs, 5 fairness, 6 proofs, 7 what the
checks found, 8 what is not modelled. Paths of the source are relative to the repository root
(`src/core/...` in the repository is listed as `core/...` where no doubt can arise).

Run a model with `tlc -config X.cfg MCName.tla`, a proof with `tlapm Name.tla`.

## 1. Inventory

### 1.1 Kernel synchronisation (`core/libraries/kernel/threads`, `common`)

| Part | State it keeps | Operations | Hard behaviour | Correct when |
|---|---|---|---|---|
| Kernel semaphores `semaphore.cpp` (OrbisSem) | token count, maximum, wait list by priority or arrival, per-waiter verdict flags and a host semaphore | create, wait, poll, signal, cancel, delete | timeout racing a signal, waiters of different need, deletion under waiters | tokens are taken exactly once per OK, nobody sleeps who could be served |
| POSIX semaphores, same file | atomic value, list of waiting threads | init, destroy, wait, trywait, timedwait, post | lock-free fast path racing the wait list, cancellation, destruction by the thread a post released | value never negative, no post is lost |
| Writer/reader word `common/shared_first_mutex.h` | reader count and writer bit in one word, waiting writers, a condition variable | lock, shared lock, try and timed forms, unlock | lost wakeup between the lock-free word and the condition variable, recursive readers | exclusion, no lost wakeup, recursive shared hold never blocks |
| Guest reader/writer locks `rwlock.cpp` | the word above, an owner | rdlock, wrlock, try, timed, unlock | unlock by a thread that holds nothing | exclusion, ownership errors reported |
| Mutexes, condition variables, sleep queues `mutex.cpp`, `condvar.cpp`, `sleepq.cpp`, `pthread.h` | owner, recursion count, a Deferred flag, per-thread deferred waiters, sleep queues by wait channel | lock, unlock, wait, signal, broadcast | deferred wakeups, cancellation, queue objects that change hands | no signal is lost, recursion restored, objects conserved |
| Event flags `event_flag.cpp` | 64 bits, waiter list | wait, poll, set, clear, cancel, delete | a waiter that is ready and not yet awake, deletion that waits for its waiters | verdicts are honest, no eligible sleeper, no waiter left when the object goes |
| Barriers, once `barrier.cpp`, `pthread.cpp` | arrivals, generation, destroying flag; a state word | wait, destroy; once with a cancelled initialiser | generations overtaking each other | all arrivals of a generation leave, one initialiser completes |
| Thread lifecycle `pthread.cpp`, `thread_state.cpp` | state, reference count, join state, collection list, cache of freed objects | create, exit, join, detach, reference, collect | recycling of a Pthread that is in use | collected exactly when dead and unused, a join ends |
| Event queues and timers `equeue.cpp` | events with filter and trigger state, waiters, timers | add, remove, trigger, wait | level and edge triggered events, a timer callback against deletion | a triggered event is delivered to some waiter |
| Signals, clocks, processes `exception.cpp`, `time.cpp`, `process.cpp` | handler table | raise, install, read a clock | host signal delivery | not modelled |

### 1.2 GPU front end and display

| Part | State it keeps | Operations | Hard behaviour | Correct when |
|---|---|---|---|---|
| Command processor `video_core/amdgpu/liverpool.cpp/.h` | mapped queues of coroutines, submission and CE counters, command queue, submit_done | SubmitGfx, SubmitAsc, SubmitDone, SendCommand, Process | counter and queues under different mutexes, waits on labels that yield or sleep | counters exact, no lost notification, packets in order |
| Graphics driver `libraries/gnmdriver` | submission mutex, submission lock, flip subscribers by platform interrupt | submit, submit and flip, done, doorbell | an idle check made before the lock it decides about | guest submissions end, interrupt subscribers in order |
| Video output `libraries/videoout` | buffer labels, pending flips, request queue, flip status, event queues | open, register, flip, close, present thread | labels shared by GPU packets, the interrupt handler and the present thread | every flip shown once, in order, never over the buffer on screen |
| Page tracking, buffer and texture cache `video_core/page_manager*`, `buffer_cache`, `texture_cache` (11k lines) | write watches, dirty ranges, aliasing images | fault, invalidate, upload, download | guest faults racing GPU writes | a read sees the last write |
| Vulkan renderer `renderer_vulkan` (21k lines) and upscaler `gr2_fsr3` (11k) | tick scheduler, pipelines, command buffers | record, submit, wait for a tick | resources reused before their tick | nothing freed in flight |
| Shader recompiler (39k lines) | one program | passes over an IR | none: sequential | translation preserves meaning |

### 1.3 Memory, files, loading

| Part | State it keeps | Operations | Hard behaviour | Correct when |
|---|---|---|---|---|
| Memory manager `core/memory.cpp` (1.9k lines) | maps of virtual and direct areas under one SharedFirstMutex | map, unmap, protect, query, pool commit | splitting and merging of areas, re-entrance by a fault under the lock | areas disjoint, a partition of the space |
| Guest file system `core/file_sys`, `kernel/file_system.cpp` (4.3k) | descriptor table, mount table | open, read, directory walk | descriptors reused while in use | no descriptor of two files |
| Loader and linker (1.4k + 1k) | modules, symbols, TLS | load, relocate | sequential | not modelled |
| Save data `libraries/save_data` (4.5k) | mount slots, a background writer of memory saves, backups | mount, save, back up | a crash between two writes, two savers | a save is old or new, never mixed |

### 1.4 Media, network, user interface

| Part | State it keeps | Operations | Hard behaviour | Correct when |
|---|---|---|---|---|
| Fibers `libraries/fiber` (0.9k) | fiber state, saved context | run, switch, return | state handed over at the switch | a fiber runs on one thread |
| AJM `libraries/ajm` (3k) | instances, batches, a worker thread | start batch, wait, cancel | completion against waiting | every batch completes once |
| Audio output, 3D audio, NGS2 (11k) | ports, voices, queues | open, output, mix | device threads | not modelled |
| AV player, video decoding (7k) | demuxer and decoder threads, frame queues | start, stop, get frame | end of stream and stop against blocked queues | stop ends |
| Peer-to-peer TCP `core/net/p2p_tcp.cpp`, `p2p_transport.cpp` | connection state, windows, send and receive buffers, out-of-order data, four timers | connect, accept, send, receive, shut down, close, abort; segments, timers | lost, duplicated and reordered packets, sequence arithmetic, closed windows | two byte streams without holes, no stall |
| Guest sockets `core/net/guest_net.cpp` | registered waiters, wake handles, preserved aborts, readiness flags | send, receive, abort, shut down, close | aborts and close against calls that are entering or leaving | a call in flight is interrupted, none is left asleep |
| Network libraries, NP, shadnet (50k) | request and callback tables | create, send, abort, delete | deletion while a request runs | a request answers once |
| Input, IME, dialogs, fonts (40k), frontend, settings, developer tools (20k) | user interface state | | | not modelled |
| Common utilities (11k) | ring buffers, slot vectors, logging | | SharedFirstMutex is modelled by itself | |
| Symbol tables (171k), `third_party` (450k), `externals` (39k), tests (14k) | generated and vendored code | | | not modelled |

### 1.5 How the parts interact

Guest threads enter through the kernel libraries. A guest mutex is a `TimedMutex` with a count and
a Deferred flag; a condition variable adds the calling thread to a sleep queue found by the address
it sleeps on, and a signal made under the mutex leaves the waiter with the signaling thread until
that thread unlocks or sleeps. Event flags and semaphores have host mutexes and host wait
primitives of their own.

The graphics driver submits command buffers to Liverpool, a thread that runs one coroutine per
queue. Platform interrupts (end of a frame's flip packet, GPU idle) call subscribers *on that
thread*: the flip interrupt calls back into the video output, which queues a frame; the idle
interrupt lowers the driver's submission lock. The present thread takes frames at each vblank,
shows them, triggers the flip events the guest waits for, resets the label of the replaced buffer
and wakes Liverpool if it sleeps on a label. Flips submitted by the CPU and accesses to memory the
GPU wrote go through a command queue that Liverpool drains between packets.

The memory manager's lock, the rasterizer's lock and the guest's rwlock are SharedFirstMutexes; a
fault handler may take the memory manager's lock shared on a thread that holds it shared already.

## 2. Plan

Order of work, the most important behaviour first; done means modelled, checked and, where it says
so, proved.

1. `OrbisSem` (done, proved): kernel semaphores.
2. `SharedLock`, `SharedFirstMutex` (done, proved with the refinement).
3. `SleepQueue`, `CondVar` (done, proved): mutex + condition variable + cancellation.
4. `EventFlag` (done, proved).
5. `VideoOut`, `Liverpool` (done, proved): the frame path from submission to the screen,
   composing command processor, driver and present thread.
6. `P2PTcp`, `ByteStreams`, `P2PLink` (done, proved with the refinement): the TCP of the peer-to-peer
   transport between two hosts over a network that misbehaves, implementing a pair of byte streams.
7. `GuestSocket` (done, proved): blocking calls, aborts and close of a stream socket.
8. `ThreadLife` (done, proved): the life of a Pthread from creation to reuse.
9. `PthreadSem`: the POSIX semaphore with its lock-free fast path and an abstract counting semaphore
    it implements; destruction by the released thread.
10. `Equeue`: level and edge triggers, two waiters, timers and deletion.
11. `Barrier`, `PthreadOnce`, `Rwlock` over `SharedFirstMutex`: small; each with a proof.
12. `VideoOut` extended by registration, Close, and the limit of pending flips.
13. The listener of the peer-to-peer transport: backlog, accept queue, connections that die in it.
14. Areas of the memory manager as functions: split and merge preserve a partition.
15. Page tracking; the life of an HTTP request; the save data writer.

Abstract specifications: SharedLock (done), ByteStreams (done), a counting semaphore for OrbisSem and
PthreadSem, a partition of the address space for the memory manager.

## 3. Modules and the code

`PROJECT.json` names for every definition the lines it stands for. A *step* is what lies between two
accesses that other threads can observe; code that holds one mutex from its first access to its last
is one step.

### OrbisSem (class OrbisSem, `sceKernel*Sema`)

State: `slot` (an entry of `orbis_sems` through one lifetime: free, live, erased), `token_count`,
`max_count`, `init_count`, `is_fifo`, `wait_list`, `mutex` held across Signal's loop only, and for
each thread its program counter, call and arguments, verdict flags `was`, permits `sem` of its
`BinarySemaphore`, the time its sleep took and what is left of its timeout.

`CreateSema` with its argument check; `WaitFast` (poll, or enough tokens) or `WaitEnqueue` (insertion
before the first waiter of a greater priority number, or at the end for FIFO); `SemAcquire` and
`SemTimeout` are the two ends of the sleep *outside* the mutex; `WaitReturn` re-locks it, computes the
remaining time modulo 2^32 and either leaves with the verdict or unlinks itself.
`SignalEnter`/`SignalSkip`/`SignalWake`/`SignalReturn` walk the list, passing over waiters that need
more than there is; `Cancel` and `Delete` release everybody; `Erase` ends the lifetime. Signal's
addition is 32-bit signed with wraparound (`Add32`).

Not in the model: reuse of an erased slot, names, a second semaphore.

### SharedLock, SharedFirstMutex (`common/shared_first_mutex.h`)

`SharedLock` is what the class promises: exclusive or shared, shared hold recursive, readers held off
by a holding writer only. `SharedFirstMutex` has the word (`writer_bit`, `readers`),
`waiting_writers`, `mtx`, the set `cv` of threads blocked on the condition variable, and one step per
atomic access: the predicate of `lock`, its exchange, the decrement and the two-step shared path
(`SharedTest`, then `SharedAdd` which increments without an exchange), `ReaderCheck` of the last
reader without `mtx`, and `Notify` with it. Condition variables may wake spuriously. Callers are
disciplined: no upgrade, no unlock by another thread.

### SleepQueue, CondVar (`condvar.cpp`, `mutex.cpp`, `sleepq.cpp`, parts of `pthread.h/.cpp`)

`SleepQueue` has the queue of one wait channel as a record and the operations `SleepqAdd`,
`SleepqRemove` and `SleepqDrop`, in which the queue object of a thread changes hands: the first waiter
lends its own, later ones put theirs on a free list, each leaver takes one back.
`CondVar` has the mutex (owner, recursion count, Deferred flag), the chain lock, and per thread the
steps of `Wait` (`CallWait`, `WaitUnlock`, `WaitAdd`, `WaitCheck`, `WaitPresleep`,
`WaitAcquire`/`WaitTimeout`, then served, given up or again, `WaitRelock`), of lock, trylock, timed
lock and unlock, `Signal` (also by thread), `Broadcast`, `Release` of waiters after the chain lock
is dropped, and cancellation (`Cancel`, `SetCancelState`, `TestCancel`, `Exit`). `WakeAll`,
`Released` and `Flushed` are the three places where deferred waiters are woken. All waiters of the
condition variable use the one mutex; asynchronous cancellation is left out.

### EventFlag (`event_flag.cpp`)

Bits are a set. A request has a pattern, And/Or, a clear mode and whether it is timed; a poll is a
timed request. A call is begun (`Enter`) and then waits for `m_mutex`, while others take it, delete the
flag or free it; the step that gets the mutex (`Method`) says which method it is, since no line before
its lock touches the object. `Set` walks the list, one step per waiter, and consumes bits for each it
serves; `Cancel` and the destructor flag everybody; the destructor waits on its condition variable
until the list is empty (`Delete`, `DeleteDone`), lets the mutex go, and the object goes (`Free`).

The destructor waits for the threads in its list. A thread blocked on `m_mutex` is not in it, nor is
one whose `Set` gets the mutex between the destructor's unlock and the end of the object.
`FreedAfterWaiters` says that no *other* thread is inside when the object goes. Those two may be, and
in the run they are; what they do with a destroyed mutex is undefined, so the behaviour ends with
`freed` and `CallsEnd` does not promise that they return.

A waiter leaves the list itself, after it wakes, so a ready
waiter is still in the list when the next `Set` comes: `consumed` counts how often bits were taken
for it. Left out: spurious wakeups (the code's loops re-test), the values stored to `*pTimeout`, the
number `Cancel` reports, names and argument checks made before the object is touched.

### VideoOut, Liverpool (`videoout/driver.*`, `video_out.cpp`, `liverpool.*`, `gnmdriver.cpp`)

`VideoOut` is the flip path: labels, the buffer on screen, pending flips, queued frames, and
the present thread in four steps (take a request; update the status and trigger events; reset the
replaced buffer's label; signal and move on), with no lock over them as in `Flip`.
`Liverpool` EXTENDS it with the command processor thread, the guest threads inside the driver's calls,
and their queues.

| Action | Code |
|---|---|
| `LockSubmit`, `WaitGpuIdle` | `m_submit_lock`, the driver's wait on `submission_lock` |
| `PatchFlipRequest` | the flip packet and its one-time subscriber |
| `SubmitGfx`; `PushAsc`, `CountAsc` | submissions; the compute one queues under `m_access` and counts later under `submit_mutex` |
| `CheckIdle`, `RaiseLock`, `SubmitDone` | the end of a frame: idle test, submission lock, done flag |
| `SubmitFlip`, `SendCommand`, `SendCommandAndWait` | a CPU flip counts itself, then sends itself; a read of GPU memory waits for its command |
| `ProcessWait`, `ProcessLoop`, `DrainCommand`, `ProcessCeQueue`, `PickQueue`, `FinishBuffer`, `RoundTail`, `RoundFlush`, `IdleInterrupt` | the loop of `Process` |
| `WaitRegMem`, `WaitVoLabel`, `WriteData`, `PatchedFlip`, `OtherPacket` | packets; a wait on a label sleeps when every submission is a graphics one and else polls and yields |
| `ReceiveRequest`, `FlipStatus`, `ResetLabel`, `FlipDone`, `SignalVoLabel` | the present thread |

Abstractions: a command buffer is the sequence of its packets that wait for, write or flip a label,
all others being "work"; a constant engine buffer is one step; one submission call submits one
buffer; the guest alternates its buffers under the submission mutex and has each frame wait for the label of
the buffer it draws to, as `sceGnmInsertWaitFlipDone` makes it; a compute queue's wrapped ring is
one buffer; CPU flips go to the blank frame; vblanks, registration, closing and shutdown are left out.

### P2PTcp, P2PLink, ByteStreams (`core/net/p2p_tcp.cpp`, `p2p_transport.cpp`)

`ByteStreams` is the promise: in each direction one stream that arrives in order, without a gap or a
byte twice, ends after its data, and of which the writer takes for acknowledged only what arrived.
`P2PTcp` has a connection as a record with the fields of `tcp::Connection` and its handlers as
operators from a connection to the one they leave; what they emit collects in `out`. `P2PLink` puts
two of them on a network.

| Operator or action | Code |
|---|---|
| `Connect`, `AcceptSyn`, `HandleSynSent`, `OnSynReceivedAck` | the handshake, a crossing SYN and a lost SYN ACK included |
| `OnSegment`, `Acceptable`, `AckOnly`, `Refuse`, `OnReset`, `OnAck` | the checks of a segment in their order |
| `ProcessAck`, `OnNewAck`, `OnDuplicateAck`, `UpdateWindow` | acknowledgement, fast recovery, congestion and send window |
| `ProcessData`, `InWindow`, `Store`, `PullOutOfOrder`, `TakeFin` | trimming to the window, data past a hole, the peer's FIN |
| `TrySend`, `RetransmitFirst`, `Advance` | sending within both windows, the FIN after the data |
| `OnTimer`, `OnRetransmitTimeout` | delayed ACK, retransmission, persist, TIME_WAIT |
| `Send`, `Recv`, `Shutdown`, `Close`, `Abort` | the calls of the application |
| `Open`, `Write`, `Read`, `ShutdownSend`, `CloseSocket`, `AbortSocket`; `Deliver`, `Accept`, `NobodyListens`, `RunTimers` | the same under `Transport::mutex_`, by the application and by the transport thread |

Every handler of a host runs under one mutex, so it is one step. What a handler sends goes on the wire;
the network may then drop any segment (`Lose`), deliver any of them first (`Overtakes`) and keep a copy
of one it delivers; each such mishap, and each timer that expires while segments are under way, counts
against `MaxFaults`.

Abstractions: a byte is its position in the stream; a deadline is armed or not, and an armed one may
expire at any time (the round-trip estimate only computes durations); the maximum segment size is the
same on both sides; a closed connection forgets what no handler reads again (`Settled`). Left out:
checksums, the codec of datagrams, virtual ports, the listener's backlog and accept queue, the
signaling channel, datagram sockets.

### GuestSocket (`core/net/guest_net.cpp`, StreamSocket of `p2p_transport.cpp`)

One connected stream socket. `wait_mutex` guards the waiters and preserved aborts, the transport's
mutex the connection and its readiness flags; each time a thread holds one of them is a step:
`Enter` (`WaitScope`: drain the wake handle, then register, or leave at once because the socket
closes or an abort was kept for this side), `EnterNonblocking` (`ConsumePendingAbort`), `Check`,
`Recv` and `Send`, `Wait` (the wake handle or the flag) and `WaitTimesOut`, `Leave` (`~WaitScope`), `GoOn`
(the loops of `SendAll` and `ReceiveAll`). Against them run `SocketAbort`, `SocketClose`, `Shutdown`,
`LastReference` (`~GuestSocket`, when the last call has returned) and `Transport`: any segment or
timer, seen as what it does to the part of the connection these flags are made of.

Left out: connect and accept, datagrams, native sockets, epoll, MSG_PEEK, name resolution.

### ThreadLife (`thread_state.cpp`, `pthread.cpp`)

State: the `Pthread` fields that decide about collection (reference count, dead, detached,
joiner, terminated), where each object is (`threads`, `gc_list`, `free_threads`, the heap),
`total_threads`, and the program counters of the callers and of the guest threads. `gc_list` is a set:
`Collect` takes all of it and its order decides nothing.
Creation goes through `Collect`, `Free`, `Release`, `Uncount`, `Alloc`, `Count`, `Allocate`, `GiveUp`,
`Construct`, `Link`, `Start` and `SetAffinity`, one step for each lock it takes and each atomic
counter it touches; `Die`, `TryCollectSelf`, `Publish` and `Leave` are `ExitThread`; `Join`,
`JoinWait`, `JoinGivesUp` (deadline or cancellation), `BackoutJoin`, `Joined`, `Detach`, `RefAdd` and
`RefDelete` are the callers. `TryCollect` pins the object, gives its lock up and takes both locks
in the order of the list; `Pin` and `MoveToGc` are its two halves. A thread that has published its
end still uses its Pthread (`leaving`); the object may have a new life by then, which the
model allows because the code does.

Left out: stacks, TLS and failures to make them, cleanup handlers, thread-specific data, once,
suspension, priorities. Callers are not join targets themselves, so two threads that join each other,
and so take their two locks in opposite order (`pthread.cpp:146-150`), are not covered.

## 4. Runs

All bounds are constants of the configuration files; `MaxCalls` bounds the calls in one behaviour, not
the length of it. Deadlock checking is off everywhere: a system whose guest makes no more calls stops.

| Run | Instance | Shows |
|---|---|---|
| `sem_queue` | 3 threads of two priorities, needs 1 and 2, 4 calls, symmetry of the two threads of equal priority; 818k states | list sound, no eligible sleeper, tokens taken exactly once, served in list order |
| `sem_args` | 2 threads, 3 calls, every kind of argument, 2-bit words; 157k states | types (ranges survive overflow checks), every call ends |
| `shared_first_mutex` | 3 threads, 4 acquisitions, depth 2; 38k states | no counter underflows, no lost wakeup, SharedLock implemented, calls end, recursive shared ones next to a waiting writer included |
| `condvar` | 3 threads, one of which may be cancelled, recursive mutex, deferral array of 1, 6 calls; 270k states | arrays bounded, queue objects conserved, recursion restored, no signal lost, timed and cancelled waits end |
| `condvar_canceled_signaler` | violation, 6 calls | finding 1 |
| `event_flag` | 3 threads of two priorities, 2 bits, 3 requests, 4 calls; 161k states | waiter list, no eligible sleeper, freed after the waiters, honest returns, calls end |
| `liverpool` | 2 guest threads, 2 buffers, 3 calls, counter modulo 16; 166k states | submissions and pending flips counted, no lost notification, flips in order with their labels, labels held, calls end, flips reach the screen |
| `p2p_recovery` | 4 segments of one byte, sequence numbers modulo 32 from 30, 2 mishaps; 167k states | byte streams implemented, what is sent is acknowledged or the connection given up |
| `p2p_close` | 2 bytes into a window of 1, both sides shut down or close, one aborts, 1 mishap, modulo 16 from 14; 167k states | byte streams with their ends implemented, a timer behind everything outstanding |
| `guest_socket` | a sender (all, or without blocking), a receiver with MSG_WAITALL, 2 calls, an abort, a close, a shutdown of sending, a connection that may break; 268k states | waiters and wake handles agree, calls end after a close or a break |
| `guest_socket_eof` | violation, a receive and a shutdown of both directions | finding 2 |
| `thread_life` | 2 callers, 2 Pthreads, at most 3 creations, 1 reference, cache of 1, collection from 1, thread limit 1; 80k states | references counted, each object in one place, what is used stays linked, the total counted, the dead are collected, joiners return |

Why the bounds are enough. A race in these protocols needs a waiter, somebody who changes what it
waits for and a third party that competes or times out; three threads give all of them. Four calls
give a waiter, a skipped waiter, a signal and one more call (a second signal, cancel or deletion);
six in `CondVar` because lock, wait, lock, signal and a cancellation are five. A deferral array of one
entry is full with the first waiter, so its overflow path is taken with the second. Two buffers and
three frames make a buffer come round, so that its label is set again while its first flip is under
way. In both `p2p` runs the opener's sequence numbers pass the wrap within its first two bytes.
Three duplicate ACKs need a lost segment and three more behind it, hence four segments; the second
mishap loses or delays the retransmission, or reorders it. A receive buffer of one closes the window
with the first byte, so that the second needs the persist timer or a window update, and a FIN meets a
closed window. Two Pthreads and three creations make an object come round through the
collection list and the cache, and with a cache of one and a collection of two one goes back to the heap.
Two calls on a socket wait for its two sides; the second can also start after the first was aborted.
Recursion depth two shows the difference between a recursion and a first acquisition. The
theorems of section 6 remove the bounds for the safety properties of all systems.

Each property is accompanied in `PROJECT.json` by a mutant, a plausible mistake in one definition
(a dropped notification, an iterator not advanced, a flag tested late) under which the same run fails.

## 5. Fairness

The liveness properties assume weak fairness of each thread's steps *inside a call* (`Step`,
`GuestStep`), of the command processor and of the present thread: the host scheduler does not stop
a runnable thread for ever, and a host mutex that stays free is taken. Nothing forces a guest
thread to begin a call. Where a lock has to be given up for others to go on (SharedFirstMutex, the
mutex of CondVar), the release is fair too: it is what the lock's users owe. A behaviour has a
bounded number of calls, so a thread cannot be overtaken for ever and weak fairness is enough; what
the runs do *not* show is freedom from starvation under an endless supply of competing calls, which
none of these host mutexes promises. Timeouts may fire at any time after the sleep begins.

P2PLink: the transport thread takes what arrives (weak fairness of `Arrival`) and sleeps no longer
than to the next deadline. A deadline is a point in time that only an answer moves, so a
retransmission that stays or keeps becoming due does run (strong fairness of `RetransmitDue`, which
may be disabled while an early expiry would be one mishap too many). Both are written out with the
condition under which the action can occur in place of ENABLED, because every handler succeeds. The
network brings what it does not lose; it loses at most `MaxFaults`. The applications are not fair.
GuestSocket: only a thread's own steps are fair; the transport, aborts, closes and deadlines need not
come. ThreadLife: the steps of a caller that has begun and of a thread that exits are fair; a guest
thread need not exit, and a join need not be given up.

## 6. Proofs

| Module | Theorems | About |
|---|---|---|
| `OrbisSemProofs` | TypeCorrect, ListSoundness, SingleVerdict, NoLostWakeup, PaidExactlyOnce, OrderedByPriority, ServedByPriority | OrbisSem |
| `SharedFirstMutexProofs` | TypeCorrect, Exclusion, NoWakeupLost, SharedIsRecursive, Refinement | SharedFirstMutex |
| `CondVarProofs` | TypeCorrect, SleepQueueSoundness, RecursionKept, NoSignalLost | CondVar, SleepQueue |
| `EventFlagProofs` | TypeCorrect, WaiterListSoundness, NoLostWakeup, DestructorWaitsForWaiters, ReturnsHonest | EventFlag |
| `LiverpoolProofs` | CountersAreRight, SleepsOnlyIdle, InterruptsInOrder, LabelsAreHeld | Liverpool, VideoOut |
| `GuestSocketProofs` | WaitersAreSound, NothingBeyondTheBuffer, EndWakesEverybody | GuestSocket |
| `ThreadLifeProofs` | RefsAreCounted, OneOwner, UsedStay, TotalIsCounted | ThreadLife |
| `P2PLinkProofs` | InvAlways, TimersArmed, StreamsImplemented | P2PTcp, P2PLink, ByteStreams |

They hold for every set of threads, buffers and Pthreads (finite where a counter counts them), all
arguments, timeouts, command buffers and bounds, under the assumptions the modules name:
`ThreadAssumption`, `CountAssumption`, `TimeAssumption`, `CallAssumption`, `BoundAssumption`,
`NoOneAssumption`, `CondAssumption`, `ArgumentAssumption`, `GuestAssumption`, `VideoOutAssumption`,
`FiniteAssumption`, `SequenceAssumption`, `SizeAssumption`, `SidesAssumption`, `IssAssumption`,
`LifetimeAssumption`. They say that the placeholder for "no holder" is not a thread, that argument
sets hold numbers of the right kind, that the word size is positive, and that threads and Pthreads are
finitely many; TLC evaluates them in every run. Those of the peer-to-peer TCP say that there are two
sides, that buffers and segments have a size, that the initial sequence numbers are sequence numbers,
that both buffers fit twice into the sequence space (the code has 32 and 64 KiB in a space of 2^32), and
that one stream is shorter than half of that space (`LifetimeAssumption`). The last one is TCP's own: the
model lets a segment stay under way for ever, and one that outlives a turn of the numbers cannot be
told from a new one, by this code or any other without timestamps. The theorems say nothing of a
connection that moves more than 2 GiB in one direction while such a segment is still under way.

Each module proves Init => IndInv, IndInv /\ [Next]_vars => IndInv' (one lemma per action, one step
per conjunct it can disturb) and IndInv => property.

- *OrbisSem*: TypeOK, HolderInv (who holds the mutex is in Signal's loop), CallInv (the shape of the
  call at each program counter), ListSound, ServedPrefix, VerdictInv, DebitInv. `NoEligibleSleeper` is
  not inductive: inside the loop it holds for the part of the list already passed only (ServedPrefix:
  everybody before the iterator needs more than there is), which becomes the whole list when the
  loop ends. With Ordered (the list is ordered by priority, which an insertion keeps because of
  where it inserts and a removal because it moves nobody past anybody) it also gives `ServedInOrder`.
  `PaidOnce` needs DebitInv: the tokens of a waiter are taken when it is flagged, long
  before it returns.
- *SharedFirstMutex*: the words count what the program counters say (WriterBit, ReadersCounted,
  WritersCounted: cardinalities of sets of threads and sums of depths), HolderPc and MtxOwned tie
  `mtx` to those inside it, ReaderMayAdd says that between a reader's test and its increment no writer
  sets its bit, because that needs `mtx`. Entitled and CvBlocked carry NoLostWakeup. The refinement
  maps exclusive holders and depths to themselves; every step is an abstract step or a stutter.
- *CondVar*: Sound(sleepq) (as many queue objects as blocked threads, none twice), QueuedPc,
  ReleaseHas, RecursionInv, ChainInv, SignalInv (a taken waiter that sleeps is owed a release by
  one that releases now or holds it deferred).
- *EventFlag*: WaitersSound, MutexInv, PassedInv (as ServedPrefix, for waiters not flagged), TakenInv
  (what is recorded for a served waiter met its condition), DestroyInv (one destructor, whose list is
  empty once it lets the mutex go, because `m_deleted` keeps everybody who gets it later out).

- *Liverpool*: LockInv and ReadInv (who holds the submission mutex; a read command is that of the one
  thread that waits for it), QueueInv and GpuInv (a queued buffer is a whole one but for the front of
  its queue, which is what the command processor has left of it). SubscribersInv is the heart of
  `FlipIrqInOrder`: there is an increasing map from the subscribers to the frames in the graphics queue,
  k-th to k-th, with the frame of a registered and not yet submitted call at the end; it is stated with
  the map, because the processor consumes both from the front and other buffers lie in between.
  LabelInv says in which of the places Flipping (the flip packet is next), Queued, Showing and OnScreen
  a buffer's frame is, that these exclude each other, that the label is 1 in each of them and 0 while a
  frame is past its wait and before its label packet. `Counted` is inductive with these: the number
  of flips among the commands, of threads about to send and of queued buffers each change by one.
- *GuestSocket*: EnterInv (nobody is aborted or registered before it reaches `WaitScope`), CloseInv (once
  the socket closes every registered call is aborted, because `WaitScope` tests `closing` under the
  mutex under which `InterruptWaiters` runs), ReadyInv (a failed connection is readable and writable),
  MovedInv (a call in its loop has something left to move).
- *ThreadLife*: CallersInv (what a caller at each step may rely on), RunInv (a thread that runs is
  linked or at least to be collected), RefsInv and TotalInv (`RefsCounted` and `TotalCounted` as
  cardinalities of sets of callers), PlacesInv (a Pthread is in exactly one list and in nobody's hands,
  or in none and in those of one caller). `RefsCounted` speaks of linked Pthreads only, and PlacesInv
  is what keeps callers from counting references on one that has left.
- *P2PLink*: the invariant is in a module of its own, `P2PInvariant`. Its idea is to speak of one
  connection against what surrounds it (`Around`: the two streams as written, how far the peer has
  received and sent, whether it is gone), so that the proof about a handler is about one record and
  the fixed surroundings; only `StepInv`, which puts it on the network, and the actions look at two
  sides (`Mirror`: what one side is, the other has around it). `Typed` has the types; `SndOK` the
  order snd_una, snd_nxt, snd_max and the place of the send buffer in its stream; `AckOK` that what
  is acknowledged has arrived; `ArrOK` and `RcvOK` that what can be read, and every piece kept out
  of order, is a piece of the peer's stream at its offset and that its FIN ends it; `OutOK` and
  `Arrives` the same of every segment sent or under way (`Belongs`); `StateOK` what a state says
  about the numbers; `TimOK`, `Owed` and `CovOK` are `TimerArmed`. All numbers are distances from
  the initial one, and the first lemmas show that SeqLt and SeqLe are their order inside a window.
  In the middle of a handler acknowledgements may be owed and data may be without a timer: `Core` is
  the part of the invariant that holds there, `Later` what a handler never takes back. The rest is a
  lemma per operator of P2PTcp, in the order in which the handlers call them. The code's loops
  (TrySend, PullOutOfOrder) are recursive functions over a number of rounds, not RECURSIVE
  operators. That such a function exists and that each of its rounds keeps the invariant is shown
  with a set of numbers that contains 0 and every successor (`UpTo`, from the least element of a
  set), since the library's induction theorems take an operator. The invariant is inductive only
  with the surroundings in it: that an ACK is never ahead of what arrived needs that segments are
  pieces of *their sender's* stream, which needs the sender's order of numbers, which needs that no
  ACK is ahead. `StreamsImplemented` reads off the invariant what each action does to the two
  streams (`Heard`, `Finishes`, `Adds`, `Takes`) and maps it to the steps of `ByteStreams`.

Theorems that no run checks as such: InvAlways (P2PLink's invariant itself), SingleVerdict,
OrderedByPriority, Exclusion, SharedIsRecursive (the runs check other properties that the same
mistakes violate: `PaidOnce` and `ServedInOrder` of OrbisSem, the refinement of SharedLock and
`CallsEnd`), NothingBeyondTheBuffer and EndWakesEverybody (the state behind ClosedCallsEnd and
BrokenCallsEnd: whoever sleeps when the socket closes or the connection ends has been woken).

Only model-checked: all liveness, since the prover has no fairness (CallsEnd, WaitsEnd,
FlipsReachScreen, AckedOrClosed, ClosedCallsEnd, BrokenCallsEnd, DeadIsCollected, JoinReturns), and
the violation runs. Every safety property a passing run checks has a theorem.

## 7. What the checks found

1. `condvar_canceled_signaler`. A thread that signals under the mutex and then waits itself leaves the
   wake to its `Sleep`; a cancellation pending at `condvar.cpp:154` skips the sleep, and the
   signaled thread sleeps on. `SignalNotLost` therefore carries the condition that nobody is cancelled.
2. `guest_socket_eof`. `StreamSocket::Shutdown` raises the readable flag because "reads return EOF now"
   (`p2p_transport.cpp:759`); for both directions the call goes on to `Update`, which sets the flag back
   (`:437`), and a receive that sleeps sleeps on.

Observations without a run:

Semaphores, condition variables, event flags

- `*timeout -= time` in `OrbisSem::Wait` (`semaphore.cpp:279`) wraps when a signal reaches a waiter
  after its timeout ran out and before it holds the mutex again. `OrbisSem` models the wrap.
- A release made after the chain lock is dropped (`condvar.cpp:289`) can reach the waiter's *next*
  wait; with the release of that one and a cancellation a third permit is pending on a semaphore made
  for two, which the Windows build asserts against.
- `sceKernelDeleteSema` frees the object whose mutex its released waiters still have to take.
- Event flags order the waiter with the greater `attr.prio` first; OrbisSem inserts before "lower
  priority (greater number)" (`semaphore.cpp:296`), `pthread.h:35-36` calls 256 the lowest and 767
  the highest.
- `~EventFlagInternal` (`event_flag.cpp:55-65`) waits for its waiters only. A thread blocked on `m_mutex`
  at `:108`, `:188`, `:208` or `:213` while it runs locks a mutex that is gone, or gets it while the
  object goes. `EventFlag` models both; no doc of the repository says what such a guest may expect.
- A second `Set` takes bits again for an event flag waiter that is ready and not yet awake; a `Cancel`
  that follows the `Set` makes it return ECANCELED although its bits are gone.

Peer-to-peer TCP and guest sockets

- A window update that comes with a FIN the closed receive window refuses goes through the `ack_only`
  path, which opens the send window without `TrySend` and clears persist: what is left to send waits for
  the FIN to come again after the application has read. `TimerArmed` excepts exactly that: no timer is
  needed where the peer is gone or has sent past what has been received here, and will send it again.
  (With data in both directions it may be data instead of a FIN; the proof found that case.)
- `RetransmitFirst` (`p2p_tcp.cpp:314`) sends up to a full segment from snd_una_ and looks at neither the
  send window nor snd_max_. With a window smaller than a segment, three duplicate ACKs or a partial ACK,
  and a receiver that has made room in the meantime, the peer takes and acknowledges bytes beyond
  snd_max_; from then on each of its ACKs "acks unsent data" (`:488`) and is dropped, until the sender
  has retried often enough and gives up as TimedOut. TLC finds it in 17 steps with a receive buffer of
  two, segments of two, three bytes to send and three mishaps. No property is violated by it: the streams
  stay right, a timer runs and the connection is given up.
- A FIN against a window that stays closed is retransmitted and, although the peer answers each time,
  given up as TimedOut. The peer ignores the reset that says so, because it lies past the FIN, reads on,
  and gets ConnReset from the answer to its window update where the end of the stream should be.
- The persist timer probes for ever and FIN_WAIT_2 has no timeout: a peer that is gone without a word
  is noticed only when data is outstanding.
- A RST in Closing or LastAck closes without an error although data may be lost.
- Two sides that both have data and both have closed windows answer each other's refused segments with
  ACKs, without a limit.
- `send_again` (`guest_net.cpp:1091`) set by an abort whose sender had everything sent already stays and
  makes a later plain abort be preserved.
- A blocked sender is not woken by a shutdown of the sending side: the flag stays false although `Send`
  would return an error.

Thread lifecycle

- An exiting thread notifies and calls `native_thr->Exit()` through its Pthread after it has published
  `TidTerminated` (`pthread.cpp:81-84`); by then the object can be collected, zeroed and given to a new
  thread, although `thread_state.cpp:105-106` calls the zeroing safe. The late unlock of `TryCollect`
  and the creator's `SetAffinity` have the same shape.
- `total_threads` is compared with `>` and counted afterwards (`thread_state.cpp:88`): one thread more
  than the maximum is allocated, and one more for every creator between the test and the count.
- `Alloc` zeroes a cached object, the pointers to its lock and sleep queue included, which leak.

Graphics

- `Flip` triggers the flip events before it resets the replaced buffer's label (`driver.cpp:260`, `:273`).
  A guest that paced its frames with the events only could have the label its next frame sets
  overwritten, and the assertion in the flip interrupt (`video_out.cpp:354`) would fail. A guest that
  waits for the label is safe: run `liverpool`.
- The command processor sleeps on a label although commands are queued or arrive
  (`liverpool.cpp:1318`); a flip sent by the CPU that would reset that label is one of them.
- The GpuIdle interrupt of an earlier round may lower a submission lock raised just before
  (`gnmdriver.cpp:83`): the guest is paced less than the comment at `:66` says, nothing blocks.
- A SubmitDone between the test and the reset of `submit_done` (`liverpool.cpp:420`, `:426`) is lost
  for that flush.
- `SubmitAsc` queues before it counts: the processor may finish the buffer first, end its round
  early, and with more submissions under way take the counter below zero. `Counted` allows exactly
  that and says that the count comes out right.
- With seventeen flips pending an end-of-pipe flip is refused and the interrupt handler asserts.
- `Close` of the video output resets labels and the pending count without the locks of their other
  writers and signals nobody who sleeps on a label.

## 8. What is not modelled

Section 1 lists every part; `PROJECT.json` repeats them with their status. Left out for good:
generated tables, vendored libraries, parsing and formatting, user interface, device I/O, image and
audio processing, and the shader compiler, whose correctness is about single programs and not about
orders of events. Left out so far and planned: section 2, items 9 to 15. Within the modelled
components the omissions are those named in section 3. Undefined behaviour of C++ (the freed
semaphore, unsynchronised label words) is represented where it can be read as a choice of order,
and listed as a hazard where it cannot.
