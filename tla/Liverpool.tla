----------------------------- MODULE Liverpool -----------------------------
(***************************************************************************)
(* The command processor thread (video_core/amdgpu/liverpool.cpp and .h),  *)
(* the guest calls of the graphics driver that feed it                     *)
(* (libraries/gnmdriver/gnmdriver.cpp) and the present thread (VideoOut).  *)
(*                                                                         *)
(* A command buffer is a sequence of packets, cut to the ones that touch   *)
(* the state here: a wait for a buffer label, the write of a label, the    *)
(* flip interrupt and anything else ("work").  A constant engine buffer is *)
(* one step without waits.  Code under one mutex, or that reads and writes *)
(* one shared word, is one step.                                           *)
(***************************************************************************)
EXTENDS VideoOut, FiniteSets

CONSTANTS
    Threads,     \* guest threads
    NoOne,       \* the holder of a free m_submit_lock
    Calls,       \* the kinds of calls each guest thread makes, among CallKinds
    MaxCalls,    \* bound: calls in one behaviour
    CounterSize  \* num_submits is a counter modulo this, 2^32 in the code

CallKinds == {"frame", "frameDone", "draw", "done", "compute", "flip", "read"}

ASSUME GuestAssumption ==
    /\ NoOne \notin Threads /\ Calls \in [Threads -> SUBSET CallKinds]
    /\ MaxCalls \in Nat /\ CounterSize \in Nat \ {0}

ASSUME FiniteAssumption == IsFiniteSet(Threads)

VARIABLES
    submits,       \* mapped_queues[q].submits, each a sequence of command buffers
    ce_submits,    \* how many constant engine buffers wait
    num_submits,
    num_mapped_queues,
    command_queue, \* SendCommand: [kind, index] of a flip, or the thread that waits
    submit_done,
    gpu,           \* where the command processor thread is
    curr_qid,      \* the queue it serves, -1 before the first
    polling,       \* the front graphics buffer is in the polling loop of its wait
    m_submit_lock, \* holder of the driver's submission mutex
    submission_lock,
    subscribers,   \* buffers of the one-time subscribers of the GfxFlip interrupt
    pc, call,      \* where each guest thread is, and in which call
    frames,        \* frames the guest has submitted
    budget         \* calls the guest may still make

queueVars == <<submits, ce_submits, num_submits, num_mapped_queues, command_queue, submit_done>>
gpuVars == <<curr_qid, polling>>
guestVars == <<m_submit_lock, pc, call, frames, budget>>
vars == <<queueVars, gpuVars, gpu, submission_lock, subscribers, guestVars, videoVars>>

Gfx == 0
Asc == 1

Init ==
    /\ VideoOutInit
    /\ submits = [q \in {Gfx, Asc} |-> <<>>]
    /\ ce_submits = 0 /\ num_submits = 0 /\ num_mapped_queues = 1
    /\ command_queue = <<>> /\ submit_done = FALSE
    /\ gpu = "wait" /\ curr_qid = -1 /\ polling = FALSE
    /\ m_submit_lock = NoOne /\ submission_lock = FALSE
    /\ subscribers = <<>>
    /\ pc = [g \in Threads |-> "idle"]
    /\ call = [g \in Threads |-> "none"]
    /\ frames = 0 /\ budget = MaxCalls

Work == [op |-> "work"]
OnBuffer(op, b) == [op |-> op, buffer |-> b]
\* The command buffer of a call: a frame waits until its buffer is off the screen (the packet of
\* sceGnmInsertWaitFlipDone), draws, and ends in the packets PatchFlipRequest writes.
CommandBuffer(kind, b) ==
    CASE kind \in {"frame", "frameDone"} ->
            <<OnBuffer("wait", b), Work, OnBuffer("label", b), OnBuffer("flip", b)>>
      [] OTHER -> <<Work>>

\* num_submits is an unsigned atomic.
Add(n, k) == (n + k) % CounterSize

-----------------------------------------------------------------------------
\* submit_cv.notify_one: only the command processor thread ever waits on it.
Notify == gpu' = IF gpu = "asleep" THEN "wait" ELSE gpu

Goto(g, l) == pc' = [pc EXCEPT ![g] = l]

\* The guest begins a call.
Begin(g, kind) ==
    /\ pc[g] = "idle" /\ budget > 0 /\ kind \in Calls[g]
    /\ budget' = budget - 1
    /\ call' = [call EXCEPT ![g] = kind]
    /\ Goto(g, IF kind \in {"flip", "read"} THEN kind ELSE "lock")
    /\ UNCHANGED <<queueVars, gpuVars, gpu, submission_lock, subscribers, m_submit_lock, frames,
                   videoVars>>

\* std::scoped_lock lk{m_submit_lock}
LockSubmit(g) ==
    /\ pc[g] = "lock" /\ m_submit_lock = NoOne
    /\ m_submit_lock' = g
    /\ Goto(g, "gate")
    /\ UNCHANGED <<queueVars, gpuVars, gpu, submission_lock, subscribers, call, frames, budget,
                   videoVars>>

\* WaitGpuIdle of the driver, with m_submit_lock held.
WaitGpuIdle(g) ==
    /\ pc[g] = "gate" /\ ~submission_lock
    /\ Goto(g, CASE call[g] \in {"frame", "frameDone"} -> "register"
                 [] call[g] = "draw" -> "submit"
                 [] call[g] = "compute" -> "push"
                 [] call[g] = "done" -> "check")
    /\ UNCHANGED <<queueVars, gpuVars, gpu, submission_lock, subscribers, m_submit_lock, call,
                   frames, budget, videoVars>>

\* Mutant: the subscriber of the newest flip goes first.
RegisterFirst(g) ==
    /\ pc[g] = "register"
    /\ subscribers' = <<frames % NumBuffers>> \o subscribers
    /\ frames' = frames + 1
    /\ Goto(g, "submit")
    /\ UNCHANGED <<queueVars, gpuVars, gpu, submission_lock, m_submit_lock, call, budget, videoVars>>

\* PatchFlipRequest, sceVideoOutSubmitEopFlip: the guest alternates its buffers.
PatchFlipRequest(g) ==
    /\ pc[g] = "register"
    /\ subscribers' = Append(subscribers, frames % NumBuffers)
    /\ frames' = frames + 1
    /\ Goto(g, "submit")
    /\ UNCHANGED <<queueVars, gpuVars, gpu, submission_lock, m_submit_lock, call, budget, videoVars>>

\* SubmitGfx under submit_mutex and m_access; a draw brings a constant engine buffer. A guest that
\* is done with the frame goes on to call sceGnmSubmitDone.
SubmitGfx(g) ==
    /\ pc[g] = "submit"
    /\ submits' = [submits EXCEPT ![Gfx] =
                      Append(@, CommandBuffer(call[g], (frames - 1) % NumBuffers))]
    /\ IF call[g] = "draw"
         THEN ce_submits' = ce_submits + 1 /\ num_submits' = Add(num_submits, 2)
         ELSE num_submits' = Add(num_submits, 1) /\ UNCHANGED ce_submits
    /\ Notify
    /\ m_submit_lock' = NoOne
    /\ IF call[g] = "frameDone"
         THEN Goto(g, "lock") /\ call' = [call EXCEPT ![g] = "done"]
         ELSE Goto(g, "idle") /\ UNCHANGED call
    /\ UNCHANGED <<num_mapped_queues, command_queue, submit_done, gpuVars, submission_lock,
                   subscribers, frames, budget, videoVars>>

\* SubmitAsc: the compute buffer is queued under m_access, then counted under submit_mutex.
PushAsc(g) ==
    /\ pc[g] = "push"
    /\ submits' = [submits EXCEPT ![Asc] = Append(@, CommandBuffer("compute", 0))]
    /\ Goto(g, "count")
    /\ UNCHANGED <<ce_submits, num_submits, num_mapped_queues, command_queue, submit_done,
                   gpuVars, gpu, submission_lock, subscribers, m_submit_lock, call, frames,
                   budget, videoVars>>

\* Mutant: the command processor is not notified.
CountAscQuietly(g) ==
    /\ pc[g] = "count"
    /\ num_mapped_queues' = 2
    /\ num_submits' = Add(num_submits, 1)
    /\ Goto(g, "idle") /\ m_submit_lock' = NoOne
    /\ UNCHANGED <<submits, ce_submits, command_queue, submit_done, gpuVars, gpu, submission_lock,
                   subscribers, call, frames, budget, videoVars>>

CountAsc(g) ==
    /\ pc[g] = "count"
    /\ num_mapped_queues' = 2
    /\ num_submits' = Add(num_submits, 1)
    /\ Notify
    /\ Goto(g, "idle") /\ m_submit_lock' = NoOne
    /\ UNCHANGED <<submits, ce_submits, command_queue, submit_done, gpuVars, submission_lock,
                   subscribers, call, frames, budget, videoVars>>

\* IsGpuIdle, then submission_lock without m_wait_idle, then SubmitDone.
CheckIdle(g) ==
    /\ pc[g] = "check"
    /\ Goto(g, IF num_submits = 0 THEN "finish" ELSE "raise")
    /\ UNCHANGED <<queueVars, gpuVars, gpu, submission_lock, subscribers, m_submit_lock, call,
                   frames, budget, videoVars>>

RaiseLock(g) ==
    /\ pc[g] = "raise"
    /\ submission_lock' = TRUE
    /\ Goto(g, "finish")
    /\ UNCHANGED <<queueVars, gpuVars, gpu, subscribers, m_submit_lock, call, frames, budget,
                   videoVars>>

\* Mutant: the command processor is not notified.
SubmitDoneQuietly(g) ==
    /\ pc[g] = "finish"
    /\ submit_done' = TRUE
    /\ Goto(g, "idle") /\ m_submit_lock' = NoOne
    /\ UNCHANGED <<submits, ce_submits, num_submits, num_mapped_queues, command_queue, gpuVars,
                   gpu, submission_lock, subscribers, call, frames, budget, videoVars>>

SubmitDone(g) ==
    /\ pc[g] = "finish"
    /\ submit_done' = TRUE
    /\ Notify
    /\ Goto(g, "idle") /\ m_submit_lock' = NoOne
    /\ UNCHANGED <<submits, ce_submits, num_submits, num_mapped_queues, command_queue, gpuVars,
                   submission_lock, subscribers, call, frames, budget, videoVars>>

\* sceVideoOutSubmitFlip to the blank frame, from any guest thread: count it, then send it.
SubmitFlip(g) ==
    /\ pc[g] = "flip" /\ Accepts(Blank)
    /\ flip_pending_num' = flip_pending_num + 1
    /\ Goto(g, "send")
    /\ UNCHANGED <<queueVars, gpuVars, gpu, submission_lock, subscribers, m_submit_lock, call,
                   frames, budget, portVars, requests>>

Send(c) ==
    /\ command_queue' = Append(command_queue, c)
    /\ Notify
    /\ UNCHANGED <<submits, ce_submits, num_submits, num_mapped_queues, submit_done, gpuVars,
                   submission_lock, subscribers, m_submit_lock, call, frames, budget, videoVars>>

SendCommand(g) ==
    /\ pc[g] = "send"
    /\ Send([kind |-> "flip", index |-> Blank])
    /\ Goto(g, "idle")

\* SendCommand<true>: a guest access to memory the GPU wrote; the thread sleeps for the answer.
SendCommandAndWait(g) ==
    /\ pc[g] = "read"
    /\ Send([kind |-> "read", thread |-> g])
    /\ Goto(g, "await")

GuestStep(g) ==
    \/ LockSubmit(g) \/ WaitGpuIdle(g) \/ PatchFlipRequest(g) \/ SubmitGfx(g)
    \/ PushAsc(g) \/ CountAsc(g) \/ CheckIdle(g) \/ RaiseLock(g) \/ SubmitDone(g)
    \/ SubmitFlip(g) \/ SendCommand(g) \/ SendCommandAndWait(g)

-----------------------------------------------------------------------------
HasWork == num_submits # 0 \/ command_queue # <<>>

\* Process, the outer wait on submit_cv and the start of a round.
ProcessWait ==
    /\ gpu = "wait"
    /\ IF HasWork \/ submit_done
         THEN gpu' = "loop" /\ curr_qid' = -1
         ELSE gpu' = "asleep" /\ UNCHANGED curr_qid
    /\ UNCHANGED <<queueVars, polling, submission_lock, subscribers, guestVars, videoVars>>

ProcessLoop ==
    /\ gpu = "loop"
    /\ gpu' = IF HasWork THEN "poll" ELSE "tail"
    /\ UNCHANGED <<queueVars, gpuVars, submission_lock, subscribers, guestVars, videoVars>>

\* DrainCommands, called by the loop and before every packet: one command.
DrainCommand ==
    /\ gpu \in {"poll", "packet"} /\ command_queue # <<>>
    /\ gpu = "packet" => submits[curr_qid][1] # <<>>
    /\ command_queue' = Tail(command_queue)
    /\ LET c == Head(command_queue) IN
         IF c.kind = "flip"
           THEN SubmitFlipInternal(c.index, FALSE) /\ UNCHANGED pc
           ELSE Goto(c.thread, "idle") /\ UNCHANGED requests
    /\ UNCHANGED <<submits, ce_submits, num_submits, num_mapped_queues, submit_done, gpuVars, gpu,
                   submission_lock, subscribers, m_submit_lock, call, frames, budget, portVars,
                   flip_pending_num>>

\* Mutant: a finished constant engine buffer is not counted off.
CeQueueUncounted ==
    /\ gpu = "poll" /\ command_queue = <<>>
    /\ ce_submits' = IF ce_submits > 0 THEN ce_submits - 1 ELSE 0
    /\ gpu' = "pick"
    /\ UNCHANGED <<submits, num_submits, num_mapped_queues, command_queue, submit_done, gpuVars,
                   submission_lock, subscribers, guestVars, videoVars>>

\* Nothing to drain; ProcessCeQueue runs the front constant engine buffer to its end.
ProcessCeQueue ==
    /\ gpu = "poll" /\ command_queue = <<>>
    /\ IF ce_submits > 0
         THEN ce_submits' = ce_submits - 1 /\ num_submits' = Add(num_submits, -1)
         ELSE UNCHANGED <<ce_submits, num_submits>>
    /\ gpu' = "pick"
    /\ UNCHANGED <<submits, num_mapped_queues, command_queue, submit_done, gpuVars,
                   submission_lock, subscribers, guestVars, videoVars>>

\* The next queue in turn; its front buffer is resumed, in the middle of its wait if it yielded.
PickQueue ==
    /\ gpu = "pick"
    /\ curr_qid' = (curr_qid + 1) % num_mapped_queues
    /\ gpu' = CASE submits[curr_qid'] = <<>> -> "loop"
                [] curr_qid' = Gfx /\ polling -> "exec"
                [] OTHER -> "packet"
    /\ UNCHANGED <<queueVars, polling, submission_lock, subscribers, guestVars, videoVars>>

\* Before a packet, once nothing is left to drain.
PollCommands ==
    /\ gpu = "packet" /\ submits[curr_qid][1] # <<>> /\ command_queue = <<>>
    /\ gpu' = "exec"
    /\ UNCHANGED <<queueVars, gpuVars, submission_lock, subscribers, guestVars, videoVars>>

Front == submits[curr_qid][1][1]
\* The packet is over.
Advance == submits' = [submits EXCEPT ![curr_qid][1] = Tail(@)] /\ gpu' = "packet"
ExecUnchanged == UNCHANGED <<ce_submits, num_submits, num_mapped_queues, command_queue,
                             submit_done, curr_qid, submission_lock, guestVars>>

\* WaitRegMem on a label: sleep if every submission is a graphics one, else poll and yield.
WaitRegMem ==
    /\ gpu = "exec" /\ Front.op = "wait"
    /\ CASE ~polling /\ num_submits = Len(submits[Gfx]) ->
              gpu' = "labelTest" /\ UNCHANGED <<submits, polling>>
         [] (polling \/ num_submits # Len(submits[Gfx])) /\ buffer_labels[Front.buffer] = 0 ->
              Advance /\ polling' = FALSE
         [] OTHER -> gpu' = "loop" /\ polling' = TRUE /\ UNCHANGED submits
    /\ UNCHANGED <<subscribers, videoVars>> /\ ExecUnchanged

\* WaitVoLabel under vo_mutex.
WaitVoLabel ==
    /\ gpu = "labelTest"
    /\ IF buffer_labels[Front.buffer] = 0
         THEN Advance
         ELSE gpu' = "labelAsleep" /\ UNCHANGED submits
    /\ UNCHANGED <<polling, subscribers, videoVars>> /\ ExecUnchanged

WriteData ==
    /\ gpu = "exec" /\ Front.op = "label"
    /\ buffer_labels' = [buffer_labels EXCEPT ![Front.buffer] = 1]
    /\ Advance
    /\ UNCHANGED <<polling, subscribers, prev_index, flip_pending_num, requests, present,
                   showing>>
    /\ ExecUnchanged

\* PatchedFlip: the GfxFlip interrupt runs the oldest subscriber on this thread.
PatchedFlip ==
    /\ gpu = "exec" /\ Front.op = "flip"
    /\ SubmitFlipEop(Head(subscribers))
    /\ subscribers' = Tail(subscribers)
    /\ Advance
    /\ UNCHANGED polling /\ ExecUnchanged

OtherPacket ==
    /\ gpu = "exec" /\ Front.op = "work"
    /\ Advance
    /\ UNCHANGED <<polling, subscribers, videoVars>> /\ ExecUnchanged

\* The buffer is done: pop it and count it off under m_access.
FinishBuffer ==
    /\ gpu = "packet" /\ submits[curr_qid][1] = <<>>
    /\ submits' = [submits EXCEPT ![curr_qid] = Tail(@)]
    /\ num_submits' = Add(num_submits, -1)
    /\ gpu' = "loop"
    /\ UNCHANGED <<ce_submits, num_mapped_queues, command_queue, submit_done, gpuVars,
                   submission_lock, subscribers, guestVars, videoVars>>

\* After the inner loop: submit_done is read, and reset only after the flush.
RoundTail ==
    /\ gpu = "tail"
    /\ gpu' = IF submit_done THEN "flush" ELSE "irq"
    /\ UNCHANGED <<queueVars, gpuVars, submission_lock, subscribers, guestVars, videoVars>>

RoundFlush ==
    /\ gpu = "flush"
    /\ submit_done' = FALSE
    /\ gpu' = "irq"
    /\ UNCHANGED <<submits, ce_submits, num_submits, num_mapped_queues, command_queue, gpuVars,
                   submission_lock, subscribers, guestVars, videoVars>>

\* The GpuIdle interrupt: ResetSubmissionLock.
IdleInterrupt ==
    /\ gpu = "irq"
    /\ submission_lock' = FALSE
    /\ gpu' = "wait"
    /\ UNCHANGED <<queueVars, gpuVars, subscribers, guestVars, videoVars>>

GpuStep ==
    \/ ProcessWait \/ ProcessLoop \/ DrainCommand \/ ProcessCeQueue \/ PickQueue \/ PollCommands
    \/ WaitRegMem \/ WaitVoLabel \/ WriteData \/ PatchedFlip \/ OtherPacket \/ FinishBuffer
    \/ RoundTail \/ RoundFlush \/ IdleInterrupt

-----------------------------------------------------------------------------
\* Mutant: nobody is woken.
SignalNobody == gpu' = gpu

\* SignalVoLabel wakes a command processor that sleeps on a label.
SignalVoLabel == gpu' = IF gpu = "labelAsleep" THEN "labelTest" ELSE gpu

PresentStep ==
    /\ \/ (ReceiveRequest \/ FlipStatus \/ ResetLabel) /\ UNCHANGED gpu
       \/ FlipDone /\ IF prev_index = Blank THEN UNCHANGED gpu ELSE SignalVoLabel
    /\ UNCHANGED <<queueVars, gpuVars, submission_lock, subscribers, guestVars>>

Next ==
    \/ \E g \in Threads : GuestStep(g) \/ \E kind \in CallKinds : Begin(g, kind)
    \/ GpuStep
    \/ PresentStep

Spec == Init /\ [][Next]_vars
\* A thread inside a call, the command processor and the present thread are never stopped for
\* ever by the scheduler; the guest need not begin another call.
FairSpec ==
    /\ Spec /\ WF_vars(GpuStep) /\ WF_vars(PresentStep)
    /\ \A g \in Threads : WF_vars(GuestStep(g))
-----------------------------------------------------------------------------
At(l) == {g \in Threads : pc[g] = l}

\* The two counters several threads keep come out right.  num_submits counts the queued buffers, but
\* for the compute buffer SubmitAsc has queued and not counted: the command processor may finish
\* that one first and take the counter below zero.  flip_pending_num counts the flips that are not
\* on screen, wherever they are: about to be sent, a command, a frame that waits, or being shown.
Counted ==
    /\ num_submits =
            Add(Len(submits[Gfx]) + Len(submits[Asc]) + ce_submits, -Cardinality(At("count")))
    /\ flip_pending_num =
            Cardinality(At("send"))
            + Cardinality({i \in 1 .. Len(command_queue) : command_queue[i].kind = "flip"})
            + Len(requests) + IF present = "status" THEN 1 ELSE 0

\* The command processor thread sleeps on submit_cv only while it has nothing to do: no submission,
\* command or SubmitDone is left behind by a notification that came too early.
AsleepOnlyIdle == gpu = "asleep" => ~HasWork /\ ~submit_done

\* The two assertions of the flip interrupt (video_out.cpp): the subscriber that runs is the one
\* registered with the flip packet that raised it, and the label of its buffer is still set, as long
\* as every frame waits for its label before it draws.
FlipIrqInOrder ==
    gpu = "exec" /\ Front.op = "flip" =>
        /\ subscribers # <<>> /\ Head(subscribers) = Front.buffer
        /\ buffer_labels[Front.buffer] = 1

\* A buffer whose end-of-pipe flip waits to be shown, or that is on the screen, keeps its label,
\* so that a frame that waits for the label is not drawn over it.
LabelHeld ==
    /\ \A i \in 1..Len(requests) : requests[i].eop => buffer_labels[requests[i].index] = 1
    /\ present # "idle" /\ showing.eop => buffer_labels[showing.index] = 1
    /\ present # "signal" /\ prev_index # Blank => buffer_labels[prev_index] = 1

\* Every call of the guest ends: the submission lock raised by SubmitDone is lowered by a GpuIdle
\* interrupt, and a thread that waits for the command processor gets its answer.
CallsEnd == \A g \in Threads : pc[g] # "idle" ~> pc[g] = "idle"

\* Every frame the guest submitted is drawn and every flip it asked for reaches the screen: a
\* command processor that sleeps on a label is woken when the label is reset.
FlipsReachScreen ==
    (flip_pending_num > 0 \/ subscribers # <<>>) ~> (flip_pending_num = 0 /\ subscribers = <<>>)

=============================================================================
