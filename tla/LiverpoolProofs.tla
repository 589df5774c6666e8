--------------------------- MODULE LiverpoolProofs ---------------------------
(***************************************************************************)
(* What is proved of the frame path (Liverpool with VideoOut) for any      *)
(* number of guest threads, buffers and calls: the counters are right      *)
(* (Counted), the command processor sleeps only when idle                  *)
(* (AsleepOnlyIdle), flips reach the subscriber registered with them, and  *)
(* find their label set (FlipIrqInOrder), and a buffer that is queued or   *)
(* on the screen keeps its label (LabelHeld).                              *)
(***************************************************************************)
EXTENDS Liverpool, FiniteSetTheorems, TLAPS

FrameKinds == {"frame", "frameDone"}
SubmitKinds == FrameKinds \cup {"draw", "done", "compute"}

\* What a command buffer is made of.  IsFrame: the rest of a frame, which starts with the wait while
\* it is whole; IsOther: the rest of any other buffer.
Packets == [op : {"work"}] \cup [op : {"wait", "label", "flip"}, buffer : Buffers]
On(packet, op, b) == packet.op = op /\ packet.buffer = b
IsFrame(s, b) ==
    \/ Len(s) = 1 /\ On(s[1], "flip", b)
    \/ Len(s) = 2 /\ On(s[1], "label", b) /\ On(s[2], "flip", b)
    \/ Len(s) = 3 /\ s[1].op = "work" /\ On(s[2], "label", b) /\ On(s[3], "flip", b)
    \/ /\ Len(s) = 4 /\ On(s[1], "wait", b) /\ s[2].op = "work"
       /\ On(s[3], "label", b) /\ On(s[4], "flip", b)
IsOther(s) == Len(s) \in {0, 1} /\ (Len(s) = 1 => s[1].op = "work")

FlipCommands == [kind : {"flip"}, index : {Blank}]
Commands == FlipCommands \cup [kind : {"read"}, thread : Threads]
Requests == [index : Buffers, eop : {TRUE}] \cup [index : {Blank}, eop : {FALSE}]

Holding == {"gate", "register", "submit", "push", "count", "check", "raise", "finish"}
Serving == {"packet", "exec", "labelTest", "labelAsleep"}
GpuPlaces == {"wait", "asleep", "loop", "poll", "pick", "tail", "flush", "irq"} \cup Serving

TypeOK ==
    /\ submits \in [{Gfx, Asc} -> Seq(Seq(Packets))]
    /\ ce_submits \in Nat /\ num_submits \in Nat /\ num_mapped_queues \in {1, 2}
    /\ command_queue \in Seq(Commands) /\ submit_done \in BOOLEAN
    /\ gpu \in GpuPlaces /\ curr_qid \in {-1, Gfx, Asc} /\ polling \in BOOLEAN
    /\ m_submit_lock \in Threads \cup {NoOne} /\ submission_lock \in BOOLEAN
    /\ subscribers \in Seq(Buffers)
    /\ pc \in [Threads -> {"idle", "lock", "flip", "send", "read", "await"} \cup Holding]
    /\ call \in [Threads -> CallKinds \cup {"none"}]
    /\ frames \in Nat
    /\ buffer_labels \in [Buffers -> {0, 1}]
    /\ prev_index \in Buffers \cup {Blank} /\ flip_pending_num \in Int
    /\ requests \in Seq(Requests) /\ showing \in Requests
    /\ present \in {"idle", "status", "label", "signal"}

\* Who is inside a submission holds m_submit_lock, and is in the call its place says.
LockInv ==
    \A g \in Threads :
        /\ m_submit_lock = g <=> pc[g] \in Holding
        /\ pc[g] \in {"lock"} \cup Holding => call[g] \in SubmitKinds
        /\ pc[g] = "register" => call[g] \in FrameKinds
        /\ pc[g] = "submit" => call[g] \in FrameKinds \cup {"draw"}

\* A read command is that of a thread that waits for it, and its only one.
ReadInv ==
    /\ \A i \in 1 .. Len(command_queue) :
            command_queue[i].kind = "read" => pc[command_queue[i].thread] = "await"
    /\ \A i, j \in 1 .. Len(command_queue) :
            /\ command_queue[i].kind = "read" /\ command_queue[j].kind = "read"
            /\ command_queue[i].thread = command_queue[j].thread
            => i = j

\* Only the front buffer of a queue has been begun; frames are graphics submissions.
QueueInv ==
    /\ \A i \in 1 .. Len(submits[Gfx]) :
            \/ IsOther(submits[Gfx][i])
            \/ \E b \in Buffers : IsFrame(submits[Gfx][i], b)
    /\ \A i \in 2 .. Len(submits[Gfx]) : Len(submits[Gfx][i]) \in {1, 4}
    /\ \A i \in 2 .. Len(submits[Gfx]), b \in Buffers :
            IsFrame(submits[Gfx][i], b) => Len(submits[Gfx][i]) = 4
    /\ \A i \in 1 .. Len(submits[Asc]) : IsOther(submits[Asc][i])

\* The command processor serves a buffer that is there; a graphics buffer that polls is at its wait.
GpuInv ==
    /\ gpu \in Serving => curr_qid \in {Gfx, Asc} /\ submits[curr_qid] # <<>>
    /\ gpu \in Serving \ {"packet"} => submits[curr_qid][1] # <<>>
    /\ gpu \in {"labelTest", "labelAsleep"} => curr_qid = Gfx /\ Len(submits[Gfx][1]) = 4 /\ ~polling
    /\ polling => submits[Gfx] # <<>> /\ Len(submits[Gfx][1]) = 4

\* A thread has registered a frame and not submitted it yet.
Pending == \E g \in Threads : pc[g] = "submit" /\ call[g] \in FrameKinds

\* pos[k] is the place in the graphics queue of the frame whose subscriber is the k-th, one past the
\* end for the frame still to be submitted: subscribers and frames come in the same order.
Matches(pos) ==
    /\ \A k, l \in 1 .. Len(subscribers) : k < l => pos[k] < pos[l]
    /\ \A k \in 1 .. Len(subscribers) :
        \/ /\ pos[k] \in 1 .. Len(submits[Gfx])
           /\ IsFrame(submits[Gfx][pos[k]], subscribers[k])
        \/ /\ pos[k] = Len(submits[Gfx]) + 1
           /\ Pending /\ subscribers[k] = (frames - 1) % NumBuffers
    /\ \A i \in 1 .. Len(submits[Gfx]), b \in Buffers :
        IsFrame(submits[Gfx][i], b) => \E k \in 1 .. Len(subscribers) : pos[k] = i
    /\ Pending => \E k \in 1 .. Len(subscribers) : pos[k] = Len(submits[Gfx]) + 1

SubscribersInv == \E pos \in [1 .. Len(subscribers) -> Nat] : Matches(pos)

\* Where a frame of buffer b can be between the write of its label and the reset.
FrontFrame(b, n) ==
    submits[Gfx] # <<>> /\ IsFrame(submits[Gfx][1], b) /\ Len(submits[Gfx][1]) = n
Flipping(b) == FrontFrame(b, 1)
Queued(b) == \E i \in 1 .. Len(requests) : requests[i] = [index |-> b, eop |-> TRUE]
Showing(b) == present # "idle" /\ showing = [index |-> b, eop |-> TRUE]
OnScreen(b) == present # "signal" /\ prev_index = b

\* A frame has its label from the write to the reset, is in one of these places, once, and a frame
\* that has passed its wait finds the label free.
LabelInv ==
    /\ present = "label" => prev_index # Blank
    /\ \A b \in Buffers :
        /\ Flipping(b) \/ Queued(b) \/ Showing(b) \/ OnScreen(b) => buffer_labels[b] = 1
        /\ FrontFrame(b, 3) \/ FrontFrame(b, 2) => buffer_labels[b] = 0
        /\ ~(Flipping(b) /\ Queued(b)) /\ ~(Flipping(b) /\ Showing(b))
        /\ ~(Flipping(b) /\ OnScreen(b)) /\ ~(Queued(b) /\ Showing(b))
        /\ ~(Queued(b) /\ OnScreen(b)) /\ ~(Showing(b) /\ OnScreen(b))
    /\ \A i, j \in 1 .. Len(requests) : requests[i].eop /\ requests[i] = requests[j] => i = j

IndInv ==
    /\ TypeOK /\ LockInv /\ ReadInv /\ QueueInv /\ GpuInv /\ SubscribersInv /\ LabelInv
    /\ Counted /\ AsleepOnlyIdle

-----------------------------------------------------------------------------
(* Remainders. *)

LEMMA Remainder ==
    ASSUME NEW C \in Nat \ {0}, NEW x \in Int
    PROVE  x % C \in 0 .. C - 1 /\ \E q \in Int : x = C * q + (x % C)
  <1>1. x \div C \in Int /\ x = C * (x \div C) + (x % C) /\ x % C \in 0 .. C - 1
    OBVIOUS
  <1> QED
    BY <1>1

LEMMA SameRemainder ==
    ASSUME NEW C \in Nat \ {0}, NEW q \in Int, NEW p \in Int,
           NEW r \in 0 .. C - 1, NEW s \in 0 .. C - 1, C * q + r = C * p + s
    PROVE  r = s
  <1>1. CASE q = p
    BY <1>1
  <1>2. CASE q > p
    <2>1. C * (q - p) >= C /\ C * (q - p) = s - r
      BY <1>2
    <2> QED
      BY <2>1
  <1>3. CASE q < p
    <2>1. C * (p - q) >= C /\ C * (p - q) = r - s
      BY <1>3
    <2> QED
      BY <2>1
  <1> QED
    BY <1>1, <1>2, <1>3

\* What is added to the counter is added to what it counts.
LEMMA AddToRemainder ==
    ASSUME NEW x \in Int, NEW k \in Int
    PROVE  Add(x, 0) \in Nat /\ Add(Add(x, 0), k) = Add(x + k, 0) /\ Add(x, k) = Add(x + k, 0)
  <1> DEFINE C == CounterSize
             y == x % C
             r == (x + k) % C
             s == (y + k) % C
  <1>0. C \in Nat \ {0}
    BY GuestAssumption
  <1>1. y \in Int /\ y \in Nat
    BY <1>0, Remainder
  <1>2. r \in 0 .. C - 1 /\ s \in 0 .. C - 1
    BY <1>0, <1>1, Remainder
  <1>3. PICK a \in Int : x = C * a + y
    BY <1>0, Remainder
  <1>4. PICK b \in Int : x + k = C * b + r
    <2>1. x + k \in Int
      OBVIOUS
    <2> QED
      BY <1>0, <2>1, Remainder
  <1>5. PICK d \in Int : y + k = C * d + s
    <2>1. y + k \in Int
      BY <1>1
    <2> HIDE DEF y
    <2> QED
      BY <1>0, <2>1, Remainder
  <1> HIDE DEF C, y, r, s
  <1>6. C * b + r = C * (a + d) + s /\ a + d \in Int
    BY <1>0, <1>1, <1>2, <1>3, <1>4, <1>5
  <1>7. r = s
    BY <1>0, <1>2, <1>6, SameRemainder
  <1>8. x + 0 = x /\ (x + k) + 0 = x + k
    OBVIOUS
  <1> QED
    BY <1>1, <1>7, <1>8 DEF r, s, y, C, Add

-----------------------------------------------------------------------------
(* The elements of a sequence that lie in S: the flips among the commands. *)

Places(s, S) == {i \in 1 .. Len(s) : s[i] \in S}

LEMMA PlacesFinite ==
    ASSUME NEW T, NEW s \in Seq(T), NEW S
    PROVE  IsFiniteSet(Places(s, S)) /\ Cardinality(Places(s, S)) \in Nat
  <1>1. IsFiniteSet(1 .. Len(s))
    BY FS_Interval
  <1> QED
    BY <1>1, FS_Subset, FS_CardinalityType DEF Places

LEMMA PlacesTail ==
    ASSUME NEW T, NEW s \in Seq(T), NEW S, s # <<>>
    PROVE  Cardinality(Places(s, S))
                = Cardinality(Places(Tail(s), S)) + (IF Head(s) \in S THEN 1 ELSE 0)
  <1> DEFINE P == Places(s, S)
             R == P \ {1}
             Q == Places(Tail(s), S)
             f == [i \in R |-> i - 1]
  <1>1. /\ Len(s) \in Nat /\ Len(s) > 0 /\ Len(Tail(s)) = Len(s) - 1
        /\ \A i \in 1 .. (Len(s) - 1) : Tail(s)[i] = s[i + 1]
        /\ Head(s) = s[1]
    OBVIOUS
  <1>2. IsFiniteSet(P) /\ Cardinality(P) \in Nat
    BY PlacesFinite
  <1>3. R = {i \in 2 .. Len(s) : s[i] \in S} /\ Q = {i \in 1 .. (Len(s) - 1) : s[i + 1] \in S}
    BY <1>1 DEF Places
  <1>4. f \in Bijection(R, Q)
    <2> HIDE DEF R, Q
    <2>1. f \in [R -> Q]
      BY <1>1, <1>3
    <2>2. \A i, j \in R : f[i] = f[j] => i = j
      BY <1>3
    <2>3. ASSUME NEW j \in Q PROVE \E i \in R : f[i] = j
      <3>1. j + 1 \in R /\ f[j + 1] = j
        BY <1>1, <1>3
      <3> QED
        BY <3>1
    <2> QED
      BY <2>1, <2>2, <2>3 DEF Bijection, Injection, Surjection, IsInjective
  <1>5. /\ Cardinality(Q) = Cardinality(R)
        /\ Cardinality(R) = IF 1 \in P THEN Cardinality(P) - 1 ELSE Cardinality(P)
    <2>1. /\ IsFiniteSet(R)
          /\ Cardinality(R) = IF 1 \in P THEN Cardinality(P) - 1 ELSE Cardinality(P)
      BY <1>2, FS_RemoveElement
    <2> QED
      BY <1>4, <2>1, FS_Bijection DEF ExistsBijection
  <1>6. 1 \in P <=> Head(s) \in S
    BY <1>1 DEF Places
  <1> HIDE DEF P, Q, R
  <1> QED
    BY <1>2, <1>5, <1>6 DEF P, Q

LEMMA PlacesAppend ==
    ASSUME NEW T, NEW s \in Seq(T), NEW S, NEW x \in T
    PROVE  Cardinality(Places(Append(s, x), S))
                = Cardinality(Places(s, S)) + (IF x \in S THEN 1 ELSE 0)
  <1> DEFINE P == Places(s, S)
             Q == Places(Append(s, x), S)
             n == Len(s) + 1
  <1>1. /\ Len(s) \in Nat /\ Len(Append(s, x)) = n /\ Append(s, x)[n] = x
        /\ \A i \in 1 .. Len(s) : Append(s, x)[i] = s[i]
    OBVIOUS
  <1>2. Q = IF x \in S THEN P \cup {n} ELSE P
    BY <1>1 DEF Places
  <1>3. n \notin P
    BY <1>1 DEF Places
  <1>4. IsFiniteSet(P) /\ Cardinality(P) \in Nat
    BY PlacesFinite
  <1> HIDE DEF P, Q, n
  <1>5. Cardinality(P \cup {n}) = Cardinality(P) + 1
    BY <1>3, <1>4, FS_AddElement
  <1> QED
    BY <1>2, <1>4, <1>5 DEF P, Q

-----------------------------------------------------------------------------
(* Command buffers. *)

LEMMA Whole ==
    ASSUME NEW kind \in CallKinds, NEW b \in Buffers
    PROVE  /\ CommandBuffer(kind, b) \in Seq(Packets)
           /\ kind \in FrameKinds => /\ IsFrame(CommandBuffer(kind, b), b)
                                     /\ Len(CommandBuffer(kind, b)) = 4
           /\ kind \notin FrameKinds => /\ IsOther(CommandBuffer(kind, b))
                                        /\ Len(CommandBuffer(kind, b)) = 1
  <1>1. CASE kind \in FrameKinds
    <2>1. CommandBuffer(kind, b)
            = <<OnBuffer("wait", b), Work, OnBuffer("label", b), OnBuffer("flip", b)>>
      BY <1>1 DEF CommandBuffer, FrameKinds
    <2>2. /\ OnBuffer("wait", b) \in Packets /\ OnBuffer("label", b) \in Packets
          /\ OnBuffer("flip", b) \in Packets /\ Work \in Packets
      BY DEF OnBuffer, Work, Packets
    <2>3. /\ OnBuffer("wait", b).op = "wait" /\ OnBuffer("wait", b).buffer = b
          /\ OnBuffer("label", b).op = "label" /\ OnBuffer("label", b).buffer = b
          /\ OnBuffer("flip", b).op = "flip" /\ OnBuffer("flip", b).buffer = b
          /\ Work.op = "work"
      BY DEF OnBuffer, Work
    <2>4. ASSUME NEW w \in Packets, NEW x \in Packets, NEW y \in Packets, NEW z \in Packets
          PROVE  /\ <<w, x, y, z>> \in Seq(Packets) /\ Len(<<w, x, y, z>>) = 4
                 /\ <<w, x, y, z>>[1] = w /\ <<w, x, y, z>>[2] = x
                 /\ <<w, x, y, z>>[3] = y /\ <<w, x, y, z>>[4] = z
      OBVIOUS
    <2>5. /\ CommandBuffer(kind, b) \in Seq(Packets) /\ Len(CommandBuffer(kind, b)) = 4
          /\ CommandBuffer(kind, b)[1] = OnBuffer("wait", b) /\ CommandBuffer(kind, b)[2] = Work
          /\ CommandBuffer(kind, b)[3] = OnBuffer("label", b)
          /\ CommandBuffer(kind, b)[4] = OnBuffer("flip", b)
      BY <2>1, <2>2, <2>4
    <2> QED
      BY <1>1, <2>3, <2>5 DEF IsFrame, On
  <1>2. CASE kind \notin FrameKinds
    <2>1. CommandBuffer(kind, b) = <<Work>>
      BY <1>2 DEF CommandBuffer, FrameKinds, CallKinds
    <2>2. Work \in Packets /\ Work.op = "work"
      BY DEF Work, Packets
    <2> QED
      BY <1>2, <2>1, <2>2 DEF IsOther
  <1> QED
    BY <1>1, <1>2

LEMMA FrameFacts ==
    ASSUME NEW s \in Seq(Packets)
    PROVE  /\ Len(s) \in Nat
           /\ \A b, d \in Buffers : IsFrame(s, b) /\ IsFrame(s, d) => b = d
           /\ \A b \in Buffers : IsFrame(s, b) => ~IsOther(s) /\ s # <<>>
           /\ \A b \in Buffers : IsFrame(s, b) =>
                /\ Len(s) \in 1 .. 4
                /\ s[1].op = "wait" <=> Len(s) = 4
                /\ s[1].op = "work" <=> Len(s) = 3
                /\ s[1].op = "label" <=> Len(s) = 2
                /\ s[1].op = "flip" <=> Len(s) = 1
                /\ s[1].op # "work" => s[1].buffer = b
           /\ s # <<>> /\ IsOther(s) => Len(s) = 1 /\ s[1].op = "work"
  <1>1. Len(s) \in Nat /\ (s = <<>> <=> Len(s) = 0)
    OBVIOUS
  <1>2. \A b, d \in Buffers : IsFrame(s, b) /\ IsFrame(s, d) => b = d
    BY <1>1 DEF IsFrame, On
  <1>3. \A b \in Buffers : IsFrame(s, b) => ~IsOther(s) /\ s # <<>> /\ Len(s) \in 1 .. 4
    BY <1>1 DEF IsFrame, On, IsOther
  <1>4. ASSUME NEW b \in Buffers, IsFrame(s, b)
        PROVE  /\ s[1].op = "wait" <=> Len(s) = 4
               /\ s[1].op = "work" <=> Len(s) = 3
               /\ s[1].op = "label" <=> Len(s) = 2
               /\ s[1].op = "flip" <=> Len(s) = 1
               /\ s[1].op # "work" => s[1].buffer = b
    <2>1. CASE Len(s) = 1
      BY <1>4, <2>1 DEF IsFrame, On
    <2>2. CASE Len(s) = 2
      BY <1>4, <2>2 DEF IsFrame, On
    <2>3. CASE Len(s) = 3
      BY <1>4, <2>3 DEF IsFrame, On
    <2>4. CASE Len(s) = 4
      BY <1>4, <2>4 DEF IsFrame, On
    <2> QED
      BY <1>1, <1>3, <1>4, <2>1, <2>2, <2>3, <2>4
  <1>5. s # <<>> /\ IsOther(s) => Len(s) = 1 /\ s[1].op = "work"
    BY <1>1 DEF IsOther
  <1> QED
    BY <1>1, <1>2, <1>3, <1>4, <1>5

LEMMA TailFacts ==
    ASSUME NEW s \in Seq(Packets), s # <<>>, IsOther(s) \/ \E b \in Buffers : IsFrame(s, b)
    PROVE  /\ Tail(s) \in Seq(Packets) /\ Len(Tail(s)) = Len(s) - 1
           /\ IsOther(Tail(s)) \/ \E b \in Buffers : IsFrame(Tail(s), b)
           /\ IsOther(s) => IsOther(Tail(s)) /\ \A b \in Buffers : ~IsFrame(Tail(s), b)
           /\ \A b \in Buffers : IsFrame(s, b) /\ Len(s) > 1 <=> IsFrame(Tail(s), b)
  <1>1. /\ Len(s) \in Nat /\ Len(s) > 0 /\ Tail(s) \in Seq(Packets) /\ Len(Tail(s)) = Len(s) - 1
        /\ \A i \in 1 .. (Len(s) - 1) : Tail(s)[i] = s[i + 1]
    OBVIOUS
  <1>0. /\ Len(s) >= 2 => Tail(s)[1] = s[2]
        /\ Len(s) >= 3 => Tail(s)[2] = s[3]
        /\ Len(s) >= 4 => Tail(s)[3] = s[4]
    BY <1>1
  <1>2. ASSUME IsOther(s) PROVE IsOther(Tail(s)) /\ \A b \in Buffers : ~IsFrame(Tail(s), b)
    BY <1>1, <1>2 DEF IsOther, IsFrame
  <1>3. ASSUME NEW b \in Buffers, IsFrame(s, b), Len(s) > 1 PROVE IsFrame(Tail(s), b)
    BY <1>0, <1>1, <1>3 DEF IsFrame
  <1>4. ASSUME NEW b \in Buffers, IsFrame(s, b), Len(s) = 1
        PROVE  IsOther(Tail(s)) /\ \A d \in Buffers : ~IsFrame(Tail(s), d)
    <2>1. Len(Tail(s)) = 0
      BY <1>1, <1>4
    <2>2. \A t : Len(t) = 0 => IsOther(t) /\ \A d \in Buffers : ~IsFrame(t, d)
      BY DEF IsOther, IsFrame
    <2> QED
      BY <2>1, <2>2
  <1>5. ASSUME NEW b \in Buffers, IsFrame(Tail(s), b) PROVE IsFrame(s, b) /\ Len(s) > 1
    <2>1. PICK d \in Buffers : IsFrame(s, d)
      BY <1>2, <1>5
    <2>2. Len(s) > 1
      BY <1>1, <1>4, <1>5, <2>1
    <2>3. IsFrame(Tail(s), d)
      BY <1>3, <2>1, <2>2
    <2>4. b = d
      BY <1>1, <1>5, <2>3, FrameFacts
    <2> QED
      BY <2>1, <2>2, <2>4
  <1> QED
    BY <1>1, <1>2, <1>3, <1>4, <1>5

-----------------------------------------------------------------------------
(* The initial states. *)

LEMMA InitInv == Init => IndInv
  <1> SUFFICES ASSUME Init PROVE IndInv
    OBVIOUS
  <1> USE DEF Init, VideoOutInit
  <1>1. TypeOK
    <2>1. showing \in Requests
      BY DEF Requests
    <2>2. /\ submits \in [{Gfx, Asc} -> Seq(Seq(Packets))]
          /\ pc \in [Threads -> {"idle", "lock", "flip", "send", "read", "await"} \cup Holding]
          /\ call \in [Threads -> CallKinds \cup {"none"}]
          /\ buffer_labels \in [Buffers -> {0, 1}]
      OBVIOUS
    <2>3. /\ command_queue \in Seq(Commands) /\ requests \in Seq(Requests)
          /\ subscribers \in Seq(Buffers) /\ curr_qid \in {-1, Gfx, Asc}
          /\ gpu \in GpuPlaces
      BY DEF GpuPlaces
    <2>4. /\ ce_submits \in Nat /\ num_submits \in Nat /\ num_mapped_queues \in {1, 2}
          /\ frames \in Nat /\ flip_pending_num \in Int
      OBVIOUS
    <2>5. /\ submit_done \in BOOLEAN /\ polling \in BOOLEAN /\ submission_lock \in BOOLEAN
          /\ m_submit_lock \in Threads \cup {NoOne} /\ prev_index \in Buffers \cup {Blank}
          /\ present \in {"idle", "status", "label", "signal"}
      OBVIOUS
    <2> QED
      BY <2>1, <2>2, <2>3, <2>4, <2>5 DEF TypeOK
  <1>2. LockInv /\ ReadInv
    BY GuestAssumption DEF LockInv, ReadInv, Holding
  <1>3. QueueInv /\ GpuInv
    BY DEF QueueInv, GpuInv, Serving, Gfx, Asc
  <1>4. SubscribersInv
    <2>1. ~Pending
      BY DEF Pending
    <2> DEFINE pos == [k \in 1 .. Len(subscribers) |-> 0]
    <2>2. pos \in [1 .. Len(subscribers) -> Nat]
      OBVIOUS
    <2>3. Matches(pos)
      BY <2>1 DEF Matches, Gfx, Asc
    <2> QED
      BY <2>2, <2>3 DEF SubscribersInv
  <1>5. LabelInv
    <2>1. \A b \in Buffers : b # Blank
      BY DEF Buffers, Blank
    <2> QED
      BY <2>1 DEF LabelInv, FrontFrame, Flipping, Queued, Showing, OnScreen, Gfx, Asc
  <1>6. Counted
    <2>1. At("count") = {} /\ At("send") = {}
      BY DEF At
    <2>2. {i \in 1 .. Len(command_queue) : command_queue[i].kind = "flip"} = {}
      OBVIOUS
    <2>3. Cardinality({}) = 0
      BY FS_EmptySet
    <2>4. \A n \in Int : n = 0 => Add(0 + 0 + 0, -n) = 0
      <3>1. CounterSize \in Nat \ {0}
        BY GuestAssumption
      <3>2. 0 % CounterSize = 0
        BY <3>1
      <3>3. \A n \in Int : n = 0 => 0 + 0 + 0 + (-n) = 0
        OBVIOUS
      <3> QED
        BY <3>2, <3>3 DEF Add
    <2>5. Len(submits[Gfx]) = 0 /\ Len(submits[Asc]) = 0
      OBVIOUS
    <2>6. Cardinality(At("count")) = 0 /\ Cardinality(At("send")) = 0
      BY <2>1, <2>3
    <2>7. num_submits = Add(Len(submits[Gfx]) + Len(submits[Asc]) + ce_submits,
                            -Cardinality(At("count")))
      BY <2>4, <2>5, <2>6
    <2>8. Len(requests) = 0 /\ present # "status" /\ flip_pending_num = 0
      OBVIOUS
    <2> QED
      BY <2>2, <2>3, <2>6, <2>7, <2>8 DEF Counted
  <1>7. AsleepOnlyIdle
    BY DEF AsleepOnlyIdle
  <1> QED
    BY <1>1, <1>2, <1>3, <1>4, <1>5, <1>6, <1>7 DEF IndInv

-----------------------------------------------------------------------------
(* The packet that is executed next, and what its end does to the queue. *)

LEMMA Queues ==
    ASSUME TypeOK, NEW q \in {Gfx, Asc}
    PROVE  /\ submits[q] \in Seq(Seq(Packets)) /\ Len(submits[q]) \in Nat
           /\ \A i \in 1 .. Len(submits[q]) : submits[q][i] \in Seq(Packets)
           /\ submits[q] # <<>> => Len(submits[q]) > 0 /\ 1 \in 1 .. Len(submits[q])
BY DEF TypeOK

LEMMA ServedFront ==
    ASSUME TypeOK, QueueInv, GpuInv, gpu \in {"exec", "labelTest"}
    PROVE  /\ curr_qid \in {Gfx, Asc} /\ submits[curr_qid] # <<>>
           /\ submits[curr_qid][1] \in Seq(Packets) /\ submits[curr_qid][1] # <<>>
           /\ \/ IsOther(submits[curr_qid][1])
              \/ curr_qid = Gfx /\ \E b \in Buffers : IsFrame(submits[curr_qid][1], b)
           /\ Front = submits[curr_qid][1][1] /\ Front \in Packets
           /\ Front.op # "work" => /\ curr_qid = Gfx /\ Front.buffer \in Buffers
                                   /\ IsFrame(submits[curr_qid][1], Front.buffer)
           /\ gpu = "labelTest" => Front.op = "wait"
  <1> DEFINE s == submits[curr_qid][1]
  <1>1. curr_qid \in {Gfx, Asc} /\ submits[curr_qid] # <<>> /\ s # <<>>
    BY DEF GpuInv, Serving
  <1>2. s \in Seq(Packets) /\ 1 \in 1 .. Len(submits[curr_qid])
    BY <1>1, Queues
  <1>3. IsOther(s) \/ (curr_qid = Gfx /\ \E b \in Buffers : IsFrame(s, b))
    BY <1>1, <1>2 DEF QueueInv
  <1>4. Front = s[1] /\ s[1] \in Packets
    BY <1>1, <1>2 DEF Front
  <1>5. gpu = "labelTest" => curr_qid = Gfx /\ Len(s) = 4
    BY DEF GpuInv
  <1> HIDE DEF s
  <1>6. s[1].op # "work" => curr_qid = Gfx /\ s[1].buffer \in Buffers /\ IsFrame(s, s[1].buffer)
    BY <1>1, <1>2, <1>3, FrameFacts
  <1>7. gpu = "labelTest" => s[1].op = "wait"
    <2>1. Len(s) = 4 => ~IsOther(s)
      BY DEF IsOther
    <2> QED
      BY <1>1, <1>2, <1>3, <1>5, <2>1, FrameFacts
  <1> QED
    BY <1>1, <1>2, <1>3, <1>4, <1>6, <1>7 DEF s

\* The effect of Advance on the graphics queue: no frame appears or, unless the packet was its flip,
\* disappears, and the front of the queue is one packet shorter.
LEMMA AdvanceStep ==
    ASSUME TypeOK, QueueInv, GpuInv, gpu \in {"exec", "labelTest"}, Advance
    PROVE  /\ submits' \in [{Gfx, Asc} -> Seq(Seq(Packets))] /\ gpu' = "packet"
           /\ QueueInv'
           /\ \A q \in {Gfx, Asc} : Len(submits'[q]) = Len(submits[q])
           /\ submits'[curr_qid] # <<>>
           /\ curr_qid # Gfx => submits'[Gfx] = submits[Gfx]
           /\ \A i \in 1 .. Len(submits[Gfx]), b \in Buffers :
                IsFrame(submits'[Gfx][i], b) <=>
                    IsFrame(submits[Gfx][i], b) /\ ~(curr_qid = Gfx /\ i = 1 /\ Front.op = "flip")
           /\ \A b \in Buffers, n \in 1 .. 3 :
                FrontFrame(b, n)' <=> FrontFrame(b, IF curr_qid = Gfx THEN n + 1 ELSE n)
  <1> DEFINE q == curr_qid
             s == submits[q][1]
             t == submits[Gfx]
             u == submits'[Gfx]
  <1>1. /\ q \in {Gfx, Asc} /\ submits[q] # <<>> /\ s \in Seq(Packets) /\ s # <<>>
        /\ IsOther(s) \/ (q = Gfx /\ \E b \in Buffers : IsFrame(s, b))
        /\ Front = s[1]
        /\ Front.op # "work" => q = Gfx
    BY ServedFront
  <1>2. /\ Tail(s) \in Seq(Packets) /\ Len(Tail(s)) = Len(s) - 1 /\ Len(s) \in Nat
        /\ IsOther(Tail(s)) \/ \E b \in Buffers : IsFrame(Tail(s), b)
        /\ IsOther(s) => IsOther(Tail(s))
        /\ \A b \in Buffers : IsFrame(s, b) /\ Len(s) > 1 <=> IsFrame(Tail(s), b)
    BY <1>1, TailFacts
  <1>3. /\ submits[q] \in Seq(Seq(Packets)) /\ Len(submits[q]) \in Nat /\ Len(submits[q]) > 0
        /\ t \in Seq(Seq(Packets)) /\ Len(t) \in Nat
    BY <1>1, Queues
  <1>4. submits' = [submits EXCEPT ![q] = [submits[q] EXCEPT ![1] = Tail(s)]] /\ gpu' = "packet"
    BY <1>1 DEF Advance, TypeOK
  <1>5. /\ [submits[q] EXCEPT ![1] = Tail(s)] \in Seq(Seq(Packets))
        /\ Len([submits[q] EXCEPT ![1] = Tail(s)]) = Len(submits[q])
        /\ [submits[q] EXCEPT ![1] = Tail(s)][1] = Tail(s)
        /\ \A i \in 2 .. Len(submits[q]) : [submits[q] EXCEPT ![1] = Tail(s)][i] = submits[q][i]
    <2> HIDE DEF s, q
    <2> QED
      BY <1>2, <1>3
  <1>6. /\ submits' \in [{Gfx, Asc} -> Seq(Seq(Packets))]
        /\ Len(submits'[q]) = Len(submits[q])
        /\ submits'[q][1] = Tail(s)
        /\ \A i \in 2 .. Len(submits[q]) : submits'[q][i] = submits[q][i]
        /\ \A p \in {Gfx, Asc} \ {q} : submits'[p] = submits[p]
    BY <1>1, <1>4, <1>5 DEF TypeOK
  <1>7. \A p \in {Gfx, Asc} : Len(submits'[p]) = Len(submits[p])
    BY <1>6
  <1>8. submits'[q] # <<>>
    BY <1>3, <1>6
  <1>13. \A i \in 1 .. Len(t) : q # Gfx \/ i # 1 => u[i] = t[i]
    <2>1. CASE q = Gfx
      <3>1. \A i \in 1 .. Len(t) : i # 1 => i \in 2 .. Len(submits[q])
        BY <1>3, <2>1
      <3> QED
        BY <1>6, <2>1, <3>1
    <2>2. CASE q # Gfx
      BY <1>6, <2>2
    <2> QED
      BY <2>1, <2>2
  <1>14. \A i \in 1 .. Len(submits[Asc]) : q # Asc \/ i # 1 => submits'[Asc][i] = submits[Asc][i]
    <2>1. CASE q = Asc
      <3>1. \A i \in 1 .. Len(submits[Asc]) : i # 1 => i \in 2 .. Len(submits[q])
        BY <1>3, <2>1
      <3> QED
        BY <1>6, <2>1, <3>1
    <2>2. CASE q # Asc
      BY <1>6, <2>2
    <2> QED
      BY <2>1, <2>2
  <1> HIDE DEF q, s
  <1>9. QueueInv'
    <2>1. ASSUME NEW i \in 1 .. Len(t)
          PROVE  /\ IsOther(u[i]) \/ \E b \in Buffers : IsFrame(u[i], b)
                 /\ i \in 2 .. Len(t) => u[i] = t[i]
      <3>1. CASE q = Gfx /\ i = 1
        BY <1>2, <1>6, <3>1
      <3>2. CASE q # Gfx \/ i # 1
        <4>1. u[i] = t[i]
          BY <1>13, <3>2
        <4> QED
          BY <4>1 DEF QueueInv
      <3> QED
        BY <1>3, <1>6, <3>1, <3>2
    <2>2. ASSUME NEW i \in 1 .. Len(submits[Asc])
          PROVE  IsOther(submits'[Asc][i])
      <3>1. CASE q = Asc /\ i = 1
        <4>1. IsOther(s)
          BY <1>1, <3>1 DEF Gfx, Asc
        <4> QED
          BY <1>2, <1>6, <3>1, <4>1
      <3>2. CASE q # Asc \/ i # 1
        <4>1. submits'[Asc][i] = submits[Asc][i]
          BY <1>14, <3>2
        <4> QED
          BY <4>1 DEF QueueInv
      <3> QED
        BY <3>1, <3>2
    <2>3. /\ \A i \in 2 .. Len(t) : Len(u[i]) \in {1, 4}
          /\ \A i \in 2 .. Len(t), b \in Buffers : IsFrame(u[i], b) => Len(u[i]) = 4
      <3>1. \A i \in 2 .. Len(t) : i \in 1 .. Len(t) /\ u[i] = t[i]
        BY <1>3, <1>13
      <3> QED
        BY <3>1 DEF QueueInv
    <2> QED
      BY <1>7, <2>1, <2>2, <2>3 DEF QueueInv
  <1>10. \A i \in 1 .. Len(t), b \in Buffers :
            IsFrame(u[i], b) <=> IsFrame(t[i], b) /\ ~(q = Gfx /\ i = 1 /\ Front.op = "flip")
    <2>1. ASSUME NEW i \in 1 .. Len(t), NEW b \in Buffers
          PROVE  IsFrame(u[i], b) <=> IsFrame(t[i], b) /\ ~(q = Gfx /\ i = 1 /\ Front.op = "flip")
      <3>1. CASE q = Gfx /\ i = 1
        <4>1. u[i] = Tail(s) /\ t[i] = s
          BY <1>6, <3>1 DEF s, q
        <4>2. IsFrame(s, b) => (Len(s) > 1 <=> Front.op # "flip")
          <5>1. IsFrame(s, b) => Len(s) \in 1 .. 4 /\ (s[1].op = "flip" <=> Len(s) = 1)
            BY <1>1, FrameFacts
          <5>2. Front.op = s[1].op
            BY <1>1
          <5>3. ASSUME IsFrame(s, b) PROVE Len(s) > 1 <=> Len(s) # 1
            <6>1. \A n \in 1 .. 4 : n > 1 <=> n # 1
              OBVIOUS
            <6> QED
              BY <5>1, <5>3, <6>1
          <5> QED
            BY <5>1, <5>2, <5>3
        <4> QED
          BY <1>2, <3>1, <4>1, <4>2
      <3>2. CASE q # Gfx \/ i # 1
        <4>1. u[i] = t[i]
          BY <1>13, <3>2
        <4> QED
          BY <3>2, <4>1
      <3> QED
        BY <3>1, <3>2
    <2> QED
      BY <2>1
  <1>11. \A b \in Buffers, n \in 1 .. 3 :
            FrontFrame(b, n)' <=> FrontFrame(b, IF q = Gfx THEN n + 1 ELSE n)
    <2>1. ASSUME NEW b \in Buffers, NEW n \in 1 .. 3
          PROVE  FrontFrame(b, n)' <=> FrontFrame(b, IF q = Gfx THEN n + 1 ELSE n)
      <3>1. CASE q = Gfx
        <4>1. u # <<>> /\ t # <<>> /\ u[1] = Tail(s) /\ t[1] = s
          BY <1>1, <1>6, <1>8, <3>1 DEF s, q
        <4>2. Len(s) \in Nat /\ (Len(Tail(s)) = n <=> Len(s) = n + 1) /\ (Len(s) = n + 1 => Len(s) > 1)
          <5>1. \A l \in Nat, m \in Int : m = l - 1 => (m = n <=> l = n + 1) /\ (l = n + 1 => l > 1)
            OBVIOUS
          <5>2. Len(s) \in Nat /\ Len(Tail(s)) \in Int /\ Len(Tail(s)) = Len(s) - 1
            BY <1>2
          <5> QED
            BY <5>1, <5>2
        <4>3. IsFrame(Tail(s), b) /\ Len(Tail(s)) = n <=> IsFrame(s, b) /\ Len(s) = n + 1
          BY <1>2, <4>2
        <4> QED
          BY <3>1, <4>1, <4>3 DEF FrontFrame
      <3>2. CASE q # Gfx
        BY <1>6, <3>2 DEF FrontFrame
      <3> QED
        BY <3>1, <3>2
    <2> QED
      BY <2>1
  <1>12. q # Gfx => submits'[Gfx] = submits[Gfx]
    BY <1>6
  <1> QED
    BY <1>4, <1>6, <1>7, <1>8, <1>9, <1>10, <1>11, <1>12 DEF q

-----------------------------------------------------------------------------
(* Each part of the invariant, over the steps that disturb it. *)

Advancing == WaitRegMem \/ WaitVoLabel \/ WriteData \/ PatchedFlip \/ OtherPacket

\* The packet is over, or a wait goes on and nothing is taken off.
LEMMA AdvancingForms ==
    ASSUME IndInv, Advancing
    PROVE  /\ gpu \in {"exec", "labelTest"} /\ curr_qid' = curr_qid
           /\ UNCHANGED <<ce_submits, num_submits, num_mapped_queues, command_queue, submit_done,
                          submission_lock, m_submit_lock, pc, call, frames, budget>>
           /\ \/ /\ UNCHANGED <<submits, subscribers, videoVars>> /\ Front.op = "wait"
                 /\ \/ gpu' = "labelTest" /\ polling' = polling /\ ~polling
                    \/ gpu' = "labelAsleep" /\ gpu = "labelTest" /\ polling' = polling
                    \/ gpu' = "loop" /\ polling' = TRUE
              \/ /\ Advance /\ Front.op # "flip" /\ UNCHANGED subscribers
                 /\ \/ Front.op \in {"wait", "work"} /\ UNCHANGED videoVars
                    \/ Front.op = "label" /\ WriteData
                 /\ Front.op = "wait" => polling' = FALSE /\ buffer_labels[Front.buffer] = 0
                 /\ Front.op # "wait" => polling' = polling
              \/ Advance /\ PatchedFlip /\ polling' = polling
  <1>0. TypeOK /\ QueueInv /\ GpuInv
    BY DEF IndInv
  <1> USE DEF ExecUnchanged, guestVars
  <1>1. CASE WaitRegMem
    <2>1. /\ gpu = "exec" /\ Front.op = "wait" /\ UNCHANGED <<subscribers, videoVars>>
          /\ ExecUnchanged
          /\ \/ gpu' = "labelTest" /\ ~polling /\ UNCHANGED <<submits, polling>>
             \/ Advance /\ polling' = FALSE /\ buffer_labels[Front.buffer] = 0
             \/ gpu' = "loop" /\ polling' = TRUE /\ UNCHANGED submits
      BY <1>1 DEF WaitRegMem
    <2> QED
      BY <2>1
  <1>2. CASE WaitVoLabel
    <2>1. gpu = "labelTest" /\ Front.op = "wait" /\ ~polling
      BY <1>0, <1>2, ServedFront DEF WaitVoLabel, GpuInv
    <2> QED
      BY <1>0, <1>2, <2>1 DEF WaitVoLabel, TypeOK
  <1>3. CASE WriteData
    BY <1>3 DEF WriteData
  <1>4. CASE PatchedFlip
    BY <1>4 DEF PatchedFlip
  <1>5. CASE OtherPacket
    BY <1>5 DEF OtherPacket
  <1> QED
    BY <1>1, <1>2, <1>3, <1>4, <1>5 DEF Advancing

\* The command processor and the present thread leave the guest threads alone, but for an answer.
LEMMA GuestAlone ==
    ASSUME GpuStep \/ PresentStep
    PROVE  UNCHANGED <<m_submit_lock, call, frames>> /\ (pc' = pc \/ DrainCommand)
  <1>1. CASE PresentStep
    BY <1>1 DEF PresentStep, guestVars
  <1>2. CASE WaitRegMem \/ WaitVoLabel \/ WriteData \/ PatchedFlip \/ OtherPacket
    BY <1>2 DEF WaitRegMem, WaitVoLabel, WriteData, PatchedFlip, OtherPacket, ExecUnchanged, guestVars
  <1>3. CASE DrainCommand
    BY <1>3 DEF DrainCommand
  <1>4. CASE ProcessWait \/ ProcessLoop \/ ProcessCeQueue \/ PickQueue \/ PollCommands
    BY <1>4 DEF ProcessWait, ProcessLoop, ProcessCeQueue, PickQueue, PollCommands, guestVars
  <1>5. CASE FinishBuffer \/ RoundTail \/ RoundFlush \/ IdleInterrupt
    BY <1>5 DEF FinishBuffer, RoundTail, RoundFlush, IdleInterrupt, guestVars
  <1> QED
    BY <1>1, <1>2, <1>3, <1>4, <1>5 DEF GpuStep

\* How the guest threads move.
LEMMA GuestMoves ==
    ASSUME IndInv, NEW g \in Threads, GuestStep(g) \/ \E kind \in CallKinds : Begin(g, kind)
    PROVE  /\ \A h \in Threads \ {g} : pc'[h] = pc[h] /\ call'[h] = call[h]
           /\ pc' \in [Threads -> {"idle", "lock", "flip", "send", "read", "await"} \cup Holding]
           /\ call' \in [Threads -> CallKinds \cup {"none"}]
           /\ \/ /\ pc[g] = "idle" /\ m_submit_lock' = m_submit_lock
                 /\ pc'[g] \in {"lock", "flip", "read"}
                 /\ pc'[g] = "lock" => call'[g] \in SubmitKinds
              \/ /\ pc[g] = "lock" /\ m_submit_lock = NoOne /\ m_submit_lock' = g
                 /\ pc'[g] = "gate" /\ call' = call
              \/ /\ pc[g] \in Holding /\ m_submit_lock' = m_submit_lock /\ call' = call
                 /\ pc'[g] \in Holding
                 /\ pc'[g] = "register" => call[g] \in FrameKinds
                 /\ pc'[g] = "submit" => call[g] \in FrameKinds \cup {"draw"}
              \/ /\ pc[g] \in Holding /\ m_submit_lock' = NoOne
                 /\ \/ pc'[g] = "idle"
                    \/ pc'[g] = "lock" /\ call'[g] = "done"
              \/ /\ m_submit_lock' = m_submit_lock /\ call' = call
                 /\ \/ pc[g] = "flip" /\ pc'[g] = "send"
                    \/ pc[g] = "send" /\ pc'[g] = "idle"
                    \/ pc[g] = "read" /\ pc'[g] = "await"
  <1>0. TypeOK /\ LockInv
    BY DEF IndInv
  <1> USE <1>0 DEF TypeOK, Goto, Holding
  <1>1. ASSUME NEW kind \in CallKinds, Begin(g, kind)
        PROVE  /\ pc[g] = "idle" /\ m_submit_lock' = m_submit_lock
               /\ pc'[g] \in {"lock", "flip", "read"}
               /\ pc'[g] = "lock" => call'[g] \in SubmitKinds
               /\ pc' \in [Threads -> {"idle", "lock", "flip", "send", "read", "await"} \cup Holding]
               /\ call' \in [Threads -> CallKinds \cup {"none"}]
               /\ \A h \in Threads \ {g} : pc'[h] = pc[h] /\ call'[h] = call[h]
    BY <1>1 DEF Begin, SubmitKinds, FrameKinds, CallKinds
  <1>2. CASE LockSubmit(g)
    BY <1>2 DEF LockSubmit
  <1>3. CASE WaitGpuIdle(g)
    <2>1. call[g] \in SubmitKinds
      BY <1>3 DEF LockInv, WaitGpuIdle
    <2>2. \E l \in {"register", "submit", "push", "check"} :
            /\ Goto(g, l)
            /\ l = "register" => call[g] \in FrameKinds
            /\ l = "submit" => call[g] = "draw"
      BY <1>3, <2>1 DEF WaitGpuIdle, SubmitKinds, FrameKinds
    <2>3. pc[g] = "gate" /\ UNCHANGED <<m_submit_lock, call>>
      BY <1>3 DEF WaitGpuIdle
    <2> QED
      BY <2>2, <2>3
  <1>4. CASE PatchFlipRequest(g)
    BY <1>4 DEF PatchFlipRequest, LockInv
  <1>5. CASE SubmitGfx(g)
    BY <1>5 DEF SubmitGfx, CallKinds
  <1>6. CASE PushAsc(g)
    BY <1>6 DEF PushAsc
  <1>7. CASE CountAsc(g)
    BY <1>7 DEF CountAsc
  <1>8. CASE CheckIdle(g)
    <2>1. \E l \in {"finish", "raise"} : Goto(g, l)
      BY <1>8 DEF CheckIdle
    <2>2. pc[g] = "check" /\ UNCHANGED <<m_submit_lock, call>>
      BY <1>8 DEF CheckIdle
    <2> QED
      BY <2>1, <2>2
  <1>9. CASE RaiseLock(g)
    BY <1>9 DEF RaiseLock
  <1>10. CASE SubmitDone(g)
    BY <1>10 DEF SubmitDone
  <1>11. CASE SubmitFlip(g)
    BY <1>11 DEF SubmitFlip
  <1>12. CASE SendCommand(g)
    BY <1>12 DEF SendCommand, Send
  <1>13. CASE SendCommandAndWait(g)
    BY <1>13 DEF SendCommandAndWait, Send
  <1> QED
    BY <1>1, <1>2, <1>3, <1>4, <1>5, <1>6, <1>7, <1>8, <1>9, <1>10, <1>11, <1>12, <1>13 DEF GuestStep

\* A command: whose it is, and that its answer reaches a thread that waits.
LEMMA DrainForms ==
    ASSUME IndInv, DrainCommand
    PROVE  /\ command_queue # <<>> /\ Head(command_queue) \in Commands
           /\ command_queue' = Tail(command_queue) /\ command_queue' \in Seq(Commands)
           /\ UNCHANGED <<submits, ce_submits, num_submits, num_mapped_queues, submit_done, gpuVars,
                          gpu, submission_lock, subscribers, m_submit_lock, call, frames, budget,
                          portVars, flip_pending_num>>
           /\ \/ /\ Head(command_queue).kind = "flip" /\ pc' = pc
                 /\ requests' = Append(requests, [index |-> Blank, eop |-> FALSE])
              \/ /\ Head(command_queue).kind = "read" /\ requests' = requests
                 /\ Head(command_queue).thread \in Threads
                 /\ pc[Head(command_queue).thread] = "await"
                 /\ pc' = [pc EXCEPT ![Head(command_queue).thread] = "idle"]
  <1> DEFINE c == Head(command_queue)
  <1>1. /\ command_queue \in Seq(Commands) /\ command_queue # <<>> /\ c = command_queue[1]
        /\ 1 \in 1 .. Len(command_queue) /\ c \in Commands /\ ReadInv
        /\ Tail(command_queue) \in Seq(Commands)
    BY DEF IndInv, TypeOK, DrainCommand
  <1>2. /\ c.kind = "flip" => c.index = Blank
        /\ c.kind # "flip" => c.kind = "read" /\ c.thread \in Threads
    BY <1>1 DEF Commands, FlipCommands
  <1>3. c.kind = "read" => pc[c.thread] = "await"
    BY <1>1 DEF ReadInv
  <1>4. CASE c.kind = "flip"
    BY <1>1, <1>2, <1>4 DEF DrainCommand, SubmitFlipInternal
  <1>5. CASE c.kind # "flip"
    BY <1>1, <1>2, <1>3, <1>5 DEF DrainCommand, Goto
  <1> QED
    BY <1>4, <1>5

LEMMA LockStep ==
    ASSUME IndInv, Next
    PROVE  LockInv'
  <1>1. TypeOK /\ LockInv
    BY DEF IndInv
  <1>2. ASSUME NEW g \in Threads, GuestStep(g) \/ \E kind \in CallKinds : Begin(g, kind)
        PROVE  LockInv'
    <2>1. m_submit_lock # NoOne => m_submit_lock \in Threads
      BY <1>1 DEF TypeOK
    <2>2. ASSUME NEW h \in Threads
          PROVE  /\ m_submit_lock' = h <=> pc'[h] \in Holding
                 /\ pc'[h] \in {"lock"} \cup Holding => call'[h] \in SubmitKinds
                 /\ pc'[h] = "register" => call'[h] \in FrameKinds
                 /\ pc'[h] = "submit" => call'[h] \in FrameKinds \cup {"draw"}
      <3>1. CASE h = g
        BY <1>1, <1>2, <3>1, GuestMoves, GuestAssumption DEF LockInv, Holding, SubmitKinds
      <3>2. CASE h # g
        <4>1. pc'[h] = pc[h] /\ call'[h] = call[h]
          BY <1>2, <3>2, GuestMoves
        <4>2. m_submit_lock' = h <=> m_submit_lock = h
          BY <1>1, <1>2, <3>2, GuestMoves, GuestAssumption DEF LockInv
        <4> QED
          BY <1>1, <4>1, <4>2 DEF LockInv
      <3> QED
        BY <3>1, <3>2
    <2> QED
      BY <2>2 DEF LockInv
  <1>3. CASE (GpuStep \/ PresentStep) /\ pc' = pc
    BY <1>1, <1>3, GuestAlone DEF LockInv
  <1>4. CASE DrainCommand
    BY <1>1, <1>4, DrainForms DEF LockInv, Holding, TypeOK
  <1> QED
    BY <1>2, <1>3, <1>4, GuestAlone DEF Next

LEMMA ReadStep ==
    ASSUME IndInv, Next
    PROVE  ReadInv'
  <1>1. TypeOK /\ ReadInv /\ command_queue \in Seq(Commands)
    BY DEF IndInv, TypeOK
  <1>2. ASSUME NEW g \in Threads, SendCommand(g) \/ SendCommandAndWait(g) PROVE ReadInv'
    <2> DEFINE n == Len(command_queue)
    <2>1. PICK c \in Commands : /\ command_queue' = Append(command_queue, c)
                                /\ c.kind = "read" => c.thread = g /\ pc' = [pc EXCEPT ![g] = "await"]
                                /\ pc[g] # "await" /\ \A h \in Threads \ {g} : pc'[h] = pc[h]
      BY <1>1, <1>2 DEF SendCommand, SendCommandAndWait, Send, Goto, Commands, FlipCommands, TypeOK
    <2>2. /\ n \in Nat /\ Len(command_queue') = n + 1 /\ command_queue'[n + 1] = c
          /\ \A i \in 1 .. n : command_queue'[i] = command_queue[i] /\ command_queue[i] \in Commands
      BY <1>1, <2>1
    <2>3. \A i \in 1 .. n : command_queue[i].kind = "read" =>
            /\ command_queue[i].thread \in Threads \ {g}
            /\ pc'[command_queue[i].thread] = "await"
      BY <1>1, <2>1, <2>2 DEF ReadInv, Commands, FlipCommands
    <2>4. c.kind = "read" => pc'[c.thread] = "await"
      BY <1>1, <2>1 DEF TypeOK
    <2>5. ASSUME NEW i \in 1 .. n + 1, NEW j \in 1 .. n + 1,
                 command_queue'[i].kind = "read", command_queue'[j].kind = "read",
                 command_queue'[i].thread = command_queue'[j].thread
          PROVE  i = j
      <3>1. CASE i \in 1 .. n /\ j \in 1 .. n
        BY <1>1, <2>2, <2>5, <3>1 DEF ReadInv
      <3>2. CASE i = n + 1 /\ j = n + 1
        BY <3>2
      <3>3. CASE i = n + 1 /\ j \in 1 .. n
        BY <2>1, <2>2, <2>3, <2>5, <3>3
      <3>4. CASE i \in 1 .. n /\ j = n + 1
        BY <2>1, <2>2, <2>3, <2>5, <3>4
      <3> QED
        BY <2>2, <3>1, <3>2, <3>3, <3>4
    <2>6. ASSUME NEW i \in 1 .. n + 1, command_queue'[i].kind = "read"
          PROVE  pc'[command_queue'[i].thread] = "await"
      BY <2>2, <2>3, <2>4, <2>6
    <2> HIDE DEF n
    <2> QED
      BY <2>2, <2>5, <2>6 DEF ReadInv
  <1>3. CASE DrainCommand
    <2> DEFINE s == command_queue
    <2>0. s' = Tail(s) /\ s # <<>>
      BY <1>3, DrainForms
    <2>1. /\ Len(s) \in Nat /\ Len(s) > 0 /\ Len(s') = Len(s) - 1 /\ Head(s) = s[1]
          /\ \A i \in 1 .. Len(s') : s'[i] = s[i + 1]
          /\ \A i \in 1 .. Len(s') : i + 1 \in 1 .. Len(s) /\ i + 1 # 1
      BY <1>1, <2>0
    <2>2. ASSUME NEW i \in 1 .. Len(s'), s'[i].kind = "read"
          PROVE  pc'[s'[i].thread] = "await"
      <3>1. s[i + 1].kind = "read" /\ pc[s[i + 1].thread] = "await" /\ s[i + 1] \in Commands
        BY <1>1, <2>1, <2>2 DEF ReadInv
      <3>2. s[1].kind = "read" => s[1].thread # s[i + 1].thread
        BY <1>1, <2>1, <3>1 DEF ReadInv
      <3>3. s[i + 1].thread \in Threads
        BY <3>1 DEF Commands, FlipCommands
      <3>4. pc'[s[i + 1].thread] = pc[s[i + 1].thread]
        <4>1. CASE s[1].kind = "read"
          BY <1>1, <1>3, <2>1, <3>2, <3>3, <4>1, DrainForms DEF TypeOK
        <4>2. CASE s[1].kind # "read"
          BY <1>3, <2>1, <4>2, DrainForms
        <4> QED
          BY <4>1, <4>2
      <3> QED
        BY <2>1, <2>2, <3>1, <3>4
    <2>3. ASSUME NEW i \in 1 .. Len(s'), NEW j \in 1 .. Len(s'),
                 s'[i].kind = "read", s'[j].kind = "read", s'[i].thread = s'[j].thread
          PROVE  i = j
      <3>1. i + 1 = j + 1
        BY <1>1, <2>1, <2>3 DEF ReadInv
      <3> QED
        BY <2>1, <3>1
    <2> QED
      BY <2>2, <2>3 DEF ReadInv
  <1>4. CASE command_queue' = command_queue /\ \A g \in Threads : pc[g] = "await" => pc'[g] = "await"
    <2>1. \A i \in 1 .. Len(command_queue) : command_queue[i].kind = "read" =>
                                             command_queue[i].thread \in Threads
      BY <1>1 DEF Commands, FlipCommands
    <2> QED
      BY <1>1, <1>4, <2>1 DEF ReadInv
  <1>5. CASE PresentStep \/ (GpuStep /\ ~DrainCommand)
    <2>1. pc' = pc
      BY <1>5, GuestAlone DEF PresentStep, guestVars
    <2>2. command_queue' = command_queue
      <3>1. CASE PresentStep
        BY <3>1 DEF PresentStep, queueVars
      <3>2. CASE Advancing
        BY <3>2, AdvancingForms
      <3>3. CASE ProcessWait \/ ProcessLoop \/ ProcessCeQueue \/ PickQueue \/ PollCommands
        BY <3>3 DEF ProcessWait, ProcessLoop, ProcessCeQueue, PickQueue, PollCommands, queueVars
      <3>4. CASE FinishBuffer \/ RoundTail \/ RoundFlush \/ IdleInterrupt
        BY <3>4 DEF FinishBuffer, RoundTail, RoundFlush, IdleInterrupt, queueVars
      <3> QED
        BY <1>5, <3>1, <3>2, <3>3, <3>4 DEF GpuStep, Advancing
    <2> QED
      BY <1>4, <2>1, <2>2
  <1>6. ASSUME NEW g \in Threads, GuestStep(g) \/ \E kind \in CallKinds : Begin(g, kind),
               ~SendCommand(g), ~SendCommandAndWait(g)
        PROVE  ReadInv'
    <2>1. command_queue' = command_queue
      <3>1. CASE \E kind \in CallKinds : Begin(g, kind)
        BY <3>1 DEF Begin, queueVars
      <3>2. CASE LockSubmit(g) \/ WaitGpuIdle(g) \/ PatchFlipRequest(g) \/ SubmitGfx(g)
        BY <3>2 DEF LockSubmit, WaitGpuIdle, PatchFlipRequest, SubmitGfx, queueVars
      <3>3. CASE PushAsc(g) \/ CountAsc(g) \/ CheckIdle(g) \/ RaiseLock(g) \/ SubmitDone(g)
        BY <3>3 DEF PushAsc, CountAsc, CheckIdle, RaiseLock, SubmitDone, queueVars
      <3>4. CASE SubmitFlip(g)
        BY <3>4 DEF SubmitFlip, queueVars
      <3> QED
        BY <1>6, <3>1, <3>2, <3>3, <3>4 DEF GuestStep
    <2>2. \A h \in Threads : pc[h] = "await" => pc'[h] = "await"
      BY <1>6, GuestMoves DEF Holding
    <2> QED
      BY <1>4, <2>1, <2>2
  <1> QED
    BY <1>2, <1>3, <1>5, <1>6 DEF Next

-----------------------------------------------------------------------------
(* The queues of command buffers. *)

LEMMA BufferOf ==
    ASSUME NEW n \in Int
    PROVE  n % NumBuffers \in Buffers
BY VideoOutAssumption, Remainder DEF Buffers

LEMMA AppendFacts ==
    ASSUME NEW T, NEW s \in Seq(T), NEW x \in T
    PROVE  /\ Append(s, x) \in Seq(T) /\ Append(s, x) # <<>>
           /\ Len(s) \in Nat /\ Len(Append(s, x)) = Len(s) + 1
           /\ \A i \in 1 .. Len(s) : Append(s, x)[i] = s[i]
           /\ Append(s, x)[Len(s) + 1] = x
OBVIOUS

LEMMA PopFacts ==
    ASSUME NEW T, NEW s \in Seq(T), s # <<>>
    PROVE  /\ Tail(s) \in Seq(T) /\ Head(s) = s[1] /\ Head(s) \in T
           /\ Len(s) \in Nat /\ Len(s) > 0 /\ Len(Tail(s)) = Len(s) - 1
           /\ \A i \in 1 .. Len(Tail(s)) : Tail(s)[i] = s[i + 1]
           /\ \A i \in 1 .. Len(Tail(s)) : i + 1 \in 2 .. Len(s)
           /\ \A i \in 2 .. Len(s) : i - 1 \in 1 .. Len(Tail(s)) /\ Tail(s)[i - 1] = s[i]
OBVIOUS

\* SubmitGfx appends one whole buffer, that of the frame registered last or no frame.
LEMMA SubmitFacts ==
    ASSUME IndInv, NEW g \in Threads, SubmitGfx(g)
    PROVE  \E buf \in Seq(Packets) :
              /\ submits' = [submits EXCEPT ![Gfx] = Append(submits[Gfx], buf)]
              /\ submits'[Gfx] = Append(submits[Gfx], buf)
              /\ submits' \in [{Gfx, Asc} -> Seq(Seq(Packets))]
              /\ submits'[Asc] = submits[Asc]
              /\ call[g] \in FrameKinds => /\ IsFrame(buf, (frames - 1) % NumBuffers)
                                           /\ Len(buf) = 4
              /\ call[g] \notin FrameKinds => IsOther(buf) /\ Len(buf) = 1
  <1>1. TypeOK /\ call[g] \in CallKinds
    <2>1. TypeOK /\ pc[g] = "submit" /\ LockInv
      BY DEF IndInv, SubmitGfx
    <2>2. call[g] \in FrameKinds \cup {"draw"}
      BY <2>1 DEF LockInv
    <2> QED
      BY <2>1, <2>2 DEF FrameKinds, CallKinds
  <1>2. (frames - 1) % NumBuffers \in Buffers
    BY <1>1, BufferOf DEF TypeOK
  <1> DEFINE buf == CommandBuffer(call[g], (frames - 1) % NumBuffers)
  <1>3. /\ buf \in Seq(Packets)
        /\ call[g] \in FrameKinds => IsFrame(buf, (frames - 1) % NumBuffers) /\ Len(buf) = 4
        /\ call[g] \notin FrameKinds => IsOther(buf) /\ Len(buf) = 1
    BY <1>1, <1>2, Whole
  <1>4. submits' = [submits EXCEPT ![Gfx] = Append(submits[Gfx], buf)]
    BY DEF SubmitGfx
  <1> HIDE DEF buf
  <1>5. Append(submits[Gfx], buf) \in Seq(Seq(Packets))
    BY <1>1, <1>3, Queues
  <1>6. /\ submits'[Gfx] = Append(submits[Gfx], buf) /\ submits'[Asc] = submits[Asc]
        /\ submits' \in [{Gfx, Asc} -> Seq(Seq(Packets))]
    BY <1>1, <1>4, <1>5 DEF TypeOK, Gfx, Asc
  <1> QED
    BY <1>3, <1>4, <1>6

LEMMA PushFacts ==
    ASSUME IndInv, NEW g \in Threads, PushAsc(g)
    PROVE  \E buf \in Seq(Packets) :
              /\ submits' \in [{Gfx, Asc} -> Seq(Seq(Packets))]
              /\ submits'[Asc] = Append(submits[Asc], buf) /\ submits'[Gfx] = submits[Gfx]
              /\ IsOther(buf)
  <1>1. TypeOK
    BY DEF IndInv
  <1>2. 0 \in Buffers
    BY VideoOutAssumption DEF Buffers
  <1> DEFINE buf == CommandBuffer("compute", 0)
  <1>3. buf \in Seq(Packets) /\ IsOther(buf)
    BY <1>2, Whole DEF CallKinds, FrameKinds
  <1>4. submits' = [submits EXCEPT ![Asc] = Append(submits[Asc], buf)]
    BY DEF PushAsc
  <1> HIDE DEF buf
  <1>5. Append(submits[Asc], buf) \in Seq(Seq(Packets))
    BY <1>1, <1>3, Queues
  <1> QED
    BY <1>1, <1>3, <1>4, <1>5 DEF TypeOK, Gfx, Asc

\* A finished buffer leaves its queue.
LEMMA FinishFacts ==
    ASSUME IndInv, FinishBuffer
    PROVE  /\ curr_qid \in {Gfx, Asc} /\ submits[curr_qid] # <<>> /\ submits[curr_qid][1] = <<>>
           /\ submits' \in [{Gfx, Asc} -> Seq(Seq(Packets))]
           /\ submits'[curr_qid] = Tail(submits[curr_qid])
           /\ \A q \in {Gfx, Asc} \ {curr_qid} : submits'[q] = submits[q]
  <1>1. TypeOK /\ gpu = "packet" /\ submits[curr_qid][1] = <<>>
    BY DEF IndInv, FinishBuffer
  <1>2. curr_qid \in {Gfx, Asc} /\ submits[curr_qid] # <<>>
    BY <1>1 DEF IndInv, GpuInv, Serving
  <1>3. Tail(submits[curr_qid]) \in Seq(Seq(Packets))
    BY <1>1, <1>2, Queues
  <1>4. submits' = [submits EXCEPT ![curr_qid] = Tail(submits[curr_qid])]
    BY DEF FinishBuffer
  <1> QED
    BY <1>1, <1>2, <1>3, <1>4 DEF TypeOK

\* Which steps change the queues.
LEMMA SubmitsForms ==
    ASSUME IndInv, Next
    PROVE  \/ submits' = submits
           \/ \E g \in Threads : SubmitGfx(g) \/ PushAsc(g)
           \/ Advancing /\ Advance
           \/ FinishBuffer
  <1>1. ASSUME NEW g \in Threads, GuestStep(g) \/ \E kind \in CallKinds : Begin(g, kind)
        PROVE  submits' = submits \/ SubmitGfx(g) \/ PushAsc(g)
    <2>1. CASE \E kind \in CallKinds : Begin(g, kind)
      BY <2>1 DEF Begin, queueVars
    <2>2. CASE LockSubmit(g) \/ WaitGpuIdle(g) \/ PatchFlipRequest(g) \/ SubmitFlip(g)
      BY <2>2 DEF LockSubmit, WaitGpuIdle, PatchFlipRequest, SubmitFlip, queueVars
    <2>3. CASE CountAsc(g) \/ CheckIdle(g) \/ RaiseLock(g) \/ SubmitDone(g)
      BY <2>3 DEF CountAsc, CheckIdle, RaiseLock, SubmitDone, queueVars
    <2>4. CASE SendCommand(g) \/ SendCommandAndWait(g)
      BY <2>4 DEF SendCommand, SendCommandAndWait, Send
    <2> QED
      BY <1>1, <2>1, <2>2, <2>3, <2>4 DEF GuestStep
  <1>2. CASE PresentStep
    BY <1>2 DEF PresentStep, queueVars
  <1>3. CASE Advancing
    BY <1>3, AdvancingForms
  <1>4. CASE ProcessWait \/ ProcessLoop \/ ProcessCeQueue \/ PickQueue \/ PollCommands \/ DrainCommand
    BY <1>4 DEF ProcessWait, ProcessLoop, ProcessCeQueue, PickQueue, PollCommands, DrainCommand,
                queueVars
  <1>5. CASE RoundTail \/ RoundFlush \/ IdleInterrupt
    BY <1>5 DEF RoundTail, RoundFlush, IdleInterrupt, queueVars
  <1> QED
    BY <1>1, <1>2, <1>3, <1>4, <1>5 DEF Next, GpuStep, Advancing

LEMMA QueueStep ==
    ASSUME IndInv, Next
    PROVE  QueueInv' /\ submits' \in [{Gfx, Asc} -> Seq(Seq(Packets))]
  <1>1. TypeOK /\ QueueInv /\ GpuInv
    BY DEF IndInv
  <1>2. CASE submits' = submits
    BY <1>1, <1>2 DEF QueueInv, TypeOK
  <1>3. ASSUME NEW g \in Threads, SubmitGfx(g)
        PROVE  QueueInv' /\ submits' \in [{Gfx, Asc} -> Seq(Seq(Packets))]
    <2>1. PICK buf \in Seq(Packets) :
              /\ submits'[Gfx] = Append(submits[Gfx], buf)
              /\ submits' \in [{Gfx, Asc} -> Seq(Seq(Packets))]
              /\ submits'[Asc] = submits[Asc]
              /\ call[g] \in FrameKinds => /\ IsFrame(buf, (frames - 1) % NumBuffers)
                                           /\ Len(buf) = 4
              /\ call[g] \notin FrameKinds => IsOther(buf) /\ Len(buf) = 1
      BY <1>3, SubmitFacts
    <2>2. /\ IsOther(buf) \/ \E b \in Buffers : IsFrame(buf, b)
          /\ Len(buf) \in {1, 4}
          /\ \A b \in Buffers : IsFrame(buf, b) => Len(buf) = 4
      <3>1. CASE call[g] \in FrameKinds
        <4>1. (frames - 1) % NumBuffers \in Buffers
          BY <1>1, BufferOf DEF TypeOK
        <4> QED
          BY <2>1, <3>1, <4>1
      <3>2. CASE call[g] \notin FrameKinds
        BY <2>1, <3>2, FrameFacts
      <3> QED
        BY <3>1, <3>2
    <2> DEFINE n == Len(submits[Gfx])
    <2>3. /\ n \in Nat /\ Len(submits'[Gfx]) = n + 1 /\ submits'[Gfx][n + 1] = buf
          /\ \A i \in 1 .. n : submits'[Gfx][i] = submits[Gfx][i]
      BY <1>1, <2>1, Queues, AppendFacts
    <2>4. \A i \in 1 .. n + 1 : i \in 1 .. n \/ i = n + 1
      BY <2>3
    <2>5. \A i \in 2 .. n + 1 : i \in 2 .. n \/ i = n + 1
      BY <2>3
    <2>6. \A i \in 2 .. n : i \in 1 .. n
      BY <2>3
    <2> HIDE DEF n
    <2>7. /\ \A i \in 1 .. n : \/ IsOther(submits[Gfx][i])
                               \/ \E b \in Buffers : IsFrame(submits[Gfx][i], b)
          /\ \A i \in 2 .. n : Len(submits[Gfx][i]) \in {1, 4}
          /\ \A i \in 2 .. n, b \in Buffers :
                IsFrame(submits[Gfx][i], b) => Len(submits[Gfx][i]) = 4
      BY <1>1 DEF QueueInv, n
    <2>8. /\ \A i \in 1 .. n + 1 : \/ IsOther(submits'[Gfx][i])
                                   \/ \E b \in Buffers : IsFrame(submits'[Gfx][i], b)
          /\ \A i \in 2 .. n + 1 : Len(submits'[Gfx][i]) \in {1, 4}
          /\ \A i \in 2 .. n + 1, b \in Buffers :
                IsFrame(submits'[Gfx][i], b) => Len(submits'[Gfx][i]) = 4
      BY <2>2, <2>3, <2>4, <2>5, <2>6, <2>7
    <2> QED
      BY <1>1, <2>1, <2>3, <2>8 DEF QueueInv
  <1>4. ASSUME NEW g \in Threads, PushAsc(g)
        PROVE  QueueInv' /\ submits' \in [{Gfx, Asc} -> Seq(Seq(Packets))]
    <2>1. PICK buf \in Seq(Packets) :
              /\ submits' \in [{Gfx, Asc} -> Seq(Seq(Packets))]
              /\ submits'[Asc] = Append(submits[Asc], buf) /\ submits'[Gfx] = submits[Gfx]
              /\ IsOther(buf)
      BY <1>4, PushFacts
    <2>2. \A i \in 1 .. Len(submits'[Asc]) : IsOther(submits'[Asc][i])
      <3> DEFINE n == Len(submits[Asc])
      <3>1. /\ n \in Nat /\ Len(submits'[Asc]) = n + 1 /\ submits'[Asc][n + 1] = buf
            /\ \A i \in 1 .. n : submits'[Asc][i] = submits[Asc][i]
        BY <1>1, <2>1, Queues, AppendFacts
      <3>2. \A i \in 1 .. n + 1 : i \in 1 .. n \/ i = n + 1
        BY <3>1
      <3>3. \A i \in 1 .. n : IsOther(submits[Asc][i])
        BY <1>1 DEF QueueInv
      <3> QED
        BY <2>1, <3>1, <3>2, <3>3
    <2> QED
      BY <1>1, <2>1, <2>2 DEF QueueInv
  <1>5. CASE Advancing /\ Advance
    BY <1>1, <1>5, AdvancingForms, AdvanceStep
  <1>6. CASE FinishBuffer
    <2>1. /\ curr_qid \in {Gfx, Asc} /\ submits[curr_qid] # <<>>
          /\ submits' \in [{Gfx, Asc} -> Seq(Seq(Packets))]
          /\ submits'[curr_qid] = Tail(submits[curr_qid])
          /\ \A q \in {Gfx, Asc} \ {curr_qid} : submits'[q] = submits[q]
      BY <1>6, FinishFacts
    <2>2. CASE curr_qid = Gfx
      <3> DEFINE s == submits[Gfx]
                 t == submits'[Gfx]
      <3>1. s \in Seq(Seq(Packets)) /\ s # <<>> /\ t = Tail(s) /\ submits'[Asc] = submits[Asc]
        BY <1>1, <2>1, <2>2, Queues DEF Gfx, Asc
      <3>2. /\ \A i \in 1 .. Len(t) : t[i] = s[i + 1] /\ i + 1 \in 2 .. Len(s) /\ i + 1 \in 1 .. Len(s)
            /\ \A i \in 2 .. Len(t) : i \in 1 .. Len(t)
        BY <3>1, PopFacts
      <3>3. /\ \A i \in 1 .. Len(s) : IsOther(s[i]) \/ \E b \in Buffers : IsFrame(s[i], b)
            /\ \A i \in 2 .. Len(s) : Len(s[i]) \in {1, 4}
            /\ \A i \in 2 .. Len(s), b \in Buffers : IsFrame(s[i], b) => Len(s[i]) = 4
        BY <1>1 DEF QueueInv
      <3> HIDE DEF s, t
      <3>4. /\ \A i \in 1 .. Len(t) : IsOther(t[i]) \/ \E b \in Buffers : IsFrame(t[i], b)
            /\ \A i \in 2 .. Len(t) : Len(t[i]) \in {1, 4}
            /\ \A i \in 2 .. Len(t), b \in Buffers : IsFrame(t[i], b) => Len(t[i]) = 4
        BY <3>2, <3>3
      <3> QED
        BY <1>1, <2>1, <3>1, <3>4 DEF QueueInv, t
    <2>3. CASE curr_qid = Asc
      <3> DEFINE s == submits[Asc]
                 t == submits'[Asc]
      <3>1. s \in Seq(Seq(Packets)) /\ s # <<>> /\ t = Tail(s) /\ submits'[Gfx] = submits[Gfx]
        BY <1>1, <2>1, <2>3, Queues DEF Gfx, Asc
      <3>2. \A i \in 1 .. Len(t) : t[i] = s[i + 1] /\ i + 1 \in 1 .. Len(s)
        BY <3>1, PopFacts
      <3>3. \A i \in 1 .. Len(t) : IsOther(t[i])
        BY <1>1, <3>2 DEF QueueInv
      <3> QED
        BY <1>1, <2>1, <3>1, <3>3 DEF QueueInv
    <2> QED
      BY <2>1, <2>2, <2>3
  <1> QED
    BY <1>2, <1>3, <1>4, <1>5, <1>6, SubmitsForms


-----------------------------------------------------------------------------
(* Where the command processor is. *)

\* The guest only adds to the queues, and may wake the command processor.
LEMMA GuestQueues ==
    ASSUME IndInv, NEW g \in Threads, GuestStep(g) \/ \E kind \in CallKinds : Begin(g, kind)
    PROVE  /\ UNCHANGED <<curr_qid, polling>>
           /\ gpu' = gpu \/ (gpu = "asleep" /\ gpu' = "wait")
           /\ \A q \in {Gfx, Asc} :
                submits[q] # <<>> => submits'[q] # <<>> /\ submits'[q][1] = submits[q][1]
  <1>1. TypeOK
    BY DEF IndInv
  <1>2. /\ UNCHANGED <<curr_qid, polling>>
        /\ gpu' = gpu \/ (gpu = "asleep" /\ gpu' = "wait")
        /\ submits' = submits \/ SubmitGfx(g) \/ PushAsc(g)
    <2> USE DEF queueVars, gpuVars, Notify
    <2>1. CASE \E kind \in CallKinds : Begin(g, kind)
      BY <2>1 DEF Begin
    <2>2. CASE LockSubmit(g) \/ WaitGpuIdle(g) \/ PatchFlipRequest(g) \/ SubmitGfx(g)
      BY <2>2 DEF LockSubmit, WaitGpuIdle, PatchFlipRequest, SubmitGfx
    <2>3. CASE PushAsc(g) \/ CountAsc(g) \/ CheckIdle(g) \/ RaiseLock(g) \/ SubmitDone(g)
      BY <2>3 DEF PushAsc, CountAsc, CheckIdle, RaiseLock, SubmitDone
    <2>4. CASE SubmitFlip(g) \/ SendCommand(g) \/ SendCommandAndWait(g)
      BY <2>4 DEF SubmitFlip, SendCommand, SendCommandAndWait, Send
    <2> QED
      BY <2>1, <2>2, <2>3, <2>4 DEF GuestStep
  <1>3. \A q \in {Gfx, Asc}, buf \in Seq(Packets) :
            submits[q] # <<>> => /\ Append(submits[q], buf) # <<>>
                                 /\ Append(submits[q], buf)[1] = submits[q][1]
    <2>1. \A q \in {Gfx, Asc} : submits[q] \in Seq(Seq(Packets))
      BY <1>1, Queues
    <2>2. ASSUME NEW T, NEW s \in Seq(T), NEW x \in T, s # <<>>
          PROVE  Append(s, x) # <<>> /\ Append(s, x)[1] = s[1]
      BY <2>2
    <2> QED
      BY <2>1, <2>2
  <1>4. CASE SubmitGfx(g)
    <2>1. PICK buf \in Seq(Packets) : /\ submits'[Gfx] = Append(submits[Gfx], buf)
                                      /\ submits'[Asc] = submits[Asc]
      BY <1>4, SubmitFacts
    <2> QED
      BY <1>2, <1>3, <2>1
  <1>5. CASE PushAsc(g)
    <2>1. PICK buf \in Seq(Packets) : /\ submits'[Asc] = Append(submits[Asc], buf)
                                      /\ submits'[Gfx] = submits[Gfx]
      BY <1>5, PushFacts
    <2> QED
      BY <1>2, <1>3, <2>1
  <1> QED
    BY <1>2, <1>4, <1>5

LEMMA GpuInvStep ==
    ASSUME IndInv, Next
    PROVE  GpuInv' /\ gpu' \in GpuPlaces /\ curr_qid' \in {-1, Gfx, Asc} /\ polling' \in BOOLEAN
  <1>1. TypeOK /\ QueueInv /\ GpuInv
    BY DEF IndInv
  <1>2. gpu \in GpuPlaces /\ curr_qid \in {-1, Gfx, Asc} /\ polling \in BOOLEAN
    BY <1>1 DEF TypeOK
  <1> USE DEF Serving, GpuPlaces
  <1>3. ASSUME NEW g \in Threads, GuestStep(g) \/ \E kind \in CallKinds : Begin(g, kind)
        PROVE  GpuInv' /\ gpu' \in GpuPlaces /\ curr_qid' \in {-1, Gfx, Asc} /\ polling' \in BOOLEAN
    <2>1. /\ UNCHANGED <<curr_qid, polling>>
          /\ gpu' = gpu \/ (gpu = "asleep" /\ gpu' = "wait")
          /\ \A q \in {Gfx, Asc} :
                submits[q] # <<>> => submits'[q] # <<>> /\ submits'[q][1] = submits[q][1]
      BY <1>3, GuestQueues
    <2> QED
      BY <1>1, <1>2, <2>1 DEF GpuInv
  <1>4. CASE PresentStep
    BY <1>1, <1>2, <1>4 DEF PresentStep, GpuInv, queueVars, gpuVars, SignalVoLabel
  <1>5. CASE Advancing
    <2>1. gpu \in {"exec", "labelTest"} /\ curr_qid' = curr_qid
      BY <1>5, AdvancingForms
    <2>2. /\ curr_qid \in {Gfx, Asc} /\ submits[curr_qid] # <<>>
          /\ submits[curr_qid][1] \in Seq(Packets) /\ submits[curr_qid][1] # <<>>
          /\ Front = submits[curr_qid][1][1]
          /\ Front.op # "work" => /\ curr_qid = Gfx /\ Front.buffer \in Buffers
                                  /\ IsFrame(submits[curr_qid][1], Front.buffer)
      BY <1>1, <2>1, ServedFront
    <2>3. Front.op = "wait" => curr_qid = Gfx /\ Len(submits[Gfx][1]) = 4
      BY <2>2, FrameFacts
    <2>4. CASE submits' = submits /\ Front.op = "wait" /\ ~Advance
      <3>1. \/ gpu' = "labelTest" /\ polling' = polling /\ ~polling
            \/ gpu' = "labelAsleep" /\ gpu = "labelTest" /\ polling' = polling
            \/ gpu' = "loop" /\ polling' = TRUE
        BY <1>5, <2>4, AdvancingForms
      <3>2. curr_qid = Gfx /\ UNCHANGED <<submits, curr_qid>> /\ Len(submits[Gfx][1]) = 4
        BY <2>1, <2>3, <2>4
      <3>3. submits[Gfx] # <<>> /\ submits[Gfx][1] # <<>>
        BY <2>2, <3>2
      <3>4. CASE gpu' = "labelTest" /\ polling' = polling /\ ~polling
        BY <1>2, <3>2, <3>3, <3>4 DEF GpuInv
      <3>5. CASE gpu' = "labelAsleep" /\ gpu = "labelTest" /\ polling' = polling
        BY <1>1, <1>2, <3>2, <3>3, <3>5 DEF GpuInv
      <3>6. CASE gpu' = "loop" /\ polling' = TRUE
        BY <1>2, <3>2, <3>3, <3>6 DEF GpuInv
      <3> QED
        BY <3>1, <3>4, <3>5, <3>6
    <2>5. CASE Advance
      <3>1. /\ gpu' = "packet" /\ submits'[curr_qid] # <<>>
            /\ curr_qid # Gfx => submits'[Gfx] = submits[Gfx]
        BY <1>1, <2>1, <2>5, AdvanceStep
      <3>2. /\ Front.op = "wait" => polling' = FALSE
            /\ Front.op # "wait" => polling' = polling
        BY <1>5, <2>5, AdvancingForms, <3>1 DEF PatchedFlip
      <3>3. polling' => polling /\ curr_qid # Gfx
        <4>1. CASE curr_qid = Gfx /\ polling
          <5>1. Len(submits[Gfx][1]) = 4
            BY <1>1, <4>1 DEF GpuInv
          <5>2. ~IsOther(submits[Gfx][1])
            BY <5>1 DEF IsOther
          <5>3. \E b \in Buffers : IsFrame(submits[Gfx][1], b)
            BY <1>1, <2>2, <4>1, <5>2, Queues DEF QueueInv
          <5>4. Front.op = "wait"
            BY <2>2, <4>1, <5>1, <5>3, FrameFacts
          <5> QED
            BY <3>2, <5>4
        <4> QED
          BY <3>2, <4>1
      <3>4. polling' \in BOOLEAN
        BY <1>2, <3>2
      <3> QED
        BY <1>1, <1>2, <2>1, <2>2, <3>1, <3>3, <3>4 DEF GpuInv
    <2> QED
      BY <1>5, <2>4, <2>5, AdvancingForms
  <1>6. CASE DrainCommand
    BY <1>1, <1>2, <1>6, DrainForms DEF GpuInv, gpuVars
  <1>7. CASE \/ ProcessWait \/ ProcessLoop \/ ProcessCeQueue \/ RoundTail \/ RoundFlush
             \/ IdleInterrupt
    <2>1. /\ gpu' \in {"loop", "asleep", "poll", "tail", "pick", "flush", "irq", "wait"}
          /\ UNCHANGED <<submits, polling>> /\ curr_qid' \in {-1, curr_qid}
      BY <1>7 DEF ProcessWait, ProcessLoop, ProcessCeQueue, RoundTail, RoundFlush, IdleInterrupt,
                  queueVars, gpuVars
    <2> QED
      BY <1>1, <1>2, <2>1 DEF GpuInv
  <1>8. CASE PollCommands
    BY <1>1, <1>2, <1>8 DEF PollCommands, GpuInv, queueVars, gpuVars
  <1>9. CASE PickQueue
    <2>1. UNCHANGED <<submits, polling>> /\ curr_qid' = (curr_qid + 1) % num_mapped_queues
      BY <1>9 DEF PickQueue, queueVars
    <2>2. curr_qid' \in {Gfx, Asc}
      <3>1. num_mapped_queues \in {1, 2} /\ curr_qid \in {-1, 0, 1}
        BY <1>1 DEF TypeOK, Gfx, Asc
      <3>2. \A c \in {-1, 0, 1}, n \in {1, 2} : (c + 1) % n \in {0, 1}
        OBVIOUS
      <3> QED
        BY <2>1, <3>1, <3>2 DEF Gfx, Asc
    <2>3. \/ gpu' = "loop"
          \/ gpu' = "exec" /\ curr_qid' = Gfx /\ polling
          \/ gpu' = "packet" /\ submits[curr_qid'] # <<>>
      BY <1>9 DEF PickQueue
    <2>4. \A s \in Seq(Packets) : Len(s) = 4 => s # <<>>
      OBVIOUS
    <2>5. polling => submits[Gfx] # <<>> /\ Len(submits[Gfx][1]) = 4 /\ submits[Gfx][1] # <<>>
      <3>1. polling => submits[Gfx] # <<>> /\ Len(submits[Gfx][1]) = 4
        BY <1>1 DEF GpuInv
      <3>2. submits[Gfx] # <<>> => submits[Gfx][1] \in Seq(Packets)
        BY <1>1, Queues
      <3> QED
        BY <2>4, <3>1, <3>2
    <2> QED
      BY <1>2, <2>1, <2>2, <2>3, <2>5 DEF GpuInv
  <1>10. CASE FinishBuffer
    <2>1. gpu' = "loop" /\ UNCHANGED <<curr_qid, polling>>
      BY <1>10 DEF FinishBuffer, gpuVars
    <2>2. /\ curr_qid \in {Gfx, Asc} /\ submits[curr_qid][1] = <<>>
          /\ curr_qid # Gfx => submits'[Gfx] = submits[Gfx]
      BY <1>10, FinishFacts
    <2>3. polling => curr_qid # Gfx
      BY <1>1, <2>2 DEF GpuInv
    <2> QED
      BY <1>1, <1>2, <2>1, <2>2, <2>3 DEF GpuInv
  <1> QED
    BY <1>3, <1>4, <1>5, <1>6, <1>7, <1>8, <1>9, <1>10 DEF Next, GpuStep, Advancing

-----------------------------------------------------------------------------
(* The order of the subscribers. *)

\* Only one thread has a registered frame, and only the two calls below change who it is.
LEMMA PendingForms ==
    ASSUME IndInv, Next
    PROVE  /\ \A g \in Threads :
                PatchFlipRequest(g) => ~Pending /\ Pending' /\ frames' = frames + 1
           /\ \A g \in Threads :
                SubmitGfx(g) => /\ ~Pending' /\ frames' = frames
                                /\ Pending <=> call[g] \in FrameKinds
           /\ (\A g \in Threads : ~PatchFlipRequest(g) /\ ~SubmitGfx(g))
                => (Pending' <=> Pending) /\ frames' = frames
  <1>1. TypeOK /\ LockInv
    BY DEF IndInv
  <1>2. \A g, h \in Threads : pc[g] \in Holding /\ pc[h] = "submit" => g = h
    BY <1>1 DEF LockInv, Holding
  <1>3. ASSUME NEW g \in Threads, PatchFlipRequest(g)
        PROVE  ~Pending /\ Pending' /\ frames' = frames + 1
    <2>1. /\ pc[g] = "register" /\ call[g] \in FrameKinds /\ call' = call
          /\ pc' = [pc EXCEPT ![g] = "submit"] /\ frames' = frames + 1
      BY <1>1, <1>3 DEF PatchFlipRequest, LockInv, Goto
    <2>2. pc'[g] = "submit"
      BY <1>1, <2>1 DEF TypeOK
    <2> QED
      BY <1>2, <2>1, <2>2 DEF Pending, Holding
  <1>4. ASSUME NEW g \in Threads, SubmitGfx(g)
        PROVE  ~Pending' /\ frames' = frames /\ (Pending <=> call[g] \in FrameKinds)
    <2>1. /\ pc[g] = "submit" /\ frames' = frames /\ pc'[g] # "submit"
          /\ \A h \in Threads \ {g} : pc'[h] = pc[h]
      BY <1>1, <1>4 DEF SubmitGfx, Goto, TypeOK
    <2> QED
      BY <1>2, <2>1 DEF Pending, Holding
  <1>5. ASSUME NEW g \in Threads, GuestStep(g) \/ \E kind \in CallKinds : Begin(g, kind),
               ~PatchFlipRequest(g), ~SubmitGfx(g)
        PROVE  (Pending' <=> Pending) /\ frames' = frames
    <2>1. frames' = frames /\ pc[g] # "submit" /\ (pc'[g] = "submit" => call'[g] \notin FrameKinds)
      <3> USE <1>1 DEF TypeOK, Goto
      <3>1. ASSUME NEW kind \in CallKinds, Begin(g, kind)
            PROVE  frames' = frames /\ pc[g] # "submit" /\ pc'[g] # "submit"
        BY <3>1 DEF Begin
      <3>2. CASE LockSubmit(g)
        BY <3>2 DEF LockSubmit
      <3>3. CASE WaitGpuIdle(g)
        <4>1. call[g] \in SubmitKinds /\ call' = call /\ frames' = frames /\ pc[g] = "gate"
          BY <3>3 DEF LockInv, WaitGpuIdle, Holding
        <4>2. call[g] \in FrameKinds => pc'[g] = "register"
          BY <3>3 DEF WaitGpuIdle, FrameKinds
        <4> QED
          BY <4>1, <4>2
      <3>4. CASE PushAsc(g) \/ CountAsc(g)
        BY <3>4 DEF PushAsc, CountAsc
      <3>5. CASE CheckIdle(g)
        <4>1. pc'[g] \in {"finish", "raise"} /\ frames' = frames /\ pc[g] = "check"
          BY <3>5 DEF CheckIdle
        <4> QED
          BY <4>1
      <3>6. CASE RaiseLock(g) \/ SubmitDone(g)
        BY <3>6 DEF RaiseLock, SubmitDone
      <3>7. CASE SubmitFlip(g)
        BY <3>7 DEF SubmitFlip
      <3>8. CASE SendCommand(g) \/ SendCommandAndWait(g)
        BY <3>8 DEF SendCommand, SendCommandAndWait, Send
      <3> QED
        BY <1>5, <3>1, <3>2, <3>3, <3>4, <3>5, <3>6, <3>7, <3>8 DEF GuestStep
    <2>2. \A h \in Threads \ {g} : pc'[h] = pc[h] /\ call'[h] = call[h]
      BY <1>5, GuestMoves
    <2> QED
      BY <2>1, <2>2 DEF Pending
  <1>6. CASE (GpuStep \/ PresentStep) /\ \A g \in Threads : ~PatchFlipRequest(g) /\ ~SubmitGfx(g)
    <2>1. call' = call /\ frames' = frames
      BY <1>6, GuestAlone
    <2>2. \A g \in Threads : pc'[g] = "submit" <=> pc[g] = "submit"
      BY <1>1, <1>6, GuestAlone, DrainForms DEF TypeOK
    <2> QED
      BY <1>6, <2>1, <2>2 DEF Pending
  <1> QED
    BY <1>3, <1>4, <1>5, <1>6 DEF Next

\* The places of the frames hold on while the queue keeps its frames.
LEMMA SameFrames ==
    ASSUME TypeOK, SubscribersInv, subscribers' = subscribers, Pending' <=> Pending,
           frames' = frames, Len(submits'[Gfx]) = Len(submits[Gfx]),
           \A i \in 1 .. Len(submits[Gfx]), b \in Buffers :
                IsFrame(submits'[Gfx][i], b) <=> IsFrame(submits[Gfx][i], b)
    PROVE  SubscribersInv'
  <1>1. PICK pos \in [1 .. Len(subscribers) -> Nat] : Matches(pos)
    BY DEF SubscribersInv
  <1>2. \A k \in 1 .. Len(subscribers) : subscribers[k] \in Buffers
    BY DEF TypeOK
  <1>3. Matches(pos)'
    BY <1>1, <1>2 DEF Matches
  <1> QED
    BY <1>1, <1>3 DEF SubscribersInv

LEMMA RegisterStep ==
    ASSUME IndInv, Next, NEW g \in Threads, PatchFlipRequest(g)
    PROVE  SubscribersInv'
  <1> DEFINE n == Len(subscribers)
             m == Len(submits[Gfx])
             b0 == frames % NumBuffers
  <1>1. TypeOK /\ SubscribersInv
    BY DEF IndInv
  <1>2. ~Pending /\ Pending' /\ frames' = frames + 1
    BY PendingForms
  <1>3. b0 \in Buffers /\ frames \in Nat /\ (frames' - 1) % NumBuffers = b0
    <2>1. frames \in Nat
      BY <1>1 DEF TypeOK
    <2>2. frames' - 1 = frames
      BY <1>2, <2>1
    <2> QED
      BY <2>1, <2>2, BufferOf
  <1>4. subscribers' = Append(subscribers, b0) /\ submits' = submits
    BY DEF PatchFlipRequest, queueVars
  <1> HIDE DEF b0
  <1>5. /\ n \in Nat /\ Len(subscribers') = n + 1 /\ subscribers'[n + 1] = b0
        /\ \A k \in 1 .. n : subscribers'[k] = subscribers[k]
    BY <1>1, <1>3, <1>4, AppendFacts DEF TypeOK
  <1>6. m \in Nat
    BY <1>1, Queues
  <1>7. PICK pos \in [1 .. n -> Nat] : Matches(pos)
    BY <1>1 DEF SubscribersInv
  <1> HIDE DEF n, m
  <1>8. /\ \A k, l \in 1 .. n : k < l => pos[k] < pos[l]
        /\ \A k \in 1 .. n : pos[k] \in 1 .. m /\ IsFrame(submits[Gfx][pos[k]], subscribers[k])
        /\ \A i \in 1 .. m, b \in Buffers :
                IsFrame(submits[Gfx][i], b) => \E k \in 1 .. n : pos[k] = i
    BY <1>2, <1>7 DEF Matches, n, m
  <1>9. \A k \in 1 .. n + 1 : k \in 1 .. n \/ k = n + 1
    BY <1>5
  <1>10. PICK pos2 \in [1 .. n + 1 -> Nat] :
            /\ n + 1 \in 1 .. n + 1 /\ pos2[n + 1] = m + 1
            /\ \A k \in 1 .. n : k \in 1 .. n + 1 /\ pos2[k] = pos[k]
    <2> DEFINE f == [k \in 1 .. n + 1 |-> IF k = n + 1 THEN m + 1 ELSE pos[k]]
    <2>1. /\ f \in [1 .. n + 1 -> Nat]
          /\ n + 1 \in 1 .. n + 1 /\ f[n + 1] = m + 1
          /\ \A k \in 1 .. n : k \in 1 .. n + 1 /\ f[k] = pos[k]
      BY <1>5, <1>6, <1>7, <1>9
    <2> QED
      BY <2>1
  <1>11. \A k, l \in 1 .. n + 1 : k < l => pos2[k] < pos2[l]
    <2>1. ASSUME NEW k \in 1 .. n + 1, NEW l \in 1 .. n + 1, k < l PROVE pos2[k] < pos2[l]
      <3>1. k \in 1 .. n
        BY <1>5, <2>1
      <3>2. CASE l = n + 1
        <4>1. pos[k] \in 1 .. m
          BY <1>8, <3>1
        <4> QED
          BY <1>6, <1>10, <3>1, <3>2, <4>1
      <3>3. CASE l \in 1 .. n
        BY <1>8, <1>10, <2>1, <3>1, <3>3
      <3> QED
        BY <1>9, <3>2, <3>3
    <2> QED
      BY <2>1
  <1>12. \A k \in 1 .. n + 1 :
            \/ pos2[k] \in 1 .. m /\ IsFrame(submits[Gfx][pos2[k]], subscribers'[k])
            \/ pos2[k] = m + 1 /\ subscribers'[k] = (frames' - 1) % NumBuffers
    BY <1>3, <1>5, <1>8, <1>9, <1>10
  <1>13. Matches(pos2)'
    BY <1>2, <1>4, <1>5, <1>8, <1>10, <1>11, <1>12 DEF Matches, m
  <1> QED
    BY <1>5, <1>10, <1>13 DEF SubscribersInv

LEMMA SubmitStep ==
    ASSUME IndInv, Next, NEW g \in Threads, SubmitGfx(g)
    PROVE  SubscribersInv'
  <1> DEFINE n == Len(subscribers)
             m == Len(submits[Gfx])
  <1>1. TypeOK /\ SubscribersInv
    BY DEF IndInv
  <1>2. ~Pending' /\ frames' = frames /\ (Pending <=> call[g] \in FrameKinds)
    BY PendingForms
  <1>3. PICK buf \in Seq(Packets) :
            /\ submits'[Gfx] = Append(submits[Gfx], buf)
            /\ call[g] \in FrameKinds => IsFrame(buf, (frames - 1) % NumBuffers)
            /\ call[g] \notin FrameKinds => IsOther(buf)
    BY SubmitFacts
  <1>4. subscribers' = subscribers
    BY DEF SubmitGfx
  <1>5. /\ m \in Nat /\ Len(submits'[Gfx]) = m + 1 /\ submits'[Gfx][m + 1] = buf
        /\ \A i \in 1 .. m : submits'[Gfx][i] = submits[Gfx][i]
    BY <1>1, <1>3, Queues, AppendFacts
  <1>6. PICK pos \in [1 .. n -> Nat] : Matches(pos)
    BY <1>1 DEF SubscribersInv
  <1> HIDE DEF n, m
  <1>7. /\ \A k, l \in 1 .. n : k < l => pos[k] < pos[l]
        /\ \A k \in 1 .. n :
             \/ pos[k] \in 1 .. m /\ IsFrame(submits[Gfx][pos[k]], subscribers[k])
             \/ pos[k] = m + 1 /\ Pending /\ subscribers[k] = (frames - 1) % NumBuffers
        /\ \A i \in 1 .. m, b \in Buffers :
             IsFrame(submits[Gfx][i], b) => \E k \in 1 .. n : pos[k] = i
        /\ Pending => \E k \in 1 .. n : pos[k] = m + 1
    BY <1>6 DEF Matches, n, m
  <1>8. \A i \in 1 .. m + 1 : i \in 1 .. m \/ i = m + 1
    BY <1>5
  <1>9. \A i \in 1 .. m : i \in 1 .. m + 1
    BY <1>5
  <1>10. m + 1 \in 1 .. m + 1
    BY <1>5
  <1>11. \A k \in 1 .. n : pos[k] \in 1 .. m + 1 /\ IsFrame(submits'[Gfx][pos[k]], subscribers[k])
    BY <1>2, <1>3, <1>5, <1>7, <1>9, <1>10
  <1>12. ASSUME NEW i \in 1 .. m + 1, NEW b \in Buffers, IsFrame(submits'[Gfx][i], b)
         PROVE  \E k \in 1 .. n : pos[k] = i
    <2>1. CASE i \in 1 .. m
      BY <1>5, <1>7, <1>12, <2>1
    <2>2. CASE i = m + 1
      <3>1. ~IsOther(buf)
        BY <1>5, <1>12, <2>2, FrameFacts
      <3> QED
        BY <1>2, <1>3, <1>7, <2>2, <3>1
    <2> QED
      BY <1>8, <2>1, <2>2
  <1>13. Matches(pos)'
    BY <1>2, <1>4, <1>5, <1>7, <1>11, <1>12 DEF Matches, n
  <1> QED
    BY <1>4, <1>6, <1>13 DEF SubscribersInv, n

\* The frame at the front of the queue is the one whose subscriber is the oldest.
LEMMA FirstSubscriber ==
    ASSUME TypeOK, NEW pos \in [1 .. Len(subscribers) -> Nat], Matches(pos), NEW b \in Buffers,
           submits[Gfx] # <<>>, IsFrame(submits[Gfx][1], b)
    PROVE  /\ subscribers # <<>> /\ Head(subscribers) = b /\ pos[1] = 1
           /\ \A k \in 2 .. Len(subscribers) : pos[k] > 1
  <1> DEFINE n == Len(subscribers)
             s == submits[Gfx]
  <1>1. /\ n \in Nat /\ subscribers \in Seq(Buffers)
        /\ s[1] \in Seq(Packets) /\ 1 \in 1 .. Len(s) /\ Len(s) \in Nat /\ Len(s) > 0
    BY Queues DEF TypeOK
  <1>2. PICK k \in 1 .. n : pos[k] = 1
    BY <1>1 DEF Matches
  <1>3. \A l \in 1 .. n : pos[l] \in Nat /\ pos[l] >= 1
    BY <1>1 DEF Matches
  <1>4. \A l, j \in 1 .. n : l < j => pos[l] < pos[j]
    BY DEF Matches
  <1>5. 1 \in 1 .. n
    BY <1>1, <1>2
  <1>6. k = 1
    <2>1. CASE k > 1
      <3>1. pos[1] < pos[k]
        BY <1>4, <1>5, <2>1
      <3> QED
        BY <1>2, <1>3, <1>5, <3>1
    <2>2. k >= 1
      BY <1>1, <1>2
    <2> QED
      BY <1>1, <1>2, <2>1, <2>2
  <1>7. \A l \in 2 .. n : pos[l] > 1
    <2>1. \A l \in 2 .. n : l \in 1 .. n /\ 1 < l
      BY <1>1
    <2> QED
      BY <1>2, <1>4, <1>5, <1>6, <2>1
  <1>8. IsFrame(s[1], subscribers[1])
    <2>1. \/ pos[1] \in 1 .. Len(s) /\ IsFrame(s[pos[1]], subscribers[1])
          \/ pos[1] = Len(s) + 1
      BY <1>5 DEF Matches
    <2> QED
      BY <1>1, <1>2, <1>6, <2>1
  <1>9. subscribers # <<>> /\ Head(subscribers) = subscribers[1] /\ subscribers[1] \in Buffers
    BY <1>1, <1>5
  <1>10. subscribers[1] = b
    BY <1>1, <1>8, <1>9, FrameFacts
  <1> QED
    BY <1>2, <1>6, <1>7, <1>9, <1>10

LEMMA FlipStep ==
    ASSUME IndInv, Next, PatchedFlip
    PROVE  SubscribersInv'
  <1> DEFINE n == Len(subscribers)
             s == submits[Gfx]
             t == submits'[Gfx]
             m == Len(s)
  <1>1. TypeOK /\ SubscribersInv /\ QueueInv /\ GpuInv
    BY DEF IndInv
  <1>2. gpu = "exec" /\ Front.op = "flip" /\ Advance /\ subscribers' = Tail(subscribers)
    BY DEF PatchedFlip
  <1>3. /\ curr_qid = Gfx /\ s # <<>> /\ Front.buffer \in Buffers /\ IsFrame(s[1], Front.buffer)
    BY <1>1, <1>2, ServedFront
  <1>4. PICK pos \in [1 .. n -> Nat] : Matches(pos)
    BY <1>1 DEF SubscribersInv
  <1>5. /\ subscribers # <<>> /\ Head(subscribers) = Front.buffer /\ pos[1] = 1
        /\ \A k \in 2 .. n : pos[k] > 1
    BY <1>1, <1>3, <1>4, FirstSubscriber
  <1>6. /\ Len(t) = m
        /\ \A i \in 1 .. m, b \in Buffers : IsFrame(t[i], b) <=> IsFrame(s[i], b) /\ i # 1
    BY <1>1, <1>2, <1>3, AdvanceStep
  <1>7. /\ n \in Nat /\ n > 0 /\ Len(subscribers') = n - 1
        /\ \A k \in 1 .. n - 1 : subscribers'[k] = subscribers[k + 1]
        /\ \A k \in 1 .. n - 1 : k + 1 \in 2 .. n /\ k + 1 \in 1 .. n
        /\ \A k \in 1 .. n : subscribers[k] \in Buffers
    BY <1>1, <1>2, <1>5, PopFacts DEF TypeOK
  <1>8. (Pending' <=> Pending) /\ frames' = frames
    <2>1. \A g \in Threads : pc'[g] = pc[g] /\ call'[g] = call[g]
      BY DEF PatchedFlip, ExecUnchanged, guestVars
    <2>2. frames' = frames
      BY DEF PatchedFlip, ExecUnchanged, guestVars
    <2> QED
      BY <2>1, <2>2 DEF Pending
  <1>9. m \in Nat /\ m > 0
    BY <1>1, <1>3, Queues
  <1>10. /\ \A k, l \in 1 .. n : k < l => pos[k] < pos[l]
         /\ \A k \in 1 .. n :
              \/ pos[k] \in 1 .. m /\ IsFrame(s[pos[k]], subscribers[k])
              \/ pos[k] = m + 1 /\ Pending /\ subscribers[k] = (frames - 1) % NumBuffers
         /\ \A i \in 1 .. m, b \in Buffers : IsFrame(s[i], b) => \E k \in 1 .. n : pos[k] = i
         /\ Pending => \E k \in 1 .. n : pos[k] = m + 1
    BY <1>4 DEF Matches
  <1> HIDE DEF n, m, s, t
  <1>11. PICK pos2 \in [1 .. n - 1 -> Nat] : \A k \in 1 .. n - 1 : pos2[k] = pos[k + 1]
    <2> DEFINE f == [k \in 1 .. n - 1 |-> pos[k + 1]]
    <2>1. f \in [1 .. n - 1 -> Nat]
      BY <1>4, <1>7
    <2> QED
      BY <2>1
  <1>12. \A k, l \in 1 .. n - 1 : k < l => pos2[k] < pos2[l]
    <2>1. \A k, l \in 1 .. n - 1 : k < l => k + 1 < l + 1
      BY <1>7
    <2> QED
      BY <1>7, <1>10, <1>11, <2>1
  <1>13. ASSUME NEW k \in 1 .. n - 1
         PROVE  \/ pos2[k] \in 1 .. m /\ IsFrame(t[pos2[k]], subscribers'[k])
                \/ pos2[k] = m + 1 /\ Pending /\ subscribers'[k] = (frames - 1) % NumBuffers
    <2>1. pos2[k] = pos[k + 1] /\ pos2[k] > 1 /\ k + 1 \in 1 .. n
      BY <1>5, <1>7, <1>11
    <2>2. subscribers'[k] = subscribers[k + 1] /\ subscribers[k + 1] \in Buffers
      BY <1>7
    <2>3. pos2[k] # 1
      BY <1>4, <2>1
    <2> QED
      BY <1>6, <1>10, <2>1, <2>2, <2>3
  <1>14. \A k \in 1 .. n : k = 1 \/ (k - 1 \in 1 .. n - 1 /\ pos2[k - 1] = pos[k])
    <2>1. \A k \in 1 .. n : k = 1 \/ (k - 1 \in 1 .. n - 1 /\ (k - 1) + 1 = k)
      BY <1>7
    <2> QED
      BY <1>11, <2>1
  <1>15. ASSUME NEW i \in 1 .. m, NEW b \in Buffers, IsFrame(t[i], b)
         PROVE  \E k \in 1 .. n - 1 : pos2[k] = i
    <2>1. IsFrame(s[i], b) /\ i # 1
      BY <1>6, <1>15
    <2>2. PICK k \in 1 .. n : pos[k] = i
      BY <1>10, <2>1
    <2> QED
      BY <1>5, <1>14, <2>1, <2>2
  <1>16. Pending => \E k \in 1 .. n - 1 : pos2[k] = m + 1
    <2>1. ASSUME Pending PROVE \E k \in 1 .. n - 1 : pos2[k] = m + 1
      <3>1. PICK k \in 1 .. n : pos[k] = m + 1
        BY <1>10, <2>1
      <3>2. m + 1 # 1
        BY <1>9
      <3> QED
        BY <1>5, <1>14, <3>1, <3>2
    <2> QED
      BY <2>1
  <1>17. Matches(pos2)'
    BY <1>6, <1>7, <1>8, <1>12, <1>13, <1>15, <1>16 DEF Matches, t
  <1> QED
    BY <1>7, <1>11, <1>17 DEF SubscribersInv

LEMMA PopStep ==
    ASSUME IndInv, Next, FinishBuffer, curr_qid = Gfx
    PROVE  SubscribersInv'
  <1> DEFINE n == Len(subscribers)
             s == submits[Gfx]
             t == submits'[Gfx]
             m == Len(s)
  <1>1. TypeOK /\ SubscribersInv
    BY DEF IndInv
  <1>2. s # <<>> /\ s[1] = <<>> /\ t = Tail(s) /\ s \in Seq(Seq(Packets))
    BY <1>1, FinishFacts, Queues
  <1>3. /\ m \in Nat /\ m > 0 /\ Len(t) = m - 1
        /\ \A i \in 1 .. m - 1 : t[i] = s[i + 1] /\ i + 1 \in 2 .. m
        /\ \A i \in 2 .. m : i - 1 \in 1 .. m - 1 /\ t[i - 1] = s[i]
    <2>1. /\ m \in Nat /\ m > 0 /\ Len(t) = m - 1
          /\ \A i \in 1 .. Len(t) : t[i] = s[i + 1] /\ i + 1 \in 2 .. m
          /\ \A i \in 2 .. m : i - 1 \in 1 .. Len(t) /\ t[i - 1] = s[i]
      <3> HIDE DEF s, t
      <3> QED
        BY <1>2, PopFacts
    <2> HIDE DEF s, t, m
    <2> QED
      BY <2>1
  <1>4. n \in Nat /\ \A k \in 1 .. n : subscribers[k] \in Buffers
    BY <1>1 DEF TypeOK
  <1>5. PICK pos \in [1 .. n -> Nat] : Matches(pos)
    BY <1>1 DEF SubscribersInv
  <1>6. (Pending' <=> Pending) /\ frames' = frames /\ subscribers' = subscribers
    <2>1. /\ \A g \in Threads : pc'[g] = pc[g] /\ call'[g] = call[g]
          /\ frames' = frames /\ subscribers' = subscribers
      BY DEF FinishBuffer, guestVars
    <2> QED
      BY <2>1 DEF Pending
  <1>7. /\ \A k, l \in 1 .. n : k < l => pos[k] < pos[l]
        /\ \A k \in 1 .. n :
              \/ pos[k] \in 1 .. m /\ IsFrame(s[pos[k]], subscribers[k])
              \/ pos[k] = m + 1 /\ Pending /\ subscribers[k] = (frames - 1) % NumBuffers
        /\ \A i \in 1 .. m, b \in Buffers : IsFrame(s[i], b) => \E k \in 1 .. n : pos[k] = i
        /\ Pending => \E k \in 1 .. n : pos[k] = m + 1
    BY <1>5 DEF Matches
  <1>8. \A b \in Buffers : ~IsFrame(s[1], b)
    <2>1. <<>> \in Seq(Packets)
      OBVIOUS
    <2> QED
      BY <1>2, <2>1, FrameFacts
  <1> HIDE DEF n, m, s, t
  <1>9. \A k \in 1 .. n : pos[k] \in 2 .. m + 1
    <2>1. ASSUME NEW k \in 1 .. n PROVE pos[k] \in 2 .. m + 1
      <3>1. CASE pos[k] = m + 1
        BY <1>3, <3>1
      <3>2. CASE pos[k] \in 1 .. m /\ IsFrame(s[pos[k]], subscribers[k])
        <4>1. pos[k] # 1
          BY <1>4, <1>8, <3>2
        <4> QED
          BY <1>3, <3>2, <4>1
      <3> QED
        BY <1>7, <3>1, <3>2
    <2> QED
      BY <2>1
  <1>10. PICK pos2 \in [1 .. n -> Nat] : \A k \in 1 .. n : pos2[k] = pos[k] - 1
    <2> DEFINE f == [k \in 1 .. n |-> pos[k] - 1]
    <2>1. \A k \in 1 .. n : pos[k] - 1 \in Nat
      BY <1>3, <1>9
    <2>2. f \in [1 .. n -> Nat]
      BY <2>1
    <2> QED
      BY <2>2
  <1>11. \A k, l \in 1 .. n : k < l => pos2[k] < pos2[l]
    BY <1>5, <1>7, <1>10
  <1>12. ASSUME NEW k \in 1 .. n
         PROVE  \/ pos2[k] \in 1 .. m - 1 /\ IsFrame(t[pos2[k]], subscribers[k])
                \/ pos2[k] = (m - 1) + 1 /\ Pending /\ subscribers[k] = (frames - 1) % NumBuffers
    <2>1. CASE pos[k] = m + 1 /\ Pending /\ subscribers[k] = (frames - 1) % NumBuffers
      BY <1>3, <1>10, <2>1
    <2>2. CASE pos[k] \in 1 .. m /\ IsFrame(s[pos[k]], subscribers[k])
      <3>1. pos[k] \in 2 .. m
        BY <1>3, <1>9, <2>2
      <3> QED
        BY <1>3, <1>10, <2>2, <3>1
    <2> QED
      BY <1>7, <2>1, <2>2
  <1>13. ASSUME NEW i \in 1 .. m - 1, NEW b \in Buffers, IsFrame(t[i], b)
         PROVE  \E k \in 1 .. n : pos2[k] = i
    <2>1. IsFrame(s[i + 1], b) /\ i + 1 \in 1 .. m
      BY <1>3, <1>13
    <2>2. PICK k \in 1 .. n : pos[k] = i + 1
      BY <1>7, <2>1
    <2>3. pos2[k] = i
      BY <1>10, <2>2
    <2> QED
      BY <2>3
  <1>14. Pending => \E k \in 1 .. n : pos2[k] = (m - 1) + 1
    <2>1. \A k \in 1 .. n : pos[k] = m + 1 => pos2[k] = (m - 1) + 1
      BY <1>3, <1>10
    <2> QED
      BY <1>7, <2>1
  <1>15. Matches(pos2)'
    BY <1>3, <1>6, <1>11, <1>12, <1>13, <1>14 DEF Matches, t, n
  <1> QED
    BY <1>6, <1>10, <1>15 DEF SubscribersInv, n

LEMMA SubscribersForms ==
    ASSUME IndInv, Next
    PROVE  subscribers' = subscribers \/ PatchedFlip \/ \E g \in Threads : PatchFlipRequest(g)
  <1>1. ASSUME NEW g \in Threads, GuestStep(g) \/ \E kind \in CallKinds : Begin(g, kind)
        PROVE  subscribers' = subscribers \/ PatchFlipRequest(g)
    <2>1. CASE \E kind \in CallKinds : Begin(g, kind)
      BY <2>1 DEF Begin
    <2>2. CASE LockSubmit(g) \/ WaitGpuIdle(g) \/ SubmitGfx(g) \/ SubmitFlip(g)
      BY <2>2 DEF LockSubmit, WaitGpuIdle, SubmitGfx, SubmitFlip
    <2>3. CASE PushAsc(g) \/ CountAsc(g) \/ CheckIdle(g) \/ RaiseLock(g) \/ SubmitDone(g)
      BY <2>3 DEF PushAsc, CountAsc, CheckIdle, RaiseLock, SubmitDone
    <2>4. CASE SendCommand(g) \/ SendCommandAndWait(g)
      BY <2>4 DEF SendCommand, SendCommandAndWait, Send
    <2> QED
      BY <1>1, <2>1, <2>2, <2>3, <2>4 DEF GuestStep
  <1>2. CASE PresentStep
    BY <1>2 DEF PresentStep
  <1>3. CASE Advancing
    BY <1>3, AdvancingForms
  <1>4. CASE ProcessWait \/ ProcessLoop \/ ProcessCeQueue \/ PickQueue \/ PollCommands \/ DrainCommand
    BY <1>4 DEF ProcessWait, ProcessLoop, ProcessCeQueue, PickQueue, PollCommands, DrainCommand
  <1>5. CASE FinishBuffer \/ RoundTail \/ RoundFlush \/ IdleInterrupt
    BY <1>5 DEF FinishBuffer, RoundTail, RoundFlush, IdleInterrupt
  <1> QED
    BY <1>1, <1>2, <1>3, <1>4, <1>5 DEF Next, GpuStep, Advancing

LEMMA SubscribersStep ==
    ASSUME IndInv, Next
    PROVE  SubscribersInv' /\ subscribers' \in Seq(Buffers)
  <1>1. TypeOK /\ SubscribersInv /\ QueueInv /\ GpuInv
    BY DEF IndInv
  <1>2. subscribers' \in Seq(Buffers)
    <2>1. ASSUME NEW g \in Threads, PatchFlipRequest(g) PROVE subscribers' \in Seq(Buffers)
      <3>1. frames % NumBuffers \in Buffers
        BY <1>1, BufferOf DEF TypeOK
      <3> QED
        BY <1>1, <2>1, <3>1, AppendFacts DEF PatchFlipRequest, TypeOK
    <2>2. CASE PatchedFlip
      <3>1. subscribers # <<>>
        <4>1. PICK pos \in [1 .. Len(subscribers) -> Nat] : Matches(pos)
          BY <1>1 DEF SubscribersInv
        <4>2. submits[Gfx] # <<>> /\ Front.buffer \in Buffers /\ IsFrame(submits[Gfx][1], Front.buffer)
          BY <1>1, <2>2, ServedFront DEF PatchedFlip
        <4> QED
          BY <1>1, <4>1, <4>2, FirstSubscriber
      <3> QED
        BY <1>1, <2>2, <3>1, PopFacts DEF PatchedFlip, TypeOK
    <2> QED
      BY <1>1, <2>1, <2>2, SubscribersForms DEF TypeOK
  <1>3. CASE (\E g \in Threads : PatchFlipRequest(g) \/ SubmitGfx(g)) \/ PatchedFlip
             \/ (FinishBuffer /\ curr_qid = Gfx)
    BY <1>2, <1>3, RegisterStep, SubmitStep, FlipStep, PopStep
  <1>4. CASE /\ \A g \in Threads : ~PatchFlipRequest(g) /\ ~SubmitGfx(g)
             /\ ~PatchedFlip /\ (FinishBuffer => curr_qid # Gfx)
    <2>1. subscribers' = subscribers /\ (Pending' <=> Pending) /\ frames' = frames
      BY <1>4, SubscribersForms, PendingForms
    <2>2. /\ Len(submits'[Gfx]) = Len(submits[Gfx])
          /\ \A i \in 1 .. Len(submits[Gfx]), b \in Buffers :
                IsFrame(submits'[Gfx][i], b) <=> IsFrame(submits[Gfx][i], b)
      <3>1. CASE submits'[Gfx] = submits[Gfx]
        BY <3>1
      <3>2. CASE Advancing /\ Advance
        BY <1>1, <1>4, <3>2, AdvancingForms, AdvanceStep
      <3>3. CASE FinishBuffer
        BY <1>4, <3>1, <3>3, FinishFacts
      <3>4. CASE \E g \in Threads : PushAsc(g)
        BY <3>1, <3>4, PushFacts
      <3> QED
        BY <1>4, <3>1, <3>2, <3>3, <3>4, SubmitsForms
    <2> QED
      BY <1>1, <1>2, <2>1, <2>2, SameFrames
  <1> QED
    BY <1>2, <1>3, <1>4

-----------------------------------------------------------------------------
(* The labels. *)

\* Only the end of a packet brings the front of the queue nearer to its flip.
LEMMA FrontForms ==
    ASSUME IndInv, Next, ~(Advancing /\ Advance), NEW b \in Buffers, NEW n \in 1 .. 3
    PROVE  FrontFrame(b, n)' => FrontFrame(b, n)
  <1>1. TypeOK /\ QueueInv
    BY DEF IndInv
  <1>2. CASE submits'[Gfx] = submits[Gfx]
    BY <1>2 DEF FrontFrame
  <1>3. ASSUME NEW g \in Threads, SubmitGfx(g)
        PROVE  FrontFrame(b, n)' => FrontFrame(b, n)
    <2>1. PICK buf \in Seq(Packets) : /\ submits'[Gfx] = Append(submits[Gfx], buf)
                                      /\ Len(buf) = 4 \/ IsOther(buf)
      BY <1>3, SubmitFacts
    <2>2. ~(IsFrame(buf, b) /\ Len(buf) = n)
      <3>1. IsFrame(buf, b) => ~IsOther(buf)
        BY FrameFacts
      <3>2. n # 4
        OBVIOUS
      <3> QED
        BY <2>1, <3>1, <3>2
    <2>3. submits[Gfx] \in Seq(Seq(Packets))
      BY <1>1, Queues
    <2>4. ASSUME NEW T, NEW s \in Seq(T), NEW x \in T
          PROVE  Append(s, x)[1] = IF s = <<>> THEN x ELSE s[1]
      OBVIOUS
    <2>5. submits'[Gfx][1] = IF submits[Gfx] = <<>> THEN buf ELSE submits[Gfx][1]
      BY <2>1, <2>3, <2>4
    <2> QED
      BY <2>2, <2>5 DEF FrontFrame
  <1>4. CASE FinishBuffer /\ curr_qid = Gfx
    <2> DEFINE s == submits[Gfx]
               t == submits'[Gfx]
    <2>1. s # <<>> /\ t = Tail(s) /\ s \in Seq(Seq(Packets)) /\ t \in Seq(Seq(Packets))
      BY <1>1, <1>4, FinishFacts, Queues, PopFacts
    <2>2. t # <<>> => 2 \in 2 .. Len(s) /\ t[1] = s[2]
      BY <2>1
    <2>3. t # <<>> /\ IsFrame(t[1], b) => Len(t[1]) = 4
      BY <1>1, <2>2 DEF QueueInv
    <2> QED
      BY <2>3 DEF FrontFrame
  <1>5. CASE FinishBuffer /\ curr_qid # Gfx
    BY <1>2, <1>5, FinishFacts
  <1>6. CASE \E g \in Threads : PushAsc(g)
    BY <1>2, <1>6, PushFacts
  <1> QED
    BY <1>2, <1>3, <1>4, <1>5, <1>6, SubmitsForms

LEMMA VideoForms ==
    ASSUME IndInv, Next
    PROVE  \/ UNCHANGED <<portVars, requests>>
           \/ (Advancing /\ Advance) \/ DrainCommand \/ PresentStep
  <1> USE DEF videoVars
  <1>1. ASSUME NEW g \in Threads, GuestStep(g) \/ \E kind \in CallKinds : Begin(g, kind)
        PROVE  UNCHANGED <<portVars, requests>>
    <2>1. CASE \E kind \in CallKinds : Begin(g, kind)
      BY <2>1 DEF Begin
    <2>2. CASE LockSubmit(g) \/ WaitGpuIdle(g) \/ PatchFlipRequest(g) \/ SubmitGfx(g)
      BY <2>2 DEF LockSubmit, WaitGpuIdle, PatchFlipRequest, SubmitGfx
    <2>3. CASE PushAsc(g) \/ CountAsc(g) \/ CheckIdle(g) \/ RaiseLock(g) \/ SubmitDone(g)
      BY <2>3 DEF PushAsc, CountAsc, CheckIdle, RaiseLock, SubmitDone
    <2>4. CASE SubmitFlip(g) \/ SendCommand(g) \/ SendCommandAndWait(g)
      BY <2>4 DEF SubmitFlip, SendCommand, SendCommandAndWait, Send
    <2> QED
      BY <1>1, <2>1, <2>2, <2>3, <2>4 DEF GuestStep
  <1>2. CASE Advancing
    BY <1>2, AdvancingForms
  <1>3. CASE ProcessWait \/ ProcessLoop \/ ProcessCeQueue \/ PickQueue \/ PollCommands
    BY <1>3 DEF ProcessWait, ProcessLoop, ProcessCeQueue, PickQueue, PollCommands
  <1>4. CASE FinishBuffer \/ RoundTail \/ RoundFlush \/ IdleInterrupt
    BY <1>4 DEF FinishBuffer, RoundTail, RoundFlush, IdleInterrupt
  <1> QED
    BY <1>1, <1>2, <1>3, <1>4 DEF Next, GpuStep, Advancing

\* A queue of requests after one more, and after the first is taken.
LEMMA RequestAppended ==
    ASSUME NEW r \in Requests, requests \in Seq(Requests), requests' = Append(requests, r)
    PROVE  /\ \A b \in Buffers : Queued(b)' <=> Queued(b) \/ r = [index |-> b, eop |-> TRUE]
           /\ requests' \in Seq(Requests)
           /\ (r.eop => ~Queued(r.index))
              /\ (\A i, j \in 1 .. Len(requests) :
                    requests[i].eop /\ requests[i] = requests[j] => i = j)
              => \A i, j \in 1 .. Len(requests') :
                    requests'[i].eop /\ requests'[i] = requests'[j] => i = j
  <1> DEFINE n == Len(requests)
  <1>1. /\ n \in Nat /\ Len(requests') = n + 1 /\ requests'[n + 1] = r
        /\ requests' \in Seq(Requests)
        /\ \A i \in 1 .. n : requests'[i] = requests[i] /\ requests[i] \in Requests
    BY AppendFacts
  <1>2. \A i \in 1 .. n + 1 : i \in 1 .. n \/ i = n + 1
    BY <1>1
  <1>3. n + 1 \in 1 .. n + 1 /\ \A i \in 1 .. n : i \in 1 .. n + 1
    BY <1>1
  <1>4. r.eop => r = [index |-> r.index, eop |-> TRUE]
    BY DEF Requests
  <1> HIDE DEF n
  <1>5. \A b \in Buffers : Queued(b)' <=> Queued(b) \/ r = [index |-> b, eop |-> TRUE]
    BY <1>1, <1>2, <1>3 DEF Queued, n
  <1>6. ASSUME r.eop => ~Queued(r.index),
               \A i, j \in 1 .. n : requests[i].eop /\ requests[i] = requests[j] => i = j,
               NEW i \in 1 .. n + 1, NEW j \in 1 .. n + 1,
               requests'[i].eop, requests'[i] = requests'[j]
        PROVE  i = j
    <2>1. \A k \in 1 .. n : r.eop => requests[k] # r
      BY <1>4, <1>6 DEF Queued, n
    <2> QED
      BY <1>1, <1>2, <1>6, <2>1
  <1> QED
    BY <1>1, <1>5, <1>6 DEF n

LEMMA RequestTaken ==
    ASSUME requests \in Seq(Requests), requests # <<>>, requests' = Tail(requests)
    PROVE  /\ Head(requests) \in Requests /\ requests' \in Seq(Requests)
           /\ \A b \in Buffers : Queued(b)' => Queued(b)
           /\ \A b \in Buffers : Head(requests) = [index |-> b, eop |-> TRUE] => Queued(b)
           /\ (\A i, j \in 1 .. Len(requests) :
                    requests[i].eop /\ requests[i] = requests[j] => i = j)
              => /\ \A i, j \in 1 .. Len(requests') :
                        requests'[i].eop /\ requests'[i] = requests'[j] => i = j
                 /\ \A b \in Buffers :
                        Head(requests) = [index |-> b, eop |-> TRUE] => ~Queued(b)'
  <1> DEFINE n == Len(requests)
             m == Len(requests')
  <1>1. /\ n \in Nat /\ n > 0 /\ m = n - 1 /\ requests' \in Seq(Requests)
        /\ Head(requests) = requests[1] /\ requests[1] \in Requests
        /\ \A i \in 1 .. m : requests'[i] = requests[i + 1] /\ i + 1 \in 2 .. n
    <2>1. /\ requests' \in Seq(Requests) /\ Head(requests) = requests[1]
          /\ Head(requests) \in Requests
          /\ n \in Nat /\ n > 0 /\ m = n - 1
          /\ \A i \in 1 .. m : requests'[i] = requests[i + 1]
          /\ \A i \in 1 .. m : i + 1 \in 2 .. n
      BY PopFacts
    <2> QED
      BY <2>1
  <1> HIDE DEF n, m
  <1>2. 1 \in 1 .. n /\ \A i \in 1 .. m : i + 1 \in 1 .. n /\ i + 1 # 1
    BY <1>1
  <1>3. /\ \A b \in Buffers : Queued(b)' => Queued(b)
        /\ \A b \in Buffers : Head(requests) = [index |-> b, eop |-> TRUE] => Queued(b)
    BY <1>1, <1>2 DEF Queued, n, m
  <1>4. ASSUME \A i, j \in 1 .. n : requests[i].eop /\ requests[i] = requests[j] => i = j
        PROVE  /\ \A i, j \in 1 .. m : requests'[i].eop /\ requests'[i] = requests'[j] => i = j
               /\ \A b \in Buffers : Head(requests) = [index |-> b, eop |-> TRUE] => ~Queued(b)'
    <2>1. ASSUME NEW i \in 1 .. m, NEW j \in 1 .. m, requests'[i].eop, requests'[i] = requests'[j]
          PROVE  i = j
      <3>1. i + 1 = j + 1
        BY <1>1, <1>2, <1>4, <2>1
      <3> QED
        BY <1>1, <3>1
    <2>2. ASSUME NEW b \in Buffers, requests[1] = [index |-> b, eop |-> TRUE],
                 NEW i \in 1 .. m, requests'[i] = [index |-> b, eop |-> TRUE]
          PROVE  FALSE
      <3>1. requests[1].eop
        BY <2>2
      <3>2. requests[1] = requests[i + 1]
        BY <1>1, <2>2
      <3> QED
        BY <1>2, <1>4, <3>1, <3>2
    <2> QED
      BY <1>1, <2>1, <2>2 DEF Queued, m
  <1> QED
    BY <1>1, <1>3, <1>4 DEF n, m

LabelTypes ==
    /\ buffer_labels \in [Buffers -> {0, 1}] /\ prev_index \in Buffers \cup {Blank}
    /\ requests \in Seq(Requests) /\ showing \in Requests
    /\ present \in {"idle", "status", "label", "signal"}

\* Nothing of the labels changes, and no frame comes nearer to its flip.
LEMMA SameLabels ==
    ASSUME LabelInv, LabelTypes, UNCHANGED <<portVars, requests>>,
           \A b \in Buffers, n \in 1 .. 3 : FrontFrame(b, n)' => FrontFrame(b, n)
    PROVE  LabelInv' /\ LabelTypes'
  <1>1. \A b \in Buffers : /\ Flipping(b)' => Flipping(b)
                           /\ FrontFrame(b, 2)' => FrontFrame(b, 2)
                           /\ FrontFrame(b, 3)' => FrontFrame(b, 3)
    BY DEF Flipping
  <1>2. \A b \in Buffers : /\ Queued(b)' <=> Queued(b)
                           /\ Showing(b)' <=> Showing(b)
                           /\ OnScreen(b)' <=> OnScreen(b)
    BY DEF Queued, Showing, OnScreen, portVars
  <1> QED
    BY <1>1, <1>2 DEF LabelInv, LabelTypes, portVars

\* The front frame is known by the packet that is executed.
LEMMA FrontIs ==
    ASSUME TypeOK, QueueInv, GpuInv, gpu \in {"exec", "labelTest"}, curr_qid = Gfx,
           NEW b \in Buffers, NEW n \in 1 .. 4
    PROVE  FrontFrame(b, n) => /\ n = 4 <=> Front.op = "wait"
                               /\ n = 3 <=> Front.op = "work"
                               /\ n = 2 <=> Front.op = "label"
                               /\ n = 1 <=> Front.op = "flip"
                               /\ Front.op # "work" => Front.buffer = b
  <1>1. submits[Gfx][1] \in Seq(Packets) /\ Front = submits[Gfx][1][1]
    BY ServedFront
  <1>2. IsFrame(submits[Gfx][1], b) =>
            /\ Front.op = "wait" <=> Len(submits[Gfx][1]) = 4
            /\ Front.op = "work" <=> Len(submits[Gfx][1]) = 3
            /\ Front.op = "label" <=> Len(submits[Gfx][1]) = 2
            /\ Front.op = "flip" <=> Len(submits[Gfx][1]) = 1
            /\ Front.op # "work" => Front.buffer = b
    BY <1>1, FrameFacts
  <1> QED
    BY <1>2 DEF FrontFrame

LEMMA PacketLabels ==
    ASSUME IndInv, Next, Advancing, Advance
    PROVE  LabelInv' /\ LabelTypes'
  <1>1. TypeOK /\ QueueInv /\ GpuInv /\ LabelInv /\ LabelTypes /\ SubscribersInv
    BY DEF IndInv, TypeOK, LabelTypes
  <1>2. gpu \in {"exec", "labelTest"} /\ curr_qid' = curr_qid
    BY AdvancingForms
  <1>3. /\ curr_qid \in {Gfx, Asc} /\ Front \in Packets
        /\ Front.op # "work" => /\ curr_qid = Gfx /\ submits[Gfx] # <<>>
                                /\ Front.buffer \in Buffers
                                /\ IsFrame(submits[Gfx][1], Front.buffer)
        /\ submits[Gfx] # <<>> => submits[Gfx][1] \in Seq(Packets)
    BY <1>1, <1>2, ServedFront, Queues
  <1>4. \A b \in Buffers, n \in 1 .. 3 :
            FrontFrame(b, n)' <=> FrontFrame(b, IF curr_qid = Gfx THEN n + 1 ELSE n)
    BY <1>1, <1>2, AdvanceStep
  <1>5. curr_qid = Gfx => \A b \in Buffers, n \in 1 .. 3 :
            FrontFrame(b, n)' => /\ n = 3 <=> Front.op = "wait"
                                 /\ n = 2 <=> Front.op = "work"
                                 /\ n = 1 <=> Front.op = "label"
                                 /\ Front.op # "flip"
                                 /\ Front.op # "work" => Front.buffer = b
    <2>1. ASSUME curr_qid = Gfx, NEW b \in Buffers, NEW n \in 1 .. 3, FrontFrame(b, n)'
          PROVE  /\ n = 3 <=> Front.op = "wait"
                 /\ n = 2 <=> Front.op = "work"
                 /\ n = 1 <=> Front.op = "label"
                 /\ Front.op # "flip"
                 /\ Front.op # "work" => Front.buffer = b
      <3>1. n + 1 \in 1 .. 4
        OBVIOUS
      <3>2. FrontFrame(b, n + 1)
        BY <1>4, <2>1
      <3>3. /\ n + 1 = 4 <=> Front.op = "wait"
            /\ n + 1 = 3 <=> Front.op = "work"
            /\ n + 1 = 2 <=> Front.op = "label"
            /\ n + 1 = 1 <=> Front.op = "flip"
            /\ Front.op # "work" => Front.buffer = b
        BY <1>1, <1>2, <2>1, <3>1, <3>2, FrontIs
      <3>4. (n + 1 = 4 <=> n = 3) /\ (n + 1 = 3 <=> n = 2) /\ (n + 1 = 2 <=> n = 1) /\ n + 1 # 1
        OBVIOUS
      <3> QED
        BY <3>3, <3>4
    <2> QED
      BY <2>1
  <1>6. CASE curr_qid # Gfx
    <2>1. Front.op = "work"
      BY <1>3, <1>6
    <2>2. UNCHANGED <<portVars, requests>>
      BY <2>1, AdvancingForms DEF videoVars, PatchedFlip
    <2> QED
      BY <1>1, <1>4, <1>6, <2>2, SameLabels
  <1>7. CASE curr_qid = Gfx /\ Front.op \in {"wait", "work"}
    <2>1. /\ UNCHANGED <<portVars, requests>>
          /\ Front.op = "wait" => buffer_labels[Front.buffer] = 0
      <3>1. gpu' = "packet"
        BY DEF Advance
      <3> QED
        BY <1>7, <3>1, AdvancingForms DEF videoVars, PatchedFlip, WriteData
    <2>2. ASSUME NEW b \in Buffers
          PROVE  ~Flipping(b)' /\ (FrontFrame(b, 3)' \/ FrontFrame(b, 2)' => buffer_labels[b] = 0)
      <3>1. ~Flipping(b)'
        BY <1>5, <1>7 DEF Flipping
      <3>2. FrontFrame(b, 3)' => buffer_labels[b] = 0
        BY <1>5, <1>7, <2>1
      <3>3. FrontFrame(b, 2)' => FrontFrame(b, 3)
        <4>1. 2 + 1 = 3
          OBVIOUS
        <4> QED
          BY <1>4, <1>7, <4>1
      <3> QED
        BY <1>1, <3>1, <3>2, <3>3 DEF LabelInv
    <2>3. \A b \in Buffers : /\ Queued(b)' <=> Queued(b)
                             /\ Showing(b)' <=> Showing(b)
                             /\ OnScreen(b)' <=> OnScreen(b)
      BY <2>1 DEF Queued, Showing, OnScreen, portVars
    <2> QED
      BY <1>1, <2>1, <2>2, <2>3 DEF LabelInv, LabelTypes, portVars
  <1>8. CASE curr_qid = Gfx /\ Front.op = "label"
    <2> DEFINE b0 == Front.buffer
    <2>1. /\ buffer_labels' = [buffer_labels EXCEPT ![b0] = 1]
          /\ UNCHANGED <<prev_index, requests, present, showing>>
      BY <1>8, AdvancingForms DEF PatchedFlip, WriteData
    <2>2. b0 \in Buffers /\ FrontFrame(b0, 2)
      <3>1. b0 \in Buffers /\ submits[Gfx] # <<>> /\ IsFrame(submits[Gfx][1], b0)
        BY <1>3, <1>8
      <3>2. Len(submits[Gfx][1]) = 2
        <4>1. submits[Gfx][1] \in Seq(Packets) /\ Front = submits[Gfx][1][1]
          BY <1>1, <1>2, <1>8, ServedFront
        <4> QED
          BY <1>8, <3>1, <4>1, FrameFacts
      <3> QED
        BY <3>1, <3>2 DEF FrontFrame
    <2>3. buffer_labels[b0] = 0
      BY <1>1, <2>2 DEF LabelInv
    <2> HIDE DEF b0
    <2>4. \A b \in Buffers : buffer_labels'[b] = IF b = b0 THEN 1 ELSE buffer_labels[b]
      BY <1>1, <2>1, <2>2 DEF LabelTypes
    <2>5. buffer_labels' \in [Buffers -> {0, 1}]
      BY <1>1, <2>1, <2>2 DEF LabelTypes
    <2>6. \A b \in Buffers : /\ Flipping(b)' => b = b0
                             /\ ~FrontFrame(b, 3)' /\ ~FrontFrame(b, 2)'
      BY <1>5, <1>8 DEF Flipping, b0
    <2>7. \A b \in Buffers : /\ Queued(b)' <=> Queued(b)
                             /\ Showing(b)' <=> Showing(b)
                             /\ OnScreen(b)' <=> OnScreen(b)
      BY <2>1 DEF Queued, Showing, OnScreen
    <2>8. ~Queued(b0) /\ ~Showing(b0) /\ ~OnScreen(b0)
      BY <1>1, <2>2, <2>3 DEF LabelInv
    <2> QED
      BY <1>1, <2>1, <2>4, <2>5, <2>6, <2>7, <2>8 DEF LabelInv, LabelTypes
  <1>9. CASE curr_qid = Gfx /\ Front.op = "flip"
    <2> DEFINE b0 == Front.buffer
    <2>1. b0 \in Buffers /\ Flipping(b0)
      <3>1. b0 \in Buffers /\ submits[Gfx] # <<>> /\ IsFrame(submits[Gfx][1], b0)
        BY <1>3, <1>9
      <3>2. Len(submits[Gfx][1]) = 1
        <4>1. submits[Gfx][1] \in Seq(Packets) /\ Front = submits[Gfx][1][1]
          BY <1>1, <1>2, <1>9, ServedFront
        <4> QED
          BY <1>9, <3>1, <4>1, FrameFacts
      <3> QED
        BY <3>1, <3>2 DEF FrontFrame, Flipping
    <2>2. Head(subscribers) = b0
      <3>1. PICK pos \in [1 .. Len(subscribers) -> Nat] : Matches(pos)
        BY <1>1 DEF SubscribersInv
      <3> QED
        BY <1>1, <1>3, <1>9, <3>1, FirstSubscriber
    <2>3. /\ requests' = Append(requests, [index |-> b0, eop |-> TRUE])
          /\ UNCHANGED portVars
      BY <1>9, <2>2, AdvancingForms DEF PatchedFlip, SubmitFlipEop, SubmitFlipInternal, WriteData
    <2> HIDE DEF b0
    <2> DEFINE r == [index |-> b0, eop |-> TRUE]
    <2>4. /\ r \in Requests /\ r.eop /\ r.index = b0
          /\ \A b \in Buffers : r = [index |-> b, eop |-> TRUE] <=> b = b0
      BY <2>1 DEF Requests
    <2>5. requests \in Seq(Requests) /\ requests' = Append(requests, r)
      BY <1>1, <2>3 DEF LabelTypes
    <2>6. ~Queued(b0) /\ ~Showing(b0) /\ ~OnScreen(b0) /\ buffer_labels[b0] = 1
      BY <1>1, <2>1 DEF LabelInv
    <2> HIDE DEF r
    <2>7. /\ \A b \in Buffers : Queued(b)' <=> Queued(b) \/ b = b0
          /\ requests' \in Seq(Requests)
          /\ \A i, j \in 1 .. Len(requests') :
                requests'[i].eop /\ requests'[i] = requests'[j] => i = j
      <3>1. \A i, j \in 1 .. Len(requests) : requests[i].eop /\ requests[i] = requests[j] => i = j
        BY <1>1 DEF LabelInv
      <3> QED
        BY <2>4, <2>5, <2>6, <3>1, RequestAppended
    <2>8. \A b \in Buffers : ~Flipping(b)' /\ ~FrontFrame(b, 3)' /\ ~FrontFrame(b, 2)'
      BY <1>5, <1>9 DEF Flipping
    <2>9. \A b \in Buffers : (Showing(b)' <=> Showing(b)) /\ (OnScreen(b)' <=> OnScreen(b))
      BY <2>3 DEF Showing, OnScreen, portVars
    <2> QED
      BY <1>1, <2>3, <2>6, <2>7, <2>8, <2>9 DEF LabelInv, LabelTypes, portVars
  <1> QED
    BY <1>3, <1>6, <1>7, <1>8, <1>9 DEF Packets

\* A blank flip that is drained joins the requests.
LEMMA DrainLabels ==
    ASSUME IndInv, Next, DrainCommand
    PROVE  LabelInv' /\ LabelTypes'
  <1>1. TypeOK /\ LabelInv /\ LabelTypes
    BY DEF IndInv, TypeOK, LabelTypes
  <1>2. \A b \in Buffers, n \in 1 .. 3 : FrontFrame(b, n)' => FrontFrame(b, n)
    BY DrainForms DEF FrontFrame
  <1>3. UNCHANGED portVars
    BY DrainForms
  <1>4. CASE requests' = requests
    BY <1>1, <1>2, <1>3, <1>4, SameLabels
  <1>5. CASE requests' = Append(requests, [index |-> Blank, eop |-> FALSE])
    <2> DEFINE r == [index |-> Blank, eop |-> FALSE]
    <2>1. r \in Requests /\ ~r.eop /\ \A b \in Buffers : r # [index |-> b, eop |-> TRUE]
      BY DEF Requests
    <2>2. requests \in Seq(Requests) /\ requests' = Append(requests, r)
      BY <1>1, <1>5 DEF LabelTypes
    <2> HIDE DEF r
    <2>3. /\ \A b \in Buffers : Queued(b)' <=> Queued(b)
          /\ requests' \in Seq(Requests)
          /\ \A i, j \in 1 .. Len(requests') :
                requests'[i].eop /\ requests'[i] = requests'[j] => i = j
      <3>1. \A i, j \in 1 .. Len(requests) : requests[i].eop /\ requests[i] = requests[j] => i = j
        BY <1>1 DEF LabelInv
      <3> QED
        BY <2>1, <2>2, <3>1, RequestAppended
    <2>4. \A b \in Buffers : (Showing(b)' <=> Showing(b)) /\ (OnScreen(b)' <=> OnScreen(b))
      BY <1>3 DEF Showing, OnScreen, portVars
    <2>5. \A b \in Buffers : /\ Flipping(b)' => Flipping(b)
                             /\ FrontFrame(b, 2)' => FrontFrame(b, 2)
                             /\ FrontFrame(b, 3)' => FrontFrame(b, 3)
      BY <1>2 DEF Flipping
    <2> QED
      BY <1>1, <1>3, <2>3, <2>4, <2>5 DEF LabelInv, LabelTypes, portVars
  <1> QED
    BY <1>4, <1>5, DrainForms

\* The present thread takes a frame from the requests to the screen.
LEMMA PresentLabels ==
    ASSUME IndInv, Next, PresentStep
    PROVE  LabelInv' /\ LabelTypes'
  <1>1. LabelInv /\ LabelTypes /\ \A b \in Buffers : b # Blank
    BY DEF IndInv, TypeOK, LabelTypes, Buffers, Blank
  <1>2. \A b \in Buffers : /\ Flipping(b)' <=> Flipping(b)
                           /\ FrontFrame(b, 2)' <=> FrontFrame(b, 2)
                           /\ FrontFrame(b, 3)' <=> FrontFrame(b, 3)
    BY DEF PresentStep, queueVars, FrontFrame, Flipping
  <1>3. CASE ReceiveRequest
    <2>1. /\ present = "idle" /\ present' = "status" /\ requests # <<>>
          /\ showing' = Head(requests) /\ requests' = Tail(requests)
          /\ UNCHANGED <<buffer_labels, prev_index>>
      BY <1>3 DEF ReceiveRequest
    <2>2. /\ Head(requests) \in Requests /\ requests' \in Seq(Requests)
          /\ \A b \in Buffers : Queued(b)' => Queued(b)
          /\ \A b \in Buffers : Head(requests) = [index |-> b, eop |-> TRUE] => Queued(b)
          /\ \A i, j \in 1 .. Len(requests') :
                requests'[i].eop /\ requests'[i] = requests'[j] => i = j
          /\ \A b \in Buffers : Head(requests) = [index |-> b, eop |-> TRUE] => ~Queued(b)'
      <3>1. requests \in Seq(Requests)
        BY <1>1 DEF LabelTypes
      <3>2. \A i, j \in 1 .. Len(requests) : requests[i].eop /\ requests[i] = requests[j] => i = j
        BY <1>1 DEF LabelInv
      <3> QED
        BY <2>1, <3>1, <3>2, RequestTaken
    <2>3. \A b \in Buffers : /\ Showing(b)' => Queued(b) /\ ~Queued(b)'
                             /\ OnScreen(b)' <=> OnScreen(b)
      BY <2>1, <2>2 DEF Showing, OnScreen
    <2> QED
      BY <1>1, <1>2, <2>1, <2>2, <2>3 DEF LabelInv, LabelTypes
  <1>4. CASE FlipStatus
    <2>1. /\ present = "status" /\ present' = IF prev_index = Blank THEN "signal" ELSE "label"
          /\ UNCHANGED <<buffer_labels, prev_index, requests, showing>>
      BY <1>4 DEF FlipStatus
    <2>2. \A b \in Buffers : /\ Queued(b)' <=> Queued(b)
                             /\ Showing(b)' <=> Showing(b)
                             /\ OnScreen(b)' <=> OnScreen(b)
      BY <1>1, <2>1 DEF Queued, Showing, OnScreen
    <2> QED
      BY <1>1, <1>2, <2>1, <2>2 DEF LabelInv, LabelTypes
  <1>5. CASE ResetLabel
    <2>1. /\ present = "label" /\ present' = "signal"
          /\ buffer_labels' = [buffer_labels EXCEPT ![prev_index] = 0]
          /\ UNCHANGED <<prev_index, requests, showing>>
      BY <1>5 DEF ResetLabel
    <2>2. prev_index \in Buffers
      BY <1>1, <2>1 DEF LabelInv, LabelTypes
    <2>3. OnScreen(prev_index)
      BY <2>1 DEF OnScreen
    <2>4. ~Flipping(prev_index) /\ ~Queued(prev_index) /\ ~Showing(prev_index)
      BY <1>1, <2>2, <2>3 DEF LabelInv
    <2>5. /\ \A b \in Buffers : buffer_labels'[b] = IF b = prev_index THEN 0 ELSE buffer_labels[b]
          /\ buffer_labels' \in [Buffers -> {0, 1}]
      BY <1>1, <2>1, <2>2 DEF LabelTypes
    <2>6. \A b \in Buffers : /\ Queued(b)' <=> Queued(b)
                             /\ Showing(b)' <=> Showing(b)
                             /\ ~OnScreen(b)'
      BY <1>1, <2>1 DEF Queued, Showing, OnScreen
    <2> QED
      BY <1>1, <1>2, <2>1, <2>4, <2>5, <2>6 DEF LabelInv, LabelTypes
  <1>6. CASE FlipDone
    <2>1. /\ present = "signal" /\ present' = "idle" /\ prev_index' = showing.index
          /\ UNCHANGED <<buffer_labels, requests, showing>>
      BY <1>6 DEF FlipDone
    <2>2. showing \in Requests /\ showing.index \in Buffers \cup {Blank}
      BY <1>1 DEF LabelTypes, Requests
    <2>3. \A b \in Buffers : showing.index = b => showing = [index |-> b, eop |-> TRUE]
      BY <1>1, <2>2 DEF Requests
    <2>4. \A b \in Buffers : /\ Queued(b)' <=> Queued(b)
                             /\ ~Showing(b)'
                             /\ OnScreen(b)' => Showing(b)
      BY <2>1, <2>3 DEF Queued, Showing, OnScreen
    <2> QED
      BY <1>1, <1>2, <2>1, <2>2, <2>4 DEF LabelInv, LabelTypes
  <1> QED
    BY <1>3, <1>4, <1>5, <1>6 DEF PresentStep

LEMMA LabelStep ==
    ASSUME IndInv, Next
    PROVE  LabelInv' /\ LabelTypes'
  <1>1. LabelInv /\ LabelTypes
    BY DEF IndInv, TypeOK, LabelTypes
  <1>2. CASE UNCHANGED <<portVars, requests>> /\ ~(Advancing /\ Advance)
    <2>1. \A b \in Buffers, n \in 1 .. 3 : FrontFrame(b, n)' => FrontFrame(b, n)
      BY <1>2, FrontForms
    <2> QED
      BY <1>1, <1>2, <2>1, SameLabels
  <1> QED
    BY <1>2, PacketLabels, DrainLabels, PresentLabels, VideoForms

-----------------------------------------------------------------------------
(* The command processor sleeps only when idle. *)

LEMMA AsleepStep ==
    ASSUME IndInv, Next
    PROVE  AsleepOnlyIdle'
  <1>1. TypeOK /\ AsleepOnlyIdle
    BY DEF IndInv
  <1> USE DEF AsleepOnlyIdle, HasWork
  <1>2. CASE gpu' # "asleep"
    BY <1>2
  <1>3. CASE gpu = "asleep" /\ UNCHANGED <<num_submits, command_queue, submit_done>>
    BY <1>1, <1>3
  <1>4. ASSUME NEW g \in Threads, GuestStep(g) \/ \E kind \in CallKinds : Begin(g, kind)
        PROVE  AsleepOnlyIdle'
    <2> USE DEF queueVars
    <2>1. CASE \E kind \in CallKinds : Begin(g, kind)
      BY <1>2, <1>3, <2>1 DEF Begin
    <2>2. CASE LockSubmit(g) \/ WaitGpuIdle(g) \/ PatchFlipRequest(g) \/ SubmitFlip(g)
      BY <1>2, <1>3, <2>2 DEF LockSubmit, WaitGpuIdle, PatchFlipRequest, SubmitFlip
    <2>3. CASE PushAsc(g) \/ CheckIdle(g) \/ RaiseLock(g)
      BY <1>2, <1>3, <2>3 DEF PushAsc, CheckIdle, RaiseLock
    <2>4. CASE SubmitGfx(g) \/ CountAsc(g) \/ SubmitDone(g) \/ SendCommand(g) \/ SendCommandAndWait(g)
      <3>1. Notify
        BY <2>4 DEF SubmitGfx, CountAsc, SubmitDone, SendCommand, SendCommandAndWait, Send
      <3> QED
        BY <1>2, <3>1 DEF Notify
    <2> QED
      BY <1>4, <2>1, <2>2, <2>3, <2>4 DEF GuestStep
  <1>5. CASE PresentStep
    BY <1>2, <1>3, <1>5 DEF PresentStep, queueVars, SignalVoLabel
  <1>6. CASE ProcessWait
    BY <1>2, <1>6 DEF ProcessWait, queueVars
  <1>7. CASE Advancing
    <2>1. CASE Advance
      BY <1>2, <2>1 DEF Advance
    <2>2. CASE ~Advance
      BY <1>2, <1>7, <2>2, AdvancingForms
    <2> QED
      BY <2>1, <2>2
  <1>8. CASE ProcessLoop \/ DrainCommand \/ ProcessCeQueue \/ PickQueue \/ PollCommands
    BY <1>2, <1>8 DEF ProcessLoop, DrainCommand, ProcessCeQueue, PickQueue, PollCommands
  <1>9. CASE FinishBuffer \/ RoundTail \/ RoundFlush \/ IdleInterrupt
    BY <1>2, <1>9 DEF FinishBuffer, RoundTail, RoundFlush, IdleInterrupt
  <1> QED
    BY <1>4, <1>5, <1>6, <1>7, <1>8, <1>9 DEF Next, GpuStep, Advancing

-----------------------------------------------------------------------------
(* The counters. *)

\* One thread goes from place to place.
LEMMA AtStep ==
    ASSUME NEW g \in Threads, NEW l, \A h \in Threads \ {g} : pc'[h] = pc[h]
    PROVE  /\ Cardinality(At(l)) \in Nat
           /\ Cardinality(At(l)') = Cardinality(At(l)) + (IF pc'[g] = l THEN 1 ELSE 0)
                                                       - (IF pc[g] = l THEN 1 ELSE 0)
  <1> DEFINE S == At(l)
             R == S \ {g}
             T == At(l)'
  <1>1. IsFiniteSet(S) /\ IsFiniteSet(R)
    BY FiniteAssumption, FS_Subset DEF At
  <1>2. g \notin R /\ (g \in S <=> pc[g] = l)
    BY DEF At
  <1>3. T = IF pc'[g] = l THEN R \cup {g} ELSE R
    BY DEF At
  <1> HIDE DEF S, R, T
  <1>4. Cardinality(S) \in Nat /\ Cardinality(R) \in Nat
    BY <1>1, FS_CardinalityType
  <1>5. Cardinality(R) = IF pc[g] = l THEN Cardinality(S) - 1 ELSE Cardinality(S)
    BY <1>1, <1>2, FS_RemoveElement DEF R
  <1>6. Cardinality(R \cup {g}) = Cardinality(R) + 1
    BY <1>1, <1>2, FS_AddElement
  <1>7. Cardinality(T) = Cardinality(S) + (IF pc'[g] = l THEN 1 ELSE 0)
                                        - (IF pc[g] = l THEN 1 ELSE 0)
    BY <1>3, <1>4, <1>5, <1>6
  <1> QED
    BY <1>4, <1>7 DEF S, T

LEMMA AtSame ==
    ASSUME NEW l, \A g \in Threads : pc'[g] = l <=> pc[g] = l
    PROVE  Cardinality(At(l)) \in Nat /\ Cardinality(At(l)') = Cardinality(At(l))
  <1>1. IsFiniteSet(At(l)) /\ At(l)' = At(l)
    BY FiniteAssumption, FS_Subset DEF At
  <1> QED
    BY <1>1, FS_CardinalityType

\* The buffers of the queues that are counted.
Total == (Len(submits[Gfx]) + Len(submits[Asc]) + ce_submits) - Cardinality(At("count"))
SubmitsCounted == num_submits = Add(Total, 0)

Flips == Cardinality(At("send")) + Cardinality(Places(command_queue, FlipCommands))
         + Len(requests) + (IF present = "status" THEN 1 ELSE 0)
FlipsCounted == flip_pending_num = Flips

LEMMA AddDifference ==
    ASSUME NEW x \in Nat, NEW c \in Nat
    PROVE  Add(x, -c) = Add(x - c, 0)
  <1>1. -c \in Int /\ x + (-c) = x - c
    OBVIOUS
  <1>2. Add(x, -c) = Add(x + (-c), 0)
    BY <1>1, AddToRemainder
  <1> QED
    BY <1>1, <1>2

LEMMA FlipPlaces ==
    ASSUME NEW s \in Seq(Commands)
    PROVE  {i \in 1 .. Len(s) : s[i].kind = "flip"} = Places(s, FlipCommands)
  <1>1. \A i \in 1 .. Len(s) : s[i] \in Commands
    OBVIOUS
  <1>2. \A c \in Commands : c.kind = "flip" <=> c \in FlipCommands
    BY DEF Commands, FlipCommands
  <1> QED
    BY <1>1, <1>2 DEF Places

LEMMA CountedParts ==
    ASSUME TypeOK, Counted
    PROVE  SubmitsCounted /\ FlipsCounted /\ Total \in Int
  <1> DEFINE c == Cardinality(At("count"))
             x == Len(submits[Gfx]) + Len(submits[Asc]) + ce_submits
  <1>1. c \in Nat /\ x \in Nat
    <2>1. IsFiniteSet(At("count"))
      BY FiniteAssumption, FS_Subset DEF At
    <2> QED
      BY <2>1, FS_CardinalityType, Queues DEF TypeOK
  <1>2. num_submits = Add(x, -c) /\ Total = x - c
    BY DEF Counted, Total
  <1>3. {i \in 1 .. Len(command_queue) : command_queue[i].kind = "flip"}
            = Places(command_queue, FlipCommands)
    BY FlipPlaces DEF TypeOK
  <1>4. FlipsCounted
    BY <1>3 DEF Counted, FlipsCounted, Flips
  <1> HIDE DEF c, x
  <1>5. SubmitsCounted /\ Total \in Int
    BY <1>1, <1>2, AddDifference DEF SubmitsCounted
  <1> QED
    BY <1>4, <1>5

\* A counter that moves with what it counts stays right.
LEMMA CounterMoves ==
    ASSUME SubmitsCounted, Total \in Int, NEW k \in Int, Total' = Total + k,
           num_submits' = Add(num_submits, k)
    PROVE  SubmitsCounted' /\ num_submits' \in Nat
  <1>1. num_submits' = Add(Total + k, 0)
    BY AddToRemainder DEF SubmitsCounted
  <1>2. Total + k \in Int
    OBVIOUS
  <1>3. num_submits' \in Nat
    BY <1>1, <1>2, AddToRemainder
  <1> QED
    BY <1>1, <1>3 DEF SubmitsCounted, Add

LEMMA CountForms ==
    ASSUME IndInv, Next
    PROVE  \/ /\ UNCHANGED <<num_submits, ce_submits>>
              /\ \A q \in {Gfx, Asc} : Len(submits'[q]) = Len(submits[q])
              /\ \A g \in Threads : pc'[g] = "count" <=> pc[g] = "count"
           \/ \E g \in Threads : SubmitGfx(g) \/ PushAsc(g) \/ CountAsc(g)
           \/ ProcessCeQueue \/ FinishBuffer
  <1>1. TypeOK /\ QueueInv /\ GpuInv
    BY DEF IndInv
  <1>2. ASSUME NEW g \in Threads, GuestStep(g) \/ \E kind \in CallKinds : Begin(g, kind),
               ~SubmitGfx(g), ~PushAsc(g), ~CountAsc(g)
        PROVE  /\ UNCHANGED <<num_submits, ce_submits, submits>>
               /\ \A h \in Threads : pc'[h] = "count" <=> pc[h] = "count"
    <2>1. UNCHANGED <<num_submits, ce_submits, submits>> /\ pc[g] # "count" /\ pc'[g] # "count"
      <3> USE <1>1 DEF TypeOK, Goto, queueVars
      <3>1. CASE \E kind \in CallKinds : Begin(g, kind)
        BY <3>1 DEF Begin
      <3>2. CASE LockSubmit(g) \/ PatchFlipRequest(g)
        BY <3>2 DEF LockSubmit, PatchFlipRequest
      <3>3. CASE WaitGpuIdle(g)
        <4>1. call[g] \in SubmitKinds
          BY <3>3 DEF WaitGpuIdle, IndInv, LockInv, Holding
        <4>2. pc'[g] \in {"register", "submit", "push", "check"}
          BY <3>3, <4>1 DEF WaitGpuIdle, SubmitKinds, FrameKinds
        <4> QED
          BY <3>3, <4>2 DEF WaitGpuIdle
      <3>4. CASE CheckIdle(g)
        <4>1. pc'[g] \in {"finish", "raise"}
          BY <3>4 DEF CheckIdle
        <4> QED
          BY <3>4, <4>1 DEF CheckIdle
      <3>5. CASE RaiseLock(g) \/ SubmitDone(g) \/ SubmitFlip(g)
        BY <3>5 DEF RaiseLock, SubmitDone, SubmitFlip
      <3>6. CASE SendCommand(g) \/ SendCommandAndWait(g)
        BY <3>6 DEF SendCommand, SendCommandAndWait, Send
      <3> QED
        BY <1>2, <3>1, <3>2, <3>3, <3>4, <3>5, <3>6 DEF GuestStep
    <2>2. \A h \in Threads \ {g} : pc'[h] = pc[h]
      BY <1>2, GuestMoves
    <2> QED
      BY <2>1, <2>2
  <1>3. CASE (GpuStep \/ PresentStep) /\ ~ProcessCeQueue /\ ~FinishBuffer
    <2>1. UNCHANGED <<num_submits, ce_submits>>
      <3> USE DEF queueVars
      <3>1. CASE PresentStep
        BY <3>1 DEF PresentStep
      <3>2. CASE Advancing
        BY <3>2, AdvancingForms
      <3>3. CASE ProcessWait \/ ProcessLoop \/ DrainCommand \/ PickQueue \/ PollCommands
        BY <3>3 DEF ProcessWait, ProcessLoop, DrainCommand, PickQueue, PollCommands
      <3>4. CASE RoundTail \/ RoundFlush \/ IdleInterrupt
        BY <3>4 DEF RoundTail, RoundFlush, IdleInterrupt
      <3> QED
        BY <1>3, <3>1, <3>2, <3>3, <3>4 DEF GpuStep, Advancing
    <2>2. \A q \in {Gfx, Asc} : Len(submits'[q]) = Len(submits[q])
      <3>1. CASE Advancing /\ Advance
        BY <1>1, <3>1, AdvancingForms, AdvanceStep
      <3>2. CASE submits' = submits
        BY <3>2
      <3>3. UNCHANGED submits \/ (Advancing /\ Advance)
        <4> USE DEF queueVars
        <4>1. CASE PresentStep
          BY <4>1 DEF PresentStep
        <4>2. CASE Advancing
          BY <4>2, AdvancingForms
        <4>3. CASE ProcessWait \/ ProcessLoop \/ DrainCommand \/ PickQueue \/ PollCommands
          BY <4>3 DEF ProcessWait, ProcessLoop, DrainCommand, PickQueue, PollCommands
        <4>4. CASE RoundTail \/ RoundFlush \/ IdleInterrupt
          BY <4>4 DEF RoundTail, RoundFlush, IdleInterrupt
        <4> QED
          BY <1>3, <4>1, <4>2, <4>3, <4>4 DEF GpuStep, Advancing
      <3> QED
        BY <3>1, <3>2, <3>3
    <2>3. \A g \in Threads : pc'[g] = "count" <=> pc[g] = "count"
      BY <1>1, <1>3, GuestAlone, DrainForms DEF TypeOK
    <2> QED
      BY <2>1, <2>2, <2>3
  <1> QED
    BY <1>2, <1>3 DEF Next

LEMMA SubmitsStep ==
    ASSUME IndInv, Next
    PROVE  SubmitsCounted' /\ num_submits' \in Nat /\ ce_submits' \in Nat
  <1> DEFINE lg == Len(submits[Gfx])
             la == Len(submits[Asc])
             c == Cardinality(At("count"))
  <1>1. TypeOK /\ SubmitsCounted /\ Total \in Int
    <2>1. TypeOK /\ Counted
      BY DEF IndInv
    <2> QED
      BY <2>1, CountedParts DEF TypeOK
  <1>2. /\ lg \in Nat /\ la \in Nat /\ ce_submits \in Nat /\ num_submits \in Nat
        /\ c \in Nat
    <2>1. IsFiniteSet(At("count"))
      BY FiniteAssumption, FS_Subset DEF At
    <2> QED
      BY <1>1, <2>1, FS_CardinalityType, Queues DEF TypeOK
  <1>3. /\ Total = (lg + la + ce_submits) - c
        /\ Total' = (lg' + la' + ce_submits') - Cardinality(At("count")')
    BY DEF Total
  <1>4. Add(num_submits, 0) = num_submits
    <2>1. num_submits = Add(Total, 0) /\ 0 \in Int /\ Total + 0 = Total
      BY <1>1 DEF SubmitsCounted
    <2> QED
      BY <1>1, <2>1, AddToRemainder
  <1> HIDE DEF lg, la, c
  <1>5. ASSUME NEW k \in Int, NEW d \in Int, NEW e \in Int, d - e = k,
               num_submits' = Add(num_submits, k), ce_submits' \in Nat,
               lg' + la' + ce_submits' = (lg + la + ce_submits) + d,
               Cardinality(At("count")') = c + e
        PROVE  SubmitsCounted' /\ num_submits' \in Nat /\ ce_submits' \in Nat
    <2>1. Total' = Total + k
      <3> DEFINE x == lg + la + ce_submits
      <3>1. x \in Nat
        BY <1>2
      <3>2. Total = x - c /\ Total' = (x + d) - (c + e)
        BY <1>3, <1>5
      <3> HIDE DEF x
      <3> QED
        BY <1>2, <1>5, <3>1, <3>2
    <2> QED
      BY <1>1, <1>5, <2>1, CounterMoves
  <1>6. CASE /\ UNCHANGED <<num_submits, ce_submits>>
             /\ \A q \in {Gfx, Asc} : Len(submits'[q]) = Len(submits[q])
             /\ \A g \in Threads : pc'[g] = "count" <=> pc[g] = "count"
    <2>1. lg' = lg /\ la' = la /\ Cardinality(At("count")') = c
      BY <1>6, AtSame DEF lg, la, c
    <2>2. /\ lg' + la' + ce_submits' = (lg + la + ce_submits) + 0
          /\ Cardinality(At("count")') = c + 0 /\ 0 - 0 = 0
      BY <1>2, <1>6, <2>1
    <2>3. num_submits' = Add(num_submits, 0) /\ ce_submits' \in Nat /\ 0 \in Int
      BY <1>2, <1>4, <1>6
    <2> QED
      BY <1>5, <2>2, <2>3
  <1>7. ASSUME NEW g \in Threads, SubmitGfx(g)
        PROVE  SubmitsCounted' /\ num_submits' \in Nat /\ ce_submits' \in Nat
    <2>1. lg' = lg + 1 /\ la' = la
      <3>1. PICK buf \in Seq(Packets) : /\ submits'[Gfx] = Append(submits[Gfx], buf)
                                        /\ submits'[Asc] = submits[Asc]
        BY <1>7, SubmitFacts
      <3> QED
        BY <1>1, <3>1, Queues, AppendFacts DEF lg, la
    <2>2. Cardinality(At("count")') = c
      <3>1. \A h \in Threads : pc'[h] = "count" <=> pc[h] = "count"
        BY <1>1, <1>7 DEF SubmitGfx, Goto, TypeOK
      <3> QED
        BY <3>1, AtSame DEF c
    <2>3. \/ ce_submits' = ce_submits + 1 /\ num_submits' = Add(num_submits, 2)
          \/ ce_submits' = ce_submits /\ num_submits' = Add(num_submits, 1)
      BY <1>7 DEF SubmitGfx
    <2>4. Cardinality(At("count")') = c + 0 /\ 2 - 0 = 2 /\ 1 - 0 = 1
      BY <1>2, <2>2
    <2>5. CASE ce_submits' = ce_submits + 1 /\ num_submits' = Add(num_submits, 2)
      <3>1. lg' + la' + ce_submits' = (lg + la + ce_submits) + 2 /\ ce_submits' \in Nat
        BY <1>2, <2>1, <2>5
      <3> QED
        BY <1>5, <2>4, <2>5, <3>1
    <2>6. CASE ce_submits' = ce_submits /\ num_submits' = Add(num_submits, 1)
      <3>1. lg' + la' + ce_submits' = (lg + la + ce_submits) + 1 /\ ce_submits' \in Nat
        BY <1>2, <2>1, <2>6
      <3> QED
        BY <1>5, <2>4, <2>6, <3>1
    <2> QED
      BY <2>3, <2>5, <2>6
  <1>8. ASSUME NEW g \in Threads, PushAsc(g)
        PROVE  SubmitsCounted' /\ num_submits' \in Nat /\ ce_submits' \in Nat
    <2>1. la' = la + 1 /\ lg' = lg
      <3>1. PICK buf \in Seq(Packets) : /\ submits'[Asc] = Append(submits[Asc], buf)
                                        /\ submits'[Gfx] = submits[Gfx]
        BY <1>8, PushFacts
      <3> QED
        BY <1>1, <3>1, Queues, AppendFacts DEF lg, la
    <2>2. Cardinality(At("count")') = c + 1
      <3>1. pc[g] = "push" /\ pc'[g] = "count" /\ \A h \in Threads \ {g} : pc'[h] = pc[h]
        BY <1>1, <1>8 DEF PushAsc, Goto, TypeOK
      <3> QED
        BY <1>2, <3>1, AtStep DEF c
    <2>3. ce_submits' = ce_submits /\ num_submits' = num_submits
      BY <1>8 DEF PushAsc
    <2>4. lg' + la' + ce_submits' = (lg + la + ce_submits) + 1 /\ 1 - 1 = 0
      BY <1>2, <2>1, <2>3
    <2> QED
      BY <1>2, <1>4, <1>5, <2>2, <2>3, <2>4
  <1>9. ASSUME NEW g \in Threads, CountAsc(g)
        PROVE  SubmitsCounted' /\ num_submits' \in Nat /\ ce_submits' \in Nat
    <2>1. la' = la /\ lg' = lg
      BY <1>9 DEF CountAsc, lg, la
    <2>2. Cardinality(At("count")') = c + (-1)
      <3>1. pc[g] = "count" /\ pc'[g] = "idle" /\ \A h \in Threads \ {g} : pc'[h] = pc[h]
        BY <1>1, <1>9 DEF CountAsc, Goto, TypeOK
      <3> QED
        BY <1>2, <3>1, AtStep DEF c
    <2>3. ce_submits' = ce_submits /\ num_submits' = Add(num_submits, 1)
      BY <1>9 DEF CountAsc
    <2>4. lg' + la' + ce_submits' = (lg + la + ce_submits) + 0 /\ 0 - (-1) = 1
      BY <1>2, <2>1, <2>3
    <2> QED
      BY <1>2, <1>5, <2>2, <2>3, <2>4
  <1>10. CASE ProcessCeQueue
    <2>1. /\ submits' = submits /\ pc' = pc
          /\ \/ ce_submits > 0 /\ ce_submits' = ce_submits - 1 /\ num_submits' = Add(num_submits, -1)
             \/ ce_submits' = ce_submits /\ num_submits' = num_submits
      BY <1>10 DEF ProcessCeQueue, guestVars
    <2>2. lg' = lg /\ la' = la /\ Cardinality(At("count")') = c
      BY <2>1, AtSame DEF lg, la, c
    <2>3. Cardinality(At("count")') = c + 0 /\ 0 - 0 = 0 /\ (-1) - 0 = -1
      BY <1>2, <2>2
    <2>4. CASE ce_submits > 0 /\ ce_submits' = ce_submits - 1 /\ num_submits' = Add(num_submits, -1)
      <3>1. lg' + la' + ce_submits' = (lg + la + ce_submits) + (-1) /\ ce_submits' \in Nat
        BY <1>2, <2>2, <2>4
      <3> QED
        BY <1>5, <2>3, <2>4, <3>1
    <2>5. CASE ce_submits' = ce_submits /\ num_submits' = num_submits
      <3>1. lg' + la' + ce_submits' = (lg + la + ce_submits) + 0 /\ ce_submits' \in Nat
        BY <1>2, <2>2, <2>5
      <3> QED
        BY <1>4, <1>5, <2>3, <2>5, <3>1
    <2> QED
      BY <2>1, <2>4, <2>5
  <1>11. CASE FinishBuffer
    <2>1. ce_submits' = ce_submits /\ num_submits' = Add(num_submits, -1) /\ pc' = pc
      BY <1>11 DEF FinishBuffer, guestVars
    <2>2. Cardinality(At("count")') = c
      BY <2>1, AtSame DEF c
    <2>3. \/ lg > 0 /\ lg' = lg - 1 /\ la' = la
          \/ la > 0 /\ la' = la - 1 /\ lg' = lg
      <3>1. \A q \in {Gfx, Asc} : submits[q] # <<>> =>
                Len(Tail(submits[q])) = Len(submits[q]) - 1 /\ Len(submits[q]) > 0
        BY <1>1, Queues, PopFacts
      <3>2. /\ curr_qid \in {Gfx, Asc} /\ submits[curr_qid] # <<>>
            /\ submits'[curr_qid] = Tail(submits[curr_qid])
            /\ \A q \in {Gfx, Asc} \ {curr_qid} : submits'[q] = submits[q]
        BY <1>11, FinishFacts
      <3>3. CASE curr_qid = Gfx
        <4>1. submits'[Asc] = submits[Asc]
          BY <3>2, <3>3 DEF Gfx, Asc
        <4> QED
          BY <3>1, <3>2, <3>3, <4>1 DEF lg, la
      <3>4. CASE curr_qid = Asc
        <4>1. submits'[Gfx] = submits[Gfx]
          BY <3>2, <3>4 DEF Gfx, Asc
        <4> QED
          BY <3>1, <3>2, <3>4, <4>1 DEF lg, la
      <3> QED
        BY <3>2, <3>3, <3>4
    <2>4. /\ lg' + la' + ce_submits' = (lg + la + ce_submits) + (-1)
          /\ Cardinality(At("count")') = c + 0 /\ (-1) - 0 = -1
      BY <1>2, <2>1, <2>2, <2>3
    <2> QED
      BY <1>2, <1>5, <2>1, <2>4
  <1> QED
    BY <1>6, <1>7, <1>8, <1>9, <1>10, <1>11, CountForms

LEMMA FlipsStep ==
    ASSUME IndInv, Next
    PROVE  /\ FlipsCounted' /\ flip_pending_num' \in Int /\ command_queue' \in Seq(Commands)
  <1> DEFINE s == Cardinality(At("send"))
             q == Cardinality(Places(command_queue, FlipCommands))
             r == Len(requests)
             p == IF present = "status" THEN 1 ELSE 0
  <1>1. TypeOK /\ FlipsCounted /\ command_queue \in Seq(Commands) /\ requests \in Seq(Requests)
    <2>1. TypeOK /\ Counted
      BY DEF IndInv
    <2> QED
      BY <2>1, CountedParts DEF TypeOK
  <1>2. s \in Nat /\ q \in Nat /\ r \in Nat /\ p \in {0, 1}
    <2>1. IsFiniteSet(At("send"))
      BY FiniteAssumption, FS_Subset DEF At
    <2> QED
      BY <1>1, <2>1, FS_CardinalityType, PlacesFinite
  <1>3. /\ flip_pending_num = s + q + r + p
        /\ FlipsCounted' <=> flip_pending_num' = Cardinality(At("send")') + q' + r' + p'
    BY <1>1 DEF FlipsCounted, Flips
  <1>4. requests' \in Seq(Requests)
    BY LabelStep DEF LabelTypes
  <1> HIDE DEF s, q, r, p
  <1>5. ASSUME command_queue' = command_queue, UNCHANGED <<flip_pending_num, requests, present>>,
               \A g \in Threads : pc'[g] = "send" <=> pc[g] = "send"
        PROVE  /\ FlipsCounted' /\ flip_pending_num' \in Int /\ command_queue' \in Seq(Commands)
    <2>1. Cardinality(At("send")') = s /\ q' = q /\ r' = r /\ p' = p
      BY <1>5, AtSame DEF s, q, r, p
    <2> QED
      BY <1>1, <1>2, <1>3, <1>5, <2>1
  <1>6. ASSUME NEW g \in Threads, SubmitFlip(g)
        PROVE  /\ FlipsCounted' /\ flip_pending_num' \in Int /\ command_queue' \in Seq(Commands)
    <2>1. /\ pc[g] = "flip" /\ pc'[g] = "send" /\ \A h \in Threads \ {g} : pc'[h] = pc[h]
          /\ flip_pending_num' = flip_pending_num + 1 /\ command_queue' = command_queue
          /\ requests' = requests /\ present' = present
      BY <1>1, <1>6 DEF SubmitFlip, Goto, TypeOK, queueVars, portVars
    <2>2. Cardinality(At("send")') = s + 1
      BY <1>2, <2>1, AtStep DEF s
    <2>3. q' = q /\ r' = r /\ p' = p
      BY <2>1 DEF q, r, p
    <2> QED
      BY <1>1, <1>2, <1>3, <2>1, <2>2, <2>3
  <1>7. ASSUME NEW g \in Threads, SendCommand(g)
        PROVE  /\ FlipsCounted' /\ flip_pending_num' \in Int /\ command_queue' \in Seq(Commands)
    <2> DEFINE c == [kind |-> "flip", index |-> Blank]
    <2>1. /\ pc[g] = "send" /\ pc'[g] = "idle" /\ \A h \in Threads \ {g} : pc'[h] = pc[h]
          /\ flip_pending_num' = flip_pending_num /\ command_queue' = Append(command_queue, c)
          /\ requests' = requests /\ present' = present
      BY <1>1, <1>7 DEF SendCommand, Send, Goto, TypeOK, videoVars, portVars
    <2>2. c \in FlipCommands /\ c \in Commands
      BY DEF Commands, FlipCommands
    <2> HIDE DEF c
    <2>3. Cardinality(At("send")') = s - 1
      BY <1>2, <2>1, AtStep DEF s
    <2>4. q' = q + 1 /\ command_queue' \in Seq(Commands)
      <3>1. /\ Cardinality(Places(Append(command_queue, c), FlipCommands))
                    = Cardinality(Places(command_queue, FlipCommands)) + 1
            /\ Append(command_queue, c) \in Seq(Commands)
        BY <1>1, <2>2, PlacesAppend, AppendFacts
      <3> QED
        BY <2>1, <3>1 DEF q
    <2>5. r' = r /\ p' = p
      BY <2>1 DEF r, p
    <2> QED
      BY <1>2, <1>3, <2>1, <2>3, <2>4, <2>5
  <1>8. ASSUME NEW g \in Threads, SendCommandAndWait(g)
        PROVE  /\ FlipsCounted' /\ flip_pending_num' \in Int /\ command_queue' \in Seq(Commands)
    <2> DEFINE c == [kind |-> "read", thread |-> g]
    <2>1. /\ pc[g] = "read" /\ pc'[g] = "await" /\ \A h \in Threads \ {g} : pc'[h] = pc[h]
          /\ flip_pending_num' = flip_pending_num /\ command_queue' = Append(command_queue, c)
          /\ requests' = requests /\ present' = present
      BY <1>1, <1>8 DEF SendCommandAndWait, Send, Goto, TypeOK, videoVars, portVars
    <2>2. c \notin FlipCommands /\ c \in Commands
      BY DEF Commands, FlipCommands
    <2> HIDE DEF c
    <2>3. Cardinality(At("send")') = s
      BY <1>2, <2>1, AtStep DEF s
    <2>4. q' = q /\ command_queue' \in Seq(Commands)
      <3>1. /\ Cardinality(Places(Append(command_queue, c), FlipCommands))
                    = Cardinality(Places(command_queue, FlipCommands)) + 0
            /\ Append(command_queue, c) \in Seq(Commands)
        BY <1>1, <2>2, PlacesAppend, AppendFacts
      <3> QED
        BY <1>2, <2>1, <3>1 DEF q
    <2>5. r' = r /\ p' = p
      BY <2>1 DEF r, p
    <2> QED
      BY <1>1, <1>2, <1>3, <2>1, <2>3, <2>4, <2>5
  <1>9. ASSUME NEW g \in Threads, GuestStep(g) \/ \E kind \in CallKinds : Begin(g, kind),
               ~SubmitFlip(g), ~SendCommand(g), ~SendCommandAndWait(g)
        PROVE  /\ FlipsCounted' /\ flip_pending_num' \in Int /\ command_queue' \in Seq(Commands)
    <2>1. /\ UNCHANGED <<flip_pending_num, command_queue, requests, present>>
          /\ pc[g] \notin {"flip", "send", "read"}
      <3> USE DEF queueVars, videoVars, portVars
      <3>1. CASE \E kind \in CallKinds : Begin(g, kind)
        BY <3>1 DEF Begin
      <3>2. CASE LockSubmit(g) \/ WaitGpuIdle(g) \/ PatchFlipRequest(g) \/ SubmitGfx(g)
        BY <3>2 DEF LockSubmit, WaitGpuIdle, PatchFlipRequest, SubmitGfx
      <3>3. CASE PushAsc(g) \/ CountAsc(g) \/ CheckIdle(g) \/ RaiseLock(g) \/ SubmitDone(g)
        BY <3>3 DEF PushAsc, CountAsc, CheckIdle, RaiseLock, SubmitDone
      <3> QED
        BY <1>9, <3>1, <3>2, <3>3 DEF GuestStep
    <2>2. pc'[g] # "send" /\ \A h \in Threads \ {g} : pc'[h] = pc[h]
      BY <1>9, <2>1, GuestMoves DEF Holding
    <2> QED
      BY <1>5, <2>1, <2>2
  <1>10. CASE DrainCommand
    <2> DEFINE c == Head(command_queue)
    <2>1. /\ command_queue # <<>> /\ command_queue' = Tail(command_queue) /\ c \in Commands
          /\ command_queue' \in Seq(Commands)
          /\ UNCHANGED <<flip_pending_num, present>>
          /\ \/ /\ c.kind = "flip" /\ pc' = pc
                /\ requests' = Append(requests, [index |-> Blank, eop |-> FALSE])
             \/ /\ c.kind = "read" /\ requests' = requests
                /\ c.thread \in Threads /\ pc[c.thread] = "await"
                /\ pc' = [pc EXCEPT ![c.thread] = "idle"]
      BY <1>10, DrainForms DEF portVars
    <2>2. (c.kind = "flip" <=> c \in FlipCommands) /\ (c.kind = "flip" => c.kind # "read")
      BY <2>1 DEF Commands, FlipCommands
    <2>3. Cardinality(At("send")') = s
      <3>1. \A g \in Threads : pc'[g] = "send" <=> pc[g] = "send"
        BY <1>1, <2>1 DEF TypeOK
      <3> QED
        BY <3>1, AtSame DEF s
    <2>4. p' = p
      BY <2>1 DEF p
    <2>5. q = q' + (IF c \in FlipCommands THEN 1 ELSE 0) /\ q' \in Nat
      <3>1. /\ Cardinality(Places(command_queue, FlipCommands))
                    = Cardinality(Places(Tail(command_queue), FlipCommands))
                      + (IF c \in FlipCommands THEN 1 ELSE 0)
            /\ Cardinality(Places(Tail(command_queue), FlipCommands)) \in Nat
        <4>1. Tail(command_queue) \in Seq(Commands)
          BY <2>1
        <4> QED
          BY <1>1, <2>1, <4>1, PlacesTail, PlacesFinite
      <3> QED
        BY <2>1, <3>1 DEF q
    <2>6. r' = r + (IF c \in FlipCommands THEN 1 ELSE 0)
      <3> DEFINE a == [index |-> Blank, eop |-> FALSE]
      <3>1. a \in Requests
        BY DEF Requests
      <3> HIDE DEF a
      <3>2. Len(Append(requests, a)) = Len(requests) + 1
        BY <1>1, <3>1, AppendFacts
      <3>3. CASE c.kind = "flip"
        BY <2>1, <2>2, <3>2, <3>3 DEF r, a
      <3>4. CASE c.kind # "flip"
        BY <1>2, <2>1, <2>2, <3>4 DEF r
      <3> QED
        BY <3>3, <3>4
    <2> HIDE DEF c
    <2> QED
      BY <1>2, <1>3, <2>1, <2>3, <2>4, <2>5, <2>6
  <1>11. CASE PatchedFlip
    <2> DEFINE a == [index |-> Head(subscribers), eop |-> TRUE]
    <2>1. /\ flip_pending_num' = flip_pending_num + 1 /\ requests' = Append(requests, a)
          /\ present' = present /\ command_queue' = command_queue
          /\ \A g \in Threads : pc'[g] = pc[g]
      BY <1>11 DEF PatchedFlip, SubmitFlipEop, SubmitFlipInternal, portVars, ExecUnchanged, guestVars
    <2> HIDE DEF a
    <2>2. Cardinality(At("send")') = s /\ q' = q /\ p' = p
      BY <2>1, AtSame DEF s, q, p
    <2>3. r' = r + 1
      <3>1. Len(Append(requests, a)) = Len(requests) + 1
        BY <1>1
      <3> QED
        BY <2>1, <3>1 DEF r
    <2> QED
      BY <1>1, <1>2, <1>3, <2>1, <2>2, <2>3
  <1>12. CASE (GpuStep \/ PresentStep) /\ ~DrainCommand
                /\ UNCHANGED <<flip_pending_num, requests, present>>
    <2>1. pc' = pc
      BY <1>12, GuestAlone
    <2>2. command_queue' = command_queue
      <3> USE DEF queueVars
      <3>1. CASE PresentStep
        BY <3>1 DEF PresentStep
      <3>2. CASE Advancing
        BY <3>2, AdvancingForms
      <3>3. CASE ProcessWait \/ ProcessLoop \/ ProcessCeQueue \/ PickQueue \/ PollCommands
        BY <3>3 DEF ProcessWait, ProcessLoop, ProcessCeQueue, PickQueue, PollCommands
      <3>4. CASE FinishBuffer \/ RoundTail \/ RoundFlush \/ IdleInterrupt
        BY <3>4 DEF FinishBuffer, RoundTail, RoundFlush, IdleInterrupt
      <3> QED
        BY <1>12, <3>1, <3>2, <3>3, <3>4 DEF GpuStep, Advancing
    <2> QED
      BY <1>5, <1>12, <2>1, <2>2
  <1>13. CASE PresentStep
    <2>1. command_queue' = command_queue /\ \A g \in Threads : pc'[g] = pc[g]
      BY <1>13 DEF PresentStep, queueVars, guestVars
    <2>2. Cardinality(At("send")') = s /\ q' = q
      BY <2>1, AtSame DEF s, q
    <2>3. CASE ReceiveRequest
      <3>1. r = r' + 1 /\ r' \in Nat
        <4>1. /\ requests # <<>> /\ Len(requests) > 0 /\ Len(Tail(requests)) = Len(requests) - 1
              /\ requests' = Tail(requests)
          BY <1>1, <2>3, PopFacts DEF ReceiveRequest
        <4>2. r > 0 /\ r' = r - 1
          BY <4>1 DEF r
        <4> QED
          BY <1>2, <4>2
      <3>2. p = 0 /\ p' = 1 /\ flip_pending_num' = flip_pending_num
        BY <2>3 DEF ReceiveRequest, p
      <3> QED
        BY <1>1, <1>2, <1>3, <2>1, <2>2, <3>1, <3>2
    <2>4. CASE FlipStatus
      <3>1. p = 1 /\ p' = 0 /\ flip_pending_num' = flip_pending_num - 1 /\ r' = r
        BY <2>4 DEF FlipStatus, p, r
      <3> QED
        BY <1>1, <1>2, <1>3, <2>1, <2>2, <3>1
    <2>5. CASE ResetLabel \/ FlipDone
      <3>1. p = 0 /\ p' = 0 /\ flip_pending_num' = flip_pending_num /\ r' = r
        BY <2>5 DEF ResetLabel, FlipDone, p, r
      <3> QED
        BY <1>1, <1>2, <1>3, <2>1, <2>2, <3>1
    <2> QED
      BY <1>13, <2>3, <2>4, <2>5 DEF PresentStep
  <1>14. CASE GpuStep /\ ~DrainCommand /\ ~PatchedFlip
    <2>1. UNCHANGED <<flip_pending_num, requests, present>>
      <3> USE DEF videoVars, portVars
      <3>1. CASE WriteData
        BY <3>1 DEF WriteData
      <3>2. CASE WaitRegMem \/ WaitVoLabel \/ OtherPacket
        BY <3>2 DEF WaitRegMem, WaitVoLabel, OtherPacket
      <3>3. CASE ProcessWait \/ ProcessLoop \/ ProcessCeQueue \/ PickQueue \/ PollCommands
        BY <3>3 DEF ProcessWait, ProcessLoop, ProcessCeQueue, PickQueue, PollCommands
      <3>4. CASE FinishBuffer \/ RoundTail \/ RoundFlush \/ IdleInterrupt
        BY <3>4 DEF FinishBuffer, RoundTail, RoundFlush, IdleInterrupt
      <3> QED
        BY <1>14, <3>1, <3>2, <3>3, <3>4 DEF GpuStep
    <2> QED
      BY <1>12, <1>14, <2>1
  <1> QED
    BY <1>6, <1>7, <1>8, <1>9, <1>10, <1>11, <1>13, <1>14 DEF Next

-----------------------------------------------------------------------------
(* Types, and the theorems. *)

LEMMA TypeStep ==
    ASSUME IndInv, Next
    PROVE  TypeOK'
  <1>1. TypeOK
    BY DEF IndInv
  <1>2. /\ submits' \in [{Gfx, Asc} -> Seq(Seq(Packets))]
        /\ ce_submits' \in Nat /\ num_submits' \in Nat
        /\ command_queue' \in Seq(Commands) /\ flip_pending_num' \in Int
        /\ gpu' \in GpuPlaces /\ curr_qid' \in {-1, Gfx, Asc} /\ polling' \in BOOLEAN
        /\ subscribers' \in Seq(Buffers)
    BY QueueStep, SubmitsStep, FlipsStep, GpuInvStep, SubscribersStep
  <1>3. LabelTypes'
    BY LabelStep
  <1>4. frames' \in Nat
    <2>1. frames \in Nat /\ frames + 1 \in Nat
      BY <1>1 DEF TypeOK
    <2>2. frames' = frames \/ frames' = frames + 1
      BY PendingForms
    <2> QED
      BY <2>1, <2>2
  <1>5. /\ pc' \in [Threads -> {"idle", "lock", "flip", "send", "read", "await"} \cup Holding]
        /\ call' \in [Threads -> CallKinds \cup {"none"}]
        /\ m_submit_lock' \in Threads \cup {NoOne}
    <2>1. ASSUME NEW g \in Threads, GuestStep(g) \/ \E kind \in CallKinds : Begin(g, kind)
          PROVE  m_submit_lock' \in Threads \cup {NoOne}
      <3>1. m_submit_lock' \in {m_submit_lock, g, NoOne}
        BY <2>1, GuestMoves
      <3> QED
        BY <1>1, <3>1 DEF TypeOK
    <2>2. CASE GpuStep \/ PresentStep
      <3>1. UNCHANGED <<m_submit_lock, call>>
        BY <2>2, GuestAlone
      <3>2. pc' \in [Threads -> {"idle", "lock", "flip", "send", "read", "await"} \cup Holding]
        BY <1>1, <2>2, GuestAlone, DrainForms DEF TypeOK
      <3> QED
        BY <1>1, <3>1, <3>2 DEF TypeOK
    <2> QED
      BY <2>1, <2>2, GuestMoves DEF Next
  <1>6. num_mapped_queues' \in {1, 2} /\ submit_done' \in BOOLEAN /\ submission_lock' \in BOOLEAN
    <2>1. /\ num_mapped_queues \in {1, 2} /\ submit_done \in BOOLEAN
          /\ submission_lock \in BOOLEAN
      BY <1>1 DEF TypeOK
    <2>2. /\ num_mapped_queues' \in {2, num_mapped_queues}
          /\ submit_done' \in {TRUE, FALSE, submit_done}
          /\ submission_lock' \in {TRUE, FALSE, submission_lock}
      <3> USE DEF queueVars
      <3>1. ASSUME NEW g \in Threads, NEW kind \in CallKinds, Begin(g, kind)
            PROVE  UNCHANGED <<num_mapped_queues, submit_done, submission_lock>>
        BY <3>1 DEF Begin
      <3>2. ASSUME NEW g \in Threads,
                   LockSubmit(g) \/ WaitGpuIdle(g) \/ PatchFlipRequest(g) \/ SubmitGfx(g)
            PROVE  UNCHANGED <<num_mapped_queues, submit_done, submission_lock>>
        BY <3>2 DEF LockSubmit, WaitGpuIdle, PatchFlipRequest, SubmitGfx
      <3>3. ASSUME NEW g \in Threads, PushAsc(g) \/ CheckIdle(g) \/ SubmitFlip(g)
            PROVE  UNCHANGED <<num_mapped_queues, submit_done, submission_lock>>
        BY <3>3 DEF PushAsc, CheckIdle, SubmitFlip
      <3>4. ASSUME NEW g \in Threads, SendCommand(g) \/ SendCommandAndWait(g)
            PROVE  UNCHANGED <<num_mapped_queues, submit_done, submission_lock>>
        BY <3>4 DEF SendCommand, SendCommandAndWait, Send
      <3>5. ASSUME NEW g \in Threads, CountAsc(g)
            PROVE  num_mapped_queues' = 2 /\ UNCHANGED <<submit_done, submission_lock>>
        BY <3>5 DEF CountAsc
      <3>6. ASSUME NEW g \in Threads, RaiseLock(g)
            PROVE  submission_lock' = TRUE /\ UNCHANGED <<num_mapped_queues, submit_done>>
        BY <3>6 DEF RaiseLock
      <3>7. ASSUME NEW g \in Threads, SubmitDone(g)
            PROVE  submit_done' = TRUE /\ UNCHANGED <<num_mapped_queues, submission_lock>>
        BY <3>7 DEF SubmitDone
      <3>8. CASE Advancing
        BY <3>8, AdvancingForms
      <3>9. CASE \/ PresentStep \/ ProcessWait \/ ProcessLoop \/ ProcessCeQueue \/ PickQueue
                 \/ PollCommands \/ DrainCommand
        BY <3>9 DEF PresentStep, ProcessWait, ProcessLoop, ProcessCeQueue, PickQueue, PollCommands,
                    DrainCommand
      <3>10. CASE FinishBuffer \/ RoundTail \/ RoundFlush \/ IdleInterrupt
        BY <3>10 DEF FinishBuffer, RoundTail, RoundFlush, IdleInterrupt
      <3> QED
        BY <3>1, <3>2, <3>3, <3>4, <3>5, <3>6, <3>7, <3>8, <3>9, <3>10
           DEF Next, GuestStep, GpuStep, Advancing
    <2> QED
      BY <2>1, <2>2
  <1> QED
    BY <1>2, <1>3, <1>4, <1>5, <1>6 DEF TypeOK, LabelTypes

LEMMA CountedStep ==
    ASSUME IndInv, Next
    PROVE  Counted'
  <1>1. /\ submits' \in [{Gfx, Asc} -> Seq(Seq(Packets))] /\ ce_submits' \in Nat
        /\ command_queue' \in Seq(Commands)
    BY TypeStep DEF TypeOK
  <1> DEFINE c == Cardinality(At("count")')
             x == Len(submits'[Gfx]) + Len(submits'[Asc]) + ce_submits'
  <1>2. c \in Nat /\ x \in Nat
    <2>1. IsFiniteSet(At("count")')
      BY FiniteAssumption, FS_Subset DEF At
    <2>2. Len(submits'[Gfx]) \in Nat /\ Len(submits'[Asc]) \in Nat
      BY <1>1
    <2> QED
      BY <1>1, <2>1, <2>2, FS_CardinalityType
  <1>3. num_submits' = Add(x - c, 0)
    BY SubmitsStep DEF SubmitsCounted, Total
  <1> HIDE DEF c, x
  <1>4. num_submits' = Add(x, -c)
    BY <1>2, <1>3, AddDifference
  <1>5. flip_pending_num' = Flips'
    BY FlipsStep DEF FlipsCounted
  <1>6. {i \in 1 .. Len(command_queue') : command_queue'[i].kind = "flip"}
            = Places(command_queue', FlipCommands)
    BY <1>1, FlipPlaces
  <1> QED
    BY <1>4, <1>5, <1>6 DEF Counted, Flips, c, x

LEMMA NextInv == IndInv /\ [Next]_vars => IndInv'
  <1> SUFFICES ASSUME IndInv, [Next]_vars PROVE IndInv'
    OBVIOUS
  <1>1. CASE Next
    BY <1>1, TypeStep, LockStep, ReadStep, QueueStep, GpuInvStep, SubscribersStep, LabelStep,
       CountedStep, AsleepStep DEF IndInv
  <1>2. CASE UNCHANGED vars
    <2>1. UNCHANGED <<submits, ce_submits, num_submits, num_mapped_queues, command_queue, submit_done,
                      curr_qid, polling, gpu, submission_lock, subscribers, m_submit_lock, pc, call,
                      frames, budget, buffer_labels, prev_index, present, showing,
                      flip_pending_num, requests>>
      BY <1>2 DEF vars, queueVars, gpuVars, guestVars, videoVars, portVars
    <2>2. TypeOK' /\ LockInv' /\ ReadInv' /\ QueueInv'
      BY <2>1 DEF IndInv, TypeOK, LockInv, ReadInv, QueueInv
    <2>3. GpuInv' /\ AsleepOnlyIdle'
      BY <2>1 DEF IndInv, GpuInv, AsleepOnlyIdle, HasWork
    <2>4. Counted'
      BY <2>1 DEF IndInv, Counted, At
    <2>5. SubscribersInv' /\ LabelInv'
      <3>1. (Pending' <=> Pending)
        BY <2>1 DEF Pending
      <3>2. SubscribersInv'
        BY <2>1, <3>1, SameFrames DEF IndInv
      <3>3. \A b \in Buffers, n \in 1 .. 3 : FrontFrame(b, n)' => FrontFrame(b, n)
        BY <2>1 DEF FrontFrame
      <3>4. LabelInv'
        BY <2>1, <3>3, SameLabels DEF IndInv, TypeOK, LabelTypes, portVars
      <3> QED
        BY <3>2, <3>4
    <2> QED
      BY <2>2, <2>3, <2>4, <2>5 DEF IndInv
  <1> QED
    BY <1>1, <1>2

\* The inductive invariant of the frame path.
THEOREM Invariant == Spec => []IndInv
  <1>1. Init => IndInv
    BY InitInv
  <1>2. IndInv /\ [Next]_vars => IndInv'
    BY NextInv
  <1> QED
    BY <1>1, <1>2, PTL DEF Spec

\* Whatever the threads do and however far compute submissions overtake their count, num_submits is
\* the number of buffers in the queues less those not counted yet, also when the 32-bit counter goes
\* round, and flip_pending_num (flip_status of sceVideoOutGetFlipStatus) is the number of flips on
\* their way to the screen.
THEOREM CountersAreRight == Spec => []Counted
  <1>1. IndInv => Counted
    BY DEF IndInv
  <1> QED
    BY <1>1, Invariant, PTL

\* The command processor thread is never asleep on submit_cv with a submission, a command or a
\* SubmitDone left behind: every place that adds one notifies, under any number of guest threads.
THEOREM SleepsOnlyIdle == Spec => []AsleepOnlyIdle
  <1>1. IndInv => AsleepOnlyIdle
    BY DEF IndInv
  <1> QED
    BY <1>1, Invariant, PTL

\* The subscriber a flip interrupt runs is the one PatchFlipRequest registered with the packet that
\* raised it, and finds the label of its buffer set: the assertions of the end-of-pipe flip callback
\* hold for any number of frames in flight, buffers and submitting threads.
THEOREM InterruptsInOrder == Spec => []FlipIrqInOrder
  <1>1. IndInv => FlipIrqInOrder
    <2> SUFFICES ASSUME IndInv, gpu = "exec", Front.op = "flip"
                 PROVE  /\ subscribers # <<>> /\ Head(subscribers) = Front.buffer
                        /\ buffer_labels[Front.buffer] = 1
      BY DEF FlipIrqInOrder
    <2>1. TypeOK /\ QueueInv /\ GpuInv /\ SubscribersInv /\ LabelInv
      BY DEF IndInv
    <2>2. /\ curr_qid = Gfx /\ submits[Gfx] # <<>> /\ Front.buffer \in Buffers
          /\ IsFrame(submits[Gfx][1], Front.buffer) /\ submits[Gfx][1] \in Seq(Packets)
          /\ Front = submits[Gfx][1][1]
      BY <2>1, ServedFront
    <2>3. PICK pos \in [1 .. Len(subscribers) -> Nat] : Matches(pos)
      BY <2>1 DEF SubscribersInv
    <2>4. subscribers # <<>> /\ Head(subscribers) = Front.buffer
      BY <2>1, <2>2, <2>3, FirstSubscriber
    <2>5. Len(submits[Gfx][1]) = 1
      BY <2>2, FrameFacts
    <2>6. Flipping(Front.buffer)
      BY <2>2, <2>5 DEF Flipping, FrontFrame
    <2> QED
      BY <2>1, <2>2, <2>4, <2>6 DEF LabelInv
  <1> QED
    BY <1>1, Invariant, PTL

\* A buffer whose end-of-pipe flip waits for the present thread, is being shown or is on the screen
\* keeps its label until another one replaces it, so the frame that waits for the label is not drawn
\* over it.
THEOREM LabelsAreHeld == Spec => []LabelHeld
  <1>1. IndInv => LabelHeld
    <2> SUFFICES ASSUME IndInv PROVE LabelHeld
      OBVIOUS
    <2>1. TypeOK /\ LabelInv
      BY DEF IndInv
    <2>2. \A r \in Requests : r.eop => r.index \in Buffers /\ r = [index |-> r.index, eop |-> TRUE]
      <3>1. ASSUME NEW r \in Requests, r.eop
            PROVE  r.index \in Buffers /\ r = [index |-> r.index, eop |-> TRUE]
        <4>1. r \in [index : Buffers, eop : {TRUE}]
          BY <3>1 DEF Requests
        <4> QED
          BY <4>1
      <3> QED
        BY <3>1
    <2>3. \A i \in 1 .. Len(requests) : requests[i].eop => buffer_labels[requests[i].index] = 1
      <3>1. ASSUME NEW i \in 1 .. Len(requests), requests[i].eop
            PROVE  buffer_labels[requests[i].index] = 1
        <4>1. requests[i] \in Requests
          BY <2>1 DEF TypeOK
        <4>2. requests[i].index \in Buffers /\ Queued(requests[i].index)
          BY <2>2, <3>1, <4>1 DEF Queued
        <4> QED
          BY <2>1, <4>2 DEF LabelInv
      <3> QED
        BY <3>1
    <2>4. present # "idle" /\ showing.eop => buffer_labels[showing.index] = 1
      <3>1. showing \in Requests
        BY <2>1 DEF TypeOK
      <3>2. present # "idle" /\ showing.eop => showing.index \in Buffers /\ Showing(showing.index)
        BY <2>2, <3>1 DEF Showing
      <3> QED
        BY <2>1, <3>2 DEF LabelInv
    <2>5. present # "signal" /\ prev_index # Blank => buffer_labels[prev_index] = 1
      BY <2>1 DEF LabelInv, OnScreen, TypeOK
    <2> QED
      BY <2>3, <2>4, <2>5 DEF LabelHeld
  <1> QED
    BY <1>1, Invariant, PTL

=============================================================================
