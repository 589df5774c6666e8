------------------------------ MODULE VideoOut ------------------------------
(***************************************************************************)
(* The flip path of the video output driver (libraries/videoout/driver.cpp *)
(* and video_out.cpp): the buffer labels the GPU waits on, the count of    *)
(* pending flips, the queue of frames and the present thread that shows    *)
(* them.  Liverpool composes it with the threads that submit flips.        *)
(*                                                                         *)
(* Left out: the image itself, vblank status and flip rate (they only      *)
(* delay the present thread), registration of buffers and Close.           *)
(***************************************************************************)
EXTENDS Integers, Sequences

CONSTANTS
    NumBuffers,  \* registered display buffers, indices 0 .. NumBuffers - 1
    MaxPending   \* flip_pending_num above which SubmitFlip refuses, 16 in the code

ASSUME VideoOutAssumption == NumBuffers \in Nat \ {0} /\ MaxPending \in Nat

Buffers == 0 .. NumBuffers - 1
Blank == -1      \* the index of a flip to the blank frame, and of no buffer

VARIABLES
    buffer_labels,     \* 1 from the flip packet of a buffer until it is replaced
    prev_index,        \* the buffer on screen
    flip_pending_num,
    requests,          \* frames ready to be shown
    present,           \* where the present thread is
    showing            \* the request the present thread is in Flip with

portVars == <<buffer_labels, prev_index, present, showing>>
videoVars == <<portVars, flip_pending_num, requests>>

VideoOutInit ==
    /\ buffer_labels = [b \in Buffers |-> 0]
    /\ prev_index = Blank
    /\ flip_pending_num = 0
    /\ requests = <<>>
    /\ present = "idle"
    /\ showing = [index |-> Blank, eop |-> FALSE]

-----------------------------------------------------------------------------
\* SubmitFlip takes the flip: only a flip to a real buffer can find the queue full.
Accepts(index) == index = Blank \/ flip_pending_num <= MaxPending

\* SubmitFlipInternal queues a prepared frame.
SubmitFlipInternal(index, eop) ==
    requests' = Append(requests, [index |-> index, eop |-> eop])

\* An end-of-pipe flip counts itself and queues its frame on the GPU thread.
SubmitFlipEop(index) ==
    /\ Accepts(index)
    /\ flip_pending_num' = flip_pending_num + 1
    /\ SubmitFlipInternal(index, TRUE)
    /\ UNCHANGED portVars

-----------------------------------------------------------------------------
\* The present thread takes a request at a vblank.
ReceiveRequest ==
    /\ present = "idle" /\ requests # <<>>
    /\ showing' = Head(requests)
    /\ requests' = Tail(requests)
    /\ present' = "status"
    /\ UNCHANGED <<buffer_labels, prev_index, flip_pending_num>>

\* Flip, after presentation: the status is updated and the flip events are triggered.
FlipStatus ==
    /\ present = "status"
    /\ flip_pending_num' = flip_pending_num - 1
    /\ present' = IF prev_index = Blank THEN "signal" ELSE "label"
    /\ UNCHANGED <<buffer_labels, prev_index, requests, showing>>

\* Mutant: the label of the buffer now shown is reset instead of the one it replaces.
ResetShownLabel ==
    /\ present = "label"
    /\ buffer_labels' = IF showing.index = Blank THEN buffer_labels
                        ELSE [buffer_labels EXCEPT ![showing.index] = 0]
    /\ present' = "signal"
    /\ UNCHANGED <<prev_index, flip_pending_num, requests, showing>>

\* The label of the buffer that leaves the screen is reset, without a lock.
ResetLabel ==
    /\ present = "label"
    /\ buffer_labels' = [buffer_labels EXCEPT ![prev_index] = 0]
    /\ present' = "signal"
    /\ UNCHANGED <<prev_index, flip_pending_num, requests, showing>>

\* SignalVoLabel, if a label was reset, and the new buffer becomes the one on screen.
FlipDone ==
    /\ present = "signal"
    /\ prev_index' = showing.index
    /\ present' = "idle"
    /\ UNCHANGED <<buffer_labels, flip_pending_num, requests, showing>>
=============================================================================
