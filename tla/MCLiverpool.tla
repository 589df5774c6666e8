---------------------------- MODULE MCLiverpool ----------------------------
(* Model checking instance of Liverpool: which thread makes which calls.   *)
EXTENDS Liverpool

CONSTANTS g1, g2

\* A thread that submits every kind of buffer and ends frames, and one that submits frames, flips
\* and reads from the CPU.
MCCalls == [g \in Threads |-> IF g = g1 THEN {"frameDone", "draw", "compute"}
                                        ELSE {"frame", "flip", "read"}]
===========================================================================
