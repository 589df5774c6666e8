---------------------------- MODULE MCOrbisSem ----------------------------
(* Model checking instances of OrbisSem: threads of two priorities; the    *)
(* argument sets of the cfgs that hold negative numbers.                   *)
EXTENDS OrbisSem

CONSTANTS t1, t2, t3

MCPrio == [t \in Threads |-> IF t = t2 THEN 0 ELSE 1]
Reset == {-1}
ResetOrSet == {-1, 2}
InitArguments == {-1, 0, 1}
SignalArguments == {-1, 1, 3}
\* t1 and t3 have the same priority.
SamePriority == Permutations({t1, t3})

===========================================================================
