---------------------------- MODULE MCEventFlag ----------------------------
(* Model checking instance of EventFlag: two bits, three threads of two    *)
(* priorities, a request of every clear mode and both wait modes.          *)
EXTENDS EventFlag

CONSTANTS t1, t2, t3

MCPrio == [t \in Threads |-> IF t = t2 THEN 1 ELSE 0]
\* An auto-reset of both bits, a timed wait that clears all, a plain timed wait on one bit.
MCRequests == {[pattern |-> {1, 2}, mode |-> "And", clear |-> "Bits", timed |-> FALSE],
               [pattern |-> {1, 2}, mode |-> "Or", clear |-> "All", timed |-> TRUE],
               [pattern |-> {1}, mode |-> "Or", clear |-> "None", timed |-> TRUE]}
MCInitPatterns == {{}, {2}}
MCSetPatterns == {{1}, {1, 2}}
MCClearPatterns == {{2}}
MCCancelPatterns == {{1}}
===========================================================================
