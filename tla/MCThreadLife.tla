---------------------------- MODULE MCThreadLife ----------------------------
(* Small instances of ThreadLife. *)
EXTENDS ThreadLife

CONSTANTS c1, c2, p1, p2

MCCallers == {c1, c2}
MCPthreads == {p1, p2}

=============================================================================
