----------------------------- MODULE MCP2PLink -----------------------------
(* Small instances of P2PLink. *)
EXTENDS P2PLink

CONSTANTS a, b, BytesA, BytesB, IssA, IssB

MCSides == {a, b}
MCIss == (a :> IssA) @@ (b :> IssB)
MCMaxBytes == (a :> BytesA) @@ (b :> BytesB)

=============================================================================
