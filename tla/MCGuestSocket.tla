--------------------------- MODULE MCGuestSocket ---------------------------
(* Small instances of GuestSocket. *)
EXTENDS GuestSocket, TLC

CONSTANTS t1, t2

MCThreads == {t1, t2}

Receive == Kind("Recv", TRUE, TRUE, 2)
SendAllOf == Kind("Send", TRUE, TRUE, 2)
TrySend == Kind("Send", FALSE, FALSE, 1)

MCKinds == (t1 :> {SendAllOf, TrySend}) @@ (t2 :> {Receive})

MCAbortFlags == {{"Recv"}, {"Again"}}

=============================================================================
