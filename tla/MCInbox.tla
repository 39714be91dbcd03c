------------------------------ MODULE MCInbox -------------------------------
(* Inbox on a small instance. *)
EXTENDS Inbox

CONSTANTS n1, n2, r1, r2

TwoNotifications == {n1, n2}
TwoRequests == {r1, r2}

=============================================================================
