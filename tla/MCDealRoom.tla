----------------------------- MODULE MCDealRoom -----------------------------
(* Two pages and two rooms; both messages are about the same deal, so that *)
(* the history, of one message, is shorter than the room.                  *)
EXTENDS DealRoom, TLC

CONSTANTS p1, p2, d1, d2, m1, m2

TwoPages == {p1, p2}
TwoDeals == {d1, d2}
TwoMessages == {m1, m2}
OneRoom == m1 :> d1 @@ m2 :> d1

=============================================================================
