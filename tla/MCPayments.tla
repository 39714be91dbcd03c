----------------------------- MODULE MCPayments -----------------------------
(* Payments on small instances. *)
EXTENDS Payments, TLC

CONSTANTS p1, p2, r1, r2, advance

OnePayment == {p1}
TwoPayments == {p1, p2}
TwoRequests == {r1, r2}
OneCondition == {advance}
OneConditionOf == p1 :> advance
SameConditionOf == p1 :> advance @@ p2 :> advance

NoBody == {}
\* A body that deletes a payment, and one that disputes p1 and gives it the
\* reference of p2, whichever payment they are sent to.
RedirectBodies == {[deleted |-> TRUE],
                   [id |-> p1, status |-> "disputed", reference |-> {p2}]}

NoPayoutFailure == {"charge_ok", "charge_failed", "transfer_ok"}
OnlySuccess == {"charge_ok"}
NoEvent == {}

Symmetry == Permutations(Request)

=============================================================================
