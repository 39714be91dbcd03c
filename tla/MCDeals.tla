------------------------------- MODULE MCDeals ------------------------------
(* Deals on small instances: one deal; one of its milestones releases every *)
(* payment, the other one none; the handlers of one slot may fail.         *)
EXTENDS Deals, TLC

CONSTANTS d1, m1, m2, p1, p2, r1, r2

OneDeal == {d1}
TwoMilestones == {m1, m2}
OfOneDeal == [m \in TwoMilestones |-> d1]
SigningInspection == m1 :> "contract_signing" @@ m2 :> "inspection_completion"
TwoPayments == {p1, p2}
ForOneDeal == [p \in TwoPayments |-> d1]
BothSigned == [p \in TwoPayments |-> "contract_signed"]
PendingOrDone == {"pending", "completed"}
TwoRequests == {r1, r2}
OneSlot == {r1}

=============================================================================
