------------------------------- MODULE MCRfqs -------------------------------
(* Rfqs on a small instance: two quotations compete for one RFQ. *)
EXTENDS Rfqs, TLC

CONSTANTS x1, q1, q2, d1, d2, r1, r2

OneRfq == {x1}
TwoQuotes == {q1, q2}
SameRfq == q1 :> x1 @@ q2 :> x1
TwoDeals == {d1, d2}
TwoRequests == {r1, r2}

=============================================================================
