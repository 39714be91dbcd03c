------------------------------- MODULE Awards -------------------------------
(***************************************************************************)
(* What buying by quotation promises, whatever handlers, copies of rows,   *)
(* transactions and workflows it is made of: quotations come in only for   *)
(* RFQs that are open, and an RFQ that was opened is never a draft again;  *)
(* the buyer is shown at most as many quotations as came in; and an award  *)
(* is one step, in which the quotation is accepted and the deal appears,   *)
(* of a deal announced before.  Nothing received, accepted, announced or   *)
(* awarded is ever taken back.                                             *)
(*                                                                         *)
(* It does not promise that an RFQ is awarded once: the code does not keep *)
(* that.  Module Rfqs implements this specification.                       *)
(***************************************************************************)
EXTENDS Naturals, FiniteSets

CONSTANTS Rfq, Quote, RfqOf, Deal

VARIABLES
    open,       \* RFQs that have left draft
    received,   \* quotations that came in
    counted,    \* how many of them the buyer is shown, for each RFQ
    accepted,   \* quotations shown as accepted
    announced,  \* deals whose parties have been told
    awards      \* the deals there are, each with the quotation it was made from

market == <<open, received, counted, accepted, announced, awards>>

Init ==
    /\ open = {} /\ received = {} /\ accepted = {}
    /\ counted = [x \in Rfq |-> 0]
    /\ announced = {} /\ awards = {}

\* The number shown may be behind, by any number, but never ahead.
Recount(x) ==
    \E n \in 0 .. Cardinality({q \in received : RfqOf[q] = x}) :
        counted' = [counted EXCEPT ![x] = n]

Publish(x) ==
    /\ open' = open \cup {x}
    /\ Recount(x)
    /\ UNCHANGED <<received, accepted, announced, awards>>

Receive(q) ==
    /\ RfqOf[q] \in open
    /\ q \notin received
    /\ received' = received \cup {q}
    /\ UNCHANGED <<open, counted, accepted, announced, awards>>

\* The parties are told of a deal at most once.
Announce(d) ==
    /\ d \notin announced
    /\ announced' = announced \cup {d}
    /\ UNCHANGED <<open, received, counted, accepted, awards>>

Award(q, d) ==
    /\ q \in received
    /\ d \in announced
    /\ \A a \in awards : a.id # d
    /\ accepted' = accepted \cup {q}
    /\ awards' = awards \cup {[id |-> d, quote |-> q]}
    /\ Recount(RfqOf[q])
    /\ UNCHANGED <<open, received, announced>>

Next ==
    \/ \E x \in Rfq : Publish(x)
    \/ \E q \in Quote : Receive(q)
    \/ \E d \in Deal : Announce(d)
    \/ \E q \in Quote, d \in Deal : Award(q, d)

Spec == Init /\ [][Next]_market

=============================================================================
