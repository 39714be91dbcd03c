------------------------------ MODULE Contract ------------------------------
(***************************************************************************)
(* What a deal room promises the two parties, whatever handlers, copies of *)
(* rows and workflows it is made of: what a deal shows, and whether it is  *)
(* signed, stands for its own milestones that are done; and the deal room  *)
(* does nothing to a payment but release it, once a milestone of its deal  *)
(* that releases it is done.  The parties and the gateway move payments    *)
(* elsewhere (module Payments), by no rule of the contract.                *)
(*                                                                         *)
(* It does not promise that a deal moves forward: the code may take a      *)
(* status, or a signature, back.  Module Deals implements this             *)
(* specification.                                                          *)
(***************************************************************************)
CONSTANTS
    Deal, Milestone, DealOf, TypeOf, Payment, PaymentDeal, ConditionOf,
    StatusAfter,   \* what a deal may show after a milestone of some type
    Released       \* the condition that a milestone of some type meets

VARIABLES
    shown,    \* the status of each deal
    signed,   \* deals that show a signed contract
    done,     \* milestones completed so far
    money,    \* where the money of each payment is
    elsewhere \* payments released elsewhere, and not moved since

contract == <<shown, signed, done, money, elsewhere>>

Concluded(d) == shown[d] # "absent"

DoneFor(d) == {m \in done : DealOf[m] = d}

Init ==
    /\ shown = [d \in Deal |-> "absent"]
    /\ signed = {} /\ done = {} /\ elsewhere = {}
    /\ money = [p \in Payment |-> "open"]

Conclude(d) ==
    /\ ~ Concluded(d)
    /\ shown' = [shown EXCEPT ![d] = "negotiating"]
    /\ UNCHANGED <<signed, done, money, elsewhere>>

Complete(m) ==
    /\ Concluded(DealOf[m])
    /\ done' = done \cup {m}
    /\ UNCHANGED <<shown, signed, money, elsewhere>>

\* The status may be that of any milestone done, not only of the last one.
Earned(d) ==
    {"negotiating"} \cup
    {StatusAfter[TypeOf[m]] : m \in {n \in DoneFor(d) : TypeOf[n] \in DOMAIN StatusAfter}}

Show(d) ==
    /\ Concluded(d)
    /\ \E s \in Earned(d) : shown' = [shown EXCEPT ![d] = s]
    /\ \/ signed' = signed \ {d}
       \/ /\ \E m \in DoneFor(d) : TypeOf[m] = "contract_signing"
          /\ signed' = signed \cup {d}
    /\ UNCHANGED <<done, money, elsewhere>>

Move(p) ==
    /\ Concluded(PaymentDeal[p])
    /\ \E s \in {"open", "held", "released"} :
          /\ money' = [money EXCEPT ![p] = s]
          /\ elsewhere' = IF s = "released" THEN elsewhere \cup {p} ELSE elsewhere \ {p}
    /\ UNCHANGED <<shown, signed, done>>

Release(p) ==
    /\ \E m \in DoneFor(PaymentDeal[p]) : /\ TypeOf[m] \in DOMAIN Released
                                          /\ Released[TypeOf[m]] = ConditionOf[p]
    /\ money' = [money EXCEPT ![p] = "released"]
    /\ UNCHANGED <<shown, signed, done, elsewhere>>

Next ==
    \/ \E d \in Deal : Conclude(d) \/ Show(d)
    \/ \E m \in Milestone : Complete(m)
    \/ \E p \in Payment : Move(p) \/ Release(p)

Spec == Init /\ [][Next]_contract

=============================================================================
