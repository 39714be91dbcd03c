------------------------------- MODULE Escrow -------------------------------
(***************************************************************************)
(* What an escrow ledger promises, whatever handlers, copies, retries and  *)
(* restarts it is made of: an entry shows money only once the gateway took *)
(* it, steps change one entry at a time, and the gateway is told that a    *)
(* charge is known only after its entry was shown as held.  (It may have   *)
(* been withdrawn again by then.)  Module Payments implements this         *)
(* specification.                                                          *)
(***************************************************************************)
CONSTANT Payment

VARIABLES
    ledger,   \* what the ledger shows of each payment
    taken,    \* payments the gateway has taken from their payers
    entered,  \* payments that were shown as held so far
    told      \* payments whose charge was acknowledged to the gateway

escrow == <<ledger, taken, entered, told>>

\* open: agreed, but no money is held for it (any more).
Shown == {"none", "open", "held", "released"}

Init ==
    /\ ledger = [p \in Payment |-> "none"]
    /\ taken = {} /\ entered = {} /\ told = {}

Show(p, s) == ledger' = [ledger EXCEPT ![p] = s]

Agree(p) ==
    /\ ledger[p] = "none"
    /\ Show(p, "open")
    /\ UNCHANGED <<taken, entered, told>>

\* The gateway takes the money of a payment the ledger knows.
Take(p) ==
    /\ ledger[p] # "none"
    /\ taken' = taken \cup {p}
    /\ UNCHANGED <<ledger, entered, told>>

Enter(p) ==
    /\ p \in taken
    /\ \/ Show(p, "held") /\ entered' = entered \cup {p}
       \/ Show(p, "released") /\ UNCHANGED entered
    /\ UNCHANGED <<taken, told>>

\* A failure reported after the money was entered, or an old copy saved over it.
Withdraw(p) ==
    /\ ledger[p] \in {"held", "released"}
    /\ Show(p, "open")
    /\ UNCHANGED <<taken, entered, told>>

Acknowledge(p) ==
    /\ p \in entered
    /\ told' = told \cup {p}
    /\ UNCHANGED <<ledger, taken, entered>>

Next == \E p \in Payment :
    Agree(p) \/ Take(p) \/ Enter(p) \/ Withdraw(p) \/ Acknowledge(p)

Spec == Init /\ [][Next]_escrow

=============================================================================
