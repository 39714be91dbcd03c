----------------------------- MODULE MCRegistry -----------------------------
(* Registry on a small instance: one user, two organizations, two names     *)
(* that both may want and one that is free, and one product.                *)
EXTENDS Registry, TLC

CONSTANTS u1, o1, o2, n1, n2, p1, r1, r2

OneUser == {u1}

TwoOrgs == {o1, o2}
TwoNames == {n1, n2}
OneProduct == {p1}
TwoRequests == {r1, r2}

Symmetry == Permutations(TwoOrgs)
                \cup Permutations(TwoNames) \cup Permutations(TwoRequests)

=============================================================================
