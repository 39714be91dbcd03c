----------------------------- MODULE MCListing ------------------------------
(* Listing on a small instance: pages of one or two rows. *)
EXTENDS Listing

Ids == 1 .. 3
AskedNumbers == {0, 3}

=============================================================================
