----------------------------- MODULE MCKmalloc -----------------------------
(***************************************************************************)
(* A heap of twenty-four bytes with headers of two: enough for five blocks *)
(* at a time, three of them next to one another and free or in use in      *)
(* every combination.                                                      *)
(***************************************************************************)
EXTENDS Kmalloc

=============================================================================
