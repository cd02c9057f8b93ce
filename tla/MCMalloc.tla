----------------------------- MODULE MCMalloc ------------------------------
(***************************************************************************)
(* A heap of one page of eight bytes that can grow by two more, with       *)
(* headers of two bytes: blocks of every neighbourhood within a page and   *)
(* across the ends of pages.                                               *)
(***************************************************************************)
EXTENDS Malloc

=============================================================================
