-------------------------- MODULE MCProcessMemory --------------------------
(***************************************************************************)
(* Pages of four bytes, and a stack of one page under another page table.  *)
(***************************************************************************)
EXTENDS ProcessMemory, TLC

Header(t, o, a, f, m) == [type |-> t, offset |-> o, vAddr |-> a, fileSize |-> f, memSize |-> m]

\* Two parts that share a page, the first with zeros behind it, in either
\* order, and a note between them.
Plain == [ident |-> "lithium",
          headers |-> <<Header(1, 20, 4, 2, 3), Header(1, 10, 7, 3, 6)>>]
Noted == [ident |-> "lithium",
          headers |-> <<Header(1, 10, 9, 4, 4), Header(4, 0, 0, 2, 2), Header(1, 20, 5, 1, 4)>>]

\* Not for this system, and with more headers than segs has entries.
Foreign == [Plain EXCEPT !.ident = "other"]
TooMany == [Noted EXCEPT !.headers = @ \o <<Header(4, 0, 0, 0, 0)>>]

MCBinaries == {Plain, Noted}
AllBinaries == MCBinaries \cup {Foreign, TooMany}

\* The stack slot of an entry that is not assigned is explored for zeros.
Zeros == {Segment(Header(0, 0, 0, 0, 0))}

TopOfSpace == <<7, 1>>
HeapRequests == {<<5, 1>>, <<5, 2>>}

\* Blocks whose addresses lead an exit to no block at all (6 to 15, 22, 23), to
\* a usable block (18, 19, 21: to 8, 12, 20) and to a reserved one (20: to 16).
Mixed == (6 .. 15) \cup (18 .. 23)

\* Block 4 is the kernel's, and block 17 leads there.
Above == (13 .. 15) \cup (17 .. 23)

Symmetry == Permutations(Users)

=============================================================================
