---------------------------- MODULE MCNorFlash -----------------------------
(* NorFlash with three sectors of two pages. *)
EXTENDS NorFlash

R(a, n) == [addr |-> a, len |-> n]

\* Within a page, over two, a sector, over two sectors, over three, all.
MCRanges == {R(1, 1), R(1, 2), R(3, 4), R(4, 4), R(5, 7), R(2, 10), R(0, 12)}
=============================================================================
