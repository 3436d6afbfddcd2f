----------------------------- MODULE MCSwdHost -----------------------------
(* SwdHost on sixteen bytes, a MEM-AP that wraps every eight. *)
EXTENDS SwdHost

R(a, n) == [addr |-> a, size |-> n]

\* Aligned, unaligned at both ends, within a page, over two pages and empty.
MCRanges == {R(0, 8), R(4, 8), R(3, 7), R(6, 1), R(2, 0)}

\* Bytes that make the next block change CSW.
MixedRanges == {R(4, 5), R(4, 8)}
=============================================================================
