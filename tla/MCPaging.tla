------------------------------ MODULE MCPaging ------------------------------
(* Instances of Paging for TLC: two processes, the first with more pages.  *)
EXTENDS Paging

CONSTANTS p1, p2

MCProc   == {p1, p2}
MCValid  == {<<p1, 1>>, <<p1, 2>>, <<p2, 1>>}
MCValid4 == {<<p1, 1>>, <<p1, 2>>, <<p1, 3>>, <<p2, 1>>}
=============================================================================
