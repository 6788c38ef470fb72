--------------------------- MODULE MCUtAllocator ----------------------------
(* Machines with a few slabs of memory (a slab is 4 units) for TLC.        *)
EXTENDS UtAllocator

Ut(paddr, bits) == [paddr |-> paddr, bits |-> bits]

\* Objects out of order and of different sizes, with smaller ones between them; several runs, of
\* which the longest is not the first; two runs of the same size.
Machines ==
    {<<Ut(16, 2), Ut(4, 1), Ut(8, 3)>>,
     <<Ut(24, 2), Ut(6, 1), Ut(8, 2), Ut(32, 2), Ut(28, 2), Ut(12, 2)>>,
     <<Ut(20, 2), Ut(8, 2), Ut(12, 2), Ut(24, 2)>>}
=============================================================================
