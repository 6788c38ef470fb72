----------------------------- MODULE MCElfLoad ------------------------------
(***************************************************************************)
(* Instances of ElfLoad for TLC.  A page has four bytes and a chunk two;   *)
(* the address space has ten pages and the stack is the eighth.            *)
(***************************************************************************)
EXTENDS ElfLoad

Segment(load, vaddr, memsz, offset, filesz) ==
    [load |-> load, vaddr |-> vaddr, memsz |-> memsz, offset |-> offset, filesz |-> filesz]

\* Text and data with bss behind it, and a header that is not loaded between them.
Plain == [segs |-> <<Segment(TRUE, 4, 7, 1, 7), Segment(FALSE, 0, 0, 0, 0),
                     Segment(TRUE, 12, 3, 8, 1)>>, len |-> 9]
\* Not aligned, and a segment that is all bss.
Unaligned == [segs |-> <<Segment(TRUE, 5, 3, 0, 3), Segment(TRUE, 8, 2, 0, 0)>>, len |-> 3]
\* The second page of the segment is not in its region.
Uneven == [segs |-> <<Segment(TRUE, 6, 4, 0, 4)>>, len |-> 4]
\* The first page is shared, and the segment between the two takes time.
Shared == [segs |-> <<Segment(TRUE, 6, 3, 0, 3), Segment(TRUE, 16, 2, 0, 2),
                      Segment(TRUE, 9, 2, 0, 1)>>, len |-> 3]
\* Segments that overlap, lie in page 0, or where the stack and its guard go.
Overlapping == [segs |-> <<Segment(TRUE, 4, 4, 0, 1), Segment(TRUE, 6, 1, 0, 1)>>, len |-> 2]
PageZero == [segs |-> <<Segment(TRUE, 1, 2, 0, 2)>>, len |-> 2]
InStack == [segs |-> <<Segment(TRUE, 24, 4, 0, 1)>>, len |-> 1]
AboveStack == [segs |-> <<Segment(TRUE, 32, 2, 0, 1)>>, len |-> 1]
\* Shorter than its headers say.
Short == [segs |-> <<Segment(TRUE, 4, 3, 0, 3)>>, len |-> 2]

MCImage == {Plain, Unaligned, Uneven, Shared, Overlapping, PageZero, InStack, AboveStack, Short}
\* Buffers, and one in the stack whose end wraps.
MCBuffer == {[buf |-> b, nbyte |-> n] : b \in {5, 13, 18, 28}, n \in {0, 3, 5}}
              \cup {[buf |-> 28, nbyte |-> 39]}
=============================================================================
