------------------------------ MODULE Regions -------------------------------
(***************************************************************************)
(* The regions of an address space (vm/addrspace.c): the segments of the   *)
(* image, the stack and the heap, and the system call that moves the break.*)
(* Addresses are seL4_Words: sums wrap at WORD.                            *)
(*                                                                         *)
(* The list as_rhead is a set here: every function that walks it asks      *)
(* whether some region has a property or for the largest top, and          *)
(* region_probe's first match is the only one while regions are disjoint.  *)
(* as_stack and as_heap are sets too, empty while the pointer is NULL.     *)
(*                                                                         *)
(* RegionsNext lets an address space be built from any segments and the    *)
(* break be moved anywhere, in the order proc.c keeps; module ElfLoad      *)
(* takes the operators and has the loader and the copies between the       *)
(* kernel and the process.                                                 *)
(***************************************************************************)
EXTENDS Integers

CONSTANTS
    PAGE_SIZE,
    WORD,         \* addresses and sizes are 0 .. WORD - 1
    STACK_TOP,    \* PROCESS_STACK_TOP
    STACK_SIZE    \* PROCESS_STACK_SIZE

ASSUME RegionsAssumption ==
    /\ PAGE_SIZE \in Nat \ {0} /\ WORD \in Nat \ {0}
    /\ STACK_TOP \in Nat /\ STACK_SIZE \in Nat
    /\ STACK_SIZE + PAGE_SIZE <= STACK_TOP /\ STACK_TOP < WORD
    /\ STACK_TOP % PAGE_SIZE = 0 /\ STACK_SIZE % PAGE_SIZE = 0

VARIABLES
    regions,   \* as_rhead
    stack,     \* as_stack
    heap       \* as_heap

rvars == <<regions, stack, heap>>

Word == 0 .. (WORD - 1)
Region == [vbase : Word, vtop : Word]

PAGE_ALIGN(a) == a - (a % PAGE_SIZE)
PAGE_OFFSET(a) == a % PAGE_SIZE
DIVROUNDUP(a) == ((a + PAGE_SIZE - 1) % WORD) \div PAGE_SIZE

-----------------------------------------------------------------------------
\* An address lies in a region.
In(a, r) == r.vbase <= a /\ a < r.vtop

OverlapsIfInside(r1, r2) == In(r1.vbase, r2)
_region_overlap(r1, r2) ==
    /\ ~(r1.vbase < r2.vbase /\ r1.vtop <= r2.vbase)
    /\ ~(r1.vbase >= r2.vtop /\ r1.vtop >= r2.vtop)

\* _region_init: the region and whether it may be added; the heap is not looked at.
Initialised(vaddr, sz) == [vbase |-> vaddr, vtop |-> (vaddr + sz) % WORD]
_region_init(vaddr, sz, list, stk) ==
    \A r \in list \cup stk : ~_region_overlap(Initialised(vaddr, sz), r)

\* region_probe: the region of an address, if any (a set again).
region_probe(addr) == {r \in stack \cup heap \cup regions : In(addr, r)}

\* The region as_define_region makes of a segment: base and size are rounded separately.
SegmentBase(vaddr) == PAGE_ALIGN(vaddr)
SegmentSize(sz) == (DIVROUNDUP(sz) * PAGE_SIZE) % WORD
SegmentRegion(vaddr, sz) == Initialised(SegmentBase(vaddr), SegmentSize(sz))

as_define_region_ok(vaddr, sz, list, stk) ==
    _region_init(SegmentBase(vaddr), SegmentSize(sz), list, stk)

\* as_define_stack: room for the stack and for the page below it.  The region of the guard
\* page is made but never linked.
StackBase == STACK_TOP - STACK_SIZE
StackUnguarded(list) == _region_init(StackBase, STACK_SIZE, list, {})
StackFits(list) ==
    /\ _region_init(StackBase, STACK_SIZE, list, {})
    /\ _region_init(StackBase - PAGE_SIZE, PAGE_SIZE, list, {})

\* as_define_heap: an empty region above all others (the loop finds the highest top), below the
\* stack.
Tops(list) == {r.vtop : r \in list} \cup {PAGE_SIZE}
Highest(top, list) == \A u \in Tops(list) : u <= top
HeapBase(top) == (DIVROUNDUP(top) * PAGE_SIZE) % WORD
HeapFits(base, list, stk) ==
    /\ \A r \in stk : base <= r.vbase
    /\ _region_init(base, 0, list, stk)

\* sos_sys_brk: the heap after it, and what it returns (0 refused).  h is the heap.
Moved(h, vaddr) ==
    IF vaddr = 0 THEN h
    ELSE IF vaddr < h.vbase THEN [h EXCEPT !.vtop = h.vbase]
    ELSE [h EXCEPT !.vtop = vaddr]
BrkUnchecked(h, vaddr, list, stk) == Moved(h, vaddr)
sos_sys_brk(h, vaddr, list, stk) ==
    LET n == Moved(h, vaddr)
    IN  IF vaddr >= h.vbase /\ \E r \in list \cup stk : _region_overlap(n, r) THEN h ELSE n
sos_sys_brk_returns(h, vaddr, list, stk) ==
    IF vaddr # 0 /\ vaddr >= h.vbase /\ sos_sys_brk(h, vaddr, list, stk).vtop # vaddr THEN 0
    ELSE sos_sys_brk(h, vaddr, list, stk).vtop

-----------------------------------------------------------------------------
RegionsInit == regions = {} /\ stack = {} /\ heap = {}

as_define_region(vaddr, sz) ==
    /\ stack = {} /\ heap = {}
    /\ as_define_region_ok(vaddr, sz, regions, stack)
    /\ regions' = regions \cup {SegmentRegion(vaddr, sz)}
    /\ UNCHANGED <<stack, heap>>

as_define_stack ==
    /\ stack = {} /\ heap = {} /\ StackFits(regions)
    /\ stack' = {Initialised(StackBase, STACK_SIZE)}
    /\ UNCHANGED <<regions, heap>>

as_define_heap ==
    /\ stack # {} /\ heap = {}
    /\ \E top \in Tops(regions) :
         /\ Highest(top, regions) /\ HeapFits(HeapBase(top), regions, stack)
         /\ heap' = {Initialised(HeapBase(top), 0)}
    /\ UNCHANGED <<regions, stack>>

Brk(vaddr) ==
    /\ heap # {}
    /\ heap' = {sos_sys_brk(h, vaddr, regions, stack) : h \in heap}
    /\ UNCHANGED <<regions, stack>>

RegionsNext ==
    \/ \E vaddr, sz \in Word : as_define_region(vaddr, sz)
    \/ as_define_stack \/ as_define_heap
    \/ \E vaddr \in Word : Brk(vaddr)

RegionsSpec == RegionsInit /\ [][RegionsNext]_rvars

-----------------------------------------------------------------------------
\* No address lies in two regions, whatever segments the image has and wherever the break is
\* moved, so the rights and the backing of an address do not depend on the order in which
\* region_probe looks (_region_overlap, as_define_stack, as_define_heap, sos_sys_brk).
Apart(r, s) == \A a \in Word : ~(In(a, r) /\ In(a, s))
RegionsDisjoint ==
    /\ \A r, s \in regions : r # s => Apart(r, s)
    /\ \A r \in regions : \A s \in stack \cup heap : Apart(r, s)
    /\ \A r \in stack : \A s \in heap : Apart(r, s)
=============================================================================
