---------------------------- MODULE RegionsProofs ---------------------------
(***************************************************************************)
(* That no two regions share an address, for every page size, word size,   *)
(* stack and sequence of segments and breaks.                              *)
(***************************************************************************)
EXTENDS Regions, TLAPS

\* Two regions that _region_overlap keeps apart have no address in common, also when the top
\* of one of them has wrapped around.
LEMMA NoOverlapMeansApart ==
    ASSUME NEW r \in Region, NEW s \in Region, ~_region_overlap(r, s)
    PROVE  Apart(r, s) /\ Apart(s, r)
<1>1. r.vbase \in Int /\ r.vtop \in Int /\ s.vbase \in Int /\ s.vtop \in Int
  BY RegionsAssumption DEF Region, Word
<1>2. ASSUME NEW a \in Word, In(a, r), In(a, s) PROVE FALSE
  <2>1. a \in Int
    BY RegionsAssumption DEF Word
  <2>. QED
    BY <1>1, <1>2, <2>1 DEF _region_overlap, In
<1>. QED
  BY <1>2 DEF Apart

\* What _region_init makes of two words is a region.
LEMMA InitialisedIsRegion ==
    ASSUME NEW vaddr \in Word, NEW sz \in Int
    PROVE  Initialised(vaddr, sz) \in Region
<1>1. vaddr \in Int /\ WORD \in Nat \ {0}
  BY RegionsAssumption DEF Word
<1>2. (vaddr + sz) % WORD \in Word
  BY <1>1 DEF Word
<1>. QED
  BY <1>2 DEF Initialised, Region

\* The bases and sizes as_define_region, as_define_stack and as_define_heap compute are words.
LEMMA AlignedWords ==
    ASSUME NEW vaddr \in Word, NEW sz \in Word
    PROVE  SegmentBase(vaddr) \in Word /\ SegmentSize(sz) \in Int
<1>1. vaddr \in Int /\ sz \in Int /\ 0 <= vaddr /\ vaddr < WORD /\ 0 <= sz
  BY RegionsAssumption DEF Word
<1>2. PAGE_SIZE \in Nat \ {0} /\ WORD \in Nat \ {0}
  BY RegionsAssumption
<1>3. vaddr % PAGE_SIZE \in Int /\ 0 <= vaddr % PAGE_SIZE /\ vaddr % PAGE_SIZE <= vaddr
  <2>1. vaddr % PAGE_SIZE \in 0 .. (PAGE_SIZE - 1)
    BY <1>1, <1>2
  <2>2. vaddr = PAGE_SIZE * (vaddr \div PAGE_SIZE) + (vaddr % PAGE_SIZE)
    BY <1>1, <1>2
  <2>3. vaddr \div PAGE_SIZE \in Int /\ 0 <= vaddr \div PAGE_SIZE
    BY <1>1, <1>2
  <2>4. 0 <= PAGE_SIZE * (vaddr \div PAGE_SIZE) /\ PAGE_SIZE * (vaddr \div PAGE_SIZE) \in Int
    BY <1>2, <2>3
  <2>. QED
    BY <1>1, <1>2, <2>1, <2>2, <2>4
<1>4. SegmentBase(vaddr) \in Word
  BY <1>1, <1>2, <1>3 DEF SegmentBase, PAGE_ALIGN, Word
<1>5. SegmentSize(sz) \in Int
  <2>1. (sz + PAGE_SIZE - 1) % WORD \in Int
    BY <1>1, <1>2
  <2>2. DIVROUNDUP(sz) \in Int
    BY <1>2, <2>1 DEF DIVROUNDUP
  <2>3. DIVROUNDUP(sz) * PAGE_SIZE \in Int
    BY <1>2, <2>2
  <2>. QED
    BY <1>2, <2>3 DEF SegmentSize
<1>. QED
  BY <1>4, <1>5

-----------------------------------------------------------------------------
\* The inductive invariant: the regions are regions, at most one stack and one heap, and all of
\* them disjoint.
IInv ==
    /\ regions \subseteq Region /\ stack \subseteq Region /\ heap \subseteq Region
    /\ \A r, s \in heap : r = s
    /\ RegionsDisjoint

\* as_define_region keeps the regions disjoint.
LEMMA DefineRegionStep ==
    ASSUME IInv, NEW vaddr \in Word, NEW sz \in Word, as_define_region(vaddr, sz)
    PROVE  IInv'
<1> DEFINE n == SegmentRegion(vaddr, sz)
<1>1. n \in Region
  BY AlignedWords, InitialisedIsRegion DEF SegmentRegion
<1>2. \A r \in regions : Apart(n, r) /\ Apart(r, n)
  <2>1. ASSUME NEW r \in regions PROVE ~_region_overlap(n, r)
    BY <2>1 DEF as_define_region, as_define_region_ok, _region_init, SegmentRegion
  <2>. QED
    BY <1>1, <2>1, NoOverlapMeansApart DEF IInv
<1>3. regions' = regions \cup {n} /\ stack' = {} /\ heap' = {}
  BY DEF as_define_region
<1>4. \A r, s \in regions' : r # s => Apart(r, s)
  BY <1>2, <1>3 DEF IInv, RegionsDisjoint
<1>. QED
  BY <1>1, <1>3, <1>4 DEF IInv, RegionsDisjoint

\* as_define_stack keeps them disjoint.
LEMMA DefineStackStep ==
    ASSUME IInv, as_define_stack
    PROVE  IInv'
<1> DEFINE n == Initialised(StackBase, STACK_SIZE)
<1>1. n \in Region
  <2>1. StackBase \in Word /\ STACK_SIZE \in Int
    BY RegionsAssumption DEF StackBase, Word
  <2>. QED
    BY <2>1, InitialisedIsRegion
<1>2. \A r \in regions : Apart(n, r) /\ Apart(r, n)
  <2>1. ASSUME NEW r \in regions PROVE ~_region_overlap(n, r)
    BY <2>1 DEF as_define_stack, StackFits, _region_init
  <2>. QED
    BY <1>1, <2>1, NoOverlapMeansApart DEF IInv
<1>3. regions' = regions /\ stack' = {n} /\ heap' = {}
  BY DEF as_define_stack
<1>. QED
  BY <1>1, <1>2, <1>3 DEF IInv, RegionsDisjoint

\* as_define_heap keeps them disjoint.
LEMMA DefineHeapStep ==
    ASSUME IInv, as_define_heap
    PROVE  IInv'
<1>1. PICK top \in Tops(regions) :
        /\ HeapFits(HeapBase(top), regions, stack)
        /\ heap' = {Initialised(HeapBase(top), 0)}
  BY DEF as_define_heap
<1> DEFINE n == Initialised(HeapBase(top), 0)
<1>2. n \in Region
  <2>1. top \in Int /\ PAGE_SIZE \in Nat \ {0} /\ WORD \in Nat \ {0}
    BY RegionsAssumption DEF Tops, IInv, Region, Word
  <2>2. (top + PAGE_SIZE - 1) % WORD \in Int
    BY <2>1
  <2>3. DIVROUNDUP(top) \in Int
    BY <2>1, <2>2 DEF DIVROUNDUP
  <2>4. DIVROUNDUP(top) * PAGE_SIZE \in Int
    BY <2>1, <2>3
  <2>5. HeapBase(top) \in Word
    BY <2>1, <2>4 DEF HeapBase, Word
  <2>. QED
    BY <2>5, InitialisedIsRegion
<1>3. \A r \in regions \cup stack : Apart(n, r) /\ Apart(r, n)
  <2>1. ASSUME NEW r \in regions \cup stack PROVE ~_region_overlap(n, r)
    BY <1>1, <2>1 DEF HeapFits, _region_init
  <2>. QED
    BY <1>2, <2>1, NoOverlapMeansApart DEF IInv
<1>4. regions' = regions /\ stack' = stack /\ heap' = {n}
  BY <1>1 DEF as_define_heap
<1>. QED
  BY <1>2, <1>3, <1>4 DEF IInv, RegionsDisjoint

\* Moving the break keeps them disjoint: a refused break leaves the heap as it was.
LEMMA BrkStep ==
    ASSUME IInv, NEW vaddr \in Word, Brk(vaddr)
    PROVE  IInv'
<1>1. PICK h \in heap : heap = {h}
  BY DEF Brk, IInv
<1> DEFINE n == sos_sys_brk(h, vaddr, regions, stack)
<1>2. h \in Region /\ regions' = regions /\ stack' = stack /\ heap' = {n}
  BY <1>1 DEF IInv, Brk
<1>3. Moved(h, vaddr) \in Region
  BY <1>2 DEF Moved, Region
<1>4. \A r \in regions \cup stack : Apart(h, r) /\ Apart(r, h)
  BY <1>1 DEF IInv, RegionsDisjoint, Apart
<1>5. n \in Region /\ \A r \in regions \cup stack : Apart(n, r) /\ Apart(r, n)
  <2>1. CASE n = h
    BY <1>2, <1>4, <2>1
  <2>2. CASE n # h /\ vaddr >= h.vbase
    <3>1. n = Moved(h, vaddr) /\ \A r \in regions \cup stack : ~_region_overlap(n, r)
      BY <2>2 DEF sos_sys_brk
    <3>. QED
      BY <1>3, <3>1, NoOverlapMeansApart DEF IInv
  <2>3. CASE n # h /\ ~(vaddr >= h.vbase)
    <3>1. n = Moved(h, vaddr) /\ vaddr < h.vbase /\ h.vbase \in Int
      BY <1>2, <2>3, RegionsAssumption DEF sos_sys_brk, Region, Word
    <3>2. n.vtop = n.vbase
      BY <1>2, <2>3, <3>1 DEF Moved, Region
    <3>3. n.vbase \in Int
      BY <1>3, <3>1, RegionsAssumption DEF Region, Word
    <3>4. \A a \in Word : ~In(a, n)
      BY <3>2, <3>3, RegionsAssumption DEF In, Word
    <3>. QED
      BY <1>3, <3>1, <3>4 DEF Apart
  <2>. QED
    BY <2>1, <2>2, <2>3
<1>. QED
  BY <1>2, <1>5 DEF IInv, RegionsDisjoint

\* No address of a process lies in two of its regions, whatever image is loaded and however the
\* break is moved (as_define_region, as_define_stack, as_define_heap, sos_sys_brk).
THEOREM RegionsStayDisjoint == RegionsSpec => []RegionsDisjoint
<1>1. RegionsInit => IInv
  BY DEF RegionsInit, IInv, RegionsDisjoint
<1>2. IInv /\ [RegionsNext]_rvars => IInv'
  <2> SUFFICES ASSUME IInv, [RegionsNext]_rvars PROVE IInv'
    OBVIOUS
  <2>1. CASE UNCHANGED rvars
    BY <2>1 DEF IInv, RegionsDisjoint, rvars
  <2>2. CASE RegionsNext
    BY <2>2, DefineRegionStep, DefineStackStep, DefineHeapStep, BrkStep DEF RegionsNext
  <2>. QED
    BY <2>1, <2>2
<1>3. IInv => RegionsDisjoint
  BY DEF IInv
<1>. QED
  BY <1>1, <1>2, <1>3, PTL DEF RegionsSpec
=============================================================================
