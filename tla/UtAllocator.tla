---------------------------- MODULE UtAllocator -----------------------------
(***************************************************************************)
(* The manager of untyped memory: the table of untyped objects (ut.c), the *)
(* allocator above it (ut_allocator.c) and the bitfields it keeps its      *)
(* books in (bitfield.c), all in apps/sos/src/ut_manager.                  *)
(*                                                                         *)
(* Memory is handed out in blocks of 2^s, s one of a few sizes.  The       *)
(* primary pool has a bit per slab of 2^PRIMARY; the other bitfield pools  *)
(* have a bit per block of their size, all set (in use) until a slab of    *)
(* the primary pool is broken up for them; the list pools keep a node with *)
(* a bitfield of its own for every slab they have taken.  A bitfield is    *)
(* searched a byte at a time, from next_free on and around.                *)
(***************************************************************************)
EXTENDS Integers, FiniteSets, FiniteSetsExt, Sequences, TLC

CONSTANTS
    PRIMARY,        \* PRIMARY_POOL_SIZEBITS, and MIN_UT_SIZE_BITS of ut.h
    BitfieldSizes,  \* the sizes of the bitfield pools: 14, 12 and 10
    ListSizes,      \* the sizes of the list pools: 9 and 4
    BITS,           \* BITS_PER_BYTE
    DMA_SIZE_BITS,  \* what network_init's DMA memory takes for ever
    BootInfos       \* the untyped objects that seL4 may leave: sequences of [paddr, bits]

ASSUME UtAssumption ==
    /\ PRIMARY \in BitfieldSizes
    /\ \A s \in BitfieldSizes \cup ListSizes : s \in 0 .. PRIMARY
    /\ BitfieldSizes \cap ListSizes = {}
    /\ BITS \in Nat \ {0}
    /\ \A boot \in BootInfos : \A i \in DOMAIN boot : boot[i].paddr % 2^boot[i].bits = 0

NIL == 0       \* the address ut_alloc returns when there is no memory
NONE == -1     \* the offset bf_set_next_free returns

VARIABLES
    table,      \* _ut: the untyped objects in use, in order
    dma,        \* the address of the memory reserved for DMA
    low,        \* _pool_base
    high,       \* the end of the memory of the pools
    pools,      \* pools[s]: _pool14, _pool12, _pool10
    lists,      \* lists[s]: _pool9, _pool4
    held,       \* the blocks that were handed out: <<address, size>>
    exhausted,  \* the primary pool had no slab left for a bitfield pool
    failed      \* an assertion of bitfield.c or ut_allocator.c has failed

vars == <<table, dma, low, high, pools, lists, held, exhausted, failed>>

-----------------------------------------------------------------------------
(* ut.c: the table of untyped objects and the addresses.                   *)

UT_PEND(ut) == ut.paddr + 2^ut.bits

\* _strip_min and _sort_table
Sorted(bi) ==
    SortSeq(SelectSeq(bi, LAMBDA ut : ut.bits >= PRIMARY), LAMBDA a, b : a.paddr < b.paddr)

\* _select_largest_contiguous: the objects are cut into runs without a gap; of the runs with
\* most memory the first is kept.
Contiguous(t, i, j) == \A k \in i .. (j - 1) : UT_PEND(t[k]) = t[k + 1].paddr
RunSize(t, run) == UT_PEND(t[run[2]]) - t[run[1]].paddr
Largest(t) ==
    LET runs == {r \in (DOMAIN t) \X (DOMAIN t) : r[1] <= r[2] /\ Contiguous(t, r[1], r[2])}
        best == {r \in runs : \A q \in runs : RunSize(t, q) <= RunSize(t, r)}
        run == CHOOSE r \in best : \A q \in best : r[1] <= q[1]
    IN  SubSeq(t, run[1], run[2])

\* ut_table_init
Unchecked(bi) == Sorted(bi)
Table(bi) == Largest(Sorted(bi))

\* ut_translate: binary search in the table; the capability is the object itself.  (The device
\* objects it looks at afterwards are not memory of this allocator.)
RECURSIVE Search(_, _, _, _)
Search(t, start, end, addr) ==
    LET index == (start + end) \div 2
    IN  IF start >= end THEN NONE
        ELSE IF addr < t[index].paddr THEN Search(t, start, index, addr)
        ELSE IF UT_PEND(t[index]) <= addr THEN Search(t, index + 1, end, addr)
        ELSE index
ut_translate(addr) == Search(table, 1, Len(table) + 1, addr)

\* ut_steal_mem: the lowest aligned memory of that size.
AlignTop(x, base) == ((x + base - 1) \div base) * base
Stolen(t) == AlignTop(t[1].paddr, 2^DMA_SIZE_BITS)

-----------------------------------------------------------------------------
(* bitfield.c                                                              *)

\* A bitfield: the offsets in use, and what the code believes of it.
NewBitfield(size, used) ==
    [used |-> used, size |-> size, available |-> size - Cardinality(used), next_free |-> 0]

BytesOf(bf) == (bf.size + BITS - 1) \div BITS

\* The bits of a byte that are clear; those behind the size are always set.
ClearBits(bf, byte) ==
    {o \in (byte * BITS) .. (byte * BITS + BITS - 1) : o < bf.size /\ o \notin bf.used}

\* _bf_find_next_free_byte: from next_free to the end, then from the start.  When next_free is -1
\* the search begins in front of the array: junk says whether that byte looks free, in which case
\* the search returns its index, which is -1 and means that nothing was found.
FindByteNoWrap(bf, junk) ==
    LET next == bf.next_free \div BITS
        free == {b \in next .. (BytesOf(bf) - 1) : ClearBits(bf, b) # {}}
    IN  IF free = {} THEN NONE ELSE Min(free)
FindByte(bf, junk) ==
    LET next == bf.next_free \div BITS
        free == {b \in 0 .. (BytesOf(bf) - 1) : ClearBits(bf, b) # {}}
        after == {b \in free : b >= next}
    IN  IF (next = -1 /\ junk) \/ free = {} THEN NONE
        ELSE IF after # {} THEN Min(after) ELSE Min(free)

bf_set(bf, offset) == [bf EXCEPT !.used = @ \cup {offset}, !.available = @ - 1]
bf_clr(bf, offset) == [bf EXCEPT !.used = @ \ {offset}, !.available = @ + 1]

\* bf_set_next_free
NextFree(bf, junk) ==
    LET byte == FindByte(bf, junk)
    IN  IF bf.available = 0 \/ byte = NONE THEN NONE ELSE Min(ClearBits(bf, byte))
bf_set_next_free(bf, junk) ==
    LET offset == NextFree(bf, junk)
    IN  IF offset = NONE THEN bf
        ELSE [bf_set(bf, offset) EXCEPT !.next_free = IF offset + 1 > bf.size THEN 0 ELSE offset + 1]

-----------------------------------------------------------------------------
(* ut_allocator.c                                                          *)

UnitsPerSlab(s) == 2^(PRIMARY - s)

\* The offsets of a pool of size s that make up a slab.
SlabOffsets(s, slab) == (slab * UnitsPerSlab(s)) .. ((slab + 1) * UnitsPerSlab(s) - 1)

\* _bitfield_fill_pool: break up a slab of the primary pool for the pool of size s.
_bitfield_fill_pool(p, s) ==
    LET slab == NextFree(p[PRIMARY], FALSE)
        n == UnitsPerSlab(s)
    IN  IF s = PRIMARY THEN p
        ELSE IF slab = NONE THEN [p EXCEPT ![s].next_free = -1]
        ELSE [p EXCEPT ![PRIMARY] = bf_set_next_free(@, FALSE),
                       ![s] = [@ EXCEPT !.used = @ \ SlabOffsets(s, slab),
                                        !.available = @ + n,
                                        !.next_free = slab * n]]

\* do_ut_alloc_from_bitfield: the pools after it, and the offset it found.
Filled(p, s, junk) == IF NextFree(p[s], junk) = NONE THEN _bitfield_fill_pool(p, s) ELSE p
BitfieldOffset(p, s, junk) == NextFree(Filled(p, s, junk)[s], junk)
BitfieldAlloc(p, s, junk) ==
    [Filled(p, s, junk) EXCEPT ![s] = bf_set_next_free(@, junk)]

\* _bitfield_merge_up: when the whole slab is free it goes back to the primary pool.
MergeKeepsBits(p, s, offset) ==
    LET slab == offset \div UnitsPerSlab(s)
    IN  IF s = PRIMARY \/ SlabOffsets(s, slab) \cap p[s].used # {} THEN p
        ELSE [p EXCEPT ![PRIMARY] = bf_clr(@, slab)]
_bitfield_merge_up(p, s, offset) ==
    LET slab == offset \div UnitsPerSlab(s)
    IN  IF s = PRIMARY \/ SlabOffsets(s, slab) \cap p[s].used # {} THEN p
        ELSE [p EXCEPT ![s] = [@ EXCEPT !.used = @ \cup SlabOffsets(s, slab),
                                        !.available = @ - UnitsPerSlab(s)],
                       ![PRIMARY] = bf_clr(@, slab)]

\* do_ut_free_from_bitfield
BitfieldFree(p, s, offset) ==
    _bitfield_merge_up([p EXCEPT ![s] = bf_clr(@, offset)], s, offset)

\* _pool_list_find_free and _pool_list_find_base: the first node of the list that will do.
FirstNode(nodes, S) == IF S = {} THEN NONE ELSE Min(S)
find_free(nodes) == FirstNode(nodes, {i \in DOMAIN nodes : nodes[i].bitfield.available # 0})
find_base(nodes, base) == FirstNode(nodes, {i \in DOMAIN nodes : nodes[i].base = base})

Remove(nodes, i) == SubSeq(nodes, 1, i - 1) \o SubSeq(nodes, i + 1, Len(nodes))

Address(offset, s) == offset * 2^s + low

\* _new_suballocator, once there is a slab and memory for the node.
Suballocator(slab, s) ==
    [base |-> Address(slab, PRIMARY), bitfield |-> NewBitfield(UnitsPerSlab(s), {})]
-----------------------------------------------------------------------------
\* ut_table_init, ut_steal_mem for the DMA memory, ut_find_memory and ut_allocator_init.  main
\* does not go on without memory for DMA.
Init ==
    /\ \E bi \in BootInfos : table = Table(bi)
    /\ dma = Stolen(table)
    /\ dma + 2^DMA_SIZE_BITS <= UT_PEND(table[Len(table)])
    /\ low = ((dma + 2^DMA_SIZE_BITS) \div 2^PRIMARY) * 2^PRIMARY
    /\ high = AlignTop(UT_PEND(table[Len(table)]), 2^PRIMARY)
    /\ pools = [s \in BitfieldSizes |->
                  LET size == (high - low) \div 2^s
                  IN  NewBitfield(size, IF s = PRIMARY THEN {} ELSE 0 .. (size - 1))]
    /\ lists = [s \in ListSizes |-> <<>>]
    /\ held = {}
    /\ exhausted = FALSE
    /\ failed = FALSE

\* ut_alloc of a size that has a bitfield pool.
do_ut_alloc_from_bitfield(s, junk) ==
    LET offset == BitfieldOffset(pools, s, junk)
    IN  /\ pools' = BitfieldAlloc(pools, s, junk)
        /\ held' = IF offset = NONE THEN held ELSE held \cup {<<Address(offset, s), s>>}
        /\ exhausted' = (exhausted \/ pools'[s].next_free = -1)
        /\ UNCHANGED <<table, dma, low, high, lists, failed>>

\* ut_alloc of a size that has a list: a node with room, or a new one at the head of the list.
do_ut_alloc_from_list(s) ==
    LET i == find_free(lists[s])
        slab == BitfieldOffset(pools, PRIMARY, FALSE)
        taken(nodes, k) == [nodes EXCEPT ![k].bitfield = bf_set_next_free(@, FALSE)]
        block(nodes, k) ==
            <<NextFree(nodes[k].bitfield, FALSE) * 2^s + nodes[k].base, s>>
        grown == <<Suballocator(slab, s)>> \o lists[s]
    IN  /\ \/ /\ i # NONE
              /\ lists' = [lists EXCEPT ![s] = taken(@, i)]
              /\ held' = held \cup {block(lists[s], i)}
              /\ failed' = (NextFree(lists[s][i].bitfield, FALSE) = NONE)
              /\ UNCHANGED pools
           \/ /\ i = NONE /\ slab # NONE
              /\ pools' = BitfieldAlloc(pools, PRIMARY, FALSE)
              /\ lists' = [lists EXCEPT ![s] = taken(grown, 1)]
              /\ held' = held \cup {block(grown, 1)}
              /\ UNCHANGED failed
           \* no memory for the node, or no slab
           \/ /\ i = NONE
              /\ pools' = IF slab = NONE THEN pools
                          ELSE BitfieldFree(BitfieldAlloc(pools, PRIMARY, FALSE), PRIMARY, slab)
              /\ UNCHANGED <<lists, held, failed>>
        /\ UNCHANGED <<table, dma, low, high, exhausted>>

\* ut_free.  The callers free what they were given.
do_ut_free_from_bitfield(block) ==
    LET offset == (block[1] - low) \div 2^block[2]
    IN  /\ block \in held /\ block[2] \in BitfieldSizes
        /\ pools' = BitfieldFree(pools, block[2], offset)
        /\ held' = held \ {block}
        /\ failed' = (offset \notin pools[block[2]].used)
        /\ UNCHANGED <<table, dma, low, high, lists, exhausted>>

\* The node of a slab that is free again is detached and the slab returned.
do_ut_free_from_list(block) ==
    LET s == block[2]
        base == (block[1] \div 2^PRIMARY) * 2^PRIMARY
        offset == (block[1] - base) \div 2^s
        i == find_base(lists[s], base)
        bf == bf_clr(lists[s][i].bitfield, offset)
    IN  /\ block \in held /\ s \in ListSizes
        /\ held' = held \ {block}
        /\ \/ /\ i = NONE \/ offset \notin lists[s][i].bitfield.used
              /\ failed' = TRUE
              /\ UNCHANGED <<pools, lists>>
           \/ /\ i # NONE /\ offset \in lists[s][i].bitfield.used
              /\ IF bf.available = UnitsPerSlab(s)
                 THEN /\ lists' = [lists EXCEPT ![s] = Remove(@, i)]
                      /\ pools' = BitfieldFree(pools, PRIMARY, (base - low) \div 2^PRIMARY)
                 ELSE /\ lists' = [lists EXCEPT ![s][i].bitfield = bf]
                      /\ UNCHANGED pools
              /\ UNCHANGED failed
        /\ UNCHANGED <<table, dma, low, high, exhausted>>

Next ==
    /\ ~failed
    /\ \/ \E s \in BitfieldSizes, junk \in BOOLEAN : do_ut_alloc_from_bitfield(s, junk)
       \/ \E s \in ListSizes : do_ut_alloc_from_list(s)
       \/ \E block \in held : do_ut_free_from_bitfield(block) \/ do_ut_free_from_list(block)

Spec == Init /\ [][Next]_vars
-----------------------------------------------------------------------------
Units(block) == block[1] .. (block[1] + 2^block[2] - 1)

\* The memory that a pool has to give: a clear bit of pool s, or of a node of list s.
FreeIn(bf, s, base) ==
    {<<base + o * 2^s, s>> : o \in {p \in 0 .. (bf.size - 1) : p \notin bf.used}}

FreeBlocks(s) ==
    IF s \in BitfieldSizes THEN FreeIn(pools[s], s, low)
    ELSE UNION {FreeIn(lists[s][i].bitfield, s, lists[s][i].base) : i \in DOMAIN lists[s]}

Sizes == BitfieldSizes \cup ListSizes
Blocks == held \cup UNION {FreeBlocks(s) : s \in Sizes}

\* "The physical address of the reserved memory which can be passed to ut_translate" (ut.h):
\* every block that was handed out lies inside one untyped object, the one ut_translate finds,
\* below the DMA memory's end and the end of the table, and is aligned.
BlocksTranslate ==
    \A block \in held :
        LET i == ut_translate(block[1])
        IN  /\ block[1] % 2^block[2] = 0 /\ block[1] # NIL
            /\ i # NONE
            /\ Units(block) \subseteq Units(<<table[i].paddr, table[i].bits>>)
            /\ Units(block) \cap Units(<<dma, DMA_SIZE_BITS>>) = {}

\* No byte of memory is handed out twice, is free in two pools, or is lost: the blocks that were
\* handed out and the free blocks of all pools cut the memory into disjoint pieces.  The counts
\* of free bits, by which bf_set_next_free and the searches of the lists stop looking, agree
\* with the bits, and the assertions of bf_set, bf_clr, do_ut_alloc_from_list and
\* do_ut_free_from_list hold.
MemoryPartitioned ==
    LET Counts(bf) == bf.available = Cardinality(0 .. (bf.size - 1) \ bf.used)
    IN  /\ \A a, b \in Blocks : a # b => Units(a) \cap Units(b) = {}
        /\ UNION {Units(b) : b \in Blocks} = low .. (high - 1)
        /\ \A s \in BitfieldSizes : Counts(pools[s])
        /\ \A s \in ListSizes : \A i \in DOMAIN lists[s] : Counts(lists[s][i].bitfield)
        /\ ~failed

\* ut_alloc of every size, from a bitfield or from a list, would fail only when neither the pool
\* of that size nor the primary pool has a block left, as long as a bitfield pool has never met
\* an empty primary pool (after which its next_free is -1), and malloc has memory for a node.
FailsOnlyWhenFull ==
    LET Fails(s) ==
            IF s \in BitfieldSizes THEN \E junk \in BOOLEAN : BitfieldOffset(pools, s, junk) = NONE
            ELSE find_free(lists[s]) = NONE /\ BitfieldOffset(pools, PRIMARY, FALSE) = NONE
    IN  ~exhausted => \A s \in Sizes : Fails(s) => FreeBlocks(s) \cup FreeBlocks(PRIMARY) = {}
=============================================================================
