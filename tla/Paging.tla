------------------------------- MODULE Paging -------------------------------
(***************************************************************************)
(* Demand paging in SOS: page faults (vm.c), the shadow page tables        *)
(* (pagetable.c), swapping (swap.c), copies between the kernel and a       *)
(* process (copyinout.c) and the end of an address space (as_destroy),     *)
(* all on the frame table of FrameOps.                                     *)
(*                                                                         *)
(* A handler of SOS runs to its end and then leaves a continuation that an *)
(* NFS reply resumes; what interleaves is these continuations.  A handler  *)
(* is therefore an operator from one state of SOS (a record, see Now) to   *)
(* the next, written from the last callback of a chain to its first, and   *)
(* an action applies one such operator.  Every process has one             *)
(* thread, which stays blocked while a fault or a system call of its own   *)
(* is handled: op[p] is its one operation in flight.  The continuation of  *)
(* a process that is killed lives on.                                      *)
(*                                                                         *)
(* All pages of a process lie under one entry of its page directory, so    *)
(* one pair of second-level tables (as_pd_regs[x], as_pd_caps[x]) exists   *)
(* per process.  A page is moved in UNITS NFS requests of one unit each.   *)
(***************************************************************************)
EXTENDS FrameOps, FiniteSetsExt, SequencesExt

CONSTANTS
    Valid,      \* the pages <<p, v>> that lie in a region of p (_check_segfault)
    NSLOTS,     \* slots of the swap file
    UNITS,      \* NFS requests per page: PAGE_SIZE / NFS_SEND_SIZE
    MAXKILLS,   \* bound: how many processes are destroyed
    Warm,       \* TRUE: every process has touched its first page already
    Copies,     \* the directions of copies: a subset of {"copyin", "copyout"}
    Faults      \* what may fail: a subset of Failure

VARIABLES
    ft,       \* the frame table
    alive,    \* processes with an entry in the process table
    dirs,     \* dirs[p]: the frames of as_pd_regs and as_pd_caps
    regs,     \* regs[p]: the frame of as_pd_regs[x]
    caps,     \* caps[p]: the frame of as_pd_caps[x]
    pte,      \* pte[p][v]: the entry as_pd_regs[x][y]
    hw,       \* hw[p][v]: the frame seL4 maps at v for p
    mem,      \* mem[f]: the contents of a frame, by units
    disk,     \* disk[k]: the contents of a slot of the swap file
    slots,    \* the slots whose bit in free_slots is 1
    fh,       \* whether swap_fh is set
    op,       \* op[p]: the continuation of p
    dirty,    \* ghost: the pages <<p, v>> that have been written
    ub        \* ghost: freed memory or a null table was used

vars == <<ft, alive, dirs, regs, caps, pte, hw, mem, disk, slots, fh, op, dirty, ub>>

Failure == {"regs", "caps", "frame",   \* seL4 has no memory for that frame
            "cap",                     \* no capability for the mapping
            "open", "write", "read"}   \* the NFS request cannot be sent or fails

ASSUME PagingAssumption ==
    /\ NSLOTS \in Nat \ {0} /\ UNITS \in Nat \ {0} /\ MAXKILLS \in Nat
    /\ Page \subseteq Nat /\ Warm \in BOOLEAN
    /\ Valid \subseteq Proc \X Page /\ \A p \in Proc : \E v \in Page : <<p, v>> \in Valid
    /\ Copies \subseteq {"copyin", "copyout"} /\ Faults \subseteq Failure

Slot == 0 .. (NSLOTS - 1)
Unit == 1 .. UNITS

NoEntry    == <<"none", INVALID>>
InFrame(f) == <<"frame", f>>      \* PTE_IN_USE_BIT
InSlot(k)  == <<"slot", k>>       \* PTE_IN_USE_BIT | PTE_SWAPPED
IsIn(entry, kind) == entry[1] = kind

Zero == <<"zero", 0>>              \* a unit of zeroes
Junk == <<"junk", 0>>              \* what is left in a frame or a slot nobody has
Filled(x) == [u \in Unit |-> x]   \* a page of one value; a process writes <<p, v>>

\* A continuation.  stage: what sos_page_map or swap_in waits for; client: who asked;
\* inslot: the slot swap_in reads; frame, read: the frame it locked and what has been
\* read; victim, slot, written: the swap-out under way (swap_out_cont_t); sent: the
\* contents of the unit in the NFS write that is under way.
Idle == [stage |-> "idle", client |-> "none", page |-> 0, inslot |-> INVALID,
         frame |-> INVALID, read |-> 0, victim |-> INVALID, phase |-> "none",
         slot |-> INVALID, written |-> 0, sent |-> Zero]

Now == [ft |-> ft, alive |-> alive, dirs |-> dirs, regs |-> regs, caps |-> caps,
        pte |-> pte, hw |-> hw, mem |-> mem, disk |-> disk, slots |-> slots, fh |-> fh,
        op |-> op, dirty |-> dirty, ub |-> ub]

\* The next state of SOS is s; the set has TLC compute it once.
Become(next) ==
    \E s \in {next} :
        /\ ft' = s.ft /\ alive' = s.alive /\ dirs' = s.dirs /\ regs' = s.regs
        /\ caps' = s.caps /\ pte' = s.pte /\ hw' = s.hw /\ mem' = s.mem
        /\ disk' = s.disk /\ slots' = s.slots /\ fh' = s.fh /\ op' = s.op
        /\ dirty' = s.dirty /\ ub' = s.ub

\* Memory of SOS that has been given back, or a null page table, is used: nothing is
\* claimed of what follows.
Undefined(s) == [s EXCEPT !.ub = TRUE]

-----------------------------------------------------------------------------
(* pagetable.c: sos_page_unmap and sos_page_free.                          *)

Unmap(s, p, v) == [s EXCEPT !.hw[p][v] = INVALID]

HasTables(s, p) == s.regs[p] # INVALID /\ s.caps[p] # INVALID

\* _unset_slot; nothing is assumed of the contents of a slot that is not used.
UnsetSlot(s, k) == [s EXCEPT !.slots = @ \ {k}, !.disk[k] = Filled(Junk)]

\* frame_free; nothing is assumed of the contents of a frame that is not allocated.
Freed(s, f) ==
    LET t == FrameFree(s.ft, f)
    IN  IF t = s.ft THEN s ELSE [s EXCEPT !.ft = t, !.mem[f] = Filled(Junk)]

Unlocked(s, f) == [s EXCEPT !.ft = FrameUnlock(s.ft, f)]

\* sos_page_free: a page that is being swapped keeps its frame, the swap frees it.
PageFree(s, p, v) ==
    LET e == s.pte[p][v]
        f == e[2]
        t == IF s.ft.referenced[f] THEN Unmap(s, p, v) ELSE s
    IN  IF ~HasTables(s, p) \/ IsIn(e, "none") THEN s
        ELSE IF IsIn(e, "slot") THEN [UnsetSlot(s, f) EXCEPT !.pte[p][v] = NoEntry]
        ELSE [Freed(t, f) EXCEPT !.pte[p][v] = NoEntry]

\* is_proc_alive(frame_get_pid(kvaddr)) in the callbacks of NFS.
OwnerUnchecked(s, f) == TRUE
OwnerAlive(s, f) == s.ft.as[f] \in s.alive

\* The first n units have been moved: ~(written < PAGE_SIZE), ~(bytes_read < PAGE_SIZE).
WholePage(n) == n >= UNITS

-----------------------------------------------------------------------------
(* The end of an operation.                                                *)

\* The callback of the client: _sos_VMFaultHandler_reply lets the process run again,
\* _copyin_do_copy and _copyout_do_copy copy the page that is now in memory and reply.
ClientDone(s, p, ok) ==
    LET o == s.op[p]
        f == s.pte[p][o.page][2]
        t == [s EXCEPT !.op[p] = Idle]
    IN  IF ok /\ o.client = "copyout"
        THEN [t EXCEPT !.mem[f] = Filled(<<p, o.page>>), !.dirty = @ \cup {<<p, o.page>>}]
        ELSE t

\* _swap_in_end.  After an error the page is freed, if there is one already.
SwapInEndKeepsSlot(s, p, ok) ==
    ClientDone(IF s.op[p].frame = INVALID THEN s ELSE Unlocked(s, s.op[p].frame), p, ok)
SwapInEnd(s, p, ok) ==
    LET o == s.op[p]
        t == IF o.frame = INVALID THEN s ELSE Unlocked(s, o.frame)
    IN  IF ok THEN ClientDone(UnsetSlot(t, o.inslot), p, TRUE)
        ELSE IF o.frame = INVALID THEN ClientDone(t, p, FALSE)
        ELSE IF p \notin s.alive THEN Undefined(s)
        ELSE ClientDone(PageFree(t, p, o.page), p, FALSE)

\* _swap_in_nfs_read_handler when the process is gone: sos_page_free left the frame to us.
SwapInOrphanKept(s, p) ==
    ClientDone(UnsetSlot(Unlocked(s, s.op[p].frame), s.op[p].inslot), p, FALSE)
SwapInOrphan(s, p) ==
    LET f == s.op[p].frame
    IN  ClientDone(UnsetSlot(Freed(Unlocked(s, f), f), s.op[p].inslot), p, FALSE)

\* _swap_in_page_map_cb: the page is mapped and zero; lock it and read the slot.
SwapInMapped(s, p, ok, e) ==
    LET f == s.pte[p][s.op[p].page][2]
        t == [s EXCEPT !.ft = FrameLock(s.ft, f), !.op[p].frame = f, !.op[p].stage = "read"]
    IN  IF ~ok THEN SwapInEnd(s, p, FALSE)
        ELSE IF e = "read" THEN SwapInEnd(t, p, FALSE)
        ELSE t

\* The callback of sos_page_map.
PageMapDone(s, p, ok, e) ==
    IF s.op[p].inslot # INVALID THEN SwapInMapped(s, p, ok, e) ELSE ClientDone(s, p, ok)

-----------------------------------------------------------------------------
(* Allocation of a frame, with a swap-out where one is needed.  frame_alloc *)
(* reports to a callback; here it returns what it tells the callback: the  *)
(* frame, INVALID for kvaddr 0, or WAIT when the callback comes later.     *)

WAIT == -2
Result(s, f) == [state |-> s, frame |-> f]

\* What op[p] asks frame_alloc for, by the stage it is in.
Wanted(p, o) == IF o.stage = "frame" THEN [as |-> p, vaddr |-> o.page, noswap |-> FALSE]
                ELSE [as |-> NULL, vaddr |-> 0, noswap |-> TRUE]

\* _frame_alloc_end
FrameAllocEndNoBzero(s, p, ok, e) ==
    LET f == s.ft.first
        w == Wanted(p, s.op[p])
    IN  IF ~ok \/ ~HasFree(s.ft) \/ (s.ft.status[f] = "UNTYPED" /\ e = s.op[p].stage)
        THEN Result(s, INVALID)
        ELSE Result([s EXCEPT !.ft = TakeFrame(s.ft, w.as, w.vaddr, w.noswap),
                              !.mem[f] = IF s.ft.status[f] = "UNTYPED" THEN Filled(Zero)
                                         ELSE @], f)
FrameAllocEnd(s, p, ok, e) ==
    LET f == s.ft.first
        w == Wanted(p, s.op[p])
    IN  IF ~ok \/ ~HasFree(s.ft) \/ (s.ft.status[f] = "UNTYPED" /\ e = s.op[p].stage)
        THEN Result(s, INVALID)
        ELSE Result([s EXCEPT !.ft = TakeFrame(s.ft, w.as, w.vaddr, w.noswap),
                              !.mem[f] = Filled(Zero)], f)

\* The swap-out under way of p is over, whatever came of it.
SwapOutForgotten(s, p) ==
    [s EXCEPT !.op[p] = [@ EXCEPT !.victim = INVALID, !.phase = "none", !.slot = INVALID,
                                  !.written = 0, !.sent = Zero]]

\* nfs_write of the unit after the first n ones: the data leaves now.
SendUnit(s, p, k, n) ==
    [s EXCEPT !.op[p] = [@ EXCEPT !.phase = "write", !.slot = k, !.written = n,
                                  !.sent = s.mem[s.op[p].victim][n + 1]]]

\* _swap_out_end with an error: k is cont->free_slot.
SwapOutErrorRetries(s, p, k, e) == Result(SendUnit(s, p, k, 0), WAIT)
SwapOutError(s, p, k, e) ==
    LET t == Unlocked(UnsetSlot(s, k), s.op[p].victim)
    IN  FrameAllocEnd(SwapOutForgotten(t, p), p, FALSE, e)

\* _swap_out_end without one: the owner's entry now names the slot, the frame is free.
SwapOutEndNoEntry(s, p, e) ==
    LET f == s.op[p].victim
    IN  FrameAllocEnd(SwapOutForgotten(Freed(Unlocked(s, f), f), p), p, TRUE, e)
SwapOutEnd(s, p, e) ==
    LET f == s.op[p].victim
        t == [s EXCEPT !.pte[s.ft.as[f]][s.ft.vaddr[f]] = InSlot(s.op[p].slot)]
    IN  IF s.ft.as[f] \notin s.alive THEN Result(Undefined(s), WAIT)
        ELSE FrameAllocEnd(SwapOutForgotten(Freed(Unlocked(t, f), f), p), p, TRUE, e)

\* _swap_out_4_nfs_write_cb when the owner of the frame is gone: the frame is freed, but
\* the allocation fails.
SwapOutOrphan(s, p, e) ==
    LET f == s.op[p].victim
        t == Freed(Unlocked(UnsetSlot(s, s.op[p].slot), f), f)
    IN  FrameAllocEnd(SwapOutForgotten(t, p), p, FALSE, e)

\* _swap_out_3.  When the swap file is full the slot in the continuation has never been
\* assigned: g is what malloc left there.
SwapOut3(s, p, e, g) ==
    IF s.slots = Slot THEN SwapOutError(s, p, g, e)
    ELSE LET k == Min(Slot \ s.slots)
             t == [s EXCEPT !.slots = @ \cup {k}]
         IN  IF e = "write" THEN SwapOutError(t, p, k, e)
             ELSE Result(SendUnit(t, p, k, 0), WAIT)

\* swap_out of frame f; the first one opens the swap file (_swap_init).
SwapOut(s, p, f, e, g) ==
    LET t == [s EXCEPT !.ft = FrameLock(s.ft, f), !.op[p].victim = f]
        u == [t EXCEPT !.slots = {}, !.op[p].phase = "open"]
    IN  IF s.fh THEN SwapOut3(t, p, e, g)
        ELSE IF e = "open" THEN SwapOutError(u, p, g, e)
        ELSE Result(u, WAIT)

\* The search for a victim takes the mapping of the pages it passes.
Sweep(s) ==
    LET cleared == SecondChanceCleared(s.ft)
    IN  [s EXCEPT !.ft = SecondChanceSweep(s.ft),
                  !.hw = [p \in Proc |-> [v \in Page |->
                            IF \E f \in cleared : s.ft.as[f] = p /\ s.ft.vaddr[f] = v
                            THEN INVALID ELSE s.hw[p][v]]]]

\* frame_alloc for p, whose operation is now in the given stage.
FrameAlloc(s, p, stage, e, g) ==
    LET t == [s EXCEPT !.op[p].stage = stage]
        f == SecondChanceVictim(s.ft)
    IN  IF HasFree(s.ft) THEN FrameAllocEnd(t, p, TRUE, e)
        ELSE IF f = INVALID THEN Result(t, INVALID)
        ELSE IF \E x \in SecondChanceCleared(s.ft) : s.ft.as[x] \notin s.alive
        THEN Result(Undefined(s), WAIT)
        ELSE SwapOut(Sweep(t), p, f, e, g)

-----------------------------------------------------------------------------
(* sos_page_map, from its last part to its first.                          *)

\* _sos_page_map_5: map frame f and enter it in both tables.
PageMap5(s, p, f, e) ==
    LET v == s.op[p].page
    IN  IF f = INVALID THEN PageMapDone(s, p, FALSE, e)
        ELSE IF p \notin s.alive THEN Undefined(s)
        ELSE IF e = "cap" THEN PageMapDone(Freed(s, f), p, FALSE, e)
        ELSE IF ~HasTables(s, p) THEN Undefined(s)
        ELSE PageMapDone([s EXCEPT !.ft = FrameSetReferenced(s.ft, f), !.hw[p][v] = f,
                                   !.pte[p][v] = InFrame(f)], p, TRUE, e)

\* _sos_page_map_4_alloc_frame
PageMap4(s, p, e, g) ==
    LET r == FrameAlloc(s, p, "frame", e, g)
    IN  IF IsIn(s.pte[p][s.op[p].page], "frame") THEN PageMapDone(s, p, FALSE, e)
        ELSE IF r.frame = WAIT THEN r.state
        ELSE PageMap5(r.state, p, r.frame, e)

\* _sos_page_map_3: without a frame for the table of capabilities the other table is
\* freed, but the directory goes on pointing to it.
PageMap3(s, p, f, e, g) ==
    IF p \notin s.alive THEN Undefined(s)
    ELSE IF f = INVALID
    THEN PageMapDone(Freed(s, s.regs[p]), p, FALSE, e)
    ELSE PageMap4([s EXCEPT !.caps[p] = f], p, e, g)

\* _sos_page_map_2_alloc_cap_pt
PageMap2Unchecked(s, p, f, e, g) ==
    LET r == FrameAlloc([s EXCEPT !.regs[p] = f], p, "caps", e, g)
    IN  IF r.frame = WAIT THEN r.state
        ELSE PageMap3(r.state, p, r.frame, e, g)
PageMap2(s, p, f, e, g) ==
    LET r == FrameAlloc([s EXCEPT !.regs[p] = f], p, "caps", e, g)
    IN  IF f = INVALID THEN PageMapDone(s, p, FALSE, e)
        ELSE IF p \notin s.alive THEN Undefined(s)
        ELSE IF r.frame = WAIT THEN r.state
        ELSE PageMap3(r.state, p, r.frame, e, g)

\* sos_page_map
PageMap(s, p, e, g) ==
    LET r == FrameAlloc(s, p, "regs", e, g)
    IN  IF s.regs[p] # INVALID THEN PageMap4(s, p, e, g)
        ELSE IF r.frame = WAIT THEN r.state
        ELSE PageMap2(r.state, p, r.frame, e, g)

\* The allocation of p goes on with result r: the callback frame_alloc was given.
Resume(r, p, e, g) ==
    CASE r.frame = WAIT -> r.state
      [] r.frame # WAIT /\ r.state.op[p].stage = "regs"  -> PageMap2(r.state, p, r.frame, e, g)
      [] r.frame # WAIT /\ r.state.op[p].stage = "caps"  -> PageMap3(r.state, p, r.frame, e, g)
      [] r.frame # WAIT /\ r.state.op[p].stage = "frame" -> PageMap5(r.state, p, r.frame, e)

\* swap_in
SwapIn(s, p, e, g) ==
    PageMap([s EXCEPT !.op[p].inslot = s.pte[p][s.op[p].page][2]], p, e, g)

\* A fault or a copy of p at page v begins: the continuation of the handler.
Begin(p, v, client) == [Now EXCEPT !.op[p] = [Idle EXCEPT !.client = client, !.page = v]]

\* The table of entries of p was given back but is still in the directory.
Dangling(s, p) == s.regs[p] # INVALID /\ s.caps[p] = INVALID

\* The page is not in memory: map it or swap it in.
BringIn(s, p, e, g) ==
    IF Dangling(s, p) THEN Undefined(s)
    ELSE IF IsIn(s.pte[p][s.op[p].page], "slot") THEN SwapIn(s, p, e, g)
    ELSE PageMap(s, p, e, g)

-----------------------------------------------------------------------------
(* The steps.                                                              *)

Runs(p) == ~ub /\ p \in alive /\ op[p].stage = "idle"

MayFail(kind) == kind \in Faults

\* What goes wrong in a handler, if anything, and what is in the memory malloc returns
\* (which is looked at only when the swap file is full or cannot be opened).
Choice == [e : Faults \cup {"ok"},
           g : IF slots = Slot \/ (MayFail("open") /\ (~fh \/ \E p \in Proc : op[p].phase = "open"))
               THEN Slot ELSE {0}]

\* The process writes to a page that is mapped.
Touch(p, v) ==
    /\ Runs(p)
    /\ hw[p][v] # INVALID
    /\ mem' = [mem EXCEPT ![hw[p][v]] = Filled(<<p, v>>)]
    /\ dirty' = dirty \cup {<<p, v>>}
    /\ UNCHANGED <<ft, alive, dirs, regs, caps, pte, hw, disk, slots, fh, op, ub>>

\* sos_VMFaultHandler, the page is not in memory.
Fault(p, v, c) ==
    /\ Runs(p) /\ <<p, v>> \in Valid
    /\ hw[p][v] = INVALID
    /\ ~IsIn(pte[p][v], "frame")
    /\ Become(BringIn(Begin(p, v, "fault"), p, c.e, c.g))

\* sos_VMFaultHandler, the page has lost its mapping only: _set_page_reference, unless it is
\* being swapped (or there is no capability): then the process is resumed and faults again.
FaultInMemoryUnlocked(p, v) ==
    /\ Runs(p)
    /\ hw[p][v] = INVALID
    /\ IsIn(pte[p][v], "frame")
    /\ hw' = [hw EXCEPT ![p][v] = pte[p][v][2]]
    /\ ft' = FrameSetReferenced(ft, pte[p][v][2])
    /\ UNCHANGED <<alive, dirs, regs, caps, pte, mem, disk, slots, fh, op, dirty, ub>>
FaultInMemory(p, v) ==
    /\ Runs(p)
    /\ hw[p][v] = INVALID
    /\ IsIn(pte[p][v], "frame")
    /\ ~ft.locked[pte[p][v][2]]
    /\ hw' = [hw EXCEPT ![p][v] = pte[p][v][2]]
    /\ ft' = FrameSetReferenced(ft, pte[p][v][2])
    /\ UNCHANGED <<alive, dirs, regs, caps, pte, mem, disk, slots, fh, op, dirty, ub>>

\* copyin and copyout of one page.
Copy(p, v, client, c) ==
    /\ Runs(p) /\ <<p, v>> \in Valid
    /\ LET s == Begin(p, v, client)
       IN  Become(IF IsIn(pte[p][v], "frame") THEN ClientDone(s, p, TRUE)
                  ELSE BringIn(s, p, c.e, c.g))

\* The swap file is open, or not (_swap_init_end, _swap_out_2_init_callback).
OpenReplyClears(p, good, c) ==
    /\ ~ub /\ op[p].phase = "open"
    /\ good \/ MayFail("open")
    /\ LET r == IF good THEN SwapOut3([Now EXCEPT !.fh = TRUE, !.slots = {}], p, c.e, c.g)
                ELSE SwapOutError(Now, p, c.g, c.e)
       IN  Become(Resume(r, p, c.e, c.g))
OpenReply(p, good, c) ==
    /\ ~ub /\ op[p].phase = "open"
    /\ good \/ MayFail("open")
    /\ LET r == IF good THEN SwapOut3([Now EXCEPT !.fh = TRUE], p, c.e, c.g)
                ELSE SwapOutError(Now, p, c.g, c.e)
       IN  Become(Resume(r, p, c.e, c.g))

\* _swap_out_4_nfs_write_cb
WriteReply(p, good, c) ==
    /\ ~ub /\ op[p].phase = "write"
    /\ good \/ MayFail("write")
    /\ LET o == op[p]
           n == o.written + 1
           s == [Now EXCEPT !.disk[o.slot][n] = o.sent]
           r == IF ~good THEN SwapOutError(Now, p, o.slot, c.e)
                ELSE IF ~OwnerAlive(s, o.victim) THEN SwapOutOrphan(s, p, c.e)
                ELSE IF ~WholePage(n) THEN Result(SendUnit(s, p, o.slot, n), WAIT)
                ELSE SwapOutEnd(s, p, c.e)
       IN  Become(Resume(r, p, c.e, c.g))

\* _swap_in_nfs_read_handler
ReadReply(p, good, e) ==
    /\ ~ub /\ op[p].stage = "read"
    /\ good \/ MayFail("read")
    /\ LET o == op[p]
           n == o.read + 1
           s == [Now EXCEPT !.mem[o.frame][n] = disk[o.inslot][n], !.op[p].read = n]
       IN  Become(IF ~good THEN SwapInEnd(Now, p, FALSE)
                  ELSE IF ~OwnerAlive(s, o.frame) THEN SwapInOrphan(s, p)
                  ELSE IF WholePage(n) THEN SwapInEnd(s, p, TRUE)
                  ELSE IF e = "read" THEN SwapInEnd(s, p, FALSE)
                  ELSE s)

\* proc_destroy, as far as memory is concerned: _free_proc_slot and as_destroy.
AsDestroy(s, p) ==
    LET pages == FoldLeft(LAMBDA t, v : PageFree(t, p, v), s, SetToSortSeq(Page, <))
    IN  FoldLeft(Freed, pages, <<s.caps[p], s.regs[p]>> \o s.dirs[p])

\* A process that runs destroys p (or exits, or is killed by a segmentation fault).
Kill(p) ==
    /\ p \in alive
    /\ Cardinality(Proc \ alive) < MAXKILLS
    /\ \E q \in Proc : Runs(q)
    /\ Become([AsDestroy(Now, p) EXCEPT !.alive = alive \ {p},
                                        !.dirs[p] = <<INVALID, INVALID>>,
                                        !.regs[p] = INVALID, !.caps[p] = INVALID])

\* Nothing runs any more, or nothing can be said about what runs.
Halted ==
    /\ ub \/ (alive = {} /\ \A p \in Proc : op[p] = Idle)
    /\ UNCHANGED vars

-----------------------------------------------------------------------------
(* The specification.                                                      *)

\* as_create of p when it does not fail: a frame for each of the two page directories.  The
\* processes of an instance exist before memory is short; module ProcTable has creations that
\* fail.
AsCreate(s, p) ==
    LET t == [s EXCEPT !.ft = TakeFrame(s.ft, NULL, 0, TRUE)]
    IN  [t EXCEPT !.ft = TakeFrame(t.ft, NULL, 0, TRUE),
                  !.dirs[p] = <<t.ft.first, s.ft.first>>]

Boot ==
    [ft |-> FrameInit, alive |-> Proc, dirs |-> [p \in Proc |-> <<INVALID, INVALID>>],
     regs |-> [p \in Proc |-> INVALID], caps |-> [p \in Proc |-> INVALID],
     pte |-> [p \in Proc |-> [v \in Page |-> NoEntry]],
     hw |-> [p \in Proc |-> [v \in Page |-> INVALID]],
     mem |-> [f \in Frame |-> Filled(Junk)], disk |-> [k \in Slot |-> Filled(Junk)],
     slots |-> {}, fh |-> FALSE, op |-> [p \in Proc |-> Idle], dirty |-> {}, ub |-> FALSE]

\* The first fault of p, on its first page.
FirstFault(s, p) ==
    LET v == Min({x \in Page : <<p, x>> \in Valid})
    IN  PageMap([s EXCEPT !.op[p] = [Idle EXCEPT !.client = "fault", !.page = v]], p, "ok", 0)

\* The processes exist with an empty address space; in a warm start each has faulted once.
Init ==
    LET cold == FoldLeft(AsCreate, Boot, SetToSeq(Proc))
        s == IF Warm THEN FoldLeft(FirstFault, cold, SetToSeq(Proc)) ELSE cold
    IN  /\ ft = s.ft /\ alive = s.alive /\ dirs = s.dirs /\ regs = s.regs /\ caps = s.caps
        /\ pte = s.pte /\ hw = s.hw /\ mem = s.mem /\ disk = s.disk /\ slots = s.slots
        /\ fh = s.fh /\ op = s.op /\ dirty = s.dirty /\ ub = s.ub

Reply(p) ==
    \E good \in BOOLEAN, c \in Choice :
        OpenReply(p, good, c) \/ WriteReply(p, good, c) \/ ReadReply(p, good, c.e)

Next ==
    \/ \E p \in Proc, v \in Page, c \in Choice :
          \/ Fault(p, v, c)
          \/ \E client \in Copies : Copy(p, v, client, c)
    \/ \E p \in Proc, v \in Page : Touch(p, v) \/ FaultInMemory(p, v)
    \/ \E p \in Proc : Reply(p) \/ Kill(p)
    \/ Halted

Spec == Init /\ [][Next]_vars

\* p waits for NFS.
Pending(p) == ~ub /\ (op[p].phase # "none" \/ op[p].stage = "read")

\* The RPC layer retransmits until NFS answers, so every reply comes.  This is weak
\* fairness of Reply(p), which is enabled exactly when p waits and is the only step that
\* changes a continuation that waits.
FairSpec ==
    /\ Spec
    /\ \A p \in Proc : []<>~Pending(p) \/ []<><<Pending(p) /\ op'[p] # op[p]>>_vars

-----------------------------------------------------------------------------
(* What the state of SOS looks like to the properties.                     *)

OpType ==
    [stage : {"idle", "regs", "caps", "frame", "read"},
     client : {"none", "fault", "copyin", "copyout"},
     page : Page \cup {0}, inslot : Slot \cup {INVALID}, frame : Frame \cup {INVALID},
     read : 0 .. (UNITS - 1), victim : Frame \cup {INVALID},
     phase : {"none", "open", "write"}, slot : Slot \cup {INVALID},
     written : 0 .. (UNITS - 1), sent : {Zero} \cup (Proc \X Page)]

\* Frame table, page tables, mappings, contents, slots and continuations keep their types; in
\* particular every slot _swap_find_free_slot hands out lies in the swap file.
TypeOK ==
    /\ ft \in FrameTableType
    /\ alive \subseteq Proc
    /\ dirs \in [Proc -> (Frame \cup {INVALID}) \X (Frame \cup {INVALID})]
    /\ regs \in [Proc -> Frame \cup {INVALID}] /\ caps \in [Proc -> Frame \cup {INVALID}]
    /\ \A p \in Proc, v \in Page :
          /\ pte[p][v] \in {NoEntry} \cup {InFrame(f) : f \in Frame}
                                     \cup {InSlot(k) : k \in Slot}
          /\ hw[p][v] \in Frame \cup {INVALID}
    /\ \A f \in Frame, u \in Unit : mem[f][u] \in {Zero, Junk} \cup (Proc \X Page)
    /\ \A k \in Slot, u \in Unit : disk[k][u] \in {Zero, Junk} \cup (Proc \X Page)
    /\ slots \subseteq Slot /\ fh \in BOOLEAN /\ ub \in BOOLEAN
    /\ op \in [Proc -> OpType]
    /\ dirty \subseteq Proc \X Page

Pages == alive \X Page
Entry(x) == pte[x[1]][x[2]]

\* The operations that hold frame f locked.
SwappingOut(f) == {p \in Proc : op[p].victim = f}
ReadingInto(f) == {p \in Proc : op[p].stage = "read" /\ op[p].frame = f}

\* The frames that live processes use for tables.
TableFrames(p) == {dirs[p][1], dirs[p][2], regs[p], caps[p]} \ {INVALID}

\* Those of them that have not been given back.
HeldTables(p) ==
    TableFrames(p) \ (IF Dangling(Now, p) /\ op[p].stage # "caps" THEN {regs[p]} ELSE {})

\* Who has slot k: pages that are swapped out, and operations that write or read it.
SlotOwners(k) ==
    {x \in Pages : Entry(x) = InSlot(k)}
      \cup {<<p, "out">> : p \in {q \in Proc : op[q].slot = k}}
      \cup {<<p, "in">> : p \in {q \in Proc : op[q].stage = "read" /\ op[q].inslot = k}}

\* Every unit of the page holds what the process last put there.
Holds(contents, x) == \A u \in Unit : contents[u] = IF x \in dirty THEN x ELSE Zero

-----------------------------------------------------------------------------
(* Properties.  ub marks the states after which C promises nothing.        *)

\* The shadow page table and the frame table agree (as_pd_regs against fte_as, fte_vaddr):
\* the frame of a page that is in memory is allocated for that very page, so no two pages
\* share one and no page sits in a frame that frame_alloc can hand out; the tables
\* themselves sit in frames of SOS that are never swapped, and share none either.  A frame is
\* locked exactly while one swap-out or one swap-in holds it (frame_lock_frame and
\* frame_unlock_frame are paired on every path), and never by two.
FramesBelongToPages ==
    ub \/
    /\ \A x \in Pages : IsIn(Entry(x), "frame") =>
          LET f == Entry(x)[2]
          IN  Allocated(ft, f) /\ ft.as[f] = x[1] /\ ft.vaddr[f] = x[2] /\ ~ft.noswap[f]
    /\ \A p \in alive : \A f \in TableFrames(p) :
          Allocated(ft, f) /\ ft.as[f] = NULL /\ ft.noswap[f]
    /\ \A p, q \in alive : p # q => TableFrames(p) \cap TableFrames(q) = {}
    /\ \A f \in Frame : Cardinality(SwappingOut(f)) + Cardinality(ReadingInto(f))
                          = IF ft.locked[f] THEN 1 ELSE 0

\* seL4 maps a frame at a page only while the shadow table has the same frame there and
\* its reference bit is set (the bit stands for "mapped", is_frame_referenced in
\* sos_page_free), and nothing stays mapped in a process that is gone.  A frame that is being
\* written to the swap file is mapped nowhere until that is over.
MappingsFollowTables ==
    ub \/ \A p \in Proc, v \in Page : hw[p][v] # INVALID =>
             /\ p \in alive /\ pte[p][v] = InFrame(hw[p][v]) /\ ft.referenced[hw[p][v]]
             /\ SwappingOut(hw[p][v]) = {}

\* "1 is used, 0 is free" (swap.c, above free_slots): a slot is marked exactly when a page
\* or a transfer has it, and it never has two owners.
SlotsExact ==
    ub \/ \A k \in Slot : Cardinality(SlotOwners(k)) = IF k \in slots THEN 1 ELSE 0

\* Paging is transparent: wherever a page of a live process is, in its frame or in its slot,
\* it holds what the process wrote last, and a page that is nowhere was never written.  Only
\* a frame that a swap-in is still filling is excepted.
PagingTransparent ==
    ub \/ \A x \in Pages :
             CASE IsIn(Entry(x), "frame") ->
                      ReadingInto(Entry(x)[2]) # {} \/ Holds(mem[Entry(x)[2]], x)
               [] IsIn(Entry(x), "slot")  -> Holds(disk[Entry(x)[2]], x)
               [] OTHER                   -> x \notin dirty

\* No frame is lost: one that is allocated is a page or a table of a live process, is held
\* by a transfer, or is left over from a dead process, unlocked and unreferenced, so that
\* the next search for a victim takes it.
NoFrameLost ==
    ub \/ \A f \in Managed : ft.status[f] = "ALLOCATED" =>
             \/ \E x \in Pages : Entry(x) = InFrame(f)
             \/ \E p \in alive : f \in TableFrames(p)
             \/ SwappingOut(f) # {} \/ ReadingInto(f) # {}
             \/ ft.as[f] \in Proc \ alive /\ ~ft.locked[f] /\ ~ft.referenced[f]

\* Once the tables are there (TablesHeldOrDangling has what happens before), SOS
\* touches memory it has given back only on behalf of a process that was destroyed
\* while one of its faults or copies was waiting for NFS; otherwise is_proc_alive and
\* frame_get_pid guard every path, and a process whose fault could not be handled is simply
\* resumed: "the process still can run, there will be more faults coming" (vm.c).
UndefinedOnlyAfterKill ==
    ub => \E p \in Proc \ alive : op[p].stage # "idle"

\* What becomes of the two second-level tables of an entry (sos_page_map and its parts), which
\* come from two allocations that may both wait for swap-outs and both fail.  There is never a
\* table of capabilities without a table of entries.  Tables that exist, and the first of the two
\* while the second is being allocated, are SOS's own frames and nobody else's.  A table whose
\* companion could not be had has been given back, so its frame is free or serves another, and
\* that the directory still names it is the one way in which SOS, as long as no process is
\* destroyed, comes to touch memory it has given back.
TablesHeldOrDangling ==
    /\ ~ub => \A p \in alive :
         /\ caps[p] # INVALID => regs[p] # INVALID
         /\ \A f \in HeldTables(p) :
               /\ Allocated(ft, f) /\ ft.as[f] = NULL /\ ft.noswap[f]
               /\ \A q \in alive \ {p} : f \notin HeldTables(q)
         /\ Dangling(Now, p) /\ op[p].stage # "caps" =>
               \/ ft.status[regs[p]] = "FREE"
               \/ \E x \in Pages : Entry(x) = InFrame(regs[p])
               \/ \E q \in alive : regs[p] \in HeldTables(q)
    /\ ub => \E p \in Proc : Dangling(Now, p) \/ p \notin alive

\* Every fault and every copy that has to wait is answered in the end: its process runs
\* again, or the continuation ends after its process did.
EveryOperationEnds ==
    \A p \in Proc : op[p].stage # "idle" ~> (op[p].stage = "idle" \/ ub)
-----------------------------------------------------------------------------
(* What comments of the code say and the code does not keep.               *)

\* "Copy memory from kernel space to user's address space" (copyinout.h): what copyout
\* wrote to a page is there, wherever the page is.
CopyoutArrives ==
    ub \/ \A x \in Pages \cap dirty :
             CASE IsIn(Entry(x), "frame") ->
                      ReadingInto(Entry(x)[2]) # {} \/ Holds(mem[Entry(x)[2]], x)
               [] IsIn(Entry(x), "slot")  -> Holds(disk[Entry(x)[2]], x)
               [] OTHER                   -> TRUE

\* "This page has never been mapped, so do that and return" (sos_VMFaultHandler, for a page
\* without an entry): such a page holds nothing that could be lost.
NoEntryMeansNeverMapped ==
    ub \/ \A x \in Pages : Entry(x) = NoEntry => x \notin dirty

\* assert(as->as_pd_caps[x] == NULL) at the head of sos_page_map, for a page without a table of
\* entries, and the use of both tables elsewhere: as_pd_regs[x] and as_pd_caps[x] come and go
\* together, except while the second one is being allocated.
TablesComeInPairs ==
    ub \/ \A p \in alive :
             (regs[p] = INVALID) # (caps[p] = INVALID) =>
                regs[p] # INVALID /\ op[p].stage = "caps"
=============================================================================
