------------------------------ MODULE FrameOps ------------------------------
(***************************************************************************)
(* The frame table of SOS (apps/sos/src/vm/frametable.c) as a value and    *)
(* the operations on it.  The event loop of SOS runs a handler to its end, *)
(* so every function of frametable.c is a function from one frame table to *)
(* the next; the modules that have steps (FrameTable, Paging) compose them.*)
(*                                                                         *)
(* A frame table is a record whose fields are the fte_* columns of         *)
(* frame_entry_t together with the globals _first_free and victim.  The    *)
(* address space and the pid of an entry always name the same process, so  *)
(* one field, as, stands for both.                                         *)
(***************************************************************************)
EXTENDS Integers

CONSTANTS
    NFRAMES,   \* number of entries of the table
    RESERVED,  \* _frametable_reserved: entries that hold the table itself
    Proc,      \* the processes frames are allocated for
    Page,      \* the virtual pages of a process (0 is not one of them)
    NULL       \* no process: the frame is SOS's own

ASSUME FrameAssumption ==
    /\ NFRAMES \in Nat
    /\ RESERVED \in 1 .. (NFRAMES - 1)
    /\ NULL \notin Proc
    /\ 0 \notin Page

Frame == 0 .. (NFRAMES - 1)

INVALID == -1      \* FRAME_INVALID, and kvaddr = 0 in a callback

Status == {"UNTYPED", "FREE", "ALLOCATED"}

FrameTableType ==
    [status     : [Frame -> Status],
     next       : [Frame -> Frame \cup {INVALID}],
     locked     : [Frame -> BOOLEAN],
     noswap     : [Frame -> BOOLEAN],
     referenced : [Frame -> BOOLEAN],
     as         : [Frame -> Proc \cup {NULL}],
     vaddr      : [Frame -> Page \cup {0}],
     first      : Frame \cup {INVALID},
     victim     : Frame]

\* The frames the entry points accept: id < _frametable_reserved || id >= NFRAMES is EINVAL.
Managed == RESERVED .. (NFRAMES - 1)

Allocated(ft, f) == f \in Managed /\ ft.status[f] = "ALLOCATED"

\* frame_init: the reserved entries are allocated and never swapped, the others are
\* chained in index order.  The memory of the table is fresh, hence zero.
FrameInit ==
    [status     |-> [f \in Frame |-> IF f < RESERVED THEN "ALLOCATED" ELSE "UNTYPED"],
     next       |-> [f \in Frame |-> IF f < RESERVED \/ f = NFRAMES - 1
                                     THEN INVALID ELSE f + 1],
     locked     |-> [f \in Frame |-> FALSE],
     noswap     |-> [f \in Frame |-> f < RESERVED],
     referenced |-> [f \in Frame |-> f < RESERVED],
     as         |-> [f \in Frame |-> NULL],
     vaddr      |-> [f \in Frame |-> 0],
     first      |-> RESERVED,
     victim     |-> 0]

\* frame_has_free
HasFree(ft) == ft.first # INVALID

\* The part of _frame_alloc_end that succeeds: the head of the free list becomes an
\* entry of as, unlocked and referenced, and the list loses its head.
TakeFrame(ft, as, vaddr, noswap) ==
    [ft EXCEPT !.status[ft.first]     = "ALLOCATED",
               !.vaddr[ft.first]      = vaddr,
               !.as[ft.first]         = as,
               !.noswap[ft.first]     = noswap,
               !.referenced[ft.first] = TRUE,
               !.locked[ft.first]     = FALSE,
               !.first                = ft.next[ft.first]]

\* frame_free: refused (EINVAL, EFAULT) for a frame that is not allocated or is locked.
FrameFreeTwice(ft, f) ==
    IF f \in Managed /\ ~ft.locked[f]
    THEN [ft EXCEPT !.status[f] = "FREE", !.next[f] = ft.first, !.first = f]
    ELSE ft
FrameFreeLocked(ft, f) ==
    IF Allocated(ft, f)
    THEN [ft EXCEPT !.status[f] = "FREE", !.locked[f] = FALSE,
                    !.next[f] = ft.first, !.first = f]
    ELSE ft
FrameFree(ft, f) ==
    IF Allocated(ft, f) /\ ~ft.locked[f]
    THEN [ft EXCEPT !.status[f] = "FREE",
                    !.locked[f] = FALSE,
                    !.next[f]   = ft.first,
                    !.first     = f]
    ELSE ft

\* frame_lock_frame and frame_unlock_frame (EINVAL when there is nothing to do).
FrameLock(ft, f) ==
    IF Allocated(ft, f) THEN [ft EXCEPT !.locked[f] = TRUE] ELSE ft

FrameUnlock(ft, f) ==
    IF Allocated(ft, f) THEN [ft EXCEPT !.locked[f] = FALSE] ELSE ft

\* frame_set_referenced: the one setter that does not look at the status.
FrameSetReferenced(ft, f) ==
    IF f \in Managed THEN [ft EXCEPT !.referenced[f] = TRUE] ELSE ft

-----------------------------------------------------------------------------
(***************************************************************************)
(* _second_chance_swap_victim.  The loop walks the table circularly from   *)
(* victim, passes over entries that are noswap or locked, takes away the   *)
(* mapping and the reference bit of the referenced ones it meets, and      *)
(* stops after the first unreferenced one.  What it computes is stated     *)
(* here without the loop; module SecondChance has the loop itself and      *)
(* compares the two.                                                       *)
(***************************************************************************)
Swappable(ft) == {f \in Frame : ~ft.noswap[f] /\ ~ft.locked[f]}

Unreferenced(ft) == {f \in Swappable(ft) : ~ft.referenced[f]}

\* How many steps the hand makes before it looks at f.
Distance(ft, f) == (f - ft.victim) % NFRAMES

\* The first of S the hand meets.
FirstMet(ft, S) ==
    CHOOSE f \in S : \A g \in S : Distance(ft, f) <= Distance(ft, g)

\* The frame the loop returns (0, no frame, when everything is noswap or locked).
\* When every candidate is referenced the hand clears them all in the first round and
\* stops at the first of them in the second.
SecondChanceVictim(ft) ==
    IF Swappable(ft) = {} THEN INVALID
    ELSE IF Unreferenced(ft) # {} THEN FirstMet(ft, Unreferenced(ft))
    ELSE FirstMet(ft, Swappable(ft))

\* The entries that lose their mapping (sos_page_unmap) and their reference bit.
SecondChanceCleared(ft) ==
    IF Unreferenced(ft) = {} THEN Swappable(ft)
    ELSE {f \in Swappable(ft) : Distance(ft, f) < Distance(ft, SecondChanceVictim(ft))}

\* The table after the loop: without a victim the hand is back where it was.
SecondChanceSweep(ft) ==
    IF Swappable(ft) = {} THEN ft
    ELSE [ft EXCEPT !.referenced = [f \in Frame |->
                                      ft.referenced[f] /\ f \notin SecondChanceCleared(ft)],
                    !.victim = (SecondChanceVictim(ft) + 1) % NFRAMES]
=============================================================================
