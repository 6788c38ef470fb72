----------------------------- MODULE FrameTable -----------------------------
(***************************************************************************)
(* The frame table as a state machine: the entry points of frametable.c    *)
(* in every order and with every argument, and swap-outs that are started  *)
(* by frame_alloc and finish later (swap.c calls _frame_alloc_end back     *)
(* when NFS has answered).  Nothing is assumed of who frees, locks or      *)
(* unlocks what: frame_free has to defend the table by itself.  The lock   *)
(* is one bit without an owner, and not every caller unlocks only what it  *)
(* has locked: the loader goes on when frame_lock_frame fails and unlocks  *)
(* the frame all the same (elf.c), and so may take the swapper's lock away.*)
(***************************************************************************)
EXTENDS FrameOps, FiniteSets

CONSTANT
    MAXUNPINNED   \* bound: frames that are unlocked while they are swapped out, at once

VARIABLES
    ft,       \* the frame table
    waiting,  \* waiting[f]: the allocations that wait for a swap-out of frame f
    unpinned  \* ghost: the frames that somebody unlocked while they were swapped out

vars == <<ft, waiting, unpinned>>

\* The arguments of frame_alloc that reach the table (frame_alloc_cont_t): SOS's own frames
\* are noswap and have no address, those of a process never are noswap (every caller of
\* sos_page_map says so); as != NULL && vaddr == 0 is refused.
Request ==
    [as : {NULL}, vaddr : {0}, noswap : {TRUE}]
      \cup [as : Proc, vaddr : Page, noswap : {FALSE}]

\* The frame table and the allocations that wait keep their types: every index frametable.c
\* follows (_first_free, fte_next_free, the hand) stays in the table.
TypeOK ==
    /\ ft \in FrameTableType
    /\ waiting \in [Frame -> SUBSET Request]
    /\ unpinned \in SUBSET Frame

Init ==
    /\ ft = FrameInit
    /\ waiting = [f \in Frame |-> {}]
    /\ unpinned = {}

\* _frame_alloc_end: kvaddr 0 for the caller when the swap-out failed (err), when no
\* frame is free, or when seL4 has no memory for an untyped frame (_map_to_sel4).
AllocEnd(t, req, err, nomem) ==
    IF err \/ ~HasFree(t) \/ (t.status[t.first] = "UNTYPED" /\ nomem)
    THEN t
    ELSE TakeFrame(t, req.as, req.vaddr, req.noswap)

\* frame_alloc when the free list is not empty.
AllocFromList(req, nomem) ==
    /\ HasFree(ft)
    /\ ft' = AllocEnd(ft, req, FALSE, nomem)
    /\ UNCHANGED <<waiting, unpinned>>

\* frame_alloc when the free list is empty: pick a victim; swap_out locks it and waits.
\* Without a victim frame_alloc returns ENOMEM and changes nothing.
AllocBySwapping(req) ==
    /\ ~HasFree(ft)
    /\ LET f == SecondChanceVictim(ft)
       IN  /\ f # INVALID
           /\ ft' = FrameLock(SecondChanceSweep(ft), f)
           /\ waiting' = [waiting EXCEPT ![f] = @ \cup {req}]
    /\ UNCHANGED unpinned

\* The swap-out of f that req waited for is over.
SwapOutOver(f, req) ==
    /\ waiting' = [waiting EXCEPT ![f] = @ \ {req}]
    /\ unpinned' = IF waiting[f] = {req} THEN unpinned \ {f} ELSE unpinned

\* _swap_out_end without an error: the victim is unlocked and freed, and the waiting
\* allocation goes on.
SwapOutDoneFreesFirst(f, req, nomem) ==
    /\ req \in waiting[f]
    /\ ft' = AllocEnd(FrameUnlock(FrameFree(ft, f), f), req, FALSE, nomem)
    /\ SwapOutOver(f, req)
SwapOutDone(f, req, nomem) ==
    /\ req \in waiting[f]
    /\ ft' = AllocEnd(FrameFree(FrameUnlock(ft, f), f), req, FALSE, nomem)
    /\ SwapOutOver(f, req)

\* _swap_out_end with an error: the victim is unlocked and kept, the allocation fails.
SwapOutFailed(f, req) ==
    /\ req \in waiting[f]
    /\ ft' = AllocEnd(FrameUnlock(ft, f), req, TRUE, FALSE)
    /\ SwapOutOver(f, req)

\* _swap_out_4_nfs_write_cb when the owner of the victim is gone: the victim is freed,
\* but the allocation that asked for it is told EFAULT.
SwapOutOwnerDead(f, req) ==
    /\ req \in waiting[f]
    /\ ft' = AllocEnd(FrameFree(FrameUnlock(ft, f), f), req, TRUE, FALSE)
    /\ SwapOutOver(f, req)

Free(f) ==
    /\ ft' = FrameFree(ft, f)
    /\ UNCHANGED <<waiting, unpinned>>

Lock(f) ==
    /\ ft' = FrameLock(ft, f)
    /\ UNCHANGED <<waiting, unpinned>>

\* frame_unlock_frame does not know who locked the frame.
Unlock(f) ==
    /\ waiting[f] = {} \/ Cardinality(unpinned \cup {f}) <= MAXUNPINNED
    /\ ft' = FrameUnlock(ft, f)
    /\ unpinned' = IF waiting[f] = {} THEN unpinned ELSE unpinned \cup {f}
    /\ UNCHANGED waiting

SetReferenced(f) ==
    /\ ft' = FrameSetReferenced(ft, f)
    /\ UNCHANGED <<waiting, unpinned>>

Next ==
    \/ \E req \in Request, nomem \in BOOLEAN : AllocFromList(req, nomem)
    \/ \E req \in Request : AllocBySwapping(req)
    \/ \E f \in Frame, req \in Request :
          \/ \E nomem \in BOOLEAN : SwapOutDone(f, req, nomem)
          \/ SwapOutFailed(f, req) \/ SwapOutOwnerDead(f, req)
    \/ \E f \in Frame :
          \/ Free(f) \/ Lock(f) \/ Unlock(f) \/ SetReferenced(f)

Spec == Init /\ [][Next]_vars
-----------------------------------------------------------------------------
Available(t) == {f \in Frame : t.status[f] # "ALLOCATED"}

\* s, of length n, is the free list: it starts at _first_free, follows fte_next_free
\* to FRAME_INVALID, and visits every available frame exactly once.
IsFreeList(t, n, s) ==
    /\ s \in [1 .. n -> Available(t)]
    /\ \A f \in Available(t) : \E i \in 1 .. n : s[i] = f
    /\ \A i, j \in 1 .. n : s[i] = s[j] => i = j
    /\ t.first = IF n = 0 THEN INVALID ELSE s[1]
    /\ \A i \in 1 .. n : t.next[s[i]] = IF i = n THEN INVALID ELSE s[i + 1]

\* The free list of frametable.c (_first_free and fte_next_free) threads every frame that
\* is not allocated exactly once and nothing else, whatever sequence of allocations, frees
\* (double ones included), locks, unlocks (of the locks of others too) and swap-outs, two of
\* one frame among them, the rest of SOS performs.
FreeListExact ==
    \E n \in 0 .. NFRAMES : \E s \in [1 .. n -> Available(ft)] : IsFreeList(ft, n, s)

\* "This function assumes that all frames are currently allocated" (frametable.c, above
\* _second_chance_swap_victim) and "If this assert fails then our _first_free is buggy"
\* (_frame_alloc_end): an empty list means that every frame is allocated, a non-empty one
\* starts with a frame that is not.
FirstFreeTellsTruth ==
    IF HasFree(ft) THEN ft.status[ft.first] # "ALLOCATED"
                   ELSE \A f \in Frame : ft.status[f] = "ALLOCATED"

\* A frame that is being swapped out stays allocated and locked, is not one of SOS's own, and
\* serves one allocation, until its swap-out ends or somebody takes its lock away: frame_free
\* refuses it, and a second search for a victim passes over it.
VictimPinned ==
    \A f \in Frame \ unpinned : waiting[f] # {} =>
        /\ ft.status[f] = "ALLOCATED" /\ ft.locked[f] /\ ~ft.noswap[f]
        /\ \E req \in Request : waiting[f] = {req}

\* What an allocation that waited for a swap-out gets (_frame_alloc_end: "This should not
\* happen though because of swapping"): when the swap-out succeeds there is a frame, it is
\* the very frame that was swapped out, and the list is as empty or as full as before, unless
\* the lock of the frame was taken away meanwhile.
SwapOutYieldsFrame ==
    [][\A f \in Frame \ unpinned : \A req \in waiting[f] : \A nomem \in BOOLEAN :
          SwapOutDone(f, req, nomem) =>
             /\ ft'.status[f] = "ALLOCATED" /\ ft'.as[f] = req.as /\ ft'.vaddr[f] = req.vaddr
             /\ ft'.first = ft.first]_vars

\* The frames that hold the frame table are never handed out, freed, locked or chosen as
\* victims (id < _frametable_reserved in every entry point, fte_noswap in the search).
ReservedUntouched ==
    \A f \in Frame \ Managed :
        /\ ft.status[f] = "ALLOCATED" /\ ft.noswap[f] /\ ~ft.locked[f]
        /\ ft.as[f] = NULL
\* "kvaddr the return kernel address that SOS can use or NULL if there is no more memory"
\* (vm.h, frame_alloc_cb_t): an allocation that waited for a swap-out and is given NULL
\* leaves no frame free behind.
NullMeansNoMemory ==
    [][\A f \in Frame, req \in Request :
          SwapOutFailed(f, req) \/ SwapOutOwnerDead(f, req) => ~HasFree(ft')]_vars
=============================================================================
