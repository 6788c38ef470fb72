------------------------------ MODULE ElfLoad -------------------------------
(***************************************************************************)
(* A process from its image to its end: elf_load (vm/elf.c) reads the      *)
(* headers and then the segments from the NFS server, chunk by chunk, into *)
(* frames it locks for the time of a read; proc.c adds the stack and the   *)
(* heap; then the process runs, faults, moves its break and has data       *)
(* copied to and from it (vm/copyinout.c).  All the while other processes  *)
(* take frames, so pages that are not locked go to the swap file, piece by *)
(* piece and locked by the swapper (vm/swap.c).  A lock is one bit without *)
(* an owner: the loader does not see that a frame is locked already, and   *)
(* its unlock takes the swapper's lock away.                               *)
(*                                                                         *)
(* A page is known by its number.  mem is what the loader has put at an    *)
(* address: 0 is a zero byte, n the n-th byte of the file.  Processes      *)
(* write to their memory too; what paging does to that is in module        *)
(* Paging, with the swap file's slots and its opening.                     *)
(***************************************************************************)
EXTENDS Regions, Sequences, FiniteSets, FiniteSetsExt

CONSTANTS
    NFS_SEND_SIZE,
    LABEL,      \* 2^20: the label of a seL4 message
    Image,      \* files: segs (load, vaddr, memsz, offset, filesz) and len, their length
    MAXSWAPS,   \* bound: swap-outs of this process's pages
    Break,      \* the arguments of sys_brk
    Buffer      \* user buffers: buf and nbyte

ASSUME ElfAssumption ==
    /\ NFS_SEND_SIZE \in 1 .. PAGE_SIZE /\ LABEL \in Nat \ {0} /\ MAXSWAPS \in Nat
    /\ \A f \in Image : \A i \in DOMAIN f.segs : f.segs[i].filesz <= f.segs[i].memsz

VARIABLES
    image,     \* the file
    at,        \* lookup, header, phdrs, map, read, run, failed, dead; forgotten: no callback
    i,         \* cont->i: program headers done or under way
    pos,       \* cont->pos of the segment being loaded
    wanna,     \* cont->wanna_read
    page,      \* page[n]: none, in (a frame), out (the swap file)
    locked,    \* pages whose frame is locked
    sent,      \* sent[n]: bytes of page n the swap-out under way has sent; 0: there is none
    swaps,     \* swap-outs started
    saved,     \* saved[a]: what a swap-out under way has sent of address a
    mem,       \* what was loaded at each address
    op,        \* what the process waits for: a fault or a copy
    brk,       \* the argument of the last sys_brk and what it returned
    readfailed,\* ghost: a read of the loader failed
    crossed,   \* ghost: the loader read to a page that was being swapped out
    ub         \* ghost: a kernel address was made of a page that has no frame

lvars == <<image, at, i, pos, wanna, readfailed>>
svars == <<swaps, sent, saved>>
vars == <<regions, stack, heap, lvars, page, locked, svars, mem, op, brk, crossed, ub>>

Page == 0 .. ((WORD - 1) \div PAGE_SIZE)
PageOf(a) == a \div PAGE_SIZE
BytesOf(p) == {a \in Word : PageOf(a) = p}
NONE == [kind |-> "none", buf |-> 0, left |-> 0, wraps |-> FALSE]

Seg == image.segs[i]
dst == (Seg.vaddr + pos) % WORD

Init ==
    /\ RegionsInit
    /\ image \in Image /\ at = "lookup" /\ i = 0 /\ pos = 0 /\ wanna = 0
    /\ page = [p \in Page |-> "none"] /\ locked = {} /\ mem = [a \in Word |-> 0]
    /\ swaps = 0 /\ sent = [p \in Page |-> 0] /\ saved = [a \in Word |-> 0]
    /\ op = NONE /\ brk = <<0, 0>> /\ readfailed = FALSE /\ crossed = FALSE /\ ub = FALSE

-----------------------------------------------------------------------------
(***************************************************************************)
(* The loader.  Its functions call each other within one handler, so they  *)
(* are functions of the state that matters to them.                        *)
(***************************************************************************)
Now == [regions |-> regions, stack |-> stack, heap |-> heap, at |-> at, i |-> i, pos |-> pos,
        wanna |-> wanna, page |-> page, locked |-> locked, crossed |-> crossed, ub |-> ub]
Become(s) ==
    /\ regions' = s.regions /\ stack' = s.stack /\ heap' = s.heap
    /\ at' = s.at /\ i' = s.i /\ pos' = s.pos /\ wanna' = s.wanna
    /\ page' = s.page /\ locked' = s.locked /\ crossed' = s.crossed /\ ub' = s.ub

\* as_destroy, sos_page_free: pages and slots are given back, but for frames that are locked.
as_destroy(s, how) == [s EXCEPT !.at = how, !.page = [p \in Page |-> "none"],
                                !.i = 0, !.pos = 0, !.wanna = 0]

\* _elf_load_end and _proc_create_part3.
ElfLoadEnds(s, err) ==
    LET top  == CHOOSE t \in Tops(s.regions) : Highest(t, s.regions)
        base == HeapBase(top)
        stk  == {Initialised(StackBase, STACK_SIZE)}
    IN  IF err \/ ~StackFits(s.regions) THEN as_destroy(s, "failed")
        ELSE IF ~HeapFits(base, s.regions, stk)
        THEN as_destroy([s EXCEPT !.stack = stk], "failed")
        ELSE [s EXCEPT !.stack = stk, !.heap = {Initialised(base, 0)},
                       !.at = "run", !.pos = 0, !.wanna = 0]

\* _load_segment2 with something left to read: a new page is mapped first, else its frame is
\* locked (that it may be locked already goes unseen) and the next chunk is asked for, at most
\* NFS_SEND_SIZE and to the end of the page.
AcrossPages(s) ==
    LET g == image.segs[s.i]
        d == (g.vaddr + s.pos) % WORD
    IN  IF s.page[PageOf(d)] = "none" THEN [s EXCEPT !.at = "map"]
        ELSE [s EXCEPT !.at = "read", !.ub = @ \/ s.page[PageOf(d)] = "out",
                       !.crossed = @ \/ sent[PageOf(d)] > 0,
                       !.locked = @ \cup {PageOf(d)},
                       !.wanna = Min({NFS_SEND_SIZE, g.filesz - s.pos})]
ReadChunk(s) ==
    LET g == image.segs[s.i]
        d == (g.vaddr + s.pos) % WORD
    IN  IF s.page[PageOf(d)] = "none" THEN [s EXCEPT !.at = "map"]
        ELSE [s EXCEPT !.at = "read", !.ub = @ \/ s.page[PageOf(d)] = "out",
                       !.crossed = @ \/ sent[PageOf(d)] > 0,
                       !.locked = @ \cup {PageOf(d)},
                       !.wanna = Min({NFS_SEND_SIZE, g.filesz - s.pos, PAGE_SIZE - PAGE_OFFSET(d)})]

\* _load_segment2 and _elf_load_load_segments: on with this segment, or to the next one, whose
\* region is defined first; headers that are not loaded are skipped.
RECURSIVE LoadSegments(_)
LoadSegments(s) ==
    IF s.i > 0 /\ image.segs[s.i].load /\ s.pos < image.segs[s.i].filesz THEN ReadChunk(s)
    ELSE IF s.i = Len(image.segs) THEN ElfLoadEnds(s, FALSE)
    ELSE LET g == image.segs[s.i + 1]
         IN  IF ~g.load THEN LoadSegments([s EXCEPT !.i = @ + 1, !.pos = 0])
             ELSE IF ~as_define_region_ok(g.vaddr, g.memsz, s.regions, s.stack)
             THEN ElfLoadEnds(s, TRUE)
             ELSE LoadSegments([s EXCEPT !.i = @ + 1, !.pos = 0,
                                         !.regions = @ \cup {SegmentRegion(g.vaddr, g.memsz)}])

\* _elf_load_lookup_cb, _elf_load_read_elfheader_cb and _elf_load_read_progheaders_cb.  They
\* fail when the server does, the file is not an ELF file or too short for its headers, or
\* there is no memory; a request that cannot be sent fails like one that is answered so.
HeaderStep == [lookup |-> "header", header |-> "phdrs"]
HeaderArrives(ok) ==
    /\ ~ub /\ at \in {"lookup", "header", "phdrs"}
    /\ Become(IF ~ok THEN ElfLoadEnds(Now, TRUE)
              ELSE IF at = "phdrs" THEN LoadSegments(Now)
              ELSE [Now EXCEPT !.at = HeaderStep[at]])
    /\ UNCHANGED <<image, svars, mem, op, brk, readfailed>>

\* sos_page_map has a frame for the loader, now or after a swap-out; page 0 is never mapped
\* (frame_alloc), and without memory the load fails.
PageMappedSilent(ok) ==
    /\ ~ub /\ at = "map" /\ ok /\ PageOf(dst) # 0
    /\ Become(LoadSegments([Now EXCEPT !.page[PageOf(dst)] = "in"]))
    /\ mem' = [a \in Word |-> IF PageOf(a) = PageOf(dst) THEN 0 ELSE mem[a]]
    /\ UNCHANGED <<image, svars, op, brk, readfailed>>
PageMapped(ok) ==
    /\ ~ub /\ at = "map" /\ (ok => PageOf(dst) # 0)
    /\ IF ok THEN /\ Become(LoadSegments([Now EXCEPT !.page[PageOf(dst)] = "in"]))
                  /\ mem' = [a \in Word |-> IF PageOf(a) = PageOf(dst) THEN 0 ELSE mem[a]]
             ELSE Become(ElfLoadEnds(Now, TRUE)) /\ UNCHANGED mem
    /\ UNCHANGED <<image, svars, op, brk, readfailed>>

\* sos_page_map returns an error instead of calling back, which _load_segment2 does not look at.
PageMapRefused ==
    /\ ~ub /\ at = "map"
    /\ at' = "forgotten"
    /\ UNCHANGED <<regions, stack, heap, image, i, pos, wanna, readfailed, page, locked, svars,
                   mem, op, brk, crossed, ub>>

\* Is the chunk of count bytes at dst the last one in its frame?  (kdst + count is on another
\* page, or the rather odd comparison of the second disjunct.)
NeverLast(count) == PAGE_OFFSET(dst) + count >= PAGE_SIZE
LastInFrame(count) ==
    \/ PAGE_OFFSET(dst) + count >= PAGE_SIZE
    \/ (dst + pos) % WORD >= Seg.filesz

\* _load_segment3: count bytes arrive, fewer than asked for if the server likes, none at the
\* end of the file.  They go to the frame of the page; what does not fit is written elsewhere,
\* and so is everything when the page has left meanwhile (ub: the model ends there).  The last
\* chunk of a frame unlocks it, whoever locked it.
Available == IF Seg.offset + pos >= image.len THEN 0 ELSE image.len - (Seg.offset + pos)
ChunkArrives(count) ==
    /\ ~ub /\ at = "read"
    /\ count <= wanna /\ count <= Available /\ (count = 0 => Available = 0)
    /\ mem' = [a \in Word |-> IF PageOf(a) = PageOf(dst) /\ a - dst \in 0 .. (count - 1)
                              THEN Seg.offset + pos + (a - dst) + 1 ELSE mem[a]]
    /\ Become(LoadSegments(
           [Now EXCEPT !.ub = page[PageOf(dst)] # "in",
                       !.locked = IF LastInFrame(count) THEN @ \ {PageOf(dst)} ELSE @,
                       !.pos = @ + count]))
    /\ UNCHANGED <<image, svars, op, brk, readfailed>>

\* The read fails or could not be sent: the frame is left locked.
ChunkFails ==
    /\ ~ub /\ at = "read"
    /\ Become(ElfLoadEnds(Now, TRUE))
    /\ readfailed' = TRUE
    /\ UNCHANGED <<image, svars, mem, op, brk>>

-----------------------------------------------------------------------------
(***************************************************************************)
(* The swapper (swap.c).  What a write sends is copied when it is sent; in *)
(* between the frame stays where it is and is locked.                      *)
(***************************************************************************)
\* Bytes from .. to - 1 of page p are on their way to the swap file.
Sent(p, from, to) ==
    [a \in Word |-> IF PageOf(a) = p /\ PAGE_OFFSET(a) \in from .. (to - 1)
                     THEN mem[a] ELSE saved[a]]
SwapOutIsOver(p) ==
    /\ locked' = locked \ {p}
    /\ sent' = [sent EXCEPT ![p] = 0]
    /\ saved' = [a \in Word |-> IF PageOf(a) = p THEN 0 ELSE saved[a]]

\* Another process needs a frame and swap_out, _swap_out_3 start with one that is not locked.
swap_out(p) ==
    /\ ~ub /\ swaps < MAXSWAPS /\ page[p] = "in" /\ p \notin locked
    /\ swaps' = swaps + 1
    /\ locked' = locked \cup {p}
    /\ sent' = [sent EXCEPT ![p] = NFS_SEND_SIZE]
    /\ saved' = Sent(p, 0, NFS_SEND_SIZE)
    /\ UNCHANGED <<regions, stack, heap, lvars, page, mem, op, brk, crossed, ub>>

\* _swap_out_4_nfs_write_cb and _swap_out_end.  The process is gone: the frame is freed.  Not
\* all is written: the next piece.  Else the page is in the swap file, as it was sent.
SwapOutWritten(p) ==
    /\ ~ub /\ sent[p] > 0
    /\ IF at \in {"failed", "dead"}
       THEN SwapOutIsOver(p) /\ UNCHANGED <<page, mem>>
       ELSE IF sent[p] < PAGE_SIZE
       THEN LET n == Min({sent[p] + NFS_SEND_SIZE, PAGE_SIZE})
            IN  /\ sent' = [sent EXCEPT ![p] = n]
                /\ saved' = Sent(p, sent[p], n)
                /\ UNCHANGED <<locked, page, mem>>
       ELSE /\ page' = [page EXCEPT ![p] = "out"]
            /\ mem' = [a \in Word |-> IF PageOf(a) = p THEN saved[a] ELSE mem[a]]
            /\ SwapOutIsOver(p)
    /\ UNCHANGED <<regions, stack, heap, lvars, swaps, op, brk, crossed, ub>>

\* _swap_out_end with an error: the page stays.
SwapOutFails(p) ==
    /\ ~ub /\ sent[p] > 0
    /\ SwapOutIsOver(p)
    /\ UNCHANGED <<regions, stack, heap, lvars, swaps, page, mem, op, brk, crossed, ub>>

-----------------------------------------------------------------------------
\* sos_VMFaultHandler: address 0, outside every region and against the rights of the region
\* (a segment's: stack and heap can be read and written) the process is destroyed, whether the
\* page is there or not; else the page is mapped or read back in.  What else happens to a page
\* that is in memory, is in module Paging.
sos_VMFaultHandler(v, allowed) ==
    /\ ~ub /\ at = "run" /\ op = NONE
    /\ IF allowed THEN page[PageOf(v)] # "in" ELSE region_probe(v) \subseteq regions
    /\ IF v = 0 \/ region_probe(v) = {} \/ ~allowed
       THEN Become(as_destroy(Now, "dead")) /\ UNCHANGED <<image, readfailed, op>>
       ELSE /\ op' = [kind |-> "fault", buf |-> PAGE_ALIGN(v), left |-> 0, wraps |-> FALSE]
            /\ UNCHANGED <<regions, stack, heap, lvars, page, locked, crossed, ub>>
    /\ UNCHANGED <<svars, mem, brk>>

\* as_is_valid_memory
ValidToTheEnd(buf, nbyte) ==
    \E r \in region_probe(buf) : (buf + nbyte) % WORD <= r.vtop
as_is_valid_memory(buf, nbyte) ==
    \E r \in region_probe(buf) : (buf + nbyte) % WORD < r.vtop

\* _copyin_do_copy and _copyout_do_copy: page by page, until a page is missing or all is
\* copied.  Whether there is anything left is asked after the page of buf has been fetched.
RECURSIVE DoCopy(_, _)
DoCopy(o, pg) ==
    LET sz == Min({PAGE_SIZE - PAGE_OFFSET(o.buf), o.left})
    IN  IF pg[PageOf(o.buf)] # "in" THEN o
        ELSE IF o.left > 0 THEN DoCopy([o EXCEPT !.buf = (@ + sz) % WORD, !.left = @ - sz], pg)
        ELSE NONE

\* copyin and copyout; a buffer that is not valid is refused and nothing changes.  No caller
\* bounds every size, so the end of a buffer may wrap.
Copy(b) ==
    /\ ~ub /\ at = "run" /\ op = NONE /\ as_is_valid_memory(b.buf, b.nbyte)
    /\ op' = DoCopy([kind |-> "copy", buf |-> b.buf, left |-> b.nbyte,
                     wraps |-> b.buf + b.nbyte >= WORD], page)
    /\ UNCHANGED <<regions, stack, heap, lvars, page, locked, svars, mem, brk, crossed, ub>>

\* sos_page_map or swap_in has brought the page in, or has failed.
PageArrives(ok) ==
    LET pg == [page EXCEPT ![PageOf(op.buf)] = "in"]
    IN  /\ ~ub /\ op # NONE /\ (ok => PageOf(op.buf) # 0)
        /\ page' = IF ok THEN pg ELSE page
        /\ op' = IF ok /\ op.kind = "copy" THEN DoCopy(op, pg) ELSE NONE
        /\ UNCHANGED <<regions, stack, heap, lvars, locked, svars, mem, brk, crossed, ub>>

\* serv_sys_sbrk and, in the process, sys_brk: the answer travels in the label of the message.
serv_sys_sbrk(v) ==
    /\ ~ub /\ at = "run" /\ op = NONE
    /\ Brk(v)
    /\ brk' = <<v, CHOOSE n \in {sos_sys_brk_returns(h, v, regions, stack) % LABEL : h \in heap} : TRUE>>
    /\ UNCHANGED <<lvars, page, locked, svars, mem, op, crossed, ub>>

\* What the loader waits for: the server's answers, and the callback of sos_page_map.
Answers ==
    \/ HeaderArrives(TRUE)
    \/ \E ok \in BOOLEAN : PageMapped(ok)
    \/ \E count \in 0 .. NFS_SEND_SIZE : ChunkArrives(count)

Next ==
    \/ Answers \/ HeaderArrives(FALSE) \/ PageMapRefused \/ ChunkFails
    \/ \E p \in Page : swap_out(p) \/ SwapOutWritten(p) \/ SwapOutFails(p)
    \/ \E v \in Word, allowed \in BOOLEAN : sos_VMFaultHandler(v, allowed)
    \/ \E b \in Buffer : Copy(b)
    \/ \E ok \in BOOLEAN : PageArrives(ok)
    \/ \E v \in Break : serv_sys_sbrk(v)

Spec == Init /\ [][Next]_vars

\* The NFS server answers what reaches it, after retransmissions (rpc.c), and sos_page_map
\* calls back.  That something fails is possible and never certain.
FairSpec == Spec /\ WF_vars(Answers)

-----------------------------------------------------------------------------
\* Two segments of the image have bytes of the file in one page.
SharesPage(f) == \E g, h \in DOMAIN f.segs :
    /\ g # h
    /\ PageOf(f.segs[h].vaddr) \in {PageOf(f.segs[g].vaddr + k) : k \in 0 .. f.segs[g].filesz}

\* While a read of the loader is under way the page it goes to has a frame, which the loader
\* has locked and the swapper does not send away, so that no other process can take it before
\* _load_segment3 has copied the data.  All other locks are the swapper's: the loader leaves
\* none behind, although it unlocks by comparing an address with a size, and no frame is lost to
\* the swapper for good, unless a read failed.  Only for an image with two segments in a page
\* can the loader meet a page that is being swapped out or has been.
Leaving == {p \in Page : sent[p] > 0}
DestinationPinned ==
    /\ ~ub /\ ~crossed =>
         /\ at = "read" => /\ page[PageOf(dst)] = "in" /\ PageOf(dst) \notin Leaving
                           /\ locked = Leaving \cup {PageOf(dst)}
         /\ at # "read" /\ ~readfailed => locked = Leaving
    /\ ub \/ crossed => SharesPage(image)

\* A process starts with the bytes of its image where its headers say, and with zeros behind
\* them, however the file was cut into chunks and whatever pages were sent to the swap file in
\* between (_load_segment2, _load_segment3, _swap_out_4_nfs_write_cb), unless the loader read to
\* a page of two segments that was just being swapped out.
ImageInPlace ==
    at = "run" /\ ~crossed => \A n \in DOMAIN image.segs :
        LET g == image.segs[n]
        IN  g.load => \A k \in 0 .. (g.memsz - 1) :
              LET a == g.vaddr + k
              IN  IF k < g.filesz THEN page[PageOf(a)] # "none" /\ mem[a] = g.offset + k + 1
                  ELSE page[PageOf(a)] # "none" => mem[a] = 0

\* The end of a segment lies beyond its region: base and size were rounded separately.
Ragged(f) == \E n \in DOMAIN f.segs :
    LET g == f.segs[n] IN g.load /\ PAGE_OFFSET(g.vaddr) + g.memsz > SegmentSize(g.memsz)

\* A page gets a frame only where the process has a region: the page a copy looks at after its
\* last byte is still one of the buffer's region (copyin, copyout, as_is_valid_memory), the
\* loader stays within the region of the segment, unless its rounding was too short.  The one
\* copy that leaves its region is one whose end wraps to a lower address.
MapsInsideRegions ==
    [][\A p \in Page : page[p] = "none" /\ page'[p] # "none" =>
           \/ \E a \in BytesOf(p) : region_probe(a) # {}
           \/ at # "run" /\ Ragged(image)
           \/ op.wraps /\ p = PageOf(op.buf)]_vars

\* Loading a process ends: it runs or its creation fails.  What may keep it from ending is a
\* file shorter than its headers say, whose end is read again and again, a sos_page_map that
\* returns an error nobody looks at, and a shared page without a frame (elf_load).
Truncated(f) == \E n \in DOMAIN f.segs :
    f.segs[n].load /\ f.segs[n].offset + f.segs[n].filesz > f.len
LoadEnds == <>(at \in {"run", "failed", "forgotten"} \/ ub \/ Truncated(image))

-----------------------------------------------------------------------------
(* What comments of the code say and the code does not keep.               *)

\* "returns 0 if failure, returns newbrk if success" (sys_morecore.c, of sys_brk).
BreakReturned == \A h \in heap : brk[1] > h.vbase => brk[2] \in {0, brk[1]}

\* "check if the given user buffer is a valid memory range" (addrspace.h, of
\* as_is_valid_memory): what it accepts lies in a region from its first byte to its last.
ValidIsInside ==
    \A b \in Buffer : as_is_valid_memory(b.buf, b.nbyte) =>
        \A k \in 0 .. (b.nbyte - 1) : region_probe((b.buf + k) % WORD) # {}
=============================================================================
