# SOS in TLA+

SOS is the operating-system personality in `src/apps/sos`: a single process on the
seL4 microkernel that serves system calls and page faults of user processes. This
directory models its control: which states its tables can be in, how the operations
it has under way interleave, and what holds in every such state. TLC checks the
models on small instances. The safety properties of the frame table, the process table,
the console and the file system calls, the disjointness of an address space's regions, and
that the remote calls of libnfs implement their abstract specification are also proved with
TLAPS for every instance.

## How SOS runs

SOS has one thread. `syscall_loop` (main.c) waits for a message and runs one handler
to its end. What may have to wait is written in continuation-passing style: the
handler allocates a `*_cont_t`, sends an NFS request (or registers a timer) and
returns; the reply arrives in the same loop and calls the next part. So a handler is
one atomic step, and what interleaves is the parts of different continuations. A user
process has one thread, blocked from its system call or fault to the reply; meanwhile
other processes run, fault, and may destroy it. The models follow this: one action
per handler, one record per continuation, and between two parts of a continuation
any other action may happen.

## The parts of SOS

Paths are under `src/apps/sos/src` unless they begin with `src/`.

| part | source | module |
|---|---|---|
| frame table, free list | vm/frametable.c | FrameOps, FrameTable, FrameTableProofs |
| victim search | vm/frametable.c | SecondChance (the loop), FrameOps (its closed form) |
| page faults | vm/vm.c | Paging; ElfLoad (the checks for a segmentation fault) |
| shadow page tables | vm/pagetable.c | Paging |
| swapping | vm/swap.c | Paging |
| copies to and from a process | vm/copyinout.c | Paging (one page, against the swapper); ElfLoad (several pages, against the regions) |
| address spaces | vm/addrspace.c | Regions, RegionsProofs (regions, stack, heap, break); Paging (the frames at the end of creation, destruction), ProcTable (creation that fails) |
| ELF loader | vm/elf.c | ElfLoad |
| memory system calls | syscall/vm_syscalls.c | ElfLoad |
| process table, process system calls | proc/proc.c, syscall/proc_syscalls.c | ProcTable, ProcTableProofs |
| timer driver | dev/clock.c | Clock, ClockProofs |
| sleeping | syscall/time_syscalls.c | Clock |
| console | dev/console.c | Console (opening, reading), ConsoleProofs |
| vnodes, open files | vfs/vfs.c, vfs/vnode.c, syscall/file.c | Vfs |
| file system calls | syscall/file_syscalls.c | Vfs (open, close), FileIO (read, write, getdirent, stat), FileIOLemmas, FileIOProofs, Console (read) |
| NFS device | dev/nfs_dev.c | Vfs (lookup, create), FileIO (the rest), Clock (timeout) |
| NFS client library | src/libs/libnfs/src/rpc.c | RemoteCall, Rpc, RpcProofs |
| untyped memory | ut_manager/ | UtAllocator |
| network, DMA, seL4 mapping helpers | dev/network.c, dev/dma.c, vm/mapping.c | none (start-up and calls without state) |
| other libraries, kernel | src/libs, src/kernel | none (external) |

`PROJECT.json` lists the parts with their status, the source lines of every
definition, and the hazards of the code with the properties that cover them.

## Conventions

* Operators keep the names of the C functions where they translate one. Operators on
  a component's state take it as a record and return the new one, so that a handler
  that calls another is a composition; `Now` and `Become` connect the record with the
  variables.
* `ub` is TRUE once SOS has used memory it had freed. Nothing is said about what
  happens after that, and the models stop.
* Some behaviour of the code breaks a property for good: an id handed out twice, a table found
  full. A ghost variable (`failed` in ProcTable, `ck.lost` in Clock, `upset` in Console, `raced`
  in Vfs, `exhausted` in UtAllocator, `readfailed` and `crossed` in ElfLoad, `torn` in FileIO,
  `unpinned` in FrameTable) records when one of these has happened, and the properties say what
  holds until then. So a property also says that nothing *else* breaks it. What these events are
  is listed under *Where code and documentation differ*.
* Definitions that stand immediately before one they resemble, and are not used,
  are variants with a plausible mistake; each property fails on at least one.
* `CHECK_DEADLOCK FALSE` is set where the system really can stop: every process is
  dead, or blocked for good in a read or a wait, or a bound is used up.

## The modules

**FrameOps** has the frame table as a record (`status`, `next`, `first`, `as`,
`vaddr`, `noswap`, `locked`, `referenced`, `victim`) and one operator for each
function of frametable.c. It has no variables; FrameTable, SecondChance and Paging use
it.

**FrameTable** is the frame table by itself under any caller: frames are allocated,
freed (twice too), locked and touched in any order, and an allocation that finds no
free frame waits for the swap-out of a victim, which ends well, badly, or with the
owner gone. `waiting[f]` holds the continuations of the allocations that wait for frame `f`.
`frame_unlock_frame` does not know who locked a frame, so anybody may unlock the frame of a
swap-out, which may then be freed or chosen a second time; `unpinned` has the frames to which
this happened while their swap-out was under way.

**SecondChance** adds to FrameTable `_second_chance_swap_victim` as the code writes it, a
loop of at most `3 * NFRAMES` turns, and compares it in every state of the frame table
with the closed form of FrameOps that the other modules use.

**Paging** composes frame table, page tables, swap slots, swap file, hardware mappings
and address spaces. Every process has at most one operation (`op[p]`): a fault or a copy
that may be in `sos_page_map` (stages `regs`, `caps`, `frame`), have a swap-out on its
behalf under way (phases `open`, `write`), or be reading its page in (stage `read`). A
page is UNITS units, because NFS transfers it in pieces and anything may happen between
two. The contents of a unit are Zero, Junk or the page it was written for, which is
enough to tell whether a page is lost or mixed up. `Faults` names the errors an instance
includes, `Copies` the kernel copies, `Warm` whether the second-level tables exist.

**ProcTable** has slots, pids, the free list of slots, creation in stages (path copied
in, slot taken and image loading), its errors at each stage, destruction and waiting. A
creation of which the code forgets the error or repeats a step for ever stays in the stage
`stuck`.

**Clock** has the sorted array of timers, the periodic EPIT1 and the one-shot use of
EPIT2, sleeping processes, the NFS timer that registers itself again in its callback,
and a client that removes its timer by id. Times are relative to the present, so the
state space is finite without a bound on time; WORD is the
range of the load register of EPIT2. With SLOW a
handler takes a unit of time between two looks at the clock. `time_stamp` reads the
counter and then the overflow flag; when the counter wraps between the two the time it
returns is an interval off (`Torn`, `AfterStamp`).

**Console** has the circular buffer, the blocked reader `_con_read_state`, the serial
handler, and copies to the reader that end at once, later or with an error. `due` is
what was typed and not yet read; `last` compares it with what the latest read got.

**Vfs** has the list of vnodes, the file tables, and opens that wait for the NFS
server. A vnode is the place malloc gave it, so a place may be used again after it was
freed.

**RemoteCall** is what libnfs promises the rest of SOS: a call is answered at most once, with
its own result, after the server carried it out, or it is abandoned and then never answered; a
call that could not be sent is refused, which does not exclude a late answer. **Rpc** is how
rpc.c does it: a queue searched by transaction id (xid), retransmission by a timer, synchronous
calls at start-up that poll and give up, and ids seeded from the server's clock, so that replies
to the former life of SOS do not match new calls. The network loses, delays, reorders and (by
retransmission) duplicates. SOS may restart at any time. `Abstract` instantiates RemoteCall with
the phases `Phase` and the results `answer`.

**Regions** has the regions of an address space and their arithmetic in words of size
WORD: `as_define_region`, `as_define_stack`, `as_define_heap`, `sos_sys_brk`. **ElfLoad**
extends it with a process from its image to its end: headers and segments arrive in
chunks, a page is mapped and its frame locked for each; then the process faults, moves
its break and has data copied. Meanwhile the swapper takes pages: `swap_out` locks the frame,
each `SwapOutWritten` copies a unit as memory has it at that moment, the last one frees the
frame, and `SwapOutFails` gives up. `mem` says which byte of the file is at an address,
`saved` what a swap-out under way has sent of it.

**FileIO** has read, write, getdirent and stat from the system call to the answer, for
processes that share a file: a write copies a page of the user's buffer at a time and
sends it packet by packet, a read asks until it has enough or gets nothing, getdirent
walks through the directory with a cookie and counts the position down, which may be negative
from the start. `others[p]` are
the bytes other processes wrote during p's call.

**UtAllocator** starts from the untyped objects seL4 leaves: they are sorted, the largest
run without a gap is kept, DMA memory is taken from it, and the rest is handed out by
bitfield pools, searched byte by byte from a hint, and by lists of slabs with a bitfield
each. `held` is what the callers have.

## The runs

Times are for two workers on a small machine.

| run | bounds | states | time |
|---|---|---|---|
| frame_table | 4 frames, 1 reserved, 1 process, 1 page, the lock of 1 frame being swapped out taken away | 493,852 | 3 min |
| paging_warm | 2 processes, 3 pages and 2 frames for them, 3 slots, 2 units, 1 kill | 58,432 | 45 s |
| paging_cold | 2 processes, 4 pages, no second-level tables yet and 1 frame for pages once there are, 4 slots, kernel copies, no memory for either table, no kill | 79,292 | 1 min 20 s |
| proc_table | 3 slots, 2 pids each, 5 creations | 310,767 | 1 min 40 s |
| clock | 3 timers, interval 2, delays 0 and 3, slow handlers, 1 process, 1 client | 290,693 | 1 min 25 s |
| console | 2 processes, 2 opens, 2 reads of 1 or 2, 4 characters, buffer of 2 | 351,312 | 25 s |
| vfs | 2 processes, 2 paths, 3 vnodes, 3 descriptors each | 196,716 | 20 s |
| rpc | 4 calls in 3 lives of SOS, 1 of them synchronous in each, 2 xids a second, 1 packet lost, 1 send refused, 1 copy of a packet | 137,347 | 2 min 15 s |
| ut_allocator | 3 machines of up to 6 objects, slabs of 4 units, bitfield pools of 4 and 2, a list of 1, bytes of 2 bits | 164,938 | 40 s |
| elf_load | 9 images, pages of 4 bytes, chunks of 2, 10 pages, 2 swap-outs | 503,762 | 3 min |
| file_io | 2 processes, 2 calls, a file of 2 bytes, transfers of 0 or 3, pages of 2, packets of 1, 3 names, positions from -1 | 178,254 | 1 min 15 s |

*frame_table*. `FreeListExact`: the free list threads every free frame once, whatever is
allocated, freed twice, or locked. `VictimPinned`: the frame of a swap-out stays
allocated and locked until the swap-out is over or somebody else unlocks it.
`SwapOutYieldsFrame`: the frame that was emptied goes to the allocation that waited for it,
again unless somebody unlocked it; `FreeListExact` holds even then. `LoopIsClosedForm`: the victim
search as a loop and as the closed form agree. Four frames give lists of every length
from 0 to 3 with every order, and every position of the hand with every combination of
bits for three frames; the theorems below remove the bound for the first three.

*paging_warm*. Two frames for three pages, so that processes take frames from each
other, and there is always one process that can fault while another's page is on its
way to or from NFS. Page tables, frame table, locks and hardware agree, and a page that
is being written out is not mapped (`FramesBelongToPages`, `MappingsFollowTables`), slots
have one owner (`SlotsExact`), no page loses its contents (`PagingTransparent`), no frame
is lost when its process dies (`NoFrameLost`), freed memory is used only for a process
destroyed in the middle of an operation (`UndefinedOnlyAfterKill`), and every fault ends
(`EveryOperationEnds`). Errors: no memory for a frame or a capability, failing writes, a
swap file that does not open. One process may be destroyed at any moment.

*paging_cold*. One frame for pages once all tables exist, so that tables are allocated by
swapping, for faults and for copies of the kernel, and either table may find no memory.
`TablesHeldOrDangling`: tables belong to one process, and only the table that is left behind
when its companion cannot be had leads to memory that was given back. Two swap-outs may be
opening the swap file at once, and `SlotsExact` holds through both.

*paging_copyout* (violated), see below.

*proc_table*. Five creations for three slots with two pids each: slots are used again,
pids wrap, and the table is found full. `ProcSlotsExact`: the free list has the empty
slots, nobody frees a process under its creation, also one that is stuck, and processes are
listed until the table is found full. `NoWaiterForgotten`, `WakeMeansExit`: waiting;
`CreationsEnd`: the creator is answered, unless it is its own creation that is stuck.

*clock*. The NFS timer, a sleeper and a client compete for three places, so the array is
also full. `OneTimerEach`: whoever waits has one timer. `NoTimerLate`: a timer is at most
LATEST late. The bound is two intervals and the handlers' own time: one interval when
EPIT2 is programmed for a time that has just passed, another when the time was read while
the counter wrapped. TLC finds timers that are exactly that late. `SleepersWake` is what
the processes need.

*console*. A buffer of two wraps and overflows with four characters; two opens allow a
reader after a reader. `ReadsReturnInput`: a read gives its reader the input in order and
nothing else, and the buffer holds what is due; `LineWakesReader`; `ReadAnsweredOnce`: the
continuation is freed once.

*vfs*. `OpenCountsExact`: counts equal descriptors, no open file loses its vnode, and the
list is the set of open vnodes; `NewVnodePrivate`: a vnode is nobody else's before the NFS
server has answered.

*rpc*. `RefinesRemoteCall`: Rpc implements RemoteCall. `QueueHasOwners`: the queue refers
only to calls whose owner waits or whose first send was refused, and rpc_call finds the
call it gives up in the queue. `CallsEnd`: every call that was sent ends. Four calls in
seconds 1 to 3 let a late reply of one life meet a start-up call and other calls of the next,
and a life use up all the xids of its second; a refused call may be answered later. The
theorems below remove the bounds. Xids are not cut to 32 bits: `seed_xid` wraps about
every five days, and a reply would have to be under way that long to meet the same id.

*ut_allocator*. `BlocksTranslate`: a block lies in one untyped object, the one
`ut_translate` finds, and not in the DMA memory. `MemoryPartitioned`: held and free blocks
cut the memory into disjoint pieces and the assertions of bitfield.c hold.
`FailsOnlyWhenFull`: in every state, an allocation of any size would fail only when there is no
block for it. A byte of two bits
makes the search by bytes go around with few blocks. The list pool's slabs are taken and
given back while the bitfield pools break up theirs.

*elf_load*. The images are aligned and not, with bss, with a header that is not loaded,
with a page two segments share, with overlapping segments, in page 0, in the stack, above
it, and shorter than their headers say; segments are read in chunks that may be short.
`ImageInPlace`: a process starts with its image in memory or in the swap file.
`DestinationPinned`: a read goes to a frame that is there, locked and not being swapped out, and
only the swapper holds locks otherwise. Both speak of loads that did not read to a page under
swap-out, which takes two segments in one page. Two swap-outs suffice for a page that goes
while its neighbour is loaded and for a page that two segments share. `RegionsDisjoint`.
`MapsInsideRegions`: loader and copies map pages only where there is a region, although a
copy looks at the page behind its last byte, but for a copy whose end wraps. `LoadEnds`.

*file_io*. `TransfersExact`: a transfer neither skips nor repeats bytes, and its number is
right. `EntryByPosition`: the name is the one at the position asked for, if that is not
negative. `LateAnswersHarmless`: an answer that comes after its process is gone touches nothing
of it, buffers are given back, and SOS itself faults only for a negative position.
`CallsReturn`. Three bytes from any offset in a page of two span up to three pages and three
packets; three names in chunks of up to two take two requests or more.

## Fairness

* Paging: a reply comes for every NFS request. libnfs retransmits (`nfs_timeout`), so a
  request of a reachable server is answered. `FairSpec` says of each process that it is
  infinitely often not waiting, or that infinitely often its waiting operation moves on;
  this is weak fairness of `Reply(p)`. Nothing is assumed about processes: they may
  never fault again.
* ProcTable: weak fairness of each creation that is not stuck, for the same reason: it goes on
  with every answer, and ends or gets to where nobody goes on with it.
* Clock: time does not stop. Interrupts are taken before more time passes.
* Rpc: SOS turns the loop of rpc_call, and its timer fires (Clock is about that); the
  server serves some request that has reached it; the network delivers some packet. Loss
  and failing sends are bounded by MAXLOSS and MAXREFUSED, so retransmission gets through
  in the end.
* ElfLoad: the server answers and `sos_page_map` calls back (`Answers`). That a request
  fails is possible and never certain. FileIO: each call that waits for memory, for the
  server or for the handler of its answer goes on (`Step(p)`). Both rest on `CallsEnd` of
  Rpc and `EveryOperationEnds` of Paging.
* Console, Vfs and UtAllocator have safety properties only.

## What is proved

FrameTableProofs proves, for every NFRAMES, RESERVED, Proc and Page that satisfy the
assumption of FrameOps (at least one reserved frame and one other):

| theorem | states |
|---|---|
| TypeCorrect | `Spec => []TypeOK` |
| FreeListIsExact | `Spec => []FreeListExact` |
| FirstFreeIsRight | `Spec => []FirstFreeTellsTruth` |
| VictimsStayPinned | `Spec => []VictimPinned` |
| ReservedStayUntouched | `Spec => []ReservedUntouched` |
| SwapOutGivesFrame | `Spec => SwapOutYieldsFrame` |

The inductive invariant is `IInv == TypeOK /\ HasFreeList(ft) /\ VictimPinned /\ VictimsManaged
/\ ReservedUntouched`. None of these is inductive alone. That a freed frame may be put at the
head of the list needs the frame to be absent from it, which is the exactness of the list
together with `frame_free`'s check of the status. That `frame_alloc` may overwrite the first
frame needs that it is free. `VictimPinned` needs that `frame_free` refuses locked frames and
that a search passes over them (`VictimSwappable`). `SwapOutYieldsFrame` needs `VictimPinned`:
only because the victim is allocated and managed does `frame_free` put it at the head of the
list, where `_frame_alloc_end` takes it. For the frames in `unpinned` only `VictimsManaged` is
left, that none of SOS's own frames is swapped out, and that is enough for the list.

`HasFreeList(t)` says that a function from `1 .. n` to frames lists the free frames in
the order of `fte_next_free`; for each operator a lemma gives the new list from the old
(`TakeKeepsList` drops the head, `FreeKeepsList` puts one in front). The list is a
witness, not a recursive definition, so no induction over its length is needed. The
`*Effect` lemmas say which entries an operation leaves alone, and the step proof has one
case for each action.

RpcProofs proves for every number of calls, lives, losses and refused sends:

| theorem | states |
|---|---|
| QueueAlwaysOwned | `Spec => []QueueHasOwners` |
| RpcRefines | `Spec => RefinesRemoteCall` |

The assumption that matters is `Paced` in the guard of `Restart`: over a life, SOS makes at most
XID_STEP calls a second, which is what `seed_xid` leaves room for. The invariant is `IInv ==
TypeOK /\ MadeInOrder /\ RepliesExecuted /\ XidsDistinct /\ QueueOwned`. That an answer is the
one to the call needs `XidsDistinct`, over all lives of SOS, whose step through `Restart` is
where the seed is used. That the server has acted needs `RepliesExecuted`. That rpc_call finds
its item in the queue when it gives up needs the last conjunct of `QueueOwned`. One lemma for
each action shows that the invariant is kept and that the step is one of RemoteCall, or none.

RegionsProofs proves for every page size, word size and stack that fits:

| theorem | states |
|---|---|
| RegionsStayDisjoint | `RegionsSpec => []RegionsDisjoint` |

`_region_overlap` compares ends, and sums of addresses may wrap. `NoOverlapMeansApart` says
that two regions it lets pass share no address even then. The heap is made as an empty
region and grows later, so `sos_sys_brk` has to compare it with the regions and the stack,
which is the case `BrkStep`. ElfLoad uses the same operators in the order `RegionsNext`
keeps; there TLC checks `RegionsDisjoint` with the loader.

ProcTableProofs proves, for every number of slots, of pids of a slot and of creations:

| theorem | states |
|---|---|
| TypeCorrect | `Spec => []TypeOK` |
| ProcSlotsStayExact | `Spec => []ProcSlotsExact` |
| WaitersStayQueued | `Spec => []NoWaiterForgotten` |
| OnlyExitsWake | `Spec => WakeMeansExit` |

The invariant is `IInv == Types /\ Sound /\ Waits`. `Types` says that every pid lies in the
range of its slot; it holds always, also after a creation that finds the table full has
emptied slot 0, and the other layers hold until the ghost `failed` records what ends them.
`Sound` has the free list (a witness, as in FrameTableProofs), that a creation and its
process belong together, and `ThreadsOnce`: a thread is in one place at most. The last is in
no property, but without it a creation that fails could free the process of another. `Waits`
says in which queue a waiting process is. That `proc_destroy` may empty a slot needs that it
refuses processes under creation; that it wakes all who wait needs that the queue it calls
is the one they are in. The proof has one lemma for each part of a handler and one case for
each action. The number of places of the free list equals `Cardinality` of the empty slots
by the theorems on finite sets; no induction is needed.

ConsoleProofs proves, for every size of the circular buffer, every set of processes and
characters, and all sizes of reads:

| theorem | states |
|---|---|
| TypeCorrect | `Spec => []TypeOK` |
| ReadsStayInOrder | `Spec => []ReadsReturnInput` |
| LinesWakeReaders | `Spec => []LineWakesReader` |
| ReadsAnsweredOnce | `Spec => []ReadAnsweredOnce` |

The invariant `Holds` is a predicate on the record the handlers work on, so that it can be
carried through their parts: a newline is stored, then the blocked read is repeated, which may
copy and answer, all in one step. It too has layers. Types, and that the console is open
exactly when its handler is registered, hold always. Until a newline comes in the middle of a
copy or a reader is destroyed, at most one read is under way, blocked or in one copy, and its
token is not freed (`OneRead`). While also no input was dropped by a close, `end` is `size`
places after `start`, the places between hold what is due, the copy under way has the
beginning of it, and a read is blocked only before a newline (`Due`). None of the three
properties is inductive: that a repeated read answers the right token needs `OneRead`, and
that the second half of a copy, at the beginning of the buffer, continues the first needs
`CopyHeld`. The arithmetic of the buffer is in lemmas of its own (`PlaceSum`, `PlacesDiffer`):
places are different as long as fewer than MAX_IO_BUF follow each other.

ClockProofs proves, for every size of the timer array, every interval of at least two units of
time, every finite set of processes, every set of delays, with or without a client that
removes timers, and whether or not time passes while SOS handles a call (SLOW):

| theorem | states |
|---|---|
| ClockTypes | `Spec => []TypeOK` |
| OneTimerForEach | `Spec => []OneTimerEach` |
| NoTimerIsLate | `Spec => []NoTimerLate` |

The range WORD of EPIT2's load register need only exceed the interval: when the load value
underflows the timer is found by EPIT1, whatever EPIT2 then counts. The invariant says that the
array is sorted, that each timer in use is the only one of its owner (`Single`; the client
excepted, whose ids may be shared), that the owner waits (`Owners`) and, until a timer is lost,
that who waits is an owner (`Served`). How late a timer may be takes another conjunct. If
handlers take no time (`Punctual`), no timer has ended, and EPIT2 is set for the first one, or
is off and EPIT1 interrupts before it. If they do (`Prompt`), a timer is late by at most what
EPIT1 has counted of its interval; once an interrupt is pending each process that waits may
have made one call since, so the bound is the interval and the number of those processes. A
timer of a process is tighter by one, as its own call came before it. `OneTimerEach` needs the
order of `_check_timeout`: the callback of NFS inserts its new timer behind the ones that have
ended, because these ended before the interval is over (`CheckKeeps`; `DropCommutes` exchanges
the insertion and the shift of the array). That the loops of `register_timer`, `remove_timer`
and `_check_timeout` stop where the operators say takes the least element of a set of numbers
(`LeastExists`, from the library's well-founded induction).

FileIOLemmas and FileIOProofs prove, for every page, packet and chunk size, every file,
directory and set of processes, and all sizes of buffers:

| theorem | states |
|---|---|
| TransfersStayExact | `Spec => TransfersExact` |
| EntriesByPosition | `Spec => EntryByPosition` |
| LateAnswersStayHarmless | `Spec => []LateAnswersHarmless` |

The invariant says of each call what it has moved and what it is about to move (`Reads`,
`Writes`, `Walks`): the file has, behind the offset at which the call began, the bytes it has
moved, but where another process wrote meanwhile (`others`); the bytes in the buffer are the
next ones; a walk through the directory is as far behind the position asked for as `pos`
says. `TransfersExact` speaks of the step that answers only, so it follows from `Ends`, which
every handler establishes when it answers (`AnsweredEnds`). The hard case is a write that
the server executes while other calls are under way: `WritesStep` shows that the bytes that
other calls have are still those of the file except at the places that enter `others`, and
that the bytes the same call wrote before lie before the new ones. Of a call whose process is
gone the invariant says less (`Kept`): it does not wait for memory unless `torn`, which is why
no answer touches what was freed, and its buffers are those that `serv_sys_write_end` and
`serv_sys_stat_end` free. The `*Good` lemmas say what each handler does to the record it works
on; `StepHolds` has one case for each action.

Before each proof TLC checked the invariant on the instance of the run. The assumptions are
the named ones of the modules: sizes are natural numbers, those that divide or bound a packet
are not 0, a file is a sequence.

Only model-checked: everything else. Liveness under fairness (`CreationsEnd`, `CallsReturn`,
`CallsEnd`, `SleepersWake`, `LoadEnds` and the like) is beyond the prover. SecondChance, Vfs and
ElfLoad use recursive operators, for which the prover has no induction. The pools of
UtAllocator are sized by powers of two and searched by bytes. Paging has no proofs yet.

## Where code and documentation differ

*paging_copyout* is a run that TLC finds violated, with the finding in `PROJECT.json`:
`copyout` writes to a page without asking whether its frame is locked for a swap-out; what
lands in a unit that was already sent is lost.

These are stated at the end of their modules, as what a comment says and the code does not
keep; TLC finds each violated when it is put in the place of the run's properties:

* `ActiveProcessesListed` (ProcTable): a creation that finds the table full calls
  `_proc_create_end` while its pid is -1, and -1 / RANGE_PER_SLOT is slot 0, which is
  emptied.
* `ReadsReachReader` (Console): closing or destroying a blocked reader does not reset
  `is_blocked`; the next newline repeats its read in the next reader's memory.
* `OneVnodePerPath` (Vfs): two opens of one path both insert a vnode, because the list is
  looked at before the NFS server is asked and not again after.
* `ReturnedCallsUnqueued` (Rpc): when the first send of a start-up call fails, rpc_call
  returns and leaves a pointer to its stack in the queue (rpc.c:350, against
  rpc.c:335-336).
* `RefusedNeverAnswered` (Rpc): the same call stays in the queue, is sent again by the timer and
  answered, although its owner was given an error (nfs.h:420-423).
* `TablesComeInPairs` (Paging): when the second of the two second-level tables cannot be
  allocated the first is freed but stays in the directory (pagetable.c:128, against the
  assertion pagetable.c:81). Violated in the instance of *paging_cold*.
* `NoCreationSticks` (ProcTable): an error that `as_create` or the loader's `sos_page_map`
  returns is ignored, or a truncated file is read for ever, and the creator is never answered
  (proc.c:413, elf.c:125, against sos.h:110).
* `ValidIsInside` (ElfLoad): the end of a buffer wraps around the address space and passes
  `as_is_valid_memory` (against addrspace.h:100).
* `NamesAreEntries` (FileIO): the handler of getdirent looks in the answer at a negative position
  and returns what it finds there, or faults (nfs_dev.c:475-486, against sos.h, "-1 if error
  (non-existent entry)").
* `BreakReturned` (ElfLoad): the new break travels in the label of a message, which has 20
  bits (vm_syscalls.c:17, against sys_morecore.c: "returns newbrk if success").
* `NextFreeEntryIsZero` (FileIO): getdirent returns 0 for the position after the next free
  entry and when a follow-up request cannot be sent, and an error for the next free entry
  itself (nfs_dev.c:506, against sos.h:99-100).
* `StatIsAboutFile` (FileIO): stat of a file that is open copies the bytes of a pointer
  instead of the attributes (against sos.h).

The models contain these too; the instances or the conditions of the properties leave
them out:

* A swap-in whose NFS read fails frees the page, whose entry is then gone; the next
  fault maps a zeroed page ("This page has never been mapped", vm.c:199;
  `NoEntryMeansNeverMapped`). Paging with `"read"` in `Faults`.
* With no free slot, `_swap_out_end` clears the bit of a slot number that was never
  assigned (swap.c:431; `SlotsExact` fails), and so it does when one of two opens of the
  swap file fails after the other has succeeded. Paging with fewer slots than pages, or
  cold with `"open"` in `Faults`.
* A process destroyed while `sos_page_map` waits for a frame on its behalf: the
  continuation goes on with the address space that was freed. `UndefinedOnlyAfterKill`
  says that this is the only way to undefined behaviour.
* An allocation is given NULL although its victim, whose owner died, has just been freed
  ("NULL if there is no more memory", vm.h:30; `NullMeansNoMemory` of FrameTable).
* A creation that fails late forgets those who wait for its process (proc.c:523, against
  proc.h:89). ghost `failed`: `"late"`.
* With all timers used, a sleep is never answered and the NFS timeout not registered
  again (clock.c:210, against sos.h:138 and nfs.h:381-382); ids of timers are not unique
  (clock.c:295, against clock.h:43), so `remove_timer` may remove another's timer. ghost
  `ck.lost`.
* A bitfield pool that meets an empty primary pool stores -1 as the place to search from
  (ut_allocator.c:69); what the search then does depends on the byte before the bitfield.
  ghost `exhausted`.
* A read of the loader that fails leaves its frame locked (elf.c, ghost `readfailed`); the
  loader does not look at what `sos_page_map` returns (elf.c:125, `at = "forgotten"`) and
  reads the end of a truncated file again and again; base and size of a segment are
  rounded separately, so that the last page of a segment that is not aligned may lie
  outside its region (`Ragged`); when two segments share a page that has gone to the swap
  file the loader makes a kernel address of a page without a frame, and when that page is just
  on its way there the bytes read after it was sent are lost (ghost `crossed`).
* Nothing records who locked a frame: a second lock of a frame that is being swapped out, and
  its unlock, leave the swap-out without protection (frametable.c, ghost `unpinned`).
* A process destroyed while a file system call of its own waits for a frame or for a copy
  (ghost `torn`); the second part of stat does not look at what `copyout` returns
  (`at = "forgotten"`).
* Closing the console with unread input sets the size to 0 but leaves start and end
  apart (console.c:163), and a newline during the copy of a blocked read starts that
  read again and frees its continuation twice (console.c:111). ghost `upset`: `"unread"`,
  `"again"`.

## What is not modelled

* The shared standard output of a process, writing to the console (a bounded loop over the
  serial port), `serv_proc_status` and `sys_time_stamp` (they copy values out).
* `stop_timer` (clock.c), which only a second `start_timer` calls.
* The frames that `as_create` gives back when it fails half-way: in Paging a process begins with
  its address space in place, in ProcTable a creation fails without a frame table.
* How much of a name fits in the buffer of getdirent: the handler cuts the name, and `copyout`
  looks again whether the memory is the process's.
* Boot, decoding of messages, DMA start-up, stubs of the C library: no state that the
  properties are about. network.c only starts the driver; its wait for the gateway
  (`network_prime_arp`) counts its time-out up instead of down, so it ends with the answer.
* The contents of RPC messages (XDR), the mount protocol and the attributes in replies.
* seL4, lwIP, the C library, the Ethernet and serial drivers and the other vendored
  libraries are most of the lines under src/ and are used as they are. Here they are
  external: a request is answered in any order, well or with an error, and a character may
  arrive whenever a handler is registered.

## What could follow

* An abstract memory (a page holds what was last written to it) that Paging implements, and
  an abstract set of deadlines that Clock's array implements.
* Proofs for the locks of Paging.
