----------------------------- MODULE ProcTable ------------------------------
(***************************************************************************)
(* The process table of SOS (proc.c) and its system calls                  *)
(* (proc_syscalls.c): creation, destruction and waiting.                   *)
(*                                                                         *)
(* A pid is slot * RANGE + a counter of that slot, so the slot of a pid is *)
(* found by division.  Empty slots form a list threaded through            *)
(* next_free_pslot.  A creation copies its path in, takes a slot and then  *)
(* waits for NFS (address space, ELF file, file table), during which its   *)
(* process is in the table but not initialised.  What the creation of an   *)
(* address space and the loading of a file do is left out: the creation    *)
(* ends well, fails, or stays where it is because nobody goes on with it.  *)
(*                                                                         *)
(* A thread number stands for a TCB of seL4, and for the reply capability  *)
(* of the system call it is blocked in.                                    *)
(***************************************************************************)
EXTENDS Integers, Sequences, FiniteSets

CONSTANTS
    MAX_PROC,       \* slots of the table
    RANGE,          \* RANGE_PER_SLOT: pids of a slot
    MAXCREATE       \* bound: how many creations begin

VARIABLES
    ps,         \* the table: proc[s], first_free_pslot, next_free_pslot, next_free_pid
    queue,      \* _wait_queue: those who wait for any process
    creating,   \* the continuations of creations, those included nobody goes on with
    threads,    \* ghost: the threads seL4 has for processes
    failed,     \* ghost: the ways in which creations have failed
    created     \* creations so far

vars == <<ps, queue, creating, threads, failed, created>>

\* The ways to fail that lose something: the table is full, or the address space, the ELF
\* file or the file table fails later.
Failure == {"full", "late"}

ASSUME ProcAssumption ==
    MAX_PROC \in Nat \ {0} /\ RANGE \in Nat \ {0} /\ MAXCREATE \in Nat

Slot   == 0 .. (MAX_PROC - 1)
Pid    == 0 .. (MAX_PROC * RANGE - 1)
Thread == 1 .. MAXCREATE
NONE   == -1        \* PROC_NULL, no slot, and any process in proc_wait
SOS    == 0         \* who creates the first process

\* processes[s] == NULL
Empty == [pid |-> NONE, thread |-> SOS, state |-> "none", waiters |-> <<>>]

\* The slot of a pid; division in C rounds towards zero.
SlotOf(pid) == IF pid < 0 THEN -((-pid) \div RANGE) ELSE pid \div RANGE

\* proc_getproc finds a process.
is_proc_alive(t, pid) == pid # NONE /\ t.proc[SlotOf(pid)].pid = pid

_cal_next_free_pid(pid, slot) == ((pid + 1) % RANGE) + RANGE * slot

proc_list_init ==
    [proc |-> [s \in Slot |-> Empty], first |-> 0,
     next |-> [s \in Slot |-> IF s = MAX_PROC - 1 THEN NONE ELSE s + 1],
     nextpid |-> [s \in Slot |-> RANGE * s]]

\* _free_proc_slot, for every pid it is called with.
_free_proc_slot(t, pid) ==
    LET s == SlotOf(pid)
    IN  [t EXCEPT !.proc[s] = Empty, !.next[s] = t.first, !.first = s]

\* proc_create enters a process that is not initialised in the first free slot.
TakeSlot(t, thread) ==
    LET i == t.first
    IN  [t EXCEPT !.proc[i] = [pid |-> t.nextpid[i], thread |-> thread, state |-> "new",
                               waiters |-> <<>>],
                  !.nextpid[i] = _cal_next_free_pid(@, i),
                  !.first = t.next[i], !.next[i] = NONE]

\* seL4_Send to the thread's reply capability: it runs again, if it still exists.
Replied(t, thread, from) ==
    [t EXCEPT !.proc = [s \in Slot |->
        IF t.proc[s].thread = thread /\ t.proc[s].state = from
        THEN [t.proc[s] EXCEPT !.state = "run"] ELSE t.proc[s]]]

\* serv_proc_wait_cb for every node of a queue.
WokenAll(t, nodes) ==
    [t EXCEPT !.proc = [s \in Slot |->
        IF t.proc[s].state = "wait"
        THEN [t.proc[s] EXCEPT !.state = "run"] ELSE t.proc[s]]]
Woken(t, nodes) ==
    [t EXCEPT !.proc = [s \in Slot |->
        IF /\ t.proc[s].state = "wait"
           /\ \E i \in DOMAIN nodes : /\ nodes[i].thread = t.proc[s].thread
                                      /\ is_proc_alive(t, nodes[i].pid)
        THEN [t.proc[s] EXCEPT !.state = "run"] ELSE t.proc[s]]]

-----------------------------------------------------------------------------

Init ==
    /\ ps = proc_list_init
    /\ queue = <<>> /\ creating = {} /\ threads = {} /\ failed = {} /\ created = 0

\* A slot whose process may make a system call.
Runs(s) == ps.proc[s].state = "run"

\* A process may destroy another.  One whose slot was taken from it still may: its calls are
\* handled with no current process.  (Its waits are never answered, its creations refused.)
SomeoneRuns ==
    \/ \E s \in Slot : Runs(s)
    \/ \E n \in threads : \A s \in Slot : ps.proc[s].thread # n

\* serv_proc_create, and SOS starting the first process: the path is being copied in.
AskCreate(by) ==
    /\ created < MAXCREATE
    /\ creating' = creating \cup {[by |-> by, stage |-> "path", pid |-> NONE,
                                   thread |-> created + 1]}
    /\ created' = created + 1
    /\ ps' = [ps EXCEPT !.proc = [s \in Slot |->
                 IF ps.proc[s].thread = by /\ ps.proc[s].state = "run"
                 THEN [ps.proc[s] EXCEPT !.state = "create"] ELSE ps.proc[s]]]
    /\ UNCHANGED <<queue, threads, failed>>

AskFirst == created = 0 /\ AskCreate(SOS)

serv_proc_create(s) == Runs(s) /\ AskCreate(ps.proc[s].thread)

\* The path cannot be copied in, or malloc fails before a slot is taken.
CopyFails(k) ==
    /\ k.stage = "path"
    /\ ps' = Replied(ps, k.by, "create")
    /\ creating' = creating \ {k}
    /\ UNCHANGED <<queue, threads, failed, created>>

\* proc_create up to as_create.
proc_create(k) ==
    /\ k.stage = "path"
    /\ ps.first # NONE
    /\ ps' = TakeSlot(ps, k.thread)
    /\ threads' = threads \cup {k.thread}
    /\ creating' = (creating \ {k}) \cup
                   {[k EXCEPT !.stage = "load", !.pid = ps.nextpid[ps.first]]}
    /\ UNCHANGED <<queue, failed, created>>

\* proc_create fails before it waits: _proc_create_end gives the slot back at once.
proc_create_fails(k) ==
    /\ k.stage = "path"
    /\ ps.first # NONE
    /\ LET t == TakeSlot(ps, k.thread)
       IN  ps' = Replied(_free_proc_slot(t, ps.nextpid[ps.first]), k.by, "create")
    /\ creating' = creating \ {k}
    /\ UNCHANGED <<queue, threads, failed, created>>

\* proc_create finds no slot: _proc_create_end frees the slot of pid -1.
proc_create_full(k) ==
    /\ k.stage = "path"
    /\ failed' = failed \cup {"full"}
    /\ ps.first = NONE
    /\ ps' = Replied(_free_proc_slot(ps, NONE), k.by, "create")
    /\ creating' = creating \ {k}
    /\ UNCHANGED <<queue, threads, created>>

\* proc_create takes a slot, but as_create returns an error, which nobody looks at.
proc_create_stuck(k) ==
    /\ k.stage = "path"
    /\ ps.first # NONE
    /\ ps' = TakeSlot(ps, k.thread)
    /\ threads' = threads \cup {k.thread}
    /\ creating' = (creating \ {k}) \cup
                   {[k EXCEPT !.stage = "stuck", !.pid = ps.nextpid[ps.first]]}
    /\ UNCHANGED <<queue, failed, created>>

\* The image is never loaded: _load_segment2 does not look at an error of sos_page_map, and
\* asks for the same bytes for ever when the file ends before its program headers say.
LoadSticks(k) ==
    /\ k.stage = "load"
    /\ creating' = (creating \ {k}) \cup {[k EXCEPT !.stage = "stuck"]}
    /\ UNCHANGED <<ps, queue, threads, failed, created>>

\* _proc_create_part4 and _proc_create_end: the process starts, its creator is told.
CreateDoneSilent(k) ==
    /\ k.stage = "load"
    /\ ps' = Replied(ps, k.thread, "new")
    /\ creating' = creating \ {k}
    /\ UNCHANGED <<queue, threads, failed, created>>
CreateDone(k) ==
    /\ k.stage = "load"
    /\ ps' = Replied(Replied(ps, k.thread, "new"), k.by, "create")
    /\ creating' = creating \ {k}
    /\ UNCHANGED <<queue, threads, failed, created>>

\* _proc_create_end with an error from a later part: slot and process are freed.
CreateFails(k) ==
    /\ k.stage = "load"
    /\ failed' = failed \cup {"late"}
    /\ ps' = Replied(_free_proc_slot(ps, k.pid), k.by, "create")
    /\ threads' = threads \ {k.thread}
    /\ creating' = creating \ {k}
    /\ UNCHANGED <<queue, created>>

\* serv_proc_destroy(pid) by some process (its own pid: exit, or a segmentation fault).  A
\* process that does not exist or is not initialised is left alone.
DestroyNew(pid) ==
    /\ SomeoneRuns
    /\ is_proc_alive(ps, pid)
    /\ LET dead == ps.proc[SlotOf(pid)]
       IN  /\ ps' = Woken(Woken(_free_proc_slot(ps, pid), queue), dead.waiters)
           /\ threads' = threads \ {dead.thread}
    /\ queue' = <<>>
    /\ UNCHANGED <<creating, failed, created>>
DestroyForgetsQueue(pid) ==
    /\ SomeoneRuns
    /\ is_proc_alive(ps, pid)
    /\ LET dead == ps.proc[SlotOf(pid)]
       IN  /\ dead.state # "new"
           /\ ps' = Woken(_free_proc_slot(ps, pid), queue)
           /\ threads' = threads \ {dead.thread}
    /\ queue' = <<>>
    /\ UNCHANGED <<creating, failed, created>>
proc_destroy(pid) ==
    /\ SomeoneRuns
    /\ is_proc_alive(ps, pid)
    /\ LET dead == ps.proc[SlotOf(pid)]
       IN  /\ dead.state # "new"
           /\ ps' = Woken(Woken(_free_proc_slot(ps, pid), queue), dead.waiters)
           /\ threads' = threads \ {dead.thread}
    /\ queue' = <<>>
    /\ UNCHANGED <<creating, failed, created>>

\* proc_wait(-1): wait for any process.
WaitAny(s) ==
    /\ Runs(s)
    /\ queue' = <<[pid |-> ps.proc[s].pid, thread |-> ps.proc[s].thread]>> \o queue
    /\ ps' = [ps EXCEPT !.proc[s].state = "wait"]
    /\ UNCHANGED <<creating, threads, failed, created>>

\* proc_wait(pid) for a process in the table, initialised or not; for another pid the
\* caller is answered at once.
proc_wait(s, pid) ==
    /\ Runs(s)
    /\ \E i \in Slot :
          /\ ps.proc[i].pid = pid
          /\ LET t == [ps EXCEPT !.proc[s].state = "wait"]
             IN  ps' = [t EXCEPT !.proc[i].waiters =
                           <<[pid |-> ps.proc[s].pid, thread |-> ps.proc[s].thread]>> \o @]
    /\ UNCHANGED <<queue, creating, threads, failed, created>>

Create(k) ==
    \/ CopyFails(k) \/ proc_create(k) \/ proc_create_fails(k) \/ proc_create_full(k)
    \/ proc_create_stuck(k) \/ LoadSticks(k) \/ CreateDone(k) \/ CreateFails(k)

Next ==
    \/ AskFirst
    \/ \E k \in creating : Create(k)
    \/ \E s \in Slot : serv_proc_create(s) \/ WaitAny(s)
    \/ \E s \in Slot, pid \in Pid : proc_wait(s, pid)
    \/ \E pid \in Pid : proc_destroy(pid)

Spec == Init /\ [][Next]_vars

\* NFS answers every request, and the callback of the answer goes on with the creation: it
\* ends, or it gets to where nobody goes on with it.
FairSpec == Spec /\ \A n \in Thread : WF_vars(\E k \in creating : k.thread = n /\ Create(k))

-----------------------------------------------------------------------------

Node == [pid : Pid, thread : Thread]
PidOf(s) == {pid \in Pid : SlotOf(pid) = s}

\* The table, the queues and the creations keep their types.  The pids of a slot are of its
\* own range, also after _cal_next_free_pid wraps around: proc_getproc divides to find them.
TypeOK ==
    /\ ps.first \in Slot \cup {NONE}
    /\ ps.next \in [Slot -> Slot \cup {NONE}]
    /\ \A s \in Slot :
          /\ ps.nextpid[s] \in PidOf(s)
          /\ \/ ps.proc[s] = Empty
             \/ /\ ps.proc[s].pid \in PidOf(s) /\ ps.proc[s].thread \in Thread
                /\ ps.proc[s].state \in {"new", "run", "create", "wait"}
                /\ ps.proc[s].waiters \in Seq(Node)
    /\ queue \in Seq(Node)
    /\ creating \subseteq [by : Thread \cup {SOS}, stage : {"path", "load", "stuck"},
                           pid : Pid \cup {NONE}, thread : Thread]
    /\ threads \subseteq Thread /\ failed \subseteq Failure
    /\ created \in 0 .. MAXCREATE

\* The slots of the free list, as far as MAX_PROC steps along next_free_pslot reach.
IsFreeList(l) ==
    /\ ps.first = IF l = <<>> THEN NONE ELSE l[1]
    /\ \A i \in DOMAIN l : ps.next[l[i]] = IF i = Len(l) THEN NONE ELSE l[i + 1]

\* The slots that first_free_pslot and next_free_pslot thread are exactly the empty ones,
\* each of them once.
FreeListThreadsEmptySlots ==
    \E n \in 0 .. MAX_PROC : \E l \in [1 .. n -> Slot] :
        /\ IsFreeList(l)
        /\ \A i, j \in 1 .. n : l[i] = l[j] => i = j
        /\ {l[i] : i \in 1 .. n} = {s \in Slot : ps.proc[s] = Empty}

\* The table, the creations under way and the threads agree, however creations, failures
\* and destructions alternate, until a creation finds the table full.  The free list threads
\* the empty slots.  A process has a pid of its slot's range, from which its slot is
\* recovered.  A creation has its process in the table, where nobody frees it under the
\* continuation (proc_destroy refuses), and a process that is not initialised has its
\* creation, which may be stuck.  A process whose thread exists is in the table, which is
\* all that sos_process_status looks at.
ProcSlotsExact ==
    "full" \notin failed =>
        /\ FreeListThreadsEmptySlots
        /\ \A s \in Slot : ps.proc[s] # Empty => ps.proc[s].pid \in PidOf(s)
        /\ \A k \in creating : k.stage # "path" =>
              LET p == ps.proc[SlotOf(k.pid)]
              IN  p.pid = k.pid /\ p.thread = k.thread /\ p.state = "new"
        /\ \A s \in Slot : ps.proc[s].state = "new" =>
              \E k \in creating : k.thread = ps.proc[s].thread
        /\ \A n \in threads : \E s \in Slot : ps.proc[s].thread = n

\* The nodes in the queue of a process or in the global one.
WaitNodes == {queue[i] : i \in DOMAIN queue} \cup
    UNION {{ps.proc[s].waiters[i] : i \in DOMAIN ps.proc[s].waiters} : s \in Slot}

\* "callback will be called whenever the specified process finished" (proc.h, proc_wait): a
\* process that waits is in the queue of a process that can still finish, or in the queue
\* of those that wait for any.  It is forgotten only if the process it waits for was under
\* creation and that failed late, or lost its slot to a creation that found the table full.
NoWaiterForgotten ==
    failed = {} => \A s \in Slot : ps.proc[s].state = "wait" =>
        \E n \in WaitNodes : n.thread = ps.proc[s].thread /\ n.pid = ps.proc[s].pid

\* A process that waits runs again only in a step in which a process leaves the table, and
\* if it waits for one process, in the step in which that one leaves.
WakeMeansExit ==
    [][\A s \in Slot :
          /\ ps.proc[s].state = "wait" /\ ps'.proc[s].state = "run"
          /\ ps.proc[s].thread = ps'.proc[s].thread
          => \E i \in Slot :
                /\ ps.proc[i] # Empty /\ ps'.proc[i] = Empty
                /\ \E n \in {queue[j] : j \in DOMAIN queue} \cup
                            {ps.proc[i].waiters[j] : j \in DOMAIN ps.proc[i].waiters} :
                      n.thread = ps.proc[s].thread]_vars

\* "Returns ID of new process, -1 if error" (sos.h): the creator of a process runs again,
\* unless it is destroyed before that, or unless its own creation is stuck: as_create or
\* sos_page_map returned an error that nobody looks at, or the file is shorter than it says.
CreationsEnd ==
    \A n \in Thread :
        (\E s \in Slot : ps.proc[s].thread = n /\ ps.proc[s].state = "create")
          ~> \/ \E k \in creating : k.by = n /\ k.stage = "stuck"
             \/ ~(\E s \in Slot : ps.proc[s].thread = n /\ ps.proc[s].state = "create")
-----------------------------------------------------------------------------
(* What comments of the code say and the code does not keep.               *)

\* "Returns through processes status of active processes" (sos.h): a process whose thread
\* exists is in the table, which is all that sos_process_status looks at.
ActiveProcessesListed ==
    \A n \in threads : \E s \in Slot : ps.proc[s].thread = n

\* "Returns ID of new process, -1 if error (non-executable image, nonexisting file)"
\* (sos.h): no creator waits for a creation that nobody goes on with.
NoCreationSticks == \A k \in creating : k.stage # "stuck"
=============================================================================
