-------------------------- MODULE ProcTableProofs ---------------------------
(***************************************************************************)
(* Proofs about the process table, for every number of slots, pids of a    *)
(* slot and creations.                                                     *)
(*                                                                         *)
(* The inductive invariant has three layers.  Types hold always.  Sound    *)
(* holds until a creation finds the table full (after which the slot of    *)
(* another process was emptied): the free list is exact, creations and     *)
(* processes belong together, and a thread is in one place at most.  The   *)
(* last of these is in no property; but that a creation which ends does    *)
(* not strand a process, and that one which fails frees its own, needs     *)
(* threads not to be used again.  Waits holds while nothing is freed under *)
(* those who wait for it.                                                  *)
(***************************************************************************)
EXTENDS ProcTable, TLAPS

State == {"none", "new", "run", "create", "wait"}
Entry == [pid : Pid \cup {NONE}, thread : Thread \cup {SOS}, state : State, waiters : Seq(Node)]
Table == [proc : [Slot -> Entry], first : Slot \cup {NONE},
          next : [Slot -> Slot \cup {NONE}], nextpid : [Slot -> Pid]]

\* An entry is empty or has a process with a pid of its slot.
EntryOK(t, s) ==
    \/ t.proc[s] = Empty
    \/ t.proc[s].pid \in PidOf(s) /\ t.proc[s].thread \in Thread /\ t.proc[s].state # "none"

TableOK(t) ==
    /\ t \in Table
    /\ \A s \in Slot : t.nextpid[s] \in PidOf(s) /\ EntryOK(t, s)

\* The list of length n threads the empty slots of t.
IsList(t, n, l) ==
    /\ t.first = IF n = 0 THEN NONE ELSE l[1]
    /\ \A i \in 1 .. n : t.next[l[i]] = IF i = n THEN NONE ELSE l[i + 1]
    /\ \A i, j \in 1 .. n : l[i] = l[j] => i = j
    /\ \A i \in 1 .. n : t.proc[l[i]] = Empty
    /\ \A s \in Slot : t.proc[s] = Empty => \E i \in 1 .. n : l[i] = s

HasList(t) == \E n \in Nat : \E l \in [1 .. n -> Slot] : IsList(t, n, l)

\* Threads are in one place at most, in the table or in a creation that has no slot yet.
ThreadsOnce(t, ks, m) ==
    /\ \A s \in Slot : t.proc[s].thread <= m
    /\ \A r, s \in Slot : t.proc[r].thread = t.proc[s].thread /\ t.proc[r].thread # SOS => r = s
    /\ \A k \in ks : k.thread <= m
    /\ \A k, j \in ks : k.thread = j.thread => k = j
    /\ \A k \in ks : k.stage = "path" => \A s \in Slot : t.proc[s].thread # k.thread

\* A creation that waits for its image has its process in the table.
LoadsOwn(t, ks) ==
    \A k \in ks : k.stage # "path" =>
        /\ k.pid \in Pid
        /\ t.proc[SlotOf(k.pid)].pid = k.pid /\ t.proc[SlotOf(k.pid)].thread = k.thread
        /\ t.proc[SlotOf(k.pid)].state = "new"

NewOwned(t, ks) ==
    \A s \in Slot : t.proc[s].state = "new" => \E k \in ks : k.thread = t.proc[s].thread

Listed(t, ts) == \A n \in ts : \E s \in Slot : t.proc[s].thread = n

Types ==
    /\ TableOK(ps) /\ queue \in Seq(Node)
    /\ creating \subseteq [by : Thread \cup {SOS}, stage : {"path", "load", "stuck"},
                           pid : Pid \cup {NONE}, thread : Thread]
    /\ \A k \in creating : k.stage # "path" => k.pid \in Pid
    /\ threads \subseteq Thread /\ failed \subseteq Failure /\ created \in 0 .. MAXCREATE

Sound ==
    "full" \notin failed =>
        /\ HasList(ps) /\ ThreadsOnce(ps, creating, created)
        /\ LoadsOwn(ps, creating) /\ Listed(ps, threads)
        /\ NewOwned(ps, creating)

\* The process in slot s is in the queue q or in that of a process.
Queued(t, q, s) ==
    \/ \E i \in DOMAIN q : q[i].thread = t.proc[s].thread /\ q[i].pid = t.proc[s].pid
    \/ \E r \in Slot : \E i \in DOMAIN t.proc[r].waiters :
          /\ t.proc[r].waiters[i].thread = t.proc[s].thread
          /\ t.proc[r].waiters[i].pid = t.proc[s].pid

Waits ==
    failed = {} => \A s \in Slot : ps.proc[s].state = "wait" => Queued(ps, queue, s)

IInv == Types /\ Sound /\ Waits

-----------------------------------------------------------------------------
(* Slots and pids.                                                         *)

\* A remainder and a multiple of RANGE are recovered by division.
LEMMA DivisionInverts ==
  ASSUME NEW R \in Nat \ {0}, NEW s \in Nat, NEW r \in 0 .. (R - 1)
  PROVE  (r + R * s) \div R = s
<1> DEFINE a == r + R * s
           q == a \div R
<1>1. R * s \in Nat /\ a \in Nat
  OBVIOUS
<1>2. q \in Int /\ a % R \in 0 .. (R - 1) /\ a = R * q + (a % R)
  <2> HIDE DEF a
  <2> QED BY <1>1
<1>3. R * q \in Int
  BY <1>2
<1>4. R * s - R * q = R * (s - q)
  BY <1>2
<1>5. R * (s - q) \in Int /\ R * (s - q) < R /\ -R < R * (s - q)
  BY <1>1, <1>2, <1>3, <1>4
<1>6. s - q >= 1 => R * (s - q) >= R
  BY <1>2
<1>7. s - q <= -1 => R * (s - q) <= -R
  BY <1>2
<1>. QED
  <2> HIDE DEF q, a
  <2>1. s = q
    BY <1>2, <1>5, <1>6, <1>7
  <2>. QED BY <2>1 DEF q, a

\* Slots, pids and threads are numbers, none of them NONE.
LEMMA SlotFacts ==
  /\ MAX_PROC \in Nat \ {0} /\ RANGE \in Nat \ {0} /\ MAXCREATE \in Nat
  /\ Slot \subseteq Nat /\ Pid \subseteq Nat /\ Thread \subseteq Nat
  /\ NONE \notin Slot /\ NONE \notin Pid /\ SOS \notin Thread /\ 0 \in Slot
  /\ \A s \in Slot : PidOf(s) \subseteq Pid /\ \A pid \in PidOf(s) : SlotOf(pid) = s
<1>1. MAX_PROC \in Nat \ {0} /\ RANGE \in Nat \ {0} /\ MAXCREATE \in Nat
  BY ProcAssumption
<1>2. MAX_PROC * RANGE \in Nat
  BY <1>1
<1>. QED
  BY <1>1, <1>2 DEF Slot, Pid, Thread, NONE, SOS, PidOf

\* The slot of a pid is a slot.
LEMMA PidHasSlot ==
  ASSUME NEW pid \in Pid
  PROVE  SlotOf(pid) \in Slot /\ pid \in PidOf(SlotOf(pid))
<1> DEFINE q == pid \div RANGE
<1>1. pid \in Nat /\ RANGE \in Nat \ {0} /\ MAX_PROC \in Nat \ {0} /\ pid < MAX_PROC * RANGE
  BY SlotFacts DEF Pid
<1>2. q \in Nat /\ RANGE * q <= pid
  BY <1>1
<1>3. q < MAX_PROC
  <2>1. ASSUME q >= MAX_PROC PROVE FALSE
    <3>1. RANGE * q >= RANGE * MAX_PROC
      BY <1>1, <1>2, <2>1
    <3>. QED BY <1>1, <1>2, <3>1
  <2>. QED BY <1>1, <1>2, <2>1
<1>4. SlotOf(pid) = q
  BY <1>1 DEF SlotOf
<1>. QED
  BY <1>1, <1>2, <1>3, <1>4 DEF Slot, PidOf

\* _cal_next_free_pid stays in the range of its slot, also when it wraps around.
LEMMA NextPidInRange ==
  ASSUME NEW s \in Slot, NEW pid \in Pid
  PROVE  _cal_next_free_pid(pid, s) \in PidOf(s)
<1> DEFINE r == (pid + 1) % RANGE
           n == r + RANGE * s
<1>1. s \in Nat /\ s <= MAX_PROC - 1 /\ pid \in Nat /\ RANGE \in Nat \ {0} /\ MAX_PROC \in Nat
  BY SlotFacts DEF Slot
<1>2. r \in 0 .. (RANGE - 1)
  BY <1>1
<1>3. RANGE * s \in Nat /\ RANGE * s <= RANGE * (MAX_PROC - 1)
  BY <1>1
<1>4. RANGE * (MAX_PROC - 1) = MAX_PROC * RANGE - RANGE /\ MAX_PROC * RANGE \in Nat
  BY <1>1
<1>5. n \in Nat /\ n <= MAX_PROC * RANGE - 1
  <2> HIDE DEF r
  <2>. QED BY <1>1, <1>2, <1>3, <1>4
<1>6. n \div RANGE = s
  <2> HIDE DEF r
  <2>. QED BY <1>1, <1>2, DivisionInverts
<1>7. n \in Pid /\ SlotOf(n) = s
  <2> HIDE DEF n
  <2>. QED BY <1>1, <1>4, <1>5, <1>6 DEF Pid, SlotOf
<1>. QED
  BY <1>7 DEF PidOf, _cal_next_free_pid

-----------------------------------------------------------------------------
(* What the operations do to the table.                                    *)

\* Two tables that differ only in states, waiters and the pids to come.
Alike(t, u) ==
    /\ u.first = t.first /\ u.next = t.next
    /\ \A s \in Slot :
          /\ u.proc[s].pid = t.proc[s].pid /\ u.proc[s].thread = t.proc[s].thread
          /\ u.proc[s] = Empty <=> t.proc[s] = Empty

SameWaiters(t, u) == \A s \in Slot : u.proc[s].waiters = t.proc[s].waiters

\* Only processes run again of which a node is in one of the queues.
WakesOnly(t, u, q, w) ==
    \A s \in Slot : u.proc[s].state # t.proc[s].state =>
        /\ t.proc[s].state = "wait" /\ u.proc[s].state = "run"
        /\ \/ \E i \in DOMAIN q : q[i].thread = t.proc[s].thread
           \/ \E i \in DOMAIN w : w[i].thread = t.proc[s].thread

\* Nobody of the queue still waits.
WakesAll(t, u, q) ==
    \A s \in Slot : \A i \in DOMAIN q :
        /\ q[i].thread = t.proc[s].thread /\ q[i].pid = t.proc[s].pid
        /\ t.proc[s].pid # NONE
        => u.proc[s].state # "wait"

\* The empty entry is an entry, and no process.
LEMMA EmptyEntry ==
  /\ Empty \in Entry
  /\ Empty.pid = NONE /\ Empty.thread = SOS /\ Empty.state = "none" /\ Empty.waiters = <<>>
BY DEF Empty, Entry, State

\* Giving a process another state, and adding nodes to its queue, keeps the table's types.
LEMMA StatesChange ==
  ASSUME NEW t, TableOK(t), NEW f \in [Slot -> Entry],
         \A s \in Slot : \/ f[s] = t.proc[s]
                         \/ /\ t.proc[s] # Empty /\ f[s].state # "none"
                            /\ f[s].pid = t.proc[s].pid /\ f[s].thread = t.proc[s].thread
  PROVE  LET u == [t EXCEPT !.proc = f]
         IN  TableOK(u) /\ Alike(t, u) /\ u.proc = f
<1> DEFINE u == [t EXCEPT !.proc = f]
<1>1. u \in Table /\ u.proc = f /\ u.first = t.first /\ u.next = t.next /\ u.nextpid = t.nextpid
  BY DEF TableOK, Table
<1>2. ASSUME NEW s \in Slot
      PROVE  /\ u.proc[s].pid = t.proc[s].pid /\ u.proc[s].thread = t.proc[s].thread
             /\ u.proc[s] = Empty <=> t.proc[s] = Empty
             /\ u.nextpid[s] \in PidOf(s) /\ EntryOK(u, s)
  BY <1>1, <1>2, EmptyEntry DEF TableOK, EntryOK
<1>. QED
  BY <1>1, <1>2 DEF TableOK, Alike

\* Replied makes the processes of the thread that are in the given state run.
LEMMA RepliedEffect ==
  ASSUME NEW t, TableOK(t), NEW n, NEW from \in {"new", "create"}
  PROVE  LET u == Replied(t, n, from)
         IN  /\ TableOK(u) /\ Alike(t, u)
             /\ \A s \in Slot :
                   /\ u.proc[s].waiters = t.proc[s].waiters
                   /\ u.proc[s].state = IF t.proc[s].thread = n /\ t.proc[s].state = from
                                        THEN "run" ELSE t.proc[s].state
<1> DEFINE f == [s \in Slot |-> IF t.proc[s].thread = n /\ t.proc[s].state = from
                                THEN [t.proc[s] EXCEPT !.state = "run"] ELSE t.proc[s]]
<1>1. \A s \in Slot : t.proc[s] \in Entry
  BY DEF TableOK, Table
<1>2. f \in [Slot -> Entry]
  BY <1>1 DEF Entry, State
<1>3. ASSUME NEW s \in Slot
      PROVE  /\ \/ f[s] = t.proc[s]
                \/ /\ t.proc[s] # Empty /\ f[s].state # "none"
                   /\ f[s].pid = t.proc[s].pid /\ f[s].thread = t.proc[s].thread
             /\ f[s].waiters = t.proc[s].waiters
             /\ f[s].state = IF t.proc[s].thread = n /\ t.proc[s].state = from
                             THEN "run" ELSE t.proc[s].state
  BY <1>1, <1>3, EmptyEntry DEF Entry, State
<1>4. Replied(t, n, from) = [t EXCEPT !.proc = f]
  BY DEF Replied
<1>. QED
  <2> HIDE DEF f
  <2>. QED BY <1>2, <1>3, <1>4, StatesChange

\* Woken makes those waiting processes run that a node of the queue names.
LEMMA WokenEffect ==
  ASSUME NEW t, TableOK(t), NEW q \in Seq(Node)
  PROVE  LET u == Woken(t, q)
         IN  /\ TableOK(u) /\ Alike(t, u) /\ SameWaiters(t, u)
             /\ WakesOnly(t, u, q, q) /\ WakesAll(t, u, q)
<1> DEFINE W(s) == /\ t.proc[s].state = "wait"
                   /\ \E i \in DOMAIN q : /\ q[i].thread = t.proc[s].thread
                                          /\ is_proc_alive(t, q[i].pid)
           f == [s \in Slot |-> IF W(s) THEN [t.proc[s] EXCEPT !.state = "run"]
                                ELSE t.proc[s]]
<1>1. \A s \in Slot : t.proc[s] \in Entry
  BY DEF TableOK, Table
<1>2. f \in [Slot -> Entry]
  BY <1>1, Zenon DEF Entry, State
<1>3. ASSUME NEW s \in Slot
      PROVE  /\ \/ f[s] = t.proc[s]
                \/ /\ t.proc[s] # Empty /\ f[s].state # "none"
                   /\ f[s].pid = t.proc[s].pid /\ f[s].thread = t.proc[s].thread
             /\ f[s].waiters = t.proc[s].waiters
             /\ f[s].state = IF W(s) THEN "run" ELSE t.proc[s].state
  <2> HIDE DEF W
  <2>1. W(s) => t.proc[s].state = "wait"
    BY DEF W
  <2>. QED BY <1>1, <1>3, <2>1, EmptyEntry DEF Entry, State
<1>4. ASSUME NEW s \in Slot, NEW i \in DOMAIN q, q[i].pid = t.proc[s].pid, t.proc[s].pid # NONE
      PROVE  is_proc_alive(t, q[i].pid)
  BY <1>4, EmptyEntry, SlotFacts DEF TableOK, EntryOK, is_proc_alive
<1>5. Woken(t, q) = [t EXCEPT !.proc = f]
  BY DEF Woken
<1>6. ASSUME NEW s \in Slot
      PROVE  /\ f[s].state # t.proc[s].state =>
                  /\ t.proc[s].state = "wait" /\ f[s].state = "run"
                  /\ \E i \in DOMAIN q : q[i].thread = t.proc[s].thread
             /\ \A i \in DOMAIN q :
                  /\ q[i].thread = t.proc[s].thread /\ q[i].pid = t.proc[s].pid
                  /\ t.proc[s].pid # NONE
                  => f[s].state # "wait"
  <2> HIDE DEF f
  <2>. QED BY <1>3, <1>4
<1>7. LET u == Woken(t, q) IN TableOK(u) /\ Alike(t, u) /\ u.proc = f
  <2> HIDE DEF f, W
  <2>. QED BY <1>2, <1>3, <1>5, StatesChange
<1>. QED
  <2> HIDE DEF f, W
  <2>. QED BY <1>3, <1>6, <1>7 DEF SameWaiters, WakesOnly, WakesAll

\* proc_create's slot is the first of the list, and gets a pid of its own range.
LEMMA TakeEffect ==
  ASSUME NEW t, TableOK(t), t.first # NONE, NEW n \in Thread
  PROVE  LET u == TakeSlot(t, n)
             i == t.first
             e == [pid |-> t.nextpid[i], thread |-> n, state |-> "new", waiters |-> <<>>]
         IN  /\ TableOK(u) /\ i \in Slot /\ t.nextpid[i] \in Pid
             /\ SlotOf(t.nextpid[i]) = i /\ e # Empty
             /\ u.first = t.next[i] /\ u.next = [t.next EXCEPT ![i] = NONE]
             /\ u.proc = [t.proc EXCEPT ![i] = e]
<1> DEFINE u == TakeSlot(t, n)
           i == t.first
           e == [pid |-> t.nextpid[i], thread |-> n, state |-> "new", waiters |-> <<>>]
           p == _cal_next_free_pid(t.nextpid[i], i)
<1>1. i \in Slot /\ t.nextpid[i] \in PidOf(i) /\ t.next[i] \in Slot \cup {NONE}
  BY DEF TableOK, Table
<1>2. t.nextpid[i] \in Pid /\ SlotOf(t.nextpid[i]) = i
  BY <1>1 DEF PidOf
<1>3. p \in PidOf(i) /\ p \in Pid
  BY <1>1, <1>2, NextPidInRange DEF PidOf
<1>4. e \in Entry /\ e.pid = t.nextpid[i] /\ e.thread = n /\ e.state = "new"
  BY <1>2 DEF Entry, State
<1>5. /\ u.proc = [t.proc EXCEPT ![i] = e] /\ u.first = t.next[i]
      /\ u.next = [t.next EXCEPT ![i] = NONE] /\ u.nextpid = [t.nextpid EXCEPT ![i] = p]
      /\ u = [proc |-> u.proc, first |-> u.first, next |-> u.next, nextpid |-> u.nextpid]
  <2>1. u = [t EXCEPT !.proc = [@ EXCEPT ![i] = e], !.nextpid = [@ EXCEPT ![i] = p],
                      !.first = t.next[i], !.next = [@ EXCEPT ![i] = NONE]]
    BY DEF TakeSlot
  <2> HIDE DEF u, e, p
  <2>. QED BY <2>1, Zenon DEF TableOK, Table
<1> HIDE DEF u, e, p
<1>6. u \in Table
  BY <1>1, <1>3, <1>4, <1>5 DEF TableOK, Table
<1>7. \A s \in Slot : u.nextpid[s] \in PidOf(s) /\ EntryOK(u, s)
  BY <1>1, <1>3, <1>4, <1>5 DEF TableOK, Table, EntryOK
<1>. QED
  BY <1>1, <1>2, <1>4, <1>5, <1>6, <1>7, EmptyEntry DEF TableOK, u, e

\* _free_proc_slot empties the slot of the pid and makes it the first of the list.
LEMMA FreeEffect ==
  ASSUME NEW t, TableOK(t), NEW pid \in Pid
  PROVE  LET u == _free_proc_slot(t, pid)
             i == SlotOf(pid)
         IN  /\ TableOK(u) /\ i \in Slot
             /\ u.first = i /\ u.next = [t.next EXCEPT ![i] = t.first]
             /\ u.proc = [t.proc EXCEPT ![i] = Empty] /\ u.nextpid = t.nextpid
<1> DEFINE u == _free_proc_slot(t, pid)
           i == SlotOf(pid)
<1>1. i \in Slot
  BY PidHasSlot
<1>2. /\ u.proc = [t.proc EXCEPT ![i] = Empty] /\ u.first = i
      /\ u.next = [t.next EXCEPT ![i] = t.first] /\ u.nextpid = t.nextpid
      /\ u = [proc |-> u.proc, first |-> u.first, next |-> u.next, nextpid |-> u.nextpid]
  <2>1. u = [t EXCEPT !.proc = [@ EXCEPT ![i] = Empty], !.next = [@ EXCEPT ![i] = t.first],
                      !.first = i]
    BY DEF _free_proc_slot
  <2> HIDE DEF u, i
  <2>. QED BY <2>1, Zenon DEF TableOK, Table
<1> HIDE DEF u, i
<1>3. u \in Table
  BY <1>1, <1>2, EmptyEntry DEF TableOK, Table
<1>4. \A s \in Slot : u.nextpid[s] \in PidOf(s) /\ EntryOK(u, s)
  BY <1>1, <1>2 DEF TableOK, Table, EntryOK
<1>. QED
  BY <1>1, <1>2, <1>3, <1>4 DEF TableOK, u, i

-----------------------------------------------------------------------------
(* The free list.                                                          *)

\* proc_list_init lists every slot, in order.
LEMMA InitList == TableOK(proc_list_init) /\ HasList(proc_list_init)
<1> DEFINE t == proc_list_init
           l == [i \in 1 .. MAX_PROC |-> i - 1]
<1>1. /\ t.proc = [s \in Slot |-> Empty] /\ t.first = 0
      /\ t.next = [s \in Slot |-> IF s = MAX_PROC - 1 THEN NONE ELSE s + 1]
      /\ t.nextpid = [s \in Slot |-> RANGE * s]
      /\ t = [proc |-> t.proc, first |-> t.first, next |-> t.next, nextpid |-> t.nextpid]
  BY DEF proc_list_init
<1>2. ASSUME NEW s \in Slot PROVE RANGE * s \in PidOf(s)
  <2>1. RANGE \in Nat \ {0} /\ s \in Nat /\ s <= MAX_PROC - 1 /\ MAX_PROC \in Nat
    BY SlotFacts DEF Slot
  <2>2. RANGE * s \in Nat /\ RANGE * s <= RANGE * (MAX_PROC - 1)
    BY <2>1
  <2>3. RANGE * (MAX_PROC - 1) = MAX_PROC * RANGE - RANGE /\ MAX_PROC * RANGE \in Nat
    BY <2>1
  <2>4. (0 + RANGE * s) \div RANGE = s
    BY <2>1, DivisionInverts
  <2>5. 0 + RANGE * s = RANGE * s
    BY <2>2
  <2>6. (RANGE * s) \div RANGE = s
    BY <2>4, <2>5
  <2>. QED BY <2>1, <2>2, <2>3, <2>6 DEF PidOf, Pid, SlotOf
<1>3. t.next \in [Slot -> Slot \cup {NONE}] /\ t.first \in Slot
  BY <1>1, SlotFacts DEF Slot
<1> HIDE DEF t
<1>4. t.nextpid \in [Slot -> Pid] /\ t.proc \in [Slot -> Entry]
  BY <1>1, <1>2, EmptyEntry DEF PidOf
<1>5. TableOK(t)
  BY <1>1, <1>2, <1>3, <1>4 DEF TableOK, Table, EntryOK
<1>6. l \in [1 .. MAX_PROC -> Slot] /\ MAX_PROC \in Nat \ {0}
  BY SlotFacts DEF Slot
<1>7. IsList(t, MAX_PROC, l)
  <2>1. \A i \in 1 .. MAX_PROC : t.next[l[i]] = IF i = MAX_PROC THEN NONE ELSE l[i + 1]
    BY <1>1, <1>6 DEF Slot
  <2>2. ASSUME NEW s \in Slot PROVE \E i \in 1 .. MAX_PROC : l[i] = s
    <3>1. s + 1 \in 1 .. MAX_PROC /\ l[s + 1] = s
      BY <1>6 DEF Slot
    <3>. QED BY <3>1
  <2>3. t.first = l[1]
    BY <1>1, <1>6
  <2>4. \A i, j \in 1 .. MAX_PROC : l[i] = l[j] => i = j
    BY <1>6
  <2> HIDE DEF l
  <2>5. MAX_PROC # 0 /\ \A i \in 1 .. MAX_PROC : l[i] \in Slot /\ t.proc[l[i]] = Empty
    BY <1>1, <1>6
  <2>. QED BY <2>1, <2>2, <2>3, <2>4, <2>5 DEF IsList
<1>. QED
  <2> HIDE DEF l
  <2>. QED BY <1>5, <1>6, <1>7 DEF HasList, t

\* Changing states and waiters does not touch the list.
LEMMA AlikeKeepsList ==
  ASSUME NEW t, NEW u, Alike(t, u), HasList(t)
  PROVE  HasList(u)
<1>0. PICK n \in Nat : \E l \in [1 .. n -> Slot] : IsList(t, n, l)
  BY DEF HasList
<1>1. PICK l \in [1 .. n -> Slot] : IsList(t, n, l)
  BY <1>0
<1>2. \A i \in 1 .. n : l[i] \in Slot
  OBVIOUS
<1>3. IsList(u, n, l)
  BY <1>1, <1>2 DEF Alike, IsList
<1>. QED BY <1>3 DEF HasList

\* The first slot of the list is empty; NONE as first means that no slot is.
LEMMA FirstIsEmpty ==
  ASSUME NEW t, TableOK(t), HasList(t), t.first # NONE
  PROVE  t.first \in Slot /\ t.proc[t.first] = Empty
<1>0. PICK n \in Nat : \E l \in [1 .. n -> Slot] : IsList(t, n, l)
  BY DEF HasList
<1>1. PICK l \in [1 .. n -> Slot] : IsList(t, n, l)
  BY <1>0
<1>2. n # 0 /\ 1 \in 1 .. n
  BY <1>1 DEF IsList
<1>. QED BY <1>1, <1>2 DEF IsList

\* Taking the first slot leaves the tail of the list.
LEMMA TakeKeepsList ==
  ASSUME NEW t, TableOK(t), HasList(t), t.first # NONE, NEW e, e # Empty, NEW u,
         u.first = t.next[t.first], u.next = [t.next EXCEPT ![t.first] = NONE],
         u.proc = [t.proc EXCEPT ![t.first] = e]
  PROVE  HasList(u)
<1>0. PICK n \in Nat : \E l \in [1 .. n -> Slot] : IsList(t, n, l)
  BY DEF HasList
<1>1. PICK l \in [1 .. n -> Slot] : IsList(t, n, l)
  BY <1>0
<1>2. n # 0 /\ 1 \in 1 .. n /\ t.first = l[1] /\ n - 1 \in Nat
  BY <1>1 DEF IsList
<1> DEFINE m == [i \in 1 .. (n - 1) |-> l[i + 1]]
<1>3. m \in [1 .. (n - 1) -> Slot] /\ \A i \in 1 .. (n - 1) : m[i] = l[i + 1] /\ i + 1 \in 1 .. n
  BY <1>2
<1>4. \A i \in 1 .. n : i # 1 => i - 1 \in 1 .. (n - 1) /\ m[i - 1] = l[i]
  BY <1>2
<1> HIDE DEF m
<1>5. /\ t.next \in [Slot -> Slot \cup {NONE}] /\ t.proc \in [Slot -> Entry]
      /\ \A i \in 1 .. n : l[i] \in Slot
  BY DEF TableOK, Table
<1>6. IsList(u, n - 1, m)
  <2>1. u.first = IF n - 1 = 0 THEN NONE ELSE m[1]
    BY <1>1, <1>2, <1>3 DEF IsList
  <2>2. ASSUME NEW i \in 1 .. (n - 1)
        PROVE  /\ u.next[m[i]] = IF i = n - 1 THEN NONE ELSE m[i + 1]
               /\ u.proc[m[i]] = Empty
    <3>1. m[i] = l[i + 1] /\ i + 1 \in 1 .. n /\ l[i + 1] # l[1] /\ l[i + 1] \in Slot
      BY <1>1, <1>2, <1>3, <1>5 DEF IsList
    <3>2. u.next[m[i]] = t.next[l[i + 1]] /\ u.proc[m[i]] = t.proc[l[i + 1]]
      BY <3>1, <1>2, <1>5
    <3>3. i # n - 1 => m[i + 1] = l[i + 1 + 1]
      BY <1>3
    <3>. QED BY <1>1, <3>1, <3>2, <3>3 DEF IsList
  <2>3. \A i, j \in 1 .. (n - 1) : m[i] = m[j] => i = j
    BY <1>1, <1>3 DEF IsList
  <2>4. ASSUME NEW s \in Slot, u.proc[s] = Empty PROVE \E i \in 1 .. (n - 1) : m[i] = s
    <3>1. s # l[1] /\ t.proc[s] = Empty
      BY <2>4, <1>2, <1>5
    <3>2. PICK i \in 1 .. n : l[i] = s
      BY <3>1, <1>1 DEF IsList
    <3>3. i # 1
      BY <3>1, <3>2
    <3>. QED BY <3>2, <3>3, <1>4
  <2>. QED BY <2>1, <2>2, <2>3, <2>4 DEF IsList
<1>. QED BY <1>2, <1>3, <1>6, Zenon DEF HasList

\* Freeing the slot of a process puts it before the list.
LEMMA FreeKeepsList ==
  ASSUME NEW t, TableOK(t), HasList(t), NEW f \in Slot, t.proc[f] # Empty, NEW u,
         u.first = f, u.next = [t.next EXCEPT ![f] = t.first],
         u.proc = [t.proc EXCEPT ![f] = Empty]
  PROVE  HasList(u)
<1>0. PICK n \in Nat : \E l \in [1 .. n -> Slot] : IsList(t, n, l)
  BY DEF HasList
<1>1. PICK l \in [1 .. n -> Slot] : IsList(t, n, l)
  BY <1>0
<1> DEFINE m == [i \in 1 .. (n + 1) |-> IF i = 1 THEN f ELSE l[i - 1]]
<1>2. /\ m \in [1 .. (n + 1) -> Slot] /\ n + 1 \in Nat /\ n + 1 # 0 /\ m[1] = f
      /\ \A i \in 1 .. (n + 1) : i # 1 => m[i] = l[i - 1] /\ i - 1 \in 1 .. n
  OBVIOUS
<1>3. \A i \in 1 .. n : i + 1 \in 1 .. (n + 1) /\ m[i + 1] = l[i]
  OBVIOUS
<1> HIDE DEF m
<1>4. /\ t.next \in [Slot -> Slot \cup {NONE}] /\ t.proc \in [Slot -> Entry]
      /\ \A i \in 1 .. n : l[i] \in Slot /\ l[i] # f
  BY <1>1 DEF TableOK, Table, IsList
<1>5. IsList(u, n + 1, m)
  <2>1. u.first = IF n + 1 = 0 THEN NONE ELSE m[1]
    BY <1>2
  <2>2. ASSUME NEW i \in 1 .. (n + 1)
        PROVE  /\ u.next[m[i]] = IF i = n + 1 THEN NONE ELSE m[i + 1]
               /\ u.proc[m[i]] = Empty
    <3>1. CASE i = 1
      <4>1. u.next[f] = t.first /\ u.proc[f] = Empty
        BY <1>4
      <4>2. n # 0 => 1 \in 1 .. n /\ m[1 + 1] = l[1]
        BY <1>3
      <4>. QED BY <3>1, <4>1, <4>2, <1>1, <1>2 DEF IsList
    <3>2. CASE i # 1
      <4>1. m[i] = l[i - 1] /\ i - 1 \in 1 .. n
        BY <1>2, <3>2
      <4>2. u.next[m[i]] = t.next[l[i - 1]] /\ u.proc[m[i]] = t.proc[l[i - 1]]
        BY <4>1, <1>4
      <4>3. i # n + 1 => i \in 1 .. n /\ m[i + 1] = l[i] /\ (i - 1) + 1 = i
        BY <1>3, <3>2
      <4>4. t.next[l[i - 1]] = IF i - 1 = n THEN NONE ELSE l[(i - 1) + 1]
        BY <4>1, <1>1 DEF IsList
      <4>. QED BY <4>1, <4>2, <4>3, <4>4, <1>1 DEF IsList
    <3>. QED BY <3>1, <3>2
  <2>3. ASSUME NEW i \in 1 .. (n + 1), NEW j \in 1 .. (n + 1), m[i] = m[j] PROVE i = j
    <3>1. (i = 1 <=> m[i] = f) /\ (j = 1 <=> m[j] = f)
      BY <1>2, <1>4
    <3>2. ASSUME i # 1, j # 1 PROVE i - 1 = j - 1
      BY <1>1, <1>2, <2>3, <3>2 DEF IsList
    <3>. QED BY <2>3, <3>1, <3>2
  <2>4. ASSUME NEW s \in Slot, u.proc[s] = Empty PROVE \E i \in 1 .. (n + 1) : m[i] = s
    <3>1. CASE s = f
      BY <3>1, <1>2
    <3>2. CASE s # f
      <4>1. t.proc[s] = Empty
        BY <2>4, <3>2, <1>4
      <4>. QED BY <4>1, <1>1, <1>3, SMTT(30) DEF IsList
    <3>. QED BY <3>1, <3>2
  <2>. QED BY <2>1, <2>2, <2>3, <2>4, Zenon DEF IsList
<1>. QED BY <1>2, <1>5 DEF HasList

-----------------------------------------------------------------------------
(* The invariant is preserved, action by action.                           *)

Creation == [by : Thread \cup {SOS}, stage : {"path", "load", "stuck"}, pid : Pid \cup {NONE},
             thread : Thread]

\* Changing states and waiters moves no thread.
LEMMA AlikeKeepsThreads ==
  ASSUME NEW t, NEW u, Alike(t, u), NEW ks, NEW js, NEW m, ThreadsOnce(t, ks, m),
         \A k \in js : k \in ks
  PROVE  ThreadsOnce(u, js, m)
<1>1. \A s \in Slot : u.proc[s].thread = t.proc[s].thread
  BY DEF Alike
<1>. QED BY <1>1 DEF ThreadsOnce

\* Changing states and waiters takes no thread out of the table.
LEMMA AlikeKeepsListed ==
  ASSUME NEW t, NEW u, Alike(t, u), NEW ts, Listed(t, ts)
  PROVE  Listed(u, ts)
<1> SUFFICES ASSUME NEW n \in ts PROVE \E s \in Slot : u.proc[s].thread = n
  BY DEF Listed
<1>1. PICK s \in Slot : t.proc[s].thread = n
  BY DEF Listed
<1>. QED BY <1>1 DEF Alike

\* The owner of a process that is not initialised stays its owner.
LEMMA AlikeKeepsOwner ==
  ASSUME NEW t, NEW u, Alike(t, u), NEW ks, NEW js, NewOwned(t, ks),
         \A s \in Slot : u.proc[s].state = "new" => t.proc[s].state = "new",
         \A s \in Slot : \A k \in ks : u.proc[s].state = "new" /\ k.thread = t.proc[s].thread
                                         => k \in js
  PROVE  NewOwned(u, js)
<1> SUFFICES ASSUME NEW s \in Slot, u.proc[s].state = "new"
             PROVE  \E k \in js : k.thread = u.proc[s].thread
  BY DEF NewOwned
<1>1. t.proc[s].state = "new" /\ t.proc[s].thread = u.proc[s].thread
  BY DEF Alike
<1>2. PICK k \in ks : k.thread = t.proc[s].thread
  BY <1>1 DEF NewOwned
<1>. QED BY <1>1, <1>2

\* The invariant holds initially.
LEMMA InitIInv == Init => IInv
<1> SUFFICES ASSUME Init PROVE IInv
  OBVIOUS
<1>1. ps = proc_list_init /\ queue = <<>> /\ creating = {} /\ threads = {} /\ failed = {}
      /\ created = 0
  BY DEF Init
<1>2. \A s \in Slot : ps.proc[s] = Empty
  BY <1>1 DEF proc_list_init
<1>3. \A s \in Slot : ps.proc[s].thread = SOS /\ ps.proc[s].state = "none"
  BY <1>2, EmptyEntry
<1>4. Types
  BY <1>1, InitList, SlotFacts DEF Types
<1>5. Sound
  BY <1>1, <1>3, InitList DEF Sound, ThreadsOnce, LoadsOwn, Listed, NewOwned, SOS
<1>6. Waits
  BY <1>3 DEF Waits
<1>. QED BY <1>4, <1>5, <1>6 DEF IInv

\* Who begins to create does not wait; the creation has a thread of its own.
LEMMA AskKeeps ==
  ASSUME IInv, NEW by \in Thread \cup {SOS}, AskCreate(by)
  PROVE  IInv'
<1> DEFINE k == [by |-> by, stage |-> "path", pid |-> NONE, thread |-> created + 1]
           f == [s \in Slot |-> IF ps.proc[s].thread = by /\ ps.proc[s].state = "run"
                                THEN [ps.proc[s] EXCEPT !.state = "create"] ELSE ps.proc[s]]
<1>1. /\ created < MAXCREATE /\ creating' = creating \cup {k} /\ created' = created + 1
      /\ ps' = [ps EXCEPT !.proc = f]
      /\ queue' = queue /\ threads' = threads /\ failed' = failed
  BY DEF AskCreate
<1>2. /\ TableOK(ps) /\ created \in 0 .. MAXCREATE /\ creating \subseteq Creation
      /\ MAXCREATE \in Nat
  BY SlotFacts DEF IInv, Types, Creation
<1>3. \A s \in Slot : ps.proc[s] \in Entry
  BY <1>2 DEF TableOK, Table
<1>4. f \in [Slot -> Entry]
  BY <1>3 DEF Entry, State
<1>5. ASSUME NEW s \in Slot
      PROVE  /\ \/ f[s] = ps.proc[s]
                \/ /\ ps.proc[s] # Empty /\ f[s].state # "none"
                   /\ f[s].pid = ps.proc[s].pid /\ f[s].thread = ps.proc[s].thread
             /\ f[s].waiters = ps.proc[s].waiters
             /\ \A st \in {"new", "wait"} : f[s].state = st <=> ps.proc[s].state = st
  BY <1>3, <1>5, EmptyEntry DEF Entry, State
<1> HIDE DEF f
<1>6. TableOK(ps') /\ Alike(ps, ps') /\ ps'.proc = f
  BY <1>1, <1>2, <1>4, <1>5, StatesChange
<1>7. k \in Creation /\ k.stage = "path" /\ k.thread = created + 1
  BY <1>1, <1>2 DEF Creation, Thread
<1> HIDE DEF k
<1>8. Types'
  BY <1>1, <1>2, <1>6, <1>7 DEF IInv, Types, Creation
<1>9. Sound'
  <2> SUFFICES ASSUME "full" \notin failed PROVE
        /\ HasList(ps') /\ ThreadsOnce(ps', creating', created')
        /\ LoadsOwn(ps', creating') /\ Listed(ps', threads')
        /\ NewOwned(ps', creating')
    BY <1>1 DEF Sound
  <2>1. /\ HasList(ps) /\ ThreadsOnce(ps, creating, created) /\ LoadsOwn(ps, creating)
        /\ Listed(ps, threads)
        /\ NewOwned(ps, creating)
    BY DEF IInv, Sound
  <2>2. HasList(ps')
    BY <1>6, <2>1, AlikeKeepsList
  <2>3. /\ \A s \in Slot : ps.proc[s].thread \in Nat /\ ps.proc[s].thread < created + 1
        /\ \A j \in creating : j.thread \in Nat /\ j.thread < created + 1
    <3>1. \A s \in Slot : ps.proc[s].thread \in Nat
      BY <1>3, SlotFacts, Zenon DEF Entry, SOS
    <3>2. \A j \in creating : j.thread \in Nat
      BY <1>2, SlotFacts, Zenon DEF Creation
    <3>3. \A s \in Slot : ps.proc[s].thread <= created
      BY <2>1 DEF ThreadsOnce
    <3>4. \A j \in creating : j.thread <= created
      BY <2>1 DEF ThreadsOnce
    <3>. QED BY <1>2, <3>1, <3>2, <3>3, <3>4
  <2>4. ThreadsOnce(ps', creating', created')
    BY <1>1, <1>2, <1>6, <1>7, <2>1, <2>3 DEF ThreadsOnce, Alike
  <2>5. LoadsOwn(ps', creating')
    BY <1>1, <1>5, <1>6, <1>7, <2>1, PidHasSlot DEF LoadsOwn, Alike
  <2>6. Listed(ps', threads')
    BY <1>1, <1>6, <2>1, AlikeKeepsListed
  <2>7. NewOwned(ps', creating')
    <3>1. \A s \in Slot : ps'.proc[s].state = "new" => ps.proc[s].state = "new"
      BY <1>5, <1>6
    <3>2. \A j \in creating : j \in creating'
      BY <1>1
    <3>3. NewOwned(ps, creating)
      BY <2>1
    <3>. QED BY <1>6, <3>1, <3>2, <3>3, AlikeKeepsOwner
  <2>. QED BY <2>2, <2>4, <2>5, <2>6, <2>7
<1>10. Waits'
  BY <1>1, <1>5, <1>6 DEF IInv, Waits, Queued, Alike
<1>. QED BY <1>8, <1>9, <1>10 DEF IInv

\* A creation that ends with no slot taken: no process is its process.
LEMMA EndsEarlyKeeps ==
  ASSUME IInv, NEW k \in creating, k.stage = "path", creating' = creating \ {k},
         UNCHANGED <<queue, threads, failed, created>>, TableOK(ps'),
         "full" \notin failed =>
            /\ Alike(ps, ps')
            /\ \A s \in Slot :
                  /\ ps'.proc[s].waiters = ps.proc[s].waiters
                  /\ \A st \in {"new", "wait"} : ps'.proc[s].state = st <=> ps.proc[s].state = st
  PROVE  IInv'
<1>1. Types'
  BY DEF IInv, Types
<1> SUFFICES ASSUME "full" \notin failed PROVE Sound' /\ Waits'
  BY <1>1 DEF IInv, Sound, Waits
<1>2. /\ Alike(ps, ps')
      /\ \A s \in Slot :
            /\ ps'.proc[s].waiters = ps.proc[s].waiters
            /\ \A st \in {"new", "wait"} : ps'.proc[s].state = st <=> ps.proc[s].state = st
  OBVIOUS
<1>3. /\ HasList(ps) /\ ThreadsOnce(ps, creating, created) /\ LoadsOwn(ps, creating)
      /\ Listed(ps, threads)
      /\ NewOwned(ps, creating)
  BY DEF IInv, Sound
<1>4. HasList(ps')
  BY <1>2, <1>3, AlikeKeepsList
<1>5. ThreadsOnce(ps', creating', created') /\ Listed(ps', threads')
  BY <1>2, <1>3, AlikeKeepsThreads, AlikeKeepsListed
<1>6. LoadsOwn(ps', creating')
  BY <1>2, <1>3, PidHasSlot DEF LoadsOwn, Alike
<1>7. \A s \in Slot : \A j \in creating : j.thread = ps.proc[s].thread => j \in creating'
  BY <1>3 DEF ThreadsOnce
<1>8. NewOwned(ps', creating')
  <2>1. \A s \in Slot : ps'.proc[s].state = "new" => ps.proc[s].state = "new"
    BY <1>2
  <2>2. NewOwned(ps, creating)
    BY <1>3
  <2>. QED BY <1>2, <1>7, <2>1, <2>2, AlikeKeepsOwner
<1>9. Waits'
  BY <1>2 DEF IInv, Waits, Queued, Alike
<1>. QED BY <1>4, <1>5, <1>6, <1>8, <1>9 DEF Sound

\* A path that cannot be copied in: only the creator's state changes.
LEMMA CopyFailsKeeps ==
  ASSUME IInv, NEW k \in creating, CopyFails(k)
  PROVE  IInv'
<1>1. TableOK(ps) /\ ps' = Replied(ps, k.by, "create")
  BY DEF IInv, Types, CopyFails
<1>2. /\ TableOK(ps') /\ Alike(ps, ps')
      /\ \A s \in Slot :
            /\ ps'.proc[s].waiters = ps.proc[s].waiters
            /\ \A st \in {"new", "wait"} : ps'.proc[s].state = st <=> ps.proc[s].state = st
  BY <1>1, RepliedEffect
<1>. QED BY <1>2, EndsEarlyKeeps DEF CopyFails

\* A slot that is taken and given back at once is the first of the list again.
LEMMA CreateFailsAtOnceKeeps ==
  ASSUME IInv, NEW k \in creating, proc_create_fails(k)
  PROVE  IInv'
<1> DEFINE i == ps.first
           t == TakeSlot(ps, k.thread)
           u == _free_proc_slot(t, ps.nextpid[i])
<1>1. TableOK(ps) /\ ps.first # NONE /\ ps' = Replied(u, k.by, "create") /\ k.thread \in Thread
  BY DEF IInv, Types, proc_create_fails
<1>2. /\ TableOK(t) /\ i \in Slot /\ ps.nextpid[i] \in Pid /\ SlotOf(ps.nextpid[i]) = i
      /\ t.first = ps.next[i] /\ t.next = [ps.next EXCEPT ![i] = NONE]
      /\ \A s \in Slot : s # i => t.proc[s] = ps.proc[s]
      /\ ps.next \in [Slot -> Slot \cup {NONE}]
  <2> HIDE DEF t
  <2>1. ps.proc \in [Slot -> Entry] /\ ps.next \in [Slot -> Slot \cup {NONE}]
    BY <1>1 DEF TableOK, Table
  <2>2. /\ TableOK(t) /\ i \in Slot /\ ps.nextpid[i] \in Pid /\ SlotOf(ps.nextpid[i]) = i
        /\ t.first = ps.next[i] /\ t.next = [ps.next EXCEPT ![i] = NONE]
        /\ t.proc = [ps.proc EXCEPT ![i] = [pid |-> ps.nextpid[i], thread |-> k.thread,
                                            state |-> "new", waiters |-> <<>>]]
    <3>1. TableOK(ps) /\ ps.first # NONE /\ k.thread \in Thread
      BY <1>1
    <3>. QED BY <3>1, TakeEffect DEF t
  <2>. QED BY <2>1, <2>2
<1> HIDE DEF t
<1>3. /\ TableOK(u) /\ u.first = i /\ u.next = [t.next EXCEPT ![i] = t.first]
      /\ u.proc = [t.proc EXCEPT ![i] = Empty]
  BY <1>2, FreeEffect
<1> HIDE DEF u
<1>4. /\ TableOK(ps') /\ Alike(u, ps')
      /\ \A s \in Slot :
            /\ ps'.proc[s].waiters = u.proc[s].waiters
            /\ \A st \in {"new", "wait"} : ps'.proc[s].state = st <=> u.proc[s].state = st
  <2>1. TableOK(u) /\ ps' = Replied(u, k.by, "create")
    BY <1>1, <1>3
  <2>. QED BY <2>1, RepliedEffect
<1>5. ASSUME "full" \notin failed PROVE \A s \in Slot : u.proc[s] = ps.proc[s]
  <2>1. HasList(ps)
    BY <1>5 DEF IInv, Sound
  <2>2. ps.proc[i] = Empty
    BY <2>1, <1>1, FirstIsEmpty
  <2>3. t.proc \in [Slot -> Entry]
    BY <1>2 DEF TableOK, Table
  <2>. QED BY <1>2, <1>3, <2>2, <2>3
<1>6. u.next = ps.next /\ u.first = ps.first
  BY <1>2, <1>3
<1>7. "full" \notin failed =>
         /\ Alike(ps, ps')
         /\ \A s \in Slot :
               /\ ps'.proc[s].waiters = ps.proc[s].waiters
               /\ \A st \in {"new", "wait"} : ps'.proc[s].state = st <=> ps.proc[s].state = st
  BY <1>4, <1>5, <1>6 DEF Alike
<1>. QED BY <1>4, <1>7, EndsEarlyKeeps, Zenon DEF proc_create_fails

\* _free_proc_slot(-1), which a creation calls that found the table full, empties slot 0, or
\* with one pid to a slot none.
LEMMA FreeNoneEffect ==
  ASSUME NEW t, TableOK(t)
  PROVE  LET u == _free_proc_slot(t, NONE)
         IN  TableOK(u) /\ u.proc = [t.proc EXCEPT ![SlotOf(NONE)] = Empty]
<1> DEFINE i == SlotOf(NONE)
           u == _free_proc_slot(t, NONE)
<1>1. i \in Slot \cup {NONE}
  BY SlotFacts DEF SlotOf, NONE
<1>2. /\ u.proc = [t.proc EXCEPT ![i] = Empty] /\ u.first = i
      /\ u.next = [t.next EXCEPT ![i] = t.first] /\ u.nextpid = t.nextpid
      /\ u = [proc |-> u.proc, first |-> u.first, next |-> u.next, nextpid |-> u.nextpid]
  <2>1. u = [t EXCEPT !.proc = [@ EXCEPT ![i] = Empty], !.next = [@ EXCEPT ![i] = t.first],
                      !.first = i]
    BY DEF _free_proc_slot
  <2> HIDE DEF u, i
  <2>. QED BY <2>1, Zenon DEF TableOK, Table
<1> HIDE DEF u, i
<1>3. u \in Table
  BY <1>1, <1>2, EmptyEntry DEF TableOK, Table
<1>4. \A s \in Slot : u.nextpid[s] \in PidOf(s) /\ EntryOK(u, s)
  BY <1>2 DEF TableOK, Table, EntryOK
<1>. QED BY <1>2, <1>3, <1>4 DEF TableOK, u, i

\* After a creation that found the table full, only the types are left.
LEMMA CreateFullKeeps ==
  ASSUME IInv, NEW k \in creating, proc_create_full(k)
  PROVE  IInv'
<1> DEFINE u == _free_proc_slot(ps, NONE)
<1>1. /\ TableOK(ps) /\ ps' = Replied(u, k.by, "create")
      /\ creating' = creating \ {k} /\ failed' = failed \cup {"full"}
      /\ queue' = queue /\ threads' = threads /\ created' = created
  BY DEF IInv, Types, proc_create_full
<1>2. TableOK(u)
  BY <1>1, FreeNoneEffect, Zenon
<1> HIDE DEF u
<1>3. TableOK(ps')
  BY <1>1, <1>2, RepliedEffect
<1>4. Types'
  BY <1>1, <1>3 DEF IInv, Types, Failure
<1>. QED BY <1>1, <1>4 DEF IInv, Sound, Waits

\* Writing the entry of a slot that nobody waits for forgets no other waiter.
LEMMA OthersStayQueued ==
  ASSUME NEW t, NEW u, NEW i \in Slot, NEW q, NEW s \in Slot, s # i, t.proc[i].waiters = <<>>,
         \A r \in Slot : r # i => u.proc[r] = t.proc[r], Queued(t, q, s)
  PROVE  Queued(u, q, s)
<1>1. u.proc[s] = t.proc[s]
  OBVIOUS
<1>2. CASE \E j \in DOMAIN q : q[j].thread = t.proc[s].thread /\ q[j].pid = t.proc[s].pid
  BY <1>1, <1>2 DEF Queued
<1>3. ASSUME NEW r \in Slot, NEW j \in DOMAIN t.proc[r].waiters,
             t.proc[r].waiters[j].thread = t.proc[s].thread,
             t.proc[r].waiters[j].pid = t.proc[s].pid
      PROVE  Queued(u, q, s)
  <2>1. r # i
    <3>1. DOMAIN <<>> = {}
      OBVIOUS
    <3>. QED BY <1>3, <3>1
  <2>2. u.proc[r] = t.proc[r]
    BY <2>1
  <2>. QED BY <1>1, <1>3, <2>2 DEF Queued
<1>. QED BY <1>2, <1>3, Zenon DEF Queued

\* What taking a slot for creation k keeps, whatever becomes of the creation.
LEMMA TakeKeeps ==
  ASSUME IInv, NEW k \in creating, k.stage = "path", ps.first # NONE
  PROVE  LET u == TakeSlot(ps, k.thread)
             i == ps.first
         IN  /\ TableOK(u) /\ i \in Slot /\ ps.nextpid[i] \in Pid /\ SlotOf(ps.nextpid[i]) = i
             /\ u.proc[i] = [pid |-> ps.nextpid[i], thread |-> k.thread, state |-> "new",
                             waiters |-> <<>>]
             /\ \A s \in Slot : s # i => u.proc[s] = ps.proc[s]
             /\ "full" \notin failed =>
                   /\ HasList(u) /\ ps.proc[i] = Empty
                   /\ failed = {} =>
                         \A s \in Slot : u.proc[s].state = "wait" => Queued(u, queue, s)
<1> DEFINE i == ps.first
           u == TakeSlot(ps, k.thread)
           e == [pid |-> ps.nextpid[i], thread |-> k.thread, state |-> "new", waiters |-> <<>>]
<1>1. TableOK(ps) /\ ps.first # NONE /\ k.thread \in Thread /\ ps.proc \in [Slot -> Entry]
  BY DEF IInv, Types, TableOK, Table
<1>2. /\ TableOK(u) /\ i \in Slot /\ ps.nextpid[i] \in Pid /\ SlotOf(ps.nextpid[i]) = i
      /\ e # Empty /\ u.first = ps.next[i] /\ u.next = [ps.next EXCEPT ![i] = NONE]
      /\ u.proc = [ps.proc EXCEPT ![i] = e]
  BY <1>1, TakeEffect
<1>3. e.state # "wait"
  OBVIOUS
<1> HIDE DEF u, e
<1>4. u.proc[i] = e /\ \A s \in Slot : s # i => u.proc[s] = ps.proc[s]
  BY <1>1, <1>2
<1>5. ASSUME "full" \notin failed
      PROVE  /\ HasList(u) /\ ps.proc[i] = Empty
             /\ failed = {} =>
                   \A s \in Slot : u.proc[s].state = "wait" => Queued(u, queue, s)
  <2>1. HasList(ps)
    BY <1>5 DEF IInv, Sound
  <2>2. ps.proc[i] = Empty
    BY <1>1, <2>1, FirstIsEmpty
  <2>3. HasList(u)
    BY <1>1, <1>2, <2>1, TakeKeepsList
  <2>4. ASSUME failed = {}, NEW s \in Slot, u.proc[s].state = "wait"
        PROVE  Queued(u, queue, s)
    <3>1. s # i /\ ps.proc[s].state = "wait"
      BY <1>3, <1>4, <2>4
    <3>2. Queued(ps, queue, s) /\ ps.proc[i].waiters = <<>>
      BY <2>2, <2>4, <3>1, EmptyEntry DEF IInv, Waits
    <3>3. i \in Slot /\ \A r \in Slot : r # i => u.proc[r] = ps.proc[r]
      BY <1>2, <1>4
    <3> HIDE DEF i
    <3>. QED BY <3>1, <3>2, <3>3, OthersStayQueued
  <2>. QED BY <2>2, <2>3, <2>4
<1>. QED BY <1>2, <1>4, <1>5 DEF u, e

\* A slot's new process belongs to the creation that took it, whether that goes on or not.
LEMMA CreateKeeps ==
  ASSUME IInv, NEW k \in creating, proc_create(k) \/ proc_create_stuck(k)
  PROVE  IInv'
<1> DEFINE i == ps.first
<1>0. PICK st \in {"load", "stuck"} :
         creating' = (creating \ {k}) \cup {[k EXCEPT !.stage = st, !.pid = ps.nextpid[i]]}
  BY DEF proc_create, proc_create_stuck
<1> DEFINE j == [k EXCEPT !.stage = st, !.pid = ps.nextpid[i]]
<1>1. /\ ps' = TakeSlot(ps, k.thread) /\ threads' = threads \cup {k.thread}
      /\ creating' = (creating \ {k}) \cup {j} /\ k.stage = "path" /\ ps.first # NONE
      /\ queue' = queue /\ failed' = failed /\ created' = created
  BY <1>0 DEF proc_create, proc_create_stuck
<1>2. /\ TableOK(ps') /\ i \in Slot /\ ps.nextpid[i] \in Pid /\ SlotOf(ps.nextpid[i]) = i
      /\ ps'.proc[i].pid = ps.nextpid[i] /\ ps'.proc[i].thread = k.thread
      /\ ps'.proc[i].state = "new"
      /\ \A s \in Slot : s # i => ps'.proc[s] = ps.proc[s]
      /\ "full" \notin failed =>
            /\ HasList(ps') /\ ps.proc[i] = Empty
            /\ failed = {} =>
                  \A s \in Slot : ps'.proc[s].state = "wait" => Queued(ps', queue, s)
  <2>1. /\ TableOK(ps') /\ i \in Slot /\ ps.nextpid[i] \in Pid /\ SlotOf(ps.nextpid[i]) = i
        /\ ps'.proc[i] = [pid |-> ps.nextpid[i], thread |-> k.thread, state |-> "new",
                          waiters |-> <<>>]
        /\ \A s \in Slot : s # i => ps'.proc[s] = ps.proc[s]
        /\ "full" \notin failed =>
              /\ HasList(ps') /\ ps.proc[i] = Empty
              /\ failed = {} =>
                    \A s \in Slot : ps'.proc[s].state = "wait" => Queued(ps', queue, s)
    BY <1>1, TakeKeeps, Zenon
  <2>. QED BY <2>1
<1>3. k \in Creation /\ creating \subseteq Creation /\ threads \subseteq Thread
  BY DEF IInv, Types, Creation
<1>4. j \in Creation /\ j.stage # "path" /\ j.pid = ps.nextpid[i] /\ j.thread = k.thread
  BY <1>2, <1>3, Zenon DEF Creation
<1> HIDE DEF j, i
<1>5. Types'
  BY <1>1, <1>2, <1>3, <1>4 DEF IInv, Types, Creation
<1> SUFFICES ASSUME "full" \notin failed PROVE Sound' /\ Waits'
  BY <1>1, <1>5 DEF IInv, Sound, Waits
<1>6. /\ ThreadsOnce(ps, creating, created) /\ LoadsOwn(ps, creating) /\ Listed(ps, threads)
      /\ NewOwned(ps, creating)
  BY DEF IInv, Sound
<1>7. /\ ps.proc[i].thread = SOS /\ ps.proc[i].state = "none" /\ ps.proc[i].pid = NONE
      /\ k.thread # SOS /\ \A s \in Slot : ps.proc[s].thread # k.thread
      /\ k.thread <= created
  BY <1>1, <1>2, <1>3, <1>6, EmptyEntry, SlotFacts DEF Creation, ThreadsOnce
<1>8. ThreadsOnce(ps', creating', created')
  <2>1. \A s \in Slot : ps'.proc[s].thread <= created
    BY <1>2, <1>6, <1>7 DEF ThreadsOnce
  <2>2. \A r, s \in Slot : ps'.proc[r].thread = ps'.proc[s].thread /\ ps'.proc[r].thread # SOS
                             => r = s
    BY <1>2, <1>6, <1>7 DEF ThreadsOnce
  <2>3. \A m \in creating' : m.thread <= created
    BY <1>1, <1>4, <1>6, <1>7 DEF ThreadsOnce
  <2>4. \A m, n \in creating' : m.thread = n.thread => m = n
    BY <1>1, <1>4, <1>6 DEF ThreadsOnce
  <2>5. ASSUME NEW m \in creating', m.stage = "path", NEW s \in Slot
        PROVE  ps'.proc[s].thread # m.thread
    <3>1. m \in creating /\ m # k
      BY <1>1, <1>4, <2>5
    <3>2. m.thread # k.thread /\ ps.proc[s].thread # m.thread
      BY <1>6, <2>5, <3>1 DEF ThreadsOnce
    <3>. QED BY <1>2, <3>2
  <2>. QED BY <1>1, <2>1, <2>2, <2>3, <2>4, <2>5 DEF ThreadsOnce
<1>9. LoadsOwn(ps', creating')
  <2> SUFFICES ASSUME NEW m \in creating', m.stage # "path"
               PROVE  /\ m.pid \in Pid
                      /\ ps'.proc[SlotOf(m.pid)].pid = m.pid
                      /\ ps'.proc[SlotOf(m.pid)].thread = m.thread
                      /\ ps'.proc[SlotOf(m.pid)].state = "new"
    BY DEF LoadsOwn
  <2>1. CASE m = j
    BY <1>2, <1>4, <2>1
  <2>2. CASE m # j
    <3>1. m \in creating
      BY <1>1, <2>2
    <3>2. /\ m.pid \in Pid /\ ps.proc[SlotOf(m.pid)].pid = m.pid
          /\ ps.proc[SlotOf(m.pid)].thread = m.thread /\ ps.proc[SlotOf(m.pid)].state = "new"
      BY <1>6, <3>1 DEF LoadsOwn
    <3>3. SlotOf(m.pid) \in Slot /\ SlotOf(m.pid) # i
      BY <1>7, <3>2, PidHasSlot
    <3>. QED BY <1>2, <3>2, <3>3
  <2>. QED BY <2>1, <2>2
<1>10. Listed(ps', threads')
  <2> SUFFICES ASSUME NEW n \in threads' PROVE \E s \in Slot : ps'.proc[s].thread = n
    BY DEF Listed
  <2>1. CASE n = k.thread
    BY <1>2, <2>1
  <2>2. CASE n # k.thread
    <3>1. PICK s \in Slot : ps.proc[s].thread = n
      BY <1>1, <1>6, <2>2 DEF Listed
    <3>2. CASE s = i
      <4>1. n = SOS
        BY <1>7, <3>1, <3>2
      <4>. QED BY <1>1, <1>3, <2>2, <4>1, SlotFacts
    <3>3. CASE s # i
      BY <1>2, <3>1, <3>3
    <3>. QED BY <3>2, <3>3
  <2>. QED BY <2>1, <2>2
<1>11. NewOwned(ps', creating')
  <2> SUFFICES ASSUME NEW s \in Slot, ps'.proc[s].state = "new"
               PROVE  \E m \in creating' : m.thread = ps'.proc[s].thread
    BY DEF NewOwned
  <2>1. CASE s = i
    BY <1>1, <1>2, <1>4, <2>1
  <2>2. CASE s # i
    <3>1. PICK m \in creating : m.thread = ps.proc[s].thread
      BY <1>2, <1>6, <2>2 DEF NewOwned
    <3>2. m # k
      BY <1>7, <3>1
    <3>. QED BY <1>1, <1>2, <2>2, <3>1, <3>2
  <2>. QED BY <2>1, <2>2
<1>. QED BY <1>1, <1>2, <1>8, <1>9, <1>10, <1>11 DEF Sound, Waits

\* A creation that nobody goes on with still has its process.
LEMMA SticksKeeps ==
  ASSUME IInv, NEW k \in creating, LoadSticks(k)
  PROVE  IInv'
<1> DEFINE j == [k EXCEPT !.stage = "stuck"]
<1>1. /\ k.stage = "load" /\ creating' = (creating \ {k}) \cup {j} /\ ps' = ps
      /\ queue' = queue /\ threads' = threads /\ failed' = failed /\ created' = created
  BY DEF LoadSticks
<1>2. k \in Creation /\ creating \subseteq Creation
  BY DEF IInv, Types, Creation
<1>3. j \in Creation /\ j.stage = "stuck" /\ j.pid = k.pid /\ j.thread = k.thread
  BY <1>2, Zenon DEF Creation
<1> HIDE DEF j
<1>4. Types'
  BY <1>1, <1>2, <1>3 DEF IInv, Types, Creation
<1>5. Waits'
  BY <1>1 DEF IInv, Waits
<1> SUFFICES ASSUME "full" \notin failed PROVE Sound'
  BY <1>1, <1>4, <1>5 DEF IInv, Sound
<1>6. /\ HasList(ps) /\ ThreadsOnce(ps, creating, created) /\ LoadsOwn(ps, creating)
      /\ Listed(ps, threads) /\ NewOwned(ps, creating)
  BY DEF IInv, Sound
<1>7. ThreadsOnce(ps, creating', created)
  BY <1>1, <1>3, <1>6 DEF ThreadsOnce
<1>8. LoadsOwn(ps, creating')
  BY <1>1, <1>3, <1>6 DEF LoadsOwn
<1>9. NewOwned(ps, creating')
  BY <1>1, <1>3, <1>6 DEF NewOwned
<1>. QED BY <1>1, <1>6, <1>7, <1>8, <1>9 DEF Sound

\* The process of a creation that ends well runs; no other that is not initialised does.
LEMMA CreateDoneKeeps ==
  ASSUME IInv, NEW k \in creating, CreateDone(k)
  PROVE  IInv'
<1> DEFINE u == Replied(ps, k.thread, "new")
<1>1. /\ k.stage = "load" /\ ps' = Replied(u, k.by, "create") /\ creating' = creating \ {k}
      /\ queue' = queue /\ threads' = threads /\ failed' = failed /\ created' = created
  BY DEF CreateDone
<1>2. TableOK(ps)
  BY DEF IInv, Types
<1>3. /\ TableOK(u) /\ Alike(ps, u)
      /\ \A s \in Slot :
            /\ u.proc[s].waiters = ps.proc[s].waiters
            /\ u.proc[s].state = "wait" <=> ps.proc[s].state = "wait"
            /\ u.proc[s].state = "new" <=>
                  ps.proc[s].state = "new" /\ ps.proc[s].thread # k.thread
  BY <1>2, RepliedEffect
<1> HIDE DEF u
<1>4. /\ TableOK(ps') /\ Alike(u, ps')
      /\ \A s \in Slot :
            /\ ps'.proc[s].waiters = u.proc[s].waiters
            /\ \A st \in {"new", "wait"} : ps'.proc[s].state = st <=> u.proc[s].state = st
  <2>1. TableOK(u) /\ ps' = Replied(u, k.by, "create")
    BY <1>1, <1>3
  <2>. QED BY <2>1, RepliedEffect
<1>5. /\ Alike(ps, ps')
      /\ \A s \in Slot :
            /\ ps'.proc[s].waiters = ps.proc[s].waiters
            /\ ps'.proc[s].state = "wait" <=> ps.proc[s].state = "wait"
            /\ ps'.proc[s].state = "new" <=>
                  ps.proc[s].state = "new" /\ ps.proc[s].thread # k.thread
  BY <1>3, <1>4 DEF Alike
<1>6. Types'
  BY <1>1, <1>4 DEF IInv, Types
<1> SUFFICES ASSUME "full" \notin failed PROVE Sound' /\ Waits'
  BY <1>1, <1>6 DEF IInv, Sound, Waits
<1>7. /\ HasList(ps) /\ ThreadsOnce(ps, creating, created) /\ LoadsOwn(ps, creating)
      /\ Listed(ps, threads)
      /\ NewOwned(ps, creating)
  BY DEF IInv, Sound
<1>8. HasList(ps') /\ ThreadsOnce(ps', creating', created') /\ Listed(ps', threads')
  BY <1>1, <1>5, <1>7, AlikeKeepsList, AlikeKeepsThreads, AlikeKeepsListed
<1>9. LoadsOwn(ps', creating')
  <2> SUFFICES ASSUME NEW m \in creating', m.stage # "path"
               PROVE  /\ m.pid \in Pid
                      /\ ps'.proc[SlotOf(m.pid)].pid = m.pid
                      /\ ps'.proc[SlotOf(m.pid)].thread = m.thread
                      /\ ps'.proc[SlotOf(m.pid)].state = "new"
    BY DEF LoadsOwn
  <2>1. m \in creating /\ m # k /\ m.thread # k.thread
    BY <1>1, <1>7 DEF ThreadsOnce
  <2>2. /\ m.pid \in Pid /\ ps.proc[SlotOf(m.pid)].pid = m.pid
        /\ ps.proc[SlotOf(m.pid)].thread = m.thread /\ ps.proc[SlotOf(m.pid)].state = "new"
    BY <1>7, <2>1 DEF LoadsOwn
  <2>3. SlotOf(m.pid) \in Slot
    BY <2>2, PidHasSlot
  <2>. QED BY <1>5, <2>1, <2>2, <2>3 DEF Alike
<1>10. NewOwned(ps', creating')
  <2>1. NewOwned(ps, creating)
    BY <1>7
  <2>2. \A s \in Slot : \A j \in creating :
           ps'.proc[s].state = "new" /\ j.thread = ps.proc[s].thread => j \in creating'
    BY <1>1, <1>5
  <2>3. \A s \in Slot : ps'.proc[s].state = "new" => ps.proc[s].state = "new"
    BY <1>5
  <2>4. Alike(ps, ps')
    BY <1>5
  <2>. QED BY <2>1, <2>2, <2>3, <2>4, AlikeKeepsOwner
<1>11. Waits'
  BY <1>1, <1>5 DEF IInv, Waits, Queued, Alike
<1>. QED BY <1>1, <1>8, <1>9, <1>10, <1>11 DEF Sound

\* Freeing the slot of a process, when js are the creations that stay: none of them is the
\* creation of that process, and the others are.
LEMMA FreeKeeps ==
  ASSUME IInv, "full" \notin failed, NEW pid \in Pid, NEW i \in Slot, i = SlotOf(pid),
         ps.proc[i].pid = pid, NEW js \in SUBSET creating,
         \A j \in js : j.stage # "path" => j.thread # ps.proc[i].thread,
         \A j \in creating : j \notin js => j.thread = ps.proc[i].thread
  PROVE  LET u == _free_proc_slot(ps, pid)
         IN  /\ HasList(u) /\ ThreadsOnce(u, js, created) /\ LoadsOwn(u, js)
             /\ Listed(u, threads \ {ps.proc[i].thread})
             /\ NewOwned(u, js)
<1> DEFINE u == _free_proc_slot(ps, pid)
           n == ps.proc[i].thread
<1>1. TableOK(ps) /\ threads \subseteq Thread /\ creating \subseteq Creation
  BY DEF IInv, Types, Creation
<1>2. /\ HasList(ps) /\ ThreadsOnce(ps, creating, created) /\ LoadsOwn(ps, creating)
      /\ Listed(ps, threads)
      /\ NewOwned(ps, creating)
  BY DEF IInv, Sound
<1>3. ps.proc[i] # Empty /\ n # SOS
  BY <1>1, EmptyEntry, SlotFacts DEF TableOK, EntryOK
<1>4. /\ u.first = i /\ u.next = [ps.next EXCEPT ![i] = ps.first]
      /\ u.proc = [ps.proc EXCEPT ![i] = Empty]
  BY <1>1, FreeEffect
<1> HIDE DEF u, n
<1>5. HasList(u)
  BY <1>1, <1>2, <1>3, <1>4, FreeKeepsList, SMTT(30)
<1>6. /\ u.proc[i].thread = SOS /\ u.proc[i].state = "none"
      /\ \A s \in Slot : s # i => u.proc[s] = ps.proc[s]
  <2>1. ps.proc \in [Slot -> Entry]
    BY <1>1 DEF TableOK, Table
  <2>. QED BY <1>4, <2>1, EmptyEntry
<1>7. \A s \in Slot : s # i => ps.proc[s].thread # n
  BY <1>2, <1>3 DEF ThreadsOnce, n
<1>8. ThreadsOnce(u, js, created)
  <2>1. created \in Nat /\ \A j \in creating : j.thread # SOS
    BY <1>1, SlotFacts DEF IInv, Types, Creation
  <2>2. \A s \in Slot : u.proc[s].thread <= created
    BY <1>2, <1>6, <2>1 DEF ThreadsOnce, SOS
  <2>3. \A r, s \in Slot : u.proc[r].thread = u.proc[s].thread /\ u.proc[r].thread # SOS => r = s
    BY <1>2, <1>6 DEF ThreadsOnce
  <2>4. \A j \in js : j.stage = "path" => \A s \in Slot : u.proc[s].thread # j.thread
    BY <1>2, <1>6, <2>1 DEF ThreadsOnce
  <2>5. /\ \A j \in js : j.thread <= created
        /\ \A j, k \in js : j.thread = k.thread => j = k
    BY <1>2 DEF ThreadsOnce
  <2>. QED BY <2>2, <2>3, <2>4, <2>5 DEF ThreadsOnce
<1>9. LoadsOwn(u, js)
  <2> SUFFICES ASSUME NEW m \in js, m.stage # "path"
               PROVE  /\ m.pid \in Pid
                      /\ u.proc[SlotOf(m.pid)].pid = m.pid
                      /\ u.proc[SlotOf(m.pid)].thread = m.thread
                      /\ u.proc[SlotOf(m.pid)].state = "new"
    BY DEF LoadsOwn
  <2>1. m \in creating /\ m.thread # n
    BY DEF n
  <2>2. /\ m.pid \in Pid /\ ps.proc[SlotOf(m.pid)].pid = m.pid
        /\ ps.proc[SlotOf(m.pid)].thread = m.thread /\ ps.proc[SlotOf(m.pid)].state = "new"
    BY <1>2, <2>1 DEF LoadsOwn
  <2>3. SlotOf(m.pid) \in Slot /\ SlotOf(m.pid) # i
    BY <2>1, <2>2, PidHasSlot DEF n
  <2>. QED BY <1>6, <2>2, <2>3
<1>10. ASSUME NEW x \in threads \ {n} PROVE \E s \in Slot : u.proc[s].thread = x
  <2>1. PICK s \in Slot : ps.proc[s].thread = x
    BY <1>2 DEF Listed
  <2>2. s # i
    BY <2>1 DEF n
  <2>. QED BY <1>6, <2>1, <2>2
<1>11. ASSUME NEW s \in Slot, u.proc[s].state = "new"
       PROVE  \E m \in js : m.thread = u.proc[s].thread
  <2>1. s # i /\ ps.proc[s].state = "new" /\ u.proc[s].thread = ps.proc[s].thread
    BY <1>6, <1>11
  <2>2. PICK m \in creating : m.thread = ps.proc[s].thread
    BY <1>2, <1>11, <2>1 DEF NewOwned
  <2>3. m \in js
    BY <1>7, <2>1, <2>2 DEF n
  <2>. QED BY <2>1, <2>2, <2>3
<1>. QED BY <1>5, <1>8, <1>9, <1>10, <1>11 DEF u, n, Listed, NewOwned

\* A creation that fails late frees its own process.
LEMMA CreateFailsKeeps ==
  ASSUME IInv, NEW k \in creating, CreateFails(k)
  PROVE  IInv'
<1> DEFINE u == _free_proc_slot(ps, k.pid)
           i == SlotOf(k.pid)
<1>1. /\ k.stage = "load" /\ ps' = Replied(u, k.by, "create") /\ creating' = creating \ {k}
      /\ threads' = threads \ {k.thread} /\ failed' = failed \cup {"late"}
      /\ queue' = queue /\ created' = created
  BY DEF CreateFails
<1>2. TableOK(ps) /\ k.pid \in Pid /\ i \in Slot
  BY <1>1, PidHasSlot DEF IInv, Types
<1>3. TableOK(u)
  BY <1>2, FreeEffect, Zenon
<1>4. ASSUME "full" \notin failed
      PROVE  /\ HasList(u) /\ ThreadsOnce(u, creating', created') /\ LoadsOwn(u, creating')
             /\ Listed(u, threads')
             /\ NewOwned(u, creating')
  <2>1. ThreadsOnce(ps, creating, created) /\ LoadsOwn(ps, creating)
    BY <1>4 DEF IInv, Sound
  <2>2. ps.proc[i].pid = k.pid /\ ps.proc[i].thread = k.thread
    BY <1>1, <2>1 DEF LoadsOwn
  <2>3. \A j \in creating' : j.stage # "path" => j.thread # ps.proc[i].thread
    BY <1>1, <2>1, <2>2 DEF ThreadsOnce
  <2>4. \A j \in creating : j \notin creating' => j.thread = ps.proc[i].thread
    BY <1>1, <2>2
  <2>5. creating' \in SUBSET creating
    BY <1>1
  <2> HIDE DEF i
  <2>6. i = SlotOf(k.pid)
    BY DEF i
  <2>7. /\ HasList(u) /\ ThreadsOnce(u, creating', created) /\ LoadsOwn(u, creating')
        /\ Listed(u, threads \ {ps.proc[i].thread})
        /\ NewOwned(u, creating')
    BY <1>2, <1>4, <2>2, <2>3, <2>4, <2>5, <2>6, FreeKeeps, Zenon
  <2>. QED BY <1>1, <2>2, <2>7
<1> HIDE DEF u
<1>5. /\ TableOK(ps') /\ Alike(u, ps')
      /\ \A s \in Slot : ps'.proc[s].state = "new" <=> u.proc[s].state = "new"
  <2>1. TableOK(u) /\ ps' = Replied(u, k.by, "create")
    BY <1>1, <1>3
  <2>. QED BY <2>1, RepliedEffect
<1>6. Types'
  BY <1>1, <1>5 DEF IInv, Types, Failure
<1>7. Waits'
  BY <1>1 DEF Waits
<1> SUFFICES ASSUME "full" \notin failed PROVE Sound'
  BY <1>1, <1>6, <1>7 DEF IInv, Sound
<1>8. HasList(ps') /\ ThreadsOnce(ps', creating', created') /\ Listed(ps', threads')
  BY <1>4, <1>5, AlikeKeepsList, AlikeKeepsThreads, AlikeKeepsListed
<1>9. LoadsOwn(ps', creating')
  BY <1>4, <1>5, PidHasSlot DEF LoadsOwn, Alike
<1>10. NewOwned(ps', creating')
  BY <1>4, <1>5, AlikeKeepsOwner
<1>. QED BY <1>1, <1>8, <1>9, <1>10 DEF Sound

\* What proc_destroy does to the table: the slot is empty, those who were queued run, and
\* who runs again was in the queue of the process or in the global one.
LEMMA DestroyEffect ==
  ASSUME IInv, NEW pid \in Pid, proc_destroy(pid)
  PROVE  LET u == _free_proc_slot(ps, pid)
             i == SlotOf(pid)
             w == ps.proc[i].waiters
         IN  /\ i \in Slot /\ ps.proc[i].pid = pid /\ ps.proc[i].state # "new"
             /\ u.proc[i] = Empty /\ \A s \in Slot : s # i => u.proc[s] = ps.proc[s]
             /\ TableOK(ps') /\ Alike(u, ps') /\ SameWaiters(u, ps')
             /\ WakesOnly(u, ps', queue, w) /\ WakesAll(u, ps', queue) /\ WakesAll(u, ps', w)
<1> DEFINE u == _free_proc_slot(ps, pid)
           i == SlotOf(pid)
           w == ps.proc[i].waiters
           v == Woken(u, queue)
           x == Woken(v, w)
<1>1. TableOK(ps) /\ queue \in Seq(Node) /\ ps.proc \in [Slot -> Entry]
  BY DEF IInv, Types, TableOK, Table
<1>2. ps' = x /\ ps.proc[i].pid = pid /\ ps.proc[i].state # "new"
  BY DEF proc_destroy, is_proc_alive
<1>3. i \in Slot /\ w \in Seq(Node)
  BY <1>1, PidHasSlot DEF Entry
<1>4. TableOK(u) /\ u.proc = [ps.proc EXCEPT ![i] = Empty]
  BY <1>1, FreeEffect, Zenon
<1> HIDE DEF u, i, w
<1>5. u.proc[i] = Empty /\ \A s \in Slot : s # i => u.proc[s] = ps.proc[s]
  BY <1>1, <1>3, <1>4
<1>6. /\ TableOK(v) /\ Alike(u, v) /\ SameWaiters(u, v)
      /\ WakesOnly(u, v, queue, queue) /\ WakesAll(u, v, queue)
  BY <1>1, <1>4, WokenEffect
<1> HIDE DEF v
<1>7. /\ TableOK(x) /\ Alike(v, x) /\ SameWaiters(v, x)
      /\ WakesOnly(v, x, w, w) /\ WakesAll(v, x, w)
  BY <1>3, <1>6, WokenEffect
<1> HIDE DEF x
<1>8. Alike(u, x) /\ SameWaiters(u, x)
  BY <1>6, <1>7 DEF Alike, SameWaiters
<1>9. \A s \in Slot : v.proc[s].thread = u.proc[s].thread /\ v.proc[s].pid = u.proc[s].pid
  BY <1>6 DEF Alike
<1>10. WakesOnly(u, x, queue, w)
  BY <1>6, <1>7, <1>9 DEF WakesOnly
<1>11. WakesAll(u, x, queue)
  BY <1>6, <1>7 DEF WakesAll, WakesOnly
<1>12. WakesAll(u, x, w)
  BY <1>7, <1>9 DEF WakesAll
<1>. QED BY <1>2, <1>3, <1>5, <1>7, <1>8, <1>10, <1>11, <1>12, Zenon DEF u, i, w

\* The destroyed process is no creation's, and everyone who waits for it is told.
LEMMA DestroyKeeps ==
  ASSUME IInv, NEW pid \in Pid, proc_destroy(pid)
  PROVE  IInv'
<1> DEFINE u == _free_proc_slot(ps, pid)
           i == SlotOf(pid)
           w == ps.proc[i].waiters
<1>1. /\ threads' = threads \ {ps.proc[i].thread} /\ queue' = <<>>
      /\ creating' = creating /\ failed' = failed /\ created' = created
  BY DEF proc_destroy
<1>0. /\ i \in Slot /\ ps.proc[i].pid = pid /\ ps.proc[i].state # "new"
      /\ u.proc[i] = Empty /\ \A s \in Slot : s # i => u.proc[s] = ps.proc[s]
      /\ TableOK(ps') /\ Alike(u, ps') /\ SameWaiters(u, ps')
      /\ WakesOnly(u, ps', queue, w) /\ WakesAll(u, ps', queue) /\ WakesAll(u, ps', w)
  BY DestroyEffect, Zenon
<1>2. /\ i \in Slot /\ ps.proc[i].pid = pid /\ ps.proc[i].state # "new"
      /\ u.proc[i] = Empty /\ \A s \in Slot : s # i => u.proc[s] = ps.proc[s]
  BY <1>0, Zenon
<1>3. /\ TableOK(ps') /\ Alike(u, ps') /\ SameWaiters(u, ps')
      /\ WakesOnly(u, ps', queue, w) /\ WakesAll(u, ps', queue) /\ WakesAll(u, ps', w)
  BY <1>0, Zenon
<1>4. TableOK(ps) /\ i = SlotOf(pid)
  BY DEF IInv, Types
<1> HIDE DEF i
<1>5. ASSUME "full" \notin failed
      PROVE  /\ HasList(u) /\ ThreadsOnce(u, creating, created) /\ LoadsOwn(u, creating)
             /\ Listed(u, threads')
             /\ NewOwned(u, creating)
  <2>1. ThreadsOnce(ps, creating, created) /\ LoadsOwn(ps, creating)
    BY <1>5 DEF IInv, Sound
  <2>2. ps.proc[i].thread # SOS
    BY <1>2, <1>4, SlotFacts, EmptyEntry DEF TableOK, EntryOK
  <2>3. ASSUME NEW j \in creating, j.stage # "path" PROVE j.thread # ps.proc[i].thread
    <3>1. /\ SlotOf(j.pid) \in Slot /\ ps.proc[SlotOf(j.pid)].thread = j.thread
          /\ ps.proc[SlotOf(j.pid)].state = "new"
      BY <2>1, <2>3, PidHasSlot DEF LoadsOwn
    <3>. QED BY <1>2, <2>1, <2>2, <3>1 DEF ThreadsOnce
  <2>4. i \in Slot /\ ps.proc[i].pid = pid /\ creating \in SUBSET creating
    BY <1>2
  <2>5. /\ HasList(u) /\ ThreadsOnce(u, creating, created) /\ LoadsOwn(u, creating)
        /\ Listed(u, threads \ {ps.proc[i].thread})
        /\ NewOwned(u, creating)
    BY <1>4, <1>5, <2>3, <2>4, FreeKeeps, Zenon
  <2>. QED BY <1>1, <2>5, Zenon
<1> HIDE DEF u, w
<1>6. \A s \in Slot : ps'.proc[s].state = "new" <=> u.proc[s].state = "new"
  BY <1>3 DEF WakesOnly
<1>7. Types'
  BY <1>1, <1>3 DEF IInv, Types
<1>8. ASSUME "full" \notin failed
      PROVE  /\ HasList(ps') /\ ThreadsOnce(ps', creating, created)
             /\ LoadsOwn(ps', creating) /\ Listed(ps', threads')
             /\ NewOwned(ps', creating)
  <2>0. Alike(u, ps')
    BY <1>3
  <2>1. HasList(ps') /\ ThreadsOnce(ps', creating, created) /\ Listed(ps', threads')
    BY <1>5, <1>8, <2>0, AlikeKeepsList, AlikeKeepsThreads, AlikeKeepsListed
  <2>2. LoadsOwn(u, creating)
    BY <1>5, <1>8
  <2>3. LoadsOwn(ps', creating)
    BY <1>6, <2>0, <2>2, PidHasSlot DEF LoadsOwn, Alike
  <2>4. NewOwned(ps', creating)
    <3>1. NewOwned(u, creating)
      BY <1>5, <1>8
    <3>2. \A s \in Slot : ps'.proc[s].state = "new" => u.proc[s].state = "new"
      BY <1>6
    <3>3. \A s \in Slot : \A k \in creating :
             ps'.proc[s].state = "new" /\ k.thread = u.proc[s].thread => k \in creating
      OBVIOUS
    <3>. QED BY <2>0, <3>1, <3>2, <3>3, AlikeKeepsOwner, Zenon
  <2>. QED BY <2>1, <2>3, <2>4
<1>9. Sound'
  BY <1>1, <1>8 DEF Sound
<1>10. ASSUME failed = {}, NEW s \in Slot, ps'.proc[s].state = "wait"
       PROVE  Queued(ps', <<>>, s)
  <2>1. ps'.proc[i] = Empty
    BY <1>2, <1>3 DEF Alike
  <2>2. s # i /\ u.proc[s] = ps.proc[s]
    BY <1>2, <1>10, <2>1, EmptyEntry
  <2>3. ps.proc[s].state = "wait"
    BY <1>3, <1>10, <2>2 DEF WakesOnly
  <2>4. ps'.proc[s].thread = ps.proc[s].thread /\ ps'.proc[s].pid = ps.proc[s].pid
    BY <1>3, <2>2 DEF Alike
  <2>5. Queued(ps, queue, s)
    BY <1>10, <2>3 DEF IInv, Waits
  <2>6. ps.proc[s].pid # NONE
    BY <1>4, <2>3, SlotFacts, EmptyEntry DEF TableOK, EntryOK
  <2>7. ~ \E j \in DOMAIN queue : /\ queue[j].thread = ps.proc[s].thread
                                  /\ queue[j].pid = ps.proc[s].pid
    BY <1>3, <1>10, <2>2, <2>6 DEF WakesAll
  <2>8. PICK r \in Slot : \E j \in DOMAIN ps.proc[r].waiters :
           /\ ps.proc[r].waiters[j].thread = ps.proc[s].thread
           /\ ps.proc[r].waiters[j].pid = ps.proc[s].pid
    BY <2>5, <2>7, Zenon DEF Queued
  <2>9. r # i
    BY <1>3, <1>10, <2>2, <2>6, <2>8 DEF WakesAll, w
  <2>10. ps'.proc[r].waiters = ps.proc[r].waiters
    BY <1>2, <1>3, <2>9 DEF SameWaiters
  <2>. QED BY <2>4, <2>8, <2>10 DEF Queued
<1>. QED BY <1>1, <1>7, <1>9, <1>10 DEF IInv, Waits

\* A process that begins to wait moves nothing in the table.
LEMMA WaitKeepsSound ==
  ASSUME IInv, TableOK(ps'), Alike(ps, ps'), queue' \in Seq(Node),
         \A s \in Slot : ps'.proc[s].state = "new" <=> ps.proc[s].state = "new",
         UNCHANGED <<creating, threads, failed, created>>
  PROVE  Types' /\ Sound'
<1>1. Types'
  BY DEF IInv, Types
<1>2. /\ creating' = creating /\ threads' = threads /\ failed' = failed /\ created' = created
      /\ \A j \in creating : j \in creating'
  OBVIOUS
<1>3. ASSUME "full" \notin failed
      PROVE  /\ HasList(ps') /\ ThreadsOnce(ps', creating, created)
             /\ LoadsOwn(ps', creating) /\ Listed(ps', threads)
             /\ NewOwned(ps', creating)
  <2>1. /\ HasList(ps) /\ ThreadsOnce(ps, creating, created) /\ LoadsOwn(ps, creating)
        /\ Listed(ps, threads)
        /\ NewOwned(ps, creating)
    BY <1>3 DEF IInv, Sound
  <2>2. HasList(ps') /\ ThreadsOnce(ps', creating, created) /\ Listed(ps', threads)
    BY <2>1, AlikeKeepsList, AlikeKeepsThreads, AlikeKeepsListed
  <2>3. LoadsOwn(ps', creating)
    BY <2>1, PidHasSlot DEF LoadsOwn, Alike
  <2>4. NewOwned(ps', creating)
    <3>1. NewOwned(ps, creating)
      BY <2>1
    <3>2. \A s \in Slot : ps'.proc[s].state = "new" => ps.proc[s].state = "new"
      OBVIOUS
    <3>3. \A s \in Slot : \A k \in creating :
             ps'.proc[s].state = "new" /\ k.thread = ps.proc[s].thread => k \in creating
      OBVIOUS
    <3>. QED BY <3>1, <3>2, <3>3, AlikeKeepsOwner, Zenon
  <2>. QED BY <2>2, <2>3, <2>4
<1>. QED BY <1>1, <1>2, <1>3, Zenon DEF Sound

\* The process that makes a call has a pid and a thread, which its node records.
LEMMA RunnerHasNode ==
  ASSUME IInv, NEW s \in Slot, Runs(s)
  PROVE  /\ ps.proc[s] # Empty /\ ps.proc[s] \in Entry
         /\ [pid |-> ps.proc[s].pid, thread |-> ps.proc[s].thread] \in Node
<1>1. TableOK(ps) /\ ps.proc[s].state = "run"
  BY DEF IInv, Types, Runs
<1>2. ps.proc[s] # Empty /\ ps.proc[s] \in Entry
  BY <1>1, EmptyEntry DEF TableOK, Table
<1>3. ps.proc[s].pid \in Pid /\ ps.proc[s].thread \in Thread
  BY <1>1, <1>2, SlotFacts DEF TableOK, EntryOK
<1>. QED BY <1>2, <1>3 DEF Node

\* No node of the global queue q and of the waiters in table t is missing from queue p and table u.
NodesKept(t, q, u, p) ==
    /\ \A j \in DOMAIN q : \E k \in DOMAIN p : p[k] = q[j]
    /\ \A r \in Slot : \A j \in DOMAIN t.proc[r].waiters :
          \E k \in DOMAIN u.proc[r].waiters : u.proc[r].waiters[k] = t.proc[r].waiters[j]

\* A waiter whose node is in a queue stays in one while the queues lose no node: proc_wait
\* only puts nodes before the ones that were there.
LEMMA QueuedKeeps ==
  ASSUME NEW t, NEW q, NEW u, NEW p, NEW s, Queued(t, q, s), NodesKept(t, q, u, p),
         u.proc[s].pid = t.proc[s].pid, u.proc[s].thread = t.proc[s].thread
  PROVE  Queued(u, p, s)
<1>1. CASE \E j \in DOMAIN q : q[j].thread = t.proc[s].thread /\ q[j].pid = t.proc[s].pid
  <2>1. PICK j \in DOMAIN q : q[j].thread = t.proc[s].thread /\ q[j].pid = t.proc[s].pid
    BY <1>1, Zenon
  <2>2. PICK k \in DOMAIN p : p[k] = q[j]
    BY Zenon DEF NodesKept
  <2>3. p[k].thread = u.proc[s].thread /\ p[k].pid = u.proc[s].pid
    BY <2>1, <2>2, Zenon
  <2>. QED BY <2>3, Zenon DEF Queued
<1>2. CASE \E r \in Slot : \E j \in DOMAIN t.proc[r].waiters :
              /\ t.proc[r].waiters[j].thread = t.proc[s].thread
              /\ t.proc[r].waiters[j].pid = t.proc[s].pid
  <2>1. PICK r \in Slot : \E j \in DOMAIN t.proc[r].waiters :
              /\ t.proc[r].waiters[j].thread = t.proc[s].thread
              /\ t.proc[r].waiters[j].pid = t.proc[s].pid
    BY <1>2, Zenon
  <2>2. PICK j \in DOMAIN t.proc[r].waiters :
              /\ t.proc[r].waiters[j].thread = t.proc[s].thread
              /\ t.proc[r].waiters[j].pid = t.proc[s].pid
    BY <2>1, Zenon
  <2>3. PICK k \in DOMAIN u.proc[r].waiters : u.proc[r].waiters[k] = t.proc[r].waiters[j]
    BY Zenon DEF NodesKept
  <2>4. /\ u.proc[r].waiters[k].thread = u.proc[s].thread
        /\ u.proc[r].waiters[k].pid = u.proc[s].pid
    BY <2>2, <2>3, Zenon
  <2>. QED BY <2>4, Zenon DEF Queued
<1>. QED BY <1>1, <1>2, Zenon DEF Queued

\* A node put before a queue is in it, and so are all that were.
LEMMA PrependKeeps ==
  ASSUME NEW q \in Seq(Node), NEW n \in Node
  PROVE  /\ <<n>> \o q \in Seq(Node)
         /\ \E i \in DOMAIN (<<n>> \o q) : (<<n>> \o q)[i] = n
         /\ \A j \in DOMAIN q : \E i \in DOMAIN (<<n>> \o q) : (<<n>> \o q)[i] = q[j]
<1>1. /\ <<n>> \o q \in Seq(Node) /\ Len(<<n>> \o q) = 1 + Len(q)
      /\ 1 \in DOMAIN (<<n>> \o q) /\ (<<n>> \o q)[1] = n
  OBVIOUS
<1>2. ASSUME NEW j \in DOMAIN q
      PROVE  j + 1 \in DOMAIN (<<n>> \o q) /\ (<<n>> \o q)[j + 1] = q[j]
  OBVIOUS
<1>. QED BY <1>1, <1>2, Zenon

\* proc_wait(-1): the caller is in the global queue.
LEMMA WaitAnyKeeps ==
  ASSUME IInv, NEW s \in Slot, WaitAny(s)
  PROVE  IInv'
<1> DEFINE n == [pid |-> ps.proc[s].pid, thread |-> ps.proc[s].thread]
           f == [ps.proc EXCEPT ![s] = [@ EXCEPT !.state = "wait"]]
<1>1. /\ Runs(s) /\ queue' = <<n>> \o queue /\ ps' = [ps EXCEPT !.proc = f]
      /\ UNCHANGED <<creating, threads, failed, created>>
  BY DEF WaitAny
<1>2. /\ TableOK(ps) /\ queue \in Seq(Node) /\ ps.proc \in [Slot -> Entry]
      /\ ps.proc[s].state = "run"
  BY <1>1 DEF IInv, Types, TableOK, Table, Runs
<1>3. ps.proc[s] # Empty /\ n \in Node /\ n.pid = ps.proc[s].pid /\ n.thread = ps.proc[s].thread
  BY <1>1, RunnerHasNode
<1>4. /\ f \in [Slot -> Entry] /\ \A r \in Slot : r # s => f[r] = ps.proc[r]
      /\ f[s].state = "wait" /\ f[s].pid = ps.proc[s].pid /\ f[s].thread = ps.proc[s].thread
      /\ f[s].waiters = ps.proc[s].waiters
  BY <1>2 DEF Entry, State
<1> HIDE DEF f, n
<1>5. TableOK(ps') /\ Alike(ps, ps') /\ ps'.proc = f
  BY <1>1, <1>2, <1>3, <1>4, StatesChange
<1>6. /\ queue' \in Seq(Node) /\ \E i \in DOMAIN queue' : queue'[i] = n
      /\ \A j \in DOMAIN queue : \E i \in DOMAIN queue' : queue'[i] = queue[j]
  BY <1>1, <1>2, <1>3, PrependKeeps, Zenon
<1>7. \A r \in Slot : ps'.proc[r].state = "new" <=> ps.proc[r].state = "new"
  BY <1>2, <1>4, <1>5
<1>8. Types' /\ Sound'
  BY <1>1, <1>5, <1>6, <1>7, WaitKeepsSound
<1>9. ASSUME failed = {}, NEW r \in Slot, ps'.proc[r].state = "wait"
      PROVE  Queued(ps', queue', r)
  <2>1. CASE r = s
    <3>1. ps'.proc[r].pid = n.pid /\ ps'.proc[r].thread = n.thread
      BY <1>3, <1>4, <1>5, <2>1
    <3>. QED BY <1>6, <3>1 DEF Queued
  <2>2. CASE r # s
    <3>1. ps'.proc[r] = ps.proc[r] /\ Queued(ps, queue, r)
      BY <1>4, <1>5, <1>9, <2>2 DEF IInv, Waits
    <3>2. \A i \in Slot : ps'.proc[i].waiters = ps.proc[i].waiters
      BY <1>4, <1>5
    <3>3. NodesKept(ps, queue, ps', queue')
      BY <1>6, <3>2, Zenon DEF NodesKept
    <3>4. ps'.proc[r].pid = ps.proc[r].pid /\ ps'.proc[r].thread = ps.proc[r].thread
      BY <3>1, Zenon
    <3>. QED BY <3>1, <3>3, <3>4, QueuedKeeps, Zenon
  <2>. QED BY <2>1, <2>2
<1>. QED BY <1>1, <1>8, <1>9, Zenon DEF IInv, Waits

\* proc_wait(pid): the caller is in the queue of that process.
LEMMA WaitOneKeeps ==
  ASSUME IInv, NEW s \in Slot, NEW pid \in Pid, proc_wait(s, pid)
  PROVE  IInv'
<1> DEFINE n == [pid |-> ps.proc[s].pid, thread |-> ps.proc[s].thread]
           g == [ps.proc EXCEPT ![s] = [@ EXCEPT !.state = "wait"]]
<1>0. PICK i \in Slot :
         /\ ps.proc[i].pid = pid
         /\ LET t == [ps EXCEPT !.proc[s].state = "wait"]
            IN  ps' = [t EXCEPT !.proc[i].waiters = <<n>> \o @]
  BY Zenon DEF proc_wait
<1> DEFINE w == <<n>> \o g[i].waiters
           f == [g EXCEPT ![i] = [@ EXCEPT !.waiters = w]]
<1>1. Runs(s) /\ UNCHANGED <<queue, creating, threads, failed, created>>
  BY DEF proc_wait
<1>2. /\ TableOK(ps) /\ queue \in Seq(Node) /\ ps.proc \in [Slot -> Entry] /\ ps \in Table
      /\ ps.proc[s].state = "run"
  BY <1>1 DEF IInv, Types, TableOK, Table, Runs
<1>3. /\ ps.proc[s] # Empty /\ n \in Node /\ n.pid = ps.proc[s].pid
      /\ n.thread = ps.proc[s].thread /\ ps.proc[i] # Empty
  BY <1>0, <1>1, RunnerHasNode, EmptyEntry, SlotFacts
<1>4. /\ g \in [Slot -> Entry] /\ \A r \in Slot : r # s => g[r] = ps.proc[r]
      /\ g[s].state = "wait" /\ g[s].pid = ps.proc[s].pid /\ g[s].thread = ps.proc[s].thread
      /\ g[s].waiters = ps.proc[s].waiters
  BY <1>2, Zenon DEF Entry, State
<1>5. ps' = [ps EXCEPT !.proc = f]
  <2>1. [ps EXCEPT !.proc[s].state = "wait"] = [ps EXCEPT !.proc = g]
    OBVIOUS
  <2>2. [ps EXCEPT !.proc = g].proc = g
    BY <1>2 DEF Table
  <2> DEFINE t == [ps EXCEPT !.proc = g]
  <2> HIDE DEF g, n
  <2>3. ps' = [t EXCEPT !.proc[i].waiters = <<n>> \o @]
    BY <1>0, <2>1, Zenon
  <2>4. [t EXCEPT !.proc[i].waiters = <<n>> \o @] = [t EXCEPT !.proc = f]
    BY <2>2
  <2>5. [t EXCEPT !.proc = f] = [ps EXCEPT !.proc = f]
    <3> HIDE DEF f
    <3>. QED BY <1>2, Zenon DEF Table
  <2>. QED BY <2>3, <2>4, <2>5
<1> HIDE DEF g, n
<1>6. g[i].waiters \in Seq(Node) /\ g[i].waiters = ps.proc[i].waiters
  BY <1>4, SMTT(30) DEF Entry
<1>7. /\ w \in Seq(Node) /\ \E j \in DOMAIN w : w[j] = n
      /\ \A k \in DOMAIN ps.proc[i].waiters :
            \E j \in DOMAIN w : w[j] = ps.proc[i].waiters[k]
  <2>1. /\ w \in Seq(Node) /\ \E j \in DOMAIN w : w[j] = n
        /\ \A k \in DOMAIN g[i].waiters : \E j \in DOMAIN w : w[j] = g[i].waiters[k]
    BY <1>3, <1>6, PrependKeeps, Zenon
  <2>. QED BY <1>6, <2>1, Zenon
<1> HIDE DEF w
<1>8. /\ f \in [Slot -> Entry] /\ f[i].waiters = w
      /\ \A r \in Slot : /\ f[r].pid = g[r].pid /\ f[r].thread = g[r].thread
                         /\ f[r].state = g[r].state
                         /\ r # i => f[r] = g[r]
  BY <1>4, <1>7, ZenonT(30) DEF Entry
<1> HIDE DEF f
<1>9. \A r \in Slot : \/ f[r] = ps.proc[r]
                      \/ /\ ps.proc[r] # Empty /\ f[r].state # "none"
                         /\ f[r].pid = ps.proc[r].pid /\ f[r].thread = ps.proc[r].thread
  <2>1. ps.proc[i].state # "none"
    BY <1>2, <1>3 DEF TableOK, EntryOK
  <2>. QED BY <1>3, <1>4, <1>8, <2>1
<1>10. TableOK(ps') /\ Alike(ps, ps') /\ ps'.proc = f
  BY <1>2, <1>5, <1>8, <1>9, StatesChange
<1>11. \A r \in Slot : ps'.proc[r].state = "new" <=> ps.proc[r].state = "new"
  BY <1>2, <1>4, <1>8, <1>10
<1>12. Types' /\ Sound'
  BY <1>1, <1>2, <1>10, <1>11, WaitKeepsSound, Zenon
<1>13. ASSUME failed = {}, NEW r \in Slot, ps'.proc[r].state = "wait"
       PROVE  Queued(ps', queue', r)
  <2>0. queue' = queue /\ ps'.proc[i].waiters = w
    BY <1>1, <1>8, <1>10
  <2>1. CASE r = s
    <3>1. ps'.proc[r].pid = n.pid /\ ps'.proc[r].thread = n.thread
      BY <1>3, <1>4, <1>8, <1>10, <2>1
    <3>. QED BY <1>7, <2>0, <3>1 DEF Queued
  <2>2. CASE r # s
    <3>1. /\ ps'.proc[r].pid = ps.proc[r].pid /\ ps'.proc[r].thread = ps.proc[r].thread
          /\ ps.proc[r].state = "wait"
      BY <1>4, <1>8, <1>10, <1>13, <2>2
    <3>2. Queued(ps, queue, r)
      BY <1>13, <3>1 DEF IInv, Waits
    <3>3. \A j \in Slot : j # i => ps'.proc[j].waiters = ps.proc[j].waiters
      BY <1>4, <1>8, <1>10
    <3>4. ASSUME NEW q \in Slot, NEW j \in DOMAIN ps.proc[q].waiters
          PROVE  \E k \in DOMAIN ps'.proc[q].waiters :
                    ps'.proc[q].waiters[k] = ps.proc[q].waiters[j]
      <4>1. CASE q = i
        BY <1>7, <2>0, <4>1, Zenon
      <4>2. CASE q # i
        <5>1. ps'.proc[q].waiters = ps.proc[q].waiters
          BY <3>3, <4>2, Zenon
        <5>. QED BY <5>1, Zenon
      <4>. QED BY <4>1, <4>2
    <3>5. NodesKept(ps, queue, ps', queue')
      BY <2>0, <3>4, Zenon DEF NodesKept
    <3>. QED BY <3>1, <3>2, <3>5, QueuedKeeps, Zenon
  <2>. QED BY <2>1, <2>2
<1>. QED BY <1>1, <1>12, <1>13 DEF IInv, Waits

\* Every step keeps the invariant.
LEMMA NextIInv == IInv /\ [Next]_vars => IInv'
<1> SUFFICES ASSUME IInv, [Next]_vars PROVE IInv'
  OBVIOUS
<1>1. CASE AskFirst
  BY <1>1, AskKeeps DEF AskFirst
<1>2. ASSUME NEW k \in creating, Create(k) PROVE IInv'
  BY <1>2, CopyFailsKeeps, CreateKeeps, CreateFailsAtOnceKeeps, CreateFullKeeps,
     SticksKeeps, CreateDoneKeeps, CreateFailsKeeps DEF Create
<1>3. ASSUME NEW s \in Slot, serv_proc_create(s) PROVE IInv'
  <2>1. ps.proc[s].thread \in Thread \cup {SOS}
    BY DEF IInv, Types, TableOK, Table, Entry
  <2>. QED BY <1>3, <2>1, AskKeeps DEF serv_proc_create
<1>4. ASSUME NEW s \in Slot, WaitAny(s) PROVE IInv'
  BY <1>4, WaitAnyKeeps
<1>5. ASSUME NEW s \in Slot, NEW pid \in Pid, proc_wait(s, pid) PROVE IInv'
  BY <1>5, WaitOneKeeps
<1>6. ASSUME NEW pid \in Pid, proc_destroy(pid) PROVE IInv'
  BY <1>6, DestroyKeeps
<1>7. CASE UNCHANGED vars
  BY <1>7 DEF vars, IInv, Types, Sound, Waits
<1>. QED
  BY <1>1, <1>2, <1>3, <1>4, <1>5, <1>6, <1>7 DEF Next

\* The invariant holds in every reachable state.
LEMMA AlwaysIInv == Spec => []IInv
BY InitIInv, NextIInv, PTL DEF Spec

-----------------------------------------------------------------------------
(* The theorems.                                                           *)

\* Table, queues and creations keep their types, and every pid lies in the range of its
\* slot, also after _cal_next_free_pid wraps around and after a creation that found the
\* table full.
THEOREM TypeCorrect == Spec => []TypeOK
<1>1. IInv => TypeOK
  <2> SUFFICES ASSUME IInv PROVE TypeOK
    OBVIOUS
  <2>1. Types /\ TableOK(ps) /\ ps \in Table
    BY DEF IInv, Types, TableOK
  <2>2. ASSUME NEW s \in Slot
        PROVE  \/ ps.proc[s] = Empty
               \/ /\ ps.proc[s].pid \in PidOf(s) /\ ps.proc[s].thread \in Thread
                  /\ ps.proc[s].state \in {"new", "run", "create", "wait"}
                  /\ ps.proc[s].waiters \in Seq(Node)
    <3>1. ps.proc[s].state \in State /\ ps.proc[s].waiters \in Seq(Node)
      BY <2>1 DEF Table, Entry
    <3>. QED BY <2>1, <3>1 DEF TableOK, EntryOK, State
  <2>. QED BY <2>1, <2>2 DEF Types, TableOK, Table, TypeOK
<1>. QED BY <1>1, AlwaysIInv, PTL

\* "callback will be called whenever the specified process finished": who waits is in the
\* queue of a process of the table or in the global one, as long as no creation failed late
\* or found the table full.
THEOREM WaitersStayQueued == Spec => []NoWaiterForgotten
<1>1. IInv => NoWaiterForgotten
  <2> SUFFICES ASSUME IInv, failed = {}, NEW s \in Slot, ps.proc[s].state = "wait"
               PROVE  \E n \in WaitNodes :
                         n.thread = ps.proc[s].thread /\ n.pid = ps.proc[s].pid
    BY DEF NoWaiterForgotten
  <2>1. Queued(ps, queue, s)
    BY DEF IInv, Waits
  <2>2. ASSUME NEW i \in DOMAIN queue PROVE queue[i] \in WaitNodes
    BY DEF WaitNodes
  <2>3. ASSUME NEW r \in Slot, NEW i \in DOMAIN ps.proc[r].waiters
        PROVE  ps.proc[r].waiters[i] \in WaitNodes
    BY DEF WaitNodes
  <2>. QED BY <2>1, <2>2, <2>3 DEF Queued
<1>. QED BY <1>1, AlwaysIInv, PTL

\* An answer to a creation, or to its creator, wakes nobody who waits.
LEMMA RepliedWakesNoWaiter ==
  ASSUME NEW t, TableOK(t), NEW n, NEW from \in {"new", "create"}, NEW s \in Slot,
         t.proc[s].state \in {"wait", "none"}
  PROVE  /\ TableOK(Replied(t, n, from))
         /\ Replied(t, n, from).proc[s].state = t.proc[s].state
BY RepliedEffect

\* Of the steps of a creation none makes a waiting process run.
LEMMA CreationsWakeNobody ==
  ASSUME IInv, NEW k \in creating, Create(k), NEW s \in Slot, ps.proc[s].state = "wait"
  PROVE  ps'.proc[s].state # "run"
<1>1. TableOK(ps) /\ k.thread \in Thread /\ ps.proc \in [Slot -> Entry]
  BY DEF IInv, Types, TableOK, Table
<1>2. CASE CopyFails(k)
  BY <1>1, <1>2, RepliedWakesNoWaiter DEF CopyFails
<1>3. ASSUME ps.first # NONE
      PROVE  LET u == TakeSlot(ps, k.thread)
             IN  /\ TableOK(u) /\ ps.nextpid[ps.first] \in Pid
                 /\ SlotOf(ps.nextpid[ps.first]) = ps.first /\ ps.first \in Slot
                 /\ u.proc[s].state \in {"wait", "new"}
                 /\ s # ps.first => u.proc[s].state = "wait"
  <2> DEFINE u == TakeSlot(ps, k.thread)
             e == [pid |-> ps.nextpid[ps.first], thread |-> k.thread, state |-> "new",
                   waiters |-> <<>>]
  <2>1. /\ TableOK(u) /\ ps.first \in Slot /\ ps.nextpid[ps.first] \in Pid
        /\ SlotOf(ps.nextpid[ps.first]) = ps.first /\ u.proc = [ps.proc EXCEPT ![ps.first] = e]
    BY <1>1, <1>3, TakeEffect, Zenon
  <2>2. e.state = "new"
    OBVIOUS
  <2> HIDE DEF u, e
  <2>3. u.proc[s].state \in {"wait", "new"} /\ (s # ps.first => u.proc[s].state = "wait")
    BY <1>1, <2>1, <2>2
  <2>. QED BY <2>1, <2>3 DEF u
<1>4. CASE proc_create(k) \/ proc_create_stuck(k)
  <2>1. ps.first # NONE /\ ps' = TakeSlot(ps, k.thread)
    BY <1>4 DEF proc_create, proc_create_stuck
  <2>2. ps'.proc[s].state \in {"wait", "new"}
    BY <1>3, <2>1
  <2>. QED BY <2>2
<1>5. CASE proc_create_fails(k)
  <2> DEFINE i == ps.first
             t == TakeSlot(ps, k.thread)
             u == _free_proc_slot(t, ps.nextpid[i])
  <2>1. ps.first # NONE /\ ps' = Replied(u, k.by, "create")
    BY <1>5 DEF proc_create_fails
  <2>2. /\ TableOK(t) /\ ps.nextpid[i] \in Pid /\ SlotOf(ps.nextpid[i]) = i /\ i \in Slot
        /\ s # i => t.proc[s].state = "wait"
    BY <1>3, <2>1
  <2> HIDE DEF t
  <2>3. TableOK(u) /\ u.proc = [t.proc EXCEPT ![i] = Empty]
    <3> DEFINE p == ps.nextpid[i]
    <3>1. TableOK(t) /\ p \in Pid /\ SlotOf(p) = i
      BY <2>2
    <3> HIDE DEF p, i
    <3>2. /\ TableOK(_free_proc_slot(t, p))
          /\ _free_proc_slot(t, p).proc = [t.proc EXCEPT ![SlotOf(p)] = Empty]
      BY <3>1, FreeEffect, Zenon
    <3>. QED BY <3>1, <3>2 DEF p
  <2> HIDE DEF u
  <2>4. u.proc[s].state \in {"wait", "none"}
    <3>1. t.proc \in [Slot -> Entry]
      BY <2>2 DEF TableOK, Table
    <3>. QED BY <2>2, <2>3, <3>1, EmptyEntry
  <2>5. TableOK(u)
    BY <2>3
  <2>. QED BY <2>1, <2>4, <2>5, RepliedWakesNoWaiter
<1>6. CASE proc_create_full(k)
  <2> DEFINE u == _free_proc_slot(ps, NONE)
             i == SlotOf(NONE)
  <2>1. ps' = Replied(u, k.by, "create")
    BY <1>6 DEF proc_create_full
  <2>2. TableOK(u) /\ u.proc = [ps.proc EXCEPT ![i] = Empty]
    BY <1>1, FreeNoneEffect
  <2> HIDE DEF u, i
  <2>3. u.proc[s].state \in {"wait", "none"}
    BY <1>1, <2>2, EmptyEntry
  <2>4. TableOK(u)
    BY <2>2
  <2>. QED BY <2>1, <2>3, <2>4, RepliedWakesNoWaiter
<1>7. CASE CreateDone(k)
  <2> DEFINE u == Replied(ps, k.thread, "new")
  <2>1. ps' = Replied(u, k.by, "create")
    BY <1>7 DEF CreateDone
  <2>2. TableOK(u) /\ u.proc[s].state = "wait"
    BY <1>1, RepliedWakesNoWaiter
  <2> HIDE DEF u
  <2>. QED BY <2>1, <2>2, RepliedWakesNoWaiter
<1>8. CASE CreateFails(k)
  <2> DEFINE u == _free_proc_slot(ps, k.pid)
             i == SlotOf(k.pid)
  <2>1. ps' = Replied(u, k.by, "create") /\ k.pid \in Pid
    BY <1>8 DEF CreateFails, IInv, Types
  <2>2. TableOK(u) /\ u.proc = [ps.proc EXCEPT ![i] = Empty]
    BY <1>1, <2>1, FreeEffect, Zenon
  <2> HIDE DEF u, i
  <2>3. u.proc[s].state \in {"wait", "none"}
    BY <1>1, <2>2, EmptyEntry
  <2>4. TableOK(u)
    BY <2>2
  <2>. QED BY <2>1, <2>3, <2>4, RepliedWakesNoWaiter
<1>9. CASE LoadSticks(k)
  BY <1>9 DEF LoadSticks
<1>. QED
  BY <1>2, <1>4, <1>5, <1>6, <1>7, <1>8, <1>9 DEF Create

\* Nor does a process that begins to create or to wait.
LEMMA CallsWakeNobody ==
  ASSUME IInv, NEW s \in Slot, ps.proc[s].state = "wait",
         \/ AskFirst
         \/ \E r \in Slot : serv_proc_create(r) \/ WaitAny(r)
         \/ \E r \in Slot, pid \in Pid : proc_wait(r, pid)
  PROVE  ps'.proc[s].state # "run"
<1>1. TableOK(ps) /\ ps \in Table /\ ps.proc \in [Slot -> Entry] /\ ps.proc[s] \in Entry
  BY DEF IInv, Types, TableOK, Table
<1>2. ASSUME NEW by, AskCreate(by) PROVE ps'.proc[s].state # "run"
  BY <1>1, <1>2 DEF AskCreate, Table
<1>3. ASSUME NEW r \in Slot, WaitAny(r) PROVE ps'.proc[s].state # "run"
  BY <1>1, <1>3 DEF WaitAny, Table, Entry
<1>4. ASSUME NEW r \in Slot, NEW pid \in Pid, proc_wait(r, pid)
      PROVE  ps'.proc[s].state # "run"
  <2> DEFINE n == [pid |-> ps.proc[r].pid, thread |-> ps.proc[r].thread]
             t == [ps EXCEPT !.proc[r].state = "wait"]
  <2>1. PICK i \in Slot : ps' = [t EXCEPT !.proc[i].waiters = <<n>> \o @]
    BY <1>4, Zenon DEF proc_wait
  <2>2. t \in Table /\ t.proc[s].state = "wait"
    <3> DEFINE g == [ps.proc EXCEPT ![r] = [@ EXCEPT !.state = "wait"]]
    <3>1. g \in [Slot -> Entry] /\ g[s].state = "wait"
      BY <1>1, Zenon DEF Entry, State
    <3>2. t = [ps EXCEPT !.proc = g]
      OBVIOUS
    <3> HIDE DEF g, t
    <3>. QED BY <1>1, <3>1, <3>2 DEF Table
  <2> HIDE DEF t, n
  <2>. QED BY <2>1, <2>2 DEF Table, Entry
<1>. QED
  BY <1>2, <1>3, <1>4 DEF AskFirst, serv_proc_create

\* A process that waits runs again only when a process leaves the table in whose queue, or
\* in the global one, it is: nothing but proc_destroy wakes, and it wakes no one else.
THEOREM OnlyExitsWake == Spec => WakeMeansExit
<1>1. ASSUME IInv, Next, NEW s \in Slot, ps.proc[s].state = "wait", ps'.proc[s].state = "run",
             ps.proc[s].thread = ps'.proc[s].thread
      PROVE  \E i \in Slot :
                /\ ps.proc[i] # Empty /\ ps'.proc[i] = Empty
                /\ \E n \in {queue[j] : j \in DOMAIN queue} \cup
                            {ps.proc[i].waiters[j] : j \in DOMAIN ps.proc[i].waiters} :
                      n.thread = ps.proc[s].thread
  <2>1. PICK pid \in Pid : proc_destroy(pid)
    BY <1>1, CreationsWakeNobody, CallsWakeNobody DEF Next
  <2> DEFINE u == _free_proc_slot(ps, pid)
             i == SlotOf(pid)
  <2>2. /\ Alike(u, ps') /\ i \in Slot /\ ps.proc[i].pid = pid /\ u.proc[i] = Empty
        /\ \A r \in Slot : r # i => u.proc[r] = ps.proc[r]
        /\ WakesOnly(u, ps', queue, ps.proc[i].waiters)
    BY <1>1, <2>1, DestroyEffect
  <2> HIDE DEF u, i
  <2>3. ps'.proc[i] = Empty /\ ps.proc[i] # Empty
    BY <2>2, EmptyEntry, SlotFacts DEF Alike
  <2>4. s # i
    BY <1>1, <2>3, EmptyEntry
  <2>5. \/ \E j \in DOMAIN queue : queue[j].thread = ps.proc[s].thread
        \/ \E j \in DOMAIN ps.proc[i].waiters :
              ps.proc[i].waiters[j].thread = ps.proc[s].thread
    BY <1>1, <2>2, <2>4, ZenonT(30) DEF WakesOnly
  <2>6. \E n \in {queue[j] : j \in DOMAIN queue} \cup
                 {ps.proc[i].waiters[j] : j \in DOMAIN ps.proc[i].waiters} :
           n.thread = ps.proc[s].thread
    BY <2>5
  <2>. QED BY <2>2, <2>3, <2>6
<1>2. IInv /\ [Next]_vars =>
        [\A s \in Slot :
          /\ ps.proc[s].state = "wait" /\ ps'.proc[s].state = "run"
          /\ ps.proc[s].thread = ps'.proc[s].thread
          => \E i \in Slot :
                /\ ps.proc[i] # Empty /\ ps'.proc[i] = Empty
                /\ \E n \in {queue[j] : j \in DOMAIN queue} \cup
                            {ps.proc[i].waiters[j] : j \in DOMAIN ps.proc[i].waiters} :
                      n.thread = ps.proc[s].thread]_vars
  BY <1>1
<1>. QED BY <1>2, AlwaysIInv, PTL DEF Spec, WakeMeansExit

-----------------------------------------------------------------------------
(* A list without repetition is no longer than the number of slots, which  *)
(* takes a theorem about finite sets.                                      *)

INSTANCE FiniteSetTheorems

\* Slots, pids, creations and threads agree until a creation finds the table full: the free
\* list threads exactly the empty slots, a creation owns its process and every thread is in
\* the table, whatever is created, fails or is destroyed in between.
THEOREM ProcSlotsStayExact == Spec => []ProcSlotsExact
<1>1. IInv => ProcSlotsExact
  <2> SUFFICES ASSUME IInv, "full" \notin failed PROVE
        /\ FreeListThreadsEmptySlots
        /\ \A s \in Slot : ps.proc[s] # Empty => ps.proc[s].pid \in PidOf(s)
        /\ \A k \in creating : k.stage # "path" =>
              LET p == ps.proc[SlotOf(k.pid)]
              IN  p.pid = k.pid /\ p.thread = k.thread /\ p.state = "new"
        /\ \A s \in Slot : ps.proc[s].state = "new" =>
              \E k \in creating : k.thread = ps.proc[s].thread
        /\ \A n \in threads : \E s \in Slot : ps.proc[s].thread = n
    BY DEF ProcSlotsExact
  <2>1. TableOK(ps) /\ HasList(ps) /\ LoadsOwn(ps, creating) /\ Listed(ps, threads)
    BY DEF IInv, Types, Sound
  <2>2. FreeListThreadsEmptySlots
    <3>0. PICK n \in Nat : \E l \in [1 .. n -> Slot] : IsList(ps, n, l)
      BY <2>1 DEF HasList
    <3>1. PICK l \in [1 .. n -> Slot] : IsList(ps, n, l)
      BY <3>0
    <3>2. l \in Injection(1 .. n, Slot)
      BY <3>1 DEF IsList, Injection, IsInjective
    <3>3. Cardinality(1 .. n) = n
      BY FS_Interval
    <3>4. IsFiniteSet(Slot) /\ Cardinality(Slot) = MAX_PROC
      BY FS_Interval, SlotFacts DEF Slot
    <3>5. n <= MAX_PROC
      BY <3>2, <3>3, <3>4, FS_Injection
    <3>6. n \in 0 .. MAX_PROC
      BY <3>5, SlotFacts
    <3>7. l \in Seq(Slot) /\ Len(l) = n /\ DOMAIN l = 1 .. n /\ (l = <<>> <=> n = 0)
      OBVIOUS
    <3>8. IsFreeList(l)
      BY <3>1, <3>7 DEF IsList, IsFreeList
    <3>9. {l[i] : i \in 1 .. n} = {s \in Slot : ps.proc[s] = Empty}
      BY <3>1 DEF IsList
    <3>. QED BY <3>1, <3>6, <3>8, <3>9 DEF FreeListThreadsEmptySlots, IsList
  <2>3. \A s \in Slot : ps.proc[s] # Empty => ps.proc[s].pid \in PidOf(s)
    BY <2>1 DEF TableOK, EntryOK
  <2>4. NewOwned(ps, creating)
    BY DEF IInv, Sound
  <2>. QED BY <2>1, <2>2, <2>3, <2>4 DEF LoadsOwn, Listed, NewOwned
<1>. QED BY <1>1, AlwaysIInv, PTL
=============================================================================
