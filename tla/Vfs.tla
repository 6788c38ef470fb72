-------------------------------- MODULE Vfs ---------------------------------
(***************************************************************************)
(* Open files: the list of vnodes (vfs/vfs.c, vfs/vnode.c), the file table *)
(* of each process (syscall/file.c) and the way a file of the NFS server   *)
(* is opened (nfs_dev_init: look it up, create it if it is not there).     *)
(*                                                                         *)
(* A vnode is known by where malloc put it; a freed place may be used      *)
(* again.  An open that has to ask the NFS server holds a vnode that is    *)
(* not in the list yet; other opens, closes and the end of its process may *)
(* come before the answer.  The console, whose vnode is made at once, is   *)
(* in module Console.                                                      *)
(***************************************************************************)
EXTENDS Integers, Sequences, SequencesExt, FiniteSets, FiniteSetsExt

CONSTANTS
    Proc, Path,
    VNODES,             \* how many vnodes fit into memory
    PROCESS_MAX_FILES

VARIABLES
    vn,         \* vnodes: mem (free, new, ready), path, opencount
    table,      \* vnode_table_head: the list, its head first
    files,      \* p_filetable of each process: the vnode of each descriptor, 0 if none
    opening,    \* nfs_init_state_t: opens that wait for the NFS server
    st,         \* processes: run, open (blocked in sys_open), dead
    raced,      \* ghost: a vnode was inserted whose path was in the list already
    ub          \* ghost: a vnode was used after it was freed

vars == <<vn, table, files, opening, st, raced, ub>>

Vnode == 1 .. VNODES
Fd    == 0 .. (PROCESS_MAX_FILES - 1)
FREE  == [mem |-> "free", path |-> CHOOSE f \in Path : TRUE, count |-> 0]

ASSUME VfsAssumption ==
    /\ VNODES \in Nat \ {0} /\ PROCESS_MAX_FILES \in Nat \ {0} /\ Path # {}

Now == [vn |-> vn, table |-> table, files |-> files, ub |-> ub]
Become(s) == vn' = s.vn /\ table' = s.table /\ files' = s.files /\ ub' = s.ub

\* The places of the list whose vnode has this path, and the entries compared on the way
\* to the first one.
Matches(s, path) == {i \in DOMAIN s.table : s.vn[s.table[i]].path = path}
Compared(s, path) ==
    {s.table[i] : i \in {i \in DOMAIN s.table : \A j \in Matches(s, path) : i <= j}}
Checked(s, v) == [s EXCEPT !.ub = @ \/ \E w \in v : s.vn[w].mem = "free"]

\* 0 if there is none.
vfs_vnt_lookup(s, path) ==
    IF Matches(s, path) = {} THEN 0 ELSE s.table[Min(Matches(s, path))]

vfs_vnt_insert(s, v) == [s EXCEPT !.table = <<v>> \o @]

\* The first vnode of this path leaves the list.
vfs_vnt_delete(s, path) ==
    LET c == Checked(s, Compared(s, path))
    IN  IF Matches(s, path) = {} THEN c
        ELSE [c EXCEPT !.table = RemoveAt(@, Min(Matches(s, path)))]

\* vnode_decopen: the last close takes the vnode out of the list and frees it.
vnode_decopen(s, v) ==
    LET c == Checked(s, {v})
    IN  IF s.vn[v].count > 1 THEN [c EXCEPT !.vn[v].count = @ - 1]
        ELSE [vfs_vnt_delete(c, s.vn[v].path) EXCEPT !.vn[v] = FREE]

\* The first descriptor that is not used; PROCESS_MAX_FILES if there is none.
filetable_placefile(s, p) ==
    Min({fd \in Fd : s.files[p][fd] = 0} \cup {PROCESS_MAX_FILES})

\* file_open_end with an open vnode: it goes to the file table, or is closed again if the
\* permissions do not fit, there is no memory, or the table is full.
KeepVnode(s, p, v, fits) ==
    LET fd == filetable_placefile(s, p)
    IN  IF fits /\ fd < PROCESS_MAX_FILES THEN [s EXCEPT !.files[p][fd] = v] ELSE s
file_open_end(s, p, v, fits) ==
    LET fd == filetable_placefile(s, p)
    IN  IF fits /\ fd < PROCESS_MAX_FILES THEN [s EXCEPT !.files[p][fd] = v]
        ELSE vnode_decopen(s, v)

\* file_doclose of these descriptors of p, one after the other.
RECURSIVE Closed(_, _, _)
Closed(s, p, fds) ==
    IF fds = {} THEN s
    ELSE LET fd == Min(fds)
         IN  Closed([vnode_decopen(s, s.files[p][fd]) EXCEPT !.files[p][fd] = 0], p, fds \ {fd})

Used(p) == {fd \in Fd : files[p][fd] # 0}

-----------------------------------------------------------------------------

Init ==
    /\ vn = [v \in Vnode |-> FREE] /\ table = <<>>
    /\ files = [p \in Proc |-> [fd \in Fd |-> 0]]
    /\ opening = {} /\ st = [p \in Proc |-> "run"] /\ raced = FALSE /\ ub = FALSE

\* file_open, vfs_open: the path is in the list, and the open ends at once.
OpenKnown(p, path, fits) ==
    LET v == vfs_vnt_lookup(Now, path)
        s == Checked(Now, Compared(Now, path))
    IN  /\ ~ub /\ st[p] = "run" /\ v # 0
        /\ Become(file_open_end([s EXCEPT !.vn[v].count = @ + 1], p, v, fits))
        /\ UNCHANGED <<opening, st, raced>>

\* _vfs_open_2_create_vnode, nfs_dev_init: a vnode is made and the NFS server is asked.
\* Without memory the open fails and nothing changes.
OpenNew(p, path, v) ==
    /\ ~ub /\ st[p] = "run"
    /\ vfs_vnt_lookup(Now, path) = 0 /\ vn[v].mem = "free"
    /\ Become([Checked(Now, Compared(Now, path)) EXCEPT
                   !.vn[v] = [mem |-> "new", path |-> path, count |-> 0]])
    /\ opening' = opening \cup {[pid |-> p, v |-> v, asked |-> "lookup"]}
    /\ st' = [st EXCEPT ![p] = "open"]
    /\ UNCHANGED raced

Answered(o) == st' = IF st[o.pid] = "dead" THEN st ELSE [st EXCEPT ![o.pid] = "run"]

\* _vfs_open_3_end_create: the vnode enters the list and is open once.
OpenEnds(o, fits) ==
    /\ ~ub /\ st[o.pid] # "dead"
    /\ LET s == [vfs_vnt_insert(Now, o.v) EXCEPT
                     !.vn[o.v] = [@ EXCEPT !.mem = "ready", !.count = 1]]
       IN  Become(file_open_end(s, o.pid, o.v, fits))
    /\ opening' = opening \ {o}
    /\ raced' = (raced \/ vfs_vnt_lookup(Now, vn[o.v].path) # 0)
    /\ Answered(o)

\* The NFS server or malloc fails, or the process has been destroyed: the vnode is freed.
OpenFails(o) ==
    /\ ~ub
    /\ Become([Now EXCEPT !.vn[o.v] = FREE])
    /\ opening' = opening \ {o}
    /\ Answered(o) /\ UNCHANGED raced

\* nfs_dev_lookup_handler: no such file, so it is created.
CreateAgain(o) ==
    /\ ~ub /\ o.asked = "lookup" /\ st[o.pid] # "dead"
    /\ opening' = opening \cup {[o EXCEPT !.asked = "create"]}
    /\ UNCHANGED <<vn, table, files, st, raced, ub>>
nfs_dev_create(o) ==
    /\ ~ub /\ o.asked = "lookup" /\ st[o.pid] # "dead"
    /\ opening' = (opening \ {o}) \cup {[o EXCEPT !.asked = "create"]}
    /\ UNCHANGED <<vn, table, files, st, raced, ub>>

file_close(p, fd) ==
    /\ ~ub /\ st[p] = "run" /\ fd \in Used(p)
    /\ Become(Closed(Now, p, {fd}))
    /\ UNCHANGED <<opening, st, raced>>

\* proc_destroy, filetable_destroy.
filetable_destroy(p) ==
    /\ ~ub /\ st[p] # "dead"
    /\ Become(Closed(Now, p, Used(p)))
    /\ st' = [st EXCEPT ![p] = "dead"]
    /\ UNCHANGED <<opening, raced>>

\* A new process takes the place of one that is gone.
Start(p) ==
    /\ ~ub /\ st[p] = "dead" /\ \A o \in opening : o.pid # p
    /\ st' = [st EXCEPT ![p] = "run"]
    /\ UNCHANGED <<vn, table, files, opening, raced, ub>>

Next ==
    \/ \E p \in Proc, path \in Path, fits \in BOOLEAN : OpenKnown(p, path, fits)
    \/ \E p \in Proc, path \in Path, v \in Vnode : OpenNew(p, path, v)
    \/ \E o \in opening, fits \in BOOLEAN : OpenEnds(o, fits)
    \/ \E o \in opening : OpenFails(o) \/ nfs_dev_create(o)
    \/ \E p \in Proc, fd \in Fd : file_close(p, fd)
    \/ \E p \in Proc : filetable_destroy(p) \/ Start(p)

Spec == Init /\ [][Next]_vars

-----------------------------------------------------------------------------

\* vn_opencount is the number of descriptors that refer to the vnode, of all processes, also
\* after opens that failed late and after processes were destroyed (file_open_end,
\* vnode_decopen).  An open file does not lose its vnode when another process closes the same
\* file, no freed vnode is used, and the list holds exactly the vnodes that are open, each
\* once (vfs_vnt_insert, vfs_vnt_delete): all that as long as no two opens of one path raced.
OpenCountsExact ==
    ~raced =>
        /\ \A v \in Vnode : vn[v].mem # "free" =>
               vn[v].count = Cardinality({x \in Proc \X Fd : files[x[1]][x[2]] = v})
        /\ \A p \in Proc, fd \in Fd : files[p][fd] # 0 => vn[files[p][fd]].mem = "ready"
        /\ ~ub
        /\ \A i, j \in DOMAIN table : table[i] = table[j] => i = j
        /\ ToSet(table) = {v \in Vnode : vn[v].mem = "ready"}

\* A vnode an open waits for belongs to that open alone until the NFS server has answered:
\* it is neither in the list nor freed nor open, whatever happens to the process
\* (nfs_dev_init), as long as no two opens of one path raced.
NewVnodePrivate ==
    ~raced => /\ \A o \in opening : vn[o.v].mem = "new" /\ ~Contains(table, o.v)
              /\ \A o, r \in opening : o.v = r.v => o = r
-----------------------------------------------------------------------------
(* What comments of the code say and the code does not keep.               *)

\* "It is the caller's responsibility to ensure that a vnode of this path does not already
\* exists in the table" (vfs.h, of vfs_vnt_insert).
OneVnodePerPath ==
    \A i, j \in DOMAIN table : vn[table[i]].path = vn[table[j]].path => i = j
=============================================================================
