------------------------------ MODULE Console -------------------------------
(***************************************************************************)
(* Reading from the console (dev/console.c): a circular buffer that the    *)
(* serial port fills, one process that has the console open for reading,   *)
(* and one record _con_read_state for the read that is blocked.            *)
(*                                                                         *)
(* A read copies what is there, up to a newline, in two halves (the buffer *)
(* wraps around); a copy to a page that is swapped out ends later, and     *)
(* takes the bytes from the buffer then.  A read that finds nothing is     *)
(* repeated by the handler of the serial port when a newline comes.        *)
(*                                                                         *)
(* A token stands for the cont_read_t of serv_sys_read, which              *)
(* serv_sys_read_end frees.  The console is a file of every process (its   *)
(* standard output), so its vnode stays and _con_lastclose is not reached. *)
(***************************************************************************)
EXTENDS Integers, Sequences, FiniteSets

CONSTANTS
    MAX_IO_BUF,
    Char,           \* characters besides the newline
    Sizes,          \* how many bytes a process reads
    Proc,
    MAXOPENS, MAXREADS, MAXTYPED,   \* bounds
    Copyouts        \* how a copyout may go: a subset of {"now", "later", "fails"}

VARIABLES
    con,        \* buf, size, start, end; handler: whether it is registered
    rs,         \* _con_read_state: opened, blocked, pid, token, nbytes
    copies,     \* the _con_read_cont_t whose copyout waits
    st,         \* processes: run, read, dead
    has,        \* who has the console open for reading
    freed,      \* tokens that are freed
    due,        \* ghost: what was typed since the console was opened and not read yet
    last,       \* ghost: the last read that ended well
    upset,      \* ghost: what happened that _con_read_state is not prepared for
    ub,         \* ghost: a freed token was used
    opens, reads, typed

vars == <<con, rs, copies, st, has, freed, due, last, upset, ub, opens, reads, typed>>

Upset == {"unread",     \* the console was closed with input nobody had read
          "orphan",     \* a process was destroyed with its read under way
          "again"}      \* a newline repeated a read whose copy was under way

NL      == "newline"
NOBODY  == "nobody"     \* PROC_NULL
Token   == [pid : Proc, n : 1 .. MAXREADS]
NOTOKEN == [pid |-> NOBODY, n |-> 0]
Place   == 0 .. (MAX_IO_BUF - 1)

ASSUME ConsoleAssumption ==
    /\ MAX_IO_BUF \in Nat \ {0} /\ NL \notin Char /\ Sizes \subseteq Nat
    /\ NOBODY \notin Proc /\ Copyouts \subseteq {"now", "later", "fails"}
    /\ MAXOPENS \in Nat /\ MAXREADS \in Nat /\ MAXTYPED \in Nat

smaller(a, b) == IF a < b THEN a ELSE b
Alive(c, p) == p \in Proc /\ c.st[p] # "dead"

\* The state handlers work on: c.con, c.rs, ...
Now == [con |-> con, rs |-> rs, copies |-> copies, st |-> st, freed |-> freed, due |-> due,
        last |-> last, ub |-> ub]
Become(c) ==
    /\ con' = c.con /\ rs' = c.rs /\ copies' = c.copies /\ st' = c.st
    /\ freed' = c.freed /\ due' = c.due /\ last' = c.last /\ ub' = c.ub

\* n bytes of the buffer from place i on.
Bytes(c, i, n) == [k \in 1 .. n |-> c.con.buf[(i + k - 1) % MAX_IO_BUF]]

\* The reader is answered if it is alive, and the token is freed.
serv_sys_read_end(c, t) ==
    [c EXCEPT !.ub = @ \/ t \in c.freed,
              !.freed = @ \cup {t},
              !.st = IF Alive(c, t.pid) THEN [@ EXCEPT ![t.pid] = "run"] ELSE @]

\* What a read returns is no longer due.
Returned(c, k) ==
    LET n == smaller(k.len, Len(c.due))
    IN  [c EXCEPT !.last = [got |-> k.got, due |-> SubSeq(c.due, 1, n), to |-> k.to,
                            reader |-> k.token.pid],
                  !.due = SubSeq(@, n + 1, Len(@))]

\* Both halves are copied, or a copyout failed.
ReadEndKeepsStart(c, k, good) ==
    serv_sys_read_end(
        IF good THEN Returned([c EXCEPT !.con.size = @ - k.len, !.rs.blocked = FALSE], k)
                ELSE [c EXCEPT !.rs.blocked = FALSE],
        k.token)
ReadEndStaysBlocked(c, k, good) ==
    serv_sys_read_end(
        IF good THEN Returned([c EXCEPT !.con.start = (@ + k.len) % MAX_IO_BUF,
                                        !.con.size = @ - k.len], k)
                ELSE [c EXCEPT !.rs.blocked = FALSE],
        k.token)
_con_read_end(c, k, good) ==
    serv_sys_read_end(
        IF good THEN Returned([c EXCEPT !.con.start = (@ + k.len) % MAX_IO_BUF,
                                        !.con.size = @ - k.len, !.rs.blocked = FALSE], k)
                ELSE [c EXCEPT !.rs.blocked = FALSE],
        k.token)

\* The copyout of a half is over: its bytes are taken from the buffer.
Copied(c, k) == [k EXCEPT !.got = @ \o Bytes(c, k.from, k.n)]

\* copyout of the second half, from where the first one ended.
_con_read_part2(c, k, how) ==
    LET h == [k EXCEPT !.half = 2, !.from = (c.con.start + k.first) % MAX_IO_BUF,
                       !.n = k.len - k.first]
    IN  IF how = "later" THEN [c EXCEPT !.copies = @ \cup {h}]
        ELSE _con_read_end(c, Copied(c, h), how = "now")

\* How many bytes a read of nbytes gets: up to a newline.
Length(c, nbytes) ==
    CHOOSE n \in 0 .. smaller(nbytes, c.con.size) :
        LET b == Bytes(c, c.con.start, n)
        IN  /\ \A i \in 1 .. (n - 1) : b[i] # NL
            /\ n = smaller(nbytes, c.con.size) \/ (n > 0 /\ b[n] = NL)

\* _con_read for token t into the memory of process p; how the two copyouts go.
_con_read(c, t, p, nbytes, how, how2) ==
    LET len == Length(c, nbytes)
        first == smaller(MAX_IO_BUF, c.con.start + len) - c.con.start
        k == [token |-> t, to |-> p, len |-> len, first |-> first,
              half |-> 1, from |-> c.con.start, n |-> first, got |-> <<>>]
    IN  IF c.con.size <= 0
        THEN [c EXCEPT !.rs.blocked = TRUE, !.rs.token = t, !.rs.nbytes = nbytes]
        ELSE IF how = "later" THEN [c EXCEPT !.copies = @ \cup {k}]
        ELSE IF how = "fails" THEN _con_read_end(c, k, FALSE)
        ELSE _con_read_part2(c, Copied(c, k), how2)

-----------------------------------------------------------------------------

\* con_init.
Init ==
    /\ con = [buf |-> [i \in Place |-> NL], size |-> 0, start |-> 0, end |-> 0,
              handler |-> FALSE]
    /\ rs = [opened |-> FALSE, blocked |-> FALSE, pid |-> NOBODY, token |-> NOTOKEN,
             nbytes |-> 0]
    /\ copies = {} /\ has = {} /\ freed = {} /\ due = <<>> /\ ub = FALSE
    /\ st = [p \in Proc |-> "run"]
    /\ last = [got |-> <<>>, due |-> <<>>, to |-> NOBODY, reader |-> NOBODY]
    /\ opens = 0 /\ reads = 0 /\ typed = 0 /\ upset = {}

\* _con_eachopen for reading; it is refused while somebody reads.
_con_eachopen(p) ==
    /\ ~ub /\ st[p] = "run" /\ p \notin has /\ opens < MAXOPENS
    /\ ~rs.opened
    /\ rs' = [rs EXCEPT !.opened = TRUE, !.pid = p]
    /\ con' = [con EXCEPT !.handler = TRUE]
    /\ has' = has \cup {p} /\ opens' = opens + 1
    /\ UNCHANGED <<copies, st, freed, due, last, upset, ub, reads, typed>>

\* _con_eachclose: start, end and the blocked read stay as they are.
Closed ==
    /\ con' = [con EXCEPT !.handler = FALSE, !.size = 0]
    /\ rs' = [rs EXCEPT !.pid = NOBODY, !.opened = FALSE]
    /\ due' = <<>>

Unread == IF con.size = 0 THEN {} ELSE {"unread"}
Orphan == IF rs.blocked \/ copies # {} THEN {"orphan"} ELSE {}

_con_eachclose(p) ==
    /\ ~ub /\ st[p] = "run" /\ p \in has
    /\ Closed
    /\ has' = has \ {p} /\ upset' = upset \cup Unread
    /\ UNCHANGED <<copies, st, freed, last, ub, opens, reads, typed>>

\* proc_destroy, which closes what the process has open (filetable_destroy).
Kill(p) ==
    /\ ~ub /\ st[p] # "dead"
    /\ st' = [st EXCEPT ![p] = "dead"]
    /\ IF p \in has THEN Closed /\ upset' = upset \cup Unread \cup Orphan
                    ELSE UNCHANGED <<con, rs, due, upset>>
    /\ has' = has \ {p}
    /\ UNCHANGED <<copies, freed, last, ub, opens, reads, typed>>

\* serv_sys_read on the console.
serv_sys_read(p, n, how, how2) ==
    /\ ~ub /\ st[p] = "run" /\ p \in has /\ reads < MAXREADS
    /\ reads' = reads + 1
    /\ Become(_con_read([Now EXCEPT !.st[p] = "read"], [pid |-> p, n |-> reads + 1], p, n,
                        how, how2))
    /\ UNCHANGED <<has, upset, opens, typed>>

\* The serial port delivers ch: it is buffered if there is room.
Buffered(c, ch) ==
    IF c.con.size >= MAX_IO_BUF THEN c
    ELSE [c EXCEPT !.con.buf[c.con.end] = ch, !.con.end = (@ + 1) % MAX_IO_BUF,
                   !.con.size = @ + 1, !.due = Append(@, ch)]

\* _read_handler: a newline repeats the read that is blocked, in the name of the process
\* that has the console open now.
HandlerWakesIfRoom(ch, how, how2) ==
    /\ ~ub /\ con.handler /\ typed < MAXTYPED
    /\ typed' = typed + 1
    /\ LET c == Buffered(Now, ch)
       IN  Become(IF ~(rs.blocked /\ ch = NL /\ c.con.size < MAX_IO_BUF) THEN c
                  ELSE _con_read(c, rs.token, rs.pid, rs.nbytes, how, how2))
    /\ UNCHANGED <<has, upset, opens, reads>>
_read_handler(ch, how, how2) ==
    /\ ~ub /\ con.handler /\ typed < MAXTYPED
    /\ typed' = typed + 1
    /\ LET c == Buffered(Now, ch)
       IN  Become(IF ~(rs.blocked /\ ch = NL) THEN c
                  ELSE IF Alive(c, rs.pid)
                  THEN _con_read(c, rs.token, rs.pid, rs.nbytes, how, how2)
                  ELSE [c EXCEPT !.rs.pid = NOBODY, !.rs.blocked = FALSE])
    /\ upset' = IF rs.blocked /\ ch = NL /\ copies # {} THEN upset \cup {"again"} ELSE upset
    /\ UNCHANGED <<has, opens, reads>>

\* A copyout that waited is over.  It fails if its process was destroyed.
CopyEnds(k, good, how) ==
    /\ ~ub /\ (good => st[k.to] # "dead")
    /\ LET c == [Now EXCEPT !.copies = @ \ {k}]
       IN  Become(IF good /\ k.half = 1 THEN _con_read_part2(c, Copied(c, k), how)
                  ELSE _con_read_end(c, Copied(c, k), good))
    /\ UNCHANGED <<has, upset, opens, reads, typed>>

Next ==
    \/ \E p \in Proc : _con_eachopen(p) \/ _con_eachclose(p) \/ Kill(p)
    \/ \E p \in Proc, n \in Sizes, how, how2 \in Copyouts : serv_sys_read(p, n, how, how2)
    \/ \E ch \in Char \cup {NL}, how, how2 \in Copyouts : _read_handler(ch, how, how2)
    \/ \E k \in copies, good \in BOOLEAN, how \in Copyouts : CopyEnds(k, good, how)

Spec == Init /\ [][Next]_vars

-----------------------------------------------------------------------------

\* The buffer's indices and the read state keep their types.
TypeOK ==
    /\ con.buf \in [Place -> Char \cup {NL}] /\ con.size \in Int
    /\ con.start \in Place /\ con.end \in Place /\ con.handler \in BOOLEAN
    /\ rs.opened \in BOOLEAN /\ rs.blocked \in BOOLEAN /\ rs.pid \in Proc \cup {NOBODY}
    /\ rs.token \in Token \cup {NOTOKEN} /\ rs.nbytes \in Nat
    /\ st \in [Proc -> {"run", "read", "dead"}]
    /\ has \subseteq Proc /\ freed \subseteq Token /\ upset \subseteq Upset

\* A read returns what was typed since the console was opened, in order and nothing else, to
\* the process that called it (_con_read, _con_read_end, and _read_handler, which repeats a
\* blocked read), through copies that wait or fail, a buffer that wraps or is full and
\* readers that come and go, unless something upset the read state: what is in the buffer is
\* what is due.
ReadsReturnInput ==
    upset = {} =>
        /\ last.got = last.due /\ last.to = last.reader
        /\ con.handler => Bytes(Now, con.start, con.size) = due

\* A reader does not stay blocked once a whole line has been typed: it waits only while the
\* buffer holds no newline, and the handler knows of it, unless something upset the state.
LineWakesReader ==
    upset = {} => \A p \in has : st[p] = "read" /\ copies = {} =>
        /\ rs.blocked /\ rs.token.pid = p
        /\ \A i \in 1 .. Len(due) : due[i] # NL

\* serv_sys_read_end, which frees the continuation, is called once for each read, unless a
\* newline comes in the middle of a copy or a process is destroyed in the middle of a read.
ReadAnsweredOnce == upset \subseteq {"unread"} => ~ub
-----------------------------------------------------------------------------
(* What comments of the code say and the code does not keep.               *)

\* "Read from an open file, into buf" (sos.h): what a read returns is written to the memory
\* of the process that called it (_read_handler repeats a blocked read).
ReadsReachReader == last.to = last.reader
=============================================================================
