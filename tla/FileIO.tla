------------------------------- MODULE FileIO -------------------------------
(***************************************************************************)
(* System calls on files of the NFS server (syscall/file_syscalls.c,       *)
(* dev/nfs_dev.c, vfs/vfs.c): read and write, which repeat a request until *)
(* all bytes are moved, getdirent, which walks the directory, and stat.    *)
(* A call waits for a kernel frame, for a page of its process or for the   *)
(* server; meanwhile other processes use the same file, and the process    *)
(* may be destroyed, which frees its openfile and its address space but    *)
(* not the continuation of the call.                                       *)
(*                                                                         *)
(* A frame or a page that is there at once is one that is waited for in no *)
(* time, and a request that cannot be sent is one that fails before the    *)
(* server has it.  Every process has one file open, the same for all;      *)
(* opening and closing is in module Vfs, lost packets in Rpc, and pages in *)
(* Paging.  Pids are not used again for a long time (ProcTable), so a      *)
(* process that is destroyed does not come back.                           *)
(***************************************************************************)
EXTENDS Integers, Sequences

CONSTANTS
    Proc,
    PAGE_SIZE,      \* also MAX_IO_BUF
    PACKET,         \* what fits into a packet of nfs_write
    CHUNK,          \* names in an answer to nfs_readdir
    Names,          \* names in the directory
    Content,        \* the file at first
    MAXLEN,         \* how long it gets
    MAXCALLS,       \* how many calls are made
    Want            \* sizes of user buffers

ASSUME FileIOAssumption ==
    /\ PAGE_SIZE \in Nat \ {0} /\ PACKET \in Nat \ {0} /\ CHUNK \in Nat \ {0}
    /\ Names \in Nat /\ MAXLEN \in Nat /\ MAXCALLS \in Nat /\ Want \subseteq Nat
    /\ Len(Content) \in Nat /\ Content = [i \in 1 .. Len(Content) |-> Content[i]]

VARIABLES
    cont,       \* the continuation of the last call of each process
    alive,      \* is_proc_alive
    file,       \* the file on the server
    calls,      \* how many calls have been made
    held,       \* kernel buffers: <<p, "frame">> (write), <<p, "heap">> (stat)
    others,     \* ghost: offsets other processes wrote since the call began
    torn,       \* ghost: a process was destroyed while it waited for memory
    ub          \* ghost: an openfile or an address space was used after it was freed, or SOS
                \* faulted on a pointer that is none

vars == <<cont, alive, file, calls, held, others, torn, ub>>

\* The fields of a continuation: the call; where it is (kbuf, copyin, copyout: it waits for
\* memory; wire, reply: for the server; done; forgotten: for nothing); the user's buffer (buf,
\* want, done); len, wanna_send or what is asked for; data, on its way; got, what the process
\* has got; the openfile's offset, now and when the call began; pos and cookie of getdirent;
\* the position asked for; err, of the server or in the answer to the process.
IDLE == [call |-> "none", at |-> "done", buf |-> 0, want |-> 0, done |-> 0, len |-> 0,
         data |-> <<>>, got |-> <<>>, off |-> 0, start |-> 0, pos |-> 0, cookie |-> 0,
         asked |-> 0, err |-> FALSE]

smaller(a, b) == IF a < b THEN a ELSE b
larger(a, b) == IF a > b THEN a ELSE b
Byte(p, k) == <<p, k>>      \* the k-th byte of the buffer p writes from
GARBAGE == -1               \* bytes that are no sos_stat_t, or no name of the directory
Busy(p) == cont[p].at # "done"

Init ==
    /\ cont = [p \in Proc |-> IDLE] /\ alive = [p \in Proc |-> TRUE]
    /\ file = Content /\ calls = 0 /\ held = {}
    /\ others = [p \in Proc |-> {}] /\ torn = FALSE /\ ub = FALSE

-----------------------------------------------------------------------------
(***************************************************************************)
(* The handlers as functions of the state they change: the continuation,   *)
(* the kernel buffers, and whether freed memory was used.                  *)
(***************************************************************************)
Now(p) == [c |-> cont[p], held |-> held, ub |-> ub]
Become(p, s) == cont' = [cont EXCEPT ![p] = s.c] /\ held' = s.held /\ ub' = s.ub

\* The process is answered, or there is nobody to answer; the continuation is freed.
Answer(s, p, err) == IF ~alive[p] THEN [s EXCEPT !.c = IDLE]
    ELSE [s EXCEPT !.c = [s.c EXCEPT !.at = "done", !.err = err, !.len = 0, !.data = <<>>,
                                   !.pos = 0, !.cookie = 0]]

\* size more bytes have been moved: cont->file->of_offset is used.
Moved(s, p, size) == [s EXCEPT !.ub = @ \/ ~alive[p],
                               !.c = [s.c EXCEPT !.off = @ + size, !.done = @ + size]]

\* _nfs_dev_read, as serv_sys_read and serv_sys_read_end call it.
VOP_READ(s) == [s EXCEPT !.c = [s.c EXCEPT !.at = "wire",
                                         !.len = smaller(s.c.want - s.c.done, PAGE_SIZE)]]

\* serv_sys_read_end, without an error; there is more to read unless nothing came.
ReadEndInsists(s, p, size) ==
    LET t == Moved(s, p, size)
    IN  IF ~alive[p] THEN Answer(s, p, TRUE)
        ELSE IF t.c.done >= t.c.want THEN Answer(t, p, FALSE) ELSE VOP_READ(t)
serv_sys_read_end(s, p, size) ==
    LET t == Moved(s, p, size)
    IN  IF ~alive[p] THEN Answer(s, p, TRUE)
        ELSE IF size = 0 \/ t.c.done >= t.c.want THEN Answer(t, p, FALSE) ELSE VOP_READ(t)

\* Copied out to buf + bytes_read; then _nfs_dev_read_end.
_nfs_dev_read_end(s, p) ==
    LET t == [s EXCEPT !.c = [s.c EXCEPT !.got = SubSeq(@, 1, s.c.done) \o s.c.data,
                                         !.data = <<>>]]
    IN  serv_sys_read_end(t, p, Len(s.c.data))

\* serv_sys_write_end: kbuf is freed, whether there is still someone to answer or not.
serv_sys_write_end(s, p, err) == Answer([s EXCEPT !.held = @ \ {<<p, "frame">>}], p, err)

\* serv_sys_write_copyin: size bytes have been written; the next ones, to the end of the page
\* of the user's buffer at most, are copied to kbuf.
CopyinAgain(s, p, size) ==
    LET t    == Moved(s, p, size)
        left == PAGE_SIZE - ((t.c.buf + t.c.done) % PAGE_SIZE)
        len  == smaller(left, t.c.want - t.c.done)
    IN  IF t.c.done >= t.c.want THEN serv_sys_write_end(t, p, FALSE)
        ELSE [t EXCEPT !.c = [t.c EXCEPT !.at = "copyin", !.len = len,
                                       !.data = [k \in 1 .. len |-> Byte(p, k)]]]
serv_sys_write_copyin(s, p, size) ==
    LET t    == Moved(s, p, size)
        left == PAGE_SIZE - ((t.c.buf + t.c.done) % PAGE_SIZE)
        len  == smaller(left, t.c.want - t.c.done)
    IN  IF t.c.done >= t.c.want THEN serv_sys_write_end(t, p, FALSE)
        ELSE [t EXCEPT !.c = [t.c EXCEPT !.at = "copyin", !.len = len,
                                       !.data = [k \in 1 .. len |-> Byte(p, t.c.done + k)]]]

\* _nfs_dev_getdirent_handler, without an error: n names follow the cookie.  The cookie of an
\* answer without names is 0, and that is the end of the directory.  A position before the
\* first name is before every one, and what is read there is no pointer to a name.
NameAt(c) == IF c.pos < 0 THEN GARBAGE ELSE c.cookie + c.pos
PosKept(s, p, n) ==
    IF n > s.c.pos
    THEN [s EXCEPT !.c = [s.c EXCEPT !.at = "copyout", !.data = <<NameAt(s.c)>>]]
    ELSE IF n = 0 THEN Answer(s, p, s.c.pos # 1)
    ELSE [s EXCEPT !.c = [s.c EXCEPT !.at = "wire", !.cookie = @ + n]]
_nfs_dev_getdirent_handler(s, p, n) ==
    IF n > s.c.pos
    THEN [s EXCEPT !.c = [s.c EXCEPT !.at = "copyout", !.data = <<NameAt(s.c)>>]]
    ELSE IF n = 0 THEN Answer(s, p, s.c.pos # 1)
    ELSE [s EXCEPT !.c = [s.c EXCEPT !.at = "wire", !.cookie = @ + n, !.pos = @ - n]]

\* serv_sys_stat_end: the copy of the path is freed only if there is someone to answer.
serv_sys_stat_end(s, p, err) ==
    Answer(IF alive[p] THEN [s EXCEPT !.held = @ \ {<<p, "heap">>}] ELSE s, p, err)

\* vfs_stat: the open file is in the list of vnodes, and _nfs_dev_stat copies out the bytes at
\* the pointer to its record instead of the record; else the server is asked.
vfs_stat(s) ==
    IF s.c.asked = 0 THEN [s EXCEPT !.c = [s.c EXCEPT !.at = "copyout", !.data = <<GARBAGE>>]]
    ELSE [s EXCEPT !.c.at = "wire"]

\* What was copied out is all the call is about.
CopiedOut(s) == [s EXCEPT !.c = [s.c EXCEPT !.got = s.c.data, !.done = 1]]

\* An error, or the end of the process, goes up to the end of the call.
Fail(s, p) ==
    IF s.c.call = "write" THEN serv_sys_write_end(s, p, TRUE)
    ELSE IF s.c.call = "stat" THEN serv_sys_stat_end(s, p, TRUE)
    ELSE Answer(s, p, TRUE)

-----------------------------------------------------------------------------
\* A system call begins.  One with a bad descriptor or buffer is answered at once and changes
\* nothing.  The position of getdirent is an int that nobody checks.
Begins(p, new) ==
    /\ ~ub /\ alive[p] /\ ~Busy(p) /\ calls < MAXCALLS
    /\ calls' = calls + 1
    /\ cont' = [cont EXCEPT ![p] = new]
    /\ others' = [others EXCEPT ![p] = {}]
    /\ UNCHANGED <<alive, file, torn, ub>>
NewCall(p, call) == [IDLE EXCEPT !.call = call, !.off = cont[p].off, !.start = cont[p].off]

serv_sys_read(p, nbyte) ==
    /\ Begins(p, VOP_READ([c |-> [NewCall(p, "read") EXCEPT !.want = nbyte]]).c)
    /\ UNCHANGED held

\* The frame for kbuf is asked for.
serv_sys_write(p, buf, nbyte) ==
    /\ cont[p].off + nbyte <= MAXLEN
    /\ Begins(p, [NewCall(p, "write") EXCEPT !.at = "kbuf", !.buf = buf, !.want = nbyte])
    /\ UNCHANGED held

serv_sys_getdirent(p, pos) ==
    /\ Begins(p, [NewCall(p, "getdirent") EXCEPT !.at = "wire", !.asked = pos, !.pos = pos])
    /\ UNCHANGED held

\* Of the open file (0), or of one that is not open (1): the path is copied in.
serv_sys_stat(p, which) ==
    /\ Begins(p, [NewCall(p, "stat") EXCEPT !.at = "copyin", !.asked = which])
    /\ held' = held \cup {<<p, "heap">>}

\* serv_sys_write_get_kbuf: frame_alloc has a frame, or none.
serv_sys_write_get_kbuf(p, ok) ==
    /\ ~ub /\ cont[p].at = "kbuf"
    /\ Become(p, IF ok THEN serv_sys_write_copyin(
                                [Now(p) EXCEPT !.held = @ \cup {<<p, "frame">>}], p, 0)
                 ELSE serv_sys_write_end(Now(p), p, TRUE))
    /\ UNCHANGED <<alive, file, calls, others, torn>>

\* What a call does when its copyin or copyout is done.
AfterCopy(s, p) ==
    IF s.c.call = "read" THEN _nfs_dev_read_end(s, p)
    ELSE IF s.c.call = "write" THEN [s EXCEPT !.c.at = "wire"]
    ELSE IF s.c.call = "getdirent" THEN Answer(CopiedOut(s), p, FALSE)
    ELSE IF s.c.at = "copyin" THEN vfs_stat(s)
    ELSE serv_sys_stat_end(CopiedOut(s), p, FALSE)

\* copyin or copyout is done, or has failed.  Of a process that is gone the swapper reports an
\* error, while sos_page_map goes on with its address space.
CopyEnds(p, ok) ==
    LET s == Now(p)
    IN  /\ ~ub /\ s.c.at \in {"copyin", "copyout"}
        /\ Become(p, IF ~ok THEN Fail(s, p)
                     ELSE IF ~alive[p] THEN [s EXCEPT !.ub = TRUE]
                     ELSE AfterCopy(s, p))
        /\ UNCHANGED <<alive, file, calls, others, torn>>

\* _nfs_dev_getstat_lookup_cb does not look at what copyout returns.
StatForgotten(p) ==
    /\ ~ub /\ alive[p]
    /\ cont[p].call = "stat" /\ cont[p].asked = 1 /\ cont[p].at = "copyout"
    /\ cont' = [cont EXCEPT ![p].at = "forgotten"]
    /\ UNCHANGED <<alive, file, calls, held, others, torn, ub>>

\* The request cannot be sent.  The request for more names then ends the call without an error.
RequestRefused(p) ==
    /\ ~ub /\ alive[p] /\ cont[p].at = "wire"
    /\ Become(p, IF cont[p].call = "getdirent" /\ cont[p].cookie # 0 THEN Answer(Now(p), p, FALSE)
                 ELSE Fail(Now(p), p))
    /\ UNCHANGED <<alive, file, calls, others, torn>>

\* Through what it takes for a pointer to a name SOS reads a string of its own, as the handler
\* has it, or it faults.
ReadsOutside(p) ==
    /\ ~ub /\ alive[p] /\ cont[p].at = "reply" /\ ~cont[p].err
    /\ cont[p].call = "getdirent" /\ cont[p].pos < 0
    /\ ub' = TRUE
    /\ UNCHANGED <<cont, alive, file, calls, held, others, torn>>

-----------------------------------------------------------------------------
\* The server executes a request, also of a process that is gone.  It may send fewer bytes or
\* names than asked for, none only at the end; nfs_write sends what fits into a packet.
Written(f, off, d) == [i \in 1 .. larger(Len(f), off + Len(d)) |->
                           IF i \in (off + 1) .. (off + Len(d)) THEN d[i - off] ELSE f[i]]
Executes(c, n) ==
    LET left == IF c.call = "read" THEN smaller(c.len, Len(file) - c.off) ELSE Names - c.cookie
    IN  IF c.call = "write" THEN n = smaller(c.len, PACKET)
        ELSE IF c.call = "stat" THEN n = 1
        ELSE n <= left /\ (n = 0 => left = 0) /\ (c.call = "getdirent" => n <= CHUNK)
Sends(c, n) == IF c.call = "read" THEN SubSeq(file, c.off + 1, c.off + n)
               ELSE IF c.call = "stat" THEN <<c.asked>> ELSE <<>>
ServerExecutes(p, n) ==
    LET c == cont[p]
        sent == SubSeq(c.data, 1, n)
    IN  /\ ~ub /\ c.at = "wire" /\ Executes(c, n)
        /\ file' = IF c.call = "write" THEN Written(file, c.off, sent) ELSE file
        /\ others' = [q \in Proc |->
               IF c.call = "write" /\ q # p /\ Busy(q) /\ alive[q]
               THEN others[q] \cup ((c.off + 1) .. (c.off + n)) ELSE others[q]]
        /\ cont' = [cont EXCEPT ![p] = [c EXCEPT !.at = "reply", !.len = n,
                                                !.data = Sends(c, n)]]
        /\ UNCHANGED <<alive, calls, held, torn, ub>>

\* It refuses one.
ServerFails(p) ==
    /\ ~ub /\ cont[p].at = "wire"
    /\ cont' = [cont EXCEPT ![p] = [@ EXCEPT !.at = "reply", !.err = TRUE, !.data = <<>>, !.len = 0]]
    /\ UNCHANGED <<alive, file, calls, held, others, torn, ub>>

\* The handlers of nfs_dev.c.
HandlerRuns(s, p) ==
    IF s.c.call = "write" THEN serv_sys_write_copyin(s, p, s.c.len)
    ELSE IF s.c.call = "getdirent" THEN _nfs_dev_getdirent_handler(s, p, s.c.len)
    ELSE [s EXCEPT !.c.at = "copyout"]
AnswerUnchecked(p) ==
    /\ ~ub /\ cont[p].at = "reply"
    /\ Become(p, IF cont[p].err THEN Fail(Now(p), p) ELSE HandlerRuns(Now(p), p))
    /\ UNCHANGED <<alive, file, calls, others, torn>>
AnswerArrives(p) ==
    /\ ~ub /\ cont[p].at = "reply"
    /\ Become(p, IF cont[p].err \/ ~alive[p] THEN Fail(Now(p), p) ELSE HandlerRuns(Now(p), p))
    /\ UNCHANGED <<alive, file, calls, others, torn>>

\* proc_destroy
proc_destroy(p) ==
    /\ ~ub /\ alive[p]
    /\ alive' = [alive EXCEPT ![p] = FALSE]
    /\ cont' = IF Busy(p) THEN cont ELSE [cont EXCEPT ![p] = IDLE]
    /\ others' = [others EXCEPT ![p] = {}]
    /\ torn' = (torn \/ cont[p].at \in {"kbuf", "copyin", "copyout"})
    /\ UNCHANGED <<file, calls, held, ub>>

\* What a call waits for.
Step(p) ==
    \/ \E ok \in BOOLEAN : serv_sys_write_get_kbuf(p, ok) \/ CopyEnds(p, ok)
    \/ \E n \in 0 .. MAXLEN : ServerExecutes(p, n)
    \/ AnswerArrives(p)

Next ==
    \E p \in Proc :
        \/ \E n \in Want : serv_sys_read(p, n) \/ \E buf \in 0 .. (PAGE_SIZE - 1) :
                               serv_sys_write(p, buf, n)
        \/ \E pos \in -1 .. (Names + 2) : serv_sys_getdirent(p, pos)
        \/ \E which \in {0, 1} : serv_sys_stat(p, which)
        \/ Step(p) \/ StatForgotten(p) \/ RequestRefused(p) \/ ServerFails(p) \/ proc_destroy(p)
        \/ ReadsOutside(p)

Spec == Init /\ [][Next]_vars

\* Memory is found or refused, and the server answers (rpc.c retransmits).
FairSpec == Spec /\ \A p \in Proc : WF_vars(Step(p))

-----------------------------------------------------------------------------
\* The call of p is answered in this step.
Returns(p, call) == cont[p].call = call /\ Busy(p) /\ cont'[p].at = "done" /\ alive[p]

\* A read gives the process the bytes of the file from its offset on, and a write leaves the
\* bytes of the user's buffer there: in order, none twice and none left out, however the calls
\* are cut into pages and packets and the server splits its answers.  The offset and the
\* number returned say how many, and without an error it is all that was asked for, or all
\* there is.  Only bytes another process writes during the call may be different
\* (serv_sys_read_end, _nfs_dev_read_end, serv_sys_write_copyin, serv_sys_write_end).
TransfersExact ==
    [][\A p \in Proc : (Returns(p, "read") \/ Returns(p, "write")) =>
         LET c == cont'[p]
         IN  /\ c.off = c.start + c.done
             /\ c.call = "read" => Len(c.got) = c.done
             /\ \A k \in 1 .. c.done : c.start + k \notin others[p] =>
                    file[c.start + k] = IF c.call = "read" THEN c.got[k] ELSE Byte(p, k)
             /\ ~c.err /\ c.call = "write" => c.done = c.want
             /\ ~c.err /\ c.call = "read" /\ others[p] = {} =>
                    c.done = smaller(c.want, Len(file) - c.start)]_vars

\* getdirent gives the name at the position asked for, whatever number of requests the
\* directory takes (_nfs_dev_getdirent_handler), if that position is not negative.
EntryByPosition ==
    [][\A p \in Proc : Returns(p, "getdirent") /\ cont'[p].done > 0 /\ cont'[p].asked >= 0 =>
           cont'[p].asked < Names /\ cont'[p].got = <<cont'[p].asked>>]_vars

\* An answer that comes after its process was destroyed touches neither the openfile nor the
\* address space of the process (is_proc_alive in the handlers), unless the process was
\* destroyed while the call waited for memory; but for that SOS faults only on a position of
\* getdirent that is negative.  A call that is over, also one whose process is
\* gone, has given its kernel buffers back (serv_sys_write_end), but for the path of a stat
\* whose process was destroyed.
LateAnswersHarmless ==
    /\ ub => torn \/ \E p \in Proc : cont[p].call = "getdirent" /\ cont[p].asked < 0
    /\ \A h \in held : Busy(h[1]) \/ (h[2] = "heap" /\ ~alive[h[1]])

\* A call ends: a read that gets less than it asks for, a write that is cut into packets and a
\* walk through the directory all come to an end, unless stat forgets its caller.
CallsReturn ==
    \A p \in Proc : Busy(p) ~> (~Busy(p) \/ ~alive[p] \/ ub \/ cont[p].at = "forgotten")

-----------------------------------------------------------------------------
(* What comments of the code say and the code does not keep.               *)

\* "zero if "pos" is next free entry, -1 if error (non-existent entry)" (sos.h, of
\* sos_getdirent).
NextFreeEntryIsZero ==
    [][\A p \in Proc : Returns(p, "getdirent") /\ cont'[p].done = 0 /\ ~cont'[p].err =>
           cont'[p].asked = Names]_vars

\* "-1 if error (non-existent entry)" (sos.h, of sos_getdirent): what is given as a name is
\* one of the directory.
NamesAreEntries ==
    [][\A p \in Proc : Returns(p, "getdirent") /\ cont'[p].done > 0 =>
           cont'[p].got # <<GARBAGE>>]_vars

\* "Returns information about file "path" through "buf"" (sos.h, of sos_stat).
StatIsAboutFile ==
    [][\A p \in Proc : Returns(p, "stat") /\ ~cont'[p].err => cont'[p].got # <<GARBAGE>>]_vars
=============================================================================
