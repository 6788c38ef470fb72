---------------------------- MODULE FileIOProofs ----------------------------
(***************************************************************************)
(* What module FileIO promises of read, write, getdirent and stat, for     *)
(* every number of processes and calls, every file and directory and every *)
(* size of pages, packets and answers: each step keeps the invariant of    *)
(* module FileIOLemmas, and a step that answers a call leaves what Ends    *)
(* says.                                                                   *)
(***************************************************************************)
EXTENDS FileIOLemmas

-----------------------------------------------------------------------------
(* The beginning of a call.                                                *)

\* A new call has moved nothing and holds nothing but the path of a stat.
LEMMA BeginKeeps ==
  ASSUME IInv, NEW p \in Proc, NEW new \in Cont, Begins(p, new), new.off = cont[p].off,
         \/ held' = held
         \/ held' = held \cup {<<p, "heap">>} /\ new.call = "stat",
         Stage(new), new.at # "done", new.call = "write" => new.at = "kbuf",
         InFlight(new, file, {}, p)
  PROVE  IInv'
<1>1. /\ ~ub /\ alive[p] /\ cont[p].at = "done"
      /\ cont' = [cont EXCEPT ![p] = new] /\ others' = [others EXCEPT ![p] = {}]
      /\ UNCHANGED <<alive, file, torn, ub>>
  BY DEF Begins, Busy
<1>2. Types
  BY DEF IInv
<1>3. Types'
  <2>1. cont' \in [Proc -> Cont]
    BY <1>1, <1>2, Zenon DEF Types
  <2>2. others' \in [Proc -> SUBSET Int]
    BY <1>1, <1>2 DEF Types
  <2>3. held' \subseteq Proc \X {"frame", "heap"}
    BY <1>2 DEF Types
  <2>. QED BY <1>1, <1>2, <2>1, <2>2, <2>3, Zenon DEF Types
<1>4. ASSUME NEW q \in Proc
      PROVE  Own(cont'[q], held', alive'[q], torn', file', others'[q], q)
  <2>1. Own(cont[q], held, alive[q], torn, file, others[q], q)
    BY DEF IInv
  <2>2. CASE q = p
    <3>1. cont'[q] = new /\ others'[q] = {}
      BY <1>1, <1>2, <2>2 DEF Types
    <3>2. Placed(new, file)
      BY <1>1, <2>1, <2>2 DEF Own, Placed
    <3>3. <<p, "frame">> \notin held /\ <<p, "heap">> \notin held
      BY <1>1, <2>1, <2>2 DEF Own, Kept
    <3>4. Kept(new, held', alive[p], torn, p)
      <4>1. <<p, "frame">> \notin held'
        BY <3>3
      <4>2. <<p, "heap">> \in held' => new.call = "stat"
        BY <3>3
      <4>. QED BY <1>1, <4>1, <4>2 DEF Kept
    <3>5. Own(new, held', alive[p], torn, file, {}, p)
      BY <3>2, <3>4 DEF Own
    <3>. QED BY <1>1, <2>2, <3>1, <3>5, Zenon
  <2>3. CASE q # p
    <3>1. cont'[q] = cont[q] /\ others'[q] = others[q]
      BY <1>1, <1>2, <2>3 DEF Types
    <3>2. Kept(cont[q], held', alive[q], torn, q)
      <4>1. /\ <<q, "frame">> \in held' => <<q, "frame">> \in held
            /\ <<q, "heap">> \in held' => <<q, "heap">> \in held
        BY <2>3
      <4>. QED BY <2>1, <4>1 DEF Own, Kept
    <3>3. Own(cont[q], held', alive[q], torn, file, others[q], q)
      BY <2>1, <3>2 DEF Own
    <3>. QED BY <1>1, <3>1, <3>3, Zenon
  <2>. QED BY <2>2, <2>3
<1>. QED BY <1>1, <1>3, <1>4 DEF IInv

\* The fields of a new continuation.
LEMMA NewFacts ==
  ASSUME IInv, NEW p \in Proc, NEW call \in Call, NEW c, c = NewCall(p, call)
  PROVE  /\ c \in Cont /\ c.call = call /\ c.off = cont[p].off /\ c.start = cont[p].off
         /\ c.done = 0 /\ c.want = 0 /\ c.got = <<>> /\ c.cookie = 0 /\ c.err = FALSE
         /\ cont[p].off \in Nat
<1>1. cont[p].off \in Nat
  BY ContFields DEF IInv, Types
<1>2. /\ c.call = call /\ c.off = cont[p].off /\ c.start = cont[p].off
      /\ c.done = 0 /\ c.want = 0 /\ c.got = <<>> /\ c.cookie = 0 /\ c.err = FALSE
  BY DEF NewCall, IDLE
<1>3. c \in Cont
  BY <1>1, IdleFacts, Zenon DEF NewCall, Cont
<1>. QED BY <1>1, <1>2, <1>3

\* A read begins.
LEMMA ReadStep ==
  ASSUME IInv, NEW p \in Proc, NEW n \in Want, serv_sys_read(p, n)
  PROVE  IInv'
<1> DEFINE c == NewCall(p, "read")
           d == [c EXCEPT !.want = n]
           len == smaller(n - 0, PAGE_SIZE)
           new == VOP_READ([c |-> d]).c
<1>1. n \in Nat /\ "read" \in Call /\ "wire" \in Where
  BY FileIOAssumption DEF Call, Where
<1>2. Begins(p, new) /\ held' = held
  BY DEF serv_sys_read
<1>3. /\ c \in Cont /\ c.call = "read" /\ c.off = cont[p].off /\ c.start = cont[p].off
      /\ c.done = 0 /\ c.want = 0 /\ c.got = <<>> /\ c.cookie = 0 /\ c.err = FALSE
      /\ cont[p].off \in Nat
  BY <1>1, NewFacts, Zenon
<1>4. new = [d EXCEPT !.at = "wire", !.len = smaller(d.want - d.done, PAGE_SIZE)]
  BY Zenon DEF VOP_READ
<1> HIDE DEF c, new
<1>5. /\ d \in Cont /\ d.want = n /\ d.done = 0 /\ d.call = "read" /\ d.off = cont[p].off
      /\ d.start = cont[p].off /\ d.got = <<>> /\ d.err = FALSE
  BY <1>1, <1>3, Zenon DEF Cont
<1> HIDE DEF d
<1>6. len \in Nat /\ len <= n /\ (len = 0 => n = 0)
  BY <1>1, FileIOAssumption DEF smaller
<1>7. new = [d EXCEPT !.at = "wire", !.len = len]
  BY <1>4, <1>5
<1> HIDE DEF len
<1>8. /\ new \in Cont /\ new.at = "wire" /\ new.len = len /\ new.want = n /\ new.done = 0
      /\ new.call = "read" /\ new.off = cont[p].off /\ new.start = cont[p].off
      /\ new.got = <<>> /\ new.err = FALSE
  BY <1>1, <1>5, <1>6, <1>7, Zenon DEF Cont
<1>9. Stage(new)
  BY <1>8 DEF Stage
<1>10. Reads(new, file, {})
  <2>1. Copied(file, new.start, new.got, new.done, {})
    BY <1>8 DEF Copied
  <2>2. /\ new.off = new.start + new.done /\ new.done <= new.want /\ Len(new.got) = new.done
        /\ new.done + new.len <= new.want /\ (new.len = 0 => new.done = new.want)
    BY <1>1, <1>3, <1>6, <1>8
  <2>. QED BY <1>8, <2>1, <2>2 DEF Reads
<1>11. InFlight(new, file, {}, p)
  BY <1>8, <1>10 DEF InFlight
<1>. QED BY <1>2, <1>8, <1>9, <1>11, BeginKeeps

\* A write begins.
LEMMA WriteStep ==
  ASSUME IInv, NEW p \in Proc, NEW n \in Want, NEW buf \in 0 .. (PAGE_SIZE - 1),
         serv_sys_write(p, buf, n)
  PROVE  IInv'
<1> DEFINE c == NewCall(p, "write")
           new == [c EXCEPT !.at = "kbuf", !.buf = buf, !.want = n]
<1>1. n \in Nat /\ buf \in Nat /\ "write" \in Call /\ "kbuf" \in Where
  BY FileIOAssumption DEF Call, Where
<1>2. Begins(p, new) /\ held' = held
  BY DEF serv_sys_write
<1>3. /\ c \in Cont /\ c.call = "write" /\ c.off = cont[p].off /\ c.start = cont[p].off
      /\ c.done = 0 /\ c.want = 0 /\ c.got = <<>> /\ c.cookie = 0 /\ c.err = FALSE
      /\ cont[p].off \in Nat
  BY <1>1, NewFacts, Zenon
<1> HIDE DEF c
<1>4. /\ new \in Cont /\ new.at = "kbuf" /\ new.want = n /\ new.done = 0
      /\ new.call = "write" /\ new.off = cont[p].off /\ new.start = cont[p].off
      /\ new.err = FALSE
  BY <1>1, <1>3, Zenon DEF Cont
<1> HIDE DEF new
<1>5. Stage(new)
  BY <1>4 DEF Stage
<1>6. Writes(new, file, {}, p)
  <2>1. FromBuffer(file, new.start, p, 0, new.done, {})
    BY <1>4 DEF FromBuffer
  <2>2. new.off = new.start + new.done /\ new.done <= new.want
    BY <1>1, <1>3, <1>4
  <2>. QED BY <1>4, <2>1, <2>2 DEF Writes
<1>7. InFlight(new, file, {}, p)
  BY <1>4, <1>6 DEF InFlight
<1>. QED BY <1>2, <1>4, <1>5, <1>7, BeginKeeps

\* A getdirent begins.
LEMMA GetdirentStep ==
  ASSUME IInv, NEW p \in Proc, NEW pos \in -1 .. (Names + 2), serv_sys_getdirent(p, pos)
  PROVE  IInv'
<1> DEFINE c == NewCall(p, "getdirent")
           new == [c EXCEPT !.at = "wire", !.asked = pos, !.pos = pos]
<1>1. pos \in Int /\ Names \in Nat /\ "getdirent" \in Call /\ "wire" \in Where
  BY FileIOAssumption DEF Call, Where
<1>2. Begins(p, new) /\ held' = held
  BY DEF serv_sys_getdirent
<1>3. /\ c \in Cont /\ c.call = "getdirent" /\ c.off = cont[p].off /\ c.start = cont[p].off
      /\ c.done = 0 /\ c.want = 0 /\ c.got = <<>> /\ c.cookie = 0 /\ c.err = FALSE
      /\ cont[p].off \in Nat
  BY <1>1, NewFacts, Zenon
<1> HIDE DEF c
<1>4. /\ new \in Cont /\ new.at = "wire" /\ new.asked = pos /\ new.pos = pos
      /\ new.cookie = 0 /\ new.done = 0
      /\ new.call = "getdirent" /\ new.off = cont[p].off /\ new.err = FALSE
  BY <1>1, <1>3, Zenon DEF Cont
<1> HIDE DEF new
<1>5. Stage(new)
  BY <1>4 DEF Stage
<1>6. Walks(new)
  BY <1>1, <1>4 DEF Walks
<1>7. InFlight(new, file, {}, p)
  BY <1>4, <1>6 DEF InFlight
<1>. QED BY <1>2, <1>4, <1>5, <1>7, BeginKeeps

\* A stat begins.
LEMMA StatStep ==
  ASSUME IInv, NEW p \in Proc, NEW which \in {0, 1}, serv_sys_stat(p, which)
  PROVE  IInv'
<1> DEFINE c == NewCall(p, "stat")
           new == [c EXCEPT !.at = "copyin", !.asked = which]
<1>1. which \in Int /\ "stat" \in Call /\ "copyin" \in Where
  BY DEF Call, Where
<1>2. Begins(p, new) /\ held' = held \cup {<<p, "heap">>}
  BY DEF serv_sys_stat
<1>3. /\ c \in Cont /\ c.call = "stat" /\ c.off = cont[p].off /\ c.start = cont[p].off
      /\ c.done = 0 /\ c.want = 0 /\ c.got = <<>> /\ c.cookie = 0 /\ c.err = FALSE
      /\ cont[p].off \in Nat
  BY <1>1, NewFacts, Zenon
<1> HIDE DEF c
<1>4. /\ new \in Cont /\ new.at = "copyin" /\ new.call = "stat" /\ new.off = cont[p].off
      /\ new.err = FALSE
  BY <1>1, <1>3, Zenon DEF Cont
<1> HIDE DEF new
<1>5. Stage(new) /\ InFlight(new, file, {}, p)
  BY <1>4 DEF Stage, InFlight
<1>. QED BY <1>2, <1>4, <1>5, BeginKeeps

-----------------------------------------------------------------------------
(* The server, and the end of a process.                                   *)

\* A step that changes nothing but a continuation, which stays under way.
LEMMA ContKeeps ==
  ASSUME IInv, ~ub, NEW p \in Proc, NEW d \in Cont, cont' = [cont EXCEPT ![p] = d],
         UNCHANGED <<alive, file, calls, held, others, torn, ub>>, d.at # "done",
         d.call = cont[p].call, Own(d, held, alive[p], torn, file, others[p], p)
  PROVE  IInv'
<1> DEFINE u == [c |-> d, held |-> held, ub |-> ub]
<1>1. u.c = d /\ u.held = held /\ u.ub = ub
  OBVIOUS
<1>2. held \in Buffers /\ ub \in BOOLEAN
  BY DEF IInv, Types, Buffers
<1>3. u \in State
  BY <1>2, Zenon DEF State
<1> HIDE DEF u
<1>4. Mine(u, p)
  BY <1>1 DEF Mine
<1>5. Good(u, p)
  BY <1>1, <1>3, <1>4 DEF Good
<1>6. Become(p, u)
  BY <1>1 DEF Become
<1>. QED BY <1>5, <1>6, BecomeKeeps

\* A stat is forgotten.
LEMMA ForgottenStep ==
  ASSUME IInv, NEW p \in Proc, StatForgotten(p)
  PROVE  IInv'
<1> DEFINE c == cont[p]
           d == [c EXCEPT !.at = "forgotten"]
<1>1. /\ ~ub /\ alive[p] /\ c.call = "stat" /\ c.at = "copyout"
      /\ cont' = [cont EXCEPT ![p] = d]
      /\ UNCHANGED <<alive, file, calls, held, others, torn, ub>>
  BY DEF StatForgotten
<1>2. Own(c, held, alive[p], torn, file, others[p], p)
  BY DEF IInv
<1> HIDE DEF c
<1>3. c \in Cont /\ "forgotten" \in Where /\ ~c.err /\ c.off <= Len(file)
  BY <1>1, <1>2 DEF Own, Placed, Where, InFlight
<1>4. d \in Cont /\ d.at = "forgotten" /\ d.call = c.call /\ d.off = c.off /\ d.err = c.err
  BY <1>3, Zenon DEF Cont
<1> HIDE DEF d
<1>5. Placed(d, file) /\ InFlight(d, file, others[p], p)
  BY <1>1, <1>3, <1>4 DEF Placed, Stage, InFlight
<1>6. Kept(d, held, alive[p], torn, p)
  BY <1>1, <1>2, <1>4 DEF Own, Kept
<1>7. Own(d, held, alive[p], torn, file, others[p], p)
  BY <1>5, <1>6 DEF Own
<1>8. d.at # "done" /\ d.call = cont[p].call
  BY <1>4 DEF c
<1>. QED BY <1>1, <1>4, <1>7, <1>8, ContKeeps, Zenon

\* The server refuses a request.
LEMMA ServerFailsStep ==
  ASSUME IInv, NEW p \in Proc, ServerFails(p)
  PROVE  IInv'
<1> DEFINE c == cont[p]
           d == [c EXCEPT !.at = "reply", !.err = TRUE, !.data = <<>>, !.len = 0]
<1>1. /\ ~ub /\ c.at = "wire" /\ UNCHANGED <<alive, file, calls, held, others, torn, ub>>
  BY DEF ServerFails
<1>2. Own(c, held, alive[p], torn, file, others[p], p) /\ cont \in [Proc -> Cont] /\ c \in Cont
  BY DEF IInv, Types
<1>3. cont' = [cont EXCEPT ![p] = d]
  BY <1>2 DEF ServerFails
<1> HIDE DEF c
<1>4. "reply" \in Where /\ <<>> \in Seq(Datum) /\ 0 \in Nat /\ TRUE \in BOOLEAN
  BY DEF Where
<1>5. d \in Cont
  BY <1>2, <1>4, Zenon DEF Cont
<1>6. /\ d.at = "reply" /\ d.call = c.call /\ d.off = c.off /\ d.start = c.start
      /\ d.done = c.done /\ d.want = c.want /\ d.got = c.got /\ d.cookie = c.cookie
      /\ d.pos = c.pos /\ d.asked = c.asked
  BY <1>2 DEF Cont
<1>7. d.err
  BY <1>2, Zenon DEF Cont
<1> HIDE DEF d
<1>8. Placed(d, file)
  BY <1>1, <1>2, <1>5, <1>6 DEF Own, Placed, Stage
<1>9. Kept(d, held, alive[p], torn, p)
  BY <1>1, <1>2, <1>6 DEF Own, Kept, Memory
<1>10. alive[p] => InFlight(d, file, others[p], p)
  <2> SUFFICES ASSUME alive[p] PROVE InFlight(d, file, others[p], p)
    OBVIOUS
  <2>1. InFlight(c, file, others[p], p)
    BY <1>1, <1>2 DEF Own
  <2>2. c.call = "read" => Reads(d, file, others[p])
    BY <1>6, <1>7, <2>1 DEF InFlight, Reads
  <2>3. c.call = "write" => Writes(d, file, others[p], p)
    BY <1>6, <1>7, <2>1 DEF InFlight, Writes
  <2>4. c.call = "getdirent" => Walks(d)
    BY <1>1, <1>6, <1>7, <2>1 DEF InFlight, Walks
  <2>. QED BY <1>6, <2>2, <2>3, <2>4 DEF InFlight
<1>11. Own(d, held, alive[p], torn, file, others[p], p) /\ d.at # "done"
       /\ d.call = cont[p].call
  BY <1>6, <1>8, <1>9, <1>10 DEF Own, c
<1>. QED BY <1>1, <1>3, <1>5, <1>11, ContKeeps, Zenon

\* A process is destroyed.
LEMMA DestroyStep ==
  ASSUME IInv, NEW p \in Proc, proc_destroy(p)
  PROVE  IInv'
<1>1. /\ ~ub /\ alive[p] /\ alive' = [alive EXCEPT ![p] = FALSE]
      /\ cont' = IF Busy(p) THEN cont ELSE [cont EXCEPT ![p] = IDLE]
      /\ others' = [others EXCEPT ![p] = {}]
      /\ torn' = (torn \/ cont[p].at \in Memory)
      /\ UNCHANGED <<file, calls, held, ub>>
  BY DEF proc_destroy, Memory
<1>2. Types
  BY DEF IInv
<1>3. cont' \in [Proc -> Cont]
  BY <1>1, <1>2, IdleFacts DEF Types
<1>4. Types'
  <2>1. alive' \in [Proc -> BOOLEAN] /\ torn' \in BOOLEAN
    BY <1>1, <1>2, Zenon DEF Types
  <2>2. others' \in [Proc -> SUBSET Int]
    BY <1>1, <1>2 DEF Types
  <2>. QED BY <1>1, <1>2, <1>3, <2>1, <2>2, Zenon DEF Types
<1>5. torn => torn'
  BY <1>1, Zenon
<1>6. ASSUME NEW q \in Proc
      PROVE  Own(cont'[q], held', alive'[q], torn', file', others'[q], q)
  <2>1. Own(cont[q], held, alive[q], torn, file, others[q], q)
    BY DEF IInv
  <2>2. CASE q = p
    <3>1. ~alive'[q]
      BY <1>1, <1>2, <2>2 DEF Types
    <3>2. \/ Busy(p) /\ cont'[q] = cont[q]
          \/ ~Busy(p) /\ cont'[q] = IDLE
      BY <1>1, <1>2, <2>2 DEF Types
    <3>3. Placed(cont'[q], file)
      <4>1. Placed(IDLE, file)
        BY <1>2, IdleFacts DEF Placed, Stage, Types
      <4>. QED BY <2>1, <3>2, <4>1 DEF Own
    <3>4. Kept(cont'[q], held, alive'[q], torn', q)
      <4>1. CASE Busy(p) /\ cont'[q] = cont[q]
        BY <1>1, <2>1, <2>2, <3>1, <4>1, Zenon DEF Own, Kept
      <4>2. CASE ~Busy(p) /\ cont'[q] = IDLE
        BY <1>1, <2>1, <2>2, <3>1, <4>2, IdleFacts DEF Own, Kept, Busy, Memory
      <4>. QED BY <3>2, <4>1, <4>2
    <3>5. Own(cont'[q], held, alive'[q], torn', file, others'[q], q)
      BY <3>1, <3>3, <3>4 DEF Own
    <3>. QED BY <1>1, <3>5, Zenon
  <2>3. CASE q # p
    <3>1. cont'[q] = cont[q] /\ others'[q] = others[q]
      BY <1>1, <1>2, <2>3 DEF Types
    <3>2. alive'[q] = alive[q]
      BY <1>1, <1>2, <2>3, Zenon DEF Types
    <3>3. Own(cont[q], held, alive[q], torn', file, others[q], q)
      BY <1>5, <2>1 DEF Own, Kept
    <3>. QED BY <1>1, <3>1, <3>2, <3>3, Zenon
  <2>. QED BY <2>2, <2>3
<1>. QED BY <1>1, <1>4, <1>6, Zenon DEF IInv

\* b are the n elements of s behind the a-th.
Part(b, s, a, n) == b \in Seq(Datum) /\ Len(b) = n /\ \A k \in 1 .. n : b[k] = s[a + k]

\* A part of a sequence, as SubSeq takes it.
LEMMA PartFacts ==
  ASSUME NEW s \in Seq(Datum), NEW a \in Nat, NEW n \in Nat, a + n <= Len(s)
  PROVE  Part(SubSeq(s, a + 1, a + n), s, a, n)
<1> DEFINE t == SubSeq(s, a + 1, a + n)
<1>1. t \in Seq(Datum)
  OBVIOUS
<1>2. Len(t) = n
  OBVIOUS
<1>3. ASSUME NEW k \in 1 .. n PROVE t[k] = s[a + k]
  BY <1>3, SMTT(30)
<1>. QED BY <1>1, <1>2, <1>3 DEF Part

\* d is c with an answer of the server: n, and the bytes b.
Replied(d, c, n, b) ==
    /\ d \in Cont /\ Same(d, c) /\ d.at = "reply" /\ d.len = n /\ d.data = b
    /\ d.cookie = c.cookie /\ d.pos = c.pos

\* The answer to a request.
LEMMA RepliedFacts ==
  ASSUME NEW c \in Cont, NEW n \in Nat, NEW b \in Seq(Datum), NEW d,
         d = [c EXCEPT !.at = "reply", !.len = n, !.data = b]
  PROVE  Replied(d, c, n, b)
<1>1. "reply" \in Where
  BY DEF Where
<1>. QED BY <1>1, Zenon DEF Cont, Same, Replied

\* What is said of every continuation still holds when it is answered.
LEMMA RepliedOwn ==
  ASSUME NEW c \in Cont, NEW d \in Cont, NEW h, NEW a \in BOOLEAN, NEW t, NEW f, NEW g, NEW o,
         NEW p, Own(c, h, a, t, f, o, p), c.at = "wire", Same(d, c), d.at = "reply",
         c.off <= Len(g), a => InFlight(d, g, o, p)
  PROVE  Own(d, h, a, t, g, o, p)
<1>1. d.call = c.call /\ d.off = c.off
  BY DEF Same
<1>2. Placed(d, g)
  BY <1>1 DEF Placed, Stage, Own
<1>3. Kept(d, h, a, t, p)
  BY <1>1 DEF Own, Kept, Memory
<1>. QED BY <1>2, <1>3 DEF Own

\* The server answers a read, a getdirent or a stat.
LEMMA AnswersStep ==
  ASSUME IInv, NEW p \in Proc, NEW n \in 0 .. MAXLEN, ServerExecutes(p, n),
         cont[p].call # "write"
  PROVE  IInv'
<1> DEFINE c == cont[p]
           b == Sends(c, n)
           d == [c EXCEPT !.at = "reply", !.len = n, !.data = b]
<1>1. /\ ~ub /\ c.at = "wire" /\ Executes(c, n) /\ cont' = [cont EXCEPT ![p] = d]
      /\ file' = file /\ UNCHANGED <<alive, calls, held, torn, ub>>
  BY DEF ServerExecutes
<1>2. others' = others
  <2>1. others \in [Proc -> SUBSET Int]
    BY DEF IInv, Types
  <2>. QED BY <2>1 DEF ServerExecutes
<1>3. /\ Own(c, held, alive[p], torn, file, others[p], p) /\ c \in Cont
      /\ file \in Seq(Datum) /\ alive[p] \in BOOLEAN
  BY DEF IInv, Types
<1> HIDE DEF c
<1>4. /\ n \in Nat /\ c.off \in Nat /\ c.len \in Nat /\ c.asked \in Int /\ c.cookie \in Nat
      /\ c.done \in Nat /\ c.want \in Nat /\ Names \in Nat /\ Len(file) \in Nat
  BY <1>3, ContFields, FileIOAssumption
<1>5. c.off <= Len(file) /\ c.call \in {"read", "getdirent", "stat"}
  BY <1>1, <1>3, ContFields DEF Own, Placed, Stage, Call, c
<1>6. c.call = "read" =>
          /\ n <= c.len /\ c.off + n <= Len(file)
          /\ n = 0 => c.len = 0 \/ Len(file) = c.off
          /\ b \in Seq(Datum) /\ Len(b) = n /\ \A k \in 1 .. n : b[k] = file[c.off + k]
  <2> SUFFICES ASSUME c.call = "read"
               PROVE  /\ n <= c.len /\ c.off + n <= Len(file)
                      /\ n = 0 => c.len = 0 \/ Len(file) = c.off
                      /\ b \in Seq(Datum) /\ Len(b) = n
                      /\ \A k \in 1 .. n : b[k] = file[c.off + k]
    OBVIOUS
  <2> DEFINE left == smaller(c.len, Len(file) - c.off)
  <2>1. n <= left /\ (n = 0 => left = 0)
    BY <1>1 DEF Executes
  <2>2. /\ n <= c.len /\ c.off + n <= Len(file)
        /\ n = 0 => c.len = 0 \/ Len(file) = c.off
    BY <1>4, <1>5, <2>1 DEF smaller
  <2>3. b = SubSeq(file, c.off + 1, c.off + n)
    BY DEF Sends
  <2> HIDE DEF b
  <2>4. Part(b, file, c.off, n)
    BY <1>3, <1>4, <2>2, <2>3, PartFacts
  <2>. QED BY <2>2, <2>4 DEF Part
<1>7. b \in Seq(Datum)
  <2>1. CASE c.call = "read"
    BY <1>6, <2>1
  <2>2. CASE c.call = "stat"
    BY <1>4, <2>2 DEF Sends, Datum
  <2>3. CASE c.call = "getdirent"
    BY <2>3 DEF Sends
  <2>. QED BY <1>5, <2>1, <2>2, <2>3
<1> HIDE DEF b
<1>8. d \in Cont /\ Same(d, c) /\ d.at = "reply" /\ d.len = n /\ d.data = b
      /\ d.cookie = c.cookie /\ d.pos = c.pos
  <2>1. d = [c EXCEPT !.at = "reply", !.len = n, !.data = b]
    OBVIOUS
  <2> HIDE DEF d
  <2>2. Replied(d, c, n, b)
    BY <1>3, <1>4, <1>7, <2>1, RepliedFacts, Zenon
  <2>. QED BY <2>2 DEF Replied
<1> HIDE DEF d
<1>9. /\ d.call = c.call /\ d.want = c.want /\ d.done = c.done /\ d.got = c.got
      /\ d.off = c.off /\ d.start = c.start /\ d.asked = c.asked /\ d.err = c.err
  BY <1>8, Zenon DEF Same
<1>10. alive[p] => InFlight(d, file, others[p], p)
  <2> SUFFICES ASSUME alive[p] PROVE InFlight(d, file, others[p], p)
    OBVIOUS
  <2>1. InFlight(c, file, others[p], p)
    BY <1>1, <1>3 DEF Own
  <2>2. ASSUME c.call = "read" PROVE Reads(d, file, others[p])
    <3>1. /\ c.off = c.start + c.done /\ c.done <= c.want /\ Len(c.got) = c.done
          /\ Copied(file, c.start, c.got, c.done, others[p])
          /\ c.done + c.len <= c.want /\ (c.len = 0 => c.done = c.want)
      BY <1>1, <2>1, <2>2 DEF InFlight, Reads
    <3>2. c.done + n <= c.want /\ c.off + n <= Len(file)
      BY <1>4, <1>6, <2>2, <3>1, SMTT(30)
    <3>3. Copied(file, c.off, b, n, others[p])
      BY <1>6, <2>2 DEF Copied
    <3>4. n = 0 => c.done = c.want \/ Len(file) = c.off
      BY <1>6, <2>2, <3>1
    <3>5. Len(b) = n
      BY <1>6, <2>2
    <3>. QED BY <1>8, <1>9, <3>1, <3>2, <3>3, <3>4, <3>5 DEF Reads
  <2>3. ASSUME c.call = "getdirent" PROVE Walks(d)
    <3>1. /\ c.done = 0 /\ c.cookie + c.pos = c.asked /\ c.cookie <= Names
          /\ c.pos < 0 => c.asked < 0
      BY <1>1, <2>1, <2>3 DEF InFlight, Walks
    <3>2. n <= Names - c.cookie
      BY <1>1, <2>3 DEF Executes
    <3>3. c.cookie + n <= Names
      BY <1>4, <3>2
    <3>. QED BY <1>8, <1>9, <3>1, <3>3 DEF Walks
  <2>. QED BY <1>5, <1>8, <1>9, <2>2, <2>3 DEF InFlight
<1>11. Own(d, held, alive[p], torn, file, others[p], p)
  BY <1>1, <1>3, <1>5, <1>8, <1>10, RepliedOwn
<1>12. d.at # "done" /\ d.call = cont[p].call
  BY <1>8, <1>9 DEF c
<1>. QED BY <1>1, <1>2, <1>8, <1>11, <1>12, ContKeeps, Zenon

\* What a file is after a write.
WrittenTo(g, f, off, d) ==
    /\ g \in Seq(Datum) /\ Len(f) <= Len(g) /\ off + Len(d) <= Len(g)
    /\ \A k \in 1 .. Len(d) : g[off + k] = d[k]
    /\ \A i \in 1 .. Len(f) : i \notin (off + 1) .. (off + Len(d)) => g[i] = f[i]

\* A write at an offset that is in the file leaves no hole.
LEMMA WrittenFacts ==
  ASSUME NEW f \in Seq(Datum), NEW off \in Nat, NEW d \in Seq(Datum), off <= Len(f)
  PROVE  WrittenTo(Written(f, off, d), f, off, d)
<1> DEFINE m == larger(Len(f), off + Len(d))
           e(i) == IF i \in (off + 1) .. (off + Len(d)) THEN d[i - off] ELSE f[i]
           g == [i \in 1 .. m |-> e(i)]
<1>1. m \in Nat /\ Len(f) <= m /\ off + Len(d) <= m
  BY DEF larger
<1>2. ASSUME NEW i \in 1 .. m PROVE e(i) \in Datum
  <2>1. CASE i \in (off + 1) .. (off + Len(d))
    <3>1. i - off \in 1 .. Len(d)
      BY <2>1
    <3>2. d[i - off] \in Datum
      BY <3>1
    <3>. QED BY <2>1, <3>2
  <2>2. CASE i \notin (off + 1) .. (off + Len(d))
    <3>1. i \in 1 .. Len(f)
      BY <1>1, <2>2 DEF larger
    <3>2. f[i] \in Datum
      BY <3>1
    <3>. QED BY <2>2, <3>2
  <2>. QED BY <2>1, <2>2
<1>3. \A i \in 1 .. m : g[i] = e(i)
  OBVIOUS
<1>4. \A k \in 1 .. Len(d) : g[off + k] = d[k]
  <2> SUFFICES ASSUME NEW k \in 1 .. Len(d) PROVE g[off + k] = d[k]
    OBVIOUS
  <2>1. /\ off + k \in 1 .. m /\ off + k \in (off + 1) .. (off + Len(d))
        /\ (off + k) - off = k
    BY <1>1
  <2> HIDE DEF m
  <2>2. g[off + k] = e(off + k)
    BY <1>3, <2>1
  <2>3. e(off + k) = d[k]
    BY <2>1
  <2>. QED BY <2>2, <2>3
<1>5. \A i \in 1 .. Len(f) : i \notin (off + 1) .. (off + Len(d)) => g[i] = f[i]
  <2> SUFFICES ASSUME NEW i \in 1 .. Len(f), i \notin (off + 1) .. (off + Len(d))
               PROVE  g[i] = f[i]
    BY Zenon
  <2>1. i \in 1 .. m
    BY <1>1
  <2>. QED BY <2>1
<1>6. g = Written(f, off, d)
  BY DEF Written
<1> HIDE DEF m
<1>7. g \in [1 .. m -> Datum]
  <2> HIDE DEF e
  <2>. QED BY <1>2
<1> HIDE DEF g
<1>8. g \in Seq(Datum) /\ Len(g) = m
  BY <1>1, <1>7
<1>. QED BY <1>1, <1>4, <1>5, <1>6, <1>8 DEF WrittenTo

\* The bytes another process writes are the only ones that change.
LEMMA StillCopied ==
  ASSUME NEW f \in Seq(Datum), NEW g, NEW off \in Nat, NEW d \in Seq(Datum),
         WrittenTo(g, f, off, d), NEW a \in Nat, NEW b, NEW n \in Nat, NEW o,
         a + n <= Len(f), Copied(f, a, b, n, o)
  PROVE  Copied(g, a, b, n, o \cup ((off + 1) .. (off + Len(d))))
<1> SUFFICES ASSUME NEW k \in 1 .. n, a + k \notin o,
                    a + k \notin (off + 1) .. (off + Len(d))
             PROVE  g[a + k] = b[k]
  BY DEF Copied
<1>1. a + k \in 1 .. Len(f)
  OBVIOUS
<1>2. g[a + k] = f[a + k]
  BY <1>1 DEF WrittenTo
<1>. QED BY <1>2 DEF Copied

\* The same for what a process has written.
LEMMA StillFromBuffer ==
  ASSUME NEW f \in Seq(Datum), NEW g, NEW off \in Nat, NEW d \in Seq(Datum),
         WrittenTo(g, f, off, d), NEW a \in Nat, NEW p, NEW j, NEW n \in Nat, NEW o,
         a + n <= Len(f), FromBuffer(f, a, p, j, n, o)
  PROVE  FromBuffer(g, a, p, j, n, o \cup ((off + 1) .. (off + Len(d))))
<1> SUFFICES ASSUME NEW k \in 1 .. n, a + k \notin o,
                    a + k \notin (off + 1) .. (off + Len(d))
             PROVE  g[a + k] = Byte(p, j + k)
  BY DEF FromBuffer
<1>1. a + k \in 1 .. Len(f)
  OBVIOUS
<1>2. g[a + k] = f[a + k]
  BY <1>1 DEF WrittenTo
<1>. QED BY <1>2 DEF FromBuffer

\* A write of another process does not disturb a call.
LEMMA OtherWrites ==
  ASSUME NEW f \in Seq(Datum), NEW g, NEW off \in Nat, NEW d \in Seq(Datum),
         WrittenTo(g, f, off, d), Len(d) > 0, NEW c \in Cont, NEW o, NEW p, c.off <= Len(f),
         InFlight(c, f, o, p)
  PROVE  InFlight(c, g, o \cup ((off + 1) .. (off + Len(d))), p)
<1> DEFINE x == o \cup ((off + 1) .. (off + Len(d)))
<1>1. /\ c.off \in Nat /\ c.start \in Nat /\ c.done \in Nat /\ c.want \in Nat /\ c.len \in Nat
      /\ c.data \in Seq(Datum) /\ c.got \in Seq(Datum)
  BY ContFields
<1>2. Len(f) <= Len(g) /\ Len(f) \in Nat /\ Len(g) \in Nat
  BY DEF WrittenTo
<1>3. x # {}
  <2>1. Len(d) \in Nat
    OBVIOUS
  <2>2. off + 1 \in (off + 1) .. (off + Len(d))
    BY <2>1
  <2>3. off + 1 \in x
    BY <2>2, Zenon
  <2>. QED BY <2>3, Zenon
<1> HIDE DEF x
<1>4. ASSUME c.call = "read" PROVE Reads(c, g, x)
  <2>1. Reads(c, f, o)
    BY <1>4 DEF InFlight
  <2>2. c.start + c.done <= Len(f)
    BY <1>1, <2>1 DEF Reads
  <2>3. Copied(g, c.start, c.got, c.done, x)
    BY <1>1, <2>1, <2>2, StillCopied, SMTT(30) DEF Reads, x
  <2>4. ASSUME c.at \in {"reply", "copyout"}, ~c.err
        PROVE  /\ c.done + Len(c.data) <= c.want /\ c.off + Len(c.data) <= Len(g)
               /\ Copied(g, c.off, c.data, Len(c.data), x)
    <3>1. /\ c.done + Len(c.data) <= c.want /\ c.off + Len(c.data) <= Len(f)
          /\ Copied(f, c.off, c.data, Len(c.data), o)
      BY <2>1, <2>4 DEF Reads
    <3>2. Len(c.data) \in Nat
      BY <1>1
    <3>3. Copied(g, c.off, c.data, Len(c.data), x)
      BY <1>1, <3>1, <3>2, StillCopied, SMTT(30) DEF x
    <3>4. c.off + Len(c.data) <= Len(g)
      BY <1>1, <1>2, <3>1, <3>2, SMTT(30)
    <3>. QED BY <3>1, <3>3, <3>4
  <2>. QED BY <1>3, <2>1, <2>3, <2>4 DEF Reads
<1>5. ASSUME c.call = "write" PROVE Writes(c, g, x, p)
  <2>1. Writes(c, f, o, p)
    BY <1>5 DEF InFlight
  <2>2. c.start + c.done <= Len(f)
    BY <1>1, <2>1 DEF Writes
  <2>3. FromBuffer(g, c.start, p, 0, c.done, x)
    BY <1>1, <2>1, <2>2, StillFromBuffer, SMTT(30) DEF Writes, x
  <2>4. ASSUME c.at = "reply", ~c.err
        PROVE  /\ c.done + c.len <= c.want /\ c.off + c.len <= Len(g)
               /\ FromBuffer(g, c.off, p, c.done, c.len, x)
    <3>1. /\ c.done + c.len <= c.want /\ c.off + c.len <= Len(f)
          /\ FromBuffer(f, c.off, p, c.done, c.len, o)
      BY <2>1, <2>4 DEF Writes
    <3>2. FromBuffer(g, c.off, p, c.done, c.len, x)
      BY <1>1, <3>1, StillFromBuffer, SMTT(30) DEF x
    <3>3. c.off + c.len <= Len(g)
      BY <1>1, <1>2, <3>1, SMTT(30)
    <3>. QED BY <3>1, <3>2, <3>3
  <2>. QED BY <2>1, <2>3, <2>4 DEF Writes
<1>6. InFlight(c, g, x, p)
  BY <1>4, <1>5 DEF InFlight
<1>. QED BY <1>6 DEF x

\* Nor does the write disturb what its own call has written before.
LEMMA OwnWrites ==
  ASSUME NEW f \in Seq(Datum), NEW g, NEW c \in Cont, NEW d \in Cont, NEW n \in Nat, NEW b,
         NEW o, NEW p, b \in Seq(Datum), Len(b) = n, n <= c.len, c.off <= Len(f),
         WrittenTo(g, f, c.off, b), \A k \in 1 .. n : b[k] = c.data[k],
         c.call = "write", c.at = "wire", c.done + c.len <= c.want, InFlight(c, f, o, p),
         Same(d, c), d.at = "reply", d.len = n
  PROVE  InFlight(d, g, o, p)
<1>1. /\ c.off \in Nat /\ c.start \in Nat /\ c.done \in Nat /\ c.want \in Nat /\ c.len \in Nat
  BY ContFields, Zenon
<1>2. /\ c.off = c.start + c.done /\ c.done <= c.want
      /\ FromBuffer(f, c.start, p, 0, c.done, o)
      /\ \A k \in 1 .. c.len : c.data[k] = Byte(p, c.done + k)
  BY DEF InFlight, Writes
<1>3. /\ d.call = "write" /\ d.want = c.want /\ d.done = c.done /\ d.off = c.off
      /\ d.start = c.start
  BY DEF Same
<1>4. FromBuffer(g, c.start, p, 0, c.done, o)
  <2> SUFFICES ASSUME NEW k \in 1 .. c.done, c.start + k \notin o
               PROVE  g[c.start + k] = Byte(p, 0 + k)
    BY DEF FromBuffer
  <2>1. /\ c.start + k \in 1 .. Len(f)
        /\ c.start + k \notin (c.off + 1) .. (c.off + Len(b))
    <3> DEFINE i == c.start + k
    <3>1. i \in Nat /\ 1 <= i /\ i <= c.off /\ Len(f) \in Nat
      BY <1>1, <1>2, SMTT(30)
    <3> HIDE DEF i
    <3>2. i \in 1 .. Len(f) /\ i \notin (c.off + 1) .. (c.off + Len(b))
      BY <1>1, <3>1
    <3>. QED BY <3>2 DEF i
  <2>2. g[c.start + k] = f[c.start + k]
    BY <2>1 DEF WrittenTo
  <2>. QED BY <1>2, <2>2 DEF FromBuffer
<1>5. FromBuffer(g, c.off, p, c.done, n, o)
  <2> SUFFICES ASSUME NEW k \in 1 .. n
               PROVE  g[c.off + k] = Byte(p, c.done + k)
    BY DEF FromBuffer
  <2>1. g[c.off + k] = b[k]
    BY DEF WrittenTo
  <2>2. k \in 1 .. c.len
    BY <1>1
  <2>. QED BY <1>2, <2>1, <2>2
<1>6. c.off + n <= Len(g) /\ c.done + n <= c.want
  BY <1>1 DEF WrittenTo
<1>7. Writes(d, g, o, p)
  BY <1>2, <1>3, <1>4, <1>5, <1>6 DEF Writes
<1>. QED BY <1>3, <1>7 DEF InFlight

\* The server executes a write, also of a process that is gone.
LEMMA WritesStep ==
  ASSUME IInv, NEW p \in Proc, NEW n \in 0 .. MAXLEN, ServerExecutes(p, n),
         cont[p].call = "write"
  PROVE  IInv'
<1> DEFINE c == cont[p]
           b == SubSeq(c.data, 1, n)
           g == Written(file, c.off, b)
           d == [c EXCEPT !.at = "reply", !.len = n, !.data = <<>>]
           new == (c.off + 1) .. (c.off + n)
<1>1. /\ ~ub /\ c.at = "wire" /\ n = smaller(c.len, PACKET) /\ cont' = [cont EXCEPT ![p] = d]
      /\ file' = g /\ UNCHANGED <<alive, calls, held, torn, ub>>
      /\ others' = [q \in Proc |-> IF q # p /\ Busy(q) /\ alive[q]
                                   THEN others[q] \cup new ELSE others[q]]
  BY DEF ServerExecutes, Executes, Sends
<1>2. /\ Own(c, held, alive[p], torn, file, others[p], p) /\ c \in Cont
      /\ file \in Seq(Datum) /\ alive[p] \in BOOLEAN /\ Types
  BY DEF IInv, Types
<1>3. c.call = "write"
  OBVIOUS
<1> HIDE DEF c
<1>4. n \in Nat /\ c.off \in Nat /\ c.len \in Nat /\ c.data \in Seq(Datum)
  BY <1>2, ContFields
<1>5. c.off <= Len(file) /\ c.len > 0 /\ Len(c.data) = c.len /\ c.done + c.len <= c.want
  BY <1>1, <1>2, <1>3 DEF Own, Placed
<1>6. n > 0 /\ n <= c.len
  BY <1>1, <1>4, <1>5, FileIOAssumption, SMTT(30) DEF smaller
<1>7. b \in Seq(Datum) /\ Len(b) = n /\ \A k \in 1 .. n : b[k] = c.data[k]
  <2>1. b = SubSeq(c.data, 0 + 1, 0 + n)
    BY <1>4
  <2> HIDE DEF b
  <2>2. 0 + n <= Len(c.data) /\ 0 \in Nat
    BY <1>4, <1>5, <1>6
  <2>3. Part(b, c.data, 0, n)
    BY <1>4, <2>1, <2>2, PartFacts
  <2>. QED BY <1>4, <2>3 DEF Part
<1> HIDE DEF b
<1>8. WrittenTo(g, file, c.off, b)
  BY <1>2, <1>4, <1>5, <1>7, WrittenFacts
<1> HIDE DEF g
<1>9. d \in Cont /\ Same(d, c) /\ d.at = "reply" /\ d.len = n
  <2>1. d = [c EXCEPT !.at = "reply", !.len = n, !.data = <<>>] /\ <<>> \in Seq(Datum)
    OBVIOUS
  <2> HIDE DEF d
  <2>2. Replied(d, c, n, <<>>)
    BY <1>2, <1>4, <2>1, RepliedFacts, Zenon
  <2>. QED BY <2>2 DEF Replied
<1> HIDE DEF d
<1>10. g \in Seq(Datum) /\ Len(file) <= Len(g) /\ Len(file) \in Nat /\ Len(g) \in Nat
  BY <1>2, <1>8 DEF WrittenTo
<1>11. new \subseteq Int
  BY <1>4
<1> HIDE DEF new
<1>12. Types'
  <2>1. cont' \in [Proc -> Cont]
    BY <1>1, <1>2, <1>9, Zenon DEF Types
  <2>2. others' \in [Proc -> SUBSET Int]
    BY <1>1, <1>2, <1>11, Zenon DEF Types
  <2>. QED BY <1>1, <1>2, <1>10, <2>1, <2>2, Zenon DEF Types
<1>13. ASSUME NEW q \in Proc
       PROVE  Own(cont'[q], held', alive'[q], torn', file', others'[q], q)
  <2>1. Own(cont[q], held, alive[q], torn, file, others[q], q) /\ cont[q] \in Cont
    BY <1>2 DEF IInv, Types
  <2>2. CASE q = p
    <3>1. cont'[q] = d /\ others'[q] = others[p]
      BY <1>1, <1>2, <2>2 DEF Types
    <3>2. c.off <= Len(g)
      BY <1>4, <1>5, <1>10
    <3>3. alive[p] => InFlight(c, file, others[p], p)
      BY <1>1, <1>2 DEF Own
    <3>4. alive[p] => InFlight(d, g, others[p], p)
      BY <1>1, <1>2, <1>3, <1>4, <1>5, <1>6, <1>7, <1>8, <1>9, <3>3, OwnWrites, Zenon
    <3>5. Own(d, held, alive[p], torn, g, others[p], p)
      BY <1>1, <1>2, <1>9, <3>2, <3>4, RepliedOwn, Zenon
    <3>. QED BY <1>1, <2>2, <3>1, <3>5, Zenon
  <2>3. CASE q # p
    <3>1. cont'[q] = cont[q]
      BY <1>1, <1>2, <2>3 DEF Types
    <3>2. cont[q].off \in Nat /\ cont[q].off <= Len(file)
      BY <2>1, ContFields DEF Own, Placed
    <3>3. Placed(cont[q], g)
      <4>1. cont[q].off <= Len(g)
        BY <1>10, <3>2
      <4>. QED BY <2>1, <4>1 DEF Own, Placed
    <3>4. ASSUME alive[q], cont[q].at # "done" PROVE InFlight(cont[q], g, others'[q], q)
      <4>1. others'[q] = others[q] \cup new
        BY <1>1, <2>3, <3>4 DEF Busy
      <4>2. InFlight(cont[q], file, others[q], q)
        BY <2>1, <3>4 DEF Own
      <4>3. InFlight(cont[q], g, others[q] \cup new, q)
        BY <1>2, <1>4, <1>6, <1>7, <1>8, <2>1, <3>2, <4>2, OtherWrites, Zenon DEF new
      <4>. QED BY <4>1, <4>3, Zenon
    <3>5. Own(cont[q], held, alive[q], torn, g, others'[q], q)
      BY <2>1, <3>3, <3>4 DEF Own
    <3>. QED BY <1>1, <3>1, <3>5, Zenon
  <2>. QED BY <2>2, <2>3
<1>. QED BY <1>1, <1>12, <1>13, Zenon DEF IInv

-----------------------------------------------------------------------------
(* The theorems.                                                           *)

\* Nothing is under way at first.
LEMMA InitHolds == Init => IInv
<1> SUFFICES ASSUME Init PROVE IInv
  OBVIOUS
<1>1. Content \in Seq(Datum)
  <2>1. \A i \in 1 .. Len(Content) : Content[i] \in Datum
    BY DEF Datum
  <2>2. [i \in 1 .. Len(Content) |-> Content[i]] \in [1 .. Len(Content) -> Datum]
    BY <2>1
  <2>3. Content \in [1 .. Len(Content) -> Datum]
    BY <2>2, FileIOAssumption
  <2>. QED BY <2>3, FileIOAssumption
<1>2. Types
  BY <1>1, IdleFacts, Zenon DEF Init, Types
<1>3. ASSUME NEW p \in Proc PROVE Own(cont[p], held, alive[p], torn, file, others[p], p)
  <2>1. cont[p] = IDLE /\ alive[p] \in BOOLEAN /\ held = {} /\ Len(file) \in Nat
    BY <1>2 DEF Init, Types
  <2>2. cont[p].off <= Len(file)
    BY <2>1, IdleFacts
  <2>. QED BY <2>1, <2>2, IdleFacts, OverOwn, Zenon
<1>. QED BY <1>2, <1>3, Zenon DEF IInv, Init

\* In a step of p that is none of the server, a handler runs.
Handled(p) ==
    \/ \E ok \in BOOLEAN : serv_sys_write_get_kbuf(p, ok) \/ CopyEnds(p, ok)
    \/ RequestRefused(p) \/ AnswerArrives(p)

\* It leaves a state in order, and nothing else changes.
LEMMA HandledGood ==
  ASSUME IInv, NEW p \in Proc, Handled(p)
  PROVE  /\ \E u : Become(p, u) /\ Good(u, p)
         /\ UNCHANGED <<alive, file, calls, others, torn>>
<1>1. ASSUME NEW ok \in BOOLEAN, serv_sys_write_get_kbuf(p, ok)
      PROVE  /\ \E u : Become(p, u) /\ Good(u, p)
             /\ UNCHANGED <<alive, file, calls, others, torn>>
  BY <1>1, KbufGood, Zenon DEF serv_sys_write_get_kbuf
<1>2. ASSUME NEW ok \in BOOLEAN, CopyEnds(p, ok)
      PROVE  /\ \E u : Become(p, u) /\ Good(u, p)
             /\ UNCHANGED <<alive, file, calls, others, torn>>
  BY <1>2, CopyEndsGood DEF CopyEnds
<1>3. CASE RequestRefused(p)
  BY <1>3, RefusedGood, Zenon DEF RequestRefused
<1>4. CASE AnswerArrives(p)
  BY <1>4, ArrivesGood DEF AnswerArrives
<1>. QED BY <1>1, <1>2, <1>3, <1>4 DEF Handled

\* Every step keeps the invariant.
LEMMA StepHolds == IInv /\ [Next]_vars => IInv'
<1> SUFFICES ASSUME IInv, [Next]_vars PROVE IInv'
  OBVIOUS
<1>1. ASSUME NEW p \in Proc, Handled(p) PROVE IInv'
  <2>1. PICK u : Become(p, u) /\ Good(u, p)
    BY <1>1, HandledGood
  <2>2. UNCHANGED <<alive, file, calls, others, torn>>
    BY <1>1, HandledGood
  <2>. QED BY <2>1, <2>2, BecomeKeeps
<1>2. ASSUME NEW p \in Proc, NEW n \in 0 .. MAXLEN, ServerExecutes(p, n) PROVE IInv'
  BY <1>2, AnswersStep, WritesStep
<1>3. ASSUME NEW p \in Proc, NEW n \in Want, serv_sys_read(p, n) PROVE IInv'
  BY <1>3, ReadStep
<1>4. ASSUME NEW p \in Proc, NEW n \in Want, NEW buf \in 0 .. (PAGE_SIZE - 1),
             serv_sys_write(p, buf, n)
      PROVE  IInv'
  BY <1>4, WriteStep
<1>5. ASSUME NEW p \in Proc, NEW pos \in -1 .. (Names + 2), serv_sys_getdirent(p, pos) PROVE IInv'
  BY <1>5, GetdirentStep
<1>6. ASSUME NEW p \in Proc, NEW which \in {0, 1}, serv_sys_stat(p, which) PROVE IInv'
  BY <1>6, StatStep
<1>7. ASSUME NEW p \in Proc, StatForgotten(p) \/ ServerFails(p) \/ proc_destroy(p) PROVE IInv'
  BY <1>7, ForgottenStep, ServerFailsStep, DestroyStep
<1>9. ASSUME NEW p \in Proc, ReadsOutside(p) PROVE IInv'
  <2>1. /\ cont' = cont /\ alive' = alive /\ file' = file /\ held' = held /\ others' = others
        /\ torn' = torn /\ ub' = TRUE
        /\ cont[p].call = "getdirent" /\ cont[p].pos < 0 /\ alive[p] /\ cont[p].at = "reply"
    BY <1>9 DEF ReadsOutside
  <2>2. Own(cont[p], held, alive[p], torn, file, others[p], p)
    BY DEF IInv
  <2>3. cont[p].asked < 0
    BY <2>1, <2>2 DEF Own, InFlight, Walks
  <2>4. Types'
    BY <2>1, Zenon DEF IInv, Types
  <2>. QED BY <2>1, <2>3, <2>4, Zenon DEF IInv
<1>8. CASE UNCHANGED vars
  BY <1>8 DEF vars, IInv, Types
<1>. QED BY <1>1, <1>2, <1>3, <1>4, <1>5, <1>6, <1>7, <1>8, <1>9 DEF Next, Step, Handled

\* The invariant holds always.
LEMMA AlwaysIInv == Spec => []IInv
<1>. QED BY InitHolds, StepHolds, PTL DEF Spec

\* A call that is answered has moved what it says: only a handler answers.
LEMMA AnsweredEnds ==
  ASSUME IInv, Next, NEW p \in Proc, alive[p], Busy(p), cont'[p].at = "done"
  PROVE  cont'[p].call = cont[p].call /\ Ends(cont'[p], cont'[p].err, file, others[p], p)
<1>1. cont \in [Proc -> Cont]
  BY DEF IInv, Types
<1>2. ASSUME NEW q \in Proc, NEW d, cont' = [cont EXCEPT ![q] = d], d.at # "done" PROVE FALSE
  <2>1. CASE q = p
    <3>1. cont'[p] = d
      BY <1>1, <1>2, <2>1
    <3>. QED BY <1>2, <3>1
  <2>2. CASE q # p
    <3>1. cont'[p] = cont[p]
      BY <1>1, <1>2, <2>2
    <3>. QED BY <3>1 DEF Busy
  <2>. QED BY <2>1, <2>2
<1>3. ASSUME NEW q \in Proc, NEW d, cont' = [cont EXCEPT ![q] = d], q # p PROVE FALSE
  <2>1. cont'[p] = cont[p]
    BY <1>1, <1>3
  <2>. QED BY <2>1 DEF Busy
<1>4. ASSUME NEW q \in Proc, Handled(q)
      PROVE  cont'[p].call = cont[p].call /\ Ends(cont'[p], cont'[p].err, file, others[p], p)
  <2>1. PICK u : Become(q, u) /\ Good(u, q)
    BY <1>4, HandledGood
  <2>2. cont' = [cont EXCEPT ![q] = u.c]
    BY <2>1 DEF Become
  <2>3. q = p
    BY <1>3, <2>2, Zenon
  <2>4. cont'[p] = u.c
    BY <1>1, <2>2, <2>3
  <2>5. Ends(u.c, u.c.err, file, others[p], p) /\ u.c.call = cont[p].call
    BY <2>1, <2>3, <2>4 DEF Good, Mine
  <2>. QED BY <2>4, <2>5, Zenon
<1>5. ASSUME NEW q \in Proc, NEW new, Begins(q, new) PROVE FALSE
  <2>1. cont' = [cont EXCEPT ![q] = new] /\ ~Busy(q)
    BY <1>5 DEF Begins
  <2>. QED BY <1>3, <2>1, Zenon
<1>6. ASSUME NEW q \in Proc, NEW n, ServerExecutes(q, n) PROVE FALSE
  <2> DEFINE d == [cont[q] EXCEPT !.at = "reply", !.len = n, !.data = Sends(cont[q], n)]
  <2>1. cont' = [cont EXCEPT ![q] = d]
    BY <1>6 DEF ServerExecutes
  <2>2. d.at # "done"
    BY <1>1 DEF Cont
  <2> HIDE DEF d
  <2>. QED BY <1>2, <2>1, <2>2, Zenon
<1>7. ASSUME NEW q \in Proc, ServerFails(q) PROVE FALSE
  <2> DEFINE d == [cont[q] EXCEPT !.at = "reply", !.err = TRUE, !.data = <<>>, !.len = 0]
  <2>1. cont' = [cont EXCEPT ![q] = d]
    BY <1>1, <1>7 DEF ServerFails
  <2>2. d.at # "done"
    BY <1>1 DEF Cont
  <2> HIDE DEF d
  <2>. QED BY <1>2, <2>1, <2>2, Zenon
<1>8. ASSUME NEW q \in Proc, StatForgotten(q) PROVE FALSE
  <2> DEFINE d == [cont[q] EXCEPT !.at = "forgotten"]
  <2>1. cont' = [cont EXCEPT ![q] = d]
    BY <1>8 DEF StatForgotten
  <2>2. d.at # "done"
    BY <1>1 DEF Cont
  <2> HIDE DEF d
  <2>. QED BY <1>2, <2>1, <2>2, Zenon
<1>9. ASSUME NEW q \in Proc, proc_destroy(q) PROVE FALSE
  <2>1. CASE Busy(q)
    <3>1. cont' = cont
      BY <1>9, <2>1 DEF proc_destroy
    <3>. QED BY <3>1 DEF Busy
  <2>2. CASE ~Busy(q)
    <3>1. cont' = [cont EXCEPT ![q] = IDLE] /\ q # p
      BY <1>9, <2>2 DEF proc_destroy
    <3>. QED BY <1>3, <3>1, Zenon
  <2>. QED BY <2>1, <2>2
<1>10. ASSUME NEW q \in Proc,
              \/ \E n \in Want : serv_sys_read(q, n) \/ \E buf \in 0 .. (PAGE_SIZE - 1) :
                                     serv_sys_write(q, buf, n)
              \/ \E pos \in -1 .. (Names + 2) : serv_sys_getdirent(q, pos)
              \/ \E which \in {0, 1} : serv_sys_stat(q, which)
       PROVE  FALSE
  BY <1>5, <1>10, Zenon DEF serv_sys_read, serv_sys_write, serv_sys_getdirent, serv_sys_stat
<1>11. ASSUME NEW q \in Proc, ReadsOutside(q) PROVE FALSE
  BY <1>11 DEF ReadsOutside, Busy
<1>. QED BY <1>4, <1>6, <1>7, <1>8, <1>9, <1>10, <1>11, Zenon DEF Next, Step, Handled

\* Reads and writes move the right bytes, all of them and each once, however pages, packets
\* and answers cut them (serv_sys_read_end, _nfs_dev_read_end, serv_sys_write_copyin), for
\* every size of them and any number of processes on the same file.
THEOREM TransfersStayExact == Spec => TransfersExact
<1>1. ASSUME IInv, Next, NEW p \in Proc, Returns(p, "read") \/ Returns(p, "write")
      PROVE  LET c == cont'[p]
             IN  /\ c.off = c.start + c.done
                 /\ c.call = "read" => Len(c.got) = c.done
                 /\ \A k \in 1 .. c.done : c.start + k \notin others[p] =>
                        file[c.start + k] = IF c.call = "read" THEN c.got[k] ELSE Byte(p, k)
                 /\ ~c.err /\ c.call = "write" => c.done = c.want
                 /\ ~c.err /\ c.call = "read" /\ others[p] = {} =>
                        c.done = smaller(c.want, Len(file) - c.start)
  <2> DEFINE c == cont'[p]
  <2>1. cont[p].call \in {"read", "write"} /\ Busy(p) /\ c.at = "done" /\ alive[p]
    BY <1>1 DEF Returns
  <2>2. c.call \in {"read", "write"} /\ Ends(c, c.err, file, others[p], p)
    BY <1>1, <2>1, AnsweredEnds
  <2>3. c.done \in Nat
    <3>1. IInv'
      BY <1>1, StepHolds
    <3>2. c \in Cont
      BY <3>1 DEF IInv, Types
    <3>. QED BY <3>2, ContFields, Zenon
  <2> HIDE DEF c
  <2>4. CASE c.call = "read"
    <3>1. /\ c.off = c.start + c.done /\ Len(c.got) = c.done
          /\ Copied(file, c.start, c.got, c.done, others[p])
          /\ ~c.err /\ others[p] = {} => c.done = smaller(c.want, Len(file) - c.start)
      BY <2>2, <2>4, Zenon DEF Ends
    <3>2. \A k \in 1 .. c.done : c.start + k \notin others[p] =>
              file[c.start + k] = IF c.call = "read" THEN c.got[k] ELSE Byte(p, k)
      BY <2>4, <3>1, Zenon DEF Copied
    <3>. QED BY <2>4, <3>1, <3>2 DEF c
  <2>5. CASE c.call = "write"
    <3>1. /\ c.off = c.start + c.done /\ FromBuffer(file, c.start, p, 0, c.done, others[p])
          /\ ~c.err => c.done = c.want
      BY <2>2, <2>5 DEF Ends
    <3>2. ASSUME NEW k \in 1 .. c.done, c.start + k \notin others[p]
          PROVE  file[c.start + k] = Byte(p, k)
      <4>1. 0 + k = k
        BY <2>3
      <4>2. file[c.start + k] = Byte(p, 0 + k)
        BY <3>1, <3>2, Zenon DEF FromBuffer
      <4>. QED BY <4>1, <4>2
    <3>. QED BY <2>5, <3>1, <3>2 DEF c
  <2>. QED BY <2>2, <2>4, <2>5
<1>2. IInv /\ [Next]_vars =>
      [\A p \in Proc : (Returns(p, "read") \/ Returns(p, "write")) =>
         LET c == cont'[p]
         IN  /\ c.off = c.start + c.done
             /\ c.call = "read" => Len(c.got) = c.done
             /\ \A k \in 1 .. c.done : c.start + k \notin others[p] =>
                    file[c.start + k] = IF c.call = "read" THEN c.got[k] ELSE Byte(p, k)
             /\ ~c.err /\ c.call = "write" => c.done = c.want
             /\ ~c.err /\ c.call = "read" /\ others[p] = {} =>
                    c.done = smaller(c.want, Len(file) - c.start)]_vars
  BY <1>1
<1>. QED BY <1>2, AlwaysIInv, PTL DEF Spec, TransfersExact

\* getdirent gives the name at the position asked for, whatever number of answers the
\* directory takes (_nfs_dev_getdirent_handler), for every directory and every position that
\* is not negative.
THEOREM EntriesByPosition == Spec => EntryByPosition
<1>1. ASSUME IInv, Next, NEW p \in Proc, Returns(p, "getdirent"), cont'[p].done > 0,
             cont'[p].asked >= 0
      PROVE  cont'[p].asked < Names /\ cont'[p].got = <<cont'[p].asked>>
  <2>1. cont[p].call = "getdirent" /\ Busy(p) /\ cont'[p].at = "done" /\ alive[p]
    BY <1>1 DEF Returns
  <2>2. cont'[p].call = "getdirent" /\ Ends(cont'[p], cont'[p].err, file, others[p], p)
    BY <1>1, <2>1, AnsweredEnds
  <2>. QED BY <1>1, <2>2 DEF Ends
<1>2. IInv /\ [Next]_vars =>
      [\A p \in Proc : Returns(p, "getdirent") /\ cont'[p].done > 0 /\ cont'[p].asked >= 0 =>
           cont'[p].asked < Names /\ cont'[p].got = <<cont'[p].asked>>]_vars
  BY <1>1
<1>. QED BY <1>2, AlwaysIInv, PTL DEF Spec, EntryByPosition

\* An answer to a process that is gone touches nothing of it, unless the process was destroyed
\* while its call waited for memory; SOS faults on nothing else but a negative position of
\* getdirent; and every call gives its kernel buffers back, but for the
\* path of a stat whose process is gone (is_proc_alive in nfs_dev.c, serv_sys_write_end,
\* serv_sys_stat_end).
THEOREM LateAnswersStayHarmless == Spec => []LateAnswersHarmless
<1>1. IInv => LateAnswersHarmless
  <2> SUFFICES ASSUME IInv PROVE LateAnswersHarmless
    OBVIOUS
  <2>1. ASSUME NEW h \in held PROVE Busy(h[1]) \/ (h[2] = "heap" /\ ~alive[h[1]])
    <3>1. PICK p \in Proc, b \in {"frame", "heap"} : h = <<p, b>>
      BY DEF IInv, Types
    <3>2. Kept(cont[p], held, alive[p], torn, p)
      BY DEF IInv, Own
    <3>. QED BY <3>1, <3>2 DEF Kept, Busy
  <2>. QED BY <2>1 DEF IInv, LateAnswersHarmless
<1>. QED BY <1>1, AlwaysIInv, PTL
=============================================================================
