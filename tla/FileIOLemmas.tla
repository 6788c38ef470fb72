---------------------------- MODULE FileIOLemmas ----------------------------
(***************************************************************************)
(* What the handlers of read, write, getdirent and stat do to the state    *)
(* they work on, for the proofs of module FileIOProofs.                    *)
(*                                                                         *)
(* The invariant says of each call under way what it has moved and what it *)
(* is about to move.  The bytes behind the offset at which it began are    *)
(* those it has moved, but for the ones another process wrote meanwhile;   *)
(* the bytes in its buffer are the next ones.  A walk through the          *)
(* directory is as far behind the position asked for as pos says.  Of a    *)
(* call whose process is gone it says less: what a write still sends, that *)
(* the call does not wait for memory unless torn says so, and which        *)
(* buffers it may hold.                                                    *)
(***************************************************************************)
EXTENDS FileIO, TLAPS

Datum == {Content[i] : i \in 1 .. Len(Content)} \cup (Proc \X Nat) \cup Int
Call  == {"none", "read", "write", "getdirent", "stat"}
Where == {"kbuf", "copyin", "copyout", "wire", "reply", "done", "forgotten"}
Cont  == [call : Call, at : Where, buf : Nat, want : Nat, done : Nat, len : Nat,
          data : Seq(Datum), got : Seq(Datum), off : Nat, start : Nat, pos : Int,
          cookie : Nat, asked : Int, err : BOOLEAN]
Memory == {"kbuf", "copyin", "copyout"}

\* Where each call can be.
Stage(c) ==
    /\ c.call = "none" => c.at = "done"
    /\ c.call \in {"read", "getdirent"} => c.at \in {"wire", "reply", "copyout", "done"}
    /\ c.call = "write" => c.at \in {"kbuf", "copyin", "wire", "reply", "done"}
    /\ c.call = "stat" => c.at # "kbuf"

\* Of every continuation: the offset is in the file, and a write has the bytes it sends.
Placed(c, f) ==
    /\ c \in Cont /\ Stage(c) /\ c.off <= Len(f)
    /\ c.call = "write" /\ c.at \in {"copyin", "wire"} =>
           c.len > 0 /\ Len(c.data) = c.len /\ c.done + c.len <= c.want

\* f has the bytes d behind offset off, but where others wrote.
Copied(f, off, d, n, o) == \A k \in 1 .. n : off + k \notin o => f[off + k] = d[k]
\* f has n bytes of the buffer of p, from its k-th on.
FromBuffer(f, off, p, j, n, o) ==
    \A k \in 1 .. n : off + k \notin o => f[off + k] = Byte(p, j + k)

Reads(c, f, o) ==
    /\ c.off = c.start + c.done /\ c.done <= c.want /\ Len(c.got) = c.done
    /\ Copied(f, c.start, c.got, c.done, o)
    /\ c.at = "wire" => c.done + c.len <= c.want /\ (c.len = 0 => c.done = c.want)
    /\ c.at \in {"reply", "copyout"} /\ ~c.err =>
           /\ c.done + Len(c.data) <= c.want /\ c.off + Len(c.data) <= Len(f)
           /\ Copied(f, c.off, c.data, Len(c.data), o)
           /\ Len(c.data) = 0 /\ o = {} => c.done = c.want \/ Len(f) = c.off

Writes(c, f, o, p) ==
    /\ c.off = c.start + c.done /\ c.done <= c.want
    /\ FromBuffer(f, c.start, p, 0, c.done, o)
    /\ c.at \in {"copyin", "wire"} => \A k \in 1 .. c.len : c.data[k] = Byte(p, c.done + k)
    /\ c.at = "reply" /\ ~c.err =>
           /\ c.done + c.len <= c.want /\ c.off + c.len <= Len(f)
           /\ FromBuffer(f, c.off, p, c.done, c.len, o)

Walks(c) ==
    /\ c.done = 0
    /\ c.at \in {"wire", "reply"} =>
           c.cookie + c.pos = c.asked /\ c.cookie <= Names /\ (c.pos < 0 => c.asked < 0)
    /\ c.at = "reply" /\ ~c.err => c.cookie + c.len <= Names
    /\ c.at = "copyout" /\ c.asked >= 0 => c.data = <<c.asked>> /\ c.asked < Names

\* Of a call under way, of a process that is there.
InFlight(c, f, o, p) ==
    /\ c.err => c.at = "reply"
    /\ c.call = "read" => Reads(c, f, o)
    /\ c.call = "write" => Writes(c, f, o, p)
    /\ c.call = "getdirent" => Walks(c)

Types ==
    /\ cont \in [Proc -> Cont] /\ alive \in [Proc -> BOOLEAN] /\ file \in Seq(Datum)
    /\ others \in [Proc -> SUBSET Int] /\ held \subseteq Proc \X {"frame", "heap"}
    /\ torn \in BOOLEAN /\ ub \in BOOLEAN

\* The kernel buffers h that the call of p may hold (a: p is there; t: torn).
Kept(c, h, a, t, p) ==
    /\ <<p, "frame">> \in h => c.call = "write" /\ c.at \notin {"kbuf", "done"}
    /\ <<p, "heap">> \in h => (c.call = "stat" /\ c.at # "done") \/ ~a
    /\ ~a /\ c.at \in Memory => t

Own(c, h, a, t, f, o, p) ==
    /\ Placed(c, f) /\ Kept(c, h, a, t, p)
    /\ a /\ c.at # "done" => InFlight(c, f, o, p)

IInv ==
    /\ Types
    /\ ub => torn \/ \E p \in Proc : cont[p].call = "getdirent" /\ cont[p].asked < 0
    /\ \A p \in Proc : Own(cont[p], held, alive[p], torn, file, others[p], p)

-----------------------------------------------------------------------------
(* A call that is answered, and the states that the handlers work on.      *)

\* The call c may be answered, with an error if e.
Ends(c, e, f, o, p) ==
    /\ c.call = "read" =>
           /\ c.off = c.start + c.done /\ Len(c.got) = c.done
           /\ Copied(f, c.start, c.got, c.done, o)
           /\ ~e /\ o = {} => c.done = smaller(c.want, Len(f) - c.start)
    /\ c.call = "write" =>
           /\ c.off = c.start + c.done /\ FromBuffer(f, c.start, p, 0, c.done, o)
           /\ ~e => c.done = c.want
    /\ c.call = "getdirent" /\ c.done > 0 /\ c.asked >= 0 =>
           c.asked < Names /\ c.got = <<c.asked>>

Buffers == SUBSET (Proc \X {"frame", "heap"})
State   == [c : Cont, held : Buffers, ub : BOOLEAN]

\* The buffers of other processes are as before, and the call is the same.
Mine(s, p) ==
    /\ \A q \in Proc \ {p}, b \in {"frame", "heap"} : <<q, b>> \in s.held => <<q, b>> \in held
    /\ alive[p] => s.c.call = cont[p].call

\* A handler may leave the state u, for process p.
Good(u, p) ==
    /\ u \in State /\ (u.ub => torn) /\ Mine(u, p)
    /\ Own(u.c, u.held, alive[p], torn, file, others[p], p)
    /\ alive[p] /\ u.c.at = "done" => Ends(u.c, u.c.err, file, others[p], p)

\* The fields of a state.
LEMMA StateFields ==
  ASSUME NEW s \in State
  PROVE  s.c \in Cont /\ s.held \in Buffers /\ s.ub \in BOOLEAN
BY DEF State

\* The fields of a continuation.
LEMMA ContFields ==
  ASSUME NEW c \in Cont
  PROVE  /\ c.call \in Call /\ c.at \in Where /\ c.err \in BOOLEAN
         /\ c.buf \in Nat /\ c.want \in Nat /\ c.done \in Nat /\ c.len \in Nat
         /\ c.off \in Nat /\ c.start \in Nat /\ c.pos \in Int /\ c.cookie \in Nat
         /\ c.asked \in Int /\ c.data \in Seq(Datum) /\ c.got \in Seq(Datum)
BY DEF Cont

\* The continuation of nothing.
LEMMA IdleFacts ==
  /\ IDLE \in Cont /\ IDLE.at = "done" /\ IDLE.off = 0 /\ IDLE.call = "none" /\ IDLE.done = 0
  /\ IDLE.got = <<>> /\ IDLE.data = <<>> /\ IDLE.err = FALSE /\ IDLE.cookie = 0
BY DEF IDLE, Cont, Call, Where

\* u is s with the call answered.
Over(u, s, e) ==
    /\ u \in State /\ u.held = s.held /\ u.ub = s.ub
    /\ u.c.at = "done" /\ u.c.err = e
    /\ u.c.call = s.c.call /\ u.c.want = s.c.want /\ u.c.done = s.c.done
    /\ u.c.got = s.c.got /\ u.c.off = s.c.off /\ u.c.start = s.c.start
    /\ u.c.asked = s.c.asked

\* The answer to a process that is there.
LEMMA AnswerEffect ==
  ASSUME NEW p \in Proc, NEW s \in State, NEW e \in BOOLEAN, NEW u, alive[p],
         u = Answer(s, p, e)
  PROVE  Over(u, s, e)
<1> DEFINE d == [s.c EXCEPT !.at = "done", !.err = e, !.len = 0, !.data = <<>>,
                            !.pos = 0, !.cookie = 0]
<1>1. s.c \in Cont
  BY StateFields
<1>2. d \in Cont
  <2>1. "done" \in Where /\ <<>> \in Seq(Datum) /\ 0 \in Nat /\ 0 \in Int
    BY DEF Where
  <2>. QED BY <1>1, <2>1, Zenon DEF Cont
<1>4. d.at = "done"
      /\ d.call = s.c.call /\ d.want = s.c.want /\ d.done = s.c.done
      /\ d.got = s.c.got /\ d.off = s.c.off /\ d.start = s.c.start /\ d.asked = s.c.asked
  BY <1>1 DEF Cont
<1>5. d.err = e
  BY <1>1 DEF Cont
<1>3. u = [s EXCEPT !.c = d]
  BY DEF Answer, State
<1> HIDE DEF d
<1>. QED BY <1>2, <1>3, <1>4, <1>5 DEF State, Over

\* The ends of calls look at a few fields of the continuation.
LEMMA EndsSame ==
  ASSUME NEW c, NEW d, NEW e, NEW f, NEW o, NEW p,
         d.call = c.call, d.want = c.want, d.done = c.done, d.got = c.got, d.off = c.off,
         d.start = c.start, d.asked = c.asked, Ends(c, e, f, o, p)
  PROVE  Ends(d, e, f, o, p)
BY Zenon DEF Ends

\* A call that is over holds nothing, and its offset is all that is left of it.
LEMMA OverOwn ==
  ASSUME NEW c \in Cont, c.at = "done", NEW h, NEW a \in BOOLEAN, NEW t, NEW f, NEW o, NEW p,
         c.off <= Len(f), <<p, "frame">> \notin h, a => <<p, "heap">> \notin h
  PROVE  Own(c, h, a, t, f, o, p)
<1>1. Placed(c, f)
  BY DEF Placed, Stage
<1>2. Kept(c, h, a, t, p)
  BY DEF Kept, Memory
<1>. QED BY <1>1, <1>2 DEF Own

\* A state with the same call and no more buffers.
LEMMA StillMine ==
  ASSUME NEW p, NEW s, NEW u, Mine(s, p), u.held \subseteq s.held,
         alive[p] => u.c.call = s.c.call
  PROVE  Mine(u, p)
BY DEF Mine

\* A call that is answered, or of which nobody is left, with its buffers given back.
LEMMA AnswerGood ==
  ASSUME NEW p \in Proc, NEW s \in State, NEW e \in BOOLEAN, alive[p] \in BOOLEAN,
         file \in Seq(Datum), s.ub => torn, Mine(s, p), <<p, "frame">> \notin s.held,
         alive[p] => /\ <<p, "heap">> \notin s.held /\ s.c.off <= Len(file)
                     /\ Ends(s.c, e, file, others[p], p)
  PROVE  Good(Answer(s, p, e), p)
<1> DEFINE u == Answer(s, p, e)
<1>1. u = Answer(s, p, e)
  OBVIOUS
<1> HIDE DEF u
<1>2. CASE alive[p]
  <2>1. /\ u \in State /\ u.held = s.held /\ u.ub = s.ub
        /\ u.c.at = "done" /\ u.c.err = e
        /\ u.c.call = s.c.call /\ u.c.want = s.c.want /\ u.c.done = s.c.done
        /\ u.c.got = s.c.got /\ u.c.off = s.c.off /\ u.c.start = s.c.start
        /\ u.c.asked = s.c.asked
    <3>1. Over(u, s, e)
      BY <1>1, <1>2, AnswerEffect
    <3>. QED BY <3>1 DEF Over
  <2>2. Ends(u.c, u.c.err, file, others[p], p)
    <3>1. Ends(u.c, e, file, others[p], p)
      BY <1>2, <2>1, EndsSame
    <3>. QED BY <2>1, <3>1
  <2>3. Own(u.c, u.held, alive[p], torn, file, others[p], p)
    <3>1. u.c \in Cont /\ u.c.off <= Len(file)
      BY <1>2, <2>1, StateFields
    <3>. QED BY <1>2, <2>1, <3>1, OverOwn, Zenon
  <2>4. Mine(u, p)
    BY <2>1, StillMine
  <2>. QED BY <1>1, <2>1, <2>2, <2>3, <2>4 DEF Good
<1>3. CASE ~alive[p]
  <2>1. u = [s EXCEPT !.c = IDLE]
    BY <1>1, <1>3 DEF Answer
  <2>2. u \in State /\ u.held = s.held /\ u.ub = s.ub /\ u.c = IDLE
    BY <2>1, IdleFacts DEF State
  <2>3. Own(u.c, u.held, alive[p], torn, file, others[p], p)
    <3>1. u.c.off <= Len(file)
      BY <2>2, IdleFacts
    <3>. QED BY <1>3, <2>2, <3>1, IdleFacts, OverOwn, Zenon
  <2>4. Mine(u, p)
    BY <1>3, <2>2, StillMine
  <2>. QED BY <1>1, <1>3, <2>2, <2>3, <2>4 DEF Good
<1>. QED BY <1>2, <1>3

\* A write that ends gives kbuf back (serv_sys_write_end).
LEMMA WriteEndGood ==
  ASSUME NEW p \in Proc, NEW s \in State, NEW e \in BOOLEAN, alive[p] \in BOOLEAN,
         file \in Seq(Datum), s.ub => torn, Mine(s, p),
         alive[p] => /\ <<p, "heap">> \notin s.held /\ s.c.off <= Len(file)
                     /\ Ends(s.c, e, file, others[p], p)
  PROVE  Good(serv_sys_write_end(s, p, e), p)
<1> DEFINE w == [s EXCEPT !.held = @ \ {<<p, "frame">>}]
<1>1. w \in State /\ w.c = s.c /\ w.held = s.held \ {<<p, "frame">>} /\ w.ub = s.ub
  BY Zenon DEF State, Buffers
<1>2. serv_sys_write_end(s, p, e) = Answer(w, p, e)
  BY DEF serv_sys_write_end
<1> HIDE DEF w
<1>3. Mine(w, p)
  BY <1>1, StillMine
<1>4. Good(Answer(w, p, e), p)
  BY <1>1, <1>3, AnswerGood, Zenon
<1>. QED BY <1>2, <1>4

\* A stat that ends gives its copy of the path back if there is someone to answer
\* (serv_sys_stat_end).
LEMMA StatEndGood ==
  ASSUME NEW p \in Proc, NEW s \in State, NEW e \in BOOLEAN, alive[p] \in BOOLEAN,
         file \in Seq(Datum), s.ub => torn, Mine(s, p), <<p, "frame">> \notin s.held,
         alive[p] => s.c.off <= Len(file) /\ Ends(s.c, e, file, others[p], p)
  PROVE  Good(serv_sys_stat_end(s, p, e), p)
<1> DEFINE w == IF alive[p] THEN [s EXCEPT !.held = @ \ {<<p, "heap">>}] ELSE s
<1>1. /\ w \in State /\ w.c = s.c /\ w.ub = s.ub /\ w.held \subseteq s.held
      /\ alive[p] => <<p, "heap">> \notin w.held
  BY DEF State, Buffers
<1>2. serv_sys_stat_end(s, p, e) = Answer(w, p, e)
  BY DEF serv_sys_stat_end
<1> HIDE DEF w
<1>3. Mine(w, p) /\ <<p, "frame">> \notin w.held
  BY <1>1, StillMine
<1>4. Good(Answer(w, p, e), p)
  BY <1>1, <1>3, AnswerGood
<1>. QED BY <1>2, <1>4

\* A call may fail at any time: what it has moved so far is right.
LEMMA InFlightEnds ==
  ASSUME NEW c, NEW f, NEW o, NEW p, InFlight(c, f, o, p)
  PROVE  Ends(c, TRUE, f, o, p)
BY DEF InFlight, Ends, Reads, Writes, Walks

\* Whatever goes wrong, the call ends well (the error paths of file_syscalls.c).
LEMMA FailGood ==
  ASSUME NEW p \in Proc, NEW s \in State, alive[p] \in BOOLEAN, file \in Seq(Datum),
         s.ub => torn, Mine(s, p), s.c.at # "done",
         Own(s.c, s.held, alive[p], torn, file, others[p], p)
  PROVE  Good(Fail(s, p), p)
<1>1. alive[p] => s.c.off <= Len(file) /\ Ends(s.c, TRUE, file, others[p], p)
  BY InFlightEnds, Zenon DEF Own, Placed
<1>2. Kept(s.c, s.held, alive[p], torn, p)
  BY DEF Own
<1>3. CASE s.c.call = "write"
  <2>1. alive[p] => <<p, "heap">> \notin s.held
    BY <1>2, <1>3 DEF Kept
  <2>2. Good(serv_sys_write_end(s, p, TRUE), p)
    BY <1>1, <2>1, WriteEndGood, Zenon
  <2>. QED BY <1>3, <2>2, Zenon DEF Fail
<1>4. CASE s.c.call = "stat"
  <2>1. <<p, "frame">> \notin s.held
    BY <1>2, <1>4 DEF Kept
  <2>2. Good(serv_sys_stat_end(s, p, TRUE), p)
    BY <1>1, <2>1, StatEndGood, Zenon
  <2>. QED BY <1>4, <2>2, Zenon DEF Fail
<1>5. CASE s.c.call \notin {"write", "stat"}
  <2>1. <<p, "frame">> \notin s.held /\ (alive[p] => <<p, "heap">> \notin s.held)
    BY <1>2, <1>5 DEF Kept
  <2>2. Good(Answer(s, p, TRUE), p)
    BY <1>1, <2>1, AnswerGood, Zenon
  <2>. QED BY <1>5, <2>2, Zenon DEF Fail
<1>. QED BY <1>3, <1>4, <1>5

-----------------------------------------------------------------------------
(* A read.                                                                 *)

\* A sum of two numbers.
LEMMA SumNat == \A a, b \in Nat : a + b \in Nat
OBVIOUS

\* All of a sequence.
LEMMA WholeSequence ==
  ASSUME NEW S, NEW s \in Seq(S), NEW n, n = Len(s)
  PROVE  SubSeq(s, 1, n) = s
OBVIOUS

\* One sequence after another.
LEMMA Concatenation ==
  ASSUME NEW S, NEW s \in Seq(S), NEW t \in Seq(S)
  PROVE  /\ s \o t \in Seq(S) /\ Len(s \o t) = Len(s) + Len(t)
         /\ Len(s) \in Nat /\ Len(t) \in Nat
OBVIOUS

\* The bytes that have come and those before them are the bytes of the file.
LEMMA CopiedMore ==
  ASSUME NEW f, NEW o, NEW a \in Nat, NEW g \in Seq(Datum), NEW d \in Seq(Datum), NEW b \in Nat,
         b = a + Len(g), Copied(f, a, g, Len(g), o), Copied(f, b, d, Len(d), o)
  PROVE  Copied(f, a, g \o d, Len(g) + Len(d), o)
<1> SUFFICES ASSUME NEW k \in 1 .. (Len(g) + Len(d)), a + k \notin o
             PROVE  f[a + k] = (g \o d)[k]
  BY SMTT(30) DEF Copied
<1>1. CASE k <= Len(g)
  <2>1. k \in 1 .. Len(g) /\ (g \o d)[k] = g[k]
    BY <1>1
  <2>. QED BY <2>1 DEF Copied
<1>2. CASE k > Len(g)
  <2>1. k - Len(g) \in 1 .. Len(d) /\ (g \o d)[k] = d[k - Len(g)] /\ b + (k - Len(g)) = a + k
    BY <1>2
  <2>. QED BY <2>1, SMTT(30) DEF Copied
<1>. QED BY <1>1, <1>2

\* The bytes of c have been copied out.
Took(d, c) ==
    /\ d \in Cont /\ d.call = c.call /\ d.want = c.want /\ d.start = c.start
    /\ d.err = c.err /\ d.asked = c.asked
    /\ d.off = c.off + Len(c.data) /\ d.done = c.done + Len(c.data)
    /\ d.got = c.got \o c.data /\ d.data = <<>>

\* After that, all that has been read is in place, and when nothing came, or enough, the read
\* has what it asked for or what there is.
LEMMA TookEnds ==
  ASSUME NEW c \in Cont, NEW d \in Cont, NEW f \in Seq(Datum), NEW o, NEW p,
         c.call = "read", c.at = "copyout", ~c.err, Reads(c, f, o), Took(d, c)
  PROVE  /\ d.off <= Len(f) /\ d.done <= d.want
         /\ Ends(d, TRUE, f, o, p)
         /\ Len(c.data) = 0 \/ d.done >= d.want => Ends(d, FALSE, f, o, p)
<1>1. /\ c.off = c.start + c.done /\ c.done <= c.want /\ Len(c.got) = c.done
      /\ Copied(f, c.start, c.got, c.done, o)
      /\ c.done + Len(c.data) <= c.want /\ c.off + Len(c.data) <= Len(f)
      /\ Copied(f, c.off, c.data, Len(c.data), o)
      /\ Len(c.data) = 0 /\ o = {} => c.done = c.want \/ Len(f) = c.off
  BY DEF Reads
<1>2. /\ c.start \in Nat /\ c.off \in Nat /\ c.done \in Nat /\ c.want \in Nat
      /\ c.got \in Seq(Datum) /\ c.data \in Seq(Datum)
  BY ContFields
<1>3. Copied(f, d.start, d.got, d.done, o)
  <2>1. Copied(f, c.start, c.got \o c.data, Len(c.got) + Len(c.data), o)
    BY <1>1, <1>2, CopiedMore, Zenon
  <2>. QED BY <1>1, <2>1 DEF Took
<1>4. d.off = d.start + d.done /\ Len(d.got) = d.done /\ d.off <= Len(f) /\ d.done <= d.want
  <2>1. Len(c.got \o c.data) = Len(c.got) + Len(c.data) /\ Len(c.data) \in Nat
    BY <1>2, Concatenation, Zenon
  <2>2. /\ d.want = c.want /\ d.start = c.start /\ d.got = c.got \o c.data
        /\ d.off = c.off + Len(c.data) /\ d.done = c.done + Len(c.data)
    BY DEF Took
  <2>3. d.off = d.start + d.done
    BY <1>1, <1>2, <2>1, <2>2, SMTT(30)
  <2>4. Len(d.got) = d.done
    BY <1>1, <1>2, <2>1, <2>2, Zenon
  <2>5. d.off <= Len(f)
    BY <1>1, <1>2, <2>1, <2>2
  <2>6. d.done <= d.want
    BY <1>1, <1>2, <2>1, <2>2
  <2>. QED BY <2>3, <2>4, <2>5, <2>6
<1>5. Len(c.data) = 0 \/ d.done >= d.want =>
          (o = {} => d.done = smaller(d.want, Len(f) - d.start))
  <2>1. /\ d.want = c.want /\ d.start = c.start /\ Len(c.data) \in Nat /\ Len(f) \in Nat
        /\ d.off = c.off + Len(c.data) /\ d.done = c.done + Len(c.data)
    BY <1>2 DEF Took
  <2> SUFFICES ASSUME o = {}, Len(c.data) = 0 \/ d.done >= d.want
               PROVE  d.done = smaller(d.want, Len(f) - d.start)
    OBVIOUS
  <2>2. d.done = d.want \/ Len(f) = d.off
    <3>1. CASE Len(c.data) = 0
      <4>1. c.done = c.want \/ Len(f) = c.off
        BY <1>1, <3>1
      <4>. QED BY <1>2, <2>1, <3>1, <4>1
    <3>2. CASE d.done >= d.want
      BY <1>2, <1>4, <2>1, <3>2
    <3>. QED BY <3>1, <3>2
  <2>3. /\ d.done \in Nat /\ d.want \in Nat /\ d.start \in Nat
        /\ d.off = d.start + d.done /\ d.off <= Len(f) /\ d.done <= d.want
    BY <1>4, ContFields
  <2>. QED BY <2>1, <2>2, <2>3, SMTT(30) DEF smaller
<1>6. d.call = "read"
  BY DEF Took
<1>. QED BY <1>3, <1>4, <1>5, <1>6 DEF Ends

\* The effect of _nfs_dev_read_end before the read goes on or ends.
LEMMA TookEffect ==
  ASSUME NEW p \in Proc, NEW s \in State, NEW t, NEW n, alive[p], Len(s.c.got) = s.c.done,
         n = Len(s.c.data),
         t = Moved([s EXCEPT !.c = [s.c EXCEPT !.got = SubSeq(@, 1, s.c.done) \o s.c.data, !.data = <<>>]],
                   p, n)
  PROVE  t \in State /\ t.held = s.held /\ t.ub = s.ub /\ Took(t.c, s.c)
<1>1. s.c \in Cont /\ s.ub \in BOOLEAN
  BY StateFields
<1>2. /\ s.c.got \in Seq(Datum) /\ s.c.data \in Seq(Datum) /\ s.c.off \in Nat
      /\ s.c.done \in Nat
  BY <1>1, ContFields
<1>3. SubSeq(s.c.got, 1, s.c.done) = s.c.got
  BY <1>2, WholeSequence
<1> DEFINE g == s.c.got \o s.c.data
           d == [s.c EXCEPT !.got = g, !.data = <<>>, !.off = @ + n, !.done = @ + n]
<1>4. g \in Seq(Datum) /\ n \in Nat /\ s.c.off + n \in Nat /\ s.c.done + n \in Nat
      /\ <<>> \in Seq(Datum)
  <2>1. g \in Seq(Datum) /\ Len(s.c.data) \in Nat
    BY <1>2, Concatenation, Zenon
  <2>2. n \in Nat
    BY <2>1, Zenon
  <2>3. <<>> \in Seq(Datum)
    OBVIOUS
  <2>4. s.c.off + n \in Nat /\ s.c.done + n \in Nat
    BY <1>2, <2>2, SumNat, Zenon
  <2>. QED BY <2>1, <2>2, <2>3, <2>4, Zenon
<1>5. t = [s EXCEPT !.c = d]
  <2> DEFINE w == [s EXCEPT !.c = [s.c EXCEPT !.got = SubSeq(@, 1, s.c.done) \o s.c.data, !.data = <<>>]]
  <2>1. w = [s EXCEPT !.c = [s.c EXCEPT !.got = g, !.data = <<>>]]
    BY <1>3, Zenon DEF State
  <2>. QED BY <1>1, <2>1, Zenon DEF Moved, State, Cont
<1> HIDE DEF g
<1>6. d \in Cont
  BY <1>1, <1>4, Zenon DEF Cont
<1>7. /\ d.call = s.c.call /\ d.want = s.c.want /\ d.start = s.c.start /\ d.asked = s.c.asked
      /\ d.off = s.c.off + n /\ d.done = s.c.done + n /\ d.got = g /\ d.data = <<>>
  BY <1>1 DEF Cont
<1>8. d.err = s.c.err
  BY <1>1 DEF Cont
<1> HIDE DEF d
<1>9. t \in State /\ t.held = s.held /\ t.ub = s.ub /\ t.c = d
  BY <1>5, <1>6 DEF State
<1>. QED BY <1>6, <1>7, <1>8, <1>9, Zenon DEF Took, g

\* The call of c goes on as d: what it has moved is the same.
Same(d, c) ==
    /\ d.call = c.call /\ d.buf = c.buf /\ d.want = c.want /\ d.done = c.done /\ d.got = c.got
    /\ d.off = c.off /\ d.start = c.start /\ d.asked = c.asked /\ d.err = c.err

\* The effect of VOP_READ.
LEMMA VopReadEffect ==
  ASSUME NEW s \in State, NEW u, u = VOP_READ(s), s.c.done <= s.c.want
  PROVE  /\ u \in State /\ u.held = s.held /\ u.ub = s.ub /\ Same(u.c, s.c)
         /\ u.c.at = "wire" /\ u.c.len = smaller(s.c.want - s.c.done, PAGE_SIZE)
<1> DEFINE n == smaller(s.c.want - s.c.done, PAGE_SIZE)
           d == [s.c EXCEPT !.at = "wire", !.len = n]
<1>1. s.c \in Cont
  BY StateFields
<1>2. s.c.want \in Nat /\ s.c.done \in Nat
  BY <1>1, ContFields
<1>3. n \in Nat /\ "wire" \in Where
  BY <1>2, FileIOAssumption, SMTT(30) DEF smaller, Where
<1>4. u = [s EXCEPT !.c = d]
  BY DEF VOP_READ, State
<1> HIDE DEF n
<1>5. d \in Cont
  BY <1>1, <1>3, Zenon DEF Cont
<1>6. Same(d, s.c) /\ d.at = "wire" /\ d.len = n
  BY <1>1, Zenon DEF Same, Cont
<1> HIDE DEF d
<1>7. u \in State /\ u.held = s.held /\ u.ub = s.ub /\ u.c = d
  BY <1>4, <1>5 DEF State
<1>. QED BY <1>6, <1>7 DEF n

\* A read gets its next bytes, and goes on or ends (_nfs_dev_read_end, serv_sys_read_end).
LEMMA ReadEndGood ==
  ASSUME NEW p \in Proc, NEW s \in State, alive[p] \in BOOLEAN, alive[p], file \in Seq(Datum),
         s.ub => torn, Mine(s, p), s.c.call = "read", s.c.at = "copyout",
         Own(s.c, s.held, alive[p], torn, file, others[p], p)
  PROVE  Good(_nfs_dev_read_end(s, p), p)
<1> DEFINE n == Len(s.c.data)
           t == Moved([s EXCEPT !.c = [s.c EXCEPT !.got = SubSeq(@, 1, s.c.done) \o s.c.data, !.data = <<>>]],
                      p, n)
           u == _nfs_dev_read_end(s, p)
<1>1. u = IF n = 0 \/ t.c.done >= t.c.want THEN Answer(t, p, FALSE) ELSE VOP_READ(t)
  BY DEF _nfs_dev_read_end, serv_sys_read_end
<1>2. Reads(s.c, file, others[p]) /\ ~s.c.err /\ s.c \in Cont
  BY StateFields DEF Own, InFlight
<1>3. t \in State /\ t.held = s.held /\ t.ub = s.ub /\ Took(t.c, s.c)
  <2>1. Len(s.c.got) = s.c.done
    BY <1>2 DEF Reads
  <2>. QED BY <2>1, TookEffect, Zenon
<1>4. <<p, "frame">> \notin s.held /\ <<p, "heap">> \notin s.held
  BY DEF Own, Kept
<1> HIDE DEF t, u
<1>5. t.c \in Cont
  BY <1>3 DEF Took
<1>6. /\ t.c.off <= Len(file) /\ t.c.done <= t.c.want
      /\ Ends(t.c, TRUE, file, others[p], p)
      /\ n = 0 \/ t.c.done >= t.c.want => Ends(t.c, FALSE, file, others[p], p)
  BY <1>2, <1>3, <1>5, TookEnds, Zenon
<1>9. Mine(t, p)
  BY <1>3, StillMine DEF Took
<1>7. CASE n = 0 \/ t.c.done >= t.c.want
  <2>1. Good(Answer(t, p, FALSE), p)
    BY <1>3, <1>4, <1>6, <1>7, <1>9, AnswerGood, Zenon
  <2>. QED BY <1>1, <1>7, <2>1, Zenon DEF u
<1>8. CASE ~(n = 0 \/ t.c.done >= t.c.want)
  <2>1. u = VOP_READ(t)
    BY <1>1, <1>8
  <2>2. /\ u \in State /\ u.held = t.held /\ u.ub = t.ub /\ Same(u.c, t.c)
        /\ u.c.at = "wire" /\ u.c.len = smaller(t.c.want - t.c.done, PAGE_SIZE)
    BY <1>3, <1>6, <2>1, VopReadEffect
  <2>3. u.c \in Cont /\ u.c.call = "read" /\ ~u.c.err
    BY <1>2, <1>3, <2>2, StateFields DEF Same, Took
  <2>4. Reads(u.c, file, others[p])
    <3>1. Ends(u.c, TRUE, file, others[p], p)
      BY <1>6, <2>2, EndsSame, Zenon DEF Same
    <3>2. /\ u.c.off = u.c.start + u.c.done /\ Len(u.c.got) = u.c.done
          /\ Copied(file, u.c.start, u.c.got, u.c.done, others[p])
      BY <2>3, <3>1 DEF Ends
    <3>3. u.c.done <= u.c.want /\ u.c.len = smaller(u.c.want - u.c.done, PAGE_SIZE)
      BY <1>6, <2>2 DEF Same
    <3>4. u.c.done \in Nat /\ u.c.want \in Nat
      BY <2>3, ContFields
    <3>5. u.c.done + u.c.len <= u.c.want /\ (u.c.len = 0 => u.c.done = u.c.want)
      BY <3>3, <3>4, FileIOAssumption, SMTT(30) DEF smaller
    <3>. QED BY <2>2, <3>2, <3>3, <3>5 DEF Reads
  <2>5. Placed(u.c, file)
    <3>1. u.c.off <= Len(file)
      BY <1>6, <2>2 DEF Same
    <3>. QED BY <2>2, <2>3, <3>1 DEF Placed, Stage
  <2>6. Kept(u.c, u.held, alive[p], torn, p)
    BY <1>3, <1>4, <2>2 DEF Kept
  <2>7. Own(u.c, u.held, alive[p], torn, file, others[p], p)
    BY <2>2, <2>3, <2>4, <2>5, <2>6, Zenon DEF Own, InFlight
  <2>8. Mine(u, p)
    BY <1>9, <2>2, StillMine DEF Same
  <2>. QED BY <1>3, <2>2, <2>7, <2>8, Zenon DEF Good, u
<1>. QED BY <1>7, <1>8

-----------------------------------------------------------------------------
(* A write.                                                                *)

\* The bytes that have been written and those before them.
LEMMA FromBufferMore ==
  ASSUME NEW f, NEW o, NEW p, NEW a \in Nat, NEW b \in Nat, NEW j \in Nat, NEW n \in Nat,
         b = a + j, FromBuffer(f, a, p, 0, j, o), FromBuffer(f, b, p, j, n, o)
  PROVE  FromBuffer(f, a, p, 0, j + n, o)
<1> SUFFICES ASSUME NEW k \in 1 .. (j + n), a + k \notin o
             PROVE  f[a + k] = Byte(p, 0 + k)
  BY DEF FromBuffer
<1>1. CASE k <= j
  <2>1. k \in 1 .. j
    BY <1>1
  <2>. QED BY <2>1 DEF FromBuffer
<1>2. CASE k > j
  <2>1. k - j \in 1 .. n /\ b + (k - j) = a + k /\ j + (k - j) = k /\ 0 + k = k
    BY <1>2
  <2>. QED BY <2>1 DEF FromBuffer
<1>. QED BY <1>1, <1>2

\* The effect of Moved.
LEMMA MovedEffect ==
  ASSUME NEW p \in Proc, NEW s \in State, NEW n \in Nat, alive[p] \in BOOLEAN,
         NEW t, t = Moved(s, p, n)
  PROVE  /\ t \in State /\ t.held = s.held /\ (t.ub => s.ub \/ ~alive[p])
         /\ t.c.call = s.c.call /\ t.c.buf = s.c.buf /\ t.c.want = s.c.want
         /\ t.c.start = s.c.start /\ t.c.err = s.c.err
         /\ t.c.off = s.c.off + n /\ t.c.done = s.c.done + n
<1> DEFINE d == [s.c EXCEPT !.off = @ + n, !.done = @ + n]
<1>1. s.c \in Cont /\ s.ub \in BOOLEAN
  BY StateFields
<1>2. s.c.off + n \in Nat /\ s.c.done + n \in Nat
  BY <1>1, ContFields, SumNat, Zenon
<1>3. d \in Cont
  BY <1>1, <1>2, Zenon DEF Cont
<1>4. /\ d.call = s.c.call /\ d.buf = s.c.buf /\ d.want = s.c.want
      /\ d.start = s.c.start /\ d.err = s.c.err
      /\ d.off = s.c.off + n /\ d.done = s.c.done + n
  BY <1>1, Zenon DEF Cont
<1>5. t = [s EXCEPT !.c = d, !.ub = @ \/ ~alive[p]]
  BY Zenon DEF Moved, State
<1> HIDE DEF d
<1>6. (s.ub \/ ~alive[p]) \in BOOLEAN
  BY <1>1, Zenon
<1>7. t \in State /\ t.held = s.held /\ t.ub = (s.ub \/ ~alive[p]) /\ t.c = d
  BY <1>3, <1>5, <1>6, Zenon DEF State
<1>. QED BY <1>4, <1>7, Zenon

\* What is left of a page and of the buffer is at least one byte.
LEMMA NextPiece ==
  ASSUME NEW b \in Nat, NEW w \in Nat, NEW n \in Nat, n < w, NEW len,
         len = smaller(PAGE_SIZE - ((b + n) % PAGE_SIZE), w - n)
  PROVE  len \in Nat /\ len > 0 /\ n + len <= w
<1> DEFINE r == (b + n) % PAGE_SIZE
<1>1. r \in Nat /\ r < PAGE_SIZE /\ PAGE_SIZE \in Nat
  BY FileIOAssumption, SMTT(30)
<1>2. len = smaller(PAGE_SIZE - r, w - n)
  OBVIOUS
<1> HIDE DEF r
<1>. QED BY <1>1, <1>2 DEF smaller

\* n bytes of the buffer of p, behind the j-th; how many are next; the state that has them.
Piece(p, j, n) == [k \in 1 .. n |-> Byte(p, j + k)]
PieceLen(c)    == smaller(PAGE_SIZE - ((c.buf + c.done) % PAGE_SIZE), c.want - c.done)
Pieced(t, p)   == [t EXCEPT !.c = [t.c EXCEPT !.at = "copyin", !.len = PieceLen(t.c),
                                            !.data = Piece(p, t.c.done, PieceLen(t.c))]]

\* The bytes of the buffer that are copied in.
LEMMA PieceIsData ==
  ASSUME NEW p \in Proc, NEW j \in Nat, NEW n \in Nat
  PROVE  /\ Piece(p, j, n) \in Seq(Datum) /\ Len(Piece(p, j, n)) = n
         /\ \A k \in 1 .. n : Piece(p, j, n)[k] = Byte(p, j + k)
<1>1. \A k \in 1 .. n : Byte(p, j + k) \in Datum
  BY DEF Byte, Datum
<1>2. Piece(p, j, n) \in [1 .. n -> Datum]
  BY <1>1, Zenon DEF Piece
<1>3. \A k \in 1 .. n : Piece(p, j, n)[k] = Byte(p, j + k)
  BY DEF Piece
<1>. QED BY <1>2, <1>3

HasPiece(u, t, p) ==
    /\ u \in State /\ u.held = t.held /\ u.ub = t.ub /\ Same(u.c, t.c)
    /\ u.c.at = "copyin" /\ u.c.len > 0 /\ Len(u.c.data) = u.c.len
    /\ u.c.done + u.c.len <= u.c.want
    /\ \A k \in 1 .. u.c.len : u.c.data[k] = Byte(p, u.c.done + k)

\* The effect of serv_sys_write_copyin when there is more to write.
LEMMA NextPieceEffect ==
  ASSUME NEW p \in Proc, NEW t \in State, NEW u, t.c.done < t.c.want, u = Pieced(t, p)
  PROVE  HasPiece(u, t, p)
<1> DEFINE len == PieceLen(t.c)
           b == Piece(p, t.c.done, len)
           d == [t.c EXCEPT !.at = "copyin", !.len = len, !.data = b]
<1>1. t.c \in Cont
  BY StateFields
<1>2. t.c.buf \in Nat /\ t.c.want \in Nat /\ t.c.done \in Nat
  BY <1>1, ContFields, Zenon
<1>3. len \in Nat /\ len > 0 /\ t.c.done + len <= t.c.want
  BY <1>2, NextPiece, Zenon DEF PieceLen
<1>4. b \in Seq(Datum) /\ Len(b) = len /\ \A k \in 1 .. len : b[k] = Byte(p, t.c.done + k)
  BY <1>2, <1>3, PieceIsData, ZenonT(30)
<1>5. u = [t EXCEPT !.c = d]
  BY DEF State, Pieced
<1> HIDE DEF len, b
<1>6. "copyin" \in Where
  BY DEF Where
<1>7. d \in Cont
  BY <1>1, <1>3, <1>4, <1>6, ZenonT(30) DEF Cont
<1>8. Same(d, t.c) /\ d.at = "copyin" /\ d.len = len /\ d.data = b
  BY <1>1, Zenon DEF Same, Cont
<1> HIDE DEF d
<1>9. u \in State /\ u.held = t.held /\ u.ub = t.ub /\ u.c = d
  BY <1>5, <1>7, Zenon DEF State
<1>10. d.done = t.c.done /\ d.want = t.c.want
  BY <1>8 DEF Same
<1>. QED BY <1>3, <1>4, <1>8, <1>9, <1>10, Zenon DEF HasPiece

\* A write goes on with its next bytes, or ends (serv_sys_write_copyin).
LEMMA WriteCopyinGood ==
  ASSUME NEW p \in Proc, NEW s \in State, NEW n \in Nat, alive[p] \in BOOLEAN,
         file \in Seq(Datum), s.ub => torn, ~alive[p] => torn, Mine(s, p),
         s.c.call = "write", s.c.off + n <= Len(file),
         alive[p] => /\ <<p, "heap">> \notin s.held /\ ~s.c.err
                     /\ s.c.off = s.c.start + s.c.done /\ s.c.done + n <= s.c.want
                     /\ FromBuffer(file, s.c.start, p, 0, s.c.done + n, others[p])
  PROVE  Good(serv_sys_write_copyin(s, p, n), p)
<1> DEFINE t == Moved(s, p, n)
           u == serv_sys_write_copyin(s, p, n)
<1>1. u = IF t.c.done >= t.c.want THEN serv_sys_write_end(t, p, FALSE)
          ELSE Pieced(t, p)
  BY DEF serv_sys_write_copyin, Pieced, Piece, PieceLen
<1>2. /\ t \in State /\ t.held = s.held /\ (t.ub => s.ub \/ ~alive[p])
      /\ t.c.call = s.c.call /\ t.c.buf = s.c.buf /\ t.c.want = s.c.want
      /\ t.c.start = s.c.start /\ t.c.err = s.c.err
      /\ t.c.off = s.c.off + n /\ t.c.done = s.c.done + n
  BY MovedEffect, ZenonT(30)
<1> HIDE DEF t, u
<1>3. /\ s.c.off \in Nat /\ s.c.done \in Nat /\ s.c.start \in Nat /\ s.c.want \in Nat
      /\ t.c.done \in Nat /\ t.c.want \in Nat
  BY <1>2, StateFields, ContFields, Zenon
<1>4. t.ub => torn
  BY <1>2, Zenon
<1>5. t.c.off <= Len(file)
  BY <1>2
<1>6. alive[p] => /\ t.c.off = t.c.start + t.c.done /\ t.c.done <= t.c.want
                  /\ FromBuffer(file, t.c.start, p, 0, t.c.done, others[p])
  <2> SUFFICES ASSUME alive[p]
               PROVE  /\ t.c.off = t.c.start + t.c.done /\ t.c.done <= t.c.want
                      /\ FromBuffer(file, t.c.start, p, 0, t.c.done, others[p])
    OBVIOUS
  <2>1. FromBuffer(file, t.c.start, p, 0, t.c.done, others[p])
    BY <1>2, Zenon
  <2>2. t.c.off = t.c.start + t.c.done
    <3>1. s.c.off = s.c.start + s.c.done
      OBVIOUS
    <3>2. s.c.off + n = s.c.start + (s.c.done + n)
      BY <1>3, <3>1, SMTT(30)
    <3>. QED BY <1>2, <3>2
  <2>3. t.c.done <= t.c.want
    BY <1>2, Zenon
  <2>. QED BY <2>1, <2>2, <2>3
<1>7. CASE t.c.done >= t.c.want
  <2>1. alive[p] => Ends(t.c, FALSE, file, others[p], p)
    <3> SUFFICES ASSUME alive[p] PROVE Ends(t.c, FALSE, file, others[p], p)
      BY Zenon
    <3>1. t.c.done = t.c.want
      BY <1>3, <1>6, <1>7, SMTT(30)
    <3>. QED BY <1>2, <1>6, <3>1, Zenon DEF Ends
  <2>2. Good(serv_sys_write_end(t, p, FALSE), p)
    <3>1. Mine(t, p) /\ (alive[p] => <<p, "heap">> \notin t.held)
      BY <1>2, StillMine
    <3>. QED BY <1>2, <1>4, <1>5, <2>1, <3>1, WriteEndGood, Zenon
  <2>. QED BY <1>1, <1>7, <2>2, Zenon DEF u
<1>8. CASE ~(t.c.done >= t.c.want)
  <2>1. t.c.done < t.c.want
    BY <1>3, <1>8, SMTT(30)
  <2>2. u = Pieced(t, p)
    BY <1>1, <1>8, Zenon
  <2>3. /\ u \in State /\ u.held = t.held /\ u.ub = t.ub /\ Same(u.c, t.c)
        /\ u.c.at = "copyin" /\ u.c.len > 0 /\ Len(u.c.data) = u.c.len
        /\ u.c.done + u.c.len <= u.c.want
        /\ \A k \in 1 .. u.c.len : u.c.data[k] = Byte(p, u.c.done + k)
    <3>1. HasPiece(u, t, p)
      BY <1>2, <2>1, <2>2, NextPieceEffect, Zenon
    <3>. QED BY <3>1, Zenon DEF HasPiece
  <2>4. u.c \in Cont /\ u.c.call = "write" /\ (alive[p] => ~u.c.err)
    BY <1>2, <2>3, StateFields, Zenon DEF Same
  <2>5. Placed(u.c, file)
    <3>1. u.c.off <= Len(file)
      BY <1>5, <2>3 DEF Same
    <3>. QED BY <2>3, <2>4, <3>1 DEF Placed, Stage
  <2>6. Kept(u.c, u.held, alive[p], torn, p)
    <3>1. alive[p] => <<p, "heap">> \notin u.held
      BY <1>2, <2>3
    <3>. QED BY <2>3, <2>4, <3>1 DEF Kept
  <2>7. alive[p] => InFlight(u.c, file, others[p], p)
    <3> SUFFICES ASSUME alive[p] PROVE InFlight(u.c, file, others[p], p)
      OBVIOUS
    <3>1. /\ u.c.off = u.c.start + u.c.done /\ u.c.done <= u.c.want
          /\ FromBuffer(file, u.c.start, p, 0, u.c.done, others[p])
      BY <1>6, <2>3, Zenon DEF Same
    <3>2. Writes(u.c, file, others[p], p)
      BY <2>3, <3>1, Zenon DEF Writes
    <3>. QED BY <2>3, <2>4, <3>2, Zenon DEF InFlight
  <2>8. Own(u.c, u.held, alive[p], torn, file, others[p], p)
    BY <2>5, <2>6, <2>7 DEF Own
  <2>9. Mine(u, p) /\ (u.ub => torn)
    <3>1. u.held \subseteq s.held /\ u.c.call = s.c.call
      BY <1>2, <2>3 DEF Same
    <3>. QED BY <1>4, <2>3, <3>1, StillMine
  <2>. QED BY <2>3, <2>8, <2>9 DEF Good, u
<1>. QED BY <1>7, <1>8

-----------------------------------------------------------------------------
(* The other handlers.                                                     *)

\* What the handlers are given.
Ready(s, p) ==
    /\ s \in State /\ alive[p] \in BOOLEAN /\ file \in Seq(Datum) /\ (s.ub => torn)
    /\ Mine(s, p) /\ Own(s.c, s.held, alive[p], torn, file, others[p], p)

\* u is s with another place, length, buffer, cookie and position.
Placing(u, s, w, data, cookie, pos) ==
    /\ u \in State /\ u.held = s.held /\ u.ub = s.ub /\ Same(u.c, s.c) /\ u.c.at = w
    /\ u.c.len = s.c.len /\ u.c.data = data /\ u.c.cookie = cookie /\ u.c.pos = pos

\* A call goes on to wait for something else.
LEMMA AtEffect ==
  ASSUME NEW s \in State, NEW w \in Where, NEW u, u = [s EXCEPT !.c.at = w]
  PROVE  Placing(u, s, w, s.c.data, s.c.cookie, s.c.pos)
<1> DEFINE d == [s.c EXCEPT !.at = w]
<1>1. s.c \in Cont
  BY StateFields
<1>2. d \in Cont /\ Same(d, s.c) /\ d.at = w /\ d.len = s.c.len /\ d.data = s.c.data
      /\ d.cookie = s.c.cookie /\ d.pos = s.c.pos
  BY <1>1, Zenon DEF Cont, Same
<1>3. u = [s EXCEPT !.c = d]
  BY DEF State
<1> HIDE DEF d
<1>4. u \in State /\ u.held = s.held /\ u.ub = s.ub /\ u.c = d
  BY <1>2, <1>3, Zenon DEF State
<1>. QED BY <1>2, <1>4, Zenon DEF Placing

\* The same with something to copy out.
LEMMA DataEffect ==
  ASSUME NEW s \in State, NEW w \in Where, NEW b \in Seq(Datum), NEW u,
         u = [s EXCEPT !.c = [s.c EXCEPT !.at = w, !.data = b]]
  PROVE  Placing(u, s, w, b, s.c.cookie, s.c.pos)
<1> DEFINE d == [s.c EXCEPT !.at = w, !.data = b]
<1>1. s.c \in Cont
  BY StateFields
<1>2. d \in Cont /\ Same(d, s.c) /\ d.at = w /\ d.len = s.c.len /\ d.data = b
      /\ d.cookie = s.c.cookie /\ d.pos = s.c.pos
  BY <1>1, Zenon DEF Cont, Same
<1>3. u = [s EXCEPT !.c = d]
  BY DEF State
<1> HIDE DEF d
<1>4. u \in State /\ u.held = s.held /\ u.ub = s.ub /\ u.c = d
  BY <1>2, <1>3, Zenon DEF State
<1>. QED BY <1>2, <1>4, Zenon DEF Placing

\* The same with the next place in the directory.
LEMMA WalkEffect ==
  ASSUME NEW s \in State, NEW n \in Nat, NEW u, n <= s.c.pos,
         u = [s EXCEPT !.c = [s.c EXCEPT !.at = "wire", !.cookie = @ + n, !.pos = @ - n]]
  PROVE  Placing(u, s, "wire", s.c.data, s.c.cookie + n, s.c.pos - n)
<1> DEFINE d == [s.c EXCEPT !.at = "wire", !.cookie = @ + n, !.pos = @ - n]
<1>1. s.c \in Cont /\ s.c.cookie \in Nat /\ s.c.pos \in Int
  BY StateFields, ContFields, Zenon
<1>2. s.c.cookie + n \in Nat /\ s.c.pos - n \in Int /\ "wire" \in Where
  BY <1>1 DEF Where
<1>3. d \in Cont /\ Same(d, s.c) /\ d.at = "wire" /\ d.len = s.c.len /\ d.data = s.c.data
      /\ d.cookie = s.c.cookie + n /\ d.pos = s.c.pos - n
  BY <1>1, <1>2, Zenon DEF Cont, Same
<1>4. u = [s EXCEPT !.c = d]
  BY DEF State
<1> HIDE DEF d
<1>5. u \in State /\ u.held = s.held /\ u.ub = s.ub /\ u.c = d
  BY <1>3, <1>4, Zenon DEF State
<1>. QED BY <1>3, <1>5, Zenon DEF Placing

\* What was copied out is what the call is about.
LEMMA CopiedOutEffect ==
  ASSUME NEW s \in State, NEW u, u = CopiedOut(s)
  PROVE  /\ u \in State /\ u.held = s.held /\ u.ub = s.ub /\ u.c.call = s.c.call
         /\ u.c.off = s.c.off /\ u.c.asked = s.c.asked /\ u.c.got = s.c.data
<1> DEFINE d == [s.c EXCEPT !.got = s.c.data, !.done = 1]
<1>1. s.c \in Cont /\ s.c.data \in Seq(Datum) /\ 1 \in Nat
  BY StateFields, ContFields
<1>2. d \in Cont /\ d.call = s.c.call /\ d.off = s.c.off /\ d.asked = s.c.asked
      /\ d.got = s.c.data
  BY <1>1, Zenon DEF Cont
<1>3. u = [s EXCEPT !.c = d]
  BY DEF State, CopiedOut
<1> HIDE DEF d
<1>4. u \in State /\ u.held = s.held /\ u.ub = s.ub /\ u.c = d
  BY <1>2, <1>3, Zenon DEF State
<1>. QED BY <1>2, <1>4, Zenon

\* A call that waits for something else keeps its buffers.
LEMMA PlacingGood ==
  ASSUME NEW p \in Proc, NEW s \in State, NEW u, NEW w \in Where, NEW b, NEW x, NEW y,
         Ready(s, p), Placing(u, s, w, b, x, y), s.c.at # "kbuf", w \notin {"kbuf", "copyin", "done"},
         alive[p], Stage(u.c), InFlight(u.c, file, others[p], p),
         u.c.call = "write" /\ w = "wire" =>
             u.c.len > 0 /\ Len(u.c.data) = u.c.len /\ u.c.done + u.c.len <= u.c.want
  PROVE  Good(u, p)
<1>1. /\ u \in State /\ u.held = s.held /\ u.ub = s.ub /\ Same(u.c, s.c) /\ u.c.at = w
      /\ u.c \in Cont
  BY StateFields DEF Placing
<1>2. Kept(s.c, s.held, alive[p], torn, p) /\ s.c.off <= Len(file)
  BY DEF Ready, Own, Placed
<1>3. Kept(u.c, u.held, alive[p], torn, p)
  BY <1>1, <1>2 DEF Kept, Same
<1>4. Placed(u.c, file)
  BY <1>1, <1>2 DEF Placed, Same
<1>5. Mine(u, p)
  BY <1>1, StillMine DEF Same, Ready
<1>. QED BY <1>1, <1>3, <1>4, <1>5, Zenon DEF Good, Own, Ready

\* An answer with names: the one asked for is copied out, the walk goes on, or the directory
\* ends (_nfs_dev_getdirent_handler).
LEMMA GetdirentGood ==
  ASSUME NEW p \in Proc, NEW s \in State, Ready(s, p), alive[p], s.c.call = "getdirent",
         s.c.at = "reply", ~s.c.err
  PROVE  Good(_nfs_dev_getdirent_handler(s, p, s.c.len), p)
<1> DEFINE n == s.c.len
           u == _nfs_dev_getdirent_handler(s, p, n)
<1>1. u = IF n > s.c.pos
          THEN [s EXCEPT !.c = [s.c EXCEPT !.at = "copyout", !.data = <<NameAt(s.c)>>]]
          ELSE IF n = 0 THEN Answer(s, p, s.c.pos # 1)
          ELSE [s EXCEPT !.c = [s.c EXCEPT !.at = "wire", !.cookie = @ + n, !.pos = @ - n]]
  BY DEF _nfs_dev_getdirent_handler
<1> HIDE DEF u
<1>2. /\ n \in Nat /\ s.c.pos \in Int /\ s.c.cookie \in Nat /\ s.c.asked \in Int
      /\ Names \in Nat
  BY StateFields, ContFields, FileIOAssumption
<1>3. /\ s.c.done = 0 /\ s.c.cookie + s.c.pos = s.c.asked /\ s.c.cookie + n <= Names
      /\ s.c.pos < 0 => s.c.asked < 0
  BY DEF Ready, Own, InFlight, Walks
<1>4. CASE n > s.c.pos
  <2> DEFINE b == <<NameAt(s.c)>>
  <2>1. NameAt(s.c) \in Int /\ (s.c.asked >= 0 => NameAt(s.c) = s.c.asked /\ s.c.asked < Names)
    BY <1>2, <1>3, <1>4 DEF NameAt, GARBAGE
  <2>2. b \in Seq(Datum) /\ "copyout" \in Where /\ (s.c.asked >= 0 => b = <<s.c.asked>>)
    BY <2>1 DEF Datum, Where
  <2>3. u = [s EXCEPT !.c = [s.c EXCEPT !.at = "copyout", !.data = b]]
    BY <1>1, <1>4, Zenon
  <2> HIDE DEF b
  <2>4. Placing(u, s, "copyout", b, s.c.cookie, s.c.pos)
    BY <2>2, <2>3, DataEffect, Zenon
  <2>5. /\ u.c.call = "getdirent" /\ ~u.c.err /\ u.c.at = "copyout" /\ u.c.done = 0
        /\ u.c.asked >= 0 => u.c.data = <<u.c.asked>> /\ u.c.asked < Names
    BY <1>3, <2>1, <2>2, <2>4, Zenon DEF Placing, Same
  <2>6. Stage(u.c) /\ InFlight(u.c, file, others[p], p)
    BY <2>5 DEF Stage, InFlight, Walks
  <2>7. Good(u, p)
    BY <2>2, <2>4, <2>5, <2>6, PlacingGood
  <2>. QED BY <2>7 DEF u
<1>5. CASE ~(n > s.c.pos) /\ n = 0
  <2>1. (s.c.pos # 1) \in BOOLEAN
    OBVIOUS
  <2>2. <<p, "frame">> \notin s.held /\ <<p, "heap">> \notin s.held /\ s.c.off <= Len(file)
    BY DEF Ready, Own, Kept, Placed
  <2>3. Ends(s.c, s.c.pos # 1, file, others[p], p)
    BY <1>3 DEF Ends
  <2>4. Good(Answer(s, p, s.c.pos # 1), p)
    BY <2>1, <2>2, <2>3, AnswerGood, Zenon DEF Ready
  <2>. QED BY <1>1, <1>5, <2>4 DEF u
<1>6. CASE ~(n > s.c.pos) /\ n # 0
  <2>1. u = [s EXCEPT !.c = [s.c EXCEPT !.at = "wire", !.cookie = @ + n, !.pos = @ - n]]
    BY <1>1, <1>6
  <2>2. n <= s.c.pos
    BY <1>2, <1>6
  <2>3. Placing(u, s, "wire", s.c.data, s.c.cookie + n, s.c.pos - n)
    BY <1>2, <2>1, <2>2, WalkEffect, Zenon
  <2>4. /\ u.c.call = "getdirent" /\ ~u.c.err /\ u.c.at = "wire" /\ u.c.done = 0
        /\ u.c.asked = s.c.asked /\ u.c.cookie = s.c.cookie + n /\ u.c.pos = s.c.pos - n
    BY <1>3, <2>3, Zenon DEF Placing, Same
  <2>5. u.c.cookie + u.c.pos = u.c.asked /\ u.c.cookie <= Names /\ ~(u.c.pos < 0)
    BY <1>2, <1>3, <2>2, <2>4
  <2>6. Stage(u.c) /\ InFlight(u.c, file, others[p], p)
    BY <2>4, <2>5 DEF Stage, InFlight, Walks
  <2>7. Good(u, p)
    <3>1. "wire" \in Where
      BY DEF Where
    <3>. QED BY <2>3, <2>4, <2>6, <3>1, PlacingGood
  <2>. QED BY <2>7 DEF u
<1>. QED BY <1>4, <1>5, <1>6

\* What the handlers of nfs_dev.c do with an answer.
LEMMA HandlerGood ==
  ASSUME NEW p \in Proc, NEW s \in State, Ready(s, p), alive[p], s.c.at = "reply", ~s.c.err
  PROVE  Good(HandlerRuns(s, p), p)
<1>1. /\ Placed(s.c, file) /\ Kept(s.c, s.held, alive[p], torn, p)
      /\ InFlight(s.c, file, others[p], p) /\ s.c \in Cont
  BY DEF Ready, Own, Placed
<1>2. /\ s.c.off \in Nat /\ s.c.start \in Nat /\ s.c.done \in Nat /\ s.c.len \in Nat
      /\ s.c.want \in Nat
  BY <1>1, ContFields, Zenon
<1>3. CASE s.c.call = "write"
  <2>1. /\ s.c.off = s.c.start + s.c.done /\ FromBuffer(file, s.c.start, p, 0, s.c.done, others[p])
        /\ s.c.done + s.c.len <= s.c.want /\ s.c.off + s.c.len <= Len(file)
        /\ FromBuffer(file, s.c.off, p, s.c.done, s.c.len, others[p])
    BY <1>1, <1>3 DEF InFlight, Writes
  <2>2. FromBuffer(file, s.c.start, p, 0, s.c.done + s.c.len, others[p])
    BY <1>2, <2>1, FromBufferMore, SMTT(30)
  <2>3. <<p, "heap">> \notin s.held
    BY <1>1, <1>3 DEF Kept
  <2>4. Good(serv_sys_write_copyin(s, p, s.c.len), p)
    BY <1>2, <1>3, <2>1, <2>2, <2>3, WriteCopyinGood, Zenon DEF Ready
  <2>. QED BY <1>3, <2>4 DEF HandlerRuns
<1>4. CASE s.c.call = "getdirent"
  <2>1. Good(_nfs_dev_getdirent_handler(s, p, s.c.len), p)
    BY <1>4, GetdirentGood
  <2>. QED BY <1>4, <2>1 DEF HandlerRuns
<1>5. CASE s.c.call \notin {"write", "getdirent"}
  <2> DEFINE u == [s EXCEPT !.c.at = "copyout"]
  <2>1. u = HandlerRuns(s, p)
    BY <1>5 DEF HandlerRuns
  <2>2. "copyout" \in Where /\ s.c.call \in {"read", "stat"}
    BY <1>1, <1>5, ContFields DEF Where, Call, Placed, Stage
  <2>3. Placing(u, s, "copyout", s.c.data, s.c.cookie, s.c.pos)
    BY <2>2, AtEffect, Zenon
  <2> HIDE DEF u
  <2>4. /\ u.c.call = s.c.call /\ u.c.want = s.c.want /\ u.c.done = s.c.done
        /\ u.c.got = s.c.got /\ u.c.off = s.c.off /\ u.c.start = s.c.start
        /\ u.c.err = s.c.err /\ u.c.at = "copyout" /\ u.c.data = s.c.data
    BY <2>3, Zenon DEF Placing, Same
  <2>5. u.c.call = "read" => Reads(u.c, file, others[p])
    <3> SUFFICES ASSUME s.c.call = "read" PROVE Reads(u.c, file, others[p])
      BY <2>4
    <3>1. Reads(s.c, file, others[p])
      BY <1>1 DEF InFlight
    <3>. QED BY <2>4, <3>1, Zenon DEF Reads
  <2>6. Stage(u.c) /\ InFlight(u.c, file, others[p], p)
    BY <2>2, <2>4, <2>5 DEF Stage, InFlight
  <2>7. Good(u, p)
    BY <2>2, <2>3, <2>4, <2>6, PlacingGood
  <2>. QED BY <2>1, <2>7
<1>. QED BY <1>3, <1>4, <1>5

\* What calls do when memory has been copied in or out.
LEMMA AfterCopyGood ==
  ASSUME NEW p \in Proc, NEW s \in State, Ready(s, p), alive[p],
         s.c.at \in {"copyin", "copyout"}
  PROVE  Good(AfterCopy(s, p), p)
<1>1. /\ Placed(s.c, file) /\ Kept(s.c, s.held, alive[p], torn, p)
      /\ InFlight(s.c, file, others[p], p) /\ s.c \in Cont /\ s.c.off <= Len(file)
  BY DEF Ready, Own, Placed
<1>2. ~s.c.err /\ "wire" \in Where /\ "copyout" \in Where
  BY <1>1 DEF InFlight, Where
<1>3. CASE s.c.call = "read"
  <2>1. s.c.at = "copyout"
    BY <1>1, <1>3 DEF Placed, Stage
  <2>2. Good(_nfs_dev_read_end(s, p), p)
    BY <1>3, <2>1, ReadEndGood, Zenon DEF Ready
  <2>. QED BY <1>3, <2>2 DEF AfterCopy
<1>4. CASE s.c.call = "write"
  <2> DEFINE u == [s EXCEPT !.c.at = "wire"]
  <2>1. u = AfterCopy(s, p)
    BY <1>4 DEF AfterCopy
  <2>2. s.c.at = "copyin"
    BY <1>1, <1>4 DEF Placed, Stage
  <2>3. Placing(u, s, "wire", s.c.data, s.c.cookie, s.c.pos)
    BY <1>2, AtEffect, Zenon
  <2> HIDE DEF u
  <2>4. /\ u.c.call = s.c.call /\ u.c.want = s.c.want /\ u.c.done = s.c.done
        /\ u.c.off = s.c.off /\ u.c.start = s.c.start /\ u.c.len = s.c.len
        /\ u.c.err = s.c.err /\ u.c.at = "wire" /\ u.c.data = s.c.data
    BY <2>3, Zenon DEF Placing, Same
  <2>5. Writes(u.c, file, others[p], p)
    <3>1. Writes(s.c, file, others[p], p)
      BY <1>1, <1>4 DEF InFlight
    <3>2. /\ s.c.off = s.c.start + s.c.done /\ s.c.done <= s.c.want
          /\ FromBuffer(file, s.c.start, p, 0, s.c.done, others[p])
          /\ \A k \in 1 .. s.c.len : s.c.data[k] = Byte(p, s.c.done + k)
      BY <2>2, <3>1 DEF Writes
    <3>. QED BY <2>4, <3>2, Zenon DEF Writes
  <2>6. Stage(u.c) /\ InFlight(u.c, file, others[p], p)
    BY <1>2, <1>4, <2>4, <2>5 DEF Stage, InFlight
  <2>7. u.c.len > 0 /\ Len(u.c.data) = u.c.len /\ u.c.done + u.c.len <= u.c.want
    BY <1>1, <1>4, <2>2, <2>4 DEF Placed
  <2>8. Good(u, p)
    BY <1>2, <2>2, <2>3, <2>6, <2>7, PlacingGood
  <2>. QED BY <2>1, <2>8
<1>5. CASE s.c.call \in {"getdirent", "stat"} /\ s.c.at = "copyout"
  <2> DEFINE t == CopiedOut(s)
  <2>1. t = CopiedOut(s)
    OBVIOUS
  <2> HIDE DEF t
  <2>2. /\ t \in State /\ t.held = s.held /\ t.ub = s.ub /\ t.c.call = s.c.call
        /\ t.c.off = s.c.off /\ t.c.asked = s.c.asked /\ t.c.got = s.c.data
    BY <2>1, CopiedOutEffect, Zenon
  <2>3. Ends(t.c, FALSE, file, others[p], p)
    BY <1>1, <1>5, <2>2 DEF Ends, InFlight, Walks
  <2>4. /\ <<p, "frame">> \notin t.held /\ Mine(t, p) /\ (t.ub => torn)
        /\ t.c.off <= Len(file) /\ alive[p] \in BOOLEAN /\ file \in Seq(Datum)
        /\ s.c.call = "getdirent" => <<p, "heap">> \notin t.held
    <3>1. Mine(t, p)
      BY <2>2, StillMine DEF Ready
    <3>. QED BY <1>1, <1>5, <2>2, <3>1 DEF Ready, Kept
  <2>5. CASE s.c.call = "getdirent"
    <3>1. Good(Answer(t, p, FALSE), p)
      BY <2>2, <2>3, <2>4, <2>5, AnswerGood, Zenon
    <3>. QED BY <2>1, <2>5, <3>1, Zenon DEF AfterCopy
  <2>6. CASE s.c.call = "stat"
    <3>1. Good(serv_sys_stat_end(t, p, FALSE), p)
      BY <2>2, <2>3, <2>4, <2>6, StatEndGood, Zenon
    <3>. QED BY <1>5, <2>1, <2>6, <3>1, Zenon DEF AfterCopy
  <2>. QED BY <1>5, <2>5, <2>6
<1>6. CASE s.c.call = "stat" /\ s.c.at = "copyin"
  <2> DEFINE u == vfs_stat(s)
  <2>1. u = AfterCopy(s, p)
    BY <1>6 DEF AfterCopy
  <2>2. \/ u = [s EXCEPT !.c = [s.c EXCEPT !.at = "copyout", !.data = <<GARBAGE>>]]
        \/ u = [s EXCEPT !.c.at = "wire"]
    BY DEF vfs_stat
  <2> HIDE DEF u
  <2>3. <<GARBAGE>> \in Seq(Datum)
    BY DEF GARBAGE, Datum
  <2>4. \E w \in {"copyout", "wire"}, b \in Seq(Datum) : Placing(u, s, w, b, s.c.cookie, s.c.pos)
    <3>1. CASE u = [s EXCEPT !.c = [s.c EXCEPT !.at = "copyout", !.data = <<GARBAGE>>]]
      BY <1>2, <2>3, <3>1, DataEffect, Zenon
    <3>2. CASE u = [s EXCEPT !.c.at = "wire"]
      <4>1. s.c.data \in Seq(Datum)
        BY <1>1, ContFields, Zenon
      <4>. QED BY <1>2, <3>2, <4>1, AtEffect, Zenon
    <3>. QED BY <2>2, <3>1, <3>2
  <2>5. PICK w \in {"copyout", "wire"}, b \in Seq(Datum) : Placing(u, s, w, b, s.c.cookie, s.c.pos)
    BY <2>4
  <2>6. u.c.call = "stat" /\ ~u.c.err /\ u.c.at = w
    BY <1>2, <1>6, <2>5, Zenon DEF Placing, Same
  <2>7. Stage(u.c) /\ InFlight(u.c, file, others[p], p)
    BY <2>6 DEF Stage, InFlight
  <2>8. Good(u, p)
    BY <1>2, <1>6, <2>5, <2>6, <2>7, PlacingGood
  <2>. QED BY <2>1, <2>8
<1>7. s.c.call \in {"read", "write"} \/ (s.c.call \in {"getdirent", "stat"} /\ s.c.at = "copyout")
      \/ (s.c.call = "stat" /\ s.c.at = "copyin")
  BY <1>1, ContFields DEF Placed, Stage, Call
<1>. QED BY <1>3, <1>4, <1>5, <1>6, <1>7

-----------------------------------------------------------------------------
(* The steps in which a handler runs.                                      *)

\* What the handlers are given in a state of the invariant.
LEMMA NowReady ==
  ASSUME IInv, ~ub, NEW p \in Proc
  PROVE  /\ Ready(Now(p), p) /\ Now(p) \in State
         /\ Now(p).c = cont[p] /\ Now(p).held = held /\ Now(p).ub = ub
<1>1. Types /\ Own(cont[p], held, alive[p], torn, file, others[p], p)
  BY DEF IInv
<1>2. cont[p] \in Cont /\ held \in Buffers /\ ub \in BOOLEAN /\ alive[p] \in BOOLEAN
      /\ file \in Seq(Datum)
  BY <1>1 DEF Types, Buffers
<1>3. Now(p).c = cont[p] /\ Now(p).held = held /\ Now(p).ub = ub
  BY DEF Now
<1>4. Now(p) \in State
  BY <1>2, Zenon DEF Now, State
<1>5. Mine(Now(p), p)
  BY <1>3 DEF Mine
<1>. QED BY <1>1, <1>2, <1>3, <1>4, <1>5, Zenon DEF Ready

\* frame_alloc calls back serv_sys_write_get_kbuf.
LEMMA KbufGood ==
  ASSUME IInv, NEW p \in Proc, NEW ok \in BOOLEAN, serv_sys_write_get_kbuf(p, ok)
  PROVE  \E u : Become(p, u) /\ Good(u, p)
<1> DEFINE s == Now(p)
           t == [s EXCEPT !.held = @ \cup {<<p, "frame">>}]
           u == IF ok THEN serv_sys_write_copyin(t, p, 0) ELSE serv_sys_write_end(s, p, TRUE)
<1>1. Become(p, u) /\ ~ub /\ cont[p].at = "kbuf"
  BY Zenon DEF serv_sys_write_get_kbuf
<1>2. Ready(s, p) /\ s \in State /\ s.c = cont[p] /\ s.held = held /\ s.ub = ub
  BY <1>1, NowReady
<1> HIDE DEF s
<1>3. /\ Placed(s.c, file) /\ Kept(s.c, s.held, alive[p], torn, p) /\ s.c \in Cont
      /\ alive[p] => InFlight(s.c, file, others[p], p)
  BY <1>1, <1>2 DEF Ready, Own, Placed
<1>4. s.c.call = "write" /\ s.c.off <= Len(file) /\ s.c.at = "kbuf"
  BY <1>1, <1>2, <1>3, ContFields DEF Placed, Stage, Call
<1>5. /\ alive[p] => <<p, "heap">> \notin s.held
      /\ ~alive[p] => torn
  BY <1>3, <1>4 DEF Kept, Memory
<1>6. CASE ok
  <2>1. t \in State /\ t.c = s.c /\ t.held = s.held \cup {<<p, "frame">>} /\ t.ub = s.ub
    BY <1>2 DEF State, Buffers
  <2> HIDE DEF t
  <2>2. Mine(t, p) /\ (alive[p] => <<p, "heap">> \notin t.held)
    BY <1>2, <1>5, <2>1 DEF Mine, Ready
  <2>3. s.c.off \in Nat /\ s.c.done \in Nat /\ s.c.off + 0 = s.c.off /\ s.c.done + 0 = s.c.done
    BY <1>3, ContFields
  <2>4. alive[p] => /\ ~s.c.err /\ s.c.off = s.c.start + s.c.done /\ s.c.done <= s.c.want
                    /\ FromBuffer(file, s.c.start, p, 0, s.c.done, others[p])
    BY <1>3, <1>4 DEF InFlight, Writes
  <2>5. /\ alive[p] \in BOOLEAN /\ file \in Seq(Datum) /\ (t.ub => torn) /\ t.c.call = "write"
        /\ t.c.off + 0 <= Len(file)
        /\ alive[p] => /\ <<p, "heap">> \notin t.held /\ ~t.c.err
                       /\ t.c.off = t.c.start + t.c.done /\ t.c.done + 0 <= t.c.want
                       /\ FromBuffer(file, t.c.start, p, 0, t.c.done + 0, others[p])
    BY <1>2, <1>4, <2>1, <2>2, <2>3, <2>4 DEF Ready
  <2>6. Good(serv_sys_write_copyin(t, p, 0), p)
    <3>1. 0 \in Nat
      OBVIOUS
    <3>. QED BY <1>5, <2>1, <2>2, <2>5, <3>1, WriteCopyinGood
  <2>. QED BY <1>1, <1>6, <2>6
<1>7. CASE ~ok
  <2>1. alive[p] => Ends(s.c, TRUE, file, others[p], p)
    BY <1>3, InFlightEnds, Zenon
  <2>2. Good(serv_sys_write_end(s, p, TRUE), p)
    BY <1>2, <1>4, <1>5, <2>1, WriteEndGood, Zenon DEF Ready
  <2>. QED BY <1>1, <1>7, <2>2, Zenon
<1>. QED BY <1>6, <1>7

\* copyin or copyout calls back.
LEMMA CopyEndsGood ==
  ASSUME IInv, NEW p \in Proc, NEW ok \in BOOLEAN, CopyEnds(p, ok)
  PROVE  \E u : Become(p, u) /\ Good(u, p)
<1> DEFINE s == Now(p)
           u == IF ~ok THEN Fail(s, p) ELSE IF ~alive[p] THEN [s EXCEPT !.ub = TRUE]
                ELSE AfterCopy(s, p)
<1>1. Become(p, u) /\ ~ub /\ s.c.at \in {"copyin", "copyout"}
  BY DEF CopyEnds
<1>2. Ready(s, p) /\ s \in State /\ s.ub = ub
  BY <1>1, NowReady
<1> HIDE DEF s
<1>3. CASE ~ok
  <2>1. Good(Fail(s, p), p)
    BY <1>1, <1>2, FailGood DEF Ready
  <2>. QED BY <1>1, <1>3, <2>1
<1>4. CASE ok /\ ~alive[p]
  <2> DEFINE w == [s EXCEPT !.ub = TRUE]
  <2>1. w \in State /\ w.c = s.c /\ w.held = s.held
    BY <1>2, Zenon DEF State
  <2> HIDE DEF w
  <2>2. torn
    BY <1>1, <1>2, <1>4 DEF Ready, Own, Kept, Memory
  <2>3. Mine(w, p)
    BY <1>2, <2>1, StillMine DEF Ready
  <2>4. Good(w, p)
    BY <1>2, <1>4, <2>1, <2>2, <2>3, Zenon DEF Good, Ready
  <2>. QED BY <1>1, <1>4, <2>4 DEF w
<1>5. CASE ok /\ alive[p]
  <2>1. Good(AfterCopy(s, p), p)
    BY <1>1, <1>2, <1>5, AfterCopyGood
  <2>. QED BY <1>1, <1>5, <2>1
<1>. QED BY <1>3, <1>4, <1>5

\* A request cannot be sent.
LEMMA RefusedGood ==
  ASSUME IInv, NEW p \in Proc, RequestRefused(p)
  PROVE  \E u : Become(p, u) /\ Good(u, p)
<1> DEFINE s == Now(p)
           u == IF cont[p].call = "getdirent" /\ cont[p].cookie # 0 THEN Answer(s, p, FALSE)
                ELSE Fail(s, p)
<1>1. Become(p, u) /\ ~ub /\ alive[p] /\ cont[p].at = "wire"
  BY Zenon DEF RequestRefused
<1>2. Ready(s, p) /\ s \in State /\ s.c = cont[p]
  BY <1>1, NowReady
<1> HIDE DEF s
<1>3. CASE cont[p].call = "getdirent" /\ cont[p].cookie # 0
  <2>1. /\ <<p, "frame">> \notin s.held /\ <<p, "heap">> \notin s.held /\ s.c.off <= Len(file)
        /\ s.c.done = 0 /\ s.c.call = "getdirent"
    BY <1>1, <1>2, <1>3 DEF Ready, Own, Kept, Placed, InFlight, Walks
  <2>2. Ends(s.c, FALSE, file, others[p], p)
    BY <2>1 DEF Ends
  <2>3. Good(Answer(s, p, FALSE), p)
    BY <1>2, <2>1, <2>2, AnswerGood, Zenon DEF Ready
  <2>. QED BY <1>1, <1>3, <2>3, Zenon
<1>4. CASE ~(cont[p].call = "getdirent" /\ cont[p].cookie # 0)
  <2>1. Good(Fail(s, p), p)
    BY <1>1, <1>2, FailGood, Zenon DEF Ready
  <2>. QED BY <1>1, <1>4, <2>1, Zenon
<1>. QED BY <1>3, <1>4

\* An answer of the server comes, in time or late.
LEMMA ArrivesGood ==
  ASSUME IInv, NEW p \in Proc, AnswerArrives(p)
  PROVE  \E u : Become(p, u) /\ Good(u, p)
<1> DEFINE s == Now(p)
           u == IF cont[p].err \/ ~alive[p] THEN Fail(s, p) ELSE HandlerRuns(s, p)
<1>1. Become(p, u) /\ ~ub /\ cont[p].at = "reply"
  BY DEF AnswerArrives
<1>2. Ready(s, p) /\ s \in State /\ s.c = cont[p]
  BY <1>1, NowReady
<1> HIDE DEF s
<1>3. CASE cont[p].err \/ ~alive[p]
  <2>1. Good(Fail(s, p), p)
    BY <1>1, <1>2, FailGood DEF Ready
  <2>. QED BY <1>1, <1>3, <2>1
<1>4. CASE ~(cont[p].err \/ ~alive[p])
  <2>1. Good(HandlerRuns(s, p), p)
    BY <1>1, <1>2, <1>4, HandlerGood
  <2>. QED BY <1>1, <1>4, <2>1
<1>. QED BY <1>3, <1>4

\* Every step of a call of p in which only its handler runs keeps the invariant.
LEMMA BecomeKeeps ==
  ASSUME IInv, NEW p \in Proc, NEW u, Become(p, u), Good(u, p),
         UNCHANGED <<alive, file, calls, others, torn>>
  PROVE  IInv'
<1>1. /\ u \in State /\ (u.ub => torn) /\ Mine(u, p) /\ u.c \in Cont
      /\ u.held \in Buffers /\ u.ub \in BOOLEAN
      /\ Own(u.c, u.held, alive[p], torn, file, others[p], p)
  BY StateFields DEF Good
<1>2. cont' = [cont EXCEPT ![p] = u.c] /\ held' = u.held /\ ub' = u.ub
  BY DEF Become
<1>3. Types
  BY DEF IInv
<1>4. Types'
  <2>1. cont' \in [Proc -> Cont]
    BY <1>1, <1>2, <1>3, Zenon DEF Types
  <2>2. held' \subseteq Proc \X {"frame", "heap"} /\ ub' \in BOOLEAN
    BY <1>1, <1>2, Zenon DEF Buffers
  <2>. QED BY <1>3, <2>1, <2>2, Zenon DEF Types
<1>5. ASSUME NEW q \in Proc
      PROVE  Own(cont'[q], held', alive'[q], torn', file', others'[q], q)
  <2>1. CASE q = p
    <3>1. cont'[q] = u.c
      BY <1>2, <1>3, <2>1 DEF Types
    <3>. QED BY <1>1, <1>2, <2>1, <3>1, Zenon
  <2>2. CASE q # p
    <3>1. cont'[q] = cont[q]
      BY <1>2, <1>3, <2>2 DEF Types
    <3>2. Own(cont[q], held, alive[q], torn, file, others[q], q)
      BY DEF IInv
    <3>3. Kept(cont[q], u.held, alive[q], torn, q)
      BY <1>1, <2>2, <3>2 DEF Own, Kept, Mine
    <3>4. Own(cont[q], u.held, alive[q], torn, file, others[q], q)
      BY <3>2, <3>3 DEF Own
    <3>. QED BY <1>2, <3>1, <3>4, Zenon
  <2>. QED BY <2>1, <2>2
<1>. QED BY <1>1, <1>2, <1>4, <1>5 DEF IInv
=============================================================================
