--------------------------- MODULE ConsoleProofs ----------------------------
(***************************************************************************)
(* Proofs about reading from the console, for every size of the buffer,    *)
(* set of processes and of read sizes, and for copies that end at once,    *)
(* later or never well.                                                    *)
(*                                                                         *)
(* First what the parts of dev/console.c do to a state: the circular       *)
(* buffer, the invariant as a predicate on the states the handlers work    *)
(* on, and how _con_read, _con_read_part2, _con_read_end and the handler of*)
(* the serial port change them.  Then what each handler does to the        *)
(* invariant, and the theorems.                                            *)
(*                                                                         *)
(* The invariant has three layers, as _con_read_state has limits that the  *)
(* ghost upset records.  Types, and who has the console open, hold always. *)
(* Until a newline comes in the middle of a copy or a reader is destroyed  *)
(* in the middle of a read, at most one read is under way and its token is *)
(* not freed (OneRead).  As long as moreover no input was dropped by a     *)
(* close, the buffer holds what is due, a copy under way has the beginning *)
(* of it, and a read is blocked only before a newline (Due).               *)
(***************************************************************************)
EXTENDS Console, TLAPS

Byte    == Char \cup {NL}
Con     == [buf : [Place -> Byte], size : Int, start : Place, end : Place, handler : BOOLEAN]
Rs      == [opened : BOOLEAN, blocked : BOOLEAN, pid : Proc \cup {NOBODY},
            token : Token \cup {NOTOKEN}, nbytes : Nat]
Copy    == [token : Token, to : Proc, len : Nat, first : Nat, half : {1, 2}, from : Place,
            n : Nat, got : Seq(Byte)]
Last    == [got : Seq(Byte), due : Seq(Byte), to : Proc \cup {NOBODY},
            reader : Proc \cup {NOBODY}]
\* The states that the handlers work on.
State   == [con : Con, rs : Rs, copies : SUBSET Copy, st : [Proc -> {"run", "read", "dead"}],
            freed : SUBSET Token, due : Seq(Byte), last : Last, ub : BOOLEAN]

\* A read that is blocked has a token; the first half of a copy is part of it.
StateOK(c) ==
    /\ c \in State
    /\ c.rs.blocked => c.rs.token \in Token
    /\ \A k \in c.copies : k.first <= k.len

-----------------------------------------------------------------------------
(* The circular buffer.                                                    *)

\* A remainder is determined by its range.
LEMMA RemainderUnique ==
  ASSUME NEW M \in Nat \ {0}, NEW q \in Int, NEW r \in 0 .. (M - 1)
  PROVE  (M * q + r) % M = r
<1> DEFINE a == M * q + r
           d == a \div M
           s == a % M
<1>1. M * q \in Int /\ a \in Int
  OBVIOUS
<1>2. d \in Int /\ s \in 0 .. (M - 1) /\ a = M * d + s
  <2> HIDE DEF a
  <2>. QED BY <1>1
<1>3. M * q - M * d = M * (q - d) /\ M * d \in Int /\ q - d \in Int
  BY <1>2
<1>4. q - d >= 1 => M * (q - d) >= M
  BY <1>2
<1>5. q - d <= -1 => M * (q - d) <= -M
  BY <1>2
<1>6. M * (q - d) = s - r
  <2> HIDE DEF d, s
  <2>. QED BY <1>1, <1>2, <1>3
<1>7. q = d
  <2> HIDE DEF d, s, a
  <2>. QED BY <1>2, <1>3, <1>4, <1>5, <1>6
<1>. QED
  <2>1. M * d = M * q
    BY <1>7
  <2>2. s = r
    <3> HIDE DEF d, s
    <3>. QED BY <1>1, <1>2, <2>1
  <2>. QED BY <2>2

\* A place reduced before a sum and after it is the same place.
LEMMA PlaceSum ==
  ASSUME NEW M \in Nat \ {0}, NEW a \in Nat, NEW b \in Int
  PROVE  ((a % M) + b) % M = (a + b) % M
<1> DEFINE q == a \div M
           r == a % M
           x == r + b
           p == x \div M
           s == x % M
<1>1. q \in Int /\ r \in 0 .. (M - 1) /\ a = M * q + r /\ M * q \in Int
  OBVIOUS
<1>2. x \in Int
  BY <1>1
<1>3. p \in Int /\ s \in 0 .. (M - 1) /\ x = M * p + s /\ M * p \in Int
  <2> HIDE DEF x
  <2>. QED BY <1>2
<1>4. a + b = M * q + M * p + s
  <2> HIDE DEF q, r, p, s
  <2>. QED BY <1>1, <1>3
<1>5. M * q + M * p = M * (q + p) /\ q + p \in Int
  BY <1>1, <1>3
<1>6. (M * (q + p) + s) % M = s
  <2> HIDE DEF q, p, s
  <2>. QED BY <1>3, <1>5, RemainderUnique, SMTT(30)
<1>. QED
  <2> HIDE DEF q, p
  <2>. QED BY <1>4, <1>5, <1>6, Zenon

\* Fewer than M places in a row are different places.
LEMMA PlacesDiffer ==
  ASSUME NEW M \in Nat \ {0}, NEW a \in Nat, NEW b \in Nat, a < b, b < a + M
  PROVE  a % M # b % M
<1> DEFINE q == a \div M
           p == b \div M
           r == a % M
           s == b % M
<1>1. q \in Int /\ r \in 0 .. (M - 1) /\ a = M * q + r /\ M * q \in Int
  OBVIOUS
<1>2. p \in Int /\ s \in 0 .. (M - 1) /\ b = M * p + s /\ M * p \in Int
  OBVIOUS
<1>3. M * p - M * q = M * (p - q) /\ p - q \in Int
  BY <1>1, <1>2
<1>4. p - q >= 1 => M * (p - q) >= M
  BY <1>1, <1>2
<1>5. p - q <= 0 => M * (p - q) <= 0
  BY <1>1, <1>2
<1>. QED
  <2> HIDE DEF q, p, r, s
  <2>1. r # s
    BY <1>1, <1>2, <1>3, <1>4, <1>5
  <2>. QED BY <2>1 DEF r, s

\* Places are numbers.
LEMMA PlaceFacts ==
  /\ MAX_IO_BUF \in Nat \ {0} /\ Place \subseteq Nat /\ 0 \in Place
  /\ \A p \in Place : p < MAX_IO_BUF
  /\ \A a \in Int : a % MAX_IO_BUF \in Place
BY ConsoleAssumption DEF Place

\* The same without the remainder.
LEMMA PlaceNat ==
  MAX_IO_BUF \in Nat \ {0} /\ \A p \in Place : p \in Nat /\ p < MAX_IO_BUF
BY ConsoleAssumption DEF Place

\* Two sequences with the same elements are the same.
LEMMA SameSequence ==
  ASSUME NEW S, NEW s \in Seq(S), NEW t \in Seq(S), Len(s) = Len(t),
         \A i \in 1 .. Len(s) : s[i] = t[i]
  PROVE  s = t
OBVIOUS

\* The bytes of the buffer are a sequence.
LEMMA BytesSeq ==
  ASSUME NEW c, c.con.buf \in [Place -> Byte], NEW i \in Place, NEW n \in Nat
  PROVE  /\ Bytes(c, i, n) \in Seq(Byte) /\ Len(Bytes(c, i, n)) = n
         /\ \A k \in 1 .. n : Bytes(c, i, n)[k] = c.con.buf[(i + k - 1) % MAX_IO_BUF]
<1>1. \A k \in 1 .. n : (i + k - 1) % MAX_IO_BUF \in Place
  BY PlaceFacts
<1>. QED BY <1>1 DEF Bytes

\* Two copies in a row, the second from where the first one ended, are one copy: the wrap
\* around the end of the buffer is nowhere else.
LEMMA BytesSplit ==
  ASSUME NEW c, c.con.buf \in [Place -> Byte], NEW i \in Place, NEW a \in Nat, NEW b \in Nat
  PROVE  Bytes(c, i, a) \o Bytes(c, (i + a) % MAX_IO_BUF, b) = Bytes(c, i, a + b)
<1> DEFINE j == (i + a) % MAX_IO_BUF
           s == Bytes(c, i, a)
           t == Bytes(c, j, b)
           u == Bytes(c, i, a + b)
<1>1. i \in Nat /\ j \in Place /\ MAX_IO_BUF \in Nat \ {0} /\ i + a \in Nat
  BY PlaceFacts, SMTT(30)
<1>2. s \in Seq(Byte) /\ Len(s) = a
      /\ \A k \in 1 .. a : s[k] = c.con.buf[(i + k - 1) % MAX_IO_BUF]
  BY <1>1, BytesSeq, ZenonT(30)
<1>3. t \in Seq(Byte) /\ Len(t) = b
      /\ \A k \in 1 .. b : t[k] = c.con.buf[(j + k - 1) % MAX_IO_BUF]
  <2> HIDE DEF j
  <2>. QED BY <1>1, BytesSeq, ZenonT(30)
<1>4. u \in Seq(Byte) /\ Len(u) = a + b
      /\ \A k \in 1 .. (a + b) : u[k] = c.con.buf[(i + k - 1) % MAX_IO_BUF]
  <2>1. a + b \in Nat
    OBVIOUS
  <2>. QED BY <1>1, <2>1, BytesSeq, SMTT(30)
<1>5. ASSUME NEW k \in 1 .. b
      PROVE  (j + k - 1) % MAX_IO_BUF = (i + (a + k) - 1) % MAX_IO_BUF
  <2>1. k - 1 \in Int /\ j \in Nat
    BY <1>1, PlaceFacts
  <2>2. (j + (k - 1)) % MAX_IO_BUF = ((i + a) + (k - 1)) % MAX_IO_BUF
    BY <1>1, <2>1, PlaceSum, Zenon
  <2>3. j + (k - 1) = j + k - 1 /\ (i + a) + (k - 1) = i + (a + k) - 1
    <3> HIDE DEF j
    <3>. QED BY <1>1, <2>1
  <2>. QED BY <2>2, <2>3
<1> HIDE DEF s, t, u, j
<1>6. s \o t \in Seq(Byte) /\ Len(s \o t) = a + b
      /\ \A k \in 1 .. a : (s \o t)[k] = s[k]
  <2>1. s \in Seq(Byte) /\ Len(s) = a /\ t \in Seq(Byte) /\ Len(t) = b
    BY <1>2, <1>3
  <2>. QED BY <2>1, SMTT(30)
<1>7. ASSUME NEW k \in 1 .. (a + b) PROVE (s \o t)[k] = u[k]
  <2>1. CASE k \in 1 .. a
    BY <1>2, <1>4, <1>6, <2>1, Zenon
  <2>2. CASE k \in (a + 1) .. (a + b)
    <3>1. (s \o t)[k] = t[k - a]
      <4>1. s \in Seq(Byte) /\ Len(s) = a /\ t \in Seq(Byte) /\ Len(t) = b
        BY <1>2, <1>3
      <4>2. k \in 1 .. (Len(s) + Len(t)) /\ k > Len(s)
        BY <2>2, <4>1
      <4>3. (s \o t)[k] = t[k - Len(s)]
        BY <4>1, <4>2
      <4>. QED BY <4>1, <4>3
    <3>2. k - a \in 1 .. b /\ a + (k - a) = k
      BY <2>2
    <3>3. t[k - a] = c.con.buf[(i + k - 1) % MAX_IO_BUF]
      BY <1>3, <1>5, <3>2, Zenon
    <3>. QED BY <1>4, <3>1, <3>3, Zenon
  <2>3. k \in 1 .. a \/ k \in (a + 1) .. (a + b)
    OBVIOUS
  <2>. QED BY <2>1, <2>2, <2>3, Zenon
<1>8. s \o t = u
  BY <1>4, <1>6, <1>7, SameSequence, Zenon
<1>. QED BY <1>8 DEF s, t, u, j

\* A shorter copy from the same place is the beginning of a longer one, and what is left of
\* it starts where the shorter one ends.
LEMMA BytesCut ==
  ASSUME NEW c, c.con.buf \in [Place -> Byte], NEW i \in Place, NEW n \in Nat, NEW l \in 0 .. n
  PROVE  /\ SubSeq(Bytes(c, i, n), 1, l) = Bytes(c, i, l)
         /\ SubSeq(Bytes(c, i, n), l + 1, n) = Bytes(c, (i + l) % MAX_IO_BUF, n - l)
<1> DEFINE s == Bytes(c, i, l)
           t == Bytes(c, (i + l) % MAX_IO_BUF, n - l)
           u == Bytes(c, i, n)
<1>1. l \in Nat /\ n - l \in Nat /\ l + (n - l) = n /\ (i + l) % MAX_IO_BUF \in Place
  BY PlaceFacts
<1>2. s \o t = u
  <2>1. Bytes(c, i, l) \o Bytes(c, (i + l) % MAX_IO_BUF, n - l) = Bytes(c, i, l + (n - l))
    <3> DEFINE m == n - l
    <3>1. m \in Nat
      BY <1>1
    <3> HIDE DEF m
    <3>2. Bytes(c, i, l) \o Bytes(c, (i + l) % MAX_IO_BUF, m) = Bytes(c, i, l + m)
      BY <1>1, <3>1, BytesSplit, Zenon
    <3>. QED BY <3>2 DEF m
  <2>. QED BY <1>1, <2>1
<1>3. s \in Seq(Byte) /\ Len(s) = l
  BY <1>1, BytesSeq, Zenon
<1>4. t \in Seq(Byte) /\ Len(t) = n - l
  BY <1>1, BytesSeq, Zenon
<1>5. u \in Seq(Byte) /\ Len(u) = n
  BY BytesSeq
<1> HIDE DEF s, t, u
<1>6. SubSeq(u, 1, l) = s
  <2>1. SubSeq(u, 1, l) \in Seq(Byte) /\ Len(SubSeq(u, 1, l)) = l
    BY <1>1, <1>5
  <2>2. ASSUME NEW k \in 1 .. l PROVE SubSeq(u, 1, l)[k] = s[k]
    BY <1>1, <1>2, <1>3, <1>4, <1>5, SMTT(30)
  <2>. QED BY <1>3, <2>1, <2>2, SameSequence
<1>7. SubSeq(u, l + 1, n) = t
  <2>1. SubSeq(u, l + 1, n) \in Seq(Byte) /\ Len(SubSeq(u, l + 1, n)) = n - l
    BY <1>1, <1>5
  <2>2. ASSUME NEW k \in 1 .. (n - l) PROVE SubSeq(u, l + 1, n)[k] = t[k]
    <3>1. SubSeq(u, l + 1, n)[k] = u[l + k] /\ l + k \in 1 .. n /\ l + k > l /\ (l + k) - l = k
      BY <1>1, <1>5
    <3>2. (s \o t)[l + k] = t[k]
      BY <1>1, <1>3, <1>4, <3>1
    <3>. QED BY <1>2, <3>1, <3>2
  <2>. QED BY <1>4, <2>1, <2>2, SameSequence
<1>. QED BY <1>6, <1>7 DEF s, t, u


-----------------------------------------------------------------------------
(* The invariant.                                                          *)

\* The console is open for reading for the process in _con_read_state, which is alive: the
\* handler of the serial port finds its reader.
Opened(c, h) ==
    /\ c.rs.opened <=> c.con.handler
    /\ h = IF c.rs.opened THEN {c.rs.pid} ELSE {}
    /\ \A p \in h : p \in Proc /\ c.st[p] # "dead"

\* No token from the n-th on is freed, and none was used after it was freed.
Fresh(c, n) == ~c.ub /\ \A t \in c.freed : t.n <= n

\* The read with token t is under way and nothing of it waits but, at most, the record of
\* the blocked read.
Serving(c, h, n, t) ==
    /\ Fresh(c, n) /\ t \in Token /\ t.n <= n /\ t \notin c.freed
    /\ h = {c.rs.pid} /\ t.pid = c.rs.pid /\ c.st[t.pid] = "read"
    /\ \A p \in Proc : c.st[p] = "read" => p = t.pid
    /\ c.rs.blocked => c.rs.token = t
    /\ c.copies = {}

\* There is no read, or one: its copy waits, or it is blocked, or both.
OneRead(c, h, n) ==
    /\ Fresh(c, n)
    /\ \/ ~c.rs.blocked /\ c.copies = {} /\ \A p \in Proc : c.st[p] # "read"
       \/ c.rs.blocked /\ Serving(c, h, n, c.rs.token)
       \/ \E k \in c.copies : /\ c.copies = {k} /\ k.to = c.rs.pid
                              /\ Serving([c EXCEPT !.copies = {}], h, n, k.token)

\* The buffer holds what is due, and the last read returned what was due then.
Held(c) ==
    /\ c.con.size \in 0 .. MAX_IO_BUF
    /\ c.con.end = (c.con.start + c.con.size) % MAX_IO_BUF
    /\ c.due = Bytes(c, c.con.start, c.con.size)
    /\ c.last.got = c.last.due /\ c.last.to = c.last.reader

\* A copy under way has the beginning of what is due.
CopyHeld(c, k) ==
    /\ k.len <= c.con.size
    /\ \/ k.half = 1 /\ k.from = c.con.start /\ k.n = k.first /\ k.got = <<>>
       \/ /\ k.half = 2 /\ k.from = (c.con.start + k.first) % MAX_IO_BUF
          /\ k.n = k.len - k.first /\ k.got = Bytes(c, c.con.start, k.first)

NoLine(c) == \A i \in 1 .. Len(c.due) : c.due[i] # NL

\* A read that is blocked has no line to read.
Due(c) ==
    /\ Held(c)
    /\ \A k \in c.copies : CopyHeld(c, k)
    /\ c.rs.blocked /\ c.copies = {} => NoLine(c)

\* The layers: always, until a read is overtaken, and until input is dropped.
Holds(c, h, n, x) ==
    /\ StateOK(c) /\ Opened(c, h) /\ n \in Nat /\ x \subseteq Upset
    /\ x \subseteq {"unread"} => OneRead(c, h, n)
    /\ x = {} => Due(c)

IInv == Holds(Now, has, reads, upset)

-----------------------------------------------------------------------------
(* What the handlers' parts do to a state.                                 *)

\* The fields of a state, and their types.
LEMMA StateFields ==
  ASSUME NEW c \in State
  PROVE  /\ c.con \in Con /\ c.rs \in Rs /\ c.copies \subseteq Copy
         /\ c.st \in [Proc -> {"run", "read", "dead"}] /\ c.freed \subseteq Token
         /\ c.due \in Seq(Byte) /\ c.last \in Last /\ c.ub \in BOOLEAN
         /\ c.con.buf \in [Place -> Byte] /\ c.con.size \in Int /\ c.con.start \in Place
         /\ c.con.end \in Place
BY DEF State, Con

\* serv_sys_read_end: the token is freed and its process, if it is alive, runs on.
LEMMA AnswerEffect ==
  ASSUME NEW c \in State, NEW t \in Token, NEW u, u = serv_sys_read_end(c, t)
  PROVE  /\ u \in State /\ u.con = c.con /\ u.rs = c.rs /\ u.copies = c.copies
         /\ u.due = c.due /\ u.last = c.last /\ u.freed = c.freed \cup {t}
         /\ u.ub <=> (c.ub \/ t \in c.freed)
         /\ u.st = IF c.st[t.pid] # "dead" THEN [c.st EXCEPT ![t.pid] = "run"] ELSE c.st
<1>1. t.pid \in Proc
  BY DEF Token
<1>2. u = [c EXCEPT !.ub = c.ub \/ t \in c.freed, !.freed = c.freed \cup {t},
                    !.st = IF c.st[t.pid] # "dead" THEN [c.st EXCEPT ![t.pid] = "run"]
                                                   ELSE c.st]
  BY <1>1, Zenon DEF serv_sys_read_end, Alive
<1> DEFINE b == c.ub \/ t \in c.freed
           s == IF c.st[t.pid] # "dead" THEN [c.st EXCEPT ![t.pid] = "run"] ELSE c.st
<1>3. b \in BOOLEAN /\ s \in [Proc -> {"run", "read", "dead"}]
      /\ c.freed \cup {t} \in SUBSET Token
  BY <1>1, StateFields
<1>4. u = [c EXCEPT !.ub = b, !.freed = c.freed \cup {t}, !.st = s]
  BY <1>2
<1> HIDE DEF b, s
<1>5. u \in State
  BY <1>3, <1>4, Zenon DEF State
<1>6. /\ u.con = c.con /\ u.rs = c.rs /\ u.copies = c.copies
      /\ u.due = c.due /\ u.last = c.last /\ u.freed = c.freed \cup {t}
      /\ u.ub = b /\ u.st = s
  BY <1>4 DEF State
<1>. QED BY <1>5, <1>6, Zenon DEF b, s

\* A part of a sequence is a sequence.
LEMMA PartSeq ==
  ASSUME NEW S, NEW s \in Seq(S), NEW n \in Nat, n <= Len(s)
  PROVE  SubSeq(s, 1, n) \in Seq(S) /\ SubSeq(s, n + 1, Len(s)) \in Seq(S)
OBVIOUS

\* What _con_read_end makes of a state c: a read that succeeds takes its bytes out of the
\* buffer and is recorded as the last one.
Taken(c, k, u) ==
    LET n == smaller(k.len, Len(c.due))
    IN  /\ u.con = [c.con EXCEPT !.start = (c.con.start + k.len) % MAX_IO_BUF,
                                 !.size = c.con.size - k.len]
        /\ u.last = [got |-> k.got, due |-> SubSeq(c.due, 1, n), to |-> k.to,
                     reader |-> k.token.pid]
        /\ u.due = SubSeq(c.due, n + 1, Len(c.due))

Left(c, u) == u.con = c.con /\ u.last = c.last /\ u.due = c.due

\* The read with token t is over in u.
Answered(c, t, u) ==
    /\ u.rs = [c.rs EXCEPT !.blocked = FALSE]
    /\ u.copies = c.copies /\ u.freed = c.freed \cup {t}
    /\ u.ub <=> (c.ub \/ t \in c.freed)
    /\ u.st = IF c.st[t.pid] # "dead" THEN [c.st EXCEPT ![t.pid] = "run"] ELSE c.st

\* _con_read_end unblocks the read, answers it and, if it succeeded, takes its bytes.
LEMMA EndEffect ==
  ASSUME NEW c, StateOK(c), NEW k \in Copy, NEW good \in BOOLEAN,
         NEW u, u = _con_read_end(c, k, good)
  PROVE  /\ StateOK(u) /\ Answered(c, k.token, u)
         /\ good => Taken(c, k, u)
         /\ ~good => Left(c, u)
<1> DEFINE n == smaller(k.len, Len(c.due))
           d == [c EXCEPT !.con.start = (@ + k.len) % MAX_IO_BUF, !.con.size = @ - k.len,
                          !.rs.blocked = FALSE]
           g == Returned(d, k)
           b == [c EXCEPT !.rs.blocked = FALSE]
           con2 == [c.con EXCEPT !.start = (c.con.start + k.len) % MAX_IO_BUF,
                                 !.size = c.con.size - k.len]
           rs2 == [c.rs EXCEPT !.blocked = FALSE]
           last2 == [got |-> k.got, due |-> SubSeq(c.due, 1, n), to |-> k.to,
                     reader |-> k.token.pid]
           due2 == SubSeq(c.due, n + 1, Len(c.due))
<1>1. /\ c \in State /\ c.due \in Seq(Byte) /\ k.len \in Nat /\ k.token \in Token
      /\ k.token.pid \in Proc /\ k.to \in Proc /\ k.got \in Seq(Byte)
      /\ c.con \in Con /\ c.rs \in Rs /\ c.con.size \in Int /\ c.con.start \in Place
  BY StateFields DEF StateOK, Copy, Token
<1>2. n \in Nat /\ n <= Len(c.due)
  BY <1>1 DEF smaller
<1>3. con2 \in Con
  <2>1. (c.con.start + k.len) % MAX_IO_BUF \in Place /\ c.con.size - k.len \in Int
    <3>1. c.con.start \in Nat /\ k.len \in Nat
      BY <1>1, PlaceFacts, Zenon
    <3>2. c.con.start + k.len \in Int
      BY <3>1
    <3>3. (c.con.start + k.len) % MAX_IO_BUF \in Place
      BY <3>2, PlaceFacts, Zenon
    <3>4. c.con.size - k.len \in Int
      BY <1>1
    <3>. QED BY <3>3, <3>4
  <2>. QED BY <1>1, <2>1, Zenon DEF Con
<1>4. rs2 \in Rs
  BY <1>1, Zenon DEF Rs
<1>5. due2 \in Seq(Byte) /\ SubSeq(c.due, 1, n) \in Seq(Byte)
  <2> HIDE DEF n
  <2>. QED BY <1>1, <1>2, PartSeq
<1>6. last2 \in Last
  <2> HIDE DEF n
  <2>. QED BY <1>1, <1>5 DEF Last
<1>7. d = [c EXCEPT !.con = con2, !.rs = rs2]
  BY <1>1, Zenon DEF State
<1>8. d.due = c.due
  BY <1>1, <1>7 DEF State
<1>9. g = [d EXCEPT !.last = last2, !.due = due2]
  <2> HIDE DEF d
  <2>. QED BY <1>8 DEF Returned
<1> HIDE DEF con2, rs2, last2, due2
<1>10. /\ g \in State /\ g.con = con2 /\ g.rs = rs2 /\ g.last = last2 /\ g.due = due2
       /\ g.copies = c.copies /\ g.freed = c.freed /\ g.st = c.st /\ g.ub = c.ub
  <2>1. g = [c EXCEPT !.con = con2, !.rs = rs2, !.last = last2, !.due = due2]
    <3> HIDE DEF d, g
    <3>. QED BY <1>1, <1>7, <1>9 DEF State
  <2> HIDE DEF d, g
  <2>. QED BY <1>1, <1>3, <1>4, <1>5, <1>6, <2>1, Zenon DEF State
<1>11. /\ b \in State /\ b.con = c.con /\ b.rs = rs2 /\ b.last = c.last /\ b.due = c.due
       /\ b.copies = c.copies /\ b.freed = c.freed /\ b.st = c.st /\ b.ub = c.ub
  <2>1. b = [c EXCEPT !.rs = rs2]
    BY <1>1 DEF State, rs2
  <2> HIDE DEF b
  <2>. QED BY <1>1, <1>4, <2>1 DEF State
<1>12. ~rs2.blocked
  BY <1>1 DEF rs2, Rs
<1>13. CASE good
  <2>1. u = serv_sys_read_end(g, k.token)
    BY <1>13 DEF _con_read_end
  <2> HIDE DEF g
  <2>2. /\ u \in State /\ u.con = g.con /\ u.rs = g.rs /\ u.copies = g.copies
        /\ u.due = g.due /\ u.last = g.last /\ u.freed = g.freed \cup {k.token}
        /\ u.ub <=> (g.ub \/ k.token \in g.freed)
        /\ u.st = IF g.st[k.token.pid] # "dead" THEN [g.st EXCEPT ![k.token.pid] = "run"]
                                                ELSE g.st
    BY <1>1, <1>10, <2>1, AnswerEffect, Zenon
  <2>3. Answered(c, k.token, u)
    BY <1>10, <2>2, Zenon DEF Answered, rs2
  <2>4. Taken(c, k, u)
    BY <1>10, <2>2, Zenon DEF Taken, con2, last2, due2
  <2>5. StateOK(u)
    BY <1>10, <1>12, <2>2, Zenon DEF StateOK
  <2>. QED BY <1>13, <2>3, <2>4, <2>5, Zenon
<1>14. CASE ~good
  <2>1. u = serv_sys_read_end(b, k.token)
    BY <1>14 DEF _con_read_end
  <2> HIDE DEF b
  <2>2. /\ u \in State /\ u.con = b.con /\ u.rs = b.rs /\ u.copies = b.copies
        /\ u.due = b.due /\ u.last = b.last /\ u.freed = b.freed \cup {k.token}
        /\ u.ub <=> (b.ub \/ k.token \in b.freed)
        /\ u.st = IF b.st[k.token.pid] # "dead" THEN [b.st EXCEPT ![k.token.pid] = "run"]
                                                ELSE b.st
    BY <1>1, <1>11, <2>1, AnswerEffect, Zenon
  <2>3. Answered(c, k.token, u)
    BY <1>11, <2>2, Zenon DEF Answered, rs2
  <2>4. Left(c, u)
    BY <1>11, <2>2, Zenon DEF Left
  <2>5. StateOK(u)
    BY <1>11, <1>12, <2>2, Zenon DEF StateOK
  <2>. QED BY <1>14, <2>3, <2>4, <2>5
<1>. QED BY <1>13, <1>14

\* The bytes are those of the buffer, whatever else changes.
LEMMA SameBytes ==
  ASSUME NEW c, NEW u, NEW i, NEW n, u.con.buf = c.con.buf
  PROVE  Bytes(u, i, n) = Bytes(c, i, n)
BY Zenon DEF Bytes

\* A read that succeeds leaves what is due after it in the buffer.
LEMMA TakenHeld ==
  ASSUME NEW c \in State, NEW u \in State, NEW k \in Copy, Held(c), Taken(c, k, u),
         k.len <= c.con.size, k.got = Bytes(c, c.con.start, k.len), k.to = k.token.pid
  PROVE  Held(u)
<1> DEFINE s == c.con.start
           z == c.con.size
           l == k.len
           b == Bytes(c, s, z)
<1>1. /\ c.con \in Con /\ c.con.buf \in [Place -> Byte] /\ s \in Place /\ z \in Nat /\ l \in Nat
      /\ l \in 0 .. z /\ z <= MAX_IO_BUF /\ s \in Nat /\ z - l \in 0 .. MAX_IO_BUF
      /\ c.due = b /\ c.con.end = (s + z) % MAX_IO_BUF
  <2>1. /\ c.con \in Con /\ c.con.buf \in [Place -> Byte] /\ s \in Place /\ l \in Nat
        /\ s \in Nat
    BY StateFields, PlaceFacts, Zenon DEF Copy
  <2>2. z \in 0 .. MAX_IO_BUF /\ c.due = b /\ c.con.end = (s + z) % MAX_IO_BUF
    BY DEF Held
  <2>. QED BY <2>1, <2>2, PlaceFacts
<1>2. Len(b) = z
  BY <1>1, BytesSeq, Zenon
<1>3. smaller(l, Len(c.due)) = l
  BY <1>1, <1>2 DEF smaller
<1>4. /\ u.con.start = (s + l) % MAX_IO_BUF /\ u.con.size = z - l
      /\ u.con.end = c.con.end /\ u.con.buf = c.con.buf
  BY <1>1 DEF Taken, Con
<1>5. /\ SubSeq(b, 1, l) = Bytes(c, s, l)
      /\ SubSeq(b, l + 1, z) = Bytes(c, (s + l) % MAX_IO_BUF, z - l)
  <2> HIDE DEF s, z, l
  <2>. QED BY <1>1, BytesCut, Zenon
<1>6. /\ u.last.got = k.got /\ u.last.due = SubSeq(b, 1, l) /\ u.last.to = k.to
      /\ u.last.reader = k.token.pid /\ u.due = SubSeq(b, l + 1, z)
  <2>1. /\ u.last = [got |-> k.got, due |-> SubSeq(c.due, 1, l), to |-> k.to,
                     reader |-> k.token.pid]
        /\ u.due = SubSeq(c.due, l + 1, Len(c.due))
    BY <1>3, Zenon DEF Taken
  <2> HIDE DEF b, l
  <2>. QED BY <1>1, <1>2, <2>1, SMTT(30)
<1>7. u.due = Bytes(u, u.con.start, u.con.size)
  BY <1>4, <1>5, <1>6, SameBytes
<1>8. u.con.end = (u.con.start + u.con.size) % MAX_IO_BUF
  <2>1. (s + z) % MAX_IO_BUF = ((s + l) + (z - l)) % MAX_IO_BUF
    BY <1>1
  <2>2. (((s + l) % MAX_IO_BUF) + (z - l)) % MAX_IO_BUF = ((s + l) + (z - l)) % MAX_IO_BUF
    <3> HIDE DEF s, z, l
    <3>1. s + l \in Nat /\ z - l \in Int /\ MAX_IO_BUF \in Nat \ {0}
      <4>1. s \in Nat /\ z \in Nat /\ l \in Nat
        BY <1>1
      <4>. QED BY <4>1, PlaceFacts
    <3>. QED BY <3>1, PlaceSum
  <2>. QED BY <1>1, <1>4, <2>1, <2>2
<1>. QED BY <1>1, <1>4, <1>5, <1>6, <1>7, <1>8, SMTT(30) DEF Held

\* One that fails leaves the buffer alone.
LEMMA LeftHeld ==
  ASSUME NEW c, NEW u, Held(c), Left(c, u)
  PROVE  Held(u)
<1>1. u.con = c.con /\ u.last = c.last /\ u.due = c.due
  BY DEF Left
<1>2. Bytes(u, u.con.start, u.con.size) = Bytes(c, c.con.start, c.con.size)
  BY <1>1, SameBytes
<1>. QED BY <1>1, <1>2 DEF Held

\* What a part of a read for token t into the memory of p keeps of the invariant, from a
\* state c in which the read is being served to the state u it makes.
Serves(c, h, n, t, p, u) ==
    /\ StateOK(u)
    /\ Opened(c, h) => Opened(u, h)
    /\ Serving(c, h, n, t) /\ p = c.rs.pid => OneRead(u, h, n)

\* The reader stays the reader when its read ends.
LEMMA AnsweredOpened ==
  ASSUME NEW c \in State, NEW u, NEW t \in Token, Answered(c, t, u),
         u.con.handler = c.con.handler, NEW h, Opened(c, h)
  PROVE  Opened(u, h)
<1>1. c.rs \in Rs /\ c.st \in [Proc -> {"run", "read", "dead"}] /\ t.pid \in Proc
  BY StateFields DEF Token
<1>2. u.rs.opened = c.rs.opened /\ u.rs.pid = c.rs.pid
  BY <1>1 DEF Answered, Rs
<1>3. \A p \in Proc : c.st[p] # "dead" => u.st[p] # "dead"
  BY <1>1 DEF Answered
<1>4. \A p \in h : p \in Proc /\ u.st[p] # "dead"
  BY <1>3 DEF Opened
<1>. QED BY <1>2, <1>4, Zenon DEF Opened

\* No read is left when the one there is ends, and its token was not freed before.
LEMMA AnsweredOne ==
  ASSUME NEW c \in State, NEW u, NEW t \in Token, Answered(c, t, u),
         NEW h, NEW n, Serving(c, h, n, t)
  PROVE  OneRead(u, h, n) /\ u.copies = {} /\ ~u.rs.blocked
<1>1. c.rs \in Rs /\ c.st \in [Proc -> {"run", "read", "dead"}] /\ t.pid \in Proc
  BY StateFields DEF Token
<1>2. /\ Fresh(c, n) /\ t.n <= n /\ t \notin c.freed /\ c.copies = {}
      /\ c.st[t.pid] = "read" /\ \A p \in Proc : c.st[p] = "read" => p = t.pid
  BY DEF Serving
<1>3. ~u.ub
  BY <1>2, Zenon DEF Answered, Fresh
<1>4. \A x \in u.freed : x.n <= n
  BY <1>2 DEF Answered, Fresh
<1>5. u.copies = {}
  BY <1>2 DEF Answered
<1>6. ~u.rs.blocked
  BY <1>1 DEF Answered, Rs
<1>7. \A p \in Proc : u.st[p] # "read"
  BY <1>1, <1>2 DEF Answered
<1>. QED BY <1>3, <1>4, <1>5, <1>6, <1>7 DEF OneRead, Fresh

\* _con_read_end of the read under way: it was answered once, and if what it returns is the
\* beginning of what is due, the rest of it stays.
LEMMA EndServes ==
  ASSUME NEW c, StateOK(c), NEW k \in Copy, NEW good \in BOOLEAN, NEW h, NEW n,
         NEW u, u = _con_read_end(c, k, good)
  PROVE  /\ Serves(c, h, n, k.token, k.to, u)
         /\ /\ Serving(c, h, n, k.token) /\ Held(c) /\ k.to = k.token.pid
            /\ good => k.len <= c.con.size /\ k.got = Bytes(c, c.con.start, k.len)
            => Due(u)
<1>1. /\ StateOK(u) /\ Answered(c, k.token, u)
      /\ good => Taken(c, k, u)
      /\ ~good => Left(c, u)
  BY EndEffect, Zenon
<1>2. c \in State /\ u \in State /\ k.token \in Token /\ c.con \in Con
  BY <1>1, StateFields DEF StateOK, Copy
<1>3. u.con.handler = c.con.handler
  <2>1. good => u.con.handler = c.con.handler
    BY <1>1, <1>2, Zenon DEF Taken, Con
  <2>2. ~good => u.con.handler = c.con.handler
    BY <1>1 DEF Left
  <2>. QED BY <2>1, <2>2
<1>4. Opened(c, h) => Opened(u, h)
  BY <1>1, <1>2, <1>3, AnsweredOpened
<1>5. Serving(c, h, n, k.token) => OneRead(u, h, n) /\ u.copies = {} /\ ~u.rs.blocked
  BY <1>1, <1>2, AnsweredOne
<1>6. ASSUME Serving(c, h, n, k.token), Held(c), k.to = k.token.pid,
             good => k.len <= c.con.size /\ k.got = Bytes(c, c.con.start, k.len)
      PROVE  Due(u)
  <2>1. good => Held(u)
    BY <1>1, <1>2, <1>6, TakenHeld, Zenon
  <2>2. ~good => Held(u)
    BY <1>1, <1>6, LeftHeld
  <2>. QED BY <1>5, <1>6, <2>1, <2>2 DEF Due
<1>. QED BY <1>1, <1>4, <1>5, <1>6 DEF Serves

\* A copy under way stays what it is while the buffer does.
LEMMA CopyHeldSame ==
  ASSUME NEW c, NEW u, NEW k, u.con = c.con, CopyHeld(c, k)
  PROVE  CopyHeld(u, k)
<1>1. \A i, n : Bytes(u, i, n) = Bytes(c, i, n)
  BY Zenon DEF Bytes
<1>. QED BY <1>1 DEF CopyHeld

\* A copyout that waits: the read is the copy, and the copy has the beginning of what is due.
LEMMA WaitServes ==
  ASSUME NEW c, StateOK(c), NEW k \in Copy, k.first <= k.len, NEW h, NEW n,
         NEW u, u = [c EXCEPT !.copies = @ \cup {k}]
  PROVE  /\ Serves(c, h, n, k.token, k.to, u)
         /\ Serving(c, h, n, k.token) /\ Held(c) /\ CopyHeld(c, k) => Due(u)
<1>1. c \in State /\ c.copies \subseteq Copy
  BY StateFields DEF StateOK
<1>2. /\ u \in State /\ u.copies = c.copies \cup {k} /\ u.con = c.con /\ u.rs = c.rs
      /\ u.st = c.st /\ u.freed = c.freed /\ u.due = c.due /\ u.last = c.last /\ u.ub = c.ub
  BY <1>1 DEF State
<1>3. StateOK(u)
  BY <1>2 DEF StateOK
<1>4. Opened(c, h) => Opened(u, h)
  BY <1>2 DEF Opened
<1>5. ASSUME Serving(c, h, n, k.token), k.to = c.rs.pid
      PROVE  OneRead(u, h, n)
  <2>1. c.copies = {} /\ Fresh(c, n)
    BY <1>5 DEF Serving
  <2>2. [u EXCEPT !.copies = {}] = c
    BY <1>1, <1>2, <2>1, Zenon DEF State
  <2>3. u.copies = {k} /\ k \in u.copies
    BY <1>2, <2>1
  <2>4. Fresh(u, n)
    BY <1>2, <2>1 DEF Fresh
  <2>. QED BY <1>2, <1>5, <2>2, <2>3, <2>4, Zenon DEF OneRead
<1>6. ASSUME Serving(c, h, n, k.token), Held(c), CopyHeld(c, k)
      PROVE  Due(u)
  <2>1. u.copies = {k}
    BY <1>2, <1>6 DEF Serving
  <2>2. Held(u)
    BY <1>2, <1>6, LeftHeld, Zenon DEF Left
  <2>3. CopyHeld(u, k)
    BY <1>2, <1>6, CopyHeldSame, Zenon
  <2>. QED BY <2>1, <2>2, <2>3 DEF Due
<1>. QED BY <1>3, <1>4, <1>5, <1>6 DEF Serves

\* A copy ends with the bytes of its half added to those it had.
LEMMA CopiedFacts ==
  ASSUME NEW c \in State, NEW k \in Copy, NEW e, e = Copied(c, k)
  PROVE  /\ e \in Copy /\ e.token = k.token /\ e.to = k.to /\ e.len = k.len
         /\ e.first = k.first /\ e.got = k.got \o Bytes(c, k.from, k.n)
<1>1. Bytes(c, k.from, k.n) \in Seq(Byte)
  BY StateFields, BytesSeq, Zenon DEF Copy
<1>2. k.got \o Bytes(c, k.from, k.n) \in Seq(Byte)
  <2>1. k.got \in Seq(Byte)
    BY DEF Copy
  <2>. QED BY <1>1, <2>1
<1>. QED BY <1>2, Zenon DEF Copied, Copy

\* _con_read_part2: the second half follows the first one, around the end of the buffer.
LEMMA Part2Serves ==
  ASSUME NEW c, StateOK(c), NEW k \in Copy, k.first <= k.len,
         NEW how \in {"now", "later", "fails"}, NEW h, NEW n,
         NEW u, u = _con_read_part2(c, k, how)
  PROVE  /\ Serves(c, h, n, k.token, k.to, u)
         /\ /\ Serving(c, h, n, k.token) /\ Held(c) /\ k.to = k.token.pid
            /\ k.len <= c.con.size /\ k.got = Bytes(c, c.con.start, k.first)
            => Due(u)
<1> DEFINE j == (c.con.start + k.first) % MAX_IO_BUF
           g == [k EXCEPT !.half = 2, !.from = j, !.n = k.len - k.first]
           e == Copied(c, g)
<1>1. /\ c \in State /\ c.con.buf \in [Place -> Byte] /\ c.con.start \in Place
      /\ c.con.start \in Nat /\ k.first \in Nat /\ k.len \in Nat /\ k.len - k.first \in Nat
  <2>1. c \in State /\ c.con.buf \in [Place -> Byte] /\ c.con.start \in Place
    BY StateFields DEF StateOK
  <2>2. k.first \in Nat /\ k.len \in Nat
    BY DEF Copy
  <2>3. c.con.start \in Nat
    BY <2>1, PlaceFacts, Zenon
  <2>. QED BY <2>1, <2>2, <2>3
<1>2. j \in Place
  <2>1. c.con.start + k.first \in Int
    BY <1>1
  <2>. QED BY <2>1, PlaceFacts, Zenon
<1>3. /\ g \in Copy /\ g.token = k.token /\ g.to = k.to /\ g.len = k.len /\ g.first = k.first
      /\ g.half = 2 /\ g.from = j /\ g.n = k.len - k.first /\ g.got = k.got
  <2> HIDE DEF j
  <2>. QED BY <1>1, <1>2, Zenon DEF Copy
<1>4. /\ how = "later" => u = [c EXCEPT !.copies = @ \cup {g}]
      /\ how # "later" => u = _con_read_end(c, e, how = "now")
  BY Zenon DEF _con_read_part2
<1>5. CASE how = "later"
  <2> HIDE DEF g, j
  <2>1. /\ Serves(c, h, n, g.token, g.to, u)
        /\ Serving(c, h, n, g.token) /\ Held(c) /\ CopyHeld(c, g) => Due(u)
    <3>1. g \in Copy /\ g.first <= g.len /\ u = [c EXCEPT !.copies = @ \cup {g}]
      BY <1>3, <1>4, <1>5
    <3>. QED BY <3>1, WaitServes, Zenon
  <2>2. k.len <= c.con.size /\ k.got = Bytes(c, c.con.start, k.first) => CopyHeld(c, g)
    BY <1>3 DEF CopyHeld, j
  <2>. QED BY <1>3, <2>1, <2>2, Zenon
<1>6. CASE how # "later"
  <2> HIDE DEF g, j
  <2>1. /\ e \in Copy /\ e.token = k.token /\ e.to = k.to /\ e.len = k.len
        /\ e.got = k.got \o Bytes(c, j, k.len - k.first)
    <3>1. e = Copied(c, g)
      OBVIOUS
    <3> HIDE DEF e
    <3>2. /\ e \in Copy /\ e.token = g.token /\ e.to = g.to /\ e.len = g.len
          /\ e.first = g.first /\ e.got = g.got \o Bytes(c, g.from, g.n)
      BY <1>1, <1>3, <3>1, CopiedFacts, ZenonT(30)
    <3>. QED BY <1>3, <3>2
  <2> HIDE DEF e
  <2> DEFINE good == how = "now"
  <2>2. good \in BOOLEAN
    OBVIOUS
  <2> HIDE DEF good
  <2>3. u = _con_read_end(c, e, good)
    BY <1>4, <1>6 DEF good
  <2>4. /\ Serves(c, h, n, e.token, e.to, u)
        /\ /\ Serving(c, h, n, e.token) /\ Held(c) /\ e.to = e.token.pid
           /\ good => e.len <= c.con.size /\ e.got = Bytes(c, c.con.start, e.len)
           => Due(u)
    BY <2>1, <2>2, <2>3, EndServes, Zenon
  <2>5. k.got = Bytes(c, c.con.start, k.first) => e.got = Bytes(c, c.con.start, k.len)
    <3> DEFINE m == k.len - k.first
    <3>1. m \in Nat /\ k.first + m = k.len
      BY <1>1
    <3> HIDE DEF m
    <3>2. Bytes(c, c.con.start, k.first) \o Bytes(c, j, m) = Bytes(c, c.con.start, k.first + m)
      BY <1>1, <3>1, BytesSplit, Zenon DEF j
    <3>. QED BY <2>1, <3>1, <3>2 DEF m
  <2>. QED BY <2>1, <2>4, <2>5, Zenon
<1>. QED BY <1>5, <1>6, Zenon

\* A read that finds nothing becomes the blocked read.
LEMMA BlockServes ==
  ASSUME NEW c, StateOK(c), NEW t \in Token, NEW p, NEW nbytes \in Nat, NEW h, NEW n,
         c.con.size <= 0,
         NEW u, u = [c EXCEPT !.rs.blocked = TRUE, !.rs.token = t, !.rs.nbytes = nbytes]
  PROVE  /\ Serves(c, h, n, t, p, u)
         /\ Serving(c, h, n, t) /\ Held(c) => Due(u)
<1> DEFINE r == [c.rs EXCEPT !.blocked = TRUE, !.token = t, !.nbytes = nbytes]
<1>1. c \in State /\ c.rs \in Rs
  BY StateFields DEF StateOK
<1>2. /\ r \in Rs /\ r.opened = c.rs.opened /\ r.pid = c.rs.pid /\ r.blocked /\ r.token = t
  BY <1>1, Zenon DEF Rs
<1>3. u = [c EXCEPT !.rs = r]
  BY <1>1, Zenon DEF State
<1> HIDE DEF r
<1>4. /\ u \in State /\ u.copies = c.copies /\ u.con = c.con /\ u.rs = r
      /\ u.st = c.st /\ u.freed = c.freed /\ u.due = c.due /\ u.last = c.last /\ u.ub = c.ub
  BY <1>1, <1>2, <1>3, Zenon DEF State
<1>5. StateOK(u)
  BY <1>2, <1>4 DEF StateOK
<1>6. Opened(c, h) => Opened(u, h)
  BY <1>2, <1>4 DEF Opened
<1>7. Serving(c, h, n, t) => OneRead(u, h, n)
  <2>1. Fresh(c, n) => Fresh(u, n)
    BY <1>4 DEF Fresh
  <2>2. Serving(c, h, n, t) => Serving(u, h, n, t)
    BY <1>2, <1>4, <2>1 DEF Serving
  <2>3. Serving(u, h, n, t) => Fresh(u, n)
    BY DEF Serving
  <2>. QED BY <1>2, <1>4, <2>2, <2>3 DEF OneRead
<1>8. ASSUME Serving(c, h, n, t), Held(c)
      PROVE  Due(u)
  <2>1. Held(u)
    BY <1>4, <1>8, LeftHeld, Zenon DEF Left
  <2>2. c.con.buf \in [Place -> Byte] /\ c.con.start \in Place
    BY <1>1, StateFields
  <2>3. c.con.size = 0 /\ c.due = Bytes(c, c.con.start, 0)
    <3>1. c.con.size \in 0 .. MAX_IO_BUF /\ c.due = Bytes(c, c.con.start, c.con.size)
      BY <1>8 DEF Held
    <3>2. c.con.size = 0
      BY <3>1, PlaceFacts
    <3>. QED BY <3>1, <3>2
  <2>4. Len(c.due) = 0
    BY <2>2, <2>3, BytesSeq
  <2>5. NoLine(u)
    BY <1>4, <2>4 DEF NoLine
  <2>6. u.copies = {}
    BY <1>4, <1>8 DEF Serving
  <2>. QED BY <2>1, <2>5, <2>6 DEF Due
<1>. QED BY <1>5, <1>6, <1>7, <1>8 DEF Serves


\* What the serial port delivers changes only the buffer and what is due.
LEMMA BufferedEffect ==
  ASSUME NEW c, StateOK(c), NEW ch \in Byte, c.con.size < MAX_IO_BUF,
         NEW u, u = Buffered(c, ch)
  PROVE  /\ StateOK(u) /\ u.rs = c.rs /\ u.copies = c.copies /\ u.st = c.st
         /\ u.freed = c.freed /\ u.last = c.last /\ u.ub = c.ub
         /\ u.con.handler = c.con.handler /\ u.con.start = c.con.start
         /\ u.con.buf = [c.con.buf EXCEPT ![c.con.end] = ch]
         /\ u.con.end = (c.con.end + 1) % MAX_IO_BUF /\ u.con.size = c.con.size + 1
         /\ u.due = Append(c.due, ch)
<1> DEFINE b == [c.con.buf EXCEPT ![c.con.end] = ch]
           e == (c.con.end + 1) % MAX_IO_BUF
           z == c.con.size + 1
           con2 == [c.con EXCEPT !.buf = b, !.end = e, !.size = z]
           due2 == Append(c.due, ch)
<1>1. /\ c \in State /\ c.con \in Con /\ c.con.buf \in [Place -> Byte] /\ c.con.size \in Int
      /\ c.con.end \in Place /\ c.due \in Seq(Byte)
  BY StateFields DEF StateOK
<1>2. b \in [Place -> Byte] /\ z \in Int /\ due2 \in Seq(Byte)
  BY <1>1
<1>3. e \in Place
  <2>1. c.con.end + 1 \in Int
    BY <1>1, PlaceNat
  <2>. QED BY <2>1, PlaceFacts, Zenon
<1>4. ~(c.con.size >= MAX_IO_BUF)
  BY <1>1, PlaceNat
<1>5. u = [c EXCEPT !.con = con2, !.due = due2]
  <2>1. u = [c EXCEPT !.con.buf[c.con.end] = ch, !.con.end = (@ + 1) % MAX_IO_BUF,
                      !.con.size = @ + 1, !.due = Append(@, ch)]
    BY <1>4, Zenon DEF Buffered
  <2>. QED BY <1>1, <2>1, Zenon DEF State, Con
<1> HIDE DEF b, e, z, due2
<1>6. /\ con2 \in Con /\ con2.buf = b /\ con2.end = e /\ con2.size = z
      /\ con2.handler = c.con.handler /\ con2.start = c.con.start
  BY <1>1, <1>2, <1>3, Zenon DEF Con
<1> HIDE DEF con2
<1>7. /\ u \in State /\ u.con = con2 /\ u.due = due2 /\ u.rs = c.rs /\ u.copies = c.copies
      /\ u.st = c.st /\ u.freed = c.freed /\ u.last = c.last /\ u.ub = c.ub
  BY <1>1, <1>2, <1>5, <1>6, Zenon DEF State
<1>8. StateOK(u)
  BY <1>7 DEF StateOK
<1>. QED BY <1>6, <1>7, <1>8 DEF b, e, z, due2

\* It is written outside the bytes that are due: they stay, with the new one after them.
LEMMA BufferedHeld ==
  ASSUME NEW c, StateOK(c), NEW ch \in Byte, c.con.size < MAX_IO_BUF, Held(c),
         NEW u, u = Buffered(c, ch)
  PROVE  /\ Held(u)
         /\ \A l \in 0 .. c.con.size : Bytes(u, c.con.start, l) = Bytes(c, c.con.start, l)
<1> DEFINE s == c.con.start
           z == c.con.size
           e == c.con.end
<1>1. /\ StateOK(u) /\ u.last = c.last /\ u.con.start = s
      /\ u.con.buf = [c.con.buf EXCEPT ![e] = ch]
      /\ u.con.end = (e + 1) % MAX_IO_BUF /\ u.con.size = z + 1
      /\ u.due = Append(c.due, ch)
  BY BufferedEffect
<1>2. /\ c \in State /\ u \in State /\ c.con.buf \in [Place -> Byte] /\ s \in Place /\ e \in Place
      /\ u.con.buf \in [Place -> Byte]
  BY <1>1, StateFields DEF StateOK
<1>3. /\ z \in 0 .. MAX_IO_BUF /\ e = (s + z) % MAX_IO_BUF /\ c.due = Bytes(c, s, z)
      /\ c.last.got = c.last.due /\ c.last.to = c.last.reader
  BY DEF Held
<1>4. MAX_IO_BUF \in Nat \ {0} /\ s \in Nat /\ z \in Nat /\ z < MAX_IO_BUF
  BY <1>2, <1>3, PlaceNat
<1> HIDE DEF s, z, e
<1>5. ASSUME NEW i \in 1 .. z
      PROVE  u.con.buf[(s + i - 1) % MAX_IO_BUF] = c.con.buf[(s + i - 1) % MAX_IO_BUF]
  <2> DEFINE a == s + i - 1
             d == s + z
  <2>1. a \in Nat /\ d \in Nat /\ a < d /\ d < a + MAX_IO_BUF
    BY <1>4
  <2>2. e = d % MAX_IO_BUF
    BY <1>3
  <2> HIDE DEF a, d
  <2>3. a % MAX_IO_BUF # d % MAX_IO_BUF
    BY <1>4, <2>1, PlacesDiffer
  <2>4. a % MAX_IO_BUF \in Place
    BY <2>1, PlaceFacts
  <2>5. u.con.buf[a % MAX_IO_BUF] = c.con.buf[a % MAX_IO_BUF]
    BY <1>1, <1>2, <2>2, <2>3, <2>4
  <2>. QED BY <2>5 DEF a
<1>6. ASSUME NEW l \in 0 .. z PROVE Bytes(u, s, l) = Bytes(c, s, l)
  <2>1. l \in Nat
    BY <1>4
  <2>2. /\ Bytes(u, s, l) \in Seq(Byte) /\ Len(Bytes(u, s, l)) = l
        /\ \A i \in 1 .. l : Bytes(u, s, l)[i] = u.con.buf[(s + i - 1) % MAX_IO_BUF]
    BY <1>2, <2>1, BytesSeq, Zenon
  <2>3. /\ Bytes(c, s, l) \in Seq(Byte) /\ Len(Bytes(c, s, l)) = l
        /\ \A i \in 1 .. l : Bytes(c, s, l)[i] = c.con.buf[(s + i - 1) % MAX_IO_BUF]
    BY <1>2, <2>1, BytesSeq, Zenon
  <2>4. \A i \in 1 .. l : i \in 1 .. z
    BY <1>4
  <2>5. \A i \in 1 .. l : Bytes(u, s, l)[i] = Bytes(c, s, l)[i]
    BY <1>5, <2>2, <2>3, <2>4, SMTT(30)
  <2>. QED BY <2>2, <2>3, <2>5, SameSequence
<1>7. u.due = Bytes(u, s, z + 1)
  <2> DEFINE y == Bytes(u, s, z)
             x == Bytes(u, s, z + 1)
  <2>1. /\ y \in Seq(Byte) /\ Len(y) = z
        /\ \A i \in 1 .. z : y[i] = u.con.buf[(s + i - 1) % MAX_IO_BUF]
    <3>1. z \in Nat
      BY <1>4
    <3>. QED BY <1>2, <3>1, BytesSeq, Zenon
  <2>2. /\ x \in Seq(Byte) /\ Len(x) = z + 1
        /\ \A i \in 1 .. (z + 1) : x[i] = u.con.buf[(s + i - 1) % MAX_IO_BUF]
    <3>1. z + 1 \in Nat
      BY <1>4
    <3>. QED BY <1>2, <3>1, BytesSeq, Zenon
  <2>3. y = c.due
    <3>1. z \in 0 .. z
      BY <1>4
    <3>. QED BY <1>3, <1>6, <3>1
  <2>4. x[z + 1] = ch
    <3>1. z + 1 \in 1 .. (z + 1) /\ s + (z + 1) - 1 = s + z
      BY <1>4
    <3>2. x[z + 1] = u.con.buf[e]
      BY <1>3, <2>2, <3>1
    <3>. QED BY <1>1, <1>2, <3>2
  <2> HIDE DEF x, y
  <2>5. \A i \in 1 .. z : x[i] = y[i]
    <3>1. \A i \in 1 .. z : i \in 1 .. (z + 1)
      BY <1>4
    <3>. QED BY <2>1, <2>2, <3>1, Zenon
  <2>6. Append(y, ch) \in Seq(Byte) /\ Len(Append(y, ch)) = z + 1
        /\ \A i \in 1 .. (z + 1) : Append(y, ch)[i] = x[i]
    BY <1>4, <2>1, <2>4, <2>5
  <2>7. Append(y, ch) = x
    BY <2>2, <2>6, SameSequence
  <2>. QED BY <1>1, <2>3, <2>7 DEF x
<1>8. u.con.end = (s + (z + 1)) % MAX_IO_BUF
  <2>1. (((s + z) % MAX_IO_BUF) + 1) % MAX_IO_BUF = ((s + z) + 1) % MAX_IO_BUF
    <3> DEFINE a == s + z
               j == 1
    <3>1. a \in Nat /\ j \in Int /\ MAX_IO_BUF \in Nat \ {0}
      BY <1>4
    <3> HIDE DEF a, j
    <3>2. ((a % MAX_IO_BUF) + j) % MAX_IO_BUF = (a + j) % MAX_IO_BUF
      BY <3>1, PlaceSum, Zenon
    <3>. QED BY <3>2 DEF a, j
  <2>2. (s + z) + 1 = s + (z + 1)
    BY <1>4
  <2>. QED BY <1>1, <1>3, <2>1, <2>2
<1>9. z + 1 \in 0 .. MAX_IO_BUF
  BY <1>4
<1>10. Held(u)
  BY <1>1, <1>3, <1>7, <1>8, <1>9 DEF Held
<1>. QED BY <1>6, <1>10 DEF s, z

-----------------------------------------------------------------------------
(* A read as a whole: how long it is, and its two halves.                 *)
LOCAL INSTANCE WellFoundedInduction

\* A non-empty set of numbers has a least one.
LEMMA LeastExists ==
  ASSUME NEW T, T \subseteq Nat, T # {}
  PROVE  \E x \in T : \A y \in T : x <= y
<1> DEFINE R == OpToRel(<, Nat)
<1>1. IsWellFoundedOn(R, Nat)
  BY NatLessThanWellFounded
<1>2. \A x, y \in Nat : y < x => <<y, x>> \in R
  BY DEF OpToRel
<1> HIDE DEF R
<1>3. PICK x \in T : \A y \in T : ~(<<y, x>> \in R)
  BY <1>1, WFMin, Zenon
<1>4. \A y \in T : x \in Nat /\ y \in Nat /\ ~(y < x)
  BY <1>2, <1>3, Zenon
<1>. QED BY <1>4

\* A read gets no more than it asks for and no more than there is.
LEMMA LengthFacts ==
  ASSUME NEW c, c.con.buf \in [Place -> Byte], c.con.start \in Place, c.con.size \in Nat,
         NEW nbytes \in Nat
  PROVE  Length(c, nbytes) \in 0 .. c.con.size
<1> DEFINE m == smaller(nbytes, c.con.size)
           B(i) == c.con.buf[(c.con.start + i - 1) % MAX_IO_BUF]
           P(n) == LET b == Bytes(c, c.con.start, n)
                   IN  /\ \A i \in 1 .. (n - 1) : b[i] # NL
                       /\ n = smaller(nbytes, c.con.size) \/ (n > 0 /\ b[n] = NL)
           T == {i \in 1 .. m : B(i) = NL}
<1>1. m \in Nat /\ m <= c.con.size
  BY DEF smaller
<1>2. ASSUME NEW n \in 0 .. m PROVE \A i \in 1 .. n : Bytes(c, c.con.start, n)[i] = B(i)
  <2>1. n \in Nat
    BY <1>1
  <2>. QED BY <2>1, BytesSeq, Zenon
<1>3. \E n \in 0 .. m : P(n)
  <2>1. CASE T = {}
    <3>1. \A i \in 1 .. m : B(i) # NL
      BY <2>1
    <3> HIDE DEF B
    <3>2. \A i \in 1 .. (m - 1) : Bytes(c, c.con.start, m)[i] # NL
      BY <1>1, <1>2, <3>1
    <3>. QED BY <1>1, <3>2
  <2>2. CASE T # {}
    <3> HIDE DEF B, m
    <3>1. T \subseteq Nat
      BY <1>1
    <3>2. PICK n \in T : \A i \in T : n <= i
      <4> HIDE DEF T
      <4>. QED BY <2>2, <3>1, LeastExists, Zenon
    <3>3. n \in 1 .. m /\ B(n) = NL /\ n \in 0 .. m
      BY <1>1
    <3>4. \A i \in 1 .. (n - 1) : i \in 1 .. m /\ i \in 1 .. n /\ i \notin T
      BY <1>1, <3>2, <3>3
    <3>5. \A i \in 1 .. (n - 1) : Bytes(c, c.con.start, n)[i] # NL
      BY <1>2, <3>3, <3>4
    <3>6. Bytes(c, c.con.start, n)[n] = NL
      BY <1>1, <1>2, <3>3
    <3>. QED BY <3>3, <3>5, <3>6
  <2>. QED BY <2>1, <2>2
<1>4. Length(c, nbytes) = CHOOSE n \in 0 .. m : P(n)
  BY DEF Length
<1> HIDE DEF P, m
<1>5. Length(c, nbytes) \in 0 .. m
  BY <1>3, <1>4
<1>. QED BY <1>1, <1>5

\* The copy of a read: up to the end of the buffer first.
LEMMA FirstHalf ==
  ASSUME NEW c, StateOK(c), NEW t \in Token, NEW p \in Proc, NEW nbytes \in Nat,
         c.con.size > 0, NEW len, len = Length(c, nbytes),
         NEW first, first = smaller(MAX_IO_BUF, c.con.start + len) - c.con.start,
         NEW k, k = [token |-> t, to |-> p, len |-> len, first |-> first,
                     half |-> 1, from |-> c.con.start, n |-> first, got |-> <<>>]
  PROVE  /\ k \in Copy /\ k.token = t /\ k.to = p /\ k.first <= k.len /\ k.len <= c.con.size
         /\ k.half = 1 /\ k.from = c.con.start /\ k.n = k.first /\ k.got = <<>>
<1>1. c.con.buf \in [Place -> Byte] /\ c.con.start \in Place /\ c.con.size \in Int
  BY StateFields DEF StateOK
<1>2. len \in 0 .. c.con.size
  <2>1. c.con.size \in Nat
    BY <1>1
  <2>. QED BY <1>1, <2>1, LengthFacts, SMTT(30)
<1>3. c.con.start \in Nat /\ c.con.start < MAX_IO_BUF /\ MAX_IO_BUF \in Nat
  BY <1>1, PlaceFacts, Zenon
<1>4. first \in Nat /\ first <= len /\ len \in Nat
  BY <1>1, <1>2, <1>3 DEF smaller
<1>5. <<>> \in Seq(Byte)
  OBVIOUS
<1>. QED BY <1>1, <1>2, <1>4, <1>5 DEF Copy

\* _con_read, by a process or repeated by the handler of the serial port.
LEMMA ReadServes ==
  ASSUME NEW c, StateOK(c), NEW t \in Token, NEW p \in Proc, NEW nbytes \in Nat,
         NEW how \in {"now", "later", "fails"}, NEW how2 \in {"now", "later", "fails"},
         NEW h, NEW n, NEW u, u = _con_read(c, t, p, nbytes, how, how2)
  PROVE  /\ Serves(c, h, n, t, p, u)
         /\ Serving(c, h, n, t) /\ Held(c) /\ p = t.pid => Due(u)
<1> DEFINE len == Length(c, nbytes)
           first == smaller(MAX_IO_BUF, c.con.start + len) - c.con.start
           k == [token |-> t, to |-> p, len |-> len, first |-> first,
                 half |-> 1, from |-> c.con.start, n |-> first, got |-> <<>>]
<1>1. CASE c.con.size <= 0
  <2>1. u = [c EXCEPT !.rs.blocked = TRUE, !.rs.token = t, !.rs.nbytes = nbytes]
    BY <1>1 DEF _con_read
  <2>. QED BY <1>1, <2>1, BlockServes, Zenon
<1>2. CASE ~(c.con.size <= 0)
  <2>1. u = IF how = "later" THEN [c EXCEPT !.copies = @ \cup {k}]
            ELSE IF how = "fails" THEN _con_read_end(c, k, FALSE)
            ELSE _con_read_part2(c, Copied(c, k), how2)
    BY <1>2, Zenon DEF _con_read
  <2>2. /\ k \in Copy /\ k.token = t /\ k.to = p /\ k.first <= k.len /\ k.len <= c.con.size
        /\ k.half = 1 /\ k.from = c.con.start /\ k.n = k.first /\ k.got = <<>>
    <3>1. c.con.size > 0
      BY <1>2, StateFields DEF StateOK
    <3> HIDE DEF first, len
    <3>2. len = Length(c, nbytes)
          /\ first = smaller(MAX_IO_BUF, c.con.start + len) - c.con.start
      BY DEF first, len
    <3>3. k = [token |-> t, to |-> p, len |-> len, first |-> first,
               half |-> 1, from |-> c.con.start, n |-> first, got |-> <<>>]
      OBVIOUS
    <3> HIDE DEF k
    <3>. QED BY <3>1, <3>2, <3>3, FirstHalf
  <2> HIDE DEF k
  <2>3. CASE how = "later"
    <3>1. /\ Serves(c, h, n, k.token, k.to, u)
          /\ Serving(c, h, n, k.token) /\ Held(c) /\ CopyHeld(c, k) => Due(u)
      BY <2>1, <2>2, <2>3, WaitServes, Zenon
    <3>2. CopyHeld(c, k)
      BY <2>2 DEF CopyHeld
    <3>. QED BY <2>2, <3>1, <3>2, Zenon
  <2>4. CASE how = "fails"
    <3> DEFINE good == FALSE
    <3>1. u = _con_read_end(c, k, good) /\ good \in BOOLEAN /\ ~good
      BY <2>1, <2>4
    <3> HIDE DEF good
    <3>2. /\ Serves(c, h, n, k.token, k.to, u)
          /\ /\ Serving(c, h, n, k.token) /\ Held(c) /\ k.to = k.token.pid
             /\ good => k.len <= c.con.size /\ k.got = Bytes(c, c.con.start, k.len)
             => Due(u)
      BY <2>2, <3>1, EndServes, Zenon
    <3>. QED BY <2>2, <3>1, <3>2, Zenon
  <2>5. CASE how = "now"
    <3> DEFINE e == Copied(c, k)
    <3>1. e = Copied(c, k) /\ u = _con_read_part2(c, e, how2)
      BY <2>1, <2>5
    <3> HIDE DEF e
    <3>2. c \in State /\ c.con.buf \in [Place -> Byte] /\ c.con.start \in Place
      BY StateFields DEF StateOK
    <3>3. /\ e \in Copy /\ e.token = k.token /\ e.to = k.to /\ e.len = k.len
          /\ e.first = k.first /\ e.got = k.got \o Bytes(c, k.from, k.n)
      BY <2>2, <3>1, <3>2, CopiedFacts, ZenonT(30)
    <3>4. e.got = Bytes(c, c.con.start, e.first)
      <4>1. e.got = <<>> \o Bytes(c, c.con.start, k.first) /\ k.first \in Nat
        BY <2>2, <3>3 DEF Copy
      <4>2. Bytes(c, c.con.start, k.first) \in Seq(Byte)
        BY <3>2, <4>1, BytesSeq
      <4>. QED BY <3>3, <4>1, <4>2
    <3>5. e.first <= e.len /\ e.len <= c.con.size
      BY <2>2, <3>3
    <3>6. /\ Serves(c, h, n, e.token, e.to, u)
          /\ /\ Serving(c, h, n, e.token) /\ Held(c) /\ e.to = e.token.pid
             /\ e.len <= c.con.size /\ e.got = Bytes(c, c.con.start, e.first)
             => Due(u)
      BY <3>1, <3>3, <3>5, Part2Serves, Zenon
    <3>. QED BY <2>2, <3>3, <3>4, <3>5, <3>6, Zenon
  <2>. QED BY <2>3, <2>4, <2>5
<1>. QED BY <1>1, <1>2

-----------------------------------------------------------------------------
(* What the handlers do to the invariant.                                  *)

\* Whether a read is under way does not depend on the buffer.
LEMMA OneReadSame ==
  ASSUME NEW c \in State, NEW u \in State, u.rs = c.rs, u.copies = c.copies, u.st = c.st,
         u.freed = c.freed, u.ub = c.ub, NEW h, NEW n
  PROVE  /\ OneRead(c, h, n) => OneRead(u, h, n)
         /\ \A t : Serving(c, h, n, t) => Serving(u, h, n, t)
<1>1. Fresh(c, n) => Fresh(u, n)
  BY DEF Fresh
<1>2. \A t : Serving(c, h, n, t) => Serving(u, h, n, t)
  BY <1>1 DEF Serving
<1> DEFINE d == [c EXCEPT !.copies = {}]
           v == [u EXCEPT !.copies = {}]
<1>3. /\ d.rs = c.rs /\ d.copies = {} /\ d.st = c.st /\ d.freed = c.freed /\ d.ub = c.ub
      /\ v.rs = c.rs /\ v.copies = {} /\ v.st = c.st /\ v.freed = c.freed /\ v.ub = c.ub
  BY DEF State
<1> HIDE DEF d, v
<1>4. \A t : Serving(d, h, n, t) => Serving(v, h, n, t)
  <2>1. Fresh(d, n) => Fresh(v, n)
    BY <1>3 DEF Fresh
  <2>. QED BY <1>3, <2>1 DEF Serving
<1>5. ASSUME OneRead(c, h, n) PROVE OneRead(u, h, n)
  <2>1. Fresh(u, n)
    BY <1>1, <1>5 DEF OneRead
  <2>2. CASE ~c.rs.blocked /\ c.copies = {} /\ \A p \in Proc : c.st[p] # "read"
    BY <2>1, <2>2 DEF OneRead
  <2>3. CASE c.rs.blocked /\ Serving(c, h, n, c.rs.token)
    BY <1>2, <2>1, <2>3 DEF OneRead
  <2>4. CASE \E k \in c.copies : /\ c.copies = {k} /\ k.to = c.rs.pid
                                 /\ Serving([c EXCEPT !.copies = {}], h, n, k.token)
    <3>1. PICK k \in c.copies : /\ c.copies = {k} /\ k.to = c.rs.pid
                                /\ Serving(d, h, n, k.token)
      BY <2>4 DEF d
    <3>2. Serving(v, h, n, k.token)
      BY <1>4, <3>1
    <3>3. k \in u.copies /\ u.copies = {k} /\ k.to = u.rs.pid
      BY <3>1
    <3>. QED BY <2>1, <3>2, <3>3, Zenon DEF OneRead, v
  <2>. QED BY <1>5, <2>2, <2>3, <2>4, SMTT(30) DEF OneRead
<1>. QED BY <1>2, <1>5

\* What OneRead says when no read is under way, when only the blocked one is, and of a copy.
LEMMA OneReadCases ==
  ASSUME NEW c \in State, NEW h, NEW n, OneRead(c, h, n)
  PROVE  /\ ~c.rs.blocked /\ c.copies = {} => \A p \in Proc : c.st[p] # "read"
         /\ c.rs.blocked /\ c.copies = {} => Serving(c, h, n, c.rs.token)
         /\ \A k \in c.copies : /\ c.copies = {k} /\ k.to = c.rs.pid
                                /\ Serving([c EXCEPT !.copies = {}], h, n, k.token)
         /\ c.rs.blocked \/ c.copies # {} =>
                h = {c.rs.pid} /\ c.rs.pid \in Proc /\ c.st[c.rs.pid] = "read"
<1>1. CASE ~c.rs.blocked /\ c.copies = {} /\ \A p \in Proc : c.st[p] # "read"
  BY <1>1, Zenon
<1>2. CASE c.rs.blocked /\ Serving(c, h, n, c.rs.token)
  <2>1. /\ c.copies = {} /\ h = {c.rs.pid} /\ c.rs.token \in Token
        /\ c.rs.token.pid = c.rs.pid /\ c.st[c.rs.token.pid] = "read"
    BY <1>2 DEF Serving
  <2>2. c.rs.pid \in Proc /\ c.st[c.rs.pid] = "read"
    BY <2>1 DEF Token
  <2>. QED BY <1>2, <2>1, <2>2, Zenon
<1>3. CASE \E k \in c.copies : /\ c.copies = {k} /\ k.to = c.rs.pid
                               /\ Serving([c EXCEPT !.copies = {}], h, n, k.token)
  <2>1. PICK k \in c.copies : /\ c.copies = {k} /\ k.to = c.rs.pid
                              /\ Serving([c EXCEPT !.copies = {}], h, n, k.token)
    BY <1>3
  <2> DEFINE d == [c EXCEPT !.copies = {}]
  <2>2. d.rs = c.rs /\ d.st = c.st
    BY DEF State
  <2>3. Serving(d, h, n, k.token)
    BY <2>1
  <2> HIDE DEF d
  <2>4. h = {c.rs.pid} /\ k.token \in Token /\ k.token.pid = c.rs.pid
        /\ c.st[k.token.pid] = "read"
    BY <2>2, <2>3 DEF Serving
  <2>5. c.rs.pid \in Proc /\ c.st[c.rs.pid] = "read"
    BY <2>4 DEF Token
  <2>6. \A x \in c.copies : x = k
    BY <2>1
  <2>7. c.copies # {}
    BY <2>1
  <2>. QED BY <2>1, <2>4, <2>5, <2>6, <2>7, Zenon
<1>. QED BY <1>1, <1>2, <1>3, SMTT(30) DEF OneRead

\* What is due depends on the indices and the contents of the buffer.
LEMMA HeldSame ==
  ASSUME NEW c, NEW u, Held(c), u.con.buf = c.con.buf, u.con.start = c.con.start,
         u.con.size = c.con.size, u.con.end = c.con.end, u.due = c.due, u.last = c.last
  PROVE  Held(u)
<1>1. \A i, n : Bytes(u, i, n) = Bytes(c, i, n)
  BY SameBytes
<1>. QED BY <1>1 DEF Held

\* No bytes are the empty sequence.
LEMMA NoBytes ==
  ASSUME NEW c, c.con.buf \in [Place -> Byte], NEW i \in Place
  PROVE  Bytes(c, i, 0) = <<>>
<1>1. Bytes(c, i, 0) \in Seq(Byte) /\ Len(Bytes(c, i, 0)) = 0
  BY BytesSeq, Zenon
<1>. QED BY <1>1

\* _con_eachopen: nobody had the console open, so no read is under way.
LEMMA OpenHolds ==
  ASSUME NEW c, NEW h, NEW n, NEW x, Holds(c, h, n, x), NEW p \in Proc, c.st[p] = "run",
         ~c.rs.opened,
         NEW u, u = [c EXCEPT !.con = [c.con EXCEPT !.handler = TRUE],
                              !.rs = [c.rs EXCEPT !.opened = TRUE, !.pid = p]]
  PROVE  Holds(u, h \cup {p}, n, x)
<1> DEFINE con2 == [c.con EXCEPT !.handler = TRUE]
           rs2 == [c.rs EXCEPT !.opened = TRUE, !.pid = p]
<1>1. c \in State /\ c.con \in Con /\ c.rs \in Rs /\ StateOK(c) /\ Opened(c, h)
  BY StateFields DEF Holds, StateOK
<1>2. /\ con2 \in Con /\ con2.handler /\ con2.buf = c.con.buf /\ con2.size = c.con.size
      /\ con2.start = c.con.start /\ con2.end = c.con.end
  BY <1>1, Zenon DEF Con
<1>3. /\ rs2 \in Rs /\ rs2.opened /\ rs2.pid = p /\ rs2.blocked = c.rs.blocked
      /\ rs2.token = c.rs.token
  BY <1>1, Zenon DEF Rs
<1> HIDE DEF con2, rs2
<1>4. u = [c EXCEPT !.con = con2, !.rs = rs2]
  BY DEF con2, rs2
<1>5. /\ u \in State /\ u.con = con2 /\ u.rs = rs2 /\ u.copies = c.copies /\ u.st = c.st
      /\ u.freed = c.freed /\ u.due = c.due /\ u.last = c.last /\ u.ub = c.ub
  BY <1>1, <1>2, <1>3, <1>4, Zenon DEF State
<1>6. StateOK(u)
  BY <1>1, <1>3, <1>5 DEF StateOK
<1>7. h = {}
  BY <1>1 DEF Opened
<1>8. Opened(u, h \cup {p})
  BY <1>2, <1>3, <1>5, <1>7 DEF Opened
<1>9. ASSUME x \subseteq {"unread"}
      PROVE  OneRead(u, h \cup {p}, n) /\ ~c.rs.blocked /\ c.copies = {}
  <2>1. OneRead(c, h, n)
    BY <1>9 DEF Holds
  <2>2. ~c.rs.blocked /\ c.copies = {} /\ \A q \in Proc : c.st[q] # "read"
    <3>1. /\ ~c.rs.blocked /\ c.copies = {} => \A q \in Proc : c.st[q] # "read"
          /\ c.rs.blocked \/ c.copies # {} => h = {c.rs.pid}
      BY <1>1, <2>1, OneReadCases, ZenonT(30)
    <3>2. h # {c.rs.pid}
      BY <1>7
    <3>. QED BY <3>1, <3>2, Zenon
  <2>3. Fresh(u, n)
    BY <1>5, <2>1 DEF OneRead, Fresh
  <2>. QED BY <1>3, <1>5, <2>2, <2>3 DEF OneRead
<1>10. ASSUME x = {} PROVE Due(u)
  <2>1. Held(c)
    BY <1>10 DEF Holds, Due
  <2>2. c.copies = {} /\ ~c.rs.blocked
    BY <1>9, <1>10
  <2>4. Held(u)
    BY <1>2, <1>5, <2>1, HeldSame, Zenon
  <2>. QED BY <1>3, <1>5, <2>2, <2>4 DEF Due
<1>. QED BY <1>6, <1>8, <1>9, <1>10 DEF Holds

\* _con_eachclose, by the reader or when it is destroyed: if it leaves a read or input behind,
\* that upsets the state.
LEMMA CloseHolds ==
  ASSUME NEW c, NEW h, NEW n, NEW x, Holds(c, h, n, x), NEW p \in h,
         NEW s, s = c.st \/ s = [c.st EXCEPT ![p] = "dead"],
         NEW y, x \subseteq y, y \subseteq Upset,
         y \subseteq {"unread"} => ~c.rs.blocked /\ c.copies = {},
         y = {} => c.con.size = 0,
         NEW u, u = [c EXCEPT !.con = [c.con EXCEPT !.handler = FALSE, !.size = 0],
                              !.rs = [c.rs EXCEPT !.pid = NOBODY, !.opened = FALSE],
                              !.due = <<>>, !.st = s]
  PROVE  Holds(u, h \ {p}, n, y)
<1> DEFINE con2 == [c.con EXCEPT !.handler = FALSE, !.size = 0]
           rs2 == [c.rs EXCEPT !.pid = NOBODY, !.opened = FALSE]
<1>1. /\ c \in State /\ c.con \in Con /\ c.rs \in Rs /\ StateOK(c) /\ Opened(c, h)
      /\ c.con.buf \in [Place -> Byte] /\ c.con.start \in Place
      /\ c.st \in [Proc -> {"run", "read", "dead"}]
  BY StateFields DEF Holds, StateOK
<1>2. /\ con2 \in Con /\ ~con2.handler /\ con2.buf = c.con.buf /\ con2.size = 0
      /\ con2.start = c.con.start /\ con2.end = c.con.end
  <2>1. ~con2.handler
    BY <1>1, Zenon DEF Con
  <2>2. con2 \in Con
    <3> DEFINE a == [c.con EXCEPT !.handler = FALSE]
    <3>1. a \in Con
      BY <1>1, Zenon DEF Con
    <3> HIDE DEF a
    <3>2. [a EXCEPT !.size = 0] \in Con
      BY <3>1 DEF Con
    <3>. QED BY <3>2 DEF a
  <2>3. /\ con2.buf = c.con.buf /\ con2.size = 0 /\ con2.start = c.con.start
        /\ con2.end = c.con.end
    BY <1>1 DEF Con
  <2>. QED BY <2>1, <2>2, <2>3
<1>3. /\ rs2 \in Rs /\ ~rs2.opened /\ rs2.blocked = c.rs.blocked
      /\ rs2.token = c.rs.token
  BY <1>1, Zenon DEF Rs
<1> HIDE DEF con2, rs2
<1>4. s \in [Proc -> {"run", "read", "dead"}] /\ \A q \in Proc : s[q] = "read" => c.st[q] = "read"
  BY <1>1
<1>5. u = [c EXCEPT !.con = con2, !.rs = rs2, !.due = <<>>, !.st = s]
  BY DEF con2, rs2
<1>6. /\ u \in State /\ u.con = con2 /\ u.rs = rs2 /\ u.copies = c.copies /\ u.st = s
      /\ u.freed = c.freed /\ u.due = <<>> /\ u.last = c.last /\ u.ub = c.ub
  <2>1. <<>> \in Seq(Byte)
    OBVIOUS
  <2>. QED BY <1>1, <1>2, <1>3, <1>4, <1>5, <2>1, ZenonT(30) DEF State
<1>7. StateOK(u)
  BY <1>1, <1>3, <1>6 DEF StateOK
<1>8. h \ {p} = {}
  BY <1>1 DEF Opened
<1>9. Opened(u, h \ {p})
  BY <1>2, <1>3, <1>6, <1>8 DEF Opened
<1>10. ASSUME y \subseteq {"unread"} PROVE OneRead(u, h \ {p}, n)
  <2>1. OneRead(c, h, n)
    BY <1>10 DEF Holds
  <2>2. ~c.rs.blocked /\ c.copies = {} /\ \A q \in Proc : c.st[q] # "read"
    BY <1>1, <1>10, <2>1, OneReadCases, Zenon
  <2>3. Fresh(u, n)
    BY <1>6, <2>1 DEF OneRead, Fresh
  <2>4. \A q \in Proc : s[q] # "read"
    BY <1>4, <2>2
  <2>. QED BY <1>3, <1>6, <2>2, <2>3, <2>4 DEF OneRead
<1>11. ASSUME y = {} PROVE Due(u)
  <2>1. Held(c) /\ c.con.size = 0
    BY <1>11 DEF Holds, Due
  <2>2. c.copies = {} /\ ~c.rs.blocked
    BY <1>11
  <2>3. Bytes(u, c.con.start, 0) = <<>>
    <3>1. u.con.buf \in [Place -> Byte]
      BY <1>1, <1>2, <1>6
    <3>. QED BY <1>1, <3>1, NoBytes, Zenon
  <2>4. Held(u)
    BY <1>2, <1>6, <2>1, <2>3, PlaceNat DEF Held
  <2>. QED BY <1>3, <1>6, <2>2, <2>4 DEF Due
<1>12. n \in Nat
  BY DEF Holds
<1>. QED BY <1>7, <1>9, <1>10, <1>11, <1>12 DEF Holds

\* proc_destroy of a process that does not have the console open: it has no read there.
LEMMA KillHolds ==
  ASSUME NEW c, NEW h, NEW n, NEW x, Holds(c, h, n, x), NEW p \in Proc, p \notin h,
         NEW u, u = [c EXCEPT !.st = [c.st EXCEPT ![p] = "dead"]]
  PROVE  Holds(u, h, n, x)
<1> DEFINE s == [c.st EXCEPT ![p] = "dead"]
<1>1. /\ c \in State /\ StateOK(c) /\ Opened(c, h)
      /\ c.st \in [Proc -> {"run", "read", "dead"}]
  BY StateFields DEF Holds, StateOK
<1>2. /\ s \in [Proc -> {"run", "read", "dead"}]
      /\ \A q \in Proc : (s[q] = "read" => c.st[q] = "read") /\ (q # p => s[q] = c.st[q])
  BY <1>1
<1>3. u = [c EXCEPT !.st = s]
  OBVIOUS
<1> HIDE DEF s
<1>4. /\ u \in State /\ u.con = c.con /\ u.rs = c.rs /\ u.copies = c.copies /\ u.st = s
      /\ u.freed = c.freed /\ u.due = c.due /\ u.last = c.last /\ u.ub = c.ub
  BY <1>1, <1>2, <1>3 DEF State
<1>5. StateOK(u)
  BY <1>1, <1>4 DEF StateOK
<1>6. Opened(u, h)
  <2>1. \A q \in h : q \in Proc /\ s[q] # "dead"
    BY <1>1, <1>2 DEF Opened
  <2>. QED BY <1>1, <1>4, <2>1, Zenon DEF Opened
<1>7. ASSUME NEW d, NEW v, d.rs = c.rs, d.freed = c.freed, d.ub = c.ub, d.st = c.st,
             v.rs = c.rs, v.freed = c.freed, v.ub = c.ub, v.st = s, v.copies = d.copies,
             NEW t, Serving(d, h, n, t)
      PROVE  Serving(v, h, n, t)
  <2>1. Fresh(v, n)
    BY <1>7 DEF Serving, Fresh
  <2>2. t \in Token /\ h = {c.rs.pid} /\ t.pid = c.rs.pid /\ c.st[t.pid] = "read"
    BY <1>7 DEF Serving
  <2>3. t.pid \in Proc /\ t.pid # p
    BY <2>2 DEF Token
  <2>4. s[t.pid] = "read" /\ \A q \in Proc : s[q] = "read" => q = t.pid
    BY <1>2, <1>7, <2>2, <2>3 DEF Serving
  <2>. QED BY <1>7, <2>1, <2>4 DEF Serving
<1>8. ASSUME x \subseteq {"unread"} PROVE OneRead(u, h, n)
  <2>1. OneRead(c, h, n)
    BY <1>8 DEF Holds
  <2>2. Fresh(u, n)
    BY <1>4, <2>1 DEF OneRead, Fresh
  <2>3. CASE ~c.rs.blocked /\ c.copies = {}
    <3>1. \A q \in Proc : c.st[q] # "read"
      BY <1>1, <2>1, <2>3, OneReadCases, Zenon
    <3>2. \A q \in Proc : s[q] # "read"
      BY <1>2, <3>1
    <3>. QED BY <1>4, <2>2, <2>3, <3>2, Zenon DEF OneRead
  <2>4. CASE c.rs.blocked /\ c.copies = {}
    <3>1. Serving(c, h, n, c.rs.token)
      BY <1>1, <2>1, <2>4, OneReadCases, Zenon
    <3>2. Serving(u, h, n, c.rs.token)
      BY <1>4, <1>7, <3>1, Zenon
    <3>. QED BY <1>4, <2>2, <2>4, <3>2 DEF OneRead
  <2>5. CASE c.copies # {}
    <3>1. PICK k \in c.copies : TRUE
      BY <2>5
    <3>2. /\ c.copies = {k} /\ k.to = c.rs.pid
          /\ Serving([c EXCEPT !.copies = {}], h, n, k.token)
      BY <1>1, <2>1, <3>1, OneReadCases, Zenon
    <3> DEFINE d == [c EXCEPT !.copies = {}]
               v == [u EXCEPT !.copies = {}]
    <3>3. /\ d.rs = c.rs /\ d.freed = c.freed /\ d.ub = c.ub /\ d.st = c.st /\ d.copies = {}
      BY <1>1 DEF State
    <3>4. /\ v.rs = c.rs /\ v.freed = c.freed /\ v.ub = c.ub /\ v.st = s /\ v.copies = {}
      <4>1. u \in State /\ u.rs = c.rs /\ u.freed = c.freed /\ u.ub = c.ub /\ u.st = s
        BY <1>4
      <4>. QED BY <4>1 DEF State
    <3> HIDE DEF d, v
    <3>5. Serving(d, h, n, k.token)
      BY <3>2 DEF d
    <3>6. Serving(v, h, n, k.token)
      BY <1>7, <3>3, <3>4, <3>5, SMTT(30)
    <3>. QED BY <1>4, <2>2, <3>2, <3>6, Zenon DEF OneRead, v
  <2>. QED BY <2>3, <2>4, <2>5
<1>9. ASSUME x = {} PROVE Due(u)
  <2>1. Due(c)
    BY <1>9 DEF Holds
  <2>2. Held(u)
    BY <1>4, <2>1, HeldSame, Zenon DEF Due
  <2>3. \A k \in u.copies : CopyHeld(u, k)
    BY <1>4, <2>1, CopyHeldSame, Zenon DEF Due
  <2>. QED BY <1>4, <2>1, <2>2, <2>3 DEF Due, NoLine
<1>10. n \in Nat /\ x \subseteq Upset
  BY DEF Holds
<1>. QED BY <1>5, <1>6, <1>8, <1>9, <1>10 DEF Holds

\* serv_sys_read: its process runs, so no read was under way, and its token is new.
LEMMA ReadHolds ==
  ASSUME NEW c, NEW h, NEW n, NEW x, Holds(c, h, n, x), NEW p \in h, c.st[p] = "run",
         n < MAXREADS, NEW nbytes \in Nat,
         NEW how \in {"now", "later", "fails"}, NEW how2 \in {"now", "later", "fails"},
         NEW d, d = [c EXCEPT !.st = [c.st EXCEPT ![p] = "read"]],
         NEW u, u = _con_read(d, [pid |-> p, n |-> n + 1], p, nbytes, how, how2)
  PROVE  Holds(u, h, n + 1, x)
<1> DEFINE s == [c.st EXCEPT ![p] = "read"]
           t == [pid |-> p, n |-> n + 1]
<1>1. /\ c \in State /\ StateOK(c) /\ Opened(c, h) /\ n \in Nat /\ x \subseteq Upset
      /\ c.st \in [Proc -> {"run", "read", "dead"}] /\ p \in Proc /\ h = {c.rs.pid}
      /\ p = c.rs.pid
  <2>1. /\ c \in State /\ StateOK(c) /\ Opened(c, h) /\ n \in Nat /\ x \subseteq Upset
        /\ c.st \in [Proc -> {"run", "read", "dead"}]
    BY StateFields DEF Holds, StateOK
  <2>2. p \in Proc /\ h = {c.rs.pid}
    BY <2>1 DEF Opened
  <2>. QED BY <2>1, <2>2
<1>2. /\ s \in [Proc -> {"run", "read", "dead"}] /\ s[p] = "read"
      /\ \A q \in Proc : q # p => s[q] = c.st[q]
  BY <1>1
<1>3. t \in Token /\ t.pid = p /\ t.n = n + 1
  BY <1>1, ConsoleAssumption DEF Token
<1>4. d = [c EXCEPT !.st = s]
  OBVIOUS
<1>5. u = _con_read(d, t, p, nbytes, how, how2)
  OBVIOUS
<1> HIDE DEF s, t
<1>6. /\ d \in State /\ d.con = c.con /\ d.rs = c.rs /\ d.copies = c.copies /\ d.st = s
      /\ d.freed = c.freed /\ d.due = c.due /\ d.last = c.last /\ d.ub = c.ub
  BY <1>1, <1>2, <1>4, Zenon DEF State
<1>7. StateOK(d)
  BY <1>1, <1>6 DEF StateOK
<1>8. Opened(d, h)
  <2>1. \A q \in h : q \in Proc /\ s[q] # "dead"
    BY <1>1, <1>2
  <2>. QED BY <1>1, <1>6, <2>1, Zenon DEF Opened
<1>9. /\ Serves(d, h, n + 1, t, p, u)
      /\ Serving(d, h, n + 1, t) /\ Held(d) /\ p = t.pid => Due(u)
  <2> DEFINE m == n + 1
  <2> HIDE DEF m
  <2>1. /\ Serves(d, h, m, t, p, u)
        /\ Serving(d, h, m, t) /\ Held(d) /\ p = t.pid => Due(u)
    BY <1>1, <1>3, <1>5, <1>7, ReadServes
  <2>. QED BY <2>1 DEF m
<1>10. ASSUME x \subseteq {"unread"} PROVE Serving(d, h, n + 1, t)
  <2>1. OneRead(c, h, n)
    BY <1>10 DEF Holds
  <2>2. ~c.rs.blocked /\ c.copies = {}
    BY <1>1, <2>1, OneReadCases, Zenon
  <2>3. \A q \in Proc : c.st[q] # "read"
    BY <1>1, <2>1, <2>2, OneReadCases, Zenon
  <2>4. ~c.ub /\ \A y \in c.freed : y.n <= n
    BY <2>1 DEF OneRead, Fresh
  <2>5. \A y \in c.freed : y.n <= n + 1 /\ y # t
    <3>1. \A y \in c.freed : y.n \in Nat
      BY <1>1, StateFields DEF Token
    <3>. QED BY <1>1, <1>3, <2>4, <3>1
  <2>6. Fresh(d, n + 1) /\ t \notin d.freed
    BY <1>6, <2>4, <2>5 DEF Fresh
  <2>7. \A q \in Proc : s[q] = "read" => q = p
    BY <1>2, <2>3
  <2>8. t.n <= n + 1
    BY <1>1, <1>3
  <2>. QED BY <1>1, <1>2, <1>3, <1>6, <2>2, <2>6, <2>7, <2>8 DEF Serving
<1>11. x = {} => Held(d)
  <2>1. x = {} => Held(c)
    BY DEF Holds, Due
  <2>. QED BY <1>6, <2>1, HeldSame, Zenon
<1>12. n + 1 \in Nat
  BY <1>1
<1>. QED BY <1>1, <1>3, <1>6, <1>8, <1>9, <1>10, <1>11, <1>12 DEF Holds, Serves

\* The first part of _read_handler: what is delivered is buffered, if there is room.
LEMMA BufferedServes ==
  ASSUME NEW c, StateOK(c), NEW ch \in Byte, NEW u, u = Buffered(c, ch), NEW h, NEW n
  PROVE  /\ StateOK(u) /\ u.rs = c.rs /\ u.copies = c.copies /\ u.st = c.st
         /\ Opened(c, h) => Opened(u, h)
         /\ OneRead(c, h, n) => OneRead(u, h, n)
         /\ \A t : Serving(c, h, n, t) => Serving(u, h, n, t)
         /\ Held(c) => Held(u)
         /\ Due(c) /\ ~(c.rs.blocked /\ ch = NL) => Due(u)
<1>1. c \in State /\ c.con.size \in Int /\ c.due \in Seq(Byte)
  BY StateFields DEF StateOK
<1>2. CASE c.con.size >= MAX_IO_BUF
  <2>1. u = c
    BY <1>2, Zenon DEF Buffered
  <2>. QED BY <2>1
<1>3. CASE ~(c.con.size >= MAX_IO_BUF)
  <2>1. c.con.size < MAX_IO_BUF
    BY <1>1, <1>3, PlaceNat
  <2>2. /\ StateOK(u) /\ u.rs = c.rs /\ u.copies = c.copies /\ u.st = c.st
        /\ u.freed = c.freed /\ u.last = c.last /\ u.ub = c.ub
        /\ u.con.handler = c.con.handler /\ u.con.start = c.con.start
        /\ u.con.buf = [c.con.buf EXCEPT ![c.con.end] = ch]
        /\ u.con.end = (c.con.end + 1) % MAX_IO_BUF /\ u.con.size = c.con.size + 1
        /\ u.due = Append(c.due, ch)
    BY <2>1, BufferedEffect
  <2>3. u \in State
    BY <2>2 DEF StateOK
  <2>4. /\ OneRead(c, h, n) => OneRead(u, h, n)
        /\ \A t : Serving(c, h, n, t) => Serving(u, h, n, t)
    BY <1>1, <2>2, <2>3, OneReadSame, Zenon
  <2>5. Opened(c, h) => Opened(u, h)
    BY <2>2, ZenonT(30) DEF Opened
  <2>6. Held(c) => /\ Held(u)
                   /\ \A l \in 0 .. c.con.size :
                          Bytes(u, c.con.start, l) = Bytes(c, c.con.start, l)
    BY <2>1, BufferedHeld, Zenon
  <2>7. ASSUME Due(c), ~(c.rs.blocked /\ ch = NL) PROVE Due(u)
    <3>1. Held(c) /\ Held(u)
      BY <2>6, <2>7 DEF Due
    <3>2. ASSUME NEW k \in u.copies PROVE CopyHeld(u, k)
      <4>1. CopyHeld(c, k) /\ k.first <= k.len /\ k \in Copy
        BY <1>1, <2>2, <2>7, <3>2, StateFields DEF Due, StateOK
      <4>2. k.first \in Nat /\ k.len \in Nat
        BY <4>1 DEF Copy
      <4>3. k.len <= c.con.size
        BY <4>1 DEF CopyHeld
      <4>4. k.first \in 0 .. c.con.size /\ k.len <= c.con.size + 1
        BY <1>1, <4>1, <4>2, <4>3
      <4>5. Bytes(u, c.con.start, k.first) = Bytes(c, c.con.start, k.first)
        BY <2>6, <3>1, <4>4
      <4>6. u.con.start = c.con.start /\ u.con.size = c.con.size + 1
        BY <2>2
      <4>. QED BY <4>1, <4>4, <4>5, <4>6 DEF CopyHeld
    <3>3. ASSUME u.rs.blocked, u.copies = {} PROVE NoLine(u)
      <4>1. ch # NL /\ NoLine(c)
        BY <2>2, <2>7, <3>3 DEF Due
      <4>2. \A i \in 1 .. Len(Append(c.due, ch)) : Append(c.due, ch)[i] # NL
        BY <1>1, <4>1 DEF NoLine
      <4>. QED BY <2>2, <4>2 DEF NoLine
    <3>. QED BY <3>1, <3>2, <3>3 DEF Due
  <2>. QED BY <2>2, <2>4, <2>5, <2>6, <2>7, Zenon
<1>. QED BY <1>2, <1>3, Zenon

\* What _read_handler makes of the state b with ch in the buffer, and what it upsets.
Repeated(c, b, ch, how, how2) ==
    IF ~(c.rs.blocked /\ ch = NL) THEN b
    ELSE IF Alive(b, c.rs.pid)
    THEN _con_read(b, c.rs.token, c.rs.pid, c.rs.nbytes, how, how2)
    ELSE [b EXCEPT !.rs.pid = NOBODY, !.rs.blocked = FALSE]
Overtaken(c, ch, x) ==
    IF c.rs.blocked /\ ch = NL /\ c.copies # {} THEN x \cup {"again"} ELSE x

\* _read_handler: a newline repeats the blocked read, unless its copy is under way, which
\* upsets the state.
LEMMA HandlerHolds ==
  ASSUME NEW c, NEW h, NEW n, NEW x, Holds(c, h, n, x), c.con.handler, NEW ch \in Byte,
         NEW how \in {"now", "later", "fails"}, NEW how2 \in {"now", "later", "fails"},
         NEW b, b = Buffered(c, ch),
         NEW u, u = Repeated(c, b, ch, how, how2), NEW y, y = Overtaken(c, ch, x)
  PROVE  Holds(u, h, n, y)
<1>1. /\ StateOK(c) /\ Opened(c, h) /\ n \in Nat /\ x \subseteq Upset
      /\ x \subseteq {"unread"} => OneRead(c, h, n)
      /\ x = {} => Due(c)
  BY DEF Holds
<1>2. /\ StateOK(b) /\ b.rs = c.rs /\ b.copies = c.copies /\ b.st = c.st
      /\ Opened(c, h) => Opened(b, h)
      /\ OneRead(c, h, n) => OneRead(b, h, n)
      /\ \A t : Serving(c, h, n, t) => Serving(b, h, n, t)
      /\ Held(c) => Held(b)
      /\ Due(c) /\ ~(c.rs.blocked /\ ch = NL) => Due(b)
  BY <1>1, BufferedServes, ZenonT(30)
<1>3. CASE ~(c.rs.blocked /\ ch = NL)
  <2>1. u = b /\ y = x
    BY <1>3, Zenon DEF Repeated, Overtaken
  <2>. QED BY <1>1, <1>2, <1>3, <2>1, Zenon DEF Holds
<1>4. CASE c.rs.blocked /\ ch = NL
  <2>1. c \in State /\ c.rs \in Rs /\ c.rs.token \in Token /\ c.rs.nbytes \in Nat
    BY <1>1, <1>4, StateFields DEF StateOK, Rs
  <2>2. h = {c.rs.pid} /\ c.rs.pid \in Proc /\ c.st[c.rs.pid] # "dead"
    <3>1. c.rs.opened
      BY <1>1, Zenon DEF Opened
    <3>. QED BY <1>1, <3>1 DEF Opened
  <2>3. Alive(b, c.rs.pid)
    BY <1>2, <2>2 DEF Alive
  <2>4. u = _con_read(b, c.rs.token, c.rs.pid, c.rs.nbytes, how, how2)
    BY <1>4, <2>3, Zenon DEF Repeated
  <2>5. /\ Serves(b, h, n, c.rs.token, c.rs.pid, u)
        /\ Serving(b, h, n, c.rs.token) /\ Held(b) /\ c.rs.pid = c.rs.token.pid => Due(u)
    <3>1. StateOK(b) /\ c.rs.token \in Token /\ c.rs.pid \in Proc /\ c.rs.nbytes \in Nat
      BY <1>2, <2>1, <2>2, Zenon
    <3>2. PICK t \in Token, p \in Proc, m \in Nat :
             t = c.rs.token /\ p = c.rs.pid /\ m = c.rs.nbytes
      BY <3>1, Zenon
    <3>3. u = _con_read(b, t, p, m, how, how2)
      BY <2>4, <3>2, Zenon
    <3>4. /\ Serves(b, h, n, t, p, u)
          /\ Serving(b, h, n, t) /\ Held(b) /\ p = t.pid => Due(u)
      BY <3>1, <3>3, ReadServes, ZenonT(30)
    <3>. QED BY <3>2, <3>4, Zenon
  <2>6. x \subseteq y /\ y \subseteq Upset /\ (y \subseteq {"unread"} => c.copies = {})
    <3>1. CASE c.copies = {}
      BY <1>1, <3>1 DEF Overtaken
    <3>2. CASE c.copies # {}
      BY <1>1, <1>4, <3>2 DEF Upset, Overtaken
    <3>. QED BY <3>1, <3>2
  <2>7. ASSUME y \subseteq {"unread"}
        PROVE  Serving(b, h, n, c.rs.token) /\ c.rs.pid = c.rs.token.pid
    <3>1. OneRead(c, h, n) /\ c.copies = {}
      BY <1>1, <2>6, <2>7
    <3>2. Serving(c, h, n, c.rs.token)
      BY <1>4, <2>1, <3>1, OneReadCases, Zenon
    <3>. QED BY <1>2, <3>2 DEF Serving
  <2>8. y = {} => Held(b)
    BY <1>1, <1>2, <2>6 DEF Due
  <2>9. y = {} => y \subseteq {"unread"}
    OBVIOUS
  <2>10. StateOK(u) /\ Opened(u, h)
    BY <1>1, <1>2, <2>5 DEF Serves
  <2>11. y \subseteq {"unread"} => OneRead(u, h, n)
    BY <1>2, <2>5, <2>7 DEF Serves
  <2>12. y = {} => Due(u)
    BY <2>5, <2>7, <2>8, <2>9
  <2>. QED BY <1>1, <2>6, <2>10, <2>11, <2>12 DEF Holds
<1>. QED BY <1>3, <1>4, Zenon

\* A copyout that waited is over: the second half starts, or the read ends, and what it
\* returns is the beginning of what is due.
LEMMA CopyHolds ==
  ASSUME NEW c, NEW h, NEW n, NEW x, Holds(c, h, n, x), NEW k \in c.copies,
         NEW good \in BOOLEAN, NEW how \in {"now", "later", "fails"},
         NEW d, d = [c EXCEPT !.copies = c.copies \ {k}],
         NEW u, u = IF good /\ k.half = 1 THEN _con_read_part2(d, Copied(d, k), how)
                    ELSE _con_read_end(d, Copied(d, k), good)
  PROVE  Holds(u, h, n, x)
<1> DEFINE e == Copied(d, k)
<1>1. /\ StateOK(c) /\ Opened(c, h) /\ n \in Nat /\ x \subseteq Upset
      /\ x \subseteq {"unread"} => OneRead(c, h, n)
      /\ x = {} => Due(c)
  BY DEF Holds
<1>2. /\ c \in State /\ c.copies \subseteq Copy /\ k \in Copy /\ k.first <= k.len
  BY <1>1, StateFields DEF StateOK
<1>3. /\ d \in State /\ d.con = c.con /\ d.rs = c.rs /\ d.copies = c.copies \ {k}
      /\ d.st = c.st /\ d.freed = c.freed /\ d.due = c.due /\ d.last = c.last /\ d.ub = c.ub
  BY <1>2, SMTT(30) DEF State
<1>4. StateOK(d)
  BY <1>1, <1>3 DEF StateOK
<1>5. Opened(d, h)
  BY <1>1, <1>3, Zenon DEF Opened
<1>6. /\ e \in Copy /\ e.token = k.token /\ e.to = k.to /\ e.len = k.len
      /\ e.first = k.first /\ e.got = k.got \o Bytes(d, k.from, k.n)
  <2>1. e = Copied(d, k)
    OBVIOUS
  <2> HIDE DEF e
  <2>2. d \in State /\ k \in Copy
    BY <1>2, <1>3
  <2>. QED BY <2>1, <2>2, CopiedFacts, ZenonT(30)
<1>7. u = IF good /\ k.half = 1 THEN _con_read_part2(d, e, how) ELSE _con_read_end(d, e, good)
  OBVIOUS
<1> HIDE DEF e
<1>8. ASSUME x \subseteq {"unread"}
      PROVE  Serving(d, h, n, k.token) /\ k.to = d.rs.pid /\ k.to = k.token.pid
  <2>1. /\ c.copies = {k} /\ k.to = c.rs.pid
        /\ Serving([c EXCEPT !.copies = {}], h, n, k.token)
    BY <1>1, <1>2, <1>8, OneReadCases, Zenon
  <2>2. d = [c EXCEPT !.copies = {}]
    <3>1. c.copies \ {k} = {}
      BY <2>1
    <3>. QED BY <3>1
  <2>3. Serving(d, h, n, k.token)
    BY <2>1, <2>2, Zenon
  <2>. QED BY <1>3, <2>1, <2>3 DEF Serving
<1>9. ASSUME x = {} PROVE Held(d) /\ CopyHeld(d, k)
  <2>1. Held(c) /\ CopyHeld(c, k)
    BY <1>1, <1>9 DEF Due
  <2>. QED BY <1>3, <2>1, HeldSame, CopyHeldSame, Zenon
<1>10. /\ d.con.buf \in [Place -> Byte] /\ d.con.start \in Place
       /\ k.first \in Nat /\ k.len \in Nat /\ k.n \in Nat /\ k.half \in {1, 2}
  BY <1>2, <1>3, StateFields DEF Copy
<1>11. x = {} => x \subseteq {"unread"}
  OBVIOUS
<1>12. CASE good /\ k.half = 1
  <2>1. u = _con_read_part2(d, e, how)
    BY <1>7, <1>12, Zenon
  <2>2. /\ Serves(d, h, n, e.token, e.to, u)
        /\ /\ Serving(d, h, n, e.token) /\ Held(d) /\ e.to = e.token.pid
           /\ e.len <= d.con.size /\ e.got = Bytes(d, d.con.start, e.first)
           => Due(u)
    <3>1. e.first <= e.len
      BY <1>2, <1>6
    <3>. QED BY <1>4, <1>6, <2>1, <3>1, Part2Serves, Zenon
  <2>3. CopyHeld(d, k) => e.len <= d.con.size /\ e.got = Bytes(d, d.con.start, e.first)
    <3>1. CopyHeld(d, k) => /\ k.len <= d.con.size /\ k.from = d.con.start /\ k.n = k.first
                            /\ k.got = <<>>
      BY <1>12 DEF CopyHeld
    <3>2. Bytes(d, d.con.start, k.first) \in Seq(Byte)
      BY <1>10, BytesSeq, Zenon
    <3>3. <<>> \o Bytes(d, d.con.start, k.first) = Bytes(d, d.con.start, k.first)
      BY <3>2
    <3>. QED BY <1>6, <3>1, <3>3, Zenon
  <2>4. StateOK(u) /\ Opened(u, h)
    BY <1>5, <2>2 DEF Serves
  <2>5. x \subseteq {"unread"} => OneRead(u, h, n)
    BY <1>6, <1>8, <2>2 DEF Serves
  <2>6. x = {} => Due(u)
    BY <1>6, <1>8, <1>9, <1>11, <2>2, <2>3, Zenon
  <2>. QED BY <1>1, <2>4, <2>5, <2>6 DEF Holds
<1>13. CASE ~(good /\ k.half = 1)
  <2>1. u = _con_read_end(d, e, good)
    BY <1>7, <1>13, Zenon
  <2>2. /\ Serves(d, h, n, e.token, e.to, u)
        /\ /\ Serving(d, h, n, e.token) /\ Held(d) /\ e.to = e.token.pid
           /\ good => e.len <= d.con.size /\ e.got = Bytes(d, d.con.start, e.len)
           => Due(u)
    BY <1>4, <1>6, <2>1, EndServes, Zenon
  <2>3. ASSUME CopyHeld(d, k), good
        PROVE  e.len <= d.con.size /\ e.got = Bytes(d, d.con.start, e.len)
    <3> DEFINE m == k.len - k.first
    <3>1. k.half = 2
      BY <1>10, <1>13, <2>3
    <3>2. /\ k.len <= d.con.size /\ k.from = (d.con.start + k.first) % MAX_IO_BUF
          /\ k.n = m /\ k.got = Bytes(d, d.con.start, k.first)
      BY <2>3, <3>1 DEF CopyHeld
    <3>3. m \in Nat /\ k.first + m = k.len
      BY <1>2, <1>10
    <3> HIDE DEF m
    <3>4. Bytes(d, d.con.start, k.first) \o Bytes(d, (d.con.start + k.first) % MAX_IO_BUF, m)
            = Bytes(d, d.con.start, k.first + m)
      <4> DEFINE i == d.con.start
                 l == k.first
      <4>1. i \in Place /\ l \in Nat /\ m \in Nat /\ d.con.buf \in [Place -> Byte]
        BY <1>10, <3>3
      <4> HIDE DEF i, l
      <4>2. Bytes(d, i, l) \o Bytes(d, (i + l) % MAX_IO_BUF, m) = Bytes(d, i, l + m)
        BY <4>1, BytesSplit, Zenon
      <4>. QED BY <4>2, Zenon DEF i, l
    <3>. QED BY <1>6, <3>2, <3>3, <3>4, Zenon
  <2>4. StateOK(u) /\ Opened(u, h)
    BY <1>5, <2>2 DEF Serves
  <2>5. x \subseteq {"unread"} => OneRead(u, h, n)
    BY <1>6, <1>8, <2>2 DEF Serves
  <2>6. x = {} => Due(u)
    BY <1>6, <1>8, <1>9, <1>11, <2>2, <2>3, Zenon
  <2>. QED BY <1>1, <2>4, <2>5, <2>6 DEF Holds
<1>. QED BY <1>12, <1>13, Zenon

-----------------------------------------------------------------------------
(* The steps.                                                              *)

\* The state is the record that a handler leaves.
LEMMA BecomeNow ==
  ASSUME NEW u \in State, Become(u)
  PROVE  Now' = u
BY DEF Become, Now, State

\* The fields of the record are the variables.
LEMMA NowFields ==
  /\ Now.con = con /\ Now.rs = rs /\ Now.copies = copies /\ Now.st = st
  /\ Now.freed = freed /\ Now.due = due /\ Now.last = last /\ Now.ub = ub
BY DEF Now

\* A copyout goes in one of three ways.
LEMMA HowFacts == \A how \in Copyouts : how \in {"now", "later", "fails"}
BY ConsoleAssumption

\* con_init.
LEMMA InitHolds == Init => IInv
<1> SUFFICES ASSUME Init PROVE Holds(Now, has, reads, upset)
  BY DEF IInv
<1>1. <<>> \in Seq(Byte)
  OBVIOUS
<1>2. con \in Con /\ ~con.handler /\ con.buf \in [Place -> Byte] /\ con.start \in Place
  <2>1. con = [buf |-> [i \in Place |-> NL], size |-> 0, start |-> 0, end |-> 0,
               handler |-> FALSE]
    BY DEF Init
  <2>2. NL \in Byte /\ 0 \in Place
    BY PlaceFacts DEF Byte
  <2>3. ~con.handler
    BY <2>1, Zenon
  <2>4. [i \in Place |-> NL] \in [Place -> Byte]
    BY <2>2
  <2>. QED BY <2>1, <2>2, <2>3, <2>4 DEF Con
<1>3. rs \in Rs /\ ~rs.opened /\ ~rs.blocked
  <2>1. rs = [opened |-> FALSE, blocked |-> FALSE, pid |-> NOBODY, token |-> NOTOKEN,
              nbytes |-> 0]
    BY DEF Init
  <2>2. ~rs.opened /\ ~rs.blocked
    BY <2>1, Zenon
  <2>. QED BY <2>1, <2>2 DEF Rs
<1>4. last \in Last /\ last.got = last.due /\ last.to = last.reader
  BY <1>1 DEF Init, Last
<1>5. /\ copies = {} /\ has = {} /\ freed = {} /\ due = <<>> /\ ub = FALSE /\ upset = {}
      /\ st = [p \in Proc |-> "run"] /\ reads = 0
  BY DEF Init
<1>6. Now \in State
  BY <1>1, <1>2, <1>3, <1>4, <1>5, Zenon DEF Now, State
<1>7. StateOK(Now)
  BY <1>3, <1>5, <1>6, NowFields DEF StateOK
<1>8. Opened(Now, has)
  BY <1>2, <1>3, <1>5, NowFields, Zenon DEF Opened
<1>9. OneRead(Now, has, reads)
  BY <1>3, <1>5, NowFields DEF OneRead, Fresh
<1>10. Due(Now)
  <2>1. Bytes(Now, con.start, 0) = <<>>
    BY <1>2, NowFields, NoBytes
  <2>2. con.size = 0 /\ con.start = 0 /\ con.end = 0
    BY DEF Init
  <2>3. 0 \in 0 .. MAX_IO_BUF /\ 0 = (0 + 0) % MAX_IO_BUF
    BY PlaceNat
  <2>4. Held(Now)
    BY <1>4, <1>5, <2>1, <2>2, <2>3, NowFields DEF Held
  <2>. QED BY <1>3, <1>5, <2>4, NowFields DEF Due
<1>. QED BY <1>5, <1>7, <1>8, <1>9, <1>10 DEF Holds

\* Opening the console.
LEMMA OpenStep ==
  ASSUME IInv, NEW p \in Proc, _con_eachopen(p)
  PROVE  IInv'
<1> DEFINE con2 == [Now.con EXCEPT !.handler = TRUE]
           rs2 == [Now.rs EXCEPT !.opened = TRUE, !.pid = p]
           u == [Now EXCEPT !.con = con2, !.rs = rs2]
<1>1. /\ Holds(Now, has, reads, upset) /\ Now.st[p] = "run" /\ ~Now.rs.opened
  BY NowFields, Zenon DEF IInv, _con_eachopen
<1>2. Now \in State
  BY <1>1 DEF Holds, StateOK
<1>3. /\ con' = con2 /\ rs' = rs2 /\ copies' = copies /\ st' = st /\ freed' = freed
      /\ due' = due /\ last' = last /\ ub' = ub
      /\ has' = has \cup {p} /\ reads' = reads /\ upset' = upset
  BY NowFields, Zenon DEF _con_eachopen
<1>4. u = [Now EXCEPT !.con = [Now.con EXCEPT !.handler = TRUE],
                      !.rs = [Now.rs EXCEPT !.opened = TRUE, !.pid = p]]
  OBVIOUS
<1> HIDE DEF u
<1>5. Holds(u, has \cup {p}, reads, upset)
  BY <1>1, <1>4, OpenHolds, Zenon
<1> HIDE DEF con2, rs2
<1>6. Now' = u
  <2>1. /\ u.con = con2 /\ u.rs = rs2 /\ u.copies = copies /\ u.st = st /\ u.freed = freed
        /\ u.due = due /\ u.last = last /\ u.ub = ub
    BY <1>2, NowFields DEF State, u
  <2>2. u \in State
    BY <1>5 DEF Holds, StateOK
  <2>3. Become(u)
    BY <1>3, <2>1, Zenon DEF Become
  <2>. QED BY <2>2, <2>3, BecomeNow, Zenon
<1>. QED BY <1>3, <1>5, <1>6 DEF IInv

\* Closing the console, by the reader or when it is destroyed.
LEMMA ClosedStep ==
  ASSUME Holds(Now, has, reads, upset), NEW p \in has, Closed, has' = has \ {p},
         st' = st \/ st' = [st EXCEPT ![p] = "dead"],
         UNCHANGED <<copies, freed, last, ub, reads>>,
         upset \cup Unread \subseteq upset', upset' \subseteq Upset,
         upset' \subseteq {"unread"} => ~rs.blocked /\ copies = {}
  PROVE  IInv'
<1> DEFINE con2 == [Now.con EXCEPT !.handler = FALSE, !.size = 0]
           rs2 == [Now.rs EXCEPT !.pid = NOBODY, !.opened = FALSE]
           s == st'
           y == upset'
           u == [Now EXCEPT !.con = con2, !.rs = rs2, !.due = <<>>, !.st = s]
<1>1. Now \in State
  BY DEF Holds, StateOK
<1>2. /\ con' = con2 /\ rs' = rs2 /\ copies' = copies /\ st' = s /\ freed' = freed
      /\ due' = <<>> /\ last' = last /\ ub' = ub /\ reads' = reads /\ upset' = y
  BY NowFields, Zenon DEF Closed
<1>3. u = [Now EXCEPT !.con = [Now.con EXCEPT !.handler = FALSE, !.size = 0],
                      !.rs = [Now.rs EXCEPT !.pid = NOBODY, !.opened = FALSE],
                      !.due = <<>>, !.st = s]
  OBVIOUS
<1>4. s = Now.st \/ s = [Now.st EXCEPT ![p] = "dead"]
  BY NowFields, Zenon
<1>5. /\ upset \subseteq y /\ y \subseteq Upset
      /\ y = {} => Now.con.size = 0
      /\ y \subseteq {"unread"} => ~Now.rs.blocked /\ Now.copies = {}
  BY NowFields DEF Unread
<1> HIDE DEF u, s, y
<1>6. Holds(u, has \ {p}, reads, y)
  BY <1>3, <1>4, <1>5, CloseHolds, Zenon
<1> HIDE DEF con2, rs2
<1>7. Now' = u
  <2>1. /\ u.con = con2 /\ u.rs = rs2 /\ u.copies = copies /\ u.st = s /\ u.freed = freed
        /\ u.due = <<>> /\ u.last = last /\ u.ub = ub
    BY <1>1, NowFields DEF State, u
  <2>2. u \in State
    BY <1>6 DEF Holds, StateOK
  <2>3. Become(u)
    BY <1>2, <2>1, Zenon DEF Become
  <2>. QED BY <2>2, <2>3, BecomeNow, Zenon
<1>. QED BY <1>2, <1>6, <1>7 DEF IInv

\* A reader that runs closes the console: no read is under way.
LEMMA CloseStep ==
  ASSUME IInv, NEW p \in Proc, _con_eachclose(p)
  PROVE  IInv'
<1>1. Holds(Now, has, reads, upset) /\ st[p] = "run" /\ p \in has /\ upset \subseteq Upset
  BY DEF IInv, _con_eachclose, Holds
<1>2. upset' = upset \cup Unread /\ Unread \subseteq {"unread"} /\ "unread" \in Upset
  BY DEF _con_eachclose, Unread, Upset
<1>3. ASSUME upset' \subseteq {"unread"} PROVE ~rs.blocked /\ copies = {}
  <2>1. OneRead(Now, has, reads) /\ Now \in State
    BY <1>1, <1>2, <1>3 DEF Holds, StateOK
  <2>2. rs.blocked \/ copies # {} => has = {rs.pid} /\ st[rs.pid] = "read"
    BY <2>1, OneReadCases, NowFields, Zenon
  <2>. QED BY <1>1, <2>2
<1>4. /\ Closed /\ has' = has \ {p} /\ st' = st /\ UNCHANGED <<copies, freed, last, ub, reads>>
  BY DEF _con_eachclose
<1>5. upset \cup Unread \subseteq upset' /\ upset' \subseteq Upset
  BY <1>1, <1>2, Zenon
<1>. QED BY <1>1, <1>3, <1>4, <1>5, ClosedStep, Zenon

\* proc_destroy.
LEMMA KillStep ==
  ASSUME IInv, NEW p \in Proc, Kill(p)
  PROVE  IInv'
<1>1. Holds(Now, has, reads, upset) /\ upset \subseteq Upset /\ Now \in State
  BY DEF IInv, Holds, StateOK
<1>2. /\ st' = [st EXCEPT ![p] = "dead"] /\ has' = has \ {p}
      /\ UNCHANGED <<copies, freed, last, ub, reads>>
  BY DEF Kill
<1>3. CASE p \in has
  <2>1. Closed /\ upset' = upset \cup Unread \cup Orphan
    BY <1>3 DEF Kill
  <2>2. Unread \subseteq Upset /\ Orphan \subseteq Upset
    BY DEF Unread, Orphan, Upset
  <2>3. upset' \subseteq {"unread"} => ~rs.blocked /\ copies = {}
    BY <2>1 DEF Orphan
  <2>4. upset \cup Unread \subseteq upset' /\ upset' \subseteq Upset
    BY <1>1, <2>1, <2>2
  <2>. QED BY <1>1, <1>2, <1>3, <2>1, <2>3, <2>4, ClosedStep, Zenon
<1>4. CASE p \notin has
  <2> DEFINE s == [Now.st EXCEPT ![p] = "dead"]
             u == [Now EXCEPT !.st = s]
  <2>1. /\ con' = con /\ rs' = rs /\ copies' = copies /\ st' = s /\ freed' = freed
        /\ due' = due /\ last' = last /\ ub' = ub /\ reads' = reads /\ upset' = upset
    BY <1>4, NowFields, Zenon DEF Kill
  <2>2. has' = has
    BY <1>2, <1>4
  <2>3. u = [Now EXCEPT !.st = [Now.st EXCEPT ![p] = "dead"]]
    OBVIOUS
  <2> HIDE DEF u
  <2>4. Holds(u, has, reads, upset)
    BY <1>1, <1>4, <2>3, KillHolds, Zenon
  <2> HIDE DEF s
  <2>5. Now' = u
    <3>1. /\ u.con = con /\ u.rs = rs /\ u.copies = copies /\ u.st = s /\ u.freed = freed
          /\ u.due = due /\ u.last = last /\ u.ub = ub
      BY <1>1, NowFields DEF State, u
    <3>2. u \in State
      BY <2>4 DEF Holds, StateOK
    <3>3. Become(u)
      BY <2>1, <3>1, Zenon DEF Become
    <3>. QED BY <3>2, <3>3, BecomeNow, Zenon
  <2>. QED BY <2>1, <2>2, <2>4, <2>5 DEF IInv
<1>. QED BY <1>3, <1>4

\* serv_sys_read on the console.
LEMMA ReadStep ==
  ASSUME IInv, NEW p \in Proc, NEW nbytes \in Sizes, NEW how \in Copyouts, NEW how2 \in Copyouts,
         serv_sys_read(p, nbytes, how, how2)
  PROVE  IInv'
<1> DEFINE d == [Now EXCEPT !.st = [Now.st EXCEPT ![p] = "read"]]
           u == _con_read(d, [pid |-> p, n |-> reads + 1], p, nbytes, how, how2)
<1>1. Holds(Now, has, reads, upset) /\ p \in has /\ Now.st[p] = "run" /\ reads < MAXREADS
  BY NowFields, Zenon DEF IInv, serv_sys_read
<1>2. /\ nbytes \in Nat /\ how \in {"now", "later", "fails"} /\ how2 \in {"now", "later", "fails"}
  BY ConsoleAssumption, HowFacts
<1>3. d = [Now EXCEPT !.st = [Now.st EXCEPT ![p] = "read"]]
  OBVIOUS
<1>4. Become(u) /\ reads' = reads + 1 /\ has' = has /\ upset' = upset
  BY DEF serv_sys_read
<1> HIDE DEF d
<1>5. u = _con_read(d, [pid |-> p, n |-> reads + 1], p, nbytes, how, how2)
  OBVIOUS
<1> HIDE DEF u
<1>6. Holds(u, has, reads + 1, upset)
  BY <1>1, <1>2, <1>3, <1>5, ReadHolds, ZenonT(30)
<1>7. u \in State
  BY <1>6 DEF Holds, StateOK
<1>8. Now' = u
  BY <1>4, <1>7, BecomeNow, Zenon
<1>. QED BY <1>4, <1>6, <1>8 DEF IInv

\* The serial port delivers a character.
LEMMA HandlerStep ==
  ASSUME IInv, NEW ch \in Char \cup {NL}, NEW how \in Copyouts, NEW how2 \in Copyouts,
         _read_handler(ch, how, how2)
  PROVE  IInv'
<1> DEFINE b == Buffered(Now, ch)
           u == Repeated(Now, b, ch, how, how2)
           y == Overtaken(Now, ch, upset)
<1>1. Holds(Now, has, reads, upset) /\ Now.con.handler
  BY NowFields, Zenon DEF IInv, _read_handler
<1>2. /\ ch \in Byte /\ how \in {"now", "later", "fails"} /\ how2 \in {"now", "later", "fails"}
  BY HowFacts DEF Byte
<1>3. Become(u) /\ reads' = reads /\ has' = has /\ upset' = y
  BY NowFields, Zenon DEF _read_handler, Repeated, Overtaken
<1>4. b = Buffered(Now, ch)
  OBVIOUS
<1> HIDE DEF b
<1>5. u = Repeated(Now, b, ch, how, how2)
  OBVIOUS
<1>6. y = Overtaken(Now, ch, upset)
  OBVIOUS
<1> HIDE DEF u, y
<1>7. Holds(u, has, reads, y)
  BY <1>1, <1>2, <1>4, <1>5, <1>6, HandlerHolds, Zenon
<1>8. u \in State
  BY <1>7 DEF Holds, StateOK
<1>9. Now' = u
  BY <1>3, <1>8, BecomeNow, Zenon
<1>. QED BY <1>3, <1>7, <1>9 DEF IInv

\* A copyout that waited is over.
LEMMA CopyStep ==
  ASSUME IInv, NEW k \in copies, NEW good \in BOOLEAN, NEW how \in Copyouts,
         CopyEnds(k, good, how)
  PROVE  IInv'
<1> DEFINE d == [Now EXCEPT !.copies = Now.copies \ {k}]
           u == IF good /\ k.half = 1 THEN _con_read_part2(d, Copied(d, k), how)
                ELSE _con_read_end(d, Copied(d, k), good)
<1>1. Holds(Now, has, reads, upset) /\ k \in Now.copies
  BY NowFields DEF IInv
<1>2. how \in {"now", "later", "fails"}
  BY HowFacts
<1>3. Become(u) /\ reads' = reads /\ has' = has /\ upset' = upset
  BY DEF CopyEnds
<1>4. d = [Now EXCEPT !.copies = Now.copies \ {k}]
  OBVIOUS
<1> HIDE DEF d
<1>5. u = IF good /\ k.half = 1 THEN _con_read_part2(d, Copied(d, k), how)
          ELSE _con_read_end(d, Copied(d, k), good)
  OBVIOUS
<1> HIDE DEF u
<1>6. Holds(u, has, reads, upset)
  BY <1>1, <1>2, <1>4, <1>5, CopyHolds
<1>7. u \in State
  BY <1>6 DEF Holds, StateOK
<1>8. Now' = u
  BY <1>3, <1>7, BecomeNow, Zenon
<1>. QED BY <1>3, <1>6, <1>8 DEF IInv

-----------------------------------------------------------------------------
(* The theorems.                                                           *)

\* Every step of console.c keeps the invariant.
LEMMA StepHolds == IInv /\ [Next]_vars => IInv'
<1> SUFFICES ASSUME IInv, [Next]_vars PROVE IInv'
  OBVIOUS
<1>1. ASSUME NEW p \in Proc, _con_eachopen(p) PROVE IInv'
  BY <1>1, OpenStep
<1>2. ASSUME NEW p \in Proc, _con_eachclose(p) PROVE IInv'
  BY <1>2, CloseStep
<1>3. ASSUME NEW p \in Proc, Kill(p) PROVE IInv'
  BY <1>3, KillStep
<1>4. ASSUME NEW p \in Proc, NEW n \in Sizes, NEW how \in Copyouts, NEW how2 \in Copyouts,
             serv_sys_read(p, n, how, how2)
      PROVE  IInv'
  BY <1>4, ReadStep
<1>5. ASSUME NEW ch \in Char \cup {NL}, NEW how \in Copyouts, NEW how2 \in Copyouts,
             _read_handler(ch, how, how2)
      PROVE  IInv'
  BY <1>5, HandlerStep
<1>6. ASSUME NEW k \in copies, NEW good \in BOOLEAN, NEW how \in Copyouts,
             CopyEnds(k, good, how)
      PROVE  IInv'
  BY <1>6, CopyStep
<1>7. CASE UNCHANGED vars
  BY <1>7 DEF vars, IInv, Now
<1>. QED BY <1>1, <1>2, <1>3, <1>4, <1>5, <1>6, <1>7 DEF Next

\* The invariant holds always.
LEMMA AlwaysIInv == Spec => []IInv
<1>. QED BY InitHolds, StepHolds, PTL DEF Spec

\* The indices of the circular buffer stay in it and the read state keeps its types, for
\* every size of the buffer (console.c).
THEOREM TypeCorrect == Spec => []TypeOK
<1>1. IInv => TypeOK
  <2> SUFFICES ASSUME IInv PROVE TypeOK
    OBVIOUS
  <2>1. StateOK(Now) /\ Opened(Now, has) /\ upset \subseteq Upset
    BY DEF IInv, Holds
  <2>2. con \in Con /\ rs \in Rs /\ st \in [Proc -> {"run", "read", "dead"}]
        /\ freed \subseteq Token
    BY <2>1, StateFields, NowFields DEF StateOK
  <2>3. has \subseteq Proc
    BY <2>1 DEF Opened
  <2>4. /\ con.buf \in [Place -> Char \cup {NL}] /\ con.size \in Int
        /\ con.start \in Place /\ con.end \in Place /\ con.handler \in BOOLEAN
    BY <2>2 DEF Con, Byte
  <2>5. /\ rs.opened \in BOOLEAN /\ rs.blocked \in BOOLEAN /\ rs.pid \in Proc \cup {NOBODY}
        /\ rs.token \in Token \cup {NOTOKEN} /\ rs.nbytes \in Nat
    BY <2>2 DEF Rs
  <2>. QED BY <2>1, <2>2, <2>3, <2>4, <2>5 DEF TypeOK
<1>. QED BY <1>1, AlwaysIInv, PTL

\* A read returns what was typed, in order, to the process that called it, through copies
\* that wait or fail and around the end of the buffer (_con_read, _con_read_part2,
\* _con_read_end, _read_handler), until something upsets the read state: for every size of
\* the buffer, of the reads, and every number of processes.
THEOREM ReadsStayInOrder == Spec => []ReadsReturnInput
<1>1. IInv => ReadsReturnInput
  <2> SUFFICES ASSUME IInv, upset = {}
               PROVE  /\ last.got = last.due /\ last.to = last.reader
                      /\ con.handler => Bytes(Now, con.start, con.size) = due
    BY DEF ReadsReturnInput
  <2>1. Held(Now)
    BY DEF IInv, Holds, Due
  <2>. QED BY <2>1, NowFields DEF Held
<1>. QED BY <1>1, AlwaysIInv, PTL

\* A reader waits only while no whole line has been typed, and the handler of the serial port
\* knows of it (_con_read_state), until something upsets the read state.
THEOREM LinesWakeReaders == Spec => []LineWakesReader
<1>1. IInv => LineWakesReader
  <2> SUFFICES ASSUME IInv, upset = {}, NEW p \in has, st[p] = "read", copies = {}
               PROVE  /\ rs.blocked /\ rs.token.pid = p
                      /\ \A i \in 1 .. Len(due) : due[i] # NL
    BY DEF LineWakesReader
  <2>1. Due(Now) /\ OneRead(Now, has, reads) /\ Now \in State /\ p \in Proc
    BY DEF IInv, Holds, StateOK, Opened
  <2>2. rs.blocked
    BY <2>1, OneReadCases, NowFields, Zenon
  <2>3. Serving(Now, has, reads, rs.token)
    BY <2>1, <2>2, OneReadCases, NowFields, Zenon
  <2>4. has = {rs.pid} /\ rs.token.pid = rs.pid
    BY <2>3, NowFields DEF Serving
  <2>5. NoLine(Now)
    BY <2>1, <2>2, NowFields DEF Due
  <2>. QED BY <2>2, <2>4, <2>5, NowFields DEF NoLine
<1>. QED BY <1>1, AlwaysIInv, PTL

\* Each read is answered, and its continuation freed, once (serv_sys_read_end), unless a
\* newline comes in the middle of a copy or a reader is destroyed in the middle of a read.
THEOREM ReadsAnsweredOnce == Spec => []ReadAnsweredOnce
<1>1. IInv => ReadAnsweredOnce
  <2> SUFFICES ASSUME IInv, upset \subseteq {"unread"} PROVE ~ub
    BY DEF ReadAnsweredOnce
  <2>1. OneRead(Now, has, reads)
    BY DEF IInv, Holds
  <2>. QED BY <2>1, NowFields, Zenon DEF OneRead, Fresh
<1>. QED BY <1>1, AlwaysIInv, PTL
=============================================================================
