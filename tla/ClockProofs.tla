---------------------------- MODULE ClockProofs -----------------------------
(***************************************************************************)
(* Proofs about the timer driver, for every size of the timer array, every *)
(* interval of EPIT1 but one unit of time, every set of processes and of   *)
(* delays, and whether or not time passes while SOS handles a call.        *)
(*                                                                         *)
(* First what the parts of dev/clock.c do to a driver: time that passes,   *)
(* _update_var_timer, a timer put into the array, removed from it, or      *)
(* dropped from its front by _check_timeout.  Then what each of them does  *)
(* to the invariant, and the theorems.                                     *)
(***************************************************************************)
EXTENDS Clock, TLAPS

Timer  == [id : Index, left : Int, due : Int, who : Caller \cup {NOBODY}, registered : BOOLEAN]
Var    == [on : BOOLEAN, load : 0 .. (WORD - 1), left : 0 .. (WORD - 1)]
Driver == [timers : [Index -> Timer], n : 0 .. N, main : 1 .. INTERVAL, sr1 : BOOLEAN,
           var : Var, sr2 : BOOLEAN, lost : BOOLEAN]

\* The constants, without Cardinality.
LEMMA Constants ==
  /\ N \in Nat \ {0} /\ INTERVAL \in Nat \ {0, 1} /\ WORD \in Nat \ {0} /\ INTERVAL < WORD
  /\ SLOW \in BOOLEAN /\ Delay \subseteq Nat /\ 1 \in Index
  /\ NFS \notin Proc /\ CLIENT \notin Proc /\ NOBODY \notin Proc /\ NOBODY \notin Caller
<1>2. /\ N \in Nat \ {0} /\ INTERVAL \in Nat \ {0, 1} /\ WORD \in Nat \ {0} /\ INTERVAL < WORD
      /\ SLOW \in BOOLEAN /\ Delay \subseteq Nat /\ 1 \in Index
  BY ClockAssumption DEF Index
<1>3. {NFS, CLIENT, NOBODY} \cap Proc = {}
  BY ClockAssumption
<1>4. NFS # NOBODY /\ CLIENT # NOBODY
  BY DEF NFS, CLIENT, NOBODY
<1>. QED BY <1>2, <1>3, <1>4 DEF Caller

\* The fields of a driver.
LEMMA DriverFields ==
  ASSUME NEW c \in Driver
  PROVE  /\ c.timers \in [Index -> Timer] /\ c.n \in 0 .. N /\ c.main \in 1 .. INTERVAL
         /\ c.sr1 \in BOOLEAN /\ c.sr2 \in BOOLEAN /\ c.lost \in BOOLEAN /\ c.var \in Var
  BY Zenon DEF Driver

\* The fields of a timer in use.
LEMMA TimerFields ==
  ASSUME NEW c \in Driver, NEW i \in 1 .. c.n
  PROVE  /\ i \in Index /\ c.timers[i] \in Timer /\ c.timers[i].id \in Index
         /\ c.timers[i].left \in Int /\ c.timers[i].due \in Int
         /\ c.timers[i].who \in Caller \cup {NOBODY} /\ c.timers[i].registered \in BOOLEAN
<1>1. i \in Index
  BY DriverFields, Constants DEF Index
<1>2. c.timers[i] \in Timer
  BY <1>1, DriverFields, Zenon
<1>. QED BY <1>1, <1>2, Zenon DEF Timer

-----------------------------------------------------------------------------
(* Time passes.                                                            *)

\* The timers of u are those of c, d units of time later.
Later(c, u, d) ==
    /\ u \in Driver /\ u.n = c.n /\ u.lost = c.lost
    /\ \A i \in 1 .. c.n : /\ u.timers[i].who = c.timers[i].who
                           /\ u.timers[i].registered = c.timers[i].registered
                           /\ u.timers[i].left = c.timers[i].left - d
                           /\ u.timers[i].due = c.timers[i].due - d

\* What a unit of time does to the two hardware timers.
Ticked(c, u) ==
    /\ u.main = IF c.main = 1 THEN INTERVAL ELSE c.main - 1
    /\ u.sr1 = (c.sr1 \/ c.main = 1)
    /\ u.sr2 = (c.sr2 \/ (c.var.on /\ c.var.left <= 1))
    /\ u.var.on = c.var.on
    /\ c.var.on /\ ~(c.var.left <= 1) => u.var.left = c.var.left - 1

\* A timer that comes nearer.
LEMMA AgedFacts ==
  ASSUME NEW e \in Timer
  PROVE  /\ Aged(e) \in Timer /\ Aged(e).who = e.who /\ Aged(e).registered = e.registered
         /\ Aged(e).left = e.left - 1 /\ Aged(e).due = e.due - 1
<1>1. e.left \in Int /\ e.due \in Int
  BY Zenon DEF Timer
<1>2. e.left - 1 \in Int /\ e.due - 1 \in Int
  BY <1>1
<1>. QED BY <1>2, Zenon DEF Timer, Aged

\* EPIT1 and EPIT2 count down, and every timer comes nearer.
LEMMA PassEffect ==
  ASSUME NEW c \in Driver, NEW u, u = Pass(c)
  PROVE  Later(c, u, 1) /\ Ticked(c, u)
<1> DEFINE expires == c.var.on /\ c.var.left <= 1
           t2 == [i \in Index |-> IF i <= c.n THEN Aged(c.timers[i]) ELSE c.timers[i]]
           m2 == IF c.main = 1 THEN INTERVAL ELSE c.main - 1
           r1 == c.sr1 \/ c.main = 1
           l2 == IF expires THEN c.var.load ELSE IF c.var.on THEN c.var.left - 1 ELSE 0
           v2 == [c.var EXCEPT !.left = l2]
           r2 == c.sr2 \/ expires
<1>1. /\ c.timers \in [Index -> Timer] /\ c.n \in 0 .. N /\ c.main \in 1 .. INTERVAL
      /\ c.sr1 \in BOOLEAN /\ c.sr2 \in BOOLEAN /\ c.lost \in BOOLEAN /\ c.var \in Var
  BY DriverFields
<1>2. /\ c.var.on \in BOOLEAN /\ c.var.load \in 0 .. (WORD - 1)
      /\ c.var.left \in 0 .. (WORD - 1)
  BY <1>1, Zenon DEF Var
<1>3. l2 \in 0 .. (WORD - 1)
  BY <1>2, Constants
<1> HIDE DEF l2
<1>4. v2 \in Var /\ v2.on = c.var.on /\ v2.left = l2
  BY <1>1, <1>3, Zenon DEF Var
<1>5. m2 \in 1 .. INTERVAL /\ r1 \in BOOLEAN /\ r2 \in BOOLEAN
  BY <1>1, <1>2, Constants
<1>6. \A i \in Index : /\ Aged(c.timers[i]) \in Timer
                       /\ Aged(c.timers[i]).who = c.timers[i].who
                       /\ Aged(c.timers[i]).registered = c.timers[i].registered
                       /\ Aged(c.timers[i]).left = c.timers[i].left - 1
                       /\ Aged(c.timers[i]).due = c.timers[i].due - 1
  BY <1>1, AgedFacts, Zenon
<1>7. t2 \in [Index -> Timer] /\ \A i \in 1 .. c.n : t2[i] = Aged(c.timers[i]) /\ i \in Index
  BY <1>1, <1>6, Constants DEF Index
<1>8. u = [c EXCEPT !.timers = t2, !.main = m2, !.sr1 = r1, !.var = v2, !.sr2 = r2]
  BY DEF Pass, l2
<1> HIDE DEF t2, m2, r1, v2, r2
<1>9. /\ u \in Driver /\ u.timers = t2 /\ u.n = c.n /\ u.main = m2 /\ u.sr1 = r1 /\ u.var = v2
      /\ u.sr2 = r2 /\ u.lost = c.lost
  BY <1>1, <1>4, <1>5, <1>7, <1>8, Zenon DEF Driver
<1>10. Later(c, u, 1)
  BY <1>6, <1>7, <1>9, Zenon DEF Later
<1>11. c.var.on /\ ~(c.var.left <= 1) => l2 = c.var.left - 1
  BY DEF l2
<1>. QED BY <1>4, <1>9, <1>10, <1>11, Zenon DEF Ticked, m2, r1, r2

\* When time may pass.
LEMMA LapseFacts ==
  ASSUME NEW d \in Lapse
  PROVE  d \in {"no", "after", "within"} /\ (~SLOW => d = "no")
  BY Constants DEF Lapse

\* Time passes twice.
LEMMA LaterTwice ==
  ASSUME NEW c \in Driver, NEW u, NEW w, NEW d \in Int, NEW e \in Int, Later(c, u, d),
         Later(u, w, e)
  PROVE  Later(c, w, d + e)
<1>1. u \in Driver /\ w \in Driver
  BY DEF Later
<1>2. ASSUME NEW i \in 1 .. c.n
      PROVE  /\ w.timers[i].who = c.timers[i].who
             /\ w.timers[i].registered = c.timers[i].registered
             /\ w.timers[i].left = c.timers[i].left - (d + e)
             /\ w.timers[i].due = c.timers[i].due - (d + e)
  <2>1. c.timers[i].left \in Int /\ c.timers[i].due \in Int
    BY TimerFields, Zenon
  <2>2. /\ u.timers[i].left = c.timers[i].left - d /\ u.timers[i].due = c.timers[i].due - d
        /\ w.timers[i].left = u.timers[i].left - e /\ w.timers[i].due = u.timers[i].due - e
        /\ w.timers[i].who = c.timers[i].who
        /\ w.timers[i].registered = c.timers[i].registered
    BY Zenon DEF Later
  <2>. QED BY <2>1, <2>2
<1>. QED BY <1>1, <1>2, Zenon DEF Later

\* No time passes.
LEMMA LaterNone ==
  ASSUME NEW c \in Driver, NEW u \in Driver, u.timers = c.timers, u.n = c.n, u.lost = c.lost
  PROVE  Later(c, u, 0)
<1>1. \A i \in 1 .. c.n : c.timers[i].left \in Int /\ c.timers[i].due \in Int
  BY TimerFields, Zenon
<1>2. \A i \in 1 .. c.n : /\ c.timers[i].left = c.timers[i].left - 0
                          /\ c.timers[i].due = c.timers[i].due - 0
  BY <1>1
<1>3. \A i \in 1 .. c.n : u.timers[i] = c.timers[i]
  OBVIOUS
<1>4. \A i \in 1 .. c.n : /\ u.timers[i].who = c.timers[i].who
                          /\ u.timers[i].registered = c.timers[i].registered
                          /\ u.timers[i].left = c.timers[i].left - 0
                          /\ u.timers[i].due = c.timers[i].due - 0
  BY <1>2, <1>3, Zenon
<1>. QED BY <1>4, Zenon DEF Later

\* A time_stamp() is right and takes no time, or it is torn at the end of an interval.
LEMMA StampEffect ==
  ASSUME NEW c \in Driver, NEW d \in Lapse
  PROVE  \/ ~Torn(c, d) /\ AfterStamp(c, d) = c /\ Ahead(c, d) = 0
         \/ /\ Torn(c, d) /\ SLOW /\ d = "within" /\ c.main = 1 /\ AfterStamp(c, d) = Pass(c)
            /\ Ahead(c, d) = IF c.sr1 THEN -1 ELSE INTERVAL - 1
<1>1. SLOW \/ d = "no"
  BY LapseFacts, Constants
<1>. QED BY <1>1 DEF Torn, AfterStamp, Ahead

\* What _update_var_timer makes of EPIT2 and its flag when it takes no time.
Programmed(c, u) ==
    LET left == c.timers[1].left
    IN  c.timers[1].registered =>
          /\ left \in 0 .. INTERVAL =>
                u.var.on /\ u.var.left = left /\ u.sr2 = (c.sr2 \/ left = 0)
          /\ left > INTERVAL => ~u.var.on /\ u.sr2 = c.sr2

\* The remainder of a number in the range of the register is the number.
LEMMA Remainder ==
  ASSUME NEW x \in Int
  PROVE  x % WORD \in 0 .. (WORD - 1) /\ (x \in 0 .. INTERVAL => x % WORD = x)
<1>1. x % WORD \in 0 .. (WORD - 1)
  BY Constants
<1>2. ASSUME x \in 0 .. INTERVAL PROVE x % WORD = x
  <2>1. x < WORD /\ x >= 0 /\ WORD \in Nat \ {0}
    BY <1>2, Constants
  <2>. QED BY <2>1
<1>. QED BY <1>1, <1>2

\* What _update_var_timer does after its time_stamp(), which is ahead of the time.
Program(c, ahead) ==
    LET left == c.timers[1].left - ahead
        load == left % WORD
    IN  IF c.timers[1].registered /\ left <= INTERVAL
        THEN [c EXCEPT !.var = [on |-> TRUE, load |-> load, left |-> load],
                       !.sr2 = @ \/ load = 0]
        ELSE [c EXCEPT !.var = OFF]

\* EPIT2 programmed for what is left of the first timer.
LEMMA ProgramEffect ==
  ASSUME NEW c \in Driver, NEW ahead \in Int, NEW u, u = Program(c, ahead)
  PROVE  /\ Later(c, u, 0) /\ u.timers = c.timers /\ u.main = c.main /\ u.sr1 = c.sr1
         /\ c.sr2 => u.sr2
         /\ ahead = 0 => Programmed(c, u)
<1> DEFINE left == c.timers[1].left - ahead
           load == left % WORD
           on == c.timers[1].registered /\ left <= INTERVAL
           v2 == IF on THEN [on |-> TRUE, load |-> load, left |-> load] ELSE OFF
           r2 == IF on THEN c.sr2 \/ load = 0 ELSE c.sr2
<1>1. /\ c.timers \in [Index -> Timer] /\ c.n \in 0 .. N /\ c.main \in 1 .. INTERVAL
      /\ c.sr1 \in BOOLEAN /\ c.sr2 \in BOOLEAN /\ c.lost \in BOOLEAN /\ c.var \in Var
  BY DriverFields
<1>2. c.timers[1].left \in Int /\ c.timers[1].registered \in BOOLEAN
  BY <1>1, Constants, Zenon DEF Timer
<1>3. left \in Int /\ load \in 0 .. (WORD - 1) /\ (left \in 0 .. INTERVAL => load = left)
  BY <1>2, Remainder
<1>a. u = IF on THEN [c EXCEPT !.var = [on |-> TRUE, load |-> load, left |-> load],
                               !.sr2 = @ \/ load = 0]
          ELSE [c EXCEPT !.var = OFF]
  BY DEF Program
<1> HIDE DEF load
<1>4. v2 \in Var
  BY <1>3, Constants DEF Var, OFF
<1>5. r2 \in BOOLEAN /\ (c.sr2 => r2)
  BY <1>1, <1>2
<1>6. u = [c EXCEPT !.var = v2, !.sr2 = r2]
  BY <1>a, Zenon DEF Driver
<1> HIDE DEF v2, r2
<1>7. /\ u \in Driver /\ u.timers = c.timers /\ u.n = c.n /\ u.main = c.main /\ u.sr1 = c.sr1
      /\ u.var = v2 /\ u.sr2 = r2 /\ u.lost = c.lost
  BY <1>1, <1>4, <1>5, <1>6, Zenon DEF Driver
<1>8. Later(c, u, 0)
  BY <1>7, LaterNone, Zenon
<1>9. ASSUME ahead = 0 PROVE Programmed(c, u)
  <2>1. left = c.timers[1].left
    BY <1>2, <1>9
  <2>. QED BY <1>1, <1>3, <1>7, <2>1, Constants DEF Programmed, v2, r2, OFF
<1>. QED BY <1>5, <1>7, <1>8, <1>9

\* _update_var_timer when no time passes.
LEMMA UpdateVarEffect ==
  ASSUME NEW c \in Driver, NEW u, u = UpdateVar(c, "no")
  PROVE  /\ Later(c, u, 0) /\ u.timers = c.timers /\ u.main = c.main /\ u.sr1 = c.sr1
         /\ c.sr2 => u.sr2
         /\ Programmed(c, u)
<1>1. AfterStamp(c, "no") = c /\ Ahead(c, "no") = 0
  BY DEF AfterStamp, Ahead, Torn
<1>2. u = Program(c, 0)
  BY <1>1, Zenon DEF UpdateVar, Elapse, Program
<1>. QED BY <1>2, ProgramEffect

\* _update_var_timer whether or not time passes.
LEMMA UpdateVarTime ==
  ASSUME NEW c \in Driver, NEW d \in Lapse, NEW u, u = UpdateVar(c, d)
  PROVE  Later(c, u, 0) \/ Later(c, u, 1)
<1> DEFINE e == AfterStamp(c, d)
           ahead == Ahead(c, d)
           b == Program(e, ahead)
<1>1. u = Elapse(b, d)
  BY DEF UpdateVar, Program
<1>2. /\ ahead \in Int
      /\ \/ d # "within" /\ Later(c, e, 0)
         \/ d # "after" /\ (Later(c, e, 0) \/ Later(c, e, 1))
  <2>1. CASE ~Torn(c, d) /\ e = c /\ ahead = 0
    <3>1. Later(c, e, 0)
      BY <2>1, LaterNone
    <3>. QED BY <2>1, <3>1
  <2>2. CASE d = "within" /\ e = Pass(c) /\ ahead = IF c.sr1 THEN -1 ELSE INTERVAL - 1
    BY <2>2, PassEffect, Constants
  <2>. QED BY <2>1, <2>2, StampEffect
<1>3. e \in Driver
  BY <1>2 DEF Later
<1> HIDE DEF e, ahead
<1>6. Later(e, b, 0)
  BY <1>2, <1>3, ProgramEffect, Zenon
<1> HIDE DEF b
<1>7. b \in Driver
  BY <1>6 DEF Later
<1>8. CASE d = "after"
  <2>1. Later(c, b, 0 + 0)
    BY <1>2, <1>6, <1>8, LaterTwice
  <2>2. Later(b, u, 1)
    BY <1>1, <1>7, <1>8, PassEffect DEF Elapse
  <2>3. Later(c, u, 0 + 1)
    BY <2>1, <2>2, LaterTwice
  <2>. QED BY <2>3
<1>9. CASE d # "after"
  <2>1. u = b
    BY <1>1, <1>9 DEF Elapse
  <2>2. CASE Later(c, e, 0)
    <3>1. Later(c, b, 0 + 0)
      BY <1>6, <2>2, LaterTwice
    <3>. QED BY <2>1, <3>1
  <2>3. CASE Later(c, e, 1)
    <3>1. Later(c, b, 1 + 0)
      BY <1>6, <2>3, LaterTwice
    <3>. QED BY <2>1, <3>1
  <2>. QED BY <1>2, <2>2, <2>3
<1>. QED BY <1>8, <1>9

-----------------------------------------------------------------------------
(* The array of timers.                                                    *)
LOCAL INSTANCE WellFoundedInduction

\* A non-empty set of numbers has a least one: the loops of clock.c stop at it.
LEMMA LeastExists ==
  ASSUME NEW T, T \subseteq Nat, T # {}
  PROVE  \E x \in T : \A y \in T : x <= y
<1> DEFINE R == OpToRel(<, Nat)
<1>1. IsWellFoundedOn(R, Nat)
  BY NatLessThanWellFounded
<1>2. \A x, y \in Nat : y < x => <<y, x>> \in R
  BY DEF OpToRel
<1> HIDE DEF R
<1>3. PICK x \in T : \A y \in T : ~(<<y, x>> \in R)
  BY <1>1, WFMin, Zenon
<1>4. \A y \in T : x \in Nat /\ y \in Nat /\ ~(y < x)
  BY <1>2, <1>3, Zenon
<1>. QED BY <1>4

\* The loop of register_timer stops behind the timers that end before the new one or with it.
LEMMA PlaceFacts ==
  ASSUME NEW c \in Driver, NEW x \in Int
  PROVE  /\ Place(c, x) \in 1 .. (c.n + 1)
         /\ \A j \in Place(c, x) .. c.n : x < c.timers[j].left
         /\ Place(c, x) = 1 \/ c.timers[Place(c, x) - 1].left <= x
<1> DEFINE T == {k \in 1 .. (c.n + 1) : \A j \in k .. c.n : x < c.timers[j].left}
<1>1. c.n \in Nat /\ \A j \in 1 .. c.n : c.timers[j].left \in Int
  BY DriverFields, Constants, TimerFields
<1>2. T \subseteq Nat /\ c.n + 1 \in T
  BY <1>1
<1>3. PICK k \in T : \A y \in T : k <= y
  BY <1>2, LeastExists, Zenon
<1>4. k = 1 \/ c.timers[k - 1].left <= x
  <2> SUFFICES ASSUME k # 1 PROVE c.timers[k - 1].left <= x
    OBVIOUS
  <2>1. k - 1 \in 1 .. c.n /\ k - 1 \notin T
    BY <1>1, <1>3
  <2>2. PICK j \in (k - 1) .. c.n : ~(x < c.timers[j].left)
    BY <1>1, <2>1
  <2>3. j = k - 1
    BY <1>1, <2>1, <2>2
  <2>. QED BY <1>1, <2>1, <2>2, <2>3
<1>5. \E m \in 1 .. (c.n + 1) : /\ \A j \in m .. c.n : x < c.timers[j].left
                                /\ m = 1 \/ c.timers[m - 1].left <= x
  BY <1>4
<1>. QED BY <1>5 DEF Place

\* _check_timeout stops at the first timer that has not ended.
LEMMA EndedFacts ==
  ASSUME NEW c \in Driver, NEW ahead \in Int, \A i \in 1 .. c.n : c.timers[i].registered
  PROVE  /\ Ended(c, ahead) \in 0 .. c.n
         /\ \A i \in 1 .. Ended(c, ahead) : c.timers[i].left <= ahead
         /\ Ended(c, ahead) = c.n \/ c.timers[Ended(c, ahead) + 1].left > ahead
<1> DEFINE ended(i) == c.timers[i].registered /\ c.timers[i].left <= ahead
           T == {k \in 0 .. c.n : k = c.n \/ ~ended(k + 1)}
<1>1. c.n \in Nat /\ \A j \in 1 .. c.n : c.timers[j].left \in Int
  BY DriverFields, Constants, TimerFields
<1>2. T \subseteq Nat /\ c.n \in T
  BY <1>1
<1>3. PICK k \in T : \A y \in T : k <= y
  BY <1>2, LeastExists, Zenon
<1>4. ASSUME NEW i \in 1 .. k PROVE ended(i)
  <2>1. i - 1 \in 0 .. c.n /\ i - 1 \notin T /\ i - 1 # c.n /\ (i - 1) + 1 = i
    BY <1>1, <1>3
  <2>. QED BY <2>1
<1>5. \E m \in 0 .. c.n : (\A i \in 1 .. m : ended(i)) /\ (m = c.n \/ ~ended(m + 1))
  BY <1>3, <1>4
<1> DEFINE m == Ended(c, ahead)
<1>6. m \in 0 .. c.n /\ (\A i \in 1 .. m : ended(i)) /\ (m = c.n \/ ~ended(m + 1))
  BY <1>5 DEF Ended
<1> HIDE DEF m
<1>7. m = c.n \/ c.timers[m + 1].left > ahead
  BY <1>1, <1>6
<1>. QED BY <1>6, <1>7 DEF m

\* The array of u is that of c with timer e at place k, behind those that end no later.
Inserted(c, u, k, e) ==
    /\ k \in 1 .. (c.n + 1) /\ u.n = c.n + 1
    /\ \A i \in 1 .. (c.n + 1) : u.timers[i] = IF i < k THEN c.timers[i]
                                               ELSE IF i = k THEN e ELSE c.timers[i - 1]
    /\ \A i \in k .. c.n : e.left < c.timers[i].left
    /\ k = 1 \/ c.timers[k - 1].left <= e.left

\* The array of u is that of c without its first k timers.
Dropped(c, u, k) ==
    /\ k \in 0 .. c.n /\ u.n = c.n - k
    /\ \A i \in 1 .. (c.n - k) : u.timers[i] = c.timers[i + k]

\* The array of u is that of c without the timer at place k.
Removed(c, u, k) ==
    /\ k \in 1 .. c.n /\ u.n = c.n - 1
    /\ \A i \in 1 .. (c.n - 1) : u.timers[i] = IF i < k THEN c.timers[i] ELSE c.timers[i + 1]

\* A place that is no longer in use.
LEMMA UnusedFacts ==
  ASSUME NEW e \in Timer
  PROVE  /\ Unused(e) \in Timer /\ [Unused(e) EXCEPT !.registered = FALSE] \in Timer
         /\ [e EXCEPT !.registered = FALSE] \in Timer
<1>1. 0 \in Int
  OBVIOUS
<1>2. Unused(e) \in Timer
  BY <1>1, Zenon DEF Timer, Unused
<1>. QED BY <1>2, Zenon DEF Timer

\* register_timer puts the new timer where its loop stops.
LEMMA InsertEffect ==
  ASSUME NEW c \in Driver, c.n # N, NEW delay \in Nat, NEW ahead \in Int, NEW who \in Caller,
         NEW u, u = Insert(c, delay, ahead, who)
  PROVE  /\ u \in Driver /\ u.lost = c.lost /\ u.main = c.main /\ u.sr1 = c.sr1
         /\ u.sr2 = c.sr2
         /\ \E k \in Index, e \in Timer :
               /\ e.left = delay + ahead /\ e.due = delay /\ e.who = who /\ e.registered
               /\ Inserted(c, u, k, e)
<1> DEFINE x == delay + ahead
           k == Place(c, x)
           e == [id |-> c.timers[c.n + 1].id, left |-> x, due |-> delay, who |-> who,
                 registered |-> TRUE]
           t2 == [i \in Index |-> IF i < k \/ i > c.n + 1 THEN c.timers[i]
                                  ELSE IF i = k THEN e ELSE c.timers[i - 1]]
           n2 == c.n + 1
<1>1. /\ c.timers \in [Index -> Timer] /\ c.n \in 0 .. N /\ c.main \in 1 .. INTERVAL
      /\ c.sr1 \in BOOLEAN /\ c.sr2 \in BOOLEAN /\ c.lost \in BOOLEAN /\ c.var \in Var
  BY DriverFields
<1>2. c.n \in Nat /\ n2 \in Index /\ n2 \in 0 .. N /\ x \in Int
  BY <1>1, Constants DEF Index
<1>3. /\ k \in 1 .. (c.n + 1) /\ \A i \in k .. c.n : x < c.timers[i].left
      /\ k = 1 \/ c.timers[k - 1].left <= x
  BY <1>2, PlaceFacts
<1>4. k \in Index
  BY <1>2, <1>3, Constants DEF Index
<1>5. u = [c EXCEPT !.timers = t2, !.n = n2]
  BY DEF Insert
<1> HIDE DEF k
<1>6. e \in Timer /\ e.left = x /\ e.due = delay /\ e.who = who /\ e.registered
  <2>1. c.timers[c.n + 1].id \in Index
    BY <1>1, <1>2, Zenon DEF Timer
  <2>. QED BY <1>2, <2>1 DEF Timer
<1> HIDE DEF e, x
<1>7. \A i \in Index : ~(i < k \/ i > c.n + 1) /\ i # k => i - 1 \in Index
  BY <1>2, <1>4, Constants DEF Index
<1>8. t2 \in [Index -> Timer]
  BY <1>1, <1>6, <1>7
<1>9. \A i \in 1 .. (c.n + 1) : /\ i \in Index /\ ~(i > c.n + 1)
                                /\ t2[i] = IF i < k THEN c.timers[i]
                                           ELSE IF i = k THEN e ELSE c.timers[i - 1]
  BY <1>2, Constants DEF Index
<1> HIDE DEF t2
<1>10. /\ u \in Driver /\ u.timers = t2 /\ u.n = n2 /\ u.main = c.main /\ u.sr1 = c.sr1
       /\ u.var = c.var /\ u.sr2 = c.sr2 /\ u.lost = c.lost
  BY <1>1, <1>2, <1>5, <1>8, Zenon DEF Driver
<1>11. Inserted(c, u, k, e)
  BY <1>3, <1>6, <1>9, <1>10 DEF Inserted
<1>. QED BY <1>4, <1>6, <1>10, <1>11, Zenon DEF x

\* remove_timer closes the gap.
LEMMA RemoveEffect ==
  ASSUME NEW c \in Driver, NEW id, NEW u, u = remove_timer(c, id)
  PROVE  \/ u = c
         \/ \E k \in 1 .. c.n, b \in Driver :
               /\ Removed(c, b, k) /\ u = UpdateVar(b, "no")
               /\ b.lost = (c.lost \/ c.timers[k].who # CLIENT)
               /\ b.main = c.main /\ b.sr1 = c.sr1 /\ b.sr2 = c.sr2
<1> DEFINE found == {i \in 1 .. c.n : c.timers[i].id = id /\ c.timers[i].registered}
           k == CHOOSE i \in found : \A j \in found : i <= j
<1>1. CASE found = {}
  BY <1>1 DEF remove_timer
<1>2. CASE found # {}
  <2> DEFINE out == [Unused(c.timers[k]) EXCEPT !.registered = FALSE]
             t2 == [i \in Index |-> IF i < k \/ i > c.n THEN c.timers[i]
                                    ELSE IF i < c.n THEN c.timers[i + 1] ELSE out]
             n2 == c.n - 1
             l2 == c.lost \/ c.timers[k].who # CLIENT
             b == [c EXCEPT !.lost = l2, !.timers = t2, !.n = n2]
  <2>1. /\ c.timers \in [Index -> Timer] /\ c.n \in 0 .. N /\ c.main \in 1 .. INTERVAL
        /\ c.sr1 \in BOOLEAN /\ c.sr2 \in BOOLEAN /\ c.lost \in BOOLEAN /\ c.var \in Var
    BY DriverFields
  <2>2. found \subseteq Nat /\ found \subseteq 1 .. c.n
    BY <2>1
  <2>3. \E i \in found : \A j \in found : i <= j
    BY <1>2, <2>2, LeastExists, Zenon
  <2>4. k \in 1 .. c.n
    BY <2>2, <2>3
  <2>5. u = UpdateVar(b, "no")
    BY <1>2 DEF remove_timer
  <2> HIDE DEF k
  <2>6. k \in Index /\ n2 \in 0 .. N /\ c.n \in Nat
    BY <2>1, <2>4, Constants DEF Index
  <2>7. out \in Timer
    BY <2>1, <2>6, UnusedFacts, Zenon
  <2> HIDE DEF out
  <2>8. \A i \in Index : i < c.n => i + 1 \in Index
    BY <2>1, Constants DEF Index
  <2>9. t2 \in [Index -> Timer]
    BY <2>1, <2>7, <2>8, Zenon
  <2>10. \A i \in 1 .. (c.n - 1) : t2[i] = IF i < k THEN c.timers[i] ELSE c.timers[i + 1]
    BY <2>1, <2>6, Constants DEF Index
  <2>11. l2 \in BOOLEAN
    BY <2>1
  <2> HIDE DEF t2
  <2>12. /\ b \in Driver /\ b.timers = t2 /\ b.n = n2 /\ b.main = c.main /\ b.sr1 = c.sr1
         /\ b.sr2 = c.sr2 /\ b.lost = l2
    BY <2>1, <2>6, <2>9, <2>11, Zenon DEF Driver
  <2>13. Removed(c, b, k)
    BY <2>4, <2>10, <2>12 DEF Removed
  <2>. QED BY <2>4, <2>5, <2>12, <2>13, Zenon
<1>. QED BY <1>1, <1>2

-----------------------------------------------------------------------------
(* The invariant of the array.                                             *)

\* A timer in use belongs to somebody.  A torn time_stamp() may have put off the timer of a
\* process, by less than an interval; the others are registered at the right time.
Timely(e) ==
    /\ e.registered /\ e.who \in Caller
    /\ IF SLOW /\ e.who \in Proc THEN e.due >= e.left - (INTERVAL - 1) ELSE e.due = e.left

Sorted(c) == \A i, j \in 1 .. c.n : i < j => c.timers[i].left <= c.timers[j].left

\* Only the client may have two timers: after it removed another's by an id they shared.
Single(c) ==
    \A i, j \in 1 .. c.n : c.timers[i].who = c.timers[j].who /\ c.timers[i].who # CLIENT => i = j

Good(c) == c \in Driver /\ Sorted(c) /\ Single(c) /\ \A i \in 1 .. c.n : Timely(c.timers[i])

Has(c, w) == \E i \in 1 .. c.n : c.timers[i].who = w

\* Timers of processes have at least x left, the others at least y.
Bound(c, x, y) ==
    \A i \in 1 .. c.n : c.timers[i].left >= IF c.timers[i].who \in Proc THEN x ELSE y

\* Time that passes keeps the order.
LEMMA LaterKeeps ==
  ASSUME NEW c, Good(c), NEW u, NEW d \in Int, Later(c, u, d)
  PROVE  /\ Good(u) /\ \A w : Has(u, w) <=> Has(c, w)
         /\ \A x, y \in Int : Bound(c, x, y) => Bound(u, x - d, y - d)
<1>1. /\ c \in Driver /\ u \in Driver /\ u.n = c.n
      /\ \A i \in 1 .. c.n : /\ u.timers[i].who = c.timers[i].who
                             /\ u.timers[i].registered = c.timers[i].registered
                             /\ u.timers[i].left = c.timers[i].left - d
                             /\ u.timers[i].due = c.timers[i].due - d
                             /\ Timely(c.timers[i])
  BY DEF Good, Later
<1>2. \A i \in 1 .. c.n : c.timers[i].left \in Int /\ c.timers[i].due \in Int
  BY <1>1, TimerFields, Zenon
<1>3. Sorted(u)
  <2>1. Sorted(c)
    BY DEF Good
  <2>. QED BY <1>1, <1>2, <2>1 DEF Sorted
<1>4. Single(u)
  BY <1>1 DEF Good, Single
<1>5. ASSUME NEW i \in 1 .. c.n PROVE Timely(u.timers[i])
  BY <1>1, <1>2, Constants DEF Timely
<1>6. \A w : Has(u, w) <=> Has(c, w)
  BY <1>1, Zenon DEF Has
<1>7. ASSUME NEW x \in Int, NEW y \in Int, Bound(c, x, y) PROVE Bound(u, x - d, y - d)
  BY <1>1, <1>2, <1>7 DEF Bound
<1>. QED BY <1>1, <1>3, <1>4, <1>5, <1>6, <1>7 DEF Good

\* A new timer of one who has none.
LEMMA InsertedKeeps ==
  ASSUME NEW c, Good(c), NEW u \in Driver, NEW k, NEW e \in Timer, Inserted(c, u, k, e),
         Timely(e), e.who = CLIENT \/ ~Has(c, e.who)
  PROVE  /\ Good(u) /\ \A w : Has(u, w) <=> Has(c, w) \/ w = e.who
         /\ \A x, y \in Int : Bound(c, x, y) /\ e.left >= x /\ e.left >= y => Bound(u, x, y)
<1>1. /\ c \in Driver /\ c.n \in Nat /\ k \in 1 .. (c.n + 1) /\ u.n = c.n + 1
      /\ \A i \in 1 .. c.n : i < k => u.timers[i] = c.timers[i]
      /\ \A i \in 1 .. c.n : ~(i < k) => u.timers[i + 1] = c.timers[i]
      /\ u.timers[k] = e
  <2>1. c \in Driver /\ c.n \in Nat
    BY DriverFields, Constants DEF Good
  <2>. QED BY <2>1 DEF Inserted
<1>2. ASSUME NEW j \in 1 .. u.n, j # k
      PROVE  \E i \in 1 .. c.n : u.timers[j] = c.timers[i] /\ j = IF i < k THEN i ELSE i + 1
  <2>1. CASE j < k
    BY <1>1, <2>1
  <2>2. CASE ~(j < k)
    <3>1. j - 1 \in 1 .. c.n /\ ~(j - 1 < k) /\ (j - 1) + 1 = j
      BY <1>1, <1>2, <2>2
    <3>. QED BY <1>1, <3>1
  <2>. QED BY <2>1, <2>2
<1>3. \A i \in 1 .. c.n : c.timers[i].left \in Int
  BY <1>1, TimerFields, Zenon
<1>4. e.left \in Int
  BY Zenon DEF Timer
<1>5. Sorted(u)
  <2>1. /\ \A i \in 1 .. c.n : i < k => c.timers[i].left <= e.left
        /\ \A i \in 1 .. c.n : ~(i < k) => e.left <= c.timers[i].left
    <3>1. k = 1 \/ c.timers[k - 1].left <= e.left
      BY DEF Inserted
    <3>2. \A i \in 1 .. c.n : i < k => i = k - 1 \/ c.timers[i].left <= c.timers[k - 1].left
      BY <1>1 DEF Good, Sorted
    <3>3. \A i \in 1 .. c.n : i < k => c.timers[i].left <= e.left
      BY <1>1, <1>3, <1>4, <3>1, <3>2
    <3>4. \A i \in 1 .. c.n : ~(i < k) => e.left <= c.timers[i].left
      BY <1>1, <1>3, <1>4 DEF Inserted
    <3>. QED BY <3>3, <3>4
  <2>2. ASSUME NEW i \in 1 .. u.n, NEW j \in 1 .. u.n, i < j
        PROVE  u.timers[i].left <= u.timers[j].left
    <3>1. CASE i = k
      <4>1. PICK m \in 1 .. c.n : u.timers[j] = c.timers[m] /\ j = IF m < k THEN m ELSE m + 1
        BY <1>2, <2>2, <3>1
      <4>. QED BY <1>1, <2>1, <2>2, <3>1, <4>1
    <3>2. CASE j = k
      <4>1. PICK m \in 1 .. c.n : u.timers[i] = c.timers[m] /\ i = IF m < k THEN m ELSE m + 1
        BY <1>2, <2>2, <3>2
      <4>. QED BY <1>1, <2>1, <2>2, <3>2, <4>1
    <3>3. CASE i # k /\ j # k
      <4>1. PICK m \in 1 .. c.n : u.timers[i] = c.timers[m] /\ i = IF m < k THEN m ELSE m + 1
        BY <1>2, <3>3
      <4>2. PICK q \in 1 .. c.n : u.timers[j] = c.timers[q] /\ j = IF q < k THEN q ELSE q + 1
        BY <1>2, <3>3
      <4>3. m < q
        BY <1>1, <2>2, <4>1, <4>2
      <4>. QED BY <4>1, <4>2, <4>3 DEF Good, Sorted
    <3>. QED BY <3>1, <3>2, <3>3
  <2>. QED BY <2>2 DEF Sorted
<1>6. \A w : Has(u, w) <=> Has(c, w) \/ w = e.who
  <2>1. ASSUME NEW w, Has(u, w) PROVE Has(c, w) \/ w = e.who
    BY <1>1, <1>2, <2>1, Zenon DEF Has
  <2>2. ASSUME NEW i \in 1 .. c.n PROVE Has(u, c.timers[i].who)
    <3>1. i \in 1 .. u.n /\ i + 1 \in 1 .. u.n
      BY <1>1
    <3>. QED BY <1>1, <3>1, Zenon DEF Has
  <2>3. Has(u, e.who)
    <3>1. k \in 1 .. u.n
      BY <1>1
    <3>. QED BY <1>1, <3>1, Zenon DEF Has
  <2>. QED BY <2>1, <2>2, <2>3, ZenonT(30) DEF Has
<1>7. Single(u)
  <2> SUFFICES ASSUME NEW i \in 1 .. u.n, NEW j \in 1 .. u.n,
                      u.timers[i].who = u.timers[j].who, u.timers[i].who # CLIENT
               PROVE  i = j
    BY DEF Single
  <2>1. CASE i = k \/ j = k
    <3>1. u.timers[i].who = e.who /\ u.timers[j].who = e.who /\ ~Has(c, e.who)
      BY <1>1, <2>1
    <3>. QED BY <1>2, <2>1, <3>1, Zenon DEF Has
  <2>2. CASE i # k /\ j # k
    <3>1. PICK m \in 1 .. c.n : u.timers[i] = c.timers[m] /\ i = IF m < k THEN m ELSE m + 1
      BY <1>2, <2>2
    <3>2. PICK q \in 1 .. c.n : u.timers[j] = c.timers[q] /\ j = IF q < k THEN q ELSE q + 1
      BY <1>2, <2>2
    <3>3. m = q
      BY <3>1, <3>2 DEF Good, Single
    <3>. QED BY <3>1, <3>2, <3>3
  <2>. QED BY <2>1, <2>2
<1>8. ASSUME NEW j \in 1 .. u.n PROVE Timely(u.timers[j])
  BY <1>1, <1>2, Zenon DEF Good
<1>9. ASSUME NEW x \in Int, NEW y \in Int, Bound(c, x, y), e.left >= x, e.left >= y
      PROVE  Bound(u, x, y)
  <2> SUFFICES ASSUME NEW j \in 1 .. u.n
               PROVE  u.timers[j].left >= IF u.timers[j].who \in Proc THEN x ELSE y
    BY DEF Bound
  <2>1. CASE j = k
    BY <1>1, <1>9, <2>1
  <2>2. CASE j # k
    BY <1>2, <1>9, <2>2 DEF Bound
  <2>. QED BY <2>1, <2>2
<1>. QED BY <1>5, <1>6, <1>7, <1>8, <1>9 DEF Good

\* The first timers are gone, and nobody but the client has another.
LEMMA DroppedKeeps ==
  ASSUME NEW c, Good(c), NEW u \in Driver, NEW k, Dropped(c, u, k)
  PROVE  /\ Good(u)
         /\ \A w : Has(u, w) => Has(c, w)
         /\ \A w : Has(c, w) => Has(u, w) \/ w \in {c.timers[i].who : i \in 1 .. k}
         /\ \A w \in {c.timers[i].who : i \in 1 .. k} : w = CLIENT \/ ~Has(u, w)
         /\ \A x \in Int : k = c.n \/ c.timers[k + 1].left > x => Bound(u, x + 1, x + 1)
<1>1. /\ c \in Driver /\ c.n \in Nat /\ k \in 0 .. c.n /\ u.n = c.n - k
      /\ \A i \in 1 .. u.n : u.timers[i] = c.timers[i + k] /\ i + k \in 1 .. c.n
  <2>1. c \in Driver /\ c.n \in Nat
    BY DriverFields, Constants DEF Good
  <2>. QED BY <2>1 DEF Dropped
<1>2. \A i \in 1 .. c.n : c.timers[i].left \in Int
  BY <1>1, TimerFields, Zenon
<1>3. Sorted(u)
  BY <1>1 DEF Good, Sorted
<1>4. Single(u)
  <2> SUFFICES ASSUME NEW i \in 1 .. u.n, NEW j \in 1 .. u.n,
                      u.timers[i].who = u.timers[j].who, u.timers[i].who # CLIENT
               PROVE  i = j
    BY DEF Single
  <2>1. i + k = j + k
    BY <1>1 DEF Good, Single
  <2>. QED BY <1>1, <2>1
<1>5. \A i \in 1 .. u.n : Timely(u.timers[i])
  BY <1>1 DEF Good
<1>6. \A w : Has(u, w) => Has(c, w)
  BY <1>1, Zenon DEF Has
<1>7. ASSUME NEW i \in 1 .. c.n
      PROVE  Has(u, c.timers[i].who) \/ c.timers[i].who \in {c.timers[j].who : j \in 1 .. k}
  <2>1. CASE i <= k
    <3>1. i \in 1 .. k
      BY <1>1, <2>1
    <3>. QED BY <3>1, Zenon
  <2>2. CASE ~(i <= k)
    <3>1. i - k \in 1 .. u.n /\ (i - k) + k = i
      BY <1>1, <2>2
    <3>. QED BY <1>1, <3>1 DEF Has
  <2>. QED BY <2>1, <2>2
<1>8. ASSUME NEW i \in 1 .. k, c.timers[i].who # CLIENT PROVE ~Has(u, c.timers[i].who)
  <2>1. SUFFICES ASSUME NEW j \in 1 .. u.n, u.timers[j].who = c.timers[i].who PROVE FALSE
    BY Zenon DEF Has
  <2>2. i \in 1 .. c.n /\ j + k \in 1 .. c.n /\ i # j + k
    BY <1>1
  <2>. QED BY <1>1, <1>8, <2>1, <2>2 DEF Good, Single
<1>9. ASSUME NEW x \in Int, k = c.n \/ c.timers[k + 1].left > x PROVE Bound(u, x + 1, x + 1)
  <2> SUFFICES ASSUME NEW i \in 1 .. u.n PROVE u.timers[i].left >= x + 1
    BY DEF Bound
  <2>1. /\ k + 1 \in 1 .. c.n /\ i + k \in 1 .. c.n /\ k # c.n
        /\ i + k = k + 1 \/ k + 1 < i + k
    BY <1>1
  <2>2. c.timers[k + 1].left <= c.timers[i + k].left
    BY <1>2, <2>1 DEF Good, Sorted
  <2>. QED BY <1>1, <1>2, <1>9, <2>1, <2>2
<1>10. \A w : Has(c, w) => Has(u, w) \/ w \in {c.timers[i].who : i \in 1 .. k}
  BY <1>7, Zenon DEF Has
<1>. QED BY <1>1, <1>3, <1>4, <1>5, <1>6, <1>8, <1>9, <1>10 DEF Good

\* One timer is gone.
LEMMA RemovedKeeps ==
  ASSUME NEW c, Good(c), NEW u \in Driver, NEW k, Removed(c, u, k)
  PROVE  /\ Good(u)
         /\ \A w : Has(u, w) => Has(c, w)
         /\ \A w : Has(c, w) => Has(u, w) \/ w = c.timers[k].who
         /\ \A x, y \in Int : Bound(c, x, y) => Bound(u, x, y)
<1>1. c \in Driver /\ c.n \in Nat /\ k \in 1 .. c.n /\ u.n = c.n - 1
  BY DriverFields, Constants DEF Good, Removed
<1>2. ASSUME NEW j \in 1 .. u.n
      PROVE  \E i \in 1 .. c.n : u.timers[j] = c.timers[i] /\ i = IF j < k THEN j ELSE j + 1
  <2>1. j \in 1 .. c.n /\ j + 1 \in 1 .. c.n
    BY <1>1
  <2>. QED BY <1>1, <2>1 DEF Removed
<1>3. Sorted(u)
  <2> SUFFICES ASSUME NEW i \in 1 .. u.n, NEW j \in 1 .. u.n, i < j
               PROVE  u.timers[i].left <= u.timers[j].left
    BY DEF Sorted
  <2>1. PICK m \in 1 .. c.n : u.timers[i] = c.timers[m] /\ m = IF i < k THEN i ELSE i + 1
    BY <1>2
  <2>2. PICK q \in 1 .. c.n : u.timers[j] = c.timers[q] /\ q = IF j < k THEN j ELSE j + 1
    BY <1>2
  <2>3. m < q
    BY <1>1, <2>1, <2>2
  <2>. QED BY <2>1, <2>2, <2>3 DEF Good, Sorted
<1>4. Single(u)
  <2> SUFFICES ASSUME NEW i \in 1 .. u.n, NEW j \in 1 .. u.n,
                      u.timers[i].who = u.timers[j].who, u.timers[i].who # CLIENT
               PROVE  i = j
    BY DEF Single
  <2>1. PICK m \in 1 .. c.n : u.timers[i] = c.timers[m] /\ m = IF i < k THEN i ELSE i + 1
    BY <1>2
  <2>2. PICK q \in 1 .. c.n : u.timers[j] = c.timers[q] /\ q = IF j < k THEN j ELSE j + 1
    BY <1>2
  <2>3. m = q
    BY <2>1, <2>2 DEF Good, Single
  <2>. QED BY <1>1, <2>1, <2>2, <2>3
<1>5. \A j \in 1 .. u.n : Timely(u.timers[j])
  BY <1>2, Zenon DEF Good
<1>6. \A w : Has(u, w) => Has(c, w)
  BY <1>2, Zenon DEF Has
<1>7. ASSUME NEW i \in 1 .. c.n, i # k PROVE Has(u, c.timers[i].who)
  <2>1. CASE i < k
    <3>1. i \in 1 .. u.n /\ u.timers[i] = c.timers[i]
      BY <1>1, <2>1 DEF Removed
    <3>. QED BY <3>1, Zenon DEF Has
  <2>2. CASE ~(i < k)
    <3>1. i - 1 \in 1 .. u.n /\ ~(i - 1 < k) /\ (i - 1) + 1 = i
      BY <1>1, <1>7, <2>2
    <3>2. u.timers[i - 1] = c.timers[i]
      BY <1>1, <3>1 DEF Removed
    <3>. QED BY <3>1, <3>2 DEF Has
  <2>. QED BY <2>1, <2>2
<1>8. \A w : Has(c, w) => Has(u, w) \/ w = c.timers[k].who
  BY <1>7, Zenon DEF Has
<1>9. ASSUME NEW x \in Int, NEW y \in Int, Bound(c, x, y) PROVE Bound(u, x, y)
  BY <1>2, <1>9, Zenon DEF Bound
<1>. QED BY <1>3, <1>4, <1>5, <1>6, <1>8, <1>9 DEF Good

-----------------------------------------------------------------------------
(* _check_timeout.                                                         *)

\* What _check_timeout does after the callbacks: the first k timers are no longer registered,
\* and the rest moves to their places.
Front(f, k) ==
    LET e == [f EXCEPT !.timers = [i \in Index |->
                 IF i <= k THEN [f.timers[i] EXCEPT !.registered = FALSE] ELSE f.timers[i]]]
    IN  [e EXCEPT !.timers = [i \in Index |-> IF i <= e.n - k THEN e.timers[i + k]
                                              ELSE Unused(e.timers[i])],
                  !.n = @ - k]

\* The first timers leave the array.
LEMMA FrontEffect ==
  ASSUME NEW f \in Driver, NEW k \in 0 .. f.n, NEW u, u = Front(f, k)
  PROVE  u \in Driver /\ Dropped(f, u, k) /\ u.main = f.main /\ u.lost = f.lost
<1> DEFINE t1 == [i \in Index |-> IF i <= k THEN [f.timers[i] EXCEPT !.registered = FALSE]
                                  ELSE f.timers[i]]
           e == [f EXCEPT !.timers = t1]
           t2 == [i \in Index |-> IF i <= f.n - k THEN t1[i + k] ELSE Unused(t1[i])]
           n2 == f.n - k
<1>1. /\ f.timers \in [Index -> Timer] /\ f.n \in 0 .. N /\ f.main \in 1 .. INTERVAL
      /\ f.sr1 \in BOOLEAN /\ f.sr2 \in BOOLEAN /\ f.lost \in BOOLEAN /\ f.var \in Var
  BY DriverFields
<1>2. f.n \in Nat /\ n2 \in 0 .. N /\ \A i \in Index : i <= n2 => i + k \in Index
  BY <1>1, Constants DEF Index
<1>3. t1 \in [Index -> Timer] /\ \A i \in 1 .. n2 : i + k \in Index /\ t1[i + k] = f.timers[i + k]
  <2>1. \A i \in Index : [f.timers[i] EXCEPT !.registered = FALSE] \in Timer
    BY <1>1, UnusedFacts, Zenon
  <2>2. t1 \in [Index -> Timer]
    BY <1>1, <2>1, Zenon
  <2>3. \A i \in 1 .. n2 : i \in Index /\ i <= n2 /\ ~(i + k <= k)
    BY <1>1, <1>2, Constants DEF Index
  <2>. QED BY <1>2, <2>2, <2>3
<1>4. u = [e EXCEPT !.timers = [i \in Index |-> IF i <= e.n - k THEN e.timers[i + k]
                                                 ELSE Unused(e.timers[i])],
                    !.n = @ - k]
  BY DEF Front
<1> HIDE DEF t1
<1>5. /\ e \in Driver /\ e.timers = t1 /\ e.n = f.n /\ e.main = f.main /\ e.sr1 = f.sr1
      /\ e.var = f.var /\ e.sr2 = f.sr2 /\ e.lost = f.lost
  BY <1>1, <1>3, Zenon DEF Driver
<1> HIDE DEF e
<1>6. u = [e EXCEPT !.timers = t2, !.n = n2]
  BY <1>4, <1>5
<1>7. t2 \in [Index -> Timer] /\ \A i \in 1 .. n2 : t2[i] = f.timers[i + k]
  <2>1. \A i \in Index : Unused(t1[i]) \in Timer
    BY <1>3, UnusedFacts, Zenon
  <2>2. t2 \in [Index -> Timer]
    BY <1>2, <1>3, <2>1, Zenon
  <2>3. \A i \in 1 .. n2 : i \in Index /\ i <= n2
    BY <1>1, <1>2, Constants DEF Index
  <2>. QED BY <1>3, <2>2, <2>3, Zenon
<1> HIDE DEF t2
<1>8. u \in Driver /\ u.timers = t2 /\ u.n = n2 /\ u.main = f.main /\ u.lost = f.lost
  BY <1>2, <1>5, <1>6, <1>7, Zenon DEF Driver
<1>. QED BY <1>7, <1>8 DEF Dropped

\* A timer that is registered behind the first k and moves to the front with the rest is as
\* if registered after they left.
LEMMA DropCommutes ==
  ASSUME NEW c \in Driver, NEW f, NEW u, NEW m, NEW e, Inserted(c, f, m, e),
         NEW k \in 0 .. c.n, k < m, Dropped(f, u, k)
  PROVE  \E b \in Driver : Dropped(c, b, k) /\ Inserted(b, u, m - k, e)
<1> DEFINE t2 == [i \in Index |-> IF i + k <= N THEN c.timers[i + k] ELSE c.timers[i]]
           n2 == c.n - k
           b == [c EXCEPT !.timers = t2, !.n = n2]
<1>1. /\ c.timers \in [Index -> Timer] /\ c.n \in 0 .. N /\ c.main \in 1 .. INTERVAL
      /\ c.sr1 \in BOOLEAN /\ c.sr2 \in BOOLEAN /\ c.lost \in BOOLEAN /\ c.var \in Var
  BY DriverFields
<1>2. /\ c.n \in Nat /\ n2 \in 0 .. N /\ \A i \in Index : i + k <= N => i + k \in Index
      /\ \A i \in 1 .. n2 : i \in Index /\ i + k <= N
  BY <1>1, Constants DEF Index
<1>3. t2 \in [Index -> Timer]
  BY <1>1, <1>2, Zenon
<1>4. \A i \in 1 .. n2 : t2[i] = c.timers[i + k]
  BY <1>2, Zenon
<1> HIDE DEF t2
<1>5. b \in Driver /\ b.timers = t2 /\ b.n = n2
  BY <1>1, <1>2, <1>3, Zenon DEF Driver
<1> HIDE DEF b
<1>6. Dropped(c, b, k)
  BY <1>4, <1>5 DEF Dropped
<1>7. /\ m \in 1 .. (c.n + 1) /\ f.n = c.n + 1 /\ u.n = c.n + 1 - k /\ b.n = c.n - k
      /\ m - k \in 1 .. (b.n + 1) /\ u.n = b.n + 1
  BY <1>2, <1>5 DEF Inserted, Dropped
<1>8. ASSUME NEW i \in 1 .. (b.n + 1)
      PROVE  u.timers[i] = IF i < m - k THEN b.timers[i]
                           ELSE IF i = m - k THEN e ELSE b.timers[i - 1]
  <2>1. u.timers[i] = f.timers[i + k] /\ i + k \in 1 .. (c.n + 1)
    BY <1>2, <1>7 DEF Dropped
  <2>2. CASE i < m - k
    <3>1. i + k < m /\ i \in 1 .. n2
      BY <1>2, <1>7, <2>2
    <3>. QED BY <1>4, <1>5, <2>1, <2>2, <3>1 DEF Inserted
  <2>3. CASE i = m - k
    <3>1. i + k = m
      BY <1>2, <1>7, <2>3
    <3>. QED BY <1>7, <2>1, <2>3, <3>1 DEF Inserted
  <2>4. CASE ~(i < m - k) /\ i # m - k
    <3>1. ~(i + k < m) /\ i + k # m /\ i - 1 \in 1 .. n2 /\ (i - 1) + k = (i + k) - 1
      BY <1>2, <1>7, <2>4
    <3>. QED BY <1>4, <1>5, <2>1, <2>4, <3>1 DEF Inserted
  <2>. QED BY <2>2, <2>3, <2>4
<1>9. ASSUME NEW i \in (m - k) .. b.n PROVE e.left < b.timers[i].left
  <2>1. i \in 1 .. n2 /\ i + k \in m .. c.n
    BY <1>2, <1>7
  <2>. QED BY <1>4, <1>5, <2>1 DEF Inserted
<1>10. m - k = 1 \/ b.timers[(m - k) - 1].left <= e.left
  <2> SUFFICES ASSUME m - k # 1 PROVE b.timers[(m - k) - 1].left <= e.left
    OBVIOUS
  <2>1. (m - k) - 1 \in 1 .. n2 /\ ((m - k) - 1) + k = m - 1 /\ m # 1
    BY <1>2, <1>7
  <2>. QED BY <1>4, <1>5, <2>1 DEF Inserted
<1>11. Inserted(b, u, m - k, e)
  BY <1>7, <1>8, <1>9, <1>10 DEF Inserted
<1>. QED BY <1>5, <1>6, <1>11

\* The driver u is c with a new timer, for which EPIT2 has been programmed.
Accepts(c, u, delay, who) ==
    \E b \in Driver, k \in Index, e \in Timer :
        /\ e.left = delay /\ e.due = delay /\ e.who = who /\ e.registered
        /\ Inserted(c, b, k, e) /\ u = UpdateVar(b, "no")
        /\ b.lost = c.lost /\ b.main = c.main /\ b.sr1 = c.sr1 /\ b.sr2 = c.sr2

\* register_timer when it takes no time, as in a callback.
LEMMA RegisterEffect ==
  ASSUME NEW c \in Driver, c.n # N, NEW delay \in Nat, NEW who \in Caller,
         NEW u, u = register_timer(c, delay, who, "no")
  PROVE  Accepts(c, u, delay, who)
<1> DEFINE b == Insert(c, delay, 0, who)
<1>1. u = UpdateVar(b, "no")
  BY DEF register_timer, AfterStamp, Ahead, Torn, Elapse
<1> HIDE DEF b
<1>2. /\ b \in Driver /\ b.lost = c.lost /\ b.main = c.main /\ b.sr1 = c.sr1 /\ b.sr2 = c.sr2
      /\ \E k \in Index, e \in Timer :
            /\ e.left = delay + 0 /\ e.due = delay /\ e.who = who /\ e.registered
            /\ Inserted(c, b, k, e)
  BY InsertEffect DEF b
<1>3. delay + 0 = delay
  OBVIOUS
<1>. QED BY <1>1, <1>2, <1>3, Zenon DEF Accepts

\* A full array takes no timer.
LEMMA FullEffect ==
  ASSUME NEW c \in Driver, c.n = N, NEW delay, NEW who, NEW d,
         NEW u, u = register_timer(c, delay, who, d)
  PROVE  /\ u \in Driver /\ u.lost /\ u.timers = c.timers /\ u.n = c.n /\ u.main = c.main
         /\ u.sr1 = c.sr1 /\ u.sr2 = c.sr2 /\ u.var = c.var
<1>1. u = [c EXCEPT !.lost = TRUE]
  BY DEF register_timer
<1>. QED BY <1>1, Zenon DEF Driver

\* Who is called back.
Callees(c, ahead) == {c.timers[i].who : i \in 1 .. Ended(c, ahead)}

\* _check_timeout calls back the timers that have ended, and those that are left have time:
\* the handler of NFS finds the array as it is in the middle of this, and its new timer is
\* behind the ones that go.
LEMMA CheckKeeps ==
  ASSUME NEW c, Good(c), NEW ahead \in Int, ahead < INTERVAL, NEW u, u = _check_timeout(c, ahead),
         NEW calls, calls = Callees(c, ahead)
  PROVE  /\ Good(u) /\ u.main = c.main /\ (c.lost => u.lost)
         /\ \A w \in Proc : Has(u, w) <=> Has(c, w) /\ w \notin calls
         /\ ~u.lost /\ Has(c, NFS) => Has(u, NFS)
         /\ Bound(u, ahead + 1, ahead + 1)
<1> DEFINE k == Ended(c, ahead)
           f == IF \E i \in 1 .. k : c.timers[i].who = NFS
                THEN register_timer(c, INTERVAL, NFS, "no") ELSE c
<1>1. c \in Driver /\ \A i \in 1 .. c.n : c.timers[i].registered
  BY DEF Good, Timely
<1>2. /\ k \in 0 .. c.n /\ \A i \in 1 .. k : c.timers[i].left <= ahead
      /\ k = c.n \/ c.timers[k + 1].left > ahead
  BY <1>1, EndedFacts
<1>3. u = Front(f, k)
  BY DEF _check_timeout, CalledBack, Front
<1>4. calls = {c.timers[i].who : i \in 1 .. k} /\ (NFS \in calls <=> \E i \in 1 .. k : c.timers[i].who = NFS)
  BY DEF Callees
<1> HIDE DEF k
<1>5. CASE NFS \in calls /\ c.n # N
  <2>1. f = register_timer(c, INTERVAL, NFS, "no")
    BY <1>4, <1>5
  <2> HIDE DEF f
  <2>2. INTERVAL \in Nat /\ NFS \in Caller
    BY Constants DEF Caller
  <2>3. PICK b \in Driver, m \in Index, e \in Timer :
            /\ e.left = INTERVAL /\ e.due = INTERVAL /\ e.who = NFS /\ e.registered
            /\ Inserted(c, b, m, e) /\ f = UpdateVar(b, "no")
            /\ b.lost = c.lost /\ b.main = c.main /\ b.sr1 = c.sr1 /\ b.sr2 = c.sr2
    <3>1. Accepts(c, f, INTERVAL, NFS)
      BY <1>1, <1>5, <2>1, <2>2, RegisterEffect
    <3>. QED BY <3>1, Zenon DEF Accepts
  <2>4. f \in Driver /\ f.timers = b.timers /\ f.n = b.n /\ f.main = c.main /\ f.lost = c.lost
    BY <2>3, UpdateVarEffect DEF Later
  <2>5. Inserted(c, f, m, e)
    BY <2>3, <2>4, Zenon DEF Inserted
  <2>6. k < m /\ k \in 0 .. f.n
    <3>1. c.n \in Nat /\ m \in 1 .. (c.n + 1) /\ f.n = c.n + 1
      BY <1>1, <2>5, DriverFields, Constants DEF Inserted
    <3>2. ASSUME m <= k PROVE FALSE
      <4>1. m \in m .. c.n /\ m \in 1 .. k /\ m \in 1 .. c.n
        BY <1>2, <3>1, <3>2
      <4>2. INTERVAL < c.timers[m].left /\ c.timers[m].left <= ahead
        BY <1>2, <2>3, <2>5, <4>1 DEF Inserted
      <4>3. c.timers[m].left \in Int
        BY <1>1, <4>1, TimerFields
      <4>. QED BY <4>2, <4>3, Constants
    <3>. QED BY <1>2, <3>1, <3>2
  <2>7. u \in Driver /\ Dropped(f, u, k) /\ u.main = c.main /\ u.lost = c.lost
    BY <1>3, <2>4, <2>6, FrontEffect
  <2>8. PICK a \in Driver : Dropped(c, a, k) /\ Inserted(a, u, m - k, e)
    BY <1>1, <1>2, <2>5, <2>6, <2>7, DropCommutes
  <2>9. /\ Good(a)
        /\ \A w : Has(a, w) => Has(c, w)
        /\ \A w : Has(c, w) => Has(a, w) \/ w \in calls
        /\ \A w \in calls : w = CLIENT \/ ~Has(a, w)
        /\ Bound(a, ahead + 1, ahead + 1)
    BY <1>2, <1>4, <2>8, DroppedKeeps, SMTT(30)
  <2>10. Timely(e) /\ ~Has(a, e.who)
    BY <1>5, <2>2, <2>3, <2>9, Constants DEF Timely, NFS, CLIENT
  <2>11. ahead + 1 \in Int /\ e.left >= ahead + 1
    BY <2>3, Constants
  <2>12. /\ Good(u) /\ Bound(u, ahead + 1, ahead + 1)
         /\ \A w : Has(u, w) <=> Has(a, w) \/ w = NFS
    BY <2>3, <2>7, <2>8, <2>9, <2>10, <2>11, InsertedKeeps
  <2>13. \A w \in Proc : w # NFS /\ w # CLIENT
    BY Constants
  <2>. QED BY <2>7, <2>9, <2>12, <2>13, Zenon
<1>6. CASE ~(NFS \in calls /\ c.n # N)
  <2>1. /\ f \in Driver /\ f.timers = c.timers /\ f.n = c.n /\ f.main = c.main
        /\ c.lost => f.lost
        /\ NFS \in calls => f.lost
    <3>1. CASE NFS \in calls
      BY <1>1, <1>4, <1>6, <3>1, FullEffect
    <3>2. CASE NFS \notin calls
      BY <1>1, <1>4, <3>2
    <3>. QED BY <3>1, <3>2
  <2> HIDE DEF f
  <2>2. u \in Driver /\ Dropped(f, u, k) /\ u.main = c.main /\ u.lost = f.lost
    BY <1>2, <1>3, <2>1, FrontEffect
  <2>3. Dropped(c, u, k)
    BY <2>1, <2>2 DEF Dropped
  <2>4. /\ Good(u)
        /\ \A w : Has(u, w) => Has(c, w)
        /\ \A w : Has(c, w) => Has(u, w) \/ w \in calls
        /\ \A w \in calls : w = CLIENT \/ ~Has(u, w)
        /\ Bound(u, ahead + 1, ahead + 1)
    BY <1>2, <1>4, <2>2, <2>3, DroppedKeeps
  <2>5. \A w \in Proc : w # NFS /\ w # CLIENT
    BY Constants
  <2>. QED BY <2>1, <2>2, <2>4, <2>5, Zenon
<1>. QED BY <1>5, <1>6

-----------------------------------------------------------------------------
(* The invariant.                                                          *)

\* A process that runs has no timer; until one is lost, one that sleeps has, and so has NFS.
Owners(c, s) == \A p \in Proc : Has(c, p) => s[p] # "run"
Served(c, s) == ~c.lost => Has(c, NFS) /\ \A p \in Proc : s[p] = "sleep" => Has(c, p)

\* How many processes have made a call that they wait for.
Waiting(s) == Cardinality({p \in Proc : s[p] # "run"})

\* When time passes in the handlers.  The interrupt of EPIT1 comes in `main', and a timer can
\* be late by little more than the rest of the interval.  Once an interrupt is pending, the m
\* processes that wait may have made their calls since then, each of which took time; the
\* owner of a timer is one of them, and its own call took no time from its timer.
Pending(c) == c.sr1 \/ c.sr2
Prompt(c, m) ==
    IF Pending(c) THEN Bound(c, -INTERVAL - m, -INTERVAL - m - 1)
    ELSE Bound(c, c.main - 1 - INTERVAL, c.main - 1 - INTERVAL)

\* When it does not: EPIT2 interrupts when the first timer ends, unless EPIT1 does before.
Punctual(c) ==
    /\ Bound(c, 0, 0)
    /\ ~Pending(c) /\ c.n > 0 =>
          IF c.var.on THEN c.var.left = c.timers[1].left /\ c.var.left >= 1
          ELSE c.timers[1].left > c.main

IInv ==
    /\ Good(ck) /\ st \in [Proc -> {"run", "sleep", "dead"}] /\ held \in 0 .. N
    /\ Owners(ck, st) /\ Served(ck, st)
    /\ SLOW => Prompt(ck, Waiting(st))
    /\ ~SLOW => Punctual(ck)

\* A lower bound is one too.
LEMMA BoundLower ==
  ASSUME NEW c, Good(c), NEW x \in Int, NEW y \in Int, NEW v \in Int, NEW w \in Int,
         Bound(c, x, y), v <= x, w <= y
  PROVE  Bound(c, v, w)
<1>1. \A i \in 1 .. c.n : c.timers[i].left \in Int
  BY TimerFields DEF Good
<1>. QED BY <1>1 DEF Bound

\* The flags and counters of a good driver.
LEMMA GoodFields ==
  ASSUME NEW c, Good(c)
  PROVE  /\ c \in Driver /\ c.n \in Nat /\ c.main \in 1 .. INTERVAL /\ c.main \in Int
         /\ c.sr1 \in BOOLEAN /\ c.sr2 \in BOOLEAN /\ INTERVAL \in Int
         /\ c.n > 0 => 1 \in 1 .. c.n /\ c.timers[1].left \in Int /\ c.timers[1].registered
<1>1. /\ c \in Driver /\ c.n \in Nat /\ c.main \in 1 .. INTERVAL /\ c.main \in Int
      /\ c.sr1 \in BOOLEAN /\ c.sr2 \in BOOLEAN /\ INTERVAL \in Int
  BY DriverFields, Constants DEF Good
<1>2. ASSUME c.n > 0 PROVE 1 \in 1 .. c.n
  BY <1>1, <1>2
<1>3. ASSUME c.n > 0 PROVE c.timers[1].left \in Int /\ c.timers[1].registered
  BY <1>1, <1>2, <1>3, TimerFields DEF Good, Timely
<1>. QED BY <1>1, <1>2, <1>3

\* A unit of time, with handlers that take time.
LEMMA PassPrompt ==
  ASSUME NEW c, Good(c), NEW m \in Nat, Prompt(c, m), NEW u, u = Pass(c)
  PROVE  /\ Prompt(u, m + 1)
         /\ ~Pending(c) /\ ((\E p \in Proc : Has(c, p)) => m >= 1) => Prompt(u, m)
<1>1. /\ c \in Driver /\ c.main \in 1 .. INTERVAL /\ c.main \in Int
      /\ c.sr1 \in BOOLEAN /\ c.sr2 \in BOOLEAN /\ INTERVAL \in Int
  BY GoodFields
<1>2. Later(c, u, 1) /\ Ticked(c, u)
  BY <1>1, PassEffect
<1>3. Good(u) /\ \A x, y \in Int : Bound(c, x, y) => Bound(u, x - 1, y - 1)
  BY <1>2, LaterKeeps
<1>4. CASE Pending(c)
  <2>1. Bound(c, -INTERVAL - m, -INTERVAL - m - 1)
    BY <1>4 DEF Prompt
  <2>2. /\ -INTERVAL - m \in Int /\ -INTERVAL - m - 1 \in Int
        /\ (-INTERVAL - m) - 1 = -INTERVAL - (m + 1)
        /\ (-INTERVAL - m - 1) - 1 = -INTERVAL - (m + 1) - 1
    BY <1>1
  <2>3. Bound(u, (-INTERVAL - m) - 1, (-INTERVAL - m - 1) - 1)
    BY <1>3, <2>1, <2>2
  <2>4. Pending(u)
    BY <1>2, <1>4, Zenon DEF Pending, Ticked
  <2>. QED BY <1>4, <2>2, <2>3, <2>4 DEF Prompt
<1>5. CASE ~Pending(c)
  <2> DEFINE x == (c.main - 1 - INTERVAL) - 1
  <2>1. Bound(u, x, x) /\ x \in Int
    <3>1. Bound(c, c.main - 1 - INTERVAL, c.main - 1 - INTERVAL)
      BY <1>5 DEF Prompt
    <3>. QED BY <1>1, <1>3, <3>1
  <2>2. CASE ~Pending(u)
    <3>1. u.main = c.main - 1
      BY <1>2, <2>2, Zenon DEF Pending, Ticked
    <3>2. x = u.main - 1 - INTERVAL
      BY <1>1, <3>1
    <3>. QED BY <2>1, <2>2, <3>2 DEF Prompt
  <2>3. CASE Pending(u)
    <3>1. /\ -INTERVAL - (m + 1) \in Int /\ -INTERVAL - (m + 1) - 1 \in Int
          /\ -INTERVAL - (m + 1) <= x /\ -INTERVAL - (m + 1) - 1 <= x
      BY <1>1
    <3>2. Prompt(u, m + 1)
      BY <1>3, <2>1, <2>3, <3>1, BoundLower DEF Prompt
    <3>3. ASSUME (\E p \in Proc : Has(c, p)) => m >= 1 PROVE Prompt(u, m)
      <4>1. -INTERVAL - m \in Int /\ -INTERVAL - m - 1 \in Int /\ -INTERVAL - m - 1 <= x
        BY <1>1
      <4>2. CASE m >= 1
        <5>1. -INTERVAL - m <= x
          BY <1>1, <4>2
        <5>. QED BY <1>3, <2>1, <2>3, <4>1, <5>1, BoundLower DEF Prompt
      <4>3. CASE ~\E p \in Proc : Has(c, p)
        <5>1. \A i \in 1 .. u.n : u.timers[i].who \notin Proc /\ u.timers[i].left \in Int
          BY <1>2, <1>3, <4>3, LaterKeeps, TimerFields DEF Has, Good, Later
        <5>2. Bound(u, -INTERVAL - m, -INTERVAL - m - 1)
          BY <2>1, <4>1, <5>1 DEF Bound
        <5>. QED BY <2>3, <5>2 DEF Prompt
      <4>. QED BY <3>3, <4>2, <4>3
    <3>. QED BY <3>2, <3>3
  <2>. QED
    <3>1. ~Pending(u) => Prompt(u, m) /\ Prompt(u, m + 1)
      BY <2>2 DEF Prompt
    <3>. QED BY <1>5, <2>2, <2>3, <3>1
<1>. QED BY <1>4, <1>5

\* A longer wait allows as much.
LEMMA PromptMore ==
  ASSUME NEW c, Good(c), NEW m \in Nat, Prompt(c, m),
         NEW u, Good(u), u.timers = c.timers, u.n = c.n, u.main = c.main, Pending(u) = Pending(c)
  PROVE  Prompt(u, m) /\ Prompt(u, m + 1)
<1>1. \A x, y : Bound(u, x, y) <=> Bound(c, x, y)
  BY Zenon DEF Bound
<1>2. Prompt(u, m)
  BY <1>1 DEF Prompt
<1>3. /\ -INTERVAL - m \in Int /\ -INTERVAL - m - 1 \in Int
      /\ -INTERVAL - (m + 1) \in Int /\ -INTERVAL - (m + 1) - 1 \in Int
      /\ -INTERVAL - (m + 1) <= -INTERVAL - m
      /\ -INTERVAL - (m + 1) - 1 <= -INTERVAL - m - 1
  BY Constants
<1>4. Prompt(u, m + 1)
  <2>1. CASE Pending(u)
    <3>1. Bound(u, -INTERVAL - m, -INTERVAL - m - 1)
      BY <1>2, <2>1 DEF Prompt
    <3>2. Bound(u, -INTERVAL - (m + 1), -INTERVAL - (m + 1) - 1)
      BY <1>3, <3>1, BoundLower
    <3>. QED BY <2>1, <3>2 DEF Prompt
  <2>2. CASE ~Pending(u)
    BY <1>2, <2>2 DEF Prompt
  <2>. QED BY <2>1, <2>2
<1>. QED BY <1>2, <1>4

\* A new timer, by a time_stamp() ahead of the time for the one of a process only.
LEMMA InsertKeeps ==
  ASSUME NEW c, Good(c), c.n # N, NEW delay \in Nat, NEW ahead \in Int, NEW who \in Caller,
         who = CLIENT \/ ~Has(c, who), ahead >= -1,
         ahead = 0 \/ (SLOW /\ who \in Proc /\ ahead <= INTERVAL - 1),
         NEW u, u = Insert(c, delay, ahead, who)
  PROVE  /\ Good(u) /\ u.lost = c.lost /\ u.main = c.main /\ Pending(u) = Pending(c)
         /\ \A w : Has(u, w) <=> Has(c, w) \/ w = who
         /\ ahead = 0 /\ Bound(c, 0, 0) => Bound(u, 0, 0)
         /\ \A m \in Nat : Prompt(c, m) => Prompt(u, m)
<1>1. /\ c \in Driver /\ c.main \in 1 .. INTERVAL /\ c.main \in Int /\ INTERVAL \in Int
  BY GoodFields
<1>2. /\ u \in Driver /\ u.lost = c.lost /\ u.main = c.main /\ u.sr1 = c.sr1
      /\ u.sr2 = c.sr2
      /\ \E k \in Index, e \in Timer :
            /\ e.left = delay + ahead /\ e.due = delay /\ e.who = who /\ e.registered
            /\ Inserted(c, u, k, e)
  BY <1>1, InsertEffect
<1>3. PICK k \in Index, e \in Timer :
            /\ e.left = delay + ahead /\ e.due = delay /\ e.who = who /\ e.registered
            /\ Inserted(c, u, k, e)
  BY <1>2
<1>4. Timely(e)
  BY <1>3, Constants DEF Timely
<1>5. /\ Good(u) /\ \A w : Has(u, w) <=> Has(c, w) \/ w = who
      /\ \A x, y \in Int : Bound(c, x, y) /\ e.left >= x /\ e.left >= y => Bound(u, x, y)
  BY <1>2, <1>3, <1>4, InsertedKeeps
<1>6. e.left >= -1 /\ (ahead = 0 => e.left >= 0) /\ e.left \in Int
  BY <1>3
<1>7. Pending(u) = Pending(c)
  BY <1>2 DEF Pending
<1>8. ASSUME NEW m \in Nat, Prompt(c, m) PROVE Prompt(u, m)
  <2>1. /\ -INTERVAL - m \in Int /\ -INTERVAL - m - 1 \in Int
        /\ c.main - 1 - INTERVAL \in Int /\ -INTERVAL - m <= -1 /\ -INTERVAL - m - 1 <= -1
        /\ c.main - 1 - INTERVAL <= -1
    BY <1>1, Constants
  <2>2. /\ e.left >= -INTERVAL - m /\ e.left >= -INTERVAL - m - 1
        /\ e.left >= c.main - 1 - INTERVAL
    BY <1>6, <2>1
  <2>. QED BY <1>2, <1>5, <1>7, <1>8, <2>1, <2>2 DEF Prompt
<1>9. ahead = 0 /\ Bound(c, 0, 0) => Bound(u, 0, 0)
  BY <1>5, <1>6
<1>. QED BY <1>2, <1>5, <1>7, <1>8, <1>9

\* _update_var_timer may make an interrupt pending: the timer has just ended.
LEMMA UpdateKeeps ==
  ASSUME NEW c, Good(c), NEW u, u = UpdateVar(c, "no")
  PROVE  /\ Good(u) /\ u.lost = c.lost /\ \A w : Has(u, w) <=> Has(c, w)
         /\ \A m \in Nat : Prompt(c, m) => Prompt(u, m)
         /\ Bound(c, 0, 0) => Punctual(u)
<1>1. /\ c \in Driver /\ c.main \in 1 .. INTERVAL /\ c.main \in Int /\ INTERVAL \in Int
      /\ c.n \in Nat /\ c.sr1 \in BOOLEAN /\ c.sr2 \in BOOLEAN
      /\ c.n > 0 => 1 \in 1 .. c.n /\ c.timers[1].left \in Int /\ c.timers[1].registered
  BY GoodFields
<1>2. /\ Later(c, u, 0) /\ u.timers = c.timers /\ u.main = c.main /\ u.sr1 = c.sr1
      /\ c.sr2 => u.sr2
      /\ Programmed(c, u)
  BY <1>1, UpdateVarEffect
<1>3. Good(u) /\ \A w : Has(u, w) <=> Has(c, w)
  BY <1>2, LaterKeeps
<1>4. u.n = c.n /\ u.lost = c.lost
  BY <1>2 DEF Later
<1>5. \A x, y : Bound(u, x, y) <=> Bound(c, x, y)
  BY <1>2, <1>4, Zenon DEF Bound
<1>6. ASSUME NEW m \in Nat, Prompt(c, m) PROVE Prompt(u, m)
  <2>1. CASE Pending(c)
    <3>1. Pending(u)
      BY <1>2, <2>1 DEF Pending
    <3>. QED BY <1>5, <1>6, <2>1, <3>1 DEF Prompt
  <2>2. CASE ~Pending(c)
    <3> DEFINE x == c.main - 1 - INTERVAL
    <3>1. Bound(u, x, x)
      BY <1>5, <1>6, <2>2 DEF Prompt
    <3>2. CASE ~Pending(u)
      BY <1>2, <3>1, <3>2 DEF Prompt
    <3>3. CASE Pending(u)
      <4>1. /\ -INTERVAL - m \in Int /\ -INTERVAL - m - 1 \in Int /\ x \in Int
            /\ -INTERVAL - m <= x /\ -INTERVAL - m - 1 <= x
        BY <1>1
      <4>2. Bound(u, -INTERVAL - m, -INTERVAL - m - 1)
        BY <1>3, <3>1, <4>1, BoundLower
      <4>. QED BY <3>3, <4>2 DEF Prompt
    <3>. QED BY <3>2, <3>3
  <2>. QED BY <2>1, <2>2
<1>7. ASSUME Bound(c, 0, 0) PROVE Punctual(u)
  <2>1. Bound(u, 0, 0)
    BY <1>5, <1>7
  <2>2. ASSUME ~Pending(u), u.n > 0
        PROVE  IF u.var.on THEN u.var.left = u.timers[1].left /\ u.var.left >= 1
               ELSE u.timers[1].left > u.main
    <3>1. c.timers[1].left \in Int /\ c.timers[1].registered /\ c.timers[1].left >= 0
      BY <1>1, <1>4, <1>7, <2>2 DEF Bound
    <3>2. ~u.sr2
      BY <2>2 DEF Pending
    <3>3. CASE c.timers[1].left \in 0 .. INTERVAL
      <4>1. /\ u.var.on /\ u.var.left = c.timers[1].left
            /\ u.sr2 = (c.sr2 \/ c.timers[1].left = 0)
        BY <1>2, <3>1, <3>3, Zenon DEF Programmed
      <4>2. c.timers[1].left # 0
        BY <3>2, <4>1, Zenon
      <4>. QED BY <1>2, <3>1, <4>1, <4>2
    <3>4. CASE c.timers[1].left > INTERVAL
      <4>1. ~u.var.on
        BY <1>2, <3>1, <3>4, Zenon DEF Programmed
      <4>. QED BY <1>1, <1>2, <3>1, <3>4, <4>1
    <3>. QED BY <1>1, <3>1, <3>3, <3>4
  <2>. QED BY <2>1, <2>2 DEF Punctual
<1>. QED BY <1>3, <1>4, <1>6, <1>7

-----------------------------------------------------------------------------
(* What the users of the driver do to the invariant.                       *)

\* Drivers with the same timers.
LEMMA AlikeKeeps ==
  ASSUME NEW c, Good(c), NEW u \in Driver, u.timers = c.timers, u.n = c.n
  PROVE  /\ Good(u) /\ \A w : Has(u, w) <=> Has(c, w)
         /\ \A x, y : Bound(c, x, y) => Bound(u, x, y)
<1>1. Sorted(u) /\ Single(u)
  <2>1. Sorted(c) /\ Single(c)
    BY DEF Good
  <2>. QED BY <2>1, Zenon DEF Sorted, Single
<1>2. \A i \in 1 .. u.n : Timely(u.timers[i])
  <2>1. \A i \in 1 .. c.n : Timely(c.timers[i])
    BY DEF Good
  <2>. QED BY <2>1, Zenon
<1>3. \A w : Has(u, w) <=> Has(c, w)
  BY Zenon DEF Has
<1>4. \A x, y : Bound(c, x, y) => Bound(u, x, y)
  BY Zenon DEF Bound
<1>. QED BY <1>1, <1>2, <1>3, <1>4 DEF Good

\* What a call of register_timer leaves, which may take time unless d is "no".
Admitted(c, u, who, d) ==
    /\ Good(u) /\ (c.lost => u.lost)
    /\ \A w : Has(u, w) => Has(c, w) \/ w = who
    /\ ~u.lost => \A w : Has(c, w) \/ w = who => Has(u, w)
    /\ \A m \in Nat : Prompt(c, m) => Prompt(u, m + 1) /\ (d = "no" => Prompt(u, m))
    /\ d = "no" /\ Punctual(c) => Punctual(u)

\* register_timer, which may be refused; time passes in it at most once.
LEMMA RegisterKeeps ==
  ASSUME NEW c, Good(c), NEW delay \in Nat, NEW who \in Caller, who = CLIENT \/ ~Has(c, who),
         NEW d \in Lapse, d = "no" \/ who \in Proc,
         NEW u, u = register_timer(c, delay, who, d)
  PROVE  Admitted(c, u, who, d)
<1>1. /\ c \in Driver /\ c.main \in 1 .. INTERVAL /\ INTERVAL \in Int
      /\ c.n \in Nat /\ c.sr1 \in BOOLEAN /\ c.sr2 \in BOOLEAN
  BY GoodFields
<1>2. CASE c.n = N
  <2>1. /\ u \in Driver /\ u.lost /\ u.timers = c.timers /\ u.n = c.n /\ u.main = c.main
        /\ u.sr1 = c.sr1 /\ u.sr2 = c.sr2 /\ u.var = c.var
    BY <1>1, <1>2, FullEffect
  <2>2. Good(u) /\ \A w : Has(u, w) => Has(c, w)
    BY <2>1, AlikeKeeps
  <2>3. Pending(u) = Pending(c)
    BY <2>1 DEF Pending
  <2>4. \A m \in Nat : Prompt(c, m) => Prompt(u, m + 1) /\ Prompt(u, m)
    BY <2>1, <2>2, <2>3, PromptMore
  <2>5. Punctual(c) => Punctual(u)
    BY <2>1, <2>3, Zenon DEF Punctual, Bound
  <2>. QED BY <2>1, <2>2, <2>4, <2>5, Zenon DEF Admitted
<1>3. CASE c.n # N
  <2> DEFINE c1 == AfterStamp(c, d)
             ahead == Ahead(c, d)
             b == Insert(c1, delay, ahead, who)
             b2 == Elapse(b, d)
  <2>1. u = UpdateVar(b2, "no")
    BY <1>3 DEF register_timer
  <2>2. /\ Good(c1) /\ c1.n # N /\ c1.lost = c.lost /\ \A w : Has(c1, w) <=> Has(c, w)
        /\ ahead \in Int /\ ahead >= -1
        /\ ahead = 0 \/ (SLOW /\ who \in Proc /\ ahead <= INTERVAL - 1)
        /\ \A m \in Nat : Prompt(c, m) =>
              Prompt(c1, m + 1) /\ (d # "within" => Prompt(c1, m))
        /\ d # "within" => c1 = c /\ ahead = 0
    <3>1. CASE ~Torn(c, d) /\ c1 = c /\ ahead = 0
      <4> HIDE DEF c1, ahead
      <4>1. \A m \in Nat : Prompt(c, m) => Prompt(c1, m + 1) /\ Prompt(c1, m)
        BY <3>1, PromptMore
      <4>. QED BY <1>3, <3>1, <4>1
    <3>2. CASE /\ SLOW /\ d = "within" /\ c1 = Pass(c)
               /\ ahead = IF c.sr1 THEN -1 ELSE INTERVAL - 1
      <4> HIDE DEF c1, ahead
      <4>1. Later(c, c1, 1)
        BY <1>1, <3>2, PassEffect
      <4>2. Good(c1) /\ \A w : Has(c1, w) <=> Has(c, w)
        BY <4>1, LaterKeeps
      <4>3. \A m \in Nat : Prompt(c, m) => Prompt(c1, m + 1)
        BY <3>2, PassPrompt
      <4>4. ahead \in Int /\ ahead >= -1 /\ ahead <= INTERVAL - 1
        BY <1>1, <3>2, Constants
      <4>5. c1.n = c.n /\ c1.lost = c.lost
        BY <4>1 DEF Later
      <4>. QED BY <1>3, <3>2, <4>2, <4>3, <4>4, <4>5
    <3>. QED BY <1>1, <3>1, <3>2, StampEffect
  <2> HIDE DEF c1, ahead
  <2>3. /\ Good(b) /\ b.lost = c1.lost
        /\ \A w : Has(b, w) <=> Has(c1, w) \/ w = who
        /\ ahead = 0 /\ Bound(c1, 0, 0) => Bound(b, 0, 0)
        /\ \A m \in Nat : Prompt(c1, m) => Prompt(b, m)
    BY <2>2, InsertKeeps
  <2> HIDE DEF b
  <2>4. /\ Good(b2) /\ b2.lost = c.lost /\ \A w : Has(b2, w) <=> Has(b, w)
        /\ d = "no" => b2 = b
        /\ \A m \in Nat : Prompt(c, m) => Prompt(b2, m + 1) /\ (d = "no" => Prompt(b2, m))
    <3>1. CASE d = "after"
      <4>1. b2 = Pass(b) /\ b \in Driver
        BY <2>3, <3>1 DEF Elapse, Good
      <4> HIDE DEF b2
      <4>2. Later(b, b2, 1)
        BY <4>1, PassEffect
      <4>3. Good(b2) /\ \A w : Has(b2, w) <=> Has(b, w)
        BY <2>3, <4>2, LaterKeeps
      <4>4. ASSUME NEW m \in Nat, Prompt(c, m) PROVE Prompt(b2, m + 1)
        <5>1. Prompt(c1, m)
          BY <2>2, <3>1, <4>4
        <5>2. Prompt(b, m)
          BY <2>3, <5>1
        <5>. QED BY <2>3, <4>1, <5>2, PassPrompt
      <4>5. b2.lost = c.lost
        BY <2>2, <2>3, <4>2 DEF Later
      <4>. QED BY <3>1, <4>3, <4>4, <4>5
    <3>2. CASE d # "after"
      <4>1. b2 = b
        BY <3>2 DEF Elapse
      <4> HIDE DEF b2
      <4>2. \A m \in Nat : m + 1 \in Nat
        OBVIOUS
      <4>. QED BY <2>2, <2>3, <4>1, <4>2
    <3>. QED BY <3>1, <3>2
  <2> HIDE DEF b2
  <2>5. /\ Good(u) /\ u.lost = b2.lost /\ \A w : Has(u, w) <=> Has(b2, w)
        /\ \A m \in Nat : Prompt(b2, m) => Prompt(u, m)
        /\ Bound(b2, 0, 0) => Punctual(u)
    BY <2>1, <2>4, UpdateKeeps
  <2>6. \A m \in Nat : Prompt(c, m) => Prompt(u, m + 1) /\ (d = "no" => Prompt(u, m))
    <3>1. \A m \in Nat : m + 1 \in Nat
      OBVIOUS
    <3>. QED BY <2>4, <2>5, <3>1, Zenon
  <2>7. ASSUME d = "no", Punctual(c) PROVE Punctual(u)
    <3>1. Bound(c, 0, 0)
      BY <2>7 DEF Punctual
    <3>. QED BY <2>2, <2>3, <2>4, <2>5, <2>7, <3>1
  <2>8. \A w : Has(u, w) <=> Has(c, w) \/ w = who
    BY <2>2, <2>3, <2>4, <2>5, Zenon
  <2>. QED BY <2>4, <2>5, <2>6, <2>7, <2>8, Zenon DEF Admitted
<1>. QED BY <1>2, <1>3

\* Both handlers of the interrupt flags have run.
LEMMA ClearedEffect ==
  ASSUME NEW w, Good(w), NEW u, u = [w EXCEPT !.sr1 = FALSE, !.sr2 = FALSE]
  PROVE  /\ Good(u) /\ u.lost = w.lost /\ u.main = w.main /\ u.var = w.var /\ ~Pending(u)
         /\ u.timers = w.timers /\ u.n = w.n
         /\ \A x : Has(u, x) <=> Has(w, x)
         /\ \A x, y : Bound(w, x, y) => Bound(u, x, y)
<1>1. w \in Driver
  BY DEF Good
<1>2. /\ u \in Driver /\ u.timers = w.timers /\ u.n = w.n /\ u.lost = w.lost /\ u.main = w.main
      /\ u.var = w.var /\ u.sr1 = FALSE /\ u.sr2 = FALSE
  BY <1>1, Zenon DEF Driver
<1>3. ~Pending(u)
  BY <1>2 DEF Pending
<1>. QED BY <1>2, <1>3, AlikeKeeps, ZenonT(30)

\* Whom timer_interrupt calls back, the driver it leaves, and what is true of that.
Called(c, d1) == Callees(AfterStamp(c, d1), Ahead(c, d1))
Handled(c, d1, d2) ==
    [UpdateVar(Elapse(_check_timeout(AfterStamp(c, d1), Ahead(c, d1)), d1), d2)
        EXCEPT !.sr1 = FALSE, !.sr2 = FALSE]
Answered(c, u, calls) ==
    /\ Good(u) /\ (c.lost => u.lost)
    /\ \A w \in Proc : Has(u, w) <=> Has(c, w) /\ w \notin calls
    /\ ~u.lost /\ Has(c, NFS) => Has(u, NFS)
    /\ \A m : Prompt(u, m)
    /\ ~SLOW => Punctual(u)

\* timer_interrupt: whatever time it takes, the timers that are left end at most one unit of
\* time ago when it is over; if it takes none, EPIT2 is set for the first of them.
LEMMA InterruptKeeps ==
  ASSUME NEW c, Good(c), NEW d1 \in Lapse, NEW d2 \in Lapse,
         NEW calls, calls = Called(c, d1), NEW u, u = Handled(c, d1, d2)
  PROVE  Answered(c, u, calls)
<1> DEFINE now == AfterStamp(c, d1)
           ahead == Ahead(c, d1)
           f == _check_timeout(now, ahead)
           e == Elapse(f, d1)
           v == UpdateVar(e, d2)
<1>0. u = [v EXCEPT !.sr1 = FALSE, !.sr2 = FALSE]
  BY DEF Handled
<1>a. calls = Callees(now, ahead)
  BY DEF Called
<1>1. c \in Driver /\ INTERVAL \in Int /\ INTERVAL >= 2
  BY GoodFields, Constants
<1>2. /\ Good(now) /\ now.lost = c.lost /\ \A w : Has(now, w) <=> Has(c, w)
      /\ ahead \in Int /\ ahead < INTERVAL /\ ahead >= -1
      /\ ahead = 0 \/ d1 = "within"
  <2>1. CASE ~Torn(c, d1) /\ now = c /\ ahead = 0
    BY <1>1, <2>1
  <2>2. CASE /\ d1 = "within" /\ now = Pass(c)
             /\ ahead = IF c.sr1 THEN -1 ELSE INTERVAL - 1
    <3>1. Later(c, now, 1)
      BY <1>1, <2>2, PassEffect
    <3>2. Good(now) /\ \A w : Has(now, w) <=> Has(c, w)
      BY <3>1, LaterKeeps
    <3>3. now.lost = c.lost
      BY <3>1 DEF Later
    <3>. QED BY <1>1, <2>2, <3>2, <3>3
  <2>. QED BY <1>1, <2>1, <2>2, StampEffect
<1> HIDE DEF now, ahead
<1>3. /\ Good(f) /\ f.main = now.main /\ (now.lost => f.lost)
      /\ \A w \in Proc : Has(f, w) <=> Has(now, w) /\ w \notin calls
      /\ ~f.lost /\ Has(now, NFS) => Has(f, NFS)
      /\ Bound(f, ahead + 1, ahead + 1)
  <2>1. /\ f = _check_timeout(now, ahead) /\ calls = Callees(now, ahead)
        /\ Good(now) /\ ahead \in Int /\ ahead < INTERVAL
    BY <1>a, <1>2
  <2> HIDE DEF f
  <2>. QED BY <2>1, CheckKeeps
<1> HIDE DEF f
<1>4. /\ Good(e) /\ e.lost = f.lost /\ \A w : Has(e, w) <=> Has(f, w)
      /\ Bound(e, 0, 0)
      /\ d1 = "no" => e = f
  <2>1. CASE d1 = "after"
    <3>1. e = Pass(f) /\ f \in Driver
      BY <1>3, <2>1 DEF Elapse, Good
    <3>2. Later(f, e, 1)
      BY <3>1, PassEffect
    <3>3. /\ Good(e) /\ \A w : Has(e, w) <=> Has(f, w)
          /\ \A x, y \in Int : Bound(f, x, y) => Bound(e, x - 1, y - 1)
      BY <1>3, <3>2, LaterKeeps
    <3>4. ahead + 1 = 1 /\ 1 \in Int /\ 1 - 1 = 0
      BY <1>2, <2>1
    <3>5. Bound(f, 1, 1)
      BY <1>3, <3>4
    <3>6. Bound(e, 0, 0)
      BY <3>3, <3>4, <3>5
    <3>7. e.lost = f.lost
      BY <3>2 DEF Later
    <3>. QED BY <2>1, <3>3, <3>6, <3>7
  <2>2. CASE d1 # "after"
    <3>1. e = f
      BY <2>2 DEF Elapse
    <3>2. ahead + 1 \in Int /\ 0 \in Int /\ 0 <= ahead + 1
      BY <1>2
    <3>3. Bound(f, 0, 0)
      BY <1>3, <3>2, BoundLower
    <3>. QED BY <1>3, <3>1, <3>3
  <2>. QED BY <2>1, <2>2
<1> HIDE DEF e
<1>5. /\ Good(v) /\ v.lost = e.lost /\ \A w : Has(v, w) <=> Has(e, w)
      /\ Bound(v, -1, -1)
  <2>1. e \in Driver
    BY <1>4 DEF Good
  <2>2. PICK t \in {0, 1} : Later(e, v, t)
    <3>1. Later(e, v, 0) \/ Later(e, v, 1)
      BY <2>1, UpdateVarTime
    <3>. QED BY <3>1
  <2>3. /\ Good(v) /\ \A w : Has(v, w) <=> Has(e, w)
        /\ \A x, y \in Int : Bound(e, x, y) => Bound(v, x - t, y - t)
    BY <1>4, <2>2, LaterKeeps
  <2>4. Bound(v, 0 - t, 0 - t)
    BY <1>4, <2>3
  <2>5. 0 - t \in Int /\ -1 \in Int /\ -1 <= 0 - t
    OBVIOUS
  <2>6. Bound(v, -1, -1)
    BY <2>3, <2>4, <2>5, BoundLower
  <2>7. v.lost = e.lost
    BY <2>2 DEF Later
  <2>. QED BY <2>3, <2>6, <2>7
<1>6. /\ Good(u) /\ u.lost = v.lost /\ u.main = v.main /\ u.var = v.var /\ ~Pending(u)
      /\ u.timers = v.timers /\ u.n = v.n
      /\ \A w : Has(u, w) <=> Has(v, w)
      /\ Bound(u, -1, -1)
  BY <1>0, <1>5, ClearedEffect, ZenonT(30)
<1>7. \A m : Prompt(u, m)
  <2>1. u.main \in 1 .. INTERVAL /\ u.main \in Int
    BY <1>6, GoodFields
  <2>2. /\ -1 \in Int /\ u.main - 1 - INTERVAL \in Int /\ u.main - 1 - INTERVAL <= -1
    BY <1>1, <2>1
  <2>3. Bound(u, u.main - 1 - INTERVAL, u.main - 1 - INTERVAL)
    BY <1>6, <2>2, BoundLower
  <2>. QED BY <1>6, <2>3 DEF Prompt
<1>8. ASSUME ~SLOW PROVE Punctual(u)
  <2>1. d1 = "no" /\ d2 = "no"
    BY <1>8, LapseFacts
  <2>2. ahead + 1 = 1
    BY <1>2, <2>1
  <2>3. Bound(e, 1, 1)
    BY <1>3, <1>4, <2>1, <2>2
  <2>4. Later(e, v, 0) /\ v.timers = e.timers /\ Programmed(e, v)
    <3>1. e \in Driver
      BY <1>4 DEF Good
    <3>. QED BY <2>1, <3>1, UpdateVarEffect
  <2>5. u.timers = e.timers /\ u.n = e.n
    BY <1>6, <2>4 DEF Later
  <2>6. Bound(u, 0, 0)
    BY <1>4, <2>5, Zenon DEF Bound
  <2>7. ASSUME u.n > 0
        PROVE  IF u.var.on THEN u.var.left = u.timers[1].left /\ u.var.left >= 1
               ELSE u.timers[1].left > u.main
    <3>1. 1 \in 1 .. e.n /\ e.timers[1].left \in Int /\ e.timers[1].registered
      BY <1>4, <2>5, <2>7, GoodFields
    <3>2. e.timers[1].left >= 1
      BY <2>3, <3>1 DEF Bound
    <3>3. u.main \in 1 .. INTERVAL /\ u.main \in Int
      BY <1>6, GoodFields
    <3>4. CASE e.timers[1].left \in 0 .. INTERVAL
      <4>1. v.var.on /\ v.var.left = e.timers[1].left
        BY <2>4, <3>1, <3>4 DEF Programmed
      <4>. QED BY <1>6, <2>5, <3>2, <4>1
    <3>5. CASE e.timers[1].left > INTERVAL
      <4>1. ~v.var.on
        BY <2>4, <3>1, <3>5 DEF Programmed
      <4>2. e.timers[1].left > u.main
        BY <1>1, <3>1, <3>3, <3>5
      <4>. QED BY <1>6, <2>5, <4>1, <4>2
    <3>6. e.timers[1].left \in 0 .. INTERVAL \/ e.timers[1].left > INTERVAL
      BY <1>1, <3>1, <3>2
    <3>. QED BY <3>4, <3>5, <3>6, Zenon
  <2>. QED BY <2>6, <2>7 DEF Punctual
<1>9. \A w : Has(u, w) <=> Has(f, w)
  BY <1>4, <1>5, <1>6, Zenon
<1>10. u.lost = f.lost
  BY <1>4, <1>5, <1>6
<1>. QED BY <1>2, <1>3, <1>6, <1>7, <1>8, <1>9, <1>10, Zenon DEF Answered

\* A unit of time passes when no interrupt is pending: no timer ends without one.
LEMMA PassPunctual ==
  ASSUME NEW c, Good(c), Punctual(c), ~Pending(c), NEW u, u = Pass(c)
  PROVE  Punctual(u)
<1>1. /\ c \in Driver /\ c.n \in Nat /\ c.main \in 1 .. INTERVAL /\ c.main \in Int
      /\ c.sr1 \in BOOLEAN /\ c.sr2 \in BOOLEAN /\ INTERVAL \in Int
      /\ c.n > 0 => 1 \in 1 .. c.n /\ c.timers[1].left \in Int /\ c.timers[1].registered
  BY GoodFields
<1>2. Later(c, u, 1) /\ Ticked(c, u)
  BY <1>1, PassEffect
<1>3. \A x, y \in Int : Bound(c, x, y) => Bound(u, x - 1, y - 1)
  BY <1>2, LaterKeeps
<1>4. c.n > 0 => /\ IF c.var.on THEN c.var.left = c.timers[1].left /\ c.var.left >= 1
                    ELSE c.timers[1].left > c.main
                 /\ c.timers[1].left >= 1
  BY <1>1 DEF Punctual
<1>5. Bound(c, 1, 1)
  <2> SUFFICES ASSUME NEW i \in 1 .. c.n PROVE c.timers[i].left >= 1
    BY DEF Bound
  <2>1. c.n > 0 /\ i \in Nat /\ i >= 1
    BY <1>1
  <2>2. c.timers[i].left \in Int
    BY <1>1, TimerFields
  <2>3. c.timers[1].left <= c.timers[i].left
    <3>1. CASE i = 1
      BY <2>2, <3>1
    <3>2. CASE i # 1
      <4>1. 1 < i /\ 1 \in 1 .. c.n
        BY <1>1, <2>1, <3>2
      <4>. QED BY <4>1 DEF Good, Sorted
    <3>. QED BY <3>1, <3>2
  <2>. QED BY <1>1, <1>4, <2>1, <2>2, <2>3
<1>6. Bound(u, 0, 0)
  <2>1. 1 \in Int /\ 1 - 1 = 0
    OBVIOUS
  <2>. QED BY <1>3, <1>5, <2>1
<1>7. ASSUME ~Pending(u), u.n > 0
      PROVE  IF u.var.on THEN u.var.left = u.timers[1].left /\ u.var.left >= 1
             ELSE u.timers[1].left > u.main
  <2>1. c.n > 0 /\ u.timers[1].left = c.timers[1].left - 1
    BY <1>1, <1>2, <1>7 DEF Later
  <2>2. ~u.sr1 /\ ~u.sr2
    BY <1>7 DEF Pending
  <2>3. c.main # 1 /\ ~(c.var.on /\ c.var.left <= 1) /\ u.main = c.main - 1 /\ u.var.on = c.var.on
    <3>1. u.sr1 = (c.sr1 \/ c.main = 1) /\ u.sr2 = (c.sr2 \/ (c.var.on /\ c.var.left <= 1))
      BY <1>2 DEF Ticked
    <3>2. c.main # 1 /\ ~(c.var.on /\ c.var.left <= 1)
      BY <2>2, <3>1, Zenon
    <3>. QED BY <1>2, <3>2 DEF Ticked
  <2>4. CASE c.var.on
    <3>1. u.var.left = c.var.left - 1
      BY <1>2, <2>3, <2>4 DEF Ticked
    <3>2. c.var.left = c.timers[1].left /\ ~(c.var.left <= 1) /\ c.timers[1].left \in Int
      BY <1>1, <1>4, <2>1, <2>3, <2>4
    <3>. QED BY <2>1, <2>3, <2>4, <3>1, <3>2
  <2>5. CASE ~c.var.on
    <3>1. c.timers[1].left > c.main /\ c.timers[1].left \in Int
      BY <1>1, <1>4, <2>1, <2>5
    <3>2. u.timers[1].left > u.main
      BY <1>1, <2>1, <2>3, <3>1
    <3>3. ~u.var.on
      BY <2>3, <2>5
    <3>. QED BY <3>2, <3>3
  <2>. QED BY <2>4, <2>5
<1>. QED BY <1>6, <1>7 DEF Punctual

\* remove_timer.  A timer that was not the client's counts as lost.
LEMMA RemoveKeeps ==
  ASSUME NEW c, Good(c), NEW id, NEW u, u = remove_timer(c, id)
  PROVE  /\ Good(u) /\ (c.lost => u.lost)
         /\ \A w : Has(u, w) => Has(c, w)
         /\ ~u.lost => \A w : Has(c, w) /\ w # CLIENT => Has(u, w)
         /\ \A m \in Nat : Prompt(c, m) => Prompt(u, m)
         /\ Punctual(c) => Punctual(u)
<1>1. c \in Driver /\ c.main \in Int /\ INTERVAL \in Int /\ c.lost \in BOOLEAN
  BY GoodFields, DriverFields
<1>2. CASE u = c
  BY <1>2
<1>3. ASSUME NEW k \in 1 .. c.n, NEW b \in Driver, Removed(c, b, k), u = UpdateVar(b, "no"),
             b.lost = (c.lost \/ c.timers[k].who # CLIENT),
             b.main = c.main, b.sr1 = c.sr1, b.sr2 = c.sr2
      PROVE  /\ Good(u) /\ (c.lost => u.lost)
             /\ \A w : Has(u, w) => Has(c, w)
             /\ ~u.lost => \A w : Has(c, w) /\ w # CLIENT => Has(u, w)
             /\ \A m \in Nat : Prompt(c, m) => Prompt(u, m)
             /\ Punctual(c) => Punctual(u)
  <2>1. /\ Good(b)
        /\ \A w : Has(b, w) => Has(c, w)
        /\ \A w : Has(c, w) => Has(b, w) \/ w = c.timers[k].who
        /\ \A x, y \in Int : Bound(c, x, y) => Bound(b, x, y)
    BY <1>3, RemovedKeeps
  <2>2. /\ Good(u) /\ u.lost = b.lost /\ \A w : Has(u, w) <=> Has(b, w)
        /\ \A m \in Nat : Prompt(b, m) => Prompt(u, m)
        /\ Bound(b, 0, 0) => Punctual(u)
    BY <1>3, <2>1, UpdateKeeps
  <2>3. ASSUME NEW m \in Nat, Prompt(c, m) PROVE Prompt(b, m)
    <3>1. Pending(b) <=> Pending(c)
      BY <1>3 DEF Pending
    <3>2. /\ -INTERVAL - m \in Int /\ -INTERVAL - m - 1 \in Int
          /\ c.main - 1 - INTERVAL \in Int
      BY <1>1
    <3>. QED BY <1>3, <2>1, <2>3, <3>1, <3>2 DEF Prompt
  <2>4. ASSUME Punctual(c) PROVE Punctual(u)
    <3>1. Bound(c, 0, 0) /\ 0 \in Int
      BY <2>4 DEF Punctual
    <3>. QED BY <2>1, <2>2, <3>1
  <2>5. (c.lost => u.lost) /\ (~u.lost => c.timers[k].who = CLIENT)
    BY <1>3, <2>2, Zenon
  <2>6. \A m \in Nat : Prompt(c, m) => Prompt(u, m)
    BY <2>2, <2>3
  <2>. QED BY <2>1, <2>2, <2>4, <2>5, <2>6, Zenon
<1>. QED
  <2>1. \/ u = c
        \/ \E k \in 1 .. c.n, b \in Driver :
               /\ Removed(c, b, k) /\ u = UpdateVar(b, "no")
               /\ b.lost = (c.lost \/ c.timers[k].who # CLIENT)
               /\ b.main = c.main /\ b.sr1 = c.sr1 /\ b.sr2 = c.sr2
    BY <1>1, RemoveEffect
  <2>. QED BY <1>2, <1>3, <2>1, Zenon

-----------------------------------------------------------------------------
(* The steps.  What they need to know of Waiting is shown at the end, from  *)
(* a theory of finite sets.                                                *)

\* A unit of time passes while no handler runs.
LEMMA TickKeeps ==
  ASSUME IInv, Tick, Waiting(st) \in Nat, \A p \in Proc : st[p] # "run" => Waiting(st) >= 1
  PROVE  IInv'
<1>1. ck' = Pass(ck) /\ st' = st /\ held' = held /\ ~Pending(ck)
  BY DEF Tick, Pending
<1>2. Good(ck) /\ Owners(ck, st) /\ Served(ck, st)
  BY DEF IInv
<1>3. Later(ck, ck', 1)
  BY <1>1, <1>2, PassEffect DEF Good
<1>4. Good(ck') /\ ck'.lost = ck.lost /\ \A w : Has(ck', w) <=> Has(ck, w)
  <2>1. Good(ck') /\ \A w : Has(ck', w) <=> Has(ck, w)
    BY <1>2, <1>3, LaterKeeps
  <2>. QED BY <1>3, <2>1 DEF Later
<1>5. ASSUME SLOW PROVE Prompt(ck', Waiting(st))
  <2>1. Prompt(ck, Waiting(st)) /\ Waiting(st) \in Nat
    BY <1>5 DEF IInv
  <2>2. (\E p \in Proc : Has(ck, p)) => Waiting(st) >= 1
    BY <1>2 DEF Owners
  <2>. QED BY <1>1, <1>2, <2>1, <2>2, PassPrompt
<1>6. ASSUME ~SLOW PROVE Punctual(ck')
  <2>1. Punctual(ck)
    BY <1>6 DEF IInv
  <2>. QED BY <1>1, <1>2, <2>1, PassPunctual
<1>7. Owners(ck', st) /\ Served(ck', st)
  BY <1>2, <1>4, Zenon DEF Owners, Served
<1>8. /\ st \in [Proc -> {"run", "sleep", "dead"}] /\ held \in 0 .. N
  BY DEF IInv
<1>. QED BY <1>1, <1>4, <1>5, <1>6, <1>7, <1>8 DEF IInv

\* timer_interrupt: the processes that are called back wake up and no others lose a timer.
LEMMA TimerInterruptKeeps ==
  ASSUME IInv, NEW d1 \in Lapse, NEW d2 \in Lapse, timer_interrupt(d1, d2)
  PROVE  IInv'
<1>1. Good(ck) /\ Owners(ck, st) /\ Served(ck, st)
  BY DEF IInv
<1>2. PICK calls :
        /\ calls = Called(ck, d1) /\ ck' = Handled(ck, d1, d2)
        /\ st' = [p \in Proc |-> IF p \in calls /\ st[p] = "sleep" THEN "run" ELSE st[p]]
        /\ held' = IF CLIENT \in calls THEN 0 ELSE held
  BY Zenon DEF timer_interrupt, Callees, Called, Handled
<1>3. /\ Good(ck') /\ (ck.lost => ck'.lost)
      /\ \A w \in Proc : Has(ck', w) <=> Has(ck, w) /\ w \notin calls
      /\ ~ck'.lost /\ Has(ck, NFS) => Has(ck', NFS)
      /\ \A m : Prompt(ck', m)
      /\ ~SLOW => Punctual(ck')
  <2>1. Answered(ck, ck', calls)
    BY <1>1, <1>2, InterruptKeeps
  <2>. QED BY <2>1, Zenon DEF Answered
<1>4. st' \in [Proc -> {"run", "sleep", "dead"}]
  BY <1>2 DEF IInv
<1>5. held' \in 0 .. N
  BY <1>2, Constants DEF IInv
<1>6. Owners(ck', st')
  BY <1>1, <1>2, <1>3 DEF Owners
<1>7. Served(ck', st')
  <2> SUFFICES ASSUME ~ck'.lost
               PROVE  Has(ck', NFS) /\ \A p \in Proc : st'[p] = "sleep" => Has(ck', p)
    BY DEF Served
  <2>1. Has(ck, NFS) /\ \A p \in Proc : st[p] = "sleep" => Has(ck, p)
    BY <1>1, <1>3 DEF Served
  <2>. QED BY <1>2, <1>3, <2>1
<1>. QED BY <1>3, <1>4, <1>5, <1>6, <1>7 DEF IInv

\* serv_sys_sleep: the caller has no timer, as the one of an earlier call has woken it.
LEMMA SleepKeeps ==
  ASSUME IInv, NEW p \in Proc, NEW delay \in Delay, NEW d \in Lapse, serv_sys_sleep(p, delay, d),
         Waiting(st) \in Nat, Waiting(st') = Waiting(st) + 1
  PROVE  IInv'
<1>1. /\ Good(ck) /\ Owners(ck, st) /\ Served(ck, st)
      /\ st \in [Proc -> {"run", "sleep", "dead"}] /\ held \in 0 .. N
  BY DEF IInv
<1>2. /\ st[p] = "run" /\ ck' = register_timer(ck, delay, p, d)
      /\ st' = [st EXCEPT ![p] = "sleep"] /\ held' = held
  BY DEF serv_sys_sleep
<1>3. ~Has(ck, p) /\ p \in Caller /\ delay \in Nat
  BY <1>1, <1>2, Constants DEF Owners, Caller
<1>4. /\ Good(ck') /\ (ck.lost => ck'.lost)
      /\ \A w : Has(ck', w) => Has(ck, w) \/ w = p
      /\ ~ck'.lost => \A w : Has(ck, w) \/ w = p => Has(ck', w)
      /\ \A m \in Nat : Prompt(ck, m) => Prompt(ck', m + 1) /\ (d = "no" => Prompt(ck', m))
      /\ d = "no" /\ Punctual(ck) => Punctual(ck')
  <2>1. Admitted(ck, ck', p, d)
    BY <1>1, <1>2, <1>3, RegisterKeeps
  <2>. QED BY <2>1, Zenon DEF Admitted
<1>6. SLOW => Prompt(ck', Waiting(st'))
  BY <1>4 DEF IInv
<1>7. ~SLOW => Punctual(ck')
  BY <1>4, LapseFacts DEF IInv
<1>8. st' \in [Proc -> {"run", "sleep", "dead"}] /\ st'[p] = "sleep"
      /\ \A q \in Proc : q # p => st'[q] = st[q]
  BY <1>1, <1>2
<1>9. Owners(ck', st')
  BY <1>1, <1>4, <1>8 DEF Owners
<1>10. Served(ck', st')
  BY <1>1, <1>4, <1>8 DEF Served
<1>. QED BY <1>1, <1>2, <1>4, <1>6, <1>7, <1>8, <1>9, <1>10 DEF IInv

\* A process is destroyed while it sleeps: its timer stays.
LEMMA KillKeeps ==
  ASSUME IInv, NEW p \in Proc, Kill(p)
  PROVE  IInv'
<1>1. /\ Good(ck) /\ Owners(ck, st) /\ Served(ck, st)
      /\ st \in [Proc -> {"run", "sleep", "dead"}] /\ held \in 0 .. N
  BY DEF IInv
<1>2. st[p] = "sleep" /\ st' = [st EXCEPT ![p] = "dead"] /\ ck' = ck /\ held' = held
  BY DEF Kill
<1>3. st' \in [Proc -> {"run", "sleep", "dead"}]
  BY <1>1, <1>2
<1>4. \A q \in Proc : (st'[q] # "run" <=> st[q] # "run") /\ (st'[q] = "sleep" => st[q] = "sleep")
  BY <1>1, <1>2
<1>5. {q \in Proc : st'[q] # "run"} = {q \in Proc : st[q] # "run"}
  BY <1>4
<1>6. Waiting(st') = Waiting(st)
  BY <1>5 DEF Waiting
<1>7. Owners(ck, st') /\ Served(ck, st')
  BY <1>1, <1>4 DEF Owners, Served
<1>8. (SLOW => Prompt(ck, Waiting(st))) /\ (~SLOW => Punctual(ck))
  BY DEF IInv
<1>. QED BY <1>1, <1>2, <1>3, <1>6, <1>7, <1>8 DEF IInv

\* What a step of the client leaves, which is no process.
LEMMA ClientKeeps ==
  ASSUME IInv, Waiting(st) \in Nat, st' = st, held' \in 0 .. N, Good(ck'), ck.lost => ck'.lost,
         \A w : Has(ck', w) => Has(ck, w) \/ w = CLIENT,
         ~ck'.lost => \A w : Has(ck, w) /\ w # CLIENT => Has(ck', w),
         \A m \in Nat : Prompt(ck, m) => Prompt(ck', m),
         Punctual(ck) => Punctual(ck')
  PROVE  IInv'
<1>1. Owners(ck, st) /\ Served(ck, st) /\ st \in [Proc -> {"run", "sleep", "dead"}]
  BY DEF IInv
<1>2. \A p \in Proc : p # CLIENT
  BY Constants
<1>3. NFS # CLIENT
  BY DEF NFS, CLIENT
<1>4. Owners(ck', st)
  BY <1>1, <1>2 DEF Owners
<1>5. Served(ck', st)
  BY <1>1, <1>2, <1>3 DEF Served
<1>7. SLOW => Prompt(ck', Waiting(st))
  BY DEF IInv
<1>8. ~SLOW => Punctual(ck')
  BY DEF IInv
<1>. QED BY <1>1, <1>4, <1>5, <1>7, <1>8 DEF IInv

\* The client registers a timer, which takes no time.
LEMMA ClientRegistersKeeps ==
  ASSUME IInv, Waiting(st) \in Nat, NEW delay \in Delay, ClientRegisters(delay)
  PROVE  IInv'
<1>1. /\ held' = Registered(ck) /\ ck' = register_timer(ck, delay, CLIENT, "no") /\ st' = st
      /\ Good(ck)
  BY DEF IInv, ClientRegisters
<1>2. delay \in Nat /\ CLIENT \in Caller /\ "no" \in Lapse
  BY Constants DEF Caller, Lapse
<1>3. /\ Good(ck') /\ (ck.lost => ck'.lost)
      /\ \A w : Has(ck', w) => Has(ck, w) \/ w = CLIENT
      /\ ~ck'.lost => \A w : Has(ck, w) \/ w = CLIENT => Has(ck', w)
      /\ \A m \in Nat : Prompt(ck, m) => Prompt(ck', m)
      /\ Punctual(ck) => Punctual(ck')
  <2>1. Admitted(ck, ck', CLIENT, "no")
    BY <1>1, <1>2, RegisterKeeps
  <2>. QED BY <2>1, Zenon DEF Admitted
<1>4. held' \in 0 .. N
  <2>1. CASE ck.n = N
    BY <1>1, <2>1, Constants DEF Registered
  <2>2. CASE ck.n # N
    <3>1. ck \in Driver /\ ck.n \in 0 .. N /\ ck.timers \in [Index -> Timer]
      BY <1>1, DriverFields DEF Good
    <3>2. ck.n + 1 \in Index
      BY <2>2, <3>1, Constants DEF Index
    <3>3. ck.timers[ck.n + 1].id \in Index
      BY <3>1, <3>2, Zenon DEF Timer
    <3>. QED BY <1>1, <2>2, <3>3, Constants DEF Registered, Index
  <2>. QED BY <2>1, <2>2
<1>. QED BY <1>1, <1>3, <1>4, ClientKeeps

\* The client removes a timer.
LEMMA ClientRemovesKeeps ==
  ASSUME IInv, Waiting(st) \in Nat, ClientRemoves
  PROVE  IInv'
<1>1. ck' = remove_timer(ck, held) /\ held' = 0 /\ st' = st /\ Good(ck)
  BY DEF IInv, ClientRemoves
<1>2. /\ Good(ck') /\ (ck.lost => ck'.lost)
      /\ \A w : Has(ck', w) => Has(ck, w)
      /\ ~ck'.lost => \A w : Has(ck, w) /\ w # CLIENT => Has(ck', w)
      /\ \A m \in Nat : Prompt(ck, m) => Prompt(ck', m)
      /\ Punctual(ck) => Punctual(ck')
  BY <1>1, RemoveKeeps
<1>3. held' \in 0 .. N
  BY <1>1, Constants
<1>. QED BY <1>1, <1>2, <1>3, ClientKeeps

\* start_timer and nfs_dev_setup_timeout.
LEMMA InitIInv ==
  ASSUME Init, Waiting(st) \in Nat
  PROVE  IInv
<1>1. ck = register_timer(start_timer, INTERVAL, NFS, "no") /\ st = [p \in Proc |-> "run"] /\ held = 0
  BY DEF Init
<1> DEFINE c == start_timer
<1>2. /\ c \in Driver /\ c.n = 0 /\ c.main = INTERVAL /\ ~c.sr1 /\ ~c.sr2 /\ ~c.lost
  <2>1. /\ 0 \in Int /\ 0 \in 0 .. (WORD - 1) /\ 0 \in 0 .. N /\ INTERVAL \in 1 .. INTERVAL
    BY Constants
  <2>2. OFF \in Var
    BY <2>1, Zenon DEF OFF, Var
  <2>3. \A i \in Index : [id |-> i, left |-> 0, due |-> 0, who |-> NOBODY, registered |-> FALSE] \in Timer
    BY <2>1, Zenon DEF Timer
  <2>. QED BY <2>1, <2>2, <2>3, Zenon DEF start_timer, Driver
<1> HIDE DEF c
<1>3. 1 .. c.n = {}
  BY <1>2
<1>4. /\ Good(c) /\ (\A w : ~Has(c, w)) /\ ~Pending(c) /\ \A x, y : Bound(c, x, y)
  BY <1>2, <1>3, Zenon DEF Good, Sorted, Single, Has, Pending, Bound
<1>5. (\A m \in Nat : Prompt(c, m)) /\ Punctual(c)
  BY <1>2, <1>4 DEF Prompt, Punctual
<1>6. INTERVAL \in Nat /\ NFS \in Caller /\ "no" \in Lapse
  BY Constants DEF Caller, Lapse
<1>7. /\ Good(ck)
      /\ \A w : Has(ck, w) => Has(c, w) \/ w = NFS
      /\ ~ck.lost => \A w : Has(c, w) \/ w = NFS => Has(ck, w)
      /\ \A m \in Nat : Prompt(c, m) => Prompt(ck, m)
      /\ Punctual(c) => Punctual(ck)
  <2>1. ck = register_timer(c, INTERVAL, NFS, "no") /\ (NFS = CLIENT \/ ~Has(c, NFS))
    BY <1>1, <1>4 DEF c
  <2>2. Admitted(c, ck, NFS, "no")
    BY <1>4, <1>6, <2>1, RegisterKeeps
  <2>. QED BY <2>2, Zenon DEF Admitted
<1>8. Owners(ck, st) /\ Served(ck, st)
  <2>1. \A p \in Proc : ~Has(ck, p) /\ st[p] # "sleep"
    BY <1>1, <1>4, <1>7, Constants
  <2>. QED BY <1>7, <2>1 DEF Owners, Served
<1>9. st \in [Proc -> {"run", "sleep", "dead"}] /\ held \in 0 .. N
  BY <1>1, Constants
<1>. QED BY <1>5, <1>7, <1>8, <1>9 DEF IInv

-----------------------------------------------------------------------------
(* The theorems.                                                           *)

INSTANCE FiniteSetTheorems

\* The processes that wait are counted.
LEMMA WaitingFacts ==
  ASSUME NEW s
  PROVE  /\ Waiting(s) \in Nat /\ Waiting(s) <= Cardinality(Proc)
         /\ \A p \in Proc : s[p] # "run" => Waiting(s) >= 1
<1> DEFINE W == {p \in Proc : s[p] # "run"}
<1>1. IsFiniteSet(Proc) /\ W \subseteq Proc
  BY ClockAssumption
<1>2. IsFiniteSet(W) /\ Cardinality(W) <= Cardinality(Proc)
  BY <1>1, FS_Subset
<1>3. Cardinality(W) \in Nat
  BY <1>2, FS_CardinalityType
<1>4. ASSUME NEW p \in Proc, s[p] # "run" PROVE Cardinality(W) >= 1
  <2>1. W # {}
    BY <1>4
  <2>2. Cardinality(W) # 0
    BY <1>2, <2>1, FS_EmptySet
  <2>. QED BY <1>3, <2>2
<1>. QED BY <1>2, <1>3, <1>4 DEF Waiting

\* A process that makes a call is one more.
LEMMA WaitingOneMore ==
  ASSUME NEW s \in [Proc -> {"run", "sleep", "dead"}], NEW p \in Proc, s[p] = "run",
         NEW t, t = [s EXCEPT ![p] = "sleep"]
  PROVE  Waiting(t) = Waiting(s) + 1
<1> DEFINE W == {q \in Proc : s[q] # "run"}
           V == {q \in Proc : t[q] # "run"}
<1>1. IsFiniteSet(Proc) /\ W \subseteq Proc
  BY ClockAssumption
<1>2. IsFiniteSet(W)
  BY <1>1, FS_Subset
<1>3. p \notin W /\ V = W \cup {p}
  OBVIOUS
<1>4. Cardinality(V) = Cardinality(W) + 1
  <2> HIDE DEF V, W
  <2>. QED BY <1>2, <1>3, FS_AddElement, Zenon
<1>. QED BY <1>4 DEF Waiting

\* Every step keeps the invariant.
LEMMA NextIInv == IInv /\ [Next]_vars => IInv'
<1> SUFFICES ASSUME IInv, [Next]_vars PROVE IInv'
  OBVIOUS
<1>0. Waiting(st) \in Nat /\ \A p \in Proc : st[p] # "run" => Waiting(st) >= 1
  BY WaitingFacts
<1>1. CASE Tick
  BY <1>0, <1>1, TickKeeps
<1>2. CASE Interrupt
  BY <1>2, TimerInterruptKeeps DEF Interrupt
<1>3. ASSUME NEW p \in Proc, Kill(p) PROVE IInv'
  BY <1>3, KillKeeps
<1>4. ASSUME NEW p \in Proc, NEW delay \in Delay, NEW d \in Lapse, serv_sys_sleep(p, delay, d)
      PROVE  IInv'
  <2>1. st \in [Proc -> {"run", "sleep", "dead"}]
    BY DEF IInv
  <2>2. st[p] = "run" /\ st' = [st EXCEPT ![p] = "sleep"]
    BY <1>4 DEF serv_sys_sleep
  <2>3. Waiting(st') = Waiting(st) + 1
    BY <2>1, <2>2, WaitingOneMore, Zenon
  <2>. QED BY <1>0, <1>4, <2>3, SleepKeeps
<1>5. ASSUME NEW delay \in Delay, ClientRegisters(delay) PROVE IInv'
  BY <1>0, <1>5, ClientRegistersKeeps
<1>6. CASE ClientRemoves
  BY <1>0, <1>6, ClientRemovesKeeps
<1>7. CASE UNCHANGED vars
  BY <1>7 DEF vars, IInv
<1>. QED BY <1>1, <1>2, <1>3, <1>4, <1>5, <1>6, <1>7 DEF Next

\* The invariant of the timer driver: timers are sorted by the time they end, each is the only
\* one of its owner, who waits for it, and the hardware timers interrupt in time for them.
THEOREM AlwaysIInv == Spec => []IInv
<1>1. Init => IInv
  BY InitIInv, WaitingFacts
<1>. QED BY <1>1, NextIInv, PTL DEF Spec

\* _ntimers never leaves the array and both hardware timers keep to the range of their
\* registers, whatever the processes and the client register, remove and wait for.
THEOREM ClockTypes == Spec => []TypeOK
<1>1. IInv => TypeOK
  <2> SUFFICES ASSUME IInv PROVE TypeOK
    OBVIOUS
  <2>1. ck \in Driver /\ st \in [Proc -> {"run", "sleep", "dead"}] /\ held \in 0 .. N
    BY DEF IInv, Good
  <2>2. /\ ck.timers \in [Index -> Timer] /\ ck.n \in 0 .. N /\ ck.main \in 1 .. INTERVAL
        /\ ck.sr1 \in BOOLEAN /\ ck.sr2 \in BOOLEAN /\ ck.lost \in BOOLEAN /\ ck.var \in Var
    BY <2>1, DriverFields
  <2>3. \A i \in Index : /\ ck.timers[i].id \in Index
                         /\ ck.timers[i].who \in Caller \cup {NOBODY}
                         /\ ck.timers[i].left \in Int /\ ck.timers[i].due \in Int
                         /\ ck.timers[i].registered \in BOOLEAN
    BY <2>2, Zenon DEF Timer
  <2>. QED BY <2>1, <2>2, <2>3, Zenon DEF TypeOK, Var
<1>. QED BY <1>1, AlwaysIInv, PTL

\* A process that sleeps has exactly one timer, and so has NFS, until a timer is lost: also
\* when _check_timeout calls back the handler of NFS, which registers a timer in the array it
\* walks over.
THEOREM OneTimerForEach == Spec => []OneTimerEach
<1>1. IInv => OneTimerEach
  <2> SUFFICES ASSUME IInv, ~ck.lost, NEW w \in {NFS} \cup {p \in Proc : st[p] = "sleep"}
               PROVE  Cardinality({i \in 1 .. ck.n : ck.timers[i].who = w}) = 1
    BY DEF OneTimerEach
  <2>1. Has(ck, w) /\ w # CLIENT
    <3>1. NFS # CLIENT /\ CLIENT \notin Proc
      BY Constants DEF NFS, CLIENT
    <3>2. Served(ck, st)
      BY DEF IInv
    <3>. QED BY <3>1, <3>2 DEF Served
  <2>2. PICK i \in 1 .. ck.n : ck.timers[i].who = w
    BY <2>1 DEF Has
  <2>3. Single(ck)
    BY DEF IInv, Good
  <2>4. {j \in 1 .. ck.n : ck.timers[j].who = w} = {i}
    BY <2>1, <2>2, <2>3, Zenon DEF Single
  <2>. QED BY <2>4, FS_Singleton, Zenon
<1>. QED BY <1>1, AlwaysIInv, PTL

\* No timer is called back later than LATEST after the delay it was asked for: on time if the
\* handlers take no time, and otherwise within two intervals of EPIT1 and the time the calls of
\* the other processes take, however time_stamp() is torn.
THEOREM NoTimerIsLate == Spec => []NoTimerLate
<1>1. IInv => NoTimerLate
  <2> SUFFICES ASSUME IInv, NEW i \in 1 .. ck.n PROVE ck.timers[i].due >= -LATEST
    BY DEF NoTimerLate
  <2>1. Good(ck)
    BY DEF IInv
  <2>2. ck \in Driver /\ ck.main \in 1 .. INTERVAL /\ ck.main \in Int /\ INTERVAL \in Int
    BY <2>1, GoodFields
  <2>3. ck.timers[i].left \in Int /\ ck.timers[i].due \in Int /\ Timely(ck.timers[i])
    BY <2>1, <2>2, TimerFields DEF Good
  <2>4. CASE ~SLOW
    <3>1. ck.timers[i].left >= 0
      BY <2>4 DEF IInv, Punctual, Bound
    <3>2. ck.timers[i].due = ck.timers[i].left
      BY <2>3, <2>4 DEF Timely
    <3>3. LATEST = 0
      BY <2>4 DEF LATEST
    <3>. QED BY <2>3, <3>1, <3>2, <3>3
  <2>5. CASE SLOW
    <3> DEFINE m == Waiting(st)
               C == Cardinality(Proc)
               t == ck.timers[i]
    <3>1. m \in Nat /\ C \in Nat /\ m <= C /\ INTERVAL >= 2
      <4>1. C \in Nat
        BY ClockAssumption, FS_CardinalityType
      <4>. QED BY <4>1, WaitingFacts, Constants
    <3>2. LATEST = 2 * INTERVAL + C - 1
      BY <2>5 DEF LATEST
    <3>3. Prompt(ck, m)
      BY <2>5 DEF IInv
    <3> HIDE DEF m, C
    <3>4. IF t.who \in Proc THEN t.left >= -INTERVAL - m ELSE t.left >= -INTERVAL - m - 1
      <4>1. CASE Pending(ck)
        BY <3>3, <4>1 DEF Prompt, Bound
      <4>2. CASE ~Pending(ck)
        <5>1. t.left >= ck.main - 1 - INTERVAL
          BY <3>3, <4>2 DEF Prompt, Bound
        <5>2. t.left \in Int
          BY <2>3
        <5> HIDE DEF t
        <5>. QED BY <2>2, <3>1, <5>1, <5>2
      <4>. QED BY <4>1, <4>2
    <3>5. IF t.who \in Proc THEN t.due >= t.left - (INTERVAL - 1) ELSE t.due = t.left
      BY <2>3, <2>5 DEF Timely
    <3>6. t.left \in Int /\ t.due \in Int
      BY <2>3
    <3>7. t.due >= -(2 * INTERVAL + C - 1)
      <4> HIDE DEF t
      <4>1. CASE t.who \in Proc
        BY <2>2, <3>1, <3>4, <3>5, <3>6, <4>1
      <4>2. CASE t.who \notin Proc
        BY <2>2, <3>1, <3>4, <3>5, <3>6, <4>2
      <4>. QED BY <4>1, <4>2
    <3>. QED BY <3>2, <3>7
  <2>. QED BY <2>4, <2>5
<1>. QED BY <1>1, AlwaysIInv, PTL
=============================================================================
