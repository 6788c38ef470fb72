------------------------------- MODULE Clock --------------------------------
(***************************************************************************)
(* The timer driver (dev/clock.c) with its two users: the sleep system     *)
(* call (time_syscalls.c) and the retransmission timer of NFS (nfs_dev.c). *)
(*                                                                         *)
(* The driver keeps an array of timers ordered by the time they end.  EPIT1*)
(* interrupts every INTERVAL; EPIT2 is programmed for the first timer when *)
(* that ends within INTERVAL.  Both reload themselves (EPIT_CR_RLD).       *)
(*                                                                         *)
(* Times are kept relative to the present: `left' is endtime - time_stamp()*)
(* so a passing unit of time takes one from each.  What clock.c does not   *)
(* say about the hardware: an interrupt is taken before another unit of    *)
(* time passes, and if SLOW a unit of time may pass at every time_stamp()  *)
(* of a handler, after it or between its reads of EPIT1's counter and of   *)
(* EPIT1's overflow flag.                                                  *)
(***************************************************************************)
EXTENDS Integers, FiniteSets

CONSTANTS
    N,          \* CLOCK_N_TIMERS
    INTERVAL,   \* CLOCK_INT_MICROSEC, which is also the delay of the NFS timer
    WORD,       \* range of the load register of EPIT2
    Delay,      \* the delays processes sleep for
    SLOW,       \* TRUE if time passes while a handler runs
    Proc,
    Clients     \* TRUE if there is a user that calls remove_timer

VARIABLES
    ck,     \* the driver: timers, n (_ntimers), main, sr1 (EPIT1), var, sr2 (EPIT2); and lost,
            \* a ghost: a timer was lost for want of room, or removed by an id it shared
    st,     \* what each process does: run, sleep or dead
    held    \* the id the client got from register_timer, 0 if none

vars == <<ck, st, held>>

Index == 1 .. N
NFS    == "nfs"         \* _nfs_dev_timeout_handler
CLIENT == "client"
NOBODY == "nobody"
Caller == Proc \cup {NFS, CLIENT}

\* Of INTERVAL: a unit of time is a microsecond, and CLOCK_INT_MICROSEC 100000 of them.
ASSUME ClockAssumption ==
    /\ N \in Nat \ {0} /\ INTERVAL \in Nat \ {0, 1} /\ WORD \in Nat /\ WORD > INTERVAL
    /\ Delay \subseteq Nat
    /\ SLOW \in BOOLEAN /\ Clients \in BOOLEAN
    /\ IsFiniteSet(Proc) /\ {NFS, CLIENT, NOBODY} \cap Proc = {}

\* How late a timer may be: on time if the handlers take no time.  Otherwise a torn
\* time_stamp() may add INTERVAL to a new timer, EPIT2 may be programmed for a timer that has
\* just ended, or its interrupt acknowledged unseen, and the next interrupt of EPIT1 finds
\* the timer, behind the calls SOS handles first.
LATEST == IF SLOW THEN 2 * INTERVAL + Cardinality(Proc) - 1 ELSE 0

\* When a unit of time may pass at a time_stamp().
Lapse == IF SLOW THEN {"no", "after", "within"} ELSE {"no"}

OFF == [on |-> FALSE, load |-> 0, left |-> 0]

-----------------------------------------------------------------------------
(* The driver.                                                             *)

\* start_timer
start_timer ==
    [timers |-> [i \in Index |-> [id |-> i, left |-> 0, due |-> 0, who |-> NOBODY, registered |-> FALSE]],
     n |-> 0, main |-> INTERVAL, sr1 |-> FALSE, var |-> OFF, sr2 |-> FALSE,
     lost |-> FALSE]

Aged(e) == [e EXCEPT !.left = @ - 1, !.due = @ - 1]

\* A unit of time passes: EPIT1 and EPIT2 count down, interrupt and reload.
Pass(c) ==
    LET expires == c.var.on /\ c.var.left <= 1
    IN  [c EXCEPT !.timers = [i \in Index |-> IF i <= c.n THEN Aged(c.timers[i]) ELSE c.timers[i]],
                  !.main = IF @ = 1 THEN INTERVAL ELSE @ - 1,
                  !.sr1  = @ \/ c.main = 1,
                  !.var  = [c.var EXCEPT !.left = IF expires THEN c.var.load
                                                  ELSE IF c.var.on THEN c.var.left - 1 ELSE 0],
                  !.sr2  = @ \/ expires]

\* time_stamp() in c: it looks at the counter, then at the flag, and time only makes itself
\* felt in between if the counter wraps.  The driver time_stamp() leaves, and how far ahead
\* of the time its result is: the end of the interval is then counted twice.
Torn(c, d) == d = "within" /\ c.main = 1
AfterStamp(c, d) == IF Torn(c, d) THEN Pass(c) ELSE c
Ahead(c, d) == IF ~Torn(c, d) THEN 0 ELSE IF c.sr1 THEN -1 ELSE INTERVAL - 1
Elapse(c, d) == IF d = "after" THEN Pass(c) ELSE c

\* _update_var_timer.  The load value is unsigned: a timer that has ended gives a large one.
UpdateVar(c, d) ==
    LET e    == AfterStamp(c, d)
        left == e.timers[1].left - Ahead(c, d)
        load == left % WORD
    IN  Elapse(IF e.timers[1].registered /\ left <= INTERVAL
               THEN [e EXCEPT !.var = [on |-> TRUE, load |-> load, left |-> load],
                              !.sr2 = @ \/ load = 0]
               ELSE [e EXCEPT !.var = OFF], d)

\* Where the loop of register_timer stops swapping a new timer forward.
Place(c, delay) ==
    CHOOSE k \in 1 .. (c.n + 1) :
        /\ \A j \in k .. c.n : delay < c.timers[j].left
        /\ k = 1 \/ c.timers[k - 1].left <= delay

\* register_timer up to _update_var_timer; nothing happens if the array is full.
Insert(c, delay, ahead, who) ==
    LET k   == Place(c, delay + ahead)
        new == [id |-> c.timers[c.n + 1].id, left |-> delay + ahead, due |-> delay,
                who |-> who, registered |-> TRUE]
    IN  [c EXCEPT !.timers = [i \in Index |-> IF i < k \/ i > c.n + 1 THEN c.timers[i]
                                              ELSE IF i = k THEN new ELSE c.timers[i - 1]],
                  !.n = @ + 1]

register_timer(c, delay, who, d) ==
    IF c.n = N THEN [c EXCEPT !.lost = TRUE]
    ELSE UpdateVar(Elapse(Insert(AfterStamp(c, d), delay, Ahead(c, d), who), d), "no")

\* The id register_timer returns, 0 on failure.
Registered(c) == IF c.n = N THEN 0 ELSE c.timers[c.n + 1].id

\* A place of the array that is no longer in use.  Only its id is read again.
Unused(e) == [e EXCEPT !.left = 0, !.due = 0, !.who = NOBODY]

\* remove_timer(id)
remove_timer(c, id) ==
    LET found == {i \in 1 .. c.n : c.timers[i].id = id /\ c.timers[i].registered}
        k     == CHOOSE i \in found : \A j \in found : i <= j
    IN  IF found = {} THEN c
        ELSE UpdateVar([c EXCEPT
                !.lost = @ \/ c.timers[k].who # CLIENT,
                !.timers = [i \in Index |->
                    IF i < k \/ i > c.n THEN c.timers[i]
                    ELSE IF i < c.n THEN c.timers[i + 1]
                    ELSE [Unused(c.timers[k]) EXCEPT !.registered = FALSE]],
                !.n = @ - 1], "no")

\* How many timers at the head of the array have ended at a time ahead of the present.
Ended(c, ahead) ==
    LET ended(i) == c.timers[i].registered /\ c.timers[i].left <= ahead
    IN  CHOOSE k \in 0 .. c.n : (\A i \in 1 .. k : ended(i)) /\ (k = c.n \/ ~ended(k + 1))

\* The callbacks of the first k timers, each followed by registered = false.  Only the
\* handler of NFS uses the driver, and it has one timer.
CalledBack(c, k) ==
    LET called == IF \E i \in 1 .. k : c.timers[i].who = NFS
                  THEN register_timer(c, INTERVAL, NFS, "no") ELSE c
    IN  [called EXCEPT !.timers = [i \in Index |->
            IF i <= k THEN [called.timers[i] EXCEPT !.registered = FALSE] ELSE called.timers[i]]]

\* _check_timeout: call back, then move the rest to the front.  The places behind keep what
\* was in them, ids included.
CheckTimeoutForgets(c, ahead) ==
    LET k == Ended(c, ahead)
        e == CalledBack(c, k)
    IN  [e EXCEPT !.timers = [i \in Index |-> Unused(e.timers[i])], !.n = 0]
CheckTimeoutStays(c, ahead) ==
    LET k == Ended(c, ahead)
        e == CalledBack(c, k)
    IN  [e EXCEPT !.n = @ - k]
_check_timeout(c, ahead) ==
    LET k == Ended(c, ahead)
        e == CalledBack(c, k)
    IN  [e EXCEPT !.timers = [i \in Index |-> IF i <= e.n - k THEN e.timers[i + k]
                                              ELSE Unused(e.timers[i])],
                  !.n = @ - k]

-----------------------------------------------------------------------------

Init ==
    /\ ck = register_timer(start_timer, INTERVAL, NFS, "no")    \* nfs_dev_setup_timeout
    /\ st = [p \in Proc |-> "run"]
    /\ held = 0

\* Interrupts are taken before more time passes.
Tick ==
    /\ ~ck.sr1 /\ ~ck.sr2
    /\ ck' = Pass(ck)
    /\ UNCHANGED <<st, held>>

\* timer_interrupt: it asks for the time twice, for the callbacks and for EPIT2.
InterruptVarOnly(d1, d2) ==
    /\ ck.sr1 \/ ck.sr2
    /\ LET now   == AfterStamp(ck, d1)
           ahead == Ahead(ck, d1)
           calls == IF ck.sr2 THEN {now.timers[i].who : i \in 1 .. Ended(now, ahead)} ELSE {}
           c     == IF ck.sr2 THEN _check_timeout(now, ahead) ELSE now
       IN  /\ ck' = [UpdateVar(Elapse(c, d1), d2) EXCEPT !.sr1 = FALSE, !.sr2 = FALSE]
           /\ st' = [p \in Proc |-> IF p \in calls /\ st[p] = "sleep" THEN "run" ELSE st[p]]
           /\ held' = IF CLIENT \in calls THEN 0 ELSE held
timer_interrupt(d1, d2) ==
    /\ ck.sr1 \/ ck.sr2
    /\ LET now   == AfterStamp(ck, d1)
           ahead == Ahead(ck, d1)
           calls == {now.timers[i].who : i \in 1 .. Ended(now, ahead)}
           c     == _check_timeout(now, ahead)
       IN  /\ ck' = [UpdateVar(Elapse(c, d1), d2) EXCEPT !.sr1 = FALSE, !.sr2 = FALSE]
           /\ st' = [p \in Proc |-> IF p \in calls /\ st[p] = "sleep" THEN "run" ELSE st[p]]
           /\ held' = IF CLIENT \in calls THEN 0 ELSE held

\* serv_sys_sleep; _sys_sleep does not look at what register_timer returns.
serv_sys_sleep(p, delay, d) ==
    /\ st[p] = "run"
    /\ ck' = register_timer(ck, delay, p, d)
    /\ st' = [st EXCEPT ![p] = "sleep"]
    /\ UNCHANGED held

\* proc_destroy of a process that sleeps: its timer stays, and sleep_callback finds it dead.
Kill(p) ==
    /\ st[p] = "sleep"
    /\ st' = [st EXCEPT ![p] = "dead"]
    /\ UNCHANGED <<ck, held>>

\* A user of the driver that may change its mind.
ClientRegisters(delay) ==
    /\ Clients /\ held = 0
    /\ held' = Registered(ck)
    /\ ck' = register_timer(ck, delay, CLIENT, "no")
    /\ UNCHANGED st

ClientRemoves ==
    /\ held # 0
    /\ ck' = remove_timer(ck, held)
    /\ held' = 0
    /\ UNCHANGED st

Interrupt == \E d1, d2 \in Lapse : timer_interrupt(d1, d2)

Next ==
    \/ Tick
    \/ Interrupt
    \/ \E p \in Proc : Kill(p) \/ \E delay \in Delay, d \in Lapse : serv_sys_sleep(p, delay, d)
    \/ \E delay \in Delay : ClientRegisters(delay)
    \/ ClientRemoves

Spec == Init /\ [][Next]_vars

\* Time goes on, so that every interrupt is handled: however often processes call, they do
\* not stop the clock.  (EPIT1's counter changes with every unit of time.)
FairSpec == Spec /\ []<><<ck'.main # ck.main>>_vars

-----------------------------------------------------------------------------

\* The array, both hardware timers and the processes keep their types; in particular
\* _ntimers never leaves the array, also when callbacks register timers.
TypeOK ==
    /\ ck.n \in 0 .. N
    /\ \A i \in Index : /\ ck.timers[i].id \in Index
                        /\ ck.timers[i].who \in Caller \cup {NOBODY}
                        /\ ck.timers[i].left \in Int /\ ck.timers[i].due \in Int
                        /\ ck.timers[i].registered \in BOOLEAN
    /\ ck.main \in 1 .. INTERVAL
    /\ ck.var \in [on : BOOLEAN, load : 0 .. (WORD - 1), left : 0 .. (WORD - 1)]
    /\ ck.sr1 \in BOOLEAN /\ ck.sr2 \in BOOLEAN /\ ck.lost \in BOOLEAN
    /\ st \in [Proc -> {"run", "sleep", "dead"}]
    /\ held \in 0 .. N

\* A process that sleeps has exactly one timer that will wake it, and so has NFS, also when
\* the callback registers a new one while _check_timeout walks over the array, until a timer
\* is lost: refused by a full array, or removed in place of another with its id.
OneTimerEach ==
    ~ck.lost => \A w \in {NFS} \cup {p \in Proc : st[p] = "sleep"} :
        Cardinality({i \in 1 .. ck.n : ck.timers[i].who = w}) = 1

\* A timer is called back when the delay it was asked for has passed, neither missed by
\* EPIT2, nor postponed by one programmed with a delay that is over or by a time_stamp() that
\* was torn when the timer was registered or EPIT2 programmed.
NoTimerLate == \A i \in 1 .. ck.n : ck.timers[i].due >= -LATEST

\* "Sleeps for the specified number of milliseconds" (sos.h): a process that sleeps wakes
\* up, unless it is destroyed or a timer is lost.
SleepersWake == \A p \in Proc : st[p] = "sleep" ~> st[p] # "sleep" \/ ck.lost
=============================================================================
