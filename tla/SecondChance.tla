---------------------------- MODULE SecondChance ----------------------------
(***************************************************************************)
(* The victim search of frametable.c as the code writes it, a loop of at   *)
(* most 3 * NFRAMES turns, against the closed form that FrameOps uses      *)
(* (SecondChanceVictim, SecondChanceCleared, SecondChanceSweep).           *)
(***************************************************************************)
EXTENDS FrameTable

Advance(hand) == (hand + 1) % NFRAMES

\* The while loop: t is the table, cnt the turns made, out the frames unmapped so far.
RECURSIVE LoopOnce(_, _, _)
LoopOnce(t, cnt, out) ==
    IF cnt >= NFRAMES THEN [table |-> t, found |-> INVALID, out |-> out]
    ELSE IF t.noswap[t.victim] \/ t.locked[t.victim]
    THEN LoopOnce([t EXCEPT !.victim = Advance(@)], cnt + 1, out)
    ELSE IF t.referenced[t.victim]
    THEN LoopOnce([t EXCEPT !.referenced[t.victim] = FALSE, !.victim = Advance(@)],
                  cnt + 1, out \cup {t.victim})
    ELSE [table |-> [t EXCEPT !.victim = Advance(@)], found |-> t.victim, out |-> out]
RECURSIVE Loop(_, _, _)
Loop(t, cnt, out) ==
    IF cnt >= 3 * NFRAMES THEN [table |-> t, found |-> INVALID, out |-> out]
    ELSE IF t.noswap[t.victim] \/ t.locked[t.victim]
    THEN Loop([t EXCEPT !.victim = Advance(@)], cnt + 1, out)
    ELSE IF t.referenced[t.victim]
    THEN Loop([t EXCEPT !.referenced[t.victim] = FALSE, !.victim = Advance(@)],
              cnt + 1, out \cup {t.victim})
    ELSE [table |-> [t EXCEPT !.victim = Advance(@)], found |-> t.victim, out |-> out]

-----------------------------------------------------------------------------
\* On every full frame table that SOS can reach, with any frames locked, noswap or
\* referenced and the hand anywhere, the loop of _second_chance_swap_victim returns the
\* frame, clears the reference bits, unmaps the pages and leaves the hand that the closed
\* form says; in particular 3 * NFRAMES turns are enough to find a victim whenever one
\* frame is neither noswap nor locked.
LoopIsClosedForm ==
    ~HasFree(ft) =>
        LET r == Loop(ft, 0, {})
        IN  /\ r.found = SecondChanceVictim(ft)
            /\ r.table = SecondChanceSweep(ft)
            /\ r.out = IF r.found = INVALID THEN {} ELSE SecondChanceCleared(ft)
=============================================================================
