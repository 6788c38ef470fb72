-------------------------- MODULE FrameTableProofs --------------------------
(***************************************************************************)
(* Proofs about the frame table, for every number of frames, every set of  *)
(* processes and pages and every sequence of calls.                        *)
(*                                                                         *)
(* The inductive invariant is IInv: types, a free list that is exact       *)
(* (HasFreeList), pinned victims and untouched reserved entries.  The list *)
(* is needed as a whole: that _first_free does not point to an allocated   *)
(* frame after a frame was taken depends on where the next one points, and *)
(* that nothing is available when _first_free is FRAME_INVALID depends on  *)
(* no frame having fallen off the list.                                    *)
(***************************************************************************)
EXTENDS FrameTable, FiniteSetTheorems, TLAPS

\* FreeListExact without the bound on the length of the list.
HasFreeList(t) == \E n \in Nat : \E s \in [1 .. n -> Frame] : IsFreeList(t, n, s)

\* No allocation waits for a frame of the frame table itself, also when nothing is pinned.
VictimsManaged == \A f \in Frame : waiting[f] # {} => f \in Managed

IInv ==
    /\ TypeOK
    /\ HasFreeList(ft)
    /\ VictimPinned
    /\ VictimsManaged
    /\ ReservedUntouched

-----------------------------------------------------------------------------
(* Arithmetic and least elements.                                          *)

\* A function from a finite, non-empty set to the integers has a least value.
LEMMA MinExists ==
  ASSUME NEW S, IsFiniteSet(S), S # {}, NEW d \in [S -> Int]
  PROVE  \E x \in S : \A y \in S : d[x] <= d[y]
<1> DEFINE Below(x) == {y \in S : d[y] < d[x]}
           T == {Below(x) : x \in S}
<1>1. IsWellFoundedOn(StrictSubsetOrdering(S), FiniteSubsetsOf(S))
  BY FS_StrictSubsetOrderingWellFounded
<1>2. T \subseteq FiniteSubsetsOf(S)
  <2>1. ASSUME NEW x \in S PROVE Below(x) \in SUBSET S /\ IsFiniteSet(Below(x))
    BY FS_Subset
  <2>2. QED BY <2>1 DEF FiniteSubsetsOf
<1>3. T # {}
  <2>1. PICK x \in S : TRUE
    OBVIOUS
  <2>2. Below(x) \in T
    OBVIOUS
  <2>3. QED BY <2>2, Zenon
<1>4. PICK m \in T : \A z \in T : ~(<<z, m>> \in StrictSubsetOrdering(S))
  <2> HIDE DEF T
  <2> QED BY <1>1, <1>2, <1>3, WFMin
<1>5. PICK x \in S : m = Below(x)
  OBVIOUS
<1>6. ASSUME NEW y \in S, d[y] < d[x] PROVE FALSE
  <2>1. Below(y) \subseteq Below(x) /\ Below(y) # Below(x)
    BY <1>6
  <2>2. Below(y) \in SUBSET S /\ Below(x) \in SUBSET S
    OBVIOUS
  <2>3. <<Below(y), Below(x)>> \in StrictSubsetOrdering(S)
    <3> HIDE DEF Below
    <3> QED BY <2>1, <2>2 DEF StrictSubsetOrdering
  <2>4. QED BY <2>3, <1>4, <1>5
<1>7. QED BY <1>6

\* Indices of frames: reserved, managed, and the hand of the victim search.
LEMMA FrameFacts ==
  /\ NFRAMES \in Nat /\ NFRAMES > 1 /\ RESERVED \in Frame /\ RESERVED > 0
  /\ Managed \subseteq Frame /\ Frame \subseteq Int /\ INVALID \notin Frame
  /\ \A f \in Frame : f \notin Managed <=> f < RESERVED
  /\ \A f \in Frame : (f + 1) % NFRAMES \in Frame
  /\ IsFiniteSet(Frame) /\ Cardinality(Frame) = NFRAMES
<1>1. NFRAMES \in Nat /\ NFRAMES > 1 /\ RESERVED \in Frame /\ RESERVED > 0
  BY FrameAssumption DEF Frame
<1>2. Managed \subseteq Frame /\ Frame \subseteq Int /\ INVALID \notin Frame
  BY <1>1 DEF Managed, Frame, INVALID
<1>3. \A f \in Frame : f \notin Managed <=> f < RESERVED
  BY <1>1 DEF Managed, Frame
<1>4. \A f \in Frame : (f + 1) % NFRAMES \in Frame
  BY <1>1 DEF Frame
<1>5. IsFiniteSet(Frame) /\ Cardinality(Frame) = NFRAMES
  BY <1>1, FS_Interval DEF Frame
<1>6. QED BY <1>1, <1>2, <1>3, <1>4, <1>5

\* The search returns a frame that is neither noswap nor locked, or none.
LEMMA VictimSwappable ==
  ASSUME NEW t \in FrameTableType, SecondChanceVictim(t) # INVALID
  PROVE  /\ SecondChanceVictim(t) \in Frame
         /\ ~t.noswap[SecondChanceVictim(t)] /\ ~t.locked[SecondChanceVictim(t)]
         /\ Swappable(t) # {}
<1>1. ASSUME NEW S \in SUBSET Frame, S # {} PROVE FirstMet(t, S) \in S
  <2> DEFINE d == [f \in S |-> Distance(t, f)]
  <2>1. IsFiniteSet(S)
    BY <1>1, FrameFacts, FS_Subset, Zenon
  <2>2. d \in [S -> Int]
    BY <1>1, FrameFacts DEF Distance, Frame, FrameTableType
  <2>3. \E x \in S : \A y \in S : d[x] <= d[y]
    <3> HIDE DEF d
    <3> QED BY <1>1, <2>1, <2>2, MinExists
  <2>4. \E x \in S : \A y \in S : Distance(t, x) <= Distance(t, y)
    BY <2>3
  <2>5. QED BY <2>4 DEF FirstMet
<1>2. Unreferenced(t) \subseteq Swappable(t) /\ Swappable(t) \subseteq Frame
  BY DEF Unreferenced, Swappable
<1>3. Swappable(t) # {}
  BY DEF SecondChanceVictim
<1>4. SecondChanceVictim(t) \in Swappable(t)
  BY <1>1, <1>2, <1>3 DEF SecondChanceVictim
<1>5. QED BY <1>3, <1>4 DEF Swappable

-----------------------------------------------------------------------------
(* What the operations of frametable.c preserve.                           *)

\* The type of the table survives every operation.
LEMMA OperationTypes ==
  ASSUME NEW t \in FrameTableType
  PROVE  /\ \A f \in Frame : FrameFree(t, f) \in FrameTableType
         /\ \A f \in Frame : FrameLock(t, f) \in FrameTableType
         /\ \A f \in Frame : FrameUnlock(t, f) \in FrameTableType
         /\ \A f \in Frame : FrameSetReferenced(t, f) \in FrameTableType
         /\ HasFree(t) => \A r \in Request :
               TakeFrame(t, r.as, r.vaddr, r.noswap) \in FrameTableType
         /\ SecondChanceVictim(t) # INVALID => SecondChanceSweep(t) \in FrameTableType
<1>1. \A f \in Frame : FrameFree(t, f) \in FrameTableType
  BY Zenon DEF FrameFree, FrameTableType, Status
<1>2. \A f \in Frame : FrameLock(t, f) \in FrameTableType
  BY Zenon DEF FrameLock, FrameTableType
<1>3. \A f \in Frame : FrameUnlock(t, f) \in FrameTableType
  BY Zenon DEF FrameUnlock, FrameTableType
<1>4. \A f \in Frame : FrameSetReferenced(t, f) \in FrameTableType
  BY Zenon DEF FrameSetReferenced, FrameTableType
<1>5. ASSUME HasFree(t), NEW r \in Request
      PROVE  TakeFrame(t, r.as, r.vaddr, r.noswap) \in FrameTableType
  <2>1. r.as \in Proc \cup {NULL} /\ r.vaddr \in Page \cup {0} /\ r.noswap \in BOOLEAN
    BY Zenon DEF Request
  <2>2. t.first \in Frame
    BY <1>5 DEF HasFree, FrameTableType
  <2>3. QED BY <2>1, <2>2, ZenonT(30) DEF TakeFrame, FrameTableType, Status
<1>6. ASSUME SecondChanceVictim(t) # INVALID
      PROVE  SecondChanceSweep(t) \in FrameTableType
  <2>1. (SecondChanceVictim(t) + 1) % NFRAMES \in Frame
    BY <1>6, VictimSwappable, FrameFacts
  <2>2. [f \in Frame |-> t.referenced[f] /\ f \notin SecondChanceCleared(t)] \in [Frame -> BOOLEAN]
    BY DEF FrameTableType
  <2>3. QED BY <2>1, <2>2 DEF SecondChanceSweep, FrameTableType
<1>7. QED BY <1>1, <1>2, <1>3, <1>4, <1>5, <1>6

\* The free list does not depend on locks, reference bits or the hand.
LEMMA SameList ==
  ASSUME NEW t, NEW u, t.status = u.status, t.next = u.next, t.first = u.first,
         HasFreeList(t)
  PROVE  HasFreeList(u)
BY SMTT(30) DEF HasFreeList, IsFreeList, Available

\* A list that is exact says so: empty means that nothing is available, and its head is
\* available.
LEMMA ListTellsTruth ==
  ASSUME NEW t \in FrameTableType, HasFreeList(t)
  PROVE  /\ HasFree(t) => t.first \in Frame /\ t.status[t.first] # "ALLOCATED"
         /\ ~HasFree(t) => \A f \in Frame : t.status[f] = "ALLOCATED"
<1>1. PICK n \in Nat : \E s \in [1 .. n -> Frame] : IsFreeList(t, n, s)
  BY DEF HasFreeList
<1>2. PICK s \in [1 .. n -> Frame] : IsFreeList(t, n, s)
  BY <1>1
<1>3. CASE n = 0
  <2>1. t.first = INVALID /\ Available(t) = {}
    BY <1>2, <1>3 DEF IsFreeList
  <2>2. QED BY <2>1 DEF Available, HasFree
<1>4. CASE n # 0
  <2>1. 1 \in 1 .. n
    BY <1>4
  <2>2. t.first = s[1] /\ s[1] \in Available(t)
    BY <1>2, <1>4, <2>1 DEF IsFreeList
  <2>3. QED BY <2>2, FrameFacts DEF Available, HasFree
<1>5. QED BY <1>3, <1>4

\* Taking the head of an exact list leaves an exact list.
LEMMA TakeKeepsList ==
  ASSUME NEW t \in FrameTableType, HasFreeList(t), HasFree(t),
         NEW as, NEW vaddr, NEW noswap
  PROVE  HasFreeList(TakeFrame(t, as, vaddr, noswap))
<1> DEFINE u == TakeFrame(t, as, vaddr, noswap)
<1>1. PICK n \in Nat : \E s \in [1 .. n -> Frame] : IsFreeList(t, n, s)
  BY DEF HasFreeList
<1>2. PICK s \in [1 .. n -> Frame] : IsFreeList(t, n, s)
  BY <1>1
<1>3. n # 0
  BY <1>2 DEF IsFreeList, HasFree
<1>4. t.first = s[1] /\ t.first \in Frame /\ 1 \in 1 .. n
  BY <1>2, <1>3 DEF IsFreeList
<1>5. /\ u.status = [t.status EXCEPT ![t.first] = "ALLOCATED"]
      /\ u.next = t.next
      /\ u.first = t.next[t.first]
  BY DEF TakeFrame, FrameTableType
<1>6. Available(u) = Available(t) \ {t.first}
  BY <1>4, <1>5 DEF Available, FrameTableType
<1> DEFINE m == n - 1
           r == [i \in 1 .. m |-> s[i + 1]]
<1>7. m \in Nat /\ \A i \in 1 .. m : i + 1 \in 1 .. n /\ i + 1 # 1
  BY <1>3
<1>8. r \in [1 .. m -> Available(u)]
  <2>1. ASSUME NEW i \in 1 .. m PROVE s[i + 1] \in Available(u)
    BY <1>2, <1>4, <1>6, <1>7 DEF IsFreeList
  <2>2. QED BY <2>1, Zenon
<1>9. \A f \in Available(u) : \E i \in 1 .. m : r[i] = f
  <2> TAKE f \in Available(u)
  <2>1. PICK j \in 1 .. n : s[j] = f
    BY <1>2, <1>6 DEF IsFreeList
  <2>2. j # 1
    BY <2>1, <1>4, <1>6
  <2>3. j - 1 \in 1 .. m /\ (j - 1) + 1 = j
    BY <2>2
  <2>4. QED BY <2>1, <2>3
<1>10. \A i, j \in 1 .. m : r[i] = r[j] => i = j
  BY <1>2, <1>7 DEF IsFreeList
<1>11. u.first = IF m = 0 THEN INVALID ELSE r[1]
  BY <1>2, <1>3, <1>4, <1>5 DEF IsFreeList
<1>12. \A i \in 1 .. m : u.next[r[i]] = IF i = m THEN INVALID ELSE r[i + 1]
  BY <1>2, <1>5, <1>7 DEF IsFreeList
<1>13. IsFreeList(u, m, r) /\ r \in [1 .. m -> Frame]
  BY <1>8, <1>9, <1>10, <1>11, <1>12, Zenon DEF IsFreeList, Available
<1>14. QED
  <2> HIDE DEF m, r, u
  <2> QED BY <1>7, <1>13, Zenon DEF HasFreeList, u

\* frame_free puts a frame at the head of an exact list, or leaves the list alone.
LEMMA FreeKeepsList ==
  ASSUME NEW t \in FrameTableType, HasFreeList(t), NEW f \in Frame
  PROVE  HasFreeList(FrameFree(t, f))
<1> DEFINE u == FrameFree(t, f)
<1>1. CASE ~(Allocated(t, f) /\ ~t.locked[f])
  BY <1>1 DEF FrameFree
<1>2. CASE Allocated(t, f) /\ ~t.locked[f]
  <2>1. PICK n \in Nat : \E s \in [1 .. n -> Frame] : IsFreeList(t, n, s)
    BY DEF HasFreeList
  <2>2. PICK s \in [1 .. n -> Frame] : IsFreeList(t, n, s)
    BY <2>1
  <2>3. /\ u.status = [t.status EXCEPT ![f] = "FREE"]
        /\ u.next = [t.next EXCEPT ![f] = t.first]
        /\ u.first = f
    BY <1>2 DEF FrameFree, FrameTableType
  <2>4. Available(u) = Available(t) \cup {f} /\ f \notin Available(t)
    BY <1>2, <2>3 DEF Available, FrameTableType, Allocated
  <2> DEFINE m == n + 1
             r == [i \in 1 .. m |-> IF i = 1 THEN f ELSE s[i - 1]]
  <2>5. m \in Nat /\ 1 \in 1 .. m /\ \A i \in 1 .. m : i # 1 => i - 1 \in 1 .. n
    OBVIOUS
  <2>6. r \in [1 .. m -> Available(u)]
    <3>1. ASSUME NEW i \in 1 .. m PROVE r[i] \in Available(u)
      BY <2>2, <2>4, <2>5 DEF IsFreeList
    <3>2. QED BY <3>1
  <2>7. \A g \in Available(u) : \E i \in 1 .. m : r[i] = g
    <3> TAKE g \in Available(u)
    <3>1. CASE g = f
      BY <2>5, <3>1
    <3>2. CASE g # f
      <4>1. PICK j \in 1 .. n : s[j] = g
        BY <2>2, <2>4, <3>2 DEF IsFreeList
      <4>2. j + 1 \in 1 .. m /\ j + 1 # 1 /\ (j + 1) - 1 = j
        OBVIOUS
      <4>3. QED BY <4>1, <4>2
    <3>3. QED BY <3>1, <3>2
  <2>8. \A i, j \in 1 .. m : r[i] = r[j] => i = j
    <3>1. \A i \in 1 .. m : i # 1 => r[i] = s[i - 1] /\ s[i - 1] # f
      BY <2>2, <2>4, <2>5, SMTT(30) DEF IsFreeList
    <3>2. \A i, j \in 1 .. n : s[i] = s[j] => i = j
      BY <2>2 DEF IsFreeList
    <3>3. r[1] = f
      BY <2>5
    <3>4. TAKE i, j \in 1 .. m
    <3>5. HAVE r[i] = r[j]
    <3>6. CASE i = 1 \/ j = 1
      BY <3>1, <3>3, <3>5, <3>6
    <3>7. CASE i # 1 /\ j # 1
      BY <3>1, <3>2, <3>5, <3>7, <2>5
    <3>8. QED BY <3>6, <3>7
  <2>9. u.first = IF m = 0 THEN INVALID ELSE r[1]
    BY <2>3, <2>5
  <2>10. \A i \in 1 .. m : u.next[r[i]] = IF i = m THEN INVALID ELSE r[i + 1]
    <3> TAKE i \in 1 .. m
    <3>1. CASE i = 1
      <4>1. u.next[r[i]] = t.first
        BY <2>3, <3>1, <2>5 DEF FrameTableType
      <4>2. t.first = IF n = 0 THEN INVALID ELSE s[1]
        BY <2>2 DEF IsFreeList
      <4>3. n # 0 => 2 \in 1 .. m /\ r[2] = s[1]
        OBVIOUS
      <4>4. QED BY <3>1, <4>1, <4>2, <4>3
    <3>2. CASE i # 1
      <4>1. i - 1 \in 1 .. n /\ r[i] = s[i - 1] /\ s[i - 1] \in Frame /\ s[i - 1] # f
        BY <2>2, <2>4, <2>5, <3>2 DEF IsFreeList
      <4>2. u.next[r[i]] = t.next[s[i - 1]]
        BY <2>3, <4>1 DEF FrameTableType
      <4>3. t.next[s[i - 1]] = IF i - 1 = n THEN INVALID ELSE s[(i - 1) + 1]
        BY <2>2, <4>1 DEF IsFreeList
      <4>4. i # m => i + 1 \in 1 .. m /\ r[i + 1] = s[(i - 1) + 1]
        BY <3>2
      <4>5. QED BY <4>2, <4>3, <4>4
    <3>3. QED BY <3>1, <3>2
  <2>11. IsFreeList(u, m, r) /\ r \in [1 .. m -> Frame]
    BY <2>6, <2>7, <2>8, <2>9, <2>10, Zenon DEF IsFreeList, Available
  <2>12. QED
    <3> HIDE DEF m, r, u
    <3> QED BY <2>5, <2>11 DEF HasFreeList, u
<1>3. QED BY <1>1, <1>2
-----------------------------------------------------------------------------
(* What the operations do to one entry.                                    *)

\* u has the entry of f that t has, as far as the invariants look at it.
SameEntry(t, u, f) ==
    /\ u.status[f] = t.status[f] /\ u.locked[f] = t.locked[f]
    /\ u.noswap[f] = t.noswap[f] /\ u.as[f] = t.as[f]

\* A table on which an operation can be performed.
Good(t) == t \in FrameTableType /\ HasFreeList(t)

\* frame_free keeps a good table good and touches the entry of its argument only.
LEMMA FreeEffect ==
  ASSUME NEW t, Good(t), NEW f \in Frame
  PROVE  /\ Good(FrameFree(t, f))
         /\ \A g \in Frame : g # f => SameEntry(t, FrameFree(t, f), g)
         /\ f \notin Managed \/ t.locked[f] => FrameFree(t, f) = t
<1>1. Good(FrameFree(t, f))
  BY OperationTypes, FreeKeepsList DEF Good
<1>2. \A g \in Frame : g # f => SameEntry(t, FrameFree(t, f), g)
  BY DEF FrameFree, SameEntry, Good, FrameTableType
<1>3. f \notin Managed \/ t.locked[f] => FrameFree(t, f) = t
  BY DEF FrameFree, Allocated
<1>4. QED BY <1>1, <1>2, <1>3

\* Locking and unlocking keep a good table good, change the lock of a managed frame and
\* nothing else.
LEMMA LockEffect ==
  ASSUME NEW t, Good(t), NEW f \in Frame
  PROVE  /\ Good(FrameLock(t, f)) /\ Good(FrameUnlock(t, f))
         /\ \A g \in Frame : g # f => /\ SameEntry(t, FrameLock(t, f), g)
                                      /\ SameEntry(t, FrameUnlock(t, f), g)
         /\ \A g \in Frame : /\ FrameLock(t, f).status[g] = t.status[g]
                             /\ FrameLock(t, f).noswap[g] = t.noswap[g]
                             /\ t.locked[g] => FrameLock(t, f).locked[g]
         /\ f \notin Managed => FrameLock(t, f) = t /\ FrameUnlock(t, f) = t
         /\ Allocated(t, f) => FrameLock(t, f).locked[f]
<1>1. FrameLock(t, f) \in FrameTableType /\ FrameUnlock(t, f) \in FrameTableType
  BY OperationTypes DEF Good
<1>2. HasFreeList(FrameLock(t, f))
  <2>1. /\ t.status = FrameLock(t, f).status /\ t.next = FrameLock(t, f).next
        /\ t.first = FrameLock(t, f).first
    BY DEF FrameLock, Good, FrameTableType
  <2>2. QED BY <2>1, SameList DEF Good
<1>3. HasFreeList(FrameUnlock(t, f))
  <2>1. /\ t.status = FrameUnlock(t, f).status /\ t.next = FrameUnlock(t, f).next
        /\ t.first = FrameUnlock(t, f).first
    BY DEF FrameUnlock, Good, FrameTableType
  <2>2. QED BY <2>1, SameList DEF Good
<1>4. \A g \in Frame : g # f => /\ SameEntry(t, FrameLock(t, f), g)
                                /\ SameEntry(t, FrameUnlock(t, f), g)
  BY DEF FrameLock, FrameUnlock, SameEntry, Good, FrameTableType
<1>5. \A g \in Frame : /\ FrameLock(t, f).status[g] = t.status[g]
                       /\ FrameLock(t, f).noswap[g] = t.noswap[g]
                       /\ t.locked[g] => FrameLock(t, f).locked[g]
  BY DEF FrameLock, Good, FrameTableType
<1>6. f \notin Managed => FrameLock(t, f) = t /\ FrameUnlock(t, f) = t
  BY DEF FrameLock, FrameUnlock, Allocated
<1>7. Allocated(t, f) => FrameLock(t, f).locked[f]
  BY DEF FrameLock, Good, FrameTableType
<1>8. QED BY <1>1, <1>2, <1>3, <1>4, <1>5, <1>6, <1>7 DEF Good

\* Setting a reference bit keeps a good table good and every entry the same.
LEMMA ReferenceEffect ==
  ASSUME NEW t, Good(t), NEW f \in Frame
  PROVE  /\ Good(FrameSetReferenced(t, f))
         /\ \A g \in Frame : SameEntry(t, FrameSetReferenced(t, f), g)
<1> DEFINE u == FrameSetReferenced(t, f)
<1>1. /\ t.status = u.status /\ t.next = u.next /\ t.first = u.first
      /\ t.locked = u.locked /\ t.noswap = u.noswap /\ t.as = u.as
  BY DEF FrameSetReferenced, Good, FrameTableType
<1>2. QED BY <1>1, SameList, OperationTypes, SMTT(30) DEF Good, SameEntry

\* The victim search changes reference bits and the hand only.
LEMMA SweepEffect ==
  ASSUME NEW t, Good(t), SecondChanceVictim(t) # INVALID
  PROVE  /\ Good(SecondChanceSweep(t))
         /\ \A g \in Frame : SameEntry(t, SecondChanceSweep(t), g)
<1> DEFINE u == SecondChanceSweep(t)
<1>1. /\ t.status = u.status /\ t.next = u.next /\ t.first = u.first
      /\ t.locked = u.locked /\ t.noswap = u.noswap /\ t.as = u.as
  BY DEF SecondChanceSweep, Good, FrameTableType
<1>2. QED BY <1>1, SameList, OperationTypes DEF Good, SameEntry

\* _frame_alloc_end keeps a good table good and never touches an allocated entry.
LEMMA AllocEndEffect ==
  ASSUME NEW t, Good(t), NEW r \in Request, NEW err \in BOOLEAN, NEW nomem \in BOOLEAN
  PROVE  /\ Good(AllocEnd(t, r, err, nomem))
         /\ \A g \in Frame : t.status[g] = "ALLOCATED" =>
               SameEntry(t, AllocEnd(t, r, err, nomem), g)
<1> DEFINE u == AllocEnd(t, r, err, nomem)
<1>1. CASE u = t
  BY <1>1 DEF SameEntry
<1>2. CASE HasFree(t) /\ u = TakeFrame(t, r.as, r.vaddr, r.noswap)
  <2>1. Good(u)
    BY <1>2, OperationTypes, TakeKeepsList DEF Good
  <2>2. t.first \in Frame /\ t.status[t.first] # "ALLOCATED"
    BY <1>2, ListTellsTruth DEF Good
  <2>3. /\ u.status = [t.status EXCEPT ![t.first] = "ALLOCATED"]
        /\ u.locked = [t.locked EXCEPT ![t.first] = FALSE]
        /\ u.noswap = [t.noswap EXCEPT ![t.first] = r.noswap]
        /\ u.as = [t.as EXCEPT ![t.first] = r.as]
    BY <1>2 DEF TakeFrame, Good, FrameTableType
  <2>4. ASSUME NEW g \in Frame, t.status[g] = "ALLOCATED" PROVE SameEntry(t, u, g)
    <3>1. g # t.first
      BY <2>2, <2>4
    <3>2. QED BY <2>3, <3>1 DEF SameEntry, Good, FrameTableType
  <2>5. QED BY <2>1, <2>4
<1>3. QED BY <1>1, <1>2 DEF AllocEnd
-----------------------------------------------------------------------------
(* The inductive invariant.                                                *)

\* frame_init leaves a table that satisfies the invariant.
LEMMA InitIInv ==
  Init => IInv
<1> SUFFICES ASSUME Init PROVE IInv
  OBVIOUS
<1>1. FrameInit \in FrameTableType
  BY FrameFacts DEF FrameInit, FrameTableType, Status, Frame
<1>3. TypeOK
  <2>1. waiting \in [Frame -> SUBSET Request] /\ unpinned \in SUBSET Frame
    BY DEF Init
  <2>2. QED BY <1>1, <2>1 DEF Init, TypeOK
<1>4. HasFreeList(ft)
  <2> DEFINE n == NFRAMES - RESERVED
             s == [i \in 1 .. n |-> RESERVED + i - 1]
  <2>1. n \in Nat /\ n # 0
    BY FrameAssumption
  <2>2. /\ ft.first = RESERVED
        /\ ft.status = [f \in Frame |-> IF f < RESERVED THEN "ALLOCATED" ELSE "UNTYPED"]
        /\ ft.next = [f \in Frame |-> IF f < RESERVED \/ f = NFRAMES - 1
                                      THEN INVALID ELSE f + 1]
    BY DEF Init, FrameInit
  <2>3. Available(ft) = Managed
    BY <2>2, FrameFacts DEF Available, Frame, Managed
  <2>4. s \in [1 .. n -> Managed]
    BY FrameAssumption DEF Managed
  <2>5. \A f \in Managed : \E i \in 1 .. n : s[i] = f
    <3> TAKE f \in Managed
    <3>1. f - RESERVED + 1 \in 1 .. n /\ RESERVED + (f - RESERVED + 1) - 1 = f
      BY FrameAssumption DEF Managed
    <3>2. QED BY <3>1
  <2>6. \A i, j \in 1 .. n : s[i] = s[j] => i = j
    BY FrameAssumption
  <2>7. ft.first = IF n = 0 THEN INVALID ELSE s[1]
    BY <2>1, <2>2, FrameAssumption
  <2>8. \A i \in 1 .. n : ft.next[s[i]] = IF i = n THEN INVALID ELSE s[i + 1]
    <3> TAKE i \in 1 .. n
    <3>1. s[i] = RESERVED + i - 1 /\ s[i] \in Frame /\ ~(s[i] < RESERVED)
      BY FrameAssumption DEF Frame
    <3>2. s[i] = NFRAMES - 1 <=> i = n
      BY FrameAssumption
    <3>3. i # n => s[i + 1] = s[i] + 1
      BY FrameAssumption
    <3>4. ft.next[s[i]] = IF s[i] = NFRAMES - 1 THEN INVALID ELSE s[i] + 1
      <4> HIDE DEF s
      <4> QED BY <2>2, <3>1
    <3>5. QED BY <3>2, <3>3, <3>4
  <2>9. IsFreeList(ft, n, s) /\ s \in [1 .. n -> Frame]
    BY <2>3, <2>4, <2>5, <2>6, <2>7, <2>8, FrameFacts DEF IsFreeList
  <2>10. QED
    <3> HIDE DEF n, s
    <3> QED BY <2>1, <2>9 DEF HasFreeList
<1>5. VictimPinned /\ VictimsManaged
  BY DEF Init, VictimPinned, VictimsManaged
<1>6. ReservedUntouched
  BY FrameFacts, Zenon DEF Init, FrameInit, ReservedUntouched
<1>7. QED BY <1>3, <1>4, <1>5, <1>6 DEF IInv

\* The end of a swap-out of f: the victim is unlocked, freed or not, and the waiting
\* allocation goes on or is refused.
LEMMA SwapOutKeepsIInv ==
  ASSUME IInv, NEW f \in Frame, NEW req \in Request, req \in waiting[f],
         NEW t, NEW err \in BOOLEAN, NEW nomem \in BOOLEAN,
         t = FrameFree(FrameUnlock(ft, f), f) \/ t = FrameUnlock(ft, f),
         ft' = AllocEnd(t, req, err, nomem),
         SwapOutOver(f, req)
  PROVE  IInv'
<1>1. Good(ft) /\ waiting \in [Frame -> SUBSET Request] /\ unpinned \in SUBSET Frame
  BY DEF IInv, TypeOK, Good
<1>2. f \in Managed
  BY DEF IInv, VictimsManaged
<1>3. Good(FrameUnlock(ft, f)) /\ \A g \in Frame : g # f => SameEntry(ft, FrameUnlock(ft, f), g)
  BY <1>1, LockEffect
<1>4. Good(t) /\ \A g \in Frame : g # f => SameEntry(ft, t, g)
  <2>1. CASE t = FrameUnlock(ft, f)
    BY <2>1, <1>3
  <2>2. CASE t = FrameFree(FrameUnlock(ft, f), f)
    <3>1. Good(t) /\ \A g \in Frame : g # f => SameEntry(FrameUnlock(ft, f), t, g)
      BY <2>2, <1>3, FreeEffect
    <3>2. QED BY <3>1, <1>3 DEF SameEntry
  <2>3. QED BY <2>1, <2>2
<1>5. /\ Good(ft')
      /\ \A g \in Frame : g # f /\ ft.status[g] = "ALLOCATED" => SameEntry(ft, ft', g)
  <2>1. Good(ft') /\ \A g \in Frame : t.status[g] = "ALLOCATED" => SameEntry(t, ft', g)
    BY <1>4, AllocEndEffect, Zenon
  <2>2. QED BY <1>4, <2>1, ZenonT(30) DEF SameEntry
<1>6. /\ waiting' \in [Frame -> SUBSET Request] /\ unpinned' \in SUBSET Frame
      /\ waiting'[f] = waiting[f] \ {req}
      /\ \A g \in Frame : g # f => waiting'[g] = waiting[g] /\ (g \in unpinned <=> g \in unpinned')
      /\ f \in unpinned => f \in unpinned' \/ waiting'[f] = {}
  BY <1>1 DEF SwapOutOver
<1>7. VictimPinned'
  <2> SUFFICES ASSUME NEW g \in Frame, g \notin unpinned', waiting'[g] # {}
               PROVE  /\ ft'.status[g] = "ALLOCATED" /\ ft'.locked[g] /\ ~ft'.noswap[g]
                      /\ \E r \in Request : waiting'[g] = {r}
    BY DEF VictimPinned
  <2>1. CASE g = f
    <3>1. f \notin unpinned /\ waiting[f] # {}
      BY <1>6, <2>1
    <3>2. PICK r \in Request : waiting[f] = {r}
      BY <3>1 DEF IInv, VictimPinned
    <3>3. QED BY <1>6, <2>1, <3>2
  <2>2. CASE g # f
    <3>1. g \notin unpinned /\ waiting[g] # {} /\ waiting'[g] = waiting[g]
      BY <1>6, <2>2
    <3>2. /\ ft.status[g] = "ALLOCATED" /\ ft.locked[g] /\ ~ft.noswap[g]
          /\ \E r \in Request : waiting[g] = {r}
      BY <3>1 DEF IInv, VictimPinned
    <3>3. SameEntry(ft, ft', g)
      BY <1>5, <2>2, <3>2
    <3>4. QED BY <3>1, <3>2, <3>3 DEF SameEntry
  <2>3. QED BY <2>1, <2>2
<1>8. VictimsManaged'
  BY <1>2, <1>6 DEF IInv, VictimsManaged
<1>9. ReservedUntouched'
  BY <1>2, <1>5, Zenon DEF IInv, ReservedUntouched, SameEntry
<1>10. QED BY <1>5, <1>6, <1>7, <1>8, <1>9, Zenon DEF IInv, Good, TypeOK

\* Every step preserves the invariant.
LEMMA NextIInv ==
  IInv /\ [Next]_vars => IInv'
<1> SUFFICES ASSUME IInv, [Next]_vars PROVE IInv'
  OBVIOUS
<1>a. /\ Good(ft) /\ ft \in FrameTableType
      /\ waiting \in [Frame -> SUBSET Request] /\ unpinned \in SUBSET Frame
  BY DEF IInv, TypeOK, Good
<1>b. ASSUME Good(ft'), waiting' = waiting, unpinned \subseteq unpinned', unpinned' \in SUBSET Frame,
             \A g \in Frame : ft.status[g] = "ALLOCATED" =>
                (g \notin Managed \/ (waiting[g] # {} /\ g \notin unpinned') => SameEntry(ft, ft', g))
      PROVE  IInv'
  <2>1. VictimPinned'
    <3> SUFFICES ASSUME NEW g \in Frame, g \notin unpinned', waiting[g] # {}
                 PROVE  /\ ft'.status[g] = "ALLOCATED" /\ ft'.locked[g] /\ ~ft'.noswap[g]
                        /\ \E r \in Request : waiting[g] = {r}
      BY <1>b DEF VictimPinned
    <3>1. /\ ft.status[g] = "ALLOCATED" /\ ft.locked[g] /\ ~ft.noswap[g]
          /\ \E r \in Request : waiting[g] = {r}
      BY <1>b DEF IInv, VictimPinned
    <3>2. SameEntry(ft, ft', g)
      BY <1>b, <3>1
    <3>3. QED BY <3>1, <3>2 DEF SameEntry
  <2>2. ReservedUntouched' /\ VictimsManaged'
    BY <1>b DEF IInv, ReservedUntouched, VictimsManaged, SameEntry
  <2>3. QED BY <1>a, <1>b, <2>1, <2>2 DEF IInv, Good, TypeOK
<1>1. ASSUME NEW r \in Request, NEW nomem \in BOOLEAN, AllocFromList(r, nomem) PROVE IInv'
  <2>1. FALSE \in BOOLEAN /\ ft' = AllocEnd(ft, r, FALSE, nomem)
    BY <1>1 DEF AllocFromList
  <2>2. waiting' = waiting /\ unpinned' = unpinned
    BY <1>1 DEF AllocFromList
  <2>3. /\ Good(AllocEnd(ft, r, FALSE, nomem))
        /\ \A g \in Frame : ft.status[g] = "ALLOCATED" =>
              SameEntry(ft, AllocEnd(ft, r, FALSE, nomem), g)
    BY <1>a, <2>1, AllocEndEffect, Zenon
  <2>4. Good(ft') /\ \A g \in Frame : ft.status[g] = "ALLOCATED" => SameEntry(ft, ft', g)
    BY <2>1, <2>3, Zenon
  <2>5. QED BY <1>a, <1>b, <2>2, <2>4
<1>2. ASSUME NEW r \in Request, AllocBySwapping(r) PROVE IInv'
  <2> DEFINE f == SecondChanceVictim(ft)
             t == SecondChanceSweep(ft)
  <2>1. /\ ~HasFree(ft) /\ f # INVALID /\ ft' = FrameLock(t, f)
        /\ waiting' = [waiting EXCEPT ![f] = @ \cup {r}] /\ unpinned' = unpinned
    BY <1>2 DEF AllocBySwapping
  <2>2. f \in Frame /\ ~ft.noswap[f] /\ ~ft.locked[f]
    BY <1>a, <2>1, VictimSwappable
  <2>3. ft.status[f] = "ALLOCATED"
    BY <1>a, <2>1, <2>2, ListTellsTruth DEF Good
  <2>4. f \in Managed
    BY <2>2 DEF IInv, ReservedUntouched
  <2>5. Good(t) /\ \A g \in Frame : SameEntry(ft, t, g)
    BY <1>a, <2>1, SweepEffect
  <2> HIDE DEF f, t
  <2>6. /\ Good(ft') /\ \A g \in Frame : g # f => SameEntry(t, ft', g)
        /\ ft'.status[f] = t.status[f] /\ ft'.noswap[f] = t.noswap[f] /\ ft'.locked[f]
    <3>1. Allocated(t, f)
      BY <2>2, <2>3, <2>4, <2>5 DEF Allocated, SameEntry
    <3>2. Good(FrameLock(t, f)) /\ \A g \in Frame : g # f => SameEntry(t, FrameLock(t, f), g)
      BY <2>2, <2>5, LockEffect
    <3>3. /\ FrameLock(t, f).status[f] = t.status[f]
          /\ FrameLock(t, f).noswap[f] = t.noswap[f] /\ FrameLock(t, f).locked[f]
      BY <2>2, <2>5, <3>1, LockEffect
    <3>4. QED BY <2>1, <3>2, <3>3
  <2>7. /\ waiting' \in [Frame -> SUBSET Request] /\ waiting'[f] = waiting[f] \cup {r}
        /\ \A g \in Frame : g # f => waiting'[g] = waiting[g]
    BY <1>a, <2>1, <2>2
  <2>8. VictimPinned' /\ VictimsManaged'
    <3>1. ASSUME NEW g \in Frame, g \notin unpinned, waiting'[g] # {}
          PROVE  /\ ft'.status[g] = "ALLOCATED" /\ ft'.locked[g] /\ ~ft'.noswap[g]
                 /\ \E q \in Request : waiting'[g] = {q}
      <4>1. CASE g = f
        <5>1. waiting[f] = {}
          BY <2>2, <3>1, <4>1 DEF IInv, VictimPinned
        <5>2. QED BY <2>2, <2>3, <2>5, <2>6, <2>7, <4>1, <5>1 DEF SameEntry
      <4>2. CASE g # f
        <5>1. /\ ft.status[g] = "ALLOCATED" /\ ft.locked[g] /\ ~ft.noswap[g]
              /\ \E q \in Request : waiting[g] = {q}
          BY <2>7, <3>1, <4>2 DEF IInv, VictimPinned
        <5>2. QED BY <2>5, <2>6, <2>7, <4>2, <5>1 DEF SameEntry
      <4>3. QED BY <4>1, <4>2
    <3>2. VictimPinned'
      BY <2>1, <3>1 DEF VictimPinned
    <3>3. VictimsManaged'
      BY <2>4, <2>7 DEF IInv, VictimsManaged
    <3>4. QED BY <3>2, <3>3
  <2>9. ReservedUntouched'
    BY <2>4, <2>5, <2>6 DEF IInv, ReservedUntouched, SameEntry
  <2>10. QED BY <1>a, <2>1, <2>6, <2>7, <2>8, <2>9 DEF IInv, Good, TypeOK
<1>3. ASSUME NEW f \in Frame, NEW r \in Request, NEW nomem \in BOOLEAN, SwapOutDone(f, r, nomem)
      PROVE  IInv'
  <2>1. FALSE \in BOOLEAN
    OBVIOUS
  <2>2. QED BY <1>3, <2>1, SwapOutKeepsIInv, Zenon DEF SwapOutDone
<1>4. ASSUME NEW f \in Frame, NEW r \in Request, SwapOutFailed(f, r) PROVE IInv'
  <2>1. TRUE \in BOOLEAN /\ FALSE \in BOOLEAN
    OBVIOUS
  <2>2. QED BY <1>4, <2>1, SwapOutKeepsIInv, Zenon DEF SwapOutFailed
<1>5. ASSUME NEW f \in Frame, NEW r \in Request, SwapOutOwnerDead(f, r) PROVE IInv'
  <2>1. TRUE \in BOOLEAN /\ FALSE \in BOOLEAN
    OBVIOUS
  <2>2. QED BY <1>5, <2>1, SwapOutKeepsIInv, Zenon DEF SwapOutOwnerDead
<1>6. ASSUME NEW f \in Frame, Free(f) PROVE IInv'
  <2>1. waiting[f] # {} /\ f \notin unpinned => ft.locked[f]
    BY DEF IInv, VictimPinned
  <2>2. Good(ft') /\ \A g \in Frame : g # f => SameEntry(ft, ft', g)
    BY <1>a, <1>6, FreeEffect DEF Free
  <2>3. f \notin Managed \/ ft.locked[f] => ft' = ft
    BY <1>a, <1>6, FreeEffect DEF Free
  <2>4. waiting' = waiting /\ unpinned' = unpinned
    BY <1>6 DEF Free
  <2>5. \A g \in Frame : g \notin Managed \/ (waiting[g] # {} /\ g \notin unpinned) =>
           SameEntry(ft, ft', g)
    BY <2>1, <2>2, <2>3 DEF SameEntry
  <2>6. QED BY <1>a, <1>b, <2>2, <2>4, <2>5
<1>7. ASSUME NEW f \in Frame, Lock(f) PROVE IInv'
  <2>1. /\ Good(ft') /\ \A g \in Frame : g # f => SameEntry(ft, ft', g)
        /\ f \notin Managed => ft' = ft
    BY <1>a, <1>7, LockEffect DEF Lock
  <2>2. /\ ft'.status[f] = ft.status[f] /\ ft'.noswap[f] = ft.noswap[f]
        /\ ft.locked[f] => ft'.locked[f]
    BY <1>a, <1>7, LockEffect DEF Lock
  <2>3. waiting' = waiting /\ unpinned' = unpinned
    BY <1>7 DEF Lock
  <2>4. VictimPinned' /\ VictimsManaged'
    BY <2>1, <2>2, <2>3 DEF IInv, VictimPinned, VictimsManaged, SameEntry
  <2>5. ReservedUntouched'
    BY <2>1 DEF IInv, ReservedUntouched, SameEntry
  <2>6. QED BY <1>a, <2>1, <2>3, <2>4, <2>5 DEF IInv, Good, TypeOK
<1>8. ASSUME NEW f \in Frame, Unlock(f) PROVE IInv'
  <2>1. /\ Good(ft') /\ \A g \in Frame : g # f => SameEntry(ft, ft', g)
        /\ f \notin Managed => ft' = ft
    BY <1>a, <1>8, LockEffect DEF Unlock
  <2>2. /\ waiting' = waiting /\ unpinned \subseteq unpinned' /\ unpinned' \in SUBSET Frame
        /\ waiting[f] # {} => f \in unpinned'
    BY <1>a, <1>8 DEF Unlock
  <2>3. \A g \in Frame : g \notin Managed \/ (waiting[g] # {} /\ g \notin unpinned') =>
           SameEntry(ft, ft', g)
    BY <2>1, <2>2 DEF SameEntry
  <2>4. QED BY <1>b, <2>1, <2>2, <2>3
<1>9. ASSUME NEW f \in Frame, SetReferenced(f) PROVE IInv'
  <2>1. ft' = FrameSetReferenced(ft, f) /\ waiting' = waiting /\ unpinned' = unpinned
    BY <1>9 DEF SetReferenced
  <2>2. Good(ft') /\ \A g \in Frame : SameEntry(ft, ft', g)
    BY <1>a, <2>1, ReferenceEffect
  <2>3. QED BY <1>a, <1>b, <2>1, <2>2
<1>10. CASE UNCHANGED vars
  <2>1. ft' = ft /\ waiting' = waiting /\ unpinned' = unpinned
    BY <1>10 DEF vars
  <2>2. QED BY <1>a, <1>b, <2>1 DEF SameEntry
<1>11. QED
  BY <1>1, <1>2, <1>3, <1>4, <1>5, <1>6, <1>7, <1>8, <1>9, <1>10 DEF Next

\* The invariant holds in every reachable state.
LEMMA AlwaysIInv ==
  Spec => []IInv
BY InitIInv, NextIInv, PTL DEF Spec
-----------------------------------------------------------------------------
(* The theorems.                                                           *)

\* The table and the waiting allocations keep their types through every entry point of
\* frametable.c and every end of a swap-out.
THEOREM TypeCorrect ==
  Spec => []TypeOK
<1>1. IInv => TypeOK
  BY DEF IInv
<1>2. QED BY <1>1, AlwaysIInv, PTL

\* The free list threads every frame that is not allocated exactly once, whatever is
\* allocated, freed, locked or swapped out and in whatever order.
THEOREM FreeListIsExact ==
  Spec => []FreeListExact
<1>1. IInv => FreeListExact
  <2> SUFFICES ASSUME IInv PROVE FreeListExact
    OBVIOUS
  <2>1. PICK n \in Nat : \E s \in [1 .. n -> Frame] : IsFreeList(ft, n, s)
    BY DEF IInv, HasFreeList
  <2>2. PICK s \in [1 .. n -> Frame] : IsFreeList(ft, n, s)
    BY <2>1
  <2>3. s \in Injection(1 .. n, Frame)
    BY <2>2 DEF IsFreeList, Injection, IsInjective
  <2>4. Cardinality(1 .. n) = n
    BY FS_Interval
  <2>5. n <= NFRAMES
    BY <2>3, <2>4, FrameFacts, FS_Injection
  <2>6. n \in 0 .. NFRAMES
    BY <2>5, FrameFacts
  <2>7. s \in [1 .. n -> Available(ft)]
    BY <2>2 DEF IsFreeList
  <2>8. QED BY <2>2, <2>6, <2>7 DEF FreeListExact
<1>2. QED BY <1>1, AlwaysIInv, PTL

\* The assumption of _second_chance_swap_victim and the assertion of _frame_alloc_end.
THEOREM FirstFreeIsRight ==
  Spec => []FirstFreeTellsTruth
<1>1. IInv => FirstFreeTellsTruth
  BY ListTellsTruth DEF IInv, TypeOK, FirstFreeTellsTruth
<1>2. QED BY <1>1, AlwaysIInv, PTL

\* A frame that is being swapped out cannot be freed, handed out or chosen again.
THEOREM VictimsStayPinned ==
  Spec => []VictimPinned
<1>1. IInv => VictimPinned
  BY DEF IInv
<1>2. QED BY <1>1, AlwaysIInv, PTL

\* The frames that hold the frame table itself are never given away.
THEOREM ReservedStayUntouched ==
  Spec => []ReservedUntouched
<1>1. IInv => ReservedUntouched
  BY DEF IInv
<1>2. QED BY <1>1, AlwaysIInv, PTL

\* A successful swap-out gives its frame to the allocation that asked for it.
THEOREM SwapOutGivesFrame ==
  Spec => SwapOutYieldsFrame
<1>1. ASSUME IInv, NEW f \in Frame, f \notin unpinned, NEW r \in waiting[f],
             NEW nomem \in BOOLEAN, SwapOutDone(f, r, nomem)
      PROVE  /\ ft'.status[f] = "ALLOCATED" /\ ft'.as[f] = r.as /\ ft'.vaddr[f] = r.vaddr
             /\ ft'.first = ft.first
  <2> DEFINE t == FrameUnlock(ft, f)
             u == FrameFree(t, f)
  <2>1. ft \in FrameTableType /\ Allocated(ft, f)
    BY <1>1 DEF IInv, TypeOK, VictimPinned, VictimsManaged, Allocated
  <2>2. t \in FrameTableType
    BY <2>1, OperationTypes
  <2>3. t.status = ft.status /\ t.first = ft.first /\ ~t.locked[f]
    BY <2>1 DEF FrameUnlock, FrameTableType
  <2> HIDE DEF t
  <2>4. Allocated(t, f)
    BY <2>1, <2>3 DEF Allocated
  <2>5. u \in FrameTableType
    BY <2>2, OperationTypes
  <2>6. u.first = f /\ u.status[f] = "FREE" /\ u.next[f] = ft.first
    BY <2>2, <2>3, <2>4 DEF FrameFree, FrameTableType
  <2> HIDE DEF u
  <2>7. HasFree(u) /\ ~(u.status[u.first] = "UNTYPED")
    BY <2>6, FrameFacts DEF HasFree
  <2>8. ft' = TakeFrame(u, r.as, r.vaddr, r.noswap)
    BY <1>1, <2>7 DEF SwapOutDone, AllocEnd, t, u
  <2>9. QED BY <2>5, <2>6, <2>8 DEF TakeFrame, FrameTableType
<1>2. IInv /\ [Next]_vars =>
        [\A f \in Frame \ unpinned : \A req \in waiting[f] : \A nomem \in BOOLEAN :
           SwapOutDone(f, req, nomem) =>
             /\ ft'.status[f] = "ALLOCATED" /\ ft'.as[f] = req.as /\ ft'.vaddr[f] = req.vaddr
             /\ ft'.first = ft.first]_vars
  BY <1>1
<1>3. QED BY <1>2, AlwaysIInv, PTL DEF Spec, SwapOutYieldsFrame
=============================================================================
