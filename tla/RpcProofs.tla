----------------------------- MODULE RpcProofs ------------------------------
(***************************************************************************)
(* Rpc implements RemoteCall for any number of calls and restarts, any     *)
(* delays and any losses.  The heart of the argument is that no two calls, *)
(* not even of different lives of SOS, have the same xid (XidsDistinct),   *)
(* so that what get_from_queue finds for a reply is the call that the      *)
(* server has executed, or nothing.                                        *)
(***************************************************************************)
EXTENDS Rpc, FiniteSetTheorems, TLAPS

\* Only calls that were made have left traces.
MadeInOrder ==
    \A c \in Call :
        /\ status[c] = "unused" <=> c > last
        /\ c > last => request[c] = 0 /\ reply[c] = 0

\* A reply in the network comes from a server that has carried out the call.
RepliesExecuted == \A c \in Call : reply[c] > 0 => executed[c]

\* The xids of the calls differ, and are at most cur_xid.
XidsDistinct ==
    /\ \A c, d \in Call : c <= last /\ d <= last /\ xid[c] = xid[d] => c = d
    /\ \A c \in Call : c <= last => xid[c] <= cur_xid

\* The queue holds calls whose owner waits or was refused, and the one rpc_call waits for.
QueueOwned ==
    /\ \A c \in queue : status[c] \in {"waiting", "refused"}
    /\ sync = NoCall => ~complete
    /\ sync # NoCall => stage \in 0 .. (STARTUP - 1)
    /\ sync # NoCall /\ ~complete => sync \in queue /\ status[sync] = "waiting"
    /\ ub => \E c \in Call : status[c] \in {"refused", "late"}

IInv == TypeOK /\ MadeInOrder /\ RepliesExecuted /\ XidsDistinct /\ QueueOwned

-----------------------------------------------------------------------------
(* Small facts.                                                            *)

\* The faults that rpc_timeout and rpc_send count are numbers.
LEMMA CallsAreFinite ==
  ASSUME NEW S \in SUBSET Call
  PROVE  Cardinality(S) \in Nat
<1>1. IsFiniteSet(Call)
  BY RpcAssumption, FS_Interval DEF Call
<1>2. IsFiniteSet(S)
  BY <1>1, FS_Subset
<1>3. QED BY <1>2, FS_CardinalityType

\* When SOS has made at most XID_STEP calls a second, the seed of a later second is not below
\* any xid it has used.
LEMMA SeedsApart ==
  ASSUME NEW t \in Nat, time \in Nat, cur_xid \in Nat, Paced(t)
  PROVE  SeededXid(t) \in Nat /\ cur_xid <= SeededXid(t)
<1>1. (t - time) * XID_STEP = t * XID_STEP - time * XID_STEP
  BY RpcAssumption
<1>2. t * XID_STEP \in Nat /\ time * XID_STEP \in Nat
  BY RpcAssumption
<1>3. QED BY <1>1, <1>2, RpcAssumption DEF SeededXid, Paced

\* Transmit adds copies of the requests of S to the network.
LEMMA TransmitType ==
  ASSUME TypeOK, NEW S \in SUBSET Call, NEW L \in SUBSET Call, Transmit(S, L)
  PROVE  /\ lost' \in Nat /\ request' \in [Call -> 0 .. NETCAP]
         /\ \A c \in Call \ S : request'[c] = request[c]
<1>1. Cardinality(L) \in Nat
  BY CallsAreFinite
<1>2. lost' \in Nat
  BY <1>1 DEF Transmit, TypeOK
<1>3. \A c \in Call : request[c] \in 0 .. NETCAP /\ More(request[c]) \in 0 .. NETCAP
  BY RpcAssumption DEF More, TypeOK
<1>4. QED BY <1>2, <1>3 DEF Transmit

\* What rpc_timeout does, whoever calls it: only the network, the ages and the counts change,
\* and ub becomes true only through a refused call.
LEMMA TimeoutFacts ==
  ASSUME IInv, NEW ms \in Nat, rpc_timeout(ms)
  PROVE  /\ lost' \in Nat /\ refused' \in Nat
         /\ request' \in [Call -> 0 .. NETCAP] /\ timeout' \in [Call -> Nat]
         /\ ub' \in BOOLEAN
         /\ ub' => \E c \in Call : status[c] = "refused" /\ c \in queue
         /\ \A c \in Call \ queue : request'[c] = request[c]
<1> USE DEF IInv
<1> DEFINE age == [c \in Call |-> IF c \in queue THEN timeout[c] + ms ELSE 0]
           due == {c \in queue : age[c] > RETRANSMIT_DELAY}
<1>1. age \in [Call -> Nat]
  BY DEF TypeOK
<1>2. due \in SUBSET Call /\ due \subseteq queue
  BY DEF TypeOK
<1>3. PICK sent \in SUBSET due : \E L \in SUBSET sent :
          /\ refused' = refused + Cardinality(due \ sent)
          /\ Transmit(sent, L)
          /\ timeout' = [c \in Call |-> IF c \in sent \/ c \notin queue' THEN 0 ELSE age[c]]
          /\ ub' = \E c \in due : PcbRemoved(c)
  BY Zenon DEF rpc_timeout
<1>4. PICK L \in SUBSET sent :
          /\ refused' = refused + Cardinality(due \ sent)
          /\ Transmit(sent, L)
          /\ timeout' = [c \in Call |-> IF c \in sent \/ c \notin queue' THEN 0 ELSE age[c]]
          /\ ub' = \E c \in due : PcbRemoved(c)
  BY <1>3
<1> HIDE DEF age, due
<1>5. lost' \in Nat /\ request' \in [Call -> 0 .. NETCAP]
      /\ \A c \in Call \ sent : request'[c] = request[c]
  BY <1>2, <1>4, TransmitType
<1>6. refused' \in Nat
  <2>1. due \ sent \in SUBSET Call
    BY <1>2
  <2>2. Cardinality(due \ sent) \in Nat
    BY <2>1, CallsAreFinite
  <2>3. QED BY <2>2, <1>4 DEF TypeOK
<1>7. timeout' \in [Call -> Nat]
  BY <1>1, <1>4
<1>8. ub' \in BOOLEAN /\ (ub' => \E c \in Call : status[c] = "refused" /\ c \in queue)
  BY <1>2, <1>4 DEF PcbRemoved
<1>9. QED BY <1>2, <1>5, <1>6, <1>7, <1>8
-----------------------------------------------------------------------------
(* Every step preserves the invariant and is a step of RemoteCall, or none. *)

AbstractStep == Abstract!Next \/ UNCHANGED <<Phase, executed, answer>>

\* rpc_send: the new call gets an xid above all others; it is issued, or refused at once.
LEMMA SendStep ==
  ASSUME IInv, ~ub, last < MAXCALLS, NEW p \in 0 .. STARTUP, NEW ok \in BOOLEAN,
         rpc_send(last + 1, p, ok),
         UNCHANGED <<time, complete, answer, reply, executed, ub>>,
         IF ok /\ p # 0 THEN sync = NoCall /\ sync' = last + 1 ELSE sync' = sync,
         left' \in Nat, stage' \in {OFF} \cup (0 .. STARTUP),
         sync' # NoCall => stage' \in 0 .. (STARTUP - 1)
  PROVE  IInv' /\ AbstractStep
<1> DEFINE c == last + 1
<1> USE DEF IInv
<1>1. c \in Call /\ status[c] = "unused" /\ c \notin queue /\ last \in Nat
      /\ request[c] = 0 /\ reply[c] = 0 /\ c # NoCall
  <2>1. last \in Nat /\ c \in Call /\ c # NoCall /\ c > last
    BY RpcAssumption DEF TypeOK, Call, NoCall
  <2>2. status[c] = "unused" /\ request[c] = 0 /\ reply[c] = 0
    BY <2>1 DEF MadeInOrder
  <2>3. QED BY <2>1, <2>2 DEF QueueOwned
<1>2. PICK L \in SUBSET {c} : Transmit(IF ok THEN {c} ELSE {}, IF ok THEN L ELSE {})
  BY DEF rpc_send
<1>3. lost' \in Nat /\ request' \in [Call -> 0 .. NETCAP]
      /\ \A d \in Call \ {c} : request'[d] = request[d]
  <2> DEFINE S == IF ok THEN {c} ELSE {}
             M == IF ok THEN L ELSE {}
  <2>1. S \in SUBSET Call /\ M \in SUBSET Call /\ S \subseteq {c}
    BY <1>1
  <2>2. Transmit(S, M)
    BY <1>2
  <2> HIDE DEF S, M
  <2>3. QED BY <2>1, <2>2, TransmitType
<1>4. /\ cur_xid' = cur_xid + 1 /\ xid' = [xid EXCEPT ![c] = cur_xid + 1]
      /\ port' = [port EXCEPT ![c] = p] /\ last' = c
      /\ queue' = queue \cup {c} /\ timeout' = [timeout EXCEPT ![c] = 0]
      /\ status' = [status EXCEPT ![c] = IF ok THEN "waiting" ELSE "refused"]
      /\ refused' = IF ok THEN refused ELSE refused + 1
  BY DEF rpc_send, add_to_queue, get_xid
<1>5. TypeOK'
  <2>1. sync' \in Call \cup {NoCall}
    BY <1>1 DEF TypeOK
  <2>2. status' \in [Call -> Statuses]
    BY <1>4, Zenon DEF TypeOK, Statuses
  <2>3. last' \in 0 .. MAXCALLS
    BY <1>1, <1>4, RpcAssumption DEF TypeOK
  <2>4. QED BY <1>1, <1>3, <1>4, <2>1, <2>2, <2>3 DEF TypeOK
<1>6. MadeInOrder'
  BY <1>1, <1>3, <1>4, SMTT(30) DEF MadeInOrder, TypeOK, Call
<1>7. RepliesExecuted'
  BY DEF RepliesExecuted
<1>8. XidsDistinct'
  <2>1. \A d \in Call : d <= last' => d = c \/ d <= last
    BY <1>1, <1>4 DEF Call
  <2>2. \A d \in Call : d <= last' => xid'[d] <= cur_xid'
    BY <1>1, <1>4, <2>1 DEF XidsDistinct, TypeOK
  <2>3. \A d, e \in Call : d <= last' /\ e <= last' /\ xid'[d] = xid'[e] => d = e
    BY <1>1, <1>4, <2>1 DEF XidsDistinct, TypeOK
  <2>4. QED BY <2>2, <2>3 DEF XidsDistinct
<1>9. QueueOwned'
  <2>1. \A d \in queue' : status'[d] \in {"waiting", "refused"}
    BY <1>1, <1>4 DEF QueueOwned, TypeOK
  <2>2. sync' = NoCall => ~complete'
    BY <1>1 DEF QueueOwned
  <2>3. sync' # NoCall /\ ~complete' => sync' \in queue' /\ status'[sync'] = "waiting"
    <3>1. CASE ok /\ p # 0
      BY <1>1, <1>4, <3>1 DEF TypeOK
    <3>2. CASE ~(ok /\ p # 0)
      BY <1>1, <1>4, <3>2 DEF QueueOwned, TypeOK
    <3>3. QED BY <3>1, <3>2
  <2>4. QED BY <2>1, <2>2, <2>3 DEF QueueOwned
<1>10. AbstractStep
  <2>1. Phase[c] = "unused"
    BY <1>1 DEF Phase, PhaseOf
  <2>2. Phase' = [Phase EXCEPT ![c] = IF ok THEN "pending" ELSE "refused"]
    BY <1>1, <1>4, Zenon DEF Phase, PhaseOf, TypeOK
  <2>3. Abstract!Issue(c) \/ Abstract!Refuse(c)
    BY <2>1, <2>2, Zenon DEF Abstract!Issue, Abstract!Refuse
  <2>4. QED BY <1>1, <2>3 DEF AbstractStep, Abstract!Next
<1>11. QED BY <1>5, <1>6, <1>7, <1>8, <1>9, <1>10

\* rpc_call begins: its request is sent, or it returns at once.
LEMMA CallBeginsStep ==
  ASSUME IInv, ~ub, NEW ok \in BOOLEAN, CallBegins(ok)
  PROVE  IInv' /\ AbstractStep
<1>1. stage \in 0 .. (STARTUP - 1) /\ stage + 1 \in 0 .. STARTUP /\ stage + 1 # 0
  BY RpcAssumption DEF CallBegins
<1>2. RETRANSMIT_DELAY * (CALL_RETRIES + 1) \in Nat
  BY RpcAssumption
<1>3. left' \in Nat /\ stage' \in {OFF} \cup (0 .. STARTUP)
  BY <1>1, <1>2, RpcAssumption DEF CallBegins, Returned, IInv, TypeOK
<1>4. IF ok /\ stage + 1 # 0 THEN sync = NoCall /\ sync' = last + 1 ELSE sync' = sync
  BY <1>1, Zenon DEF CallBegins
<1>5. rpc_send(last + 1, stage + 1, ok) /\ last < MAXCALLS
      /\ UNCHANGED <<time, complete, answer, reply, executed, ub>>
  BY DEF CallBegins
<1>6. sync' # NoCall => stage' \in 0 .. (STARTUP - 1)
  BY <1>1, Zenon DEF CallBegins
<1>7. QED BY <1>1, <1>3, <1>4, <1>5, <1>6, SendStep

\* An asynchronous call is sent, or refused.
LEMMA NfsCallStep ==
  ASSUME IInv, ~ub, NEW ok \in BOOLEAN, NfsCall(ok)
  PROVE  IInv' /\ AbstractStep
<1>1. 0 \in 0 .. STARTUP /\ left' \in Nat /\ stage' \in {OFF} \cup (0 .. STARTUP)
  BY RpcAssumption DEF NfsCall, IInv, TypeOK
<1>2. IF ok /\ 0 # 0 THEN sync = NoCall /\ sync' = last + 1 ELSE sync' = sync
  BY DEF NfsCall
<1>3. rpc_send(last + 1, 0, ok) /\ last < MAXCALLS
      /\ UNCHANGED <<time, complete, answer, reply, executed, ub>>
  BY DEF NfsCall
<1>4. sync' = NoCall
  BY RpcAssumption DEF NfsCall, IInv, QueueOwned
<1>5. QED BY <1>1, <1>2, <1>3, <1>4, SendStep

\* rpc_call returns with its answer: nothing changes for the call.
LEMMA CallReturnsStep ==
  ASSUME IInv, ~ub, NEW ok \in BOOLEAN, CallReturns(ok)
  PROVE  IInv' /\ AbstractStep
<1> USE DEF IInv, CallReturns
<1>1. stage' \in {OFF} \cup (0 .. STARTUP)
  BY RpcAssumption DEF Returned, QueueOwned
<1>2. TypeOK'
  BY <1>1, Zenon DEF TypeOK
<1>3. MadeInOrder' /\ RepliesExecuted' /\ XidsDistinct'
  BY DEF MadeInOrder, RepliesExecuted, XidsDistinct
<1>4. QueueOwned'
  BY DEF QueueOwned
<1>5. AbstractStep
  BY DEF AbstractStep, Phase
<1>6. QED BY <1>2, <1>3, <1>4, <1>5

\* rpc_call waits on, or gives up and takes its call out of the queue.
LEMMA CallPollsStep ==
  ASSUME IInv, ~ub, CallPolls
  PROVE  IInv' /\ AbstractStep
<1> USE DEF IInv
<1>1. CALL_TIMEOUT \in Nat /\ rpc_timeout(CALL_TIMEOUT)
  BY RpcAssumption DEF CallPolls
<1>2. /\ lost' \in Nat /\ refused' \in Nat
      /\ request' \in [Call -> 0 .. NETCAP] /\ timeout' \in [Call -> Nat]
      /\ ub' \in BOOLEAN
      /\ ub' => \E c \in Call : status[c] = "refused" /\ c \in queue
      /\ \A c \in Call \ queue : request'[c] = request[c]
  BY <1>1, TimeoutFacts
<1>3. sync \in queue /\ status[sync] = "waiting" /\ sync \in Call
      /\ stage \in 0 .. (STARTUP - 1) /\ ~complete /\ sync # NoCall
  BY DEF CallPolls, QueueOwned, TypeOK
<1>4. UNCHANGED <<time, cur_xid, complete, last, xid, port, answer, reply, executed>>
  BY DEF CallPolls
<1>5. CASE left >= CALL_TIMEOUT
  <2>1. left' = left - CALL_TIMEOUT /\ UNCHANGED <<queue, status, sync, stage>>
    BY <1>5 DEF CallPolls
  <2>2. left' \in Nat
    BY <1>1, <1>5, <2>1 DEF TypeOK
  <2>3. TypeOK'
    BY <1>2, <1>4, <2>1, <2>2 DEF TypeOK
  <2>4. MadeInOrder'
    BY <1>2, <1>4, <2>1 DEF MadeInOrder, QueueOwned, TypeOK
  <2>5. RepliesExecuted' /\ XidsDistinct'
    BY <1>4 DEF RepliesExecuted, XidsDistinct
  <2>6. QueueOwned'
    BY <1>2, <1>3, <1>4, <2>1 DEF QueueOwned
  <2>7. AbstractStep
    BY <1>4, <2>1 DEF AbstractStep, Phase
  <2>8. QED BY <2>3, <2>4, <2>5, <2>6, <2>7
<1>6. CASE ~(left >= CALL_TIMEOUT)
  <2>1. /\ queue' = queue \ {sync} /\ status' = [status EXCEPT ![sync] = "gaveup"]
        /\ sync' = NoCall /\ left' = 0 /\ Returned(FALSE)
    BY <1>6, Zenon DEF CallPolls
  <2>2. stage' \in {OFF} \cup (0 .. STARTUP)
    BY <1>3, <2>1, RpcAssumption DEF Returned
  <2>3. TypeOK'
    BY <1>2, <1>4, <2>1, <2>2, Zenon DEF TypeOK, Statuses
  <2>4. MadeInOrder'
    BY <1>2, <1>3, <1>4, <2>1 DEF MadeInOrder, QueueOwned, TypeOK
  <2>5. RepliesExecuted' /\ XidsDistinct'
    BY <1>4 DEF RepliesExecuted, XidsDistinct
  <2>6. QueueOwned'
    <3>1. \A c \in queue' : status'[c] \in {"waiting", "refused"}
      BY <1>3, <2>1 DEF QueueOwned, TypeOK
    <3>2. ub' => \E c \in Call : status'[c] \in {"refused", "late"}
      BY <1>2, <1>3, <2>1 DEF TypeOK
    <3>3. QED BY <1>3, <1>4, <2>1, <3>1, <3>2 DEF QueueOwned
  <2>7. AbstractStep
    <3>1. Phase' = [c \in Call |-> IF c \in {sync} THEN "abandoned" ELSE Phase[c]]
      BY <2>1 DEF Phase, PhaseOf, TypeOK
    <3>2. \A c \in {sync} : Phase[c] = "pending"
      BY <1>3 DEF Phase, PhaseOf
    <3>3. Abstract!Abandon({sync}) /\ {sync} \in SUBSET Call
      BY <1>3, <1>4, <3>1, <3>2 DEF Abstract!Abandon
    <3>4. QED BY <3>3 DEF AbstractStep, Abstract!Next
  <2>8. QED BY <2>3, <2>4, <2>5, <2>6, <2>7
<1>7. QED BY <1>5, <1>6

\* Retransmission by the timer of nfs_dev.c changes nothing that RemoteCall sees.
LEMMA NfsTimeoutStep ==
  ASSUME IInv, ~ub, NfsTimeout
  PROVE  IInv' /\ AbstractStep
<1> USE DEF IInv
<1>1. NFS_TICK \in Nat /\ rpc_timeout(NFS_TICK)
      /\ UNCHANGED <<sosVars, queue, status, answer, reply, executed>>
  BY RpcAssumption DEF NfsTimeout
<1>2. /\ lost' \in Nat /\ refused' \in Nat
      /\ request' \in [Call -> 0 .. NETCAP] /\ timeout' \in [Call -> Nat]
      /\ ub' \in BOOLEAN
      /\ ub' => \E c \in Call : status[c] = "refused" /\ c \in queue
      /\ \A c \in Call \ queue : request'[c] = request[c]
  BY <1>1, TimeoutFacts
<1>3. TypeOK'
  BY <1>1, <1>2 DEF TypeOK, sosVars
<1>4. MadeInOrder'
  BY <1>1, <1>2 DEF MadeInOrder, QueueOwned, TypeOK, sosVars
<1>5. RepliesExecuted' /\ XidsDistinct'
  BY <1>1 DEF RepliesExecuted, XidsDistinct, sosVars
<1>6. QueueOwned'
  BY <1>1, <1>2 DEF QueueOwned, sosVars
<1>7. AbstractStep
  BY <1>1 DEF AbstractStep, Phase
<1>8. QED BY <1>3, <1>4, <1>5, <1>6, <1>7

\* The server carries out a call that was made.
LEMMA ServerStep ==
  ASSUME IInv, ~ub, NEW c \in Call, ServerExecutes(c)
  PROVE  IInv' /\ AbstractStep
<1> USE DEF IInv
<1>1. /\ request[c] > 0 /\ request' = [request EXCEPT ![c] = @ - 1]
      /\ executed' = [executed EXCEPT ![c] = TRUE]
      /\ UNCHANGED <<sosVars, queue, timeout, status, answer, refused, ub>>
  BY DEF ServerExecutes
<1>2. /\ reply' \in [Call -> 0 .. NETCAP] /\ lost' \in Nat
      /\ \A d \in Call \ {c} : reply'[d] = reply[d]
  <2>1. More(reply[c]) \in 0 .. NETCAP
    BY RpcAssumption DEF More, TypeOK
  <2>2. QED BY <2>1 DEF ServerExecutes, TypeOK
<1>3. TypeOK'
  <2>1. request' \in [Call -> 0 .. NETCAP]
    BY <1>1, RpcAssumption DEF TypeOK
  <2>2. executed' \in [Call -> BOOLEAN]
    BY <1>1 DEF TypeOK
  <2>3. QED BY <1>1, <1>2, <2>1, <2>2 DEF TypeOK, sosVars
<1>4. MadeInOrder'
  BY <1>1, <1>2 DEF MadeInOrder, TypeOK, sosVars
<1>5. RepliesExecuted'
  BY <1>1, <1>2 DEF RepliesExecuted, TypeOK
<1>6. XidsDistinct' /\ QueueOwned'
  BY <1>1 DEF XidsDistinct, QueueOwned, sosVars
<1>7. AbstractStep
  <2>1. Phase[c] # "unused"
    BY <1>1 DEF MadeInOrder, Phase, PhaseOf, TypeOK
  <2>2. Phase' = Phase /\ answer' = answer
    BY <1>1 DEF Phase
  <2>3. Abstract!Execute(c)
    BY <1>1, <2>1, <2>2 DEF Abstract!Execute
  <2>4. QED BY <2>3 DEF AbstractStep, Abstract!Next
<1>8. QED BY <1>3, <1>4, <1>5, <1>6, <1>7

\* my_recv: the call found in the queue has the xid of the reply, hence is the call the server
\* has executed.
LEMMA ReceiveStep ==
  ASSUME IInv, ~ub, NEW c \in Call, my_recv(c)
  PROVE  IInv' /\ AbstractStep
<1> USE DEF IInv
<1>1. /\ reply[c] > 0 /\ reply' = [reply EXCEPT ![c] = @ - 1]
      /\ UNCHANGED <<time, stage, cur_xid, sync, left, last, xid, port,
                     request, executed, lost, refused>>
  BY DEF my_recv
<1>2. reply' \in [Call -> 0 .. NETCAP] /\ \A d \in Call : reply'[d] > 0 => reply[d] > 0
  BY <1>1, RpcAssumption DEF TypeOK
<1>3. RepliesExecuted' /\ XidsDistinct'
  BY <1>1, <1>2 DEF RepliesExecuted, XidsDistinct
<1>4. c <= last /\ executed[c]
  BY <1>1, RpcAssumption DEF MadeInOrder, RepliesExecuted, TypeOK, Call
<1>5. CASE UNCHANGED <<queue, timeout, status, answer, complete, ub>>
  <2>1. TypeOK'
    BY <1>1, <1>2, <1>5 DEF TypeOK
  <2>2. MadeInOrder'
    BY <1>1, <1>2, <1>5 DEF MadeInOrder, TypeOK
  <2>3. QueueOwned'
    BY <1>1, <1>5 DEF QueueOwned
  <2>4. AbstractStep
    BY <1>1, <1>5 DEF AbstractStep, Phase
  <2>5. QED BY <1>3, <2>1, <2>2, <2>3, <2>4
<1>6. ASSUME NEW q \in get_from_queue(c),
             queue' = queue \ {q}, timeout' = [timeout EXCEPT ![q] = 0],
             status' = [status EXCEPT ![q] = IF @ = "refused" THEN "late" ELSE "answered"],
             answer' = [answer EXCEPT ![q] = c],
             complete' = (complete \/ q = sync),
             ub' = (status[q] # "waiting")
      PROVE  IInv' /\ AbstractStep
  <2>1. q \in queue /\ q \in Call /\ xid[q] = xid[c] /\ status[q] \in {"waiting", "refused"}
    BY <1>6 DEF get_from_queue, TypeOK, QueueOwned
  <2>2. q <= last
    <3>1. status[q] # "unused"
      BY <2>1
    <3>2. q \in Int /\ last \in Int
      BY <2>1, RpcAssumption DEF TypeOK, Call
    <3>3. QED BY <2>1, <3>1, <3>2 DEF MadeInOrder
  <2>3. q = c
    BY <1>4, <2>1, <2>2 DEF XidsDistinct
  <2>4. timeout' \in [Call -> Nat] /\ queue' \in SUBSET Call
    BY <1>6, <2>1 DEF TypeOK
  <2>5. /\ status' = [status EXCEPT ![c] = IF @ = "refused" THEN "late" ELSE "answered"]
        /\ answer' = [answer EXCEPT ![c] = c]
        /\ complete' = (complete \/ c = sync) /\ ub' = (status[c] # "waiting")
    BY <1>6, <2>3
  <2>6. status[c] \in {"waiting", "refused"} /\ status'[c] \in {"late", "answered"}
        /\ (ub' => status'[c] = "late")
    BY <2>1, <2>3, <2>5 DEF TypeOK
  <2>7. TypeOK'
    <3>1. status' \in [Call -> Statuses] /\ answer' \in [Call -> Call \cup {NoCall}]
      BY <2>5 DEF TypeOK, Statuses
    <3>2. complete' \in BOOLEAN /\ ub' \in BOOLEAN
      BY <2>5, Zenon
    <3>3. QED BY <1>1, <1>2, <2>4, <3>1, <3>2 DEF TypeOK
  <2>8. MadeInOrder'
    BY <1>1, <1>2, <2>5, <2>6 DEF MadeInOrder, TypeOK
  <2>9. QueueOwned'
    <3>1. \A d \in queue' : status'[d] \in {"waiting", "refused"}
      BY <1>6, <2>3, <2>5 DEF QueueOwned, TypeOK
    <3>2. sync' = NoCall => ~complete'
      <4>1. c # NoCall
        BY DEF NoCall, Call
      <4>2. QED BY <1>1, <2>5, <4>1, Zenon DEF QueueOwned
    <3>3. sync' # NoCall /\ ~complete' => sync' \in queue' /\ status'[sync'] = "waiting"
      BY <1>1, <1>6, <2>3, <2>5, Zenon DEF QueueOwned, TypeOK
    <3>4. ub' => \E d \in Call : status'[d] \in {"refused", "late"}
      BY <2>6
    <3>5. QED BY <1>1, <3>1, <3>2, <3>3, <3>4 DEF QueueOwned
  <2>10. AbstractStep
    <3>1. Phase[c] \in {"pending", "refused"}
      BY <2>6 DEF Phase, PhaseOf
    <3>2. Phase' = [Phase EXCEPT ![c] = "answered"]
      <4>1. PhaseOf(status'[c]) = "answered"
        BY <2>6 DEF PhaseOf
      <4>2. \A d \in Call \ {c} : status'[d] = status[d]
        BY <2>5 DEF TypeOK
      <4>3. QED BY <4>1, <4>2, Zenon DEF Phase
    <3>3. Abstract!Answer(c)
      BY <1>1, <1>4, <2>5, <3>1, <3>2 DEF Abstract!Answer
    <3>4. QED BY <3>3 DEF AbstractStep, Abstract!Next
  <2>11. QED BY <1>3, <2>7, <2>8, <2>9, <2>10
<1>7. QED BY <1>5, <1>6, Zenon DEF my_recv

\* A restart: every call that waited is abandoned at once, and the new xids are above the old.
LEMMA RestartStep ==
  ASSUME IInv, ~ub, NEW t \in 1 .. MAXTIME, Restart(t)
  PROVE  IInv' /\ AbstractStep
<1> USE DEF IInv, Restart
<1>1. SeededXid(t) \in Nat /\ cur_xid <= SeededXid(t)
  <2>1. time \in Nat /\ t \in Nat /\ cur_xid \in Nat /\ Paced(t)
    BY RpcAssumption DEF TypeOK
  <2>2. QED BY <2>1, SeedsApart
<1>2. TypeOK'
  <2>1. time' \in 1 .. MAXTIME /\ 0 \in 0 .. STARTUP
    BY RpcAssumption DEF TypeOK
  <2>2. status' \in [Call -> Statuses]
    BY DEF TypeOK, Statuses
  <2>3. QED BY <1>1, <2>1, <2>2, Zenon DEF TypeOK
<1>3. MadeInOrder'
  BY DEF MadeInOrder, TypeOK
<1>4. RepliesExecuted'
  BY DEF RepliesExecuted
<1>5. XidsDistinct'
  BY <1>1 DEF XidsDistinct, TypeOK
<1>6. QueueOwned'
  BY DEF QueueOwned
<1>7. AbstractStep
  <2> DEFINE S == {c \in Call : status[c] = "waiting"}
  <2>1. Phase' = [c \in Call |-> IF c \in S THEN "abandoned" ELSE Phase[c]]
    BY DEF Phase, PhaseOf
  <2>2. \A c \in S : Phase[c] = "pending"
    BY DEF Phase, PhaseOf
  <2>3. Abstract!Abandon(S) /\ S \in SUBSET Call
    BY <2>1, <2>2 DEF Abstract!Abandon
  <2>4. QED BY <2>3 DEF AbstractStep, Abstract!Next
<1>8. QED BY <1>2, <1>3, <1>4, <1>5, <1>6, <1>7

\* A SOS that starts satisfies the invariant, and RemoteCall has made no call.
LEMMA InitHolds == Init => IInv /\ Abstract!Init
<1> SUFFICES ASSUME Init PROVE IInv /\ Abstract!Init
  OBVIOUS
<1> USE DEF Init
<1>1. SeededXid(1) \in Nat /\ SeededXid(1) = 1 * XID_STEP
  BY RpcAssumption DEF SeededXid
<1>2. TypeOK
  <2>1. 1 \in 1 .. MAXTIME /\ 0 \in 0 .. STARTUP /\ 0 \in 0 .. MAXCALLS /\ 0 \in 0 .. NETCAP
    BY RpcAssumption
  <2>2. status \in [Call -> Statuses] /\ executed \in [Call -> BOOLEAN]
    BY DEF Statuses
  <2>3. QED BY <1>1, <2>1, <2>2, Zenon DEF TypeOK
<1>3. MadeInOrder /\ RepliesExecuted /\ QueueOwned
  BY RpcAssumption DEF MadeInOrder, RepliesExecuted, QueueOwned, Call
<1>4. XidsDistinct
  BY <1>1, RpcAssumption DEF XidsDistinct, Call
<1>5. Abstract!Init
  BY DEF Abstract!Init, Phase, PhaseOf
<1>6. QED BY <1>2, <1>3, <1>4, <1>5 DEF IInv

\* All steps of SOS, of the server and of the network together.
LEMMA NextHolds == IInv /\ [Next]_vars => IInv' /\ AbstractStep
<1> SUFFICES ASSUME IInv, [Next]_vars PROVE IInv' /\ AbstractStep
  OBVIOUS
<1>1. CASE UNCHANGED vars
  BY <1>1 DEF vars, IInv, TypeOK, MadeInOrder, RepliesExecuted, XidsDistinct, QueueOwned,
              AbstractStep, Phase
<1>2. CASE Next
  BY <1>2, CallBeginsStep, CallReturnsStep, NfsCallStep, CallPollsStep, NfsTimeoutStep,
     RestartStep, ServerStep, ReceiveStep DEF Next
<1>3. QED BY <1>1, <1>2

\* In every execution of rpc.c the queue refers only to calls whose owner waits or was refused,
\* and rpc_call finds the call it gives up in the queue.
THEOREM QueueAlwaysOwned == Spec => []QueueHasOwners
<1>1. IInv => QueueHasOwners
  BY DEF IInv, QueueOwned, QueueHasOwners
<1>2. QED BY <1>1, InitHolds, NextHolds, PTL DEF Spec

\* rpc.c implements RemoteCall: a call is answered at most once, with the reply to that call,
\* after the server has executed it, and never once rpc_call gave it up or SOS restarted.
THEOREM RpcRefines == Spec => RefinesRemoteCall
<1>1. AbstractStep => [Abstract!Next]_(Abstract!vars)
  BY DEF AbstractStep, Abstract!vars
<1>2. QED BY <1>1, InitHolds, NextHolds, PTL DEF Spec, RefinesRemoteCall, Abstract!Spec
=============================================================================
