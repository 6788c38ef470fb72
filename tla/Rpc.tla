-------------------------------- MODULE Rpc ---------------------------------
(***************************************************************************)
(* The remote procedure calls of libnfs (libs/libnfs/src/rpc.c) between    *)
(* SOS and the NFS server, over a network that loses, delays, reorders and *)
(* (through retransmission) duplicates packets.                            *)
(*                                                                         *)
(* When SOS starts it makes STARTUP synchronous calls one after another    *)
(* (rpc_call: nfs_init, nfs_print_exports and nfs_mount ask the port       *)
(* mapper and the mount daemon), polling the network meanwhile.  From then *)
(* on its calls are asynchronous (rpc_send), and a 100 ms timer of         *)
(* nfs_dev.c retransmits what was not answered.  SOS may restart at any    *)
(* time; the packets of its former life are still in the network.          *)
(*                                                                         *)
(* A call is named by the order in which it was made.  What a packet       *)
(* carries is the call it belongs to; the code only sees its xid, and the  *)
(* port it arrives at.  The queue is a list searched by xid, and here the  *)
(* set of the calls in it.  A request for which there is no packet buffer  *)
(* (RPCERR_NOBUF) never gets as far as this layer.                         *)
(***************************************************************************)
EXTENDS Integers, FiniteSets

CONSTANTS
    MAXCALLS,          \* bound: calls made in all the lives of SOS together
    MAXTIME,           \* bound: the last second in which SOS starts
    STARTUP,           \* synchronous calls SOS makes while it starts
    RETRANSMIT_DELAY,  \* RETRANSMIT_DELAY_MS
    CALL_TIMEOUT,      \* CALL_TIMEOUT_MS
    CALL_RETRIES,      \* CALL_RETRIES
    NFS_TICK,          \* NFS_TIMEOUT: the argument of rpc_timeout in nfs_timeout
    XID_STEP,          \* the distance of the xids of two seconds: 10000 in seed_xid
    NETCAP,            \* bound: copies of one packet in the network
    MAXLOSS,           \* bound: packets the network loses
    MAXREFUSED         \* bound: sends that fail in SOS (udp_send, pbuf_new)

ASSUME RpcAssumption ==
    /\ MAXCALLS \in Nat \ {0} /\ MAXTIME \in Nat \ {0} /\ STARTUP \in Nat \ {0}
    /\ RETRANSMIT_DELAY \in Nat /\ CALL_TIMEOUT \in Nat \ {0} /\ CALL_RETRIES \in Nat
    /\ NFS_TICK \in Nat \ {0} /\ NETCAP \in Nat \ {0}
    /\ MAXLOSS \in Nat /\ MAXREFUSED \in Nat
    /\ XID_STEP \in Nat

Call == 1 .. MAXCALLS

NoCall == 0

OFF == -1      \* the stage of a SOS that could not find the NFS server

VARIABLES
    \* SOS
    time,      \* the second in which SOS last started, on the clock of the server
    stage,     \* start-up calls that have returned; OFF after a failed nfs_init
    cur_xid,
    queue,     \* calls in the queue
    timeout,   \* timeout[c]: q_item->timeout (0 when c is not in the queue)
    sync,      \* the call rpc_call waits for, or NoCall
    left,      \* time_out of that call
    complete,  \* call_arg.complete of that call
    \* the calls
    last,      \* calls made so far
    xid,       \* xid[c]
    port,      \* port[c]: the pcb of c: 0 is _nfs_pcb, n that of the n-th start-up call
    status,    \* status[c]: what the owner of c knows
    answer,    \* answer[c]: the call whose reply the callback of c was given
    \* the rest of the world
    request,   \* request[c]: copies of the request in the network
    reply,     \* reply[c]: copies of the reply in the network
    executed,  \* executed[c]: the server has carried out c
    lost,      \* packets lost so far
    refused,   \* sends that have failed so far
    ub         \* SOS has used a call_arg, a continuation or a pcb that is gone

sosVars == <<time, stage, cur_xid, sync, left, complete, last, xid, port>>
vars == <<time, stage, cur_xid, queue, timeout, sync, left, complete, last, xid, port,
          status, answer, request, reply, executed, lost, refused, ub>>

\* What the owner of a call knows: it was not made; it waits; it got the answer; rpc_call gave
\* it up; rpc_send could not send it; the same, but the answer came later; SOS restarted.
Statuses == {"unused", "waiting", "answered", "gaveup", "refused", "late", "forgotten"}

\* Every variable keeps its type.
TypeOK ==
    /\ time \in 1 .. MAXTIME /\ stage \in {OFF} \cup (0 .. STARTUP) /\ cur_xid \in Nat
    /\ queue \in SUBSET Call /\ timeout \in [Call -> Nat]
    /\ sync \in Call \cup {NoCall} /\ left \in Nat /\ complete \in BOOLEAN
    /\ last \in 0 .. MAXCALLS /\ xid \in [Call -> Nat] /\ port \in [Call -> 0 .. STARTUP]
    /\ status \in [Call -> Statuses] /\ answer \in [Call -> Call \cup {NoCall}]
    /\ request \in [Call -> 0 .. NETCAP] /\ reply \in [Call -> 0 .. NETCAP]
    /\ executed \in [Call -> BOOLEAN]
    /\ lost \in Nat /\ refused \in Nat /\ ub \in BOOLEAN

\* seed_xid: the time of the server in seconds, times 10000.
UnseededXid(t) == 100
SeededXid(t) == t * XID_STEP

Init ==
    /\ time = 1 /\ stage = 0 /\ cur_xid = SeededXid(1)
    /\ queue = {} /\ timeout = [c \in Call |-> 0]
    /\ sync = NoCall /\ left = 0 /\ complete = FALSE
    /\ last = 0
    /\ xid = [c \in Call |-> 0] /\ port = [c \in Call |-> 0]
    /\ status = [c \in Call |-> "unused"] /\ answer = [c \in Call |-> NoCall]
    /\ request = [c \in Call |-> 0] /\ reply = [c \in Call |-> 0]
    /\ executed = [c \in Call |-> FALSE]
    /\ lost = 0 /\ refused = 0 /\ ub = FALSE

-----------------------------------------------------------------------------
\* One more copy of a packet in the network (external).
More(copies) == IF copies < NETCAP THEN copies + 1 ELSE copies

\* udp_send on the packets of the calls in S, those in L being lost on the way (external).
Transmit(S, L) ==
    /\ lost + Cardinality(L) <= MAXLOSS
    /\ lost' = lost + Cardinality(L)
    /\ request' = [c \in Call |-> IF c \in S \ L THEN More(request[c]) ELSE request[c]]

\* rpcpbuf_init numbers the request (get_xid), and add_to_queue queues it.
get_xid == cur_xid + 1

add_to_queue(c, pcb) ==
    /\ cur_xid' = get_xid
    /\ xid' = [xid EXCEPT ![c] = get_xid]
    /\ port' = [port EXCEPT ![c] = pcb]
    /\ queue' = queue \cup {c}
    /\ timeout' = [timeout EXCEPT ![c] = 0]

\* rpc_send: queue the request, then send it.  When sending fails (ok is false) the status is
\* returned and the request stays in the queue.
rpc_send(c, pcb, ok) ==
    /\ last' = c
    /\ add_to_queue(c, pcb)
    /\ status' = [status EXCEPT ![c] = IF ok THEN "waiting" ELSE "refused"]
    /\ \E L \in SUBSET {c} : Transmit(IF ok THEN {c} ELSE {}, IF ok THEN L ELSE {})
    /\ ok \/ refused < MAXREFUSED
    /\ refused' = IF ok THEN refused ELSE refused + 1

\* The pcb of a start-up call whose first send failed was removed (udp_remove after rpc_call).
PcbRemoved(c) == status[c] = "refused" /\ port[c] # 0

\* rpc_timeout: every item ages; one that is too old is sent again, and again at the next tick
\* if that fails.
rpc_timeoutSilent(ms) ==
    LET age == [c \in Call |-> IF c \in queue THEN timeout[c] + ms ELSE 0]
    IN  /\ Transmit({}, {})
        /\ timeout' = [c \in Call |-> IF age[c] > RETRANSMIT_DELAY \/ c \notin queue' THEN 0 ELSE age[c]]
        /\ UNCHANGED <<refused, ub>>
rpc_timeout(ms) ==
    LET age == [c \in Call |-> IF c \in queue THEN timeout[c] + ms ELSE 0]
        due == {c \in queue : age[c] > RETRANSMIT_DELAY}
    IN  \E sent \in SUBSET due : \E L \in SUBSET sent :
          /\ refused + Cardinality(due \ sent) <= MAXREFUSED
          /\ refused' = refused + Cardinality(due \ sent)
          /\ Transmit(sent, L)
          /\ timeout' = [c \in Call |-> IF c \in sent \/ c \notin queue' THEN 0 ELSE age[c]]
          /\ ub' = \E c \in due : PcbRemoved(c)

-----------------------------------------------------------------------------
\* A start-up call has returned.  Only the first one matters: without the port of the NFS
\* server nfs_init fails, network_init goes on without NFS, and nothing can be called.
Returned(ok) == stage' = IF stage = 0 /\ ~ok THEN OFF ELSE stage + 1

\* rpc_call, up to its loop.  When the request cannot be sent it returns at once.
CallBegins(ok) ==
    /\ stage \in 0 .. (STARTUP - 1) /\ sync = NoCall /\ last < MAXCALLS
    /\ rpc_send(last + 1, stage + 1, ok)
    /\ IF ok THEN sync' = last + 1 /\ left' = RETRANSMIT_DELAY * (CALL_RETRIES + 1) /\ UNCHANGED stage
             ELSE UNCHANGED <<sync, left>> /\ Returned(FALSE)
    /\ UNCHANGED <<time, complete, answer, reply, executed, ub>>

\* A turn of the loop of rpc_call that finds the answer.  ok: the port mapper knows the program.
CallReturns(ok) ==
    /\ sync # NoCall /\ complete
    /\ sync' = NoCall /\ left' = 0 /\ complete' = FALSE
    /\ Returned(ok)
    /\ UNCHANGED <<time, cur_xid, queue, timeout, last, xid, port, status,
                   answer, request, reply, executed, lost, refused, ub>>

\* A turn that does not; and after the last one the queue is made to forget the call.
CallPollsKeeping ==
    /\ sync # NoCall /\ ~complete
    /\ IF left >= CALL_TIMEOUT
       THEN left' = left - CALL_TIMEOUT /\ UNCHANGED <<queue, status, sync, stage>>
       ELSE /\ status' = [status EXCEPT ![sync] = "gaveup"]
            /\ sync' = NoCall /\ left' = 0
            /\ Returned(FALSE)
            /\ UNCHANGED queue
    /\ rpc_timeout(CALL_TIMEOUT)
    /\ UNCHANGED <<time, cur_xid, complete, last, xid, port, answer, reply, executed>>
CallPolls ==
    /\ sync # NoCall /\ ~complete
    /\ IF left >= CALL_TIMEOUT
       THEN left' = left - CALL_TIMEOUT /\ UNCHANGED <<queue, status, sync, stage>>
       ELSE /\ queue' = queue \ {sync}
            /\ status' = [status EXCEPT ![sync] = "gaveup"]
            /\ sync' = NoCall /\ left' = 0
            /\ Returned(FALSE)
    /\ rpc_timeout(CALL_TIMEOUT)
    /\ UNCHANGED <<time, cur_xid, complete, last, xid, port, answer, reply, executed>>

\* An asynchronous call (nfs_lookup, nfs_read, nfs_write, ...).  When it is refused its owner
\* frees the continuation the queue still refers to.
NfsCall(ok) ==
    /\ stage = STARTUP /\ last < MAXCALLS
    /\ rpc_send(last + 1, 0, ok)
    /\ UNCHANGED <<time, stage, sync, left, complete, answer, reply, executed, ub>>

\* The timer of nfs_dev.c: nfs_timeout, every NFS_TICK.
NfsTimeout ==
    /\ stage = STARTUP /\ queue # {}
    /\ UNCHANGED <<sosVars, queue, status, answer, reply, executed>>
    /\ rpc_timeout(NFS_TICK)

\* The server carries out a request and replies (external).
ServerExecutes(c) ==
    /\ request[c] > 0
    /\ request' = [request EXCEPT ![c] = @ - 1]
    /\ executed' = [executed EXCEPT ![c] = TRUE]
    /\ \/ reply' = [reply EXCEPT ![c] = More(@)] /\ UNCHANGED lost
       \/ lost < MAXLOSS /\ lost' = lost + 1 /\ UNCHANGED reply
    /\ UNCHANGED <<sosVars, queue, timeout, status, answer, refused, ub>>

\* Some pcb of SOS is bound to the port that the reply to c is sent to.  _nfs_pcb is there once
\* nfs_init has succeeded; that of a start-up call while the call lasts.
Listening(c) ==
    \/ port[c] = 0 /\ stage > 0
    \/ port[c] # 0 /\ sync # NoCall /\ port[c] = port[sync]

\* The calls that get_from_queue may find for the xid of c.
get_from_queue(c) == {q \in queue : xid[q] = xid[c]}

\* my_recv: a reply for which nothing is in the queue is dropped; otherwise its call leaves the
\* queue and the callback runs, whoever the call belongs to.  The callback of a call whose owner
\* no longer waits (it was refused) uses what the owner has freed.
my_recv(c) ==
    /\ reply[c] > 0
    /\ reply' = [reply EXCEPT ![c] = @ - 1]
    /\ IF ~Listening(c) \/ get_from_queue(c) = {}
       THEN UNCHANGED <<queue, timeout, status, answer, complete, ub>>
       ELSE \E q \in get_from_queue(c) :
              /\ queue' = queue \ {q} /\ timeout' = [timeout EXCEPT ![q] = 0]
              /\ status' = [status EXCEPT ![q] = IF @ = "refused" THEN "late" ELSE "answered"]
              /\ answer' = [answer EXCEPT ![q] = c]
              /\ complete' = (complete \/ q = sync)
              /\ ub' = (status[q] # "waiting")
    /\ UNCHANGED <<time, stage, cur_xid, sync, left, last, xid, port,
                   request, executed, lost, refused>>

\* SOS makes at most XID_STEP calls a second, on the average of one life (external: seed_xid
\* relies on it): the calls of this life fit in the time up to second t.
Paced(t) == cur_xid - SeededXid(time) <= (t - time) * XID_STEP

\* SOS crashes and starts again in a later second t: init_rpc seeds the xids anew.
Restart(t) ==
    /\ t > time /\ Paced(t)
    /\ time' = t /\ stage' = 0 /\ cur_xid' = SeededXid(t)
    /\ queue' = {} /\ timeout' = [c \in Call |-> 0]
    /\ sync' = NoCall /\ left' = 0 /\ complete' = FALSE
    /\ status' = [c \in Call |-> IF status[c] = "waiting" THEN "forgotten" ELSE status[c]]
    /\ UNCHANGED <<last, xid, port, answer, request, reply, executed, lost, refused, ub>>

Next ==
    /\ ~ub
    /\ \/ \E ok \in BOOLEAN : CallBegins(ok) \/ CallReturns(ok) \/ NfsCall(ok)
       \/ CallPolls \/ NfsTimeout
       \/ \E t \in 1 .. MAXTIME : Restart(t)
       \/ \E c \in Call : ServerExecutes(c) \/ my_recv(c)

Spec == Init /\ [][Next]_vars

\* SOS turns the loop of rpc_call, or the timer of nfs_dev.c fires (Clock is about that); the
\* server serves some request that has reached it, and the network delivers some packet.  The
\* network loses, and SOS fails to send, finitely often (MAXLOSS, MAXREFUSED).
Fairness ==
    /\ WF_vars(~ub /\ (CallPolls \/ NfsTimeout \/ \E ok \in BOOLEAN : CallReturns(ok)))
    /\ WF_vars(~ub /\ \E c \in Call : ServerExecutes(c))
    /\ WF_vars(~ub /\ \E c \in Call : my_recv(c))

FairSpec == Spec /\ Fairness
-----------------------------------------------------------------------------
\* What RemoteCall knows of a call.
PhaseOf(s) ==
    CASE s = "waiting"               -> "pending"
      [] s \in {"answered", "late"}  -> "answered"
      [] s \in {"unused", "refused"} -> s
      [] OTHER                       -> "abandoned"

Phase == [c \in Call |-> PhaseOf(status[c])]

Abstract == INSTANCE RemoteCall WITH phase <- Phase, result <- answer

\* The queue, the xids and their seed implement the promise of RemoteCall: whatever is lost,
\* delayed, duplicated or left over from before a restart of SOS, my_recv calls the callback of
\* a call at most once, with the reply to that call, after the server has executed it, and
\* never for a call whose rpc_call gave up or that SOS made before it restarted.  The callback
\* of a call whose rpc_send failed may run: see RefusedNeverAnswered.
RefinesRemoteCall == Abstract!Spec

\* The queue refers to no call that has returned, except one whose first send failed, and holds
\* the call that rpc_call still waits for: "assert(q_item)" at its end holds.
QueueHasOwners ==
    /\ \A c \in queue : status[c] \in {"waiting", "refused"}
    /\ sync # NoCall /\ ~complete => sync \in queue
    /\ ub => \E c \in Call : status[c] \in {"refused", "late"}

\* A call that was sent is answered, or its owner stops waiting: rpc_timeout retransmits what
\* the network has lost until an answer comes, and rpc_call does not wait for ever.
CallsEnd ==
    \A c \in Call : status[c] = "waiting" ~> status[c] # "waiting" \/ ub

-----------------------------------------------------------------------------
(* What comments of the code say and the code does not keep.               *)

\* "If we give up early, we must ensure that the argument remains in memory just in case the
\* packet comes in later" (rpc.c, rpc_call): when rpc_call has returned, nothing in the queue
\* refers to the call_arg on its stack.
ReturnedCallsUnqueued ==
    \A c \in queue : port[c] # 0 => c = sync

\* "RPC_OK if the request was successfully sent.  Otherwise an appropriate error code will be
\* returned" (nfs.h): the callback of a call whose owner was given the error does not run.
RefusedNeverAnswered ==
    \A c \in Call : status[c] # "late"
=============================================================================
