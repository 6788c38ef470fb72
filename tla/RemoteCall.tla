----------------------------- MODULE RemoteCall -----------------------------
(***************************************************************************)
(* What the remote procedure calls of libnfs promise to the rest of SOS    *)
(* (libs/libnfs/include/nfs.h, rpc.h): a call that was issued is answered  *)
(* at most once, with the result of that very call, and only after the     *)
(* server has carried it out; or it is abandoned, and then it is never     *)
(* answered.  A call whose request could not be sent is refused.  That is  *)
(* no promise that there will be no answer: rpc_send leaves the request in *)
(* the queue, so a refused call may still be answered, at most once.  The  *)
(* server may carry a call out any number of times, also after the caller  *)
(* has given up.                                                           *)
(***************************************************************************)
CONSTANTS
    Call,     \* the calls SOS may make
    NoCall    \* no call: the result of a call that was not answered

VARIABLES
    phase,      \* phase[c]: where call c is
    executed,   \* executed[c]: the server has carried c out at least once
    result      \* result[c]: the call whose result was handed to the owner of c

vars == <<phase, executed, result>>

Init ==
    /\ phase = [c \in Call |-> "unused"]
    /\ executed = [c \in Call |-> FALSE]
    /\ result = [c \in Call |-> NoCall]

\* SOS makes the call, and owes its owner an answer.
Issue(c) ==
    /\ phase[c] = "unused"
    /\ phase' = [phase EXCEPT ![c] = "pending"]
    /\ UNCHANGED <<executed, result>>

\* SOS cannot send the request, and tells the owner at once; but it goes on trying.
Refuse(c) ==
    /\ phase[c] = "unused"
    /\ phase' = [phase EXCEPT ![c] = "refused"]
    /\ UNCHANGED <<executed, result>>

Execute(c) ==
    /\ phase[c] # "unused"
    /\ executed' = [executed EXCEPT ![c] = TRUE]
    /\ UNCHANGED <<phase, result>>

Answer(c) ==
    /\ phase[c] \in {"pending", "refused"} /\ executed[c]
    /\ phase' = [phase EXCEPT ![c] = "answered"]
    /\ result' = [result EXCEPT ![c] = c]
    /\ UNCHANGED executed

\* SOS stops waiting: for one call that took too long, or for all when it restarts.
Abandon(S) ==
    /\ \A c \in S : phase[c] = "pending"
    /\ phase' = [c \in Call |-> IF c \in S THEN "abandoned" ELSE phase[c]]
    /\ UNCHANGED <<executed, result>>

Next ==
    \/ \E c \in Call : Issue(c) \/ Refuse(c) \/ Execute(c) \/ Answer(c)
    \/ \E S \in SUBSET Call : Abandon(S)

Spec == Init /\ [][Next]_vars
=============================================================================
