-------------------------- MODULE RequestLifecycle --------------------------
(***************************************************************************)
(* What the router promises its caller about every request, whatever       *)
(* queues, windows and records it keeps: the docstrings of submit,         *)
(* _debounce_expire, complete, complete_batch, cancel and cancel_channel   *)
(* read as one contract.                                                   *)
(*                                                                         *)
(* A request is taken once; it starts at most once, when it is taken, when *)
(* another request of its channel is over, or when its window closes; a    *)
(* request that was withdrawn, refused or folded into another never        *)
(* starts; and one call starts at most one request.                        *)
(***************************************************************************)
CONSTANTS Requests, Channel

VARIABLE stage

Init == stage = [r \in Requests |-> "idle"]

\* The requests of S leave state `from` together, h for running and the rest
\* of S folded into it.
Started(f, h, S) == [x \in Requests |-> IF x = h THEN "running"
                                        ELSE IF x \in S THEN "folded" ELSE f[x]]

WaitingTogether(h, S) ==
    /\ h \in S
    /\ \A r \in S : stage[r] = "waiting" /\ Channel[r] = Channel[h]

\* A new request is refused, kept waiting or started.
Take(r) ==
    /\ stage[r] = "idle"
    /\ \E to \in {"rejected", "waiting", "running"} : stage' = [stage EXCEPT ![r] = to]

\* Requests of one channel start as one.
StartMerged(h, S) ==
    /\ WaitingTogether(h, S)
    /\ stage' = Started(stage, h, S)

\* A started request is over.
Serve(r) ==
    /\ stage[r] = "running"
    /\ stage' = [stage EXCEPT ![r] = "served"]

\* A started request is over and requests of its channel start as one.
ServeAndStart(r, h, S) ==
    /\ stage[r] = "running"
    /\ Channel[h] = Channel[r]
    /\ WaitingTogether(h, S)
    /\ stage' = Started([stage EXCEPT ![r] = "served"], h, S)

\* Requests that have not started are withdrawn.
Withdraw(S) ==
    /\ \A r \in S : stage[r] = "waiting"
    /\ stage' = [x \in Requests |-> IF x \in S THEN "withdrawn" ELSE stage[x]]

Next ==
    \/ \E r \in Requests : Take(r)
    \/ \E h \in Requests, S \in SUBSET Requests : StartMerged(h, S)
    \/ \E r \in Requests : Serve(r)
    \/ \E r, h \in Requests, S \in SUBSET Requests : ServeAndStart(r, h, S)
    \/ \E S \in SUBSET Requests : Withdraw(S)

Spec == Init /\ [][Next]_stage
=============================================================================
