---------------------------- MODULE GatewayServer ----------------------------
(***************************************************************************)
(* The WebSocket server of the gateway (gateway/server.py) around its      *)
(* message router and its node registry, with the processor reduced to     *)
(* what the server sees of it: a task per request that may answer, fail or *)
(* be cancelled (gateway/processor.py).                                    *)
(*                                                                         *)
(* One handler per connection reads frames one at a time and awaits the    *)
(* whole handling of each.  A handler whose frame acquired a channel runs  *)
(* _process_request, which awaits the request's task, completes it and     *)
(* then, still inside the same call, processes the next queued request of  *)
(* that channel, whoever sent it.  Such a chain of requests is hosted by   *)
(* the connection that began it, or by the debounce timer that did.  The   *)
(* steps below are the stretches between two awaits that may suspend.      *)
(***************************************************************************)
EXTENDS Naturals, FiniteSets, Sequences, SequencesExt

CONSTANTS
    Requests, Channels, Fingerprints, Channel, Fingerprint, Mention, Batchable,
    Debouncing, MaxRecords, NoRequest,            \* of the router
    Conns, Nodes, Sessions, Presented, None,   \* of the registry
    Origin,     \* Origin[r]: the connection that sends r
    NodeOf,     \* NodeOf[k]: the node id connection k registers
    Timer,      \* the host of the chains that debounce timers begin
    MaxInbox    \* bound on the frames a connection has sent and nobody has read

ASSUME ServerConstants ==
    /\ Channel \in [Requests -> Channels]
    /\ Origin \in [Requests -> Conns]
    /\ NodeOf \in [Conns -> Nodes]
    /\ Timer \notin Conns \cup {None}
    /\ MaxInbox \in Nat
    /\ Presented = {None}     \* _handle_register passes no session id

VARIABLES
    seen, active, queue, debounce, timer, status, merged, stage, aborted,
    nodes, sessions, websockets, phase, shared, renamed,
    open,       \* connections that are not closed
    inbox,      \* connection -> frames received and not yet read, oldest first
    sent,       \* message requests some client has sent
    local,      \* connections whose handler has its local node_id set
    ended,      \* connections whose handler has returned
    host,       \* request -> what began the chain that processes it
    step,       \* request -> where its processing is
    told        \* request -> the final frames sent about it

routerVars   == <<seen, active, queue, debounce, timer, status, merged, stage, aborted>>
registryVars == <<nodes, sessions, websockets, phase, shared, renamed>>
connVars     == <<open, inbox, sent, local, ended>>
chainVars    == <<host, step, told>>
vars == <<routerVars, registryVars, connVars, chainVars>>

Router   == INSTANCE MessageRouter
Registry == INSTANCE NodeRegistry

Frames == [kind : {"message", "cancel"}, request : Requests]
              \cup [kind : {"register"}, valid : BOOLEAN]

\* "started": the task runs; "answered": it has sent ResponseEnd; "ok",
\* "error", "cancelled": it is over and the chain has not resumed; "reported":
\* the chain has sent a frame about its failure; "settled": complete was called.
Steps == {"none", "started", "answered", "ok", "error", "cancelled", "reported", "settled"}

----------------------------------------------------------------------------
(* Helpers; Name_Fault is Name with one plausible mistake in it. *)

InHand(r) == step[r] \notin {"none", "settled"}

\* The handler of k is inside _process_request.
Blocked(k) == \E r \in Requests : host[r] = k /\ InHand(r)

\* The connection a request's answer goes to: _consolidate_requests keeps the
\* websocket of the latest of the requests it joins.
Target(r) == Origin[Last(merged[r])]

\* The requests the router's step handed to its caller.
Handed == {r \in Requests : stage[r] # "running" /\ stage'[r] = "running"}

\* They are processed in the chain of h.
Process_Nobody(h) == UNCHANGED <<host, step>>
Process(h) ==
    /\ host' = [r \in Requests |-> IF r \in Handed THEN h ELSE host[r]]
    /\ step' = [r \in Requests |-> IF r \in Handed THEN "started" ELSE step[r]]

\* A final frame about r reaches connection k unless k is closed.
Tell_Never(r, what, k) == UNCHANGED told
Tell(r, what, k) ==
    told' = IF k \in open THEN [told EXCEPT ![r] = @ \cup {what}] ELSE told

\* What the except clauses report of r.
Outcome_TooLate(r) == "reported"
Outcome(r) == step[r]

\* cancel's answer is True.
Cancellable(r) ==
    \/ status[r] = "active" /\ active[Channel[r]] = r
    \/ status[r] = "queued"

\* The chain goes on to complete(r).
Finished_OkOnly(r) == step[r] = "ok"
Finished(r) == step[r] \in {"ok", "reported"}

\* The handler of k takes the next frame, which is f.
Read(k, f) ==
    /\ k \notin ended
    /\ ~Blocked(k)
    /\ inbox[k] # <<>>
    /\ f = Head(inbox[k])
    /\ inbox' = [inbox EXCEPT ![k] = Tail(@)]

----------------------------------------------------------------------------
Init ==
    /\ Router!Init
    /\ Registry!RegistryInit
    /\ open = Conns
    /\ inbox = [k \in Conns |-> <<>>]
    /\ sent = {}
    /\ local = {}
    /\ ended = {}
    /\ host = [r \in Requests |-> None]
    /\ step = [r \in Requests |-> "none"]
    /\ told = [r \in Requests |-> {}]

(* The clients *)

Arrives(k, f) ==
    /\ k \in open
    /\ Len(inbox[k]) < MaxInbox
    /\ inbox' = [inbox EXCEPT ![k] = Append(@, f)]
    /\ UNCHANGED <<routerVars, registryVars, chainVars, open, local, ended>>

\* Input bound: a client registers once on a connection.
ClientRegisters(k, valid) ==
    /\ phase[k] = "fresh" /\ inbox[k] = <<>>
    /\ Arrives(k, [kind |-> "register", valid |-> valid])
    /\ UNCHANGED sent

ClientSends(r) ==
    /\ r \notin sent
    /\ Arrives(Origin[r], [kind |-> "message", request |-> r])
    /\ sent' = sent \cup {r}

\* Clients cancel what they sent and were told nothing final about.
ClientCancels(r) ==
    /\ r \in sent /\ told[r] = {}
    /\ Arrives(Origin[r], [kind |-> "cancel", request |-> r])
    /\ UNCHANGED sent

\* The client closes the connection, or its pings time out.
Disconnect(k) ==
    /\ k \in open
    /\ open' = open \ {k}
    /\ UNCHANGED <<routerVars, registryVars, chainVars, inbox, sent, local, ended>>

(* The handler of a connection *)

\* _handle_register with a good secret or token.
Register(k) ==
    /\ Read(k, [kind |-> "register", valid |-> TRUE])
    /\ \E t \in Sessions : Registry!RegisterFresh(k, NodeOf[k], None, t)
    /\ local' = local \cup {k}
    /\ UNCHANGED <<routerVars, chainVars, open, sent, ended>>

\* _handle_register otherwise: the connection is closed and None returned,
\* which the handler stores in its node_id.
RefuseRegister(k) ==
    /\ Read(k, [kind |-> "register", valid |-> FALSE])
    /\ open' = open \ {k}
    /\ local' = local \ {k}
    /\ UNCHANGED <<routerVars, registryVars, chainVars, sent, ended>>

\* _handle_message_request on a connection the registry finds a node for.  If
\* the router hands the request back its chain begins here.
Message(k, r) ==
    /\ Read(k, [kind |-> "message", request |-> r])
    /\ Registry!Found(k)
    /\ Router!Submit(r, FALSE)
    /\ Process(k)
    /\ UNCHANGED <<registryVars, open, sent, local, ended, told>>

\* _handle_message_request otherwise: "Node not registered".
MessageUnregistered(k, r) ==
    /\ Read(k, [kind |-> "message", request |-> r])
    /\ ~Registry!Found(k)
    /\ Tell(r, "error", k)
    /\ UNCHANGED <<routerVars, registryVars, open, sent, local, ended, host, step>>

\* _handle_cancel when the router cancels r, and when it does not (the
\* not_found error answers the cancel, not the request).
CancelAccepted(k, r) ==
    /\ Read(k, [kind |-> "cancel", request |-> r])
    /\ Router!Cancel(r)
    /\ Tell(r, "cancelled", k)
    /\ UNCHANGED <<registryVars, open, sent, local, ended, host, step>>

CancelNotFound(k, r) ==
    /\ Read(k, [kind |-> "cancel", request |-> r])
    /\ ~Cancellable(r)
    /\ UNCHANGED <<routerVars, registryVars, open, sent, local, ended, chainVars>>

\* The handler's finally block: the node is unregistered if node_id is set.
Cleanup_Skipped(k) == UNCHANGED registryVars
Cleanup(k) == IF k \in local THEN Registry!Unregister(k) ELSE UNCHANGED registryVars
HandlerEnds(k) ==
    /\ k \notin open /\ k \notin ended
    /\ inbox[k] = <<>>
    /\ ~Blocked(k)
    /\ ended' = ended \cup {k}
    /\ Cleanup(k)
    /\ UNCHANGED <<routerVars, chainVars, open, inbox, sent, local>>

(* The debounce timer of channel c, and _on_debounce_ready *)

DebounceReady(c) ==
    /\ Router!DebounceExpire(c)
    /\ Process(Timer)
    /\ UNCHANGED <<registryVars, connVars, told>>

(* The task of request r: processor.process *)

Move(r, from, to) == step[r] = from /\ step' = [step EXCEPT ![r] = to]

\* ResponseEnd is written to the connection.
Answer(r) ==
    /\ Move(r, "started", "answered")
    /\ r \notin aborted
    /\ Target(r) \in open
    /\ Tell(r, "answer", Target(r))
    /\ UNCHANGED <<routerVars, registryVars, connVars, host>>

TaskReturns(r) ==
    /\ Move(r, "answered", "ok")
    /\ r \notin aborted
    /\ UNCHANGED <<routerVars, registryVars, connVars, host, told>>

TaskFails(r) ==
    /\ Move(r, "started", "error")
    /\ r \notin aborted
    /\ UNCHANGED <<routerVars, registryVars, connVars, host, told>>

\* A cancellation reaches the task at its next await, and _send raises
\* CancelledError itself when the connection is closed.
TaskCancelled(r) ==
    /\ Move(r, "started", "cancelled") \/ Move(r, "answered", "cancelled")
    /\ r \in aborted \/ Target(r) \notin open
    /\ UNCHANGED <<routerVars, registryVars, connVars, host, told>>

(* The chain that processes r *)

\* Its except clauses send a CancelledMessage or an error.
Report(r) ==
    /\ Move(r, "cancelled", "reported") \/ Move(r, "error", "reported")
    /\ Tell(r, Outcome(r), Target(r))
    /\ UNCHANGED <<routerVars, registryVars, connVars, host>>

\* Its finally block: complete, and the next request of the channel begins in
\* the same chain.
Settle(r) ==
    /\ Finished(r)
    /\ Router!Complete(r)
    /\ host' = [x \in Requests |-> IF x \in Handed THEN host[r] ELSE host[x]]
    /\ step' = [x \in Requests |-> IF x \in Handed THEN "started"
                                   ELSE IF x = r THEN "settled" ELSE step[x]]
    /\ UNCHANGED <<registryVars, connVars, told>>

\* DEDUP_WINDOW_SECONDS pass.
Forget(f) ==
    /\ Router!WindowPasses(f)
    /\ UNCHANGED <<registryVars, connVars, chainVars>>

Next ==
    \/ \E k \in Conns, valid \in BOOLEAN : ClientRegisters(k, valid)
    \/ \E r \in Requests : ClientSends(r)
    \/ \E r \in Requests : ClientCancels(r)
    \/ \E k \in Conns : Disconnect(k)
    \/ \E k \in Conns : Register(k)
    \/ \E k \in Conns : RefuseRegister(k)
    \/ \E k \in Conns, r \in Requests : Message(k, r)
    \/ \E k \in Conns, r \in Requests : MessageUnregistered(k, r)
    \/ \E k \in Conns, r \in Requests : CancelAccepted(k, r)
    \/ \E k \in Conns, r \in Requests : CancelNotFound(k, r)
    \/ \E k \in Conns : HandlerEnds(k)
    \/ \E c \in Channels : DebounceReady(c)
    \/ \E r \in Requests : Answer(r)
    \/ \E r \in Requests : TaskReturns(r)
    \/ \E r \in Requests : TaskFails(r)
    \/ \E r \in Requests : TaskCancelled(r)
    \/ \E r \in Requests : Report(r)
    \/ \E r \in Requests : Settle(r)
    \/ \E f \in Fingerprints : Forget(f)

Spec == Init /\ [][Next]_vars

\* The event loop resumes whatever can go on, timers fire, and tasks end:
\* clients owe nothing.
HandlerStep(k) ==
    \/ Register(k) \/ RefuseRegister(k) \/ HandlerEnds(k)
    \/ \E r \in Requests : \/ Message(k, r) \/ MessageUnregistered(k, r)
                           \/ CancelAccepted(k, r) \/ CancelNotFound(k, r)

ChainStep(r) ==
    \/ Answer(r) \/ TaskReturns(r) \/ TaskFails(r) \/ TaskCancelled(r)
    \/ Report(r) \/ Settle(r)

Fairness ==
    /\ \A k \in Conns : WF_vars(HandlerStep(k))
    /\ \A c \in Channels : WF_vars(DebounceReady(c))
    /\ \A r \in Requests : WF_vars(ChainStep(r))

FairSpec == Spec /\ Fairness

----------------------------------------------------------------------------
(* Properties *)

\* Every variable of the server keeps its type.
TypeOK ==
    /\ open \subseteq Conns /\ local \subseteq Conns /\ ended \subseteq Conns
    /\ sent \subseteq Requests
    /\ inbox \in [Conns -> Seq(Frames)]
    /\ host \in [Requests -> Conns \cup {Timer, None}]
    /\ step \in [Requests -> Steps]
    /\ told \in [Requests -> SUBSET {"answer", "error", "cancelled"}]

\* The router's idea of what is being processed and the server's agree: every
\* request the router hands out is in exactly one chain, and no other is.
StartsAreProcessed == \A r \in Requests : stage[r] = "running" <=> InHand(r)

\* Every request whose processing is over was told how it ended, if the
\* connection it answers to is still open.
SettledWereTold ==
    \A r \in Requests : step[r] = "settled" /\ Target(r) \in open => told[r] # {}

\* A request the router hands over is seen through: it is processed, and its
\* sender hears how that ended.
RequestsSeenThrough == StartsAreProcessed /\ SettledWereTold

\* "Clean up on disconnect" (_handle_connection): once a connection's handler
\* has returned the registry does not know the connection.
DisconnectCleansUp == \A k \in ended : websockets[k] = None

\* What the router is owed: a request that is being processed is completed.
HonoursRouter == Router!Fairness

\* The handler of a closed connection returns, however long the chains of
\* other clients' requests it hosts.
HandlersReturn == \A k \in Conns : k \notin open ~> k \in ended

\* What was taken up comes to its end: requests are completed, handlers return.
EverythingReturns == HonoursRouter /\ HandlersReturn
=============================================================================
