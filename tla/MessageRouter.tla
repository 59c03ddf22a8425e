--------------------------- MODULE MessageRouter ---------------------------
(***************************************************************************)
(* The per-channel message router of the gateway (gateway/router.py).      *)
(*                                                                         *)
(* Every coroutine of MessageRouter holds self._lock for its whole body    *)
(* and awaits nothing while it holds it, so each one is a single atomic    *)
(* step here; is_duplicate runs right before submit with no suspension in  *)
(* between, so both are one step too.                                      *)
(*                                                                         *)
(* A request is its id.  What the router reads of it is given by the       *)
(* functions Channel, Fingerprint, Mention and Batchable.  Beside the      *)
(* router's own fields the module keeps stage, the caller's side of the    *)
(* contract: what the router's return values and callbacks have told the   *)
(* caller to do with each request so far.                                  *)
(***************************************************************************)
EXTENDS Naturals, FiniteSets, Sequences, SequencesExt

CONSTANTS
    Requests,       \* message requests; ids are unique
    Channels,       \* channel ids
    Fingerprints,   \* values of _compute_fingerprint
    Channel,        \* Channel[r]: the channel r was sent in
    Fingerprint,    \* Fingerprint[r]: hash of user, channel and content
    Mention,        \* Mention[r]: submit's is_mention
    Batchable,      \* Batchable[r]: submit's is_batchable
    Debouncing,     \* DEBOUNCE_SECONDS > 0
    MaxRecords,     \* records cleanup_old_requests tolerates (10000 in the code)
    NoRequest       \* a channel without an active request

ASSUME ConstantsOK ==
    /\ Channel \in [Requests -> Channels]
    /\ Fingerprint \in [Requests -> Fingerprints]
    /\ Mention \in [Requests -> BOOLEAN]
    /\ Batchable \in [Requests -> BOOLEAN]
    /\ Debouncing \in BOOLEAN
    /\ MaxRecords \in Nat
    /\ NoRequest \notin Requests

VARIABLES
    seen,       \* fingerprints recorded less than DEDUP_WINDOW_SECONDS ago
    active,     \* _active: channel -> its active request
    queue,      \* _queues: channel -> waiting requests, oldest first
    debounce,   \* _debounce_requests: channel -> requests of the open window
    timer,      \* _debounce_tasks: channels whose window has a running timer
    status,     \* _requests: request -> RequestStatus, "none" when absent
    merged,     \* request -> requests whose text its (consolidated) content holds
    stage,      \* what the caller has been told about each request
    aborted     \* started requests whose cancellation was accepted

vars == <<seen, active, queue, debounce, timer, status, merged, stage, aborted>>

Statuses == {"none", "debounce", "queued", "active", "completed", "cancelled"}
Stages   == {"idle", "rejected", "waiting", "running", "served", "withdrawn", "folded"}

----------------------------------------------------------------------------
(* Helpers.  A definition Name_Fault is Name with one plausible mistake in   *)
(* it; no specification uses it, it shows which property the mistake breaks. *)

InQueue(c)    == ToSet(queue[c])
InDebounce(c) == ToSet(debounce[c])

\* channel_id not in self._active
Free_Always(c) == TRUE
Free(c) == active[c] = NoRequest

\* del self._active[channel_id]
Release_Never(c) == UNCHANGED active
Release(c) == active' = [active EXCEPT ![c] = NoRequest]

\* A running timer of c is replaced by a new one.
RestartTimer_CancelOnly(c) == timer' = timer \ {c}
RestartTimer(c) == timer' = timer \cup {c}

\* Both entries of c are popped.
CloseWindow_KeepRequests(c) == timer' = timer /\ debounce' = debounce
CloseWindow(c) ==
    /\ debounce' = [debounce EXCEPT ![c] = <<>>]
    /\ timer' = timer \ {c}

\* The first request's id answers for the text of all the others.
Consolidated_DropFirst(pending) == [id |-> Head(pending), text |-> Tail(pending)]
Consolidated(pending) == [id |-> Head(pending), text |-> pending]

\* The statuses cleanup_old_requests never forgets.
KeepStatuses_ActiveOnly == {"active"}
KeepStatuses == {"queued", "active"}

\* f with every element of S mapped to v.
Assign(f, S, v) == [x \in DOMAIN f |-> IF x \in S THEN v ELSE f[x]]

\* The first n waiting requests of c are all the batchable ones at its head.
BatchEndsAt_PopsNone(c, n) == n = 0
BatchEndsAt(c, n) ==
    /\ \A i \in 1 .. n : Batchable[queue[c][i]]
    /\ n < Len(queue[c]) => ~Batchable[queue[c][n + 1]]

----------------------------------------------------------------------------
Init ==
    /\ seen = {}
    /\ active = [c \in Channels |-> NoRequest]
    /\ queue = [c \in Channels |-> <<>>]
    /\ debounce = [c \in Channels |-> <<>>]
    /\ timer = {}
    /\ status = [r \in Requests |-> "none"]
    /\ merged = [r \in Requests |-> <<r>>]
    /\ stage = [r \in Requests |-> "idle"]
    /\ aborted = {}

\* submit returned (False, -1): the same text came from the same user and
\* channel within the window.
RejectDuplicate(r) ==
    /\ stage[r] = "idle"
    /\ Fingerprint[r] \in seen
    /\ stage' = [stage EXCEPT ![r] = "rejected"]
    /\ UNCHANGED <<seen, active, queue, debounce, timer, status, merged, aborted>>

\* is_duplicate lets r pass and records it; skip_dedup bypasses both.
PassDedup(r, skip) ==
    IF skip THEN UNCHANGED seen
            ELSE Fingerprint[r] \notin seen /\ seen' = seen \cup {Fingerprint[r]}

\* submit on a free channel, without debounce: (True, 0).
SubmitAcquire(r, skip) ==
    /\ stage[r] = "idle"
    /\ PassDedup(r, skip)
    /\ Free(Channel[r])
    /\ Mention[r] \/ ~Debouncing
    /\ active' = [active EXCEPT ![Channel[r]] = r]
    /\ status' = [status EXCEPT ![r] = "active"]
    /\ stage' = [stage EXCEPT ![r] = "running"]
    /\ UNCHANGED <<queue, debounce, timer, merged, aborted>>

\* submit on a free channel: r opens the debounce window or joins it and
\* restarts its timer: (False, 0).
SubmitDebounce(r, skip) ==
    /\ stage[r] = "idle"
    /\ PassDedup(r, skip)
    /\ Free(Channel[r])
    /\ ~Mention[r] /\ Debouncing
    /\ debounce' = [debounce EXCEPT ![Channel[r]] = Append(@, r)]
    /\ RestartTimer(Channel[r])
    /\ status' = [status EXCEPT ![r] = "debounce"]
    /\ stage' = [stage EXCEPT ![r] = "waiting"]
    /\ UNCHANGED <<active, queue, merged, aborted>>

SubmitQueue_LeavesPending(r, skip) ==
    /\ stage[r] = "idle"
    /\ PassDedup(r, skip)
    /\ ~Free(Channel[r])
    /\ queue' = [queue EXCEPT ![Channel[r]] = Append(@, r)]
    /\ status' = [status EXCEPT ![r] = "pending"]
    /\ stage' = [stage EXCEPT ![r] = "waiting"]
    /\ UNCHANGED <<active, debounce, timer, merged, aborted>>

\* submit on a busy channel: (False, position).
SubmitQueue(r, skip) ==
    /\ stage[r] = "idle"
    /\ PassDedup(r, skip)
    /\ ~Free(Channel[r])
    /\ queue' = [queue EXCEPT ![Channel[r]] = Append(@, r)]
    /\ status' = [status EXCEPT ![r] = "queued"]
    /\ stage' = [stage EXCEPT ![r] = "waiting"]
    /\ UNCHANGED <<active, debounce, timer, merged, aborted>>

Submit(r, skip) ==
    \/ ~skip /\ RejectDuplicate(r)
    \/ SubmitAcquire(r, skip)
    \/ SubmitDebounce(r, skip)
    \/ SubmitQueue(r, skip)

\* The timer of channel c fires: its window is consolidated into the first
\* request, which becomes the channel's active request whatever was there.
DebounceExpire(c) ==
    LET whole  == Consolidated(debounce[c])
        folded == ToSet(Tail(debounce[c]))
    IN  /\ c \in timer
        /\ debounce[c] # <<>>
        /\ CloseWindow(c)
        /\ active' = [active EXCEPT ![c] = whole.id]
        /\ merged' = [merged EXCEPT ![whole.id] = whole.text]
        /\ status' = [Assign(status, folded, "completed") EXCEPT ![whole.id] = "active"]
        /\ stage' = [Assign(stage, folded, "folded") EXCEPT ![whole.id] = "running"]
        /\ UNCHANGED <<seen, queue, aborted>>

\* complete(r) on a request no channel holds as active: "Completed unknown
\* request", nothing is dequeued.
CompleteUnknown(r) ==
    /\ stage[r] = "running"
    /\ active[Channel[r]] # r
    /\ stage' = [stage EXCEPT ![r] = "served"]
    /\ UNCHANGED <<seen, active, queue, debounce, timer, status, merged, aborted>>

\* complete(r) with nothing queued: the channel is free again.
CompleteLast(r) ==
    LET c == Channel[r]
    IN  /\ stage[r] = "running"
        /\ active[c] = r
        /\ queue[c] = <<>>
        /\ Release(c)
        /\ status' = [status EXCEPT ![r] = "completed"]
        /\ stage' = [stage EXCEPT ![r] = "served"]
        /\ UNCHANGED <<seen, queue, debounce, timer, merged, aborted>>

\* complete(r) hands the channel and the caller the oldest queued request.
CompleteNext(r) ==
    LET c    == Channel[r]
        next == Head(queue[c])
    IN  /\ stage[r] = "running"
        /\ active[c] = r
        /\ queue[c] # <<>>
        /\ queue' = [queue EXCEPT ![c] = Tail(@)]
        /\ active' = [active EXCEPT ![c] = next]
        /\ status' = [status EXCEPT ![r] = "completed", ![next] = "active"]
        /\ stage' = [stage EXCEPT ![r] = "served", ![next] = "running"]
        /\ UNCHANGED <<seen, debounce, timer, merged, aborted>>

Complete(r) == CompleteUnknown(r) \/ CompleteLast(r) \/ CompleteNext(r)

CompleteUnbatched(r) ==
    /\ Release(Channel[r])
    /\ status' = [status EXCEPT ![r] = "completed"]
    /\ stage' = [stage EXCEPT ![r] = "served"]
    /\ UNCHANGED <<queue, merged>>

CompleteInto(r, n) ==
    LET c     == Channel[r]
        last  == queue[c][n]
        batch == SubSeq(queue[c], 1, n)
    IN  /\ queue' = [queue EXCEPT ![c] = SubSeq(@, n + 1, Len(@))]
        /\ active' = [active EXCEPT ![c] = last]
        /\ status' = Assign([status EXCEPT ![r] = "completed"], ToSet(batch), "active")
        /\ stage' = [Assign(stage, ToSet(batch), "folded")
                        EXCEPT ![r] = "served", ![last] = "running"]
        /\ merged' = [merged EXCEPT ![last] = batch]

\* complete_batch(r): the leading batchable requests are all returned, the
\* last of them becomes active; a head that is not batchable stays queued and
\* the channel is left free.
CompleteBatch(r) ==
    /\ stage[r] = "running"
    /\ active[Channel[r]] = r
    /\ \E n \in 0 .. Len(queue[Channel[r]]) :
          /\ BatchEndsAt(Channel[r], n)
          /\ IF n = 0 THEN CompleteUnbatched(r) ELSE CompleteInto(r, n)
    /\ UNCHANGED <<seen, debounce, timer, aborted>>

\* cancel(r) of the channel's active request: the task is told to stop and the
\* channel is freed at once, with its queue as it was.
CancelActive(r) ==
    /\ status[r] = "active"
    /\ active[Channel[r]] = r
    /\ Release(Channel[r])
    /\ status' = [status EXCEPT ![r] = "cancelled"]
    /\ aborted' = aborted \cup {r}
    /\ UNCHANGED <<seen, queue, debounce, timer, merged, stage>>

\* cancel(r) of a queued request.
CancelQueued(r) ==
    LET c == Channel[r]
    IN  /\ status[r] = "queued"
        /\ \E i \in 1 .. Len(queue[c]) :
              /\ queue[c][i] = r
              /\ queue' = [queue EXCEPT ![c] = RemoveAt(@, i)]
        /\ status' = [status EXCEPT ![r] = "cancelled"]
        /\ stage' = [stage EXCEPT ![r] = "withdrawn"]
        /\ UNCHANGED <<seen, active, debounce, timer, merged, aborted>>

\* cancel's two outcomes that change something; every other call answers
\* False, for a debounced request and an overtaken active one as well.
Cancel(r) == CancelActive(r) \/ CancelQueued(r)

\* cancel_channel: the window, the active request and the queue all go.
CancelChannel(c) ==
    LET held    == InDebounce(c) \cup InQueue(c)
        current == {active[c]} \ {NoRequest}
    IN  /\ held \cup current # {}
        /\ CloseWindow(c)
        /\ queue' = [queue EXCEPT ![c] = <<>>]
        /\ Release(c)
        /\ status' = Assign(status, held \cup current, "cancelled")
        /\ stage' = Assign(stage, held, "withdrawn")
        /\ aborted' = aborted \cup current
        /\ UNCHANGED <<seen, merged>>

\* cleanup_old_requests forgets half of the records it may forget.  It takes
\* the ones submitted first; that order is not kept here, any half may go.
CleanupOldRequests ==
    LET known     == {r \in Requests : status[r] # "none"}
        removable == {r \in known : status[r] \notin KeepStatuses}
    IN  /\ Cardinality(known) > MaxRecords
        /\ \E S \in SUBSET removable :
              /\ Cardinality(S) = Cardinality(removable) \div 2
              /\ status' = Assign(status, S, "none")
        /\ UNCHANGED <<seen, active, queue, debounce, timer, merged, stage, aborted>>

\* DEDUP_WINDOW_SECONDS have passed since f was recorded.
WindowPasses(f) ==
    /\ f \in seen
    /\ seen' = seen \ {f}
    /\ UNCHANGED <<active, queue, debounce, timer, status, merged, stage, aborted>>

Next ==
    \/ \E r \in Requests, skip \in BOOLEAN : Submit(r, skip)
    \/ \E c \in Channels : DebounceExpire(c)
    \/ \E r \in Requests : Complete(r)
    \/ \E r \in Requests : CompleteBatch(r)
    \/ \E r \in Requests : Cancel(r)
    \/ \E c \in Channels : CancelChannel(c)
    \/ CleanupOldRequests
    \/ \E f \in Fingerprints : WindowPasses(f)

Spec == Init /\ [][Next]_vars

\* A timer that was set fires, and the finally block that follows a processing
\* task calls complete: nothing else is sure to happen.
Fairness ==
    /\ \A c \in Channels : WF_vars(DebounceExpire(c))
    /\ \A r \in Requests : WF_vars(Complete(r))

FairSpec == Spec /\ Fairness

----------------------------------------------------------------------------
(* Properties *)

\* Every variable keeps its type.
TypeOK ==
    /\ seen \subseteq Fingerprints
    /\ active \in [Channels -> Requests \cup {NoRequest}]
    /\ queue \in [Channels -> Seq(Requests)]
    /\ debounce \in [Channels -> Seq(Requests)]
    /\ timer \subseteq Channels
    /\ status \in [Requests -> Statuses]
    /\ merged \in [Requests -> Seq(Requests)]
    /\ stage \in [Requests -> Stages]
    /\ aborted \subseteq Requests

\* The number of places of sequence s that hold r.
Occurrences(s, r) == Cardinality({i \in DOMAIN s : s[i] = r})

\* A request the caller was told to wait for sits in exactly one slot, of its
\* own channel's queue or window; one that was started, refused or withdrawn
\* sits in none.  Otherwise a message is never answered, or answered twice.
NothingLostNothingTwice ==
    \A r \in Requests : \A c \in Channels :
        Occurrences(queue[c], r) + Occurrences(debounce[c], r)
            = IF stage[r] = "waiting" /\ c = Channel[r] THEN 1 ELSE 0

\* A channel's active request is one the caller is working on and nobody has
\* cancelled: the router never lets a finished or cancelled request hold a
\* channel.
ActiveIsLive ==
    \A c \in Channels : active[c] # NoRequest =>
        /\ Channel[active[c]] = c
        /\ stage[active[c]] = "running"
        /\ active[c] \notin aborted
        /\ status[active[c]] = "active"

\* An open window always has a running timer and a timer always has a window:
\* a window without one would hold its messages for ever.
WindowHasTimer == \A c \in Channels : c \in timer <=> debounce[c] # <<>>

\* What get_request_status answers is what became of the request.  The records
\* of requests that are over may be gone ("none"); "active" is promised only
\* for requests that were started.
StatusTruthful ==
    \A r \in Requests :
        /\ status[r] = "queued" <=> r \in InQueue(Channel[r])
        /\ status[r] = "debounce" => r \in InDebounce(Channel[r])
        /\ status[r] = "active" => stage[r] \in {"running", "served", "folded"}
        /\ status[r] = "completed" => stage[r] \in {"served", "folded"}
        /\ status[r] = "cancelled" => stage[r] = "withdrawn" \/ r \in aborted
        /\ stage[r] = "withdrawn" => status[r] \in {"cancelled", "none"}

\* The router's own records agree: every window can close, and a status asked
\* for is a true answer.
RecordsAgree == WindowHasTimer /\ StatusTruthful

\* The text of a message is part of the content of at most one started
\* request, and of exactly one when the router folded it into another.
AnsweredOnce ==
    \A r \in Requests :
        LET carriers == {h \in Requests : /\ stage[h] \in {"running", "served"}
                                          /\ r \in ToSet(merged[h])}
        IN  /\ Cardinality(carriers) <= 1
            /\ stage[r] \in {"folded", "running", "served"} => carriers # {}
            /\ stage[r] \in {"waiting", "withdrawn", "rejected"} => carriers = {}

\* "Provides channel-level locking to prevent concurrent tool execution within
\* the same channel" (class docstring): two requests of one channel are never
\* being processed together, cancelled ones that still unwind aside.
Exclusive ==
    \A r, s \in Requests :
        /\ stage[r] = "running" /\ r \notin aborted
        /\ stage[s] = "running" /\ s \notin aborted
        /\ Channel[r] = Channel[s]
        => r = s

\* Requests wait behind a free channel only after a cancellation in that
\* channel, or when complete_batch met a request it cannot batch.
StrandedOnlyByCancelOrBatch ==
    \A c \in Channels : queue[c] # <<>> /\ active[c] = NoRequest =>
        \/ ~Batchable[Head(queue[c])]
        \/ \E r \in Requests : Channel[r] = c /\ (r \in aborted \/ stage[r] = "withdrawn")

\* Every message is answered once, or it is known why it is not.
AnswersAccounted == AnsweredOnce /\ StrandedOnlyByCancelOrBatch

\* A request that waits behind an active one is started or withdrawn in the
\* end, unless the channel loses its active request to a cancellation or to
\* complete_batch.
QueueMoves ==
    \A r \in Requests :
        stage[r] = "waiting" /\ active[Channel[r]] # NoRequest
            ~> stage[r] # "waiting" \/ active[Channel[r]] = NoRequest

\* The router keeps the contract of RequestLifecycle towards its caller.
Lifecycle == INSTANCE RequestLifecycle
ImplementsLifecycle == Lifecycle!Spec
=============================================================================
