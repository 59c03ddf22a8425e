----------------------------- MODULE McpServer -----------------------------
(* core/mcp/local_server.py: one local MCP server, started, stopped,          *)
(* restarted, called and reconnected by coroutines that share it. A           *)
(* background task owns each connection. start and stop hold the lock, which  *)
(* serves waiters in order; a coroutine that finds it free goes on without    *)
(* suspending. Tool calls and the pauses of restart and reconnect hold        *)
(* nothing. The request a coroutine works for may be cancelled at any time.   *)
EXTENDS Naturals, Sequences, SequencesExt

CONSTANTS
  Clients,        \* coroutines
  Jobs,           \* what each caller may ask for
  MaxReconnects,  \* max_reconnect_attempts
  MaxTasks,       \* bound: background tasks created
  MaxOps          \* bound: operations each caller begins, by caller

ASSUME McpConstants ==
  /\ MaxReconnects \in Nat \ {0} /\ MaxTasks \in Nat
  /\ MaxOps \in [Clients -> Nat]

VARIABLES
  tasks,       \* the background tasks created: "connecting", "serving", "told",
               \* "failed" before it was ready, "over"
  session,     \* the task that owns the current session, or NoTask
  connected,   \* state.connected
  server,      \* _server_task, or NoTask
  event,       \* the task whose shutdown event is in _shutdown_event, or NoTask
  attempts,    \* reconnect_attempts, counted up to one above the maximum
  lock,        \* the coroutines that hold (first) or await the lock
  client,      \* what each coroutine is doing
  ops,         \* operations left to begin
  clobbered    \* history: the tasks that were the server's when something else
               \* took their connection away, see Clobber

mcpVars == <<tasks, session, connected, server, event, attempts, lock, client, ops, clobbered>>
NoTask == 0

ClientPoints == {"idle", "waitStop", "stopping", "pause", "waitStart", "connecting",
           "clearing", "discovering", "calling"}
Holding == {"stopping", "connecting", "clearing", "discovering"}

McpTypeOK ==
  /\ tasks \in Seq({"connecting", "serving", "told", "failed", "over"})
  /\ {session, server, event} \subseteq 0..Len(tasks)
  /\ connected \in BOOLEAN /\ clobbered \subseteq DOMAIN tasks
  /\ attempts \in 0..(MaxReconnects + 1)
  /\ IsInjective(lock) /\ ToSet(lock) \subseteq Clients
  /\ client \in [Clients -> [job : {"none", "start", "stop", "restart", "call"},
                             at : ClientPoints, on : 0..Len(tasks), retry : BOOLEAN]]
  /\ \A c \in Clients : client[c].at \in Holding => lock # <<>> /\ Head(lock) = c

NotCalling == [job |-> "none", at |-> "idle", on |-> NoTask, retry |-> FALSE]

McpInit ==
  /\ tasks = <<>> /\ session = NoTask /\ server = NoTask /\ event = NoTask
  /\ connected = FALSE /\ attempts = 0 /\ lock = <<>>
  /\ client = [c \in Clients |-> NotCalling]
  /\ ops = MaxOps
  /\ clobbered = {}

IsConnected == connected /\ session # NoTask
Live(t) == tasks[t] \in {"connecting", "serving", "told"}
At(c, point) == client' = [client EXCEPT ![c].at = point]

(* The server lives on, and nothing tells the next start that it does: a call *)
(* on an older session met an error, a start was cancelled while it listed    *)
(* the tools, or an older task ended.                                         *)
Clobber == clobbered' = clobbered \cup ({server} \ {NoTask})

-----------------------------------------------------------------------------
(* stop with the lock: the session is forgotten, the task told to end; then   *)
(* the caller waits for the task if it has not ended. Without the lock the    *)
(* caller leaves the flag connected as it found or made it.                   *)
ToldToEnd == IF event # NoTask /\ tasks[event] \in {"connecting", "serving"}
        THEN [tasks EXCEPT ![event] = "told"] ELSE tasks

AfterStop(c, rec) == IF rec.job = "stop" THEN NotCalling ELSE [rec EXCEPT !.at = "pause"]

StopBody_Fault(c, rec, queue) ==
  /\ connected' = FALSE /\ session' = NoTask /\ event' = NoTask
  /\ tasks' = ToldToEnd
  /\ lock' = queue
  /\ IF server # NoTask /\ Live(server)
     THEN client' = [client EXCEPT ![c] = [rec EXCEPT !.at = "stopping"]] /\ UNCHANGED server
     ELSE client' = [client EXCEPT ![c] = AfterStop(c, rec)] /\ server' = NoTask
StopBody(c, rec, queue) ==
  /\ connected' = FALSE /\ session' = NoTask /\ event' = NoTask
  /\ tasks' = ToldToEnd
  /\ IF server # NoTask /\ Live(server)
     THEN /\ client' = [client EXCEPT ![c] = [rec EXCEPT !.at = "stopping"]]
          /\ lock' = <<c>> \o queue
          /\ UNCHANGED server
     ELSE /\ server' = NoTask
          /\ client' = [client EXCEPT ![c] = AfterStop(c, rec)]
          /\ lock' = queue

EnterStop(c, rec, flag) ==
  IF lock = <<>> THEN StopBody(c, rec, <<>>)
  ELSE /\ lock' = Append(lock, c)
       /\ client' = [client EXCEPT ![c] = [rec EXCEPT !.at = "waitStop"]]
       /\ connected' = flag
       /\ UNCHANGED <<tasks, session, server, event>>

(* start with the lock: nothing if connected, else a new background task. *)
AfterStart(c, rec, ok) ==
  IF rec.job = "call" /\ ok THEN [rec EXCEPT !.at = "calling", !.on = session] ELSE NotCalling

StartBody_Fault(c, rec, queue) ==
  /\ Len(tasks) < MaxTasks
  /\ tasks' = Append(tasks, "connecting")
  /\ server' = Len(tasks) + 1 /\ event' = Len(tasks) + 1
  /\ client' = [client EXCEPT ![c] = [rec EXCEPT !.at = "connecting"]]
  /\ lock' = <<c>> \o queue
  /\ UNCHANGED <<session, connected>>
StartBody(c, rec, queue) ==
  IF IsConnected
  THEN /\ client' = [client EXCEPT ![c] = AfterStart(c, rec, TRUE)]
       /\ lock' = queue
       /\ UNCHANGED <<tasks, session, connected, server, event>>
  ELSE /\ Len(tasks) < MaxTasks
       /\ tasks' = Append(tasks, "connecting")
       /\ server' = Len(tasks) + 1 /\ event' = Len(tasks) + 1
       /\ client' = [client EXCEPT ![c] = [rec EXCEPT !.at = "connecting"]]
       /\ lock' = <<c>> \o queue
       /\ UNCHANGED <<session, connected>>

EnterStart(c, rec) ==
  IF lock = <<>> THEN StartBody(c, rec, <<>>)
  ELSE /\ lock' = Append(lock, c)
       /\ client' = [client EXCEPT ![c] = [rec EXCEPT !.at = "waitStart"]]
       /\ UNCHANGED <<tasks, session, connected, server, event>>

(* reconnect: one more attempt, none beyond the maximum. *)
OneMoreAttempt == attempts' = IF attempts > MaxReconnects THEN attempts ELSE attempts + 1

Reconnect(c, rec, flag) ==
  /\ OneMoreAttempt
  /\ IF attempts < MaxReconnects THEN EnterStop(c, rec, flag)
     ELSE /\ client' = [client EXCEPT ![c] = NotCalling]
          /\ connected' = flag
          /\ UNCHANGED <<tasks, session, server, event, lock>>

-----------------------------------------------------------------------------
(* The operations begin. *)
BeginsJob(c, job) ==
  /\ client[c].at = "idle" /\ job \in Jobs[c] /\ ops[c] > 0
  /\ ops' = [ops EXCEPT ![c] = @ - 1]
  /\ UNCHANGED clobbered

Job(job) == [NotCalling EXCEPT !.job = job]

CallsStart(c) == BeginsJob(c, "start") /\ EnterStart(c, Job("start")) /\ UNCHANGED attempts

CallsStop(c) ==
  \E job \in {"stop", "restart"} :
    BeginsJob(c, job) /\ EnterStop(c, Job(job), connected) /\ UNCHANGED attempts

CallsTool(c) ==
  /\ BeginsJob(c, "call")
  /\ IF IsConnected
     THEN /\ client' = [client EXCEPT ![c] = [Job("call") EXCEPT !.at = "calling", !.on = session]]
          /\ UNCHANGED <<tasks, session, connected, server, event, attempts, lock>>
     ELSE Reconnect(c, Job("call"), connected)

(* The lock is handed to the first waiter. *)
TakesLock(c) ==
  /\ lock # <<>> /\ Head(lock) = c
  /\ \/ client[c].at = "waitStop" /\ StopBody(c, client[c], Tail(lock))
     \/ client[c].at = "waitStart" /\ StartBody(c, client[c], Tail(lock))
  /\ UNCHANGED <<attempts, ops, clobbered>>

(* The task has ended, or is cancelled after ten seconds. *)
StopEnds_Fault(c) ==
  /\ client[c].at = "stopping" /\ ~Live(server)
  /\ server' = NoTask
  /\ client' = [client EXCEPT ![c] = AfterStop(c, client[c])]
  /\ lock' = Tail(lock)
  /\ UNCHANGED <<tasks, session, connected, event, attempts, ops, clobbered>>
StopEnds(c) ==
  /\ client[c].at = "stopping"
  /\ IF Live(server)
     THEN tasks' = [tasks EXCEPT ![server] = "over"] /\ session' = NoTask /\ connected' = FALSE
     ELSE UNCHANGED <<tasks, session, connected>>
  /\ server' = NoTask
  /\ client' = [client EXCEPT ![c] = AfterStop(c, client[c])]
  /\ lock' = Tail(lock)
  /\ UNCHANGED <<event, attempts, ops, clobbered>>

PauseEnds(c) ==
  /\ client[c].at = "pause"
  /\ EnterStart(c, client[c])
  /\ UNCHANGED <<attempts, ops, clobbered>>

(* The task reported that it is ready or failed; then the tools are listed.   *)
ConnectFails(c) ==
  /\ client[c].at = "connecting" /\ tasks[server] = "failed"
  /\ server' = NoTask /\ event' = NoTask /\ connected' = FALSE
  /\ client' = [client EXCEPT ![c] = NotCalling]
  /\ lock' = Tail(lock)
  /\ UNCHANGED <<tasks, session, attempts, ops, clobbered>>

Connects(c) ==
  /\ client[c].at = "connecting" /\ tasks[server] \in {"serving", "over"}
  /\ At(c, "discovering")
  /\ UNCHANGED <<tasks, session, connected, server, event, attempts, lock, ops, clobbered>>

(* The cancelled start has waited for its task to end. *)
Cleared(c) ==
  /\ client[c].at = "clearing"
  /\ IF Live(server)
     THEN tasks' = [tasks EXCEPT ![server] = "over"] /\ session' = NoTask /\ connected' = FALSE
     ELSE UNCHANGED <<tasks, session, connected>>
  /\ server' = NoTask /\ event' = NoTask
  /\ client' = [client EXCEPT ![c] = NotCalling]
  /\ lock' = Tail(lock)
  /\ UNCHANGED <<attempts, ops, clobbered>>

Discovers(c) ==
  /\ client[c].at = "discovering"
  /\ connected' = TRUE /\ attempts' = 0
  /\ client' = [client EXCEPT ![c] = AfterStart(c, client[c], TRUE)]
  /\ lock' = Tail(lock)
  /\ UNCHANGED <<tasks, session, server, event, ops, clobbered>>

-----------------------------------------------------------------------------
(* The background task. Whenever it ends it clears the session and the flag,  *)
(* whoever they belong to by then.                                            *)
TaskReady(t) ==
  /\ tasks[t] = "connecting"
  /\ tasks' = [tasks EXCEPT ![t] = "serving"]
  /\ session' = t
  /\ UNCHANGED <<connected, server, event, attempts, lock, client, ops, clobbered>>

TaskEnds_Fault(t) ==
  /\ Live(t)
  /\ tasks' = [tasks EXCEPT ![t] = IF tasks[t] = "connecting" THEN "failed" ELSE "over"]
  /\ UNCHANGED <<session, connected, server, event, attempts, lock, client, ops, clobbered>>
TaskEnds(t) ==
  /\ Live(t)
  /\ tasks' = [tasks EXCEPT ![t] = IF tasks[t] = "connecting" THEN "failed" ELSE "over"]
  /\ session' = NoTask /\ connected' = FALSE
  /\ IF t = server THEN UNCHANGED clobbered ELSE Clobber
  /\ UNCHANGED <<server, event, attempts, lock, client, ops>>

-----------------------------------------------------------------------------
(* A tool call returns an answer or an error that is not about the connection. *)
ToolReturns(c) ==
  /\ client[c].at = "calling"
  /\ client' = [client EXCEPT ![c] = NotCalling]
  /\ UNCHANGED <<tasks, session, connected, server, event, attempts, lock, ops, clobbered>>

(* An error of the connection: on the first try the server counts as          *)
(* disconnected, whichever session the call used, and is reconnected.         *)
ConnectionError(c) ==
  /\ client[c].at = "calling" /\ client[c].on # NoTask /\ ~client[c].retry
  /\ IF connected /\ lock # <<>> THEN Clobber ELSE UNCHANGED clobbered
  /\ Reconnect(c, [client[c] EXCEPT !.retry = TRUE], FALSE)
  /\ UNCHANGED ops

-----------------------------------------------------------------------------
(* A coroutine is cancelled. Waiting for the lock, pausing or calling, it just*)
(* ends; as it waits for the task to report it has the task cancelled too and *)
(* waits for its end; as it lists the tools it leaves the task running and    *)
(* the flag unset. Waiting for a task to end it passes the cancellation on to *)
(* the task and goes on, which changes nothing.                               *)
Cancelled(c) ==
  /\ \/ /\ client[c].at \in {"pause", "calling"}
        /\ client' = [client EXCEPT ![c] = NotCalling]
        /\ UNCHANGED <<tasks, lock, clobbered>>
     \/ /\ client[c].at \in {"waitStop", "waitStart"}
        /\ client' = [client EXCEPT ![c] = NotCalling]
        /\ \E i \in DOMAIN lock : lock[i] = c /\ lock' = RemoveAt(lock, i)
        /\ UNCHANGED <<tasks, clobbered>>
     \/ /\ client[c].at = "connecting"
        /\ tasks' = IF Live(server) THEN [tasks EXCEPT ![server] = "told"] ELSE tasks
        /\ At(c, "clearing")
        /\ UNCHANGED <<lock, clobbered>>
     \/ /\ client[c].at = "discovering"
        /\ client' = [client EXCEPT ![c] = NotCalling]
        /\ lock' = Tail(lock)
        /\ Clobber
        /\ UNCHANGED tasks
  /\ UNCHANGED <<session, connected, server, event, attempts, ops>>

GoesOn(c) ==
  \/ TakesLock(c) \/ StopEnds(c) \/ PauseEnds(c) \/ ConnectFails(c) \/ Connects(c)
  \/ Cleared(c) \/ Discovers(c) \/ ToolReturns(c)

McpNext ==
  \/ \E c \in Clients :
       \/ CallsStart(c) \/ CallsStop(c) \/ CallsTool(c) \/ GoesOn(c)
       \/ ConnectionError(c) \/ Cancelled(c)
  \/ \E t \in DOMAIN tasks : TaskReady(t) \/ TaskEnds(t)

(* Coroutines go on, servers start or fail to, tools answer or fail. *)
Answered(t) == t \in DOMAIN tasks /\ tasks[t] = "connecting" /\ (TaskReady(t) \/ TaskEnds(t))

McpFairness ==
  /\ \A c \in Clients : WF_mcpVars(GoesOn(c))
  /\ \A t \in 1..MaxTasks : WF_mcpVars(Answered(t))

-----------------------------------------------------------------------------
(* Every background task that lives, and so every server process, is the one  *)
(* the next stop will end, or one whose connection was taken away from it by  *)
(* the error of a call, the cancellation of its start or the end of another.  *)
NoOrphanServer == \A t \in DOMAIN tasks : Live(t) => t = server \/ t \in clobbered

(* A server that counts as connected has a session whose task serves it, or   *)
(* ends with its cancelled start, and is the one the next stop will end.      *)
ConnectedIsServed ==
  IsConnected => /\ session = server
                 /\ tasks[session] = "serving" \/ \E c \in Clients : client[c].at = "clearing"

(* Every operation returns although coroutines queue for the lock, provided   *)
(* that servers start or fail to and that tools answer.                       *)
McpCallsReturn == \A c \in Clients : client[c].at # "idle" ~> client[c].at = "idle"

(* What is recorded of the server and the server process agree. *)
McpSafe == NoOrphanServer /\ ConnectedIsServed
=============================================================================
