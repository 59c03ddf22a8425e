# Formal models of the Clara gateway

Clara's gateway connects chat clients ("adapters") over WebSockets to a
language-model agent with tools, memory, scheduled tasks and background
services. This directory models the parts of it whose correctness depends on
the order in which things happen, checks them with TLC on small instances, and
proves the central properties with TLAPS for all instances.

Source paths are relative to the repository; `gateway/`, `core/`, `ambient/`
and `services/` stand for `mypalclara/gateway/` and so on. `PROJECT.json` holds
the machine-readable form of what follows: components, runs, the source lines
every definition stands for, hazards and theorems.

To check a run: `tlc -workers 2 -config <Run>.cfg <module>`, with the modules
of section 3. To check a proof: `tlapm <Module>.tla`.

## 1. The system

### 1.1 Components, their state and their operations

The gateway is one asyncio process with a pool of threads. Coroutines
interleave only where they await something that suspends, so a synchronous
method, and a coroutine that awaits nothing while it holds its lock, is one
atomic step; what runs in the pool (database work, memory operations, the check
of intentions) interleaves with everything.

| Component | State | Operations | Correct means | Module |
|---|---|---|---|---|
| Message router, `gateway/router.py` | active request and queue per channel, debounce windows with timers, fingerprints, a status per request | submit, debounce expiry, complete, complete_batch, cancel, cancel_channel, cleanup | no message lost or answered twice; one request of a channel at a time; records true; queues move | MessageRouter, RequestLifecycle |
| Node registry, `gateway/session.py` | node by id, node id by session, node id by connection | register, unregister, lookups | the three maps describe one relation; closed connections leave | NodeRegistry |
| WebSocket server, `gateway/server.py` | a handler per connection with a local node id, the chain of requests it processes | register, message and cancel frames, disconnection, debounce callback | what the router hands out is processed and settled, senders learn the outcome, handlers end | GatewayServer |
| Processor, `gateway/processor.py` | a task per request | process | answers once, honours cancellation | GatewayServer, Conversations, FileStore, ToolDispatch |
| Tool loop and guard, `gateway/llm_orchestrator.py`, `core/tool_guard.py` | the turn's conversation; one guard's window and histories for all turns | model calls with retries, tool calls, stop, continuation | every turn ends; every tool call has a result when the model is asked again | ToolLoop |
| Context compactor, `core/context_compactor.py` | none | compact_if_needed | within budget, calls and results stay together | ContextCompactor |
| Tool executor and circuit breaker, `gateway/tool_executor.py`, `core/security/circuit_breaker.py` | a circuit per tool | can_execute, record_success, record_failure, reset | failing tools are disabled for a while and come back | CircuitBreaker |
| Tool registry, plugins, `core/plugins/`, `tools/`, `core/core_tools/__init__.py` | tools by canonical name, loaded modules, policies and call counts | load, reload, unload, register, offer, route, evaluate a policy | what was offered runs; no tool of another module is taken | ToolDispatch |
| Task scheduler, cron parser, `gateway/scheduler.py` | tasks and running tasks by name, next runs | add, remove, enable, disable, start, stop, the loop, a run's steps; parse, next_run | due tasks run, none overlaps itself, one-shot tasks run once; the first matching minute | Scheduler, CronParser |
| Adapter manager, `gateway/adapter_manager.py` | a process per adapter, restart counters | start, stop, restart, supervise | a stopped adapter stays stopped; restarts are bounded | AdapterManager |
| Gateway process, `gateway/__main__.py`, `gateway/daemon.py` | PID file, port, adapters | start, stop, restart, status, signals | a stopped gateway is gone, a started one can be found | GatewayProcess |
| Events and hooks, `gateway/events.py`, `gateway/hooks.py` | handlers by priority | emit, on, off, register, unregister, run a hook | priorities hold; one handler's failure does not stop the others | Hooks |
| Conversations, `gateway/processor.py`, `gateway/api/`, `db/models.py` | rows of projects, sessions, messages | lookup, store, API endpoints, reflection | prompts show what was answered, exchanges do not interleave | Conversations |
| LLM formats, `core/llm/` | cached clients | conversion of messages, tool calls and results | nothing is lost on the way to a provider and back | Formats |
| LLM failover, `core/llm/failover.py` | cooldowns by provider and model | classify, set, check, call with fallbacks | no call during a cooldown, no endless retry | LlmFailover |
| Sub-agents, `core/subagent/` | a record per agent, steering messages | register, run, kill, steer, fail, complete | a killed agent stays killed | SubAgents |
| MCP, `core/mcp/` | sessions, reconnect counters, configurations, OAuth files | start, stop, reconnect, call, install, uninstall, switch, authorize | one session per server; installs are exclusive | McpServer, RemoteServer, McpInstaller |
| VMs and sandboxes, `core/vm_manager.py`, `sandbox/docker.py` | containers, rows, cached handles by user | ensure, suspend, exec, install, clean up | commands run in prepared containers of their user | UserVms, Sandboxes |
| Memory, `core/memory/` | vector and graph stores, their log, caches, the rows of dynamics | add, update, delete, search, snapshot, review | stores and logs agree; caches follow the graph | MemoryStore, MemoryGraph |
| Vector migration, `core/memory/vector/`, `scripts/migrate_pgvector_to_qdrant.py` | two stores, a checkpoint | dual writes, cut-over, copying | one store to its callers | VectorStore, VectorMigration |
| Intentions and ambient loop, `core/intentions.py`, `ambient/` | intentions, queued thoughts | check, fire, consume, queue, send | raised once, neither lost nor repeated | Reminders |
| Email monitor, `services/email/` | last-seen mark, error count, alerts | check an account, alert | no alert lost or sent twice | EmailMonitor |
| Files, shell, workspace, `core/core_tools/` | stored files, attachments, working directory, history, background programs, notes | save, list, send, edit, execute, start, stop, append | listed files are readable, notes survive | FileStore, Terminal |
| Obsidian, `core/obsidian/` | cached clients and snapshots | build, write, invalidate | snapshots follow writes | ObsidianVault |
| Backups, export and import, `services/backup/`, `scripts/clara_export_import.py` | stored backups, marker, archive | run, clean up, restore, export, import | the last backup survives; reported rows are stored | Backups |
| Prompt builder, injection scanner, channel summaries, wire protocol, MCP feature layer, other scripts | | | text, wiring or I/O; see section 7 | - |

### 1.2 Interaction

```
 client --frames--> server handler --submit/cancel--> router --on_debounce_ready--> server
                      |   ^                              ^
           register   |   | answer, error, cancelled     | complete (finally block)
                      v   |                              |
                 node registry      process_request: await task(processor.process)
                                                         |
                                  orchestrator.generate_with_tools -- loop guard (shared)
                                                         |
                                  executor.execute -- circuit breaker (shared) -- tool
```

A handler reads one frame at a time and awaits everything that frame caused. If
`submit` acquired the channel the handler runs `_process_request`, which awaits
the request's task, calls `complete` in its `finally` block, and, if that
returns the next request of the channel, processes it in a recursive call. So
one connection's handler may process a whole chain of other clients' requests;
a debounce timer may host a chain as well. The other components are called
from a request's task or run beside the requests. Each is modelled with what it
sees of the others reduced to outcomes (a tool answers or raises, a send
succeeds or fails), so that they share no variables.

### 1.3 What is hard

- **Interleaving.** Debounce timers, cancels, completions and submissions of
  one channel; results of tool calls that were admitted under an earlier state
  of the circuit; runs of tasks that were removed or replaced meanwhile; turns
  of different channels that share the loop guard; threads that read a store
  before a model's answer and write it after.
- **Failure in the middle.** Clients that disconnect while their request waits,
  runs or has just been answered; cancellation at any await, which no handler of
  errors sees and which leaves locks free and threads at work; tools, models and
  handlers that raise; a write that fails when it has emptied the file; a process
  that dies between a write and its record.
- **Order.** Consolidation and queueing must keep every text in exactly one
  request; records are written before and after the fact; two stores are
  written one after the other.
- **Time.** Deduplication windows, cooldowns, schedules and timers that race
  with everything else. Time is abstracted everywhere to "has it passed yet" or
  to a few ticks.

The 40 hazards, each with its source line and the properties that cover it, are
in `PROJECT.json`.

## 2. Modules

Definitions keep the source's names where TLA+ allows it. A definition
`Name_Fault` is `Name` with one plausible bug in it; no specification uses it,
it exists to show that a property notices the bug.

### 2.1 Requests

`MessageRouter` models every operation of the router that changes state, one
action per outcome (`SubmitAcquire`, `SubmitDebounce`, `SubmitQueue`,
`RejectDuplicate`; `CompleteUnknown`, `CompleteLast`, `CompleteNext`; ...).
`active`, `queue`, `debounce`, `timer`, `status` and `seen` are the fields
`_active`, `_queues`, `_debounce_requests`, `_debounce_tasks`, `_requests` and
`_seen_messages`. Three variables stand for what the fields do not hold:
`merged` is the list of messages whose text a request's content contains,
`stage` what the caller was told to do with each request, and `aborted` the
started requests whose cancellation was accepted. All coroutines hold
`self._lock` and await nothing inside, so each call is one step. `cancel_channel`,
`complete_batch`, `cleanup_old_requests` and `skip_dedup` are modelled although
nothing outside the tests calls them: they are the class's public operations.
`RequestLifecycle` is the abstract specification: what the operations and the
callback promise a caller about each request, with no queues, windows or
records. `ImplementsLifecycle` is its specification, instantiated on `stage`.

`NodeRegistry` has the three maps and `register` / `unregister`, each one step.
`phase` is the life of a connection, which the server drives. `shared` and
`renamed` are history variables: connections that held a node id together with
another, and connections that changed their id. The server never passes a
session id to `register`; the module allows it (`Presented`), as the class and
its tests do.

`GatewayServer` composes `INSTANCE MessageRouter` and `INSTANCE NodeRegistry`
with the handlers of connections and the chains of requests. `inbox` holds the
frames a connection has sent and its handler has not read, `open` and `ended`
the life of a connection and its handler, `local` whether the handler's
`node_id` is set, `host` and `step` which chain processes a request and where it
is, `told` the final frames written about a request. The processor is reduced to
the outcomes of its task: it answers and returns (`Answer`, `TaskReturns`),
fails (`TaskFails`) or is cancelled, by `cancel` or because sending to a closed
connection raises (`TaskCancelled`). `Settle` is the `finally` block. Input
bounds: a client registers once on a connection, cancels only requests it sent
and has heard nothing final about, and has at most `MaxInbox` frames unread.
Outside these bounds is the refused re-registration of section 6.

`ToolLoop` has turns of `generate_with_tools` over one shared `ToolLoopGuard`:
model calls with retries, batches of tool calls checked and executed one by one,
the stop that leaves the batch, the second call without tools, automatic
continuation (a recursive call with new counters), the summary when the
iterations are used up, and cancellation at any await. Of the conversation it
keeps `owed`, the calls without a result; `unanswered` records that the model was
asked again while some were owed, `stopped` that the guard stopped the turn.

`ContextCompactor` continues where the loop stops: it has the conversation with
its sizes, and what is summarised, cut and dropped before each further call.
`Formats` follows one conversation through the orchestrator's typed messages, the
dicts of `compat.py`, the three provider routes and the XML mode. `ToolDispatch`
holds the registration of the core tools, the offer, and the routing of a call
some awaits later; the loader of tool modules with overlapping loads; and the
policies with their rate limit. `Conversations` has the rows and the threads
that read and write them. Any of the gateway's requests may look up a session at
the same time as any other, those of one channel too, since the router hands out
two of a channel while debouncing (section 6); only the API's setup, which awaits
nothing, is apart (`LoopIsFree`). A lookup may fail, which ends the request, and
the history may be unreadable, which the code takes for an empty one. The history
variables `met`, `crossed` and `unread` record which lookups and which exchanges
overlapped and whose history was not read. `FileStore` has the files of users
with the attachments of a reply, and the notes of the workspace, where a failing
write leaves the old text or a beginning of the new one (`HalfWritten`) and a
call may be cancelled before its command begins.

### 2.2 What helps a request

`CircuitBreaker` is one tool's circuit and the executions that consult it. A
cancelled execution (`Abort`) records nothing because `CancelledError` is no
`Exception`. `failureCount` is not counted beyond the threshold; the code never
asks for more than whether it was reached. `lost` is a history variable: a test
call of the present half-open time was cancelled.

`SubAgents` has the records, the tasks and the steering queues; a task suspends
only while it awaits the orchestrator's next event, so a kill is noticed there.
`LlmFailover` has calls that go through the candidates, wait and retry, over the
shared cooldowns; error classes are outcomes. `McpServer` is one local server:
its background task, its lock and reconnecting calls. `RemoteServer` is the same
for a remote one, with the OAuth file. `McpInstaller` is every way to install one
name, with what is left in files and processes. `UserVms` and `Sandboxes` are the
containers: one user's with the database row, and those whose names may collide.

The tasks of requests are cancelled through the router, so the callers of these
have an action `Cancelled`. In `McpServer` a start cancelled while it waits for
`initialize` has its task cancelled and waits for its end (`Cleared`), one
cancelled while it lists the tools gives up the lock and leaves the task alive,
recorded in `clobbered`. In `RemoteServer` a cancelled task leaves the lock's
queue, and what it had begun: an attempt that stays counted (`failed`), a stack
half closed or replaced (`leaked`). In `UserVms` a cancelled call frees the lock
while the thread it waited for goes on asking Docker (`threads`, `ThreadEnds`);
the containers such threads make are `strays`.

### 2.3 What runs beside the requests

`Scheduler` has the operations on tasks and the steps of a run: created, working,
emitting the event of its failure, over. A run is `<<task, n>>`; `running` and
`tasks` are the two dictionaries, by name, so runs of a replaced task and of its
successor meet in one entry, as in the code. `nextRun` says whether `next_run` is
absent, ahead, or passed. `removed` and `stopped` are history variables. `stop`
is one step: the loop is at its sleep whenever another coroutine runs, so
awaiting it changes nothing else. `run_task_now` is offered for periodic tasks
only (input bound). `CronParser` models `_parse_field` by the set of numbers a
part stands for and `next_run` as the search it is, over a calendar given as a
constant. Its weekdays are the ones the search compares, counted from Monday; the
comments count them from Sunday (section 6).

`VectorMigration` has two stores, writing threads, the restart that changes the
mode, and the copying script, whose `Batch` is the slice of the ids by `Rank`
(`ORDER BY id OFFSET .. LIMIT ..`). `suspect` is a history variable: the points
whose copies may differ because a write was skipped, failed, was cut off or
overlapped. `VectorStore` is the abstract specification: one store in which each
write takes effect at one moment between its call and its return.

`Reminders` joins the two sources of reminders: intentions, read and marked as
fired by a check in a thread, and thoughts queued by the ambient turn; both are
consumed when they enter a prompt.

`EmailMonitor` keeps, beside the account's row, which messages are flagged as
read (`marked`): while there is no last-seen mark a check asks for unread mail
and its fetch flags what it reads, so that what a failed or broken-off first
check had read is not asked for again. The mail's user may read it first, too
(`UserReads`). In `MemoryStore` two facts may be `Similar`, which is any
reflexive and symmetric relation: the validation drops a new memory whose nearest
neighbour is similar before it asks whether it contradicts it. `MemoryGraph`'s
rows of dynamics are made by a first review or by the writer, which counts the
creation as an access without logging one (`base`). `AdapterManager`,
`GatewayProcess`, `Hooks`, `ObsidianVault`, `Terminal` and `Backups` each have the
state and the operations of the table above; their headers say what is reduced to
an outcome.

Many of these have history variables with names such as `excused`, `spared` or
`strays`: the code has known gaps (section 6), and the properties hold outside
them. Each is set by the step that opens the gap and nowhere else, so that the
property says precisely which gaps there are.

### 2.4 Instances and proofs

`MCMessageRouter`, `MCGatewayServer` instantiate one module. `MCHelpers`,
`MCServices`, `MCRecords` and `MCResources` put together several that share no
state: `subject` chooses which one runs in a behaviour, the others stay as they
start. They extend the modules whose properties are theorems too, so that run
and theorem speak of one definition, and instantiate the rest. `RecordsSafe` and
`ResourcesSafe` gather the safety properties of several subjects; those of a
subject hold trivially while it rests. `DistinctSequences`
and the modules `*Proofs` hold the theorems of section 5.

## 3. Runs

| Run (module) | Instance | States | Shows |
|---|---|---|---|
| MessageRouter (MCMessageRouter) | 4 messages of 3 texts in one channel, one of them a mention, cleanup above 3 records | 2·10^5 | messages are neither lost nor duplicated; records are true; the router implements RequestLifecycle; queues behind an active request move |
| MessageRouterOvertake (MCMessageRouter) | the same, cleanup above 4 | | *violation*: with debouncing on two requests of a channel are processed together |
| NodeRegistryLookup (NodeRegistry) | 2 connections, 2 node ids, 3 session ids | | *violation*: closing one of two tabs hides the other |
| GatewayServer (MCGatewayServer) | 2 connections, 3 messages of one text, 1 channel, session ids interchangeable | 1.2·10^6 | server and router agree about what is being processed; outcomes are told; handlers clean up |
| GatewayServerLive (MCGatewayServer) | 2 messages | 7·10^4 | every request handed out is completed; handlers of closed connections return |
| Scheduler (Scheduler) | a periodic and a one-shot task under one name, 2 runs each | 3·10^5 | no stale entry, no overlap, one-shot once, due tasks run |
| SchedulerReplace (Scheduler) | the same | | *violation*: a one-shot task begins twice after a removal |
| ToolLoop (ToolLoop) | 2 turns, 2 tools, 2 outputs, batches of 2, 2 iterations, 1 continuation, 2 attempts | 1.5·10^6 | polling ends; only a stop leaves calls without results; turns are bounded |
| Helpers (MCHelpers) | breaker: 3 executions, threshold 3; sub-agents: 2 of 2 parents; failover: 2 calls, 3 candidates; one adapter; one MCP server with 2 callers; 2 mails; a gateway and its stop | 5·10^4 | each ends what it took up, under its own fairness; the first three are safe |
| Services (MCServices) | cron: 7 expressions from every start; migration: 2 threads, 2 points, 2 writes; reminders: 2 requests, 2 intentions, 1 thought; 2 adapters; MCP server with 3 callers; 4 mails, 5 rules | 8·10^5 | safety of what runs beside the requests; the stores implement VectorStore; a search finds the first match |
| Records (MCRecords) | 14 subjects: conversations, loader, dispatch, files, edits, shell, notes, policies, vault, export, process, backups, programs, formats | 1.3·10^6 | safety of what the gateway keeps and hands out |
| Resources (MCResources) | 11 subjects: router without debouncing on 2 channels, registry of 3 connections presenting any session id, memory, VMs, remote servers, sandboxes, compactor, hooks, installs, graph, dynamics | 1.6·10^6 | channel locking; the registry's maps agree; safety of what callers compete for |

### 3.1 Why the bounds are enough

- *Router.* One channel has one active request, one queue and one window, and
  channels share only the records and fingerprints. Four messages fill a window
  of two beside an active request with one waiting, in every order, or a queue
  of three, of which one cannot be batched; two messages with one text make
  duplicates. `MaxRecords = 3` makes the cleanup happen.
- *Registry.* Every interaction is between two connections through one id; the
  third connection, and a second id, let one pair be disturbed by another.
- *Server.* Two connections are needed for a chain that processes another
  client's request, three messages for one that is processed while another
  waits and a third is in the inbox, one text so that duplicates occur.
- *Scheduler.* Names are independent; two tasks under one name, of different
  types, and two runs of each contain replacement, removal and restart in the
  middle of a run.
- *Breaker.* Three executions allow one admitted early, one test call, and one
  more in any combination; three is also the code's threshold.
- *Tool loop.* The code's thresholds (4 equal results, 30 repetitions in a
  window of 30, and so on) are scaled down together so that each of the guard's
  three reasons to stop occurs within two turns; `Repeated` still needs a window
  full of one call, ping-pong needs three calls.
- *Cron.* Two minutes a day and a leap day every second year contain every
  carry of a field; the window of one ordinary year makes the search fail for
  a day only leap years have, as 525600 minutes do in the code.
- *The others* have two or three actors, the number that meet in the
  interleavings of section 1.3, limits of one or two so that every limit is
  reached, and bounds on failures (`MaxFaults`, `MaxFailures`, `MaxCrashes`,
  ...) of one or two so that a fault can hit every step. Where a component has
  modes (S3 or disk, three provider routes, ways to install) all of them run.

- *Memory.* Of three facts two are similar and any two contradict each other, so
  that a thread finds its fact there, something similar, or something it replaces.
- *Conversations* have two requests of one user in one channel, in a direct
  message or through the API: the two lookups that meet share their context or
  do not. *Records* identifies states that differ in the names of requests; the
  export starts with no rows, a conversation with one message or one with two, and
  filters by user or by date, not both.

Every theorem of section 5 holds without these bounds. Deadlock is not checked
in runs whose system may stop, which all may: all messages served, no client
left, all turns over.

### 3.2 Fairness

- *Router* (`FairSpec`): a timer that was set fires, and the `finally` block
  that follows a processing task calls `complete`. Submissions, cancels and
  clean-ups are owed by nobody. The second half is not taken on trust:
  `EverythingReturns` of GatewayServerLive contains `HonoursRouter`, the same
  formula, of the server.
- *Server*: the event loop resumes a handler that can go on, timers fire, and a
  request's task and chain go on (`WF` per connection, channel and request;
  tools and models return or time out). Clients owe nothing, not even to close.
- *Scheduler*: the loop ticks every 100 ms, time passes, runs go on.
- *Helpers*: per subject. An execution that runs returns, fails or is
  cancelled, and the cooldown passes; a sub-agent's generator has a time limit;
  providers answer or fail and backoffs end; the supervisor wakes; an MCP
  server that was started answers `initialize`, and calls are answered (a server
  that never does holds the lock for ever, which the code does not prevent);
  the poll interval passes and a check goes on; commands go on. Nobody owes a
  call, a reset, a kill or a fault.
- *Services*: the cron search is a loop that goes on.
- *Tool loop, Records, Resources*: none. Termination of a turn is stated as a
  safety property, `TurnsAreBounded`: each step of a turn ends it or lowers a
  measure made of the continuations, iterations and steps left.

## 4. Properties

Each module has one type invariant, checked directly or as a part of
`HelpersTypeOK`, `ServicesTypeOK`, `RecordsTypeOK` or `ResourcesTypeOK`.

*MessageRouter.* `NothingLostNothingTwice`: a waiting message is in exactly one
slot of its channel, any other in none. `ActiveIsLive`: no finished or
cancelled request holds a channel. `RecordsAgree`: window and timer come and
go together, so that a window always closes, and what `get_request_status`
answers is what became of the request. `AnswersAccounted`: a text is carried by
at most one started request, and requests wait behind a free channel only after
a cancellation or behind a head that cannot be batched. `Exclusive`:
channel-level locking. `ImplementsLifecycle` and `QueueMoves` as above.

*NodeRegistry.* `RegistryAgrees`: a listed node's session id resolves to it; its
connection is open and maps to it, unless it was renamed; the maps are inverse
on connections with an id of their own, whatever other connections do.
`LiveFound`: a connection that is mapped finds its node.

*GatewayServer.* `RequestsSeenThrough`: router and server agree about what is
being processed, and a settled request's client, if connected, was told how it
ended. `DisconnectCleansUp`: when a handler has returned the registry does not
know its connection. `EverythingReturns`: `HonoursRouter` and handlers of closed
connections return.

*Scheduler.* `EntriesAgree`: a listed run is alive and not cancelled; disabled
tasks and spent one-shot tasks have no next run. `NothingRunsTwice`: no overlap
and one-shot once, for tasks whose name saw no removal and no stop, replacements
included. `RunOnce`: for one-shot tasks after a removal too. `DueTasksRun`.
*CronParser.* `SearchCorrect`: the first match is found, and the search ends.

*ToolLoop.* `LoopSafe`: the same result of one tool is recorded at most once
per turn beyond the guard's threshold, though the turns' checks and results
interleave; only a stop leaves calls without results when the model is asked
again. `TurnsAreBounded`.

*Helpers.* `BreakerSafe`: a closed circuit never holds a count at its threshold,
a half-open circuit has a test call under way unless one was cancelled, no late
result ends a cooldown. `SubAgentsSafe`: a running record has a task, a killed
agent takes up no instruction, what ended stays ended. `FailoverSafe`: no
first attempt at a candidate that cools down, no retry of an overflow, and
"unavailable" only when all cool down. `HelpersEnd`: calls, sub-agents, crashes,
mails and commands are all dealt with in the end, and a disabled tool becomes
callable again.

*Services.* `MigrationSafe`: the two stores differ only on points that a write
or the copying left in doubt (`DriftIsExplained`), and a copy that went through
while no point came or went, and that was not resumed from an older run's
checkpoint, leaves none of those in doubt before it behind (`CopyIsComplete`).
`ImplementsVectorStore`. `RemindersSafe`: a
fired intention was raised, is about to be, or was lost in one of two known
ways; a thought enters one prompt; nothing is raised twice but by overlapping
checks; urgent messages keep their distance. `AdaptersSafe`: a running adapter
is the process the supervisor watches, strays come from one known order, a
shutdown stops all, restarts are bounded. `McpSafe`: every MCP server process is
the one the next stop ends, unless a start was cancelled while it listed the tools
or a late end of a task came between. `MailSafe`: the mark passes a message only
with an alert or one of five excuses, among them that it was read before there was
a mark; alerts are single unless recording failed; errors count twice.

*Records.* `RecordsSafe` is, per subject: prompts show what was answered unless
the history could not be read, rows of a session are paired but for exchanges that
overlapped, two active sessions of a context come from lookups that overlapped
only, never from the API's (conversations); listed files are readable and
attachments are sent as they are at the end (files); an edit changes the rows it
names (edits); the history is the last commands (shell); a snapshot is current but
for known gaps, one build at a time, a replaced token ages out (vault); archives
of a quiet database import, reported rows are stored (export); "stopped" leaves no
process, an uncontested daemon can be found, orphans are explained (process); the
last backup survives every cleanup, skips are explained, nothing is half restored,
the next run is the next (backups); running programs are tracked and stopped ones
have ended (programs); no text, image, call or result is lost between the formats,
and clients have their configuration (formats); no tool is left behind by a load
(loader), what was offered is what runs (dispatch), the first rule of the highest
priority decides and the rate limit holds but for calls checked together
(policies). `NothingTaken`: a tool changes hands only after its removal, and notes
are lost only to an overwrite or to a write that failed, which leaves a beginning
of what it was to write.

*Resources.* `MemorySafe`: the memory log ends with what is stored, and a fact
told is known, or something similar is, but for the listed races. `VmsSafe`:
commands fail only by Docker, a suspension or a container made for a call cancelled
before, and run prepared but where the preparation failed, was cut off or never
came. `ResourcesSafe` is, per subject: compaction keeps the latest results and its
calls; hooks run by priority, all of them; the graph's cache follows the graph;
reviews are counted, with the creation of a row by the writer; each call of a
sandbox runs its own script; remote sessions are owned, every counted attempt
failed, was cancelled or is under way, grants succeed; of two installs that
succeed one was under way when the other asked, an uninstalled server stays gone,
a configuration finds its code, the running server is the installed one and a
switch stands, but for the listed gaps.

## 5. Proofs

| Module | Theorem | Proved for all constants |
|---|---|---|
| MessageRouterProofs | `TypeCorrect`, `NothingLost`, `ActiveLive`, `RecordsCorrect`, `AnswersCorrect` | every invariant of the run MessageRouter |
| | `ChannelLocking` | `Exclusive`, with debouncing off |
| | `RouterImplementsLifecycle` | the refinement of RequestLifecycle |
| | `ProcessTypeCorrect`, `ProcessIsSafe` | the gateway's process, its PID file and adapters |
| ResourcesProofs | `RegistryTypeCorrect`, `OneNodePerSession`, `NoGhostNodes`, `LookupsAgree`, `RegistryIsConsistent` | the types and `RegistryAgrees`, whatever session ids are presented |
| | `VmTypeCorrect`, `VmsAreSafe` | a user's virtual machine |
| | `MemoryTypeCorrect`, `MemoryIsSafe` | the memory store, with plans of any length |
| | `GraphTypeCorrect`, `GraphIsSafe` | the memory graph and its cache |
| | `DynamicsTypeCorrect`, `DynamicsAreSafe` | the rows of the memory dynamics |
| GatewayServerProofs | `ServerTypeCorrect`, `DisconnectsAreCleanedUp`, `RequestsAreSeenThrough` | every invariant of the run GatewayServer |
| | `ServerDrivesRouter`, `ServerDrivesRegistry` | the server's behaviours are behaviours of its two parts |
| | `SandboxTypeCorrect`, `SandboxesAreSafe` | the sandbox containers |
| SchedulerProofs | `TypeCorrect`, `NoStaleEntry`, `ListsAgree`, `OneRunAtATime`, `WorkIsDoneOnce` | every invariant of the run Scheduler |
| | `VaultTypeCorrect`, `VaultIsSafe` | a user's Obsidian vault |
| ProcessorProofs | `LoopTypeCorrect`, `LoopIsSafe`, `EveryTurnIsBounded` | every property of the run ToolLoop |
| | `OneActiveSession` | `OneSessionPerContext` of the conversations |
| | `RemoteTypeCorrect`, `RemoteIsSafe` | a remote MCP server |
| HelpersProofs | `TypeCorrect`, `ClosedCircuitsAreHealthy`, `HalfOpenCircuitsAreTested`, `CooldownsAreServed`, `BreakerIsSafe` | the breaker |
| | `AgentsTypeCorrect`, `SubAgentsAreSafe` | the sub-agents |
| | `FailoverTypeCorrect`, `FailoverIsSafe` | the failover |
| | `AdaptersTypeCorrect`, `AdaptersAreSafe` | the adapter manager |
| | `McpTypeCorrect`, `McpIsSafe` | one local MCP server |
| ServicesProofs | `MigrationTypeCorrect`, `MigrationIsSafe`, `MigrationImplementsStore` | the vector migration and its refinement of VectorStore |
| | `RemindersTypeCorrect`, `RemindersAreSafe` | intentions and thoughts |
| | `EmailTypeCorrect`, `MailIsSafe` | the email monitor |
| | `InstallsAreSafe` | `InstallSafe` of the MCP installer |

`DistinctSequences` has the lemmas on sequences without repetition that the
router and the server share: what `Append`, `Tail`, `RemoveAt` and `SubSeq` do to
such a sequence and to its elements.

The assumptions are the named ones of the modules, which TLC evaluates in every
run: `ConstantsOK`, `RegistryConstants`, `ServerConstants`, `SchedulerConstants`,
`LoopConstants`, `BreakerConstants`, `AgentsConstants`, `FailoverConstants`,
`MigrationConstants`, `RemindersConstants`, `EmailConstants`, `AdapterConstants`,
`McpConstants`, `VmConstants`, `MemoryConstants`, `ConversationsAssumption`.
Modules that the runs only instantiate state theirs as hypotheses of the
theorems: `RemoteAssumptions`, `SandboxAssumptions`, `VaultAssumptions`,
`ProcessAssumptions`, `GraphAssumptions`, `DynamicsAssumptions`, and that
`Nobody` is no install. They type the functions among the constants, keep `None` and the like
apart from proper values, and make limits natural numbers. Four sets need to be
finite: the turns of the tool loop, because `PollingEnds` counts them, the
intentions, because `max_intentions` does, the tasks about a remote connection,
whose attempts are counted, and the ids of the memories, of which a search takes
a number. The guard keeps every result and looks at the last few;
`KeptResults`, which bounds them in the model, must reach the threshold.

*Router.* `NothingLostNothingTwice` counts positions in sequences and is not
inductive in a usable form. The inductive invariant is `Slots`: queue and window
of a channel have no repetitions, no element in common, and together hold
exactly the channel's waiting requests; `OccurrencesOf` turns it back into
counts. `LiveInv` adds that aborted requests had been started, which is why a
cancelled request can never become active again. `Locked` (without debouncing, a
channel's live started request is its active one) gives exclusion. `RecordsInv`
is `WindowHasTimer` with `Truthful` of each request, relative to `Slots`: a
status says "queued" exactly of what a queue holds. For answers `TextsInv` says
which texts a content has: a request that has not started carries its own alone,
one that has carries its own and folded ones, no text is carried twice and every
folded one is carried; `Explained` is the claim on waiting requests, and uses
`LiveInv` where a completion finds nothing to start. The refinement needs
`Slots`: the requests the router starts or folds are waiting ones of the channel.

*Registry.* The first two invariants are inductive over the types.
`MapsAgree` is not: a connection must be known to share its node id before the
other one's `unregister` takes it away. `SharersKnown` says that any two
connections mapped to one id are in `shared`.

*Server.* `DisconnectCleansUp` is not inductive: a handler that forgot its node
id unregisters nothing. `Mapped` adds that a mapped connection has its `local`
node id and that an unread register frame is the first frame of a connection
that never registered, so that no refused registration follows. For requests,
`ChainInv` joins `StartsAreProcessed` with `Heard` (from the moment a request was
answered or reported on, its sender knows or is gone) and with `RouterInv`, the
part of `Slots` the server relies on. That part is proved here for the steps the
server takes of the router. `ServerDrivesRouter` and `ServerDrivesRegistry`
map each step of the server to a step of the part or a stutter, by which the
theorems on the parts hold inside the server.

*Scheduler.* `SchedulerInv` joins the types, `EntriesAreLive` and `Registered`
(a listed task is registered under its own name, a created run is one that was
started). For `NoOverlap` the strengthening is `Tracked`: a live run of a task
whose name saw no removal and no stop is the run that name's entry lists. For
one-shot tasks `OnlyRun` adds that such a task has one run at most, which is
alive until it marked the task as run, and `CancelledTouched` that only a removal
or a stop cancels a run.

*Tool loop.* `TurnsInv` types a turn and says that it owes results only at the
stages that pay them. `TurnsAreBounded` compares a lexicographic measure;
each action is shown to end the turn or to lower it. `PollingEnds` needs
`PollInv`: when a tool's last `n` results are equal and `n` reached the
threshold, `n` plus the turns that still execute the tool is at most the
threshold less one plus the number of turns. A turn that is let in later sees the
history and is stopped.

*Breaker.* The invariants are inductive over the types; a success sets the
count to zero whatever the state, and only a half-open circuit closes.
*Sub-agents.* `AgentsInv` adds `TasksMatchRecords`: an unregistered agent has no
task and one that completed or failed has none any more. *Failover.*
`FailoverInv` adds that a call backs off only while attempts are left;
`AdvanceFacts` states what the search for the next candidate leaves.

*Adapter manager.* What a stop may do to an adapter depends on who waits for its
process. `CallSound` says that a caller that killed a process waits for one that
no longer lives, `DownSound` that one caller at a time carries out the manager's
stop and that the adapters it has been through run only if somebody started
them since. `Settled` of an adapter joins its process, its waiters and the
supervisor. *MCP server.* The lock is a queue; `McpQueue` says that nobody stands
in it twice and that who is inside stands at its head, by the lemmas of
`DistinctSequences`; a cancelled caller leaves it from any place. `McpUndisturbed`
says of the tasks whose connection nobody took away which one lives and which
session is theirs: no late end of a task cleared it, and no start was cancelled
after its task was ready.

*Virtual machines.* `VmsSafe` needs who holds the user's lock (`LockSound`: the
calls between looking for a container and preparing it, alone, and only while the
user is not cached), which container an object is of (`ContainersSound`: maybe
one that is gone, never an older one than Docker has), and what the failures that
are not Docker's presuppose (`VmUntouched`). The strays are in each of them: a
container may appear under the user's name while another call holds the lock.

*Memory store.* The history of a memory and the knowledge of a fact are kept
apart. `HistoryOf` speaks of a memory that no two threads changed at once: what
the thread at work wrote is stored, and the log's last line says so unless the
thread has not come to it or the logging failed. `KnowledgeSound` speaks of a
fact that nobody took out and no two threads added at once, similar ones counted
with it: once stored it or its like is stored, because what a thread drops as a
duplicate has a similar memory outside the thread's own batch. Similarity need
not be transitive for this.

*Conversations.* Two active sessions of one context need two lookups that both
found none. `LookupsSound` says that two lookups of a context have met and neither
is the API's, whose setup awaits nothing, and that what a lookup is about to create
is there only if another created it that it has met. Nothing is assumed of the
router.

*Installer.* `InstallInv` has a part per conjunct of `InstallSafe`. `RivalsKnown`
is `OneInstallWins` said already of the installs under way; `WaysSound` ties a
success to the file or the remote entry by which the next `install` is refused.
`GoneSound` says that an uninstalled server's install is over and that its
process runs only when it was revived. `ClonesSound` says who may rely on the
clone in the directory: an install that tests it, the file and the process made
of it, each as its owner or with an excuse.

*Remote servers.* `Locking`: who closes, refreshes, dials or shakes hands stands
at the head of the lock's queue. `Owning`: session numbers are handed out once;
the connection's session is open, not lost, and none that a task is closing.
`AttemptsAreReal` alone is not inductive, because the attempts are counted outside the
lock and forgotten by a success: `Counting` adds that a connection that is there has
none counted, and bounds them by the tasks that asked and those that asked twice.
A cancelled task moves its attempt from those under way to those that failed.
`Granting` follows a flow's verifier from the file to the task that exchanges
the code, unless another task rewrote the file.

*Sandboxes.* `OneMakes`: one call at a time makes a container, for a user without
one. `OwnOrTaken`: a container in use is up and its user's session's, unless it
was taken (it stopped, or was removed as idle or under a colliding name).
`ScriptsApart`: two calls whose scripts are in one container have both crossed,
so that whoever has not finds its own script there.

*Obsidian vault.* `BuildersHold`: who builds a snapshot holds its key's lock.
`BuildsAreCurrent` says of a build under way what `SnapshotIsCurrent` says of the
snapshot it becomes. `TokensAge`: a client whose token was replaced was made
before that, so that the token is no longer replaced than the client is old.

*Gateway process.* `UncontestedIsListed` needs who else could write or remove the
PID file: `Alone` says that beside a gateway nobody crowded no other one lives,
`Calm` that no command is under way while its daemon is not listed, and that
once it is the file names it and no command has come far enough to remove the
file.
`TargetsExist` and `LaunchedOnce` tie commands to the processes they name or
start, and `AdaptersHeld` adapters to a gateway that was alive to spawn them.

*Memory graph.* Every cached key has its reason (`KeyFollows`): it is one of the
answers of today, or late, or an author who has come no further than its kind of
key will drop it (`StillDrops`; `Writing` alone forgets that the searches go
first). That an answer keeps to its limit is `LimitedFits`, by an injection: of
numbers with fewer than `n` lesser ones in the set there are at most `n`.

*Memory dynamics.* `CopyFollows`: the copy of a review under way is the row,
unless another overlapped with it, and counts no more than was logged and counted at
the row's creation; `RowSound` is `DynamicsSafe` of one row. A memory without a
row has nothing logged (`UnloggedWithoutRow`).

*Migration.* `DriftInv` adds to `DriftIsExplained` that a point not in doubt is
written by one thread at a time, in both stores, and that the writer is about to
make Qdrant's point pgvector's (`Owned`), and that a fetched point not written
since is pgvector's (`FetchedIsFresh`). `CopyInv` says where the points in doubt
are: while no point came or went they lie at or after the offset, by rank, or
came into doubt after the copy started (`SuspectsAreAhead`), and the script and
the cut-over exclude each other. Its lemmas are about ranks: ranks grow with the
ids (`RankGrows`), are below the number of points (`RankSmall`), each is taken
(`RankBefore`), a batch therefore has at most `BatchSize` points (`BatchFits`) and
an empty one means that nothing lies ahead (`NothingBehind`). The refinement maps
a write's two halves to one effect, in the store that is authoritative at
the time; a restart ends the calls, and the points it cut off are in doubt.

*Reminders.* What fired belongs to one request: `OneClaim` says that an
intention no late check fired is held or was raised by one request at most;
`PromptsHoldWhatFired`, that a prompt has what its check fired, but for what was
lost; `OneReader`, that a delivered thought is in one prompt; `UrgentIsNew`, that
an urgent thought under way is new and the last message old.

*Email monitor.* That the last-seen mark may move is known when the batch is
done, but decided message by message: `BatchIsDueOrHandled` says throughout the
check that a relevant message up to the newest one fetched is still in the batch
or was alerted or has an excuse. `DeliveredIsKnown` ties the deliveries to the
recorded alerts and the known losses, and `SendingIsNew` says that what is being
sent is relevant and not recorded, so that a second delivery presupposes a lost
record. `MarkedIsKnown` says that while there is no mark a message flagged as read
is in the batch or has its excuse. Two lemmas are about the operators: among the
rules that match one precedes the others (`FirstRule`), by which `Evaluate` finds
a rule exactly for what is relevant (`EvaluatesRelevant`); and what is not wanted
of a range that was asked for was seen before (`WantedFacts`).

Two attempts at these proofs failed for a reason in the model, which the runs'
small instances had hidden; both are races of the code, which the properties now
name. With plans longer than one action, the removal of a duplicate
takes out whatever the memory holds by then, another thread's update included
(`core/memory/core/memory.py`): the run's `MaxPlan = 1` left no room for it, and
`retracted` has it now. And a clone test that fails late removes the directory of
another install whose server runs from it (`core/mcp/installer.py:642`): that
needs two clones and a third install, and `stripped` records it.

What stays with TLC:

- Liveness: `QueueMoves`, `EverythingReturns`, `DueTasksRun`, `HelpersEnd`, the
  end of the search in `SearchCorrect`. They need fairness and `ENABLED`.
- `SearchCorrect` of CronParser: that no minute between was passed over is an
  induction over the minutes searched, and the parts of an expression are data.
- The components without a theorem: those of Records (`RecordsSafe` but for
  `OneSessionPerContext`, the vault and the process, and `NothingTaken`), of
  `ResourcesSafe` the hooks and the compactor,
  and the conjunctions of types of the four composed runs, of which the parts of
  modules with theorems are proved separately. `Formats`, `Terminal`'s edits and `Backups`' schedule compute over
  sequences and would need induction over data; nothing in principle stands
  against the others.

## 6. Disagreements between code and documents

Three are shown by runs:

- `MessageRouterOvertake`: the router's docstring promises channel-level
  locking (`gateway/router.py:104`); a mention that arrives during a debounce
  window and the window's own request are processed at once, and the mention
  can no longer be cancelled.
- `NodeRegistryLookup`: the registry promises lookup of connections
  (`gateway/session.py:71`); two connections with one node id break it.
- `SchedulerReplace`: one-shot tasks "run once" (`gateway/scheduler.py:48`);
  the cleanup of a removed run lets its successor start twice.

The following were met while reading the code for the models. No run is devoted
to them; where a property excludes one, it names it.

*Requests.*
- A second register frame that is refused sets the handler's `node_id` to
  `None`, so the connection's node is not unregistered when it closes
  (`gateway/server.py:144`, `:192`). A session id kept for reconnection is
  refused once its node was unregistered (`gateway/session.py:158`).
- A cancel is not read while the connection's own handler processes a request
  (`gateway/server.py:327`), and a cancel read between the answer and
  `complete` is accepted: a request may be answered and reported cancelled.
- A consolidated request keeps the first message's id and the latest one's
  websocket (`gateway/router.py:333`): the first sender may hear nothing.
- A stop of the loop guard leaves the calls after it without results and the
  turn goes on with tools (`gateway/llm_orchestrator.py:310`); the guard is
  shared by all requests and never reset (`:95`); a rate limit on the last
  attempt makes `_call_llm` return `None` (`:420`).
- The compactor cannot sanitise untrusted results (a `TypeError` sends it to its
  fallback), does not compare its result with the budget again, and may keep
  results whose call was cut off.
- In XML mode call ids restart at `call_0` in every answer, calls of different
  styles are reordered, and text after the calls is dropped. The LangChain
  client cache ignores the API key (`core/llm/providers/langchain.py:151`).
- The name `obsidian__read` resolves to a registry tool; `read_file` and
  `write_file` go to the sandbox; `registry.execute` catches exceptions, so the
  breaker never counts those of registry tools. Policies offer `ASK` and then
  refuse. Overlapping loads of one tool file leave tools of an older version.
- Two requests of a channel that the router hands out at once look up their session
  at once, and each may create one (`gateway/processor.py:223`); a history that
  cannot be read counts as none (`:335`). The gateway's periodic reflection never
  finds its database session.

*Helpers.*
- The call that ends a circuit's cooldown is not counted as a test call, a
  failure that comes in late reopens a half-open circuit, and a cancelled test
  call leaves it half-open (`core/security/circuit_breaker.py:81`, `:125`,
  `gateway/tool_executor.py:587`).
- A local MCP server that never answers `initialize` holds the lock for ever;
  stopped servers stay in `_servers`; a background task that ends late clears a
  newer session, and a start cancelled while it lists the tools leaves its task
  behind with the lock free (`core/mcp/local_server.py:205`); attempts are never reset
  after the maximum; only errors whose text names "connection" or "closed" reconnect.
- A failed installation test leaves an enabled `config.json`; a failed npx
  attempt makes the clone fallback fail (`core/mcp/installer.py:608`); a clone
  test that fails removes the directory whatever is in it by then (`:642`); a
  process saves its own copy of a configuration over an uninstall; two installs
  that overlap both succeed.
- A remote connection counts its attempts outside the lock, a cancelled reconnection
  among them (`core/mcp/remote_server.py:279`), a late failure tears down the new
  session, and the OAuth file is rewritten from stale copies.
- Sandboxes of users whose names differ in punctuation only collide; scripts
  share `/tmp/script.py`; idle cleanup removes a container in use. A VM's
  cached handle hides its removal; suspending and resuming take no lock; a call
  cancelled while its thread creates the container frees the lock, so that the next
  call's creation fails and a later one adopts a container nobody prepared
  (`core/vm_manager.py:112`).
- An unregistered hook's handler stays subscribed; Python hooks have no time
  limit; a killed shell command is not waited for.

*Beside the requests.*
- `next_run` compares Python's weekday, 0 for Monday (`gateway/scheduler.py:189`),
  with a field documented as "weekdays (0=Sunday)" (`:131`); "1-5", which `:107`
  calls weekdays, is Tuesday to Saturday. `SearchCorrect` says that the search is
  right by the code's counting and that, by the documented one, what it finds lies
  a day after the one the field names.
- `restart` of the gateway stops it and then raises, because `cmd_start` reads
  an argument it lacks; any gateway that leaves removes the PID file; the
  daemon is killed after 5 s while its adapters may take 10 s to stop; `start`
  without `--adapter` starts none although its docstring says all.
- The vector migration pages by offset and passes over points when others are
  removed; a new run keeps the old checkpoint until its first batch; a failed
  write after the cut-over is swallowed (`core/memory/vector/dual_write.py:113`);
  an update of an absent point creates it in one store.
- More intentions than the prompt takes are consumed and lost, one without
  `fire_once` never fires again, one is consumed although its request fails, an
  invalid pattern aborts the check, and overlapping checks fire it twice.
- Failed email checks count twice; accounts in "error" are polled on; a crash
  between sending and recording repeats an alert; fetch limits, partial fetches
  and quiet hours lose alerts. Before there is a last-seen mark a check asks for
  unread mail, and its fetch marks it as read, unlike the ones of `:269` and `:309`
  (`services/email/providers/imap.py:141`): a first check that fails or crashes
  after the fetch loses what it fetched, and so does mail that its user reads first.
- Two concurrent adds of similar facts delete each other's copy, and a fact that
  contradicts what it resembles is dropped before the contradiction is looked for
  (`core/memory/ingestion.py:72`); an update of a
  vanished memory resurrects it; `delete_all` of one user resets the whole
  collection (`core/memory/core/memory.py:803`).
- Graph searches are cached under keys that ignore the limit, answers are cached
  after a write they did not see, `reset()` invalidates nothing, and an embedding
  that fails after the first relation leaves old answers. The writer creates rows
  with one access that is not logged (`core/memory/writer.py:306`); overlapping
  reviews lose counts; another user's review of a memory raises; storage strength
  may exceed the documented range 0 to 1 (`calculate_memory_score`).
- `create` of a note overwrites one that is there when the test for it fails, and a
  write that fails has already emptied the file (`core/vm_manager.py:394`,
  `core/core_tools/workspace_tool.py:265`);
  S3 listings name channels' files that reads do not find; all users share one
  working directory in the terminal; killed shells leave children; the first of
  two background programs with one name is no longer tracked.
- A vault snapshot built during a write is stored without an expiry.
- All backup targets share one marker; local uploads are not atomic; backups of
  one second share a name; `psql` returns 0 on failed statements, so a restore
  reports success. Imports lose the merged rows before a bad one while the count
  keeps them.

## 7. Not modelled, and why

- *Text.* Prompt builder, injection scanner, channel summaries, personality, the
  result guard: they compute one string from others.
- *Wiring and I/O.* Wire protocol, the MCP feature layer and bundled servers, the
  HTTP endpoints that read or write one row, the blog, the game client, the
  other scripts: no state that two steps share. The network side of LLM
  providers and the conversion of tool schemas are outcomes.
- *Real-valued functions.* Stability, difficulty and the forgetting curve of
  memory dynamics.
- *Dead code.* `fetch_context` with its caches, the gateway's `SessionManager`,
  `make_llm_with_tools` and the streaming variants of XML mode: nothing in the
  gateway calls them. `workspace_tool` is modelled although it is not registered.
- *Of modelled components.* The shell command of a scheduled task (not killed
  when its run is cancelled), `scheduler.yaml`, streaming, tier selection, status,
  ping and MCP frames, the server's branch without a processor, the depth of the
  recursion in `_process_request`, the Incus VMs, `core/email` and the Gmail
  provider, the MCP manager with hot reload and metrics, file operations inside
  containers, old prefixes of backups in S3. Schedules that never match within a
  year raise in `next_run`; the scheduler's model gives periodic tasks a next run
  always.

The map covers about a sixth of the implementation's lines; the large uncovered
files are the ones of the first two items.

## 8. Plan

Done: the components of section 1, their runs, and proofs of every invariant of
the runs MessageRouter, GatewayServer, Scheduler and ToolLoop, of the registry,
the breaker, sub-agents, failover, adapter manager, local MCP servers, the
vector migration, reminders, the email monitor, virtual machines, the memory
store with its graph, cache and dynamics, the sessions of conversations, the
installer, remote servers, sandboxes, the Obsidian vault and the gateway's process.

Next, in the order of what they say about the system:

1. The rest of `ResourcesSafe`: `HooksSafe` but for its order, which is the fold's
   (`FoldLeft`) and needs induction, and the compactor.
2. The rest of Conversations: that prompts show what was answered, and that the
   rows of a session are paired.
3. `NothingTaken` and `NotesSurvive`, which are action properties of single steps
   under the types.

They go into the present proof modules, beside the runs that check them.
