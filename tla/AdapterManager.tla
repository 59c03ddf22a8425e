--------------------------- MODULE AdapterManager ---------------------------
(* gateway/adapter_manager.py: adapter subprocesses, the supervisor that      *)
(* restarts them and the operations that start, stop and restart them.        *)
(* Coroutines interleave at their sleeps only, so what lies between two       *)
(* sleeps is one step. Adapters are numbered in the order of the dictionary.  *)
EXTENDS Integers, Sequences, FiniteSetsExt

CONSTANTS
  NumAdapters,    \* how many adapters the configuration names
  Policy,         \* restart_policy of each adapter
  Enabled,        \* the adapters whose configuration enables them
  MaxRestarts,    \* max_restarts within one reset_window
  Callers,        \* coroutines that call start, stop or restart
  MaxSpawned      \* bound: processes spawned for each adapter

Adapters == 1..NumAdapters
Policies == {"always", "on_failure", "never"}

ASSUME AdapterConstants ==
  /\ NumAdapters \in Nat /\ MaxRestarts \in Nat
  /\ Policy \in [Adapters -> Policies] /\ Enabled \subseteq Adapters
  /\ MaxSpawned \in [Adapters -> Nat]

VARIABLES
  adapters,      \* the AdapterProcess of each adapter
  delayed,       \* the adapter whose restart the supervisor delays, or None
  caller,        \* what each caller is doing
  down           \* the manager's stop: "up", "stopping", "done"

adapterVars == <<adapters, delayed, caller, down>>

None == 0

(* The fields after window are history: how often the supervisor started the  *)
(* adapter in this window; whether it was started while a stop of it waited,  *)
(* with a PID file that could not be written, or by a caller after the        *)
(* manager's stop began.                                                      *)
AdapterProcess ==
  [state : {"stopped", "running", "stopping", "failed", "disabled"},
   process : Nat,        \* the process referred to, or None
   pidfile : Nat,        \* the process named in the PID file, or None
   exit : Seq({"alive", "ok", "failed"}),  \* every process spawned, how it ended
   restarts : Nat,       \* restart_count
   window : {"none", "open", "passed"},   \* first_restart_time: none, recent, old
   revived : Nat, overlapped : BOOLEAN, unrecorded : BOOLEAN, late : BOOLEAN]

CallStates == [job : {"idle", "stop", "restart", "shutdown"}, on : Adapters \cup {None},
          at : {"none", "wait", "killed", "pause"}, proc : Nat]
NoCall == [job |-> "idle", on |-> None, at |-> "none", proc |-> None]

AdaptersTypeOK ==
  /\ adapters \in [Adapters -> AdapterProcess]
  /\ \A a \in Adapters : LET ap == adapters[a] IN
       {ap.process, ap.pidfile, ap.restarts} \subseteq 0..Len(ap.exit)
  /\ delayed \in Adapters \cup {None}
  /\ caller \in [Callers -> CallStates]
  /\ down \in {"up", "stopping", "done"}

Alive(ap, n) == n \in DOMAIN ap.exit /\ ap.exit[n] = "alive"

-----------------------------------------------------------------------------
(* start_adapter has no sleep: it is part of its caller's step. An adapter    *)
(* that is running or disabled is left alone; spawning may fail, and so may   *)
(* writing the PID file, when the process already runs.                       *)
Spawned(ap, recorded) ==
  LET n == Len(ap.exit) + 1 IN
  [ap EXCEPT !.exit = Append(@, "alive"), !.process = n,
             !.state = IF recorded THEN "running" ELSE "failed",
             !.pidfile = IF recorded THEN n ELSE @,
             !.unrecorded = @ \/ ~recorded]

Started(a, ap) ==
  IF ap.state \in {"running", "disabled"} THEN {ap}
  ELSE LET seen == [ap EXCEPT !.overlapped = @ \/ ap.state = "stopping"] IN
       {[seen EXCEPT !.state = "failed"]}
       \cup {Spawned(seen, recorded) : recorded \in
               IF Len(ap.exit) < MaxSpawned[a] THEN BOOLEAN ELSE {}}

(* What a stop does once the process it waited for has ended, whichever       *)
(* process the adapter refers to by then.                                     *)
Stopped_Fault(ap) ==
  [ap EXCEPT !.state = IF @ = "running" THEN @ ELSE "stopped", !.process = None, !.pidfile = None]
Stopped(ap) == [ap EXCEPT !.state = "stopped", !.process = None, !.pidfile = None]

(* start: the configuration is loaded and every enabled adapter started, here *)
(* with success.                                                              *)
Loaded(a) ==
  [state |-> IF a \in Enabled THEN "stopped" ELSE "disabled", process |-> None,
   pidfile |-> None, exit |-> <<>>, restarts |-> 0, window |-> "none",
   revived |-> 0, overlapped |-> FALSE, unrecorded |-> FALSE, late |-> FALSE]

AdaptersInit ==
  /\ adapters = [a \in Adapters |-> IF a \in Enabled THEN Spawned(Loaded(a), TRUE) ELSE Loaded(a)]
  /\ delayed = None
  /\ caller = [c \in Callers |-> NoCall]
  /\ down = "up"

(* A process ends by itself or because it was asked to. *)
ProcessExits(a) ==
  /\ \E n \in DOMAIN adapters[a].exit, code \in {"ok", "failed"} :
       /\ Alive(adapters[a], n)
       /\ adapters' = [adapters EXCEPT ![a].exit[n] = code]
  /\ UNCHANGED <<delayed, caller, down>>

WindowPasses(a) ==
  /\ adapters[a].window = "open"
  /\ adapters' = [adapters EXCEPT ![a].window = "passed"]
  /\ UNCHANGED <<delayed, caller, down>>

-----------------------------------------------------------------------------
(* _supervise. From adapter i on it looks at each running adapter until one   *)
(* is to be restarted: there it sleeps for the restart delay.                 *)
Exited_Fault(ap) == ap.state = "running" /\ ap.process # None /\ ap.exit[ap.process] = "failed"
Exited(ap) == ap.state = "running" /\ ap.process # None /\ ~Alive(ap, ap.process)

ShouldRestart(a, ap) ==
  \/ Policy[a] = "always"
  \/ Policy[a] = "on_failure" /\ ap.exit[ap.process] = "failed"

Count_Fault(ap) == IF ap.window = "open" THEN ap.restarts + 1 ELSE 0
Count(ap) == IF ap.window = "open" THEN ap.restarts + 1 ELSE 1

Noticed_Fault(a, ap) ==
  LET gone == [ap EXCEPT !.state = "stopped", !.pidfile = None] IN
  IF ~ShouldRestart(a, ap) THEN gone
  ELSE [gone EXCEPT !.restarts = Count(ap) + 1, !.window = "open",
                    !.revived = IF ap.window = "open" THEN @ ELSE 0,
                    !.state = IF Count(ap) > MaxRestarts THEN "failed" ELSE @]
Noticed(a, ap) ==
  LET gone == [ap EXCEPT !.state = "stopped", !.pidfile = None] IN
  IF ~ShouldRestart(a, ap) THEN gone
  ELSE [gone EXCEPT !.restarts = Count(ap), !.window = "open",
                    !.revived = IF ap.window = "open" THEN @ ELSE 0,
                    !.state = IF Count(ap) > MaxRestarts THEN "failed" ELSE @]

Due(i, aps) == {a \in i..NumAdapters : Exited(aps[a]) /\ ShouldRestart(a, aps[a])
                                         /\ Count(aps[a]) <= MaxRestarts}

Scan(i, aps) ==
  LET due == Due(i, aps)
      last == IF due = {} THEN NumAdapters ELSE Min(due)
  IN /\ adapters' = [a \in Adapters |->
                       IF a \in i..last /\ Exited(aps[a]) THEN Noticed(a, aps[a]) ELSE aps[a]]
     /\ delayed' = IF due = {} THEN None ELSE last

Revived(before, after) ==
  IF Len(after.exit) = Len(before.exit) THEN after ELSE [after EXCEPT !.revived = @ + 1]

SupervisorWakes ==
  /\ down = "up" /\ delayed = None
  /\ Scan(1, adapters)
  /\ UNCHANGED <<caller, down>>

(* The delay ends: the adapter is started and the scan goes on after it. *)
SupervisorRestarts(a) ==
  /\ down = "up" /\ delayed = a
  /\ \E ap \in Started(a, adapters[a]) :
       Scan(a + 1, [adapters EXCEPT ![a] = Revived(adapters[a], ap)])
  /\ UNCHANGED <<caller, down>>

-----------------------------------------------------------------------------
(* Callers. A call of stop_adapter that finds nothing to stop returns at once. *)
Stoppable(a) == adapters[a].state = "running"

Waiting(c, job, a) ==
  caller' = [caller EXCEPT ![c] = [job |-> job, on |-> a, at |-> "wait",
                                   proc |-> adapters[a].process]]

CallStart(c, a) ==
  /\ caller[c] = NoCall
  /\ \E ap \in Started(a, adapters[a]) :
       adapters' = [adapters EXCEPT ![a] =
                      [ap EXCEPT !.late = @ \/ (down # "up" /\ ap # adapters[a])]]
  /\ UNCHANGED <<delayed, caller, down>>

CallStop(c, job, a) ==
  /\ caller[c] = NoCall /\ job \in {"stop", "restart"} /\ Stoppable(a)
  /\ adapters' = [adapters EXCEPT ![a].state = "stopping"]
  /\ Waiting(c, job, a)
  /\ UNCHANGED <<delayed, down>>

(* restart_adapter of an adapter that is not running: only the pause is left. *)
CallRestartOfStopped(c, a) ==
  /\ caller[c] = NoCall /\ ~Stoppable(a)
  /\ caller' = [caller EXCEPT ![c] = [job |-> "restart", on |-> a, at |-> "pause", proc |-> None]]
  /\ UNCHANGED <<adapters, delayed, down>>

(* stop: no more supervision, then every adapter in turn. *)
CallShutdown(c) ==
  /\ caller[c] = NoCall /\ down = "up"
  /\ delayed' = None /\ down' = "stopping"
  /\ caller' = [caller EXCEPT ![c] = [job |-> "shutdown", on |-> None, at |-> "none", proc |-> None]]
  /\ UNCHANGED adapters

Visit_Fault(c, i, aps) ==
  IF i > NumAdapters \/ aps[i].state # "running"
  THEN /\ adapters' = aps /\ caller' = [caller EXCEPT ![c] = NoCall] /\ down' = "done"
  ELSE /\ adapters' = [aps EXCEPT ![i].state = "stopping"]
       /\ Waiting(c, "shutdown", i)
       /\ UNCHANGED down
Visit(c, i, aps) ==
  LET rest == {a \in i..NumAdapters : aps[a].state = "running"} IN
  IF rest = {}
  THEN /\ adapters' = aps /\ caller' = [caller EXCEPT ![c] = NoCall] /\ down' = "done"
  ELSE /\ adapters' = [aps EXCEPT ![Min(rest)].state = "stopping"]
       /\ Waiting(c, "shutdown", Min(rest))
       /\ UNCHANGED down

ShutdownBegins(c) ==
  /\ caller[c].job = "shutdown" /\ caller[c].at = "none"
  /\ Visit(c, 1, adapters)
  /\ UNCHANGED delayed

(* The wait is over because the process ended, or ends with a kill. *)
StopFinishes(c) ==
  LET call == caller[c]
      aps == [adapters EXCEPT ![call.on] = Stopped(@)]
  IN /\ IF call.job = "shutdown" THEN Visit(c, call.on + 1, aps)
        ELSE /\ adapters' = aps
             /\ caller' = [caller EXCEPT ![c] =
                   IF call.job = "restart" THEN [call EXCEPT !.at = "pause", !.proc = None] ELSE NoCall]
             /\ UNCHANGED down
     /\ UNCHANGED delayed

StopSeesExit(c) ==
  /\ caller[c].at = "wait" /\ ~Alive(adapters[caller[c].on], caller[c].proc)
  /\ StopFinishes(c)

StopKills_Fault(c) ==
  /\ caller[c].at = "wait" /\ Alive(adapters[caller[c].on], caller[c].proc)
  /\ caller' = [caller EXCEPT ![c].at = "killed"]
  /\ UNCHANGED <<adapters, delayed, down>>
StopKills(c) ==
  /\ caller[c].at = "wait" /\ Alive(adapters[caller[c].on], caller[c].proc)
  /\ adapters' = [adapters EXCEPT ![caller[c].on].exit[caller[c].proc] = "failed"]
  /\ caller' = [caller EXCEPT ![c].at = "killed"]
  /\ UNCHANGED <<delayed, down>>

StopAfterKill(c) == caller[c].at = "killed" /\ StopFinishes(c)

RestartAfterPause(c) ==
  /\ caller[c].at = "pause"
  /\ LET a == caller[c].on IN
     \E ap \in Started(a, adapters[a]) :
       adapters' = [adapters EXCEPT ![a] =
                      [ap EXCEPT !.late = @ \/ (down # "up" /\ ap # adapters[a])]]
  /\ caller' = [caller EXCEPT ![c] = NoCall]
  /\ UNCHANGED <<delayed, down>>

Call(c) ==
  \/ \E a \in Adapters : CallStart(c, a) \/ CallRestartOfStopped(c, a)
  \/ \E a \in Adapters, job \in {"stop", "restart"} : CallStop(c, job, a)
  \/ CallShutdown(c)

CallerGoesOn(c) == ShutdownBegins(c) \/ StopSeesExit(c) \/ StopKills(c) \/ StopAfterKill(c)
              \/ RestartAfterPause(c)

AdaptersNext ==
  \/ \E a \in Adapters : ProcessExits(a) \/ WindowPasses(a) \/ SupervisorRestarts(a)
  \/ SupervisorWakes
  \/ \E c \in Callers : Call(c) \/ CallerGoesOn(c)

(* The supervisor's sleeps end.                                              *)
AdaptersFairness ==
  /\ WF_adapterVars(SupervisorWakes)
  /\ \A a \in Adapters : WF_adapterVars(SupervisorRestarts(a))

AdaptersSpec == AdaptersInit /\ [][AdaptersNext]_adapterVars /\ AdaptersFairness

-----------------------------------------------------------------------------
(* A running adapter refers to the process its PID file names, the one        *)
(* spawned last, so the supervisor watches it: although a stop that waited    *)
(* for an older process forgets whatever the adapter refers to.               *)
RunningIsKnown ==
  \A a \in Adapters : LET ap == adapters[a] IN
    ap.state = "running" => ap.process = Len(ap.exit) /\ ap.pidfile = ap.process

(* A live process that no running or stopping adapter refers to can only come *)
(* from a start during a stop of the same adapter, or from a PID file that    *)
(* could not be written.                                                      *)
NoStrayProcess ==
  \A a \in Adapters : LET ap == adapters[a] IN
    (\E n \in DOMAIN ap.exit : Alive(ap, n) /\ ~(n = ap.process /\ ap.state \in {"running", "stopping"}))
      => ap.overlapped \/ ap.unrecorded

Awaited(a, n) == \E c \in Callers : caller[c].at = "wait" /\ caller[c].on = a /\ caller[c].proc = n

(* Once the manager's stop returned nothing runs, unless another stop still   *)
(* waits for it or somebody else started it after the stop began: the         *)
(* supervisor does not revive an adapter behind the stop's back.              *)
ShutdownStopsAll ==
  down = "done" =>
    \A a \in Adapters : LET ap == adapters[a] IN
      (\E n \in DOMAIN ap.exit : Alive(ap, n) /\ ~Awaited(a, n))
        => ap.overlapped \/ ap.unrecorded \/ ap.late

(* Within one window the supervisor starts an adapter at most max_restarts    *)
(* times, whatever callers do to it meanwhile.                                *)
RestartsBounded == \A a \in Adapters : adapters[a].revived <= MaxRestarts

(* The end of a running adapter's process, whatever its exit code, is noticed *)
(* although the supervisor may be delaying the restart of another one, unless *)
(* the manager stops first.                                                   *)
Unnoticed(ap) == ap.state = "running" /\ ~Alive(ap, ap.process)
CrashesAreNoticed ==
  \A a \in Adapters : Unnoticed(adapters[a]) ~> (~Unnoticed(adapters[a]) \/ down # "up")

(* Supervision leaves no adapter running unseen and none dying for ever.      *)
AdaptersSafe == RunningIsKnown /\ NoStrayProcess /\ ShutdownStopsAll /\ RestartsBounded
=============================================================================
