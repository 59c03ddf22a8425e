------------------------------- MODULE UserVms -------------------------------
(* The container of one user (core/vm_manager.py): calls that run a command   *)
(* in it provision, resume or adopt it first, others suspend it, and Docker   *)
(* may lose or stop it behind the manager's back. The manager remembers the   *)
(* user's container, the status it believes in and the Docker object; only    *)
(* provisioning holds its lock. A call may be cancelled while a thread asks   *)
(* Docker for it. A restart of the gateway keeps the database.                *)
EXTENDS Naturals, FiniteSets

CONSTANTS
  Calls,        \* calls of exec_in_vm and of suspend
  Suspenders,   \* those of suspend
  Nobody,
  MaxContainers, MaxFaults, MaxRestarts   \* bounds

ASSUME VmConstants ==
  /\ Suspenders \subseteq Calls /\ Nobody \notin Calls
  /\ MaxContainers \in Nat /\ MaxFaults \in Nat /\ MaxRestarts \in Nat

VARIABLES
  container,  \* the container Docker has under the user's name; id 0 is none
  cached,     \* _containers: the object, with the status it had when it was fetched
  tracked,    \* whether the user is in _instances
  power,      \* _statuses
  row,        \* the status in the database
  lock,       \* who holds the lock
  call,       \* where each call is, and the status it read
  threads,    \* what threads still ask Docker for cancelled calls, and for which object
  made,       \* containers created so far
  faults,     \* outside faults so far
  restarts,   \* restarts of the gateway so far
  halted,     \* history: ids of containers stopped by a suspension or from outside
  unprepared, \* history: ids of containers whose setup failed or was cut off
  strays,     \* history: ids of containers created for a call already cancelled
  forgiven    \* history: calls that failed by a fault of Docker, a suspension or a stray

vmVars == <<container, cached, tracked, power, row, lock, call, threads, made, faults,
            restarts, halted, unprepared, strays, forgiven>>

ContainerIds == 0 .. MaxContainers
NoContainer == [id |-> 0, up |-> FALSE, prepared |-> FALSE]
Places == {"new", "verifying", "seeding", "resuming", "resumed", "waiting", "getting", "adopting",
           "creating", "preparing", "planting", "executing", "stopping", "stopped",
           "done", "failed", "cancelled"}
ThreadRequests == [call : Calls, op : {"create", "start", "stop"}, id : ContainerIds]

VmTypeOK ==
  /\ container \in [id : ContainerIds, up : BOOLEAN, prepared : BOOLEAN]
  /\ cached \in [id : ContainerIds, up : BOOLEAN]
  /\ tracked \in BOOLEAN
  /\ power \in {"none", "running", "suspended"} /\ row \in {"none", "running", "suspended"}
  /\ lock \in Calls \cup {Nobody}
  /\ call \in [Calls -> [at : Places, seen : {"none", "running", "suspended"}]]
  /\ lock # Nobody => call[lock].at \in {"getting", "adopting", "creating", "preparing"}
  /\ made \in ContainerIds /\ faults \in 0 .. MaxFaults /\ restarts \in 0 .. MaxRestarts
  /\ halted \subseteq ContainerIds /\ unprepared \subseteq ContainerIds /\ forgiven \subseteq Calls
  /\ threads \subseteq ThreadRequests /\ strays \subseteq ContainerIds

VmInit ==
  /\ container = NoContainer /\ cached = [id |-> 0, up |-> FALSE]
  /\ tracked = FALSE /\ power = "none" /\ row = "none" /\ lock = Nobody
  /\ call = [c \in Calls |-> [at |-> "new", seen |-> "none"]]
  /\ made = 0 /\ faults = 0 /\ restarts = 0
  /\ threads = {} /\ halted = {} /\ unprepared = {} /\ strays = {} /\ forgiven = {}

-----------------------------------------------------------------------------
Go(c, at) == call' = [call EXCEPT ![c].at = at]
Works == container.id # 0 /\ container.id = cached.id /\ container.up
Exists == container.id # 0 /\ container.id = cached.id

(* What explains that a call finds no container to work in: it was stopped,   *)
(* or Docker removed it and the cached object hides that (_docker_get), or    *)
(* another call, which noticed, has forgotten the user.                       *)
Broken == \/ container.id \in halted \/ container.id # cached.id
          \/ ~tracked /\ faults > 0
Fail(c) ==
  /\ Go(c, "failed")
  /\ forgiven' = IF Broken THEN forgiven \cup {c} ELSE forgiven

threadVars == <<threads, strays>>
dockerVars == <<container, made, faults, restarts, halted, unprepared, threadVars>>
beliefVars == <<cached, tracked, power, row>>

-----------------------------------------------------------------------------
(* ensure_vm: the status is read; an unknown object is fetched, to see        *)
(* whether the container is still there.                                      *)
Route(seen) == CASE seen = "running"   -> "seeding"
                 [] seen = "suspended" -> "resuming"
                 [] seen = "none"      -> "waiting"

Ensure(c) ==
  /\ c \notin Suspenders /\ call[c].at = "new"
  /\ call' = [call EXCEPT ![c] = [at |-> IF tracked /\ cached.id = 0 THEN "verifying"
                                         ELSE Route(power),
                                  seen |-> power]]
  /\ UNCHANGED <<dockerVars, beliefVars, lock, forgiven>>

Fetch == cached' = [id |-> container.id, up |-> container.up]

Verify(c) ==
  /\ call[c].at = "verifying"
  /\ IF container.id # 0
     THEN Go(c, Route(call[c].seen)) /\ Fetch /\ UNCHANGED <<tracked, power>>
     ELSE Go(c, "waiting") /\ tracked' = FALSE /\ power' = "none" /\ UNCHANGED cached
  /\ UNCHANGED <<dockerVars, row, lock, forgiven>>

(* _ensure_seeded and _seed_workspace run commands in the container, like     *)
(* exec_in_vm itself; an error of Docker ends the call.                       *)
Run(c) ==
  /\ call[c].at \in {"seeding", "planting", "executing"}
  /\ IF tracked /\ Works
     THEN /\ Go(c, IF call[c].at = "executing" THEN "done" ELSE "executing")
          /\ UNCHANGED forgiven
     ELSE Fail(c)
  /\ UNCHANGED <<dockerVars, beliefVars, lock>>

(* resume: the container is started, then the status noted, also if another   *)
(* call has forgotten the user meanwhile.                                     *)
Resume(c) ==
  /\ call[c].at = "resuming"
  /\ IF tracked /\ Exists
     THEN /\ Go(c, "resumed") /\ UNCHANGED forgiven
          /\ container' = [container EXCEPT !.up = TRUE] /\ halted' = halted \ {container.id}
     ELSE Fail(c) /\ UNCHANGED <<container, halted>>
  /\ UNCHANGED <<beliefVars, lock, made, faults, restarts, unprepared, threadVars>>

Note(c, from, to, value) ==
  /\ call[c].at = from /\ Go(c, to)
  /\ power' = value /\ tracked' = tracked
  /\ row' = IF row = "none" THEN row ELSE value
  /\ UNCHANGED <<dockerVars, cached, lock, forgiven>>

Resumed(c) == Note(c, "resumed", "seeding", "running")

-----------------------------------------------------------------------------
(* provision, under the lock. *)
Unheld_Fault == TRUE
Unheld == lock = Nobody

Enter(c) ==
  /\ call[c].at = "waiting" /\ Unheld
  /\ IF tracked THEN Go(c, "executing") /\ UNCHANGED lock
     ELSE Go(c, IF cached.id = 0 THEN "getting" ELSE "adopting") /\ lock' = c
  /\ UNCHANGED <<dockerVars, beliefVars, forgiven>>

Get(c) ==
  /\ call[c].at = "getting"
  /\ IF container.id = 0 THEN Go(c, "creating") /\ UNCHANGED cached
     ELSE Go(c, "adopting") /\ Fetch
  /\ UNCHANGED <<dockerVars, tracked, power, row, lock, forgiven>>

(* A container that is there already is used as it is, and started unless it  *)
(* was running when its object was fetched. It gets no row.                   *)
Adopt(c) ==
  /\ call[c].at = "adopting"
  /\ IF cached.up \/ Exists
     THEN /\ Go(c, "executing") /\ tracked' = TRUE /\ power' = "running" /\ lock' = Nobody
          /\ container' = IF cached.up THEN container ELSE [container EXCEPT !.up = TRUE]
          /\ halted' = IF cached.up THEN halted ELSE halted \ {container.id}
     ELSE Go(c, "creating") /\ UNCHANGED <<tracked, power, lock, container, halted>>
  /\ UNCHANGED <<cached, row, made, faults, restarts, unprepared, threadVars, forgiven>>

(* Docker refuses a name that is taken, by now by a stray. The object of a new*)
(* container says "created", not "running".                                   *)
Create(c) ==
  /\ call[c].at = "creating" /\ made < MaxContainers
  /\ IF container.id # 0
     THEN /\ Go(c, "failed") /\ lock' = Nobody
          /\ forgiven' = IF container.id \in strays THEN forgiven \cup {c} ELSE forgiven
          /\ UNCHANGED <<container, cached, made>>
     ELSE /\ made' = made + 1
          /\ container' = [id |-> made + 1, up |-> TRUE, prepared |-> FALSE]
          /\ cached' = [id |-> made + 1, up |-> FALSE]
          /\ Go(c, "preparing") /\ UNCHANGED <<lock, forgiven>>
  /\ UNCHANGED <<tracked, power, row, faults, restarts, halted, unprepared, threadVars>>

(* Docker cannot create it, or the setup script fails in it: the call ends,   *)
(* the container and its cached object stay.                                  *)
ProvisionFails(c) ==
  /\ call[c].at \in {"creating", "preparing"} /\ faults < MaxFaults
  /\ faults' = faults + 1
  /\ Go(c, "failed") /\ forgiven' = forgiven \cup {c} /\ lock' = Nobody
  /\ unprepared' = IF call[c].at = "preparing" THEN unprepared \cup {cached.id} ELSE unprepared
  /\ UNCHANGED <<container, made, restarts, halted, beliefVars, threadVars>>

Prepare(c) ==
  /\ call[c].at = "preparing"
  /\ IF Works
     THEN /\ container' = [container EXCEPT !.prepared = TRUE]
          /\ Go(c, "planting") /\ tracked' = TRUE /\ power' = "running"
          /\ row' \in {"running", row}     \* saving may fail
          /\ UNCHANGED <<forgiven, unprepared>>
     ELSE /\ Fail(c) /\ unprepared' = unprepared \cup {cached.id}
          /\ UNCHANGED <<container, tracked, power, row>>
  /\ lock' = Nobody
  /\ UNCHANGED <<cached, made, faults, restarts, halted, threadVars>>

-----------------------------------------------------------------------------
(* suspend: the container is stopped, then the status noted; no lock. *)
Suspend(c) ==
  /\ c \in Suspenders /\ call[c].at = "new" /\ tracked
  /\ IF cached.id # 0 THEN UNCHANGED cached ELSE Fetch
  /\ Go(c, "stopping")
  /\ UNCHANGED <<dockerVars, tracked, power, row, lock, forgiven>>

Stop(c) ==
  /\ call[c].at = "stopping"
  /\ IF Exists
     THEN /\ Go(c, "stopped") /\ UNCHANGED forgiven
          /\ container' = [container EXCEPT !.up = FALSE] /\ halted' = halted \cup {container.id}
     ELSE Fail(c) /\ UNCHANGED <<container, halted>>
  /\ UNCHANGED <<beliefVars, lock, made, faults, restarts, unprepared, threadVars>>

Suspended(c) == Note(c, "stopped", "done", "suspended")

-----------------------------------------------------------------------------
(* Docker removes the container, or stops it (the host restarts). *)
Vanishes ==
  /\ faults < MaxFaults /\ container.id # 0
  /\ faults' = faults + 1
  /\ \/ container' = NoContainer /\ UNCHANGED halted
     \/ /\ container' = [container EXCEPT !.up = FALSE]
        /\ halted' = halted \cup {container.id}
  /\ UNCHANGED <<beliefVars, lock, call, made, restarts, unprepared, threadVars, forgiven>>

(* A call is cancelled at an await. It gives up the lock and notes nothing;   *)
(* what a thread has begun to ask Docker for goes on without it.              *)
Asks(c) ==
  CASE call[c].at = "creating"               -> {[call |-> c, op |-> "create", id |-> 0]}
    [] call[c].at \in {"adopting", "resuming"} -> {[call |-> c, op |-> "start", id |-> cached.id]}
    [] call[c].at = "stopping"               -> {[call |-> c, op |-> "stop", id |-> cached.id]}
    [] OTHER                                 -> {}

Cancelled(c) ==
  /\ call[c].at \notin {"new", "done", "failed", "cancelled"}
  /\ call[c].at = "adopting" => ~cached.up
  /\ Go(c, "cancelled")
  /\ lock' = IF lock = c THEN Nobody ELSE lock
  /\ threads' \in {threads, threads \cup Asks(c)}
  /\ unprepared' = IF call[c].at = "preparing" THEN unprepared \cup {cached.id} ELSE unprepared
  /\ UNCHANGED <<container, made, faults, restarts, halted, strays, beliefVars, forgiven>>

ThreadEnds(t) ==
  /\ threads' = threads \ {t}
  /\ \/ /\ t.op = "create" /\ container.id = 0 /\ made < MaxContainers
        /\ made' = made + 1
        /\ container' = [id |-> made + 1, up |-> TRUE, prepared |-> FALSE]
        /\ strays' = strays \cup {made + 1}
        /\ UNCHANGED halted
     \/ /\ t.op # "create" /\ container.id = t.id /\ t.id # 0
        /\ container' = [container EXCEPT !.up = (t.op = "start")]
        /\ halted' = IF t.op = "start" THEN halted \ {t.id} ELSE halted \cup {t.id}
        /\ UNCHANGED <<made, strays>>
     \/ /\ IF t.op = "create" THEN container.id # 0 ELSE container.id # t.id
        /\ UNCHANGED <<container, made, halted, strays>>
  /\ UNCHANGED <<faults, restarts, unprepared, beliefVars, lock, call, forgiven>>

(* The gateway restarts and loads the rows; calls in progress are lost. *)
Restart ==
  /\ restarts < MaxRestarts /\ restarts' = restarts + 1
  /\ cached' = [id |-> 0, up |-> FALSE] /\ lock' = Nobody /\ threads' = {}
  /\ tracked' = (row # "none") /\ power' = row
  /\ unprepared' = IF container.prepared THEN unprepared ELSE unprepared \cup {container.id}
  /\ LET cut == {c \in Calls : call[c].at \notin {"new", "done", "failed", "cancelled"}} IN
     /\ call' = [c \in Calls |-> IF c \in cut THEN [call[c] EXCEPT !.at = "failed"] ELSE call[c]]
     /\ forgiven' = forgiven \cup cut
  /\ UNCHANGED <<container, row, made, faults, halted, strays>>

VmNext ==
  \/ \E c \in Calls :
       \/ Ensure(c) \/ Verify(c) \/ Run(c) \/ Resume(c) \/ Resumed(c)
       \/ Enter(c) \/ Get(c) \/ Adopt(c) \/ Create(c) \/ ProvisionFails(c) \/ Prepare(c)
       \/ Suspend(c) \/ Stop(c) \/ Suspended(c) \/ Cancelled(c)
  \/ \E t \in threads : ThreadEnds(t)
  \/ Vanishes \/ Restart

VmSpec == VmInit /\ [][VmNext]_vmVars

-----------------------------------------------------------------------------
(* A command fails only by Docker, by a suspension, or because a container    *)
(* was created for a call cancelled before: not because another call          *)
(* provisions the same container, and not after a restart, which makes the    *)
(* manager look whether the container is still there.                         *)
FailuresAreExplained ==
  \A c \in Calls \ Suspenders : call[c].at = "failed" => c \in forgiven

(* Commands run in containers that were set up, unless the setup failed or    *)
(* was cut off, or never came because the call was cancelled: the next call   *)
(* then adopts what is there.                                                 *)
CommandsRunPrepared ==
  \A c \in Calls :
    call[c].at = "executing" /\ tracked /\ Works =>
      container.prepared \/ container.id \in unprepared \cup strays

VmsSafe == FailuresAreExplained /\ CommandsRunPrepared
=============================================================================
