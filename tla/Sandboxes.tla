------------------------------ MODULE Sandboxes ------------------------------
(* The Docker containers in which tools run code (sandbox/docker.py). A       *)
(* user's calls share one container, which is found or created under a lock;  *)
(* what is then done with it is not. Containers are named after their user    *)
(* with every character that is not alphanumeric replaced: two users may have *)
(* one name. One package stands for those that calls install.                 *)
EXTENDS Naturals, FiniteSets

CONSTANTS
  Calls,      \* callers of tools, one call at a time each
  User, Name, \* the user of each call, the container name of each user
  Installs,   \* those that call install_package; the others execute a script
  Repeating,  \* bound: the callers that call again
  Nobody,
  MaxContainers, MaxFaults   \* bounds

Users == {User[c] : c \in Calls}
Boxes == 1 .. MaxContainers

VARIABLES
  container, \* by id: its name, whether it runs, whether it has the package, and the
             \* call whose script was written to it last
  session,   \* by user: its container (0: none), whether the package is tracked as
             \* installed, and whether it has been idle too long
  creating,  \* who holds the manager's lock
  call,      \* where each call is, its container, and the session object it took
  faults,    \* failing calls of Docker so far
  taken,     \* history: containers that stopped, or were removed for another user or as idle
  crossed    \* history: calls that executed a script while another one did

sandboxVars == <<container, session, creating, call, faults, taken, crossed>>

NoSession == [id |-> 0, package |-> FALSE, idle |-> FALSE]
NoContainer == [name |-> Nobody, state |-> "none", package |-> FALSE, script |-> Nobody]
NoCall == [at |-> "new", id |-> 0, session |-> 0, ran |-> Nobody]

SandboxTypeOK ==
  /\ container \in [Boxes -> [name : {Name[u] : u \in Users} \cup {Nobody}, package : BOOLEAN,
                            state : {"none", "up", "stopped", "removed"}, script : Calls \cup {Nobody}]]
  /\ session \in [Users -> [id : Boxes \cup {0}, package : BOOLEAN, idle : BOOLEAN]]
  /\ creating \in Calls \cup {Nobody} /\ faults \in 0 .. MaxFaults
  /\ call \in [Calls -> [at : {"new", "getting", "creating", "preparing", "writing", "ready",
                               "running", "done", "failed"},
                         id : Boxes \cup {0}, session : Boxes \cup {0}, ran : Calls \cup {Nobody}]]
  /\ taken \subseteq Boxes \cup {0} /\ crossed \subseteq Calls

SandboxInit ==
  /\ container = [i \in Boxes |-> NoContainer] /\ session = [u \in Users |-> NoSession]
  /\ creating = Nobody /\ faults = 0 /\ taken = {} /\ crossed = {}
  /\ call = [c \in Calls |-> NoCall]

-----------------------------------------------------------------------------
Up(i) == i # 0 /\ container[i].state = "up"
Session(c) == session[User[c]]
RemoveBoxes(ids) ==
  container' = [i \in Boxes |-> IF i \in ids THEN [container[i] EXCEPT !.state = "removed"]
                               ELSE container[i]]

Fault == faults < MaxFaults /\ faults' = faults + 1

Unlocked_Fault == TRUE
Unlocked == creating = Nobody

(* install_package looks the package up in the session there is. *)
Ask(c) ==
  /\ call[c].at = "new"
  /\ call' = [call EXCEPT ![c].at = IF c \in Installs /\ Session(c).package THEN "done" ELSE "getting",
                          ![c].session = Session(c).id]
  /\ UNCHANGED <<container, session, creating, faults, taken, crossed>>

(* get_sandbox: the user's container, if it runs. *)
Executing(c) == c \notin Installs /\ call[c].at \in {"writing", "ready"}

Hand(c, i) ==
  /\ call' = [call EXCEPT ![c].at = IF c \in Installs THEN "ready" ELSE "writing", ![c].id = i]
  /\ crossed' = LET others == {d \in Calls \ {c} : Executing(d) /\ call[d].id = i} IN
                IF c \in Installs \/ others = {} THEN crossed ELSE crossed \cup others \cup {c}

Find(c) ==
  /\ call[c].at = "getting" /\ Unlocked /\ Up(Session(c).id)
  /\ session' = [session EXCEPT ![User[c]].idle = FALSE]
  /\ Hand(c, Session(c).id)
  /\ UNCHANGED <<container, creating, faults, taken>>

(* Otherwise what has its name is removed and a new one is made, prepared and *)
(* then shared. What fails leaves the container behind without a session.     *)
Discard(c) ==
  /\ call[c].at = "getting" /\ Unlocked /\ ~Up(Session(c).id)
  /\ session' = [session EXCEPT ![User[c]] = NoSession]
  /\ LET old == {i \in Boxes : /\ container[i].name = Name[User[c]]
                             /\ container[i].state \in {"up", "stopped"}} IN
     /\ RemoveBoxes(old)
     /\ taken' = taken \cup {i \in old : \E u \in Users \ {User[c]} : session[u].id = i}
  /\ creating' = c /\ call' = [call EXCEPT ![c].at = "creating"]
  /\ UNCHANGED <<faults, crossed>>

Create(c) ==
  /\ call[c].at = "creating"
  /\ \E i \in Boxes :
       /\ container[i].state = "none" /\ \A j \in Boxes : container[j].state = "none" => i <= j
       /\ container' = [container EXCEPT ![i] = [NoContainer EXCEPT !.name = Name[User[c]], !.state = "up"]]
       /\ call' = [call EXCEPT ![c].at = "preparing", ![c].id = i]
  /\ UNCHANGED <<session, creating, faults, taken, crossed>>

Prepare(c) ==
  /\ call[c].at = "preparing" /\ Up(call[c].id)
  /\ session' = [session EXCEPT ![User[c]] = [NoSession EXCEPT !.id = call[c].id]]
  /\ Hand(c, call[c].id) /\ creating' = Nobody
  /\ UNCHANGED <<container, faults, taken>>

CannotCreate(c) ==
  /\ call[c].at = "creating" /\ Fault
  /\ call' = [call EXCEPT ![c].at = "failed"] /\ creating' = Nobody
  /\ taken' = taken \cup {0}
  /\ UNCHANGED <<container, session, crossed>>

(* The container of the call is gone, whatever it was to do in it.            *)
Fails(c) ==
  /\ call[c].at \in {"preparing", "writing", "ready", "running"} /\ ~Up(call[c].id)
  /\ call' = [call EXCEPT ![c].at = "failed"]
  /\ creating' = IF creating = c THEN Nobody ELSE creating
  /\ UNCHANGED <<container, session, faults, taken, crossed>>

-----------------------------------------------------------------------------
(* execute_code writes every script to the same path, then runs what is there.*)
Write(c) ==
  /\ call[c].at = "writing" /\ Up(call[c].id)
  /\ container' = [container EXCEPT ![call[c].id].script = c]
  /\ call' = [call EXCEPT ![c].at = "ready"]
  /\ UNCHANGED <<session, creating, faults, taken, crossed>>

Run(c) ==
  /\ call[c].at = "ready" /\ Up(call[c].id)
  /\ call' = [call EXCEPT ![c].at = "running", ![c].ran = container[call[c].id].script]
  /\ UNCHANGED <<container, session, creating, faults, taken, crossed>>

(* install_package tracks the package, when pip succeeded, in the session it  *)
(* took before it had a container: a new one does not hear of it.             *)
Track(c, installed) == installed /\ Session(c).id = call[c].session

Finish(c) ==
  /\ call[c].at = "running" /\ Up(call[c].id)
  /\ call' = [call EXCEPT ![c].at = "done"]
  /\ IF c \in Installs
     THEN \E installed \in BOOLEAN :
            /\ container' = [container EXCEPT ![call[c].id].package = @ \/ installed]
            /\ session' = [session EXCEPT ![User[c]].package =
                             @ \/ (Session(c).id # 0 /\ Track(c, installed))]
     ELSE session' = [session EXCEPT ![User[c]].idle = FALSE] /\ UNCHANGED container
  /\ UNCHANGED <<creating, faults, taken, crossed>>

(* The caller makes its next call. *)
Again(c) ==
  /\ c \in Repeating /\ call[c].at = "done"
  /\ call' = [call EXCEPT ![c] = NoCall] /\ crossed' = crossed \ {c}
  /\ UNCHANGED <<container, session, creating, faults, taken>>

-----------------------------------------------------------------------------
(* A session may not be used for longer than the timeout while a call runs. *)
Idles ==
  /\ \E u \in Users : session[u].id # 0 /\ session' = [session EXCEPT ![u].idle = TRUE]
  /\ UNCHANGED <<container, creating, call, faults, taken, crossed>>

CleanupIdle ==
  /\ Unlocked
  /\ LET idle == {u \in Users : session[u].idle} IN
     /\ idle # {}
     /\ session' = [u \in Users |-> IF u \in idle THEN NoSession ELSE session[u]]
     /\ RemoveBoxes({session[u].id : u \in idle})
     /\ taken' = taken \cup {session[u].id : u \in idle}
  /\ UNCHANGED <<creating, call, faults, crossed>>

Stops ==
  /\ Fault
  /\ \E i \in Boxes : /\ Up(i) /\ container' = [container EXCEPT ![i].state = "stopped"]
                    /\ taken' = taken \cup {i}
  /\ UNCHANGED <<session, creating, call, crossed>>

SandboxNext ==
  \/ \E c \in Calls : Ask(c) \/ Find(c) \/ Discard(c) \/ Create(c) \/ Prepare(c) \/ CannotCreate(c)
                      \/ Fails(c) \/ Write(c) \/ Run(c) \/ Finish(c) \/ Again(c)
  \/ Idles \/ CleanupIdle \/ Stops

SandboxSpec == SandboxInit /\ [][SandboxNext]_sandboxVars

-----------------------------------------------------------------------------
(* "Execute Python code": a call runs the script it was given, unless another *)
(* call wrote its own to the same container meanwhile.                        *)
RunsItsOwnScript ==
  \A c \in Calls \ (Installs \cup crossed) : call[c].at \in {"running", "done"} => call[c].ran = c

(* A user's calls never take a container from one another. *)
FailuresAreExternal ==
  \A c \in Calls : call[c].at = "failed" => call[c].id \in taken

(* What is tracked as installed is in the session's container. *)
TrackedIsInstalled ==
  \A u \in Users : session[u].package => session[u].id # 0 /\ container[session[u].id].package

SandboxesSafe == RunsItsOwnScript /\ FailuresAreExternal /\ TrackedIsInstalled
=============================================================================
