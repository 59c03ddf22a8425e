---------------------------- MODULE MCResources ----------------------------
(* What callers compete for, one part of the gateway per behaviour: the slots *)
(* of the router, the registry of nodes, the memory store, its graph and the  *)
(* rows of its dynamics, virtual machines, sandboxes, remote and installed    *)
(* servers, hooks and the budget of a conversation. They share no state; the  *)
(* subject runs while the others stay as they start.                          *)
EXTENDS MCMessageRouter, NodeRegistry, UserVms, MemoryStore, TLC

CONSTANTS a1, a2, a3, g1, g2, g3, u1, u2
VARIABLES subject
VARIABLES conn, saved, requests, managing, open, alive, oauth, valid, actor, calls, leaked,
          failed, disturbed
VARIABLES box, session, creating, user, mishaps, taken, crossed
VARIABLES messages, before, outcome, summarized, turns
VARIABLES hook, known, handlers, emission, command, owed, dropped
VARIABLES file, remote, clone, program, install, former, won, counts, switched, gone, revived,
          stale, wiped, stripped
VARIABLES graph, held, reader, author, lapses, late
VARIABLES rows, review, written, mixed

remoteState    == <<conn, saved, requests, managing, open, alive, oauth, valid, actor, calls,
                    leaked, failed, disturbed>>
sandboxState   == <<box, session, creating, user, mishaps, taken, crossed>>
compactorState == <<messages, before, outcome, summarized, turns>>
hookState      == <<hook, known, handlers, emission, command, owed, dropped>>
installState   == <<file, remote, clone, program, install, former, won, counts, switched, gone,
                    revived, stale, wiped, stripped>>
graphState     == <<graph, held, reader, author, lapses, late>>
dynamicsState  == <<rows, review, written, mixed>>

-----------------------------------------------------------------------------
(* Two commands and a suspension of one user's machine (in the configuration). *)
(* Two threads told similar facts, which contradict a known one, and one that *)
(* deletes or clears.                                                         *)
MCErrands == ("w1" :> {"add"}) @@ ("w2" :> {"add"}) @@ ("w3" :> {"delete", "clear"})
MCTold    == ("w1" :> g1) @@ ("w2" :> g3) @@ ("w3" :> g1)
MCKnown   == <<g2>>
MCClashes(a, b) == a # b
MCSimilar(a, b) == a = b \/ {a, b} = {g1, g3}

(* Callers of a tool, one of which may be authorising, and a manager.         *)
MCWork == ("c1" :> {"call"}) @@ ("c2" :> {"call", "authorize"})
          @@ ("f" :> {"authorize", "connect", "disconnect"})
Remote == INSTANCE RemoteServer WITH
  Actors <- {"c1", "c2", "f"}, Jobs <- MCWork, Nobody <- "nobody", MaxReconnects <- 1,
  MaxFaults <- 1, MaxSessions <- 3, MaxTokens <- 3, queue <- requests, given <- calls

(* Two scripts of one user, and an install of another whose container has the *)
(* same name.                                                                 *)
MCUser == (a1 :> u1) @@ (a2 :> u1) @@ (a3 :> u2)
MCName == (u1 :> "n") @@ (u2 :> "n")
Boxes == INSTANCE Sandboxes WITH
  Calls <- {a1, a2, a3}, User <- MCUser, Name <- MCName, Installs <- {a3}, Repeating <- {a3},
  Nobody <- "nobody", MaxContainers <- 2, MaxFaults <- 1, container <- box, call <- user,
  faults <- mishaps

(* Small results, and large ones with text that is marked untrusted.          *)
MCContents == { [size |-> 1, marked |-> FALSE], [size |-> 4, marked |-> TRUE] }
Compactor == INSTANCE ContextCompactor WITH
  Threshold <- 12, Contents <- MCContents, SummarySize <- 2, MaxCalls <- 3, MaxTurns <- 3

(* A shell command for one event and a handler for every event, registered    *)
(* three times in all.                                                        *)
HookOf(name, event, type, priority) ==
  [name |-> name, event |-> event, type |-> type, priority |-> priority]
MCConfigs ==
  { HookOf("x", "a", "shell", 0), HookOf("y", "*", "python", 1) }
Events == INSTANCE Hooks WITH
  Configs <- MCConfigs, Events <- {"a"}, Wildcard <- "*", Emissions <- {"m1"},
  MaxRegistrations <- 3

(* Three ways to install one name.                                            *)
MCWay == ("i" :> "smithery") @@ ("j" :> "github") @@ ("h" :> "hosted")
Installer == INSTANCE McpInstaller WITH
  Installs <- {"i", "j", "h"}, Way <- MCWay, Nobody <- "nobody", MaxSwitches <- 1,
  MaxStarts <- 1, process <- program, before <- former

(* Two readers of a search with different limits and one of a snapshot, and   *)
(* writers for their user and for one whose id is the beginning of theirs.    *)
(* Five reviews of one memory, one of them by another user.                   *)
MCMatching == ("q" :> {1, 2}) @@ ("all" :> {1, 2})
Reading(u, query, limit) == [user |-> u, query |-> query, limit |-> limit]
MCReaders ==
  ("r1" :> Reading("uu", "q", 1)) @@ ("r2" :> Reading("uu", "q", 2))
  @@ ("r3" :> Reading("uu", "all", 1))
MCWriters ==
  ("w1" :> [op |-> "add", user |-> "uu", found |-> {1, 2}])
  @@ ("w2" :> [op |-> "delete", user |-> "u", found |-> {}])
MCAlike(u, v) == u = v \/ v = "uu"
Review(u, grade) == [memory |-> "m", user |-> u, grade |-> grade]
MCReviews ==
  ("p1" :> Review("u", "hard")) @@ ("p2" :> Review("u", "hard")) @@ ("p3" :> Review("u", "hard"))
  @@ ("p4" :> Review("u", "again")) @@ ("d" :> Review("uu", "again"))
Graph == INSTANCE MemoryGraph WITH
  Users <- {"u", "uu"}, Relations <- {1, 2}, Matching <- MCMatching, Readers <- MCReaders,
  Authors <- MCWriters, Alike <- MCAlike, MaxLapses <- 1, Reviews <- MCReviews,
  cache <- held, crossed <- mixed

\* A client that remembers session ids.
AnySession == Sessions \cup {None}

\* The first two connections and callers of a sandbox are alike.
ResourceSymmetry == Permutations({a1, a2})

-----------------------------------------------------------------------------
Subjects == {"router", "registry", "memory", "vms", "remote", "sandboxes",
             "compactor", "hooks", "installs", "graph", "dynamics"}

Parked(s) ==
  CASE s = "router"    -> UNCHANGED vars
    [] s = "registry"  -> UNCHANGED registryVars
    [] s = "memory"    -> UNCHANGED memoryVars
    [] s = "vms"       -> UNCHANGED vmVars
    [] s = "remote"    -> UNCHANGED remoteState
    [] s = "sandboxes" -> UNCHANGED sandboxState
    [] s = "compactor" -> UNCHANGED compactorState
    [] s = "hooks"     -> UNCHANGED hookState
    [] s = "installs"  -> UNCHANGED installState
    [] s = "graph"     -> UNCHANGED graphState
    [] s = "dynamics"  -> UNCHANGED dynamicsState

ResourcesInit ==
  /\ subject \in Subjects
  /\ Init /\ RegistryInit /\ MemoryInit /\ VmInit
  /\ Remote!RemoteInit /\ Boxes!SandboxInit /\ Compactor!CompactorInit /\ Events!HooksInit
  /\ Installer!InstallInit /\ Graph!GraphInit /\ Graph!DynamicsInit
  /\ subject # "remote" => saved = "stopped" /\ \A a \in DOMAIN actor :
                             actor[a].job = CHOOSE job \in MCWork[a] : TRUE
  /\ subject # "compactor" => \A i \in DOMAIN messages : messages[i].content.marked

ResourcesNext ==
  /\ \/ subject = "router"    /\ Next
     \/ subject = "registry"  /\ RegistryNext
     \/ subject = "memory"    /\ MemoryNext
     \/ subject = "vms"       /\ VmNext
     \/ subject = "remote"    /\ Remote!RemoteNext
     \/ subject = "sandboxes" /\ Boxes!SandboxNext
     \/ subject = "compactor" /\ Compactor!CompactorNext
     \/ subject = "hooks"     /\ Events!HooksNext
     \/ subject = "installs"  /\ Installer!InstallNext
     \/ subject = "graph"     /\ Graph!GraphNext
     \/ subject = "dynamics"  /\ Graph!DynamicsNext
  /\ subject' = subject
  /\ \A s \in Subjects \ {subject} : Parked(s)

ResourcesSpec ==
  ResourcesInit /\ [][ResourcesNext]_<<subject, vars, registryVars, memoryVars, vmVars,
                       remoteState, sandboxState, compactorState, hookState,
                       installState, graphState, dynamicsState>>

(* Properties of all of them, and of the instances. *)
ResourcesTypeOK ==
  CASE subject = "router"    -> TypeOK
    [] subject = "registry"  -> RegistryTypeOK
    [] subject = "memory"    -> MemoryTypeOK
    [] subject = "vms"       -> VmTypeOK
    [] subject = "remote"    -> Remote!RemoteTypeOK
    [] subject = "sandboxes" -> Boxes!SandboxTypeOK
    [] subject = "compactor" -> Compactor!CompactorTypeOK
    [] subject = "hooks"     -> Events!HooksTypeOK
    [] subject = "installs"  -> Installer!InstallTypeOK
    [] subject = "graph"     -> Graph!GraphTypeOK
    [] subject = "dynamics"  -> Graph!DynamicsTypeOK
ResourcesSafe ==
  CASE subject = "remote"    -> Remote!RemoteSafe
    [] subject = "sandboxes" -> Boxes!SandboxesSafe
    [] subject = "compactor" -> Compactor!CompactorSafe
    [] subject = "hooks"     -> Events!HooksSafe
    [] subject = "installs"  -> Installer!InstallSafe
    [] subject = "graph"     -> Graph!GraphSafe
    [] subject = "dynamics"  -> Graph!DynamicsSafe
    [] OTHER -> TRUE
=============================================================================
