--------------------------- MODULE GatewayProcess ---------------------------
(***************************************************************************)
(* The gateway as a process (gateway/__main__.py, gateway/daemon.py):      *)
(* commands that start and stop it, which know it by its PID file alone,   *)
(* and its life from the fork over its startup and shutdown to its exit.   *)
(*                                                                         *)
(* A command makes at most one gateway, which is named after it.  A file   *)
(* is known by who created it and by the PID it holds: writing to a file   *)
(* that was removed meanwhile changes nothing.  PIDs are not reused.       *)
(***************************************************************************)
EXTENDS Naturals, FiniteSets

CONSTANTS
    Commands,
    Kind,          \* [Commands -> {"start", "foreground", "bare", "stop", "restart"}]
    WithAdapters,  \* gateways started with --adapter
    Nobody,
    MaxCrashes     \* bounds the gateways that die of themselves

VARIABLES
    pidfile,   \* [by, holds]: its creator, or Nobody; the PID in it, or Nobody
    command,   \* command -> [at, target, answer]
    gateway,   \* command -> the stage its gateway is in
    opened,    \* command -> the creator of the file its daemon opened
    port,      \* the gateway that listens, or Nobody
    adapters,  \* gateways whose adapters run
    crashes,
    abrupt,    \* history: gateways that did not get to the end of their shutdown
    crowded    \* history: gateways that another command or gateway overlapped

processVars == <<pidfile, command, gateway, opened, port, adapters, crashes, abrupt, crowded>>

NoFile == [by |-> Nobody, holds |-> Nobody]
Before == {"forked", "writing", "early", "listening", "spawned"}   \* no signal handler yet
After  == {"draining", "stopping adapters", "closing", "leaving"}
Alive(g) == gateway[g] \in Before \cup {"up"} \cup After
Living == {g \in Commands : Alive(g)}
Busy == {c \in Commands : command[c].at \notin {"idle", "done"}}

ProcessInit ==
    /\ pidfile = NoFile /\ port = Nobody /\ adapters = {} /\ crashes = 0
    /\ command = [c \in Commands |-> [at |-> "idle", target |-> Nobody, answer |-> "none"]]
    /\ gateway = [c \in Commands |-> "none"] /\ opened = [c \in Commands |-> Nobody]
    /\ abrupt = {} /\ crowded = {}

Go(c, at) == command' = [command EXCEPT ![c].at = at]
Answer(c, answer) == command' = [command EXCEPT ![c].at = "done", ![c].answer = answer]
Become(g, stage) == gateway' = [gateway EXCEPT ![g] = stage]

-----------------------------------------------------------------------------
(* Commands.                                                               *)

(* A command that begins, or is under way, while a daemon has yet to write *)
(* its PID overlaps it.                                                    *)
Unlisted == {g \in Living : gateway[g] \in {"forked", "writing"}}
Begin(c) ==
    /\ command[c].at = "idle"
    /\ Go(c, CASE Kind[c] = "stop" -> "reading" [] Kind[c] = "bare" -> "go" [] OTHER -> "checking")
    /\ crowded' = crowded \cup Unlisted
    /\ UNCHANGED <<pidfile, gateway, opened, port, adapters, crashes, abrupt>>

Listed_Anyone == FALSE
Listed == pidfile.holds # Nobody /\ Alive(pidfile.holds)

(* check_daemon_running: a PID of no process is stale; an empty file is    *)
(* left.  A restart asks before it stops, and again when it starts.        *)
Check(c) ==
    /\ command[c].at \in {"checking", "checking again"}
    /\ IF Listed
       THEN IF Kind[c] = "restart" /\ command[c].at = "checking"
            THEN Go(c, "reading") ELSE Answer(c, "already running")
       ELSE Go(c, IF pidfile.holds # Nobody THEN "tidying" ELSE "go")
    /\ UNCHANGED <<pidfile, gateway, opened, port, adapters, crashes, abrupt, crowded>>

Tidy(c) ==
    /\ command[c].at = "tidying"
    /\ pidfile' = NoFile /\ Go(c, "go")
    /\ UNCHANGED <<gateway, opened, port, adapters, crashes, abrupt, crowded>>

(* stop_daemon reads the file and signals.                                 *)
Read(c) ==
    /\ command[c].at = "reading"
    /\ command' = [command EXCEPT ![c].target = pidfile.holds,
                                  ![c].at = CASE pidfile.by = Nobody -> "stopped"
                                              [] pidfile.holds = Nobody -> "cleaning"
                                              [] OTHER -> "signalling",
                                  ![c].answer = "failed"]
    /\ UNCHANGED <<pidfile, gateway, opened, port, adapters, crashes, abrupt, crowded>>

(* What a process that dies at once leaves behind.                         *)
Dies(g) ==
    /\ Become(g, "gone")
    /\ port' = IF port = g THEN Nobody ELSE port
    /\ abrupt' = abrupt \cup {g}

(* SIGTERM ends a gateway that has installed no handler, and asks another  *)
(* to shut down; one that is shutting down has been asked.                 *)
Signal(c) ==
    LET g == command[c].target IN
    /\ command[c].at = "signalling"
    /\ Go(c, IF Alive(g) THEN "waiting" ELSE "cleaning")
    /\ CASE Alive(g) /\ gateway[g] \in Before -> Dies(g)
         [] Alive(g) /\ gateway[g] = "up"     -> Become(g, "draining") /\ UNCHANGED <<port, abrupt>>
         [] OTHER                             -> UNCHANGED <<gateway, port, abrupt>>
    /\ UNCHANGED <<pidfile, opened, adapters, crashes, crowded>>

Waited(c) ==
    /\ command[c].at = "waiting" /\ ~Alive(command[c].target)
    /\ command' = [command EXCEPT ![c].at = "cleaning", ![c].answer = "stopped"]
    /\ UNCHANGED <<pidfile, gateway, opened, port, adapters, crashes, abrupt, crowded>>

(* After the timeout: SIGKILL.                                             *)
Overdue_Never(c) == FALSE
Overdue(c) == command[c].at = "waiting" /\ Alive(command[c].target)
KillTarget_Gently(c) == UNCHANGED <<gateway, port, abrupt>>
KillTarget(c) == Dies(command[c].target)
TimesOut(c) ==
    /\ Overdue(c)
    /\ command' = [command EXCEPT ![c].at = "cleaning", ![c].answer = "stopped"]
    /\ KillTarget(c)
    /\ UNCHANGED <<pidfile, opened, adapters, crashes, crowded>>

Clean(c) ==
    /\ command[c].at = "cleaning"
    /\ pidfile' = NoFile /\ Go(c, "stopped")
    /\ UNCHANGED <<gateway, opened, port, adapters, crashes, abrupt, crowded>>

(* A stop is over; a restart goes on as a start, whatever came of it.      *)
Stopped(c) ==
    /\ command[c].at = "stopped"
    /\ Go(c, IF Kind[c] = "restart" THEN "checking again" ELSE "done")
    /\ UNCHANGED <<pidfile, gateway, opened, port, adapters, crashes, abrupt, crowded>>

(* cmd_start reads args.no_adapters, which only the parser of "start"      *)
(* defines: a restart ends here with an AttributeError.                    *)
Launch(c) ==
    /\ command[c].at = "go"
    /\ IF Kind[c] = "restart"
       THEN /\ Answer(c, "failed")
            /\ UNCHANGED <<gateway, crowded>>
       ELSE /\ Answer(c, "started")
            /\ Become(c, IF Kind[c] = "start" THEN "forked" ELSE "early")
            /\ crowded' = crowded \cup
                 IF Living # {} \/ Busy # {c} THEN Living \cup {c} ELSE {}
    /\ UNCHANGED <<pidfile, opened, port, adapters, crashes, abrupt>>

-----------------------------------------------------------------------------
(* The gateway.                                                            *)

(* daemonize ends with the PID file: opened, which empties it, and written.*)
OpenFile(g) ==
    /\ gateway[g] = "forked"
    /\ pidfile' = [by |-> IF pidfile.by = Nobody THEN g ELSE pidfile.by, holds |-> Nobody]
    /\ opened' = [opened EXCEPT ![g] = pidfile'.by]
    /\ Become(g, "writing")
    /\ UNCHANGED <<command, port, adapters, crashes, abrupt, crowded>>

WritePid(g) ==
    /\ gateway[g] = "writing"
    /\ pidfile' = IF pidfile.by = opened[g] THEN [pidfile EXCEPT !.holds = g] ELSE pidfile
    /\ Become(g, "early")
    /\ UNCHANGED <<command, opened, port, adapters, crashes, abrupt, crowded>>

(* Startup: the server listens, adapters that were named are spawned, and  *)
(* the signal handlers come last.                                          *)
Listens(g) ==
    /\ gateway[g] = "early" /\ port = Nobody
    /\ port' = g /\ Become(g, "listening")
    /\ UNCHANGED <<pidfile, command, opened, adapters, crashes, abrupt, crowded>>

Spawns(g) ==
    /\ gateway[g] = "listening"
    /\ adapters' = adapters \cup ({g} \cap WithAdapters)
    /\ Become(g, "spawned")
    /\ UNCHANGED <<pidfile, command, opened, port, crashes, abrupt, crowded>>

Ready(g) ==
    /\ gateway[g] = "spawned"
    /\ Become(g, "up")
    /\ UNCHANGED <<pidfile, command, opened, port, adapters, crashes, abrupt, crowded>>

(* An exception of the startup, such as that of a port in use: no service  *)
(* is stopped.                                                             *)
StartFails(g) ==
    /\ gateway[g] \in {"early", "listening", "spawned"}
    /\ Become(g, "leaving") /\ abrupt' = abrupt \cup {g}
    /\ UNCHANGED <<pidfile, command, opened, port, adapters, crashes, crowded>>

(* SIGINT to a gateway in the foreground.                                  *)
Interrupted(g) ==
    /\ gateway[g] = "up" /\ Kind[g] # "start"
    /\ Become(g, "draining")
    /\ UNCHANGED <<pidfile, command, opened, port, adapters, crashes, abrupt, crowded>>

(* The HTTP server waits for its connections, the adapters for each of     *)
(* theirs, then the server stops: its port is free before the exit.        *)
Drained(g) ==
    /\ gateway[g] = "draining"
    /\ Become(g, "stopping adapters")
    /\ UNCHANGED <<pidfile, command, opened, port, adapters, crashes, abrupt, crowded>>

StopAdapters_Forgotten(g) == adapters
StopAdapters(g) == adapters \ {g}
AdaptersStopped(g) ==
    /\ gateway[g] = "stopping adapters"
    /\ adapters' = StopAdapters(g) /\ Become(g, "closing")
    /\ UNCHANGED <<pidfile, command, opened, port, crashes, abrupt, crowded>>

Closed(g) ==
    /\ gateway[g] = "closing"
    /\ port' = Nobody /\ Become(g, "leaving")
    /\ UNCHANGED <<pidfile, command, opened, adapters, crashes, abrupt, crowded>>

(* The finally of _run_gateway removes the file, whoever it names.         *)
Leaves(g) ==
    /\ gateway[g] = "leaving"
    /\ pidfile' = NoFile /\ Become(g, "gone")
    /\ port' = IF port = g THEN Nobody ELSE port
    /\ UNCHANGED <<command, opened, adapters, crashes, abrupt, crowded>>

Crashes(g) ==
    /\ Alive(g) /\ crashes < MaxCrashes
    /\ crashes' = crashes + 1 /\ Dies(g)
    /\ UNCHANGED <<pidfile, command, opened, adapters, crowded>>

-----------------------------------------------------------------------------
Proceed(c) ==
    Check(c) \/ Tidy(c) \/ Read(c) \/ Signal(c) \/ Waited(c) \/ TimesOut(c) \/ Clean(c)
      \/ Stopped(c) \/ Launch(c)
ProcessNext ==
    \E c \in Commands :
        \/ Begin(c) \/ Proceed(c)
        \/ OpenFile(c) \/ WritePid(c) \/ Listens(c) \/ Spawns(c) \/ Ready(c) \/ StartFails(c)
        \/ Interrupted(c) \/ Drained(c) \/ AdaptersStopped(c) \/ Closed(c) \/ Leaves(c) \/ Crashes(c)

ProcessSpec == ProcessInit /\ [][ProcessNext]_processVars

-----------------------------------------------------------------------------
(* Types.                                                                  *)
ProcessTypeOK ==
    /\ pidfile \in [by : Commands \cup {Nobody}, holds : Commands \cup {Nobody}]
    /\ gateway \in [Commands -> {"none", "up", "gone"} \cup Before \cup After]
    /\ adapters \subseteq WithAdapters /\ port \in Commands \cup {Nobody}
    /\ crashes \in 0 .. MaxCrashes

(* A command that says "stopped" has left no process behind.               *)
StoppedIsGone ==
    \A c \in Commands : command[c].answer = "stopped" => ~Alive(command[c].target)

(* A daemon that no other gateway and no command overlapped while it       *)
(* started can be found: until it shuts down, the file holds its PID,      *)
(* unless the command that asks for its end is done with it.               *)
UncontestedIsListed ==
    \A g \in Commands \ crowded :
        Kind[g] = "start" /\ gateway[g] \in {"early", "listening", "spawned", "up"}
          => pidfile.holds = g

(* Adapters outlive their gateway only when it was killed, crashed, or     *)
(* failed or was signalled while it started.                               *)
OrphansAreExplained ==
    \A g \in adapters : gateway[g] \in {"gone", "leaving"} => g \in abrupt

ProcessSafe == StoppedIsGone /\ UncontestedIsListed /\ OrphansAreExplained

(* Every command comes to an end, also when the gateway never drains.      *)
CommandsEnd == \A c \in Commands : command[c].at = "reading" ~> command[c].at = "done"
=============================================================================
