---------------------------- MODULE McpInstaller ----------------------------
(* Installing, switching and uninstalling one MCP server (core/mcp/           *)
(* installer.py, core/mcp/models.py, and manager.py and local_server.py as    *)
(* far as they write its configuration). The configuration is a file in the   *)
(* server's directory. A test starts the server as it will be run, which      *)
(* writes that file like any other start; the manager keeps the process       *)
(* object of a stopped server, with the configuration it was made with.       *)
EXTENDS Naturals, FiniteSets

CONSTANTS
  Installs,       \* calls of install for this name
  Way,            \* install -> "npx", "smithery", "github", "path" or "hosted"
  Nobody,
  MaxSwitches,    \* bound on the calls of enable, disable and uninstall
  MaxStarts       \* bound on starts of the server besides those

VARIABLES
  file,       \* the local config.json: [by, cloned, enabled], or NoFile
  remote,     \* the install that wrote the remote config.json, or Nobody
  clone,      \* the install whose clone is in the directory, or Nobody
  process,    \* the manager's process object: [state] and its configuration
  install,    \* install -> [at, cloned]: its progress, and what it is saving
  before,     \* install -> those under way when it asked
  won,        \* the installs that succeeded, while their file stands
  counts,     \* the bounded events so far
  switched,   \* what enable or disable last wrote, while nothing wrote since
  gone,       \* installs whose server has been uninstalled
  revived,    \* the process of one of them has been started
  stale,      \* the file was written over under a process object
  wiped,      \* installs under test when the directory was removed
  stripped    \* those a failed test removed it from under their process

installVars == <<file, remote, clone, process, install, before, won, counts,
                 switched, gone, revived, stale, wiped, stripped>>

NoFile    == [by |-> Nobody, cloned |-> FALSE, enabled |-> FALSE]
NoProcess == [state |-> "none", config |-> NoFile]
Config(i) == [by |-> i, cloned |-> install[i].at = "testing clone", enabled |-> TRUE]
Testing   == {"testing npx", "testing again", "testing clone"}
Ongoing  == {i \in Installs : install[i].at \in Testing \cup {"stopping", "fetching"}}

InstallTypeOK ==
  /\ file \in [by : Installs \cup {Nobody}, cloned : BOOLEAN, enabled : BOOLEAN]
  /\ {remote, clone} \subseteq Installs \cup {Nobody}
  /\ process.state \in {"none", "down", "starting", "up"}
  /\ \A i \in Installs :
       /\ install[i].at \in Testing \cup
            {"new", "fetching", "stopping", "starting", "done", "refused", "failed", "lost"}
       /\ install[i].cloned \in BOOLEAN /\ before[i] \subseteq Installs
  /\ won \subseteq Installs /\ wiped \subseteq Installs /\ stripped \subseteq Installs
  /\ counts \in [switches : 0 .. MaxSwitches, starts : 0 .. MaxStarts]
  /\ switched \in {"no", "on", "off"} /\ {revived, stale} \subseteq BOOLEAN
  /\ gone \subseteq Installs

InstallInit ==
  /\ file = NoFile /\ remote = Nobody /\ clone = Nobody /\ process = NoProcess
  /\ install = [i \in Installs |-> [at |-> "new", cloned |-> FALSE]]
  /\ before = [i \in Installs |-> {}]
  /\ won = {} /\ counts = [switches |-> 0, starts |-> 0]
  /\ switched = "no" /\ revived = FALSE /\ gone = {} /\ stale = FALSE /\ wiped = {}
  /\ stripped = {}

Exists == file # NoFile \/ remote # Nobody
Go(i, at) == install' = [install EXCEPT ![i].at = at]
Directory == file # NoFile \/ clone # Nobody

\* A configuration is written, by a test or by the manager's process.
Write(config) ==
  /\ file' = config /\ switched' = "no"
  /\ stale' = (stale \/ (process.state # "none" /\ process.config # config))

Keep == UNCHANGED <<file, switched, stale>>

\* The directory is removed with all that is in it.
RemoveDirectory ==
  /\ file' = NoFile /\ clone' = Nobody /\ switched' = "no"
  /\ won' = {i \in won : Way[i] = "hosted"} /\ wiped' = wiped \cup Ongoing

-----------------------------------------------------------------------------
(* Install. *)

Free_Fault == TRUE
Free == ~Exists

\* git clone refuses a directory that is not empty; a clone that fails, or one
\* in which no server is found, is removed.
Clone(i, taken) ==
  IF taken THEN Go(i, "failed") /\ UNCHANGED clone
  ELSE \/ clone' = i /\ Go(i, "testing clone")
       \/ Go(i, "failed") /\ UNCHANGED clone

Ask(i) ==
  /\ install[i].at = "new" /\ before' = [before EXCEPT ![i] = Ongoing]
  /\ IF ~Free THEN Go(i, "refused")
     ELSE Go(i, IF Way[i] = "hosted" THEN "fetching" ELSE "testing npx")
  /\ UNCHANGED <<file, remote, clone, process, won, counts, switched, revived, stale,
                 wiped, gone, stripped>>

\* The registry answered: the hosted server is saved, tested or not.
SaveRemote(i) ==
  /\ install[i].at = "fetching"
  /\ remote' = i /\ won' = won \cup {i} /\ Go(i, "done")
  /\ UNCHANGED <<file, clone, process, counts, switched, revived, stale, wiped,
                 before, gone, stripped>>

\* The test found the server and its tools, and the start wrote the file.
TestFinds(i) ==
  /\ install[i].at \in Testing
  /\ Write(Config(i))
  /\ install' = [install EXCEPT ![i].at = "stopping",
                                ![i].cloned = install[i].at = "testing clone"]
  /\ UNCHANGED <<remote, clone, process, won, counts, revived, wiped, before,
                 gone, stripped>>

\* The tested process has ended: its status, and then the tools, are saved.
Save(i) ==
  /\ install[i].at = "stopping"
  /\ Write([by |-> i, cloned |-> install[i].cloned, enabled |-> TRUE])
  /\ won' = won \cup {i} /\ Go(i, "starting")
  /\ UNCHANGED <<remote, clone, process, counts, revived, wiped, before, gone,
                 stripped>>

\* A failed test: the start that failed has written the file, unless it ran out
\* of time (wrote is FALSE). What is left to try depends on the way.
TestFails(i, wrote) ==
  /\ install[i].at \in Testing
  /\ CASE install[i].at = "testing npx" /\ Way[i] = "smithery" ->
            /\ Go(i, "testing again")
            /\ IF wrote THEN Write(Config(i)) ELSE Keep
            /\ UNCHANGED <<clone, won, wiped, stripped>>
       [] install[i].at = "testing npx" /\ Way[i] = "github" ->
            /\ IF wrote THEN Write(Config(i)) ELSE Keep
            /\ Clone(i, wrote \/ Directory)
            /\ UNCHANGED <<won, wiped, stripped>>
       [] install[i].at = "testing clone" ->
            /\ RemoveDirectory /\ Go(i, "failed") /\ UNCHANGED stale
            /\ stripped' = stripped \cup ({process.config.by} \ {Nobody})
       [] OTHER ->
            /\ IF wrote THEN Write(Config(i)) ELSE Keep
            /\ Go(i, "failed") /\ UNCHANGED <<clone, won, wiped, stripped>>
  /\ UNCHANGED <<remote, process, counts, revived, before, gone>>

-----------------------------------------------------------------------------
(* The manager's process. *)

Made(config) == [state |-> "starting", config |-> config]

\* start_server: the process object there is, or one made from the file f.
Started(f) == CASE process.state = "none" -> Made(f)
                [] process.state = "down" -> [process EXCEPT !.state = "starting"]
                [] OTHER                  -> process

Start(f) ==
  /\ process' = Started(f)
  /\ revived' = (revived \/ Started(f).config.by \in gone)

StartInstalled(i) ==
  /\ install[i].at = "starting" /\ Go(i, "done")
  /\ IF file = NoFile THEN UNCHANGED <<process, revived>> ELSE Start(file)
  /\ UNCHANGED <<file, remote, clone, won, counts, switched, stale, wiped,
                 before, gone, stripped>>

\* A restart, or a tool call that reconnects, starts what was stopped.
StartAgain ==
  /\ counts.starts < MaxStarts /\ counts' = [counts EXCEPT !.starts = @ + 1]
  /\ process.state = "down" \/ (process.state = "none" /\ file # NoFile)
  /\ Start(file)
  /\ UNCHANGED <<file, remote, clone, install, won, switched, stale, wiped,
                 before, gone, stripped>>

\* It connected or failed, and saved its own copy of the configuration.
ProcessSaves(to) ==
  /\ process.state = "starting" /\ process' = [process EXCEPT !.state = to]
  /\ file' = process.config /\ switched' = "no"
  /\ UNCHANGED <<remote, clone, install, won, counts, revived, stale, wiped,
                 before, gone, stripped>>

\* The gateway goes down, in order or not, and starts the enabled server from
\* its file. An orderly shutdown stops the process, which saves its own copy.
Left(crash) == IF process.state = "up" /\ ~crash THEN process.config ELSE file

Reboot(crash) ==
  /\ counts.starts < MaxStarts /\ counts' = [counts EXCEPT !.starts = @ + 1]
  /\ file' = Left(crash)
  /\ switched' = IF Left(crash) = file THEN switched ELSE "no"
  /\ process' = IF Left(crash).enabled THEN Made(Left(crash)) ELSE NoProcess
  /\ stale' = FALSE
  /\ install' = [i \in Installs |->
       IF i \in Ongoing \/ install[i].at = "starting"
       THEN [install[i] EXCEPT !.at = "lost"] ELSE install[i]]
  /\ UNCHANGED <<remote, clone, won, revived, wiped, before, gone, stripped>>

-----------------------------------------------------------------------------
(* Uninstall, enable, disable. *)

Called == counts.switches < MaxSwitches /\ process.state # "starting"
Stopped == IF process.state = "up" THEN [process EXCEPT !.state = "down"] ELSE process

\* The server is stopped, which saves its status, before its files go; a
\* remote server of that name goes only when there is no local one.
Halted_Fault == process
Halted == Stopped

Uninstall ==
  /\ Called /\ Exists
  /\ counts' = [counts EXCEPT !.switches = @ + 1]
  /\ IF file # NoFile \/ process.state = "up"
     THEN RemoveDirectory /\ UNCHANGED remote
     ELSE /\ remote' = Nobody /\ won' = {i \in won : Way[i] # "hosted"}
          /\ UNCHANGED <<file, clone, switched, wiped>>
  /\ process' = Halted /\ revived' = FALSE
  /\ gone' = {i \in Installs : install[i].at \in {"starting", "done", "failed", "lost"}}
  /\ UNCHANGED <<install, stale, before, stripped>>

\* Disable stops the server, which saves its own copy, and writes the file that
\* is there then; enable writes the file and starts the server.
Found(on) == IF process.state = "up" /\ ~on THEN process.config ELSE file

Switched_Fault(on) == Found(on)
Switched(on) == [Found(on) EXCEPT !.enabled = on]

SwitchTo(on) ==
  /\ Called /\ Found(on) # NoFile
  /\ counts' = [counts EXCEPT !.switches = @ + 1]
  /\ file' = Switched(on) /\ switched' = IF on THEN "on" ELSE "off"
  /\ IF on THEN Start(Switched(on)) ELSE process' = Stopped /\ UNCHANGED revived
  /\ UNCHANGED <<remote, clone, install, won, stale, wiped, before, gone, stripped>>

InstallNext ==
  \/ \E i \in Installs :
       \/ Ask(i) \/ SaveRemote(i) \/ TestFinds(i) \/ Save(i) \/ StartInstalled(i)
       \/ \E wrote \in BOOLEAN : TestFails(i, wrote)
  \/ StartAgain \/ Uninstall
  \/ \E to \in {"up", "down"} : ProcessSaves(to)
  \/ \E b \in BOOLEAN : SwitchTo(b) \/ Reboot(b)

InstallSpec == InstallInit /\ [][InstallNext]_installVars
-----------------------------------------------------------------------------
(* Two installs of one name both succeed only when one of them was under way  *)
(* when the other asked whether the name is taken (MCPInstaller.install).     *)
OneInstallWins ==
  \A i, j \in won : i # j => i \in before[j] \/ j \in before[i]

(* An uninstalled server comes back only with an install that was being       *)
(* tested then, or when a restart or a tool call starts its process again     *)
(* (mcp_uninstall stops the server first).                                    *)
UninstalledStaysGone ==
  file.by \in gone => file.by \in wiped \/ revived

(* The code a configuration runs is in its directory, unless that directory   *)
(* was removed while the server was being tested or, by the failed test of    *)
(* another install, had a process, or a process of an uninstalled server      *)
(* brought the configuration back.                                            *)
CodeIsPresent ==
  file.cloned => clone = file.by \/ file.by \in wiped \cup stripped \/ revived

(* The server that runs is the one installed, unless the installation wrote   *)
(* its file under the process object of another.                              *)
RunsWhatIsInstalled ==
  process.state = "up" /\ file # NoFile => process.config.by = file.by \/ stale

(* Enable and disable stand until something else writes the file, and then    *)
(* decide whether a restart of the gateway runs the server.                   *)
SwitchStands ==
  switched # "no" => file.enabled = (switched = "on")

InstallSafe ==
  /\ OneInstallWins /\ UninstalledStaysGone /\ CodeIsPresent
  /\ RunsWhatIsInstalled /\ SwitchStands
=============================================================================
