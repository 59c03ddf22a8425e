----------------------------- MODULE MCHelpers -----------------------------
(* What must come to an end: the gateway's helpers one at a time, in small    *)
(* instances and under the fairness of each. They share no state, so one of   *)
(* them, the subject, runs in each behaviour while the others stay as they    *)
(* start, and fairness is asked of the subject alone.                         *)
EXTENDS CircuitBreaker, SubAgents, LlmFailover, TLC

CONSTANTS c1, c2, c3, k1, f1, f2, m1, m2
VARIABLES subject
VARIABLES adapters, delayed, caller, down
VARIABLES tasks, session, connected, server, event, attempts, lock, client, ops, clobbered
VARIABLES pidfile, command, gateway, opened, port, running, crashes, abrupt, crowded
VARIABLES arrived, marked, quiet, due, account, recorded, check, sent, excused, repeated, fails, faults

adapterVars == <<adapters, delayed, caller, down>>
mcpVars     == <<tasks, session, connected, server, event, attempts, lock, client, ops, clobbered>>
processVars == <<pidfile, command, gateway, opened, port, running, crashes, abrupt, crowded>>
emailVars   == <<arrived, marked, quiet, due, account, recorded, check, sent, excused, repeated, fails,
                 faults>>

(* Two models of one provider and one of another. *)
MCCandidates ==
  << [provider |-> "p", model |-> "m"], [provider |-> "p", model |-> "n"],
     [provider |-> "q", model |-> "m"] >>

(* A daemon with adapters and a command that stops it.                        *)
MCKind == [daemon |-> "start", stop |-> "stop"]

(* One adapter; one caller that manages and one that calls the MCP server; two *)
(* messages, the first of which no rule wants.                                *)
MCPolicy  == <<"on_failure">>
MCSpawned == <<3>>
MCJobs    == (m1 :> {"start", "stop", "restart"}) @@ (m2 :> {"call"})
MCOps     == (m1 :> 2) @@ (m2 :> 1)
MCMail    == << {}, {"sender"} >>
MCRules   == << [priority |-> 1, enabled |-> TRUE, readable |-> TRUE, mode |-> "any",
                 conditions |-> {"sender"}] >>

Adapters == INSTANCE AdapterManager WITH
  NumAdapters <- 1, Policy <- MCPolicy, Enabled <- {1}, MaxRestarts <- 1,
  Callers <- {k1}, MaxSpawned <- MCSpawned
Mcp == INSTANCE McpServer WITH
  Clients <- {m1, m2}, Jobs <- MCJobs, MaxReconnects <- 1, MaxTasks <- 4,
  MaxOps <- MCOps
Email == INSTANCE EmailMonitor WITH
  Mail <- MCMail, Rules <- MCRules, FetchLimit <- 1, ErrorLimit <- 2, MaxFaults <- 2
Gateway == INSTANCE GatewayProcess WITH
  Commands <- DOMAIN MCKind, Kind <- MCKind, WithAdapters <- {"daemon"}, Nobody <- "-",
  MaxCrashes <- 1, adapters <- running

Parked(s) ==
  CASE s = "breaker"   -> UNCHANGED vars
    [] s = "subagents" -> UNCHANGED agentVars
    [] s = "failover"  -> UNCHANGED failoverVars
    [] s = "adapters"  -> UNCHANGED adapterVars
    [] s = "mcp"       -> UNCHANGED mcpVars
    [] s = "email"     -> UNCHANGED emailVars
    [] s = "process"   -> UNCHANGED processVars

Subjects == {"breaker", "subagents", "failover", "adapters", "mcp", "email", "process"}

HelpersInit ==
  /\ subject \in Subjects
  /\ Init /\ AgentsInit /\ FailoverInit /\ Adapters!AdaptersInit /\ Mcp!McpInit /\ Email!EmailInit
  /\ Gateway!ProcessInit

HelpersNext ==
  /\ \/ subject = "breaker"   /\ Next
     \/ subject = "subagents" /\ AgentsNext
     \/ subject = "failover"  /\ FailoverNext
     \/ subject = "adapters"  /\ Adapters!AdaptersNext
     \/ subject = "mcp"       /\ Mcp!McpNext
     \/ subject = "email"     /\ Email!EmailNext
     \/ subject = "process"   /\ Gateway!ProcessNext
  /\ subject' = subject
  /\ \A s \in Subjects \ {subject} : Parked(s)

On(s) == subject = s

HelpersVars == <<subject, vars, agentVars, failoverVars, adapterVars, mcpVars, emailVars, processVars>>

HelpersSpec ==
  /\ HelpersInit /\ [][HelpersNext]_HelpersVars
  /\ WF_vars(On("breaker") /\ CooldownPasses)
  /\ \A c \in Calls : WF_vars(On("breaker") /\ (Succeed(c) \/ Fail(c) \/ Abort(c)))
  /\ \A i \in Agents :
       /\ WF_agentVars(On("subagents") /\ Begin(i))
       /\ WF_agentVars(On("subagents") /\ TimesOutOrRaises(i))
  /\ \A c \in Askers :
       /\ WF_failoverVars(On("failover") /\ (Answers(c) \/ Fails(c)))
       /\ WF_failoverVars(On("failover") /\ TryAgain(c))
  /\ WF_adapterVars(On("adapters") /\ Adapters!SupervisorWakes)
  /\ WF_adapterVars(On("adapters") /\ Adapters!SupervisorRestarts(1))
  /\ \A c \in {m1, m2} : WF_mcpVars(On("mcp") /\ Mcp!GoesOn(c))
  /\ \A t \in 1..4 : WF_mcpVars(On("mcp") /\ Mcp!Answered(t))
  /\ WF_emailVars(On("email") /\ Email!TimePasses)
  /\ WF_emailVars(On("email") /\ Email!Proceed)
  /\ \A c \in DOMAIN MCKind : WF_processVars(On("process") /\ Gateway!Proceed(c))

(* Properties of all of them. *)
HelpersTypeOK     == TypeOK /\ AgentsTypeOK /\ FailoverTypeOK /\ Gateway!ProcessTypeOK
CrashesAreNoticed == Adapters!CrashesAreNoticed
McpCallsReturn    == Mcp!McpCallsReturn
MailIsHandled     == Email!MailIsHandled
CommandsEnd       == Gateway!CommandsEnd

(* What is taken up comes to an end, and what is disabled comes back.         *)
HelpersEnd ==
  /\ DisabledTemporarily /\ SubAgentsEnd /\ FailoverCallsEnd
  /\ CrashesAreNoticed /\ McpCallsReturn /\ MailIsHandled /\ CommandsEnd
=============================================================================
