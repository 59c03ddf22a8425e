----------------------------- MODULE SubAgents -----------------------------
(* core/subagent: the registry of sub-agents, the task that runs each of them *)
(* and the tools with which a parent spawns, kills and steers them. A task    *)
(* suspends only while it awaits the orchestrator's next event.               *)
EXTENDS Naturals, Sequences, FiniteSets

CONSTANTS
  Agents,         \* records that may be registered
  Parents,
  MaxPerParent,   \* max_per_parent
  MaxSteering     \* bound: unread steering instructions of one agent

VARIABLES
  parent,      \* the parent of each registered agent, or "none"
  status,      \* SubagentStatus
  task,        \* the agent's task: "none", "scheduled", "awaiting", "over"
  steering,    \* number of queued instructions
  recent       \* whether an instruction was queued less than 2 s ago

agentVars == <<parent, status, task, steering, recent>>

Unregistered == "none"

ASSUME AgentsConstants == Unregistered \notin Parents /\ MaxSteering \in Nat

Statuses == {"running", "completed", "failed", "killed"}

AgentsTypeOK ==
  /\ parent \in [Agents -> Parents \cup {Unregistered}]
  /\ status \in [Agents -> Statuses \cup {"none"}]
  /\ task \in [Agents -> {"none", "scheduled", "awaiting", "over"}]
  /\ steering \in [Agents -> 0..MaxSteering]
  /\ recent \in [Agents -> BOOLEAN]
  /\ \A i \in Agents : (parent[i] = Unregistered) = (status[i] = "none")

AgentsInit ==
  /\ parent = [i \in Agents |-> Unregistered]
  /\ status = [i \in Agents |-> "none"]
  /\ task = [i \in Agents |-> "none"]
  /\ steering = [i \in Agents |-> 0]
  /\ recent = [i \in Agents |-> FALSE]

Active(p) == {i \in Agents : parent[i] = p /\ status[i] = "running"}

(* subagent_spawn: register, then a task nobody waits for. *)
Spawn(i, p) ==
  /\ parent[i] = Unregistered
  /\ Cardinality(Active(p)) < MaxPerParent
  /\ parent' = [parent EXCEPT ![i] = p]
  /\ status' = [status EXCEPT ![i] = "running"]
  /\ task' = [task EXCEPT ![i] = "scheduled"]
  /\ UNCHANGED <<steering, recent>>

(* subagent_kill of one agent, whatever became of it, and of all running ones. *)
Kill_Fault(i) ==
  /\ status' = [status EXCEPT ![i] = "killed"]
  /\ UNCHANGED <<parent, task, steering, recent>>
Kill(i) ==
  /\ parent[i] # Unregistered
  /\ status' = [status EXCEPT ![i] = "killed"]
  /\ UNCHANGED <<parent, task, steering, recent>>

KillAll(p) ==
  /\ Active(p) # {}
  /\ status' = [i \in Agents |-> IF i \in Active(p) THEN "killed" ELSE status[i]]
  /\ UNCHANGED <<parent, task, steering, recent>>

Steer(i) ==
  /\ status[i] = "running" /\ ~recent[i] /\ steering[i] < MaxSteering
  /\ steering' = [steering EXCEPT ![i] = @ + 1]
  /\ recent' = [recent EXCEPT ![i] = TRUE]
  /\ UNCHANGED <<parent, status, task>>

SteerAgain(i) ==
  /\ recent[i]
  /\ recent' = [recent EXCEPT ![i] = FALSE]
  /\ UNCHANGED <<parent, status, task, steering>>

(* The task runs up to its first await. *)
Begin(i) ==
  /\ task[i] = "scheduled"
  /\ task' = [task EXCEPT ![i] = "awaiting"]
  /\ UNCHANGED <<parent, status, steering, recent>>

Over(i) == task' = [task EXCEPT ![i] = "over"]

(* The next event arrives. A killed agent returns; another one takes up its   *)
(* instructions; an error event fails the agent.                              *)
EventOfKilled(i) ==
  /\ task[i] = "awaiting" /\ status[i] = "killed"
  /\ Over(i)
  /\ UNCHANGED <<parent, status, steering, recent>>

TakeUp(i) == steering' = [steering EXCEPT ![i] = 0]

NextEvent_Fault(i) ==
  /\ task[i] = "awaiting"
  /\ TakeUp(i)
  /\ UNCHANGED <<parent, status, task, recent>>
NextEvent(i) ==
  /\ task[i] = "awaiting" /\ status[i] # "killed"
  /\ TakeUp(i)
  /\ UNCHANGED <<parent, status, task, recent>>

ErrorEvent_Fault(i) ==
  /\ task[i] = "awaiting" /\ status[i] # "killed"
  /\ TakeUp(i) /\ Over(i)
  /\ UNCHANGED <<parent, status, recent>>
ErrorEvent(i) ==
  /\ task[i] = "awaiting" /\ status[i] # "killed"
  /\ TakeUp(i) /\ Over(i)
  /\ status' = [status EXCEPT ![i] = "failed"]
  /\ UNCHANGED <<parent, recent>>

(* The generator is exhausted. *)
EndOfEvents_Fault(i) ==
  /\ task[i] = "awaiting"
  /\ Over(i)
  /\ status' = [status EXCEPT ![i] = "completed"]
  /\ UNCHANGED <<parent, steering, recent>>
EndOfEvents(i) ==
  /\ task[i] = "awaiting"
  /\ Over(i)
  /\ status' = [status EXCEPT ![i] = IF @ = "running" THEN "completed" ELSE @]
  /\ UNCHANGED <<parent, steering, recent>>

(* wait_for gives up, or the generator raises: the record says failed, also   *)
(* of an agent that was killed meanwhile.                                     *)
TimesOutOrRaises_Fault(i) ==
  /\ task[i] = "awaiting"
  /\ Over(i)
  /\ UNCHANGED <<parent, status, steering, recent>>
TimesOutOrRaises(i) ==
  /\ task[i] = "awaiting"
  /\ Over(i)
  /\ status' = [status EXCEPT ![i] = "failed"]
  /\ UNCHANGED <<parent, steering, recent>>

TaskStep(i) ==
  \/ Begin(i) \/ EventOfKilled(i) \/ NextEvent(i) \/ ErrorEvent(i) \/ EndOfEvents(i)
  \/ TimesOutOrRaises(i)

AgentsNext ==
  \/ \E i \in Agents, p \in Parents : Spawn(i, p)
  \/ \E i \in Agents : Kill(i) \/ Steer(i) \/ SteerAgain(i) \/ TaskStep(i)
  \/ \E p \in Parents : KillAll(p)

(* The loop runs scheduled tasks, and the timeout ends the others: an agent   *)
(* whose generator goes on producing events is interrupted all the same.      *)
AgentsFairness == \A i \in Agents : WF_agentVars(Begin(i)) /\ WF_agentVars(TimesOutOrRaises(i))

AgentsSpec == AgentsInit /\ [][AgentsNext]_agentVars /\ AgentsFairness

-----------------------------------------------------------------------------
(* A record that counts against its parent's limit belongs to a task that     *)
(* still runs: no ended agent keeps a slot.                                   *)
SlotsAreHeldByTasks == \A i \in Agents : status[i] = "running" => task[i] \in {"scheduled", "awaiting"}

(* A killed agent takes up no instruction that was queued for it. *)
KilledHearNothing ==
  [][\A i \in Agents : steering'[i] < steering[i] => status[i] # "killed"]_agentVars

(* What ended does not run or complete later: a kill is not answered by a     *)
(* completion, although the agent learns of it only at its next event. It may *)
(* still be recorded as failed.                                               *)
EndedStaysEnded ==
  [][\A i \in Agents :
       status[i] \in {"completed", "failed", "killed"} =>
         \/ status'[i] \in {status[i], "killed"}
         \/ status[i] = "killed" /\ status'[i] = "failed" /\ task[i] = "awaiting"]_agentVars

(* The registry says of each sub-agent what became of it. *)
SubAgentsSafe == []SlotsAreHeldByTasks /\ KilledHearNothing /\ EndedStaysEnded

(* Every sub-agent ends, whatever its generator does. *)
SubAgentsEnd == \A i \in Agents : task[i] = "scheduled" ~> task[i] = "over" /\ status[i] # "running"
=============================================================================
