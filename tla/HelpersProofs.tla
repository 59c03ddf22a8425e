---------------------------- MODULE HelpersProofs ----------------------------
(***************************************************************************)
(* Machine-checked proofs about the gateway's helpers.                      *)
(*                                                                          *)
(* The circuit breaker, for any number of concurrent executions and any     *)
(* thresholds; the sub-agents, for any agents, parents and limits; and the  *)
(* failover between providers, for any concurrent calls, candidates and     *)
(* number of retries.                                                       *)
(*                                                                          *)
(* The adapter manager, for any adapters, policies and coroutines that      *)
(* start, stop or restart them: what a stop may do to an adapter follows    *)
(* from who waits for its process, since at most one caller does.           *)
(*                                                                          *)
(* The local MCP server, for any coroutines and jobs, each cancelled at any *)
(* await: who may touch the session and the task follows from the queue of  *)
(* the lock, in which no coroutine stands twice.                            *)
(***************************************************************************)
EXTENDS CircuitBreaker, SubAgents, LlmFailover, AdapterManager, McpServer, DistinctSequences,
        FiniteSetTheorems, TLAPS

----------------------------------------------------------------------------
(* Circuit breaker *)

\* The types apart from that of the history variable lost.
CircuitType ==
    /\ state \in {"closed", "open", "half_open"}
    /\ failureCount \in 0 .. FailureThreshold
    /\ halfOpenCalls \in 0 .. HalfOpenMaxCalls
    /\ cooled \in BOOLEAN
    /\ call \in [Calls -> {"idle", "plain", "test"}]

LostType == lost \in BOOLEAN

LEMMA CircuitTypeStep == CircuitType /\ [Next]_vars => CircuitType'
<1>0. 0 \in 0 .. FailureThreshold /\ 0 \in 0 .. HalfOpenMaxCalls
  BY BreakerConstants DEF BreakerConstants
<1> SUFFICES ASSUME CircuitType, [Next]_vars PROVE CircuitType'
  OBVIOUS
<1> USE BreakerConstants DEF BreakerConstants, CircuitType
<1>1. ASSUME NEW c \in Calls, AdmitClosed(c) PROVE CircuitType'
  BY <1>1 DEF AdmitClosed, Admit
<1>2. ASSUME NEW c \in Calls, AdmitCooled(c) PROVE CircuitType'
  BY <1>2, <1>0 DEF AdmitCooled, Admit
<1>3. ASSUME NEW c \in Calls, AdmitHalfOpen(c) PROVE CircuitType'
  BY <1>3 DEF AdmitHalfOpen, Admit, TestLimitReached
<1>4. ASSUME NEW c \in Calls, Succeed(c) PROVE CircuitType'
  <2>1. failureCount' \in 0 .. FailureThreshold /\ halfOpenCalls' \in 0 .. HalfOpenMaxCalls
    BY <1>4, <1>0 DEF Succeed
  <2>2. state' \in {"closed", "open", "half_open"} /\ cooled' \in BOOLEAN
    BY <1>4 DEF Succeed
  <2>3. call' \in [Calls -> {"idle", "plain", "test"}]
    BY <1>4 DEF Succeed, Returns
  <2> QED
    BY <2>1, <2>2, <2>3
<1>5. ASSUME NEW c \in Calls, Fail(c) PROVE CircuitType'
  <2>1. failureCount' \in 0 .. FailureThreshold
    BY <1>5 DEF Fail, OneMore
  <2>2. halfOpenCalls' \in 0 .. HalfOpenMaxCalls
    BY <1>5, <1>0 DEF Fail, FailHalfOpen, FailClosed, FailOpen
  <2>3. state' \in {"closed", "open", "half_open"} /\ cooled' \in BOOLEAN
    BY <1>5 DEF Fail, FailHalfOpen, FailClosed, FailOpen, Opens
  <2>4. call' \in [Calls -> {"idle", "plain", "test"}]
    BY <1>5 DEF Fail, Returns
  <2> QED
    BY <2>1, <2>2, <2>3, <2>4
<1>6. ASSUME NEW c \in Calls, Abort(c) PROVE CircuitType'
  BY <1>6 DEF Abort, Returns
<1>7. CASE CooldownPasses
  BY <1>7 DEF CooldownPasses
<1>8. CASE Reset
  BY <1>8, <1>0 DEF Reset
<1>9. CASE UNCHANGED vars
  BY <1>9 DEF vars
<1> QED
  BY <1>1, <1>2, <1>3, <1>4, <1>5, <1>6, <1>7, <1>8, <1>9 DEF Next, Refuse

LEMMA LostStep == LostType /\ [Next]_vars => LostType'
<1> SUFFICES ASSUME lost \in BOOLEAN, [Next]_vars PROVE lost' \in BOOLEAN
  BY DEF LostType
<1>1. ASSUME NEW c \in Calls, Abort(c) PROVE lost' \in BOOLEAN
  BY <1>1 DEF Abort
<1>2. ASSUME NEW c \in Calls, AdmitCooled(c) PROVE lost' \in BOOLEAN
  BY <1>2 DEF AdmitCooled
<1>3. CASE UNCHANGED lost
  BY <1>3
<1> QED
  BY <1>1, <1>2, <1>3 DEF Next, vars, AdmitClosed, AdmitHalfOpen, Refuse, Succeed, Fail,
                          CooldownPasses, Reset

\* The circuit breaker's variables keep their types, whatever the executions
\* under way and whenever their results come in.
THEOREM TypeCorrect == Spec => []TypeOK
<1>1. Init => CircuitType /\ LostType
  <2>1. 0 \in 0 .. FailureThreshold /\ 0 \in 0 .. HalfOpenMaxCalls
    BY BreakerConstants DEF BreakerConstants
  <2>2. Init => CircuitType
    BY <2>1 DEF Init, CircuitType
  <2>3. Init => LostType
    BY DEF Init, LostType
  <2> QED
    BY <2>2, <2>3
<1>2. CircuitType /\ LostType => TypeOK
  BY DEF CircuitType, LostType, TypeOK
<1> QED
  BY <1>1, <1>2, CircuitTypeStep, LostStep, PTL DEF Spec

----------------------------------------------------------------------------
\* No circuit that admits every call has a count at the threshold: late
\* results of earlier calls cannot leave one behind.
THEOREM ClosedCircuitsAreHealthy == Spec => []ClosedIsHealthy
<1>1. Init => ClosedIsHealthy
  BY BreakerConstants DEF BreakerConstants, Init, ClosedIsHealthy
<1>2. TypeOK /\ ClosedIsHealthy /\ [Next]_vars => ClosedIsHealthy'
  <2> SUFFICES ASSUME TypeOK, ClosedIsHealthy, [Next]_vars PROVE ClosedIsHealthy'
    OBVIOUS
  <2> USE BreakerConstants DEF BreakerConstants, TypeOK, ClosedIsHealthy
  <2>1. ASSUME NEW c \in Calls, Succeed(c) PROVE ClosedIsHealthy'
    BY <2>1 DEF Succeed
  <2>2. ASSUME NEW c \in Calls, Fail(c) PROVE ClosedIsHealthy'
    <3>1. CASE FailClosed(c)
      BY <2>2, <3>1 DEF Fail, FailClosed, Tripped, Opens, OneMore
    <3>2. CASE FailHalfOpen(c) \/ FailOpen(c)
      BY <3>2 DEF FailHalfOpen, FailOpen, Opens
    <3> QED
      BY <2>2, <3>1, <3>2 DEF Fail
  <2>3. CASE Reset
    BY <2>3 DEF Reset
  <2>4. ASSUME NEW c \in Calls, AdmitCooled(c) PROVE ClosedIsHealthy'
    BY <2>4 DEF AdmitCooled
  <2>5. ASSUME UNCHANGED <<state, failureCount>> PROVE ClosedIsHealthy'
    BY <2>5
  <2> QED
    BY <2>1, <2>2, <2>3, <2>4, <2>5
       DEF Next, vars, AdmitClosed, AdmitHalfOpen, Refuse, Abort, CooldownPasses
<1> QED
  BY <1>1, <1>2, TypeCorrect, PTL DEF Spec

----------------------------------------------------------------------------
\* Unless a test call was cancelled, a half-open circuit never refuses calls for
\* nothing: a test call that will decide its state is under way.
THEOREM HalfOpenCircuitsAreTested ==
    Spec => []HalfOpenIsTested
<1>1. Init => HalfOpenIsTested
  BY DEF Init, HalfOpenIsTested
<1>2. TypeOK /\ HalfOpenIsTested /\ [Next]_vars => HalfOpenIsTested'
  <2> SUFFICES ASSUME TypeOK, HalfOpenIsTested, [Next]_vars PROVE HalfOpenIsTested'
    OBVIOUS
  <2> USE DEF TypeOK, HalfOpenIsTested
  <2>1. ASSUME NEW c \in Calls, AdmitClosed(c) PROVE HalfOpenIsTested'
    BY <2>1 DEF AdmitClosed
  <2>2. ASSUME NEW c \in Calls, AdmitCooled(c) \/ AdmitHalfOpen(c)
        PROVE  HalfOpenIsTested'
    <3>1. call'[c] = "test"
      BY <2>2 DEF AdmitCooled, AdmitHalfOpen, Admit
    <3> QED
      BY <3>1
  <2>3. ASSUME NEW c \in Calls, Succeed(c) PROVE HalfOpenIsTested'
    BY <2>3 DEF Succeed, ClosedBySuccess
  <2>4. ASSUME NEW c \in Calls, Fail(c) PROVE HalfOpenIsTested'
    BY <2>4 DEF Fail, FailHalfOpen, FailClosed, FailOpen, Opens
  <2>5. CASE CooldownPasses \/ Reset
    BY <2>5 DEF CooldownPasses, Reset
  <2>6. CASE UNCHANGED vars
    BY <2>6 DEF vars
  <2>7. ASSUME NEW c \in Calls, Abort(c) PROVE HalfOpenIsTested'
    BY <2>7 DEF Abort, Returns
  <2> QED
    BY <2>1, <2>2, <2>3, <2>4, <2>5, <2>6, <2>7 DEF Next, Refuse
<1> QED
  BY <1>1, <1>2, TypeCorrect, PTL DEF Spec

----------------------------------------------------------------------------
\* Nothing but a manual reset ends the open time of a circuit before its
\* cooldown has passed: in particular no late success of an earlier call.
THEOREM CooldownsAreServed ==
    Spec => CooldownIsServed
<1>1. [Next]_vars => [state = "open" /\ ~cooled => state' = "open" \/ Reset]_vars
  <2> SUFFICES ASSUME Next, ~Reset, state = "open", ~cooled PROVE state' = "open"
    BY DEF vars
  <2>1. ASSUME NEW c \in Calls, Succeed(c) PROVE state' = "open"
    BY <2>1 DEF Succeed, ClosedBySuccess
  <2>2. ASSUME NEW c \in Calls, Fail(c) PROVE state' = "open"
    BY <2>2 DEF Fail, FailHalfOpen, FailClosed, FailOpen
  <2> QED
    BY <2>1, <2>2 DEF Next, AdmitClosed, AdmitCooled, AdmitHalfOpen, Refuse, vars,
                      Abort, CooldownPasses
<1> QED
  BY <1>1, PTL DEF Spec, CooldownIsServed

\* The three together: however late results come in, a circuit is never left
\* closed past its threshold, half-open without a test, or closed too early.
THEOREM BreakerIsSafe == Spec => BreakerSafe
BY ClosedCircuitsAreHealthy, HalfOpenCircuitsAreTested, CooldownsAreServed, PTL
   DEF BreakerSafe

----------------------------------------------------------------------------
(* Sub-agents *)

\* Only a registered agent has a task, and one that completed or failed has
\* none any more.
TasksMatchRecords ==
    \A i \in Agents : /\ status[i] = "none" => task[i] = "none"
                      /\ status[i] \in {"completed", "failed"} => task[i] = "over"

AgentsInv == AgentsTypeOK /\ SlotsAreHeldByTasks /\ TasksMatchRecords

LEMMA AgentsStart == AgentsInit => AgentsInv
BY AgentsConstants
   DEF AgentsInit, AgentsInv, AgentsTypeOK, SlotsAreHeldByTasks, TasksMatchRecords, Unregistered

LEMMA AgentsTypeStep == AgentsInv /\ [AgentsNext]_agentVars => AgentsTypeOK'
<1> SUFFICES ASSUME AgentsTypeOK, TasksMatchRecords, [AgentsNext]_agentVars PROVE AgentsTypeOK'
  BY DEF AgentsInv
<1> USE AgentsConstants DEF AgentsTypeOK, Statuses
<1>1. ASSUME NEW i \in Agents, NEW p \in Parents, Spawn(i, p) PROVE AgentsTypeOK'
  BY <1>1 DEF Spawn
<1>2. ASSUME NEW i \in Agents, Kill(i) PROVE AgentsTypeOK'
  BY <1>2 DEF Kill
<1>3. ASSUME NEW i \in Agents, Steer(i) \/ SteerAgain(i) PROVE AgentsTypeOK'
  <2>1. CASE Steer(i)
    <3>1. steering[i] + 1 \in 0..MaxSteering /\ steering' = [steering EXCEPT ![i] = steering[i] + 1]
      BY <2>1 DEF Steer
    <3> QED
      BY <2>1, <3>1 DEF Steer
  <2>2. CASE SteerAgain(i)
    BY <2>2 DEF SteerAgain
  <2> QED
    BY <1>3, <2>1, <2>2
<1>4. ASSUME NEW i \in Agents, Begin(i) \/ EventOfKilled(i) \/ NextEvent(i) PROVE AgentsTypeOK'
  BY <1>4 DEF Begin, EventOfKilled, NextEvent, Over, TakeUp
<1>5. ASSUME NEW i \in Agents, ErrorEvent(i) \/ EndOfEvents(i) \/ TimesOutOrRaises(i)
      PROVE AgentsTypeOK'
  BY <1>5 DEF ErrorEvent, EndOfEvents, TimesOutOrRaises, Over, TakeUp, TasksMatchRecords
<1>6. ASSUME NEW p \in Parents, KillAll(p) PROVE AgentsTypeOK'
  BY <1>6 DEF KillAll, Active
<1>7. CASE UNCHANGED agentVars
  BY <1>7 DEF agentVars
<1> QED
  BY <1>1, <1>2, <1>3, <1>4, <1>5, <1>6, <1>7 DEF AgentsNext, TaskStep

LEMMA AgentsStep == AgentsInv /\ [AgentsNext]_agentVars => AgentsInv'
<1> SUFFICES ASSUME AgentsInv, [AgentsNext]_agentVars PROVE SlotsAreHeldByTasks' /\ TasksMatchRecords'
  BY AgentsTypeStep DEF AgentsInv
<1> USE DEF AgentsInv, AgentsTypeOK, SlotsAreHeldByTasks, TasksMatchRecords
<1> DEFINE Goal == SlotsAreHeldByTasks' /\ TasksMatchRecords'
<1>1. ASSUME NEW i \in Agents, NEW p \in Parents, Spawn(i, p) PROVE Goal
  BY <1>1 DEF Spawn
<1>2. ASSUME NEW i \in Agents, Kill(i) PROVE Goal
  BY <1>2 DEF Kill
<1>3. ASSUME NEW i \in Agents, Steer(i) \/ SteerAgain(i) PROVE Goal
  BY <1>3 DEF Steer, SteerAgain
<1>4. ASSUME NEW i \in Agents, Begin(i) \/ EventOfKilled(i) \/ NextEvent(i) PROVE Goal
  BY <1>4 DEF Begin, EventOfKilled, NextEvent, Over
<1>5. ASSUME NEW i \in Agents, ErrorEvent(i) \/ EndOfEvents(i) \/ TimesOutOrRaises(i) PROVE Goal
  BY <1>5 DEF ErrorEvent, EndOfEvents, TimesOutOrRaises, Over
<1>6. ASSUME NEW p \in Parents, KillAll(p) PROVE Goal
  BY <1>6 DEF KillAll, Active
<1>7. CASE UNCHANGED agentVars
  BY <1>7 DEF agentVars
<1> QED
  BY <1>1, <1>2, <1>3, <1>4, <1>5, <1>6, <1>7 DEF AgentsNext, TaskStep

\* The registry says of each sub-agent what became of it: a running record has
\* a task, a killed agent takes up nothing, and what ended stays ended.
THEOREM SubAgentsAreSafe == AgentsSpec => SubAgentsSafe
<1>1. AgentsInv /\ [AgentsNext]_agentVars =>
        [\A i \in Agents : steering'[i] < steering[i] => status[i] # "killed"]_agentVars
  <2> SUFFICES ASSUME AgentsInv, AgentsNext, NEW i \in Agents, steering'[i] < steering[i], status[i] = "killed"
               PROVE  FALSE
    OBVIOUS
  <2>1. steering[i] \in Nat
    BY AgentsConstants DEF AgentsInv, AgentsTypeOK
  <2>2. ASSUME NEW j \in Agents, NextEvent(j) \/ ErrorEvent(j) PROVE steering'[i] = steering[i]
    BY <2>2 DEF NextEvent, ErrorEvent, TakeUp, AgentsInv, AgentsTypeOK
  <2>3. ASSUME NEW j \in Agents, Steer(j) PROVE steering'[i] \in {steering[i], steering[i] + 1}
    BY <2>3 DEF Steer, AgentsInv, AgentsTypeOK
  <2> QED
    BY <2>1, <2>2, <2>3 DEF AgentsNext, TaskStep, Spawn, Kill, KillAll, SteerAgain, Begin, EventOfKilled,
                            EndOfEvents, TimesOutOrRaises
<1>2. AgentsInv /\ [AgentsNext]_agentVars =>
        [\A i \in Agents :
           status[i] \in {"completed", "failed", "killed"} =>
             \/ status'[i] \in {status[i], "killed"}
             \/ status[i] = "killed" /\ status'[i] = "failed" /\ task[i] = "awaiting"]_agentVars
  <2> SUFFICES ASSUME AgentsInv, AgentsNext, NEW i \in Agents, status[i] \in {"completed", "failed", "killed"},
                      status'[i] \notin {status[i], "killed"}
               PROVE  status[i] = "killed" /\ status'[i] = "failed" /\ task[i] = "awaiting"
    OBVIOUS
  <2> USE DEF AgentsInv, AgentsTypeOK, TasksMatchRecords
  <2>1. ASSUME NEW j \in Agents, NEW p \in Parents, Spawn(j, p) PROVE FALSE
    BY <2>1 DEF Spawn
  <2>2. ASSUME NEW p \in Parents, KillAll(p) PROVE FALSE
    BY <2>2 DEF KillAll
  <2>3. ASSUME NEW j \in Agents, Kill(j) \/ Steer(j) \/ SteerAgain(j) \/ Begin(j) \/ EventOfKilled(j)
                                   \/ NextEvent(j)
        PROVE FALSE
    BY <2>3 DEF Kill, Steer, SteerAgain, Begin, EventOfKilled, NextEvent
  <2>4. ASSUME NEW j \in Agents, EndOfEvents(j) PROVE FALSE
    BY <2>4 DEF EndOfEvents
  <2>5. ASSUME NEW j \in Agents, ErrorEvent(j) PROVE FALSE
    BY <2>5 DEF ErrorEvent
  <2>6. ASSUME NEW j \in Agents, TimesOutOrRaises(j)
        PROVE  status[i] = "killed" /\ status'[i] = "failed" /\ task[i] = "awaiting"
    BY <2>6 DEF TimesOutOrRaises
  <2> QED
    BY <2>1, <2>2, <2>3, <2>4, <2>5, <2>6 DEF AgentsNext, TaskStep
<1>3. AgentsInv => SlotsAreHeldByTasks
  BY DEF AgentsInv
<1> QED
  BY <1>1, <1>2, <1>3, AgentsStart, AgentsStep, PTL
     DEF AgentsSpec, SubAgentsSafe, KilledHearNothing, EndedStaysEnded

----------------------------------------------------------------------------
(* Failover *)

Below == {ss \in Nat \X Nat : ss[1] < ss[2]}

LEMMA LeastNumber ==
    ASSUME NEW T \in SUBSET Nat, T # {}
    PROVE  Min(T) \in T /\ \A m \in T : Min(T) <= m
<1>1. IsWellFoundedOn(Below, Nat)
  BY NatLessThanWellFounded DEF OpToRel, Below
<1>2. PICK n \in T : \A m \in T : ~(<<m, n>> \in Below)
  BY <1>1, WFMin
<1>3. ASSUME NEW m \in T PROVE n <= m
  <2>1. m \in Nat /\ n \in Nat /\ ~(<<m, n>> \in Below)
    BY <1>2
  <2>2. ~(m < n)
    BY <2>1 DEF Below
  <2> QED
    BY <2>1, <2>2
<1> QED
  BY <1>3 DEF Min

Calling == [at : {"idle", "trying", "backoff", "answered", "raised", "unavailable"},
            candidate : 0..Len(Candidates), attempt : 0..MaxRetries, failed : BOOLEAN]

\* A call that backs off has attempts left, and an error that speaks of the
\* context length has ended its call.
FailoverInv ==
    /\ FailoverTypeOK /\ OverflowIsNotRetried
    /\ \A c \in Askers : ongoing[c].at = "backoff" => ongoing[c].attempt < MaxRetries

LEMMA CandidatesType == Len(Candidates) \in Nat /\ DOMAIN Candidates = 1..Len(Candidates)
BY FailoverConstants

\* The candidate a call goes on with, if there is one.
LEMMA AdvanceFacts ==
    ASSUME FailoverInv, NEW c \in Askers, NEW i \in Nat, i > 0, NEW keys, NEW failed \in BOOLEAN,
           Advance(c, i, keys, failed)
    PROVE  /\ ongoing' \in [Askers -> Calling]
           /\ \A d \in Askers \ {c} : ongoing'[d] = ongoing[d]
           /\ ongoing'[c].at \in {"trying", "raised", "unavailable"}
           /\ ongoing'[c].at = "trying" => /\ ongoing'[c].candidate \in DOMAIN Candidates
                                           /\ ongoing'[c].attempt = 1
                                           /\ ~CooledDown(ongoing'[c].candidate, keys)
           /\ ongoing'[c].at = "unavailable" => ~failed /\ \A k \in i..Len(Candidates) : CooledDown(k, keys)
           /\ ongoing'[c].at = "raised" => failed
<1> DEFINE open == {k \in i..Len(Candidates) : ~CooledDown(k, keys)}
<1>1. open \in SUBSET Nat /\ open \subseteq 1..Len(Candidates)
  BY CandidatesType
<1>2. ongoing \in [Askers -> Calling] /\ 1 \in 0..MaxRetries
  BY FailoverConstants DEF FailoverInv, FailoverTypeOK, Calling
<1>3. ongoing' = [ongoing EXCEPT ![c] =
                    IF open # {} THEN [at |-> "trying", candidate |-> Min(open), attempt |-> 1, failed |-> failed]
                    ELSE [ongoing[c] EXCEPT !.at = IF failed THEN "raised" ELSE "unavailable", !.failed = failed]]
  BY DEF Advance
<1>4. CASE open # {}
  <2> HIDE DEF open
  <2>1. Min(open) \in open
    BY <1>1, <1>4, LeastNumber
  <2> DEFINE new == [at |-> "trying", candidate |-> Min(open), attempt |-> 1, failed |-> failed]
  <2>2. new \in Calling
    <3>1. Min(open) \in 1..Len(Candidates)
      BY <1>1, <2>1
    <3>2. \A n \in 1..Len(Candidates) : n \in 0..Len(Candidates)
      BY CandidatesType
    <3>3. Min(open) \in 0..Len(Candidates)
      BY <3>1, <3>2
    <3> QED
      BY <1>2, <3>3 DEF Calling
  <2>3. ongoing' = [ongoing EXCEPT ![c] = new]
    BY <1>3, <1>4
  <2>4. new.at = "trying" /\ new.candidate = Min(open) /\ new.attempt = 1
    OBVIOUS
  <2>5. ~CooledDown(Min(open), keys)
    BY <2>1 DEF open
  <2> HIDE DEF new
  <2> QED
    BY <1>1, <1>2, <2>1, <2>2, <2>3, <2>4, <2>5, CandidatesType
<1>5. CASE open = {}
  <2> DEFINE new == [ongoing[c] EXCEPT !.at = IF failed THEN "raised" ELSE "unavailable", !.failed = failed]
  <2>1. new \in Calling /\ new.at = IF failed THEN "raised" ELSE "unavailable"
    BY <1>2 DEF Calling
  <2>2. ongoing' = [ongoing EXCEPT ![c] = new]
    BY <1>3, <1>5
  <2>3. \A k \in i..Len(Candidates) : CooledDown(k, keys)
    BY <1>5
  <2> HIDE DEF new
  <2> QED
    BY <1>2, <2>1, <2>2, <2>3
<1> QED
  BY <1>4, <1>5

LEMMA FailoverStart == FailoverInit => FailoverInv
BY CandidatesType, FailoverConstants
   DEF FailoverInit, FailoverInv, FailoverTypeOK, OverflowIsNotRetried

\* What the caller learns of a context that is too long is its error's class.
LEMMA TooLongOverflows ==
    ASSUME NEW e \in Errors, TooLong(e)
    PROVE  Classify(e) = "context_overflow"
BY DEF Errors, TooLong, Classify

LEMMA ErrorClasses ==
    ASSUME NEW e \in Errors
    PROVE  Classify(e) \in Reasons
BY DEF Errors, Classify, Reasons

\* A call that goes on to another candidate, or ends for want of one.
LEMMA AdvanceKeeps ==
    ASSUME FailoverInv, NEW c \in Askers, NEW i \in Nat, i > 0, NEW keys, NEW failed \in BOOLEAN,
           Advance(c, i, keys, failed), cool' \subseteq Keys, long' \subseteq Askers,
           ongoing[c].at \in {"idle", "trying"}, \A d \in long' : d \in long /\ d # c
    PROVE  FailoverInv'
<1>1. /\ ongoing' \in [Askers -> Calling]
      /\ \A d \in Askers \ {c} : ongoing'[d] = ongoing[d]
      /\ ongoing'[c].at \in {"trying", "raised", "unavailable"}
      /\ ongoing'[c].at = "trying" => ongoing'[c].candidate \in DOMAIN Candidates /\ ongoing'[c].attempt = 1
  BY AdvanceFacts
<1>2. \A n \in DOMAIN Candidates : n > 0
  BY CandidatesType
<1>3. FailoverTypeOK'
  <2>1. \A d \in Askers : ongoing'[d].at \in {"trying", "backoff"} =>
                            ongoing'[d].candidate > 0 /\ ongoing'[d].attempt > 0
    BY <1>1, <1>2, SMTT(30) DEF FailoverInv, FailoverTypeOK
  <2> QED
    BY <1>1, <2>1 DEF FailoverTypeOK, Calling
<1>4. OverflowIsNotRetried'
  BY <1>1 DEF FailoverInv, FailoverTypeOK, OverflowIsNotRetried
<1>5. \A d \in Askers : ongoing'[d].at = "backoff" => ongoing'[d].attempt < MaxRetries
  BY <1>1 DEF FailoverInv
<1> QED
  BY <1>3, <1>4, <1>5 DEF FailoverInv

LEMMA KeysType ==
    ASSUME NEW k \in DOMAIN Candidates
    PROVE  /\ <<Candidates[k].provider, AnyModel>> \in Keys
           /\ <<Candidates[k].provider, Candidates[k].model>> \in Keys
BY DEF Keys

\* One failed attempt, by what becomes of the call.
FailsWith(c, e) ==
    /\ long' = IF TooLong(e) THEN long \cup {c} ELSE long \ {c}
    /\ Overflows(c, e) \/ CoolsDown(c, e) \/ Retries(c, e) \/ GivesUp(c, e)

LEMMA FailsKeeps ==
    ASSUME FailoverInv, NEW c \in Askers, NEW e \in Errors, FailsWith(c, e)
    PROVE  FailoverInv'
<1>1. /\ ongoing \in [Askers -> Calling] /\ cool \subseteq Keys /\ long \subseteq Askers
      /\ \A d \in Askers : ongoing[d].at \in {"trying", "backoff"} =>
                              ongoing[d].candidate > 0 /\ ongoing[d].attempt > 0
      /\ \A d \in Askers : ongoing[d].at = "backoff" => ongoing[d].attempt < MaxRetries
      /\ \A d \in long : ongoing[d].at = "raised"
  BY DEF FailoverInv, FailoverTypeOK, OverflowIsNotRetried, Calling
<1>2. ongoing[c].at = "trying" /\ c \notin long
  BY <1>1 DEF FailsWith, Overflows, CoolsDown, Retries, GivesUp
<1>3. ongoing[c].candidate \in DOMAIN Candidates /\ ongoing[c].candidate \in Nat
  <2>1. ongoing[c].candidate \in 0..Len(Candidates) /\ ongoing[c].candidate > 0
    BY <1>1, <1>2 DEF Calling
  <2> QED
    BY <2>1, CandidatesType
<1>4. CASE Overflows(c, e)
  <2>1. ongoing' = [ongoing EXCEPT ![c].at = "raised"] /\ cool' = cool /\ long' \in {long, long \cup {c}}
    BY <1>2, <1>4 DEF Overflows, FailsWith
  <2>2. /\ ongoing' \in [Askers -> Calling] /\ ongoing'[c].at = "raised"
        /\ \A d \in Askers \ {c} : ongoing'[d] = ongoing[d]
    BY <1>1, <2>1 DEF Calling
  <2>3. FailoverTypeOK'
    BY <1>1, <2>1, <2>2 DEF FailoverTypeOK, Calling
  <2> QED
    BY <1>1, <2>1, <2>2, <2>3 DEF FailoverInv, OverflowIsNotRetried
<1>5. ASSUME ~Overflows(c, e) PROVE long' = long
  <2>1. Classify(e) # "context_overflow"
    BY <1>5 DEF FailsWith, CoolsDown, Retries, GivesUp
  <2> QED
    BY <1>2, <2>1, TooLongOverflows DEF FailsWith
<1>6. CASE CoolsDown(c, e) /\ ~Overflows(c, e)
  <2> DEFINE k == ongoing[c].candidate
             key == <<Candidates[k].provider, IF Classify(e) = "auth" THEN AnyModel ELSE Candidates[k].model>>
  <2>1. cool' = cool \cup {key} /\ Advance(c, k + 1, cool \cup {key}, TRUE)
    BY <1>6 DEF CoolsDown
  <2>2. key \in Keys
    BY <1>3, KeysType
  <2>3. cool' \subseteq Keys /\ k + 1 \in Nat /\ k + 1 > 0
    BY <1>1, <1>3, <2>1, <2>2
  <2> HIDE DEF k, key
  <2> QED
    BY <1>1, <1>2, <1>5, <1>6, <2>1, <2>3, AdvanceKeeps
<1>7. CASE Retries(c, e) /\ ~Overflows(c, e)
  <2>1. ongoing' = [ongoing EXCEPT ![c].at = "backoff"] /\ cool' = cool /\ ongoing[c].attempt < MaxRetries
    BY <1>7 DEF Retries
  <2>2. /\ ongoing' \in [Askers -> Calling]
        /\ ongoing'[c].at = "backoff" /\ ongoing'[c].attempt = ongoing[c].attempt
        /\ ongoing'[c].candidate = ongoing[c].candidate
        /\ \A d \in Askers \ {c} : ongoing'[d] = ongoing[d]
    BY <1>1, <2>1 DEF Calling
  <2>3. FailoverTypeOK'
    BY <1>1, <1>2, <1>5, <1>7, <2>1, <2>2 DEF FailoverTypeOK, Calling
  <2> QED
    BY <1>1, <1>2, <1>5, <1>7, <2>1, <2>2, <2>3 DEF FailoverInv, OverflowIsNotRetried
<1>8. CASE GivesUp(c, e) /\ ~Overflows(c, e)
  <2> DEFINE k == ongoing[c].candidate
  <2>1. cool' = cool /\ Advance(c, k + 1, cool, TRUE)
    BY <1>8 DEF GivesUp
  <2>2. k + 1 \in Nat /\ k + 1 > 0
    BY <1>3
  <2> HIDE DEF k
  <2> QED
    BY <1>1, <1>2, <1>5, <1>8, <2>1, <2>2, AdvanceKeeps
<1> QED
  BY <1>4, <1>6, <1>7, <1>8 DEF FailsWith

LEMMA FailoverStep == FailoverInv /\ [FailoverNext]_failoverVars => FailoverInv'
<1> SUFFICES ASSUME FailoverInv, [FailoverNext]_failoverVars PROVE FailoverInv'
  OBVIOUS
<1>1. ASSUME NEW key \in Keys, Expire(key) \/ Clear(key[1], key[2]) PROVE FailoverInv'
  <2>1. cool' \subseteq cool /\ UNCHANGED <<ongoing, long>>
    BY <1>1 DEF Expire, Clear
  <2> QED
    BY <2>1 DEF FailoverInv, FailoverTypeOK, OverflowIsNotRetried
<1>2. ASSUME NEW c \in Askers, StartCall(c) PROVE FailoverInv'
  <2>1. Advance(c, 1, cool, FALSE) /\ cool' = cool /\ long' = long /\ ongoing[c].at = "idle"
    BY <1>2 DEF StartCall
  <2>2. cool' \subseteq Keys /\ long' \subseteq Askers /\ \A d \in long' : d \in long /\ d # c
    BY <2>1 DEF FailoverInv, FailoverTypeOK, OverflowIsNotRetried
  <2>3. 1 \in Nat /\ 1 > 0 /\ FALSE \in BOOLEAN
    OBVIOUS
  <2> QED
    BY <2>1, <2>2, <2>3, AdvanceKeeps
<1>3. ASSUME NEW c \in Askers, Answers(c) PROVE FailoverInv'
  BY <1>3 DEF Answers, FailoverInv, FailoverTypeOK, OverflowIsNotRetried
<1>4. ASSUME NEW c \in Askers, Fails(c) PROVE FailoverInv'
  <2>1. PICK e \in Errors : FailsWith(c, e)
    BY <1>4 DEF Fails, FailsWith
  <2> QED
    BY <2>1, FailsKeeps
<1>5. ASSUME NEW c \in Askers, TryAgain(c) PROVE FailoverInv'
  <2>1. /\ ongoing[c].at = "backoff" /\ cool' = cool /\ long' = long
        /\ ongoing' = [ongoing EXCEPT ![c].at = "trying", ![c].attempt = ongoing[c].attempt + 1]
    BY <1>5 DEF TryAgain, FailoverInv, FailoverTypeOK
  <2>2. ongoing[c].attempt + 1 \in 0..MaxRetries
    BY <2>1, FailoverConstants DEF FailoverInv, FailoverTypeOK
  <2>3. /\ ongoing' \in [Askers -> Calling] /\ ongoing'[c].at = "trying" /\ ongoing'[c].attempt > 0
        /\ ongoing'[c].candidate = ongoing[c].candidate
        /\ \A d \in Askers \ {c} : ongoing'[d] = ongoing[d]
    BY <2>1, <2>2, FailoverConstants DEF FailoverInv, FailoverTypeOK, Calling
  <2>4. FailoverTypeOK'
    BY <2>1, <2>3 DEF FailoverInv, FailoverTypeOK, Calling
  <2>5. long \subseteq Askers /\ c \notin long
    BY <2>1 DEF FailoverInv, FailoverTypeOK, OverflowIsNotRetried
  <2> QED
    BY <2>1, <2>3, <2>4, <2>5 DEF FailoverInv, OverflowIsNotRetried
<1>6. CASE UNCHANGED failoverVars
  BY <1>6 DEF failoverVars, FailoverInv, FailoverTypeOK, OverflowIsNotRetried
<1> QED
  BY <1>1, <1>2, <1>3, <1>4, <1>5, <1>6 DEF FailoverNext

\* The steps on which a call turns to a candidate or ends for want of one.
LEMMA TurnsOnlyBySearch ==
    ASSUME FailoverInv, FailoverNext, NEW c \in Askers, ongoing'[c] # ongoing[c],
           \/ ongoing'[c].at = "trying" /\ ongoing'[c].attempt = 1
           \/ ongoing'[c].at = "unavailable"
    PROVE  \E i \in Nat \ {0}, failed \in BOOLEAN :
             /\ Advance(c, i, cool', failed)
             /\ ~failed => i = 1 /\ ongoing[c].at = "idle" /\ cool' = cool
<1> USE DEF FailoverInv
<1>1. ongoing \in [Askers -> Calling]
  BY DEF FailoverTypeOK, Calling
<1>2. ASSUME NEW key \in Keys, Expire(key) \/ Clear(key[1], key[2]) PROVE FALSE
  BY <1>2 DEF Expire, Clear
<1>3. ASSUME NEW d \in Askers, Answers(d) PROVE FALSE
  BY <1>1, <1>3 DEF Answers, Calling
<1>4. ASSUME NEW d \in Askers, TryAgain(d) PROVE FALSE
  <2>1. /\ ongoing[d].at = "backoff"
        /\ ongoing' = [ongoing EXCEPT ![d].at = "trying", ![d].attempt = ongoing[d].attempt + 1]
    BY <1>4, <1>1 DEF TryAgain
  <2>2. d = c /\ ongoing'[c].at = "trying" /\ ongoing'[c].attempt = ongoing[c].attempt + 1
    BY <1>1, <2>1 DEF Calling
  <2>3. ongoing[c].attempt > 0 /\ ongoing[c].attempt \in Nat
    BY <2>1, <2>2, FailoverConstants DEF FailoverTypeOK
  <2> QED
    BY <2>2, <2>3
<1>5. ASSUME NEW d \in Askers, StartCall(d) PROVE d = c /\ Advance(c, 1, cool', FALSE) /\ ongoing[c].at = "idle" /\ cool' = cool
  <2>1. Advance(d, 1, cool, FALSE) /\ cool' = cool /\ ongoing[d].at = "idle"
    BY <1>5 DEF StartCall
  <2>2. d = c
    BY <2>1, <1>1 DEF Advance
  <2> QED
    BY <2>1, <2>2
<1>6. ASSUME NEW d \in Askers, NEW e \in Errors, FailsWith(d, e)
      PROVE  \E i \in Nat \ {0} : Advance(c, i, cool', TRUE)
  <2>1. /\ ~Overflows(d, e) /\ ~Retries(d, e)
    BY <1>1 DEF Overflows, Retries, Calling
  <2>2. CASE CoolsDown(d, e)
    <3> DEFINE k == ongoing[d].candidate
               key == <<Candidates[k].provider, IF Classify(e) = "auth" THEN AnyModel ELSE Candidates[k].model>>
    <3>1. cool' = cool \cup {key} /\ Advance(d, k + 1, cool \cup {key}, TRUE)
      BY <2>2 DEF CoolsDown
    <3> HIDE DEF key
    <3>2. d = c
      BY <3>1, <1>1 DEF Advance
    <3>3. k + 1 \in Nat \ {0}
      BY <1>1, CandidatesType DEF Calling
    <3> HIDE DEF k
    <3> QED
      BY <3>1, <3>2, <3>3
  <2>3. CASE GivesUp(d, e)
    <3> DEFINE k == ongoing[d].candidate
    <3>1. cool' = cool /\ Advance(d, k + 1, cool, TRUE)
      BY <2>3 DEF GivesUp
    <3>2. d = c
      BY <3>1, <1>1 DEF Advance
    <3>3. k + 1 \in Nat \ {0}
      BY <1>1, CandidatesType DEF Calling
    <3> HIDE DEF k
    <3> QED
      BY <3>1, <3>2, <3>3
  <2> QED
    BY <1>6, <2>1, <2>2, <2>3 DEF FailsWith
<1>7. CASE \E d \in Askers : StartCall(d)
  <2>1. Advance(c, 1, cool', FALSE) /\ ongoing[c].at = "idle" /\ cool' = cool
    BY <1>5, <1>7
  <2>2. 1 \in Nat \ {0} /\ FALSE \in BOOLEAN
    OBVIOUS
  <2> QED
    BY <2>1, <2>2
<1>8. CASE \E d \in Askers : Fails(d)
  <2>1. PICK d \in Askers, e \in Errors : FailsWith(d, e)
    BY <1>8 DEF Fails, FailsWith
  <2>2. PICK i \in Nat \ {0} : Advance(c, i, cool', TRUE)
    BY <2>1, <1>6
  <2>3. TRUE \in BOOLEAN
    OBVIOUS
  <2> QED
    BY <2>2, <2>3
<1> QED
  BY <1>2, <1>3, <1>4, <1>7, <1>8 DEF FailoverNext

\* Errors and cooldowns decide alone which candidate a call turns to: none
\* that cools down, none at all after an error about the context length, and
\* "no providers available" only if all of them cool down.
THEOREM FailoverIsSafe == FailoverSpec => FailoverSafe
<1>1. FailoverInv /\ [FailoverNext]_failoverVars =>
        [\A c \in Askers :
           ongoing'[c].at = "trying" /\ ongoing'[c].attempt = 1 /\ ongoing'[c] # ongoing[c] =>
             LET cand == Candidates[ongoing'[c].candidate] IN
             {<<cand.provider, cand.model>>, <<cand.provider, AnyModel>>} \cap cool' = {}]_failoverVars
  <2> SUFFICES ASSUME FailoverInv, FailoverNext, NEW c \in Askers,
                      ongoing'[c].at = "trying", ongoing'[c].attempt = 1, ongoing'[c] # ongoing[c]
               PROVE  LET cand == Candidates[ongoing'[c].candidate] IN
                      {<<cand.provider, cand.model>>, <<cand.provider, AnyModel>>} \cap cool' = {}
    OBVIOUS
  <2>1. PICK i \in Nat \ {0}, failed \in BOOLEAN : Advance(c, i, cool', failed)
    BY TurnsOnlyBySearch
  <2>2. ~CooledDown(ongoing'[c].candidate, cool')
    BY <2>1, AdvanceFacts
  <2> QED
    BY <2>2 DEF CooledDown
<1>2. FailoverInv /\ [FailoverNext]_failoverVars =>
        [\A c \in Askers :
           ongoing'[c].at = "unavailable" /\ ongoing[c].at # "unavailable" =>
             ongoing[c].at = "idle" /\ \A k \in DOMAIN Candidates : CooledDown(k, cool)]_failoverVars
  <2> SUFFICES ASSUME FailoverInv, FailoverNext, NEW c \in Askers,
                      ongoing'[c].at = "unavailable", ongoing[c].at # "unavailable"
               PROVE  ongoing[c].at = "idle" /\ \A k \in DOMAIN Candidates : CooledDown(k, cool)
    OBVIOUS
  <2>1. PICK i \in Nat \ {0}, failed \in BOOLEAN :
          /\ Advance(c, i, cool', failed)
          /\ ~failed => i = 1 /\ ongoing[c].at = "idle" /\ cool' = cool
    BY TurnsOnlyBySearch
  <2>2. ~failed /\ \A k \in i..Len(Candidates) : CooledDown(k, cool')
    BY <2>1, AdvanceFacts
  <2> QED
    BY <2>1, <2>2, CandidatesType
<1>3. FailoverInv => OverflowIsNotRetried
  BY DEF FailoverInv
<1> QED
  BY <1>1, <1>2, <1>3, FailoverStart, FailoverStep, PTL
     DEF FailoverSpec, FailoverSafe, NoCallIntoCooldown, UnavailableMeansAllCool

\* A call is never past the last candidate or the last attempt.
THEOREM FailoverTypeCorrect == FailoverSpec => []FailoverTypeOK
BY FailoverStart, FailoverStep, PTL DEF FailoverSpec, FailoverInv

\* The records and the tasks of sub-agents have their types.
THEOREM AgentsTypeCorrect == AgentsSpec => []AgentsTypeOK
BY AgentsStart, AgentsStep, PTL DEF AgentsSpec, AgentsInv

----------------------------------------------------------------------------
(* The adapter manager *)

Codes == {"alive", "ok", "failed"}

\* What holds of every adapter by itself.
Sound(ap) ==
    /\ ap \in AdapterProcess
    /\ ap.process \in 0 .. Len(ap.exit) /\ ap.pidfile \in 0 .. Len(ap.exit)
    /\ ap.restarts \in 0 .. Len(ap.exit)
    /\ ap.state = "running" => /\ ap.process = Len(ap.exit) /\ ap.pidfile = ap.process
                               /\ ap.restarts < Len(ap.exit)
    /\ ap.revived <= ap.restarts /\ ap.revived <= MaxRestarts

\* No process lives but the one the adapter refers to and runs or stops.
Quiet(ap) ==
    \A n \in 1 .. Len(ap.exit) :
        ap.exit[n] = "alive" => n = ap.process /\ ap.state \in {"running", "stopping"}

\* What every step does to an adapter: processes are added and end.
Grown(ap, aq) ==
    /\ Sound(aq)
    /\ Len(ap.exit) <= Len(aq.exit)
    /\ \A n \in 1 .. Len(ap.exit) : aq.exit[n] = "alive" => ap.exit[n] = "alive"
    /\ ap.late => aq.late

\* A step that no stop of the adapter takes.
Kept(ap, aq) ==
    ~aq.overlapped =>
        /\ ~ap.overlapped
        /\ ~aq.unrecorded => ~ap.unrecorded /\ (Quiet(ap) => Quiet(aq))
        /\ \/ aq.state = ap.state /\ aq.process = ap.process
           \/ aq.state # "stopping" /\ ap.state # "stopping"

Counted(ap, aq) == aq.revived = ap.revived /\ aq.restarts = ap.restarts

\* An adapter whose restart is due in this window.
Promised(ap) == ap.revived < ap.restarts /\ ap.restarts <= MaxRestarts

LEMMA AdapterFields ==
    ASSUME NEW ap, Sound(ap)
    PROVE  /\ ap.exit \in Seq(Codes) /\ Len(ap.exit) \in Nat
           /\ DOMAIN ap.exit = 1 .. Len(ap.exit)
           /\ ap.process \in Nat /\ ap.pidfile \in Nat /\ ap.restarts \in Nat /\ ap.revived \in Nat
           /\ \A n : Alive(ap, n) <=> n \in 1 .. Len(ap.exit) /\ ap.exit[n] = "alive"
<1>1. ap.exit \in Seq(Codes) /\ Len(ap.exit) \in Nat /\ DOMAIN ap.exit = 1 .. Len(ap.exit)
  BY DEF Sound, AdapterProcess, Codes
<1> QED
  BY <1>1 DEF Sound, AdapterProcess, Alive

LEMMA AdapterStays == ASSUME NEW ap, Sound(ap) PROVE Grown(ap, ap) /\ Kept(ap, ap) /\ Counted(ap, ap)
BY AdapterFields DEF Grown, Kept, Counted

\* A process ends.
LEMMA AdapterExits ==
    ASSUME NEW ap, Sound(ap), NEW n \in 1 .. Len(ap.exit), NEW code \in {"ok", "failed"},
           NEW aq, aq = [ap EXCEPT !.exit[n] = code]
    PROVE  /\ Grown(ap, aq) /\ Kept(ap, aq) /\ Counted(ap, aq)
           /\ aq.state = ap.state /\ Len(aq.exit) = Len(ap.exit) /\ aq.exit[n] # "alive"
<1>1. ap.exit \in Seq(Codes) /\ Len(ap.exit) \in Nat
  BY AdapterFields
<1> DEFINE e == [ap.exit EXCEPT ![n] = code]
<1>2. /\ e \in Seq(Codes) /\ Len(e) = Len(ap.exit)
      /\ \A m \in 1 .. Len(ap.exit) : e[m] = IF m = n THEN code ELSE ap.exit[m]
  BY <1>1 DEF Codes
<1>3. aq = [ap EXCEPT !.exit = e]
  OBVIOUS
<1> HIDE DEF e
<1>4. /\ aq \in AdapterProcess /\ aq.exit = e
      /\ aq.state = ap.state /\ aq.process = ap.process /\ aq.pidfile = ap.pidfile
      /\ aq.restarts = ap.restarts /\ aq.revived = ap.revived
      /\ aq.overlapped = ap.overlapped /\ aq.unrecorded = ap.unrecorded /\ aq.late = ap.late
  BY <1>2, <1>3 DEF Sound, AdapterProcess, Codes
<1>5. Sound(aq)
  BY <1>2, <1>4 DEF Sound
<1>6. Grown(ap, aq) /\ Counted(ap, aq)
  BY <1>2, <1>4, <1>5 DEF Grown, Counted
<1>7. Quiet(ap) => Quiet(aq)
  BY <1>2, <1>4 DEF Quiet
<1> QED
  BY <1>2, <1>4, <1>6, <1>7 DEF Kept

LEMMA AdapterWindow ==
    ASSUME NEW ap, Sound(ap), NEW aq, aq = [ap EXCEPT !.window = "passed"]
    PROVE  Grown(ap, aq) /\ Kept(ap, aq) /\ Counted(ap, aq) /\ aq.state = ap.state
<1>1. /\ aq \in AdapterProcess /\ aq.exit = ap.exit
      /\ aq.state = ap.state /\ aq.process = ap.process /\ aq.pidfile = ap.pidfile
      /\ aq.restarts = ap.restarts /\ aq.revived = ap.revived
      /\ aq.overlapped = ap.overlapped /\ aq.unrecorded = ap.unrecorded /\ aq.late = ap.late
  BY DEF Sound, AdapterProcess
<1>2. Sound(aq)
  BY <1>1 DEF Sound
<1> QED
  BY <1>1, <1>2 DEF Grown, Kept, Quiet, Counted

\* A stop begins, and ends.
LEMMA AdapterStopping ==
    ASSUME NEW ap, Sound(ap), NEW aq, aq = [ap EXCEPT !.state = "stopping"]
    PROVE  /\ Grown(ap, aq) /\ Counted(ap, aq)
           /\ aq.state = "stopping" /\ aq.process = ap.process /\ aq.exit = ap.exit
           /\ aq.overlapped = ap.overlapped /\ aq.unrecorded = ap.unrecorded /\ aq.late = ap.late
           /\ ap.state = "running" /\ Quiet(ap) => Quiet(aq)
<1>1. /\ aq \in AdapterProcess /\ aq.exit = ap.exit
      /\ aq.state = "stopping" /\ aq.process = ap.process /\ aq.pidfile = ap.pidfile
      /\ aq.restarts = ap.restarts /\ aq.revived = ap.revived
      /\ aq.overlapped = ap.overlapped /\ aq.unrecorded = ap.unrecorded /\ aq.late = ap.late
  BY DEF Sound, AdapterProcess
<1>2. Sound(aq)
  BY <1>1 DEF Sound
<1> QED
  BY <1>1, <1>2 DEF Grown, Quiet, Counted

LEMMA AdapterStopped ==
    ASSUME NEW ap, Sound(ap)
    PROVE  /\ Grown(ap, Stopped(ap)) /\ Counted(ap, Stopped(ap))
           /\ Stopped(ap).state = "stopped" /\ Stopped(ap).exit = ap.exit
           /\ Stopped(ap).overlapped = ap.overlapped /\ Stopped(ap).unrecorded = ap.unrecorded
           /\ Stopped(ap).late = ap.late
<1> DEFINE aq == Stopped(ap)
<1>0. aq = [ap EXCEPT !.state = "stopped", !.process = 0, !.pidfile = 0]
  BY DEF Stopped, None
<1> HIDE DEF aq
<1>1. /\ aq \in AdapterProcess /\ aq.exit = ap.exit
      /\ aq.state = "stopped" /\ aq.process = 0 /\ aq.pidfile = 0
      /\ aq.restarts = ap.restarts /\ aq.revived = ap.revived
      /\ aq.overlapped = ap.overlapped /\ aq.unrecorded = ap.unrecorded /\ aq.late = ap.late
  BY <1>0 DEF Sound, AdapterProcess
<1>2. Sound(aq)
  BY <1>1, AdapterFields DEF Sound
<1> QED
  BY <1>1, <1>2, AdapterFields DEF Grown, Counted, aq

\* History of an adapter that somebody or the supervisor started.
LEMMA AdapterMarked ==
    ASSUME NEW ap, Sound(ap), NEW mark \in BOOLEAN, ap.late => mark,
           NEW aq, aq = [ap EXCEPT !.late = mark]
    PROVE  /\ Grown(ap, aq) /\ Counted(ap, aq) /\ Kept(ap, aq)
           /\ aq.state = ap.state /\ aq.late = mark
<1>1. /\ aq \in AdapterProcess /\ aq.exit = ap.exit
      /\ aq.state = ap.state /\ aq.process = ap.process /\ aq.pidfile = ap.pidfile
      /\ aq.restarts = ap.restarts /\ aq.revived = ap.revived
      /\ aq.overlapped = ap.overlapped /\ aq.unrecorded = ap.unrecorded /\ aq.late = mark
  BY DEF Sound, AdapterProcess
<1>2. Sound(aq)
  BY <1>1 DEF Sound
<1> QED
  BY <1>1, <1>2 DEF Grown, Kept, Quiet, Counted

LEMMA AdapterCount ==
    ASSUME NEW ap, Sound(ap), ap.state = "running"
    PROVE  Count(ap) \in 1 .. Len(ap.exit)
BY AdapterFields DEF Count, Sound

\* The supervisor notices that the process of a running adapter ended.
LEMMA AdapterNoticed ==
    ASSUME NEW a \in Adapters, NEW ap, Sound(ap), Exited(ap)
    PROVE  LET aq == Noticed(a, ap) IN
           /\ Grown(ap, aq) /\ Kept(ap, aq) /\ aq.state # "running"
           /\ ShouldRestart(a, ap) /\ Count(ap) <= MaxRestarts => Promised(aq)
<1> DEFINE aq == Noticed(a, ap)
           counted == IF ShouldRestart(a, ap) THEN Count(ap) ELSE ap.restarts
           marked == IF ShouldRestart(a, ap) THEN "open" ELSE ap.window
           revivals == IF ShouldRestart(a, ap) /\ ap.window # "open" THEN 0 ELSE ap.revived
           final == IF ShouldRestart(a, ap) /\ Count(ap) > MaxRestarts THEN "failed" ELSE "stopped"
<1>1. aq = [ap EXCEPT !.state = final, !.pidfile = 0, !.restarts = counted,
                      !.window = marked, !.revived = revivals]
  <2>1. CASE ~ShouldRestart(a, ap)
    BY <2>1 DEF Noticed, None, Sound, AdapterProcess
  <2>2. CASE ShouldRestart(a, ap)
    BY <2>2 DEF Noticed, None, Sound, AdapterProcess
  <2> QED
    BY <2>1, <2>2
<1>2. /\ ap.exit \in Seq(Codes) /\ Len(ap.exit) \in Nat /\ ap.restarts \in Nat /\ ap.revived \in Nat
      /\ ap.process \in 0 .. Len(ap.exit) /\ ap.state = "running"
      /\ ap.revived <= ap.restarts /\ ap.revived <= MaxRestarts
      /\ Count(ap) \in 1 .. Len(ap.exit) /\ ap.restarts < Len(ap.exit)
      /\ (ap.window = "open" => Count(ap) = ap.restarts + 1)
      /\ ap.process # 0 /\ ap.process = Len(ap.exit) /\ ap.exit[ap.process] # "alive"
  BY AdapterFields, AdapterCount DEF Exited, Sound, Count, None
<1>3. counted \in 1 .. Len(ap.exit) \/ counted = ap.restarts
  BY <1>2
<1>4. /\ revivals \in Nat /\ revivals <= MaxRestarts /\ revivals <= counted
      /\ ShouldRestart(a, ap) => revivals < counted /\ counted = Count(ap)
  <2>1. CASE ShouldRestart(a, ap) /\ ap.window = "open"
    BY <1>2, <2>1, AdapterConstants
  <2>2. CASE ShouldRestart(a, ap) /\ ap.window # "open"
    BY <1>2, <2>2, AdapterConstants
  <2>3. CASE ~ShouldRestart(a, ap)
    BY <1>2, <2>3
  <2> QED
    BY <2>1, <2>2, <2>3
<1>5. final \in {"failed", "stopped"} /\ marked \in {"none", "open", "passed"}
  BY DEF Sound, AdapterProcess
<1> HIDE DEF aq, counted, marked, revivals, final
<1>6. /\ aq \in AdapterProcess /\ aq.exit = ap.exit
      /\ aq.state = final /\ aq.process = ap.process /\ aq.pidfile = 0
      /\ aq.restarts = counted /\ aq.revived = revivals
      /\ aq.overlapped = ap.overlapped /\ aq.unrecorded = ap.unrecorded /\ aq.late = ap.late
  <2>1. counted \in Nat
    BY <1>2, <1>3
  <2> QED
    BY <1>1, <1>4, <1>5, <2>1 DEF Sound, AdapterProcess
<1>7. Sound(aq)
  BY <1>2, <1>3, <1>4, <1>5, <1>6 DEF Sound
<1>8. Quiet(ap) => Quiet(aq)
  BY <1>2, <1>6 DEF Quiet
<1>9. Grown(ap, aq) /\ Kept(ap, aq)
  BY <1>2, <1>5, <1>6, <1>7, <1>8 DEF Grown, Kept
<1>10. aq.state # "running"
  BY <1>5, <1>6
<1>11. ShouldRestart(a, ap) /\ Count(ap) <= MaxRestarts => Promised(aq)
  BY <1>4, <1>6 DEF Promised
<1> QED
  BY <1>9, <1>10, <1>11 DEF aq

\* What start_adapter does: nothing, or an attempt with or without a process.
LEMMA AdapterSpawned ==
    ASSUME NEW ap, Sound(ap), ap.state # "running", NEW recorded \in BOOLEAN
    PROVE  LET aq == Spawned(ap, recorded) IN
           /\ Sound(aq) /\ Counted(ap, aq) /\ Len(aq.exit) = Len(ap.exit) + 1
           /\ \A n \in 1 .. Len(ap.exit) : aq.exit[n] = ap.exit[n]
           /\ aq.process = Len(aq.exit)
           /\ aq.state = (IF recorded THEN "running" ELSE "failed")
           /\ aq.overlapped = ap.overlapped /\ aq.late = ap.late
           /\ aq.unrecorded <=> ap.unrecorded \/ ~recorded
<1> DEFINE aq == Spawned(ap, recorded)
           n == Len(ap.exit) + 1
           e == Append(ap.exit, "alive")
           last == IF recorded THEN "running" ELSE "failed"
           file == IF recorded THEN n ELSE ap.pidfile
           missing == ap.unrecorded \/ ~recorded
<1>1. aq = [ap EXCEPT !.exit = e, !.process = n, !.state = last, !.pidfile = file,
                      !.unrecorded = missing]
  BY DEF Spawned
<1>2. /\ e \in Seq(Codes) /\ Len(e) = n /\ n \in Nat /\ Len(ap.exit) \in Nat
      /\ \A m \in 1 .. Len(ap.exit) : e[m] = ap.exit[m]
  BY AdapterFields DEF Codes
<1>3. last \in {"running", "failed"} /\ file \in 0 .. n /\ (last = "running" => file = n)
  BY <1>2 DEF Sound
<1>4. missing \in BOOLEAN /\ last = (IF recorded THEN "running" ELSE "failed")
      /\ (missing <=> ap.unrecorded \/ ~recorded)
  OBVIOUS
<1> HIDE DEF aq, e, last, file, missing
<1>5. /\ aq \in AdapterProcess /\ aq.exit = e
      /\ aq.state = last /\ aq.process = n /\ aq.pidfile = file
      /\ aq.restarts = ap.restarts /\ aq.revived = ap.revived
      /\ aq.overlapped = ap.overlapped /\ aq.unrecorded = missing /\ aq.late = ap.late
  <2>1. file \in Nat
    BY <1>2, <1>3
  <2> QED
    BY <1>1, <1>2, <1>3, <1>4, <2>1 DEF Sound, AdapterProcess, Codes
<1>6. Sound(aq)
  BY <1>2, <1>3, <1>5 DEF Sound
<1> QED
  BY <1>2, <1>4, <1>5, <1>6 DEF aq, Counted

LEMMA AdapterStarted ==
    ASSUME NEW a \in Adapters, NEW ap, Sound(ap), NEW aq \in Started(a, ap)
    PROVE  /\ Grown(ap, aq) /\ Kept(ap, aq) /\ Counted(ap, aq) /\ aq.late = ap.late
           /\ aq.state = "running" => ap.state = "running" \/ aq # ap
<1>1. CASE ap.state \in {"running", "disabled"}
  <2>1. aq = ap
    BY <1>1 DEF Started
  <2> QED
    BY <1>1, <2>1, AdapterStays
<1>2. CASE ap.state \notin {"running", "disabled"}
  <2> DEFINE seen == [ap EXCEPT !.overlapped = @ \/ ap.state = "stopping"]
             mark == ap.overlapped \/ ap.state = "stopping"
  <2>1. seen = [ap EXCEPT !.overlapped = mark] /\ mark \in BOOLEAN
    OBVIOUS
  <2>2. \/ aq = [seen EXCEPT !.state = "failed"]
        \/ \E recorded \in BOOLEAN : aq = Spawned(seen, recorded)
    BY <1>2 DEF Started
  <2> HIDE DEF seen
  <2>3. /\ seen \in AdapterProcess /\ seen.exit = ap.exit
        /\ seen.state = ap.state /\ seen.process = ap.process /\ seen.pidfile = ap.pidfile
        /\ seen.restarts = ap.restarts /\ seen.revived = ap.revived
        /\ seen.overlapped = mark /\ seen.unrecorded = ap.unrecorded /\ seen.late = ap.late
    BY <2>1 DEF Sound, AdapterProcess
  <2>4. Sound(seen) /\ Len(ap.exit) \in Nat
    BY <2>3, AdapterFields DEF Sound
  <2>5. ~mark => ~ap.overlapped /\ ap.state # "stopping"
    OBVIOUS
  <2> HIDE DEF mark
  <2>6. CASE aq = [seen EXCEPT !.state = "failed"]
    <3>1. /\ aq \in AdapterProcess /\ aq.exit = ap.exit
          /\ aq.state = "failed" /\ aq.process = ap.process /\ aq.pidfile = ap.pidfile
          /\ aq.restarts = ap.restarts /\ aq.revived = ap.revived
          /\ aq.overlapped = mark /\ aq.unrecorded = ap.unrecorded /\ aq.late = ap.late
      BY <2>3, <2>6 DEF Sound, AdapterProcess
    <3>2. Sound(aq)
      BY <2>4, <3>1 DEF Sound
    <3>3. ~mark => (Quiet(ap) => Quiet(aq))
      BY <1>2, <2>5, <3>1 DEF Quiet
    <3> QED
      BY <2>4, <2>5, <3>1, <3>2, <3>3 DEF Grown, Kept, Counted
  <2>7. CASE \E recorded \in BOOLEAN : aq = Spawned(seen, recorded)
    <3>1. PICK recorded \in BOOLEAN : aq = Spawned(seen, recorded)
      BY <2>7
    <3>2. /\ Sound(aq) /\ Counted(seen, aq) /\ Len(aq.exit) = Len(ap.exit) + 1
          /\ \A n \in 1 .. Len(ap.exit) : aq.exit[n] = ap.exit[n]
          /\ aq.process = Len(aq.exit)
          /\ aq.state = (IF recorded THEN "running" ELSE "failed")
          /\ aq.overlapped = mark /\ aq.late = ap.late
          /\ aq.unrecorded <=> ap.unrecorded \/ ~recorded
      BY <1>2, <2>3, <2>4, <3>1, AdapterSpawned
    <3>3. ASSUME ~mark, ~aq.unrecorded, Quiet(ap) PROVE Quiet(aq)
      <4>1. aq.state = "running" /\ \A n \in 1 .. Len(ap.exit) : aq.exit[n] # "alive"
        BY <1>2, <2>5, <3>2, <3>3 DEF Quiet
      <4>2. \A n \in 1 .. Len(aq.exit) : n \in 1 .. Len(ap.exit) \/ n = aq.process
        BY <2>4, <3>2
      <4> QED
        BY <4>1, <4>2 DEF Quiet
    <3>4. Grown(ap, aq)
      BY <2>4, <3>2 DEF Grown
    <3>5. Kept(ap, aq)
      BY <2>5, <3>2, <3>3 DEF Kept
    <3>6. Counted(ap, aq)
      BY <2>3, <3>2 DEF Counted
    <3>7. aq # ap
      BY <2>4, <3>2
    <3> QED
      BY <3>2, <3>4, <3>5, <3>6, <3>7
  <2> QED
    BY <2>2, <2>6, <2>7
<1> QED
  BY <1>1, <1>2

LEMMA AdapterRevived ==
    ASSUME NEW a \in Adapters, NEW ap, Sound(ap), Promised(ap), NEW aq \in Started(a, ap)
    PROVE  Grown(ap, Revived(ap, aq)) /\ Kept(ap, Revived(ap, aq))
<1>1. Grown(ap, aq) /\ Kept(ap, aq) /\ Counted(ap, aq)
  BY AdapterStarted
<1>2. CASE Len(aq.exit) = Len(ap.exit)
  BY <1>1, <1>2 DEF Revived
<1>3. CASE Len(aq.exit) # Len(ap.exit)
  <2> DEFINE more == aq.revived + 1
             ar == [aq EXCEPT !.revived = more]
  <2>1. Revived(ap, aq) = ar
    BY <1>3 DEF Revived
  <2>2. /\ Sound(aq) /\ aq.revived = ap.revived /\ aq.restarts = ap.restarts
        /\ aq.revived \in Nat /\ aq.restarts \in Nat
    BY <1>1, AdapterFields DEF Grown, Counted
  <2>4. more \in Nat /\ more <= aq.restarts /\ more <= MaxRestarts
    BY <2>2, AdapterConstants DEF Promised
  <2> HIDE DEF more
  <2>3. /\ ar \in AdapterProcess /\ ar.exit = aq.exit
        /\ ar.state = aq.state /\ ar.process = aq.process /\ ar.pidfile = aq.pidfile
        /\ ar.restarts = aq.restarts /\ ar.revived = more
        /\ ar.overlapped = aq.overlapped /\ ar.unrecorded = aq.unrecorded /\ ar.late = aq.late
    BY <2>2, <2>4 DEF Sound, AdapterProcess
  <2> HIDE DEF ar
  <2>5. Sound(ar)
    BY <2>2, <2>3, <2>4 DEF Sound
  <2>6. Grown(ap, ar)
    BY <1>1, <2>3, <2>5 DEF Grown
  <2>7. Kept(ap, ar)
    BY <1>1, <2>3 DEF Kept, Quiet
  <2> QED
    BY <2>1, <2>6, <2>7
<1> QED
  BY <1>2, <1>3

LEMMA AdapterTwice ==
    ASSUME NEW ap, NEW aq, NEW ar, Sound(ap), Grown(ap, aq), Grown(aq, ar), Kept(ap, aq), Kept(aq, ar)
    PROVE  Grown(ap, ar) /\ Kept(ap, ar)
<1>1. Len(ap.exit) \in Nat /\ Len(aq.exit) \in Nat /\ Len(ar.exit) \in Nat
  BY AdapterFields DEF Grown
<1>2. Grown(ap, ar)
  BY <1>1 DEF Grown
<1>3. Kept(ap, ar)
  BY DEF Kept
<1> QED
  BY <1>2, <1>3

----------------------------------------------------------------------------
(* The adapters, their callers and the stop of the manager together *)

\* A stop that caller c waits for.
StopOf(c, a) == caller[c].at \in {"wait", "killed"} /\ caller[c].on = a

AdaptersSound == adapters = [a \in Adapters |-> adapters[a]] /\ \A a \in Adapters : Sound(adapters[a])

\* What one caller does: one that killed a process waits for the end of one
\* that no longer lives.
CallSound(c) ==
    /\ caller[c] \in CallStates
    /\ caller[c].at \in {"wait", "killed", "pause"} => caller[c].on \in Adapters
    /\ caller[c].at = "pause" => caller[c].job = "restart"
    /\ caller[c].at = "killed" =>
         /\ caller[c].proc \in 1 .. Len(adapters[caller[c].on].exit)
         /\ adapters[caller[c].on].exit[caller[c].proc] # "alive"
CallsSound == caller = [c \in Callers |-> caller[c]] /\ \A c \in Callers : CallSound(c)

\* An adapter that was not started during a stop of it: one caller waits for its
\* process while it is stopping, and for no other adapter's; and it has no process
\* besides, if all were recorded.
Settled(a) ==
    ~adapters[a].overlapped =>
        /\ ~adapters[a].unrecorded => Quiet(adapters[a])
        /\ \A c \in Callers : StopOf(c, a) =>
             adapters[a].state = "stopping" /\ caller[c].proc = adapters[a].process
        /\ \A c, d \in Callers : StopOf(c, a) /\ StopOf(d, a) => c = d
        /\ adapters[a].state = "stopping" => \E c \in Callers : StopOf(c, a)

DelaySound == delayed \in Adapters \cup {None} /\ (delayed # None => Promised(adapters[delayed]))

\* While the manager's stop is under way one caller carries it out; the adapters it
\* has been through run only if somebody started them since.
DownSound ==
    /\ down \in {"up", "stopping", "done"}
    /\ \A c \in Callers : caller[c].job = "shutdown" => down = "stopping"
    /\ \A c, d \in Callers : caller[c].job = "shutdown" /\ caller[d].job = "shutdown" => c = d
    /\ \A c \in Callers : caller[c].job = "shutdown" /\ caller[c].at # "none" =>
         \A b \in Adapters : b <= caller[c].on /\ adapters[b].state = "running" => adapters[b].late
    /\ down = "done" => \A b \in Adapters : adapters[b].state = "running" => adapters[b].late

AdaptersInv ==
    /\ AdaptersSound /\ CallsSound /\ DelaySound /\ DownSound
    /\ \A a \in Adapters : Settled(a)

AllGrow == \A a \in Adapters : Grown(adapters[a], adapters'[a])
AllKept == \A a \in Adapters : Kept(adapters[a], adapters'[a])

LEMMA SettledWhenKept ==
    ASSUME \A a \in Adapters : Settled(a), AllKept,
           \A c \in Callers, a \in Adapters : StopOf(c, a)' <=> StopOf(c, a),
           \A c \in Callers, a \in Adapters : StopOf(c, a) => caller'[c].proc = caller[c].proc
    PROVE  \A a \in Adapters : Settled(a)'
<1> SUFFICES ASSUME NEW a \in Adapters, ~adapters'[a].overlapped
             PROVE  Settled(a)'
  BY DEF Settled
<1>1. Settled(a) /\ Kept(adapters[a], adapters'[a]) /\ ~adapters[a].overlapped
  BY DEF AllKept, Kept
<1>2. ~adapters'[a].unrecorded => Quiet(adapters'[a])
  BY <1>1 DEF Settled, Kept
<1>3. \A c \in Callers : StopOf(c, a)' =>
         adapters'[a].state = "stopping" /\ caller'[c].proc = adapters'[a].process
  BY <1>1 DEF Settled, Kept
<1>4. adapters'[a].state = "stopping" => \E c \in Callers : StopOf(c, a)'
  BY <1>1 DEF Settled, Kept
<1>5. \A c, d \in Callers : StopOf(c, a)' /\ StopOf(d, a)' => c = d
  BY <1>1 DEF Settled
<1>6. Quiet(adapters[a])' <=> Quiet(adapters'[a])
  BY DEF Quiet
<1> QED
  BY <1>2, <1>3, <1>4, <1>5, <1>6 DEF Settled

\* A caller goes from one stop to another or to none: the adapter it waited for is
\* stopped, the next one was running and is stopping.
LEMMA SettledWhenStopped ==
    ASSUME \A a \in Adapters : Settled(a), AdaptersSound, NEW c \in Callers,
           \A d \in Callers : d # c => caller'[d] = caller[d],
           \A a \in Adapters : StopOf(c, a) =>
               /\ adapters'[a] = Stopped(adapters[a]) /\ ~StopOf(c, a)'
               /\ ~Alive(adapters[a], caller[c].proc),
           \A a \in Adapters : StopOf(c, a)' =>
               /\ adapters[a].state = "running"
               /\ adapters'[a] = [adapters[a] EXCEPT !.state = "stopping"]
               /\ caller'[c].proc = adapters[a].process,
           \A a \in Adapters : ~StopOf(c, a) /\ ~StopOf(c, a)' => adapters'[a] = adapters[a]
    PROVE  \A a \in Adapters : Settled(a)'
<1> SUFFICES ASSUME NEW a \in Adapters
             PROVE  Settled(a)'
  OBVIOUS
<1>1. Settled(a) /\ Sound(adapters[a])
  BY DEF AdaptersSound
<1>2. \A d \in Callers : d # c => (StopOf(d, a)' <=> StopOf(d, a)) /\ caller'[d].proc = caller[d].proc
  BY DEF StopOf
<1>6. Quiet(adapters[a])' <=> Quiet(adapters'[a])
  BY DEF Quiet
<1>3. CASE StopOf(c, a)
  <2>1. /\ ~StopOf(c, a)' /\ ~Alive(adapters[a], caller[c].proc)
        /\ adapters'[a].state = "stopped" /\ adapters'[a].exit = adapters[a].exit
        /\ adapters'[a].overlapped = adapters[a].overlapped
        /\ adapters'[a].unrecorded = adapters[a].unrecorded
    BY <1>1, <1>3, AdapterStopped
  <2>2. ASSUME ~adapters[a].overlapped
        PROVE  /\ caller[c].proc = adapters[a].process
               /\ \A d \in Callers : ~StopOf(d, a)'
    BY <1>1, <1>2, <1>3, <2>1, <2>2 DEF Settled
  <2>3. ASSUME ~adapters[a].overlapped, Quiet(adapters[a]) PROVE Quiet(adapters'[a])
    <3>1. \A n \in 1 .. Len(adapters[a].exit) : adapters[a].exit[n] # "alive"
      BY <1>1, <2>1, <2>2, <2>3, AdapterFields DEF Quiet
    <3> QED
      BY <2>1, <3>1 DEF Quiet
  <2> QED
    BY <1>1, <1>6, <2>1, <2>2, <2>3 DEF Settled
<1>4. CASE StopOf(c, a)'
  <2>1. /\ adapters'[a].state = "stopping" /\ adapters'[a].process = adapters[a].process
        /\ adapters'[a].overlapped = adapters[a].overlapped
        /\ adapters'[a].unrecorded = adapters[a].unrecorded
        /\ Quiet(adapters[a]) => Quiet(adapters'[a])
    <3>1. adapters'[a] = [adapters[a] EXCEPT !.state = "stopping"] /\ adapters[a].state = "running"
      BY <1>4
    <3> QED
      BY <1>1, <3>1, AdapterStopping
  <2>2. ASSUME ~adapters[a].overlapped
        PROVE  \A d \in Callers : StopOf(d, a)' => d = c
    BY <1>1, <1>2, <1>4, <2>2 DEF Settled
  <2>3. caller'[c].proc = adapters'[a].process
    BY <1>4, <2>1
  <2> QED
    BY <1>1, <1>4, <1>6, <2>1, <2>2, <2>3 DEF Settled
<1>5. CASE ~StopOf(c, a) /\ ~StopOf(c, a)'
  <2>1. adapters'[a] = adapters[a]
    BY <1>5
  <2>2. \A d \in Callers : StopOf(d, a)' <=> StopOf(d, a)
    BY <1>2, <1>5
  <2>3. \A d \in Callers : StopOf(d, a) => caller'[d].proc = caller[d].proc
    BY <1>2, <1>5
  <2> QED
    BY <1>1, <1>6, <2>1, <2>2, <2>3 DEF Settled
<1> QED
  BY <1>3, <1>4, <1>5

LEMMA CallsWhenGrown ==
    ASSUME CallsSound, AdaptersSound, AllGrow, NEW c \in Callers, CallSound(c)',
           caller' = [caller EXCEPT ![c] = caller'[c]]
    PROVE  CallsSound'
<1>1. ASSUME NEW d \in Callers PROVE CallSound(d)'
  <2>1. CASE d = c
    BY <2>1
  <2>2. CASE d # c
    <3>1. caller'[d] = caller[d] /\ CallSound(d)
      BY <2>2 DEF CallsSound
    <3>2. CASE caller[d].at # "killed"
      BY <3>1, <3>2 DEF CallSound
    <3>3. CASE caller[d].at = "killed"
      <4> DEFINE a == caller[d].on
      <4>1. a \in Adapters
        BY <3>1, <3>3 DEF CallSound
      <4>2. Grown(adapters[a], adapters'[a]) /\ Sound(adapters[a]) /\ Sound(adapters'[a])
        BY <4>1 DEF AllGrow, AdaptersSound, Grown
      <4>3. Len(adapters[a].exit) \in Nat /\ Len(adapters'[a].exit) \in Nat
        BY <4>2, AdapterFields
      <4> HIDE DEF a
      <4>4. /\ caller[d].proc \in 1 .. Len(adapters'[a].exit)
            /\ adapters'[a].exit[caller[d].proc] # "alive"
        BY <3>1, <3>3, <4>2, <4>3, SMTT(30) DEF CallSound, Grown, a
      <4> QED
        BY <3>1, <3>3, <4>1, <4>4 DEF CallSound, a
    <3> QED
      BY <3>2, <3>3
  <2> QED
    BY <2>1, <2>2
<1>2. caller' = [d \in Callers |-> caller'[d]]
  BY DEF CallsSound
<1> QED
  BY <1>1, <1>2 DEF CallsSound

LEMMA CallsWhenStill ==
    ASSUME CallsSound, AdaptersSound, AllGrow, UNCHANGED caller
    PROVE  CallsSound'
<1>1. ASSUME NEW d \in Callers PROVE CallSound(d)'
  <2>1. caller'[d] = caller[d] /\ CallSound(d)
    BY DEF CallsSound
  <2>2. CASE caller[d].at # "killed"
    BY <2>1, <2>2 DEF CallSound
  <2>3. CASE caller[d].at = "killed"
    <3> DEFINE a == caller[d].on
    <3>1. a \in Adapters
      BY <2>1, <2>3 DEF CallSound
    <3>2. Grown(adapters[a], adapters'[a]) /\ Sound(adapters[a]) /\ Sound(adapters'[a])
      BY <3>1 DEF AllGrow, AdaptersSound, Grown
    <3>3. Len(adapters[a].exit) \in Nat /\ Len(adapters'[a].exit) \in Nat
      BY <3>2, AdapterFields
    <3> HIDE DEF a
    <3>4. /\ caller[d].proc \in 1 .. Len(adapters'[a].exit)
          /\ adapters'[a].exit[caller[d].proc] # "alive"
      BY <2>1, <2>3, <3>2, <3>3, SMTT(30) DEF CallSound, Grown, a
    <3> QED
      BY <2>1, <2>3, <3>1, <3>4 DEF CallSound, a
  <2> QED
    BY <2>2, <2>3
<1> QED
  BY <1>1 DEF CallsSound

LEMMA DownWhenKept ==
    ASSUME DownSound, AllGrow, UNCHANGED down,
           \A a \in Adapters : adapters'[a].state = "running" =>
               adapters[a].state = "running" \/ adapters'[a].late \/ down = "up",
           \A c \in Callers : caller'[c].job = "shutdown" =>
               /\ caller[c].job = "shutdown" /\ caller'[c].on = caller[c].on
               /\ caller'[c].at # "none" => caller[c].at # "none"
    PROVE  DownSound'
<1>1. ASSUME NEW a \in Adapters, down # "up", adapters'[a].state = "running"
      PROVE  adapters'[a].late \/ (adapters[a].state = "running" /\ ~adapters[a].late)
  BY <1>1 DEF AllGrow, Grown
<1>2. \A c \in Callers : caller'[c].job = "shutdown" => down' = "stopping"
  BY DEF DownSound
<1>3. ASSUME NEW c \in Callers, caller'[c].job = "shutdown", caller'[c].at # "none",
             NEW b \in Adapters, b <= caller'[c].on, adapters'[b].state = "running"
      PROVE  adapters'[b].late
  <2>1. /\ caller[c].job = "shutdown" /\ caller'[c].on = caller[c].on /\ caller[c].at # "none"
        /\ down # "up"
    BY <1>3 DEF DownSound
  <2>2. adapters[b].state = "running" => adapters[b].late
    BY <1>3, <2>1 DEF DownSound
  <2> QED
    BY <1>1, <1>3, <2>1, <2>2
<1>4. ASSUME down' = "done", NEW b \in Adapters, adapters'[b].state = "running"
      PROVE  adapters'[b].late
  BY <1>1, <1>4 DEF DownSound
<1>5. down' \in {"up", "stopping", "done"}
  BY DEF DownSound
<1>6. \A c, d \in Callers : caller'[c].job = "shutdown" /\ caller'[d].job = "shutdown" => c = d
  BY DEF DownSound
<1> QED
  BY <1>2, <1>3, <1>4, <1>5, <1>6 DEF DownSound

----------------------------------------------------------------------------
(* The steps *)

LEMMA LeastAdapter ==
    ASSUME NEW T \in SUBSET Adapters, T # {}
    PROVE  Min(T) \in T /\ \A a \in T : Min(T) <= a
<1> DEFINE Less == {ss \in Nat \X Nat : ss[1] < ss[2]}
<1>1. T \in SUBSET Nat
  BY AdapterConstants DEF Adapters
<1>2. IsWellFoundedOn(Less, Nat)
  BY NatLessThanWellFounded DEF OpToRel
<1>3. PICK n \in T : \A m \in T : ~(<<m, n>> \in Less)
  BY <1>1, <1>2, WFMin
<1>4. \A m \in T : n <= m
  <2> SUFFICES ASSUME NEW m \in T PROVE n <= m
    OBVIOUS
  <2>1. m \in Nat /\ n \in Nat /\ ~(m < n)
    BY <1>1, <1>3
  <2> QED
    BY <2>1
<1> QED
  BY <1>3, <1>4 DEF Min

\* The parts of the invariant after a step.
LEMMA AdaptersParts ==
    ASSUME AdaptersSound', CallsSound', DelaySound', DownSound', \A a \in Adapters : Settled(a)'
    PROVE  AdaptersInv'
BY DEF AdaptersInv

LEMMA SoundWhenGrown ==
    ASSUME AllGrow, adapters' = [a \in Adapters |-> adapters'[a]]
    PROVE  AdaptersSound'
<1>1. \A a \in Adapters : Sound(adapters'[a])
  BY DEF AllGrow, Grown
<1>2. \A a \in Adapters : Sound(adapters[a])' <=> Sound(adapters'[a])
  BY DEF Sound
<1> QED
  BY <1>1, <1>2 DEF AdaptersSound

\* One adapter changes, in a way that keeps the supervisor's count.
LEMMA OneChanges ==
    ASSUME AdaptersSound, DelaySound, NEW a \in Adapters, NEW aq,
           Grown(adapters[a], aq), Counted(adapters[a], aq),
           adapters' = [adapters EXCEPT ![a] = aq], UNCHANGED delayed
    PROVE  /\ AllGrow /\ AdaptersSound' /\ DelaySound'
           /\ adapters'[a] = aq /\ \A b \in Adapters : b # a => adapters'[b] = adapters[b]
           /\ Kept(adapters[a], aq) => AllKept
<1>1. /\ adapters' = [b \in Adapters |-> adapters'[b]] /\ adapters'[a] = aq
      /\ \A b \in Adapters : b # a => adapters'[b] = adapters[b]
  BY DEF AdaptersSound
<1>2. \A b \in Adapters : Sound(adapters[b])
  BY DEF AdaptersSound
<1>3. AllGrow
  BY <1>1, <1>2, AdapterStays DEF AllGrow
<1>4. Kept(adapters[a], aq) => AllKept
  BY <1>1, <1>2, AdapterStays DEF AllKept
<1>5. DelaySound'
  BY <1>1 DEF DelaySound, Counted, Promised
<1>6. AdaptersSound'
  BY <1>1, <1>3, SoundWhenGrown
<1> QED
  BY <1>1, <1>3, <1>4, <1>5, <1>6

LEMMA NoneChanges ==
    ASSUME AdaptersSound, UNCHANGED adapters
    PROVE  AllGrow /\ AllKept /\ AdaptersSound'
<1>1. AllGrow /\ AllKept
  BY AdapterStays DEF AllGrow, AllKept, AdaptersSound
<1> QED
  BY <1>1, SoundWhenGrown DEF AdaptersSound

LEMMA AdapterAlone ==
    ASSUME AdaptersInv, NEW a \in Adapters, ProcessExits(a) \/ WindowPasses(a)
    PROVE  AdaptersInv'
<1> USE DEF AdaptersInv
<1>1. Sound(adapters[a]) /\ DOMAIN adapters = Adapters
  BY DEF AdaptersSound
<1>2. UNCHANGED <<delayed, caller, down>>
  BY DEF ProcessExits, WindowPasses
<1>3. PICK aq : /\ adapters' = [adapters EXCEPT ![a] = aq]
                /\ Grown(adapters[a], aq) /\ Kept(adapters[a], aq) /\ Counted(adapters[a], aq)
                /\ aq.state = adapters[a].state
  <2>1. CASE ProcessExits(a)
    <3>1. PICK n \in DOMAIN adapters[a].exit, code \in {"ok", "failed"} :
             adapters' = [adapters EXCEPT ![a].exit[n] = code]
      BY <2>1 DEF ProcessExits
    <3> DEFINE aq == [adapters[a] EXCEPT !.exit[n] = code]
    <3>2. adapters' = [adapters EXCEPT ![a] = aq]
      BY <3>1
    <3>3. n \in 1 .. Len(adapters[a].exit)
      BY <1>1, AdapterFields
    <3>4. /\ Grown(adapters[a], aq) /\ Kept(adapters[a], aq) /\ Counted(adapters[a], aq)
          /\ aq.state = adapters[a].state
      BY <1>1, <3>3, AdapterExits
    <3> HIDE DEF aq
    <3> QED
      BY <3>2, <3>4
  <2>2. CASE WindowPasses(a)
    <3>1. adapters' = [adapters EXCEPT ![a] = [adapters[a] EXCEPT !.window = "passed"]]
      BY <2>2 DEF WindowPasses
    <3> QED
      BY <1>1, <3>1, AdapterWindow
  <2> QED
    BY <2>1, <2>2
<1>4. /\ AllGrow /\ AllKept /\ AdaptersSound' /\ DelaySound'
      /\ \A b \in Adapters : adapters'[b].state = adapters[b].state
  <2>1. /\ AllGrow /\ AllKept /\ AdaptersSound' /\ DelaySound' /\ adapters'[a] = aq
        /\ \A b \in Adapters : b # a => adapters'[b] = adapters[b]
    BY <1>2, <1>3, OneChanges
  <2> QED
    BY <1>3, <2>1
<1>5. CallsSound'
  BY <1>2, <1>4, CallsWhenStill
<1>6. DownSound'
  BY <1>2, <1>4, DownWhenKept
<1>7. \A b \in Adapters : Settled(b)'
  BY <1>2, <1>4, SettledWhenKept DEF StopOf
<1> QED
  BY <1>4, <1>5, <1>6, <1>7, AdaptersParts

\* The supervisor goes through the adapters from i on, until one is due.
LEMMA ScanGrows ==
    ASSUME AdaptersSound, NEW i \in Nat, i >= 1, NEW aps, aps = [a \in Adapters |-> aps[a]],
           \A a \in Adapters : Grown(adapters[a], aps[a]) /\ Kept(adapters[a], aps[a]),
           \A a \in Adapters : a >= i => aps[a] = adapters[a],
           Scan(i, aps)
    PROVE  AllGrow /\ AllKept /\ AdaptersSound' /\ DelaySound'
<1> DEFINE due == Due(i, aps)
           last == IF due = {} THEN NumAdapters ELSE Min(due)
<1>1. /\ adapters' = [a \in Adapters |->
                        IF a \in i..last /\ Exited(aps[a]) THEN Noticed(a, aps[a]) ELSE aps[a]]
      /\ delayed' = IF due = {} THEN None ELSE last
  BY DEF Scan
<1>2. due \in SUBSET Adapters
  <2>1. i .. NumAdapters \subseteq Adapters
    BY AdapterConstants DEF Adapters
  <2> QED
    BY <2>1 DEF Due
<1>3. due # {} => /\ last \in due /\ last \in Adapters
  BY <1>2, LeastAdapter
<1>4. \A a \in Adapters : Sound(aps[a])
  BY DEF Grown
<1>5. ASSUME NEW a \in Adapters
      PROVE  Grown(adapters[a], adapters'[a]) /\ Kept(adapters[a], adapters'[a])
  <2>1. CASE a \in i..last /\ Exited(aps[a])
    <3>0. a \in Nat
      BY DEF Adapters
    <3>1. a >= i
      BY <2>1, <3>0
    <3>2. aps[a] = adapters[a] /\ adapters'[a] = Noticed(a, adapters[a])
      BY <1>1, <2>1, <3>1
    <3> QED
      BY <1>4, <2>1, <3>2, AdapterNoticed
  <2>2. CASE ~(a \in i..last /\ Exited(aps[a]))
    <3>1. adapters'[a] = aps[a]
      BY <1>1, <2>2
    <3> QED
      BY <3>1
  <2> QED
    BY <2>1, <2>2
<1>6. AllGrow /\ AllKept
  BY <1>5 DEF AllGrow, AllKept
<1>7. AdaptersSound'
  BY <1>1, <1>6, SoundWhenGrown
<1>8. DelaySound'
  <2>1. CASE due = {}
    BY <1>1, <2>1 DEF DelaySound
  <2>2. CASE due # {}
    <3>1. /\ delayed' = last /\ last \in i .. NumAdapters /\ Exited(aps[last])
          /\ ShouldRestart(last, aps[last]) /\ Count(aps[last]) <= MaxRestarts
      BY <1>1, <1>3, <2>2 DEF Due
    <3>2. last \in i .. last
      BY <3>1, AdapterConstants
    <3>3. adapters'[last] = Noticed(last, aps[last])
      BY <1>1, <1>3, <2>2, <3>1, <3>2
    <3>4. Promised(adapters'[last])
      BY <1>3, <1>4, <2>2, <3>1, <3>3, AdapterNoticed
    <3> QED
      BY <1>3, <2>2, <3>1, <3>4 DEF DelaySound, Promised
  <2> QED
    BY <2>1, <2>2
<1> QED
  BY <1>6, <1>7, <1>8

LEMMA AdapterSupervised ==
    ASSUME AdaptersInv, SupervisorWakes \/ \E a \in Adapters : SupervisorRestarts(a)
    PROVE  AdaptersInv'
<1> USE DEF AdaptersInv
<1>1. down = "up" /\ UNCHANGED <<caller, down>>
  BY DEF SupervisorWakes, SupervisorRestarts
<1>2. AllGrow /\ AllKept /\ AdaptersSound' /\ DelaySound'
  <2>1. CASE SupervisorWakes
    <3>1. Scan(1, adapters)
      BY <2>1 DEF SupervisorWakes
    <3>2. \A a \in Adapters : Grown(adapters[a], adapters[a]) /\ Kept(adapters[a], adapters[a])
      BY AdapterStays DEF AdaptersSound
    <3>3. adapters = [a \in Adapters |-> adapters[a]] /\ 1 \in Nat /\ 1 >= 1
      BY DEF AdaptersSound
    <3> QED
      BY <3>1, <3>2, <3>3, ScanGrows
  <2>2. CASE \E a \in Adapters : SupervisorRestarts(a)
    <3>1. PICK a \in Adapters : SupervisorRestarts(a)
      BY <2>2
    <3>2. PICK ap \in Started(a, adapters[a]) :
             Scan(a + 1, [adapters EXCEPT ![a] = Revived(adapters[a], ap)])
      BY <3>1 DEF SupervisorRestarts
    <3> DEFINE aps == [adapters EXCEPT ![a] = Revived(adapters[a], ap)]
    <3>3. delayed = a /\ a \in Nat /\ a # None /\ a >= 1
      BY <3>1 DEF SupervisorRestarts, Adapters, None
    <3>4. Sound(adapters[a]) /\ Promised(adapters[a])
      BY <3>3 DEF AdaptersSound, DelaySound
    <3>5. Grown(adapters[a], Revived(adapters[a], ap)) /\ Kept(adapters[a], Revived(adapters[a], ap))
      BY <3>4, AdapterRevived
    <3>6. aps = [b \in Adapters |-> aps[b]] /\ aps[a] = Revived(adapters[a], ap)
          /\ \A b \in Adapters : b # a => aps[b] = adapters[b]
      BY DEF AdaptersSound
    <3>7. \A b \in Adapters : Grown(adapters[b], aps[b]) /\ Kept(adapters[b], aps[b])
      BY <3>5, <3>6, AdapterStays DEF AdaptersSound
    <3>8. \A b \in Adapters : b >= a + 1 => aps[b] = adapters[b]
      BY <3>3, <3>6
    <3>9. a + 1 \in Nat /\ a + 1 >= 1 /\ Scan(a + 1, aps)
      BY <3>2, <3>3
    <3> HIDE DEF aps
    <3> QED
      BY <3>6, <3>7, <3>8, <3>9, ScanGrows
  <2> QED
    BY <2>1, <2>2
<1>3. CallsSound'
  BY <1>1, <1>2, CallsWhenStill
<1>4. DownSound'
  BY <1>1, <1>2, DownWhenKept
<1>5. \A b \in Adapters : Settled(b)'
  BY <1>1, <1>2, SettledWhenKept DEF StopOf
<1> QED
  BY <1>2, <1>3, <1>4, <1>5, AdaptersParts

\* A caller of start or restart starts an adapter; its history says whether after
\* the stop of the manager began.
LEMMA StartsLate ==
    ASSUME AdaptersSound, DelaySound, NEW a \in Adapters, NEW ap \in Started(a, adapters[a]),
           adapters' = [adapters EXCEPT ![a] =
                          [ap EXCEPT !.late = @ \/ (down # "up" /\ ap # adapters[a])]],
           UNCHANGED delayed
    PROVE  /\ AllGrow /\ AllKept /\ AdaptersSound' /\ DelaySound'
           /\ \A b \in Adapters : adapters'[b].state = "running" =>
                adapters[b].state = "running" \/ adapters'[b].late \/ down = "up"
<1> DEFINE mark == ap.late \/ (down # "up" /\ ap # adapters[a])
           aq == [ap EXCEPT !.late = mark]
<1>1. adapters' = [adapters EXCEPT ![a] = aq] /\ mark \in BOOLEAN /\ (ap.late => mark)
  OBVIOUS
<1>2. Sound(adapters[a])
  BY DEF AdaptersSound
<1>3. /\ Grown(adapters[a], ap) /\ Kept(adapters[a], ap) /\ Counted(adapters[a], ap)
      /\ ap.state = "running" => adapters[a].state = "running" \/ ap # adapters[a]
  BY <1>2, AdapterStarted
<1>4. Sound(ap)
  BY <1>3 DEF Grown
<1>5. adapters[a].state # "running" /\ ap.state = "running" => mark \/ down = "up"
  BY <1>3
<1> HIDE DEF mark
<1>6. /\ Grown(ap, aq) /\ Counted(ap, aq) /\ Kept(ap, aq)
      /\ aq.state = ap.state /\ aq.late = mark
  BY <1>1, <1>4, AdapterMarked
<1> HIDE DEF aq
<1>7. Grown(adapters[a], aq) /\ Kept(adapters[a], aq) /\ Counted(adapters[a], aq)
  <2>1. Grown(adapters[a], aq) /\ Kept(adapters[a], aq)
    BY <1>2, <1>3, <1>6, AdapterTwice
  <2> QED
    BY <1>3, <1>6, <2>1 DEF Counted
<1>8. /\ AllGrow /\ AllKept /\ AdaptersSound' /\ DelaySound' /\ adapters'[a] = aq
      /\ \A b \in Adapters : b # a => adapters'[b] = adapters[b]
  BY <1>1, <1>7, OneChanges
<1> QED
  BY <1>5, <1>6, <1>8

LEMMA NoCallSound == NoCall \in CallStates
BY DEF NoCall, CallStates, None

LEMMA AdapterCallStart ==
    ASSUME AdaptersInv, NEW c \in Callers, NEW a \in Adapters, CallStart(c, a)
    PROVE  AdaptersInv'
<1> USE DEF AdaptersInv
<1>1. UNCHANGED <<delayed, caller, down>>
  BY DEF CallStart
<1>2. PICK ap \in Started(a, adapters[a]) :
         adapters' = [adapters EXCEPT ![a] =
                        [ap EXCEPT !.late = @ \/ (down # "up" /\ ap # adapters[a])]]
  BY DEF CallStart
<1>3. /\ AllGrow /\ AllKept /\ AdaptersSound' /\ DelaySound'
      /\ \A b \in Adapters : adapters'[b].state = "running" =>
           adapters[b].state = "running" \/ adapters'[b].late \/ down = "up"
  BY <1>1, <1>2, StartsLate
<1>4. CallsSound'
  BY <1>1, <1>3, CallsWhenStill
<1>5. DownSound'
  BY <1>1, <1>3, DownWhenKept
<1>6. \A b \in Adapters : Settled(b)'
  BY <1>1, <1>3, SettledWhenKept DEF StopOf
<1> QED
  BY <1>3, <1>4, <1>5, <1>6, AdaptersParts

\* A caller changes alone.
LEMMA CallChanges ==
    ASSUME CallsSound, NEW c \in Callers, NEW rec, caller' = [caller EXCEPT ![c] = rec]
    PROVE  /\ caller'[c] = rec /\ caller' = [caller EXCEPT ![c] = caller'[c]]
           /\ \A d \in Callers : d # c => caller'[d] = caller[d]
           /\ caller' = [d \in Callers |-> caller'[d]]
BY DEF CallsSound

LEMMA AdapterRestartAfterPause ==
    ASSUME AdaptersInv, NEW c \in Callers, RestartAfterPause(c)
    PROVE  AdaptersInv'
<1> USE DEF AdaptersInv
<1>1. caller[c].at = "pause" /\ caller' = [caller EXCEPT ![c] = NoCall] /\ UNCHANGED <<delayed, down>>
  BY DEF RestartAfterPause
<1> DEFINE a == caller[c].on
<1>2. a \in Adapters /\ caller[c].job = "restart"
  BY <1>1 DEF CallsSound, CallSound
<1>3. PICK ap \in Started(a, adapters[a]) :
         adapters' = [adapters EXCEPT ![a] =
                        [ap EXCEPT !.late = @ \/ (down # "up" /\ ap # adapters[a])]]
  BY DEF RestartAfterPause
<1> HIDE DEF a
<1>4. /\ AllGrow /\ AllKept /\ AdaptersSound' /\ DelaySound'
      /\ \A b \in Adapters : adapters'[b].state = "running" =>
           adapters[b].state = "running" \/ adapters'[b].late \/ down = "up"
  BY <1>1, <1>2, <1>3, StartsLate
<1>5. /\ caller'[c] = NoCall /\ caller' = [caller EXCEPT ![c] = caller'[c]]
      /\ \A d \in Callers : d # c => caller'[d] = caller[d]
  BY <1>1, CallChanges
<1>6. NoCall.at = "none" /\ NoCall.job = "idle"
  BY DEF NoCall
<1>7. CallsSound'
  <2>1. CallSound(c)'
    BY <1>5, <1>6, NoCallSound DEF CallSound
  <2> QED
    BY <1>4, <1>5, <2>1, CallsWhenGrown
<1>8. DownSound'
  <2>1. \A d \in Callers : caller'[d].job = "shutdown" => caller'[d] = caller[d]
    BY <1>5, <1>6
  <2> QED
    BY <1>1, <1>4, <2>1, DownWhenKept
<1>9. \A b \in Adapters : Settled(b)'
  <2>1. \A d \in Callers, b \in Adapters : StopOf(d, b)' <=> StopOf(d, b)
    BY <1>1, <1>5, <1>6 DEF StopOf
  <2>2. \A d \in Callers, b \in Adapters : StopOf(d, b) => caller'[d].proc = caller[d].proc
    BY <1>1, <1>5 DEF StopOf
  <2> QED
    BY <1>4, <2>1, <2>2, SettledWhenKept
<1> QED
  BY <1>4, <1>7, <1>8, <1>9, AdaptersParts

LEMMA AdapterCallRestartOfStopped ==
    ASSUME AdaptersInv, NEW c \in Callers, NEW a \in Adapters, CallRestartOfStopped(c, a)
    PROVE  AdaptersInv'
<1> USE DEF AdaptersInv
<1> DEFINE rec == [job |-> "restart", on |-> a, at |-> "pause", proc |-> None]
<1>1. caller[c] = NoCall /\ caller' = [caller EXCEPT ![c] = rec] /\ UNCHANGED <<adapters, delayed, down>>
  BY DEF CallRestartOfStopped
<1>2. rec \in CallStates /\ rec.at = "pause" /\ rec.on = a /\ rec.job = "restart"
  BY DEF CallStates, None
<1> HIDE DEF rec
<1>3. /\ caller'[c] = rec /\ caller' = [caller EXCEPT ![c] = caller'[c]]
      /\ \A d \in Callers : d # c => caller'[d] = caller[d]
  BY <1>1, CallChanges
<1>4. AllGrow /\ AllKept /\ AdaptersSound'
  BY <1>1, NoneChanges
<1>5. CallsSound'
  <2>1. CallSound(c)'
    BY <1>2, <1>3 DEF CallSound
  <2> QED
    BY <1>3, <1>4, <2>1, CallsWhenGrown
<1>6. NoCall.at = "none" /\ NoCall.job = "idle"
  BY DEF NoCall
<1>7. DownSound'
  <2>1. \A d \in Callers : caller'[d].job = "shutdown" => caller'[d] = caller[d]
    BY <1>2, <1>3
  <2> QED
    BY <1>1, <1>4, <2>1, DownWhenKept
<1>8. \A b \in Adapters : Settled(b)'
  <2>1. \A d \in Callers, b \in Adapters : StopOf(d, b)' <=> StopOf(d, b)
    BY <1>1, <1>2, <1>3, <1>6 DEF StopOf
  <2>2. \A d \in Callers, b \in Adapters : StopOf(d, b) => caller'[d].proc = caller[d].proc
    BY <1>1, <1>3, <1>6 DEF StopOf
  <2> QED
    BY <1>4, <2>1, <2>2, SettledWhenKept
<1>9. DelaySound'
  BY <1>1 DEF DelaySound, Promised
<1> QED
  BY <1>4, <1>5, <1>7, <1>8, <1>9, AdaptersParts

LEMMA AdapterCallShutdown ==
    ASSUME AdaptersInv, NEW c \in Callers, CallShutdown(c)
    PROVE  AdaptersInv'
<1> USE DEF AdaptersInv
<1> DEFINE rec == [job |-> "shutdown", on |-> None, at |-> "none", proc |-> None]
<1>1. /\ caller[c] = NoCall /\ down = "up" /\ delayed' = None /\ down' = "stopping"
      /\ caller' = [caller EXCEPT ![c] = rec] /\ UNCHANGED adapters
  BY DEF CallShutdown
<1>2. rec \in CallStates /\ rec.at = "none" /\ rec.job = "shutdown"
  BY DEF CallStates, None
<1> HIDE DEF rec
<1>3. /\ caller'[c] = rec /\ caller' = [caller EXCEPT ![c] = caller'[c]]
      /\ \A d \in Callers : d # c => caller'[d] = caller[d]
  BY <1>1, CallChanges
<1>4. AllGrow /\ AllKept /\ AdaptersSound'
  BY <1>1, NoneChanges
<1>5. CallsSound'
  <2>1. CallSound(c)'
    BY <1>2, <1>3 DEF CallSound
  <2> QED
    BY <1>3, <1>4, <2>1, CallsWhenGrown
<1>6. NoCall.at = "none"
  BY DEF NoCall
<1>7. DownSound'
  <2>1. \A d \in Callers : d # c => caller'[d].job # "shutdown"
    BY <1>1, <1>3 DEF DownSound
  <2> QED
    BY <1>1, <1>2, <1>3, <2>1 DEF DownSound
<1>8. \A b \in Adapters : Settled(b)'
  <2>1. \A d \in Callers, b \in Adapters : StopOf(d, b)' <=> StopOf(d, b)
    BY <1>1, <1>2, <1>3, <1>6 DEF StopOf
  <2>2. \A d \in Callers, b \in Adapters : StopOf(d, b) => caller'[d].proc = caller[d].proc
    BY <1>1, <1>3, <1>6 DEF StopOf
  <2> QED
    BY <1>4, <2>1, <2>2, SettledWhenKept
<1>9. DelaySound'
  BY <1>1 DEF DelaySound
<1> QED
  BY <1>4, <1>5, <1>7, <1>8, <1>9, AdaptersParts

LEMMA AdapterStopKills ==
    ASSUME AdaptersInv, NEW c \in Callers, StopKills(c)
    PROVE  AdaptersInv'
<1> USE DEF AdaptersInv
<1> DEFINE a  == caller[c].on
           n  == caller[c].proc
           aq == [adapters[a] EXCEPT !.exit[n] = "failed"]
           rec == [caller[c] EXCEPT !.at = "killed"]
<1>1. /\ caller[c].at = "wait" /\ Alive(adapters[a], n)
      /\ adapters' = [adapters EXCEPT ![a] = aq] /\ caller' = [caller EXCEPT ![c] = rec]
      /\ UNCHANGED <<delayed, down>>
  BY DEF StopKills
<1>2. a \in Adapters /\ caller[c] \in CallStates
  BY <1>1 DEF CallsSound, CallSound
<1>3. Sound(adapters[a])
  BY <1>2 DEF AdaptersSound
<1>4. n \in 1 .. Len(adapters[a].exit)
  BY <1>1, <1>3, AdapterFields
<1>5. /\ Grown(adapters[a], aq) /\ Kept(adapters[a], aq) /\ Counted(adapters[a], aq)
      /\ aq.state = adapters[a].state /\ Len(aq.exit) = Len(adapters[a].exit) /\ aq.exit[n] # "alive"
  BY <1>3, <1>4, AdapterExits
<1>6. rec \in CallStates /\ rec.at = "killed" /\ rec.on = a /\ rec.proc = n /\ rec.job = caller[c].job
  BY <1>2 DEF CallStates
<1> HIDE DEF a, n, aq, rec
<1>7. /\ AllGrow /\ AllKept /\ AdaptersSound' /\ DelaySound' /\ adapters'[a] = aq
      /\ \A b \in Adapters : b # a => adapters'[b] = adapters[b]
  BY <1>1, <1>2, <1>5, OneChanges
<1>8. /\ caller'[c] = rec /\ caller' = [caller EXCEPT ![c] = caller'[c]]
      /\ \A d \in Callers : d # c => caller'[d] = caller[d]
  BY <1>1, CallChanges
<1>9. CallsSound'
  <2>1. CallSound(c)'
    BY <1>2, <1>4, <1>5, <1>6, <1>7, <1>8 DEF CallSound
  <2> QED
    BY <1>7, <1>8, <2>1, CallsWhenGrown
<1>10. DownSound'
  <2>1. \A b \in Adapters : adapters'[b].state = adapters[b].state
    BY <1>5, <1>7
  <2>2. \A d \in Callers : caller'[d].job = "shutdown" =>
           /\ caller[d].job = "shutdown" /\ caller'[d].on = caller[d].on
           /\ caller'[d].at # "none" => caller[d].at # "none"
    BY <1>1, <1>6, <1>8 DEF a
  <2> QED
    BY <1>1, <1>7, <2>1, <2>2, DownWhenKept
<1>11. \A b \in Adapters : Settled(b)'
  <2>1. \A d \in Callers, b \in Adapters : StopOf(d, b)' <=> StopOf(d, b)
    BY <1>1, <1>6, <1>8 DEF StopOf, a
  <2>2. \A d \in Callers, b \in Adapters : StopOf(d, b) => caller'[d].proc = caller[d].proc
    BY <1>6, <1>8 DEF n
  <2> QED
    BY <1>7, <2>1, <2>2, SettledWhenKept
<1> QED
  BY <1>7, <1>9, <1>10, <1>11, AdaptersParts

LEMMA DelayWhenCounted ==
    ASSUME DelaySound, UNCHANGED delayed, \A a \in Adapters : Counted(adapters[a], adapters'[a])
    PROVE  DelaySound'
BY DEF DelaySound, Counted, Promised

\* The call of a caller that waits for adapter a's process.
LEMMA WaitingSound ==
    ASSUME AdaptersSound, CallsSound, NEW c \in Callers, NEW a \in Adapters,
           NEW job \in {"stop", "restart", "shutdown"}, Waiting(c, job, a)
    PROVE  /\ caller' = [caller EXCEPT ![c] = caller'[c]]
           /\ \A d \in Callers : d # c => caller'[d] = caller[d]
           /\ caller'[c].job = job /\ caller'[c].on = a /\ caller'[c].at = "wait"
           /\ caller'[c].proc = adapters[a].process
           /\ CallSound(c)'
           /\ \A b \in Adapters : StopOf(c, b)' <=> b = a
<1> DEFINE rec == [job |-> job, on |-> a, at |-> "wait", proc |-> adapters[a].process]
<1>1. caller' = [caller EXCEPT ![c] = rec]
  BY DEF Waiting
<1>2. adapters[a].process \in Nat
  BY AdapterFields DEF AdaptersSound
<1>3. /\ rec \in CallStates /\ rec.job = job /\ rec.on = a /\ rec.at = "wait"
      /\ rec.proc = adapters[a].process
  BY <1>2 DEF CallStates
<1> HIDE DEF rec
<1>4. /\ caller'[c] = rec /\ caller' = [caller EXCEPT ![c] = caller'[c]]
      /\ \A d \in Callers : d # c => caller'[d] = caller[d]
  BY <1>1, CallChanges
<1>5. CallSound(c)'
  BY <1>3, <1>4 DEF CallSound
<1>6. \A b \in Adapters : StopOf(c, b)' <=> b = a
  BY <1>3, <1>4 DEF StopOf
<1> QED
  BY <1>3, <1>4, <1>5, <1>6

\* The caller has nothing to wait for any more.
LEMMA IdleSound ==
    ASSUME CallsSound, NEW c \in Callers, NEW rec \in CallStates, rec.at \in {"none", "pause"},
           rec.at = "pause" => rec.job = "restart" /\ rec.on \in Adapters,
           caller' = [caller EXCEPT ![c] = rec]
    PROVE  /\ caller' = [caller EXCEPT ![c] = caller'[c]]
           /\ \A d \in Callers : d # c => caller'[d] = caller[d]
           /\ caller'[c] = rec /\ CallSound(c)'
           /\ \A b \in Adapters : ~StopOf(c, b)'
<1>1. /\ caller'[c] = rec /\ caller' = [caller EXCEPT ![c] = caller'[c]]
      /\ \A d \in Callers : d # c => caller'[d] = caller[d]
  BY CallChanges
<1>2. CallSound(c)' /\ \A b \in Adapters : ~StopOf(c, b)'
  BY <1>1 DEF CallSound, StopOf
<1> QED
  BY <1>1, <1>2

LEMMA AdapterCallStop ==
    ASSUME AdaptersInv, NEW c \in Callers, NEW job \in {"stop", "restart"}, NEW a \in Adapters,
           CallStop(c, job, a)
    PROVE  AdaptersInv'
<1> USE DEF AdaptersInv
<1> DEFINE aq == [adapters[a] EXCEPT !.state = "stopping"]
<1>1. /\ caller[c] = NoCall /\ adapters[a].state = "running"
      /\ adapters' = [adapters EXCEPT ![a] = aq] /\ Waiting(c, job, a)
      /\ UNCHANGED <<delayed, down>>
  BY DEF CallStop, Stoppable
<1>2. Sound(adapters[a])
  BY DEF AdaptersSound
<1>3. Grown(adapters[a], aq) /\ Counted(adapters[a], aq) /\ aq.state = "stopping"
  BY <1>2, AdapterStopping
<1>4. /\ AllGrow /\ AdaptersSound' /\ DelaySound' /\ adapters'[a] = aq
      /\ \A b \in Adapters : b # a => adapters'[b] = adapters[b]
  BY <1>1, <1>3, OneChanges
<1>5. /\ caller' = [caller EXCEPT ![c] = caller'[c]]
      /\ \A d \in Callers : d # c => caller'[d] = caller[d]
      /\ caller'[c].job = job /\ caller'[c].proc = adapters[a].process
      /\ CallSound(c)'
      /\ \A b \in Adapters : StopOf(c, b)' <=> b = a
  BY <1>1, WaitingSound
<1>6. CallsSound'
  BY <1>4, <1>5, CallsWhenGrown
<1>7. DownSound'
  <2>1. \A d \in Callers : caller'[d].job = "shutdown" => caller'[d] = caller[d]
    BY <1>5
  <2>2. \A b \in Adapters : adapters'[b].state = "running" => adapters[b].state = "running"
    BY <1>3, <1>4
  <2> HIDE DEF aq
  <2> QED
    BY <1>1, <1>4, <2>1, <2>2, DownWhenKept
<1>8. \A b \in Adapters : Settled(b)'
  <2>1. \A b \in Adapters : ~StopOf(c, b)
    BY <1>1 DEF StopOf, NoCall
  <2>2. \A b \in Adapters : StopOf(c, b)' =>
           /\ adapters[b].state = "running"
           /\ adapters'[b] = [adapters[b] EXCEPT !.state = "stopping"]
           /\ caller'[c].proc = adapters[b].process
    BY <1>1, <1>4, <1>5
  <2>3. \A b \in Adapters : ~StopOf(c, b)' => adapters'[b] = adapters[b]
    BY <1>4, <1>5
  <2> QED
    BY <1>5, <2>1, <2>2, <2>3, SettledWhenStopped
<1> QED
  BY <1>4, <1>6, <1>7, <1>8, AdaptersParts

\* The stop of the manager goes on to the first running adapter from i on.
LEMMA VisitSound ==
    ASSUME AdaptersInv, NEW c \in Callers, caller[c].job = "shutdown",
           NEW i \in Nat, i >= 1, NEW aps, aps = [a \in Adapters |-> aps[a]],
           \A a \in Adapters : Grown(adapters[a], aps[a]) /\ Counted(adapters[a], aps[a]),
           \A a \in Adapters : a >= i => aps[a] = adapters[a],
           \A a \in Adapters : a < i /\ aps[a].state = "running" => aps[a].late,
           Visit(c, i, aps), UNCHANGED delayed
    PROVE  /\ AdaptersSound' /\ DelaySound' /\ CallsSound' /\ DownSound'
           /\ \A d \in Callers : d # c => caller'[d] = caller[d]
           /\ \A a \in Adapters : StopOf(c, a)' =>
                /\ a >= i /\ adapters[a].state = "running"
                /\ adapters'[a] = [adapters[a] EXCEPT !.state = "stopping"]
                /\ caller'[c].proc = adapters[a].process
           /\ \A a \in Adapters : ~StopOf(c, a)' => adapters'[a] = aps[a]
<1> USE DEF AdaptersInv
<1> DEFINE rest == {a \in i..NumAdapters : aps[a].state = "running"}
           m == Min(rest)
<1>1. /\ down = "stopping"
      /\ \A d \in Callers : d # c => caller[d].job # "shutdown"
  BY DEF DownSound
<1>2. rest \in SUBSET Adapters
  <2>1. i .. NumAdapters \subseteq Adapters
    BY AdapterConstants DEF Adapters
  <2> QED
    BY <2>1
<1>3. \A a \in Adapters : a \in Nat /\ (a >= i \/ a < i) /\ (a >= i => a \in i .. NumAdapters)
  BY AdapterConstants DEF Adapters
<1>4. \A a \in Adapters : aps[a].state = "running" => a \in rest \/ aps[a].late
  BY <1>3
<1>5. CASE rest = {}
  <2>1. adapters' = aps /\ caller' = [caller EXCEPT ![c] = NoCall] /\ down' = "done"
    BY <1>5 DEF Visit
  <2>2. NoCall.at = "none" /\ NoCall.job = "idle"
    BY DEF NoCall
  <2>3. /\ caller' = [caller EXCEPT ![c] = caller'[c]]
        /\ \A d \in Callers : d # c => caller'[d] = caller[d]
        /\ caller'[c] = NoCall /\ CallSound(c)'
        /\ \A b \in Adapters : ~StopOf(c, b)'
    BY <2>1, <2>2, NoCallSound, IdleSound
  <2>4. AllGrow /\ AdaptersSound'
    <3>1. AllGrow /\ adapters' = [a \in Adapters |-> adapters'[a]]
      BY <2>1 DEF AllGrow
    <3> QED
      BY <3>1, SoundWhenGrown
  <2>5. CallsSound'
    BY <2>3, <2>4, CallsWhenGrown
  <2>6. DelaySound'
    BY <2>1, DelayWhenCounted
  <2>7. DownSound'
    <3>1. \A d \in Callers : caller'[d].job # "shutdown"
      BY <1>1, <2>2, <2>3
    <3>2. \A b \in Adapters : adapters'[b].state = "running" => adapters'[b].late
      BY <1>4, <1>5, <2>1
    <3> QED
      BY <2>1, <3>1, <3>2 DEF DownSound
  <2> QED
    BY <2>1, <2>3, <2>4, <2>5, <2>6, <2>7
<1>6. CASE rest # {}
  <2>1. m \in rest /\ m \in Adapters /\ \A a \in rest : m <= a
    BY <1>2, <1>6, LeastAdapter
  <2>2. m \in Nat /\ m >= i /\ aps[m].state = "running"
    BY <1>3, <2>1
  <2>3. adapters' = [aps EXCEPT ![m].state = "stopping"] /\ Waiting(c, "shutdown", m) /\ UNCHANGED down
    BY <1>6 DEF Visit
  <2> HIDE DEF rest, m
  <2>4. aps[m] = adapters[m] /\ adapters[m].state = "running" /\ Sound(adapters[m])
    BY <2>1, <2>2 DEF AdaptersSound
  <2> DEFINE aq == [adapters[m] EXCEPT !.state = "stopping"]
  <2>5. Grown(adapters[m], aq) /\ Counted(adapters[m], aq) /\ aq.state = "stopping"
    BY <2>4, AdapterStopping
  <2>6. /\ adapters' = [a \in Adapters |-> adapters'[a]] /\ adapters'[m] = aq
        /\ \A a \in Adapters : a # m => adapters'[a] = aps[a]
    BY <2>1, <2>3, <2>4
  <2>7. AllGrow /\ AdaptersSound' /\ \A a \in Adapters : Counted(adapters[a], adapters'[a])
    <3>1. AllGrow /\ \A a \in Adapters : Counted(adapters[a], adapters'[a])
      BY <2>5, <2>6 DEF AllGrow
    <3> QED
      BY <2>6, <3>1, SoundWhenGrown
  <2>8. /\ caller' = [caller EXCEPT ![c] = caller'[c]]
        /\ \A d \in Callers : d # c => caller'[d] = caller[d]
        /\ caller'[c].job = "shutdown" /\ caller'[c].on = m
        /\ caller'[c].proc = adapters[m].process
        /\ CallSound(c)'
        /\ \A b \in Adapters : StopOf(c, b)' <=> b = m
    BY <2>1, <2>3, WaitingSound
  <2>9. CallsSound'
    BY <2>7, <2>8, CallsWhenGrown
  <2>10. DelaySound'
    BY <2>7, DelayWhenCounted
  <2>11. DownSound'
    <3>1. \A d \in Callers : caller'[d].job = "shutdown" => d = c
      BY <1>1, <2>8
    <3>2. ASSUME NEW b \in Adapters, b <= m, adapters'[b].state = "running" PROVE adapters'[b].late
      <4>1. b # m /\ adapters'[b] = aps[b]
        BY <2>5, <2>6, <3>2
      <4>2. b < m
        BY <1>3, <2>2, <3>2, <4>1
      <4>3. b \notin rest
        BY <1>3, <2>1, <2>2, <4>2
      <4> QED
        BY <1>4, <3>2, <4>1, <4>3
    <3>3. down' = "stopping"
      BY <1>1, <2>3
    <3> QED
      BY <2>8, <3>1, <3>2, <3>3 DEF DownSound
  <2> QED
    BY <2>2, <2>4, <2>6, <2>7, <2>8, <2>9, <2>10, <2>11
<1> QED
  BY <1>5, <1>6

LEMMA AdapterShutdownBegins ==
    ASSUME AdaptersInv, NEW c \in Callers, ShutdownBegins(c)
    PROVE  AdaptersInv'
<1> USE DEF AdaptersInv
<1>1. /\ caller[c].job = "shutdown" /\ caller[c].at = "none"
      /\ Visit(c, 1, adapters) /\ UNCHANGED delayed
  BY DEF ShutdownBegins
<1>2. /\ adapters = [a \in Adapters |-> adapters[a]] /\ 1 \in Nat /\ 1 >= 1
      /\ \A a \in Adapters : Grown(adapters[a], adapters[a]) /\ Counted(adapters[a], adapters[a])
      /\ \A a \in Adapters : ~(a < 1)
  BY AdapterStays DEF AdaptersSound, Adapters
<1>3. /\ AdaptersSound' /\ DelaySound' /\ CallsSound' /\ DownSound'
      /\ \A d \in Callers : d # c => caller'[d] = caller[d]
      /\ \A a \in Adapters : StopOf(c, a)' =>
           /\ a >= 1 /\ adapters[a].state = "running"
           /\ adapters'[a] = [adapters[a] EXCEPT !.state = "stopping"]
           /\ caller'[c].proc = adapters[a].process
      /\ \A a \in Adapters : ~StopOf(c, a)' => adapters'[a] = adapters[a]
  BY <1>1, <1>2, VisitSound
<1>4. \A a \in Adapters : ~StopOf(c, a)
  BY <1>1 DEF StopOf
<1>5. \A a \in Adapters : Settled(a)'
  BY <1>3, <1>4, SettledWhenStopped
<1> QED
  BY <1>3, <1>5, AdaptersParts

\* The wait of a stop is over: the process it waited for is gone.
LEMMA AdapterStopFinishes ==
    ASSUME AdaptersInv, NEW c \in Callers, StopSeesExit(c) \/ StopAfterKill(c)
    PROVE  AdaptersInv'
<1> USE DEF AdaptersInv
<1>1. caller[c].at \in {"wait", "killed"} /\ StopFinishes(c) /\ UNCHANGED delayed
  BY DEF StopSeesExit, StopAfterKill, StopFinishes
<1>0. PICK a \in Adapters : a = caller[c].on
  BY <1>1 DEF CallsSound, CallSound
<1>2. a \in Adapters /\ caller[c] \in CallStates /\ Sound(adapters[a])
  BY DEF CallsSound, CallSound, AdaptersSound
<1> DEFINE aps == [adapters EXCEPT ![a] = Stopped(adapters[a])]
<1>3. ~Alive(adapters[a], caller[c].proc)
  <2>1. CASE StopSeesExit(c)
    BY <1>0, <2>1 DEF StopSeesExit
  <2>2. CASE StopAfterKill(c)
    BY <1>0, <1>2, <2>2, AdapterFields DEF StopAfterKill, CallsSound, CallSound
  <2> QED
    BY <2>1, <2>2
<1>4. /\ aps = [b \in Adapters |-> aps[b]] /\ aps[a] = Stopped(adapters[a])
      /\ \A b \in Adapters : b # a => aps[b] = adapters[b]
  BY <1>2 DEF AdaptersSound
<1>5. /\ Grown(adapters[a], aps[a]) /\ Counted(adapters[a], aps[a]) /\ aps[a].state = "stopped"
  BY <1>2, <1>4, AdapterStopped
<1>6. \A b \in Adapters : Grown(adapters[b], aps[b]) /\ Counted(adapters[b], aps[b])
  BY <1>4, <1>5, AdapterStays DEF AdaptersSound
<1>7. /\ caller[c].job = "shutdown" => Visit(c, a + 1, aps)
      /\ caller[c].job # "shutdown" =>
           /\ adapters' = aps /\ UNCHANGED down
           /\ caller' = [caller EXCEPT ![c] =
                IF caller[c].job = "restart" THEN [caller[c] EXCEPT !.at = "pause", !.proc = None]
                ELSE NoCall]
  BY <1>0, <1>1 DEF StopFinishes
<1>8. \A b \in Adapters : StopOf(c, b) <=> b = a
  BY <1>0, <1>1 DEF StopOf
<1> HIDE DEF aps
<1>9. CASE caller[c].job = "shutdown"
  <2>1. a \in Nat /\ a + 1 \in Nat /\ a + 1 >= 1
    BY <1>2 DEF Adapters
  <2>2. \A b \in Adapters : b >= a + 1 => aps[b] = adapters[b]
    BY <1>4, <2>1
  <2>3. \A b \in Adapters : b < a + 1 /\ aps[b].state = "running" => aps[b].late
    <3> SUFFICES ASSUME NEW b \in Adapters, b < a + 1, aps[b].state = "running" PROVE aps[b].late
      OBVIOUS
    <3>1. b # a /\ aps[b] = adapters[b] /\ b <= a
      BY <1>4, <1>5, <2>1 DEF Adapters
    <3> QED
      BY <1>0, <1>1, <1>9, <3>1 DEF DownSound
  <2>4. /\ AdaptersSound' /\ DelaySound' /\ CallsSound' /\ DownSound'
        /\ \A d \in Callers : d # c => caller'[d] = caller[d]
        /\ \A b \in Adapters : StopOf(c, b)' =>
             /\ b >= a + 1 /\ adapters[b].state = "running"
             /\ adapters'[b] = [adapters[b] EXCEPT !.state = "stopping"]
             /\ caller'[c].proc = adapters[b].process
        /\ \A b \in Adapters : ~StopOf(c, b)' => adapters'[b] = aps[b]
    <3> QED
      BY <1>1, <1>4, <1>6, <1>7, <1>9, <2>1, <2>2, <2>3, VisitSound
  <2>5. ~StopOf(c, a)'
    <3>1. a \in Nat /\ ~(a >= a + 1)
      BY <1>2, AdapterConstants DEF Adapters
    <3> QED
      BY <1>2, <2>4, <3>1
  <2>6. \A b \in Adapters : Settled(b)'
    BY <1>3, <1>4, <1>8, <2>4, <2>5, SettledWhenStopped
  <2> QED
    BY <2>4, <2>6, AdaptersParts
<1>10. CASE caller[c].job # "shutdown"
  <2> DEFINE rec == IF caller[c].job = "restart" THEN [caller[c] EXCEPT !.at = "pause", !.proc = None]
                    ELSE NoCall
  <2>1. adapters' = aps /\ UNCHANGED <<delayed, down>> /\ caller' = [caller EXCEPT ![c] = rec]
    BY <1>1, <1>7, <1>10
  <2>2. /\ rec \in CallStates /\ rec.at \in {"none", "pause"} /\ rec.job # "shutdown"
        /\ rec.at = "pause" => rec.job = "restart" /\ rec.on \in Adapters
    <3>1. CASE caller[c].job = "restart"
      <4>1. rec = [caller[c] EXCEPT !.at = "pause", !.proc = None]
        BY <3>1
      <4>2. rec \in CallStates /\ rec.at = "pause" /\ rec.job = "restart" /\ rec.on = caller[c].on
        BY <1>2, <3>1, <4>1 DEF CallStates, None
      <4> QED
        BY <1>0, <1>2, <4>2
    <3>2. CASE caller[c].job # "restart"
      <4>1. rec = NoCall /\ NoCall.at = "none" /\ NoCall.job = "idle"
        BY <3>2 DEF NoCall
      <4> QED
        BY <4>1, NoCallSound
    <3> QED
      BY <3>1, <3>2
  <2> HIDE DEF rec
  <2>3. /\ caller' = [caller EXCEPT ![c] = caller'[c]]
        /\ \A d \in Callers : d # c => caller'[d] = caller[d]
        /\ caller'[c] = rec /\ CallSound(c)'
        /\ \A b \in Adapters : ~StopOf(c, b)'
    BY <2>1, <2>2, IdleSound
  <2>4. AllGrow /\ AdaptersSound'
    <3>1. AllGrow /\ adapters' = [b \in Adapters |-> adapters'[b]]
      BY <1>4, <1>6, <2>1 DEF AllGrow
    <3> QED
      BY <3>1, SoundWhenGrown
  <2>5. CallsSound'
    BY <2>3, <2>4, CallsWhenGrown
  <2>6. DelaySound'
    BY <1>6, <2>1, DelayWhenCounted
  <2>7. DownSound'
    <3>1. \A d \in Callers : caller'[d].job = "shutdown" => caller'[d] = caller[d]
      BY <2>2, <2>3
    <3>2. \A b \in Adapters : adapters'[b].state = "running" => adapters[b].state = "running"
      BY <1>4, <1>5, <2>1
    <3> QED
      BY <2>1, <2>4, <3>1, <3>2, DownWhenKept
  <2>8. \A b \in Adapters : Settled(b)'
    <3>1. \A b \in Adapters : StopOf(c, b) =>
             adapters'[b] = Stopped(adapters[b]) /\ ~StopOf(c, b)' /\ ~Alive(adapters[b], caller[c].proc)
      BY <1>3, <1>4, <1>8, <2>1, <2>3
    <3>2. \A b \in Adapters : ~StopOf(c, b) => adapters'[b] = adapters[b]
      BY <1>4, <1>8, <2>1
    <3> QED
      BY <2>3, <3>1, <3>2, SettledWhenStopped
  <2> QED
    BY <2>4, <2>5, <2>6, <2>7, <2>8, AdaptersParts
<1> QED
  BY <1>9, <1>10

LEMMA AdaptersInvStep == AdaptersInv /\ [AdaptersNext]_adapterVars => AdaptersInv'
<1> SUFFICES ASSUME AdaptersInv, [AdaptersNext]_adapterVars PROVE AdaptersInv'
  OBVIOUS
<1>1. ASSUME NEW a \in Adapters, ProcessExits(a) \/ WindowPasses(a) \/ SupervisorRestarts(a)
      PROVE  AdaptersInv'
  BY <1>1, AdapterAlone, AdapterSupervised
<1>2. CASE SupervisorWakes
  BY <1>2, AdapterSupervised
<1>3. ASSUME NEW c \in Callers, Call(c) PROVE AdaptersInv'
  BY <1>3, AdapterCallStart, AdapterCallRestartOfStopped, AdapterCallStop, AdapterCallShutdown
     DEF Call
<1>4. ASSUME NEW c \in Callers, CallerGoesOn(c) PROVE AdaptersInv'
  BY <1>4, AdapterShutdownBegins, AdapterStopFinishes, AdapterStopKills, AdapterRestartAfterPause
     DEF CallerGoesOn
<1>5. CASE UNCHANGED adapterVars
  BY <1>5 DEF adapterVars, AdaptersInv, AdaptersSound, CallsSound, CallSound, DelaySound, Promised,
              DownSound, Settled, StopOf, Quiet, Sound
<1> QED
  BY <1>1, <1>2, <1>3, <1>4, <1>5 DEF AdaptersNext

LEMMA AdaptersInvStart == AdaptersInit => AdaptersInv
<1> SUFFICES ASSUME AdaptersInit PROVE AdaptersInv
  OBVIOUS
<1>1. /\ adapters = [a \in Adapters |-> IF a \in Enabled THEN Spawned(Loaded(a), TRUE) ELSE Loaded(a)]
      /\ delayed = None /\ caller = [c \in Callers |-> NoCall] /\ down = "up"
  BY DEF AdaptersInit
<1>2. ASSUME NEW a \in Adapters
      PROVE  /\ Sound(adapters[a]) /\ Quiet(adapters[a]) /\ adapters[a].state # "stopping"
  <2> DEFINE ap == Loaded(a)
             name == IF a \in Enabled THEN "stopped" ELSE "disabled"
  <2>1. ap = [state |-> name, process |-> 0, pidfile |-> 0, exit |-> <<>>, restarts |-> 0,
              window |-> "none", revived |-> 0, overlapped |-> FALSE, unrecorded |-> FALSE,
              late |-> FALSE]
    BY DEF Loaded, None
  <2>2. name \in {"stopped", "disabled"} /\ <<>> \in Seq(Codes) /\ Len(<<>>) = 0
    OBVIOUS
  <2> HIDE DEF ap, name
  <2>3. /\ ap \in AdapterProcess /\ ap.state = name /\ ap.process = 0 /\ ap.pidfile = 0
        /\ ap.exit = <<>> /\ ap.restarts = 0 /\ ap.revived = 0
    BY <2>1, <2>2 DEF AdapterProcess, Codes
  <2>4. Sound(ap) /\ Len(ap.exit) = 0
    BY <2>2, <2>3, AdapterConstants DEF Sound
  <2>5. CASE a \in Enabled
    <3>1. adapters[a] = Spawned(ap, TRUE)
      BY <1>1, <2>5 DEF ap
    <3>2. /\ Sound(adapters[a]) /\ Len(adapters[a].exit) = 1 /\ adapters[a].process = 1
          /\ adapters[a].state = "running"
      <4> DEFINE aq == Spawned(ap, TRUE)
      <4>1. ap.state # "running" /\ Sound(ap)
        BY <2>2, <2>3, <2>4
      <4>2. /\ Sound(aq) /\ Len(aq.exit) = Len(ap.exit) + 1 /\ aq.process = Len(aq.exit)
            /\ aq.state = (IF TRUE THEN "running" ELSE "failed")
        BY <4>1, AdapterSpawned
      <4> HIDE DEF aq
      <4>3. Len(aq.exit) = 1 /\ aq.process = 1 /\ aq.state = "running"
        BY <2>4, <4>2
      <4>4. adapters[a] = aq
        BY <3>1 DEF aq
      <4> QED
        BY <4>2, <4>3, <4>4
    <3>3. \A n \in 1 .. 1 : n = 1
      OBVIOUS
    <3> QED
      BY <3>2, <3>3 DEF Quiet
  <2>6. CASE a \notin Enabled
    <3>1. adapters[a] = ap
      BY <1>1, <2>6 DEF ap
    <3> QED
      BY <2>2, <2>3, <2>4, <3>1 DEF Quiet
  <2> QED
    BY <2>5, <2>6
<1>3. NoCall.at = "none" /\ NoCall.job = "idle"
  BY DEF NoCall
<1>4. AdaptersSound
  BY <1>1, <1>2 DEF AdaptersSound
<1>5. CallsSound
  BY <1>1, <1>3, NoCallSound DEF CallsSound, CallSound
<1>6. \A a \in Adapters : Settled(a)
  BY <1>1, <1>2, <1>3 DEF Settled, StopOf
<1>7. DownSound /\ DelaySound
  BY <1>1, <1>3 DEF DownSound, DelaySound
<1> QED
  BY <1>4, <1>5, <1>6, <1>7 DEF AdaptersInv

LEMMA AdaptersInvHolds == AdaptersSpec => []AdaptersInv
BY AdaptersInvStart, AdaptersInvStep, PTL DEF AdaptersSpec

\* For all adapters, callers, policies and limits, the record of each adapter refers
\* to processes that were spawned, and the supervisor delays the restart of an
\* adapter that exists.
THEOREM AdaptersTypeCorrect == AdaptersSpec => []AdaptersTypeOK
<1>1. AdaptersInv => AdaptersTypeOK
  <2> SUFFICES ASSUME AdaptersInv PROVE AdaptersTypeOK
    OBVIOUS
  <2>1. adapters \in [Adapters -> AdapterProcess]
    BY DEF AdaptersInv, AdaptersSound, Sound
  <2>2. \A a \in Adapters :
          {adapters[a].process, adapters[a].pidfile, adapters[a].restarts} \subseteq 0..Len(adapters[a].exit)
    BY DEF AdaptersInv, AdaptersSound, Sound
  <2>3. caller \in [Callers -> CallStates]
    BY DEF AdaptersInv, CallsSound, CallSound
  <2> QED
    BY <2>1, <2>2, <2>3 DEF AdaptersInv, DelaySound, DownSound, AdaptersTypeOK
<1> QED
  BY <1>1, AdaptersInvHolds, PTL

\* For all adapters, callers, policies and limits: the supervisor watches the
\* process of every running adapter; no live process is beyond the manager's reach
\* but after a start during a stop or a PID file that could not be written; none is
\* left when the manager's stop returned, but for those that others stop or
\* started; and the supervisor starts no adapter too often.
THEOREM AdaptersAreSafe == AdaptersSpec => []AdaptersSafe
<1>1. AdaptersInv => AdaptersSafe
  <2> SUFFICES ASSUME AdaptersInv PROVE AdaptersSafe
    OBVIOUS
  <2>0. AdaptersSound /\ CallsSound /\ DownSound /\ \A a \in Adapters : Settled(a) /\ Sound(adapters[a])
    BY DEF AdaptersInv, AdaptersSound
  <2>1. RunningIsKnown
    BY <2>0 DEF RunningIsKnown, Sound
  <2>2. NoStrayProcess
    <3> SUFFICES ASSUME NEW a \in Adapters, ~adapters[a].overlapped, ~adapters[a].unrecorded,
                        NEW n \in DOMAIN adapters[a].exit, Alive(adapters[a], n)
                 PROVE  n = adapters[a].process /\ adapters[a].state \in {"running", "stopping"}
      BY DEF NoStrayProcess
    <3> QED
      BY <2>0, AdapterFields DEF Settled, Quiet
  <2>3. ShutdownStopsAll
    <3> SUFFICES ASSUME down = "done", NEW a \in Adapters,
                        NEW n \in DOMAIN adapters[a].exit, Alive(adapters[a], n), ~Awaited(a, n),
                        ~adapters[a].overlapped, ~adapters[a].unrecorded
                 PROVE  adapters[a].late
      BY DEF ShutdownStopsAll
    <3>1. n = adapters[a].process /\ adapters[a].state \in {"running", "stopping"}
      BY <2>0, AdapterFields DEF Settled, Quiet
    <3>2. CASE adapters[a].state = "running"
      BY <2>0, <3>2 DEF DownSound
    <3>3. CASE adapters[a].state = "stopping"
      <4>1. PICK c \in Callers : StopOf(c, a) /\ caller[c].proc = n
        BY <2>0, <3>1, <3>3 DEF Settled
      <4>2. caller[c].at # "wait"
        BY <4>1 DEF Awaited, StopOf
      <4>3. adapters[a].exit[n] # "alive"
        BY <2>0, <4>1, <4>2 DEF StopOf, CallsSound, CallSound
      <4> QED
        BY <4>3 DEF Alive
    <3> QED
      BY <3>1, <3>2, <3>3
  <2>4. RestartsBounded
    BY <2>0 DEF RestartsBounded, Sound
  <2> QED
    BY <2>1, <2>2, <2>3, <2>4 DEF AdaptersSafe
<1> QED
  BY <1>1, AdaptersInvHolds, PTL

----------------------------------------------------------------------------
(* The local MCP server *)

ClientType ==
    [job : {"none", "start", "stop", "restart", "call"}, at : ClientPoints,
     on : 0 .. Len(tasks), retry : BOOLEAN]

TaskStates == {"connecting", "serving", "told", "failed", "over"}

\* Where a coroutine holds or awaits the lock.
LockPoints == {"waitStop", "stopping", "waitStart", "connecting", "clearing", "discovering"}
Holder(points) == lock # <<>> /\ client[Head(lock)].at \in points

\* The types, apart from those of ops and of the history variable.
McpRecords ==
    /\ tasks \in Seq(TaskStates)
    /\ session \in 0 .. Len(tasks) /\ server \in 0 .. Len(tasks) /\ event \in 0 .. Len(tasks)
    /\ connected \in BOOLEAN
    /\ attempts \in 0 .. (MaxReconnects + 1)

McpQueue ==
    /\ lock \in Seq(Clients) /\ Distinct(lock)
    /\ client \in [Clients -> ClientType]
    /\ \A c \in ToSet(lock) : client[c].at \in LockPoints
    /\ \A c \in Clients : client[c].at \in Holding => lock # <<>> /\ Head(lock) = c

\* The task of the server: its event is in place until it is told, and whoever
\* told it or connects to it holds the lock.
McpTasks ==
    /\ \A t \in 1 .. Len(tasks) : t = server =>
         /\ tasks[t] \in {"connecting", "serving"} => event = t
         /\ tasks[t] = "told" => Holder({"stopping", "clearing"})
    /\ \A t \in 1 .. Len(tasks) : tasks[t] = "connecting" => t = server /\ Holder({"connecting"})

\* The session's task serves it, or is ended with its start. A session that is
\* not the server's does not count as connected, and is the session no more when
\* the start of the server was told that it is ready.
McpSession ==
    /\ \A t \in 1 .. Len(tasks) : t = session =>
         tasks[t] = "serving" \/ (tasks[t] = "told" /\ t = server /\ Holder({"clearing"}))
    /\ \A t \in 1 .. Len(tasks) : t = session /\ t # server =>
         /\ ~connected /\ ~Holder({"discovering"})
         /\ Holder({"connecting"}) => server # 0 /\ tasks[server] \in {"connecting", "failed"}
    /\ Holder({"stopping"}) => session = 0

McpLinks == McpTasks /\ McpSession

\* But for the servers whose connection was taken away: no other task lives; one
\* that serves is the session's and counts as connected, but while it is being
\* connected to; attempts were only made for a server that is gone or being
\* replaced.
McpUndisturbed ==
    /\ \A t \in 1 .. Len(tasks) : Live(t) => t = server \/ t \in clobbered
    /\ \A t \in 1 .. Len(tasks) : t = server /\ t \notin clobbered /\ tasks[t] = "serving" =>
         session = t /\ (connected \/ Holder({"connecting", "discovering"}))
    /\ \A t \in 1 .. Len(tasks) : t = server /\ t \notin clobbered /\ Live(t) =>
         attempts = 0 \/ Holder(Holding)

McpInv == McpRecords /\ McpQueue /\ McpLinks /\ McpUndisturbed

LEMMA McpClientsGrow ==
    ASSUME Len(tasks) \in Nat, Len(tasks') \in Nat, Len(tasks) <= Len(tasks')
    PROVE  \A rec \in ClientType : rec \in ClientType'
<1>1. 0 .. Len(tasks) \subseteq 0 .. Len(tasks')
  OBVIOUS
<1> QED
  BY <1>1 DEF ClientType

\* Who may go on with the lock: it is free, or is handed over.
LockFor(c, queue) ==
    \/ lock = <<>> /\ queue = <<>>
    \/ lock # <<>> /\ Head(lock) = c /\ queue = Tail(lock)

LEMMA McpLockFor ==
    ASSUME McpQueue, NEW c \in Clients, NEW queue, LockFor(c, queue),
           lock = <<>> => client[c].at \notin LockPoints
    PROVE  /\ queue \in Seq(Clients) /\ Distinct(queue) /\ c \notin ToSet(queue)
           /\ ToSet(queue) \subseteq ToSet(lock)
           /\ <<c>> \o queue \in Seq(Clients) /\ Distinct(<<c>> \o queue)
           /\ <<c>> \o queue # <<>> /\ Head(<<c>> \o queue) = c
           /\ ToSet(<<c>> \o queue) = ToSet(queue) \cup {c}
           /\ \A d \in Clients : d # c => client[d].at \notin Holding
<1>1. /\ queue \in Seq(Clients) /\ Distinct(queue) /\ c \notin ToSet(queue)
      /\ ToSet(queue) \subseteq ToSet(lock)
  <2>1. CASE lock = <<>> /\ queue = <<>>
    BY <2>1, NoMembers DEF McpQueue
  <2>2. CASE lock # <<>> /\ Head(lock) = c /\ queue = Tail(lock)
    BY <2>2, HeadLeaves DEF McpQueue
  <2> QED
    BY <2>1, <2>2 DEF LockFor
<1>2. \A d \in Clients : d # c => client[d].at \notin Holding
  BY DEF McpQueue, LockFor
<1> QED
  BY <1>1, <1>2, Leading

\* The queue after a step of the coroutine that holds the lock or finds it free:
\* it keeps or takes the lock, or leaves it to the next.
LEMMA McpServed ==
    ASSUME McpQueue, NEW c \in Clients, NEW queue, LockFor(c, queue),
           lock = <<>> => client[c].at \notin LockPoints,
           Len(tasks) \in Nat, Len(tasks') \in Nat, Len(tasks) <= Len(tasks'),
           NEW rec \in ClientType', client' = [client EXCEPT ![c] = rec],
           \/ rec.at \in Holding /\ lock' = <<c>> \o queue
           \/ rec.at \notin LockPoints /\ lock' = queue
    PROVE  McpQueue'
<1> DEFINE full == <<c>> \o queue
<1>1. /\ queue \in Seq(Clients) /\ Distinct(queue) /\ c \notin ToSet(queue)
      /\ ToSet(queue) \subseteq ToSet(lock)
      /\ full \in Seq(Clients) /\ Distinct(full)
      /\ full # <<>> /\ Head(full) = c
      /\ ToSet(full) = ToSet(queue) \cup {c}
      /\ \A d \in Clients : d # c => client[d].at \notin Holding
  BY McpLockFor
<1> HIDE DEF full
<1>2. client' \in [Clients -> ClientType']
  BY McpClientsGrow DEF McpQueue
<1>3. client'[c] = rec /\ \A d \in Clients : d # c => client'[d] = client[d]
  BY DEF McpQueue
<1>4. \A d \in ToSet(queue) : d \in Clients /\ d # c /\ client'[d].at \in LockPoints
  <2>1. \A d \in ToSet(queue) : d \in Clients
    BY <1>1, Members
  <2> QED
    BY <1>1, <1>3, <2>1 DEF McpQueue
<1>5. CASE rec.at \in Holding /\ lock' = full
  <2>1. rec.at \in LockPoints
    BY <1>5 DEF Holding, LockPoints
  <2>2. \A d \in ToSet(lock') : client'[d].at \in LockPoints
    BY <1>1, <1>3, <1>4, <1>5, <2>1
  <2>3. \A d \in Clients : client'[d].at \in Holding => lock' # <<>> /\ Head(lock') = d
    BY <1>1, <1>3, <1>5
  <2> QED
    BY <1>1, <1>2, <1>5, <2>2, <2>3 DEF McpQueue
<1>6. CASE rec.at \notin LockPoints /\ lock' = queue
  <2>1. rec.at \notin Holding
    BY <1>6 DEF Holding, LockPoints
  <2>2. \A d \in ToSet(lock') : client'[d].at \in LockPoints
    BY <1>4, <1>6
  <2>3. \A d \in Clients : client'[d].at \in Holding => lock' # <<>> /\ Head(lock') = d
    BY <1>1, <1>3, <2>1
  <2> QED
    BY <1>1, <1>2, <1>6, <2>2, <2>3 DEF McpQueue
<1> QED
  BY <1>5, <1>6 DEF full

\* A coroutine that finds the lock taken joins the end of its queue.
LEMMA McpQueues ==
    ASSUME McpQueue, NEW c \in Clients, lock # <<>>, client[c].at \notin LockPoints,
           UNCHANGED tasks, NEW rec \in ClientType, rec.at \in {"waitStop", "waitStart"},
           client' = [client EXCEPT ![c] = rec], lock' = Append(lock, c)
    PROVE  /\ McpQueue'
           /\ c # Head(lock) /\ Head(lock') = Head(lock) /\ lock' # <<>>
<1>1. c \notin ToSet(lock)
  BY DEF McpQueue
<1>2. lock' \in Seq(Clients) /\ Distinct(lock') /\ ToSet(lock') = ToSet(lock) \cup {c}
  BY <1>1, Joining DEF McpQueue
<1>3. Head(lock) \in ToSet(lock)
  BY HeadLeaves DEF McpQueue
<1>4. lock' # <<>>
  BY AppendMembers DEF McpQueue
<1>5. Head(lock') = Head(lock)
  BY DEF McpQueue
<1>6. client' \in [Clients -> ClientType'] /\ client'[c] = rec
      /\ \A d \in Clients : d # c => client'[d] = client[d]
  BY DEF McpQueue, ClientType
<1>7. \A d \in ToSet(lock) : d \in Clients
  BY Members DEF McpQueue
<1>8. \A d \in ToSet(lock') : client'[d].at \in LockPoints
  <2>1. rec.at \in LockPoints
    BY DEF LockPoints
  <2> QED
    BY <1>1, <1>2, <1>6, <1>7, <2>1 DEF McpQueue
<1>9. \A d \in Clients : client'[d].at \in Holding => lock' # <<>> /\ Head(lock') = d
  <2>1. rec.at \notin Holding
    BY DEF Holding
  <2> QED
    BY <1>4, <1>5, <1>6, <2>1 DEF McpQueue
<1> QED
  BY <1>1, <1>2, <1>3, <1>4, <1>5, <1>6, <1>8, <1>9 DEF McpQueue

\* A step of a coroutine that neither holds nor awaits the lock, before or after.
LEMMA McpApart ==
    ASSUME McpQueue, NEW c \in Clients, client[c].at \notin LockPoints,
           UNCHANGED <<tasks, lock>>,
           NEW rec \in ClientType, rec.at \notin LockPoints,
           client' = [client EXCEPT ![c] = rec]
    PROVE  /\ McpQueue'
           /\ lock # <<>> => c # Head(lock)
<1>1. c \notin ToSet(lock)
  BY DEF McpQueue
<1>2. lock # <<>> => Head(lock) \in ToSet(lock)
  BY HeadLeaves DEF McpQueue
<1>3. client' \in [Clients -> ClientType'] /\ client'[c] = rec
      /\ \A d \in Clients : d # c => client'[d] = client[d]
  BY DEF McpQueue, ClientType
<1>4. \A d \in ToSet(lock) : d \in Clients /\ d # c /\ client'[d].at \in LockPoints
  <2>1. \A d \in ToSet(lock) : d \in Clients
    BY Members DEF McpQueue
  <2> QED
    BY <1>1, <1>3, <2>1 DEF McpQueue
<1>5. \A d \in Clients : client'[d].at \in Holding => lock' # <<>> /\ Head(lock') = d
  <2>1. rec.at \notin Holding
    BY DEF Holding, LockPoints
  <2> QED
    BY <1>3, <2>1 DEF McpQueue
<1> QED
  BY <1>1, <1>2, <1>3, <1>4, <1>5 DEF McpQueue

LEMMA McpToldToEnd ==
    ASSUME McpRecords
    PROVE  /\ ToldToEnd \in Seq(TaskStates) /\ Len(ToldToEnd) = Len(tasks)
           /\ \A t \in 1 .. Len(tasks) :
                ToldToEnd[t] = IF t = event /\ tasks[t] \in {"connecting", "serving"}
                               THEN "told" ELSE tasks[t]
<1>1. CASE event # NoTask /\ tasks[event] \in {"connecting", "serving"}
  <2>1. ToldToEnd = [tasks EXCEPT ![event] = "told"] /\ event \in 1 .. Len(tasks)
    BY <1>1 DEF ToldToEnd, McpRecords, NoTask
  <2> QED
    BY <1>1, <2>1 DEF McpRecords, TaskStates
<1>2. CASE ~(event # NoTask /\ tasks[event] \in {"connecting", "serving"})
  BY <1>2 DEF ToldToEnd, McpRecords, NoTask
<1> QED
  BY <1>1, <1>2

\* A coroutine that does not hold the lock yet, and may: nobody does.
LEMMA McpNobodyHolds ==
    ASSUME McpQueue, NEW c \in Clients, NEW queue, LockFor(c, queue), client[c].at \notin Holding
    PROVE  \A points \in SUBSET Holding : ~Holder(points)
BY DEF Holder, LockFor

LEMMA McpStopBody ==
    ASSUME McpInv, NEW c \in Clients, NEW queue, LockFor(c, queue),
           client[c].at \notin Holding, lock = <<>> => client[c].at \notin LockPoints,
           NEW rec \in ClientType, StopBody(c, rec, queue),
           attempts' \in 0 .. (MaxReconnects + 1), clobbered \subseteq clobbered'
    PROVE  McpInv'
<1> USE DEF McpInv
<1>1. /\ tasks' \in Seq(TaskStates) /\ Len(tasks') = Len(tasks) /\ Len(tasks) \in Nat
      /\ \A t \in 1 .. Len(tasks) :
            tasks'[t] = IF t = event /\ tasks[t] \in {"connecting", "serving"}
                        THEN "told" ELSE tasks[t]
  BY McpToldToEnd DEF StopBody, McpRecords
<1>0. McpQueue /\ Len(tasks) \in Nat /\ Len(tasks') \in Nat /\ Len(tasks) <= Len(tasks')
  BY <1>1
<1>2. \A points \in SUBSET Holding : ~Holder(points)
  BY McpNobodyHolds
<1>3. \A t \in 1 .. Len(tasks) : t = server /\ Live(t) => tasks[t] = "serving" /\ event = t
  <2>1. ~Holder({"stopping", "clearing"}) /\ ~Holder({"connecting"})
    BY <1>2 DEF Holding
  <2> QED
    BY <2>1 DEF McpLinks, McpTasks, Live
<1>4. \A t \in 1 .. Len(tasks) : Live(t)' => Live(t)
  BY <1>1 DEF Live
<1>9. \A t \in 1 .. Len(tasks) : tasks[t] # "connecting"
  BY <1>2 DEF McpLinks, McpTasks, Holding
<1>5. connected' = FALSE /\ session' = 0 /\ event' = 0
  BY DEF StopBody, NoTask
<1>6. rec \in ClientType'
  BY <1>1 DEF ClientType
<1>7. CASE server # NoTask /\ Live(server)
  <2> DEFINE new == [rec EXCEPT !.at = "stopping"]
  <2>1. client' = [client EXCEPT ![c] = new] /\ lock' = <<c>> \o queue /\ server' = server
    BY <1>7 DEF StopBody
  <2>2. new \in ClientType' /\ new.at = "stopping"
    BY <1>6 DEF ClientType, ClientPoints
  <2> HIDE DEF new
  <2>3. McpQueue'
    BY <1>0, <2>1, <2>2, McpServed DEF Holding
  <2>4. Holder({"stopping"})' /\ Holder({"stopping", "clearing"})' /\ Holder(Holding)'
    <3>1. lock' # <<>> /\ Head(lock') = c
      BY <2>1, McpLockFor
    <3>2. client'[c].at = "stopping"
      BY <2>1, <2>2 DEF McpQueue
    <3> QED
      BY <3>1, <3>2 DEF Holder, Holding
  <2>5. McpRecords'
    <3>1. server' \in 0 .. Len(tasks') /\ session' \in 0 .. Len(tasks') /\ event' \in 0 .. Len(tasks')
      BY <1>1, <1>5, <2>1 DEF McpRecords
    <3> QED
      BY <1>1, <1>5, <3>1 DEF McpRecords
  <2>6. McpLinks'
    <3>1. \A t \in 1 .. Len(tasks') : t = server' => tasks'[t] = "told"
      BY <1>1, <1>3, <1>7, <2>1
    <3>2. \A t \in 1 .. Len(tasks') : t # session'
      BY <1>5
    <3>3. \A t \in 1 .. Len(tasks') : tasks'[t] # "connecting"
      BY <1>1, <1>9
    <3> QED
      BY <1>5, <2>4, <3>1, <3>2, <3>3 DEF McpLinks, McpTasks, McpSession
  <2>7. McpUndisturbed'
    <3>1. \A t \in 1 .. Len(tasks') : t = server' => tasks'[t] = "told"
      BY <1>1, <1>3, <1>7, <2>1
    <3>2. \A t \in 1 .. Len(tasks') : Live(t)' => t = server' \/ t \in clobbered'
      BY <1>1, <1>4, <2>1 DEF McpUndisturbed
    <3> QED
      BY <2>4, <3>1, <3>2 DEF McpUndisturbed
  <2> QED
    BY <2>3, <2>5, <2>6, <2>7
<1>8. CASE ~(server # NoTask /\ Live(server))
  <2> DEFINE new == AfterStop(c, rec)
  <2>1. client' = [client EXCEPT ![c] = new] /\ lock' = queue /\ server' = 0
    BY <1>8 DEF StopBody, NoTask
  <2>2. new \in ClientType' /\ new.at \notin LockPoints
    BY <1>1, <1>6 DEF ClientType, ClientPoints, AfterStop, NotCalling, NoTask, LockPoints
  <2> HIDE DEF new
  <2>3. McpQueue'
    BY <1>0, <2>1, <2>2, McpServed
  <2>5. McpRecords'
    <3>1. server' \in 0 .. Len(tasks') /\ session' \in 0 .. Len(tasks') /\ event' \in 0 .. Len(tasks')
      BY <1>1, <1>5, <2>1 DEF McpRecords
    <3> QED
      BY <1>1, <1>5, <3>1 DEF McpRecords
  <2>6. McpLinks'
    BY <1>1, <1>5, <1>9, <2>1 DEF McpLinks, McpTasks, McpSession
  <2>7. McpUndisturbed'
    <3>1. \A t \in 1 .. Len(tasks) : Live(t) => t \in clobbered
      BY <1>8 DEF McpUndisturbed, NoTask
    <3>2. \A t \in 1 .. Len(tasks') : Live(t)' => t \in clobbered'
      BY <1>1, <1>4, <3>1
    <3> QED
      BY <2>1, <3>2 DEF McpUndisturbed
  <2> QED
    BY <2>3, <2>5, <2>6, <2>7
<1> QED
  BY <1>7, <1>8

LEMMA McpStartBody ==
    ASSUME McpInv, NEW c \in Clients, NEW queue, LockFor(c, queue),
           client[c].at \notin Holding, lock = <<>> => client[c].at \notin LockPoints,
           NEW rec \in ClientType, StartBody(c, rec, queue),
           UNCHANGED attempts, clobbered \subseteq clobbered'
    PROVE  McpInv'
<1> USE DEF McpInv
<1>0. McpQueue /\ Len(tasks) \in Nat
  BY DEF McpRecords
<1>2. \A points \in SUBSET Holding : ~Holder(points)
  BY McpNobodyHolds
<1>3. \A t \in 1 .. Len(tasks) : t = server /\ Live(t) => tasks[t] = "serving" /\ event = t
  <2>1. ~Holder({"stopping", "clearing"}) /\ ~Holder({"connecting"})
    BY <1>2 DEF Holding
  <2> QED
    BY <2>1 DEF McpLinks, McpTasks, Live
<1>4. ~Holder({"connecting", "discovering"}) /\ ~Holder(Holding)
  BY <1>2 DEF Holding
<1>5. \A t \in 1 .. Len(tasks) : tasks[t] # "connecting" /\ (t = server => tasks[t] # "told")
  BY <1>2 DEF McpLinks, McpTasks, Holding
<1>6. \A t \in 1 .. Len(tasks) : t = session => tasks[t] = "serving" /\ (t = server \/ ~connected)
  BY <1>2 DEF McpLinks, McpSession, Holding
<1>7. CASE IsConnected
  <2> DEFINE new == AfterStart(c, rec, TRUE)
  <2>1. /\ client' = [client EXCEPT ![c] = new] /\ lock' = queue
        /\ UNCHANGED <<tasks, session, connected, server, event>>
    BY <1>7 DEF StartBody
  <2>2. new \in ClientType' /\ new.at \notin LockPoints
    <3>1. rec \in ClientType' /\ session \in 0 .. Len(tasks') /\ 0 \in 0 .. Len(tasks')
      BY <1>0, <2>1 DEF ClientType, McpRecords
    <3>2. new = [rec EXCEPT !.at = "calling", !.on = session] \/ new = NotCalling
      BY DEF AfterStart
    <3>3. CASE new = [rec EXCEPT !.at = "calling", !.on = session]
      BY <3>1, <3>3 DEF ClientType, ClientPoints, LockPoints
    <3>4. CASE new = NotCalling
      <4>1. NotCalling \in ClientType'
        BY <3>1 DEF ClientType, ClientPoints, NotCalling, NoTask
      <4>2. NotCalling.at \notin LockPoints
        BY DEF NotCalling, LockPoints
      <4> QED
        BY <3>4, <4>1, <4>2
    <3> QED
      BY <3>2, <3>3, <3>4
  <2> HIDE DEF new
  <2>3. McpQueue'
    <3>1. Len(tasks') \in Nat /\ Len(tasks) <= Len(tasks')
      BY <1>0, <2>1
    <3> QED
      BY <1>0, <2>1, <2>2, <3>1, McpServed
  <2>5. McpRecords'
    BY <2>1 DEF McpRecords
  <2>8. \A points \in SUBSET Holding : ~Holder(points)'
    <3>0. /\ queue \in Seq(Clients) /\ Distinct(queue) /\ c \notin ToSet(queue)
          /\ \A d \in Clients : d # c => client[d].at \notin Holding
      BY <1>0, McpLockFor
    <3>1. queue # <<>> => Head(queue) \in ToSet(queue) /\ Head(queue) \in Clients
      BY <3>0, HeadLeaves
    <3>2. \A d \in Clients : d # c => client'[d].at \notin Holding
      BY <1>0, <2>1, <3>0 DEF McpQueue
    <3>3. queue # <<>> => Head(queue) # c
      BY <3>0, <3>1
    <3> QED
      BY <2>1, <3>1, <3>2, <3>3 DEF Holder
  <2>6. McpLinks'
    <3>1. ~Holder({"discovering"})' /\ ~Holder({"connecting"})' /\ ~Holder({"stopping"})'
      BY <2>8 DEF Holding
    <3> QED
      BY <1>3, <1>5, <1>6, <2>1, <3>1 DEF McpLinks, McpTasks, McpSession, Live
  <2>7. McpUndisturbed'
    <3>1. \A t \in 1 .. Len(tasks) : t = server /\ t \notin clobbered /\ tasks[t] = "serving" =>
            session = t /\ connected
      BY <1>4 DEF McpUndisturbed
    <3>2. \A t \in 1 .. Len(tasks) : t = server /\ t \notin clobbered /\ Live(t) => attempts = 0
      BY <1>4 DEF McpUndisturbed
    <3>3. \A t \in 1 .. Len(tasks) : Live(t) => t = server \/ t \in clobbered
      BY DEF McpUndisturbed
    <3>4. \A t \in 1 .. Len(tasks) : Live(t)' <=> Live(t)
      BY <2>1 DEF Live
    <3> QED
      BY <2>1, <3>1, <3>2, <3>3, <3>4 DEF McpUndisturbed
  <2> QED
    BY <2>3, <2>5, <2>6, <2>7
<1>8. CASE ~IsConnected
  <2> DEFINE new == [rec EXCEPT !.at = "connecting"]
             n == Len(tasks) + 1
  <2>1. /\ client' = [client EXCEPT ![c] = new] /\ lock' = <<c>> \o queue
        /\ tasks' = Append(tasks, "connecting") /\ server' = n /\ event' = n
        /\ UNCHANGED <<session, connected>>
    BY <1>8 DEF StartBody
  <2>2. /\ tasks' \in Seq(TaskStates) /\ Len(tasks') = n /\ tasks'[n] = "connecting"
        /\ \A t \in 1 .. Len(tasks) : tasks'[t] = tasks[t]
        /\ \A t \in 1 .. n : t = n \/ t \in 1 .. Len(tasks)
    BY <1>0, <2>1 DEF McpRecords, TaskStates
  <2>3. new \in ClientType' /\ new.at = "connecting"
    <3>1. rec \in ClientType'
      BY <1>0, <2>2, McpClientsGrow
    <3> QED
      BY <3>1 DEF ClientType, ClientPoints
  <2> HIDE DEF new
  <2>4. McpQueue'
    <3>1. Len(tasks') \in Nat /\ Len(tasks) <= Len(tasks')
      BY <1>0, <2>2
    <3> QED
      BY <1>0, <2>1, <2>3, <3>1, McpServed DEF Holding
  <2>5. /\ Holder({"connecting"})' /\ Holder(Holding)'
        /\ ~Holder({"discovering"})' /\ ~Holder({"stopping"})'
    <3>1. lock' # <<>> /\ Head(lock') = c
      BY <2>1, McpLockFor
    <3>2. client'[c].at = "connecting"
      BY <2>1, <2>3 DEF McpQueue
    <3> QED
      BY <3>1, <3>2 DEF Holder, Holding
  <2>6. McpRecords'
    BY <1>0, <2>1, <2>2 DEF McpRecords
  <2>7. McpLinks'
    <3>1. session \in 0 .. Len(tasks) /\ (session # 0 => ~connected)
      BY <1>8 DEF McpRecords, IsConnected, NoTask
    <3>2. McpTasks'
      BY <1>0, <1>5, <2>1, <2>2, <2>5 DEF McpTasks
    <3>3. McpSession'
      BY <1>0, <1>6, <2>1, <2>2, <2>5, <3>1 DEF McpSession
    <3> QED
      BY <3>2, <3>3 DEF McpLinks
  <2>8. McpUndisturbed'
    <3>1. \A t \in 1 .. Len(tasks) : Live(t) => t \in clobbered
      <4>1. \A t \in 1 .. Len(tasks) : Live(t) => t \in clobbered \/ (session = t /\ connected)
        BY <1>3, <1>4 DEF McpUndisturbed
      <4> QED
        BY <1>8, <4>1 DEF IsConnected, NoTask
    <3>2. \A t \in 1 .. Len(tasks') : t # n => (Live(t)' => t \in clobbered')
      BY <2>2, <3>1 DEF Live
    <3>3. tasks'[n] # "serving"
      BY <2>2
    <3> QED
      BY <2>1, <2>5, <3>2, <3>3 DEF McpUndisturbed
  <2> QED
    BY <2>4, <2>6, <2>7, <2>8
<1> QED
  BY <1>7, <1>8

\* Whoever holds the lock goes on holding it where it was.
LEMMA McpHolderStays ==
    ASSUME McpQueue, NEW c \in Clients, NEW rec, client' = [client EXCEPT ![c] = rec],
           lock' # <<>> <=> lock # <<>>,
           lock # <<>> => c # Head(lock) /\ Head(lock') = Head(lock)
    PROVE  \A points \in SUBSET Holding : Holder(points)' <=> Holder(points)
<1>1. lock # <<>> => Head(lock) \in Clients
  BY HeadLeaves DEF McpQueue
<1>2. lock # <<>> => client'[Head(lock')] = client[Head(lock)]
  BY <1>1 DEF McpQueue
<1> QED
  BY <1>2 DEF Holder

LEMMA McpSubsets == /\ Holding \in SUBSET Holding /\ {"stopping"} \in SUBSET Holding
                    /\ {"connecting"} \in SUBSET Holding
                    /\ {"connecting", "discovering"} \in SUBSET Holding
                    /\ {"stopping", "clearing"} \in SUBSET Holding
                    /\ {"clearing"} \in SUBSET Holding /\ {"discovering"} \in SUBSET Holding
BY DEF Holding

\* No task of the server lives.
NoServer == \A t \in 1 .. Len(tasks) : t = server => ~Live(t)

\* A step that leaves the tasks and the holder of the lock alone.
LEMMA McpTasksStay ==
    ASSUME McpInv, UNCHANGED <<tasks, session, server, event>>,
           \A points \in SUBSET Holding : Holder(points)' <=> Holder(points),
           connected' \in BOOLEAN, attempts' \in 0 .. (MaxReconnects + 1),
           clobbered \subseteq clobbered', McpQueue', connected' => connected,
           \/ server \in clobbered' \/ NoServer
           \/ connected' = connected /\ (attempts' = attempts \/ Holder(Holding))
    PROVE  McpInv'
<1> USE DEF McpInv
<1>1. /\ Holder(Holding)' <=> Holder(Holding)
      /\ Holder({"stopping"})' <=> Holder({"stopping"})
      /\ Holder({"connecting"})' <=> Holder({"connecting"})
      /\ Holder({"connecting", "discovering"})' <=> Holder({"connecting", "discovering"})
      /\ Holder({"stopping", "clearing"})' <=> Holder({"stopping", "clearing"})
      /\ Holder({"clearing"})' <=> Holder({"clearing"})
      /\ Holder({"discovering"})' <=> Holder({"discovering"})
  BY McpSubsets
<1>2. McpRecords'
  BY DEF McpRecords
<1>3. McpLinks'
  BY <1>1 DEF McpLinks, McpTasks, McpSession
<1>4. \A t : Live(t)' <=> Live(t)
  BY DEF Live
<1>5. McpUndisturbed'
  <2>1. \A t \in 1 .. Len(tasks) : Live(t)' => t = server' \/ t \in clobbered'
    BY <1>4 DEF McpUndisturbed
  <2>2. CASE server \in clobbered'
    BY <2>1, <2>2 DEF McpUndisturbed
  <2>3. CASE NoServer
    <3>1. \A t \in 1 .. Len(tasks) : t = server => ~Live(t) /\ tasks[t] # "serving"
      BY <2>3 DEF NoServer, Live
    <3> QED
      BY <1>4, <2>1, <3>1 DEF McpUndisturbed
  <2>4. CASE connected' = connected /\ (attempts' = attempts \/ Holder(Holding))
    <3>1. \A t \in 1 .. Len(tasks) : t = server /\ t \notin clobbered' /\ tasks[t] = "serving" =>
             session = t /\ (connected' \/ Holder({"connecting", "discovering"})')
      BY <1>1, <2>4 DEF McpUndisturbed
    <3>2. \A t \in 1 .. Len(tasks) : t = server /\ t \notin clobbered' /\ Live(t) =>
             attempts' = 0 \/ Holder(Holding)'
      BY <1>1, <2>4 DEF McpUndisturbed
    <3> QED
      BY <1>4, <2>1, <3>1, <3>2 DEF McpUndisturbed
  <2> QED
    BY <2>2, <2>3, <2>4
<1> QED
  BY <1>2, <1>3, <1>5

LEMMA McpEnterStop ==
    ASSUME McpInv, NEW c \in Clients, client[c].at \notin LockPoints,
           NEW rec \in ClientType, NEW flag \in BOOLEAN, flag => connected, EnterStop(c, rec, flag),
           attempts' \in 0 .. (MaxReconnects + 1), clobbered \subseteq clobbered',
           \/ server \in clobbered' \/ lock = <<>> \/ NoServer
           \/ flag = connected /\ (attempts' = attempts \/ Holder(Holding))
    PROVE  McpInv'
<1>1. client[c].at \notin Holding
  BY DEF LockPoints, Holding
<1>2. CASE lock = <<>>
  <2>1. StopBody(c, rec, <<>>) /\ LockFor(c, <<>>)
    BY <1>2 DEF EnterStop, LockFor
  <2> QED
    BY <1>1, <2>1, McpStopBody
<1>3. CASE lock # <<>>
  <2> DEFINE new == [rec EXCEPT !.at = "waitStop"]
  <2>1. /\ lock' = Append(lock, c) /\ client' = [client EXCEPT ![c] = new]
        /\ connected' = flag /\ UNCHANGED <<tasks, session, server, event>>
    BY <1>3 DEF EnterStop
  <2>2. new \in ClientType /\ new.at \in {"waitStop", "waitStart"}
    BY DEF ClientType, ClientPoints
  <2>3. McpQueue
    BY DEF McpInv
  <2> HIDE DEF new
  <2>4. McpQueue' /\ c # Head(lock) /\ Head(lock') = Head(lock) /\ lock' # <<>>
    BY <1>3, <2>1, <2>2, <2>3, McpQueues
  <2>5. \A points \in SUBSET Holding : Holder(points)' <=> Holder(points)
    BY <1>3, <2>1, <2>3, <2>4, McpHolderStays
  <2> QED
    BY <1>3, <2>1, <2>4, <2>5, McpTasksStay
<1> QED
  BY <1>2, <1>3

LEMMA McpEnterStart ==
    ASSUME McpInv, NEW c \in Clients, client[c].at \notin LockPoints,
           NEW rec \in ClientType, EnterStart(c, rec), UNCHANGED attempts, clobbered \subseteq clobbered'
    PROVE  McpInv'
<1>1. client[c].at \notin Holding
  BY DEF LockPoints, Holding
<1>2. CASE lock = <<>>
  <2>1. StartBody(c, rec, <<>>) /\ LockFor(c, <<>>)
    BY <1>2 DEF EnterStart, LockFor
  <2> QED
    BY <1>1, <2>1, McpStartBody
<1>3. CASE lock # <<>>
  <2> DEFINE new == [rec EXCEPT !.at = "waitStart"]
  <2>1. /\ lock' = Append(lock, c) /\ client' = [client EXCEPT ![c] = new]
        /\ UNCHANGED <<tasks, session, connected, server, event>>
    BY <1>3 DEF EnterStart
  <2>2. new \in ClientType /\ new.at \in {"waitStop", "waitStart"}
    BY DEF ClientType, ClientPoints
  <2>3. McpQueue /\ McpRecords
    BY DEF McpInv
  <2> HIDE DEF new
  <2>4. McpQueue' /\ c # Head(lock) /\ Head(lock') = Head(lock) /\ lock' # <<>>
    BY <1>3, <2>1, <2>2, <2>3, McpQueues
  <2>5. \A points \in SUBSET Holding : Holder(points)' <=> Holder(points)
    BY <1>3, <2>1, <2>3, <2>4, McpHolderStays
  <2>6. connected' \in BOOLEAN /\ attempts' \in 0 .. (MaxReconnects + 1)
    BY <2>1, <2>3 DEF McpRecords
  <2> QED
    BY <2>1, <2>4, <2>5, <2>6, McpTasksStay
<1> QED
  BY <1>2, <1>3

LEMMA McpReconnect ==
    ASSUME McpInv, NEW c \in Clients, client[c].at \notin LockPoints,
           NEW rec \in ClientType, NEW flag \in BOOLEAN, flag => connected, Reconnect(c, rec, flag),
           clobbered \subseteq clobbered',
           \/ server \in clobbered' \/ lock = <<>> \/ NoServer
           \/ flag = connected /\ Holder(Holding)
    PROVE  McpInv'
<1>1. McpQueue /\ McpRecords
  BY DEF McpInv
<1>2. attempts' \in 0 .. (MaxReconnects + 1)
  BY <1>1, McpConstants DEF McpRecords, Reconnect, OneMoreAttempt
<1>3. CASE attempts < MaxReconnects
  <2>1. EnterStop(c, rec, flag)
    BY <1>3 DEF Reconnect
  <2> QED
    BY <1>2, <2>1, McpEnterStop
<1>4. CASE ~(attempts < MaxReconnects)
  <2>1. /\ client' = [client EXCEPT ![c] = NotCalling] /\ connected' = flag
        /\ UNCHANGED <<tasks, session, server, event, lock>>
    BY <1>4 DEF Reconnect
  <2>2. NotCalling \in ClientType /\ NotCalling.at \notin LockPoints
    BY <1>1 DEF ClientType, ClientPoints, NotCalling, NoTask, LockPoints, McpRecords
  <2>3. McpQueue' /\ (lock # <<>> => c # Head(lock))
    BY <1>1, <2>1, <2>2, McpApart
  <2>4. \A points \in SUBSET Holding : Holder(points)' <=> Holder(points)
    BY <1>1, <2>1, <2>3, McpHolderStays
  <2>5. ASSUME lock = <<>>, server \notin clobbered' PROVE NoServer
    <3>1. ~Holder(Holding) /\ attempts # 0
      BY <1>1, <1>4, <2>5, McpConstants DEF Holder, McpRecords
    <3>2. McpUndisturbed
      BY <2>5 DEF McpInv
    <3> QED
      BY <2>5, <3>1, <3>2 DEF McpUndisturbed, NoServer
  <2> QED
    BY <1>2, <2>1, <2>3, <2>4, <2>5, McpTasksStay
<1> QED
  BY <1>3, <1>4

LEMMA McpNewJob ==
    ASSUME McpRecords, NEW job \in {"start", "stop", "restart", "call"}
    PROVE  Job(job) \in ClientType
<1>1. 0 \in 0 .. Len(tasks)
  BY DEF McpRecords
<1>2. NotCalling \in ClientType
  BY <1>1 DEF NotCalling, NoTask, ClientType, ClientPoints
<1> QED
  BY <1>2 DEF Job, ClientType

LEMMA McpAsks ==
    ASSUME McpInv, NEW c \in Clients, CallsStart(c) \/ CallsStop(c) \/ CallsTool(c)
    PROVE  McpInv'
<1>1. McpQueue /\ McpRecords
  BY DEF McpInv
<1>2. client[c].at \notin LockPoints /\ UNCHANGED clobbered
  BY DEF CallsStart, CallsStop, CallsTool, BeginsJob, LockPoints
<1>3. connected \in BOOLEAN /\ attempts \in 0 .. (MaxReconnects + 1)
  BY <1>1 DEF McpRecords
<1>4. CASE CallsStart(c)
  <2>1. EnterStart(c, Job("start")) /\ UNCHANGED attempts /\ Job("start") \in ClientType
    BY <1>1, <1>4, McpNewJob DEF CallsStart
  <2> QED
    BY <1>2, <2>1, McpEnterStart
<1>5. CASE CallsStop(c)
  <2>1. PICK job \in {"stop", "restart"} : EnterStop(c, Job(job), connected) /\ UNCHANGED attempts
    BY <1>5 DEF CallsStop
  <2>2. Job(job) \in ClientType
    BY <1>1, McpNewJob
  <2>3. server \in clobbered' \/ lock = <<>> \/ NoServer \/ (connected = connected /\ attempts' = attempts)
    BY <2>1
  <2> QED
    BY <1>2, <1>3, <2>1, <2>2, <2>3, McpEnterStop
<1>6. CASE CallsTool(c) /\ IsConnected
  <2> DEFINE new == [Job("call") EXCEPT !.at = "calling", !.on = session]
  <2>1. /\ client' = [client EXCEPT ![c] = new]
        /\ UNCHANGED <<tasks, session, connected, server, event, attempts, lock>>
    BY <1>6 DEF CallsTool
  <2>2. new \in ClientType /\ new.at \notin LockPoints
    BY <1>1 DEF ClientType, ClientPoints, Job, NotCalling, NoTask, LockPoints, McpRecords
  <2> HIDE DEF new
  <2>3. McpQueue' /\ (lock # <<>> => c # Head(lock))
    BY <1>1, <1>2, <2>1, <2>2, McpApart
  <2>4. \A points \in SUBSET Holding : Holder(points)' <=> Holder(points)
    BY <1>1, <2>1, <2>3, McpHolderStays
  <2> QED
    BY <1>2, <1>3, <2>1, <2>3, <2>4, McpTasksStay
<1>7. CASE CallsTool(c) /\ ~IsConnected
  <2>1. Reconnect(c, Job("call"), connected) /\ Job("call") \in ClientType
    BY <1>1, <1>7, McpNewJob DEF CallsTool
  <2>2. ASSUME server \notin clobbered', ~Holder(Holding) PROVE NoServer
    <3>1. McpUndisturbed /\ McpLinks
      BY <1>2, <2>2 DEF McpInv
    <3>2. /\ ~Holder({"stopping", "clearing"}) /\ ~Holder({"connecting"})
          /\ ~Holder({"connecting", "discovering"})
      BY <2>2 DEF Holder, Holding
    <3>3. \A t \in 1 .. Len(tasks) : t = server /\ Live(t) => session = t /\ connected
      BY <1>2, <2>2, <3>1, <3>2 DEF McpLinks, McpTasks, McpUndisturbed, Live
    <3>4. \A t \in 1 .. Len(tasks) : ~(session = t /\ connected)
      BY <1>7 DEF IsConnected, NoTask
    <3> QED
      BY <3>3, <3>4 DEF NoServer
  <2> QED
    BY <1>2, <1>3, <2>1, <2>2, McpReconnect
<1> QED
  BY <1>4, <1>5, <1>6, <1>7

LEMMA McpTakesLock ==
    ASSUME McpInv, NEW c \in Clients, TakesLock(c)
    PROVE  McpInv'
<1>1. McpQueue /\ McpRecords
  BY DEF McpInv
<1>2. /\ client[c] \in ClientType /\ attempts' \in 0 .. (MaxReconnects + 1)
      /\ UNCHANGED <<attempts, clobbered>>
  BY <1>1 DEF McpQueue, McpRecords, TakesLock
<1>3. lock # <<>> /\ LockFor(c, Tail(lock))
  BY DEF TakesLock, LockFor
<1>4. CASE client[c].at = "waitStop" /\ StopBody(c, client[c], Tail(lock))
  BY <1>2, <1>3, <1>4, McpStopBody DEF Holding
<1>5. CASE client[c].at = "waitStart" /\ StartBody(c, client[c], Tail(lock))
  BY <1>2, <1>3, <1>5, McpStartBody DEF Holding
<1> QED
  BY <1>4, <1>5 DEF TakesLock

LEMMA McpPauseEnds ==
    ASSUME McpInv, NEW c \in Clients, PauseEnds(c)
    PROVE  McpInv'
<1>1. client[c] \in ClientType
  BY DEF McpInv, McpQueue
<1>2. client[c].at \notin LockPoints /\ EnterStart(c, client[c]) /\ UNCHANGED <<attempts, clobbered>>
  BY DEF PauseEnds, LockPoints
<1> QED
  BY <1>1, <1>2, McpEnterStart

\* The holder of the lock leaves it to the next coroutine.
LEMMA McpLeaves ==
    ASSUME McpQueue, McpRecords, NEW c \in Clients, client[c].at \in Holding,
           tasks' \in Seq(TaskStates), Len(tasks') = Len(tasks), lock' = Tail(lock),
           NEW rec \in ClientType, rec.at \notin LockPoints,
           client' = [client EXCEPT ![c] = rec]
    PROVE  /\ McpQueue'
           /\ \A points \in SUBSET ClientPoints :
                client[c].at \notin points => ~Holder(points)
<1>1. lock # <<>> /\ Head(lock) = c
  BY DEF McpQueue
<1>2. LockFor(c, Tail(lock))
  BY <1>1 DEF LockFor
<1>3. Len(tasks) \in Nat /\ Len(tasks') \in Nat /\ Len(tasks) <= Len(tasks') /\ rec \in ClientType'
  BY DEF McpRecords, ClientType
<1>4. McpQueue'
  BY <1>1, <1>2, <1>3, McpServed
<1> QED
  BY <1>1, <1>4 DEF Holder

\* When it left, nobody holds the lock: the next one has yet to take it.
LEMMA McpNoneHolds ==
    ASSUME McpQueue, NEW c \in Clients, client[c].at \in Holding, lock' = Tail(lock), McpQueue',
           NEW rec, rec.at \notin LockPoints, client' = [client EXCEPT ![c] = rec]
    PROVE  \A points \in SUBSET Holding : ~Holder(points)'
<1>1. lock # <<>> /\ Head(lock) = c
  BY DEF McpQueue
<1>2. ToSet(lock') = ToSet(lock) \ {c}
  BY <1>1, HeadLeaves DEF McpQueue
<1>3. lock' # <<>> => Head(lock') \in ToSet(lock') /\ Head(lock') \in Clients
  BY HeadLeaves DEF McpQueue
<1>4. \A d \in Clients : d # c => client[d].at \notin Holding /\ client'[d] = client[d]
  BY <1>1 DEF McpQueue
<1> QED
  BY <1>2, <1>3, <1>4 DEF Holder

LEMMA McpStopEnds ==
    ASSUME McpInv, NEW c \in Clients, StopEnds(c)
    PROVE  McpInv'
<1>1. McpQueue /\ McpRecords /\ McpLinks
  BY DEF McpInv
<1> DEFINE new == AfterStop(c, client[c])
<1>2. /\ client[c].at = "stopping" /\ server' = 0 /\ lock' = Tail(lock)
      /\ client' = [client EXCEPT ![c] = new]
      /\ UNCHANGED <<event, attempts, clobbered>>
  BY DEF StopEnds, NoTask
<1>3. new \in ClientType /\ new.at \notin LockPoints
  <2>1. client[c] \in ClientType /\ NotCalling \in ClientType
    BY <1>1 DEF McpQueue, McpRecords, ClientType, ClientPoints, NotCalling, NoTask
  <2> QED
    BY <2>1 DEF AfterStop, ClientType, ClientPoints, LockPoints, NotCalling
<1> HIDE DEF new
<1>4. /\ tasks' \in Seq(TaskStates) /\ Len(tasks') = Len(tasks)
      /\ \A t \in 1 .. Len(tasks) : tasks'[t] = IF t = server /\ Live(t) THEN "over" ELSE tasks[t]
  <2>1. CASE server \in 1 .. Len(tasks) /\ Live(server)
    BY <1>1, <2>1 DEF StopEnds, McpRecords, TaskStates
  <2>2. CASE server = 0 /\ Live(server)
    <3>1. tasks' = tasks
      BY <1>1, <2>2 DEF StopEnds, McpRecords
    <3> QED
      BY <1>1, <2>2, <3>1 DEF McpRecords
  <2>3. CASE ~Live(server)
    BY <1>1, <2>3 DEF StopEnds, McpRecords
  <2> QED
    BY <1>1, <2>1, <2>2, <2>3 DEF McpRecords
<1>5. McpQueue'
  BY <1>1, <1>2, <1>3, <1>4, McpLeaves DEF Holding
<1>6. \/ session' = 0 /\ connected' = FALSE
      \/ tasks' = tasks /\ session' = session /\ connected' = connected /\ ~Live(server)
  BY DEF StopEnds, NoTask
<1>7. McpRecords'
  <2>1. session' \in 0 .. Len(tasks')
    BY <1>1, <1>4, <1>6 DEF McpRecords
  <2>2. connected' \in BOOLEAN
    BY <1>1, <1>6 DEF McpRecords
  <2> QED
    BY <1>1, <1>2, <1>4, <2>1, <2>2 DEF McpRecords
<1>8. McpLinks'
  <2>1. Holder({"stopping"}) /\ ~Holder({"connecting"})
    BY <1>1, <1>2 DEF McpQueue, Holding, Holder
  <2>2. session' = 0 /\ \A t \in 1 .. Len(tasks) : tasks[t] # "connecting"
    BY <1>1, <1>6, <2>1 DEF McpLinks, McpTasks, McpSession
  <2> QED
    BY <1>1, <1>2, <1>4, <2>2 DEF McpLinks, McpTasks, McpSession
<1>9. McpUndisturbed'
  <2>1. \A t \in 1 .. Len(tasks) : Live(t) => t = server \/ t \in clobbered
    BY DEF McpInv, McpUndisturbed
  <2>2. \A t \in 1 .. Len(tasks') : Live(t)' => t \in clobbered
    BY <1>4, <2>1 DEF Live
  <2> QED
    BY <1>2, <2>2 DEF McpUndisturbed
<1> QED
  BY <1>5, <1>7, <1>8, <1>9 DEF McpInv

\* The cancelled start has ended its task.
LEMMA McpCleared ==
    ASSUME McpInv, NEW c \in Clients, Cleared(c)
    PROVE  McpInv'
<1>1. McpQueue /\ McpRecords /\ McpLinks
  BY DEF McpInv
<1>2. /\ client[c].at = "clearing" /\ server' = 0 /\ event' = 0 /\ lock' = Tail(lock)
      /\ client' = [client EXCEPT ![c] = NotCalling]
      /\ UNCHANGED <<attempts, clobbered>>
  BY DEF Cleared, NoTask
<1>3. NotCalling \in ClientType /\ NotCalling.at \notin LockPoints
  BY <1>1 DEF ClientType, ClientPoints, NotCalling, NoTask, LockPoints, McpRecords
<1>4. /\ tasks' \in Seq(TaskStates) /\ Len(tasks') = Len(tasks)
      /\ \A t \in 1 .. Len(tasks) : tasks'[t] = IF t = server /\ Live(t) THEN "over" ELSE tasks[t]
  <2>1. CASE server \in 1 .. Len(tasks) /\ Live(server)
    BY <1>1, <2>1 DEF Cleared, McpRecords, TaskStates
  <2>2. CASE server = 0 /\ Live(server)
    <3>1. tasks' = tasks
      BY <1>1, <2>2 DEF Cleared, McpRecords
    <3> QED
      BY <1>1, <2>2, <3>1 DEF McpRecords
  <2>3. CASE ~Live(server)
    BY <1>1, <2>3 DEF Cleared, McpRecords
  <2> QED
    BY <1>1, <2>1, <2>2, <2>3 DEF McpRecords
<1>5. McpQueue'
  BY <1>1, <1>2, <1>3, <1>4, McpLeaves DEF Holding
<1>6. \/ session' = 0 /\ connected' = FALSE
      \/ tasks' = tasks /\ session' = session /\ connected' = connected /\ ~Live(server)
  BY DEF Cleared, NoTask
<1>7. McpRecords'
  <2>1. session' \in 0 .. Len(tasks')
    BY <1>1, <1>4, <1>6 DEF McpRecords
  <2>2. connected' \in BOOLEAN
    BY <1>1, <1>6 DEF McpRecords
  <2> QED
    BY <1>1, <1>2, <1>4, <2>1, <2>2 DEF McpRecords
<1>8. McpLinks'
  <2>1. ~Holder({"stopping"}) /\ ~Holder({"connecting"})
    BY <1>1, <1>2 DEF McpQueue, Holding, Holder
  <2>2. \A t \in 1 .. Len(tasks) : tasks[t] # "connecting"
    BY <1>1, <2>1 DEF McpLinks, McpTasks
  <2>3. \A points \in SUBSET Holding : ~Holder(points)'
    BY <1>1, <1>2, <1>3, <1>5, McpNoneHolds DEF Holding
  <2>4. ~Holder({"discovering"})' /\ ~Holder({"connecting"})' /\ ~Holder({"stopping"})'
    BY <2>3, McpSubsets
  <2>5. McpTasks'
    BY <1>2, <1>4, <2>2 DEF McpTasks
  <2>6. McpSession'
    <3>1. CASE session' = 0
      BY <2>4, <3>1 DEF McpSession
    <3>2. CASE tasks' = tasks /\ session' = session /\ connected' = connected /\ ~Live(server)
      BY <1>1, <2>4, <3>2 DEF McpLinks, McpSession, Live
    <3> QED
      BY <1>6, <3>1, <3>2
  <2> QED
    BY <2>5, <2>6 DEF McpLinks
<1>9. McpUndisturbed'
  <2>1. \A t \in 1 .. Len(tasks) : Live(t) => t = server \/ t \in clobbered
    BY DEF McpInv, McpUndisturbed
  <2>2. \A t \in 1 .. Len(tasks') : Live(t)' => t \in clobbered
    BY <1>4, <2>1 DEF Live
  <2> QED
    BY <1>2, <2>2 DEF McpUndisturbed
<1> QED
  BY <1>5, <1>7, <1>8, <1>9 DEF McpInv

LEMMA McpConnectFails ==
    ASSUME McpInv, NEW c \in Clients, ConnectFails(c)
    PROVE  McpInv'
<1>1. McpQueue /\ McpRecords /\ McpLinks
  BY DEF McpInv
<1>2. /\ client[c].at = "connecting" /\ tasks[server] = "failed"
      /\ server' = 0 /\ event' = 0 /\ connected' = FALSE /\ lock' = Tail(lock)
      /\ client' = [client EXCEPT ![c] = NotCalling]
      /\ UNCHANGED <<tasks, session, attempts, clobbered>>
  BY DEF ConnectFails, NoTask
<1>3. NotCalling \in ClientType /\ NotCalling.at \notin LockPoints
  BY <1>1 DEF ClientType, ClientPoints, NotCalling, NoTask, LockPoints, McpRecords
<1>4. tasks' \in Seq(TaskStates) /\ Len(tasks') = Len(tasks)
  BY <1>1, <1>2 DEF McpRecords
<1>5. McpQueue'
  BY <1>1, <1>2, <1>3, <1>4, McpLeaves DEF Holding
<1>6. McpRecords' /\ McpLinks'
  <2>1. 0 \in 0 .. Len(tasks)
    BY <1>1 DEF McpRecords
  <2>2. McpRecords'
    BY <1>1, <1>2, <2>1 DEF McpRecords
  <2>3. \A t \in 1 .. Len(tasks) : tasks[t] # "connecting"
    BY <1>1, <1>2 DEF McpLinks, McpTasks
  <2>4. ~Holder({"clearing"})
    BY <1>1, <1>2 DEF McpQueue, Holding, Holder
  <2>5. \A points \in SUBSET Holding : ~Holder(points)'
    BY <1>1, <1>2, <1>3, <1>5, McpNoneHolds DEF Holding
  <2>6. ~Holder({"discovering"})' /\ ~Holder({"connecting"})' /\ ~Holder({"stopping"})'
    BY <2>5, McpSubsets
  <2>7. McpTasks' /\ McpSession'
    BY <1>1, <1>2, <2>3, <2>4, <2>6 DEF McpLinks, McpTasks, McpSession
  <2> QED
    BY <2>2, <2>7 DEF McpLinks
<1>7. McpUndisturbed'
  <2>1. \A t \in 1 .. Len(tasks) : Live(t) => t \in clobbered
    BY <1>2 DEF McpInv, McpUndisturbed, Live
  <2>2. \A t \in 1 .. Len(tasks') : Live(t)' => t \in clobbered
    BY <1>2, <2>1 DEF Live
  <2> QED
    BY <1>2, <2>2 DEF McpUndisturbed
<1> QED
  BY <1>5, <1>6, <1>7 DEF McpInv

LEMMA McpConnects ==
    ASSUME McpInv, NEW c \in Clients, Connects(c)
    PROVE  McpInv'
<1>1. McpQueue /\ McpRecords /\ McpLinks
  BY DEF McpInv
<1>2. /\ client[c].at = "connecting" /\ tasks[server] \in {"serving", "over"}
      /\ client' = [client EXCEPT ![c].at = "discovering"]
      /\ UNCHANGED <<tasks, session, connected, server, event, attempts, lock, clobbered>>
  BY DEF Connects, At
<1>3. lock # <<>> /\ Head(lock) = c
  BY <1>1, <1>2 DEF McpQueue, Holding
<1>4. /\ client' \in [Clients -> ClientType] /\ client'[c].at = "discovering"
      /\ \A d \in Clients : d # c => client'[d] = client[d]
  BY <1>1, <1>2 DEF McpQueue, ClientType, ClientPoints
<1>5. McpQueue'
  <2>1. ClientType' = ClientType
    BY <1>2 DEF ClientType
  <2>2. \A d \in ToSet(lock) : client'[d].at \in LockPoints
    <3>1. \A d \in ToSet(lock) : d \in Clients
      BY <1>1, Members DEF McpQueue
    <3> QED
      BY <1>1, <1>4, <3>1 DEF McpQueue, LockPoints
  <2>3. \A d \in Clients : client'[d].at \in Holding => lock # <<>> /\ Head(lock) = d
    BY <1>1, <1>3, <1>4 DEF McpQueue
  <2> QED
    BY <1>1, <1>2, <1>4, <2>1, <2>2, <2>3 DEF McpQueue
<1>6. /\ Holder({"connecting", "discovering"})' /\ Holder(Holding)'
      /\ ~Holder({"stopping"})' /\ ~Holder({"connecting"})'
      /\ Holder({"connecting"}) /\ ~Holder({"stopping", "clearing"}) /\ ~Holder({"clearing"})
  BY <1>2, <1>3, <1>4 DEF Holder, Holding
<1>7. McpRecords' /\ McpLinks'
  <2>1. \A t \in 1 .. Len(tasks) : tasks[t] # "connecting" /\ (t = session => t = server)
    BY <1>1, <1>2, <1>6 DEF McpLinks, McpTasks, McpSession
  <2>2. McpTasks' /\ McpSession'
    BY <1>1, <1>2, <1>6, <2>1 DEF McpLinks, McpTasks, McpSession
  <2> QED
    BY <1>1, <1>2, <2>2 DEF McpRecords, McpLinks
<1>8. McpUndisturbed'
  BY <1>2, <1>6 DEF McpInv, McpUndisturbed, Live
<1> QED
  BY <1>5, <1>7, <1>8 DEF McpInv

LEMMA McpDiscovers ==
    ASSUME McpInv, NEW c \in Clients, Discovers(c)
    PROVE  McpInv'
<1>1. McpQueue /\ McpRecords /\ McpLinks
  BY DEF McpInv
<1> DEFINE new == AfterStart(c, client[c], TRUE)
<1>2. /\ client[c].at = "discovering" /\ connected' = TRUE /\ attempts' = 0 /\ lock' = Tail(lock)
      /\ client' = [client EXCEPT ![c] = new]
      /\ UNCHANGED <<tasks, session, server, event, clobbered>>
  BY DEF Discovers
<1>3. new \in ClientType /\ new.at \notin LockPoints
  <2>1. client[c] \in ClientType /\ NotCalling \in ClientType /\ session \in 0 .. Len(tasks)
    BY <1>1 DEF McpQueue, McpRecords, ClientType, ClientPoints, NotCalling, NoTask
  <2> QED
    BY <2>1 DEF AfterStart, ClientType, ClientPoints, LockPoints, NotCalling
<1> HIDE DEF new
<1>4. tasks' \in Seq(TaskStates) /\ Len(tasks') = Len(tasks)
  BY <1>1, <1>2 DEF McpRecords
<1>5. /\ McpQueue' /\ Holder({"discovering"}) /\ ~Holder({"connecting"})
      /\ ~Holder({"stopping", "clearing"}) /\ ~Holder({"clearing"})
  <2>1. McpQueue'
    BY <1>1, <1>2, <1>3, <1>4, McpLeaves DEF Holding
  <2>2. lock # <<>> /\ Head(lock) = c
    BY <1>1, <1>2 DEF McpQueue, Holding
  <2> QED
    BY <1>2, <2>1, <2>2 DEF Holder
<1>6. McpRecords'
  BY <1>1, <1>2, McpConstants DEF McpRecords
<1>7. McpLinks'
  <2>1. \A points \in SUBSET Holding : ~Holder(points)'
    BY <1>1, <1>2, <1>3, <1>5, McpNoneHolds DEF Holding
  <2>2. ~Holder({"stopping"})'
    BY <2>1, McpSubsets
  <2>3. McpTasks' /\ McpSession'
    BY <1>1, <1>2, <1>5, <2>2 DEF McpLinks, McpTasks, McpSession
  <2> QED
    BY <2>3 DEF McpLinks
<1>8. McpUndisturbed'
  BY <1>2 DEF McpInv, McpUndisturbed, Live
<1> QED
  BY <1>5, <1>6, <1>7, <1>8 DEF McpInv

LEMMA McpToolReturns ==
    ASSUME McpInv, NEW c \in Clients, ToolReturns(c)
    PROVE  McpInv'
<1>1. McpQueue /\ McpRecords
  BY DEF McpInv
<1>2. /\ client[c].at \notin LockPoints /\ client' = [client EXCEPT ![c] = NotCalling]
      /\ UNCHANGED <<tasks, session, connected, server, event, attempts, lock, clobbered>>
  BY DEF ToolReturns, LockPoints
<1>3. NotCalling \in ClientType /\ NotCalling.at \notin LockPoints
  BY <1>1 DEF ClientType, ClientPoints, NotCalling, NoTask, LockPoints, McpRecords
<1>4. McpQueue' /\ (lock # <<>> => c # Head(lock))
  BY <1>1, <1>2, <1>3, McpApart
<1>5. \A points \in SUBSET Holding : Holder(points)' <=> Holder(points)
  BY <1>1, <1>2, <1>4, McpHolderStays
<1>6. connected' \in BOOLEAN /\ attempts' \in 0 .. (MaxReconnects + 1)
  BY <1>1, <1>2 DEF McpRecords
<1> QED
  BY <1>2, <1>4, <1>5, <1>6, McpTasksStay

LEMMA McpConnectionError ==
    ASSUME McpInv, NEW c \in Clients, ConnectionError(c)
    PROVE  McpInv'
<1>1. McpQueue /\ McpRecords
  BY DEF McpInv
<1> DEFINE rec == [client[c] EXCEPT !.retry = TRUE]
<1>2. client[c].at \notin LockPoints /\ Reconnect(c, rec, FALSE)
  BY DEF ConnectionError, LockPoints
<1>3. rec \in ClientType
  BY <1>1 DEF McpQueue, ClientType
<1> HIDE DEF rec
<1>4. clobbered \subseteq clobbered' /\ server \in 0 .. Len(tasks)
  BY <1>1 DEF ConnectionError, Clobber, McpRecords
<1>5. ASSUME server # 0, server \notin clobbered', lock # <<>> PROVE connected = FALSE
  BY <1>1, <1>5 DEF ConnectionError, Clobber, NoTask, McpRecords
<1>6. ASSUME server \notin clobbered', lock # <<>>, ~Holder(Holding) PROVE NoServer
  <2>1. McpUndisturbed /\ McpLinks
    BY DEF McpInv
  <2>2. /\ ~Holder({"stopping", "clearing"}) /\ ~Holder({"connecting"})
        /\ ~Holder({"connecting", "discovering"})
    BY <1>6 DEF Holder, Holding
  <2>3. \A t \in 1 .. Len(tasks) : t = server => t \notin clobbered /\ ~connected
    <3>1. server # 0 => connected = FALSE
      BY <1>5, <1>6
    <3>2. \A t \in 1 .. Len(tasks) : t # 0
      BY <1>1 DEF McpRecords
    <3> QED
      BY <1>4, <1>6, <3>1, <3>2
  <2> QED
    BY <2>1, <2>2, <2>3 DEF McpLinks, McpTasks, McpUndisturbed, Live, NoServer
<1>7. server = 0 => NoServer
  BY DEF NoServer
<1> QED
  BY <1>2, <1>3, <1>4, <1>5, <1>6, <1>7, McpReconnect

\* The background tasks leave the queue for the lock alone.
LEMMA McpQueueStays ==
    ASSUME McpQueue, Len(tasks') = Len(tasks), UNCHANGED <<lock, client>>
    PROVE  McpQueue'
BY DEF McpQueue, ClientType

LEMMA McpTaskReady ==
    ASSUME McpInv, NEW t \in 1 .. Len(tasks), TaskReady(t)
    PROVE  McpInv'
<1>1. McpQueue /\ McpRecords /\ McpLinks
  BY DEF McpInv
<1>2. /\ tasks[t] = "connecting" /\ tasks' = [tasks EXCEPT ![t] = "serving"] /\ session' = t
      /\ UNCHANGED <<connected, server, event, attempts, lock, client, clobbered>>
  BY DEF TaskReady
<1>3. /\ tasks' \in Seq(TaskStates) /\ Len(tasks') = Len(tasks)
      /\ \A u \in 1 .. Len(tasks) : tasks'[u] = IF u = t THEN "serving" ELSE tasks[u]
  BY <1>1, <1>2 DEF McpRecords, TaskStates
<1>4. McpQueue' /\ McpRecords'
  <2>1. McpQueue'
    BY <1>1, <1>2, <1>3, McpQueueStays
  <2>2. connected' \in BOOLEAN /\ session' \in 0 .. Len(tasks')
    BY <1>1, <1>2, <1>3 DEF McpRecords
  <2> QED
    BY <1>1, <1>2, <1>3, <2>1, <2>2 DEF McpRecords
<1>5. \A points : Holder(points)' <=> Holder(points)
  BY <1>2 DEF Holder
<1>6. t = server /\ Holder({"connecting"})
  BY <1>1, <1>2 DEF McpLinks, McpTasks
<1>7. Holder({"connecting", "discovering"}) /\ Holder(Holding) /\ ~Holder({"stopping"})
  BY <1>6 DEF Holder, Holding
<1>8. McpLinks'
  BY <1>1, <1>2, <1>3, <1>5, <1>6, <1>7 DEF McpLinks, McpTasks, McpSession
<1>9. McpUndisturbed'
  <2>1. \A u \in 1 .. Len(tasks') : Live(u)' => u = server' \/ u \in clobbered'
    BY <1>2, <1>3, <1>6 DEF McpInv, McpUndisturbed, Live
  <2> QED
    BY <1>2, <1>5, <1>6, <1>7, <2>1 DEF McpUndisturbed
<1> QED
  BY <1>4, <1>8, <1>9 DEF McpInv

LEMMA McpTaskEnds ==
    ASSUME McpInv, NEW t \in 1 .. Len(tasks), TaskEnds(t)
    PROVE  McpInv'
<1>1. McpQueue /\ McpRecords /\ McpLinks
  BY DEF McpInv
<1> DEFINE last == IF tasks[t] = "connecting" THEN "failed" ELSE "over"
<1>2. /\ Live(t) /\ tasks' = [tasks EXCEPT ![t] = last] /\ session' = 0 /\ connected' = FALSE
      /\ UNCHANGED <<server, event, attempts, lock, client>> /\ clobbered \subseteq clobbered'
      /\ t # server /\ server # 0 => server \in clobbered'
  BY DEF TaskEnds, Clobber, NoTask
<1>3. last \in {"failed", "over"}
  OBVIOUS
<1> HIDE DEF last
<1>4. /\ tasks' \in Seq(TaskStates) /\ Len(tasks') = Len(tasks)
      /\ \A u \in 1 .. Len(tasks) : tasks'[u] = IF u = t THEN last ELSE tasks[u]
  BY <1>1, <1>2, <1>3 DEF McpRecords, TaskStates
<1>5. McpQueue' /\ McpRecords'
  <2>1. McpQueue'
    BY <1>1, <1>2, <1>4, McpQueueStays
  <2>2. session' \in 0 .. Len(tasks')
    BY <1>1, <1>2, <1>4 DEF McpRecords
  <2> QED
    BY <1>1, <1>2, <1>4, <2>1, <2>2 DEF McpRecords
<1>6. McpLinks'
  <2>1. \A points : Holder(points)' <=> Holder(points)
    BY <1>2 DEF Holder
  <2>2. McpTasks' /\ McpSession'
    BY <1>1, <1>2, <1>3, <1>4, <2>1 DEF McpLinks, McpTasks, McpSession
  <2> QED
    BY <2>2 DEF McpLinks
<1>7. McpUndisturbed'
  <2>1. \A u \in 1 .. Len(tasks) : Live(u) => u = server \/ u \in clobbered
    BY DEF McpInv, McpUndisturbed
  <2>2. \A u \in 1 .. Len(tasks') : Live(u)' => u # t /\ Live(u)
    BY <1>3, <1>4 DEF Live
  <2>3. \A u \in 1 .. Len(tasks') : Live(u)' => u \in clobbered'
    BY <1>2, <1>4, <2>1, <2>2
  <2>4. \A u \in 1 .. Len(tasks') : tasks'[u] = "serving" => Live(u)'
    BY DEF Live
  <2> QED
    BY <2>3, <2>4 DEF McpUndisturbed
<1> QED
  BY <1>5, <1>6, <1>7 DEF McpInv

\* A coroutine that waits for the lock leaves the queue.
LEMMA McpLeavesQueue ==
    ASSUME McpQueue, McpRecords, NEW c \in Clients, client[c].at \in {"waitStop", "waitStart"},
           client' = [client EXCEPT ![c] = NotCalling], UNCHANGED tasks,
           NEW i \in DOMAIN lock, lock[i] = c, lock' = RemoveAt(lock, i)
    PROVE  McpQueue' /\ \A points \in SUBSET Holding : Holder(points)' <=> Holder(points)
<1>1. lock \in Seq(Clients) /\ Distinct(lock) /\ i \in 1 .. Len(lock) /\ lock # <<>>
  BY DEF McpQueue
<1>2. lock' \in Seq(Clients) /\ Distinct(lock') /\ ToSet(lock') = ToSet(lock) \ {c}
  BY <1>1, OneLeaves
<1>3. NotCalling \in ClientType /\ NotCalling.at = "idle" /\ ClientType' = ClientType
  BY DEF ClientType, ClientPoints, NotCalling, NoTask, McpRecords
<1>4. /\ client' \in [Clients -> ClientType'] /\ client'[c].at = "idle"
      /\ \A d \in Clients : d # c => client'[d] = client[d]
  BY <1>3 DEF McpQueue
<1>5. \A d \in ToSet(lock') : client'[d].at \in LockPoints
  <2>1. \A d \in ToSet(lock) : d \in Clients
    BY <1>1, Members
  <2> QED
    BY <1>2, <1>4, <2>1 DEF McpQueue
<1>6. ASSUME lock[1] # c PROVE lock' # <<>> /\ Head(lock') = Head(lock)
  <2>1. i # 1 /\ lock \in Seq(Clients) /\ i \in 1 .. Len(lock)
    BY <1>1, <1>6
  <2> QED
    BY <2>1, HeadStays
<1>7. lock[1] = c => \A d \in Clients : client[d].at \notin Holding
  BY <1>1 DEF McpQueue, Holding
<1>8. \A d \in Clients : client'[d].at \in Holding => lock' # <<>> /\ Head(lock') = d
  <2>1. "idle" \notin Holding
    BY DEF Holding
  <2> QED
    BY <1>4, <1>6, <1>7, <2>1 DEF McpQueue
<1>9. McpQueue'
  BY <1>2, <1>4, <1>5, <1>8 DEF McpQueue
<1>10. ASSUME NEW points \in SUBSET Holding PROVE Holder(points)' <=> Holder(points)
  <2>1. CASE lock[1] = c
    <3>1. lock' # <<>> => Head(lock') \in Clients /\ Head(lock') # c
      <4>1. lock' # <<>> => Head(lock') \in ToSet(lock') /\ Head(lock') \in Clients
        BY <1>2, HeadLeaves
      <4> QED
        BY <1>2, <4>1
    <3>2. ~Holder(points)'
      BY <1>4, <1>7, <2>1, <3>1 DEF Holder
    <3>3. ~Holder(points)
      BY <1>1, <1>7, <2>1 DEF Holder
    <3> QED
      BY <3>2, <3>3
  <2>2. CASE lock[1] # c
    <3>1. Head(lock) \in Clients /\ Head(lock) # c
      BY <1>1, <2>2
    <3> QED
      BY <1>1, <1>4, <1>6, <2>2, <3>1 DEF Holder
  <2> QED
    BY <2>1, <2>2
<1> QED
  BY <1>9, <1>10

\* A coroutine is cancelled as it waits for the task to report.
LEMMA McpCancelsConnect ==
    ASSUME McpInv, NEW c \in Clients, Cancelled(c), client[c].at = "connecting"
    PROVE  McpInv'
<1>1. McpQueue /\ McpRecords /\ McpLinks /\ McpUndisturbed
  BY DEF McpInv
<1>2. /\ tasks' = IF Live(server) THEN [tasks EXCEPT ![server] = "told"] ELSE tasks
      /\ client' = [client EXCEPT ![c].at = "clearing"]
      /\ UNCHANGED <<session, connected, server, event, attempts, lock, clobbered>>
  BY DEF Cancelled, At
<1>3. lock # <<>> /\ Head(lock) = c
  BY <1>1 DEF McpQueue, Holding
<1>4. /\ tasks' \in Seq(TaskStates) /\ Len(tasks') = Len(tasks)
      /\ \A t \in 1 .. Len(tasks) : tasks'[t] = IF t = server /\ Live(t) THEN "told" ELSE tasks[t]
  <2>1. CASE server \in 1 .. Len(tasks) /\ Live(server)
    BY <1>1, <1>2, <2>1 DEF McpRecords, TaskStates
  <2>2. CASE server = 0 /\ Live(server)
    <3>1. tasks' = tasks
      BY <1>1, <1>2, <2>2 DEF McpRecords
    <3> QED
      BY <1>1, <2>2, <3>1 DEF McpRecords
  <2>3. CASE ~Live(server)
    BY <1>1, <1>2, <2>3 DEF McpRecords
  <2> QED
    BY <1>1, <2>1, <2>2, <2>3 DEF McpRecords
<1>5. /\ client' \in [Clients -> ClientType] /\ client'[c].at = "clearing"
      /\ \A d \in Clients : d # c => client'[d] = client[d]
  BY <1>1, <1>2 DEF McpQueue, ClientType, ClientPoints
<1>6. McpQueue'
  <2>1. ClientType' = ClientType
    BY <1>4 DEF ClientType
  <2>2. \A d \in ToSet(lock) : client'[d].at \in LockPoints
    <3>1. \A d \in ToSet(lock) : d \in Clients
      BY <1>1, Members DEF McpQueue
    <3> QED
      BY <1>1, <1>5, <3>1 DEF McpQueue, LockPoints
  <2>3. \A d \in Clients : client'[d].at \in Holding => lock # <<>> /\ Head(lock) = d
    BY <1>1, <1>3, <1>5 DEF McpQueue
  <2> QED
    BY <1>1, <1>2, <1>5, <2>1, <2>2, <2>3 DEF McpQueue
<1>7. /\ Holder({"clearing"})' /\ Holder({"stopping", "clearing"})' /\ Holder(Holding)'
      /\ ~Holder({"stopping"})' /\ ~Holder({"connecting"})' /\ ~Holder({"discovering"})'
      /\ ~Holder({"stopping", "clearing"}) /\ ~Holder({"clearing"})
  BY <1>2, <1>3, <1>5 DEF Holder, Holding
<1>8. McpRecords' /\ McpLinks'
  <2>1. \A t \in 1 .. Len(tasks) : tasks[t] = "connecting" => t = server /\ Live(t)
    BY <1>1 DEF McpLinks, McpTasks, Live
  <2>2. \A t \in 1 .. Len(tasks) : t = server /\ tasks[t] = "serving" => Live(t)
    BY DEF Live
  <2>3. McpTasks'
    BY <1>1, <1>2, <1>4, <1>7, <2>1, <2>2 DEF McpLinks, McpTasks
  <2>4. McpSession'
    BY <1>1, <1>2, <1>4, <1>7, <2>2 DEF McpLinks, McpSession
  <2> QED
    BY <1>1, <1>2, <1>4, <2>3, <2>4 DEF McpRecords, McpLinks
<1>9. McpUndisturbed'
  <2>1. \A t \in 1 .. Len(tasks') : Live(t)' => t = server' \/ t \in clobbered'
    BY <1>1, <1>2, <1>4 DEF McpUndisturbed, Live
  <2>2. \A t \in 1 .. Len(tasks') : t = server' => tasks'[t] # "serving"
    BY <1>2, <1>4 DEF Live
  <2> QED
    BY <1>7, <2>1, <2>2 DEF McpUndisturbed
<1> QED
  BY <1>6, <1>8, <1>9 DEF McpInv

\* A coroutine is cancelled as it lists the tools: the server lives on.
LEMMA McpCancelsDiscovery ==
    ASSUME McpInv, NEW c \in Clients, Cancelled(c), client[c].at = "discovering"
    PROVE  McpInv'
<1>1. McpQueue /\ McpRecords /\ McpLinks /\ McpUndisturbed
  BY DEF McpInv
<1>2. /\ client' = [client EXCEPT ![c] = NotCalling] /\ lock' = Tail(lock) /\ Clobber
      /\ UNCHANGED <<tasks, session, connected, server, event, attempts>>
  BY DEF Cancelled
<1>3. NotCalling \in ClientType /\ NotCalling.at \notin LockPoints
  BY <1>1 DEF ClientType, ClientPoints, NotCalling, NoTask, LockPoints, McpRecords
<1>4. McpQueue' /\ McpRecords'
  <2>1. McpQueue'
    BY <1>1, <1>2, <1>3, McpLeaves DEF Holding, McpRecords
  <2> QED
    BY <1>1, <1>2, <2>1 DEF McpRecords
<1>5. /\ ~Holder({"connecting"}) /\ ~Holder({"stopping", "clearing"}) /\ ~Holder({"clearing"})
      /\ Holder({"discovering"})
  BY <1>1 DEF McpQueue, Holding, Holder
<1>6. McpLinks'
  <2>1. \A points \in SUBSET Holding : ~Holder(points)'
    BY <1>1, <1>2, <1>3, <1>4, McpNoneHolds DEF Holding
  <2>2. ~Holder({"stopping"})'
    BY <2>1, McpSubsets
  <2>3. McpTasks' /\ McpSession'
    BY <1>1, <1>2, <1>5, <2>2 DEF McpLinks, McpTasks, McpSession
  <2> QED
    BY <2>3 DEF McpLinks
<1>7. McpUndisturbed'
  <2>1. \A t \in 1 .. Len(tasks) : t = server => t \in clobbered'
    BY <1>2 DEF Clobber, NoTask
  <2>2. \A t \in 1 .. Len(tasks) : Live(t)' => t \in clobbered'
    BY <1>1, <1>2, <2>1 DEF McpUndisturbed, Clobber, Live
  <2> QED
    BY <1>2, <2>1, <2>2 DEF McpUndisturbed
<1> QED
  BY <1>4, <1>6, <1>7 DEF McpInv

\* Any other coroutine that is cancelled just ends.
LEMMA McpCancelled ==
    ASSUME McpInv, NEW c \in Clients, Cancelled(c)
    PROVE  McpInv'
<1>1. McpQueue /\ McpRecords
  BY DEF McpInv
<1>2. CASE client[c].at = "connecting"
  BY <1>2, McpCancelsConnect
<1>3. CASE client[c].at = "discovering"
  BY <1>3, McpCancelsDiscovery
<1>4. CASE client[c].at \in {"pause", "calling"}
  <2>1. /\ client[c].at \notin LockPoints /\ client' = [client EXCEPT ![c] = NotCalling]
        /\ UNCHANGED <<tasks, session, connected, server, event, attempts, lock, clobbered>>
    BY <1>4 DEF Cancelled, LockPoints
  <2>2. NotCalling \in ClientType /\ NotCalling.at \notin LockPoints
    BY <1>1 DEF ClientType, ClientPoints, NotCalling, NoTask, LockPoints, McpRecords
  <2>3. McpQueue' /\ (lock # <<>> => c # Head(lock))
    BY <1>1, <2>1, <2>2, McpApart
  <2>4. \A points \in SUBSET Holding : Holder(points)' <=> Holder(points)
    BY <1>1, <2>1, <2>3, McpHolderStays
  <2>5. connected' \in BOOLEAN /\ attempts' \in 0 .. (MaxReconnects + 1)
    BY <1>1, <2>1 DEF McpRecords
  <2> QED
    BY <2>1, <2>3, <2>4, <2>5, McpTasksStay
<1>5. CASE client[c].at \in {"waitStop", "waitStart"}
  <2>1. /\ client' = [client EXCEPT ![c] = NotCalling]
        /\ \E i \in DOMAIN lock : lock[i] = c /\ lock' = RemoveAt(lock, i)
        /\ UNCHANGED <<tasks, session, connected, server, event, attempts, clobbered>>
    BY <1>5 DEF Cancelled
  <2>2. McpQueue' /\ \A points \in SUBSET Holding : Holder(points)' <=> Holder(points)
    BY <1>1, <1>5, <2>1, McpLeavesQueue
  <2>3. connected' \in BOOLEAN /\ attempts' \in 0 .. (MaxReconnects + 1)
    BY <1>1, <2>1 DEF McpRecords
  <2> QED
    BY <2>1, <2>2, <2>3, McpTasksStay
<1> QED
  BY <1>2, <1>3, <1>4, <1>5 DEF Cancelled

\* Tasks are never forgotten.
LEMMA McpTasksGrow ==
    ASSUME McpRecords, McpNext
    PROVE  Len(tasks) <= Len(tasks')
<1>1. Len(tasks) \in Nat /\ Len(ToldToEnd) = Len(tasks) /\ tasks \in Seq(TaskStates)
  BY McpToldToEnd DEF McpRecords
<1>0. (UNCHANGED tasks => Len(tasks) <= Len(tasks')) /\ (tasks' = ToldToEnd => Len(tasks) <= Len(tasks'))
  BY <1>1
<1>2. ASSUME NEW c, NEW rec, NEW q, StopBody(c, rec, q) PROVE Len(tasks) <= Len(tasks')
  BY <1>0, <1>2, Zenon DEF StopBody
<1>3. ASSUME NEW c, NEW rec, NEW q, StartBody(c, rec, q) PROVE Len(tasks) <= Len(tasks')
  <2>1. UNCHANGED tasks \/ tasks' = Append(tasks, "connecting")
    BY <1>3, Zenon DEF StartBody
  <2> QED
    BY <1>1, <2>1
<1>4. ASSUME NEW c, NEW rec, NEW flag, EnterStop(c, rec, flag) PROVE Len(tasks) <= Len(tasks')
  BY <1>0, <1>2, <1>4, Zenon DEF EnterStop
<1>5. ASSUME NEW c, NEW rec, EnterStart(c, rec) PROVE Len(tasks) <= Len(tasks')
  BY <1>0, <1>3, <1>5, Zenon DEF EnterStart
<1>6. ASSUME NEW c, NEW rec, NEW flag, Reconnect(c, rec, flag) PROVE Len(tasks) <= Len(tasks')
  BY <1>0, <1>4, <1>6, Zenon DEF Reconnect
<1>7. ASSUME NEW c \in Clients, CallsStart(c) \/ CallsStop(c) \/ CallsTool(c) PROVE Len(tasks) <= Len(tasks')
  <2>1. CASE CallsStart(c)
    BY <1>5, <2>1, Zenon DEF CallsStart
  <2>2. CASE CallsStop(c)
    BY <1>4, <2>2, Zenon DEF CallsStop
  <2>3. CASE CallsTool(c)
    BY <1>0, <1>6, <2>3, Zenon DEF CallsTool
  <2> QED
    BY <1>7, <2>1, <2>2, <2>3
<1>8. ASSUME NEW c \in Clients, GoesOn(c) PROVE Len(tasks) <= Len(tasks')
  <2>1. CASE TakesLock(c)
    BY <1>2, <1>3, <2>1, Zenon DEF TakesLock
  <2>2. CASE PauseEnds(c)
    BY <1>5, <2>2, Zenon DEF PauseEnds
  <2>3. CASE StopEnds(c) \/ Cleared(c)
    BY <1>1, <2>3 DEF StopEnds, Cleared
  <2>4. CASE ConnectFails(c) \/ Connects(c) \/ Discovers(c) \/ ToolReturns(c)
    BY <1>0, <2>4, Zenon DEF ConnectFails, Connects, Discovers, ToolReturns
  <2> QED
    BY <1>8, <2>1, <2>2, <2>3, <2>4 DEF GoesOn
<1>9. ASSUME NEW c \in Clients, ConnectionError(c) \/ Cancelled(c) PROVE Len(tasks) <= Len(tasks')
  <2>1. CASE ConnectionError(c)
    BY <1>6, <2>1, Zenon DEF ConnectionError
  <2>2. CASE Cancelled(c)
    BY <1>1, <2>2 DEF Cancelled
  <2> QED
    BY <1>9, <2>1, <2>2
<1>10. ASSUME NEW t \in DOMAIN tasks, TaskReady(t) \/ TaskEnds(t) PROVE Len(tasks) <= Len(tasks')
  BY <1>1, <1>10 DEF TaskReady, TaskEnds
<1> QED
  BY <1>7, <1>8, <1>9, <1>10 DEF McpNext

\* What was taken away from was a task.
LEMMA McpHistoryStep ==
    ASSUME McpRecords, clobbered \subseteq 1 .. Len(tasks), McpRecords', Len(tasks) <= Len(tasks'),
           UNCHANGED clobbered \/ Clobber
    PROVE  clobbered' \subseteq 1 .. Len(tasks')
<1>1. Len(tasks) \in Nat /\ Len(tasks') \in Nat /\ server \in 0 .. Len(tasks)
  <2>1. tasks \in Seq(TaskStates) /\ tasks' \in Seq(TaskStates) /\ server \in 0 .. Len(tasks)
    BY DEF McpRecords
  <2> QED
    BY <2>1
<1>2. 1 .. Len(tasks) \subseteq 1 .. Len(tasks') /\ (server # 0 => server \in 1 .. Len(tasks))
  BY <1>1
<1>3. clobbered' \subseteq clobbered \cup ({server} \ {0})
  BY DEF Clobber, NoTask
<1> QED
  BY <1>2, <1>3

McpHistory == clobbered \subseteq 1 .. Len(tasks)

LEMMA McpInvStep == McpInv /\ McpHistory /\ [McpNext]_mcpVars => McpInv' /\ McpHistory'
<1> SUFFICES ASSUME McpInv, McpHistory, [McpNext]_mcpVars
             PROVE  McpInv' /\ McpHistory'
  OBVIOUS
<1>1. ASSUME NEW c \in Clients, CallsStart(c) \/ CallsStop(c) \/ CallsTool(c)
      PROVE  McpInv' /\ UNCHANGED clobbered
  BY <1>1, McpAsks DEF CallsStart, CallsStop, CallsTool, BeginsJob
<1>2. ASSUME NEW c \in Clients, GoesOn(c)
      PROVE  McpInv' /\ UNCHANGED clobbered
  <2>1. McpInv'
    BY <1>2, McpTakesLock, McpStopEnds, McpPauseEnds, McpConnectFails, McpConnects, McpCleared,
       McpDiscovers, McpToolReturns DEF GoesOn
  <2>2. UNCHANGED clobbered
    BY <1>2 DEF GoesOn, TakesLock, StopEnds, PauseEnds, ConnectFails, Connects, Cleared, Discovers,
                ToolReturns
  <2> QED
    BY <2>1, <2>2
<1>3. ASSUME NEW c \in Clients, ConnectionError(c) \/ Cancelled(c)
      PROVE  McpInv' /\ (UNCHANGED clobbered \/ Clobber)
  BY <1>3, McpConnectionError, McpCancelled DEF ConnectionError, Cancelled
<1>4. ASSUME NEW t \in DOMAIN tasks, TaskReady(t) \/ TaskEnds(t)
      PROVE  McpInv' /\ (UNCHANGED clobbered \/ Clobber)
  <2>1. t \in 1 .. Len(tasks)
    BY DEF McpInv, McpRecords
  <2> QED
    BY <1>4, <2>1, McpTaskReady, McpTaskEnds DEF TaskReady, TaskEnds
<1>5. CASE UNCHANGED mcpVars
  BY <1>5 DEF mcpVars, McpInv, McpRecords, McpQueue, ClientType, McpLinks, McpTasks, McpSession,
              McpUndisturbed, McpHistory, Holder, Live
<1>6. CASE McpNext
  <2>1. McpInv' /\ (UNCHANGED clobbered \/ Clobber)
    BY <1>1, <1>2, <1>3, <1>4, <1>6 DEF McpNext
  <2>2. Len(tasks) <= Len(tasks')
    BY <1>6, McpTasksGrow DEF McpInv
  <2> QED
    BY <2>1, <2>2, McpHistoryStep DEF McpInv, McpHistory
<1> QED
  BY <1>5, <1>6

LEMMA McpInvStart == McpInit => McpInv /\ McpHistory
<1> SUFFICES ASSUME McpInit PROVE McpInv /\ McpHistory
  OBVIOUS
<1>1. /\ tasks = <<>> /\ session = 0 /\ server = 0 /\ event = 0 /\ connected = FALSE
      /\ attempts = 0 /\ lock = <<>> /\ client = [c \in Clients |-> NotCalling]
      /\ clobbered = {}
  BY DEF McpInit, NoTask
<1>2. tasks \in Seq(TaskStates) /\ Len(tasks) = 0
  BY <1>1
<1>3. McpRecords
  <2>1. 0 \in 0 .. Len(tasks) /\ 0 \in 0 .. (MaxReconnects + 1)
    BY <1>2, McpConstants
  <2> QED
    BY <1>1, <1>2, <2>1 DEF McpRecords
<1>4. NotCalling \in ClientType /\ NotCalling.at \notin Holding
  BY <1>2 DEF ClientType, ClientPoints, NotCalling, NoTask, Holding
<1>5. McpQueue
  <2>1. lock \in Seq(Clients) /\ Distinct(lock) /\ ToSet(lock) = {}
    BY <1>1, NoMembers
  <2> QED
    BY <1>1, <1>4, <2>1 DEF McpQueue
<1>6. McpLinks /\ McpUndisturbed
  BY <1>1, <1>2 DEF McpLinks, McpTasks, McpSession, McpUndisturbed, Holder
<1> QED
  BY <1>1, <1>3, <1>5, <1>6 DEF McpInv, McpHistory

McpBehaves == McpInit /\ [][McpNext]_mcpVars

LEMMA McpInvHolds == McpBehaves => [](McpInv /\ McpHistory)
BY McpInvStart, McpInvStep, PTL DEF McpBehaves

\* Whatever the coroutines that share an MCP server do, its tasks, its session, the
\* queue for its lock and what each coroutine is doing are well formed: nobody is
\* in the queue twice, and only its first works on the connection.
THEOREM McpTypeCorrect == McpBehaves => []McpTypeOK
<1>1. McpInv /\ McpHistory => McpTypeOK
  <2> SUFFICES ASSUME McpInv, McpHistory PROVE McpTypeOK
    OBVIOUS
  <2>1. IsInjective(lock) /\ ToSet(lock) \subseteq Clients
    BY Members DEF McpInv, McpQueue, Distinct, IsInjective
  <2> QED
    BY <2>1 DEF McpInv, McpRecords, McpQueue, ClientType, Holding, McpTypeOK, TaskStates, McpHistory
<1> QED
  BY <1>1, McpInvHolds, PTL

\* Every background task of an MCP server that lives is the one the next stop ends,
\* and a server that counts as connected has a session that this task serves, or
\* ends with its cancelled start: whatever coroutines start, stop, restart, call and
\* reconnect it, whenever they are cancelled, and however its processes end, but for
\* the tasks whose connection was taken away from them.
THEOREM McpIsSafe == McpBehaves => []McpSafe
<1>1. McpInv => McpSafe
  <2> SUFFICES ASSUME McpInv PROVE McpSafe
    OBVIOUS
  <2>1. McpRecords /\ McpQueue /\ McpLinks /\ McpUndisturbed
    BY DEF McpInv
  <2>2. NoOrphanServer
    BY <2>1 DEF McpRecords, McpUndisturbed, NoOrphanServer
  <2>3. ConnectedIsServed
    <3> SUFFICES ASSUME IsConnected
                 PROVE  /\ session = server
                        /\ tasks[session] = "serving" \/ \E c \in Clients : client[c].at = "clearing"
      BY DEF ConnectedIsServed
    <3>1. session \in 1 .. Len(tasks) /\ session = server
      BY <2>1 DEF IsConnected, NoTask, McpRecords, McpLinks, McpSession
    <3>2. CASE Holder({"clearing"})
      <4>1. Head(lock) \in Clients
        BY <2>1, <3>2, HeadLeaves DEF McpQueue, Holder
      <4> QED
        BY <3>1, <3>2, <4>1 DEF Holder
    <3> QED
      BY <2>1, <3>1, <3>2 DEF McpLinks, McpSession
  <2> QED
    BY <2>2, <2>3 DEF McpSafe
<1> QED
  BY <1>1, McpInvHolds, PTL
==============================================================================
