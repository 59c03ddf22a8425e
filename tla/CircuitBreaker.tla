---------------------------- MODULE CircuitBreaker ----------------------------
(***************************************************************************)
(* The circuit breaker of one tool (core/security/circuit_breaker.py) and  *)
(* the executions that consult it (ToolExecutor.execute).  All requests of *)
(* the gateway share one breaker; the circuits of different tools do not   *)
(* touch each other, so the circuit of one tool is modelled.               *)
(*                                                                         *)
(* An execution asks can_execute, awaits the tool and then records how it  *)
(* went; other executions run in between.  A cancelled execution records   *)
(* nothing: CancelledError is not an Exception.                            *)
(***************************************************************************)
EXTENDS Naturals, FiniteSets

CONSTANTS
    Calls,              \* executions that may be under way at the same time
    FailureThreshold,   \* failure_threshold, 3 in the code
    HalfOpenMaxCalls    \* half_open_max_calls, 1 in the code

ASSUME BreakerConstants ==
    /\ FailureThreshold \in Nat \ {0}
    /\ HalfOpenMaxCalls \in Nat \ {0}

VARIABLES
    state,          \* "closed", "open" or "half_open"
    failureCount,   \* failure_count, which is never asked more than whether it
                    \* reached the threshold: it is not counted beyond it
    halfOpenCalls,  \* half_open_calls
    cooled,         \* cooldown_seconds have passed since opened_at
    call,           \* execution -> "idle", "plain" (admitted by a closed
                    \* circuit) or "test" (admitted by another)
    lost            \* history: a test call of this half-open time was cancelled

vars == <<state, failureCount, halfOpenCalls, cooled, call, lost>>

Running(c) == call[c] # "idle"

----------------------------------------------------------------------------
(* Helpers; Name_Fault is Name with one plausible mistake in it. *)

\* The count after one more failure.
OneMore(n) == IF n < FailureThreshold THEN n + 1 ELSE n

\* A closed circuit opens at the threshold.
Tripped_PastThreshold(n) == n > FailureThreshold
Tripped(n) == n >= FailureThreshold

\* The circuit opens now.
Opens == state' = "open" /\ cooled' = FALSE

\* The state in which a success closes the circuit.
ClosedBySuccess_Always == state # "closed"
ClosedBySuccess_Never == FALSE
ClosedBySuccess == state = "half_open"

\* can_execute refuses in the half-open state.
TestLimitReached_Never == FALSE
TestLimitReached == halfOpenCalls >= HalfOpenMaxCalls

\* can_execute's answer.
CanExecute ==
    \/ state = "closed"
    \/ state = "open" /\ cooled
    \/ state = "half_open" /\ ~TestLimitReached

----------------------------------------------------------------------------
Init ==
    /\ state = "closed"
    /\ failureCount = 0
    /\ halfOpenCalls = 0
    /\ cooled = FALSE
    /\ call = [c \in Calls |-> "idle"]
    /\ lost = FALSE

Admit(c, how) == call[c] = "idle" /\ call' = [call EXCEPT ![c] = how]

AdmitClosed(c) ==
    /\ state = "closed"
    /\ Admit(c, "plain")
    /\ UNCHANGED <<state, failureCount, halfOpenCalls, cooled, lost>>

\* The first call after the cooldown: the circuit is half-open, and this call
\* is not counted among its test calls.
AdmitCooled(c) ==
    /\ state = "open" /\ cooled
    /\ Admit(c, "test")
    /\ state' = "half_open"
    /\ halfOpenCalls' = 0
    /\ lost' = FALSE
    /\ UNCHANGED <<failureCount, cooled>>

AdmitHalfOpen(c) ==
    /\ state = "half_open"
    /\ ~TestLimitReached
    /\ Admit(c, "test")
    /\ halfOpenCalls' = halfOpenCalls + 1
    /\ UNCHANGED <<state, failureCount, cooled, lost>>

\* The execution answers "Tool temporarily unavailable".
Refuse(c) ==
    /\ call[c] = "idle"
    /\ ~CanExecute
    /\ UNCHANGED vars

Returns(c) == Running(c) /\ call' = [call EXCEPT ![c] = "idle"]

\* record_success, whatever the circuit has become since the call was admitted.
Succeed(c) ==
    /\ Returns(c)
    /\ failureCount' = 0
    /\ IF ClosedBySuccess
       THEN state' = "closed" /\ halfOpenCalls' = 0
       ELSE UNCHANGED <<state, halfOpenCalls>>
    /\ UNCHANGED <<cooled, lost>>

\* record_failure, likewise.
FailHalfOpen(c) ==
    /\ state = "half_open"
    /\ Opens
    /\ halfOpenCalls' = 0

FailClosed(c) ==
    /\ state = "closed"
    /\ IF Tripped(failureCount') THEN Opens ELSE UNCHANGED <<state, cooled>>
    /\ UNCHANGED halfOpenCalls

FailOpen(c) == state = "open" /\ UNCHANGED <<state, halfOpenCalls, cooled>>

Fail(c) ==
    /\ Returns(c)
    /\ failureCount' = OneMore(failureCount)
    /\ FailHalfOpen(c) \/ FailClosed(c) \/ FailOpen(c)
    /\ UNCHANGED lost

\* The request that made the call is cancelled while it awaits the tool.
Abort(c) ==
    /\ Returns(c)
    /\ lost' = (lost \/ (state = "half_open" /\ call[c] = "test"))
    /\ UNCHANGED <<state, failureCount, halfOpenCalls, cooled>>

CooldownPasses ==
    /\ state = "open" /\ ~cooled
    /\ cooled' = TRUE
    /\ UNCHANGED <<state, failureCount, halfOpenCalls, call, lost>>

Reset ==
    /\ state' = "closed" /\ failureCount' = 0 /\ halfOpenCalls' = 0 /\ cooled' = FALSE
    /\ UNCHANGED <<call, lost>>

Next ==
    \/ \E c \in Calls : AdmitClosed(c)
    \/ \E c \in Calls : AdmitCooled(c)
    \/ \E c \in Calls : AdmitHalfOpen(c)
    \/ \E c \in Calls : Refuse(c)
    \/ \E c \in Calls : Succeed(c)
    \/ \E c \in Calls : Fail(c)
    \/ \E c \in Calls : Abort(c)
    \/ CooldownPasses
    \/ Reset

Spec == Init /\ [][Next]_vars

\* Tools return, raise or are given up, and time passes.  Nobody owes a call
\* or a reset.
BreakerFairness ==
    /\ WF_vars(CooldownPasses)
    /\ \A c \in Calls : WF_vars(Succeed(c) \/ Fail(c) \/ Abort(c))

FairSpec == Spec /\ BreakerFairness

----------------------------------------------------------------------------
(* Properties *)

\* Every variable keeps its type.
TypeOK ==
    /\ state \in {"closed", "open", "half_open"}
    /\ failureCount \in 0 .. FailureThreshold
    /\ halfOpenCalls \in 0 .. HalfOpenMaxCalls
    /\ cooled \in BOOLEAN
    /\ call \in [Calls -> {"idle", "plain", "test"}]
    /\ lost \in BOOLEAN

\* A closed circuit has counted fewer failures than the threshold, however
\* late the results of calls it admitted earlier come in: record_failure of a
\* closed circuit never meets a count left over from its open time.
ClosedIsHealthy == state = "closed" => failureCount < FailureThreshold

\* "Waiting for test result" (can_execute): while the circuit is half-open a
\* test call is under way, so it does not refuse calls for nothing - unless a
\* test call was cancelled, which nobody records.
HalfOpenIsTested ==
    state = "half_open" => lost \/ \E c \in Calls : call[c] = "test"

\* "calls blocked until cooldown expires" (the module's OPEN): no result that
\* comes in late ends the cooldown of an open circuit; reset alone may.
CooldownIsServed ==
    [][state = "open" /\ ~cooled => state' = "open" \/ Reset]_vars

\* The counters of the circuit fit its state, and nothing shortens a cooldown.
BreakerSafe == [](ClosedIsHealthy /\ HalfOpenIsTested) /\ CooldownIsServed

\* "temporarily disables tools" (the module's docstring): a tool that is
\* refused becomes callable again, unless its test call was cancelled.
DisabledTemporarily == ~CanExecute ~> CanExecute \/ lost
=============================================================================
