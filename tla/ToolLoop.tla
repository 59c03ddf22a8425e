------------------------------- MODULE ToolLoop -------------------------------
(***************************************************************************)
(* The tool loop of the gateway's agent (LLMOrchestrator in                *)
(* gateway/llm_orchestrator.py) and the loop guard it consults             *)
(* (ToolLoopGuard in core/tool_guard.py).                                  *)
(*                                                                         *)
(* One orchestrator, and so one guard, serves all requests; requests of    *)
(* different channels are processed at the same time.  A turn is one call  *)
(* of generate_with_tools with the recursive calls it makes; it lets       *)
(* others run while it awaits the model, a tool, or the sending of an      *)
(* event.  Of the conversation only the tool calls that still lack a       *)
(* result are kept.                                                        *)
(***************************************************************************)
EXTENDS Naturals, FiniteSets, Sequences, TLC

CONSTANTS
    Turns,              \* the requests processed
    Tools,              \* tools with their arguments, as the guard hashes them
    Outputs,            \* results of tools
    MaxBatch,           \* bound on the tool calls of one response
    MaxToolIterations,  \* MAX_TOOL_ITERATIONS
    AutoContinueMax,    \* AUTO_CONTINUE_MAX
    MaxRetries,         \* max_retries of _call_llm
    WindowSize, StopRepeatThreshold, PollNoProgressThreshold, PingPongCycles,
    KeptResults         \* bound on the remembered results of a tool; the guard
                        \* keeps all and looks at the last few

ASSUME LoopConstants ==
    /\ {MaxBatch, MaxToolIterations, MaxRetries, AutoContinueMax} \subseteq Nat
    /\ MaxRetries > 0 /\ MaxToolIterations > 0
    /\ {WindowSize, StopRepeatThreshold, PollNoProgressThreshold, PingPongCycles} \subseteq Nat
    /\ PollNoProgressThreshold > 0 /\ KeptResults \in Nat
    /\ KeptResults >= PollNoProgressThreshold
    /\ IsFiniteSet(Turns)

VARIABLES
    window,     \* _call_hashes: the last calls checked, of all turns
    results,    \* _result_hashes: tool -> its last results, of all turns
    turn        \* turn -> its progress

vars == <<window, results, turn>>

\* Turns, tools and outputs are interchangeable.
Symmetry == Permutations(Turns) \cup Permutations(Tools) \cup Permutations(Outputs)

Batches == UNION {[1 .. n -> Tools] : n \in 1 .. MaxBatch}

\* "calling": in _call_llm; "tools": between two tool calls; "executing": the
\* first pending call runs; "answering" and "summarizing": in the model's call
\* without tools; the others end the turn.
Ended == {"done", "failed", "cancelled"}
Stages == {"idle", "calling", "tools", "executing", "answering", "summarizing"} \cup Ended

----------------------------------------------------------------------------
(* Helpers; Name_Fault is Name with one plausible mistake in it. *)

LastOf(s, n) == IF Len(s) > n THEN SubSeq(s, Len(s) - n + 1, Len(s)) ELSE s

AllSame(s) == \A i, j \in DOMAIN s : s[i] = s[j]

\* The four checks, after call k entered window w.  (The circuit breaker's
\* condition implies the generic repeat's and only words its reason.)
PollStuck_Never(k) == FALSE
PollStuck(k) ==
    /\ Len(results[k]) >= PollNoProgressThreshold
    /\ AllSame(LastOf(results[k], PollNoProgressThreshold))

PingPong(w) ==
    LET required == 2 * PingPongCycles + 1
        tail     == LastOf(w, required)
    IN  /\ Len(tail) = required
        /\ tail[1] # tail[2]
        /\ \A i \in DOMAIN tail : tail[i] = tail[IF i % 2 = 1 THEN 1 ELSE 2]

Repeated(w, k) == Cardinality({i \in DOMAIN w : w[i] = k}) >= StopRepeatThreshold

Stops(w, k) == PollStuck(k) \/ PingPong(w) \/ Repeated(w, k)

\* The window after call k was checked.
Seen_WholeHistory(k) == Append(window, k)
Seen(k) == LastOf(Append(window, k), WindowSize)

\* The calls left after one got its result.
Rest_SkipsOne(calls) == IF Len(calls) > 2 THEN SubSeq(calls, 3, Len(calls)) ELSE <<>>
Rest(calls) == Tail(calls)

NextIteration_Same(i) == i
NextIteration(i) == i + 1

\* A response that asks for permission is answered by the loop itself.
MayContinue(t) == turn[t].continues < AutoContinueMax

\* The next call of _call_llm begins.
Calling(record, i) == [record EXCEPT !.stage = "calling", !.iteration = i, !.attempt = 0]

Goto(t, s) == turn' = [turn EXCEPT ![t].stage = s]

\* A turn's record when none of its locals is in use.
Blank(s) ==
    [stage |-> s, iteration |-> 0, attempt |-> 0, continues |-> 0, pending |-> <<>>,
     owed |-> 0, stopped |-> FALSE, unanswered |-> FALSE]

End(t, s) == turn' = [turn EXCEPT ![t] = Blank(s)]

----------------------------------------------------------------------------
Init ==
    /\ window = <<>>
    /\ results = [k \in Tools |-> <<>>]
    /\ turn = [t \in Turns |-> Blank("idle")]

Guard == <<window, results>>

Begin(t) ==
    /\ turn[t].stage = "idle"
    /\ turn' = [turn EXCEPT ![t] = Calling(@, 0)]
    /\ UNCHANGED Guard

\* The model answers with tool calls, none of which has a result yet.
LlmCallsTools(t, batch) ==
    /\ turn[t].stage = "calling"
    /\ turn' = [turn EXCEPT ![t].stage = "tools", ![t].attempt = 0,
                            ![t].pending = batch, ![t].owed = Len(batch)]
    /\ UNCHANGED Guard

\* The text ends the turn, or asks for permission and is told to go on.
TextEnds(t) == End(t, "done")
TextAsks(t) ==
    /\ MayContinue(t)
    /\ turn' = [turn EXCEPT ![t] = [Calling(turn[t], 0) EXCEPT !.continues = @ + 1]]

\* The model answers without tool calls: its first answer is asked for again,
\* without tools; a later one is the text.
LlmAnswers(t) ==
    /\ turn[t].stage = "calling"
    /\ IF turn[t].iteration = 0 THEN Goto(t, "answering") ELSE TextEnds(t) \/ TextAsks(t)
    /\ UNCHANGED Guard

MainLlmAnswers(t) ==
    /\ turn[t].stage = "answering"
    /\ TextEnds(t) \/ TextAsks(t)
    /\ UNCHANGED Guard

MainLlmFails(t) ==
    /\ turn[t].stage \in {"answering", "summarizing"}
    /\ End(t, "failed")
    /\ UNCHANGED Guard

Summarizes(t) ==
    /\ turn[t].stage = "summarizing"
    /\ End(t, "done")
    /\ UNCHANGED Guard

\* _call_llm: a transient or unknown error is retried with a delay, a rate limit
\* after it was waited out.  The last attempt's error is raised; its rate limit
\* is waited out too, but then None is returned, which the caller cannot use.
LlmErrs(t) ==
    /\ turn[t].stage = "calling"
    /\ IF turn[t].attempt < MaxRetries - 1
       THEN turn' = [turn EXCEPT ![t].attempt = @ + 1]
       ELSE End(t, "failed")
    /\ UNCHANGED Guard

\* A context overflow or an authentication error is raised at once.
LlmRefuses(t) ==
    /\ turn[t].stage = "calling"
    /\ End(t, "failed")
    /\ UNCHANGED Guard

\* The next call is checked and its execution begins.
RunTool(t) ==
    /\ turn[t].stage = "tools"
    /\ turn[t].pending # <<>>
    /\ LET k == Head(turn[t].pending)
       IN  /\ window' = Seen(k)
           /\ ~Stops(window', k)
    /\ turn' = [turn EXCEPT ![t].stage = "executing"]
    /\ UNCHANGED results

\* The guard stops it: it gets a result that says so, and the calls after it
\* get none.
StopTool(t) ==
    /\ turn[t].stage = "tools"
    /\ turn[t].pending # <<>>
    /\ LET k == Head(turn[t].pending)
       IN  /\ window' = Seen(k)
           /\ Stops(window', k)
    /\ turn' = [turn EXCEPT ![t].pending = <<>>, ![t].owed = @ - 1,
                            ![t].stopped = TRUE]
    /\ UNCHANGED results

\* A tool that fails returns its error as its output.
ToolReturns(t, o) ==
    /\ turn[t].stage = "executing"
    /\ LET k == Head(turn[t].pending)
       IN  results' = [results EXCEPT ![k] = LastOf(Append(@, o), KeptResults)]
    /\ turn' = [turn EXCEPT ![t].stage = "tools", ![t].pending = Rest(@),
                            ![t].owed = @ - 1]
    /\ UNCHANGED window

\* The for loop over the calls is over.
EndBatch(t) ==
    /\ turn[t].stage = "tools"
    /\ turn[t].pending = <<>>
    /\ LET r == [turn[t] EXCEPT !.owed = 0, !.unanswered = @ \/ turn[t].owed > 0]
           i == NextIteration(r.iteration)
       IN  turn' = [turn EXCEPT ![t] = IF i < MaxToolIterations THEN Calling(r, i)
                                       ELSE [r EXCEPT !.stage = "summarizing"]]
    /\ UNCHANGED Guard

\* The request's task is cancelled at an await.
Cancel(t) ==
    /\ turn[t].stage \notin Ended \cup {"idle"}
    /\ End(t, "cancelled")
    /\ UNCHANGED Guard

TurnStep(t) ==
    \/ \E batch \in Batches : LlmCallsTools(t, batch)
    \/ LlmAnswers(t)
    \/ MainLlmAnswers(t)
    \/ MainLlmFails(t)
    \/ Summarizes(t)
    \/ LlmErrs(t)
    \/ LlmRefuses(t)
    \/ RunTool(t)
    \/ StopTool(t)
    \/ \E o \in Outputs : ToolReturns(t, o)
    \/ EndBatch(t)
    \/ Cancel(t)

Next == \E t \in Turns : Begin(t) \/ TurnStep(t)

Spec == Init /\ [][Next]_vars

----------------------------------------------------------------------------
(* Properties *)

\* Every variable keeps its type.
TypeOK ==
    /\ window \in Seq(Tools) /\ Len(window) <= WindowSize
    /\ results \in [Tools -> Seq(Outputs)]
    /\ turn \in [Turns ->
          [stage : Stages, iteration : 0 .. MaxToolIterations - 1,
           attempt : 0 .. MaxRetries - 1, continues : 0 .. AutoContinueMax,
           pending : Seq(Tools), owed : 0 .. MaxBatch,
           stopped : BOOLEAN, unanswered : BOOLEAN]]

\* A tool stuck on one result is not polled for ever: however the turns that
\* call it interleave, the same result is recorded at most once per turn beyond
\* the threshold.
PollingEnds ==
    \A k \in Tools :
        LET n == PollNoProgressThreshold + Cardinality(Turns)
        IN  Len(results[k]) >= n => ~AllSame(LastOf(results[k], n))

\* Unless the guard stopped the turn, the model is asked again only when every
\* tool call of the conversation has its result.
UnansweredOnlyByStop ==
    \A t \in Turns : turn[t].unanswered => turn[t].stopped

LoopSafe == PollingEnds /\ UnansweredOnlyByStop

\* What an iteration has left at most, counted in steps.
StepsLeft(r) ==
    CASE r.stage = "idle"      -> 2 * MaxBatch + 5 + MaxRetries
      [] r.stage = "calling"   -> 2 * MaxBatch + 4 + (MaxRetries - r.attempt)
      [] r.stage = "tools"     -> 2 * Len(r.pending) + 3
      [] r.stage = "executing" -> 2 * Len(r.pending) + 2
      [] OTHER                 -> 1

\* A turn at r has less left than at q: continuations count most, then
\* iterations, then the steps of the iteration.
LessLeft(r, q) ==
    \/ r.continues > q.continues
    \/ /\ r.continues = q.continues
       /\ \/ r.iteration > q.iteration
          \/ r.iteration = q.iteration /\ StepsLeft(r) < StepsLeft(q)

\* A turn ends, whatever the model answers, the tools return and the other
\* turns do: each of its steps ends it or uses up part of a fixed budget.
TurnsAreBounded ==
    [][\A t \in Turns : turn'[t] # turn[t] =>
          /\ turn[t].stage \notin Ended
          /\ turn'[t].stage \in Ended \/ LessLeft(turn'[t], turn[t])]_vars
=============================================================================
