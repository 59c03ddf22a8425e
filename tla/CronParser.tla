----------------------------- MODULE CronParser -----------------------------
(***************************************************************************)
(* Cron expressions of scheduled tasks (CronParser in                      *)
(* gateway/scheduler.py): how a field is parsed into a set of numbers and  *)
(* how next_run looks for the next minute that matches all five.  The      *)
(* calendar is a parameter: it gives every minute its fields.              *)
(*                                                                         *)
(* The parser's comment counts weekdays from Sunday (scheduler.py:131), the *)
(* search compares them with datetime.weekday(), which counts from Monday  *)
(* (:189): "1-5", documented as weekdays (:107), is Tuesday to Saturday.   *)
(*                                                                         *)
(* An expression maps the five fields to sets of comma-separated parts; a  *)
(* part is the record its syntax stands for.                               *)
(***************************************************************************)
EXTENDS Naturals

CONSTANTS
    Minutes,        \* the minutes of the calendar, 0 .. n
    Calendar,       \* Calendar[t]: the fields of minute t; weekday: as
                    \* datetime.weekday() counts, 0 = Monday
    Expressions,    \* the expressions tried
    Lowest, Highest,\* field -> its least and greatest value
    MaxIterations   \* 525600 in the code

FieldNames == {"minute", "hour", "day", "month", "weekday"}

ASSUME CronConstants ==
    /\ Calendar \in [Minutes -> [FieldNames -> Nat]]
    /\ Lowest \in [FieldNames -> Nat] /\ Highest \in [FieldNames -> Nat]
    /\ MaxIterations \in Nat

VARIABLES
    expression, \* the expression
    after,      \* the minute the search starts after
    candidate,  \* the minute looked at
    result      \* "searching", "found" (candidate is returned) or "raised"

vars == <<expression, after, candidate, result>>

\* _parse_field for one part: "*", "*/n", "n-m" and "n".
Values(part, f) ==
    CASE part.kind = "any"   -> Lowest[f] .. Highest[f]
      [] part.kind = "step"  -> {v \in Lowest[f] .. Highest[f] : (v - Lowest[f]) % part.step = 0}
      [] part.kind = "range" -> part.from .. part.to
      [] part.kind = "one"   -> {part.value}

\* _parse_field for a field with commas.
Parsed(e, f) == UNION {Values(part, f) : part \in e[f]}

\* The test of next_run's loop.
Matches(e, t) == \A f \in FieldNames : Calendar[t][f] \in Parsed(e, f)

\* The search starts with the minute that follows.
FirstCandidate_Now(t) == t
FirstCandidate(t) == t + 1

NextCandidate_Same(t) == t
NextCandidate(t) == t + 1

Init ==
    /\ expression \in Expressions
    /\ after \in {t \in Minutes : t + MaxIterations \in Minutes}
    /\ candidate = FirstCandidate(after)
    /\ result = "searching"

Found ==
    /\ result = "searching"
    /\ candidate <= after + MaxIterations
    /\ Matches(expression, candidate)
    /\ result' = "found"
    /\ UNCHANGED <<expression, after, candidate>>

Advance ==
    /\ result = "searching"
    /\ candidate <= after + MaxIterations
    /\ ~Matches(expression, candidate)
    /\ candidate' = NextCandidate(candidate)
    /\ UNCHANGED <<expression, after, result>>

\* "Could not find next run time": the task gets no next_run and never runs.
Raise ==
    /\ result = "searching"
    /\ candidate > after + MaxIterations
    /\ result' = "raised"
    /\ UNCHANGED <<expression, after, candidate>>

Next == Found \/ Advance \/ Raise

Spec == Init /\ [][Next]_vars /\ WF_vars(Next)

----------------------------------------------------------------------------
(* Properties *)

\* Every variable keeps its type.
TypeOK ==
    /\ expression \in Expressions
    /\ after \in Minutes
    /\ candidate \in (after + 1) .. (after + MaxIterations + 1)
    /\ result \in {"searching", "found", "raised"}

\* The weekday of a minute by the comment of the parser, 0 = Sunday.
DocumentedWeekday(t) == (Calendar[t]["weekday"] + 1) % 7
TheDayBefore(d) == (d + 6) % 7

\* The minute found is the first one after the start that matches, and the
\* search gives up only when the whole window holds none.  It comes a day later
\* in the week than the weekday field is documented to say: the field names the
\* day before it.
FirstMatch ==
    LET within == IF result = "searching" THEN {}
                  ELSE {t \in Minutes : after < t /\ t <= after + MaxIterations
                                                  /\ Matches(expression, t)}
    IN  /\ result = "found" => candidate \in within /\ \A t \in within : candidate <= t
        /\ result = "raised" => within = {}
        /\ result = "found" =>
               TheDayBefore(DocumentedWeekday(candidate)) \in Parsed(expression, "weekday")

\* The search ends.
SearchEnds == <>(result # "searching")

\* The search ends, with the first matching minute if the window has one.
SearchCorrect == []FirstMatch /\ SearchEnds
=============================================================================
