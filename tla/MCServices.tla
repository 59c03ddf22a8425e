----------------------------- MODULE MCServices -----------------------------
(* Larger instances of the parts of the gateway that share no state with one  *)
(* another. One of them, the subject, runs in each behaviour while the others *)
(* stay as they start.                                                        *)
EXTENDS CronParser, VectorMigration, Reminders, EmailMonitor, AdapterManager, McpServer, TLC

CONSTANTS t1, t2, r1, r2, i1, i2, x1, k1, k2, m1, m2, m3
VARIABLES subject

-----------------------------------------------------------------------------
(* A small calendar. *)

\* Two minutes a day; years of two months, of three days and of two, or of
\* three in every other year; eight years from a Monday on.
DayLength  == 2
YearPair   == 11     \* days of an ordinary year (5) and a leap year (6)
LastMinute == 8 * YearPair * DayLength - 1
MCMinutes  == 0 .. LastMinute

DayOfPair(t) == (t \div DayLength) % YearPair
DayOfYear(t) == IF DayOfPair(t) < 5 THEN DayOfPair(t) ELSE DayOfPair(t) - 5

MCCalendar ==
    [t \in MCMinutes |->
        [f \in FieldNames |->
            CASE f = "minute"  -> t % DayLength
              [] f = "hour"    -> 0
              [] f = "day"     -> 1 + (DayOfYear(t) % 3)
              [] f = "month"   -> 1 + (DayOfYear(t) \div 3)
              [] f = "weekday" -> (t \div DayLength) % 7]]

MCLowest  == [f \in FieldNames |-> IF f \in {"day", "month"} THEN 1 ELSE 0]
MCHighest ==
    [f \in FieldNames |->
        CASE f = "minute" -> DayLength - 1 [] f = "hour" -> 0 [] f = "day" -> 3
          [] f = "month" -> 2 [] f = "weekday" -> 6]

AnyValue  == [kind |-> "any"]
One(v)    == [kind |-> "one", value |-> v]
Span(a, b) == [kind |-> "range", from |-> a, to |-> b]
EveryNth(n)  == [kind |-> "step", step |-> n]

Always == [f \in FieldNames |-> {AnyValue}]

\* Daily, every other minute, on 1-5 (Tuesday to Saturday for the search, which
\* counts from Monday), on 0 and 6, on the first of the month, on the day only
\* leap years have, and on a weekday written 7.
MCExpressions ==
    { [Always EXCEPT !["minute"] = {One(0)}],
      [Always EXCEPT !["minute"] = {EveryNth(2)}],
      [Always EXCEPT !["minute"] = {One(1)}, !["weekday"] = {Span(1, 5)}],
      [Always EXCEPT !["weekday"] = {One(0), One(6)}],
      [Always EXCEPT !["day"] = {One(1)}],
      [Always EXCEPT !["day"] = {One(3)}, !["month"] = {One(2)}],
      [Always EXCEPT !["weekday"] = {One(7)}] }

\* The minutes of an ordinary year.
MCMaxIterations == 5 * DayLength

-----------------------------------------------------------------------------
(* A keyword and a time; both fire for the first request once the time came.  *)
MCWords    == (r1 :> {"meeting"}) @@ (r2 :> {"meeting", "hello"})
MCContext  == (r1 :> {"dm"}) @@ (r2 :> {})
Condition(type, words) == [type |-> type, words |-> words, quick |-> {}, percent |-> 0]
MCTrigger  == (i1 :> Condition("keyword", {"meeting"})) @@ (i2 :> Condition("time", {}))
MCPriority == (i1 :> 1) @@ (i2 :> 2)

(* A disabled adapter and one that is always restarted; a caller              *)
(* that manages the MCP server and two that call it; messages for a rule of   *)
(* each kind.                                                                 *)
MCPolicy  == <<"on_failure", "always">>
MCSpawned == <<0, 3>>
MCJobs    == (m1 :> {"start", "stop", "restart"}) @@ (m2 :> {"call"}) @@ (m3 :> {"call"})
MCOps     == [m \in {m1, m2, m3} |-> 1]
MCMail    == << {"sender"}, {"sender", "subject"}, {}, {"subject"} >>
Rule(priority, enabled, readable, mode1, conditions) ==
  [priority |-> priority, enabled |-> enabled, readable |-> readable, mode |-> mode1,
   conditions |-> conditions]
MCRules ==
  << Rule(1, TRUE, TRUE, "any", {}),
     Rule(2, TRUE, TRUE, "all", {"sender", "subject"}),
     Rule(3, FALSE, TRUE, "any", {"sender"}),
     Rule(1, TRUE, TRUE, "any", {"subject", "attachment"}),
     Rule(5, TRUE, FALSE, "any", {"sender"}) >>

-----------------------------------------------------------------------------
Parked(s) ==
  CASE s = "cron"      -> UNCHANGED vars
    [] s = "vectors"   -> UNCHANGED migrationVars
    [] s = "reminders" -> UNCHANGED reminderVars
    [] s = "adapters"  -> UNCHANGED adapterVars
    [] s = "mcp"       -> UNCHANGED mcpVars
    [] s = "email"     -> UNCHANGED emailVars

Subjects == {"cron", "vectors", "reminders", "adapters", "mcp", "email"}

(* A search that is over, where nobody searches. *)
SearchIsOver ==
  /\ expression = [Always EXCEPT !["minute"] = {One(0)}]
  /\ after = 1 /\ candidate = 2 /\ result = "found"

ServicesInit ==
  /\ subject \in Subjects
  /\ IF subject = "cron" THEN Init ELSE SearchIsOver
  /\ MigrationInit /\ RemindersInit /\ AdaptersInit /\ McpInit /\ EmailInit

ServicesNext ==
  /\ \/ subject = "cron"      /\ Next
     \/ subject = "vectors"   /\ MigrationNext
     \/ subject = "reminders" /\ RemindersNext
     \/ subject = "adapters"  /\ AdaptersNext
     \/ subject = "mcp"       /\ McpNext
     \/ subject = "email"     /\ EmailNext
  /\ subject' = subject
  /\ \A s \in Subjects \ {subject} : Parked(s)

ServicesVars == <<subject, vars, migrationVars, reminderVars, adapterVars, mcpVars, emailVars>>

ServicesSpec == ServicesInit /\ [][ServicesNext]_ServicesVars /\ WF_vars(Next)

(* The types of all of them. *)
ServicesTypeOK ==
  /\ TypeOK /\ MigrationTypeOK /\ RemindersTypeOK
  /\ AdaptersTypeOK /\ McpTypeOK /\ EmailTypeOK
=============================================================================
