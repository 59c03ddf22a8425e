------------------------------ MODULE Scheduler ------------------------------
(***************************************************************************)
(* The gateway's task scheduler (Scheduler in gateway/scheduler.py).       *)
(*                                                                         *)
(* Its methods are synchronous and its loop never awaits between looking   *)
(* at the tasks and starting the due ones, so each is one step; a run      *)
(* (_run_task) is interrupted wherever it awaits: before its first step,   *)
(* while it works, and while it emits the event of a failure.  Time is     *)
(* reduced to whether a task's next_run lies ahead or has passed.          *)
(***************************************************************************)
EXTENDS Naturals, FiniteSets

CONSTANTS
    Tasks,      \* ScheduledTask objects
    Names,
    NameOf,     \* NameOf[t]: the name of task t
    OneShot,    \* the tasks of type ONE_SHOT; the others are periodic
    MaxRuns,    \* bound on the runs of one task
    None

ASSUME SchedulerConstants ==
    /\ NameOf \in [Tasks -> Names]
    /\ OneShot \subseteq Tasks
    /\ MaxRuns \in Nat
    /\ None \notin Tasks \cup (Tasks \X Nat)

VARIABLES
    tasks,      \* _tasks: name -> task, or None
    running,    \* _running_tasks: name -> run, or None
    on,         \* _running: the loop is live
    added,      \* tasks that have been added
    enabled,    \* tasks with enabled = True
    nextRun,    \* task -> next_run: "none", "later" or "due"
    ran,        \* tasks with run_count > 0
    started,    \* task -> how many runs of it were created
    phase,      \* run -> "absent", "created", "working", "failing", "over" (its
                \* code was begun) or "dropped" (it never was)
    cancelled,  \* runs whose cancel() was called
    removed,    \* history: names of which a task was removed
    stopped     \* history: the scheduler was stopped once

history == <<removed, stopped>>
vars == <<tasks, running, on, added, enabled, nextRun, ran, started, phase, cancelled,
          history>>

\* An instance of NameOf: all tasks share a name, so one may replace another.
OneName == [t \in Tasks |-> CHOOSE n \in Names : TRUE]

\* The n-th run of task t.
Runs == Tasks \X (1 .. MaxRuns)

Live(u) == phase[u] \in {"created", "working", "failing"}

----------------------------------------------------------------------------
(* Helpers; Name_Fault is Name with one plausible mistake in it. *)

\* What _calculate_next_run may return for t, given who is enabled and who ran.
NextRuns_IgnoresEnabled(t, on_, ran_) ==
    IF t \in OneShot /\ t \in ran_ THEN {"none"} ELSE {"later", "due"}
NextRuns_IgnoresCount(t, on_, ran_) ==
    IF t \notin on_ THEN {"none"} ELSE {"later", "due"}
NextRuns(t, on_, ran_) ==
    IF t \notin on_ \/ (t \in OneShot /\ t \in ran_) THEN {"none"} ELSE {"later", "due"}

\* The entries of the cancelled runs are removed.
Forget_KeepsEntries(S) == UNCHANGED running
Forget(S) == running' = [n \in Names |-> IF n \in S THEN None ELSE running[n]]

\* The tasks the loop starts: enabled, due, and no run under their name.
Startable_BeforeTime ==
    {t \in Tasks : /\ tasks[NameOf[t]] = t
                   /\ t \in enabled /\ nextRun[t] = "later"
                   /\ running[NameOf[t]] = None
                   /\ started[t] < MaxRuns}
Startable_EvenIfRunning ==
    {t \in Tasks : /\ tasks[NameOf[t]] = t
                   /\ t \in enabled /\ nextRun[t] = "due"
                   /\ started[t] < MaxRuns}
Startable ==
    {t \in Tasks : /\ tasks[NameOf[t]] = t
                   /\ t \in enabled /\ nextRun[t] = "due"
                   /\ running[NameOf[t]] = None
                   /\ started[t] < MaxRuns}

\* A run of every task in S is created under its name.
Launch(S) ==
    /\ started' = [t \in Tasks |-> IF t \in S THEN started[t] + 1 ELSE started[t]]
    /\ phase' = [u \in Runs |-> IF u[1] \in S /\ u[2] = started[u[1]] + 1
                                THEN "created" ELSE phase[u]]
    /\ running' = [n \in Names |-> IF \E t \in S : NameOf[t] = n
                                   THEN <<tasks[n], started[tasks[n]] + 1>>
                                   ELSE running[n]]

\* The runs that _running_tasks lists under the names S.
Listed_Unchecked(S) == {running[n] : n \in S}
Listed(S) == {running[n] : n \in S} \ {None}

----------------------------------------------------------------------------
Init ==
    /\ tasks = [n \in Names |-> None]
    /\ running = [n \in Names |-> None]
    /\ on = FALSE
    /\ added = {}
    /\ enabled \in SUBSET Tasks
    /\ nextRun = [t \in Tasks |-> "none"]
    /\ ran = {}
    /\ started = [t \in Tasks |-> 0]
    /\ phase = [u \in Runs |-> "absent"]
    /\ cancelled = {}
    /\ removed = {} /\ stopped = FALSE

\* add_task; a task of the same name is overwritten, whether it runs or not.
AddTask(t) ==
    /\ t \notin added
    /\ tasks' = [tasks EXCEPT ![NameOf[t]] = t]
    /\ added' = added \cup {t}
    /\ \E w \in NextRuns(t, enabled, ran) : nextRun' = [nextRun EXCEPT ![t] = w]
    /\ UNCHANGED <<running, on, enabled, ran, started, phase, cancelled,
                   history>>

\* remove_task: a run of that name is told to stop and forgotten.
RemoveTask(n) ==
    /\ tasks[n] # None
    /\ cancelled' = cancelled \cup Listed({n})
    /\ Forget({n})
    /\ tasks' = [tasks EXCEPT ![n] = None]
    /\ removed' = removed \cup {n}
    /\ UNCHANGED <<stopped, on, added, enabled, nextRun, ran, started, phase>>

EnableTask(n) ==
    /\ tasks[n] # None
    /\ enabled' = enabled \cup {tasks[n]}
    /\ \E w \in NextRuns(tasks[n], enabled', ran) :
          nextRun' = [nextRun EXCEPT ![tasks[n]] = w]
    /\ UNCHANGED <<tasks, running, on, added, ran, started, phase, cancelled, history>>

DisableTask(n) ==
    /\ tasks[n] # None
    /\ enabled' = enabled \ {tasks[n]}
    /\ nextRun' = [nextRun EXCEPT ![tasks[n]] = "none"]
    /\ UNCHANGED <<tasks, running, on, added, ran, started, phase, cancelled, history>>

Start ==
    /\ ~on
    /\ on' = TRUE
    /\ UNCHANGED <<tasks, running, added, enabled, nextRun, ran, started, phase, cancelled,
                   history>>

\* stop: the loop ends at its sleep, every listed run is told to stop and none
\* of them is awaited.
Stop ==
    /\ on
    /\ on' = FALSE
    /\ cancelled' = cancelled \cup Listed(Names)
    /\ Forget(Names)
    /\ stopped' = TRUE
    /\ UNCHANGED <<removed, tasks, added, enabled, nextRun, ran, started, phase>>

\* now >= next_run for t.
TimePasses(t) ==
    /\ nextRun[t] = "later"
    /\ nextRun' = [nextRun EXCEPT ![t] = "due"]
    /\ UNCHANGED <<tasks, running, on, added, enabled, ran, started, phase, cancelled, history>>

\* One round of _scheduler_loop.
Tick ==
    /\ on
    /\ Startable # {}
    /\ Launch(Startable)
    /\ UNCHANGED <<tasks, on, added, enabled, nextRun, ran, cancelled, history>>

\* run_task_now, up to its await; it does not ask whether the task is enabled.
RunTaskNow(n) ==
    /\ tasks[n] # None
    /\ tasks[n] \notin OneShot    \* input bound: one-shot tasks are left to the loop
    /\ running[n] = None
    /\ started[tasks[n]] < MaxRuns
    /\ Launch({tasks[n]})
    /\ UNCHANGED <<tasks, on, added, enabled, nextRun, ran, cancelled, history>>

----------------------------------------------------------------------------
(* A run u of _run_task *)

Enter(u, p) ==
    /\ phase' = [phase EXCEPT ![u] = p]
    /\ UNCHANGED <<tasks, running, on, added, enabled, nextRun, ran, started, cancelled,
                   history>>

Begin(u) == phase[u] = "created" /\ u \notin cancelled /\ Enter(u, "working")

\* A run cancelled before its first step never executes any of its code.
NeverBegins(u) == phase[u] = "created" /\ u \in cancelled /\ Enter(u, "dropped")

\* The handler or the command raises; the error event is emitted.
Fail(u) == phase[u] = "working" /\ u \notin cancelled /\ Enter(u, "failing")

\* Cancelled while it emits that event: nothing is left to catch it.
FailAborted(u) == phase[u] = "failing" /\ u \in cancelled /\ Enter(u, "over")

\* Otherwise the run ends in one stretch, cancelled or not: the task's state is
\* updated and the entry of its name removed, whichever run it holds.
Finish(u) ==
    LET t == u[1]
    IN  /\ phase[u] = "working" \/ (phase[u] = "failing" /\ u \notin cancelled)
        /\ phase' = [phase EXCEPT ![u] = "over"]
        /\ ran' = ran \cup {t}
        /\ \E w \in NextRuns(t, enabled, ran') : nextRun' = [nextRun EXCEPT ![t] = w]
        /\ running' = [running EXCEPT ![NameOf[t]] = None]
        /\ UNCHANGED <<tasks, on, added, enabled, started, cancelled, history>>

RunStep(u) == Begin(u) \/ NeverBegins(u) \/ Fail(u) \/ FailAborted(u) \/ Finish(u)

Next ==
    \/ \E t \in Tasks : AddTask(t)
    \/ \E n \in Names : RemoveTask(n)
    \/ \E n \in Names : EnableTask(n)
    \/ \E n \in Names : DisableTask(n)
    \/ Start
    \/ Stop
    \/ \E t \in Tasks : TimePasses(t)
    \/ Tick
    \/ \E n \in Names : RunTaskNow(n)
    \/ \E u \in Runs : RunStep(u)

Spec == Init /\ [][Next]_vars

\* The loop wakes up every 100 ms, time passes and runs end.
FairSpec ==
    /\ Spec
    /\ WF_vars(Tick)
    /\ \A t \in Tasks : WF_vars(TimePasses(t))
    /\ \A u \in Runs : WF_vars(RunStep(u))

----------------------------------------------------------------------------
(* Properties *)

\* Every variable keeps its type.
TypeOK ==
    /\ tasks \in [Names -> Tasks \cup {None}]
    /\ running \in [Names -> Runs \cup {None}]
    /\ on \in BOOLEAN
    /\ added \subseteq Tasks /\ enabled \subseteq Tasks /\ ran \subseteq Tasks
    /\ nextRun \in [Tasks -> {"none", "later", "due"}]
    /\ started \in [Tasks -> 0 .. MaxRuns]
    /\ phase \in [Runs -> {"absent", "created", "working", "failing", "over", "dropped"}]
    /\ cancelled \subseteq Runs
    /\ removed \subseteq Names /\ stopped \in BOOLEAN

\* A run that _running_tasks lists is alive and nobody has cancelled it: the
\* entry of a finished run would keep its task from ever running again.
EntriesAreLive ==
    \A n \in Names : running[n] # None =>
        /\ NameOf[running[n][1]] = n
        /\ Live(running[n]) /\ running[n] \notin cancelled

\* A disabled task, and a one-shot task that has run, have no next_run, even
\* when they were disabled or enabled in the middle of a run.
IdleHasNoNextRun ==
    \A t \in Tasks : t \notin enabled \/ (t \in OneShot /\ t \in ran) => nextRun[t] = "none"

\* What the scheduler lists agrees with what runs and with what is to run.
EntriesAgree == EntriesAreLive /\ IdleHasNoNextRun

\* No task of t's name was removed and the scheduler was not stopped.
Untouched(t) == NameOf[t] \notin removed /\ ~stopped

\* "Task {name} is already running" (run_task_now): no task is run twice at the
\* same time, unless one of its name was removed or the scheduler was stopped;
\* replacing a task that runs is harmless.
NoOverlap ==
    \A u, v \in Runs : /\ u[1] = v[1] /\ Untouched(u[1])
                       /\ Live(u) /\ Live(v)
                       => u = v

\* The runs of t that began its work.
Begun(t) == {u \in Runs : u[1] = t /\ phase[u] \in {"working", "failing", "over"}}

\* Under the same condition the work of a one-shot task is begun at most once.
OneShotOnce ==
    \A t \in OneShot : Untouched(t) => Cardinality(Begun(t)) <= 1

\* No work is done twice, neither at the same time nor, for a one-shot task,
\* one after the other.
NothingRunsTwice == NoOverlap /\ OneShotOnce

\* "Run once" (TaskType.ONE_SHOT): while the scheduler is on, the work of a
\* one-shot task is begun at most once.
RunOnce == \A t \in OneShot : ~stopped => Cardinality(Begun(t)) <= 1

\* A task that is due is run, unless it is disabled or replaced or the scheduler
\* stops, or the bound on its runs is reached.
DueTasksRun ==
    \A t \in Tasks : \A k \in 1 .. MaxRuns :
        nextRun[t] = "due" /\ t \in enabled /\ started[t] = k - 1
            ~> \/ started[t] >= k
               \/ t \notin enabled \/ tasks[NameOf[t]] # t \/ ~on \/ nextRun[t] # "due"
=============================================================================
