--------------------------- MODULE SchedulerProofs ---------------------------
(***************************************************************************)
(* What keeps a task runnable, and what keeps two runs of it apart, for    *)
(* every set of tasks and names; and, at the end, when the snapshot of a   *)
(* user's vault is the vault's, for every set of turns and writes.         *)
(***************************************************************************)
EXTENDS Scheduler, ObsidianVault, FiniteSetTheorems, TLAPS

LEMMA NextRunsType ==
    ASSUME NEW t, NEW E, NEW R
    PROVE  NextRuns(t, E, R) \subseteq {"none", "later", "due"}
BY DEF NextRuns

LEMMA RunIsNotNone == \A u \in Runs : u # None
BY SchedulerConstants DEF Runs

\* Every run of _running_tasks is a run of a task of that name, the tasks that
\* are registered carry their own names, and runs are numbered in order.
Registered ==
    /\ \A n \in Names : tasks[n] # None => NameOf[tasks[n]] = n
    /\ \A u \in Runs : u[2] > started[u[1]] => phase[u] = "absent" /\ u \notin cancelled

LEMMA LaunchType ==
    ASSUME TypeOK, Registered, NEW S \in SUBSET Tasks, Launch(S),
           \A t \in S : tasks[NameOf[t]] = t /\ started[t] < MaxRuns
    PROVE  /\ started' \in [Tasks -> 0 .. MaxRuns]
           /\ phase' \in [Runs -> {"absent", "created", "working", "failing", "over", "dropped"}]
           /\ running' \in [Names -> Runs \cup {None}]
<1> USE SchedulerConstants
<1>1. started' \in [Tasks -> 0 .. MaxRuns]
  BY DEF Launch, TypeOK
<1>2. phase' \in [Runs -> {"absent", "created", "working", "failing", "over", "dropped"}]
  BY DEF Launch, TypeOK
<1>3. ASSUME NEW n \in Names, NEW t \in S, NameOf[t] = n
      PROVE  <<tasks[n], started[tasks[n]] + 1>> \in Runs
  <2>1. tasks[n] = t /\ t \in Tasks
    BY <1>3
  <2>2. started[t] + 1 \in 1 .. MaxRuns
    BY <2>1, <1>3 DEF TypeOK
  <2> QED
    BY <2>1, <2>2 DEF Runs
<1> QED
  BY <1>1, <1>2, <1>3 DEF Launch, TypeOK

LEMMA TypeStep == TypeOK /\ Registered /\ [Next]_vars => TypeOK'
<1> SUFFICES ASSUME TypeOK, Registered, [Next]_vars PROVE TypeOK'
  OBVIOUS
<1> USE SchedulerConstants
<1>1. ASSUME NEW t \in Tasks, AddTask(t) PROVE TypeOK'
  BY <1>1, NextRunsType DEF history, AddTask, TypeOK
<1>2. ASSUME NEW n \in Names, RemoveTask(n) PROVE TypeOK'
  <2>1. Listed({n}) \subseteq Runs
    BY DEF Listed, TypeOK
  <2> QED
    BY <1>2, <2>1 DEF history, RemoveTask, Forget, TypeOK
<1>3. ASSUME NEW n \in Names, EnableTask(n) PROVE TypeOK'
  BY <1>3, NextRunsType DEF history, EnableTask, TypeOK
<1>4. ASSUME NEW n \in Names, DisableTask(n) PROVE TypeOK'
  BY <1>4 DEF history, DisableTask, TypeOK
<1>5. CASE Start
  BY <1>5 DEF history, Start, TypeOK
<1>6. CASE Stop
  <2>1. Listed(Names) \subseteq Runs
    BY DEF Listed, TypeOK
  <2> QED
    BY <1>6, <2>1 DEF history, Stop, Forget, TypeOK
<1>7. ASSUME NEW t \in Tasks, TimePasses(t) PROVE TypeOK'
  BY <1>7 DEF history, TimePasses, TypeOK
<1>8. CASE Tick
  <2>1. Startable \in SUBSET Tasks
        /\ \A t \in Startable : tasks[NameOf[t]] = t /\ started[t] < MaxRuns
    BY DEF Startable
  <2>2. Launch(Startable)
    BY <1>8 DEF Tick
  <2> QED
    BY <1>8, <2>1, <2>2, LaunchType DEF history, Tick, TypeOK
<1>9. ASSUME NEW n \in Names, RunTaskNow(n) PROVE TypeOK'
  <2>1. /\ {tasks[n]} \in SUBSET Tasks
        /\ \A t \in {tasks[n]} : tasks[NameOf[t]] = t /\ started[t] < MaxRuns
    BY <1>9 DEF history, RunTaskNow, TypeOK, Registered
  <2>2. Launch({tasks[n]})
    BY <1>9 DEF RunTaskNow
  <2> QED
    BY <1>9, <2>1, <2>2, LaunchType DEF history, RunTaskNow, TypeOK
<1>10. ASSUME NEW u \in Runs, RunStep(u) PROVE TypeOK'
  <2>1. u[1] \in Tasks
    BY DEF Runs
  <2>2. CASE Finish(u)
    BY <2>1, <2>2, NextRunsType DEF history, Finish, TypeOK
  <2>3. CASE ~Finish(u)
    BY <1>10, <2>3 DEF history, RunStep, Begin, NeverBegins, Fail, FailAborted, Enter, TypeOK
  <2> QED
    BY <2>2, <2>3
<1>11. CASE UNCHANGED vars
  BY <1>11 DEF vars, history, TypeOK
<1> QED
  BY <1>1, <1>2, <1>3, <1>4, <1>5, <1>6, <1>7, <1>8, <1>9, <1>10, <1>11 DEF Next

----------------------------------------------------------------------------
(* The entries of _running_tasks *)

SchedulerInv == TypeOK /\ Registered /\ EntriesAreLive

\* A new run is numbered one past the runs of its task so far.
LEMMA LaunchKeeps ==
    ASSUME SchedulerInv, NEW S \in SUBSET Tasks, Launch(S), UNCHANGED <<tasks, cancelled>>,
           \A t \in S : tasks[NameOf[t]] = t /\ started[t] < MaxRuns
    PROVE  Registered' /\ EntriesAreLive'
<1> USE SchedulerConstants DEF SchedulerInv
<1>1. ASSUME NEW u \in Runs, u[2] > started'[u[1]]
      PROVE  phase'[u] = "absent" /\ u \notin cancelled'
  <2>1. u[1] \in Tasks /\ u[2] \in Nat /\ started[u[1]] \in Nat
    BY DEF Runs, TypeOK
  <2>2. started'[u[1]] = IF u[1] \in S THEN started[u[1]] + 1 ELSE started[u[1]]
    BY <2>1 DEF Launch
  <2>3. u[2] > started[u[1]] /\ ~(u[1] \in S /\ u[2] = started[u[1]] + 1)
    BY <1>1, <2>1, <2>2
  <2> QED
    BY <2>3 DEF Launch, Registered
<1>2. ASSUME NEW n \in Names, running'[n] # None
      PROVE  /\ NameOf[running'[n][1]] = n
             /\ phase'[running'[n]] \in {"created", "working", "failing"}
             /\ running'[n] \notin cancelled'
  <2>1. CASE \E t \in S : NameOf[t] = n
    <3>1. PICK t \in S : NameOf[t] = n
      BY <2>1
    <3>2. tasks[n] = t /\ t \in Tasks /\ started[t] \in Nat /\ started[t] + 1 \in 1 .. MaxRuns
      BY <3>1 DEF TypeOK
    <3> DEFINE u == <<t, started[t] + 1>>
    <3>3. running'[n] = u /\ u \in Runs
      BY <2>1, <3>2 DEF Launch, Runs
    <3>4. phase'[u] = "created"
      BY <3>1, <3>2, <3>3 DEF Launch
    <3>5. u \notin cancelled
      BY <3>2, <3>3 DEF Registered
    <3> QED
      BY <3>1, <3>3, <3>4, <3>5 DEF Live
  <2>2. CASE ~\E t \in S : NameOf[t] = n
    <3>1. running'[n] = running[n] /\ running[n] \in Runs
      BY <1>2, <2>2 DEF Launch, TypeOK
    <3>2. NameOf[running[n][1]] = n /\ Live(running[n]) /\ running[n] \notin cancelled
      BY <1>2, <3>1 DEF EntriesAreLive
    <3>3. phase'[running[n]] \in {phase[running[n]], "created"}
      BY <3>1 DEF Launch
    <3> QED
      BY <3>1, <3>2, <3>3 DEF Live
  <2> QED
    BY <2>1, <2>2
<1>3. Registered'
  <2>1. \A n \in Names : tasks'[n] # None => NameOf[tasks'[n]] = n
    BY DEF Registered
  <2> QED
    BY <1>1, <2>1 DEF Registered
<1>4. EntriesAreLive'
  BY <1>2 DEF EntriesAreLive, Live
<1> QED
  BY <1>3, <1>4

\* A run that is listed has been created.
LEMMA ListedStarted ==
    ASSUME SchedulerInv, NEW N \in SUBSET Names, NEW u \in Listed(N)
    PROVE  u \in Runs /\ ~(u[2] > started[u[1]])
<1>1. PICK n \in N : u = running[n] /\ running[n] # None
  BY DEF Listed
<1>2. u \in Runs /\ Live(u)
  BY <1>1 DEF SchedulerInv, EntriesAreLive, TypeOK
<1> QED
  BY <1>2 DEF SchedulerInv, Registered, Live

\* Two names never list one run.
LEMMA ListedOnce ==
    ASSUME SchedulerInv, NEW m \in Names, NEW n \in Names, m # n, running[m] # None
    PROVE  running[m] # running[n]
BY DEF SchedulerInv, EntriesAreLive

LEMMA EntriesStep == SchedulerInv /\ [Next]_vars => SchedulerInv'
<1> SUFFICES ASSUME SchedulerInv, [Next]_vars PROVE Registered' /\ EntriesAreLive'
  BY TypeStep DEF SchedulerInv
<1> USE SchedulerConstants
<1>1. ASSUME NEW t \in Tasks, AddTask(t) PROVE Registered' /\ EntriesAreLive'
  BY <1>1 DEF history, AddTask, SchedulerInv, Registered, EntriesAreLive, Live, TypeOK
<1>2. ASSUME NEW n \in Names, RemoveTask(n) PROVE Registered' /\ EntriesAreLive'
  <2>1. Registered'
    BY <1>2, ListedStarted DEF history, RemoveTask, SchedulerInv, Registered, TypeOK
  <2>2. ASSUME NEW m \in Names, running'[m] # None
        PROVE  /\ running'[m] = running[m] /\ running[m] \notin Listed({n})
    BY <1>2, <2>2, ListedOnce DEF RemoveTask, Forget, Listed
  <2>3. EntriesAreLive'
    BY <1>2, <2>2 DEF RemoveTask, SchedulerInv, EntriesAreLive, Live
  <2> QED
    BY <2>1, <2>3
<1>3. ASSUME NEW n \in Names, EnableTask(n) \/ DisableTask(n)
      PROVE  Registered' /\ EntriesAreLive'
  BY <1>3 DEF EnableTask, DisableTask, SchedulerInv, Registered, EntriesAreLive, Live
<1>4. CASE Start
  BY <1>4 DEF Start, SchedulerInv, Registered, EntriesAreLive, Live
<1>5. CASE Stop
  <2>1. Registered'
    BY <1>5, ListedStarted DEF Stop, SchedulerInv, Registered
  <2>2. EntriesAreLive'
    BY <1>5 DEF Stop, Forget, EntriesAreLive
  <2> QED
    BY <2>1, <2>2
<1>6. ASSUME NEW t \in Tasks, TimePasses(t) PROVE Registered' /\ EntriesAreLive'
  BY <1>6 DEF TimePasses, SchedulerInv, Registered, EntriesAreLive, Live
<1>7. CASE Tick
  <2>1. Startable \in SUBSET Tasks
        /\ \A t \in Startable : tasks[NameOf[t]] = t /\ started[t] < MaxRuns
    BY DEF Startable
  <2>2. Launch(Startable) /\ UNCHANGED <<tasks, cancelled>>
    BY <1>7 DEF Tick
  <2> QED
    BY <2>1, <2>2, LaunchKeeps
<1>8. ASSUME NEW n \in Names, RunTaskNow(n) PROVE Registered' /\ EntriesAreLive'
  <2>1. /\ {tasks[n]} \in SUBSET Tasks
        /\ \A t \in {tasks[n]} : tasks[NameOf[t]] = t /\ started[t] < MaxRuns
    BY <1>8 DEF history, RunTaskNow, SchedulerInv, TypeOK, Registered
  <2>2. Launch({tasks[n]}) /\ UNCHANGED <<tasks, cancelled>>
    BY <1>8 DEF RunTaskNow
  <2> QED
    BY <2>1, <2>2, LaunchKeeps
<1>9. ASSUME NEW u \in Runs, RunStep(u) PROVE Registered' /\ EntriesAreLive'
  <2>1. u[1] \in Tasks /\ NameOf[u[1]] \in Names
    BY DEF Runs
  <2>2. phase[u] # "absent" /\ \A v \in Runs \ {u} : phase'[v] = phase[v]
    BY <1>9 DEF RunStep, Begin, NeverBegins, Fail, FailAborted, Finish, Enter,
                SchedulerInv, TypeOK
  <2>3. UNCHANGED <<tasks, started, cancelled>>
    BY <1>9 DEF RunStep, Begin, NeverBegins, Fail, FailAborted, Finish, Enter
  <2>4. Registered'
    BY <2>2, <2>3 DEF SchedulerInv, Registered
  <2>5. CASE Finish(u)
    <3>1. ASSUME NEW m \in Names, running'[m] # None
          PROVE  m # NameOf[u[1]] /\ running'[m] = running[m] /\ running[m] # u
      BY <2>1, <2>5, <3>1 DEF history, Finish, SchedulerInv, EntriesAreLive, TypeOK
    <3> QED
      BY <2>2, <2>3, <2>4, <3>1 DEF SchedulerInv, EntriesAreLive, Live, TypeOK
  <2>6. CASE ~Finish(u)
    <3>1. UNCHANGED running /\ (u \notin cancelled => phase'[u] \in {"working", "failing"})
      BY <1>9, <2>6 DEF RunStep, Begin, NeverBegins, Fail, FailAborted, Enter,
                        SchedulerInv, TypeOK
    <3> QED
      BY <2>2, <2>3, <2>4, <3>1 DEF SchedulerInv, EntriesAreLive, Live, TypeOK
  <2> QED
    BY <2>5, <2>6
<1>10. CASE UNCHANGED vars
  BY <1>10 DEF vars, history, SchedulerInv, Registered, EntriesAreLive, Live
<1> QED
  BY <1>1, <1>2, <1>3, <1>4, <1>5, <1>6, <1>7, <1>8, <1>9, <1>10 DEF Next

LEMMA SchedulerInvCorrect == Spec => []SchedulerInv
<1>1. Init => SchedulerInv
  <2> SUFFICES ASSUME Init PROVE SchedulerInv
    OBVIOUS
  <2>1. TypeOK
    <3>1. tasks \in [Names -> Tasks \cup {None}] /\ running \in [Names -> Runs \cup {None}]
      BY DEF Init
    <3>2. /\ on \in BOOLEAN
          /\ added \subseteq Tasks /\ enabled \subseteq Tasks /\ ran \subseteq Tasks
          /\ cancelled \subseteq Runs
          /\ removed \subseteq Names /\ stopped \in BOOLEAN
      BY DEF Init
    <3>3. /\ nextRun \in [Tasks -> {"none", "later", "due"}]
          /\ phase \in [Runs -> {"absent", "created", "working", "failing", "over", "dropped"}]
      BY DEF Init
    <3>4. started \in [Tasks -> 0 .. MaxRuns]
      BY SchedulerConstants DEF Init
    <3> QED
      BY <3>1, <3>2, <3>3, <3>4 DEF TypeOK
  <2>2. Registered
    BY DEF Init, Registered
  <2>3. EntriesAreLive
    BY DEF Init, EntriesAreLive
  <2> QED
    BY <2>1, <2>2, <2>3 DEF SchedulerInv
<1> QED
  BY <1>1, EntriesStep, PTL DEF Spec

\* Every variable keeps its type.
THEOREM TypeCorrect == Spec => []TypeOK
BY SchedulerInvCorrect, PTL DEF SchedulerInv

\* A finished or cancelled run is never left in _running_tasks, where it would
\* keep its task from running again; removals and restarts included.
THEOREM NoStaleEntry == Spec => []EntriesAreLive
BY SchedulerInvCorrect, PTL DEF SchedulerInv

----------------------------------------------------------------------------
(* Names of which no task was removed, while the scheduler is on *)

\* Every live run of such a name is the one its name lists.
Tracked ==
    \A u \in Runs : Untouched(u[1]) /\ Live(u) => running[NameOf[u[1]]] = u

LEMMA LaunchTracks ==
    ASSUME SchedulerInv, Tracked, NEW S \in SUBSET Tasks, Launch(S), UNCHANGED history,
           \A t \in S : tasks[NameOf[t]] = t /\ running[NameOf[t]] = None /\ started[t] < MaxRuns
    PROVE  Tracked'
<1> SUFFICES ASSUME NEW u \in Runs, Untouched(u[1]), Live(u)'
             PROVE  running'[NameOf[u[1]]] = u
  BY DEF Tracked, Untouched, history
<1> USE SchedulerConstants
<1> DEFINE t == u[1]
           n == NameOf[t]
<1>1. t \in Tasks /\ n \in Names /\ u = <<t, u[2]>> /\ u # None
  BY RunIsNotNone DEF Runs
<1>2. CASE Live(u)
  <2>1. running[n] = u /\ ~\E x \in S : NameOf[x] = n
    BY <1>1, <1>2 DEF Tracked
  <2> QED
    BY <1>1, <2>1 DEF Launch
<1>3. CASE ~Live(u)
  <2>1. t \in S /\ u[2] = started[t] + 1
    BY <1>3 DEF Launch, Live, SchedulerInv, TypeOK
  <2> QED
    BY <1>1, <2>1 DEF Launch
<1> QED
  BY <1>2, <1>3

LEMMA TrackedStep == SchedulerInv /\ Tracked /\ [Next]_vars => Tracked'
<1> SUFFICES ASSUME SchedulerInv, Tracked, [Next]_vars PROVE Tracked'
  OBVIOUS
<1> USE SchedulerConstants
<1>1. CASE Tick
  <2>1. Startable \in SUBSET Tasks
        /\ \A t \in Startable : /\ tasks[NameOf[t]] = t /\ running[NameOf[t]] = None
                                /\ started[t] < MaxRuns
    BY DEF Startable
  <2>2. Launch(Startable) /\ UNCHANGED history
    BY <1>1 DEF Tick
  <2> QED
    BY <2>1, <2>2, LaunchTracks
<1>2. ASSUME NEW n \in Names, RunTaskNow(n) PROVE Tracked'
  <2>1. /\ {tasks[n]} \in SUBSET Tasks
        /\ \A t \in {tasks[n]} : /\ tasks[NameOf[t]] = t /\ running[NameOf[t]] = None
                                 /\ started[t] < MaxRuns
    BY <1>2 DEF RunTaskNow, SchedulerInv, TypeOK, Registered
  <2>2. Launch({tasks[n]}) /\ UNCHANGED history
    BY <1>2 DEF RunTaskNow
  <2> QED
    BY <2>1, <2>2, LaunchTracks
<1>3. ASSUME NEW u \in Runs, RunStep(u) PROVE Tracked'
  <2> SUFFICES ASSUME NEW v \in Runs, Untouched(v[1]), Live(v)'
               PROVE  running'[NameOf[v[1]]] = v
    BY <1>3 DEF Tracked, Untouched, RunStep, Begin, NeverBegins, Fail, FailAborted,
                Finish, Enter, history
  <2>1. NameOf[u[1]] \in Names /\ NameOf[v[1]] \in Names
    BY DEF Runs
  <2>2. Live(u) /\ Live(v)
    BY <1>3 DEF RunStep, Begin, NeverBegins, Fail, FailAborted, Finish, Enter,
                SchedulerInv, TypeOK, Live
  <2>3. running[NameOf[v[1]]] = v
    BY <2>2 DEF Tracked
  <2>4. CASE Finish(u)
    <3>1. ~Live(u)'
      BY <2>4 DEF Finish, Live, SchedulerInv, TypeOK
    <3>2. v # u
      BY <3>1
    <3>3. CASE NameOf[u[1]] = NameOf[v[1]]
      <4>1. Untouched(u[1])
        BY <3>3 DEF Untouched
      <4>2. running[NameOf[u[1]]] = u
        BY <2>2, <4>1 DEF Tracked
      <4> QED
        BY <2>3, <3>2, <3>3, <4>2
    <3>4. CASE NameOf[u[1]] # NameOf[v[1]]
      BY <2>1, <2>3, <2>4, <3>4 DEF Finish
    <3> QED
      BY <3>3, <3>4
  <2>5. CASE ~Finish(u)
    BY <1>3, <2>3, <2>5 DEF RunStep, Begin, NeverBegins, Fail, FailAborted, Enter
  <2> QED
    BY <2>4, <2>5
<1>4. CASE UNCHANGED <<running, phase, history>>
  BY <1>4 DEF Tracked, Live, Untouched, history
<1>5. ASSUME NEW n \in Names, RemoveTask(n) PROVE Tracked'
  <2>1. /\ removed' = removed \cup {n} /\ UNCHANGED <<stopped, phase>>
        /\ \A m \in Names \ {n} : running'[m] = running[m]
    BY <1>5 DEF RemoveTask, Forget
  <2>2. \A u \in Runs : NameOf[u[1]] \in Names
    BY DEF Runs
  <2> QED
    BY <2>1, <2>2 DEF Tracked, Live, Untouched
<1>6. CASE Stop
  BY <1>6 DEF Stop, Tracked, Untouched
<1>7. ASSUME NEW t \in Tasks, AddTask(t) \/ TimePasses(t) PROVE Tracked'
  BY <1>4, <1>7 DEF AddTask, TimePasses
<1>8. ASSUME NEW n \in Names, EnableTask(n) \/ DisableTask(n) PROVE Tracked'
  BY <1>4, <1>8 DEF EnableTask, DisableTask
<1>9. CASE Start \/ UNCHANGED vars
  BY <1>4, <1>9 DEF Start, vars
<1> QED
  BY <1>1, <1>2, <1>3, <1>5, <1>6, <1>7, <1>8, <1>9 DEF Next

\* No task runs twice at the same time, unless a task of its name was removed or
\* the scheduler was stopped; replacing a task while it runs does no harm.
THEOREM OneRunAtATime == Spec => []NoOverlap
<1>1. Init => Tracked
  BY DEF Init, Tracked, Live
<1>2. SchedulerInv /\ Tracked /\ [Next]_vars => Tracked'
  BY TrackedStep
<1>3. Tracked => NoOverlap
  BY DEF Tracked, NoOverlap
<1> QED
  BY <1>1, <1>2, <1>3, SchedulerInvCorrect, PTL DEF Spec

----------------------------------------------------------------------------
(* Tasks with nothing to run *)

LEMMA IdleStep == TypeOK /\ IdleHasNoNextRun /\ [Next]_vars => IdleHasNoNextRun'
<1> SUFFICES ASSUME TypeOK, IdleHasNoNextRun, [Next]_vars PROVE IdleHasNoNextRun'
  OBVIOUS
<1> USE SchedulerConstants
<1>1. ASSUME NEW t \in Tasks, AddTask(t) PROVE IdleHasNoNextRun'
  BY <1>1 DEF AddTask, NextRuns, IdleHasNoNextRun, TypeOK
<1>2. ASSUME NEW n \in Names, EnableTask(n) PROVE IdleHasNoNextRun'
  BY <1>2 DEF EnableTask, NextRuns, IdleHasNoNextRun, TypeOK
<1>3. ASSUME NEW n \in Names, DisableTask(n) PROVE IdleHasNoNextRun'
  BY <1>3 DEF DisableTask, IdleHasNoNextRun, TypeOK
<1>4. ASSUME NEW t \in Tasks, TimePasses(t) PROVE IdleHasNoNextRun'
  BY <1>4 DEF TimePasses, IdleHasNoNextRun, TypeOK
<1>5. ASSUME NEW u \in Runs, Finish(u) PROVE IdleHasNoNextRun'
  <2>1. u[1] \in Tasks
    BY DEF Runs
  <2> QED
    BY <1>5, <2>1 DEF Finish, NextRuns, IdleHasNoNextRun, TypeOK
<1>6. CASE UNCHANGED <<enabled, ran, nextRun>>
  BY <1>6 DEF IdleHasNoNextRun
<1>7. ASSUME NEW n \in Names, RemoveTask(n) \/ RunTaskNow(n) PROVE IdleHasNoNextRun'
  BY <1>6, <1>7 DEF RemoveTask, RunTaskNow
<1>8. CASE Start \/ Stop \/ Tick \/ UNCHANGED vars
  BY <1>6, <1>8 DEF Start, Stop, Tick, vars
<1>9. ASSUME NEW u \in Runs, RunStep(u), ~Finish(u) PROVE IdleHasNoNextRun'
  BY <1>6, <1>9 DEF RunStep, Begin, NeverBegins, Fail, FailAborted, Enter
<1> QED
  BY <1>1, <1>2, <1>3, <1>4, <1>5, <1>7, <1>8, <1>9 DEF Next

LEMMA IdleCorrect == Spec => []IdleHasNoNextRun
<1>1. Init => IdleHasNoNextRun
  BY DEF Init, IdleHasNoNextRun
<1> QED
  BY <1>1, IdleStep, SchedulerInvCorrect, PTL DEF Spec, SchedulerInv

\* What is listed as running is alive, and what has nothing to run has no time
\* to run at: the two ways in which a task could be started wrongly or never
\* again.
THEOREM ListsAgree == Spec => []EntriesAgree
BY SchedulerInvCorrect, IdleCorrect, PTL DEF SchedulerInv, EntriesAgree

----------------------------------------------------------------------------
(* One-shot tasks *)

\* Only a removal or a stop cancels a run.
CancelledTouched == \A u \in cancelled : ~Untouched(u[1])

\* A one-shot task that is untouched has one run at most, which is alive until
\* it has marked the task as run.
OnlyRun ==
    \A u \in Runs :
        u[1] \in OneShot /\ Untouched(u[1]) /\ phase[u] # "absent" =>
            /\ Live(u) \/ u[1] \in ran
            /\ \A v \in Runs : v[1] = u[1] /\ phase[v] # "absent" => v = u

OnceInv == CancelledTouched /\ OnlyRun

\* A round of the loop starts a one-shot task that has not run yet, and under
\* whose name nothing runs: it has no run so far.
LEMMA FirstRun ==
    ASSUME SchedulerInv, Tracked, IdleHasNoNextRun, OnceInv,
           NEW t \in OneShot, Untouched(t), t \in Startable,
           NEW u \in Runs, u[1] = t
    PROVE  phase[u] = "absent"
<1>1. t \in Tasks /\ t \notin ran /\ running[NameOf[t]] = None
  BY SchedulerConstants DEF Startable, IdleHasNoNextRun
<1>2. ~Live(u)
  BY <1>1, RunIsNotNone DEF Tracked
<1> QED
  BY <1>1, <1>2 DEF OnceInv, OnlyRun

LEMMA OnceStep ==
    SchedulerInv /\ Tracked /\ IdleHasNoNextRun /\ OnceInv /\ [Next]_vars => OnceInv'
<1> SUFFICES ASSUME SchedulerInv, Tracked, IdleHasNoNextRun, OnceInv, [Next]_vars
             PROVE  OnceInv'
  OBVIOUS
<1> USE SchedulerConstants
<1>1. CASE Tick
  <2>1. Startable \subseteq Tasks /\ \A u \in Runs : u[1] \in Tasks /\ u = <<u[1], u[2]>>
    BY DEF Startable, Runs
  <2>2. UNCHANGED <<ran, cancelled, removed, stopped>>
    BY <1>1 DEF Tick, history
  <2>3. \A u \in Runs :
          phase'[u] = IF u[1] \in Startable /\ u[2] = started[u[1]] + 1 THEN "created" ELSE phase[u]
    BY <1>1 DEF Tick, Launch
  <2>4. ASSUME NEW u \in Runs, u[1] \in OneShot, Untouched(u[1]), phase'[u] # "absent"
        PROVE  /\ Live(u)' \/ u[1] \in ran'
               /\ \A v \in Runs : v[1] = u[1] /\ phase'[v] # "absent" => v = u
    <3>1. CASE u[1] \in Startable
      <4>1. \A v \in Runs : v[1] = u[1] => phase[v] = "absent"
        BY <2>4, <3>1, FirstRun
      <4>2. \A v \in Runs : v[1] = u[1] /\ phase'[v] # "absent" => v[2] = started[u[1]] + 1
        BY <2>3, <4>1
      <4> QED
        BY <2>1, <2>3, <2>4, <4>1, <4>2 DEF Live
    <3>2. CASE u[1] \notin Startable
      BY <2>2, <2>3, <2>4, <3>2 DEF OnceInv, OnlyRun, Live
    <3> QED
      BY <3>1, <3>2
  <2> QED
    BY <2>2, <2>4 DEF OnceInv, OnlyRun, CancelledTouched, Untouched
<1>2. ASSUME NEW n \in Names, RunTaskNow(n) PROVE OnceInv'
  <2>1. UNCHANGED <<ran, cancelled, removed, stopped>>
    BY <1>2 DEF RunTaskNow, history
  <2>2. \A u \in Runs : u[1] \in OneShot => phase'[u] = phase[u]
    BY <1>2 DEF RunTaskNow, Launch
  <2> QED
    BY <2>1, <2>2 DEF OnceInv, OnlyRun, CancelledTouched, Untouched, Live
<1>3. ASSUME NEW u \in Runs, RunStep(u) PROVE OnceInv'
  <2>1. UNCHANGED <<cancelled, removed, stopped>> /\ \A v \in Runs \ {u} : phase'[v] = phase[v]
    BY <1>3 DEF RunStep, Begin, NeverBegins, Fail, FailAborted, Finish, Enter, history,
                SchedulerInv, TypeOK
  <2>2. phase[u] # "absent" /\ ran \subseteq ran'
    BY <1>3 DEF RunStep, Begin, NeverBegins, Fail, FailAborted, Finish, Enter
  <2>3. Untouched(u[1]) => Live(u)' \/ u[1] \in ran'
    BY <1>3 DEF RunStep, Begin, NeverBegins, Fail, FailAborted, Finish, Enter, OnceInv,
                CancelledTouched, SchedulerInv, TypeOK, Live
  <2> QED
    BY <2>1, <2>2, <2>3 DEF OnceInv, OnlyRun, CancelledTouched, Untouched, Live
<1>4. CASE UNCHANGED <<phase, ran, cancelled, history>>
  BY <1>4 DEF OnceInv, OnlyRun, CancelledTouched, Untouched, Live, history
<1>5. ASSUME NEW n \in Names, RemoveTask(n) PROVE OnceInv'
  <2>1. \A u \in Listed({n}) : NameOf[u[1]] = n
    BY DEF Listed, SchedulerInv, EntriesAreLive
  <2>2. /\ removed' = removed \cup {n} /\ UNCHANGED <<stopped, phase, ran>>
        /\ cancelled' = cancelled \cup Listed({n})
    BY <1>5 DEF RemoveTask
  <2> QED
    BY <2>1, <2>2 DEF OnceInv, OnlyRun, CancelledTouched, Untouched, Live
<1>6. CASE Stop
  BY <1>6 DEF Stop, OnceInv, OnlyRun, CancelledTouched, Untouched
<1>7. ASSUME NEW t \in Tasks, AddTask(t) \/ TimePasses(t) PROVE OnceInv'
  BY <1>4, <1>7 DEF AddTask, TimePasses
<1>8. ASSUME NEW n \in Names, EnableTask(n) \/ DisableTask(n) PROVE OnceInv'
  BY <1>4, <1>8 DEF EnableTask, DisableTask
<1>9. CASE Start \/ UNCHANGED vars
  BY <1>4, <1>9 DEF Start, vars
<1> QED
  BY <1>1, <1>2, <1>3, <1>5, <1>6, <1>7, <1>8, <1>9 DEF Next

LEMMA BegunOnce == ASSUME OnceInv PROVE OneShotOnce
<1> SUFFICES ASSUME NEW t \in OneShot, Untouched(t) PROVE Cardinality(Begun(t)) <= 1
  BY DEF OneShotOnce
<1>1. CASE Begun(t) = {}
  BY <1>1, FS_EmptySet
<1>2. CASE Begun(t) # {}
  <2>1. PICK u \in Begun(t) : TRUE
    BY <1>2
  <2>2. Begun(t) = {u}
    BY <2>1 DEF Begun, OnceInv, OnlyRun
  <2> QED
    BY <2>2, FS_Singleton
<1> QED
  BY <1>1, <1>2

\* No work of a task is done twice: no two of its runs overlap, and that of a
\* one-shot task is begun once, whatever is added, replaced, enabled or disabled
\* meanwhile, unless a task of its name was removed or the scheduler stopped.
THEOREM WorkIsDoneOnce == Spec => []NothingRunsTwice
<1>1. Init => Tracked /\ OnceInv
  BY DEF Init, Tracked, Live, OnceInv, CancelledTouched, OnlyRun
<1>2. SchedulerInv /\ Tracked /\ IdleHasNoNextRun /\ OnceInv /\ [Next]_vars
      => Tracked' /\ OnceInv'
  BY TrackedStep, OnceStep
<1>3. Spec => [](Tracked /\ OnceInv)
  BY <1>1, <1>2, SchedulerInvCorrect, IdleCorrect, PTL DEF Spec
<1>4. Tracked /\ OnceInv => NothingRunsTwice
  BY BegunOnce DEF NothingRunsTwice, Tracked, NoOverlap
<1> QED
  BY <1>3, <1>4, PTL

-----------------------------------------------------------------------------
(* Obsidian vaults                                                         *)

VaultAssumptions ==
    /\ \A x \in Turns \cup Writes : KeyOf(x) \in Keys
    /\ Nothing \notin Nat /\ Nothing \notin Turns
    /\ Ttl \in Nat /\ MaxVersion \in Nat \ {0} /\ MaxTokens \in Nat \ {0} /\ MaxClock \in Nat

TurnRecords ==
    [pc : {"idle", "waiting", "locked", "building", "over"}, seen : Nat \cup {Nothing}]
VaultBase ==
    /\ vault \in 1 .. MaxVersion /\ token \in 1 .. MaxTokens
    /\ changed \in Nat /\ clock \in Nat /\ excused \subseteq Keys
    /\ client \in [token : 0 .. MaxTokens, at : Nat]
    /\ used \in [token : Nat, current : Nat, since : Nat]
    /\ store \in [Keys -> Nat \cup {Nothing}] /\ holder \in [Keys -> Turns \cup {Nothing}]
    /\ turn \in [Turns -> TurnRecords]
    /\ write \in [Writes -> {"idle", "requested", "done", "over"}]

(* No snapshot is of a version the vault has yet to have.                  *)
SnapshotsExist ==
    /\ \A k \in Keys : store[k] # Nothing => store[k] \in 0 .. vault
    /\ \A t \in Turns : turn[t].seen # Nothing => turn[t].seen \in 0 .. vault

(* A turn that builds holds the lock of its id.                            *)
BuildersHold ==
    \A t \in Turns : turn[t].pc \in {"locked", "building"} => holder[KeyOf(t)] = t

(* What is being built is of the present vault, but for the known reasons. *)
BuildsAreCurrent ==
    \A t \in Turns :
        turn[t].pc = "building" /\ KeyOf(t) \notin excused => turn[t].seen = vault

(* A client with a replaced token was made before the replacement.         *)
TokensAge ==
    /\ client.at <= clock /\ changed <= clock
    /\ client.token \notin {0, token} => client.at <= changed

VaultInv ==
    /\ VaultBase /\ SnapshotsExist /\ BuildersHold /\ BuildsAreCurrent /\ SnapshotIsCurrent
    /\ TokensAge /\ TokenLagIsBounded

LEMMA VaultStarts ==
    ASSUME VaultAssumptions, VaultInit
    PROVE  VaultInv
<1>1. VaultBase
  BY DEF VaultAssumptions, VaultInit, VaultBase, TurnRecords
<1>2. SnapshotsExist /\ BuildersHold /\ BuildsAreCurrent /\ SnapshotIsCurrent
  BY DEF VaultAssumptions, VaultInit, SnapshotsExist, BuildersHold, BuildsAreCurrent, SnapshotIsCurrent
<1>3. TokensAge /\ TokenLagIsBounded
  BY DEF VaultAssumptions, VaultInit, TokensAge, TokenLagIsBounded
<1> QED
  BY <1>1, <1>2, <1>3 DEF VaultInv

(* What the parts of the invariant speak of; the rest does not disturb     *)
(* them.                                                                   *)
LEMMA SnapshotsUndisturbed ==
    ASSUME VaultInv, UNCHANGED <<vault, store, holder, turn, write, excused>>
    PROVE  SnapshotsExist' /\ BuildersHold' /\ BuildsAreCurrent' /\ SnapshotIsCurrent'
BY DEF VaultInv, SnapshotsExist, BuildersHold, BuildsAreCurrent, SnapshotIsCurrent

LEMMA TokensUndisturbed ==
    ASSUME VaultInv, UNCHANGED <<token, changed, client, used, clock>>
    PROVE  TokensAge' /\ TokenLagIsBounded'
BY DEF VaultInv, TokensAge, TokenLagIsBounded

(* Whoever uses the client gives the token that is current or one that was *)
(* replaced less than Ttl ago.                                             *)
LEMMA ClientIsFresh ==
    ASSUME VaultAssumptions, VaultInv, UseClient, UNCHANGED <<token, changed, clock>>
    PROVE  /\ client' \in [token : 0 .. MaxTokens, at : Nat]
           /\ used' \in [token : Nat, current : Nat, since : Nat]
           /\ TokensAge' /\ TokenLagIsBounded'
<1>1. /\ token \in 1 .. MaxTokens /\ changed \in Nat /\ clock \in Nat /\ changed <= clock
      /\ client.token \in 0 .. MaxTokens /\ client.at \in Nat /\ client.at <= clock
      /\ client \in [token : 0 .. MaxTokens, at : Nat]
      /\ MaxTokens \in Nat /\ Ttl \in Nat
      /\ client.token \notin {0, token} => client.at <= changed
  BY DEF VaultAssumptions, VaultInv, VaultBase, TokensAge
<1>2. CASE Fresh(client)
  <2>1. used' = [token |-> client.token, current |-> token, since |-> clock - changed] /\ client' = client
    BY <1>2 DEF UseClient
  <2>2. client.token # token => client.at <= changed /\ clock < client.at + Ttl
    BY <1>1, <1>2 DEF Fresh
  <2>3. used'.token # used'.current => used'.since < Ttl
    BY <1>1, <2>1, <2>2
  <2> QED
    BY <1>1, <2>1, <2>3 DEF TokensAge, TokenLagIsBounded
<1>3. CASE ~Fresh(client)
  <2>1. /\ used' = [token |-> token, current |-> token, since |-> clock - changed]
        /\ client' = [token |-> token, at |-> clock]
    BY <1>3 DEF UseClient
  <2> QED
    BY <1>1, <2>1 DEF TokensAge, TokenLagIsBounded
<1> QED
  BY <1>2, <1>3

(* A step changes the record of one turn at most.                          *)
LEMMA TurnEdits ==
    ASSUME VaultBase, NEW t \in Turns,
           NEW p \in {"idle", "waiting", "locked", "building", "over"}, NEW s \in Nat \cup {Nothing}
    PROVE  /\ turn[t].pc \in {"idle", "waiting", "locked", "building", "over"}
           /\ turn[t].seen \in Nat \cup {Nothing}
           /\ [turn EXCEPT ![t].pc = p] = [turn EXCEPT ![t] = [pc |-> p, seen |-> turn[t].seen]]
           /\ [turn EXCEPT ![t].pc = p, ![t].seen = s] = [turn EXCEPT ![t] = [pc |-> p, seen |-> s]]
<1>1. turn[t] \in TurnRecords
  BY DEF VaultBase
<1>2. turn[t].pc \in {"idle", "waiting", "locked", "building", "over"} /\ turn[t].seen \in Nat \cup {Nothing}
  BY <1>1 DEF TurnRecords
<1>3. [turn[t] EXCEPT !.pc = p] = [pc |-> p, seen |-> turn[t].seen]
  BY <1>1 DEF TurnRecords
<1>4. [turn[t] EXCEPT !.pc = p, !.seen = s] = [pc |-> p, seen |-> s]
  <2>1. [turn[t] EXCEPT !.pc = p, !.seen = s] = [[turn[t] EXCEPT !.pc = p] EXCEPT !.seen = s]
    OBVIOUS
  <2>2. [[pc |-> p, seen |-> turn[t].seen] EXCEPT !.seen = s] = [pc |-> p, seen |-> s]
    OBVIOUS
  <2> QED
    BY <1>3, <2>1, <2>2
<1>5. [turn EXCEPT ![t].pc = p] = [turn EXCEPT ![t] = [turn[t] EXCEPT !.pc = p]]
  BY Zenon
<1>6. [turn EXCEPT ![t].pc = p, ![t].seen = s] = [turn EXCEPT ![t] = [turn[t] EXCEPT !.pc = p, !.seen = s]]
  BY DEF VaultBase
<1> QED
  BY <1>2, <1>3, <1>4, <1>5, <1>6

LEMMA TurnGoes ==
    ASSUME VaultBase, NEW t \in Turns,
           NEW p \in {"idle", "waiting", "locked", "building", "over"}, NEW s \in Nat \cup {Nothing},
           turn' = [turn EXCEPT ![t] = [pc |-> p, seen |-> s]]
    PROVE  /\ turn' \in [Turns -> TurnRecords] /\ \A o \in Turns \ {t} : turn'[o] = turn[o]
           /\ turn'[t].pc = p /\ turn'[t].seen = s
<1>1. [pc |-> p, seen |-> s] \in TurnRecords
  BY DEF TurnRecords
<1>2. turn'[t] = [pc |-> p, seen |-> s]
  BY DEF VaultBase
<1> QED
  BY <1>1, <1>2 DEF VaultBase

LEMMA TurnSteps ==
    ASSUME VaultAssumptions, VaultInv, NEW t \in Turns,
           Hit(t) \/ Miss(t) \/ Lock(t) \/ Ask(t) \/ Store(t) \/ GiveUp(t)
    PROVE  VaultInv'
<1> DEFINE k == KeyOf(t)
<1>a. VaultBase /\ SnapshotsExist /\ BuildersHold /\ BuildsAreCurrent /\ SnapshotIsCurrent
  BY DEF VaultInv
<1>b. /\ k \in Keys /\ \A o \in Turns : KeyOf(o) \in Keys
      /\ t # Nothing /\ Nothing \notin Turns /\ vault \in Nat /\ 0 \in 0 .. vault /\ vault \in 0 .. vault
      /\ store \in [Keys -> Nat \cup {Nothing}] /\ holder \in [Keys -> Turns \cup {Nothing}]
      /\ store[k] \in Nat \cup {Nothing} /\ 0 \in Nat /\ Nothing \notin Nat
  BY <1>a DEF VaultAssumptions, VaultBase
<1>c. turn[t].seen \in Nat \cup {Nothing}
  BY <1>a, TurnEdits
<1> HIDE DEF k
<1>1. CASE Hit(t)
  <2>1. /\ turn' = [turn EXCEPT ![t] = [pc |-> "over", seen |-> store[k]]]
        /\ holder' = [holder EXCEPT ![k] = IF @ = t THEN Nothing ELSE @]
        /\ turn[t].pc \in {"idle", "locked"} /\ store[k] # Nothing
        /\ UNCHANGED <<vault, token, changed, client, store, write, used, excused, clock>>
    BY <1>1, <1>a, <1>b, TurnEdits DEF Hit, k
  <2>2. /\ turn' \in [Turns -> TurnRecords] /\ \A o \in Turns \ {t} : turn'[o] = turn[o]
        /\ turn'[t].pc = "over" /\ turn'[t].seen = store[k]
    BY <1>a, <1>b, <2>1, TurnGoes
  <2>3. VaultBase'
    BY <1>a, <1>b, <2>1, <2>2 DEF VaultBase
  <2>4. SnapshotsExist' /\ BuildsAreCurrent' /\ SnapshotIsCurrent'
    BY <1>a, <1>b, <2>1, <2>2 DEF SnapshotsExist, BuildsAreCurrent, SnapshotIsCurrent
  <2>5. BuildersHold'
    BY <1>a, <1>b, <2>1, <2>2 DEF BuildersHold, k
  <2> QED
    BY <2>1, <2>3, <2>4, <2>5, TokensUndisturbed DEF VaultInv
<1>2. CASE Miss(t)
  <2>1. /\ turn' = [turn EXCEPT ![t] = [pc |-> "waiting", seen |-> turn[t].seen]]
        /\ UseClient
        /\ UNCHANGED <<vault, token, changed, store, holder, write, excused, clock>>
    BY <1>2, <1>a, <1>c, TurnEdits DEF Miss
  <2>2. /\ turn' \in [Turns -> TurnRecords] /\ \A o \in Turns \ {t} : turn'[o] = turn[o]
        /\ turn'[t].pc = "waiting" /\ turn'[t].seen = turn[t].seen
    BY <1>a, <1>c, <2>1, TurnGoes
  <2>3. /\ client' \in [token : 0 .. MaxTokens, at : Nat]
        /\ used' \in [token : Nat, current : Nat, since : Nat]
        /\ TokensAge' /\ TokenLagIsBounded'
    BY <2>1, ClientIsFresh
  <2>4. VaultBase'
    BY <1>a, <2>1, <2>2, <2>3 DEF VaultBase
  <2>5. SnapshotsExist' /\ BuildersHold' /\ BuildsAreCurrent' /\ SnapshotIsCurrent'
    BY <1>a, <2>1, <2>2 DEF SnapshotsExist, BuildersHold, BuildsAreCurrent, SnapshotIsCurrent
  <2> QED
    BY <2>3, <2>4, <2>5 DEF VaultInv
<1>3. CASE Lock(t)
  <2>1. /\ turn' = [turn EXCEPT ![t] = [pc |-> "locked", seen |-> turn[t].seen]]
        /\ holder' = [holder EXCEPT ![k] = t] /\ holder[k] = Nothing
        /\ UNCHANGED <<vault, token, changed, client, store, write, used, excused, clock>>
    BY <1>3, <1>a, <1>c, TurnEdits DEF Lock, Free, k
  <2>2. /\ turn' \in [Turns -> TurnRecords] /\ \A o \in Turns \ {t} : turn'[o] = turn[o]
        /\ turn'[t].pc = "locked" /\ turn'[t].seen = turn[t].seen
    BY <1>a, <1>c, <2>1, TurnGoes
  <2>3. VaultBase'
    BY <1>a, <1>b, <2>1, <2>2 DEF VaultBase
  <2>4. SnapshotsExist' /\ BuildsAreCurrent' /\ SnapshotIsCurrent'
    BY <1>a, <2>1, <2>2 DEF SnapshotsExist, BuildsAreCurrent, SnapshotIsCurrent
  <2>5. BuildersHold'
    BY <1>a, <1>b, <2>1, <2>2 DEF BuildersHold, k
  <2> QED
    BY <2>1, <2>3, <2>4, <2>5, TokensUndisturbed DEF VaultInv
<1>4. CASE Ask(t)
  <2>1. PICK answer \in {0, vault} :
          /\ turn' = [turn EXCEPT ![t].pc = "building", ![t].seen = answer]
          /\ excused' = IF answer = 0 THEN excused \cup {k} ELSE excused \ {k}
    BY <1>4 DEF Ask, k
  <2>2. /\ turn[t].pc = "locked" /\ store[k] = Nothing /\ answer \in Nat /\ answer \in 0 .. vault
        /\ turn' = [turn EXCEPT ![t] = [pc |-> "building", seen |-> answer]]
        /\ UNCHANGED <<vault, token, changed, client, store, holder, write, used, clock>>
    BY <1>4, <1>a, <1>b, <2>1, TurnEdits DEF Ask, k
  <2>3. /\ turn' \in [Turns -> TurnRecords] /\ \A o \in Turns \ {t} : turn'[o] = turn[o]
        /\ turn'[t].pc = "building" /\ turn'[t].seen = answer
    BY <1>a, <2>2, TurnGoes
  <2>4. VaultBase'
    BY <1>a, <1>b, <2>1, <2>2, <2>3 DEF VaultBase
  <2>5. holder[k] = t
    BY <1>a, <2>2 DEF BuildersHold, k
  <2>6. SnapshotsExist' /\ BuildersHold' /\ SnapshotIsCurrent'
    BY <1>a, <1>b, <2>1, <2>2, <2>3, <2>5 DEF SnapshotsExist, BuildersHold, SnapshotIsCurrent, k
  <2>7. ASSUME NEW o \in Turns, turn'[o].pc = "building", KeyOf(o) \notin excused'
        PROVE  turn'[o].seen = vault
    <3>1. CASE o = t
      BY <1>b, <2>1, <2>3, <2>7, <3>1 DEF k
    <3>2. CASE o # t
      <4>1. turn'[o] = turn[o] /\ holder[KeyOf(o)] = o
        BY <1>a, <2>3, <2>7, <3>2 DEF BuildersHold
      <4>2. KeyOf(o) # k
        BY <2>5, <3>2, <4>1
      <4> QED
        BY <1>a, <2>1, <2>7, <4>1, <4>2 DEF BuildsAreCurrent
    <3> QED
      BY <3>1, <3>2
  <2>8. BuildsAreCurrent'
    BY <2>2, <2>7 DEF BuildsAreCurrent
  <2> QED
    BY <2>2, <2>4, <2>6, <2>8, TokensUndisturbed DEF VaultInv
<1>5. CASE Store(t)
  <2>1. /\ turn[t].pc = "building" /\ store' = [store EXCEPT ![k] = turn[t].seen]
        /\ holder' = [holder EXCEPT ![k] = Nothing]
        /\ turn' = [turn EXCEPT ![t] = [pc |-> "over", seen |-> turn[t].seen]]
        /\ UNCHANGED <<vault, token, changed, client, write, used, excused, clock>>
    BY <1>5, <1>a, <1>c, TurnEdits DEF Store, k
  <2>2. /\ turn' \in [Turns -> TurnRecords] /\ \A o \in Turns \ {t} : turn'[o] = turn[o]
        /\ turn'[t].pc = "over" /\ turn'[t].seen = turn[t].seen
    BY <1>a, <1>c, <2>1, TurnGoes
  <2>3. VaultBase'
    BY <1>a, <1>b, <1>c, <2>1, <2>2 DEF VaultBase
  <2>4. SnapshotsExist' /\ BuildsAreCurrent'
    BY <1>a, <1>b, <2>1, <2>2 DEF SnapshotsExist, BuildsAreCurrent
  <2>5. SnapshotIsCurrent'
    BY <1>a, <1>b, <2>1, <2>2 DEF SnapshotIsCurrent, BuildsAreCurrent, k
  <2>6. BuildersHold'
    BY <1>a, <1>b, <2>1, <2>2 DEF BuildersHold, k
  <2> QED
    BY <2>1, <2>3, <2>4, <2>5, <2>6, TokensUndisturbed DEF VaultInv
<1>6. CASE GiveUp(t)
  <2>1. /\ turn' = [turn EXCEPT ![t] = [pc |-> "over", seen |-> Nothing]]
        /\ holder' = [holder EXCEPT ![k] = IF @ = t THEN Nothing ELSE @]
        /\ UNCHANGED <<vault, token, changed, client, store, write, used, excused, clock>>
    BY <1>6, <1>a, TurnEdits DEF GiveUp, k
  <2>2. /\ turn' \in [Turns -> TurnRecords] /\ \A o \in Turns \ {t} : turn'[o] = turn[o]
        /\ turn'[t].pc = "over" /\ turn'[t].seen = Nothing
    BY <1>a, <2>1, TurnGoes
  <2>3. VaultBase'
    BY <1>a, <1>b, <2>1, <2>2 DEF VaultBase
  <2>4. SnapshotsExist' /\ BuildsAreCurrent' /\ SnapshotIsCurrent'
    BY <1>a, <2>1, <2>2 DEF SnapshotsExist, BuildsAreCurrent, SnapshotIsCurrent
  <2>5. BuildersHold'
    BY <1>a, <1>b, <2>1, <2>2 DEF BuildersHold, k
  <2> QED
    BY <2>1, <2>3, <2>4, <2>5, TokensUndisturbed DEF VaultInv
<1> QED
  BY <1>1, <1>2, <1>3, <1>4, <1>5, <1>6

LEMMA WriteSteps ==
    ASSUME VaultAssumptions, VaultInv, NEW w \in Writes,
           BeginWrite(w) \/ TakeEffect(w) \/ Answered(w) \/ WriteFails(w)
    PROVE  VaultInv'
<1> DEFINE k == KeyOf(w)
<1>a. VaultBase /\ SnapshotsExist /\ BuildersHold /\ BuildsAreCurrent /\ SnapshotIsCurrent
  BY DEF VaultInv
<1>b. /\ k \in Keys /\ (\A o \in Turns : KeyOf(o) \in Keys) /\ (\A o \in Writes : KeyOf(o) \in Keys)
      /\ MaxVersion \in Nat /\ vault \in 1 .. MaxVersion /\ Nothing \notin Nat
      /\ store \in [Keys -> Nat \cup {Nothing}]
      /\ write \in [Writes -> {"idle", "requested", "done", "over"}] /\ excused \subseteq Keys
  BY <1>a DEF VaultAssumptions, VaultBase
<1> HIDE DEF k
<1>1. CASE BeginWrite(w)
  <2>1. /\ UseClient /\ write[w] = "idle" /\ write' = [write EXCEPT ![w] = "requested"]
        /\ UNCHANGED <<vault, token, changed, store, holder, turn, excused, clock>>
    BY <1>1 DEF BeginWrite
  <2>2. /\ client' \in [token : 0 .. MaxTokens, at : Nat]
        /\ used' \in [token : Nat, current : Nat, since : Nat]
        /\ TokensAge' /\ TokenLagIsBounded'
    BY <2>1, ClientIsFresh
  <2>3. VaultBase'
    BY <1>a, <1>b, <2>1, <2>2 DEF VaultBase
  <2>4. SnapshotsExist' /\ BuildersHold' /\ BuildsAreCurrent' /\ SnapshotIsCurrent'
    BY <1>a, <1>b, <2>1 DEF SnapshotsExist, BuildersHold, BuildsAreCurrent, SnapshotIsCurrent
  <2> QED
    BY <2>2, <2>3, <2>4 DEF VaultInv
<1>2. CASE TakeEffect(w)
  <2>1. /\ vault < MaxVersion /\ vault' = vault + 1 /\ write' = [write EXCEPT ![w] = "done"]
        /\ excused' = excused \cup {j \in Keys : j # k \/ Building(j)}
        /\ UNCHANGED <<token, changed, client, store, holder, turn, used, clock>>
    BY <1>2 DEF TakeEffect, k
  <2>2. VaultBase'
    BY <1>a, <1>b, <2>1 DEF VaultBase
  <2>3. SnapshotsExist'
    BY <1>a, <1>b, <2>1 DEF SnapshotsExist
  <2>4. BuildersHold'
    BY <1>a, <2>1 DEF BuildersHold
  <2>5. BuildsAreCurrent'
    BY <1>b, <2>1 DEF BuildsAreCurrent, Building
  <2>6. SnapshotIsCurrent'
    BY <1>b, <2>1 DEF SnapshotIsCurrent, k
  <2> QED
    BY <2>1, <2>2, <2>3, <2>4, <2>5, <2>6, TokensUndisturbed DEF VaultInv
<1>3. CASE Answered(w)
  <2>1. /\ write[w] = "done" /\ write' = [write EXCEPT ![w] = "over"]
        /\ store' = [store EXCEPT ![k] = Nothing]
        /\ UNCHANGED <<vault, token, changed, client, holder, turn, used, excused, clock>>
    BY <1>3 DEF Answered, Invalidated, k
  <2>2. VaultBase'
    BY <1>a, <1>b, <2>1 DEF VaultBase
  <2>3. SnapshotsExist' /\ BuildersHold' /\ BuildsAreCurrent'
    BY <1>a, <1>b, <2>1 DEF SnapshotsExist, BuildersHold, BuildsAreCurrent
  <2>4. SnapshotIsCurrent'
    BY <1>a, <1>b, <2>1 DEF SnapshotIsCurrent, k
  <2> QED
    BY <2>1, <2>2, <2>3, <2>4, TokensUndisturbed DEF VaultInv
<1>4. CASE WriteFails(w)
  <2>1. /\ write' = [write EXCEPT ![w] = "over"]
        /\ excused' = IF write[w] = "done" THEN excused \cup {k} ELSE excused
        /\ UNCHANGED <<vault, token, changed, client, store, holder, turn, used, clock>>
    BY <1>4 DEF WriteFails, k
  <2>2. VaultBase'
    BY <1>a, <1>b, <2>1 DEF VaultBase
  <2>3. SnapshotsExist' /\ BuildersHold' /\ BuildsAreCurrent'
    BY <1>a, <1>b, <2>1 DEF SnapshotsExist, BuildersHold, BuildsAreCurrent
  <2>4. SnapshotIsCurrent'
    BY <1>a, <1>b, <2>1 DEF SnapshotIsCurrent, k
  <2> QED
    BY <2>1, <2>2, <2>3, <2>4, TokensUndisturbed DEF VaultInv
<1> QED
  BY <1>1, <1>2, <1>3, <1>4

LEMMA OtherSteps ==
    ASSUME VaultAssumptions, VaultInv, Configure \/ ClockTicks \/ EditOutside
    PROVE  VaultInv'
<1>a. /\ VaultBase /\ SnapshotsExist /\ TokensAge /\ TokenLagIsBounded
      /\ MaxVersion \in Nat /\ MaxTokens \in Nat
  BY DEF VaultInv, VaultAssumptions
<1>1. CASE Configure
  <2>1. /\ token < MaxTokens /\ token' = token + 1 /\ changed' = clock
        /\ UNCHANGED <<vault, client, store, holder, turn, write, used, excused, clock>>
    BY <1>1 DEF Configure
  <2>2. VaultBase' /\ TokensAge' /\ TokenLagIsBounded'
    BY <1>a, <2>1 DEF VaultBase, TokensAge, TokenLagIsBounded
  <2> QED
    BY <2>1, <2>2, SnapshotsUndisturbed DEF VaultInv
<1>2. CASE ClockTicks
  <2>1. /\ clock' = clock + 1
        /\ UNCHANGED <<vault, token, changed, client, store, holder, turn, write, used, excused>>
    BY <1>2 DEF ClockTicks
  <2>2. VaultBase' /\ TokensAge' /\ TokenLagIsBounded'
    BY <1>a, <2>1 DEF VaultBase, TokensAge, TokenLagIsBounded
  <2> QED
    BY <2>1, <2>2, SnapshotsUndisturbed DEF VaultInv
<1>3. CASE EditOutside
  <2>1. /\ vault < MaxVersion /\ vault' = vault + 1 /\ excused' = Keys
        /\ UNCHANGED <<token, changed, client, store, holder, turn, write, used, clock>>
    BY <1>3 DEF EditOutside
  <2>2. VaultBase'
    BY <1>a, <2>1 DEF VaultBase
  <2>3. SnapshotsExist'
    BY <1>a, <2>1 DEF VaultBase, SnapshotsExist
  <2>4. BuildersHold'
    BY <2>1 DEF VaultInv, BuildersHold
  <2>5. BuildsAreCurrent' /\ SnapshotIsCurrent'
    BY <2>1 DEF VaultAssumptions, BuildsAreCurrent, SnapshotIsCurrent
  <2> QED
    BY <2>1, <2>2, <2>3, <2>4, <2>5, TokensUndisturbed DEF VaultInv
<1> QED
  BY <1>1, <1>2, <1>3

LEMMA VaultStep ==
    ASSUME VaultAssumptions, VaultInv, [VaultNext]_vaultVars
    PROVE  VaultInv'
<1>1. CASE VaultNext
  BY <1>1, TurnSteps, WriteSteps, OtherSteps DEF VaultNext
<1>2. CASE UNCHANGED vaultVars
  <2>1. VaultBase'
    BY <1>2 DEF vaultVars, VaultInv, VaultBase
  <2> QED
    BY <1>2, <2>1, SnapshotsUndisturbed, TokensUndisturbed DEF vaultVars, VaultInv
<1> QED
  BY <1>1, <1>2

\* The vault's versions, tokens, snapshots, turns and writes stay within their
\* types; in particular no snapshot is of a version the vault did not have.
THEOREM VaultTypeCorrect ==
    ASSUME VaultAssumptions
    PROVE  VaultSpec => []VaultTypeOK
<1>1. VaultInv => VaultTypeOK
  <2> SUFFICES ASSUME VaultInv PROVE VaultTypeOK
    OBVIOUS
  <2>1. \A t \in Turns : turn[t].pc \in {"idle", "waiting", "locked", "building", "over"}
    BY TurnEdits DEF VaultInv
  <2> QED
    BY <2>1 DEF VaultAssumptions, VaultInv, VaultBase, SnapshotsExist, VaultTypeOK
<1>2. VaultSpec => []VaultInv
  BY VaultStarts, VaultStep, PTL DEF VaultSpec
<1> QED
  BY <1>1, <1>2, PTL

\* A snapshot that goes into prompts is the vault's present one, but for the
\* changes that the tools of its id did not see through; one turn of an id builds
\* at a time; and a replaced token is used for less than the client's time to
\* live.
THEOREM VaultIsSafe ==
    ASSUME VaultAssumptions
    PROVE  VaultSpec => []VaultSafe
<1>1. VaultInv => VaultSafe
  <2> SUFFICES ASSUME VaultInv PROVE OneBuild
    BY DEF VaultInv, VaultSafe
  <2> QED
    BY DEF VaultInv, BuildersHold, OneBuild
<1>2. VaultSpec => []VaultInv
  BY VaultStarts, VaultStep, PTL DEF VaultSpec
<1> QED
  BY <1>1, <1>2, PTL
=============================================================================
