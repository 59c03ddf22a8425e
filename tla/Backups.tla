------------------------------ MODULE Backups ------------------------------
(***************************************************************************)
(* Backups of the databases and the configuration (services/backup): the   *)
(* daemon of `serve` with its schedule, commands `run`, and the gateway's  *)
(* backup_now (core/services/backup.py) write to one store, each as a      *)
(* process of its own; `restore` reads it.                                 *)
(*                                                                         *)
(* A target is known by the version of its data, 0 when it has none.  The  *)
(* clock counts minutes; names of backups hold seconds, so runs of one     *)
(* minute may use one name.  The old prefixes of S3 are left out.          *)
(*                                                                         *)
(* A part of its own follows: the export of a user's data to an archive    *)
(* and its import elsewhere (scripts/clara_export_import.py).              *)
(***************************************************************************)
EXTENDS Integers, Sequences, FiniteSets, SequencesExt, TLC

CONSTANTS
    Targets,      \* the order in which a run takes them
    Files,        \* the target that is extracted, not replayed
    Runners,      \* runner -> [kind, only, force]: "serve", "run" or "api"
    Schedule,     \* <<minute, hour>>, or Always
    Always,
    Minutes, Hours,                     \* the length of an hour and of a day
    Respawn, Retention,
    MaxClock, MaxVersion, MaxFaults,
    MaxLast,      \* bounds how long a run lasts
    MaxPresent    \* bounds the runners that take part

VARIABLES
    S3, clock, faults,
    data,      \* target -> version
    backup,    \* target -> [second -> [version, made, whole]]
    marker,    \* set_last_backup_time: when, or -1
    run,       \* runner -> [at, todo, version, second, began, won, lost]
    due, status,                        \* of the daemon
    restore,   \* what a restore asks about: a set with its target and second, or none
    last,      \* history: target -> what was stored last, or -1
    cut,       \* history: targets one of whose files was cut while written over
    passed,    \* history: targets the run of the marker left out or lost
    unserved   \* history: targets a skip left without a recent backup

backupVars == <<S3, clock, faults, data, backup, marker, run, due, status, restore, last,
                cut, passed, unserved>>

All == {Targets[i] : i \in DOMAIN Targets}
Kind(r) == Runners[r].kind
ByApi(r) == Kind(r) = "api"
Idle == [at |-> "idle", todo |-> <<>>, version |-> 0, second |-> 0, won |-> {}]

(* next_run_time: the minute or hour that is fixed replaces that of now.    *)
Candidate(cron, now) ==
    LET minute == IF cron[1] = Always THEN now % Minutes ELSE cron[1]
        hour == IF cron[2] = Always THEN (now \div Minutes) % Hours ELSE cron[2]
    IN  (now \div (Minutes * Hours)) * Minutes * Hours + hour * Minutes + minute
Step_Hour(cron) == IF cron[1] = Always THEN 1 ELSE Minutes
Step(cron) ==
    IF cron[1] = Always THEN 1 ELSE IF cron[2] = Always THEN Minutes ELSE Minutes * Hours
NextRun(cron, now) ==
    LET c == Candidate(cron, now) IN IF c <= now THEN c + Step(cron) ELSE c

BackupsInit ==
    /\ S3 \in BOOLEAN /\ clock = 0 /\ faults = 0
    /\ data = [d \in All |-> 1] /\ backup = [d \in All |-> <<>>] /\ marker = -1
    /\ \E present \in SUBSET DOMAIN Runners :
         /\ Cardinality(present) = MaxPresent
         /\ run = [r \in DOMAIN Runners |-> IF r \in present THEN Idle ELSE [Idle EXCEPT !.at = "done"]]
    /\ due = NextRun(Schedule, 0) /\ status = "ready" /\ restore = {}
    /\ last = [d \in All |-> -1] /\ cut = {} /\ passed = {} /\ unserved = {}

-----------------------------------------------------------------------------
(* One run of any kind.                                                    *)

Recent(t) == t # -1 /\ clock - t < Respawn
Covered(d) ==
    \E s \in DOMAIN backup[d] : backup[d][s].whole /\ clock - backup[d][s].made < Respawn + MaxLast
Chosen(r) == IF Runners[r].only = Always THEN Targets ELSE <<Runners[r].only>>

(* What the daemon's health tells of a run that ended.                     *)
Ended(r, ok) == status' = IF Kind(r) # "serve" THEN status ELSE IF ok THEN "completed" ELSE "error"
Done(r) ==
    run' = [run EXCEPT ![r] = IF Kind(r) = "serve" THEN [Idle EXCEPT !.at = "resting", !.second = clock]
                              ELSE [Idle EXCEPT !.at = "done"]]

(* _check_respawn: no run but backup_now and a forced one starts soon after *)
(* the marker, which stands for all targets.                               *)
Skips(r) == ~ByApi(r) /\ ~Runners[r].force /\ Recent(marker)
Start(r) ==
    /\ run[r].at = "idle"
    /\ Kind(r) = "serve" => clock >= due
    /\ ByApi(r) => S3
    /\ IF Skips(r)
       THEN /\ Done(r) /\ Ended(r, TRUE)
            /\ unserved' = unserved \cup {d \in All \ (passed \cup cut) : ~Covered(d)}
       ELSE /\ run' = [run EXCEPT ![r] = [Idle EXCEPT !.at = "next", !.todo = Chosen(r),
                                              !.second = clock]]
            /\ status' = IF Kind(r) = "serve" THEN "running" ELSE status
            /\ UNCHANGED unserved
    /\ UNCHANGED <<S3, clock, faults, data, backup, marker, due, restore, last, cut, passed>>

(* Connection and dump: either may fail, which costs the target.           *)
Dump(r) ==
    /\ run[r].at = "next" /\ run[r].todo # <<>>
    /\ run' = [run EXCEPT ![r].at = "dumped", ![r].version = data[run[r].todo[1]]]
    /\ UNCHANGED <<S3, clock, faults, data, backup, marker, due, status, restore, last, cut,
                   passed, unserved>>

Lose(w) == [w EXCEPT !.at = "next", !.todo = Tail(@), !.version = 0]
DumpFails(r) ==
    /\ run[r].at \in {"next", "dumped"} /\ run[r].todo # <<>> /\ faults < MaxFaults
    /\ faults' = faults + 1 /\ run' = [run EXCEPT ![r] = Lose(@)]
    /\ UNCHANGED <<S3, clock, data, backup, marker, due, status, restore, last, cut, passed,
                   unserved>>

(* S3 takes an object whole or not at all; a local file is opened, which   *)
(* empties it, and then written.                                           *)
Put(d, s, v, whole) ==
    backup' = [backup EXCEPT ![d] = (s :> [version |-> v, made |-> clock, whole |-> whole]) @@ @]
Written(d, s) == s \in DOMAIN backup[d] /\ backup[d][s].whole
Open(r) ==
    LET d == run[r].todo[1] IN
    /\ run[r].at = "dumped" /\ ~S3
    /\ Put(d, run[r].second, -1, FALSE)
    /\ cut' = IF Written(d, run[r].second) THEN cut \cup {d} ELSE cut
    /\ run' = [run EXCEPT ![r].at = "writing"]
    /\ UNCHANGED <<S3, clock, faults, data, marker, due, status, restore, last, passed,
                   unserved>>

Upload(r) ==
    LET d == run[r].todo[1] IN
    /\ run[r].at = IF S3 THEN "dumped" ELSE "writing"
    /\ Put(d, run[r].second, run[r].version, TRUE)
    /\ last' = [last EXCEPT ![d] = run[r].version]
    /\ cut' = cut \ {d}
    /\ run' = [run EXCEPT ![r].at = "stored", ![r].version = 0, ![r].won = @ \cup {d}]
    /\ UNCHANGED <<S3, clock, faults, data, marker, due, status, restore, passed, unserved>>

WriteFails(r) ==
    /\ run[r].at = "writing" /\ faults < MaxFaults
    /\ faults' = faults + 1 /\ run' = [run EXCEPT ![r] = Lose(@)]
    /\ UNCHANGED <<S3, clock, data, backup, marker, due, status, restore, last, cut, passed,
                   unserved>>

(* cleanup_old, once the target has a new backup.                          *)
Kept_Stamps(d) == {s \in DOMAIN backup[d] : clock - s < Retention}
Kept(d) == {s \in DOMAIN backup[d] : clock - backup[d][s].made <= Retention}
CleanUp(r) ==
    LET d == run[r].todo[1] IN
    /\ run[r].at = "stored"
    /\ backup' = [backup EXCEPT ![d] = [s \in Kept(d) |-> backup[d][s]]]
    /\ run' = [run EXCEPT ![r].at = "next", ![r].todo = Tail(@)]
    /\ UNCHANGED <<S3, clock, faults, data, marker, due, status, restore, last, cut, passed,
                   unserved>>

(* What local files raise ends the command; the daemon counts the target   *)
(* as lost, too; S3's errors are logged.                                   *)
CleanUpFails(r) ==
    /\ run[r].at = "stored" /\ faults < MaxFaults /\ faults' = faults + 1
    /\ IF S3 THEN run' = [run EXCEPT ![r].at = "next", ![r].todo = Tail(@)]
       ELSE IF Kind(r) = "run" THEN Done(r)
       ELSE run' = [run EXCEPT ![r] = Lose(@)]
    /\ UNCHANGED <<S3, clock, data, backup, marker, due, status, restore, last, cut, passed,
                   unserved>>

(* Any success sets the marker, with errors of S3 logged and those of local *)
(* files raised; a run of the daemon fails when nothing else is left.      *)
Marks_Any(r) == ~ByApi(r)
Marks(r) == ~ByApi(r) /\ run[r].won # {}
Finish(r) ==
    /\ run[r].at = "next" /\ run[r].todo = <<>>
    /\ \/ /\ Marks(r) /\ marker' = clock /\ passed' = IF run[r].won = {} THEN {} ELSE All \ run[r].won
          /\ Ended(r, TRUE) /\ UNCHANGED faults
       \/ /\ Marks(r) /\ faults < MaxFaults /\ faults' = faults + 1
          /\ Ended(r, S3) /\ UNCHANGED <<marker, passed>>
       \/ ~Marks(r) /\ Ended(r, FALSE) /\ UNCHANGED <<marker, passed, faults>>
    /\ Done(r)
    /\ UNCHANGED <<S3, clock, data, backup, due, restore, last, cut, unserved>>

(* The daemon sleeps past the minute and looks for its next run.           *)
Rest(r) ==
    /\ run[r].at = "resting" /\ clock > run[r].second
    /\ run' = [run EXCEPT ![r] = Idle] /\ due' = NextRun(Schedule, clock)
    /\ UNCHANGED <<S3, clock, faults, data, backup, marker, status, restore, last, cut,
                   passed, unserved>>

(* A process that is killed leaves what it wrote; the daemon starts again. *)
Killed(r) ==
    /\ run[r].at \notin {"idle", "done"} /\ faults < MaxFaults /\ faults' = faults + 1
    /\ run' = [run EXCEPT ![r] = IF Kind(r) = "serve" THEN Idle ELSE [Idle EXCEPT !.at = "done"]]
    /\ due' = IF Kind(r) = "serve" THEN NextRun(Schedule, clock) ELSE due
    /\ status' = IF Kind(r) = "serve" THEN "ready" ELSE status
    /\ UNCHANGED <<S3, clock, data, backup, marker, restore, last, cut, passed, unserved>>

-----------------------------------------------------------------------------
(* The command that restores: it asks between listing and reading.         *)
Pick(d, s) ==
    /\ restore = {} /\ s \in DOMAIN backup[d]
    /\ restore' = {<<d, s>>}
    /\ UNCHANGED <<S3, clock, faults, data, backup, marker, run, due, status, last, cut,
                   passed, unserved>>

(* psql goes on after a statement that fails and returns 0: a dump that is *)
(* replayed onto tables changes none of them.                              *)
Onto(d, v) == IF d = Files \/ data[d] = 0 THEN v ELSE data[d]
Readable_Any(d, s) == s \in DOMAIN backup[d]
Readable(d, s) == s \in DOMAIN backup[d] /\ backup[d][s].whole
Restores(d, s) ==
    /\ <<d, s>> \in restore /\ restore' = {}
    /\ data' = IF Readable(d, s) THEN [data EXCEPT ![d] = Onto(d, backup[d][s].version)] ELSE data
    /\ UNCHANGED <<S3, clock, faults, backup, marker, run, due, status, last, cut, passed,
                   unserved>>

-----------------------------------------------------------------------------
(* Time, with runs that end within MaxLast, and the programs that write to *)
(* the databases or lose one.                                              *)
Passes ==
    /\ clock < MaxClock /\ clock' = clock + 1
    /\ \A r \in DOMAIN run : run[r].at \in {"idle", "resting", "done"} \/ clock - run[r].second < MaxLast
    /\ UNCHANGED <<S3, faults, data, backup, marker, run, due, status, restore, last, cut,
                   passed, unserved>>

Write(d, v) ==
    /\ d # Files /\ v \in {0, data[d] + 1} /\ v # data[d]
    /\ data' = [data EXCEPT ![d] = v]
    /\ UNCHANGED <<S3, clock, faults, backup, marker, run, due, status, restore, last, cut,
                   passed, unserved>>

BackupsNext ==
    \/ Passes
    \/ \E r \in DOMAIN Runners :
         \/ Start(r) \/ Dump(r) \/ DumpFails(r) \/ Open(r) \/ Upload(r) \/ WriteFails(r) \/ CleanUp(r)
         \/ CleanUpFails(r) \/ Finish(r) \/ Rest(r) \/ Killed(r)
    \/ \E d \in All, s \in 0..MaxClock : Pick(d, s) \/ Restores(d, s)
    \/ \E d \in All, v \in 0..MaxVersion : Write(d, v)

BackupsSpec == BackupsInit /\ [][BackupsNext]_backupVars

-----------------------------------------------------------------------------
BackupsTypeOK ==
    /\ clock \in 0..MaxClock /\ faults \in 0..MaxFaults /\ marker \in -1..MaxClock
    /\ data \in [All -> -1..MaxVersion] /\ last \in [All -> -1..MaxVersion]
    /\ \A d \in All : DOMAIN backup[d] \subseteq 0..MaxClock
    /\ \A r \in DOMAIN run : run[r].at \in {"idle", "next", "dumped", "writing", "stored", "resting", "done"}
    /\ status \in {"ready", "running", "completed", "error"}
    /\ restore \subseteq All \X (0..MaxClock) /\ Cardinality(restore) <= 1

(* What was stored last of a target stays, whole, however many runs clean  *)
(* up: unless a run of the same second opened the file again.              *)
LastIsKept ==
    \A d \in All : last[d] # -1 /\ d \notin cut =>
        \E s \in DOMAIN backup[d] : backup[d][s].whole /\ backup[d][s].version = last[d]

(* A run that is skipped leaves no target without a recent backup but      *)
(* those that the run which set the marker was not asked for or lost.      *)
SkipsAreExplained == unserved = {}

(* No target ever holds a part of a backup: what a run was cut while       *)
(* writing is listed, but not restored.                                    *)
NothingHalfRestored == \A d \in All : data[d] # -1

(* The daemon waits for the first minute of its schedule, where the minute *)
(* is fixed or nothing is.                                                 *)
Fits(cron, t) ==
    /\ cron[1] = Always \/ t % Minutes = cron[1]
    /\ cron[2] = Always \/ (t \div Minutes) % Hours = cron[2]
DueIsNext ==
    \A m \in 0..Minutes - 1, h \in 0..Hours - 1 :
      \A cron \in {<<m, h>>, <<m, Always>>, <<Always, Always>>} :
        /\ NextRun(cron, clock) > clock /\ Fits(cron, NextRun(cron, clock))
        /\ \A t \in clock + 1..NextRun(cron, clock) - 1 : ~Fits(cron, t)

BackupsSafe == LastIsKept /\ SkipsAreExplained /\ NothingHalfRestored /\ DueIsNext

-----------------------------------------------------------------------------
(***************************************************************************)
(* Moving a user's data: the export of tables, vectors and graph to an     *)
(* archive, and its import elsewhere (scripts/clara_export_import.py).     *)
(*                                                                         *)
(* The gateway may go on writing while the tables are exported one after   *)
(* the other, parents first.  The import merges row by row, commits table  *)
(* by table, and may be run again.  PostgreSQL checks foreign keys, SQLite *)
(* does not.                                                               *)
(***************************************************************************)

CONSTANTS
    Tables,      \* the tables, parents before children
    Rows,        \* id -> [table, parent (0 for none), user, recent]
    Points,      \* id -> user: vectors of memories
    Nodes,       \* id -> [name, user]: entities of the graph
    Edges,       \* pairs of node ids
    User,        \* whose data --user names
    FlushEvery,  \* rows between two flushes (500)
    BatchSize,   \* points in an upsert (100)
    MaxImports   \* bound on runs of the import

VARIABLES
    live,      \* rows of the exported database
    options,   \* [user, since, tables, checked, provider]: arguments and backends
    step,      \* what the export or the import is at
    archive,   \* rows in the archive
    points,    \* points in the archive
    nodes,     \* nodes in the archive
    edges,     \* edges in the archive
    todo,      \* rows of the file being imported that are not read yet
    pending,   \* rows merged but not committed
    count,     \* rows counted of that file
    reported,  \* record_counts of the import by table
    target,    \* rows committed at the destination
    vectors,   \* points at the destination
    upserts,   \* points of the import whose upsert or commit is to come
    entities,  \* names of entities at the destination, with properties or bare
    relations, \* edges at the destination, by name
    imports,   \* runs of the import
    late,      \* history: rows written while the export ran
    undone     \* history: rows that a rollback or a failed merge dropped

exportVars == <<live, options, step, archive, points, nodes, edges, todo, pending, count, reported,
                target, vectors, upserts, entities, relations, imports, late, undone>>

archived    == <<archive, points, nodes, edges, late, options>>
destination == <<todo, pending, count, reported, target, vectors, upserts, entities, relations,
                 imports, undone>>

\* RELATIONAL_TABLES: parents before children.
Order_Reversed == Reverse(Tables)
Order == Tables

Named(p) == <<Nodes[p[1]].name, Nodes[p[2]].name>>
NamesOf(S) == {Nodes[n].name : n \in S}
At(t) == step = <<"export", t>>
Reading(t) == step = <<"import", t>>
After(t) ==
    LET i == CHOOSE j \in DOMAIN Order : Order[j] = t
    IN  IF i = Len(Order) THEN "vectors" ELSE Order[i + 1]

ExportInit ==
    /\ live \in SUBSET DOMAIN Rows
    /\ \A r \in live : Rows[r].parent \in live \cup {0}
    /\ options \in [user : BOOLEAN, since : BOOLEAN, checked : BOOLEAN,
                    tables : {ToSet(Tables), {Last(Tables)}},
                    provider : {"qdrant", "pgvector"}]
    /\ step = <<"export", Order[1]>>
    /\ archive = {} /\ points = {} /\ nodes = {} /\ edges = {}
    /\ todo = {} /\ pending = {} /\ count = 0 /\ reported = [t \in ToSet(Tables) |-> 0]
    /\ target = {} /\ vectors = {} /\ upserts = {} /\ entities = {} /\ relations = {}
    /\ imports = 0 /\ late = {} /\ undone = {}

-----------------------------------------------------------------------------
(* The gateway stores a row, of a parent that is there.                    *)
Store(r) ==
    /\ step[1] = "export" /\ r \notin live /\ Rows[r].parent \in live \cup {0}
    /\ live' = live \cup {r} /\ late' = late \cup {r}
    /\ UNCHANGED <<options, step, archive, points, nodes, edges, destination>>

Wanted(r) ==
    /\ options.user => Rows[r].user = User
    /\ options.since => Rows[r].recent

ExportTable(t) ==
    /\ At(t)
    /\ archive' = archive \cup {r \in live : Rows[r].table = t /\ Wanted(r)}
    /\ step' = <<"export", After(t)>>
    /\ UNCHANGED <<live, options, points, nodes, edges, late, destination>>

(* Vectors ignore --since; any failure leaves the file out and goes on.    *)
ExportVectors ==
    /\ At("vectors")
    /\ points' \in {{p \in DOMAIN Points : options.user => Points[p] = User}, {}}
    /\ step' = <<"export", "nodes">>
    /\ UNCHANGED <<live, options, archive, nodes, edges, late, destination>>

ExportNodes ==
    /\ At("nodes")
    /\ nodes' \in {{n \in DOMAIN Nodes : options.user => Nodes[n].user = User}, {}}
    /\ step' = <<"export", "edges">>
    /\ UNCHANGED <<live, options, archive, points, edges, late, destination>>

\* An edge belongs to the users of both its ends.
Crossing(p) == options.user => User \in {Nodes[p[1]].user, Nodes[p[2]].user}
ExportEdges ==
    /\ At("edges")
    /\ edges' \in {{p \in Edges : Crossing(p)}, {}}
    /\ step' = <<"archived", "">>
    /\ UNCHANGED <<live, options, archive, points, nodes, late, destination>>

-----------------------------------------------------------------------------
Selected(t) == IF t \in options.tables THEN {r \in archive : Rows[r].table = t} ELSE {}
OpenTable(t) ==
    /\ step' = <<"import", t>> /\ count' = 0 /\ pending' = {}
    /\ todo' = IF t \in ToSet(Tables) THEN Selected(t) ELSE {}

Import ==
    /\ step[1] \in {"archived", "aborted", "imported"} /\ imports < MaxImports
    /\ imports' = imports + 1 /\ undone' = {}
    /\ reported' = [t \in ToSet(Tables) |-> 0]
    /\ OpenTable(Order[1])
    /\ UNCHANGED <<live, archived, target, vectors, upserts, entities, relations>>

Abort ==
    /\ step' = <<"aborted", "">> /\ todo' = {} /\ pending' = {} /\ count' = 0 /\ upserts' = {}

\* Every parent of these rows is there, as a database that checks them demands.
Consistent(S) ==
    options.checked => \A r \in S : Rows[r].parent \in target \cup S \cup {0}

(* A row is merged; every FlushEvery rows the session is flushed.  An      *)
(* exception of the row or of the flush is caught, and its rollback drops  *)
(* what was merged since the last commit.                                  *)
Merge(t, r) ==
    LET kept    == pending \cup {r}
        flushed == (count + 1) % FlushEvery = 0
    IN
    /\ Reading(t) /\ r \in todo
    /\ todo' = todo \ {r}
    /\ \/ /\ flushed => Consistent(kept)
          /\ pending' = kept /\ count' = count + 1 /\ UNCHANGED undone
       \/ /\ flushed /\ ~Consistent(kept)
          /\ pending' = {} /\ count' = count + 1 /\ undone' = undone \cup kept
       \/ pending' = {} /\ UNCHANGED count /\ undone' = undone \cup kept
    /\ UNCHANGED <<live, archived, step, reported, target, vectors, upserts, entities, relations,
                   imports>>

(* The commit of a table is outside of any try.                            *)
Commit(t) ==
    /\ Reading(t) /\ todo = {}
    /\ \/ /\ Consistent(pending)
          /\ target' = target \cup pending
          /\ reported' = [reported EXCEPT ![t] = count]
          /\ OpenTable(After(t))
          /\ UNCHANGED upserts
       \/ ~Consistent(pending) /\ Abort /\ UNCHANGED <<target, reported>>
    /\ UNCHANGED <<live, archived, vectors, entities, relations, imports, undone>>

(* Points go to Qdrant in batches and to pgvector in one transaction; an   *)
(* error ends the import.  With --tables they are left out.                *)
Included == options.tables = ToSet(Tables)
Next(kind) == step' = <<"import", kind>> /\ UNCHANGED <<todo, pending, count>>

Drained_FullBatches == Cardinality(points \ upserts) < BatchSize
Drained == points \subseteq upserts

ImportVectors ==
    /\ Reading("vectors")
    /\ \/ /\ ~Included \/ Drained
          /\ vectors' = IF options.provider = "pgvector" THEN vectors \cup upserts ELSE vectors
          /\ upserts' = {} /\ Next("nodes")
       \/ \E S \in SUBSET (points \ upserts) :
             /\ Included /\ S # {} /\ Cardinality(S) <= BatchSize
             /\ upserts' = upserts \cup S
             /\ vectors' = IF options.provider = "qdrant" THEN vectors \cup S ELSE vectors
             /\ UNCHANGED <<step, todo, pending, count>>
       \/ Included /\ points # {} /\ Abort /\ UNCHANGED vectors
    /\ UNCHANGED <<live, archived, reported, target, entities, relations, imports, undone>>

(* Entities and edges are merged by name, one query each; an end that is   *)
(* not there yet is created bare.                                          *)
ImportNode(n) ==
    /\ Reading("nodes") /\ Included /\ n \in nodes
    /\ <<Nodes[n].name, "full">> \notin entities
    /\ entities' = (entities \ {<<Nodes[n].name, "bare">>}) \cup {<<Nodes[n].name, "full">>}
    /\ UNCHANGED <<live, archived, step, todo, pending, count, reported, target, vectors, upserts,
                   relations, imports, undone>>

ImportedNodes ==
    /\ Reading("nodes")
    /\ Included => \A n \in nodes : <<Nodes[n].name, "full">> \in entities
    /\ Next("edges")
    /\ UNCHANGED <<live, archived, reported, target, vectors, upserts, entities, relations,
                   imports, undone>>

ImportEdge(p) ==
    /\ Reading("edges") /\ Included /\ p \in edges /\ Named(p) \notin relations
    /\ relations' = relations \cup {Named(p)}
    /\ entities' = entities \cup {<<x, "bare">> : x \in
           {y \in {Named(p)[1], Named(p)[2]} : <<y, "full">> \notin entities}}
    /\ UNCHANGED <<live, archived, step, todo, pending, count, reported, target, vectors, upserts,
                   imports, undone>>

ImportedEdges ==
    /\ Reading("edges")
    /\ Included => {Named(p) : p \in edges} \subseteq relations
    /\ step' = <<"imported", "">>
    /\ UNCHANGED <<live, archived, todo, pending, count, reported, target, vectors, upserts,
                   entities, relations, imports, undone>>

(* The graph fails half-way.                                               *)
GraphFails ==
    /\ Reading("nodes") \/ Reading("edges")
    /\ Included /\ (nodes # {} \/ edges # {}) /\ Abort
    /\ UNCHANGED <<live, archived, reported, target, vectors, entities, relations, imports,
                   undone>>

ExportNext ==
    \/ \E r \in DOMAIN Rows : Store(r)
    \/ \E t \in ToSet(Tables) : ExportTable(t) \/ Commit(t)
                                \/ \E r \in DOMAIN Rows : Merge(t, r)
    \/ ExportVectors \/ ExportNodes \/ ExportEdges \/ Import
    \/ ImportVectors \/ ImportedNodes \/ ImportedEdges \/ GraphFails
    \/ \E n \in DOMAIN Nodes : ImportNode(n)
    \/ \E p \in Edges : ImportEdge(p)

ExportSpec == ExportInit /\ [][ExportNext]_exportVars

-----------------------------------------------------------------------------
ExportTypeOK ==
    /\ live \subseteq DOMAIN Rows /\ archive \subseteq live /\ target \subseteq archive
    /\ pending \subseteq archive /\ count \in 0 .. Cardinality(DOMAIN Rows)
    /\ points \subseteq DOMAIN Points /\ vectors \subseteq points /\ nodes \subseteq DOMAIN Nodes
    /\ edges \subseteq Edges
    /\ entities \subseteq NamesOf(DOMAIN Nodes) \X {"full", "bare"}
    /\ imports \in 0 .. MaxImports /\ undone \subseteq archive

(* An archive of everything, taken while nothing was written, finds every  *)
(* parent at the destination before its children, whichever database       *)
(* checks them: its import commits every table unless a row failed.        *)
QuietArchivesImport ==
    /\ late = {} /\ ~options.user /\ ~options.since /\ Included /\ undone = {}
    => \A t \in ToSet(Tables) : Reading(t) /\ todo = {} => Consistent(pending)

(* A finished import has stored what it reports: every row of the selected *)
(* tables that no rollback dropped, every point and, by name, every edge.  *)
ReportedRowsAreStored ==
    step[1] = "imported" =>
        /\ \A t \in ToSet(Tables) :
              /\ Selected(t) \subseteq target \cup undone
              /\ undone = {} => reported[t] = Cardinality(Selected(t))
        /\ Included => /\ points \subseteq vectors
                       /\ {Named(p) : p \in edges} \subseteq relations

(* A transaction leaves nothing of an import that failed with the vectors  *)
(* before any was committed; an entity is bare only if its node is not in  *)
(* the archive.                                                            *)
NothingHalfStored ==
    /\ options.provider = "pgvector" => vectors \in {{}, points}
    /\ step[1] = "imported" => \A x \in NamesOf(nodes) : <<x, "bare">> \notin entities

ExportSafe == QuietArchivesImport /\ ReportedRowsAreStored /\ NothingHalfStored
=============================================================================
