-------------------------- MODULE VectorMigration --------------------------
(* core/memory/vector: the store that writes to two stores while the memories *)
(* move from pgvector (primary) to Qdrant (secondary), called by the threads  *)
(* of a pool, and scripts/migrate_pgvector_to_qdrant.py, which copies what is *)
(* there already, batch by batch in the order of the ids, while they write.   *)
EXTENDS Naturals, FiniteSets

CONSTANTS
  Threads,      \* the threads that write
  NumPoints,    \* the ids that are used are 1..NumPoints
  BatchSize,    \* --batch-size
  MaxWrites     \* bound: writes begun

ASSUME MigrationConstants ==
  /\ NumPoints \in Nat /\ BatchSize \in Nat \ {0} /\ MaxWrites \in Nat

VARIABLES
  primary,      \* the point of each id in pgvector
  secondary,    \* the point of each id in Qdrant
  mode,         \* DualWriteMode
  writer,       \* the write each thread is in the middle of, between the stores
  copier,       \* the migration script
  suspect,      \* history: the ids on which the stores may differ
  writes        \* how many writes were begun

migrationVars == <<primary, secondary, mode, writer, copier, suspect, writes>>

Points == 1..NumPoints
Absent == "absent"
Plain == "plain"      \* a payload without the key that update_payload merges
Merged == "merged"    \* and one with it
Contents == {Plain, Merged}
Modes == {"primary_only", "dual", "secondary_only"}   \* dual_write, dual_read

Writes == [kind : {"insert", "update", "update_payload", "delete"}, id : Points]
          \cup [kind : {"reset"}, id : {1}]
Idle == [kind |-> "none", id |-> 1]

(* The script: where it is, its offset and that of its checkpoint, the number *)
(* of points counted at its start, the ids it fetched and their points, and   *)
(* history: the fetched ids written since, the ids made suspect since it      *)
(* started from offset 0 or absent when it ended, and whether points came or  *)
(* went in between or it went on from the checkpoint of another run.          *)
CopierType ==
  [at : {"off", "loop", "fetched", "crashed", "done"}, offset : Nat, checkpoint : Nat,
   total : Nat, batch : SUBSET Points, points : [Points -> Contents \cup {Absent}],
   touched : SUBSET Points, hit : SUBSET Points, moved : BOOLEAN]

Nothing == [i \in Points |-> Absent]
Off == [at |-> "off", offset |-> 0, checkpoint |-> 0, total |-> 0, batch |-> {},
        points |-> Nothing, touched |-> {}, hit |-> {}, moved |-> FALSE]

MigrationTypeOK ==
  /\ {primary, secondary} \subseteq [Points -> Contents \cup {Absent}]
  /\ mode \in Modes
  /\ writer \in [Threads -> Writes \cup {Idle}]
  /\ copier \in CopierType
  /\ copier.at = "fetched" => copier.batch # {} /\ Cardinality(copier.batch) <= BatchSize
  /\ suspect \subseteq Points /\ writes \in 0..MaxWrites

(* The migration begins with points in pgvector only. *)
MigrationInit ==
  /\ primary = [i \in Points |-> Plain] /\ secondary = Nothing
  /\ mode = "primary_only"
  /\ writer = [t \in Threads |-> Idle]
  /\ copier = Off
  /\ suspect = Points
  /\ writes = 0

ToPrimary == mode \in {"primary_only", "dual"}
ToSecondary == mode \in {"dual", "secondary_only"}

-----------------------------------------------------------------------------
(* What a write does in pgvector, where an UPDATE of a missing row does       *)
(* nothing and an INSERT of a present one is refused, and in Qdrant, where    *)
(* insert and update are upserts. Both merge into present points only.        *)
Present(store, w) == store[w.id] # Absent

PgRefuses(w) == w.kind = "insert" /\ Present(primary, w)

InPg(w) ==
  CASE w.kind = "insert" -> [primary EXCEPT ![w.id] = Plain]
    [] w.kind = "update" /\ Present(primary, w) -> [primary EXCEPT ![w.id] = Plain]
    [] w.kind = "update_payload" /\ Present(primary, w) -> [primary EXCEPT ![w.id] = Merged]
    [] w.kind = "delete" -> [primary EXCEPT ![w.id] = Absent]
    [] w.kind = "reset" -> Nothing
    [] OTHER -> primary

InQdrant(w) ==
  CASE w.kind \in {"insert", "update"} -> [secondary EXCEPT ![w.id] = Plain]
    [] w.kind = "update_payload" /\ Present(secondary, w) -> [secondary EXCEPT ![w.id] = Merged]
    [] w.kind = "delete" -> [secondary EXCEPT ![w.id] = Absent]
    [] w.kind = "reset" -> Nothing
    [] OTHER -> secondary

Named(w) == IF w.kind = "reset" THEN Points ELSE {w.id}
Pending(ts) == UNION {Named(writer[t]) : t \in {u \in ts : writer[u] # Idle}}

(* The ways the stores may come to differ, as far as a write is to blame: it  *)
(* overlaps another one of the same point, it is not mirrored, or it updates  *)
(* a point that only Qdrant will have.                                        *)
Suspicious(t, w) ==
  {i \in Named(w) :
     \/ i \in Pending(Threads \ {t})
     \/ ~ToPrimary \/ ~ToSecondary
     \/ w.kind = "update" /\ ~Present(primary, w)}

Suspect(ids) == suspect' = suspect \cup ids

Told(ids, named, moves) ==
  copier' = IF copier.at = "off" THEN copier
            ELSE [copier EXCEPT !.hit = @ \cup ids,
                                !.touched = @ \cup (named \cap copier.batch),
                                !.moved = @ \/ (moves /\ copier.at # "done")]

-----------------------------------------------------------------------------
(* A write: the primary first, whose error is the caller's; then the          *)
(* secondary, whose error is only logged.                                     *)
Begins(t) == writer[t] = Idle /\ writes < MaxWrites /\ writes' = writes + 1

WritePrimary(t, w) ==
  /\ Begins(t) /\ ToPrimary /\ ~PgRefuses(w)
  /\ primary' = InPg(w)
  /\ writer' = [writer EXCEPT ![t] = w]
  /\ Suspect(Suspicious(t, w))
  /\ Told(Suspicious(t, w), Named(w),
          \E i \in Points : (primary[i] = Absent) # (primary'[i] = Absent))
  /\ UNCHANGED <<secondary, mode>>

SkipPrimary(t, w) ==
  /\ Begins(t) /\ ~ToPrimary
  /\ writer' = [writer EXCEPT ![t] = w]
  /\ Suspect(Suspicious(t, w))
  /\ Told(Suspicious(t, w), Named(w), FALSE)
  /\ UNCHANGED <<primary, secondary, mode>>

WriteSecondary_Fault(t) ==
  /\ writer[t] # Idle /\ ToSecondary
  /\ secondary' = InQdrant(writer[t])
  /\ UNCHANGED <<primary, mode, writer, copier, suspect, writes>>
WriteSecondary(t) ==
  /\ writer[t] # Idle /\ ToSecondary
  /\ secondary' = InQdrant(writer[t])
  /\ writer' = [writer EXCEPT ![t] = Idle]
  /\ UNCHANGED <<primary, mode, copier, suspect, writes>>

SecondaryFails_Fault(t) ==
  /\ writer[t] # Idle /\ ToSecondary
  /\ writer' = [writer EXCEPT ![t] = Idle]
  /\ UNCHANGED <<primary, secondary, mode, copier, suspect, writes>>
SecondaryFails(t) ==
  /\ writer[t] # Idle /\ ToSecondary
  /\ writer' = [writer EXCEPT ![t] = Idle]
  /\ Suspect(Named(writer[t]))
  /\ Told(Named(writer[t]), {}, FALSE)
  /\ UNCHANGED <<primary, secondary, mode, writes>>

SkipSecondary(t) ==
  /\ writer[t] # Idle /\ ~ToSecondary
  /\ writer' = [writer EXCEPT ![t] = Idle]
  /\ UNCHANGED <<primary, secondary, mode, copier, suspect, writes>>

(* The process is restarted with another VECTOR_STORE_MODE, or dies: writes   *)
(* in the middle are cut off. The copying is over before the cut-over.        *)
Restart(m) ==
  /\ "secondary_only" \in {m, mode} => copier.at \in {"off", "done"}
  /\ mode' = m
  /\ writer' = [t \in Threads |-> Idle]
  /\ Suspect(Pending(Threads))
  /\ Told(Pending(Threads), {}, FALSE)
  /\ UNCHANGED <<primary, secondary, writes>>

-----------------------------------------------------------------------------
(* The script counts the points and copies them batch by batch. *)
Stored == {i \in Points : primary[i] # Absent}
Rank(i) == Cardinality({j \in Stored : j < i})

CopyStarts ==
  /\ copier.at \in {"off", "done", "crashed"} /\ mode # "secondary_only"
  /\ copier' = [Off EXCEPT !.at = "loop", !.total = Cardinality(Stored), !.checkpoint = copier.checkpoint]
  /\ UNCHANGED <<primary, secondary, mode, writer, suspect, writes>>

CopyResumes ==
  /\ copier.at = "crashed" /\ mode # "secondary_only"
  /\ copier' = [copier EXCEPT !.at = "loop", !.offset = copier.checkpoint,
                              !.total = Cardinality(Stored),
                              !.moved = @ \/ copier.checkpoint # copier.offset]
  /\ UNCHANGED <<primary, secondary, mode, writer, suspect, writes>>

\* ORDER BY id OFFSET copier.offset LIMIT BatchSize.
Batch_Fault ==
  {i \in Stored : Rank(i) >= copier.offset /\ Rank(i) < copier.offset + BatchSize + 1}
Batch == {i \in Stored : Rank(i) >= copier.offset /\ Rank(i) < copier.offset + BatchSize}

Fetches ==
  /\ copier.at = "loop" /\ copier.offset < copier.total /\ Batch # {}
  /\ copier' = [copier EXCEPT !.at = "fetched", !.batch = Batch, !.touched = {},
                              !.points = [i \in Points |-> IF i \in Batch THEN primary[i] ELSE Absent]]
  /\ UNCHANGED <<primary, secondary, mode, writer, suspect, writes>>

(* The upsert, whose points are now free of suspicion unless a write overlaps. *)
Freed == copier.batch \ (copier.touched \cup Pending(Threads))

Copied_Fault == [copier EXCEPT !.at = "loop", !.batch = {}, !.points = Nothing, !.touched = {},
                         !.offset = @ + BatchSize + 1, !.checkpoint = copier.offset + BatchSize + 1]
Copied == [copier EXCEPT !.at = "loop", !.batch = {}, !.points = Nothing, !.touched = {},
                         !.offset = @ + BatchSize, !.checkpoint = copier.offset + BatchSize]

Upserts ==
  /\ copier.at = "fetched"
  /\ secondary' = [i \in Points |-> IF i \in copier.batch THEN copier.points[i] ELSE secondary[i]]
  /\ suspect' = (suspect \cup (copier.batch \ Freed)) \ Freed
  /\ copier' = [Copied EXCEPT !.hit = (@ \cup (copier.batch \ Freed)) \ Freed]
  /\ UNCHANGED <<primary, mode, writer, writes>>

(* It fails, or dies before or after the upsert, with the old checkpoint. *)
CopyCrashes ==
  /\ copier.at \in {"loop", "fetched"}
  /\ \/ UNCHANGED <<secondary, suspect>>
     \/ /\ copier.at = "fetched"
        /\ secondary' = [i \in Points |-> IF i \in copier.batch THEN copier.points[i] ELSE secondary[i]]
        /\ Suspect(copier.batch)
  /\ copier' = [copier EXCEPT !.at = "crashed", !.batch = {}, !.points = Nothing, !.touched = {}]
  /\ UNCHANGED <<primary, mode, writer, writes>>

CopyEnds ==
  /\ copier.at = "loop" /\ (copier.offset >= copier.total \/ Batch = {})
  /\ copier' = [copier EXCEPT !.at = "done", !.checkpoint = 0, !.hit = @ \cup (Points \ Stored)]
  /\ UNCHANGED <<primary, secondary, mode, writer, suspect, writes>>

MigrationNext ==
  \/ \E t \in Threads : WriteSecondary(t) \/ SecondaryFails(t) \/ SkipSecondary(t)
  \/ \E t \in Threads, w \in Writes : WritePrimary(t, w) \/ SkipPrimary(t, w)
  \/ \E m \in Modes : Restart(m)
  \/ CopyStarts \/ CopyResumes \/ Fetches \/ Upserts \/ CopyCrashes \/ CopyEnds

MigrationSpec == MigrationInit /\ [][MigrationNext]_migrationVars

-----------------------------------------------------------------------------
(* The stores differ only where a write was not mirrored, failed in the       *)
(* secondary, was cut off by a restart, overlapped another write or the       *)
(* copying of the same point, or updated a point pgvector does not have.      *)
DriftIsExplained ==
  \A i \in Points : primary[i] = secondary[i] \/ i \in suspect \cup Pending(Threads)

(* A copy that went through, with crashes and resumptions, leaves no point    *)
(* behind that became suspect before it started, provided that no point came  *)
(* or went meanwhile (an offset into a list that shrinks or grows passes over *)
(* points) and it was not resumed from the checkpoint of an older run, which  *)
(* a new run leaves in place until its first batch is done.                   *)
CopyIsComplete ==
  copier.at = "done" /\ ~copier.moved => suspect \cap Stored \subseteq copier.hit

(* To its callers the pair is one store, the primary up to the cut-over and   *)
(* the secondary from then on. After the cut-over a write may return without  *)
(* an effect, because the error of the only store written is swallowed.       *)
Store == INSTANCE VectorStore WITH
  Ids <- Points,
  contents <- IF mode = "secondary_only" THEN secondary ELSE primary,
  writing <- [t \in Threads |-> IF writer[t] = Idle THEN "idle"
                                ELSE IF ToPrimary THEN "applied" ELSE "called"],
  lossy <- mode = "secondary_only",
  doubt <- suspect

ImplementsVectorStore == Store!StoreSpec

(* The two stores differ, and the copy lacks points, only for known reasons. *)
MigrationSafe == DriftIsExplained /\ CopyIsComplete
=============================================================================
