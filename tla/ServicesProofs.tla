---------------------------- MODULE ServicesProofs ----------------------------
(***************************************************************************)
(* Machine-checked proofs about four of the services around the gateway.    *)
(*                                                                          *)
(* VectorMigration, for any threads, number of points, batch size and       *)
(* number of writes: what Qdrant may lack follows from who is still         *)
(* writing; what a finished copy may have passed over follows from the      *)
(* ranks of the points in the order of the ids.                             *)
(*                                                                          *)
(* Reminders, for any requests, intentions and thoughts: what fired belongs *)
(* to one request, which raises it, loses it or has it still.               *)
(*                                                                          *)
(* EmailMonitor, for any messages, rules and limits: a relevant message up  *)
(* to the newest one fetched is in the batch or was alerted or has an       *)
(* excuse, so that the last-seen mark may move there when the batch is done.*)
(*                                                                          *)
(* McpInstaller, for any installs, ways and limits: who relies on the clone *)
(* in the directory owns it or has an excuse, and so has a process whose    *)
(* install is gone.                                                         *)
(***************************************************************************)
EXTENDS VectorMigration, Reminders, EmailMonitor, McpInstaller, FiniteSetTheorems,
        TLAPS

----------------------------------------------------------------------------
(* Ranks: the offset of a point in the list that the script pages through *)

Below == {ss \in Nat \X Nat : ss[1] < ss[2]}

LEMMA LeastNumber ==
    ASSUME NEW T \in SUBSET Nat, T # {}
    PROVE  \E n \in T : \A m \in T : n <= m
<1>1. IsWellFoundedOn(Below, Nat)
  BY NatLessThanWellFounded DEF OpToRel, Below
<1>2. PICK n \in T : \A m \in T : ~(<<m, n>> \in Below)
  BY <1>1, WFMin
<1>3. ASSUME NEW m \in T PROVE n <= m
  <2>1. m \in Nat /\ n \in Nat /\ ~(<<m, n>> \in Below)
    BY <1>2
  <2>2. ~(m < n)
    BY <2>1 DEF Below
  <2> QED
    BY <2>1, <2>2
<1> QED
  BY <1>3

LEMMA GreatestNumber ==
    ASSUME NEW N \in Nat, NEW T \in SUBSET (1 .. N), T # {}
    PROVE  \E n \in T : \A m \in T : m <= n
<1> DEFINE Mirror == {N - m : m \in T}
<1>1. \A m \in T : m \in Nat /\ m <= N /\ N - m \in Nat
  OBVIOUS
<1>2. Mirror \in SUBSET Nat /\ Mirror # {}
  BY <1>1
<1>3. PICK k \in Mirror : \A m \in Mirror : k <= m
  BY <1>2, LeastNumber
<1>4. PICK n \in T : k = N - n
  BY <1>3
<1>5. ASSUME NEW m \in T PROVE m <= n
  <2>1. N - n <= N - m
    BY <1>3, <1>4
  <2> QED
    BY <2>1, <1>1
<1> QED
  BY <1>5

LEMMA GreatestPoint ==
    ASSUME NEW T \in SUBSET Points, T # {}
    PROVE  \E n \in T : \A m \in T : m <= n
BY GreatestNumber, MigrationConstants DEF Points

LEMMA PointsFinite ==
    /\ IsFiniteSet(Points)
    /\ \A S \in SUBSET Points : IsFiniteSet(S) /\ Cardinality(S) \in Nat
<1>1. IsFiniteSet(Points)
  BY FS_Interval, MigrationConstants DEF Points
<1> QED
  BY <1>1, FS_Subset, FS_CardinalityType

LEMMA RankType ==
    /\ Stored \in SUBSET Points /\ Cardinality(Stored) \in Nat
    /\ \A i : Rank(i) \in Nat
<1>1. Stored \in SUBSET Points /\ \A i : {j \in Stored : j < i} \in SUBSET Points
  BY DEF Stored
<1> QED
  BY <1>1, PointsFinite DEF Rank

\* Ranks grow with the ids.
LEMMA RankGrows ==
    ASSUME NEW i \in Stored, NEW j \in Points, i < j
    PROVE  Rank(i) < Rank(j)
<1> DEFINE L(k) == {x \in Stored : x < k}
<1>1. Stored \in SUBSET Points /\ i \in Nat /\ j \in Nat
  BY RankType, MigrationConstants DEF Points
<1>2. \A x \in Stored : x \in Nat
  BY <1>1, MigrationConstants DEF Points
<1>3. L(i) \subseteq L(j) /\ i \in L(j) /\ i \notin L(i)
  <2>1. ASSUME NEW x \in Stored, x < i PROVE x < j
    BY <1>1, <1>2, <2>1
  <2>2. ~(i < i)
    BY <1>1
  <2> QED
    BY <2>1, <2>2
<1>4. L(j) \in SUBSET Points
  BY <1>1
<1>5. IsFiniteSet(L(j)) /\ Cardinality(L(i)) \in Nat /\ Cardinality(L(j)) \in Nat
  BY <1>1, <1>4, PointsFinite
<1>6. Cardinality(L(i)) <= Cardinality(L(j)) /\ (Cardinality(L(i)) = Cardinality(L(j)) => L(i) = L(j))
  BY <1>3, <1>5, FS_Subset
<1>7. L(i) # L(j)
  BY <1>3
<1>8. Cardinality(L(i)) < Cardinality(L(j))
  BY <1>5, <1>6, <1>7
<1> QED
  BY <1>8 DEF Rank

LEMMA RankSmall ==
    ASSUME NEW i \in Stored
    PROVE  Rank(i) < Cardinality(Stored)
<1> DEFINE L == {x \in Stored : x < i}
<1>1. Stored \in SUBSET Points /\ i \in Nat
  BY RankType, MigrationConstants DEF Points
<1>2. L \subseteq Stored /\ i \notin L
  BY <1>1
<1>3. IsFiniteSet(Stored) /\ Cardinality(Stored) \in Nat /\ Cardinality(L) \in Nat
  BY <1>1, <1>2, PointsFinite
<1>4. Cardinality(L) <= Cardinality(Stored) /\ (Cardinality(L) = Cardinality(Stored) => L = Stored)
  BY <1>2, <1>3, FS_Subset
<1>5. Cardinality(L) < Cardinality(Stored)
  BY <1>2, <1>3, <1>4
<1> QED
  BY <1>5 DEF Rank

\* The point before the j-th one has the rank before: no rank is missing.
LEMMA RankBefore ==
    ASSUME NEW j \in Stored, Rank(j) # 0
    PROVE  \E m \in Stored : m < j /\ Rank(m) + 1 = Rank(j)
<1> DEFINE L(k) == {x \in Stored : x < k}
<1>1. Stored \in SUBSET Points /\ j \in Nat /\ \A x \in Stored : x \in Nat
  BY RankType, MigrationConstants DEF Points
<1>2. L(j) \in SUBSET Points
  BY <1>1
<1>3. L(j) # {}
  BY FS_EmptySet DEF Rank
<1> HIDE DEF L
<1>4. PICK m \in L(j) : \A x \in L(j) : x <= m
  BY <1>2, <1>3, GreatestPoint
<1> USE DEF L
<1>5. m \in Stored /\ m < j
  BY <1>4
<1>6. L(j) = L(m) \cup {m} /\ m \notin L(m)
  <2>1. ASSUME NEW x \in L(j) PROVE x \in L(m) \cup {m}
    <3>1. x <= m /\ x \in Nat /\ m \in Nat /\ x \in Stored
      BY <1>1, <1>4, <1>5
    <3>2. x < m \/ x = m
      BY <3>1
    <3> QED
      BY <3>1, <3>2
  <2>2. ASSUME NEW x \in L(m) PROVE x \in L(j)
    <3>1. x \in Stored /\ x \in Nat /\ m \in Nat /\ x < m
      BY <1>1, <1>5
    <3>2. x < j
      BY <3>1, <1>1, <1>5
    <3> QED
      BY <3>1, <3>2
  <2>3. ~(m < m)
    BY <1>1, <1>5
  <2> QED
    BY <2>1, <2>2, <2>3, <1>4
<1>7. L(m) \in SUBSET Points
  BY <1>1
<1>8. IsFiniteSet(L(m))
  BY <1>7, PointsFinite
<1>9. Cardinality(L(j)) = Cardinality(L(m)) + 1
  BY <1>6, <1>8, FS_AddElement
<1> QED
  BY <1>5, <1>9 DEF Rank

\* A batch is no longer than asked for.
LEMMA BatchFits ==
    ASSUME copier.offset \in Nat
    PROVE  Cardinality(Batch) <= BatchSize
<1> DEFINE lo == copier.offset
           hi == copier.offset + BatchSize - 1
           f == [i \in Batch |-> Rank(i)]
<1>1. Batch \subseteq Stored /\ Stored \in SUBSET Points
  BY RankType DEF Batch
<1>2. \A i \in Batch : Rank(i) \in lo..hi
  BY RankType, MigrationConstants DEF Batch
<1>3. \A i \in Batch : i \in Stored /\ i \in Points /\ i \in Nat /\ Rank(i) \in Nat
  BY <1>1, RankType, MigrationConstants DEF Points
<1>4. ASSUME NEW i \in Batch, NEW j \in Batch, Rank(i) = Rank(j) PROVE i = j
  <2>1. i < j => Rank(i) < Rank(j)
    BY <1>3, RankGrows
  <2>2. j < i => Rank(j) < Rank(i)
    BY <1>3, RankGrows
  <2> QED
    BY <2>1, <2>2, <1>3, <1>4
<1>5. f \in Injection(Batch, lo..hi)
  BY <1>2, <1>4 DEF Injection, IsInjective
<1>6. lo \in Nat /\ hi \in Int /\ hi - lo + 1 = BatchSize /\ lo <= hi
  BY MigrationConstants
<1>7. IsFiniteSet(lo..hi) /\ Cardinality(lo..hi) = BatchSize
  BY <1>6, FS_Interval
<1>8. Cardinality(Batch) <= Cardinality(lo..hi)
  BY <1>5, <1>7, FS_Injection
<1> QED
  BY <1>7, <1>8

\* An empty batch is the end of the list.
LEMMA NothingBehind ==
    ASSUME copier.offset \in Nat, Batch = {}
    PROVE  \A i \in Stored : Rank(i) < copier.offset
<1> DEFINE H == {i \in Stored : ~(Rank(i) < copier.offset)}
<1>1. Stored \in SUBSET Points /\ \A i \in Stored : i \in Nat /\ Rank(i) \in Nat
  BY RankType, MigrationConstants DEF Points
<1>2. SUFFICES ASSUME H # {} PROVE FALSE
  OBVIOUS
<1>3. H \in SUBSET Nat
  BY <1>1
<1> HIDE DEF H
<1>4. PICK j \in H : \A m \in H : j <= m
  BY <1>2, <1>3, LeastNumber
<1> USE DEF H
<1>5. j \in Stored /\ Rank(j) >= copier.offset /\ Rank(j) \in Nat
  BY <1>1, <1>4
<1>6. Rank(j) >= copier.offset + BatchSize
  BY <1>5, MigrationConstants DEF Batch
<1>7. Rank(j) # 0
  BY <1>6, MigrationConstants
<1>8. PICK m \in Stored : m < j /\ Rank(m) + 1 = Rank(j)
  BY <1>5, <1>7, RankBefore
<1>9. m \in H
  BY <1>1, <1>6, <1>8, MigrationConstants
<1> QED
  BY <1>1, <1>4, <1>8, <1>9, <1>5

----------------------------------------------------------------------------
(* What a write does to one point *)

Stores == [Points -> Contents \cup {Absent}]

\* The point that Qdrant has after a write, from the one it had.
QdrantGets(w, old) ==
  CASE w.kind \in {"insert", "update"} -> Plain
    [] w.kind = "update_payload" -> IF old = Absent THEN Absent ELSE Merged
    [] OTHER -> Absent

LEMMA WriteFields ==
    ASSUME NEW w \in Writes
    PROVE  /\ w.kind \in {"insert", "update", "update_payload", "delete", "reset"}
           /\ w.id \in Points \/ w.kind = "reset"
           /\ w # Idle
           /\ Named(w) \subseteq Points
           /\ w.kind # "reset" => Named(w) = {w.id} /\ w.id \in Points
           /\ w.kind = "reset" => Named(w) = Points
BY DEF Writes, Idle, Named

LEMMA QdrantPoint ==
    ASSUME NEW w \in Writes, secondary \in Stores
    PROVE  /\ InQdrant(w) \in Stores
           /\ \A i \in Named(w) : InQdrant(w)[i] = QdrantGets(w, secondary[i])
           /\ \A i \in Points \ Named(w) : InQdrant(w)[i] = secondary[i]
<1>1. CASE w.kind \in {"insert", "update"}
  BY <1>1, WriteFields DEF InQdrant, QdrantGets, Stores, Contents
<1>2. CASE w.kind = "update_payload"
  BY <1>2, WriteFields DEF InQdrant, QdrantGets, Stores, Contents, Present
<1>3. CASE w.kind = "delete"
  BY <1>3, WriteFields DEF InQdrant, QdrantGets, Stores, Contents
<1>4. CASE w.kind = "reset"
  BY <1>4, WriteFields DEF InQdrant, QdrantGets, Stores, Contents, Nothing
<1> QED
  BY <1>1, <1>2, <1>3, <1>4, WriteFields

LEMMA PgPoint ==
    ASSUME NEW w \in Writes, primary \in Stores
    PROVE  /\ InPg(w) \in Stores
           /\ \A i \in Points \ Named(w) : InPg(w)[i] = primary[i]
           /\ ~PgRefuses(w) /\ ~(w.kind = "update" /\ ~Present(primary, w))
                => \A i \in Named(w) : InPg(w)[i] = QdrantGets(w, primary[i])
<1>1. CASE w.kind = "insert"
  BY <1>1, WriteFields DEF InPg, QdrantGets, Stores, Contents
<1>2. CASE w.kind = "update"
  BY <1>2, WriteFields DEF InPg, QdrantGets, Stores, Contents, Present
<1>3. CASE w.kind = "update_payload"
  BY <1>3, WriteFields DEF InPg, QdrantGets, Stores, Contents, Present
<1>4. CASE w.kind = "delete"
  BY <1>4, WriteFields DEF InPg, QdrantGets, Stores, Contents
<1>5. CASE w.kind = "reset"
  BY <1>5, WriteFields DEF InPg, QdrantGets, Stores, Contents, Nothing
<1> QED
  BY <1>1, <1>2, <1>3, <1>4, <1>5, WriteFields

----------------------------------------------------------------------------
(* Types *)

LEMMA PendingType ==
    ASSUME MigrationTypeOK, NEW ts \in SUBSET Threads
    PROVE  Pending(ts) \subseteq Points
<1>1. \A t \in ts : writer[t] # Idle => Named(writer[t]) \subseteq Points
  BY WriteFields DEF MigrationTypeOK
<1> QED
  BY <1>1 DEF Pending

LEMMA CopierFields ==
    ASSUME copier \in CopierType
    PROVE  /\ copier.at \in {"off", "loop", "fetched", "crashed", "done"}
           /\ copier.offset \in Nat /\ copier.checkpoint \in Nat /\ copier.total \in Nat
           /\ copier.batch \subseteq Points /\ copier.points \in Stores
           /\ copier.touched \subseteq Points /\ copier.hit \subseteq Points
           /\ copier.moved \in BOOLEAN
BY DEF CopierType, Stores

\* What the script's history makes of a write.
LEMMA ToldFacts ==
    ASSUME copier \in CopierType, NEW ids \in SUBSET Points, NEW named, NEW moves \in BOOLEAN,
           Told(ids, named, moves)
    PROVE  /\ copier' \in CopierType
           /\ copier'.at = copier.at /\ copier'.offset = copier.offset
           /\ copier'.total = copier.total
           /\ copier'.batch = copier.batch /\ copier'.points = copier.points
           /\ copier.at # "off" => /\ copier'.hit = copier.hit \cup ids
                                   /\ copier'.touched = copier.touched \cup (named \cap copier.batch)
           /\ ~copier'.moved => ~copier.moved /\ (~moves \/ copier.at \in {"off", "done"})
<1>1. CASE copier.at = "off"
  BY <1>1, CopierFields DEF Told, CopierType
<1>2. CASE copier.at # "off"
  <2>1. copier' = [copier EXCEPT !.hit = copier.hit \cup ids,
                                 !.touched = copier.touched \cup (named \cap copier.batch),
                                 !.moved = copier.moved \/ (moves /\ copier.at # "done")]
    BY <1>2 DEF Told
  <2>2. /\ copier.hit \cup ids \in SUBSET Points
        /\ copier.touched \cup (named \cap copier.batch) \in SUBSET Points
        /\ (copier.moved \/ (moves /\ copier.at # "done")) \in BOOLEAN
    BY CopierFields
  <2>3. copier' \in CopierType
    BY <2>1, <2>2 DEF CopierType
  <2>4. /\ copier'.at = copier.at /\ copier'.offset = copier.offset
        /\ copier'.total = copier.total
        /\ copier'.batch = copier.batch /\ copier'.points = copier.points
        /\ copier'.hit = copier.hit \cup ids
        /\ copier'.touched = copier.touched \cup (named \cap copier.batch)
        /\ copier'.moved = (copier.moved \/ (moves /\ copier.at # "done"))
    BY <2>1 DEF CopierType
  <2> QED
    BY <2>3, <2>4, <1>2
<1> QED
  BY <1>1, <1>2

LEMMA NothingTypes ==
    /\ Nothing \in Stores /\ Off \in CopierType
    /\ [Off EXCEPT !.at = "loop"] \in CopierType
BY DEF Nothing, Stores, Off, CopierType

LEMMA MigrationTypeInit == MigrationInit => MigrationTypeOK
<1> SUFFICES ASSUME MigrationInit PROVE MigrationTypeOK
  OBVIOUS
<1>1. primary \in Stores /\ secondary \in Stores
  BY NothingTypes DEF MigrationInit, Stores, Contents
<1>2. copier \in CopierType /\ copier.at # "fetched"
  BY NothingTypes DEF MigrationInit, Off
<1>3. writes \in 0..MaxWrites
  BY MigrationConstants DEF MigrationInit
<1> QED
  BY <1>1, <1>2, <1>3 DEF MigrationInit, MigrationTypeOK, Modes, Stores

LEMMA BeginsType ==
    ASSUME MigrationTypeOK, NEW t \in Threads, Begins(t)
    PROVE  writes' \in 0..MaxWrites
BY MigrationConstants DEF MigrationTypeOK, Begins

LEMMA SuspiciousType ==
    ASSUME NEW t, NEW w \in Writes
    PROVE  Suspicious(t, w) \in SUBSET Points
BY WriteFields DEF Suspicious

LEMMA WritePrimaryType ==
    ASSUME MigrationTypeOK, NEW t \in Threads, NEW w \in Writes, WritePrimary(t, w)
    PROVE  MigrationTypeOK'
<1>1. primary' \in Stores
  BY PgPoint DEF WritePrimary, MigrationTypeOK, Stores
<1>2. Suspicious(t, w) \in SUBSET Points
  BY SuspiciousType
<1>3. /\ copier' \in CopierType /\ copier'.at = copier.at /\ copier'.batch = copier.batch
  <2> DEFINE moves == \E i \in Points : (primary[i] = Absent) # (primary'[i] = Absent)
  <2>1. Told(Suspicious(t, w), Named(w), moves)
    BY DEF WritePrimary
  <2> HIDE DEF moves
  <2>2. moves \in BOOLEAN
    BY DEF moves
  <2> QED
    BY <1>2, <2>1, <2>2, ToldFacts DEF MigrationTypeOK
<1>4. writer' \in [Threads -> Writes \cup {Idle}]
  BY DEF WritePrimary, MigrationTypeOK
<1> QED
  BY <1>1, <1>2, <1>3, <1>4, BeginsType DEF WritePrimary, MigrationTypeOK, Stores, Suspect

LEMMA SkipPrimaryType ==
    ASSUME MigrationTypeOK, NEW t \in Threads, NEW w \in Writes, SkipPrimary(t, w)
    PROVE  MigrationTypeOK'
<1>1. Suspicious(t, w) \in SUBSET Points
  BY SuspiciousType
<1>2. /\ copier' \in CopierType /\ copier'.at = copier.at /\ copier'.batch = copier.batch
  BY <1>1, ToldFacts DEF MigrationTypeOK, SkipPrimary
<1>3. writer' \in [Threads -> Writes \cup {Idle}]
  BY DEF SkipPrimary, MigrationTypeOK
<1> QED
  BY <1>1, <1>2, <1>3, BeginsType DEF SkipPrimary, MigrationTypeOK, Suspect

LEMMA SecondaryType ==
    ASSUME MigrationTypeOK, NEW t \in Threads,
           WriteSecondary(t) \/ SecondaryFails(t) \/ SkipSecondary(t)
    PROVE  MigrationTypeOK'
<1>1. writer' \in [Threads -> Writes \cup {Idle}]
  BY DEF MigrationTypeOK, WriteSecondary, SecondaryFails, SkipSecondary
<1>2. CASE WriteSecondary(t)
  <2>1. writer[t] \in Writes
    BY <1>2 DEF WriteSecondary, MigrationTypeOK
  <2>2. secondary' \in Stores
    BY <1>2, <2>1, QdrantPoint DEF WriteSecondary, MigrationTypeOK, Stores
  <2> QED
    BY <1>1, <1>2, <2>2 DEF WriteSecondary, MigrationTypeOK, Stores
<1>3. CASE SecondaryFails(t)
  <2>1. Named(writer[t]) \in SUBSET Points
    BY <1>3, WriteFields DEF SecondaryFails, MigrationTypeOK
  <2>2. /\ copier' \in CopierType /\ copier'.at = copier.at /\ copier'.batch = copier.batch
    BY <1>3, <2>1, ToldFacts DEF SecondaryFails, MigrationTypeOK
  <2> QED
    BY <1>1, <1>3, <2>1, <2>2 DEF SecondaryFails, MigrationTypeOK, Suspect
<1>4. CASE SkipSecondary(t)
  BY <1>1, <1>4 DEF SkipSecondary, MigrationTypeOK
<1> QED
  BY <1>2, <1>3, <1>4

LEMMA RestartType ==
    ASSUME MigrationTypeOK, NEW m \in Modes, Restart(m)
    PROVE  MigrationTypeOK'
<1>1. Pending(Threads) \in SUBSET Points
  BY PendingType
<1>2. /\ copier' \in CopierType /\ copier'.at = copier.at /\ copier'.batch = copier.batch
  BY <1>1, ToldFacts DEF Restart, MigrationTypeOK
<1> QED
  BY <1>1, <1>2 DEF Restart, MigrationTypeOK, Suspect

LEMMA CopiedFacts ==
    ASSUME copier \in CopierType
    PROVE  /\ Copied \in CopierType
           /\ Copied.at = "loop" /\ Copied.offset = copier.offset + BatchSize
           /\ Copied.total = copier.total /\ Copied.moved = copier.moved
           /\ Copied.hit = copier.hit
<1>1. copier.offset + BatchSize \in Nat
  BY CopierFields, MigrationConstants
<1>2. Nothing \in [Points -> Contents \cup {Absent}]
  BY NothingTypes DEF Stores
<1>3. Copied = [copier EXCEPT !.at = "loop", !.batch = {}, !.points = Nothing, !.touched = {},
                         !.offset = copier.offset + BatchSize,
                         !.checkpoint = copier.offset + BatchSize]
  BY DEF Copied, CopierType
<1> QED
  BY <1>1, <1>2, <1>3 DEF CopierType

LEMMA CopyType ==
    ASSUME MigrationTypeOK,
           CopyStarts \/ CopyResumes \/ Fetches \/ Upserts \/ CopyCrashes \/ CopyEnds
    PROVE  MigrationTypeOK'
<1> USE CopierFields DEF MigrationTypeOK
<1>1. CASE CopyStarts
  BY <1>1, RankType, NothingTypes DEF CopyStarts, Off, CopierType
<1>2. CASE CopyResumes
  BY <1>2, RankType DEF CopyResumes, CopierType
<1>3. CASE Fetches
  <2>1. Batch \in SUBSET Points
    BY RankType DEF Batch
  <2>2. [i \in Points |-> IF i \in Batch THEN primary[i] ELSE Absent] \in Stores
    BY DEF Stores
  <2>3. copier' \in CopierType /\ copier'.batch = Batch
    BY <1>3, <2>1, <2>2 DEF Fetches, CopierType, Stores
  <2>4. Cardinality(Batch) <= BatchSize
    BY BatchFits
  <2> QED
    BY <1>3, <2>3, <2>4 DEF Fetches
<1>4. CASE Upserts
  <2>1. secondary' \in Stores
    BY <1>4 DEF Upserts, Stores
  <2>2. suspect' \in SUBSET Points
    BY <1>4 DEF Upserts, Freed
  <2>3. copier' \in CopierType /\ copier'.at = "loop"
    <3>1. Copied \in CopierType /\ Copied.at = "loop"
      BY CopiedFacts
    <3>2. (Copied.hit \cup (copier.batch \ Freed)) \ Freed \in SUBSET Points
      BY <3>1 DEF CopierType
    <3> QED
      BY <1>4, <3>1, <3>2 DEF Upserts, CopierType
  <2> QED
    BY <1>4, <2>1, <2>2, <2>3 DEF Upserts, Stores
<1>5. CASE CopyCrashes
  <2>1. secondary' \in Stores
    BY <1>5 DEF CopyCrashes, Stores
  <2>2. suspect' \in SUBSET Points
    BY <1>5 DEF CopyCrashes, Suspect
  <2>3. copier' \in CopierType /\ copier'.at = "crashed"
    BY <1>5, NothingTypes DEF CopyCrashes, CopierType, Stores
  <2> QED
    BY <1>5, <2>1, <2>2, <2>3 DEF CopyCrashes, Stores
<1>6. CASE CopyEnds
  BY <1>6 DEF CopyEnds, CopierType
<1> QED
  BY <1>1, <1>2, <1>3, <1>4, <1>5, <1>6

\* The stores hold points, and a batch is never longer than asked for.
THEOREM MigrationTypeCorrect == MigrationSpec => []MigrationTypeOK
<1>1. MigrationTypeOK /\ [MigrationNext]_migrationVars => MigrationTypeOK'
  <2> SUFFICES ASSUME MigrationTypeOK, [MigrationNext]_migrationVars PROVE MigrationTypeOK'
    OBVIOUS
  <2>1. CASE UNCHANGED migrationVars
    BY <2>1 DEF migrationVars, MigrationTypeOK
  <2> QED
    BY <2>1, WritePrimaryType, SkipPrimaryType, SecondaryType, RestartType, CopyType
       DEF MigrationNext
<1> QED
  BY <1>1, MigrationTypeInit, PTL DEF MigrationSpec

----------------------------------------------------------------------------
(* Where the stores may differ *)

\* A point that is not suspect is written by one thread at a time, in both
\* stores, and the writer is about to make Qdrant's point pgvector's.
Owned ==
  \A t \in Threads : writer[t] # Idle =>
    \A i \in Named(writer[t]) \ suspect :
      /\ mode = "dual"
      /\ \A u \in Threads \ {t} : writer[u] # Idle => i \notin Named(writer[u])
      /\ QdrantGets(writer[t], secondary[i]) = primary[i]

\* A fetched point that was not written since is pgvector's.
FetchedIsFresh ==
  copier.at = "fetched" => \A i \in copier.batch \ copier.touched : copier.points[i] = primary[i]

DriftInv == MigrationTypeOK /\ Owned /\ FetchedIsFresh /\ DriftIsExplained

LEMMA PendingMembers ==
    ASSUME NEW ts, NEW i
    PROVE  /\ i \in Pending(ts) <=> \E u \in ts : writer[u] # Idle /\ i \in Named(writer[u])
           /\ i \in Pending(ts)' <=> \E u \in ts : writer'[u] # Idle /\ i \in Named(writer'[u])
BY DEF Pending

LEMMA DriftInit == MigrationInit => DriftInv
BY MigrationTypeInit, NothingTypes
   DEF MigrationInit, DriftInv, Owned, FetchedIsFresh, DriftIsExplained, Off

\* A write that begins: what it names and what it does to the other writes.
LEMMA DriftWritePrimary ==
    ASSUME DriftInv, NEW t \in Threads, NEW w \in Writes, WritePrimary(t, w)
    PROVE  Owned' /\ FetchedIsFresh' /\ DriftIsExplained'
<1> USE DEF DriftInv
<1>1. /\ writer[t] = Idle /\ writer' = [writer EXCEPT ![t] = w] /\ secondary' = secondary
      /\ mode' = mode /\ primary' = InPg(w) /\ suspect' = suspect \cup Suspicious(t, w)
      /\ ToPrimary /\ ~PgRefuses(w)
  BY DEF WritePrimary, Begins, Suspect
<1>2. writer'[t] = w /\ w # Idle /\ \A u \in Threads \ {t} : writer'[u] = writer[u]
  BY <1>1, WriteFields DEF MigrationTypeOK
<1>3. /\ \A i \in Points \ Named(w) : primary'[i] = primary[i]
      /\ ~(w.kind = "update" /\ ~Present(primary, w))
           => \A i \in Named(w) : primary'[i] = QdrantGets(w, primary[i])
  BY <1>1, PgPoint DEF MigrationTypeOK, Stores
<1>4. Named(w) \subseteq Points
  BY WriteFields
<1>5. \A u \in Threads : writer[u] # Idle => Named(writer[u]) \subseteq Points
  BY WriteFields DEF MigrationTypeOK
<1>6. ASSUME NEW u \in Threads \ {t}, writer[u] # Idle, NEW i \in Named(writer[u]), i \in Named(w)
      PROVE  i \in suspect'
  <2>1. i \in Pending(Threads \ {t})
    BY <1>6, PendingMembers
  <2> QED
    BY <2>1, <1>1, <1>6 DEF Suspicious
<1>7. Owned'
  <2>1. SUFFICES ASSUME NEW u \in Threads, writer'[u] # Idle,
                        NEW i \in Named(writer'[u]), i \notin suspect'
                 PROVE  /\ mode' = "dual"
                        /\ \A v \in Threads \ {u} : writer'[v] # Idle => i \notin Named(writer'[v])
                        /\ QdrantGets(writer'[u], secondary'[i]) = primary'[i]
    BY DEF Owned
  <2>2. CASE u = t
    <3>1. i \in Named(w) /\ i \notin Suspicious(t, w) /\ i \notin suspect
      BY <1>1, <1>2, <2>1, <2>2
    <3>2. /\ i \notin Pending(Threads \ {t}) /\ ToSecondary
          /\ ~(w.kind = "update" /\ ~Present(primary, w))
      BY <3>1 DEF Suspicious
    <3>3. \A v \in Threads \ {t} : writer[v] # Idle => i \notin Named(writer[v])
      BY <3>2, PendingMembers
    <3>4. i \notin Pending(Threads)
      BY <3>3, <1>1, PendingMembers
    <3>5. primary[i] = secondary[i]
      BY <3>1, <3>4, <1>4 DEF DriftIsExplained
    <3>6. mode = "dual"
      BY <3>2, <1>1 DEF ToPrimary, ToSecondary
    <3> QED
      BY <3>1, <3>2, <3>3, <3>5, <3>6, <1>1, <1>2, <1>3, <2>2
  <2>3. CASE u # t
    <3>1. writer'[u] = writer[u] /\ i \in Named(writer[u]) /\ i \notin suspect /\ writer[u] # Idle
      BY <1>1, <1>2, <2>1, <2>3
    <3>2. i \notin Named(w) /\ i \in Points
      BY <3>1, <2>1, <2>3, <1>5, <1>6
    <3>3. /\ mode = "dual"
          /\ \A v \in Threads \ {u} : writer[v] # Idle => i \notin Named(writer[v])
          /\ QdrantGets(writer[u], secondary[i]) = primary[i]
      BY <3>1 DEF Owned
    <3> QED
      BY <3>1, <3>2, <3>3, <1>1, <1>2, <1>3
  <2> QED
    BY <2>2, <2>3
<1>8. DriftIsExplained'
  <2>1. SUFFICES ASSUME NEW i \in Points, i \notin suspect', i \notin Pending(Threads)'
                 PROVE  primary'[i] = secondary'[i]
    BY DEF DriftIsExplained
  <2>2. i \notin Named(w) /\ i \notin suspect
    BY <2>1, <1>1, <1>2, PendingMembers
  <2>3. i \notin Pending(Threads)
    BY <2>1, <1>1, <1>2, PendingMembers
  <2> QED
    BY <2>2, <2>3, <1>1, <1>3 DEF DriftIsExplained
<1>9. FetchedIsFresh'
  <2> DEFINE moves == \E i \in Points : (primary[i] = Absent) # (primary'[i] = Absent)
  <2>1. Told(Suspicious(t, w), Named(w), moves) /\ moves \in BOOLEAN
    BY DEF WritePrimary
  <2> HIDE DEF moves
  <2>2. /\ copier'.at = copier.at /\ copier'.batch = copier.batch /\ copier'.points = copier.points
        /\ copier.at # "off" => copier'.touched = copier.touched \cup (Named(w) \cap copier.batch)
        /\ copier.batch \subseteq Points
    BY <2>1, SuspiciousType, ToldFacts, CopierFields DEF MigrationTypeOK
  <2> QED
    BY <2>2, <1>3 DEF FetchedIsFresh
<1> QED
  BY <1>7, <1>8, <1>9

LEMMA DriftSkipPrimary ==
    ASSUME DriftInv, NEW t \in Threads, NEW w \in Writes, SkipPrimary(t, w)
    PROVE  Owned' /\ FetchedIsFresh' /\ DriftIsExplained'
<1> USE DEF DriftInv
<1>1. /\ writer[t] = Idle /\ writer' = [writer EXCEPT ![t] = w] /\ secondary' = secondary
      /\ mode' = mode /\ primary' = primary /\ suspect' = suspect \cup Named(w)
  BY DEF SkipPrimary, Begins, Suspect, Suspicious
<1>2. writer'[t] = w /\ w # Idle /\ \A u \in Threads \ {t} : writer'[u] = writer[u]
  BY <1>1, WriteFields DEF MigrationTypeOK
<1>3. Owned'
  BY <1>1, <1>2 DEF Owned
<1>4. DriftIsExplained'
  BY <1>1, <1>2, PendingMembers DEF DriftIsExplained
<1>5. FetchedIsFresh'
  <2>1. /\ copier'.at = copier.at /\ copier'.batch = copier.batch /\ copier'.points = copier.points
        /\ copier.at # "off" => copier'.touched = copier.touched \cup (Named(w) \cap copier.batch)
    BY SuspiciousType, ToldFacts, ZenonT(40) DEF MigrationTypeOK, SkipPrimary
  <2> QED
    BY <2>1, <1>1 DEF FetchedIsFresh
<1> QED
  BY <1>3, <1>4, <1>5

LEMMA DriftSecondary ==
    ASSUME DriftInv, NEW t \in Threads,
           WriteSecondary(t) \/ SecondaryFails(t) \/ SkipSecondary(t)
    PROVE  Owned' /\ FetchedIsFresh' /\ DriftIsExplained'
<1> USE DEF DriftInv
<1>1. /\ writer[t] # Idle /\ writer' = [writer EXCEPT ![t] = Idle] /\ writer[t] \in Writes
      /\ primary' = primary /\ mode' = mode /\ suspect \subseteq suspect'
  BY DEF WriteSecondary, SecondaryFails, SkipSecondary, Suspect, MigrationTypeOK
<1>2. writer'[t] = Idle /\ \A u \in Threads \ {t} : writer'[u] = writer[u]
  BY <1>1 DEF MigrationTypeOK
<1>3. Named(writer[t]) \subseteq Points /\ secondary \in Stores
  BY <1>1, WriteFields DEF MigrationTypeOK, Stores
<1>4. \A u \in Threads : writer[u] # Idle => Named(writer[u]) \subseteq Points
  BY WriteFields DEF MigrationTypeOK
\* A point the write names is settled by it; the others are left alone.
<1>5. /\ \A i \in Named(writer[t]) : i \in suspect' \/ secondary'[i] = primary[i]
      /\ \A i \in Points \ Named(writer[t]) : secondary'[i] = secondary[i]
  <2>1. CASE WriteSecondary(t)
    <3>1. secondary' = InQdrant(writer[t]) /\ suspect' = suspect
      BY <2>1 DEF WriteSecondary
    <3> QED
      BY <3>1, <1>1, <1>3, QdrantPoint DEF Owned
  <2>2. CASE SecondaryFails(t)
    BY <2>2 DEF SecondaryFails, Suspect
  <2>3. CASE SkipSecondary(t)
    BY <2>3, <1>1 DEF SkipSecondary, Owned, ToSecondary
  <2> QED
    BY <2>1, <2>2, <2>3
<1>6. Owned'
  <2>1. SUFFICES ASSUME NEW u \in Threads, writer'[u] # Idle,
                        NEW i \in Named(writer'[u]), i \notin suspect'
                 PROVE  /\ mode' = "dual"
                        /\ \A v \in Threads \ {u} : writer'[v] # Idle => i \notin Named(writer'[v])
                        /\ QdrantGets(writer'[u], secondary'[i]) = primary'[i]
    BY DEF Owned
  <2>2. u # t /\ writer'[u] = writer[u] /\ i \in Named(writer[u]) /\ i \notin suspect
    BY <2>1, <1>1, <1>2
  <2>3. /\ mode = "dual"
        /\ \A v \in Threads \ {u} : writer[v] # Idle => i \notin Named(writer[v])
        /\ QdrantGets(writer[u], secondary[i]) = primary[i]
    BY <2>1, <2>2 DEF Owned
  <2>4. secondary'[i] = secondary[i]
    BY <2>1, <2>2, <2>3, <1>1, <1>4, <1>5
  <2> QED
    BY <2>2, <2>3, <2>4, <1>1, <1>2
<1>7. DriftIsExplained'
  <2>1. SUFFICES ASSUME NEW i \in Points, i \notin suspect', i \notin Pending(Threads)'
                 PROVE  primary'[i] = secondary'[i]
    BY DEF DriftIsExplained
  <2>2. CASE i \in Named(writer[t])
    BY <2>1, <2>2, <1>1, <1>5
  <2>3. CASE i \notin Named(writer[t])
    <3>1. i \notin Pending(Threads)
      BY <2>1, <2>3, <1>2, PendingMembers
    <3> QED
      BY <3>1, <2>1, <2>3, <1>1, <1>5 DEF DriftIsExplained
  <2> QED
    BY <2>2, <2>3
<1>8. FetchedIsFresh'
  <2>1. CASE SecondaryFails(t)
    <3>1. /\ copier'.at = copier.at /\ copier'.batch = copier.batch /\ copier'.points = copier.points
          /\ copier.at # "off" => copier'.touched = copier.touched \cup ({} \cap copier.batch)
      BY <2>1, <1>3, ToldFacts DEF SecondaryFails, MigrationTypeOK
    <3> QED
      BY <3>1, <1>1 DEF FetchedIsFresh
  <2>2. CASE WriteSecondary(t) \/ SkipSecondary(t)
    BY <2>2, <1>1 DEF WriteSecondary, SkipSecondary, FetchedIsFresh
  <2> QED
    BY <2>1, <2>2
<1> QED
  BY <1>6, <1>7, <1>8

LEMMA DriftRestart ==
    ASSUME DriftInv, NEW m \in Modes, Restart(m)
    PROVE  Owned' /\ FetchedIsFresh' /\ DriftIsExplained'
<1> USE DEF DriftInv
<1>1. /\ primary' = primary /\ secondary' = secondary /\ suspect' = suspect \cup Pending(Threads)
      /\ \A t \in Threads : writer'[t] = Idle
  BY DEF Restart, Suspect
<1>2. Owned' /\ DriftIsExplained'
  BY <1>1 DEF Owned, DriftIsExplained
<1>3. /\ copier'.at = copier.at /\ copier'.batch = copier.batch /\ copier'.points = copier.points
      /\ copier.at # "off" => copier'.touched = copier.touched \cup ({} \cap copier.batch)
  BY PendingType, ToldFacts DEF Restart, MigrationTypeOK
<1> QED
  BY <1>1, <1>2, <1>3 DEF FetchedIsFresh

LEMMA DriftCopy ==
    ASSUME DriftInv,
           CopyStarts \/ CopyResumes \/ Fetches \/ Upserts \/ CopyCrashes \/ CopyEnds
    PROVE  Owned' /\ FetchedIsFresh' /\ DriftIsExplained'
<1> USE CopierFields DEF DriftInv, MigrationTypeOK
<1>1. CASE CopyStarts \/ CopyResumes \/ CopyEnds
  <2>1. copier'.at # "fetched"
    BY <1>1 DEF CopyStarts, CopyResumes, CopyEnds, Off, CopierType
  <2> QED
    BY <1>1, <2>1 DEF CopyStarts, CopyResumes, CopyEnds, Owned, FetchedIsFresh, DriftIsExplained, Pending
<1>2. CASE Fetches
  <2>1. /\ copier'.batch = Batch
        /\ copier'.points = [i \in Points |-> IF i \in Batch THEN primary[i] ELSE Absent]
    BY <1>2 DEF Fetches, CopierType
  <2>2. Batch \subseteq Points
    BY RankType DEF Batch
  <2> QED
    BY <1>2, <2>1, <2>2 DEF Fetches, Owned, FetchedIsFresh, DriftIsExplained, Pending
<1>3. CASE Upserts
  <2>1. /\ primary' = primary /\ mode' = mode /\ writer' = writer
        /\ secondary' = [i \in Points |-> IF i \in copier.batch THEN copier.points[i] ELSE secondary[i]]
        /\ suspect' = (suspect \cup (copier.batch \ Freed)) \ Freed
        /\ copier'.at = "loop"
    <3>1. copier' = [Copied EXCEPT !.hit = (Copied.hit \cup (copier.batch \ Freed)) \ Freed]
      BY <1>3 DEF Upserts
    <3>2. copier'.at = "loop"
      BY <3>1, CopiedFacts DEF CopierType
    <3> QED
      BY <1>3, <3>2 DEF Upserts
  <2>2. \A i \in copier.batch : i \notin suspect' =>
          i \notin Pending(Threads) /\ secondary'[i] = primary[i]
    BY <1>3, <2>1 DEF Upserts, Freed, FetchedIsFresh
  <2>3. \A i \in Points \ copier.batch : secondary'[i] = secondary[i] /\ (i \in suspect => i \in suspect')
    BY <2>1 DEF Freed
  <2>4. Owned'
    <3>1. SUFFICES ASSUME NEW u \in Threads, writer[u] # Idle,
                          NEW i \in Named(writer[u]), i \notin suspect'
                   PROVE  /\ mode = "dual"
                          /\ \A v \in Threads \ {u} : writer[v] # Idle => i \notin Named(writer[v])
                          /\ QdrantGets(writer[u], secondary'[i]) = primary[i]
      BY <2>1 DEF Owned
    <3>2. i \in Pending(Threads) /\ i \in Points
      BY <3>1, PendingMembers, PendingType
    <3>3. i \notin copier.batch /\ i \notin suspect /\ secondary'[i] = secondary[i]
      BY <3>1, <3>2, <2>2, <2>3
    <3> QED
      BY <3>1, <3>3 DEF Owned
  <2>5. DriftIsExplained'
    BY <2>1, <2>2, <2>3 DEF DriftIsExplained, Pending
  <2> QED
    BY <2>1, <2>4, <2>5 DEF FetchedIsFresh
<1>4. CASE CopyCrashes
  <2>1. /\ primary' = primary /\ mode' = mode /\ writer' = writer /\ suspect \subseteq suspect'
        /\ \A i \in Points : i \in suspect' \/ secondary'[i] = secondary[i]
    BY <1>4 DEF CopyCrashes, Suspect
  <2>2. copier'.at = "crashed"
    BY <1>4 DEF CopyCrashes, CopierType
  <2>3. Owned'
    <3>1. \A u \in Threads : writer[u] # Idle => Named(writer[u]) \subseteq Points
      BY WriteFields
    <3> QED
      BY <2>1, <3>1 DEF Owned
  <2> QED
    BY <2>1, <2>2, <2>3 DEF FetchedIsFresh, DriftIsExplained, Pending
<1> QED
  BY <1>1, <1>2, <1>3, <1>4

LEMMA DriftStep == DriftInv /\ [MigrationNext]_migrationVars => DriftInv'
<1> SUFFICES ASSUME DriftInv, [MigrationNext]_migrationVars PROVE Owned' /\ FetchedIsFresh' /\ DriftIsExplained' /\ MigrationTypeOK'
  BY DEF DriftInv
<1>1. CASE UNCHANGED migrationVars
  BY <1>1 DEF migrationVars, DriftInv, Owned, FetchedIsFresh, DriftIsExplained, Pending, MigrationTypeOK
<1>2. CASE MigrationNext
  BY <1>2, WritePrimaryType, SkipPrimaryType, SecondaryType, RestartType, CopyType,
     DriftWritePrimary, DriftSkipPrimary, DriftSecondary, DriftRestart, DriftCopy
     DEF MigrationNext, DriftInv
<1> QED
  BY <1>1, <1>2

----------------------------------------------------------------------------
(* What a copy passes over *)

Copying == copier.at \in {"loop", "fetched", "crashed"}

\* The script and the cut-over exclude each other.
CopyBeforeCutOver == Copying => mode # "secondary_only"

\* While no point came or went, the script knows how many there are, a batch
\* is still the one it fetched, and a suspect point lies ahead of the script
\* unless it became suspect since it started.
SuspectsAreAhead ==
  ~copier.moved =>
    /\ copier.at \in {"loop", "fetched"} => copier.total = Cardinality(Stored)
    /\ copier.at = "fetched" => copier.batch = Batch
    /\ Copying => \A i \in suspect \cap Stored : i \in copier.hit \/ ~(Rank(i) < copier.offset)
    /\ copier.at = "done" => suspect \subseteq copier.hit

CopyInv == MigrationTypeOK /\ CopyBeforeCutOver /\ SuspectsAreAhead

LEMMA CopyInit == MigrationInit => CopyInv
BY MigrationTypeInit DEF MigrationInit, CopyInv, CopyBeforeCutOver, SuspectsAreAhead, Copying, Off

\* The list is the same list while the same points are stored.
LEMMA SameList ==
    ASSUME Stored' = Stored
    PROVE  /\ \A i : Rank(i)' = Rank(i)
           /\ copier'.offset = copier.offset => Batch' = Batch
<1>1. \A i : Rank(i)' = Rank(i)
  BY DEF Rank
<1>2. ASSUME copier'.offset = copier.offset PROVE Batch' = Batch
  <2>1. Batch' = {i \in Stored : Rank(i)' >= copier.offset /\ Rank(i)' < copier.offset + BatchSize}
    BY <1>2 DEF Batch
  <2> QED
    BY <2>1, <1>1 DEF Batch
<1> QED
  BY <1>1, <1>2

\* A step of the writers: the script is told what became suspect.
LEMMA CopyTold ==
    ASSUME CopyInv, NEW ids \in SUBSET Points, NEW named, NEW moves \in BOOLEAN,
           Told(ids, named, moves), suspect' = suspect \cup ids,
           Stored' = Stored \/ moves
    PROVE  SuspectsAreAhead'
<1>1. /\ copier'.at = copier.at /\ copier'.offset = copier.offset
      /\ copier'.total = copier.total /\ copier'.batch = copier.batch
      /\ copier.at # "off" => copier'.hit = copier.hit \cup ids
      /\ ~copier'.moved => ~copier.moved /\ (~moves \/ copier.at \in {"off", "done"})
  BY ToldFacts DEF CopyInv, MigrationTypeOK
<1>2. CASE copier.at \in {"off", "done"}
  BY <1>1, <1>2 DEF CopyInv, SuspectsAreAhead, Copying
<1>3. CASE copier.at \notin {"off", "done"}
  <2>1. SUFFICES ASSUME ~copier'.moved PROVE SuspectsAreAhead'
    BY DEF SuspectsAreAhead
  <2>2. Stored' = Stored /\ ~copier.moved
    BY <2>1, <1>1, <1>3
  <2>3. (\A i : Rank(i)' = Rank(i)) /\ Batch' = Batch
    BY <2>2, <1>1, SameList
  <2>4. /\ copier.at \in {"loop", "fetched"} => copier.total = Cardinality(Stored)
        /\ copier.at = "fetched" => copier.batch = Batch
        /\ Copying => \A i \in suspect \cap Stored : i \in copier.hit \/ ~(Rank(i) < copier.offset)
    BY <2>2 DEF CopyInv, SuspectsAreAhead
  <2> QED
    BY <2>2, <2>3, <2>4, <1>1, <1>3 DEF SuspectsAreAhead, Copying
<1> QED
  BY <1>2, <1>3

LEMMA CopyWrites ==
    ASSUME CopyInv, NEW t \in Threads, NEW w \in Writes, WritePrimary(t, w) \/ SkipPrimary(t, w)
    PROVE  SuspectsAreAhead' /\ CopyBeforeCutOver'
<1>1. CASE WritePrimary(t, w)
  <2> DEFINE moves == \E i \in Points : (primary[i] = Absent) # (primary'[i] = Absent)
  <2>1. Told(Suspicious(t, w), Named(w), moves) /\ moves \in BOOLEAN
    BY <1>1 DEF WritePrimary
  <2>2. Stored' = Stored \/ moves
    BY DEF Stored
  <2> HIDE DEF moves
  <2>3. suspect' = suspect \cup Suspicious(t, w)
    BY <1>1 DEF WritePrimary, Suspect
  <2>4. SuspectsAreAhead'
    BY <2>1, <2>2, <2>3, SuspiciousType, CopyTold
  <2>5. mode' = mode /\ copier'.at = copier.at
    BY <1>1, <2>1, SuspiciousType, ToldFacts DEF WritePrimary, CopyInv, MigrationTypeOK
  <2> QED
    BY <2>4, <2>5 DEF CopyInv, CopyBeforeCutOver, Copying
<1>2. CASE SkipPrimary(t, w)
  <2>1. Told(Suspicious(t, w), Named(w), FALSE) /\ suspect' = suspect \cup Suspicious(t, w)
    BY <1>2 DEF SkipPrimary, Suspect
  <2>2. Stored' = Stored
    BY <1>2 DEF Stored, SkipPrimary
  <2>3. SuspectsAreAhead'
    BY <2>1, <2>2, SuspiciousType, CopyTold
  <2>4. mode' = mode /\ copier'.at = copier.at
    BY <1>2, <2>1, SuspiciousType, ToldFacts DEF SkipPrimary, CopyInv, MigrationTypeOK
  <2> QED
    BY <2>3, <2>4 DEF CopyInv, CopyBeforeCutOver, Copying
<1> QED
  BY <1>1, <1>2

LEMMA CopySecondary ==
    ASSUME CopyInv, NEW t \in Threads,
           WriteSecondary(t) \/ SecondaryFails(t) \/ SkipSecondary(t)
    PROVE  SuspectsAreAhead' /\ CopyBeforeCutOver'
<1>1. CASE SecondaryFails(t)
  <2>1. Named(writer[t]) \in SUBSET Points
    BY <1>1, WriteFields DEF SecondaryFails, CopyInv, MigrationTypeOK
  <2>2. Told(Named(writer[t]), {}, FALSE) /\ suspect' = suspect \cup Named(writer[t])
    BY <1>1 DEF SecondaryFails, Suspect
  <2>3. Stored' = Stored
    BY <1>1 DEF Stored, SecondaryFails
  <2>4. SuspectsAreAhead'
    BY <2>1, <2>2, <2>3, CopyTold
  <2>5. mode' = mode /\ copier'.at = copier.at
    BY <1>1, <2>1, <2>2, ToldFacts DEF SecondaryFails, CopyInv, MigrationTypeOK
  <2> QED
    BY <2>4, <2>5 DEF CopyInv, CopyBeforeCutOver, Copying
<1>2. CASE WriteSecondary(t) \/ SkipSecondary(t)
  <2>1. copier' = copier /\ suspect' = suspect /\ mode' = mode /\ Stored' = Stored
    BY <1>2 DEF WriteSecondary, SkipSecondary, Stored
  <2>2. (\A i : Rank(i)' = Rank(i)) /\ Batch' = Batch
    BY <2>1, SameList
  <2> QED
    BY <2>1, <2>2 DEF CopyInv, CopyBeforeCutOver, SuspectsAreAhead, Copying
<1> QED
  BY <1>1, <1>2

LEMMA CopyRestart ==
    ASSUME CopyInv, NEW m \in Modes, Restart(m)
    PROVE  SuspectsAreAhead' /\ CopyBeforeCutOver'
<1>1. Pending(Threads) \in SUBSET Points
  BY PendingType DEF CopyInv
<1>2. Told(Pending(Threads), {}, FALSE) /\ suspect' = suspect \cup Pending(Threads)
  BY DEF Restart, Suspect
<1>3. Stored' = Stored
  BY DEF Stored, Restart
<1>4. SuspectsAreAhead'
  BY <1>1, <1>2, <1>3, CopyTold
<1>5. copier'.at = copier.at
  BY <1>1, <1>2, ToldFacts DEF CopyInv, MigrationTypeOK
<1> QED
  BY <1>4, <1>5 DEF Restart, CopyBeforeCutOver, Copying

\* A batch that was upserted: behind the script are only the points that were
\* there, in the batch or suspect before and named since the start.
LEMMA CopyUpserts ==
    ASSUME CopyInv, Upserts
    PROVE  SuspectsAreAhead' /\ CopyBeforeCutOver'
<1>1. copier \in CopierType /\ copier.at = "fetched" /\ copier.offset \in Nat /\ copier.hit \subseteq Points
  BY CopierFields DEF CopyInv, MigrationTypeOK, Upserts
<1>2. copier' = [Copied EXCEPT !.hit = (Copied.hit \cup (copier.batch \ Freed)) \ Freed]
  BY DEF Upserts
<1>3. /\ copier'.at = "loop" /\ copier'.offset = copier.offset + BatchSize
      /\ copier'.total = copier.total /\ copier'.moved = copier.moved
      /\ copier'.hit = (copier.hit \cup (copier.batch \ Freed)) \ Freed
  BY <1>1, <1>2, CopiedFacts DEF CopierType
<1>4. /\ mode' = mode /\ suspect' = (suspect \cup (copier.batch \ Freed)) \ Freed /\ Stored' = Stored
      /\ Freed \subseteq copier.batch
  BY DEF Upserts, Stored, Freed
<1>5. \A i : Rank(i)' = Rank(i)
  BY <1>4, SameList
<1>6. CopyBeforeCutOver'
  BY <1>1, <1>3, <1>4 DEF CopyInv, CopyBeforeCutOver, Copying
<1>7. SuspectsAreAhead'
  <2>1. SUFFICES ASSUME ~copier.moved
                 PROVE  /\ copier.total = Cardinality(Stored)
                        /\ \A i \in suspect' \cap Stored :
                              i \in copier'.hit \/ ~(Rank(i) < copier.offset + BatchSize)
    BY <1>3, <1>4, <1>5 DEF SuspectsAreAhead, Copying
  <2>2. /\ copier.total = Cardinality(Stored) /\ copier.batch = Batch
        /\ \A i \in suspect \cap Stored : i \in copier.hit \/ ~(Rank(i) < copier.offset)
    BY <2>1, <1>1 DEF CopyInv, SuspectsAreAhead, Copying
  <2>3. ASSUME NEW i \in suspect' \cap Stored, i \notin copier'.hit
        PROVE  ~(Rank(i) < copier.offset + BatchSize)
    <3>1. i \in suspect /\ i \notin copier.batch /\ i \notin copier.hit
      BY <2>3, <1>3, <1>4
    <3>2. ~(Rank(i) < copier.offset) /\ i \notin Batch
      BY <3>1, <2>2, <2>3
    <3>3. Rank(i) \in Nat
      BY RankType
    <3> QED
      BY <3>2, <3>3, <2>3, <1>1 DEF Batch
  <2> QED
    BY <2>2, <2>3
<1> QED
  BY <1>6, <1>7

LEMMA CopyCopies ==
    ASSUME CopyInv, CopyStarts \/ CopyResumes \/ Fetches \/ CopyCrashes \/ CopyEnds
    PROVE  SuspectsAreAhead' /\ CopyBeforeCutOver'
<1> USE CopierFields DEF CopyInv, MigrationTypeOK
<1>1. Stored' = Stored /\ mode' = mode
  BY DEF CopyStarts, CopyResumes, Fetches, CopyCrashes, CopyEnds, Stored
<1>2. \A i : Rank(i)' = Rank(i) /\ Rank(i) \in Nat
  BY <1>1, SameList, RankType
<1>3. CASE CopyStarts
  <2>1. copier'.at = "loop" /\ copier'.offset = 0 /\ copier'.total = Cardinality(Stored)
    BY <1>3 DEF CopyStarts, Off, CopierType
  <2> QED
    BY <1>1, <1>2, <1>3, <2>1 DEF SuspectsAreAhead, CopyBeforeCutOver, Copying, CopyStarts
<1>4. CASE CopyResumes
  <2>1. /\ copier'.at = "loop" /\ copier'.offset = copier.checkpoint /\ copier'.hit = copier.hit
        /\ copier'.total = Cardinality(Stored)
        /\ ~copier'.moved => ~copier.moved /\ copier.checkpoint = copier.offset
    BY <1>4 DEF CopyResumes, CopierType
  <2> QED
    BY <1>1, <1>2, <1>4, <2>1 DEF SuspectsAreAhead, CopyBeforeCutOver, Copying, CopyResumes
<1>5. CASE Fetches
  <2>1. /\ copier'.at = "fetched" /\ copier'.offset = copier.offset /\ copier'.hit = copier.hit
        /\ copier'.total = copier.total /\ copier'.batch = Batch /\ copier'.moved = copier.moved
        /\ copier.at = "loop" /\ suspect' = suspect
    BY <1>5 DEF Fetches, CopierType
  <2>2. Batch' = Batch
    BY <1>1, <2>1, SameList
  <2> QED
    BY <1>1, <1>2, <2>1, <2>2 DEF SuspectsAreAhead, CopyBeforeCutOver, Copying
<1>6. CASE CopyCrashes
  <2>1. /\ copier'.at = "crashed" /\ copier'.offset = copier.offset /\ copier'.hit = copier.hit
        /\ copier'.moved = copier.moved /\ copier.at \in {"loop", "fetched"}
    BY <1>6 DEF CopyCrashes, CopierType
  <2>2. suspect' = suspect \/ (copier.at = "fetched" /\ suspect' = suspect \cup copier.batch)
    BY <1>6 DEF CopyCrashes, Suspect
  <2>3. ~copier.moved /\ copier.at = "fetched" => \A i \in copier.batch : ~(Rank(i) < copier.offset)
    BY <1>2 DEF SuspectsAreAhead, Batch
  <2> QED
    BY <1>1, <1>2, <2>1, <2>2, <2>3 DEF SuspectsAreAhead, CopyBeforeCutOver, Copying
<1>7. CASE CopyEnds
  <2>1. /\ copier'.at = "done" /\ copier'.hit = copier.hit \cup (Points \ Stored)
        /\ copier'.moved = copier.moved /\ copier.at = "loop" /\ suspect' = suspect
        /\ copier.offset >= copier.total \/ Batch = {}
    BY <1>7 DEF CopyEnds, CopierType
  <2>2. ASSUME ~copier.moved, NEW i \in Stored PROVE Rank(i) < copier.offset
    <3>1. copier.total = Cardinality(Stored)
      BY <2>1, <2>2 DEF SuspectsAreAhead
    <3>2. CASE copier.offset >= copier.total
      <4>1. Rank(i) < Cardinality(Stored) /\ Rank(i) \in Nat /\ Cardinality(Stored) \in Nat
        BY RankSmall, RankType
      <4> QED
        BY <4>1, <3>1, <3>2
    <3>3. CASE Batch = {}
      BY <3>3, NothingBehind
    <3> QED
      BY <2>1, <3>2, <3>3
  <2>3. ~copier.moved => suspect \subseteq copier'.hit
    BY <2>1, <2>2 DEF SuspectsAreAhead, Copying
  <2> QED
    BY <2>1, <2>3 DEF SuspectsAreAhead, CopyBeforeCutOver, Copying
<1> QED
  BY <1>3, <1>4, <1>5, <1>6, <1>7

LEMMA CopyStep == CopyInv /\ [MigrationNext]_migrationVars => CopyInv'
<1> SUFFICES ASSUME CopyInv, [MigrationNext]_migrationVars
             PROVE  SuspectsAreAhead' /\ CopyBeforeCutOver' /\ MigrationTypeOK'
  BY DEF CopyInv
<1>1. CASE UNCHANGED migrationVars
  <2>1. Stored' = Stored /\ UNCHANGED migrationVars
    BY <1>1 DEF migrationVars, Stored
  <2>2. (\A i : Rank(i)' = Rank(i)) /\ Batch' = Batch
    BY <2>1, SameList DEF migrationVars
  <2> QED
    BY <2>1, <2>2 DEF migrationVars, CopyInv, SuspectsAreAhead, CopyBeforeCutOver, Copying, MigrationTypeOK
<1>2. CASE MigrationNext
  BY <1>2, WritePrimaryType, SkipPrimaryType, SecondaryType, RestartType, CopyType,
     CopyWrites, CopySecondary, CopyRestart, CopyUpserts, CopyCopies
     DEF MigrationNext, CopyInv
<1> QED
  BY <1>1, <1>2

\* The two stores never differ but on a point that a write or the copying is
\* known to have left in doubt, and a copy that went through while no point
\* came or went has passed over none of those that were in doubt before.
THEOREM MigrationIsSafe == MigrationSpec => []MigrationSafe
<1>1. DriftInv /\ CopyInv => MigrationSafe
  BY DEF DriftInv, CopyInv, MigrationSafe, CopyIsComplete, SuspectsAreAhead
<1> QED
  BY <1>1, DriftInit, DriftStep, CopyInit, CopyStep, PTL DEF MigrationSpec

----------------------------------------------------------------------------
(* The pair is one store to its callers *)

\* What the callers see of the pair, and where each of them is.
Seen == IF mode = "secondary_only" THEN secondary ELSE primary
Seat == [t \in Threads |-> IF writer[t] = Idle THEN "idle" ELSE IF ToPrimary THEN "applied" ELSE "called"]
Cut == mode = "secondary_only"

LEMMA ModeCases ==
    ASSUME MigrationTypeOK
    PROVE  /\ ToPrimary <=> ~Cut
           /\ Cut => ToSecondary
BY DEF MigrationTypeOK, Modes, ToPrimary, ToSecondary, Cut

LEMMA StoreInitially == MigrationInit => Store!StoreInit
BY NothingTypes DEF MigrationInit, Store!StoreInit, Contents

\* A write changes one point, or empties the store.
LEMMA OneEffect ==
    ASSUME MigrationTypeOK, NEW w \in Writes
    PROVE  /\ InPg(w) = Nothing
                \/ \E i \in Points, c \in Contents \cup {Absent} : InPg(w) = [primary EXCEPT ![i] = c]
           /\ InQdrant(w) = Nothing
                \/ \E i \in Points, c \in Contents \cup {Absent} : InQdrant(w) = [secondary EXCEPT ![i] = c]
<1>1. primary \in Stores /\ secondary \in Stores /\ {Plain, Merged, Absent} \subseteq Contents \cup {Absent}
  BY DEF MigrationTypeOK, Stores, Contents
<1>2. CASE w.kind = "reset"
  BY <1>2 DEF InPg, InQdrant
<1>3. CASE w.kind # "reset"
  <2>1. w.id \in Points
    BY <1>3, WriteFields
  <2>2. /\ primary = [primary EXCEPT ![w.id] = primary[w.id]] /\ primary[w.id] \in Contents \cup {Absent}
        /\ secondary = [secondary EXCEPT ![w.id] = secondary[w.id]] /\ secondary[w.id] \in Contents \cup {Absent}
    BY <1>1, <2>1 DEF Stores
  <2>3. \E c \in {Plain, Merged, Absent, primary[w.id]} : InPg(w) = [primary EXCEPT ![w.id] = c]
    BY <1>3, <2>2, WriteFields DEF InPg
  <2>4. \E c \in {Plain, Merged, Absent, secondary[w.id]} : InQdrant(w) = [secondary EXCEPT ![w.id] = c]
    BY <1>3, <2>2, WriteFields DEF InQdrant
  <2>5. PICK c \in {Plain, Merged, Absent, primary[w.id]} : InPg(w) = [primary EXCEPT ![w.id] = c]
    BY <2>3
  <2>6. PICK d \in {Plain, Merged, Absent, secondary[w.id]} : InQdrant(w) = [secondary EXCEPT ![w.id] = d]
    BY <2>4
  <2>7. c \in Contents \cup {Absent} /\ d \in Contents \cup {Absent}
    BY <1>1, <2>2
  <2>8. \E i \in Points, e \in Contents \cup {Absent} : InPg(w) = [primary EXCEPT ![i] = e]
    BY <2>1, <2>5, <2>7
  <2>9. \E i \in Points, e \in Contents \cup {Absent} : InQdrant(w) = [secondary EXCEPT ![i] = e]
    BY <2>1, <2>6, <2>7
  <2> QED
    BY <2>8, <2>9
<1> QED
  BY <1>2, <1>3

\* Where the callers are, as a write moves on.
LEMMA SeatMoves ==
    ASSUME MigrationTypeOK, NEW t \in Threads, mode' = mode, NEW w,
           writer' = [writer EXCEPT ![t] = w]
    PROVE  /\ Seat' = [Seat EXCEPT ![t] = IF w = Idle THEN "idle" ELSE IF ToPrimary THEN "applied" ELSE "called"]
           /\ Seat[t] = IF writer[t] = Idle THEN "idle" ELSE IF ToPrimary THEN "applied" ELSE "called"
BY DEF MigrationTypeOK, Seat, ToPrimary

LEMMA StoreStep ==
    ASSUME DriftInv, CopyInv, DriftInv', MigrationNext
    PROVE  [Store!StoreNext]_Store!storeVars
<1>1. suspect \subseteq Points /\ suspect' \subseteq Points /\ MigrationTypeOK /\ MigrationTypeOK'
  BY DEF DriftInv, MigrationTypeOK
<1>2. ASSUME NEW t \in Threads, NEW w \in Writes, WritePrimary(t, w) PROVE Store!Apply(t)
  <2>1. /\ mode # "secondary_only" /\ mode' = mode /\ ToPrimary
        /\ writer[t] = Idle /\ writer' = [writer EXCEPT ![t] = w] /\ w # Idle
    BY <1>2, WriteFields DEF WritePrimary, Begins, ToPrimary
  <2>2. Seat[t] = "idle" /\ Seat' = [Seat EXCEPT ![t] = "applied"]
    BY <1>1, <2>1, SeatMoves
  <2>3. primary' = Nothing \/ \E i \in Points, c \in Contents \cup {Absent} : primary' = [primary EXCEPT ![i] = c]
    BY <1>1, <1>2, OneEffect DEF WritePrimary
  <2> QED
    BY <2>1, <2>2, <2>3, <1>1
       DEF Store!Apply, Store!Step, Store!Effect, Store!Doubts, Store!Empty, Seat, Nothing
<1>3. ASSUME NEW t \in Threads, NEW w \in Writes, SkipPrimary(t, w) PROVE Store!Accept(t)
  <2>1. /\ mode' = mode /\ ~ToPrimary /\ primary' = primary /\ secondary' = secondary
        /\ writer[t] = Idle /\ writer' = [writer EXCEPT ![t] = w] /\ w # Idle
    BY <1>3, WriteFields DEF SkipPrimary, Begins
  <2>2. Seat[t] = "idle" /\ Seat' = [Seat EXCEPT ![t] = "called"]
    BY <1>1, <2>1, SeatMoves
  <2> QED
    BY <2>1, <2>2, <1>1 DEF Store!Accept, Store!Step, Store!Doubts, Seat
<1>4. ASSUME NEW t \in Threads, WriteSecondary(t) PROVE Store!Return(t) \/ Store!ApplyAndReturn(t)
  <2>1. /\ mode' = mode /\ primary' = primary /\ secondary' = InQdrant(writer[t])
        /\ writer[t] \in Writes /\ writer[t] # Idle /\ writer' = [writer EXCEPT ![t] = Idle]
    BY <1>1, <1>4 DEF WriteSecondary, MigrationTypeOK
  <2>2. Seat[t] = (IF ToPrimary THEN "applied" ELSE "called") /\ Seat' = [Seat EXCEPT ![t] = "idle"]
    BY <1>1, <2>1, SeatMoves
  <2>3. CASE Cut
    <3>1. secondary' = Nothing \/ \E i \in Points, c \in Contents \cup {Absent} : secondary' = [secondary EXCEPT ![i] = c]
      BY <1>1, <2>1, OneEffect
    <3>2. ~ToPrimary
      BY <1>1, <2>3, ModeCases
    <3> QED
      BY <2>1, <2>2, <2>3, <3>1, <3>2, <1>1
         DEF Store!ApplyAndReturn, Store!Step, Store!Effect, Store!Doubts, Store!Empty, Seat, Nothing, Cut
  <2>4. CASE ~Cut
    <3>1. ToPrimary
      BY <1>1, <2>4, ModeCases
    <3> QED
      BY <2>1, <2>2, <2>4, <3>1, <1>1 DEF Store!Return, Store!Step, Store!Doubts, Seat, Cut
  <2> QED
    BY <2>3, <2>4
<1>5. ASSUME NEW t \in Threads, SecondaryFails(t) \/ SkipSecondary(t) PROVE Store!Return(t)
  <2>1. /\ mode' = mode /\ primary' = primary /\ secondary' = secondary
        /\ writer[t] # Idle /\ writer' = [writer EXCEPT ![t] = Idle]
    BY <1>5 DEF SecondaryFails, SkipSecondary
  <2>2. Seat[t] = (IF ToPrimary THEN "applied" ELSE "called") /\ Seat' = [Seat EXCEPT ![t] = "idle"]
    BY <1>1, <2>1, SeatMoves
  <2>3. ToPrimary \/ Cut
    BY <1>1, ModeCases
  <2> QED
    BY <2>1, <2>2, <2>3, <1>1 DEF Store!Return, Store!Step, Store!Doubts, Seat, Cut
<1>6. ASSUME NEW m \in Modes, Restart(m) PROVE Store!Restart
  <2>1. /\ primary' = primary /\ secondary' = secondary /\ suspect' = suspect \cup Pending(Threads)
        /\ writer' = [t \in Threads |-> Idle]
    BY <1>6 DEF Restart, Suspect
  <2>2. Seat' = [t \in Threads |-> "idle"]
    BY <2>1 DEF Seat
  <2>3. \A i \in Points \ suspect' : primary[i] = secondary[i]
    BY <2>1 DEF DriftInv, DriftIsExplained
  <2>4. Seen' \in [Points -> Contents \cup {Absent}] /\ \A i \in Points \ suspect' : Seen'[i] = Seen[i]
    BY <1>1, <2>1, <2>3 DEF Seen, MigrationTypeOK
  <2> QED
    BY <2>2, <2>4, <1>1 DEF Store!Restart, Store!Doubts, Seat, Seen
<1>7. ASSUME CopyStarts \/ CopyResumes \/ Fetches \/ CopyEnds PROVE UNCHANGED Store!storeVars
  BY <1>7 DEF CopyStarts, CopyResumes, Fetches, CopyEnds, Store!storeVars, ToPrimary
<1>8. ASSUME Upserts \/ CopyCrashes PROVE Store!Doubt
  <2>1. /\ primary' = primary /\ mode' = mode /\ writer' = writer
        /\ copier.at \in {"loop", "fetched"}
    BY <1>8 DEF Upserts, CopyCrashes
  <2>2. mode # "secondary_only"
    BY <2>1 DEF CopyInv, CopyBeforeCutOver, Copying
  <2> QED
    BY <2>1, <2>2, <1>1 DEF Store!Doubt, Store!Doubts, ToPrimary
<1>9. QED
  BY <1>2, <1>3, <1>4, <1>5, <1>6, <1>7, <1>8 DEF MigrationNext, Store!StoreNext

\* To its callers the pair of stores is one store: every write takes effect
\* at one moment between its call and its return, a write is lost only after
\* the cut-over, and a restart leaves every point as it was that is not in
\* doubt, whichever store answers afterwards.
THEOREM MigrationImplementsStore == MigrationSpec => ImplementsVectorStore
<1>1. UNCHANGED migrationVars => UNCHANGED Store!storeVars
  BY DEF migrationVars, Store!storeVars, ToPrimary
<1>2. DriftInv /\ CopyInv /\ DriftInv' /\ [MigrationNext]_migrationVars => [Store!StoreNext]_Store!storeVars
  BY <1>1, StoreStep
<1> QED
  BY <1>2, StoreInitially, DriftInit, DriftStep, CopyInit, CopyStep, PTL
     DEF MigrationSpec, ImplementsVectorStore, Store!StoreSpec

----------------------------------------------------------------------------
(* Reminders *)

Ats == {"new", "context", "checking", "checked", "asked", "over"}
Turns == [at : Ats, fired : SUBSET Intentions, items : SUBSET Items]

\* The types, apart from the number of reminders in a prompt.
RemindersType ==
  /\ intention \in [Intentions -> {"none", "active", "fired", "spent", "deleted", "expired"}]
  /\ clock \subseteq Intentions
  /\ thought \in [Thoughts -> {"none", "queued", "delivered", "expired", "sent", "dropped"}]
  /\ turn \in [Requests -> Turns]
  /\ ambient \in {"idle", "gate"} \cup Thoughts
  /\ gap \in BOOLEAN /\ raised \in [Intentions -> Nat]
  /\ lost \subseteq Intentions /\ late \subseteq Intentions

\* A prompt holds what fired, but for what was lost, and thoughts.
PromptsHoldWhatFired ==
  \A r \in Requests :
    /\ turn[r].at \in {"new", "context", "checking", "checked"} => turn[r].items = {}
    /\ turn[r].at = "asked" => /\ turn[r].fired \subseteq turn[r].items \cup lost
                               /\ turn[r].items \cap Intentions \subseteq turn[r].fired
    /\ Cardinality(turn[r].items \cap Intentions) <= MaxIntentions

\* An urgent thought under way is new, and the last message is old.
UrgentIsNew == ambient \in Thoughts => thought[ambient] = "none" /\ gap

Holds(r, i) == turn[r].at \in {"checked", "asked"} /\ i \in turn[r].fired

\* An intention that no late check fired is raised by one request at most.
OneClaim ==
  \A i \in Intentions \ late :
    /\ intention[i] \in {"none", "active"} => raised[i] = 0 /\ \A r \in Requests : ~Holds(r, i)
    /\ raised[i] <= 1
    /\ \A r \in Requests : Holds(r, i) => raised[i] = 0 /\ \A q \in Requests \ {r} : ~Holds(q, i)

\* A delivered thought entered one prompt, another one none.
Readers(x) == {r \in Requests : x \in turn[r].items}
OneReader ==
  \A x \in Thoughts : IF thought[x] = "delivered" THEN \E r \in Requests : Readers(x) = {r}
                      ELSE Readers(x) = {}

RemindersInv ==
  /\ RemindersType /\ PromptsHoldWhatFired /\ UrgentIsNew /\ OneClaim
  /\ SpentIntentionsWereRaised /\ OneReader

\* A prompt has no more reminders than max_intentions.
LEMMA ChosenSmall ==
    ASSUME NEW fired \in SUBSET Intentions, NEW s \in Chosen(fired)
    PROVE  s \subseteq fired /\ Cardinality(s) <= MaxIntentions
<1>1. IsFiniteSet(fired)
  BY FS_Subset, RemindersConstants
<1>2. Cardinality(fired) \in Nat
  BY <1>1, FS_CardinalityType
<1> DEFINE two == {MaxIntentions, Cardinality(fired)}
<1>3. \E n \in two : \A m \in two : n <= m
  BY <1>2, LeastNumber, RemindersConstants
<1>4. \A m \in two : Min(two) <= m
  BY <1>3 DEF Min
<1>5. Min(two) <= MaxIntentions
  BY <1>4
<1> QED
  BY <1>5 DEF Chosen

LEMMA RemindersStart == RemindersInit => RemindersInv
<1> SUFFICES ASSUME RemindersInit PROVE RemindersInv
  OBVIOUS
<1>1. \A r \in Requests : turn[r] = NoTurn /\ turn[r].items = {} /\ turn[r].fired = {} /\ turn[r].at = "new"
  BY DEF RemindersInit, NoTurn
<1>2. NoTurn \in Turns
  BY DEF NoTurn, Turns, Ats, Items
<1>3. RemindersType
  BY <1>2 DEF RemindersType, RemindersInit
<1>4. \A x : {r \in Requests : x \in turn[r].items} = {}
  BY <1>1
<1>5. PromptsHoldWhatFired
  <2>1. \A r \in Requests : turn[r].items \cap Intentions = {}
    BY <1>1
  <2> QED
    BY <1>1, <2>1, FS_EmptySet, RemindersConstants DEF PromptsHoldWhatFired
<1>6. UrgentIsNew /\ OneClaim
  BY <1>1, RemindersConstants DEF UrgentIsNew, OneClaim, Holds, RemindersInit
<1>7. SpentIntentionsWereRaised
  BY DEF SpentIntentionsWereRaised, RemindersInit
<1>8. OneReader
  BY <1>4 DEF OneReader, Readers, RemindersInit
<1> QED
  BY <1>3, <1>5, <1>6, <1>7, <1>8 DEF RemindersInv

\* The steps of intentions, times and the ambient turn.
LEMMA OutsideSteps ==
    ASSUME RemindersInv,
           \/ \E i \in Intentions : Create(i) \/ Delete(i) \/ Expire(i) \/ TimeComes(i)
           \/ AmbientStarts \/ NothingToSay \/ GapPasses
           \/ \E x \in Thoughts : Enqueue(x) \/ SendUrgent(x) \/ UrgentDelivered(x)
                                    \/ UrgentDropped(x) \/ ThoughtExpires(x)
    PROVE  RemindersInv'
<1> USE DEF RemindersInv
<1>1. ASSUME NEW i \in Intentions, Create(i) \/ Delete(i) \/ Expire(i) \/ TimeComes(i)
      PROVE  RemindersInv'
  <2>1. /\ UNCHANGED <<thought, turn, ambient, gap, raised, lost, late>>
        /\ clock' \subseteq Intentions
        /\ intention' \in [Intentions -> {"none", "active", "fired", "spent", "deleted", "expired"}]
        /\ \A j \in Intentions : \/ intention'[j] = intention[j]
                                 \/ intention[j] = "none" /\ intention'[j] = "active"
                                 \/ intention'[j] \in {"deleted", "expired"}
    BY <1>1 DEF Create, Delete, Expire, TimeComes, RemindersType
  <2>2. RemindersType' /\ PromptsHoldWhatFired' /\ UrgentIsNew' /\ OneReader'
    BY <2>1 DEF RemindersType, PromptsHoldWhatFired, UrgentIsNew, OneReader, Readers
  <2>3. OneClaim'
    BY <2>1 DEF OneClaim, Holds
  <2>4. SpentIntentionsWereRaised'
    BY <2>1 DEF SpentIntentionsWereRaised, UnderWay
  <2> QED
    BY <2>2, <2>3, <2>4
<1>2. ASSUME AmbientStarts \/ NothingToSay \/ GapPasses
             \/ \E x \in Thoughts : Enqueue(x) \/ SendUrgent(x) \/ UrgentDelivered(x)
                                      \/ UrgentDropped(x) \/ ThoughtExpires(x)
      PROVE  RemindersInv'
  <2>1. /\ UNCHANGED <<intention, clock, turn, raised, lost, late>>
        /\ thought' \in [Thoughts -> {"none", "queued", "delivered", "expired", "sent", "dropped"}]
        /\ ambient' \in {"idle", "gate"} \cup Thoughts /\ gap' \in BOOLEAN
        /\ UrgentIsNew'
        /\ \A x \in Thoughts : (thought'[x] = "delivered") = (thought[x] = "delivered")
    BY <1>2, RemindersConstants, ZenonT(40)
       DEF AmbientStarts, NothingToSay, GapPasses, Enqueue, SendUrgent, UrgentDelivered,
           UrgentDropped, ThoughtExpires, RemindersType, UrgentIsNew
  <2>2. RemindersType' /\ PromptsHoldWhatFired' /\ OneClaim'
    BY <2>1 DEF RemindersType, PromptsHoldWhatFired, OneClaim, Holds
  <2>3. SpentIntentionsWereRaised' /\ OneReader'
    BY <2>1 DEF SpentIntentionsWereRaised, UnderWay, OneReader, Readers
  <2> QED
    BY <2>1, <2>2, <2>3
<1> QED
  BY <1>1, <1>2

\* A step of one request: where it is afterwards, and what its check fired.
TurnsTo(r, at, fired) ==
    /\ \A q \in Requests : turn'[q].items = turn[q].items
    /\ \A q \in Requests \ {r} : turn'[q] = turn[q]
    /\ turn'[r].at = at /\ turn'[r].fired = fired
    /\ turn' \in [Requests -> Turns]

LEMMA TurnsToFacts ==
    ASSUME RemindersType, NEW r \in Requests, NEW at \in Ats, NEW fired \in SUBSET Intentions
    PROVE  /\ turn' = [turn EXCEPT ![r].at = at, ![r].fired = fired] => TurnsTo(r, at, fired)
           /\ turn' = [turn EXCEPT ![r].at = at] => TurnsTo(r, at, turn[r].fired)
BY DEF RemindersType, TurnsTo, Turns

LEMMA SameItems ==
    ASSUME RemindersInv, \A q \in Requests : turn'[q].items = turn[q].items, thought' = thought
    PROVE  OneReader'
<1>1. \A x : Readers(x)' = Readers(x)
  BY DEF Readers
<1> QED
  BY <1>1 DEF RemindersInv, OneReader

LEMMA CheckSteps ==
    ASSUME RemindersInv, NEW r \in Requests, StartContext(r) \/ ReadIntentions(r) \/ MarkFails(r)
    PROVE  RemindersInv'
<1> USE DEF RemindersInv
<1>1. Firing(r) \in SUBSET Intentions /\ turn[r].fired \in SUBSET Intentions
  BY DEF Firing, RemindersType, Turns
<1>2. UNCHANGED <<intention, clock, thought, ambient, gap, raised, lost, late>>
  BY DEF StartContext, ReadIntentions, MarkFails
<1>3. PICK at \in {"context", "checking", "checked"}, f \in SUBSET Intentions :
        /\ TurnsTo(r, at, f)
        /\ at = "checked" => f = {}
        /\ turn[r].at \in {"new", "context", "checking"}
  <2>1. CASE StartContext(r)
    BY <2>1, <1>1, TurnsToFacts DEF StartContext, Ats
  <2>2. CASE ReadIntentions(r)
    BY <2>2, <1>1, TurnsToFacts DEF ReadIntentions, Ats
  <2>3. CASE MarkFails(r)
    <3>1. {} \in SUBSET Intentions /\ "checked" \in Ats
      BY DEF Ats
    <3>2. TurnsTo(r, "checked", {}) /\ turn[r].at = "checking"
      BY <2>3, <3>1, TurnsToFacts DEF MarkFails
    <3> QED
      BY <3>1, <3>2
  <2> QED
    BY <2>1, <2>2, <2>3
<1>4. RemindersType' /\ UrgentIsNew'
  BY <1>2, <1>3 DEF RemindersType, UrgentIsNew, TurnsTo
<1>5. PromptsHoldWhatFired'
  BY <1>2, <1>3 DEF PromptsHoldWhatFired, TurnsTo
<1>6. OneReader'
  BY <1>2, <1>3, SameItems DEF TurnsTo
<1>7. \A q \in Requests, i \in Intentions : Holds(q, i)' <=> Holds(q, i)
  BY <1>3 DEF Holds, TurnsTo
<1>8. OneClaim'
  BY <1>2, <1>7 DEF OneClaim
<1>9. SpentIntentionsWereRaised'
  <2>1. \A i \in Intentions : UnderWay(i)' <=> UnderWay(i)
    BY <1>7 DEF UnderWay, Holds
  <2> QED
    BY <1>2, <2>1 DEF SpentIntentionsWereRaised
<1> QED
  BY <1>4, <1>5, <1>6, <1>8, <1>9

LEMMA MarkFiredStep ==
    ASSUME RemindersInv, NEW r \in Requests, MarkFired(r)
    PROVE  RemindersInv'
<1> USE DEF RemindersInv
<1>1. turn[r].fired \in SUBSET Intentions /\ turn[r].at = "checking"
  BY DEF MarkFired, RemindersType, Turns
<1>2. /\ UNCHANGED <<clock, thought, ambient, gap, raised, lost>>
      /\ late' = late \cup {i \in turn[r].fired : intention[i] # "active"}
      /\ \A i \in Intentions :
           intention'[i] = IF i \notin turn[r].fired \/ intention[i] = "deleted" THEN intention[i]
                           ELSE IF i \in Once THEN "spent" ELSE "fired"
      /\ intention' \in [Intentions -> {"none", "active", "fired", "spent", "deleted", "expired"}]
  BY DEF MarkFired, RemindersType
<1>3. TurnsTo(r, "checked", turn[r].fired)
  BY <1>1, TurnsToFacts DEF MarkFired, Ats
<1>4. RemindersType' /\ UrgentIsNew'
  BY <1>1, <1>2, <1>3 DEF RemindersType, UrgentIsNew, TurnsTo
<1>5. PromptsHoldWhatFired'
  BY <1>1, <1>2, <1>3 DEF PromptsHoldWhatFired, TurnsTo
<1>6. OneReader'
  BY <1>2, <1>3, SameItems DEF TurnsTo
<1>7. /\ \A q \in Requests \ {r}, i \in Intentions : Holds(q, i)' <=> Holds(q, i)
      /\ \A i \in Intentions : Holds(r, i)' <=> i \in turn[r].fired
      /\ \A i \in Intentions : ~Holds(r, i)
  BY <1>1, <1>3 DEF Holds, TurnsTo
<1>8. OneClaim'
  <2>1. SUFFICES ASSUME NEW i \in Intentions, i \notin late'
                 PROVE  /\ intention'[i] \in {"none", "active"} =>
                              raised[i] = 0 /\ \A q \in Requests : ~Holds(q, i)'
                        /\ raised[i] <= 1
                        /\ \A q \in Requests : Holds(q, i)' =>
                              raised[i] = 0 /\ \A p \in Requests \ {q} : ~Holds(p, i)'
    BY <1>2 DEF OneClaim
  <2>2. i \notin late /\ (i \in turn[r].fired => intention[i] = "active")
    BY <2>1, <1>2
  <2>3. /\ intention[i] \in {"none", "active"} => raised[i] = 0 /\ \A q \in Requests : ~Holds(q, i)
        /\ raised[i] <= 1
        /\ \A q \in Requests : Holds(q, i) => raised[i] = 0 /\ \A p \in Requests \ {q} : ~Holds(p, i)
    BY <2>1, <2>2 DEF OneClaim
  <2>4. CASE i \in turn[r].fired
    BY <2>2, <2>3, <2>4, <1>2, <1>7
  <2>5. CASE i \notin turn[r].fired
    BY <2>3, <2>5, <1>2, <1>7
  <2> QED
    BY <2>4, <2>5
<1>9. SpentIntentionsWereRaised'
  <2>1. \A i \in Intentions : UnderWay(i)' <=> UnderWay(i) \/ i \in turn[r].fired
    BY <1>7 DEF UnderWay, Holds
  <2> QED
    BY <1>2, <2>1 DEF SpentIntentionsWereRaised
<1> QED
  BY <1>4, <1>5, <1>6, <1>8, <1>9

LEMMA FillPromptStep ==
    ASSUME RemindersInv, NEW r \in Requests, FillPrompt(r)
    PROVE  RemindersInv'
<1> USE DEF RemindersInv
<1>1. turn[r].fired \in SUBSET Intentions /\ turn[r].at = "checked" /\ turn[r].items = {}
  BY DEF FillPrompt, RemindersType, Turns, PromptsHoldWhatFired
<1>2. PICK s \in Chosen(turn[r].fired) :
        /\ turn' = [turn EXCEPT ![r].at = "asked", ![r].items = s \cup Queued]
        /\ lost' = lost \cup (turn[r].fired \ s)
  BY DEF FillPrompt
<1>3. s \subseteq turn[r].fired /\ Cardinality(s) <= MaxIntentions
  BY <1>1, ChosenSmall
<1>4. Queued \subseteq Thoughts /\ (s \cup Queued) \cap Intentions = s /\ s \cup Queued \in SUBSET Items
  BY <1>1, <1>3, RemindersConstants DEF Queued, Items
<1>5. /\ \A q \in Requests \ {r} : turn'[q] = turn[q]
      /\ turn'[r].at = "asked" /\ turn'[r].fired = turn[r].fired /\ turn'[r].items = s \cup Queued
      /\ turn' \in [Requests -> Turns]
  <2> DEFINE its == s \cup Queued
  <2>1. its \in SUBSET Items /\ turn' = [turn EXCEPT ![r].at = "asked", ![r].items = its]
    BY <1>2, <1>4
  <2> HIDE DEF its
  <2>2. /\ \A q \in Requests \ {r} : turn'[q] = turn[q]
        /\ turn'[r].at = "asked" /\ turn'[r].fired = turn[r].fired /\ turn'[r].items = its
        /\ turn' \in [Requests -> Turns]
    BY <2>1, ZenonT(40) DEF RemindersType, Turns, Ats
  <2> QED
    BY <2>2 DEF its
<1>6. /\ UNCHANGED <<intention, clock, ambient, gap, raised, late>>
      /\ \A x \in Thoughts : thought'[x] = IF x \in Queued THEN "delivered" ELSE thought[x]
      /\ thought' \in [Thoughts -> {"none", "queued", "delivered", "expired", "sent", "dropped"}]
  BY DEF FillPrompt, RemindersType
<1>7. RemindersType' /\ UrgentIsNew'
  BY <1>1, <1>2, <1>5, <1>6 DEF RemindersType, UrgentIsNew, Queued
<1>8. PromptsHoldWhatFired'
  BY <1>1, <1>2, <1>3, <1>4, <1>5 DEF PromptsHoldWhatFired
<1>9. OneReader'
  <2>1. SUFFICES ASSUME NEW x \in Thoughts
                 PROVE  IF thought'[x] = "delivered" THEN \E q \in Requests : Readers(x)' = {q}
                        ELSE Readers(x)' = {}
    BY DEF OneReader
  <2>2. x \in s \cup Queued <=> x \in Queued
    BY <2>1, <1>1, <1>3, RemindersConstants
  <2>3. IF thought[x] = "delivered" THEN \E q \in Requests : Readers(x) = {q} ELSE Readers(x) = {}
    BY <2>1 DEF OneReader
  <2>4. CASE x \in Queued
    <3>1. Readers(x) = {}
      BY <2>3, <2>4 DEF Queued
    <3>2. Readers(x)' = {r}
      BY <3>1, <2>2, <2>4, <1>5 DEF Readers
    <3> QED
      BY <3>2, <2>4, <1>6
  <2>5. CASE x \notin Queued
    <3>1. Readers(x)' = Readers(x)
      BY <2>2, <2>5, <1>1, <1>5 DEF Readers
    <3> QED
      BY <3>1, <2>3, <2>5, <1>6
  <2> QED
    BY <2>4, <2>5
<1>10. \A q \in Requests, i \in Intentions : Holds(q, i)' <=> Holds(q, i)
  BY <1>1, <1>5 DEF Holds
<1>11. OneClaim'
  BY <1>6, <1>10 DEF OneClaim
<1>12. SpentIntentionsWereRaised'
  <2>1. \A i \in Intentions : UnderWay(i)' <=> UnderWay(i)
    BY <1>10 DEF UnderWay, Holds
  <2> QED
    BY <1>2, <1>6, <2>1 DEF SpentIntentionsWereRaised
<1> QED
  BY <1>7, <1>8, <1>9, <1>11, <1>12

\* The end of a request, with an answer or without.
LEMMA EndSteps ==
    ASSUME RemindersInv, NEW r \in Requests, Answer(r) \/ Fail(r)
    PROVE  RemindersInv'
<1> USE DEF RemindersInv
<1>1. /\ UNCHANGED <<intention, clock, thought, ambient, gap, late>>
      /\ turn[r].at \in {"context", "checked", "asked"}
      /\ turn[r].fired \in SUBSET Intentions
  BY DEF Answer, Fail, RemindersType, Turns
<1>2. TurnsTo(r, "over", {})
  <2>1. {} \in SUBSET Intentions /\ "over" \in Ats
    BY DEF Ats
  <2> QED
    BY <2>1, TurnsToFacts DEF Answer, Fail, Over
<1>3. /\ lost \subseteq lost' /\ lost' \subseteq Intentions
      /\ raised' \in [Intentions -> Nat] /\ \A i \in Intentions : raised[i] > 0 => raised'[i] > 0
      /\ \A i \in Intentions : \/ raised'[i] = raised[i]
                               \/ raised'[i] = raised[i] + 1 /\ Holds(r, i)
      /\ \A i \in Intentions : Holds(r, i) => raised'[i] > 0 \/ i \in lost'
  <2>1. CASE Answer(r)
    <3>1. /\ turn[r].at = "asked" /\ lost' = lost
          /\ raised' = [i \in Intentions |-> IF i \in turn[r].items THEN raised[i] + 1 ELSE raised[i]]
      BY <2>1 DEF Answer
    <3>2. /\ turn[r].fired \subseteq turn[r].items \cup lost
          /\ turn[r].items \cap Intentions \subseteq turn[r].fired
      BY <3>1 DEF PromptsHoldWhatFired
    <3>3. raised \in [Intentions -> Nat] /\ lost \subseteq Intentions
      BY DEF RemindersType
    <3>4. \A i \in Intentions : i \in turn[r].items => Holds(r, i)
      BY <3>1, <3>2 DEF Holds
    <3>5. \A i \in Intentions : Holds(r, i) => i \in turn[r].items \/ i \in lost
      BY <3>2 DEF Holds
    <3> QED
      BY <3>1, <3>3, <3>4, <3>5
  <2>2. CASE Fail(r)
    BY <2>2, <1>1 DEF Fail, Holds, RemindersType
  <2> QED
    BY <2>1, <2>2
<1>4. RemindersType' /\ UrgentIsNew'
  BY <1>1, <1>2, <1>3 DEF RemindersType, UrgentIsNew, TurnsTo
<1>5. PromptsHoldWhatFired'
  BY <1>2, <1>3 DEF PromptsHoldWhatFired, TurnsTo
<1>6. OneReader'
  BY <1>1, <1>2, SameItems DEF TurnsTo
<1>7. /\ \A q \in Requests \ {r}, i \in Intentions : Holds(q, i)' <=> Holds(q, i)
      /\ \A i \in Intentions : ~Holds(r, i)'
  BY <1>2 DEF Holds, TurnsTo
<1>8. OneClaim'
  <2>1. SUFFICES ASSUME NEW i \in Intentions, i \notin late
                 PROVE  /\ intention[i] \in {"none", "active"} =>
                              raised'[i] = 0 /\ \A q \in Requests : ~Holds(q, i)'
                        /\ raised'[i] <= 1
                        /\ \A q \in Requests : Holds(q, i)' =>
                              raised'[i] = 0 /\ \A p \in Requests \ {q} : ~Holds(p, i)'
    BY <1>1 DEF OneClaim
  <2>2. /\ intention[i] \in {"none", "active"} => raised[i] = 0 /\ \A q \in Requests : ~Holds(q, i)
        /\ raised[i] <= 1
        /\ \A q \in Requests : Holds(q, i) => raised[i] = 0 /\ \A p \in Requests \ {q} : ~Holds(p, i)
    BY <2>1 DEF OneClaim
  <2>3. CASE raised'[i] = raised[i]
    BY <2>2, <2>3, <1>7
  <2>4. CASE raised'[i] = raised[i] + 1 /\ Holds(r, i)
    BY <2>2, <2>4, <1>7
  <2> QED
    BY <2>3, <2>4, <1>3
<1>9. SpentIntentionsWereRaised'
  <2>1. SUFFICES ASSUME NEW i \in Intentions, intention[i] \in {"fired", "spent"}
                 PROVE  raised'[i] > 0 \/ UnderWay(i)' \/ i \in lost'
    BY <1>1 DEF SpentIntentionsWereRaised
  <2>2. CASE raised[i] > 0 \/ i \in lost
    BY <2>2, <1>3
  <2>3. CASE UnderWay(i)
    <3>1. PICK q \in Requests : Holds(q, i)
      BY <2>3 DEF UnderWay, Holds
    <3>2. CASE q = r
      BY <3>1, <3>2, <1>3
    <3>3. CASE q # r
      BY <3>1, <3>3, <1>7 DEF UnderWay, Holds
    <3> QED
      BY <3>2, <3>3
  <2> QED
    BY <2>1, <2>2, <2>3 DEF SpentIntentionsWereRaised
<1> QED
  BY <1>4, <1>5, <1>6, <1>8, <1>9

LEMMA RemindersStep == RemindersInv /\ [RemindersNext]_reminderVars => RemindersInv'
<1> SUFFICES ASSUME RemindersInv, [RemindersNext]_reminderVars PROVE RemindersInv'
  OBVIOUS
<1>1. CASE UNCHANGED reminderVars
  <2> USE <1>1 DEF reminderVars, RemindersInv
  <2>1. RemindersType' /\ PromptsHoldWhatFired' /\ UrgentIsNew'
    BY DEF RemindersType, PromptsHoldWhatFired, UrgentIsNew
  <2>2. OneClaim' /\ SpentIntentionsWereRaised'
    BY DEF OneClaim, Holds, SpentIntentionsWereRaised, UnderWay
  <2>3. OneReader'
    BY DEF OneReader, Readers
  <2> QED
    BY <2>1, <2>2, <2>3
<1>2. ASSUME NEW r \in Requests,
             \/ StartContext(r) \/ ReadIntentions(r) \/ MarkFired(r) \/ MarkFails(r)
             \/ FillPrompt(r) \/ Answer(r) \/ Fail(r)
      PROVE  RemindersInv'
  BY <1>2, CheckSteps, MarkFiredStep, FillPromptStep, EndSteps
<1> QED
  BY <1>1, <1>2, OutsideSteps DEF RemindersNext

\* What is due is raised: an intention that fired was raised, is about to be
\* or was consumed by a request that failed or had too many; nothing is raised
\* twice but by overlapping checks; a thought is in one prompt; and urgent
\* messages keep their distance.
THEOREM RemindersAreSafe == RemindersSpec => RemindersSafe
<1>1. RemindersInv => SpentIntentionsWereRaised /\ ThoughtsDeliveredOnce /\ RaisedOnce
  <2> SUFFICES ASSUME RemindersInv PROVE ThoughtsDeliveredOnce /\ RaisedOnce
    BY DEF RemindersInv
  <2>1. ASSUME NEW x \in Thoughts
        PROVE  Cardinality(Readers(x)) = (IF thought[x] = "delivered" THEN 1 ELSE 0)
    <3>1. IF thought[x] = "delivered" THEN \E r \in Requests : Readers(x) = {r} ELSE Readers(x) = {}
      BY <2>1 DEF RemindersInv, OneReader
    <3> QED
      BY <3>1, FS_Singleton, FS_EmptySet
  <2>2. ThoughtsDeliveredOnce
    BY <2>1 DEF ThoughtsDeliveredOnce, Readers
  <2>3. RaisedOnce
    BY DEF RaisedOnce, RemindersInv, OneClaim, RemindersType
  <2> QED
    BY <2>2, <2>3
<1>2. RemindersInv /\ [RemindersNext]_reminderVars =>
        [\A x \in Thoughts : thought'[x] = "sent" /\ thought[x] # "sent" => gap]_reminderVars
  <2> SUFFICES ASSUME RemindersInv, RemindersNext,
                      NEW x \in Thoughts, thought'[x] = "sent", thought[x] # "sent"
               PROVE  gap
    OBVIOUS
  <2>1. UrgentDelivered(x)
    BY DEF RemindersNext, Create, Delete, Expire, TimeComes, StartContext, ReadIntentions, MarkFired,
           MarkFails, FillPrompt, Answer, Fail, AmbientStarts, NothingToSay, GapPasses, Enqueue,
           SendUrgent, UrgentDelivered, UrgentDropped, ThoughtExpires, RemindersInv, RemindersType
  <2> QED
    BY <2>1 DEF UrgentDelivered, RemindersInv, UrgentIsNew
<1> QED
  BY <1>1, <1>2, RemindersStart, RemindersStep, PTL DEF RemindersSpec, RemindersSafe, UrgentKeepsDistance

\* No prompt holds more than max_intentions reminders.
THEOREM RemindersTypeCorrect == RemindersSpec => []RemindersTypeOK
<1>1. RemindersInv => RemindersTypeOK
  BY DEF RemindersInv, RemindersType, PromptsHoldWhatFired, RemindersTypeOK, Turns, Ats
<1> QED
  BY <1>1, RemindersStart, RemindersStep, PTL DEF RemindersSpec

----------------------------------------------------------------------------
(* The email monitor *)


LEMMA MailTypes ==
    /\ Len(Mail) \in Nat /\ Messages = 1 .. Len(Mail)
    /\ Len(Rules) \in Nat /\ DOMAIN Rules = 1 .. Len(Rules)
    /\ \A k \in DOMAIN Rules : Rules[k].priority \in Int
BY EmailConstants DEF Messages

\* One of the rules that match precedes the others.
LEMMA FirstRule ==
    ASSUME NEW T \in SUBSET DOMAIN Rules, T # {}
    PROVE  \E k \in T : \A l \in T \ {k} : Precedes(k, l)
<1> DEFINE Upto(j) == T \cap (1 .. j)
           HasFirst(S) == \E k \in S : \A l \in S \ {k} : Precedes(k, l)
           Bad == {j \in 0 .. Len(Rules) : Upto(j) # {} /\ ~HasFirst(Upto(j))}
<1>1. SUFFICES Bad = {}
  <2>1. Upto(Len(Rules)) = T /\ Len(Rules) \in 0 .. Len(Rules)
    BY MailTypes
  <2>2. HasFirst(T)
    BY <1>1, <2>1
  <2> QED
    BY <2>2
<1>2. SUFFICES ASSUME Bad # {} PROVE FALSE
  OBVIOUS
<1>3. Bad \in SUBSET Nat
  OBVIOUS
<1>4. PICK j \in Bad : \A i \in Bad : j <= i
  <2> HIDE DEF Bad
  <2> QED
    BY <1>2, <1>3, LeastNumber
<1>5. j \in 1 .. Len(Rules) /\ Upto(j) # {} /\ ~HasFirst(Upto(j))
  <2>1. j \in 0 .. Len(Rules) /\ Upto(j) # {} /\ ~HasFirst(Upto(j))
    BY <1>4
  <2>2. Upto(0) = {}
    OBVIOUS
  <2> QED
    BY <2>1, <2>2, MailTypes
<1>6. j - 1 \notin Bad /\ j - 1 \in 0 .. Len(Rules)
  <2>1. j - 1 \in 0 .. Len(Rules) /\ ~(j <= j - 1)
    <3>1. \A n \in Nat : \A i \in 1 .. n : i - 1 \in 0 .. n /\ ~(i <= i - 1)
      OBVIOUS
    <3>2. Len(Rules) \in Nat /\ j \in 1 .. Len(Rules)
      BY <1>5, MailTypes
    <3> HIDE DEF Bad
    <3> QED
      BY <3>1, <3>2
  <2>2. j - 1 \notin Bad
    <3> HIDE DEF Bad
    <3> QED
      BY <2>1, <1>4
  <2> QED
    BY <2>1, <2>2
<1>7. Upto(j) = IF j \in T THEN Upto(j - 1) \cup {j} ELSE Upto(j - 1)
  <2>1. 1 .. j = (1 .. j - 1) \cup {j}
    <3>1. \A i \in Nat : i >= 1 => 1 .. i = (1 .. i - 1) \cup {i}
      BY SMTT(30)
    <3>2. j \in Nat /\ j >= 1
      BY <1>5, MailTypes
    <3> QED
      BY <3>1, <3>2, Zenon
  <2> QED
    BY <2>1
<1>8. j \in T
  BY <1>5, <1>6, <1>7
<1>9. \A k \in T : k \in Nat /\ Rules[k].priority \in Int
  BY MailTypes
<1>10. CASE Upto(j - 1) = {}
  <2>1. Upto(j) = {j}
    BY <1>7, <1>8, <1>10
  <2> QED
    BY <2>1, <1>5
<1>11. CASE HasFirst(Upto(j - 1))
  <2>1. PICK k \in Upto(j - 1) : \A l \in Upto(j - 1) \ {k} : Precedes(k, l)
    BY <1>11
  <2>2. k \in T /\ k < j /\ j \in Nat
    BY <1>5, <1>8, MailTypes
  <2>3. CASE Rules[j].priority > Rules[k].priority
    <3>1. ASSUME NEW l \in Upto(j - 1) PROVE Rules[k].priority >= Rules[l].priority
      <4>1. l \in T /\ (l = k \/ Precedes(k, l))
        BY <2>1
      <4>2. Rules[k].priority \in Int /\ Rules[l].priority \in Int
        BY <4>1, <2>2, <1>9
      <4>3. \A a, b \in Int : a = b \/ a > b => a >= b
        OBVIOUS
      <4>4. Rules[k].priority = Rules[l].priority \/ Rules[k].priority > Rules[l].priority
        BY <4>1 DEF Precedes
      <4> QED
        BY <4>2, <4>3, <4>4, Zenon
    <3>2. ASSUME NEW l \in Upto(j) \ {j} PROVE Precedes(j, l)
      <4>1. l \in Upto(j - 1) /\ l \in T
        BY <1>7, <1>8
      <4>2. /\ Rules[k].priority \in Int /\ Rules[l].priority \in Int
            /\ Rules[j].priority \in Int
        BY <4>1, <2>2, <1>8, <1>9
      <4>3. Rules[k].priority >= Rules[l].priority
        BY <4>1, <3>1
      <4>4. Rules[j].priority > Rules[l].priority
        <5>1. \A a, b, c \in Int : a >= b /\ c > a => c > b
          OBVIOUS
        <5> QED
          BY <5>1, <4>2, <4>3, <2>3, Zenon
      <4> QED
        BY <4>4 DEF Precedes
    <3>3. j \in Upto(j)
      BY <1>7, <1>8
    <3> QED
      BY <3>2, <3>3, <1>5
  <2>4. CASE ~(Rules[j].priority > Rules[k].priority)
    <3>1. Precedes(k, j)
      <4>1. Rules[k].priority \in Int /\ Rules[j].priority \in Int
        BY <2>2, <1>8, <1>9
      <4>2. Rules[k].priority > Rules[j].priority \/ Rules[k].priority = Rules[j].priority
        BY <4>1, <2>4, SMTT(30)
      <4> QED
        BY <4>2, <2>2 DEF Precedes
    <3>2. \A l \in Upto(j) \ {k} : Precedes(k, l)
      BY <3>1, <2>1, <1>7, <1>8
    <3>3. k \in Upto(j)
      BY <1>7, <1>8
    <3> QED
      BY <3>2, <3>3, <1>5
  <2> QED
    BY <2>3, <2>4
<1> QED
  BY <1>6, <1>10, <1>11

\* The rules find what is relevant, and nothing else.
LEMMA EvaluatesRelevant ==
    ASSUME NEW m
    PROVE  Evaluate(m) # {} <=> Relevant(m)
<1> DEFINE matching == {k \in DOMAIN Rules : RuleMatches(Rules[k], m)}
<1>1. matching # {} <=> Relevant(m)
  BY DEF RuleMatches, Relevant
<1>2. matching # {} => Evaluate(m) # {}
  <2>1. matching \in SUBSET DOMAIN Rules
    OBVIOUS
  <2>2. SUFFICES ASSUME matching # {} PROVE Evaluate(m) # {}
    OBVIOUS
  <2>3. PICK k \in matching : \A l \in matching \ {k} : Precedes(k, l)
    <3> HIDE DEF matching
    <3> QED
      BY <2>1, <2>2, FirstRule
  <2>4. Rules[k] \in Evaluate(m)
    BY <2>3 DEF Evaluate
  <2> QED
    BY <2>4
<1>3. Evaluate(m) # {} => matching # {}
  BY DEF Evaluate
<1> QED
  BY <1>1, <1>2, <1>3

\* The newest of a set of messages.
LEMMA NewestOf ==
    ASSUME EmailTypeOK, NEW S \in SUBSET (1 .. arrived), S # {}
    PROVE  Max(S) \in S /\ \A m \in S : m <= Max(S)
<1>1. arrived \in Nat
  BY MailTypes DEF EmailTypeOK
<1>2. \E n \in S : \A m \in S : m <= n
  BY <1>1, GreatestNumber
<1>3. \E n \in S : \A m \in S : n >= m
  BY <1>2, <1>1
<1>4. Max(S) \in S /\ \A m \in S : Max(S) >= m
  BY <1>3 DEF Max
<1> QED
  BY <1>4, <1>1

LEMMA CurrentInBatch ==
    ASSUME EmailTypeOK, check.batch # {}
    PROVE  Current \in check.batch /\ Current \in 1 .. arrived /\ Current \in Messages
<1>1. check.batch \in SUBSET (1 .. arrived) /\ arrived \in Nat /\ arrived <= Len(Mail)
  BY MailTypes DEF EmailTypeOK
<1>2. Current \in check.batch
  BY <1>1, NewestOf DEF Current
<1> QED
  BY <1>1, <1>2, MailTypes

\* A message that was alerted or has an excuse.
Handled(m) == sent[m] > 0 \/ \E why \in Excuses : <<m, why>> \in excused

\* A relevant message up to the newest one that was fetched was fetched, too,
\* and is still to be processed, or it is handled.
BatchIsDueOrHandled ==
    check.at \in {"processing", "sending"} =>
        \A m \in 1 .. check.newest : Relevant(m) => m \in check.batch \/ Handled(m)

\* What was delivered is recorded, or known as not recorded; and what is being
\* sent is neither.
DeliveredIsKnown ==
    \A m \in Messages :
        /\ sent[m] > 0 => m \in recorded \cup repeated
        /\ m \in recorded => sent[m] > 0
SendingIsNew == check.at = "sending" => Current \notin recorded /\ Relevant(Current)

\* The mark is that of a message that arrived. While there is none, what was
\* read is of the batch that is being processed, or it is handled: the next
\* check does not find it.
InHand(m) == check.at \in {"processing", "sending"} /\ m \in check.batch
MarkedIsKnown ==
    /\ account.seen <= arrived
    /\ account.seen = 0 => \A m \in marked : Relevant(m) => InHand(m) \/ Handled(m)

MailInv ==
    /\ EmailTypeOK /\ MailSafe
    /\ BatchIsDueOrHandled /\ DeliveredIsKnown /\ SendingIsNew /\ MarkedIsKnown

LEMMA MailStart == EmailInit => MailInv
<1> SUFFICES ASSUME EmailInit PROVE MailInv
  OBVIOUS
<1>1. EmailTypeOK
  <2>1. /\ arrived = 0 /\ Len(Mail) \in Nat /\ MaxFaults \in Nat
        /\ check = [at |-> "none", batch |-> {}, newest |-> 0]
    BY MailTypes, EmailConstants DEF EmailInit, NoCheck
  <2>2. 0 \in 0 .. arrived /\ 0 \in 0 .. Len(Mail) /\ 0 \in 0 .. MaxFaults
    BY <2>1
  <2>3. check \in [at : {"none", "fetching", "processing", "sending"},
                   batch : SUBSET (1 .. arrived), newest : 0 .. arrived]
    BY <2>1, <2>2
  <2>4. account \in [seen : 0 .. Len(Mail), status : {"active", "error"}, errors : Nat]
    BY <2>2 DEF EmailInit
  <2>5. /\ arrived \in 0 .. Len(Mail) /\ fails \in Nat /\ faults \in 0 .. MaxFaults
        /\ {quiet, due} \subseteq BOOLEAN
    BY <2>1, <2>2 DEF EmailInit
  <2>6. /\ recorded \subseteq Messages /\ repeated \subseteq Messages
        /\ excused \subseteq Messages \X Excuses /\ sent \in [Messages -> Nat]
    BY DEF EmailInit
  <2>7. /\ check.at \in {"processing", "sending"} => check.newest > 0
        /\ check.at = "sending" => check.batch # {}
    BY <2>1
  <2>8. marked \subseteq 1 .. arrived
    BY DEF EmailInit
  <2> QED
    BY <2>3, <2>4, <2>5, <2>6, <2>7, <2>8, Zenon DEF EmailTypeOK
<1>2. SeenIsAlerted
  BY DEF EmailInit, SeenIsAlerted
<1>3. AlertedOnce /\ DeliveredIsKnown
  BY DEF EmailInit, AlertedOnce, DeliveredIsKnown
<1>4. ErrorsCountTwice
  BY EmailConstants DEF EmailInit, ErrorsCountTwice
<1>5. BatchIsDueOrHandled /\ SendingIsNew /\ MarkedIsKnown
  BY DEF EmailInit, BatchIsDueOrHandled, SendingIsNew, NoCheck, MarkedIsKnown
<1> QED
  BY <1>1, <1>2, <1>3, <1>4, <1>5 DEF MailInv, MailSafe

\* What is wanted has arrived; the rest up to the newest of it was seen, or was
\* read before there was a last-seen mark.
LEMMA WantedFacts ==
    ASSUME EmailTypeOK, account.seen <= arrived
    PROVE  /\ Wanted \in SUBSET (1 .. arrived)
           /\ \A w \in Wanted : \A m \in 1 .. w :
                \/ m \in Wanted \/ m \in 1 .. account.seen
                \/ account.seen = 0 /\ m \in marked
<1>1. arrived \in Nat /\ account.seen \in Nat
  BY MailTypes DEF EmailTypeOK
<1>2. CASE account.seen = 0
  <2>1. Wanted = (1 .. arrived) \ marked
    BY <1>2 DEF Wanted
  <2> QED
    BY <2>1, <1>1, <1>2
<1>3. CASE account.seen # 0 /\ account.seen < arrived
  <2>1. Wanted = account.seen + 1 .. arrived
    BY <1>3 DEF Wanted
  <2> QED
    BY <2>1, <1>1
<1>4. CASE account.seen # 0 /\ ~(account.seen < arrived)
  <2>1. Wanted = {arrived}
    BY <1>4 DEF Wanted
  <2>2. arrived \in 1 .. arrived
    <3>1. arrived > 0
      BY <1>1, <1>4
    <3> QED
      BY <3>1, <1>1
  <2> QED
    BY <2>1, <2>2, <1>1, <1>4
<1> QED
  BY <1>2, <1>3, <1>4

\* One error more; the status says whether the limit is reached.
LEMMA OneErrorMore ==
    ASSUME NEW seen, NEW acc \in [seen : {seen}, status : {"active", "error"}, errors : Nat]
    PROVE  /\ CountError(acc) \in [seen : {seen}, status : {"active", "error"}, errors : Nat]
           /\ CountError(acc).errors = acc.errors + 1
           /\ CountError(acc).status = IF acc.errors + 1 >= ErrorLimit THEN "error" ELSE acc.status
<1> DEFINE s == IF acc.errors + 1 >= ErrorLimit THEN "error" ELSE acc.status
<1>1. s \in {"active", "error"} /\ acc.errors \in Nat
  OBVIOUS
<1>2. CountError(acc) = [seen |-> acc.seen, status |-> s, errors |-> acc.errors + 1]
  BY DEF CountError
<1> HIDE DEF s
<1>3. CountError(acc) \in [seen : {seen}, status : {"active", "error"}, errors : Nat]
  BY <1>1, <1>2
<1>4. CountError(acc).errors = acc.errors + 1 /\ CountError(acc).status = s
  BY <1>2
<1> QED
  BY <1>3, <1>4 DEF s

\* The error count goes up by two, and the status with it.
LEMMA ErrorCounted ==
    ASSUME MailInv, CheckFails
    PROVE  /\ account' \in [seen : {account.seen}, status : {"active", "error"}, errors : Nat]
           /\ fails' = fails + 1 /\ fails' \in Nat /\ ErrorsCountTwice'
           /\ check' = NoCheck /\ due' = FALSE /\ faults' \in 0 .. MaxFaults
<1>1. /\ account \in [seen : 0 .. Len(Mail), status : {"active", "error"}, errors : Nat]
      /\ fails \in Nat /\ faults \in 0 .. MaxFaults /\ MaxFaults \in Nat
      /\ ErrorLimit \in Nat
      /\ account.errors = 2 * fails
      /\ (account.status = "error") = (2 * fails >= ErrorLimit)
  BY EmailConstants DEF MailInv, MailSafe, EmailTypeOK, ErrorsCountTwice
<1> DEFINE one == CountError(account)
           Accounts == [seen : {account.seen}, status : {"active", "error"}, errors : Nat]
<1>2. account \in Accounts
  BY <1>1
<1>3. /\ one \in Accounts /\ one.errors = 2 * fails + 1
      /\ one.status = IF 2 * fails + 1 >= ErrorLimit THEN "error" ELSE account.status
  <2>1. /\ one \in Accounts /\ one.errors = account.errors + 1
        /\ one.status = IF account.errors + 1 >= ErrorLimit THEN "error" ELSE account.status
    BY <1>2, OneErrorMore
  <2> QED
    BY <2>1, <1>1
<1>4. /\ account' \in Accounts /\ account'.errors = 2 * fails + 2
      /\ account'.status = IF 2 * fails + 2 >= ErrorLimit THEN "error" ELSE one.status
  <2>1. account' = CountError(one)
    BY DEF CheckFails
  <2> HIDE DEF one
  <2>2. /\ CountError(one) \in Accounts /\ CountError(one).errors = one.errors + 1
        /\ CountError(one).status = IF one.errors + 1 >= ErrorLimit THEN "error" ELSE one.status
    BY <1>3, OneErrorMore
  <2>3. one.errors + 1 = 2 * fails + 2
    BY <1>3, <1>1
  <2> QED
    BY <2>1, <2>2, <2>3
<1>5. fails' = fails + 1 /\ faults' \in 0 .. MaxFaults /\ check' = NoCheck /\ due' = FALSE
  BY <1>1 DEF CheckFails, Fault
<1>6. account'.errors = 2 * fails'
  BY <1>4, <1>5, <1>1
<1>7. (account'.status = "error") = (2 * fails' >= ErrorLimit)
  <2>1. account'.status = IF 2 * fails + 2 >= ErrorLimit THEN "error" ELSE account.status
    BY <1>4, <1>3, <1>1
  <2>2. 2 * fails' = 2 * fails + 2
    BY <1>5, <1>1
  <2>3. account.status = "error" => 2 * fails + 2 >= ErrorLimit
    BY <1>1
  <2> QED
    BY <2>1, <2>2, <2>3
<1> QED
  BY <1>1, <1>4, <1>5, <1>6, <1>7 DEF ErrorsCountTwice

\* What is handled stays handled, and what was seen with it.
LEMMA HandledStays ==
    ASSUME MailInv, excused \subseteq excused',
           \A m \in Messages : sent[m] > 0 => sent'[m] > 0
    PROVE  /\ \A m \in Messages : Handled(m) => Handled(m)'
           /\ account'.seen = account.seen => SeenIsAlerted'
<1>1. \A m \in Messages : Handled(m) => Handled(m)'
  BY DEF Handled
<1>2. ASSUME account'.seen = account.seen PROVE SeenIsAlerted'
  <2>1. SUFFICES ASSUME NEW m \in 1 .. account.seen, Relevant(m) PROVE Handled(m)'
    BY <1>2 DEF SeenIsAlerted, Handled, Relevant
  <2>2. m \in Messages
    BY MailTypes DEF MailInv, EmailTypeOK
  <2>3. Handled(m)
    BY <2>1 DEF MailInv, MailSafe, SeenIsAlerted, Handled
  <2> QED
    BY <1>1, <2>2, <2>3
<1> QED
  BY <1>1, <1>2

\* An alert goes out for the message that is being sent, and it is recorded, or
\* known not to be.
LEMMA OneMoreSent ==
    ASSUME MailInv, check.at = "sending",
           sent' = [sent EXCEPT ![Current] = @ + 1],
           \/ recorded' = recorded \cup {Current} /\ repeated' = repeated
           \/ recorded' = recorded /\ repeated' = repeated \cup {Current}
    PROVE  /\ sent' \in [Messages -> Nat]
           /\ recorded' \subseteq Messages /\ repeated' \subseteq Messages
           /\ \A m \in Messages : sent[m] > 0 => sent'[m] > 0
           /\ sent'[Current] > 0
           /\ AlertedOnce' /\ DeliveredIsKnown'
<1>1. /\ EmailTypeOK /\ check.batch # {} /\ sent \in [Messages -> Nat]
      /\ recorded \subseteq Messages /\ repeated \subseteq Messages
  BY DEF MailInv, EmailTypeOK
<1> DEFINE c == Current
<1>2. c \in Messages /\ c \notin recorded /\ Relevant(c)
  BY <1>1, CurrentInBatch DEF MailInv, SendingIsNew
<1>3. \A m \in Messages :
          /\ sent[m] > 1 => m \in repeated
          /\ sent[m] > 0 => Relevant(m)
          /\ sent[m] > 0 => m \in recorded \cup repeated
          /\ m \in recorded => sent[m] > 0
  <2>1. AlertedOnce /\ DeliveredIsKnown
    BY DEF MailInv, MailSafe
  <2>2. \A m \in Messages : (sent[m] > 1 => m \in repeated) /\ (sent[m] > 0 => Relevant(m))
    BY <2>1, Zenon DEF AlertedOnce
  <2>3. \A m \in Messages :
            (sent[m] > 0 => m \in recorded \cup repeated) /\ (m \in recorded => sent[m] > 0)
    BY <2>1 DEF DeliveredIsKnown
  <2> QED
    BY <2>2, <2>3, Zenon
<1>4. /\ sent' = [sent EXCEPT ![c] = @ + 1]
      /\ \/ recorded' = recorded \cup {c} /\ repeated' = repeated
         \/ recorded' = recorded /\ repeated' = repeated \cup {c}
  OBVIOUS
<1> HIDE DEF c
<1>5. /\ sent' \in [Messages -> Nat] /\ sent'[c] = sent[c] + 1 /\ sent[c] \in Nat
      /\ \A m \in Messages \ {c} : sent'[m] = sent[m] /\ sent[m] \in Nat
  BY <1>1, <1>2, <1>4
<1>6. \A m \in Messages : sent[m] > 0 => sent'[m] > 0
  BY <1>5
<1>7. ASSUME NEW m \in Messages
      PROVE  /\ sent'[m] > 1 => m \in repeated'
             /\ sent'[m] > 0 => Relevant(m)
             /\ sent'[m] > 0 => m \in recorded' \cup repeated'
             /\ m \in recorded' => sent'[m] > 0
  <2>1. CASE m = c
    <3>1. sent[c] = 0 \/ c \in repeated
      BY <1>2, <1>3, <1>5
    <3> QED
      BY <2>1, <3>1, <1>2, <1>4, <1>5
  <2>2. CASE m # c
    BY <2>2, <1>3, <1>4, <1>5
  <2> QED
    BY <2>1, <2>2
<1>8. AlertedOnce'
  BY <1>7 DEF AlertedOnce, Relevant
<1>9. DeliveredIsKnown'
  BY <1>7 DEF DeliveredIsKnown
<1>10. recorded' \subseteq Messages /\ repeated' \subseteq Messages /\ sent'[c] > 0
  BY <1>1, <1>2, <1>4, <1>5
<1> QED
  BY <1>5, <1>6, <1>8, <1>9, <1>10 DEF c

\* The message of the batch is done with: it had an alert, has one, or has an
\* excuse, or is not relevant.
LEMMA BatchGoesOn ==
    ASSUME MailInv, check.at \in {"processing", "sending"}, check.batch # {},
           check' = Passed(check), arrived' = arrived,
           \A m \in Messages : Handled(m) => Handled(m)',
           \A m \in Messages : m = Current /\ Relevant(m) => Handled(m)'
    PROVE  /\ check' \in [at : {"none", "fetching", "processing", "sending"},
                          batch : SUBSET (1 .. arrived'), newest : 0 .. arrived']
           /\ check'.at = "processing" /\ check'.newest > 0
           /\ BatchIsDueOrHandled' /\ SendingIsNew'
<1>1. /\ check \in [at : {"none", "fetching", "processing", "sending"},
                    batch : SUBSET (1 .. arrived), newest : 0 .. arrived]
      /\ check.newest > 0 /\ arrived \in Nat /\ arrived <= Len(Mail) /\ Len(Mail) \in Nat
  BY MailTypes DEF MailInv, EmailTypeOK
<1>2. /\ check'.at = "processing" /\ check'.newest = check.newest
      /\ check'.batch = check.batch \ {Current}
      /\ check' \in [at : {"none", "fetching", "processing", "sending"},
                     batch : SUBSET (1 .. arrived'), newest : 0 .. arrived']
  BY <1>1 DEF Passed, Current
<1>3. ASSUME NEW m \in 1 .. check.newest, Relevant(m)
      PROVE  m \in check'.batch \/ Handled(m)'
  <2>1. m \in Messages
    BY <1>1, MailTypes
  <2>2. m \in check.batch \/ Handled(m)
    BY <1>3 DEF MailInv, BatchIsDueOrHandled
  <2>3. CASE m = Current
    BY <2>1, <2>3, <1>3
  <2>4. CASE m # Current
    BY <2>1, <2>2, <2>4, <1>2
  <2> QED
    BY <2>3, <2>4
<1>4. BatchIsDueOrHandled'
  BY <1>2, <1>3 DEF BatchIsDueOrHandled, Relevant
<1> QED
  BY <1>1, <1>2, <1>4 DEF SendingIsNew

\* Nothing is sent and no mark moves.
LEMMA MarksStay ==
    ASSUME MailInv, UNCHANGED <<recorded, sent, repeated>>
    PROVE  /\ AlertedOnce' /\ DeliveredIsKnown'
           /\ sent' \in [Messages -> Nat]
           /\ recorded' \subseteq Messages /\ repeated' \subseteq Messages
           /\ \A m \in Messages : sent[m] > 0 => sent'[m] > 0
<1>1. AlertedOnce /\ DeliveredIsKnown
  BY DEF MailInv, MailSafe
<1>2. AlertedOnce'
  BY <1>1 DEF AlertedOnce, Relevant
<1>3. DeliveredIsKnown'
  BY <1>1 DEF DeliveredIsKnown
<1> QED
  BY <1>2, <1>3 DEF MailInv, EmailTypeOK

\* The account's row stays as it is.
LEMMA AccountStays ==
    ASSUME MailInv, UNCHANGED <<account, fails>>
    PROVE  /\ account' \in [seen : 0 .. Len(Mail), status : {"active", "error"}, errors : Nat]
           /\ fails' \in Nat /\ ErrorsCountTwice' /\ account'.seen = account.seen
BY DEF MailInv, MailSafe, EmailTypeOK, ErrorsCountTwice

\* With no batch in hand, nothing is due of it.
LEMMA NoBatch ==
    ASSUME check' = NoCheck \/ check' = [NoCheck EXCEPT !.at = "fetching"], arrived' \in Nat
    PROVE  /\ check' \in [at : {"none", "fetching", "processing", "sending"},
                          batch : SUBSET (1 .. arrived'), newest : 0 .. arrived']
           /\ check'.at \notin {"processing", "sending"}
           /\ BatchIsDueOrHandled' /\ SendingIsNew'
BY DEF NoCheck, BatchIsDueOrHandled, SendingIsNew

\* The check stays as it is, and so does what was handled.
LEMMA CheckStays ==
    ASSUME MailInv, UNCHANGED <<check, recorded>>, arrived' \in arrived .. Len(Mail),
           \A m \in Messages : Handled(m) => Handled(m)'
    PROVE  /\ check' \in [at : {"none", "fetching", "processing", "sending"},
                          batch : SUBSET (1 .. arrived'), newest : 0 .. arrived']
           /\ check'.at \in {"processing", "sending"} => check'.newest > 0
           /\ check'.at = "sending" => check'.batch # {}
           /\ BatchIsDueOrHandled' /\ SendingIsNew'
<1>1. /\ check \in [at : {"none", "fetching", "processing", "sending"},
                    batch : SUBSET (1 .. arrived), newest : 0 .. arrived]
      /\ check.at \in {"processing", "sending"} => check.newest > 0
      /\ check.at = "sending" => check.batch # {}
      /\ arrived \in Nat /\ arrived <= Len(Mail) /\ Len(Mail) \in Nat
  BY MailTypes DEF MailInv, EmailTypeOK
<1>2. check' \in [at : {"none", "fetching", "processing", "sending"},
                  batch : SUBSET (1 .. arrived'), newest : 0 .. arrived']
  <2>1. 1 .. arrived \subseteq 1 .. arrived' /\ 0 .. arrived \subseteq 0 .. arrived'
    BY <1>1
  <2> QED
    BY <2>1, <1>1
<1>3. BatchIsDueOrHandled'
  <2>1. SUFFICES ASSUME check.at \in {"processing", "sending"},
                        NEW m \in 1 .. check.newest, Relevant(m)
                 PROVE  m \in check.batch \/ Handled(m)'
    BY DEF BatchIsDueOrHandled, Relevant
  <2>2. m \in Messages
    BY <1>1, MailTypes
  <2>3. m \in check.batch \/ Handled(m)
    BY <2>1 DEF MailInv, BatchIsDueOrHandled
  <2> QED
    BY <2>2, <2>3
<1>4. SendingIsNew'
  BY DEF MailInv, SendingIsNew, Current, Relevant
<1> QED
  BY <1>1, <1>2, <1>3, <1>4

\* The parts of the invariant make it up.
LEMMA MailParts ==
    ASSUME arrived' \in 0 .. Len(Mail), {quiet', due'} \subseteq BOOLEAN,
           marked' \subseteq 1 .. arrived', MarkedIsKnown',
           account' \in [seen : 0 .. Len(Mail), status : {"active", "error"}, errors : Nat],
           recorded' \subseteq Messages,
           check' \in [at : {"none", "fetching", "processing", "sending"},
                       batch : SUBSET (1 .. arrived'), newest : 0 .. arrived'],
           sent' \in [Messages -> Nat], excused' \subseteq Messages \X Excuses,
           repeated' \subseteq Messages, fails' \in Nat, faults' \in 0 .. MaxFaults,
           check'.at \in {"processing", "sending"} => check'.newest > 0,
           check'.at = "sending" => check'.batch # {},
           SeenIsAlerted', AlertedOnce', ErrorsCountTwice',
           BatchIsDueOrHandled', DeliveredIsKnown', SendingIsNew'
    PROVE  MailInv'
BY Zenon DEF MailInv, MailSafe, EmailTypeOK, Messages

\* Faults are counted up to their bound.
LEMMA FaultsBounded ==
    ASSUME MailInv, Fault \/ UNCHANGED faults
    PROVE  faults' \in 0 .. MaxFaults
BY EmailConstants DEF MailInv, EmailTypeOK, Fault

\* The types of what most steps leave alone.
LEMMA MailTyped ==
    ASSUME MailInv
    PROVE  /\ arrived \in 0 .. Len(Mail) /\ Len(Mail) \in Nat /\ arrived \in Nat
           /\ {quiet, due} \subseteq BOOLEAN
           /\ marked \subseteq 1 .. arrived /\ account.seen <= arrived
           /\ account \in [seen : 0 .. Len(Mail), status : {"active", "error"}, errors : Nat]
           /\ check \in [at : {"none", "fetching", "processing", "sending"},
                         batch : SUBSET (1 .. arrived), newest : 0 .. arrived]
           /\ excused \subseteq Messages \X Excuses
           /\ fails \in Nat /\ faults \in 0 .. MaxFaults
           /\ check.at \in {"processing", "sending"} => check.newest > 0
           /\ check.at = "sending" => check.batch # {}
BY MailTypes DEF MailInv, EmailTypeOK, MarkedIsKnown

\* What was read and is not of the batch in hand is handled, and stays so.
LEMMA MarkedStays ==
    ASSUME MailInv, account'.seen = account.seen, arrived' \in arrived .. Len(Mail),
           \A m \in Messages : Handled(m) => Handled(m)',
           marked' \subseteq Messages,
           account.seen = 0 =>
               \A m \in Messages : Relevant(m) /\ (InHand(m) \/ m \in marked' \ marked) =>
                   InHand(m)' \/ Handled(m)'
    PROVE  MarkedIsKnown'
<1>1. account'.seen <= arrived'
  BY MailTyped
<1>2. ASSUME account.seen = 0, NEW m \in marked', Relevant(m)
      PROVE  InHand(m)' \/ Handled(m)'
  <2>1. m \in Messages
    OBVIOUS
  <2>2. m \in marked => InHand(m) \/ Handled(m)
    BY <1>2 DEF MailInv, MarkedIsKnown
  <2> QED
    BY <2>1, <2>2, <1>2
<1> QED
  BY <1>1, <1>2 DEF MarkedIsKnown, Relevant

\* With nothing read, the batch stays in hand or is handled.
LEMMA NothingRead ==
    ASSUME MailInv, UNCHANGED <<marked, account>>, arrived' \in arrived .. Len(Mail),
           \A m \in Messages : Handled(m) => Handled(m)',
           \A m \in Messages : Relevant(m) /\ InHand(m) => InHand(m)' \/ Handled(m)'
    PROVE  marked' \subseteq 1 .. arrived' /\ MarkedIsKnown'
<1>1. marked \subseteq 1 .. arrived /\ arrived \in Nat /\ Len(Mail) \in Nat
  BY MailTyped
<1>2. marked' \subseteq 1 .. arrived' /\ marked' \subseteq Messages
  BY <1>1, MailTypes
<1> QED
  BY <1>2, MarkedStays

\* The excuse of what was read and lost.
LEMMA LostFacts ==
    ASSUME NEW S \in SUBSET Messages
    PROVE  /\ Lost(S) \subseteq Messages \X Excuses
           /\ account.seen = 0 => \A m \in S : <<m, "read">> \in Lost(S)
<1>1. "read" \in Excuses
  BY DEF Excuses
<1>2. \A m \in S : <<m, "read">> \in Messages \X Excuses
  BY <1>1
<1>3. CASE account.seen = 0
  <2>1. Lost(S) = S \X {"read"}
    BY <1>3 DEF Lost
  <2> QED
    BY <2>1, <1>2
<1>4. CASE account.seen # 0
  BY <1>4 DEF Lost
<1> QED
  BY <1>3, <1>4

\* What has the excuse of having been read is handled.
LEMMA ReadIsHandled ==
    ASSUME NEW m, <<m, "read">> \in excused'
    PROVE  Handled(m)'
<1>1. "read" \in Excuses
  BY DEF Excuses
<1> QED
  BY <1>1, Zenon DEF Handled

\* A message arrives, quiet hours begin or end, a check is due: the check under
\* way and the marks stay.
LEMMA OutsideStep ==
    ASSUME MailInv, Arrive \/ QuietHours \/ TimePasses
    PROVE  MailInv'
<1>1. UNCHANGED <<marked, account, recorded, check, sent, excused, repeated, fails, faults>>
  BY DEF Arrive, QuietHours, TimePasses
<1>2. arrived' \in arrived .. Len(Mail) /\ {quiet', due'} \subseteq BOOLEAN
  <2>1. arrived \in Nat /\ Len(Mail) \in Nat /\ arrived <= Len(Mail)
    BY MailTyped
  <2>2. quiet \in BOOLEAN /\ due \in BOOLEAN
    BY MailTyped
  <2>3. CASE Arrive
    BY <2>1, <2>2, <2>3 DEF Arrive
  <2>4. CASE QuietHours
    BY <2>1, <2>2, <2>4 DEF QuietHours
  <2>5. CASE TimePasses
    BY <2>1, <2>2, <2>5 DEF TimePasses
  <2> QED
    BY <2>3, <2>4, <2>5
<1>3. /\ AlertedOnce' /\ DeliveredIsKnown'
      /\ sent' \in [Messages -> Nat] /\ recorded' \subseteq Messages /\ repeated' \subseteq Messages
      /\ \A m \in Messages : sent[m] > 0 => sent'[m] > 0
  BY <1>1, MarksStay
<1>4. (\A m \in Messages : Handled(m) => Handled(m)') /\ SeenIsAlerted'
  BY <1>1, <1>3, HandledStays
<1>5. /\ check' \in [at : {"none", "fetching", "processing", "sending"},
                     batch : SUBSET (1 .. arrived'), newest : 0 .. arrived']
      /\ check'.at \in {"processing", "sending"} => check'.newest > 0
      /\ check'.at = "sending" => check'.batch # {}
      /\ BatchIsDueOrHandled' /\ SendingIsNew'
  BY <1>1, <1>2, <1>4, CheckStays
<1>6. /\ account' \in [seen : 0 .. Len(Mail), status : {"active", "error"}, errors : Nat]
      /\ fails' \in Nat /\ ErrorsCountTwice'
  BY <1>1, AccountStays
<1>7. /\ arrived' \in 0 .. Len(Mail) /\ excused' \subseteq Messages \X Excuses
      /\ faults' \in 0 .. MaxFaults
  BY <1>1, <1>2, MailTyped
<1>8. marked' \subseteq 1 .. arrived' /\ MarkedIsKnown'
  BY <1>1, <1>2, <1>4, NothingRead DEF InHand
<1> QED
  BY <1>2, <1>3, <1>4, <1>5, <1>6, <1>7, <1>8, MailParts

\* The user reads a message: it has an excuse.
LEMMA UserReadsStep == ASSUME MailInv, UserReads PROVE MailInv'
<1>1. /\ UNCHANGED <<arrived, quiet, due, account, recorded, check, sent, repeated, fails, faults>>
      /\ arrived' \in arrived .. Len(Mail) /\ {quiet', due'} \subseteq BOOLEAN
      /\ arrived' \in 0 .. Len(Mail) /\ faults' \in 0 .. MaxFaults
  BY MailTyped DEF UserReads
<1>2. PICK m \in 1 .. arrived : /\ marked' = marked \cup {m}
                                /\ excused' = excused \cup {<<m, "read">>}
  BY DEF UserReads
<1>3. m \in Messages /\ 1 .. arrived \subseteq Messages
  BY MailTyped, MailTypes
<1>4. /\ excused \subseteq excused' /\ excused' \subseteq Messages \X Excuses
      /\ marked' \subseteq 1 .. arrived' /\ marked' \subseteq Messages
  <2>1. "read" \in Excuses
    BY DEF Excuses
  <2>2. <<m, "read">> \in Messages \X Excuses
    BY <1>3, <2>1
  <2>3. excused \subseteq Messages \X Excuses /\ marked \subseteq 1 .. arrived
    BY MailTyped
  <2>4. marked' \subseteq 1 .. arrived /\ arrived' = arrived
    BY <1>1, <1>2, <2>3
  <2> QED
    BY <1>2, <1>3, <2>2, <2>3, <2>4
<1>5. /\ AlertedOnce' /\ DeliveredIsKnown'
      /\ sent' \in [Messages -> Nat] /\ recorded' \subseteq Messages /\ repeated' \subseteq Messages
      /\ \A k \in Messages : sent[k] > 0 => sent'[k] > 0
  BY <1>1, MarksStay
<1>6. (\A k \in Messages : Handled(k) => Handled(k)') /\ SeenIsAlerted'
  BY <1>1, <1>4, <1>5, HandledStays
<1>7. /\ check' \in [at : {"none", "fetching", "processing", "sending"},
                     batch : SUBSET (1 .. arrived'), newest : 0 .. arrived']
      /\ check'.at \in {"processing", "sending"} => check'.newest > 0
      /\ check'.at = "sending" => check'.batch # {}
      /\ BatchIsDueOrHandled' /\ SendingIsNew'
  BY <1>1, <1>6, CheckStays
<1>8. /\ account' \in [seen : 0 .. Len(Mail), status : {"active", "error"}, errors : Nat]
      /\ fails' \in Nat /\ ErrorsCountTwice'
  BY <1>1, AccountStays
<1>9. MarkedIsKnown'
  <2>1. \A k \in marked' \ marked : Handled(k)'
    BY <1>2, ReadIsHandled
  <2>2. \A k \in Messages : InHand(k) => InHand(k)'
    BY <1>1 DEF InHand
  <2> QED
    BY <1>1, <1>4, <1>6, <2>1, <2>2, MarkedStays
<1> QED
  BY <1>1, <1>4, <1>5, <1>6, <1>7, <1>8, <1>9, MailParts

\* A check starts, or it ends badly: no batch is in hand, and nothing was seen.
LEMMA CheckGone ==
    ASSUME MailInv,
           check' = NoCheck \/ check' = [NoCheck EXCEPT !.at = "fetching"],
           UNCHANGED <<arrived, quiet>>, due' \in BOOLEAN, account'.seen = account.seen,
           excused \subseteq excused', excused' \subseteq Messages \X Excuses,
           marked' \subseteq 1 .. arrived,
           account.seen = 0 =>
               \A m \in Messages : InHand(m) \/ m \in marked' \ marked => <<m, "read">> \in excused',
           account' \in [seen : 0 .. Len(Mail), status : {"active", "error"}, errors : Nat],
           fails' \in Nat, ErrorsCountTwice', faults' \in 0 .. MaxFaults,
           sent' \in [Messages -> Nat], recorded' \subseteq Messages, repeated' \subseteq Messages,
           \A m \in Messages : sent[m] > 0 => sent'[m] > 0,
           AlertedOnce', DeliveredIsKnown'
    PROVE  MailInv'
<1>1. arrived' \in 0 .. Len(Mail) /\ arrived' \in Nat
  BY MailTyped
<1>2. {quiet', due'} \subseteq BOOLEAN
  BY MailTyped
<1>3. SeenIsAlerted' /\ \A m \in Messages : Handled(m) => Handled(m)'
  BY HandledStays
<1>4. /\ check' \in [at : {"none", "fetching", "processing", "sending"},
                     batch : SUBSET (1 .. arrived'), newest : 0 .. arrived']
      /\ check'.at \notin {"processing", "sending"}
      /\ BatchIsDueOrHandled' /\ SendingIsNew'
  BY <1>1, NoBatch
<1>5. /\ check'.at \in {"processing", "sending"} => check'.newest > 0
      /\ check'.at = "sending" => check'.batch # {}
  BY <1>4
<1>6. marked' \subseteq 1 .. arrived' /\ MarkedIsKnown'
  <2>1. /\ marked' \subseteq 1 .. arrived' /\ marked' \subseteq Messages
        /\ arrived' \in arrived .. Len(Mail)
    BY MailTyped, MailTypes
  <2>2. account.seen = 0 =>
            \A m \in Messages : InHand(m) \/ m \in marked' \ marked => Handled(m)'
    BY ReadIsHandled
  <2> QED
    BY <2>1, <2>2, <1>3, MarkedStays
<1> QED
  BY <1>1, <1>2, <1>3, <1>4, <1>5, <1>6, MailParts

LEMMA CheckStartsStep == ASSUME MailInv, CheckStarts PROVE MailInv'
<1>1. /\ check' = [NoCheck EXCEPT !.at = "fetching"]
      /\ UNCHANGED <<arrived, marked, quiet, due, account, recorded, sent, excused, repeated, fails,
                     faults>>
      /\ check.at = "none"
  BY DEF CheckStarts
<1>2. /\ due' \in BOOLEAN /\ faults' \in 0 .. MaxFaults
      /\ excused' \subseteq Messages \X Excuses /\ marked' \subseteq 1 .. arrived
  BY <1>1, MailTyped
<1>3. \A m \in Messages : ~InHand(m)
  BY <1>1 DEF InHand
<1> QED
  BY <1>1, <1>2, <1>3, MarksStay, AccountStays, CheckGone

LEMMA CrashStep == ASSUME MailInv, Crash PROVE MailInv'
<1>1. /\ check' = NoCheck /\ due' = TRUE
      /\ UNCHANGED <<arrived, quiet, account, recorded, fails>>
      /\ faults' \in 0 .. MaxFaults
  BY FaultsBounded, Zenon DEF Crash
<1>2. /\ AlertedOnce' /\ DeliveredIsKnown'
      /\ sent' \in [Messages -> Nat] /\ recorded' \subseteq Messages /\ repeated' \subseteq Messages
      /\ \A m \in Messages : sent[m] > 0 => sent'[m] > 0
  <2>1. CASE UNCHANGED <<sent, repeated>>
    BY <2>1, <1>1, MarksStay
  <2>2. CASE /\ check.at = "sending"
             /\ sent' = [sent EXCEPT ![Current] = @ + 1]
             /\ repeated' = repeated \cup {Current}
    BY <2>2, <1>1, OneMoreSent
  <2> QED
    BY <2>1, <2>2 DEF Crash
<1>3. PICK n \in 0 .. FetchLimit :
          LET read == IF check.at = "fetching" THEN Newest(n) ELSE {} IN
          Marked(read) /\ excused' = excused \cup Lost(read \cup check.batch)
  BY Zenon DEF Crash
<1> DEFINE read == IF check.at = "fetching" THEN Newest(n) ELSE {}
           unseen == read \cup check.batch
<1>4. Marked(read) /\ excused' = excused \cup Lost(unseen)
  BY <1>3
<1>5. read \subseteq 1 .. arrived /\ check.batch \subseteq 1 .. arrived /\ 1 .. arrived \subseteq Messages
  <2>1. Newest(n) \subseteq Wanted
    BY DEF Newest
  <2>2. EmailTypeOK /\ account.seen <= arrived
    BY DEF MailInv, MarkedIsKnown
  <2>3. Wanted \in SUBSET (1 .. arrived)
    BY <2>2, WantedFacts
  <2>4. read \subseteq 1 .. arrived
    BY <2>1, <2>3
  <2>5. check.batch \subseteq 1 .. arrived
    BY MailTyped
  <2>6. 1 .. arrived \subseteq Messages
    BY MailTyped, MailTypes
  <2> QED
    BY <2>4, <2>5, <2>6
<1>6. \A m \in Messages : InHand(m) => m \in unseen
  BY DEF InHand
<1> HIDE DEF read
<1>7. marked' = (IF account.seen = 0 THEN marked \cup read ELSE marked) /\ unseen \in SUBSET Messages
  BY <1>4, <1>5 DEF Marked
<1>8. read \subseteq unseen
  OBVIOUS
<1> HIDE DEF unseen
<1>9. /\ excused \subseteq excused' /\ excused' \subseteq Messages \X Excuses
      /\ marked' \subseteq 1 .. arrived /\ due' \in BOOLEAN
      /\ account.seen = 0 =>
            \A m \in Messages : InHand(m) \/ m \in marked' \ marked => <<m, "read">> \in excused'
  <2>1. /\ Lost(unseen) \subseteq Messages \X Excuses
        /\ account.seen = 0 => \A m \in unseen : <<m, "read">> \in Lost(unseen)
    BY <1>7, LostFacts
  <2>2. excused \subseteq Messages \X Excuses /\ marked \subseteq 1 .. arrived
    BY MailTyped
  <2> QED
    BY <2>1, <2>2, <1>1, <1>4, <1>5, <1>6, <1>7, <1>8
<1> QED
  BY <1>1, <1>2, <1>9, AccountStays, CheckGone

\* A check fails with nothing sent, or with an alert sent and not recorded.
LEMMA CheckFailsStep ==
    ASSUME MailInv, CheckFails, UNCHANGED <<arrived, marked, quiet, recorded>>,
           \/ UNCHANGED <<sent, repeated>>
           \/ /\ check.at = "sending"
              /\ sent' = [sent EXCEPT ![Current] = @ + 1]
              /\ repeated' = repeated \cup {Current}
    PROVE  MailInv'
<1>1. /\ account' \in [seen : {account.seen}, status : {"active", "error"}, errors : Nat]
      /\ fails' \in Nat /\ ErrorsCountTwice'
      /\ check' = NoCheck /\ due' = FALSE /\ faults' \in 0 .. MaxFaults
  BY ErrorCounted
<1>2. /\ account'.seen = account.seen
      /\ account' \in [seen : 0 .. Len(Mail), status : {"active", "error"}, errors : Nat]
  BY <1>1, MailTyped
<1>3. /\ AlertedOnce' /\ DeliveredIsKnown'
      /\ sent' \in [Messages -> Nat] /\ recorded' \subseteq Messages /\ repeated' \subseteq Messages
      /\ \A m \in Messages : sent[m] > 0 => sent'[m] > 0
  <2>1. CASE UNCHANGED <<sent, repeated>>
    BY <2>1, MarksStay
  <2>2. CASE /\ check.at = "sending"
             /\ sent' = [sent EXCEPT ![Current] = @ + 1]
             /\ repeated' = repeated \cup {Current}
    BY <2>2, OneMoreSent
  <2> QED
    BY <2>1, <2>2
<1>4. /\ excused \subseteq excused' /\ excused' \subseteq Messages \X Excuses
      /\ marked' \subseteq 1 .. arrived /\ due' \in BOOLEAN
      /\ account.seen = 0 =>
            \A m \in Messages : InHand(m) \/ m \in marked' \ marked => <<m, "read">> \in excused'
  <2>1. check.batch \in SUBSET Messages
    BY MailTyped, MailTypes
  <2>2. /\ Lost(check.batch) \subseteq Messages \X Excuses
        /\ account.seen = 0 => \A m \in check.batch : <<m, "read">> \in Lost(check.batch)
    BY <2>1, LostFacts
  <2>3. excused' = excused \cup Lost(check.batch)
    BY Zenon DEF CheckFails
  <2> QED
    BY <1>1, <2>2, <2>3, MailTyped DEF InHand
<1> QED
  BY <1>1, <1>2, <1>3, <1>4, CheckGone

\* What was fetched of the wanted messages is the batch; an older one that was
\* not fetched has an excuse, and so has one that was read and is not of the
\* batch; what was not wanted was seen, or read before.
LEMMA FetchedStep ==
    ASSUME MailInv, check.at = "fetching", NEW k \in Nat, NEW n \in Nat, NEW why \in Excuses,
           Fetched(Newest(k), Newest(n), why), faults' \in 0 .. MaxFaults
    PROVE  MailInv'
<1> DEFINE read == Newest(k)
           ms == Newest(n)
           unseen == read \ ms
           older == {m \in Wanted \ ms : \E l \in ms : m < l}
<1>1. /\ UNCHANGED <<arrived, quiet, recorded, sent, repeated>>
      /\ ms \subseteq Wanted /\ read \subseteq Wanted /\ Wanted \in SUBSET (1 .. arrived)
      /\ \A w \in Wanted : \A m \in 1 .. w :
             \/ m \in Wanted \/ m \in 1 .. account.seen
             \/ account.seen = 0 /\ m \in marked
      /\ EmailTypeOK
  BY WantedFacts, MailTyped DEF Fetched, Newest, MailInv
<1>2. /\ AlertedOnce' /\ DeliveredIsKnown'
      /\ sent' \in [Messages -> Nat] /\ recorded' \subseteq Messages /\ repeated' \subseteq Messages
      /\ \A m \in Messages : sent[m] > 0 => sent'[m] > 0
  BY <1>1, MarksStay
<1>3. arrived \in Nat /\ arrived <= Len(Mail) /\ Len(Mail) \in Nat /\ Messages = 1 .. Len(Mail)
  BY MailTyped, MailTypes
<1>4. /\ marked' = IF account.seen = 0 THEN marked \cup read ELSE marked
      /\ excused' = excused \cup Lost(unseen) \cup (older \X {why})
      /\ ms = {} => Succeeds(account.seen)
      /\ ms # {} => /\ check' = [at |-> "processing", batch |-> ms, newest |-> Max(ms)]
                    /\ UNCHANGED <<account, due, fails>>
  BY Zenon DEF Fetched, Marked
<1>5. unseen \in SUBSET Messages /\ older \in SUBSET Messages /\ read \subseteq ms \cup unseen
  <2>1. Wanted \subseteq Messages
    BY <1>1, <1>3
  <2> QED
    BY <2>1, <1>1
<1>6. ms # {} => Max(ms) \in ms
  BY <1>1, NewestOf
<1>7. \A m \in Wanted \ ms : \A l \in ms : m < l => m \in older
  OBVIOUS
<1> HIDE DEF ms, read, unseen, older
<1>8. /\ excused \subseteq excused' /\ excused' \subseteq Messages \X Excuses
      /\ account.seen = 0 => \A m \in unseen : <<m, "read">> \in excused'
  <2>1. /\ Lost(unseen) \subseteq Messages \X Excuses
        /\ account.seen = 0 => \A m \in unseen : <<m, "read">> \in Lost(unseen)
    BY <1>5, LostFacts
  <2>2. (older \X {why}) \subseteq Messages \X Excuses /\ excused \subseteq Messages \X Excuses
    BY <1>5, MailTyped
  <2> QED
    BY <2>1, <2>2, <1>4
<1>9. marked' \subseteq 1 .. arrived
  BY <1>1, <1>4, MailTyped
<1>10. CASE ms = {}
  <2>1. Succeeds(account.seen)
    BY <1>10, <1>4
  <2>2. /\ account' = [seen |-> account.seen, status |-> "active", errors |-> 0]
        /\ check' = NoCheck /\ due' = FALSE /\ fails' = 0
    BY <2>1 DEF Succeeds
  <2>3. ErrorsCountTwice'
    BY <2>2, EmailConstants DEF ErrorsCountTwice
  <2>4. /\ account' \in [seen : 0 .. Len(Mail), status : {"active", "error"}, errors : Nat]
        /\ account'.seen = account.seen /\ due' \in BOOLEAN /\ fails' \in Nat
    BY <2>2, MailTyped
  <2>5. account.seen = 0 =>
            \A m \in Messages : InHand(m) \/ m \in marked' \ marked => <<m, "read">> \in excused'
    BY <1>4, <1>5, <1>8, <1>10 DEF InHand
  <2> QED
    BY <1>1, <1>2, <1>8, <1>9, <2>2, <2>3, <2>4, <2>5, CheckGone
<1>11. CASE ms # {}
  <2> DEFINE newest == Max(ms)
  <2>1. /\ check' = [at |-> "processing", batch |-> ms, newest |-> newest]
        /\ UNCHANGED <<account, due, fails>>
    BY <1>4, <1>11
  <2>2. newest \in ms /\ newest \in 1 .. arrived
    BY <1>1, <1>6, <1>11
  <2> HIDE DEF newest
  <2>3. /\ check' \in [at : {"none", "fetching", "processing", "sending"},
                       batch : SUBSET (1 .. arrived'), newest : 0 .. arrived']
        /\ check'.at \in {"processing", "sending"} => check'.newest > 0
        /\ check'.at = "sending" => check'.batch # {}
        /\ check'.at = "processing" /\ check'.newest = newest /\ check'.batch = ms
    BY <1>1, <1>3, <2>1, <2>2, <1>11
  <2>4. (\A m \in Messages : Handled(m) => Handled(m)') /\ SeenIsAlerted'
    BY <1>2, <2>1, <1>8, HandledStays
  <2>5. ASSUME NEW m \in 1 .. newest, Relevant(m)
        PROVE  m \in ms \/ Handled(m)'
    <3>1. /\ m \in Messages
          /\ \/ m \in Wanted \/ m \in 1 .. account.seen
             \/ account.seen = 0 /\ m \in marked
      BY <1>1, <1>3, <2>2
    <3>2. CASE m \in 1 .. account.seen
      <4>1. Handled(m)
        BY <3>2, <2>5 DEF MailInv, MailSafe, SeenIsAlerted, Handled
      <4> QED
        BY <4>1, <3>1, <2>4
    <3>3. CASE account.seen = 0 /\ m \in marked
      <4>1. InHand(m) \/ Handled(m)
        BY <3>3, <2>5 DEF MailInv, MarkedIsKnown
      <4>2. ~InHand(m)
        BY DEF InHand
      <4> QED
        BY <4>1, <4>2, <3>1, <2>4
    <3>4. CASE m \in Wanted /\ m \notin ms
      <4>1. m < newest
        BY <3>4, <2>2, <1>3
      <4>2. <<m, why>> \in excused'
        BY <4>1, <3>4, <2>2, <1>4, <1>7
      <4> QED
        BY <4>2 DEF Handled
    <3> QED
      BY <3>1, <3>2, <3>3, <3>4
  <2>6. BatchIsDueOrHandled'
    BY <2>3, <2>5 DEF BatchIsDueOrHandled, Relevant
  <2>7. SendingIsNew'
    BY <2>3 DEF SendingIsNew
  <2>8. /\ account' \in [seen : 0 .. Len(Mail), status : {"active", "error"}, errors : Nat]
        /\ fails' \in Nat /\ ErrorsCountTwice'
    BY <2>1, AccountStays
  <2>9. arrived' \in 0 .. Len(Mail) /\ {quiet', due'} \subseteq BOOLEAN
    BY <1>1, <2>1, MailTyped
  <2>10. marked' \subseteq 1 .. arrived' /\ MarkedIsKnown'
    <3>1. /\ arrived' \in arrived .. Len(Mail) /\ account'.seen = account.seen
          /\ marked' \subseteq 1 .. arrived' /\ marked' \subseteq Messages
      BY <1>1, <1>3, <1>9, <2>1
    <3>2. ASSUME account.seen = 0, NEW m \in Messages, InHand(m) \/ m \in marked' \ marked
          PROVE  InHand(m)' \/ Handled(m)'
      <4>1. m \in ms \/ m \in unseen
        BY <3>2, <1>4, <1>5 DEF InHand
      <4>2. CASE m \in ms
        BY <4>2, <2>3 DEF InHand
      <4>3. CASE m \in unseen
        BY <4>3, <3>2, <1>8, ReadIsHandled
      <4> QED
        BY <4>1, <4>2, <4>3
    <3> QED
      BY <3>1, <3>2, <2>4, MarkedStays
  <2> QED
    BY <1>2, <2>3, <1>8, <2>4, <2>6, <2>7, <2>8, <2>9, <2>10, MailParts
<1> QED
  BY <1>10, <1>11

LEMMA FetchStep == ASSUME MailInv, Fetch \/ FetchBreaksOff PROVE MailInv'
<1>1. "over the limit" \in Excuses /\ "not fetched" \in Excuses
  BY DEF Excuses
<1>2. CASE Fetch
  <2>1. /\ check.at = "fetching"
        /\ Fetched(Newest(FetchLimit), Newest(FetchLimit), "over the limit")
    BY <1>2, Zenon DEF Fetch
  <2>2. faults' \in 0 .. MaxFaults
    BY <1>2, FaultsBounded, Zenon DEF Fetch
  <2> QED
    BY <2>1, <2>2, <1>1, EmailConstants, FetchedStep, Zenon
<1>3. CASE FetchBreaksOff
  <2>1. check.at = "fetching" /\ Fault
    BY <1>3, Zenon DEF FetchBreaksOff
  <2>2. PICK n \in 0 .. FetchLimit - 1 :
            \E k \in {n, n + 1} : Fetched(Newest(k), Newest(n), "not fetched")
    BY <1>3, Zenon DEF FetchBreaksOff
  <2>3. PICK k \in {n, n + 1} : Fetched(Newest(k), Newest(n), "not fetched")
    BY <2>2, Zenon
  <2>4. n \in Nat /\ k \in Nat
    BY EmailConstants
  <2>5. faults' \in 0 .. MaxFaults
    BY <2>1, FaultsBounded
  <2> QED
    BY <2>1, <2>3, <2>4, <2>5, <1>1, FetchedStep, Zenon
<1> QED
  BY <1>2, <1>3

\* One message of the batch is done with, the check goes on.
LEMMA MessageDone ==
    ASSUME MailInv, check.at \in {"processing", "sending"}, check.batch # {},
           check' = Passed(check), UNCHANGED <<arrived, marked, quiet, due, account, fails>>,
           faults' \in 0 .. MaxFaults,
           excused \subseteq excused', excused' \subseteq Messages \X Excuses,
           sent' \in [Messages -> Nat], recorded' \subseteq Messages, repeated' \subseteq Messages,
           \A m \in Messages : sent[m] > 0 => sent'[m] > 0,
           AlertedOnce', DeliveredIsKnown',
           \A m \in Messages : m = Current /\ Relevant(m) => Handled(m)'
    PROVE  MailInv'
<1>1. (\A m \in Messages : Handled(m) => Handled(m)') /\ SeenIsAlerted'
  BY HandledStays
<1>2. /\ check' \in [at : {"none", "fetching", "processing", "sending"},
                     batch : SUBSET (1 .. arrived'), newest : 0 .. arrived']
      /\ check'.at = "processing" /\ check'.newest > 0
      /\ BatchIsDueOrHandled' /\ SendingIsNew'
  BY <1>1, BatchGoesOn
<1>3. /\ account' \in [seen : 0 .. Len(Mail), status : {"active", "error"}, errors : Nat]
      /\ fails' \in Nat /\ ErrorsCountTwice'
  BY AccountStays
<1>4. arrived' \in 0 .. Len(Mail) /\ {quiet', due'} \subseteq BOOLEAN
  BY MailTyped
<1>5. /\ check'.at \in {"processing", "sending"} => check'.newest > 0
      /\ check'.at = "sending" => check'.batch # {}
  BY <1>2
<1>6. marked' \subseteq 1 .. arrived' /\ MarkedIsKnown'
  <2>1. check'.at = "processing" /\ check'.batch = check.batch \ {Current}
    BY MailTyped DEF Passed, Current
  <2>2. \A m \in Messages : Relevant(m) /\ InHand(m) => InHand(m)' \/ Handled(m)'
    BY <2>1 DEF InHand
  <2>3. arrived' \in arrived .. Len(Mail)
    BY MailTyped
  <2> QED
    BY <1>1, <2>2, <2>3, NothingRead
<1> QED
  BY <1>1, <1>2, <1>3, <1>4, <1>5, <1>6, MailParts

LEMMA SkipStep == ASSUME MailInv, Skip PROVE MailInv'
<1>1. /\ check.at = "processing" /\ check.batch # {} /\ check' = Passed(check)
      /\ UNCHANGED <<arrived, marked, quiet, due, account, recorded, sent, repeated, fails, faults>>
  BY DEF Skip
<1>2. Current \in Messages
  BY <1>1, CurrentInBatch DEF MailInv
<1>3. /\ AlertedOnce' /\ DeliveredIsKnown'
      /\ sent' \in [Messages -> Nat] /\ recorded' \subseteq Messages /\ repeated' \subseteq Messages
      /\ \A m \in Messages : sent[m] > 0 => sent'[m] > 0
  BY <1>1, MarksStay
<1>4. \/ excused' = excused /\ (Alerted(Current) \/ Evaluate(Current) = {})
      \/ excused' = excused \cup {<<Current, "quiet">>}
  BY DEF Skip
<1>5. excused \subseteq excused' /\ excused' \subseteq Messages \X Excuses
  <2>1. excused \subseteq Messages \X Excuses
    BY MailTyped
  <2> DEFINE c == Current
  <2>2. c \in Messages /\ (excused' = excused \/ excused' = excused \cup {<<c, "quiet">>})
    BY <1>2, <1>4
  <2> HIDE DEF c
  <2>3. "quiet" \in Excuses
    BY DEF Excuses
  <2>4. <<c, "quiet">> \in Messages \X Excuses
    BY <2>2, <2>3
  <2> QED
    BY <2>1, <2>2, <2>4, Zenon
<1>6. ASSUME NEW m \in Messages, m = Current, Relevant(m) PROVE Handled(m)'
  <2>1. CASE excused' = excused /\ Alerted(m)
    <3>1. sent[m] > 0
      BY <2>1 DEF Alerted, MailInv, DeliveredIsKnown
    <3> QED
      BY <3>1, <1>1 DEF Handled
  <2>2. CASE excused' = excused \cup {<<m, "quiet">>}
    BY <2>2 DEF Handled, Excuses
  <2>3. Evaluate(m) # {}
    BY <1>6, EvaluatesRelevant
  <2> QED
    BY <1>4, <1>6, <2>1, <2>2, <2>3
<1>7. faults' \in 0 .. MaxFaults
  BY <1>1, MailTyped
<1> QED
  BY <1>1, <1>3, <1>5, <1>6, <1>7, MessageDone

LEMMA SendStep == ASSUME MailInv, Send PROVE MailInv'
<1>1. /\ check.at = "processing" /\ check.batch # {} /\ Current \notin recorded
      /\ Evaluate(Current) # {} /\ check' = [check EXCEPT !.at = "sending"]
      /\ UNCHANGED <<arrived, marked, quiet, due, account, recorded, sent, excused, repeated, fails,
                     faults>>
  BY DEF Send, Alerted
<1>2. /\ AlertedOnce' /\ DeliveredIsKnown'
      /\ sent' \in [Messages -> Nat] /\ recorded' \subseteq Messages /\ repeated' \subseteq Messages
      /\ \A m \in Messages : sent[m] > 0 => sent'[m] > 0
  BY <1>1, MarksStay
<1>3. (\A m \in Messages : Handled(m) => Handled(m)') /\ SeenIsAlerted'
  BY <1>1, <1>2, HandledStays
<1>4. /\ check' \in [at : {"none", "fetching", "processing", "sending"},
                     batch : SUBSET (1 .. arrived'), newest : 0 .. arrived']
      /\ check'.at = "sending" /\ check'.newest = check.newest /\ check'.batch = check.batch
      /\ check.newest > 0
  BY <1>1, MailTyped
<1>5. BatchIsDueOrHandled'
  <2>1. \A m \in 1 .. check.newest : Relevant(m) => m \in check.batch \/ Handled(m)
    BY <1>1 DEF MailInv, BatchIsDueOrHandled
  <2> QED
    BY <2>1, <1>1, <1>4 DEF BatchIsDueOrHandled, Handled, Relevant
<1>6. SendingIsNew'
  <2>1. Relevant(Current)
    BY <1>1, EvaluatesRelevant
  <2>2. Current' = Current
    BY <1>4 DEF Current
  <2> QED
    BY <1>1, <2>1, <2>2 DEF SendingIsNew, Relevant
<1>7. /\ account' \in [seen : 0 .. Len(Mail), status : {"active", "error"}, errors : Nat]
      /\ fails' \in Nat /\ ErrorsCountTwice'
  BY <1>1, AccountStays
<1>8. /\ arrived' \in 0 .. Len(Mail) /\ {quiet', due'} \subseteq BOOLEAN
      /\ excused' \subseteq Messages \X Excuses /\ faults' \in 0 .. MaxFaults
  BY <1>1, MailTyped
<1>9. /\ check'.at \in {"processing", "sending"} => check'.newest > 0
      /\ check'.at = "sending" => check'.batch # {}
  BY <1>1, <1>4
<1>10. marked' \subseteq 1 .. arrived' /\ MarkedIsKnown'
  <2>1. \A m \in Messages : InHand(m) => InHand(m)'
    BY <1>4 DEF InHand
  <2>2. arrived' \in arrived .. Len(Mail)
    BY <1>1, MailTyped
  <2> QED
    BY <1>1, <1>3, <2>1, <2>2, NothingRead
<1> QED
  BY <1>2, <1>3, <1>4, <1>5, <1>6, <1>7, <1>8, <1>9, <1>10, MailParts

LEMMA DeliverStep == ASSUME MailInv, Deliver PROVE MailInv'
<1>1. /\ check.at = "sending" /\ check' = Passed(check)
      /\ sent' = [sent EXCEPT ![Current] = @ + 1]
      /\ recorded' = recorded \cup {Current}
      /\ UNCHANGED <<arrived, marked, quiet, due, account, excused, repeated, fails, faults>>
  BY DEF Deliver
<1>2. /\ sent' \in [Messages -> Nat]
      /\ recorded' \subseteq Messages /\ repeated' \subseteq Messages
      /\ \A m \in Messages : sent[m] > 0 => sent'[m] > 0
      /\ sent'[Current] > 0
      /\ AlertedOnce' /\ DeliveredIsKnown'
  BY <1>1, OneMoreSent
<1>3. \A m \in Messages : m = Current /\ Relevant(m) => Handled(m)'
  BY <1>2 DEF Handled
<1>4. /\ check.batch # {} /\ faults' \in 0 .. MaxFaults
      /\ excused \subseteq excused' /\ excused' \subseteq Messages \X Excuses
  BY <1>1, MailTyped
<1> QED
  BY <1>1, <1>2, <1>3, <1>4, MessageDone

LEMMA NobodyTakesItStep == ASSUME MailInv, NobodyTakesIt PROVE MailInv'
<1>1. /\ check.at = "sending" /\ check' = Passed(check) /\ faults' \in 0 .. MaxFaults
      /\ excused' = excused \cup {<<Current, "undelivered">>}
      /\ UNCHANGED <<arrived, marked, quiet, due, account, recorded, sent, repeated, fails>>
  BY FaultsBounded DEF NobodyTakesIt
<1>2. check.batch # {}
  BY <1>1, MailTyped
<1>3. Current \in Messages
  BY <1>2, CurrentInBatch DEF MailInv
<1>4. /\ AlertedOnce' /\ DeliveredIsKnown'
      /\ sent' \in [Messages -> Nat] /\ recorded' \subseteq Messages /\ repeated' \subseteq Messages
      /\ \A m \in Messages : sent[m] > 0 => sent'[m] > 0
  BY <1>1, MarksStay
<1>5. excused \subseteq excused' /\ excused' \subseteq Messages \X Excuses
  <2>1. excused \subseteq Messages \X Excuses
    BY MailTyped
  <2> DEFINE c == Current
  <2>2. c \in Messages /\ excused' = excused \cup {<<c, "undelivered">>}
    BY <1>1, <1>3
  <2> HIDE DEF c
  <2>3. "undelivered" \in Excuses
    BY DEF Excuses
  <2>4. <<c, "undelivered">> \in Messages \X Excuses
    BY <2>2, <2>3
  <2> QED
    BY <2>1, <2>2, <2>4, Zenon
<1>6. \A m \in Messages : m = Current /\ Relevant(m) => Handled(m)'
  BY <1>1 DEF Handled, Excuses
<1> QED
  BY <1>1, <1>2, <1>4, <1>5, <1>6, MessageDone

\* With the batch done, everything relevant up to its newest message is handled,
\* and the mark moves to that one.
LEMMA FinishStep == ASSUME MailInv, Finish PROVE MailInv'
<1>1. /\ check.at = "processing" /\ check.batch = {}
      /\ account' = [seen |-> check.newest, status |-> "active", errors |-> 0]
      /\ check' = NoCheck /\ due' = FALSE /\ fails' = 0
      /\ UNCHANGED <<arrived, marked, quiet, recorded, sent, excused, repeated, faults>>
  BY DEF Finish, Succeeds
<1>2. /\ AlertedOnce' /\ DeliveredIsKnown'
      /\ sent' \in [Messages -> Nat] /\ recorded' \subseteq Messages /\ repeated' \subseteq Messages
  BY <1>1, MarksStay
<1>3. SeenIsAlerted'
  <2>1. \A m \in 1 .. check.newest : Relevant(m) => Handled(m)
    BY <1>1 DEF MailInv, BatchIsDueOrHandled
  <2>2. account'.seen = check.newest
    BY <1>1
  <2> QED
    BY <1>1, <2>1, <2>2 DEF SeenIsAlerted, Handled, Relevant
<1>4. ErrorsCountTwice'
  BY <1>1, EmailConstants DEF ErrorsCountTwice
<1>5. /\ check' \in [at : {"none", "fetching", "processing", "sending"},
                     batch : SUBSET (1 .. arrived'), newest : 0 .. arrived']
      /\ check'.at \notin {"processing", "sending"}
      /\ BatchIsDueOrHandled' /\ SendingIsNew'
  BY <1>1, MailTyped, NoBatch
<1>6. account' \in [seen : 0 .. Len(Mail), status : {"active", "error"}, errors : Nat]
  <2>1. check.newest \in 0 .. Len(Mail)
    BY MailTyped
  <2> QED
    BY <1>1, <2>1
<1>7. /\ arrived' \in 0 .. Len(Mail) /\ {quiet', due'} \subseteq BOOLEAN /\ fails' \in Nat
      /\ excused' \subseteq Messages \X Excuses /\ faults' \in 0 .. MaxFaults
  BY <1>1, MailTyped
<1>8. /\ check'.at \in {"processing", "sending"} => check'.newest > 0
      /\ check'.at = "sending" => check'.batch # {}
  BY <1>5
<1>9. marked' \subseteq 1 .. arrived' /\ MarkedIsKnown'
  <2>1. account'.seen # 0 /\ account'.seen <= arrived'
    BY <1>1, MailTyped
  <2> QED
    BY <1>1, <2>1, MailTyped DEF MarkedIsKnown
<1> QED
  BY <1>2, <1>3, <1>4, <1>5, <1>6, <1>7, <1>8, <1>9, MailParts

LEMMA MailStep == ASSUME MailInv, [EmailNext]_emailVars PROVE MailInv'
<1>1. CASE Arrive \/ QuietHours \/ TimePasses
  BY <1>1, OutsideStep
<1>2. CASE CheckStarts
  BY <1>2, CheckStartsStep
<1>3. CASE Fetch \/ FetchBreaksOff
  BY <1>3, FetchStep
<1>4. CASE Skip
  BY <1>4, SkipStep
<1>5. CASE Send
  BY <1>5, SendStep
<1>6. CASE Deliver
  BY <1>6, DeliverStep
<1>7. CASE Finish
  BY <1>7, FinishStep
<1>8. CASE NobodyTakesIt
  BY <1>8, NobodyTakesItStep
<1>9. CASE SendRaises
  BY <1>9, CheckFailsStep DEF SendRaises
<1>10. CASE DatabaseFails
  BY <1>10, CheckFailsStep DEF DatabaseFails
<1>11. CASE Crash
  BY <1>11, CrashStep
<1>12. CASE UNCHANGED emailVars
  BY <1>12 DEF emailVars, MailInv, MailSafe, EmailTypeOK, SeenIsAlerted, AlertedOnce, Relevant,
               ErrorsCountTwice, BatchIsDueOrHandled, Handled, DeliveredIsKnown, SendingIsNew,
               Current, MarkedIsKnown, InHand
<1>13. CASE UserReads
  BY <1>13, UserReadsStep
<1> QED
  BY <1>1, <1>2, <1>3, <1>4, <1>5, <1>6, <1>7, <1>8, <1>9, <1>10, <1>11, <1>12, <1>13
     DEF EmailNext, Proceed

\* Every message the account has seen is accounted for, every alert is delivered
\* once unless its recording was lost, and failed checks count twice.
THEOREM MailIsSafe == EmailSpec => []MailSafe
<1>1. EmailInit => MailInv
  BY MailStart
<1>2. MailInv /\ [EmailNext]_emailVars => MailInv'
  BY MailStep
<1>3. MailInv => MailSafe
  BY DEF MailInv
<1> QED
  BY <1>1, <1>2, <1>3, PTL DEF EmailSpec

\* Every variable of the email monitor has its type.
THEOREM EmailTypeCorrect == EmailSpec => []EmailTypeOK
<1>1. EmailInit => MailInv
  BY MailStart
<1>2. MailInv /\ [EmailNext]_emailVars => MailInv'
  BY MailStep
<1>3. MailInv => EmailTypeOK
  BY DEF MailInv
<1> QED
  BY <1>1, <1>2, <1>3, PTL DEF EmailSpec

----------------------------------------------------------------------------
(* One MCP server: its installs, its configuration and its process          *)

Configs   == [by : Installs \cup {Nobody}, cloned : BOOLEAN, enabled : BOOLEAN]
Processes == [state : {"none", "down", "starting", "up"}, config : Configs]
Progress  == {"new", "fetching", "testing npx", "testing again", "testing clone",
              "stopping", "starting", "done", "refused", "failed", "lost"}
InstallRows == [Installs -> [at : Progress, cloned : BOOLEAN]]
Ended     == {"starting", "done", "failed", "lost"}

InstallTypes ==
    /\ file \in Configs /\ remote \in Installs \cup {Nobody}
    /\ clone \in Installs \cup {Nobody} /\ process \in Processes
    /\ install \in InstallRows /\ before \in [Installs -> SUBSET Installs]
    /\ won \subseteq Installs /\ gone \subseteq Installs

\* A file names an install that was not refused, and so does the configuration
\* of a process.
Begun(i) == install[i].at \notin {"new", "refused"}
ConfigsNamed ==
    /\ file.by = Nobody => file = NoFile
    /\ file.by # Nobody => Begun(file.by)
    /\ process.state # "none" => process.config.by # Nobody /\ Begun(process.config.by)

\* Who is where for which way, and what a success leaves.
WaysSound ==
    \A i \in Installs :
      /\ install[i].at = "fetching" => Way[i] = "hosted"
      /\ install[i].at \in Testing \cup {"stopping"} => Way[i] # "hosted"
      /\ i \in won => /\ install[i].at # "new"
                      /\ Way[i] = "hosted" => remote # Nobody
                      /\ Way[i] # "hosted" => file.by # Nobody

\* Of an install under way and another under way or successful, one was
\* under way when the other asked.
RivalsKnown ==
    \A i \in Ongoing : \A j \in Ongoing \cup won :
      i # j => i \in before[j] \/ j \in before[i]

\* An uninstalled server's install is over, and its process runs again only
\* when it was revived or wiped.
GoneSound ==
    /\ \A i \in gone : install[i].at \in Ended
    /\ process.state \in {"starting", "up"} /\ process.config.by \in gone
         => revived \/ process.config.by \in wiped

\* The clone in the directory is that of whoever relies on it, or there is
\* an excuse.
Excused(i) == i \in wiped \cup stripped
ClonesSound ==
    /\ \A i \in Installs :
         install[i].at = "testing clone" \/ (install[i].at = "stopping" /\ install[i].cloned)
           => clone = i \/ i \in wiped
    /\ file.cloned => \/ clone = file.by \/ Excused(file.by)
                      \/ file.by \in gone /\ revived
    /\ process.state # "none" /\ process.config.cloned
         => \/ clone = process.config.by \/ Excused(process.config.by)
            \/ process.config.by \in gone /\ (revived \/ process.state = "down")

\* A process has the configuration in the file, but for what was written over.
ProcessSound ==
    process.state # "none" /\ file.by # Nobody => process.config.by = file.by \/ stale

InstallInv ==
    /\ InstallTypes /\ ConfigsNamed /\ WaysSound /\ RivalsKnown /\ OneInstallWins
    /\ GoneSound /\ UninstalledStaysGone /\ ClonesSound /\ ProcessSound /\ SwitchStands


LEMMA InstallMoves ==
  ASSUME install \in InstallRows, NEW i \in Installs, NEW at \in Progress, Go(i, at)
  PROVE  /\ install' \in InstallRows
         /\ install'[i].at = at /\ install'[i].cloned = install[i].cloned
         /\ \A j \in Installs : j # i => install'[j] = install[j]
  BY DEF InstallRows, Go

LEMMA ProcessStarts ==
  ASSUME InstallTypes, ConfigsNamed, NEW f \in Configs,
         process.state # "none" \/ f.by # Nobody, Start(f)
  PROVE  /\ process' \in Processes /\ process'.config.by # Nobody
         /\ process'.state \in {"starting", "up"}
         /\ process'.config = IF process.state = "none" THEN f ELSE process.config
         /\ revived => revived'
         /\ process'.config.by \in gone => revived'
<1>1. Started(f) \in Processes /\ Started(f).state \in {"starting", "up"}
      /\ Started(f).config = IF process.state = "none" THEN f ELSE process.config
  BY DEF Started, Made, InstallTypes, Processes, Configs
<1>2. process' = Started(f) /\ revived' = (revived \/ Started(f).config.by \in gone)
  BY DEF Start
<1> QED
  BY <1>1, <1>2 DEF ConfigsNamed

LEMMA NoneWonWhileFree ==
  ASSUME InstallInv, ~Exists
  PROVE  won = {} /\ file = NoFile /\ remote = Nobody
  BY DEF InstallInv, InstallTypes, WaysSound, Exists, NoFile

LEMMA ConfigType ==
  ASSUME NEW i \in Installs
  PROVE  Config(i) \in Configs /\ Config(i).by = i /\ Config(i).enabled = TRUE
         /\ (Config(i).cloned <=> install[i].at = "testing clone")
  BY DEF Config, Configs

LEMMA NoFileType ==
  NoFile \in Configs /\ NoFile.by = Nobody /\ ~NoFile.cloned
  BY DEF NoFile, Configs

LEMMA AskKeepsInstall ==
  ASSUME Nobody \notin Installs, InstallInv, NEW i \in Installs, Ask(i)
  PROVE  InstallInv'
<1> DEFINE at == IF ~Free THEN "refused"
                 ELSE IF Way[i] = "hosted" THEN "fetching" ELSE "testing npx"
<1>1. /\ Go(i, at) /\ install[i].at = "new" /\ before' = [before EXCEPT ![i] = Ongoing]
      /\ UNCHANGED <<file, remote, clone, process, won, switched, revived, stale, wiped,
                     gone, stripped>>
  BY DEF Ask
<1>2. /\ install' \in InstallRows
      /\ install'[i].at = at /\ install'[i].cloned = install[i].cloned
      /\ \A j \in Installs : j # i => install'[j] = install[j]
  BY <1>1, InstallMoves DEF InstallInv, InstallTypes, Progress
<1>3. at \in {"refused", "fetching", "testing npx"} /\ (at = "fetching" => Way[i] = "hosted")
      /\ (at = "testing npx" => Way[i] # "hosted") /\ (at # "refused" => won = {})
  BY NoneWonWhileFree DEF Free
<1> HIDE DEF at
<1>4. /\ before' \in [Installs -> SUBSET Installs] /\ before'[i] = Ongoing
      /\ \A j \in Installs : j # i => before'[j] = before[j]
  BY <1>1 DEF InstallInv, InstallTypes, Ongoing
<1>5. InstallTypes'
  BY <1>1, <1>2, <1>3, <1>4 DEF InstallInv, InstallTypes, Configs, Processes, NoFile
<1>6. ConfigsNamed'
  BY <1>1, <1>2, <1>3, <1>4 DEF InstallInv, ConfigsNamed, Begun, InstallTypes, Configs,
       Processes, NoFile, Testing
<1>7. WaysSound'
  BY <1>1, <1>2, <1>3, <1>4 DEF InstallInv, WaysSound, ConfigsNamed, InstallTypes, NoFile,
       Testing
<1>8. RivalsKnown'
  BY <1>1, <1>2, <1>3, <1>4, ZenonT(40) DEF InstallInv, RivalsKnown, InstallTypes, Ongoing, Testing
<1>9. OneInstallWins'
  <2>1. i \notin won
    BY <1>1 DEF InstallInv, WaysSound
  <2>2. won' = won /\ \A j \in won : before'[j] = before[j]
    BY <2>1, <1>1, <1>4 DEF InstallInv, InstallTypes
  <2> QED
    BY <2>2 DEF InstallInv, OneInstallWins
<1>10. GoneSound'
  BY <1>1, <1>2, <1>3, <1>4 DEF InstallInv, GoneSound, UninstalledStaysGone, ConfigsNamed,
       InstallTypes, Ended, Testing
<1>11. UninstalledStaysGone'
  BY <1>1, <1>2, <1>3, <1>4 DEF InstallInv, GoneSound, UninstalledStaysGone, ConfigsNamed,
       InstallTypes, Ended, Testing, NoFile
<1>12. ClonesSound'
  BY <1>1, <1>2, <1>3, <1>4 DEF InstallInv, ClonesSound, Excused, GoneSound, ConfigsNamed,
       InstallTypes, Ended, Testing, NoFile
<1>13. ProcessSound'
  BY <1>1, <1>2, <1>3, <1>4 DEF InstallInv, ProcessSound, ConfigsNamed, InstallTypes, NoFile
<1>14. SwitchStands'
  BY <1>1, <1>2, <1>3, <1>4 DEF InstallInv, SwitchStands, InstallTypes, Configs
<1> QED
  BY <1>5, <1>6, <1>7, <1>8, <1>9, <1>10, <1>11, <1>12, <1>13, <1>14 DEF InstallInv

LEMMA SaveRemoteKeepsInstall ==
  ASSUME Nobody \notin Installs, InstallInv, NEW i \in Installs, SaveRemote(i)
  PROVE  InstallInv'
<1>1. /\ install[i].at = "fetching" /\ remote' = i /\ won' = won \cup {i} /\ Go(i, "done")
      /\ UNCHANGED <<file, clone, process, switched, revived, stale, wiped, before, gone, stripped>>
  BY DEF SaveRemote
<1>2. /\ install' \in InstallRows
      /\ install'[i].at = "done" /\ install'[i].cloned = install[i].cloned
      /\ \A j \in Installs : j # i => install'[j] = install[j]
  BY <1>1, InstallMoves DEF InstallInv, InstallTypes, Progress
<1>3. InstallTypes'
  BY <1>1, <1>2 DEF InstallInv, InstallTypes, Configs, Processes, NoFile
<1>4. ConfigsNamed'
  BY <1>1, <1>2 DEF InstallInv, ConfigsNamed, Begun, InstallTypes, Configs, Processes,
       NoFile, Testing
<1>5. WaysSound'
  BY <1>1, <1>2 DEF InstallInv, WaysSound, ConfigsNamed, InstallTypes, NoFile, Testing
<1>6. RivalsKnown'
  BY <1>1, <1>2 DEF InstallInv, RivalsKnown, InstallTypes, Ongoing, Testing
<1>7. OneInstallWins'
  <2>1. i \in Ongoing
    BY <1>1 DEF Ongoing
  <2>2. \A j \in won : i # j => i \in before[j] \/ j \in before[i]
    BY <2>1 DEF InstallInv, RivalsKnown
  <2>3. \A j, k \in won : j # k => j \in before[k] \/ k \in before[j]
    BY DEF InstallInv, OneInstallWins
  <2> QED
    BY <1>1, <2>2, <2>3 DEF OneInstallWins
<1>8. GoneSound'
  BY <1>1, <1>2 DEF InstallInv, GoneSound, UninstalledStaysGone, ConfigsNamed,
       InstallTypes, Ended, Testing
<1>9. UninstalledStaysGone'
  BY <1>1, <1>2 DEF InstallInv, GoneSound, UninstalledStaysGone, ConfigsNamed,
       InstallTypes, Ended, Testing, NoFile
<1>10. ClonesSound'
  BY <1>1, <1>2 DEF InstallInv, ClonesSound, Excused, GoneSound, ConfigsNamed,
       InstallTypes, Ended, Testing, NoFile
<1>11. ProcessSound'
  BY <1>1, <1>2 DEF InstallInv, ProcessSound, ConfigsNamed, InstallTypes, NoFile
<1>12. SwitchStands'
  BY <1>1, <1>2 DEF InstallInv, SwitchStands, InstallTypes, Configs
<1> QED
  BY <1>3, <1>4, <1>5, <1>6, <1>7, <1>8, <1>9, <1>10, <1>11, <1>12 DEF InstallInv

LEMMA TestFindsKeepsInstall ==
  ASSUME Nobody \notin Installs, InstallInv, NEW i \in Installs, TestFinds(i)
  PROVE  InstallInv'
<1>1. /\ install[i].at \in Testing /\ Write(Config(i))
      /\ UNCHANGED <<remote, clone, process, won, revived, wiped, before, gone, stripped>>
  BY DEF TestFinds
<1>2. /\ file' = Config(i) /\ switched' = "no"
      /\ stale' = (stale \/ (process.state # "none" /\ process.config # Config(i)))
  BY <1>1 DEF Write
<1>3. /\ Config(i) \in Configs /\ Config(i).by = i
      /\ Config(i).cloned <=> install[i].at = "testing clone"
  BY ConfigType
<1>4. /\ install' \in InstallRows /\ install'[i].at = "stopping"
      /\ install'[i].cloned <=> install[i].at = "testing clone"
      /\ \A j \in Installs : j # i => install'[j] = install[j]
  BY DEF TestFinds, InstallInv, InstallTypes, InstallRows, Progress
<1>5. InstallTypes'
  BY <1>1, <1>2, <1>3, <1>4 DEF InstallInv, InstallTypes, Configs, Processes, NoFile
<1>6. ConfigsNamed'
  BY <1>1, <1>2, <1>3, <1>4 DEF InstallInv, ConfigsNamed, Begun, InstallTypes, Configs,
       Processes, NoFile, Testing
<1>7. WaysSound'
  BY <1>1, <1>2, <1>3, <1>4 DEF InstallInv, WaysSound, ConfigsNamed, InstallTypes, NoFile,
       Testing
<1>8. RivalsKnown'
  BY <1>1, <1>2, <1>3, <1>4 DEF InstallInv, RivalsKnown, InstallTypes, Ongoing, Testing
<1>9. OneInstallWins'
  BY <1>1, <1>2, <1>3, <1>4 DEF InstallInv, OneInstallWins, RivalsKnown, InstallTypes,
       Ongoing, Testing
<1>10. GoneSound'
  BY <1>1, <1>2, <1>3, <1>4 DEF InstallInv, GoneSound, UninstalledStaysGone, ConfigsNamed,
       InstallTypes, Ended, Testing
<1>11. UninstalledStaysGone'
  BY <1>1, <1>2, <1>3, <1>4 DEF InstallInv, GoneSound, UninstalledStaysGone, ConfigsNamed,
       InstallTypes, Ended, Testing, NoFile
<1>12. ClonesSound'
  BY <1>1, <1>2, <1>3, <1>4 DEF InstallInv, ClonesSound, Excused, GoneSound, ConfigsNamed,
       InstallTypes, Ended, Testing, NoFile
<1>13. ProcessSound'
  BY <1>1, <1>2, <1>3, <1>4 DEF InstallInv, ProcessSound, ConfigsNamed, InstallTypes, NoFile
<1>14. SwitchStands'
  BY <1>1, <1>2, <1>3, <1>4 DEF InstallInv, SwitchStands, InstallTypes, Configs
<1> QED
  BY <1>5, <1>6, <1>7, <1>8, <1>9, <1>10, <1>11, <1>12, <1>13, <1>14 DEF InstallInv

LEMMA SaveKeepsInstall ==
  ASSUME Nobody \notin Installs, InstallInv, NEW i \in Installs, Save(i)
  PROVE  InstallInv'
<1> DEFINE config == [by |-> i, cloned |-> install[i].cloned, enabled |-> TRUE]
<1>1. /\ install[i].at = "stopping" /\ Write(config) /\ won' = won \cup {i} /\ Go(i, "starting")
      /\ UNCHANGED <<remote, clone, process, revived, wiped, before, gone, stripped>>
  BY DEF Save
<1>2. /\ file' = config /\ switched' = "no"
      /\ stale' = (stale \/ (process.state # "none" /\ process.config # config))
  BY <1>1 DEF Write
<1>3. config \in Configs /\ config.by = i /\ config.cloned = install[i].cloned
  BY DEF InstallInv, InstallTypes, InstallRows, Configs
<1> HIDE DEF config
<1>4. /\ install' \in InstallRows
      /\ install'[i].at = "starting" /\ install'[i].cloned = install[i].cloned
      /\ \A j \in Installs : j # i => install'[j] = install[j]
  BY <1>1, InstallMoves DEF InstallInv, InstallTypes, Progress
<1>5. InstallTypes'
  BY <1>1, <1>2, <1>3, <1>4 DEF InstallInv, InstallTypes, Configs, Processes, NoFile
<1>6. ConfigsNamed'
  BY <1>1, <1>2, <1>3, <1>4 DEF InstallInv, ConfigsNamed, Begun, InstallTypes, Configs,
       Processes, NoFile, Testing
<1>7. WaysSound'
  BY <1>1, <1>2, <1>3, <1>4 DEF InstallInv, WaysSound, ConfigsNamed, InstallTypes, NoFile,
       Testing
<1>8. RivalsKnown'
  BY <1>1, <1>2, <1>3, <1>4, ZenonT(40) DEF InstallInv, RivalsKnown, InstallTypes, Ongoing, Testing
<1>9. OneInstallWins'
  <2>1. i \in Ongoing
    BY <1>1 DEF Ongoing
  <2>2. \A j \in won : i # j => i \in before[j] \/ j \in before[i]
    BY <2>1 DEF InstallInv, RivalsKnown
  <2>3. \A j, k \in won : j # k => j \in before[k] \/ k \in before[j]
    BY DEF InstallInv, OneInstallWins
  <2> QED
    BY <1>1, <2>2, <2>3 DEF OneInstallWins
<1>10. GoneSound'
  BY <1>1, <1>2, <1>3, <1>4 DEF InstallInv, GoneSound, UninstalledStaysGone, ConfigsNamed,
       InstallTypes, Ended, Testing
<1>11. UninstalledStaysGone'
  BY <1>1, <1>2, <1>3, <1>4 DEF InstallInv, GoneSound, UninstalledStaysGone, ConfigsNamed,
       InstallTypes, Ended, Testing, NoFile
<1>12. ClonesSound'
  BY <1>1, <1>2, <1>3, <1>4 DEF InstallInv, ClonesSound, Excused, GoneSound, ConfigsNamed,
       InstallTypes, Ended, Testing, NoFile
<1>13. ProcessSound'
  BY <1>1, <1>2, <1>3, <1>4 DEF InstallInv, ProcessSound, ConfigsNamed, InstallTypes, NoFile
<1>14. SwitchStands'
  BY <1>1, <1>2, <1>3, <1>4 DEF InstallInv, SwitchStands, InstallTypes, Configs
<1> QED
  BY <1>5, <1>6, <1>7, <1>8, <1>9, <1>10, <1>11, <1>12, <1>13, <1>14 DEF InstallInv

LEMMA FailureCases ==
  ASSUME Nobody \notin Installs, InstallInv, NEW i \in Installs, NEW wrote \in BOOLEAN,
         TestFails(i, wrote)
  PROVE  /\ install[i].at \in Testing
         /\ UNCHANGED <<remote, process, revived, before, gone>>
         /\ \/ /\ Go(i, "testing again") \/ Go(i, "failed")
               /\ install[i].at # "testing clone"
               /\ Keep \/ Write(Config(i))
               /\ UNCHANGED <<clone, won, wiped, stripped>>
            \/ /\ Go(i, "testing clone") /\ clone' = i /\ clone = Nobody /\ Keep
               /\ file = NoFile /\ install[i].at # "testing clone"
               /\ UNCHANGED <<won, wiped, stripped>>
            \/ /\ Go(i, "failed") /\ RemoveDirectory /\ UNCHANGED stale
               /\ stripped' = stripped \cup ({process.config.by} \ {Nobody})
<1>1. install[i].at \in Testing /\ UNCHANGED <<remote, process, revived, before, gone>>
  BY DEF TestFails
<1>2. CASE install[i].at = "testing npx" /\ Way[i] = "smithery"
  BY <1>2 DEF TestFails
<1>3. CASE install[i].at = "testing npx" /\ Way[i] = "github"
  BY <1>3 DEF TestFails, Clone, Directory
<1>4. CASE install[i].at = "testing clone"
  BY <1>4 DEF TestFails
<1>5. CASE /\ install[i].at # "testing clone"
           /\ ~(install[i].at = "testing npx" /\ Way[i] \in {"smithery", "github"})
  BY <1>5 DEF TestFails
<1> QED
  BY <1>1, <1>2, <1>3, <1>4, <1>5 DEF Testing

LEMMA FailedTestKeepsInstall ==
  ASSUME Nobody \notin Installs, InstallInv, NEW i \in Installs,
         install[i].at \in {"testing npx", "testing again"},
         NEW at \in {"testing again", "failed"}, Go(i, at), Keep \/ Write(Config(i)),
         UNCHANGED <<remote, process, revived, before, gone, clone, won, wiped, stripped>>
  PROVE  InstallInv'
<1>1. \/ UNCHANGED <<file, switched, stale>>
      \/ /\ file' = Config(i) /\ switched' = "no"
         /\ stale' = (stale \/ (process.state # "none" /\ process.config # Config(i)))
  BY DEF Keep, Write
<1>2. /\ install' \in InstallRows
      /\ install'[i].at = at /\ install'[i].cloned = install[i].cloned
      /\ \A j \in Installs : j # i => install'[j] = install[j]
  BY InstallMoves DEF InstallInv, InstallTypes, Progress
<1>3. /\ Config(i) \in Configs /\ Config(i).by = i /\ ~Config(i).cloned
  BY ConfigType
<1>4. InstallTypes'
  BY <1>1, <1>2, <1>3 DEF InstallInv, InstallTypes, Configs, Processes, NoFile
<1>5. ConfigsNamed'
  BY <1>1, <1>2, <1>3, ZenonT(40) DEF InstallInv, ConfigsNamed, Begun, InstallTypes, Configs,
       Processes, NoFile, Testing
<1>6. WaysSound'
  BY <1>1, <1>2, <1>3 DEF InstallInv, WaysSound, ConfigsNamed, InstallTypes, NoFile, Testing
<1>7. RivalsKnown'
  BY <1>1, <1>2, <1>3 DEF InstallInv, RivalsKnown, InstallTypes, Ongoing, Testing
<1>8. OneInstallWins'
  BY <1>1, <1>2, <1>3 DEF InstallInv, OneInstallWins, RivalsKnown, InstallTypes, Ongoing,
       Testing
<1>9. GoneSound'
  BY <1>1, <1>2, <1>3 DEF InstallInv, GoneSound, UninstalledStaysGone, ConfigsNamed,
       InstallTypes, Ended, Testing
<1>10. UninstalledStaysGone'
  BY <1>1, <1>2, <1>3 DEF InstallInv, GoneSound, UninstalledStaysGone, ConfigsNamed,
       InstallTypes, Ended, Testing, NoFile
<1>11. ClonesSound'
  BY <1>1, <1>2, <1>3 DEF InstallInv, ClonesSound, Excused, GoneSound, ConfigsNamed,
       InstallTypes, Ended, Testing, NoFile
<1>12. ProcessSound'
  BY <1>1, <1>2, <1>3 DEF InstallInv, ProcessSound, ConfigsNamed, InstallTypes, NoFile
<1>13. SwitchStands'
  BY <1>1 DEF InstallInv, SwitchStands, InstallTypes, Configs
<1> QED
  BY <1>4, <1>5, <1>6, <1>7, <1>8, <1>9, <1>10, <1>11, <1>12, <1>13 DEF InstallInv

LEMMA CloningKeepsInstall ==
  ASSUME Nobody \notin Installs, InstallInv, NEW i \in Installs,
         install[i].at \in {"testing npx", "testing again"},
         Go(i, "testing clone"), clone' = i, clone = Nobody, file = NoFile,
         UNCHANGED <<remote, process, revived, before, gone, file, switched, stale,
                     won, wiped, stripped>>
  PROVE  InstallInv'
<1>1. clone # i /\ file.by = Nobody /\ ~file.cloned
  BY NoFileType
<1>2. /\ install' \in InstallRows
      /\ install'[i].at = "testing clone" /\ install'[i].cloned = install[i].cloned
      /\ \A j \in Installs : j # i => install'[j] = install[j]
  BY <1>1, InstallMoves DEF InstallInv, InstallTypes, Progress
<1>3. InstallTypes'
  BY <1>1, <1>2 DEF InstallInv, InstallTypes, Configs, Processes, NoFile
<1>4. ConfigsNamed'
  BY <1>1, <1>2 DEF InstallInv, ConfigsNamed, Begun, InstallTypes, Configs, Processes,
       NoFile, Testing
<1>5. WaysSound'
  BY <1>1, <1>2 DEF InstallInv, WaysSound, ConfigsNamed, InstallTypes, NoFile, Testing
<1>6. RivalsKnown'
  BY <1>1, <1>2 DEF InstallInv, RivalsKnown, InstallTypes, Ongoing, Testing
<1>7. OneInstallWins'
  BY <1>1, <1>2 DEF InstallInv, OneInstallWins, RivalsKnown, InstallTypes, Ongoing, Testing
<1>8. GoneSound'
  BY <1>1, <1>2 DEF InstallInv, GoneSound, UninstalledStaysGone, ConfigsNamed,
       InstallTypes, Ended, Testing
<1>9. UninstalledStaysGone'
  BY <1>1, <1>2 DEF InstallInv, GoneSound, UninstalledStaysGone, ConfigsNamed,
       InstallTypes, Ended, Testing, NoFile
<1>10. ClonesSound'
  BY <1>1, <1>2 DEF InstallInv, ClonesSound, Excused, GoneSound, ConfigsNamed,
       InstallTypes, Ended, Testing, NoFile
<1>11. ProcessSound'
  BY <1>1, <1>2 DEF InstallInv, ProcessSound, ConfigsNamed, InstallTypes, NoFile
<1>12. SwitchStands'
  BY <1>1, <1>2 DEF InstallInv, SwitchStands, InstallTypes, Configs
<1> QED
  BY <1>3, <1>4, <1>5, <1>6, <1>7, <1>8, <1>9, <1>10, <1>11, <1>12 DEF InstallInv

LEMMA FailedCloneKeepsInstall ==
  ASSUME Nobody \notin Installs, InstallInv, NEW i \in Installs,
         install[i].at \in Testing, Go(i, "failed"), RemoveDirectory,
         stripped' = stripped \cup ({process.config.by} \ {Nobody}),
         UNCHANGED <<remote, process, revived, before, gone, stale>>
  PROVE  InstallInv'
<1>1. /\ file' = NoFile /\ clone' = Nobody /\ switched' = "no"
      /\ won' = {j \in won : Way[j] = "hosted"} /\ wiped' = wiped \cup Ongoing
  BY DEF RemoveDirectory
<1>2. /\ install' \in InstallRows
      /\ install'[i].at = "failed" /\ install'[i].cloned = install[i].cloned
      /\ \A j \in Installs : j # i => install'[j] = install[j]
  BY <1>1, InstallMoves DEF InstallInv, InstallTypes, Progress
<1>3. NoFile \in Configs /\ NoFile.by = Nobody /\ ~NoFile.cloned
  BY NoFileType
<1>4. InstallTypes'
  BY <1>1, <1>2, <1>3 DEF InstallInv, InstallTypes, Configs, Processes, NoFile
<1>5. ConfigsNamed'
  BY <1>1, <1>2, <1>3 DEF InstallInv, ConfigsNamed, Begun, InstallTypes, Configs,
       Processes, NoFile, Testing
<1>6. WaysSound'
  BY <1>1, <1>2, <1>3 DEF InstallInv, WaysSound, ConfigsNamed, InstallTypes, NoFile, Testing
<1>7. RivalsKnown'
  BY <1>1, <1>2, <1>3 DEF InstallInv, RivalsKnown, InstallTypes, Ongoing, Testing
<1>8. OneInstallWins'
  BY <1>1, <1>2, <1>3 DEF InstallInv, OneInstallWins, RivalsKnown, InstallTypes, Ongoing,
       Testing
<1>9. GoneSound'
  BY <1>1, <1>2, <1>3 DEF InstallInv, GoneSound, UninstalledStaysGone, ConfigsNamed,
       InstallTypes, Ended, Testing
<1>10. UninstalledStaysGone'
  BY <1>1, <1>2, <1>3 DEF InstallInv, GoneSound, UninstalledStaysGone, ConfigsNamed,
       InstallTypes, Ended, Testing, NoFile
<1>11. ClonesSound'
  BY <1>1, <1>2, <1>3 DEF InstallInv, ClonesSound, Excused, GoneSound, ConfigsNamed,
       InstallTypes, Ended, Testing, NoFile, Ongoing
<1>12. ProcessSound'
  BY <1>1, <1>2, <1>3 DEF InstallInv, ProcessSound, ConfigsNamed, InstallTypes, NoFile
<1>13. SwitchStands'
  BY <1>1, <1>2, <1>3 DEF InstallInv, SwitchStands, InstallTypes, Configs
<1> QED
  BY <1>4, <1>5, <1>6, <1>7, <1>8, <1>9, <1>10, <1>11, <1>12, <1>13 DEF InstallInv

LEMMA TestFailsKeepsInstall ==
  ASSUME Nobody \notin Installs, InstallInv, NEW i \in Installs, NEW wrote \in BOOLEAN,
         TestFails(i, wrote)
  PROVE  InstallInv'
<1>1. CASE /\ Go(i, "testing again") \/ Go(i, "failed")
           /\ install[i].at \in {"testing npx", "testing again"}
           /\ Keep \/ Write(Config(i))
           /\ UNCHANGED <<clone, won, wiped, stripped>>
  BY <1>1, FailureCases, FailedTestKeepsInstall
<1>2. CASE /\ Go(i, "testing clone") /\ clone' = i /\ clone = Nobody /\ Keep
           /\ file = NoFile /\ install[i].at \in {"testing npx", "testing again"}
           /\ UNCHANGED <<won, wiped, stripped>>
  BY <1>2, FailureCases, CloningKeepsInstall DEF Keep
<1>3. CASE /\ Go(i, "failed") /\ RemoveDirectory /\ UNCHANGED stale
           /\ stripped' = stripped \cup ({process.config.by} \ {Nobody})
  BY <1>3, FailureCases, FailedCloneKeepsInstall
<1> QED
  BY <1>1, <1>2, <1>3, FailureCases DEF Testing

LEMMA StartInstalledKeepsInstall ==
  ASSUME Nobody \notin Installs, InstallInv, NEW i \in Installs, StartInstalled(i)
  PROVE  InstallInv'
<1>1. /\ install[i].at = "starting" /\ Go(i, "done")
      /\ UNCHANGED <<file, remote, clone, won, switched, stale, wiped, before, gone, stripped>>
  BY DEF StartInstalled
<1>2. /\ install' \in InstallRows
      /\ install'[i].at = "done" /\ install'[i].cloned = install[i].cloned
      /\ \A j \in Installs : j # i => install'[j] = install[j]
  BY <1>1, InstallMoves DEF InstallInv, InstallTypes, Progress
<1>3. /\ process' \in Processes /\ (process'.state # "none" => process'.config.by # Nobody)
      /\ process'.state # "none"
           => process'.config = IF process.state = "none" THEN file ELSE process.config
      /\ process'.state = "down" => process.state = "down" /\ revived' = revived
      /\ revived => revived'
      /\ process'.state \in {"starting", "up"} /\ process'.config.by \in gone
           => revived' \/ process'.config.by \in wiped
  <2>1. CASE file = NoFile
    BY <2>1 DEF StartInstalled, InstallInv, InstallTypes, ConfigsNamed, GoneSound
  <2>2. CASE file # NoFile
    <3>1. Start(file) /\ file.by # Nobody /\ file \in Configs
      BY <2>2 DEF StartInstalled, InstallInv, InstallTypes, ConfigsNamed
    <3> QED
      BY <3>1, ProcessStarts DEF InstallInv
  <2> QED
    BY <2>1, <2>2
<1>4. InstallTypes'
  BY <1>1, <1>2, <1>3 DEF InstallInv, InstallTypes, Configs, Processes, NoFile
<1>5. ConfigsNamed'
  BY <1>1, <1>2, <1>3 DEF InstallInv, ConfigsNamed, Begun, InstallTypes, Configs,
       Processes, NoFile, Testing
<1>6. WaysSound'
  BY <1>1, <1>2, <1>3 DEF InstallInv, WaysSound, ConfigsNamed, InstallTypes, NoFile, Testing
<1>7. RivalsKnown'
  BY <1>1, <1>2, <1>3 DEF InstallInv, RivalsKnown, InstallTypes, Ongoing, Testing
<1>8. OneInstallWins'
  BY <1>1, <1>2, <1>3 DEF InstallInv, OneInstallWins, RivalsKnown, InstallTypes, Ongoing,
       Testing
<1>9. GoneSound'
  BY <1>1, <1>2, <1>3 DEF InstallInv, GoneSound, UninstalledStaysGone, ConfigsNamed,
       InstallTypes, Ended, Testing
<1>10. UninstalledStaysGone'
  BY <1>1, <1>2, <1>3 DEF InstallInv, GoneSound, UninstalledStaysGone, ConfigsNamed,
       InstallTypes, Ended, Testing, NoFile
<1>11. ClonesSound'
  <2>1. process'.state # "none" /\ process'.config.cloned
           => \/ clone = process'.config.by \/ Excused(process'.config.by)
              \/ process'.config.by \in gone /\ (revived' \/ process'.state = "down")
    <3>1. CASE process'.state = "down"
      BY <3>1, <1>1, <1>2, <1>3 DEF InstallInv, ClonesSound, Excused
    <3>2. CASE process'.state \in {"starting", "up"} /\ process.state = "none"
      BY <3>2, <1>1, <1>2, <1>3 DEF InstallInv, ClonesSound, Excused
    <3>3. CASE process'.state \in {"starting", "up"} /\ process.state # "none"
      BY <3>3, <1>1, <1>2, <1>3 DEF InstallInv, ClonesSound, Excused
    <3> QED
      BY <3>1, <3>2, <3>3, <1>1, <1>2, <1>3 DEF Processes
  <2> QED
    BY <2>1, <1>1, <1>2, <1>3 DEF InstallInv, ClonesSound, Excused
<1>12. ProcessSound'
  BY <1>1, <1>2, <1>3 DEF InstallInv, ProcessSound, ConfigsNamed, InstallTypes, NoFile
<1>13. SwitchStands'
  BY <1>1, <1>2, <1>3 DEF InstallInv, SwitchStands, InstallTypes, Configs
<1> QED
  BY <1>4, <1>5, <1>6, <1>7, <1>8, <1>9, <1>10, <1>11, <1>12, <1>13 DEF InstallInv

LEMMA StartAgainKeepsInstall ==
  ASSUME Nobody \notin Installs, InstallInv, StartAgain
  PROVE  InstallInv'
<1>1. UNCHANGED <<file, remote, clone, install, won, switched, stale, wiped, before,
                     gone, stripped>>
  BY DEF StartAgain
<1>2. /\ process' \in Processes /\ (process'.state # "none" => process'.config.by # Nobody)
      /\ process'.state # "none"
           => process'.config = IF process.state = "none" THEN file ELSE process.config
      /\ process'.state = "down" => process.state = "down" /\ revived' = revived
      /\ revived => revived'
      /\ process'.state \in {"starting", "up"} /\ process'.config.by \in gone
           => revived' \/ process'.config.by \in wiped
  <2>1. Start(file) /\ (process.state # "none" \/ file.by # Nobody) /\ file \in Configs
    BY DEF StartAgain, InstallInv, InstallTypes, ConfigsNamed
  <2> QED
    BY <2>1, ProcessStarts DEF InstallInv
<1>3. InstallTypes'
  BY <1>1, <1>2 DEF InstallInv, InstallTypes, Configs, Processes, NoFile
<1>4. ConfigsNamed'
  BY <1>1, <1>2 DEF InstallInv, ConfigsNamed, Begun, InstallTypes, Configs, Processes,
       NoFile, Testing
<1>5. WaysSound'
  BY <1>1, <1>2 DEF InstallInv, WaysSound, ConfigsNamed, InstallTypes, NoFile, Testing
<1>6. RivalsKnown'
  BY <1>1, <1>2 DEF InstallInv, RivalsKnown, InstallTypes, Ongoing, Testing
<1>7. OneInstallWins'
  BY <1>1, <1>2 DEF InstallInv, OneInstallWins, RivalsKnown, InstallTypes, Ongoing, Testing
<1>8. GoneSound'
  BY <1>1, <1>2 DEF InstallInv, GoneSound, UninstalledStaysGone, ConfigsNamed,
       InstallTypes, Ended, Testing
<1>9. UninstalledStaysGone'
  BY <1>1, <1>2 DEF InstallInv, GoneSound, UninstalledStaysGone, ConfigsNamed,
       InstallTypes, Ended, Testing, NoFile
<1>10. ClonesSound'
  <2>1. process'.state # "none" /\ process'.config.cloned
           => \/ clone = process'.config.by \/ Excused(process'.config.by)
              \/ process'.config.by \in gone /\ (revived' \/ process'.state = "down")
    <3>1. CASE process'.state = "down"
      BY <3>1, <1>1, <1>2 DEF InstallInv, ClonesSound, Excused
    <3>2. CASE process'.state \in {"starting", "up"} /\ process.state = "none"
      BY <3>2, <1>1, <1>2 DEF InstallInv, ClonesSound, Excused
    <3>3. CASE process'.state \in {"starting", "up"} /\ process.state # "none"
      BY <3>3, <1>1, <1>2 DEF InstallInv, ClonesSound, Excused
    <3> QED
      BY <3>1, <3>2, <3>3, <1>1, <1>2 DEF Processes
  <2> QED
    BY <2>1, <1>1, <1>2 DEF InstallInv, ClonesSound, Excused
<1>11. ProcessSound'
  BY <1>1, <1>2 DEF InstallInv, ProcessSound, ConfigsNamed, InstallTypes, NoFile
<1>12. SwitchStands'
  BY <1>1, <1>2 DEF InstallInv, SwitchStands, InstallTypes, Configs
<1> QED
  BY <1>3, <1>4, <1>5, <1>6, <1>7, <1>8, <1>9, <1>10, <1>11, <1>12 DEF InstallInv

LEMMA ProcessSavesKeepsInstall ==
  ASSUME Nobody \notin Installs, InstallInv, NEW to \in {"up", "down"}, ProcessSaves(to)
  PROVE  InstallInv'
<1>1. /\ process.state = "starting" /\ process'.state = to /\ process'.config = process.config
      /\ process' \in Processes /\ file' = process.config /\ switched' = "no"
      /\ UNCHANGED <<remote, clone, install, won, revived, stale, wiped, before, gone, stripped>>
  BY DEF ProcessSaves, InstallInv, InstallTypes, Processes
<1>2. InstallTypes'
  BY <1>1 DEF InstallInv, InstallTypes, Configs, Processes, NoFile
<1>3. ConfigsNamed'
  BY <1>1 DEF InstallInv, ConfigsNamed, Begun, InstallTypes, Configs, Processes, NoFile,
       Testing
<1>4. WaysSound'
  BY <1>1 DEF InstallInv, WaysSound, ConfigsNamed, InstallTypes, NoFile, Testing
<1>5. RivalsKnown'
  BY <1>1 DEF InstallInv, RivalsKnown, InstallTypes, Ongoing, Testing
<1>6. OneInstallWins'
  BY <1>1 DEF InstallInv, OneInstallWins, RivalsKnown, InstallTypes, Ongoing, Testing
<1>7. GoneSound'
  BY <1>1 DEF InstallInv, GoneSound, UninstalledStaysGone, ConfigsNamed, InstallTypes,
       Ended, Testing
<1>8. UninstalledStaysGone'
  BY <1>1 DEF InstallInv, GoneSound, UninstalledStaysGone, ConfigsNamed, InstallTypes,
       Ended, Testing, NoFile
<1>9. ClonesSound'
  BY <1>1 DEF InstallInv, ClonesSound, Excused, GoneSound, ConfigsNamed, InstallTypes,
       Ended, Testing, NoFile
<1>10. ProcessSound'
  BY <1>1 DEF InstallInv, ProcessSound, ConfigsNamed, InstallTypes, NoFile
<1>11. SwitchStands'
  BY <1>1 DEF InstallInv, SwitchStands, InstallTypes, Configs
<1> QED
  BY <1>2, <1>3, <1>4, <1>5, <1>6, <1>7, <1>8, <1>9, <1>10, <1>11 DEF InstallInv

LEMMA RebootKeepsInstall ==
  ASSUME Nobody \notin Installs, InstallInv, NEW crash \in BOOLEAN, Reboot(crash)
  PROVE  InstallInv'
<1>1. /\ file' = Left(crash) /\ switched' = IF Left(crash) = file THEN switched ELSE "no"
      /\ process' = IF Left(crash).enabled THEN Made(Left(crash)) ELSE NoProcess
      /\ UNCHANGED <<remote, clone, won, revived, wiped, before, gone, stripped>>
  BY DEF Reboot
<1>2. /\ Left(crash) \in Configs
      /\ Left(crash) = file \/ (process.state = "up" /\ Left(crash) = process.config)
  BY DEF Left, InstallInv, InstallTypes, Processes
<1>3. /\ process' \in Processes
      /\ process'.state \in {"none", "starting"}
      /\ process'.state = "starting" => process'.config = file' /\ file'.enabled
  BY <1>1, <1>2 DEF Made, NoProcess, Processes, Configs, NoFile
<1>4. file'.by = Nobody => file' = NoFile /\ ~file'.enabled
  BY <1>1, <1>2 DEF InstallInv, ConfigsNamed, NoFile
<1>5. /\ install' \in InstallRows
      /\ \A j \in Installs :
           \/ install'[j] = install[j] /\ j \notin Ongoing /\ install[j].at # "starting"
           \/ /\ install'[j].at = "lost" /\ install'[j].cloned = install[j].cloned
              /\ install[j].at # "new"
  BY DEF Reboot, InstallInv, InstallTypes, InstallRows, Progress, Ongoing, Testing
<1>6. InstallTypes'
  BY <1>1, <1>2, <1>3, <1>4, <1>5 DEF InstallInv, InstallTypes, Configs, Processes, NoFile
<1>7. ConfigsNamed'
  <2>1. \A j \in Installs : Begun(j) => Begun(j)'
    BY <1>5 DEF Begun
  <2>2. file'.by # Nobody => file'.by \in Installs /\ Begun(file'.by)
    BY <1>1, <1>2 DEF InstallInv, ConfigsNamed, InstallTypes, Processes, Configs
  <2>3. file'.by # Nobody => file'.by \in Installs /\ install'[file'.by].at \notin {"new", "refused"}
    BY <2>1, <2>2 DEF Begun
  <2> QED
    BY <1>3, <1>4, <2>3 DEF ConfigsNamed, Begun
<1>8. WaysSound'
  BY <1>1, <1>2, <1>3, <1>4, <1>5 DEF InstallInv, WaysSound, ConfigsNamed, InstallTypes,
       NoFile, Testing
<1>9. RivalsKnown'
  BY <1>1, <1>2, <1>3, <1>4, <1>5 DEF InstallInv, RivalsKnown, InstallTypes, Ongoing,
       Testing
<1>10. OneInstallWins'
  BY <1>1, <1>2, <1>3, <1>4, <1>5 DEF InstallInv, OneInstallWins, RivalsKnown,
       InstallTypes, Ongoing, Testing
<1>11. GoneSound'
  BY <1>1, <1>2, <1>3, <1>4, <1>5 DEF InstallInv, GoneSound, UninstalledStaysGone,
       ConfigsNamed, InstallTypes, Ended, Testing
<1>12. UninstalledStaysGone'
  BY <1>1, <1>2, <1>3, <1>4, <1>5 DEF InstallInv, GoneSound, UninstalledStaysGone,
       ConfigsNamed, InstallTypes, Ended, Testing, NoFile
<1>13. ClonesSound'
  BY <1>1, <1>2, <1>3, <1>4, <1>5 DEF InstallInv, ClonesSound, Excused, GoneSound,
       ConfigsNamed, InstallTypes, Ended, Testing, NoFile
<1>14. ProcessSound'
  BY <1>1, <1>2, <1>3, <1>4, <1>5 DEF InstallInv, ProcessSound, ConfigsNamed,
       InstallTypes, NoFile
<1>15. SwitchStands'
  BY <1>1, <1>2, <1>3, <1>4, <1>5 DEF InstallInv, SwitchStands, InstallTypes, Configs
<1> QED
  BY <1>6, <1>7, <1>8, <1>9, <1>10, <1>11, <1>12, <1>13, <1>14, <1>15 DEF InstallInv

LEMMA UninstallKeepsInstall ==
  ASSUME Nobody \notin Installs, InstallInv, Uninstall
  PROVE  InstallInv'
<1>1. /\ revived' = FALSE /\ process' = Stopped /\ process.state # "starting"
      /\ gone' = {i \in Installs : install[i].at \in {"starting", "done", "failed", "lost"}}
      /\ UNCHANGED <<install, stale, before, stripped>>
  BY DEF Uninstall, Called, Halted
<1>2. \/ /\ file' = NoFile /\ clone' = Nobody /\ switched' = "no" /\ remote' = remote
         /\ won' = {i \in won : Way[i] = "hosted"} /\ wiped' = wiped \cup Ongoing
      \/ /\ file = NoFile /\ remote' = Nobody /\ won' = {i \in won : Way[i] # "hosted"}
         /\ UNCHANGED <<file, clone, switched, wiped>>
  BY DEF Uninstall, RemoveDirectory
<1>3. /\ process' \in Processes /\ process'.config = process.config
      /\ process'.state \in {"none", "down"} /\ (process'.state = "none" <=> process.state = "none")
  BY <1>1 DEF Stopped, InstallInv, InstallTypes, Processes
<1>4. NoFile \in Configs /\ NoFile.by = Nobody /\ ~NoFile.cloned
  BY NoFileType
<1>5. gone \subseteq gone'
  BY <1>1 DEF InstallInv, GoneSound, InstallTypes, Ended
<1>6. \A i \in Installs : \/ i \in gone' \/ i \in Ongoing \/ install[i].at \in {"new", "refused"}
  BY <1>1 DEF InstallInv, InstallTypes, InstallRows, Progress, Ongoing, Testing
<1>7. InstallTypes'
  BY <1>1, <1>2, <1>3, <1>4, <1>5, <1>6 DEF InstallInv, InstallTypes, Configs, Processes,
       NoFile
<1>8. ConfigsNamed'
  BY <1>1, <1>2, <1>3, <1>4, <1>5, <1>6 DEF InstallInv, ConfigsNamed, Begun, InstallTypes,
       Configs, Processes, NoFile, Testing
<1>9. WaysSound'
  BY <1>1, <1>2, <1>3, <1>4, <1>5, <1>6 DEF InstallInv, WaysSound, ConfigsNamed,
       InstallTypes, NoFile, Testing
<1>10. RivalsKnown'
  BY <1>1, <1>2, <1>3, <1>4, <1>5, <1>6 DEF InstallInv, RivalsKnown, InstallTypes,
       Ongoing, Testing
<1>11. OneInstallWins'
  BY <1>1, <1>2, <1>3, <1>4, <1>5, <1>6 DEF InstallInv, OneInstallWins, RivalsKnown,
       InstallTypes, Ongoing, Testing
<1>12. GoneSound'
  BY <1>1, <1>2, <1>3, <1>4, <1>5, <1>6 DEF InstallInv, GoneSound, UninstalledStaysGone,
       ConfigsNamed, InstallTypes, Ended, Testing
<1>13. UninstalledStaysGone'
  BY <1>1, <1>2, <1>3, <1>4, <1>5, <1>6 DEF InstallInv, GoneSound, UninstalledStaysGone,
       ConfigsNamed, InstallTypes, Ended, Testing, NoFile
<1>14. ClonesSound'
  <2>1. \A i \in Installs :
          install'[i].at = "testing clone" \/ (install'[i].at = "stopping" /\ install'[i].cloned)
            => clone' = i \/ i \in wiped'
    BY <1>1, <1>2 DEF InstallInv, ClonesSound, Ongoing, Testing
  <2>2. file'.cloned => FALSE
    BY <1>2, <1>4
  <2>3. process.state # "none" /\ process.config.cloned
          => \/ clone' = process.config.by \/ process.config.by \in wiped' \cup stripped
             \/ process.config.by \in gone'
    <3>1. CASE process.config.by \in Ongoing
      BY <3>1, <1>2, <1>5 DEF InstallInv, ClonesSound, Excused
    <3>2. CASE process.config.by \notin Ongoing
      BY <3>2, <1>2, <1>6 DEF InstallInv, ConfigsNamed, Begun, InstallTypes, Processes,
           Configs
    <3> QED
      BY <3>1, <3>2
  <2> QED
    BY <2>1, <2>2, <2>3, <1>1, <1>3 DEF ClonesSound, Excused
<1>15. ProcessSound'
  BY <1>1, <1>2, <1>3, <1>4, <1>5, <1>6 DEF InstallInv, ProcessSound, ConfigsNamed,
       InstallTypes, NoFile
<1>16. SwitchStands'
  BY <1>1, <1>2, <1>3, <1>4, <1>5, <1>6 DEF InstallInv, SwitchStands, InstallTypes, Configs
<1> QED
  BY <1>7, <1>8, <1>9, <1>10, <1>11, <1>12, <1>13, <1>14, <1>15, <1>16 DEF InstallInv

LEMMA SwitchToKeepsInstall ==
  ASSUME Nobody \notin Installs, InstallInv, NEW on \in BOOLEAN, SwitchTo(on)
  PROVE  InstallInv'
<1>1. /\ Found(on) # NoFile /\ file' = Switched(on) /\ switched' = IF on THEN "on" ELSE "off"
      /\ IF on THEN Start(Switched(on)) ELSE process' = Stopped /\ UNCHANGED revived
      /\ UNCHANGED <<remote, clone, install, won, stale, wiped, before, gone, stripped>>
      /\ process.state # "starting"
  BY DEF SwitchTo, Called
<1>2. /\ Found(on) \in Configs /\ Found(on).by # Nobody
      /\ Found(on) = file \/ (~on /\ process.state = "up" /\ Found(on) = process.config)
  <2>1. file \in Configs /\ process.config \in Configs
    BY DEF InstallInv, InstallTypes, Processes
  <2>2. Found(on) = file \/ (~on /\ process.state = "up" /\ Found(on) = process.config)
    BY DEF Found
  <2> QED
    BY <1>1, <2>1, <2>2 DEF InstallInv, ConfigsNamed
<1>3. /\ Switched(on) \in Configs /\ Switched(on).by = Found(on).by
      /\ Switched(on).cloned = Found(on).cloned /\ Switched(on).enabled = on
  BY <1>2 DEF Switched, Configs
<1>4. /\ process' \in Processes /\ (process'.state # "none" => process'.config.by # Nobody)
      /\ process'.state # "none"
           => process'.config = IF process.state = "none" THEN file' ELSE process.config
      /\ process'.state = "down" => process.state \in {"down", "up"} /\ revived' = revived
      /\ revived => revived'
      /\ process'.state \in {"starting", "up"} /\ process'.config.by \in gone
           => revived' \/ process'.config.by \in wiped
  <2>1. CASE on
    BY <2>1, <1>1, <1>2, <1>3, ProcessStarts DEF InstallInv
  <2>2. CASE ~on
    BY <2>2, <1>1 DEF Stopped, InstallInv, InstallTypes, Processes, ConfigsNamed, GoneSound
  <2> QED
    BY <2>1, <2>2
<1>5. InstallTypes'
  BY <1>1, <1>2, <1>3, <1>4 DEF InstallInv, InstallTypes, Configs, Processes, NoFile
<1>6. ConfigsNamed'
  BY <1>1, <1>2, <1>3, <1>4 DEF InstallInv, ConfigsNamed, Begun, InstallTypes, Configs,
       Processes, NoFile, Testing
<1>7. WaysSound'
  BY <1>1, <1>2, <1>3, <1>4 DEF InstallInv, WaysSound, ConfigsNamed, InstallTypes, NoFile,
       Testing
<1>8. RivalsKnown'
  BY <1>1, <1>2, <1>3, <1>4 DEF InstallInv, RivalsKnown, InstallTypes, Ongoing, Testing
<1>9. OneInstallWins'
  BY <1>1, <1>2, <1>3, <1>4 DEF InstallInv, OneInstallWins, RivalsKnown, InstallTypes,
       Ongoing, Testing
<1>10. GoneSound'
  BY <1>1, <1>2, <1>3, <1>4 DEF InstallInv, GoneSound, UninstalledStaysGone, ConfigsNamed,
       InstallTypes, Ended, Testing
<1>11. UninstalledStaysGone'
  BY <1>1, <1>2, <1>3, <1>4 DEF InstallInv, GoneSound, UninstalledStaysGone, ConfigsNamed,
       InstallTypes, Ended, Testing, NoFile
<1>12. ClonesSound'
  <2>1. file'.cloned => clone = file'.by \/ Excused(file'.by) \/ (file'.by \in gone /\ revived')
    BY <1>1, <1>2, <1>3, <1>4 DEF InstallInv, ClonesSound
  <2>2. process'.state # "none" /\ process'.config.cloned
           => \/ clone = process'.config.by \/ Excused(process'.config.by)
              \/ process'.config.by \in gone /\ (revived' \/ process'.state = "down")
    <3>1. CASE process.state = "none"
      BY <3>1, <2>1, <1>4
    <3>2. CASE process.state # "none" /\ process'.state = "down"
      BY <3>2, <1>4 DEF InstallInv, ClonesSound
    <3>3. CASE process.state # "none" /\ process'.state \in {"starting", "up"}
      BY <3>3, <1>1, <1>4 DEF InstallInv, ClonesSound, Excused
    <3> QED
      BY <3>1, <3>2, <3>3, <1>4 DEF Processes
  <2> QED
    BY <2>1, <2>2, <1>1 DEF InstallInv, ClonesSound, Excused
<1>13. ProcessSound'
  BY <1>1, <1>2, <1>3, <1>4 DEF InstallInv, ProcessSound, ConfigsNamed, InstallTypes, NoFile
<1>14. SwitchStands'
  BY <1>1, <1>2, <1>3, <1>4 DEF InstallInv, SwitchStands, InstallTypes, Configs
<1> QED
  BY <1>5, <1>6, <1>7, <1>8, <1>9, <1>10, <1>11, <1>12, <1>13, <1>14 DEF InstallInv

LEMMA InitInstall ==
  ASSUME Nobody \notin Installs, InstallInit
  PROVE  InstallInv
<1> USE DEF InstallInit, NoFile, NoProcess
<1>1. InstallTypes /\ ConfigsNamed /\ won = {} /\ Ongoing = {}
  BY DEF InstallTypes, ConfigsNamed, Configs, Processes, InstallRows, Progress, Ongoing,
       Testing
<1>2. WaysSound /\ RivalsKnown /\ OneInstallWins
  BY <1>1 DEF WaysSound, RivalsKnown, OneInstallWins, Testing
<1>3. GoneSound /\ UninstalledStaysGone /\ ClonesSound /\ ProcessSound /\ SwitchStands
  BY DEF GoneSound, UninstalledStaysGone, ClonesSound, ProcessSound, SwitchStands
<1> QED
  BY <1>1, <1>2, <1>3 DEF InstallInv

LEMMA StepKeepsInstall ==
  ASSUME Nobody \notin Installs, InstallInv, [InstallNext]_installVars
  PROVE  InstallInv'
<1>1. CASE \E i \in Installs : Ask(i)
  BY <1>1, AskKeepsInstall
<1>2. CASE \E i \in Installs : SaveRemote(i)
  BY <1>2, SaveRemoteKeepsInstall
<1>3. CASE \E i \in Installs : TestFinds(i)
  BY <1>3, TestFindsKeepsInstall
<1>4. CASE \E i \in Installs : Save(i)
  BY <1>4, SaveKeepsInstall
<1>5. CASE \E i \in Installs : StartInstalled(i)
  BY <1>5, StartInstalledKeepsInstall
<1>6. CASE \E i \in Installs, wrote \in BOOLEAN : TestFails(i, wrote)
  BY <1>6, TestFailsKeepsInstall
<1>7. CASE StartAgain
  BY <1>7, StartAgainKeepsInstall
<1>8. CASE Uninstall
  BY <1>8, UninstallKeepsInstall
<1>9. CASE \E to \in {"up", "down"} : ProcessSaves(to)
  BY <1>9, ProcessSavesKeepsInstall
<1>10. CASE \E on \in BOOLEAN : SwitchTo(on)
  BY <1>10, SwitchToKeepsInstall
<1>11. CASE \E crash \in BOOLEAN : Reboot(crash)
  BY <1>11, RebootKeepsInstall
<1>12. CASE UNCHANGED installVars
  <2>1. InstallTypes' /\ ConfigsNamed' /\ WaysSound'
    BY <1>12 DEF installVars, InstallInv, InstallTypes, ConfigsNamed, Begun, WaysSound
  <2>2. RivalsKnown' /\ OneInstallWins'
    BY <1>12 DEF installVars, InstallInv, RivalsKnown, OneInstallWins, Ongoing
  <2>3. GoneSound' /\ UninstalledStaysGone'
    BY <1>12 DEF installVars, InstallInv, GoneSound, UninstalledStaysGone
  <2>4. ClonesSound' /\ ProcessSound' /\ SwitchStands'
    BY <1>12 DEF installVars, InstallInv, ClonesSound, Excused, ProcessSound, SwitchStands
  <2> QED
    BY <2>1, <2>2, <2>3, <2>4 DEF InstallInv
<1> QED
  BY <1>1, <1>2, <1>3, <1>4, <1>5, <1>6, <1>7, <1>8, <1>9, <1>10, <1>11, <1>12 DEF
       InstallNext

(* Of two installs of one name that both succeeded one was under way when the *)
(* other asked; an uninstalled server comes back only with an install under   *)
(* test or with its own process; a configuration finds its code, the running  *)
(* server is the installed one and a switch stands, but for the excuses the   *)
(* properties name: for any number of installs, ways, switches and starts     *)
(* (MCPInstaller.install, mcp_uninstall, mcp_enable, the local server).       *)
THEOREM InstallsAreSafe ==
  ASSUME Nobody \notin Installs
  PROVE  InstallSpec => []InstallSafe
<1>1. InstallInit => InstallInv
  BY InitInstall
<1>2. InstallInv /\ [InstallNext]_installVars => InstallInv'
  BY StepKeepsInstall
<1>3. InstallInv => InstallSafe
  <2>1. InstallInv => OneInstallWins /\ UninstalledStaysGone /\ SwitchStands
    BY DEF InstallInv
  <2>2. InstallInv => CodeIsPresent
    BY DEF InstallInv, ClonesSound, Excused, CodeIsPresent
  <2>3. InstallInv => RunsWhatIsInstalled
    BY DEF InstallInv, InstallTypes, ConfigsNamed, ProcessSound, RunsWhatIsInstalled
  <2> QED
    BY <2>1, <2>2, <2>3 DEF InstallSafe
<1> QED
  BY <1>1, <1>2, <1>3, PTL DEF InstallSpec
=============================================================================
