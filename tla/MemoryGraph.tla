----------------------------- MODULE MemoryGraph -----------------------------
(* The graph of what is related to what (core/memory/graph/falkordb.py) and   *)
(* the Redis cache before it (core/memory/cache), and the rows that say how   *)
(* well a memory is remembered (core/memory/dynamics). Readers and writers    *)
(* are threads of the memory executor.                                        *)
(*                                                                            *)
(* A relation is a number, the best match of every query first; a query       *)
(* matches a set of them. Embeddings are left out but for their failures.     *)
EXTENDS Integers, FiniteSets

CONSTANTS
  Users,
  Relations,    \* numbers
  Matching,     \* query -> the relations it finds; "all" asks for everything
  Readers,      \* [user, query, limit] of each
  Authors,      \* [op |-> "add", "delete", user, found: the relations of its text] of each
  Alike(_, _),  \* Alike(u, v): the id of v begins with that of u
  MaxLapses,    \* caches expire that often
  Reviews       \* [memory, user, grade] of each call that promotes or demotes

VARIABLES
  graph,   \* user -> relations
  cache,   \* [user, query] -> relations, for the keys that are held
  reader,  \* reader -> [at, answer, hit]
  author,  \* author of changes -> [at, left, added]
  lapses,
  late     \* keys whose value may be behind the graph until they expire
VARIABLES
  rows,      \* memory -> [user, count, base, retrieval, storage, failures] for those that
             \* have one; base: the accesses it was created with
  review,    \* call -> [at, row: its copy]
  written,   \* memory -> accesses logged
  crossed    \* memories two reviews of which overlapped

graphVars == <<graph, cache, reader, author, lapses, late>>

\* The function f with v at k.
With(f, k, v) == [x \in DOMAIN f \union {k} |-> IF x = k THEN v ELSE f[x]]

KeyOf(r) == [user |-> Readers[r].user, query |-> Readers[r].query]
Keys == {KeyOf(r) : r \in DOMAIN Readers}

\* The best of the relations, at most n of them.
Limited(S, n) == {x \in S : Cardinality({y \in S : y < x}) < n}
Findings(k, n) == Limited(graph[k.user] \intersect Matching[k.query], n)

GraphInit ==
  /\ graph = [u \in Users |-> {}] /\ cache = <<>>
  /\ reader = [r \in DOMAIN Readers |-> [at |-> "look", answer |-> {}, hit |-> FALSE]]
  /\ author = [w \in DOMAIN Authors |->
                [at |-> IF Authors[w].op = "add" THEN "merge" ELSE "delete",
                 left |-> Authors[w].found, added |-> FALSE]]
  /\ lapses = 0 /\ late = {}

-----------------------------------------------------------------------------
(* A hit is answered from the cache; only a snapshot is cut to the limit.     *)
Cut(k, n) == IF k.query = "all" THEN Limited(cache[k], n) ELSE cache[k]
Hit(r) ==
  LET k == KeyOf(r)
  IN /\ reader[r].at = "look" /\ k \in DOMAIN cache
     /\ reader' = [reader EXCEPT ![r] =
          [at |-> "done", hit |-> TRUE, answer |-> Cut(k, Readers[r].limit)]]
     /\ UNCHANGED <<graph, cache, author, lapses, late>>

\* A miss, or a cache that fails, asks the graph.
Query(r) ==
  LET found == Findings(KeyOf(r), Readers[r].limit)
  IN /\ reader[r].at = "look"
     /\ reader' = [reader EXCEPT ![r].at = IF found = {} THEN "done" ELSE "keep", ![r].answer = found]
     /\ UNCHANGED <<graph, cache, author, lapses, late>>

\* What is found is kept, though the graph may be another by now.
Keep(r) ==
  LET k == KeyOf(r)
  IN /\ reader[r].at = "keep"
     /\ reader' = [reader EXCEPT ![r].at = "done"]
     /\ cache' = With(cache, k, reader[r].answer)
     /\ late' = IF reader[r].answer = Findings(k, Readers[r].limit) THEN late \ {k} ELSE late \union {k}
     /\ UNCHANGED <<graph, author, lapses>>
KeepFails(r) ==
  /\ reader[r].at = "keep"
  /\ reader' = [reader EXCEPT ![r].at = "done"]
  /\ UNCHANGED <<graph, cache, author, lapses, late>>

-----------------------------------------------------------------------------
(* An addition merges one relation after the other; one that the database     *)
(* refuses is left out. What was added makes the user's keys invalid.         *)
Merge(w) ==
  /\ author[w].at = "merge"
  /\ \E x \in author[w].left, ok \in BOOLEAN :
       LET more == author[w].left \ {x}
           added == author[w].added \/ ok
       IN /\ graph' = IF ok THEN [graph EXCEPT ![Authors[w].user] = @ \union {x}] ELSE graph
          /\ author' = [author EXCEPT ![w] =
               [at |-> IF more # {} THEN "merge" ELSE IF added THEN "searches" ELSE "done",
                left |-> more, added |-> added]]
  /\ UNCHANGED <<cache, reader, lapses, late>>

\* A failed embedding ends the addition where it is, and nothing is made invalid.
EmbeddingFails(w) ==
  /\ author[w].at = "merge"
  /\ author' = [author EXCEPT ![w].at = "done"]
  /\ late' = IF author[w].added
             THEN late \union {k \in DOMAIN cache : k.user = Authors[w].user} ELSE late
  /\ UNCHANGED <<graph, cache, reader, lapses>>

Delete(w) ==
  /\ author[w].at = "delete"
  /\ graph' = [graph EXCEPT ![Authors[w].user] = {}]
  /\ author' = [author EXCEPT ![w].at = "searches"]
  /\ UNCHANGED <<cache, reader, lapses, late>>

(* First the searches of the user are dropped, then the snapshots of those    *)
(* whose id begins with the user's. An error leaves the rest.                 *)
Dropped_Searches(w) == {k \in DOMAIN cache : k.query # "all" /\ k.user = Authors[w].user}
Dropped(w) ==
  {k \in DOMAIN cache :
    IF author[w].at = "searches" THEN k.query # "all" /\ k.user = Authors[w].user
    ELSE k.query = "all" /\ Alike(Authors[w].user, k.user)}

Invalidate(w) ==
  /\ author[w].at \in {"searches", "snapshots"}
  /\ cache' = [k \in DOMAIN cache \ Dropped(w) |-> cache[k]]
  /\ late' = late \ Dropped(w)
  /\ author' = [author EXCEPT ![w].at = IF @ = "searches" THEN "snapshots" ELSE "done"]
  /\ UNCHANGED <<graph, reader, lapses>>
InvalidateFails(w) ==
  /\ author[w].at \in {"searches", "snapshots"}
  /\ late' = late \union {k \in DOMAIN cache : k.user = Authors[w].user}
  /\ author' = [author EXCEPT ![w].at = "done"]
  /\ UNCHANGED <<graph, cache, reader, lapses>>

Expire(k) ==
  /\ lapses < MaxLapses /\ lapses' = lapses + 1
  /\ cache' = [j \in DOMAIN cache \ {k} |-> cache[j]] /\ late' = late \ {k}
  /\ UNCHANGED <<graph, reader, author>>

GraphNext ==
  \/ \E r \in DOMAIN Readers : Hit(r) \/ Query(r) \/ Keep(r) \/ KeepFails(r)
  \/ \E w \in DOMAIN Authors :
       Merge(w) \/ EmbeddingFails(w) \/ Delete(w) \/ Invalidate(w) \/ InvalidateFails(w)
  \/ \E k \in DOMAIN cache : Expire(k)

GraphSpec == GraphInit /\ [][GraphNext]_graphVars

-----------------------------------------------------------------------------
GraphTypeOK ==
  /\ graph \in [Users -> SUBSET Relations]
  /\ DOMAIN cache \subseteq Keys /\ late \subseteq Keys /\ lapses \in 0..MaxLapses
  /\ \A r \in DOMAIN reader : reader[r].at \in {"look", "keep", "done"}
  /\ \A w \in DOMAIN author : author[w].at \in {"merge", "delete", "searches", "snapshots", "done"}

Writing(u) ==
  \E w \in DOMAIN author :
    /\ Authors[w].user = u
    /\ author[w].at \in {"searches", "snapshots"} \/ (author[w].at = "merge" /\ author[w].added)

(* What the cache holds for a user is what the graph would answer to one of   *)
(* those who ask for that key, unless an author is still to drop it, it was    *)
(* kept after a write its query had not seen, or a write ended without        *)
(* dropping it (a failed embedding after the first relation, a failed cache). *)
CacheFollowsGraph ==
  \A k \in DOMAIN cache :
    \/ k \in late \/ Writing(k.user)
    \/ \E r \in DOMAIN Readers : KeyOf(r) = k /\ cache[k] = Findings(k, Readers[r].limit)

(* No answer has relations its query does not match. A snapshot keeps to its  *)
(* limit; more than the limit are only in a cached search that one with a     *)
(* higher limit made.                                                         *)
AnswersFit ==
  \A r \in DOMAIN reader :
    /\ reader[r].answer \subseteq Matching[Readers[r].query]
    /\ Cardinality(reader[r].answer) > Readers[r].limit =>
         reader[r].hit /\ Readers[r].query # "all" /\ \E s \in DOMAIN Readers :
           KeyOf(s) = KeyOf(r) /\ Readers[s].limit > Readers[r].limit

GraphSafe == CacheFollowsGraph /\ AnswersFit

-----------------------------------------------------------------------------
(* How well memories are remembered. Strengths are thousandths; "failures"    *)
(* counts those since the last success, for the properties. Stability and     *)
(* difficulty, which are real functions of the time, are left out.            *)
dynamicsVars == <<rows, review, written, crossed>>
Memories == {Reviews[c].memory : c \in DOMAIN Reviews}
RowWith(u, count, base) ==
  [user |-> u, count |-> count, base |-> base, retrieval |-> 1000, storage |-> 500, failures |-> 0]
Default_Counted(u) == RowWith(u, 1, 0)
Default(u) == RowWith(u, 0, 0)

DynamicsInit ==
  /\ rows = <<>>
  /\ review = [c \in DOMAIN Reviews |-> [at |-> "load", row |-> Default(Reviews[c].user)]]
  /\ written = [m \in Memories |-> 0] /\ crossed = {}

AtMost(x, y) == IF x < y THEN x ELSE y
Boost == [hard |-> 500, good |-> 700, easy |-> 900]
Gain(grade, lack) ==
  [hard |-> 100 + lack \div 10, good |-> 150 + (15 * lack) \div 100, easy |-> 100 + lack \div 20][grade]

\* A failure resets what is retrieved and adds to what is stored, without a bound.
Failed(row) == [row EXCEPT !.retrieval = 300, !.storage = @ + 50, !.failures = @ + 1]
UpdateDualStrength_Unbounded(row, grade, decayed) ==
  IF grade = "again" THEN Failed(row)
  ELSE [row EXCEPT !.retrieval = AtMost(1000, decayed + Boost[grade]),
                   !.storage = @ + Gain(grade, 1000 - decayed), !.failures = 0]
UpdateDualStrength(row, grade, decayed) ==
  IF grade = "again" THEN Failed(row)
  ELSE [row EXCEPT !.retrieval = AtMost(1000, decayed + Boost[grade]),
                   !.storage = AtMost(1000, @ + Gain(grade, 1000 - decayed)), !.failures = 0]

Busy(m, c) ==
  \E d \in DOMAIN review \ {c} : Reviews[d].memory = m /\ review[d].at \in {"insert", "save"}
Crosses(c) == crossed' = IF Busy(Reviews[c].memory, c) THEN crossed \union {Reviews[c].memory} ELSE crossed

\* The row is looked for by memory and user, its key is the memory alone.
Load(c) ==
  LET m == Reviews[c].memory
      found == m \in DOMAIN rows /\ rows[m].user = Reviews[c].user
  IN /\ review[c].at = "load"
     /\ review' = [review EXCEPT ![c] =
          IF found THEN [at |-> "save", row |-> rows[m]] ELSE [@ EXCEPT !.at = "insert"]]
     /\ Crosses(c)
     /\ UNCHANGED <<rows, written>>

\* An insertion of a key that is taken raises, and the review is given up.
Insert(c) ==
  LET m == Reviews[c].memory
      taken == m \in DOMAIN rows
  IN /\ review[c].at = "insert"
     /\ rows' = IF taken THEN rows ELSE With(rows, m, Default(Reviews[c].user))
     /\ review' = [review EXCEPT ![c].at = IF taken THEN "done" ELSE "save"]
     /\ UNCHANGED <<written, crossed>>

\* The writer makes a row for a memory it added, which counts as an access and is not
\* logged; where there is a row it makes none.
CreateRecord(m, u) ==
  /\ m \notin DOMAIN rows
  /\ rows' = With(rows, m, RowWith(u, 1, 1))
  /\ UNCHANGED <<review, written, crossed>>

\* The columns that differ from the copy are written, with the access, in one transaction.
Changed(row, copy, new) == [f \in DOMAIN row |-> IF new[f] = copy[f] THEN row[f] ELSE new[f]]
Save(c) ==
  LET m == Reviews[c].memory
      copy == review[c].row
  IN /\ review[c].at = "save"
     /\ \E decayed \in {0, copy.retrieval} :
          rows' = [rows EXCEPT ![m] = Changed(@, copy,
                     [UpdateDualStrength(copy, Reviews[c].grade, decayed) EXCEPT !.count = copy.count + 1])]
     /\ written' = [written EXCEPT ![m] = @ + 1]
     /\ review' = [review EXCEPT ![c].at = "done"]
     /\ UNCHANGED crossed
SaveFails(c) ==
  /\ review[c].at = "save"
  /\ review' = [review EXCEPT ![c].at = "done"]
  /\ UNCHANGED <<rows, written, crossed>>

DynamicsNext ==
  \E c \in DOMAIN Reviews :
    \/ Load(c) \/ Insert(c) \/ Save(c) \/ SaveFails(c)
    \/ CreateRecord(Reviews[c].memory, Reviews[c].user)

DynamicsSpec == DynamicsInit /\ [][DynamicsNext]_dynamicsVars

DynamicsTypeOK ==
  /\ DOMAIN rows \subseteq Memories /\ crossed \subseteq Memories
  /\ written \in [Memories -> Nat]
  /\ \A c \in DOMAIN review : review[c].at \in {"load", "insert", "save", "done"}

(* A row counts each logged access once, and its creation if the writer made  *)
(* it; only reviews that overlapped lose an access, by writing over each      *)
(* other's count.                                                             *)
CountsAgree ==
  \A m \in DOMAIN rows :
    /\ rows[m].count <= rows[m].base + written[m]
    /\ m \notin crossed => rows[m].count = rows[m].base + written[m]

(* Strengths are parts of one. What is stored exceeds it only by what the     *)
(* failures since the last success have added, which nothing bounds; reviews  *)
(* that overlapped may have mixed their columns.                              *)
StrengthsBounded ==
  \A m \in DOMAIN rows :
    /\ rows[m].retrieval \in 0..1000
    /\ m \notin crossed => rows[m].storage <= 1000 + 50 * rows[m].failures

DynamicsSafe == CountsAgree /\ StrengthsBounded
=============================================================================
