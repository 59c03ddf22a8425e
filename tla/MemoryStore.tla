----------------------------- MODULE MemoryStore -----------------------------
(* The semantic memory of one user (core/memory/core/memory.py): facts in a   *)
(* vector store with a log of their changes beside it. Threads add what they  *)
(* were told (core/memory/writer.py): the facts are extracted, related        *)
(* memories are looked up, a language model says what to do with each, and    *)
(* what was added is checked once more against what is stored                 *)
(* (core/memory/ingestion.py). Other threads delete memories. None of them    *)
(* holds a lock: the store, the log and the model are separate calls.         *)
EXTENDS Naturals, Sequences, SequencesExt, FiniteSets

CONSTANTS
  Writers,       \* threads, each with one thing to do
  Errands,       \* which: "add", "delete" one memory or "clear" all of the user's
  Told,          \* the fact an adding thread was told
  Facts,
  Known,         \* the facts that are stored already
  Similar(_, _), \* whether two facts are near enough to count as one
  Clashes(_, _), \* whether two facts contradict one another
  Ids,           \* identifiers, in the order they are given out: 1, 2, ...
  Absent, Gone,  \* not a fact: never there, deleted
  SearchLimit,   \* memories a search returns
  MaxPlan,       \* bound: actions of one answer of the model
  MaxFailures    \* bound: failing calls of the log

ASSUME MemoryConstants ==
  /\ Errands \in [Writers -> SUBSET {"add", "delete", "clear"}]
  /\ Told \in [Writers -> Facts] /\ Known \in Seq(Facts)
  /\ IsFiniteSet(Ids) /\ Ids \subseteq Nat \ {0} /\ DOMAIN Known \subseteq Ids
  /\ \A f, g \in Facts : Similar(f, f) /\ (Similar(f, g) => Similar(g, f))
  /\ Absent \notin Facts /\ Gone \notin Facts /\ Absent # Gone
  /\ MaxPlan \in Nat /\ MaxFailures \in Nat

VARIABLES
  stored,      \* the fact each id holds in the vector store
  logged,      \* the fact after the last entry of each id in the history
  dynamics,    \* ids with a row in memory_dynamics
  superseded,  \* pairs (old, new) of ids in memory_supersessions
  writer,      \* where each thread is, and what it holds
  failures,    \* history: calls of the log that failed
  unlogged,    \* history: ids with a change whose log entry failed
  contested,   \* history: ids two threads were changing at the same time
  retracted,   \* history: facts a deletion or an update took out of the store
  doubled      \* history: facts two threads were adding at the same time, or similar ones

storeVars  == <<stored, logged, dynamics, superseded>>
ghostVars  == <<failures, unlogged, contested, retracted, doubled>>
memoryVars == <<storeVars, writer, ghostVars>>

Actions == [event : {"ADD", "UPDATE", "DELETE"}, id : Ids \cup {0}]
Nothing == [event |-> "NONE", id |-> 0]

MemoryTypeOK ==
  /\ stored \in [Ids -> Facts \cup {Absent, Gone}]
  /\ logged \in [Ids -> Facts \cup {Absent, Gone}]
  /\ dynamics \subseteq Ids /\ superseded \subseteq Ids \X Ids
  /\ DOMAIN writer = Writers
  /\ \A w \in Writers :
       /\ writer[w].at \in {"new", "extracted", "searched", "acting", "read", "written",
                            "checking", "dropping", "dropped", "replacing", "recording", "over"}
       /\ writer[w].errand \in Errands[w] \cup {"none"}
       /\ writer[w].found \subseteq Ids /\ writer[w].plan \in Seq(Actions)
       /\ writer[w].doing \in Actions \cup {Nothing}
       /\ writer[w].results \in Seq(Actions) /\ writer[w].valid \subseteq Ids
  /\ failures \in 0 .. MaxFailures
  /\ unlogged \subseteq Ids /\ contested \subseteq Ids
  /\ retracted \subseteq Facts /\ doubled \subseteq Facts

MemoryInit ==
  /\ stored = [i \in Ids |-> IF i \in DOMAIN Known THEN Known[i] ELSE Absent]
  /\ logged = stored /\ dynamics = DOMAIN Known /\ superseded = {}
  /\ writer = [w \in Writers |-> [at |-> "new", errand |-> "none", found |-> {},
                                  plan |-> <<>>, doing |-> Nothing, results |-> <<>>,
                                  valid |-> {}, rival |-> 0]]
  /\ failures = 0 /\ unlogged = {} /\ contested = {} /\ retracted = {} /\ doubled = {}

-----------------------------------------------------------------------------
Present == {i \in Ids : stored[i] \in Facts}
IdsOf(results) == {results[n].id : n \in DOMAIN results}

(* A thread that has read or written i has not logged it yet. *)
Changing(i) == {w \in Writers : writer[w].at \in {"read", "written"} /\ writer[w].doing.id = i}

-----------------------------------------------------------------------------
(* add: the facts are extracted, or there are none. *)
AddingNow(f) ==
  {Told[w] : w \in {v \in Writers : /\ writer[v].errand = "add" /\ writer[v].at # "over"
                                    /\ Similar(Told[v], f)}}

Extract(w) ==
  /\ "add" \in Errands[w] /\ writer[w].at = "new"
  /\ \E at \in {"extracted", "over"} : writer' = [writer EXCEPT ![w].at = at, ![w].errand = "add"]
  /\ doubled' = IF AddingNow(Told[w]) = {} THEN doubled
                ELSE doubled \cup AddingNow(Told[w]) \cup {Told[w]}
  /\ UNCHANGED <<storeVars, failures, unlogged, contested, retracted>>

(* The stored memories nearest to the fact: which they are is up to the       *)
(* embeddings.                                                                *)
Search(w) ==
  /\ writer[w].at = "extracted"
  /\ \E near \in SUBSET Present :
       /\ Cardinality(near) <= SearchLimit
       /\ Cardinality(near) < SearchLimit => near = Present
       /\ writer' = [writer EXCEPT ![w].at = "searched", ![w].found = near]
  /\ UNCHANGED <<storeVars, ghostVars>>

(* The model's answer; an answer that cannot be read is no action at all. An  *)
(* id it made up turns an UPDATE into an ADD and a DELETE into nothing.       *)
Answers(found) ==
  {[event |-> "ADD", id |-> 0]} \cup [event : {"UPDATE", "DELETE"}, id : found]

Decide(w) ==
  /\ writer[w].at = "searched"
  /\ \E plan \in BoundedSeq(Answers(writer[w].found), MaxPlan) :
       writer' = [writer EXCEPT ![w].at = "acting", ![w].plan = plan]
  /\ UNCHANGED <<storeVars, ghostVars>>

(* The other errands are a plan without an answer. A clearing thread lists    *)
(* the memories of the user.                                                  *)
Deletions(ids) == [n \in 1 .. Cardinality(ids) |-> [event |-> "DELETE", id |-> SetToSeq(ids)[n]]]

Take(w) ==
  /\ writer[w].at = "new"
  /\ \/ /\ "delete" \in Errands[w]
        /\ \E i \in Present : writer' = [writer EXCEPT ![w].at = "acting", ![w].errand = "delete",
                                                       ![w].plan = Deletions({i})]
     \/ /\ "clear" \in Errands[w]
        /\ writer' = [writer EXCEPT ![w].at = "acting", ![w].errand = "clear",
                                    ![w].plan = Deletions(Present)]
  /\ UNCHANGED <<storeVars, ghostVars>>

-----------------------------------------------------------------------------
(* One action: the memory is read, unless it is to be created; a memory that  *)
(* has vanished is skipped, by an exception of _update_memory or an early     *)
(* return of _delete_memory, whose caller reports the deletion all the same.  *)
Next1(w) == Head(writer[w].plan)
Done(w, action) == Append(writer[w].results, action)

Begin(w) ==
  /\ writer[w].at = "acting" /\ writer[w].plan # <<>>
  /\ LET a == Next1(w) rest == Tail(writer[w].plan) IN
     IF a.event # "ADD" /\ a.id \notin Present
     THEN /\ writer' = [writer EXCEPT ![w].plan = rest,
                                      ![w].results = IF a.event = "DELETE" THEN Done(w, a)
                                                     ELSE writer[w].results]
          /\ UNCHANGED contested
     ELSE /\ writer' = [writer EXCEPT ![w].at = "read", ![w].plan = rest, ![w].doing = a]
          /\ contested' = contested \cup {i \in {a.id} \cap Ids : Changing(i) # {}}
  /\ UNCHANGED <<stored, logged, dynamics, superseded, failures, unlogged, retracted, doubled>>

(* The store is changed. An id is new for every memory created; the update of *)
(* a memory that vanished since it was read stores it again (Qdrant's upsert).*)
Fresh == CHOOSE i \in Ids : stored[i] = Absent /\ \A j \in Ids : stored[j] = Absent => i <= j

Write(w) ==
  /\ writer[w].at = "read"
  /\ LET a == writer[w].doing
         id == IF a.event = "ADD" THEN Fresh ELSE a.id
     IN /\ a.event = "ADD" => \E i \in Ids : stored[i] = Absent
        /\ stored' = [stored EXCEPT ![id] = IF a.event = "DELETE" THEN Gone ELSE Told[w]]
        /\ retracted' = retracted \cup ({stored[id]} \ {Absent, Gone, stored'[id]})
        /\ writer' = [writer EXCEPT ![w].at = "written", ![w].doing = [a EXCEPT !.id = id]]
  /\ UNCHANGED <<logged, dynamics, superseded, failures, unlogged, contested, doubled>>

(* The change is logged and reported. *)
Log_Fault(w) ==
  /\ writer[w].at = "written"
  /\ LET a == writer[w].doing
     IN /\ logged' = IF a.event = "DELETE" THEN logged ELSE [logged EXCEPT ![a.id] = Told[w]]
        /\ writer' = [writer EXCEPT ![w].at = "acting", ![w].doing = Nothing,
                                    ![w].results = Done(w, a)]
  /\ UNCHANGED <<stored, dynamics, superseded, ghostVars>>
Log(w) ==
  /\ writer[w].at = "written"
  /\ LET a == writer[w].doing
     IN /\ logged' = [logged EXCEPT ![a.id] = IF a.event = "DELETE" THEN Gone ELSE Told[w]]
        /\ writer' = [writer EXCEPT ![w].at = "acting", ![w].doing = Nothing,
                                    ![w].results = Done(w, a)]
  /\ UNCHANGED <<stored, dynamics, superseded, ghostVars>>

(* The log raises: the change stays in the store, and is not reported. The    *)
(* error ends a thread that is not adding.                                    *)
LogFails(w) ==
  /\ writer[w].at = "written" /\ failures < MaxFailures
  /\ failures' = failures + 1 /\ unlogged' = unlogged \cup {writer[w].doing.id}
  /\ writer' = [writer EXCEPT ![w].at = IF writer[w].errand = "add" THEN "acting" ELSE "over",
                              ![w].doing = Nothing]
  /\ UNCHANGED <<stored, logged, dynamics, superseded, contested, retracted, doubled>>

(* The plan is done. What was added is validated; delete_all goes on to reset *)
(* the collection, with whatever was added to it meanwhile.                   *)
Finish(w) ==
  /\ writer[w].at = "acting" /\ writer[w].plan = <<>>
  /\ CASE writer[w].errand = "add" ->
            /\ writer' = [writer EXCEPT ![w].at = IF writer[w].results = <<>> THEN "over"
                                                  ELSE "checking",
                                        ![w].plan = writer[w].results]
            /\ UNCHANGED <<stored, contested, retracted>>
       [] writer[w].errand = "delete" ->
            writer' = [writer EXCEPT ![w].at = "over"] /\ UNCHANGED <<stored, contested, retracted>>
       [] writer[w].errand = "clear" ->
            /\ writer' = [writer EXCEPT ![w].at = "over"]
            /\ stored' = [i \in Ids |-> IF i \in Present THEN Gone ELSE stored[i]]
            /\ contested' = contested \cup Present
            /\ retracted' = retracted \cup {stored[i] : i \in Present}
  /\ UNCHANGED <<logged, dynamics, superseded, failures, unlogged, doubled>>

-----------------------------------------------------------------------------
(* validate_ingested_memories: each memory that was added is searched for     *)
(* once more, without those of its own batch. The nearest other one counts,   *)
(* the same text before any; there is none if the search fails. A near        *)
(* duplicate of it is deleted again; a memory it contradicts is marked, if it *)
(* is near enough.                                                            *)
Others_Fault(w) == Present
Others(w) == Present \ IdsOf(writer[w].results)

Nearest(w) ==
  LET same == {i \in Others(w) : stored[i] = Told[w]} IN IF same = {} THEN Others(w) ELSE same

Check(w) ==
  /\ writer[w].at = "checking" /\ writer[w].plan # <<>>
  /\ LET r == Head(writer[w].plan)
         keep == [writer EXCEPT ![w].plan = Tail(writer[w].plan), ![w].valid = @ \cup {r.id}]
     IN \/ writer' = keep
        \/ /\ r.event = "ADD" /\ \E i \in Nearest(w) : Similar(stored[i], Told[w])
           /\ writer' = [writer EXCEPT ![w].at = "dropping", ![w].doing = r]
        \/ /\ r.event = "ADD"
           /\ \E i \in Nearest(w) :
                /\ ~Similar(stored[i], Told[w]) /\ Clashes(stored[i], Told[w])
                /\ writer' = [writer EXCEPT ![w].at = "replacing", ![w].doing = r, ![w].rival = i]
  /\ UNCHANGED <<storeVars, ghostVars>>

(* PALACE.delete of the duplicate, in two calls; errors are only logged. It   *)
(* takes back whatever the memory holds by now, an update by another too.     *)
Drop(w) ==
  /\ writer[w].at = "dropping"
  /\ LET i == writer[w].doing.id IN
     /\ contested' = contested \cup {j \in {i} : Changing(j) # {}}
     /\ IF i \in Present
        THEN /\ stored' = [stored EXCEPT ![i] = Gone]
             /\ writer' = [writer EXCEPT ![w].at = "dropped"]
             /\ retracted' = retracted \cup ({stored[i]} \ {Told[w]})
        ELSE /\ UNCHANGED <<stored, retracted>>
             /\ writer' = [writer EXCEPT ![w].at = "checking", ![w].plan = Tail(writer[w].plan),
                                         ![w].doing = Nothing]
  /\ UNCHANGED <<logged, dynamics, superseded, failures, unlogged, doubled>>

LogDrop(w) ==
  /\ writer[w].at = "dropped"
  /\ LET i == writer[w].doing.id IN
     \/ logged' = [logged EXCEPT ![i] = Gone] /\ UNCHANGED <<failures, unlogged>>
     \/ /\ failures < MaxFailures /\ failures' = failures + 1
        /\ unlogged' = unlogged \cup {i} /\ UNCHANGED logged
  /\ writer' = [writer EXCEPT ![w].at = "checking", ![w].plan = Tail(writer[w].plan),
                              ![w].doing = Nothing]
  /\ UNCHANGED <<stored, dynamics, superseded, contested, retracted, doubled>>

(* The replacement is noted, then the old memory's row demoted or made; both  *)
(* may fail.                                                                  *)
Replace(w) ==
  /\ writer[w].at = "replacing"
  /\ LET i == writer[w].doing.id rival == writer[w].rival IN
     /\ \/ UNCHANGED <<superseded, dynamics>>
        \/ /\ superseded' = superseded \cup {<<rival, i>>}
           /\ dynamics' \in {dynamics, dynamics \cup {rival}}
     /\ writer' = [writer EXCEPT ![w].at = "checking", ![w].plan = Tail(writer[w].plan),
                                 ![w].doing = Nothing, ![w].valid = @ \cup {i}]
  /\ UNCHANGED <<stored, logged, ghostVars>>

Checked(w) ==
  /\ writer[w].at = "checking" /\ writer[w].plan = <<>>
  /\ writer' = [writer EXCEPT ![w].at = "recording"]
  /\ UNCHANGED <<storeVars, ghostVars>>

(* A row for every memory that is reported, deleted ones too, in one          *)
(* transaction that may fail.                                                 *)
Record(w) ==
  /\ writer[w].at = "recording"
  /\ \E rows \in {writer[w].valid, {}} : dynamics' = dynamics \cup rows
  /\ writer' = [writer EXCEPT ![w].at = "over"]
  /\ UNCHANGED <<stored, logged, superseded, ghostVars>>

MemoryNext ==
  \E w \in Writers :
    \/ Extract(w) \/ Search(w) \/ Decide(w) \/ Take(w)
    \/ Begin(w) \/ Write(w) \/ Log(w) \/ LogFails(w) \/ Finish(w)
    \/ Check(w) \/ Drop(w) \/ LogDrop(w) \/ Replace(w) \/ Checked(w) \/ Record(w)

MemorySpec == MemoryInit /\ [][MemoryNext]_memoryVars

-----------------------------------------------------------------------------
(* The log of a memory ends with what the store holds, once nobody is         *)
(* changing it, unless two threads changed it at the same time, a call of the *)
(* log failed or the collection was reset.                                    *)
HistoryAgrees ==
  \A i \in Ids \ (contested \cup unlogged) :
    (\A w \in Writers : writer[w].at \in {"written", "dropped"} => writer[w].doing.id # i)
      => logged[i] = stored[i]

(* What was told and stored is still known, or something similar is, unless  *)
(* it or something similar was deleted or updated, or two threads were adding *)
(* similar facts at the same time, each deleting its own copy for the other's.*)
EverStored(f) ==
  \E w \in Writers : /\ writer[w].errand = "add" /\ Told[w] = f
                     /\ \E n \in DOMAIN writer[w].results : writer[w].results[n].event = "ADD"

Retracted(f) == \E g \in retracted : Similar(g, f)

KnowledgeKept ==
  \A f \in Facts \ doubled :
    EverStored(f) /\ ~Retracted(f) => \E i \in Present : Similar(stored[i], f)

MemorySafe == HistoryAgrees /\ KnowledgeKept
=============================================================================
