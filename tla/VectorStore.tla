----------------------------- MODULE VectorStore -----------------------------
(* What the callers of a vector store (core/memory/vector/base.py) rely on:   *)
(* one collection of points in which a write takes effect at once, between    *)
(* its call and its return, and is lost only under an explicit licence. A     *)
(* restart of the process ends the calls; the points survive it, but those in *)
(* doubt.                                                                     *)
CONSTANTS
  Ids,        \* the ids of points
  Contents,   \* what a point may hold
  Absent,     \* no point
  Threads     \* the threads that write

VARIABLES
  contents,   \* the point of each id
  writing,    \* for each thread: "idle", "called" or "applied"
  lossy,      \* the licence to return from a write without an effect
  doubt       \* the ids whose points a restart may replace

storeVars == <<contents, writing, lossy, doubt>>

Empty == [i \in Ids |-> Absent]

StoreInit ==
  /\ contents \in [Ids -> Contents \cup {Absent}]
  /\ writing = [t \in Threads |-> "idle"]
  /\ lossy \in BOOLEAN /\ doubt \subseteq Ids

(* A write names one point, or all of them. *)
Effect ==
  \/ contents' = Empty
  \/ \E i \in Ids, c \in Contents \cup {Absent} : contents' = [contents EXCEPT ![i] = c]

Step(t, from, to) == writing[t] = from /\ writing' = [writing EXCEPT ![t] = to]
Doubts == doubt' \subseteq Ids

Accept(t) == Step(t, "idle", "called") /\ Doubts /\ UNCHANGED <<contents, lossy>>
Apply(t) == Step(t, "idle", "applied") /\ Effect /\ Doubts /\ UNCHANGED lossy
Return(t) ==
  /\ Step(t, "applied", "idle") \/ (lossy /\ Step(t, "called", "idle"))
  /\ Doubts /\ UNCHANGED <<contents, lossy>>
ApplyAndReturn(t) == Step(t, "called", "idle") /\ Effect /\ Doubts /\ UNCHANGED lossy
Doubt == Doubts /\ UNCHANGED <<contents, writing, lossy>>

Restart ==
  /\ writing' = [t \in Threads |-> "idle"]
  /\ contents' \in [Ids -> Contents \cup {Absent}]
  /\ \A i \in Ids \ doubt' : contents'[i] = contents[i]
  /\ lossy' \in BOOLEAN /\ Doubts

StoreNext ==
  \/ Doubt \/ Restart
  \/ \E t \in Threads : Accept(t) \/ Apply(t) \/ Return(t) \/ ApplyAndReturn(t)

StoreSpec == StoreInit /\ [][StoreNext]_storeVars
=============================================================================
