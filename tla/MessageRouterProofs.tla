------------------------ MODULE MessageRouterProofs ------------------------
(***************************************************************************)
(* Machine-checked proofs about MessageRouter, for every set of requests,  *)
(* channels and fingerprints; and, at the end, about the process the       *)
(* gateway runs in, for every set of commands.                             *)
(***************************************************************************)
EXTENDS MessageRouter, GatewayProcess, DistinctSequences, FiniteSetTheorems

----------------------------------------------------------------------------
(* Types *)

LEMMA TypeInit == Init => TypeOK
BY ConstantsOK DEF Init, TypeOK, Statuses, Stages

LEMMA AssignType ==
    ASSUME NEW D, NEW V, NEW f \in [D -> V], NEW S, NEW v \in V
    PROVE  Assign(f, S, v) \in [D -> V]
BY DEF Assign

\* What leaves a queue or a window leaves a sequence of requests.
LEMMA ShorterType ==
    ASSUME NEW s \in Seq(Requests)
    PROVE  /\ s # <<>> => Head(s) \in Requests /\ Tail(s) \in Seq(Requests)
           /\ \A i \in 1 .. Len(s) : RemoveAt(s, i) \in Seq(Requests)
           /\ \A n \in 0 .. Len(s) : /\ SubSeq(s, 1, n) \in Seq(Requests)
                                     /\ SubSeq(s, n + 1, Len(s)) \in Seq(Requests)
<1>1. \A n \in 0 .. Len(s) : /\ SubSeq(s, 1, n) \in Seq(Requests)
                             /\ SubSeq(s, n + 1, Len(s)) \in Seq(Requests)
  OBVIOUS
<1>2. ASSUME NEW i \in 1 .. Len(s)
      PROVE  RemoveAt(s, i) \in Seq(Requests)
  <2>1. SubSeq(s, 1, i - 1) \in Seq(Requests) /\ SubSeq(s, i + 1, Len(s)) \in Seq(Requests)
    OBVIOUS
  <2> QED BY <2>1 DEF RemoveAt
<1> QED BY <1>1, <1>2

LEMMA TypeStep == TypeOK /\ [Next]_vars => TypeOK'
<1> SUFFICES ASSUME TypeOK, [Next]_vars
             PROVE  TypeOK'
  OBVIOUS
<1> USE ConstantsOK DEF TypeOK
<1>0. /\ \A v \in Statuses : \A S : Assign(status, S, v) \in [Requests -> Statuses]
      /\ \A v \in Stages : \A S : Assign(stage, S, v) \in [Requests -> Stages]
  BY AssignType
<1>1. ASSUME NEW r \in Requests, NEW skip \in BOOLEAN, Submit(r, skip)
      PROVE  TypeOK'
  <2>1. CASE RejectDuplicate(r)
    BY <2>1 DEF RejectDuplicate, Stages
  <2>2. ASSUME PassDedup(r, skip) PROVE seen' \subseteq Fingerprints
    BY <2>2 DEF PassDedup
  <2>3. CASE SubmitAcquire(r, skip)
    BY <2>2, <2>3 DEF SubmitAcquire, Statuses, Stages, Free
  <2>4. CASE SubmitDebounce(r, skip)
    BY <2>2, <2>4 DEF SubmitDebounce, Statuses, Stages, Free, RestartTimer
  <2>5. CASE SubmitQueue(r, skip)
    BY <2>2, <2>5 DEF SubmitQueue, Statuses, Stages, Free
  <2> QED BY <1>1, <2>1, <2>3, <2>4, <2>5 DEF Submit
<1>2. ASSUME NEW c \in Channels, DebounceExpire(c)
      PROVE  TypeOK'
  <2>1. Head(debounce[c]) \in Requests
    BY <1>2, ShorterType DEF DebounceExpire, CloseWindow, Consolidated
  <2>2. "running" \in Stages /\ "folded" \in Stages /\ "completed" \in Statuses /\ "active" \in Statuses
    BY DEF Stages, Statuses
  <2>3. /\ Assign(status, ToSet(Tail(debounce[c])), "completed") \in [Requests -> Statuses]
        /\ Assign(stage, ToSet(Tail(debounce[c])), "folded") \in [Requests -> Stages]
    BY <1>0, <2>2
  <2> QED BY <1>2, <2>1, <2>2, <2>3 DEF DebounceExpire, CloseWindow, Consolidated
<1>3. ASSUME NEW r \in Requests, Complete(r)
      PROVE  TypeOK'
  <2>1. CASE CompleteUnknown(r)
    BY <2>1 DEF CompleteUnknown, Stages
  <2>2. CASE CompleteLast(r)
    BY <2>2 DEF CompleteLast, Stages, Statuses, Release
  <2>3. CASE CompleteNext(r)
    <3>1. Head(queue[Channel[r]]) \in Requests /\ Tail(queue[Channel[r]]) \in Seq(Requests)
      BY <2>3, ShorterType DEF CompleteNext
    <3> QED BY <2>3, <3>1 DEF CompleteNext, Stages, Statuses
  <2> QED BY <1>3, <2>1, <2>2, <2>3 DEF Complete
<1>4. ASSUME NEW r \in Requests, CompleteBatch(r)
      PROVE  TypeOK'
  <2>0. PICK n \in 0 .. Len(queue[Channel[r]]) :
          /\ BatchEndsAt(Channel[r], n)
          /\ IF n = 0 THEN CompleteUnbatched(r) ELSE CompleteInto(r, n)
    BY <1>4 DEF CompleteBatch
  <2>1. CASE n = 0
    BY <1>4, <2>0, <2>1 DEF CompleteBatch, CompleteUnbatched, Stages, Statuses, Release
  <2>2. CASE n # 0
    <3> DEFINE s     == queue[Channel[r]]
               batch == SubSeq(s, 1, n)
    <3>1. s \in Seq(Requests) /\ n \in 1 .. Len(s)
      BY <2>2
    <3>2. batch \in Seq(Requests) /\ SubSeq(s, n + 1, Len(s)) \in Seq(Requests)
      BY <3>1, ShorterType
    <3>3. s[n] \in Requests
      BY <3>1, ElementOfSeq
    <3>4. "running" \in Stages /\ "served" \in Stages /\ "folded" \in Stages
          /\ "completed" \in Statuses /\ "active" \in Statuses
      BY DEF Stages, Statuses
    <3>5. /\ Assign([status EXCEPT ![r] = "completed"], ToSet(batch), "active") \in [Requests -> Statuses]
          /\ Assign(stage, ToSet(batch), "folded") \in [Requests -> Stages]
      BY <3>4, AssignType
    <3>6. UNCHANGED <<seen, debounce, timer, aborted>>
      BY <1>4 DEF CompleteBatch
    <3>7. CompleteInto(r, n)
      BY <2>0, <2>2
    <3> QED BY <3>1, <3>2, <3>3, <3>4, <3>5, <3>6, <3>7 DEF CompleteInto
  <2> QED BY <2>1, <2>2
<1>5. ASSUME NEW r \in Requests, Cancel(r)
      PROVE  TypeOK'
  <2>1. CASE CancelActive(r)
    BY <2>1 DEF CancelActive, Statuses, Release
  <2>2. CASE CancelQueued(r)
    <3>1. \A i \in 1 .. Len(queue[Channel[r]]) : RemoveAt(queue[Channel[r]], i) \in Seq(Requests)
      BY ShorterType
    <3> QED BY <2>2, <3>1 DEF CancelQueued, Statuses, Stages
  <2> QED BY <1>5, <2>1, <2>2 DEF Cancel
<1>6. ASSUME NEW c \in Channels, CancelChannel(c)
      PROVE  TypeOK'
  <2>1. status' \in [Requests -> Statuses] /\ stage' \in [Requests -> Stages]
    BY <1>6, <1>0 DEF CancelChannel, Statuses, Stages, Release, CloseWindow
  <2>2. <<>> \in Seq(Requests)
    BY EmptySeq
  <2> QED BY <1>6, <2>1, <2>2 DEF CancelChannel, Release, CloseWindow
<1>7. CASE CleanupOldRequests
  BY <1>7, <1>0 DEF CleanupOldRequests, Statuses, KeepStatuses
<1>8. ASSUME NEW f \in Fingerprints, WindowPasses(f)
      PROVE  TypeOK'
  BY <1>8 DEF WindowPasses
<1>9. CASE UNCHANGED vars
  BY <1>9 DEF vars
<1> QED BY <1>1, <1>2, <1>3, <1>4, <1>5, <1>6, <1>7, <1>8, <1>9 DEF Next

\* Every variable keeps its type, whatever is submitted, completed, cancelled
\* or forgotten.
THEOREM TypeCorrect == Spec => []TypeOK
BY TypeInit, TypeStep, PTL DEF Spec

----------------------------------------------------------------------------
(* Slots *)

\* The queue and the window of a channel hold exactly the requests of that
\* channel the caller waits for, each one once.
SlotsAt(c) ==
    /\ Distinct(queue[c])
    /\ Distinct(debounce[c])
    /\ InQueue(c) \cap InDebounce(c) = {}
    /\ \A r \in Requests :
          r \in InQueue(c) \cup InDebounce(c) <=> stage[r] = "waiting" /\ Channel[r] = c

Slots == \A c \in Channels : SlotsAt(c)

LEMMA SlotsInit == Init => Slots
<1> SUFFICES ASSUME Init, NEW c \in Channels
             PROVE  SlotsAt(c)
  BY DEF Slots
<1>1. queue[c] = <<>> /\ debounce[c] = <<>>
  BY DEF Init
<1>2. Distinct(<<>>) /\ ToSet(<<>>) = {}
  BY NoMembers
<1> QED BY <1>1, <1>2 DEF SlotsAt, InQueue, InDebounce, Init

\* Assign changes the records of the given requests only.
LEMMA AssignValue ==
    ASSUME TypeOK
    PROVE  /\ \A S, v : \A x \in Requests :
                 Assign(stage, S, v)[x] = IF x \in S THEN v ELSE stage[x]
           /\ \A S, v : \A x \in Requests :
                 Assign(status, S, v)[x] = IF x \in S THEN v ELSE status[x]
<1>1. DOMAIN stage = Requests /\ DOMAIN status = Requests
  BY DEF TypeOK
<1> QED BY <1>1 DEF Assign

\* What Slots says, in the form the steps use it.
LEMMA SlotsFacts ==
    ASSUME TypeOK, Slots, NEW c \in Channels
    PROVE  /\ queue[c] \in Seq(Requests) /\ debounce[c] \in Seq(Requests)
           /\ Distinct(queue[c]) /\ Distinct(debounce[c])
           /\ ToSet(queue[c]) \subseteq Requests /\ ToSet(debounce[c]) \subseteq Requests
           /\ ToSet(queue[c]) \cap ToSet(debounce[c]) = {}
           /\ \A r \in Requests :
                 r \in ToSet(queue[c]) \cup ToSet(debounce[c])
                    <=> stage[r] = "waiting" /\ Channel[r] = c
<1>1. queue[c] \in Seq(Requests) /\ debounce[c] \in Seq(Requests)
  BY DEF TypeOK
<1>2. ToSet(queue[c]) \subseteq Requests /\ ToSet(debounce[c]) \subseteq Requests
  BY <1>1 DEF ToSet
<1> QED BY <1>1, <1>2 DEF Slots, SlotsAt, InQueue, InDebounce

LEMMA SlotsStep == TypeOK /\ Slots /\ [Next]_vars => Slots'
<1> SUFFICES ASSUME TypeOK, Slots, [Next]_vars, NEW c \in Channels
             PROVE  SlotsAt(c)'
  BY DEF Slots
<1> DEFINE Q == queue[c]
           D == debounce[c]
<1>here. /\ Q \in Seq(Requests) /\ D \in Seq(Requests)
      /\ Distinct(Q) /\ Distinct(D)
      /\ ToSet(Q) \cap ToSet(D) = {}
      /\ \A r \in Requests :
            r \in ToSet(Q) \cup ToSet(D) <=> stage[r] = "waiting" /\ Channel[r] = c
  BY SlotsFacts
<1>goal. ASSUME Distinct(queue'[c]), Distinct(debounce'[c]),
              ToSet(queue'[c]) \cap ToSet(debounce'[c]) = {},
              \A r \in Requests : r \in ToSet(queue'[c]) \cup ToSet(debounce'[c])
                                    <=> stage'[r] = "waiting" /\ Channel[r] = c
       PROVE  SlotsAt(c)'
  BY <1>goal DEF SlotsAt, InQueue, InDebounce
<1>types. stage \in [Requests -> Stages] /\ Channel \in [Requests -> Channels]
  BY ConstantsOK DEF TypeOK
<1>seqs. queue \in [Channels -> Seq(Requests)] /\ debounce \in [Channels -> Seq(Requests)]
  BY DEF TypeOK
<1> HIDE DEF Q, D
<1>1. ASSUME NEW r \in Requests, NEW skip \in BOOLEAN, Submit(r, skip)
      PROVE  SlotsAt(c)'
  <2>1. CASE RejectDuplicate(r)
    <3>1. queue'[c] = Q /\ debounce'[c] = D
      BY <2>1 DEF RejectDuplicate, Q, D
    <3>2. \A x \in Requests : stage'[x] = "waiting" <=> stage[x] = "waiting"
      BY <2>1, <1>types DEF RejectDuplicate
    <3> QED BY <1>here, <1>goal, <3>1, <3>2
  <2>2. CASE SubmitAcquire(r, skip)
    <3>1. queue'[c] = Q /\ debounce'[c] = D
      BY <2>2 DEF SubmitAcquire, Q, D, Free
    <3>2. \A x \in Requests : stage'[x] = "waiting" <=> stage[x] = "waiting"
      BY <2>2, <1>types DEF SubmitAcquire, Free
    <3> QED BY <1>here, <1>goal, <3>1, <3>2
  <2>3. CASE SubmitDebounce(r, skip)
    <3>1. \A x \in Requests : stage'[x] = "waiting" <=> stage[x] = "waiting" \/ x = r
      BY <2>3, <1>types DEF SubmitDebounce, Free, RestartTimer
    <3>2. stage[r] # "waiting" /\ queue'[c] = Q
      BY <2>3 DEF SubmitDebounce, Q, Free, RestartTimer
    <3>3. CASE Channel[r] = c
      <4>1. debounce'[c] = Append(D, r) /\ r \notin ToSet(D) /\ r \notin ToSet(Q)
        BY <2>3, <3>2, <3>3, <1>here, <1>seqs DEF SubmitDebounce, D, Free, RestartTimer
      <4>2. Distinct(Append(D, r)) /\ ToSet(Append(D, r)) = ToSet(D) \cup {r}
        BY <4>1, <1>here, Joining
      <4> QED BY <4>1, <4>2, <3>1, <3>2, <3>3, <1>here, <1>goal
    <3>4. CASE Channel[r] # c
      <4>1. debounce'[c] = D
        BY <2>3, <3>4, <1>seqs DEF SubmitDebounce, D, Free, RestartTimer
      <4> QED BY <4>1, <3>1, <3>2, <3>4, <1>here, <1>goal
    <3> QED BY <3>3, <3>4
  <2>4. CASE SubmitQueue(r, skip)
    <3>1. \A x \in Requests : stage'[x] = "waiting" <=> stage[x] = "waiting" \/ x = r
      BY <2>4, <1>types DEF SubmitQueue, Free
    <3>2. stage[r] # "waiting" /\ debounce'[c] = D
      BY <2>4 DEF SubmitQueue, D, Free
    <3>3. CASE Channel[r] = c
      <4>1. queue'[c] = Append(Q, r) /\ r \notin ToSet(D) /\ r \notin ToSet(Q)
        BY <2>4, <3>2, <3>3, <1>here, <1>seqs DEF SubmitQueue, Q, Free
      <4>2. Distinct(Append(Q, r)) /\ ToSet(Append(Q, r)) = ToSet(Q) \cup {r}
        BY <4>1, <1>here, Joining
      <4> QED BY <4>1, <4>2, <3>1, <3>2, <3>3, <1>here, <1>goal
    <3>4. CASE Channel[r] # c
      <4>1. queue'[c] = Q
        BY <2>4, <3>4, <1>seqs DEF SubmitQueue, Q, Free
      <4> QED BY <4>1, <3>1, <3>2, <3>4, <1>here, <1>goal
    <3> QED BY <3>3, <3>4
  <2> QED BY <1>1, <2>1, <2>2, <2>3, <2>4 DEF Submit
<1>2. ASSUME NEW d \in Channels, DebounceExpire(d)
      PROVE  SlotsAt(c)'
  <2> DEFINE W == debounce[d]
  <2>0. /\ W \in Seq(Requests) /\ W # <<>> /\ Distinct(W)
        /\ \A x \in ToSet(W) : x \in Requests /\ stage[x] = "waiting" /\ Channel[x] = d
    BY <1>2, SlotsFacts DEF DebounceExpire, CloseWindow, Consolidated
  <2>1. Head(W) \in ToSet(W) /\ Head(W) \in Requests /\ ToSet(Tail(W)) = ToSet(W) \ {Head(W)}
    BY <2>0, HeadLeaves
  <2>2. \A x \in Requests : stage'[x] = IF x = Head(W) THEN "running"
                                        ELSE IF x \in ToSet(Tail(W)) THEN "folded" ELSE stage[x]
    <3>1. stage' = [Assign(stage, ToSet(Tail(W)), "folded") EXCEPT ![Head(W)] = "running"]
      BY <1>2 DEF DebounceExpire, CloseWindow, Consolidated
    <3>2. Assign(stage, ToSet(Tail(W)), "folded") \in [Requests -> Stages]
      BY <1>types, AssignType DEF Stages
    <3> QED BY <3>1, <3>2, <1>types, AssignValue
  <2>3. \A x \in Requests : stage'[x] = "waiting" <=> stage[x] = "waiting" /\ x \notin ToSet(W)
    BY <2>1, <2>2
  <2>4. queue'[c] = Q
    BY <1>2 DEF DebounceExpire, Q, CloseWindow, Consolidated
  <2>5. CASE c = d
    <3>1. debounce'[c] = <<>> /\ W = D
      BY <1>2, <2>5, <1>seqs DEF DebounceExpire, D, CloseWindow, Consolidated
    <3>2. Distinct(<<>>) /\ ToSet(<<>>) = {}
      BY NoMembers
    <3> QED BY <3>1, <3>2, <2>3, <2>4, <1>here, <1>goal
  <2>6. CASE c # d
    <3>1. debounce'[c] = D
      BY <1>2, <2>6, <1>seqs DEF DebounceExpire, D, CloseWindow, Consolidated
    <3> QED BY <3>1, <2>0, <2>3, <2>4, <2>6, <1>here, <1>goal
  <2> QED BY <2>5, <2>6
<1>3. ASSUME NEW r \in Requests, Complete(r)
      PROVE  SlotsAt(c)'
  <2>1. CASE CompleteUnknown(r) \/ CompleteLast(r)
    <3>1. queue'[c] = Q /\ debounce'[c] = D
      BY <2>1 DEF CompleteUnknown, CompleteLast, Q, D, Release
    <3>2. \A x \in Requests : stage'[x] = "waiting" <=> stage[x] = "waiting"
      BY <2>1, <1>types DEF CompleteUnknown, CompleteLast, Release
    <3> QED BY <1>here, <1>goal, <3>1, <3>2
  <2>2. CASE CompleteNext(r)
    <3> DEFINE d == Channel[r]
               W == queue[d]
    <3>0. /\ W \in Seq(Requests) /\ W # <<>> /\ Distinct(W) /\ d \in Channels
          /\ \A x \in ToSet(W) : x \in Requests /\ stage[x] = "waiting" /\ Channel[x] = d
      <4>1. d \in Channels
        BY <1>types
      <4> QED BY <4>1, <2>2, SlotsFacts DEF CompleteNext
    <3>1. /\ Head(W) \in ToSet(W) /\ Head(W) \in Requests
          /\ ToSet(Tail(W)) = ToSet(W) \ {Head(W)} /\ Distinct(Tail(W))
      BY <3>0, HeadLeaves
    <3>2. /\ stage[r] = "running"
          /\ stage' = [stage EXCEPT ![r] = "served", ![Head(W)] = "running"]
          /\ queue' = [queue EXCEPT ![d] = Tail(W)]
          /\ debounce' = debounce
      BY <2>2 DEF CompleteNext
    <3> HIDE DEF W, d
    <3>3. \A x \in Requests : stage'[x] = "waiting" <=> stage[x] = "waiting" /\ x # Head(W)
      BY <3>1, <3>2, <1>types
    <3>4. CASE c = d
      <4>1. queue'[c] = Tail(W) /\ debounce'[c] = D /\ W = Q
        BY <3>2, <3>4, <1>seqs DEF Q, D, W
      <4> QED BY <4>1, <3>1, <3>3, <1>here, <1>goal
    <3>5. CASE c # d
      <4>1. queue'[c] = Q /\ debounce'[c] = D
        BY <3>2, <3>5, <1>seqs DEF Q, D
      <4> QED BY <4>1, <3>0, <3>1, <3>3, <3>5, <1>here, <1>goal
    <3> QED BY <3>4, <3>5
  <2> QED BY <1>3, <2>1, <2>2 DEF Complete
<1>4. ASSUME NEW r \in Requests, CompleteBatch(r)
      PROVE  SlotsAt(c)'
  <2> DEFINE d == Channel[r]
             W == queue[d]
  <2>1. PICK n \in 0 .. Len(W) :
          /\ BatchEndsAt(d, n)
          /\ IF n = 0 THEN CompleteUnbatched(r) ELSE CompleteInto(r, n)
    BY <1>4 DEF CompleteBatch
  <2>2. debounce'[c] = D
    BY <1>4 DEF CompleteBatch, D
  <2>3. CASE n = 0
    <3>1. queue'[c] = Q /\ \A x \in Requests : stage'[x] = "waiting" <=> stage[x] = "waiting"
      BY <1>4, <2>1, <2>3, <1>types DEF CompleteBatch, CompleteUnbatched, Q, Release
    <3> QED BY <1>here, <1>goal, <2>2, <3>1
  <2>4. CASE n # 0
    <3> DEFINE B == SubSeq(W, 1, n)
               E == SubSeq(W, n + 1, Len(W))
    <3>1. /\ W \in Seq(Requests) /\ Distinct(W) /\ n \in 1 .. Len(W)
          /\ \A x \in ToSet(W) : x \in Requests /\ stage[x] = "waiting" /\ Channel[x] = d
      <4>1. d \in Channels
        BY <1>types
      <4> QED BY <2>4, <4>1, SlotsFacts
    <3>2. /\ Distinct(E) /\ ToSet(E) = ToSet(W) \ ToSet(B)
          /\ W[n] \in ToSet(B) /\ ToSet(B) \subseteq ToSet(W)
      BY <3>1, PrefixLeaves
    <3>3. /\ stage[r] = "running"
          /\ stage' = [Assign(stage, ToSet(B), "folded") EXCEPT ![r] = "served", ![W[n]] = "running"]
          /\ queue' = [queue EXCEPT ![d] = E]
      BY <1>4, <2>1, <2>4 DEF CompleteBatch, CompleteInto
    <3>4. Assign(stage, ToSet(B), "folded") \in [Requests -> Stages]
      BY <1>types, AssignType DEF Stages
    <3>5. \A x \in Requests : Assign(stage, ToSet(B), "folded")[x]
                                 = IF x \in ToSet(B) THEN "folded" ELSE stage[x]
      BY AssignValue
    <3> HIDE DEF W, d, B, E
    <3>6. \A x \in Requests : stage'[x] = "waiting" <=> stage[x] = "waiting" /\ x \notin ToSet(B)
      BY <3>1, <3>2, <3>3, <3>4, <3>5
    <3>7. CASE c = d
      <4>1. queue'[c] = E /\ W = Q
        BY <3>3, <3>7, <1>seqs DEF Q, W
      <4> QED BY <4>1, <2>2, <3>2, <3>6, <1>here, <1>goal
    <3>8. CASE c # d
      <4>1. queue'[c] = Q
        BY <3>3, <3>8, <1>seqs DEF Q
      <4> QED BY <4>1, <2>2, <3>1, <3>2, <3>6, <3>8, <1>here, <1>goal
    <3> QED BY <3>7, <3>8
  <2> QED BY <2>3, <2>4
<1>5. ASSUME NEW r \in Requests, Cancel(r)
      PROVE  SlotsAt(c)'
  <2>1. CASE CancelActive(r)
    <3>1. queue'[c] = Q /\ debounce'[c] = D /\ stage' = stage
      BY <2>1 DEF CancelActive, Q, D, Release
    <3> QED BY <1>here, <1>goal, <3>1
  <2>2. CASE CancelQueued(r)
    <3> DEFINE d == Channel[r]
               W == queue[d]
    <3>1. PICK i \in 1 .. Len(W) : W[i] = r /\ queue' = [queue EXCEPT ![d] = RemoveAt(W, i)]
      BY <2>2 DEF CancelQueued
    <3>2. W \in Seq(Requests) /\ Distinct(W) /\ d \in Channels
      <4>1. d \in Channels
        BY <1>types
      <4> QED BY <4>1, SlotsFacts
    <3>3. Distinct(RemoveAt(W, i)) /\ ToSet(RemoveAt(W, i)) = ToSet(W) \ {r}
      BY <3>1, <3>2, OneLeaves
    <3>4. r \in ToSet(W) /\ stage[r] = "waiting"
      <4>1. r \in ToSet(W)
        BY <3>1, <3>2, Members
      <4> QED BY <4>1, <3>2, SlotsFacts
    <3>5. \A x \in Requests : stage'[x] = "waiting" <=> stage[x] = "waiting" /\ x # r
      BY <2>2, <1>types DEF CancelQueued
    <3>6. debounce'[c] = D
      BY <2>2 DEF CancelQueued, D
    <3> HIDE DEF W
    <3>7. CASE c = d
      <4>1. queue'[c] = RemoveAt(W, i) /\ W = Q
        BY <3>1, <3>7, <1>seqs DEF Q, W
      <4>2. r \notin ToSet(D)
        BY <4>1, <3>4, <1>here
      <4> QED BY <4>1, <4>2, <3>3, <3>5, <3>6, <1>here, <1>goal
    <3>8. CASE c # d
      <4>1. queue'[c] = Q
        BY <3>1, <3>8, <1>seqs DEF Q
      <4> QED BY <4>1, <3>5, <3>6, <3>8, <1>here, <1>goal
    <3> QED BY <3>7, <3>8
  <2> QED BY <1>5, <2>1, <2>2 DEF Cancel
<1>6. ASSUME NEW d \in Channels, CancelChannel(d)
      PROVE  SlotsAt(c)'
  <2> DEFINE held == ToSet(debounce[d]) \cup ToSet(queue[d])
  <2>1. \A x \in Requests : stage'[x] = IF x \in held THEN "withdrawn" ELSE stage[x]
    <3>1. stage' = Assign(stage, held, "withdrawn")
      BY <1>6 DEF CancelChannel, InQueue, InDebounce, Release, CloseWindow
    <3> HIDE DEF held
    <3> QED BY <3>1, AssignValue
  <2>2. \A x \in Requests : x \in held <=> stage[x] = "waiting" /\ Channel[x] = d
    BY SlotsFacts
  <2>3. \A x \in Requests : stage'[x] = "waiting" <=> stage[x] = "waiting" /\ Channel[x] # d
    BY <2>1, <2>2
  <2>4. CASE c = d
    <3>1. queue'[c] = <<>> /\ debounce'[c] = <<>>
      BY <1>6, <2>4, <1>seqs DEF CancelChannel, Release, CloseWindow
    <3>2. Distinct(<<>>) /\ ToSet(<<>>) = {}
      BY NoMembers
    <3> QED BY <3>1, <3>2, <2>3, <2>4, <1>goal
  <2>5. CASE c # d
    <3>1. queue'[c] = Q /\ debounce'[c] = D
      BY <1>6, <2>5, <1>seqs DEF CancelChannel, Q, D, Release, CloseWindow
    <3> QED BY <3>1, <2>3, <2>5, <1>here, <1>goal
  <2> QED BY <2>4, <2>5
<1>7. CASE CleanupOldRequests \/ (\E f \in Fingerprints : WindowPasses(f)) \/ UNCHANGED vars
  <2>1. queue'[c] = Q /\ debounce'[c] = D /\ stage' = stage
    BY <1>7 DEF CleanupOldRequests, WindowPasses, vars, Q, D, KeepStatuses
  <2> QED BY <1>here, <1>goal, <2>1
<1> QED BY <1>1, <1>2, <1>3, <1>4, <1>5, <1>6, <1>7 DEF Next

LEMMA SlotsCorrect == Spec => []Slots
BY TypeCorrect, SlotsInit, SlotsStep, PTL DEF Spec

LEMMA OccurrencesOf ==
    ASSUME NEW R, NEW s \in Seq(R), Distinct(s), NEW x
    PROVE  Occurrences(s, x) = IF x \in ToSet(s) THEN 1 ELSE 0
<1> DEFINE places == {i \in DOMAIN s : s[i] = x}
<1>1. DOMAIN s = 1 .. Len(s)
  OBVIOUS
<1>2. CASE x \in ToSet(s)
  <2>1. PICK i \in 1 .. Len(s) : s[i] = x
    BY <1>2, Members
  <2>2. places = {i}
    BY <1>1, <2>1 DEF Distinct
  <2>3. Cardinality({i}) = 1
    BY FS_Singleton
  <2> QED BY <1>2, <2>2, <2>3 DEF Occurrences
<1>3. CASE x \notin ToSet(s)
  <2>1. places = {}
    BY <1>1, <1>3, Members
  <2>2. Cardinality({}) = 0
    BY FS_EmptySet
  <2> QED BY <1>3, <2>1, <2>2 DEF Occurrences
<1> QED BY <1>2, <1>3

\* A request the caller was told to wait for sits in exactly one slot, of its
\* own channel; any other request sits in none.
THEOREM NothingLost == Spec => []NothingLostNothingTwice
<1>1. TypeOK /\ Slots => NothingLostNothingTwice
  <2> SUFFICES ASSUME TypeOK, Slots, NEW r \in Requests, NEW c \in Channels
               PROVE  Occurrences(queue[c], r) + Occurrences(debounce[c], r)
                         = IF stage[r] = "waiting" /\ c = Channel[r] THEN 1 ELSE 0
    BY DEF NothingLostNothingTwice
  <2>1. /\ queue[c] \in Seq(Requests) /\ debounce[c] \in Seq(Requests)
        /\ Distinct(queue[c]) /\ Distinct(debounce[c])
        /\ ToSet(queue[c]) \cap ToSet(debounce[c]) = {}
        /\ r \in ToSet(queue[c]) \cup ToSet(debounce[c])
              <=> stage[r] = "waiting" /\ Channel[r] = c
    BY SlotsFacts
  <2>2. /\ Occurrences(queue[c], r) = IF r \in ToSet(queue[c]) THEN 1 ELSE 0
        /\ Occurrences(debounce[c], r) = IF r \in ToSet(debounce[c]) THEN 1 ELSE 0
    BY <2>1, OccurrencesOf
  <2> QED BY <2>1, <2>2
<1> QED BY <1>1, TypeCorrect, SlotsCorrect, PTL

----------------------------------------------------------------------------
(* The active request *)

\* Only requests that were started are ever aborted.
AbortedStarted == \A r \in aborted : stage[r] \in {"running", "served"}

LiveInv == AbortedStarted /\ ActiveIsLive

LEMMA LiveInit == Init => LiveInv
BY DEF Init, LiveInv, AbortedStarted, ActiveIsLive

\* The request a window or a queue hands over waited in its channel.
LEMMA HeadWaits ==
    ASSUME TypeOK, Slots, NEW c \in Channels
    PROVE  /\ debounce[c] # <<>> =>
                /\ Head(debounce[c]) \in Requests
                /\ Channel[Head(debounce[c])] = c
                /\ \A x \in ToSet(debounce[c]) : x \in Requests /\ stage[x] = "waiting"
                /\ Head(debounce[c]) \in ToSet(debounce[c])
                /\ ToSet(Tail(debounce[c])) = ToSet(debounce[c]) \ {Head(debounce[c])}
           /\ queue[c] # <<>> =>
                /\ Head(queue[c]) \in Requests
                /\ Channel[Head(queue[c])] = c
                /\ stage[Head(queue[c])] = "waiting"
<1>1. /\ queue[c] \in Seq(Requests) /\ debounce[c] \in Seq(Requests)
      /\ Distinct(queue[c]) /\ Distinct(debounce[c])
      /\ ToSet(queue[c]) \subseteq Requests /\ ToSet(debounce[c]) \subseteq Requests
      /\ \A r \in Requests : r \in ToSet(queue[c]) \cup ToSet(debounce[c])
                                <=> stage[r] = "waiting" /\ Channel[r] = c
  BY SlotsFacts
<1>2. debounce[c] # <<>> =>
        /\ Head(debounce[c]) \in ToSet(debounce[c])
        /\ ToSet(Tail(debounce[c])) = ToSet(debounce[c]) \ {Head(debounce[c])}
  BY <1>1, HeadLeaves
<1>3. queue[c] # <<>> => Head(queue[c]) \in ToSet(queue[c])
  BY <1>1, HeadLeaves
<1> QED BY <1>1, <1>2, <1>3

\* So did the requests a batch is made of.
LEMMA BatchWaits ==
    ASSUME TypeOK, Slots, NEW c \in Channels, NEW n \in 1 .. Len(queue[c])
    PROVE  /\ \A x \in ToSet(SubSeq(queue[c], 1, n)) :
                 x \in Requests /\ stage[x] = "waiting" /\ Channel[x] = c
           /\ queue[c][n] \in ToSet(SubSeq(queue[c], 1, n))
<1>1. /\ queue[c] \in Seq(Requests) /\ Distinct(queue[c])
      /\ ToSet(queue[c]) \subseteq Requests
      /\ \A r \in Requests : r \in ToSet(queue[c]) \cup ToSet(debounce[c])
                                <=> stage[r] = "waiting" /\ Channel[r] = c
  BY SlotsFacts
<1>2. /\ queue[c][n] \in ToSet(SubSeq(queue[c], 1, n))
      /\ ToSet(SubSeq(queue[c], 1, n)) \subseteq ToSet(queue[c])
  BY <1>1, PrefixLeaves
<1> QED BY <1>1, <1>2

LEMMA LiveStep == TypeOK /\ Slots /\ LiveInv /\ [Next]_vars => LiveInv'
<1> SUFFICES ASSUME TypeOK, Slots, LiveInv, [Next]_vars
             PROVE  LiveInv'
  OBVIOUS
<1> USE DEF LiveInv, AbortedStarted, ActiveIsLive
<1>types. /\ stage \in [Requests -> Stages] /\ status \in [Requests -> Statuses]
          /\ active \in [Channels -> Requests \cup {NoRequest}]
          /\ Channel \in [Requests -> Channels]
          /\ aborted \subseteq Requests
          /\ NoRequest \notin Requests
  BY ConstantsOK DEF TypeOK
<1>1. ASSUME NEW r \in Requests, NEW skip \in BOOLEAN, Submit(r, skip)
      PROVE  LiveInv'
  <2>1. stage[r] = "idle"
    BY <1>1 DEF Submit, RejectDuplicate, SubmitAcquire, SubmitDebounce, SubmitQueue, Free, RestartTimer
  <2>2. CASE RejectDuplicate(r)
    BY <2>1, <2>2, <1>types DEF RejectDuplicate
  <2>3. CASE SubmitAcquire(r, skip)
    BY <2>1, <2>3, <1>types DEF SubmitAcquire, Free
  <2>4. CASE SubmitDebounce(r, skip)
    BY <2>1, <2>4, <1>types DEF SubmitDebounce, Free, RestartTimer
  <2>5. CASE SubmitQueue(r, skip)
    BY <2>1, <2>5, <1>types DEF SubmitQueue, Free
  <2> QED BY <1>1, <2>2, <2>3, <2>4, <2>5 DEF Submit
<1>2. ASSUME NEW d \in Channels, DebounceExpire(d)
      PROVE  LiveInv'
  <2> DEFINE W == debounce[d]
             h == Head(W)
             T == ToSet(Tail(W))
  <2>1. /\ h \in Requests /\ Channel[h] = d
        /\ \A x \in ToSet(W) : x \in Requests /\ stage[x] = "waiting"
        /\ h \in ToSet(W) /\ T = ToSet(W) \ {h}
    BY <1>2, HeadWaits DEF DebounceExpire, CloseWindow, Consolidated
  <2>2. /\ stage' = [Assign(stage, T, "folded") EXCEPT ![h] = "running"]
        /\ status' = [Assign(status, T, "completed") EXCEPT ![h] = "active"]
        /\ active' = [active EXCEPT ![d] = h]
        /\ aborted' = aborted
    BY <1>2 DEF DebounceExpire, CloseWindow, Consolidated
  <2>3. /\ Assign(stage, T, "folded") \in [Requests -> Stages]
        /\ Assign(status, T, "completed") \in [Requests -> Statuses]
    BY <1>types, AssignType DEF Stages, Statuses
  <2>a. \A x \in Requests :
          /\ Assign(stage, T, "folded")[x] = IF x \in T THEN "folded" ELSE stage[x]
          /\ Assign(status, T, "completed")[x] = IF x \in T THEN "completed" ELSE status[x]
    BY AssignValue
  <2> HIDE DEF h, T
  <2>4. \A x \in Requests :
          /\ stage'[x] = IF x = h THEN "running" ELSE IF x \in T THEN "folded" ELSE stage[x]
          /\ status'[x] = IF x = h THEN "active" ELSE IF x \in T THEN "completed" ELSE status[x]
    <3>1. TAKE x \in Requests
    <3>2. stage'[x] = IF x = h THEN "running" ELSE Assign(stage, T, "folded")[x]
      BY <2>2, <2>3
    <3>3. status'[x] = IF x = h THEN "active" ELSE Assign(status, T, "completed")[x]
      BY <2>2, <2>3
    <3>4. /\ Assign(stage, T, "folded")[x] = IF x \in T THEN "folded" ELSE stage[x]
          /\ Assign(status, T, "completed")[x] = IF x \in T THEN "completed" ELSE status[x]
      BY <2>a
    <3> QED BY <3>2, <3>3, <3>4
  <2>5. \A x \in Requests : x = h \/ x \in T => stage[x] # "running" /\ x \notin aborted
    BY <2>1
  <2> HIDE DEF W
  <2>6. \A x \in aborted' : stage'[x] \in {"running", "served"}
    BY <2>2, <2>4, <2>5, <1>types
  <2>7. ASSUME NEW e \in Channels, active'[e] # NoRequest
        PROVE  /\ Channel[active'[e]] = e
               /\ stage'[active'[e]] = "running"
               /\ active'[e] \notin aborted'
               /\ status'[active'[e]] = "active"
    <3>1. CASE e = d
      <4>1. active'[e] = h /\ stage'[h] = "running" /\ status'[h] = "active"
        BY <3>1, <2>1, <2>2, <2>4, <1>types
      <4>2. h \notin aborted'
        BY <2>1, <2>2, <2>5
      <4> QED BY <4>1, <4>2, <3>1, <2>1
    <3>2. CASE e # d
      <4>1. active'[e] = active[e] /\ active[e] \in Requests /\ stage[active[e]] = "running"
            /\ Channel[active[e]] = e /\ active[e] \notin aborted /\ status[active[e]] = "active"
        BY <3>2, <2>2, <2>7, <1>types
      <4> QED BY <4>1, <2>2, <2>4, <2>5
    <3> QED BY <3>1, <3>2
  <2> QED BY <2>6, <2>7
<1>3. ASSUME NEW r \in Requests, Complete(r)
      PROVE  LiveInv'
  <2>1. CASE CompleteUnknown(r)
    BY <2>1, <1>types DEF CompleteUnknown
  <2>2. CASE CompleteLast(r)
    BY <2>2, <1>types DEF CompleteLast, Release
  <2>3. CASE CompleteNext(r)
    <3> DEFINE d == Channel[r]
               n == Head(queue[d])
    <3>1. d \in Channels
      BY <1>types
    <3>2. n \in Requests /\ Channel[n] = d /\ stage[n] = "waiting"
      BY <3>1, <2>3, HeadWaits DEF CompleteNext
    <3>3. /\ stage[r] = "running" /\ active[d] = r
          /\ stage' = [stage EXCEPT ![r] = "served", ![n] = "running"]
          /\ status' = [status EXCEPT ![r] = "completed", ![n] = "active"]
          /\ active' = [active EXCEPT ![d] = n]
          /\ aborted' = aborted
      BY <2>3 DEF CompleteNext
    <3> HIDE DEF n
    <3>4. \A x \in Requests :
            /\ stage'[x] = IF x = n THEN "running" ELSE IF x = r THEN "served" ELSE stage[x]
            /\ status'[x] = IF x = n THEN "active" ELSE IF x = r THEN "completed" ELSE status[x]
      BY <3>2, <3>3, <1>types
    <3>5. \A x \in aborted' : stage'[x] \in {"running", "served"}
      BY <3>3, <3>4, <1>types
    <3>6. ASSUME NEW e \in Channels, active'[e] # NoRequest
          PROVE  /\ Channel[active'[e]] = e
                 /\ stage'[active'[e]] = "running"
                 /\ active'[e] \notin aborted'
                 /\ status'[active'[e]] = "active"
      <4>1. CASE e = d
        BY <4>1, <3>2, <3>3, <3>4, <1>types
      <4>2. CASE e # d
        <5>1. active'[e] = active[e] /\ active[e] \in Requests /\ stage[active[e]] = "running"
              /\ Channel[active[e]] = e /\ active[e] \notin aborted /\ status[active[e]] = "active"
          BY <4>2, <3>3, <3>6, <1>types
        <5>2. active[e] # r /\ active[e] # n
          BY <5>1, <4>2, <3>2
        <5>3. stage'[active[e]] = stage[active[e]] /\ status'[active[e]] = status[active[e]]
          BY <5>1, <5>2, <3>4
        <5> QED BY <5>1, <5>3, <3>3
      <4> QED BY <4>1, <4>2
    <3> QED BY <3>5, <3>6
  <2> QED BY <1>3, <2>1, <2>2, <2>3 DEF Complete
<1>4. ASSUME NEW r \in Requests, CompleteBatch(r)
      PROVE  LiveInv'
  <2> DEFINE d == Channel[r]
             W == queue[d]
  <2>1. PICK n \in 0 .. Len(W) :
          /\ BatchEndsAt(d, n)
          /\ IF n = 0 THEN CompleteUnbatched(r) ELSE CompleteInto(r, n)
    BY <1>4 DEF CompleteBatch
  <2>2. /\ stage[r] = "running" /\ active[d] = r /\ aborted' = aborted /\ d \in Channels
    BY <1>4, <1>types DEF CompleteBatch
  <2>3. CASE n = 0
    BY <2>1, <2>2, <2>3, <1>types DEF CompleteUnbatched, Release
  <2>4. CASE n # 0
    <3> DEFINE B    == ToSet(SubSeq(W, 1, n))
               last == W[n]
               mid  == [status EXCEPT ![r] = "completed"]
    <3>1. /\ stage' = [Assign(stage, B, "folded") EXCEPT ![r] = "served", ![last] = "running"]
          /\ status' = Assign(mid, B, "active")
          /\ active' = [active EXCEPT ![d] = last]
      BY <2>1, <2>4 DEF CompleteInto
    <3>2. last \in B /\ \A x \in B : x \in Requests /\ stage[x] = "waiting" /\ Channel[x] = d
      BY <2>2, <2>4, BatchWaits
    <3>3. Assign(stage, B, "folded") \in [Requests -> Stages]
      BY <1>types, AssignType DEF Stages
    <3>4. \A x \in Requests : /\ Assign(stage, B, "folded")[x] = IF x \in B THEN "folded" ELSE stage[x]
                              /\ status'[x] = IF x \in B THEN "active" ELSE mid[x]
      <4>1. DOMAIN mid = Requests
        BY <1>types
      <4> HIDE DEF mid, B
      <4>2. \A x \in Requests : Assign(mid, B, "active")[x] = IF x \in B THEN "active" ELSE mid[x]
        BY <4>1 DEF Assign
      <4> QED BY <4>2, <3>1, AssignValue
    <3>5. \A x \in Requests : mid[x] = IF x = r THEN "completed" ELSE status[x]
      BY <1>types
    <3> HIDE DEF mid, B, last, W, d
    <3>6. \A x \in Requests :
            /\ stage'[x] = IF x = last THEN "running" ELSE IF x = r THEN "served"
                           ELSE IF x \in B THEN "folded" ELSE stage[x]
            /\ status'[x] = IF x \in B THEN "active" ELSE IF x = r THEN "completed" ELSE status[x]
      BY <3>1, <3>2, <3>3, <3>4, <3>5
    <3>7. \A x \in B : x # r /\ stage[x] # "running" /\ x \notin aborted
      BY <2>2, <3>2
    <3>8. \A x \in aborted' : stage'[x] \in {"running", "served"}
      BY <3>2, <3>6, <3>7, <2>2, <1>types
    <3>9. ASSUME NEW e \in Channels, active'[e] # NoRequest
          PROVE  /\ Channel[active'[e]] = e
                 /\ stage'[active'[e]] = "running"
                 /\ active'[e] \notin aborted'
                 /\ status'[active'[e]] = "active"
      <4>1. CASE e = d
        BY <4>1, <2>2, <3>1, <3>2, <3>6, <3>7, <1>types
      <4>2. CASE e # d
        <5>1. active'[e] = active[e] /\ active[e] \in Requests /\ stage[active[e]] = "running"
              /\ Channel[active[e]] = e /\ active[e] \notin aborted /\ status[active[e]] = "active"
          BY <4>2, <3>1, <3>9, <1>types
        <5>2. active[e] # r /\ active[e] \notin B
          BY <5>1, <4>2, <3>2, <2>2 DEF d
        <5> QED BY <5>1, <5>2, <3>2, <3>6, <2>2
      <4> QED BY <4>1, <4>2
    <3> QED BY <3>8, <3>9
  <2> QED BY <2>3, <2>4
<1>5. ASSUME NEW r \in Requests, Cancel(r)
      PROVE  LiveInv'
  <2>1. CASE CancelActive(r)
    BY <2>1, <1>types DEF CancelActive, Release
  <2>2. CASE CancelQueued(r)
    <3>1. stage[r] = "waiting"
      <4>1. PICK i \in 1 .. Len(queue[Channel[r]]) : queue[Channel[r]][i] = r
        BY <2>2 DEF CancelQueued
      <4>2. Channel[r] \in Channels /\ queue[Channel[r]] \in Seq(Requests)
        BY <1>types DEF TypeOK
      <4>3. r \in ToSet(queue[Channel[r]])
        BY <4>1, <4>2, Members
      <4> QED BY <4>2, <4>3, SlotsFacts
    <3> QED BY <2>2, <3>1, <1>types DEF CancelQueued
  <2> QED BY <1>5, <2>1, <2>2 DEF Cancel
<1>6. ASSUME NEW d \in Channels, CancelChannel(d)
      PROVE  LiveInv'
  <2> DEFINE held    == ToSet(debounce[d]) \cup ToSet(queue[d])
             current == {active[d]} \ {NoRequest}
  <2>1. /\ stage' = Assign(stage, held, "withdrawn")
        /\ status' = Assign(status, held \cup current, "cancelled")
        /\ active' = [active EXCEPT ![d] = NoRequest]
        /\ aborted' = aborted \cup current
    BY <1>6 DEF CancelChannel, InQueue, InDebounce, Release, CloseWindow
  <2>2. \A x \in Requests : x \in held <=> stage[x] = "waiting" /\ Channel[x] = d
    BY SlotsFacts
  <2> HIDE DEF held
  <2>3. \A x \in Requests :
          /\ stage'[x] = IF x \in held THEN "withdrawn" ELSE stage[x]
          /\ status'[x] = IF x \in held \cup current THEN "cancelled" ELSE status[x]
    BY <2>1, AssignValue
  <2>4. \A x \in current : x \in Requests /\ stage[x] = "running" /\ Channel[x] = d
    BY <1>types
  <2> HIDE DEF current
  <2>5. \A x \in aborted' : stage'[x] \in {"running", "served"}
    BY <2>1, <2>2, <2>3, <2>4, <1>types
  <2>6. ASSUME NEW e \in Channels, active'[e] # NoRequest
        PROVE  /\ Channel[active'[e]] = e
               /\ stage'[active'[e]] = "running"
               /\ active'[e] \notin aborted'
               /\ status'[active'[e]] = "active"
    <3>1. e # d /\ active'[e] = active[e] /\ active[e] \in Requests
      BY <2>1, <2>6, <1>types
    <3>2. stage[active[e]] = "running" /\ active[e] \notin aborted
          /\ status[active[e]] = "active" /\ Channel[active[e]] = e
      BY <3>1, <2>6
    <3>3. active[e] \notin held /\ active[e] \notin current
      BY <3>1, <3>2, <2>2, <2>4
    <3> QED BY <3>1, <3>2, <3>3, <2>1, <2>3
  <2> QED BY <2>5, <2>6
<1>7. CASE CleanupOldRequests
  <2>1. PICK S \in SUBSET {r \in Requests : status[r] \notin {"none", "queued", "active"}} :
          status' = Assign(status, S, "none")
    BY <1>7 DEF CleanupOldRequests, KeepStatuses
  <2>2. \A x \in Requests : status[x] = "active" => status'[x] = "active"
    BY <2>1, AssignValue
  <2>3. UNCHANGED <<active, stage, aborted>>
    BY <1>7 DEF CleanupOldRequests, KeepStatuses
  <2> QED BY <2>2, <2>3, <1>types
<1>8. CASE (\E f \in Fingerprints : WindowPasses(f)) \/ UNCHANGED vars
  BY <1>8 DEF WindowPasses, vars
<1> QED BY <1>1, <1>2, <1>3, <1>4, <1>5, <1>6, <1>7, <1>8 DEF Next

\* A channel is held by a request of its own that is being processed, that
\* nobody cancelled and whose record says so.
THEOREM ActiveLive == Spec => []ActiveIsLive
<1>1. Spec => []LiveInv
  BY TypeCorrect, SlotsCorrect, LiveInit, LiveStep, PTL DEF Spec
<1>2. LiveInv => ActiveIsLive
  BY DEF LiveInv
<1> QED BY <1>1, <1>2, PTL

----------------------------------------------------------------------------
(* Mutual exclusion *)

\* Without debouncing no window ever opens, and every request that is being
\* processed and was not cancelled is the active one of its channel.
Locked ==
    /\ \A c \in Channels : debounce[c] = <<>>
    /\ \A r \in Requests : stage[r] = "running" /\ r \notin aborted => active[Channel[r]] = r

LEMMA LockedStep ==
    ASSUME ~Debouncing, TypeOK, Slots, LiveInv, Locked, [Next]_vars
    PROVE  Locked'
<1> USE DEF Locked
<1>types. /\ stage \in [Requests -> Stages]
          /\ active \in [Channels -> Requests \cup {NoRequest}]
          /\ debounce \in [Channels -> Seq(Requests)]
          /\ Channel \in [Requests -> Channels]
          /\ aborted \subseteq Requests
          /\ NoRequest \notin Requests
  BY ConstantsOK DEF TypeOK
<1>live. \A c \in Channels : active[c] # NoRequest =>
            /\ Channel[active[c]] = c
            /\ stage[active[c]] = "running"
  BY DEF LiveInv, ActiveIsLive
<1>1. ASSUME NEW r \in Requests, NEW skip \in BOOLEAN, Submit(r, skip)
      PROVE  Locked'
  <2>1. CASE RejectDuplicate(r)
    BY <2>1, <1>types DEF RejectDuplicate
  <2>2. CASE SubmitAcquire(r, skip)
    <3>1. /\ stage' = [stage EXCEPT ![r] = "running"] /\ aborted' = aborted /\ debounce' = debounce
          /\ active' = [active EXCEPT ![Channel[r]] = r] /\ active[Channel[r]] = NoRequest
      BY <2>2 DEF SubmitAcquire, Free
    <3>2. ASSUME NEW x \in Requests, stage'[x] = "running", x \notin aborted'
          PROVE  active'[Channel[x]] = x
      <4>1. CASE x = r
        BY <4>1, <3>1, <1>types
      <4>2. CASE x # r
        <5>1. active[Channel[x]] = x
          BY <4>2, <3>1, <3>2, <1>types
        <5>2. Channel[x] # Channel[r]
          BY <5>1, <3>1, <1>types
        <5> QED BY <5>1, <5>2, <3>1, <1>types
      <4> QED BY <4>1, <4>2
    <3> QED BY <3>1, <3>2
  <2>3. CASE SubmitDebounce(r, skip)
    BY <2>3 DEF SubmitDebounce, Free, RestartTimer
  <2>4. CASE SubmitQueue(r, skip)
    BY <2>4, <1>types DEF SubmitQueue, Free
  <2> QED BY <1>1, <2>1, <2>2, <2>3, <2>4 DEF Submit
<1>2. ASSUME NEW d \in Channels, DebounceExpire(d)
      PROVE  Locked'
  BY <1>2 DEF DebounceExpire, CloseWindow, Consolidated
<1>3. ASSUME NEW r \in Requests, Complete(r)
      PROVE  Locked'
  <2>1. CASE CompleteUnknown(r)
    BY <2>1, <1>types DEF CompleteUnknown
  <2>2. CASE CompleteLast(r)
    <3>1. \A x \in Requests : x # r /\ active[Channel[x]] = x => Channel[x] # Channel[r]
      BY <2>2 DEF CompleteLast, Release
    <3> QED BY <3>1, <2>2, <1>types DEF CompleteLast, Release
  <2>3. CASE CompleteNext(r)
    <3> DEFINE d == Channel[r]
               n == Head(queue[d])
    <3>1. n \in Requests /\ Channel[n] = d /\ d \in Channels
      <4>1. d \in Channels
        BY <1>types
      <4> QED BY <4>1, <2>3, HeadWaits DEF CompleteNext
    <3>2. /\ active[d] = r
          /\ stage' = [stage EXCEPT ![r] = "served", ![n] = "running"]
          /\ active' = [active EXCEPT ![d] = n]
          /\ aborted' = aborted /\ debounce' = debounce
      BY <2>3 DEF CompleteNext
    <3> HIDE DEF n
    <3>3. ASSUME NEW x \in Requests, stage'[x] = "running", x \notin aborted'
          PROVE  active'[Channel[x]] = x
      <4>1. CASE x = n
        BY <4>1, <3>1, <3>2, <1>types
      <4>2. CASE x # n
        <5>1. x # r /\ stage[x] = "running"
          BY <4>2, <3>1, <3>2, <3>3, <1>types
        <5>2. active[Channel[x]] = x
          BY <5>1, <3>2, <3>3
        <5>3. Channel[x] # d
          BY <5>1, <5>2, <3>2
        <5> QED BY <5>2, <5>3, <3>2, <1>types
      <4> QED BY <4>1, <4>2
    <3> QED BY <3>2, <3>3
  <2> QED BY <1>3, <2>1, <2>2, <2>3 DEF Complete
<1>4. ASSUME NEW r \in Requests, CompleteBatch(r)
      PROVE  Locked'
  <2> DEFINE d == Channel[r]
             W == queue[d]
  <2>1. PICK n \in 0 .. Len(W) :
          /\ BatchEndsAt(d, n)
          /\ IF n = 0 THEN CompleteUnbatched(r) ELSE CompleteInto(r, n)
    BY <1>4 DEF CompleteBatch
  <2>2. /\ active[d] = r /\ aborted' = aborted /\ debounce' = debounce /\ d \in Channels
    BY <1>4, <1>types DEF CompleteBatch
  <2>3. \A x \in Requests : x # r /\ active[Channel[x]] = x => Channel[x] # d
    BY <2>2
  <2>4. CASE n = 0
    BY <2>1, <2>2, <2>3, <2>4, <1>types DEF CompleteUnbatched, Release
  <2>5. CASE n # 0
    <3> DEFINE B    == ToSet(SubSeq(W, 1, n))
               last == W[n]
    <3>1. /\ stage' = [Assign(stage, B, "folded") EXCEPT ![r] = "served", ![last] = "running"]
          /\ active' = [active EXCEPT ![d] = last]
      BY <2>1, <2>5 DEF CompleteInto
    <3>2. last \in B /\ \A x \in B : x \in Requests /\ stage[x] = "waiting" /\ Channel[x] = d
      BY <2>2, <2>5, BatchWaits
    <3>3. Assign(stage, B, "folded") \in [Requests -> Stages]
      BY <1>types, AssignType DEF Stages
    <3>4. \A x \in Requests : Assign(stage, B, "folded")[x] = IF x \in B THEN "folded" ELSE stage[x]
      BY AssignValue
    <3> HIDE DEF B, last, W
    <3>5. ASSUME NEW x \in Requests, stage'[x] = "running", x \notin aborted'
          PROVE  active'[Channel[x]] = x
      <4>1. CASE x = last
        BY <4>1, <2>2, <3>1, <3>2, <1>types
      <4>2. CASE x # last
        <5>1. x # r /\ stage[x] = "running"
          BY <4>2, <3>1, <3>2, <3>3, <3>4, <3>5
        <5>2. active[Channel[x]] = x
          BY <5>1, <2>2, <3>5
        <5>3. Channel[x] # d
          BY <5>1, <5>2, <2>3
        <5> QED BY <5>2, <5>3, <3>1, <1>types
      <4> QED BY <4>1, <4>2
    <3> QED BY <2>2, <3>5
  <2> QED BY <2>4, <2>5
<1>5. ASSUME NEW r \in Requests, Cancel(r)
      PROVE  Locked'
  <2>1. CASE CancelActive(r)
    <3>1. \A x \in Requests : x # r /\ active[Channel[x]] = x => Channel[x] # Channel[r]
      BY <2>1 DEF CancelActive, Release
    <3> QED BY <3>1, <2>1, <1>types DEF CancelActive, Release
  <2>2. CASE CancelQueued(r)
    BY <2>2, <1>types DEF CancelQueued
  <2> QED BY <1>5, <2>1, <2>2 DEF Cancel
<1>6. ASSUME NEW d \in Channels, CancelChannel(d)
      PROVE  Locked'
  <2> DEFINE held    == ToSet(debounce[d]) \cup ToSet(queue[d])
             current == {active[d]} \ {NoRequest}
  <2>1. /\ stage' = Assign(stage, held, "withdrawn")
        /\ active' = [active EXCEPT ![d] = NoRequest]
        /\ debounce' = [debounce EXCEPT ![d] = <<>>]
        /\ aborted' = aborted \cup current
    BY <1>6 DEF CancelChannel, InQueue, InDebounce, Release, CloseWindow
  <2> HIDE DEF held
  <2>2. \A x \in Requests : stage'[x] = IF x \in held THEN "withdrawn" ELSE stage[x]
    BY <2>1, AssignValue
  <2>3. ASSUME NEW x \in Requests, stage'[x] = "running", x \notin aborted'
        PROVE  active'[Channel[x]] = x
    <3>1. stage[x] = "running" /\ x \notin aborted /\ x \notin current
      BY <2>1, <2>2, <2>3
    <3>2. active[Channel[x]] = x
      BY <3>1
    <3>3. Channel[x] # d
      BY <3>1, <3>2, <1>types
    <3> QED BY <2>1, <3>2, <3>3, <1>types
  <2>4. \A c \in Channels : debounce'[c] = <<>>
    BY <2>1, <1>types
  <2> QED BY <2>3, <2>4
<1>7. CASE CleanupOldRequests \/ (\E f \in Fingerprints : WindowPasses(f)) \/ UNCHANGED vars
  BY <1>7 DEF CleanupOldRequests, WindowPasses, vars, KeepStatuses
<1> QED BY <1>1, <1>2, <1>3, <1>4, <1>5, <1>6, <1>7 DEF Next

\* With debouncing switched off the class docstring's promise holds: two
\* requests of one channel are never being processed together, cancelled ones
\* that still unwind aside.
THEOREM ChannelLocking == ASSUME ~Debouncing PROVE Spec => []Exclusive
<1>1. Init => Locked
  BY DEF Init, Locked
<1>2. TypeOK /\ Slots /\ LiveInv /\ Locked /\ [Next]_vars => Locked'
  BY LockedStep
<1>3. Locked => Exclusive
  BY DEF Locked, Exclusive
<1> QED BY <1>1, <1>2, <1>3, TypeCorrect, SlotsCorrect, LiveInit, LiveStep, PTL DEF Spec

----------------------------------------------------------------------------
(* The contract *)

LEMMA LifecycleStep == TypeOK /\ Slots /\ [Next]_vars => [Lifecycle!Next]_stage
<1> SUFFICES ASSUME TypeOK, Slots, [Next]_vars
             PROVE  Lifecycle!Next \/ stage' = stage
  OBVIOUS
<1>types. stage \in [Requests -> Stages] /\ Channel \in [Requests -> Channels]
  BY ConstantsOK DEF TypeOK
<1>1. ASSUME NEW r \in Requests, NEW skip \in BOOLEAN, Submit(r, skip)
      PROVE  Lifecycle!Next
  <2>1. Lifecycle!Take(r)
    BY <1>1 DEF Submit, RejectDuplicate, SubmitAcquire, SubmitDebounce, SubmitQueue, Lifecycle!Take, Free, RestartTimer
  <2> QED BY <2>1 DEF Lifecycle!Next
<1>2. ASSUME NEW d \in Channels, DebounceExpire(d)
      PROVE  Lifecycle!Next
  <2> DEFINE W == debounce[d]
             h == Head(W)
             S == ToSet(W)
             T == ToSet(Tail(W))
  <2>1. /\ h \in Requests /\ h \in S /\ T = S \ {h}
        /\ \A x \in S : x \in Requests /\ stage[x] = "waiting" /\ Channel[x] = d
    <3>1. \A x \in Requests : x \in S => stage[x] = "waiting" /\ Channel[x] = d
      BY SlotsFacts
    <3> QED BY <3>1, <1>2, HeadWaits DEF DebounceExpire, CloseWindow, Consolidated
  <2>2. stage' = [Assign(stage, T, "folded") EXCEPT ![h] = "running"]
    BY <1>2 DEF DebounceExpire, CloseWindow, Consolidated
  <2>3. Assign(stage, T, "folded") \in [Requests -> Stages]
    BY <1>types, AssignType DEF Stages
  <2>a. \A x \in Requests : Assign(stage, T, "folded")[x] = IF x \in T THEN "folded" ELSE stage[x]
    BY AssignValue
  <2> HIDE DEF W, h, S, T
  <2>4. stage' = Lifecycle!Started(stage, h, S)
    BY <2>1, <2>2, <2>3, <2>a DEF Lifecycle!Started
  <2>5. Lifecycle!StartMerged(h, S)
    BY <2>1, <2>4 DEF Lifecycle!StartMerged, Lifecycle!WaitingTogether
  <2>6. S \in SUBSET Requests
    BY <2>1
  <2> QED BY <2>1, <2>5, <2>6 DEF Lifecycle!Next
<1>3. ASSUME NEW r \in Requests, Complete(r)
      PROVE  Lifecycle!Next
  <2>1. CASE CompleteUnknown(r) \/ CompleteLast(r)
    <3>1. Lifecycle!Serve(r)
      BY <2>1 DEF CompleteUnknown, CompleteLast, Lifecycle!Serve, Release
    <3> QED BY <3>1 DEF Lifecycle!Next
  <2>2. CASE CompleteNext(r)
    <3> DEFINE n == Head(queue[Channel[r]])
    <3>1. n \in Requests /\ Channel[n] = Channel[r] /\ stage[n] = "waiting"
      <4>1. Channel[r] \in Channels
        BY <1>types
      <4> QED BY <4>1, <2>2, HeadWaits DEF CompleteNext
    <3>2. stage[r] = "running" /\ stage' = [stage EXCEPT ![r] = "served", ![n] = "running"]
      BY <2>2 DEF CompleteNext
    <3> HIDE DEF n
    <3>3. stage' = Lifecycle!Started([stage EXCEPT ![r] = "served"], n, {n})
      BY <3>1, <3>2, <1>types DEF Lifecycle!Started
    <3>4. Lifecycle!ServeAndStart(r, n, {n})
      BY <3>1, <3>2, <3>3 DEF Lifecycle!ServeAndStart, Lifecycle!WaitingTogether
    <3>5. {n} \in SUBSET Requests
      BY <3>1
    <3> QED BY <3>1, <3>4, <3>5 DEF Lifecycle!Next
  <2> QED BY <1>3, <2>1, <2>2 DEF Complete
<1>4. ASSUME NEW r \in Requests, CompleteBatch(r)
      PROVE  Lifecycle!Next
  <2> DEFINE d == Channel[r]
             W == queue[d]
  <2>1. PICK n \in 0 .. Len(W) :
          /\ BatchEndsAt(d, n)
          /\ IF n = 0 THEN CompleteUnbatched(r) ELSE CompleteInto(r, n)
    BY <1>4 DEF CompleteBatch
  <2>2. stage[r] = "running" /\ d \in Channels
    BY <1>4, <1>types DEF CompleteBatch
  <2>3. CASE n = 0
    <3>1. Lifecycle!Serve(r)
      BY <2>1, <2>2, <2>3 DEF CompleteUnbatched, Lifecycle!Serve, Release
    <3> QED BY <3>1 DEF Lifecycle!Next
  <2>4. CASE n # 0
    <3> DEFINE B    == ToSet(SubSeq(W, 1, n))
               last == W[n]
    <3>1. stage' = [Assign(stage, B, "folded") EXCEPT ![r] = "served", ![last] = "running"]
      BY <2>1, <2>4 DEF CompleteInto
    <3>2. last \in B /\ \A x \in B : x \in Requests /\ stage[x] = "waiting" /\ Channel[x] = d
      BY <2>2, <2>4, BatchWaits
    <3>3. Assign(stage, B, "folded") \in [Requests -> Stages]
      BY <1>types, AssignType DEF Stages
    <3>a. \A x \in Requests : Assign(stage, B, "folded")[x] = IF x \in B THEN "folded" ELSE stage[x]
      BY AssignValue
    <3> HIDE DEF B, last, W
    <3>4. stage' = Lifecycle!Started([stage EXCEPT ![r] = "served"], last, B)
      BY <2>2, <3>1, <3>2, <3>3, <3>a, <1>types DEF Lifecycle!Started
    <3>5. Lifecycle!ServeAndStart(r, last, B)
      BY <2>2, <3>2, <3>4 DEF Lifecycle!ServeAndStart, Lifecycle!WaitingTogether
    <3>6. last \in Requests /\ B \in SUBSET Requests
      BY <3>2
    <3> QED BY <3>5, <3>6 DEF Lifecycle!Next
  <2> QED BY <2>3, <2>4
<1>5. ASSUME NEW r \in Requests, Cancel(r)
      PROVE  Lifecycle!Next \/ stage' = stage
  <2>1. CASE CancelActive(r)
    BY <2>1 DEF CancelActive, Release
  <2>2. CASE CancelQueued(r)
    <3>1. stage[r] = "waiting"
      <4>1. PICK i \in 1 .. Len(queue[Channel[r]]) : queue[Channel[r]][i] = r
        BY <2>2 DEF CancelQueued
      <4>2. Channel[r] \in Channels /\ queue[Channel[r]] \in Seq(Requests)
        BY <1>types DEF TypeOK
      <4>3. r \in ToSet(queue[Channel[r]])
        BY <4>1, <4>2, Members
      <4> QED BY <4>2, <4>3, SlotsFacts
    <3>2. stage' = [x \in Requests |-> IF x \in {r} THEN "withdrawn" ELSE stage[x]]
      BY <2>2, <1>types DEF CancelQueued
    <3>3. Lifecycle!Withdraw({r})
      BY <3>1, <3>2 DEF Lifecycle!Withdraw
    <3> QED BY <3>3 DEF Lifecycle!Next
  <2> QED BY <1>5, <2>1, <2>2 DEF Cancel
<1>6. ASSUME NEW d \in Channels, CancelChannel(d)
      PROVE  Lifecycle!Next
  <2> DEFINE held == ToSet(debounce[d]) \cup ToSet(queue[d])
  <2>1. stage' = Assign(stage, held, "withdrawn")
    BY <1>6 DEF CancelChannel, InQueue, InDebounce, Release, CloseWindow
  <2>2. held \subseteq Requests /\ \A x \in held : stage[x] = "waiting"
    BY SlotsFacts
  <2> HIDE DEF held
  <2>3. stage' = [x \in Requests |-> IF x \in held THEN "withdrawn" ELSE stage[x]]
    BY <2>1, <1>types DEF Assign
  <2>4. Lifecycle!Withdraw(held)
    BY <2>2, <2>3 DEF Lifecycle!Withdraw
  <2> QED BY <2>2, <2>4 DEF Lifecycle!Next
<1>7. CASE CleanupOldRequests \/ (\E f \in Fingerprints : WindowPasses(f)) \/ UNCHANGED vars
  BY <1>7 DEF CleanupOldRequests, WindowPasses, vars, KeepStatuses
<1> QED BY <1>1, <1>2, <1>3, <1>4, <1>5, <1>6, <1>7 DEF Next

\* The router implements the contract: a request is taken once and started at
\* most once, only its own channel's calls start it, a withdrawn, refused or
\* folded request never starts, and one call starts at most one request.
THEOREM RouterImplementsLifecycle == Spec => ImplementsLifecycle
<1>1. Init => Lifecycle!Init
  BY DEF Init, Lifecycle!Init
<1> QED BY <1>1, TypeCorrect, SlotsCorrect, LifecycleStep, PTL
        DEF Spec, ImplementsLifecycle, Lifecycle!Spec


----------------------------------------------------------------------------
(* Steps, one request at a time *)

Queued(r)   == r \in ToSet(queue[Channel[r]])
Windowed(r) == r \in ToSet(debounce[Channel[r]])

\* The window of d, which held W, closes into its first request h.
Closes(d, h, W) ==
    /\ h \in W /\ Channel[h] = d
    /\ \A x \in W : stage[x] = "waiting" /\ Windowed(x) /\ ~Queued(x) /\ Channel[x] = d
    /\ \A x \in Requests :
          /\ stage'[x] = IF x = h THEN "running" ELSE IF x \in W THEN "folded" ELSE stage[x]
          /\ status'[x] = IF x = h THEN "active" ELSE IF x \in W THEN "completed" ELSE status[x]
          /\ x # h => merged'[x] = merged[x]
          /\ Queued(x)' <=> Queued(x)
          /\ Windowed(x)' <=> Windowed(x) /\ x \notin W
    /\ ToSet(merged'[h]) = W
    /\ active' = [active EXCEPT ![d] = h]
    /\ aborted' = aborted /\ queue' = queue

LEMMA ExpireEffect ==
    ASSUME TypeOK, Slots, NEW d \in Channels, DebounceExpire(d)
    PROVE  \E h \in Requests, W \in SUBSET Requests : Closes(d, h, W)
<1> DEFINE s == debounce[d]
           h == Head(s)
           W == ToSet(s)
           T == ToSet(Tail(s))
<1>1. s \in Seq(Requests) /\ s # <<>> /\ Distinct(s) /\ W \subseteq Requests
  BY SlotsFacts DEF DebounceExpire, CloseWindow, Consolidated
<1>2. /\ h \in W /\ h \in Requests /\ T = W \ {h}
      /\ \A x \in W : stage[x] = "waiting" /\ Channel[x] = d /\ x \notin ToSet(queue[d])
  BY <1>1, HeadLeaves, SlotsFacts
<1>3. /\ stage' = [Assign(stage, T, "folded") EXCEPT ![h] = "running"]
      /\ status' = [Assign(status, T, "completed") EXCEPT ![h] = "active"]
      /\ merged' = [merged EXCEPT ![h] = s]
      /\ active' = [active EXCEPT ![d] = h]
      /\ debounce' = [debounce EXCEPT ![d] = <<>>]
      /\ aborted' = aborted /\ queue' = queue
  BY DEF DebounceExpire, CloseWindow, Consolidated
<1>4. /\ Assign(stage, T, "folded") \in [Requests -> Stages]
      /\ Assign(status, T, "completed") \in [Requests -> Statuses]
      /\ debounce \in [Channels -> Seq(Requests)] /\ merged \in [Requests -> Seq(Requests)]
      /\ Channel \in [Requests -> Channels]
  BY AssignType, ConstantsOK DEF TypeOK, Stages, Statuses
<1>5. \A x \in Requests :
        /\ Assign(stage, T, "folded")[x] = IF x \in T THEN "folded" ELSE stage[x]
        /\ Assign(status, T, "completed")[x] = IF x \in T THEN "completed" ELSE status[x]
  BY AssignValue
<1>6. \A x \in Requests : debounce'[Channel[x]] = IF Channel[x] = d THEN <<>> ELSE debounce[Channel[x]]
  BY <1>3, <1>4
<1>7. ToSet(<<>>) = {} /\ ToSet(merged'[h]) = W
  BY <1>2, <1>3, <1>4, NoMembers
<1> HIDE DEF s, h, T
<1>8. \A x \in Requests :
        /\ stage'[x] = IF x = h THEN "running" ELSE IF x \in W THEN "folded" ELSE stage[x]
        /\ status'[x] = IF x = h THEN "active" ELSE IF x \in W THEN "completed" ELSE status[x]
        /\ x # h => merged'[x] = merged[x]
  <2> SUFFICES ASSUME NEW x \in Requests
               PROVE  /\ stage'[x] = IF x = h THEN "running" ELSE IF x \in W THEN "folded" ELSE stage[x]
                      /\ status'[x] = IF x = h THEN "active" ELSE IF x \in W THEN "completed" ELSE status[x]
                      /\ x # h => merged'[x] = merged[x]
    OBVIOUS
  <2>1. x \in T <=> x \in W /\ x # h
    BY <1>2
  <2> HIDE DEF W
  <2>2. stage'[x] = IF x = h THEN "running" ELSE Assign(stage, T, "folded")[x]
    BY <1>3, <1>4
  <2>3. status'[x] = IF x = h THEN "active" ELSE Assign(status, T, "completed")[x]
    BY <1>3, <1>4
  <2>4. x # h => merged'[x] = merged[x]
    BY <1>3, <1>4
  <2> QED
    BY <1>5, <2>1, <2>2, <2>3, <2>4
<1>9. \A x \in Requests : /\ Queued(x)' <=> Queued(x)
                          /\ Windowed(x)' <=> Windowed(x) /\ x \notin W
  BY <1>2, <1>3, <1>6, <1>7 DEF Queued, Windowed, s
<1>10. \A x \in W : Windowed(x) /\ ~Queued(x)
  BY <1>2 DEF Windowed, Queued, s
<1> HIDE DEF W
<1>11. Closes(d, h, W)
  BY <1>2, <1>3, <1>7, <1>8, <1>9, <1>10 DEF Closes
<1> QED
  BY <1>1, <1>2, <1>11

\* r ends, and the oldest waiting request h of its channel starts.
Passes(r, h) ==
    /\ h # r /\ Channel[h] = Channel[r] /\ stage[h] = "waiting" /\ stage[r] = "running"
    /\ Queued(h)
    /\ \A x \in Requests :
          /\ stage'[x] = IF x = h THEN "running" ELSE IF x = r THEN "served" ELSE stage[x]
          /\ status'[x] = IF x = h THEN "active" ELSE IF x = r THEN "completed" ELSE status[x]
          /\ Queued(x)' <=> Queued(x) /\ x # h
          /\ Windowed(x)' <=> Windowed(x)
    /\ merged' = merged /\ aborted' = aborted
    /\ active' = [active EXCEPT ![Channel[r]] = h]
    /\ \A c \in Channels : c # Channel[r] => queue'[c] = queue[c]

LEMMA NextEffect ==
    ASSUME TypeOK, Slots, NEW r \in Requests, CompleteNext(r)
    PROVE  \E h \in Requests : Passes(r, h)
<1> DEFINE d == Channel[r]
           s == queue[d]
           h == Head(s)
<1>1. /\ d \in Channels /\ Channel \in [Requests -> Channels]
      /\ stage \in [Requests -> Stages] /\ status \in [Requests -> Statuses]
      /\ queue \in [Channels -> Seq(Requests)]
  BY ConstantsOK DEF TypeOK
<1>2. s \in Seq(Requests) /\ s # <<>> /\ Distinct(s)
  BY <1>1, SlotsFacts DEF CompleteNext
<1>3. /\ h \in Requests /\ h \in ToSet(s) /\ ToSet(Tail(s)) = ToSet(s) \ {h}
      /\ stage[h] = "waiting" /\ Channel[h] = d
  BY <1>1, <1>2, HeadLeaves, SlotsFacts
<1>4. /\ stage[r] = "running"
      /\ stage' = [stage EXCEPT ![r] = "served", ![h] = "running"]
      /\ status' = [status EXCEPT ![r] = "completed", ![h] = "active"]
      /\ queue' = [queue EXCEPT ![d] = Tail(s)]
      /\ debounce' = debounce /\ merged' = merged /\ aborted' = aborted
      /\ active' = [active EXCEPT ![d] = h]
  BY DEF CompleteNext
<1>5. \A x \in Requests : queue'[Channel[x]] = IF Channel[x] = d THEN Tail(s) ELSE queue[Channel[x]]
  BY <1>1, <1>4
<1>6. Queued(h)
  BY <1>3 DEF Queued
<1>7. \A c \in Channels : c # d => queue'[c] = queue[c]
  BY <1>1, <1>4
<1> HIDE DEF s, h
<1>8. \A x \in Requests :
        /\ stage'[x] = IF x = h THEN "running" ELSE IF x = r THEN "served" ELSE stage[x]
        /\ status'[x] = IF x = h THEN "active" ELSE IF x = r THEN "completed" ELSE status[x]
  BY <1>1, <1>3, <1>4
<1>9. \A x \in Requests : (Queued(x)' <=> Queued(x) /\ x # h) /\ (Windowed(x)' <=> Windowed(x))
  BY <1>3, <1>4, <1>5 DEF Queued, Windowed, s
<1>10. Passes(r, h)
  BY <1>3, <1>4, <1>6, <1>7, <1>8, <1>9 DEF Passes
<1> QED
  BY <1>3, <1>10

\* r ends and frees its channel, because the next request cannot be batched.
Frees(r) ==
    /\ stage[r] = "running" /\ active[Channel[r]] = r
    /\ active' = [active EXCEPT ![Channel[r]] = NoRequest]
    /\ BatchEndsAt(Channel[r], 0)
    /\ \A x \in Requests :
          /\ stage'[x] = IF x = r THEN "served" ELSE stage[x]
          /\ status'[x] = IF x = r THEN "completed" ELSE status[x]
          /\ Queued(x)' <=> Queued(x)
          /\ Windowed(x)' <=> Windowed(x)
    /\ merged' = merged /\ aborted' = aborted /\ queue' = queue

\* r ends, and the batch B starts as its last request h.
HandsOver(r, h, B) ==
    /\ h \in B /\ r \notin B /\ stage[r] = "running"
    /\ \A x \in B : stage[x] = "waiting" /\ Queued(x) /\ Channel[x] = Channel[r]
    /\ \A x \in Requests :
          /\ stage'[x] = IF x = h THEN "running" ELSE IF x = r THEN "served"
                         ELSE IF x \in B THEN "folded" ELSE stage[x]
          /\ status'[x] = IF x \in B THEN "active" ELSE IF x = r THEN "completed" ELSE status[x]
          /\ x # h => merged'[x] = merged[x]
          /\ Queued(x)' <=> Queued(x) /\ x \notin B
          /\ Windowed(x)' <=> Windowed(x)
    /\ ToSet(merged'[h]) = B
    /\ active' = [active EXCEPT ![Channel[r]] = h]
    /\ aborted' = aborted
    /\ \A c \in Channels : c # Channel[r] => queue'[c] = queue[c]

LEMMA BatchEffect ==
    ASSUME TypeOK, Slots, NEW r \in Requests, CompleteBatch(r)
    PROVE  Frees(r) \/ \E h \in Requests, B \in SUBSET Requests : HandsOver(r, h, B)
<1> DEFINE d == Channel[r]
           s == queue[d]
<1>1. /\ d \in Channels /\ Channel \in [Requests -> Channels]
      /\ stage \in [Requests -> Stages] /\ status \in [Requests -> Statuses]
      /\ queue \in [Channels -> Seq(Requests)] /\ merged \in [Requests -> Seq(Requests)]
  BY ConstantsOK DEF TypeOK
<1>2. PICK n \in 0 .. Len(s) :
        /\ BatchEndsAt(d, n)
        /\ IF n = 0 THEN CompleteUnbatched(r) ELSE CompleteInto(r, n)
  BY DEF CompleteBatch
<1>3. /\ stage[r] = "running" /\ active[d] = r /\ aborted' = aborted /\ debounce' = debounce
  BY DEF CompleteBatch
<1>4. CASE n = 0
  <2>1. /\ stage' = [stage EXCEPT ![r] = "served"] /\ status' = [status EXCEPT ![r] = "completed"]
        /\ active' = [active EXCEPT ![d] = NoRequest] /\ queue' = queue /\ merged' = merged
    BY <1>2, <1>4 DEF CompleteUnbatched, Release
  <2> QED
    BY <1>1, <1>2, <1>3, <1>4, <2>1 DEF Queued, Windowed, Frees
<1>5. CASE n # 0
  <2> DEFINE q   == SubSeq(s, 1, n)
             B   == ToSet(q)
             E   == SubSeq(s, n + 1, Len(s))
             h   == s[n]
             mid == [status EXCEPT ![r] = "completed"]
  <2>1. /\ stage' = [Assign(stage, B, "folded") EXCEPT ![r] = "served", ![h] = "running"]
        /\ status' = Assign(mid, B, "active")
        /\ active' = [active EXCEPT ![d] = h]
        /\ queue' = [queue EXCEPT ![d] = E]
        /\ merged' = [merged EXCEPT ![h] = q]
    BY <1>2, <1>5 DEF CompleteInto
  <2>2. s \in Seq(Requests) /\ Distinct(s) /\ n \in 1 .. Len(s)
    BY <1>1, <1>5, SlotsFacts
  <2>3. /\ h \in B /\ ToSet(E) = ToSet(s) \ B /\ B \subseteq ToSet(s)
    BY <2>2, PrefixLeaves
  <2>4. \A x \in B : x \in Requests /\ stage[x] = "waiting" /\ Channel[x] = d
    BY <1>1, <2>2, BatchWaits
  <2>5. Assign(stage, B, "folded") \in [Requests -> Stages]
    BY <1>1, AssignType DEF Stages
  <2>6. /\ \A x \in Requests : Assign(stage, B, "folded")[x] = IF x \in B THEN "folded" ELSE stage[x]
        /\ \A x \in Requests : status'[x] = IF x \in B THEN "active" ELSE mid[x]
    <3>1. DOMAIN mid = Requests
      BY <1>1
    <3> HIDE DEF mid, B
    <3>2. \A x \in Requests : Assign(mid, B, "active")[x] = IF x \in B THEN "active" ELSE mid[x]
      BY <3>1 DEF Assign
    <3> QED
      BY <2>1, <3>2, AssignValue
  <2>7. \A x \in Requests : mid[x] = IF x = r THEN "completed" ELSE status[x]
    BY <1>1
  <2>8. h \in Requests /\ merged'[h] = q /\ \A x \in Requests : x # h => merged'[x] = merged[x]
    <3>1. h \in Requests
      BY <2>3, <2>4
    <3> HIDE DEF h, q
    <3> QED
      BY <1>1, <2>1, <3>1
  <2>9. /\ \A x \in Requests : queue'[Channel[x]] = IF Channel[x] = d THEN E ELSE queue[Channel[x]]
        /\ \A c \in Channels : c # d => queue'[c] = queue[c]
    <3> HIDE DEF E, s
    <3> QED
      BY <1>1, <2>1
  <2> HIDE DEF mid, B, h, q, E, s
  <2>10. r \notin B /\ \A x \in B : Queued(x)
    BY <1>3, <2>3, <2>4 DEF Queued, s
  <2>11. \A x \in Requests :
           /\ stage'[x] = IF x = h THEN "running" ELSE IF x = r THEN "served"
                          ELSE IF x \in B THEN "folded" ELSE stage[x]
           /\ status'[x] = IF x \in B THEN "active" ELSE IF x = r THEN "completed" ELSE status[x]
    BY <2>1, <2>3, <2>5, <2>6, <2>7, <2>8
  <2>12. \A x \in Requests : (Queued(x)' <=> Queued(x) /\ x \notin B) /\ (Windowed(x)' <=> Windowed(x))
    BY <1>3, <2>3, <2>4, <2>9 DEF Queued, Windowed, s
  <2>13. B \in SUBSET Requests /\ ToSet(merged'[h]) = B
    BY <2>4, <2>8 DEF B
  <2>14. HandsOver(r, h, B)
    BY <1>3, <2>1, <2>3, <2>4, <2>8, <2>9, <2>10, <2>11, <2>12, <2>13 DEF HandsOver
  <2> QED
    BY <2>8, <2>13, <2>14
<1> QED
  BY <1>4, <1>5

\* What the cancellation of a waiting request does.
LEMMA WithdrawEffect ==
    ASSUME TypeOK, Slots, NEW r \in Requests, CancelQueued(r)
    PROVE  /\ stage[r] = "waiting" /\ ~Windowed(r)
           /\ \A x \in Requests :
                 /\ stage'[x] = IF x = r THEN "withdrawn" ELSE stage[x]
                 /\ status'[x] = IF x = r THEN "cancelled" ELSE status[x]
                 /\ Queued(x)' <=> Queued(x) /\ x # r
                 /\ Windowed(x)' <=> Windowed(x)
<1> DEFINE d == Channel[r]
           s == queue[d]
<1>1. /\ d \in Channels /\ Channel \in [Requests -> Channels]
      /\ stage \in [Requests -> Stages] /\ status \in [Requests -> Statuses]
      /\ queue \in [Channels -> Seq(Requests)]
  BY ConstantsOK DEF TypeOK
<1>2. PICK i \in 1 .. Len(s) : s[i] = r /\ queue' = [queue EXCEPT ![d] = RemoveAt(s, i)]
  BY DEF CancelQueued
<1>3. s \in Seq(Requests) /\ Distinct(s)
  BY <1>1, SlotsFacts
<1>4. r \in ToSet(s) /\ ToSet(RemoveAt(s, i)) = ToSet(s) \ {r}
  BY <1>2, <1>3, Members, OneLeaves
<1>5. stage[r] = "waiting" /\ ~Windowed(r)
  BY <1>1, <1>4, SlotsFacts DEF Windowed
<1>6. \A x \in Requests : queue'[Channel[x]] = IF Channel[x] = d THEN RemoveAt(s, i)
                                               ELSE queue[Channel[x]]
  <2> HIDE DEF s
  <2> QED
    BY <1>1, <1>2
<1>7. /\ debounce' = debounce /\ stage' = [stage EXCEPT ![r] = "withdrawn"]
      /\ status' = [status EXCEPT ![r] = "cancelled"]
  BY DEF CancelQueued
<1> HIDE DEF s
<1>8. \A x \in Requests : (Queued(x)' <=> Queued(x) /\ x # r) /\ (Windowed(x)' <=> Windowed(x))
  BY <1>4, <1>6, <1>7 DEF Queued, Windowed, s
<1> QED
  BY <1>1, <1>5, <1>7, <1>8

\* Channel d loses the requests held, which waited in it, and its active one.
Empties(d, held) ==
    /\ \A x \in Requests : x \in held <=> stage[x] = "waiting" /\ Channel[x] = d
    /\ \A x \in Requests :
          /\ stage'[x] = IF x \in held THEN "withdrawn" ELSE stage[x]
          /\ status'[x] = IF x \in held \/ x = active[d] THEN "cancelled" ELSE status[x]
          /\ Queued(x)' <=> Queued(x) /\ Channel[x] # d
          /\ Windowed(x)' <=> Windowed(x) /\ Channel[x] # d
    /\ aborted' = aborted \cup ({active[d]} \ {NoRequest})
    /\ merged' = merged
    /\ queue' = [queue EXCEPT ![d] = <<>>]
    /\ debounce' = [debounce EXCEPT ![d] = <<>>]
    /\ active' = [active EXCEPT ![d] = NoRequest]

LEMMA ChannelEffect ==
    ASSUME TypeOK, Slots, NEW d \in Channels, CancelChannel(d)
    PROVE  \E held \in SUBSET Requests : Empties(d, held)
<1> DEFINE held    == ToSet(debounce[d]) \cup ToSet(queue[d])
           current == {active[d]} \ {NoRequest}
<1>1. /\ stage' = Assign(stage, held, "withdrawn")
      /\ status' = Assign(status, held \cup current, "cancelled")
      /\ active' = [active EXCEPT ![d] = NoRequest]
      /\ aborted' = aborted \cup current /\ merged' = merged
      /\ queue' = [queue EXCEPT ![d] = <<>>] /\ debounce' = [debounce EXCEPT ![d] = <<>>]
  BY DEF CancelChannel, InQueue, InDebounce, Release, CloseWindow
<1>2. held \subseteq Requests /\ \A x \in Requests : x \in held <=> stage[x] = "waiting" /\ Channel[x] = d
  BY SlotsFacts
<1>3. NoRequest \notin Requests /\ Channel \in [Requests -> Channels]
      /\ queue \in [Channels -> Seq(Requests)] /\ debounce \in [Channels -> Seq(Requests)]
  BY ConstantsOK DEF TypeOK
<1>4. \A x \in Requests :
        /\ queue'[Channel[x]] = IF Channel[x] = d THEN <<>> ELSE queue[Channel[x]]
        /\ debounce'[Channel[x]] = IF Channel[x] = d THEN <<>> ELSE debounce[Channel[x]]
  BY <1>1, <1>3
<1>5. ToSet(<<>>) = {}
  BY NoMembers
<1> HIDE DEF held
<1>6. \A x \in Requests :
        /\ stage'[x] = IF x \in held THEN "withdrawn" ELSE stage[x]
        /\ status'[x] = IF x \in held \cup current THEN "cancelled" ELSE status[x]
  BY <1>1, AssignValue
<1>7. \A x \in Requests : (Queued(x)' <=> Queued(x) /\ Channel[x] # d)
                          /\ (Windowed(x)' <=> Windowed(x) /\ Channel[x] # d)
  BY <1>4, <1>5 DEF Queued, Windowed
<1>8. Empties(d, held)
  BY <1>1, <1>2, <1>3, <1>6, <1>7 DEF Empties
<1> QED
  BY <1>2, <1>8

----------------------------------------------------------------------------
(* The records *)

\* What get_request_status answers for one request.
Truthful(r) ==
    /\ status[r] = "queued" <=> Queued(r)
    /\ status[r] = "debounce" => Windowed(r)
    /\ status[r] = "active" => stage[r] \in {"running", "served", "folded"}
    /\ status[r] = "completed" => stage[r] \in {"served", "folded"}
    /\ status[r] = "cancelled" => stage[r] = "withdrawn" \/ r \in aborted
    /\ stage[r] = "withdrawn" => status[r] \in {"cancelled", "none"}

RecordsInv == WindowHasTimer /\ \A r \in Requests : Truthful(r)

\* Only a waiting request is in a queue or a window, and only in one of them.
LEMMA WaitsOnce ==
    ASSUME TypeOK, Slots, NEW r \in Requests
    PROVE  /\ Queued(r) \/ Windowed(r) <=> stage[r] = "waiting"
           /\ ~(Queued(r) /\ Windowed(r))
<1>1. Channel[r] \in Channels
  BY ConstantsOK
<1> QED
  BY <1>1, SlotsFacts DEF Queued, Windowed

\* A new request joins the queue or the window of its channel.
LEMMA JoinEffect ==
    ASSUME TypeOK, Slots, NEW r \in Requests, NEW skip \in BOOLEAN
    PROVE  /\ SubmitQueue(r, skip) =>
                 \A x \in Requests : /\ Queued(x)' <=> Queued(x) \/ x = r
                                     /\ Windowed(x)' <=> Windowed(x)
           /\ SubmitDebounce(r, skip) =>
                 \A x \in Requests : /\ Queued(x)' <=> Queued(x)
                                     /\ Windowed(x)' <=> Windowed(x) \/ x = r
<1> DEFINE d == Channel[r]
<1>1. /\ d \in Channels /\ Channel \in [Requests -> Channels]
      /\ queue \in [Channels -> Seq(Requests)] /\ debounce \in [Channels -> Seq(Requests)]
  BY ConstantsOK DEF TypeOK
<1>2. /\ ToSet(Append(queue[d], r)) = ToSet(queue[d]) \cup {r}
      /\ ToSet(Append(debounce[d], r)) = ToSet(debounce[d]) \cup {r}
  BY <1>1, AppendMembers
<1>3. SubmitQueue(r, skip) =>
        /\ debounce' = debounce
        /\ \A x \in Requests : queue'[Channel[x]] = IF Channel[x] = d THEN Append(queue[d], r)
                                                    ELSE queue[Channel[x]]
  BY <1>1 DEF SubmitQueue, Free
<1>4. SubmitDebounce(r, skip) =>
        /\ queue' = queue
        /\ \A x \in Requests : debounce'[Channel[x]] = IF Channel[x] = d THEN Append(debounce[d], r)
                                                       ELSE debounce[Channel[x]]
  BY <1>1 DEF SubmitDebounce, Free, RestartTimer
<1> HIDE DEF d
<1>5. ASSUME SubmitQueue(r, skip), NEW x \in Requests
      PROVE  (Queued(x)' <=> Queued(x) \/ x = r) /\ (Windowed(x)' <=> Windowed(x))
  BY <1>2, <1>3, <1>5 DEF Queued, Windowed, d
<1>6. ASSUME SubmitDebounce(r, skip), NEW x \in Requests
      PROVE  (Queued(x)' <=> Queued(x)) /\ (Windowed(x)' <=> Windowed(x) \/ x = r)
  BY <1>2, <1>4, <1>6 DEF Queued, Windowed, d
<1> QED
  BY <1>5, <1>6

LEMMA TimerStep == TypeOK /\ WindowHasTimer /\ [Next]_vars => WindowHasTimer'
<1> SUFFICES ASSUME TypeOK, WindowHasTimer, [Next]_vars, NEW c \in Channels
             PROVE  c \in timer' <=> debounce'[c] # <<>>
  BY DEF WindowHasTimer
<1>1. /\ debounce \in [Channels -> Seq(Requests)] /\ timer \subseteq Channels
      /\ Channel \in [Requests -> Channels] /\ (c \in timer <=> debounce[c] # <<>>)
  BY ConstantsOK DEF TypeOK, WindowHasTimer
<1>2. ASSUME NEW r \in Requests, NEW skip \in BOOLEAN, Submit(r, skip)
      PROVE  c \in timer' <=> debounce'[c] # <<>>
  <2>1. CASE SubmitDebounce(r, skip)
    <3>1. Append(debounce[Channel[r]], r) # <<>>
      <4>1. debounce[Channel[r]] \in Seq(Requests)
        BY <1>1
      <4> QED
        BY <4>1, AppendMembers
    <3> QED
      BY <1>1, <2>1, <3>1 DEF SubmitDebounce, RestartTimer, Free
  <2> QED
    BY <1>1, <1>2, <2>1 DEF Submit, RejectDuplicate, SubmitAcquire, SubmitQueue, Free
<1>3. ASSUME NEW d \in Channels, DebounceExpire(d) \/ CancelChannel(d)
      PROVE  c \in timer' <=> debounce'[c] # <<>>
  <2>1. debounce' = [debounce EXCEPT ![d] = <<>>] /\ timer' = timer \ {d}
    BY <1>3 DEF DebounceExpire, CancelChannel, CloseWindow
  <2> QED
    BY <1>1, <2>1
<1>4. CASE UNCHANGED <<debounce, timer>>
  BY <1>1, <1>4
<1> QED
  BY <1>2, <1>3, <1>4 DEF Next, Complete, CompleteUnknown, CompleteLast, CompleteNext,
     CompleteBatch, Cancel, CancelActive, CancelQueued, CleanupOldRequests, WindowPasses,
     vars, Release, KeepStatuses

LEMMA TruthStep ==
    ASSUME TypeOK, Slots, LiveInv, \A x \in Requests : Truthful(x), [Next]_vars,
           NEW x \in Requests
    PROVE  Truthful(x)'
<1>types. /\ stage \in [Requests -> Stages] /\ status \in [Requests -> Statuses]
          /\ Channel \in [Requests -> Channels] /\ NoRequest \notin Requests
          /\ active \in [Channels -> Requests \cup {NoRequest}]
  BY ConstantsOK DEF TypeOK
<1>here. /\ Truthful(x)
         /\ Queued(x) \/ Windowed(x) <=> stage[x] = "waiting"
         /\ ~(Queued(x) /\ Windowed(x))
         /\ x \in aborted => stage[x] \in {"running", "served"}
  BY WaitsOnce DEF LiveInv, AbortedStarted
<1>1. ASSUME NEW r \in Requests, NEW skip \in BOOLEAN, Submit(r, skip)
      PROVE  Truthful(x)'
  <2>1. CASE RejectDuplicate(r)
    BY <1>types, <1>here, <2>1 DEF RejectDuplicate, Truthful, Queued, Windowed
  <2>2. CASE SubmitAcquire(r, skip)
    BY <1>types, <1>here, <2>2 DEF SubmitAcquire, Free, Truthful, Queued, Windowed
  <2>3. CASE SubmitDebounce(r, skip)
    <3>1. (Queued(x)' <=> Queued(x)) /\ (Windowed(x)' <=> Windowed(x) \/ x = r)
      BY <2>3, JoinEffect
    <3> QED
      BY <1>types, <1>here, <2>3, <3>1 DEF SubmitDebounce, Free, RestartTimer, Truthful
  <2>4. CASE SubmitQueue(r, skip)
    <3>1. (Queued(x)' <=> Queued(x) \/ x = r) /\ (Windowed(x)' <=> Windowed(x))
      BY <2>4, JoinEffect
    <3> QED
      BY <1>types, <1>here, <2>4, <3>1 DEF SubmitQueue, Free, Truthful
  <2> QED
    BY <1>1, <2>1, <2>2, <2>3, <2>4 DEF Submit
<1>2. ASSUME NEW d \in Channels, DebounceExpire(d)
      PROVE  Truthful(x)'
  <2>1. PICK h \in Requests, W \in SUBSET Requests : Closes(d, h, W)
    BY <1>2, ExpireEffect
  <2> QED
    BY <1>here, <2>1 DEF Closes, Truthful
<1>3. ASSUME NEW r \in Requests, Complete(r)
      PROVE  Truthful(x)'
  <2>1. CASE CompleteUnknown(r)
    BY <1>types, <1>here, <2>1 DEF CompleteUnknown, Truthful, Queued, Windowed
  <2>2. CASE CompleteLast(r)
    BY <1>types, <1>here, <2>2 DEF CompleteLast, Release, Truthful, Queued, Windowed
  <2>3. CASE CompleteNext(r)
    <3>1. PICK h \in Requests : Passes(r, h)
      BY <2>3, NextEffect
    <3> QED
      BY <1>here, <3>1 DEF Passes, Truthful
  <2> QED
    BY <1>3, <2>1, <2>2, <2>3 DEF Complete
<1>4. ASSUME NEW r \in Requests, CompleteBatch(r)
      PROVE  Truthful(x)'
  <2>1. CASE Frees(r)
    BY <1>here, <2>1 DEF Frees, Truthful
  <2>2. ASSUME NEW h \in Requests, NEW B \in SUBSET Requests, HandsOver(r, h, B)
        PROVE  Truthful(x)'
    BY <1>here, <2>2 DEF HandsOver, Truthful
  <2> QED
    BY <1>4, <2>1, <2>2, BatchEffect
<1>5. ASSUME NEW r \in Requests, Cancel(r)
      PROVE  Truthful(x)'
  <2>1. CASE CancelActive(r)
    <3>1. stage[r] = "running"
      BY <1>types, <2>1 DEF CancelActive, LiveInv, ActiveIsLive
    <3> QED
      BY <1>types, <1>here, <2>1, <3>1 DEF CancelActive, Release, Truthful, Queued, Windowed
  <2>2. CASE CancelQueued(r)
    <3>1. aborted' = aborted
      BY <2>2 DEF CancelQueued
    <3> QED
      BY <1>here, <2>2, <3>1, WithdrawEffect DEF Truthful
  <2> QED
    BY <1>5, <2>1, <2>2 DEF Cancel
<1>6. ASSUME NEW d \in Channels, CancelChannel(d)
      PROVE  Truthful(x)'
  <2>1. PICK held \in SUBSET Requests : Empties(d, held)
    BY <1>6, ChannelEffect
  <2>2. x = active[d] => stage[x] = "running" /\ x \in aborted'
    BY <1>types, <2>1 DEF LiveInv, ActiveIsLive, Empties
  <2> QED
    BY <1>here, <2>1, <2>2 DEF Empties, Truthful
<1>7. CASE CleanupOldRequests
  <2>1. PICK S \in SUBSET {r \in Requests : status[r] # "none" /\ status[r] \notin KeepStatuses} :
           status' = Assign(status, S, "none")
    BY <1>7 DEF CleanupOldRequests
  <2>2. /\ status'[x] = IF x \in S THEN "none" ELSE status[x]
        /\ x \in S => status[x] # "queued"
    BY <2>1, AssignValue DEF KeepStatuses
  <2>3. UNCHANGED <<stage, aborted, queue, debounce>>
    BY <1>7 DEF CleanupOldRequests
  <2> QED
    BY <1>here, <2>2, <2>3 DEF Truthful, Queued, Windowed
<1>8. CASE (\E f \in Fingerprints : WindowPasses(f)) \/ UNCHANGED vars
  BY <1>here, <1>8 DEF WindowPasses, vars, Truthful, Queued, Windowed
<1> QED
  BY <1>1, <1>2, <1>3, <1>4, <1>5, <1>6, <1>7, <1>8 DEF Next

\* Every open window has a running timer, and what a status query answers is
\* what became of the request, though records are forgotten while others live.
THEOREM RecordsCorrect == Spec => []RecordsAgree
<1>1. Init => RecordsInv
  <2>1. ToSet(<<>>) = {}
    BY NoMembers
  <2> SUFFICES ASSUME Init PROVE RecordsInv
    OBVIOUS
  <2>2. WindowHasTimer
    BY DEF Init, WindowHasTimer
  <2>3. ASSUME NEW r \in Requests PROVE Truthful(r)
    <3>1. ~Queued(r)
      BY <2>1, ConstantsOK DEF Init, Queued
    <3> QED
      BY <3>1 DEF Init, Truthful
  <2> QED
    BY <2>2, <2>3 DEF RecordsInv
<1>2. TypeOK /\ Slots /\ LiveInv /\ RecordsInv /\ [Next]_vars => RecordsInv'
  BY TimerStep, TruthStep DEF RecordsInv
<1>3. RecordsInv => RecordsAgree
  BY DEF RecordsInv, RecordsAgree, StatusTruthful, Truthful, Queued, Windowed, InQueue, InDebounce
<1> QED
  BY <1>1, <1>2, <1>3, TypeCorrect, SlotsCorrect, LiveInit, LiveStep, PTL DEF Spec

----------------------------------------------------------------------------
(* The answers *)

\* Requests the caller was told to process; their content is what is answered.
Started(r) == stage[r] \in {"running", "served"}
Folded(r)  == stage[r] = "folded"

\* A started request holds its own text and that of requests folded into it; no
\* text is held twice, and a folded one is held.
TextsInv ==
    /\ \A h \in Requests : ToSet(merged[h]) \subseteq Requests
    /\ \A h \in Requests : ~Started(h) => ToSet(merged[h]) = {h}
    /\ \A h \in Requests : Started(h) => h \in ToSet(merged[h])
    /\ \A h, x \in Requests : Started(h) /\ x \in ToSet(merged[h]) /\ x # h => Folded(x)
    /\ \A g, h, x \in Requests : /\ Started(g) /\ x \in ToSet(merged[g])
                                 /\ Started(h) /\ x \in ToSet(merged[h])
                                 => g = h
    /\ \A r \in Requests : Folded(r) => \E h \in Requests : Started(h) /\ r \in ToSet(merged[h])

\* No request starts and no text moves.
KeepsTexts ==
    /\ merged' = merged
    /\ \A x \in Requests : (Started(x)' <=> Started(x)) /\ (Folded(x)' <=> Folded(x))

\* The texts of S start as h.
StartsTexts(h, S) ==
    /\ h \in S
    /\ \A x \in S : ~Started(x) /\ ~Folded(x)
    /\ ToSet(merged'[h]) = S
    /\ \A x \in Requests :
          /\ x # h => merged'[x] = merged[x]
          /\ Started(x)' <=> Started(x) \/ x = h
          /\ Folded(x)' <=> Folded(x) \/ (x \in S /\ x # h)

LEMMA KeptTexts == TextsInv /\ KeepsTexts => TextsInv'
<1> SUFFICES ASSUME TextsInv, KeepsTexts PROVE TextsInv'
  OBVIOUS
<1>1. \A h \in Requests : /\ ToSet(merged[h])' = ToSet(merged[h])
                          /\ Started(h)' <=> Started(h)
                          /\ Folded(h)' <=> Folded(h)
  BY DEF KeepsTexts
<1> QED
  BY <1>1 DEF TextsInv

LEMMA StartedTexts ==
    ASSUME TextsInv, NEW h \in Requests, NEW S \in SUBSET Requests, StartsTexts(h, S)
    PROVE  TextsInv'
<1>1. \A x \in Requests : /\ ToSet(merged[x])' = IF x = h THEN S ELSE ToSet(merged[x])
                          /\ Started(x)' <=> Started(x) \/ x = h
                          /\ Folded(x)' <=> Folded(x) \/ (x \in S /\ x # h)
  BY DEF StartsTexts
<1>2. h \in S /\ ~Started(h) /\ \A x \in S : ~Started(x) /\ ~Folded(x)
  BY DEF StartsTexts
\* A text that starts now was not held by a request that started before.
<1>3. \A g \in Requests, x \in S : Started(g) => x \notin ToSet(merged[g])
  BY <1>2 DEF TextsInv
<1>4. \A g \in Requests : /\ ToSet(merged[g])' \subseteq Requests
                          /\ ~Started(g)' => ToSet(merged[g])' = {g}
                          /\ Started(g)' => g \in ToSet(merged[g])'
  BY <1>1, <1>2 DEF TextsInv
<1>5. \A g, x \in Requests : Started(g)' /\ x \in ToSet(merged[g])' /\ x # g => Folded(x)'
  BY <1>1, <1>2 DEF TextsInv
<1>6. \A f, g, x \in Requests : /\ Started(f)' /\ x \in ToSet(merged[f])'
                                /\ Started(g)' /\ x \in ToSet(merged[g])'
                                => f = g
  BY <1>1, <1>3 DEF TextsInv
<1>7. ASSUME NEW r \in Requests, Folded(r)'
      PROVE  \E g \in Requests : Started(g)' /\ r \in ToSet(merged[g])'
  <2>1. CASE r \in S
    BY <1>1, <2>1
  <2>2. CASE r \notin S
    <3>1. PICK g \in Requests : Started(g) /\ r \in ToSet(merged[g])
      BY <1>1, <1>7, <2>2 DEF TextsInv
    <3> QED
      BY <1>1, <1>2, <3>1
  <2> QED
    BY <2>1, <2>2
<1> QED
  BY <1>4, <1>5, <1>6, <1>7 DEF TextsInv

\* Every step keeps the texts or starts some.
LEMMA TextsMove ==
    ASSUME TypeOK, Slots, LiveInv, TextsInv, [Next]_vars
    PROVE  KeepsTexts \/ \E h \in Requests, S \in SUBSET Requests : StartsTexts(h, S)
<1>types. /\ stage \in [Requests -> Stages] /\ Channel \in [Requests -> Channels]
          /\ merged \in [Requests -> Seq(Requests)]
  BY ConstantsOK DEF TypeOK
<1>here. \A x \in Requests : ~Started(x) => ToSet(merged[x]) = {x}
  BY DEF TextsInv
<1>1. ASSUME NEW r \in Requests, NEW skip \in BOOLEAN, Submit(r, skip)
      PROVE  KeepsTexts \/ \E h \in Requests, S \in SUBSET Requests : StartsTexts(h, S)
  <2>1. CASE SubmitAcquire(r, skip)
    <3>1. /\ stage[r] = "idle" /\ merged' = merged
          /\ \A x \in Requests : stage'[x] = IF x = r THEN "running" ELSE stage[x]
      BY <1>types, <2>1 DEF SubmitAcquire, Free
    <3>2. StartsTexts(r, {r})
      BY <1>here, <3>1 DEF StartsTexts, Started, Folded
    <3>3. {r} \in SUBSET Requests
      OBVIOUS
    <3> QED
      BY <3>2, <3>3
  <2>2. CASE RejectDuplicate(r) \/ SubmitDebounce(r, skip) \/ SubmitQueue(r, skip)
    <3>1. /\ stage[r] = "idle" /\ merged' = merged
          /\ stage' = [stage EXCEPT ![r] = "rejected"] \/ stage' = [stage EXCEPT ![r] = "waiting"]
      BY <2>2 DEF RejectDuplicate, SubmitDebounce, SubmitQueue, Free, RestartTimer
    <3> QED
      BY <1>types, <3>1 DEF KeepsTexts, Started, Folded
  <2> QED
    BY <1>1, <2>1, <2>2 DEF Submit
<1>2. ASSUME NEW d \in Channels, DebounceExpire(d)
      PROVE  KeepsTexts \/ \E h \in Requests, S \in SUBSET Requests : StartsTexts(h, S)
  <2>1. PICK h \in Requests, W \in SUBSET Requests : Closes(d, h, W)
    BY <1>2, ExpireEffect
  <2>2. StartsTexts(h, W)
    BY <2>1 DEF Closes, StartsTexts, Started, Folded
  <2> QED
    BY <2>2
<1>3. ASSUME NEW r \in Requests, Complete(r)
      PROVE  KeepsTexts \/ \E h \in Requests, S \in SUBSET Requests : StartsTexts(h, S)
  <2>1. CASE CompleteUnknown(r) \/ CompleteLast(r)
    BY <1>types, <2>1 DEF CompleteUnknown, CompleteLast, KeepsTexts, Started, Folded
  <2>2. CASE CompleteNext(r)
    <3>1. PICK h \in Requests : Passes(r, h)
      BY <2>2, NextEffect
    <3>2. StartsTexts(h, {h})
      BY <1>here, <3>1 DEF Passes, StartsTexts, Started, Folded
    <3>3. {h} \in SUBSET Requests
      OBVIOUS
    <3> QED
      BY <3>2, <3>3
  <2> QED
    BY <1>3, <2>1, <2>2 DEF Complete
<1>4. ASSUME NEW r \in Requests, CompleteBatch(r)
      PROVE  KeepsTexts \/ \E h \in Requests, S \in SUBSET Requests : StartsTexts(h, S)
  <2>1. CASE Frees(r)
    BY <2>1 DEF Frees, KeepsTexts, Started, Folded
  <2>2. ASSUME NEW h \in Requests, NEW B \in SUBSET Requests, HandsOver(r, h, B)
        PROVE  StartsTexts(h, B)
    BY <2>2 DEF HandsOver, StartsTexts, Started, Folded
  <2> QED
    BY <1>4, <2>1, <2>2, BatchEffect
<1>5. ASSUME NEW r \in Requests, Cancel(r)
      PROVE  KeepsTexts
  <2>1. CASE CancelActive(r)
    BY <2>1 DEF CancelActive, KeepsTexts, Started, Folded
  <2>2. CASE CancelQueued(r)
    <3>1. merged' = merged
      BY <2>2 DEF CancelQueued
    <3> QED
      BY <2>2, <3>1, WithdrawEffect DEF KeepsTexts, Started, Folded
  <2> QED
    BY <1>5, <2>1, <2>2 DEF Cancel
<1>6. ASSUME NEW d \in Channels, CancelChannel(d)
      PROVE  KeepsTexts
  <2>1. PICK held \in SUBSET Requests : Empties(d, held)
    BY <1>6, ChannelEffect
  <2> QED
    BY <2>1 DEF Empties, KeepsTexts, Started, Folded
<1>7. CASE CleanupOldRequests \/ (\E f \in Fingerprints : WindowPasses(f)) \/ UNCHANGED vars
  BY <1>7 DEF CleanupOldRequests, WindowPasses, vars, KeepsTexts, Started, Folded, KeepStatuses
<1> QED
  BY <1>1, <1>2, <1>3, <1>4, <1>5, <1>6, <1>7 DEF Next

\* What a channel's free place says about those that wait behind it.
Explained(c) ==
    queue[c] # <<>> /\ active[c] = NoRequest =>
        \/ ~Batchable[Head(queue[c])]
        \/ \E r \in Requests : Channel[r] = c /\ (r \in aborted \/ stage[r] = "withdrawn")

LEMMA ExplainedStep ==
    ASSUME TypeOK, Slots, LiveInv, NEW c \in Channels, Explained(c), [Next]_vars
    PROVE  Explained(c)'
<1>types. /\ stage \in [Requests -> Stages] /\ Channel \in [Requests -> Channels]
          /\ active \in [Channels -> Requests \cup {NoRequest}]
          /\ queue \in [Channels -> Seq(Requests)] /\ NoRequest \notin Requests
  BY ConstantsOK DEF TypeOK
\* What explains it stays, for nothing is ever taken back.
<1>kept. ASSUME queue'[c] = queue[c], active'[c] = active[c] \/ active'[c] # NoRequest,
                aborted \subseteq aborted',
                \A x \in Requests : stage[x] = "withdrawn" => stage'[x] = "withdrawn"
         PROVE  Explained(c)'
  BY <1>kept DEF Explained
<1>busy. ASSUME active'[c] # NoRequest PROVE Explained(c)'
  BY <1>busy DEF Explained
<1>1. ASSUME NEW r \in Requests, NEW skip \in BOOLEAN, Submit(r, skip)
      PROVE  Explained(c)'
  <2>1. /\ aborted' = aborted
        /\ \A x \in Requests : stage[x] = "withdrawn" => stage'[x] = "withdrawn"
    BY <1>1, <1>types DEF Submit, RejectDuplicate, SubmitAcquire, SubmitDebounce, SubmitQueue,
       Free, RestartTimer
  <2>2. CASE SubmitQueue(r, skip)
    <3>1. CASE Channel[r] = c
      BY <2>2, <3>1, <1>busy DEF SubmitQueue, Free
    <3>2. CASE Channel[r] # c
      BY <2>1, <2>2, <3>2, <1>types, <1>kept DEF SubmitQueue, Free
    <3> QED
      BY <3>1, <3>2
  <2>3. CASE SubmitAcquire(r, skip)
    <3>1. queue' = queue /\ active' = [active EXCEPT ![Channel[r]] = r]
      BY <2>3 DEF SubmitAcquire, Free
    <3> QED
      BY <2>1, <3>1, <1>types, <1>kept
  <2>4. CASE RejectDuplicate(r) \/ SubmitDebounce(r, skip)
    BY <2>1, <2>4, <1>kept DEF RejectDuplicate, SubmitDebounce, Free, RestartTimer
  <2> QED
    BY <1>1, <2>2, <2>3, <2>4 DEF Submit
<1>2. ASSUME NEW d \in Channels, DebounceExpire(d)
      PROVE  Explained(c)'
  <2>1. PICK h \in Requests, W \in SUBSET Requests : Closes(d, h, W)
    BY <1>2, ExpireEffect
  <2>2. \A x \in Requests : stage[x] = "withdrawn" => stage'[x] = "withdrawn"
    BY <2>1 DEF Closes
  <2>3. queue' = queue /\ aborted' = aborted /\ active' = [active EXCEPT ![d] = h]
    BY <2>1 DEF Closes
  <2> QED
    BY <2>2, <2>3, <1>types, <1>kept
<1>3. ASSUME NEW r \in Requests, Complete(r)
      PROVE  Explained(c)'
  <2>1. CASE CompleteUnknown(r)
    BY <2>1, <1>types, <1>kept DEF CompleteUnknown
  <2>2. CASE CompleteLast(r)
    <3>1. /\ queue' = queue /\ queue[Channel[r]] = <<>> /\ aborted' = aborted
          /\ active' = [active EXCEPT ![Channel[r]] = NoRequest]
          /\ \A x \in Requests : stage[x] = "withdrawn" => stage'[x] = "withdrawn"
      BY <2>2, <1>types DEF CompleteLast, Release
    <3>2. CASE Channel[r] = c
      BY <3>1, <3>2 DEF Explained
    <3>3. CASE Channel[r] # c
      BY <3>1, <3>3, <1>types, <1>kept
    <3> QED
      BY <3>2, <3>3
  <2>3. CASE CompleteNext(r)
    <3>1. PICK h \in Requests : Passes(r, h)
      BY <2>3, NextEffect
    <3>2. /\ active' = [active EXCEPT ![Channel[r]] = h] /\ aborted' = aborted
          /\ c # Channel[r] => queue'[c] = queue[c]
          /\ \A x \in Requests : stage[x] = "withdrawn" => stage'[x] = "withdrawn"
      BY <3>1 DEF Passes
    <3>3. CASE Channel[r] = c
      BY <3>2, <3>3, <1>types, <1>busy
    <3>4. CASE Channel[r] # c
      BY <3>2, <3>4, <1>types, <1>kept
    <3> QED
      BY <3>3, <3>4
  <2> QED
    BY <1>3, <2>1, <2>2, <2>3 DEF Complete
<1>4. ASSUME NEW r \in Requests, CompleteBatch(r)
      PROVE  Explained(c)'
  <2>1. CASE Frees(r)
    <3>1. /\ queue' = queue /\ aborted' = aborted
          /\ active' = [active EXCEPT ![Channel[r]] = NoRequest]
          /\ BatchEndsAt(Channel[r], 0)
          /\ \A x \in Requests : stage[x] = "withdrawn" => stage'[x] = "withdrawn"
      BY <2>1 DEF Frees
    <3>2. CASE Channel[r] = c
      <4>1. queue[c] # <<>> => ~Batchable[Head(queue[c])]
        <5>1. queue[c] \in Seq(Requests)
          BY <1>types
        <5>2. queue[c] # <<>> => 0 < Len(queue[c]) /\ Head(queue[c]) = queue[c][1]
          BY <5>1
        <5> QED
          BY <3>1, <3>2, <5>2 DEF BatchEndsAt
      <4> QED
        BY <3>1, <4>1 DEF Explained
    <3>3. CASE Channel[r] # c
      BY <3>1, <3>3, <1>types, <1>kept
    <3> QED
      BY <3>2, <3>3
  <2>2. ASSUME NEW h \in Requests, NEW B \in SUBSET Requests, HandsOver(r, h, B)
        PROVE  Explained(c)'
    <3>1. /\ active' = [active EXCEPT ![Channel[r]] = h] /\ aborted' = aborted
          /\ c # Channel[r] => queue'[c] = queue[c]
          /\ \A x \in Requests : stage[x] = "withdrawn" => stage'[x] = "withdrawn"
      BY <2>2 DEF HandsOver
    <3>2. CASE Channel[r] = c
      BY <3>1, <3>2, <1>types, <1>busy
    <3>3. CASE Channel[r] # c
      BY <3>1, <3>3, <1>types, <1>kept
    <3> QED
      BY <3>2, <3>3
  <2> QED
    BY <1>4, <2>1, <2>2, BatchEffect
<1>5. ASSUME NEW r \in Requests, Cancel(r)
      PROVE  Explained(c)'
  <2>1. CASE CancelActive(r)
    <3>1. /\ queue' = queue /\ stage' = stage /\ aborted' = aborted \cup {r}
          /\ active' = [active EXCEPT ![Channel[r]] = NoRequest]
      BY <2>1 DEF CancelActive, Release
    <3>2. CASE Channel[r] = c
      BY <3>1, <3>2 DEF Explained
    <3>3. CASE Channel[r] # c
      BY <3>1, <3>3, <1>types, <1>kept
    <3> QED
      BY <3>2, <3>3
  <2>2. CASE CancelQueued(r)
    <3>1. /\ stage'[r] = "withdrawn" /\ aborted' = aborted /\ active' = active
          /\ Channel[r] # c => queue'[c] = queue[c]
          /\ \A x \in Requests : stage[x] = "withdrawn" => stage'[x] = "withdrawn"
      BY <2>2, <1>types DEF CancelQueued
    <3>2. CASE Channel[r] = c
      BY <3>1, <3>2 DEF Explained
    <3>3. CASE Channel[r] # c
      BY <3>1, <3>3, <1>kept
    <3> QED
      BY <3>2, <3>3
  <2> QED
    BY <1>5, <2>1, <2>2 DEF Cancel
<1>6. ASSUME NEW d \in Channels, CancelChannel(d)
      PROVE  Explained(c)'
  <2>1. PICK held \in SUBSET Requests : Empties(d, held)
    BY <1>6, ChannelEffect
  <2>2. /\ queue' = [queue EXCEPT ![d] = <<>>] /\ active' = [active EXCEPT ![d] = NoRequest]
        /\ aborted \subseteq aborted'
        /\ \A x \in Requests : stage[x] = "withdrawn" => stage'[x] = "withdrawn"
    BY <2>1 DEF Empties
  <2>3. CASE d = c
    BY <2>2, <2>3, <1>types DEF Explained
  <2>4. CASE d # c
    BY <2>2, <2>4, <1>types, <1>kept
  <2> QED
    BY <2>3, <2>4
<1>7. CASE CleanupOldRequests \/ (\E f \in Fingerprints : WindowPasses(f)) \/ UNCHANGED vars
  BY <1>7, <1>kept DEF CleanupOldRequests, WindowPasses, vars, KeepStatuses
<1> QED
  BY <1>1, <1>2, <1>3, <1>4, <1>5, <1>6, <1>7 DEF Next

AnswersInv == TextsInv /\ \A c \in Channels : Explained(c)

\* The text of every message is in the content of at most one started request,
\* of exactly one when it was folded; and a free channel with requests waiting
\* behind it is explained by a cancellation or by a batch that met one it
\* cannot take.
THEOREM AnswersCorrect == Spec => []AnswersAccounted
<1>1. Init => AnswersInv
  <2> SUFFICES ASSUME Init PROVE AnswersInv
    OBVIOUS
  <2>1. \A r \in Requests : ToSet(merged[r]) = {r} /\ ~Started(r) /\ ~Folded(r)
    <3>1. \A r \in Requests : ToSet(<<r>>) = {r}
      <4> TAKE r \in Requests
      <4>1. <<r>> = Append(<<>>, r) /\ <<>> \in Seq(Requests) /\ ToSet(<<>>) = {}
        BY NoMembers
      <4> QED
        BY <4>1, AppendMembers, ZenonT(40)
    <3> QED
      BY <3>1 DEF Init, Started, Folded
  <2>2. \A c \in Channels : Explained(c)
    BY DEF Init, Explained
  <2> QED
    BY <2>1, <2>2 DEF AnswersInv, TextsInv
<1>2. TypeOK /\ Slots /\ LiveInv /\ AnswersInv /\ [Next]_vars => AnswersInv'
  BY TextsMove, KeptTexts, StartedTexts, ExplainedStep DEF AnswersInv
<1>3. TextsInv => AnsweredOnce
  <2> SUFFICES ASSUME TextsInv, NEW r \in Requests
               PROVE  LET carriers == {h \in Requests : /\ stage[h] \in {"running", "served"}
                                                        /\ r \in ToSet(merged[h])}
                      IN  /\ Cardinality(carriers) <= 1
                          /\ stage[r] \in {"folded", "running", "served"} => carriers # {}
                          /\ stage[r] \in {"waiting", "withdrawn", "rejected"} => carriers = {}
    BY DEF AnsweredOnce
  <2> DEFINE carriers == {h \in Requests : /\ stage[h] \in {"running", "served"}
                                           /\ r \in ToSet(merged[h])}
  <2>1. \A g, h \in carriers : g = h
    BY DEF TextsInv, Started
  <2>2. carriers = {} \/ \E h \in carriers : carriers = {h}
    BY <2>1
  <2>3. Cardinality(carriers) <= 1
    <3> HIDE DEF carriers
    <3>1. CASE carriers = {}
      <4>1. Cardinality({}) = 0
        BY FS_EmptySet
      <4> QED
        BY <3>1, <4>1
    <3>2. ASSUME NEW h \in carriers, carriers = {h} PROVE Cardinality(carriers) <= 1
      <4>1. Cardinality({h}) = 1
        BY FS_Singleton
      <4> QED
        BY <3>2, <4>1
    <3> QED
      BY <2>2, <3>1, <3>2
  <2>4. stage[r] \in {"folded", "running", "served"} => carriers # {}
    BY DEF TextsInv, Started, Folded
  <2>5. stage[r] \in {"waiting", "withdrawn", "rejected"} => carriers = {}
    BY DEF TextsInv, Started, Folded
  <2> QED
    BY <2>3, <2>4, <2>5
<1>4. AnswersInv => AnswersAccounted
  BY <1>3 DEF AnswersInv, Explained, AnswersAccounted, StrandedOnlyByCancelOrBatch
<1> QED
  BY <1>1, <1>2, <1>4, TypeCorrect, SlotsCorrect, LiveInit, LiveStep, PTL DEF Spec

----------------------------------------------------------------------------
(* The gateway's process *)

ProcessAssumptions ==
    Nobody \notin Commands /\ WithAdapters \subseteq Commands /\ MaxCrashes \in Nat

Places ==
    {"idle", "checking", "checking again", "tidying", "go", "reading", "signalling", "waiting",
     "cleaning", "stopped", "done"}
CommandRecords ==
    [at : Places, target : Commands \cup {Nobody},
     answer : {"none", "failed", "stopped", "started", "already running"}]
ProcessBase ==
    /\ ProcessTypeOK
    /\ command \in [Commands -> CommandRecords]
    /\ opened \in [Commands -> Commands \cup {Nobody}]
    /\ abrupt \subseteq Commands /\ crowded \subseteq Commands

\* A PID file that exists was created by someone and names a gateway that was
\* started.
FilesSound ==
    /\ pidfile.by = Nobody => pidfile.holds = Nobody
    /\ pidfile.holds # Nobody => gateway[pidfile.holds] # "none"
    /\ \A g \in Commands : gateway[g] = "writing" => opened[g] # Nobody

\* A command signals gateways that were started, and says "stopped" of one that
\* is gone for good.
TargetsExist ==
    \A c \in Commands :
        /\ command[c].target # Nobody => gateway[command[c].target] # "none"
        /\ command[c].at \in {"signalling", "waiting"} => command[c].target # Nobody
        /\ command[c].answer = "stopped" =>
              command[c].target # Nobody /\ gateway[command[c].target] = "gone"

\* A command that made its gateway is over: it makes no other.
LaunchedOnce == \A c \in Commands : gateway[c] # "none" => command[c].at = "done"

\* Adapters run between their start and their gateway's shutdown, or were left.
AdaptersHeld ==
    \A g \in adapters :
        g \in abrupt \/ gateway[g] \in {"spawned", "up", "draining", "stopping adapters"}

\* A gateway that nothing overlapped is the only one; while its daemon is not
\* listed no command is under way, and once it is, its file names it, and no
\* command has come far enough to remove the file.
Alone == \A g, h \in Commands : g \notin crowded /\ Alive(g) /\ Alive(h) => g = h
Serving == {"early", "listening", "spawned", "up"}
Calm ==
    \A g \in Commands \ crowded : Kind[g] = "start" =>
        /\ gateway[g] \in {"forked", "writing"} => Busy = {}
        /\ gateway[g] = "writing" => pidfile.by = opened[g]
        /\ gateway[g] \in Serving =>
              /\ pidfile.holds = g
              /\ \A c \in Commands :
                    /\ command[c].at \in {"idle", "done", "checking", "go", "reading", "signalling"}
                    /\ command[c].at = "signalling" => command[c].target = g

ProcessInv ==
    /\ ProcessBase /\ FilesSound /\ TargetsExist /\ LaunchedOnce /\ AdaptersHeld /\ Alone /\ Calm

LEMMA ProcessStarts ==
    ASSUME ProcessAssumptions, ProcessInit
    PROVE  ProcessInv
<1>1. \A c \in Commands : ~Alive(c)
  BY DEF ProcessInit, Alive, Before, After
<1>2. ProcessBase
  BY DEF ProcessAssumptions, ProcessInit, ProcessBase, ProcessTypeOK, NoFile, CommandRecords, Places
<1>3. FilesSound /\ TargetsExist /\ LaunchedOnce /\ AdaptersHeld
  BY DEF ProcessInit, NoFile, FilesSound, TargetsExist, LaunchedOnce, AdaptersHeld
<1>4. Alone /\ Calm
  BY <1>1 DEF ProcessInit, Alone, Calm, Serving
<1> QED
  BY <1>2, <1>3, <1>4 DEF ProcessInv

LEMMA ProcessFields ==
    ASSUME ProcessBase, NEW c \in Commands
    PROVE  /\ command[c].at \in Places /\ command[c].target \in Commands \cup {Nobody}
           /\ command[c].answer \in {"none", "failed", "stopped", "started", "already running"}
           /\ gateway[c] \in {"none", "up", "gone"} \cup Before \cup After
           /\ opened[c] \in Commands \cup {Nobody}
           /\ pidfile.by \in Commands \cup {Nobody} /\ pidfile.holds \in Commands \cup {Nobody}
<1>1. command[c] \in CommandRecords
  BY DEF ProcessBase
<1> QED
  BY <1>1 DEF ProcessBase, ProcessTypeOK, CommandRecords

\* What a step does to one command.
Does(c, p, t, a) ==
    /\ command' \in [Commands -> CommandRecords]
    /\ \A d \in Commands \ {c} : command'[d] = command[d]
    /\ command'[c].at = p /\ command'[c].target = t /\ command'[c].answer = a

LEMMA CommandEdits ==
    ASSUME ProcessBase, NEW c \in Commands, NEW p \in Places, NEW t \in Commands \cup {Nobody},
           NEW a \in {"none", "failed", "stopped", "started", "already running"}
    PROVE  /\ Go(c, p) => Does(c, p, command[c].target, command[c].answer)
           /\ command' = [command EXCEPT ![c].at = p, ![c].answer = a]
                => Does(c, p, command[c].target, a)
           /\ command' = [command EXCEPT ![c].target = t, ![c].at = p, ![c].answer = a]
                => Does(c, p, t, a)
<1>1. command[c] \in CommandRecords /\ command \in [Commands -> CommandRecords]
  BY DEF ProcessBase
<1>2. ASSUME NEW r \in CommandRecords, command' = [command EXCEPT ![c] = r]
      PROVE  Does(c, r.at, r.target, r.answer)
  BY <1>1, <1>2 DEF Does
<1>3. ASSUME Go(c, p) PROVE Does(c, p, command[c].target, command[c].answer)
  <2> DEFINE r == [command[c] EXCEPT !.at = p]
  <2>1. command' = [command EXCEPT ![c] = r]
    BY <1>3 DEF Go
  <2>2. r \in CommandRecords /\ r.at = p /\ r.target = command[c].target /\ r.answer = command[c].answer
    BY <1>1 DEF CommandRecords
  <2> HIDE DEF r
  <2> QED
    BY <1>2, <2>1, <2>2
<1>4. ASSUME command' = [command EXCEPT ![c].at = p, ![c].answer = a]
      PROVE  Does(c, p, command[c].target, a)
  <2> DEFINE r == [command[c] EXCEPT !.at = p, !.answer = a]
  <2>1. command' = [command EXCEPT ![c] = r]
    BY <1>1, <1>4 DEF CommandRecords
  <2>2. r \in CommandRecords /\ r.at = p /\ r.target = command[c].target /\ r.answer = a
    BY <1>1 DEF CommandRecords
  <2> HIDE DEF r
  <2> QED
    BY <1>2, <2>1, <2>2
<1>5. ASSUME command' = [command EXCEPT ![c].target = t, ![c].at = p, ![c].answer = a]
      PROVE  Does(c, p, t, a)
  <2> DEFINE r == [command[c] EXCEPT !.target = t, !.at = p, !.answer = a]
  <2>1. command' = [command EXCEPT ![c] = r]
    BY <1>1, <1>5 DEF CommandRecords
  <2>2. r \in CommandRecords /\ r.at = p /\ r.target = t /\ r.answer = a
    BY <1>1 DEF CommandRecords
  <2> HIDE DEF r
  <2> QED
    BY <1>2, <2>1, <2>2
<1> QED
  BY <1>3, <1>4, <1>5

\* What a step does to one gateway, or to none.
LEMMA GatewayEdits ==
    ASSUME ProcessBase, NEW g \in Commands, NEW s \in {"none", "up", "gone"} \cup Before \cup After,
           Become(g, s)
    PROVE  /\ gateway' \in [Commands -> {"none", "up", "gone"} \cup Before \cup After]
           /\ gateway'[g] = s /\ \A h \in Commands \ {g} : gateway'[h] = gateway[h]
BY DEF ProcessBase, ProcessTypeOK, Become

\* A command may go to p, with the target t, beside what nothing overlapped.
Permits(p, t) ==
    \A g \in Commands \ crowded' : Kind[g] = "start" =>
        /\ gateway[g] \in {"forked", "writing"} => p \in {"idle", "done"}
        /\ gateway[g] \in Serving =>
             /\ p \in {"idle", "done", "checking", "go", "reading", "signalling"}
             /\ p = "signalling" => t = g

\* A step of a command that touches neither gateway nor file.
LEMMA CommandGoes ==
    ASSUME ProcessAssumptions, ProcessInv, NEW c \in Commands, NEW p \in Places,
           NEW t \in Commands \cup {Nobody},
           NEW a \in {"none", "failed", "stopped", "started", "already running"},
           Does(c, p, t, a), crowded' \subseteq Commands, crowded \subseteq crowded',
           UNCHANGED <<pidfile, gateway, opened, port, adapters, crashes, abrupt>>,
           gateway[c] # "none" => p = "done",
           t # Nobody => gateway[t] # "none",
           p \in {"signalling", "waiting"} => t # Nobody,
           a = "stopped" => t # Nobody /\ gateway[t] = "gone",
           Permits(p, t)
    PROVE  ProcessInv'
<1>1. ProcessBase'
  BY DEF ProcessInv, ProcessBase, ProcessTypeOK, Does
<1>2. FilesSound' /\ AdaptersHeld'
  BY DEF ProcessInv, FilesSound, AdaptersHeld
<1>3. TargetsExist'
  BY DEF ProcessInv, TargetsExist, Does
<1>4. LaunchedOnce'
  BY DEF ProcessInv, LaunchedOnce, Does
<1>5. Alone'
  BY DEF ProcessInv, Alone, Alive
<1>6. ASSUME NEW g \in Commands \ crowded', Kind[g] = "start"
      PROVE  /\ gateway[g] \in {"forked", "writing"} => Busy' = {}
             /\ gateway[g] = "writing" => pidfile.by = opened[g]
             /\ gateway[g] \in Serving =>
                   /\ pidfile.holds = g
                   /\ \A d \in Commands :
                         /\ command'[d].at \in {"idle", "done", "checking", "go", "reading", "signalling"}
                         /\ command'[d].at = "signalling" => command'[d].target = g
  <2>1. g \in Commands \ crowded
    BY <1>6
  <2>2. gateway[g] \in {"forked", "writing"} => Busy' = {}
    BY <1>6, <2>1, ZenonT(40) DEF ProcessInv, Calm, Busy, Does, Permits
  <2>3. ASSUME gateway[g] \in Serving, NEW d \in Commands
        PROVE  /\ command'[d].at \in {"idle", "done", "checking", "go", "reading", "signalling"}
               /\ command'[d].at = "signalling" => command'[d].target = g
    <3>1. CASE d = c
      BY <1>6, <2>3, <3>1 DEF Does, Permits
    <3>2. CASE d # c
      <4>1. command'[d] = command[d]
        BY <3>2 DEF Does
      <4>2. /\ command[d].at \in {"idle", "done", "checking", "go", "reading", "signalling"}
            /\ command[d].at = "signalling" => command[d].target = g
        BY <1>6, <2>1, <2>3 DEF ProcessInv, Calm
      <4> QED
        BY <4>1, <4>2
    <3> QED
      BY <3>1, <3>2
  <2>4. /\ gateway[g] = "writing" => pidfile.by = opened[g]
        /\ gateway[g] \in Serving => pidfile.holds = g
    BY <1>6, <2>1 DEF ProcessInv, Calm
  <2> QED
    BY <2>2, <2>3, <2>4
<1>7. Calm'
  BY <1>6 DEF Calm
<1> QED
  BY <1>1, <1>2, <1>3, <1>4, <1>5, <1>7 DEF ProcessInv

\* While a daemon that nothing overlapped is not listed no command is under way,
\* and those under way later have not come far, and know it.
LEMMA Quiet ==
    ASSUME ProcessInv, NEW g \in Commands \ crowded, NEW c \in Commands,
           command[c].at \notin {"idle", "done"}, Kind[g] = "start"
    PROVE  /\ gateway[g] \notin {"forked", "writing"}
           /\ gateway[g] \in Serving =>
                /\ pidfile.holds = g
                /\ command[c].at \in {"checking", "go", "reading", "signalling"}
                /\ command[c].at = "signalling" => command[c].target = g
<1>1. Busy # {}
  BY DEF Busy
<1> QED
  BY <1>1 DEF ProcessInv, Calm

LEMMA ServingAlive ==
    ASSUME NEW g
    PROVE  /\ gateway[g] \in Serving \cup {"forked", "writing"} => Alive(g)
           /\ Alive(g) => gateway[g] \notin {"none", "gone"}
BY DEF Serving, Alive, Before, After

LEMMA BeginStep ==
    ASSUME ProcessAssumptions, ProcessInv, NEW c \in Commands, Begin(c)
    PROVE  ProcessInv'
<1>1. PICK p \in {"reading", "go", "checking"} : Go(c, p)
  BY DEF Begin
<1>2. /\ ProcessBase /\ command[c].target \in Commands \cup {Nobody} /\ p \in Places
      /\ command[c].answer \in {"none", "failed", "stopped", "started", "already running"}
      /\ crowded \subseteq Commands /\ command[c].at = "idle"
  BY ProcessFields DEF ProcessInv, ProcessBase, Places, Begin
<1>3. Does(c, p, command[c].target, command[c].answer)
  BY <1>1, <1>2, CommandEdits
<1>4. /\ crowded' = crowded \cup Unlisted /\ Unlisted \subseteq Commands
      /\ UNCHANGED <<pidfile, gateway, opened, port, adapters, crashes, abrupt>>
  BY DEF Begin, Unlisted, Living
<1>5. /\ gateway[c] = "none"
      /\ command[c].target # Nobody => gateway[command[c].target] # "none"
      /\ command[c].answer = "stopped" =>
            command[c].target # Nobody /\ gateway[command[c].target] = "gone"
  BY <1>2 DEF ProcessInv, LaunchedOnce, TargetsExist
<1>6. Permits(p, command[c].target)
  BY <1>4, ServingAlive DEF Permits, Unlisted, Living, Serving
<1> QED
  BY <1>2, <1>3, <1>4, <1>5, <1>6, CommandGoes

LEMMA CheckStep ==
    ASSUME ProcessAssumptions, ProcessInv, NEW c \in Commands, Check(c)
    PROVE  ProcessInv'
<1>1. /\ ProcessBase /\ command[c].target \in Commands \cup {Nobody}
      /\ command[c].answer \in {"none", "failed", "stopped", "started", "already running"}
      /\ crowded \subseteq Commands /\ command[c].at \in {"checking", "checking again"}
      /\ UNCHANGED <<pidfile, gateway, opened, port, adapters, crashes, abrupt, crowded>>
  BY ProcessFields DEF ProcessInv, ProcessBase, Check
<1>2. /\ gateway[c] = "none"
      /\ command[c].target # Nobody => gateway[command[c].target] # "none"
      /\ command[c].answer = "stopped" =>
            command[c].target # Nobody /\ gateway[command[c].target] = "gone"
  BY <1>1 DEF ProcessInv, LaunchedOnce, TargetsExist
<1>3. ASSUME NEW g \in Commands \ crowded, Kind[g] = "start"
      PROVE  /\ gateway[g] \notin {"forked", "writing"}
             /\ gateway[g] \in Serving => Listed
  <2>1. gateway[g] \in Serving => pidfile.holds = g /\ Alive(g) /\ g # Nobody
    BY <1>1, <1>3, Quiet, ServingAlive DEF ProcessAssumptions
  <2> QED
    BY <1>1, <1>3, <2>1, Quiet DEF Listed
<1>4. CASE Answer(c, "already running")
  <2>1. "done" \in Places /\ Does(c, "done", command[c].target, "already running")
    BY <1>1, <1>4, CommandEdits DEF Places, Answer
  <2>2. Permits("done", command[c].target)
    BY <1>1, <1>3 DEF Permits
  <2> QED
    BY <1>1, <1>2, <2>1, <2>2, CommandGoes
<1>5. CASE Go(c, "reading")
  <2>1. "reading" \in Places /\ Does(c, "reading", command[c].target, command[c].answer)
    BY <1>1, <1>5, CommandEdits DEF Places
  <2>2. Permits("reading", command[c].target)
    BY <1>1, <1>3 DEF Permits
  <2> QED
    BY <1>1, <1>2, <2>1, <2>2, CommandGoes
<1>6. ASSUME ~Listed, NEW p \in {"tidying", "go"}, Go(c, p) PROVE ProcessInv'
  <2>1. p \in Places /\ Does(c, p, command[c].target, command[c].answer)
    BY <1>1, <1>6, CommandEdits DEF Places
  <2>2. Permits(p, command[c].target)
    BY <1>1, <1>3, <1>6 DEF Permits
  <2> QED
    BY <1>1, <1>2, <2>1, <2>2, CommandGoes
<1> QED
  BY <1>4, <1>5, <1>6 DEF Check

LEMMA ReadStep ==
    ASSUME ProcessAssumptions, ProcessInv, NEW c \in Commands, Read(c)
    PROVE  ProcessInv'
<1> DEFINE p == CASE pidfile.by = Nobody -> "stopped"
                  [] pidfile.holds = Nobody -> "cleaning"
                  [] OTHER -> "signalling"
<1>1. /\ ProcessBase /\ crowded \subseteq Commands /\ command[c].at = "reading"
      /\ pidfile.holds \in Commands \cup {Nobody} /\ p \in Places
      /\ UNCHANGED <<pidfile, gateway, opened, port, adapters, crashes, abrupt, crowded>>
  BY ProcessFields DEF ProcessInv, ProcessBase, Read, Places
<1>2. Does(c, p, pidfile.holds, "failed")
  <2>1. command' = [command EXCEPT ![c].target = pidfile.holds, ![c].at = p, ![c].answer = "failed"]
    BY DEF Read
  <2> HIDE DEF p
  <2> QED
    BY <1>1, <2>1, CommandEdits
<1>3. /\ gateway[c] = "none"
      /\ pidfile.by = Nobody => pidfile.holds = Nobody
      /\ pidfile.holds # Nobody => gateway[pidfile.holds] # "none"
  BY <1>1 DEF ProcessInv, LaunchedOnce, FilesSound
<1>4. p \in {"signalling", "waiting"} => pidfile.holds # Nobody
  OBVIOUS
<1>5. Permits(p, pidfile.holds)
  <2> SUFFICES ASSUME NEW g \in Commands \ crowded, Kind[g] = "start"
               PROVE  /\ gateway[g] \notin {"forked", "writing"}
                      /\ gateway[g] \in Serving => p = "signalling" /\ pidfile.holds = g
    BY <1>1 DEF Permits
  <2>1. /\ gateway[g] \notin {"forked", "writing"}
        /\ gateway[g] \in Serving => pidfile.holds = g
    BY <1>1, Quiet
  <2>2. pidfile.holds = g => pidfile.holds # Nobody /\ pidfile.by # Nobody
    BY <1>3 DEF ProcessAssumptions
  <2> QED
    BY <2>1, <2>2
<1> HIDE DEF p
<1> QED
  BY <1>1, <1>2, <1>3, <1>4, <1>5, CommandGoes

LEMMA WaitedStep ==
    ASSUME ProcessAssumptions, ProcessInv, NEW c \in Commands, Waited(c)
    PROVE  ProcessInv'
<1>1. /\ ProcessBase /\ command[c].target \in Commands \cup {Nobody} /\ "cleaning" \in Places
      /\ crowded \subseteq Commands /\ command[c].at = "waiting" /\ ~Alive(command[c].target)
      /\ command' = [command EXCEPT ![c].at = "cleaning", ![c].answer = "stopped"]
      /\ UNCHANGED <<pidfile, gateway, opened, port, adapters, crashes, abrupt, crowded>>
  BY ProcessFields DEF ProcessInv, ProcessBase, Waited, Places
<1>2. Does(c, "cleaning", command[c].target, "stopped")
  BY <1>1, CommandEdits
<1>3. gateway[c] = "none" /\ command[c].target # Nobody /\ gateway[command[c].target] # "none"
  BY <1>1 DEF ProcessInv, LaunchedOnce, TargetsExist
<1>4. gateway[command[c].target] = "gone"
  BY <1>1, <1>3, ProcessFields DEF Alive
<1>5. Permits("cleaning", command[c].target)
  BY <1>1, Quiet DEF Permits
<1> QED
  BY <1>1, <1>2, <1>3, <1>4, <1>5, CommandGoes

LEMMA StoppedStep ==
    ASSUME ProcessAssumptions, ProcessInv, NEW c \in Commands, Stopped(c)
    PROVE  ProcessInv'
<1>1. PICK p \in {"checking again", "done"} : Go(c, p)
  BY DEF Stopped
<1>2. /\ ProcessBase /\ command[c].target \in Commands \cup {Nobody} /\ p \in Places
      /\ command[c].answer \in {"none", "failed", "stopped", "started", "already running"}
      /\ crowded \subseteq Commands /\ command[c].at = "stopped"
      /\ UNCHANGED <<pidfile, gateway, opened, port, adapters, crashes, abrupt, crowded>>
  BY ProcessFields DEF ProcessInv, ProcessBase, Places, Stopped
<1>3. Does(c, p, command[c].target, command[c].answer)
  BY <1>1, <1>2, CommandEdits
<1>4. /\ gateway[c] = "none"
      /\ command[c].target # Nobody => gateway[command[c].target] # "none"
      /\ command[c].answer = "stopped" =>
            command[c].target # Nobody /\ gateway[command[c].target] = "gone"
  BY <1>2 DEF ProcessInv, LaunchedOnce, TargetsExist
<1>5. Permits(p, command[c].target)
  BY <1>2, Quiet DEF Permits
<1> QED
  BY <1>2, <1>3, <1>4, <1>5, CommandGoes

\* The file is removed by a command that came so far as to do it.
LEMMA FileStep ==
    ASSUME ProcessAssumptions, ProcessInv, NEW c \in Commands, Tidy(c) \/ Clean(c)
    PROVE  ProcessInv'
<1>1. PICK p \in {"go", "stopped"} : Go(c, p)
  BY DEF Tidy, Clean
<1>2. /\ ProcessBase /\ command[c].target \in Commands \cup {Nobody} /\ p \in Places
      /\ command[c].answer \in {"none", "failed", "stopped", "started", "already running"}
      /\ command[c].at \in {"tidying", "cleaning"} /\ pidfile' = NoFile
      /\ UNCHANGED <<gateway, opened, port, adapters, crashes, abrupt, crowded>>
  BY ProcessFields DEF ProcessInv, ProcessBase, Places, Tidy, Clean
<1>3. Does(c, p, command[c].target, command[c].answer)
  BY <1>1, <1>2, CommandEdits
<1>4. gateway[c] = "none"
  BY <1>2 DEF ProcessInv, LaunchedOnce
<1>5. ProcessBase'
  BY <1>2, <1>3 DEF ProcessInv, ProcessBase, ProcessTypeOK, Does, NoFile
<1>6. FilesSound' /\ AdaptersHeld'
  BY <1>2 DEF ProcessInv, FilesSound, AdaptersHeld, NoFile
<1>7. TargetsExist'
  BY <1>1, <1>2, <1>3, ZenonT(40) DEF ProcessInv, TargetsExist, Does
<1>8. LaunchedOnce' /\ Alone'
  BY <1>2, <1>3, <1>4 DEF ProcessInv, LaunchedOnce, Alone, Alive, Does
<1>9. Calm'
  BY <1>2, Quiet DEF Calm, Serving
<1> QED
  BY <1>5, <1>6, <1>7, <1>8, <1>9 DEF ProcessInv

\* A living gateway comes to its next stage.
LEMMA GatewayGoes ==
    ASSUME ProcessAssumptions, ProcessInv, NEW g \in Commands, Alive(g),
           NEW s \in {"up", "gone"} \cup Before \cup After, Become(g, s), s # "forked",
           UNCHANGED <<command, crowded>>, ProcessBase',
           FilesSound', abrupt \subseteq abrupt', adapters' \subseteq adapters \cup {g},
           g \in adapters' => g \in abrupt' \/ s \in {"spawned", "up", "draining", "stopping adapters"},
           g \notin crowded /\ Kind[g] = "start" =>
              /\ s = "writing" => gateway[g] = "forked" /\ pidfile'.by = opened'[g]
              /\ s \in Serving => gateway[g] \in Serving \cup {"forked", "writing"} /\ pidfile'.holds = g
    PROVE  ProcessInv'
<1>1. /\ gateway' \in [Commands -> {"none", "up", "gone"} \cup Before \cup After]
      /\ gateway'[g] = s /\ \A h \in Commands \ {g} : gateway'[h] = gateway[h]
      /\ gateway[g] \notin {"none", "gone"} /\ s # "none"
  BY GatewayEdits, ServingAlive DEF ProcessInv, Before, After
<1>2. TargetsExist'
  BY <1>1, ProcessFields DEF ProcessInv, TargetsExist
<1>3. LaunchedOnce'
  BY <1>1 DEF ProcessInv, LaunchedOnce
<1>4. AdaptersHeld'
  BY <1>1 DEF ProcessAssumptions, ProcessInv, ProcessBase, ProcessTypeOK, AdaptersHeld
<1>5. Alone'
  BY <1>1 DEF ProcessInv, Alone, Alive
<1>6. ASSUME NEW h \in Commands \ crowded, Kind[h] = "start",
             gateway'[h] \in Serving \cup {"forked", "writing"}
      PROVE  /\ h = g /\ Busy' = Busy
             /\ gateway'[h] \in {"forked", "writing"} => gateway[h] = "forked"
             /\ gateway'[h] \in Serving => gateway[h] \in Serving \cup {"forked", "writing"}
  <2>1. h = g
    <3>1. CASE h # g
      <4>1. Alive(h)
        BY <1>1, <1>6, <3>1, ServingAlive
      <4> QED
        BY <4>1 DEF ProcessInv, Alone
    <3> QED
      BY <3>1
  <2> QED
    BY <1>1, <1>6, <2>1 DEF Busy, Serving
<1>7. Calm'
  <2> SUFFICES ASSUME NEW h \in Commands \ crowded, Kind[h] = "start",
                      gateway'[h] \in Serving \cup {"forked", "writing"}
               PROVE  /\ gateway'[h] \in {"forked", "writing"} => Busy' = {}
                      /\ gateway'[h] = "writing" => pidfile'.by = opened'[h]
                      /\ gateway'[h] \in Serving =>
                            /\ pidfile'.holds = h
                            /\ \A c \in Commands :
                                  /\ command[c].at \in {"idle", "done", "checking", "go", "reading",
                                                        "signalling"}
                                  /\ command[c].at = "signalling" => command[c].target = h
    BY ZenonT(40) DEF Calm
  <2>1. h = g /\ Busy' = Busy
    BY <1>6
  <2>2. gateway'[h] \in {"forked", "writing"} => Busy' = {}
    BY <1>6, <2>1 DEF ProcessInv, Calm
  <2>3. gateway'[h] = "writing" => pidfile'.by = opened'[h]
    BY <1>1, <2>1
  <2>4. gateway'[h] \in Serving => pidfile'.holds = h
    BY <1>1, <2>1
  <2>5. ASSUME gateway'[h] \in Serving, NEW c \in Commands
        PROVE  /\ command[c].at \in {"idle", "done", "checking", "go", "reading", "signalling"}
               /\ command[c].at = "signalling" => command[c].target = h
    <3>1. CASE gateway[h] \in Serving
      BY <3>1 DEF ProcessInv, Calm
    <3>2. CASE gateway[h] \in {"forked", "writing"}
      BY <3>2 DEF ProcessInv, Calm, Busy
    <3> QED
      BY <1>6, <2>5, <3>1, <3>2
  <2> QED
    BY <2>2, <2>3, <2>4, <2>5
<1> QED
  BY <1>2, <1>3, <1>4, <1>5, <1>7 DEF ProcessInv

\* The file and what the gateway opened stay as they are.
LEMMA FileStays ==
    ASSUME ProcessInv, NEW g \in Commands, NEW s \in {"up", "gone"} \cup Before \cup After, s # "writing",
           Become(g, s), UNCHANGED <<pidfile, opened>>
    PROVE  FilesSound'
<1>1. /\ gateway'[g] = s /\ \A h \in Commands \ {g} : gateway'[h] = gateway[h]
      /\ pidfile.holds \in Commands \cup {Nobody} /\ s # "none"
  BY GatewayEdits, ProcessFields DEF ProcessInv, Before, After
<1> QED
  BY <1>1 DEF ProcessInv, FilesSound

LEMMA GatewayStep ==
    ASSUME ProcessAssumptions, ProcessInv, NEW g \in Commands,
           \/ OpenFile(g) \/ WritePid(g) \/ Listens(g) \/ Spawns(g) \/ Ready(g) \/ StartFails(g)
           \/ Interrupted(g) \/ Drained(g) \/ AdaptersStopped(g) \/ Closed(g) \/ Leaves(g) \/ Crashes(g)
    PROVE  ProcessInv'
<1>1. /\ ProcessBase /\ ProcessTypeOK /\ abrupt \subseteq Commands /\ opened[g] \in Commands \cup {Nobody}
      /\ pidfile.by \in Commands \cup {Nobody} /\ pidfile.holds \in Commands \cup {Nobody}
      /\ g # Nobody /\ MaxCrashes \in Nat
      /\ g \in adapters => g \in abrupt \/ gateway[g] \in {"spawned", "up", "draining", "stopping adapters"}
      /\ \A h \in Commands \ crowded : Kind[h] = "start" =>
            /\ gateway[h] = "writing" => pidfile.by = opened[h]
            /\ gateway[h] \in Serving => pidfile.holds = h
  BY ProcessFields DEF ProcessInv, ProcessBase, ProcessAssumptions, AdaptersHeld, Calm
<1>2. \A s \in {"up", "gone"} \cup Before \cup After :
          Become(g, s) => /\ gateway' \in [Commands -> {"none", "up", "gone"} \cup Before \cup After] /\ gateway'[g] = s
                          /\ \A h \in Commands \ {g} : gateway'[h] = gateway[h]
  BY <1>1, GatewayEdits
<1>3. CASE OpenFile(g)
  <2>1. /\ Alive(g) /\ gateway[g] = "forked" /\ Become(g, "writing") /\ "writing" \in Before
        /\ pidfile' = [by |-> IF pidfile.by = Nobody THEN g ELSE pidfile.by, holds |-> Nobody]
        /\ opened' = [opened EXCEPT ![g] = pidfile'.by]
        /\ UNCHANGED <<command, port, adapters, crashes, abrupt, crowded>>
    BY <1>3 DEF OpenFile, Alive, Before
  <2>2. pidfile'.by \in Commands /\ pidfile'.holds = Nobody /\ opened'[g] = pidfile'.by
        /\ \A h \in Commands \ {g} : opened'[h] = opened[h]
    BY <1>1, <2>1 DEF ProcessBase
  <2>3. ProcessBase'
    BY <1>1, <1>2, <2>1, <2>2 DEF ProcessBase, ProcessTypeOK
  <2>4. FilesSound'
    BY <1>1, <1>2, <2>1, <2>2 DEF ProcessInv, ProcessAssumptions, FilesSound
  <2> QED
    BY <1>1, <2>1, <2>2, <2>3, <2>4, GatewayGoes DEF Serving
<1>4. CASE WritePid(g)
  <2>1. /\ Alive(g) /\ gateway[g] = "writing" /\ Become(g, "early") /\ "early" \in Before
        /\ pidfile' = IF pidfile.by = opened[g] THEN [pidfile EXCEPT !.holds = g] ELSE pidfile
        /\ UNCHANGED <<command, opened, port, adapters, crashes, abrupt, crowded>>
    BY <1>4 DEF WritePid, Alive, Before
  <2>2. /\ pidfile'.by = pidfile.by /\ pidfile'.holds \in {pidfile.holds, g}
        /\ pidfile.by = opened[g] => pidfile'.holds = g
        /\ pidfile'.holds # pidfile.holds => pidfile.by = opened[g]
        /\ pidfile' \in [by : Commands \cup {Nobody}, holds : Commands \cup {Nobody}]
    BY <1>1, <2>1 DEF ProcessTypeOK
  <2>3. ProcessBase'
    BY <1>1, <1>2, <2>1, <2>2 DEF ProcessBase, ProcessTypeOK
  <2>4. FilesSound'
    BY <1>1, <1>2, <2>1, <2>2 DEF ProcessInv, FilesSound
  <2> QED
    BY <1>1, <2>1, <2>2, <2>3, <2>4, GatewayGoes
<1>5. CASE Listens(g)
  <2>1. /\ Alive(g) /\ gateway[g] = "early" /\ Become(g, "listening") /\ "listening" \in Before
        /\ port' = g /\ UNCHANGED <<pidfile, command, opened, adapters, crashes, abrupt, crowded>>
    BY <1>5 DEF Listens, Alive, Before
  <2>2. ProcessBase'
    BY <1>1, <1>2, <2>1 DEF ProcessBase, ProcessTypeOK
  <2> QED
    BY <1>1, <2>1, <2>2, FileStays, GatewayGoes DEF Serving
<1>6. CASE Spawns(g)
  <2>1. /\ Alive(g) /\ gateway[g] = "listening" /\ Become(g, "spawned") /\ "spawned" \in Before
        /\ adapters' = adapters \cup ({g} \cap WithAdapters)
        /\ UNCHANGED <<pidfile, command, opened, port, crashes, abrupt, crowded>>
    BY <1>6 DEF Spawns, Alive, Before
  <2>2. ProcessBase'
    BY <1>1, <1>2, <2>1 DEF ProcessBase, ProcessTypeOK
  <2> QED
    BY <1>1, <2>1, <2>2, FileStays, GatewayGoes DEF Serving
<1>7. CASE Ready(g)
  <2>1. /\ Alive(g) /\ gateway[g] = "spawned" /\ Become(g, "up")
        /\ UNCHANGED <<pidfile, command, opened, port, adapters, crashes, abrupt, crowded>>
    BY <1>7 DEF Ready, Alive, Before
  <2>2. ProcessBase'
    BY <1>1, <1>2, <2>1 DEF ProcessBase, ProcessTypeOK
  <2> QED
    BY <1>1, <2>1, <2>2, FileStays, GatewayGoes DEF Serving
<1>8. CASE StartFails(g)
  <2>1. /\ Alive(g) /\ Become(g, "leaving") /\ "leaving" \in After /\ abrupt' = abrupt \cup {g}
        /\ UNCHANGED <<pidfile, command, opened, port, adapters, crashes, crowded>>
    BY <1>8 DEF StartFails, Alive, Before, After
  <2>2. ProcessBase'
    BY <1>1, <1>2, <2>1 DEF ProcessBase, ProcessTypeOK
  <2> QED
    BY <1>1, <2>1, <2>2, FileStays, GatewayGoes DEF Serving
<1>9. CASE Interrupted(g) \/ Drained(g) \/ AdaptersStopped(g) \/ Closed(g)
  <2>1. PICK s \in {"draining", "stopping adapters", "closing", "leaving"} :
          /\ Become(g, s) /\ s \in After
          /\ s = "closing" => g \notin adapters'
          /\ s = "leaving" => gateway[g] = "closing"
    BY <1>9 DEF Interrupted, Drained, AdaptersStopped, Closed, StopAdapters, After
  <2>2. /\ Alive(g) /\ adapters' \subseteq adapters /\ port' \in {port, Nobody}
        /\ UNCHANGED <<pidfile, command, opened, crashes, abrupt, crowded>>
    BY <1>9 DEF Interrupted, Drained, AdaptersStopped, Closed, StopAdapters, Alive, After
  <2>3. ProcessBase'
    BY <1>1, <1>2, <2>1, <2>2 DEF ProcessBase, ProcessTypeOK
  <2>4. s \notin Serving \cup {"writing", "forked"}
    BY DEF Serving
  <2>5. g \in adapters' => g \in abrupt' \/ s \in {"spawned", "up", "draining", "stopping adapters"}
    BY <1>1, <2>1, <2>2
  <2> QED
    BY <1>1, <2>1, <2>2, <2>3, <2>4, <2>5, FileStays, GatewayGoes
<1>10. CASE Leaves(g)
  <2>1. /\ Alive(g) /\ gateway[g] = "leaving" /\ Become(g, "gone") /\ pidfile' = NoFile
        /\ port' \in {port, Nobody}
        /\ UNCHANGED <<command, opened, adapters, crashes, abrupt, crowded>>
    BY <1>10 DEF Leaves, Alive, After
  <2>2. ProcessBase'
    BY <1>1, <1>2, <2>1 DEF ProcessBase, ProcessTypeOK, NoFile
  <2>3. FilesSound'
    BY <1>2, <2>1 DEF ProcessInv, FilesSound, NoFile
  <2> QED
    BY <1>1, <2>1, <2>2, <2>3, GatewayGoes DEF Serving
<1>11. CASE Crashes(g)
  <2>1. /\ Alive(g) /\ Become(g, "gone") /\ crashes < MaxCrashes /\ crashes' = crashes + 1
        /\ port' \in {port, Nobody} /\ abrupt' = abrupt \cup {g}
        /\ UNCHANGED <<pidfile, command, opened, adapters, crowded>>
    BY <1>11 DEF Crashes, Dies
  <2>2. crashes' \in 0 .. MaxCrashes
    <3>1. crashes \in 0 .. MaxCrashes /\ MaxCrashes \in Nat
      BY <1>1 DEF ProcessTypeOK
    <3> QED
      BY <2>1, <3>1
  <2>3. ProcessBase'
    BY <1>1, <1>2, <2>1, <2>2 DEF ProcessBase, ProcessTypeOK
  <2> QED
    BY <1>1, <2>1, <2>3, FileStays, GatewayGoes DEF Serving
<1> QED
  BY <1>3, <1>4, <1>5, <1>6, <1>7, <1>8, <1>9, <1>10, <1>11

\* A command ends a living gateway, or asks it to end.
LEMMA GatewayEnds ==
    ASSUME ProcessAssumptions, ProcessInv, NEW c \in Commands, NEW g \in Commands, Alive(g),
           NEW s \in {"gone", "draining"}, Become(g, s),
           NEW p \in {"waiting", "cleaning"}, NEW a \in {"none", "failed", "stopped", "started", "already running"},
           Does(c, p, g, a), gateway[c] = "none", a = "stopped" => s = "gone",
           port' \in {port, Nobody}, abrupt' \subseteq Commands, abrupt \subseteq abrupt',
           s = "gone" => g \in abrupt',
           UNCHANGED <<pidfile, opened, adapters, crashes, crowded>>
    PROVE  ProcessInv'
<1>1. /\ gateway' \in [Commands -> {"none", "up", "gone"} \cup Before \cup After]
      /\ gateway'[g] = s /\ \A h \in Commands \ {g} : gateway'[h] = gateway[h]
      /\ gateway[g] \notin {"none", "gone"} /\ c # g
  BY GatewayEdits, ServingAlive DEF ProcessInv, After
<1>2. ProcessBase'
  BY <1>1 DEF ProcessInv, ProcessBase, ProcessTypeOK, Does
<1>3. FilesSound'
  BY FileStays DEF After
<1>4. TargetsExist'
  <2> SUFFICES ASSUME NEW d \in Commands
               PROVE  /\ command'[d].target # Nobody => gateway'[command'[d].target] # "none"
                      /\ command'[d].at \in {"signalling", "waiting"} => command'[d].target # Nobody
                      /\ command'[d].answer = "stopped" =>
                            command'[d].target # Nobody /\ gateway'[command'[d].target] = "gone"
    BY DEF TargetsExist
  <2>1. CASE d = c
    BY <1>1, <2>1 DEF Does, ProcessAssumptions
  <2>2. CASE d # c
    <3>1. command'[d] = command[d] /\ command[d].target \in Commands \cup {Nobody}
      BY <2>2, ProcessFields DEF Does, ProcessInv
    <3> QED
      BY <1>1, <3>1 DEF ProcessInv, TargetsExist
  <2> QED
    BY <2>1, <2>2
<1>5. LaunchedOnce'
  BY <1>1 DEF ProcessInv, LaunchedOnce, Does
<1>6. AdaptersHeld'
  BY <1>1 DEF ProcessAssumptions, ProcessInv, ProcessBase, ProcessTypeOK, AdaptersHeld
<1>7. Alone'
  BY <1>1 DEF ProcessInv, Alone, Alive
<1>8. ASSUME NEW h \in Commands \ crowded, gateway'[h] \in Serving \cup {"forked", "writing"}
      PROVE  FALSE
  <2>1. h # g
    BY <1>1, <1>8 DEF Serving
  <2>2. Alive(h)
    BY <1>1, <1>8, <2>1, ServingAlive
  <2> QED
    BY <2>1, <2>2 DEF ProcessInv, Alone
<1>9. Calm'
  BY <1>8 DEF Calm
<1> QED
  BY <1>2, <1>3, <1>4, <1>5, <1>6, <1>7, <1>9 DEF ProcessInv

LEMMA SignalStep ==
    ASSUME ProcessAssumptions, ProcessInv, NEW c \in Commands, Signal(c) \/ TimesOut(c)
    PROVE  ProcessInv'
<1> DEFINE g == command[c].target
<1>1. /\ ProcessBase /\ g \in Commands /\ g # Nobody /\ gateway[c] = "none" /\ gateway[g] # "none"
      /\ gateway[g] \in {"none", "up", "gone"} \cup Before \cup After
      /\ command[c].at \in {"signalling", "waiting"}
      /\ command[c].answer \in {"none", "failed", "stopped", "started", "already running"}
      /\ abrupt \subseteq Commands /\ crowded \subseteq Commands
      /\ {"waiting", "cleaning"} \subseteq Places
      /\ command[c].answer = "stopped" => gateway[g] = "gone"
      /\ UNCHANGED <<pidfile, opened, adapters, crashes, crowded>>
  <2>1. command[c].at \in {"signalling", "waiting"} /\ UNCHANGED <<pidfile, opened, adapters, crashes, crowded>>
    BY DEF Signal, TimesOut, Overdue
  <2>2. g # Nobody /\ gateway[c] = "none" /\ gateway[g] # "none" /\ (command[c].answer = "stopped" => gateway[g] = "gone")
    BY <2>1 DEF ProcessInv, LaunchedOnce, TargetsExist
  <2>3. g \in Commands /\ command[c].answer \in {"none", "failed", "stopped", "started", "already running"}
    BY <2>2, ProcessFields DEF ProcessInv
  <2> QED
    BY <2>1, <2>2, <2>3, ProcessFields DEF ProcessInv, ProcessBase, Places
<1>2. \A p \in {"waiting", "cleaning"} : Go(c, p) => Does(c, p, g, command[c].answer)
  BY <1>1, CommandEdits
<1>3. Alive(g) => command[c].answer # "stopped"
  BY <1>1, ServingAlive
<1>4. \A h \in Commands \ crowded : Kind[h] = "start" =>
          /\ gateway[h] \notin {"forked", "writing"}
          /\ gateway[h] \in Serving => command[c].at = "signalling" /\ g = h
  BY <1>1, Quiet
<1>5. CASE Signal(c) /\ ~Alive(g)
  <2>1. Go(c, "cleaning") /\ UNCHANGED <<gateway, port, abrupt>>
    BY <1>5 DEF Signal
  <2>2. Permits("cleaning", g)
    BY <1>1, <1>4, <1>5, ServingAlive DEF Permits
  <2> QED
    BY <1>1, <1>2, <2>1, <2>2, CommandGoes
<1>6. CASE Signal(c) /\ Alive(g) /\ gateway[g] \in Before
  <2>1. Go(c, "waiting") /\ Dies(g)
    BY <1>6 DEF Signal, Before
  <2>2. Become(g, "gone") /\ port' \in {port, Nobody} /\ abrupt' = abrupt \cup {g}
    BY <2>1 DEF Dies
  <2> QED
    BY <1>1, <1>2, <1>3, <1>6, <2>1, <2>2, GatewayEnds
<1>7. CASE Signal(c) /\ Alive(g) /\ gateway[g] = "up"
  <2>1. Go(c, "waiting") /\ Become(g, "draining") /\ UNCHANGED <<port, abrupt>>
    BY <1>7 DEF Signal, Before
  <2> QED
    BY <1>1, <1>2, <1>3, <1>7, <2>1, GatewayEnds
<1>8. CASE Signal(c) /\ Alive(g) /\ gateway[g] \in After
  <2>1. Go(c, "waiting") /\ UNCHANGED <<gateway, port, abrupt>>
    BY <1>8 DEF Signal, Before, After
  <2>2. Permits("waiting", g)
    BY <1>1, <1>4, <1>8 DEF Permits, Serving, After
  <2> QED
    BY <1>1, <1>2, <2>1, <2>2, CommandGoes
<1>9. CASE TimesOut(c)
  <2>1. /\ Alive(g) /\ Dies(g)
        /\ command' = [command EXCEPT ![c].at = "cleaning", ![c].answer = "stopped"]
    BY <1>9 DEF TimesOut, Overdue, KillTarget
  <2>2. Does(c, "cleaning", g, "stopped")
    BY <1>1, <2>1, CommandEdits
  <2>3. Become(g, "gone") /\ port' \in {port, Nobody} /\ abrupt' = abrupt \cup {g}
    BY <2>1 DEF Dies
  <2> QED
    BY <1>1, <2>1, <2>2, <2>3, GatewayEnds
<1> QED
  BY <1>1, <1>5, <1>6, <1>7, <1>8, <1>9 DEF Alive

LEMMA LaunchStep ==
    ASSUME ProcessAssumptions, ProcessInv, NEW c \in Commands, Launch(c)
    PROVE  ProcessInv'
<1>1. /\ ProcessBase /\ command[c].target \in Commands \cup {Nobody} /\ "done" \in Places
      /\ crowded \subseteq Commands /\ command[c].at = "go"
      /\ UNCHANGED <<pidfile, opened, port, adapters, crashes, abrupt>>
  BY ProcessFields DEF ProcessInv, ProcessBase, Launch, Places
<1>2. /\ gateway[c] = "none"
      /\ command[c].target # Nobody => gateway[command[c].target] # "none"
  BY <1>1 DEF ProcessInv, LaunchedOnce, TargetsExist
<1>3. CASE Kind[c] = "restart"
  <2>1. Answer(c, "failed") /\ UNCHANGED <<gateway, crowded>>
    BY <1>3 DEF Launch
  <2>2. Does(c, "done", command[c].target, "failed")
    BY <1>1, <2>1, CommandEdits DEF Answer
  <2>3. Permits("done", command[c].target)
    BY DEF Permits
  <2> QED
    BY <1>1, <1>2, <2>1, <2>2, <2>3, CommandGoes
<1>4. CASE Kind[c] # "restart"
  <2> DEFINE s == IF Kind[c] = "start" THEN "forked" ELSE "early"
  <2>1. /\ Answer(c, "started") /\ Become(c, s) /\ s \in Before
        /\ crowded' = crowded \cup IF Living # {} \/ Busy # {c} THEN Living \cup {c} ELSE {}
    BY <1>4 DEF Launch, Before
  <2>2. /\ gateway' \in [Commands -> {"none", "up", "gone"} \cup Before \cup After]
        /\ gateway'[c] = s /\ \A h \in Commands \ {c} : gateway'[h] = gateway[h]
    BY <1>1, <2>1, GatewayEdits
  <2>3. Does(c, "done", command[c].target, "started")
    BY <1>1, <2>1, CommandEdits DEF Answer
  <2>4. crowded \subseteq crowded' /\ crowded' \subseteq Commands
    BY <1>1, <2>1 DEF Living
  <2>5. ProcessBase'
    BY <1>1, <2>2, <2>3, <2>4 DEF ProcessBase, ProcessTypeOK, Does
  <2>6. FilesSound' /\ AdaptersHeld'
    <3>1. pidfile.holds \in Commands \cup {Nobody} /\ s # "none" /\ s # "writing"
      BY <1>1, ProcessFields
    <3> QED
      BY <1>1, <1>2, <2>2, <3>1
      DEF ProcessAssumptions, ProcessInv, ProcessBase, ProcessTypeOK, FilesSound, AdaptersHeld
  <2>7. TargetsExist'
    <3> SUFFICES ASSUME NEW d \in Commands
                 PROVE  /\ command'[d].target # Nobody => gateway'[command'[d].target] # "none"
                        /\ command'[d].at \in {"signalling", "waiting"} => command'[d].target # Nobody
                        /\ command'[d].answer = "stopped" =>
                              command'[d].target # Nobody /\ gateway'[command'[d].target] = "gone"
      BY DEF TargetsExist
    <3>1. /\ command'[d].target = command[d].target /\ command[d].target \in Commands \cup {Nobody}
          /\ d # c => command'[d] = command[d]
      BY <1>1, <2>3, ProcessFields DEF Does
    <3>2. command[d].target # Nobody => command[d].target # c /\ gateway'[command[d].target] # "none"
      BY <1>2, <2>2, <3>1 DEF ProcessInv, TargetsExist
    <3>3. CASE d = c
      BY <2>3, <3>1, <3>2, <3>3 DEF Does
    <3>4. CASE d # c
      BY <2>2, <3>1, <3>2, <3>4 DEF ProcessInv, TargetsExist
    <3> QED
      BY <3>3, <3>4
  <2>8. LaunchedOnce'
    BY <2>2, <2>3 DEF ProcessInv, LaunchedOnce, Does
  <2>9. ASSUME NEW g \in Commands \ crowded', Alive(g)' PROVE g = c /\ Living = {} /\ Busy = {c}
    <3>1. g # c => Alive(g)
      BY <2>2, <2>9 DEF Alive
    <3> QED
      BY <2>1, <2>9, <3>1 DEF Living
  <2>10. Alone'
    <3> SUFFICES ASSUME NEW g \in Commands, NEW h \in Commands, g \notin crowded', Alive(g)', Alive(h)'
                 PROVE  g = h
      BY DEF Alone
    <3>1. g = c /\ Living = {}
      BY <2>9
    <3>2. h # c => Alive(h)
      BY <2>2 DEF Alive
    <3> QED
      BY <3>1, <3>2 DEF Living
  <2>11. Calm'
    <3> SUFFICES ASSUME NEW g \in Commands \ crowded', Kind[g] = "start",
                        gateway'[g] \in Serving \cup {"forked", "writing"}
                 PROVE  gateway'[g] = "forked" /\ Busy' = {}
      BY DEF Calm, Serving
    <3>1. Alive(g)'
      BY DEF Alive, Serving, Before
    <3>2. g = c /\ Busy = {c}
      BY <2>9, <3>1
    <3> QED
      BY <2>2, <2>3, <3>2 DEF Busy, Does
  <2> QED
    BY <2>5, <2>6, <2>7, <2>8, <2>10, <2>11 DEF ProcessInv
<1> QED
  BY <1>3, <1>4

LEMMA ProcessStep ==
    ASSUME ProcessAssumptions, ProcessInv, [ProcessNext]_processVars
    PROVE  ProcessInv'
<1>1. CASE ProcessNext
  <2>1. PICK c \in Commands :
          \/ Begin(c) \/ Proceed(c)
          \/ OpenFile(c) \/ WritePid(c) \/ Listens(c) \/ Spawns(c) \/ Ready(c) \/ StartFails(c)
          \/ Interrupted(c) \/ Drained(c) \/ AdaptersStopped(c) \/ Closed(c) \/ Leaves(c) \/ Crashes(c)
    BY <1>1 DEF ProcessNext
  <2>2. CASE Begin(c)
    BY <2>2, BeginStep
  <2>3. CASE Proceed(c)
    BY <2>3, CheckStep, FileStep, ReadStep, SignalStep, WaitedStep, StoppedStep, LaunchStep DEF Proceed
  <2> QED
    BY <2>1, <2>2, <2>3, GatewayStep
<1>2. CASE UNCHANGED processVars
  <2>1. ProcessBase'
    BY <1>2 DEF processVars, ProcessInv, ProcessBase, ProcessTypeOK
  <2>2. FilesSound' /\ TargetsExist' /\ LaunchedOnce' /\ AdaptersHeld'
    BY <1>2 DEF processVars, ProcessInv, FilesSound, TargetsExist, LaunchedOnce, AdaptersHeld
  <2>3. Alone' /\ Calm'
    BY <1>2 DEF processVars, ProcessInv, Alone, Calm, Alive, Busy
  <2> QED
    BY <2>1, <2>2, <2>3 DEF ProcessInv
<1> QED
  BY <1>1, <1>2

\* The PID file, the commands and the gateways stay within their types.
THEOREM ProcessTypeCorrect ==
    ASSUME ProcessAssumptions
    PROVE  ProcessSpec => []ProcessTypeOK
<1>1. ProcessInv => ProcessTypeOK
  BY DEF ProcessInv, ProcessBase
<1>2. ProcessSpec => []ProcessInv
  BY ProcessStarts, ProcessStep, PTL DEF ProcessSpec
<1> QED
  BY <1>1, <1>2, PTL

\* A command that says "stopped" has left no process; a daemon that nothing
\* overlapped while it started is found by its file for as long as it serves; and
\* adapters outlive their gateway only when it was ended abruptly: for any
\* commands, gateways and crashes.
THEOREM ProcessIsSafe ==
    ASSUME ProcessAssumptions
    PROVE  ProcessSpec => []ProcessSafe
<1>1. ProcessInv => ProcessSafe
  <2> SUFFICES ASSUME ProcessInv PROVE ProcessSafe
    OBVIOUS
  <2>1. StoppedIsGone
    BY ServingAlive DEF ProcessInv, TargetsExist, StoppedIsGone
  <2>2. UncontestedIsListed
    BY DEF ProcessInv, Calm, Serving, UncontestedIsListed
  <2>3. OrphansAreExplained
    BY DEF ProcessInv, AdaptersHeld, OrphansAreExplained
  <2> QED
    BY <2>1, <2>2, <2>3 DEF ProcessSafe
<1>2. ProcessSpec => []ProcessInv
  BY ProcessStarts, ProcessStep, PTL DEF ProcessSpec
<1> QED
  BY <1>1, <1>2, PTL
=============================================================================
