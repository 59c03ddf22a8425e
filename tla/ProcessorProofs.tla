--------------------------- MODULE ProcessorProofs ---------------------------
(***************************************************************************)
(* What the message processor keeps.                                       *)
(*                                                                         *)
(* Every turn of the tool loop, whatever the model answers and however     *)
(* many turns share the guard: calls and results match, a tool stuck on    *)
(* one result is given up, and a turn uses up a fixed budget.              *)
(*                                                                         *)
(* The sessions of the conversations, for any number of requests, users    *)
(* and channels and any order of their calls to the database: one is       *)
(* active per context and project, unless two lookups of it overlapped.    *)
(*                                                                         *)
(* The connection to a remote MCP server, which the tools of a turn call,  *)
(* for any number of tasks that call, connect, disconnect and authorize:   *)
(* sessions are owned, attempts are real, and grants succeed.              *)
(***************************************************************************)
EXTENDS ToolLoop, Conversations, RemoteServer, FiniteSetTheorems, SequenceTheorems, TLAPS

----------------------------------------------------------------------------
(* Ends of sequences *)

LEMMA LastOfProperties ==
    ASSUME NEW S, NEW s \in Seq(S), NEW n \in Nat
    PROVE  /\ LastOf(s, n) \in Seq(S)
           /\ Len(LastOf(s, n)) = IF Len(s) > n THEN n ELSE Len(s)
           /\ \A i \in 1 .. Len(LastOf(s, n)) :
                 LastOf(s, n)[i] = s[i + (Len(s) - Len(LastOf(s, n)))]
<1>1. CASE Len(s) > n
  <2> DEFINE m == Len(s) - n + 1
  <2>1. LastOf(s, n) = SubSeq(s, m, Len(s))
    BY <1>1 DEF LastOf
  <2>2. m \in 1 .. Len(s) + 1 /\ Len(s) \in 0 .. Len(s)
    BY <1>1
  <2>3. /\ SubSeq(s, m, Len(s)) \in Seq(S)
        /\ Len(SubSeq(s, m, Len(s))) = n
        /\ \A i \in 1 .. n : SubSeq(s, m, Len(s))[i] = s[m + i - 1]
    BY <2>2
  <2> QED
    BY <1>1, <2>1, <2>3
<1>2. CASE ~(Len(s) > n)
  BY <1>2 DEF LastOf
<1> QED
  BY <1>1, <1>2

\* The last n places of s hold one value.
SameAtEnd(s, n) == \A i, j \in (Len(s) - n + 1) .. Len(s) : s[i] = s[j]

LEMMA SameLast ==
    ASSUME NEW S, NEW s \in Seq(S), NEW n \in Nat, n <= Len(s)
    PROVE  AllSame(LastOf(s, n)) <=> SameAtEnd(s, n)
<1> DEFINE r == LastOf(s, n)
           d == Len(s) - n
<1>1. r \in Seq(S) /\ Len(r) = n /\ \A i \in 1 .. n : r[i] = s[i + d]
  BY LastOfProperties
<1> HIDE DEF r
<1>2. DOMAIN r = 1 .. n
  BY <1>1
<1>3. ASSUME AllSame(r), NEW i \in (d + 1) .. Len(s), NEW j \in (d + 1) .. Len(s)
      PROVE  s[i] = s[j]
  <2>1. i - d \in 1 .. n /\ j - d \in 1 .. n /\ (i - d) + d = i /\ (j - d) + d = j
    OBVIOUS
  <2>2. r[i - d] = r[j - d]
    BY <1>2, <1>3, <2>1 DEF AllSame
  <2>3. r[i - d] = s[i] /\ r[j - d] = s[j]
    BY <1>1, <2>1
  <2> QED
    BY <2>2, <2>3
<1>4. ASSUME SameAtEnd(s, n), NEW i \in 1 .. n, NEW j \in 1 .. n
      PROVE  r[i] = r[j]
  <2>1. i + d \in (d + 1) .. Len(s) /\ j + d \in (d + 1) .. Len(s)
    OBVIOUS
  <2> QED
    BY <1>1, <1>4, <2>1 DEF SameAtEnd
<1> QED
  BY <1>2, <1>3, <1>4 DEF r, AllSame, SameAtEnd

\* If the end of a history agrees after one more output, and the older ones that
\* are too many were forgotten, it agreed before.
LEMMA SameBefore ==
    ASSUME NEW S, NEW s \in Seq(S), NEW o \in S, NEW kept \in Nat, NEW n \in Nat \ {0},
           n <= Len(LastOf(Append(s, o), kept)),
           SameAtEnd(LastOf(Append(s, o), kept), n)
    PROVE  n - 1 <= Len(s) /\ SameAtEnd(s, n - 1)
<1> DEFINE a == Append(s, o)
           r == LastOf(a, kept)
           d == Len(a) - Len(r)
<1>1. a \in Seq(S) /\ Len(a) = Len(s) + 1 /\ \A i \in 1 .. Len(s) : a[i] = s[i]
  OBVIOUS
<1>2. /\ r \in Seq(S)
      /\ Len(r) = IF Len(a) > kept THEN kept ELSE Len(a)
      /\ \A i \in 1 .. Len(r) : r[i] = a[i + d]
  BY <1>1, LastOfProperties
<1>3. n <= Len(r) /\ SameAtEnd(r, n)
  OBVIOUS
<1> HIDE DEF a, r
<1>4. Len(s) \in Nat /\ Len(r) \in Nat /\ Len(r) <= Len(a) /\ n - 1 <= Len(s)
  BY <1>1, <1>2, <1>3
<1>5. ASSUME NEW i \in (Len(s) - (n - 1) + 1) .. Len(s), NEW j \in (Len(s) - (n - 1) + 1) .. Len(s)
      PROVE  s[i] = s[j]
  <2>1. /\ i - d \in (Len(r) - n + 1) .. Len(r) /\ j - d \in (Len(r) - n + 1) .. Len(r)
        /\ i - d \in 1 .. Len(r) /\ j - d \in 1 .. Len(r)
        /\ (i - d) + d = i /\ (j - d) + d = j
        /\ i \in 1 .. Len(s) /\ j \in 1 .. Len(s)
    BY <1>1, <1>3, <1>4, SMTT(30)
  <2>2. r[i - d] = r[j - d]
    BY <1>3, <2>1 DEF SameAtEnd
  <2>3. r[i - d] = a[i] /\ r[j - d] = a[j]
    BY <1>2, <2>1
  <2> QED
    BY <1>1, <2>1, <2>2, <2>3
<1> QED
  BY <1>4, <1>5 DEF SameAtEnd

----------------------------------------------------------------------------
(* One turn *)

Turn == [stage : Stages, iteration : 0 .. MaxToolIterations - 1,
         attempt : 0 .. MaxRetries - 1, continues : 0 .. AutoContinueMax,
         pending : Seq(Tools), owed : 0 .. MaxBatch,
         stopped : BOOLEAN, unanswered : BOOLEAN]

\* The calls still to be run are among those that lack a result, and are all of
\* them unless the guard stopped the turn.
Owes(r) ==
    /\ Len(r.pending) <= r.owed
    /\ ~r.stopped => r.owed = Len(r.pending)
    /\ r.stage = "executing" => r.pending # <<>>
    /\ r.unanswered => r.stopped
    /\ r.stage = "idle" => r = Blank("idle")

\* Every turn's record is a turn's, and owes what it should.
TurnsInv == turn \in [Turns -> Turn] /\ \A t \in Turns : Owes(turn[t])

\* A step at r that leads to q: it ends the turn or uses up part of its budget.
Advances(r, q) ==
    /\ q \in Turn /\ Owes(q)
    /\ r.stage \notin Ended
    /\ q.stage \in Ended \/ LessLeft(q, r)

LEMMA Constants ==
    /\ MaxBatch \in Nat /\ MaxToolIterations \in Nat /\ MaxToolIterations > 0
    /\ AutoContinueMax \in Nat /\ MaxRetries \in Nat /\ MaxRetries > 0
    /\ PollNoProgressThreshold \in Nat /\ PollNoProgressThreshold > 0
    /\ WindowSize \in Nat /\ KeptResults \in Nat /\ IsFiniteSet(Turns)
BY LoopConstants

LEMMA BlankTurn ==
    ASSUME NEW s \in Stages
    PROVE  /\ Blank(s) \in Turn /\ Blank(s).stage = s /\ Blank(s).pending = <<>>
           /\ s # "executing" => Owes(Blank(s))
<1>1. 0 \in 0 .. MaxToolIterations - 1 /\ 0 \in 0 .. MaxRetries - 1
      /\ 0 \in 0 .. AutoContinueMax /\ 0 \in 0 .. MaxBatch /\ <<>> \in Seq(Tools)
  BY Constants
<1>2. Blank(s) \in Turn
  BY <1>1 DEF Blank, Turn
<1>3. /\ Blank(s).stage = s /\ Blank(s).pending = <<>> /\ Blank(s).owed = 0
      /\ Blank(s).stopped = FALSE /\ Blank(s).unanswered = FALSE
  BY DEF Blank
<1>4. s # "executing" => Owes(Blank(s))
  BY <1>3 DEF Owes
<1> QED
  BY <1>2, <1>3, <1>4

LEMMA Ends ==
    ASSUME NEW t \in Turns, NEW s \in Ended, TurnsInv, End(t, s), turn[t].stage \notin Ended
    PROVE  turn' = [turn EXCEPT ![t] = turn'[t]] /\ Advances(turn[t], turn'[t])
<1>1. turn' = [turn EXCEPT ![t] = Blank(s)] /\ turn'[t] = Blank(s)
  BY DEF TurnsInv, End
<1>2. s \in Stages /\ s # "executing"
  BY DEF Ended, Stages
<1> QED
  BY <1>1, <1>2, BlankTurn DEF Advances

LEMMA Asks ==
    ASSUME NEW t \in Turns, TurnsInv, TextAsks(t), turn[t].stage \in {"calling", "answering"}
    PROVE  turn' = [turn EXCEPT ![t] = turn'[t]] /\ Advances(turn[t], turn'[t])
<1> DEFINE r == turn[t]
           q == [r EXCEPT !.stage = "calling", !.iteration = 0, !.attempt = 0,
                          !.continues = @ + 1]
<1>1. r \in Turn /\ Owes(r) /\ r.continues < AutoContinueMax
  BY DEF TurnsInv, TextAsks, MayContinue
<1>2. turn'[t] = q /\ turn' = [turn EXCEPT ![t] = turn'[t]]
  <2>1. [Calling(r, 0) EXCEPT !.continues = @ + 1] = q
    BY <1>1 DEF Calling, Turn
  <2>2. turn' = [turn EXCEPT ![t] = [Calling(r, 0) EXCEPT !.continues = @ + 1]]
    BY DEF TextAsks
  <2>3. turn' = [turn EXCEPT ![t] = q]
    BY <2>1, <2>2
  <2> HIDE DEF q
  <2> QED
    BY <2>3 DEF TurnsInv
<1> HIDE DEF r
<1>3. /\ q.stage = "calling" /\ q.iteration = 0 /\ q.attempt = 0
      /\ q.continues = r.continues + 1 /\ q.pending = r.pending /\ q.owed = r.owed
      /\ q.stopped = r.stopped /\ q.unanswered = r.unanswered
  BY <1>1 DEF Turn
<1>4. q \in Turn
  <2>1. /\ "calling" \in Stages /\ 0 \in 0 .. MaxToolIterations - 1
        /\ 0 \in 0 .. MaxRetries - 1
    BY Constants DEF Stages
  <2>2. r.continues + 1 \in 0 .. AutoContinueMax
    BY <1>1, Constants DEF Turn
  <2> QED
    BY <1>1, <2>1, <2>2 DEF Turn
<1> HIDE DEF q
<1>5. Owes(q)
  BY <1>1, <1>3 DEF Owes
<1>6. r.continues \in Nat /\ r.stage \notin Ended
  BY <1>1 DEF Turn, Ended, r
<1> QED
  BY <1>2, <1>3, <1>4, <1>5, <1>6 DEF Advances, LessLeft, r

LEMMA Writes ==
    ASSUME NEW t \in Turns, TurnsInv, NEW q, turn' = [turn EXCEPT ![t] = q],
           q \in Turn, Owes(q), turn[t].stage \notin Ended,
           q.stage \in Ended \/ LessLeft(q, turn[t])
    PROVE  turn' = [turn EXCEPT ![t] = turn'[t]] /\ Advances(turn[t], turn'[t])
<1>1. turn'[t] = q
  BY DEF TurnsInv
<1> QED
  BY <1>1 DEF Advances

\* Within an iteration, less left is fewer steps left.
LEMMA Fewer ==
    ASSUME NEW r \in Turn, NEW q \in Turn, q.continues = r.continues,
           q.iteration = r.iteration, StepsLeft(q) < StepsLeft(r)
    PROVE  LessLeft(q, r)
BY DEF LessLeft

\* The fields of a turn's record.
LEMMA Fields ==
    ASSUME NEW r \in Turn
    PROVE  /\ r.stage \in Stages /\ r.iteration \in Nat /\ r.iteration < MaxToolIterations
           /\ r.attempt \in Nat /\ r.attempt < MaxRetries
           /\ r.continues \in Nat /\ r.continues <= AutoContinueMax
           /\ r.pending \in Seq(Tools) /\ Len(r.pending) \in Nat
           /\ r.owed \in Nat /\ r.owed <= MaxBatch
           /\ r.stopped \in BOOLEAN /\ r.unanswered \in BOOLEAN
<1>1. /\ r.stage \in Stages /\ r.iteration \in 0 .. MaxToolIterations - 1
      /\ r.attempt \in 0 .. MaxRetries - 1 /\ r.continues \in 0 .. AutoContinueMax
      /\ r.pending \in Seq(Tools) /\ r.owed \in 0 .. MaxBatch
      /\ r.stopped \in BOOLEAN /\ r.unanswered \in BOOLEAN
  BY DEF Turn
<1> QED
  BY <1>1, Constants

LEMMA StepsAt ==
    ASSUME NEW r
    PROVE  /\ r.stage = "idle" => StepsLeft(r) = 2 * MaxBatch + 5 + MaxRetries
           /\ r.stage = "calling" => StepsLeft(r) = 2 * MaxBatch + 4 + (MaxRetries - r.attempt)
           /\ r.stage = "tools" => StepsLeft(r) = 2 * Len(r.pending) + 3
           /\ r.stage = "executing" => StepsLeft(r) = 2 * Len(r.pending) + 2
           /\ r.stage \in {"answering", "summarizing"} => StepsLeft(r) = 1
BY DEF StepsLeft

LEMMA Begins ==
    ASSUME NEW t \in Turns, TurnsInv, Begin(t)
    PROVE  turn' = [turn EXCEPT ![t] = turn'[t]] /\ Advances(turn[t], turn'[t])
<1> DEFINE r == turn[t]
           q == [r EXCEPT !.stage = "calling", !.iteration = 0, !.attempt = 0]
<1>1. r \in Turn /\ Owes(r) /\ r.stage = "idle"
  BY DEF TurnsInv, Begin
<1>2. /\ r.iteration = 0 /\ r.pending = <<>> /\ r.owed = 0 /\ r.continues = 0
      /\ r.stopped = FALSE /\ r.unanswered = FALSE
  BY <1>1 DEF Owes, Blank
<1>3. turn' = [turn EXCEPT ![t] = q]
  BY DEF Begin, Calling
<1>4. /\ q.stage = "calling" /\ q.iteration = 0 /\ q.attempt = 0 /\ q.continues = 0
      /\ q.pending = <<>> /\ q.owed = 0 /\ q.stopped = FALSE /\ q.unanswered = FALSE
  BY <1>1, <1>2 DEF Turn
<1>5. q \in Turn
  <2>1. /\ "calling" \in Stages /\ 0 \in 0 .. MaxToolIterations - 1
        /\ 0 \in 0 .. MaxRetries - 1
    BY Constants DEF Stages
  <2> QED
    BY <1>1, <2>1 DEF Turn
<1> HIDE DEF q
<1>6. Owes(q)
  BY <1>4 DEF Owes
<1>7. StepsLeft(q) < StepsLeft(r)
  BY <1>1, <1>4, Constants DEF StepsLeft
<1>8. LessLeft(q, r) /\ r.stage \notin Ended
  BY <1>1, <1>2, <1>4, <1>5, <1>7, Fewer DEF Ended
<1> QED
  BY <1>3, <1>5, <1>6, <1>8, Writes

LEMMA CallsTools ==
    ASSUME NEW t \in Turns, TurnsInv, NEW batch \in Batches, LlmCallsTools(t, batch)
    PROVE  turn' = [turn EXCEPT ![t] = turn'[t]] /\ Advances(turn[t], turn'[t])
<1> DEFINE r == turn[t]
           q == [r EXCEPT !.stage = "tools", !.attempt = 0, !.pending = batch,
                          !.owed = Len(batch)]
<1>1. r \in Turn /\ Owes(r) /\ r.stage = "calling"
  BY DEF TurnsInv, LlmCallsTools
<1>2. batch \in Seq(Tools) /\ Len(batch) \in 1 .. MaxBatch
  <2>1. PICK n \in 1 .. MaxBatch : batch \in [1 .. n -> Tools]
    BY DEF Batches
  <2>2. n \in Nat
    BY Constants
  <2>3. batch \in Seq(Tools) /\ Len(batch) = n
    BY <2>1, <2>2
  <2> QED
    BY <2>3
<1>3. turn' = [turn EXCEPT ![t] = q]
  BY DEF LlmCallsTools
<1>4. /\ q.stage = "tools" /\ q.pending = batch /\ q.owed = Len(batch)
      /\ q.iteration = r.iteration /\ q.continues = r.continues
      /\ q.stopped = r.stopped /\ q.unanswered = r.unanswered
  BY <1>1 DEF Turn
<1>5. q \in Turn
  <2>1. "tools" \in Stages /\ 0 \in 0 .. MaxRetries - 1 /\ Len(batch) \in 0 .. MaxBatch
    BY <1>2, Constants DEF Stages
  <2> QED
    BY <1>1, <1>2, <2>1 DEF Turn
<1> HIDE DEF q
<1>6. Owes(q)
  BY <1>1, <1>2, <1>4 DEF Owes
<1>7. StepsLeft(q) < StepsLeft(r)
  <2>1. /\ StepsLeft(r) = 2 * MaxBatch + 4 + (MaxRetries - r.attempt)
        /\ StepsLeft(q) = 2 * Len(batch) + 3
    BY <1>1, <1>4, StepsAt
  <2>2. r.attempt \in Nat /\ r.attempt < MaxRetries
    BY <1>1, Fields
  <2>3. Len(batch) \in Nat /\ Len(batch) <= MaxBatch /\ MaxBatch \in Nat /\ MaxRetries \in Nat
    BY <1>2, Constants
  <2> QED
    BY <2>1, <2>2, <2>3
<1>8. LessLeft(q, r) /\ r.stage \notin Ended
  BY <1>1, <1>4, <1>5, <1>7, Fewer DEF Ended
<1> QED
  BY <1>3, <1>5, <1>6, <1>8, Writes

LEMMA Answers ==
    ASSUME NEW t \in Turns, TurnsInv, LlmAnswers(t) \/ MainLlmAnswers(t)
    PROVE  turn' = [turn EXCEPT ![t] = turn'[t]] /\ Advances(turn[t], turn'[t])
<1> DEFINE r == turn[t]
           q == [r EXCEPT !.stage = "answering"]
<1>1. r \in Turn /\ Owes(r) /\ r.stage \in {"calling", "answering"} /\ r.stage \notin Ended
  BY DEF TurnsInv, LlmAnswers, MainLlmAnswers, Ended
<1>2. CASE TextEnds(t)
  BY <1>1, <1>2, Ends DEF TextEnds, Ended
<1>3. CASE TextAsks(t)
  BY <1>1, <1>3, Asks
<1>4. CASE r.stage = "calling" /\ Goto(t, "answering")
  <2>1. turn' = [turn EXCEPT ![t] = q]
    BY <1>4 DEF Goto
  <2>2. /\ q.stage = "answering" /\ q.pending = r.pending /\ q.owed = r.owed
        /\ q.iteration = r.iteration /\ q.continues = r.continues
        /\ q.stopped = r.stopped /\ q.unanswered = r.unanswered
    BY <1>1 DEF Turn
  <2>3. q \in Turn
    BY <1>1 DEF Turn, Stages
  <2> HIDE DEF q
  <2>4. Owes(q)
    BY <1>1, <2>2 DEF Owes
  <2>5. StepsLeft(q) < StepsLeft(r)
    <3>1. /\ StepsLeft(r) = 2 * MaxBatch + 4 + (MaxRetries - r.attempt)
          /\ StepsLeft(q) = 1
      BY <1>4, <2>2, StepsAt
    <3>2. r.attempt \in Nat /\ r.attempt < MaxRetries
      BY <1>1, Fields
    <3> QED
      BY <3>1, <3>2, Constants
  <2>6. LessLeft(q, r)
    BY <1>1, <2>2, <2>3, <2>5, Fewer
  <2> QED
    BY <1>1, <2>1, <2>3, <2>4, <2>6, Writes
<1> QED
  BY <1>2, <1>3, <1>4 DEF LlmAnswers, MainLlmAnswers

LEMMA Fails ==
    ASSUME NEW t \in Turns, TurnsInv,
           MainLlmFails(t) \/ Summarizes(t) \/ LlmErrs(t) \/ LlmRefuses(t) \/ Cancel(t)
    PROVE  turn' = [turn EXCEPT ![t] = turn'[t]] /\ Advances(turn[t], turn'[t])
<1> DEFINE r == turn[t]
           q == [r EXCEPT !.attempt = @ + 1]
<1>1. r \in Turn /\ Owes(r) /\ r.stage \notin Ended
  BY DEF TurnsInv, MainLlmFails, Summarizes, LlmErrs, LlmRefuses, Cancel, Ended
<1>2. CASE \E s \in Ended : End(t, s)
  BY <1>1, <1>2, Ends
<1>3. CASE /\ r.stage = "calling" /\ r.attempt < MaxRetries - 1
           /\ turn' = [turn EXCEPT ![t].attempt = @ + 1]
  <2>1. turn' = [turn EXCEPT ![t] = q]
    BY <1>3
  <2>2. /\ q.stage = "calling" /\ q.attempt = r.attempt + 1
        /\ q.pending = r.pending /\ q.owed = r.owed
        /\ q.iteration = r.iteration /\ q.continues = r.continues
        /\ q.stopped = r.stopped /\ q.unanswered = r.unanswered
    BY <1>1, <1>3 DEF Turn
  <2>3. q \in Turn
    <3>1. r.attempt + 1 \in 0 .. MaxRetries - 1
      BY <1>1, <1>3, Fields, Constants
    <3> QED
      BY <1>1, <3>1 DEF Turn
  <2> HIDE DEF q
  <2>4. Owes(q)
    BY <1>1, <2>2 DEF Owes
  <2>5. StepsLeft(q) < StepsLeft(r)
    <3>1. /\ StepsLeft(r) = 2 * MaxBatch + 4 + (MaxRetries - r.attempt)
          /\ StepsLeft(q) = 2 * MaxBatch + 4 + (MaxRetries - (r.attempt + 1))
      BY <1>3, <2>2, StepsAt
    <3>2. r.attempt \in Nat
      BY <1>1, Fields
    <3> QED
      BY <3>1, <3>2, Constants
  <2>6. LessLeft(q, r)
    BY <1>1, <2>2, <2>3, <2>5, Fewer
  <2> QED
    BY <1>1, <2>1, <2>3, <2>4, <2>6, Writes
<1> QED
  BY <1>2, <1>3 DEF MainLlmFails, Summarizes, LlmErrs, LlmRefuses, Cancel, Ended

LEMMA Runs ==
    ASSUME NEW t \in Turns, TurnsInv, RunTool(t)
    PROVE  /\ turn' = [turn EXCEPT ![t] = turn'[t]] /\ Advances(turn[t], turn'[t])
           /\ turn'[t].stage = "executing" /\ turn'[t].pending = turn[t].pending
<1> DEFINE r == turn[t]
           q == [r EXCEPT !.stage = "executing"]
<1>1. r \in Turn /\ Owes(r) /\ r.stage = "tools" /\ r.pending # <<>> /\ r.stage \notin Ended
  BY DEF TurnsInv, RunTool, Ended
<1>2. turn' = [turn EXCEPT ![t] = q]
  BY DEF RunTool
<1>3. /\ q.stage = "executing" /\ q.pending = r.pending /\ q.owed = r.owed
      /\ q.iteration = r.iteration /\ q.continues = r.continues
      /\ q.stopped = r.stopped /\ q.unanswered = r.unanswered
  BY <1>1 DEF Turn
<1>4. q \in Turn
  BY <1>1 DEF Turn, Stages
<1>5. turn'[t] = q
  BY <1>2 DEF TurnsInv
<1> HIDE DEF q
<1>6. Owes(q)
  BY <1>1, <1>3 DEF Owes
<1>7. StepsLeft(q) < StepsLeft(r)
  BY <1>1, <1>3, Fields, StepsAt
<1>8. LessLeft(q, r)
  BY <1>1, <1>3, <1>4, <1>7, Fewer
<1> QED
  BY <1>1, <1>2, <1>3, <1>4, <1>5, <1>6, <1>8, Writes

LEMMA StopsAtGuard ==
    ASSUME NEW t \in Turns, TurnsInv, StopTool(t)
    PROVE  turn' = [turn EXCEPT ![t] = turn'[t]] /\ Advances(turn[t], turn'[t])
<1> DEFINE r == turn[t]
           q == [r EXCEPT !.pending = <<>>, !.owed = @ - 1, !.stopped = TRUE]
<1>1. r \in Turn /\ Owes(r) /\ r.stage = "tools" /\ r.pending # <<>> /\ r.stage \notin Ended
  BY DEF TurnsInv, StopTool, Ended
<1>2. turn' = [turn EXCEPT ![t] = q]
  BY DEF StopTool
<1>3. /\ q.stage = "tools" /\ q.pending = <<>> /\ q.owed = r.owed - 1
      /\ q.iteration = r.iteration /\ q.continues = r.continues
      /\ q.stopped = TRUE
  BY <1>1 DEF Turn
<1>4. r.pending \in Seq(Tools) /\ Len(r.pending) > 0 /\ r.owed - 1 \in 0 .. MaxBatch
  <2>1. r.pending \in Seq(Tools) /\ Len(r.pending) > 0
    BY <1>1, Fields
  <2> QED
    BY <1>1, <2>1, Fields, Constants, SMTT(30) DEF Owes
<1>5. q \in Turn
  <2>1. <<>> \in Seq(Tools)
    OBVIOUS
  <2> QED
    BY <1>1, <1>4, <2>1 DEF Turn
<1> HIDE DEF q
<1>6. Owes(q)
  BY <1>1, <1>3, <1>4 DEF Owes
<1>7. StepsLeft(q) < StepsLeft(r)
  BY <1>1, <1>3, <1>4, StepsAt
<1>8. LessLeft(q, r)
  BY <1>1, <1>3, <1>5, <1>7, Fewer
<1> QED
  BY <1>1, <1>2, <1>5, <1>6, <1>8, Writes

LEMMA Returns ==
    ASSUME NEW t \in Turns, TurnsInv, NEW o \in Outputs, ToolReturns(t, o)
    PROVE  /\ turn' = [turn EXCEPT ![t] = turn'[t]] /\ Advances(turn[t], turn'[t])
           /\ turn'[t].stage = "tools"
<1> DEFINE r == turn[t]
           q == [r EXCEPT !.stage = "tools", !.pending = Tail(@), !.owed = @ - 1]
<1>1. r \in Turn /\ Owes(r) /\ r.stage = "executing" /\ r.pending # <<>> /\ r.stage \notin Ended
  BY DEF TurnsInv, ToolReturns, Ended, Owes
<1>2. turn' = [turn EXCEPT ![t] = q]
  BY DEF ToolReturns, Rest
<1>3. /\ q.stage = "tools" /\ q.pending = Tail(r.pending) /\ q.owed = r.owed - 1
      /\ q.iteration = r.iteration /\ q.continues = r.continues
      /\ q.stopped = r.stopped /\ q.unanswered = r.unanswered
  BY <1>1 DEF Turn
<1>4. /\ r.pending \in Seq(Tools) /\ Len(r.pending) > 0 /\ r.owed - 1 \in 0 .. MaxBatch
      /\ Tail(r.pending) \in Seq(Tools) /\ Len(Tail(r.pending)) = Len(r.pending) - 1
  <2>1. /\ r.pending \in Seq(Tools) /\ Len(r.pending) > 0
        /\ Tail(r.pending) \in Seq(Tools) /\ Len(Tail(r.pending)) = Len(r.pending) - 1
    BY <1>1, Fields
  <2> QED
    BY <1>1, <2>1, Fields, Constants, SMTT(30) DEF Owes
<1>5. q \in Turn
  BY <1>1, <1>4 DEF Turn, Stages
<1>6. turn'[t] = q
  BY <1>2 DEF TurnsInv
<1> HIDE DEF q
<1>7. Owes(q)
  BY <1>1, <1>3, <1>4, Fields DEF Owes
<1>8. StepsLeft(q) < StepsLeft(r)
  <2>1. /\ StepsLeft(r) = 2 * Len(r.pending) + 2
        /\ StepsLeft(q) = 2 * Len(Tail(r.pending)) + 3
    BY <1>1, <1>3, StepsAt
  <2> QED
    BY <1>4, <2>1
<1>9. LessLeft(q, r)
  BY <1>1, <1>3, <1>5, <1>8, Fewer
<1> QED
  BY <1>1, <1>2, <1>3, <1>5, <1>7, <1>9, <1>6, Writes

LEMMA EndsBatch ==
    ASSUME NEW t \in Turns, TurnsInv, EndBatch(t)
    PROVE  turn' = [turn EXCEPT ![t] = turn'[t]] /\ Advances(turn[t], turn'[t])
<1> DEFINE r == turn[t]
           b == [r EXCEPT !.owed = 0, !.unanswered = @ \/ r.owed > 0]
           q == [b EXCEPT !.stage = "calling", !.iteration = r.iteration + 1, !.attempt = 0]
           z == [b EXCEPT !.stage = "summarizing"]
<1>1. r \in Turn /\ Owes(r) /\ r.stage = "tools" /\ r.pending = <<>> /\ r.stage \notin Ended
  BY DEF TurnsInv, EndBatch, Ended
<1>2. /\ b \in Turn /\ b.stage = "tools" /\ b.owed = 0 /\ b.pending = <<>>
      /\ b.iteration = r.iteration /\ b.continues = r.continues
      /\ b.stopped = r.stopped /\ b.unanswered = (r.unanswered \/ r.owed > 0)
  <2>1. 0 \in 0 .. MaxBatch
    BY Constants
  <2> QED
    BY <1>1, <2>1 DEF Turn
<1>3. turn' = [turn EXCEPT ![t] = IF r.iteration + 1 < MaxToolIterations THEN q ELSE z]
  BY <1>2 DEF EndBatch, NextIteration, Calling
<1> HIDE DEF b
<1>4. b.unanswered => b.stopped
  BY <1>1, <1>2, Fields DEF Owes
<1>5. CASE r.iteration + 1 < MaxToolIterations
  <2>1. /\ q.stage = "calling" /\ q.iteration = r.iteration + 1 /\ q.owed = 0
        /\ q.pending = <<>> /\ q.continues = r.continues
        /\ q.stopped = b.stopped /\ q.unanswered = b.unanswered
    BY <1>2 DEF Turn
  <2>2. q \in Turn
    <3>1. /\ "calling" \in Stages /\ 0 \in 0 .. MaxRetries - 1
          /\ r.iteration + 1 \in 0 .. MaxToolIterations - 1
      BY <1>1, <1>5, Fields, Constants DEF Stages
    <3> QED
      BY <1>2, <3>1 DEF Turn
  <2>3. turn' = [turn EXCEPT ![t] = q]
    BY <1>3, <1>5
  <2> HIDE DEF q
  <2>4. Owes(q)
    BY <1>4, <2>1 DEF Owes
  <2>5. LessLeft(q, r)
    BY <1>1, <2>1, Fields DEF LessLeft
  <2> QED
    BY <1>1, <2>2, <2>3, <2>4, <2>5, Writes
<1>6. CASE ~(r.iteration + 1 < MaxToolIterations)
  <2>1. /\ z.stage = "summarizing" /\ z.iteration = r.iteration /\ z.owed = 0
        /\ z.pending = <<>> /\ z.continues = r.continues
        /\ z.stopped = b.stopped /\ z.unanswered = b.unanswered
    BY <1>2 DEF Turn
  <2>2. z \in Turn
    BY <1>2 DEF Turn, Stages
  <2>3. turn' = [turn EXCEPT ![t] = z]
    BY <1>3, <1>6
  <2> HIDE DEF z
  <2>4. Owes(z)
    BY <1>4, <2>1 DEF Owes
  <2>5. StepsLeft(z) < StepsLeft(r)
    BY <1>1, <2>1, StepsAt
  <2>6. LessLeft(z, r)
    BY <1>1, <2>1, <2>2, <2>5, Fewer
  <2> QED
    BY <1>1, <2>2, <2>3, <2>4, <2>6, Writes
<1> QED
  BY <1>5, <1>6

\* Every step is one turn's, and advances it.
LEMMA TurnMoves ==
    ASSUME NEW t \in Turns, TurnsInv, Begin(t) \/ TurnStep(t)
    PROVE  turn' = [turn EXCEPT ![t] = turn'[t]] /\ Advances(turn[t], turn'[t])
BY Begins, CallsTools, Answers, Fails, Runs, StopsAtGuard, Returns, EndsBatch DEF TurnStep

----------------------------------------------------------------------------
(* The guard *)

\* What the guard keeps has its type: the last calls, and results of each tool.
GuardInv ==
    /\ window \in Seq(Tools) /\ Len(window) <= WindowSize
    /\ results \in [Tools -> Seq(Outputs)]

\* The turns in which call k runs.
Executing(k) == {t \in Turns : turn[t].stage = "executing" /\ Head(turn[t].pending) = k}

\* A tool whose last n results are one, where n reaches the threshold, was
\* called n - threshold + 1 times by turns the guard let in before; each call
\* that still runs may record one more.
PollInv ==
    \A k \in Tools, n \in Nat :
        /\ n >= PollNoProgressThreshold
        /\ n <= Len(results[k])
        /\ SameAtEnd(results[k], n)
        => n + Cardinality(Executing(k)) <= PollNoProgressThreshold - 1 + Cardinality(Turns)

LoopInv == TurnsInv /\ GuardInv /\ PollInv

LEMMA LoopInit == Init => LoopInv
<1> SUFFICES ASSUME Init PROVE LoopInv
  OBVIOUS
<1>1. Blank("idle") \in Turn /\ Owes(Blank("idle"))
  BY BlankTurn DEF Stages
<1>2. TurnsInv
  BY <1>1 DEF Init, TurnsInv
<1>3. <<>> \in Seq(Tools) /\ <<>> \in Seq(Outputs) /\ Len(<<>>) = 0
  OBVIOUS
<1>4. GuardInv
  BY <1>3, Constants DEF Init, GuardInv
<1>5. PollInv
  BY <1>3, Constants DEF Init, PollInv
<1> QED
  BY <1>2, <1>4, <1>5 DEF LoopInv

LEMMA SeenType ==
    ASSUME GuardInv, NEW k \in Tools
    PROVE  Seen(k) \in Seq(Tools) /\ Len(Seen(k)) <= WindowSize
<1>1. Append(window, k) \in Seq(Tools) /\ WindowSize \in Nat
  BY Constants DEF GuardInv
<1>2. /\ Seen(k) \in Seq(Tools)
      /\ Len(Seen(k)) = IF Len(Append(window, k)) > WindowSize THEN WindowSize
                        ELSE Len(Append(window, k))
  BY <1>1, LastOfProperties DEF Seen
<1>3. Len(Append(window, k)) \in Nat
  BY <1>1
<1> QED
  BY <1>1, <1>2, <1>3

\* The first pending call of a turn is a call.
LEMMA NextCall ==
    ASSUME TurnsInv, NEW t \in Turns, turn[t].pending # <<>>
    PROVE  Head(turn[t].pending) \in Tools
<1>1. turn[t].pending \in Seq(Tools)
  BY Fields DEF TurnsInv
<1> QED
  BY <1>1

LEMMA GuardStep ==
    ASSUME TurnsInv, GuardInv, Next
    PROVE  GuardInv'
<1> SUFFICES ASSUME NEW t \in Turns, Begin(t) \/ TurnStep(t) PROVE GuardInv'
  BY DEF Next
<1>1. CASE RunTool(t) \/ StopTool(t)
  <2>1. /\ Head(turn[t].pending) \in Tools
        /\ window' = Seen(Head(turn[t].pending)) /\ results' = results
    BY <1>1, NextCall DEF RunTool, StopTool
  <2> QED
    BY <2>1, SeenType DEF GuardInv
<1>2. ASSUME NEW o \in Outputs, ToolReturns(t, o) PROVE GuardInv'
  <2> DEFINE k == Head(turn[t].pending)
             s == LastOf(Append(results[k], o), KeptResults)
  <2>1. k \in Tools
    BY <1>2, NextCall DEF ToolReturns, TurnsInv, Owes
  <2>2. window' = window /\ results' = [results EXCEPT ![k] = s]
    BY <1>2 DEF ToolReturns
  <2>3. Append(results[k], o) \in Seq(Outputs)
    BY <2>1 DEF GuardInv
  <2>4. s \in Seq(Outputs)
    BY <2>3, LastOfProperties, Constants
  <2> HIDE DEF k, s
  <2> QED
    BY <2>1, <2>2, <2>4 DEF GuardInv
<1>3. CASE UNCHANGED <<window, results>>
  BY <1>3 DEF GuardInv
<1> QED
  BY <1>1, <1>2, <1>3 DEF TurnStep, Begin, LlmCallsTools, LlmAnswers, MainLlmAnswers,
     MainLlmFails, Summarizes, LlmErrs, LlmRefuses, EndBatch, Cancel, Guard

LEMMA ExecutingFinite ==
    ASSUME NEW k
    PROVE  /\ Executing(k) \subseteq Turns /\ IsFiniteSet(Executing(k))
           /\ Cardinality(Executing(k)) \in Nat /\ Cardinality(Turns) \in Nat
           /\ Cardinality(Executing(k)) <= Cardinality(Turns)
<1>1. Executing(k) \subseteq Turns
  BY DEF Executing
<1> QED
  BY <1>1, Constants, FS_Subset, FS_CardinalityType

\* If no result is added and no call joins those of k, what held of k holds.
LEMMA PollKept ==
    ASSUME NEW k \in Tools, NEW n \in Nat, PollInv,
           n >= PollNoProgressThreshold, n <= Len(results[k]), SameAtEnd(results[k], n),
           Executing(k)' \subseteq Executing(k)
    PROVE  n + Cardinality(Executing(k)') <= PollNoProgressThreshold - 1 + Cardinality(Turns)
<1>1. n + Cardinality(Executing(k)) <= PollNoProgressThreshold - 1 + Cardinality(Turns)
  BY DEF PollInv
<1>2. Cardinality(Executing(k)') <= Cardinality(Executing(k)) /\ Cardinality(Executing(k)') \in Nat
  BY ExecutingFinite, FS_Subset, FS_CardinalityType
<1> QED
  BY <1>1, <1>2, ExecutingFinite, Constants

\* The other actions neither run a tool nor record what one returned.
LEMMA Elsewhere ==
    ASSUME TurnsInv, NEW t \in Turns,
           \/ Begin(t) \/ \E batch \in Batches : LlmCallsTools(t, batch)
           \/ LlmAnswers(t) \/ MainLlmAnswers(t) \/ MainLlmFails(t) \/ Summarizes(t)
           \/ LlmErrs(t) \/ LlmRefuses(t) \/ StopTool(t) \/ EndBatch(t) \/ Cancel(t)
    PROVE  results' = results /\ turn'[t].stage # "executing"
<1>1. turn[t] \in Turn
  BY DEF TurnsInv
<1>2. \A s \in Ended : End(t, s) => turn'[t].stage # "executing"
  BY DEF TurnsInv, End, Blank, Ended
<1>3. TextAsks(t) => turn'[t].stage # "executing"
  <2>1. [Calling(turn[t], 0) EXCEPT !.continues = @ + 1].stage = "calling"
    BY <1>1 DEF Calling, Turn
  <2> QED
    BY <2>1 DEF TurnsInv, TextAsks
<1>4. Begin(t) \/ LlmErrs(t) => results' = results /\ turn'[t].stage # "executing"
  BY <1>1, <1>2 DEF Begin, LlmErrs, Calling, Guard, TurnsInv, Turn, Ended
<1>5. StopTool(t) => results' = results /\ turn'[t].stage # "executing"
  BY <1>1 DEF StopTool, TurnsInv, Turn
<1>6. ASSUME NEW batch \in Batches, LlmCallsTools(t, batch)
      PROVE  results' = results /\ turn'[t].stage # "executing"
  <2>1. turn'[t].stage = "tools"
    BY <1>1, <1>6 DEF LlmCallsTools, TurnsInv, Turn
  <2> QED
    BY <1>6, <2>1 DEF LlmCallsTools, Guard
<1>7. LlmAnswers(t) \/ MainLlmAnswers(t)
      => results' = results /\ turn'[t].stage # "executing"
  BY <1>1, <1>2, <1>3 DEF LlmAnswers, MainLlmAnswers, TextEnds, Goto, Guard, TurnsInv, Turn, Ended
<1>8. MainLlmFails(t) \/ Summarizes(t) \/ LlmRefuses(t) \/ Cancel(t)
      => results' = results /\ turn'[t].stage # "executing"
  BY <1>2 DEF MainLlmFails, Summarizes, LlmRefuses, Cancel, Guard, Ended
<1>9. EndBatch(t) => results' = results /\ turn'[t].stage # "executing"
  <2> SUFFICES ASSUME EndBatch(t) PROVE results' = results /\ turn'[t].stage # "executing"
    OBVIOUS
  <2> DEFINE b == [turn[t] EXCEPT !.owed = 0, !.unanswered = @ \/ turn[t].owed > 0]
             i == NextIteration(b.iteration)
  <2>1. turn' = [turn EXCEPT ![t] = IF i < MaxToolIterations THEN Calling(b, i)
                                    ELSE [b EXCEPT !.stage = "summarizing"]]
    BY DEF EndBatch
  <2>2. /\ Calling(b, i).stage = "calling"
        /\ [b EXCEPT !.stage = "summarizing"].stage = "summarizing"
    BY <1>1 DEF Calling, Turn
  <2> HIDE DEF b, i
  <2> QED
    BY <2>1, <2>2 DEF EndBatch, Guard, TurnsInv
<1> QED
  BY <1>4, <1>5, <1>7, <1>8, <1>9, <1>6

LEMMA PollStep ==
    ASSUME LoopInv, Next
    PROVE  PollInv'
<1> SUFFICES ASSUME NEW t \in Turns, Begin(t) \/ TurnStep(t),
                    NEW k \in Tools, NEW n \in Nat,
                    n >= PollNoProgressThreshold, n <= Len(results'[k]),
                    SameAtEnd(results'[k], n)
             PROVE  n + Cardinality(Executing(k)')
                      <= PollNoProgressThreshold - 1 + Cardinality(Turns)
  BY DEF Next, PollInv, SameAtEnd
<1>1. TurnsInv /\ GuardInv /\ PollInv
  BY DEF LoopInv
<1>2. turn' = [turn EXCEPT ![t] = turn'[t]]
  BY <1>1, TurnMoves
<1>3. \A u \in Turns : u # t => turn'[u] = turn[u]
  BY <1>1, <1>2 DEF TurnsInv
<1>4. ASSUME ~(turn'[t].stage = "executing" /\ Head(turn'[t].pending) = k)
      PROVE  Executing(k)' \subseteq Executing(k) /\ t \notin Executing(k)'
  BY <1>3, <1>4 DEF Executing
<1>5. CASE RunTool(t)
  <2>1. /\ turn'[t].pending = turn[t].pending /\ turn[t].pending # <<>>
        /\ results' = results /\ ~PollStuck(Head(turn[t].pending))
    BY <1>1, <1>5, Runs DEF RunTool, Stops
  <2>2. Head(turn[t].pending) # k
    <3> SUFFICES ASSUME Head(turn[t].pending) = k PROVE FALSE
      OBVIOUS
    <3>1. results[k] \in Seq(Outputs) /\ Len(results[k]) \in Nat
      BY <1>1 DEF GuardInv
    <3>2. PollNoProgressThreshold <= Len(results[k])
      BY <2>1, <3>1, Constants
    <3>3. SameAtEnd(results[k], PollNoProgressThreshold)
      <4>1. \A i \in (Len(results[k]) - PollNoProgressThreshold + 1) .. Len(results[k]) :
              i \in (Len(results[k]) - n + 1) .. Len(results[k])
        BY <2>1, <3>1, Constants
      <4> QED
        BY <2>1, <4>1 DEF SameAtEnd
    <3>4. PollStuck(k)
      BY <3>1, <3>2, <3>3, SameLast, Constants DEF PollStuck
    <3> QED
      BY <2>1, <3>4
  <2>3. Executing(k)' \subseteq Executing(k)
    BY <1>4, <2>1, <2>2
  <2> QED
    BY <1>1, <2>1, <2>3, PollKept
<1>6. ASSUME NEW o \in Outputs, ToolReturns(t, o)
      PROVE  n + Cardinality(Executing(k)')
               <= PollNoProgressThreshold - 1 + Cardinality(Turns)
  <2>1. turn'[t].stage = "tools" /\ turn[t].pending # <<>> /\ turn[t].stage = "executing"
    BY <1>1, <1>6, Returns DEF ToolReturns, TurnsInv, Owes
  <2>2. Executing(k)' \subseteq Executing(k) /\ t \notin Executing(k)'
    BY <1>4, <2>1
  <2>3. CASE Head(turn[t].pending) # k
    <3>1. results'[k] = results[k]
      BY <1>1, <1>6, <2>3 DEF ToolReturns, GuardInv
    <3> QED
      BY <1>1, <2>2, <3>1, PollKept
  <2>4. CASE Head(turn[t].pending) = k
    <3>1. results[k] \in Seq(Outputs) /\ Len(results[k]) \in Nat
      BY <1>1 DEF GuardInv
    <3>2. results'[k] = LastOf(Append(results[k], o), KeptResults)
      BY <1>1, <1>6, <2>4 DEF ToolReturns, GuardInv
    <3>3. n - 1 <= Len(results[k]) /\ SameAtEnd(results[k], n - 1)
      <4>1. n \in Nat \ {0} /\ KeptResults \in Nat
        BY Constants
      <4>2. /\ n <= Len(LastOf(Append(results[k], o), KeptResults))
            /\ SameAtEnd(LastOf(Append(results[k], o), KeptResults), n)
        BY <3>2
      <4> QED
        BY <3>1, <4>1, <4>2, SameBefore
    <3>4. t \in Executing(k)
      BY <2>1, <2>4 DEF Executing
    <3>5. /\ Cardinality(Executing(k)') <= Cardinality(Executing(k) \ {t})
          /\ Cardinality(Executing(k)') \in Nat
      <4>1. Executing(k)' \subseteq Executing(k) \ {t}
        BY <2>2
      <4>2. IsFiniteSet(Executing(k) \ {t})
        BY ExecutingFinite, FS_Subset
      <4> QED
        BY <4>1, <4>2, FS_Subset, FS_CardinalityType
    <3>6. Cardinality(Executing(k) \ {t}) = Cardinality(Executing(k)) - 1
      BY <3>4, ExecutingFinite, FS_RemoveElement
    <3>7. CASE n - 1 >= PollNoProgressThreshold
      <4>1. n - 1 + Cardinality(Executing(k))
              <= PollNoProgressThreshold - 1 + Cardinality(Turns)
        BY <1>1, <3>3, <3>7, Constants DEF PollInv
      <4> QED
        BY <3>5, <3>6, <4>1, ExecutingFinite, Constants
    <3>8. CASE n = PollNoProgressThreshold
      BY <3>5, <3>6, <3>8, ExecutingFinite, Constants
    <3> QED
      BY <3>7, <3>8, Constants
  <2> QED
    BY <2>3, <2>4
<1>7. CASE results' = results /\ turn'[t].stage # "executing"
  BY <1>1, <1>4, <1>7, PollKept
<1> QED
  BY <1>1, <1>5, <1>6, <1>7, Elsewhere DEF TurnStep

LEMMA LoopStep ==
    ASSUME LoopInv, [Next]_vars
    PROVE  LoopInv'
<1>1. CASE Next
  <2> SUFFICES ASSUME NEW t \in Turns, Begin(t) \/ TurnStep(t)
               PROVE  LoopInv'
    BY <1>1 DEF Next
  <2>1. turn' = [turn EXCEPT ![t] = turn'[t]] /\ Advances(turn[t], turn'[t])
    BY TurnMoves DEF LoopInv
  <2>2. TurnsInv'
    BY <2>1 DEF Advances, LoopInv, TurnsInv
  <2> QED
    BY <1>1, <2>2, GuardStep, PollStep DEF LoopInv
<1>2. CASE UNCHANGED vars
  BY <1>2 DEF vars, LoopInv, TurnsInv, GuardInv, PollInv, SameAtEnd, Executing
<1> QED
  BY <1>1, <1>2

LEMMA LoopCorrect == Spec => []LoopInv
<1> QED
  BY LoopInit, LoopStep, PTL DEF Spec

----------------------------------------------------------------------------
(* Theorems *)

\* Every variable keeps its type: no turn iterates, retries or continues beyond
\* its limits, and no call gets two results.
THEOREM LoopTypeCorrect == Spec => []TypeOK
<1>1. LoopInv => TypeOK
  BY DEF LoopInv, TurnsInv, GuardInv, TypeOK, Turn
<1> QED
  BY <1>1, LoopCorrect, PTL

\* However many turns share the guard, a tool stuck on one result is given up,
\* and only the guard's stop leaves a call without a result.
THEOREM LoopIsSafe == Spec => []LoopSafe
<1>1. LoopInv => PollingEnds
  <2> SUFFICES ASSUME LoopInv, NEW k \in Tools,
                      Len(results[k]) >= PollNoProgressThreshold + Cardinality(Turns),
                      AllSame(LastOf(results[k], PollNoProgressThreshold + Cardinality(Turns)))
               PROVE  FALSE
    BY DEF PollingEnds
  <2> DEFINE n == PollNoProgressThreshold + Cardinality(Turns)
  <2>1. Cardinality(Turns) \in Nat
    BY ExecutingFinite
  <2>2. /\ n \in Nat /\ n >= PollNoProgressThreshold
        /\ results[k] \in Seq(Outputs) /\ n <= Len(results[k])
    BY <2>1, Constants DEF LoopInv, GuardInv
  <2> HIDE DEF n
  <2>3. SameAtEnd(results[k], n)
    BY <2>2, SameLast DEF n
  <2>4. n + Cardinality(Executing(k)) <= PollNoProgressThreshold - 1 + Cardinality(Turns)
    BY <2>2, <2>3 DEF LoopInv, PollInv
  <2> QED
    BY <2>4, ExecutingFinite, Constants DEF n
<1>2. LoopInv => UnansweredOnlyByStop
  BY DEF LoopInv, TurnsInv, Owes, UnansweredOnlyByStop
<1> QED
  BY <1>1, <1>2, LoopCorrect, PTL DEF LoopSafe

\* Every step of a turn ends it or uses up part of its budget, so that no turn
\* goes on for ever.
THEOREM EveryTurnIsBounded == Spec => TurnsAreBounded
<1>1. ASSUME LoopInv, Next
      PROVE  \A t \in Turns : turn'[t] # turn[t] =>
               /\ turn[t].stage \notin Ended
               /\ turn'[t].stage \in Ended \/ LessLeft(turn'[t], turn[t])
  <2> SUFFICES ASSUME NEW u \in Turns, Begin(u) \/ TurnStep(u),
                      NEW t \in Turns, turn'[t] # turn[t]
               PROVE  /\ turn[t].stage \notin Ended
                      /\ turn'[t].stage \in Ended \/ LessLeft(turn'[t], turn[t])
    BY <1>1 DEF Next
  <2>1. turn' = [turn EXCEPT ![u] = turn'[u]] /\ Advances(turn[u], turn'[u])
    BY <1>1, TurnMoves DEF LoopInv
  <2>2. t = u
    BY <1>1, <2>1 DEF LoopInv, TurnsInv
  <2> QED
    BY <2>1, <2>2 DEF Advances
<1>2. LoopInv /\ [Next]_vars
      => [\A t \in Turns : turn'[t] # turn[t] =>
            /\ turn[t].stage \notin Ended
            /\ turn'[t].stage \in Ended \/ LessLeft(turn'[t], turn[t])]_vars
  BY <1>1
<1> QED
  BY <1>2, LoopCorrect, PTL DEF Spec, TurnsAreBounded

----------------------------------------------------------------------------
(* The sessions of the conversations                                       *)

Contexts == {<<"app">>} \cup {<<"dm", u>> : u \in Users} \cup {<<"channel", c>> : c \in Channels}

Steps == Lookup \cup {"over", "history", "llm", "store", "storeUser", "storeAssistant", "send",
                      "background"}

SessionRows == [user : Users, context : Contexts, project : Nat,
                state : {"active", "archived", "reopened", "deleted"}]
Outcomes == {"waiting", "running", "answered", "failed", "cancelled", "closed"}

\* The types the lookups of a session rest on.
LookupTypes ==
    /\ user \in [Requests -> Users] /\ place \in [Requests -> Places]
    /\ sessions \in Seq(SessionRows)
    /\ status \in [Requests -> Outcomes]
    /\ at \in [Requests -> Steps]
    /\ projects \in [Users -> Nat] /\ project \in [Requests -> Nat]
    /\ session = [r \in Requests |-> session[r]]

\* An active session of the context and the project r looks in.
Rival(r, s) ==
    /\ sessions[s].state = "active" /\ sessions[s].user = user[r]
    /\ sessions[s].context = Context(r) /\ sessions[s].project = project[r]

\* Two active sessions of one user, context and project.
Twins(s, t) ==
    /\ s < t /\ sessions[s].state = "active" /\ sessions[t].state = "active"
    /\ sessions[s].user = sessions[t].user /\ sessions[s].context = sessions[t].context
    /\ sessions[s].project = sessions[t].project

\* The lookup of a gateway request ended with this session.
Owns(q, s) == ~IsApi(q) /\ session[q] = s /\ at[q] \notin Lookup /\ status[q] # "waiting"

\* Two lookups of a context at once have met.  What a lookup is about to create is
\* there already only where one that met it created it.
LookupsSound ==
    /\ \A r \in Requests : at[r] \in Lookup => status[r] # "waiting"
    /\ \A r, q \in Requests :
         /\ r # q /\ at[r] \in Lookup /\ at[q] \in Lookup
         /\ user[r] = user[q] /\ Context(r) = Context(q)
         => {q, r} \in met /\ ~IsApi(r)
    /\ \A r \in Requests : at[r] = "create" =>
         \A s \in DOMAIN sessions : Rival(r, s) =>
           \E q \in Requests : {q, r} \in met /\ ~IsApi(r) /\ Owns(q, s)
    /\ \A s, t \in DOMAIN sessions : Twins(s, t) =>
         \E q, r \in Requests : {q, r} \in met /\ Owns(q, s) /\ Owns(r, t)

ConversationsInv == LookupTypes /\ LookupsSound

LEMMA ContextType ==
    ASSUME LookupTypes, NEW r \in Requests PROVE Context(r) \in Contexts
BY DEF LookupTypes, Context, Contexts, Places

\* A context tells whether it is the API's.
LEMMA ContextPlace ==
    ASSUME NEW r \in Requests, NEW q \in Requests, Context(r) = Context(q)
    PROVE  IsApi(r) <=> IsApi(q)
<1>1. \A u, c : /\ <<"dm", u>> # <<"channel", c>> /\ <<"app">> # <<"dm", u>>
                /\ <<"app">> # <<"channel", c>>
  OBVIOUS
<1> QED
  BY <1>1 DEF Context, IsApi

LEMMA LookupsStart ==
    ASSUME ConversationsInit PROVE ConversationsInv
<1>1. LookupTypes
  BY DEF ConversationsInit, LookupTypes, Steps, Outcomes
<1>2. DOMAIN sessions = {} /\ \A r \in Requests : at[r] = "over"
  BY DEF ConversationsInit
<1>3. LookupsSound
  BY <1>2 DEF LookupsSound, Lookup
<1> QED
  BY <1>1, <1>3 DEF ConversationsInv

\* A step that neither starts a request nor creates a session.
LEMMA StepKeeps ==
    ASSUME ConversationsInv, LookupTypes', UNCHANGED <<user, place, met>>,
           \A q \in Requests, s \in Nat : Owns(q, s) => Owns(q, s)',
           \A s \in DOMAIN sessions' : sessions'[s].state = "active" =>
             s \in DOMAIN sessions /\ sessions'[s] = sessions[s],
           \A q \in Requests : at'[q] \in Lookup => at[q] \in Lookup /\ status'[q] # "waiting",
           \A q \in Requests : at'[q] = "create" =>
             \/ at[q] = "create" /\ project'[q] = project[q]
             \/ \A s \in DOMAIN sessions' : ~Rival(q, s)'
    PROVE  ConversationsInv'
<1>0. LookupTypes /\ LookupsSound
  BY DEF ConversationsInv
<1>1. \A q \in Requests : Context(q)' = Context(q) /\ (IsApi(q)' <=> IsApi(q))
  BY DEF Context, IsApi
<1>2. \A s \in DOMAIN sessions : s \in Nat
  BY <1>0 DEF LookupTypes
<1>3. \A q, r \in Requests :
        /\ r # q /\ at'[r] \in Lookup /\ at'[q] \in Lookup
        /\ user'[r] = user'[q] /\ Context(r)' = Context(q)'
        => {q, r} \in met' /\ ~IsApi(r)'
  BY <1>0, <1>1 DEF LookupsSound
<1>4. ASSUME NEW r \in Requests, at'[r] = "create", NEW s \in DOMAIN sessions', Rival(r, s)'
      PROVE  \E q \in Requests : {q, r} \in met' /\ ~IsApi(r)' /\ Owns(q, s)'
  <2>1. at[r] = "create" /\ project'[r] = project[r]
    BY <1>4
  <2>2. s \in DOMAIN sessions /\ Rival(r, s)
    BY <1>1, <1>4, <2>1 DEF Rival
  <2>3. PICK q \in Requests : {q, r} \in met /\ ~IsApi(r) /\ Owns(q, s)
    BY <1>0, <2>1, <2>2 DEF LookupsSound
  <2> QED
    BY <1>1, <1>2, <2>2, <2>3
<1>5. ASSUME NEW s \in DOMAIN sessions', NEW t \in DOMAIN sessions', Twins(s, t)'
      PROVE  \E q, r \in Requests : {q, r} \in met' /\ Owns(q, s)' /\ Owns(r, t)'
  <2>1. s \in DOMAIN sessions /\ t \in DOMAIN sessions /\ Twins(s, t)
    BY <1>5 DEF Twins
  <2>2. PICK q \in Requests, r \in Requests : {q, r} \in met /\ Owns(q, s) /\ Owns(r, t)
    BY <1>0, <2>1 DEF LookupsSound
  <2> QED
    BY <1>2, <2>1, <2>2
<1>6. LookupsSound'
  BY <1>3, <1>4, <1>5 DEF LookupsSound
<1> QED
  BY <1>6 DEF ConversationsInv

\* A step of one request that is not in its lookup afterwards.
LEMMA OutOfLookup ==
    ASSUME ConversationsInv, NEW r \in Requests,
           UNCHANGED <<user, place, projects, sessions, project, met>>,
           at' \in [Requests -> Steps], at'[r] \notin Lookup,
           \A q \in Requests : q # r =>
             at'[q] = at[q] /\ status'[q] = status[q] /\ session'[q] = session[q],
           status' \in [Requests -> Outcomes], session' = [q \in Requests |-> session'[q]],
           status'[r] = status[r] \/ status'[r] # "waiting",
           session'[r] = session[r] \/ IsApi(r) \/ at[r] \in Lookup
    PROVE  ConversationsInv'
<1>0. LookupTypes /\ LookupsSound
  BY DEF ConversationsInv
<1>1. LookupTypes'
  BY <1>0 DEF LookupTypes, Places
<1>2. \A q \in Requests : at'[q] \in Lookup => at[q] \in Lookup /\ status'[q] # "waiting"
  BY <1>0 DEF LookupsSound
<1>3. ASSUME NEW q \in Requests, NEW s \in Nat, Owns(q, s) PROVE Owns(q, s)'
  <2>1. CASE q = r
    BY <1>3, <2>1 DEF Owns, IsApi
  <2>2. CASE q # r
    BY <1>3, <2>2 DEF Owns, IsApi
  <2> QED
    BY <2>1, <2>2
<1>4. \A q \in Requests : at'[q] = "create" => at[q] = "create"
  BY DEF Lookup
<1> QED
  BY <1>1, <1>2, <1>3, <1>4, StepKeeps

LEMMA StartKeeps ==
    ASSUME ConversationsInv, NEW r \in Requests, Start(r) PROVE ConversationsInv'
<1>0. LookupTypes /\ LookupsSound
  BY DEF ConversationsInv
<1>1. /\ status[r] = "waiting" /\ LoopIsFree
      /\ status' = [status EXCEPT ![r] = "running"] /\ at' = [at EXCEPT ![r] = "project"]
      /\ met' = met \cup {{q, r} : q \in Sharing(r, Lookup)}
      /\ UNCHANGED <<user, place, projects, sessions, project, session>>
  BY DEF Start
<1>2. LookupTypes'
  BY <1>0, <1>1 DEF LookupTypes, Places, Steps, Lookup, Outcomes
<1>3. \A q \in Requests : Context(q)' = Context(q) /\ (IsApi(q)' <=> IsApi(q))
  BY <1>1 DEF Context, IsApi
<1>4. /\ at'[r] = "project" /\ status'[r] = "running"
      /\ \A q \in Requests : q # r => at'[q] = at[q] /\ status'[q] = status[q]
  BY <1>0, <1>1 DEF LookupTypes
\* Whoever looks the context up meets the request; the API leaves the loop to nobody.
<1>5. ASSUME NEW q \in Requests, q # r, at[q] \in Lookup, user[q] = user[r], Context(q) = Context(r)
      PROVE  {q, r} \in met' /\ ~IsApi(q) /\ ~IsApi(r)
  <2>1. q \in Sharing(r, Lookup)
    BY <1>5 DEF Sharing
  <2>2. ~IsApi(q)
    BY <1>1, <1>5 DEF LoopIsFree
  <2> QED
    BY <1>1, <1>5, <2>1, <2>2, ContextPlace
<1>6. \A q \in Requests, s \in Nat : Owns(q, s) => Owns(q, s)'
  BY <1>1, <1>3, <1>4 DEF Owns
<1>7. \A q \in Requests : at'[q] \in Lookup => status'[q] # "waiting"
  BY <1>0, <1>4 DEF LookupsSound
<1>8. ASSUME NEW p \in Requests, NEW q \in Requests, p # q, at'[p] \in Lookup, at'[q] \in Lookup,
             user'[p] = user'[q], Context(p)' = Context(q)'
      PROVE  {q, p} \in met' /\ ~IsApi(p)'
  <2>0. user[p] = user[q] /\ Context(p) = Context(q)
    BY <1>1, <1>3, <1>8
  <2>1. CASE p = r
    BY <1>3, <1>4, <1>5, <1>8, <2>0, <2>1
  <2>2. CASE q = r
    <3>1. {p, q} = {q, p}
      OBVIOUS
    <3> QED
      BY <1>3, <1>4, <1>5, <1>8, <2>0, <2>2, <3>1
  <2>3. CASE p # r /\ q # r
    BY <1>0, <1>1, <1>3, <1>4, <1>8, <2>0, <2>3 DEF LookupsSound
  <2> QED
    BY <2>1, <2>2, <2>3
<1>9. ASSUME NEW p \in Requests, at'[p] = "create", NEW s \in DOMAIN sessions', Rival(p, s)'
      PROVE  \E q \in Requests : {q, p} \in met' /\ ~IsApi(p)' /\ Owns(q, s)'
  <2>1. at[p] = "create" /\ s \in DOMAIN sessions /\ s \in Nat /\ Rival(p, s)
    BY <1>0, <1>1, <1>3, <1>4, <1>9 DEF Rival, LookupTypes
  <2>2. PICK q \in Requests : {q, p} \in met /\ ~IsApi(p) /\ Owns(q, s)
    BY <1>0, <2>1 DEF LookupsSound
  <2> QED
    BY <1>1, <1>3, <1>6, <2>1, <2>2
<1>10. ASSUME NEW s \in DOMAIN sessions', NEW t \in DOMAIN sessions', Twins(s, t)'
       PROVE  \E q, p \in Requests : {q, p} \in met' /\ Owns(q, s)' /\ Owns(p, t)'
  <2>1. s \in DOMAIN sessions /\ t \in DOMAIN sessions /\ s \in Nat /\ t \in Nat /\ Twins(s, t)
    BY <1>0, <1>1, <1>10 DEF Twins, LookupTypes
  <2>2. PICK q \in Requests, p \in Requests : {q, p} \in met /\ Owns(q, s) /\ Owns(p, t)
    BY <1>0, <2>1 DEF LookupsSound
  <2> QED
    BY <1>1, <1>6, <2>1, <2>2
<1>11. LookupsSound'
  BY <1>7, <1>8, <1>9, <1>10 DEF LookupsSound
<1> QED
  BY <1>2, <1>11 DEF ConversationsInv

\* A step of one request within its lookup that creates no session.
LEMMA WithinLookup ==
    ASSUME ConversationsInv, NEW r \in Requests,
           UNCHANGED <<user, place, sessions, session, status, met>>,
           at[r] \in Lookup, NEW next \in Lookup, at' = [at EXCEPT ![r] = next],
           projects' \in [Users -> Nat], project' \in [Requests -> Nat],
           \A q \in Requests : q # r => project'[q] = project[q],
           next = "create" => \A s \in DOMAIN sessions : ~Rival(r, s)'
    PROVE  ConversationsInv'
<1>0. LookupTypes /\ LookupsSound
  BY DEF ConversationsInv
<1>1. at'[r] = next /\ \A q \in Requests : q # r => at'[q] = at[q]
  BY <1>0 DEF LookupTypes
<1>2. LookupTypes'
  BY <1>0 DEF LookupTypes, Places, Steps
<1>3. \A q \in Requests, s \in Nat : Owns(q, s) => Owns(q, s)'
  BY <1>1 DEF Owns, IsApi
<1>4. \A q \in Requests : at'[q] \in Lookup => at[q] \in Lookup /\ status'[q] # "waiting"
  BY <1>0, <1>1 DEF LookupsSound
<1>5. \A q \in Requests : at'[q] = "create" =>
        \/ at[q] = "create" /\ project'[q] = project[q]
        \/ \A s \in DOMAIN sessions' : ~Rival(q, s)'
  BY <1>1
<1> QED
  BY <1>2, <1>3, <1>4, <1>5, StepKeeps

LEMMA FindProjectKeeps ==
    ASSUME ConversationsInv, NEW r \in Requests, FindProject(r) PROVE ConversationsInv'
<1>0. LookupTypes
  BY DEF ConversationsInv
<1>1. /\ at[r] \in Lookup
      /\ UNCHANGED <<user, place, sessions, session, status, met, projects>>
  BY DEF FindProject, Lookup
<1>2. CASE at' = [at EXCEPT ![r] = "newProject"] /\ UNCHANGED project
  BY <1>0, <1>1, <1>2, WithinLookup DEF LookupTypes, Lookup
<1>3. CASE /\ \E p \in 1 .. projects[user[r]] : project' = [project EXCEPT ![r] = p]
           /\ at' = [at EXCEPT ![r] = "session"]
  <2>1. project' \in [Requests -> Nat] /\ \A q \in Requests : q # r => project'[q] = project[q]
    BY <1>0, <1>3 DEF LookupTypes
  <2> QED
    BY <1>0, <1>1, <1>3, <2>1, WithinLookup DEF LookupTypes, Lookup
<1> QED
  BY <1>2, <1>3 DEF FindProject

LEMMA CreateProjectKeeps ==
    ASSUME ConversationsInv, NEW r \in Requests, CreateProject(r) PROVE ConversationsInv'
<1>0. LookupTypes
  BY DEF ConversationsInv
<1>1. /\ at[r] \in Lookup /\ UNCHANGED <<user, place, sessions, session, status, met>>
      /\ projects' = [projects EXCEPT ![user[r]] = @ + 1]
      /\ project' = [project EXCEPT ![r] = projects'[user[r]]]
      /\ at' = [at EXCEPT ![r] = "session"]
  BY DEF CreateProject, Lookup
<1>2. projects' \in [Users -> Nat] /\ user[r] \in Users
  BY <1>0, <1>1 DEF LookupTypes
<1>3. project' \in [Requests -> Nat] /\ \A q \in Requests : q # r => project'[q] = project[q]
  BY <1>0, <1>1, <1>2 DEF LookupTypes
<1> QED
  BY <1>1, <1>2, <1>3, WithinLookup DEF Lookup

\* Where a request is after its thread ends a call.
LEMMA ThenGoes ==
    ASSUME ConversationsInv, NEW r \in Requests, NEW next \in Steps \ Lookup, Then(r, next)
    PROVE  /\ at' \in [Requests -> Steps] /\ at'[r] \notin Lookup
           /\ \A q \in Requests : q # r => at'[q] = at[q]
BY DEF ConversationsInv, LookupTypes, Then, Steps, Lookup

LEMMA FindSessionKeeps ==
    ASSUME ConversationsInv, NEW r \in Requests, FindSession(r) PROVE ConversationsInv'
<1>0. LookupTypes
  BY DEF ConversationsInv
<1>1. /\ at[r] \in Lookup
      /\ UNCHANGED <<user, place, projects, sessions, status, project, met>>
  BY DEF FindSession, Lookup
<1>2. CASE /\ Active(user[r], Context(r), project[r]) = {} /\ at' = [at EXCEPT ![r] = "create"]
           /\ UNCHANGED session
  <2>1. Context(r)' = Context(r)
    BY <1>1 DEF Context
  <2>2. \A s \in DOMAIN sessions : ~Rival(r, s)'
    BY <1>1, <1>2, <2>1 DEF Active, Rival
  <2> QED
    BY <1>0, <1>1, <1>2, <2>2, WithinLookup DEF LookupTypes, Lookup
<1>3. CASE Then(r, "history") /\ \E x : session' = [session EXCEPT ![r] = x]
  <2>1. "history" \in Steps \ Lookup
    BY DEF Steps, Lookup
  <2>2. /\ session' = [q \in Requests |-> session'[q]]
        /\ \A q \in Requests : q # r => session'[q] = session[q]
    BY <1>0, <1>3 DEF LookupTypes
  <2> QED
    BY <1>0, <1>1, <1>3, <2>1, <2>2, ThenGoes, OutOfLookup DEF LookupTypes
<1> QED
  BY <1>2, <1>3 DEF FindSession

\* A session that is created has no active rival but one that a lookup which met
\* this one created.
LEMMA CreateSessionKeeps ==
    ASSUME ConversationsInv, NEW r \in Requests, CreateSession(r) PROVE ConversationsInv'
<1> DEFINE row == [user |-> user[r], context |-> Context(r),
                   project |-> project[r], state |-> "active"]
<1> DEFINE new == Len(sessions) + 1
<1>0. LookupTypes /\ LookupsSound
  BY DEF ConversationsInv
<1>1. /\ at[r] = "create" /\ sessions' = Append(sessions, row)
      /\ session' = [session EXCEPT ![r] = Len(sessions')]
      /\ UNCHANGED <<user, place, projects, status, project, met>>
      /\ Then(r, "history")
  BY DEF CreateSession
<1>2. /\ at' \in [Requests -> Steps] /\ at'[r] \notin Lookup
      /\ \A q \in Requests : q # r => at'[q] = at[q]
  BY <1>1, ThenGoes DEF Steps, Lookup
<1>3. /\ DOMAIN sessions = 1 .. Len(sessions) /\ Len(sessions) \in Nat
      /\ DOMAIN sessions' = 1 .. new /\ Len(sessions') = new /\ new \notin DOMAIN sessions
      /\ sessions'[new] = row
      /\ \A s \in DOMAIN sessions : sessions'[s] = sessions[s]
  BY <1>0, <1>1 DEF LookupTypes
<1>4. row \in SessionRows
  BY <1>0, ContextType DEF LookupTypes, SessionRows
<1>5. /\ row.user = user[r] /\ row.context = Context(r) /\ row.project = project[r]
      /\ row.state = "active" /\ at[r] \in Lookup /\ status[r] # "waiting"
  BY <1>0, <1>1 DEF Lookup, LookupsSound
<1> HIDE DEF row
<1>6. \A q \in Requests : Context(q)' = Context(q) /\ (IsApi(q)' <=> IsApi(q))
  BY <1>1 DEF Context, IsApi
<1>7. /\ session' = [q \in Requests |-> session'[q]] /\ session'[r] = new
      /\ \A q \in Requests : q # r => session'[q] = session[q]
  BY <1>0, <1>1, <1>3 DEF LookupTypes
<1>8. LookupTypes'
  BY <1>0, <1>1, <1>2, <1>4, <1>7 DEF LookupTypes, Places
<1> HIDE DEF new
<1>9. \A q \in Requests : at'[q] \in Lookup => q # r /\ at[q] \in Lookup /\ at'[q] = at[q]
  BY <1>2
<1>10. \A q \in Requests : \A s : Owns(q, s) => Owns(q, s)'
  BY <1>1, <1>2, <1>5, <1>6, <1>7 DEF Owns
<1>11. ~IsApi(r) => \A s : s = new => Owns(r, s)'
  BY <1>1, <1>2, <1>5, <1>6, <1>7 DEF Owns
<1>12. \A q \in Requests : at'[q] \in Lookup => status'[q] # "waiting"
  BY <1>0, <1>1, <1>9 DEF LookupsSound
<1>13. \A p, q \in Requests :
         /\ p # q /\ at'[p] \in Lookup /\ at'[q] \in Lookup
         /\ user'[p] = user'[q] /\ Context(p)' = Context(q)'
         => {q, p} \in met' /\ ~IsApi(p)'
  BY <1>0, <1>1, <1>6, <1>9 DEF LookupsSound
<1>14. ASSUME NEW p \in Requests, at'[p] = "create", NEW s \in DOMAIN sessions', Rival(p, s)'
       PROVE  \E q \in Requests : {q, p} \in met' /\ ~IsApi(p)' /\ Owns(q, s)'
  <2>1. p # r /\ at[p] = "create" /\ at[p] \in Lookup
    BY <1>2, <1>9, <1>14 DEF Lookup
  <2>2. CASE s \in DOMAIN sessions
    <3>1. Rival(p, s)
      BY <1>1, <1>3, <1>6, <1>14, <2>2 DEF Rival
    <3>2. PICK q \in Requests : {q, p} \in met /\ ~IsApi(p) /\ Owns(q, s)
      BY <1>0, <2>1, <2>2, <3>1 DEF LookupsSound
    <3> QED
      BY <1>1, <1>6, <1>10, <3>2
  <2>3. CASE s = new
    <3>1. user[p] = user[r] /\ Context(p) = Context(r)
      BY <1>1, <1>3, <1>5, <1>6, <1>14, <2>3 DEF Rival
    <3>2. {r, p} \in met /\ ~IsApi(p)
      BY <1>0, <1>5, <2>1, <3>1 DEF LookupsSound
    <3>3. ~IsApi(r)
      BY <3>1, <3>2, ContextPlace
    <3>4. Owns(r, s)'
      BY <1>11, <2>3, <3>3
    <3>5. {r, p} \in met' /\ ~IsApi(p)'
      BY <1>1, <1>6, <3>2
    <3> QED
      BY <3>4, <3>5
  <2>4. s \in DOMAIN sessions \/ s = new
    BY <1>3, <1>14 DEF new
  <2> QED
    BY <2>2, <2>3, <2>4
<1>15. ASSUME NEW s \in DOMAIN sessions', NEW t \in DOMAIN sessions', Twins(s, t)'
       PROVE  \E q, p \in Requests : {q, p} \in met' /\ Owns(q, s)' /\ Owns(p, t)'
  <2>1. s \in DOMAIN sessions
    BY <1>3, <1>15 DEF Twins, new
  <2>2. CASE t \in DOMAIN sessions
    <3>1. Twins(s, t)
      BY <1>3, <1>15, <2>1, <2>2 DEF Twins
    <3>2. PICK q \in Requests, p \in Requests : {q, p} \in met /\ Owns(q, s) /\ Owns(p, t)
      BY <1>0, <2>1, <2>2, <3>1 DEF LookupsSound
    <3> QED
      BY <1>1, <1>10, <3>2
  <2>3. CASE t = new
    <3>1. Rival(r, s)
      BY <1>3, <1>5, <1>15, <2>1, <2>3 DEF Twins, Rival
    <3>2. PICK q \in Requests : {q, r} \in met /\ ~IsApi(r) /\ Owns(q, s)
      BY <1>0, <1>1, <2>1, <3>1 DEF LookupsSound
    <3>3. Owns(q, s)' /\ Owns(r, t)'
      BY <1>10, <1>11, <2>3, <3>2
    <3>4. {q, r} \in met'
      BY <1>1, <3>2
    <3> QED
      BY <3>3, <3>4
  <2>4. t \in DOMAIN sessions \/ t = new
    BY <1>3, <1>15 DEF new
  <2> QED
    BY <2>2, <2>3, <2>4
<1>16. LookupsSound'
  BY <1>12, <1>13, <1>14, <1>15 DEF LookupsSound
<1> QED
  BY <1>8, <1>16 DEF ConversationsInv

LEMMA CancelRequestKeeps ==
    ASSUME ConversationsInv, NEW r \in Requests, CancelRequest(r) PROVE ConversationsInv'
<1>0. LookupTypes /\ LookupsSound
  BY DEF ConversationsInv
<1>1. /\ status' = [status EXCEPT ![r] = "cancelled"]
      /\ UNCHANGED <<user, place, projects, sessions, session, project, met>>
  BY DEF CancelRequest
<1>2. /\ status' \in [Requests -> Outcomes] /\ status'[r] # "waiting"
      /\ \A q \in Requests : q # r => status'[q] = status[q]
  BY <1>0, <1>1 DEF LookupTypes, Outcomes
<1>3. CASE at' = [at EXCEPT ![r] = "over"]
  <2>1. /\ at' \in [Requests -> Steps] /\ at'[r] \notin Lookup
        /\ \A q \in Requests : q # r => at'[q] = at[q]
    BY <1>0, <1>3 DEF LookupTypes, Steps, Lookup
  <2> QED
    BY <1>0, <1>1, <1>2, <2>1, OutOfLookup DEF LookupTypes
<1>4. CASE UNCHANGED at
  <2>1. LookupTypes'
    BY <1>0, <1>1, <1>2, <1>4 DEF LookupTypes, Places
  <2>2. \A q \in Requests, s \in Nat : Owns(q, s) => Owns(q, s)'
    BY <1>1, <1>2, <1>4 DEF Owns, IsApi
  <2>3. \A q \in Requests : at'[q] \in Lookup => at[q] \in Lookup /\ status'[q] # "waiting"
    BY <1>0, <1>2, <1>4 DEF LookupsSound
  <2>4. \A q \in Requests : at'[q] = "create" => at[q] = "create" /\ project'[q] = project[q]
    BY <1>1, <1>4
  <2> QED
    BY <1>1, <2>1, <2>2, <2>3, <2>4, StepKeeps
<1> QED
  BY <1>3, <1>4 DEF CancelRequest

\* The session endpoints leave no session active that was not.
LEMMA EndpointKeeps ==
    ASSUME ConversationsInv, NEW s \in DOMAIN sessions,
           NEW state \in {"archived", "reopened", "deleted"},
           sessions' = [sessions EXCEPT ![s].state = state],
           UNCHANGED <<user, place, projects, status, at, project, session, met>>
    PROVE  ConversationsInv'
<1>0. LookupTypes /\ LookupsSound
  BY DEF ConversationsInv
<1>1. /\ DOMAIN sessions' = DOMAIN sessions
      /\ \A t \in DOMAIN sessions : sessions'[t].state = "active" => sessions'[t] = sessions[t]
  BY <1>0 DEF LookupTypes, SessionRows
<1>2. sessions' \in Seq(SessionRows)
  <2>1. sessions[s] \in SessionRows
    BY <1>0 DEF LookupTypes
  <2>2. [sessions[s] EXCEPT !.state = state]
          \in SessionRows
    BY <2>1 DEF SessionRows
  <2> QED
    BY <1>0, <2>2, ExceptSeq DEF LookupTypes
<1>3. LookupTypes'
  BY <1>0, <1>2 DEF LookupTypes, Places
<1>4. \A q \in Requests, t \in Nat : Owns(q, t) => Owns(q, t)'
  BY DEF Owns, IsApi
<1> QED
  BY <1>0, <1>1, <1>3, <1>4, StepKeeps DEF LookupsSound

\* The steps of a request that leave its lookup, or come after it.
LEMMA LaterKeeps ==
    ASSUME ConversationsInv, NEW r \in Requests,
           \/ LookupFails(r) \/ ApiSetupFails(r) \/ ReadHistory(r) \/ Generate(r) \/ StoreUser(r)
           \/ StoreAssistant(r) \/ SendEnd(r) \/ MaybeReflect(r) \/ ApiStore(r)
    PROVE  ConversationsInv'
<1>0. LookupTypes
  BY DEF ConversationsInv
<1>1. UNCHANGED <<user, place, projects, sessions, project, met>>
  BY DEF LookupFails, ApiSetupFails, ReadHistory, Generate, StoreUser, StoreAssistant, SendEnd,
         MaybeReflect, ApiStore
<1>2. /\ status' \in [Requests -> Outcomes]
      /\ \A q \in Requests : q # r => status'[q] = status[q]
      /\ status'[r] = status[r] \/ status'[r] # "waiting"
  <2>1. CASE UNCHANGED status
    BY <1>0, <2>1 DEF LookupTypes, Outcomes
  <2>2. CASE \E x \in {"answered", "failed", "closed"} : status' = [status EXCEPT ![r] = x]
    BY <1>0, <2>2 DEF LookupTypes, Outcomes
  <2>3. CASE LookupFails(r)
    BY <1>0, <2>3 DEF LookupTypes, Outcomes, LookupFails
  <2> QED
    BY <2>1, <2>2, <2>3 DEF ApiSetupFails, ReadHistory, Generate, StoreUser, StoreAssistant,
                            SendEnd, MaybeReflect, ApiStore
<1>3. /\ at' \in [Requests -> Steps] /\ at'[r] \notin Lookup
      /\ \A q \in Requests : q # r => at'[q] = at[q]
  <2>1. CASE \E next \in Steps \ Lookup : Then(r, next)
    BY <2>1, ThenGoes
  <2>2. CASE \E next \in Steps \ Lookup : at' = [at EXCEPT ![r] = next]
    BY <1>0, <2>2 DEF LookupTypes
  <2>3. {"llm", "send", "store", "storeUser", "storeAssistant", "background", "over"}
          \subseteq Steps \ Lookup
    BY DEF Steps, Lookup
  <2> QED
    BY <2>1, <2>2, <2>3 DEF LookupFails, ApiSetupFails, ReadHistory, Generate, AfterText,
                            StoreUser, StoreAssistant, SendEnd, MaybeReflect, ApiStore
<1>4. /\ session' = [q \in Requests |-> session'[q]]
      /\ \A q \in Requests : q # r => session'[q] = session[q]
      /\ session'[r] = session[r] \/ IsApi(r)
  <2>1. CASE UNCHANGED session
    BY <1>0, <2>1 DEF LookupTypes
  <2>2. CASE ApiSetupFails(r)
    BY <1>0, <2>2 DEF LookupTypes, ApiSetupFails
  <2> QED
    BY <2>1, <2>2 DEF LookupFails, ReadHistory, Generate, StoreUser, StoreAssistant, SendEnd,
                      MaybeReflect, ApiStore
<1> QED
  BY <1>1, <1>2, <1>3, <1>4, OutOfLookup

LEMMA ConversationsKeep ==
    ASSUME ConversationsInv, [ConversationsNext]_conversationVars PROVE ConversationsInv'
<1>1. ASSUME NEW r \in Requests, Start(r) PROVE ConversationsInv'
  BY <1>1, StartKeeps
<1>2. ASSUME NEW r \in Requests, FindProject(r) PROVE ConversationsInv'
  BY <1>2, FindProjectKeeps
<1>3. ASSUME NEW r \in Requests, CreateProject(r) PROVE ConversationsInv'
  BY <1>3, CreateProjectKeeps
<1>4. ASSUME NEW r \in Requests, FindSession(r) PROVE ConversationsInv'
  BY <1>4, FindSessionKeeps
<1>5. ASSUME NEW r \in Requests, CreateSession(r) PROVE ConversationsInv'
  BY <1>5, CreateSessionKeeps
<1>6. ASSUME NEW r \in Requests,
             \/ LookupFails(r) \/ ApiSetupFails(r) \/ ReadHistory(r) \/ Generate(r)
             \/ StoreUser(r) \/ StoreAssistant(r) \/ SendEnd(r) \/ MaybeReflect(r)
             \/ ApiStore(r)
      PROVE  ConversationsInv'
  BY <1>6, LaterKeeps
<1>7. ASSUME NEW r \in Requests, CancelRequest(r) PROVE ConversationsInv'
  BY <1>7, CancelRequestKeeps
<1>8. ASSUME NEW s \in DOMAIN sessions, Archive(s) \/ Unarchive(s) \/ DeleteSession(s)
      PROVE  ConversationsInv'
  <2>1. \E state \in {"archived", "reopened", "deleted"} :
           sessions' = [sessions EXCEPT ![s].state = state]
    BY <1>8 DEF Archive, Unarchive, SetState, DeleteSession
  <2>2. UNCHANGED <<user, place, projects, status, at, project, session, met>>
    BY <1>8 DEF Archive, Unarchive, SetState, DeleteSession
  <2> QED
    BY <2>1, <2>2, EndpointKeeps
<1>9. CASE UNCHANGED conversationVars
  <2>1. UNCHANGED <<user, place, projects, sessions, status, at, project, session, met>>
    BY <1>9 DEF conversationVars
  <2>2. LookupTypes'
    BY <2>1 DEF ConversationsInv, LookupTypes, Places
  <2>3. \A q \in Requests, s \in Nat : Owns(q, s) => Owns(q, s)'
    BY <2>1 DEF Owns, IsApi
  <2> QED
    BY <2>1, <2>2, <2>3, StepKeeps DEF ConversationsInv, LookupsSound
<1> QED
  BY <1>1, <1>2, <1>3, <1>4, <1>5, <1>6, <1>7, <1>8, <1>9 DEF ConversationsNext

(* A user has one active session per context and project, but for those of *)
(* two gateway requests whose lookups overlapped, each of which ended with *)
(* one of the two: a query and an insert in a thread keep no other pair of *)
(* requests from it, and the API's lookups do not leave the event loop.    *)
THEOREM OneActiveSession == ConversationsSpec => []OneSessionPerContext
<1>1. ConversationsInit => ConversationsInv
  BY LookupsStart
<1>2. ConversationsInv /\ [ConversationsNext]_conversationVars => ConversationsInv'
  BY ConversationsKeep
<1>3. ConversationsInv => OneSessionPerContext
  BY DEF ConversationsInv, LookupsSound, OneSessionPerContext, Twins, Owns
<1> QED
  BY <1>1, <1>2, <1>3, PTL DEF ConversationsSpec

----------------------------------------------------------------------------
(* Remote servers                                                         *)

RemoteAssumptions ==
    /\ IsFiniteSet(Actors) /\ Nobody \notin Actors
    /\ MaxReconnects \in Nat /\ MaxFaults \in Nat /\ MaxSessions \in Nat /\ MaxTokens \in Nat \ {0}

(* The records of a connection and of a task. *)
ConnRecords ==
    [made : BOOLEAN, status : Statuses, connected : BOOLEAN, session : 0 .. MaxSessions,
     stack : 0 .. MaxSessions, attempts : Nat, client : OAuth]
Tasks == UNION {Jobs[a] : a \in Actors}
Whereabouts == {"new", "discovering", "registering", "issued", "exchanging", "joining", "entering",
           "refreshing", "dialing", "handshake", "calling", "dropping", "closing", "asleep", "over",
           "refused", "denied"}
ActorRecords ==
    [job : Tasks, session : 0 .. MaxSessions, at : Whereabouts, again : BOOLEAN, was : BOOLEAN,
     mine : OAuth]
Givens == [sessions : 0 .. MaxSessions, tokens : 0 .. MaxTokens, faults : 0 .. MaxFaults]

RemoteBase ==
    /\ conn \in ConnRecords /\ saved \in Statuses /\ queue \in Seq(Actors)
    /\ managing \in Actors \cup {Nobody} /\ open \subseteq 1 .. MaxSessions /\ alive \subseteq open
    /\ oauth \in OAuth /\ valid \subseteq 1 .. MaxTokens
    /\ actor \in [Actors -> ActorRecords] /\ given \in Givens
    /\ failed \in 0 .. MaxReconnects /\ disturbed \subseteq Actors

(* The places of a task that holds the connection's lock. *)
Holding == {"closing", "refreshing", "dialing", "handshake"}

(* The tasks that asked for the session, and those that asked twice or      *)
(* were refused: so many attempts were counted at most.                     *)
Tried == {a \in Actors : actor[a].at # "new"}
Twice == {a \in Actors : actor[a].again \/ actor[a].at = "refused"}

Locking ==
    \A a \in Actors : actor[a].at \in Holding => queue # <<>> /\ Head(queue) = a

(* A session on this side has a number given out; the connection's is       *)
(* open and no one else's, and what is lost is not closed any more.         *)
Owning ==
    /\ leaked \subseteq open /\ open \subseteq 1 .. given.sessions
    /\ conn.stack # 0 => conn.stack \in open \ leaked
    /\ \A a \in Actors : actor[a].at = "closing" =>
          /\ actor[a].session \in 0 .. given.sessions
          /\ actor[a].session \notin leaked
          /\ actor[a].session # 0 => actor[a].session # conn.stack /\ actor[a].session \in open
    /\ SessionsAreOwned

Counting ==
    /\ conn.connected => conn.session # 0 /\ conn.attempts = 0
    /\ \A a \in Actors : actor[a].at = "calling" => actor[a].job = "call"
    /\ conn.attempts <= Cardinality(Tried) + Cardinality(Twice)
    /\ AttemptsAreReal

(* The verifier of a flow is in the file, then with its task, unless        *)
(* another task rewrote the file.                                           *)
Granting ==
    /\ \A a \in Actors : actor[a].at = "issued" => oauth.verifier = a \/ a \in disturbed
    /\ \A a \in Actors : actor[a].at = "exchanging" => actor[a].mine.verifier = a \/ a \in disturbed
    /\ GrantsSucceed

RemoteInv == RemoteBase /\ Locking /\ Owning /\ Counting /\ Granting

(* What a step does to one task: where it is next, with which session and   *)
(* state of the file, and whether it tried before.                          *)
Moved(a, spot, id, again, mine) ==
    /\ actor' \in [Actors -> ActorRecords] /\ \A b \in Actors \ {a} : actor'[b] = actor[b]
    /\ actor'[a].job = actor[a].job /\ actor'[a].at = spot /\ actor'[a].session = id
    /\ actor'[a].again = again /\ actor'[a].mine = mine

LEMMA ActorFields ==
    ASSUME RemoteBase, NEW a \in Actors
    PROVE  /\ actor[a].at \in Whereabouts /\ actor[a].session \in 0 .. MaxSessions
           /\ actor[a].again \in BOOLEAN /\ actor[a].mine \in OAuth /\ actor[a].job \in Tasks
<1>1. actor[a] \in ActorRecords
  BY DEF RemoteBase
<1> QED
  BY <1>1 DEF ActorRecords

LEMMA Goes ==
    ASSUME RemoteBase, NEW a \in Actors, NEW p \in Whereabouts, Go(a, p)
    PROVE  Moved(a, p, actor[a].session, actor[a].again, actor[a].mine)
<1>1. actor[a] \in ActorRecords
  BY DEF RemoteBase
<1>2. actor' = [actor EXCEPT ![a] = [actor[a] EXCEPT !.at = p]]
  BY DEF Go
<1>3. [actor[a] EXCEPT !.at = p] \in ActorRecords
  BY <1>1 DEF ActorRecords
<1>4. actor' \in [Actors -> ActorRecords] /\ \A b \in Actors \ {a} : actor'[b] = actor[b]
  BY <1>2, <1>3 DEF RemoteBase
<1>5. actor'[a] = [actor[a] EXCEPT !.at = p]
  BY <1>2 DEF RemoteBase
<1>6. /\ actor'[a].job = actor[a].job /\ actor'[a].at = p /\ actor'[a].session = actor[a].session
      /\ actor'[a].again = actor[a].again /\ actor'[a].mine = actor[a].mine
  BY <1>1, <1>5 DEF ActorRecords
<1> QED
  BY <1>4, <1>6 DEF Moved

LEMMA GoesWith ==
    ASSUME RemoteBase, NEW a \in Actors, NEW p \in Whereabouts, NEW s \in 0 .. MaxSessions,
           actor' = [actor EXCEPT ![a].at = p, ![a].session = s]
    PROVE  Moved(a, p, s, actor[a].again, actor[a].mine)
<1> DEFINE r == [actor[a] EXCEPT !.at = p, !.session = s]
<1>1. actor[a] \in ActorRecords
  BY DEF RemoteBase
<1>2. actor' = [actor EXCEPT ![a] = r]
  BY DEF RemoteBase, ActorRecords
<1>3. r \in ActorRecords
  BY <1>1 DEF ActorRecords
<1>4. /\ r.job = actor[a].job /\ r.at = p /\ r.session = s
      /\ r.again = actor[a].again /\ r.mine = actor[a].mine
  BY <1>1 DEF ActorRecords
<1> HIDE DEF r
<1>5. actor' \in [Actors -> ActorRecords] /\ \A b \in Actors \ {a} : actor'[b] = actor[b]
  BY <1>2, <1>3 DEF RemoteBase
<1>6. actor'[a] = r
  BY <1>2 DEF RemoteBase
<1> QED
  BY <1>4, <1>5, <1>6 DEF Moved

LEMMA Reads ==
    ASSUME RemoteBase, NEW a \in Actors, NEW p \in Whereabouts,
           actor' = [actor EXCEPT ![a].at = p, ![a].mine = oauth]
    PROVE  Moved(a, p, actor[a].session, actor[a].again, oauth)
<1> DEFINE r == [actor[a] EXCEPT !.at = p, !.mine = oauth]
<1>1. actor[a] \in ActorRecords /\ oauth \in OAuth
  BY DEF RemoteBase
<1>2. actor' = [actor EXCEPT ![a] = r]
  BY DEF RemoteBase, ActorRecords
<1>3. r \in ActorRecords
  BY <1>1 DEF ActorRecords
<1>4. /\ r.job = actor[a].job /\ r.at = p /\ r.session = actor[a].session
      /\ r.again = actor[a].again /\ r.mine = oauth
  BY <1>1 DEF ActorRecords
<1> HIDE DEF r
<1>5. actor' \in [Actors -> ActorRecords] /\ \A b \in Actors \ {a} : actor'[b] = actor[b]
  BY <1>2, <1>3 DEF RemoteBase
<1>6. actor'[a] = r
  BY <1>2 DEF RemoteBase
<1> QED
  BY <1>4, <1>5, <1>6 DEF Moved

LEMMA Waits ==
    ASSUME RemoteBase, NEW a \in Actors,
           actor' = [actor EXCEPT ![a].at = "dropping", ![a].again = @ \/ actor[a].at = "calling"]
    PROVE  Moved(a, "dropping", actor[a].session, actor[a].again \/ actor[a].at = "calling", actor[a].mine)
<1> DEFINE g == actor[a].again \/ actor[a].at = "calling"
           r == [actor[a] EXCEPT !.at = "dropping", !.again = g]
<1>1. actor[a] \in ActorRecords /\ g \in BOOLEAN
  BY DEF RemoteBase
<1>2. actor' = [actor EXCEPT ![a] = r]
  BY DEF RemoteBase, ActorRecords
<1> HIDE DEF g
<1>3. r \in ActorRecords
  BY <1>1 DEF ActorRecords, Whereabouts
<1>4. /\ r.job = actor[a].job /\ r.at = "dropping" /\ r.session = actor[a].session
      /\ r.again = g /\ r.mine = actor[a].mine
  BY <1>1 DEF ActorRecords
<1> HIDE DEF r
<1>5. actor' \in [Actors -> ActorRecords] /\ \A b \in Actors \ {a} : actor'[b] = actor[b]
  BY <1>2, <1>3 DEF RemoteBase
<1>6. actor'[a] = r
  BY <1>2 DEF RemoteBase
<1> QED
  BY <1>4, <1>5, <1>6 DEF Moved, g

(* A connection is dropped, its exit stack is the task's to close. *)
LEMMA Drops ==
    ASSUME RemoteAssumptions, RemoteBase, NEW a \in Actors, NEW c \in ConnRecords, Dropping(a, c)
    PROVE  /\ Moved(a, "closing", c.stack, actor[a].again \/ actor[a].at = "calling", actor[a].mine)
           /\ conn' \in ConnRecords /\ conn'.connected = FALSE /\ conn'.stack = 0 /\ conn'.session = 0
           /\ conn'.attempts = c.attempts
<1> DEFINE g == actor[a].again \/ actor[a].at = "calling"
           r == [actor[a] EXCEPT !.at = "closing", !.session = c.stack, !.was = c.connected, !.again = g]
<1>1. actor[a] \in ActorRecords /\ g \in BOOLEAN /\ c.stack \in 0 .. MaxSessions /\ c.connected \in BOOLEAN
  BY DEF RemoteBase, ConnRecords
<1>2. actor' = [actor EXCEPT ![a] = r]
  BY DEF Dropping, RemoteBase, ActorRecords
<1> HIDE DEF g
<1>3. r \in ActorRecords
  BY <1>1 DEF ActorRecords, Whereabouts
<1>4. /\ r.job = actor[a].job /\ r.at = "closing" /\ r.session = c.stack
      /\ r.again = g /\ r.mine = actor[a].mine
  BY <1>1 DEF ActorRecords
<1> HIDE DEF r
<1>5. actor' \in [Actors -> ActorRecords] /\ \A b \in Actors \ {a} : actor'[b] = actor[b]
  BY <1>2, <1>3 DEF RemoteBase
<1>6. actor'[a] = r
  BY <1>2 DEF RemoteBase
<1>7. /\ conn' \in ConnRecords /\ conn'.connected = FALSE /\ conn'.stack = 0 /\ conn'.session = 0
      /\ conn'.attempts = c.attempts
  <2>1. 0 \in 0 .. MaxSessions
    BY DEF RemoteAssumptions
  <2>2. conn' = [c EXCEPT !.connected = FALSE, !.session = 0, !.stack = 0]
    BY DEF Dropping
  <2> QED
    BY <2>1, <2>2 DEF ConnRecords
<1> QED
  BY <1>4, <1>5, <1>6, <1>7 DEF Moved, g

(* Sets of tasks counted before and after one of them moved. *)
LEMMA OneMore ==
    ASSUME RemoteAssumptions, NEW S \in SUBSET Actors, NEW T \in SUBSET Actors, NEW a \in Actors,
           \A b \in Actors \ {a} : b \in S <=> b \in T
    PROVE  /\ Cardinality(S) \in Nat /\ Cardinality(T) \in Nat
           /\ (a \in S <=> a \in T) => Cardinality(T) = Cardinality(S)
           /\ a \notin S /\ a \in T => Cardinality(T) = Cardinality(S) + 1
           /\ a \in S /\ a \notin T => Cardinality(S) = Cardinality(T) + 1
<1>1. IsFiniteSet(S) /\ IsFiniteSet(T)
  BY FS_Subset DEF RemoteAssumptions
<1>2. Cardinality(S) \in Nat /\ Cardinality(T) \in Nat
  BY <1>1, FS_CardinalityType
<1>3. (a \in S <=> a \in T) => T = S
  OBVIOUS
<1>4. a \notin S /\ a \in T => T = S \cup {a}
  OBVIOUS
<1>5. a \in S /\ a \notin T => S = T \cup {a}
  OBVIOUS
<1>6. ASSUME NEW X \in SUBSET Actors, IsFiniteSet(X), a \notin X
      PROVE  Cardinality(X \cup {a}) = Cardinality(X) + 1
  BY <1>6, FS_AddElement
<1> QED
  BY <1>1, <1>2, <1>3, <1>4, <1>5, <1>6

LEMMA LockingKeeps ==
    ASSUME RemoteBase, Locking, NEW a \in Actors, NEW p, NEW s, NEW g, NEW m, Moved(a, p, s, g, m),
           \/ queue' = queue /\ (p \in Holding => queue # <<>> /\ Head(queue) = a)
           \/ queue' = Append(queue, a) /\ (p \in Holding => queue = <<>>)
           \/ queue' = Tail(queue) /\ queue # <<>> /\ Head(queue) = a /\ p \notin Holding
    PROVE  queue' \in Seq(Actors) /\ Locking'
<1>1. queue \in Seq(Actors)
  BY DEF RemoteBase
<1>2. CASE queue' = queue /\ (p \in Holding => queue # <<>> /\ Head(queue) = a)
  BY <1>1, <1>2 DEF Locking, Moved
<1>3. CASE queue' = Append(queue, a) /\ (p \in Holding => queue = <<>>)
  <2>1. queue' \in Seq(Actors) /\ queue' # <<>>
    BY <1>1, <1>3
  <2>2. Head(queue') = IF queue = <<>> THEN a ELSE Head(queue)
    BY <1>1, <1>3
  <2> QED
    BY <1>3, <2>1, <2>2 DEF Locking, Moved
<1>4. CASE queue' = Tail(queue) /\ queue # <<>> /\ Head(queue) = a /\ p \notin Holding
  <2>1. queue' \in Seq(Actors)
    BY <1>1, <1>4
  <2>2. \A b \in Actors : actor'[b].at \notin Holding
    BY <1>4 DEF Locking, Moved
  <2> QED
    BY <2>1, <2>2 DEF Locking
<1> QED
  BY <1>2, <1>3, <1>4

LEMMA OwningKeeps ==
    ASSUME Owning, NEW a \in Actors, NEW p, NEW s, NEW g, NEW m, Moved(a, p, s, g, m),
           actor[a].at # "closing", p # "closing", UNCHANGED <<open, leaked>>,
           conn'.stack = conn.stack, given'.sessions = given.sessions
    PROVE  Owning'
<1>1. \A b \in Actors : actor'[b].at = "closing" <=> actor[b].at = "closing"
  BY DEF Moved
<1>2. \A b \in Actors : actor'[b].at = "closing" => actor'[b] = actor[b]
  BY DEF Moved
<1>3. {actor[b].session : b \in {x \in Actors : actor[x].at = "closing"}}
      \subseteq {actor'[b].session : b \in {x \in Actors : actor'[x].at = "closing"}}
  BY <1>1, <1>2
<1>4. SessionsAreOwned'
  BY <1>3 DEF Owning, SessionsAreOwned
<1> QED
  BY <1>1, <1>2, <1>4 DEF Owning

LEMMA CountingKeeps ==
    ASSUME RemoteAssumptions, RemoteBase, Counting, NEW a \in Actors,
           NEW p, NEW s, NEW g \in BOOLEAN, NEW m, Moved(a, p, s, g, m),
           actor[a].at # "refused", p # "new", actor[a].again => g,
           p = "calling" => actor[a].job = "call",
           conn' \in ConnRecords, failed' \in Nat,
           conn'.connected => conn'.session # 0 /\ conn'.attempts = 0,
           \/ conn'.attempts = 0
           \/ /\ conn'.attempts = conn.attempts /\ failed' >= failed
              /\ a \in UnderWay /\ a \notin UnderWay' => failed' = failed + 1 \/ failed >= MaxReconnects
           \/ /\ conn'.attempts = conn.attempts + 1 /\ failed' = failed /\ a \notin UnderWay
              /\ actor[a].at = "new" \/ (~actor[a].again /\ (g \/ p = "refused"))
              /\ a \in UnderWay' \/ conn.attempts >= MaxReconnects
    PROVE  Counting'
<1> DEFINE U == Cardinality(UnderWay)
           T == Cardinality(Tried)
           W == Cardinality(Twice)
<1>1. /\ UnderWay \in SUBSET Actors /\ UnderWay' \in SUBSET Actors
      /\ Tried \in SUBSET Actors /\ Tried' \in SUBSET Actors
      /\ Twice \in SUBSET Actors /\ Twice' \in SUBSET Actors
  BY DEF UnderWay, Reconnecting, Tried, Twice
<1>0. \A b \in Actors \ {a} : actor'[b] = actor[b]
  BY DEF Moved
<1>2. /\ \A b \in Actors \ {a} : b \in UnderWay <=> b \in UnderWay'
      /\ \A b \in Actors \ {a} : b \in Tried <=> b \in Tried'
      /\ \A b \in Actors \ {a} : b \in Twice <=> b \in Twice'
  <2>1. \A b \in Actors \ {a} : b \in UnderWay <=> b \in UnderWay'
    BY <1>0 DEF UnderWay, Reconnecting
  <2>2. \A b \in Actors \ {a} : b \in Tried <=> b \in Tried'
    BY <1>0 DEF Tried
  <2>3. \A b \in Actors \ {a} : b \in Twice <=> b \in Twice'
    BY <1>0, Zenon DEF Twice
  <2> QED
    BY <2>1, <2>2, <2>3
<1>3. /\ U \in Nat /\ U' \in Nat
      /\ (a \in UnderWay <=> a \in UnderWay') => U' = U
      /\ a \notin UnderWay /\ a \in UnderWay' => U' = U + 1
      /\ a \in UnderWay /\ a \notin UnderWay' => U = U' + 1
  BY <1>1, <1>2, OneMore
<1>4. /\ T \in Nat /\ T' \in Nat
      /\ (a \in Tried <=> a \in Tried') => T' = T
      /\ a \notin Tried /\ a \in Tried' => T' = T + 1
  BY <1>1, <1>2, OneMore
<1>5. /\ W \in Nat /\ W' \in Nat
      /\ (a \in Twice <=> a \in Twice') => W' = W
      /\ a \notin Twice /\ a \in Twice' => W' = W + 1
  BY <1>1, <1>2, OneMore
<1>6. a \in Tried' /\ (a \in Tried <=> actor[a].at # "new")
  BY DEF Moved, Tried
<1>7. (a \in Twice <=> actor[a].again) /\ (a \in Twice' <=> (g \/ p = "refused"))
  BY DEF Moved, Twice
<1>8. conn.attempts \in Nat /\ conn'.attempts \in Nat /\ failed \in Nat /\ MaxReconnects \in Nat
  BY DEF RemoteBase, ConnRecords, RemoteAssumptions
<1>9. conn.attempts <= T + W /\ (conn.attempts <= failed + U \/ failed + U >= MaxReconnects)
  BY DEF Counting, AttemptsAreReal
<1> HIDE DEF U, T, W
<1>10. T' >= T /\ (actor[a].at = "new" => T' = T + 1)
  BY <1>4, <1>6
<1>11. W' >= W /\ (~actor[a].again /\ (g \/ p = "refused") => W' = W + 1)
  BY <1>5, <1>7
<1>12. conn'.attempts <= T' + W'
  BY <1>4, <1>5, <1>8, <1>9, <1>10, <1>11
<1>13. conn'.attempts <= failed' + U' \/ failed' + U' >= MaxReconnects
  BY <1>3, <1>8, <1>9
<1>14. \A b \in Actors : actor'[b].at = "calling" => actor'[b].job = "call"
  BY DEF Moved, Counting
<1> QED
  BY <1>12, <1>13, <1>14 DEF Counting, AttemptsAreReal, U, T, W

LEMMA GrantingKeeps ==
    ASSUME RemoteBase, Granting, NEW a \in Actors, NEW p, NEW s, NEW g, NEW m, Moved(a, p, s, g, m),
           p \notin {"issued", "exchanging", "denied"},
           \/ UNCHANGED <<oauth, disturbed>>
           \/ \E state : Rewrite(a, state)
    PROVE  Granting' /\ disturbed' \subseteq Actors
<1>1. disturbed \subseteq disturbed' /\ disturbed' \subseteq Actors
  BY DEF Rewrite, RemoteBase
<1>2. ASSUME NEW b \in Actors, actor'[b].at = "issued" PROVE oauth'.verifier = b \/ b \in disturbed'
  <2>1. b # a /\ actor[b].at = "issued"
    BY <1>2 DEF Moved
  <2> QED
    BY <1>1, <2>1 DEF Rewrite, Granting
<1>3. ASSUME NEW b \in Actors, actor'[b].at = "exchanging"
      PROVE  actor'[b].mine.verifier = b \/ b \in disturbed'
  BY <1>1, <1>3 DEF Moved, Granting
<1>4. GrantsSucceed'
  BY <1>1 DEF Moved, Granting, GrantsSucceed
<1> QED
  BY <1>1, <1>2, <1>3, <1>4 DEF Granting

LEMMA ConnFields ==
    ASSUME RemoteAssumptions, RemoteBase
    PROVE  /\ conn.connected \in BOOLEAN /\ conn.session \in 0 .. MaxSessions
           /\ conn.stack \in 0 .. MaxSessions /\ conn.attempts \in Nat /\ conn.client \in OAuth
           /\ conn.made \in BOOLEAN /\ conn.status \in Statuses
           /\ 0 \in 0 .. MaxSessions /\ failed \in Nat
           /\ given.sessions \in 0 .. MaxSessions /\ given.tokens \in 0 .. MaxTokens
           /\ given.faults \in 0 .. MaxFaults
BY DEF RemoteBase, ConnRecords, RemoteAssumptions, Givens

(* The same connection, but for its configuration. *)
Alike(c) ==
    /\ c \in ConnRecords /\ c.session = conn.session /\ c.stack = conn.stack
    /\ c.attempts = conn.attempts /\ (c.connected => conn.connected)

(* A task without the connection's lock begins to close the session. *)
LEMMA OwningDrops ==
    ASSUME RemoteAssumptions, RemoteBase, Owning, NEW a \in Actors, NEW g, NEW m,
           Moved(a, "closing", conn.stack, g, m), actor[a].at # "closing", conn'.stack = 0,
           UNCHANGED <<open, leaked>>, given'.sessions = given.sessions
    PROVE  Owning'
<1>1. \A b \in Actors \ {a} : actor'[b] = actor[b]
  BY DEF Moved
<1>2. actor'[a].at = "closing" /\ actor'[a].session = conn.stack
  BY DEF Moved
<1>3. /\ conn.stack \in 0 .. given.sessions /\ conn.stack \notin leaked
      /\ conn.stack # 0 => conn.stack \in open
  BY ConnFields DEF Owning
<1>4. ASSUME NEW i \in open' \ leaked'
      PROVE  i \in {actor'[b].session : b \in {x \in Actors : actor'[x].at = "closing"}}
  <2>1. CASE i = conn.stack
    BY <1>2, <2>1
  <2>2. CASE i # conn.stack
    <3>1. PICK b \in Actors : actor[b].at = "closing" /\ actor[b].session = i
      BY <1>4, <2>2 DEF Owning, SessionsAreOwned
    <3> QED
      BY <1>1, <3>1
  <2> QED
    BY <2>1, <2>2
<1>5. SessionsAreOwned'
  BY <1>4 DEF SessionsAreOwned
<1> QED
  BY <1>1, <1>2, <1>3, <1>5 DEF Owning

LEMMA RetryKeeps ==
    ASSUME RemoteAssumptions, RemoteInv, NEW a \in Actors, NEW c, Alike(c), c.connected = FALSE,
           Retry(a, c), actor[a].job = "call",
           actor[a].at = "new" \/ (actor[a].at = "calling" /\ ~actor[a].again),
           UNCHANGED <<saved, managing, open, alive, leaked, failed, oauth, valid, disturbed, given>>
    PROVE  RemoteInv'
<1> DEFINE counted == [c EXCEPT !.attempts = @ + 1]
           g == actor[a].again \/ actor[a].at = "calling"
<1>1. /\ counted \in ConnRecords /\ counted.connected = FALSE /\ counted.stack = conn.stack
      /\ counted.attempts = conn.attempts + 1
  BY DEF Alike, ConnRecords
<1> HIDE DEF counted
<1>2. g \in BOOLEAN /\ actor[a].again \in BOOLEAN /\ RemoteBase /\ a \notin UnderWay /\ failed \in Nat
  BY ActorFields, ConnFields DEF RemoteInv, UnderWay, Reconnecting
<1>3. CASE c.attempts >= MaxReconnects
  <2>1. conn' = counted /\ Go(a, "refused") /\ UNCHANGED queue
    BY <1>3 DEF Retry, counted
  <2>2. Moved(a, "refused", actor[a].session, actor[a].again, actor[a].mine)
    BY <1>2, <2>1, Goes DEF Whereabouts
  <2>3. queue' \in Seq(Actors) /\ Locking'
    BY <2>1, <2>2, LockingKeeps DEF RemoteInv, Holding
  <2>4. Owning'
    BY <1>1, <2>1, <2>2, OwningKeeps DEF RemoteInv
  <2>5. Counting'
    BY <1>1, <1>2, <1>3, <2>1, <2>2, CountingKeeps DEF RemoteInv, Alike
  <2>6. Granting'
    BY <2>2, GrantingKeeps DEF RemoteInv
  <2>7. RemoteBase'
    BY <1>1, <1>2, <2>1, <2>2, <2>3 DEF RemoteBase, Moved
  <2> QED
    BY <2>3, <2>4, <2>5, <2>6, <2>7 DEF RemoteInv
<1>4. CASE ~(c.attempts >= MaxReconnects) /\ queue = <<>>
  <2>1. Dropping(a, counted) /\ queue' = Append(queue, a)
    BY <1>4 DEF Retry, Acquire, counted
  <2>2. /\ Moved(a, "closing", conn.stack, g, actor[a].mine)
        /\ conn' \in ConnRecords /\ conn'.connected = FALSE /\ conn'.stack = 0
        /\ conn'.attempts = conn.attempts + 1
    BY <1>1, <1>2, <2>1, Drops
  <2>3. queue' \in Seq(Actors) /\ Locking'
    BY <1>4, <2>1, <2>2, LockingKeeps DEF RemoteInv
  <2>4. Owning'
    BY <2>2, OwningDrops DEF RemoteInv
  <2>5. a \in UnderWay'
    BY <2>2 DEF Moved, UnderWay, Reconnecting
  <2>6. Counting'
    BY <1>2, <2>2, <2>5, CountingKeeps DEF RemoteInv
  <2>7. Granting'
    BY <2>2, GrantingKeeps DEF RemoteInv
  <2>8. RemoteBase'
    BY <1>2, <2>2, <2>3 DEF RemoteBase, Moved
  <2> QED
    BY <2>3, <2>4, <2>6, <2>7, <2>8 DEF RemoteInv
<1>5. CASE ~(c.attempts >= MaxReconnects) /\ queue # <<>>
  <2>1. /\ conn' = counted /\ queue' = Append(queue, a)
        /\ actor' = [actor EXCEPT ![a].at = "dropping", ![a].again = @ \/ actor[a].at = "calling"]
    BY <1>5 DEF Retry, Acquire, counted
  <2>2. Moved(a, "dropping", actor[a].session, g, actor[a].mine)
    BY <1>2, <2>1, Waits
  <2>3. queue' \in Seq(Actors) /\ Locking'
    BY <2>1, <2>2, LockingKeeps DEF RemoteInv, Holding
  <2>4. Owning'
    BY <1>1, <2>1, <2>2, OwningKeeps DEF RemoteInv
  <2>5. a \in UnderWay'
    BY <2>2 DEF Moved, UnderWay, Reconnecting
  <2>6. Counting'
    BY <1>1, <1>2, <2>1, <2>2, <2>5, CountingKeeps DEF RemoteInv
  <2>7. Granting'
    BY <2>2, GrantingKeeps DEF RemoteInv
  <2>8. RemoteBase'
    BY <1>1, <1>2, <2>1, <2>2, <2>3 DEF RemoteBase, Moved
  <2> QED
    BY <2>3, <2>4, <2>6, <2>7, <2>8 DEF RemoteInv
<1> QED
  BY <1>3, <1>4, <1>5

LEMMA EnteringKeeps ==
    ASSUME RemoteAssumptions, RemoteInv, NEW a \in Actors, NEW c, Alike(c),
           NEW locked, NEW manager \in Actors \cup {Nobody}, Entering(a, c, locked, manager),
           \/ queue # <<>> /\ Head(queue) = a /\ locked = queue
           \/ queue = <<>> /\ locked = <<a>>,
           actor[a].at \in {"entering", "asleep", "new", "joining"},
           UNCHANGED <<saved, open, alive, leaked, oauth, valid, disturbed, given>>
    PROVE  RemoteInv'
<1>1. PICK p \in {"calling", "over", "refreshing", "dialing"}, s \in 0 .. MaxSessions :
        /\ Moved(a, p, s, actor[a].again, actor[a].mine)
        /\ p \in {"calling", "over"} => queue' = Tail(locked)
        /\ p \notin {"calling", "over"} => queue' = locked /\ failed' = failed
        /\ p = "calling" => actor[a].job = "call"
        /\ managing' \in Actors \cup {Nobody}
        /\ \/ Connected(c) /\ failed' = failed
           \/ p \notin {"calling", "over"}
           \/ ReconnectFailed(a)
  <2>1. ASSUME NEW handed \in 0 .. MaxSessions, Joined(a, handed, manager)
        PROVE  \E p \in {"calling", "over"} :
                  /\ Moved(a, p, handed, actor[a].again, actor[a].mine)
                  /\ p = "calling" => actor[a].job = "call"
                  /\ managing' \in Actors \cup {Nobody}
    <3> DEFINE p == IF actor[a].job = "call" /\ handed # 0 THEN "calling" ELSE "over"
    <3>1. p \in Whereabouts /\ p \in {"calling", "over"} /\ (p = "calling" => actor[a].job = "call")
      BY DEF Whereabouts
    <3>2. actor' = [actor EXCEPT ![a].at = p, ![a].session = handed]
      BY <2>1 DEF Joined
    <3> HIDE DEF p
    <3>3. Moved(a, p, handed, actor[a].again, actor[a].mine)
      BY <3>1, <3>2, GoesWith DEF RemoteInv
    <3>4. managing' \in Actors \cup {Nobody}
      BY <2>1 DEF Joined
    <3> QED
      BY <3>1, <3>3, <3>4
  <2>2. c.session \in 0 .. MaxSessions /\ 0 \in 0 .. MaxSessions /\ actor[a].session \in 0 .. MaxSessions
    BY ConnFields, ActorFields DEF Alike, RemoteInv
  <2>3. CASE Connected(c)
    <3>1. Joined(a, c.session, manager) /\ queue' = Tail(locked) /\ failed' = failed
      BY <2>3 DEF Entering
    <3> QED
      BY <2>1, <2>2, <2>3, <3>1
  <2>4. CASE ~Connected(c) /\ c.status = "pending_auth"
    <3>1. Joined(a, 0, manager) /\ queue' = Tail(locked) /\ ReconnectFailed(a)
      BY <2>4 DEF Entering
    <3> QED
      BY <2>1, <2>2, <3>1
  <2>5. CASE ~Connected(c) /\ c.status # "pending_auth"
    <3>1. PICK p \in {"refreshing", "dialing"} : Go(a, p)
      BY <2>5 DEF Entering
    <3>2. queue' = locked /\ managing' = manager /\ failed' = failed
      BY <2>5 DEF Entering
    <3>3. Moved(a, p, actor[a].session, actor[a].again, actor[a].mine)
      BY <3>1, Goes DEF Whereabouts, RemoteInv
    <3> QED
      BY <2>2, <3>2, <3>3
  <2> QED
    BY <2>3, <2>4, <2>5
<1>2. conn' = c
  BY DEF Entering
<1>3. /\ RemoteBase /\ failed \in Nat /\ MaxReconnects \in Nat /\ failed \in 0 .. MaxReconnects
      /\ actor[a].again \in BOOLEAN
  BY ConnFields, ActorFields DEF RemoteInv, RemoteBase, RemoteAssumptions
<1>4. failed' \in 0 .. MaxReconnects /\ failed' \in Nat /\ failed' >= failed
  BY <1>1, <1>3 DEF ReconnectFailed
<1>5. queue' \in Seq(Actors) /\ Locking'
  <2>1. CASE queue # <<>>
    BY <1>1, <2>1, LockingKeeps DEF RemoteInv, Holding
  <2>2. CASE queue = <<>>
    <3>1. Tail(<<a>>) = <<>> /\ Append(<<>>, a) = <<a>>
      OBVIOUS
    <3> QED
      BY <1>1, <2>2, <3>1, LockingKeeps DEF RemoteInv, Holding
  <2> QED
    BY <2>1, <2>2
<1>6. Owning'
  BY <1>1, <1>2, OwningKeeps DEF RemoteInv, Alike
<1>7. Counting'
  <2>1. conn' \in ConnRecords /\ conn'.attempts = conn.attempts /\ conn'.session = conn.session
    BY <1>2 DEF Alike
  <2>2. conn'.connected => conn'.session # 0 /\ conn'.attempts = 0
    BY <1>2 DEF Alike, RemoteInv, Counting
  <2>3. CASE Connected(c)
    BY <1>1, <1>2, <1>3, <1>4, <2>1, <2>2, <2>3, CountingKeeps DEF RemoteInv, Connected
  <2>4. CASE p \notin {"calling", "over"}
    <3>1. a \in UnderWay => a \in UnderWay'
      BY <1>1, <2>4 DEF UnderWay, Reconnecting, Moved
    <3> QED
      BY <1>1, <1>3, <1>4, <2>1, <2>2, <2>4, <3>1, CountingKeeps DEF RemoteInv
  <2>5. CASE ReconnectFailed(a)
    <3>1. a \in UnderWay => failed' = failed + 1 \/ failed >= MaxReconnects
      BY <1>3, <2>5 DEF UnderWay, Reconnecting, ReconnectFailed
    <3> QED
      BY <1>1, <1>3, <1>4, <2>1, <2>2, <3>1, CountingKeeps DEF RemoteInv
  <2> QED
    BY <1>1, <2>3, <2>4, <2>5
<1>8. Granting'
  BY <1>1, GrantingKeeps DEF RemoteInv
<1>9. RemoteBase'
  BY <1>1, <1>2, <1>3, <1>4, <1>5 DEF RemoteBase, Moved, Alike
<1> QED
  BY <1>5, <1>6, <1>7, <1>8, <1>9 DEF RemoteInv

LEMMA EnterOrWaitKeeps ==
    ASSUME RemoteAssumptions, RemoteInv, NEW a \in Actors, NEW c, Alike(c),
           NEW manager \in Actors \cup {Nobody}, EnterOrWait(a, c, manager),
           actor[a].at \in {"asleep", "new", "joining"},
           UNCHANGED <<saved, open, alive, leaked, oauth, valid, disturbed, given>>
    PROVE  RemoteInv'
<1>1. CASE queue = <<>>
  BY <1>1, EnteringKeeps DEF EnterOrWait
<1>2. CASE queue # <<>>
  <2>1. /\ queue' = Append(queue, a) /\ Go(a, "entering") /\ conn' = c
        /\ managing' = manager /\ failed' = failed
    BY <1>2 DEF EnterOrWait, Acquire
  <2>2. Moved(a, "entering", actor[a].session, actor[a].again, actor[a].mine)
    BY <2>1, Goes DEF Whereabouts, RemoteInv
  <2>3. /\ RemoteBase /\ failed \in Nat /\ actor[a].again \in BOOLEAN
    BY ConnFields, ActorFields DEF RemoteInv
  <2>4. queue' \in Seq(Actors) /\ Locking'
    BY <2>1, <2>2, LockingKeeps DEF RemoteInv, Holding
  <2>5. Owning'
    BY <2>1, <2>2, OwningKeeps DEF RemoteInv, Alike
  <2>6. a \in UnderWay => a \in UnderWay'
    BY <2>2 DEF UnderWay, Reconnecting, Moved
  <2>7. conn'.connected => conn'.session # 0 /\ conn'.attempts = 0
    BY <2>1 DEF Alike, RemoteInv, Counting
  <2>8. Counting'
    BY <2>1, <2>2, <2>3, <2>6, <2>7, CountingKeeps DEF RemoteInv, Alike
  <2>9. Granting'
    BY <2>2, GrantingKeeps DEF RemoteInv
  <2>10. RemoteBase'
    BY <2>1, <2>2, <2>3, <2>4 DEF RemoteBase, Moved, Alike
  <2> QED
    BY <2>4, <2>5, <2>8, <2>9, <2>10 DEF RemoteInv
<1> QED
  BY <1>1, <1>2

LEMMA AlikeItself ==
    ASSUME RemoteInv
    PROVE  /\ Alike(conn)
           /\ Alike([conn EXCEPT !.connected = FALSE]) /\ [conn EXCEPT !.connected = FALSE].connected = FALSE
           /\ Alike(Made)
<1>1. conn \in ConnRecords /\ saved \in Statuses /\ oauth \in OAuth
  BY DEF RemoteInv, RemoteBase
<1>2. Alike(conn)
  BY <1>1 DEF Alike
<1>3. Alike([conn EXCEPT !.connected = FALSE]) /\ [conn EXCEPT !.connected = FALSE].connected = FALSE
  BY <1>1 DEF Alike, ConnRecords
<1>4. NoState \in OAuth \/ oauth.token # 0
  BY <1>1 DEF OAuth, NoState
<1>5. PICK d \in OAuth : Made = IF conn.made THEN conn
                                ELSE [conn EXCEPT !.made = TRUE, !.status = saved, !.client = d]
  <2>1. CASE oauth.token = 0
    BY <1>4, <2>1 DEF Made
  <2>2. CASE oauth.token # 0
    BY <1>1, <2>2 DEF Made
  <2> QED
    BY <2>1, <2>2
<1>6. Alike(Made)
  BY <1>1, <1>2, <1>5 DEF Alike, ConnRecords
<1> QED
  BY <1>2, <1>3, <1>6

LEMMA CallKeeps ==
    ASSUME RemoteAssumptions, RemoteInv, NEW a \in Actors, Call(a) PROVE RemoteInv'
<1>1. /\ actor[a].job = "call" /\ actor[a].at = "new"
      /\ UNCHANGED <<saved, managing, open, alive, leaked, failed, oauth, valid, disturbed, given>>
  BY DEF Call, oauthVars
<1>2. CASE Connected(conn)
  <2>1. UNCHANGED <<conn, queue>> /\ actor' = [actor EXCEPT ![a].at = "calling", ![a].session = conn.session]
    BY <1>2 DEF Call
  <2>2. Moved(a, "calling", conn.session, actor[a].again, actor[a].mine)
    BY <2>1, GoesWith, ConnFields DEF Whereabouts, RemoteInv
  <2>3. RemoteBase /\ failed \in Nat /\ actor[a].again \in BOOLEAN /\ a \notin UnderWay
    BY <1>1, ConnFields, ActorFields DEF RemoteInv, UnderWay, Reconnecting
  <2>4. queue' \in Seq(Actors) /\ Locking'
    BY <2>1, <2>2, LockingKeeps DEF RemoteInv, Holding
  <2>5. Owning'
    BY <1>1, <2>1, <2>2, OwningKeeps DEF RemoteInv
  <2>6. conn' \in ConnRecords /\ conn'.attempts = 0 /\ conn'.session # 0
    BY <1>2, <2>1, <2>3 DEF Connected, RemoteInv, Counting, RemoteBase
  <2>7. Counting'
    BY <1>1, <2>1, <2>2, <2>3, <2>6, CountingKeeps DEF RemoteInv
  <2>8. Granting'
    BY <1>1, <2>2, GrantingKeeps DEF RemoteInv
  <2>9. RemoteBase'
    BY <1>1, <2>1, <2>2, <2>3, <2>4 DEF RemoteBase, Moved
  <2> QED
    BY <2>4, <2>5, <2>7, <2>8, <2>9 DEF RemoteInv
<1>3. CASE ~Connected(conn)
  <2>1. Retry(a, conn)
    BY <1>3 DEF Call
  <2>2. conn.connected = FALSE
    BY <1>3, ConnFields DEF Connected, RemoteInv, Counting
  <2> QED
    BY <1>1, <2>1, <2>2, AlikeItself, RetryKeeps
<1> QED
  BY <1>2, <1>3

(* A step that leaves the connection and the file as they are.            *)
LEMMA OnlyGoes ==
    ASSUME RemoteAssumptions, RemoteInv, NEW a \in Actors, NEW p \in Whereabouts,
           NEW s, NEW m, Moved(a, p, s, actor[a].again, m), UNCHANGED connVars,
           actor[a].at \notin Holding, p \notin Holding, a \notin UnderWay,
           actor[a].at # "refused", p # "new", p # "calling", given' \in Givens,
           given'.sessions = given.sessions
    PROVE  Locking' /\ Owning' /\ Counting'
<1>1. RemoteBase /\ failed \in Nat /\ actor[a].again \in BOOLEAN
  BY ConnFields, ActorFields DEF RemoteInv
<1>2. UNCHANGED <<conn, saved, queue, managing, open, alive, leaked, failed>>
  BY DEF connVars
<1>3. Locking'
  BY <1>1, <1>2, LockingKeeps DEF RemoteInv
<1>4. Owning'
  BY <1>2, OwningKeeps DEF RemoteInv, Holding
<1>5. conn' \in ConnRecords /\ (conn'.connected => conn'.session # 0 /\ conn'.attempts = 0)
  BY <1>1, <1>2 DEF RemoteInv, Counting, RemoteBase
<1>6. Counting'
  BY <1>1, <1>2, <1>5, CountingKeeps DEF RemoteInv
<1> QED
  BY <1>3, <1>4, <1>6

LEMMA AnsweredKeeps ==
    ASSUME RemoteAssumptions, RemoteInv, NEW a \in Actors, actor[a].at = "calling", Go(a, "over"),
           UNCHANGED <<connVars, oauthVars, given>>
    PROVE  RemoteInv'
<1>1. Moved(a, "over", actor[a].session, actor[a].again, actor[a].mine) /\ RemoteBase
  BY Goes DEF Whereabouts, RemoteInv
<1>2. Locking' /\ Owning' /\ Counting'
  BY <1>1, OnlyGoes DEF Whereabouts, Holding, UnderWay, Reconnecting, RemoteBase
<1>3. Granting'
  BY <1>1, GrantingKeeps DEF RemoteInv, oauthVars
<1>4. RemoteBase'
  BY <1>1 DEF RemoteBase, Moved, connVars, oauthVars
<1> QED
  BY <1>2, <1>3, <1>4 DEF RemoteInv

LEMMA BrokenKeeps ==
    ASSUME RemoteAssumptions, RemoteInv, NEW a \in Actors, Broken(a) PROVE RemoteInv'
<1>1. /\ actor[a].at = "calling"
      /\ UNCHANGED <<saved, managing, open, alive, leaked, failed, oauth, valid, disturbed, given>>
  BY DEF Broken, oauthVars
<1>2. CASE actor[a].again
  BY <1>1, <1>2, AnsweredKeeps DEF Broken, connVars, oauthVars
<1>3. CASE ~actor[a].again
  <2>1. Retry(a, [conn EXCEPT !.connected = FALSE])
    BY <1>3 DEF Broken
  <2>2. actor[a].job = "call"
    BY <1>1 DEF RemoteInv, Counting
  <2> DEFINE c == [conn EXCEPT !.connected = FALSE]
  <2>3. Alike(c) /\ c.connected = FALSE
    BY AlikeItself
  <2> HIDE DEF c
  <2> QED
    BY <1>1, <1>3, <2>1, <2>2, <2>3, RetryKeeps DEF c
<1> QED
  BY <1>2, <1>3

LEMMA DroppingKeeps ==
    ASSUME RemoteAssumptions, RemoteInv, NEW a \in Actors, Dropping(a, conn),
           \/ queue = <<>> /\ queue' = Append(queue, a)
           \/ queue # <<>> /\ Head(queue) = a /\ queue' = queue,
           actor[a].at \in {"new", "dropping"}, actor[a].at = "new" => actor[a].job # "call",
           managing' \in Actors \cup {Nobody},
           UNCHANGED <<saved, open, alive, leaked, failed, oauth, valid, disturbed, given>>
    PROVE  RemoteInv'
<1>1. /\ RemoteBase /\ failed \in Nat /\ actor[a].again \in BOOLEAN /\ conn \in ConnRecords
      /\ (actor[a].again \/ actor[a].at = "calling") = actor[a].again
  BY ConnFields, ActorFields DEF RemoteInv, RemoteBase
<1>2. /\ Moved(a, "closing", conn.stack, actor[a].again, actor[a].mine)
      /\ conn' \in ConnRecords /\ conn'.connected = FALSE /\ conn'.stack = 0
      /\ conn'.attempts = conn.attempts
  BY <1>1, Drops
<1>3. queue' \in Seq(Actors) /\ Locking'
  BY <1>1, <1>2, LockingKeeps DEF RemoteInv
<1>4. Owning'
  BY <1>1, <1>2, OwningDrops DEF RemoteInv
<1>5. a \in UnderWay => a \in UnderWay'
  BY <1>2 DEF Moved, UnderWay, Reconnecting
<1>6. Counting'
  BY <1>1, <1>2, <1>5, CountingKeeps DEF RemoteInv
<1>7. Granting'
  BY <1>1, <1>2, GrantingKeeps DEF RemoteInv
<1>8. RemoteBase'
  BY <1>1, <1>2, <1>3 DEF RemoteBase, Moved
<1> QED
  BY <1>3, <1>4, <1>6, <1>7, <1>8 DEF RemoteInv

LEMMA DisconnectKeeps ==
    ASSUME RemoteAssumptions, RemoteInv, NEW a \in Actors, Disconnect(a) PROVE RemoteInv'
<1>1. /\ actor[a].job = "disconnect" /\ actor[a].at = "new" /\ managing' = a /\ queue' = Append(queue, a)
      /\ UNCHANGED <<saved, open, alive, leaked, failed, oauth, valid, disturbed, given>>
  BY DEF Disconnect, Acquire, oauthVars
<1>2. CASE queue = <<>>
  BY <1>1, <1>2, DroppingKeeps DEF Disconnect
<1>3. CASE queue # <<>>
  <2>1. Go(a, "dropping") /\ conn' = conn
    BY <1>3 DEF Disconnect
  <2>2. Moved(a, "dropping", actor[a].session, actor[a].again, actor[a].mine)
    BY <2>1, Goes DEF Whereabouts, RemoteInv
  <2>3. RemoteBase /\ failed \in Nat /\ actor[a].again \in BOOLEAN /\ a \notin UnderWay
    BY <1>1, ConnFields, ActorFields DEF RemoteInv, UnderWay, Reconnecting
  <2>4. queue' \in Seq(Actors) /\ Locking'
    BY <1>1, <2>2, LockingKeeps DEF RemoteInv, Holding
  <2>5. Owning'
    BY <1>1, <2>1, <2>2, OwningKeeps DEF RemoteInv
  <2>6. conn' \in ConnRecords /\ (conn'.connected => conn'.session # 0 /\ conn'.attempts = 0)
    BY <2>1, <2>3 DEF RemoteInv, Counting, RemoteBase
  <2>7. Counting'
    BY <1>1, <2>1, <2>2, <2>3, <2>6, CountingKeeps DEF RemoteInv
  <2>8. Granting'
    BY <1>1, <2>2, GrantingKeeps DEF RemoteInv
  <2>9. RemoteBase'
    BY <1>1, <2>1, <2>2, <2>3, <2>4 DEF RemoteBase, Moved
  <2> QED
    BY <2>4, <2>5, <2>7, <2>8, <2>9 DEF RemoteInv
<1> QED
  BY <1>2, <1>3

LEMMA DropKeeps ==
    ASSUME RemoteAssumptions, RemoteInv, NEW a \in Actors, Drop(a) PROVE RemoteInv'
<1>1. managing \in Actors \cup {Nobody}
  BY DEF RemoteInv, RemoteBase
<1> QED
  BY <1>1, DroppingKeeps DEF Drop, Holds, oauthVars

LEMMA ClosedKeeps ==
    ASSUME RemoteAssumptions, RemoteInv, NEW a \in Actors, Closed(a) PROVE RemoteInv'
<1> DEFINE s == actor[a].session
           p == IF actor[a].job = "call" THEN "asleep" ELSE "over"
<1>1. /\ actor[a].at = "closing" /\ open' = open \ {s} /\ alive' = alive \ {s}
      /\ queue' = Tail(queue) /\ managing' \in {managing, Nobody}
      /\ UNCHANGED <<leaked, failed, oauth, valid, disturbed, given>> /\ Go(a, p)
  BY DEF Closed, Free, Release, Unlock, oauthVars
<1>2. conn' \in {conn, [conn EXCEPT !.status = "stopped"]} /\ saved' \in {saved, "stopped"}
  BY DEF Closed
<1>3. RemoteBase /\ failed \in Nat /\ actor[a].again \in BOOLEAN /\ conn \in ConnRecords
  BY ConnFields, ActorFields DEF RemoteInv, RemoteBase
<1>4. /\ conn' \in ConnRecords /\ conn'.stack = conn.stack /\ conn'.attempts = conn.attempts
      /\ conn'.connected = conn.connected /\ conn'.session = conn.session
  BY <1>2, <1>3 DEF ConnRecords, Statuses
<1>5. Moved(a, p, s, actor[a].again, actor[a].mine)
  BY <1>1, <1>3, Goes DEF Whereabouts
<1>6. queue # <<>> /\ Head(queue) = a
  BY <1>1 DEF RemoteInv, Locking, Holding
<1>7. queue' \in Seq(Actors) /\ Locking'
  BY <1>1, <1>3, <1>5, <1>6, LockingKeeps DEF RemoteInv, Holding
<1>8. Owning'
  <2>1. leaked' \subseteq open' /\ open' \subseteq 1 .. given'.sessions
    BY <1>1 DEF RemoteInv, Owning
  <2>2. conn'.stack # 0 => conn'.stack \in open' \ leaked'
    BY <1>1, <1>4 DEF RemoteInv, Owning
  <2>3. \A b \in Actors : actor'[b].at # "closing"
    BY <1>5, <1>6 DEF Moved, RemoteInv, Locking, Holding
  <2>4. ASSUME NEW i \in open' \ leaked', i # conn'.stack
        PROVE  i \in {actor'[b].session : b \in {x \in Actors : actor'[x].at = "closing"}}
    <3>1. PICK b \in Actors : actor[b].at = "closing" /\ actor[b].session = i
      <4>1. i \in open \ leaked /\ i # conn.stack
        BY <1>1, <1>4, <2>4
      <4>2. SessionsAreOwned
        BY DEF RemoteInv, Owning
      <4>3. i \in {actor[b].session : b \in {x \in Actors : actor[x].at = "closing"}}
        BY <4>1, <4>2 DEF SessionsAreOwned
      <4> QED
        BY <4>3
    <3>2. b # a
      BY <1>1, <2>4, <3>1
    <3> QED
      BY <1>5, <3>1, <3>2 DEF Moved
  <2>5. SessionsAreOwned'
    BY <2>4 DEF SessionsAreOwned
  <2> QED
    BY <1>1, <1>4, <2>1, <2>2, <2>3, <2>5 DEF RemoteInv, Owning
<1>9. Counting'
  <2>1. a \in UnderWay => a \in UnderWay'
    BY <1>5 DEF UnderWay, Reconnecting, Moved
  <2>2. conn'.connected => conn'.session # 0 /\ conn'.attempts = 0
    BY <1>4 DEF RemoteInv, Counting
  <2>3. p # "new" /\ p # "calling"
    OBVIOUS
  <2> HIDE DEF p, s
  <2> QED
    BY <1>1, <1>3, <1>4, <1>5, <2>1, <2>2, <2>3, CountingKeeps DEF RemoteInv
<1>10. Granting'
  BY <1>1, <1>3, <1>5, GrantingKeeps DEF RemoteInv
<1>11. RemoteBase'
  BY <1>1, <1>2, <1>3, <1>4, <1>5, <1>7 DEF RemoteBase, Moved, Statuses
<1> QED
  BY <1>7, <1>8, <1>9, <1>10, <1>11 DEF RemoteInv

LEMMA JoinKeeps ==
    ASSUME RemoteAssumptions, RemoteInv, NEW a \in Actors, Wake(a) \/ Join(a) \/ Enter(a)
    PROVE  RemoteInv'
<1>1. managing \in Actors \cup {Nobody}
  BY DEF RemoteInv, RemoteBase
<1>2. CASE Wake(a)
  BY <1>1, <1>2, AlikeItself, EnterOrWaitKeeps DEF Wake, oauthVars
<1>3. CASE Join(a)
  BY <1>3, AlikeItself, EnterOrWaitKeeps DEF Join, oauthVars
<1>4. CASE Enter(a)
  BY <1>1, <1>4, AlikeItself, EnteringKeeps DEF Enter, Holds, oauthVars
<1> QED
  BY <1>2, <1>3, <1>4

LEMMA RefreshKeeps ==
    ASSUME RemoteAssumptions, RemoteInv, NEW a \in Actors, Refresh(a) PROVE RemoteInv'
<1>1. /\ actor[a].at = "refreshing" /\ Go(a, "dialing")
      /\ UNCHANGED <<saved, queue, managing, open, alive, leaked, failed>>
  BY DEF Refresh
<1>2. /\ RemoteBase /\ failed \in Nat /\ actor[a].again \in BOOLEAN /\ conn \in ConnRecords
      /\ conn.client \in OAuth
  BY ConnFields, ActorFields DEF RemoteInv, RemoteBase
<1>3. Moved(a, "dialing", actor[a].session, actor[a].again, actor[a].mine)
  BY <1>1, <1>2, Goes DEF Whereabouts
<1>4. /\ conn' \in ConnRecords /\ conn'.stack = conn.stack /\ conn'.attempts = conn.attempts
      /\ conn'.connected = conn.connected /\ conn'.session = conn.session /\ conn'.client \in OAuth
      /\ given' \in Givens /\ given'.sessions = given.sessions
      /\ valid' \subseteq 1 .. MaxTokens /\ oauth' \in {oauth, conn'.client}
      /\ \/ UNCHANGED <<oauth, disturbed>>
         \/ Rewrite(a, conn'.client)
  <2>1. given \in Givens /\ valid \subseteq 1 .. MaxTokens /\ MaxTokens \in Nat
    BY <1>2 DEF RemoteBase, RemoteAssumptions
  <2>2. CASE /\ given.tokens < MaxTokens /\ given' = [given EXCEPT !.tokens = @ + 1]
             /\ valid' = valid \cup {given.tokens + 1}
             /\ conn' = [conn EXCEPT !.client.token = given.tokens + 1]
             /\ Rewrite(a, conn'.client)
    <3> DEFINE t == given.tokens + 1
    <3>1. t \in 1 .. MaxTokens /\ t \in 0 .. MaxTokens
      BY <2>1, <2>2 DEF Givens
    <3>2. given' \in Givens /\ given'.sessions = given.sessions
      BY <2>1, <2>2, <3>1 DEF Givens
    <3> DEFINE d == [conn.client EXCEPT !.token = t]
    <3>3. d \in OAuth
      BY <1>2, <3>1 DEF OAuth
    <3>4. conn' = [conn EXCEPT !.client = d]
      BY <1>2, <2>2
    <3> HIDE DEF d
    <3>5. /\ conn' \in ConnRecords /\ conn'.stack = conn.stack /\ conn'.attempts = conn.attempts
          /\ conn'.connected = conn.connected /\ conn'.session = conn.session /\ conn'.client = d
      BY <1>2, <3>3, <3>4 DEF ConnRecords
    <3> QED
      BY <2>1, <2>2, <3>1, <3>2, <3>3, <3>5 DEF Rewrite
  <2>3. CASE Fault /\ UNCHANGED <<conn, oauth, valid, disturbed>>
    <3>1. given' \in Givens /\ given'.sessions = given.sessions
      BY <2>1, <2>3 DEF Fault, Givens, RemoteAssumptions
    <3> QED
      BY <1>2, <2>1, <2>3, <3>1
  <2> QED
    BY <2>2, <2>3 DEF Refresh
<1>5. queue # <<>> /\ Head(queue) = a
  BY <1>1 DEF RemoteInv, Locking, Holding
<1>6. queue' \in Seq(Actors) /\ Locking'
  BY <1>1, <1>2, <1>3, <1>5, LockingKeeps DEF RemoteInv
<1>7. Owning'
  BY <1>1, <1>3, <1>4, OwningKeeps DEF RemoteInv
<1>8. a \in UnderWay => a \in UnderWay'
  BY <1>3 DEF UnderWay, Reconnecting, Moved
<1>9. conn'.connected => conn'.session # 0 /\ conn'.attempts = 0
  BY <1>4 DEF RemoteInv, Counting
<1>10. Counting'
  BY <1>1, <1>2, <1>3, <1>4, <1>8, <1>9, CountingKeeps DEF RemoteInv
<1>11. Granting' /\ disturbed' \subseteq Actors
  BY <1>2, <1>3, <1>4, GrantingKeeps DEF RemoteInv
<1>12. RemoteBase'
  BY <1>1, <1>2, <1>3, <1>4, <1>6, <1>11 DEF RemoteBase, Moved
<1> QED
  BY <1>6, <1>7, <1>10, <1>11, <1>12 DEF RemoteInv

LEMMA DialKeeps ==
    ASSUME RemoteAssumptions, RemoteInv, NEW a \in Actors, Dial(a) PROVE RemoteInv'
<1> DEFINE id == given.sessions + 1
<1>1. /\ actor[a].at = "dialing" /\ given.sessions < MaxSessions /\ Go(a, "handshake")
      /\ given' = [given EXCEPT !.sessions = id] /\ open' = open \cup {id} /\ alive' = alive \cup {id}
      /\ leaked' = leaked \cup ({conn.stack} \ {0})
      /\ conn' = [conn EXCEPT !.stack = id, !.session = id]
      /\ UNCHANGED <<saved, queue, managing, failed, oauth, valid, disturbed>>
  BY DEF Dial, oauthVars
<1>2. /\ RemoteBase /\ failed \in Nat /\ actor[a].again \in BOOLEAN /\ conn \in ConnRecords
      /\ given \in Givens /\ given.sessions \in Nat /\ MaxSessions \in Nat
  <2>1. MaxSessions \in Nat /\ given.sessions \in 0 .. MaxSessions /\ given \in Givens
    BY ConnFields DEF RemoteInv, RemoteBase, RemoteAssumptions
  <2>2. given.sessions \in Nat
    BY <2>1
  <2>3. RemoteBase /\ conn \in ConnRecords
    BY DEF RemoteInv, RemoteBase
  <2>4. failed \in Nat /\ actor[a].again \in BOOLEAN
    BY <2>3, ConnFields, ActorFields
  <2> QED
    BY <2>1, <2>2, <2>3, <2>4
<1>3. Moved(a, "handshake", actor[a].session, actor[a].again, actor[a].mine)
  BY <1>1, <1>2, Goes DEF Whereabouts
<1>4. id \in 1 .. MaxSessions /\ id \in 0 .. MaxSessions /\ id # 0
  BY <1>1, <1>2
<1>5. given' \in Givens /\ given'.sessions = id
  BY <1>1, <1>2, <1>4 DEF Givens
<1>6. /\ conn' \in ConnRecords /\ conn'.stack = id /\ conn'.attempts = conn.attempts
      /\ conn'.connected = conn.connected /\ conn'.session = id
  BY <1>1, <1>2, <1>4 DEF ConnRecords
<1> HIDE DEF id
<1>7. queue # <<>> /\ Head(queue) = a
  BY <1>1 DEF RemoteInv, Locking, Holding
<1>8. queue' \in Seq(Actors) /\ Locking'
  BY <1>1, <1>2, <1>3, <1>7, LockingKeeps DEF RemoteInv
<1>9. Owning'
  <2>1. id = given.sessions + 1 /\ open \subseteq 1 .. given.sessions /\ leaked \subseteq open
    BY DEF RemoteInv, Owning, id
  <2>2. leaked' \subseteq open' /\ open' \subseteq 1 .. given'.sessions
    BY <1>1, <1>2, <1>5, <2>1 DEF RemoteInv, Owning
  <2>3. id \notin open
    BY <1>2, <2>1
  <2>4. conn'.stack \in open' \ leaked'
    <3>1. conn.stack # 0 => conn.stack \in open
      BY DEF RemoteInv, Owning
    <3> QED
      BY <1>1, <1>6, <2>1, <2>3, <3>1
  <2>5. ASSUME NEW b \in Actors, actor'[b].at = "closing"
        PROVE  /\ actor'[b].session \in 0 .. given'.sessions /\ actor'[b].session \notin leaked'
               /\ actor'[b].session # 0 => actor'[b].session # conn'.stack /\ actor'[b].session \in open'
    <3>1. b # a /\ actor'[b] = actor[b]
      BY <1>3, <2>5 DEF Moved
    <3>2. /\ actor[b].session \in 0 .. given.sessions /\ actor[b].session \notin leaked
          /\ actor[b].session # 0 => actor[b].session # conn.stack /\ actor[b].session \in open
      BY <2>5, <3>1 DEF RemoteInv, Owning
    <3> QED
      BY <1>1, <1>2, <1>5, <1>6, <2>1, <3>1, <3>2
  <2>6. ASSUME NEW i \in open' \ leaked', i # conn'.stack
        PROVE  i \in {actor'[b].session : b \in {x \in Actors : actor'[x].at = "closing"}}
    <3>1. i \in open \ leaked /\ i # conn.stack
      <4>1. i # 0
        BY <1>2, <2>1, <2>6, <1>1, <1>6
      <4> QED
        BY <1>1, <1>6, <2>6, <4>1
    <3>2. i \in {actor[b].session : b \in {x \in Actors : actor[x].at = "closing"}}
      BY <3>1 DEF RemoteInv, Owning, SessionsAreOwned
    <3>3. PICK b \in Actors : actor[b].at = "closing" /\ actor[b].session = i
      BY <3>2
    <3>4. b # a /\ actor'[b] = actor[b]
      BY <1>1, <1>3, <3>3 DEF Moved
    <3> QED
      BY <3>3, <3>4
  <2>7. SessionsAreOwned'
    BY <2>6 DEF SessionsAreOwned
  <2> QED
    BY <2>2, <2>4, <2>5, <2>7 DEF Owning
<1>10. a \in UnderWay => a \in UnderWay'
  BY <1>3 DEF UnderWay, Reconnecting, Moved
<1>11. conn'.connected => conn'.session # 0 /\ conn'.attempts = 0
  BY <1>4, <1>6 DEF RemoteInv, Counting
<1>12. Counting'
  BY <1>1, <1>2, <1>3, <1>6, <1>10, <1>11, CountingKeeps DEF RemoteInv
<1>13. Granting'
  BY <1>1, <1>2, <1>3, GrantingKeeps DEF RemoteInv
<1>14. RemoteBase'
  BY <1>1, <1>2, <1>3, <1>4, <1>5, <1>6, <1>8 DEF RemoteBase, Moved
<1> QED
  BY <1>8, <1>9, <1>12, <1>13, <1>14 DEF RemoteInv

LEMMA JoinedMoves ==
    ASSUME RemoteAssumptions, RemoteBase, NEW a \in Actors, NEW handed \in 0 .. MaxSessions,
           Joined(a, handed, managing)
    PROVE  \E p \in {"calling", "over"} :
              /\ Moved(a, p, handed, actor[a].again, actor[a].mine)
              /\ p = "calling" => actor[a].job = "call"
              /\ managing' \in Actors \cup {Nobody}
<1> DEFINE p == IF actor[a].job = "call" /\ handed # 0 THEN "calling" ELSE "over"
<1>1. p \in Whereabouts /\ p \in {"calling", "over"} /\ (p = "calling" => actor[a].job = "call")
  BY DEF Whereabouts
<1>2. actor' = [actor EXCEPT ![a].at = p, ![a].session = handed]
  BY DEF Joined
<1> HIDE DEF p
<1>3. Moved(a, p, handed, actor[a].again, actor[a].mine)
  BY <1>1, <1>2, GoesWith
<1>4. managing' \in Actors \cup {Nobody}
  BY DEF Joined, RemoteBase
<1> QED
  BY <1>1, <1>3, <1>4

LEMMA WelcomeKeeps ==
    ASSUME RemoteAssumptions, RemoteInv, NEW a \in Actors, Welcome(a) PROVE RemoteInv'
<1>1. /\ actor[a].at = "handshake" /\ conn.session \in alive
      /\ conn' = Reset([conn EXCEPT !.connected = TRUE, !.status = "running"])
      /\ saved' = "running" /\ failed' = 0 /\ queue' = Tail(queue) /\ Joined(a, conn.session, managing)
      /\ UNCHANGED <<open, alive, leaked, oauth, valid, disturbed, given>>
  BY DEF Welcome, Release, oauthVars
<1>2. /\ RemoteBase /\ failed \in Nat /\ actor[a].again \in BOOLEAN /\ conn \in ConnRecords
      /\ conn.session \in 0 .. MaxSessions /\ MaxReconnects \in Nat
  BY ConnFields, ActorFields DEF RemoteInv, RemoteBase, RemoteAssumptions
<1>3. PICK p \in {"calling", "over"} :
        /\ Moved(a, p, conn.session, actor[a].again, actor[a].mine)
        /\ p = "calling" => actor[a].job = "call"
        /\ managing' \in Actors \cup {Nobody}
  BY <1>1, <1>2, JoinedMoves
<1>4. /\ conn' \in ConnRecords /\ conn'.stack = conn.stack /\ conn'.attempts = 0
      /\ conn'.session = conn.session
  BY <1>1, <1>2 DEF Reset, ConnRecords, Statuses
<1>5. conn.session # 0
  BY <1>1, <1>2 DEF RemoteBase
<1>6. queue # <<>> /\ Head(queue) = a
  BY <1>1 DEF RemoteInv, Locking, Holding
<1>7. queue' \in Seq(Actors) /\ Locking'
  BY <1>1, <1>2, <1>3, <1>6, LockingKeeps DEF RemoteInv, Holding
<1>8. Owning'
  BY <1>1, <1>3, <1>4, OwningKeeps DEF RemoteInv
<1>9. Counting'
  BY <1>1, <1>2, <1>3, <1>4, <1>5, CountingKeeps DEF RemoteInv
<1>10. Granting'
  BY <1>1, <1>2, <1>3, GrantingKeeps DEF RemoteInv
<1>11. RemoteBase'
  BY <1>1, <1>2, <1>3, <1>4, <1>7 DEF RemoteBase, Moved, Statuses
<1> QED
  BY <1>7, <1>8, <1>9, <1>10, <1>11 DEF RemoteInv

LEMMA RejectedKeeps ==
    ASSUME RemoteAssumptions, RemoteInv, NEW a \in Actors, Rejected(a) PROVE RemoteInv'
<1>1. /\ actor[a].at = "handshake" /\ saved' \in {"pending_auth", "error"}
      /\ conn' = [conn EXCEPT !.status = saved', !.stack = 0, !.connected = FALSE]
      /\ open' = open \ {conn.stack} /\ alive' = alive \ {conn.stack}
      /\ queue' = Tail(queue) /\ Joined(a, 0, managing) /\ ReconnectFailed(a)
      /\ UNCHANGED <<leaked, oauth, valid, disturbed>> /\ (Fault \/ UNCHANGED given)
  BY DEF Rejected, Free, Release, oauthVars
<1>2. /\ RemoteBase /\ failed \in Nat /\ actor[a].again \in BOOLEAN /\ conn \in ConnRecords
      /\ MaxReconnects \in Nat /\ 0 \in 0 .. MaxSessions /\ failed \in 0 .. MaxReconnects
      /\ given \in Givens /\ MaxFaults \in Nat
  BY ConnFields, ActorFields DEF RemoteInv, RemoteBase, RemoteAssumptions
<1>3. PICK p \in {"calling", "over"} :
        /\ Moved(a, p, 0, actor[a].again, actor[a].mine)
        /\ p = "calling" => actor[a].job = "call"
        /\ managing' \in Actors \cup {Nobody}
  BY <1>1, <1>2, JoinedMoves
<1>4. /\ conn' \in ConnRecords /\ conn'.stack = 0 /\ conn'.attempts = conn.attempts
      /\ conn'.connected = FALSE
  BY <1>1, <1>2 DEF ConnRecords, Statuses
<1>5. given' \in Givens /\ given'.sessions = given.sessions
  BY <1>1, <1>2 DEF Fault, Givens
<1>6. queue # <<>> /\ Head(queue) = a
  BY <1>1 DEF RemoteInv, Locking, Holding
<1>7. queue' \in Seq(Actors) /\ Locking'
  BY <1>1, <1>2, <1>3, <1>6, LockingKeeps DEF RemoteInv, Holding
<1>8. Owning'
  <2>1. /\ leaked \subseteq open /\ open \subseteq 1 .. given.sessions
        /\ conn.stack # 0 => conn.stack \in open \ leaked
    BY DEF RemoteInv, Owning
  <2>2. leaked' \subseteq open' /\ open' \subseteq 1 .. given'.sessions
    BY <1>1, <1>5, <2>1
  <2>3. \A b \in Actors : (actor'[b].at = "closing" <=> actor[b].at = "closing")
                          /\ (actor'[b].at = "closing" => actor'[b] = actor[b])
    BY <1>1, <1>3 DEF Moved
  <2>4. ASSUME NEW i \in open' \ leaked'
        PROVE  i \in {actor'[b].session : b \in {x \in Actors : actor'[x].at = "closing"}}
    <3>1. i \in open \ leaked /\ i # conn.stack
      BY <1>1, <2>4
    <3>2. i \in {actor[b].session : b \in {x \in Actors : actor[x].at = "closing"}}
      BY <3>1 DEF RemoteInv, Owning, SessionsAreOwned
    <3>3. PICK b \in Actors : actor[b].at = "closing" /\ actor[b].session = i
      BY <3>2
    <3> QED
      BY <2>3, <3>3
  <2>5. SessionsAreOwned'
    BY <2>4 DEF SessionsAreOwned
  <2>6. \A b \in Actors : actor'[b].at = "closing" =>
          /\ actor'[b].session \in 0 .. given'.sessions
          /\ actor'[b].session \notin leaked'
          /\ actor'[b].session # 0 => actor'[b].session \in open'
    BY <1>1, <1>5, <2>3 DEF RemoteInv, Owning
  <2> QED
    BY <1>4, <2>2, <2>5, <2>6 DEF Owning
<1>9. Counting'
  <2>1. failed' \in Nat /\ failed' >= failed
    BY <1>1, <1>2 DEF ReconnectFailed
  <2>2. a \in UnderWay => failed' = failed + 1 \/ failed >= MaxReconnects
    BY <1>1, <1>2 DEF UnderWay, Reconnecting, ReconnectFailed
  <2> QED
    BY <1>1, <1>2, <1>3, <1>4, <2>1, <2>2, CountingKeeps DEF RemoteInv
<1>10. Granting'
  BY <1>1, <1>2, <1>3, GrantingKeeps DEF RemoteInv
<1>11. RemoteBase'
  <2>1. failed' \in 0 .. MaxReconnects
    BY <1>1, <1>2 DEF ReconnectFailed
  <2> QED
    BY <1>1, <1>2, <1>3, <1>4, <1>5, <1>7, <2>1 DEF RemoteBase, Moved, Statuses
<1> QED
  BY <1>7, <1>8, <1>9, <1>10, <1>11 DEF RemoteInv

(* A step of an authorization, which leaves the connection as it is.       *)
Flow == {"discovering", "registering", "issued", "exchanging", "joining", "over", "denied"}

LEMMA FlowKeeps ==
    ASSUME RemoteAssumptions, RemoteInv, NEW a \in Actors, NEW p \in Flow, NEW m \in OAuth,
           Moved(a, p, actor[a].session, actor[a].again, m),
           actor[a].at \in {"new", "discovering", "registering", "issued", "exchanging"},
           UNCHANGED <<conn, queue, managing, open, alive, leaked, failed>>, saved' \in Statuses,
           given' \in Givens, given'.sessions = given.sessions, valid' \subseteq 1 .. MaxTokens,
           oauth' \in OAuth, disturbed' \subseteq Actors
    PROVE  RemoteBase' /\ Locking' /\ Owning' /\ Counting'
<1>1. RemoteBase /\ failed \in Nat /\ actor[a].again \in BOOLEAN /\ a \notin UnderWay
  BY ConnFields, ActorFields DEF RemoteInv, UnderWay, Reconnecting
<1>2. p \notin Holding /\ p # "new" /\ p # "calling" /\ p # "closing"
  BY DEF Flow, Holding
<1>3. Locking'
  BY <1>1, <1>2, LockingKeeps DEF RemoteInv
<1>4. Owning'
  BY <1>2, OwningKeeps DEF RemoteInv
<1>5. conn' \in ConnRecords /\ (conn'.connected => conn'.session # 0 /\ conn'.attempts = 0)
  BY <1>1 DEF RemoteInv, Counting, RemoteBase
<1>6. Counting'
  BY <1>1, <1>2, <1>5, CountingKeeps DEF RemoteInv
<1>7. RemoteBase'
  BY <1>1 DEF RemoteBase, Moved
<1> QED
  BY <1>3, <1>4, <1>6, <1>7

LEMMA StartFlowKeeps ==
    ASSUME RemoteAssumptions, RemoteInv, NEW a \in Actors, StartFlow(a) PROVE RemoteInv'
<1>1. /\ actor[a].at = "new" /\ actor' = [actor EXCEPT ![a].at = "discovering", ![a].mine = oauth]
      /\ UNCHANGED <<conn, saved, queue, managing, open, alive, leaked, failed>>
      /\ UNCHANGED <<oauth, valid, disturbed, given>>
  BY DEF StartFlow, connVars, oauthVars
<1>2. RemoteBase
  BY DEF RemoteInv
<1>3. Moved(a, "discovering", actor[a].session, actor[a].again, oauth)
  BY <1>1, <1>2, Reads DEF Whereabouts
<1>4. RemoteBase' /\ Locking' /\ Owning' /\ Counting'
  BY <1>1, <1>2, <1>3, FlowKeeps DEF Flow, RemoteBase
<1>5. Granting'
  BY <1>1, <1>2, <1>3, GrantingKeeps DEF RemoteInv
<1> QED
  BY <1>4, <1>5 DEF RemoteInv

LEMMA DiscoveredKeeps ==
    ASSUME RemoteAssumptions, RemoteInv, NEW a \in Actors, Discovered(a) PROVE RemoteInv'
<1>1. /\ actor[a].at = "discovering" /\ Go(a, "registering") /\ Rewrite(a, actor[a].mine)
      /\ UNCHANGED <<conn, saved, queue, managing, open, alive, leaked, failed>>
      /\ UNCHANGED <<valid, given>>
  BY DEF Discovered, connVars
<1>2. RemoteBase /\ actor[a].mine \in OAuth
  BY ActorFields DEF RemoteInv
<1>3. Moved(a, "registering", actor[a].session, actor[a].again, actor[a].mine)
  BY <1>1, <1>2, Goes DEF Whereabouts
<1>4. Granting' /\ disturbed' \subseteq Actors
  BY <1>1, <1>2, <1>3, GrantingKeeps DEF RemoteInv
<1>5. oauth' = actor[a].mine
  BY <1>1 DEF Rewrite
<1>6. RemoteBase' /\ Locking' /\ Owning' /\ Counting'
  BY <1>1, <1>2, <1>3, <1>4, <1>5, FlowKeeps DEF Flow, RemoteBase
<1> QED
  BY <1>4, <1>6 DEF RemoteInv

LEMMA IssueKeeps ==
    ASSUME RemoteAssumptions, RemoteInv, NEW a \in Actors, Issue(a) PROVE RemoteInv'
<1>1. /\ actor[a].at = "registering" /\ Go(a, "issued") /\ Rewrite(a, Issued(a))
      /\ UNCHANGED <<conn, saved, queue, managing, open, alive, leaked, failed>>
      /\ UNCHANGED <<valid, given>>
  BY DEF Issue, connVars
<1>2. RemoteBase /\ actor[a].mine \in OAuth
  BY ActorFields DEF RemoteInv
<1>3. Moved(a, "issued", actor[a].session, actor[a].again, actor[a].mine)
  BY <1>1, <1>2, Goes DEF Whereabouts
<1>4. oauth' \in OAuth /\ oauth'.verifier = a
  BY <1>1, <1>2 DEF Rewrite, Issued, OAuth
<1>5. /\ disturbed \subseteq disturbed' /\ disturbed' \subseteq Actors
      /\ \A b \in Actors \ {a} : actor[b].at = "issued" => b \in disturbed'
  BY <1>1, <1>2 DEF Rewrite, RemoteBase
<1>6. Granting'
  BY <1>3, <1>4, <1>5 DEF Moved, RemoteInv, Granting, GrantsSucceed
<1>7. RemoteBase' /\ Locking' /\ Owning' /\ Counting'
  BY <1>1, <1>2, <1>3, <1>4, <1>5, FlowKeeps DEF Flow, RemoteBase
<1> QED
  BY <1>6, <1>7 DEF RemoteInv

LEMMA CallbackKeeps ==
    ASSUME RemoteAssumptions, RemoteInv, NEW a \in Actors, Callback(a) PROVE RemoteInv'
<1> DEFINE p == IF oauth.verifier = Nobody THEN "denied" ELSE "exchanging"
<1>1. /\ actor[a].at = "issued" /\ actor' = [actor EXCEPT ![a].at = p, ![a].mine = oauth]
      /\ UNCHANGED <<conn, saved, queue, managing, open, alive, leaked, failed>>
      /\ UNCHANGED <<oauth, valid, disturbed, given>>
  BY DEF Callback, connVars, oauthVars
<1>2. RemoteBase /\ p \in Whereabouts /\ p \in Flow
  BY DEF RemoteInv, Whereabouts, Flow
<1>3. /\ oauth.verifier = a \/ a \in disturbed
      /\ p = "denied" => oauth.verifier = Nobody
      /\ p \in {"denied", "exchanging"} /\ Nobody # a
  BY <1>1 DEF RemoteInv, Granting, RemoteAssumptions
<1> HIDE DEF p
<1>4. Moved(a, p, actor[a].session, actor[a].again, oauth)
  BY <1>1, <1>2, Reads
<1>5. RemoteBase' /\ Locking' /\ Owning' /\ Counting'
  BY <1>1, <1>2, <1>4, FlowKeeps DEF RemoteBase
<1>6. Granting'
  BY <1>1, <1>3, <1>4 DEF Moved, RemoteInv, Granting, GrantsSucceed
<1> QED
  BY <1>5, <1>6 DEF RemoteInv

LEMMA ExchangeKeeps ==
    ASSUME RemoteAssumptions, RemoteInv, NEW a \in Actors, Exchange(a) PROVE RemoteInv'
<1> DEFINE t == given.tokens + 1
<1>1. /\ actor[a].at = "exchanging" /\ given.tokens < MaxTokens /\ given' = [given EXCEPT !.tokens = t]
      /\ valid' = valid \cup {t} /\ Rewrite(a, [token |-> t, verifier |-> Nobody])
      /\ saved' = "stopped" /\ Go(a, "joining")
      /\ UNCHANGED <<conn, queue, managing, open, alive, leaked, failed>>
  BY DEF Exchange
<1>2. /\ RemoteBase /\ actor[a].mine \in OAuth /\ given \in Givens /\ MaxTokens \in Nat
      /\ valid \subseteq 1 .. MaxTokens
  BY ActorFields DEF RemoteInv, RemoteBase, RemoteAssumptions
<1>3. t \in 1 .. MaxTokens /\ t \in 0 .. MaxTokens
  BY <1>1, <1>2 DEF Givens
<1>4. given' \in Givens /\ given'.sessions = given.sessions
  BY <1>1, <1>2, <1>3 DEF Givens
<1>5. oauth' \in OAuth /\ valid' \subseteq 1 .. MaxTokens /\ saved' \in Statuses
  BY <1>1, <1>2, <1>3 DEF Rewrite, OAuth, Statuses
<1>6. Moved(a, "joining", actor[a].session, actor[a].again, actor[a].mine)
  BY <1>1, <1>2, Goes DEF Whereabouts
<1>7. Granting' /\ disturbed' \subseteq Actors
  BY <1>1, <1>2, <1>6, GrantingKeeps DEF RemoteInv
<1>8. RemoteBase' /\ Locking' /\ Owning' /\ Counting'
  BY <1>1, <1>2, <1>4, <1>5, <1>6, <1>7, FlowKeeps DEF Flow
<1> QED
  BY <1>7, <1>8 DEF RemoteInv

LEMMA UnansweredKeeps ==
    ASSUME RemoteAssumptions, RemoteInv, NEW a \in Actors, Denied(a) \/ Unanswered(a) PROVE RemoteInv'
<1>1. PICK p \in {"denied", "over"} :
        /\ Go(a, p) /\ (p = "denied" => actor[a].mine.verifier # a)
  BY DEF Denied, Unanswered
<1>2. /\ actor[a].at = "exchanging"
      /\ UNCHANGED <<conn, saved, queue, managing, open, alive, leaked, failed>>
      /\ UNCHANGED <<oauth, valid, disturbed>> /\ (Fault \/ UNCHANGED given)
  BY DEF Denied, Unanswered, connVars, oauthVars
<1>3. /\ RemoteBase /\ actor[a].mine \in OAuth /\ given \in Givens /\ MaxFaults \in Nat
      /\ p \in Whereabouts /\ p \in Flow
  BY ActorFields DEF RemoteInv, RemoteBase, RemoteAssumptions, Whereabouts, Flow
<1>4. given' \in Givens /\ given'.sessions = given.sessions
  BY <1>2, <1>3 DEF Fault, Givens
<1>5. Moved(a, p, actor[a].session, actor[a].again, actor[a].mine)
  BY <1>1, <1>3, Goes
<1>6. RemoteBase' /\ Locking' /\ Owning' /\ Counting'
  BY <1>2, <1>3, <1>4, <1>5, FlowKeeps DEF RemoteBase
<1>7. Granting'
  BY <1>1, <1>2, <1>5 DEF Moved, RemoteInv, Granting, GrantsSucceed
<1> QED
  BY <1>6, <1>7 DEF RemoteInv

(* A task that is cancelled gives up the lock, or its place in the queue.   *)
LEMMA LeavesQueue ==
    ASSUME RemoteBase, Locking, NEW a \in Actors, NEW s, NEW g, NEW m, Moved(a, "over", s, g, m),
           LeaveQueue(a)
    PROVE  queue' \in Seq(Actors) /\ Locking'
<1>1. CASE UNCHANGED queue
  BY <1>1, LockingKeeps DEF Holding
<1>2. CASE \E i \in DOMAIN queue : queue[i] = a /\ queue' = RemoveAt(queue, i)
  <2>1. PICK i \in DOMAIN queue : queue[i] = a /\ queue' = RemoveAt(queue, i)
    BY <1>2
  <2>2. queue \in Seq(Actors) /\ i \in 1 .. Len(queue)
    BY <2>1 DEF RemoteBase
  <2>3. queue' \in Seq(Actors)
    BY <2>1, <2>2 DEF RemoveAt
  <2>4. ASSUME NEW b \in Actors, actor'[b].at \in Holding PROVE queue' # <<>> /\ Head(queue') = b
    <3>1. b # a /\ Head(queue) = b
      BY <2>4 DEF Moved, Holding, Locking
    <3>2. i # 1
      BY <2>1, <2>2, <3>1
    <3> DEFINE x == SubSeq(queue, 1, i - 1)
               y == SubSeq(queue, i + 1, Len(queue))
    <3>3. x \in Seq(Actors) /\ Len(x) = i - 1 /\ Len(x) \in Nat \ {0} /\ x[1] = queue[1]
      BY <2>2, <3>2
    <3>4. y \in Seq(Actors)
      BY <2>2
    <3>5. queue' = x \o y
      BY <2>1 DEF RemoveAt
    <3> HIDE DEF x, y
    <3>6. queue' # <<>> /\ queue'[1] = x[1]
      BY <3>3, <3>4, <3>5
    <3> QED
      BY <2>2, <2>3, <3>1, <3>3, <3>6
  <2> QED
    BY <2>3, <2>4 DEF Locking
<1> QED
  BY <1>1, <1>2 DEF LeaveQueue

(* What a cancelled task leaves behind of its session is lost, or closed.   *)
LEMMA OwningLoses ==
    ASSUME RemoteAssumptions, RemoteBase, Owning, NEW a \in Actors, NEW s, NEW g, NEW m,
           Moved(a, "over", s, g, m), NEW left,
           \/ actor[a].at = "closing" /\ left = actor[a].session /\ conn' = conn
           \/ actor[a].at # "closing" /\ left = conn.stack /\ conn'.stack = 0
              /\ \A b \in Actors : actor[b].at # "closing",
           \/ open' = open \ {left} /\ leaked' = leaked
           \/ open' = open /\ leaked' = leaked \cup ({left} \ {0}),
           \A b \in Actors \ {a} : actor[b].at # "closing",
           given'.sessions = given.sessions
    PROVE  Owning'
<1>1. \A b \in Actors : actor'[b].at # "closing"
  BY DEF Moved
<1>2. left # 0 => left \in open \ leaked
  BY DEF Owning
<1>3. leaked' \subseteq open' /\ open' \subseteq 1 .. given'.sessions
  <2>1. leaked \subseteq open /\ open \subseteq 1 .. given.sessions
    BY DEF Owning
  <2>2. 0 \notin leaked
    BY <2>1, ConnFields
  <2> QED
    BY <1>2, <2>1, <2>2
<1>4. conn'.stack # 0 => conn'.stack \in open' \ leaked'
  BY DEF Owning
<1>5. ASSUME NEW i \in open' \ leaked', i # conn'.stack PROVE FALSE
  <2>1. i \in open \ leaked /\ i # left
    <3>1. i # 0
      BY <1>3, <1>5, ConnFields
    <3> QED
      BY <1>5, <3>1
  <2>2. i # conn.stack
    BY <1>5, <2>1
  <2>3. PICK b \in Actors : actor[b].at = "closing" /\ actor[b].session = i
    BY <2>1, <2>2 DEF Owning, SessionsAreOwned
  <2> QED
    BY <2>1, <2>3
<1>6. SessionsAreOwned'
  BY <1>5 DEF SessionsAreOwned
<1> QED
  BY <1>1, <1>3, <1>4, <1>6 DEF Owning

(* A task is cancelled. An attempt of its own counts as failed.             *)
LEMMA CancelledKeeps ==
    ASSUME RemoteAssumptions, RemoteInv, NEW a \in Actors, Cancelled(a) PROVE RemoteInv'
<1>1. /\ actor[a].at \notin {"new", "issued", "over", "refused", "denied"}
      /\ Go(a, "over") /\ managing' \in {managing, Nobody} /\ LeaveQueue(a)
      /\ UNCHANGED <<saved, oauth, valid, disturbed, given>>
  BY DEF Cancelled, Unlock, oauthVars
<1>2. /\ RemoteBase /\ failed \in Nat /\ actor[a].again \in BOOLEAN /\ conn \in ConnRecords
      /\ 0 \in 0 .. MaxSessions
  BY ConnFields, ActorFields DEF RemoteInv, RemoteBase
<1>3. Moved(a, "over", actor[a].session, actor[a].again, actor[a].mine)
  BY <1>1, <1>2, Goes DEF Whereabouts
<1>4. queue' \in Seq(Actors) /\ Locking'
  BY <1>1, <1>2, <1>3, LeavesQueue DEF RemoteInv
<1>5. /\ conn' \in ConnRecords /\ conn'.attempts = conn.attempts
      /\ conn'.connected = conn.connected /\ conn'.session = conn.session
  BY <1>2 DEF Cancelled, ConnRecords
<1>6. /\ failed' \in 0 .. MaxReconnects /\ failed' \in Nat /\ failed' >= failed
      /\ a \in UnderWay => failed' = failed + 1 \/ failed >= MaxReconnects
  <2>1. failed \in 0 .. MaxReconnects /\ MaxReconnects \in Nat
    BY <1>2 DEF RemoteBase, RemoteAssumptions
  <2>2. failed' = failed \/ (failed < MaxReconnects /\ failed' = failed + 1)
    BY DEF Cancelled, ReconnectFailed
  <2>3. a \in UnderWay => ReconnectFailed(a) /\ actor[a].job = "call"
    BY DEF Cancelled, UnderWay
  <2> QED
    BY <2>1, <2>2, <2>3 DEF ReconnectFailed
<1>7. Counting'
  <2>1. conn'.connected => conn'.session # 0 /\ conn'.attempts = 0
    BY <1>5 DEF RemoteInv, Counting
  <2> QED
    BY <1>1, <1>2, <1>3, <1>5, <1>6, <2>1, CountingKeeps DEF RemoteInv
<1>8. Granting'
  BY <1>1, <1>2, <1>3, GrantingKeeps DEF RemoteInv
<1>9. Owning' /\ open' \subseteq open /\ alive' \subseteq open'
  <2>1. CASE actor[a].at # "closing" /\ UNCHANGED <<conn, open, alive, leaked>>
    BY <1>1, <1>2, <1>3, <2>1, OwningKeeps DEF RemoteInv, RemoteBase
  <2>2. ASSUME actor[a].at \in {"closing", "dialing"} PROVE \A b \in Actors \ {a} : actor[b].at # "closing"
    BY <2>2 DEF RemoteInv, Locking, Holding
  <2>3. CASE /\ actor[a].at = "closing" /\ UNCHANGED conn
             /\ \/ Free(actor[a].session) /\ UNCHANGED leaked
                \/ leaked' = leaked \cup ({actor[a].session} \ {0}) /\ UNCHANGED <<open, alive>>
    <3>1. /\ open' \subseteq open /\ alive' \subseteq open'
          /\ \/ open' = open \ {actor[a].session} /\ leaked' = leaked
             \/ open' = open /\ leaked' = leaked \cup ({actor[a].session} \ {0})
      BY <1>2, <2>3 DEF Free, RemoteBase
    <3> QED
      BY <1>1, <1>2, <1>3, <2>2, <2>3, <3>1, OwningLoses DEF RemoteInv
  <2>4. CASE /\ actor[a].at = "dialing" /\ leaked' = leaked \cup ({conn.stack} \ {0})
             /\ conn' = [conn EXCEPT !.stack = 0] /\ UNCHANGED <<open, alive>>
    <3>1. conn'.stack = 0 /\ open' \subseteq open /\ alive' \subseteq open'
      BY <1>2, <2>4 DEF ConnRecords, RemoteBase
    <3>2. \A b \in Actors : actor[b].at # "closing"
      BY <2>2, <2>4
    <3> QED
      BY <1>1, <1>2, <1>3, <2>4, <3>1, <3>2, OwningLoses DEF RemoteInv
  <2> QED
    BY <2>1, <2>3, <2>4 DEF Cancelled
<1>10. RemoteBase'
  BY <1>1, <1>2, <1>3, <1>4, <1>5, <1>6, <1>9 DEF RemoteBase, Moved
<1> QED
  BY <1>4, <1>7, <1>8, <1>9, <1>10 DEF RemoteInv

(* The server ends a session, or a token expires. *)
LEMMA ServerKeeps ==
    ASSUME RemoteAssumptions, RemoteInv, Dies \/ Expires PROVE RemoteInv'
<1>1. /\ UNCHANGED <<conn, saved, queue, managing, open, leaked, failed, oauth, disturbed, actor>> /\ Fault
      /\ alive' \subseteq alive /\ valid' \subseteq valid
  BY DEF Dies, Expires, connVars, oauthVars
<1>2. given' \in Givens /\ given'.sessions = given.sessions
  BY <1>1 DEF Fault, Givens, RemoteInv, RemoteBase, RemoteAssumptions
<1>3. RemoteBase'
  BY <1>1, <1>2 DEF RemoteInv, RemoteBase
<1>4. Locking' /\ Owning'
  BY <1>1, <1>2 DEF RemoteInv, Locking, Owning, SessionsAreOwned
<1>5. UnderWay' = UnderWay /\ Tried' = Tried /\ Twice' = Twice
  BY <1>1 DEF UnderWay, Reconnecting, Tried, Twice
<1>6. Counting'
  BY <1>1, <1>5 DEF RemoteInv, Counting, AttemptsAreReal
<1>7. Granting'
  BY <1>1 DEF RemoteInv, Granting, GrantsSucceed
<1> QED
  BY <1>3, <1>4, <1>6, <1>7 DEF RemoteInv

LEMMA RemoteInitially ==
    ASSUME RemoteAssumptions, RemoteInit PROVE RemoteInv
<1>1. /\ NoState \in OAuth /\ 0 \in 0 .. MaxSessions /\ 0 \in 0 .. MaxReconnects
      /\ [NoState EXCEPT !.token = 1] \in OAuth
      /\ 1 \in 1 .. MaxTokens /\ 0 \in 0 .. MaxFaults
  BY DEF OAuth, NoState, RemoteAssumptions
<1>2. oauth \in OAuth /\ saved \in Statuses /\ valid \subseteq 1 .. MaxTokens
  BY <1>1 DEF RemoteInit, Statuses
<1>3. /\ conn \in ConnRecords /\ conn.connected = FALSE /\ conn.stack = 0 /\ conn.attempts = 0
  BY <1>1 DEF RemoteInit, ConnRecords, Statuses
<1>4. given \in Givens /\ given.sessions = 0
  <2>1. oauth.token \in 0 .. MaxTokens
    BY <1>2 DEF OAuth
  <2> QED
    BY <1>1, <2>1 DEF RemoteInit, Givens
<1>5. /\ actor \in [Actors -> ActorRecords]
      /\ \A a \in Actors : actor[a].at = "new" /\ actor[a].again = FALSE
  <2>1. PICK job \in [Actors -> Tasks] :
           actor = [a \in Actors |-> [job |-> job[a], at |-> "new", session |-> 0, again |-> FALSE,
                                     was |-> FALSE, mine |-> NoState]]
    BY DEF RemoteInit, Tasks
  <2> QED
    BY <1>1, <2>1 DEF ActorRecords, Whereabouts
<1>6. queue \in Seq(Actors) /\ queue = <<>> /\ open = {} /\ leaked = {} /\ alive = {} /\ failed = 0
  BY DEF RemoteInit
<1>7. RemoteBase
  BY <1>1, <1>2, <1>3, <1>4, <1>5, <1>6 DEF RemoteBase, RemoteInit
<1>8. Locking /\ Owning
  BY <1>3, <1>4, <1>5, <1>6 DEF Locking, Owning, SessionsAreOwned, Holding
<1>9. Counting
  <2>1. UnderWay \in SUBSET Actors /\ Tried \in SUBSET Actors /\ Twice \in SUBSET Actors
    BY DEF UnderWay, Reconnecting, Tried, Twice
  <2>2. Cardinality(UnderWay) \in Nat /\ Cardinality(Tried) \in Nat /\ Cardinality(Twice) \in Nat
    BY <2>1, FS_Subset, FS_CardinalityType DEF RemoteAssumptions
  <2> QED
    BY <1>3, <1>5, <1>6, <2>2 DEF Counting, AttemptsAreReal
<1>10. Granting
  BY <1>5 DEF Granting, GrantsSucceed
<1> QED
  BY <1>7, <1>8, <1>9, <1>10 DEF RemoteInv

LEMMA RemoteSteps ==
    ASSUME RemoteAssumptions, RemoteInv, [RemoteNext]_remoteVars PROVE RemoteInv'
<1>1. CASE RemoteNext
  <2>1. ASSUME NEW a \in Actors, Answered(a) PROVE RemoteInv'
    BY <2>1, AnsweredKeeps DEF Answered
  <2> QED
    BY <1>1, <2>1, CallKeeps, BrokenKeeps, DisconnectKeeps, DropKeeps, ClosedKeeps, JoinKeeps,
       RefreshKeeps, DialKeeps, WelcomeKeeps, RejectedKeeps, StartFlowKeeps, DiscoveredKeeps,
       IssueKeeps, CallbackKeeps, ExchangeKeeps, UnansweredKeeps, ServerKeeps, CancelledKeeps DEF RemoteNext
<1>2. CASE UNCHANGED remoteVars
  <2>1. /\ UNCHANGED <<conn, saved, queue, managing, open, alive, oauth, valid, actor, given>>
        /\ UNCHANGED <<leaked, failed, disturbed>>
    BY <1>2 DEF remoteVars
  <2>2. RemoteBase' /\ Locking' /\ Owning'
    BY <2>1 DEF RemoteInv, RemoteBase, Locking, Owning, SessionsAreOwned
  <2>3. UnderWay' = UnderWay /\ Tried' = Tried /\ Twice' = Twice
    BY <2>1 DEF UnderWay, Reconnecting, Tried, Twice
  <2>4. Counting' /\ Granting'
    BY <2>1, <2>3 DEF RemoteInv, Counting, AttemptsAreReal, Granting, GrantsSucceed
  <2> QED
    BY <2>2, <2>4 DEF RemoteInv
<1> QED
  BY <1>1, <1>2

LEMMA RemoteAlways ==
    ASSUME RemoteAssumptions PROVE RemoteSpec => []RemoteInv
<1>1. RemoteInit => RemoteInv
  BY RemoteInitially
<1>2. RemoteInv /\ [RemoteNext]_remoteVars => RemoteInv'
  BY RemoteSteps
<1> QED
  BY <1>1, <1>2, PTL DEF RemoteSpec

(* The connection, its lock, the file and every task are of their types;    *)
(* twice as many attempts as there are tasks are counted at most.           *)
THEOREM RemoteTypeCorrect ==
    ASSUME RemoteAssumptions PROVE RemoteSpec => []RemoteTypeOK
<1>1. ASSUME RemoteInv PROVE RemoteTypeOK
  <2>1. Tried \subseteq Actors /\ Twice \subseteq Actors /\ IsFiniteSet(Actors)
    BY DEF Tried, Twice, RemoteAssumptions
  <2>2. /\ Cardinality(Tried) \in Nat /\ Cardinality(Twice) \in Nat /\ Cardinality(Actors) \in Nat
        /\ Cardinality(Tried) <= Cardinality(Actors) /\ Cardinality(Twice) <= Cardinality(Actors)
    BY <2>1, FS_Subset, FS_CardinalityType
  <2>3. conn.attempts \in Nat /\ conn.attempts <= Cardinality(Tried) + Cardinality(Twice)
    BY <1>1, ConnFields DEF RemoteInv, Counting
  <2>4. conn.attempts \in 0 .. Cardinality(Actors) * 2
    <3> DEFINE n == Cardinality(Actors)
    <3>1. n * 2 = n + n /\ n * 2 \in Nat
      BY <2>2
    <3> QED
      BY <2>2, <2>3, <3>1
  <2>5. conn \in [made : BOOLEAN, status : Statuses, connected : BOOLEAN, session : 0 .. MaxSessions,
                  stack : 0 .. MaxSessions, attempts : 0 .. Cardinality(Actors) * 2, client : OAuth]
    BY <1>1, <2>4 DEF RemoteInv, RemoteBase, ConnRecords
  <2>6. leaked \subseteq open
    BY <1>1 DEF RemoteInv, Owning
  <2> QED
    BY <1>1, <2>5, <2>6 DEF RemoteInv, RemoteBase, RemoteTypeOK, ActorRecords, Whereabouts, Tasks, Givens
<1> QED
  BY <1>1, RemoteAlways, PTL

(* A session with resources here is the connection's, is being closed, or   *)
(* was lost by connect() or a cancellation; attempts counted failed, were   *)
(* cancelled or are under way; an authorization that is granted succeeds    *)
(* unless the file was rewritten: for any tasks, jobs and bounds.           *)
THEOREM RemoteIsSafe ==
    ASSUME RemoteAssumptions PROVE RemoteSpec => []RemoteSafe
<1>1. RemoteInv => RemoteSafe
  BY DEF RemoteInv, Owning, Counting, Granting, RemoteSafe
<1> QED
  BY <1>1, RemoteAlways, PTL

=============================================================================
