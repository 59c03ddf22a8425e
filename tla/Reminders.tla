------------------------------ MODULE Reminders ------------------------------
(* What the assistant means to raise when a user next writes: intentions      *)
(* (core/intentions.py), checked in a thread while a request's context is     *)
(* built, and thoughts queued by the ambient turn (ambient/), both consumed   *)
(* when they enter a prompt (gateway/processor.py, _build_context) and not    *)
(* when the prompt was answered.                                              *)
EXTENDS Naturals, Sequences, FiniteSets, FiniteSetsExt

CONSTANTS
  Requests,        \* messages of one user, possibly in several channels
  Words, Context,  \* the words of each and the conditions each one's context meets
  Intentions,      \* intentions that may be created
  Trigger,         \* the trigger conditions of each
  Once,            \* the intentions with fire_once
  Priority,
  MaxIntentions,   \* max_intentions of format_intentions_for_prompt
  Thoughts         \* contents the ambient turn may come up with

ASSUME RemindersConstants ==
  /\ IsFiniteSet(Intentions) /\ MaxIntentions \in Nat
  /\ Thoughts \cap Intentions = {} /\ Thoughts \cap {"idle", "gate"} = {}

VARIABLES
  intention,   \* "none", "active", "fired", "spent" (fired once and deleted), "deleted", "expired"
  clock,       \* the time triggers that have been reached
  thought,     \* "none", "queued", "delivered", "expired", "sent", "dropped"
  turn,        \* where each request is, and what its prompt raises
  ambient,     \* the ambient turn: "idle", or what it is in the middle of
  gap,         \* whether the last DM is AMBIENT_MIN_DM_GAP_HOURS old
  raised,      \* history: in how many answered prompts each intention was
  lost,        \* history: intentions fired that no answered prompt raised
  late         \* history: intentions fired by a check that read them before they were spent

reminderVars == <<intention, clock, thought, turn, ambient, gap, raised, lost, late>>

Items == Intentions \cup Thoughts
NoTurn == [at |-> "new", fired |-> {}, items |-> {}]

RemindersTypeOK ==
  /\ intention \in [Intentions -> {"none", "active", "fired", "spent", "deleted", "expired"}]
  /\ clock \subseteq Intentions
  /\ thought \in [Thoughts -> {"none", "queued", "delivered", "expired", "sent", "dropped"}]
  /\ turn \in [Requests -> [at : {"new", "context", "checking", "checked", "asked", "over"},
                            fired : SUBSET Intentions, items : SUBSET Items]]
  /\ ambient \in {"idle", "gate"} \cup Thoughts
  /\ gap \in BOOLEAN /\ raised \in [Intentions -> Nat]
  /\ lost \subseteq Intentions /\ late \subseteq Intentions
  /\ \A r \in Requests : Cardinality(turn[r].items \cap Intentions) <= MaxIntentions

RemindersInit ==
  /\ intention = [i \in Intentions |-> "none"] /\ clock = {}
  /\ thought = [x \in Thoughts |-> "none"]
  /\ turn = [r \in Requests |-> NoTurn]
  /\ ambient = "idle" /\ gap = FALSE
  /\ raised = [i \in Intentions |-> 0] /\ lost = {} /\ late = {}

-----------------------------------------------------------------------------
(* The trigger of an intention and a message, with the TIERED strategy: a     *)
(* topic with quick keywords is looked at only if one of them occurs; it      *)
(* fires when enough of its words do. A context fires when all of its         *)
(* conditions hold and it has any.                                            *)
Fires(i, r) ==
  LET c == Trigger[i] IN
  CASE c.type = "keyword" -> c.words \cap Words[r] # {}
    [] c.type = "topic"   ->
         /\ c.words # {} /\ (c.quick = {} \/ c.quick \cap Words[r] # {})
         /\ 100 * Cardinality(c.words \cap Words[r]) >= c.percent * Cardinality(c.words)
    [] c.type = "time"    -> i \in clock
    [] c.type = "context" -> c.words # {} /\ c.words \subseteq Context[r]
    [] OTHER -> FALSE

(* A keyword trigger with a pattern that does not compile raises. *)
Raises(i) == Trigger[i].type = "bad pattern"

(* Intentions are created and deleted through the API, times are reached and  *)
(* expiry dates pass.                                                         *)
Create(i) ==
  /\ intention[i] = "none"
  /\ intention' = [intention EXCEPT ![i] = "active"]
  /\ UNCHANGED <<clock, thought, turn, ambient, gap, raised, lost, late>>

Delete(i) ==
  /\ intention[i] \in {"active", "fired", "expired"}
  /\ intention' = [intention EXCEPT ![i] = "deleted"]
  /\ UNCHANGED <<clock, thought, turn, ambient, gap, raised, lost, late>>

Expire(i) ==
  /\ intention[i] = "active"
  /\ intention' = [intention EXCEPT ![i] = "expired"]
  /\ UNCHANGED <<clock, thought, turn, ambient, gap, raised, lost, late>>

TimeComes(i) ==
  /\ Trigger[i].type = "time" /\ i \notin clock
  /\ clock' = clock \cup {i}
  /\ UNCHANGED <<intention, thought, turn, ambient, gap, raised, lost, late>>

-----------------------------------------------------------------------------
(* A request; a message that is not directed at the assistant never starts. *)
StartContext(r) ==
  /\ turn[r].at = "new"
  /\ turn' = [turn EXCEPT ![r].at = "context"]
  /\ UNCHANGED <<intention, clock, thought, ambient, gap, raised, lost, late>>

(* check_intentions, in a thread of its own: the active intentions are read   *)
(* and those whose trigger fires picked (none if the condition of one of them *)
(* raises), then marked in one transaction.                                   *)
Firing(r) ==
  LET active == {i \in Intentions : intention[i] = "active"} IN
  IF \E i \in active : Raises(i) THEN {} ELSE {i \in active : Fires(i, r)}

ReadIntentions(r) ==
  /\ turn[r].at = "context"
  /\ turn' = [turn EXCEPT ![r].at = "checking", ![r].fired = Firing(r)]
  /\ UNCHANGED <<intention, clock, thought, ambient, gap, raised, lost, late>>

(* A fire_once row is deleted, also if it is no longer there; the update of   *)
(* another row that was deleted meanwhile raises.                             *)
MarkFired_Fault(r) ==
  /\ turn[r].at = "checking"
  /\ turn' = [turn EXCEPT ![r].at = "checked"]
  /\ UNCHANGED <<intention, clock, thought, ambient, gap, raised, lost, late>>
MarkFired(r) ==
  /\ turn[r].at = "checking"
  /\ \A i \in turn[r].fired \ Once : intention[i] # "deleted"
  /\ turn' = [turn EXCEPT ![r].at = "checked"]
  /\ intention' = [i \in Intentions |->
                     IF i \notin turn[r].fired \/ intention[i] = "deleted" THEN intention[i]
                     ELSE IF i \in Once THEN "spent" ELSE "fired"]
  /\ late' = late \cup {i \in turn[r].fired : intention[i] # "active"}
  /\ UNCHANGED <<clock, thought, ambient, gap, raised, lost>>

(* The transaction fails: nothing fired. *)
MarkFails(r) ==
  /\ turn[r].at = "checking"
  /\ turn' = [turn EXCEPT ![r].at = "checked", ![r].fired = {}]
  /\ UNCHANGED <<intention, clock, thought, ambient, gap, raised, lost, late>>

(* The reminders of the highest priority enter the prompt, and with them all  *)
(* queued thoughts, which are marked as delivered.                            *)
Chosen_Fault(fired) == {fired}
Chosen(fired) ==
  {s \in SUBSET fired :
     /\ Cardinality(s) = Min({MaxIntentions, Cardinality(fired)})
     /\ \A i \in s, j \in fired \ s : Priority[i] >= Priority[j]}

Queued == {x \in Thoughts : thought[x] = "queued"}

FillPrompt_Fault(r) ==
  /\ turn[r].at = "checked"
  /\ \E s \in Chosen(turn[r].fired) :
       /\ turn' = [turn EXCEPT ![r].at = "asked", ![r].items = s \cup Queued]
       /\ lost' = lost \cup (turn[r].fired \ s)
  /\ UNCHANGED <<intention, clock, thought, ambient, gap, raised, late>>
FillPrompt(r) ==
  /\ turn[r].at = "checked"
  /\ \E s \in Chosen(turn[r].fired) :
       /\ turn' = [turn EXCEPT ![r].at = "asked", ![r].items = s \cup Queued]
       /\ lost' = lost \cup (turn[r].fired \ s)
  /\ thought' = [x \in Thoughts |-> IF x \in Queued THEN "delivered" ELSE thought[x]]
  /\ UNCHANGED <<intention, clock, ambient, gap, raised, late>>

Over(r) == turn' = [turn EXCEPT ![r].at = "over", ![r].fired = {}]

Answer(r) ==
  /\ turn[r].at = "asked"
  /\ Over(r)
  /\ raised' = [i \in Intentions |-> IF i \in turn[r].items THEN raised[i] + 1 ELSE raised[i]]
  /\ UNCHANGED <<intention, clock, thought, ambient, gap, lost, late>>

(* The request is cancelled or fails: what it consumed is not put back. A     *)
(* thread in the middle of its check goes on by itself.                       *)
Fail_Fault(r) ==
  /\ turn[r].at \in {"context", "checked", "asked"}
  /\ Over(r)
  /\ UNCHANGED <<intention, clock, thought, ambient, gap, raised, lost, late>>
Fail(r) ==
  /\ turn[r].at \in {"context", "checked", "asked"}
  /\ Over(r)
  /\ lost' = lost \cup turn[r].fired
  /\ UNCHANGED <<intention, clock, thought, ambient, gap, raised, late>>

-----------------------------------------------------------------------------
(* ambient_turn: skipped for a user who is writing, or nothing comes of the   *)
(* reflection or of the gate; a thought is queued, or an urgent one sent in   *)
(* active hours if the last DM is old enough and queued otherwise.            *)
AmbientStarts ==
  /\ ambient = "idle" /\ ambient' = "gate"
  /\ UNCHANGED <<intention, clock, thought, turn, gap, raised, lost, late>>

NothingToSay ==
  /\ ambient = "gate" /\ ambient' = "idle"
  /\ UNCHANGED <<intention, clock, thought, turn, gap, raised, lost, late>>

Enqueue(x) ==
  /\ ambient = "gate" /\ thought[x] = "none"
  /\ thought' = [thought EXCEPT ![x] = "queued"]
  /\ ambient' = "idle"
  /\ UNCHANGED <<intention, clock, turn, gap, raised, lost, late>>

SendUrgent_Fault(x) ==
  /\ ambient = "gate" /\ thought[x] = "none"
  /\ ambient' = x
  /\ UNCHANGED <<intention, clock, thought, turn, gap, raised, lost, late>>
SendUrgent(x) ==
  /\ ambient = "gate" /\ thought[x] = "none" /\ gap
  /\ ambient' = x
  /\ UNCHANGED <<intention, clock, thought, turn, gap, raised, lost, late>>

UrgentDelivered(x) ==
  /\ ambient = x
  /\ thought' = [thought EXCEPT ![x] = "sent"] /\ gap' = FALSE
  /\ ambient' = "idle"
  /\ UNCHANGED <<intention, clock, turn, raised, lost, late>>

(* No adapter takes it: it is neither queued nor recorded. *)
UrgentDropped(x) ==
  /\ ambient = x
  /\ thought' = [thought EXCEPT ![x] = "dropped"]
  /\ ambient' = "idle"
  /\ UNCHANGED <<intention, clock, turn, gap, raised, lost, late>>

GapPasses ==
  /\ ~gap /\ gap' = TRUE
  /\ UNCHANGED <<intention, clock, thought, turn, ambient, raised, lost, late>>

ThoughtExpires(x) ==
  /\ thought[x] = "queued"
  /\ thought' = [thought EXCEPT ![x] = "expired"]
  /\ UNCHANGED <<intention, clock, turn, ambient, gap, raised, lost, late>>

RemindersNext ==
  \/ \E i \in Intentions : Create(i) \/ Delete(i) \/ Expire(i) \/ TimeComes(i)
  \/ \E r \in Requests :
       \/ StartContext(r) \/ ReadIntentions(r) \/ MarkFired(r) \/ MarkFails(r)
       \/ FillPrompt(r) \/ Answer(r) \/ Fail(r)
  \/ AmbientStarts \/ NothingToSay \/ GapPasses
  \/ \E x \in Thoughts :
       Enqueue(x) \/ SendUrgent(x) \/ UrgentDelivered(x) \/ UrgentDropped(x) \/ ThoughtExpires(x)

RemindersSpec == RemindersInit /\ [][RemindersNext]_reminderVars

-----------------------------------------------------------------------------
UnderWay(i) == \E r \in Requests : turn[r].at \in {"checked", "asked"} /\ i \in turn[r].fired

(* An intention that fired was raised in an answered prompt, or will be, or   *)
(* was consumed in vain in one of two ways: its request did not end with an   *)
(* answer, or more than max_intentions fired at once.                         *)
SpentIntentionsWereRaised ==
  \A i \in Intentions :
    intention[i] \in {"fired", "spent"} => raised[i] > 0 \/ UnderWay(i) \/ i \in lost

(* The same for thoughts: delivered ones were in one prompt, whose request    *)
(* failed if it did not end with an answer.                                   *)
ThoughtsDeliveredOnce ==
  \A x \in Thoughts :
    Cardinality({r \in Requests : x \in turn[r].items}) = (IF thought[x] = "delivered" THEN 1 ELSE 0)

(* An intention is raised again only if a check that read it while it was     *)
(* active overlapped another: also without fire_once it never fires again.    *)
RaisedOnce == \A i \in Intentions : raised[i] > 1 => i \in late

(* Direct messages keep their distance: none is sent while the last one is    *)
(* recent, however long the turn that sends it was under way.                 *)
UrgentKeepsDistance ==
  [][\A x \in Thoughts : thought'[x] = "sent" /\ thought[x] # "sent" => gap]_reminderVars

(* What is due is raised, once, and urgent thoughts keep their distance. *)
RemindersSafe ==
  [](SpentIntentionsWereRaised /\ ThoughtsDeliveredOnce /\ RaisedOnce) /\ UrgentKeepsDistance
=============================================================================
