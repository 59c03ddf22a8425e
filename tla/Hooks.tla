-------------------------------- MODULE Hooks --------------------------------
(* The event emitter (gateway/events.py) and the hooks that subscribe to it   *)
(* (gateway/hooks.py). An emission takes the handlers as they are, starts one *)
(* task for each in the order of their priorities and waits for all of them.  *)
(* A handler asks whether its hook is enabled only when its task begins, so   *)
(* hooks may be registered, dropped and switched while an emission waits.     *)
EXTENDS Naturals, Sequences, FiniteSets, SequencesExt

CONSTANTS
  Configs,            \* [name, event, type, priority]: what may be registered
  Events,             \* the events emitted
  Wildcard,           \* the "*" a hook may name instead of an event
  Emissions,          \* calls of emit
  MaxRegistrations    \* bound on the calls of register

VARIABLES
  hook,         \* registration -> its Hook, in the order of register
  known,        \* _hooks: name -> registration, or 0
  handlers,     \* _handlers and _wildcard_handlers: event -> registrations
  emission,     \* emission -> [event, queue, begun, state]
  command,      \* emission -> registration -> the run of its handler
  owed,         \* emission -> hooks in force since it was emitted
  dropped       \* emission -> registrations unregistered before it was emitted

hookVars == <<hook, known, handlers, emission, command, owed, dropped>>
hooksOnly == <<hook, known, handlers>>

Names         == {c.name : c \in Configs}
Keys          == Events \cup {Wildcard}
Registrations == 1 .. MaxRegistrations
Unnamed       == {i \in DOMAIN hook : known[hook[i].config.name] # i}
Waiting       == {"running", "dying", "stray"}

HooksTypeOK ==
  /\ hook \in Seq([config : Configs, enabled : BOOLEAN, gone : BOOLEAN])
  /\ known \in [Names -> 0 .. Len(hook)]
  /\ \A k \in Keys : ToSet(handlers[k]) \subseteq DOMAIN hook
  /\ \A e \in Emissions :
       /\ emission[e].event \in Keys
       /\ emission[e].state \in {"new", "emitting", "over", "cancelled"}
       /\ ToSet(emission[e].queue) \cup ToSet(emission[e].begun) \subseteq DOMAIN hook
  /\ command \in [Emissions -> [Registrations -> Waiting \cup {"none", "ended"}]]
  /\ owed \in [Emissions -> SUBSET Registrations]
  /\ dropped \in [Emissions -> SUBSET Registrations]

HooksInit ==
  /\ hook = <<>> /\ known = [n \in Names |-> 0] /\ handlers = [k \in Keys |-> <<>>]
  /\ emission = [e \in Emissions |->
       [event |-> Wildcard, queue |-> <<>>, begun |-> <<>>, state |-> "new"]]
  /\ command = [e \in Emissions |-> [i \in Registrations |-> "none"]]
  /\ owed = [e \in Emissions |-> {}] /\ dropped = [e \in Emissions |-> {}]

-----------------------------------------------------------------------------
(* The manager. *)

\* Into a list in order of priority, after those of the same priority.
Insert_Fault(hs, list, i) == Append(list, i)
Insert(hs, list, i) ==
  InsertAt(list, 1 + Cardinality({n \in DOMAIN list :
                       hs[list[n]].config.priority >= hs[i].config.priority}), i)

\* A hook of the same name is forgotten; its handler stays subscribed.
Register(c) ==
  LET i  == Len(hook) + 1
      hs == Append(hook, [config |-> c, enabled |-> TRUE, gone |-> FALSE])
  IN /\ i \in Registrations
     /\ hook' = hs
     /\ known' = [known EXCEPT ![c.name] = i]
     /\ handlers' = [handlers EXCEPT ![c.event] = Insert(hs, @, i)]
     /\ UNCHANGED <<emission, command, owed, dropped>>

Unregister(n) ==
  /\ known[n] # 0
  /\ known' = [known EXCEPT ![n] = 0]
  /\ hook' = [hook EXCEPT ![known[n]].gone = TRUE]
  /\ UNCHANGED <<handlers, emission, command, owed, dropped>>

Switch(n, enabled) ==
  /\ known[n] # 0
  /\ hook' = [hook EXCEPT ![known[n]].enabled = enabled]
  /\ owed' = IF enabled THEN owed ELSE [e \in Emissions |-> owed[e] \ {known[n]}]
  /\ UNCHANGED <<known, handlers, emission, command, dropped>>

-----------------------------------------------------------------------------
(* An emission. *)

Merged(specific, wildcard) ==
  FoldLeft(LAMBDA list, i : Insert(hook, list, i), specific, wildcard)

Emit(e, event) ==
  /\ emission[e].state = "new"
  /\ emission' = [emission EXCEPT
       ![e] = [@ EXCEPT !.event = event, !.state = "emitting",
                        !.queue = Merged(handlers[event], handlers[Wildcard])]]
  /\ owed' = [owed EXCEPT ![e] = {i \in DOMAIN hook \ Unnamed :
                 hook[i].enabled /\ hook[i].config.event \in {event, Wildcard}}]
  /\ dropped' = [dropped EXCEPT ![e] = {i \in DOMAIN hook : hook[i].gone}]
  /\ UNCHANGED <<hooksOnly, command>>

\* The next handler's task begins; it ends at once when its hook is disabled.
Enabled_Fault(i) == hook[i].enabled /\ i \notin Unnamed
Enabled(i) == hook[i].enabled

Begin(e) ==
  LET i == Head(emission[e].queue) IN
  /\ emission[e].queue # <<>>
  /\ emission' = [emission EXCEPT
       ![e].queue = Tail(@),
       ![e].begun = IF Enabled(i) THEN Append(@, i) ELSE @]
  /\ command' = IF Enabled(i) THEN [command EXCEPT ![e][i] = "running"] ELSE command
  /\ UNCHANGED <<hooksOnly, owed, dropped>>

Become(e, i, from, to) ==
  /\ command[e][i] = from
  /\ command' = [command EXCEPT ![e][i] = to]
  /\ UNCHANGED <<hooksOnly, emission, owed, dropped>>

\* The command exits, or the Python handler returns or raises.
Ends(e, i) == Become(e, i, "running", "ended")

\* A shell command out of time is killed and not waited for; a Python handler
\* has all the time it wants.
TimesOut(e, i) ==
  /\ i \in DOMAIN hook /\ hook[i].config.type = "shell"
  /\ Become(e, i, "running", "dying")

ProcessEnds(e, i) == \E from \in {"dying", "stray"} : Become(e, i, from, "ended")

Returned_Fault(e) == emission[e].queue = <<>>
Returned(e) ==
  /\ emission[e].queue = <<>>
  /\ \A i \in Registrations : command[e][i] # "running"

Returns(e) ==
  /\ emission[e].state = "emitting" /\ Returned(e)
  /\ emission' = [emission EXCEPT ![e].state = "over"]
  /\ UNCHANGED <<hooksOnly, command, owed, dropped>>

\* The task that emits is cancelled, and its handlers with it; a shell command
\* runs on.
Cancelled(e, i) ==
  IF command[e][i] # "running" THEN command[e][i]
  ELSE IF hook[i].config.type = "shell" THEN "stray" ELSE "ended"

Cancel(e) ==
  /\ emission[e].state = "emitting"
  /\ emission' = [emission EXCEPT ![e].state = "cancelled", ![e].queue = <<>>]
  /\ command' = [command EXCEPT ![e] = [i \in Registrations |-> Cancelled(e, i)]]
  /\ UNCHANGED <<hooksOnly, owed, dropped>>

HooksNext ==
  \/ \E c \in Configs : Register(c)
  \/ \E n \in Names : Unregister(n) \/ \E b \in BOOLEAN : Switch(n, b)
  \/ \E e \in Emissions :
       \/ \E event \in Events : Emit(e, event)
       \/ Begin(e) \/ Returns(e) \/ Cancel(e)
       \/ \E i \in Registrations : Ends(e, i) \/ TimesOut(e, i) \/ ProcessEnds(e, i)

HooksSpec == HooksInit /\ [][HooksNext]_hookVars

-----------------------------------------------------------------------------
(* Handlers of one emission begin in the order of their priorities, whether   *)
(* they asked for the event or for all events, and none begins twice          *)
(* (EventEmitter.emit's "Higher priority handlers run first").                *)
HigherPriorityFirst ==
  \A e \in Emissions : LET begun == emission[e].begun IN
    \A m, n \in DOMAIN begun : m < n =>
      /\ begun[m] # begun[n]
      /\ hook[begun[m]].config.priority >= hook[begun[n]].config.priority

(* An emission that returned has run every hook that was registered and       *)
(* enabled when it began and was not disabled since, even one unregistered    *)
(* meanwhile, and nothing it started runs on but commands already killed.     *)
EmissionsAreComplete ==
  \A e \in Emissions : emission[e].state = "over" =>
    /\ owed[e] \subseteq ToSet(emission[e].begun)
    /\ \A i \in Registrations : command[e][i] \notin {"running", "stray"}

(* What runs beyond the end of its emission is a shell command of a cancelled *)
(* one, or one killed after its timeout.                                      *)
StraysAreCancelled ==
  \A e \in Emissions, i \in Registrations :
    /\ command[e][i] = "stray" => emission[e].state = "cancelled"
    /\ command[e][i] = "running" => emission[e].state = "emitting"

HooksSafe == HigherPriorityFirst /\ EmissionsAreComplete /\ StraysAreCancelled

(* "Unregister a hook" (HookManager.unregister): a hook unregistered before   *)
(* an event is emitted does not run for it.                                   *)
UnregisteredStaysSilent ==
  \A e \in Emissions : ToSet(emission[e].begun) \cap dropped[e] = {}
=============================================================================
