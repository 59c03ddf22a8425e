---------------------------- MODULE LlmFailover ----------------------------
(* core/llm/failover.py: classification of errors, cooldowns of providers and*)
(* models, and calls that retry and fall back to other providers. Calls of   *)
(* several coroutines share the cooldowns; a call suspends while a provider  *)
(* answers and while it backs off.                                           *)
EXTENDS Naturals, Sequences, FiniteSets, FiniteSetsExt

CONSTANTS
  Askers,       \* concurrent calls of _call_with_failover
  Candidates,   \* the primary and its fallbacks: a sequence of [provider, model]
  MaxRetries    \* max_retries

ASSUME FailoverConstants ==
  /\ MaxRetries \in Nat \ {0}
  /\ Candidates \in Seq({Candidates[k] : k \in DOMAIN Candidates})

VARIABLES
  cool,    \* the keys <<provider, model>> and <<provider, "any">> cooling down
  ongoing, \* for each call where it is, which candidate and attempt, and whether
           \* an error of an earlier candidate is remembered
  long     \* history: the calls whose last error spoke of the context length and
           \* of nothing that is looked for before that

failoverVars == <<cool, ongoing, long>>

Reasons == {"auth", "rate_limit", "context_overflow", "transient", "unknown"}
AnyModel == "any"
Keys == {<<Candidates[k].provider, m>> :
           k \in DOMAIN Candidates, m \in {Candidates[j].model : j \in DOMAIN Candidates} \cup {AnyModel}}

FailoverTypeOK ==
  /\ cool \subseteq Keys
  /\ ongoing \in [Askers -> [at : {"idle", "trying", "backoff", "answered", "raised", "unavailable"},
                         candidate : 0..Len(Candidates), attempt : 0..MaxRetries,
                         failed : BOOLEAN]]
  /\ long \subseteq Askers
  /\ \A c \in Askers : ongoing[c].at \in {"trying", "backoff"} => ongoing[c].candidate > 0 /\ ongoing[c].attempt > 0

FailoverInit ==
  /\ cool = {} /\ long = {}
  /\ ongoing = [c \in Askers |-> [at |-> "idle", candidate |-> 0, attempt |-> 0, failed |-> FALSE]]

-----------------------------------------------------------------------------
(* classify_error: an error is the set of patterns its message matches and   *)
(* whether its type is a timeout or a connection error. Patterns are tried in*)
(* this order.                                                               *)
Errors == [matches : SUBSET {"auth", "rate_limit", "context_overflow", "transient"},
           timeout : BOOLEAN]

Classify_Fault(e) ==
  IF e.timeout \/ "transient" \in e.matches THEN "transient"
  ELSE IF "auth" \in e.matches THEN "auth"
  ELSE IF "rate_limit" \in e.matches THEN "rate_limit"
  ELSE IF "context_overflow" \in e.matches THEN "context_overflow"
  ELSE "unknown"
Classify(e) ==
  IF e.timeout THEN "transient"
  ELSE IF "auth" \in e.matches THEN "auth"
  ELSE IF "rate_limit" \in e.matches THEN "rate_limit"
  ELSE IF "context_overflow" \in e.matches THEN "context_overflow"
  ELSE IF "transient" \in e.matches THEN "transient"
  ELSE "unknown"

TooLong(e) == ~e.timeout /\ "context_overflow" \in e.matches /\ e.matches \cap {"auth", "rate_limit"} = {}

(* is_cooled_down: the provider's cooldown covers all its models.            *)
CooledDown_Fault(k, keys) == <<Candidates[k].provider, Candidates[k].model>> \in keys
CooledDown(k, keys) ==
  \/ <<Candidates[k].provider, AnyModel>> \in keys
  \/ <<Candidates[k].provider, Candidates[k].model>> \in keys

Expire(key) ==
  /\ key \in cool
  /\ cool' = cool \ {key}
  /\ UNCHANGED <<ongoing, long>>

(* clear of a provider clears its models too.                                *)
Clear(p, m) ==
  /\ cool' = IF m = AnyModel THEN {key \in cool : key[1] # p} ELSE cool \ {<<p, m>>}
  /\ cool' # cool
  /\ UNCHANGED <<ongoing, long>>

(* The loop over the candidates goes on to the first one, from i on, that is *)
(* not cooling down. Without one the last error is raised.                   *)
Advance_Fault(c, i, keys, failed) ==
  LET open == {k \in i..Len(Candidates) : ~CooledDown(k, keys)} IN
  ongoing' = [ongoing EXCEPT ![c] =
    IF open # {} THEN [at |-> "trying", candidate |-> Min(open), attempt |-> 1, failed |-> failed]
    ELSE [@ EXCEPT !.at = "unavailable", !.failed = failed]]
Advance(c, i, keys, failed) ==
  LET open == {k \in i..Len(Candidates) : ~CooledDown(k, keys)} IN
  ongoing' = [ongoing EXCEPT ![c] =
    IF open # {} THEN [at |-> "trying", candidate |-> Min(open), attempt |-> 1, failed |-> failed]
    ELSE [@ EXCEPT !.at = IF failed THEN "raised" ELSE "unavailable", !.failed = failed]]

StartCall(c) ==
  /\ ongoing[c].at = "idle"
  /\ Advance(c, 1, cool, FALSE)
  /\ UNCHANGED <<cool, long>>

(* The outcomes of one attempt.                                              *)
Answers(c) ==
  /\ ongoing[c].at = "trying"
  /\ ongoing' = [ongoing EXCEPT ![c].at = "answered"]
  /\ UNCHANGED <<cool, long>>

Overflows(c, e) ==
  /\ ongoing[c].at = "trying" /\ Classify(e) = "context_overflow"
  /\ ongoing' = [ongoing EXCEPT ![c].at = "raised"]
  /\ UNCHANGED cool

CoolsDown(c, e) ==
  /\ ongoing[c].at = "trying" /\ Classify(e) \in {"auth", "rate_limit"}
  /\ LET k == ongoing[c].candidate
         key == <<Candidates[k].provider, IF Classify(e) = "auth" THEN AnyModel ELSE Candidates[k].model>>
     IN /\ cool' = cool \cup {key}
        /\ Advance(c, k + 1, cool \cup {key}, TRUE)

Retries_Fault(c, e) ==
  /\ ongoing[c].at = "trying" /\ Classify(e) \in {"transient", "unknown"}
  /\ ongoing' = [ongoing EXCEPT ![c].at = "backoff"]
  /\ UNCHANGED cool
Retries(c, e) ==
  /\ ongoing[c].at = "trying" /\ Classify(e) \in {"transient", "unknown"}
  /\ ongoing[c].attempt < MaxRetries
  /\ ongoing' = [ongoing EXCEPT ![c].at = "backoff"]
  /\ UNCHANGED cool

GivesUp(c, e) ==
  /\ ongoing[c].at = "trying" /\ Classify(e) \in {"transient", "unknown"}
  /\ ongoing[c].attempt = MaxRetries
  /\ Advance(c, ongoing[c].candidate + 1, cool, TRUE)
  /\ UNCHANGED cool

(* The next attempt does not look at the cooldowns again.                    *)
TryAgain_Fault(c) ==
  /\ ongoing[c].at = "backoff"
  /\ ongoing' = [ongoing EXCEPT ![c].at = "trying"]
  /\ UNCHANGED <<cool, long>>
TryAgain(c) ==
  /\ ongoing[c].at = "backoff"
  /\ ongoing' = [ongoing EXCEPT ![c].at = "trying", ![c].attempt = @ + 1]
  /\ UNCHANGED <<cool, long>>

Fails(c) ==
  \E e \in Errors :
    /\ long' = IF TooLong(e) THEN long \cup {c} ELSE long \ {c}
    /\ Overflows(c, e) \/ CoolsDown(c, e) \/ Retries(c, e) \/ GivesUp(c, e)

FailoverNext ==
  \/ \E key \in Keys : Expire(key) \/ Clear(key[1], key[2])
  \/ \E c \in Askers : StartCall(c) \/ Answers(c) \/ Fails(c) \/ TryAgain(c)

(* Providers answer or fail (their clients time out) and sleeps end.         *)
FailoverFairness ==
  \A c \in Askers : WF_failoverVars(Answers(c) \/ Fails(c)) /\ WF_failoverVars(TryAgain(c))

FailoverSpec == FailoverInit /\ [][FailoverNext]_failoverVars /\ FailoverFairness

-----------------------------------------------------------------------------
(* A call turns to a candidate only while neither its provider nor its model *)
(* cools down: after a call's own authorization error it passes over every   *)
(* other model of that provider. Retries of a call that was already admitted *)
(* are not held back.                                                        *)
NoCallIntoCooldown ==
  [][\A c \in Askers :
       ongoing'[c].at = "trying" /\ ongoing'[c].attempt = 1 /\ ongoing'[c] # ongoing[c] =>
         LET cand == Candidates[ongoing'[c].candidate] IN
         {<<cand.provider, cand.model>>, <<cand.provider, AnyModel>>} \cap cool' = {}]_failoverVars

(* "No providers available" is raised only while all candidates cool down and*)
(* none was tried: a call that met an error raises that error.               *)
UnavailableMeansAllCool ==
  [][\A c \in Askers :
       ongoing'[c].at = "unavailable" /\ ongoing[c].at # "unavailable" =>
         ongoing[c].at = "idle" /\ \A k \in DOMAIN Candidates : CooledDown(k, cool)]_failoverVars

(* An error that speaks of the context length ends the call at once, unless  *)
(* its text also matches an authorization or rate limit pattern or its type  *)
(* is a timeout.                                                             *)
OverflowIsNotRetried == \A c \in long : ongoing[c].at = "raised"

(* Cooldowns and errors decide alone which candidate a call turns to. *)
FailoverSafe == []OverflowIsNotRetried /\ NoCallIntoCooldown /\ UnavailableMeansAllCool

(* A call ends whatever the providers answer and however cooldowns expire.   *)
FailoverCallsEnd ==
  \A c \in Askers : ongoing[c].at = "trying" ~> ongoing[c].at \in {"answered", "raised"}
=============================================================================
