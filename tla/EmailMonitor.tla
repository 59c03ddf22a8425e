---------------------------- MODULE EmailMonitor ----------------------------
(* services/email: the loop that polls one IMAP account, the rules that       *)
(* choose the messages worth an alert, and the marks it keeps in the database *)
(* (last seen message, recorded alerts, error count). The loop suspends while *)
(* it fetches and while it sends; the process may die at both.                *)
EXTENDS Integers, Sequences, FiniteSets, FiniteSetsExt

CONSTANTS
  Mail,          \* the messages that will arrive, in order: the conditions each meets
  Rules,         \* the rules of the account: [priority, enabled, readable, mode, conditions]
  FetchLimit,    \* limit of get_new_messages
  ErrorLimit,    \* errors after which the status is "error"
  MaxFaults      \* bound: failures and crashes

ASSUME EmailConstants ==
  /\ Mail \in Seq({Mail[m] : m \in DOMAIN Mail})
  /\ Rules \in Seq({Rules[k] : k \in DOMAIN Rules})
  /\ \A k \in DOMAIN Rules : Rules[k].priority \in Int
  /\ FetchLimit \in Nat /\ ErrorLimit \in Nat \ {0} /\ MaxFaults \in Nat

VARIABLES
  arrived,    \* how many messages arrived; their uids are 1..arrived
  marked,     \* those flagged \Seen in the mailbox, kept while account.seen = 0
  quiet,      \* whether quiet hours are active
  due,        \* whether the account's next check has come
  account,    \* the account's row: last_seen_uid, status, error_count
  recorded,   \* the messages with a recorded alert
  check,      \* the check under way
  sent,       \* history: how many alerts were delivered for each message
  excused,    \* history: the messages passed over, see Excuses
  repeated,   \* history: the messages whose alert was delivered but not recorded
  fails,      \* history: consecutive failed checks
  faults      \* how many failures and crashes happened

emailVars == <<arrived, marked, quiet, due, account, recorded, check, sent, excused,
               repeated, fails, faults>>

Messages == DOMAIN Mail
NoCheck == [at |-> "none", batch |-> {}, newest |-> 0]

(* A message is passed over in quiet hours, when no adapter takes its alert,  *)
(* when its fetch failed while a newer one's succeeded, when more than        *)
(* FetchLimit newer messages arrived, and when it was marked as read while    *)
(* the account had no last-seen mark: by its user, or by the fetch of a check *)
(* that did not come to its end.                                              *)
Excuses == {"quiet", "undelivered", "not fetched", "over the limit", "read"}

EmailTypeOK ==
  /\ arrived \in 0..Len(Mail) /\ marked \subseteq 1..arrived /\ {quiet, due} \subseteq BOOLEAN
  /\ account \in [seen : 0..Len(Mail), status : {"active", "error"}, errors : Nat]
  /\ recorded \subseteq Messages
  /\ check \in [at : {"none", "fetching", "processing", "sending"},
                batch : SUBSET (1..arrived), newest : 0..arrived]
  /\ sent \in [Messages -> Nat] /\ excused \subseteq Messages \X Excuses
  /\ repeated \subseteq Messages
  /\ fails \in Nat /\ faults \in 0..MaxFaults
  /\ check.at \in {"processing", "sending"} => check.newest > 0
  /\ check.at = "sending" => check.batch # {}

EmailInit ==
  /\ arrived = 0 /\ marked = {} /\ quiet = FALSE /\ due = TRUE
  /\ account = [seen |-> 0, status |-> "active", errors |-> 0]
  /\ recorded = {} /\ check = NoCheck
  /\ sent = [m \in Messages |-> 0] /\ excused = {} /\ repeated = {}
  /\ fails = 0 /\ faults = 0

-----------------------------------------------------------------------------
(* evaluate_email: the first rule that matches, in the order of priority and  *)
(* otherwise as they are. A rule without conditions or whose definition cannot*)
(* be read matches nothing.                                                   *)
RuleMatches(rule, m) ==
  /\ rule.enabled /\ rule.readable /\ rule.conditions # {}
  /\ IF rule.mode = "all" THEN rule.conditions \subseteq Mail[m]
                          ELSE rule.conditions \cap Mail[m] # {}

Precedes(k, l) ==
  \/ Rules[k].priority > Rules[l].priority
  \/ Rules[k].priority = Rules[l].priority /\ k < l

Evaluate(m) ==
  LET matching == {k \in DOMAIN Rules : RuleMatches(Rules[k], m)} IN
  {Rules[k] : k \in {k \in matching : \A l \in matching \ {k} : Precedes(k, l)}}

-----------------------------------------------------------------------------
Arrive ==
  /\ arrived < Len(Mail) /\ arrived' = arrived + 1
  /\ UNCHANGED <<marked, quiet, due, account, recorded, check, sent, excused, repeated, fails, faults>>

(* The user reads a message in a mail program; it matters to the first check. *)
UserReads ==
  /\ account.seen = 0
  /\ \E m \in (1..arrived) \ marked :
       marked' = marked \cup {m} /\ excused' = excused \cup {<<m, "read">>}
  /\ UNCHANGED <<arrived, quiet, due, account, recorded, check, sent, repeated, fails, faults>>

QuietHours ==
  /\ quiet' = ~quiet
  /\ UNCHANGED <<arrived, marked, due, account, recorded, check, sent, excused, repeated, fails, faults>>

TimePasses ==
  /\ ~due /\ due' = TRUE
  /\ UNCHANGED <<arrived, marked, quiet, account, recorded, check, sent, excused, repeated, fails, faults>>

(* get_accounts_to_check: an account whose status is "error" is checked too. *)
CheckStarts_Fault ==
  /\ due /\ check.at = "none" /\ account.status # "error"
  /\ check' = [NoCheck EXCEPT !.at = "fetching"]
  /\ UNCHANGED <<arrived, marked, quiet, due, account, recorded, sent, excused, repeated, fails, faults>>
CheckStarts ==
  /\ due /\ check.at = "none"
  /\ check' = [NoCheck EXCEPT !.at = "fetching"]
  /\ UNCHANGED <<arrived, marked, quiet, due, account, recorded, sent, excused, repeated, fails, faults>>

-----------------------------------------------------------------------------
(* The end of a check: the status is updated and the next check scheduled.    *)
Succeeds(seen) ==
  /\ account' = [seen |-> seen, status |-> "active", errors |-> 0]
  /\ check' = NoCheck /\ due' = FALSE /\ fails' = 0

(* A failed check is counted by check_account and again by the loop. Without  *)
(* a last-seen mark the next check asks for unread messages, so those of this *)
(* check that were read from the server and not yet handled are lost.         *)
CountError(acc) ==
  [seen |-> acc.seen, errors |-> acc.errors + 1,
   status |-> IF acc.errors + 1 >= ErrorLimit THEN "error" ELSE acc.status]
Fault == faults < MaxFaults /\ faults' = faults + 1
Lost(ms) == IF account.seen = 0 THEN ms \X {"read"} ELSE {}

CheckFails_Fault ==
  /\ account' = CountError(account)
  /\ check' = NoCheck /\ due' = FALSE /\ fails' = fails + 1
  /\ excused' = excused \cup Lost(check.batch)
  /\ Fault
CheckFails ==
  /\ account' = CountError(CountError(account))
  /\ check' = NoCheck /\ due' = FALSE /\ fails' = fails + 1
  /\ excused' = excused \cup Lost(check.batch)
  /\ Fault

(* The unread messages as long as there is no last-seen mark; then what lies  *)
(* above it, or the newest message alone: the server reads a range whose start*)
(* is beyond the last uid as that uid. The newest FetchLimit of them are      *)
(* fetched, newest first; an error in the middle leaves those fetched so far. *)
Wanted ==
  IF account.seen = 0 THEN (1..arrived) \ marked
  ELSE IF account.seen < arrived THEN account.seen + 1 .. arrived ELSE {arrived}

Newest(n) == {m \in Wanted : Cardinality({k \in Wanted : k > m}) < n}

Marked(ms) == marked' = IF account.seen = 0 THEN marked \cup ms ELSE marked

(* The messages read from the server are flagged as read, and ms of them make *)
(* the batch of the check.                                                    *)
Fetched(read, ms, why) ==
  /\ Marked(read)
  /\ IF ms = {} THEN Succeeds(account.seen)
     ELSE /\ check' = [at |-> "processing", batch |-> ms, newest |-> Max(ms)]
          /\ UNCHANGED <<account, due, fails>>
  /\ excused' = excused \cup Lost(read \ ms)
                 \cup {m \in Wanted \ ms : \E k \in ms : m < k} \X {why}
  /\ UNCHANGED <<arrived, quiet, recorded, sent, repeated>>

Fetch ==
  /\ check.at = "fetching"
  /\ Fetched(Newest(FetchLimit), Newest(FetchLimit), "over the limit")
  /\ UNCHANGED faults

(* The server fails at a message, or the message cannot be read. *)
FetchBreaksOff ==
  /\ check.at = "fetching"
  /\ \E n \in 0 .. FetchLimit - 1 : \E k \in {n, n + 1} :
       Fetched(Newest(k), Newest(n), "not fetched")
  /\ Fault

-----------------------------------------------------------------------------
(* process_message for the newest message of the batch, up to its sending.    *)
Passed_Fault(c) == [c EXCEPT !.batch = @ \ {Max(@)}]
Passed(c) == [c EXCEPT !.at = "processing", !.batch = @ \ {Max(@)}]
Current == Max(check.batch)

Alerted_Fault(m) == FALSE
Alerted(m) == m \in recorded

Skip ==
  /\ check.at = "processing" /\ check.batch # {}
  /\ \/ Alerted(Current) /\ UNCHANGED excused
     \/ ~Alerted(Current) /\ Evaluate(Current) = {} /\ UNCHANGED excused
     \/ /\ ~Alerted(Current) /\ Evaluate(Current) # {} /\ quiet
        /\ excused' = excused \cup {<<Current, "quiet">>}
  /\ check' = Passed(check)
  /\ UNCHANGED <<arrived, marked, quiet, due, account, recorded, sent, repeated, fails, faults>>

Send ==
  /\ check.at = "processing" /\ check.batch # {}
  /\ ~Alerted(Current) /\ Evaluate(Current) # {} /\ ~quiet
  /\ check' = [check EXCEPT !.at = "sending"]
  /\ UNCHANGED <<arrived, marked, quiet, due, account, recorded, sent, excused, repeated, fails, faults>>

Deliver ==
  /\ check.at = "sending"
  /\ sent' = [sent EXCEPT ![Current] = @ + 1]
  /\ recorded' = recorded \cup {Current}
  /\ check' = Passed(check)
  /\ UNCHANGED <<arrived, marked, quiet, due, account, excused, repeated, fails, faults>>

NobodyTakesIt ==
  /\ check.at = "sending"
  /\ excused' = excused \cup {<<Current, "undelivered">>}
  /\ check' = Passed(check)
  /\ Fault
  /\ UNCHANGED <<arrived, marked, quiet, due, account, recorded, sent, repeated, fails>>

(* The sender raises, or the alert was delivered and recording it raises. *)
SendRaises ==
  /\ check.at = "sending"
  /\ \/ UNCHANGED <<sent, repeated>>
     \/ /\ sent' = [sent EXCEPT ![Current] = @ + 1]
        /\ repeated' = repeated \cup {Current}
  /\ CheckFails
  /\ UNCHANGED <<arrived, marked, quiet, recorded>>

(* The batch is done: the newest message of the batch is the last one seen.   *)
Finish_Fault ==
  /\ check.at = "processing"
  /\ Succeeds(check.newest)
  /\ UNCHANGED <<arrived, marked, quiet, recorded, sent, excused, repeated, faults>>
Finish ==
  /\ check.at = "processing" /\ check.batch = {}
  /\ Succeeds(check.newest)
  /\ UNCHANGED <<arrived, marked, quiet, recorded, sent, excused, repeated, faults>>

DatabaseFails ==
  /\ check.at = "processing" /\ check.batch = {}
  /\ CheckFails
  /\ UNCHANGED <<arrived, marked, quiet, recorded, sent, repeated>>

(* The process dies and starts again; the times of the next checks are lost.  *)
Crash ==
  /\ check.at # "none"
  /\ \/ UNCHANGED <<sent, repeated>>
     \/ /\ check.at = "sending"
        /\ sent' = [sent EXCEPT ![Current] = @ + 1]
        /\ repeated' = repeated \cup {Current}
  /\ \E n \in 0..FetchLimit :
       LET read == IF check.at = "fetching" THEN Newest(n) ELSE {} IN
       /\ Marked(read)
       /\ excused' = excused \cup Lost(read \cup check.batch)
  /\ check' = NoCheck /\ due' = TRUE
  /\ Fault
  /\ UNCHANGED <<arrived, quiet, account, recorded, fails>>

Proceed == CheckStarts \/ Fetch \/ Skip \/ Send \/ Deliver \/ Finish

EmailNext ==
  \/ Arrive \/ UserReads \/ QuietHours \/ TimePasses \/ Proceed
  \/ FetchBreaksOff \/ NobodyTakesIt \/ SendRaises \/ DatabaseFails \/ Crash

(* Time passes, and the loop goes on. *)
EmailFairness == WF_emailVars(TimePasses) /\ WF_emailVars(Proceed)

EmailSpec == EmailInit /\ [][EmailNext]_emailVars /\ EmailFairness

-----------------------------------------------------------------------------
(* What the rules say, independently of the order of their evaluation. *)
Relevant(m) ==
  \E k \in DOMAIN Rules : LET r == Rules[k] IN
    /\ r.enabled /\ r.readable
    /\ \E c \in r.conditions :
         /\ c \in Mail[m]
         /\ r.mode = "all" => \A d \in r.conditions : d \in Mail[m]

(* The last-seen mark moves past a relevant message only if its alert was     *)
(* delivered or it has one of the five excuses.                               *)
SeenIsAlerted ==
  \A m \in 1..account.seen :
    Relevant(m) => sent[m] > 0 \/ \E why \in Excuses : <<m, why>> \in excused

(* An alert is delivered once, unless its recording failed or the process     *)
(* died in between; irrelevant messages have none.                            *)
AlertedOnce ==
  \A m \in Messages :
    /\ sent[m] > 1 => m \in repeated
    /\ sent[m] > 0 => Relevant(m)

(* Each failed check counts as two errors, so that half as many failures as   *)
(* the limit says make the status "error".                                    *)
ErrorsCountTwice ==
  /\ account.errors = 2 * fails
  /\ (account.status = "error") = (2 * fails >= ErrorLimit)

(* Every relevant message is alerted or passed over for a reason in the end,  *)
(* failures, crashes and the status "error" notwithstanding.                  *)
MailIsHandled ==
  \A m \in Messages :
    (m <= arrived /\ Relevant(m)) ~> (sent[m] > 0 \/ \E why \in Excuses : <<m, why>> \in excused)

(* Every message is accounted for, and so is every failed check. *)
MailSafe == SeenIsAlerted /\ AlertedOnce /\ ErrorsCountTwice
=============================================================================
