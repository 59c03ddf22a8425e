--------------------------- MODULE Conversations ---------------------------
(***************************************************************************)
(* Where conversations are kept: the database rows of projects, sessions   *)
(* and messages, as the message processor (gateway/processor.py) and the   *)
(* chat API (gateway/api/chat.py, gateway/api/sessions.py) read and write  *)
(* them.                                                                   *)
(*                                                                         *)
(* Gateway requests do their database work in executor threads, one call   *)
(* after the other; an API request does its own on the event loop, which   *)
(* nothing else of the loop can interrupt, while the executor threads go   *)
(* on.  Requests of one channel run side by side: with debouncing on the   *)
(* router hands out more than one of them (MessageRouterOvertake).         *)
(* Cancelling a request does not stop the call its thread is in.           *)
(* A session has a context: the channel, the user's direct messages, or    *)
(* "app" for the API.                                                      *)
(***************************************************************************)
EXTENDS Naturals, Sequences, FiniteSets, SequencesExt

CONSTANTS
    Requests,     \* the requests of the run
    Users,
    Channels,     \* the channels users share
    Threshold,    \* REFLECTION_THRESHOLD
    HistoryLimit, \* rows of the user a prompt shows (30)
    EnoughRows,   \* rows a reflection needs (4)
    MaxEdits      \* bound on the calls of the session endpoints

ASSUME ConversationsAssumption ==
    /\ Threshold \in Nat \ {0} /\ HistoryLimit \in Nat \ {0} /\ EnoughRows \in Nat
    /\ MaxEdits \in Nat

VARIABLES
    user,        \* [Requests -> who sent it]
    place,       \* [Requests -> a channel, "dm", or "app" for the API]
    projects,    \* [user -> how many projects the user owns]
    sessions,    \* the session rows, in order of creation
    recent,      \* the session rows in order of last_activity_at
    rows,        \* the message rows, in order of creation
    status,      \* [Requests -> what became of the request]
    at,          \* [Requests -> the call it is in]
    project,     \* [Requests -> the project its lookup chose, 0 for none]
    session,     \* [Requests -> its session, 0 for none]
    history,     \* [Requests -> requests whose answers its prompt shows]
    counts,      \* [users -> exchanges since the last reflection]
    apiCounts,   \* [users -> the same of the API]
    edits,       \* calls of the session endpoints so far
    reflections, \* the reflections made: [user, rows]
    before,      \* history: [Requests -> requests of the user answered before it]
    lost,        \* history: requests with a row that was not stored, or was deleted
    unread,      \* history: requests whose reading of the history failed
    met,         \* history: the pairs of a context whose session lookups overlapped
    crossed      \* history: the pairs one of which began before the other had stored

conversationVars == <<user, place, projects, sessions, recent, rows, status, at, project, session,
          history, counts, apiCounts, edits, reflections, before, lost, unread, met, crossed>>

Places == Channels \cup {"dm", "app"}
IsApi(r) == place[r] = "app"

\* context_id of the session of a request, and what _maybe_reflect looks for instead
Context(r) ==
    CASE place[r] = "dm" -> <<"dm", user[r]>>
      [] place[r] = "app" -> <<"app">>
      [] OTHER -> <<"channel", place[r]>>
ReflectContext(r) == <<place[r]>>

Least(m, n) == IF m < n THEN m ELSE n

Lookup == {"project", "newProject", "session", "create"}
Stored(s) == sessions[s].state # "deleted"
Active(u, c, p) == {s \in DOMAIN sessions :
    /\ sessions[s].user = u /\ sessions[s].context = c /\ sessions[s].project = p
    /\ sessions[s].state \in {"active", "reopened"}}
Touched(s) == Append(SelectSeq(recent, LAMBDA t : t # s), s)
LatestOf(S) == recent[CHOOSE i \in DOMAIN recent :
    recent[i] \in S /\ \A j \in DOMAIN recent : j > i => recent[j] \notin S]

In(s, table) == SelectSeq(table, LAMBDA m : m.session = s)
RowsOf(s) == In(s, rows)
OfUser(u) == SelectSeq(rows, LAMBDA m : Stored(m.session) /\ sessions[m.session].user = u)

\* The rows _get_recent_messages returns: the newest, in order of creation.
LastRows_Oldest(u) ==
    LET mine == OfUser(u) IN SubSeq(mine, 1, Least(Len(mine), HistoryLimit))
LastRows(u) ==
    LET mine == OfUser(u)
    IN  SubSeq(mine, Len(mine) - Least(Len(mine), HistoryLimit) + 1, Len(mine))
Row(r, role) == [session |-> session[r], role |-> role, request |-> r]

(* The event loop is free unless an API request is in its database calls.  *)
LoopIsFree_Always == TRUE
LoopIsFree == \A r \in Requests : IsApi(r) => at[r] \notin Lookup \cup {"history"}

ConversationsInit ==
    /\ user \in [Requests -> Users] /\ place \in [Requests -> Places]
    /\ projects = [u \in Users |-> 0] /\ sessions = <<>> /\ recent = <<>> /\ rows = <<>>
    /\ status = [r \in Requests |-> "waiting"] /\ at = [r \in Requests |-> "over"]
    /\ project = [r \in Requests |-> 0] /\ session = [r \in Requests |-> 0]
    /\ history = [r \in Requests |-> {}]
    /\ counts = [u \in Users |-> 0] /\ apiCounts = [u \in Users |-> 0]
    /\ edits = 0 /\ reflections = {}
    /\ before = [r \in Requests |-> {}] /\ lost = {} /\ unread = {} /\ met = {} /\ crossed = {}

----------------------------------------------------------------------------
\* Those of the user and context of r that are in one of the calls.
Sharing(r, calls) ==
    {q \in Requests : at[q] \in calls /\ user[q] = user[r] /\ Context(q) = Context(r)}
Unstored == Lookup \cup {"history", "llm", "storeUser", "storeAssistant", "store"}

Start(r) ==
    /\ status[r] = "waiting" /\ LoopIsFree
    /\ status' = [status EXCEPT ![r] = "running"] /\ at' = [at EXCEPT ![r] = "project"]
    /\ before' = [before EXCEPT ![r] =
           {q \in Requests : user[q] = user[r] /\ status[q] = "answered"}]
    /\ met' = met \cup {{q, r} : q \in Sharing(r, Lookup)}
    /\ crossed' = crossed \cup {{q, r} : q \in Sharing(r, Unstored)}
    /\ UNCHANGED <<user, place, projects, sessions, recent, rows, project,
                   session, history, counts, apiCounts, reflections, lost,
                   edits, unread>>

(* Where the request goes when its thread ends a call: on, or nowhere when *)
(* it was cancelled meanwhile.                                             *)
Then(r, next) == at' = [at EXCEPT ![r] = IF status[r] = "running" THEN next ELSE "over"]

FindProject(r) ==
    /\ at[r] = "project"
    /\ \/ /\ projects[user[r]] = 0
          /\ at' = [at EXCEPT ![r] = "newProject"] /\ UNCHANGED project
       \/ /\ \E p \in 1 .. projects[user[r]] : project' = [project EXCEPT ![r] = p]
          /\ at' = [at EXCEPT ![r] = "session"]
    /\ UNCHANGED <<user, place, projects, sessions, recent, rows, status,
                   session, history, counts, apiCounts, reflections, edits,
                   before, lost, unread, met, crossed>>

CreateProject(r) ==
    /\ at[r] = "newProject"
    /\ projects' = [projects EXCEPT ![user[r]] = @ + 1]
    /\ project' = [project EXCEPT ![r] = projects'[user[r]]]
    /\ at' = [at EXCEPT ![r] = "session"]
    /\ UNCHANGED <<user, place, sessions, recent, rows, status, session,
                   history, counts, apiCounts, reflections, edits, before, lost,
                   unread, met, crossed>>

(* The newest active session of the context; the gateway touches it, the   *)
(* API does not.                                                           *)
FindSession(r) ==
    LET matches == Active(user[r], Context(r), project[r]) IN
    /\ at[r] = "session"
    /\ \/ /\ matches = {}
          /\ at' = [at EXCEPT ![r] = "create"] /\ UNCHANGED <<session, recent>>
       \/ /\ matches # {}
          /\ session' = [session EXCEPT ![r] = LatestOf(matches)]
          /\ recent' = IF IsApi(r) THEN recent ELSE Touched(session'[r])
          /\ Then(r, "history")
    /\ UNCHANGED <<user, place, projects, sessions, rows, status, project,
                   history, counts, apiCounts, reflections, edits, before, lost,
                   unread, met, crossed>>

CreateSession(r) ==
    /\ at[r] = "create"
    /\ sessions' = Append(sessions, [user |-> user[r], context |-> Context(r),
                                     project |-> project[r], state |-> "active"])
    /\ recent' = Append(recent, Len(sessions'))
    /\ session' = [session EXCEPT ![r] = Len(sessions')]
    /\ Then(r, "history")
    /\ UNCHANGED <<user, place, projects, rows, status, project, history,
                   counts, apiCounts, reflections, edits, before, lost, unread, met, crossed>>

(* A database call of a lookup raises: the gateway's request fails.        *)
LookupFails(r) ==
    /\ ~IsApi(r) /\ at[r] \in Lookup
    /\ status' = [status EXCEPT ![r] = IF @ = "running" THEN "failed" ELSE @]
    /\ at' = [at EXCEPT ![r] = "over"]
    /\ UNCHANGED <<user, place, projects, sessions, recent, rows, project,
                   session, history, counts, apiCounts, reflections, edits,
                   before, lost, unread, met, crossed>>

(* The API goes on without a session and a history.                        *)
ApiSetupFails(r) ==
    /\ IsApi(r) /\ at[r] \in Lookup \cup {"history"}
    /\ session' = [session EXCEPT ![r] = 0] /\ at' = [at EXCEPT ![r] = "llm"]
    /\ UNCHANGED <<user, place, projects, sessions, recent, rows, status,
                   project, history, counts, apiCounts, reflections, edits,
                   before, lost, unread, met, crossed>>

(* The user's latest rows of all sessions become part of the prompt;       *)
(* _get_recent_messages returns none of them when the database fails.      *)
ReadHistory(r) ==
    /\ at[r] = "history"
    /\ \/ /\ history' = [history EXCEPT ![r] =
               {m.request : m \in {n \in ToSet(LastRows(user[r])) : n.role = "assistant"}}]
          /\ UNCHANGED unread
       \/ ~IsApi(r) /\ unread' = unread \cup {r} /\ UNCHANGED history
    /\ Then(r, "llm")
    /\ UNCHANGED <<user, place, projects, sessions, recent, rows, status,
                   project, session, counts, apiCounts, reflections, edits,
                   before, lost, met, crossed>>

(* The rows are stored before the response ends.                           *)
AfterText_Send(r) == IF IsApi(r) THEN "store" ELSE "send"
AfterText(r) == IF IsApi(r) THEN "store" ELSE "storeUser"

(* The model answers, with text or (a gateway request) with none, in which *)
(* case nothing is stored; or the request fails.                           *)
Generate(r) ==
    /\ at[r] = "llm" /\ status[r] = "running" /\ LoopIsFree
    /\ \/ /\ at' = [at EXCEPT ![r] = AfterText(r)]
          /\ UNCHANGED <<status, lost>>
       \/ /\ ~IsApi(r)
          /\ at' = [at EXCEPT ![r] = "send"] /\ lost' = lost \cup {r} /\ UNCHANGED status
       \/ /\ status' = [status EXCEPT ![r] = "failed"]
          /\ at' = [at EXCEPT ![r] = "over"] /\ UNCHANGED lost
    /\ UNCHANGED <<user, place, projects, sessions, recent, rows, project,
                   session, history, counts, apiCounts, reflections, edits,
                   before, unread, met, crossed>>

(* _store_message swallows every error, a session that is gone being one   *)
(* where the database checks foreign keys (PostgreSQL, not SQLite).        *)
StoreUser(r) ==
    /\ at[r] = "storeUser" /\ Then(r, "storeAssistant")
    /\ \/ rows' = Append(rows, Row(r, "user"))
          /\ lost' = IF Stored(session[r]) THEN lost ELSE lost \cup {r}
       \/ rows' = rows /\ lost' = lost \cup {r}
    /\ UNCHANGED <<user, place, projects, sessions, recent, status, project,
                   session, history, counts, apiCounts, reflections, edits,
                   before, unread, met, crossed>>

StoreAssistant(r) ==
    /\ at[r] = "storeAssistant" /\ Then(r, "send")
    /\ \/ rows' = Append(rows, Row(r, "assistant"))
          /\ lost' = IF Stored(session[r]) THEN lost ELSE lost \cup {r}
       \/ rows' = rows /\ lost' = lost \cup {r}
    /\ UNCHANGED <<user, place, projects, sessions, recent, status, project,
                   session, history, counts, apiCounts, reflections, edits,
                   before, unread, met, crossed>>

(* ResponseEnd; a closed connection raises CancelledError, and the         *)
(* background work is not started.                                         *)
SendEnd(r) ==
    /\ at[r] = "send" /\ status[r] = "running" /\ LoopIsFree
    /\ \/ /\ status' = [status EXCEPT ![r] = "answered"]
          /\ at' = [at EXCEPT ![r] = "background"]
       \/ /\ status' = [status EXCEPT ![r] = "closed"]
          /\ at' = [at EXCEPT ![r] = "over"]
    /\ UNCHANGED <<user, place, projects, sessions, recent, rows, project,
                   session, history, counts, apiCounts, reflections, edits,
                   before, lost, unread, met, crossed>>

(* The reflection of the thread a lookup found, if it has enough rows.     *)
Reflection(u, thread, table) ==
    IF thread # 0 /\ Len(In(thread, table)) >= EnoughRows
    THEN {[user |-> u, session |-> thread, rows |-> Len(In(thread, table))]} ELSE {}

(* _maybe_reflect counts the exchange and, at the threshold, looks for a   *)
(* session whose context is the bare channel id.  All of it runs on the    *)
(* loop without a pause.                                                   *)
MaybeReflect(r) ==
    LET u == user[r]
        found == {s \in DOMAIN sessions : Stored(s) /\ sessions[s].user = u
                                          /\ sessions[s].context = ReflectContext(r)}
        due == counts[u] + 1 >= Threshold
    IN
    /\ at[r] = "background" /\ LoopIsFree
    /\ counts' = [counts EXCEPT ![u] = IF due THEN 0 ELSE @ + 1]
    /\ reflections' = reflections \cup
           (IF due /\ found # {} THEN Reflection(u, LatestOf(found), rows) ELSE {})
    /\ at' = [at EXCEPT ![r] = "over"]
    /\ UNCHANGED <<user, place, projects, sessions, recent, rows, status,
                   project, session, history, apiCounts, edits, before, lost,
                   unread, met, crossed>>

(* The API stores both rows in one go, counts and reflects before it       *)
(* sends [DONE].  A row that cannot be stored ends it all.                 *)
ApiStore(r) ==
    LET u == user[r]
        due == apiCounts[u] + 1 >= Threshold
        kept == session[r] # 0 /\ Stored(session[r])
        pair == <<Row(r, "user"), Row(r, "assistant")>>
    IN
    /\ at[r] = "store" /\ status[r] = "running" /\ LoopIsFree
    /\ \E n \in 0 .. 2 :   \* how many rows were stored
          /\ session[r] = 0 => n = 0
          /\ rows' = rows \o SubSeq(pair, 1, n)
          /\ lost' = IF n = 2 /\ kept THEN lost ELSE lost \cup {r}
          /\ IF n = 2 \/ session[r] = 0
             THEN /\ apiCounts' = [apiCounts EXCEPT ![u] = IF due THEN 0 ELSE @ + 1]
                  /\ reflections' = reflections \cup
                         (IF due THEN Reflection(u, session[r], rows') ELSE {})
             ELSE UNCHANGED <<apiCounts, reflections>>
    /\ status' = [status EXCEPT ![r] = "answered"] /\ at' = [at EXCEPT ![r] = "over"]
    /\ UNCHANGED <<user, place, projects, sessions, recent, project, session,
                   history, counts, edits, before, unread, met, crossed>>

(* A cancelled request (cancel command, preemption, a client that leaves). *)
(* A call that has not begun in its thread never runs; one that has goes   *)
(* on by itself.                                                           *)
CancelRequest(r) ==
    /\ status[r] = "running" /\ LoopIsFree
    /\ status' = [status EXCEPT ![r] = "cancelled"]
    /\ \/ /\ at[r] \in {"project", "history", "llm", "storeUser", "storeAssistant", "send"}
          /\ at' = [at EXCEPT ![r] = "over"]
       \/ at[r] \in Lookup \cup {"storeUser", "storeAssistant"} /\ UNCHANGED at
    /\ UNCHANGED <<user, place, projects, sessions, recent, rows, project,
                   session, history, counts, apiCounts, reflections, edits,
                   before, lost, unread, met, crossed>>

----------------------------------------------------------------------------
(* The session endpoints.                                                  *)
SetState(s, state) ==
    /\ LoopIsFree /\ edits < MaxEdits /\ edits' = edits + 1
    /\ sessions[s].state # state /\ Stored(s)
    /\ sessions' = [sessions EXCEPT ![s].state = state]
    /\ UNCHANGED <<user, place, projects, recent, rows, status, at, project,
                   session, history, counts, apiCounts, reflections, before,
                   unread, met, crossed>>

Archive(s) == SetState(s, "archived") /\ UNCHANGED lost
Unarchive(s) == sessions[s].state = "archived" /\ SetState(s, "reopened") /\ UNCHANGED lost

(* delete_session removes the session's messages, then the session.        *)
DeleteSession(s) ==
    /\ LoopIsFree /\ edits < MaxEdits /\ edits' = edits + 1
    /\ Stored(s)
    /\ sessions' = [sessions EXCEPT ![s].state = "deleted"]
    /\ recent' = SelectSeq(recent, LAMBDA t : t # s)
    /\ rows' = SelectSeq(rows, LAMBDA m : m.session # s)
    /\ lost' = lost \cup {RowsOf(s)[i].request : i \in DOMAIN RowsOf(s)}
    /\ UNCHANGED <<user, place, projects, status, at, project, session, history,
                   counts, apiCounts, reflections, before, unread, met, crossed>>

ConversationsNext ==
    \/ \E r \in Requests :
          \/ Start(r) \/ FindProject(r) \/ CreateProject(r) \/ FindSession(r)
          \/ CreateSession(r) \/ LookupFails(r) \/ ApiSetupFails(r) \/ ReadHistory(r)
          \/ Generate(r)
          \/ StoreUser(r) \/ StoreAssistant(r) \/ SendEnd(r) \/ MaybeReflect(r)
          \/ ApiStore(r) \/ CancelRequest(r)
    \/ \E s \in DOMAIN sessions : Archive(s) \/ Unarchive(s) \/ DeleteSession(s)

ConversationsSpec == ConversationsInit /\ [][ConversationsNext]_conversationVars

----------------------------------------------------------------------------
ConversationsTypeOK ==
    /\ user \in [Requests -> Users] /\ place \in [Requests -> Places]
    /\ projects \in [Users -> 0 .. Cardinality(Requests)]
    /\ \A s \in DOMAIN sessions : sessions[s].state \in {"active", "archived", "reopened", "deleted"}
    /\ ToSet(recent) = {s \in DOMAIN sessions : Stored(s)} /\ IsInjective(recent)
    /\ status \in [Requests -> {"waiting", "running", "answered", "failed", "cancelled",
                             "closed"}]
    /\ \A r \in Requests : session[r] \in 0 .. Len(sessions)
    /\ counts \in [Users -> 0 .. Threshold - 1]
    /\ apiCounts \in [Users -> 0 .. Threshold - 1]

\* The user has HistoryLimit rows newer than the answer to q.
PushedOut(q) ==
    LET mine == OfUser(user[q])
    IN  \E i \in DOMAIN mine : /\ mine[i] = Row(q, "assistant")
                               /\ Len(mine) - i >= HistoryLimit

(* "Store messages in DB (fast - must complete before response)"           *)
(* (processor.py:468): a prompt shows every exchange of the user that was  *)
(* answered, on any platform, before the request began, unless it could    *)
(* not be stored, was deleted or was pushed out by newer rows, or the      *)
(* history could not be read.                                              *)
RemembersAnswers ==
    \A r \in Requests \ unread :
        at[r] = "llm" /\ session[r] # 0 /\ status[r] = "running" =>
            \A q \in before[r] \ lost : q \in history[r] \/ PushedOut(q)

(* In a session each answer directly follows the message it answers, but   *)
(* for the rows a cancelled request's thread still stores and for requests *)
(* of the context that ran side by side.                                   *)
TurnsPaired ==
    \A s \in DOMAIN sessions :
        LET turns == SelectSeq(RowsOf(s), LAMBDA m : status[m.request] # "cancelled")
        IN  \A i \in DOMAIN turns :
                LET r == turns[i].request IN
                /\ turns[i].role = "assistant" /\ r \notin lost
                /\ \A q \in Requests : {q, r} \in crossed => status[q] = "cancelled"
                => i > 1 /\ turns[i - 1] = [turns[i] EXCEPT !.role = "user"]

(* A user has one active session per context and project, although it is   *)
(* created by a query and an insert in a thread: two come only from        *)
(* requests whose lookups overlapped, never from the API's, and from       *)
(* unarchiving a session whose place was taken.                            *)
OneSessionPerContext ==
    \A s, t \in DOMAIN sessions :
        /\ s < t /\ sessions[s].state = "active" /\ sessions[t].state = "active"
        /\ sessions[s].user = sessions[t].user /\ sessions[s].context = sessions[t].context
        /\ sessions[s].project = sessions[t].project
        => \E q, r \in Requests :
               {q, r} \in met /\ ~IsApi(q) /\ ~IsApi(r) /\ session[q] = s /\ session[r] = t

ConversationsSafe == RemembersAnswers /\ TurnsPaired /\ OneSessionPerContext

=============================================================================
