---------------------------- MODULE RemoteServer ----------------------------
(* The connection to one remote MCP server (core/mcp/remote_server.py) and    *)
(* its authorization by OAuth (core/mcp/oauth.py). Tool calls reconnect when  *)
(* the session is gone; connecting and disconnecting hold the connection's    *)
(* lock, the counting of attempts does not. The OAuth state is a file every   *)
(* client reads when it is made and rewrites as a whole: the connection when  *)
(* it refreshes a token, each authorization when it starts and completes. The *)
(* request a task works for may be cancelled at any await.                    *)
EXTENDS Naturals, Sequences, FiniteSets, SequencesExt

CONSTANTS
  Actors,        \* tasks, each with one thing to do
  Jobs,          \* which it may be: "call" a tool, "connect", "disconnect", "authorize"
  Nobody,
  MaxReconnects, \* max_reconnect_attempts
  MaxFaults,     \* bound: sessions the server drops, failing requests
  MaxSessions, MaxTokens   \* bounds: identifiers given out

VARIABLES
  conn,       \* _connections[name]: config, state, session and exit stack
  saved,      \* the status in the saved configuration
  queue,      \* the connection's lock: who holds it, then who waits for it, in order
  managing,   \* who holds the manager's lock
  open,       \* sessions with resources on this side
  alive,      \* those the server still serves
  oauth,      \* the OAuth state file: token (0: none) and the verifier of a flow
  valid,      \* tokens that have not expired
  actor,      \* where each task is, and what it holds
  given,     \* sessions, tokens and faults so far
  leaked,     \* history: sessions whose exit stack was overwritten or left half closed
  failed,     \* history: reconnections that failed or were cancelled since the last success
  disturbed   \* history: flows during which another task rewrote the file

remoteVars == <<conn, saved, queue, managing, open, alive, oauth, valid, actor, given,
                leaked, failed, disturbed>>
connVars   == <<conn, saved, queue, managing, open, alive, leaked, failed>>
oauthVars  == <<oauth, valid, disturbed>>

NoState  == [token |-> 0, verifier |-> Nobody]   \* a file or a client without tokens
Statuses == {"stopped", "running", "error", "pending_auth"}
OAuth    == [token : 0 .. MaxTokens, verifier : Actors \cup {Nobody}]

RemoteTypeOK ==
  /\ conn \in [made : BOOLEAN, status : Statuses, connected : BOOLEAN, session : 0 .. MaxSessions,
               stack : 0 .. MaxSessions, attempts : 0 .. Cardinality(Actors) * 2,
               client : OAuth]
  /\ saved \in Statuses /\ queue \in Seq(Actors) /\ managing \in Actors \cup {Nobody}
  /\ open \subseteq 1 .. MaxSessions /\ alive \subseteq open /\ leaked \subseteq open
  /\ oauth \in OAuth /\ valid \subseteq 1 .. MaxTokens
  /\ actor \in [Actors -> [job : UNION {Jobs[a] : a \in Actors}, session : 0 .. MaxSessions,
                           at : {"new", "discovering", "registering", "issued", "exchanging",
                                 "joining", "entering", "refreshing", "dialing", "handshake",
                                 "calling", "dropping", "closing", "asleep", "over", "refused",
                                 "denied"},
                           again : BOOLEAN, was : BOOLEAN, mine : OAuth]]
  /\ given \in [sessions : 0 .. MaxSessions, tokens : 0 .. MaxTokens, faults : 0 .. MaxFaults]
  /\ failed \in 0 .. MaxReconnects /\ disturbed \subseteq Actors

\* The server may have been installed with or without a token, for which an
\* authorization is pending.
RemoteInit ==
  /\ conn = [made |-> FALSE, status |-> "stopped", connected |-> FALSE, session |-> 0, stack |-> 0,
             attempts |-> 0, client |-> NoState]
  /\ \/ oauth = NoState /\ saved = "pending_auth" /\ valid = {}
     \/ oauth = [NoState EXCEPT !.token = 1] /\ saved = "stopped" /\ valid = {1}
  /\ queue = <<>> /\ managing = Nobody /\ open = {} /\ alive = {}
  /\ \E job \in [Actors -> UNION {Jobs[a] : a \in Actors}] :
       /\ \A a \in Actors : job[a] \in Jobs[a]
       /\ actor = [a \in Actors |-> [job |-> job[a], at |-> "new", session |-> 0, again |-> FALSE,
                                     was |-> FALSE, mine |-> NoState]]
  /\ given = [sessions |-> 0, tokens |-> oauth.token, faults |-> 0]
  /\ leaked = {} /\ failed = 0 /\ disturbed = {}

-----------------------------------------------------------------------------
Connected(c) == c.connected /\ c.session # 0
Go(a, at) == actor' = [actor EXCEPT ![a].at = at]
Acquire(a) == queue' = Append(queue, a)
Holds(a) == queue # <<>> /\ Head(queue) = a
Release == queue' = Tail(queue)
Unlock(a) == managing' = IF managing = a THEN Nobody ELSE managing
Fault == given.faults < MaxFaults /\ given' = [given EXCEPT !.faults = @ + 1]

(* The whole state is written, by a task that read it some time ago. *)
Rewrite(a, state) ==
  /\ oauth' = state
  /\ disturbed' = disturbed \cup {b \in Actors \ {a} : actor[b].at = "issued"}

(* An exit stack is closed, and with it its session. *)
Free_Fault(s) == UNCHANGED <<open, alive>>
Free(s) == open' = open \ {s} /\ alive' = alive \ {s}

Reconnecting == {"dropping", "closing", "asleep", "entering", "refreshing", "dialing", "handshake"}
ReconnectFailed(a) == failed' = IF actor[a].job = "call" /\ failed < MaxReconnects THEN failed + 1 ELSE failed

-----------------------------------------------------------------------------
(* What is done at once when the lock is free is not done in a step of its    *)
(* own: a is appended to the queue, and goes on when it is alone there.       *)
Dropping(a, c) ==
  /\ conn' = [c EXCEPT !.connected = FALSE, !.session = 0, !.stack = 0]
  /\ actor' = [actor EXCEPT ![a].at = "closing", ![a].session = c.stack, ![a].was = c.connected,
                            ![a].again = @ \/ actor[a].at = "calling"]

(* call_tool and reconnect: an attempt is counted, and refused after the last.*)
Retry(a, c) ==
  LET counted == [c EXCEPT !.attempts = @ + 1] IN
  IF c.attempts >= MaxReconnects
  THEN conn' = counted /\ Go(a, "refused") /\ UNCHANGED queue
  ELSE /\ Acquire(a)
       /\ IF queue = <<>> THEN Dropping(a, counted)
          ELSE /\ conn' = counted
               /\ actor' = [actor EXCEPT ![a].at = "dropping", ![a].again = @ \/ actor[a].at = "calling"]

Call(a) ==
  /\ actor[a].job = "call" /\ actor[a].at = "new" /\ conn.made
  /\ IF Connected(conn)
     THEN /\ actor' = [actor EXCEPT ![a].at = "calling", ![a].session = conn.session]
          /\ UNCHANGED <<conn, queue>>
     ELSE Retry(a, conn)
  /\ UNCHANGED <<saved, managing, open, alive, leaked, failed, oauthVars, given>>

Answered(a) ==
  /\ actor[a].at = "calling" /\ actor[a].session \in alive
  /\ Go(a, "over") /\ UNCHANGED <<connVars, oauthVars, given>>

(* The session is gone: whichever is the connection's by now is marked        *)
(* disconnected. The second time the error is returned.                       *)
Broken(a) ==
  /\ actor[a].at = "calling" /\ actor[a].session \notin alive
  /\ IF actor[a].again THEN Go(a, "over") /\ UNCHANGED <<conn, queue>>
                       ELSE Retry(a, [conn EXCEPT !.connected = FALSE])
  /\ UNCHANGED <<saved, managing, open, alive, leaked, failed, oauthVars, given>>

(* disconnect, for a reconnection or by the manager. *)
Disconnect(a) ==
  /\ actor[a].job = "disconnect" /\ actor[a].at = "new" /\ managing = Nobody /\ conn.made
  /\ managing' = a /\ Acquire(a)
  /\ IF queue = <<>> THEN Dropping(a, conn) ELSE Go(a, "dropping") /\ UNCHANGED conn
  /\ UNCHANGED <<saved, open, alive, leaked, failed, oauthVars, given>>

Drop(a) ==
  /\ actor[a].at = "dropping" /\ Holds(a)
  /\ Dropping(a, conn)
  /\ UNCHANGED <<saved, queue, managing, open, alive, leaked, failed, oauthVars, given>>

Closed(a) ==
  /\ actor[a].at = "closing"
  /\ Free(actor[a].session)
  /\ IF actor[a].was THEN conn' = [conn EXCEPT !.status = "stopped"] /\ saved' = "stopped"
                     ELSE UNCHANGED <<conn, saved>>
  /\ Release /\ Unlock(a)
  /\ Go(a, IF actor[a].job = "call" THEN "asleep" ELSE "over")
  /\ UNCHANGED <<leaked, failed, oauthVars, given>>

-----------------------------------------------------------------------------
(* What connect() returns: a call goes on with the session, or gives up.      *)
Joined(a, session, manager) ==
  /\ actor' = [actor EXCEPT ![a].at = IF actor[a].job = "call" /\ session # 0 THEN "calling" ELSE "over",
                            ![a].session = session]
  /\ managing' = IF manager = a THEN Nobody ELSE manager

(* connect, when it has the lock: nothing to do, an authorization to wait     *)
(* for, or a connection.                                                      *)
Expired(c) == c.client.token # 0 /\ c.client.token \notin valid

Entering(a, c, locked, manager) ==
  /\ conn' = c
  /\ CASE Connected(c) -> Joined(a, c.session, manager) /\ queue' = Tail(locked) /\ UNCHANGED failed
       [] ~Connected(c) /\ c.status = "pending_auth" ->
            Joined(a, 0, manager) /\ queue' = Tail(locked) /\ ReconnectFailed(a)
       [] OTHER -> /\ queue' = locked /\ managing' = manager /\ UNCHANGED failed
                   /\ Go(a, IF Expired(c) THEN "refreshing" ELSE "dialing")

Enter(a) ==
  /\ actor[a].at = "entering" /\ Holds(a)
  /\ Entering(a, conn, queue, managing)
  /\ UNCHANGED <<saved, open, alive, leaked, oauthVars, given>>

EnterOrWait(a, c, manager) ==
  IF queue = <<>> THEN Entering(a, c, <<a>>, manager)
  ELSE /\ Acquire(a) /\ Go(a, "entering") /\ conn' = c /\ managing' = manager
       /\ UNCHANGED failed

(* reconnect, after a pause. *)
Wake(a) ==
  /\ actor[a].at = "asleep" /\ EnterOrWait(a, conn, managing)
  /\ UNCHANGED <<saved, open, alive, leaked, oauthVars, given>>

(* connect_server, by request or after an authorization: a connection is made *)
(* of the saved configuration and the tokens there are, unless there is one.  *)
Made ==
  IF conn.made THEN conn
  ELSE [conn EXCEPT !.made = TRUE, !.status = saved,
                    !.client = IF oauth.token = 0 THEN NoState ELSE oauth]

Join(a) ==
  /\ \/ actor[a].job = "connect" /\ actor[a].at = "new"
     \/ actor[a].at = "joining"
  /\ managing = Nobody /\ EnterOrWait(a, Made, a)
  /\ UNCHANGED <<saved, open, alive, leaked, oauthVars, given>>

(* ensure_valid_token: without a new one the old one is not sent. *)
Refresh(a) ==
  /\ actor[a].at = "refreshing" /\ Go(a, "dialing")
  /\ \/ /\ given.tokens < MaxTokens /\ given' = [given EXCEPT !.tokens = @ + 1]
        /\ valid' = valid \cup {given.tokens + 1}
        /\ conn' = [conn EXCEPT !.client.token = given.tokens + 1]
        /\ Rewrite(a, conn'.client)
     \/ Fault /\ UNCHANGED <<conn, oauth, valid, disturbed>>
  /\ UNCHANGED <<saved, queue, managing, open, alive, leaked, failed>>

(* _connect: an exit stack left by a session marked disconnected is lost. *)
Dial(a) ==
  /\ actor[a].at = "dialing" /\ given.sessions < MaxSessions
  /\ LET id == given.sessions + 1 IN
     /\ given' = [given EXCEPT !.sessions = id]
     /\ open' = open \cup {id} /\ alive' = alive \cup {id}
     /\ leaked' = leaked \cup ({conn.stack} \ {0})
     /\ conn' = [conn EXCEPT !.stack = id, !.session = id]
  /\ Go(a, "handshake")
  /\ UNCHANGED <<saved, queue, managing, failed, oauthVars>>

Reset_Fault(c) == c
Reset(c) == [c EXCEPT !.attempts = 0]

Authorized == conn.client.token \in valid

Welcome(a) ==
  /\ actor[a].at = "handshake" /\ Authorized /\ conn.session \in alive
  /\ conn' = Reset([conn EXCEPT !.connected = TRUE, !.status = "running"])
  /\ saved' = "running" /\ failed' = 0 /\ Release
  /\ Joined(a, conn.session, managing)
  /\ UNCHANGED <<open, alive, leaked, oauthVars, given>>

(* A 401 waits for an authorization; any other error may be tried again.      *)
Rejected(a) ==
  /\ actor[a].at = "handshake"
  /\ \/ ~Authorized /\ saved' = "pending_auth" /\ UNCHANGED given
     \/ saved' = "error" /\ IF conn.session \in alive THEN Fault ELSE UNCHANGED given
  /\ conn' = [conn EXCEPT !.status = saved', !.stack = 0, !.connected = FALSE]
  /\ Free(conn.stack) /\ Release /\ Joined(a, 0, managing) /\ ReconnectFailed(a)
  /\ UNCHANGED <<leaked, oauthVars>>

-----------------------------------------------------------------------------
(* mcp_oauth_start: the state is read, the endpoints are asked for and kept,  *)
(* then the address for the user is made, with a new verifier.                *)
StartFlow(a) ==
  /\ actor[a].job = "authorize" /\ actor[a].at = "new"
  /\ actor' = [actor EXCEPT ![a].at = "discovering", ![a].mine = oauth]
  /\ UNCHANGED <<connVars, oauthVars, given>>

Discovered(a) ==
  /\ actor[a].at = "discovering" /\ Go(a, "registering")
  /\ Rewrite(a, actor[a].mine)
  /\ UNCHANGED <<connVars, valid, given>>

Issued_Fault(a) == actor[a].mine
Issued(a) == [actor[a].mine EXCEPT !.verifier = a]
Issue(a) ==
  /\ actor[a].at = "registering" /\ Go(a, "issued")
  /\ Rewrite(a, Issued(a))
  /\ UNCHANGED <<connVars, valid, given>>

(* The user comes back with a code (handle_oauth_callback, mcp_oauth_complete):*)
(* the state is read anew, and the verifier in it sent along.                 *)
Callback(a) ==
  /\ actor[a].at = "issued"
  /\ actor' = [actor EXCEPT ![a].at = IF oauth.verifier = Nobody THEN "denied" ELSE "exchanging",
                            ![a].mine = oauth]
  /\ UNCHANGED <<connVars, oauthVars, given>>

(* The server accepts the verifier the code was asked for with. A new         *)
(* configuration object takes the status back, not that of the connection.    *)
Exchange(a) ==
  /\ actor[a].at = "exchanging" /\ actor[a].mine.verifier = a /\ given.tokens < MaxTokens
  /\ given' = [given EXCEPT !.tokens = @ + 1]
  /\ valid' = valid \cup {given.tokens + 1}
  /\ Rewrite(a, [token |-> given.tokens + 1, verifier |-> Nobody])
  /\ saved' = "stopped" /\ Go(a, "joining")
  /\ UNCHANGED <<conn, queue, managing, open, alive, leaked, failed>>

Denied(a) ==
  /\ actor[a].at = "exchanging" /\ actor[a].mine.verifier # a
  /\ Go(a, "denied") /\ UNCHANGED <<connVars, oauthVars, given>>

Unanswered(a) ==
  /\ actor[a].at = "exchanging" /\ Fault
  /\ Go(a, "over") /\ UNCHANGED <<connVars, oauthVars>>

-----------------------------------------------------------------------------
(* A task is cancelled, which no handler of errors sees: the locks are given  *)
(* up and the rest is left as it is. A stack that was being closed may be left*)
(* half closed; a stack under construction replaced the one before, and stays *)
(* the connection's with the session in it.                                   *)
LeaveQueue(a) ==
  \/ \E i \in DOMAIN queue : queue[i] = a /\ queue' = RemoveAt(queue, i)
  \/ (\A i \in DOMAIN queue : queue[i] # a) /\ UNCHANGED queue

Cancelled(a) ==
  /\ actor[a].at \notin {"new", "issued", "over", "refused", "denied"}
  /\ Go(a, "over") /\ Unlock(a) /\ LeaveQueue(a)
  /\ IF actor[a].at \in Reconnecting THEN ReconnectFailed(a) ELSE UNCHANGED failed
  /\ \/ actor[a].at # "closing" /\ UNCHANGED <<conn, open, alive, leaked>>
     \/ /\ actor[a].at = "closing"
        /\ \/ Free(actor[a].session) /\ UNCHANGED leaked
           \/ leaked' = leaked \cup ({actor[a].session} \ {0}) /\ UNCHANGED <<open, alive>>
        /\ UNCHANGED conn
     \/ /\ actor[a].at = "dialing"
        /\ leaked' = leaked \cup ({conn.stack} \ {0})
        /\ conn' = [conn EXCEPT !.stack = 0]
        /\ UNCHANGED <<open, alive>>
  /\ UNCHANGED <<saved, oauthVars, given>>

(* The server ends a session, or a token expires. *)
Dies ==
  /\ Fault /\ \E s \in alive : alive' = alive \ {s}
  /\ UNCHANGED <<conn, saved, queue, managing, open, leaked, failed, oauthVars, actor>>

Expires ==
  /\ \E t \in valid : valid' = valid \ {t}
  /\ Fault
  /\ UNCHANGED <<connVars, oauth, disturbed, actor>>

RemoteNext ==
  \/ \E a \in Actors :
       \/ Call(a) \/ Answered(a) \/ Broken(a) \/ Disconnect(a) \/ Drop(a) \/ Closed(a) \/ Wake(a)
       \/ Join(a) \/ Enter(a) \/ Refresh(a) \/ Dial(a) \/ Welcome(a) \/ Rejected(a)
       \/ Cancelled(a)
       \/ StartFlow(a) \/ Discovered(a) \/ Issue(a) \/ Callback(a) \/ Exchange(a) \/ Denied(a) \/ Unanswered(a)
  \/ Dies \/ Expires

RemoteSpec == RemoteInit /\ [][RemoteNext]_remoteVars

-----------------------------------------------------------------------------
(* A session with resources here is the connection's, or being closed, or was *)
(* lost because connect() found it marked disconnected by a call or left by a *)
(* cancelled connect(), or because its closing was cancelled.                 *)
SessionsAreOwned ==
  open \ leaked \subseteq {conn.stack} \cup {actor[a].session : a \in {b \in Actors : actor[b].at = "closing"}}

(* "Max reconnect attempts reached" is said when that many reconnections      *)
(* failed, were cancelled or are under way, since the connection was last     *)
(* there.                                                                     *)
UnderWay == {a \in Actors : actor[a].job = "call" /\ actor[a].at \in Reconnecting}
AttemptsAreReal ==
  conn.attempts <= failed + Cardinality(UnderWay) \/ failed + Cardinality(UnderWay) >= MaxReconnects

(* An authorization the user grants succeeds, unless another task rewrote the *)
(* file meanwhile: another authorization, or the connection with a new token. *)
GrantsSucceed ==
  \A a \in Actors : actor[a].at = "denied" => a \in disturbed

RemoteSafe == SessionsAreOwned /\ AttemptsAreReal /\ GrantsSucceed
=============================================================================
