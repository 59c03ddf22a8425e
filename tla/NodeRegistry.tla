---------------------------- MODULE NodeRegistry ----------------------------
(***************************************************************************)
(* The registry of connected adapter nodes (NodeRegistry in                *)
(* gateway/session.py): three maps that ought to describe one relation.    *)
(*                                                                         *)
(* Every method holds self._lock for its whole body and awaits nothing, so *)
(* each is one step.  phase is the life of the connections, which the      *)
(* server drives: a connection registers while it is open, maybe several   *)
(* times, and is unregistered once, when it closes.                        *)
(*                                                                         *)
(* Clients may register a node id that another open connection holds (two  *)
(* browser tabs of one user do so) and may change the node id of their     *)
(* connection; shared and renamed remember who did.  The server itself     *)
(* passes no session id to register: Presented = {None}.                   *)
(***************************************************************************)
EXTENDS Naturals, FiniteSets

CONSTANTS
    Conns,      \* websocket connections
    Nodes,      \* node ids
    Sessions,   \* session ids that can be generated (uuid4 in the code)
    Presented,  \* session ids a caller may pass to register
    None

ASSUME RegistryConstants ==
    /\ Presented \subseteq Sessions \cup {None}
    /\ None \notin Conns \cup Nodes \cup Sessions
    /\ None \notin [conn : Conns, session : Sessions]

VARIABLES
    nodes,      \* _nodes: node id -> connection and session id, or None
    sessions,   \* _sessions: session id -> node id, or None
    websockets, \* _websockets: connection -> node id, or None
    phase,      \* connection -> "fresh", "registered" (at least once) or "gone"
    shared,     \* history: connections that held a node id with another one
    renamed     \* history: connections that changed their node id

registryVars == <<nodes, sessions, websockets, phase, shared, renamed>>

RegistryInit ==
    /\ nodes = [n \in Nodes |-> None]
    /\ sessions = [s \in Sessions |-> None]
    /\ websockets = [k \in Conns |-> None]
    /\ phase = [k \in Conns |-> "fresh"]
    /\ shared = {}
    /\ renamed = {}

Holders(n) == {k \in Conns : websockets[k] = n}

\* Connection k, which is open, registers node id n.
Registers(k, n) ==
    /\ phase[k] # "gone"
    /\ phase' = [phase EXCEPT ![k] = "registered"]
    /\ shared' = IF Holders(n) \subseteq {k} THEN shared ELSE shared \cup {k} \cup Holders(n)
    /\ renamed' = IF websockets[k] \in {n, None} THEN renamed ELSE renamed \cup {k}

Node_NoSession(k, s) == [conn |-> k, session |-> None]
Node(k, s) == [conn |-> k, session |-> s]

\* register accepts session s as a reconnection when the node that had it is
\* connected.
CanReconnect(s) == s # None /\ sessions[s] # None /\ nodes[sessions[s]] # None

\* That node is dropped, and its connection with it.
NodesWithout_Kept(s) == nodes
NodesWithout(s) == [nodes EXCEPT ![sessions[s]] = None]

WebsocketsWithout_Kept(s) == websockets
WebsocketsWithout(s) == [websockets EXCEPT ![nodes[sessions[s]].conn] = None]

\* register(k, n, session_id=s) as a reconnection.
Reconnect(k, n, s) ==
    /\ Registers(k, n)
    /\ CanReconnect(s)
    /\ nodes' = [NodesWithout(s) EXCEPT ![n] = Node(k, s)]
    /\ sessions' = [sessions EXCEPT ![s] = n]
    /\ websockets' = [WebsocketsWithout(s) EXCEPT ![k] = n]

\* register(k, n, session_id=s) otherwise: a new session id t is generated.
RegisterFresh(k, n, s, t) ==
    /\ Registers(k, n)
    /\ ~CanReconnect(s)
    /\ sessions[t] = None
    /\ nodes' = [nodes EXCEPT ![n] = Node(k, t)]
    /\ sessions' = [sessions EXCEPT ![t] = n]
    /\ websockets' = [websockets EXCEPT ![k] = n]

\* unregister(k): the node k maps to is dropped, whoever it belongs to now.
\* The session id stays.
Unregister_KeepsNode(k) ==
    /\ phase[k] = "registered"
    /\ phase' = [phase EXCEPT ![k] = "gone"]
    /\ websockets' = [websockets EXCEPT ![k] = None]
    /\ UNCHANGED <<nodes, sessions, shared, renamed>>
Unregister(k) ==
    /\ phase[k] = "registered"
    /\ phase' = [phase EXCEPT ![k] = "gone"]
    /\ websockets' = [websockets EXCEPT ![k] = None]
    /\ nodes' = [n \in Nodes |-> IF n = websockets[k] THEN None ELSE nodes[n]]
    /\ UNCHANGED <<sessions, shared, renamed>>

RegistryNext ==
    \/ \E k \in Conns, n \in Nodes, s \in Presented : Reconnect(k, n, s)
    \/ \E k \in Conns, n \in Nodes, s \in Presented, t \in Sessions :
          RegisterFresh(k, n, s, t)
    \/ \E k \in Conns : Unregister(k)

RegistrySpec == RegistryInit /\ [][RegistryNext]_registryVars

\* get_node_by_websocket finds a node for k.
Found(k) == websockets[k] # None /\ nodes[websockets[k]] # None

----------------------------------------------------------------------------
(* Properties *)

\* Every variable keeps its type.
RegistryTypeOK ==
    /\ nodes \in [Nodes -> [conn : Conns, session : Sessions] \cup {None}]
    /\ sessions \in [Sessions -> Nodes \cup {None}]
    /\ websockets \in [Conns -> Nodes \cup {None}]
    /\ phase \in [Conns -> {"fresh", "registered", "gone"}]
    /\ shared \subseteq Conns /\ renamed \subseteq Conns

\* A node the registry lists is the one its connection maps to, unless that
\* connection changed its node id: the registry lists no node whose connection
\* is gone (get_nodes_by_platform would broadcast to it for ever).
NoGhosts ==
    \A n \in Nodes : nodes[n] # None /\ nodes[n].conn \notin renamed =>
        websockets[nodes[n].conn] = n /\ phase[nodes[n].conn] = "registered"

\* A listed node's session id resolves to that node, so no two connected nodes
\* share a session and a reconnection replaces the node it means to replace.
SessionsAgree == \A n \in Nodes : nodes[n] # None => sessions[nodes[n].session] = n

\* The two maps are inverse to each other on the connections that kept a node
\* id of their own: what other connections do neither hides a connection's node
\* nor gives it another one.
MapsAgree ==
    \A k \in Conns \ (shared \cup renamed), n \in Nodes :
        websockets[k] = n <=> (nodes[n] # None /\ nodes[n].conn = k)

\* "lookup of adapter connections" (class docstring): a connection that is
\* still mapped to a node finds it.
LiveFound == \A k \in Conns : websockets[k] # None => Found(k)

\* What the registry holds of nodes, connections and sessions agrees.
RegistryAgrees == SessionsAgree /\ NoGhosts /\ MapsAgree
=============================================================================
