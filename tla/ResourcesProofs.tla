--------------------------- MODULE ResourcesProofs ---------------------------
(***************************************************************************)
(* The invariants of what users share and own.                             *)
(*                                                                         *)
(* The node registry, for every number of connections, nodes and sessions, *)
(* whatever node ids the clients register and whichever session ids they   *)
(* present; the user's virtual machine, for any number of calls, some of   *)
(* them cancelled while a thread of theirs goes on, lost containers,       *)
(* failures and restarts; the memory store, for any threads, facts,        *)
(* likeness of facts and plans of any length; the graph of what is related *)
(* to what with its cache, for any readers and authors; and the rows that  *)
(* say how well a memory is remembered, for any reviews of any memories,   *)
(* with rows made elsewhere that no entry of the log accounts for.         *)
(***************************************************************************)
EXTENDS NodeRegistry, UserVms, MemoryStore, MemoryGraph, FiniteSetTheorems, TLAPS

----------------------------------------------------------------------------
(* The node registry                                                       *)

\* What a reconnection drops has the right type.
LEMMA DropType ==
    ASSUME RegistryTypeOK, NEW s \in Sessions, CanReconnect(s)
    PROVE  /\ sessions[s] \in Nodes
           /\ nodes[sessions[s]] \in [conn : Conns, session : Sessions]
           /\ NodesWithout(s) \in [Nodes -> [conn : Conns, session : Sessions] \cup {None}]
           /\ WebsocketsWithout(s) \in [Conns -> Nodes \cup {None}]
BY RegistryConstants DEF RegistryTypeOK, CanReconnect, NodesWithout, WebsocketsWithout

LEMMA RegistersType ==
    ASSUME RegistryTypeOK, NEW k \in Conns, NEW n \in Nodes, Registers(k, n)
    PROVE  /\ phase' \in [Conns -> {"fresh", "registered", "gone"}]
           /\ shared' \subseteq Conns /\ renamed' \subseteq Conns
           /\ shared \subseteq shared' /\ renamed \subseteq renamed'
           /\ k \in shared' \/ Holders(n) \subseteq {k}
           /\ Holders(n) \subseteq {k} \/ Holders(n) \subseteq shared'
           /\ k \in renamed' \/ websockets[k] \in {n, None}
BY DEF RegistryTypeOK, Registers, Holders

LEMMA TypeStep == RegistryTypeOK /\ [RegistryNext]_registryVars => RegistryTypeOK'
<1> SUFFICES ASSUME RegistryTypeOK, [RegistryNext]_registryVars PROVE RegistryTypeOK'
  OBVIOUS
<1> USE RegistryConstants
<1>1. ASSUME NEW k \in Conns, NEW n \in Nodes, NEW s \in Presented, Reconnect(k, n, s)
      PROVE  RegistryTypeOK'
  <2>1. s \in Sessions /\ CanReconnect(s) /\ Registers(k, n)
    BY <1>1 DEF Reconnect, CanReconnect
  <2>2. Node(k, s) \in [conn : Conns, session : Sessions]
    BY <2>1 DEF Node
  <2>3. /\ nodes' \in [Nodes -> [conn : Conns, session : Sessions] \cup {None}]
        /\ sessions' \in [Sessions -> Nodes \cup {None}]
        /\ websockets' \in [Conns -> Nodes \cup {None}]
    BY <1>1, <2>1, <2>2, DropType DEF Reconnect, RegistryTypeOK
  <2> QED
    BY <2>1, <2>3, RegistersType DEF RegistryTypeOK
<1>2. ASSUME NEW k \in Conns, NEW n \in Nodes, NEW s \in Presented, NEW t \in Sessions,
             RegisterFresh(k, n, s, t)
      PROVE  RegistryTypeOK'
  <2>1. /\ nodes' \in [Nodes -> [conn : Conns, session : Sessions] \cup {None}]
        /\ sessions' \in [Sessions -> Nodes \cup {None}]
        /\ websockets' \in [Conns -> Nodes \cup {None}]
    BY <1>2 DEF RegisterFresh, RegistryTypeOK, Node
  <2> QED
    BY <1>2, <2>1, RegistersType DEF RegisterFresh, RegistryTypeOK
<1>3. ASSUME NEW k \in Conns, Unregister(k) PROVE RegistryTypeOK'
  BY <1>3 DEF Unregister, RegistryTypeOK
<1>4. CASE UNCHANGED registryVars
  BY <1>4 DEF registryVars, RegistryTypeOK
<1> QED
  BY <1>1, <1>2, <1>3, <1>4 DEF RegistryNext

\* Every variable of the registry keeps its type.
THEOREM RegistryTypeCorrect == RegistrySpec => []RegistryTypeOK
<1>1. RegistryInit => RegistryTypeOK
  BY RegistryConstants DEF RegistryInit, RegistryTypeOK
<1> QED
  BY <1>1, TypeStep, PTL DEF RegistrySpec

LEMMA SessionsStep == RegistryTypeOK /\ SessionsAgree /\ [RegistryNext]_registryVars
    => SessionsAgree'
<1> SUFFICES ASSUME RegistryTypeOK, SessionsAgree, [RegistryNext]_registryVars,
                    NEW m \in Nodes, nodes'[m] # None
             PROVE  sessions'[nodes'[m].session] = m
  BY DEF SessionsAgree
<1> USE RegistryConstants
<1>1. ASSUME NEW k \in Conns, NEW n \in Nodes, NEW s \in Presented, Reconnect(k, n, s)
      PROVE  sessions'[nodes'[m].session] = m
  <2>1. s \in Sessions /\ CanReconnect(s)
    BY <1>1 DEF Reconnect, CanReconnect
  <2>2. CASE m = n
    BY <1>1, <2>1, <2>2, DropType DEF Reconnect, Node, RegistryTypeOK
  <2>3. CASE m # n
    <3>1. m # sessions[s] /\ nodes'[m] = nodes[m]
      BY <1>1, <2>1, <2>3, DropType DEF Reconnect, NodesWithout, RegistryTypeOK
    <3>2. nodes[m].session # s
      BY <3>1 DEF SessionsAgree
    <3> QED
      BY <1>1, <2>1, <3>1, <3>2 DEF Reconnect, SessionsAgree, RegistryTypeOK
  <2> QED
    BY <2>2, <2>3
<1>2. ASSUME NEW k \in Conns, NEW n \in Nodes, NEW s \in Presented, NEW t \in Sessions,
             RegisterFresh(k, n, s, t)
      PROVE  sessions'[nodes'[m].session] = m
  <2>1. CASE m = n
    BY <1>2, <2>1 DEF RegisterFresh, Node, RegistryTypeOK
  <2>2. CASE m # n
    <3>1. nodes'[m] = nodes[m] /\ sessions[nodes[m].session] = m
      BY <1>2, <2>2 DEF RegisterFresh, SessionsAgree, RegistryTypeOK
    <3>2. nodes[m].session # t
      BY <1>2, <3>1 DEF RegisterFresh
    <3> QED
      BY <1>2, <3>1, <3>2 DEF RegisterFresh, RegistryTypeOK
  <2> QED
    BY <2>1, <2>2
<1>3. ASSUME NEW k \in Conns, Unregister(k) PROVE sessions'[nodes'[m].session] = m
  BY <1>3 DEF Unregister, SessionsAgree, RegistryTypeOK
<1>4. CASE UNCHANGED registryVars
  BY <1>4 DEF registryVars, SessionsAgree
<1> QED
  BY <1>1, <1>2, <1>3, <1>4 DEF RegistryNext

\* No two connected nodes ever share a session id, whatever node ids clients
\* register and whichever session ids they present.
THEOREM OneNodePerSession == RegistrySpec => []SessionsAgree
<1>1. RegistryInit => SessionsAgree
  BY DEF RegistryInit, SessionsAgree
<1> QED
  BY <1>1, RegistryTypeCorrect, SessionsStep, PTL DEF RegistrySpec

----------------------------------------------------------------------------
(* Connections that keep their node id *)

LEMMA GhostStep == RegistryTypeOK /\ NoGhosts /\ [RegistryNext]_registryVars => NoGhosts'
<1> SUFFICES ASSUME RegistryTypeOK, NoGhosts, [RegistryNext]_registryVars,
                    NEW m \in Nodes, nodes'[m] # None, nodes'[m].conn \notin renamed'
             PROVE  /\ websockets'[nodes'[m].conn] = m
                    /\ phase'[nodes'[m].conn] = "registered"
  BY DEF NoGhosts
<1> USE RegistryConstants
<1> DEFINE Good == /\ websockets'[nodes'[m].conn] = m
                   /\ phase'[nodes'[m].conn] = "registered"
<1>1. ASSUME NEW k \in Conns, NEW n \in Nodes, NEW s \in Presented, Reconnect(k, n, s)
      PROVE  Good
  <2>1. s \in Sessions /\ CanReconnect(s) /\ Registers(k, n)
    BY <1>1 DEF Reconnect, CanReconnect
  <2>2. CASE m = n
    BY <1>1, <2>1, <2>2, DropType DEF Reconnect, Registers, Node, RegistryTypeOK
  <2>3. CASE m # n
    <3>1. m # sessions[s] /\ nodes'[m] = nodes[m]
      BY <1>1, <2>1, <2>3, DropType DEF Reconnect, NodesWithout, RegistryTypeOK
    <3> DEFINE c == nodes[m].conn
    <3>2. c \in Conns /\ c \notin renamed /\ websockets[c] = m /\ phase[c] = "registered"
      BY <2>1, <3>1, RegistersType DEF NoGhosts, RegistryTypeOK
    <3>3. nodes[sessions[s]].conn # c
      BY <2>1, <3>1, <3>2, DropType DEF NoGhosts, CanReconnect
    <3>4. c # k
      BY <2>1, <2>3, <3>1, <3>2, RegistersType
    <3>5. WebsocketsWithout(s)[c] = m
      BY <3>2, <3>3 DEF WebsocketsWithout, RegistryTypeOK
    <3> QED
      BY <1>1, <2>1, <3>1, <3>2, <3>4, <3>5, DropType DEF Reconnect, Registers, RegistryTypeOK
  <2> QED
    BY <2>2, <2>3
<1>2. ASSUME NEW k \in Conns, NEW n \in Nodes, NEW s \in Presented, NEW t \in Sessions,
             RegisterFresh(k, n, s, t)
      PROVE  Good
  <2>1. CASE m = n
    BY <1>2, <2>1 DEF RegisterFresh, Registers, Node, RegistryTypeOK
  <2>2. CASE m # n
    <3>1. nodes'[m] = nodes[m] /\ Registers(k, n)
      BY <1>2, <2>2 DEF RegisterFresh, RegistryTypeOK
    <3> DEFINE c == nodes[m].conn
    <3>2. c \in Conns /\ websockets[c] = m /\ phase[c] = "registered"
      BY <3>1, RegistersType DEF NoGhosts, RegistryTypeOK
    <3>3. c # k
      BY <2>2, <3>1, <3>2, RegistersType
    <3> QED
      BY <1>2, <3>1, <3>2, <3>3 DEF RegisterFresh, Registers, RegistryTypeOK
  <2> QED
    BY <2>1, <2>2
<1>3. ASSUME NEW k \in Conns, Unregister(k) PROVE Good
  BY <1>3 DEF Unregister, NoGhosts, RegistryTypeOK
<1>4. CASE UNCHANGED registryVars
  BY <1>4 DEF registryVars, NoGhosts
<1> QED
  BY <1>1, <1>2, <1>3, <1>4 DEF RegistryNext

\* The registry lists no node whose connection is closed, unless that connection
\* changed its node id; sharing a node id with others leaves no such node.
THEOREM NoGhostNodes == RegistrySpec => []NoGhosts
<1>1. RegistryInit => NoGhosts
  BY DEF RegistryInit, NoGhosts
<1> QED
  BY <1>1, GhostStep, RegistryTypeCorrect, PTL DEF RegistrySpec

----------------------------------------------------------------------------
(* Connections that have a node id of their own as well *)

\* Two connections that map to one node id are known to share it.
SharersKnown ==
    \A j, k \in Conns : j # k /\ websockets[j] = websockets[k] /\ websockets[j] # None =>
        j \in shared

MapsInv == RegistryTypeOK /\ SharersKnown /\ MapsAgree

LEMMA SharersStep == RegistryTypeOK /\ SharersKnown /\ [RegistryNext]_registryVars => SharersKnown'
<1> SUFFICES ASSUME RegistryTypeOK, SharersKnown, [RegistryNext]_registryVars,
                    NEW i \in Conns, NEW j \in Conns, i # j,
                    websockets'[i] = websockets'[j], websockets'[i] # None
             PROVE  i \in shared'
  BY DEF SharersKnown
<1> USE RegistryConstants
<1>1. ASSUME NEW k \in Conns, NEW n \in Nodes, Registers(k, n),
             \A c \in Conns : websockets'[c] \in IF c = k THEN {n} ELSE {websockets[c], None}
      PROVE  i \in shared'
  <2>1. CASE i = k
    <3>1. websockets[j] = n
      BY <1>1, <2>1
    <3> QED
      BY <1>1, <2>1, <3>1, RegistersType DEF Holders
  <2>2. CASE i # k
    <3>1. websockets[i] = websockets'[i]
      BY <1>1, <2>2
    <3>2. CASE j = k
      <4>1. websockets[i] = n
        BY <1>1, <3>1, <3>2
      <4>2. i \in Holders(n) /\ ~(Holders(n) \subseteq {k})
        BY <2>2, <4>1 DEF Holders
      <4> QED
        BY <1>1, <4>2, RegistersType
    <3>3. CASE j # k
      BY <1>1, <2>2, <3>1, <3>3, RegistersType DEF SharersKnown
    <3> QED
      BY <3>2, <3>3
  <2> QED
    BY <2>1, <2>2
<1>2. ASSUME NEW k \in Conns, NEW n \in Nodes, NEW s \in Presented, Reconnect(k, n, s)
      PROVE  i \in shared'
  <2>1. s \in Sessions /\ CanReconnect(s) /\ Registers(k, n)
    BY <1>2 DEF Reconnect, CanReconnect
  <2>2. \A c \in Conns : websockets'[c] = IF c = k THEN n ELSE WebsocketsWithout(s)[c]
    BY <1>2, <2>1, DropType DEF Reconnect
  <2>3. \A c \in Conns : WebsocketsWithout(s)[c] \in {websockets[c], None}
    BY DEF WebsocketsWithout, RegistryTypeOK
  <2>4. \A c \in Conns : websockets'[c] \in IF c = k THEN {n} ELSE {websockets[c], None}
    BY <2>2, <2>3
  <2> QED
    BY <1>1, <2>1, <2>4
<1>3. ASSUME NEW k \in Conns, NEW n \in Nodes, NEW s \in Presented, NEW t \in Sessions,
             RegisterFresh(k, n, s, t)
      PROVE  i \in shared'
  BY <1>1, <1>3 DEF RegisterFresh, RegistryTypeOK
<1>4. ASSUME NEW k \in Conns, Unregister(k) PROVE i \in shared'
  BY <1>4 DEF Unregister, SharersKnown, RegistryTypeOK
<1>5. CASE UNCHANGED registryVars
  BY <1>5 DEF registryVars, SharersKnown
<1> QED
  BY <1>2, <1>3, <1>4, <1>5 DEF RegistryNext

LEMMA MapsStep == MapsInv /\ [RegistryNext]_registryVars => MapsAgree'
<1> SUFFICES ASSUME MapsInv, [RegistryNext]_registryVars,
                    NEW j \in Conns, j \notin shared', j \notin renamed', NEW m \in Nodes
             PROVE  websockets'[j] = m <=> (nodes'[m] # None /\ nodes'[m].conn = j)
  BY DEF MapsAgree
<1> USE RegistryConstants DEF MapsInv
<1> DEFINE Good == websockets'[j] = m <=> (nodes'[m] # None /\ nodes'[m].conn = j)
           Agreed == \A x \in Nodes :
                        websockets[j] = x <=> (nodes[x] # None /\ nodes[x].conn = j)
\* Registering leaves j alone unless j registers, and then j keeps its node id.
<1>0. ASSUME NEW k \in Conns, NEW n \in Nodes, Registers(k, n)
      PROVE  /\ Agreed
             /\ j = k => websockets[j] \in {n, None}
             /\ j # k => websockets[j] # n
  <2>1. j \notin shared /\ j \notin renamed
    BY <1>0, RegistersType
  <2> QED
    BY <1>0, <2>1, RegistersType DEF MapsAgree, Holders
<1>1. ASSUME NEW k \in Conns, NEW n \in Nodes, NEW s \in Presented, Reconnect(k, n, s)
      PROVE  Good
  <2>1. s \in Sessions /\ CanReconnect(s) /\ Registers(k, n)
    BY <1>1 DEF Reconnect, CanReconnect
  <2> DEFINE old == sessions[s]
  <2>2. old \in Nodes /\ nodes[old] # None /\ nodes[old].conn \in Conns
    BY <2>1, DropType DEF CanReconnect
  <2>3. /\ WebsocketsWithout(s)[j] = IF j = nodes[old].conn THEN None ELSE websockets[j]
        /\ NodesWithout(s)[m] = IF m = old THEN None ELSE nodes[m]
    BY <2>2 DEF WebsocketsWithout, NodesWithout, RegistryTypeOK
  <2>4. /\ Agreed
        /\ j = k => websockets[j] \in {n, None}
        /\ j # k => websockets[j] # n
    BY <1>0, <2>1
  <2>5. WebsocketsWithout(s)[j] = m <=> (NodesWithout(s)[m] # None /\ NodesWithout(s)[m].conn = j)
    BY <2>2, <2>3, <2>4
  <2>6. /\ websockets'[j] = IF j = k THEN n ELSE WebsocketsWithout(s)[j]
        /\ nodes'[m] = IF m = n THEN Node(k, s) ELSE NodesWithout(s)[m]
    BY <1>1, <2>1, DropType DEF Reconnect
  <2>7. Node(k, s) # None /\ Node(k, s).conn = k
    BY <2>1 DEF Node
  <2>8. WebsocketsWithout(s)[j] \in {websockets[j], None}
    BY <2>3
  <2> QED
    BY <2>4, <2>5, <2>6, <2>7, <2>8
<1>2. ASSUME NEW k \in Conns, NEW n \in Nodes, NEW s \in Presented, NEW t \in Sessions,
             RegisterFresh(k, n, s, t)
      PROVE  Good
  <2>1. /\ Agreed
        /\ j = k => websockets[j] \in {n, None}
        /\ j # k => websockets[j] # n
    BY <1>0, <1>2 DEF RegisterFresh
  <2>2. /\ websockets'[j] = IF j = k THEN n ELSE websockets[j]
        /\ nodes'[m] = IF m = n THEN Node(k, t) ELSE nodes[m]
    BY <1>2 DEF RegisterFresh, RegistryTypeOK
  <2>3. Node(k, t) # None /\ Node(k, t).conn = k
    BY DEF Node
  <2> QED
    BY <2>1, <2>2, <2>3
<1>3. ASSUME NEW k \in Conns, Unregister(k) PROVE Good
  <2>1. j \notin shared /\ j \notin renamed
    BY <1>3 DEF Unregister
  <2>2. Agreed
    BY <2>1 DEF MapsAgree
  <2>3. j # k /\ websockets[j] = m => websockets[k] # m
    BY <2>1 DEF SharersKnown
  <2>4. /\ websockets'[j] = IF j = k THEN None ELSE websockets[j]
        /\ nodes'[m] = IF m = websockets[k] THEN None ELSE nodes[m]
    BY <1>3 DEF Unregister, RegistryTypeOK
  <2> QED
    BY <2>2, <2>3, <2>4
<1>4. CASE UNCHANGED registryVars
  BY <1>4 DEF registryVars, MapsAgree
<1> QED
  BY <1>1, <1>2, <1>3, <1>4 DEF RegistryNext

\* On the connections that kept a node id of their own, the map from connections
\* and the map from nodes are inverse to each other.
THEOREM LookupsAgree == RegistrySpec => []MapsAgree
<1>1. RegistryInit => SharersKnown /\ MapsAgree
  BY RegistryConstants DEF RegistryInit, SharersKnown, MapsAgree
<1>2. MapsInv /\ [RegistryNext]_registryVars => MapsInv'
  BY TypeStep, SharersStep, MapsStep DEF MapsInv
<1>3. MapsInv => MapsAgree
  BY DEF MapsInv
<1>4. RegistryInit => RegistryTypeOK
  BY RegistryConstants DEF RegistryInit, RegistryTypeOK
<1>5. RegistryInit => MapsInv
  BY <1>1, <1>4 DEF MapsInv
<1> QED
  BY <1>2, <1>3, <1>5, PTL DEF RegistrySpec

\* The registry's three views agree, whoever registers, reconnects or leaves.
THEOREM RegistryIsConsistent == RegistrySpec => []RegistryAgrees
BY OneNodePerSession, NoGhostNodes, LookupsAgree, PTL DEF RegistryAgrees

----------------------------------------------------------------------------
(* The virtual machine                                                     *)

LockPlaces == {"getting", "adopting", "creating", "preparing"}

\* Where a call relies on what the manager knows of the user's container.
KnownPlaces == {"seeding", "resuming", "resumed", "waiting", "planting", "executing"}

\* Where a call has found the user in _instances, if Docker lost nothing since.
TrackedPlaces == (KnownPlaces \ {"waiting"}) \cup {"verifying", "stopping", "stopped"}

\* Calls in the order of provisioning hold the lock, alone and while the user
\* is not in _instances.
LockSound ==
    /\ \A c \in Calls : call[c].at \in LockPlaces => lock = c
    /\ lock # Nobody => ~tracked

\* Docker's container and the cached object: an object may be of a container that
\* is gone, and never of an older one than there is, unless that one is a stray.
ContainersSound ==
    /\ container.id <= made /\ cached.id <= made
    /\ container.id # 0 /\ cached.id # 0 => container.id = cached.id \/ container.id \in strays
    /\ container.up => container.id # 0
    /\ cached.up => cached.id # 0
    /\ container.id # 0 => container.up \/ container.id \in halted
    /\ container.id # 0 => \/ container.prepared \/ container.id \in unprepared \cup strays
                           \/ \E c \in Calls : call[c].at = "preparing"
    /\ tracked \/ row # "none" => made # 0

VmCallsSound ==
    \A c \in Calls :
        /\ call[c].at \in KnownPlaces /\ tracked => cached.id # 0
        /\ call[c].at \in {"adopting", "preparing"} => cached.id # 0
        /\ call[c].at = "creating" => container.id = 0 \/ container.id \in strays
        /\ call[c].at \in {"stopping", "stopped"} => c \in Suspenders

\* As long as Docker lost nothing.
VmUntouched ==
    faults = 0 =>
        /\ made # 0 => container.id # 0
        /\ power # "none" => tracked
        /\ \A c \in Calls : call[c].at \in TrackedPlaces => tracked

VmInv ==
    /\ VmTypeOK /\ LockSound /\ ContainersSound /\ VmCallsSound /\ VmUntouched
    /\ FailuresAreExplained

States == [at : Places, seen : {"none", "running", "suspended"}]

LEMMA GoesThere ==
    ASSUME VmTypeOK, NEW c \in Calls, NEW at \in Places, Go(c, at)
    PROVE  /\ call' \in [Calls -> States] /\ call'[c].at = at
           /\ \A d \in Calls : d # c => call'[d] = call[d]
BY DEF VmTypeOK, Go, States

LEMMA VmEnsure ==
    ASSUME VmInv, NEW c \in Calls, Ensure(c)
    PROVE  VmInv'
<1> USE VmConstants DEF VmConstants, VmInv
<1>0. /\ call' \in [Calls -> States] /\ call'[c].at \in Places
      /\ \A d \in Calls : d # c => call'[d] = call[d]
  BY DEF Ensure, Route, VmTypeOK, States, Places
<1> USE DEF dockerVars, threadVars, beliefVars, Go, States
<1>1. VmTypeOK'
  BY <1>0 DEF Ensure, VmTypeOK
<1>2. LockSound'
  BY DEF Ensure, Route, VmTypeOK, LockSound, LockPlaces
<1>3. ContainersSound'
  BY DEF Ensure, ContainersSound
<1>4. VmCallsSound'
  BY <1>0 DEF Ensure, Route, VmCallsSound, KnownPlaces
<1>5. VmUntouched'
  BY DEF Ensure, Route, VmUntouched, TrackedPlaces
<1>6. FailuresAreExplained'
  BY <1>0 DEF Ensure, Route, FailuresAreExplained
<1> QED
  BY <1>1, <1>2, <1>3, <1>4, <1>5, <1>6

LEMMA VmVerify ==
    ASSUME VmInv, NEW c \in Calls, Verify(c)
    PROVE  VmInv'
<1> USE VmConstants DEF VmConstants, VmInv
<1>0. /\ call' \in [Calls -> States] /\ call'[c].at \in Places
      /\ \A d \in Calls : d # c => call'[d] = call[d]
  BY DEF Verify, Route, Go, VmTypeOK, States, Places
<1> USE DEF dockerVars, threadVars, beliefVars, Go, States
<1>1. VmTypeOK'
  <2>1. /\ container.id \in ContainerIds /\ container.up \in BOOLEAN
        /\ container.prepared \in BOOLEAN
        /\ 0 \in ContainerIds /\ (made + 1 \in ContainerIds \/ made >= MaxContainers)
    BY DEF VmTypeOK, ContainerIds
  <2>2. container' \in [id : ContainerIds, up : BOOLEAN, prepared : BOOLEAN]
    BY DEF Verify, VmTypeOK
  <2>3. cached' \in [id : ContainerIds, up : BOOLEAN] /\ made' \in ContainerIds
    BY DEF Verify, Fetch, VmTypeOK
  <2>4. /\ halted' \subseteq ContainerIds /\ unprepared' \subseteq ContainerIds
        /\ forgiven' \subseteq Calls
    BY DEF Verify, VmTypeOK
  <2>5. /\ lock' \in Calls \cup {Nobody}
        /\ lock' # Nobody => call'[lock'].at \in {"getting", "adopting", "creating", "preparing"}
    BY DEF Verify, VmTypeOK
  <2>6. tracked' \in BOOLEAN
    BY DEF Verify, Route, Fetch, VmTypeOK
  <2>7. /\ power' \in {"none", "running", "suspended"} /\ row' \in {"none", "running", "suspended"}
        /\ faults' \in 0 .. MaxFaults /\ restarts' \in 0 .. MaxRestarts
    BY DEF Verify, Route, Fetch, VmTypeOK
  <2>8. threads' \subseteq ThreadRequests /\ strays' \subseteq ContainerIds
    BY DEF Verify, VmTypeOK
  <2> QED
    BY <1>0, <2>2, <2>3, <2>4, <2>5, <2>6, <2>7, <2>8 DEF VmTypeOK
<1>2. LockSound'
  BY DEF Verify, Route, VmTypeOK, LockSound, LockPlaces
<1>3. ContainersSound'
  BY DEF Verify, Fetch, VmTypeOK, ContainersSound
<1>4. VmCallsSound'
  BY DEF Verify, Route, Fetch, VmTypeOK, VmCallsSound
<1>5. VmUntouched'
  BY DEF Verify, ContainersSound, VmUntouched, TrackedPlaces
<1>6. FailuresAreExplained'
  BY <1>0 DEF Verify, Route, FailuresAreExplained
<1> QED
  BY <1>1, <1>2, <1>3, <1>4, <1>5, <1>6

LEMMA VmRun ==
    ASSUME VmInv, NEW c \in Calls, Run(c)
    PROVE  VmInv'
<1> USE VmConstants DEF VmConstants, VmInv
<1>0. /\ call' \in [Calls -> States] /\ call'[c].at \in Places
      /\ \A d \in Calls : d # c => call'[d] = call[d]
  BY DEF Run, Fail, Go, VmTypeOK, States, Places
<1> USE DEF dockerVars, threadVars, beliefVars, Go, States
<1>1. VmTypeOK'
  BY <1>0 DEF Run, Fail, VmTypeOK
<1>2. LockSound'
  BY DEF Run, Fail, VmTypeOK, LockSound, LockPlaces
<1>3. ContainersSound'
  BY <1>0 DEF Run, ContainersSound
<1>4. VmCallsSound'
  BY <1>0 DEF Run, Fail, VmCallsSound, KnownPlaces
<1>5. VmUntouched'
  BY DEF Run, VmUntouched, KnownPlaces, TrackedPlaces
<1>6. FailuresAreExplained'
  BY DEF Run, Works, Fail, Broken, VmTypeOK, ContainersSound, VmCallsSound, VmUntouched,
     FailuresAreExplained, KnownPlaces, TrackedPlaces
<1> QED
  BY <1>1, <1>2, <1>3, <1>4, <1>5, <1>6

LEMMA VmResume ==
    ASSUME VmInv, NEW c \in Calls, Resume(c)
    PROVE  VmInv'
<1> USE VmConstants DEF VmConstants, VmInv
<1>0. /\ call' \in [Calls -> States] /\ call'[c].at \in Places
      /\ \A d \in Calls : d # c => call'[d] = call[d]
  BY DEF Resume, Fail, Go, VmTypeOK, States, Places
<1> USE DEF dockerVars, threadVars, beliefVars, Go, States
<1>1. VmTypeOK'
  <2>1. /\ container.id \in ContainerIds /\ container.up \in BOOLEAN
        /\ container.prepared \in BOOLEAN
        /\ 0 \in ContainerIds /\ (made + 1 \in ContainerIds \/ made >= MaxContainers)
    BY DEF VmTypeOK, ContainerIds
  <2>2. container' \in [id : ContainerIds, up : BOOLEAN, prepared : BOOLEAN]
    BY DEF Resume, VmTypeOK
  <2>3. cached' \in [id : ContainerIds, up : BOOLEAN] /\ made' \in ContainerIds
    BY DEF Resume, VmTypeOK
  <2>4. /\ halted' \subseteq ContainerIds /\ unprepared' \subseteq ContainerIds
        /\ forgiven' \subseteq Calls
    BY DEF Resume, Fail, VmTypeOK
  <2>5. /\ lock' \in Calls \cup {Nobody}
        /\ lock' # Nobody => call'[lock'].at \in {"getting", "adopting", "creating", "preparing"}
    BY <1>0 DEF Resume, VmTypeOK
  <2>6. tracked' \in BOOLEAN
    BY DEF Resume, VmTypeOK
  <2>7. /\ power' \in {"none", "running", "suspended"} /\ row' \in {"none", "running", "suspended"}
        /\ faults' \in 0 .. MaxFaults /\ restarts' \in 0 .. MaxRestarts
    BY DEF Resume, VmTypeOK
  <2>8. threads' \subseteq ThreadRequests /\ strays' \subseteq ContainerIds
    BY DEF Resume, VmTypeOK
  <2> QED
    BY <1>0, <2>2, <2>3, <2>4, <2>5, <2>6, <2>7, <2>8 DEF VmTypeOK
<1>2. LockSound'
  BY DEF Resume, Fail, VmTypeOK, LockSound, LockPlaces
<1>3. ContainersSound'
  BY DEF Resume, Exists, Fail, VmTypeOK, ContainersSound
<1>4. VmCallsSound'
  BY <1>0 DEF Resume, Exists, Fail, VmTypeOK, VmCallsSound, KnownPlaces
<1>5. VmUntouched'
  BY DEF Resume, VmTypeOK, VmUntouched, KnownPlaces, TrackedPlaces
<1>6. FailuresAreExplained'
  BY DEF Resume, Exists, Fail, Broken, VmTypeOK, VmCallsSound,
     VmUntouched, FailuresAreExplained, KnownPlaces, TrackedPlaces
<1> QED
  BY <1>1, <1>2, <1>3, <1>4, <1>5, <1>6

LEMMA VmResumed ==
    ASSUME VmInv, NEW c \in Calls, Resumed(c)
    PROVE  VmInv'
<1> USE VmConstants DEF VmConstants, VmInv
<1>0. /\ call' \in [Calls -> States] /\ call'[c].at \in Places
      /\ \A d \in Calls : d # c => call'[d] = call[d]
  BY DEF Resumed, Note, Go, VmTypeOK, States, Places
<1> USE DEF dockerVars, threadVars, beliefVars, Go, States
<1>1. VmTypeOK'
  BY <1>0 DEF Resumed, Note, VmTypeOK
<1>2. LockSound'
  BY DEF Resumed, Note, LockSound, LockPlaces
<1>3. ContainersSound'
  BY DEF Resumed, Note, ContainersSound
<1>4. VmCallsSound'
  BY DEF Resumed, Note, VmCallsSound, KnownPlaces
<1>5. VmUntouched'
  BY DEF Resumed, Note, VmUntouched, KnownPlaces, TrackedPlaces
<1>6. FailuresAreExplained'
  BY DEF Resumed, Note, FailuresAreExplained
<1> QED
  BY <1>1, <1>2, <1>3, <1>4, <1>5, <1>6

LEMMA VmEnter ==
    ASSUME VmInv, NEW c \in Calls, Enter(c)
    PROVE  VmInv'
<1> USE VmConstants DEF VmConstants, VmInv
<1>0. /\ call' \in [Calls -> States] /\ call'[c].at \in Places
      /\ \A d \in Calls : d # c => call'[d] = call[d]
  BY DEF Enter, Go, VmTypeOK, States, Places
<1> USE DEF dockerVars, threadVars, beliefVars, Go, States
<1>1. VmTypeOK'
  BY <1>0 DEF Enter, VmTypeOK
<1>2. LockSound'
  BY DEF Enter, Unheld, VmTypeOK, LockSound, LockPlaces
<1>3. ContainersSound'
  BY DEF Enter, VmTypeOK, ContainersSound
<1>4. VmCallsSound'
  BY <1>0 DEF Enter, VmCallsSound, KnownPlaces
<1>5. VmUntouched'
  BY <1>0 DEF Enter, VmUntouched, KnownPlaces, TrackedPlaces
<1>6. FailuresAreExplained'
  BY <1>0 DEF Enter, FailuresAreExplained
<1> QED
  BY <1>1, <1>2, <1>3, <1>4, <1>5, <1>6

LEMMA VmGet ==
    ASSUME VmInv, NEW c \in Calls, Get(c)
    PROVE  VmInv'
<1> USE VmConstants DEF VmConstants, VmInv
<1>0. /\ call' \in [Calls -> States] /\ call'[c].at \in Places
      /\ \A d \in Calls : d # c => call'[d] = call[d]
  BY DEF Get, Go, VmTypeOK, States, Places
<1> USE DEF dockerVars, threadVars, beliefVars, Go, States
<1>1. VmTypeOK'
  BY <1>0 DEF Get, Fetch, VmTypeOK
<1>2. LockSound'
  BY DEF Get, VmTypeOK, LockSound, LockPlaces
<1>3. ContainersSound'
  BY DEF Get, Fetch, VmTypeOK, ContainersSound
<1>4. VmCallsSound'
  BY <1>0 DEF Get, Fetch, VmCallsSound, KnownPlaces
<1>5. VmUntouched'
  BY <1>0 DEF Get, VmUntouched, KnownPlaces, TrackedPlaces
<1>6. FailuresAreExplained'
  BY <1>0 DEF Get, FailuresAreExplained
<1> QED
  BY <1>1, <1>2, <1>3, <1>4, <1>5, <1>6

LEMMA VmAdopt ==
    ASSUME VmInv, NEW c \in Calls, Adopt(c)
    PROVE  VmInv'
<1> USE VmConstants DEF VmConstants, VmInv
<1>0. /\ call' \in [Calls -> States] /\ call'[c].at \in Places
      /\ \A d \in Calls : d # c => call'[d] = call[d]
  BY DEF Adopt, Go, VmTypeOK, States, Places
<1> USE DEF dockerVars, threadVars, beliefVars, Go, States
<1>1. VmTypeOK'
  <2>1. /\ container.id \in ContainerIds /\ container.up \in BOOLEAN
        /\ container.prepared \in BOOLEAN
        /\ 0 \in ContainerIds /\ (made + 1 \in ContainerIds \/ made >= MaxContainers)
    BY DEF VmTypeOK, ContainerIds
  <2>2. container' \in [id : ContainerIds, up : BOOLEAN, prepared : BOOLEAN]
    BY <2>1 DEF Adopt, Exists, VmTypeOK
  <2>3. cached' \in [id : ContainerIds, up : BOOLEAN] /\ made' \in ContainerIds
    BY <2>1 DEF Adopt, Exists, VmTypeOK
  <2>4. /\ halted' \subseteq ContainerIds /\ unprepared' \subseteq ContainerIds
        /\ forgiven' \subseteq Calls
    BY <2>1 DEF Adopt, Exists, VmTypeOK
  <2>5. /\ lock' \in Calls \cup {Nobody}
        /\ lock' # Nobody => call'[lock'].at \in {"getting", "adopting", "creating", "preparing"}
    BY DEF Adopt, VmTypeOK
  <2>6. tracked' \in BOOLEAN
    BY DEF Adopt, Exists, VmTypeOK
  <2>7. /\ power' \in {"none", "running", "suspended"} /\ row' \in {"none", "running", "suspended"}
        /\ faults' \in 0 .. MaxFaults /\ restarts' \in 0 .. MaxRestarts
    BY DEF Adopt, Exists, VmTypeOK
  <2>8. threads' \subseteq ThreadRequests /\ strays' \subseteq ContainerIds
    BY DEF Adopt, VmTypeOK
  <2> QED
    BY <1>0, <2>2, <2>3, <2>4, <2>5, <2>6, <2>7, <2>8 DEF VmTypeOK
<1>2. LockSound'
  BY DEF Adopt, VmTypeOK, LockSound, LockPlaces
<1>3. ContainersSound'
  BY DEF Adopt, Exists, VmTypeOK, ContainersSound, ContainerIds
<1>4. VmCallsSound'
  BY DEF Adopt, Exists, VmTypeOK, ContainersSound, VmCallsSound
<1>5. VmUntouched'
  <2>1. container'.id = container.id /\ made' = made /\ faults' = faults
    BY DEF Adopt, Exists, VmTypeOK
  <2>2. tracked' = TRUE \/ (UNCHANGED <<tracked, power>> /\ call'[c].at = "creating")
    BY <1>0 DEF Adopt
  <2> QED
    BY <1>0, <2>1, <2>2 DEF VmUntouched, TrackedPlaces, KnownPlaces
<1>6. FailuresAreExplained'
  BY <1>0 DEF Adopt, FailuresAreExplained
<1> QED
  BY <1>1, <1>2, <1>3, <1>4, <1>5, <1>6

LEMMA VmCreate ==
    ASSUME VmInv, NEW c \in Calls, Create(c)
    PROVE  VmInv'
<1> USE VmConstants DEF VmConstants, VmInv
<1>0. /\ call' \in [Calls -> States] /\ call'[c].at \in Places
      /\ \A d \in Calls : d # c => call'[d] = call[d]
  BY DEF Create, Go, VmTypeOK, States, Places
<1> USE DEF dockerVars, threadVars, beliefVars, Go, States
<1>1. VmTypeOK'
  <2>1. /\ container.id \in ContainerIds /\ container.up \in BOOLEAN
        /\ container.prepared \in BOOLEAN
        /\ 0 \in ContainerIds /\ (made + 1 \in ContainerIds \/ made >= MaxContainers)
    BY DEF VmTypeOK, ContainerIds
  <2>2. container' \in [id : ContainerIds, up : BOOLEAN, prepared : BOOLEAN]
    <3>1. CASE container.id # 0
      BY <3>1 DEF Create, VmTypeOK
    <3>2. CASE container.id = 0
      <4>1. made + 1 \in ContainerIds
        BY <2>1 DEF Create, VmTypeOK, ContainerIds
      <4>2. container' = [id |-> made + 1, up |-> TRUE, prepared |-> FALSE]
        BY <3>2 DEF Create
      <4> QED
        BY <4>1, <4>2
    <3> QED
      BY <3>1, <3>2
  <2>3. cached' \in [id : ContainerIds, up : BOOLEAN] /\ made' \in ContainerIds
    <3>1. CASE container.id # 0
      BY <3>1 DEF Create, VmTypeOK
    <3>2. CASE container.id = 0
      <4>1. made + 1 \in ContainerIds
        BY <2>1 DEF Create, VmTypeOK, ContainerIds
      <4>2. cached' = [id |-> made + 1, up |-> FALSE] /\ made' = made + 1
        BY <3>2 DEF Create
      <4> QED
        BY <4>1, <4>2
    <3> QED
      BY <3>1, <3>2
  <2>4. /\ halted' \subseteq ContainerIds /\ unprepared' \subseteq ContainerIds
        /\ forgiven' \subseteq Calls
    BY <2>1 DEF Create, NoContainer, VmTypeOK
  <2>5. /\ lock' \in Calls \cup {Nobody}
        /\ lock' # Nobody => call'[lock'].at \in {"getting", "adopting", "creating", "preparing"}
    BY DEF Create, VmTypeOK
  <2>6. tracked' \in BOOLEAN
    BY DEF Create, NoContainer, VmTypeOK
  <2>7. /\ power' \in {"none", "running", "suspended"} /\ row' \in {"none", "running", "suspended"}
        /\ faults' \in 0 .. MaxFaults /\ restarts' \in 0 .. MaxRestarts
    BY DEF Create, NoContainer, VmTypeOK
  <2>8. threads' \subseteq ThreadRequests /\ strays' \subseteq ContainerIds
    BY DEF Create, VmTypeOK
  <2> QED
    BY <1>0, <2>2, <2>3, <2>4, <2>5, <2>6, <2>7, <2>8 DEF VmTypeOK
<1>2. LockSound'
  BY DEF Create, VmTypeOK, LockSound, LockPlaces
<1>3. ContainersSound'
  BY DEF Create, VmTypeOK, ContainersSound, ContainerIds
<1>4. VmCallsSound'
  BY DEF Create, VmTypeOK, LockSound, VmCallsSound, Places, LockPlaces, ContainerIds
<1>5. VmUntouched'
  BY <1>0 DEF Create, VmUntouched, KnownPlaces, TrackedPlaces
<1>6. FailuresAreExplained'
  BY <1>0 DEF Create, VmCallsSound, FailuresAreExplained
<1> QED
  BY <1>1, <1>2, <1>3, <1>4, <1>5, <1>6

LEMMA VmProvisionFails ==
    ASSUME VmInv, NEW c \in Calls, ProvisionFails(c)
    PROVE  VmInv'
<1> USE VmConstants DEF VmConstants, VmInv
<1>0. /\ call' \in [Calls -> States] /\ call'[c].at \in Places
      /\ \A d \in Calls : d # c => call'[d] = call[d]
  BY DEF ProvisionFails, Go, VmTypeOK, States, Places
<1> USE DEF dockerVars, threadVars, beliefVars, Go, States
<1>1. VmTypeOK'
  BY <1>0 DEF ProvisionFails, VmTypeOK
<1>2. LockSound'
  BY DEF ProvisionFails, VmTypeOK, LockSound, LockPlaces
<1>3. ContainersSound'
  BY DEF ProvisionFails, ContainersSound, VmCallsSound
<1>4. VmCallsSound'
  BY DEF ProvisionFails, VmCallsSound, KnownPlaces
<1>5. VmUntouched'
  BY DEF ProvisionFails, VmTypeOK, VmUntouched
<1>6. FailuresAreExplained'
  BY DEF ProvisionFails, FailuresAreExplained
<1> QED
  BY <1>1, <1>2, <1>3, <1>4, <1>5, <1>6

LEMMA VmPrepare ==
    ASSUME VmInv, NEW c \in Calls, Prepare(c)
    PROVE  VmInv'
<1> USE VmConstants DEF VmConstants, VmInv
<1>0. /\ call' \in [Calls -> States] /\ call'[c].at \in Places
      /\ \A d \in Calls : d # c => call'[d] = call[d]
  BY DEF Prepare, Fail, Go, VmTypeOK, States, Places
<1> USE DEF dockerVars, threadVars, beliefVars, Go, States
<1>1. VmTypeOK'
  <2>1. /\ container.id \in ContainerIds /\ container.up \in BOOLEAN
        /\ container.prepared \in BOOLEAN
        /\ 0 \in ContainerIds /\ (made + 1 \in ContainerIds \/ made >= MaxContainers)
    BY DEF VmTypeOK, ContainerIds
  <2>2. container' \in [id : ContainerIds, up : BOOLEAN, prepared : BOOLEAN]
    BY DEF Prepare, VmTypeOK
  <2>3. cached' \in [id : ContainerIds, up : BOOLEAN] /\ made' \in ContainerIds
    BY DEF Prepare, VmTypeOK
  <2>4. /\ halted' \subseteq ContainerIds /\ unprepared' \subseteq ContainerIds
        /\ forgiven' \subseteq Calls
    BY DEF Prepare, Fail, VmTypeOK
  <2>5. /\ lock' \in Calls \cup {Nobody}
        /\ lock' # Nobody => call'[lock'].at \in {"getting", "adopting", "creating", "preparing"}
    BY DEF Prepare
  <2>6. tracked' \in BOOLEAN
    BY DEF Prepare, VmTypeOK
  <2>7. /\ power' \in {"none", "running", "suspended"} /\ row' \in {"none", "running", "suspended"}
        /\ faults' \in 0 .. MaxFaults /\ restarts' \in 0 .. MaxRestarts
    BY DEF Prepare, VmTypeOK
  <2>8. threads' \subseteq ThreadRequests /\ strays' \subseteq ContainerIds
    BY DEF Prepare, VmTypeOK
  <2> QED
    BY <1>0, <2>2, <2>3, <2>4, <2>5, <2>6, <2>7, <2>8 DEF VmTypeOK
<1>2. LockSound'
  BY DEF Prepare, Fail, VmTypeOK, LockSound, LockPlaces
<1>3. ContainersSound'
  BY DEF Prepare, VmTypeOK, ContainersSound, VmCallsSound, ContainerIds
<1>4. VmCallsSound'
  BY <1>0 DEF Prepare, Works, Fail, VmTypeOK, VmCallsSound
<1>5. VmUntouched'
  BY DEF Prepare, Fail, VmTypeOK, VmUntouched, KnownPlaces, TrackedPlaces
<1>6. FailuresAreExplained'
  BY DEF Prepare, Works, Fail, Broken, VmTypeOK, ContainersSound, VmCallsSound,
     FailuresAreExplained
<1> QED
  BY <1>1, <1>2, <1>3, <1>4, <1>5, <1>6

LEMMA VmSuspend ==
    ASSUME VmInv, NEW c \in Calls, Suspend(c)
    PROVE  VmInv'
<1> USE VmConstants DEF VmConstants, VmInv
<1>0. /\ call' \in [Calls -> States] /\ call'[c].at \in Places
      /\ \A d \in Calls : d # c => call'[d] = call[d]
  BY DEF Suspend, Go, VmTypeOK, States, Places
<1> USE DEF dockerVars, threadVars, beliefVars, Go, States
<1>1. VmTypeOK'
  BY <1>0 DEF Suspend, Fetch, VmTypeOK
<1>2. LockSound'
  BY DEF Suspend, LockSound, LockPlaces
<1>3. ContainersSound'
  BY DEF Suspend, Fetch, ContainersSound
<1>4. VmCallsSound'
  BY DEF Suspend, VmCallsSound, KnownPlaces
<1>5. VmUntouched'
  BY DEF Suspend, VmUntouched
<1>6. FailuresAreExplained'
  BY DEF Suspend, FailuresAreExplained
<1> QED
  BY <1>1, <1>2, <1>3, <1>4, <1>5, <1>6

LEMMA VmStop ==
    ASSUME VmInv, NEW c \in Calls, Stop(c)
    PROVE  VmInv'
<1> USE VmConstants DEF VmConstants, VmInv
<1>0. /\ call' \in [Calls -> States] /\ call'[c].at \in Places
      /\ \A d \in Calls : d # c => call'[d] = call[d]
  BY DEF Stop, Fail, Go, VmTypeOK, States, Places
<1> USE DEF dockerVars, threadVars, beliefVars, Go, States
<1>1. VmTypeOK'
  <2>1. /\ container.id \in ContainerIds /\ container.up \in BOOLEAN
        /\ container.prepared \in BOOLEAN
        /\ 0 \in ContainerIds /\ (made + 1 \in ContainerIds \/ made >= MaxContainers)
    BY DEF VmTypeOK, ContainerIds
  <2>2. container' \in [id : ContainerIds, up : BOOLEAN, prepared : BOOLEAN]
    BY DEF Stop, VmTypeOK
  <2>3. cached' \in [id : ContainerIds, up : BOOLEAN] /\ made' \in ContainerIds
    BY DEF Stop, VmTypeOK
  <2>4. /\ halted' \subseteq ContainerIds /\ unprepared' \subseteq ContainerIds
        /\ forgiven' \subseteq Calls
    BY DEF Stop, Fail, VmTypeOK
  <2>5. /\ lock' \in Calls \cup {Nobody}
        /\ lock' # Nobody => call'[lock'].at \in {"getting", "adopting", "creating", "preparing"}
    BY <1>0 DEF Stop, VmTypeOK
  <2>6. tracked' \in BOOLEAN
    BY DEF Stop, VmTypeOK
  <2>7. /\ power' \in {"none", "running", "suspended"} /\ row' \in {"none", "running", "suspended"}
        /\ faults' \in 0 .. MaxFaults /\ restarts' \in 0 .. MaxRestarts
    BY DEF Stop, VmTypeOK
  <2>8. threads' \subseteq ThreadRequests /\ strays' \subseteq ContainerIds
    BY DEF Stop, VmTypeOK
  <2> QED
    BY <1>0, <2>2, <2>3, <2>4, <2>5, <2>6, <2>7, <2>8 DEF VmTypeOK
<1>2. LockSound'
  BY DEF Stop, Fail, VmTypeOK, LockSound, LockPlaces
<1>3. ContainersSound'
  BY <1>0, SMTT(30) DEF Stop, Exists, Fail, Broken, VmTypeOK, LockSound, ContainersSound, VmCallsSound,
     VmUntouched, FailuresAreExplained, Places, KnownPlaces, LockPlaces, TrackedPlaces, ContainerIds
<1>4. VmCallsSound'
  BY <1>0 DEF Stop, Exists, Fail, VmTypeOK, VmCallsSound, KnownPlaces
<1>5. VmUntouched'
  BY DEF Stop, VmTypeOK, VmUntouched, TrackedPlaces
<1>6. FailuresAreExplained'
  BY <1>0 DEF Stop, Fail, VmCallsSound, FailuresAreExplained
<1> QED
  BY <1>1, <1>2, <1>3, <1>4, <1>5, <1>6

LEMMA VmSuspended ==
    ASSUME VmInv, NEW c \in Calls, Suspended(c)
    PROVE  VmInv'
<1> USE VmConstants DEF VmConstants, VmInv
<1>0. /\ call' \in [Calls -> States] /\ call'[c].at \in Places
      /\ \A d \in Calls : d # c => call'[d] = call[d]
  BY DEF Suspended, Note, Go, VmTypeOK, States, Places
<1> USE DEF dockerVars, threadVars, beliefVars, Go, States
<1>1. VmTypeOK'
  BY <1>0 DEF Suspended, Note, VmTypeOK
<1>2. LockSound'
  BY DEF Suspended, Note, LockSound, LockPlaces
<1>3. ContainersSound'
  BY DEF Suspended, Note, ContainersSound
<1>4. VmCallsSound'
  BY DEF Suspended, Note, VmCallsSound, KnownPlaces
<1>5. VmUntouched'
  BY DEF Suspended, Note, VmUntouched, TrackedPlaces
<1>6. FailuresAreExplained'
  BY DEF Suspended, Note, FailuresAreExplained
<1> QED
  BY <1>1, <1>2, <1>3, <1>4, <1>5, <1>6

LEMMA VmVanishes ==
    ASSUME VmInv, Vanishes
    PROVE  VmInv'
<1> USE VmConstants DEF VmConstants, VmInv, dockerVars, threadVars, beliefVars
<1>1. VmTypeOK'
  <2>1. container' \in [id : ContainerIds, up : BOOLEAN, prepared : BOOLEAN]
    <3>1. CASE container' = NoContainer
      <4>1. container' = [id |-> 0, up |-> FALSE, prepared |-> FALSE] /\ 0 \in ContainerIds
        BY <3>1 DEF NoContainer, ContainerIds
      <4> QED
        BY <4>1
    <3>2. CASE container' = [container EXCEPT !.up = FALSE]
      BY <3>2 DEF VmTypeOK
    <3> QED
      BY <3>1, <3>2 DEF Vanishes
  <2>2. halted' \subseteq ContainerIds /\ faults' \in 0 .. MaxFaults
    BY DEF Vanishes, VmTypeOK
  <2> QED
    BY <2>1, <2>2 DEF Vanishes, VmTypeOK
<1>2. LockSound'
  BY DEF Vanishes, LockSound
<1>3. ContainersSound'
  BY DEF Vanishes, NoContainer, VmTypeOK, ContainersSound, ContainerIds
<1>4. VmCallsSound'
  BY DEF Vanishes, NoContainer, VmTypeOK, VmCallsSound
<1>5. VmUntouched'
  BY DEF Vanishes, VmTypeOK, VmUntouched
<1>6. FailuresAreExplained'
  BY DEF Vanishes, FailuresAreExplained
<1> QED
  BY <1>1, <1>2, <1>3, <1>4, <1>5, <1>6

LEMMA VmRestart ==
    ASSUME VmInv, Restart
    PROVE  VmInv'
<1> USE VmConstants DEF VmConstants, VmInv, dockerVars, threadVars, beliefVars
<1>1. VmTypeOK'
  <2>1. cached' = [id |-> 0, up |-> FALSE] /\ 0 \in ContainerIds /\ container.id \in ContainerIds
    BY DEF Restart, VmTypeOK, ContainerIds
  <2>2. cached' \in [id : ContainerIds, up : BOOLEAN]
    BY <2>1
  <2>3. power' \in {"none", "running", "suspended"} /\ lock' = Nobody
    BY DEF Restart, VmTypeOK
  <2>9. tracked' \in BOOLEAN
    BY DEF Restart
  <2>4. restarts' \in 0 .. MaxRestarts
    BY DEF Restart, VmTypeOK
  <2>5. call' \in [Calls -> States]
    BY DEF Restart, VmTypeOK, Places, States
  <2>6. unprepared' \subseteq ContainerIds /\ forgiven' \subseteq Calls
    BY <2>1 DEF Restart, VmTypeOK
  <2>7. UNCHANGED <<container, row, made, faults, halted, strays>> /\ threads' = {}
    BY DEF Restart
  <2>8. /\ container' \in [id : ContainerIds, up : BOOLEAN, prepared : BOOLEAN]
        /\ row' \in {"none", "running", "suspended"} /\ made' \in ContainerIds
        /\ faults' \in 0 .. MaxFaults /\ halted' \subseteq ContainerIds
        /\ threads' \subseteq ThreadRequests /\ strays' \subseteq ContainerIds
    BY <2>7 DEF VmTypeOK
  <2>10. /\ lock' \in Calls \cup {Nobody}
         /\ lock' # Nobody => call'[lock'].at \in {"getting", "adopting", "creating", "preparing"}
    BY <2>3
  <2> QED
    BY <2>2, <2>3, <2>4, <2>5, <2>6, <2>8, <2>9 DEF VmTypeOK, States
<1>2. LockSound'
  BY DEF Restart, LockSound, LockPlaces
<1>3. ContainersSound'
  BY DEF Restart, VmTypeOK, ContainersSound, ContainerIds
<1>4. VmCallsSound'
  BY DEF Restart, VmCallsSound, KnownPlaces
<1>5. VmUntouched'
  BY ZenonT(40) DEF Restart, VmTypeOK, LockSound, ContainersSound, VmCallsSound,
     VmUntouched, FailuresAreExplained, Places, KnownPlaces, LockPlaces, TrackedPlaces, ContainerIds
<1>6. FailuresAreExplained'
  BY DEF Restart, FailuresAreExplained
<1> QED
  BY <1>1, <1>2, <1>3, <1>4, <1>5, <1>6

LEMMA VmCancelled ==
    ASSUME VmInv, NEW c \in Calls, Cancelled(c)
    PROVE  VmInv'
<1> USE VmConstants DEF VmConstants, VmInv
<1>0. /\ call' \in [Calls -> States] /\ call'[c].at = "cancelled"
      /\ \A d \in Calls : d # c => call'[d] = call[d]
  BY DEF Cancelled, Go, VmTypeOK, States, Places
<1> USE DEF beliefVars
<1>1. VmTypeOK'
  <2>1. cached.id \in ContainerIds /\ 0 \in ContainerIds
    BY DEF VmTypeOK, ContainerIds
  <2>2. Asks(c) \subseteq ThreadRequests
    BY <2>1 DEF Asks, ThreadRequests
  <2>3. threads' \subseteq ThreadRequests
    BY <2>2 DEF Cancelled, VmTypeOK
  <2>4. /\ lock' \in Calls \cup {Nobody}
        /\ lock' # Nobody => call'[lock'].at \in {"getting", "adopting", "creating", "preparing"}
    BY <1>0 DEF Cancelled, VmTypeOK
  <2>5. unprepared' \subseteq ContainerIds
    BY <2>1 DEF Cancelled, VmTypeOK
  <2> QED
    BY <1>0, <2>3, <2>4, <2>5 DEF Cancelled, VmTypeOK, States
<1>2. LockSound'
  BY <1>0 DEF Cancelled, VmTypeOK, LockSound, LockPlaces
<1>3. ContainersSound'
  BY <1>0 DEF Cancelled, ContainersSound, VmCallsSound
<1>4. VmCallsSound'
  BY <1>0 DEF Cancelled, VmCallsSound, KnownPlaces
<1>5. VmUntouched'
  BY <1>0 DEF Cancelled, VmUntouched, KnownPlaces, TrackedPlaces
<1>6. FailuresAreExplained'
  BY <1>0 DEF Cancelled, FailuresAreExplained
<1> QED
  BY <1>1, <1>2, <1>3, <1>4, <1>5, <1>6

\* A thread ends what it was asked for a cancelled call: what it created is a
\* stray, what it started or stopped is there.
LEMMA VmThreadEnds ==
    ASSUME VmInv, NEW t \in threads, ThreadEnds(t)
    PROVE  VmInv'
<1> USE VmConstants DEF VmConstants, VmInv
<1>0. /\ UNCHANGED <<faults, restarts, unprepared, cached, tracked, power, row, lock, call, forgiven>>
      /\ threads' \subseteq threads
      /\ \/ /\ container.id = 0 /\ made < MaxContainers /\ made' = made + 1
            /\ container' = [id |-> made + 1, up |-> TRUE, prepared |-> FALSE]
            /\ strays' = strays \cup {made + 1} /\ halted' = halted
         \/ /\ container.id = t.id /\ t.id # 0 /\ made' = made /\ strays' = strays
            /\ \/ container' = [container EXCEPT !.up = TRUE] /\ halted' = halted \ {container.id}
               \/ container' = [container EXCEPT !.up = FALSE]
                  /\ halted' = halted \cup {container.id}
         \/ UNCHANGED <<container, made, halted, strays>>
  BY DEF ThreadEnds, beliefVars
<1>1. CASE UNCHANGED <<container, made, halted, strays>>
  BY <1>0, <1>1 DEF VmTypeOK, LockSound, ContainersSound, VmCallsSound, VmUntouched,
                    FailuresAreExplained
<1>2. CASE /\ container.id = 0 /\ made < MaxContainers /\ made' = made + 1
           /\ container' = [id |-> made + 1, up |-> TRUE, prepared |-> FALSE]
           /\ strays' = strays \cup {made + 1} /\ halted' = halted
  <2>1. made + 1 \in ContainerIds /\ made \in Nat /\ made + 1 # 0
    BY <1>2 DEF VmTypeOK, ContainerIds
  <2>2. /\ container'.id = made + 1 /\ container'.up = TRUE
        /\ container' \in [id : ContainerIds, up : BOOLEAN, prepared : BOOLEAN]
    BY <1>2, <2>1
  <2>3. VmTypeOK' /\ LockSound'
    BY <1>0, <1>2, <2>1, <2>2 DEF VmTypeOK, LockSound
  <2>4. ContainersSound'
    BY <1>0, <1>2, <2>1, <2>2 DEF ContainersSound, VmTypeOK, ContainerIds
  <2>5. VmCallsSound' /\ VmUntouched' /\ FailuresAreExplained'
    BY <1>0, <1>2, <2>1, <2>2 DEF VmCallsSound, VmUntouched, FailuresAreExplained
  <2> QED
    BY <2>3, <2>4, <2>5
<1>3. CASE /\ container.id = t.id /\ t.id # 0 /\ made' = made /\ strays' = strays
           /\ \/ container' = [container EXCEPT !.up = TRUE] /\ halted' = halted \ {container.id}
              \/ container' = [container EXCEPT !.up = FALSE]
                 /\ halted' = halted \cup {container.id}
  <2>1. /\ container'.id = container.id /\ container'.prepared = container.prepared
        /\ container.id # 0 /\ container.id \in ContainerIds
        /\ container'.up \/ container.id \in halted'
        /\ container' \in [id : ContainerIds, up : BOOLEAN, prepared : BOOLEAN]
        /\ halted' \subseteq ContainerIds
    BY <1>3 DEF VmTypeOK
  <2>2. VmTypeOK' /\ LockSound'
    BY <1>0, <1>3, <2>1 DEF VmTypeOK, LockSound
  <2>3. ContainersSound'
    BY <1>0, <1>3, <2>1 DEF ContainersSound
  <2>4. VmCallsSound' /\ VmUntouched' /\ FailuresAreExplained'
    BY <1>0, <1>3, <2>1 DEF VmCallsSound, VmUntouched, FailuresAreExplained
  <2> QED
    BY <2>2, <2>3, <2>4
<1> QED
  BY <1>0, <1>1, <1>2, <1>3

LEMMA VmStarts == VmInit => VmInv
<1> SUFFICES ASSUME VmInit PROVE VmInv
  OBVIOUS
<1> USE VmConstants DEF VmConstants, VmInit
<1>1. VmTypeOK
  <2>1. 0 \in ContainerIds /\ container = [id |-> 0, up |-> FALSE, prepared |-> FALSE]
    BY DEF ContainerIds, NoContainer
  <2>2. /\ container \in [id : ContainerIds, up : BOOLEAN, prepared : BOOLEAN]
        /\ cached \in [id : ContainerIds, up : BOOLEAN]
    BY <2>1
  <2>3. call \in [Calls -> [at : Places, seen : {"none", "running", "suspended"}]]
    BY DEF Places
  <2>4. 0 \in 0 .. MaxFaults /\ 0 \in 0 .. MaxRestarts
    OBVIOUS
  <2>5. tracked \in BOOLEAN
    OBVIOUS
  <2> QED
    BY <2>2, <2>3, <2>5 DEF VmTypeOK
<1>2. LockSound
  BY DEF LockSound, LockPlaces
<1>3. ContainersSound
  BY DEF ContainersSound, NoContainer
<1>4. VmCallsSound
  BY DEF VmCallsSound
<1>5. VmUntouched
  BY DEF VmUntouched, KnownPlaces, TrackedPlaces
<1>6. FailuresAreExplained
  BY DEF FailuresAreExplained
<1> QED
  BY <1>1, <1>2, <1>3, <1>4, <1>5, <1>6 DEF VmInv

LEMMA VmSteps == VmInv /\ [VmNext]_vmVars => VmInv'
<1> SUFFICES ASSUME VmInv, [VmNext]_vmVars PROVE VmInv'
  OBVIOUS
<1>1. ASSUME NEW c \in Calls,
             \/ Ensure(c) \/ Verify(c) \/ Run(c) \/ Resume(c) \/ Resumed(c)
             \/ Suspend(c) \/ Stop(c) \/ Suspended(c)
      PROVE  VmInv'
  BY <1>1, VmEnsure, VmVerify, VmRun, VmResume, VmResumed, VmSuspend, VmStop, VmSuspended
<1>2. ASSUME NEW c \in Calls,
             \/ Enter(c) \/ Get(c) \/ Adopt(c) \/ Create(c) \/ ProvisionFails(c) \/ Prepare(c)
      PROVE  VmInv'
  BY <1>2, VmEnter, VmGet, VmAdopt, VmCreate, VmProvisionFails, VmPrepare
<1>3. CASE Vanishes \/ Restart
  BY <1>3, VmVanishes, VmRestart
<1>4. CASE UNCHANGED vmVars
  BY <1>4 DEF vmVars, VmInv, VmTypeOK, LockSound, ContainersSound, VmCallsSound, VmUntouched,
     FailuresAreExplained
<1>5. ASSUME NEW c \in Calls, Cancelled(c) PROVE VmInv'
  BY <1>5, VmCancelled
<1>6. ASSUME NEW t \in threads, ThreadEnds(t) PROVE VmInv'
  BY <1>6, VmThreadEnds
<1> QED
  BY <1>1, <1>2, <1>3, <1>4, <1>5, <1>6 DEF VmNext

\* The types of the machine, of its lock and of what each call and thread does.
THEOREM VmTypeCorrect == VmSpec => []VmTypeOK
<1>1. VmInv => VmTypeOK
  BY DEF VmInv
<1> QED
  BY <1>1, VmStarts, VmSteps, PTL DEF VmSpec

\* However the calls of a user interleave, fail and are cancelled, and whatever
\* Docker loses and threads finish late: a command fails only for a reason the
\* code cannot help (core/vm_manager.py), and runs in a container that was set
\* up unless the setup failed, was cut off, or never came for a cancelled call.
THEOREM VmsAreSafe == VmSpec => []VmsSafe
<1>1. VmInv => VmsSafe
  <2> SUFFICES ASSUME VmInv PROVE CommandsRunPrepared
    BY DEF VmInv, VmsSafe
  <2>1. tracked => \A c \in Calls : call[c].at # "preparing"
    BY VmConstants DEF VmInv, LockSound, LockPlaces
  <2> QED
    BY <2>1 DEF VmInv, ContainersSound, CommandsRunPrepared, Works
<1> QED
  BY <1>1, VmStarts, VmSteps, PTL DEF VmSpec

----------------------------------------------------------------------------
(* The memory store                                                        *)

WriterPlaces == {"new", "extracted", "searched", "acting", "read", "written", "checking",
                 "dropping", "dropped", "replacing", "recording", "over"}

WriterStates ==
    [at : WriterPlaces, errand : {"none", "add", "delete", "clear"}, found : SUBSET Ids,
     plan : Seq(Actions), doing : Actions \cup {Nothing}, results : Seq(Actions),
     valid : SUBSET Ids, rival : Ids \cup {0}]

\* The types, with those of the threads as one set of records.
StoreTyped ==
    /\ stored \in [Ids -> Facts \cup {Absent, Gone}]
    /\ logged \in [Ids -> Facts \cup {Absent, Gone}]
    /\ dynamics \subseteq Ids /\ superseded \subseteq Ids \X Ids
    /\ writer \in [Writers -> WriterStates]
    /\ failures \in 0 .. MaxFailures
    /\ unlogged \subseteq Ids /\ contested \subseteq Ids
    /\ retracted \subseteq Facts /\ doubled \subseteq Facts

\* What a plan may say: a memory that is created has no id yet.
Planned(a) == IF a.event = "ADD" THEN a.id = 0 ELSE a.id \in Ids
\* What may be reported.
Reported(a, r) == a.id \in Ids /\ \E n \in DOMAIN r.results : r.results[n] = a

\* What a thread holds, by where it is.
Holding(r) ==
    /\ r.at = "new" => r.results = <<>>
    /\ (r.at = "new" <=> r.errand = "none")
    /\ r.at \in {"checking", "dropping", "dropped", "replacing"} => r.errand = "add"
    /\ \A n \in DOMAIN r.results : r.results[n].id \in Ids
    /\ r.at \in {"new", "extracted", "searched", "acting", "read", "written"} =>
         \A n \in DOMAIN r.plan : Planned(r.plan[n])
    /\ r.at \in {"checking", "dropping", "dropped", "replacing"} =>
         \A n \in DOMAIN r.plan : Reported(r.plan[n], r)
    /\ r.at \in {"dropping", "dropped", "replacing"} => r.plan # <<>> /\ Reported(r.doing, r)
    /\ r.at = "replacing" => r.rival \in Ids
    /\ r.at = "dropping" => r.doing.event = "ADD"
    /\ r.at = "read" => r.doing \in Actions /\ Planned(r.doing)
    /\ r.at = "written" => r.doing \in Actions /\ r.doing.id \in Ids

Touches(w, places, i) == writer[w].at \in places /\ writer[w].doing.id = i

\* A thread and the memory it has read or written.
Touching ==
    \A w \in Writers, i \in Ids :
        Touches(w, {"read", "written", "dropped"}, i) => stored[i] # Absent

\* A memory that no two threads changed at once: what a thread has written is
\* stored, what it has dropped is gone, and the log says so unless it failed or
\* the thread has not come to it yet.
HistoryOf(i) ==
    /\ \A v, w \in Changing(i) : v = w
    /\ \A w \in Writers :
         /\ Touches(w, {"written"}, i) =>
              stored[i] = IF writer[w].doing.event = "DELETE" THEN Gone ELSE Told[w]
         /\ Touches(w, {"dropped"}, i) => stored[i] = Gone /\ Changing(i) = {}
    /\ \/ i \in unlogged \/ logged[i] = stored[i]
       \/ \E w \in Writers : Touches(w, {"written", "dropped"}, i)

HistorySound == \A i \in Ids \ contested : HistoryOf(i)

\* A thread at adding, and the memories it has made, as far as it knows.
Adding(r) == r.errand = "add" /\ r.at # "over"

Made(r, i) ==
    \/ \E n \in DOMAIN r.results : r.results[n].event = "ADD" /\ r.results[n].id = i
    \/ r.at = "written" /\ r.doing.event = "ADD" /\ r.doing.id = i

\* The facts of which the store keeps at least one that is similar.
Kept == {f \in Facts \ doubled : ~Retracted(f)}

\* A memory like the fact that no thread told of another such fact may drop as
\* its own.
StoredNow(f) ==
    \E i \in Ids :
      /\ stored[i] \in Facts /\ Similar(stored[i], f)
      /\ \A v \in Writers :
           Adding(writer[v]) /\ Made(writer[v], i) /\ Similar(Told[v], f) => Told[v] = f

StoredElsewhere(w) ==
    \E j \in Ids \ IdsOf(writer[w].results) :
      stored[j] \in Facts /\ Similar(stored[j], Told[w])

\* Two threads adding similar facts are known to be; a fact that was stored, or
\* is about to be reported, is stored in a memory that stays; a thread drops
\* its own memory only for one that it did not make.
KnowledgeSound ==
    /\ \A v, w \in Writers :
         v # w /\ Adding(writer[v]) /\ Adding(writer[w]) /\ Similar(Told[v], Told[w])
           => Told[v] \in doubled
    /\ \A f \in Kept : EverStored(f) => StoredNow(f)
    /\ \A w \in Writers :
         Adding(writer[w]) /\ Told[w] \in Kept =>
           /\ writer[w].at = "written" /\ writer[w].doing.event = "ADD" => StoredNow(Told[w])
           /\ writer[w].at = "dropping" => StoredElsewhere(w)

MemoryInv ==
    /\ StoreTyped /\ \A w \in Writers : Holding(writer[w])
    /\ Touching /\ HistorySound /\ KnowledgeSound
    /\ \A w \in Writers : writer[w].errand \in Errands[w] \cup {"none"}

LEMMA StoreStarts ==
    ASSUME MemoryInit PROVE MemoryInv
<1> USE MemoryConstants DEF MemoryConstants, MemoryInit
<1>1. \A w \in Writers : /\ writer[w].at = "new" /\ writer[w].errand = "none"
                         /\ writer[w].plan = <<>> /\ writer[w].results = <<>>
  OBVIOUS
<1>2. stored \in [Ids -> Facts \cup {Absent, Gone}]
  OBVIOUS
<1>3. writer \in [Writers -> WriterStates]
  <2>1. [at |-> "new", errand |-> "none", found |-> {}, plan |-> <<>>, doing |-> Nothing,
         results |-> <<>>, valid |-> {}, rival |-> 0] \in WriterStates
    BY DEF WriterStates, WriterPlaces
  <2> QED
    BY <2>1
<1>4. StoreTyped
  <2>1. failures \in 0 .. MaxFailures
    OBVIOUS
  <2>2. logged \in [Ids -> Facts \cup {Absent, Gone}] /\ dynamics \subseteq Ids
    BY <1>2
  <2> QED
    BY <1>2, <1>3, <2>1, <2>2 DEF StoreTyped
<1>5. ASSUME NEW w \in Writers PROVE Holding(writer[w])
  BY <1>1 DEF Holding
<1>6. Touching
  BY <1>1 DEF Touching, Touches
<1>7. HistorySound
  BY <1>1, <1>2 DEF HistorySound, HistoryOf, Changing, Touches
<1>8. KnowledgeSound
  BY <1>1 DEF KnowledgeSound, Adding, EverStored
<1> QED
  BY <1>1, <1>4, <1>5, <1>6, <1>7, <1>8 DEF MemoryInv

\* A thread that neither touches a memory before a step nor after it, and
\* changes nothing, leaves the history as it was.
LEMMA QuietHistory ==
    ASSUME MemoryInv, NEW w \in Writers, NEW r,
           writer' = [writer EXCEPT ![w] = r],
           writer[w].at \notin {"read", "written", "dropped"},
           r.at \notin {"read", "written", "dropped"},
           UNCHANGED <<stored, logged, unlogged>>, contested \subseteq contested'
    PROVE  Touching' /\ HistorySound'
<1>0. writer \in [Writers -> WriterStates] /\ stored \in [Ids -> Facts \cup {Absent, Gone}]
  BY DEF MemoryInv, StoreTyped
<1>1. /\ writer'[w].at \notin {"read", "written", "dropped"}
      /\ \A v \in Writers : v # w => writer'[v] = writer[v]
  BY <1>0
<1>2. \A i \in Ids : Changing(i)' = Changing(i)
  BY <1>1 DEF Changing
<1>3. \A v \in Writers, i \in Ids :
        /\ Touches(v, {"written"}, i)' = Touches(v, {"written"}, i)
        /\ Touches(v, {"dropped"}, i)' = Touches(v, {"dropped"}, i)
        /\ Touches(v, {"written", "dropped"}, i)' = Touches(v, {"written", "dropped"}, i)
        /\ Touches(v, {"read", "written", "dropped"}, i)'
             = Touches(v, {"read", "written", "dropped"}, i)
  BY <1>1 DEF Touches
<1>4. \A v \in Writers, i \in Ids :
        Touches(v, {"written"}, i)' => writer'[v].doing = writer[v].doing
  BY <1>1 DEF Touches
<1>5. Touching'
  BY <1>3 DEF MemoryInv, Touching
<1>6. HistorySound'
  BY <1>2, <1>3, <1>4 DEF MemoryInv, HistorySound, HistoryOf
<1> QED
  BY <1>5, <1>6

\* A fact that is retracted or added twice stays so.
LEMMA KeptBefore ==
    ASSUME retracted \subseteq retracted', doubled \subseteq doubled'
    PROVE  Kept' \subseteq Kept
BY DEF Kept, Retracted

\* Two facts are as similar one way as the other.
LEMMA SimilarFacts ==
    /\ \A w \in Writers : Told[w] \in Facts
    /\ \A f \in Facts : Similar(f, f)
    /\ \A f, g \in Facts : Similar(f, g) => Similar(g, f)
BY MemoryConstants DEF MemoryConstants

\* A memory like the fact stays one if it holds what it held and no thread has
\* made it that had not.
LEMMA StaysStored ==
    ASSUME NEW w \in Writers, NEW r, NEW f \in Facts, StoredNow(f),
           writer'[w] = r, \A v \in Writers : v # w => writer'[v] = writer[v],
           \A i \in Ids : Adding(r) /\ Made(r, i) /\ stored[i] \in Facts =>
                          Adding(writer[w]) /\ Made(writer[w], i),
           \A i \in Ids :
             /\ stored[i] \in Facts /\ Similar(stored[i], f)
             /\ \A v \in Writers :
                  Adding(writer[v]) /\ Made(writer[v], i) /\ Similar(Told[v], f) => Told[v] = f
             => stored'[i] = stored[i]
    PROVE  StoredNow(f)'
<1>1. PICK i \in Ids :
        /\ stored[i] \in Facts /\ Similar(stored[i], f)
        /\ \A v \in Writers :
             Adding(writer[v]) /\ Made(writer[v], i) /\ Similar(Told[v], f) => Told[v] = f
  BY DEF StoredNow
<1>2. stored'[i] = stored[i]
  BY <1>1
<1>3. \A v \in Writers :
        Adding(writer'[v]) /\ Made(writer'[v], i) => Adding(writer[v]) /\ Made(writer[v], i)
  BY <1>1
<1>4. \A v \in Writers :
        Adding(writer'[v]) /\ Made(writer'[v], i) /\ Similar(Told[v], f) => Told[v] = f
  BY <1>1, <1>3
<1> HIDE DEF Adding, Made
<1>5. \A v \in Writers :
        Adding(writer[v])' /\ Made(writer[v], i)' /\ Similar(Told[v], f) => Told[v] = f
  BY <1>4 DEF Adding, Made
<1> QED
  BY <1>1, <1>2, <1>5 DEF StoredNow

\* A thread that keeps to its errand and reports nothing new takes nothing from
\* what is known.
LEMMA QuietKnowledge ==
    ASSUME MemoryInv, NEW w \in Writers, NEW r,
           writer' = [writer EXCEPT ![w] = r],
           writer[w].at # "over", r.results = writer[w].results,
           r.errand = writer[w].errand \/ "add" \notin {writer[w].errand, r.errand},
           r.at \notin {"written", "dropping"},
           UNCHANGED <<stored, retracted, doubled>>
    PROVE  KnowledgeSound'
<1>0. writer \in [Writers -> WriterStates]
  BY DEF MemoryInv, StoreTyped
<1>1. /\ writer'[w] = r /\ \A v \in Writers : v # w => writer'[v] = writer[v]
  BY <1>0
<1>2. /\ \A v \in Writers : Adding(writer[v])' => Adding(writer[v])
      /\ \A i \in Ids : Adding(r) /\ Made(r, i) => Adding(writer[w]) /\ Made(writer[w], i)
  BY <1>1 DEF Adding, Made
<1>3. \A f \in Facts : EverStored(f)' <=> EverStored(f)
  BY <1>1 DEF EverStored
<1>4. \A f \in Facts : StoredNow(f) => StoredNow(f)'
  BY <1>1, <1>2, StaysStored
<1>5. /\ Kept' = Kept /\ Kept \subseteq Facts
      /\ \A v \in Writers : StoredElsewhere(v)' <=> StoredElsewhere(v)
  BY <1>1 DEF Kept, Retracted, StoredElsewhere, IdsOf
<1> QED
  BY <1>1, <1>2, <1>3, <1>4, <1>5 DEF MemoryInv, KnowledgeSound

\* What is left to show of a step that changes one thread.
LEMMA OneThread ==
    ASSUME MemoryInv, NEW w \in Writers, NEW r,
           writer' = [writer EXCEPT ![w] = r],
           Holding(r), r.errand \in Errands[w] \cup {"none"},
           StoreTyped', Touching', HistorySound', KnowledgeSound'
    PROVE  MemoryInv'
<1>0. writer \in [Writers -> WriterStates]
  BY DEF MemoryInv, StoreTyped
<1>1. /\ writer'[w] = r /\ \A v \in Writers : v # w => writer'[v] = writer[v]
  BY <1>0
<1>2. \A v \in Writers : Holding(writer'[v])
  BY <1>1 DEF MemoryInv
<1>3. \A v \in Writers : Holding(writer[v])'
  BY <1>2 DEF Holding, Planned, Reported
<1> QED
  BY <1>1, <1>3 DEF MemoryInv

LEMMA ExtractKeeps ==
    ASSUME MemoryInv, NEW w \in Writers, Extract(w) PROVE MemoryInv'
<1>0. writer \in [Writers -> WriterStates] /\ writer[w] \in WriterStates
  BY DEF MemoryInv, StoreTyped
<1>1. PICK at \in {"extracted", "over"} : writer' = [writer EXCEPT ![w].at = at,
                                                                   ![w].errand = "add"]
  BY DEF Extract
<1> DEFINE r == [writer[w] EXCEPT !.at = at, !.errand = "add"]
<1>2. writer' = [writer EXCEPT ![w] = r]
  BY <1>0, <1>1
<1>3. r \in WriterStates /\ r.at = at /\ r.errand = "add" /\ r.results = writer[w].results
      /\ r.plan = writer[w].plan /\ r.doing = writer[w].doing
  BY <1>0 DEF WriterStates, WriterPlaces
<1> HIDE DEF r
<1>4. /\ Told[w] \in Facts /\ "add" \in Errands[w] /\ writer[w].at = "new"
      /\ writer[w].results = <<>> /\ writer[w].errand = "none"
  BY MemoryConstants DEF MemoryConstants, MemoryInv, Holding, Extract
<1>9. /\ UNCHANGED <<stored, logged, dynamics, superseded, failures, unlogged, contested,
                     retracted>>
      /\ doubled' = IF AddingNow(Told[w]) = {} THEN doubled
                    ELSE doubled \cup AddingNow(Told[w]) \cup {Told[w]}
  BY DEF Extract, storeVars
<1>10. AddingNow(Told[w]) \subseteq Facts
  BY SimilarFacts DEF AddingNow
<1>5. StoreTyped'
  BY <1>0, <1>2, <1>3, <1>4, <1>9, <1>10 DEF MemoryInv, StoreTyped
<1>6. Holding(r)
  BY <1>0, <1>3, <1>4 DEF MemoryInv, Holding, Planned, Reported
<1>7. Touching' /\ HistorySound'
  BY <1>2, <1>3, <1>4, <1>9, QuietHistory
<1>8. KnowledgeSound'
  <2>1. /\ writer'[w] = r /\ \A v \in Writers : v # w => writer'[v] = writer[v]
    BY <1>0, <1>2
  <2>2. /\ \A i : ~Made(r, i)
        /\ \A v \in Writers : v # w => (Adding(writer[v])' <=> Adding(writer[v]))
    BY <2>1, <1>3, <1>4 DEF Adding, Made
  <2>3. \A n : n \notin DOMAIN writer[w].results
    BY <1>4
  <2>4. \A f \in Facts : EverStored(f)' => EverStored(f)
    BY <2>1, <2>3, <1>3 DEF EverStored
  <2>5. \A f \in Facts : StoredNow(f) => StoredNow(f)'
    BY <2>1, <2>2, <1>9, StaysStored
  <2>6. Kept' \subseteq Kept /\ Kept \subseteq Facts /\ doubled \subseteq doubled'
    BY <1>9, KeptBefore DEF Kept
  <2>7. ASSUME NEW v \in Writers, v # w, Adding(writer[v])', Similar(Told[v], Told[w])
        PROVE  Told[v] \in doubled' /\ Told[w] \in doubled'
    <3>1. Told[v] \in AddingNow(Told[w])
      BY <2>2, <2>7 DEF AddingNow, Adding
    <3> QED
      BY <1>9, <3>1
  <2>8. ASSUME NEW u \in Writers, NEW v \in Writers, u # v, Adding(writer[u])',
               Adding(writer[v])', Similar(Told[u], Told[v])
        PROVE  Told[u] \in doubled'
    <3>1. Similar(Told[v], Told[u])
      BY <2>8, SimilarFacts
    <3>2. CASE u = w \/ v = w
      BY <2>7, <2>8, <3>1, <3>2
    <3>3. CASE u # w /\ v # w
      BY <2>2, <2>6, <2>8, <3>3 DEF MemoryInv, KnowledgeSound
    <3> QED
      BY <3>2, <3>3
  <2>9. ASSUME NEW v \in Writers, Adding(writer[v])', Told[v] \in Kept'
        PROVE  /\ (writer[v].at = "written" /\ writer[v].doing.event = "ADD")' =>
                    StoredNow(Told[v])'
               /\ (writer[v].at = "dropping")' => StoredElsewhere(v)'
    <3>1. CASE v = w
      BY <1>3, <2>1, <3>1
    <3>2. CASE v # w
      <4>1. Adding(writer[v]) /\ Told[v] \in Kept /\ Told[v] \in Facts
        BY <2>2, <2>6, <2>9, <3>2
      <4>2. /\ writer[v].at = "written" /\ writer[v].doing.event = "ADD" => StoredNow(Told[v])
            /\ writer[v].at = "dropping" => StoredElsewhere(v)
        BY <4>1 DEF MemoryInv, KnowledgeSound
      <4>3. StoredNow(Told[v]) => StoredNow(Told[v])'
        BY <2>5, <4>1
      <4>4. StoredElsewhere(v) => StoredElsewhere(v)'
        BY <1>9, <2>1, <3>2 DEF StoredElsewhere, IdsOf
      <4> QED
        BY <2>1, <3>2, <4>2, <4>3, <4>4
    <3> QED
      BY <3>1, <3>2
  <2>10. \A f \in Kept' : EverStored(f)' => StoredNow(f)'
    BY <2>4, <2>5, <2>6 DEF MemoryInv, KnowledgeSound
  <2> QED
    BY <2>8, <2>9, <2>10 DEF KnowledgeSound
<1> QED
  BY <1>2, <1>3, <1>4, <1>5, <1>6, <1>7, <1>8, OneThread

LEMMA RestOfPlan ==
    ASSUME NEW S, NEW p \in Seq(S), p # <<>>
    PROVE  /\ Tail(p) \in Seq(S) /\ Head(p) \in S
           /\ 1 \in DOMAIN p /\ Head(p) = p[1]
           /\ \A n \in DOMAIN Tail(p) : \E m \in DOMAIN p : Tail(p)[n] = p[m]
<1>1. Tail(p) \in Seq(S) /\ Head(p) = p[1] /\ Len(p) \in Nat \ {0}
      /\ DOMAIN p = 1 .. Len(p) /\ DOMAIN Tail(p) = 1 .. Len(p) - 1
  OBVIOUS
<1>2. \A n \in 1 .. Len(p) - 1 : Tail(p)[n] = p[n + 1] /\ n + 1 \in 1 .. Len(p)
  BY <1>1
<1> QED
  BY <1>1, <1>2

LEMMA DeletionsOf ==
    ASSUME NEW T \in SUBSET Ids
    PROVE  /\ Deletions(T) \in Seq(Actions)
           /\ \A n \in DOMAIN Deletions(T) : Planned(Deletions(T)[n])
<1>1. IsFiniteSet(T) /\ Cardinality(T) \in Nat /\ ExistsBijection(1 .. Cardinality(T), T)
  BY MemoryConstants, FS_Subset, FS_CardinalityType DEF MemoryConstants
<1>2. PICK f \in [1 .. Cardinality(T) -> T] : IsInjective(f)
  BY <1>1 DEF ExistsBijection, Bijection, Injection
<1>3. SetToSeq(T) \in [1 .. Cardinality(T) -> T]
  BY <1>2 DEF SetToSeq
<1> DEFINE N == Cardinality(T)
           d(n) == [event |-> "DELETE", id |-> SetToSeq(T)[n]]
<1>4. \A n \in 1 .. N : d(n) \in Actions /\ d(n).event = "DELETE" /\ d(n).id \in Ids
  BY <1>3 DEF Actions
<1>5. Deletions(T) = [n \in 1 .. N |-> d(n)]
  BY DEF Deletions
<1> HIDE DEF N, d
<1>6. N \in Nat
  BY <1>1 DEF N
<1>7. Deletions(T) \in Seq(Actions) /\ DOMAIN Deletions(T) = 1 .. N
      /\ \A n \in 1 .. N : Deletions(T)[n] = d(n)
  BY <1>4, <1>5, <1>6
<1> QED
  BY <1>4, <1>7 DEF Planned

\* A step of one thread that changes neither the store nor the log.
LEMMA QuietStep ==
    ASSUME MemoryInv, NEW w \in Writers, NEW r \in WriterStates,
           writer' = [writer EXCEPT ![w] = r], Holding(r),
           writer[w].at \notin {"read", "written", "dropped", "over"},
           r.at \notin {"read", "written", "dropping", "dropped"},
           r.errand = writer[w].errand
             \/ (writer[w].errand # "add" /\ r.errand \in Errands[w] \ {"add"}),
           r.results = writer[w].results,
           UNCHANGED <<stored, logged, failures, unlogged, retracted, doubled>>,
           contested \subseteq contested', contested' \subseteq Ids,
           dynamics' \subseteq Ids, superseded' \subseteq Ids \X Ids
    PROVE  MemoryInv'
<1>0. writer \in [Writers -> WriterStates]
  BY DEF MemoryInv, StoreTyped
<1>1. StoreTyped'
  BY <1>0 DEF MemoryInv, StoreTyped
<1>2. Touching' /\ HistorySound'
  BY QuietHistory
<1>3. KnowledgeSound'
  BY QuietKnowledge
<1>4. r.errand \in Errands[w] \cup {"none"}
  BY DEF MemoryInv
<1> QED
  BY <1>1, <1>2, <1>3, <1>4, OneThread

LEMMA SearchKeeps ==
    ASSUME MemoryInv, NEW w \in Writers, Search(w) PROVE MemoryInv'
<1>0. /\ writer \in [Writers -> WriterStates] /\ writer[w] \in WriterStates /\ Holding(writer[w])
      /\ dynamics \subseteq Ids /\ superseded \subseteq Ids \X Ids /\ contested \subseteq Ids
  BY DEF MemoryInv, StoreTyped
<1>1. PICK near \in SUBSET Present :
        writer' = [writer EXCEPT ![w].at = "searched", ![w].found = near]
  BY DEF Search
<1> DEFINE r == [writer[w] EXCEPT !.at = "searched", !.found = near]
<1>2. writer' = [writer EXCEPT ![w] = r]
  BY <1>0, <1>1
<1>3. /\ r \in WriterStates /\ r.at = "searched" /\ r.errand = writer[w].errand
      /\ r.results = writer[w].results /\ r.plan = writer[w].plan /\ r.doing = writer[w].doing
  BY <1>0 DEF WriterStates, WriterPlaces, Present
<1> HIDE DEF r
<1>4. /\ writer[w].at = "extracted"
      /\ UNCHANGED <<stored, logged, dynamics, superseded, failures, unlogged, contested,
                     retracted, doubled>>
  BY DEF Search, storeVars, ghostVars
<1>5. Holding(r)
  BY <1>0, <1>3, <1>4 DEF Holding, Planned, Reported
<1> QED
  BY <1>0, <1>2, <1>3, <1>4, <1>5, QuietStep

LEMMA DecideKeeps ==
    ASSUME MemoryInv, NEW w \in Writers, Decide(w) PROVE MemoryInv'
<1>0. /\ writer \in [Writers -> WriterStates] /\ writer[w] \in WriterStates /\ Holding(writer[w])
      /\ dynamics \subseteq Ids /\ superseded \subseteq Ids \X Ids /\ contested \subseteq Ids
  BY DEF MemoryInv, StoreTyped
<1> DEFINE A == Answers(writer[w].found)
<1>1. PICK plan \in BoundedSeq(A, MaxPlan) :
        writer' = [writer EXCEPT ![w].at = "acting", ![w].plan = plan]
  BY DEF Decide
<1>2. \A a \in A : a \in Actions /\ Planned(a)
  BY <1>0 DEF Answers, Actions, Planned, WriterStates
<1> HIDE DEF A
<1>3. plan \in Seq(A)
  BY MemoryConstants DEF MemoryConstants, BoundedSeq, SeqOf
<1>4. plan \in Seq(Actions) /\ \A n \in DOMAIN plan : Planned(plan[n])
  BY <1>2, <1>3
<1> DEFINE r == [writer[w] EXCEPT !.at = "acting", !.plan = plan]
<1>5. writer' = [writer EXCEPT ![w] = r]
  BY <1>0, <1>1
<1>6. /\ r \in WriterStates /\ r.at = "acting" /\ r.errand = writer[w].errand
      /\ r.results = writer[w].results /\ r.plan = plan /\ r.doing = writer[w].doing
  BY <1>0, <1>4 DEF WriterStates, WriterPlaces
<1> HIDE DEF r
<1>7. /\ writer[w].at = "searched"
      /\ UNCHANGED <<stored, logged, dynamics, superseded, failures, unlogged, contested,
                     retracted, doubled>>
  BY DEF Decide, storeVars, ghostVars
<1>8. Holding(r)
  BY <1>0, <1>4, <1>6, <1>7 DEF Holding
<1> QED
  BY <1>0, <1>5, <1>6, <1>7, <1>8, QuietStep

TakesUp(w, errand, T) ==
    writer' = [writer EXCEPT ![w].at = "acting", ![w].errand = errand, ![w].plan = Deletions(T)]

LEMMA TakeKeeps ==
    ASSUME MemoryInv, NEW w \in Writers, Take(w) PROVE MemoryInv'
<1>0. /\ writer \in [Writers -> WriterStates] /\ writer[w] \in WriterStates /\ Holding(writer[w])
      /\ dynamics \subseteq Ids /\ superseded \subseteq Ids \X Ids /\ contested \subseteq Ids
  BY DEF MemoryInv, StoreTyped
<1>1. PICK errand \in Errands[w] \ {"add"}, T \in SUBSET Ids : TakesUp(w, errand, T)
  <2>1. Present \in SUBSET Ids /\ \A i \in Present : {i} \in SUBSET Ids
    BY DEF Present
  <2>2. \/ "delete" \in Errands[w] /\ \E i \in Present : TakesUp(w, "delete", {i})
        \/ "clear" \in Errands[w] /\ TakesUp(w, "clear", Present)
    BY Zenon DEF Take, TakesUp
  <2>3. "delete" # "add" /\ "clear" # "add"
    OBVIOUS
  <2> QED
    BY <2>1, <2>2, <2>3
<1>2. /\ errand \in {"delete", "clear"}
      /\ Deletions(T) \in Seq(Actions) /\ \A n \in DOMAIN Deletions(T) : Planned(Deletions(T)[n])
  BY MemoryConstants, DeletionsOf DEF MemoryConstants
<1> DEFINE r == [writer[w] EXCEPT !.at = "acting", !.errand = errand, !.plan = Deletions(T)]
<1>3. writer' = [writer EXCEPT ![w] = r]
  BY <1>0, <1>1 DEF TakesUp
<1>4. /\ r \in WriterStates /\ r.at = "acting" /\ r.errand = errand
      /\ r.results = writer[w].results /\ r.plan = Deletions(T) /\ r.doing = writer[w].doing
  BY <1>0, <1>2 DEF WriterStates, WriterPlaces
<1> HIDE DEF r
<1>5. /\ writer[w].at = "new" /\ writer[w].errand = "none"
      /\ UNCHANGED <<stored, logged, dynamics, superseded, failures, unlogged, contested,
                     retracted, doubled>>
  BY <1>0 DEF Take, storeVars, ghostVars, Holding
<1>6. Holding(r)
  BY <1>0, <1>2, <1>4, <1>5 DEF Holding
<1> QED
  BY <1>0, <1>1, <1>3, <1>4, <1>5, <1>6, QuietStep

LEMMA FinishKeeps ==
    ASSUME MemoryInv, NEW w \in Writers, Finish(w) PROVE MemoryInv'
<1>0. /\ writer \in [Writers -> WriterStates] /\ writer[w] \in WriterStates /\ Holding(writer[w])
      /\ dynamics \subseteq Ids /\ superseded \subseteq Ids \X Ids /\ contested \subseteq Ids
  BY DEF MemoryInv, StoreTyped
<1>1. /\ writer[w].at = "acting" /\ writer[w].errand \in {"add", "delete", "clear"}
      /\ UNCHANGED <<logged, dynamics, superseded, failures, unlogged, doubled>>
  BY <1>0 DEF Finish, WriterStates, Holding
<1>2. CASE writer[w].errand = "add"
  <2> DEFINE at == IF writer[w].results = <<>> THEN "over" ELSE "checking"
             r == [writer[w] EXCEPT !.at = at, !.plan = writer[w].results]
  <2>1. /\ writer' = [writer EXCEPT ![w].at = at, ![w].plan = writer[w].results]
        /\ UNCHANGED <<stored, contested, retracted>>
    BY <1>2 DEF Finish
  <2>2. writer' = [writer EXCEPT ![w] = r]
    BY <1>0, <2>1
  <2>3. at \in {"over", "checking"}
    OBVIOUS
  <2> HIDE DEF at
  <2>4. /\ r \in WriterStates /\ r.at \in {"over", "checking"} /\ r.errand = writer[w].errand
        /\ r.results = writer[w].results /\ r.plan = writer[w].results
    BY <1>0, <2>3 DEF WriterStates, WriterPlaces
  <2> HIDE DEF r
  <2>5. Holding(r)
    BY <1>0, <1>2, <2>4 DEF Holding, Reported
  <2> QED
    BY <1>0, <1>1, <2>1, <2>2, <2>4, <2>5, QuietStep
<1>3. ASSUME writer[w].errand # "add"
      PROVE  /\ writer' = [writer EXCEPT ![w] = [writer[w] EXCEPT !.at = "over"]]
             /\ [writer[w] EXCEPT !.at = "over"] \in WriterStates
             /\ Holding([writer[w] EXCEPT !.at = "over"])
  <2> DEFINE r == [writer[w] EXCEPT !.at = "over"]
  <2>1. writer' = [writer EXCEPT ![w].at = "over"]
    BY <1>1, <1>3 DEF Finish
  <2>2. writer' = [writer EXCEPT ![w] = r]
    BY <1>0, <2>1
  <2>3. /\ r \in WriterStates /\ r.at = "over" /\ r.errand = writer[w].errand
        /\ r.results = writer[w].results
    BY <1>0 DEF WriterStates, WriterPlaces
  <2> HIDE DEF r
  <2>4. Holding(r)
    BY <1>0, <1>1, <2>3 DEF Holding
  <2> QED
    BY <2>2, <2>3, <2>4 DEF r
<1> DEFINE r == [writer[w] EXCEPT !.at = "over"]
<1>4. r.at = "over" /\ r.errand = writer[w].errand /\ r.results = writer[w].results
  BY <1>0 DEF WriterStates
<1>5. CASE writer[w].errand = "delete"
  <2>1. UNCHANGED <<stored, contested, retracted>>
    BY <1>5 DEF Finish
  <2>2. writer' = [writer EXCEPT ![w] = r] /\ r \in WriterStates /\ Holding(r)
    BY <1>3, <1>5
  <2> HIDE DEF r
  <2> QED
    BY <1>0, <1>1, <1>4, <2>1, <2>2, QuietStep
<1>6. CASE writer[w].errand = "clear"
  <2>1. /\ stored' = [i \in Ids |-> IF i \in Present THEN Gone ELSE stored[i]]
        /\ contested' = contested \cup Present
        /\ retracted' = retracted \cup {stored[i] : i \in Present}
    BY <1>6 DEF Finish
  <2>2. writer' = [writer EXCEPT ![w] = r] /\ r \in WriterStates /\ Holding(r)
    BY <1>3, <1>6
  <2> HIDE DEF r
  <2>3. /\ writer'[w] = r /\ \A v \in Writers : v # w => writer'[v] = writer[v]
    BY <1>0, <2>2
  <2>4. StoreTyped'
    BY <1>0, <1>1, <2>1, <2>2 DEF MemoryInv, StoreTyped, Present
  <2>5. /\ \A i \in Ids : Changing(i)' = Changing(i)
        /\ \A v \in Writers, i \in Ids :
             /\ Touches(v, {"written"}, i)' = Touches(v, {"written"}, i)
             /\ Touches(v, {"dropped"}, i)' = Touches(v, {"dropped"}, i)
             /\ Touches(v, {"written", "dropped"}, i)' = Touches(v, {"written", "dropped"}, i)
             /\ Touches(v, {"read", "written", "dropped"}, i)'
                  = Touches(v, {"read", "written", "dropped"}, i)
             /\ Touches(v, {"written"}, i)' => writer'[v].doing = writer[v].doing
    BY <1>1, <1>4, <2>3 DEF Changing, Touches
  <2>6. \A i \in Ids : /\ i \notin Present => stored'[i] = stored[i]
                       /\ stored[i] # Absent => stored'[i] # Absent
    BY <2>1, MemoryConstants DEF MemoryConstants
  <2>7. Touching'
    BY <2>5, <2>6 DEF MemoryInv, Touching
  <2>8. HistorySound'
    BY <1>1, <2>1, <2>5, <2>6 DEF MemoryInv, HistorySound, HistoryOf
  <2>9. /\ \A f \in Kept', i \in Ids : ~(stored[i] \in Facts /\ Similar(stored[i], f))
        /\ Kept' \subseteq Kept /\ Kept \subseteq Facts
    <3>1. \A i \in Ids : stored[i] \in Facts => stored[i] \in retracted'
      BY <2>1 DEF Present
    <3>2. Kept' \subseteq Kept
      BY <1>1, <2>1, KeptBefore
    <3> QED
      BY <3>1, <3>2 DEF Kept, Retracted
  <2>10. \A v \in Writers : Adding(writer[v])' => v # w /\ Adding(writer[v])
    BY <1>4, <1>6, <2>3 DEF Adding
  <2>11. KnowledgeSound'
    <3>1. \A f \in Kept' : ~StoredNow(f)
      BY <2>9 DEF StoredNow
    <3>2. \A f \in Kept' : ~EverStored(f)'
      <4>1. \A f \in Facts : EverStored(f)' => EverStored(f)
        BY <1>4, <1>6, <2>3 DEF EverStored
      <4> QED
        BY <2>9, <3>1, <4>1 DEF MemoryInv, KnowledgeSound
    <3>3. \A u, v \in Writers :
            u # v /\ Adding(writer[u])' /\ Adding(writer[v])' /\ Similar(Told[u], Told[v])
              => Told[u] \in doubled'
      BY <1>1, <2>10 DEF MemoryInv, KnowledgeSound
    <3>4. ASSUME NEW v \in Writers, Adding(writer[v])', Told[v] \in Kept'
          PROVE  /\ ~(writer[v].at = "written" /\ writer[v].doing.event = "ADD")'
                 /\ ~(writer[v].at = "dropping")'
      <4>1. Adding(writer[v]) /\ Told[v] \in Kept /\ writer'[v] = writer[v]
        BY <2>3, <2>9, <2>10, <3>4
      <4>2. ~StoredNow(Told[v]) /\ ~StoredElsewhere(v)
        BY <2>9, <3>1, <3>4 DEF StoredElsewhere
      <4> QED
        BY <4>1, <4>2 DEF MemoryInv, KnowledgeSound
    <3> QED
      BY <3>2, <3>3, <3>4 DEF KnowledgeSound
  <2>12. r.errand \in Errands[w] \cup {"none"}
    BY <1>4 DEF MemoryInv
  <2> QED
    BY <2>2, <2>4, <2>7, <2>8, <2>11, <2>12, OneThread
<1> QED
  BY <1>1, <1>2, <1>5, <1>6

LEMMA CheckKeeps ==
    ASSUME MemoryInv, NEW w \in Writers, Check(w) PROVE MemoryInv'
<1>0. /\ writer \in [Writers -> WriterStates] /\ writer[w] \in WriterStates /\ Holding(writer[w])
      /\ dynamics \subseteq Ids /\ superseded \subseteq Ids \X Ids /\ contested \subseteq Ids
  BY DEF MemoryInv, StoreTyped
<1> DEFINE q == Head(writer[w].plan)
           kept == writer[w].valid \cup {q.id}
           next == [writer[w] EXCEPT !.plan = Tail(writer[w].plan), !.valid = kept]
           drop == [writer[w] EXCEPT !.at = "dropping", !.doing = q]
<1>1. /\ writer[w].at = "checking" /\ writer[w].plan # <<>> /\ writer[w].errand = "add"
      /\ UNCHANGED <<storeVars, ghostVars>>
      /\ UNCHANGED <<stored, logged, dynamics, superseded, failures, unlogged, contested,
                     retracted, doubled>>
  BY <1>0 DEF Check, storeVars, ghostVars, Holding
<1>2. /\ Tail(writer[w].plan) \in Seq(Actions) /\ q \in Actions /\ Reported(q, writer[w])
      /\ \A n \in DOMAIN Tail(writer[w].plan) :
           \E m \in DOMAIN writer[w].plan : Tail(writer[w].plan)[n] = writer[w].plan[m]
  <2>1. writer[w].plan \in Seq(Actions)
    BY <1>0 DEF WriterStates
  <2> QED
    BY <1>0, <1>1, <2>1, RestOfPlan DEF Holding
<1>3. q.id \in Ids
  BY <1>2 DEF Reported
<1>4. \/ writer' = [writer EXCEPT ![w].plan = Tail(writer[w].plan), ![w].valid = kept]
      \/ /\ q.event = "ADD" /\ \E i \in Nearest(w) : Similar(stored[i], Told[w])
         /\ writer' = [writer EXCEPT ![w].at = "dropping", ![w].doing = q]
      \/ \E i \in Nearest(w) :
           writer' = [writer EXCEPT ![w].at = "replacing", ![w].doing = q, ![w].rival = i]
  BY DEF Check
<1>5. CASE writer' = [writer EXCEPT ![w].plan = Tail(writer[w].plan), ![w].valid = kept]
  <2>1. writer' = [writer EXCEPT ![w] = next]
    BY <1>0, <1>5
  <2>2. /\ next \in WriterStates /\ next.at = "checking" /\ next.errand = writer[w].errand
        /\ next.results = writer[w].results /\ next.plan = Tail(writer[w].plan)
    BY <1>0, <1>1, <1>2, <1>3 DEF WriterStates
  <2> HIDE DEF next, q
  <2>3. Holding(next)
    BY <1>0, <1>1, <1>2, <2>2 DEF Holding, Reported
  <2> QED
    BY <1>0, <1>1, <2>1, <2>2, <2>3, QuietStep
<1>6. CASE \E i \in Nearest(w) :
             writer' = [writer EXCEPT ![w].at = "replacing", ![w].doing = q, ![w].rival = i]
  <2>1. PICK i \in Ids : writer' = [writer EXCEPT ![w].at = "replacing", ![w].doing = q,
                                                  ![w].rival = i]
    BY <1>6 DEF Nearest, Others, Present
  <2> DEFINE r == [writer[w] EXCEPT !.at = "replacing", !.doing = q, !.rival = i]
  <2>2. writer' = [writer EXCEPT ![w] = r]
    BY <1>0, <2>1
  <2>3. /\ r \in WriterStates /\ r.at = "replacing" /\ r.errand = writer[w].errand /\ r.rival = i
        /\ r.results = writer[w].results /\ r.plan = writer[w].plan /\ r.doing = q
    BY <1>0, <1>2, <2>1 DEF WriterStates, WriterPlaces
  <2> HIDE DEF r, q
  <2>4. Holding(r)
    BY <1>0, <1>1, <1>2, <2>1, <2>3 DEF Holding, Reported
  <2> QED
    BY <1>0, <1>1, <2>2, <2>3, <2>4, QuietStep
<1>7. CASE /\ q.event = "ADD" /\ \E i \in Nearest(w) : Similar(stored[i], Told[w])
           /\ writer' = [writer EXCEPT ![w].at = "dropping", ![w].doing = q]
  <2>1. writer' = [writer EXCEPT ![w] = drop]
    BY <1>0, <1>7
  <2>2. /\ drop \in WriterStates /\ drop.at = "dropping" /\ drop.errand = writer[w].errand
        /\ drop.results = writer[w].results /\ drop.plan = writer[w].plan /\ drop.doing = q
    BY <1>0, <1>2 DEF WriterStates, WriterPlaces
  <2>10. q.event = "ADD"
    BY <1>7
  <2> HIDE DEF drop, q
  <2>3. Holding(drop)
    BY <1>0, <1>1, <1>2, <2>2, <2>10 DEF Holding, Reported
  <2>4. /\ writer'[w] = drop /\ \A v \in Writers : v # w => writer'[v] = writer[v]
    BY <1>0, <2>1
  <2>5. StoredElsewhere(w)'
    <3>1. \E j \in Ids \ IdsOf(writer[w].results) :
            stored[j] \in Facts /\ Similar(stored[j], Told[w])
      BY <1>7 DEF Nearest, Others, Present
    <3> QED
      BY <1>1, <2>2, <2>4, <3>1 DEF StoredElsewhere, IdsOf
  <2>6. /\ \A v \in Writers : Adding(writer[v])' <=> Adding(writer[v])
        /\ \A i \in Ids : Made(drop, i) => Made(writer[w], i)
        /\ \A f \in Facts : EverStored(f)' => EverStored(f)
        /\ Kept' = Kept /\ Kept \subseteq Facts /\ Adding(writer[w])
    <3>1. \A v \in Writers : Adding(writer[v])' <=> Adding(writer[v])
      BY <1>1, <2>2, <2>4 DEF Adding
    <3>2. \A i \in Ids : Made(drop, i) => Made(writer[w], i)
      BY <1>1, <2>2 DEF Made
    <3>3. \A f \in Facts : EverStored(f)' => EverStored(f)
      BY <1>1, <2>2, <2>4 DEF EverStored
    <3>4. Kept' = Kept /\ Kept \subseteq Facts /\ Adding(writer[w])
      BY <1>1 DEF Kept, Retracted, Adding
    <3> QED
      BY <3>1, <3>2, <3>3, <3>4
  <2>7. KnowledgeSound'
    <3>1. \A f \in Facts : StoredNow(f) => StoredNow(f)'
      BY <1>1, <2>4, <2>6, StaysStored
    <3>2. ASSUME NEW v \in Writers, Adding(writer[v])', Told[v] \in Kept'
          PROVE  /\ (writer[v].at = "written" /\ writer[v].doing.event = "ADD")' =>
                      StoredNow(Told[v])'
                 /\ (writer[v].at = "dropping")' => StoredElsewhere(v)'
      <4>1. CASE v = w
        BY <2>2, <2>4, <2>5, <4>1
      <4>2. CASE v # w
        <5>1. Adding(writer[v]) /\ Told[v] \in Kept /\ Told[v] \in Facts
              /\ writer'[v] = writer[v]
          BY <2>4, <2>6, <3>2, <4>2
        <5>2. /\ writer[v].at = "written" /\ writer[v].doing.event = "ADD" => StoredNow(Told[v])
              /\ writer[v].at = "dropping" => StoredElsewhere(v)
          BY <5>1 DEF MemoryInv, KnowledgeSound
        <5>3. StoredNow(Told[v]) => StoredNow(Told[v])'
          BY <3>1, <5>1
        <5>4. StoredElsewhere(v) => StoredElsewhere(v)'
          BY <1>1, <5>1 DEF StoredElsewhere, IdsOf
        <5> QED
          BY <5>1, <5>2, <5>3, <5>4
      <4> QED
        BY <4>1, <4>2
    <3>3. \A f \in Kept' : EverStored(f)' => StoredNow(f)'
      BY <2>6, <3>1 DEF MemoryInv, KnowledgeSound
    <3>4. \A u, v \in Writers :
            u # v /\ Adding(writer[u])' /\ Adding(writer[v])' /\ Similar(Told[u], Told[v])
              => Told[u] \in doubled'
      BY <1>1, <2>6 DEF MemoryInv, KnowledgeSound
    <3> QED
      BY <3>2, <3>3, <3>4 DEF KnowledgeSound
  <2>8. Touching' /\ HistorySound'
    BY <1>1, <2>1, <2>2, QuietHistory
  <2>9. drop.errand \in Errands[w] \cup {"none"} /\ StoreTyped'
    BY <1>0, <1>1, <2>1, <2>2 DEF MemoryInv, StoreTyped
  <2> QED
    BY <2>1, <2>3, <2>7, <2>8, <2>9, OneThread
<1> QED
  BY <1>4, <1>5, <1>6, <1>7

\* A step that takes the memory it has checked off the thread's list.
LEMMA ReplaceKeeps ==
    ASSUME MemoryInv, NEW w \in Writers, Replace(w) PROVE MemoryInv'
<1>0. /\ writer \in [Writers -> WriterStates] /\ writer[w] \in WriterStates /\ Holding(writer[w])
      /\ dynamics \subseteq Ids /\ superseded \subseteq Ids \X Ids /\ contested \subseteq Ids
  BY DEF MemoryInv, StoreTyped
<1> DEFINE i == writer[w].doing.id
           r == [writer[w] EXCEPT !.at = "checking", !.plan = Tail(writer[w].plan),
                                  !.doing = Nothing,
                                  !.valid = writer[w].valid \cup {i}]
<1>1. /\ writer[w].at = "replacing"
      /\ writer' = [writer EXCEPT ![w].at = "checking", ![w].plan = Tail(writer[w].plan),
                                  ![w].doing = Nothing, ![w].valid = writer[w].valid \cup {i}]
      /\ UNCHANGED <<stored, logged, failures, unlogged, contested, retracted, doubled>>
  BY DEF Replace, ghostVars
<1>2. /\ writer[w].plan # <<>> /\ writer[w].plan \in Seq(Actions)
      /\ i \in Ids /\ writer[w].rival \in Ids
      /\ writer[w].errand = "add"
  BY <1>0, <1>1 DEF Holding, Reported, WriterStates
<1>3. /\ Tail(writer[w].plan) \in Seq(Actions)
      /\ \A n \in DOMAIN Tail(writer[w].plan) :
           \E m \in DOMAIN writer[w].plan : Tail(writer[w].plan)[n] = writer[w].plan[m]
  BY <1>2, RestOfPlan
<1>4. writer' = [writer EXCEPT ![w] = r]
  BY <1>0, <1>1
<1>5. /\ r \in WriterStates /\ r.at = "checking" /\ r.errand = writer[w].errand
      /\ r.results = writer[w].results /\ r.plan = Tail(writer[w].plan)
  BY <1>0, <1>2, <1>3 DEF WriterStates, WriterPlaces
<1>6. superseded' \subseteq Ids \X Ids /\ dynamics' \subseteq Ids
  <2>1. \/ UNCHANGED <<superseded, dynamics>>
        \/ /\ superseded' = superseded \cup {<<writer[w].rival, i>>}
           /\ dynamics' \in {dynamics, dynamics \cup {writer[w].rival}}
    BY DEF Replace
  <2> QED
    BY <1>0, <1>2, <2>1
<1> HIDE DEF r, i
<1>7. Holding(r)
  BY <1>0, <1>1, <1>2, <1>3, <1>5 DEF Holding, Reported
<1> QED
  BY <1>0, <1>1, <1>4, <1>5, <1>6, <1>7, QuietStep

LEMMA CheckedKeeps ==
    ASSUME MemoryInv, NEW w \in Writers, Checked(w) PROVE MemoryInv'
<1>0. /\ writer \in [Writers -> WriterStates] /\ writer[w] \in WriterStates /\ Holding(writer[w])
      /\ dynamics \subseteq Ids /\ superseded \subseteq Ids \X Ids /\ contested \subseteq Ids
  BY DEF MemoryInv, StoreTyped
<1> DEFINE r == [writer[w] EXCEPT !.at = "recording"]
<1>1. /\ writer[w].at = "checking" /\ writer' = [writer EXCEPT ![w].at = "recording"]
      /\ UNCHANGED <<stored, logged, dynamics, superseded, failures, unlogged, contested,
                     retracted, doubled>>
  BY DEF Checked, storeVars, ghostVars
<1>2. writer' = [writer EXCEPT ![w] = r]
  BY <1>0, <1>1
<1>3. /\ r \in WriterStates /\ r.at = "recording" /\ r.errand = writer[w].errand
      /\ r.results = writer[w].results
  BY <1>0 DEF WriterStates, WriterPlaces
<1> HIDE DEF r
<1>4. Holding(r)
  BY <1>0, <1>1, <1>3 DEF Holding
<1> QED
  BY <1>0, <1>1, <1>2, <1>3, <1>4, QuietStep

LEMMA RecordKeeps ==
    ASSUME MemoryInv, NEW w \in Writers, Record(w) PROVE MemoryInv'
<1>0. /\ writer \in [Writers -> WriterStates] /\ writer[w] \in WriterStates /\ Holding(writer[w])
      /\ dynamics \subseteq Ids /\ superseded \subseteq Ids \X Ids /\ contested \subseteq Ids
  BY DEF MemoryInv, StoreTyped
<1> DEFINE r == [writer[w] EXCEPT !.at = "over"]
<1>1. /\ writer[w].at = "recording" /\ writer' = [writer EXCEPT ![w].at = "over"]
      /\ UNCHANGED <<stored, logged, superseded, failures, unlogged, contested, retracted, doubled>>
      /\ \E more \in {writer[w].valid, {}} : dynamics' = dynamics \cup more
  BY DEF Record, ghostVars
<1>2. writer' = [writer EXCEPT ![w] = r]
  BY <1>0, <1>1
<1>3. /\ r \in WriterStates /\ r.at = "over" /\ r.errand = writer[w].errand
      /\ r.results = writer[w].results
  BY <1>0 DEF WriterStates, WriterPlaces
<1>4. dynamics' \subseteq Ids
  BY <1>0, <1>1 DEF WriterStates
<1> HIDE DEF r
<1>5. Holding(r)
  BY <1>0, <1>1, <1>3 DEF Holding
<1> QED
  BY <1>0, <1>1, <1>2, <1>3, <1>4, <1>5, QuietStep

\* Who touches which memory after a step of one thread.
LEMMA TouchesAfter ==
    ASSUME MemoryInv, NEW w \in Writers, NEW r, writer' = [writer EXCEPT ![w] = r]
    PROVE  /\ writer'[w] = r /\ \A v \in Writers : v # w => writer'[v] = writer[v]
           /\ \A i \in Ids, v \in Writers :
                v \in Changing(i)' <=> IF v = w THEN r.at \in {"read", "written"} /\ r.doing.id = i
                                                ELSE v \in Changing(i)
           /\ \A i \in Ids : Changing(i) \subseteq Writers /\ Changing(i)' \subseteq Writers
           /\ \A i \in Ids, v \in Writers \ {w} :
                /\ Touches(v, {"written"}, i)' <=> Touches(v, {"written"}, i)
                /\ Touches(v, {"dropped"}, i)' <=> Touches(v, {"dropped"}, i)
                /\ Touches(v, {"written", "dropped"}, i)' <=> Touches(v, {"written", "dropped"}, i)
                /\ Touches(v, {"read", "written", "dropped"}, i)'
                     <=> Touches(v, {"read", "written", "dropped"}, i)
           /\ \A i \in Ids :
                /\ Touches(w, {"written"}, i)' <=> r.at = "written" /\ r.doing.id = i
                /\ Touches(w, {"dropped"}, i)' <=> r.at = "dropped" /\ r.doing.id = i
                /\ Touches(w, {"written", "dropped"}, i)'
                     <=> r.at \in {"written", "dropped"} /\ r.doing.id = i
                /\ Touches(w, {"read", "written", "dropped"}, i)'
                     <=> r.at \in {"read", "written", "dropped"} /\ r.doing.id = i
<1>1. /\ writer'[w] = r /\ \A v \in Writers : v # w => writer'[v] = writer[v]
  BY DEF MemoryInv, StoreTyped
<1> QED
  BY <1>1 DEF Changing, Touches

\* What is known after a step of one thread at an errand that is not over.
LEMMA KnowledgeAfter ==
    ASSUME MemoryInv, NEW w \in Writers, NEW r, writer' = [writer EXCEPT ![w] = r],
           writer[w].at \notin {"new", "over"}, r.errand = writer[w].errand, r.at # "dropping",
           retracted \subseteq retracted', UNCHANGED doubled,
           \A f \in Kept' : StoredNow(f) => StoredNow(f)',
           \A v \in Writers \ {w} :
             Adding(writer[v]) /\ Told[v] \in Kept' /\ StoredElsewhere(v) => StoredElsewhere(v)',
           Adding(r) /\ Told[w] \in Kept' /\ r.at = "written" /\ r.doing.event = "ADD"
             => StoredNow(Told[w])',
           r.errand = "add" /\ Told[w] \in Kept'
               /\ (\E n \in DOMAIN r.results : r.results[n].event = "ADD") =>
             \/ \E n \in DOMAIN writer[w].results : writer[w].results[n].event = "ADD"
             \/ StoredNow(Told[w])
    PROVE  KnowledgeSound'
<1>1. /\ writer'[w] = r /\ \A v \in Writers : v # w => writer'[v] = writer[v]
  BY TouchesAfter
<1>2. \A v \in Writers : Adding(writer[v])' => Adding(writer[v])
  BY <1>1 DEF Adding
<1>3. Kept' \subseteq Kept /\ Kept \subseteq Facts
  BY KeptBefore DEF Kept
<1>4. \A f \in Kept' : EverStored(f)' => EverStored(f) \/ StoredNow(f)
  BY <1>1 DEF EverStored
<1>5. \A f \in Kept' : EverStored(f)' => StoredNow(f)'
  BY <1>3, <1>4 DEF MemoryInv, KnowledgeSound
<1>6. \A u, v \in Writers :
        u # v /\ Adding(writer[u])' /\ Adding(writer[v])' /\ Similar(Told[u], Told[v])
          => Told[u] \in doubled'
  BY <1>2 DEF MemoryInv, KnowledgeSound
<1>7. ASSUME NEW v \in Writers, Adding(writer[v])', Told[v] \in Kept'
      PROVE  /\ (writer[v].at = "written" /\ writer[v].doing.event = "ADD")' =>
                  StoredNow(Told[v])'
             /\ (writer[v].at = "dropping")' => StoredElsewhere(v)'
  <2>1. CASE v = w
    <3>1. Adding(r)
      BY <1>1, <1>7, <2>1 DEF Adding
    <3> QED
      BY <1>1, <1>7, <2>1, <3>1
  <2>2. CASE v # w
    <3>1. writer'[v] = writer[v] /\ Adding(writer[v]) /\ Told[v] \in Kept
      BY <1>1, <1>2, <1>3, <1>7, <2>2
    <3>2. /\ writer[v].at = "written" /\ writer[v].doing.event = "ADD" => StoredNow(Told[v])
          /\ writer[v].at = "dropping" => StoredElsewhere(v)
      BY <3>1 DEF MemoryInv, KnowledgeSound
    <3>3. StoredNow(Told[v]) => StoredNow(Told[v])'
      BY <1>7
    <3>4. StoredElsewhere(v) => StoredElsewhere(v)'
      BY <1>7, <2>2, <3>1
    <3> QED
      BY <3>1, <3>2, <3>3, <3>4
  <2> QED
    BY <2>1, <2>2
<1> QED
  BY <1>5, <1>6, <1>7 DEF KnowledgeSound

\* ... and does not touch the store.
LEMMA SameKnowledge ==
    ASSUME MemoryInv, NEW w \in Writers, NEW r, writer' = [writer EXCEPT ![w] = r],
           writer[w].at \notin {"new", "over"}, r.errand = writer[w].errand,
           r.at \notin {"written", "dropping"},
           \A n \in DOMAIN r.results :
             r.results[n].event = "ADD" =>
               \/ \E m \in DOMAIN writer[w].results : r.results[n] = writer[w].results[m]
               \/ /\ writer[w].at = "written" /\ writer[w].doing.event = "ADD"
                  /\ r.results[n] = writer[w].doing,
           UNCHANGED <<stored, retracted, doubled>>
    PROVE  KnowledgeSound'
<1>1. /\ writer'[w] = r /\ \A v \in Writers : v # w => writer'[v] = writer[v]
  BY TouchesAfter
<1>2. \A i \in Ids : Adding(r) /\ Made(r, i) => Adding(writer[w]) /\ Made(writer[w], i)
  BY DEF Adding, Made
<1>3. \A f \in Facts : StoredNow(f) => StoredNow(f)'
  BY <1>1, <1>2, StaysStored
<1>4. Kept' = Kept /\ Kept \subseteq Facts
  BY DEF Kept, Retracted
<1>5. \A v \in Writers \ {w} : StoredElsewhere(v) => StoredElsewhere(v)'
  BY <1>1 DEF StoredElsewhere, IdsOf
<1>6. Adding(writer[w]) /\ Told[w] \in Kept /\ writer[w].at = "written"
        /\ writer[w].doing.event = "ADD" => StoredNow(Told[w])
  BY DEF MemoryInv, KnowledgeSound
<1>7. r.errand = "add" /\ Told[w] \in Kept'
          /\ (\E n \in DOMAIN r.results : r.results[n].event = "ADD") =>
        \/ \E n \in DOMAIN writer[w].results : writer[w].results[n].event = "ADD"
        \/ StoredNow(Told[w])
  BY <1>4, <1>6 DEF Adding
<1>8. r.at # "dropping" /\ r.at # "written" /\ retracted \subseteq retracted'
      /\ doubled' = doubled
  OBVIOUS
<1>9. \A f \in Kept' : StoredNow(f) => StoredNow(f)'
  BY <1>3, <1>4
<1> QED
  BY <1>5, <1>7, <1>8, <1>9, KnowledgeAfter

LEMMA BeginKeeps ==
    ASSUME MemoryInv, NEW w \in Writers, Begin(w) PROVE MemoryInv'
<1>0. /\ writer \in [Writers -> WriterStates] /\ writer[w] \in WriterStates /\ Holding(writer[w])
      /\ dynamics \subseteq Ids /\ superseded \subseteq Ids \X Ids /\ contested \subseteq Ids
      /\ stored \in [Ids -> Facts \cup {Absent, Gone}]
  BY DEF MemoryInv, StoreTyped
<1> DEFINE a == Head(writer[w].plan)
           rest == Tail(writer[w].plan)
<1>1. /\ writer[w].at = "acting" /\ writer[w].plan # <<>>
      /\ UNCHANGED <<stored, logged, dynamics, superseded, failures, unlogged, retracted, doubled>>
  BY DEF Begin
<1>2. /\ rest \in Seq(Actions) /\ a \in Actions /\ Planned(a)
      /\ \A n \in DOMAIN rest : Planned(rest[n])
  <2>1. writer[w].plan \in Seq(Actions)
    BY <1>0 DEF WriterStates
  <2> QED
    BY <1>0, <1>1, <2>1, RestOfPlan DEF Holding
<1>3. \/ /\ a.event # "ADD" /\ a.id \notin Present /\ UNCHANGED contested
         /\ writer' = [writer EXCEPT ![w].plan = rest,
                                     ![w].results =
                                         IF a.event = "DELETE" THEN Done(w, a)
                                         ELSE writer[w].results]
      \/ /\ a.event = "ADD" \/ a.id \in Present
         /\ writer' = [writer EXCEPT ![w].at = "read", ![w].plan = rest, ![w].doing = a]
         /\ contested' = contested \cup {i \in {a.id} \cap Ids : Changing(i) # {}}
  BY DEF Begin, Next1
<1>4. CASE /\ a.event # "ADD" /\ a.id \notin Present /\ UNCHANGED contested
           /\ writer' = [writer EXCEPT ![w].plan = rest,
                                       ![w].results =
                                           IF a.event = "DELETE" THEN Done(w, a)
                                           ELSE writer[w].results]
  <2> DEFINE results == IF a.event = "DELETE" THEN Done(w, a) ELSE writer[w].results
             r == [writer[w] EXCEPT !.plan = rest, !.results = results]
  <2>1. writer' = [writer EXCEPT ![w] = r]
    BY <1>0, <1>4
  <2>2. /\ results \in Seq(Actions)
        /\ \A n \in DOMAIN results :
              \/ \E m \in DOMAIN writer[w].results : results[n] = writer[w].results[m]
              \/ results[n] = a
    BY <1>0, <1>2 DEF WriterStates, Done
  <2> HIDE DEF results
  <2>3. /\ r \in WriterStates /\ r.at = "acting" /\ r.errand = writer[w].errand
        /\ r.results = results /\ r.plan = rest /\ r.doing = writer[w].doing
    BY <1>0, <1>1, <1>2, <2>2 DEF WriterStates
  <2>4. a.id \in Ids /\ a.event # "ADD"
    BY <1>2, <1>4 DEF Planned
  <2> HIDE DEF r, a, rest
  <2>5. Holding(r)
    BY <1>0, <1>1, <1>2, <2>2, <2>3, <2>4 DEF Holding
  <2>6. KnowledgeSound'
    BY <1>1, <2>1, <2>2, <2>3, <2>4, SameKnowledge
  <2>7. Touching' /\ HistorySound'
    BY <1>1, <1>4, <2>1, <2>3, QuietHistory
  <2>8. r.errand \in Errands[w] \cup {"none"} /\ StoreTyped'
    BY <1>0, <1>1, <1>4, <2>1, <2>3, ZenonT(40) DEF MemoryInv, StoreTyped
  <2> QED
    BY <2>1, <2>5, <2>6, <2>7, <2>8, OneThread
<1>5. CASE /\ a.event = "ADD" \/ a.id \in Present
           /\ writer' = [writer EXCEPT ![w].at = "read", ![w].plan = rest, ![w].doing = a]
           /\ contested' = contested \cup {i \in {a.id} \cap Ids : Changing(i) # {}}
  <2> DEFINE r == [writer[w] EXCEPT !.at = "read", !.plan = rest, !.doing = a]
  <2>1. writer' = [writer EXCEPT ![w] = r]
    BY <1>0, <1>5
  <2>2. /\ r \in WriterStates /\ r.at = "read" /\ r.errand = writer[w].errand
        /\ r.results = writer[w].results /\ r.plan = rest /\ r.doing = a
    BY <1>0, <1>2 DEF WriterStates, WriterPlaces
  <2>3. a.id \in Ids => a.id \in Present
    BY <1>2, <1>5, MemoryConstants DEF MemoryConstants, Planned
  <2> HIDE DEF r, a, rest
  <2>4. Holding(r)
    BY <1>0, <1>1, <1>2, <2>2 DEF Holding
  <2>5. KnowledgeSound'
    BY <1>1, <2>1, <2>2, SameKnowledge
  <2>6. \A i \in Ids : stored[i] \in Facts => stored[i] # Absent /\ stored[i] # Gone
    BY MemoryConstants DEF MemoryConstants
  <2>7. /\ \A v \in Writers : v # w => writer'[v] = writer[v]
        /\ \A i \in Ids, v \in Writers : v \in Changing(i)'
              <=> IF v = w THEN a.id = i ELSE v \in Changing(i)
        /\ \A i \in Ids : Changing(i) \subseteq Writers /\ Changing(i)' \subseteq Writers
        /\ \A i \in Ids, v \in Writers :
             /\ Touches(v, {"written"}, i)' <=> v # w /\ Touches(v, {"written"}, i)
             /\ Touches(v, {"dropped"}, i)' <=> v # w /\ Touches(v, {"dropped"}, i)
             /\ Touches(v, {"written", "dropped"}, i)'
                  <=> v # w /\ Touches(v, {"written", "dropped"}, i)
             /\ Touches(v, {"read", "written", "dropped"}, i)'
                  <=> IF v = w THEN a.id = i ELSE Touches(v, {"read", "written", "dropped"}, i)
    BY <2>1, <2>2, TouchesAfter
  <2>8. /\ w \notin UNION {Changing(i) : i \in Ids}
        /\ \A i \in Ids : ~Touches(w, {"written", "dropped"}, i)
    BY <1>1 DEF Changing, Touches
  <2>9. Touching'
    BY <1>1, <2>3, <2>6, <2>7 DEF MemoryInv, Touching, Present
  <2>10. HistorySound'
    <3>1. SUFFICES ASSUME NEW i \in Ids \ contested' PROVE HistoryOf(i)'
      BY DEF HistorySound
    <3>2. i \in Ids \ contested /\ (a.id = i => Changing(i) = {} /\ stored[i] # Gone)
      BY <1>5, <2>3, <2>6 DEF Present
    <3>3. /\ \A v, u \in Changing(i) : v = u
          /\ \A v \in Writers :
               /\ Touches(v, {"written"}, i) =>
                    stored[i] = IF writer[v].doing.event = "DELETE" THEN Gone ELSE Told[v]
               /\ Touches(v, {"dropped"}, i) => stored[i] = Gone /\ Changing(i) = {}
          /\ i \in unlogged \/ (\E v \in Writers : Touches(v, {"written", "dropped"}, i))
               \/ logged[i] = stored[i]
      BY <3>2 DEF MemoryInv, HistorySound, HistoryOf
    <3>4. \A v, u \in Changing(i)' : v = u
      BY <2>7, <3>2, <3>3
    <3>5. \A v \in Writers :
            /\ Touches(v, {"written"}, i)' =>
                 stored'[i] = IF writer'[v].doing.event = "DELETE" THEN Gone ELSE Told[v]
            /\ Touches(v, {"dropped"}, i)' => stored'[i] = Gone /\ Changing(i)' = {}
      BY <1>1, <2>7, <3>2, <3>3
    <3>6. i \in unlogged' \/ (\E v \in Writers : Touches(v, {"written", "dropped"}, i)')
            \/ logged'[i] = stored'[i]
      BY <1>1, <2>7, <2>8, <3>3
    <3> QED
      BY <3>4, <3>5, <3>6 DEF HistoryOf
  <2>11. r.errand \in Errands[w] \cup {"none"} /\ StoreTyped'
    <3>1. contested' \subseteq Ids
      BY <1>0, <1>5
    <3> QED
      BY <1>0, <1>1, <2>1, <2>2, <3>1 DEF MemoryInv, StoreTyped
  <2> QED
    BY <2>1, <2>4, <2>5, <2>9, <2>10, <2>11, OneThread
<1> QED
  BY <1>3, <1>4, <1>5

Below == {ij \in Nat \X Nat : ij[1] < ij[2]}

LEMMA LeastId ==
    ASSUME NEW T \in SUBSET Ids, T # {}
    PROVE  \E i \in T : \A j \in T : i <= j
<1>1. IsWellFoundedOn(Below, Nat) /\ T \in SUBSET Nat
  BY NatLessThanWellFounded, MemoryConstants DEF OpToRel, Below, MemoryConstants
<1>2. PICK i \in T : \A j \in T : ~(<<j, i>> \in Below)
  BY <1>1, WFMin
<1>3. ASSUME NEW j \in T PROVE i <= j
  <2>1. j \in Nat /\ i \in Nat /\ ~(j < i)
    BY <1>1, <1>2 DEF Below
  <2> QED
    BY <2>1
<1> QED
  BY <1>3

LEMMA FreshIsAbsent ==
    ASSUME \E i \in Ids : stored[i] = Absent
    PROVE  Fresh \in Ids /\ stored[Fresh] = Absent
<1>1. \E i \in {j \in Ids : stored[j] = Absent} :
         \A j \in {k \in Ids : stored[k] = Absent} : i <= j
  BY LeastId
<1>2. \E i \in Ids : stored[i] = Absent /\ \A j \in Ids : stored[j] = Absent => i <= j
  BY <1>1
<1> QED
  BY <1>2 DEF Fresh

LEMMA WriteKeeps ==
    ASSUME MemoryInv, NEW w \in Writers, Write(w) PROVE MemoryInv'
<1>0. /\ writer \in [Writers -> WriterStates] /\ writer[w] \in WriterStates /\ Holding(writer[w])
      /\ logged \in [Ids -> Facts \cup {Absent, Gone}] /\ failures \in 0 .. MaxFailures
      /\ stored \in [Ids -> Facts \cup {Absent, Gone}] /\ Told[w] \in Facts
      /\ contested \subseteq Ids /\ unlogged \subseteq Ids /\ retracted \subseteq Facts
      /\ Absent \notin Facts /\ Gone \notin Facts /\ Absent # Gone
  BY MemoryConstants DEF MemoryInv, StoreTyped, MemoryConstants
<1> DEFINE a == writer[w].doing
           id == IF a.event = "ADD" THEN Fresh ELSE a.id
           b == [a EXCEPT !.id = id]
           new == IF a.event = "DELETE" THEN Gone ELSE Told[w]
           r == [writer[w] EXCEPT !.at = "written", !.doing = b]
<1>1. /\ writer[w].at = "read" /\ a \in Actions /\ Planned(a)
      /\ a.event = "ADD" => \E i \in Ids : stored[i] = Absent
      /\ stored' = [stored EXCEPT ![id] = new]
      /\ retracted' = retracted \cup ({stored[id]} \ {Absent, Gone, stored'[id]})
      /\ writer' = [writer EXCEPT ![w].at = "written", ![w].doing = b]
      /\ UNCHANGED <<logged, dynamics, superseded, failures, unlogged, contested, doubled>>
  BY <1>0 DEF Write, Holding
<1>2. /\ id \in Ids /\ (a.event = "ADD" => stored[id] = Absent)
      /\ a.event # "ADD" => a.id = id
  BY <1>1, FreshIsAbsent DEF Planned
<1>3. b \in Actions /\ b.event = a.event /\ b.id = id
  BY <1>1, <1>2 DEF Actions
<1>4. writer' = [writer EXCEPT ![w] = r]
  BY <1>0, <1>1
<1>5. /\ r \in WriterStates /\ r.at = "written" /\ r.errand = writer[w].errand
      /\ r.results = writer[w].results /\ r.plan = writer[w].plan /\ r.doing = b
  BY <1>0, <1>3 DEF WriterStates, WriterPlaces
<1>6. /\ new \in Facts \cup {Gone} /\ new # Absent /\ stored'[id] = new
      /\ \A j \in Ids : j # id => stored'[j] = stored[j]
  BY <1>0, <1>1, <1>2
<1>7. a.event = "DELETE" => new = Gone
  OBVIOUS
<1>8. a.event # "DELETE" => new = Told[w]
  OBVIOUS
<1>9. \A i \in Ids : (w \in Changing(i) <=> a.id = i)
                     /\ ~Touches(w, {"written"}, i) /\ ~Touches(w, {"dropped"}, i)
                     /\ ~Touches(w, {"written", "dropped"}, i)
                     /\ (Touches(w, {"read", "written", "dropped"}, i) <=> a.id = i)
  BY <1>1 DEF Changing, Touches
<1> HIDE DEF r, b, new, id, a
<1>10. Holding(r)
  BY <1>0, <1>1, <1>2, <1>3, <1>5 DEF Holding
<1>11. r.errand \in Errands[w] \cup {"none"} /\ StoreTyped'
  <2>1. retracted' \subseteq Facts
    BY <1>0, <1>1, <1>2
  <2>2. stored' \in [Ids -> Facts \cup {Absent, Gone}]
    BY <1>0, <1>1, <1>6
  <2>3. writer' \in [Writers -> WriterStates] /\ r.errand \in Errands[w] \cup {"none"}
    BY <1>0, <1>4, <1>5 DEF MemoryInv
  <2> QED
    BY <1>0, <1>1, <2>1, <2>2, <2>3 DEF MemoryInv, StoreTyped
<1>12. \A f \in Kept', j \in Ids :
          stored[j] \in Facts /\ Similar(stored[j], f) => stored'[j] = stored[j]
  <2>1. ASSUME NEW f \in Kept', stored[id] \in Facts, Similar(stored[id], f), new # stored[id]
        PROVE  FALSE
    <3>1. stored[id] \in retracted'
      BY <1>0, <1>1, <1>6, <2>1
    <3> QED
      BY <2>1, <3>1 DEF Kept, Retracted
  <2> QED
    BY <1>6, <2>1
<1>13. KnowledgeSound'
  <2>1. retracted \subseteq retracted' /\ doubled' = doubled /\ Kept' \subseteq Facts
        /\ Kept' \subseteq Facts \ doubled
    BY <1>1 DEF Kept
  <2>2. /\ writer'[w] = r /\ \A v \in Writers : v # w => writer'[v] = writer[v]
    BY <1>4, TouchesAfter
  <2>3. \A i \in Ids : Adding(r) /\ Made(r, i) /\ stored[i] \in Facts =>
                       Adding(writer[w]) /\ Made(writer[w], i)
    BY <1>0, <1>1, <1>2, <1>3, <1>5 DEF Adding, Made
  <2>4. \A f \in Kept' : StoredNow(f) => StoredNow(f)'
    BY <1>12, <2>1, <2>2, <2>3, StaysStored
  <2>5. \A v \in Writers \ {w} :
          Adding(writer[v]) /\ Told[v] \in Kept' /\ StoredElsewhere(v) => StoredElsewhere(v)'
    BY <1>12, <2>2 DEF StoredElsewhere, IdsOf
  <2>6. ASSUME Adding(r), Told[w] \in Kept', r.doing.event = "ADD"
        PROVE  StoredNow(Told[w])'
    <3>1. stored'[id] = Told[w] /\ id \in Ids
      BY <1>2, <1>3, <1>5, <1>6, <1>8, <2>6
    <3>2. Adding(writer[w])
      BY <1>1, <1>5, <2>6 DEF Adding
    <3>3. \A v \in Writers : Adding(writer[v])' => v = w \/ Adding(writer[v])
      BY <2>2 DEF Adding
    <3>4. \A v \in Writers : Adding(writer[v])' /\ Similar(Told[v], Told[w]) => v = w
      BY <2>1, <2>6, <3>2, <3>3, SimilarFacts DEF MemoryInv, KnowledgeSound
    <3> QED
      BY <3>1, <3>4, SimilarFacts DEF StoredNow
  <2>7. /\ writer[w].at \notin {"new", "over"} /\ r.errand = writer[w].errand /\ r.at # "dropping"
        /\ r.errand = "add" /\ Told[w] \in Kept'
             /\ (\E n \in DOMAIN r.results : r.results[n].event = "ADD") =>
           \/ \E n \in DOMAIN writer[w].results : writer[w].results[n].event = "ADD"
           \/ StoredNow(Told[w])
    BY <1>1, <1>5
  <2>8. Adding(r) /\ Told[w] \in Kept' /\ r.at = "written" /\ r.doing.event = "ADD"
          => StoredNow(Told[w])'
    BY <2>6
  <2> QED
    BY <1>4, <2>1, <2>4, <2>5, <2>7, <2>8, KnowledgeAfter
<1>14. /\ \A v \in Writers : v # w => writer'[v] = writer[v]
       /\ writer'[w] = r
       /\ \A i \in Ids, v \in Writers : v \in Changing(i)'
             <=> IF v = w THEN id = i ELSE v \in Changing(i)
       /\ \A i \in Ids : Changing(i) \subseteq Writers /\ Changing(i)' \subseteq Writers
       /\ \A i \in Ids, v \in Writers :
            /\ Touches(v, {"written"}, i)' <=> IF v = w THEN id = i ELSE Touches(v, {"written"}, i)
            /\ Touches(v, {"dropped"}, i)' <=> v # w /\ Touches(v, {"dropped"}, i)
            /\ Touches(v, {"written", "dropped"}, i)'
                 <=> IF v = w THEN id = i ELSE Touches(v, {"written", "dropped"}, i)
            /\ Touches(v, {"read", "written", "dropped"}, i)'
                 <=> IF v = w THEN id = i ELSE Touches(v, {"read", "written", "dropped"}, i)
  <2>1. r.at = "written" /\ r.doing.id = id
    BY <1>3, <1>5
  <2>2. /\ writer'[w] = r /\ \A v \in Writers : v # w => writer'[v] = writer[v]
        /\ \A i \in Ids : Changing(i) \subseteq Writers /\ Changing(i)' \subseteq Writers
    BY <1>4, TouchesAfter
  <2>3. \A i \in Ids, v \in Writers : v \in Changing(i)'
             <=> IF v = w THEN id = i ELSE v \in Changing(i)
    BY <2>1, <2>2 DEF Changing
  <2>4. \A i \in Ids, v \in Writers :
          /\ Touches(v, {"written"}, i)' <=> IF v = w THEN id = i ELSE Touches(v, {"written"}, i)
          /\ Touches(v, {"dropped"}, i)' <=> v # w /\ Touches(v, {"dropped"}, i)
          /\ Touches(v, {"written", "dropped"}, i)'
               <=> IF v = w THEN id = i ELSE Touches(v, {"written", "dropped"}, i)
          /\ Touches(v, {"read", "written", "dropped"}, i)'
               <=> IF v = w THEN id = i ELSE Touches(v, {"read", "written", "dropped"}, i)
    BY <2>1, <2>2 DEF Touches
  <2> QED
    BY <2>2, <2>3, <2>4
<1>15. \A i \in Ids : i = id => \A v \in Writers : v # w /\ v \in Changing(i) => i \in contested
  <2>1. \A i \in Ids, v \in Writers : v \in Changing(i) => stored[i] # Absent
    BY DEF MemoryInv, Touching, Touches, Changing
  <2>2. \A i \in Ids : w \in Changing(i) /\ i \notin contested => \A v \in Changing(i) : v = w
    BY DEF MemoryInv, HistorySound, HistoryOf
  <2> QED
    BY <1>2, <1>9, <2>1, <2>2
<1>16. \A v \in Writers : Touches(v, {"dropped"}, id) => id \in contested
  <2>1. \A v \in Writers : Touches(v, {"dropped"}, id) => stored[id] # Absent
    BY <1>2 DEF MemoryInv, Touching, Touches
  <2>2. \A v \in Writers : Touches(v, {"dropped"}, id) /\ id \notin contested => Changing(id) = {}
    BY <1>2 DEF MemoryInv, HistorySound, HistoryOf
  <2> QED
    BY <1>2, <1>9, <2>1, <2>2
<1>17. Touching'
  BY <1>6, <1>14 DEF MemoryInv, Touching
<1>18. HistorySound'
  <2>1. SUFFICES ASSUME NEW i \in Ids \ contested' PROVE HistoryOf(i)'
    BY DEF HistorySound
  <2>2. i \in Ids \ contested
    BY <1>1
  <2>3. /\ \A v, u \in Changing(i) : v = u
        /\ \A v \in Writers :
             /\ Touches(v, {"written"}, i) =>
                  stored[i] = IF writer[v].doing.event = "DELETE" THEN Gone ELSE Told[v]
             /\ Touches(v, {"dropped"}, i) => stored[i] = Gone /\ Changing(i) = {}
        /\ i \in unlogged \/ (\E v \in Writers : Touches(v, {"written", "dropped"}, i))
             \/ logged[i] = stored[i]
    BY <2>2 DEF MemoryInv, HistorySound, HistoryOf
  <2>4. \A v \in Writers : Touches(v, {"written"}, i) => v \in Changing(i)
    BY DEF Touches, Changing
  <2>5. CASE i = id
    <3>1. \A v \in Writers : v \in Changing(i)' <=> v = w
      BY <1>14, <1>15, <2>2, <2>5
    <3>2. Touches(w, {"written", "dropped"}, i)' /\ stored'[i] = new
      BY <1>6, <1>14, <2>5
    <3>3. \A v \in Writers : /\ Touches(v, {"written"}, i)' => v = w
                             /\ ~Touches(v, {"dropped"}, i)'
      BY <1>14, <1>15, <1>16, <2>2, <2>4, <2>5
    <3>4. new = IF writer'[w].doing.event = "DELETE" THEN Gone ELSE Told[w]
      BY <1>3, <1>5, <1>7, <1>8, <1>14
    <3> QED
      BY <1>14, <3>1, <3>2, <3>3, <3>4 DEF HistoryOf
  <2>6. CASE i # id
    <3>1. stored'[i] = stored[i] /\ logged' = logged /\ unlogged' = unlogged
      BY <1>1, <1>6, <2>6
    <3>2. \A v \in Changing(i)' : v \in Changing(i) /\ v # w
      BY <1>14, <2>6
    <3>3. \A v \in Writers : /\ Touches(v, {"written"}, i)' => Touches(v, {"written"}, i) /\ v # w
                             /\ Touches(v, {"dropped"}, i)' => Touches(v, {"dropped"}, i)
                             /\ Touches(v, {"written", "dropped"}, i)
                                  => Touches(v, {"written", "dropped"}, i)'
      BY <1>9, <1>14, <2>6
    <3>4. \A v \in Writers : Touches(v, {"written"}, i)' =>
            stored'[i] = IF writer'[v].doing.event = "DELETE" THEN Gone ELSE Told[v]
      BY <1>14, <2>3, <3>1, <3>3
    <3>5. \A v \in Writers : Touches(v, {"dropped"}, i)' => stored'[i] = Gone /\ Changing(i)' = {}
      BY <2>3, <3>1, <3>2, <3>3
    <3> QED
      BY <2>3, <3>1, <3>2, <3>3, <3>4, <3>5 DEF HistoryOf
  <2> QED
    BY <2>5, <2>6
<1> QED
  BY <1>4, <1>10, <1>11, <1>13, <1>17, <1>18, OneThread

\* A thread that has changed a memory and lets go of it, once its log entry says
\* what the store holds or is known to have failed.
LEMMA LetsGo ==
    ASSUME MemoryInv, NEW w \in Writers, NEW r, writer' = [writer EXCEPT ![w] = r],
           writer[w].at \in {"written", "dropped"}, r.at \notin {"read", "written", "dropped"},
           NEW i \in Ids, i = writer[w].doing.id,
           UNCHANGED <<stored, contested>>, unlogged \subseteq unlogged',
           \A j \in Ids : j # i => logged'[j] = logged[j],
           i \in contested \cup unlogged' \/ logged'[i] = stored[i]
    PROVE  Touching' /\ HistorySound'
<1>1. /\ writer'[w] = r /\ \A v \in Writers : v # w => writer'[v] = writer[v]
      /\ \A j \in Ids : Changing(j) \subseteq Writers /\ Changing(j)' \subseteq Writers
  BY TouchesAfter
<1>2. \A j \in Ids, v \in Writers : v \in Changing(j)' <=> v # w /\ v \in Changing(j)
  BY <1>1 DEF Changing
<1>3. \A j \in Ids, v \in Writers :
        /\ Touches(v, {"written"}, j)' <=> v # w /\ Touches(v, {"written"}, j)
        /\ Touches(v, {"dropped"}, j)' <=> v # w /\ Touches(v, {"dropped"}, j)
        /\ Touches(v, {"written", "dropped"}, j)' <=> v # w /\ Touches(v, {"written", "dropped"}, j)
        /\ Touches(v, {"read", "written", "dropped"}, j)'
             <=> v # w /\ Touches(v, {"read", "written", "dropped"}, j)
        /\ Touches(w, {"written", "dropped"}, j) => j = i
  BY <1>1 DEF Touches
<1>4. Touching'
  BY <1>3 DEF MemoryInv, Touching
<1>5. HistorySound'
  <2>1. SUFFICES ASSUME NEW j \in Ids \ contested' PROVE HistoryOf(j)'
    BY DEF HistorySound
  <2>2. j \in Ids \ contested
    OBVIOUS
  <2>3. /\ \A v, u \in Changing(j) : v = u
        /\ \A v \in Writers :
             /\ Touches(v, {"written"}, j) =>
                  stored[j] = IF writer[v].doing.event = "DELETE" THEN Gone ELSE Told[v]
             /\ Touches(v, {"dropped"}, j) => stored[j] = Gone /\ Changing(j) = {}
        /\ j \in unlogged \/ (\E v \in Writers : Touches(v, {"written", "dropped"}, j))
             \/ logged[j] = stored[j]
    BY <2>2 DEF MemoryInv, HistorySound, HistoryOf
  <2>4. \A v, u \in Changing(j)' : v = u
    BY <1>1, <1>2, <2>3
  <2>5. \A v \in Writers :
          /\ Touches(v, {"written"}, j)' =>
               stored'[j] = IF writer'[v].doing.event = "DELETE" THEN Gone ELSE Told[v]
          /\ Touches(v, {"dropped"}, j)' => stored'[j] = Gone /\ Changing(j)' = {}
    BY <1>1, <1>2, <1>3, <2>3
  <2>6. j \in unlogged' \/ (\E v \in Writers : Touches(v, {"written", "dropped"}, j)')
          \/ logged'[j] = stored'[j]
    <3>1. CASE j = i
      BY <2>2, <3>1
    <3>2. CASE j # i
      BY <1>3, <2>3, <3>2
    <3> QED
      BY <3>1, <3>2
  <2> QED
    BY <2>4, <2>5, <2>6 DEF HistoryOf
<1> QED
  BY <1>4, <1>5

\* What the store holds of a memory that one thread has changed.
LEMMA ChangedByOne ==
    ASSUME MemoryInv, NEW w \in Writers, NEW i \in Ids \ contested, writer[w].doing.id = i
    PROVE  /\ writer[w].at = "written" =>
                stored[i] = IF writer[w].doing.event = "DELETE" THEN Gone ELSE Told[w]
           /\ writer[w].at = "dropped" => stored[i] = Gone
BY DEF MemoryInv, HistorySound, HistoryOf, Touches

LEMMA LogKeeps ==
    ASSUME MemoryInv, NEW w \in Writers, Log(w) PROVE MemoryInv'
<1>0. /\ writer \in [Writers -> WriterStates] /\ writer[w] \in WriterStates /\ Holding(writer[w])
      /\ logged \in [Ids -> Facts \cup {Absent, Gone}] /\ failures \in 0 .. MaxFailures
      /\ stored \in [Ids -> Facts \cup {Absent, Gone}] /\ Told[w] \in Facts
      /\ contested \subseteq Ids /\ unlogged \subseteq Ids /\ retracted \subseteq Facts
      /\ Absent \notin Facts /\ Gone \notin Facts /\ Absent # Gone
  BY MemoryConstants DEF MemoryInv, StoreTyped, MemoryConstants
<1> DEFINE a == writer[w].doing
           i == a.id
           new == IF a.event = "DELETE" THEN Gone ELSE Told[w]
           r == [writer[w] EXCEPT !.at = "acting", !.doing = Nothing,
                                  !.results = Append(writer[w].results, a)]
<1>1. /\ writer[w].at = "written" /\ a \in Actions /\ i \in Ids
      /\ logged' = [logged EXCEPT ![i] = new]
      /\ writer' = [writer EXCEPT ![w].at = "acting", ![w].doing = Nothing,
                                  ![w].results = Append(writer[w].results, a)]
      /\ UNCHANGED <<stored, dynamics, superseded, failures, unlogged, contested, retracted,
                     doubled>>
  BY <1>0 DEF Log, Done, Holding, ghostVars
<1>2. writer' = [writer EXCEPT ![w] = r]
  BY <1>0, <1>1
<1>3. /\ Append(writer[w].results, a) \in Seq(Actions)
      /\ \A n \in DOMAIN Append(writer[w].results, a) :
           \/ \E m \in DOMAIN writer[w].results :
                Append(writer[w].results, a)[n] = writer[w].results[m]
           \/ Append(writer[w].results, a)[n] = a
  BY <1>0, <1>1 DEF WriterStates
<1>4. /\ r \in WriterStates /\ r.at = "acting" /\ r.errand = writer[w].errand
      /\ r.results = Append(writer[w].results, a) /\ r.plan = writer[w].plan
  BY <1>0, <1>3 DEF WriterStates, WriterPlaces
<1>5. new \in Facts \cup {Gone}
  BY <1>0
<1>6. i \notin contested => stored[i] = new
  BY <1>1, ChangedByOne
<1> HIDE DEF r, new
<1>7. Holding(r)
  BY <1>0, <1>1, <1>3, <1>4 DEF Holding
<1>8. r.errand \in Errands[w] \cup {"none"} /\ StoreTyped'
  <2>1. writer' \in [Writers -> WriterStates] /\ r.errand \in Errands[w] \cup {"none"}
    BY <1>0, <1>2, <1>4 DEF MemoryInv
  <2>2. logged' \in [Ids -> Facts \cup {Absent, Gone}]
    BY <1>0, <1>1, <1>5
  <2> QED
    BY <1>0, <1>1, <2>1, <2>2 DEF MemoryInv, StoreTyped
<1>9. Touching' /\ HistorySound'
  <2>1. /\ \A j \in Ids : j # i => logged'[j] = logged[j]
        /\ i \in contested \cup unlogged' \/ logged'[i] = stored[i]
        /\ UNCHANGED <<stored, contested>> /\ unlogged \subseteq unlogged'
    BY <1>0, <1>1, <1>5, <1>6
  <2> QED
    BY <1>1, <1>2, <1>4, <2>1, LetsGo, ZenonT(40)
<1>10. KnowledgeSound'
  <2>1. \A n \in DOMAIN r.results :
          r.results[n].event = "ADD" =>
            \/ \E m \in DOMAIN writer[w].results : r.results[n] = writer[w].results[m]
            \/ /\ writer[w].at = "written" /\ writer[w].doing.event = "ADD"
               /\ r.results[n] = writer[w].doing
    BY <1>1, <1>3, <1>4
  <2> QED
    BY <1>1, <1>2, <1>4, <2>1, SameKnowledge
<1> QED
  BY <1>2, <1>7, <1>8, <1>9, <1>10, OneThread

LEMMA LogFailsKeeps ==
    ASSUME MemoryInv, NEW w \in Writers, LogFails(w) PROVE MemoryInv'
<1>0. /\ writer \in [Writers -> WriterStates] /\ writer[w] \in WriterStates /\ Holding(writer[w])
      /\ logged \in [Ids -> Facts \cup {Absent, Gone}] /\ failures \in 0 .. MaxFailures
      /\ stored \in [Ids -> Facts \cup {Absent, Gone}] /\ Told[w] \in Facts
      /\ contested \subseteq Ids /\ unlogged \subseteq Ids /\ retracted \subseteq Facts
      /\ Absent \notin Facts /\ Gone \notin Facts /\ Absent # Gone
  BY MemoryConstants DEF MemoryInv, StoreTyped, MemoryConstants
<1> DEFINE i == writer[w].doing.id
           at == IF writer[w].errand = "add" THEN "acting" ELSE "over"
           r == [writer[w] EXCEPT !.at = at, !.doing = Nothing]
<1>1. /\ writer[w].at = "written" /\ i \in Ids /\ failures < MaxFailures
      /\ failures' = failures + 1 /\ unlogged' = unlogged \cup {i}
      /\ writer' = [writer EXCEPT ![w].at = at, ![w].doing = Nothing]
      /\ UNCHANGED <<stored, logged, dynamics, superseded, contested, retracted, doubled>>
  BY <1>0 DEF LogFails, Holding
<1>2. writer' = [writer EXCEPT ![w] = r]
  BY <1>0, <1>1
<1>3. at \in {"acting", "over"}
  OBVIOUS
<1> HIDE DEF at
<1>4. /\ r \in WriterStates /\ r.at = at /\ r.errand = writer[w].errand
      /\ r.results = writer[w].results /\ r.plan = writer[w].plan
  BY <1>0, <1>3 DEF WriterStates, WriterPlaces
<1> HIDE DEF r
<1>5. Holding(r)
  BY <1>0, <1>1, <1>3, <1>4 DEF Holding
<1>6. r.errand \in Errands[w] \cup {"none"} /\ StoreTyped'
  <2>1. writer' \in [Writers -> WriterStates] /\ r.errand \in Errands[w] \cup {"none"}
    BY <1>0, <1>2, <1>4 DEF MemoryInv
  <2>2. failures' \in 0 .. MaxFailures
    BY <1>0, <1>1, MemoryConstants DEF MemoryConstants
  <2> QED
    BY <1>0, <1>1, <2>1, <2>2 DEF MemoryInv, StoreTyped
<1>7. Touching' /\ HistorySound'
  BY <1>1, <1>2, <1>3, <1>4, LetsGo
<1>8. KnowledgeSound'
  BY <1>1, <1>2, <1>3, <1>4, SameKnowledge
<1> QED
  BY <1>2, <1>5, <1>6, <1>7, <1>8, OneThread

LEMMA LogDropKeeps ==
    ASSUME MemoryInv, NEW w \in Writers, LogDrop(w) PROVE MemoryInv'
<1>0. /\ writer \in [Writers -> WriterStates] /\ writer[w] \in WriterStates /\ Holding(writer[w])
      /\ logged \in [Ids -> Facts \cup {Absent, Gone}] /\ failures \in 0 .. MaxFailures
      /\ stored \in [Ids -> Facts \cup {Absent, Gone}] /\ Told[w] \in Facts
      /\ contested \subseteq Ids /\ unlogged \subseteq Ids /\ retracted \subseteq Facts
      /\ Absent \notin Facts /\ Gone \notin Facts /\ Absent # Gone
  BY MemoryConstants DEF MemoryInv, StoreTyped, MemoryConstants
<1> DEFINE i == writer[w].doing.id
           r == [writer[w] EXCEPT !.at = "checking", !.plan = Tail(writer[w].plan),
                                  !.doing = Nothing]
<1>1. /\ writer[w].at = "dropped" /\ i \in Ids /\ writer[w].plan # <<>> /\ writer[w].errand = "add"
      /\ writer' = [writer EXCEPT ![w].at = "checking", ![w].plan = Tail(writer[w].plan),
                                  ![w].doing = Nothing]
      /\ UNCHANGED <<stored, dynamics, superseded, contested, retracted, doubled>>
  BY <1>0 DEF LogDrop, Holding, Reported
<1>2. \/ logged' = [logged EXCEPT ![i] = Gone] /\ UNCHANGED <<failures, unlogged>>
      \/ /\ failures < MaxFailures /\ failures' = failures + 1
         /\ unlogged' = unlogged \cup {i} /\ UNCHANGED logged
  BY DEF LogDrop
<1>3. writer' = [writer EXCEPT ![w] = r]
  BY <1>0, <1>1
<1>4. /\ Tail(writer[w].plan) \in Seq(Actions)
      /\ \A n \in DOMAIN Tail(writer[w].plan) :
           \E m \in DOMAIN writer[w].plan : Tail(writer[w].plan)[n] = writer[w].plan[m]
  <2>1. writer[w].plan \in Seq(Actions)
    BY <1>0 DEF WriterStates
  <2> QED
    BY <1>1, <2>1, RestOfPlan
<1>5. /\ r \in WriterStates /\ r.at = "checking" /\ r.errand = writer[w].errand
      /\ r.results = writer[w].results /\ r.plan = Tail(writer[w].plan)
  BY <1>0, <1>4 DEF WriterStates, WriterPlaces
<1>6. i \notin contested => stored[i] = Gone
  BY <1>1, ChangedByOne
<1> HIDE DEF r
<1>7. Holding(r)
  BY <1>0, <1>1, <1>4, <1>5 DEF Holding, Reported
<1>8. r.errand \in Errands[w] \cup {"none"} /\ StoreTyped'
  <2>1. writer' \in [Writers -> WriterStates] /\ r.errand \in Errands[w] \cup {"none"}
    BY <1>0, <1>3, <1>5 DEF MemoryInv
  <2>2. failures' \in 0 .. MaxFailures
    BY <1>0, <1>2, MemoryConstants DEF MemoryConstants
  <2>3. logged' \in [Ids -> Facts \cup {Absent, Gone}] /\ unlogged' \subseteq Ids
    BY <1>0, <1>1, <1>2
  <2> QED
    BY <1>0, <1>1, <2>1, <2>2, <2>3 DEF MemoryInv, StoreTyped
<1>9. Touching' /\ HistorySound'
  <2>1. /\ \A j \in Ids : j # i => logged'[j] = logged[j]
        /\ i \in contested \cup unlogged' \/ logged'[i] = stored[i]
        /\ UNCHANGED <<stored, contested>> /\ unlogged \subseteq unlogged'
    BY <1>0, <1>1, <1>2, <1>6
  <2> QED
    BY <1>1, <1>3, <1>5, <2>1, LetsGo
<1>10. KnowledgeSound'
  BY <1>1, <1>3, <1>5, SameKnowledge
<1> QED
  BY <1>3, <1>7, <1>8, <1>9, <1>10, OneThread

LEMMA DropKeeps ==
    ASSUME MemoryInv, NEW w \in Writers, Drop(w) PROVE MemoryInv'
<1>0. /\ writer \in [Writers -> WriterStates] /\ writer[w] \in WriterStates /\ Holding(writer[w])
      /\ logged \in [Ids -> Facts \cup {Absent, Gone}] /\ failures \in 0 .. MaxFailures
      /\ stored \in [Ids -> Facts \cup {Absent, Gone}] /\ Told[w] \in Facts
      /\ contested \subseteq Ids /\ unlogged \subseteq Ids /\ retracted \subseteq Facts
      /\ dynamics \subseteq Ids /\ superseded \subseteq Ids \X Ids
      /\ Absent \notin Facts /\ Gone \notin Facts /\ Absent # Gone
  BY MemoryConstants DEF MemoryInv, StoreTyped, MemoryConstants
<1> DEFINE i == writer[w].doing.id
<1>1. /\ writer[w].at = "dropping" /\ writer[w].plan # <<>> /\ writer[w].errand = "add"
      /\ i \in Ids /\ i \in IdsOf(writer[w].results)
      /\ contested' = contested \cup {j \in {i} : Changing(j) # {}}
      /\ UNCHANGED <<logged, dynamics, superseded, failures, unlogged, doubled>>
  BY <1>0 DEF Drop, Holding, Reported, IdsOf
<1>2. contested' \subseteq Ids /\ contested \subseteq contested'
  BY <1>0, <1>1
<1>3. CASE i \notin Present
  <2> DEFINE r == [writer[w] EXCEPT !.at = "checking", !.plan = Tail(writer[w].plan),
                                    !.doing = Nothing]
  <2>1. /\ UNCHANGED <<stored, retracted>>
        /\ writer' = [writer EXCEPT ![w].at = "checking", ![w].plan = Tail(writer[w].plan),
                                    ![w].doing = Nothing]
    BY <1>3 DEF Drop
  <2>2. writer' = [writer EXCEPT ![w] = r]
    BY <1>0, <2>1
  <2>3. /\ Tail(writer[w].plan) \in Seq(Actions)
        /\ \A n \in DOMAIN Tail(writer[w].plan) :
             \E m \in DOMAIN writer[w].plan : Tail(writer[w].plan)[n] = writer[w].plan[m]
    <3>1. writer[w].plan \in Seq(Actions)
      BY <1>0 DEF WriterStates
    <3> QED
      BY <1>1, <3>1, RestOfPlan
  <2>4. /\ r \in WriterStates /\ r.at = "checking" /\ r.errand = writer[w].errand
        /\ r.results = writer[w].results /\ r.plan = Tail(writer[w].plan)
    BY <1>0, <2>3 DEF WriterStates, WriterPlaces
  <2> HIDE DEF r, i
  <2>5. Holding(r)
    BY <1>0, <1>1, <2>3, <2>4 DEF Holding, Reported
  <2> QED
    BY <1>0, <1>1, <1>2, <2>1, <2>2, <2>4, <2>5, QuietStep
<1>4. CASE i \in Present
  <2> DEFINE r == [writer[w] EXCEPT !.at = "dropped"]
  <2>1. /\ stored' = [stored EXCEPT ![i] = Gone] /\ writer' = [writer EXCEPT ![w].at = "dropped"]
        /\ retracted' = retracted \cup ({stored[i]} \ {Told[w]})
    BY <1>4 DEF Drop
  <2>2. writer' = [writer EXCEPT ![w] = r]
    BY <1>0, <2>1
  <2>3. /\ r \in WriterStates /\ r.at = "dropped" /\ r.errand = writer[w].errand
        /\ r.results = writer[w].results /\ r.plan = writer[w].plan /\ r.doing.id = i
        /\ r.doing = writer[w].doing
    BY <1>0 DEF WriterStates, WriterPlaces
  <2>4. /\ stored[i] \in Facts /\ stored'[i] = Gone
        /\ \A j \in Ids : j # i => stored'[j] = stored[j]
        /\ stored[i] # Gone
    BY <1>0, <1>1, <1>4, <2>1 DEF Present
  <2> HIDE DEF r, i
  <2>5. Holding(r)
    BY <1>0, <1>1, <2>3 DEF Holding, Reported
  <2>6. r.errand \in Errands[w] \cup {"none"} /\ StoreTyped'
    <3>1. writer' \in [Writers -> WriterStates] /\ r.errand \in Errands[w] \cup {"none"}
      BY <1>0, <2>2, <2>3 DEF MemoryInv
    <3>2. stored' \in [Ids -> Facts \cup {Absent, Gone}] /\ retracted' \subseteq Facts
      BY <1>0, <2>1, <2>4
    <3> QED
      BY <1>0, <1>1, <1>2, <3>1, <3>2 DEF MemoryInv, StoreTyped
  <2>7. KnowledgeSound'
    <3>3. /\ writer'[w] = r /\ \A v \in Writers : v # w => writer'[v] = writer[v]
      BY <2>2, TouchesAfter
    <3>4. /\ Kept' \subseteq Kept /\ Kept' \subseteq Facts \ doubled
          /\ \A f \in Kept', g \in retracted' : ~Similar(g, f)
      BY <1>1, <2>1, KeptBefore DEF Kept, Retracted
    <3>5. Adding(writer[w]) /\ Made(writer[w], i)
      BY <1>0, <1>1 DEF Adding, Made, Holding, Reported, i
    <3>6. \A f \in Kept' : stored[i] \in Facts /\ Similar(stored[i], f) => stored[i] = Told[w]
      BY <2>1, <3>4
    <3>7. \A i1 \in Ids : Adding(r) /\ Made(r, i1) => Adding(writer[w]) /\ Made(writer[w], i1)
      BY <1>1, <2>3 DEF Adding, Made
    <3>8. \A v \in Writers \ {w} :
            Adding(writer[v]) => /\ Told[v] \in Kept' => ~Similar(Told[w], Told[v])
                                 /\ Told[w] \in Kept' => ~Similar(Told[v], Told[w])
      BY <3>4, <3>5, SimilarFacts DEF MemoryInv, KnowledgeSound
    <3>9. ASSUME NEW f \in Kept', StoredNow(f) PROVE StoredNow(f)'
      <4>1. CASE f = Told[w]
        <5>1. PICK j \in Ids \ IdsOf(writer[w].results) :
                stored[j] \in Facts /\ Similar(stored[j], f)
          BY <1>1, <3>4, <3>5, <4>1 DEF MemoryInv, KnowledgeSound, StoredElsewhere
        <5>2. stored'[j] = stored[j]
          BY <1>1, <2>4, <5>1
        <5>3. \A v \in Writers : Adding(writer[v])' => v = w \/ Adding(writer[v])
          BY <3>3 DEF Adding
        <5>4. \A v \in Writers : Adding(writer[v])' /\ Similar(Told[v], f) => v = w
          BY <3>8, <4>1, <5>3
        <5> QED
          BY <4>1, <5>1, <5>2, <5>4 DEF StoredNow
      <4>2. CASE f # Told[w]
        <5>1. \A j \in Ids :
                /\ stored[j] \in Facts /\ Similar(stored[j], f)
                /\ \A v \in Writers :
                     Adding(writer[v]) /\ Made(writer[v], j) /\ Similar(Told[v], f) => Told[v] = f
                => stored'[j] = stored[j]
          BY <2>4, <3>5, <3>6, <4>2
        <5>2. f \in Facts
          BY <3>4
        <5> QED
          BY <3>3, <3>7, <3>9, <5>1, <5>2, StaysStored
      <4> QED
        BY <4>1, <4>2
    <3>1. \A v \in Writers \ {w} :
            Adding(writer[v]) /\ Told[v] \in Kept' /\ StoredElsewhere(v) => StoredElsewhere(v)'
      BY <2>4, <3>3, <3>6, <3>8 DEF StoredElsewhere, IdsOf
    <3>10. \A f \in Kept' : StoredNow(f) => StoredNow(f)'
      BY <3>9
    <3>2. retracted \subseteq retracted' /\ r.at \notin {"written", "dropping"}
          /\ writer[w].at \notin {"new", "over"}
      BY <1>1, <2>1, <2>3
    <3> QED
      BY <1>1, <2>2, <2>3, <3>1, <3>2, <3>10, KnowledgeAfter, ZenonT(40)
  <2>8. /\ \A v \in Writers : v # w => writer'[v] = writer[v]
        /\ \A j \in Ids : Changing(j) \subseteq Writers /\ Changing(j)' \subseteq Writers
    BY <2>2, TouchesAfter
  <2>9. writer'[w] = r
    BY <2>2, TouchesAfter
  <2>10. \A j \in Ids, v \in Writers : v \in Changing(j)' <=> v \in Changing(j)
    BY <1>1, <2>3, <2>8, <2>9 DEF Changing
  <2>11. \A j \in Ids, v \in Writers :
           /\ Touches(v, {"written"}, j)' <=> Touches(v, {"written"}, j)
           /\ Touches(v, {"dropped"}, j)' <=> IF v = w THEN j = i ELSE Touches(v, {"dropped"}, j)
           /\ Touches(v, {"written", "dropped"}, j)'
                <=> IF v = w THEN j = i ELSE Touches(v, {"written", "dropped"}, j)
           /\ Touches(v, {"read", "written", "dropped"}, j)'
                <=> IF v = w THEN j = i ELSE Touches(v, {"read", "written", "dropped"}, j)
           /\ Touches(v, {"written"}, j) => v \in Changing(j) /\ v # w
           /\ ~Touches(w, {"written", "dropped"}, j)
    BY <1>1, <2>3, <2>8, <2>9 DEF Touches, Changing
  <2>12. Touching'
    BY <1>0, <2>4, <2>11 DEF MemoryInv, Touching
  <2>13. HistorySound'
    <3>1. SUFFICES ASSUME NEW j \in Ids \ contested' PROVE HistoryOf(j)'
      BY DEF HistorySound
    <3>2. j \in Ids \ contested /\ (j = i => Changing(j) = {})
      BY <1>1
    <3>3. /\ \A v, u \in Changing(j) : v = u
          /\ \A v \in Writers :
               /\ Touches(v, {"written"}, j) =>
                    stored[j] = IF writer[v].doing.event = "DELETE" THEN Gone ELSE Told[v]
               /\ Touches(v, {"dropped"}, j) => stored[j] = Gone /\ Changing(j) = {}
          /\ j \in unlogged \/ (\E v \in Writers : Touches(v, {"written", "dropped"}, j))
               \/ logged[j] = stored[j]
      BY <3>2 DEF MemoryInv, HistorySound, HistoryOf
    <3>4. Changing(j)' = Changing(j)
      BY <2>8, <2>10
    <3>5. CASE j = i
      <4>1. \A v \in Writers : ~Touches(v, {"written"}, j)'
        BY <2>11, <3>2, <3>5
      <4>2. Touches(w, {"written", "dropped"}, j)'
        BY <2>11, <3>5
      <4>3. stored'[j] = Gone /\ Changing(j)' = {}
        BY <2>4, <3>2, <3>4, <3>5
      <4> QED
        BY <3>3, <3>4, <4>1, <4>2, <4>3 DEF HistoryOf
    <3>6. CASE j # i
      <4>1. stored'[j] = stored[j] /\ logged' = logged /\ unlogged' = unlogged
        BY <1>1, <2>4, <3>6
      <4>2. \A v \in Writers : /\ Touches(v, {"written"}, j)' => Touches(v, {"written"}, j) /\ v # w
                               /\ Touches(v, {"dropped"}, j)' => Touches(v, {"dropped"}, j)
                               /\ Touches(v, {"written", "dropped"}, j)
                                    => Touches(v, {"written", "dropped"}, j)'
        BY <2>11, <3>6
      <4>3. \A v \in Writers : Touches(v, {"written"}, j)' =>
              stored'[j] = IF writer'[v].doing.event = "DELETE" THEN Gone ELSE Told[v]
        BY <2>8, <3>3, <4>1, <4>2
      <4> QED
        BY <3>3, <3>4, <4>1, <4>2, <4>3 DEF HistoryOf
    <3> QED
      BY <3>5, <3>6
  <2> QED
    BY <2>2, <2>5, <2>6, <2>7, <2>12, <2>13, OneThread
<1> QED
  BY <1>3, <1>4

LEMMA StoreStutters ==
    ASSUME MemoryInv, UNCHANGED memoryVars PROVE MemoryInv'
<1> USE DEF memoryVars, storeVars, ghostVars
<1>1. StoreTyped' /\ Touching' /\ \A w \in Writers : writer'[w].errand \in Errands[w] \cup {"none"}
  BY DEF MemoryInv, StoreTyped, Touching, Touches
<1>2. HistorySound'
  BY DEF MemoryInv, HistorySound, HistoryOf, Changing, Touches
<1>3. KnowledgeSound'
  BY DEF MemoryInv, KnowledgeSound, Adding, Made, Kept, Retracted, EverStored, StoredNow,
         StoredElsewhere, IdsOf
<1>4. \A w \in Writers : Holding(writer[w])'
  BY DEF MemoryInv, Holding, Planned, Reported
<1> QED
  BY <1>1, <1>2, <1>3, <1>4 DEF MemoryInv

LEMMA StoreKeeps ==
    ASSUME MemoryInv, [MemoryNext]_memoryVars PROVE MemoryInv'
<1>1. ASSUME NEW w \in Writers,
             \/ Extract(w) \/ Search(w) \/ Decide(w) \/ Take(w)
             \/ Begin(w) \/ Write(w) \/ Log(w) \/ LogFails(w) \/ Finish(w)
             \/ Check(w) \/ Drop(w) \/ LogDrop(w) \/ Replace(w) \/ Checked(w) \/ Record(w)
      PROVE  MemoryInv'
  BY <1>1, ExtractKeeps, SearchKeeps, DecideKeeps, TakeKeeps, BeginKeeps, WriteKeeps, LogKeeps,
     LogFailsKeeps, FinishKeeps, CheckKeeps, DropKeeps, LogDropKeeps, ReplaceKeeps, CheckedKeeps,
     RecordKeeps
<1> QED
  BY <1>1, StoreStutters DEF MemoryNext

LEMMA StoreSound ==
    MemorySpec => []MemoryInv
BY StoreStarts, StoreKeeps, PTL DEF MemorySpec

LEMMA MemoryInvTypes ==
    ASSUME MemoryInv PROVE MemoryTypeOK
<1>1. StoreTyped /\ \A w \in Writers : /\ writer[w] \in WriterStates
                                        /\ writer[w].errand \in Errands[w] \cup {"none"}
  BY DEF MemoryInv, StoreTyped
<1> QED
  BY <1>1 DEF StoreTyped, MemoryTypeOK, WriterStates, WriterPlaces

LEMMA MemoryInvSafe ==
    ASSUME MemoryInv PROVE MemorySafe
<1>1. HistoryAgrees
  BY DEF MemoryInv, HistorySound, HistoryOf, HistoryAgrees, Touches
<1>2. KnowledgeKept
  BY DEF MemoryInv, KnowledgeSound, KnowledgeKept, Kept, StoredNow, Present
<1> QED
  BY <1>1, <1>2 DEF MemorySafe

\* The types of the store, of its log and of what each thread holds.
THEOREM MemoryTypeCorrect == MemorySpec => []MemoryTypeOK
BY StoreSound, MemoryInvTypes, PTL

(* The log of a memory ends with what the store holds of it, unless two    *)
(* threads changed it at once or the log failed, and of a fact once stored *)
(* a similar one is known until a deletion or an update takes it or one    *)
(* like it back, unless two threads added similar facts at once: what each *)
(* thread of MemoryManager does between its reads and its writes leaves no *)
(* other way to lose either, whichever facts count as similar.             *)
THEOREM MemoryIsSafe == MemorySpec => []MemorySafe
BY StoreSound, MemoryInvSafe, PTL

----------------------------------------------------------------------------
(* The graph and its cache                                                 *)

GraphAssumptions ==
  /\ Relations \subseteq Int /\ MaxLapses \in Nat
  /\ \A r \in DOMAIN Readers : Readers[r].user \in Users /\ Readers[r].limit \in Nat
  /\ \A w \in DOMAIN Authors : Authors[w].user \in Users /\ Authors[w].found \subseteq Relations
  /\ \A u \in Users : Alike(u, u)

ReaderPlaces == {"look", "keep", "done"}
AuthorPlaces == {"merge", "delete", "searches", "snapshots", "done"}
ReaderStates == [at : ReaderPlaces, answer : SUBSET Relations, hit : BOOLEAN]
AuthorStates == [at : AuthorPlaces, left : SUBSET Relations, added : BOOLEAN]
GraphTyped ==
  /\ graph \in [Users -> SUBSET Relations] /\ \A u \in Users : IsFiniteSet(graph[u])
  /\ DOMAIN cache \subseteq Keys /\ late \subseteq Keys /\ lapses \in 0..MaxLapses
  /\ reader \in [DOMAIN Readers -> ReaderStates]
  /\ author \in [DOMAIN Authors -> AuthorStates]

\* An author that is still to drop the key.
StillDrops(w, k) ==
  /\ Authors[w].user = k.user
  /\ \/ author[w].at = "searches"
     \/ author[w].at = "merge" /\ author[w].added
     \/ author[w].at = "snapshots" /\ k.query = "all"

\* What is cached for a key follows the graph, or is known to be behind it, or
\* will be dropped by one who has come no further than its kind of key.
Follows(k) == \E r \in DOMAIN Readers : KeyOf(r) = k /\ cache[k] = Findings(k, Readers[r].limit)
KeyFollows(k) == k \in late \/ Follows(k) \/ \E w \in DOMAIN Authors : StillDrops(w, k)

\* What answers a query may be cached for it: some reader has a limit for it.
Replies(S, k) == S \subseteq Matching[k.query] /\ S \subseteq Relations /\ IsFiniteSet(S)
KeyFits(k) ==
  /\ Replies(cache[k], k)
  /\ \E s \in DOMAIN Readers : KeyOf(s) = k /\ Cardinality(cache[k]) <= Readers[s].limit
AnswerFits(r) ==
  /\ Replies(reader[r].answer, KeyOf(r))
  /\ reader[r].hit => reader[r].at = "done"
  /\ Cardinality(reader[r].answer) > Readers[r].limit =>
       reader[r].hit /\ Readers[r].query # "all" /\ \E s \in DOMAIN Readers :
         KeyOf(s) = KeyOf(r) /\ Readers[s].limit > Readers[r].limit

GraphInv ==
  /\ GraphTyped
  /\ \A k \in DOMAIN cache : KeyFollows(k) /\ KeyFits(k)
  /\ \A r \in DOMAIN Readers : AnswerFits(r)

\* The number of lesser relations grows with a relation.
LEMMA LesserGrow ==
    ASSUME NEW S \in SUBSET Int, IsFiniteSet(S), NEW i \in S, NEW j \in S, i < j
    PROVE  /\ Cardinality({y \in S : y < i}) \in Nat /\ Cardinality({y \in S : y < j}) \in Nat
           /\ Cardinality({y \in S : y < i}) < Cardinality({y \in S : y < j})
<1> DEFINE L(x) == {y \in S : y < x}
<1>1. i \in Int /\ j \in Int /\ \A y \in S : y \in Int
  OBVIOUS
<1>2. L(i) \subseteq L(j)
  <2>1. ASSUME NEW y \in S, y < i PROVE y < j
    BY <1>1, <2>1
  <2> QED
    BY <2>1
<1>3. i \in L(j) /\ i \notin L(i)
  BY <1>1
<1>4. L(i) \in SUBSET L(j) /\ L(j) \in SUBSET S
  BY <1>2
<1>5. IsFiniteSet(L(j)) /\ IsFiniteSet(L(i))
  BY <1>2, FS_Subset
<1>6. Cardinality(L(i)) \in Nat /\ Cardinality(L(j)) \in Nat
  BY <1>5, FS_CardinalityType
<1>7. /\ Cardinality(L(i)) <= Cardinality(L(j))
      /\ Cardinality(L(j)) = Cardinality(L(i)) => L(j) = L(i)
  BY <1>4, <1>5, FS_Subset
<1>8. L(j) # L(i)
  BY <1>3
<1>9. Cardinality(L(i)) < Cardinality(L(j))
  BY <1>6, <1>7, <1>8
<1> QED
  BY <1>6, <1>9

\* No more than the limit are within it.
LEMMA LimitedFits ==
    ASSUME NEW S \in SUBSET Int, IsFiniteSet(S), NEW n \in Nat
    PROVE  /\ Limited(S, n) \subseteq S /\ IsFiniteSet(Limited(S, n))
           /\ Cardinality(Limited(S, n)) \in Nat /\ Cardinality(Limited(S, n)) <= n
<1> DEFINE Rank(x) == Cardinality({y \in S : y < x})
           B == Limited(S, n)
           f == [x \in B |-> Rank(x)]
<1>1. B \subseteq S /\ \A x \in B : Rank(x) < n
  BY DEF Limited
<1>2. ASSUME NEW x \in S PROVE Rank(x) \in Nat
  <2>1. {y \in S : y < x} \in SUBSET S
    OBVIOUS
  <2>2. IsFiniteSet({y \in S : y < x})
    BY <2>1, FS_Subset
  <2> QED
    BY <2>2, FS_CardinalityType
<1>3. ASSUME NEW i \in B, NEW j \in B, Rank(i) = Rank(j) PROVE i = j
  <2>1. i \in S /\ j \in S /\ i \in Int /\ j \in Int /\ Rank(i) \in Nat /\ Rank(j) \in Nat
    BY <1>1, <1>2
  <2>2. i < j => Rank(i) < Rank(j)
    BY <2>1, LesserGrow
  <2>3. j < i => Rank(j) < Rank(i)
    BY <2>1, LesserGrow
  <2> HIDE DEF Rank
  <2> QED
    BY <1>3, <2>1, <2>2, <2>3
<1>4. \A x \in B : Rank(x) \in 0..(n - 1)
  <2> SUFFICES ASSUME NEW x \in B PROVE Rank(x) \in 0..(n - 1)
    OBVIOUS
  <2> DEFINE c == Rank(x)
  <2>1. c \in Nat /\ c < n
    BY <1>1, <1>2
  <2> HIDE DEF c
  <2>2. c \in 0..(n - 1)
    BY <2>1
  <2> QED
    BY <2>2 DEF c
<1> HIDE DEF B, Rank
<1>5. f \in Injection(B, 0..(n - 1))
  BY <1>3, <1>4 DEF Injection, IsInjective
<1>6. IsFiniteSet(0..(n - 1)) /\ Cardinality(0..(n - 1)) = n
  BY FS_Interval
<1>7. IsFiniteSet(B) /\ Cardinality(B) <= n
  BY <1>5, <1>6, FS_Injection
<1>8. Cardinality(B) \in Nat
  BY <1>7, FS_CardinalityType
<1> QED
  BY <1>1, <1>7, <1>8 DEF B

LEMMA FindingsFit ==
    ASSUME GraphAssumptions, GraphTyped, NEW r \in DOMAIN Readers
    PROVE  LET k == KeyOf(r)
           IN /\ k \in Keys /\ k.user = Readers[r].user /\ k.query = Readers[r].query
              /\ k.user \in Users
              /\ Replies(Findings(k, Readers[r].limit), k)
              /\ Cardinality(Findings(k, Readers[r].limit)) \in Nat
              /\ Cardinality(Findings(k, Readers[r].limit)) <= Readers[r].limit
<1> DEFINE k == KeyOf(r)
           n == Readers[r].limit
           S == graph[k.user] \cap Matching[k.query]
<1>1. /\ k \in Keys /\ k.user = Readers[r].user /\ k.query = Readers[r].query
      /\ k.user \in Users /\ n \in Nat
  BY DEF KeyOf, Keys, GraphAssumptions
<1>2. graph[k.user] \subseteq Relations /\ IsFiniteSet(graph[k.user])
  BY <1>1 DEF GraphTyped, ReaderStates, AuthorStates
<1> HIDE DEF k, n
<1>3. /\ S \in SUBSET graph[k.user] /\ S \in SUBSET Int
      /\ S \subseteq Relations /\ S \subseteq Matching[k.query]
  BY <1>2 DEF GraphAssumptions
<1>4. IsFiniteSet(S)
  BY <1>2, <1>3, FS_Subset
<1> HIDE DEF S
<1>5. /\ Limited(S, n) \subseteq S /\ IsFiniteSet(Limited(S, n))
      /\ Cardinality(Limited(S, n)) \in Nat /\ Cardinality(Limited(S, n)) <= n
  BY <1>1, <1>3, <1>4, LimitedFits
<1>6. Findings(k, n) = Limited(S, n)
  BY DEF Findings, S
<1> QED
  BY <1>1, <1>3, <1>5, <1>6 DEF Replies, k, n

LEMMA GraphStarts == GraphAssumptions /\ GraphInit => GraphInv
<1> SUFFICES ASSUME GraphAssumptions, GraphInit PROVE GraphInv
  OBVIOUS
<1>1. /\ DOMAIN cache = {} /\ late = {} /\ lapses = 0
      /\ graph = [u \in Users |-> {}]
      /\ reader = [r \in DOMAIN Readers |-> [at |-> "look", answer |-> {}, hit |-> FALSE]]
  BY DEF GraphInit
<1>2. IsFiniteSet({}) /\ Cardinality({}) = 0
  BY FS_EmptySet
<1>3. GraphTyped
  <2>1. author \in [DOMAIN Authors -> AuthorStates]
    BY DEF GraphInit, AuthorPlaces, AuthorStates, GraphAssumptions
  <2>2. lapses \in 0..MaxLapses
    BY <1>1 DEF GraphAssumptions
  <2> QED
    BY <1>1, <1>2, <2>1, <2>2 DEF GraphTyped, ReaderStates, AuthorStates, ReaderPlaces
<1>4. ASSUME NEW r \in DOMAIN Readers PROVE AnswerFits(r)
  <2>1. reader[r].answer = {} /\ ~reader[r].hit /\ Readers[r].limit \in Nat
    BY <1>1 DEF GraphAssumptions
  <2>2. ~(0 > Readers[r].limit)
    BY <2>1
  <2> QED
    BY <1>2, <2>1, <2>2 DEF AnswerFits, Replies
<1> QED
  BY <1>1, <1>3, <1>4 DEF GraphInv

\* A step that leaves the graph, the cache and the authors as they are.
LEMMA CacheUntouched ==
    ASSUME GraphInv, UNCHANGED <<graph, cache, author>>, late \subseteq late'
    PROVE  \A k \in DOMAIN cache' : KeyFollows(k)' /\ KeyFits(k)'
BY DEF GraphInv, KeyFollows, Follows, Findings, StillDrops, KeyFits, Replies

LEMMA ReadersUntouched ==
    ASSUME GraphInv, UNCHANGED reader
    PROVE  \A r \in DOMAIN Readers : AnswerFits(r)'
BY DEF GraphInv, AnswerFits, Replies

LEMMA HitKeeps ==
    ASSUME GraphAssumptions, GraphInv, NEW r \in DOMAIN Readers, Hit(r) PROVE GraphInv'
<1> DEFINE k == KeyOf(r)
           n == Readers[r].limit
           answer == Cut(k, n)
<1>1. /\ k \in DOMAIN cache /\ UNCHANGED <<graph, cache, author, lapses, late>>
      /\ reader' = [reader EXCEPT ![r] = [at |-> "done", hit |-> TRUE, answer |-> answer]]
      /\ KeyFits(k) /\ n \in Nat /\ k.query = Readers[r].query
  BY DEF Hit, GraphInv, GraphAssumptions, KeyOf
<1>2. PICK s \in DOMAIN Readers : KeyOf(s) = k /\ Cardinality(cache[k]) <= Readers[s].limit
  BY <1>1 DEF KeyFits
<1>3. /\ cache[k] \in SUBSET Int /\ cache[k] \subseteq Matching[k.query]
      /\ cache[k] \subseteq Relations /\ IsFiniteSet(cache[k]) /\ Readers[s].limit \in Nat
  BY <1>1 DEF KeyFits, Replies, GraphAssumptions
<1>4. /\ Limited(cache[k], n) \subseteq cache[k] /\ IsFiniteSet(Limited(cache[k], n))
      /\ Cardinality(Limited(cache[k], n)) \in Nat /\ Cardinality(Limited(cache[k], n)) <= n
  BY <1>1, <1>3, LimitedFits
<1>5. Cardinality(cache[k]) \in Nat
  BY <1>3, FS_CardinalityType
<1> HIDE DEF k, n
<1>6. Replies(answer, k) /\ Cardinality(answer) \in Nat
  BY <1>3, <1>4, <1>5 DEF Replies, Cut
<1>7. Cardinality(answer) > n => k.query # "all" /\ Readers[s].limit > n
  <2>1. CASE k.query = "all"
    <3>1. Cardinality(answer) <= n
      BY <1>4, <2>1 DEF Cut
    <3> QED
      BY <1>1, <1>6, <3>1
  <2>2. CASE k.query # "all"
    <3>1. Cardinality(answer) <= Readers[s].limit
      BY <1>2, <2>2 DEF Cut
    <3> QED
      BY <1>1, <1>3, <1>6, <2>2, <3>1
  <2> QED
    BY <2>1, <2>2
<1> HIDE DEF answer
<1>8. /\ reader'[r] = [at |-> "done", hit |-> TRUE, answer |-> answer]
      /\ \A q \in DOMAIN Readers \ {r} : reader'[q] = reader[q]
  BY <1>1 DEF GraphInv, GraphTyped, ReaderStates, AuthorStates
<1>9. GraphTyped'
  <2>1. reader' \in [DOMAIN Readers -> ReaderStates]
    BY <1>1, <1>6 DEF GraphInv, GraphTyped, ReaderStates, AuthorStates, ReaderPlaces, Replies
  <2> QED
    BY <1>1, <2>1 DEF GraphInv, GraphTyped, ReaderStates, AuthorStates
<1>10. AnswerFits(r)'
  BY <1>1, <1>2, <1>6, <1>7, <1>8 DEF AnswerFits, Replies, k, n
<1>11. \A q \in DOMAIN Readers \ {r} : AnswerFits(q)'
  BY <1>8 DEF GraphInv, AnswerFits, Replies
<1> QED
  BY <1>1, <1>9, <1>10, <1>11, CacheUntouched DEF GraphInv

LEMMA QueryKeeps ==
    ASSUME GraphAssumptions, GraphInv, NEW r \in DOMAIN Readers, Query(r) PROVE GraphInv'
<1> DEFINE k == KeyOf(r)
           n == Readers[r].limit
           found == Findings(k, n)
<1>1. /\ reader[r].at = "look" /\ UNCHANGED <<graph, cache, author, lapses, late>>
      /\ reader' = [reader EXCEPT ![r].at = IF found = {} THEN "done" ELSE "keep",
                                  ![r].answer = found]
      /\ n \in Nat
  BY DEF Query, GraphAssumptions
<1>2. Replies(found, k) /\ Cardinality(found) \in Nat /\ Cardinality(found) <= n
  BY FindingsFit DEF GraphInv
<1> HIDE DEF found
<1>3. GraphTyped'
  <2> DEFINE place == IF found = {} THEN "done" ELSE "keep"
  <2>1. place \in ReaderPlaces /\ found \in SUBSET Relations
    BY <1>2 DEF ReaderPlaces, Replies
  <2>2. reader' = [reader EXCEPT ![r] = [@ EXCEPT !.at = place, !.answer = found]]
    BY <1>1 DEF GraphInv, GraphTyped, ReaderStates, AuthorStates
  <2> HIDE DEF place
  <2>3. reader' \in [DOMAIN Readers -> ReaderStates]
    BY <2>1, <2>2 DEF GraphInv, GraphTyped, ReaderStates, AuthorStates
  <2> QED
    BY <1>1, <2>3 DEF GraphInv, GraphTyped, ReaderStates, AuthorStates
<1>4. /\ reader'[r].answer = found /\ reader'[r].hit = reader[r].hit /\ ~reader[r].hit
      /\ \A q \in DOMAIN Readers \ {r} : reader'[q] = reader[q]
  BY <1>1 DEF GraphInv, GraphTyped, ReaderStates, AuthorStates, AnswerFits
<1>5. ~(Cardinality(found) > n)
  BY <1>1, <1>2
<1>6. AnswerFits(r)'
  BY <1>2, <1>4, <1>5 DEF AnswerFits, Replies
<1>7. \A q \in DOMAIN Readers \ {r} : AnswerFits(q)'
  BY <1>4 DEF GraphInv, AnswerFits, Replies
<1> QED
  BY <1>1, <1>3, <1>6, <1>7, CacheUntouched DEF GraphInv

\* A reader that is done with its answer keeps it.
LEMMA ReaderEnds ==
    ASSUME GraphInv, NEW r \in DOMAIN Readers, reader' = [reader EXCEPT ![r].at = "done"]
    PROVE  /\ reader' \in [DOMAIN Readers -> ReaderStates]
           /\ \A q \in DOMAIN Readers : AnswerFits(q)'
<1>1. reader' \in [DOMAIN Readers -> ReaderStates]
  BY DEF GraphInv, GraphTyped, ReaderStates, AuthorStates, ReaderPlaces
<1>2. \A q \in DOMAIN Readers : /\ reader'[q].answer = reader[q].answer
                                /\ reader'[q].hit = reader[q].hit
                                /\ reader'[q].at = "done" \/ reader'[q].at = reader[q].at
  BY DEF GraphInv, GraphTyped, ReaderStates, AuthorStates
<1> QED
  BY <1>1, <1>2 DEF GraphInv, AnswerFits, Replies

LEMMA KeepKeeps ==
    ASSUME GraphAssumptions, GraphInv, NEW r \in DOMAIN Readers, Keep(r) PROVE GraphInv'
<1> DEFINE k == KeyOf(r)
           n == Readers[r].limit
           S == reader[r].answer
<1>1. /\ reader[r].at = "keep" /\ UNCHANGED <<graph, author, lapses>>
      /\ reader' = [reader EXCEPT ![r].at = "done"] /\ cache' = With(cache, k, S)
      /\ late' = IF S = Findings(k, n) THEN late \ {k} ELSE late \union {k}
      /\ k \in Keys /\ n \in Nat
  BY DEF Keep, Keys, GraphAssumptions
<1>2. /\ DOMAIN cache' = DOMAIN cache \cup {k} /\ cache'[k] = S
      /\ \A j \in DOMAIN cache \ {k} : cache'[j] = cache[j]
  BY <1>1 DEF With
<1>3. Replies(S, k) /\ Cardinality(S) <= n
  <2>1. AnswerFits(r) /\ ~reader[r].hit
    BY <1>1 DEF GraphInv, AnswerFits
  <2>2. Cardinality(S) \in Nat
    BY <2>1, FS_CardinalityType DEF AnswerFits, Replies
  <2>3. ~(Cardinality(S) > n)
    BY <2>1 DEF AnswerFits
  <2> QED
    BY <1>1, <2>1, <2>2, <2>3 DEF AnswerFits
<1> HIDE DEF S
<1>4. GraphTyped'
  BY <1>1, <1>2, ReaderEnds DEF GraphInv, GraphTyped, ReaderStates, AuthorStates
<1>5. KeyFits(k)'
  BY <1>2, <1>3 DEF KeyFits, Replies
<1>6. KeyFollows(k)'
  BY <1>1, <1>2 DEF KeyFollows, Follows, Findings
<1>7. \A j \in DOMAIN cache \ {k} : KeyFits(j)' /\ KeyFollows(j)'
  <2> SUFFICES ASSUME NEW j \in DOMAIN cache \ {k} PROVE KeyFits(j)' /\ KeyFollows(j)'
    OBVIOUS
  <2>1. KeyFits(j) /\ KeyFollows(j) /\ cache'[j] = cache[j]
    BY <1>2 DEF GraphInv
  <2>2. KeyFits(j)' /\ (Follows(j) => Follows(j)')
    BY <1>1, <2>1 DEF KeyFits, Replies, Follows, Findings
  <2>3. j \in late => j \in late'
    BY <1>1
  <2>4. \A w \in DOMAIN Authors : StillDrops(w, j) => StillDrops(w, j)'
    BY <1>1 DEF StillDrops
  <2> QED
    BY <2>1, <2>2, <2>3, <2>4 DEF KeyFollows
<1> QED
  BY <1>1, <1>2, <1>4, <1>5, <1>6, <1>7, ReaderEnds DEF GraphInv

LEMMA KeepFailsKeeps ==
    ASSUME GraphInv, NEW r \in DOMAIN Readers, KeepFails(r) PROVE GraphInv'
<1>1. UNCHANGED <<graph, cache, author, lapses, late>> /\ reader' = [reader EXCEPT ![r].at = "done"]
  BY DEF KeepFails
<1>2. GraphTyped'
  BY <1>1, ReaderEnds DEF GraphInv, GraphTyped, ReaderStates, AuthorStates
<1> QED
  BY <1>1, <1>2, ReaderEnds, CacheUntouched DEF GraphInv

\* A step of an author whose user's keys will be dropped afterwards: the keys
\* of the others follow as they did.
LEMMA WriteFollowed ==
    ASSUME GraphAssumptions, GraphInv, NEW w \in DOMAIN Authors, UNCHANGED <<cache, reader, late>>,
           \A k \in DOMAIN cache : k.user = Authors[w].user => KeyFollows(k)',
           \A u \in Users \ {Authors[w].user} : graph'[u] = graph[u],
           \A v \in DOMAIN Authors \ {w} : author'[v] = author[v]
    PROVE  /\ \A k \in DOMAIN cache' : KeyFollows(k)' /\ KeyFits(k)'
           /\ \A r \in DOMAIN Readers : AnswerFits(r)'
<1>1. \A k \in DOMAIN cache : KeyFits(k)'
  BY DEF GraphInv, KeyFits, Replies
<1>2. ASSUME NEW k \in DOMAIN cache, k.user # Authors[w].user PROVE KeyFollows(k)'
  <2>1. k.user \in Users => graph'[k.user] = graph[k.user]
    BY <1>2
  <2>2. KeyFollows(k)
    BY DEF GraphInv
  <2>3. \A v \in DOMAIN Authors : StillDrops(v, k) => StillDrops(v, k)'
    BY <1>2 DEF StillDrops
  <2>4. Follows(k) => Follows(k)'
    <3>1. k.user \in Users
      BY DEF GraphInv, GraphTyped, ReaderStates, AuthorStates, Keys, KeyOf, GraphAssumptions
    <3> QED
      BY <2>1, <3>1 DEF Follows, Findings
  <2> QED
    BY <2>2, <2>3, <2>4 DEF KeyFollows
<1> QED
  BY <1>1, <1>2, ReadersUntouched

LEMMA MergeKeeps ==
    ASSUME GraphAssumptions, GraphInv, NEW w \in DOMAIN Authors, Merge(w) PROVE GraphInv'
<1> DEFINE u == Authors[w].user
<1>1. PICK x \in author[w].left, ok \in BOOLEAN :
        LET more == author[w].left \ {x}
            added == author[w].added \/ ok
        IN /\ graph' = IF ok THEN [graph EXCEPT ![u] = @ \union {x}] ELSE graph
           /\ author' = [author EXCEPT ![w] =
                [at |-> IF more # {} THEN "merge" ELSE IF added THEN "searches" ELSE "done",
                 left |-> more, added |-> added]]
  BY DEF Merge
<1>2. /\ author[w].at = "merge" /\ UNCHANGED <<cache, reader, lapses, late>>
      /\ u \in Users /\ author[w].left \subseteq Relations /\ author[w].added \in BOOLEAN
  BY DEF Merge, GraphAssumptions, GraphInv, GraphTyped, ReaderStates, AuthorStates
<1>3. GraphTyped'
  <2>1. graph' \in [Users -> SUBSET Relations]
    BY <1>1, <1>2 DEF GraphInv, GraphTyped, ReaderStates, AuthorStates
  <2>2. ASSUME NEW v \in Users PROVE IsFiniteSet(graph'[v])
    <3>1. IsFiniteSet(graph[v]) /\ IsFiniteSet(graph[v] \union {x})
      BY FS_AddElement DEF GraphInv, GraphTyped, ReaderStates, AuthorStates
    <3>2. graph'[v] = graph[v] \/ graph'[v] = graph[v] \union {x}
      BY <1>1, <1>2 DEF GraphInv, GraphTyped, ReaderStates, AuthorStates
    <3> QED
      BY <3>1, <3>2
  <2>3. author' \in [DOMAIN Authors -> AuthorStates]
    <3> DEFINE new == [at |-> IF author[w].left \ {x} # {} THEN "merge"
                              ELSE IF author[w].added \/ ok THEN "searches" ELSE "done",
                       left |-> author[w].left \ {x}, added |-> author[w].added \/ ok]
    <3>1. new \in AuthorStates
      <4>1. (author[w].added \/ ok) \in BOOLEAN /\ author[w].left \ {x} \in SUBSET Relations
        BY <1>2
      <4> QED
        BY <4>1 DEF AuthorPlaces, AuthorStates
    <3>2. author' = [author EXCEPT ![w] = new]
      BY <1>1
    <3> HIDE DEF new
    <3> QED
      BY <3>1, <3>2 DEF GraphInv, GraphTyped, ReaderStates, AuthorStates
  <2> QED
    BY <1>2, <2>1, <2>2, <2>3 DEF GraphInv, GraphTyped, ReaderStates, AuthorStates
<1>4. /\ \A v \in Users \ {u} : graph'[v] = graph[v]
      /\ \A v \in DOMAIN Authors \ {w} : author'[v] = author[v]
  BY <1>1, <1>2 DEF GraphInv, GraphTyped, ReaderStates, AuthorStates
<1>5. ASSUME NEW k \in DOMAIN cache, k.user = u PROVE KeyFollows(k)'
  <2>1. CASE author[w].added \/ ok
    <3>1. author'[w].at = "searches" \/ (author'[w].at = "merge" /\ author'[w].added)
      BY <1>1, <2>1 DEF GraphInv, GraphTyped, ReaderStates, AuthorStates
    <3>2. StillDrops(w, k)'
      BY <1>5, <3>1 DEF StillDrops
    <3> QED
      BY <3>2 DEF KeyFollows
  <2>2. CASE ~author[w].added /\ ~ok
    <3>1. graph' = graph /\ cache' = cache /\ late' = late
      BY <1>1, <1>2, <2>2
    <3>2. KeyFollows(k) /\ ~StillDrops(w, k)
      BY <1>2, <2>2 DEF GraphInv, StillDrops
    <3>3. \A v \in DOMAIN Authors : StillDrops(v, k) => StillDrops(v, k)'
      BY <1>4, <3>2 DEF StillDrops
    <3>4. Follows(k) => Follows(k)'
      BY <3>1 DEF Follows, Findings
    <3> QED
      BY <3>1, <3>2, <3>3, <3>4 DEF KeyFollows
  <2> QED
    BY <1>2, <2>1, <2>2
<1> QED
  BY <1>2, <1>3, <1>4, <1>5, WriteFollowed DEF GraphInv

LEMMA DeleteKeeps ==
    ASSUME GraphAssumptions, GraphInv, NEW w \in DOMAIN Authors, Delete(w) PROVE GraphInv'
<1> DEFINE u == Authors[w].user
<1>1. /\ graph' = [graph EXCEPT ![u] = {}] /\ author' = [author EXCEPT ![w].at = "searches"]
      /\ UNCHANGED <<cache, reader, lapses, late>> /\ u \in Users
  BY DEF Delete, GraphAssumptions
<1>2. GraphTyped'
  BY <1>1, FS_EmptySet DEF GraphInv, GraphTyped, ReaderStates, AuthorStates, AuthorPlaces
<1>3. /\ author'[w].at = "searches"
      /\ \A v \in Users \ {u} : graph'[v] = graph[v]
      /\ \A v \in DOMAIN Authors \ {w} : author'[v] = author[v]
  BY <1>1 DEF GraphInv, GraphTyped, ReaderStates, AuthorStates
<1>4. ASSUME NEW k \in DOMAIN cache, k.user = u PROVE KeyFollows(k)'
  BY <1>3, <1>4 DEF KeyFollows, StillDrops
<1> QED
  BY <1>1, <1>2, <1>3, <1>4, WriteFollowed DEF GraphInv

\* An author that ends early says so of every key that is held for its user.
LEMMA AuthorEndsEarly ==
    ASSUME GraphAssumptions, GraphInv, NEW w \in DOMAIN Authors,
           UNCHANGED <<graph, cache, reader, lapses>>,
           author' = [author EXCEPT ![w].at = "done"],
           late \subseteq late', late' \subseteq late \union DOMAIN cache,
           \A k \in DOMAIN cache : StillDrops(w, k) => k \in late'
    PROVE  GraphInv'
<1>1. GraphTyped'
  BY DEF GraphInv, GraphTyped, ReaderStates, AuthorStates, AuthorPlaces
<1>2. ASSUME NEW k \in DOMAIN cache PROVE KeyFollows(k)' /\ KeyFits(k)'
  <2>1. KeyFollows(k) /\ KeyFits(k)
    BY DEF GraphInv
  <2>2. \A v \in DOMAIN Authors \ {w} : StillDrops(v, k) => StillDrops(v, k)'
    BY DEF StillDrops, GraphInv, GraphTyped, ReaderStates, AuthorStates
  <2>3. KeyFits(k)' /\ (Follows(k) => Follows(k)')
    BY <2>1 DEF KeyFits, Replies, Follows, Findings
  <2> QED
    BY <2>1, <2>2, <2>3 DEF KeyFollows
<1> QED
  BY <1>1, <1>2, ReadersUntouched DEF GraphInv

LEMMA EmbeddingFailsKeeps ==
    ASSUME GraphAssumptions, GraphInv, NEW w \in DOMAIN Authors, EmbeddingFails(w) PROVE GraphInv'
<1>1. /\ author[w].at = "merge" /\ UNCHANGED <<graph, cache, reader, lapses>>
      /\ author' = [author EXCEPT ![w].at = "done"]
      /\ late' = IF author[w].added
                 THEN late \union {k \in DOMAIN cache : k.user = Authors[w].user} ELSE late
  BY DEF EmbeddingFails
<1>2. late \subseteq late' /\ late' \subseteq late \union DOMAIN cache
  BY <1>1
<1>3. \A k \in DOMAIN cache : StillDrops(w, k) => k \in late'
  BY <1>1 DEF StillDrops
<1> QED
  BY <1>1, <1>2, <1>3, AuthorEndsEarly

LEMMA InvalidateFailsKeeps ==
    ASSUME GraphAssumptions, GraphInv, NEW w \in DOMAIN Authors, InvalidateFails(w) PROVE GraphInv'
<1>1. /\ UNCHANGED <<graph, cache, reader, lapses>>
      /\ author' = [author EXCEPT ![w].at = "done"]
      /\ late' = late \union {k \in DOMAIN cache : k.user = Authors[w].user}
  BY DEF InvalidateFails
<1>2. late \subseteq late' /\ late' \subseteq late \union DOMAIN cache
  BY <1>1
<1>3. \A k \in DOMAIN cache : StillDrops(w, k) => k \in late'
  BY <1>1 DEF StillDrops
<1> QED
  BY <1>1, <1>2, <1>3, AuthorEndsEarly

\* What is left of the cache is as it was.
LEMMA KeysLeft ==
    ASSUME GraphInv, NEW gone, UNCHANGED <<graph, reader>>,
           cache' = [j \in DOMAIN cache \ gone |-> cache[j]], late' = late \ gone,
           \A w \in DOMAIN Authors, k \in DOMAIN cache \ gone :
             StillDrops(w, k) => StillDrops(w, k)'
    PROVE  /\ DOMAIN cache' \subseteq DOMAIN cache /\ late' \subseteq late
           /\ \A k \in DOMAIN cache' : KeyFollows(k)' /\ KeyFits(k)'
<1>1. DOMAIN cache' = DOMAIN cache \ gone /\ \A k \in DOMAIN cache' : cache'[k] = cache[k]
  OBVIOUS
<1>2. ASSUME NEW k \in DOMAIN cache' PROVE KeyFollows(k)' /\ KeyFits(k)'
  <2>1. KeyFollows(k) /\ KeyFits(k) /\ k \notin gone
    BY <1>1 DEF GraphInv
  <2>2. KeyFits(k)' /\ (Follows(k) => Follows(k)')
    BY <1>1, <2>1 DEF KeyFits, Replies, Follows, Findings
  <2> QED
    BY <1>1, <2>1, <2>2 DEF KeyFollows
<1> QED
  BY <1>1, <1>2

LEMMA InvalidateKeeps ==
    ASSUME GraphAssumptions, GraphInv, NEW w \in DOMAIN Authors, Invalidate(w) PROVE GraphInv'
<1> DEFINE gone == Dropped(w)
<1>1. /\ author[w].at \in {"searches", "snapshots"} /\ UNCHANGED <<graph, reader, lapses>>
      /\ cache' = [j \in DOMAIN cache \ gone |-> cache[j]] /\ late' = late \ gone
      /\ author' = [author EXCEPT ![w].at = IF @ = "searches" THEN "snapshots" ELSE "done"]
      /\ Authors[w].user \in Users
  BY DEF Invalidate, GraphAssumptions
<1>2. /\ author'[w].at = IF author[w].at = "searches" THEN "snapshots" ELSE "done"
      /\ \A v \in DOMAIN Authors \ {w} : author'[v] = author[v]
  BY <1>1 DEF GraphInv, GraphTyped, ReaderStates, AuthorStates
<1>3. ASSUME NEW v \in DOMAIN Authors, NEW k \in DOMAIN cache \ gone, StillDrops(v, k)
      PROVE  StillDrops(v, k)'
  <2>1. CASE v # w
    BY <1>2, <1>3, <2>1 DEF StillDrops
  <2>2. CASE v = w /\ author[w].at = "searches"
    <3>1. k.query = "all"
      BY <1>3, <2>2 DEF Dropped, StillDrops
    <3> QED
      BY <1>2, <1>3, <2>2, <3>1 DEF StillDrops
  <2>3. CASE v = w /\ author[w].at = "snapshots"
    BY <1>1, <1>3, <2>3 DEF Dropped, StillDrops, GraphAssumptions
  <2> QED
    BY <1>1, <2>1, <2>2, <2>3
<1> HIDE DEF gone
<1>4. /\ DOMAIN cache' \subseteq DOMAIN cache /\ late' \subseteq late
      /\ \A k \in DOMAIN cache' : KeyFollows(k)' /\ KeyFits(k)'
  BY <1>1, <1>3, KeysLeft
<1>5. GraphTyped'
  BY <1>1, <1>4 DEF GraphInv, GraphTyped, ReaderStates, AuthorStates, AuthorPlaces
<1> QED
  BY <1>1, <1>4, <1>5, ReadersUntouched DEF GraphInv

LEMMA ExpireKeeps ==
    ASSUME GraphAssumptions, GraphInv, NEW k \in DOMAIN cache, Expire(k) PROVE GraphInv'
<1> DEFINE gone == {k}
<1>1. /\ lapses < MaxLapses /\ lapses' = lapses + 1 /\ UNCHANGED <<graph, reader, author>>
      /\ cache' = [j \in DOMAIN cache \ gone |-> cache[j]] /\ late' = late \ gone
  BY DEF Expire
<1>2. \A w \in DOMAIN Authors, j \in DOMAIN cache \ gone : StillDrops(w, j) => StillDrops(w, j)'
  BY <1>1 DEF StillDrops
<1> HIDE DEF gone
<1>3. /\ DOMAIN cache' \subseteq DOMAIN cache /\ late' \subseteq late
      /\ \A j \in DOMAIN cache' : KeyFollows(j)' /\ KeyFits(j)'
  BY <1>1, <1>2, KeysLeft
<1>4. lapses' \in 0..MaxLapses
  BY <1>1 DEF GraphInv, GraphTyped, ReaderStates, AuthorStates, GraphAssumptions
<1>5. GraphTyped'
  BY <1>1, <1>3, <1>4 DEF GraphInv, GraphTyped, ReaderStates, AuthorStates
<1> QED
  BY <1>1, <1>3, <1>5, ReadersUntouched DEF GraphInv

LEMMA GraphKeeps ==
    GraphAssumptions /\ GraphInv /\ [GraphNext]_graphVars => GraphInv'
<1> SUFFICES ASSUME GraphAssumptions, GraphInv, [GraphNext]_graphVars
             PROVE  GraphInv'
  OBVIOUS
<1>1. CASE UNCHANGED graphVars
  <2>1. UNCHANGED <<graph, cache, reader, author, lapses, late>>
    BY <1>1 DEF graphVars
  <2> QED
    BY <2>1, CacheUntouched, ReadersUntouched DEF GraphInv, GraphTyped, ReaderStates, AuthorStates
<1> QED
  BY <1>1, HitKeeps, QueryKeeps, KeepKeeps, KeepFailsKeeps, MergeKeeps, EmbeddingFailsKeeps,
     DeleteKeeps, InvalidateKeeps, InvalidateFailsKeeps, ExpireKeeps DEF GraphNext

LEMMA GraphSound ==
    ASSUME GraphAssumptions PROVE GraphSpec => []GraphInv
BY GraphStarts, GraphKeeps, PTL DEF GraphSpec

LEMMA GraphInvTypes ==
    ASSUME GraphInv PROVE GraphTypeOK
BY DEF GraphInv, GraphTyped, ReaderStates, AuthorStates, GraphTypeOK, ReaderPlaces, AuthorPlaces

LEMMA GraphInvSafe ==
    ASSUME GraphInv PROVE GraphSafe
<1>1. CacheFollowsGraph
  <2> SUFFICES ASSUME NEW k \in DOMAIN cache
               PROVE  k \in late \/ Writing(k.user) \/ Follows(k)
    BY DEF CacheFollowsGraph, Follows
  <2>1. ASSUME NEW w \in DOMAIN Authors, StillDrops(w, k) PROVE Writing(k.user)
    BY <2>1 DEF GraphInv, GraphTyped, ReaderStates, AuthorStates, StillDrops, Writing
  <2> QED
    BY <2>1 DEF GraphInv, KeyFollows
<1>2. AnswersFit
  BY DEF GraphInv, GraphTyped, ReaderStates, AuthorStates, AnswerFits, Replies, AnswersFit, KeyOf
<1> QED
  BY <1>1, <1>2 DEF GraphSafe

\* The graph, its cache and what readers and authors hold keep their types.
THEOREM GraphTypeCorrect ==
    ASSUME GraphAssumptions PROVE GraphSpec => []GraphTypeOK
<1>1. GraphSpec => []GraphInv
  BY GraphSound
<1> QED
  BY <1>1, GraphInvTypes, PTL

(* What the cache holds is what the graph would answer, unless an author   *)
(* is still to drop it or it is known to be late, and no answer has more    *)
(* than was asked for but a search cached for another limit: for every      *)
(* number of readers and authors, and whichever of their steps fail between *)
(* the graph (falkordb.py) and the cache (core/memory/cache).               *)
THEOREM GraphIsSafe ==
    ASSUME GraphAssumptions PROVE GraphSpec => []GraphSafe
<1>1. GraphSpec => []GraphInv
  BY GraphSound
<1> QED
  BY <1>1, GraphInvSafe, PTL

----------------------------------------------------------------------------
(* How well memories are remembered                                        *)

Thousandths == 0..1000

\* The grades of FSRS, and those of a review that passes.
Grades == {"again", "hard", "good", "easy"}
Passes == {"hard", "good", "easy"}
DynamicsAssumptions == \A c \in DOMAIN Reviews : Reviews[c].grade \in Grades

Reviewers == {Reviews[c].user : c \in DOMAIN Reviews}
RowRecords ==
  [user : Reviewers, count : Nat, base : Nat, retrieval : Thousandths, storage : Nat,
   failures : Nat]

RowsTyped ==
  /\ DOMAIN rows \subseteq Memories /\ crossed \subseteq Memories
  /\ written \in [Memories -> Nat]
  /\ review \in [DOMAIN Reviews -> [at : {"load", "insert", "save", "done"}, row : RowRecords]]
  /\ \A m \in DOMAIN rows : rows[m] \in RowRecords

\* Two reviews of one memory that are both under way have crossed.
Reviewing(c) == review[c].at \in {"insert", "save"}
CrossingsKnown ==
  \A c, d \in DOMAIN Reviews :
    c # d /\ Reviewing(c) /\ Reviewing(d) /\ Reviews[c].memory = Reviews[d].memory =>
      Reviews[c].memory \in crossed

\* What a review has for the row: the defaults until it is inserted, then a
\* copy that only a crossing can make stale, and that has no more accesses
\* than were logged and counted at the creation of the row.
CopyFollows(c) ==
  LET m == Reviews[c].memory
  IN /\ review[c].at \in {"load", "insert"} => review[c].row = Default(Reviews[c].user)
     /\ review[c].at = "save" =>
          /\ m \in DOMAIN rows /\ review[c].row.base = rows[m].base
          /\ review[c].row.count <= rows[m].base + written[m]
          /\ m \notin crossed => review[c].row = rows[m]

UnloggedWithoutRow == \A m \in Memories \ DOMAIN rows : written[m] = 0

RowSound(m) ==
  /\ rows[m].count <= rows[m].base + written[m]
  /\ m \notin crossed =>
       /\ rows[m].count = rows[m].base + written[m]
       /\ rows[m].storage <= 1000 + 50 * rows[m].failures

DynamicsInv ==
  /\ RowsTyped /\ CrossingsKnown /\ UnloggedWithoutRow
  /\ \A c \in DOMAIN Reviews : CopyFollows(c)
  /\ \A m \in DOMAIN rows : RowSound(m)

\* The columns written over a row make a row; the accesses of one who changed
\* them are those of what is written.
LEMMA ChangedFields ==
    ASSUME NEW old \in RowRecords, NEW copy \in RowRecords, NEW new \in RowRecords
    PROVE  /\ Changed(old, copy, new) \in RowRecords
           /\ new.count # copy.count => Changed(old, copy, new).count = new.count
           /\ new.base = copy.base => Changed(old, copy, new).base = old.base
<1> DEFINE Columns == {"user", "count", "base", "retrieval", "storage", "failures"}
           r == Changed(old, copy, new)
<1>1. DOMAIN old = Columns
  BY DEF RowRecords
<1>2. r = [f \in Columns |-> IF new[f] = copy[f] THEN old[f] ELSE new[f]]
  BY <1>1 DEF Changed
<1> HIDE DEF r
<1>3. /\ r["user"] \in Reviewers /\ r["count"] \in Nat /\ r["base"] \in Nat
      /\ r["retrieval"] \in Thousandths
      /\ r["storage"] \in Nat /\ r["failures"] \in Nat
  BY <1>2 DEF RowRecords
<1>4. r = [user |-> r["user"], count |-> r["count"], base |-> r["base"],
           retrieval |-> r["retrieval"], storage |-> r["storage"], failures |-> r["failures"]]
  BY <1>2
<1>5. /\ new["count"] # copy["count"] => r["count"] = new["count"]
      /\ new["base"] = copy["base"] => r["base"] = old["base"]
  BY <1>2
<1>6. /\ new["count"] = new.count /\ copy["count"] = copy.count /\ r["count"] = r.count
      /\ new["base"] = new.base /\ copy["base"] = copy.base
      /\ r["base"] = r.base /\ old["base"] = old.base
  OBVIOUS
<1> QED
  BY <1>3, <1>4, <1>5, <1>6 DEF RowRecords, r

\* A copy that is not stale is written whole.
LEMMA ChangedFromCurrent ==
    ASSUME NEW old \in RowRecords, NEW new \in RowRecords
    PROVE  Changed(old, old, new) = new
BY DEF Changed, RowRecords

LEMMA GainsAreNatural ==
    ASSUME NEW grade \in Passes, NEW lack \in Thousandths
    PROVE  Gain(grade, lack) \in Nat /\ Boost[grade] \in Nat
<1>1. CASE grade = "hard"
  BY <1>1 DEF Gain, Boost, Thousandths
<1>2. CASE grade = "good"
  BY <1>2 DEF Gain, Boost, Thousandths
<1>3. CASE grade = "easy"
  BY <1>3 DEF Gain, Boost, Thousandths
<1> QED
  BY <1>1, <1>2, <1>3 DEF Passes

\* What a review makes of its copy.
Reviewed(copy, grade, decayed) ==
  [UpdateDualStrength(copy, grade, decayed) EXCEPT !.count = copy.count + 1]

Row(user, count, base, retrieval, storage, fails) ==
  [user |-> user, count |-> count, base |-> base, retrieval |-> retrieval, storage |-> storage,
   failures |-> fails]

\* What a review is to make of a row with these values.
Succeeds(new, count, base, storage, fails) ==
  /\ new \in RowRecords /\ new.count = count + 1 /\ new.base = base
  /\ storage <= 1000 + 50 * fails => new.storage <= 1000 + 50 * new.failures

\* A review makes a row of a row, and leaves what is stored within its bound.
LEMMA ReviewsOfRows ==
    ASSUME NEW user \in Reviewers, NEW count \in Nat, NEW base \in Nat, NEW retrieval \in Thousandths,
           NEW storage \in Nat, NEW fails \in Nat, NEW grade \in Grades,
           NEW decayed \in Thousandths
    PROVE  Succeeds(Reviewed(Row(user, count, base, retrieval, storage, fails), grade, decayed),
                    count, base, storage, fails)
<1> DEFINE new == Reviewed(Row(user, count, base, retrieval, storage, fails), grade, decayed)
<1>1. CASE grade = "again"
  <2>1. new = Row(user, count + 1, base, 300, storage + 50, fails + 1)
    <3>1. Failed(Row(user, count, base, retrieval, storage, fails)) =
            Row(user, count, base, 300, storage + 50, fails + 1)
      <4> DEFINE R == Row(user, count, base, retrieval, storage, fails)
      <4>1. R.storage = storage /\ R.failures = fails
        BY DEF Row
      <4>2. Failed(R) = [R EXCEPT !.retrieval = 300, !.storage = storage + 50,
                                  !.failures = fails + 1]
        <5> HIDE DEF R
        <5>1. Failed(R) = [R EXCEPT !.retrieval = 300, !.storage = R.storage + 50,
                                    !.failures = R.failures + 1]
          BY SMTT(30) DEF Failed
        <5> QED
          BY <4>1, <5>1, Zenon
      <4> DEFINE R1 == [R EXCEPT !.retrieval = 300]
                 R2 == [R1 EXCEPT !.storage = storage + 50]
                 R3 == [R2 EXCEPT !.failures = fails + 1]
      <4>3. R1 = Row(user, count, base, 300, storage, fails)
        BY DEF Row
      <4> HIDE DEF R1
      <4>4. R2 = Row(user, count, base, 300, storage + 50, fails)
        BY <4>3 DEF Row
      <4> HIDE DEF R2
      <4>5. R3 = Row(user, count, base, 300, storage + 50, fails + 1)
        BY <4>4 DEF Row
      <4> HIDE DEF R
      <4>6. Failed(R) = R3
        BY <4>2 DEF R1, R2
      <4> QED
        BY <4>5, <4>6 DEF R
    <3>2. new = [Row(user, count, base, 300, storage + 50, fails + 1) EXCEPT !.count = count + 1]
      <4>1. new = [Failed(Row(user, count, base, retrieval, storage, fails))
                     EXCEPT !.count = Row(user, count, base, retrieval, storage, fails).count + 1]
        BY <1>1 DEF Reviewed, UpdateDualStrength
      <4>2. Row(user, count, base, retrieval, storage, fails).count = count
        BY DEF Row
      <4> QED
        BY <3>1, <4>1, <4>2
    <3> QED
      BY <3>2 DEF Row
  <2>2. /\ 300 \in Thousandths /\ storage + 50 \in Nat /\ fails + 1 \in Nat
        /\ storage <= 1000 + 50 * fails => storage + 50 <= 1000 + 50 * (fails + 1)
    BY DEF Thousandths
  <2> QED
    BY <2>1, <2>2 DEF Row, RowRecords, Succeeds
<1>2. CASE grade # "again"
  <2>1. PICK lack \in Thousandths : lack = 1000 - decayed
    BY DEF Thousandths
  <2>2. grade \in Passes
    BY <1>2 DEF Grades, Passes
  <2>3. PICK gain \in Nat, boost \in Nat : gain = Gain(grade, lack) /\ boost = Boost[grade]
    <3>1. Gain(grade, lack) \in Nat /\ Boost[grade] \in Nat
      BY <2>2, GainsAreNatural
    <3> QED
      BY <3>1
  <2> DEFINE p == AtMost(1000, decayed + boost)
             t == AtMost(1000, storage + gain)
  <2>4. new = Row(user, count + 1, base, p, t, 0)
    <3>1. UpdateDualStrength(Row(user, count, base, retrieval, storage, fails), grade, decayed) =
            Row(user, count, base, p, t, 0)
      <4> HIDE DEF p, t
      <4>1. UpdateDualStrength(Row(user, count, base, retrieval, storage, fails), grade, decayed) =
              [Row(user, count, base, retrieval, storage, fails)
                 EXCEPT !.retrieval = p, !.storage = t, !.failures = 0]
        <5>1. Row(user, count, base, retrieval, storage, fails).storage = storage
          BY DEF Row
        <5> QED
          BY <1>2, <2>1, <2>3, <5>1 DEF UpdateDualStrength, p, t
      <4> QED
        BY <4>1 DEF Row
    <3>2. Row(user, count, base, retrieval, storage, fails).count = count
      BY DEF Row
    <3>3. new = [Row(user, count, base, p, t, 0) EXCEPT !.count = count + 1]
      BY <3>1, <3>2 DEF Reviewed
    <3> HIDE DEF p, t
    <3> QED
      BY <3>3 DEF Row
  <2>5. p \in Thousandths /\ t \in Thousandths
    BY DEF AtMost, Thousandths
  <2> HIDE DEF p, t
  <2> QED
    <3>1. /\ new \in RowRecords /\ new.count = count + 1 /\ new.base = base /\ new.storage = t
        /\ new.failures = 0
      <4>1. t \in Nat /\ 0 \in Nat
        BY <2>5 DEF Thousandths
      <4> QED
        BY <2>4, <2>5, <4>1 DEF Row, RowRecords
    <3>2. t <= 1000 + 50 * 0
      BY <2>5 DEF Thousandths
    <3> QED
      BY <3>1, <3>2 DEF Succeeds
<1> QED
  BY <1>1, <1>2

LEMMA ReviewsMakeRows ==
    ASSUME NEW old \in RowRecords, NEW grade \in Grades, NEW decayed \in Thousandths
    PROVE  Succeeds(Reviewed(old, grade, decayed), old.count, old.base, old.storage, old.failures)
<1>1. PICK user \in Reviewers, count \in Nat, base \in Nat, retrieval \in Thousandths, storage \in Nat,
           fails \in Nat : old = Row(user, count, base, retrieval, storage, fails)
  BY DEF RowRecords, Row
<1>2. old.count = count /\ old.base = base /\ old.storage = storage /\ old.failures = fails
  BY <1>1 DEF Row
<1>3. Succeeds(Reviewed(Row(user, count, base, retrieval, storage, fails), grade, decayed),
               count, base, storage, fails)
  BY ReviewsOfRows
<1> QED
  BY <1>1, <1>2, <1>3

LEMMA DefaultsAreRows ==
    ASSUME NEW c \in DOMAIN Reviews
    PROVE  /\ Default(Reviews[c].user) \in RowRecords
           /\ Default(Reviews[c].user).count = 0 /\ Default(Reviews[c].user).base = 0
           /\ Default(Reviews[c].user).failures = 0
           /\ Default(Reviews[c].user).storage = 500
           /\ RowWith(Reviews[c].user, 1, 1) \in RowRecords
           /\ RowWith(Reviews[c].user, 1, 1).count = 1 /\ RowWith(Reviews[c].user, 1, 1).base = 1
           /\ RowWith(Reviews[c].user, 1, 1).storage = 500
           /\ RowWith(Reviews[c].user, 1, 1).failures = 0
BY DEF Default, RowWith, RowRecords, Reviewers, Thousandths

LEMMA DynamicsStarts == DynamicsInit => DynamicsInv
<1> SUFFICES ASSUME DynamicsInit PROVE DynamicsInv
  OBVIOUS
<1>1. DOMAIN rows = {}
  BY DEF DynamicsInit
<1>2. \A c \in DOMAIN Reviews : /\ review[c].at = "load"
                                /\ review[c].row = Default(Reviews[c].user)
  BY DEF DynamicsInit
<1>3. RowsTyped
  BY <1>1, DefaultsAreRows DEF DynamicsInit, RowsTyped
<1> QED
  BY <1>1, <1>2, <1>3
  DEF DynamicsInit, DynamicsInv, CrossingsKnown, Reviewing, CopyFollows, UnloggedWithoutRow

LEMMA LoadKeeps ==
    ASSUME DynamicsInv, NEW c \in DOMAIN Reviews, Load(c) PROVE DynamicsInv'
<1> DEFINE m == Reviews[c].memory
<1>1. /\ m \in Memories /\ review[c].at = "load" /\ rows' = rows /\ written' = written
      /\ review[c].row = Default(Reviews[c].user)
      /\ crossed' = IF Busy(m, c) THEN crossed \union {m} ELSE crossed
  BY DEF Load, Crosses, DynamicsInv, CopyFollows, Memories
<1>2. \/ /\ m \in DOMAIN rows
         /\ review' = [review EXCEPT ![c] = [at |-> "save", row |-> rows[m]]]
      \/ review' = [review EXCEPT ![c].at = "insert"]
  BY DEF Load
<1>3. /\ \A d \in DOMAIN Reviews \ {c} : review'[d] = review[d]
      /\ review'[c].at \in {"insert", "save"}
  BY <1>2 DEF DynamicsInv, RowsTyped
<1>4. RowsTyped'
  BY <1>1, <1>2 DEF DynamicsInv, RowsTyped
<1>5. CrossingsKnown'
  <2>1. \A d \in DOMAIN Reviews \ {c} : Reviewing(d) /\ Reviews[d].memory = m => m \in crossed'
    BY <1>1 DEF Busy, Reviewing, DynamicsInv, RowsTyped
  <2> QED
    BY <1>1, <1>3, <2>1 DEF CrossingsKnown, Reviewing, DynamicsInv
<1>6. \A d \in DOMAIN Reviews \ {c} : CopyFollows(d)'
  BY <1>1, <1>3 DEF DynamicsInv, CopyFollows
<1>7. CopyFollows(c)'
  BY <1>1, <1>2 DEF DynamicsInv, RowsTyped, CopyFollows, RowSound
<1>8. \A k \in DOMAIN rows : RowSound(k)'
  BY <1>1 DEF DynamicsInv, RowSound
<1> QED
  BY <1>1, <1>4, <1>5, <1>6, <1>7, <1>8 DEF DynamicsInv, UnloggedWithoutRow

LEMMA InsertKeeps ==
    ASSUME DynamicsInv, NEW c \in DOMAIN Reviews, Insert(c) PROVE DynamicsInv'
<1> DEFINE m == Reviews[c].memory
           new == Default(Reviews[c].user)
<1>1. /\ m \in Memories /\ review[c].at = "insert" /\ written' = written /\ crossed' = crossed
      /\ review[c].row = new
  BY DEF Insert, DynamicsInv, CopyFollows, Memories
<1>2. /\ \A d \in DOMAIN Reviews \ {c} : review'[d] = review[d]
      /\ review' = [review EXCEPT ![c].at = IF m \in DOMAIN rows THEN "done" ELSE "save"]
  BY DEF Insert, DynamicsInv, RowsTyped
<1>3. CrossingsKnown'
  BY <1>1, <1>2 DEF CrossingsKnown, Reviewing, DynamicsInv, RowsTyped
<1>4. CASE m \in DOMAIN rows
  <2>1. rows' = rows
    BY <1>4 DEF Insert
  <2>2. RowsTyped' /\ UnloggedWithoutRow' /\ \A k \in DOMAIN rows' : RowSound(k)'
    BY <1>1, <1>2, <2>1 DEF DynamicsInv, RowsTyped, UnloggedWithoutRow, RowSound
  <2>3. \A d \in DOMAIN Reviews : CopyFollows(d)'
    BY <1>1, <1>2, <1>4, <2>1 DEF DynamicsInv, RowsTyped, CopyFollows
  <2> QED
    BY <1>3, <2>2, <2>3 DEF DynamicsInv
<1>5. CASE m \notin DOMAIN rows
  <2>1. rows' = With(rows, m, new)
    BY <1>5 DEF Insert
  <2>2. /\ DOMAIN rows' = DOMAIN rows \cup {m} /\ rows'[m] = new
        /\ \A k \in DOMAIN rows : rows'[k] = rows[k]
    BY <1>5, <2>1 DEF With
  <2>3. RowsTyped'
    BY <1>1, <1>2, <2>2, DefaultsAreRows DEF DynamicsInv, RowsTyped
  <2>4. UnloggedWithoutRow' /\ \A k \in DOMAIN rows' : RowSound(k)'
    <3>1. written[m] = 0
      BY <1>1, <1>5 DEF DynamicsInv, UnloggedWithoutRow
    <3>2. RowSound(m)'
      BY <1>1, <2>2, <3>1, DefaultsAreRows DEF RowSound
    <3>3. \A k \in DOMAIN rows : RowSound(k)'
      BY <1>1, <2>2 DEF RowSound, DynamicsInv
    <3> QED
      BY <1>1, <2>2, <3>2, <3>3 DEF DynamicsInv, UnloggedWithoutRow
  <2>5. \A d \in DOMAIN Reviews \ {c} : CopyFollows(d)'
    BY <1>1, <1>2, <2>2 DEF DynamicsInv, CopyFollows
  <2>6. CopyFollows(c)'
    <3>1. review'[c].at = "save" /\ review'[c].row = new
      BY <1>1, <1>2, <1>5 DEF DynamicsInv, RowsTyped
    <3>2. new.count <= new.base + written[m]
      BY <1>1, DefaultsAreRows DEF DynamicsInv, RowsTyped
    <3> QED
      BY <1>1, <2>2, <3>1, <3>2 DEF CopyFollows
  <2> QED
    BY <1>3, <2>3, <2>4, <2>5, <2>6 DEF DynamicsInv
<1> QED
  BY <1>4, <1>5

LEMMA SaveKeeps ==
    ASSUME DynamicsAssumptions, DynamicsInv, NEW c \in DOMAIN Reviews, Save(c) PROVE DynamicsInv'
<1> DEFINE m == Reviews[c].memory
           copy == review[c].row
<1>1. /\ m \in Memories /\ m \in DOMAIN rows /\ review[c].at = "save" /\ crossed' = crossed
      /\ copy \in RowRecords /\ rows[m] \in RowRecords
      /\ copy.base = rows[m].base /\ copy.count <= rows[m].base + written[m]
      /\ m \notin crossed => copy = rows[m]
      /\ RowSound(m)
  BY DEF Save, DynamicsInv, CopyFollows, Memories, RowsTyped
<1>2. PICK decayed :
        /\ decayed = 0 \/ decayed = copy.retrieval
        /\ rows' = [rows EXCEPT ![m] = Changed(@, copy, Reviewed(copy, Reviews[c].grade, decayed))]
  BY DEF Save, Reviewed
<1>3. decayed \in Thousandths /\ Reviews[c].grade \in Grades
  <2>1. copy.retrieval \in Thousandths
    BY <1>1 DEF RowRecords
  <2>2. 0 \in Thousandths
    BY DEF Thousandths
  <2>3. decayed \in Thousandths
    BY <1>2, <2>1, <2>2
  <2> QED
    BY <2>3 DEF DynamicsAssumptions
<1> DEFINE new == Reviewed(copy, Reviews[c].grade, decayed)
           saved == Changed(rows[m], copy, new)
<1>4. /\ new \in RowRecords /\ new.count = copy.count + 1 /\ new.base = copy.base
      /\ copy.storage <= 1000 + 50 * copy.failures => new.storage <= 1000 + 50 * new.failures
  <2>1. Succeeds(new, copy.count, copy.base, copy.storage, copy.failures)
    BY <1>1, <1>3, ReviewsMakeRows
  <2> HIDE DEF new, copy
  <2> QED
    BY <2>1 DEF Succeeds
<1>5. /\ DOMAIN rows' = DOMAIN rows /\ rows'[m] = saved
      /\ \A k \in DOMAIN rows \ {m} : rows'[k] = rows[k]
  BY <1>1, <1>2
<1> HIDE DEF new
<1>6. /\ saved \in RowRecords /\ saved.count = copy.count + 1 /\ saved.base = rows[m].base
      /\ m \notin crossed => saved = new
  <2>1. new.count # copy.count
    BY <1>1, <1>4 DEF RowRecords
  <2>2. saved \in RowRecords /\ saved.count = new.count /\ saved.base = rows[m].base
    BY <1>1, <1>4, <2>1, ChangedFields
  <2>3. m \notin crossed => saved = new
    BY <1>1, <1>4, ChangedFromCurrent
  <2> QED
    BY <1>4, <2>2, <2>3
<1> HIDE DEF saved
<1>7. /\ written[m] \in Nat /\ written' \in [Memories -> Nat] /\ written'[m] = written[m] + 1
      /\ \A k \in Memories \ {m} : written'[k] = written[k]
  BY <1>1 DEF Save, DynamicsInv, RowsTyped
<1>8. /\ review' = [review EXCEPT ![c].at = "done"]
      /\ review'[c].at = "done" /\ \A d \in DOMAIN Reviews \ {c} : review'[d] = review[d]
  BY DEF Save, DynamicsInv, RowsTyped
<1>9. RowsTyped'
  BY <1>1, <1>5, <1>6, <1>7, <1>8 DEF DynamicsInv, RowsTyped
<1>10. CrossingsKnown'
  BY <1>1, <1>8 DEF CrossingsKnown, Reviewing, DynamicsInv
<1>11. UnloggedWithoutRow'
  BY <1>1, <1>5, <1>7 DEF UnloggedWithoutRow, DynamicsInv
<1>12. \A k \in DOMAIN rows' : RowSound(k)'
  <2>1. copy.count \in Nat /\ rows[m].base \in Nat
    BY <1>1 DEF RowRecords
  <2>2. RowSound(m)'
    BY <1>1, <1>4, <1>5, <1>6, <1>7, <2>1 DEF RowSound
  <2>3. \A k \in DOMAIN rows \ {m} : k \in Memories \ {m}
    BY DEF DynamicsInv, RowsTyped
  <2>4. \A k \in DOMAIN rows \ {m} : RowSound(k)'
    BY <1>1, <1>5, <1>7, <2>3 DEF RowSound, DynamicsInv
  <2> QED
    BY <1>5, <2>2, <2>4
<1>13. ASSUME NEW d \in DOMAIN Reviews PROVE CopyFollows(d)'
  <2>1. CASE d = c
    BY <1>8, <2>1 DEF CopyFollows
  <2>2. CASE d # c /\ Reviews[d].memory # m
    <3>1. Reviews[d].memory \in Memories
      BY DEF Memories
    <3> QED
      BY <1>1, <1>5, <1>7, <1>8, <2>2, <3>1 DEF CopyFollows, DynamicsInv
  <2>3. CASE d # c /\ Reviews[d].memory = m
    <3>1. review[d].at = "save" => m \in crossed
      BY <1>1, <2>3 DEF DynamicsInv, CrossingsKnown, Reviewing
    <3>2. review[d].row.count \in Nat /\ rows[m].base \in Nat
      BY <1>1 DEF DynamicsInv, RowsTyped, RowRecords
    <3>3. review[d].at = "save" => review[d].row.count <= rows[m].base + written'[m]
      BY <1>7, <2>3, <3>2 DEF CopyFollows, DynamicsInv
    <3> QED
      BY <1>1, <1>5, <1>6, <1>8, <2>3, <3>1, <3>3 DEF CopyFollows, DynamicsInv
  <2> QED
    BY <2>1, <2>2, <2>3
<1> QED
  BY <1>9, <1>10, <1>11, <1>12, <1>13 DEF DynamicsInv

LEMMA SaveFailsKeeps ==
    ASSUME DynamicsInv, NEW c \in DOMAIN Reviews, SaveFails(c) PROVE DynamicsInv'
<1>1. /\ rows' = rows /\ written' = written /\ crossed' = crossed
      /\ review'[c].at = "done" /\ \A d \in DOMAIN Reviews \ {c} : review'[d] = review[d]
  BY DEF SaveFails, DynamicsInv, RowsTyped
<1>2. RowsTyped'
  BY <1>1 DEF SaveFails, DynamicsInv, RowsTyped
<1>3. CrossingsKnown' /\ \A d \in DOMAIN Reviews : CopyFollows(d)'
  BY <1>1 DEF DynamicsInv, CrossingsKnown, Reviewing, CopyFollows
<1> QED
  BY <1>1, <1>2, <1>3 DEF DynamicsInv, UnloggedWithoutRow, RowSound

\* The writer makes a row where there is none: no review has a copy of it.
LEMMA CreateKeeps ==
    ASSUME DynamicsInv, NEW c \in DOMAIN Reviews,
           CreateRecord(Reviews[c].memory, Reviews[c].user)
    PROVE  DynamicsInv'
<1> DEFINE m == Reviews[c].memory
           new == RowWith(Reviews[c].user, 1, 1)
<1>1. /\ m \in Memories /\ m \notin DOMAIN rows /\ rows' = With(rows, m, new)
      /\ review' = review /\ written' = written /\ crossed' = crossed
  BY DEF CreateRecord, Memories
<1>2. /\ DOMAIN rows' = DOMAIN rows \cup {m} /\ rows'[m] = new
      /\ \A k \in DOMAIN rows : rows'[k] = rows[k]
  BY <1>1 DEF With
<1>3. RowsTyped' /\ CrossingsKnown'
  BY <1>1, <1>2, DefaultsAreRows DEF DynamicsInv, RowsTyped, CrossingsKnown, Reviewing
<1>4. written[m] = 0
  BY <1>1 DEF DynamicsInv, UnloggedWithoutRow
<1>5. RowSound(m)'
  BY <1>1, <1>2, <1>4, DefaultsAreRows DEF RowSound
<1>6. \A k \in DOMAIN rows : RowSound(k)'
  BY <1>1, <1>2 DEF RowSound, DynamicsInv
<1>7. \A d \in DOMAIN Reviews : CopyFollows(d)'
  BY <1>1, <1>2 DEF CopyFollows, DynamicsInv
<1> QED
  BY <1>1, <1>2, <1>3, <1>5, <1>6, <1>7 DEF DynamicsInv, UnloggedWithoutRow

LEMMA DynamicsKeeps ==
    DynamicsAssumptions /\ DynamicsInv /\ [DynamicsNext]_dynamicsVars => DynamicsInv'
<1> SUFFICES ASSUME DynamicsAssumptions, DynamicsInv, [DynamicsNext]_dynamicsVars
             PROVE  DynamicsInv'
  OBVIOUS
<1>1. CASE UNCHANGED dynamicsVars
  BY <1>1 DEF dynamicsVars, DynamicsInv, RowsTyped, CrossingsKnown, Reviewing, CopyFollows,
              UnloggedWithoutRow, RowSound
<1> QED
  BY <1>1, LoadKeeps, InsertKeeps, SaveKeeps, SaveFailsKeeps, CreateKeeps DEF DynamicsNext

LEMMA DynamicsSound ==
    ASSUME DynamicsAssumptions PROVE DynamicsSpec => []DynamicsInv
BY DynamicsStarts, DynamicsKeeps, PTL DEF DynamicsSpec

LEMMA DynamicsInvTypes ==
    ASSUME DynamicsInv PROVE DynamicsTypeOK
BY DEF DynamicsInv, RowsTyped, DynamicsTypeOK

LEMMA DynamicsInvSafe ==
    ASSUME DynamicsInv PROVE DynamicsSafe
BY DEF DynamicsInv, DynamicsSafe, CountsAgree, StrengthsBounded, RowSound, RowsTyped, RowRecords,
       Thousandths

\* The rows, the reviews and their logged accesses keep their types.
THEOREM DynamicsTypeCorrect ==
    ASSUME DynamicsAssumptions PROVE DynamicsSpec => []DynamicsTypeOK
<1>1. DynamicsSpec => []DynamicsInv
  BY DynamicsSound
<1> QED
  BY <1>1, DynamicsInvTypes, PTL

(* A row counts every logged access once, and its creation if it was the   *)
(* writer that made it (core/memory/writer.py), and its strengths keep to  *)
(* their bounds: whatever the grades, whenever rows are created, and       *)
(* however many reviews of its memory the executor runs, unless two of     *)
(* them overlapped between the look for the row and the commit of          *)
(* _update_sync (core/memory/dynamics/manager.py).                         *)
THEOREM DynamicsAreSafe ==
    ASSUME DynamicsAssumptions PROVE DynamicsSpec => []DynamicsSafe
<1>1. DynamicsSpec => []DynamicsInv
  BY DynamicsSound
<1> QED
  BY <1>1, DynamicsInvSafe, PTL
=============================================================================
