------------------------- MODULE GatewayServerProofs -------------------------
(***************************************************************************)
(* Machine-checked proofs about GatewayServer, for any connections and     *)
(* requests.  The server takes only some of the router's steps, so what it *)
(* needs of the router is proved here for those.                           *)
(*                                                                         *)
(* And about the sandboxes that calls of tools run in, for any callers,    *)
(* users and names of containers.                                          *)
(***************************************************************************)
EXTENDS GatewayServer, Sandboxes, DistinctSequences

----------------------------------------------------------------------------
(* Types *)

LEMMA FrameTypes ==
    /\ \A r \in Requests : /\ [kind |-> "message", request |-> r] \in Frames
                           /\ [kind |-> "cancel", request |-> r] \in Frames
    /\ \A v \in BOOLEAN : [kind |-> "register", valid |-> v] \in Frames
BY DEF Frames

LEMMA AppendFrame ==
    ASSUME NEW k \in Conns, NEW f \in Frames, TypeOK
    PROVE  [inbox EXCEPT ![k] = Append(@, f)] \in [Conns -> Seq(Frames)]
<1>1. inbox[k] \in Seq(Frames) /\ Append(inbox[k], f) \in Seq(Frames)
  BY DEF TypeOK
<1> QED
  BY <1>1 DEF TypeOK

LEMMA ReadType ==
    ASSUME NEW k \in Conns, NEW f, Read(k, f), TypeOK
    PROVE  inbox' \in [Conns -> Seq(Frames)]
<1>1. inbox[k] \in Seq(Frames) /\ inbox[k] # <<>>
  BY DEF TypeOK, Read
<1>2. Tail(inbox[k]) \in Seq(Frames)
  BY <1>1
<1> QED
  BY <1>2 DEF TypeOK, Read

LEMMA ProcessType ==
    ASSUME TypeOK, NEW h \in Conns \cup {Timer}, Process(h)
    PROVE  host' \in [Requests -> Conns \cup {Timer, None}] /\ step' \in [Requests -> Steps]
BY DEF Process, TypeOK, Steps

LEMMA TellType ==
    ASSUME TypeOK, NEW r \in Requests, NEW k,
           NEW what \in {"answer", "error", "cancelled"}, Tell(r, what, k)
    PROVE  told' \in [Requests -> SUBSET {"answer", "error", "cancelled"}]
<1>1. told \in [Requests -> SUBSET {"answer", "error", "cancelled"}]
  BY DEF TypeOK
<1>2. told[r] \cup {what} \in SUBSET {"answer", "error", "cancelled"}
  BY <1>1
<1> QED
  BY <1>1, <1>2 DEF Tell

LEMMA MoveType ==
    ASSUME TypeOK, NEW r \in Requests, NEW from, NEW to \in Steps, Move(r, from, to)
    PROVE  step' \in [Requests -> Steps]
BY DEF TypeOK, Move

LEMMA TypeInit == Init => TypeOK
<1> SUFFICES ASSUME Init PROVE TypeOK
  OBVIOUS
<1>1. <<>> \in Seq(Frames)
  OBVIOUS
<1>2. inbox \in [Conns -> Seq(Frames)]
  BY <1>1 DEF Init
<1> QED
  BY <1>2 DEF Init, TypeOK, Steps

LEMMA TypeStep == TypeOK /\ [Next]_vars => TypeOK'
<1> SUFFICES ASSUME TypeOK, [Next]_vars PROVE TypeOK'
  OBVIOUS
<1>1. ASSUME NEW k \in Conns, NEW f \in Frames, Arrives(k, f), sent' \subseteq Requests
      PROVE  TypeOK'
  <2>1. inbox' \in [Conns -> Seq(Frames)]
    BY <1>1, AppendFrame DEF Arrives
  <2> QED
    BY <1>1, <2>1 DEF Arrives, TypeOK, chainVars
<1>2. ASSUME NEW k \in Conns, NEW f, Read(k, f), UNCHANGED <<sent, ended, host, step, told>>,
             open' \subseteq open, local' \subseteq local \cup {k}
      PROVE  TypeOK'
  <2>1. inbox' \in [Conns -> Seq(Frames)]
    BY <1>2, ReadType
  <2> QED
    BY <1>2, <2>1 DEF TypeOK
<1>3. ASSUME NEW r \in Requests, NEW from, NEW to \in Steps, Move(r, from, to),
             UNCHANGED <<connVars, host, told>>
      PROVE  TypeOK'
  <2>1. step' \in [Requests -> Steps]
    BY <1>3, MoveType
  <2> QED
    BY <1>3, <2>1 DEF TypeOK, connVars
<1>4. ASSUME NEW k \in Conns, NEW valid \in BOOLEAN, ClientRegisters(k, valid)
      PROVE  TypeOK'
  <2>1. [kind |-> "register", valid |-> valid] \in Frames
    BY FrameTypes
  <2>2. sent' \subseteq Requests
    BY <1>4 DEF ClientRegisters, TypeOK
  <2> QED
    BY <1>1, <1>4, <2>1, <2>2 DEF ClientRegisters
<1>5. ASSUME NEW r \in Requests, ClientSends(r)
      PROVE  TypeOK'
  <2>1. [kind |-> "message", request |-> r] \in Frames /\ Origin[r] \in Conns
    BY FrameTypes, ServerConstants
  <2>2. sent' \subseteq Requests
    BY <1>5 DEF ClientSends, TypeOK
  <2> QED
    BY <1>1, <1>5, <2>1, <2>2 DEF ClientSends
<1>6. ASSUME NEW r \in Requests, ClientCancels(r)
      PROVE  TypeOK'
  <2>1. [kind |-> "cancel", request |-> r] \in Frames /\ Origin[r] \in Conns
    BY FrameTypes, ServerConstants
  <2>2. sent' \subseteq Requests
    BY <1>6 DEF ClientCancels, TypeOK
  <2> QED
    BY <1>1, <1>6, <2>1, <2>2 DEF ClientCancels
<1>7. ASSUME NEW k \in Conns, Disconnect(k)
      PROVE  TypeOK'
  BY <1>7 DEF Disconnect, TypeOK, chainVars
<1>8. ASSUME NEW k \in Conns, Register(k) \/ RefuseRegister(k)
      PROVE  TypeOK'
  <2>1. PICK f : Read(k, f)
    BY <1>8 DEF Register, RefuseRegister
  <2>2. /\ UNCHANGED <<sent, ended, host, step, told>>
        /\ open' \subseteq open /\ local' \subseteq local \cup {k}
    BY <1>8 DEF Register, RefuseRegister, chainVars
  <2> QED
    BY <1>2, <2>1, <2>2
<1>9. ASSUME NEW k \in Conns, NEW r \in Requests, Message(k, r)
      PROVE  TypeOK'
  <2>1. inbox' \in [Conns -> Seq(Frames)]
    BY <1>9, ReadType DEF Message
  <2>2. host' \in [Requests -> Conns \cup {Timer, None}] /\ step' \in [Requests -> Steps]
    BY <1>9, ProcessType DEF Message
  <2>3. UNCHANGED <<open, sent, local, ended, told>>
    BY <1>9 DEF Message
  <2> QED
    BY <2>1, <2>2, <2>3 DEF TypeOK
<1>10. ASSUME NEW k \in Conns, NEW r \in Requests,
              MessageUnregistered(k, r) \/ CancelAccepted(k, r)
       PROVE  TypeOK'
  <2>1. PICK f : Read(k, f)
    BY <1>10 DEF MessageUnregistered, CancelAccepted
  <2>2. inbox' \in [Conns -> Seq(Frames)]
    BY <2>1, ReadType
  <2>3. told' \in [Requests -> SUBSET {"answer", "error", "cancelled"}]
    BY <1>10, TellType DEF MessageUnregistered, CancelAccepted
  <2>4. UNCHANGED <<open, sent, local, ended, host, step>>
    BY <1>10 DEF MessageUnregistered, CancelAccepted
  <2> QED
    BY <2>2, <2>3, <2>4 DEF TypeOK
<1>11. ASSUME NEW k \in Conns, NEW r \in Requests, CancelNotFound(k, r)
       PROVE  TypeOK'
  <2>1. Read(k, [kind |-> "cancel", request |-> r])
    BY <1>11 DEF CancelNotFound
  <2> QED
    BY <1>2, <1>11, <2>1 DEF CancelNotFound, chainVars
<1>12. ASSUME NEW k \in Conns, HandlerEnds(k)
       PROVE  TypeOK'
  BY <1>12 DEF HandlerEnds, TypeOK, chainVars
<1>13. ASSUME NEW c \in Channels, DebounceReady(c)
       PROVE  TypeOK'
  <2>1. host' \in [Requests -> Conns \cup {Timer, None}] /\ step' \in [Requests -> Steps]
    BY <1>13, ProcessType DEF DebounceReady
  <2> QED
    BY <1>13, <2>1 DEF DebounceReady, TypeOK, connVars
<1>14. ASSUME NEW r \in Requests, Answer(r)
       PROVE  TypeOK'
  <2>1. step' \in [Requests -> Steps]
    BY <1>14, MoveType DEF Answer, Steps
  <2>2. told' \in [Requests -> SUBSET {"answer", "error", "cancelled"}]
    BY <1>14, TellType DEF Answer
  <2> QED
    BY <1>14, <2>1, <2>2 DEF Answer, TypeOK, connVars
<1>15. ASSUME NEW r \in Requests, TaskReturns(r) \/ TaskFails(r) \/ TaskCancelled(r)
       PROVE  TypeOK'
  <2>1. PICK from, to \in Steps : Move(r, from, to)
    BY <1>15 DEF TaskReturns, TaskFails, TaskCancelled, Steps
  <2> QED
    BY <1>3, <1>15, <2>1 DEF TaskReturns, TaskFails, TaskCancelled
<1>16. ASSUME NEW r \in Requests, Report(r)
       PROVE  TypeOK'
  <2>1. step' \in [Requests -> Steps] /\ step[r] \in {"cancelled", "error"}
    BY <1>16, MoveType DEF Report, Steps, Move
  <2>2. told' \in [Requests -> SUBSET {"answer", "error", "cancelled"}]
    BY <1>16, <2>1, TellType DEF Report, Outcome
  <2> QED
    BY <1>16, <2>1, <2>2 DEF Report, TypeOK, connVars
<1>17. ASSUME NEW r \in Requests, Settle(r)
       PROVE  TypeOK'
  <2>1. host' \in [Requests -> Conns \cup {Timer, None}] /\ step' \in [Requests -> Steps]
    BY <1>17 DEF Settle, TypeOK, Steps
  <2> QED
    BY <1>17, <2>1 DEF Settle, TypeOK, connVars
<1>18. ASSUME NEW f \in Fingerprints, Forget(f)
       PROVE  TypeOK'
  BY <1>18 DEF Forget, TypeOK, connVars, chainVars
<1>19. ASSUME UNCHANGED vars
       PROVE  TypeOK'
  BY <1>19 DEF vars, TypeOK, connVars, chainVars
<1> QED
  BY <1>4, <1>5, <1>6, <1>7, <1>8, <1>9, <1>10, <1>11, <1>12, <1>13, <1>14, <1>15, <1>16,
     <1>17, <1>18, <1>19 DEF Next

\* Whatever clients send and the router does, every variable of the server
\* keeps its type.
THEOREM ServerTypeCorrect == Spec => []TypeOK
BY TypeInit, TypeStep, PTL DEF Spec

----------------------------------------------------------------------------
(* Connections *)

\* A connection is mapped to a node only after its handler set its node_id,
\* and a register frame that nobody has read is the first of a connection that
\* never registered: else a second registration, refused, would make the
\* handler forget a node it has to unregister.
Mapped ==
    /\ websockets \in [Conns -> Nodes \cup {None}]
    /\ phase \in [Conns -> {"fresh", "registered", "gone"}]
    /\ \A k \in Conns : websockets[k] # None => k \in local /\ phase[k] # "fresh"
    /\ \A k \in Conns : \A i \in 1 .. Len(inbox[k]) :
          inbox[k][i].kind = "register" => i = 1 /\ phase[k] = "fresh"

LEMMA ConnInit == Init => Mapped /\ DisconnectCleansUp
<1> SUFFICES ASSUME Init PROVE Mapped /\ DisconnectCleansUp
  OBVIOUS
<1>1. \A k \in Conns : 1 .. Len(inbox[k]) = {}
  <2>1. \A k \in Conns : Len(inbox[k]) = 0
    BY DEF Init
  <2> QED BY <2>1
<1>2. /\ websockets = [k \in Conns |-> None] /\ phase = [k \in Conns |-> "fresh"]
      /\ ended = {}
  BY DEF Init, Registry!RegistryInit
<1> QED
  BY <1>1, <1>2 DEF Mapped, DisconnectCleansUp

\* What has been read leaves no register frame behind.
LEMMA ReadFrames ==
    ASSUME TypeOK, Mapped, NEW k \in Conns, NEW f, Read(k, f)
    PROVE  \A x \in Conns : \A i \in 1 .. Len(inbox'[x]) :
              inbox'[x][i].kind = "register" => x # k /\ i = 1 /\ phase[x] = "fresh"
<1>1. inbox[k] \in Seq(Frames) /\ inbox[k] # <<>> /\ inbox' = [inbox EXCEPT ![k] = Tail(inbox[k])]
  BY DEF TypeOK, Read
<1>2. SUFFICES ASSUME NEW x \in Conns, NEW i \in 1 .. Len(inbox'[x]),
                      inbox'[x][i].kind = "register"
               PROVE  x # k /\ i = 1 /\ phase[x] = "fresh"
  OBVIOUS
<1>3. CASE x = k
  <2>1. inbox'[x] = Tail(inbox[k])
    BY <1>1, <1>3 DEF TypeOK
  <2>2. /\ i + 1 \in 1 .. Len(inbox[k])
        /\ Tail(inbox[k])[i] = inbox[k][i + 1]
    <3>1. /\ Len(Tail(inbox[k])) = Len(inbox[k]) - 1 /\ Len(inbox[k]) \in Nat
          /\ \A j \in 1 .. Len(Tail(inbox[k])) : Tail(inbox[k])[j] = inbox[k][j + 1]
      BY <1>1
    <3>2. i \in 1 .. Len(Tail(inbox[k]))
      BY <1>2, <2>1
    <3> QED
      BY <3>1, <3>2
  <2>3. i + 1 = 1
    BY <1>2, <2>1, <2>2 DEF Mapped
  <2> QED
    BY <1>2, <2>2, <2>3
<1>4. CASE x # k
  <2>1. inbox'[x] = inbox[x]
    BY <1>1, <1>4 DEF TypeOK
  <2> QED
    BY <1>2, <1>4, <2>1 DEF Mapped
<1> QED
  BY <1>3, <1>4

\* A frame that arrives and is no registration changes nothing about them.
LEMMA ArriveFrames ==
    ASSUME TypeOK, Mapped, NEW k \in Conns, NEW f \in Frames, Arrives(k, f),
           f.kind = "register" => inbox[k] = <<>> /\ phase[k] = "fresh"
    PROVE  \A x \in Conns : \A i \in 1 .. Len(inbox'[x]) :
              inbox'[x][i].kind = "register" => i = 1 /\ phase[x] = "fresh"
<1>1. inbox[k] \in Seq(Frames) /\ inbox' = [inbox EXCEPT ![k] = Append(inbox[k], f)]
  BY DEF TypeOK, Arrives
<1>2. SUFFICES ASSUME NEW x \in Conns, NEW i \in 1 .. Len(inbox'[x]),
                      inbox'[x][i].kind = "register"
               PROVE  i = 1 /\ phase[x] = "fresh"
  OBVIOUS
<1>3. CASE x = k
  <2>1. inbox'[x] = Append(inbox[k], f)
    BY <1>1, <1>3 DEF TypeOK
  <2>2. /\ Len(Append(inbox[k], f)) = Len(inbox[k]) + 1 /\ Len(inbox[k]) \in Nat
        /\ Append(inbox[k], f)[Len(inbox[k]) + 1] = f
        /\ \A j \in 1 .. Len(inbox[k]) : Append(inbox[k], f)[j] = inbox[k][j]
    BY <1>1
  <2>3. CASE i \in 1 .. Len(inbox[k])
    BY <1>2, <1>3, <2>1, <2>2, <2>3 DEF Mapped
  <2>4. CASE i = Len(inbox[k]) + 1
    <3>1. f.kind = "register"
      BY <1>2, <2>1, <2>2, <2>4
    <3>2. Len(inbox[k]) = 0
      BY <3>1
    <3> QED
      BY <1>3, <2>4, <3>1, <3>2
  <2> QED
    BY <1>2, <2>1, <2>2, <2>3, <2>4
<1>4. CASE x # k
  <2>1. inbox'[x] = inbox[x]
    BY <1>1, <1>4 DEF TypeOK
  <2> QED
    BY <1>2, <2>1 DEF Mapped
<1> QED
  BY <1>3, <1>4

LEMMA ConnStep == TypeOK /\ Mapped /\ DisconnectCleansUp /\ [Next]_vars
                    => Mapped' /\ DisconnectCleansUp'
<1> SUFFICES ASSUME TypeOK, Mapped, DisconnectCleansUp, [Next]_vars
             PROVE  Mapped' /\ DisconnectCleansUp'
  OBVIOUS
<1>1. ASSUME NEW k \in Conns, NEW f \in Frames, Arrives(k, f),
             f.kind = "register" => inbox[k] = <<>> /\ phase[k] = "fresh"
      PROVE  Mapped' /\ DisconnectCleansUp'
  <2>1. UNCHANGED <<websockets, phase, local, ended>>
    BY <1>1 DEF Arrives, registryVars
  <2>2. \A x \in Conns : \A i \in 1 .. Len(inbox'[x]) :
          inbox'[x][i].kind = "register" => i = 1 /\ phase[x] = "fresh"
    BY <1>1, ArriveFrames
  <2> QED
    BY <2>1, <2>2 DEF Mapped, DisconnectCleansUp
<1>2. ASSUME NEW k \in Conns, NEW f, Read(k, f), UNCHANGED <<registryVars, local, ended>>
      PROVE  Mapped' /\ DisconnectCleansUp'
  <2>1. UNCHANGED <<websockets, phase, local, ended>>
    BY <1>2 DEF registryVars
  <2>2. \A x \in Conns : \A i \in 1 .. Len(inbox'[x]) :
          inbox'[x][i].kind = "register" => i = 1 /\ phase[x] = "fresh"
    BY <1>2, ReadFrames
  <2> QED
    BY <2>1, <2>2 DEF Mapped, DisconnectCleansUp
<1>3. ASSUME UNCHANGED <<websockets, phase, local, ended, inbox>>
      PROVE  Mapped' /\ DisconnectCleansUp'
  BY <1>3 DEF Mapped, DisconnectCleansUp
<1>4. ASSUME NEW k \in Conns, NEW valid \in BOOLEAN, ClientRegisters(k, valid)
      PROVE  Mapped' /\ DisconnectCleansUp'
  BY <1>1, <1>4, FrameTypes DEF ClientRegisters
<1>5. ASSUME NEW r \in Requests, ClientSends(r) \/ ClientCancels(r)
      PROVE  Mapped' /\ DisconnectCleansUp'
  <2>1. Origin[r] \in Conns
    BY ServerConstants
  <2> QED
    BY <1>1, <1>5, <2>1, FrameTypes DEF ClientSends, ClientCancels
<1>6. ASSUME NEW k \in Conns, Register(k)
      PROVE  Mapped' /\ DisconnectCleansUp'
  <2>1. /\ k \notin ended /\ local' = local \cup {k} /\ ended' = ended
        /\ Read(k, [kind |-> "register", valid |-> TRUE])
    BY <1>6 DEF Register, Read
  <2>2. /\ phase' = [phase EXCEPT ![k] = "registered"]
        /\ websockets' = [websockets EXCEPT ![k] = NodeOf[k]]
    BY <1>6 DEF Register, Registry!RegisterFresh, Registry!Registers
  <2>3. \A x \in Conns : \A i \in 1 .. Len(inbox'[x]) :
          inbox'[x][i].kind = "register" => x # k /\ i = 1 /\ phase[x] = "fresh"
    BY <2>1, ReadFrames
  <2>4. NodeOf[k] \in Nodes
    BY ServerConstants
  <2>5. \A x \in Conns : x # k => phase'[x] = phase[x] /\ websockets'[x] = websockets[x]
    BY <2>2 DEF Mapped
  <2>6. phase'[k] = "registered"
    BY <2>2 DEF Mapped
  <2>7. /\ websockets' \in [Conns -> Nodes \cup {None}]
        /\ phase' \in [Conns -> {"fresh", "registered", "gone"}]
    BY <2>2, <2>4 DEF Mapped
  <2>8. \A x \in Conns : websockets'[x] # None => x \in local' /\ phase'[x] # "fresh"
    BY <2>1, <2>5, <2>6 DEF Mapped
  <2>9. \A x \in Conns : \A i \in 1 .. Len(inbox'[x]) :
          inbox'[x][i].kind = "register" => i = 1 /\ phase'[x] = "fresh"
    BY <2>3, <2>5
  <2>10. DisconnectCleansUp'
    BY <2>1, <2>5 DEF DisconnectCleansUp, TypeOK
  <2> QED
    BY <2>7, <2>8, <2>9, <2>10 DEF Mapped
<1>7. ASSUME NEW k \in Conns, RefuseRegister(k)
      PROVE  Mapped' /\ DisconnectCleansUp'
  <2>1. /\ local' = local \ {k} /\ ended' = ended /\ UNCHANGED <<websockets, phase>>
        /\ Read(k, [kind |-> "register", valid |-> FALSE])
    BY <1>7 DEF RefuseRegister, registryVars
  <2>2. \A x \in Conns : \A i \in 1 .. Len(inbox'[x]) :
          inbox'[x][i].kind = "register" => x # k /\ i = 1 /\ phase[x] = "fresh"
    BY <2>1, ReadFrames
  <2>3. websockets[k] = None
    <3>1. inbox[k] \in Seq(Frames) /\ inbox[k] # <<>> /\ Head(inbox[k]).kind = "register"
      BY <2>1 DEF Read, TypeOK
    <3>2. 1 \in 1 .. Len(inbox[k]) /\ inbox[k][1].kind = "register"
      BY <3>1
    <3> QED
      BY <3>2 DEF Mapped
  <2> QED
    BY <2>1, <2>2, <2>3 DEF Mapped, DisconnectCleansUp
<1>8. ASSUME NEW k \in Conns, HandlerEnds(k)
      PROVE  Mapped' /\ DisconnectCleansUp'
  <2>1. inbox' = inbox /\ local' = local /\ ended' = ended \cup {k}
    BY <1>8 DEF HandlerEnds
  <2>2. CASE k \in local
    <3>1. /\ phase' = [phase EXCEPT ![k] = "gone"] /\ phase[k] = "registered"
          /\ websockets' = [websockets EXCEPT ![k] = None]
      BY <1>8, <2>2 DEF HandlerEnds, Cleanup, Registry!Unregister
    <3> QED
      BY <2>1, <3>1 DEF Mapped, DisconnectCleansUp, TypeOK
  <2>3. CASE k \notin local
    <3>1. UNCHANGED <<websockets, phase>> /\ websockets[k] = None
      BY <1>8, <2>3 DEF HandlerEnds, Cleanup, registryVars, Mapped
    <3> QED
      BY <2>1, <3>1 DEF Mapped, DisconnectCleansUp
  <2> QED
    BY <2>2, <2>3
<1>9. ASSUME NEW k \in Conns, NEW r \in Requests,
             \/ Message(k, r) \/ MessageUnregistered(k, r)
             \/ CancelAccepted(k, r) \/ CancelNotFound(k, r)
      PROVE  Mapped' /\ DisconnectCleansUp'
  <2>1. PICK f : Read(k, f)
    BY <1>9 DEF Message, MessageUnregistered, CancelAccepted, CancelNotFound
  <2>2. UNCHANGED <<registryVars, local, ended>>
    BY <1>9 DEF Message, MessageUnregistered, CancelAccepted, CancelNotFound
  <2> QED
    BY <1>2, <2>1, <2>2
<1>10. ASSUME NEW k \in Conns, Disconnect(k)
       PROVE  Mapped' /\ DisconnectCleansUp'
  BY <1>3, <1>10 DEF Disconnect, registryVars
<1>11. ASSUME \/ \E c \in Channels : DebounceReady(c)
              \/ \E r \in Requests : ChainStep(r)
              \/ \E f \in Fingerprints : Forget(f)
              \/ UNCHANGED vars
       PROVE  Mapped' /\ DisconnectCleansUp'
  <2>1. UNCHANGED <<registryVars, connVars>>
    BY <1>11 DEF DebounceReady, ChainStep, Answer, TaskReturns, TaskFails, TaskCancelled,
                 Report, Settle, Forget, vars
  <2> QED
    BY <1>3, <2>1 DEF registryVars, connVars
<1> QED
  BY <1>4, <1>5, <1>6, <1>7, <1>8, <1>9, <1>10, <1>11 DEF Next, ChainStep

\* Once the handler of a connection has returned, however the connection was
\* closed, the registry does not know the connection.
THEOREM DisconnectsAreCleanedUp == Spec => []DisconnectCleansUp
BY TypeInit, TypeStep, ConnInit, ConnStep, PTL DEF Spec

----------------------------------------------------------------------------
(* The router, as far as the server drives it *)

RouterTypes ==
    /\ queue \in [Channels -> Seq(Requests)]
    /\ debounce \in [Channels -> Seq(Requests)]
    /\ merged \in [Requests -> Seq(Requests)]
    /\ stage \in [Requests -> Router!Stages]

\* The queue and the window of a channel hold exactly the requests of that
\* channel whose sender waits, each one once.
WaitAt(c) ==
    /\ Distinct(queue[c]) /\ Distinct(debounce[c])
    /\ ToSet(queue[c]) \cap ToSet(debounce[c]) = {}
    /\ \A r \in Requests : r \in ToSet(queue[c]) \cup ToSet(debounce[c])
                               <=> stage[r] = "waiting" /\ Channel[r] = c

RouterInv == RouterTypes /\ \A c \in Channels : WaitAt(c)

LEMMA RouterInit == Init => RouterInv
<1> SUFFICES ASSUME Init PROVE RouterInv
  OBVIOUS
<1>1. <<>> \in Seq(Requests) /\ Distinct(<<>>) /\ ToSet(<<>>) = {}
  BY NoMembers
<1>2. /\ queue = [c \in Channels |-> <<>>] /\ debounce = [c \in Channels |-> <<>>]
      /\ merged = [r \in Requests |-> <<r>>] /\ stage = [r \in Requests |-> "idle"]
  BY DEF Init, Router!Init
<1>3. RouterTypes
  BY <1>1, <1>2 DEF RouterTypes, Router!Stages
<1> QED
  BY <1>1, <1>2, <1>3 DEF RouterInv, WaitAt

\* What waits in a channel, in the form the steps use it.
LEMMA WaitFacts ==
    ASSUME RouterInv, NEW c \in Channels
    PROVE  /\ queue[c] \in Seq(Requests) /\ debounce[c] \in Seq(Requests)
           /\ Distinct(queue[c]) /\ Distinct(debounce[c])
           /\ ToSet(queue[c]) \subseteq Requests /\ ToSet(debounce[c]) \subseteq Requests
           /\ ToSet(queue[c]) \cap ToSet(debounce[c]) = {}
           /\ \A r \in Requests : r \in ToSet(queue[c]) \cup ToSet(debounce[c])
                                      <=> stage[r] = "waiting" /\ Channel[r] = c
<1>1. queue[c] \in Seq(Requests) /\ debounce[c] \in Seq(Requests)
  BY DEF RouterInv, RouterTypes
<1>2. ToSet(queue[c]) \subseteq Requests /\ ToSet(debounce[c]) \subseteq Requests
  BY <1>1 DEF ToSet
<1> QED
  BY <1>1, <1>2 DEF RouterInv, WaitAt

\* Channels whose slots stay as they are, while nobody begins or ends waiting
\* there.
LEMMA WaitKept ==
    ASSUME RouterInv, NEW c \in Channels,
           queue'[c] = queue[c], debounce'[c] = debounce[c],
           \A x \in Requests : Channel[x] = c => (stage'[x] = "waiting" <=> stage[x] = "waiting")
    PROVE  WaitAt(c)'
BY DEF RouterInv, WaitAt

LEMMA SubmitStep ==
    ASSUME RouterInv, NEW r \in Requests, Router!Submit(r, FALSE)
    PROVE  /\ RouterInv' /\ merged' = merged
           /\ stage[r] = "idle"
           /\ \A x \in Requests \ {r} : stage'[x] = stage[x]
<1> DEFINE d == Channel[r]
<1>0. d \in Channels
  BY ServerConstants
<1>types. RouterTypes
  BY DEF RouterInv
<1>1. stage[r] = "idle" /\ merged' = merged
  BY DEF Router!Submit, Router!RejectDuplicate, Router!SubmitAcquire, Router!SubmitDebounce,
         Router!SubmitQueue
<1>2. PICK v \in Router!Stages : stage' = [stage EXCEPT ![r] = v]
  BY DEF Router!Submit, Router!RejectDuplicate, Router!SubmitAcquire, Router!SubmitDebounce,
         Router!SubmitQueue, Router!Stages
<1>3. \A x \in Requests \ {r} : stage'[x] = stage[x]
  BY <1>2, <1>types DEF RouterTypes
<1>4. stage'[r] = v /\ stage' \in [Requests -> Router!Stages]
  BY <1>2, <1>types DEF RouterTypes
<1>5. /\ queue[d] \in Seq(Requests) /\ debounce[d] \in Seq(Requests)
      /\ r \notin ToSet(queue[d]) /\ r \notin ToSet(debounce[d])
      /\ Distinct(queue[d]) /\ Distinct(debounce[d])
      /\ ToSet(queue[d]) \cap ToSet(debounce[d]) = {}
      /\ \A x \in Requests : x \in ToSet(queue[d]) \cup ToSet(debounce[d])
                                 <=> stage[x] = "waiting" /\ Channel[x] = d
  <2>1. stage[r] # "waiting"
    BY <1>1
  <2> QED
    BY <1>0, <2>1, WaitFacts
<1>6. CASE queue' = queue /\ debounce' = debounce /\ v # "waiting"
  <2>1. \A x \in Requests : stage'[x] = "waiting" <=> stage[x] = "waiting"
    BY <1>1, <1>3, <1>4, <1>6
  <2>2. \A c \in Channels : WaitAt(c)'
    BY <1>6, <2>1, WaitKept
  <2> QED
    BY <1>1, <1>3, <1>4, <1>6, <1>types, <2>2 DEF RouterInv, RouterTypes
<1>7. CASE queue' = queue /\ v = "waiting" /\ debounce' = [debounce EXCEPT ![d] = Append(debounce[d], r)]
  <2> DEFINE s == Append(debounce[d], r)
  <2>1. s \in Seq(Requests) /\ Distinct(s) /\ ToSet(s) = ToSet(debounce[d]) \cup {r}
    BY <1>5, Joining
  <2> HIDE DEF s
  <2>2. debounce' = [debounce EXCEPT ![d] = s]
    BY <1>7 DEF s
  <2>3. debounce'[d] = s /\ debounce' \in [Channels -> Seq(Requests)]
    BY <1>0, <1>types, <2>1, <2>2 DEF RouterTypes
  <2>4. ASSUME NEW c \in Channels PROVE WaitAt(c)'
    <3>1. CASE c = d
      <4>1. \A x \in Requests : x \in ToSet(queue[d]) \cup ToSet(s)
                                    <=> stage'[x] = "waiting" /\ Channel[x] = d
        BY <1>3, <1>4, <1>5, <1>7, <2>1
      <4>2. ToSet(queue[d]) \cap ToSet(s) = {}
        BY <1>5, <2>1
      <4> QED
        BY <1>5, <1>7, <2>1, <2>3, <3>1, <4>1, <4>2 DEF WaitAt
    <3>2. CASE c # d
      <4>1. debounce'[c] = debounce[c]
        BY <1>types, <2>2, <3>2 DEF RouterTypes
      <4> QED
        BY <1>3, <1>7, <3>2, <4>1, WaitKept
    <3> QED
      BY <3>1, <3>2
  <2> QED
    BY <1>1, <1>3, <1>4, <1>7, <1>types, <2>3, <2>4 DEF RouterInv, RouterTypes
<1>8. CASE debounce' = debounce /\ v = "waiting" /\ queue' = [queue EXCEPT ![d] = Append(queue[d], r)]
  <2> DEFINE s == Append(queue[d], r)
  <2>1. s \in Seq(Requests) /\ Distinct(s) /\ ToSet(s) = ToSet(queue[d]) \cup {r}
    BY <1>5, Joining
  <2> HIDE DEF s
  <2>2. queue' = [queue EXCEPT ![d] = s]
    BY <1>8 DEF s
  <2>3. queue'[d] = s /\ queue' \in [Channels -> Seq(Requests)]
    BY <1>0, <1>types, <2>1, <2>2 DEF RouterTypes
  <2>4. ASSUME NEW c \in Channels PROVE WaitAt(c)'
    <3>1. CASE c = d
      <4>1. \A x \in Requests : x \in ToSet(s) \cup ToSet(debounce[d])
                                    <=> stage'[x] = "waiting" /\ Channel[x] = d
        BY <1>3, <1>4, <1>5, <1>8, <2>1
      <4>2. ToSet(s) \cap ToSet(debounce[d]) = {}
        BY <1>5, <2>1
      <4> QED
        BY <1>5, <1>8, <2>1, <2>3, <3>1, <4>1, <4>2 DEF WaitAt
    <3>2. CASE c # d
      <4>1. queue'[c] = queue[c]
        BY <1>types, <2>2, <3>2 DEF RouterTypes
      <4> QED
        BY <1>3, <1>8, <3>2, <4>1, WaitKept
    <3> QED
      BY <3>1, <3>2
  <2> QED
    BY <1>1, <1>3, <1>4, <1>8, <1>types, <2>3, <2>4 DEF RouterInv, RouterTypes
<1>9. \/ queue' = queue /\ debounce' = debounce /\ v # "waiting"
      \/ queue' = queue /\ v = "waiting" /\ debounce' = [debounce EXCEPT ![d] = Append(debounce[d], r)]
      \/ debounce' = debounce /\ v = "waiting" /\ queue' = [queue EXCEPT ![d] = Append(queue[d], r)]
  <2>1. /\ Router!RejectDuplicate(r) => stage'[r] = "rejected" /\ queue' = queue /\ debounce' = debounce
        /\ Router!SubmitAcquire(r, FALSE) => stage'[r] = "running" /\ queue' = queue /\ debounce' = debounce
    BY <1>types DEF RouterTypes, Router!RejectDuplicate, Router!SubmitAcquire
  <2>2. Router!SubmitDebounce(r, FALSE) =>
          /\ stage'[r] = "waiting" /\ queue' = queue
          /\ debounce' = [debounce EXCEPT ![d] = Append(debounce[d], r)]
    BY <1>types DEF RouterTypes, Router!SubmitDebounce
  <2>3. Router!SubmitQueue(r, FALSE) =>
          /\ stage'[r] = "waiting" /\ debounce' = debounce
          /\ queue' = [queue EXCEPT ![d] = Append(queue[d], r)]
    BY <1>types DEF RouterTypes, Router!SubmitQueue
  <2> QED
    BY <1>4, <2>1, <2>2, <2>3 DEF Router!Submit
<1> QED
  BY <1>1, <1>3, <1>6, <1>7, <1>8, <1>9

LEMMA AssignStage ==
    ASSUME RouterTypes, NEW S, NEW v \in Router!Stages
    PROVE  /\ Router!Assign(stage, S, v) \in [Requests -> Router!Stages]
           /\ \A x \in Requests : Router!Assign(stage, S, v)[x] = IF x \in S THEN v ELSE stage[x]
BY DEF RouterTypes, Router!Assign

LEMMA ExpireStep ==
    ASSUME RouterInv, NEW d \in Channels, Router!DebounceExpire(d)
    PROVE  /\ RouterInv'
           /\ \A x \in Requests : stage[x] = "running" => stage'[x] = "running"
           /\ \A x \in Requests : merged'[x] = merged[x] \/ x \in Handed
<1> DEFINE W == debounce[d]
           h == Head(W)
           T == ToSet(Tail(W))
<1>types. RouterTypes
  BY DEF RouterInv
<1>1. W # <<>> /\ W \in Seq(Requests) /\ Distinct(W)
      /\ \A x \in ToSet(W) : x \in Requests /\ stage[x] = "waiting" /\ Channel[x] = d
  BY WaitFacts DEF Router!DebounceExpire
<1>2. h \in ToSet(W) /\ h \in Requests /\ T = ToSet(W) \ {h}
  BY <1>1, HeadLeaves
<1>3. /\ stage' = [Router!Assign(stage, T, "folded") EXCEPT ![h] = "running"]
      /\ merged' = [merged EXCEPT ![h] = W]
      /\ debounce' = [debounce EXCEPT ![d] = <<>>]
      /\ queue' = queue
  BY DEF Router!DebounceExpire, Router!CloseWindow, Router!Consolidated, Router!ToSet, ToSet
<1> HIDE DEF T, h
<1>4. /\ stage' \in [Requests -> Router!Stages]
      /\ \A x \in Requests : stage'[x] = IF x = h THEN "running"
                                          ELSE IF x \in T THEN "folded" ELSE stage[x]
  BY <1>2, <1>3, <1>types, AssignStage DEF Router!Stages
<1>5. \A x \in Requests : merged'[x] = merged[x] \/ x \in Handed
  <2>1. \A x \in Requests : x # h => merged'[x] = merged[x]
    BY <1>2, <1>3, <1>types DEF RouterTypes
  <2>2. h \in Handed
    BY <1>1, <1>2, <1>4 DEF Handed
  <2> QED
    BY <2>1, <2>2
<1>6. \A x \in Requests : stage[x] = "running" => stage'[x] = "running"
  BY <1>1, <1>2, <1>4
<1>7. <<>> \in Seq(Requests) /\ Distinct(<<>>) /\ ToSet(<<>>) = {}
  BY NoMembers
<1>8. RouterTypes'
  BY <1>1, <1>2, <1>3, <1>4, <1>7, <1>types DEF RouterTypes
<1>9. ASSUME NEW c \in Channels PROVE WaitAt(c)'
  <2>1. \A x \in Requests : stage'[x] = "waiting" <=> stage[x] = "waiting" /\ x \notin ToSet(W)
    BY <1>2, <1>4
  <2>2. CASE c = d
    <3>1. debounce'[c] = <<>> /\ queue'[c] = queue[d]
      BY <1>3, <1>types, <2>2 DEF RouterTypes
    <3>2. /\ Distinct(queue[d]) /\ ToSet(queue[d]) \cap ToSet(W) = {}
          /\ \A x \in Requests : x \in ToSet(queue[d]) \cup ToSet(W)
                                     <=> stage[x] = "waiting" /\ Channel[x] = d
      BY WaitFacts
    <3>3. \A x \in Requests : x \in ToSet(queue[d]) <=> stage'[x] = "waiting" /\ Channel[x] = d
      BY <2>1, <3>2
    <3> QED
      BY <1>7, <2>2, <3>1, <3>2, <3>3 DEF WaitAt
  <2>3. CASE c # d
    <3>1. debounce'[c] = debounce[c] /\ queue'[c] = queue[c]
      BY <1>3, <1>types, <2>3 DEF RouterTypes
    <3>2. \A x \in Requests : Channel[x] = c => x \notin ToSet(W)
      BY <1>1, <2>3
    <3> QED
      BY <2>1, <3>1, <3>2, WaitKept
  <2> QED
    BY <2>2, <2>3
<1> QED
  BY <1>5, <1>6, <1>8, <1>9 DEF RouterInv

LEMMA CompleteStep ==
    ASSUME RouterInv, NEW r \in Requests, Router!Complete(r)
    PROVE  /\ RouterInv' /\ merged' = merged
           /\ stage[r] = "running" /\ stage'[r] = "served"
           /\ \A x \in Requests \ {r} : stage[x] = "running" => stage'[x] = "running"
<1> DEFINE d == Channel[r]
           W == queue[d]
<1>types. RouterTypes /\ d \in Channels
  BY ServerConstants DEF RouterInv
<1>1. merged' = merged /\ debounce' = debounce /\ stage[r] = "running"
  BY DEF Router!Complete, Router!CompleteUnknown, Router!CompleteLast, Router!CompleteNext
<1>2. CASE Router!CompleteUnknown(r) \/ Router!CompleteLast(r)
  <2>1. stage' = [stage EXCEPT ![r] = "served"] /\ queue' = queue
    BY <1>2 DEF Router!CompleteUnknown, Router!CompleteLast
  <2>2. /\ stage' \in [Requests -> Router!Stages] /\ stage'[r] = "served"
        /\ \A x \in Requests \ {r} : stage'[x] = stage[x]
    BY <1>types, <2>1 DEF RouterTypes, Router!Stages
  <2>3. \A x \in Requests : stage'[x] = "waiting" <=> stage[x] = "waiting"
    BY <1>1, <2>2
  <2>4. \A c \in Channels : WaitAt(c)'
    BY <1>1, <2>1, <2>3, WaitKept
  <2> QED
    BY <1>1, <1>types, <2>1, <2>2, <2>4 DEF RouterInv, RouterTypes
<1>3. CASE Router!CompleteNext(r)
  <2> DEFINE h == Head(W)
             E == Tail(W)
  <2>1. /\ W # <<>> /\ W \in Seq(Requests) /\ Distinct(W)
        /\ \A x \in ToSet(W) : x \in Requests /\ stage[x] = "waiting" /\ Channel[x] = d
    BY <1>3, <1>types, WaitFacts DEF Router!CompleteNext
  <2>2. /\ h \in ToSet(W) /\ h \in Requests /\ E \in Seq(Requests)
        /\ Distinct(E) /\ ToSet(E) = ToSet(W) \ {h}
    BY <2>1, HeadLeaves
  <2>3. /\ stage' = [stage EXCEPT ![r] = "served", ![h] = "running"]
        /\ queue' = [queue EXCEPT ![d] = E]
    BY <1>3 DEF Router!CompleteNext
  <2> HIDE DEF h, E
  <2>4. h # r
    BY <1>1, <2>1, <2>2
  <2>5. /\ stage' \in [Requests -> Router!Stages]
        /\ stage'[r] = "served" /\ stage'[h] = "running"
        /\ \A x \in Requests \ {r, h} : stage'[x] = stage[x]
    BY <1>types, <2>2, <2>3, <2>4 DEF RouterTypes, Router!Stages
  <2>6. \A x \in Requests : stage'[x] = "waiting" <=> stage[x] = "waiting" /\ x # h
    BY <1>1, <2>5, <2>2
  <2>7. RouterTypes'
    BY <1>1, <1>types, <2>2, <2>3, <2>5 DEF RouterTypes
  <2>8. ASSUME NEW c \in Channels PROVE WaitAt(c)'
    <3>1. CASE c = d
      <4>1. queue'[c] = E /\ debounce'[c] = debounce[d]
        BY <1>1, <1>types, <2>3, <3>1 DEF RouterTypes
      <4>2. /\ Distinct(debounce[d]) /\ ToSet(W) \cap ToSet(debounce[d]) = {}
            /\ \A x \in Requests : x \in ToSet(W) \cup ToSet(debounce[d])
                                       <=> stage[x] = "waiting" /\ Channel[x] = d
        BY <1>types, WaitFacts
      <4>3. \A x \in Requests : x \in ToSet(E) \cup ToSet(debounce[d])
                                    <=> stage'[x] = "waiting" /\ Channel[x] = d
        BY <2>2, <2>6, <4>2
      <4>4. ToSet(E) \cap ToSet(debounce[d]) = {}
        BY <2>2, <4>2
      <4> QED
        BY <2>2, <3>1, <4>1, <4>2, <4>3, <4>4 DEF WaitAt
    <3>2. CASE c # d
      <4>1. queue'[c] = queue[c] /\ debounce'[c] = debounce[c]
        BY <1>1, <1>types, <2>3, <3>2 DEF RouterTypes
      <4>2. Channel[h] # c
        BY <2>1, <2>2, <3>2
      <4> QED
        BY <2>6, <4>1, <4>2, WaitKept
    <3> QED
      BY <3>1, <3>2
  <2>9. \A x \in Requests \ {r} : stage[x] = "running" => stage'[x] = "running"
    BY <2>5
  <2> QED
    BY <1>1, <2>5, <2>7, <2>8, <2>9 DEF RouterInv
<1> QED
  BY <1>2, <1>3 DEF Router!Complete

LEMMA CancelStep ==
    ASSUME RouterInv, NEW r \in Requests, Router!Cancel(r)
    PROVE  /\ RouterInv' /\ merged' = merged
           /\ \A x \in Requests : stage'[x] = "running" <=> stage[x] = "running"
<1> DEFINE d == Channel[r]
           W == queue[d]
<1>types. RouterTypes /\ d \in Channels
  BY ServerConstants DEF RouterInv
<1>1. merged' = merged /\ debounce' = debounce
  BY DEF Router!Cancel, Router!CancelActive, Router!CancelQueued
<1>2. CASE Router!CancelActive(r)
  <2>1. stage' = stage /\ queue' = queue
    BY <1>2 DEF Router!CancelActive
  <2>2. \A c \in Channels : WaitAt(c)'
    BY <1>1, <2>1, WaitKept
  <2> QED
    BY <1>1, <1>types, <2>1, <2>2 DEF RouterInv, RouterTypes
<1>3. CASE Router!CancelQueued(r)
  <2>1. PICK i \in 1 .. Len(W) : W[i] = r /\ queue' = [queue EXCEPT ![d] = RemoveAt(W, i)]
    BY <1>3 DEF Router!CancelQueued, Router!RemoveAt, RemoveAt
  <2> DEFINE E == RemoveAt(W, i)
  <2>2. /\ W \in Seq(Requests) /\ Distinct(W)
        /\ \A x \in ToSet(W) : x \in Requests /\ stage[x] = "waiting" /\ Channel[x] = d
    BY <1>types, WaitFacts
  <2>3. /\ E \in Seq(Requests) /\ Distinct(E) /\ ToSet(E) = ToSet(W) \ {r}
        /\ r \in ToSet(W)
    <3>1. r \in ToSet(W)
      BY <2>1, <2>2, Members
    <3> QED
      BY <2>1, <2>2, <3>1, OneLeaves
  <2>4. stage' = [stage EXCEPT ![r] = "withdrawn"] /\ queue' = [queue EXCEPT ![d] = E]
    BY <1>3, <2>1 DEF Router!CancelQueued
  <2> HIDE DEF W, E
  <2>5. /\ stage' \in [Requests -> Router!Stages] /\ stage'[r] = "withdrawn"
        /\ \A x \in Requests \ {r} : stage'[x] = stage[x]
    BY <1>types, <2>4 DEF RouterTypes, Router!Stages
  <2>6. \A x \in Requests : stage'[x] = "waiting" <=> stage[x] = "waiting" /\ x # r
    BY <2>5
  <2>7. RouterTypes'
    BY <1>1, <1>types, <2>3, <2>4, <2>5 DEF RouterTypes
  <2>8. ASSUME NEW c \in Channels PROVE WaitAt(c)'
    <3>1. CASE c = d
      <4>1. queue'[c] = E /\ debounce'[c] = debounce[d]
        BY <1>1, <1>types, <2>4, <3>1 DEF RouterTypes
      <4>2. /\ Distinct(debounce[d]) /\ ToSet(W) \cap ToSet(debounce[d]) = {}
            /\ \A x \in Requests : x \in ToSet(W) \cup ToSet(debounce[d])
                                       <=> stage[x] = "waiting" /\ Channel[x] = d
        BY <1>types, WaitFacts DEF W
      <4>3. \A x \in Requests : x \in ToSet(E) \cup ToSet(debounce[d])
                                    <=> stage'[x] = "waiting" /\ Channel[x] = d
        BY <2>3, <2>6, <4>2
      <4>4. ToSet(E) \cap ToSet(debounce[d]) = {}
        BY <2>3, <4>2
      <4> QED
        BY <2>3, <3>1, <4>1, <4>2, <4>3, <4>4 DEF WaitAt
    <3>2. CASE c # d
      <4>1. queue'[c] = queue[c] /\ debounce'[c] = debounce[c]
        BY <1>1, <1>types, <2>4, <3>2 DEF RouterTypes
      <4>2. Channel[r] # c
        BY <3>2
      <4> QED
        BY <2>6, <4>1, <4>2, WaitKept
    <3> QED
      BY <3>1, <3>2
  <2>9. stage[r] # "running"
    BY <2>2, <2>3
  <2>10. \A x \in Requests : stage'[x] = "running" <=> stage[x] = "running"
    BY <2>5, <2>9
  <2> QED
    BY <1>1, <2>7, <2>8, <2>10 DEF RouterInv
<1> QED
  BY <1>2, <1>3 DEF Router!Cancel

----------------------------------------------------------------------------
(* Requests *)

\* SettledWereTold as it comes about: from the moment a request was answered,
\* or reported on, its sender knows, or is gone.
Heard ==
    \A r \in Requests :
        step[r] \in {"answered", "ok", "reported", "settled"} /\ Target(r) \in open
            => told[r] # {}

ChainInv == RouterInv /\ StartsAreProcessed /\ Heard

LEMMA ChainInit == Init => ChainInv
<1>1. ASSUME Init PROVE StartsAreProcessed /\ Heard
  BY <1>1 DEF Init, Router!Init, StartsAreProcessed, InHand, Heard
<1> QED
  BY <1>1, RouterInit DEF ChainInv

\* What the server does aside from the router and the chains.
LEMMA Aside ==
    ASSUME ChainInv, UNCHANGED <<queue, debounce, merged, stage, step>>, open' \subseteq open,
           \A r \in Requests : told[r] \subseteq told'[r]
    PROVE  ChainInv'
<1>1. RouterInv'
  BY DEF ChainInv, RouterInv, RouterTypes, WaitAt
<1>2. StartsAreProcessed'
  BY DEF ChainInv, StartsAreProcessed, InHand
<1>3. Heard'
  BY DEF ChainInv, Heard, Target
<1> QED
  BY <1>1, <1>2, <1>3 DEF ChainInv

\* The router takes a step and what it hands out joins the chain of h.
LEMMA Handing ==
    ASSUME TypeOK, ChainInv, RouterInv', NEW h, Process(h), UNCHANGED <<open, told>>,
           \A x \in Requests : stage[x] = "running" => stage'[x] = "running",
           \A x \in Requests : merged'[x] = merged[x] \/ x \in Handed
    PROVE  ChainInv'
<1>1. \A x \in Requests : step'[x] = IF x \in Handed THEN "started" ELSE step[x]
  BY DEF Process
<1>2. ASSUME NEW x \in Requests
      PROVE  (stage[x] = "running" <=> InHand(x))' 
  BY <1>1, <1>2 DEF ChainInv, StartsAreProcessed, InHand, Handed
<1>3. ASSUME NEW x \in Requests, step'[x] \in {"answered", "ok", "reported", "settled"},
             Target(x)' \in open'
      PROVE  told'[x] # {}
  <2>1. x \notin Handed /\ step'[x] = step[x]
    BY <1>1, <1>3
  <2>2. Target(x)' = Target(x)
    BY <2>1 DEF Target
  <2> QED
    BY <1>3, <2>1, <2>2 DEF ChainInv, Heard
<1> QED
  BY <1>2, <1>3 DEF ChainInv, StartsAreProcessed, Heard

\* The task of r goes on, or the chain learns how it ended.
LEMMA Moving ==
    ASSUME TypeOK, ChainInv, NEW r \in Requests, NEW from, NEW to, Move(r, from, to),
           UNCHANGED <<routerVars, open>>,
           from \notin {"none", "settled"}, to \notin {"none", "settled"},
           \A x \in Requests : told[x] \subseteq told'[x],
           to \in {"answered", "ok", "reported"} =>
              from \in {"answered", "ok", "reported"} \/ (Target(r) \in open => told'[r] # {})
    PROVE  ChainInv'
<1>1. /\ step[r] = from /\ step'[r] = to
      /\ \A x \in Requests \ {r} : step'[x] = step[x]
  BY DEF Move, TypeOK
<1>2. UNCHANGED <<queue, debounce, merged, stage>> /\ \A x \in Requests : Target(x)' = Target(x)
  BY DEF routerVars, Target
<1>3. RouterInv'
  BY <1>2 DEF ChainInv, RouterInv, RouterTypes, WaitAt
<1>4. StartsAreProcessed'
  BY <1>1, <1>2 DEF ChainInv, StartsAreProcessed, InHand
<1>5. Heard'
  <2>1. ASSUME NEW x \in Requests, x # r,
               step'[x] \in {"answered", "ok", "reported", "settled"}, Target(x)' \in open'
        PROVE  told'[x] # {}
    BY <1>1, <1>2, <2>1 DEF ChainInv, Heard
  <2>2. ASSUME step'[r] \in {"answered", "ok", "reported", "settled"}, Target(r)' \in open'
        PROVE  told'[r] # {}
    BY <1>1, <1>2, <2>2 DEF ChainInv, Heard
  <2> QED
    BY <2>1, <2>2 DEF Heard
<1> QED
  BY <1>3, <1>4, <1>5 DEF ChainInv

LEMMA Telling ==
    ASSUME TypeOK, NEW r \in Requests, NEW what, NEW k, Tell(r, what, k)
    PROVE  /\ \A x \in Requests : told[x] \subseteq told'[x]
           /\ k \in open => told'[r] # {}
BY DEF Tell, TypeOK

LEMMA ChainStepInv == TypeOK /\ ChainInv /\ [Next]_vars => ChainInv'
<1> SUFFICES ASSUME TypeOK, ChainInv, [Next]_vars PROVE ChainInv'
  OBVIOUS
<1>inv. RouterInv
  BY DEF ChainInv
<1>1. ASSUME UNCHANGED <<routerVars, chainVars>>, open' \subseteq open
      PROVE  ChainInv'
  BY <1>1, Aside DEF routerVars, chainVars
<1>2. ASSUME NEW k \in Conns, NEW valid \in BOOLEAN, ClientRegisters(k, valid)
      PROVE  ChainInv'
  BY <1>1, <1>2 DEF ClientRegisters, Arrives
<1>3. ASSUME NEW r \in Requests, ClientSends(r) \/ ClientCancels(r)
      PROVE  ChainInv'
  BY <1>1, <1>3 DEF ClientSends, ClientCancels, Arrives
<1>4. ASSUME NEW k \in Conns, \/ Disconnect(k) \/ Register(k) \/ RefuseRegister(k)
                              \/ HandlerEnds(k)
      PROVE  ChainInv'
  BY <1>1, <1>4 DEF Disconnect, Register, RefuseRegister, HandlerEnds
<1>5. ASSUME NEW k \in Conns, NEW r \in Requests, Message(k, r)
      PROVE  ChainInv'
  <2>1. /\ RouterInv' /\ merged' = merged /\ stage[r] = "idle"
        /\ \A x \in Requests \ {r} : stage'[x] = stage[x]
    BY <1>5, <1>inv, SubmitStep DEF Message
  <2>2. \A x \in Requests : stage[x] = "running" => stage'[x] = "running"
    BY <2>1
  <2> QED
    BY <1>5, <2>1, <2>2, Handing DEF Message
<1>6. ASSUME NEW k \in Conns, NEW r \in Requests, MessageUnregistered(k, r)
      PROVE  ChainInv'
  <2>1. \A x \in Requests : told[x] \subseteq told'[x]
    BY <1>6, Telling DEF MessageUnregistered
  <2> QED
    BY <1>6, <2>1, Aside DEF MessageUnregistered, routerVars
<1>7. ASSUME NEW k \in Conns, NEW r \in Requests, CancelAccepted(k, r)
      PROVE  ChainInv'
  <2>1. \A x \in Requests : told[x] \subseteq told'[x]
    BY <1>7, Telling DEF CancelAccepted
  <2>2. /\ RouterInv' /\ merged' = merged
        /\ \A x \in Requests : stage'[x] = "running" <=> stage[x] = "running"
    BY <1>7, <1>inv, CancelStep DEF CancelAccepted
  <2>3. open' = open /\ step' = step
    BY <1>7 DEF CancelAccepted
  <2>4. StartsAreProcessed'
    BY <2>2, <2>3 DEF ChainInv, StartsAreProcessed, InHand
  <2>5. Heard'
    BY <2>1, <2>2, <2>3 DEF ChainInv, Heard, Target
  <2> QED
    BY <2>2, <2>4, <2>5 DEF ChainInv
<1>8. ASSUME NEW k \in Conns, NEW r \in Requests, CancelNotFound(k, r)
      PROVE  ChainInv'
  BY <1>1, <1>8 DEF CancelNotFound
<1>9. ASSUME NEW c \in Channels, DebounceReady(c)
      PROVE  ChainInv'
  <2>1. UNCHANGED <<open, told>> /\ Process(Timer) /\ Router!DebounceExpire(c)
    BY <1>9 DEF DebounceReady, connVars
  <2> QED
    BY <1>inv, <2>1, ExpireStep, Handing
<1>10. ASSUME NEW r \in Requests, Answer(r)
       PROVE  ChainInv'
  <2>1. /\ \A x \in Requests : told[x] \subseteq told'[x]
        /\ told'[r] # {}
    BY <1>10, Telling DEF Answer
  <2>2. UNCHANGED <<routerVars, open>> /\ Move(r, "started", "answered")
    BY <1>10 DEF Answer, connVars
  <2> QED
    BY <2>1, <2>2, Moving
<1>11. ASSUME NEW r \in Requests, TaskReturns(r)
       PROVE  ChainInv'
  <2>1. UNCHANGED <<routerVars, open, told>> /\ Move(r, "answered", "ok")
    BY <1>11 DEF TaskReturns, connVars
  <2> QED
    BY <2>1, Moving
<1>12. ASSUME NEW r \in Requests, TaskFails(r) \/ TaskCancelled(r)
       PROVE  ChainInv'
  <2>1. UNCHANGED <<routerVars, open, told>>
    BY <1>12 DEF TaskFails, TaskCancelled, connVars
  <2>2. \/ Move(r, "started", "error") \/ Move(r, "started", "cancelled")
        \/ Move(r, "answered", "cancelled")
    BY <1>12 DEF TaskFails, TaskCancelled
  <2>3. CASE Move(r, "started", "error")
    BY <2>1, <2>3, Moving
  <2>4. CASE Move(r, "started", "cancelled")
    BY <2>1, <2>4, Moving
  <2>5. CASE Move(r, "answered", "cancelled")
    BY <2>1, <2>5, Moving
  <2> QED
    BY <2>2, <2>3, <2>4, <2>5
<1>13. ASSUME NEW r \in Requests, Report(r)
       PROVE  ChainInv'
  <2>1. /\ \A x \in Requests : told[x] \subseteq told'[x]
        /\ Target(r) \in open => told'[r] # {}
    BY <1>13, Telling DEF Report
  <2>2. UNCHANGED <<routerVars, open>>
    BY <1>13 DEF Report, connVars
  <2>3. CASE Move(r, "cancelled", "reported")
    BY <2>1, <2>2, <2>3, Moving
  <2>4. CASE Move(r, "error", "reported")
    BY <2>1, <2>2, <2>4, Moving
  <2> QED
    BY <1>13, <2>3, <2>4 DEF Report
<1>14. ASSUME NEW r \in Requests, Settle(r)
       PROVE  ChainInv'
  <2>1. /\ RouterInv' /\ merged' = merged
        /\ stage[r] = "running" /\ stage'[r] = "served"
        /\ \A x \in Requests \ {r} : stage[x] = "running" => stage'[x] = "running"
    BY <1>14, <1>inv, CompleteStep DEF Settle
  <2>2. /\ step[r] \in {"ok", "reported"} /\ UNCHANGED <<open, told>>
        /\ step' = [x \in Requests |-> IF x \in Handed THEN "started"
                                       ELSE IF x = r THEN "settled" ELSE step[x]]
    BY <1>14 DEF Settle, Finished, connVars
  <2>3. r \notin Handed
    BY <2>1 DEF Handed
  <2>4. ASSUME NEW x \in Requests
        PROVE  (stage[x] = "running" <=> InHand(x))'
    <3>1. CASE x = r
      BY <2>1, <2>2, <2>3, <3>1 DEF InHand
    <3>2. CASE x # r /\ x \in Handed
      BY <2>2, <3>2 DEF InHand, Handed
    <3>3. CASE x # r /\ x \notin Handed
      BY <2>1, <2>2, <3>3 DEF InHand, Handed, ChainInv, StartsAreProcessed
    <3> QED
      BY <3>1, <3>2, <3>3
  <2>5. ASSUME NEW x \in Requests,
               step'[x] \in {"answered", "ok", "reported", "settled"}, Target(x)' \in open'
        PROVE  told'[x] # {}
    <3>1. Target(x) \in open /\ told' = told
      BY <2>1, <2>2, <2>5 DEF Target
    <3>2. step[x] \in {"answered", "ok", "reported", "settled"}
      BY <2>2, <2>5
    <3> QED
      BY <3>1, <3>2 DEF ChainInv, Heard
  <2> QED
    BY <2>1, <2>4, <2>5 DEF ChainInv, StartsAreProcessed, Heard
<1>15. ASSUME NEW f \in Fingerprints, Forget(f)
       PROVE  ChainInv'
  <2>1. UNCHANGED <<queue, debounce, merged, stage, step, open, told>>
    BY <1>15 DEF Forget, Router!WindowPasses, connVars, chainVars
  <2> QED
    BY <2>1, Aside
<1>16. ASSUME UNCHANGED vars
       PROVE  ChainInv'
  BY <1>1, <1>16 DEF vars, connVars
<1> QED
  BY <1>2, <1>3, <1>4, <1>5, <1>6, <1>7, <1>8, <1>9, <1>10, <1>11, <1>12, <1>13, <1>14, <1>15,
     <1>16 DEF Next

\* The chains process exactly the requests the router handed out, and when a
\* request is settled its sender was told how it ended or has disconnected,
\* whatever is cancelled, fails, overtakes or disconnects meanwhile.
THEOREM RequestsAreSeenThrough == Spec => []RequestsSeenThrough
<1>1. ChainInv => RequestsSeenThrough
  BY DEF ChainInv, Heard, RequestsSeenThrough, SettledWereTold
<1> QED
  BY <1>1, TypeInit, TypeStep, ChainInit, ChainStepInv, PTL DEF Spec

----------------------------------------------------------------------------
(* The router and the registry inside the server *)

\* The server uses its router as the router expects: seen through the router's
\* variables every behaviour of the server is one of MessageRouter, so what is
\* proved of the router alone holds in the server.
THEOREM ServerDrivesRouter == Spec => Router!Spec
<1>1. Init => Router!Init
  BY DEF Init
<1>2. [Next]_vars => [Router!Next]_(Router!vars)
  <2> SUFFICES ASSUME [Next]_vars PROVE [Router!Next]_(Router!vars)
    OBVIOUS
  <2>1. ASSUME UNCHANGED routerVars PROVE [Router!Next]_(Router!vars)
    BY <2>1 DEF routerVars, Router!vars
  <2>2. ASSUME \/ \E k \in Conns, valid \in BOOLEAN : ClientRegisters(k, valid)
               \/ \E r \in Requests : ClientSends(r) \/ ClientCancels(r)
               \/ \E k \in Conns : Disconnect(k) \/ Register(k) \/ RefuseRegister(k) \/ HandlerEnds(k)
               \/ \E k \in Conns, r \in Requests : MessageUnregistered(k, r) \/ CancelNotFound(k, r)
        PROVE  UNCHANGED routerVars
    BY <2>2 DEF ClientRegisters, ClientSends, ClientCancels, Arrives, Disconnect, Register,
                RefuseRegister, HandlerEnds, MessageUnregistered, CancelNotFound
  <2>3. ASSUME \/ \E r \in Requests : \/ Answer(r) \/ TaskReturns(r) \/ TaskFails(r)
                                      \/ TaskCancelled(r) \/ Report(r)
               \/ UNCHANGED vars
        PROVE  UNCHANGED routerVars
    BY <2>3 DEF Answer, TaskReturns, TaskFails, TaskCancelled, Report, vars
  <2>4. ASSUME \/ \E k \in Conns, r \in Requests : Message(k, r) \/ CancelAccepted(k, r)
               \/ \E c \in Channels : DebounceReady(c)
               \/ \E r \in Requests : Settle(r)
               \/ \E f \in Fingerprints : Forget(f)
        PROVE  Router!Next
    BY <2>4 DEF Message, CancelAccepted, DebounceReady, Settle, Forget, Router!Next
  <2> QED
    BY <2>1, <2>2, <2>3, <2>4 DEF Next
<1> QED
  BY <1>1, <1>2, PTL DEF Spec, Router!Spec

\* Likewise for the registry: connections register while they are open and are
\* unregistered once.
THEOREM ServerDrivesRegistry == Spec => Registry!RegistrySpec
<1>1. Init => Registry!RegistryInit
  BY DEF Init
<1>2. [Next]_vars => [Registry!RegistryNext]_(Registry!registryVars)
  <2> SUFFICES ASSUME [Next]_vars PROVE [Registry!RegistryNext]_(Registry!registryVars)
    OBVIOUS
  <2>1. ASSUME UNCHANGED registryVars
        PROVE  [Registry!RegistryNext]_(Registry!registryVars)
    BY <2>1 DEF registryVars, Registry!registryVars
  <2>2. ASSUME NEW k \in Conns, Register(k)
        PROVE  Registry!RegistryNext
    <3>1. PICK t \in Sessions : Registry!RegisterFresh(k, NodeOf[k], None, t)
      BY <2>2 DEF Register
    <3>2. NodeOf[k] \in Nodes /\ None \in Presented
      BY ServerConstants
    <3> QED
      BY <3>1, <3>2 DEF Registry!RegistryNext
  <2>3. ASSUME NEW k \in Conns, HandlerEnds(k)
        PROVE  [Registry!RegistryNext]_(Registry!registryVars)
    <3>1. CASE k \in local
      BY <2>3, <3>1 DEF HandlerEnds, Cleanup, Registry!RegistryNext
    <3>2. CASE k \notin local
      BY <2>1, <2>3, <3>2 DEF HandlerEnds, Cleanup
    <3> QED
      BY <3>1, <3>2
  <2>4. ASSUME \/ \E k \in Conns, valid \in BOOLEAN : ClientRegisters(k, valid)
               \/ \E r \in Requests : ClientSends(r) \/ ClientCancels(r)
               \/ \E k \in Conns : Disconnect(k) \/ RefuseRegister(k)
               \/ \E k \in Conns, r \in Requests : \/ Message(k, r) \/ MessageUnregistered(k, r)
                                                   \/ CancelAccepted(k, r) \/ CancelNotFound(k, r)
        PROVE  UNCHANGED registryVars
    BY <2>4 DEF ClientRegisters, ClientSends, ClientCancels, Arrives, Disconnect,
                RefuseRegister, Message, MessageUnregistered, CancelAccepted, CancelNotFound
  <2>5. ASSUME \/ \E c \in Channels : DebounceReady(c)
               \/ \E r \in Requests : ChainStep(r)
               \/ \E f \in Fingerprints : Forget(f)
               \/ UNCHANGED vars
        PROVE  UNCHANGED registryVars
    BY <2>5 DEF DebounceReady, ChainStep, Answer, TaskReturns, TaskFails, TaskCancelled,
                Report, Settle, Forget, vars
  <2> QED
    BY <2>1, <2>2, <2>3, <2>4, <2>5 DEF Next, ChainStep
<1> QED
  BY <1>1, <1>2, PTL DEF Spec, Registry!RegistrySpec

----------------------------------------------------------------------------
(* Sandboxes                                                              *)

(* Who uses a container: between get_sandbox and the end of the call.     *)
InUse == {"writing", "ready", "running"}

(* The lock is held by the call that makes a container, and by no other;    *)
(* its user has no session meanwhile.                                       *)
OneMakes ==
    \A c \in Calls :
        /\ call[c].at \in {"creating", "preparing"} <=> creating = c
        /\ creating = c => session[User[c]].id = 0

(* A call has no container until one is handed to it, then one that was     *)
(* made; so has a session; and what was taken is not up.                    *)
BoxesExist ==
    /\ \A c \in Calls :
        /\ call[c].at \in {"new", "getting", "creating"} => call[c].id = 0
        /\ call[c].at \in InUse \cup {"preparing"} =>
              call[c].id \in Boxes /\ container[call[c].id].state # "none"
    /\ \A u \in Users : session[u].id # 0 => container[session[u].id].state # "none"
    /\ \A i \in Boxes : i \in taken => container[i].state \in {"stopped", "removed"}

(* A container in use is its user's and is up, unless it was taken.       *)
OwnOrTaken ==
    /\ \A c \in Calls : call[c].at \in InUse =>
          \/ call[c].id \in taken
          \/ container[call[c].id].state = "up" /\ session[User[c]].id = call[c].id
    /\ \A c \in Calls : call[c].at = "preparing" =>
          \/ call[c].id \in taken
          \/ container[call[c].id].state = "up"

(* Two scripts in one container have crossed, and one that has not crossed  *)
(* finds in the container what it wrote.                                    *)
ScriptsApart ==
    /\ \A c, d \in Calls :
          c # d /\ Executing(c) /\ Executing(d) /\ call[c].id = call[d].id => c \in crossed
    /\ \A c \in Calls \ (Installs \cup crossed) :
          call[c].at = "ready" => container[call[c].id].script = c
    /\ \A c \in Installs \cap Calls : call[c].at # "writing"

SandboxInv ==
    /\ SandboxTypeOK /\ OneMakes /\ BoxesExist /\ OwnOrTaken /\ ScriptsApart /\ SandboxesSafe

SandboxAssumptions == MaxContainers \in Nat /\ MaxFaults \in Nat /\ Nobody \notin Calls

(* The records of a container, of a session and of a call. *)
BoxRecords ==
    [name : {Name[u] : u \in Users} \cup {Nobody}, package : BOOLEAN,
     state : {"none", "up", "stopped", "removed"}, script : Calls \cup {Nobody}]
SessionRecords == [id : Boxes \cup {0}, package : BOOLEAN, idle : BOOLEAN]
CallRecords ==
    [at : {"new", "getting", "creating", "preparing", "writing", "ready", "running", "done", "failed"},
     id : Boxes \cup {0}, session : Boxes \cup {0}, ran : Calls \cup {Nobody}]

LEMMA SandboxRecords ==
    /\ SandboxTypeOK <=>
         /\ container \in [Boxes -> BoxRecords] /\ session \in [Users -> SessionRecords]
         /\ creating \in Calls \cup {Nobody} /\ faults \in 0 .. MaxFaults
         /\ call \in [Calls -> CallRecords] /\ taken \subseteq Boxes \cup {0} /\ crossed \subseteq Calls
    /\ \A c \in Calls : User[c] \in Users
    /\ NoSession \in SessionRecords /\ NoCall \in CallRecords /\ NoContainer \in BoxRecords
BY DEF SandboxTypeOK, BoxRecords, SessionRecords, CallRecords, NoSession, NoCall, NoContainer, Users

LEMMA BoxRecordEdits ==
    ASSUME NEW b \in BoxRecords
    PROVE  /\ b.state \in {"none", "up", "stopped", "removed"} /\ b.script \in Calls \cup {Nobody}
           /\ b.package \in BOOLEAN
           /\ \A v \in {"up", "stopped", "removed"} : [b EXCEPT !.state = v] \in BoxRecords
           /\ \A c \in Calls : [b EXCEPT !.script = c] \in BoxRecords
           /\ \A v \in BOOLEAN : [b EXCEPT !.package = b.package \/ v] \in BoxRecords
           /\ \A u \in Users : [NoContainer EXCEPT !.name = Name[u], !.state = "up"] \in BoxRecords
BY DEF BoxRecords, NoContainer

LEMMA SessionRecordEdits ==
    ASSUME NEW s \in SessionRecords
    PROVE  /\ s.id \in Boxes \cup {0} /\ s.package \in BOOLEAN /\ s.idle \in BOOLEAN
           /\ \A v \in BOOLEAN : [s EXCEPT !.idle = v] \in SessionRecords
           /\ \A v \in BOOLEAN : [s EXCEPT !.package = s.package \/ v] \in SessionRecords
           /\ \A i \in Boxes \cup {0} : [NoSession EXCEPT !.id = i] \in SessionRecords
BY DEF SessionRecords, NoSession

LEMMA CallRecordEdits ==
    ASSUME NEW r \in CallRecords
    PROVE  /\ r.id \in Boxes \cup {0} /\ r.session \in Boxes \cup {0} /\ r.ran \in Calls \cup {Nobody}
           /\ \A p \in {"new", "getting", "creating", "preparing", "writing", "ready", "running",
                         "done", "failed"} :
                /\ [r EXCEPT !.at = p] \in CallRecords
                /\ \A i \in Boxes \cup {0} : /\ [r EXCEPT !.at = p, !.id = i] \in CallRecords
                                            /\ [r EXCEPT !.at = p, !.session = i] \in CallRecords
                /\ \A c \in Calls \cup {Nobody} : [r EXCEPT !.at = p, !.ran = c] \in CallRecords
<1>1. r.id \in Boxes \cup {0} /\ r.session \in Boxes \cup {0} /\ r.ran \in Calls \cup {Nobody}
  BY DEF CallRecords
<1>2. ASSUME NEW p \in {"new", "getting", "creating", "preparing", "writing", "ready", "running",
                         "done", "failed"}
      PROVE  /\ [r EXCEPT !.at = p] \in CallRecords
             /\ \A i \in Boxes \cup {0} : /\ [r EXCEPT !.at = p, !.id = i] \in CallRecords
                                         /\ [r EXCEPT !.at = p, !.session = i] \in CallRecords
             /\ \A c \in Calls \cup {Nobody} : [r EXCEPT !.at = p, !.ran = c] \in CallRecords
  <2>1. [r EXCEPT !.at = p] \in CallRecords
    BY DEF CallRecords
  <2>2. ASSUME NEW i \in Boxes \cup {0}
        PROVE  /\ [r EXCEPT !.at = p, !.id = i] \in CallRecords
               /\ [r EXCEPT !.at = p, !.session = i] \in CallRecords
    BY DEF CallRecords
  <2>3. ASSUME NEW c \in Calls \cup {Nobody} PROVE [r EXCEPT !.at = p, !.ran = c] \in CallRecords
    BY DEF CallRecords
  <2> QED
    BY <2>1, <2>2, <2>3
<1> QED
  BY <1>1, <1>2

LEMMA SandboxTypes ==
    ASSUME SandboxAssumptions
    PROVE  /\ SandboxInit => SandboxTypeOK
           /\ SandboxTypeOK /\ [SandboxNext]_sandboxVars => SandboxTypeOK'
<1> DEFINE T == /\ container \in [Boxes -> BoxRecords] /\ session \in [Users -> SessionRecords]
                /\ creating \in Calls \cup {Nobody} /\ faults \in 0 .. MaxFaults
                /\ call \in [Calls -> CallRecords] /\ taken \subseteq Boxes \cup {0}
                /\ crossed \subseteq Calls
<1>0. (T <=> SandboxTypeOK) /\ (T' <=> SandboxTypeOK')
  BY SandboxRecords, PTL
<1>1. SandboxInit => T
  BY SandboxRecords DEF SandboxInit, SandboxAssumptions
<1>H. ASSUME T, NEW c \in Calls, NEW i \in Boxes \cup {0}, Hand(c, i)
      PROVE  call' \in [Calls -> CallRecords] /\ crossed' \subseteq Calls
  <2>1. call' \in [Calls -> CallRecords]
    BY <1>H, CallRecordEdits DEF Hand
  <2>2. crossed' \subseteq Calls
    BY <1>H DEF Hand
  <2> QED
    BY <2>1, <2>2
<1>R. ASSUME T, NEW ids, RemoveBoxes(ids) PROVE container' \in [Boxes -> BoxRecords]
  BY <1>R, BoxRecordEdits DEF RemoveBoxes
<1>2. ASSUME T, NEW c \in Calls, Ask(c) PROVE T'
  <2>1. User[c] \in Users /\ Session(c).id \in Boxes \cup {0}
    BY <1>2, SandboxRecords, SessionRecordEdits DEF Session
  <2>2. PICK p \in {"done", "getting"} :
           call' = [call EXCEPT ![c] = [call[c] EXCEPT !.at = p, !.session = Session(c).id]]
    BY <1>2 DEF Ask
  <2>3. [call[c] EXCEPT !.at = p, !.session = Session(c).id] \in CallRecords
    BY <1>2, <2>1, CallRecordEdits
  <2> QED
    BY <1>2, <2>2, <2>3 DEF Ask
<1>3. ASSUME T, NEW c \in Calls, Find(c) PROVE T'
  <2>1. User[c] \in Users /\ Session(c).id \in Boxes \cup {0}
    BY <1>3, SandboxRecords, SessionRecordEdits DEF Session
  <2> QED
    BY <1>3, <2>1, <1>H, SessionRecordEdits DEF Find
<1>4. ASSUME T, NEW c \in Calls, Discard(c) PROVE T'
  <2>1. container' \in [Boxes -> BoxRecords]
    BY <1>4, <1>R DEF Discard
  <2> QED
    BY <1>4, <2>1, SandboxRecords, CallRecordEdits DEF Discard
<1>5. ASSUME T, NEW c \in Calls, Create(c) PROVE T'
  <2>1. User[c] \in Users
    BY SandboxRecords
  <2>2. PICK i \in Boxes :
           /\ container' = [container EXCEPT ![i] = [NoContainer EXCEPT !.name = Name[User[c]], !.state = "up"]]
           /\ call' = [call EXCEPT ![c] = [call[c] EXCEPT !.at = "preparing", !.id = i]]
    BY <1>5 DEF Create
  <2>3. [NoContainer EXCEPT !.name = Name[User[c]], !.state = "up"] \in BoxRecords
    BY <1>5, <2>1, BoxRecordEdits
  <2>4. [call[c] EXCEPT !.at = "preparing", !.id = i] \in CallRecords
    BY <1>5, CallRecordEdits
  <2> QED
    BY <1>5, <2>2, <2>3, <2>4 DEF Create
<1>6. ASSUME T, NEW c \in Calls, Prepare(c) PROVE T'
  <2>1. User[c] \in Users /\ call[c].id \in Boxes \cup {0}
    BY <1>6, SandboxRecords, CallRecordEdits
  <2>2. session' \in [Users -> SessionRecords]
    BY <1>6, <2>1, SessionRecordEdits DEF Prepare
  <2> QED
    BY <1>6, <2>1, <2>2, <1>H DEF Prepare
<1>7. ASSUME T, NEW c \in Calls, CannotCreate(c) PROVE T'
  <2>1. faults' \in 0 .. MaxFaults
    BY <1>7 DEF CannotCreate, Fault, SandboxAssumptions
  <2>2. [call[c] EXCEPT !.at = "failed"] \in CallRecords
    BY <1>7, CallRecordEdits
  <2> QED
    BY <1>7, <2>1, <2>2 DEF CannotCreate
<1>8. ASSUME T, NEW c \in Calls, Fails(c) PROVE T'
  BY <1>8, CallRecordEdits DEF Fails
<1>9. ASSUME T, NEW c \in Calls, Write(c) PROVE T'
  BY <1>9, CallRecordEdits, BoxRecordEdits DEF Write
<1>10. ASSUME T, NEW c \in Calls, Run(c) PROVE T'
  <2>1. call[c].id \in Boxes
    BY <1>10, CallRecordEdits DEF Run, Up
  <2> QED
    BY <1>10, <2>1, CallRecordEdits, BoxRecordEdits DEF Run
<1>11. ASSUME T, NEW c \in Calls, Finish(c) PROVE T'
  <2>1. call' \in [Calls -> CallRecords]
    BY <1>11, CallRecordEdits DEF Finish
  <2>2. container' \in [Boxes -> BoxRecords]
    <3>1. CASE c \notin Installs
      BY <1>11, <3>1 DEF Finish
    <3>2. CASE c \in Installs
      <4>1. PICK v \in BOOLEAN :
               container' = [container EXCEPT ![call[c].id] =
                               [container[call[c].id] EXCEPT !.package = container[call[c].id].package \/ v]]
        BY <1>11, <3>2 DEF Finish
      <4> QED
        BY <1>11, <4>1, BoxRecordEdits
    <3> QED
      BY <3>1, <3>2
  <2>3. session' \in [Users -> SessionRecords]
    <3>1. CASE c \notin Installs
      <4>1. User[c] \in Users /\ [session[User[c]] EXCEPT !.idle = FALSE] \in SessionRecords
        BY <1>11, SandboxRecords, SessionRecordEdits
      <4> QED
        BY <1>11, <3>1, <4>1 DEF Finish
    <3>2. CASE c \in Installs
      <4>1. PICK v \in BOOLEAN :
               session' = [session EXCEPT ![User[c]] =
                             [session[User[c]] EXCEPT !.package = session[User[c]].package \/ v]]
        <5>1. PICK b \in BOOLEAN : session' = [session EXCEPT ![User[c]].package =
                             @ \/ (Session(c).id # 0 /\ Track(c, b))]
          BY <1>11, <3>2 DEF Finish
        <5>2. (Session(c).id # 0 /\ Track(c, b)) \in BOOLEAN
          BY DEF Track
        <5> QED
          BY <5>1, <5>2
      <4> QED
        BY <1>11, <4>1, SandboxRecords, SessionRecordEdits
    <3> QED
      BY <3>1, <3>2
  <2> QED
    BY <1>11, <2>1, <2>2, <2>3 DEF Finish
<1>12. ASSUME T, NEW c \in Calls, Again(c) PROVE T'
  BY <1>12, SandboxRecords DEF Again
<1>13. ASSUME T, Idles PROVE T'
  <2>1. PICK u \in Users : session' = [session EXCEPT ![u] = [session[u] EXCEPT !.idle = TRUE]]
    BY <1>13 DEF Idles
  <2>2. session[u] \in SessionRecords
    BY <1>13
  <2>3. [session[u] EXCEPT !.idle = TRUE] \in SessionRecords
    BY <2>2, SessionRecordEdits
  <2> QED
    BY <1>13, <2>1, <2>3 DEF Idles
<1>14. ASSUME T, CleanupIdle PROVE T'
  <2>1. container' \in [Boxes -> BoxRecords]
    BY <1>14, <1>R DEF CleanupIdle
  <2> QED
    BY <1>14, <2>1, SandboxRecords, SessionRecordEdits DEF CleanupIdle
<1>15. ASSUME T, Stops PROVE T'
  <2>1. faults' \in 0 .. MaxFaults
    BY <1>15 DEF Stops, Fault, SandboxAssumptions
  <2>2. PICK i \in Boxes : /\ container' = [container EXCEPT ![i] = [container[i] EXCEPT !.state = "stopped"]]
                           /\ taken' = taken \cup {i}
    BY <1>15 DEF Stops
  <2>3. [container[i] EXCEPT !.state = "stopped"] \in BoxRecords
    BY <1>15, BoxRecordEdits
  <2> QED
    BY <1>15, <2>1, <2>2, <2>3 DEF Stops
<1>16. T /\ UNCHANGED sandboxVars => T'
  BY DEF sandboxVars
<1>17. T /\ [SandboxNext]_sandboxVars => T'
  BY <1>2, <1>3, <1>4, <1>5, <1>6, <1>7, <1>8, <1>9, <1>10, <1>11, <1>12, <1>13, <1>14,
     <1>15, <1>16 DEF SandboxNext
<1> QED
  BY <1>0, <1>1, <1>17

(* Every container, session and call is of its type, whoever calls for what. *)
THEOREM SandboxTypeCorrect ==
    ASSUME SandboxAssumptions PROVE SandboxSpec => []SandboxTypeOK
BY SandboxTypes, PTL DEF SandboxSpec

LEMMA SandboxInitially ==
    ASSUME SandboxAssumptions, SandboxInit PROVE SandboxInv
<1>1. SandboxTypeOK
  BY SandboxTypes
<1>2. \A c \in Calls : call[c].at = "new" /\ call[c].id = 0
  BY DEF SandboxInit, NoCall
<1>3. \A u \in Users : session[u].id = 0 /\ session[u].package = FALSE
  BY DEF SandboxInit, NoSession
<1>4. creating = Nobody /\ taken = {}
  BY DEF SandboxInit
<1> QED
  BY <1>1, <1>2, <1>3, <1>4, SandboxRecords
     DEF SandboxInv, SandboxAssumptions, OneMakes, BoxesExist, OwnOrTaken, ScriptsApart, SandboxesSafe,
         InUse, Executing, RunsItsOwnScript, FailuresAreExternal, TrackedIsInstalled

(* What every step of the proof knows of the types. *)
LEMMA SandboxShapes ==
    ASSUME SandboxAssumptions, SandboxTypeOK
    PROVE  /\ DOMAIN call = Calls /\ DOMAIN session = Users /\ DOMAIN container = Boxes
           /\ 0 \notin Boxes /\ \A c \in Calls : User[c] \in Users
           /\ \A c \in Calls : call[c].id \in Boxes \cup {0}
           /\ \A u \in Users : session[u].id \in Boxes \cup {0} /\ session[u].package \in BOOLEAN
<1>1. 0 \notin Boxes
  BY DEF Boxes, SandboxAssumptions
<1> QED
  BY <1>1, SandboxRecords, CallRecordEdits, SessionRecordEdits

(* What a step does to one call, record by record. *)
LEMMA CallEdits ==
    ASSUME SandboxTypeOK, NEW c \in Calls, NEW p, NEW i
    PROVE  /\ call' = [call EXCEPT ![c].at = p] =>
                /\ call'[c].at = p /\ call'[c].id = call[c].id /\ call'[c].session = call[c].session
                /\ call'[c].ran = call[c].ran /\ \A d \in Calls \ {c} : call'[d] = call[d]
           /\ call' = [call EXCEPT ![c].at = p, ![c].session = i] =>
                /\ call'[c].at = p /\ call'[c].id = call[c].id
                /\ call'[c].ran = call[c].ran /\ \A d \in Calls \ {c} : call'[d] = call[d]
           /\ call' = [call EXCEPT ![c].at = p, ![c].ran = i] =>
                /\ call'[c].at = p /\ call'[c].id = call[c].id
                /\ call'[c].ran = i /\ \A d \in Calls \ {c} : call'[d] = call[d]
BY DEF SandboxTypeOK

LEMMA CallPlaced ==
    ASSUME SandboxTypeOK, NEW c \in Calls, NEW p, NEW i,
           call' = [call EXCEPT ![c].at = p, ![c].id = i]
    PROVE  /\ call'[c].at = p /\ call'[c].id = i /\ call'[c].ran = call[c].ran
           /\ \A d \in Calls \ {c} : call'[d] = call[d]
BY DEF SandboxTypeOK

(* What is removed is removed, and nothing else changes. *)
LEMMA Removes ==
    ASSUME SandboxTypeOK, NEW ids, RemoveBoxes(ids)
    PROVE  \A i \in Boxes :
              /\ container'[i].script = container[i].script
              /\ container'[i].package = container[i].package
              /\ container'[i].state = IF i \in ids THEN "removed" ELSE container[i].state
BY DEF SandboxTypeOK, RemoveBoxes

(* The parts of the invariant but the types, for one step each. *)
SandboxRest == OneMakes /\ BoxesExist /\ OwnOrTaken /\ ScriptsApart /\ SandboxesSafe

LEMMA AskKeeps ==
    ASSUME SandboxAssumptions, SandboxInv, NEW c \in Calls, Ask(c) PROVE SandboxRest'
<1>1. PICK p \in {"done", "getting"} :
        /\ call' = [call EXCEPT ![c].at = p, ![c].session = Session(c).id]
        /\ p = "done" => c \in Installs
  BY DEF Ask
<1>2. /\ call'[c].at = p /\ call'[c].id = call[c].id /\ \A d \in Calls \ {c} : call'[d] = call[d]
  BY <1>1, CallEdits DEF SandboxInv
<1>3. call[c].at = "new" /\ UNCHANGED <<container, session, creating, taken, crossed>>
  BY DEF Ask
<1> QED
  BY <1>1, <1>2, <1>3, SandboxShapes
     DEF SandboxInv, SandboxRest, OneMakes, BoxesExist, OwnOrTaken, ScriptsApart, SandboxesSafe,
         InUse, Executing, RunsItsOwnScript, FailuresAreExternal, TrackedIsInstalled,
         SandboxAssumptions

(* A container handed to a call is up and its session's: the scripts in it  *)
(* that meet have crossed.                                                  *)
LEMMA HandKeeps ==
    ASSUME SandboxAssumptions, SandboxInv, NEW c \in Calls, NEW i \in Boxes, Hand(c, i),
           call[c].at \in {"getting", "preparing"}, UNCHANGED container
    PROVE  /\ call'[c].at = IF c \in Installs THEN "ready" ELSE "writing"
           /\ call'[c].id = i /\ call'[c].ran = call[c].ran
           /\ \A d \in Calls \ {c} : call'[d] = call[d]
           /\ crossed \subseteq crossed'
           /\ ScriptsApart'
<1>1. PICK p : /\ call' = [call EXCEPT ![c].at = p, ![c].id = i]
               /\ c \in Installs => p = "ready"
               /\ c \notin Installs => p = "writing"
  BY DEF Hand
<1>2. /\ call'[c].at = p /\ call'[c].id = i /\ call'[c].ran = call[c].ran
      /\ \A d \in Calls \ {c} : call'[d] = call[d]
  BY <1>1, CallPlaced DEF SandboxInv
<1> DEFINE others == {d \in Calls \ {c} : Executing(d) /\ call[d].id = i}
<1>3. crossed' = IF c \in Installs \/ others = {} THEN crossed ELSE crossed \cup others \cup {c}
  BY DEF Hand
<1>4. crossed \subseteq crossed'
  BY <1>3
<1>5. \A d \in Calls \ {c} : Executing(d)' <=> Executing(d)
  BY <1>2 DEF Executing
<1>6. ASSUME NEW d \in Calls, NEW e \in Calls, d # e, Executing(d)', Executing(e)',
             call'[d].id = call'[e].id
      PROVE  d \in crossed'
  <2>1. CASE d # c /\ e # c
    BY <1>2, <1>4, <1>5, <1>6, <2>1 DEF SandboxInv, ScriptsApart
  <2>2. CASE d = c
    BY <1>2, <1>3, <1>5, <1>6, <2>2 DEF Executing
  <2>3. CASE e = c
    BY <1>2, <1>3, <1>5, <1>6, <2>3 DEF Executing
  <2> QED
    BY <2>1, <2>2, <2>3
<1>7. \A d \in Calls \ (Installs \cup crossed') :
        call'[d].at = "ready" => container'[call'[d].id].script = d
  BY <1>1, <1>2, <1>4 DEF SandboxInv, ScriptsApart
<1>8. \A d \in Installs \cap Calls : call'[d].at # "writing"
  BY <1>1, <1>2 DEF SandboxInv, ScriptsApart
<1>9. ScriptsApart'
  BY <1>6, <1>7, <1>8 DEF ScriptsApart
<1>10. call'[c].at = IF c \in Installs THEN "ready" ELSE "writing"
  BY <1>1, <1>2
<1> QED
  BY <1>2, <1>4, <1>9, <1>10

LEMMA FindKeeps ==
    ASSUME SandboxAssumptions, SandboxInv, NEW c \in Calls, Find(c) PROVE SandboxRest'
<1> DEFINE i == Session(c).id
<1>1. i \in Boxes /\ container[i].state = "up" /\ call[c].at = "getting"
  BY SandboxShapes DEF Find, Up, Session, SandboxInv
<1>2. /\ call'[c].at = IF c \in Installs THEN "ready" ELSE "writing"
      /\ call'[c].id = i /\ call'[c].ran = call[c].ran
      /\ \A d \in Calls \ {c} : call'[d] = call[d]
      /\ crossed \subseteq crossed' /\ ScriptsApart'
  BY <1>1, HandKeeps DEF Find
<1>3. \A u \in Users : session'[u].id = session[u].id /\ session'[u].package = session[u].package
  BY DEF Find, SandboxInv, SandboxTypeOK
<1>4. UNCHANGED <<container, creating, taken>>
  BY DEF Find
<1> QED
  BY <1>1, <1>2, <1>3, <1>4, SandboxShapes
     DEF Session, SandboxInv, SandboxRest, OneMakes, BoxesExist, OwnOrTaken, ScriptsApart,
         SandboxesSafe, InUse, Executing, RunsItsOwnScript, FailuresAreExternal,
         TrackedIsInstalled, SandboxAssumptions

LEMMA DiscardKeeps ==
    ASSUME SandboxAssumptions, SandboxInv, NEW c \in Calls, Discard(c) PROVE SandboxRest'
<1> DEFINE old == {i \in Boxes : /\ container[i].name = Name[User[c]]
                                /\ container[i].state \in {"up", "stopped"}}
           more == {i \in old : \E u \in Users \ {User[c]} : session[u].id = i}
<1>1. /\ call[c].at = "getting" /\ creating = Nobody /\ ~Up(session[User[c]].id)
      /\ RemoveBoxes(old) /\ taken' = taken \cup more /\ creating' = c /\ crossed' = crossed
      /\ session' = [session EXCEPT ![User[c]] = NoSession]
  BY DEF Discard, Unlocked, Session
<1>2. /\ call'[c].at = "creating" /\ call'[c].id = call[c].id /\ call'[c].ran = call[c].ran
      /\ \A d \in Calls \ {c} : call'[d] = call[d]
  BY CallEdits DEF Discard, SandboxInv
<1>3. \A i \in Boxes : /\ container'[i].script = container[i].script
                       /\ container'[i].package = container[i].package
                       /\ container'[i].state = IF i \in old THEN "removed" ELSE container[i].state
  BY <1>1, Removes DEF SandboxInv
<1>4. /\ session'[User[c]].id = 0 /\ session'[User[c]].package = FALSE
      /\ \A u \in Users \ {User[c]} : session'[u] = session[u]
  BY <1>1, SandboxShapes DEF SandboxInv, NoSession, SandboxTypeOK
<1> HIDE DEF old
<1>5. old \subseteq Boxes /\ \A i \in old : container[i].state \in {"up", "stopped"}
  BY DEF old
<1>6. OneMakes'
  BY <1>1, <1>2, <1>4, SandboxShapes DEF SandboxInv, OneMakes, SandboxAssumptions
<1>7. BoxesExist'
  BY <1>1, <1>2, <1>3, <1>4, <1>5, SandboxShapes DEF SandboxInv, BoxesExist, InUse
<1>8. ASSUME NEW d \in Calls, call'[d].at \in InUse, call'[d].id \notin taken'
      PROVE  container'[call'[d].id].state = "up" /\ session'[User[d]].id = call'[d].id
  <2>1. d # c /\ call'[d] = call[d]
    BY <1>2, <1>8 DEF InUse
  <2>2. /\ call[d].id \in Boxes /\ container[call[d].id].state = "up"
        /\ session[User[d]].id = call[d].id
    BY <1>1, <1>8, <2>1 DEF SandboxInv, BoxesExist, OwnOrTaken
  <2>3. User[d] # User[c]
    BY <1>1, <2>2, SandboxShapes DEF Up, SandboxInv
  <2>4. call[d].id \notin old
    BY <1>1, <1>8, <2>1, <2>2, <2>3, SandboxShapes DEF SandboxInv
  <2> QED
    BY <1>3, <1>4, <2>1, <2>2, <2>3, <2>4, SandboxShapes DEF SandboxInv
<1>9. OwnOrTaken'
  BY <1>1, <1>2, <1>8, SandboxShapes DEF SandboxInv, OwnOrTaken, OneMakes, SandboxAssumptions
<1>10. ScriptsApart'
  BY <1>1, <1>2, <1>3, SandboxShapes DEF SandboxInv, ScriptsApart, BoxesExist, InUse, Executing
<1>11. SandboxesSafe'
  BY <1>1, <1>2, <1>3, <1>4, SandboxShapes
     DEF SandboxInv, SandboxesSafe, RunsItsOwnScript, FailuresAreExternal, TrackedIsInstalled
<1> QED
  BY <1>6, <1>7, <1>9, <1>10, <1>11 DEF SandboxRest

LEMMA CreateKeeps ==
    ASSUME SandboxAssumptions, SandboxInv, NEW c \in Calls, Create(c) PROVE SandboxRest'
<1>1. PICK i \in Boxes :
        /\ container[i].state = "none"
        /\ container' = [container EXCEPT ![i] = [NoContainer EXCEPT !.name = Name[User[c]], !.state = "up"]]
        /\ call' = [call EXCEPT ![c].at = "preparing", ![c].id = i]
  BY DEF Create
<1>2. /\ call'[c].at = "preparing" /\ call'[c].id = i /\ call'[c].ran = call[c].ran
      /\ \A d \in Calls \ {c} : call'[d] = call[d]
  BY <1>1, CallPlaced DEF SandboxInv
<1>3. /\ container'[i].state = "up" /\ \A j \in Boxes \ {i} : container'[j] = container[j]
  BY <1>1, SandboxShapes DEF SandboxInv, NoContainer, SandboxTypeOK
<1>4. call[c].at = "creating" /\ UNCHANGED <<session, creating, taken, crossed>>
  BY DEF Create
<1>5. OneMakes' /\ BoxesExist'
  BY <1>1, <1>2, <1>3, <1>4, SandboxShapes DEF SandboxInv, OneMakes, BoxesExist, InUse, SandboxAssumptions
<1>6. OwnOrTaken'
  BY <1>1, <1>2, <1>3, <1>4, SandboxShapes DEF SandboxInv, OwnOrTaken, BoxesExist, InUse
<1>7. ScriptsApart'
  BY <1>1, <1>2, <1>3, <1>4, SandboxShapes DEF SandboxInv, ScriptsApart, BoxesExist, InUse, Executing
<1>8. SandboxesSafe'
  BY <1>1, <1>2, <1>3, <1>4, SandboxShapes
     DEF SandboxInv, BoxesExist, SandboxesSafe, RunsItsOwnScript, FailuresAreExternal, TrackedIsInstalled
<1> QED
  BY <1>5, <1>6, <1>7, <1>8 DEF SandboxRest

LEMMA PrepareKeeps ==
    ASSUME SandboxAssumptions, SandboxInv, NEW c \in Calls, Prepare(c) PROVE SandboxRest'
<1> DEFINE i == call[c].id
<1>1. i \in Boxes /\ container[i].state = "up" /\ call[c].at = "preparing" /\ creating = c
  BY SandboxShapes DEF Prepare, Up, SandboxInv, OneMakes
<1>2. /\ call'[c].at = IF c \in Installs THEN "ready" ELSE "writing"
      /\ call'[c].id = i /\ call'[c].ran = call[c].ran
      /\ \A d \in Calls \ {c} : call'[d] = call[d]
      /\ crossed \subseteq crossed' /\ ScriptsApart'
  BY <1>1, HandKeeps DEF Prepare
<1>3. /\ session'[User[c]].id = i /\ session'[User[c]].package = FALSE
      /\ \A u \in Users \ {User[c]} : session'[u] = session[u]
  BY SandboxShapes DEF Prepare, SandboxInv, SandboxTypeOK, NoSession
<1>4. UNCHANGED <<container, taken>> /\ creating' = Nobody
  BY DEF Prepare
<1>5. OneMakes' /\ BoxesExist'
  BY <1>1, <1>2, <1>3, <1>4, SandboxShapes DEF SandboxInv, OneMakes, BoxesExist, InUse, SandboxAssumptions
<1>6. OwnOrTaken'
  BY <1>1, <1>2, <1>3, <1>4, SandboxShapes DEF SandboxInv, OwnOrTaken, BoxesExist, OneMakes, InUse
<1>7. SandboxesSafe'
  BY <1>1, <1>2, <1>3, <1>4, SandboxShapes
     DEF SandboxInv, SandboxesSafe, RunsItsOwnScript, FailuresAreExternal, TrackedIsInstalled
<1> QED
  BY <1>2, <1>5, <1>6, <1>7 DEF SandboxRest

LEMMA FailureKeeps ==
    ASSUME SandboxAssumptions, SandboxInv, NEW c \in Calls, CannotCreate(c) \/ Fails(c)
    PROVE  SandboxRest'
<1>1. /\ call'[c].at = "failed" /\ call'[c].id = call[c].id /\ call'[c].ran = call[c].ran
      /\ \A d \in Calls \ {c} : call'[d] = call[d]
  BY CallEdits DEF CannotCreate, Fails, SandboxInv
<1>2. UNCHANGED <<container, session, crossed>> /\ taken \subseteq taken' /\ taken' \subseteq taken \cup {0}
  BY DEF CannotCreate, Fails
<1>3. creating' = IF creating = c THEN Nobody ELSE creating
  BY DEF CannotCreate, Fails, SandboxInv, OneMakes
<1>4. call[c].id \in taken'
  BY SandboxShapes DEF CannotCreate, Fails, Up, SandboxInv, OwnOrTaken, BoxesExist, InUse
<1>5. OneMakes' /\ BoxesExist'
  BY <1>1, <1>2, <1>3, SandboxShapes DEF SandboxInv, OneMakes, BoxesExist, InUse, SandboxAssumptions
<1>6. OwnOrTaken' /\ ScriptsApart'
  BY <1>1, <1>2, SandboxShapes DEF SandboxInv, OwnOrTaken, ScriptsApart, InUse, Executing
<1>7. SandboxesSafe'
  BY <1>1, <1>2, <1>4, SandboxShapes
     DEF SandboxInv, SandboxesSafe, RunsItsOwnScript, FailuresAreExternal, TrackedIsInstalled
<1> QED
  BY <1>5, <1>6, <1>7 DEF SandboxRest

LEMMA WriteKeeps ==
    ASSUME SandboxAssumptions, SandboxInv, NEW c \in Calls, Write(c) PROVE SandboxRest'
<1> DEFINE i == call[c].id
<1>1. i \in Boxes /\ call[c].at = "writing" /\ UNCHANGED <<session, creating, taken, crossed>>
  BY SandboxShapes DEF Write, Up, SandboxInv
<1>2. /\ call'[c].at = "ready" /\ call'[c].id = i /\ call'[c].ran = call[c].ran
      /\ \A d \in Calls \ {c} : call'[d] = call[d]
  BY CallEdits DEF Write, SandboxInv
<1>3. /\ container'[i].script = c
      /\ \A j \in Boxes : /\ container'[j].state = container[j].state
                           /\ container'[j].package = container[j].package
      /\ \A j \in Boxes \ {i} : container'[j].script = container[j].script
  BY <1>1 DEF Write, SandboxInv, SandboxTypeOK
<1>4. OneMakes' /\ BoxesExist'
  BY <1>1, <1>2, <1>3, SandboxShapes DEF SandboxInv, OneMakes, BoxesExist, InUse, SandboxAssumptions
<1>5. OwnOrTaken'
  BY <1>1, <1>2, <1>3, SandboxShapes DEF SandboxInv, OwnOrTaken, BoxesExist, InUse
<1>6. ScriptsApart'
  BY <1>1, <1>2, <1>3, SandboxShapes DEF SandboxInv, ScriptsApart, BoxesExist, InUse, Executing
<1>7. SandboxesSafe'
  BY <1>1, <1>2, <1>3, SandboxShapes
     DEF SandboxInv, SandboxesSafe, RunsItsOwnScript, FailuresAreExternal, TrackedIsInstalled
<1> QED
  BY <1>4, <1>5, <1>6, <1>7 DEF SandboxRest

LEMMA RunKeeps ==
    ASSUME SandboxAssumptions, SandboxInv, NEW c \in Calls, Run(c) PROVE SandboxRest'
<1>1. call[c].at = "ready" /\ UNCHANGED <<container, session, creating, taken, crossed>>
  BY DEF Run
<1>2. /\ call'[c].at = "running" /\ call'[c].id = call[c].id
      /\ call'[c].ran = container[call[c].id].script
      /\ \A d \in Calls \ {c} : call'[d] = call[d]
  BY CallEdits DEF Run, SandboxInv
<1> QED
  BY <1>1, <1>2, SandboxShapes
     DEF SandboxInv, SandboxRest, OneMakes, BoxesExist, OwnOrTaken, ScriptsApart, SandboxesSafe,
         InUse, Executing, RunsItsOwnScript, FailuresAreExternal, TrackedIsInstalled,
         SandboxAssumptions

LEMMA FinishKeeps ==
    ASSUME SandboxAssumptions, SandboxInv, NEW c \in Calls, Finish(c) PROVE SandboxRest'
<1> DEFINE i == call[c].id
           u == User[c]
<1>1. /\ i \in Boxes /\ container[i].state = "up" /\ call[c].at = "running" /\ u \in Users
      /\ UNCHANGED <<creating, taken, crossed>>
  BY SandboxShapes DEF Finish, Up, SandboxInv
<1>2. session[u].id = i
  BY <1>1 DEF SandboxInv, BoxesExist, OwnOrTaken, InUse
<1>3. /\ call'[c].at = "done" /\ call'[c].id = i /\ call'[c].ran = call[c].ran
      /\ \A d \in Calls \ {c} : call'[d] = call[d]
  BY CallEdits DEF Finish, SandboxInv
<1> DEFINE Same == /\ \A j \in Boxes : /\ container'[j].state = container[j].state
                                       /\ container'[j].script = container[j].script
                   /\ \A v \in Users : session'[v].id = session[v].id
           Packages == /\ \A j \in Boxes : container[j].package => container'[j].package
                       /\ \A v \in Users \ {u} : session'[v].package = session[v].package
                       /\ session'[u].package => session[u].package \/ container'[i].package
<1>4. Same /\ Packages
  <2>1. CASE c \in Installs
    <3>1. PICK installed \in BOOLEAN :
            /\ container' = [container EXCEPT ![i].package = @ \/ installed]
            /\ session' = [session EXCEPT ![u].package = @ \/ (Session(c).id # 0 /\ Track(c, installed))]
      BY <2>1 DEF Finish
    <3>2. /\ \A j \in Boxes : /\ container'[j].state = container[j].state
                               /\ container'[j].script = container[j].script
          /\ \A j \in Boxes \ {i} : container'[j] = container[j]
          /\ container'[i].package = (container[i].package \/ installed)
      BY <1>1, <3>1 DEF SandboxInv, SandboxTypeOK
    <3>3. /\ \A v \in Users : session'[v].id = session[v].id
          /\ \A v \in Users \ {u} : session'[v] = session[v]
          /\ session'[u].package = (session[u].package \/ (Session(c).id # 0 /\ Track(c, installed)))
      BY <1>1, <3>1 DEF SandboxInv, SandboxTypeOK
    <3> QED
      <4>1. ASSUME NEW j \in Boxes, container[j].package PROVE container'[j].package
        BY <1>1, <3>2, <4>1
      <4>2. ASSUME session'[u].package, ~session[u].package PROVE container'[i].package
        BY <3>2, <3>3, <4>2, Zenon DEF Track
      <4> QED
        BY <3>2, <3>3, <4>1, <4>2, Zenon
  <2>2. CASE c \notin Installs
    <3>1. UNCHANGED container /\ session' = [session EXCEPT ![u].idle = FALSE]
      BY <2>2 DEF Finish
    <3>2. /\ \A v \in Users : session'[v].id = session[v].id /\ session'[v].package = session[v].package
          /\ \A v \in Users \ {u} : session'[v] = session[v]
      BY <1>1, <3>1 DEF SandboxInv, SandboxTypeOK
    <3> QED
      <4>1. Same
        BY <3>1, <3>2
      <4>2. Packages
        BY <1>1, <3>1, <3>2
      <4> QED
        BY <4>1, <4>2
  <2> QED
    BY <2>1, <2>2
<1> HIDE DEF Packages
<1>5. OneMakes' /\ BoxesExist'
  BY <1>1, <1>3, <1>4, SandboxShapes DEF SandboxInv, OneMakes, BoxesExist, InUse, SandboxAssumptions
<1>6. OwnOrTaken'
  BY <1>1, <1>3, <1>4, SandboxShapes DEF SandboxInv, OwnOrTaken, BoxesExist, InUse
<1>7. ScriptsApart'
  BY <1>1, <1>3, <1>4, SandboxShapes DEF SandboxInv, ScriptsApart, BoxesExist, InUse, Executing
<1>8. SandboxesSafe'
  <2>1. ASSUME NEW v \in Users, session'[v].package
        PROVE  session'[v].id # 0 /\ container'[session'[v].id].package
    <3>1. CASE v # u
      <4>1. session[v].package
        BY <1>4, <2>1, <3>1 DEF Packages
      <4>2. session[v].id \in Boxes /\ container[session[v].id].package
        BY <4>1, SandboxShapes DEF SandboxInv, SandboxesSafe, TrackedIsInstalled
      <4> QED
        BY <1>4, <4>2, SandboxShapes DEF SandboxInv, Packages
    <3>2. CASE v = u
      <4>1. session[u].package \/ container'[i].package
        BY <1>4, <2>1, <3>2 DEF Packages
      <4>2. session[u].package => container[i].package
        BY <1>1, <1>2 DEF SandboxInv, SandboxesSafe, TrackedIsInstalled
      <4> QED
        BY <1>1, <1>2, <1>4, <3>2, <4>1, <4>2, SandboxShapes DEF SandboxInv, Packages
    <3> QED
      BY <3>1, <3>2
  <2> QED
    BY <1>1, <1>3, <2>1
       DEF SandboxInv, SandboxesSafe, RunsItsOwnScript, FailuresAreExternal, TrackedIsInstalled
<1> QED
  BY <1>5, <1>6, <1>7, <1>8 DEF SandboxRest

LEMMA AgainKeeps ==
    ASSUME SandboxAssumptions, SandboxInv, NEW c \in Calls, Again(c) PROVE SandboxRest'
<1>1. /\ call[c].at = "done" /\ call'[c].at = "new" /\ call'[c].id = 0
      /\ \A d \in Calls \ {c} : call'[d] = call[d]
  BY SandboxShapes DEF Again, NoCall, SandboxInv
<1>2. UNCHANGED <<container, session, creating, taken>> /\ crossed' = crossed \ {c}
  BY DEF Again
<1> QED
  BY <1>1, <1>2, SandboxShapes
     DEF SandboxInv, SandboxRest, OneMakes, BoxesExist, OwnOrTaken, ScriptsApart, SandboxesSafe,
         InUse, Executing, RunsItsOwnScript, FailuresAreExternal, TrackedIsInstalled,
         SandboxAssumptions

(* A session is marked idle, or containers stop or are removed as idle. *)
LEMMA OutsideKeeps ==
    ASSUME SandboxAssumptions, SandboxInv, Idles \/ CleanupIdle \/ Stops PROVE SandboxRest'
<1>1. CASE Idles
  <2>1. \A u \in Users : session'[u].id = session[u].id /\ session'[u].package = session[u].package
    BY <1>1 DEF Idles, SandboxInv, SandboxTypeOK
  <2>2. UNCHANGED <<container, creating, call, taken, crossed>>
    BY <1>1 DEF Idles
  <2> QED
    BY <2>1, <2>2, SandboxShapes
       DEF SandboxInv, SandboxRest, OneMakes, BoxesExist, OwnOrTaken, ScriptsApart, SandboxesSafe,
           InUse, Executing, RunsItsOwnScript, FailuresAreExternal, TrackedIsInstalled,
           SandboxAssumptions
<1>2. CASE CleanupIdle
  <2> DEFINE idle == {u \in Users : session[u].idle}
             ids  == {session[u].id : u \in idle}
  <2>1. /\ creating = Nobody /\ RemoveBoxes(ids) /\ taken' = taken \cup ids
        /\ UNCHANGED <<creating, call, crossed>>
        /\ session' = [u \in Users |-> IF u \in idle THEN NoSession ELSE session[u]]
    BY <1>2 DEF CleanupIdle, Unlocked
  <2>2. \A i \in Boxes : /\ container'[i].script = container[i].script
                         /\ container'[i].package = container[i].package
                         /\ container'[i].state = IF i \in ids THEN "removed" ELSE container[i].state
    BY <2>1, Removes DEF SandboxInv
  <2>3. \A u \in Users : \/ session'[u] = session[u]
                         \/ session'[u].id = 0 /\ session'[u].package = FALSE /\ session[u].id \in ids
    BY <2>1 DEF NoSession
  <2> HIDE DEF ids
  <2>4. OneMakes' /\ BoxesExist'
    BY <2>1, <2>2, <2>3, SandboxShapes DEF SandboxInv, OneMakes, BoxesExist, InUse, SandboxAssumptions
  <2>5. OwnOrTaken'
    BY <2>1, <2>2, <2>3, SandboxShapes DEF SandboxInv, OwnOrTaken, BoxesExist, InUse
  <2>6. ScriptsApart'
    BY <2>1, <2>2, SandboxShapes DEF SandboxInv, ScriptsApart, BoxesExist, InUse, Executing
  <2>7. SandboxesSafe'
    BY <2>1, <2>2, <2>3, SandboxShapes
       DEF SandboxInv, SandboxesSafe, RunsItsOwnScript, FailuresAreExternal, TrackedIsInstalled
  <2> QED
    BY <2>4, <2>5, <2>6, <2>7 DEF SandboxRest
<1>3. CASE Stops
  <2>1. PICK i \in Boxes : /\ container[i].state = "up" /\ taken' = taken \cup {i}
                           /\ container' = [container EXCEPT ![i].state = "stopped"]
    BY <1>3 DEF Stops, Up
  <2>2. /\ container'[i].state = "stopped"
        /\ \A j \in Boxes \ {i} : container'[j] = container[j]
        /\ \A j \in Boxes : /\ container'[j].script = container[j].script
                             /\ container'[j].package = container[j].package
    BY <2>1 DEF SandboxInv, SandboxTypeOK
  <2>3. UNCHANGED <<session, creating, call, crossed>>
    BY <1>3 DEF Stops
  <2>4. OneMakes' /\ BoxesExist'
    BY <2>1, <2>2, <2>3, SandboxShapes DEF SandboxInv, OneMakes, BoxesExist, InUse
  <2>5. OwnOrTaken'
    BY <2>1, <2>2, <2>3, SandboxShapes DEF SandboxInv, OwnOrTaken, BoxesExist, InUse
  <2>6. ScriptsApart'
    BY <2>1, <2>2, <2>3, SandboxShapes DEF SandboxInv, ScriptsApart, BoxesExist, InUse, Executing
  <2>7. SandboxesSafe'
    BY <2>1, <2>2, <2>3, SandboxShapes
       DEF SandboxInv, SandboxesSafe, RunsItsOwnScript, FailuresAreExternal, TrackedIsInstalled
  <2> QED
    BY <2>4, <2>5, <2>6, <2>7 DEF SandboxRest
<1> QED
  BY <1>1, <1>2, <1>3

(* A call that met no other runs its own script, what fails lost its container  *)
(* to something else, and what is tracked as installed is there: for any calls, *)
(* users, names of containers and bounds, when nobody is not a caller.          *)
THEOREM SandboxesAreSafe ==
    ASSUME SandboxAssumptions PROVE SandboxSpec => []SandboxesSafe
<1>1. SandboxInit => SandboxInv
  BY SandboxInitially
<1>2. SandboxInv /\ [SandboxNext]_sandboxVars => SandboxInv'
  <2> SUFFICES ASSUME SandboxInv, [SandboxNext]_sandboxVars PROVE SandboxInv'
    OBVIOUS
  <2>1. SandboxTypeOK'
    BY SandboxTypes DEF SandboxInv
  <2>2. SandboxNext => SandboxRest'
    BY AskKeeps, FindKeeps, DiscardKeeps, CreateKeeps, PrepareKeeps, FailureKeeps, WriteKeeps, RunKeeps,
       FinishKeeps, AgainKeeps, OutsideKeeps DEF SandboxNext
  <2>3. CASE UNCHANGED sandboxVars
    BY <2>1, <2>3
       DEF sandboxVars, SandboxTypeOK, SandboxInv, SandboxRest, OneMakes, BoxesExist, OwnOrTaken,
           ScriptsApart, SandboxesSafe, InUse, Executing, RunsItsOwnScript, FailuresAreExternal,
           TrackedIsInstalled, SandboxAssumptions
  <2> QED
    BY <2>1, <2>2, <2>3 DEF SandboxInv, SandboxRest
<1>3. SandboxInv => SandboxesSafe
  BY DEF SandboxInv
<1> QED
  BY <1>1, <1>2, <1>3, PTL DEF SandboxSpec

=============================================================================
