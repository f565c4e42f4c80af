------------------------- MODULE HmiPanels_proofs -------------------------
(***************************************************************************)
(* What HMI panels get from the controller, for any set of callers,        *)
(* layouts, connections and signals and any number of restarts.  The       *)
(* layout they read (HmiDeploy) agrees with the disk, and deploys that did *)
(* not overlap are seen in their order; the values pushed to them          *)
(* (IpcSession) are of signals they have subscribed to.                    *)
(***************************************************************************)
EXTENDS HmiDeploy, IpcSession, TLAPS

(* What the boundary is about to publish is on disk. *)
WrittenInv == engine = "publishing" => file = taken.layout

(* A layout a call still carries has not been acknowledged, and is carried *)
(* by that call only.                                                      *)
CarriedInv ==
  \A c \in Clients : client[c] # NoLayout =>
    /\ client[c].layout \in deployed \ acked
    /\ \A d \in Clients : client[d].layout = client[c].layout => d = c

(* What has left its call was acknowledged when it did. *)
StoredInv == \A s \in {pending, taken, active} : s # NoLayout => s.layout \in acked

(* Slot, boundary and panels hold layouts in an order their deploys allow: *)
(* what comes later was not acknowledged before what comes first was begun. *)
NotBefore(late, early) == <<late.layout, early.layout>> \notin before
OrderInv ==
  /\ NotBefore(pending, taken) /\ NotBefore(pending, active) /\ NotBefore(taken, active)

IInv == TypeOK /\ PanelAgreesWithDisk /\ WrittenInv /\ CarriedInv /\ StoredInv /\ OrderInv

(* Facts about the empty layout. *)
LEMMA Empty ==
  /\ NoLayout \in Slot /\ NoLayout \notin Stamped
  /\ NoLayout.layout = None /\ None \notin Layouts
  /\ \A s \in Slot : s # NoLayout => s \in Stamped /\ s.layout \in Layouts
  /\ \A s \in Slot : s.layout \in Layouts \union {None}
  BY LayoutsAssumption DEF NoLayout, Slot, Stamped

(* A controller that has just been installed. *)
LEMMA InitInv == Init => IInv
<1> SUFFICES ASSUME Init PROVE IInv
  OBVIOUS
<1> USE DEF Init
<1>1. TypeOK
  BY Empty, LayoutsAssumption DEF TypeOK, SlotHeld
<1>2. PanelAgreesWithDisk /\ WrittenInv
  BY Empty DEF PanelAgreesWithDisk, WrittenInv
<1>3. CarriedInv /\ StoredInv /\ OrderInv
  BY DEF CarriedInv, StoredInv, OrderInv, NotBefore
<1>4. QED
  BY <1>1, <1>2, <1>3 DEF IInv


(* No step takes a variable out of its type. *)
LEMMA TypeStep == IInv /\ [Next]_vars => TypeOK'
<1> SUFFICES ASSUME IInv, [Next]_vars PROVE TypeOK'
  OBVIOUS
<1> USE Empty DEF IInv, TypeOK, SlotHeld
<1>1. ASSUME NEW c \in Clients, NEW l \in Layouts, DrawGeneration(c, l) PROVE TypeOK'
  <2>1. [layout |-> l, gen |-> counter + 1] \in Slot
    BY DEF Slot, Stamped
  <2>2. QED
    BY <1>1, <2>1 DEF DrawGeneration
<1>2. ASSUME NEW c \in Clients, StorePending(c) PROVE TypeOK'
  BY <1>2 DEF StorePending, CarriedInv
<1>3. CASE TakeLayout
  BY <1>3 DEF TakeLayout
<1>4. CASE WriteSucceeds
  BY <1>4 DEF WriteSucceeds
<1>5. CASE WriteFails
  BY <1>5 DEF WriteFails
<1>6. CASE Publish
  BY <1>6 DEF Publish
<1>7. CASE RunCycle
  BY <1>7 DEF RunCycle
<1>8. CASE Restart
  BY <1>8, LayoutsAssumption DEF Restart
<1>9. CASE UNCHANGED vars
  BY <1>9 DEF vars
<1>10. QED
  BY <1>1, <1>2, <1>3, <1>4, <1>5, <1>6, <1>7, <1>8, <1>9 DEF Next, Engine

(* Drawing a generation: what is compared with the new layout is either    *)
(* new itself or already acknowledged, so no pair of OrderInv is added.    *)
LEMMA DrawStep ==
  ASSUME IInv, NEW c \in Clients, NEW l \in Layouts, DrawGeneration(c, l)
  PROVE  CarriedInv' /\ StoredInv' /\ OrderInv'
<1> USE Empty DEF IInv, TypeOK, DrawGeneration
<1>1. client'[c].layout = l /\ l \notin deployed /\ l \notin acked
  OBVIOUS
<1>2. ASSUME NEW d \in Clients, d # c PROVE client'[d] = client[d] /\ client[d].layout # l
  <2>1. client[d] # NoLayout => client[d].layout \in deployed
    BY DEF CarriedInv
  <2>2. QED
    BY <1>1, <1>2, <2>1
<1>3. CarriedInv'
  BY <1>1, <1>2 DEF CarriedInv
<1>4. StoredInv'
  BY DEF StoredInv
<1>5. ASSUME NEW s \in {pending, taken, active} PROVE s.layout # l
  BY <1>1, <1>5 DEF StoredInv
<1>6. OrderInv'
  BY <1>5 DEF OrderInv, NotBefore
<1>7. QED
  BY <1>3, <1>4, <1>6

(* Storing: the layout was not acknowledged until now, so its deploy did   *)
(* not end before any other began.                                         *)
LEMMA StoreStep ==
  ASSUME IInv, NEW c \in Clients, StorePending(c)
  PROVE  CarriedInv' /\ StoredInv' /\ OrderInv'
<1> USE Empty DEF IInv, TypeOK, StorePending
<1>1. client[c].layout \in Layouts \ acked
  BY DEF CarriedInv
<1>2. CarriedInv'
  BY DEF CarriedInv
<1>3. StoredInv'
  BY DEF StoredInv
<1>4. OrderInv'
  BY <1>1 DEF OrderInv, NotBefore
<1>5. QED
  BY <1>2, <1>3, <1>4

(* The boundary and a restart only move layouts on, or drop them.          *)
LEMMA EngineStep ==
  ASSUME IInv, Engine \/ Restart
  PROVE  CarriedInv' /\ StoredInv' /\ OrderInv'
<1> USE Empty DEF IInv, TypeOK
<1>1. NoLayout.layout \notin acked
  OBVIOUS
<1>2. \A s \in Slot : NotBefore(s, NoLayout) /\ NotBefore(NoLayout, s)
  BY DEF NotBefore
<1>3. CASE Engine
  <2>1. UNCHANGED <<client, deployed, acked, before>>
    BY <1>3 DEF Engine, TakeLayout, WriteSucceeds, WriteFails, Publish, RunCycle
  <2>2. /\ pending' \in {pending, NoLayout} /\ taken' \in {taken, NoLayout, pending}
        /\ active' \in {active, taken}
    BY <1>3 DEF Engine, TakeLayout, WriteSucceeds, WriteFails, Publish, RunCycle
  <2>3. CarriedInv' /\ StoredInv'
    BY <2>1, <2>2 DEF CarriedInv, StoredInv
  <2>4. OrderInv'
    <3>1. CASE TakeLayout
      BY <1>2, <3>1 DEF TakeLayout, OrderInv, NotBefore
    <3>2. CASE Publish
      BY <1>2, <3>2 DEF Publish, OrderInv, NotBefore
    <3>3. CASE WriteSucceeds \/ WriteFails \/ RunCycle
      BY <1>2, <3>3 DEF WriteSucceeds, WriteFails, RunCycle, OrderInv, NotBefore
    <3>4. QED
      BY <1>3, <3>1, <3>2, <3>3 DEF Engine
  <2>5. QED
    BY <2>3, <2>4
<1>4. CASE Restart
  BY <1>2, <1>4 DEF Restart, CarriedInv, StoredInv, OrderInv, NotBefore
<1>5. QED
  BY <1>3, <1>4

(* The file: written before it is published, and by the boundary alone.    *)
LEMMA DiskStep == IInv /\ [Next]_vars => PanelAgreesWithDisk' /\ WrittenInv'
<1> SUFFICES ASSUME IInv, [Next]_vars PROVE PanelAgreesWithDisk' /\ WrittenInv'
  OBVIOUS
<1> USE Empty DEF IInv, TypeOK, SlotHeld, PanelAgreesWithDisk, WrittenInv
<1>1. ASSUME NEW c \in Clients, StorePending(c) \/ \E l \in Layouts : DrawGeneration(c, l)
      PROVE  PanelAgreesWithDisk' /\ WrittenInv'
  BY <1>1 DEF DrawGeneration, StorePending
<1>2. CASE TakeLayout
  BY <1>2 DEF TakeLayout
<1>3. CASE WriteSucceeds
  BY <1>3 DEF WriteSucceeds
<1>4. CASE WriteFails
  BY <1>4 DEF WriteFails
<1>5. CASE Publish
  BY <1>5 DEF Publish
<1>6. CASE RunCycle
  BY <1>6 DEF RunCycle
<1>7. CASE Restart
  BY <1>7 DEF Restart
<1>8. CASE UNCHANGED vars
  BY <1>8 DEF vars
<1>9. QED
  BY <1>1, <1>2, <1>3, <1>4, <1>5, <1>6, <1>7, <1>8 DEF Next, Engine

(* The inductive invariant of the deployment holds in every state.         *)
LEMMA Invariance == Spec => []IInv
<1>1. IInv /\ [Next]_vars => IInv'
  <2> SUFFICES ASSUME IInv, [Next]_vars PROVE CarriedInv' /\ StoredInv' /\ OrderInv'
    BY TypeStep, DiskStep DEF IInv
  <2>1. CASE UNCHANGED vars
    BY <2>1 DEF vars, IInv, CarriedInv, StoredInv, OrderInv, NotBefore
  <2>2. QED
    BY <2>1, DrawStep, StoreStep, EngineStep DEF Next
<1>2. QED
  BY <1>1, InitInv, PTL DEF Spec

(* What panels read is what is on disk unless a write was torn, whoever    *)
(* deploys meanwhile and however often writes fail or the process dies.    *)
THEOREM DiskAgrees == Spec => []PanelAgreesWithDisk
  BY Invariance, PTL DEF IInv

(* Panels never go back to a layout whose deploy had returned before that  *)
(* of the layout they show was called.                                     *)
THEOREM DeploysInOrder == Spec => DeployOrder
<1>1. ASSUME IInv, [Next]_vars, active' # active
      PROVE  <<active'.layout, active.layout>> \notin before
  <2> USE Empty DEF IInv, TypeOK
  <2>1. CASE Publish
    BY <1>1, <2>1 DEF Publish, OrderInv, NotBefore
  <2>2. CASE Restart
    BY <1>1, <2>2 DEF Restart
  <2>3. CASE ~(Publish \/ Restart)
    BY <1>1, <2>3 DEF Next, Engine, TakeLayout, WriteSucceeds, WriteFails, RunCycle,
       StorePending, DrawGeneration, vars
  <2>4. QED
    BY <1>1, <2>1, <2>2, <2>3
<1>2. IInv /\ [Next]_vars => [active' # active => <<active'.layout, active.layout>> \notin before]_vars
  BY <1>1
<1>3. QED
  BY <1>2, Invariance, PTL DEF Spec, DeployOrder

-----------------------------------------------------------------------------
(* The subscription table of the IPC server.                               *)
ConnectionTypes ==
  /\ peer \in [Conns -> {"idle", "authenticate", "call", "closed"}]
  /\ handler \in [Conns -> {"read", "cleanup", "ended"}]
  /\ sid \in [Conns -> Nat] /\ nextSid \in [Conns -> Nat]

(* A stream is in the table from the message that subscribes to the        *)
(* clean-up behind it, under the session of that message; meanwhile its    *)
(* client is a subscriber or has closed.                                   *)
TableInv == \A e \in subs :
  /\ e.conn \in Conns /\ handler[e.conn] = "cleanup" /\ e.sid = sid[e.conn]
  /\ peer[e.conn] = "closed" \/ <<e.conn, e.signal>> \in subscribed

(* A thread that reads the next message has no stream in the table.        *)
LEMMA ReadersHaveNone ==
  ASSUME TableInv, NEW c \in Conns, handler[c] # "cleanup", NEW e \in subs
  PROVE  e.conn # c
  BY DEF TableInv

(* A server starts with an empty table.                                    *)
LEMMA EmptyTable == IpcInit => ConnectionTypes /\ TableInv
  BY DEF IpcInit, ConnectionTypes, TableInv

(* What the client does leaves the table alone, and a client that closes   *)
(* is one whose streams are owed to nobody (the methods of RuntimeClient). *)
LEMMA PeerStep ==
  ASSUME ConnectionTypes, TableInv, NEW c \in Conns,
         Ask(c) \/ Receive(c) \/ Close(c)
  PROVE  (ConnectionTypes /\ TableInv)'
<1>1. ASSUME NEW r, Send(c, r) PROVE (ConnectionTypes /\ TableInv)'
  BY <1>1 DEF Send, serverVars, ConnectionTypes, TableInv
<1>2. CASE Receive(c)
  BY <1>2 DEF Receive, Waiting, serverVars, ConnectionTypes, TableInv
<1>3. CASE Close(c)
  <2>1. UNCHANGED <<handler, sid, nextSid, subs>> /\ ConnectionTypes'
    BY <1>3 DEF Close, serverVars, ConnectionTypes
  <2>2. ASSUME NEW e \in subs
        PROVE  peer'[e.conn] = "closed" \/ <<e.conn, e.signal>> \in subscribed'
    <3>1. CASE e.conn = c
      BY <1>3, <3>1 DEF Close, ConnectionTypes
    <3>2. CASE e.conn # c
      <4>1. peer'[e.conn] = peer[e.conn] /\ <<e.conn, e.signal>>[1] # c
        BY <1>3, <3>2 DEF Close, ConnectionTypes, TableInv
      <4>2. <<e.conn, e.signal>> \in subscribed => <<e.conn, e.signal>> \in subscribed'
        BY <1>3, <4>1 DEF Close
      <4>3. QED
        BY <4>1, <4>2 DEF TableInv
    <3>3. QED
      BY <3>1, <3>2
  <2>3. QED
    BY <2>1, <2>2 DEF TableInv
<1>4. QED
  BY <1>1, <1>2, <1>3 DEF Ask

(* handle_connection: a message is taken with no stream of the connection  *)
(* in the table, one that subscribes adds the stream, and the clean-up     *)
(* takes every stream of the session out again.                            *)
LEMMA HandlerStep ==
  ASSUME ConnectionTypes, TableInv, NEW c \in Conns, Handler(c)
  PROVE  (ConnectionTypes /\ TableInv)'
<1> USE DEF HandlerGoes, Takes, clientVars, serverVars, ConnectionTypes
<1>1. ASSUME AuthGranted(c) \/ Refuse(c) \/ ExpiredBetweenChecks(c) \/ Query(c)
             \/ SubscribeFails(c) \/ End(c)
      PROVE  (ConnectionTypes /\ TableInv)'
  <2>1. handler[c] = "read" /\ UNCHANGED <<peer, subs, subscribed>>
    BY <1>1 DEF AuthGranted, Refuse, ExpiredBetweenChecks, Query, SubscribeFails, End
  <2>2. ConnectionTypes' /\ \A d \in Conns : d # c => handler'[d] = handler[d] /\ sid'[d] = sid[d]
    BY <1>1 DEF AuthGranted, Refuse, ExpiredBetweenChecks, Query, SubscribeFails, End
  <2>3. \A e \in subs : e.conn # c
    BY <2>1, ReadersHaveNone
  <2>4. QED
    BY <2>1, <2>2, <2>3 DEF TableInv
<1>2. CASE Subscribe(c)
  <2> DEFINE new == [signal |-> request[c].signal, sid |-> sid[c], conn |-> c]
  <2>1. /\ handler[c] = "read" /\ UNCHANGED <<peer, sid, nextSid>> /\ handler'[c] = "cleanup"
        /\ \A d \in Conns : d # c => handler'[d] = handler[d]
        /\ handler' \in [Conns -> {"read", "cleanup", "ended"}]
        /\ subs' = subs \union {new} /\ subscribed \subseteq subscribed'
        /\ peer[c] = "closed" \/ <<c, request[c].signal>> \in subscribed'
    BY <1>2 DEF Subscribe
  <2>2. \A e \in subs : e.conn # c
    BY <2>1, ReadersHaveNone
  <2>3. new.conn = c /\ new.sid = sid[c] /\ new.signal = request[c].signal
    OBVIOUS
  <2> HIDE DEF new
  <2>4. TableInv'
    <3>1. ASSUME NEW e \in subs
          PROVE  /\ e.conn \in Conns /\ handler'[e.conn] = "cleanup" /\ e.sid = sid'[e.conn]
                 /\ peer'[e.conn] = "closed" \/ <<e.conn, e.signal>> \in subscribed'
      <4>1. e.conn # c
        BY <2>2
      <4>2. e.conn \in Conns /\ handler'[e.conn] = handler[e.conn]
        BY <2>1, <4>1 DEF TableInv
      <4>3. QED
        BY <2>1, <4>2 DEF TableInv
    <3>2. /\ new.conn \in Conns /\ handler'[new.conn] = "cleanup" /\ new.sid = sid'[new.conn]
          /\ peer'[new.conn] = "closed" \/ <<new.conn, new.signal>> \in subscribed'
      BY <2>1, <2>3
    <3>3. QED
      BY <2>1, <3>1, <3>2 DEF TableInv
  <2>5. QED
    BY <2>1, <2>4
<1>3. CASE Unsubscribe(c)
  <2>1. /\ handler[c] = "read" /\ UNCHANGED <<peer, sid, nextSid>> /\ subs' \subseteq subs
        /\ \A d \in Conns : d # c => handler'[d] = handler[d]
        /\ handler' \in [Conns -> {"read", "cleanup", "ended"}]
        /\ subscribed' = subscribed \ {<<c, request[c].signal>>}
    BY <1>3 DEF Unsubscribe
  <2>2. \A e \in subs : e.conn # c
    BY <2>1, ReadersHaveNone
  <2>3. \A e \in subs : <<e.conn, e.signal>> \in subscribed => <<e.conn, e.signal>> \in subscribed'
    BY <2>1, <2>2
  <2>4. QED
    BY <2>1, <2>2, <2>3 DEF TableInv
<1>4. CASE Cleanup(c)
  <2>1. /\ UNCHANGED <<peer, sid, nextSid, subscribed>> /\ subs' = {e \in subs : e.sid # sid[c]}
        /\ \A d \in Conns : d # c => handler'[d] = handler[d]
        /\ handler' \in [Conns -> {"read", "cleanup", "ended"}]
    BY <1>4 DEF Cleanup
  <2>2. \A e \in subs' : e \in subs /\ e.conn # c
    BY <2>1 DEF TableInv
  <2>3. QED
    BY <2>1, <2>2 DEF TableInv
<1>5. QED
  BY <1>1, <1>2, <1>3, <1>4 DEF Handler

(* The table keeps its invariant under every step of clients, connection   *)
(* threads, clock and cycle thread.                                        *)
LEMMA TableInvariance == IpcSpec => [](ConnectionTypes /\ TableInv)
<1>1. ASSUME ConnectionTypes, TableInv, [IpcNext]_ipcVars PROVE (ConnectionTypes /\ TableInv)'
  <2>1. ASSUME NEW c \in Conns, Ask(c) \/ Receive(c) \/ Close(c)
        PROVE  (ConnectionTypes /\ TableInv)'
    BY <1>1, <2>1, PeerStep
  <2>2. ASSUME NEW c \in Conns, Handler(c) PROVE (ConnectionTypes /\ TableInv)'
    BY <1>1, <2>2, HandlerStep
  <2>3. ASSUME NEW c \in Conns, Expire(c) PROVE (ConnectionTypes /\ TableInv)'
    BY <1>1, <2>3 DEF Expire, clientVars, ConnectionTypes, TableInv
  <2>4. CASE Push
    BY <1>1, <2>4 DEF Push, clientVars, serverVars, ConnectionTypes, TableInv
  <2>5. CASE UNCHANGED ipcVars
    BY <1>1, <2>5 DEF ipcVars, clientVars, serverVars, ConnectionTypes, TableInv
  <2>6. QED
    BY <1>1, <2>1, <2>2, <2>3, <2>4, <2>5 DEF IpcNext
<1>2. QED
  BY <1>1, EmptyTable, PTL DEF IpcSpec

(* A value is pushed to nobody who has not subscribed to its signal, or    *)
(* has unsubscribed since, for any number of connections, sessions and     *)
(* signals (handle_subscribe, handle_unsubscribe and step 4.5 of the       *)
(* cycle).                                                                 *)
THEOREM OnlySubscribersPushed == IpcSpec => []PushedToSubscribersOnly
<1>1. TableInv => PushedToSubscribersOnly
  BY DEF TableInv, PushedToSubscribersOnly
<1>2. QED
  BY <1>1, TableInvariance, PTL

=============================================================================
