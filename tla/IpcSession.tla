----------------------------- MODULE IpcSession -----------------------------
(***************************************************************************)
(* Sessions and signal subscriptions of the IPC server: one thread per     *)
(* connection running handle_connection, the table of subscriptions they   *)
(* share with the cycle thread, which pushes the subscribed values at the  *)
(* end of a cycle, and at the other end of each connection a RuntimeClient *)
(* (one request at a time, the next frame read is taken for the answer).   *)
(*                                                                         *)
(* A frame carries the number of the request it answers, which the wire    *)
(* format does not have; 0 is a push.  Sockets keep order and lose nothing *)
(* while both ends live.  A token is the number of the session it was      *)
(* issued for; signatures hold.                                            *)
(*                                                                         *)
(* Names that HmiDeploy has too carry Ipc in front: panels meet both.      *)
(***************************************************************************)
EXTENDS Integers, Sequences

CONSTANTS
  Conns,        \* connections
  Signals,      \* signals that may be subscribed
  MaxRequests,  \* bound on the requests of a connection
  MaxQueued     \* bound on the frames a push may find unread

ASSUME BoundsAssumption == MaxRequests \in Nat /\ MaxQueued \in Nat

VARIABLES
  peer,         \* the client of c: "idle", inside "authenticate" or another "call", "closed"
  token,        \* token[c]: the session token the client holds, 0 for none
  sent,         \* sent[c]: number of requests the client has sent
  request,      \* request[c]: the request on its way to the server
  replies,      \* replies[c]: frames on their way to the client
  handler,      \* handler[c]: where the connection's thread is
  session,      \* session[c]: handle_connection's local session
  sid,          \* sid[c]: its session_id
  nextSid,      \* nextSid[c]: the connection's next_session_id
  subs,         \* the shared table: signal, session id, stream
  subscribed    \* history: acknowledged and neither unsubscribed nor closed

clientVars == <<peer, token, sent>>
serverVars == <<session, sid, nextSid>>
ipcVars == <<clientVars, request, replies, handler, serverVars, subs, subscribed>>

NoRequest == [op |-> "none"]
Plain == {"auth", "query"}
Requests ==
  [op : Plain, token : Nat] \union
  [op : {"subscribe", "unsubscribe"}, signal : Signals, token : Nat]
Frames == [n : 0 .. MaxRequests, token : Nat]

IpcInit ==
  /\ peer = [c \in Conns |-> "idle"]
  /\ token = [c \in Conns |-> 0]
  /\ sent = [c \in Conns |-> 0]
  /\ request = [c \in Conns |-> NoRequest]
  /\ replies = [c \in Conns |-> <<>>]
  /\ handler = [c \in Conns |-> "read"]
  /\ session = [c \in Conns |-> "none"]
  /\ sid = [c \in Conns |-> 0]
  /\ nextSid = [c \in Conns |-> 1]
  /\ subs = {} /\ subscribed = {}

-----------------------------------------------------------------------------
(* RuntimeClient. *)

Send(c, r) ==
  /\ peer[c] = "idle" /\ sent[c] < MaxRequests
  /\ peer' = [peer EXCEPT ![c] = IF r.op = "auth" THEN "authenticate" ELSE "call"]
  /\ sent' = [sent EXCEPT ![c] = @ + 1]
  /\ request' = [request EXCEPT ![c] = r]
  /\ UNCHANGED <<token, replies, handler, serverVars, subs, subscribed>>

(* A request method; the zeroed token of authenticate is token 0. *)
Ask(c) ==
  \/ Send(c, [op |-> "auth", token |-> 0])
  \/ Send(c, [op |-> "query", token |-> token[c]])
  \/ \E s \in Signals, op \in {"subscribe", "unsubscribe"} :
       Send(c, [op |-> op, signal |-> s, token |-> token[c]])

Waiting(c) == peer[c] \in {"authenticate", "call"}

(* read_response: the next frame is the answer; authenticate keeps the     *)
(* token in it, if there is one.                                           *)
Receive(c) ==
  /\ Waiting(c) /\ replies[c] # <<>>
  /\ peer' = [peer EXCEPT ![c] = "idle"]
  /\ replies' = [replies EXCEPT ![c] = Tail(@)]
  /\ token' = [token EXCEPT ![c] =
       IF peer[c] = "authenticate" /\ Head(replies[c]).token # 0
       THEN Head(replies[c]).token ELSE @]
  /\ UNCHANGED <<sent, request, handler, serverVars, subs, subscribed>>

Close(c) ==
  /\ peer[c] # "closed"
  /\ peer' = [peer EXCEPT ![c] = "closed"]
  /\ replies' = [replies EXCEPT ![c] = <<>>]
  /\ subscribed' = {p \in subscribed : p[1] # c}
  /\ UNCHANGED <<token, sent, request, handler, serverVars, subs>>

-----------------------------------------------------------------------------
(* handle_connection. *)

(* Write n frames that answer the current request; nobody reads them once  *)
(* the client has closed.                                                  *)
Answer(c, n, t) ==
  replies' = [replies EXCEPT ![c] =
    IF peer[c] = "closed" THEN @
    ELSE @ \o [i \in 1 .. n |-> [n |-> sent[c], token |-> t]]]

Takes(c, ops) ==
  /\ handler[c] = "read" /\ request[c].op \in ops
  /\ request' = [request EXCEPT ![c] = NoRequest]
  /\ UNCHANGED clientVars

HandlerGoes(c, to) == handler' = [handler EXCEPT ![c] = to]

(* The token is checked on every message of a connection with a session,   *)
(* and without a session nothing but authentication is authorized.         *)
Accepted(c) == session[c] = "live" /\ request[c].token = sid[c]

(* handle_auth accepts: it writes the token, and so does its caller. *)
AuthGranted(c) ==
  /\ Takes(c, {"auth"})
  /\ session[c] = "none"
  /\ session' = [session EXCEPT ![c] = "live"]
  /\ sid' = [sid EXCEPT ![c] = nextSid[c]]
  /\ nextSid' = [nextSid EXCEPT ![c] = @ + 1]
  /\ Answer(c, 2, nextSid[c])
  /\ HandlerGoes(c, "cleanup")
  /\ UNCHANGED <<subs, subscribed>>

(* Faulty variant: a message of a connection without a session is dropped. *)
RefuseSilently(c) ==
  /\ Takes(c, {"auth", "query", "subscribe", "unsubscribe"})
  /\ request[c].op = "auth" \/ ~Accepted(c)
  /\ IF session[c] = "none" THEN UNCHANGED replies ELSE Answer(c, 1, 0)
  /\ HandlerGoes(c, "read")
  /\ UNCHANGED <<serverVars, subs, subscribed>>

(* Authentication refused or repeated, or a message not authorized. *)
Refuse(c) ==
  /\ Takes(c, {"auth", "query", "subscribe", "unsubscribe"})
  /\ request[c].op = "auth" \/ ~Accepted(c)
  /\ Answer(c, 1, 0)
  /\ HandlerGoes(c, "read")
  /\ UNCHANGED <<serverVars, subs, subscribed>>

(* The token passed the first expiry check and the session fails the       *)
(* second: only then is the session dropped.                               *)
ExpiredBetweenChecks(c) ==
  /\ Takes(c, {"query", "subscribe", "unsubscribe"})
  /\ session[c] = "expired" /\ request[c].token = sid[c]
  /\ session' = [session EXCEPT ![c] = "none"]
  /\ Answer(c, 1, 0)
  /\ HandlerGoes(c, "read")
  /\ UNCHANGED <<sid, nextSid, subs, subscribed>>

(* Any other method: answered, or refused for its payload and not followed *)
(* by the clean-up.                                                        *)
Query(c) ==
  /\ Takes(c, {"query"})
  /\ Accepted(c)
  /\ Answer(c, 1, 0)
  /\ HandlerGoes(c, "read") \/ HandlerGoes(c, "cleanup")
  /\ UNCHANGED <<serverVars, subs, subscribed>>

Subscribe(c) ==
  /\ Takes(c, {"subscribe"})
  /\ Accepted(c)
  /\ LET s == request[c].signal
     IN /\ subs' = subs \union {[signal |-> s, sid |-> sid[c], conn |-> c]}
        /\ subscribed' = IF peer[c] = "closed" THEN subscribed
                         ELSE subscribed \union {<<c, s>>}
  /\ Answer(c, 1, 0)
  /\ HandlerGoes(c, "cleanup")
  /\ UNCHANGED serverVars

(* The stream cannot be cloned: an error, but the clean-up follows.        *)
SubscribeFails(c) ==
  /\ Takes(c, {"subscribe"})
  /\ Accepted(c)
  /\ Answer(c, 1, 0)
  /\ HandlerGoes(c, "cleanup")
  /\ UNCHANGED <<serverVars, subs, subscribed>>

Unsubscribe(c) ==
  /\ Takes(c, {"unsubscribe"})
  /\ Accepted(c)
  /\ LET s == request[c].signal
     IN /\ subs' = {e \in subs : ~(e.signal = s /\ e.sid = sid[c])}
        /\ subscribed' = subscribed \ {<<c, s>>}
  /\ Answer(c, 1, 0)
  /\ HandlerGoes(c, "cleanup")
  /\ UNCHANGED serverVars

(* Faulty variant: no clean-up. *)
CleanupNever(c) ==
  /\ handler[c] = "cleanup"
  /\ HandlerGoes(c, "read")
  /\ UNCHANGED <<clientVars, request, replies, serverVars, subs, subscribed>>

(* "Cleanup: remove all subscriptions for this session on disconnect", at  *)
(* the end of the loop's body.                                             *)
Cleanup(c) ==
  /\ handler[c] = "cleanup"
  /\ HandlerGoes(c, "read")
  /\ subs' = {e \in subs : e.sid # sid[c]}
  /\ UNCHANGED <<clientVars, request, replies, serverVars, subscribed>>

(* The read fails: the loop is left, and nothing follows it. *)
End(c) ==
  /\ handler[c] = "read" /\ request[c] = NoRequest /\ peer[c] = "closed"
  /\ HandlerGoes(c, "ended")
  /\ UNCHANGED <<clientVars, request, replies, serverVars, subs, subscribed>>

Handler(c) ==
  \/ AuthGranted(c) \/ Refuse(c) \/ ExpiredBetweenChecks(c)
  \/ Query(c) \/ Subscribe(c) \/ SubscribeFails(c) \/ Unsubscribe(c)
  \/ Cleanup(c) \/ End(c)

-----------------------------------------------------------------------------
(* Time, and step 4.5 of the cycle: a frame for every entry of the table,  *)
(* with the table locked.                                                  *)

Expire(c) ==
  /\ session[c] = "live"
  /\ session' = [session EXCEPT ![c] = "expired"]
  /\ UNCHANGED <<clientVars, request, replies, handler, sid, nextSid, subs, subscribed>>

Targets(c) == {e \in subs : e.conn = c}

Push ==
  /\ subs # {}
  /\ \A c \in Conns : Targets(c) # {} => Len(replies[c]) < MaxQueued
  /\ replies' = [c \in Conns |->
       IF Targets(c) = {} \/ peer[c] = "closed" THEN replies[c]
       ELSE Append(replies[c], [n |-> 0, token |-> 0])]
  /\ UNCHANGED <<clientVars, request, handler, serverVars, subs, subscribed>>

IpcNext ==
  \/ \E c \in Conns : Ask(c) \/ Receive(c) \/ Close(c) \/ Handler(c) \/ Expire(c)
  \/ Push

IpcSpec == IpcInit /\ [][IpcNext]_ipcVars

(* Connection threads are scheduled. *)
IpcFairSpec == IpcSpec /\ \A c \in Conns : WF_ipcVars(Handler(c))

-----------------------------------------------------------------------------
IpcTypeOK ==
  /\ peer \in [Conns -> {"idle", "authenticate", "call", "closed"}]
  /\ token \in [Conns -> Nat] /\ sid \in [Conns -> Nat] /\ nextSid \in [Conns -> Nat]
  /\ sent \in [Conns -> 0 .. MaxRequests]
  /\ \A c \in Conns : request[c] \in Requests \union {NoRequest}
  /\ \A c \in Conns : replies[c] \in Seq(Frames)
  /\ handler \in [Conns -> {"read", "cleanup", "ended"}]
  /\ session \in [Conns -> {"none", "live", "expired"}]
  /\ subs \subseteq [signal : Signals, sid : Nat, conn : Conns]
  /\ subscribed \subseteq Conns \X Signals
  /\ \A c \in Conns : session[c] # "none" => sid[c] \in 1 .. nextSid[c] - 1

(* HMI-SIG-005, pushed to subscribers only: a stream in the table belongs  *)
(* to a client that subscribed and has neither unsubscribed nor gone,      *)
(* except while the thread of that connection is still at that message.    *)
PushedToSubscribersOnly ==
  \A e \in subs :
    \/ <<e.conn, e.signal>> \in subscribed
    \/ peer[e.conn] = "closed" /\ handler[e.conn] # "ended"

(* Every request is answered, by success or by an error, in every state of *)
(* the session.                                                            *)
RequestsAnswered ==
  \A c \in Conns :
    Waiting(c) ~> (~Waiting(c) \/ replies[c] # <<>>)

(* RuntimeClient::send_request: "Build a wire request frame, send it, read *)
(* the response, and check status.": pushes aside, the frame a client      *)
(* takes for the answer to its request is an answer to it.                 *)
ResponseMatchesRequest ==
  [][\A c \in Conns :
       Waiting(c) /\ peer'[c] = "idle" => Head(replies[c]).n \in {0, sent[c]}]_ipcVars

(* A subscription acknowledged stays in the table until it is cancelled:   *)
(* the clean-up is for "on disconnect".                                    *)
SubscriptionLives ==
  \A c \in Conns, s \in Signals :
    <<c, s>> \in subscribed => \E e \in subs : e.conn = c /\ e.signal = s

=============================================================================
