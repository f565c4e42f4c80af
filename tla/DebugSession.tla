---------------------------- MODULE DebugSession ----------------------------
(***************************************************************************)
(* One debug session of the IDE, end to end: the requests Theia sends to   *)
(* WeftikDebugChannel, each an async function of its own (send does not    *)
(* wait for dispatch); RealDapBridge, which keeps a mirror of the          *)
(* breakpoints and a promise per request; the weftik-dap-adapter process   *)
(* behind two pipes, which serves one frame after the other; and its       *)
(* connection to the controller.                                           *)
(*                                                                         *)
(* JavaScript runs one event at a time to its last promise, so an action   *)
(* of the channel is one event: a message of the IDE, a frame of the       *)
(* adapter or its exit.  A frame is named by the request it serves, of     *)
(* which at most one frame is outstanding.                                 *)
(*                                                                         *)
(* The controller answers an authentication twice, so RuntimeClient reads  *)
(* in each call the answer of the call before: `late`.  An answer is the   *)
(* set of breakpoints its text parses to, empty for "ok" or "paused".      *)
(* An hour after attach the controller refuses every call without effect.  *)
(* The adapter does not authenticate again, and learns of the refusal one  *)
(* call late like of everything else: the first call refused looks served. *)
(* A program stays loaded and nobody else drives the controller.           *)
(***************************************************************************)
EXTENDS Naturals, Sequences, SequencesExt, FiniteSets

CONSTANTS
  MaxRequests,  \* bound on the requests of the session
  Lines,        \* lines a breakpoint may be put on
  Lists,        \* lists of lines that a setBreakpoints may have
  Commands      \* the requests that one call of the controller serves

ASSUME DebugAssumption ==
  /\ MaxRequests \in Nat /\ Lines \subseteq Nat /\ IsFiniteSet(Lines)
  /\ Lists \subseteq SUBSET Lines
  /\ Commands \subseteq {"continue", "next", "pause", "stackTrace", "variables"}

VARIABLES
  task,         \* task[i]: the i-th request of the IDE and how far its dispatch is
  ui,           \* what the last event shown to the user says of the engine
  open,         \* the channel's flag `connected`
  bridge,       \* the bridge: proc # null, connected, and the mirror bps
  adapter,      \* the process: its life, whether it has a client, frame, calls left,
                \* ok: the answer it read last was no error
  inbox,        \* frames in the adapter's stdin
  outbox,       \* frames in its stdout
  wire,         \* the call the controller has yet to serve
  late,         \* the answer the client will read next
  expired,      \* the controller found the token's hour over: the last answer, and
                \* from then on every answer, is an error
  engine        \* the controller: paused, breakpoints

ideVars == <<task, ui, open>>
pipes == <<inbox, outbox>>
controller == <<wire, late, expired, engine>>
vars == <<ideVars, bridge, adapter, pipes, controller>>

Requests == 1 .. MaxRequests
Idle == "none"
NoFrame == [id |-> 0, cmd |-> Idle, lines |-> {}]
NoCall == [op |-> Idle]
Unsent == [cmd |-> Idle, at |-> Idle, gone |-> {}, todo |-> {}, line |-> 0,
           verified |-> {}]

(* "released" is a disconnect or close that the adapter has answered.      *)
Waiting(i) == task[i].at \notin {Idle, "answered", "refused", "released"}
Answered(i, cmd) == task[i].cmd = cmd /\ task[i].at = "answered"

Init ==
  /\ task = [i \in Requests |-> Unsent]
  /\ ui = "stopped" /\ open = FALSE
  /\ bridge = [proc |-> FALSE, connected |-> FALSE, bps |-> {}]
  /\ adapter = [life |-> "none", client |-> FALSE, frame |-> NoFrame, calls |-> <<>>,
                ok |-> TRUE]
  /\ inbox = <<>> /\ outbox = <<>>
  /\ wire = NoCall /\ late = {} /\ expired = FALSE
  /\ engine = [paused |-> FALSE, bps |-> {}]

-----------------------------------------------------------------------------
(* The bridge's request: rejected at once without a process, else written  *)
(* to its stdin; t is the dispatch that waits for it.                      *)
Ask(i, t, cmd, proc, lines) ==
  IF proc
  THEN /\ task' = [task EXCEPT ![i] = t]
       /\ inbox' = Append(inbox, [id |-> i, cmd |-> cmd, lines |-> lines])
  ELSE /\ task' = [task EXCEPT ![i] = [t EXCEPT !.at = "refused"]]
       /\ inbox' = inbox

Finish(i, t) == /\ task' = [task EXCEPT ![i] = [t EXCEPT !.at = "answered"]]
                /\ inbox' = inbox

(* A failed add is caught and the loop goes on, with the line in the       *)
(* mirror; a failed remove ends the dispatch.                              *)
AfterRefusal(t) ==
  IF t.at = "add" THEN [t EXCEPT !.at = "answered", !.todo = {}]
                  ELSE [t EXCEPT !.at = "refused"]

RemoveNext(i, t) ==
  \E l \in t.gone :
    /\ bridge' = [bridge EXCEPT !.bps = @ \ {l}]
    /\ Ask(i, [t EXCEPT !.at = "remove", !.gone = @ \ {l}], "setBreakpoints",
           bridge.proc, bridge'.bps)

(* Faulty variant: the line joins the mirror after the list is sent.       *)
AddNextUnmirrored(i, t) ==
  /\ t.gone = {}
  /\ \E l \in t.todo :
       /\ bridge' = [bridge EXCEPT !.bps = @ \union {l}]
       /\ Ask(i, [t EXCEPT !.at = "add", !.line = l, !.todo = @ \ {l}],
              "setBreakpoints", bridge.proc, bridge.bps)

AddNext(i, t) ==
  /\ t.gone = {}
  /\ \E l \in t.todo :
       \/ /\ bridge.proc
          /\ bridge' = [bridge EXCEPT !.bps = @ \union {l}]
          /\ Ask(i, [t EXCEPT !.at = "add", !.line = l, !.todo = @ \ {l}],
                 "setBreakpoints", bridge.proc, bridge'.bps)
       \/ /\ ~bridge.proc
          /\ bridge' = [bridge EXCEPT !.bps = @ \union t.todo]
          /\ Finish(i, [t EXCEPT !.todo = {}])

AllSet(i, t) == /\ t.gone = {} /\ t.todo = {}
                /\ Finish(i, t)
                /\ UNCHANGED bridge

SetBreakpoints(i, t) == RemoveNext(i, t) \/ AddNext(i, t) \/ AllSet(i, t)

-----------------------------------------------------------------------------
(* Requests of the IDE, in the order of their numbers: launch first, any   *)
(* other after it whether or not it has been answered, close at the end.   *)
Sends(i, cmd) ==
  /\ task[i].at = Idle
  /\ i = 1 <=> cmd = "launch"
  /\ \A j \in 1 .. i - 1 :
       /\ task[j].cmd \notin {Idle, "close"}
       /\ task[j].cmd = "disconnect" => cmd = "close"

Command(cmd) == [Unsent EXCEPT !.cmd = cmd, !.at = cmd]

Launch(i) ==
  /\ Sends(i, "launch")
  /\ bridge' = [bridge EXCEPT !.proc = TRUE]
  /\ adapter' = [adapter EXCEPT !.life = "up"]
  /\ Ask(i, [Command("launch") EXCEPT !.at = "initialize"], "initialize", TRUE, {})
  /\ UNCHANGED <<ui, open, outbox, controller>>

SendSetBreakpoints(i) ==
  /\ Sends(i, "setBreakpoints")
  /\ \E L \in Lists :
       SetBreakpoints(i, [Command("setBreakpoints")
                            EXCEPT !.gone = bridge.bps, !.todo = L])
  /\ UNCHANGED <<ui, open, adapter, outbox, controller>>

SendCommand(i) ==
  /\ \E cmd \in Commands :
       /\ Sends(i, cmd)
       /\ Ask(i, Command(cmd), cmd, bridge.proc, {})
  /\ UNCHANGED <<ui, open, bridge, adapter, outbox, controller>>

(* disconnect asks a connected adapter first; kill() lets go of the        *)
(* process, which ends in its own time.                                    *)
Killed == /\ bridge' = [bridge EXCEPT !.proc = FALSE]
          /\ adapter' = IF bridge.proc /\ adapter.life = "up"
                        THEN [adapter EXCEPT !.life = "killed"] ELSE adapter

BridgeDisconnect(i, t) ==
  \/ /\ bridge.connected
     /\ Ask(i, t, "disconnect", bridge.proc, {})
     /\ UNCHANGED <<bridge, adapter>>
  \/ ~bridge.connected /\ Killed /\ Finish(i, t)

SendDisconnect(i) ==
  /\ Sends(i, "disconnect")
  /\ BridgeDisconnect(i, Command("disconnect"))
  /\ open' = (open /\ task'[i].at # "answered")
  /\ UNCHANGED <<ui, outbox, controller>>

(* close() of the channel, which nobody answers.                           *)
Close(i) ==
  /\ Sends(i, "close")
  /\ \/ open /\ BridgeDisconnect(i, Command("close"))
     \/ ~open /\ Finish(i, Command("close")) /\ UNCHANGED <<bridge, adapter>>
  /\ open' = FALSE
  /\ UNCHANGED <<ui, outbox, controller>>

-----------------------------------------------------------------------------
(* onFrame: the promise of the request settles and its dispatch goes on.   *)
Frame == Head(outbox)
Settles(i, at, ok) ==
  /\ outbox # <<>> /\ Frame.id = i /\ Frame.ok = ok
  /\ Waiting(i) /\ task[i].at \in at
  /\ outbox' = Tail(outbox)

LaunchGoesOn(i) ==
  \/ /\ Settles(i, {"initialize"}, TRUE)
     /\ Ask(i, [task[i] EXCEPT !.at = "attach"], "attach", bridge.proc, {})
     /\ UNCHANGED <<ui, open, bridge, adapter, controller>>
  \/ /\ Settles(i, {"attach"}, TRUE)
     /\ bridge' = [bridge EXCEPT !.connected = TRUE]
     /\ open' = TRUE
     /\ Ask(i, [task[i] EXCEPT !.at = "pause"], "pause", bridge.proc, {})
     /\ UNCHANGED <<ui, adapter, controller>>

BreakpointsGoOn(i) ==
  /\ \/ /\ Settles(i, {"remove"}, TRUE)
        /\ SetBreakpoints(i, task[i])
     \/ /\ Settles(i, {"add"}, TRUE)
        /\ SetBreakpoints(i, [task[i] EXCEPT !.verified = @ \union {task[i].line}])
     \/ /\ Settles(i, {"add"}, FALSE)
        /\ SetBreakpoints(i, task[i])
  /\ UNCHANGED <<ui, open, adapter, controller>>

(* The response and the event that tells the user what the engine does.    *)
CommandAnswered(i) ==
  /\ Settles(i, {"continue", "next", "pause", "stackTrace", "variables"}, TRUE)
  /\ Finish(i, task[i])
  /\ ui' = [continue |-> "running", next |-> "stopped", pause |-> "stopped",
            stackTrace |-> ui, variables |-> ui][task[i].at]
  /\ UNCHANGED <<open, bridge, adapter, controller>>

Disconnected(i) ==
  /\ Settles(i, {"disconnect", "close"}, TRUE)
  /\ bridge' = [bridge EXCEPT !.connected = FALSE, !.proc = FALSE]
  /\ adapter' = IF bridge.proc /\ adapter.life = "up"
                THEN [adapter EXCEPT !.life = "killed"] ELSE adapter
  /\ open' = FALSE
  /\ task' = [task EXCEPT ![i].at = "released"]
  /\ UNCHANGED <<ui, inbox, controller>>

RequestFails(i) ==
  /\ Settles(i, {"attach", "pause", "remove", "continue", "next", "stackTrace",
                 "variables"}, FALSE)
  /\ task' = [task EXCEPT ![i].at = "refused"]
  /\ UNCHANGED <<ui, open, bridge, adapter, inbox, controller>>

(* Faulty variant: the exit forgets the process and rejects no promise.    *)
AdapterExitsSilently ==
  /\ adapter.life = "dead"
  /\ adapter' = [adapter EXCEPT !.life = "reaped"]
  /\ bridge' = [bridge EXCEPT !.proc = FALSE, !.connected = FALSE]
  /\ inbox' = <<>> /\ outbox' = <<>>
  /\ UNCHANGED <<ideVars, controller>>

(* The exit event: every promise is rejected and the process forgotten.    *)
(* Frames still in the pipe find no promise.                               *)
AdapterExits ==
  /\ adapter.life = "dead"
  /\ adapter' = [adapter EXCEPT !.life = "reaped"]
  /\ bridge' = [proc |-> FALSE, connected |-> FALSE,
                bps |-> bridge.bps \union
                          UNION {task[i].todo : i \in {j \in Requests : task[j].at = "add"}}]
  /\ task' = [i \in Requests |-> IF Waiting(i) THEN AfterRefusal(task[i]) ELSE task[i]]
  /\ inbox' = <<>> /\ outbox' = <<>>
  /\ UNCHANGED <<ui, open, controller>>

-----------------------------------------------------------------------------
(* The adapter: a frame, the calls its handler makes, its answer.          *)
Up == adapter.life \in {"up", "killed"}

(* Faulty variant: disconnect lets go of the client without a resume.      *)
OpOfSilentEnd ==
  [attach |-> "pause", setBreakpoints |-> "list", continue |-> "resume",
   next |-> "step", pause |-> "pause", stackTrace |-> "state",
   variables |-> "read", disconnect |-> "read"]

(* Faulty variant: next resumes the engine.                                *)
OpOfNextResumes ==
  [attach |-> "pause", setBreakpoints |-> "list", continue |-> "resume",
   next |-> "resume", pause |-> "pause", stackTrace |-> "state",
   variables |-> "read", disconnect |-> "resume"]

OpOf ==
  [attach |-> "pause", setBreakpoints |-> "list", continue |-> "resume",
   next |-> "step", pause |-> "pause", stackTrace |-> "state",
   variables |-> "read", disconnect |-> "resume"]

CallsOf(f) == IF f.cmd = "initialize" THEN <<>> ELSE <<[op |-> OpOf[f.cmd]]>>

TakeFrame ==
  /\ Up /\ adapter.frame = NoFrame /\ inbox # <<>>
  /\ LET f == Head(inbox)
         client == adapter.client \/ f.cmd = "attach"
     IN  adapter' = [adapter EXCEPT !.frame = f, !.client = client,
                       !.calls = IF client THEN CallsOf(f) ELSE <<>>, !.ok = TRUE]
  /\ inbox' = Tail(inbox)
  /\ UNCHANGED <<ideVars, bridge, outbox, controller>>

(* The controller cannot be reached, or refuses the secret.                *)
AttachFails ==
  /\ Up /\ adapter.frame = NoFrame /\ inbox # <<>>
  /\ Head(inbox).cmd = "attach"
  /\ inbox' = Tail(inbox)
  /\ outbox' = Append(outbox, [id |-> Head(inbox).id, ok |-> FALSE])
  /\ UNCHANGED <<ideVars, bridge, adapter, controller>>

(* RuntimeClient writes the request and reads the answer before it, which  *)
(* is there once the controller has served what was written earlier.       *)
Calls(op, lines) == SetToSeq([op : {op}, line : lines])
CallController ==
  /\ Up /\ adapter.frame # NoFrame /\ adapter.calls # <<>>
  /\ wire = NoCall
  /\ wire' = Head(adapter.calls)
  /\ adapter' = [adapter EXCEPT
       !.calls = IF Head(@).op = "list"
                 THEN Calls("clear", late) \o Calls("set", adapter.frame.lines)
                 ELSE Tail(@),
       !.ok = ~expired]
  /\ UNCHANGED <<ideVars, bridge, pipes, late, expired, engine>>

(* An error the client read fails a control request; everywhere else the   *)
(* adapter drops it, or puts it in a part of the answer nobody looks at.   *)
Succeeds ==
  \/ adapter.frame.cmd \in {"initialize", "disconnect"}
  \/ /\ adapter.client
     /\ adapter.frame.cmd \in {"continue", "next", "pause"} => adapter.ok

Answer ==
  /\ Up /\ adapter.frame # NoFrame /\ adapter.calls = <<>>
  /\ outbox' = Append(outbox, [id |-> adapter.frame.id, ok |-> Succeeds])
  /\ adapter' = [adapter EXCEPT !.frame = NoFrame,
                   !.client = @ /\ adapter.frame.cmd # "disconnect"]
  /\ UNCHANGED <<ideVars, bridge, inbox, controller>>

(* The process ends: by the kill, or by itself at any time.                *)
Die(life) ==
  /\ adapter.life = life
  /\ adapter' = [life |-> "dead", client |-> FALSE, frame |-> NoFrame, calls |-> <<>>,
                 ok |-> TRUE]
  /\ UNCHANGED <<ideVars, bridge, pipes, controller>>

Crash == Die("up")
KilledDies == Die("killed")

(* The controller: breakpoints of the executor, pause flag of the engine.  *)
(* The state's text has commas between the numbers only, so that it parses *)
(* to all but the first and the last.                                      *)
Serves(call) ==
  /\ ~expired
  /\ engine' = CASE call.op \in {"pause", "step"} -> [engine EXCEPT !.paused = TRUE]
                 [] call.op = "resume" -> [engine EXCEPT !.paused = FALSE]
                 [] call.op = "set" -> [engine EXCEPT !.bps = @ \union {call.line}]
                 [] call.op = "clear" -> [engine EXCEPT !.bps = @ \ {call.line}]
                 [] OTHER -> engine
  /\ late' = CASE call.op = "list" -> engine.bps
               [] call.op = "state" -> {l \in engine.bps : \E m, n \in engine.bps : m < l /\ l < n}
               [] OTHER -> {}
  /\ UNCHANGED expired

(* The token is looked at first; it has expired by any call, and by all    *)
(* calls after that one.                                                   *)
Refuses ==
  /\ expired' = TRUE /\ late' = {}
  /\ UNCHANGED engine

Serve ==
  /\ wire # NoCall
  /\ Serves(wire) \/ Refuses
  /\ wire' = NoCall
  /\ UNCHANGED <<ideVars, bridge, adapter, pipes>>

-----------------------------------------------------------------------------
Ide(i) ==
  \/ Launch(i) \/ SendSetBreakpoints(i) \/ SendCommand(i)
  \/ SendDisconnect(i) \/ Close(i)

Delivered(i) ==
  \/ LaunchGoesOn(i) \/ BreakpointsGoOn(i) \/ CommandAnswered(i)
  \/ Disconnected(i) \/ RequestFails(i)

Adapter == TakeFrame \/ AttachFails \/ CallController \/ Answer

Next ==
  \/ \E i \in Requests : Ide(i) \/ Delivered(i)
  \/ AdapterExits \/ Adapter \/ Crash \/ KilledDies \/ Serve

(* Pipes deliver, processes run, SIGTERM kills and its exit is reported;   *)
(* the IDE need not send anything and the adapter need not crash.  It is   *)
(* enough that one of these happens whenever one can.                      *)
Fairness ==
  WF_vars(\/ \E i \in Requests : Delivered(i)
          \/ AdapterExits \/ Adapter \/ KilledDies \/ Serve)

Spec == Init /\ [][Next]_vars
FairSpec == Spec /\ Fairness

-----------------------------------------------------------------------------
(* Every request of the IDE is answered or refused in the end, whenever    *)
(* the adapter ends and in whatever order stop, close and launch meet      *)
(* (dispatch, request and onExit).  Requests are few and wait only once,   *)
(* so that all are settled when there are moments without a waiting one.   *)
EveryRequestSettles == []<>(\A i \in Requests : ~Waiting(i))

(* The three that follow hold until a call is refused: after that nothing  *)
(* reaches the engine, not even the resume of a disconnect.                *)

(* When no setBreakpoints is under way, every line last answered verified  *)
(* and not removed since is a breakpoint of the controller, also after     *)
(* overlapping requests and the adapter's clearing by an old list          *)
(* (handleSetBreakpoints, syncBreakpoints, handle_set_breakpoints).        *)
VerifiedInstalled ==
  ~expired /\ adapter.client /\ bridge.proc /\ wire = NoCall
    /\ (\A i \in Requests : task[i].cmd = "setBreakpoints" => ~Waiting(i))
  => \A i \in Requests : task[i].verified \intersect bridge.bps \subseteq engine.bps

(* A disconnect the adapter answered leaves the engine running, whatever   *)
(* was sent before it and is still under way (handle_disconnect, which     *)
(* resumes, and the order of the pipes).                                   *)
DisconnectResumes ==
  ~expired /\ (\E i \in Requests : task[i].at = "released") /\ wire = NoCall
  => ~engine.paused

(* With no control request under way, what the user was told last is what  *)
(* the engine does (events of dispatch after each bridge call).            *)
NoneUnderWay ==
  /\ adapter.client /\ Answered(1, "launch") /\ wire = NoCall
  /\ \A i \in Requests : Waiting(i) =>
       task[i].cmd \in {"setBreakpoints", "stackTrace", "variables"}
ShownIsTrue ==
  ~expired /\ NoneUnderWay => (ui = "stopped" <=> engine.paused)

(* A control request shown as done was not refused (send_request, "read    *)
(* the response, and check status").  The status it checks is that of the  *)
(* call before.                                                            *)
StatusChecked == NoneUnderWay => (ui = "stopped" <=> engine.paused)

=============================================================================
