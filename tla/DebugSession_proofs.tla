------------------------ MODULE DebugSession_proofs ------------------------
(***************************************************************************)
(* What holds of a debug session with any number of requests, any lines    *)
(* and any of the commands.  Every step of the channel settles or starts   *)
(* one request (ChannelStep); the pipes hold at most one frame of each     *)
(* waiting request, and keep the order in which the adapter made its       *)
(* calls: the rest of the invariant says what these calls have come to.    *)
(* All of it holds until the controller refuses a call: `expired`.         *)
(***************************************************************************)
EXTENDS DebugSession, FiniteSetTheorems, TLAPS

Settled == {"answered", "refused", "released"}
Ats == {Idle, "initialize", "attach", "pause", "setBreakpoints", "remove", "add", "continue",
        "next", "stackTrace", "variables", "disconnect", "close"} \union Settled
Cmds == {Idle, "launch", "setBreakpoints", "continue", "next", "pause", "stackTrace",
         "variables", "disconnect", "close"}
FrameCmds == {"initialize", "attach", "pause", "setBreakpoints", "continue", "next",
              "stackTrace", "variables", "disconnect"}
Ops == {"pause", "list", "resume", "step", "state", "read"}

Tasks == [cmd : Cmds, at : Ats, gone : SUBSET Lines, todo : SUBSET Lines, line : Nat,
          verified : SUBSET Nat]
Frames == [id : Requests, cmd : FrameCmds, lines : SUBSET Lines]
LineCalls == [op : {"clear", "set"}, line : Lines]
CallSet == [op : Ops] \union LineCalls

(* The adapter has read no error. *)
TypeOK ==
  /\ task \in [Requests -> Tasks]
  /\ bridge \in [proc : BOOLEAN, connected : BOOLEAN, bps : SUBSET Lines]
  /\ adapter \in [life : {"none", "up", "killed", "dead", "reaped"}, client : BOOLEAN,
                  frame : Frames \union {NoFrame}, calls : Seq(CallSet), ok : {TRUE}]
  /\ inbox \in Seq(Frames) /\ outbox \in Seq([id : Requests, ok : BOOLEAN])
  /\ wire \in CallSet \union {NoCall} /\ late \in SUBSET Lines
  /\ engine \in [paused : BOOLEAN, bps : SUBSET Lines]

(* The positions a request can wait at, and what it has to do with 1.      *)
At(cmd) ==
  IF cmd = "launch" THEN {"initialize", "attach", "pause"}
  ELSE IF cmd = "setBreakpoints" THEN {"remove", "add"} ELSE {cmd}
TaskOK(i, t) ==
  /\ t.cmd = Idle <=> t.at = Idle
  /\ t.at \in Settled \union At(t.cmd)
  /\ t.cmd = "launch" => i = 1
  /\ i = 1 => t.cmd \in {Idle, "launch"}
  /\ t.at = "add" => t.line \in Lines
TaskInv ==
  /\ \A i \in Requests : TaskOK(i, task[i])
  /\ \A i \in Requests : task[i].at # Idle => task[1].at # Idle

(* The process: what it keeps when it is gone, and when it makes calls.    *)
LifeInv ==
  /\ ~Up => ~adapter.client /\ adapter.frame = NoFrame
  /\ adapter.frame = NoFrame => adapter.calls = <<>>
  /\ adapter.calls # <<>> => adapter.client

(* The frame of a waiting request, and who it belongs to.                  *)
FrameOf(t) ==
  IF t.at \in {"remove", "add"} THEN "setBreakpoints"
  ELSE IF t.at = "close" THEN "disconnect" ELSE t.at
Owned(f) == Waiting(f.id) /\ f.cmd = FrameOf(task[f.id])
PipeInv ==
  /\ \A k \in 1 .. Len(inbox) : Owned(inbox[k])
  /\ adapter.frame # NoFrame => Owned(adapter.frame)
  /\ \A k \in 1 .. Len(outbox) : Waiting(outbox[k].id)
  /\ \A j, k \in 1 .. Len(inbox) : inbox[j].id = inbox[k].id => j = k
  /\ \A j, k \in 1 .. Len(outbox) : outbox[j].id = outbox[k].id => j = k
  /\ \A j \in 1 .. Len(inbox), k \in 1 .. Len(outbox) : inbox[j].id # outbox[k].id
  /\ \A j \in 1 .. Len(inbox) : inbox[j].id # adapter.frame.id
  /\ \A j \in 1 .. Len(outbox) : outbox[j].id # adapter.frame.id

-----------------------------------------------------------------------------
(* Whether the engine is paused, and its breakpoints, once the call on the *)
(* wire has been served.                                                   *)
Paused == IF wire.op \in {"pause", "step"} THEN TRUE
          ELSE IF wire.op = "resume" THEN FALSE ELSE engine.paused
Bps == IF wire.op = "set" THEN engine.bps \union {wire.line}
       ELSE IF wire.op = "clear" THEN engine.bps \ {wire.line} ELSE engine.bps

(* The adapter is asked to end only after it has attached.                 *)
Attached == task[1].at \notin {Idle, "initialize", "attach"}
EndAt == {"disconnect", "close"}
AttachInv ==
  bridge.connected \/ (\E i \in Requests : task[i].at \in EndAt \union {"released"})
    => Attached

(* The answer k tells of a call that was made.                             *)
Says(k, at) == outbox[k].ok /\ task[outbox[k].id].at \in at

(* Until then it has no client, and has answered nothing but initialize.   *)
NotAttached ==
  \/ task[1].at \in {Idle, "initialize"}
  \/ \E k \in 1 .. Len(inbox) : inbox[k].cmd = "attach"
BeforeInv == NotAttached =>
  /\ ~adapter.client
  /\ \A k \in 1 .. Len(outbox) : outbox[k].ok => task[outbox[k].id].at = "initialize"
  /\ \A i \in Requests : task[i].verified = {}

(* A frame other than setBreakpoints makes one call; made, it has effect.  *)
CallInv ==
  /\ adapter.frame.cmd # "setBreakpoints" /\ adapter.calls # <<>> =>
       /\ adapter.frame.cmd # "initialize"
       /\ adapter.calls = <<[op |-> OpOf[adapter.frame.cmd]]>>
  /\ adapter.client /\ adapter.calls = <<>> =>
       /\ adapter.frame.cmd \in {"attach", "pause", "next"} => Paused
       /\ adapter.frame.cmd \in {"continue", "disconnect"} => ~Paused

(* An adapter that has been attached and has no client has resumed.        *)
ConnectedOnce ==
  \/ bridge.connected
  \/ \E i \in Requests : task[i].at \in EndAt \union {"released"}
  \/ \E k \in 1 .. Len(outbox) : Says(k, {"attach"})
Ended ==
  \/ \E i \in Requests : task[i].at = "released"
  \/ \E k \in 1 .. Len(outbox) : task[outbox[k].id].at \in EndAt
ResumedInv ==
  /\ ConnectedOnce /\ Up /\ ~adapter.client => ~Paused
  /\ Ended => ~Paused /\ ~adapter.client

(* The engine is what the last answer on its way says, or else the user    *)
(* has been told already.                                                  *)
Control == {"attach", "pause", "continue", "next"}
Served == adapter.frame.cmd \in Control /\ adapter.calls = <<>>
LastSays(k) == Says(k, Control) /\ \A j \in k + 1 .. Len(outbox) : ~Says(j, Control)
ShownInv ==
  adapter.client /\ adapter.frame.cmd # "disconnect" /\ ~Served =>
    /\ \A k \in 1 .. Len(outbox) :
         LastSays(k) => (Paused <=> task[outbox[k].id].at # "continue")
    /\ (\A k \in 1 .. Len(outbox) : ~Says(k, Control)) /\ Answered(1, "launch") =>
         (Paused <=> ui = "stopped")

(* The last list under way is the mirror.                                  *)
Sets(k) == inbox[k].cmd = "setBreakpoints"
NoSets == \A k \in 1 .. Len(inbox) : ~Sets(k)
MirrorInv == bridge.proc =>
  /\ \A k \in 1 .. Len(inbox) :
       Sets(k) /\ (\A j \in k + 1 .. Len(inbox) : ~Sets(j)) => inbox[k].lines = bridge.bps
  /\ NoSets /\ adapter.frame.cmd = "setBreakpoints" => adapter.frame.lines = bridge.bps

(* After the old list has been cleared every line of the new one is set.   *)
SetsFrom(calls, L) ==
  /\ \A j, k \in 1 .. Len(calls) : j < k /\ calls[j].op = "set" => calls[k].op = "set"
  /\ \A k \in 1 .. Len(calls) : calls[k] \in LineCalls
  /\ \A l \in L :
       \/ \E k \in 1 .. Len(calls) : calls[k] = [op |-> "set", line |-> l]
       \/ l \in Bps /\ \A k \in 1 .. Len(calls) : calls[k].op = "set"
InstallInv == adapter.client /\ adapter.frame.cmd = "setBreakpoints" =>
  \/ adapter.calls = <<[op |-> "list"]>>
  \/ SetsFrom(adapter.calls, adapter.frame.lines)

(* With no list under way the mirror is installed, unless every list was   *)
(* refused.                                                                *)
NothingVerified ==
  /\ \A i \in Requests : task[i].verified = {}
  /\ \A k \in 1 .. Len(outbox) : ~Says(k, {"add"})
VerifiedInv ==
  bridge.proc /\ adapter.client /\ NoSets /\ adapter.frame.cmd # "setBreakpoints" =>
    bridge.bps \subseteq Bps \/ NothingVerified

IInv ==
  /\ TypeOK /\ TaskInv /\ LifeInv /\ PipeInv /\ AttachInv /\ BeforeInv /\ CallInv
  /\ ResumedInv /\ ShownInv /\ MirrorInv /\ InstallInv /\ VerifiedInv

-----------------------------------------------------------------------------
(* Every step of the channel is one of a request: it starts, or the first  *)
(* frame of the outbox is its answer; it ends, or its next frame is sent.  *)
Starts(i) == task[i].at = Idle /\ outbox' = outbox /\ (i # 1 => task[1].at # Idle)
Pops(i) == /\ Waiting(i) /\ outbox # <<>> /\ Head(outbox).id = i /\ outbox' = Tail(outbox)
Goes(i, t) ==
  \/ t.at \in Settled /\ inbox' = inbox
  \/ /\ t.at \notin Settled /\ bridge'.proc
     /\ \E L \in SUBSET Lines :
          /\ inbox' = Append(inbox, [id |-> i, cmd |-> FrameOf(t), lines |-> L])
          /\ FrameOf(t) = "setBreakpoints" => L = bridge'.bps
Told(i) == Pops(i) /\ Head(outbox).ok /\ task[i].at \in {"pause", "continue", "next"}
ChannelStep(i, t) ==
  /\ task' = [task EXCEPT ![i] = t] /\ TaskOK(i, t) /\ t.at # Idle
  /\ Starts(i) \/ Pops(i)
  /\ Goes(i, t)
  /\ t.at = "initialize" => task[i].at = Idle
  /\ t.at = "attach" => task[i].at = "initialize"
  /\ t.at \in EndAt => bridge.connected
  /\ t.at = "released" => task[i].at \in EndAt
  /\ \/ t.verified \subseteq task[i].verified
     \/ Pops(i) /\ Head(outbox).ok /\ task[i].at = "add"
  /\ ui' = IF Told(i) THEN IF task[i].at = "continue" THEN "running" ELSE "stopped" ELSE ui
  /\ t.cmd = "launch" /\ t.at = "answered" => Told(i)
BridgeStep(i, t) ==
  /\ bridge' \in [proc : BOOLEAN, connected : BOOLEAN, bps : SUBSET Lines]
  /\ bridge'.proc => bridge.proc \/ t.at = "initialize"
  /\ bridge'.bps # bridge.bps => ~bridge.proc \/ t.at \in {"remove", "add"}
  /\ bridge'.connected =>
       bridge.connected \/ (Pops(i) /\ Head(outbox).ok /\ task[i].at = "attach")
ProcessStep(t) ==
  /\ \E l \in {"none", "up", "killed", "dead", "reaped"} : adapter' = [adapter EXCEPT !.life = l]
  /\ Up' => Up \/ t.at = "initialize"
  /\ Up => Up'

(* Ask puts the frame of the position on the inbox, or refuses the request *)
(* when there is no process to write to; it changes nothing else of the    *)
(* request (sendRequest).                                                  *)
LEMMA AskSends ==
  ASSUME TypeOK, NEW i \in Requests, NEW t \in Tasks, t.at \notin Settled, NEW L \in SUBSET Lines,
         Ask(i, t, FrameOf(t), bridge.proc, L), bridge'.proc = bridge.proc,
         FrameOf(t) = "setBreakpoints" => L = bridge'.bps
  PROVE  \E u \in Tasks :
           /\ task' = [task EXCEPT ![i] = u] /\ Goes(i, u)
           /\ u.cmd = t.cmd /\ u.verified = t.verified /\ u.at \in {t.at, "refused"}
           /\ u.line = t.line
<1>1. CASE bridge.proc
  BY <1>1 DEF Ask, Goes
<1>2. CASE ~bridge.proc
  <2> DEFINE u == [t EXCEPT !.at = "refused"]
  <2>1. u \in Tasks /\ u.at = "refused" /\ u.cmd = t.cmd /\ u.verified = t.verified
        /\ u.line = t.line
    BY DEF Tasks, Ats, Settled
  <2>2. task' = [task EXCEPT ![i] = u] /\ inbox' = inbox
    BY <1>2 DEF Ask
  <2>3. Goes(i, u)
    BY <2>1, <2>2 DEF Goes, Settled
  <2>4. QED
    BY <2>1, <2>2, <2>3
<1>3. QED
  BY <1>1, <1>2

(* A request that finishes is answered and sends nothing.                  *)
LEMMA FinishSends ==
  ASSUME TypeOK, NEW i \in Requests, NEW t \in Tasks, Finish(i, t)
  PROVE  \E u \in Tasks :
           /\ task' = [task EXCEPT ![i] = u] /\ Goes(i, u)
           /\ u.cmd = t.cmd /\ u.verified = t.verified /\ u.at = "answered"
           /\ u.line = t.line
<1> DEFINE u == [t EXCEPT !.at = "answered"]
<1>1. u \in Tasks /\ u.at = "answered" /\ u.cmd = t.cmd /\ u.verified = t.verified
      /\ u.line = t.line
  BY DEF Tasks, Ats, Settled
<1>2. task' = [task EXCEPT ![i] = u] /\ inbox' = inbox
  BY DEF Finish
<1>3. Goes(i, u)
  BY <1>1, <1>2 DEF Goes, Settled
<1>4. QED
  BY <1>1, <1>2, <1>3

(* syncBreakpoints: each change of the mirror is sent, unless nobody is    *)
(* there to be told.                                                       *)
LEMMA SetBreakpointsSends ==
  ASSUME TypeOK, NEW i \in Requests, NEW t \in Tasks, SetBreakpoints(i, t)
  PROVE  \E u \in Tasks :
           /\ task' = [task EXCEPT ![i] = u] /\ Goes(i, u)
           /\ u.cmd = t.cmd /\ u.verified = t.verified
           /\ u.at \in {"remove", "add", "answered", "refused"}
           /\ u.at = "add" => u.line \in Lines
           /\ bridge' \in [proc : BOOLEAN, connected : BOOLEAN, bps : SUBSET Lines]
           /\ bridge'.proc = bridge.proc /\ bridge'.connected = bridge.connected
           /\ bridge'.bps # bridge.bps => ~bridge.proc \/ u.at \in {"remove", "add"}
<1>1. CASE RemoveNext(i, t)
  <2>1. PICK l \in t.gone :
          /\ bridge' = [bridge EXCEPT !.bps = @ \ {l}]
          /\ Ask(i, [t EXCEPT !.at = "remove", !.gone = @ \ {l}], "setBreakpoints",
                 bridge.proc, bridge'.bps)
    BY <1>1 DEF RemoveNext
  <2> DEFINE v == [t EXCEPT !.at = "remove", !.gone = @ \ {l}]
  <2>2. v \in Tasks /\ v.at = "remove" /\ v.cmd = t.cmd /\ v.verified = t.verified
    BY DEF Tasks, Ats
  <2>3. /\ bridge' \in [proc : BOOLEAN, connected : BOOLEAN, bps : SUBSET Lines]
        /\ bridge'.proc = bridge.proc /\ bridge'.connected = bridge.connected
    BY <2>1 DEF TypeOK
  <2>4. FrameOf(v) = "setBreakpoints" /\ v.at \notin Settled
    BY <2>2 DEF FrameOf, Settled
  <2>7. Ask(i, v, FrameOf(v), bridge.proc, bridge'.bps)
    BY <2>1, <2>4
  <2> HIDE DEF v
  <2>5. PICK u \in Tasks :
           /\ task' = [task EXCEPT ![i] = u] /\ Goes(i, u)
           /\ u.cmd = v.cmd /\ u.verified = v.verified /\ u.at \in {v.at, "refused"}
    BY <2>2, <2>3, <2>4, <2>7, AskSends
  <2>6. bridge.proc => u.at = "remove"
    BY <2>2, <2>5, <2>7 DEF Ask, TypeOK
  <2>8. QED
    BY <2>2, <2>3, <2>5, <2>6
<1>2. CASE AddNext(i, t)
  <2>1. PICK l \in t.todo :
       \/ /\ bridge.proc
          /\ bridge' = [bridge EXCEPT !.bps = @ \union {l}]
          /\ Ask(i, [t EXCEPT !.at = "add", !.line = l, !.todo = @ \ {l}],
                 "setBreakpoints", bridge.proc, bridge'.bps)
       \/ /\ ~bridge.proc
          /\ bridge' = [bridge EXCEPT !.bps = @ \union t.todo]
          /\ Finish(i, [t EXCEPT !.todo = {}])
    BY <1>2 DEF AddNext
  <2>2. /\ bridge' \in [proc : BOOLEAN, connected : BOOLEAN, bps : SUBSET Lines]
        /\ bridge'.proc = bridge.proc /\ bridge'.connected = bridge.connected
        /\ l \in Lines
    BY <2>1 DEF TypeOK, Tasks
  <2>3. CASE bridge.proc
    <3> DEFINE v == [t EXCEPT !.at = "add", !.line = l, !.todo = @ \ {l}]
    <3>1. v \in Tasks /\ v.at = "add" /\ v.cmd = t.cmd /\ v.verified = t.verified /\ v.line = l
      BY <2>2, DebugAssumption DEF Tasks, Ats
    <3>2. FrameOf(v) = "setBreakpoints" /\ v.at \notin Settled
      BY <3>1 DEF FrameOf, Settled
    <3>3. Ask(i, v, FrameOf(v), bridge.proc, bridge'.bps)
      BY <2>1, <2>3, <3>2
    <3> HIDE DEF v
    <3>4. PICK u \in Tasks :
             /\ task' = [task EXCEPT ![i] = u] /\ Goes(i, u)
             /\ u.cmd = v.cmd /\ u.verified = v.verified /\ u.at \in {v.at, "refused"}
             /\ u.line = v.line
      BY <2>2, <3>1, <3>2, <3>3, AskSends
    <3>5. u.at = "add"
      BY <2>3, <3>1, <3>3, <3>4 DEF Ask, TypeOK
    <3>6. QED
      BY <2>2, <3>1, <3>4, <3>5
  <2>4. CASE ~bridge.proc
    <3> DEFINE v == [t EXCEPT !.todo = {}]
    <3>1. v \in Tasks /\ v.cmd = t.cmd /\ v.verified = t.verified
      BY DEF Tasks
    <3>2. Finish(i, v)
      BY <2>1, <2>4
    <3> HIDE DEF v
    <3>3. PICK u \in Tasks :
             /\ task' = [task EXCEPT ![i] = u] /\ Goes(i, u)
             /\ u.cmd = v.cmd /\ u.verified = v.verified /\ u.at = "answered"
      BY <3>1, <3>2, FinishSends
    <3>4. QED
      BY <2>2, <2>4, <3>1, <3>3
  <2>5. QED
    BY <2>3, <2>4
<1>3. CASE AllSet(i, t)
  BY <1>3, FinishSends DEF AllSet, TypeOK
<1>4. QED
  BY <1>1, <1>2, <1>3 DEF SetBreakpoints

Channel(i) ==
  \E t \in Tasks : ChannelStep(i, t) /\ BridgeStep(i, t) /\ ProcessStep(t) /\ UNCHANGED controller

(* Only launch comes first, and only what follows it finds it sent.        *)
LEMMA Sent ==
  ASSUME TypeOK, TaskInv, NEW i \in Requests, NEW cmd, Sends(i, cmd), outbox' = outbox
  PROVE  /\ Starts(i) /\ ~Pops(i) /\ ~Told(i) /\ (i = 1 <=> cmd = "launch")
<1>1. task[i].at = Idle /\ (i = 1 <=> cmd = "launch")
  BY DEF Sends
<1>2. i # 1 => task[1].at # Idle
  <2> SUFFICES ASSUME i # 1 PROVE task[1].at # Idle
    OBVIOUS
  <2>1. 1 \in Requests /\ 1 \in 1 .. i - 1
    BY DebugAssumption DEF Requests
  <2>2. task[1].cmd # Idle
    BY <2>1 DEF Sends
  <2>3. QED
    BY <2>1, <2>2 DEF TaskInv, TaskOK
<1>3. ~Waiting(i)
  BY <1>1 DEF Waiting
<1>4. QED
  BY <1>1, <1>2, <1>3 DEF Starts, Pops, Told

(* A command starts at its own position with nothing verified.             *)
LEMMA NewCommand ==
  ASSUME NEW cmd \in Cmds \intersect Ats
  PROVE  /\ Command(cmd) \in Tasks
         /\ Command(cmd).cmd = cmd /\ Command(cmd).at = cmd /\ Command(cmd).verified = {}
  BY DEF Command, Unsent, Tasks

(* launch is a step of the channel: it starts request 1 with initialize.   *)
LEMMA LaunchStep ==
  ASSUME TypeOK, TaskInv, NEW i \in Requests, Launch(i)
  PROVE  Channel(i)
<1> DEFINE t == [Command("launch") EXCEPT !.at = "initialize"]
<1>1. /\ t \in Tasks /\ t.cmd = "launch" /\ t.at = "initialize" /\ t.verified = {}
  BY DEF Command, Unsent, Tasks, Cmds, Ats
<1>2. bridge' = [bridge EXCEPT !.proc = TRUE] /\ adapter' = [adapter EXCEPT !.life = "up"]
      /\ Ask(i, t, "initialize", TRUE, {})
      /\ UNCHANGED <<ui, open, outbox, controller>>
  BY DEF Launch
<1>3. Sends(i, "launch")
  BY DEF Launch
<1>4. Starts(i) /\ ~Told(i) /\ i = 1
  BY <1>2, <1>3, Sent
<1> HIDE DEF t
<1>5. task' = [task EXCEPT ![i] = t] /\ inbox' = Append(inbox, [id |-> i, cmd |-> FrameOf(t), lines |-> {}])
  BY <1>1, <1>2 DEF Ask, FrameOf
<1>6. /\ bridge' \in [proc : BOOLEAN, connected : BOOLEAN, bps : SUBSET Lines]
      /\ bridge'.proc /\ bridge'.bps = bridge.bps /\ bridge'.connected = bridge.connected
  BY <1>2 DEF TypeOK
<1>7. ProcessStep(t)
  BY <1>1, <1>2 DEF ProcessStep, Up, TypeOK
<1>8. Goes(i, t)
  BY <1>1, <1>5, <1>6 DEF Goes, Settled, FrameOf
<1>9. BridgeStep(i, t)
  BY <1>1, <1>6 DEF BridgeStep
<1>10. TaskOK(i, t) /\ t.at # Idle /\ t.at \notin EndAt /\ t.at # "released" /\ t.at # "attach"
       /\ t.at # "answered" /\ task[i].at = Idle
  BY <1>1, <1>4 DEF TaskOK, At, Idle, EndAt, Settled, Starts
<1>11. ChannelStep(i, t)
  BY <1>1, <1>2, <1>4, <1>5, <1>8, <1>10 DEF ChannelStep
<1>12. QED
  BY <1>1, <1>2, <1>7, <1>9, <1>11 DEF Channel

(* A step that leaves bridge and process alone. *)
LEMMA Aside ==
  ASSUME TypeOK, NEW i, NEW t, UNCHANGED <<bridge, adapter>>
  PROVE  BridgeStep(i, t) /\ ProcessStep(t)
<1>1. adapter' = [adapter EXCEPT !.life = adapter.life] /\ adapter.life \in {"none", "up", "killed", "dead", "reaped"}
  BY DEF TypeOK
<1>2. QED
  BY <1>1 DEF BridgeStep, ProcessStep, Up, TypeOK

(* Each of the commands sent as they are is a step of the channel.         *)
LEMMA SendCommandStep ==
  ASSUME TypeOK, TaskInv, NEW i \in Requests, SendCommand(i)
  PROVE  Channel(i)
<1>1. PICK cmd \in Commands : Sends(i, cmd) /\ Ask(i, Command(cmd), cmd, bridge.proc, {})
  BY DEF SendCommand
<1>2. cmd \in {"continue", "next", "pause", "stackTrace", "variables"}
  BY DebugAssumption
<1>3. /\ Command(cmd) \in Tasks
      /\ Command(cmd).cmd = cmd /\ Command(cmd).at = cmd /\ Command(cmd).verified = {}
  BY <1>2, NewCommand DEF Cmds, Ats
<1>4. FrameOf(Command(cmd)) = cmd /\ cmd \notin Settled /\ cmd # "setBreakpoints"
  BY <1>2, <1>3 DEF FrameOf, Settled
<1>5. UNCHANGED <<ui, open, bridge, adapter, outbox, controller>>
  BY DEF SendCommand
<1>6. PICK u \in Tasks :
           /\ task' = [task EXCEPT ![i] = u] /\ Goes(i, u)
           /\ u.cmd = cmd /\ u.verified = {} /\ u.at \in {cmd, "refused"}
  BY <1>1, <1>3, <1>4, <1>5, AskSends
<1>7. Starts(i) /\ ~Told(i) /\ i # 1
  BY <1>1, <1>2, <1>5, Sent
<1>8. TaskOK(i, u) /\ u.at # Idle /\ u.at \notin EndAt /\ u.at # "released" /\ u.at # "attach"
       /\ u.at # "answered" /\ u.at # "initialize"
  BY <1>2, <1>6, <1>7 DEF TaskOK, At, Idle, EndAt, Settled
<1>9. ChannelStep(i, u)
  BY <1>5, <1>6, <1>7, <1>8 DEF ChannelStep
<1>10. QED
  BY <1>5, <1>6, <1>9, Aside DEF Channel

(* setBreakpoints is a step of the channel: it changes the mirror only     *)
(* where it sends the list that mirrors it.                                *)
LEMMA SendSetBreakpointsStep ==
  ASSUME TypeOK, TaskInv, NEW i \in Requests, SendSetBreakpoints(i)
  PROVE  Channel(i)
<1>1. /\ Sends(i, "setBreakpoints") /\ UNCHANGED <<ui, open, adapter, outbox, controller>>
  BY DEF SendSetBreakpoints
<1>2. PICK L \in SUBSET Lines :
        SetBreakpoints(i, [Command("setBreakpoints") EXCEPT !.gone = bridge.bps, !.todo = L])
  BY DebugAssumption DEF SendSetBreakpoints
<1> DEFINE t == [Command("setBreakpoints") EXCEPT !.gone = bridge.bps, !.todo = L]
<1>3. t \in Tasks /\ t.cmd = "setBreakpoints" /\ t.verified = {}
  BY DEF Command, Unsent, Tasks, Cmds, Ats, TypeOK
<1>4. SetBreakpoints(i, t)
  BY <1>2
<1> HIDE DEF t
<1>5. PICK u \in Tasks :
           /\ task' = [task EXCEPT ![i] = u] /\ Goes(i, u)
           /\ u.cmd = t.cmd /\ u.verified = t.verified
           /\ u.at \in {"remove", "add", "answered", "refused"}
           /\ u.at = "add" => u.line \in Lines
           /\ bridge' \in [proc : BOOLEAN, connected : BOOLEAN, bps : SUBSET Lines]
           /\ bridge'.proc = bridge.proc /\ bridge'.connected = bridge.connected
           /\ bridge'.bps # bridge.bps => ~bridge.proc \/ u.at \in {"remove", "add"}
  BY <1>3, <1>4, SetBreakpointsSends
<1>6. Starts(i) /\ ~Told(i) /\ i # 1
  BY <1>1, Sent
<1>7. TaskOK(i, u)
  BY <1>3, <1>5, <1>6 DEF TaskOK, At, Idle, Settled
<1>8. ChannelStep(i, u)
  BY <1>1, <1>3, <1>5, <1>6, <1>7 DEF ChannelStep, EndAt, Idle
<1>9. BridgeStep(i, u)
  BY <1>5 DEF BridgeStep
<1>10. ProcessStep(u)
  <2>1. adapter' = [adapter EXCEPT !.life = adapter.life]
        /\ adapter.life \in {"none", "up", "killed", "dead", "reaped"}
    BY <1>1 DEF TypeOK
  <2>2. QED
    BY <1>1, <2>1 DEF ProcessStep, Up
<1>11. QED
  BY <1>1, <1>8, <1>9, <1>10 DEF Channel

(* stop asks a connected adapter and ends another; the process is let go.  *)
LEMMA KilledStep ==
  ASSUME TypeOK, NEW i, NEW t, Killed
  PROVE  BridgeStep(i, t) /\ ProcessStep(t)
<1>1. BridgeStep(i, t)
  BY DEF Killed, BridgeStep, TypeOK
<1>2. PICK l \in {adapter.life, "killed"} : adapter' = [adapter EXCEPT !.life = l]
  BY DEF Killed, TypeOK
<1>3. (Up' <=> Up) /\ l \in {"none", "up", "killed", "dead", "reaped"}
  BY <1>2 DEF Killed, TypeOK, Up
<1>4. QED
  BY <1>1, <1>2, <1>3 DEF ProcessStep

(* disconnect and the end of a session send disconnect only when the       *)
(* bridge is connected (BridgeDisconnect).                                 *)
LEMMA EndSends ==
  ASSUME TypeOK, NEW i \in Requests, NEW c \in EndAt, BridgeDisconnect(i, Command(c))
  PROVE  \E u \in Tasks :
           /\ task' = [task EXCEPT ![i] = u] /\ Goes(i, u)
           /\ u.cmd = c /\ u.verified = {} /\ u.at \in {c, "answered", "refused"}
           /\ u.at \in EndAt => bridge.connected
           /\ BridgeStep(i, u) /\ ProcessStep(u)
<1>1. /\ Command(c) \in Tasks
      /\ Command(c).cmd = c /\ Command(c).at = c /\ Command(c).verified = {}
  BY NewCommand DEF Cmds, Ats, EndAt
<1>2. FrameOf(Command(c)) = "disconnect" /\ c \notin Settled /\ {} \in SUBSET Lines
  BY <1>1 DEF FrameOf, Settled, EndAt
<1>3. CASE bridge.connected /\ Ask(i, Command(c), "disconnect", bridge.proc, {})
           /\ UNCHANGED <<bridge, adapter>>
  <2>1. PICK u \in Tasks :
           /\ task' = [task EXCEPT ![i] = u] /\ Goes(i, u)
           /\ u.cmd = c /\ u.verified = {} /\ u.at \in {c, "refused"}
    BY <1>1, <1>2, <1>3, AskSends
  <2>2. QED
    BY <1>3, <2>1, Aside
<1>4. CASE ~bridge.connected /\ Killed /\ Finish(i, Command(c))
  <2>1. PICK u \in Tasks :
           /\ task' = [task EXCEPT ![i] = u] /\ Goes(i, u)
           /\ u.cmd = c /\ u.verified = {} /\ u.at = "answered"
    BY <1>1, <1>4, FinishSends
  <2>2. QED
    BY <1>4, <2>1, KilledStep DEF EndAt
<1>5. QED
  BY <1>3, <1>4 DEF BridgeDisconnect

(* disconnect is a step of the channel.                                    *)
LEMMA SendDisconnectStep ==
  ASSUME TypeOK, TaskInv, NEW i \in Requests, SendDisconnect(i)
  PROVE  Channel(i)
<1>1. /\ Sends(i, "disconnect") /\ UNCHANGED <<ui, outbox, controller>>
      /\ BridgeDisconnect(i, Command("disconnect"))
  BY DEF SendDisconnect
<1>2. PICK u \in Tasks :
           /\ task' = [task EXCEPT ![i] = u] /\ Goes(i, u)
           /\ u.cmd = "disconnect" /\ u.verified = {}
           /\ u.at \in {"disconnect", "answered", "refused"}
           /\ u.at \in EndAt => bridge.connected
           /\ BridgeStep(i, u) /\ ProcessStep(u)
  BY <1>1, EndSends DEF EndAt
<1>3. Starts(i) /\ ~Told(i) /\ i # 1
  BY <1>1, Sent
<1>4. TaskOK(i, u)
  BY <1>2, <1>3 DEF TaskOK, At, Idle, Settled
<1>5. ChannelStep(i, u)
  BY <1>1, <1>2, <1>3, <1>4 DEF ChannelStep, EndAt, Idle
<1>6. QED
  BY <1>1, <1>2, <1>5 DEF Channel

(* Closing the session is a step of the channel.                           *)
LEMMA CloseStep ==
  ASSUME TypeOK, TaskInv, NEW i \in Requests, Close(i)
  PROVE  Channel(i)
<1>1. /\ Sends(i, "close") /\ UNCHANGED <<ui, outbox, controller>>
  BY DEF Close
<1>2. PICK u \in Tasks :
           /\ task' = [task EXCEPT ![i] = u] /\ Goes(i, u)
           /\ u.cmd = "close" /\ u.verified = {}
           /\ u.at \in {"close", "answered", "refused"}
           /\ u.at \in EndAt => bridge.connected
           /\ BridgeStep(i, u) /\ ProcessStep(u)
  <2>1. CASE open /\ BridgeDisconnect(i, Command("close"))
    BY <2>1, EndSends DEF EndAt
  <2>2. CASE Finish(i, Command("close")) /\ UNCHANGED <<bridge, adapter>>
    <3>1. Command("close") \in Tasks /\ Command("close").cmd = "close"
          /\ Command("close").verified = {}
      BY NewCommand DEF Cmds, Ats
    <3>2. PICK u \in Tasks :
             /\ task' = [task EXCEPT ![i] = u] /\ Goes(i, u)
             /\ u.cmd = "close" /\ u.verified = {} /\ u.at = "answered"
      BY <2>2, <3>1, FinishSends
    <3>3. QED
      BY <2>2, <3>2, Aside DEF EndAt
  <2>3. QED
    BY <2>1, <2>2 DEF Close
<1>3. Starts(i) /\ ~Told(i) /\ i # 1
  BY <1>1, Sent
<1>4. TaskOK(i, u)
  BY <1>2, <1>3 DEF TaskOK, At, Idle, Settled
<1>5. ChannelStep(i, u)
  BY <1>1, <1>2, <1>3, <1>4 DEF ChannelStep, EndAt, Idle
<1>6. QED
  BY <1>1, <1>2, <1>5 DEF Channel

(* An answer of the adapter, as the request it settles sees it.            *)
LEMMA Popped ==
  ASSUME TypeOK, TaskInv, NEW i \in Requests, NEW at,
         Settles(i, at, TRUE) \/ Settles(i, at, FALSE)
  PROVE  /\ Pops(i) /\ task[i].at \in at
         /\ task[i] \in Tasks /\ TaskOK(i, task[i]) /\ task[i].at \notin Settled \union {Idle}
  BY DEF Settles, Pops, Frame, Waiting, TypeOK, TaskInv, Settled

(* A request goes on as after a success only if the answer taken says so.  *)
LEMMA PoppedOk ==
  ASSUME NEW i, NEW at, Settles(i, at, TRUE)
  PROVE  Head(outbox).ok
  BY DEF Settles, Frame

(* The answers to initialize and attach are steps of the channel: each     *)
(* sends the next frame of launch, and attach connects the bridge.         *)
LEMMA LaunchGoesOnStep ==
  ASSUME TypeOK, TaskInv, NEW i \in Requests, LaunchGoesOn(i)
  PROVE  Channel(i)
<1>1. CASE /\ Settles(i, {"initialize"}, TRUE)
           /\ Ask(i, [task[i] EXCEPT !.at = "attach"], "attach", bridge.proc, {})
           /\ UNCHANGED <<ui, open, bridge, adapter, controller>>
  <2> DEFINE t == [task[i] EXCEPT !.at = "attach"]
  <2>1. Pops(i) /\ task[i] \in Tasks /\ TaskOK(i, task[i]) /\ task[i].at = "initialize"
    <3>1. Settles(i, {"initialize"}, TRUE)
      BY <1>1
    <3>2. QED
      BY <3>1 DEF Settles, Pops, Frame, Waiting, TypeOK, TaskInv, Settled, Idle
  <2>2. t \in Tasks /\ t.cmd = task[i].cmd /\ t.at = "attach" /\ t.verified = task[i].verified
    BY <2>1 DEF Tasks, Ats
  <2>3. FrameOf(t) = "attach" /\ t.at \notin Settled
    BY <2>2 DEF FrameOf, Settled
  <2>4. Ask(i, t, FrameOf(t), bridge.proc, {})
    BY <1>1, <2>3
  <2> HIDE DEF t
  <2>5. PICK u \in Tasks :
           /\ task' = [task EXCEPT ![i] = u] /\ Goes(i, u)
           /\ u.cmd = t.cmd /\ u.verified = t.verified /\ u.at \in {"attach", "refused"}
    BY <1>1, <2>2, <2>3, <2>4, AskSends
  <2>6. task[i].cmd = "launch"
    BY <2>1 DEF TaskOK, At, Settled, Idle, Tasks, Cmds
  <2>7. TaskOK(i, u)
    BY <2>1, <2>2, <2>5, <2>6 DEF TaskOK, At, Idle, Settled
  <2>8. ChannelStep(i, u)
    BY <1>1, <2>1, <2>2, <2>5, <2>7 DEF ChannelStep, EndAt, Idle, Told
  <2>9. QED
    BY <1>1, <2>5, <2>8, Aside DEF Channel
<1>2. CASE /\ Settles(i, {"attach"}, TRUE)
           /\ bridge' = [bridge EXCEPT !.connected = TRUE]
           /\ open' = TRUE
           /\ Ask(i, [task[i] EXCEPT !.at = "pause"], "pause", bridge.proc, {})
           /\ UNCHANGED <<ui, adapter, controller>>
  <2> DEFINE t == [task[i] EXCEPT !.at = "pause"]
  <2>1. Pops(i) /\ Head(outbox).ok /\ task[i] \in Tasks /\ TaskOK(i, task[i]) /\ task[i].at = "attach"
    <3>1. Settles(i, {"attach"}, TRUE)
      BY <1>2
    <3>2. QED
      BY <3>1 DEF Settles, Pops, Frame, Waiting, TypeOK, TaskInv, Settled, Idle
  <2>2. t \in Tasks /\ t.cmd = task[i].cmd /\ t.at = "pause" /\ t.verified = task[i].verified
    BY <2>1 DEF Tasks, Ats
  <2>3. FrameOf(t) = "pause" /\ t.at \notin Settled
    BY <2>2 DEF FrameOf, Settled
  <2>4. Ask(i, t, FrameOf(t), bridge.proc, {})
    BY <1>2, <2>3
  <2> HIDE DEF t
  <2>5. /\ bridge' \in [proc : BOOLEAN, connected : BOOLEAN, bps : SUBSET Lines]
        /\ bridge'.proc = bridge.proc /\ bridge'.bps = bridge.bps
    BY <1>2 DEF TypeOK
  <2>6. PICK u \in Tasks :
           /\ task' = [task EXCEPT ![i] = u] /\ Goes(i, u)
           /\ u.cmd = t.cmd /\ u.verified = t.verified /\ u.at \in {"pause", "refused"}
    BY <2>2, <2>3, <2>4, <2>5, AskSends
  <2>7. task[i].cmd = "launch"
    BY <2>1 DEF TaskOK, At, Settled, Idle, Tasks, Cmds
  <2>8. TaskOK(i, u)
    BY <2>1, <2>2, <2>6, <2>7 DEF TaskOK, At, Idle, Settled
  <2>9. ChannelStep(i, u)
    BY <1>2, <2>1, <2>2, <2>6, <2>8 DEF ChannelStep, EndAt, Idle, Told
  <2>10. BridgeStep(i, u)
    BY <2>1, <2>5 DEF BridgeStep
  <2>11. ProcessStep(u)
    <3>1. adapter' = [adapter EXCEPT !.life = adapter.life]
          /\ adapter.life \in {"none", "up", "killed", "dead", "reaped"}
      BY <1>2 DEF TypeOK
    <3>2. QED
      BY <1>2, <3>1 DEF ProcessStep, Up
  <2>12. QED
    BY <1>2, <2>6, <2>9, <2>10, <2>11 DEF Channel
<1>3. QED
  BY <1>1, <1>2 DEF LaunchGoesOn

(* The answers to setBreakpoints are steps of the channel: the loop of     *)
(* syncBreakpoints sends the next list or answers.                         *)
LEMMA BreakpointsGoOnStep ==
  ASSUME TypeOK, TaskInv, NEW i \in Requests, BreakpointsGoOn(i)
  PROVE  Channel(i)
<1>1. UNCHANGED <<ui, open, adapter, controller>>
  BY DEF BreakpointsGoOn
<1>2. /\ Pops(i) /\ task[i] \in Tasks /\ TaskOK(i, task[i]) /\ task[i].at \in {"remove", "add"}
  BY Popped DEF BreakpointsGoOn
<1>3. \E t \in Tasks :
        /\ SetBreakpoints(i, t) /\ t.cmd = task[i].cmd
        /\ t.verified \subseteq task[i].verified \/ (Head(outbox).ok /\ task[i].at = "add")
  <2>1. CASE Settles(i, {"remove"}, TRUE) /\ SetBreakpoints(i, task[i])
    BY <1>2, <2>1
  <2>2. CASE Settles(i, {"add"}, FALSE) /\ SetBreakpoints(i, task[i])
    BY <1>2, <2>2
  <2>3. CASE /\ Settles(i, {"add"}, TRUE)
             /\ SetBreakpoints(i, [task[i] EXCEPT !.verified = @ \union {task[i].line}])
    <3>1. [task[i] EXCEPT !.verified = @ \union {task[i].line}] \in Tasks
          /\ [task[i] EXCEPT !.verified = @ \union {task[i].line}].cmd = task[i].cmd
      BY <1>2 DEF Tasks
    <3>2. Settles(i, {"add"}, TRUE)
      BY <2>3
    <3>3. Head(outbox).ok /\ task[i].at = "add"
      BY <3>2 DEF Settles, Frame
    <3>4. QED
      BY <2>3, <3>1, <3>3
  <2>4. QED
    BY <2>1, <2>2, <2>3 DEF BreakpointsGoOn
<1>4. PICK t \in Tasks :
        /\ SetBreakpoints(i, t) /\ t.cmd = task[i].cmd
        /\ t.verified \subseteq task[i].verified \/ (Head(outbox).ok /\ task[i].at = "add")
  BY <1>3
<1>5. PICK u \in Tasks :
           /\ task' = [task EXCEPT ![i] = u] /\ Goes(i, u)
           /\ u.cmd = t.cmd /\ u.verified = t.verified
           /\ u.at \in {"remove", "add", "answered", "refused"}
           /\ u.at = "add" => u.line \in Lines
           /\ bridge' \in [proc : BOOLEAN, connected : BOOLEAN, bps : SUBSET Lines]
           /\ bridge'.proc = bridge.proc /\ bridge'.connected = bridge.connected
           /\ bridge'.bps # bridge.bps => ~bridge.proc \/ u.at \in {"remove", "add"}
  BY <1>4, SetBreakpointsSends
<1>6. task[i].cmd = "setBreakpoints"
  BY <1>2 DEF TaskOK, At, Settled, Idle, Tasks, Cmds
<1>7. TaskOK(i, u)
  BY <1>2, <1>4, <1>5, <1>6 DEF TaskOK, At, Idle, Settled
<1>8. ChannelStep(i, u)
  BY <1>1, <1>2, <1>4, <1>5, <1>6, <1>7 DEF ChannelStep, EndAt, Idle, Told
<1>9. BridgeStep(i, u)
  BY <1>5 DEF BridgeStep
<1>10. ProcessStep(u)
  <2>1. adapter' = [adapter EXCEPT !.life = adapter.life]
        /\ adapter.life \in {"none", "up", "killed", "dead", "reaped"}
    BY <1>1 DEF TypeOK
  <2>2. QED
    BY <1>1, <2>1 DEF ProcessStep, Up
<1>11. QED
  BY <1>1, <1>8, <1>9, <1>10 DEF Channel

(* The answer to a command is a step of the channel; what the user is told *)
(* is what it says.                                                        *)
LEMMA CommandAnsweredStep ==
  ASSUME TypeOK, TaskInv, NEW i \in Requests, CommandAnswered(i)
  PROVE  Channel(i)
<1>1. /\ Pops(i) /\ Head(outbox).ok /\ task[i] \in Tasks /\ TaskOK(i, task[i])
      /\ task[i].at \in {"continue", "next", "pause", "stackTrace", "variables"}
  BY Popped, PoppedOk DEF CommandAnswered
<1>2. PICK u \in Tasks :
           /\ task' = [task EXCEPT ![i] = u] /\ Goes(i, u)
           /\ u.cmd = task[i].cmd /\ u.verified = task[i].verified /\ u.at = "answered"
  BY <1>1, FinishSends DEF CommandAnswered
<1>3. ui' = IF task[i].at = "continue" THEN "running"
            ELSE IF task[i].at \in {"next", "pause"} THEN "stopped" ELSE ui
  <2>1. CASE task[i].at = "continue"
    BY <2>1 DEF CommandAnswered
  <2>2. CASE task[i].at = "next"
    BY <2>2 DEF CommandAnswered
  <2>3. CASE task[i].at = "pause"
    BY <2>3 DEF CommandAnswered
  <2>4. CASE task[i].at = "stackTrace"
    BY <2>4 DEF CommandAnswered
  <2>5. CASE task[i].at = "variables"
    BY <2>5 DEF CommandAnswered
  <2>6. QED
    BY <1>1, <2>1, <2>2, <2>3, <2>4, <2>5
<1>4. ui' = IF Told(i) THEN IF task[i].at = "continue" THEN "running" ELSE "stopped" ELSE ui
  BY <1>1, <1>3 DEF Told
<1>5. TaskOK(i, u)
  BY <1>1, <1>2 DEF TaskOK, At, Idle, Settled
<1>6. task[i].cmd = "launch" => Told(i)
  BY <1>1 DEF Told, TaskOK, At, Settled
<1>7. ChannelStep(i, u)
  BY <1>1, <1>2, <1>4, <1>5, <1>6 DEF ChannelStep, EndAt, Idle
<1>8. QED
  BY <1>2, <1>7, Aside DEF Channel, CommandAnswered

(* The answer to disconnect is a step of the channel: it releases the      *)
(* request that asked.                                                     *)
LEMMA DisconnectedStep ==
  ASSUME TypeOK, TaskInv, NEW i \in Requests, Disconnected(i)
  PROVE  Channel(i)
<1>1. /\ Pops(i) /\ task[i] \in Tasks /\ TaskOK(i, task[i]) /\ task[i].at \in EndAt
  BY Popped DEF Disconnected, EndAt
<1> DEFINE u == [task[i] EXCEPT !.at = "released"]
<1>2. u \in Tasks /\ u.at = "released" /\ u.cmd = task[i].cmd /\ u.verified = task[i].verified
      /\ u.line = task[i].line
  BY <1>1 DEF Tasks, Ats, Settled
<1>3. task' = [task EXCEPT ![i] = u] /\ UNCHANGED <<ui, inbox, controller>>
  BY DEF Disconnected
<1>4. bridge' = [bridge EXCEPT !.connected = FALSE, !.proc = FALSE]
  BY DEF Disconnected
<1>5. PICK l \in {adapter.life, "killed"} :
        adapter' = [adapter EXCEPT !.life = l] /\ (l # adapter.life => adapter.life = "up")
  BY DEF Disconnected, TypeOK
<1> HIDE DEF u
<1>6. TaskOK(i, u)
  BY <1>1, <1>2 DEF TaskOK, At, Idle, Settled, EndAt
<1>7. Goes(i, u)
  BY <1>2, <1>3 DEF Goes, Settled
<1>8. ChannelStep(i, u)
  BY <1>1, <1>2, <1>3, <1>6, <1>7 DEF ChannelStep, EndAt, Idle, Told
<1>9. BridgeStep(i, u)
  BY <1>4 DEF BridgeStep, TypeOK
<1>10. ProcessStep(u)
  <2>1. (Up' <=> Up) /\ l \in {"none", "up", "killed", "dead", "reaped"}
    BY <1>5 DEF TypeOK, Up
  <2>2. QED
    BY <1>5, <2>1 DEF ProcessStep
<1>11. QED
  BY <1>2, <1>3, <1>8, <1>9, <1>10 DEF Channel

(* A failed answer is a step of the channel: the request is refused and    *)
(* the user is told nothing.                                               *)
LEMMA RequestFailsStep ==
  ASSUME TypeOK, TaskInv, NEW i \in Requests, RequestFails(i)
  PROVE  Channel(i)
<1>1. /\ Pops(i) /\ task[i] \in Tasks /\ TaskOK(i, task[i]) /\ ~Head(outbox).ok
  BY Popped DEF RequestFails, Settles, Frame
<1> DEFINE u == [task[i] EXCEPT !.at = "refused"]
<1>2. u \in Tasks /\ u.at = "refused" /\ u.cmd = task[i].cmd /\ u.verified = task[i].verified
      /\ u.line = task[i].line
  BY <1>1 DEF Tasks, Ats, Settled
<1>3. task' = [task EXCEPT ![i] = u] /\ UNCHANGED <<ui, open, bridge, adapter, inbox, controller>>
  BY DEF RequestFails
<1>4. task[i].at # Idle
  BY <1>1 DEF Pops, Waiting
<1> HIDE DEF u
<1>5. TaskOK(i, u)
  BY <1>1, <1>2, <1>4 DEF TaskOK, At, Idle, Settled
<1>6. Goes(i, u)
  BY <1>2, <1>3 DEF Goes, Settled
<1>7. ChannelStep(i, u)
  BY <1>1, <1>2, <1>3, <1>5, <1>6 DEF ChannelStep, EndAt, Idle, Told
<1>8. QED
  BY <1>2, <1>3, <1>7, Aside DEF Channel

(* Whatever the channel does is a step of one request.                     *)
LEMMA ChannelSteps ==
  ASSUME TypeOK, TaskInv, NEW i \in Requests, Ide(i) \/ Delivered(i)
  PROVE  Channel(i)
  BY LaunchStep, SendSetBreakpointsStep, SendCommandStep, SendDisconnectStep, CloseStep,
     LaunchGoesOnStep, BreakpointsGoOnStep, CommandAnsweredStep, DisconnectedStep,
     RequestFailsStep DEF Ide, Delivered

-----------------------------------------------------------------------------
(* One call for each line, in some order. *)
LEMMA CallsMade ==
  ASSUME NEW L \in SUBSET Lines, NEW op \in {"clear", "set"}
  PROVE  /\ Calls(op, L) \in Seq(LineCalls)
         /\ \A k \in 1 .. Len(Calls(op, L)) : Calls(op, L)[k].op = op
         /\ \A l \in L : \E k \in 1 .. Len(Calls(op, L)) : Calls(op, L)[k] = [op |-> op, line |-> l]
<1> DEFINE S == [op : {op}, line : L]
           f == [l \in L |-> [op |-> op, line |-> l]]
<1>1. IsFiniteSet(L)
  BY DebugAssumption, FS_Subset
<1>2. f \in Bijection(L, S)
  <2>1. f \in [L -> S]
    OBVIOUS
  <2>2. \A a, b \in L : f[a] = f[b] => a = b
    OBVIOUS
  <2>3. \A s \in S : \E l \in L : f[l] = s
    OBVIOUS
  <2> HIDE DEF f, S
  <2>4. QED
    BY <2>1, <2>2, <2>3 DEF Bijection, Injection, Surjection, IsInjective
<1>3. IsFiniteSet(S)
  <2> HIDE DEF f, S
  <2>1. ExistsBijection(L, S)
    BY <1>2 DEF ExistsBijection
  <2>2. QED
    BY <1>1, <2>1, FS_Bijection
<1> HIDE DEF f, S
<1> DEFINE n == Cardinality(S)
           q == SetToSeq(S)
<1>4. n \in Nat /\ ExistsBijection(1 .. n, S)
  BY <1>3, FS_CardinalityType
<1>5. PICK b \in [1 .. n -> S] : IsInjective(b)
  BY <1>4 DEF ExistsBijection, Bijection, Injection
<1>6. q \in [1 .. n -> S] /\ IsInjective(q)
  BY <1>5 DEF SetToSeq
<1>7. Cardinality(1 .. n) = n
  BY <1>4, FS_Interval
<1>8. q \in Surjection(1 .. n, S)
  <2>1. q \in Injection(1 .. n, S)
    BY <1>6 DEF Injection
  <2>2. QED
    BY <1>3, <1>7, <2>1, FS_Injection
<1>9. \A s \in S : \E k \in 1 .. n : q[k] = s
  BY <1>8 DEF Surjection
<1>10. Calls(op, L) = q
  BY DEF Calls, S
<1> HIDE DEF q, n
<1>11. q \in Seq(S) /\ Len(q) = n
  BY <1>4, <1>6
<1>12. S \subseteq LineCalls /\ (\A s \in S : s.op = op) /\ (\A l \in L : [op |-> op, line |-> l] \in S)
  BY DEF S, LineCalls
<1>13. QED
  BY <1>6, <1>9, <1>10, <1>11, <1>12

(* What the adapter has still to do for a list: clear the lines of the old *)
(* answer, then set those of the new one.                                  *)
LEMMA ListCalls ==
  ASSUME NEW old \in SUBSET Lines, NEW new \in SUBSET Lines
  PROVE  LET c == Calls("clear", old) \o Calls("set", new) IN
         /\ c \in Seq(LineCalls)
         /\ \A j, k \in 1 .. Len(c) : j < k /\ c[j].op = "set" => c[k].op = "set"
         /\ \A l \in new : \E k \in 1 .. Len(c) : c[k] = [op |-> "set", line |-> l]
<1> DEFINE a == Calls("clear", old)
           b == Calls("set", new)
<1>1. a \in Seq(LineCalls) /\ \A k \in 1 .. Len(a) : a[k].op = "clear"
  BY CallsMade
<1>2. /\ b \in Seq(LineCalls) /\ \A k \in 1 .. Len(b) : b[k].op = "set"
      /\ \A l \in new : \E k \in 1 .. Len(b) : b[k] = [op |-> "set", line |-> l]
  BY CallsMade
<1> HIDE DEF a, b
<1>3. /\ a \o b \in Seq(LineCalls) /\ Len(a \o b) = Len(a) + Len(b)
      /\ \A k \in 1 .. Len(a) : (a \o b)[k] = a[k]
      /\ \A k \in 1 .. Len(b) : (a \o b)[Len(a) + k] = b[k]
  BY <1>1, <1>2
<1>4. ASSUME NEW k \in 1 .. Len(a \o b) PROVE (a \o b)[k].op = IF k <= Len(a) THEN "clear" ELSE "set"
  <2>1. CASE k <= Len(a)
    BY <1>1, <1>3, <2>1
  <2>2. CASE ~(k <= Len(a))
    <3>1. k - Len(a) \in 1 .. Len(b) /\ (a \o b)[k] = b[k - Len(a)]
      BY <1>1, <1>2, <1>3, <2>2
    <3>2. QED
      BY <1>2, <2>2, <3>1
  <2>3. QED
    BY <2>1, <2>2
<1>5. ASSUME NEW l \in new PROVE \E k \in 1 .. Len(a \o b) : (a \o b)[k] = [op |-> "set", line |-> l]
  <2>1. PICK k \in 1 .. Len(b) : b[k] = [op |-> "set", line |-> l]
    BY <1>2
  <2>2. Len(a) + k \in 1 .. Len(a \o b) /\ (a \o b)[Len(a) + k] = b[k]
    BY <1>1, <1>2, <1>3
  <2>3. QED
    BY <2>1, <2>2
<1>6. \A j, k \in 1 .. Len(a \o b) : j < k /\ (a \o b)[j].op = "set" => (a \o b)[k].op = "set"
  BY <1>1, <1>2, <1>3, <1>4
<1>7. QED
  BY <1>3, <1>5, <1>6 DEF a, b

(* The adapter at rest and the silent wire are no frame and no call.       *)
LEMMA NoFrameFacts ==
  /\ NoFrame.id = 0 /\ NoFrame.cmd = Idle /\ NoFrame.cmd \notin FrameCmds
  /\ NoFrame \notin Frames /\ 0 \notin Requests /\ NoCall.op = Idle
  BY DebugAssumption DEF NoFrame, NoCall, Idle, FrameCmds, Frames, Requests

(* A session starts with the types right, no request under way and no      *)
(* process.                                                                *)
LEMMA InitType == Init => TypeOK /\ TaskInv /\ LifeInv
<1> SUFFICES ASSUME Init PROVE TypeOK /\ TaskInv /\ LifeInv
  OBVIOUS
<1>1. Unsent \in Tasks /\ Unsent.at = Idle /\ Unsent.cmd = Idle
  BY DEF Unsent, Tasks, Cmds, Ats
<1>2. TypeOK
  BY <1>1 DEF Init, TypeOK
<1>3. TaskInv
  BY <1>1 DEF Init, TaskInv, TaskOK, At, Idle
<1>4. LifeInv
  BY DEF Init, LifeInv
<1>5. QED
  BY <1>2, <1>3, <1>4

(* The call the adapter makes for each frame (dispatch of the DAP server). *)
LEMMA OpsOf ==
  /\ \A c \in FrameCmds \ {"initialize"} : OpOf[c] \in Ops
  /\ OpOf["attach"] = "pause" /\ OpOf["pause"] = "pause" /\ OpOf["next"] = "step"
  /\ OpOf["continue"] = "resume" /\ OpOf["disconnect"] = "resume"
  /\ OpOf["stackTrace"] = "state" /\ OpOf["variables"] = "read"
  /\ OpOf["setBreakpoints"] = "list"
<1>1. /\ OpOf["attach"] = "pause" /\ OpOf["pause"] = "pause" /\ OpOf["next"] = "step"
      /\ OpOf["continue"] = "resume" /\ OpOf["disconnect"] = "resume"
      /\ OpOf["stackTrace"] = "state" /\ OpOf["variables"] = "read"
      /\ OpOf["setBreakpoints"] = "list"
  BY DEF OpOf
<1>2. QED
  BY <1>1 DEF FrameCmds, Ops

(* The calls of a frame the adapter takes up. *)
LEMMA FrameCalls ==
  ASSUME NEW f \in Frames
  PROVE  /\ CallsOf(f) \in Seq(CallSet)
         /\ f.cmd = "initialize" => CallsOf(f) = <<>>
         /\ f.cmd # "initialize" => CallsOf(f) = <<[op |-> OpOf[f.cmd]]>> /\ CallsOf(f) # <<>>
         /\ CallsOf(f) # <<>> => f.cmd # "initialize"
<1>1. CASE f.cmd = "initialize"
  BY <1>1 DEF CallsOf
<1>2. CASE f.cmd # "initialize"
  <2>1. OpOf[f.cmd] \in Ops
    BY <1>2, OpsOf DEF Frames
  <2>2. CallsOf(f) = <<[op |-> OpOf[f.cmd]]>>
    BY <1>2 DEF CallsOf
  <2>3. [op |-> OpOf[f.cmd]] \in CallSet
    BY <2>1 DEF CallSet
  <2> DEFINE c == [op |-> OpOf[f.cmd]]
  <2> HIDE DEF c
  <2>4. c \in CallSet /\ CallsOf(f) = <<c>>
    BY <2>2, <2>3 DEF c
  <2>5. CallsOf(f) \in Seq(CallSet) /\ CallsOf(f) # <<>>
    BY <2>4
  <2>6. QED
    BY <1>2, <2>2, <2>5
<1>3. QED
  BY <1>1, <1>2

(* What each step of the adapter does, field by field. *)
Processes == [life : {"none", "up", "killed", "dead", "reaped"}, client : BOOLEAN,
              frame : Frames \union {NoFrame}, calls : Seq(CallSet), ok : {TRUE}]

(* What taking a frame changes: the frame moves from the inbox to the      *)
(* adapter, which lists the calls to make for it.                          *)
LEMMA TakeFrameDoes ==
  ASSUME TypeOK, TakeFrame
  PROVE  LET f == Head(inbox) IN
         /\ Up /\ adapter.frame = NoFrame /\ inbox # <<>> /\ f \in Frames
         /\ adapter' \in Processes /\ adapter'.life = adapter.life /\ adapter'.frame = f
         /\ adapter'.client <=> adapter.client \/ f.cmd = "attach"
         /\ adapter'.calls = IF adapter'.client THEN CallsOf(f) ELSE <<>>
         /\ inbox' = Tail(inbox) /\ inbox' \in Seq(Frames)
         /\ UNCHANGED <<task, ui, open, bridge, outbox, wire, late, engine>>
<1> DEFINE f == Head(inbox)
           client == adapter.client \/ f.cmd = "attach"
           calls == IF client THEN CallsOf(f) ELSE <<>>
<1>1. Up /\ adapter.frame = NoFrame /\ inbox # <<>> /\ f \in Frames
      /\ inbox' = Tail(inbox) /\ inbox' \in Seq(Frames)
      /\ UNCHANGED <<task, ui, open, bridge, outbox, wire, late, engine>>
  BY DEF TakeFrame, TypeOK, ideVars, controller
<1>2. adapter' = [adapter EXCEPT !.frame = f, !.client = client, !.calls = calls,
                              !.ok = TRUE]
  BY DEF TakeFrame
<1>3. client \in BOOLEAN
  OBVIOUS
<1>4. calls \in Seq(CallSet)
  BY <1>1, FrameCalls
<1>5. adapter \in Processes
  BY DEF TypeOK, Processes
<1> HIDE DEF f
<1>6. client <=> adapter.client \/ f.cmd = "attach"
  OBVIOUS
<1>7. client = TRUE => calls = CallsOf(f)
  OBVIOUS
<1>8. client = FALSE => calls = <<>>
  OBVIOUS
<1> HIDE DEF client, calls
<1>9. adapter' \in Processes /\ adapter'.life = adapter.life /\ adapter'.frame = f
      /\ adapter'.client = client /\ adapter'.calls = calls
  BY <1>1, <1>2, <1>3, <1>4, <1>5 DEF Processes
<1>10. adapter'.calls = IF adapter'.client THEN CallsOf(f) ELSE <<>>
  BY <1>3, <1>7, <1>8, <1>9
<1>11. QED
  BY <1>1, <1>6, <1>9, <1>10 DEF f

(* What a failed attach changes: the frame leaves the inbox and a failed   *)
(* answer is appended; the adapter stays without a client.                 *)
LEMMA AttachFailsDoes ==
  ASSUME TypeOK, AttachFails
  PROVE  LET f == Head(inbox) e == [id |-> f.id, ok |-> FALSE] IN
         /\ Up /\ adapter.frame = NoFrame /\ inbox # <<>> /\ f \in Frames /\ f.cmd = "attach"
         /\ e \in [id : Requests, ok : BOOLEAN] /\ outbox' = Append(outbox, e)
         /\ inbox' = Tail(inbox) /\ inbox' \in Seq(Frames)
         /\ UNCHANGED <<task, ui, open, bridge, adapter, wire, late, engine>>
<1>1. Head(inbox) \in Frames
  BY DEF AttachFails, TypeOK
<1>2. [id |-> Head(inbox).id, ok |-> FALSE] \in [id : Requests, ok : BOOLEAN]
  BY <1>1 DEF Frames
<1>3. QED
  BY <1>1, <1>2 DEF AttachFails, TypeOK, ideVars, controller

(* What a call changes: the first call goes on the wire; after the list    *)
(* come the clearing of the old lines and the setting of the new ones.     *)
LEMMA CallControllerDoes ==
  ASSUME TypeOK, CallController, ~expired
  PROVE  /\ Up /\ adapter.frame \in Frames /\ adapter.calls # <<>> /\ wire.op = Idle
         /\ wire' = Head(adapter.calls) /\ wire' \in CallSet
         /\ adapter' \in Processes
         /\ adapter'.life = adapter.life /\ adapter'.frame = adapter.frame
         /\ adapter'.client = adapter.client
         /\ adapter'.calls = IF Head(adapter.calls).op = "list"
              THEN Calls("clear", late) \o Calls("set", adapter.frame.lines)
              ELSE Tail(adapter.calls)
         /\ UNCHANGED <<task, ui, open, bridge, inbox, outbox, late, engine>>
<1> DEFINE c == IF Head(adapter.calls).op = "list"
                THEN Calls("clear", late) \o Calls("set", adapter.frame.lines)
                ELSE Tail(adapter.calls)
<1>1. /\ Up /\ adapter.frame \in Frames /\ adapter.calls \in Seq(CallSet) /\ adapter.calls # <<>>
      /\ wire = NoCall /\ wire' = Head(adapter.calls)
      /\ UNCHANGED <<task, ui, open, bridge, inbox, outbox, late, engine>>
  BY DEF CallController, TypeOK, ideVars, pipes
<1>2. Head(adapter.calls) \in CallSet /\ Tail(adapter.calls) \in Seq(CallSet)
  BY <1>1
<1>3. Calls("clear", late) \o Calls("set", adapter.frame.lines) \in Seq(CallSet)
  <2>1. late \in SUBSET Lines /\ adapter.frame.lines \in SUBSET Lines
    BY <1>1 DEF TypeOK, Frames
  <2>2. Calls("clear", late) \o Calls("set", adapter.frame.lines) \in Seq(LineCalls)
    BY <2>1, ListCalls
  <2>3. QED
    BY <2>2 DEF CallSet
<1>4. adapter' = [adapter EXCEPT !.calls = c, !.ok = TRUE]
  BY DEF CallController
<1>5. c \in Seq(CallSet)
  BY <1>2, <1>3
<1>6. adapter \in Processes
  BY DEF TypeOK, Processes
<1> HIDE DEF c
<1>7. adapter' \in Processes /\ adapter'.life = adapter.life /\ adapter'.frame = adapter.frame
      /\ adapter'.client = adapter.client /\ adapter'.calls = c
  BY <1>4, <1>5, <1>6 DEF Processes
<1>8. QED
  BY <1>1, <1>2, <1>7, NoFrameFacts DEF c

(* What an answer changes: the frame goes, its answer is appended, good if *)
(* a client was there to make the calls, and disconnect drops the client.  *)
LEMMA AnswerDoes ==
  ASSUME TypeOK, Answer
  PROVE  \E e \in [id : Requests, ok : BOOLEAN] :
         /\ Up /\ adapter.frame \in Frames /\ adapter.calls = <<>>
         /\ outbox' = Append(outbox, e) /\ e.id = adapter.frame.id
         /\ e.ok <=> adapter.client \/ adapter.frame.cmd \in {"initialize", "disconnect"}
         /\ adapter' \in Processes
         /\ adapter'.life = adapter.life /\ adapter'.frame = NoFrame /\ adapter'.calls = <<>>
         /\ adapter'.client <=> adapter.client /\ adapter.frame.cmd # "disconnect"
         /\ UNCHANGED <<task, ui, open, bridge, inbox, wire, late, engine>>
<1> DEFINE ok == Succeeds
           client == adapter.client /\ adapter.frame.cmd # "disconnect"
           e == [id |-> adapter.frame.id, ok |-> ok]
<1>1. Up /\ adapter.frame \in Frames /\ adapter.calls = <<>>
      /\ UNCHANGED <<task, ui, open, bridge, inbox, wire, late, engine>>
  BY DEF Answer, TypeOK, ideVars, controller
<1>2. outbox' = Append(outbox, e)
  BY DEF Answer
<1>3. adapter' = [adapter EXCEPT !.frame = NoFrame, !.client = client]
  BY DEF Answer
<1>4. ok \in BOOLEAN /\ client \in BOOLEAN
  BY DEF Succeeds
<1>5. adapter \in Processes
  BY DEF TypeOK, Processes
<1>6. (ok <=> adapter.client \/ adapter.frame.cmd \in {"initialize", "disconnect"})
      /\ (client <=> adapter.client /\ adapter.frame.cmd # "disconnect")
  <2>1. adapter.ok
    BY <1>5 DEF Processes
  <2>2. QED
    BY <2>1 DEF Succeeds
<1> HIDE DEF ok, client
<1>7. e \in [id : Requests, ok : BOOLEAN] /\ e.id = adapter.frame.id /\ e.ok = ok
  BY <1>1, <1>4 DEF Frames
<1>8. adapter' \in Processes /\ adapter'.life = adapter.life /\ adapter'.frame = NoFrame
      /\ adapter'.client = client /\ adapter'.calls = adapter.calls
  BY <1>3, <1>4, <1>5 DEF Processes
<1> HIDE DEF e
<1>9. QED
  BY <1>1, <1>2, <1>6, <1>7, <1>8

(* What the end of the process changes: the client, the frame and the      *)
(* calls go with it; both pipes stay.                                      *)
LEMMA DieDoes ==
  ASSUME TypeOK, NEW life, Die(life)
  PROVE  /\ adapter' \in Processes /\ adapter'.life = "dead"
         /\ ~adapter'.client /\ adapter'.frame = NoFrame /\ adapter'.calls = <<>>
         /\ UNCHANGED <<task, ui, open, bridge, inbox, outbox, wire, late, engine>>
<1>1. adapter' = [life |-> "dead", client |-> FALSE, frame |-> NoFrame, calls |-> <<>>,
                  ok |-> TRUE]
  BY DEF Die
<1>2. QED
  BY <1>1 DEF Die, Processes, ideVars, pipes, controller

(* The controller serves a call: what it was on the wire, it is now.       *)
LEMMA ServeDoes ==
  ASSUME TypeOK, Serve, ~expired'
  PROVE  /\ wire' = NoCall /\ late' \in SUBSET Lines
         /\ engine' \in [paused : BOOLEAN, bps : SUBSET Lines]
         /\ Paused' = Paused /\ Bps' = Bps
         /\ UNCHANGED <<task, ui, open, bridge, adapter, inbox, outbox>>
<1>1. wire \in CallSet /\ wire' = NoCall
      /\ UNCHANGED <<task, ui, open, bridge, adapter, inbox, outbox>>
  BY DEF Serve, TypeOK, ideVars, pipes
<1>0. Serves(wire)
  BY DEF Serve, Refuses
<1>2. wire'.op \notin {"pause", "step", "resume", "set", "clear"}
  BY <1>1, NoFrameFacts DEF Idle
<1>3. /\ engine' \in [paused : BOOLEAN, bps : SUBSET Lines]
      /\ engine'.paused = Paused /\ engine'.bps = Bps
  <2>1. CASE wire.op \in {"pause", "step"}
    <3>1. engine' = [engine EXCEPT !.paused = TRUE]
      BY <1>0, <2>1 DEF Serves
    <3>2. QED
      BY <2>1, <3>1 DEF TypeOK, Paused, Bps
  <2>2. CASE wire.op = "resume"
    <3>1. engine' = [engine EXCEPT !.paused = FALSE]
      BY <1>0, <2>2 DEF Serves
    <3>2. QED
      BY <2>2, <3>1 DEF TypeOK, Paused, Bps
  <2>3. CASE wire.op = "set"
    <3>1. engine' = [engine EXCEPT !.bps = @ \union {wire.line}]
      BY <1>0, <2>3 DEF Serves
    <3>2. wire.line \in Lines
      BY <1>1, <2>3 DEF CallSet, LineCalls, Ops
    <3>3. QED
      BY <2>3, <3>1, <3>2 DEF TypeOK, Paused, Bps
  <2>4. CASE wire.op = "clear"
    <3>1. engine' = [engine EXCEPT !.bps = @ \ {wire.line}]
      BY <1>0, <2>4 DEF Serves
    <3>2. QED
      BY <2>4, <3>1 DEF TypeOK, Paused, Bps
  <2>5. CASE wire.op \notin {"pause", "step", "resume", "set", "clear"}
    <3>1. engine' = engine
      BY <1>0, <2>5 DEF Serves
    <3>2. QED
      BY <2>5, <3>1 DEF TypeOK, Paused, Bps
  <2>6. QED
    BY <2>1, <2>2, <2>3, <2>4, <2>5
<1>4. late' \in SUBSET Lines
  <2>1. CASE wire.op = "list"
    BY <1>0, <2>1 DEF Serves, TypeOK
  <2>2. CASE wire.op = "state"
    BY <1>0, <2>2 DEF Serves, TypeOK
  <2>3. CASE wire.op \notin {"list", "state"}
    BY <1>0, <2>3 DEF Serves
  <2>4. QED
    BY <2>1, <2>2, <2>3
<1>5. Paused' = engine'.paused /\ Bps' = engine'.bps
  BY <1>2 DEF Paused, Bps
<1>6. QED
  BY <1>1, <1>3, <1>4, <1>5

(* The exit of the process: whoever waits is refused, or, with a failed    *)
(* add, answered.                                                          *)
LEMMA AdapterExitsDoes ==
  ASSUME TypeOK, AdapterExits
  PROVE  /\ task' \in [Requests -> Tasks]
         /\ \A i \in Requests :
              /\ ~Waiting(i) => task'[i] = task[i]
              /\ Waiting(i) =>
                   /\ task'[i].cmd = task[i].cmd /\ task'[i].verified = task[i].verified
                   /\ task'[i].at \in {"answered", "refused"}
                   /\ task'[i].at = "answered" => task[i].at = "add"
         /\ bridge' \in [proc : BOOLEAN, connected : BOOLEAN, bps : SUBSET Lines]
         /\ ~bridge'.proc /\ ~bridge'.connected
         /\ adapter.life = "dead" /\ adapter' \in Processes /\ adapter'.life = "reaped"
         /\ adapter'.client = adapter.client /\ adapter'.frame = adapter.frame
         /\ adapter'.calls = adapter.calls
         /\ inbox' = <<>> /\ outbox' = <<>> /\ UNCHANGED <<ui, open, wire, late, engine>>
<1>1. ASSUME NEW t \in Tasks
      PROVE  /\ AfterRefusal(t) \in Tasks
             /\ AfterRefusal(t).cmd = t.cmd /\ AfterRefusal(t).verified = t.verified
             /\ AfterRefusal(t).at \in {"answered", "refused"}
             /\ AfterRefusal(t).at = "answered" => t.at = "add"
  <2>1. CASE t.at = "add"
    <3>1. AfterRefusal(t) = [t EXCEPT !.at = "answered", !.todo = {}]
      BY <2>1 DEF AfterRefusal
    <3>2. QED
      BY <2>1, <3>1 DEF Tasks, Ats, Settled
  <2>2. CASE t.at # "add"
    <3>1. AfterRefusal(t) = [t EXCEPT !.at = "refused"]
      BY <2>2 DEF AfterRefusal
    <3>2. QED
      BY <2>2, <3>1 DEF Tasks, Ats, Settled
  <2>3. QED
    BY <2>1, <2>2
<1>2. task' = [i \in Requests |-> IF Waiting(i) THEN AfterRefusal(task[i]) ELSE task[i]]
  BY DEF AdapterExits
<1>3. task \in [Requests -> Tasks]
  BY DEF TypeOK
<1>4. task' \in [Requests -> Tasks]
  BY <1>1, <1>2, <1>3
<1>5. ASSUME NEW i \in Requests
      PROVE  /\ ~Waiting(i) => task'[i] = task[i]
             /\ Waiting(i) => task'[i] = AfterRefusal(task[i])
  BY <1>2
<1>6. bridge' \in [proc : BOOLEAN, connected : BOOLEAN, bps : SUBSET Lines]
      /\ ~bridge'.proc /\ ~bridge'.connected
  <2>1. UNION {task[i].todo : i \in {j \in Requests : task[j].at = "add"}} \in SUBSET Lines
    BY <1>3 DEF Tasks
  <2>2. bridge.bps \in SUBSET Lines
    BY DEF TypeOK
  <2> DEFINE B == bridge.bps \union UNION {task[i].todo : i \in {j \in Requests : task[j].at = "add"}}
  <2>3. B \in SUBSET Lines
    BY <2>1, <2>2
  <2>4. bridge' = [proc |-> FALSE, connected |-> FALSE, bps |-> B]
    BY DEF AdapterExits
  <2> HIDE DEF B
  <2>5. QED
    BY <2>3, <2>4
<1>7. adapter.life = "dead" /\ adapter' = [adapter EXCEPT !.life = "reaped"]
      /\ inbox' = <<>> /\ outbox' = <<>> /\ UNCHANGED <<ui, open, wire, late, engine>>
  BY DEF AdapterExits, controller
<1>8. adapter \in Processes
  BY DEF TypeOK, Processes
<1>9. adapter' \in Processes /\ adapter'.life = "reaped"
      /\ adapter'.client = adapter.client /\ adapter'.frame = adapter.frame
      /\ adapter'.calls = adapter.calls
  BY <1>7, <1>8 DEF Processes
<1>10. QED
  BY <1>1, <1>3, <1>4, <1>5, <1>6, <1>7, <1>9

(* A step of the channel leaves what the adapter is doing alone.           *)
LEMMA ChannelDoes ==
  ASSUME TypeOK, NEW i \in Requests, NEW t \in Tasks, ChannelStep(i, t), BridgeStep(i, t),
         ProcessStep(t), UNCHANGED controller
  PROVE  /\ task' \in [Requests -> Tasks] /\ task'[i] = t
         /\ \A j \in Requests : j # i => task'[j] = task[j]
         /\ bridge' \in [proc : BOOLEAN, connected : BOOLEAN, bps : SUBSET Lines]
         /\ adapter' \in Processes /\ (Up => Up') /\ (Up' => Up \/ t.at = "initialize")
         /\ adapter'.client = adapter.client /\ adapter'.frame = adapter.frame
         /\ adapter'.calls = adapter.calls
         /\ inbox' \in Seq(Frames) /\ outbox' \in Seq([id : Requests, ok : BOOLEAN])
         /\ UNCHANGED <<wire, late, engine>>
<1>1. task' = [task EXCEPT ![i] = t] /\ UNCHANGED <<wire, late, engine>>
  BY DEF ChannelStep, controller
<1>2. bridge' \in [proc : BOOLEAN, connected : BOOLEAN, bps : SUBSET Lines]
  BY DEF BridgeStep
<1>3. PICK l \in {"none", "up", "killed", "dead", "reaped"} : adapter' = [adapter EXCEPT !.life = l]
  BY DEF ProcessStep
<1>4. adapter \in Processes
  BY DEF TypeOK, Processes
<1>5. adapter' \in Processes /\ adapter'.client = adapter.client
      /\ adapter'.frame = adapter.frame /\ adapter'.calls = adapter.calls
  BY <1>3, <1>4 DEF Processes
<1>6. outbox' \in Seq([id : Requests, ok : BOOLEAN])
  <2>1. outbox' = outbox \/ (outbox # <<>> /\ outbox' = Tail(outbox))
    BY DEF ChannelStep, Starts, Pops
  <2> DEFINE A == [id : Requests, ok : BOOLEAN]
  <2>2. outbox \in Seq(A)
    BY DEF TypeOK
  <2> HIDE DEF A
  <2>3. outbox' \in Seq(A)
    BY <2>1, <2>2
  <2>4. QED
    BY <2>3 DEF A
<1>7. inbox' \in Seq(Frames)
  <2>1. CASE inbox' = inbox
    BY <2>1 DEF TypeOK
  <2>2. CASE inbox' # inbox
    <3>1. PICK L \in SUBSET Lines :
            t.at \notin Settled /\ inbox' = Append(inbox, [id |-> i, cmd |-> FrameOf(t), lines |-> L])
      BY <2>2 DEF ChannelStep, Goes
    <3> DEFINE f == [id |-> i, cmd |-> FrameOf(t), lines |-> L]
    <3>2. FrameOf(t) \in FrameCmds
      BY <3>1 DEF ChannelStep, FrameOf, FrameCmds, Tasks, Ats, Settled, Idle
    <3>3. f \in Frames /\ inbox' = Append(inbox, f)
      BY <3>1, <3>2 DEF Frames
    <3> HIDE DEF f
    <3>4. QED
      BY <3>3 DEF TypeOK
  <2>3. QED
    BY <2>1, <2>2
<1>8. QED
  BY <1>1, <1>2, <1>5, <1>6, <1>7 DEF TypeOK, ProcessStep

-----------------------------------------------------------------------------
(* A pipe, read at its head and written at its end. *)
LEMMA Popping ==
  ASSUME NEW S, NEW q \in Seq(S), q # <<>>
  PROVE  /\ Tail(q) \in Seq(S) /\ Len(q) \in Nat \ {0} /\ Len(Tail(q)) = Len(q) - 1
         /\ Head(q) = q[1] /\ 1 \in 1 .. Len(q) /\ Head(q) \in S
         /\ \A k \in 1 .. Len(Tail(q)) : k + 1 \in 1 .. Len(q) /\ Tail(q)[k] = q[k + 1]
         /\ \A k \in 1 .. Len(q) : k # 1 => k - 1 \in 1 .. Len(Tail(q)) /\ Tail(q)[k - 1] = q[k]
  OBVIOUS

(* What Append returns, index by index.                                    *)
LEMMA Appending ==
  ASSUME NEW S, NEW q \in Seq(S), NEW e \in S
  PROVE  /\ Append(q, e) \in Seq(S) /\ Len(q) \in Nat /\ Len(Append(q, e)) = Len(q) + 1
         /\ \A k \in 1 .. Len(q) : k \in 1 .. Len(Append(q, e)) /\ Append(q, e)[k] = q[k]
         /\ Append(q, e)[Len(q) + 1] = e /\ Len(q) + 1 \in 1 .. Len(Append(q, e))
         /\ \A k \in 1 .. Len(Append(q, e)) : k \in 1 .. Len(q) \/ k = Len(q) + 1
  OBVIOUS

(* Where the request of a frame is. *)
LEMMA OwnerAt ==
  ASSUME TypeOK, TaskInv, NEW f \in Frames, Owned(f)
  PROVE  /\ f.id \in Requests /\ task[f.id].at \notin Settled \union {Idle}
         /\ f.cmd = "attach" => f.id = 1 /\ task[1].at = "attach"
         /\ f.cmd = "initialize" => task[f.id].at = "initialize"
         /\ f.cmd = "disconnect" => task[f.id].at \in EndAt
         /\ f.cmd = "setBreakpoints" => /\ task[f.id].cmd = "setBreakpoints"
                                        /\ task[f.id].at \in {"remove", "add"}
         /\ f.cmd \notin {"disconnect", "setBreakpoints"} => task[f.id].at = f.cmd
<1>1. f.id \in Requests /\ TaskOK(f.id, task[f.id]) /\ task[f.id] \in Tasks
  BY DEF Frames, TypeOK, TaskInv
<1>2. task[f.id].at \notin Settled \union {Idle} /\ f.cmd = FrameOf(task[f.id])
  BY DEF Owned, Waiting, Settled
<1>3. task[f.id].at \in At(task[f.id].cmd) /\ task[f.id].cmd \in Cmds \ {Idle}
  BY <1>1, <1>2 DEF TaskOK, Tasks
<1>4. task[f.id].at \in {"initialize", "attach"} => f.id = 1
  BY <1>1, <1>3 DEF At, TaskOK, Cmds
<1>5. task[f.id].at # "setBreakpoints"
  BY <1>1, <1>3 DEF At, TaskOK, Cmds
<1>6. task[f.id].at \in {"remove", "add"} => task[f.id].cmd = "setBreakpoints"
  BY <1>1, <1>3 DEF At, TaskOK, Cmds
<1>7. QED
  BY <1>1, <1>2, <1>4, <1>5, <1>6 DEF FrameOf, EndAt

(* Whoever waits for an answer to attach is the launch. *)
LEMMA LaunchAt ==
  ASSUME TypeOK, TaskInv, NEW i \in Requests, task[i].at \in {"initialize", "attach"}
  PROVE  i = 1
<1>1. TaskOK(i, task[i]) /\ task[i] \in Tasks
  BY DEF TypeOK, TaskInv
<1>2. task[i].at \in At(task[i].cmd) /\ task[i].cmd \in Cmds
  BY <1>1 DEF TaskOK, Tasks, Settled
<1>3. QED
  BY <1>1, <1>2 DEF At, TaskOK, Cmds, Idle

(* The step of request i as the frames under way see it: none of them is   *)
(* of i, but the answer it takes from the outbox (then d = 1).             *)
View(i, t, d) ==
  /\ d = IF task[i].at = Idle THEN 0 ELSE 1
  /\ d = 0 => Starts(i) /\ ~Pops(i) /\ ~Told(i)
  /\ d = 1 => Pops(i) /\ 1 \in 1 .. Len(outbox) /\ outbox[1] = Head(outbox) /\ outbox[1].id = i
  /\ Len(outbox') \in Nat /\ Len(outbox') = Len(outbox) - d
  /\ \A k \in 1 .. Len(outbox') :
       /\ k + d \in 1 .. Len(outbox) /\ outbox'[k] = outbox[k + d]
       /\ outbox[k + d].id \in Requests \ {i}
       /\ task'[outbox'[k].id] = task[outbox[k + d].id]
  /\ \A k \in 1 .. Len(outbox) : k > d => k - d \in 1 .. Len(outbox')
  /\ \A k \in 1 .. Len(inbox) :
       /\ k \in 1 .. Len(inbox') /\ inbox'[k] = inbox[k]
       /\ inbox[k].id \in Requests \ {i}
       /\ task'[inbox[k].id] = task[inbox[k].id]
  /\ adapter.frame.id # i
  /\ adapter.frame # NoFrame => task'[adapter.frame.id] = task[adapter.frame.id]
  /\ Len(inbox) \in Nat
  /\ \/ inbox' = inbox /\ t.at \in Settled
     \/ \E L \in SUBSET Lines :
          /\ Len(inbox') = Len(inbox) + 1 /\ t.at \notin Settled /\ bridge'.proc
          /\ inbox'[Len(inbox) + 1] = [id |-> i, cmd |-> FrameOf(t), lines |-> L]
          /\ FrameOf(t) = "setBreakpoints" => L = bridge'.bps

(* A step of the channel seen from the outbox: it keeps every answer but   *)
(* the first, at most, and shifts the others by one.                       *)
LEMMA ChannelView ==
  ASSUME TypeOK, TaskInv, PipeInv, NEW i \in Requests, NEW t \in Tasks, ChannelStep(i, t),
         BridgeStep(i, t), ProcessStep(t), UNCHANGED controller
  PROVE  View(i, t, IF task[i].at = Idle THEN 0 ELSE 1)
<1> DEFINE d == IF task[i].at = Idle THEN 0 ELSE 1
           A == [id : Requests, ok : BOOLEAN]
<1>1. /\ task' \in [Requests -> Tasks] /\ task'[i] = t
      /\ \A j \in Requests : j # i => task'[j] = task[j]
      /\ inbox \in Seq(Frames) /\ outbox \in Seq(A)
  <2>1. /\ task' \in [Requests -> Tasks] /\ task'[i] = t
        /\ \A j \in Requests : j # i => task'[j] = task[j]
    BY Zenon, ChannelDoes
  <2>2. inbox \in Seq(Frames) /\ outbox \in Seq(A)
    BY DEF TypeOK
  <2> QED
    BY Zenon, <2>1, <2>2
<1> HIDE DEF A
<1>2. Starts(i) \/ Pops(i)
  BY DEF ChannelStep
<1>3. d = 0 => Starts(i) /\ ~Pops(i) /\ ~Told(i) /\ outbox' = outbox
  BY <1>2 DEF Waiting, Pops, Told, Starts
<1>4. d = 1 => Pops(i) /\ outbox # <<>> /\ outbox' = Tail(outbox) /\ Head(outbox).id = i
  BY <1>2 DEF Pops, Starts
<1>5. d \in {0, 1}
  OBVIOUS
<1>6. d = 0 => ~Waiting(i)
  BY DEF Waiting
<1> HIDE DEF d
<1>7. Len(inbox) \in Nat /\ Len(outbox) \in Nat
  BY <1>1
<1>8. d = 1 => /\ Len(outbox') = Len(outbox) - 1 /\ 1 \in 1 .. Len(outbox) /\ outbox[1] = Head(outbox)
               /\ \A k \in 1 .. Len(outbox') : k + 1 \in 1 .. Len(outbox) /\ outbox'[k] = outbox[k + 1]
  <2> SUFFICES ASSUME d = 1
               PROVE  /\ Len(outbox') = Len(outbox) - 1 /\ 1 \in 1 .. Len(outbox)
                      /\ outbox[1] = Head(outbox)
                      /\ \A k \in 1 .. Len(outbox') :
                           k + 1 \in 1 .. Len(outbox) /\ outbox'[k] = outbox[k + 1]
    OBVIOUS
  <2>1. outbox # <<>> /\ outbox' = Tail(outbox) /\ outbox \in Seq(A)
    BY <1>1, <1>4
  <2>2. /\ Len(Tail(outbox)) = Len(outbox) - 1 /\ 1 \in 1 .. Len(outbox)
        /\ Head(outbox) = outbox[1]
        /\ \A k \in 1 .. Len(Tail(outbox)) :
             k + 1 \in 1 .. Len(outbox) /\ Tail(outbox)[k] = outbox[k + 1]
    BY ONLY <2>1, Popping
  <2>3. QED
    BY ONLY <2>1, <2>2
<1>9. /\ \A k \in 1 .. Len(inbox) : inbox[k].id \in Requests
      /\ \A k \in 1 .. Len(outbox) : outbox[k].id \in Requests
  <2>1. /\ \A k \in 1 .. Len(inbox) : inbox[k] \in Frames
        /\ \A k \in 1 .. Len(outbox) : outbox[k] \in A
    BY <1>1
  <2>2. QED
    BY <2>1 DEF Frames, A
<1>10. \A k \in 1 .. Len(outbox) : k > d => outbox[k].id # i
  BY <1>4, <1>5, <1>6, <1>7, <1>8 DEF PipeInv
<1>11. \A k \in 1 .. Len(inbox) : inbox[k].id # i
  BY <1>4, <1>5, <1>6, <1>8 DEF PipeInv, Owned
<1>12. adapter.frame.id # i
  BY <1>4, <1>5, <1>6, <1>8, NoFrameFacts DEF PipeInv, Owned
<1>13. adapter.frame # NoFrame => adapter.frame.id \in Requests
  BY DEF TypeOK, Frames
<1>14. /\ Len(outbox') \in Nat /\ Len(outbox') = Len(outbox) - d
       /\ \A k \in 1 .. Len(outbox') : k + d \in 1 .. Len(outbox) /\ outbox'[k] = outbox[k + d]
  BY <1>3, <1>5, <1>7, <1>8
<1>15. \A k \in 1 .. Len(outbox) : k > d => k - d \in 1 .. Len(outbox')
  BY <1>5, <1>7, <1>14
<1>16. \A k \in 1 .. Len(outbox') :
         /\ k + d > d /\ outbox[k + d].id \in Requests \ {i}
         /\ task'[outbox'[k].id] = task[outbox[k + d].id]
  BY <1>1, <1>5, <1>7, <1>9, <1>10, <1>14
<1>17. \/ inbox' = inbox /\ t.at \in Settled
       \/ \E L \in SUBSET Lines :
            /\ Len(inbox') = Len(inbox) + 1 /\ t.at \notin Settled /\ bridge'.proc
            /\ inbox'[Len(inbox) + 1] = [id |-> i, cmd |-> FrameOf(t), lines |-> L]
            /\ FrameOf(t) = "setBreakpoints" => L = bridge'.bps
            /\ \A k \in 1 .. Len(inbox) : inbox'[k] = inbox[k]
  <2>1. CASE t.at \in Settled /\ inbox' = inbox
    BY <2>1
  <2>2. CASE ~(t.at \in Settled /\ inbox' = inbox)
    <3>1. PICK L \in SUBSET Lines :
            /\ inbox' = Append(inbox, [id |-> i, cmd |-> FrameOf(t), lines |-> L])
            /\ FrameOf(t) = "setBreakpoints" => L = bridge'.bps
            /\ t.at \notin Settled /\ bridge'.proc
      BY <2>2 DEF ChannelStep, Goes
    <3> DEFINE f == [id |-> i, cmd |-> FrameOf(t), lines |-> L]
    <3>2. FrameOf(t) \in FrameCmds
      BY <3>1 DEF ChannelStep, FrameOf, FrameCmds, Tasks, Ats, Settled, Idle
    <3>3. f \in Frames /\ inbox' = Append(inbox, f)
      BY <3>1, <3>2 DEF Frames
    <3> HIDE DEF f
    <3>4. Len(inbox') = Len(inbox) + 1 /\ inbox'[Len(inbox) + 1] = f
          /\ \A k \in 1 .. Len(inbox) : inbox'[k] = inbox[k]
      BY <1>1, <3>3, Appending
    <3>5. QED
      BY <3>1, <3>4 DEF f
  <2>3. QED
    BY <2>1, <2>2
<1>18. \A k \in 1 .. Len(inbox) :
         /\ k \in 1 .. Len(inbox') /\ inbox'[k] = inbox[k]
         /\ inbox[k].id \in Requests \ {i}
         /\ task'[inbox[k].id] = task[inbox[k].id]
  <2> SUFFICES ASSUME NEW k \in 1 .. Len(inbox)
               PROVE  /\ k \in 1 .. Len(inbox') /\ inbox'[k] = inbox[k]
                      /\ inbox[k].id \in Requests \ {i}
                      /\ task'[inbox[k].id] = task[inbox[k].id]
    OBVIOUS
  <2>1. k \in 1 .. Len(inbox') /\ inbox'[k] = inbox[k]
    <3>1. inbox' = inbox \/ (Len(inbox') = Len(inbox) + 1 /\ inbox'[k] = inbox[k])
      BY <1>17, Zenon
    <3>2. QED
      BY ONLY <1>7, <3>1, k \in 1 .. Len(inbox)
  <2>2. inbox[k].id \in Requests \ {i}
    BY <1>9, <1>11
  <2>3. QED
    BY <1>1, <2>1, <2>2
<1>19. adapter.frame # NoFrame => task'[adapter.frame.id] = task[adapter.frame.id]
  BY <1>1, <1>12, <1>13
<1>20. View(i, t, d)
  BY <1>3, <1>4, <1>7, <1>8, <1>12, <1>14, <1>15, <1>16, <1>17, <1>18, <1>19 DEF View, d
<1>21. QED
  BY <1>20 DEF d

(* All the pipes hold belongs to requests that wait. *)
LEMMA PipeOwners ==
  ASSUME TypeOK, PipeInv
  PROVE  /\ \A k \in 1 .. Len(inbox) : inbox[k] \in Frames /\ Owned(inbox[k])
         /\ adapter.frame # NoFrame => adapter.frame \in Frames /\ Owned(adapter.frame)
         /\ \A k \in 1 .. Len(outbox) :
              outbox[k].id \in Requests /\ outbox[k].ok \in BOOLEAN /\ Waiting(outbox[k].id)
<1>1. inbox \in Seq(Frames) /\ outbox \in Seq([id : Requests, ok : BOOLEAN])
      /\ adapter.frame \in Frames \union {NoFrame}
  BY DEF TypeOK
<1>2. \A k \in 1 .. Len(inbox) : inbox[k] \in Frames
  BY <1>1
<1>3. \A k \in 1 .. Len(outbox) : outbox[k].id \in Requests /\ outbox[k].ok \in BOOLEAN
  <2> DEFINE A == [id : Requests, ok : BOOLEAN]
  <2>1. outbox \in Seq(A) /\ \A a \in A : a.id \in Requests /\ a.ok \in BOOLEAN
    BY <1>1
  <2> HIDE DEF A
  <2>2. QED
    BY <2>1
<1>4. QED
  BY <1>1, <1>2, <1>3 DEF PipeInv

(* A step of the channel, with what it leaves alone. *)
Moves(i, t) == /\ ChannelStep(i, t) /\ BridgeStep(i, t) /\ ProcessStep(t)
               /\ UNCHANGED controller

(* What the steps of the channel have in common, for the parts of the      *)
(* invariant to use.                                                       *)
LEMMA ChannelFacts ==
  ASSUME TypeOK, TaskInv, PipeInv, NEW i \in Requests, NEW t \in Tasks, Moves(i, t)
  PROVE  /\ View(i, t, IF task[i].at = Idle THEN 0 ELSE 1)
         /\ task' \in [Requests -> Tasks] /\ task'[i] = t
         /\ \A j \in Requests : j # i => task'[j] = task[j]
         /\ (Up => Up') /\ (Up' => Up \/ t.at = "initialize")
         /\ adapter'.client = adapter.client /\ adapter'.frame = adapter.frame
         /\ adapter'.calls = adapter.calls
         /\ UNCHANGED <<wire, late, engine>> /\ Paused' = Paused /\ Bps' = Bps
         /\ TaskOK(i, t) /\ t.at # Idle
         /\ t.at = "initialize" => task[i].at = Idle
         /\ t.at = "attach" => task[i].at = "initialize"
         /\ t.at \in EndAt => bridge.connected
         /\ t.at = "released" => task[i].at \in EndAt /\ Pops(i)
         /\ \/ t.verified \subseteq task[i].verified
            \/ Pops(i) /\ Head(outbox).ok /\ task[i].at = "add"
<1>1. View(i, t, IF task[i].at = Idle THEN 0 ELSE 1)
  BY ChannelView DEF Moves
<1>2. /\ task' \in [Requests -> Tasks] /\ task'[i] = t
      /\ \A j \in Requests : j # i => task'[j] = task[j]
      /\ (Up => Up') /\ (Up' => Up \/ t.at = "initialize")
      /\ adapter'.client = adapter.client /\ adapter'.frame = adapter.frame
      /\ adapter'.calls = adapter.calls
      /\ UNCHANGED <<wire, late, engine>>
  BY ChannelDoes DEF Moves
<1>3. Paused' = Paused /\ Bps' = Bps
  BY <1>2 DEF Paused, Bps
<1>4. /\ TaskOK(i, t) /\ t.at # Idle /\ (Starts(i) \/ Pops(i))
      /\ t.at = "initialize" => task[i].at = Idle
      /\ t.at = "attach" => task[i].at = "initialize"
      /\ t.at \in EndAt => bridge.connected
      /\ t.at = "released" => task[i].at \in EndAt
      /\ \/ t.verified \subseteq task[i].verified
         \/ Pops(i) /\ Head(outbox).ok /\ task[i].at = "add"
  BY DEF Moves, ChannelStep
<1>5. task[i].at \in EndAt => Pops(i)
  BY <1>4 DEF Starts, EndAt, Idle
<1>6. QED
  BY <1>1, <1>2, <1>3, <1>4, <1>5

(* The channel keeps the types, the positions of the requests and the      *)
(* process.                                                                *)
LEMMA ChannelType ==
  ASSUME TypeOK, TaskInv, LifeInv, PipeInv, NEW i \in Requests, NEW t \in Tasks, Moves(i, t)
  PROVE  TypeOK' /\ TaskInv' /\ LifeInv'
<1>1. /\ task' \in [Requests -> Tasks] /\ task'[i] = t
      /\ \A j \in Requests : j # i => task'[j] = task[j]
      /\ bridge' \in [proc : BOOLEAN, connected : BOOLEAN, bps : SUBSET Lines]
      /\ adapter' \in Processes /\ (Up => Up') /\ (Up' => Up \/ t.at = "initialize")
      /\ adapter'.client = adapter.client /\ adapter'.frame = adapter.frame
      /\ adapter'.calls = adapter.calls
      /\ inbox' \in Seq(Frames) /\ outbox' \in Seq([id : Requests, ok : BOOLEAN])
      /\ UNCHANGED <<wire, late, engine>>
  BY ChannelDoes DEF Moves
<1>2. TypeOK'
  BY <1>1 DEF TypeOK, Processes
<1>3. TaskOK(i, t) /\ t.at # Idle
  BY DEF Moves, ChannelStep
<1>4. i # 1 => task[1].at # Idle
  BY DEF Moves, ChannelStep, Starts, Pops, Waiting, TaskInv
<1>5. TaskInv'
  <2>1. ASSUME NEW j \in Requests PROVE TaskOK(j, task'[j])
    BY <1>1, <1>3 DEF TaskInv
  <2>2. ASSUME NEW j \in Requests, task'[j].at # Idle PROVE task'[1].at # Idle
    <3>1. 1 \in Requests
      BY DebugAssumption DEF Requests
    <3>2. QED
      BY <1>1, <1>3, <1>4, <2>2, <3>1 DEF TaskInv
  <2>3. QED
    BY <2>1, <2>2 DEF TaskInv, TaskOK
<1>6. LifeInv'
  BY <1>1 DEF LifeInv
<1>7. QED
  BY <1>2, <1>5, <1>6

(* The channel keeps one frame per waiting request: a frame is sent for a  *)
(* request that had none or has just taken its answer.                     *)
LEMMA ChannelPipe ==
  ASSUME TypeOK, TaskInv, LifeInv, PipeInv, NEW i \in Requests, NEW t \in Tasks, Moves(i, t)
  PROVE  PipeInv'
<1> DEFINE d == IF task[i].at = Idle THEN 0 ELSE 1
<1>1. View(i, t, d) /\ task'[i] = t /\ t.at # Idle /\ adapter'.frame = adapter.frame
  BY ChannelFacts
<1>2. d \in {0, 1}
  OBVIOUS
<1> HIDE DEF d
<1>3. /\ Len(outbox') \in Nat /\ Len(outbox') = Len(outbox) - d /\ Len(inbox) \in Nat
      /\ \A k \in 1 .. Len(outbox') :
           /\ k + d \in 1 .. Len(outbox) /\ outbox'[k] = outbox[k + d]
           /\ outbox[k + d].id \in Requests \ {i}
           /\ task'[outbox'[k].id] = task[outbox[k + d].id]
      /\ \A k \in 1 .. Len(inbox) :
           /\ inbox'[k] = inbox[k] /\ inbox[k].id \in Requests \ {i}
           /\ task'[inbox[k].id] = task[inbox[k].id]
      /\ adapter.frame.id # i
      /\ adapter.frame # NoFrame => task'[adapter.frame.id] = task[adapter.frame.id]
  BY <1>1 DEF View
<1>4. /\ \A k \in 1 .. Len(outbox') : Waiting(outbox[k].id)' /\ outbox'[k].id # i
      /\ \A j, k \in 1 .. Len(outbox') : outbox'[j].id = outbox'[k].id => j = k
      /\ \A j \in 1 .. Len(inbox), k \in 1 .. Len(outbox') : inbox[j].id # outbox'[k].id
      /\ \A j \in 1 .. Len(outbox') : outbox'[j].id # adapter.frame.id
  <2>1. \A k \in 1 .. Len(outbox') : Waiting(outbox[k].id)' /\ outbox'[k].id # i
    BY <1>3 DEF PipeInv, Waiting
  <2>2. ASSUME NEW j \in 1 .. Len(outbox'), NEW k \in 1 .. Len(outbox'), outbox'[j].id = outbox'[k].id
        PROVE  j = k
    <3>1. j + d \in 1 .. Len(outbox) /\ k + d \in 1 .. Len(outbox)
          /\ outbox[j + d].id = outbox[k + d].id
      BY <1>3, <2>2
    <3>2. j + d = k + d
      BY <3>1 DEF PipeInv
    <3>3. QED
      BY <1>2, <1>3, <3>2
  <2>3. \A j \in 1 .. Len(inbox), k \in 1 .. Len(outbox') : inbox[j].id # outbox'[k].id
    BY <1>3 DEF PipeInv
  <2>4. \A j \in 1 .. Len(outbox') : outbox'[j].id # adapter.frame.id
    BY <1>3 DEF PipeInv
  <2>5. QED
    BY <2>1, <2>2, <2>3, <2>4
<1>5. ASSUME NEW k \in 1 .. Len(inbox)
      PROVE  Owned(inbox[k])' /\ inbox'[k] = inbox[k] /\ inbox[k].id # i
  BY <1>3 DEF PipeInv, Owned, Waiting
<1>6. adapter'.frame # NoFrame => Owned(adapter.frame)'
  BY <1>1, <1>3 DEF PipeInv, Owned, Waiting
<1>7. CASE inbox' = inbox
  <2>1. ASSUME NEW k \in 1 .. Len(inbox') PROVE Owned(inbox[k])'
    BY <1>5, <1>7
  <2>2. /\ \A j, k \in 1 .. Len(inbox') : inbox'[j].id = inbox'[k].id => j = k
        /\ \A j \in 1 .. Len(inbox') : inbox'[j].id # adapter'.frame.id
    BY <1>1, <1>7 DEF PipeInv
  <2>3. \A j \in 1 .. Len(inbox'), k \in 1 .. Len(outbox') : inbox'[j].id # outbox'[k].id
    BY <1>4, <1>7
  <2>4. QED
    BY <1>1, <1>4, <1>6, <2>1, <2>2, <2>3 DEF PipeInv
<1>8. CASE inbox' # inbox
  <2>1. PICK L \in SUBSET Lines :
          /\ Len(inbox') = Len(inbox) + 1 /\ t.at \notin Settled
          /\ inbox'[Len(inbox) + 1] = [id |-> i, cmd |-> FrameOf(t), lines |-> L]
    BY <1>1, <1>8 DEF View
  <2> DEFINE n == Len(inbox) + 1
  <2>2. /\ inbox'[n].id = i /\ inbox'[n].cmd = FrameOf(t) /\ n \in 1 .. Len(inbox')
        /\ \A k \in 1 .. Len(inbox') : k = n \/ k \in 1 .. Len(inbox)
    BY <1>3, <2>1
  <2> HIDE DEF n
  <2>3. Waiting(i)'
    BY <1>1, <2>1 DEF Waiting, Settled
  <2>4. ASSUME NEW k \in 1 .. Len(inbox') PROVE Owned(inbox[k])'
    <3>1. CASE k = n
      BY <1>1, <2>2, <2>3, <3>1 DEF Owned
    <3>2. CASE k \in 1 .. Len(inbox)
      BY <1>5, <3>2 DEF Owned
    <3>3. QED
      BY <2>2, <3>1, <3>2
  <2>5. \A j, k \in 1 .. Len(inbox') : inbox'[j].id = inbox'[k].id => j = k
    BY <1>5, <2>2 DEF PipeInv
  <2>6. \A j \in 1 .. Len(inbox'), k \in 1 .. Len(outbox') : inbox'[j].id # outbox'[k].id
    BY <1>4, <1>5, <2>2
  <2>7. \A j \in 1 .. Len(inbox') : inbox'[j].id # adapter'.frame.id
    BY <1>1, <1>3, <1>5, <2>2 DEF PipeInv
  <2>8. QED
    BY <1>1, <1>4, <1>6, <2>4, <2>5, <2>6, <2>7 DEF PipeInv
<1>9. QED
  BY <1>7, <1>8

(* The channel keeps disconnect behind attach: only a connected bridge     *)
(* sends it, and the answer to attach connects it.                         *)
LEMMA ChannelAttach ==
  ASSUME TypeOK, TaskInv, PipeInv, AttachInv, NEW i \in Requests, NEW t \in Tasks, Moves(i, t)
  PROVE  AttachInv' /\ (Attached => Attached')
<1>1. /\ task'[i] = t /\ \A j \in Requests : j # i => task'[j] = task[j]
      /\ t.at # Idle
      /\ t.at = "initialize" => task[i].at = Idle
      /\ t.at = "attach" => task[i].at = "initialize"
      /\ t.at \in EndAt => bridge.connected
      /\ t.at = "released" => task[i].at \in EndAt
  BY ChannelFacts
<1>2. 1 \in Requests
  BY DebugAssumption DEF Requests
<1>3. Attached => Attached'
  BY <1>1, <1>2 DEF Attached
<1>4. bridge'.connected => Attached'
  <2> SUFFICES ASSUME Pops(i), task[i].at = "attach" PROVE Attached'
    BY <1>3 DEF Moves, BridgeStep, AttachInv
  <2>1. i = 1
    BY LaunchAt
  <2>2. QED
    BY <1>1, <2>1 DEF Attached, Idle
<1>5. ASSUME NEW j \in Requests, task'[j].at \in EndAt \union {"released"} PROVE Attached
  <2>1. CASE j = i
    BY <1>1, <1>5, <2>1 DEF AttachInv
  <2>2. CASE j # i
    BY <1>1, <1>5, <2>2 DEF AttachInv
  <2>3. QED
    BY <2>1, <2>2
<1>6. QED
  BY <1>3, <1>4, <1>5 DEF AttachInv

(* What the answers under way say stays true of those the step leaves.     *)
LEMMA ChannelSays ==
  ASSUME TypeOK, TaskInv, PipeInv, NEW i \in Requests, NEW t \in Tasks, Moves(i, t), NEW d,
         d = IF task[i].at = Idle THEN 0 ELSE 1
  PROVE  /\ d \in {0, 1} /\ Len(outbox') \in Nat /\ Len(outbox') = Len(outbox) - d
         /\ \A k \in 1 .. Len(outbox') :
              /\ k + d \in 1 .. Len(outbox) /\ outbox'[k] = outbox[k + d]
              /\ task'[outbox'[k].id] = task[outbox[k + d].id]
              /\ \A at : Says(k, at)' <=> Says(k + d, at)
         /\ \A k \in 1 .. Len(outbox) : k > d => k - d \in 1 .. Len(outbox')
         /\ d = 0 => ~Pops(i) /\ ~Told(i) /\ task[i].at = Idle
         /\ d = 1 => Pops(i) /\ 1 \in 1 .. Len(outbox) /\ outbox[1] = Head(outbox) /\ outbox[1].id = i
<1>1. View(i, t, d)
  BY ChannelFacts
<1>2. \A k \in 1 .. Len(outbox') :
           /\ k + d \in 1 .. Len(outbox) /\ outbox'[k] = outbox[k + d]
           /\ task'[outbox'[k].id] = task[outbox[k + d].id]
  BY <1>1 DEF View
<1>3. ASSUME NEW k \in 1 .. Len(outbox'), NEW at PROVE Says(k, at)' <=> Says(k + d, at)
  BY <1>2 DEF Says
<1>4. d \in {0, 1} /\ (d = 0 => task[i].at = Idle)
  OBVIOUS
<1>5. QED
  BY <1>1, <1>2, <1>3, <1>4 DEF View

(* The channel keeps the adapter without a client until attach has been    *)
(* taken: attach is sent once.                                             *)
LEMMA ChannelBefore ==
  ASSUME TypeOK, TaskInv, PipeInv, BeforeInv, NEW i \in Requests, NEW t \in Tasks, Moves(i, t)
  PROVE  BeforeInv'
<1> DEFINE d == IF task[i].at = Idle THEN 0 ELSE 1
<1>1. View(i, t, d)
  BY ChannelFacts
<1>2. /\ task' \in [Requests -> Tasks] /\ task'[i] = t
      /\ \A j \in Requests : j # i => task'[j] = task[j]
      /\ t.at # Idle /\ adapter'.client = adapter.client
      /\ t.at = "initialize" => task[i].at = Idle
      /\ t.at = "attach" => task[i].at = "initialize"
      /\ \/ t.verified \subseteq task[i].verified
         \/ Pops(i) /\ Head(outbox).ok /\ task[i].at = "add"
  BY ChannelFacts
<1>3. d \in {0, 1} /\ 1 \in Requests
  BY DebugAssumption DEF Requests
<1> HIDE DEF d
<1>4. SUFFICES ASSUME NotAttached'
               PROVE  /\ ~adapter'.client
                      /\ \A k \in 1 .. Len(outbox') : outbox'[k].ok => task'[outbox'[k].id].at = "initialize"
                      /\ \A j \in Requests : task'[j].verified = {}
  BY DEF BeforeInv
<1>5. NotAttached
  <2>1. CASE task'[1].at \in {Idle, "initialize"}
    BY <1>2, <1>3, <2>1 DEF NotAttached
  <2>2. CASE \E k \in 1 .. Len(inbox') : inbox'[k].cmd = "attach"
    <3>1. PICK k \in 1 .. Len(inbox') : inbox'[k].cmd = "attach"
      BY <2>2
    <3>2. CASE k \in 1 .. Len(inbox)
      BY <1>1, <3>1, <3>2 DEF View, NotAttached
    <3>3. CASE k \notin 1 .. Len(inbox)
      <4>1. FrameOf(t) = "attach"
        <5>1. PICK L \in SUBSET Lines :
                /\ Len(inbox') = Len(inbox) + 1 /\ Len(inbox) \in Nat
                /\ inbox'[Len(inbox) + 1] = [id |-> i, cmd |-> FrameOf(t), lines |-> L]
          BY <1>1, <3>3 DEF View
        <5>2. k = Len(inbox) + 1
          BY <3>3, <5>1
        <5>3. QED
          BY <3>1, <5>1, <5>2
      <4>2. t.at = "attach"
        BY <4>1 DEF FrameOf
      <4>3. i = 1
        BY <1>2, <4>2, LaunchAt
      <4>4. QED
        BY <1>2, <4>2, <4>3 DEF NotAttached
    <3>4. QED
      BY <3>2, <3>3
  <2>3. QED
    BY <1>4, <2>1, <2>2 DEF NotAttached
<1>6. /\ ~adapter.client
      /\ \A k \in 1 .. Len(outbox) : outbox[k].ok => task[outbox[k].id].at = "initialize"
      /\ \A j \in Requests : task[j].verified = {}
  BY <1>5 DEF BeforeInv
<1>7. \A k \in 1 .. Len(outbox') : outbox'[k].ok => task'[outbox'[k].id].at = "initialize"
  BY <1>1, <1>6 DEF View
<1>8. t.verified = {}
  <2>1. ~(Pops(i) /\ Head(outbox).ok /\ task[i].at = "add")
    <3>1. Pops(i) => 1 \in 1 .. Len(outbox) /\ outbox[1] = Head(outbox) /\ outbox[1].id = i
      BY <1>1, <1>3 DEF View
    <3>2. QED
      BY <1>6, <3>1
  <2>2. QED
    BY <1>2, <1>6, <2>1
<1>9. QED
  BY <1>2, <1>6, <1>7, <1>8

(* The channel keeps the engine running after a disconnect, as it neither  *)
(* makes calls nor answers.                                                *)
LEMMA ChannelResumed ==
  ASSUME TypeOK, TaskInv, PipeInv, AttachInv, ResumedInv, NEW i \in Requests, NEW t \in Tasks,
         Moves(i, t)
  PROVE  ResumedInv'
<1>0. PICK d : d = IF task[i].at = Idle THEN 0 ELSE 1
  OBVIOUS
<1>1. /\ task'[i] = t /\ \A j \in Requests : j # i => task'[j] = task[j]
      /\ (Up' => Up \/ t.at = "initialize") /\ adapter'.client = adapter.client /\ Paused' = Paused
      /\ TaskOK(i, t)
      /\ t.at = "initialize" => task[i].at = Idle
      /\ t.at \in EndAt => bridge.connected
      /\ t.at = "released" => task[i].at \in EndAt /\ Pops(i)
  BY ChannelFacts
<1>2. /\ \A k \in 1 .. Len(outbox') :
           /\ k + d \in 1 .. Len(outbox)
           /\ task'[outbox'[k].id] = task[outbox[k + d].id]
           /\ Says(k, {"attach"})' <=> Says(k + d, {"attach"})
      /\ Pops(i) => 1 \in 1 .. Len(outbox) /\ outbox[1] = Head(outbox) /\ outbox[1].id = i
  BY <1>0, ChannelSays
<1>3. ConnectedOnce' => ConnectedOnce
  <2>1. bridge'.connected => ConnectedOnce
    <3> SUFFICES ASSUME Pops(i), Head(outbox).ok, task[i].at = "attach" PROVE ConnectedOnce
      BY DEF Moves, BridgeStep, ConnectedOnce
    <3>1. QED
      BY <1>2 DEF ConnectedOnce, Says
  <2>2. ASSUME NEW j \in Requests, task'[j].at \in EndAt \union {"released"} PROVE ConnectedOnce
    <3>1. CASE j = i
      BY <1>1, <2>2, <3>1 DEF ConnectedOnce
    <3>2. CASE j # i
      BY <1>1, <2>2, <3>2 DEF ConnectedOnce
    <3>3. QED
      BY <3>1, <3>2
  <2>3. ASSUME NEW k \in 1 .. Len(outbox'), Says(k, {"attach"})' PROVE ConnectedOnce
    BY <1>2, <2>3 DEF ConnectedOnce
  <2>4. QED
    BY <2>1, <2>2, <2>3 DEF ConnectedOnce
<1>4. Ended' => Ended
  <2>1. ASSUME NEW j \in Requests, task'[j].at = "released" PROVE Ended
    <3>1. CASE j = i
      BY <1>1, <1>2, <2>1, <3>1 DEF Ended
    <3>2. CASE j # i
      BY <1>1, <2>1, <3>2 DEF Ended
    <3>3. QED
      BY <3>1, <3>2
  <2>2. ASSUME NEW k \in 1 .. Len(outbox'), task'[outbox'[k].id].at \in EndAt PROVE Ended
    BY <1>2, <2>2 DEF Ended
  <2>3. QED
    BY <2>1, <2>2 DEF Ended
<1>5. ConnectedOnce /\ Up' => Up
  <2> SUFFICES ASSUME ConnectedOnce, t.at = "initialize" PROVE FALSE
    BY <1>1
  <2>1. i = 1 /\ task[1].at = Idle
    <3>1. t.cmd = "launch"
      BY <1>1 DEF TaskOK, At, Settled, Tasks, Cmds, Idle
    <3>2. QED
      BY <1>1, <3>1 DEF TaskOK
  <2>2. ~Attached
    BY <2>1 DEF Attached
  <2>3. PICK k \in 1 .. Len(outbox) : Says(k, {"attach"})
    BY <2>2 DEF ConnectedOnce, AttachInv
  <2>4. outbox[k].id \in Requests
    BY PipeOwners
  <2>5. outbox[k].id = 1
    BY <2>3, <2>4, LaunchAt DEF Says
  <2>6. QED
    BY <2>1, <2>3, <2>5 DEF Says, Idle
<1>6. QED
  BY <1>1, <1>3, <1>4, <1>5 DEF ResumedInv

(* The channel keeps what the user sees: taking the last answer about the  *)
(* engine tells the user what it said.                                     *)
LEMMA ChannelShown ==
  ASSUME TypeOK, TaskInv, PipeInv, ShownInv, NEW i \in Requests, NEW t \in Tasks, Moves(i, t)
  PROVE  ShownInv'
<1>0. PICK d : d = IF task[i].at = Idle THEN 0 ELSE 1
  OBVIOUS
<1>1. /\ task'[i] = t /\ \A j \in Requests : j # i => task'[j] = task[j]
      /\ adapter'.client = adapter.client /\ adapter'.frame = adapter.frame
      /\ adapter'.calls = adapter.calls /\ Paused' = Paused
  BY ChannelFacts
<1>2. /\ d \in {0, 1} /\ Len(outbox') \in Nat /\ Len(outbox') = Len(outbox) - d
      /\ \A k \in 1 .. Len(outbox') :
           /\ k + d \in 1 .. Len(outbox)
           /\ task'[outbox'[k].id] = task[outbox[k + d].id]
           /\ Says(k, Control)' <=> Says(k + d, Control)
      /\ \A k \in 1 .. Len(outbox) : k > d => k - d \in 1 .. Len(outbox')
      /\ d = 0 => ~Told(i)
      /\ d = 1 => Pops(i) /\ 1 \in 1 .. Len(outbox) /\ outbox[1] = Head(outbox) /\ outbox[1].id = i
  BY <1>0, ChannelSays
<1>3. /\ ui' = IF Told(i) THEN IF task[i].at = "continue" THEN "running" ELSE "stopped" ELSE ui
      /\ t.cmd = "launch" /\ t.at = "answered" => Told(i)
  BY DEF Moves, ChannelStep
<1>4. SUFFICES ASSUME adapter.client /\ adapter.frame.cmd # "disconnect" /\ ~Served
               PROVE  (/\ \A k \in 1 .. Len(outbox) :
                           LastSays(k) => (Paused <=> task[outbox[k].id].at # "continue")
                       /\ (\A k \in 1 .. Len(outbox) : ~Says(k, Control)) /\ Answered(1, "launch") =>
                            (Paused <=> ui = "stopped"))'
  BY <1>1 DEF ShownInv, Served
<1>5. /\ \A k \in 1 .. Len(outbox) :
           LastSays(k) => (Paused <=> task[outbox[k].id].at # "continue")
      /\ (\A k \in 1 .. Len(outbox) : ~Says(k, Control)) /\ Answered(1, "launch") =>
           (Paused <=> ui = "stopped")
  BY <1>4 DEF ShownInv
<1>6. Len(outbox) \in Nat
  BY DEF TypeOK
<1>7. ASSUME NEW k \in 1 .. Len(outbox'), LastSays(k)'
      PROVE  Paused' <=> task'[outbox'[k].id].at # "continue"
  <2>1. Says(k + d, Control) /\ k + d \in 1 .. Len(outbox)
    BY <1>2, <1>7 DEF LastSays
  <2>2. ASSUME NEW j \in k + d + 1 .. Len(outbox) PROVE ~Says(j, Control)
    <3>1. j > d /\ j - d \in k + 1 .. Len(outbox') /\ j - d \in 1 .. Len(outbox') /\ (j - d) + d = j
      BY <1>2, <1>6
    <3>2. ~(Says(j - d, Control)')
      BY <1>7, <3>1 DEF LastSays
    <3>3. QED
      BY <1>2, <3>1, <3>2
  <2>3. LastSays(k + d)
    BY <2>1, <2>2 DEF LastSays
  <2>4. QED
    BY <1>1, <1>2, <1>5, <2>1, <2>3
<1>8. ASSUME \A k \in 1 .. Len(outbox') : ~(Says(k, Control)'), Answered(1, "launch")'
      PROVE  Paused' <=> ui' = "stopped"
  <2>1. ASSUME NEW k \in 1 .. Len(outbox), k > d PROVE ~Says(k, Control)
    <3>1. k - d \in 1 .. Len(outbox') /\ (k - d) + d = k
      BY <1>2, <1>6, <2>1
    <3>2. QED
      BY <1>2, <1>8, <3>1
  <2>2. CASE Told(i)
    <3>1. d = 1 /\ 1 \in 1 .. Len(outbox) /\ outbox[1].id = i /\ outbox[1].ok
          /\ task[i].at \in {"pause", "continue", "next"}
      BY <1>2, <2>2 DEF Told
    <3>2. Says(1, Control)
      BY <3>1 DEF Says, Control
    <3>3. LastSays(1)
      BY <1>6, <2>1, <3>1, <3>2 DEF LastSays
    <3>4. Paused <=> task[i].at # "continue"
      BY <1>5, <3>1, <3>3
    <3>5. QED
      BY <1>1, <1>3, <2>2, <3>4
  <2>3. CASE ~Told(i)
    <3>1. i # 1
      BY <1>1, <1>3, <1>8, <2>3 DEF Answered
    <3>2. Answered(1, "launch")
      <4>1. 1 \in Requests
        BY DebugAssumption DEF Requests
      <4>2. QED
        BY <1>1, <1>8, <3>1, <4>1 DEF Answered
    <3>3. d = 1 => ~Says(1, Control)
      <4>1. task[i].at # "attach"
        BY <3>1, LaunchAt
      <4>2. QED
        BY <1>2, <2>3, <4>1 DEF Told, Says, Control
    <3>4. \A k \in 1 .. Len(outbox) : ~Says(k, Control)
      BY <1>2, <1>6, <2>1, <3>3
    <3>5. QED
      BY <1>1, <1>3, <1>5, <2>3, <3>2, <3>4
  <2>4. QED
    BY <2>2, <2>3
<1>9. QED
  BY <1>7, <1>8

(* A change of the mirror is sent; without a process nobody has a frame.   *)
LEMMA ChannelLists ==
  ASSUME TypeOK, TaskInv, PipeInv, NEW i \in Requests, NEW t \in Tasks, Moves(i, t), bridge'.proc
  PROVE  /\ Len(inbox) \in Nat
         /\ \A k \in 1 .. Len(inbox) :
              k \in 1 .. Len(inbox') /\ inbox'[k] = inbox[k] /\ (Sets(k)' <=> Sets(k))
         /\ \/ /\ Len(inbox') = Len(inbox) + 1 /\ inbox'[Len(inbox) + 1].cmd = "setBreakpoints"
               /\ inbox'[Len(inbox) + 1].lines = bridge'.bps
            \/ /\ \A k \in 1 .. Len(inbox') : k \in 1 .. Len(inbox) \/ ~(Sets(k)')
               /\ \/ bridge.proc /\ bridge'.bps = bridge.bps
                  \/ inbox = <<>> /\ adapter.frame = NoFrame /\ task[1].at = Idle
<1> DEFINE d == IF task[i].at = Idle THEN 0 ELSE 1
<1>1. View(i, t, d)
  BY ChannelFacts
<1> HIDE DEF d
<1>2. /\ bridge'.proc => bridge.proc \/ t.at = "initialize"
      /\ bridge'.bps # bridge.bps => ~bridge.proc \/ t.at \in {"remove", "add"}
      /\ t.at = "initialize" => task[i].at = Idle
      /\ TaskOK(i, t)
  BY DEF Moves, BridgeStep, ChannelStep
<1>3. /\ Len(inbox) \in Nat
      /\ \A k \in 1 .. Len(inbox) :
           k \in 1 .. Len(inbox') /\ inbox'[k] = inbox[k] /\ (Sets(k)' <=> Sets(k))
  BY <1>1 DEF View, Sets
<1>4. \/ inbox' = inbox /\ t.at \in Settled
      \/ /\ Len(inbox') = Len(inbox) + 1 /\ inbox'[Len(inbox) + 1].cmd = FrameOf(t)
         /\ FrameOf(t) = "setBreakpoints" => inbox'[Len(inbox) + 1].lines = bridge'.bps
  <2>1. CASE inbox' = inbox /\ t.at \in Settled
    BY <2>1
  <2>2. CASE ~(inbox' = inbox /\ t.at \in Settled)
    <3>1. PICK L \in SUBSET Lines :
            /\ Len(inbox') = Len(inbox) + 1
            /\ inbox'[Len(inbox) + 1] = [id |-> i, cmd |-> FrameOf(t), lines |-> L]
            /\ FrameOf(t) = "setBreakpoints" => L = bridge'.bps
      BY <1>1, <2>2 DEF View
    <3>2. QED
      BY <3>1
  <2>3. QED
    BY <2>1, <2>2
<1>5. CASE t.at \in {"remove", "add"}
  <2>1. FrameOf(t) = "setBreakpoints" /\ t.at \notin Settled
    BY <1>5 DEF FrameOf, Settled
  <2>2. QED
    BY <1>3, <1>4, <2>1
<1>6. CASE t.at \notin {"remove", "add"}
  <2>1. FrameOf(t) # "setBreakpoints" \/ t.at \in Settled
    BY <1>2, <1>6 DEF FrameOf, TaskOK, At, Idle
  <2>2. \A k \in 1 .. Len(inbox') : k \in 1 .. Len(inbox) \/ ~(Sets(k)')
    <3>1. CASE inbox' = inbox
      BY <3>1
    <3>2. CASE t.at \notin Settled /\ Len(inbox') = Len(inbox) + 1
               /\ inbox'[Len(inbox) + 1].cmd = FrameOf(t)
      <4>1. inbox'[Len(inbox) + 1].cmd # "setBreakpoints"
        BY <2>1, <3>2
      <4>2. \A k \in 1 .. Len(inbox') : k \in 1 .. Len(inbox) \/ k = Len(inbox) + 1
        BY <1>3, <3>2
      <4>3. QED
        BY <4>1, <4>2 DEF Sets
    <3>3. CASE t.at \in Settled /\ inbox' # inbox
      <4>1. Goes(i, t)
        BY DEF Moves, ChannelStep
      <4>2. QED
        BY <3>3, <4>1 DEF Goes
    <3>4. QED
      BY <1>4, <3>1, <3>2, <3>3
  <2>3. CASE bridge.proc
    BY <1>2, <1>3, <1>6, <2>2, <2>3
  <2>4. CASE ~bridge.proc
    <3>1. task[i].at = Idle /\ i = 1
      <4>1. t.at = "initialize" /\ t.cmd = "launch"
        BY <1>2, <2>4 DEF TaskOK, At, Settled, Tasks, Cmds, Idle
      <4>2. QED
        BY <1>2, <4>1 DEF TaskOK
    <3>2. \A j \in Requests : ~Waiting(j)
      BY <3>1 DEF TaskInv, Waiting
    <3>3. adapter.frame = NoFrame /\ \A k \in 1 .. Len(inbox) : FALSE
      BY <3>2, PipeOwners DEF Owned, Frames
    <3>4. inbox = <<>>
      BY <1>3, <3>3 DEF TypeOK
    <3>5. QED
      BY <1>3, <2>2, <3>1, <3>3, <3>4
  <2>5. QED
    BY <2>3, <2>4
<1>7. QED
  BY <1>5, <1>6

(* The channel keeps the last list under way equal to the mirror: it       *)
(* changes the mirror only where it sends it.                              *)
LEMMA ChannelMirror ==
  ASSUME TypeOK, TaskInv, PipeInv, MirrorInv, NEW i \in Requests, NEW t \in Tasks, Moves(i, t)
  PROVE  MirrorInv'
<1>1. SUFFICES ASSUME bridge'.proc
               PROVE  (/\ \A k \in 1 .. Len(inbox) :
                           Sets(k) /\ (\A j \in k + 1 .. Len(inbox) : ~Sets(j)) => inbox[k].lines = bridge.bps
                       /\ NoSets /\ adapter.frame.cmd = "setBreakpoints" => adapter.frame.lines = bridge.bps)'
  BY DEF MirrorInv
<1>2. adapter'.frame = adapter.frame
  BY ChannelFacts
<1>3. /\ Len(inbox) \in Nat
      /\ \A k \in 1 .. Len(inbox) :
           k \in 1 .. Len(inbox') /\ inbox'[k] = inbox[k] /\ (Sets(k)' <=> Sets(k))
  BY <1>1, ChannelLists
<1>4. CASE /\ Len(inbox') = Len(inbox) + 1 /\ inbox'[Len(inbox) + 1].cmd = "setBreakpoints"
           /\ inbox'[Len(inbox) + 1].lines = bridge'.bps
  <2>1. ~(NoSets')
    <3>1. Len(inbox) + 1 \in 1 .. Len(inbox')
      BY <1>3, <1>4
    <3>2. QED
      BY <1>4, <3>1 DEF NoSets, Sets
  <2>2. ASSUME NEW k \in 1 .. Len(inbox'), \A j \in k + 1 .. Len(inbox') : ~(Sets(j)')
        PROVE  inbox'[k].lines = bridge'.bps
    <3>1. k = Len(inbox) + 1
      <4>1. CASE k = Len(inbox) + 1
        BY <4>1
      <4>2. CASE k # Len(inbox) + 1
        <5>1. Len(inbox) + 1 \in k + 1 .. Len(inbox')
          BY <1>3, <1>4, <4>2
        <5>2. QED
          BY <1>4, <2>2, <5>1 DEF Sets
      <4>3. QED
        BY <4>1, <4>2
    <3>2. QED
      BY <1>4, <3>1
  <2>3. QED
    BY <2>1, <2>2
<1>5. CASE \A k \in 1 .. Len(inbox') : k \in 1 .. Len(inbox) \/ ~(Sets(k)')
  <2>1. (bridge.proc /\ bridge'.bps = bridge.bps)
        \/ (inbox = <<>> /\ adapter.frame = NoFrame) \/ (\E k \in 1 .. Len(inbox') : k \notin 1 .. Len(inbox) /\ Sets(k)')
    <3>1. Len(inbox) + 1 \notin 1 .. Len(inbox)
      BY <1>3
    <3>2. Len(inbox') = Len(inbox) + 1 => Len(inbox) + 1 \in 1 .. Len(inbox')
      BY <1>3
    <3>3. QED
      BY <1>1, <3>1, <3>2, ChannelLists DEF Sets
  <2>2. CASE bridge.proc /\ bridge'.bps = bridge.bps
    <3>1. NoSets' => NoSets
      BY <1>3 DEF NoSets
    <3>2. ASSUME NEW k \in 1 .. Len(inbox'), Sets(k)', \A j \in k + 1 .. Len(inbox') : ~(Sets(j)')
          PROVE  inbox'[k].lines = bridge'.bps
      <4>1. k \in 1 .. Len(inbox) /\ Sets(k) /\ inbox'[k] = inbox[k]
        BY <1>3, <1>5, <3>2
      <4>2. \A j \in k + 1 .. Len(inbox) : j \in 1 .. Len(inbox) /\ j \in k + 1 .. Len(inbox')
        <5>1. \A j \in k + 1 .. Len(inbox) : j \in 1 .. Len(inbox)
          BY <1>3, <4>1
        <5>2. QED
          BY <1>3, <4>1, <5>1
      <4>3. \A j \in k + 1 .. Len(inbox) : ~Sets(j)
        BY <1>3, <3>2, <4>2
      <4>4. QED
        BY <2>2, <4>1, <4>3 DEF MirrorInv
    <3>3. QED
      BY <1>2, <2>2, <3>1, <3>2 DEF MirrorInv
  <2>3. CASE inbox = <<>> /\ adapter.frame = NoFrame
    <3>1. adapter'.frame.cmd # "setBreakpoints" /\ \A k \in 1 .. Len(inbox) : FALSE
      BY <1>2, <2>3, NoFrameFacts DEF Idle
    <3>2. QED
      BY <1>5, <3>1
  <2>4. QED
    BY <1>5, <2>1, <2>2, <2>3
<1>6. QED
  BY <1>1, <1>4, <1>5, ChannelLists

(* The channel keeps the mirror installed: a changed mirror is on its way, *)
(* and a line is verified by a good answer only.                           *)
LEMMA ChannelVerified ==
  ASSUME TypeOK, TaskInv, PipeInv, BeforeInv, VerifiedInv, NEW i \in Requests, NEW t \in Tasks,
         Moves(i, t)
  PROVE  VerifiedInv'
<1>0. PICK d : d = IF task[i].at = Idle THEN 0 ELSE 1
  OBVIOUS
<1>1. SUFFICES ASSUME bridge'.proc, adapter'.client, NoSets', adapter'.frame.cmd # "setBreakpoints"
               PROVE  (bridge.bps \subseteq Bps \/ NothingVerified)'
  BY DEF VerifiedInv
<1>2. /\ task'[i] = t /\ \A j \in Requests : j # i => task'[j] = task[j]
      /\ adapter'.client = adapter.client /\ adapter'.frame = adapter.frame /\ Bps' = Bps
      /\ \/ t.verified \subseteq task[i].verified
         \/ Pops(i) /\ Head(outbox).ok /\ task[i].at = "add"
  BY ChannelFacts
<1>3. NoSets
  BY <1>1, ChannelLists DEF NoSets
<1>4. task[1].at # Idle
  BY <1>1, <1>2 DEF BeforeInv, NotAttached
<1>5. bridge.proc /\ bridge'.bps = bridge.bps
  <2>1. ~(Len(inbox') = Len(inbox) + 1 /\ inbox'[Len(inbox) + 1].cmd = "setBreakpoints")
    <3>1. Len(inbox) \in Nat
      BY DEF TypeOK
    <3>2. Len(inbox') = Len(inbox) + 1 => Len(inbox) + 1 \in 1 .. Len(inbox')
      BY <3>1
    <3>3. QED
      BY <1>1, <3>2 DEF NoSets, Sets
  <2>2. QED
    BY <1>1, <1>4, <2>1, ChannelLists
<1>6. CASE bridge.bps \subseteq Bps
  BY <1>2, <1>5, <1>6
<1>7. CASE NothingVerified
  <2>1. /\ \A k \in 1 .. Len(outbox') : k + d \in 1 .. Len(outbox) /\ (Says(k, {"add"})' <=> Says(k + d, {"add"}))
        /\ Pops(i) => 1 \in 1 .. Len(outbox) /\ outbox[1] = Head(outbox) /\ outbox[1].id = i
    BY <1>0, ChannelSays
  <2>2. t.verified = {}
    <3>1. ~(Pops(i) /\ Head(outbox).ok /\ task[i].at = "add")
      BY <1>7, <2>1 DEF NothingVerified, Says
    <3>2. QED
      BY <1>2, <1>7, <3>1 DEF NothingVerified
  <2>3. QED
    BY <1>2, <1>7, <2>1, <2>2 DEF NothingVerified
<1>8. QED
  BY <1>1, <1>2, <1>3, <1>5, <1>6, <1>7 DEF VerifiedInv

(* Every step of the editor and every delivery keeps the invariant.        *)
LEMMA ChannelKeeps ==
  ASSUME IInv, NEW i \in Requests, Ide(i) \/ Delivered(i)
  PROVE  IInv'
<1>1. PICK t \in Tasks : Moves(i, t)
  BY ChannelSteps DEF IInv, Channel, Moves
<1>2. TypeOK' /\ TaskInv' /\ LifeInv'
  BY <1>1, ChannelType DEF IInv
<1>3. PipeInv'
  BY <1>1, ChannelPipe DEF IInv
<1>4. AttachInv' /\ BeforeInv' /\ ResumedInv'
  BY <1>1, ChannelAttach, ChannelBefore, ChannelResumed DEF IInv
<1>5. ShownInv' /\ MirrorInv' /\ VerifiedInv'
  BY <1>1, ChannelShown, ChannelMirror, ChannelVerified DEF IInv
<1>6. /\ adapter'.client = adapter.client /\ adapter'.frame = adapter.frame
      /\ adapter'.calls = adapter.calls /\ Paused' = Paused /\ Bps' = Bps
  BY <1>1, ChannelFacts DEF IInv
<1>7. CallInv'
  BY <1>6 DEF IInv, CallInv
<1>8. InstallInv'
  BY <1>6 DEF IInv, InstallInv, SetsFrom
<1>9. QED
  BY <1>2, <1>3, <1>4, <1>5, <1>7, <1>8 DEF IInv

-----------------------------------------------------------------------------
(* The exit leaves nothing under way. *)
LEMMA AdapterExitsKeeps ==
  ASSUME IInv, AdapterExits
  PROVE  IInv'
<1>1. /\ task' \in [Requests -> Tasks]
      /\ \A i \in Requests :
           /\ ~Waiting(i) => task'[i] = task[i]
           /\ Waiting(i) =>
                /\ task'[i].cmd = task[i].cmd /\ task'[i].verified = task[i].verified
                /\ task'[i].at \in {"answered", "refused"}
                /\ task'[i].at = "answered" => task[i].at = "add"
      /\ bridge' \in [proc : BOOLEAN, connected : BOOLEAN, bps : SUBSET Lines]
      /\ ~bridge'.proc /\ ~bridge'.connected
      /\ adapter.life = "dead" /\ adapter' \in Processes /\ adapter'.life = "reaped"
      /\ adapter'.client = adapter.client /\ adapter'.frame = adapter.frame
      /\ adapter'.calls = adapter.calls
      /\ inbox' = <<>> /\ outbox' = <<>> /\ UNCHANGED <<ui, open, wire, late, engine>>
  BY AdapterExitsDoes DEF IInv
<1>2. ~Up /\ ~Up' /\ ~adapter'.client /\ adapter'.frame = NoFrame /\ adapter'.calls = <<>>
  BY <1>1 DEF IInv, LifeInv, Up
<1>3. ASSUME NEW i \in Requests PROVE 1 \in Requests
  BY DebugAssumption DEF Requests
<1>4. Paused' = Paused
  BY <1>1 DEF Paused
<1>5. (\A k \in 1 .. Len(inbox') : FALSE) /\ (\A k \in 1 .. Len(outbox') : FALSE)
  BY <1>1
<1>6. TypeOK'
  <2>1. inbox' \in Seq(Frames) /\ outbox' \in Seq([id : Requests, ok : BOOLEAN])
    BY <1>1
  <2>2. QED
    BY <1>1, <2>1 DEF IInv, TypeOK, Processes
<1>7. TaskInv'
  <2>1. ASSUME NEW i \in Requests PROVE TaskOK(i, task'[i]) /\ (task'[i].at # Idle <=> task[i].at # Idle)
    <3>1. CASE Waiting(i)
      <4>1. task'[i].at \in Settled /\ task'[i].at # Idle /\ task'[i].at # "add" /\ task[i].at # Idle
        BY <1>1, <3>1 DEF Settled, Idle, Waiting
      <4>2. TaskOK(i, task[i]) /\ task'[i].cmd = task[i].cmd
        BY <1>1, <3>1 DEF IInv, TaskInv
      <4>3. QED
        BY <4>1, <4>2 DEF TaskOK
    <3>2. CASE ~Waiting(i)
      BY <1>1, <3>2 DEF IInv, TaskInv
    <3>3. QED
      BY <3>1, <3>2
  <2>2. QED
    BY <1>3, <2>1 DEF IInv, TaskInv, TaskOK
<1>8. LifeInv'
  BY <1>2 DEF LifeInv
<1>9. PipeInv'
  BY <1>2, <1>5 DEF PipeInv
<1>10. ASSUME NEW i \in Requests, task'[i].at \in EndAt \union {"released"}
       PROVE  task'[i] = task[i] /\ task[i].at = "released"
  BY <1>1, <1>10 DEF EndAt, Waiting, Idle
<1>11. AttachInv'
  <2>1. ASSUME NEW i \in Requests PROVE Attached => Attached'
    BY <1>1, <1>3 DEF Attached, Idle
  <2>2. QED
    BY <1>1, <1>10, <2>1 DEF IInv, AttachInv
<1>12. BeforeInv'
  <2> SUFFICES ASSUME NotAttached', NEW i \in Requests PROVE task'[i].verified = {}
    BY <1>2, <1>5 DEF BeforeInv
  <2>1. task'[1].at \in {Idle, "initialize"}
    BY <1>5 DEF NotAttached
  <2>2. task[1].at \in {Idle, "initialize"}
    BY <1>1, <1>3, <2>1 DEF Idle
  <2>3. QED
    BY <1>1, <2>2 DEF IInv, BeforeInv, NotAttached
<1>13. ResumedInv'
  <2>1. Ended' => Ended
    BY <1>5, <1>10 DEF Ended
  <2>2. QED
    BY <1>2, <1>4, <2>1 DEF IInv, ResumedInv
<1>14. CallInv' /\ ShownInv' /\ MirrorInv' /\ InstallInv' /\ VerifiedInv'
  BY <1>1, <1>2 DEF CallInv, ShownInv, MirrorInv, InstallInv, VerifiedInv
<1>15. QED
  BY <1>6, <1>7, <1>8, <1>9, <1>11, <1>12, <1>13, <1>14 DEF IInv

(* The end of the process keeps the invariant: without a client it asks    *)
(* little of the engine.                                                   *)
LEMMA DieKeeps ==
  ASSUME IInv, NEW life, Die(life)
  PROVE  IInv'
<1>1. /\ adapter' \in Processes /\ adapter'.life = "dead"
      /\ ~adapter'.client /\ adapter'.frame = NoFrame /\ adapter'.calls = <<>>
      /\ UNCHANGED <<task, ui, open, bridge, inbox, outbox, wire, late, engine>>
  BY DieDoes DEF IInv
<1>2. ~Up' /\ Paused' = Paused /\ adapter'.frame.id = 0 /\ adapter'.frame.cmd = Idle
  BY <1>1, NoFrameFacts DEF Up, Paused
<1>3. TypeOK' /\ TaskInv' /\ LifeInv'
  BY <1>1, <1>2 DEF IInv, TypeOK, TaskInv, LifeInv, Processes
<1>4. PipeInv'
  <2>1. \A k \in 1 .. Len(inbox) : inbox[k].id # 0
    BY PipeOwners, NoFrameFacts DEF IInv, Frames
  <2>2. \A k \in 1 .. Len(outbox) : outbox[k].id # 0
    BY PipeOwners, NoFrameFacts DEF IInv
  <2>3. QED
    BY <1>1, <1>2, <2>1, <2>2 DEF IInv, PipeInv, Owned, Waiting
<1>5. AttachInv'
  BY <1>1 DEF IInv, AttachInv, Attached
<1>6. BeforeInv'
  BY <1>1 DEF IInv, BeforeInv, NotAttached
<1>7. ResumedInv'
  <2>1. Ended' => Ended
    BY <1>1 DEF Ended
  <2>2. QED
    BY <1>1, <1>2, <2>1 DEF IInv, ResumedInv
<1>8. CallInv' /\ ShownInv' /\ InstallInv' /\ VerifiedInv'
  BY <1>1 DEF CallInv, ShownInv, InstallInv, VerifiedInv
<1>9. MirrorInv'
  BY <1>1, <1>2 DEF IInv, MirrorInv, Sets, NoSets, Idle
<1>10. QED
  BY <1>3, <1>4, <1>5, <1>6, <1>7, <1>8, <1>9 DEF IInv

(* Serving the call on the wire keeps the invariant: Paused and Bps tell   *)
(* the engine once served, and do not change.                              *)
LEMMA ServeKeeps ==
  ASSUME IInv, Serve, ~expired'
  PROVE  IInv'
<1>1. /\ wire' = NoCall /\ late' \in SUBSET Lines
      /\ engine' \in [paused : BOOLEAN, bps : SUBSET Lines]
      /\ Paused' = Paused /\ Bps' = Bps
      /\ UNCHANGED <<task, ui, open, bridge, adapter, inbox, outbox>>
  BY ServeDoes DEF IInv
<1>2. TypeOK' /\ TaskInv' /\ LifeInv'
  BY <1>1 DEF IInv, TypeOK, TaskInv, LifeInv, Up
<1>3. PipeInv'
  BY <1>1 DEF IInv, PipeInv, Owned, Waiting
<1>4. AttachInv' /\ BeforeInv' /\ CallInv'
  BY <1>1 DEF IInv, AttachInv, Attached, BeforeInv, NotAttached, CallInv
<1>5. (ConnectedOnce' <=> ConnectedOnce) /\ (Ended' <=> Ended) /\ (Up' <=> Up)
  BY <1>1 DEF ConnectedOnce, Ended, Up, Says
<1>6. ResumedInv'
  BY <1>1, <1>5 DEF IInv, ResumedInv
<1>7. ASSUME NEW k PROVE (LastSays(k)' <=> LastSays(k)) /\ (Says(k, Control)' <=> Says(k, Control))
  BY <1>1 DEF LastSays, Says
<1>8. ShownInv'
  BY <1>1, <1>7 DEF IInv, ShownInv, Served, Answered
<1>9. MirrorInv' /\ InstallInv'
  BY <1>1 DEF IInv, MirrorInv, Sets, NoSets, InstallInv, SetsFrom
<1>10. VerifiedInv'
  <2>1. ASSUME NEW k PROVE Says(k, {"add"})' <=> Says(k, {"add"})
    BY <1>1 DEF Says
  <2>2. NothingVerified' <=> NothingVerified
    BY <1>1, <2>1 DEF NothingVerified
  <2>3. QED
    BY <1>1, <2>2 DEF IInv, VerifiedInv, NoSets, Sets
<1>11. QED
  BY <1>2, <1>3, <1>4, <1>6, <1>8, <1>9, <1>10 DEF IInv

-----------------------------------------------------------------------------
(* The inbox without its first frame; the adapter was free. *)
LEMMA Taken ==
  ASSUME TypeOK, PipeInv, inbox # <<>>, inbox' = Tail(inbox)
  PROVE  /\ 1 \in 1 .. Len(inbox) /\ Head(inbox) = inbox[1]
         /\ Len(inbox) \in Nat /\ Len(inbox') = Len(inbox) - 1
         /\ \A k \in 1 .. Len(inbox') :
              k + 1 \in 1 .. Len(inbox) /\ inbox'[k] = inbox[k + 1] /\ inbox[k + 1].id # inbox[1].id
         /\ \A k \in 1 .. Len(inbox) : k # 1 => k - 1 \in 1 .. Len(inbox')
         /\ Head(inbox) \in Frames /\ Owned(Head(inbox))
<1>1. inbox \in Seq(Frames)
  BY DEF TypeOK
<1>2. /\ 1 \in 1 .. Len(inbox) /\ Head(inbox) = inbox[1]
      /\ Len(inbox) \in Nat /\ Len(inbox') = Len(inbox) - 1
      /\ \A k \in 1 .. Len(inbox') : k + 1 \in 1 .. Len(inbox) /\ inbox'[k] = inbox[k + 1]
      /\ \A k \in 1 .. Len(inbox) : k # 1 => k - 1 \in 1 .. Len(inbox')
  BY <1>1, Popping
<1>3. Head(inbox) \in Frames /\ Owned(Head(inbox))
  BY <1>2, PipeOwners
<1>4. ASSUME NEW k \in 1 .. Len(inbox') PROVE inbox[k + 1].id # inbox[1].id
  <2>1. k + 1 \in 1 .. Len(inbox) /\ k + 1 # 1
    BY <1>2
  <2>2. QED
    BY <1>2, <2>1 DEF PipeInv
<1>5. QED
  BY <1>2, <1>3, <1>4

(* Taking a frame keeps the invariant: the frames keep their order from    *)
(* the inbox to the adapter.                                               *)
LEMMA TakeFrameKeeps ==
  ASSUME IInv, TakeFrame
  PROVE  IInv'
<1>0. PICK f : f = Head(inbox)
  OBVIOUS
<1>1. /\ Up /\ adapter.frame = NoFrame /\ inbox # <<>> /\ f \in Frames
      /\ adapter' \in Processes /\ adapter'.life = adapter.life /\ adapter'.frame = f
      /\ adapter'.client <=> adapter.client \/ f.cmd = "attach"
      /\ adapter'.calls = IF adapter'.client THEN CallsOf(f) ELSE <<>>
      /\ inbox' = Tail(inbox) /\ inbox' \in Seq(Frames)
      /\ UNCHANGED <<task, ui, open, bridge, outbox, wire, late, engine>>
  BY <1>0, TakeFrameDoes DEF IInv
<1>2. /\ 1 \in 1 .. Len(inbox) /\ f = inbox[1]
      /\ \A k \in 1 .. Len(inbox') :
           k + 1 \in 1 .. Len(inbox) /\ inbox'[k] = inbox[k + 1] /\ inbox[k + 1].id # inbox[1].id
      /\ \A k \in 1 .. Len(inbox) : k # 1 => k - 1 \in 1 .. Len(inbox')
      /\ Len(inbox) \in Nat /\ Len(inbox') = Len(inbox) - 1 /\ Owned(f)
  BY <1>0, <1>1, Taken DEF IInv
<1>3. /\ f.cmd = "attach" => f.id = 1 /\ task[1].at = "attach"
      /\ f.id \in Requests /\ f # NoFrame
  BY <1>1, <1>2, OwnerAt, NoFrameFacts DEF IInv
<1>4. /\ f.cmd = "initialize" => CallsOf(f) = <<>>
      /\ f.cmd # "initialize" => CallsOf(f) = <<[op |-> OpOf[f.cmd]]>> /\ CallsOf(f) # <<>>
  BY <1>1, FrameCalls
<1>5. adapter.frame.cmd \notin Control \union {"disconnect", "setBreakpoints"}
  BY <1>1, NoFrameFacts DEF Control, Idle
<1>6. Paused' = Paused /\ Bps' = Bps /\ (Up' <=> Up)
  BY <1>1 DEF Paused, Bps, Up
<1>7. f.cmd = "attach" => NotAttached
  BY <1>2 DEF NotAttached
<1>8. ASSUME NEW k, NEW at PROVE Says(k, at)' <=> Says(k, at)
  BY <1>1 DEF Says
<1>9. TypeOK' /\ TaskInv'
  BY <1>1 DEF IInv, TypeOK, TaskInv, Processes
<1>10. LifeInv'
  BY <1>1, <1>3, <1>6 DEF LifeInv
<1>11. PipeInv'
  <2>1. \A k \in 1 .. Len(inbox') : Owned(inbox[k])'
    BY <1>1, <1>2 DEF IInv, PipeInv, Owned, Waiting
  <2>2. Owned(f)'
    BY <1>1, <1>2 DEF Owned, Waiting
  <2>3. \A j, k \in 1 .. Len(inbox') : inbox'[j].id = inbox'[k].id => j = k
    <3> SUFFICES ASSUME NEW j \in 1 .. Len(inbox'), NEW k \in 1 .. Len(inbox'),
                        inbox'[j].id = inbox'[k].id
                 PROVE  j = k
      OBVIOUS
    <3>1. j + 1 \in 1 .. Len(inbox) /\ k + 1 \in 1 .. Len(inbox) /\ inbox[j + 1].id = inbox[k + 1].id
      BY <1>2
    <3>2. j + 1 = k + 1
      BY <3>1 DEF IInv, PipeInv
    <3>3. QED
      BY <1>2, <3>2
  <2>4. /\ \A j \in 1 .. Len(inbox'), k \in 1 .. Len(outbox) : inbox'[j].id # outbox[k].id
        /\ \A j \in 1 .. Len(inbox') : inbox'[j].id # f.id
        /\ \A j \in 1 .. Len(outbox) : outbox[j].id # f.id
    BY <1>2 DEF IInv, PipeInv
  <2>5. /\ \A k \in 1 .. Len(outbox) : Waiting(outbox[k].id)'
        /\ \A j, k \in 1 .. Len(outbox) : outbox[j].id = outbox[k].id => j = k
    BY <1>1 DEF IInv, PipeInv, Waiting
  <2>6. QED
    BY <1>1, <2>1, <2>2, <2>3, <2>4, <2>5 DEF PipeInv
<1>12. AttachInv'
  BY <1>1 DEF IInv, AttachInv, Attached
<1>13. BeforeInv'
  <2> SUFFICES ASSUME NotAttached'
               PROVE  ~adapter'.client /\ NotAttached
    BY <1>1 DEF IInv, BeforeInv
  <2>1. NotAttached
    BY <1>1, <1>2 DEF NotAttached
  <2>2. f.cmd # "attach"
    <3> SUFFICES ASSUME f.cmd = "attach" PROVE FALSE
      OBVIOUS
    <3>1. PICK k \in 1 .. Len(inbox') : inbox'[k].cmd = "attach"
      BY <1>1, <1>3 DEF NotAttached, Idle
    <3>2. k + 1 \in 1 .. Len(inbox) /\ inbox[k + 1].cmd = "attach" /\ inbox[k + 1].id # f.id
      BY <1>2, <3>1
    <3>3. inbox[k + 1].id = 1
      BY <3>2, PipeOwners, OwnerAt DEF IInv
    <3>4. QED
      BY <1>3, <3>2, <3>3
  <2>3. QED
    BY <1>1, <2>1, <2>2 DEF IInv, BeforeInv
<1>14. CallInv'
  <2>1. adapter'.client /\ adapter'.calls = <<>> => f.cmd = "initialize"
    BY <1>1, <1>4
  <2>2. adapter'.calls # <<>> => f.cmd # "initialize" /\ adapter'.calls = <<[op |-> OpOf[f.cmd]]>>
    BY <1>1, <1>4
  <2>3. QED
    BY <1>1, <2>1, <2>2 DEF CallInv
<1>15. ResumedInv'
  <2>1. (ConnectedOnce' <=> ConnectedOnce) /\ (Ended' <=> Ended)
    BY <1>1, <1>8 DEF ConnectedOnce, Ended
  <2>2. Ended => f.cmd # "attach"
    <3> SUFFICES ASSUME Ended, f.cmd = "attach" PROVE FALSE
      OBVIOUS
    <3>1. ~Attached
      BY <1>3 DEF Attached
    <3>2. QED
      BY <3>1, PipeOwners DEF IInv, Ended, AttachInv
  <2>3. QED
    BY <1>1, <1>6, <2>1, <2>2 DEF IInv, ResumedInv
<1>16. ASSUME f.cmd = "attach"
       PROVE  /\ \A k \in 1 .. Len(outbox) : ~Says(k, Control) /\ ~Says(k, {"add"})
              /\ ~Answered(1, "launch") /\ \A i \in Requests : task[i].verified = {}
  BY <1>3, <1>7, <1>16 DEF IInv, BeforeInv, Says, Control, Answered
<1>17. ShownInv'
  <2>1. ASSUME NEW k PROVE LastSays(k)' <=> LastSays(k)
    BY <1>1, <1>8 DEF LastSays
  <2>2. CASE adapter.client
    <3>1. /\ \A k \in 1 .. Len(outbox) :
               LastSays(k) => (Paused <=> task[outbox[k].id].at # "continue")
          /\ (\A k \in 1 .. Len(outbox) : ~Says(k, Control)) /\ Answered(1, "launch") =>
               (Paused <=> ui = "stopped")
      BY <1>5, <2>2 DEF IInv, ShownInv, Served
    <3>2. QED
      BY <1>1, <1>6, <1>8, <2>1, <3>1 DEF ShownInv, Answered
  <2>3. CASE f.cmd = "attach"
    <3>1. \A k \in 1 .. Len(outbox) : ~LastSays(k)
      BY <1>16, <2>3 DEF LastSays
    <3>2. QED
      BY <1>1, <1>16, <2>1, <2>3, <3>1 DEF ShownInv, Answered
  <2>4. QED
    BY <1>1, <2>2, <2>3 DEF ShownInv
<1>18. NoSets' /\ f.cmd # "setBreakpoints" => NoSets
  <2> SUFFICES ASSUME NoSets', f.cmd # "setBreakpoints", NEW k \in 1 .. Len(inbox) PROVE ~Sets(k)
    BY DEF NoSets
  <2>1. CASE k = 1
    BY <1>2, <2>1 DEF Sets
  <2>2. CASE k # 1
    <3>1. k - 1 \in 1 .. Len(inbox') /\ inbox'[k - 1] = inbox[(k - 1) + 1] /\ (k - 1) + 1 = k
      BY <1>2, <2>2
    <3>2. QED
      BY <3>1 DEF NoSets, Sets
  <2>3. QED
    BY <2>1, <2>2
<1>19. MirrorInv'
  <2> SUFFICES ASSUME bridge.proc
               PROVE  (/\ \A k \in 1 .. Len(inbox) :
                           Sets(k) /\ (\A j \in k + 1 .. Len(inbox) : ~Sets(j)) => inbox[k].lines = bridge.bps
                       /\ NoSets /\ adapter.frame.cmd = "setBreakpoints" => adapter.frame.lines = bridge.bps)'
    BY <1>1 DEF MirrorInv
  <2>1. \A k \in 1 .. Len(inbox) :
          Sets(k) /\ (\A j \in k + 1 .. Len(inbox) : ~Sets(j)) => inbox[k].lines = bridge.bps
    BY DEF IInv, MirrorInv
  <2>2. ASSUME NEW k \in 1 .. Len(inbox'), Sets(k)', \A j \in k + 1 .. Len(inbox') : ~(Sets(j)')
        PROVE  inbox'[k].lines = bridge.bps
    <3>1. ASSUME NEW j \in k + 1 + 1 .. Len(inbox) PROVE ~Sets(j)
      <4>1. j - 1 \in k + 1 .. Len(inbox') /\ j - 1 \in 1 .. Len(inbox') /\ (j - 1) + 1 = j
        BY <1>2
      <4>2. inbox'[j - 1] = inbox[j] /\ ~(Sets(j - 1)')
        BY <1>2, <2>2, <4>1
      <4>3. QED
        BY <4>2 DEF Sets
    <3>2. Sets(k + 1) /\ inbox'[k] = inbox[k + 1] /\ k + 1 \in 1 .. Len(inbox)
      BY <1>2, <2>2 DEF Sets
    <3>3. QED
      BY <2>1, <3>1, <3>2
  <2>3. ASSUME NoSets', f.cmd = "setBreakpoints" PROVE f.lines = bridge.bps
    <3>1. ASSUME NEW j \in 1 + 1 .. Len(inbox) PROVE ~Sets(j)
      <4>1. j - 1 \in 1 .. Len(inbox') /\ (j - 1) + 1 = j
        BY <1>2
      <4>2. inbox'[j - 1] = inbox[j] /\ ~(Sets(j - 1)')
        BY <1>2, <2>3, <4>1 DEF NoSets
      <4>3. QED
        BY <4>2 DEF Sets
    <3>2. Sets(1)
      BY <1>2, <2>3 DEF Sets
    <3>3. QED
      BY <1>2, <2>1, <3>1, <3>2
  <2>4. QED
    BY <1>1, <2>2, <2>3
<1>20. InstallInv'
  <2> SUFFICES ASSUME adapter'.client, f.cmd = "setBreakpoints" PROVE adapter'.calls = <<[op |-> "list"]>>
    BY <1>1 DEF InstallInv
  <2>1. QED
    BY <1>1, <1>4, OpsOf
<1>21. VerifiedInv'
  <2> SUFFICES ASSUME bridge.proc, adapter'.client, NoSets', f.cmd # "setBreakpoints"
               PROVE  (bridge.bps \subseteq Bps \/ NothingVerified)'
    BY <1>1 DEF VerifiedInv
  <2>1. NothingVerified' <=> NothingVerified
    BY <1>1, <1>8 DEF NothingVerified
  <2>2. CASE adapter.client
    BY <1>1, <1>5, <1>6, <1>18, <2>1, <2>2 DEF IInv, VerifiedInv
  <2>3. CASE f.cmd = "attach"
    BY <1>16, <2>1, <2>3 DEF NothingVerified
  <2>4. QED
    BY <1>1, <2>2, <2>3
<1>22. QED
  BY <1>9, <1>10, <1>11, <1>12, <1>13, <1>14, <1>15, <1>17, <1>19, <1>20, <1>21 DEF IInv

(* One more answer in the outbox. *)
LEMMA Added ==
  ASSUME TypeOK, NEW e \in [id : Requests, ok : BOOLEAN], outbox' = Append(outbox, e), task' = task,
         NEW n, n = Len(outbox) + 1
  PROVE  /\ Len(outbox) \in Nat /\ Len(outbox') = n /\ n \in 1 .. Len(outbox')
         /\ outbox' \in Seq([id : Requests, ok : BOOLEAN])
         /\ \A k \in 1 .. Len(outbox) : k \in 1 .. Len(outbox') /\ k < n /\ outbox'[k] = outbox[k]
         /\ \A k \in 1 .. Len(outbox') : k \in 1 .. Len(outbox) \/ k = n
         /\ outbox'[n] = e
         /\ \A k \in 1 .. Len(outbox) : \A at : Says(k, at)' <=> Says(k, at)
         /\ \A at : Says(n, at)' <=> e.ok /\ task[e.id].at \in at
<1> DEFINE A == [id : Requests, ok : BOOLEAN]
<1>1. outbox \in Seq(A)
  BY DEF TypeOK
<1> HIDE DEF A
<1>2. e \in A
  BY DEF A
<1>3. /\ outbox' \in Seq(A) /\ Len(outbox) \in Nat /\ Len(outbox') = n
      /\ \A k \in 1 .. Len(outbox) : k \in 1 .. Len(outbox') /\ outbox'[k] = outbox[k]
      /\ outbox'[n] = e /\ n \in 1 .. Len(outbox')
      /\ \A k \in 1 .. Len(outbox') : k \in 1 .. Len(outbox) \/ k = n
  BY <1>1, <1>2, Appending
<1>4. \A k \in 1 .. Len(outbox) : k < n
  BY <1>3
<1>5. /\ \A k \in 1 .. Len(outbox) : \A at : Says(k, at)' <=> Says(k, at)
      /\ \A at : Says(n, at)' <=> e.ok /\ task[e.id].at \in at
  BY <1>3 DEF Says
<1>6. QED
  BY <1>3, <1>4, <1>5 DEF A

(* What an answer that says nothing leaves as it was. *)
LEMMA Unsaid ==
  ASSUME TypeOK, NEW e \in [id : Requests, ok : BOOLEAN], outbox' = Append(outbox, e), task' = task,
         ~e.ok \/ task[e.id].at \notin Control
  PROVE  /\ \A k \in 1 .. Len(outbox') : LastSays(k)' =>
              k \in 1 .. Len(outbox) /\ LastSays(k) /\ outbox'[k] = outbox[k]
         /\ (\A k \in 1 .. Len(outbox') : ~(Says(k, Control)')) => \A k \in 1 .. Len(outbox) : ~Says(k, Control)
<1>0. PICK n : n = Len(outbox) + 1
  OBVIOUS
<1>1. /\ Len(outbox) \in Nat /\ Len(outbox') = n
      /\ \A k \in 1 .. Len(outbox) : k \in 1 .. Len(outbox') /\ outbox'[k] = outbox[k]
      /\ \A k \in 1 .. Len(outbox') : k \in 1 .. Len(outbox) \/ k = n
      /\ \A k \in 1 .. Len(outbox) : Says(k, Control)' <=> Says(k, Control)
      /\ ~(Says(n, Control)')
  BY <1>0, Added
<1>2. ASSUME NEW k \in 1 .. Len(outbox'), LastSays(k)'
      PROVE  k \in 1 .. Len(outbox) /\ LastSays(k) /\ outbox'[k] = outbox[k]
  <2>1. Says(k, Control)' /\ \A j \in k + 1 .. Len(outbox') : ~(Says(j, Control)')
    BY <1>2 DEF LastSays
  <2>2. k \in 1 .. Len(outbox) /\ outbox'[k] = outbox[k] /\ Says(k, Control)
    BY <1>1, <2>1
  <2>3. \A j \in k + 1 .. Len(outbox) : j \in 1 .. Len(outbox) /\ j \in k + 1 .. Len(outbox')
    BY <1>0, <1>1, <2>2
  <2>4. \A j \in k + 1 .. Len(outbox) : ~Says(j, Control)
    BY <1>1, <2>1, <2>3
  <2>5. QED
    BY <2>2, <2>4 DEF LastSays
<1>3. QED
  BY <1>1, <1>2

(* A failed attach keeps the invariant: launch will be refused, and there  *)
(* is still no client.                                                     *)
LEMMA AttachFailsKeeps ==
  ASSUME IInv, AttachFails
  PROVE  IInv'
<1>0. PICK f, e, n : f = Head(inbox) /\ e = [id |-> f.id, ok |-> FALSE] /\ n = Len(outbox) + 1
  OBVIOUS
<1>1. /\ Up /\ adapter.frame = NoFrame /\ inbox # <<>> /\ f \in Frames /\ f.cmd = "attach"
      /\ e \in [id : Requests, ok : BOOLEAN] /\ outbox' = Append(outbox, e)
      /\ inbox' = Tail(inbox) /\ inbox' \in Seq(Frames)
      /\ UNCHANGED <<task, ui, open, bridge, adapter, wire, late, engine>>
  BY <1>0, AttachFailsDoes DEF IInv
<1>2. /\ 1 \in 1 .. Len(inbox) /\ f = inbox[1]
      /\ \A k \in 1 .. Len(inbox') :
           k + 1 \in 1 .. Len(inbox) /\ inbox'[k] = inbox[k + 1] /\ inbox[k + 1].id # inbox[1].id
      /\ \A k \in 1 .. Len(inbox) : k # 1 => k - 1 \in 1 .. Len(inbox')
      /\ Len(inbox) \in Nat /\ Len(inbox') = Len(inbox) - 1 /\ Owned(f)
  BY <1>0, <1>1, Taken DEF IInv
<1>3. e.id = f.id /\ ~e.ok /\ f.id = 1 /\ task[1].at = "attach"
  BY <1>0, <1>1, <1>2, OwnerAt DEF IInv
<1>4. /\ Len(outbox) \in Nat /\ Len(outbox') = n /\ outbox'[n] = e
      /\ outbox' \in Seq([id : Requests, ok : BOOLEAN])
      /\ \A k \in 1 .. Len(outbox) : k \in 1 .. Len(outbox') /\ k < n /\ outbox'[k] = outbox[k]
      /\ \A k \in 1 .. Len(outbox') : k \in 1 .. Len(outbox) \/ k = n
      /\ \A k \in 1 .. Len(outbox) : \A at : Says(k, at)' <=> Says(k, at)
      /\ \A at : ~(Says(n, at)')
  BY <1>0, <1>1, <1>3, Added DEF IInv
<1>5. adapter.frame.cmd \notin Control \union {"disconnect", "setBreakpoints"}
  BY <1>1, NoFrameFacts DEF Control, Idle
<1>6. Paused' = Paused /\ Bps' = Bps /\ (Up' <=> Up)
  BY <1>1 DEF Paused, Bps, Up
<1>7. NotAttached
  BY <1>1, <1>2 DEF NotAttached
<1>8. TypeOK' /\ TaskInv' /\ LifeInv'
  BY <1>1, <1>4, <1>6 DEF IInv, TypeOK, TaskInv, LifeInv
<1>9. PipeInv'
  <2>1. \A k \in 1 .. Len(inbox') : Owned(inbox[k])'
    BY <1>1, <1>2 DEF IInv, PipeInv, Owned, Waiting
  <2>2. \A k \in 1 .. Len(outbox') : Waiting(outbox[k].id)'
    <3>1. Waiting(f.id)
      BY <1>2 DEF Owned
    <3>2. QED
      BY <1>1, <1>3, <1>4, <3>1 DEF IInv, PipeInv, Waiting
  <2>3. \A j, k \in 1 .. Len(inbox') : inbox'[j].id = inbox'[k].id => j = k
    <3> SUFFICES ASSUME NEW j \in 1 .. Len(inbox'), NEW k \in 1 .. Len(inbox'),
                        inbox'[j].id = inbox'[k].id
                 PROVE  j = k
      OBVIOUS
    <3>1. j + 1 \in 1 .. Len(inbox) /\ k + 1 \in 1 .. Len(inbox) /\ inbox[j + 1].id = inbox[k + 1].id
      BY <1>2
    <3>2. j + 1 = k + 1
      BY <3>1 DEF IInv, PipeInv
    <3>3. QED
      BY <1>2, <3>2
  <2>4. \A k \in 1 .. Len(outbox) : outbox[k].id # e.id
    BY <1>2, <1>3 DEF IInv, PipeInv
  <2>5. \A j, k \in 1 .. Len(outbox') : outbox'[j].id = outbox'[k].id => j = k
    BY <1>4, <2>4 DEF IInv, PipeInv
  <2>6. ASSUME NEW j \in 1 .. Len(inbox'), NEW k \in 1 .. Len(outbox') PROVE inbox'[j].id # outbox'[k].id
    <3>1. j + 1 \in 1 .. Len(inbox) /\ inbox'[j].id = inbox[j + 1].id /\ inbox[j + 1].id # f.id
      BY <1>2
    <3>2. CASE k = n
      BY <1>3, <1>4, <3>1, <3>2
    <3>3. CASE k \in 1 .. Len(outbox)
      <4>1. inbox[j + 1].id # outbox[k].id
        BY <3>1, <3>3 DEF IInv, PipeInv
      <4>2. QED
        BY <1>4, <3>1, <3>3, <4>1
    <3>4. QED
      BY <1>4, <3>2, <3>3
  <2>7. /\ \A j \in 1 .. Len(inbox') : inbox'[j].id # adapter.frame.id
        /\ \A j \in 1 .. Len(outbox') : outbox'[j].id # adapter.frame.id
    <3>1. \A j \in 1 .. Len(inbox') : inbox'[j].id # adapter.frame.id
      BY <1>2 DEF IInv, PipeInv
    <3>2. \A j \in 1 .. Len(outbox) : outbox[j].id # adapter.frame.id
      BY DEF IInv, PipeInv
    <3>3. e.id # adapter.frame.id
      BY <1>2, <1>3 DEF IInv, PipeInv
    <3>4. QED
      BY <1>4, <3>1, <3>2, <3>3
  <2>8. QED
    BY <1>1, <2>1, <2>2, <2>3, <2>5, <2>6, <2>7 DEF PipeInv
<1>10. AttachInv' /\ CallInv'
  BY <1>1, <1>6 DEF IInv, AttachInv, Attached, CallInv
<1>11. BeforeInv'
  BY <1>1, <1>3, <1>4, <1>7 DEF IInv, BeforeInv
<1>12. ResumedInv'
  <2>1. ConnectedOnce' => ConnectedOnce
    <3>1. ASSUME NEW k \in 1 .. Len(outbox'), Says(k, {"attach"})'
          PROVE  k \in 1 .. Len(outbox) /\ Says(k, {"attach"})
      BY <1>4, <3>1
    <3>2. QED
      BY <1>1, <3>1 DEF ConnectedOnce
  <2>2. Ended' => Ended
    <3>1. task[e.id].at \notin EndAt
      BY <1>3 DEF EndAt
    <3>2. QED
      BY <1>1, <1>4, <3>1 DEF Ended
  <2>3. QED
    BY <1>1, <1>6, <2>1, <2>2 DEF IInv, ResumedInv
<1>13. ~adapter.client
  BY <1>7 DEF IInv, BeforeInv
<1>14. ShownInv' /\ InstallInv' /\ VerifiedInv'
  BY <1>1, <1>13 DEF ShownInv, InstallInv, VerifiedInv
<1>15. MirrorInv'
  <2>1. ASSUME bridge.proc, NEW k \in 1 .. Len(inbox'), Sets(k)', \A j \in k + 1 .. Len(inbox') : ~(Sets(j)')
        PROVE  inbox'[k].lines = bridge.bps
    <3>1. ASSUME NEW j \in k + 1 + 1 .. Len(inbox) PROVE ~Sets(j)
      <4>1. j - 1 \in k + 1 .. Len(inbox') /\ j - 1 \in 1 .. Len(inbox') /\ (j - 1) + 1 = j
        BY <1>2
      <4>2. inbox'[j - 1] = inbox[j] /\ ~(Sets(j - 1)')
        BY <1>2, <2>1, <4>1
      <4>3. QED
        BY <4>2 DEF Sets
    <3>2. Sets(k + 1) /\ inbox'[k] = inbox[k + 1] /\ k + 1 \in 1 .. Len(inbox)
      BY <1>2, <2>1 DEF Sets
    <3>3. QED
      BY <2>1, <3>1, <3>2 DEF IInv, MirrorInv
  <2>2. QED
    BY <1>1, <1>5, <2>1 DEF MirrorInv
<1>16. QED
  BY <1>8, <1>9, <1>10, <1>11, <1>12, <1>14, <1>15 DEF IInv

(* A call keeps the invariant: the only control call of a frame has its    *)
(* effect, and each call of a list is one line.                            *)
LEMMA CallControllerKeeps ==
  ASSUME IInv, CallController, ~expired
  PROVE  IInv'
<1>1. /\ Up /\ adapter.frame \in Frames /\ adapter.calls # <<>> /\ wire.op = Idle
      /\ wire' = Head(adapter.calls) /\ wire' \in CallSet
      /\ adapter' \in Processes
      /\ adapter'.life = adapter.life /\ adapter'.frame = adapter.frame
      /\ adapter'.client = adapter.client
      /\ adapter'.calls = IF Head(adapter.calls).op = "list"
           THEN Calls("clear", late) \o Calls("set", adapter.frame.lines)
           ELSE Tail(adapter.calls)
      /\ UNCHANGED <<task, ui, open, bridge, inbox, outbox, late, engine>>
  BY CallControllerDoes DEF IInv
<1>2. adapter.client /\ adapter.frame # NoFrame /\ adapter.calls \in Seq(CallSet)
  BY <1>1, NoFrameFacts DEF IInv, LifeInv, TypeOK
<1>3. Paused = engine.paused /\ Bps = engine.bps /\ (Up' <=> Up)
  BY <1>1 DEF Paused, Bps, Idle, Up
<1>4. adapter.frame.cmd # "setBreakpoints" =>
        /\ adapter.frame.cmd \in FrameCmds \ {"initialize"}
        /\ adapter.calls = <<[op |-> OpOf[adapter.frame.cmd]]>>
  BY <1>1 DEF IInv, CallInv, Frames
<1>5. ASSUME adapter.frame.cmd # "setBreakpoints"
      PROVE  wire'.op = OpOf[adapter.frame.cmd] /\ adapter'.calls = <<>>
  <2> DEFINE c == [op |-> OpOf[adapter.frame.cmd]]
  <2>1. adapter.calls = <<c>> /\ c.op = OpOf[adapter.frame.cmd]
    BY <1>4, <1>5
  <2>2. OpOf[adapter.frame.cmd] # "list"
    BY <1>4, <1>5, OpsOf DEF FrameCmds
  <2> HIDE DEF c
  <2>3. Head(adapter.calls) = c /\ Tail(adapter.calls) = <<>>
    BY <2>1
  <2>4. QED
    BY <1>1, <2>1, <2>2, <2>3
<1>6. ASSUME adapter.frame.cmd # "setBreakpoints"
      PROVE  CallInv' /\ ShownInv' /\ InstallInv' /\ VerifiedInv'
  <2>1. /\ adapter.frame.cmd \in {"attach", "pause", "next"} => Paused'
        /\ adapter.frame.cmd \in {"continue", "disconnect"} => ~Paused'
        /\ adapter.frame.cmd \notin {"attach", "pause", "next", "continue", "disconnect"} => Paused' = Paused
        /\ Bps' = Bps
    BY <1>1, <1>3, <1>4, <1>5, <1>6, OpsOf DEF FrameCmds, Paused, Bps
  <2>2. CallInv'
    BY <1>1, <1>5, <1>6, <2>1 DEF CallInv
  <2>3. ShownInv'
    <3> SUFFICES ASSUME adapter.frame.cmd # "disconnect", ~(Served')
                 PROVE  Paused' = Paused /\ ~Served
      BY <1>1, <1>2 DEF IInv, ShownInv, LastSays, Says, Answered
    <3>1. QED
      BY <1>1, <1>5, <1>6, <2>1 DEF Served, Control
  <2>4. InstallInv'
    BY <1>1, <1>6 DEF InstallInv
  <2>5. VerifiedInv'
    BY <1>1, <2>1 DEF IInv, VerifiedInv, NoSets, Sets, NothingVerified, Says
  <2>6. QED
    BY <2>2, <2>3, <2>4, <2>5
<1>7. ASSUME adapter.frame.cmd = "setBreakpoints"
      PROVE  CallInv' /\ ShownInv' /\ InstallInv' /\ VerifiedInv'
  <2>1. wire'.op \in {"list", "clear", "set"}
    <3>1. CASE adapter.calls = <<[op |-> "list"]>>
      <4> DEFINE c == [op |-> "list"]
      <4>1. c.op = "list" /\ adapter.calls = <<c>>
        BY <3>1
      <4> HIDE DEF c
      <4>2. Head(adapter.calls) = c
        BY <4>1
      <4>3. QED
        BY <1>1, <4>1, <4>2
    <3>2. CASE SetsFrom(adapter.calls, adapter.frame.lines)
      <4>1. 1 \in 1 .. Len(adapter.calls) /\ Head(adapter.calls) = adapter.calls[1]
        BY <1>1, <1>2
      <4>2. wire' \in LineCalls
        BY <1>1, <3>2, <4>1 DEF SetsFrom
      <4>3. QED
        BY <4>2 DEF LineCalls
    <3>3. QED
      BY <1>2, <1>7, <3>1, <3>2 DEF IInv, InstallInv
  <2>2. Paused' = Paused
    BY <1>1, <1>3, <2>1 DEF Paused
  <2>3. CallInv'
    BY <1>1, <1>7 DEF CallInv
  <2>4. ShownInv'
    BY <1>1, <1>2, <1>7, <2>2 DEF IInv, ShownInv, Served, Control, LastSays, Says, Answered
  <2>5. InstallInv'
    <3>1. CASE adapter.calls = <<[op |-> "list"]>>
      <4> DEFINE c == [op |-> "list"]
                 q == Calls("clear", late) \o Calls("set", adapter.frame.lines)
      <4>1. c.op = "list" /\ adapter.calls = <<c>>
        BY <3>1
      <4> HIDE DEF c
      <4>2. Head(adapter.calls) = c
        BY <4>1
      <4>3. adapter'.calls = q
        BY <1>1, <4>1, <4>2
      <4>4. late \in SUBSET Lines /\ adapter.frame.lines \in SUBSET Lines
        BY <1>1 DEF IInv, TypeOK, Frames
      <4>5. /\ q \in Seq(LineCalls)
            /\ \A j, k \in 1 .. Len(q) : j < k /\ q[j].op = "set" => q[k].op = "set"
            /\ \A l \in adapter.frame.lines : \E k \in 1 .. Len(q) : q[k] = [op |-> "set", line |-> l]
        BY <4>4, ListCalls
      <4> HIDE DEF q
      <4>6. \A k \in 1 .. Len(q) : q[k] \in LineCalls
        BY <4>5
      <4>7. SetsFrom(adapter.calls, adapter.frame.lines)'
        BY <1>1, <4>3, <4>5, <4>6 DEF SetsFrom
      <4>8. QED
        BY <4>7 DEF InstallInv
    <3>2. CASE SetsFrom(adapter.calls, adapter.frame.lines)
      <4>0. PICK q, r : q = adapter.calls /\ r = Tail(q)
        OBVIOUS
      <4>1. /\ q \in Seq(CallSet) /\ q # <<>> /\ wire' = Head(q)
            /\ \A j, k \in 1 .. Len(q) : j < k /\ q[j].op = "set" => q[k].op = "set"
            /\ \A k \in 1 .. Len(q) : q[k] \in LineCalls
            /\ \A l \in adapter.frame.lines :
                 \/ \E k \in 1 .. Len(q) : q[k] = [op |-> "set", line |-> l]
                 \/ l \in Bps /\ \A k \in 1 .. Len(q) : q[k].op = "set"
        BY <1>1, <1>2, <3>2, <4>0 DEF SetsFrom
      <4>2. /\ 1 \in 1 .. Len(q) /\ Head(q) = q[1] /\ Len(q) \in Nat /\ Len(r) = Len(q) - 1
            /\ \A k \in 1 .. Len(r) : k + 1 \in 1 .. Len(q) /\ r[k] = q[k + 1]
            /\ \A k \in 1 .. Len(q) : k # 1 => k - 1 \in 1 .. Len(r) /\ r[k - 1] = q[k]
        BY <4>0, <4>1, Popping
      <4>3. wire' \in LineCalls /\ wire'.op # "list"
        BY <4>1, <4>2 DEF LineCalls
      <4>4. adapter'.calls = r
        BY <1>1, <4>0, <4>1, <4>3
      <4>5. wire'.op = "set" => Bps' = Bps \union {wire'.line}
        BY <1>1, <1>3 DEF Bps
      <4>6. \A j, k \in 1 .. Len(r) : j < k /\ r[j].op = "set" => r[k].op = "set"
        <5> SUFFICES ASSUME NEW j \in 1 .. Len(r), NEW k \in 1 .. Len(r), j < k, r[j].op = "set"
                     PROVE  r[k].op = "set"
          OBVIOUS
        <5>1. j + 1 \in 1 .. Len(q) /\ k + 1 \in 1 .. Len(q) /\ r[j] = q[j + 1] /\ r[k] = q[k + 1]
          BY <4>2
        <5>2. j + 1 < k + 1
          BY <4>2
        <5>3. QED
          BY <4>1, <5>1, <5>2
      <4>7. \A k \in 1 .. Len(r) : r[k] \in LineCalls
        BY <4>1, <4>2
      <4>8. q[1].op = "set" => \A k \in 1 .. Len(r) : r[k].op = "set"
        <5> SUFFICES ASSUME q[1].op = "set", NEW k \in 1 .. Len(r) PROVE r[k].op = "set"
          OBVIOUS
        <5>1. k + 1 \in 1 .. Len(q) /\ 1 < k + 1 /\ r[k] = q[k + 1]
          BY <4>2
        <5>2. QED
          BY <4>1, <4>2, <5>1
      <4>9. ASSUME NEW l \in adapter.frame.lines
            PROVE  \/ \E k \in 1 .. Len(r) : r[k] = [op |-> "set", line |-> l]
                   \/ l \in Bps' /\ \A k \in 1 .. Len(r) : r[k].op = "set"
        <5>1. CASE q[1] = [op |-> "set", line |-> l]
          <6>1. q[1].op = "set" /\ wire'.op = "set" /\ wire'.line = l
            BY <4>1, <4>2, <5>1
          <6>2. QED
            BY <4>5, <4>8, <6>1
        <5>2. CASE \E k \in 1 .. Len(q) : k # 1 /\ q[k] = [op |-> "set", line |-> l]
          BY <4>2, <5>2
        <5>3. CASE l \in Bps /\ \A k \in 1 .. Len(q) : q[k].op = "set"
          <6>1. wire'.op = "set" /\ q[1].op = "set"
            BY <4>1, <4>2, <5>3
          <6>2. QED
            BY <4>5, <4>8, <5>3, <6>1
        <5>4. QED
          BY <4>1, <5>1, <5>2, <5>3
      <4>10. SetsFrom(adapter.calls, adapter.frame.lines)'
        BY <1>1, <4>4, <4>6, <4>7, <4>9 DEF SetsFrom
      <4>11. QED
        BY <4>10 DEF InstallInv
    <3>3. QED
      BY <1>2, <1>7, <3>1, <3>2 DEF IInv, InstallInv
  <2>6. VerifiedInv'
    BY <1>1, <1>7 DEF VerifiedInv
  <2>7. QED
    BY <2>3, <2>4, <2>5, <2>6
<1>8. CallInv' /\ ShownInv' /\ InstallInv' /\ VerifiedInv'
  BY <1>6, <1>7
<1>9. TypeOK' /\ TaskInv' /\ LifeInv'
  BY <1>1, <1>2, <1>3 DEF IInv, TypeOK, TaskInv, LifeInv, Processes
<1>10. PipeInv'
  BY <1>1 DEF IInv, PipeInv, Owned, Waiting
<1>11. AttachInv' /\ BeforeInv' /\ MirrorInv'
  BY <1>1 DEF IInv, AttachInv, Attached, BeforeInv, NotAttached, MirrorInv, Sets, NoSets
<1>12. ResumedInv'
  <2>1. Ended' <=> Ended
    BY <1>1 DEF Ended
  <2>2. ~Ended
    BY <1>2 DEF IInv, ResumedInv
  <2>3. QED
    BY <1>1, <1>2, <2>1, <2>2 DEF ResumedInv
<1>13. QED
  BY <1>8, <1>9, <1>10, <1>11, <1>12 DEF IInv

(* An answer keeps the invariant: what the calls of its frame have come to *)
(* is what the answer says.                                                *)
LEMMA AnswerKeeps ==
  ASSUME IInv, Answer
  PROVE  IInv'
<1>0. PICK n, f : n = Len(outbox) + 1 /\ f = adapter.frame
  OBVIOUS
<1>1. PICK e \in [id : Requests, ok : BOOLEAN] :
        /\ Up /\ f \in Frames /\ adapter.calls = <<>>
        /\ outbox' = Append(outbox, e) /\ e.id = f.id
        /\ e.ok <=> adapter.client \/ f.cmd \in {"initialize", "disconnect"}
        /\ adapter' \in Processes
        /\ adapter'.life = adapter.life /\ adapter'.frame = NoFrame /\ adapter'.calls = <<>>
        /\ adapter'.client <=> adapter.client /\ f.cmd # "disconnect"
        /\ UNCHANGED <<task, ui, open, bridge, inbox, wire, late, engine>>
  BY <1>0, AnswerDoes DEF IInv
<1>2. /\ Len(outbox) \in Nat /\ Len(outbox') = n /\ n \in 1 .. Len(outbox') /\ outbox'[n] = e
      /\ outbox' \in Seq([id : Requests, ok : BOOLEAN])
      /\ \A k \in 1 .. Len(outbox) : k \in 1 .. Len(outbox') /\ k < n /\ outbox'[k] = outbox[k]
      /\ \A k \in 1 .. Len(outbox') : k \in 1 .. Len(outbox) \/ k = n
      /\ \A k \in 1 .. Len(outbox) : \A at : Says(k, at)' <=> Says(k, at)
      /\ \A at : Says(n, at)' <=> e.ok /\ task[e.id].at \in at
  <2>1. TypeOK /\ outbox' = Append(outbox, e) /\ task' = task
    BY <1>1 DEF IInv
  <2>2. n = Len(outbox) + 1
    BY <1>0
  <2>3. QED
    BY <2>1, <2>2, Added
<1>3. Owned(f) /\ f # NoFrame
  BY <1>0, <1>1, NoFrameFacts DEF IInv, PipeInv
<1>4. /\ f.id \in Requests
      /\ f.cmd = "attach" => f.id = 1 /\ task[1].at = "attach"
      /\ f.cmd = "initialize" => task[f.id].at = "initialize"
      /\ f.cmd = "disconnect" => task[f.id].at \in EndAt
      /\ f.cmd = "setBreakpoints" => task[f.id].at \in {"remove", "add"}
      /\ f.cmd \notin {"disconnect", "setBreakpoints"} => task[f.id].at = f.cmd
  BY <1>1, <1>3, OwnerAt DEF IInv
<1>5. Paused' = Paused /\ Bps' = Bps /\ (Up' <=> Up) /\ adapter'.frame.cmd = Idle /\ adapter'.frame.id = 0
  BY <1>1, NoFrameFacts DEF Paused, Bps, Up
<1>6. Idle \notin Control \union {"disconnect", "setBreakpoints"}
  BY DEF Control, Idle
<1>7. TypeOK' /\ TaskInv' /\ LifeInv'
  BY <1>1, <1>2, <1>5 DEF IInv, TypeOK, TaskInv, LifeInv, Processes
<1>8. PipeInv'
  <2>1. \A k \in 1 .. Len(outbox') : Waiting(outbox[k].id)'
    <3>1. Waiting(f.id)
      BY <1>3 DEF Owned
    <3>2. QED
      BY <1>1, <1>2, <3>1 DEF IInv, PipeInv, Waiting
  <2>2. /\ \A k \in 1 .. Len(inbox) : Owned(inbox[k])'
        /\ \A j, k \in 1 .. Len(inbox) : inbox[j].id = inbox[k].id => j = k
    BY <1>1 DEF IInv, PipeInv, Owned, Waiting
  <2>3. \A k \in 1 .. Len(outbox) : outbox[k].id # e.id
    BY <1>0, <1>1 DEF IInv, PipeInv
  <2>4. \A j, k \in 1 .. Len(outbox') : outbox'[j].id = outbox'[k].id => j = k
    BY <1>2, <2>3 DEF IInv, PipeInv
  <2>5. ASSUME NEW j \in 1 .. Len(inbox), NEW k \in 1 .. Len(outbox') PROVE inbox[j].id # outbox'[k].id
    <3>1. CASE k = n
      BY <1>0, <1>1, <1>2, <3>1 DEF IInv, PipeInv
    <3>2. CASE k \in 1 .. Len(outbox)
      BY <1>2, <3>2 DEF IInv, PipeInv
    <3>3. QED
      BY <1>2, <3>1, <3>2
  <2>6. /\ \A k \in 1 .. Len(inbox) : inbox[k].id # 0
        /\ \A k \in 1 .. Len(outbox') : outbox'[k].id # 0
    <3>1. \A k \in 1 .. Len(inbox) : inbox[k].id # 0
      BY PipeOwners, NoFrameFacts DEF IInv, Frames
    <3>2. \A k \in 1 .. Len(outbox) : outbox[k].id # 0
      BY PipeOwners, NoFrameFacts DEF IInv
    <3>3. e.id # 0
      BY <1>1, <1>4, NoFrameFacts
    <3>4. QED
      BY <1>2, <3>1, <3>2, <3>3
  <2>7. QED
    BY <1>1, <1>5, <2>1, <2>2, <2>4, <2>5, <2>6 DEF PipeInv
<1>9. AttachInv'
  BY <1>1 DEF IInv, AttachInv, Attached
<1>10. BeforeInv'
  <2> SUFFICES ASSUME NotAttached PROVE ~adapter.client /\ (e.ok => task[e.id].at = "initialize")
    BY <1>1, <1>2 DEF IInv, BeforeInv, NotAttached
  <2>1. ~adapter.client
    BY DEF IInv, BeforeInv
  <2>2. f.cmd # "disconnect"
    <3> SUFFICES ASSUME f.cmd = "disconnect" PROVE FALSE
      OBVIOUS
    <3>1. Attached
      BY <1>4 DEF IInv, AttachInv
    <3>2. PICK k \in 1 .. Len(inbox) : inbox[k].cmd = "attach"
      BY <3>1 DEF Attached, NotAttached
    <3>3. task[1].at = "attach"
      BY <3>2, PipeOwners, OwnerAt DEF IInv
    <3>4. QED
      BY <3>1, <3>3 DEF Attached
  <2>3. QED
    BY <1>1, <1>4, <2>1, <2>2
<1>11. CallInv' /\ InstallInv'
  BY <1>1, <1>5, <1>6 DEF CallInv, InstallInv, Idle
<1>12. ResumedInv'
  <2>1. adapter.client /\ f.cmd = "disconnect" => ~Paused
    BY <1>0, <1>1 DEF IInv, CallInv
  <2>2. ~adapter.client => (ConnectedOnce' => ConnectedOnce)
    <3> SUFFICES ASSUME ~adapter.client,
                        NEW k \in 1 .. Len(outbox'), Says(k, {"attach"})' PROVE ConnectedOnce
      BY <1>1 DEF ConnectedOnce
    <3>1. k # n
      <4> SUFFICES ASSUME e.ok, task[e.id].at = "attach" PROVE FALSE
        BY <1>2
      <4>1. QED
        BY <1>1, <1>4 DEF EndAt
    <3>2. QED
      BY <1>2, <3>1 DEF ConnectedOnce
  <2>3. ConnectedOnce' /\ Up' /\ ~adapter'.client => ~Paused'
    BY <1>1, <1>5, <2>1, <2>2 DEF IInv, ResumedInv
  <2>4. Ended' => Ended \/ f.cmd = "disconnect"
    <3>1. task[e.id].at \in EndAt => f.cmd = "disconnect"
      BY <1>1, <1>3 DEF Owned, FrameOf, EndAt
    <3>2. QED
      BY <1>1, <1>2, <3>1 DEF Ended
  <2>5. f.cmd = "disconnect" => ConnectedOnce
    BY <1>4 DEF ConnectedOnce
  <2>6. Ended' => ~Paused' /\ ~adapter'.client
    BY <1>1, <1>5, <2>1, <2>4, <2>5 DEF IInv, ResumedInv
  <2>7. QED
    BY <2>3, <2>6 DEF ResumedInv
<1>13. ShownInv'
  <2> SUFFICES ASSUME adapter.client, f.cmd # "disconnect"
               PROVE  (/\ \A k \in 1 .. Len(outbox) :
                           LastSays(k) => (Paused <=> task[outbox[k].id].at # "continue")
                       /\ (\A k \in 1 .. Len(outbox) : ~Says(k, Control)) /\ Answered(1, "launch") =>
                            (Paused <=> ui = "stopped"))'
    BY <1>1 DEF ShownInv
  <2>1. CASE f.cmd \in Control
    <3>1. task[e.id].at = f.cmd /\ Says(n, Control)'
      BY <1>1, <1>2, <1>4, <2>1 DEF Control
    <3>2. ASSUME NEW k \in 1 .. Len(outbox'), LastSays(k)' PROVE k = n
      <4>1. CASE k \in 1 .. Len(outbox)
        <5>1. n \in k + 1 .. Len(outbox')
          BY <1>0, <1>2, <4>1
        <5>2. QED
          BY <3>1, <3>2, <5>1 DEF LastSays
      <4>2. QED
        BY <1>2, <4>1
    <3>3. Paused <=> f.cmd # "continue"
      BY <1>0, <1>1, <2>1 DEF IInv, CallInv, Control
    <3>4. QED
      BY <1>1, <1>2, <1>5, <3>1, <3>2, <3>3
  <2>2. CASE f.cmd \notin Control
    <3>1. task[e.id].at \notin Control
      BY <1>1, <1>4, <2>2 DEF Control
    <3>2. /\ \A k \in 1 .. Len(outbox') : LastSays(k)' =>
               k \in 1 .. Len(outbox) /\ LastSays(k) /\ outbox'[k] = outbox[k]
          /\ (\A k \in 1 .. Len(outbox') : ~(Says(k, Control)')) => \A k \in 1 .. Len(outbox) : ~Says(k, Control)
      BY <1>1, <3>1, Unsaid DEF IInv
    <3>3. /\ \A k \in 1 .. Len(outbox) :
               LastSays(k) => (Paused <=> task[outbox[k].id].at # "continue")
          /\ (\A k \in 1 .. Len(outbox) : ~Says(k, Control)) /\ Answered(1, "launch") =>
               (Paused <=> ui = "stopped")
      BY <1>0, <2>2 DEF IInv, ShownInv, Served
    <3>4. QED
      BY <1>1, <1>5, <3>2, <3>3 DEF Answered
  <2>3. QED
    BY <2>1, <2>2
<1>14. MirrorInv'
  BY <1>1, <1>5, <1>6 DEF IInv, MirrorInv, Sets, NoSets
<1>15. VerifiedInv'
  <2> SUFFICES ASSUME bridge.proc, adapter.client, NoSets PROVE bridge.bps \subseteq Bps \/ NothingVerified'
    BY <1>1, <1>5 DEF VerifiedInv, NoSets, Sets
  <2>1. CASE f.cmd = "setBreakpoints"
    <3>1. f.lines = bridge.bps
      BY <1>0, <2>1 DEF IInv, MirrorInv
    <3>2. adapter.calls # <<[op |-> "list"]>>
      BY <1>1
    <3>3. SetsFrom(<<>>, f.lines)
      BY <1>0, <1>1, <2>1, <3>2 DEF IInv, InstallInv
    <3>4. f.lines \subseteq Bps
      BY <3>3 DEF SetsFrom
    <3>5. QED
      BY <3>1, <3>4
  <2>2. CASE f.cmd # "setBreakpoints"
    <3>1. bridge.bps \subseteq Bps \/ NothingVerified
      BY <1>0, <2>2 DEF IInv, VerifiedInv
    <3>2. task[e.id].at # "add"
      BY <1>1, <1>3, <2>2 DEF Owned, FrameOf
    <3>3. NothingVerified => NothingVerified'
      BY <1>1, <1>2, <3>2 DEF NothingVerified
    <3>4. QED
      BY <3>1, <3>3
  <2>3. QED
    BY <2>1, <2>2
<1>16. QED
  BY <1>7, <1>8, <1>9, <1>10, <1>11, <1>12, <1>13, <1>14, <1>15 DEF IInv

-----------------------------------------------------------------------------
(* The invariant holds before the first request.                           *)
LEMMA InitInv == Init => IInv
<1> SUFFICES ASSUME Init PROVE IInv
  OBVIOUS
<1>1. TypeOK /\ TaskInv /\ LifeInv
  BY InitType
<1>2. /\ inbox = <<>> /\ outbox = <<>> /\ adapter.frame = NoFrame /\ ~adapter.client
      /\ adapter.calls = <<>> /\ ~bridge.proc /\ ~bridge.connected
      /\ \A i \in Requests : task[i] = Unsent
  BY DEF Init
<1>3. Unsent.at = Idle /\ Unsent.verified = {}
  BY DEF Unsent
<1>4. (\A k \in 1 .. Len(inbox) : FALSE) /\ (\A k \in 1 .. Len(outbox) : FALSE)
  BY <1>2
<1>5. PipeInv
  BY <1>2, <1>4 DEF PipeInv
<1>6. AttachInv
  BY <1>2, <1>3 DEF AttachInv, EndAt, Idle
<1>7. BeforeInv
  BY <1>2, <1>3, <1>4 DEF BeforeInv
<1>8. ~ConnectedOnce /\ ~Ended
  BY <1>2, <1>3, <1>4 DEF ConnectedOnce, Ended, EndAt, Idle
<1>9. CallInv /\ ResumedInv /\ ShownInv /\ MirrorInv /\ InstallInv /\ VerifiedInv
  BY <1>2, <1>8 DEF CallInv, ResumedInv, ShownInv, MirrorInv, InstallInv, VerifiedInv
<1>10. QED
  BY <1>1, <1>5, <1>6, <1>7, <1>9 DEF IInv

(* A refusal is for good. *)
LEMMA ExpiredStays ==
  ASSUME expired, [Next]_vars
  PROVE  expired'
<1>1. CASE Serve
  BY <1>1 DEF Serve, Serves, Refuses
<1>2. ASSUME NEW i \in Requests, Ide(i) \/ Delivered(i) PROVE expired'
  BY <1>2 DEF Ide, Launch, SendSetBreakpoints, SendCommand, SendDisconnect, Close, Delivered,
     LaunchGoesOn, BreakpointsGoOn, CommandAnswered, Disconnected, RequestFails, controller
<1>3. CASE AdapterExits \/ Adapter \/ Crash \/ KilledDies
  BY <1>3 DEF AdapterExits, Adapter, TakeFrame, AttachFails, CallController, Answer, Crash,
     KilledDies, Die, controller
<1>4. CASE UNCHANGED vars
  BY <1>4 DEF vars, controller
<1>5. QED
  BY <1>1, <1>2, <1>3, <1>4 DEF Next

(* The inductive invariant of the session holds until a call is refused.   *)
LEMMA Invariance == Spec => [](expired \/ IInv)
<1>1. ASSUME IInv, [Next]_vars, ~expired, ~expired' PROVE IInv'
  <2>1. ASSUME NEW i \in Requests, Ide(i) \/ Delivered(i) PROVE IInv'
    BY <1>1, <2>1, ChannelKeeps
  <2>2. CASE AdapterExits
    BY <1>1, <2>2, AdapterExitsKeeps
  <2>3. CASE TakeFrame
    BY <1>1, <2>3, TakeFrameKeeps
  <2>4. CASE AttachFails
    BY <1>1, <2>4, AttachFailsKeeps
  <2>5. CASE CallController
    BY <1>1, <2>5, CallControllerKeeps
  <2>6. CASE Answer
    BY <1>1, <2>6, AnswerKeeps
  <2>7. CASE Crash \/ KilledDies
    BY <1>1, <2>7, DieKeeps DEF Crash, KilledDies
  <2>8. CASE Serve
    BY <1>1, <2>8, ServeKeeps
  <2>9. CASE UNCHANGED vars
    <3>1. UNCHANGED <<task, ui, open, bridge, adapter, inbox, outbox, wire, late, engine>>
      BY <2>9 DEF vars, ideVars, pipes, controller
    <3>2. (TypeOK /\ TaskInv /\ LifeInv)' /\ (Up' <=> Up)
      BY <1>1, <3>1 DEF IInv, TypeOK, TaskInv, LifeInv, Up
    <3>3. (PipeInv /\ AttachInv /\ BeforeInv /\ CallInv)'
      BY <1>1, <3>1 DEF IInv, PipeInv, Owned, Waiting, AttachInv, Attached, BeforeInv, NotAttached,
         CallInv, Paused
    <3>4. (ConnectedOnce' <=> ConnectedOnce) /\ (Ended' <=> Ended) /\ Paused' = Paused
      BY <3>1 DEF ConnectedOnce, Ended, Says, Paused
    <3>5. (ResumedInv /\ MirrorInv /\ InstallInv)'
      BY <1>1, <3>1, <3>2, <3>4 DEF IInv, ResumedInv, MirrorInv, Sets, NoSets, InstallInv,
         SetsFrom, Bps
    <3>6. (ShownInv /\ VerifiedInv)'
      BY <1>1, <3>1, <3>4 DEF IInv, ShownInv, Served, LastSays, Says, Answered, VerifiedInv,
         NoSets, Sets, Bps, NothingVerified
    <3>7. QED
      BY <3>2, <3>3, <3>5, <3>6 DEF IInv
  <2>10. QED
    BY <1>1, <2>1, <2>2, <2>3, <2>4, <2>5, <2>6, <2>7, <2>8, <2>9 DEF Next, Adapter
<1>2. (expired \/ IInv) /\ [Next]_vars => (expired \/ IInv)'
  BY <1>1, ExpiredStays
<1>3. QED
  BY <1>2, InitInv, PTL DEF Spec

(* When a served setBreakpoints is the last one, its lines are on the      *)
(* controller: whatever a request was told is verified is a breakpoint     *)
(* there unless the user has removed it, or the controller has begun to    *)
(* refuse calls (dispatch, syncBreakpoints, handle_set_breakpoints).       *)
THEOREM VerifiedAreInstalled == Spec => []VerifiedInstalled
<1>1. expired \/ IInv => VerifiedInstalled
  <2> SUFFICES ASSUME IInv, adapter.client, bridge.proc, wire = NoCall,
                      \A i \in Requests : task[i].cmd = "setBreakpoints" => ~Waiting(i),
                      NEW i \in Requests
               PROVE  task[i].verified \intersect bridge.bps \subseteq engine.bps
    BY DEF VerifiedInstalled
  <2>1. NoSets
    <3> SUFFICES ASSUME NEW k \in 1 .. Len(inbox), Sets(k) PROVE FALSE
      BY DEF NoSets
    <3>1. inbox[k] \in Frames /\ Owned(inbox[k])
      BY PipeOwners DEF IInv
    <3>2. QED
      BY <3>1, OwnerAt DEF IInv, Sets, Owned
  <2>2. adapter.frame.cmd # "setBreakpoints"
    <3> SUFFICES ASSUME adapter.frame.cmd = "setBreakpoints" PROVE FALSE
      OBVIOUS
    <3>1. adapter.frame \in Frames /\ Owned(adapter.frame)
      BY PipeOwners, NoFrameFacts DEF IInv, Idle
    <3>2. QED
      BY <3>1, OwnerAt DEF IInv, Owned
  <2>3. bridge.bps \subseteq Bps \/ NothingVerified
    BY <2>1, <2>2 DEF IInv, VerifiedInv
  <2>4. Bps = engine.bps
    BY NoFrameFacts DEF Bps, Idle
  <2>5. QED
    BY <2>3, <2>4 DEF NothingVerified
<1>2. QED
  BY <1>1, Invariance, PTL

(* Once the adapter has answered a disconnect the engine runs, and nothing *)
(* sent before it stops the engine again, unless the controller refused    *)
(* the resume or a call before it (handle_disconnect).                     *)
THEOREM EndResumes == Spec => []DisconnectResumes
<1>1. expired \/ IInv => DisconnectResumes
  <2> SUFFICES ASSUME IInv, NEW i \in Requests, task[i].at = "released", wire = NoCall
               PROVE  ~engine.paused
    BY DEF DisconnectResumes
  <2>1. ~Paused
    BY DEF IInv, ResumedInv, Ended
  <2>2. Paused = engine.paused
    BY NoFrameFacts DEF Paused, Idle
  <2>3. QED
    BY <2>1, <2>2
<1>2. QED
  BY <1>1, Invariance, PTL

(* With no control request under way the user sees the engine as it is,    *)
(* until the controller refuses a call (the events of dispatch).           *)
THEOREM ShownTrue == Spec => []ShownIsTrue
<1>1. expired \/ IInv => ShownIsTrue
  <2> SUFFICES ASSUME IInv, adapter.client, Answered(1, "launch"), wire = NoCall,
                      \A i \in Requests : Waiting(i) =>
                        task[i].cmd \in {"setBreakpoints", "stackTrace", "variables"}
               PROVE  ui = "stopped" <=> engine.paused
    BY DEF ShownIsTrue, NoneUnderWay
  <2>1. ASSUME NEW i \in Requests, Waiting(i)
        PROVE  task[i].at \in {"remove", "add", "stackTrace", "variables"}
    <3>1. TaskOK(i, task[i]) /\ task[i].at \notin Settled /\ task[i].cmd \in {"setBreakpoints", "stackTrace", "variables"}
      BY <2>1 DEF IInv, TaskInv, Waiting, Settled
    <3>2. QED
      BY <3>1 DEF TaskOK, At
  <2>2. adapter.frame.cmd \notin Control \union {"disconnect"}
    <3>1. CASE adapter.frame = NoFrame
      BY <3>1, NoFrameFacts DEF Control, Idle
    <3>2. CASE adapter.frame # NoFrame
      <4>1. Owned(adapter.frame) /\ adapter.frame.id \in Requests
        BY <3>2, PipeOwners DEF IInv, Frames
      <4>2. QED
        BY <2>1, <4>1 DEF Owned, FrameOf, Control
    <3>3. QED
      BY <3>1, <3>2
  <2>3. \A k \in 1 .. Len(outbox) : ~Says(k, Control)
    BY <2>1, PipeOwners DEF IInv, Says, Control
  <2>4. Paused <=> ui = "stopped"
    BY <2>2, <2>3 DEF IInv, ShownInv, Served
  <2>5. Paused = engine.paused
    BY NoFrameFacts DEF Paused, Idle
  <2>6. QED
    BY <2>4, <2>5
<1>2. QED
  BY <1>1, Invariance, PTL

=============================================================================
