# Weftik: a TLA+ model of the controller and of its IDE

Weftik runs IEC 61131-3 and G-code programs on a controller. The controller is
a Rust process: one **cycle thread** runs a fixed sequence of steps for ever
(`Engine::start_with_cycle`, `crates/weftik-runtime/src/engine.rs:145-352`), and
one **connection thread** per IPC client calls into the same engine
(`ipc.rs`, `handle_connection`). The two meet in a few dozen locks and atomics.
The first half of this directory models that meeting: what the cycle thread does
at its boundary and in its barriers, against every call that other threads may
make meanwhile.

Programs are drawn and debugged in an IDE, a Theia application. Its editors hold
a diagram, change it by pure operations and compile it to the text the
controller runs; its debugger is a chain of asynchronous functions, an adapter
process and the controller's IPC. The second half models these: the ladder
editor, its undo and save history, the function block editor with its validator
and compiler, and one debug session from the request to the engine.

Paths below are relative to the repository's root; `engine.rs`, `ipc.rs`,
`lifecycle.rs`, `signals.rs`, `simulation.rs` are those of
`crates/weftik-runtime/src/`, `transport.rs` and `qos.rs` those of
`crates/weftik-amw-inproc/src/`, and the client is
`crates/weftik-runtime-client/src/lib.rs`. Of the IDE, in `theia-extensions/`:
`ld-operation-handler.ts`, `LdCanvas.tsx`, `ld-gmodel-state.ts` and
`ld-editor-widget.tsx` are below `weftik-ld-editor/src/`, `fbd-operation-handler.ts`,
`fbd-compile.ts` and `FbdCanvas.tsx` below `weftik-fbd-editor/src/`, `debug-channel.ts`
and `real-dap-bridge.ts` in `weftik-debug/src/browser/`; `adapter.rs` is
`crates/weftik-dap-adapter/src/adapter.rs`.

## 1. Inventory

| Component | State | Operations | Meets | What is hard | What makes it correct |
|---|---|---|---|---|---|
| Engine control (`engine.rs:113-185,356-378`) | atomics `running`, `paused`, `step_requested`; the thread's position; the owner's `JoinHandle` | start, stop, join; pause, resume, step_cycle; two wait loops and a test between them | IPC methods PAUSE, RESUME, STEP_CYCLE; `main.rs`, `SimulationHarness` | each flag is read and written on its own; a step is two stores; stop races pause | a pause lets through only the cycles it owes; steps are served; stop ends the thread |
| Program loading and hot-swap (`engine.rs:202-224,460-553`) | `pending_swap` (lock), `swap_committed` (atomic), `hal_program`, `hal_executor` (locks), the registry | load, prepare, commit, rollback; step 1.5 of the cycle | IPC methods, signal registry | slot and flag change separately; take() and install are five steps | nothing withdrawn or used is installed; outputs are registered first; commits are honoured |
| Config Barrier (`engine.rs:189-200,391-434`, `qos.rs`) | `config_queue`, `lock_level`; the middleware's own level and queue | queue_config, set_lock_level (two of them), apply_config_now; step 1 of the cycle | IPC CONFIG_COMMAND, middleware mutex | check then push; two drainers; two levels | first in first out, exactly once, nothing queued at Run |
| HMI layouts (`engine.rs:226-237,555-585`) | generation counter, pending and active layout, `layout.yaml` | deploy, write and publish in step 1.6 | IPC DEPLOY/READ, file system | draw and store are two steps; writes fail; restarts | panels read what is on disk, in the order of the deploys |
| Scan cycle (`engine.rs:239-299`, `signals.rs`, `transport.rs`) | values in the registry and in the transport | read barrier, compute, program, write barrier; WRITE_SIGNAL, SNAPSHOT; direct publishes by adapters | middleware mutex, shared transport | loops over signals against writers; a lock taken twice | one sample per cycle, whole outputs, the cycle comes round |
| Supervision (`lifecycle.rs`, `engine.rs:331-338`) | list of children with counter, last start, handle | spawn, health_check, shutdown_all | cycle thread, `main.rs`, operating system | time against counters; fork before listing | a rate of restarts, and nobody given up |
| IPC sessions and push (`ipc.rs:513-1390`, `engine.rs:302-325`) | per connection: session, token, ids; shared: subscription table | authenticate, check, subscribe, unsubscribe, push, clean up | client, cycle thread | answers in order; expiry between checks; a table shared by id | one answer per request, pushes to subscribers, subscriptions that live |
| Ladder editor (`ld-operation-handler.ts`, `LdCanvas.tsx`) | nodes, wires, rungs with series elements and branches; clipboard, open branch | place, move, delete, copy, cut, paste, branches, rungs; validate, compile | history, backend compiler | one operation invalidates what others wired; two rails shared by all rungs; cascades | references resolve, branches stay wired, no element is missing from the text |
| Undo and save history (`ld-gmodel-state.ts`, `ld-editor-widget.tsx`) | snapshots, pointer, dirty flag, file | edit, undo, redo, save, compile | canvas, file service, backend | the limit against the pointer; writes that return while the user edits | undo is exact; clean means saved |
| Function block editor (`fbd-operation-handler.ts`, `fbd-compile.ts`, `FbdCanvas.tsx`) | lists of nodes and wires | create, connect, disconnect, retype, delete; find loops, sort, emit | history | ids that repeat those of an opened file; pins that go away under wires; a sort that silently drops loops; a variable per wire | while ids differ: accepted diagrams compile completely, in order, and values arrive |
| Debug session (`debug-channel.ts`, `real-dap-bridge.ts`, `adapter.rs`) | mirror of breakpoints, promise per request, process, client; the engine's pause and breakpoints | launch, setBreakpoints, continue, next, pause, stackTrace, variables, disconnect, close | Theia, controller | overlapping async functions; a process that ends at any time; answers one call late; a token that expires | every request settles; until a call is refused, verified breakpoints are installed and stopping lets the engine run |
| Agent (`crates/weftik-agent`) | children, restart budget, status | monitor loop, shutdown | runtime, IPC | the same as supervision, with another policy | — (not modelled yet) |
| In-process middleware's RPC, streams, discovery | callbacks, streams, services | call with timeout, bounded streams | engine, adapters | late results, overflow policies, callbacks under a lock | — (not modelled yet) |
| Adapters, adapter manager, Modbus, HART | write cache, poll threads | poll, write, start, stop | transport, devices | a cache that is stale | — (not modelled yet) |
| HAL virtual machine (`crates/weftik-hal-ir`) | registers, timers, counters | run_to_halt, stepping | engine | unbounded runs, numeric edges | — (not modelled yet) |
| Config watcher (`config.rs`), health server | last mtime; none | poll and reload; answer | file system | half-written files | — (not modelled yet) |
| CNC, the Rust compilers, other Theia extensions, Zenoh, the authors' drawing skill | — | translation of text, code generation, views | client library | sequential | not modelled; reasons in `PROJECT.json` |

`PROJECT.json` lists the same components with their files, and under `hazards`
the lines at which each of these can go wrong, with the property that watches
each line or the reason why none does yet.

## 2. Modules

Every component has a module with its state as `VARIABLES`, an action per
atomic access of the code (per event or gesture in the IDE, where JavaScript
runs one at a time), and its properties at the end; an `MC...` module
with the small sets TLC uses; and, where something is proved, a `..._proofs`
module. Definitions called `...Early`, `...Keeps`, `...Never` and the like,
marked *Faulty variant*, are not part of the specifications: each is the
definition beneath it with a plausible bug, kept to show that a property
notices it. History variables are marked as such at their declaration and never
restrict a step.

| Module | Models | One step is |
|---|---|---|
| `EngineControl` | the gate of the cycle thread and its callers | one SeqCst load that leaves a loop, or one store |
| `ProgramSlot` | abstract: a slot for one program and the running program | one call or one boundary |
| `HotSwap` | the same with locks and flag | one lock acquisition or one atomic access |
| `LockLevels` | `LockLevel`, `required_lock_level`, `can_queue` | — |
| `ConfigBarrier` | queue, two levels, two kinds of drain | a critical section's entry, or its effect |
| `HmiDeploy` | deploy against the boundary, the file and restarts | the draw, the store; take, write, publish |
| `AtomicScan` | abstract: sample, run, publish, each in one step | one phase |
| `ScanCycle` | the two barriers signal by signal, compute phase, other writers | one signal read, stored or published |
| `Lifecycle` | `LifecycleManager`, operating system, clock | one call under the mutex; fork and listing apart |
| `IpcSession` | connection thread, client and push per connection | one message handled, one frame read, the clean-up |
| `Filters` | `Array.prototype.filter`, as both editors use it | — |
| `LdGraph` | the operations of `LdOperationHandler`, validation and text as operators | — |
| `LdCanvas` | the gestures of the ladder canvas, which apply them | one gesture, with every operation it makes |
| `UndoHistory` | abstract: past, present, future | one edit, undo or redo |
| `LdHistory` | snapshots, pointer, dirty flag, saves and compilations that return later | one edit, call or return |
| `FbdDiagram` | the operations and gestures of the function block editor | one gesture, with every operation it makes |
| `FbdCompile` | the same with `validateGraph`, its search for loops, and `convertGraphToIl` | — |
| `DebugSession` | channel, bridge, adapter process, pipes, controller | one event of the IDE, one frame or call of the adapter, one answer of the controller |

`HotSwap` implements `ProgramSlot`, `ScanCycle` implements `AtomicScan` and
`LdHistory` implements `UndoHistory` through refinement mappings that TLC checks
(`ImplementsSlot`, `ImplementsAtomicScan`, `UndoIsExact`) and TLAPS proves.

### How state corresponds

* **EngineControl.** `engine` is the thread's place in `start_with_cycle`: `top`
  (the outer `while`), `park` (first wait loop), `gate` (the test of `running`
  between the loops), `hold` (second wait loop), `clear` (the store that consumes
  a step), `cycle`. A wait loop re-reads its flags until one lets it out, so
  "some flag lets it out" is its guard. `credit` is a history variable: the number
  of cycles the current pause still allows.
* **HotSwap.** `pending`, `committed`, `program`, `executor` are the four fields;
  `taken` is the boundary's local variable. `SlotHeld` says that the boundary has
  the write guard of `pending_swap`, which it keeps from `take()` to the store
  that clears the flag (`engine.rs:204-224`). A version is one submission: the
  same bytes sent twice are two versions.
* **ConfigBarrier.** Being in a critical section is a position: `draining` and
  `applying` hold `config_queue`, `pushing` holds the read lock of `lock_level`.
  The hand-over to the middleware happens under the middleware's mutex and is
  one step. Both `set_lock_level` functions only raise.
* **HmiDeploy.** A write succeeds, or fails leaving the old contents or `Torn`.
  A restart keeps the file and nothing else.
* **ScanCycle.** `wire` is `InprocTransport.signals`, `reg` the registry. The
  mutex of the middleware is held exactly in `read` and `write`. `Remote` are the
  signals written under that mutex, `Direct` those that adapters write on the
  transport itself, inputs as well as outputs. An adapter's write to an input that
  the barrier has yet to read gets into the sample: in `AtomicScan` that is
  `WriteLate`. `readGuard` is the guard that an `if let` keeps alive to the end of its
  block (`engine.rs:261`). Only the cycle thread changes registry values. The
  program is a function of the inputs.
* **Lifecycle.** `age` is the time since `last_start`; from `Window` on all ages
  are alike. `recent` is a history of the ages of the last `MaxRetries + 1`
  restarts. Which spawns the operating system grants is the set `granted`. The
  answers of `health_check` go to the log and to a metric and are left out.
* **IpcSession.** `peer` is the client of a connection, `handler` its thread. A
  frame has the number of the request it answers (0 for a push),
  which the real frame does not have; no step of the server or client looks at
  it. A token is the id of the session it was issued for; signatures, roles and
  payloads are abstracted to "accepted or refused".
* **LdGraph, LdCanvas.** A graph has the kinds of its nodes, its wires and its
  rungs, each a sequence of series elements and a function from the anchor of a
  branch to its members. An operation that throws is a `Can...` operator that is
  false. Positions, names and comments decide nothing about these and are left out.
  A gesture of several operations (dragging an element elsewhere, pasting) is one
  action, because `tryApply` applies or refuses it as a whole. The specification
  is `CanvasSpec`, of `CanvasInit` and `CanvasNext` (and `IpcSpec` in `IpcSession`,
  `FbdSpec` in `FbdDiagram`), because one module of proofs extends several components.
* **LdHistory.** The diagram is a model value. `writes` are the calls of `writeFile`
  under way, which may return in any order or fail.
* **FbdDiagram, FbdCompile.** Nodes and edges of the diagram `fbd` are sequences: the
  compiler walks them in order. The editor starts from the empty diagram or from a
  file (`Files`), of which `fromJSON` asks no more than two lists: its wires may lead
  nowhere. Ids are no keys: `generateId` counts from 0 in each session
  (`model/model.ts:51,59`) and `fromJSON` does not move the counter on, so that a node
  or wire drawn later may have the id of one in the file. Hence a new node or wire has
  any id here. A gate never gets the id of a block, the prefixes differ (`GateIds`,
  `BlockIds`). Where the code makes a `Map` of the nodes the last of an id counts
  (`TypeOf`), where it calls `find` the first (`FoundType`, `Found`). The pins of a node
  follow from its type (`Inputs`, `Outputs`, two tables with a row for each type), in a
  file too: pin lists edited by hand are left out. What the validator says of a wire by
  itself is with the operations (`Resolves`), what needs a search is in `FbdCompile`,
  where `Text` is, for each instruction group emitted, which wire
  variables it reads and stores; the operators in it are left out.
  `FbdGModelState` and `save` are line by line those of the ladder editor.
* **DebugSession.** `task[i]` is the async function that serves the `i`-th request: its
  position is the `await` it stands at, and its fields are the locals it carries
  over it. `bridge` is `RealDapBridge` (process, `connected`, the mirror), `adapter` the
  process with the frame it serves and the calls to the controller still to make
  for it. `late` is the answer `RuntimeClient` will read next: a granted
  authentication is answered twice (the first item of section 4; this
  session inherits the lag). An hour after the attach the controller refuses every call
  without effect (`ipc.rs:41,392-402,600-617`): `Refuses`, which may happen at any call,
  as no clock is modelled, and `expired` from then on. The adapter does not
  authenticate again. `read_response` does turn an error status into an error, but the
  status it sees is that of the call before: the first call refused looks served, the
  later ones do not, except that `setBreakpoints` is answered with success and lines
  verified whatever its calls returned (`adapter.rs:108`), and that the result of the
  resume of a disconnect is dropped (`adapter.rs:255`).

## 3. What TLC checks

`tlc -config X.cfg MCX.tla`, in this directory. State counts are of complete
searches with the bounds of the configuration.

| Run | States | Properties |
|---|---|---|
| `engine_control` | 288 | `TypeOK`, `PauseHolds`, `CreditCovers`, `StepServed`, `StopParkedEnds`, `StopEndsOrHolds` |
| `hotswap` | 12,894 (up to symmetry) | `TypeOK`, `OutputsRegistered`, `NeverReinstalled`, `DiscardedNeverInstalled`, `BoundaryKeepsCommits`, `ImplementsSlot` |
| `config_barrier` | 25,860 | `ExactlyOnceInOrder`, `RejectionsStick`, `NothingQueuedAtRun`, `AcceptedIsSettled` |
| `hmi_deploy` | 12,235 | `PanelAgreesWithDisk`, `DeployOrder` |
| `lifecycle` | 9,325 | `RateLimit`, `ExitedIsRevived` |
| `scan_cycle` | 1,247,397 | `InputsOfOneInstant`, `InputsFresh`, `ImplementsAtomicScan`, `CyclesWithoutComputed` |
| `ipc_session` | 283,369 | `PushedToSubscribersOnly`, `RequestsAnswered` |
| `ipc_responses` | to the counterexample | `ResponseMatchesRequest`, violated: section 4 |
| `ld_canvas` | 140,358 (up to symmetry) | `WellFormed`, `TextComplete`, `ChainsRewired`, `OtherRungsUntouched` |
| `ld_history` | 354,276 | `HistoryOK`, `UndoIsExact` |
| `fbd_compile` | 638,622 (up to symmetry) | `TextOrdered`, `LoopsAreReal`, `ValuesArrive`, `NoWireDangles` |
| `debug_session` | 937,580 | `VerifiedInstalled`, `DisconnectResumes`, `ShownIsTrue`, `EveryRequestSettles` |

Each property has in `PROJECT.json` a mutant: a faulty variant of one definition
for which TLC finds the property violated under the same configuration.
`EngineControlStop.cfg`, `HotSwapLostCommit.cfg`, `ScanComputed.cfg`,
`IpcSubscription.cfg`, `LdSave.cfg`, `FbdFanOut.cfg`, `FbdReopened.cfg` and
`DebugRefusal.cfg` are further configurations, each with one property the code does
not have: section 4.

### Bounds

* *EngineControl*, two callers: one can call between the two stores of the
  other's `step_cycle`; a third finds the same three flags. Nothing else is
  bounded, the state space is finite.
* *HotSwap*, two callers, three well-formed programs and one that is not: one
  program runs, one is taken or being loaded, one is in the slot. The bounds cut
  histories after four submissions; the proofs of section 5 have no such bound.
  Callers and well-formed programs are interchangeable and no liveness is checked
  in this run, so symmetry is sound.
* *ConfigBarrier*, two callers, one command for each level a command may require,
  all six levels for engine and middleware.
* *HmiDeploy*, two callers, three layouts (one active, one being written, one
  about to be stored), one restart.
* *Lifecycle*, two children, `MaxRetries` = 3 as in the code, `Window` = 3 ticks: the
  budget can be used up within a window, at its edges and beyond. Each child is
  spawned once.
* *ScanCycle*, three inputs, of which an adapter writes the last past the mutex while
  clients write all; two outputs, of which an adapter writes the first; both
  outputs follow the first input (so that a mix of two cycles' outputs differs from
  every whole one); two values; one Computed signal, which may be registered at any time.
* *IpcSession*, two connections, one signal, three requests each (authenticate,
  subscribe, and one more of any kind), up to two unread frames before a push.
  Three requests allow an authentication, a session that expires or is used, and
  one answer out of step.
* *LdCanvas*, two rungs and three elements: an anchor, its successor and a branch
  member on one rung, or elements on both with the rails shared between. `MaxExtras`
  = 1 bounds copies, cuts and wires deleted by hand; every other gesture is
  unbounded. Ids are interchangeable and no liveness is checked.
* *LdHistory*, three diagrams and `MaxUndo` = 4 for the code's 50: the limit is reached
  with the pointer at the end, behind it and at the start. Two writes at once are
  enough to overtake each other.
* *FbdCompile*, three nodes, three wires, at most two things deleted at once. One id
  for gates, two for blocks and three for wires: three nodes and three wires may all be
  told apart, and every id may be given twice. A gate with one and one with two
  inputs, a block with one and one with two inputs and outputs: loops of
  every length up to three, a chain behind a loop, a fan-out, two wires into one
  pin, and retyping that takes a used pin away. The files hold a gate that is wired to a
  block that is not there, or to a pin it does not have. Ids of one kind are
  interchangeable and no liveness is checked.
* *DebugSession*, `launch` and three more requests, which may all be under way at
  once; lists with neither, the first or the second of two lines, which are in the
  mirror together where requests overlap; `continue`, `next` and `stackTrace` as the
  calls that overlap them. The token may expire at each call.

`CHECK_DEADLOCK FALSE` is said where the system may really stop: in `IpcSession` all
clients may close and the threads end; in `DebugSession` all requests are settled and
the adapter has ended. The other specifications never stop: the cycle thread, a
tick, a call or an edit is always possible.

### Fairness

* Weak fairness of `Engine` everywhere: the operating system schedules the cycle
  thread. It is fairness of the disjunction: a disabled thread (parked, waiting for
  a lock) owes nothing.
* Weak fairness of a caller's `Return`/`StepRequests`: a thread inside a call goes
  on. Nobody is obliged to make a call, and `Stop`, `Pause`, `Close` have no
  fairness. `Join` is fair: its caller does nothing else.
* `ConfigBarrier`: weak fairness is enough although two drainers compete for the
  queue, because whoever gets it hands all of it over.
* `Lifecycle`: time passes, cycles check, and for each child strong fairness of
  the checks in which the operating system grants its restart: process creation
  may fail again and again, but not for ever. Without it `ExitedIsRevived` says
  nothing about this code. It assumes that the engine is not paused for ever.
* `IpcSession`: connection threads run. Clients are not obliged to read.
* `DebugSession`: pipes deliver, the adapter and the controller run, an exit is
  reported, and a process sent SIGTERM dies. Of these steps some happens whenever one
  can; requests are few, so that fairness of each by itself is not needed. Neither a
  crash nor a request is fair.
* The editors have no liveness property: they do what the user does.

### Properties worth a comment

* `PauseHolds` counts cycles: those already past the wait loops when the pause was
  stored, and one for each step requested, are all that complete while paused.
* `BoundaryKeepsCommits` is why the boundary holds the slot's lock until it has
  cleared the flag: let go one store earlier, it erases the flag of a program
  prepared and committed in between.
* `NothingQueuedAtRun` rests on `queue_config` holding the read lock of the level
  until it has pushed.
* `RejectionsStick`: levels only rise, so the commands a middleware rejects are,
  for each required level, a suffix of those handed over.
* `DeployOrder` is the order that survives concurrent callers: only deploys that
  overlap may be seen in the wrong order (section 4).
* `CyclesWithoutComputed` is the liveness the cycle has *until* a Computed signal is
  registered.
* `PushedToSubscribersOnly` holds because the clean-up of section 4 runs too often;
  at the real end of a connection (`ipc.rs:581`, a `break`) nothing is cleaned up.
* `ChainsRewired` is stated of steps: a wire deleted by hand may leave a branch open,
  and the next edit of that rung has to close it again.
* `TextComplete` and `TextOrdered` say of the validators what makes them worth having:
  what they let pass loses nothing in the text. `TextOrdered` needs `detectCycles` to
  find every loop, because the sort leaves out what is on one; `LoopsAreReal` is its
  converse for the loops shown to the user.
* `TextOrdered`, `ValuesArrive` and `NoWireDangles` are about diagrams in which no two
  nodes share an id (`ValuesArrive`: nor two wires), because with repeated ids each is
  false (section 4). `ValuesArrive` also excludes diagrams in which an output pin fans
  out, `NoWireDangles` the retyping of a gate, for the same reason. `LoopsAreReal` holds
  with repeated ids too.
* `InputsOfOneInstant` is about the inputs that no adapter writes; of the others
  `InputsFresh` says, one by one, that what was sampled stood on the wire during the
  barrier. Together they may be of different instants (section 4).
* `VerifiedInstalled`, `DisconnectResumes` and `ShownIsTrue` hold until the controller
  refuses a call (`~expired`), and not beyond (section 4).
* `VerifiedInstalled` speaks of moments with no `setBreakpoints` under way: during one
  the mirror is ahead of the controller. It holds although the adapter clears by a
  list that is one call late and requests overlap, because each request sends the
  whole mirror as it is then, with the new line in it already.
* `DisconnectResumes` and `ShownIsTrue` rest on the order of the pipes alone: the
  channel does not wait for one request before it sends the next.

## 4. Where code and documents disagree

Listed as a finding in `PROJECT.json`, with the quoted lines:

1. **Responses shift** (`ipc_responses`, `ipc.rs:632`). A granted authentication is
   answered twice, and the client takes the next frame for its next answer.

Reproduced by a configuration of its own, `tlc -config X.cfg MCX.tla` with the
configuration and module named:

2. **Stop may hang** (`EngineControlStop.cfg`, `MCEngineControl`: `StopEnds`;
   `engine.rs:182`). The thread passes the test of `running`, another thread stores
   `paused`, stop is called: the second wait loop does not look at `running`, and
   `join` waits for a resume.
3. **A commit answered Ok is lost** (`HotSwapLostCommit.cfg`, `MCHotSwap`:
   `AckedCommitApplies`; `engine.rs:551`). `rollback_swap` empties the slot and then
   clears the flag; another client's prepare and commit in between are undone by
   the second store.
4. **A Computed signal stops the cycle** (`ScanComputed.cfg`, `MCScanCycle`:
   `CyclesComplete`; `engine.rs:261`). The read guard of the `if let` condition lives
   to the end of the block, in which the same thread asks for the write lock.
5. **Subscriptions do not last** (`IpcSubscription.cfg`, `MCIpcSession`:
   `SubscriptionLives`; `ipc.rs:1299`). The clean-up meant for the disconnect stands
   inside the message loop.
6. **A changed diagram counts as saved** (`LdSave.cfg`, `MCLdHistory`: `CleanMeansSaved`;
   `ld-editor-widget.tsx:114`). The flag is "Whether the model has unsaved changes
   since last save/compile" (`ld-gmodel-state.ts:43`); `save` takes the diagram, waits for the
   write and then marks clean whatever is current, edits made meanwhile included.
   Two writes may also end in either order. `FbdEditorWidget.save` is the same code.
7. **The second wire of an output carries nothing** (`FbdFanOut.cfg`, `MCFbdCompile`:
   `EveryWireCarries`; `fbd-compile.ts:120`). A wire "represents a data flow" between
   two elements; each has a variable, the reader loads the one of its own wire,
   and the writer stores only to that of the first wire of the pin
   (`findOutgoingEdge`). The validator accepts the diagram.
8. **A reopened diagram gets ids twice** (`FbdReopened.cfg`, `MCFbdCompile`:
   `EveryNodeEmitted`; `weftik-fbd-editor/src/model/model.ts:60`). "Generate a unique
   element ID" (`model.ts:54`), which `nodes.ts:62` calls "unique identifier within
   the graph": the counter starts again with each session and the file's ids stay. The
   validator accepts two gates with one id, and the text has the later one twice and
   the earlier one never ("emit IL instructions per node", `fbd-compile.ts:28`). A block
   that is created, deleted or retyped under a repeated id can also take the pins of
   wires of its namesake. The ladder editor adds a random suffix to its ids.
9. **The first call refused looks served** (`DebugRefusal.cfg`, `MCDebugSession`:
   `StatusChecked`; `weftik-runtime-client/src/lib.rs:501`). "Build a wire request frame,
   send it, read the response, and check status": behind the doubled answer the
   status is that of the call before. When the token's hour is over, `continue` is
   refused and the user is shown "running" over a paused engine; lines not installed
   are reported verified, and a disconnect leaves the engine paused, at every later
   call as well.

Read off the models or the code, described here and not checked by a run:

* A flag left by a commit makes the boundary take a program prepared later and not
  yet committed (`engine.rs:535,545`; the slot's identity is not part of the flag).
* `load_hal_program` stores the executor at once, also in the middle of a cycle,
  against "all config changes are queued and applied at the cycle boundary"
  (`engine.rs:36`, `engine.rs:487`).
* The drain does not look at the lock level, so commands queued before Run are
  applied at Run (`config-barrier-design.md:132`), and `queue_config` admits every
  command at Params (`config-barrier-spec.md:201`).
* Two overlapping deploys may be stored against the order of their generations, so
  the active generation goes back (`engine.rs:572-581`, `hmi-spec.md:55`); a write
  that fails drops a layout already acknowledged (`hmi-spec.md:50`); nothing reads
  the layout back at start (`hmi-spec.md:83`).
* Ladder editor: `deleteRung` ("Delete a rung and all its elements") deletes the
  series and leaves the members of branches as nodes on no rung, which the
  validator then reports; a cut followed by a paste is refused, because the paste
  copies from the diagram the elements were cut from; deleting an anchor together
  with one of its members is refused as a whole, because the cascade has taken
  the member already; a second coil can be added to a rung.
* Function block editor: deleting one wire of a fan-out in the canvas disconnects
  every wire of that output pin (`FbdCanvas.tsx`, `onDelete` through `disconnectPin`);
  two wires into one input are accepted and the first alone is read; `changeGateType`
  keeps wires to pins the gate no longer has (the validator then refuses the
  diagram); a block with several outputs stores the same value to each; the
  widget never calls the compiler.
* Debug session: the bridge relies on the adapter clearing all breakpoints at each
  `setBreakpoints` (`real-dap-bridge.ts:12`), and the adapter clears those an answer
  one call late names; a stop or close during launch finds the bridge not
  connected and kills an adapter that has paused the engine already, or leaves it
  running (`real-dap-bridge.ts:65`); breakpoints set before the launch stay in the
  mirror only; `setBreakpoints` ignores the source.
* `ProcessState::Failed` is documented as permanent, yet after the window the child
  is restarted; the restart metric is incremented for every child at every check;
  the announced back-off (`next_at`) is reported and not observed.
* Inputs published on the shared transport (adapters, `SimulationHarness::set_signal`)
  are not under the middleware's mutex, so that of several such inputs the sample may
  hold values that never stood on the wire together;
  the write barrier publishes one output after the other, and subscribers called
  back in between see half of a cycle (`scan-barrier-design.md:66,112`).
* Session ids start at 1 on every connection, and the shared subscription table is
  selected by them; an expired session is refused by the first check, so that the
  branch that would drop it is reached only when it expires between two checks
  (`ipc.rs:392-402,602-611`).

## 5. What is proved

`tlapm X_proofs.tla`. The theorems hold for every value of the constants that
meets the named `ASSUME` of the module: any set of callers, programs, children,
commands, layouts, connections, signals, rungs, elements, types of blocks, diagrams
or debug requests, any positive budget, window and undo limit; a bound that a
specification takes as a parameter (`MaxRequests`, `MaxRestarts`, `MaxExtras`,
`MaxEdges`) may have any value. Eight modules, 8,754 obligations; the 31 results of
`PROJECT.json` are named here. Each component has one inductive invariant, `IInv`
(or the invariants named): every theorem about states follows from it, the action
properties and refinements from it and one step.

* **`EngineControl_proofs`** — `TypeCorrect`, `CreditInductive`, `PauseContract`. That
  `credit >= 0` is not inductive: a state with credit 0 in which the thread is
  already in the body of a cycle satisfies it and its successor does not. The
  strengthening `CreditCovers` says that a pause has credit for every cycle the
  thread is committed to (in flight, or let in by a pending step), that the step
  being consumed is counted once, and that outside a pause the credit is 0.
* **`HotSwap_proofs`** — `HotSwapTypeCorrect`, `OutputsAreRegistered`, `NoReinstall`,
  `NoDiscardedInstall`, `CommitsKept`, `Refinement`. One invariant, `IInv`, serves
  all: the boundary has something taken exactly at three positions and the slot is
  empty while it is held (`TakenInv`); a call that is about to store something has it
  (`ArgInv`); what is on its way to the executor has registered outputs
  (`RegisteredInv`); and it is in one place only, neither installed nor discarded
  (`FreshInv`). The action properties and the refinement are then one step each. In the
  refinement the program the boundary has taken still counts as in the slot, so
  that storing the executor is the abstract `Move`. `ProgramsAssumption`: well-formed
  programs are programs, and `None` is not.
* **`Lifecycle_proofs`** — `LifecycleTypeCorrect`, `CountsCover`, `RestartRate`.
  `RateLimit` says of the oldest remembered restart that it is a window old; inductive
  is `CountCovers`: restarts beyond the counted ones are old, the last counted one is
  as old as `last_start`, ages are sorted, and a child not yet listed was never
  restarted. When the counter is reset, `last_start` is a window old, hence so are
  all. `RestartAssumption`: budget and window are positive.
* **`ConfigBarrier_proofs`** — `FirstInFirstOut`, `RejectedForGood`, `ClosedAtRun`.
  `ExactlyOnceInOrder` is inductive with the types. Closed at Run needs `PushInv`: a
  caller that has passed the check finds the level still below Run when it pushes,
  which is what the read lock kept over both gives it. That no rejected
  command is applied later needs more. Commands are told apart, so one must never
  be under way twice (`OnceInv`), otherwise an older copy could have been applied
  (`AppliedInv`); and what the middleware dropped must still be inadmissible at its
  present level (`RejectedInv`), so that a later command which needs as little is
  refused too. This rests on `CanQueueMonotone`, a lemma about `can_queue` alone: a
  stricter level admits less, a command that requires more is admitted wherever one
  that requires less is. `CommandsAssumption`: `None` is not a command.
* **`HmiPanels_proofs`**, of `HmiDeploy` — `DiskAgrees`, `DeploysInOrder`. While a layout is about to be
  published the file holds that layout (`WrittenInv`). For the order the invariant
  follows a layout from the call to the panels: what a call carries has not been
  acknowledged and is carried by no other (`CarriedInv`), what is in the slot, taken
  or active has (`StoredInv`), and of these three places none holds a layout that was
  acknowledged before that of a place further on was begun (`OrderInv`).
  `LayoutsAssumption`: `None` is not a layout.
* **`HmiPanels_proofs`**, of `IpcSession`, whose pushes feed the panels —
  `OnlySubscribersPushed`. The table is shared by all connections and cleaned by
  session id, so that one connection's clean-up may take another's streams out of it;
  what it must never do is leave one in. The invariant (`ConnectionTypes` with
  `TableInv`) says that a stream is in the table only from the message that subscribes
  to the clean-up behind that same message, under the connection's present session, and
  that its client is then a subscriber or has closed. The session can neither expire
  nor be replaced in between: both happen when a message is read, and a thread that
  reads has no stream in the table (`ReadersHaveNone`).
* **`ScanCycle_proofs`** — `SampleIsFresh`, `OneInstant`, `Refinement`. The loops are
  followed by `LoopInv` (what is still to do, what is about to be stored, which guard
  is held) and `FreshInv`: during the read barrier the inputs on the wire are one of
  the instants remembered, and what the loop has been past was taken at one of
  them. No theorem assumes anything of which signals adapters and clients write.
  `OneInstant` is about the inputs that no adapter writes; `SampleIsFresh` about each
  input by itself. `Refinement` has the sample taken when the read
  barrier is entered (`SampledReg`) and the outputs published when the write barrier is
  (`PublishedWire`). What an adapter does in between is then one of three things: a
  write to an input the loop has yet to read is a late write of the abstract scan
  (`WriteLate`, lemma `LateStep`), one to an output the loop has yet to publish is
  overwritten unseen, and every other is an ordinary write.
  `SignalsAssumption`: inputs, outputs and computed signals are
  different signals, the program maps samples to outputs.
* **`DebugSession_proofs`** — `VerifiedAreInstalled`, `EndResumes`, `ShownTrue`. Any number of
  requests, which may all overlap, and any lines; an adapter that may die at every
  step, and a controller that may refuse every call from any one on: the three
  properties, and the parts of the invariant about what calls have come to, hold as long as
  it has refused none. The argument has two parts. First, every step of the channel, whichever of
  its dozen actions it is, is a step of one request: it starts or takes the first
  answer, and then ends or sends its next frame (`ChannelStep`, one lemma per action).
  Hence the pipes hold at most one frame of each request, and only of those that
  wait (`PipeInv`), and disconnect is sent behind attach (`AttachInv`, `BeforeInv`).
  Second, the parts that say what the frames and answers under way have come to:
  the call of a frame, once made, has its effect (`CallInv`, with `Paused` and `Bps` for
  the engine as it will be when the call on the wire has been served); an adapter
  without client, after it has had one, leaves the engine running (`ResumedInv`); the
  last answer under way about the engine is true of it, or without one the editor is
  (`ShownInv`); the last list of breakpoints under way is the mirror (`MirrorInv`); the
  calls made for a list clear before they set, and set every line of it that is not
  set already (`InstallInv`); without a list under way the mirror is installed
  (`VerifiedInv`). The properties are `ResumedInv`, `ShownInv` and `VerifiedInv` at the
  moments the properties speak of. `DebugAssumption`: the lists of a request are of the
  session's lines, and the set of these is finite, as a file has finitely many, which makes the clearing and setting loops sequences.
* **`Editors_proofs`**, of `LdCanvas` — `DiagramWellFormed`, `BranchesRewired`,
  `RungsUntouched`, `TextIsComplete`. The invariant (`CanvasInv`) is `GraphOK` (a diagram of
  the right type, well formed), rungs with ids of their own, one id at most on the
  clipboard, and a number for `extras`. Each operation has one lemma, called after it
  (`AddContactOK` ... `DeleteElementOK`), with all it does: it keeps `GraphOK`, it is
  `Edited`, and it touches one rung. `GestureOK` composes them to gestures.
  *Well-formedness.* Insertions, removals and filters are lemmas about sequences
  (`InsertLists`, `Removed`, `DropLists`); rewiring adds wires between what a rung lists, its
  anchor's successor and the rails (`RewireJoins`, `RewireSeriesJoins`). That branches
  list contacts only is part of `WellFormed`, because replacing an element must not turn
  a member into something the text would leave out.
  *Branches.* What is rewired is wired (`BranchesOK`, `SeriesOK`); where a gesture has
  two operations, the first (opening a branch, replacing an element) moves nobody, so
  that what the second says of the rungs is said of the gesture (`EditedAfter`). Two deletions both change several rungs at once, so
  for them the invariant of the step is finer: rungs only lose nodes, keep their place,
  and those that lose something end up wired (`Pruned`, `PrunedTwice`).
  *Other rungs.* An operation `Spares` the wires that touch no node of its own rung and
  are not between the rails; nodes of other rungs are never its own (`RungsApart`), so the wires
  of those rungs stay although the rails are shared (`Others`).
  *The text.* The text of a series element is the element and the branch it anchors
  (`PieceLists`); different series elements stand for different nodes, different rungs
  have no node in common, and what the validator accepts has no contact or coil
  outside the rungs. Concatenation then lists everybody once.
  `Drop` and `FlattenSeq` are recursive functions; that their recursion has a solution and
  what it lists is shown without an induction theorem: the set of lengths for which the claim
  holds contains 0 and with each length its successor, and a set of naturals outside it would
  have a least element (`LeastElement`, `NaturalsIn`, `DropExists`, `FlattenExists`).
  `IdsAssumption`: the ids of the rails are not given to elements.
* **`Editors_proofs`**, of `LdHistory` — `HistoryIsOK`, `HistoryRefines`. `HistoryOK` is inductive as it
  stands. Saves, writes and compilations leave the snapshots and the pointer alone,
  so that for both theorems only edit, undo and redo count (lemma `ModelAlone`). An
  edit below the limit appends to the past; at the limit it drops the oldest
  diagram and the pointer stays, which is the abstract `Tail` of the past. The two
  cases are lemmas about slices of sequences (`EditBelowLimit`, `EditAtLimit`), the
  second of which covers the limit of one, where nothing is remembered. `MaxUndoAssumption`: the limit is positive.
* **`Editors_proofs`**, of `FbdDiagram` — `NoneDangles`, from any file. Types are the only
  invariant, because ids may repeat. Each operation but the creation of a node and the retyping of a gate
  `Serves`: it leaves a diagram, and where ids differed they still do and the references
  still resolve if they did (for a new node: if its id is new); one lemma per operation, and `DeletedOK` for the gesture that
  deletes. That one takes the selected wires one after the other, each with the other
  wires of its pin, and looks each time whether the next is still there; the claim is
  carried along the list as it is for `Drop`. A node that is deleted takes the wires of
  both its directions. Where ids differ, the first and the last node of an id are the same
  (`NodeIs`), so that what `findNode` let pass is what the validator looks for. A block
  that is retyped keeps a wire whose pin is named in any
  of the lists of its new type: that the name is then on the side the wire needs
  is `PinsAssumption`, which says that no block has an input named like an output
  of another. The registry meets it (`fbd-fb-registry.ts:31-63`), and so do
  the generic pins of a block it does not know. Retyping a gate keeps all wires and is excluded
  by the property (section 4). `FilesAssumption`: what is opened is a diagram.

Model-checked only: all liveness (`StepServed`, `StopParkedEnds`, `StopEndsOrHolds`,
`AcceptedIsSettled`, `ExitedIsRevived`, `CyclesWithoutComputed`, `RequestsAnswered`,
`EveryRequestSettles`), which needs fairness and is beyond this prover; and
`FbdCompile` with `TextOrdered`, `LoopsAreReal` and `ValuesArrive`: its searches are
recursive operators, with which the prover does not work, and the properties are
about what such a search computes for every diagram.
`ResponseMatchesRequest` and the properties of section 4 are false.

## 6. Not modelled, and the plan

Left out on purpose: weak memory (the flags and the generation counter are SeqCst;
`cycle_count` and the middleware's lock level are Relaxed, and neither is
used to order anything else),
lock poisoning, the contents of programs, layouts and frames, logging and metrics,
`try_wait` errors, the cycle-less `Engine::start` used by unit tests; in the IDE
positions, names and comments, the operators of the compiled text, the operations
only tests call (`connectWire`, `addPowerRail`), the stub bridge, the N-API crate, the
backend service and the views. Outside the model altogether: the Rust compilers
and motion profiles (text and arithmetic without state), Zenoh (a skeleton), and
`.agents/skills/archify`, a vendored drawing tool of the authors' coding agent that is
no part of the controller or the IDE.

Next, in this order:

1. `EngineControl` with `Lifecycle`: a paused engine supervises nobody; and with
   the boundary modules, so that their fairness is derived from the gate.
2. `IpcSession` with bounded sockets and the lock of the subscription table held
   while writing: one client that does not read stalls the cycle
   (`engine.rs:320`); then frames in parts with read timeouts (`ipc.rs:577`).
3. `Agent`: restart budget that is never given back, order of shutdown; an abstract
   supervisor that both it and `Lifecycle` implement or fail to.
4. The middleware: RPC with timeouts and late results, streams with their overflow
   policies against an abstract bounded queue, callbacks under the table's lock,
   the two steps of its `set_lock_level`.
5. `ModbusAdapter`: write cache against device and wire; `ConfigWatcher`: mtime and
   half-written files; executor timers and counters as functions checked against
   reference definitions; homing.
6. Proofs: `TextOrdered` and `ValuesArrive`, with the sort of `convertGraphToIl` as a
   recursive function.
