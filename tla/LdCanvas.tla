------------------------------ MODULE LdCanvas ------------------------------
(***************************************************************************)
(* The ladder canvas: the gestures of LdCanvas.tsx, each of which applies   *)
(* one or more operations of LdGraph to the diagram inside one tryApply,    *)
(* so that a gesture either takes effect as a whole or is refused as a      *)
(* whole (a refusal only sets the status text and is a stuttering step).    *)
(* moveRung and deleteRung, which no gesture uses yet but the handler        *)
(* offers, are in HandlerOps.                                               *)
(*                                                                          *)
(* Undo and redo put back a diagram that was current before; they are       *)
(* LdHistory's subject, where the diagram is an opaque value.  Init, Next,  *)
(* Spec and vars carry the name of this module: one module of proofs        *)
(* extends both.                                                            *)
(***************************************************************************)
EXTENDS LdGraph, FiniteSets

CONSTANTS Ids,        \* ids that generateId may give to the elements created
          RungIds,    \* ids of rungs
          MaxExtras   \* bound: copies, cuts and deleted wires, in all

ASSUME IdsAssumption == LeftRail \notin Ids /\ RightRail \notin Ids

VARIABLES graph,      \* the current diagram, LdGModelState.graph
          clipboard,  \* clipboardRef: the ids copied or cut last
          branchMode, \* the anchor of the branch being edited, or NoNode
          extras      \* copies, cuts and deleted wires so far

canvasVars == <<graph, clipboard, branchMode, extras>>

Kinds == {"contact", "coil", "fb"}
Rails == {LeftRail, RightRail}
RungsOf(g) == ToSet(g.rungs)
EmptyGraph == [kind |-> EmptyFn, wires |-> {}, rungs |-> <<>>]

\* A new id is one nothing refers to any more.
Fresh == Ids \ (Nodes(graph) \cup clipboard \cup {branchMode})
Elements == Nodes(graph) \ Rails

\* parseInitialGraph on an empty file: one rung and the two rails.
CanvasInit == /\ \E r \in RungIds : graph = AddRung(EmptyGraph, r)
              /\ clipboard = {} /\ branchMode = NoNode /\ extras = 0

Apply(g) == graph' = g /\ UNCHANGED <<clipboard, branchMode, extras>>

\* The slots markers and drops offer: one before each element of the series
\* that is not a coil, and one behind the last.
Slots(rung) == 0..Cardinality({j \in DOMAIN rung.elems : ~IsKind(graph, rung.elems[j], "coil")})

------------------------------------------------------------------------------
\* onNodeClick on a diamond marker with a tool chosen.
PlaceContact == \E i \in DOMAIN graph.rungs, id \in Fresh : \E at \in Slots(graph.rungs[i]) :
  CanAddContact(graph, i, at) /\ Apply(AddContact(graph, i, at, id))
PlaceFb == \E i \in DOMAIN graph.rungs, id \in Fresh : \E at \in Slots(graph.rungs[i]) :
  Apply(AddFb(graph, i, at, id))
PlaceCoil == \E i \in DOMAIN graph.rungs, id \in Fresh :
  CanAddCoil(graph, i) /\ Apply(AddCoil(graph, i, id))

\* The Insert Network entry.
InsertNetwork == \E r \in RungIds \ {x.id : x \in RungsOf(graph)} : Apply(AddRung(graph, r))

EnterBranch(g, a) == graph' = g /\ branchMode' = a /\ UNCHANGED <<clipboard, extras>>

\* openBranchAt, the branch tool: refused while another branch is open, and
\* an existing branch is entered again as it is.
OpenBranchAt == \E i \in DOMAIN graph.rungs : \E a \in Series(graph.rungs[i]) :
  /\ branchMode = NoNode /\ IsKind(graph, a, "contact")
  /\ EnterBranch(IF HasBranch(graph, a) THEN graph ELSE OpenBranch(graph, i, a), a)

\* openBranchFromMarker, from a marker, a wire or the rung's menu: a new
\* branch gets its first member at once, and no branch mode is asked for.
OpenBranchFromMarker == \E i \in DOMAIN graph.rungs : \E a \in Series(graph.rungs[i]) :
  \/ HasBranch(graph, a) /\ EnterBranch(graph, a)
  \/ \E id \in Fresh :
       /\ CanOpenBranch(graph, i, a)
       /\ EnterBranch(AddBranchContact(OpenBranch(graph, i, a), a, id), a)

\* onNodeClick on a green marker.
AddBranchMember == \E id \in Fresh :
  HasBranch(graph, branchMode) /\ Apply(AddBranchContact(graph, branchMode, id))

LeaveBranch(g) == EnterBranch(g, NoNode)
CloseBranch == CanCloseBranch(graph, branchMode) /\ LeaveBranch(graph)
\* The branch of the mode may be gone with its anchor: the mode ends anyway.
CancelBranch ==
  /\ branchMode # NoNode
  /\ LeaveBranch(IF HasBranch(graph, branchMode) THEN DeleteBranch(graph, branchMode)
                                                 ELSE graph)

\* onDelete with one element selected, or with two in the order React Flow
\* lists them: the second has to be there still, or nothing is deleted.
DeleteOne == \E x \in Elements : Apply(DeleteElement(graph, x))
DeleteTwo == \E x, y \in Elements :
  LET g == DeleteElement(graph, x)
  IN  x # y /\ CanDelete(g, y) /\ Apply(DeleteElement(g, y))

\* onNodeDragStop: the drop lands in a slot of the element's rung, ...
DropInSlot == \E x \in Elements :
  /\ CanReorder(graph, x)
  /\ \E at \in Slots(graph.rungs[RungIndexOf(graph, x)]) : Apply(ReorderElement(graph, x, at))
\* ... or on another element of its kind, whose definition it becomes.
DropOnElement == \E x, y \in Elements :
  LET g == ReplaceElement(graph, y, x)
  IN  x # y /\ CanReplace(graph, y, x) /\ CanDelete(g, x) /\ Apply(DeleteElement(g, x))

Extra == extras < MaxExtras /\ extras' = extras + 1
DoCopy == \E x \in Elements : Extra /\ clipboard' = {x} /\ UNCHANGED <<graph, branchMode>>
\* The clipboard keeps the id of the element that is deleted.
DoCut == \E x \in Elements :
  Extra /\ clipboard' = {x} /\ graph' = DeleteElement(graph, x) /\ UNCHANGED branchMode
\* Behind the selected element, at the end of the selected rung, or at the
\* front of the first rung.
DoPaste == \E i \in DOMAIN graph.rungs, id \in Fresh, x \in clipboard :
  \E at \in 0..Len(graph.rungs[i].elems) :
    /\ (at = 0 => i = 1 \/ graph.rungs[i].elems = <<>>)
    /\ CanPaste(graph, clipboard) /\ Apply(PasteElement(graph, x, i, at, id))

\* onDelete with a wire selected.
DeleteWire == \E w \in graph.wires :
  Extra /\ graph' = DisconnectWire(graph, w) /\ UNCHANGED <<clipboard, branchMode>>

HandlerOps ==
  \/ \E i \in DOMAIN graph.rungs : CanDeleteRung(graph, i) /\ Apply(DeleteRung(graph, i))
  \/ \E i, j \in DOMAIN graph.rungs : i # j /\ Apply(MoveRung(graph, i, j))

CanvasNext == \/ PlaceContact \/ PlaceFb \/ PlaceCoil \/ InsertNetwork
              \/ OpenBranchAt \/ OpenBranchFromMarker \/ AddBranchMember
              \/ CloseBranch \/ CancelBranch \/ DeleteOne \/ DeleteTwo \/ DeleteWire
              \/ DropInSlot \/ DropOnElement \/ DoCopy \/ DoCut \/ DoPaste
              \/ HandlerOps
CanvasSpec == CanvasInit /\ [][CanvasNext]_canvasVars
------------------------------------------------------------------------------
(* Properties.                                                             *)

WiresJoin(g) == g.wires \subseteq Nodes(g) \X Nodes(g)

\* Whom a rung lists: elements of the diagram, each once, and branches of
\* contacts that hang off contacts of its series.
RungWellFormed(g, rung) ==
  /\ Placed(rung) \subseteq Nodes(g) \ Rails
  /\ IsInjective(rung.elems)
  /\ \A a \in DOMAIN rung.branches :
       /\ a \in Series(rung) /\ IsKind(g, a, "contact")
       /\ IsInjective(rung.branches[a])
       /\ \A m \in ToSet(rung.branches[a]) : IsKind(g, m, "contact")
       /\ ToSet(rung.branches[a]) \cap Series(rung) = {}
  /\ \A a, b \in DOMAIN rung.branches :
       a # b => ToSet(rung.branches[a]) \cap ToSet(rung.branches[b]) = {}

RungsApart(g) == \A i, j \in DOMAIN g.rungs :
  i # j => Placed(g.rungs[i]) \cap Placed(g.rungs[j]) = {}

\* Every reference inside the diagram resolves, whatever the gestures: wires
\* join nodes that exist, rungs and branches list nodes of theirs and of no
\* other place, and a branch hangs off a contact in the series of its own
\* rung.  deleteElement has to cascade from an anchor to its members for
\* this, and every insertion has to keep the branches that are there.
WellFormed == /\ WiresJoin(graph)
              /\ \A rung \in RungsOf(graph) : RungWellFormed(graph, rung)
              /\ RungsApart(graph)

BranchesWired(g, rung) ==
  \A a \in DOMAIN rung.branches : rung.branches[a] # <<>> => BranchWires(g, rung, a) \subseteq g.wires

Contents(rung) == <<rung.elems, Placed(rung)>>

\* An edit that changes what is on a rung leaves every branch of that rung
\* wired: from the anchor through the members to the element that now
\* follows the anchor, also when it is that element that came or went, and
\* also when a wire of the branch had been cut before.
ChainsRewired ==
  [][\A i \in DOMAIN graph.rungs, j \in DOMAIN graph'.rungs :
       /\ graph.rungs[i].id = graph'.rungs[j].id
       /\ Contents(graph.rungs[i]) # Contents(graph'.rungs[j])
       => BranchesWired(graph', graph'.rungs[j])]_canvasVars

\* Wires of a rung: those between its nodes, or between them and a rail.
OwnWires(g, rung) == {w \in g.wires : /\ {w[1], w[2]} \subseteq Placed(rung) \cup Rails
                                      /\ ~({w[1], w[2]} \subseteq Rails)}

\* The rails are shared by all rungs: an edit, with all the rewiring it
\* does, changes the wires of two rungs only when it changes what is on both.
OtherRungsUntouched ==
  [][extras' = extras /\ graph'.wires # graph.wires =>
       \A i, k \in DOMAIN graph.rungs :
         i # k /\ graph.rungs[i] \in RungsOf(graph')
           => \/ OwnWires(graph', graph.rungs[i]) = OwnWires(graph, graph.rungs[i])
              \/ \E rung \in RungsOf(graph') :
                   /\ rung.id = graph.rungs[k].id
                   /\ OwnWires(graph', rung) = OwnWires(graph, graph.rungs[k])]_canvasVars

\* The text compiled from a diagram the validator accepts names every
\* contact and every coil of the diagram exactly once: none the user sees is
\* missing from the program that runs.  Function blocks have no text at
\* all (graphToLdText passes over them).
TextComplete ==
  Valid(graph) =>
    LET text == FlattenSeq(GraphToLdText(graph))
    IN  /\ IsInjective(text)
        /\ ToSet(text) = {x \in Elements : graph.kind[x] \in {"contact", "coil"}}
============================================================================
