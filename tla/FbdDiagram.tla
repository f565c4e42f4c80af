----------------------------- MODULE FbdDiagram -----------------------------
(***************************************************************************)
(* The function block editor: the diagram, the operations of               *)
(* FbdOperationHandler and the gestures of FbdCanvas that use them.         *)
(*                                                                          *)
(* A diagram is a record of two lists, whose orders decide what the         *)
(* compiler emits:                                                          *)
(*   nodes : sequence of [id, type];                                        *)
(*   edges : sequence of [id, src, out, dst, in], a wire from an output pin *)
(*           to an input pin.                                               *)
(* The pins of a node follow from its type, in a file too.  Positions and   *)
(* sizes are left out, and with them moveElement.  An operation the handler *)
(* refuses leaves the diagram alone.  Undo and redo are those of LdHistory. *)
(*                                                                          *)
(* Ids are no keys.  generateId counts from 1 in every session and knows    *)
(* nothing of the ids in a file that is opened, so an id may come twice,    *)
(* though a gate never has the id of a block.  A find() on the list then    *)
(* sees the first node, a Map made of it the last.                          *)
(*                                                                          *)
(* FbdInit, FbdNext and FbdSpec carry the name of the editor: one module of *)
(* proofs extends this one and the ladder editor.                           *)
(***************************************************************************)
EXTENDS Integers, FiniteSets, SequencesExt, Functions, Filters

CONSTANTS GateIds,    \* ids that generateId may give to gates,
          BlockIds,   \* to function blocks
          WireIds,    \* and to wires
          Gates,      \* gate types
          Blocks,     \* function block types
          Inputs,     \* for each type, a function from its input pins to data types
          Outputs,    \* the same for its output pins
          Files,      \* diagrams that a file may hold
          MaxNodes,   \* bound: nodes in the diagram
          MaxEdges,   \* bound: wires in the diagram
          MaxSelected \* bound: nodes and wires deleted at once

FbdIds == GateIds \cup BlockIds
Types == Gates \cup Blocks
Pins == UNION {DOMAIN Inputs[t] \cup DOMAIN Outputs[t] : t \in Types}
FbdNodes == [id : GateIds, type : Gates] \cup [id : BlockIds, type : Blocks]
FbdEdges == [id : WireIds, src : FbdIds, out : Pins, dst : FbdIds, in : Pins]
FbdGraphs == [nodes : Seq(FbdNodes), edges : Seq(FbdEdges)]

\* No name is an input pin of one block and an output pin of another.
ASSUME PinsAssumption ==
  /\ Gates \cap Blocks = {} /\ GateIds \cap BlockIds = {}
  /\ Types \subseteq DOMAIN Inputs /\ Types \subseteq DOMAIN Outputs
  /\ \A t \in Gates : DOMAIN Inputs[t] \cap DOMAIN Outputs[t] = {}
  /\ \A t, u \in Blocks : DOMAIN Inputs[t] \cap DOMAIN Outputs[u] = {}

\* fromJSON asks for two lists; where the wires of a file lead is not looked at.
ASSUME FilesAssumption == Files \subseteq FbdGraphs

VARIABLE fbd    \* the current diagram, FbdGModelState.graph

NodeIds(g) == {n.id : n \in ToSet(g.nodes)}
Places(g, id) == {i \in DOMAIN g.nodes : g.nodes[i].id = id}

\* The type of a node by the Map nodeById, and by findNode.
TypeOf(g, id) == g.nodes[Max(Places(g, id))].type
FoundType(g, id) == g.nodes[Min(Places(g, id))].type
InputsOf(g, id) == DOMAIN Inputs[TypeOf(g, id)]
OutputsOf(g, id) == DOMAIN Outputs[TypeOf(g, id)]

\* parseInitialGraph: createFbdGraph, or what the file holds.
EmptyDiagram == [nodes |-> <<>>, edges |-> <<>>]
FbdInit == fbd \in Files \cup {EmptyDiagram}

-----------------------------------------------------------------------------
(* Operations.                                                             *)

\* The palette and a click on the canvas: createGate, createFunctionBlock.
Create == \E n \in FbdNodes :
  Len(fbd.nodes) < MaxNodes /\ fbd' = [fbd EXCEPT !.nodes = Append(@, n)]

Fits(from, to) == from = to \/ (from = "INT" /\ to = "REAL")

\* The ends between which connectPins draws a wire; if there is one already it
\* changes nothing.
Ends(e) == <<e.src, e.out, e.dst, e.in>>
CanConnect(g, a, p, b, q) ==
  /\ p \in DOMAIN Outputs[FoundType(g, a)] /\ q \in DOMAIN Inputs[FoundType(g, b)]
  /\ Fits(Outputs[FoundType(g, a)][p], Inputs[FoundType(g, b)][q])
  /\ <<a, p, b, q>> \notin {Ends(e) : e \in ToSet(g.edges)}

Connect ==
  /\ Len(fbd.edges) < MaxEdges
  /\ \E a, b \in NodeIds(fbd) :
       \E p \in DOMAIN Outputs[FoundType(fbd, a)], q \in DOMAIN Inputs[FoundType(fbd, b)] :
         /\ CanConnect(fbd, a, p, b, q)
         /\ \E w \in WireIds : fbd' = [fbd EXCEPT !.edges =
              Append(@, [id |-> w, src |-> a, out |-> p, dst |-> b, in |-> q])]

WithoutEdges(g, gone) == [g EXCEPT !.edges = Drop(@, gone)]
WithoutNodes(g, gone) == [g EXCEPT !.nodes = Drop(@, {n \in ToSet(g.nodes) : n.id \in gone})]

\* Faulty variant: only the wires that leave the node go with it.
DeleteElementsForward(g, gone) ==
  WithoutEdges(WithoutNodes(g, gone), {e \in ToSet(g.edges) : e.src \in gone})

\* deleteElement, for each of the nodes.
DeleteElements(g, gone) ==
  WithoutEdges(WithoutNodes(g, gone), {e \in ToSet(g.edges) : e.src \in gone \/ e.dst \in gone})

DisconnectPin(g, id, pin) ==
  WithoutEdges(g, {e \in ToSet(g.edges) : <<id, pin>> \in {<<e.src, e.out>>, <<e.dst, e.in>>}})

\* onDelete: the selected nodes, then each selected wire whose id is still
\* there, with every other wire of the pin it comes from.
StillThere(g, e) == e.id \in {w.id : w \in ToSet(g.edges)}
Deletions(g, gone, wires) ==
  LET after[k \in 0..Len(g.edges)] ==
        IF k = 0 THEN DeleteElements(g, gone)
        ELSE LET e == g.edges[k]
                 h == after[k - 1]
             IN  IF e \in wires /\ StillThere(h, e) THEN DisconnectPin(h, e.src, e.out) ELSE h
  IN  after

\* A wire by an id of another makes disconnectPin ask for a node that is gone:
\* it throws, and nothing at all is deleted.
Throws(g, gone, wires) ==
  \E k \in DOMAIN g.edges :
    /\ g.edges[k] \in wires /\ g.edges[k].src \notin NodeIds(g) \ gone
    /\ StillThere(Deletions(g, gone, wires)[k - 1], g.edges[k])

OnDelete ==
  \E gone \in SUBSET NodeIds(fbd), wires \in SUBSET ToSet(fbd.edges) :
    /\ Cardinality(gone) + Cardinality(wires) <= MaxSelected
    /\ ~Throws(fbd, gone, wires)
    /\ fbd' = Deletions(fbd, gone, wires)[Len(fbd.edges)]

\* Operations that no gesture uses yet, on the node findNode gives.
Found(g) == {i \in DOMAIN g.nodes : i = Min(Places(g, g.nodes[i].id))}
ChangeGateType(g, i, t) == [g EXCEPT !.nodes[i].type = t]
ChangeFbType(g, i, t) ==
  LET pins == DOMAIN Inputs[t] \cup DOMAIN Outputs[t]
  IN  WithoutEdges([g EXCEPT !.nodes[i].type = t],
                   {e \in ToSet(g.edges) : \/ e.src = g.nodes[i].id /\ e.out \notin pins
                                           \/ e.dst = g.nodes[i].id /\ e.in \notin pins})

FbdHandlerOps ==
  \/ \E i \in Found(fbd), t \in Gates :
       fbd.nodes[i].type \in Gates \ {t} /\ fbd' = ChangeGateType(fbd, i, t)
  \/ \E i \in Found(fbd), t \in Blocks :
       fbd.nodes[i].type \in Blocks \ {t} /\ fbd' = ChangeFbType(fbd, i, t)
  \/ \E e \in ToSet(fbd.edges) :
       \E end \in {<<e.src, e.out>>, <<e.dst, e.in>>} :
         end[1] \in NodeIds(fbd) /\ fbd' = DisconnectPin(fbd, end[1], end[2])

FbdNext == Create \/ Connect \/ FbdHandlerOps \/ OnDelete
FbdSpec == FbdInit /\ [][FbdNext]_fbd

-----------------------------------------------------------------------------
(* What the validator says of wires, and what keeps it true.               *)

\* The errors of validateGraph but for loops; the rest of its findings are
\* warnings.
Resolves(g, e) ==
  /\ {e.src, e.dst} \subseteq NodeIds(g)
  /\ e.out \in OutputsOf(g, e.src) /\ e.in \in InputsOf(g, e.dst)
AllResolve(g) == \A e \in ToSet(g.edges) : Resolves(g, e)

\* "Unique identifier within the graph".
IdsDiffer(g) == \A i, j \in DOMAIN g.nodes : g.nodes[i].id = g.nodes[j].id => i = j

\* Whatever is deleted, disconnected, connected or retyped while no two nodes
\* share an id, no wire is left that points to a node or pin that is not there;
\* only a gate that changes its type keeps wires of pins it loses
\* (deleteElement, onDelete, disconnectPin, changeFbType).
GateRetyped == \E i \in DOMAIN fbd.nodes, j \in DOMAIN fbd'.nodes :
  /\ fbd.nodes[i].id = fbd'.nodes[j].id
  /\ fbd.nodes[i].type \in Gates \ {fbd'.nodes[j].type}
NoWireDangles ==
  [][IdsDiffer(fbd) /\ IdsDiffer(fbd') /\ ~GateRetyped /\ AllResolve(fbd) => AllResolve(fbd')]_fbd
=============================================================================
