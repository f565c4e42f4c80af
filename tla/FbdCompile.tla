----------------------------- MODULE FbdCompile -----------------------------
(***************************************************************************)
(* What the function block editor says of a diagram: the search for         *)
(* feedback loops of its validator, and the translation of a diagram to     *)
(* instruction list text.                                                   *)
(***************************************************************************)
EXTENDS FbdDiagram

-----------------------------------------------------------------------------
(* detectCycles: a depth-first search with an explicit stack of nodes, each *)
(* with the number of its successors already looked at.                     *)

Successors(g, id) ==
  LET leaving == SelectSeq(g.edges, LAMBDA e : e.src = id /\ id \in NodeIds(g))
  IN  [i \in DOMAIN leaving |-> leaving[i].dst]

Frame(id) == [id |-> id, seen |-> 0]

\* The way down to `from` from its ancestor `to`, without the latter.
RECURSIVE Ancestors(_, _, _)
Ancestors(parent, from, to) ==
  IF from = to THEN <<>>
  ELSE Append(IF parent[from] = from THEN <<>> ELSE Ancestors(parent, parent[from], to), from)

\* Faulty variant: the loop is not turned round.
LoopBackwards(s, from, to) == <<to>> \o Reverse(Ancestors(s.parent, from, to)) \o <<to>>

Loop(s, from, to) == <<to>> \o Ancestors(s.parent, from, to) \o <<to>>

DfsStep(g, s) ==
  LET top  == Last(s.stack)
      succ == Successors(g, top.id)
      next == succ[top.seen + 1]
      rest == Append(Front(s.stack), [top EXCEPT !.seen = @ + 1])
  IN  IF top.seen = Len(succ)
        THEN [s EXCEPT !.colour[top.id] = "black", !.stack = Front(@)]
      ELSE IF s.colour[next] = "grey"
        THEN [s EXCEPT !.stack = rest, !.cycles = Append(@, Loop(s, top.id, next))]
      ELSE IF s.colour[next] = "white"
        THEN [s EXCEPT !.stack = Append(rest, Frame(next)),
                       !.colour[next] = "grey", !.parent[next] = top.id]
      ELSE [s EXCEPT !.stack = rest]

RECURSIVE Dfs(_, _)
Dfs(g, s) == IF s.stack = <<>> THEN s ELSE Dfs(g, DfsStep(g, s))

DetectCycles(g) ==
  FoldLeft(LAMBDA s, n :
             IF s.colour[n.id] # "white" THEN s
             ELSE Dfs(g, [s EXCEPT !.colour[n.id] = "grey", !.stack = <<Frame(n.id)>>]),
           [stack |-> <<>>, cycles |-> <<>>,
            colour |-> [id \in FbdIds |-> "white"],     \* also of ends that are no nodes
            parent |-> [id \in FbdIds |-> id]],         \* its own parent: none
           g.nodes).cycles

Valid(g) == AllResolve(g) /\ DetectCycles(g) = <<>>

-----------------------------------------------------------------------------
(* convertGraphToIl: Kahn's algorithm, then the instructions of each node.  *)

InDegree(g, id) == Len(SelectSeq(g.edges, LAMBDA e : e.dst = id))

\* Faulty variant: a node is ready as soon as one of its wires is served.
ServeEarly(g, s, id) ==
  FoldLeft(LAMBDA k, e :
             IF e.src # id THEN k
             ELSE [k EXCEPT !.degree[e.dst] = @ - 1,
                            !.queue = IF k.degree[e.dst] >= 1 THEN Append(@, e.dst) ELSE @],
           s, g.edges)

\* The wires that leave a sorted node, in the order of the list.
Serve(g, s, id) ==
  FoldLeft(LAMBDA k, e :
             IF e.src # id THEN k
             ELSE [k EXCEPT !.degree[e.dst] = @ - 1,
                            !.queue = IF k.degree[e.dst] = 1 THEN Append(@, e.dst) ELSE @],
           s, g.edges)

RECURSIVE Kahn(_, _)
Kahn(g, s) ==
  IF s.queue = <<>> THEN s.sorted
  ELSE LET id == Head(s.queue)
       IN  Kahn(g, Serve(g, [s EXCEPT !.queue = Tail(@), !.sorted = Append(@, id)], id))

Sorted(g) ==
  LET ids == [i \in DOMAIN g.nodes |-> g.nodes[i].id]
  IN  Kahn(g, [queue  |-> SelectSeq(ids, LAMBDA id : InDegree(g, id) = 0),
               degree |-> [id \in NodeIds(g) |-> InDegree(g, id)],
               sorted |-> <<>>])

\* The first wire of the list that satisfies a test, if any: find().
First(g, test(_)) == LET found == SelectSeq(g.edges, test)
                     IN  IF found = <<>> THEN {} ELSE {Head(found).id}

\* The variable of a wire is found by the wire's id, and named here by it.  A
\* pin reads its first wire; unwired it reads a constant.
Reads(g, id) == UNION {First(g, LAMBDA e : e.dst = id /\ e.in = p) : p \in InputsOf(g, id)}

\* Faulty variant: a block stores one output, as a gate does.
WritesOnce(g, id) == First(g, LAMBDA e : e.src = id)

\* A gate stores to its first wire, a block to the first wire of each output.
Writes(g, id) ==
  IF TypeOf(g, id) \in Gates
    THEN First(g, LAMBDA e : e.src = id)
    ELSE UNION {First(g, LAMBDA e : e.src = id /\ e.out = p) : p \in OutputsOf(g, id)}

\* The node of an id is the last that has it.
Text(g) == LET ids == Sorted(g)
           IN  [i \in DOMAIN ids |-> [id |-> ids[i], type |-> TypeOf(g, ids[i]),
                                      reads |-> Reads(g, ids[i]), writes |-> Writes(g, ids[i])]]

-----------------------------------------------------------------------------
(* Properties.                                                             *)

\* The text of a diagram the validator accepts, if no two nodes share an id,
\* has the instructions of every node once, those of a node behind those of
\* every node that feeds it.  The sort drops what is on or behind a loop
\* without a word, so it rests on the validator's search (convertGraphToIl,
\* detectCycles).
TextOrdered ==
  IdsDiffer(fbd) /\ Valid(fbd) =>
    LET ids == Sorted(fbd)
    IN  /\ IsInjective(ids) /\ ToSet(ids) = NodeIds(fbd)
        /\ \A e \in ToSet(fbd.edges) :
             \E i, j \in DOMAIN ids : ids[i] = e.src /\ ids[j] = e.dst /\ i < j

\* "Emit IL instructions per node": also when a gate that was drawn after a
\* file was opened has the id of one in the file.
EveryNodeEmitted ==
  Valid(fbd) => ToSet(fbd.nodes) \subseteq {[id |-> n.id, type |-> n.type] : n \in ToSet(Text(fbd))}

\* Each feedback loop the validator shows is one: every step of it is a wire
\* of the diagram (the parents detectCycles walks back along).
LoopsAreReal ==
  \A c \in ToSet(DetectCycles(fbd)) :
    /\ Head(c) = Last(c)
    /\ \A i \in 1 .. Len(c) - 1 :
         \E e \in ToSet(fbd.edges) : e.src = c[i] /\ e.dst = c[i + 1]

FansOut(g) == \E i, j \in DOMAIN g.edges :
  i # j /\ <<g.edges[i].src, g.edges[i].out>> = <<g.edges[j].src, g.edges[j].out>>

ReadsAreWritten(text) ==
  \A i \in DOMAIN text : \A e \in text[i].reads : \E j \in 1 .. i - 1 : e \in text[j].writes

\* In the text of an accepted diagram in which nodes and wires have ids of
\* their own and every output pin has at most one wire, each variable read was
\* stored before (emitGateNode, emitFbNode).
WireIdsDiffer(g) == \A i, j \in DOMAIN g.edges : g.edges[i].id = g.edges[j].id => i = j
ValuesArrive ==
  IdsDiffer(fbd) /\ WireIdsDiffer(fbd) /\ ~FansOut(fbd) /\ Valid(fbd) => ReadsAreWritten(Text(fbd))

\* "Represents a data flow wire between two FBD elements": also the second
\* wire of an output pin, whose variable nothing stores to.
EveryWireCarries ==
  IdsDiffer(fbd) /\ WireIdsDiffer(fbd) /\ Valid(fbd) => ReadsAreWritten(Text(fbd))
=============================================================================
