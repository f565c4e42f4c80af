------------------------------ MODULE LdGraph ------------------------------
(***************************************************************************)
(* The ladder diagram and the operations that edit it: class               *)
(* LdOperationHandler of weftik-ld-editor, every one a pure function from   *)
(* a graph to a graph.  An operation the handler refuses throws and leaves  *)
(* the graph alone, so each one here has a guard operator Can... for the    *)
(* throws and a value operator for the graph it returns.                    *)
(*                                                                          *)
(* A graph is a record                                                      *)
(*   kind  : function from the ids of its nodes to "contact", "coil", "fb", *)
(*           "left" or "right" (the two power rails);                       *)
(*   wires : set of <<source id, target id>>;                              *)
(*   rungs : sequence of [id, elems, branches], elems the series elements   *)
(*           from left to right and branches a function from the anchor of  *)
(*           each parallel branch to the sequence of its members.           *)
(* Positions, sizes, pins, names, types and comments are left out: they do  *)
(* not decide what any operation does to the three fields above.  A branch  *)
(* is named by its anchor, openBranch refusing a second one there.  Every   *)
(* wire an operation creates either touches a node it has just created or   *)
(* takes the place of wires it has just dropped, so a set loses nothing.    *)
(***************************************************************************)
EXTENDS Integers, SequencesExt, Functions, Filters

CONSTANTS LeftRail,     \* the id of the left power rail
          RightRail,    \* the id of the right power rail
          NoNode        \* the null of the code: no such node

EmptyFn == [x \in {} |-> <<>>]
\* The function f with x mapped to y.
With(f, x, y) == [z \in DOMAIN f \cup {x} |-> IF z = x THEN y ELSE f[z]]

Nodes(g) == DOMAIN g.kind
Series(rung) == ToSet(rung.elems)
Members(rung) == UNION {ToSet(rung.branches[a]) : a \in DOMAIN rung.branches}
Placed(rung) == Series(rung) \cup Members(rung)

IndexOf(x, s) == SelectInSeq(s, LAMBDA y : y = x)

IsKind(g, id, k) == id \in Nodes(g) /\ g.kind[id] = k
OnlyIf(cond, id) == IF cond THEN id ELSE NoNode

FindCoil(g, rung) ==
  LET i == SelectInSeq(rung.elems, LAMBDA x : IsKind(g, x, "coil"))
  IN  IF i = 0 THEN NoNode ELSE rung.elems[i]
FindLeftRail(g)  == OnlyIf(LeftRail \in Nodes(g), LeftRail)
FindRightRail(g) == OnlyIf(RightRail \in Nodes(g), RightRail)

\* a ?? b of the code
OrElse(a, b) == IF a # NoNode THEN a ELSE b

SeriesSuccessor(rung, anchor) ==
  LET i == IndexOf(anchor, rung.elems)
  IN  IF i = 0 \/ i = Len(rung.elems) THEN NoNode ELSE rung.elems[i + 1]

\* The rung an element is a series element of, and the one a branch is on.
RungIndexOf(g, id)  == SelectInSeq(g.rungs, LAMBDA r : id \in Series(r))
RungIndexById(g, r) == SelectInSeq(g.rungs, LAMBDA x : x.id = r)
BranchRungIndex(g, a) == SelectInSeq(g.rungs, LAMBDA r : a \in DOMAIN r.branches)

Wire(a, b) == IF NoNode \in {a, b} THEN {} ELSE {<<a, b>>}
Touching(wires, ids) == {w \in wires : w[1] \in ids \/ w[2] \in ids}
\* The chain of wires along a sequence of ids.
Chain(s) == {<<s[i], s[i + 1]>> : i \in 1..(Len(s) - 1)}

------------------------------------------------------------------------------
(* Rewiring.                                                               *)

\* The wires a branch has after rewireRungBranches: the anchor, the members
\* and the anchor's successor (else the right rail), or the plain series wire
\* of a branch without members.
BranchWires(g, rung, a) ==
  LET ms   == rung.branches[a]
      succ == SeriesSuccessor(rung, a)
  IN  IF ms = <<>> THEN Wire(a, succ)
      ELSE Chain(<<a>> \o ms) \cup Wire(Last(ms), OrElse(succ, FindRightRail(g)))

OldBranchWires(g, rung) ==
  Touching(g.wires, Members(rung))
  \cup {<<a, SeriesSuccessor(rung, a)>> : a \in DOMAIN rung.branches}

RewireBranches(g, rungs) ==
  [g EXCEPT !.wires = (@ \ UNION {OldBranchWires(g, rung) : rung \in rungs})
     \cup UNION {UNION {BranchWires(g, rung, a) : a \in DOMAIN rung.branches} : rung \in rungs}]

RewireRungBranches(g, rung) == RewireBranches(g, {rung})

\* Faulty variant: the wires of the rails are rewired with the rung's.
RewireRungSeriesGreedy(g, rung) ==
  IF rung.elems = <<>> THEN g
    ELSE LET chain == Wire(FindLeftRail(g), Head(rung.elems)) \cup Chain(rung.elems)
                      \cup Wire(Last(rung.elems), OrElse(FindCoil(g, rung), FindRightRail(g)))
             kept  == g.wires \ Touching(g.wires, Series(rung) \cup {LeftRail, RightRail})
         IN  RewireRungBranches([g EXCEPT !.wires = kept \cup chain], rung)

RewireRungSeries(g, rung) ==
  IF rung.elems = <<>> THEN g
    ELSE LET target == OrElse(FindCoil(g, rung), FindRightRail(g))
             last   == Last(rung.elems)
             kept   == g.wires \ Touching(g.wires, Series(rung))
             chain  == Wire(FindLeftRail(g), Head(rung.elems)) \cup Chain(rung.elems)
                       \cup (IF target = last THEN {} ELSE Wire(last, target))
         IN  RewireRungBranches([g EXCEPT !.wires = kept \cup chain], rung)

\* The graph with rung i replaced, and with a node added.
SetRung(g, i, rung) == [g EXCEPT !.rungs[i] = rung]
AddNode(g, id, k)   == [g EXCEPT !.kind = With(@, id, k)]
AddWires(g, ws)     == [g EXCEPT !.wires = @ \cup ws]
DropNodes(g, ids)   == [g EXCEPT !.kind = Restrict(@, DOMAIN @ \ ids),
                                 !.wires = @ \ Touching(@, ids)]

------------------------------------------------------------------------------
(* Elements in series.  A slot is a 0-based insertion index.               *)

Slot(at, s) == IF at > Len(s) THEN Len(s) ELSE at
Insert(s, at, t) == SubSeq(s, 1, at) \o t \o SubSeq(s, at + 1, Len(s))

CanAddContact(g, i, at) ==
  LET rung == g.rungs[i]
      coil == FindCoil(g, rung)
  IN  coil # NoNode => at < IndexOf(coil, rung.elems)

\* Faulty variant: the branches are not rewired after an insertion.
AddContactUnwired(g, i, at, id) ==
  LET rung == g.rungs[i]
      slot == Slot(at, rung.elems)
      new  == [rung EXCEPT !.elems = Insert(@, slot, <<id>>)]
      prev == IF slot = 0 THEN FindLeftRail(g) ELSE rung.elems[slot]
  IN  AddWires(SetRung(AddNode(g, id, "contact"), i, new), Wire(prev, id))

AddContact(g, i, at, id) ==
  LET rung  == g.rungs[i]
      slot  == Slot(at, rung.elems)
      new   == [rung EXCEPT !.elems = Insert(@, slot, <<id>>)]
      prev  == IF slot = 0 THEN FindLeftRail(g) ELSE rung.elems[slot]
      after == IF slot = Len(rung.elems)
                 THEN Wire(id, OrElse(FindCoil(g, rung), FindRightRail(g)))
                 ELSE {}
  IN  RewireRungBranches(
        AddWires(SetRung(AddNode(g, id, "contact"), i, new), Wire(prev, id) \cup after), new)

AddFb(g, i, at, id) ==
  LET rung == g.rungs[i]
      slot == Slot(at, rung.elems)
      new  == [rung EXCEPT !.elems = Insert(@, slot, <<id>>)]
      prev == IF slot = 0 THEN FindLeftRail(g) ELSE rung.elems[slot]
      succ == OrElse(SeriesSuccessor(new, id), OrElse(FindCoil(g, rung), FindRightRail(g)))
  IN  RewireRungBranches(
        AddWires(SetRung(AddNode(g, id, "fb"), i, new), Wire(prev, id) \cup Wire(id, succ)), new)

LastContact(g, rung) == SelectLastInSeq(rung.elems, LAMBDA x : IsKind(g, x, "contact"))
CanAddCoil(g, i) == LastContact(g, g.rungs[i]) # 0

AddCoil(g, i, id) ==
  LET rung == g.rungs[i]
      new  == [rung EXCEPT !.elems = Append(@, id)]
      fed  == AddWires(SetRung(AddNode(g, id, "coil"), i, new),
                       Wire(rung.elems[LastContact(g, rung)], id))
  IN  AddWires(RewireRungBranches(fed, new), Wire(id, FindRightRail(g)))

\* Faulty variant: the branch of a deleted anchor stays.
PruneRungKeepsBranch(rung, id, gone) ==
  LET left(a) == Drop(rung.branches[a], {id})
      kept == {a \in DOMAIN rung.branches : left(a) # <<>>}
  IN  [rung EXCEPT !.elems = Drop(@, gone), !.branches = [a \in kept |-> left(a)]]

\* What deleting a node leaves of a rung: it and the members of the branch it
\* anchors go, and so does every branch that has no members (left).
PruneRung(rung, id, gone) ==
  LET left(a) == Drop(rung.branches[a], {id})
      kept == {a \in DOMAIN rung.branches \ {id} : left(a) # <<>>}
  IN  [rung EXCEPT !.elems = Drop(@, gone), !.branches = [a \in kept |-> left(a)]]

\* The rungs that lose something are rewired: the one of the element, and any
\* with a branch still without members.  (A branch dropped with its anchor
\* counts through the anchor, which leaves the series too.)  Rungs share no
\* node but the rails, so that the order in which they are rewired is all one.
CanDelete(g, id) == id \in Nodes(g)
DeleteElement(g, id) ==
  LET gone == {id} \cup UNION {IF id \in DOMAIN g.rungs[i].branches
                                 THEN ToSet(g.rungs[i].branches[id]) ELSE {}
                                 : i \in DOMAIN g.rungs}
      pruned == [i \in DOMAIN g.rungs |-> PruneRung(g.rungs[i], id, gone)]
  IN  RewireBranches([DropNodes(g, gone) EXCEPT !.rungs = pruned],
                     ToSet(pruned) \ ToSet(g.rungs))

CanReorder(g, id) == /\ RungIndexOf(g, id) # 0
                     /\ id # FindCoil(g, g.rungs[RungIndexOf(g, id)])
\* The target index is computed after the element is taken out and is then
\* lowered by one when the element moves to the right.
ReorderElement(g, id, at) ==
  LET i    == RungIndexOf(g, id)
      rung == g.rungs[i]
      from == IndexOf(id, rung.elems) - 1
      rest == Drop(rung.elems, {id})
      to   == IF from < Slot(at, rest) THEN Slot(at, rest) - 1 ELSE Slot(at, rest)
      new  == [rung EXCEPT !.elems = Insert(rest, to, <<id>>)]
  IN  RewireRungBranches(RewireRungSeries(SetRung(g, i, new), new), new)

\* Paste clones each copied node that still exists under a fresh id.
CanPaste(g, copied) == \E id \in copied : id \in Nodes(g) /\ g.kind[id] \notin {"left", "right"}
PasteElement(g, source, i, at, id) ==
  LET rung == g.rungs[i]
      new  == [rung EXCEPT !.elems = Insert(@, Slot(at, @), <<id>>)]
  IN  RewireRungSeries(SetRung(AddNode(g, id, g.kind[source]), i, new), new)

\* The replaced node keeps its id, place and wires and takes another node's
\* definition; with the kinds equal nothing this model keeps changes.
CanReplace(g, target, source) ==
  {target, source} \subseteq Nodes(g) /\ g.kind[target] = g.kind[source]
ReplaceElement(g, target, source) == [g EXCEPT !.kind[target] = g.kind[source]]

------------------------------------------------------------------------------
(* Wires, rungs, rails and branches.                                       *)

DisconnectWire(g, w) == [g EXCEPT !.wires = @ \ {w}]

NewRung(r) == [id |-> r, elems |-> <<>>, branches |-> EmptyFn]
AddRung(g, r) ==
  LET railed == With(With(g.kind, LeftRail, "left"), RightRail, "right")
  IN  [g EXCEPT !.rungs = Append(@, NewRung(r)), !.kind = IF g.rungs = <<>> THEN railed ELSE @]

\* Removes the series elements of the rung; the members of its branches stay.
CanDeleteRung(g, i) == Len(g.rungs) > 1
DeleteRung(g, i) ==
  [DropNodes(g, Series(g.rungs[i])) EXCEPT !.rungs = RemoveAt(@, i)]

MoveRung(g, i, j) == [g EXCEPT !.rungs = InsertAt(RemoveAt(@, i), j, @[i])]

CanOpenBranch(g, i, a) == /\ IsKind(g, a, "contact")
                          /\ a \in Series(g.rungs[i])
                          /\ a \notin DOMAIN g.rungs[i].branches
OpenBranch(g, i, a) == [g EXCEPT !.rungs[i].branches = With(@, a, <<>>)]

HasBranch(g, a) == BranchRungIndex(g, a) # 0
AddBranchContact(g, a, id) ==
  LET i   == BranchRungIndex(g, a)
      new == [g.rungs[i] EXCEPT !.branches[a] = Append(@, id)]
  IN  RewireRungBranches(SetRung(AddNode(g, id, "contact"), i, new), new)

CanCloseBranch(g, a) ==
  HasBranch(g, a) /\ g.rungs[BranchRungIndex(g, a)].branches[a] # <<>>

DeleteBranch(g, a) ==
  LET i    == BranchRungIndex(g, a)
      rung == g.rungs[i]
      new  == [rung EXCEPT !.branches = Restrict(@, DOMAIN @ \ {a})]
      bare == SetRung(DropNodes(g, ToSet(rung.branches[a])), i, new)
  IN  AddWires(RewireRungBranches(bare, new), Wire(a, SeriesSuccessor(new, a)))

------------------------------------------------------------------------------
(* Validation and the text handed to the compiler.                         *)

\* Faulty variant: nodes on no rung are not looked for.
StructurallyValidOrphans(g) ==
  /\ \A w \in g.wires : {w[1], w[2]} \subseteq Nodes(g)
  /\ \A i \in DOMAIN g.rungs :
       Placed(g.rungs[i]) \cup DOMAIN g.rungs[i].branches \subseteq Nodes(g)

\* The errors of validateGraph, without those about power rails.
StructurallyValid(g) ==
  /\ \A id \in Nodes(g) : g.kind[id] \in {"left", "right"}
                          \/ \E i \in DOMAIN g.rungs : id \in Placed(g.rungs[i])
  /\ \A w \in g.wires : {w[1], w[2]} \subseteq Nodes(g)
  /\ \A i \in DOMAIN g.rungs :
       Placed(g.rungs[i]) \cup DOMAIN g.rungs[i].branches \subseteq Nodes(g)

\* The ladder rules of validate: one coil, to the right of everything else,
\* and something in front of it.
RungValid(g, rung) ==
  LET coils == {j \in DOMAIN rung.elems : IsKind(g, rung.elems[j], "coil")}
  IN  /\ \A j, k \in coils : j = k
      /\ \A j \in coils : \A k \in DOMAIN rung.elems : k > j => k \in coils
      /\ coils # {} => \E x \in Series(rung) : IsKind(g, x, "contact") \/ IsKind(g, x, "fb")

Valid(g) == StructurallyValid(g) /\ \A i \in DOMAIN g.rungs : RungValid(g, g.rungs[i])

\* graphToLdText: the contacts and coils of the series, each followed by the
\* contacts of the branches it anchors; function blocks have no text.
RungText(g, rung) ==
  FlattenSeq([j \in DOMAIN rung.elems |->
     LET id == rung.elems[j]
         own == IF IsKind(g, id, "contact") \/ IsKind(g, id, "coil") THEN <<id>> ELSE <<>>
         ors == IF id \in DOMAIN rung.branches
                  THEN Drop(rung.branches[id], {m \in Members(rung) : ~IsKind(g, m, "contact")})
                  ELSE <<>>
     IN  own \o ors])
GraphToLdText(g) == [i \in DOMAIN g.rungs |-> RungText(g, g.rungs[i])]
============================================================================
