----------------------------- MODULE LdHistory -----------------------------
(***************************************************************************)
(* The document behind the ladder canvas: LdGModelState (the snapshots, the *)
(* pointer into them and the dirty flag) and LdEditorWidget, which saves    *)
(* and compiles the diagram with calls that return later, while the user    *)
(* goes on editing.  A diagram is opaque here: what an operation makes of   *)
(* it is LdGraph's subject.                                                 *)
(***************************************************************************)
EXTENDS Integers, Sequences, FiniteSets

CONSTANTS Graphs,     \* the diagrams
          MaxUndo,    \* MAX_UNDO: how many snapshots are kept
          MaxWrites,  \* bound: writes of the file under way at once
          NoGraph     \* nothing: no compilation under way, no result shown

ASSUME MaxUndoAssumption == MaxUndo \in Nat \ {0}

VARIABLES snapshots,  \* the snapshots, oldest first
          pointer,    \* the index of the current one (from 1; the code's is from 0)
          dirty,      \* _dirty
          file,       \* the diagram in the file
          writes,     \* calls of writeFile under way, each the diagram it writes
          compiling,  \* the diagram whose compilation the backend is asked for
          verdict     \* the diagram the compile status in the toolbar is about

model == <<snapshots, pointer>>
vars == <<snapshots, pointer, dirty, file, writes, compiling, verdict>>

Graph == snapshots[pointer]

Init == /\ \E g \in Graphs : snapshots = <<g>> /\ file = g
        /\ pointer = 1 /\ dirty = FALSE
        /\ writes = <<>> /\ compiling = NoGraph /\ verdict = NoGraph

\* Faulty variant: the pointer moves on also when the oldest snapshot goes.
PushSnapshotMovesOn(kept, g) ==
  /\ pointer' = pointer + 1
  /\ snapshots' = IF Len(kept) + 1 > MaxUndo THEN Tail(Append(kept, g)) ELSE Append(kept, g)

\* pushSnapshot: at the limit the oldest snapshot makes room.
PushSnapshot(kept, g) ==
  IF Len(kept) + 1 > MaxUndo
    THEN snapshots' = Tail(Append(kept, g)) /\ UNCHANGED pointer
    ELSE snapshots' = Append(kept, g) /\ pointer' = pointer + 1

\* Faulty variant: what was undone stays behind the new diagram.
EditKeepsUndone(g) ==
  /\ PushSnapshot(snapshots, g)
  /\ dirty' = TRUE /\ verdict' = NoGraph
  /\ UNCHANGED <<file, writes, compiling>>

\* applyOperation through tryApply, with any result, an unchanged diagram
\* included; the status of the last compilation is cleared.
Edit(g) == /\ PushSnapshot(SubSeq(snapshots, 1, pointer), g)
           /\ dirty' = TRUE /\ verdict' = NoGraph
           /\ UNCHANGED <<file, writes, compiling>>

MovePointer(to) == /\ pointer' = to /\ dirty' = TRUE
                   /\ UNCHANGED <<snapshots, file, writes, compiling, verdict>>
Undo == pointer > 1 /\ MovePointer(pointer - 1)
Redo == pointer < Len(snapshots) /\ MovePointer(pointer + 1)

\* save: the diagram is taken now, the file written later.
Save == /\ Len(writes) < MaxWrites
        /\ writes' = Append(writes, Graph)
        /\ UNCHANGED <<model, dirty, file, compiling, verdict>>
Returns(i) == writes' = SubSeq(writes, 1, i - 1) \o SubSeq(writes, i + 1, Len(writes))
\* A write returns, whichever was begun first, and save() marks the diagram
\* clean as it is then.
Written == /\ \E i \in DOMAIN writes : file' = writes[i] /\ Returns(i)
           /\ dirty' = FALSE
           /\ UNCHANGED <<model, compiling, verdict>>
\* A write fails: save() rejects before markClean.
WriteFails == /\ \E i \in DOMAIN writes : Returns(i)
              /\ UNCHANGED <<model, dirty, file, compiling, verdict>>

\* runCompile: the Compile button, disabled while a compilation runs; an
\* invalid diagram is answered at once, a valid one by the backend.
Compile == /\ compiling = NoGraph /\ compiling' = Graph
           /\ UNCHANGED <<model, dirty, file, writes, verdict>>
Compiled == /\ compiling # NoGraph
            /\ verdict' = compiling /\ compiling' = NoGraph
            /\ UNCHANGED <<model, dirty, file, writes>>

Next == \/ \E g \in Graphs : Edit(g)
        \/ Undo \/ Redo
        \/ Save \/ Written \/ WriteFails \/ Compile \/ Compiled
Spec == Init /\ [][Next]_vars
------------------------------------------------------------------------------
(* Properties.                                                             *)

\* The pointer names a snapshot, and there are never more than MAX_UNDO:
\* also after an edit at the limit made from an undone state.
HistoryOK == /\ snapshots \in Seq(Graphs)
             /\ pointer \in 1..Len(snapshots)
             /\ Len(snapshots) <= MaxUndo
             /\ dirty \in BOOLEAN

\* The snapshots and the pointer implement an undo history: undo leads back
\* to exactly the diagram before the edit, redo to exactly the undone one,
\* and an edit after undos forgets what was undone and nothing else.
History == INSTANCE UndoHistory WITH
             past    <- SubSeq(snapshots, 1, pointer - 1),
             present <- snapshots[pointer],
             future  <- SubSeq(snapshots, pointer + 1, Len(snapshots))
UndoIsExact == History!Spec

\* A diagram that is not dirty is the one in the file: "Whether the model
\* has unsaved changes since last save/compile".  save() marks whatever is
\* current when the write returns, so an edit made meanwhile counts as saved.
CleanMeansSaved == ~dirty => file = Graph
============================================================================
