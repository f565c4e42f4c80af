---------------------------- MODULE UndoHistory ----------------------------
(***************************************************************************)
(* What an undo history promises: the user stands at one diagram, with the  *)
(* diagrams to go back to behind and the ones undone in front.  An edit     *)
(* keeps where one stood, forgets what was undone and, at the limit, the    *)
(* oldest diagram.  LdHistory's array and pointer implement it.             *)
(***************************************************************************)
EXTENDS Naturals, Sequences

CONSTANTS Graphs,     \* the diagrams
          MaxUndo     \* how many diagrams are kept, the current one included

VARIABLES past, present, future

Init == past = <<>> /\ present \in Graphs /\ future = <<>>

\* The diagrams to go back to: all, or all but the oldest at the limit.
Remembered(all) == IF Len(all) < MaxUndo THEN all ELSE Tail(all)

Edit == /\ present' \in Graphs
        /\ past' = Remembered(Append(past, present))
        /\ future' = <<>>

Undo == /\ past # <<>>
        /\ present' = past[Len(past)]
        /\ past' = SubSeq(past, 1, Len(past) - 1)
        /\ future' = <<present>> \o future

Redo == /\ future # <<>>
        /\ present' = Head(future)
        /\ past' = Append(past, present)
        /\ future' = Tail(future)

Next == Edit \/ Undo \/ Redo
Spec == Init /\ [][Next]_<<past, present, future>>
============================================================================
