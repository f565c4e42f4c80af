---------------------------- MODULE MCLdHistory ----------------------------
(* The ladder document with three diagrams and an undo limit of four.      *)
EXTENDS LdHistory
============================================================================
