------------------------------ MODULE MCGuestExec ------------------------------
(* Small instances of GuestExec for TLC. *)
EXTENDS GuestExec, TLC

\* Agent code that may write, and the views that may not touch files, or anything.
WithFiles == {[fs |-> fs, ro |-> FALSE] : fs \in BOOLEAN}
ReadOnly == {[fs |-> TRUE, ro |-> TRUE]}

Symmetry == Permutations(Keys) \cup Permutations(Vals)
================================================================================
