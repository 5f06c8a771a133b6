------------------------------ MODULE ScanStage ------------------------------
(***************************************************************************)
(* Staging as ScanStage does it, with two plain trees (guest/staging.py):  *)
(* what any staging promises.  The guest changes `work`; a push starts     *)
(* both trees afresh, a rebase moves the baseline up, a reset goes back.   *)
(***************************************************************************)
EXTENDS Trees

VARIABLES work, baseline

vars == <<work, baseline>>

Init == work = Empty /\ baseline = Empty

\* One change by the code in the guest; the baseline is not its to change.
Change ==
  /\ LET t == work IN
     \E p \in Paths :
       \/ CanWrite(t, p) /\ \E f \in Files : work' = Put(t, p, f)
       \/ CanLink(t, p) /\ work' = Put(t, p, Link)
       \/ CanMake(t, p) /\ work' = Put(t, p, Dir)
       \/ (CanUnlink(t, p) \/ CanRmdir(t, p)) /\ work' = Put(t, p, Nothing)
  /\ UNCHANGED baseline

Push == work' \in PushTrees /\ baseline' = work'

Rebase == work' = work /\ baseline' = work

\* reset_stage.
Reset == work' = baseline /\ UNCHANGED baseline

\* reset_guest, when the tree is not kept.
Clear == work' = Empty /\ baseline' = Empty

Next == Rebase \/ Reset \/ Clear \/ Push \/ Change

Spec == Init /\ [][Next]_vars
=============================================================================
