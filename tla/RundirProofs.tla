---------------------------- MODULE RundirProofs ----------------------------
(***************************************************************************)
(* The safety properties of Rundir, for every set of sweeping hosts and    *)
(* every rung.                                                             *)
(*                                                                         *)
(* They follow from one inductive invariant, in five parts.  Each part is  *)
(* preserved by every step given the parts before it, so that each has a   *)
(* lemma of its own.                                                       *)
(***************************************************************************)
EXTENDS Rundir, TLAPS

\* Where the session stands while it calls itself frozen.
FrozenPC ==
  {"parked", "bind", "spawn", "pid", "configure", "accept", "hello", "raised",
   "stranded", "out", "stray", "dead"}

\* The session's flag, the marker and the snapshot change together, but for the
\* steps in between: the marker comes first and goes last.
Markers ==
  /\ frozen => pc \in FrozenPC
  /\ files.frozen => frozen \/ pc \in {"kill", "unfreezing", "unmark", "dead"}
  /\ frozen /\ files.there => files.frozen
  /\ files.frozen => files.snap = "whole"
  /\ pc = "publish" /\ files.there => files.snap = "whole"
  /\ pc \in {"kill", "unfreezing"} /\ files.there => files.frozen
  /\ pc = "parked" => frozen /\ ~files.freezing

\* No guest dials, and none is connected, between the freeze verb and the spawn of
\* the thaw; a guest that is connected is up, or gone.
Machine ==
  /\ pc \in {"unborn", "bind", "spawn", "unfreezing", "parked"} => vmm = "none" /\ wire = "none"
  /\ pc \in {"ask", "mark", "pause", "snapshot", "publish", "kill"} => ~srv
  /\ pc \in {"mark", "pause", "snapshot", "publish", "kill"} => wire = "none"
  /\ wire # "none" => vmm \in {"up", "none"}
  /\ pc = "hello" => vmm \in {"up", "none"}
  /\ pc = "raised" /\ frozen => vmm \in {"up", "none"}
  /\ pc = "remove" => vmm = "none"
  /\ LeavesNothing

\* The recorded pid is an old one only while a thaw is under way, and missing only
\* until the first boot has got that far.
Pids ==
  /\ pc = "unborn" => files = NoDir /\ \A s \in Sweepers : at[s] = "out"
  /\ files.pid = "old" => frozen
  /\ pc \in {"configure", "accept", "hello", "restored"} /\ files.there => files.pid = "current"
  /\ pc \in {"bind", "spawn", "pid"} /\ ~frozen => files.pid = "no"
  /\ files.old => files.pid = "no" /\ pc \in {"dead", "lost"}
  /\ pc = "lost" /\ files.pid = "no" /\ files.there => vmm = "none"

\* What a sweep that the host has not crossed knows of the directory is true.
Known(s) ==
  /\ at[s] = "readFreezing" => files.freezing
  /\ at[s] = "readFrozen" => files.frozen
  /\ at[s] \in {"pid", "psCurrent"} => ~files.frozen
  /\ at[s] = "psCurrent" => files.pid = "current"
  /\ at[s] # "psGone"
  /\ at[s] = "slay" => ~Alive
  /\ at[s] = "remove" /\ Alive =>
       vmm = "none" /\ ~files.frozen /\ (files.pid = "current" \/ pc = "lost")

Sweeps == \A s \in Sweepers \ crossed : files.there => Known(s)

Inv == TypeOK /\ Markers /\ Machine /\ Pids /\ Sweeps

-----------------------------------------------------------------------------

\* The initial states.
LEMMA InitInv == Init => Inv
<1> SUFFICES ASSUME Init
             PROVE  Inv
  OBVIOUS
<1> USE DEF Init, NoDir
<1>1. TypeOK
  BY DEF TypeOK, HostPC, SweepPC, Looking
<1>2. Markers /\ Machine
  BY DEF Markers, Machine, LeavesNothing, FrozenPC
<1>3. Pids /\ Sweeps
  BY DEF Pids, Sweeps, Known
<1> QED
  BY <1>1, <1>2, <1>3 DEF Inv

\* What a directory can be.
Directories ==
  [there : BOOLEAN, pid : {"no", "old", "current"}, freezing : BOOLEAN, frozen : BOOLEAN,
   snap : {"none", "part", "whole"}, old : BOOLEAN]

\* Most steps leave the directory and the sweeps alone.
LEMMA SameDirectory ==
  ASSUME TypeOK, UNCHANGED <<rung, files, sweepVars>>,
         pc' \in HostPC \cup {pc}, frozen' \in BOOLEAN \cup {frozen}, srv' \in BOOLEAN \cup {srv},
         wire' \in {"none", "queued", "open", wire},
         vmm' \in {"none", "idle", "dial", "up", "paused", vmm}
  PROVE  TypeOK'
<1>1. Looking' = Looking
  BY DEF sweepVars, Looking
<1> QED
  BY <1>1 DEF TypeOK, sweepVars

\* Types, and an empty record of a directory that is gone.
LEMMA TypeStep ==
  ASSUME TypeOK, [Next]_vars
  PROVE  TypeOK'
<1> USE DEF vars, hostVars, linkVars, sweepVars, Goto
<1>1. CASE MakeDir
  BY <1>1 DEF MakeDir, TypeOK, HostPC, Looking, NoDir
<1>2. CASE Bind
  BY <1>2, SameDirectory DEF Bind, HostPC
<1>3. CASE BindFails
  BY <1>3, SameDirectory DEF BindFails, HostPC
<1>4. CASE Spawn
  <2>1. files' = [files EXCEPT !.pid = IF @ = "no" THEN "no" ELSE "old"]
    BY <1>4 DEF Spawn
  <2>2. files' \in Directories
    BY <2>1 DEF TypeOK, Directories
  <2>3. files'.there \/ files' = NoDir
    <3>1. CASE files.there
      BY <2>1, <3>1 DEF TypeOK
    <3>2. CASE files = NoDir
      <4>1. files' = files
        BY <2>1, <3>2 DEF NoDir
      <4> QED
        BY <3>2, <4>1
    <3> QED
      BY <3>1, <3>2 DEF TypeOK
  <2>4. at' \in [Sweepers -> SweepPC] /\ crossed' \subseteq Looking'
    BY <1>4 DEF Spawn, TypeOK, SweepPC, Looking
  <2>5. vmm' \in {"idle", "dial"} /\ pc' = "pid" /\ UNCHANGED <<rung, frozen>>
        /\ UNCHANGED <<srv, wire>>
    BY <1>4 DEF Spawn
  <2>6. pc' \in HostPC
    BY <2>5 DEF HostPC
  <2> QED
    BY <2>2, <2>3, <2>4, <2>5, <2>6 DEF TypeOK, Directories
<1>5. CASE WritePid
  BY <1>5 DEF WritePid, TypeOK, HostPC, Looking, NoDir
<1>6. CASE Configure
  BY <1>6, SameDirectory DEF Configure, HostPC
<1>7. CASE Accept
  BY <1>7, SameDirectory DEF Accept, HostPC
<1>8. CASE TryFails
  <2>1. pc' \in {"raised", "out"} /\ vmm' = "none" /\ (files' = files \/ files' =
     NoDir)
        /\ srv' = FALSE /\ wire' = "none" /\ UNCHANGED <<rung, frozen, at, crossed>>
    BY <1>8 DEF TryFails, TeardownVm
  <2>2. pc' \in HostPC
    BY <2>1 DEF HostPC
  <2>3. Looking' = Looking
    BY <2>1 DEF Looking
  <2>4. NoDir \in Directories
    BY DEF NoDir, Directories
  <2> QED
    BY <2>1, <2>2, <2>3, <2>4 DEF TypeOK, Directories
<1>9. CASE ThawStrands
  BY <1>9, SameDirectory DEF ThawStrands, HostPC
<1>10. CASE Hello
  BY <1>10, SameDirectory DEF Hello, HostPC
<1>11. CASE Unmark
  BY <1>11 DEF Unmark, Marks, TypeOK, HostPC, Looking, NoDir
<1>12. CASE Resync
  BY <1>12, SameDirectory DEF Resync, HostPC
<1>13. CASE GreetFails
  BY <1>13, SameDirectory DEF GreetFails, HostPC
<1>14. CASE Collected
  BY <1>14, SameDirectory DEF Collected, HostPC
<1>15. CASE CloseListener
  BY <1>15, SameDirectory DEF CloseListener, HostPC
<1>16. CASE FreezeVerb
  BY <1>16, SameDirectory DEF FreezeVerb, HostPC
<1>17. CASE MarkFreezing
  BY <1>17 DEF MarkFreezing, Marks, TypeOK, HostPC, Looking, NoDir
<1>18. CASE Pause
  BY <1>18 DEF Pause, TypeOK, HostPC, Looking, NoDir
<1>19. CASE Snapshot
  BY <1>19 DEF Snapshot, TypeOK, HostPC, Looking, NoDir
<1>20. CASE PublishFrozen
  BY <1>20 DEF PublishFrozen, Marks, TypeOK, HostPC, Looking, NoDir
<1>21. CASE KillVmm
  BY <1>21, SameDirectory DEF KillVmm, TeardownVm, HostPC
<1>22. CASE FreezeDone
  BY <1>22 DEF FreezeDone, Marks, TypeOK, HostPC, Looking, NoDir
<1>23. CASE FreezeFails
  BY <1>23, SameDirectory DEF FreezeFails, HostPC
<1>24. CASE Thaw
  BY <1>24, SameDirectory DEF Thaw, HostPC
<1>25. CASE CloseFrozen
  BY <1>25 DEF CloseFrozen, TypeOK, HostPC, Looking, NoDir
<1>26. CASE CloseAsks
  BY <1>26, SameDirectory DEF CloseAsks, HostPC
<1>27. CASE CloseWaits
  BY <1>27, SameDirectory DEF CloseWaits, TeardownVm, HostPC
<1>28. CASE CloseRemoves
  BY <1>28 DEF CloseRemoves, TypeOK, HostPC, Looking, NoDir
<1>29. CASE HostDies
  BY <1>29, SameDirectory DEF HostDies, HostPC
<1>30. CASE Dials
  BY <1>30, SameDirectory DEF Dials, HostPC
<1>31. CASE GivesUp
  BY <1>31, SameDirectory DEF GivesUp, HostPC
<1>32. CASE SeesEof
  BY <1>32, SameDirectory DEF SeesEof, HostPC
<1>33. CASE VmmDies
  BY <1>33, SameDirectory DEF VmmDies, HostPC
<1>34. CASE Ages
  BY <1>34 DEF Ages, TypeOK, HostPC, Looking, NoDir
<1>35. CASE \E s \in Sweepers : Sweep(s)
  <2> PICK s \in Sweepers : Sweep(s)
    BY <1>35
  <2>1. CASE Finds(s)
    BY <2>1 DEF Finds, Step, TypeOK, SweepPC, Looking, NoDir
  <2>2. CASE LooksFreezing(s)
    BY <2>2 DEF LooksFreezing, Step, TypeOK, SweepPC, Looking, NoDir
  <2>3. CASE ReadsFreezing(s)
    BY <2>3 DEF ReadsFreezing, Step, TypeOK, SweepPC, Looking, NoDir
  <2>4. CASE Slays(s)
    BY <2>4 DEF Slays, Step, TypeOK, SweepPC, Looking, NoDir
  <2>5. CASE LooksFrozen(s)
    BY <2>5 DEF LooksFrozen, Step, TypeOK, SweepPC, Looking, NoDir
  <2>6. CASE ReadsFrozen(s)
    BY <2>6 DEF ReadsFrozen, Step, TypeOK, SweepPC, Looking, NoDir
  <2>7. CASE ReadsPid(s)
    BY <2>7 DEF ReadsPid, Step, TypeOK, SweepPC, Looking, NoDir
  <2>8. CASE AsksPs(s)
    BY <2>8 DEF AsksPs, Step, TypeOK, SweepPC, Looking, NoDir
  <2>9. CASE Removes(s)
    BY <2>9 DEF Removes, Step, TypeOK, SweepPC, Looking, NoDir
  <2> QED
    BY <2>1, <2>2, <2>3, <2>4, <2>5, <2>6, <2>7, <2>8, <2>9 DEF Sweep
<1>36. CASE UNCHANGED vars
  BY <1>36, SameDirectory
<1> QED
  BY <1>1, <1>2, <1>3, <1>4, <1>5, <1>6, <1>7, <1>8, <1>9, <1>10, <1>11, <1>12, <1>13,
     <1>14, <1>15, <1>16, <1>17, <1>18, <1>19, <1>20, <1>21, <1>22, <1>23, <1>24,
     <1>25, <1>26, <1>27, <1>28, <1>29, <1>30, <1>31, <1>32, <1>33, <1>34, <1>35,
     <1>36
  DEF Next, Session, Guest

\* The markers: MarkFreezing to FreezeDone, and Unmark, are the steps that write them.
LEMMA MarkersStep ==
  ASSUME TypeOK, Markers, [Next]_vars
  PROVE  Markers'
<1> USE DEF vars, hostVars, linkVars, sweepVars, NoDir, Goto, TypeOK, Markers,
            FrozenPC
<1>1. CASE MakeDir
  BY <1>1 DEF MakeDir
<1>2. CASE Bind
  BY <1>2 DEF Bind
<1>3. CASE BindFails
  BY <1>3 DEF BindFails
<1>4. CASE Spawn
  BY <1>4 DEF Spawn
<1>5. CASE WritePid
  BY <1>5 DEF WritePid
<1>6. CASE Configure
  BY <1>6 DEF Configure
<1>7. CASE Accept
  BY <1>7 DEF Accept
<1>8. CASE TryFails
  BY <1>8 DEF TryFails, TeardownVm
<1>9. CASE ThawStrands
  BY <1>9 DEF ThawStrands
<1>10. CASE Hello
  BY <1>10 DEF Hello
<1>11. CASE Unmark
  BY <1>11 DEF Unmark, Marks
<1>12. CASE Resync
  BY <1>12 DEF Resync
<1>13. CASE GreetFails
  BY <1>13 DEF GreetFails
<1>14. CASE Collected
  BY <1>14 DEF Collected
<1>15. CASE CloseListener
  BY <1>15 DEF CloseListener
<1>16. CASE FreezeVerb
  BY <1>16 DEF FreezeVerb
<1>17. CASE MarkFreezing
  BY <1>17 DEF MarkFreezing, Marks
<1>18. CASE Pause
  BY <1>18 DEF Pause
<1>19. CASE Snapshot
  BY <1>19 DEF Snapshot
<1>20. CASE PublishFrozen
  BY <1>20 DEF PublishFrozen, Marks
<1>21. CASE KillVmm
  BY <1>21 DEF KillVmm, TeardownVm
<1>22. CASE FreezeDone
  BY <1>22 DEF FreezeDone, Marks
<1>23. CASE FreezeFails
  BY <1>23 DEF FreezeFails
<1>24. CASE Thaw
  BY <1>24 DEF Thaw
<1>25. CASE CloseFrozen
  BY <1>25 DEF CloseFrozen
<1>26. CASE CloseAsks
  BY <1>26 DEF CloseAsks
<1>27. CASE CloseWaits
  BY <1>27 DEF CloseWaits, TeardownVm
<1>28. CASE CloseRemoves
  BY <1>28 DEF CloseRemoves
<1>29. CASE HostDies
  BY <1>29 DEF HostDies
<1>30. CASE Dials
  BY <1>30 DEF Dials
<1>31. CASE GivesUp
  BY <1>31 DEF GivesUp
<1>32. CASE SeesEof
  BY <1>32 DEF SeesEof
<1>33. CASE VmmDies
  BY <1>33 DEF VmmDies
<1>34. CASE Ages
  BY <1>34 DEF Ages
<1>35. CASE \E s \in Sweepers : Sweep(s)
  <2> PICK s \in Sweepers : Sweep(s)
    BY <1>35
  <2>1. CASE Finds(s)
    BY <2>1 DEF Finds, Step
  <2>2. CASE LooksFreezing(s)
    BY <2>2 DEF LooksFreezing, Step
  <2>3. CASE ReadsFreezing(s)
    BY <2>3 DEF ReadsFreezing, Step
  <2>4. CASE Slays(s)
    BY <2>4 DEF Slays, Step
  <2>5. CASE LooksFrozen(s)
    BY <2>5 DEF LooksFrozen, Step
  <2>6. CASE ReadsFrozen(s)
    BY <2>6 DEF ReadsFrozen, Step
  <2>7. CASE ReadsPid(s)
    BY <2>7 DEF ReadsPid, Step
  <2>8. CASE AsksPs(s)
    BY <2>8 DEF AsksPs, Step
  <2>9. CASE Removes(s)
    BY <2>9 DEF Removes, Step
  <2> QED
    BY <2>1, <2>2, <2>3, <2>4, <2>5, <2>6, <2>7, <2>8, <2>9 DEF Sweep
<1>36. CASE UNCHANGED vars
  BY <1>36
<1> QED
  BY <1>1, <1>2, <1>3, <1>4, <1>5, <1>6, <1>7, <1>8, <1>9, <1>10, <1>11, <1>12, <1>13,
     <1>14, <1>15, <1>16, <1>17, <1>18, <1>19, <1>20, <1>21, <1>22, <1>23, <1>24,
     <1>25, <1>26, <1>27, <1>28, <1>29, <1>30, <1>31, <1>32, <1>33, <1>34, <1>35,
     <1>36
  DEF Next, Session, Guest

\* The VMM and its guest: what close and the failing paths leave.
LEMMA MachineStep ==
  ASSUME TypeOK, Markers, Machine, [Next]_vars
  PROVE  Machine'
<1> USE DEF vars, hostVars, linkVars, sweepVars, NoDir, Goto, TypeOK, Markers,
            FrozenPC, Machine, LeavesNothing
<1>1. CASE MakeDir
  BY <1>1 DEF MakeDir
<1>2. CASE Bind
  BY <1>2 DEF Bind
<1>3. CASE BindFails
  BY <1>3 DEF BindFails
<1>4. CASE Spawn
  BY <1>4 DEF Spawn
<1>5. CASE WritePid
  BY <1>5 DEF WritePid
<1>6. CASE Configure
  BY <1>6 DEF Configure
<1>7. CASE Accept
  BY <1>7 DEF Accept
<1>8. CASE TryFails
  BY <1>8 DEF TryFails, TeardownVm
<1>9. CASE ThawStrands
  BY <1>9 DEF ThawStrands
<1>10. CASE Hello
  BY <1>10 DEF Hello
<1>11. CASE Unmark
  BY <1>11 DEF Unmark, Marks
<1>12. CASE Resync
  BY <1>12 DEF Resync
<1>13. CASE GreetFails
  BY <1>13 DEF GreetFails
<1>14. CASE Collected
  BY <1>14 DEF Collected
<1>15. CASE CloseListener
  BY <1>15 DEF CloseListener
<1>16. CASE FreezeVerb
  BY <1>16 DEF FreezeVerb
<1>17. CASE MarkFreezing
  BY <1>17 DEF MarkFreezing, Marks
<1>18. CASE Pause
  BY <1>18 DEF Pause
<1>19. CASE Snapshot
  BY <1>19 DEF Snapshot
<1>20. CASE PublishFrozen
  BY <1>20 DEF PublishFrozen, Marks
<1>21. CASE KillVmm
  BY <1>21 DEF KillVmm, TeardownVm
<1>22. CASE FreezeDone
  BY <1>22 DEF FreezeDone, Marks
<1>23. CASE FreezeFails
  BY <1>23 DEF FreezeFails
<1>24. CASE Thaw
  BY <1>24 DEF Thaw
<1>25. CASE CloseFrozen
  BY <1>25 DEF CloseFrozen
<1>26. CASE CloseAsks
  BY <1>26 DEF CloseAsks
<1>27. CASE CloseWaits
  BY <1>27 DEF CloseWaits, TeardownVm
<1>28. CASE CloseRemoves
  BY <1>28 DEF CloseRemoves
<1>29. CASE HostDies
  BY <1>29 DEF HostDies
<1>30. CASE Dials
  BY <1>30 DEF Dials
<1>31. CASE GivesUp
  BY <1>31 DEF GivesUp
<1>32. CASE SeesEof
  BY <1>32 DEF SeesEof
<1>33. CASE VmmDies
  BY <1>33 DEF VmmDies
<1>34. CASE Ages
  BY <1>34 DEF Ages
<1>35. CASE \E s \in Sweepers : Sweep(s)
  <2> PICK s \in Sweepers : Sweep(s)
    BY <1>35
  <2>1. CASE Finds(s)
    BY <2>1 DEF Finds, Step
  <2>2. CASE LooksFreezing(s)
    BY <2>2 DEF LooksFreezing, Step
  <2>3. CASE ReadsFreezing(s)
    BY <2>3 DEF ReadsFreezing, Step
  <2>4. CASE Slays(s)
    BY <2>4 DEF Slays, Step
  <2>5. CASE LooksFrozen(s)
    BY <2>5 DEF LooksFrozen, Step
  <2>6. CASE ReadsFrozen(s)
    BY <2>6 DEF ReadsFrozen, Step
  <2>7. CASE ReadsPid(s)
    BY <2>7 DEF ReadsPid, Step
  <2>8. CASE AsksPs(s)
    BY <2>8 DEF AsksPs, Step
  <2>9. CASE Removes(s)
    BY <2>9 DEF Removes, Step
  <2> QED
    BY <2>1, <2>2, <2>3, <2>4, <2>5, <2>6, <2>7, <2>8, <2>9 DEF Sweep
<1>36. CASE UNCHANGED vars
  BY <1>36
<1> QED
  BY <1>1, <1>2, <1>3, <1>4, <1>5, <1>6, <1>7, <1>8, <1>9, <1>10, <1>11, <1>12, <1>13,
     <1>14, <1>15, <1>16, <1>17, <1>18, <1>19, <1>20, <1>21, <1>22, <1>23, <1>24,
     <1>25, <1>26, <1>27, <1>28, <1>29, <1>30, <1>31, <1>32, <1>33, <1>34, <1>35,
     <1>36
  DEF Next, Session, Guest

\* The pid file.
LEMMA PidsStep ==
  ASSUME TypeOK, Markers, Machine, Pids, [Next]_vars
  PROVE  Pids'
<1> USE DEF vars, hostVars, linkVars, sweepVars, NoDir, Goto, TypeOK, Markers,
            FrozenPC, Machine, Pids
<1>1. CASE MakeDir
  BY <1>1 DEF MakeDir
<1>2. CASE Bind
  BY <1>2 DEF Bind
<1>3. CASE BindFails
  BY <1>3 DEF BindFails
<1>4. CASE Spawn
  BY <1>4 DEF Spawn
<1>5. CASE WritePid
  BY <1>5 DEF WritePid
<1>6. CASE Configure
  BY <1>6 DEF Configure
<1>7. CASE Accept
  BY <1>7 DEF Accept
<1>8. CASE TryFails
  BY <1>8 DEF TryFails, TeardownVm
<1>9. CASE ThawStrands
  BY <1>9 DEF ThawStrands
<1>10. CASE Hello
  BY <1>10 DEF Hello
<1>11. CASE Unmark
  BY <1>11 DEF Unmark, Marks
<1>12. CASE Resync
  BY <1>12 DEF Resync
<1>13. CASE GreetFails
  BY <1>13 DEF GreetFails
<1>14. CASE Collected
  BY <1>14 DEF Collected
<1>15. CASE CloseListener
  BY <1>15 DEF CloseListener
<1>16. CASE FreezeVerb
  BY <1>16 DEF FreezeVerb
<1>17. CASE MarkFreezing
  BY <1>17 DEF MarkFreezing, Marks
<1>18. CASE Pause
  BY <1>18 DEF Pause
<1>19. CASE Snapshot
  BY <1>19 DEF Snapshot
<1>20. CASE PublishFrozen
  BY <1>20 DEF PublishFrozen, Marks
<1>21. CASE KillVmm
  BY <1>21 DEF KillVmm, TeardownVm
<1>22. CASE FreezeDone
  BY <1>22 DEF FreezeDone, Marks
<1>23. CASE FreezeFails
  BY <1>23 DEF FreezeFails
<1>24. CASE Thaw
  BY <1>24 DEF Thaw
<1>25. CASE CloseFrozen
  BY <1>25 DEF CloseFrozen
<1>26. CASE CloseAsks
  BY <1>26 DEF CloseAsks
<1>27. CASE CloseWaits
  BY <1>27 DEF CloseWaits, TeardownVm
<1>28. CASE CloseRemoves
  BY <1>28 DEF CloseRemoves
<1>29. CASE HostDies
  BY <1>29 DEF HostDies
<1>30. CASE Dials
  BY <1>30 DEF Dials
<1>31. CASE GivesUp
  BY <1>31 DEF GivesUp
<1>32. CASE SeesEof
  BY <1>32 DEF SeesEof
<1>33. CASE VmmDies
  BY <1>33 DEF VmmDies
<1>34. CASE Ages
  BY <1>34 DEF Ages
<1>35. CASE \E s \in Sweepers : Sweep(s)
  <2> PICK s \in Sweepers : Sweep(s)
    BY <1>35
  <2>1. CASE Finds(s)
    BY <2>1 DEF Finds, Step
  <2>2. CASE LooksFreezing(s)
    BY <2>2 DEF LooksFreezing, Step
  <2>3. CASE ReadsFreezing(s)
    BY <2>3 DEF ReadsFreezing, Step
  <2>4. CASE Slays(s)
    BY <2>4 DEF Slays, Step
  <2>5. CASE LooksFrozen(s)
    BY <2>5 DEF LooksFrozen, Step
  <2>6. CASE ReadsFrozen(s)
    BY <2>6 DEF ReadsFrozen, Step
  <2>7. CASE ReadsPid(s)
    BY <2>7 DEF ReadsPid, Step
  <2>8. CASE AsksPs(s)
    BY <2>8 DEF AsksPs, Step
  <2>9. CASE Removes(s)
    BY <2>9 DEF Removes, Step
  <2> QED
    BY <2>1, <2>2, <2>3, <2>4, <2>5, <2>6, <2>7, <2>8, <2>9 DEF Sweep
<1>36. CASE UNCHANGED vars
  BY <1>36
<1> QED
  BY <1>1, <1>2, <1>3, <1>4, <1>5, <1>6, <1>7, <1>8, <1>9, <1>10, <1>11, <1>12, <1>13,
     <1>14, <1>15, <1>16, <1>17, <1>18, <1>19, <1>20, <1>21, <1>22, <1>23, <1>24,
     <1>25, <1>26, <1>27, <1>28, <1>29, <1>30, <1>31, <1>32, <1>33, <1>34, <1>35,
     <1>36
  DEF Next, Session, Guest

\* Sweeps: a step of the host that would make one wrong crosses it.
LEMMA SweepsStep ==
  ASSUME TypeOK, Markers, Machine, Pids, Sweeps, [Next]_vars
  PROVE  Sweeps'
<1> USE DEF vars, hostVars, linkVars, sweepVars, NoDir, Goto, TypeOK, Markers,
            FrozenPC, Machine, Pids, Sweeps, Known, Alive, Looking
<1>1. CASE MakeDir
  BY <1>1 DEF MakeDir
<1>2. CASE Bind
  BY <1>2 DEF Bind
<1>3. CASE BindFails
  BY <1>3 DEF BindFails
<1>4. CASE Spawn
  BY <1>4 DEF Spawn
<1>5. CASE WritePid
  BY <1>5 DEF WritePid
<1>6. CASE Configure
  BY <1>6 DEF Configure
<1>7. CASE Accept
  BY <1>7 DEF Accept
<1>8. CASE TryFails
  BY <1>8 DEF TryFails, TeardownVm
<1>9. CASE ThawStrands
  BY <1>9 DEF ThawStrands
<1>10. CASE Hello
  BY <1>10 DEF Hello
<1>11. CASE Unmark
  BY <1>11 DEF Unmark, Marks
<1>12. CASE Resync
  BY <1>12 DEF Resync
<1>13. CASE GreetFails
  BY <1>13 DEF GreetFails
<1>14. CASE Collected
  BY <1>14 DEF Collected
<1>15. CASE CloseListener
  BY <1>15 DEF CloseListener
<1>16. CASE FreezeVerb
  BY <1>16 DEF FreezeVerb
<1>17. CASE MarkFreezing
  BY <1>17 DEF MarkFreezing, Marks
<1>18. CASE Pause
  BY <1>18 DEF Pause
<1>19. CASE Snapshot
  BY <1>19 DEF Snapshot
<1>20. CASE PublishFrozen
  BY <1>20 DEF PublishFrozen, Marks
<1>21. CASE KillVmm
  BY <1>21 DEF KillVmm, TeardownVm
<1>22. CASE FreezeDone
  BY <1>22 DEF FreezeDone, Marks
<1>23. CASE FreezeFails
  BY <1>23 DEF FreezeFails
<1>24. CASE Thaw
  BY <1>24 DEF Thaw
<1>25. CASE CloseFrozen
  BY <1>25 DEF CloseFrozen
<1>26. CASE CloseAsks
  BY <1>26 DEF CloseAsks
<1>27. CASE CloseWaits
  BY <1>27 DEF CloseWaits, TeardownVm
<1>28. CASE CloseRemoves
  BY <1>28 DEF CloseRemoves
<1>29. CASE HostDies
  BY <1>29 DEF HostDies
<1>30. CASE Dials
  BY <1>30 DEF Dials
<1>31. CASE GivesUp
  BY <1>31 DEF GivesUp
<1>32. CASE SeesEof
  BY <1>32 DEF SeesEof
<1>33. CASE VmmDies
  BY <1>33 DEF VmmDies
<1>34. CASE Ages
  BY <1>34 DEF Ages
<1>35. CASE \E s \in Sweepers : Sweep(s)
  <2> PICK s \in Sweepers : Sweep(s)
    BY <1>35
  <2>1. CASE Finds(s)
    BY <2>1 DEF Finds, Step
  <2>2. CASE LooksFreezing(s)
    BY <2>2 DEF LooksFreezing, Step
  <2>3. CASE ReadsFreezing(s)
    BY <2>3 DEF ReadsFreezing, Step
  <2>4. CASE Slays(s)
    BY <2>4 DEF Slays, Step
  <2>5. CASE LooksFrozen(s)
    BY <2>5 DEF LooksFrozen, Step
  <2>6. CASE ReadsFrozen(s)
    BY <2>6 DEF ReadsFrozen, Step
  <2>7. CASE ReadsPid(s)
    BY <2>7 DEF ReadsPid, Step
  <2>8. CASE AsksPs(s)
    BY <2>8 DEF AsksPs, Step
  <2>9. CASE Removes(s)
    BY <2>9 DEF Removes, Step
  <2> QED
    BY <2>1, <2>2, <2>3, <2>4, <2>5, <2>6, <2>7, <2>8, <2>9 DEF Sweep
<1>36. CASE UNCHANGED vars
  BY <1>36
<1> QED
  BY <1>1, <1>2, <1>3, <1>4, <1>5, <1>6, <1>7, <1>8, <1>9, <1>10, <1>11, <1>12, <1>13,
     <1>14, <1>15, <1>16, <1>17, <1>18, <1>19, <1>20, <1>21, <1>22, <1>23, <1>24,
     <1>25, <1>26, <1>27, <1>28, <1>29, <1>30, <1>31, <1>32, <1>33, <1>34, <1>35,
     <1>36
  DEF Next, Session, Guest

\* All five parts.
LEMMA InvStep == Inv /\ [Next]_vars => Inv'
BY TypeStep, MarkersStep, MachineStep, PidsStep, SweepsStep DEF Inv

\* The invariant holds in every reachable state.
LEMMA Invariant == Spec => []Inv
BY InitInv, InvStep, PTL DEF Spec

-----------------------------------------------------------------------------

\* Every variable keeps its type, and nothing is written into a directory that was
\* removed.
THEOREM TypesHold == Spec => []TypeOK
<1>1. Inv => TypeOK
  BY DEF Inv
<1> QED
  BY <1>1, Invariant, PTL

\* A host that dies at any step of a freeze or a thaw leaves a frozen marker only with
\* a whole snapshot.
THEOREM MarkerTellsTheTruth == Spec => []FrozenIsWhole
<1>1. Inv => FrozenIsWhole
  BY DEF Inv, Markers, Machine, FrozenIsWhole
<1> QED
  BY <1>1, Invariant, PTL

\* Whatever state it is in, and whichever step fails, a session that is closed, or that
\* failed in its try block, leaves no directory and no VMM but one whose guest is on its
\* way out, or is held by the session of a failed thaw.
THEOREM ClosedIsClean == Spec => []LeavesNothing
<1>1. Inv => LeavesNothing
  BY DEF Inv, Machine
<1> QED
  BY <1>1, Invariant, PTL

\* Any number of hosts that start and sweep spare a directory in use, but for the sweeps
\* that the host's own change of a marker crosses.
THEOREM SweepsSpare == Spec => Spared
<1>1. Inv /\ [Next]_vars
      => [\A s \in Sweepers :
            at[s] = "remove" /\ at'[s] = "out" /\ files.there /\ Alive
            /\ (vmm # "none" \/ frozen)
            => s \in crossed]_vars
  BY DEF Inv, Sweeps, Known, Markers, TypeOK
<1> QED
  BY <1>1, Invariant, PTL DEF Spec, Spared
=============================================================================
