--------------------------- MODULE VmPoolCareProofs ---------------------------
(***************************************************************************)
(* Proofs about VmPool: that the end of every VM is somebody's work, that  *)
(* a parked guest is reset, whom a session answers for, and that a cap is  *)
(* kept.                                                                   *)
(***************************************************************************)
EXTENDS VmPoolWireProofs

\* Of the threads, only o and idle workers have moved; o now stands at label.
OnlyStarts(o, label) ==
  /\ pc'[o] = label
  /\ \A u \in Owners : u # o => pc'[u] = pc[u]
  /\ \A c \in Closers : pc'[c] = pc[c]
  /\ \A u \in Threads : u # o /\ hold[u] # None => pc'[u] = pc[u]

LEMMA StartedOnly ==
  ASSUME Typed, NEW o \in Owners, NEW label, NEW k, Started(o, label, k)
  PROVE  OnlyStarts(o, label)
<1>1. o \notin Closers
  BY ThreadsAreApart DEF ThreadsAssumption
<1> QED
  BY <1>1, StartedKeeps DEF Started, OnlyStarts

\* What the steps that start workers do to their own VM and to every other.
LEMMA RoomyDoes ==
  ASSUME Typed, NEW o \in Owners, Roomy(o)
  PROVE  /\ pc[o] = "room" /\ Clear(o)
         /\ \/ hold[o] = None /\ OnlyStarts(o, "boot")
            \/ hold[o] # None /\ OnlyStarts(o, "thaw")
         /\ UNCHANGED <<hold, kill, idle, bound, sess, pooled, closed, lost, tag, env,
                        tree, bind>>
<1>1. /\ pc[o] = "room" /\ Clear(o)
      /\ UNCHANGED <<hold, kill, idle, bound, sess, pooled, closed, lost, tag, env,
                     tree, bind>>
  BY DEF Roomy, poolVars, sessionVars, hookVars, guestVars
<1>2. \/ hold[o] = None /\ Started(o, "boot", want[o].key)
      \/ hold[o] # None /\ Started(o, "thaw", want[o].key)
  BY <1>1, StarterInStarts DEF StarterIn
<1> QED
  BY <1>1, <1>2, StartedOnly

LEMMA RebindDoes ==
  ASSUME Typed, NEW o \in Owners, Rebind(o)
  PROVE  /\ pc[o] = "rebind" /\ hold[o] \in VMs
         /\ OnlyStarts(o, "held")
         /\ bound' = bound \cup {hold[o]}
         /\ bind' = [bind EXCEPT ![hold[o]] = o]
         /\ closed' = [closed EXCEPT ![hold[o]] = FALSE]
         /\ UNCHANGED <<hold, kill, idle, sess, pooled, tag, env, tree>>
<1>1. /\ pc[o] = "rebind"
      /\ bound' = bound \cup {hold[o]}
      /\ bind' = [bind EXCEPT ![hold[o]] = o]
      /\ closed' = [closed EXCEPT ![hold[o]] = FALSE]
      /\ UNCHANGED <<hold, kill, idle, sess, pooled, tag, env, tree>>
  BY DEF Rebind, guestVars
<1>2. hold[o] \in VMs
  BY <1>1 DEF Typed, HoldsWhere, OwnerHolding
<1>3. Started(o, "held", want[o].key)
  BY <1>1, StarterInStarts DEF StarterIn
<1> QED
  BY <1>1, <1>2, <1>3, StartedOnly

LEMMA SeedDoes ==
  ASSUME Typed, NEW o \in Owners, Seed(o)
  PROVE  /\ pc[o] = "seed" /\ hold[o] \in VMs
         /\ OnlyStarts(o, "held")
         /\ UNCHANGED <<hold, kill, idle, bound, sess, pooled, closed, lost, tag, env,
                        tree, bind>>
<1>1. /\ pc[o] = "seed"
      /\ UNCHANGED <<hold, kill, idle, bound, sess, pooled, closed, lost, tag, env,
                     tree, bind>>
  BY DEF Seed, poolVars, sessionVars, hookVars, guestVars
<1>2. hold[o] \in VMs
  BY <1>1 DEF Typed, HoldsWhere, OwnerHolding
<1>3. Started(o, "held", want[o].key)
  BY <1>1, StarterInStarts DEF StarterIn
<1> QED
  BY <1>1, <1>2, <1>3, StartedOnly

LEMMA CallDoes ==
  ASSUME Typed, NEW o \in Owners, NEW k \in Keys, Prewarm(o, k) \/ SeedCall(o, k)
  PROVE  /\ pc[o] = "out" /\ hold[o] = None /\ Clear(o)
         /\ OnlyStarts(o, "out")
         /\ UNCHANGED <<hold, kill, idle, bound, sess, pooled, closed, lost, tag, env,
                        tree, bind>>
<1>1. /\ pc[o] = "out" /\ Clear(o)
      /\ UNCHANGED <<hold, kill, idle, bound, sess, pooled, closed, lost, tag, env,
                     tree, bind>>
  BY DEF Prewarm, SeedCall, poolVars, sessionVars, hookVars, guestVars
<1>2. hold[o] = None
  BY <1>1 DEF Typed, HoldsWhere, OwnerHolding
<1>3. Started(o, "out", k)
  BY StarterStarts DEF Starter
<1> QED
  BY <1>1, <1>2, <1>3, StartedOnly

\* A boot takes an object that nobody refers to.
FreshTakes(o, v) ==
  /\ pc[o] = "boot" /\ hold[o] = None
  /\ ~Referenced(v)
  /\ pc'[o] \in {"bind", "bindcold"}
  /\ \A u \in Threads : u # o => pc'[u] = pc[u]
  /\ hold' = [hold EXCEPT ![o] = v]
  /\ sess' = [sess EXCEPT ![v] = "up"]
  /\ pooled' = [pooled EXCEPT ![v] = TRUE]
  /\ closed' = [closed EXCEPT ![v] = FALSE]
  /\ tag' = [tag EXCEPT ![v] = None]
  /\ env' = [env EXCEPT ![v] = FALSE]
  /\ tree' = [tree EXCEPT ![v] = "wiped"]
  /\ bind' = [bind EXCEPT ![v] = o]
  /\ UNCHANGED <<kill, idle, bound>>

LEMMA FreshDoes ==
  ASSUME Typed, NEW o \in Owners, Fresh(o)
  PROVE  \E v \in VMs : FreshTakes(o, v)
<1>1. PICK v \in VMs : /\ Booted(v, want[o].key, o)
                       /\ pooled' = [pooled EXCEPT ![v] = TRUE]
                       /\ hold' = [hold EXCEPT ![o] = v]
  BY DEF Fresh
<1>2. pc[o] = "boot" /\ UNCHANGED <<kill, idle, bound>>
  BY DEF Fresh, poolVars
<1>3. hold[o] = None
  BY <1>2 DEF Typed, HoldsWhere, OwnerHolding
<1>4. /\ pc'[o] \in {"bind", "bindcold"}
      /\ \A u \in Threads : u # o => pc'[u] = pc[u]
  BY DEF Fresh, Goto, Typed, TypeOK, Threads
<1> QED
  BY <1>1, <1>2, <1>3, <1>4 DEF Booted, FreshTakes

LEMMA StepSets ==
  ASSUME Typed, NEW t \in Threads, NEW v \in VMs, NEW stage, Step(t, v, stage)
  PROVE  \A u \in Threads, x \in VMs :
           kill'[u][x] = IF u = t /\ x = v THEN stage ELSE kill[u][x]
BY DEF Typed, TypeOK, Step

\* The types of what a session keeps.
LEMMA Books ==
  ASSUME Typed
  PROVE  /\ pc \in [Threads -> OwnerPC \cup WorkerPC \cup {"closed"}]
         /\ kill \in [Threads -> [VMs -> KillStage]]
         /\ sess \in [VMs -> {"up", "down", "frozen", "gone"}]
         /\ pooled \in [VMs -> BOOLEAN] /\ closed \in [VMs -> BOOLEAN]
         /\ lost \in [VMs -> BOOLEAN] /\ env \in [VMs -> BOOLEAN]
         /\ tag \in [VMs -> States \cup {None}] /\ tree \in [VMs -> Trees]
         /\ bind \in [VMs -> Owners \cup {None}]
BY DEF Typed, TypeOK

-----------------------------------------------------------------------------
(* That the end of a VM is somebody's work.                                *)

LEMMA AccountedInit == Init => Accounted
BY ThreadsAreApart
   DEF ThreadsAssumption, Init, Accounted, DoneBeforeWork, ClosedIsEnding,
       UnhookedFirst,
       OpenWhileUsed, RegisteredIsBound, Registered, NoLeak, Clear, Threads

LEMMA DoneBeforeWorkStep ==
  Typed /\ Custody /\ DoneBeforeWork /\ [Next]_vars => DoneBeforeWork'
<1> SUFFICES ASSUME Typed, Custody, DoneBeforeWork, [Next]_vars PROVE DoneBeforeWork'
  OBVIOUS
<1>1. ASSUME NEW o \in Owners, Roomy(o) PROVE DoneBeforeWork'
  BY <1>1, RoomyDoes, Holders, Books, ThreadsAreApart DEF OnlyStarts, Threads,
     ThreadsAssumption, DoneBeforeWork, Clear
<1>2. ASSUME NEW o \in Owners, Rebind(o) PROVE DoneBeforeWork'
  BY <1>2, RebindDoes, Holders, Books, ThreadsAreApart DEF OnlyStarts, Threads,
     ThreadsAssumption, DoneBeforeWork, Clear
<1>3. ASSUME NEW o \in Owners, Fresh(o) PROVE DoneBeforeWork'
  <2>1. PICK v \in VMs : FreshTakes(o, v)
    BY <1>3, FreshDoes
  <2> QED
    BY <2>1, Holders, Books, ThreadsAreApart DEF FreshTakes, Threads,
       ThreadsAssumption, DoneBeforeWork, Clear
<1>4. ASSUME NEW o \in Owners, Seed(o) PROVE DoneBeforeWork'
  BY <1>4, SeedDoes, Holders, Books, ThreadsAreApart DEF OnlyStarts, Threads,
     ThreadsAssumption, DoneBeforeWork, Clear
<1>5. ASSUME NEW o \in Owners, NEW k \in Keys,
            Prewarm(o, k) \/ SeedCall(o, k)
     PROVE  DoneBeforeWork'
  BY <1>5, CallDoes, Holders, Books, ThreadsAreApart DEF OnlyStarts, Threads,
     ThreadsAssumption, DoneBeforeWork, Clear
<1> USE ThreadsAreApart DEF ThreadsAssumption, Threads, Typed, TypeOK, HoldsWhere,
   OwnerPC, WorkerPC, OwnerHolding, WorkerHolding, KillStage, DoneBeforeWork, Clear,
   threadVars, poolVars, claimVars, hookVars, guestVars, sessionVars, Goto, Step
<1>6. ASSUME NEW t \in Threads, NEW v \in VMs,
            TeardownUnbind(t, v)
     PROVE  DoneBeforeWork'
  BY <1>6 DEF TeardownUnbind
<1>7. ASSUME NEW t \in Threads, NEW v \in VMs,
            TeardownUnhook(t, v)
     PROVE  DoneBeforeWork'
  BY <1>7 DEF TeardownUnhook
<1>8. ASSUME NEW t \in Threads, NEW v \in VMs,
            TeardownClose(t, v)
     PROVE  DoneBeforeWork'
  BY <1>8 DEF TeardownClose
<1>9. ASSUME NEW t \in Threads, NEW v \in VMs,
            TeardownDone(t, v)
     PROVE  DoneBeforeWork'
  BY <1>9 DEF TeardownDone
<1>10. ASSUME NEW w \in Workers, RefillCheck(w) PROVE DoneBeforeWork'
  BY <1>10 DEF RefillCheck
<1>11. ASSUME NEW w \in Workers, RefillBoot(w) PROVE DoneBeforeWork'
  BY <1>11 DEF RefillBoot, Booted, Referenced
<1>12. ASSUME NEW w \in Workers, RefillFreeze(w) PROVE DoneBeforeWork'
  BY <1>12 DEF RefillFreeze
<1>13. ASSUME NEW w \in Workers, RefillPark(w) PROVE DoneBeforeWork'
  BY <1>13 DEF RefillPark
<1>14. ASSUME NEW w \in Workers, RefillDone(w) PROVE DoneBeforeWork'
  BY <1>14 DEF RefillDone
<1>15. ASSUME NEW w \in Workers, SeedBoot(w) PROVE DoneBeforeWork'
  BY <1>15 DEF SeedBoot, Booted, Referenced
<1>16. ASSUME NEW w \in Workers, SeedFreeze(w) PROVE DoneBeforeWork'
  BY <1>16 DEF SeedFreeze
<1>17. ASSUME NEW w \in Workers, SeedPublish(w) PROVE DoneBeforeWork'
  BY <1>17 DEF SeedPublish
<1>18. ASSUME NEW w \in Workers, SeedDone(w) PROVE DoneBeforeWork'
  BY <1>18 DEF SeedDone
<1>19. ASSUME NEW w \in Workers, BootFails(w) PROVE DoneBeforeWork'
  BY <1>19 DEF BootFails
<1>20. ASSUME NEW w \in Workers, FreezeFails(w) PROVE DoneBeforeWork'
  BY <1>20 DEF FreezeFails
<1>21. ASSUME NEW o \in Owners, AcquireBegin(o) PROVE DoneBeforeWork'
  BY <1>21 DEF AcquireBegin
<1>22. ASSUME NEW o \in Owners, AcquireMisses(o) PROVE DoneBeforeWork'
  BY <1>22 DEF AcquireMisses, Queue, Expired, LostBound
<1>23. ASSUME NEW o \in Owners, AcquireTakes(o) PROVE DoneBeforeWork'
  BY <1>23 DEF AcquireTakes, Queue, Expired, Taken, LostBound
<1>24. ASSUME NEW o \in Owners, ReclaimIdle(o) PROVE DoneBeforeWork'
  BY <1>24 DEF ReclaimIdle, IdleVictims, Hot
<1>25. ASSUME NEW o \in Owners, ReclaimBound(o) PROVE DoneBeforeWork'
  BY <1>25 DEF ReclaimBound, QuietBound
<1>26. ASSUME NEW o \in Owners, Ping(o) PROVE DoneBeforeWork'
  BY <1>26 DEF Ping
<1>27. ASSUME NEW o \in Owners, Thaw(o) PROVE DoneBeforeWork'
  BY <1>27 DEF Thaw
<1>28. ASSUME NEW o \in Owners, NotBack(o) PROVE DoneBeforeWork'
  BY <1>28 DEF NotBack
<1>29. ASSUME NEW o \in Owners, FreshFails(o) PROVE DoneBeforeWork'
  BY <1>29 DEF FreshFails
<1>30. ASSUME NEW o \in Owners, Bind(o) PROVE DoneBeforeWork'
  BY <1>30 DEF Bind
<1>31. ASSUME NEW o \in Owners, UseBegin(o) PROVE DoneBeforeWork'
  BY <1>31 DEF UseBegin
<1>32. ASSUME NEW o \in Owners, UseEnd(o) PROVE DoneBeforeWork'
  BY <1>32 DEF UseEnd
<1>33. ASSUME NEW o \in Owners, UseFails(o) PROVE DoneBeforeWork'
  BY <1>33 DEF UseFails
<1>34. ASSUME NEW o \in Owners, Close(o) PROVE DoneBeforeWork'
  BY <1>34 DEF Close, Stamps
<1>35. ASSUME NEW o \in Owners, CloseUnhooked(o) PROVE DoneBeforeWork'
  BY <1>35 DEF CloseUnhooked, Stamps
<1>36. ASSUME NEW o \in Owners, Forget(o) PROVE DoneBeforeWork'
  BY <1>36 DEF Forget
<1>37. ASSUME NEW o \in Owners, Reset(o) PROVE DoneBeforeWork'
  BY <1>37 DEF Reset
<1>38. ASSUME NEW o \in Owners, ResetDiscards(o) PROVE DoneBeforeWork'
  BY <1>38 DEF ResetDiscards
<1>39. ASSUME NEW o \in Owners, ResetFails(o) PROVE DoneBeforeWork'
  BY <1>39 DEF ResetFails
<1>40. ASSUME NEW o \in Owners, Park(o) PROVE DoneBeforeWork'
  BY <1>40 DEF Park, Queue
<1>41. ASSUME NEW c \in Closers, PoolClose(c) PROVE DoneBeforeWork'
  BY <1>41 DEF PoolClose
<1>42. ASSUME NEW v \in VMs, GuestDies(v) PROVE DoneBeforeWork'
  BY <1>42 DEF GuestDies
<1>43. CASE UNCHANGED vars
  BY <1>43 DEF vars
<1> HIDE DEF ThreadsAssumption, Threads, Typed, TypeOK, HoldsWhere, OwnerPC,
   WorkerPC, OwnerHolding, WorkerHolding, KillStage, DoneBeforeWork, Clear,
   threadVars, poolVars, claimVars, hookVars, guestVars, sessionVars, Goto, Step
<1> QED
  BY <1>1, <1>2, <1>3, <1>4, <1>5, <1>6, <1>7, <1>8, <1>9, <1>10, <1>11, <1>12,
     <1>13, <1>14, <1>15, <1>16, <1>17, <1>18, <1>19, <1>20, <1>21, <1>22, <1>23,
     <1>24, <1>25, <1>26, <1>27, <1>28, <1>29, <1>30, <1>31, <1>32, <1>33, <1>34,
     <1>35, <1>36, <1>37, <1>38, <1>39, <1>40, <1>41, <1>42, <1>43 DEF Next,
     OwnerStep, WorkerStep, OwnerCall, Teardown

LEMMA UnhookedFirstStep ==
  Typed /\ Custody /\ Doom /\ Accounted /\ [Next]_vars => UnhookedFirst'
<1> SUFFICES ASSUME Typed, Custody, Doom, Accounted, [Next]_vars PROVE UnhookedFirst'
  OBVIOUS
<1>1. ASSUME NEW w \in Workers, RefillPark(w) PROVE UnhookedFirst'
  <2>1. /\ hold[w] \in VMs /\ UNCHANGED kill
        /\ pooled' = [pooled EXCEPT ![hold[w]] = TRUE]
    BY <1>1 DEF RefillPark, Typed, HoldsWhere, WorkerHolding
  <2>2. \A t \in Threads : kill[t][hold[w]] = "no"
    BY <2>1 DEF Doom, WorkersUndisturbed
  <2> QED
    BY <2>1, <2>2, Books DEF Accounted, UnhookedFirst
<1>2. ASSUME NEW o \in Owners, Roomy(o) PROVE UnhookedFirst'
  BY <1>2, RoomyDoes, Holders, Books, ThreadsAreApart DEF OnlyStarts, Threads,
     ThreadsAssumption, Accounted, UnhookedFirst, Referenced
<1>3. ASSUME NEW o \in Owners, Rebind(o) PROVE UnhookedFirst'
  BY <1>3, RebindDoes, Holders, Books, ThreadsAreApart DEF OnlyStarts, Threads,
     ThreadsAssumption, Accounted, UnhookedFirst, Referenced
<1>4. ASSUME NEW o \in Owners, Fresh(o) PROVE UnhookedFirst'
  <2>1. PICK v \in VMs : FreshTakes(o, v)
    BY <1>4, FreshDoes
  <2> QED
    BY <2>1, Holders, Books, ThreadsAreApart DEF FreshTakes, Threads,
       ThreadsAssumption, Accounted, UnhookedFirst, Referenced
<1>5. ASSUME NEW o \in Owners, Seed(o) PROVE UnhookedFirst'
  BY <1>5, SeedDoes, Holders, Books, ThreadsAreApart DEF OnlyStarts, Threads,
     ThreadsAssumption, Accounted, UnhookedFirst, Referenced
<1>6. ASSUME NEW o \in Owners, NEW k \in Keys,
            Prewarm(o, k) \/ SeedCall(o, k)
     PROVE  UnhookedFirst'
  BY <1>6, CallDoes, Holders, Books, ThreadsAreApart DEF OnlyStarts, Threads,
     ThreadsAssumption, Accounted, UnhookedFirst, Referenced
<1> USE ThreadsAreApart DEF ThreadsAssumption, Threads, Typed, TypeOK, HoldsWhere,
   OwnerPC, WorkerPC, OwnerHolding, WorkerHolding, KillStage, Accounted,
   DoneBeforeWork, Clear, ClosedIsEnding, UnhookedFirst, threadVars, poolVars,
   claimVars, hookVars, guestVars, sessionVars, Goto, Step, OpenWhileUsed
<1>7. ASSUME NEW t \in Threads, NEW v \in VMs,
            TeardownUnbind(t, v)
     PROVE  UnhookedFirst'
  BY <1>7 DEF TeardownUnbind
<1>8. ASSUME NEW t \in Threads, NEW v \in VMs,
            TeardownUnhook(t, v)
     PROVE  UnhookedFirst'
  BY <1>8 DEF TeardownUnhook
<1>9. ASSUME NEW t \in Threads, NEW v \in VMs,
            TeardownClose(t, v)
     PROVE  UnhookedFirst'
  BY <1>9 DEF TeardownClose
<1>10. ASSUME NEW t \in Threads, NEW v \in VMs,
            TeardownDone(t, v)
     PROVE  UnhookedFirst'
  BY <1>10 DEF TeardownDone
<1>11. ASSUME NEW w \in Workers, RefillCheck(w) PROVE UnhookedFirst'
  BY <1>11 DEF RefillCheck
<1>12. ASSUME NEW w \in Workers, RefillBoot(w) PROVE UnhookedFirst'
  BY <1>12 DEF RefillBoot, Booted, Referenced
<1>13. ASSUME NEW w \in Workers, RefillFreeze(w) PROVE UnhookedFirst'
  BY <1>13 DEF RefillFreeze
<1>14. ASSUME NEW w \in Workers, RefillDone(w) PROVE UnhookedFirst'
  BY <1>14 DEF RefillDone
<1>15. ASSUME NEW w \in Workers, SeedBoot(w) PROVE UnhookedFirst'
  BY <1>15 DEF SeedBoot, Booted, Referenced
<1>16. ASSUME NEW w \in Workers, SeedFreeze(w) PROVE UnhookedFirst'
  BY <1>16 DEF SeedFreeze
<1>17. ASSUME NEW w \in Workers, SeedPublish(w) PROVE UnhookedFirst'
  BY <1>17 DEF SeedPublish
<1>18. ASSUME NEW w \in Workers, SeedDone(w) PROVE UnhookedFirst'
  BY <1>18 DEF SeedDone
<1>19. ASSUME NEW w \in Workers, BootFails(w) PROVE UnhookedFirst'
  BY <1>19 DEF BootFails
<1>20. ASSUME NEW w \in Workers, FreezeFails(w) PROVE UnhookedFirst'
  BY <1>20 DEF FreezeFails
<1>21. ASSUME NEW o \in Owners, AcquireBegin(o) PROVE UnhookedFirst'
  BY <1>21 DEF AcquireBegin
<1>22. ASSUME NEW o \in Owners, AcquireMisses(o) PROVE UnhookedFirst'
  BY <1>22 DEF AcquireMisses, Queue, Expired, LostBound
<1>23. ASSUME NEW o \in Owners, AcquireTakes(o) PROVE UnhookedFirst'
  BY <1>23 DEF AcquireTakes, Queue, Expired, Taken, LostBound
<1>24. ASSUME NEW o \in Owners, ReclaimIdle(o) PROVE UnhookedFirst'
  BY <1>24 DEF ReclaimIdle, IdleVictims, Hot
<1>25. ASSUME NEW o \in Owners, ReclaimBound(o) PROVE UnhookedFirst'
  BY <1>25 DEF ReclaimBound, QuietBound
<1>26. ASSUME NEW o \in Owners, Ping(o) PROVE UnhookedFirst'
  BY <1>26 DEF Ping
<1>27. ASSUME NEW o \in Owners, Thaw(o) PROVE UnhookedFirst'
  BY <1>27 DEF Thaw
<1>28. ASSUME NEW o \in Owners, NotBack(o) PROVE UnhookedFirst'
  BY <1>28 DEF NotBack
<1>29. ASSUME NEW o \in Owners, FreshFails(o) PROVE UnhookedFirst'
  BY <1>29 DEF FreshFails
<1>30. ASSUME NEW o \in Owners, Bind(o) PROVE UnhookedFirst'
  BY <1>30 DEF Bind
<1>31. ASSUME NEW o \in Owners, UseBegin(o) PROVE UnhookedFirst'
  BY <1>31 DEF UseBegin
<1>32. ASSUME NEW o \in Owners, UseEnd(o) PROVE UnhookedFirst'
  BY <1>32 DEF UseEnd
<1>33. ASSUME NEW o \in Owners, UseFails(o) PROVE UnhookedFirst'
  BY <1>33 DEF UseFails
<1>34. ASSUME NEW o \in Owners, Close(o) PROVE UnhookedFirst'
  BY <1>34 DEF Close, Stamps
<1>35. ASSUME NEW o \in Owners, CloseUnhooked(o) PROVE UnhookedFirst'
  BY <1>35 DEF CloseUnhooked, Stamps
<1>36. ASSUME NEW o \in Owners, Forget(o) PROVE UnhookedFirst'
  BY <1>36 DEF Forget
<1>37. ASSUME NEW o \in Owners, Reset(o) PROVE UnhookedFirst'
  BY <1>37 DEF Reset
<1>38. ASSUME NEW o \in Owners, ResetDiscards(o) PROVE UnhookedFirst'
  BY <1>38 DEF ResetDiscards
<1>39. ASSUME NEW o \in Owners, ResetFails(o) PROVE UnhookedFirst'
  BY <1>39 DEF ResetFails
<1>40. ASSUME NEW o \in Owners, Park(o) PROVE UnhookedFirst'
  BY <1>40 DEF Park, Queue
<1>41. ASSUME NEW c \in Closers, PoolClose(c) PROVE UnhookedFirst'
  BY <1>41 DEF PoolClose
<1>42. ASSUME NEW v \in VMs, GuestDies(v) PROVE UnhookedFirst'
  BY <1>42 DEF GuestDies
<1>43. CASE UNCHANGED vars
  BY <1>43 DEF vars
<1> HIDE DEF ThreadsAssumption, Threads, Typed, TypeOK, HoldsWhere, OwnerPC,
   WorkerPC, OwnerHolding, WorkerHolding, KillStage, Accounted, DoneBeforeWork,
   Clear, ClosedIsEnding, UnhookedFirst, threadVars, poolVars, claimVars, hookVars,
   guestVars, sessionVars, Goto, Step, OpenWhileUsed
<1> QED
  BY <1>1, <1>2, <1>3, <1>4, <1>5, <1>6, <1>7, <1>8, <1>9, <1>10, <1>11, <1>12,
     <1>13, <1>14, <1>15, <1>16, <1>17, <1>18, <1>19, <1>20, <1>21, <1>22, <1>23,
     <1>24, <1>25, <1>26, <1>27, <1>28, <1>29, <1>30, <1>31, <1>32, <1>33, <1>34,
     <1>35, <1>36, <1>37, <1>38, <1>39, <1>40, <1>41, <1>42, <1>43 DEF Next,
     OwnerStep, WorkerStep, OwnerCall, Teardown

LEMMA ClosedIsEndingStep ==
  Typed /\ Custody /\ Doom /\ Accounted /\ [Next]_vars => ClosedIsEnding'
<1> SUFFICES ASSUME Typed, Custody, Doom, Accounted, [Next]_vars PROVE ClosedIsEnding'
  OBVIOUS
<1>1. ASSUME NEW o \in Owners, Roomy(o) PROVE ClosedIsEnding'
  BY <1>1, RoomyDoes, Holders, Books, ThreadsAreApart DEF OnlyStarts, Threads,
     ThreadsAssumption, Accounted, ClosedIsEnding, Referenced
<1>2. ASSUME NEW o \in Owners, Thaw(o) PROVE ClosedIsEnding'
  <2>1. /\ pc[o] = "thaw" /\ hold[o] \in VMs /\ sess' = [sess EXCEPT ![hold[o]] = "up"]
        /\ UNCHANGED <<kill, closed, pooled>>
    BY <1>2
       DEF Thaw, poolVars, sessionVars, hookVars, guestVars, Goto, Typed,
           HoldsWhere, OwnerHolding, WorkerHolding
  <2>2. sess[hold[o]] = "frozen"
    BY <2>1, Holders DEF Doom, FrozenWhere
  <2> QED
    BY <2>1, <2>2, Books DEF Accounted, ClosedIsEnding
<1>3. ASSUME NEW o \in Owners, Rebind(o) PROVE ClosedIsEnding'
  BY <1>3, RebindDoes, Holders, Books, ThreadsAreApart DEF OnlyStarts, Threads,
     ThreadsAssumption, Accounted, ClosedIsEnding, Referenced
<1>4. ASSUME NEW o \in Owners, Fresh(o) PROVE ClosedIsEnding'
  <2>1. PICK v \in VMs : FreshTakes(o, v)
    BY <1>4, FreshDoes
  <2> QED
    BY <2>1, Holders, Books, ThreadsAreApart DEF FreshTakes, Threads,
       ThreadsAssumption, Accounted, ClosedIsEnding, Referenced
<1>5. ASSUME NEW o \in Owners, Seed(o) PROVE ClosedIsEnding'
  BY <1>5, SeedDoes, Holders, Books, ThreadsAreApart DEF OnlyStarts, Threads,
     ThreadsAssumption, Accounted, ClosedIsEnding, Referenced
<1>6. ASSUME NEW o \in Owners, CloseUnhooked(o) PROVE ClosedIsEnding'
  <2>1. /\ pc[o] = "held" /\ hold[o] \in VMs /\ (~pooled[hold[o]] \/ closed[hold[o]])
        /\ closed' = [closed EXCEPT ![hold[o]] = TRUE]
        /\ Step(o, hold[o], IF closed[hold[o]] THEN "no" ELSE "wait")
        /\ hold' = [hold EXCEPT ![o] = None]
        /\ UNCHANGED <<idle, bound, sess, pooled>>
    BY <1>6
       DEF CloseUnhooked, poolVars, sessionVars, hookVars, guestVars, Goto, Typed,
           HoldsWhere, OwnerHolding, WorkerHolding
  <2>2. \A u \in Threads, y \in VMs :
          kill'[u][y] = IF u = o /\ y = hold[o]
                        THEN IF closed[hold[o]] THEN "no" ELSE "wait" ELSE kill[u][y]
    BY <2>1, StepSets, Holders
  <2>3. Clear(o) /\ ~pooled[hold[o]]
    BY <2>1 DEF Accounted, DoneBeforeWork, OpenWhileUsed
  <2>4. closed[hold[o]] =>
          sess[hold[o]] = "gone" \/ \E u \in Threads : kill[u][hold[o]] = "wait"
    BY <2>1, <2>3 DEF Accounted, ClosedIsEnding
  <2>5. \A y \in VMs : /\ closed'[y] = (y = hold[o] \/ closed[y])
                       /\ kill[o][y] = "no"
    BY <2>1, <2>3, Books DEF Clear
  <2>6. \A y \in VMs : y # hold[o] => \A u \in Threads : kill'[u][y] = kill[u][y]
    BY <2>2
  <2>7. ~closed[hold[o]] => kill'[o][hold[o]] = "wait"
    BY <2>1, <2>2, Holders
  <2>8. closed[hold[o]] => \A u \in Threads : kill'[u][hold[o]] = kill[u][hold[o]]
    BY <2>1, <2>2, <2>5
  <2> QED
    BY <2>1, <2>4, <2>5, <2>6, <2>7, <2>8, Holders DEF Accounted, ClosedIsEnding
<1>7. ASSUME NEW o \in Owners, ResetDiscards(o) PROVE ClosedIsEnding'
  <2>1. /\ Step(o, hold[o], "queued") /\ hold[o] \in VMs /\ pc[o] = "reset"
        /\ UNCHANGED <<idle, bound, sess, closed, pooled>>
        /\ hold' = [hold EXCEPT ![o] = None]
    BY <1>7
       DEF ResetDiscards, poolVars, sessionVars, hookVars, guestVars, Goto, Typed,
           HoldsWhere, OwnerHolding, WorkerHolding
  <2>2. \A u \in Threads, y \in VMs :
          kill'[u][y] = IF u = o /\ y = hold[o] THEN "queued" ELSE kill[u][y]
    BY <2>1, StepSets, Holders
  <2>3. Clear(o)
    BY <1>7, <2>1 DEF Accounted, DoneBeforeWork, ResetDiscards
  <2> QED
    BY <2>1, <2>2, <2>3, Holders, Books DEF Accounted, ClosedIsEnding, Clear
<1>8. ASSUME NEW o \in Owners, ResetFails(o) PROVE ClosedIsEnding'
  <2>1. /\ Step(o, hold[o], "queued") /\ hold[o] \in VMs /\ pc[o] = "reset"
        /\ UNCHANGED <<idle, bound, sess, closed, pooled>>
        /\ hold' = [hold EXCEPT ![o] = None]
    BY <1>8
       DEF ResetFails, poolVars, sessionVars, hookVars, guestVars, Goto, Typed,
           HoldsWhere, OwnerHolding, WorkerHolding
  <2>2. \A u \in Threads, y \in VMs :
          kill'[u][y] = IF u = o /\ y = hold[o] THEN "queued" ELSE kill[u][y]
    BY <2>1, StepSets, Holders
  <2>3. Clear(o)
    BY <1>8, <2>1 DEF Accounted, DoneBeforeWork, ResetFails
  <2> QED
    BY <2>1, <2>2, <2>3, Holders, Books DEF Accounted, ClosedIsEnding, Clear
<1>9. ASSUME NEW o \in Owners, Park(o) PROVE ClosedIsEnding'
  <2>1. PICK cut \in SUBSET (idle \cup {hold[o]}) :
          kill' = Queue(o, cut) /\ idle' = (idle \cup {hold[o]}) \ cut
    BY <1>9, ParkCuts
  <2>2. /\ pc[o] = "park" /\ hold[o] \in VMs /\ hold' = [hold EXCEPT ![o] = None]
        /\ UNCHANGED <<bound, sess, closed, pooled>>
    BY <1>9
       DEF Park, poolVars, sessionVars, hookVars, guestVars, Goto, Typed,
           HoldsWhere, OwnerHolding, WorkerHolding
  <2>3. \A u \in Threads, y \in VMs :
          kill'[u][y] = IF u = o /\ y \in cut THEN "queued" ELSE kill[u][y]
    BY <2>1, QueueKill, Holders DEF Typed
  <2>4. Clear(o)
    BY <2>2 DEF Accounted, DoneBeforeWork
  <2> QED
    BY <2>1, <2>2, <2>3, <2>4, Holders, Books DEF Accounted, ClosedIsEnding, Clear
<1>10. ASSUME NEW o \in Owners, NEW k \in Keys,
            Prewarm(o, k) \/ SeedCall(o, k)
     PROVE  ClosedIsEnding'
  BY <1>10, CallDoes, Holders, Books, ThreadsAreApart DEF OnlyStarts, Threads,
     ThreadsAssumption, Accounted, ClosedIsEnding, Referenced
<1> USE ThreadsAreApart DEF ThreadsAssumption, Threads, Typed, TypeOK, HoldsWhere,
   OwnerPC, WorkerPC, OwnerHolding, WorkerHolding, KillStage, Accounted,
   DoneBeforeWork, Clear, ClosedIsEnding, UnhookedFirst, threadVars, poolVars,
   claimVars, hookVars, guestVars, sessionVars, Goto, Step, OpenWhileUsed
<1>11. ASSUME NEW t \in Threads, NEW v \in VMs,
            TeardownUnbind(t, v)
     PROVE  ClosedIsEnding'
  BY <1>11 DEF TeardownUnbind
<1>12. ASSUME NEW t \in Threads, NEW v \in VMs,
            TeardownUnhook(t, v)
     PROVE  ClosedIsEnding'
  BY <1>12 DEF TeardownUnhook
<1>13. ASSUME NEW t \in Threads, NEW v \in VMs,
            TeardownClose(t, v)
     PROVE  ClosedIsEnding'
  BY <1>13 DEF TeardownClose
<1>14. ASSUME NEW t \in Threads, NEW v \in VMs,
            TeardownDone(t, v)
     PROVE  ClosedIsEnding'
  BY <1>14 DEF TeardownDone
<1>15. ASSUME NEW w \in Workers, RefillCheck(w) PROVE ClosedIsEnding'
  BY <1>15 DEF RefillCheck
<1>16. ASSUME NEW w \in Workers, RefillBoot(w) PROVE ClosedIsEnding'
  BY <1>16 DEF RefillBoot, Booted, Referenced
<1>17. ASSUME NEW w \in Workers, RefillFreeze(w) PROVE ClosedIsEnding'
  BY <1>17 DEF RefillFreeze
<1>18. ASSUME NEW w \in Workers, RefillPark(w) PROVE ClosedIsEnding'
  BY <1>18 DEF RefillPark
<1>19. ASSUME NEW w \in Workers, RefillDone(w) PROVE ClosedIsEnding'
  BY <1>19 DEF RefillDone
<1>20. ASSUME NEW w \in Workers, SeedBoot(w) PROVE ClosedIsEnding'
  BY <1>20 DEF SeedBoot, Booted, Referenced
<1>21. ASSUME NEW w \in Workers, SeedFreeze(w) PROVE ClosedIsEnding'
  BY <1>21 DEF SeedFreeze
<1>22. ASSUME NEW w \in Workers, SeedPublish(w) PROVE ClosedIsEnding'
  BY <1>22 DEF SeedPublish
<1>23. ASSUME NEW w \in Workers, SeedDone(w) PROVE ClosedIsEnding'
  BY <1>23 DEF SeedDone
<1>24. ASSUME NEW w \in Workers, BootFails(w) PROVE ClosedIsEnding'
  BY <1>24 DEF BootFails
<1>25. ASSUME NEW w \in Workers, FreezeFails(w) PROVE ClosedIsEnding'
  BY <1>25 DEF FreezeFails
<1>26. ASSUME NEW o \in Owners, AcquireBegin(o) PROVE ClosedIsEnding'
  BY <1>26 DEF AcquireBegin
<1>27. ASSUME NEW o \in Owners, AcquireMisses(o) PROVE ClosedIsEnding'
  BY <1>27 DEF AcquireMisses, Queue, Expired, LostBound
<1>28. ASSUME NEW o \in Owners, AcquireTakes(o) PROVE ClosedIsEnding'
  BY <1>28 DEF AcquireTakes, Queue, Expired, Taken, LostBound
<1>29. ASSUME NEW o \in Owners, ReclaimIdle(o) PROVE ClosedIsEnding'
  BY <1>29 DEF ReclaimIdle, IdleVictims, Hot
<1>30. ASSUME NEW o \in Owners, ReclaimBound(o) PROVE ClosedIsEnding'
  BY <1>30 DEF ReclaimBound, QuietBound
<1>31. ASSUME NEW o \in Owners, Ping(o) PROVE ClosedIsEnding'
  BY <1>31 DEF Ping
<1>32. ASSUME NEW o \in Owners, NotBack(o) PROVE ClosedIsEnding'
  BY <1>32 DEF NotBack
<1>33. ASSUME NEW o \in Owners, FreshFails(o) PROVE ClosedIsEnding'
  BY <1>33 DEF FreshFails
<1>34. ASSUME NEW o \in Owners, Bind(o) PROVE ClosedIsEnding'
  BY <1>34 DEF Bind
<1>35. ASSUME NEW o \in Owners, UseBegin(o) PROVE ClosedIsEnding'
  BY <1>35 DEF UseBegin
<1>36. ASSUME NEW o \in Owners, UseEnd(o) PROVE ClosedIsEnding'
  BY <1>36 DEF UseEnd
<1>37. ASSUME NEW o \in Owners, UseFails(o) PROVE ClosedIsEnding'
  BY <1>37 DEF UseFails
<1>38. ASSUME NEW o \in Owners, Close(o) PROVE ClosedIsEnding'
  BY <1>38 DEF Close, Stamps
<1>39. ASSUME NEW o \in Owners, Forget(o) PROVE ClosedIsEnding'
  BY <1>39 DEF Forget
<1>40. ASSUME NEW o \in Owners, Reset(o) PROVE ClosedIsEnding'
  BY <1>40 DEF Reset
<1>41. ASSUME NEW c \in Closers, PoolClose(c) PROVE ClosedIsEnding'
  BY <1>41 DEF PoolClose
<1>42. ASSUME NEW v \in VMs, GuestDies(v) PROVE ClosedIsEnding'
  BY <1>42 DEF GuestDies
<1>43. CASE UNCHANGED vars
  BY <1>43 DEF vars
<1> HIDE DEF ThreadsAssumption, Threads, Typed, TypeOK, HoldsWhere, OwnerPC,
   WorkerPC, OwnerHolding, WorkerHolding, KillStage, Accounted, DoneBeforeWork,
   Clear, ClosedIsEnding, UnhookedFirst, threadVars, poolVars, claimVars, hookVars,
   guestVars, sessionVars, Goto, Step, OpenWhileUsed
<1> QED
  BY <1>1, <1>2, <1>3, <1>4, <1>5, <1>6, <1>7, <1>8, <1>9, <1>10, <1>11, <1>12,
     <1>13, <1>14, <1>15, <1>16, <1>17, <1>18, <1>19, <1>20, <1>21, <1>22, <1>23,
     <1>24, <1>25, <1>26, <1>27, <1>28, <1>29, <1>30, <1>31, <1>32, <1>33, <1>34,
     <1>35, <1>36, <1>37, <1>38, <1>39, <1>40, <1>41, <1>42, <1>43 DEF Next,
     OwnerStep, WorkerStep, OwnerCall, Teardown

LEMMA OpenWhileUsedStep ==
  Typed /\ Custody /\ Doom /\ Accounted /\ [Next]_vars => OpenWhileUsed'
<1> SUFFICES ASSUME Typed, Custody, Doom, Accounted, [Next]_vars PROVE OpenWhileUsed'
  OBVIOUS
<1>1. ASSUME NEW t \in Threads, NEW v \in VMs,
            TeardownClose(t, v)
     PROVE  OpenWhileUsed'
  <2>1. /\ kill[t][v] = "close" /\ closed' = [closed EXCEPT ![v] = TRUE]
        /\ Step(t, v, IF closed[v] \/ sess[v] = "frozen" THEN "no" ELSE "wait")
        /\ sess' = IF sess[v] = "frozen" /\ ~closed[v] THEN [sess EXCEPT ![v] = "gone"] ELSE sess
        /\ UNCHANGED <<pc, hold, idle, bound, pooled>>
    BY <1>1
       DEF TeardownClose, threadVars, poolVars, sessionVars, hookVars, guestVars,
           Goto, Typed, HoldsWhere, OwnerHolding, WorkerHolding
  <2>2. \A u \in Threads, y \in VMs :
          kill'[u][y] = IF u = t /\ y = v
                        THEN IF closed[v] \/ sess[v] = "frozen" THEN "no" ELSE "wait"
                        ELSE kill[u][y]
    BY <2>1, StepSets
  <2>3. ~pooled[v] /\ \A w \in Workers : hold[w] # v
    BY <2>1 DEF Accounted, UnhookedFirst, Doom, WorkersUndisturbed
  <2>4. closed[v] => sess[v] = "gone" \/ \E u \in Threads : u # t /\ kill[u][v] = "wait"
    BY <2>1, <2>3 DEF Accounted, ClosedIsEnding
  <2> QED
    BY <2>1, <2>2, <2>3, <2>4, Holders, Books DEF Accounted, OpenWhileUsed
<1>2. ASSUME NEW o \in Owners, Roomy(o) PROVE OpenWhileUsed'
  BY <1>2, RoomyDoes, Holders, Books, ThreadsAreApart DEF OnlyStarts, Threads,
     ThreadsAssumption, Accounted, OpenWhileUsed, Referenced
<1>3. ASSUME NEW o \in Owners, Rebind(o) PROVE OpenWhileUsed'
  <2>1. /\ hold[o] \in VMs /\ closed' = [closed EXCEPT ![hold[o]] = FALSE]
        /\ UNCHANGED <<hold, pooled>> /\ OnlyStarts(o, "held")
    BY <1>3, RebindDoes
  <2>2. \A u \in Owners : u # o => pc'[u] = pc[u] /\ hold'[u] = hold[u]
    BY <2>1 DEF OnlyStarts
  <2>3. \A u \in Threads : hold[u] = hold[o] => u = o
    BY <2>1, Holders
  <2>4. \A y \in VMs : closed'[y] => closed[y] /\ y # hold[o]
    BY <2>1, Books
  <2>5. \A u \in Owners :
          u # o /\ pc[u] \in {"bind", "bindcold", "seed", "held", "busy"} => hold[u] \in VMs
    BY DEF Typed, HoldsWhere, OwnerHolding
  <2> QED
    BY <2>1, <2>2, <2>3, <2>4, <2>5, Holders DEF Accounted, OpenWhileUsed
<1>4. ASSUME NEW o \in Owners, Fresh(o) PROVE OpenWhileUsed'
  <2>1. PICK v \in VMs : FreshTakes(o, v)
    BY <1>4, FreshDoes
  <2>2. \A u \in Threads : hold[u] # v
    BY <2>1 DEF FreshTakes, Referenced
  <2>3. \A u \in Threads : hold'[u] = IF u = o THEN v ELSE hold[u]
    BY <2>1, Holders DEF FreshTakes
  <2>4. \A y \in VMs : /\ closed'[y] = IF y = v THEN FALSE ELSE closed[y]
                       /\ pooled'[y] = IF y = v THEN TRUE ELSE pooled[y]
    BY <2>1, Books DEF FreshTakes
  <2>5. \A u \in Owners : u # o => pc'[u] = pc[u]
    BY <2>1, Holders DEF FreshTakes
  <2>6. \A u \in Owners :
          pc[u] \in {"bind", "bindcold", "seed", "held", "busy"} => hold[u] \in VMs
    BY DEF Typed, HoldsWhere, OwnerHolding
  <2>7. \A u \in Owners :
          pc'[u] \in {"bind", "bindcold", "seed", "held", "busy"} /\ closed'[hold'[u]]
            => ~pooled'[hold'[u]]
    BY <2>2, <2>3, <2>4, <2>5, <2>6, Holders DEF Accounted, OpenWhileUsed
  <2>8. \A w \in Workers : hold'[w] # None => ~pooled'[hold'[w]] /\ ~closed'[hold'[w]]
    <3>1. \A w \in Workers : hold'[w] = hold[w] /\ hold[w] # v
      BY <2>2, <2>3, Holders
    <3>2. \A w \in Workers : hold[w] # None => hold[w] \in VMs
      BY DEF Typed, TypeOK, Threads
    <3> QED
      BY <2>4, <3>1, <3>2 DEF Accounted, OpenWhileUsed
  <2> QED
    BY <2>7, <2>8 DEF OpenWhileUsed
<1>5. ASSUME NEW o \in Owners, Seed(o) PROVE OpenWhileUsed'
  BY <1>5, SeedDoes, Holders, Books, ThreadsAreApart DEF OnlyStarts, Threads,
     ThreadsAssumption, Accounted, OpenWhileUsed, Referenced
<1>6. ASSUME NEW o \in Owners, NEW k \in Keys,
            Prewarm(o, k) \/ SeedCall(o, k)
     PROVE  OpenWhileUsed'
  BY <1>6, CallDoes, Holders, Books, ThreadsAreApart DEF OnlyStarts, Threads,
     ThreadsAssumption, Accounted, OpenWhileUsed, Referenced
<1> USE ThreadsAreApart DEF ThreadsAssumption, Threads, Typed, TypeOK, HoldsWhere,
   OwnerPC, WorkerPC, OwnerHolding, WorkerHolding, KillStage, Custody, SoleCustody,
   BoundIsRegistered, Registered, Accounted, UnhookedFirst, OpenWhileUsed,
   threadVars, poolVars, claimVars, hookVars, guestVars, sessionVars, Goto, Step
<1>7. ASSUME NEW t \in Threads, NEW v \in VMs,
            TeardownUnbind(t, v)
     PROVE  OpenWhileUsed'
  BY <1>7 DEF TeardownUnbind
<1>8. ASSUME NEW t \in Threads, NEW v \in VMs,
            TeardownUnhook(t, v)
     PROVE  OpenWhileUsed'
  BY <1>8 DEF TeardownUnhook
<1>9. ASSUME NEW t \in Threads, NEW v \in VMs,
            TeardownDone(t, v)
     PROVE  OpenWhileUsed'
  BY <1>9 DEF TeardownDone
<1>10. ASSUME NEW w \in Workers, RefillCheck(w) PROVE OpenWhileUsed'
  BY <1>10 DEF RefillCheck
<1>11. ASSUME NEW w \in Workers, RefillBoot(w) PROVE OpenWhileUsed'
  BY <1>11 DEF RefillBoot, Booted, Referenced
<1>12. ASSUME NEW w \in Workers, RefillFreeze(w) PROVE OpenWhileUsed'
  BY <1>12 DEF RefillFreeze
<1>13. ASSUME NEW w \in Workers, RefillPark(w) PROVE OpenWhileUsed'
  BY <1>13 DEF RefillPark
<1>14. ASSUME NEW w \in Workers, RefillDone(w) PROVE OpenWhileUsed'
  BY <1>14 DEF RefillDone
<1>15. ASSUME NEW w \in Workers, SeedBoot(w) PROVE OpenWhileUsed'
  BY <1>15 DEF SeedBoot, Booted, Referenced
<1>16. ASSUME NEW w \in Workers, SeedFreeze(w) PROVE OpenWhileUsed'
  BY <1>16 DEF SeedFreeze
<1>17. ASSUME NEW w \in Workers, SeedPublish(w) PROVE OpenWhileUsed'
  BY <1>17 DEF SeedPublish
<1>18. ASSUME NEW w \in Workers, SeedDone(w) PROVE OpenWhileUsed'
  BY <1>18 DEF SeedDone
<1>19. ASSUME NEW w \in Workers, BootFails(w) PROVE OpenWhileUsed'
  BY <1>19 DEF BootFails
<1>20. ASSUME NEW w \in Workers, FreezeFails(w) PROVE OpenWhileUsed'
  BY <1>20 DEF FreezeFails
<1>21. ASSUME NEW o \in Owners, AcquireBegin(o) PROVE OpenWhileUsed'
  BY <1>21 DEF AcquireBegin
<1>22. ASSUME NEW o \in Owners, AcquireMisses(o) PROVE OpenWhileUsed'
  BY <1>22 DEF AcquireMisses, Queue, Expired, LostBound
<1>23. ASSUME NEW o \in Owners, AcquireTakes(o) PROVE OpenWhileUsed'
  BY <1>23 DEF AcquireTakes, Queue, Expired, Taken, LostBound
<1>24. ASSUME NEW o \in Owners, ReclaimIdle(o) PROVE OpenWhileUsed'
  BY <1>24 DEF ReclaimIdle, IdleVictims, Hot
<1>25. ASSUME NEW o \in Owners, ReclaimBound(o) PROVE OpenWhileUsed'
  BY <1>25 DEF ReclaimBound, QuietBound
<1>26. ASSUME NEW o \in Owners, Ping(o) PROVE OpenWhileUsed'
  BY <1>26 DEF Ping
<1>27. ASSUME NEW o \in Owners, Thaw(o) PROVE OpenWhileUsed'
  BY <1>27 DEF Thaw
<1>28. ASSUME NEW o \in Owners, NotBack(o) PROVE OpenWhileUsed'
  BY <1>28 DEF NotBack
<1>29. ASSUME NEW o \in Owners, FreshFails(o) PROVE OpenWhileUsed'
  BY <1>29 DEF FreshFails
<1>30. ASSUME NEW o \in Owners, Bind(o) PROVE OpenWhileUsed'
  BY <1>30 DEF Bind
<1>31. ASSUME NEW o \in Owners, UseBegin(o) PROVE OpenWhileUsed'
  BY <1>31 DEF UseBegin
<1>32. ASSUME NEW o \in Owners, UseEnd(o) PROVE OpenWhileUsed'
  BY <1>32 DEF UseEnd
<1>33. ASSUME NEW o \in Owners, UseFails(o) PROVE OpenWhileUsed'
  BY <1>33 DEF UseFails
<1>34. ASSUME NEW o \in Owners, Close(o) PROVE OpenWhileUsed'
  BY <1>34 DEF Close, Stamps
<1>35. ASSUME NEW o \in Owners, CloseUnhooked(o) PROVE OpenWhileUsed'
  BY <1>35 DEF CloseUnhooked, Stamps
<1>36. ASSUME NEW o \in Owners, Forget(o) PROVE OpenWhileUsed'
  BY <1>36 DEF Forget
<1>37. ASSUME NEW o \in Owners, Reset(o) PROVE OpenWhileUsed'
  BY <1>37 DEF Reset
<1>38. ASSUME NEW o \in Owners, ResetDiscards(o) PROVE OpenWhileUsed'
  BY <1>38 DEF ResetDiscards
<1>39. ASSUME NEW o \in Owners, ResetFails(o) PROVE OpenWhileUsed'
  BY <1>39 DEF ResetFails
<1>40. ASSUME NEW o \in Owners, Park(o) PROVE OpenWhileUsed'
  BY <1>40 DEF Park, Queue
<1>41. ASSUME NEW c \in Closers, PoolClose(c) PROVE OpenWhileUsed'
  BY <1>41 DEF PoolClose
<1>42. ASSUME NEW v \in VMs, GuestDies(v) PROVE OpenWhileUsed'
  BY <1>42 DEF GuestDies
<1>43. CASE UNCHANGED vars
  BY <1>43 DEF vars
<1> HIDE DEF ThreadsAssumption, Threads, Typed, TypeOK, HoldsWhere, OwnerPC,
   WorkerPC, OwnerHolding, WorkerHolding, KillStage, Custody, SoleCustody,
   BoundIsRegistered, Registered, Accounted, UnhookedFirst, OpenWhileUsed,
   threadVars, poolVars, claimVars, hookVars, guestVars, sessionVars, Goto, Step
<1> QED
  BY <1>1, <1>2, <1>3, <1>4, <1>5, <1>6, <1>7, <1>8, <1>9, <1>10, <1>11, <1>12,
     <1>13, <1>14, <1>15, <1>16, <1>17, <1>18, <1>19, <1>20, <1>21, <1>22, <1>23,
     <1>24, <1>25, <1>26, <1>27, <1>28, <1>29, <1>30, <1>31, <1>32, <1>33, <1>34,
     <1>35, <1>36, <1>37, <1>38, <1>39, <1>40, <1>41, <1>42, <1>43 DEF Next,
     OwnerStep, WorkerStep, OwnerCall, Teardown

LEMMA RegisteredIsBoundStep ==
  Typed /\ Custody /\ Doom /\ Accounted /\ [Next]_vars => RegisteredIsBound'
<1> SUFFICES ASSUME Typed, Custody, Doom, Accounted, [Next]_vars PROVE RegisteredIsBound'
  OBVIOUS
<1>1. ASSUME NEW t \in Threads, NEW v \in VMs,
            TeardownClose(t, v)
     PROVE  RegisteredIsBound'
  <2>1. /\ kill[t][v] = "close" /\ closed' = [closed EXCEPT ![v] = TRUE]
        /\ Step(t, v, IF closed[v] \/ sess[v] = "frozen" THEN "no" ELSE "wait")
        /\ sess' = IF sess[v] = "frozen" /\ ~closed[v] THEN [sess EXCEPT ![v] = "gone"] ELSE sess
        /\ UNCHANGED <<pc, hold, idle, bound, pooled>>
    BY <1>1
       DEF TeardownClose, threadVars, poolVars, sessionVars, hookVars, guestVars,
           Goto, Typed, HoldsWhere, OwnerHolding, WorkerHolding
  <2>2. \A u \in Threads, y \in VMs :
          kill'[u][y] = IF u = t /\ y = v
                        THEN IF closed[v] \/ sess[v] = "frozen" THEN "no" ELSE "wait"
                        ELSE kill[u][y]
    BY <2>1, StepSets
  <2>3. ~pooled[v] /\ \A w \in Workers : hold[w] # v
    BY <2>1 DEF Accounted, UnhookedFirst, Doom, WorkersUndisturbed
  <2>4. closed[v] => sess[v] = "gone" \/ \E u \in Threads : u # t /\ kill[u][v] = "wait"
    BY <2>1, <2>3 DEF Accounted, ClosedIsEnding
  <2>5. \A u \in Owners : pc[u] \in Registered => hold[u] \in VMs
    BY DEF Typed, HoldsWhere, OwnerHolding, Registered
  <2>6. \A y \in VMs : y # v => /\ sess'[y] = sess[y]
                                  /\ \A u \in Threads : kill'[u][y] = kill[u][y]
    BY <2>1, <2>2, Books
  <2>7. sess'[v] = "gone" \/ \E u \in Threads : kill'[u][v] = "wait"
    <3>1. CASE closed[v]
      BY <2>1, <2>2, <2>4, <3>1
    <3>2. CASE ~closed[v] /\ sess[v] = "frozen"
      BY <2>1, <3>2, Books
    <3>3. CASE ~closed[v] /\ sess[v] # "frozen"
      BY <2>2, <3>3
    <3> QED
      BY <3>1, <3>2, <3>3
  <2> QED
    BY <2>1, <2>5, <2>6, <2>7 DEF Accounted, RegisteredIsBound
<1>2. ASSUME NEW o \in Owners, Roomy(o) PROVE RegisteredIsBound'
  BY <1>2, RoomyDoes, Holders, Books, ThreadsAreApart DEF OnlyStarts, Threads,
     ThreadsAssumption, Accounted, RegisteredIsBound, Referenced, Registered
<1>3. ASSUME NEW o \in Owners, Rebind(o) PROVE RegisteredIsBound'
  BY <1>3, RebindDoes, Holders, Books, ThreadsAreApart DEF OnlyStarts, Threads,
     ThreadsAssumption, Accounted, RegisteredIsBound, Referenced, Registered
<1>4. ASSUME NEW o \in Owners, Fresh(o) PROVE RegisteredIsBound'
  <2>1. PICK v \in VMs : FreshTakes(o, v)
    BY <1>4, FreshDoes
  <2>2. \A u \in Threads : hold[u] # v /\ kill[u][v] = "no"
    BY <2>1 DEF FreshTakes, Referenced
  <2>3. \A u \in Owners : u # o => pc'[u] = pc[u] /\ hold'[u] = hold[u] /\ hold[u] # v
    BY <2>1, <2>2, Holders DEF FreshTakes
  <2>4. \A y \in VMs : y # v => sess'[y] = sess[y]
    BY <2>1, Books DEF FreshTakes
  <2>5. pc'[o] \in {"bind", "bindcold"} /\ UNCHANGED <<bound, kill>>
    BY <2>1 DEF FreshTakes
  <2>6. \A u \in Owners : pc[u] \in Registered => hold[u] \in VMs
    BY DEF Typed, HoldsWhere, OwnerHolding, Registered
  <2> QED
    BY <2>3, <2>4, <2>5, <2>6 DEF Accounted, RegisteredIsBound, Registered
<1>5. ASSUME NEW o \in Owners, Seed(o) PROVE RegisteredIsBound'
  BY <1>5, SeedDoes, Holders, Books, ThreadsAreApart DEF OnlyStarts, Threads,
     ThreadsAssumption, Accounted, RegisteredIsBound, Referenced, Registered
<1>6. ASSUME NEW o \in Owners, Close(o) PROVE RegisteredIsBound'
  <2>1. /\ pc[o] = "held" /\ hold[o] \in VMs /\ bound' = bound \ {hold[o]}
        /\ pc' = [pc EXCEPT ![o] = "reset"] /\ UNCHANGED <<hold, kill, sess>>
    BY <1>6
       DEF Close, poolVars, sessionVars, hookVars, guestVars, Goto, Typed,
           HoldsWhere, OwnerHolding, WorkerHolding
  <2>2. \A u \in Owners : u # o => hold[u] # hold[o] /\ pc'[u] = pc[u]
    BY <2>1, Holders
  <2>3. pc'[o] = "reset"
    BY <2>1, Holders
  <2> QED
    BY <2>1, <2>2, <2>3 DEF Accounted, RegisteredIsBound, Registered
<1>7. ASSUME NEW o \in Owners, NEW k \in Keys,
            Prewarm(o, k) \/ SeedCall(o, k)
     PROVE  RegisteredIsBound'
  BY <1>7, CallDoes, Holders, Books, ThreadsAreApart DEF OnlyStarts, Threads,
     ThreadsAssumption, Accounted, RegisteredIsBound, Referenced, Registered
<1> USE ThreadsAreApart DEF ThreadsAssumption, Threads, Typed, TypeOK, HoldsWhere,
   OwnerPC, WorkerPC, OwnerHolding, WorkerHolding, KillStage, Accounted,
   DoneBeforeWork, Clear, ClosedIsEnding, UnhookedFirst, threadVars, poolVars,
   claimVars, hookVars, guestVars, sessionVars, Goto, Step, Custody, SoleCustody,
   BoundIsRegistered, Registered, RegisteredIsBound
<1>8. ASSUME NEW t \in Threads, NEW v \in VMs,
            TeardownUnbind(t, v)
     PROVE  RegisteredIsBound'
  BY <1>8 DEF TeardownUnbind
<1>9. ASSUME NEW t \in Threads, NEW v \in VMs,
            TeardownUnhook(t, v)
     PROVE  RegisteredIsBound'
  BY <1>9 DEF TeardownUnhook
<1>10. ASSUME NEW t \in Threads, NEW v \in VMs,
            TeardownDone(t, v)
     PROVE  RegisteredIsBound'
  BY <1>10 DEF TeardownDone
<1>11. ASSUME NEW w \in Workers, RefillCheck(w) PROVE RegisteredIsBound'
  BY <1>11 DEF RefillCheck
<1>12. ASSUME NEW w \in Workers, RefillBoot(w) PROVE RegisteredIsBound'
  BY <1>12 DEF RefillBoot, Booted, Referenced
<1>13. ASSUME NEW w \in Workers, RefillFreeze(w) PROVE RegisteredIsBound'
  BY <1>13 DEF RefillFreeze
<1>14. ASSUME NEW w \in Workers, RefillPark(w) PROVE RegisteredIsBound'
  BY <1>14 DEF RefillPark
<1>15. ASSUME NEW w \in Workers, RefillDone(w) PROVE RegisteredIsBound'
  BY <1>15 DEF RefillDone
<1>16. ASSUME NEW w \in Workers, SeedBoot(w) PROVE RegisteredIsBound'
  BY <1>16 DEF SeedBoot, Booted, Referenced
<1>17. ASSUME NEW w \in Workers, SeedFreeze(w) PROVE RegisteredIsBound'
  BY <1>17 DEF SeedFreeze
<1>18. ASSUME NEW w \in Workers, SeedPublish(w) PROVE RegisteredIsBound'
  BY <1>18 DEF SeedPublish
<1>19. ASSUME NEW w \in Workers, SeedDone(w) PROVE RegisteredIsBound'
  BY <1>19 DEF SeedDone
<1>20. ASSUME NEW w \in Workers, BootFails(w) PROVE RegisteredIsBound'
  BY <1>20 DEF BootFails
<1>21. ASSUME NEW w \in Workers, FreezeFails(w) PROVE RegisteredIsBound'
  BY <1>21 DEF FreezeFails
<1>22. ASSUME NEW o \in Owners, AcquireBegin(o) PROVE RegisteredIsBound'
  BY <1>22 DEF AcquireBegin
<1>23. ASSUME NEW o \in Owners, AcquireMisses(o) PROVE RegisteredIsBound'
  BY <1>23 DEF AcquireMisses, Queue, Expired, LostBound
<1>24. ASSUME NEW o \in Owners, AcquireTakes(o) PROVE RegisteredIsBound'
  BY <1>24 DEF AcquireTakes, Queue, Expired, Taken, LostBound
<1>25. ASSUME NEW o \in Owners, ReclaimIdle(o) PROVE RegisteredIsBound'
  BY <1>25 DEF ReclaimIdle, IdleVictims, Hot
<1>26. ASSUME NEW o \in Owners, ReclaimBound(o) PROVE RegisteredIsBound'
  BY <1>26 DEF ReclaimBound, QuietBound
<1>27. ASSUME NEW o \in Owners, Ping(o) PROVE RegisteredIsBound'
  BY <1>27 DEF Ping
<1>28. ASSUME NEW o \in Owners, Thaw(o) PROVE RegisteredIsBound'
  BY <1>28 DEF Thaw
<1>29. ASSUME NEW o \in Owners, NotBack(o) PROVE RegisteredIsBound'
  BY <1>29 DEF NotBack
<1>30. ASSUME NEW o \in Owners, FreshFails(o) PROVE RegisteredIsBound'
  BY <1>30 DEF FreshFails
<1>31. ASSUME NEW o \in Owners, Bind(o) PROVE RegisteredIsBound'
  BY <1>31 DEF Bind
<1>32. ASSUME NEW o \in Owners, UseBegin(o) PROVE RegisteredIsBound'
  BY <1>32 DEF UseBegin
<1>33. ASSUME NEW o \in Owners, UseEnd(o) PROVE RegisteredIsBound'
  BY <1>33 DEF UseEnd
<1>34. ASSUME NEW o \in Owners, UseFails(o) PROVE RegisteredIsBound'
  BY <1>34 DEF UseFails
<1>35. ASSUME NEW o \in Owners, CloseUnhooked(o) PROVE RegisteredIsBound'
  BY <1>35 DEF CloseUnhooked, Stamps
<1>36. ASSUME NEW o \in Owners, Forget(o) PROVE RegisteredIsBound'
  BY <1>36 DEF Forget
<1>37. ASSUME NEW o \in Owners, Reset(o) PROVE RegisteredIsBound'
  BY <1>37 DEF Reset
<1>38. ASSUME NEW o \in Owners, ResetDiscards(o) PROVE RegisteredIsBound'
  BY <1>38 DEF ResetDiscards
<1>39. ASSUME NEW o \in Owners, ResetFails(o) PROVE RegisteredIsBound'
  BY <1>39 DEF ResetFails
<1>40. ASSUME NEW o \in Owners, Park(o) PROVE RegisteredIsBound'
  BY <1>40 DEF Park, Queue
<1>41. ASSUME NEW c \in Closers, PoolClose(c) PROVE RegisteredIsBound'
  BY <1>41 DEF PoolClose
<1>42. ASSUME NEW v \in VMs, GuestDies(v) PROVE RegisteredIsBound'
  BY <1>42 DEF GuestDies
<1>43. CASE UNCHANGED vars
  BY <1>43 DEF vars
<1> HIDE DEF ThreadsAssumption, Threads, Typed, TypeOK, HoldsWhere, OwnerPC,
   WorkerPC, OwnerHolding, WorkerHolding, KillStage, Accounted, DoneBeforeWork,
   Clear, ClosedIsEnding, UnhookedFirst, threadVars, poolVars, claimVars, hookVars,
   guestVars, sessionVars, Goto, Step, Custody, SoleCustody, BoundIsRegistered,
   Registered, RegisteredIsBound
<1> QED
  BY <1>1, <1>2, <1>3, <1>4, <1>5, <1>6, <1>7, <1>8, <1>9, <1>10, <1>11, <1>12,
     <1>13, <1>14, <1>15, <1>16, <1>17, <1>18, <1>19, <1>20, <1>21, <1>22, <1>23,
     <1>24, <1>25, <1>26, <1>27, <1>28, <1>29, <1>30, <1>31, <1>32, <1>33, <1>34,
     <1>35, <1>36, <1>37, <1>38, <1>39, <1>40, <1>41, <1>42, <1>43 DEF Next,
     OwnerStep, WorkerStep, OwnerCall, Teardown

LEMMA NoLeakStep == Typed /\ Custody /\ Doom /\ Accounted /\ [Next]_vars => NoLeak'
<1> SUFFICES ASSUME Typed, Custody, Doom, Accounted, [Next]_vars PROVE NoLeak'
  OBVIOUS
<1>1. ASSUME NEW t \in Threads, NEW v \in VMs, TeardownUnbind(t, v) PROVE NoLeak'
  <2>1. /\ kill[t][v] \in {"queued", "reclaimed"} /\ UNCHANGED <<hold, idle, sess>>
        /\ bound' = bound \ {v}
        /\ Step(t, v, IF v \in bound \/ kill[t][v] = "reclaimed" THEN "abort" ELSE "unhook")
    BY <1>1
       DEF TeardownUnbind, threadVars, poolVars, sessionVars, hookVars, guestVars,
           Goto, Typed, HoldsWhere, OwnerHolding, WorkerHolding
  <2>2. \A u \in Threads, y \in VMs : kill'[u][y] # "no" <=> kill[u][y] # "no"
    BY <2>1, StepSets
  <2> QED
    BY <2>1, <2>2 DEF Accounted, NoLeak, Referenced
<1>2. ASSUME NEW t \in Threads, NEW v \in VMs, TeardownUnhook(t, v) PROVE NoLeak'
  <2>1. /\ kill[t][v] \in {"unhook", "abort"} /\ UNCHANGED <<hold, idle, bound>>
        /\ Step(t, v, "close")
        /\ \A y \in VMs : sess'[y] # "gone" => sess[y] # "gone"
    BY <1>2, Books
       DEF TeardownUnhook, threadVars, poolVars, sessionVars, hookVars, guestVars,
           Goto, Typed, HoldsWhere, OwnerHolding, WorkerHolding
  <2>2. \A u \in Threads, y \in VMs : kill'[u][y] # "no" <=> kill[u][y] # "no"
    BY <2>1, StepSets
  <2> QED
    BY <2>1, <2>2 DEF Accounted, NoLeak, Referenced
<1>3. ASSUME NEW t \in Threads, NEW v \in VMs, TeardownClose(t, v) PROVE NoLeak'
  <2>1. /\ kill[t][v] = "close" /\ closed' = [closed EXCEPT ![v] = TRUE]
        /\ Step(t, v, IF closed[v] \/ sess[v] = "frozen" THEN "no" ELSE "wait")
        /\ sess' = IF sess[v] = "frozen" /\ ~closed[v] THEN [sess EXCEPT ![v] = "gone"] ELSE sess
        /\ UNCHANGED <<pc, hold, idle, bound, pooled>>
    BY <1>3
       DEF TeardownClose, threadVars, poolVars, sessionVars, hookVars, guestVars,
           Goto, Typed, HoldsWhere, OwnerHolding, WorkerHolding
  <2>2. \A u \in Threads, y \in VMs :
          kill'[u][y] = IF u = t /\ y = v
                        THEN IF closed[v] \/ sess[v] = "frozen" THEN "no" ELSE "wait"
                        ELSE kill[u][y]
    BY <2>1, StepSets
  <2>3. ~pooled[v] /\ \A w \in Workers : hold[w] # v
    BY <2>1 DEF Accounted, UnhookedFirst, Doom, WorkersUndisturbed
  <2>4. closed[v] => sess[v] = "gone" \/ \E u \in Threads : u # t /\ kill[u][v] = "wait"
    BY <2>1, <2>3 DEF Accounted, ClosedIsEnding
  <2>5. \A y \in VMs : y # v => /\ sess'[y] = sess[y]
                                  /\ \A u \in Threads : kill'[u][y] = kill[u][y]
    BY <2>1, <2>2, Books
  <2>6. sess'[v] = "gone" \/ \E u \in Threads : kill'[u][v] = "wait"
    <3>1. CASE closed[v]
      BY <2>1, <2>2, <2>4, <3>1
    <3>2. CASE ~closed[v] /\ sess[v] = "frozen"
      BY <2>1, <3>2, Books
    <3>3. CASE ~closed[v] /\ sess[v] # "frozen"
      BY <2>2, <3>3
    <3> QED
      BY <3>1, <3>2, <3>3
  <2> QED
    BY <2>1, <2>5, <2>6 DEF Accounted, NoLeak, Referenced
<1>4. ASSUME NEW t \in Threads, NEW v \in VMs, TeardownDone(t, v) PROVE NoLeak'
  <2>1. /\ UNCHANGED <<hold, idle, bound>> /\ Step(t, v, "no")
        /\ sess' = [sess EXCEPT ![v] = "gone"]
    BY <1>4
       DEF TeardownDone, threadVars, poolVars, sessionVars, hookVars, guestVars,
           Goto, Typed, HoldsWhere, OwnerHolding, WorkerHolding
  <2>2. \A u \in Threads, y \in VMs : kill'[u][y] = IF u = t /\ y = v THEN "no" ELSE kill[u][y]
    BY <2>1, StepSets
  <2> QED
    BY <2>1, <2>2, Books DEF Accounted, NoLeak, Referenced
<1>5. ASSUME NEW w \in Workers,
            RefillCheck(w) \/ RefillDone(w) \/ SeedDone(w) \/ BootFails(w)
     PROVE  NoLeak'
  <2>1. UNCHANGED <<hold, kill, idle, bound, sess>>
    BY <1>5
       DEF RefillCheck, RefillDone, SeedDone, BootFails, poolVars, sessionVars,
           hookVars, guestVars, Goto, Typed, HoldsWhere, OwnerHolding, WorkerHolding
  <2> QED
    BY <2>1 DEF Accounted, NoLeak, Referenced
<1>6. ASSUME NEW w \in Workers, RefillFreeze(w) \/ SeedFreeze(w) PROVE NoLeak'
  <2>1. /\ hold[w] \in VMs /\ UNCHANGED <<hold, kill, idle, bound>>
        /\ sess' = [sess EXCEPT ![hold[w]] = "frozen"] /\ sess[hold[w]] = "up"
    BY <1>6
       DEF RefillFreeze, SeedFreeze, Answers, poolVars, sessionVars, hookVars,
           guestVars, Goto, Typed, HoldsWhere, OwnerHolding, WorkerHolding
  <2> QED
    BY <2>1, Books DEF Accounted, NoLeak, Referenced
<1>7. ASSUME NEW w \in Workers, RefillBoot(w) \/ SeedBoot(w) PROVE NoLeak'
  <2>1. PICK v \in VMs : /\ hold' = [hold EXCEPT ![w] = v]
                         /\ sess' = [sess EXCEPT ![v] = "up"]
    BY <1>7 DEF RefillBoot, SeedBoot, Booted
  <2>2. hold[w] = None /\ UNCHANGED <<kill, idle, bound>>
    BY <1>7
       DEF RefillBoot, SeedBoot, poolVars, sessionVars, hookVars, guestVars, Goto,
           Typed, HoldsWhere, OwnerHolding, WorkerHolding
  <2> QED
    BY <2>1, <2>2, Holders, Books DEF Accounted, NoLeak, Referenced
<1>8. ASSUME NEW w \in Workers, RefillPark(w) PROVE NoLeak'
  <2>1. /\ hold' = [hold EXCEPT ![w] = None] /\ idle' = idle \cup {hold[w]}
        /\ UNCHANGED <<kill, bound, sess>>
    BY <1>8
       DEF RefillPark, poolVars, sessionVars, hookVars, guestVars, Goto, Typed,
           HoldsWhere, OwnerHolding, WorkerHolding
  <2> QED
    BY <2>1, Holders DEF Accounted, NoLeak, Referenced
<1>9. ASSUME NEW w \in Workers, SeedPublish(w) PROVE NoLeak'
  <2>1. /\ hold' = [hold EXCEPT ![w] = None] /\ sess' = [sess EXCEPT ![hold[w]] = "gone"]
        /\ UNCHANGED <<kill, idle, bound>>
    BY <1>9
       DEF SeedPublish, poolVars, sessionVars, hookVars, guestVars, Goto, Typed,
           HoldsWhere, OwnerHolding, WorkerHolding
  <2> QED
    BY <2>1, Holders, Books DEF Accounted, NoLeak, Referenced
<1>10. ASSUME NEW w \in Workers, FreezeFails(w) PROVE NoLeak'
  <2>1. /\ hold[w] \in VMs /\ hold' = [hold EXCEPT ![w] = None] /\ Step(w, hold[w], "wait")
        /\ UNCHANGED <<idle, bound, sess>>
    BY <1>10
       DEF FreezeFails, poolVars, sessionVars, hookVars, guestVars, Goto, Typed,
           HoldsWhere, OwnerHolding, WorkerHolding
  <2>2. \A u \in Threads, y \in VMs :
          kill'[u][y] = IF u = w /\ y = hold[w] THEN "wait" ELSE kill[u][y]
    BY <2>1, StepSets, Holders
  <2> QED
    BY <2>1, <2>2, Holders DEF Accounted, NoLeak, Referenced
<1>11. ASSUME NEW o \in Owners,
            AcquireBegin(o) \/ Ping(o) \/ FreshFails(o) \/ UseBegin(o) \/ UseEnd(o)
              \/ UseFails(o) \/ Reset(o)
     PROVE  NoLeak'
  <2>1. UNCHANGED <<hold, kill, idle, bound, sess>>
    BY <1>11
       DEF AcquireBegin, Ping, FreshFails, UseBegin, UseEnd, UseFails, Reset,
           poolVars, sessionVars, hookVars, guestVars, Goto, Typed, HoldsWhere,
           OwnerHolding, WorkerHolding
  <2> QED
    BY <2>1 DEF Accounted, NoLeak, Referenced
<1>12. ASSUME NEW o \in Owners, AcquireMisses(o) PROVE NoLeak'
  <2>1. PICK old \in Cutoffs : /\ kill' = Queue(o, Expired(old) \cup LostBound)
                               /\ idle' = idle \ Expired(old)
    BY <1>12 DEF AcquireMisses
  <2>2. Clear(o) /\ bound' = bound \ LostBound /\ UNCHANGED <<hold, sess>>
    BY <1>12
       DEF AcquireMisses, poolVars, sessionVars, hookVars, guestVars, Goto, Typed,
           HoldsWhere, OwnerHolding, WorkerHolding
  <2>3. \A u \in Threads, y \in VMs :
          kill'[u][y] = IF u = o /\ y \in Expired(old) \cup LostBound
                        THEN "queued" ELSE kill[u][y]
    BY <2>1, Books DEF Queue
  <2> QED
    BY <2>1, <2>2, <2>3, Holders DEF Accounted, NoLeak, Referenced, Clear
<1>13. ASSUME NEW o \in Owners, AcquireTakes(o) PROVE NoLeak'
  <2>1. PICK old \in Cutoffs, v \in idle :
          /\ kill' = Queue(o, Expired(old) \cup LostBound)
          /\ idle' = (idle \ Expired(old)) \ {v}
          /\ hold' = [hold EXCEPT ![o] = v]
    BY <1>13 DEF AcquireTakes, Taken
  <2>2. /\ Clear(o) /\ bound' = bound \ LostBound /\ UNCHANGED sess
        /\ hold[o] = None
    BY <1>13
       DEF AcquireTakes, poolVars, sessionVars, hookVars, guestVars, Goto, Typed,
           HoldsWhere, OwnerHolding, WorkerHolding
  <2>3. \A u \in Threads, y \in VMs :
          kill'[u][y] = IF u = o /\ y \in Expired(old) \cup LostBound
                        THEN "queued" ELSE kill[u][y]
    BY <2>1, Books DEF Queue
  <2>4. \A u \in Threads : hold'[u] = IF u = o THEN v ELSE hold[u]
    BY <2>1, Holders
  <2>5. SUFFICES ASSUME NEW y \in VMs, sess'[y] # "gone" PROVE Referenced(y)'
    BY DEF NoLeak
  <2>6. Referenced(y)
    BY <2>2, <2>5 DEF Accounted, NoLeak
  <2>7. CASE y = v
    BY <2>4, <2>7, Holders DEF Referenced
  <2>8. CASE y \in Expired(old) \cup LostBound
    BY <2>3, <2>8, Holders DEF Referenced
  <2>9. CASE y # v /\ y \notin Expired(old) \cup LostBound
    <3>1. y \in idle \cup bound => y \in idle' \cup bound'
      BY <2>1, <2>2, <2>9
    <3>2. \A u \in Threads : kill'[u][y] = kill[u][y] /\ (hold[u] = y => hold'[u] = y)
      BY <2>2, <2>3, <2>4, <2>9, Holders
    <3> QED
      BY <2>6, <3>1, <3>2 DEF Referenced
  <2> QED
    BY <2>7, <2>8, <2>9
<1>14. ASSUME NEW o \in Owners, ReclaimIdle(o) PROVE NoLeak'
  <2>1. PICK v \in idle : idle' = idle \ {v} /\ Step(o, v, "queued")
    BY <1>14 DEF ReclaimIdle, IdleVictims, Hot
  <2>2. UNCHANGED <<hold, bound, sess>>
    BY <1>14
       DEF ReclaimIdle, threadVars, poolVars, sessionVars, hookVars, guestVars,
           Goto, Typed, HoldsWhere, OwnerHolding, WorkerHolding
  <2>3. \A u \in Threads, y \in VMs :
          kill'[u][y] = IF u = o /\ y = v THEN "queued" ELSE kill[u][y]
    BY <2>1, StepSets, Holders
  <2> QED
    BY <2>1, <2>2, <2>3, Holders DEF Accounted, NoLeak, Referenced
<1>15. ASSUME NEW o \in Owners, ReclaimBound(o) PROVE NoLeak'
  <2>1. PICK v \in bound : bound' = bound \ {v} /\ Step(o, v, "reclaimed")
    BY <1>15 DEF ReclaimBound, QuietBound
  <2>2. UNCHANGED <<hold, idle, sess>>
    BY <1>15
       DEF ReclaimBound, threadVars, poolVars, sessionVars, hookVars, guestVars,
           Goto, Typed, HoldsWhere, OwnerHolding, WorkerHolding
  <2>3. \A u \in Threads, y \in VMs :
          kill'[u][y] = IF u = o /\ y = v THEN "reclaimed" ELSE kill[u][y]
    BY <2>1, StepSets, Holders
  <2> QED
    BY <2>1, <2>2, <2>3, Holders DEF Accounted, NoLeak, Referenced
<1>16. ASSUME NEW o \in Owners, Roomy(o) PROVE NoLeak'
  BY <1>16, RoomyDoes, Holders, Books, ThreadsAreApart DEF OnlyStarts, Threads,
     ThreadsAssumption, Accounted, NoLeak, Referenced
<1>17. ASSUME NEW o \in Owners, Thaw(o) PROVE NoLeak'
  <2>1. /\ pc[o] = "thaw" /\ hold[o] \in VMs /\ sess' = [sess EXCEPT ![hold[o]] = "up"]
        /\ UNCHANGED <<hold, kill, idle, bound>>
    BY <1>17
       DEF Thaw, poolVars, sessionVars, hookVars, guestVars, Goto, Typed,
           HoldsWhere, OwnerHolding, WorkerHolding
  <2>2. sess[hold[o]] = "frozen"
    BY <2>1, Holders DEF Doom, FrozenWhere
  <2> QED
    BY <2>1, <2>2, Books DEF Accounted, NoLeak, Referenced
<1>18. ASSUME NEW o \in Owners, NotBack(o) PROVE NoLeak'
  <2>1. /\ Step(o, hold[o], "queued") /\ hold[o] \in VMs /\ pc[o] \in {"ping", "thaw"}
        /\ UNCHANGED <<idle, bound, sess, closed, pooled>>
        /\ hold' = [hold EXCEPT ![o] = None]
    BY <1>18
       DEF NotBack, poolVars, sessionVars, hookVars, guestVars, Goto, Typed,
           HoldsWhere, OwnerHolding, WorkerHolding
  <2>2. \A u \in Threads, y \in VMs :
          kill'[u][y] = IF u = o /\ y = hold[o] THEN "queued" ELSE kill[u][y]
    BY <2>1, StepSets, Holders
  <2>3. Clear(o)
    BY <1>18, <2>1 DEF Accounted, DoneBeforeWork, NotBack
  <2> QED
    BY <2>1, <2>2, <2>3, Holders, Books DEF Accounted, NoLeak, Referenced, Clear
<1>19. ASSUME NEW o \in Owners, Rebind(o) PROVE NoLeak'
  BY <1>19, RebindDoes, Holders, Books, ThreadsAreApart DEF OnlyStarts, Threads,
     ThreadsAssumption, Accounted, NoLeak, Referenced
<1>20. ASSUME NEW o \in Owners, Fresh(o) PROVE NoLeak'
  <2>1. PICK v \in VMs : FreshTakes(o, v)
    BY <1>20, FreshDoes
  <2> QED
    BY <2>1, Holders, Books, ThreadsAreApart DEF FreshTakes, Threads,
       ThreadsAssumption, Accounted, NoLeak, Referenced
<1>21. ASSUME NEW o \in Owners, Bind(o) PROVE NoLeak'
  <2>1. bound' = bound \cup {hold[o]} /\ UNCHANGED <<hold, kill, idle, sess>>
    BY <1>21
       DEF Bind, poolVars, sessionVars, hookVars, guestVars, Goto, Typed,
           HoldsWhere, OwnerHolding, WorkerHolding
  <2> QED
    BY <2>1 DEF Accounted, NoLeak, Referenced
<1>22. ASSUME NEW o \in Owners, Seed(o) PROVE NoLeak'
  BY <1>22, SeedDoes, Holders, Books, ThreadsAreApart DEF OnlyStarts, Threads,
     ThreadsAssumption, Accounted, NoLeak, Referenced
<1>23. ASSUME NEW o \in Owners, Close(o) PROVE NoLeak'
  <2>1. /\ bound' = bound \ {hold[o]} /\ UNCHANGED <<hold, kill, idle, sess>>
    BY <1>23
       DEF Close, poolVars, sessionVars, hookVars, guestVars, Goto, Typed,
           HoldsWhere, OwnerHolding, WorkerHolding
  <2> QED
    BY <2>1, Holders DEF Accounted, NoLeak, Referenced
<1>24. ASSUME NEW o \in Owners, CloseUnhooked(o) PROVE NoLeak'
  <2>1. /\ pc[o] = "held" /\ hold[o] \in VMs /\ (~pooled[hold[o]] \/ closed[hold[o]])
        /\ closed' = [closed EXCEPT ![hold[o]] = TRUE]
        /\ Step(o, hold[o], IF closed[hold[o]] THEN "no" ELSE "wait")
        /\ hold' = [hold EXCEPT ![o] = None]
        /\ UNCHANGED <<idle, bound, sess, pooled>>
    BY <1>24
       DEF CloseUnhooked, poolVars, sessionVars, hookVars, guestVars, Goto, Typed,
           HoldsWhere, OwnerHolding, WorkerHolding
  <2>2. \A u \in Threads, y \in VMs :
          kill'[u][y] = IF u = o /\ y = hold[o]
                        THEN IF closed[hold[o]] THEN "no" ELSE "wait" ELSE kill[u][y]
    BY <2>1, StepSets, Holders
  <2>3. Clear(o) /\ ~pooled[hold[o]]
    BY <2>1 DEF Accounted, DoneBeforeWork, OpenWhileUsed
  <2>4. closed[hold[o]] =>
          sess[hold[o]] = "gone" \/ \E u \in Threads : kill[u][hold[o]] = "wait"
    BY <2>1, <2>3 DEF Accounted, ClosedIsEnding
  <2> QED
    BY <2>1, <2>2, <2>3, <2>4, Holders, Books DEF Accounted, NoLeak, Referenced, Clear
<1>25. ASSUME NEW o \in Owners, Forget(o) PROVE NoLeak'
  <2>1. /\ pc[o] = "held" /\ hold[o] \in VMs /\ hold' = [hold EXCEPT ![o] = None]
        /\ UNCHANGED <<kill, idle, bound, sess>>
    BY <1>25
       DEF Forget, poolVars, sessionVars, hookVars, guestVars, Goto, Typed,
           HoldsWhere, OwnerHolding, WorkerHolding
  <2>2. \/ hold[o] \in bound
        \/ sess[hold[o]] = "gone"
        \/ \E t \in Threads : kill[t][hold[o]] # "no"
    BY <2>1 DEF Accounted, RegisteredIsBound, Registered
  <2> QED
    BY <2>1, <2>2, Holders DEF Accounted, NoLeak, Referenced
<1>26. ASSUME NEW o \in Owners, ResetDiscards(o) PROVE NoLeak'
  <2>1. /\ Step(o, hold[o], "queued") /\ hold[o] \in VMs /\ pc[o] = "reset"
        /\ UNCHANGED <<idle, bound, sess, closed, pooled>>
        /\ hold' = [hold EXCEPT ![o] = None]
    BY <1>26
       DEF ResetDiscards, poolVars, sessionVars, hookVars, guestVars, Goto, Typed,
           HoldsWhere, OwnerHolding, WorkerHolding
  <2>2. \A u \in Threads, y \in VMs :
          kill'[u][y] = IF u = o /\ y = hold[o] THEN "queued" ELSE kill[u][y]
    BY <2>1, StepSets, Holders
  <2>3. Clear(o)
    BY <1>26, <2>1 DEF Accounted, DoneBeforeWork, ResetDiscards
  <2> QED
    BY <2>1, <2>2, <2>3, Holders, Books DEF Accounted, NoLeak, Referenced, Clear
<1>27. ASSUME NEW o \in Owners, ResetFails(o) PROVE NoLeak'
  <2>1. /\ Step(o, hold[o], "queued") /\ hold[o] \in VMs /\ pc[o] = "reset"
        /\ UNCHANGED <<idle, bound, sess, closed, pooled>>
        /\ hold' = [hold EXCEPT ![o] = None]
    BY <1>27
       DEF ResetFails, poolVars, sessionVars, hookVars, guestVars, Goto, Typed,
           HoldsWhere, OwnerHolding, WorkerHolding
  <2>2. \A u \in Threads, y \in VMs :
          kill'[u][y] = IF u = o /\ y = hold[o] THEN "queued" ELSE kill[u][y]
    BY <2>1, StepSets, Holders
  <2>3. Clear(o)
    BY <1>27, <2>1 DEF Accounted, DoneBeforeWork, ResetFails
  <2> QED
    BY <2>1, <2>2, <2>3, Holders, Books DEF Accounted, NoLeak, Referenced, Clear
<1>28. ASSUME NEW o \in Owners, Park(o) PROVE NoLeak'
  <2>1. PICK cut \in SUBSET (idle \cup {hold[o]}) :
          kill' = Queue(o, cut) /\ idle' = (idle \cup {hold[o]}) \ cut
    BY <1>28, ParkCuts
  <2>2. /\ pc[o] = "park" /\ hold[o] \in VMs /\ hold' = [hold EXCEPT ![o] = None]
        /\ UNCHANGED <<bound, sess, closed, pooled>>
    BY <1>28
       DEF Park, poolVars, sessionVars, hookVars, guestVars, Goto, Typed,
           HoldsWhere, OwnerHolding, WorkerHolding
  <2>3. \A u \in Threads, y \in VMs :
          kill'[u][y] = IF u = o /\ y \in cut THEN "queued" ELSE kill[u][y]
    BY <2>1, QueueKill, Holders DEF Typed
  <2>4. Clear(o)
    BY <2>2 DEF Accounted, DoneBeforeWork
  <2> QED
    BY <2>1, <2>2, <2>3, <2>4, Holders, Books DEF Accounted, NoLeak, Referenced, Clear
<1>29. ASSUME NEW o \in Owners, NEW k \in Keys,
            Prewarm(o, k) \/ SeedCall(o, k)
     PROVE  NoLeak'
  BY <1>29, CallDoes, Holders, Books, ThreadsAreApart DEF OnlyStarts, Threads,
     ThreadsAssumption, Accounted, NoLeak, Referenced
<1>30. ASSUME NEW c \in Closers, PoolClose(c) PROVE NoLeak'
  <2>1. /\ pc[c] = "out" /\ UNCHANGED <<hold, sess>>
        /\ kill' = [kill EXCEPT ![c] = [v \in VMs |-> IF v \in idle THEN "queued"
                                         ELSE IF v \in bound THEN "reclaimed" ELSE "no"]]
    BY <1>30
       DEF PoolClose, poolVars, sessionVars, hookVars, guestVars, Goto, Typed,
           HoldsWhere, OwnerHolding, WorkerHolding
  <2>2. \A u \in Threads, y \in VMs :
          kill'[u][y] = IF u # c THEN kill[u][y]
                        ELSE IF y \in idle THEN "queued"
                        ELSE IF y \in bound THEN "reclaimed" ELSE "no"
    BY <2>1, Books
  <2>3. c \in Threads /\ \A y \in VMs : kill[c][y] = "no"
    BY <2>1 DEF Accounted, DoneBeforeWork, Clear, Threads
  <2>4. SUFFICES ASSUME NEW y \in VMs, sess'[y] # "gone" PROVE Referenced(y)'
    BY DEF NoLeak
  <2>5. Referenced(y)
    BY <2>1, <2>4 DEF Accounted, NoLeak
  <2> QED
    BY <2>1, <2>2, <2>3, <2>5 DEF Referenced
<1>31. ASSUME NEW v \in VMs, GuestDies(v) PROVE NoLeak'
  <2>1. /\ UNCHANGED <<hold, kill, idle, bound>>
        /\ sess' = [sess EXCEPT ![v] = "down"] /\ sess[v] = "up"
    BY <1>31
       DEF GuestDies, threadVars, poolVars, sessionVars, hookVars, guestVars, Goto,
           Typed, HoldsWhere, OwnerHolding, WorkerHolding
  <2> QED
    BY <2>1, Books DEF Accounted, NoLeak, Referenced
<1> USE ThreadsAreApart DEF Accounted, NoLeak, Referenced, threadVars, poolVars,
   claimVars, hookVars, guestVars, sessionVars, Goto, Step
<1>32. CASE UNCHANGED vars
  BY <1>32 DEF vars
<1> HIDE DEF Accounted, NoLeak, Referenced, threadVars, poolVars, claimVars,
   hookVars, guestVars, sessionVars, Goto, Step
<1> QED
  BY <1>1, <1>2, <1>3, <1>4, <1>5, <1>6, <1>7, <1>8, <1>9, <1>10, <1>11, <1>12,
     <1>13, <1>14, <1>15, <1>16, <1>17, <1>18, <1>19, <1>20, <1>21, <1>22, <1>23,
     <1>24, <1>25, <1>26, <1>27, <1>28, <1>29, <1>30, <1>31, <1>32 DEF Next,
     OwnerStep, WorkerStep, OwnerCall, Teardown

LEMMA AccountedStep == Typed /\ Custody /\ Doom /\ Accounted /\ [Next]_vars => Accounted'
BY DoneBeforeWorkStep, ClosedIsEndingStep, UnhookedFirstStep, OpenWhileUsedStep,
   RegisteredIsBoundStep, NoLeakStep DEF Accounted

-----------------------------------------------------------------------------
(* What a guest holds.                                                     *)

LEMMA ContentsInit == Init => Contents
BY DEF Init, Contents, ParkedIsReset, WorkersClean, OwnersClean, Threads

\* A step that touches no guest and hands none over keeps all of Contents.
LEMMA ContentsKept ==
  ASSUME Contents, UNCHANGED <<tag, env, tree>>, idle' \subseteq idle,
         \A u \in Workers : hold'[u] # None => hold'[u] = hold[u],
         \A u \in Owners : hold'[u] # None =>
           /\ hold'[u] = hold[u]
           /\ pc'[u] \in CleanAt => pc[u] \in CleanAt
           /\ pc'[u] = "reset" => pc[u] = "reset"
  PROVE  Contents'
<1>1. \A v : Clean(v)' <=> Clean(v)
  BY DEF Clean
<1> QED
  BY <1>1 DEF Contents, ParkedIsReset, WorkersClean, OwnersClean, Clean

\* What an owner does to its own VM is nobody else's.
LEMMA OthersKept ==
  ASSUME Typed, Custody, Contents, NEW o \in Owners, hold[o] \in VMs, UNCHANGED idle,
         \A v \in VMs : v # hold[o] =>
           tag'[v] = tag[v] /\ env'[v] = env[v] /\ tree'[v] = tree[v],
         \A u \in Owners : u # o => pc'[u] = pc[u],
         \A u \in Threads : u # o => hold'[u] = hold[u],
         hold'[o] # None =>
           /\ hold'[o] = hold[o]
           /\ pc'[o] \in CleanAt => Clean(hold[o])'
           /\ pc'[o] = "reset" /\ tag'[hold[o]] # None => tree'[hold[o]] = tag'[hold[o]]
  PROVE  Contents'
<1>1. \A v \in VMs : v # hold[o] => (Clean(v) => Clean(v)')
  BY DEF Clean
<1>2. \A u \in Threads : u # o /\ hold[u] # None => hold[u] \in VMs /\ hold[u] # hold[o]
  BY Holders
<1>3. ParkedIsReset'
  BY Holders DEF Contents, ParkedIsReset
<1>4. WorkersClean'
  BY <1>1, <1>2, Holders DEF Contents, WorkersClean
<1>5. OwnersClean'
  BY <1>1, <1>2, Holders DEF Contents, OwnersClean
<1> QED
  BY <1>3, <1>4, <1>5 DEF Contents

\* A VM that thread t has just booted is as a reset one.
NewIn(t, v) ==
  /\ ~Referenced(v)
  /\ hold' = [hold EXCEPT ![t] = v]
  /\ tag' = [tag EXCEPT ![v] = None]
  /\ env' = [env EXCEPT ![v] = FALSE]
  /\ tree' = [tree EXCEPT ![v] = "wiped"]

LEMMA NewIsClean ==
  ASSUME Typed, Custody, Contents, NEW t \in Threads, NEW v \in VMs, NewIn(t, v),
         UNCHANGED idle,
         \A u \in Owners : u # t => pc'[u] = pc[u],
         t \in Owners => pc'[t] # "reset"
  PROVE  Contents'
<1>1. Clean(v)' /\ tag'[v] = None
  BY Books DEF NewIn, Clean
<1>2. \A w \in VMs : w # v => /\ tag'[w] = tag[w] /\ tree'[w] = tree[w]
                              /\ Clean(w) => Clean(w)'
  BY Books DEF NewIn, Clean
<1>3. v \notin idle /\ \A u \in Threads : hold[u] # v
  BY DEF NewIn, Referenced
<1>4. \A u \in Threads : hold'[u] = IF u = t THEN v ELSE hold[u]
  BY Holders DEF NewIn
<1>5. \A u \in Threads : hold[u] # None => hold[u] \in VMs
  BY Holders
<1>6. ParkedIsReset'
  BY <1>2, <1>3, Holders DEF Contents, ParkedIsReset, Clean
<1>7. WorkersClean'
  BY <1>1, <1>2, <1>3, <1>4, <1>5, Holders DEF Contents, WorkersClean
<1>8. OwnersClean'
  BY <1>1, <1>2, <1>3, <1>4, <1>5, Holders DEF Contents, OwnersClean
<1> QED
  BY <1>6, <1>7, <1>8 DEF Contents

LEMMA ContentsStep == Typed /\ Custody /\ Contents /\ [Next]_vars => Contents'
<1> SUFFICES ASSUME Typed, Custody, Contents, [Next]_vars PROVE Contents'
  OBVIOUS
<1>1. ASSUME NEW t \in Threads, NEW v \in VMs,
            TeardownUnbind(t, v) \/ TeardownUnhook(t, v) \/ TeardownClose(t, v) \/
              TeardownDone(t, v)
     PROVE  Contents'
  <2>1. UNCHANGED <<tag, env, tree, idle, hold, pc>>
    BY <1>1
       DEF TeardownUnbind, TeardownUnhook, TeardownClose, TeardownDone, threadVars,
           poolVars, sessionVars, hookVars, guestVars, Goto, Typed, HoldsWhere,
           OwnerHolding, WorkerHolding
  <2> QED
    BY <2>1, ContentsKept
<1>2. ASSUME NEW w \in Workers,
            RefillCheck(w) \/ RefillFreeze(w) \/ RefillDone(w) \/ SeedFreeze(w) \/
              SeedDone(w) \/ BootFails(w)
     PROVE  Contents'
  <2>1. UNCHANGED <<tag, env, tree, idle, hold>> /\ \A u \in Owners : pc'[u] = pc[u]
    BY <1>2, ThreadsAreApart, Books, Holders
       DEF RefillCheck, RefillFreeze, RefillDone, SeedFreeze, SeedDone, BootFails,
           ThreadsAssumption, poolVars, sessionVars, hookVars, guestVars, Goto, Typed,
           HoldsWhere, OwnerHolding, WorkerHolding
  <2> QED
    BY <2>1, ContentsKept
<1>3. ASSUME NEW w \in Workers, SeedPublish(w) \/ FreezeFails(w) PROVE Contents'
  <2>1. /\ UNCHANGED <<tag, env, tree, idle>> /\ hold' = [hold EXCEPT ![w] = None]
        /\ \A u \in Owners : pc'[u] = pc[u]
    BY <1>3, ThreadsAreApart, Books, Holders
       DEF SeedPublish, FreezeFails, ThreadsAssumption, poolVars, sessionVars,
           hookVars, guestVars, Goto, Typed, HoldsWhere, OwnerHolding, WorkerHolding
  <2> QED
    BY <2>1, ContentsKept, Holders
<1>4. ASSUME NEW w \in Workers, RefillBoot(w) \/ SeedBoot(w) PROVE Contents'
  <2>1. PICK v \in VMs : Booted(v, job[w], None) /\ hold' = [hold EXCEPT ![w] = v]
    BY <1>4 DEF RefillBoot, SeedBoot
  <2>2. UNCHANGED idle /\ \A u \in Owners : pc'[u] = pc[u]
    BY <1>4, ThreadsAreApart, Books, Holders
       DEF RefillBoot, SeedBoot, ThreadsAssumption, poolVars, sessionVars, hookVars,
           guestVars, Goto, Typed, HoldsWhere, OwnerHolding, WorkerHolding
  <2>3. NewIn(w, v)
    BY <2>1, <2>2 DEF Booted, NewIn
  <2> QED
    BY <2>2, <2>3, Holders, NewIsClean
<1>5. ASSUME NEW w \in Workers, RefillPark(w) PROVE Contents'
  <2>1. /\ hold[w] \in VMs /\ hold' = [hold EXCEPT ![w] = None] /\ idle' = idle \cup {hold[w]}
        /\ UNCHANGED <<tag, env, tree>> /\ \A u \in Owners : pc'[u] = pc[u]
    BY <1>5, ThreadsAreApart, Books, Holders
       DEF RefillPark, ThreadsAssumption, poolVars, sessionVars, hookVars,
           guestVars, Goto, Typed, HoldsWhere, OwnerHolding, WorkerHolding
  <2> QED
    BY <2>1, Holders DEF Contents, ParkedIsReset, WorkersClean, OwnersClean, Clean
<1>6. ASSUME NEW o \in Owners,
            AcquireBegin(o) \/ Ping(o) \/ Thaw(o) \/ FreshFails(o) \/ Bind(o) \/
              UseBegin(o) \/ UseFails(o)
     PROVE  Contents'
  <2>1. /\ UNCHANGED <<tag, env, tree, idle, hold>>
        /\ \A u \in Owners : u # o => pc'[u] = pc[u]
        /\ pc'[o] \in CleanAt => pc[o] \in CleanAt
        /\ pc'[o] # "reset"
    BY <1>6, Books, Holders
       DEF AcquireBegin, Ping, Thaw, FreshFails, Bind, UseBegin, UseFails, CleanAt,
           poolVars, sessionVars, hookVars, guestVars, Goto, Typed, HoldsWhere,
           OwnerHolding, WorkerHolding
  <2> QED
    BY <2>1, ContentsKept
<1>7. ASSUME NEW o \in Owners, AcquireMisses(o) PROVE Contents'
  <2>1. /\ UNCHANGED <<tag, env, tree, hold>> /\ idle' \subseteq idle /\ hold[o] = None
        /\ \A u \in Owners : u # o => pc'[u] = pc[u]
    BY <1>7, Books, Holders
       DEF AcquireMisses, poolVars, sessionVars, hookVars, guestVars, Goto, Typed,
           HoldsWhere, OwnerHolding, WorkerHolding
  <2> QED
    BY <2>1, ContentsKept
<1>8. ASSUME NEW o \in Owners, AcquireTakes(o) PROVE Contents'
  <2>1. PICK v \in idle : /\ idle' \subseteq idle /\ v \notin idle'
                          /\ hold' = [hold EXCEPT ![o] = v]
    BY <1>8 DEF AcquireTakes, Taken
  <2>2. /\ UNCHANGED <<tag, env, tree>> /\ \A u \in Owners : u # o => pc'[u] = pc[u]
        /\ pc'[o] \in {"room", "ping"}
    BY <1>8, Books, Holders
       DEF AcquireTakes, poolVars, sessionVars, hookVars, guestVars, Goto, Typed,
           HoldsWhere, OwnerHolding, WorkerHolding
  <2>3. \A u \in Threads : hold'[u] = IF u = o THEN v ELSE hold[u]
    BY <2>1, Holders
  <2> QED
    BY <2>1, <2>2, <2>3, Holders
       DEF Contents, ParkedIsReset, WorkersClean, OwnersClean, Clean
<1>9. ASSUME NEW o \in Owners, ReclaimIdle(o) \/ ReclaimBound(o) PROVE Contents'
  <2>1. UNCHANGED <<tag, env, tree, hold, pc>> /\ idle' \subseteq idle
    BY <1>9
       DEF ReclaimIdle, ReclaimBound, threadVars, poolVars, sessionVars, hookVars,
           guestVars, Goto, Typed, HoldsWhere, OwnerHolding, WorkerHolding
  <2> QED
    BY <2>1, ContentsKept
<1>10. ASSUME NEW o \in Owners,
            NotBack(o) \/ Forget(o) \/ ResetFails(o)
     PROVE  Contents'
  <2>1. /\ UNCHANGED <<tag, env, tree, idle>> /\ hold' = [hold EXCEPT ![o] = None]
        /\ \A u \in Owners : u # o => pc'[u] = pc[u]
    BY <1>10, Books, Holders
       DEF NotBack, Forget, ResetFails, poolVars, sessionVars, hookVars, guestVars,
           Goto, Typed, HoldsWhere, OwnerHolding, WorkerHolding
  <2> QED
    BY <2>1, ContentsKept, Holders
<1>11. ASSUME NEW o \in Owners, Roomy(o) PROVE Contents'
  <2>1. /\ UNCHANGED <<tag, env, tree, idle, hold>> /\ pc[o] = "room"
        /\ OnlyStarts(o, "boot") \/ OnlyStarts(o, "thaw")
    BY <1>11, RoomyDoes
  <2> QED
    BY <2>1, ContentsKept DEF OnlyStarts, CleanAt
<1>12. ASSUME NEW o \in Owners, Rebind(o) PROVE Contents'
  <2>1. UNCHANGED <<tag, env, tree, idle, hold>> /\ OnlyStarts(o, "held")
    BY <1>12, RebindDoes
  <2> QED
    BY <2>1, ContentsKept DEF OnlyStarts, CleanAt
<1>13. ASSUME NEW o \in Owners, Fresh(o) PROVE Contents'
  <2>1. PICK v \in VMs : FreshTakes(o, v)
    BY <1>13, FreshDoes
  <2>2. NewIn(o, v) /\ UNCHANGED idle /\ pc'[o] \in {"bind", "bindcold"}
        /\ \A u \in Owners : u # o => pc'[u] = pc[u]
    BY <2>1, Holders DEF FreshTakes, NewIn
  <2> QED
    BY <2>2, Holders, NewIsClean DEF CleanAt
<1>14. ASSUME NEW o \in Owners, Seed(o) PROVE Contents'
  <2>1. UNCHANGED <<tag, env, tree, idle, hold>> /\ OnlyStarts(o, "held")
    BY <1>14, SeedDoes
  <2> QED
    BY <2>1, ContentsKept DEF OnlyStarts, CleanAt
<1>15. ASSUME NEW o \in Owners, UseEnd(o) PROVE Contents'
  <2>1. /\ hold[o] \in VMs /\ UNCHANGED <<tag, idle, hold>>
        /\ \A u \in Owners : u # o => pc'[u] = pc[u]
        /\ pc'[o] = "held"
    BY <1>15, Books, Holders
       DEF UseEnd, poolVars, sessionVars, hookVars, guestVars, Goto, Typed,
           HoldsWhere, OwnerHolding, WorkerHolding
  <2>2. \A y \in VMs : y # hold[o] => env'[y] = env[y] /\ tree'[y] = tree[y]
    BY <1>15, Books DEF UseEnd
  <2> QED
    BY <2>1, <2>2, OthersKept DEF CleanAt
<1>16. ASSUME NEW o \in Owners, Close(o) PROVE Contents'
  <2>1. /\ hold[o] \in VMs /\ UNCHANGED <<env, tree, idle, hold>>
        /\ \A u \in Owners : u # o => pc'[u] = pc[u]
        /\ pc'[o] = "reset"
    BY <1>16, Books, Holders
       DEF Close, poolVars, sessionVars, hookVars, guestVars, Goto, Typed,
           HoldsWhere, OwnerHolding, WorkerHolding
  <2>2. \A y \in VMs : y # hold[o] => tag'[y] = tag[y]
    BY <1>16, Books DEF Close, Stamps
  <2>3. tag'[hold[o]] # None => tree[hold[o]] = tag'[hold[o]]
    BY <1>16, <2>1, Books DEF Close, Stamps
  <2> QED
    BY <2>1, <2>2, <2>3, OthersKept DEF CleanAt
<1>17. ASSUME NEW o \in Owners, CloseUnhooked(o) PROVE Contents'
  <2>1. /\ hold[o] \in VMs /\ UNCHANGED <<env, tree, idle>> /\ hold' = [hold EXCEPT ![o] = None]
        /\ \A u \in Owners : u # o => pc'[u] = pc[u]
    BY <1>17, Books, Holders
       DEF CloseUnhooked, poolVars, sessionVars, hookVars, guestVars, Goto, Typed,
           HoldsWhere, OwnerHolding, WorkerHolding
  <2>2. \A y \in VMs : y # hold[o] => tag'[y] = tag[y]
    BY <1>17, Books DEF CloseUnhooked, Stamps
  <2> QED
    BY <2>1, <2>2, OthersKept, Holders
<1>18. ASSUME NEW o \in Owners, Reset(o) PROVE Contents'
  <2>1. /\ hold[o] \in VMs /\ UNCHANGED <<tag, idle, hold>>
        /\ \A u \in Owners : u # o => pc'[u] = pc[u]
        /\ pc[o] = "reset" /\ pc'[o] = "park"
        /\ env' = [env EXCEPT ![hold[o]] = FALSE]
        /\ tree' = [tree EXCEPT ![hold[o]] = IF tag[hold[o]] = None THEN "wiped" ELSE @]
    BY <1>18, Books, Holders
       DEF Reset, poolVars, sessionVars, hookVars, guestVars, Goto, Typed,
           HoldsWhere, OwnerHolding, WorkerHolding
  <2>2. \A y \in VMs : y # hold[o] => env'[y] = env[y] /\ tree'[y] = tree[y]
    BY <2>1, Books
  <2>3. Clean(hold[o])'
    BY <2>1, Books, Holders DEF Contents, OwnersClean, Clean
  <2> QED
    BY <2>1, <2>2, <2>3, OthersKept
<1>19. ASSUME NEW o \in Owners, ResetDiscards(o) PROVE Contents'
  <2>1. /\ hold[o] \in VMs /\ UNCHANGED <<tag, idle>> /\ hold' = [hold EXCEPT ![o] = None]
        /\ \A u \in Owners : u # o => pc'[u] = pc[u]
    BY <1>19, Books, Holders
       DEF ResetDiscards, poolVars, sessionVars, hookVars, guestVars, Goto, Typed,
           HoldsWhere, OwnerHolding, WorkerHolding
  <2>2. \A y \in VMs : y # hold[o] => env'[y] = env[y] /\ tree'[y] = tree[y]
    BY <1>19, Books DEF ResetDiscards
  <2> QED
    BY <2>1, <2>2, OthersKept, Holders
<1>20. ASSUME NEW o \in Owners, Park(o) PROVE Contents'
  <2>1. idle' \subseteq idle \cup {hold[o]}
    BY <1>20, ParkCuts
  <2>2. /\ pc[o] = "park" /\ hold[o] \in VMs /\ hold' = [hold EXCEPT ![o] = None]
        /\ UNCHANGED <<tag, env, tree>>
        /\ \A u \in Owners : u # o => pc'[u] = pc[u]
    BY <1>20, Books, Holders
       DEF Park, poolVars, sessionVars, hookVars, guestVars, Goto, Typed,
           HoldsWhere, OwnerHolding, WorkerHolding
  <2>3. Clean(hold[o])
    BY <2>2, Holders DEF Contents, OwnersClean, CleanAt
  <2> QED
    BY <2>1, <2>2, <2>3, Holders
       DEF Contents, ParkedIsReset, WorkersClean, OwnersClean, Clean
<1>21. ASSUME NEW o \in Owners, NEW k \in Keys,
            Prewarm(o, k) \/ SeedCall(o, k)
     PROVE  Contents'
  <2>1. UNCHANGED <<tag, env, tree, idle, hold>> /\ OnlyStarts(o, "out")
    BY <1>21, CallDoes
  <2> QED
    BY <2>1, ContentsKept DEF OnlyStarts, CleanAt
<1>22. ASSUME NEW c \in Closers, PoolClose(c) PROVE Contents'
  <2>1. /\ UNCHANGED <<tag, env, tree, hold>> /\ idle' \subseteq idle
        /\ \A u \in Owners : pc'[u] = pc[u]
    BY <1>22, ThreadsAreApart, Books, Holders
       DEF PoolClose, ThreadsAssumption, poolVars, sessionVars, hookVars, guestVars,
           Goto, Typed, HoldsWhere, OwnerHolding, WorkerHolding
  <2> QED
    BY <2>1, ContentsKept
<1>23. ASSUME NEW v \in VMs, GuestDies(v) PROVE Contents'
  <2>1. UNCHANGED <<tag, env, tree, idle, hold, pc>>
    BY <1>23
       DEF GuestDies, threadVars, poolVars, sessionVars, hookVars, guestVars, Goto,
           Typed, HoldsWhere, OwnerHolding, WorkerHolding
  <2> QED
    BY <2>1, ContentsKept
<1> USE ThreadsAreApart DEF threadVars, poolVars, claimVars, hookVars, guestVars,
   sessionVars, Goto, Step
<1>24. CASE UNCHANGED vars
  BY <1>24, ContentsKept DEF vars
<1> HIDE DEF threadVars, poolVars, claimVars, hookVars, guestVars, sessionVars,
   Goto, Step
<1> QED
  BY <1>1, <1>2, <1>3, <1>4, <1>5, <1>6, <1>7, <1>8, <1>9, <1>10, <1>11, <1>12,
     <1>13, <1>14, <1>15, <1>16, <1>17, <1>18, <1>19, <1>20, <1>21, <1>22, <1>23,
     <1>24 DEF Next, OwnerStep, WorkerStep, OwnerCall, Teardown

-----------------------------------------------------------------------------
(* Whom a session answers for.                                             *)

LEMMA BindsForInit == Init => BindsFor
BY DEF Init, BindsFor, Threads

\* A step that rebinds nothing, and gives no owner a VM to work with, keeps it.
LEMMA BindsForKept ==
  ASSUME BindsFor, UNCHANGED bind,
         \A u \in Owners : hold'[u] # None =>
           /\ hold'[u] = hold[u]
           /\ pc'[u] \in OnBehalf => pc[u] \in OnBehalf
  PROVE  BindsFor'
BY DEF BindsFor

LEMMA BindsForStep == Typed /\ Custody /\ BindsFor /\ [Next]_vars => BindsFor'
<1> SUFFICES ASSUME Typed, Custody, BindsFor, [Next]_vars PROVE BindsFor'
  OBVIOUS
<1>1. ASSUME NEW t \in Threads, NEW v \in VMs,
            TeardownUnbind(t, v) \/ TeardownUnhook(t, v) \/ TeardownClose(t, v) \/
              TeardownDone(t, v)
     PROVE  BindsFor'
  <2>1. UNCHANGED <<bind, hold, pc>>
    BY <1>1
       DEF TeardownUnbind, TeardownUnhook, TeardownClose, TeardownDone, threadVars,
           poolVars, sessionVars, hookVars, guestVars, Goto, Typed, HoldsWhere,
           OwnerHolding, WorkerHolding
  <2> QED
    BY <2>1, BindsForKept, Holders DEF OnBehalf, Registered
<1>2. ASSUME NEW w \in Workers,
            RefillCheck(w) \/ RefillFreeze(w) \/ RefillDone(w) \/ SeedFreeze(w) \/
              SeedDone(w) \/ BootFails(w)
     PROVE  BindsFor'
  <2>1. UNCHANGED <<bind, hold>> /\ \A u \in Owners : pc'[u] = pc[u]
    BY <1>2, ThreadsAreApart, Books, Holders
       DEF RefillCheck, RefillFreeze, RefillDone, SeedFreeze, SeedDone, BootFails,
           ThreadsAssumption, poolVars, sessionVars, hookVars, guestVars, Goto, Typed,
           HoldsWhere, OwnerHolding, WorkerHolding
  <2> QED
    BY <2>1, BindsForKept, Holders DEF OnBehalf, Registered
<1>3. ASSUME NEW w \in Workers,
            RefillPark(w) \/ SeedPublish(w) \/ FreezeFails(w)
     PROVE  BindsFor'
  <2>1. /\ UNCHANGED bind /\ hold' = [hold EXCEPT ![w] = None]
        /\ \A u \in Owners : pc'[u] = pc[u]
    BY <1>3, ThreadsAreApart, Books, Holders
       DEF RefillPark, SeedPublish, FreezeFails, ThreadsAssumption, poolVars,
           sessionVars, hookVars, guestVars, Goto, Typed, HoldsWhere, OwnerHolding,
           WorkerHolding
  <2> QED
    BY <2>1, BindsForKept, Holders DEF OnBehalf, Registered
<1>4. ASSUME NEW w \in Workers, RefillBoot(w) \/ SeedBoot(w) PROVE BindsFor'
  <2>1. PICK v \in VMs : Booted(v, job[w], None) /\ hold' = [hold EXCEPT ![w] = v]
    BY <1>4 DEF RefillBoot, SeedBoot
  <2>2. \A u \in Owners : u # w /\ pc'[u] = pc[u]
    BY <1>4, Books, Holders DEF RefillBoot, SeedBoot, Goto
  <2>3. \A u \in Owners : hold'[u] = hold[u] /\ hold[u] # v
    BY <2>1, <2>2, Holders DEF Booted, Referenced
  <2>4. \A y \in VMs : y # v => bind'[y] = bind[y]
    BY <2>1, Books DEF Booted
  <2> QED
    BY <2>2, <2>3, <2>4, Holders DEF BindsFor
<1>5. ASSUME NEW o \in Owners,
            AcquireBegin(o) \/ AcquireMisses(o) \/ Ping(o) \/ Thaw(o) \/
              FreshFails(o) \/ Bind(o) \/ UseBegin(o) \/ UseEnd(o) \/ UseFails(o) \/
              Close(o) \/ Reset(o)
     PROVE  BindsFor'
  <2>1. /\ UNCHANGED <<bind, hold>>
        /\ \A u \in Owners : u # o => pc'[u] = pc[u]
        /\ pc'[o] \in OnBehalf => pc[o] \in OnBehalf
    BY <1>5, Books, Holders
       DEF AcquireBegin, AcquireMisses, Ping, Thaw, FreshFails, Bind, UseBegin, UseEnd,
           UseFails, Close, Reset, OnBehalf, Registered, poolVars, sessionVars,
           hookVars, guestVars, Goto, Typed, HoldsWhere, OwnerHolding, WorkerHolding
  <2> QED
    BY <2>1, BindsForKept, Holders DEF OnBehalf, Registered
<1>6. ASSUME NEW o \in Owners, AcquireTakes(o) PROVE BindsFor'
  <2>1. PICK v \in idle : hold' = [hold EXCEPT ![o] = v]
    BY <1>6 DEF AcquireTakes, Taken
  <2>2. /\ UNCHANGED bind /\ \A u \in Owners : u # o => pc'[u] = pc[u]
        /\ pc'[o] \in {"room", "ping"}
    BY <1>6, Books, Holders
       DEF AcquireTakes, poolVars, sessionVars, hookVars, guestVars, Goto, Typed,
           HoldsWhere, OwnerHolding, WorkerHolding
  <2> QED
    BY <2>1, <2>2, Holders DEF BindsFor, OnBehalf, Registered
<1>7. ASSUME NEW o \in Owners, ReclaimIdle(o) \/ ReclaimBound(o) PROVE BindsFor'
  <2>1. UNCHANGED <<bind, hold, pc>>
    BY <1>7
       DEF ReclaimIdle, ReclaimBound, threadVars, poolVars, sessionVars, hookVars,
           guestVars, Goto, Typed, HoldsWhere, OwnerHolding, WorkerHolding
  <2> QED
    BY <2>1, BindsForKept, Holders DEF OnBehalf, Registered
<1>8. ASSUME NEW o \in Owners,
            NotBack(o) \/ Forget(o) \/ CloseUnhooked(o) \/ ResetDiscards(o) \/
              ResetFails(o) \/ Park(o)
     PROVE  BindsFor'
  <2>1. /\ UNCHANGED bind /\ hold' = [hold EXCEPT ![o] = None]
        /\ \A u \in Owners : u # o => pc'[u] = pc[u]
    BY <1>8, Books, Holders
       DEF NotBack, Forget, CloseUnhooked, ResetDiscards, ResetFails, Park, poolVars,
           sessionVars, hookVars, guestVars, Goto, Typed, HoldsWhere, OwnerHolding,
           WorkerHolding
  <2> QED
    BY <2>1, BindsForKept, Holders DEF OnBehalf, Registered
<1>9. ASSUME NEW o \in Owners, Roomy(o) PROVE BindsFor'
  <2>1. /\ UNCHANGED <<bind, hold>>
        /\ OnlyStarts(o, "boot") \/ OnlyStarts(o, "thaw")
    BY <1>9, RoomyDoes
  <2> QED
    BY <2>1, BindsForKept DEF OnlyStarts, OnBehalf, Registered
<1>10. ASSUME NEW o \in Owners, Rebind(o) PROVE BindsFor'
  <2>1. /\ hold[o] \in VMs /\ UNCHANGED hold /\ OnlyStarts(o, "held")
        /\ bind' = [bind EXCEPT ![hold[o]] = o]
    BY <1>10, RebindDoes
  <2>2. \A u \in Owners : u # o => pc'[u] = pc[u] /\ hold[u] # hold[o]
    BY <2>1, Holders DEF OnlyStarts
  <2>3. \A y \in VMs : bind'[y] = IF y = hold[o] THEN o ELSE bind[y]
    BY <2>1, Books
  <2> QED
    BY <2>1, <2>2, <2>3, Holders DEF BindsFor
<1>11. ASSUME NEW o \in Owners, Fresh(o) PROVE BindsFor'
  <2>1. PICK v \in VMs : FreshTakes(o, v)
    BY <1>11, FreshDoes
  <2>2. \A u \in Owners : u # o => pc'[u] = pc[u] /\ hold'[u] = hold[u] /\ hold[u] # v
    BY <2>1, Holders DEF FreshTakes, Referenced
  <2>3. \A y \in VMs : bind'[y] = IF y = v THEN o ELSE bind[y]
    BY <2>1, Books DEF FreshTakes
  <2>4. hold'[o] = v
    BY <2>1, Holders DEF FreshTakes
  <2> QED
    BY <2>2, <2>3, <2>4, Holders DEF BindsFor
<1>12. ASSUME NEW o \in Owners, Seed(o) PROVE BindsFor'
  <2>1. UNCHANGED <<bind, hold>> /\ OnlyStarts(o, "held") /\ pc[o] = "seed"
    BY <1>12, SeedDoes
  <2> QED
    BY <2>1, BindsForKept DEF OnlyStarts, OnBehalf, Registered
<1>13. ASSUME NEW o \in Owners, NEW k \in Keys,
            Prewarm(o, k) \/ SeedCall(o, k)
     PROVE  BindsFor'
  <2>1. UNCHANGED <<bind, hold>> /\ OnlyStarts(o, "out")
    BY <1>13, CallDoes
  <2> QED
    BY <2>1, BindsForKept DEF OnlyStarts, OnBehalf, Registered
<1>14. ASSUME NEW c \in Closers, PoolClose(c) PROVE BindsFor'
  <2>1. UNCHANGED <<bind, hold>> /\ \A u \in Owners : pc'[u] = pc[u]
    BY <1>14, ThreadsAreApart
       DEF PoolClose, ThreadsAssumption, poolVars, sessionVars, hookVars, guestVars,
           Goto, Typed, HoldsWhere, OwnerHolding, WorkerHolding
  <2> QED
    BY <2>1, BindsForKept, Holders DEF OnBehalf, Registered
<1>15. ASSUME NEW v \in VMs, GuestDies(v) PROVE BindsFor'
  <2>1. UNCHANGED <<bind, hold, pc>>
    BY <1>15
       DEF GuestDies, threadVars, poolVars, sessionVars, hookVars, guestVars, Goto,
           Typed, HoldsWhere, OwnerHolding, WorkerHolding
  <2> QED
    BY <2>1, BindsForKept, Holders DEF OnBehalf, Registered
<1> USE ThreadsAreApart DEF threadVars, poolVars, claimVars, hookVars, guestVars,
   sessionVars, Goto, Step
<1>16. CASE UNCHANGED vars
  BY <1>16, BindsForKept DEF vars
<1> HIDE DEF threadVars, poolVars, claimVars, hookVars, guestVars, sessionVars,
   Goto, Step
<1> QED
  BY <1>1, <1>2, <1>3, <1>4, <1>5, <1>6, <1>7, <1>8, <1>9, <1>10, <1>11, <1>12,
     <1>13, <1>14, <1>15, <1>16 DEF Next, OwnerStep, WorkerStep, OwnerCall, Teardown

-----------------------------------------------------------------------------
(* The whole invariant, and what follows from it.                          *)

LEMMA IInvInit == Init => IInv
BY TypedInit, CustodyInit, DoomInit, AccountedInit, ContentsInit, BindsForInit DEF IInv

LEMMA IInvStep == IInv /\ [Next]_vars => IInv'
BY TypedStep, CustodyStep, DoomStep, AccountedStep, ContentsStep, BindsForStep DEF IInv

\* Who holds a VM, who may end it, that somebody will, what is in it and whom it
\* answers for: the invariant every other result about the pool's VMs follows from.
THEOREM PoolInvariant == Spec => []IInv
<1> QED
  BY IInvInit, IInvStep, PTL DEF Spec

\* No guest runs that nothing will ever tear down: neither a reclaim that races a
\* release, nor a reset that fails, nor a close of the pool drops the last mention of it.
THEOREM LeakFree == Spec => []NoLeak
<1>1. IInv => NoLeak
  BY DEF IInv, Accounted
<1> QED
  BY <1>1, PoolInvariant, PTL

\* A parked VM has none of its last owner's processes or environment, and no
\* workspace but the one its tag names.
THEOREM ParkedCorrect == Spec => []ParkedIsReset
<1>1. IInv => ParkedIsReset
  BY DEF IInv, Contents
<1> QED
  BY <1>1, PoolInvariant, PTL

\* A session answers the guest with its owner's cache, host objects and allowlist
\* from the moment it is handed out to the moment it parks.
THEOREM BindingCorrect == Spec => []BoundToHolder
<1>1. IInv => BoundToHolder
  BY DEF IInv, BindsFor, BoundToHolder, OnBehalf, Registered
<1> QED
  BY <1>1, PoolInvariant, PTL

\* An owner is handed a clean guest, and one told resumed=True its own tree.
THEOREM HandoffCorrect == Spec => CleanHandoff
<1> DEFINE Handed(o) == /\ ~env[hold[o]]
                        /\ Resumed(o) => tree[hold[o]] = want[o].state
<1>1. IInv /\ [Next]_vars
        => [\A o \in Owners : pc[o] = "rebind" /\ pc'[o] = "held" => Handed(o)]_vars
  <2> SUFFICES ASSUME IInv, NEW o \in Owners, pc[o] = "rebind" PROVE Handed(o)
    OBVIOUS
  <2>1. hold[o] # None
    BY ThreadsAreApart
       DEF ThreadsAssumption, IInv, Typed, HoldsWhere, OwnerHolding
  <2>2. Clean(hold[o])
    BY <2>1 DEF IInv, Contents, OwnersClean, CleanAt
  <2> QED
    BY <2>2 DEF Clean, Resumed
<1> QED
  BY <1>1, PoolInvariant, PTL DEF Spec, CleanHandoff

-----------------------------------------------------------------------------
(* The cap.                                                                *)

\* What WithinCap is claimed for: one owner, no warm levels, seeds that only a cold
\* boot starts, a pool that stays open, and a cap above zero.
OneOwner ==
  /\ \A a, b \in Owners : a = b
  /\ Closers = {} /\ WarmLevels \subseteq {0} /\ (Cloning => AutoSeed) /\ MaxTotal # 0

NoRefills == \A w \in Workers : pc[w] \in SeedPC \cup {"out"}

\* A VM that a worker has given up is nobody else's, and is the worker's last work.
WorkersApart ==
  \A w \in Workers, v \in VMs : kill[w][v] # "no" =>
    /\ kill[w][v] = "wait" /\ pc[w] = "sdone"
    /\ v \notin idle \cup bound /\ \A o \in Owners : hold[o] # v
    /\ \A u \in VMs : kill[w][u] # "no" => u = v

SeedIsBound == \A o \in Owners : pc[o] = "seed" => hold[o] \in bound

KeysKnown == \A v \in VMs : v \in idle \/ (\E t \in Threads : hold[t] = v) => key[v] \in Keys

\* The VMs that run and are no worker's.
Ours == {v \in Running : \A w \in Workers : hold[w] # v /\ kill[w][v] = "no"}

Used == Cardinality(Ours) + Cardinality(seeding)

\* A boot has a slot of its own from the moment _make_room returns; seeds alone never
\* fill the cap, so that there is one to be had.
Slots ==
  /\ IsFiniteSet(bound) /\ IsFiniteSet(seeding) /\ IsFiniteSet(Ours)
  /\ MaxTotal # None => /\ Cardinality(seeding) < MaxTotal
                        /\ Used <= MaxTotal
                        /\ \A o \in Owners : pc[o] \in {"boot", "thaw"} => Used < MaxTotal

Base == IInv /\ Claims /\ Floors
Capped == NoRefills /\ WorkersApart /\ SeedIsBound /\ KeysKnown /\ Slots

LEMMA BaseInit == Init => Base
BY IInvInit, FS_EmptySet DEF Base, Init, Claims, Threads, Seeds, Fills, FillPC, SeedPC,
   Floors, Ordered, Levels, ParksHot

LEMMA BaseStep == Base /\ [Next]_vars => Base'
BY IInvStep, ClaimsStep, LevelsStep, OrderStep, ParksHotStep DEF Base, IInv, Floors

LEMMA CappedInit == OneOwner /\ Init => Capped
<1> SUFFICES ASSUME OneOwner, Init PROVE Capped
  OBVIOUS
<1>1. Ours = {} /\ bound = {} /\ seeding = {}
  BY DEF Init, Ours, Running
<1>2. MaxTotal # None => MaxTotal \in Nat /\ 0 < MaxTotal
  BY ParametersAreTyped DEF ParametersAssumption, OneOwner
<1>3. Slots
  BY <1>1, <1>2, FS_EmptySet DEF Slots, Used
<1>4. NoRefills /\ WorkersApart /\ SeedIsBound /\ KeysKnown
  BY ThreadsAreApart DEF ThreadsAssumption, Init, NoRefills, WorkersApart, SeedIsBound,
     KeysKnown, Threads
<1> QED
  BY <1>3, <1>4 DEF Capped

\* The threads of such a pool, and that none of its steps refills.
LEMMA Alone ==
  ASSUME OneOwner, Base
  PROVE  /\ Threads = Owners \cup Workers /\ Owners \cap Workers = {} /\ None \notin VMs
         /\ \A k \in Keys : target[k] = 0
         /\ \A k \in Keys : Cardinality(Bucket(k)) \in Nat
         /\ MaxTotal # None => MaxTotal \in Nat
<1>1. /\ Threads = Owners \cup Workers /\ Owners \cap Workers = {} /\ None \notin VMs
      /\ MaxTotal # None => MaxTotal \in Nat
  BY ThreadsAreApart, ParametersAreTyped
     DEF ThreadsAssumption, ParametersAssumption, OneOwner, Threads
<1>2. \A k \in Keys : target[k] = 0
  BY DEF Base, Floors, Levels, OneOwner
<1>3. ASSUME NEW k \in Keys PROVE Cardinality(Bucket(k)) \in Nat
  <2>1. Bucket(k) \in SUBSET idle
    BY DEF Bucket
  <2> QED
    BY <2>1, FS_Subset, FS_CardinalityType DEF Base, Floors, Ordered
<1> QED
  BY <1>1, <1>2, <1>3

LEMMA NoRefillStarts ==
  ASSUME OneOwner, Base, NEW o \in Owners, NEW label, NEW k \in Keys,
         MaybeRefill(o, label, k, target[k])
  PROVE  pc' = [pc EXCEPT ![o] = label] /\ UNCHANGED <<job, filling>>
<1>1. ~(Cardinality(Bucket(k)) < target[k])
  BY Alone
<1> QED
  BY <1>1 DEF MaybeRefill, Goto

\* The VMs that run are their owner's, in _bound or parked, but for what it has in hand.
LEMMA OursAre ==
  ASSUME OneOwner, Base, NEW o \in Owners, Clear(o), NEW v \in Ours, v # hold[o]
  PROVE  v \in bound \cup Hot
<1>1. Referenced(v)
  BY DEF Base, IInv, Accounted, NoLeak, Ours, Running
<1>2. v \in idle \cup bound
  <2>1. ASSUME NEW t \in Threads, hold[t] = v \/ kill[t][v] # "no" PROVE FALSE
    <3>1. t \in Owners \/ t \in Workers
      BY Alone
    <3>2. t \in Workers => hold[t] # v /\ kill[t][v] = "no"
      BY DEF Ours
    <3>3. t \in Owners => t = o
      BY DEF OneOwner
    <3> QED
      BY <2>1, <3>1, <3>2, <3>3 DEF Clear, Ours, Running
  <2> QED
    BY <1>1, <2>1 DEF Referenced
<1> QED
  BY <1>2 DEF Hot, Ours, Running

LEMMA OursCounted ==
  ASSUME OneOwner, Base, Slots, NEW o \in Owners, Clear(o), hold[o] \notin Ours \ bound
  PROVE  /\ Cardinality(Ours) <= Cardinality(bound) + Cardinality(Hot)
         /\ {Cardinality(Ours), Cardinality(bound), Cardinality(Hot), Cardinality(seeding)}
              \subseteq Nat
<1>1. Ours \subseteq bound \cup Hot
  BY OursAre
<1>2. IsFiniteSet(Hot) /\ bound \cap Hot = {}
  <2>1. Hot \subseteq idle /\ IsFiniteSet(idle)
    BY DEF Hot, Base, Floors, Ordered
  <2> QED
    BY <2>1, FS_Subset DEF Base, IInv, Custody, SoleCustody
<1>3. /\ Cardinality(Ours) \in Nat /\ Cardinality(bound) \in Nat /\ Cardinality(Hot) \in Nat
      /\ Cardinality(seeding) \in Nat
  BY <1>2, FS_CardinalityType DEF Slots
<1>4. /\ IsFiniteSet(bound \cup Hot)
      /\ Cardinality(bound \cup Hot)
           = Cardinality(bound) + Cardinality(Hot) - Cardinality(bound \cap Hot)
  BY <1>2, FS_Union DEF Slots
<1>5. Cardinality(bound \cap Hot) = 0
  BY <1>2, FS_EmptySet
<1>6. Cardinality(Ours) <= Cardinality(bound \cup Hot)
  BY <1>1, <1>4, FS_Subset
<1> QED
  BY <1>3, <1>4, <1>5, <1>6

\* Of the parked VMs that run one is the oldest.
LEMMA Oldest ==
  ASSUME NEW S, NEW R, Ordered(S, R), NEW B, B \subseteq S, B # {}
  PROVE  \E v \in B : \A w \in B : <<v, w>> \notin R
<1> DEFINE Q == {p \in B \X B : <<p[2], p[1]>> \in R}
<1>1. \A v, w \in B : <<v, w>> \in Q <=> <<w, v>> \in R
  OBVIOUS
<1>2. IsFiniteSet(B) /\ Cardinality(B) \in Nat /\ Cardinality(B) # 0
  BY FS_Subset, FS_CardinalityType, FS_EmptySet DEF Ordered
<1>3. /\ \A v \in B : <<v, v>> \notin Q
      /\ \A u, v, w \in B : <<u, v>> \in Q /\ <<v, w>> \in Q => <<u, w>> \in Q
  BY <1>1 DEF Ordered
<1> HIDE DEF Q
<1> DEFINE F == {v \in B : Rank(B, Q, v) < 1}
<1>4. 1 \in Nat /\ 1 <= Cardinality(B)
  BY <1>2
<1>5. Cardinality(F) >= 1
  BY <1>2, <1>3, <1>4, Newest
<1>6. F # {}
  BY <1>5, FS_EmptySet
<1>7. PICK v \in B : Rank(B, Q, v) < 1
  BY <1>6
<1> DEFINE E == {w \in B : <<w, v>> \in Q}
<1>8. IsFiniteSet(E) /\ Cardinality(E) \in Nat
  BY <1>2, FS_Subset, FS_CardinalityType
<1>9. Cardinality(E) = 0
  BY <1>7, <1>8 DEF Rank
<1>10. E = {}
  BY <1>8, <1>9, FS_EmptySet
<1> QED
  BY <1>1, <1>10

\* _make_room returns with room for one more, whatever it had to give up for it.
LEMMA RoomIsMade ==
  ASSUME OneOwner, Base, Capped, NEW o \in Owners, Roomy(o), MaxTotal # None
  PROVE  Used < MaxTotal
<1>1. /\ pc[o] = "room" /\ Clear(o)
      /\ AtCapacity => IdleVictims \cup QuietBound = {}
  BY DEF Roomy
<1>2. hold[o] \notin Ours
  <2>1. hold[o] # None => sess[hold[o]] = "frozen"
    BY <1>1 DEF Base, IInv, Doom, FrozenWhere
  <2> QED
    BY <2>1, Alone DEF Ours, Running
<1>3. /\ Cardinality(Ours) <= Cardinality(bound) + Cardinality(Hot)
      /\ Cardinality(Ours) \in Nat /\ Cardinality(bound) \in Nat /\ Cardinality(Hot) \in Nat
      /\ Cardinality(seeding) \in Nat /\ MaxTotal \in Nat
  BY <1>1, <1>2, OursCounted, Alone DEF Capped
<1>4. CASE ~AtCapacity
  BY <1>3, <1>4 DEF AtCapacity, Live, Used
<1>5. CASE AtCapacity
  <2>1. Hot = {}
    <3> SUFFICES ASSUME Hot # {} PROVE FALSE
      OBVIOUS
    <3>1. \A v \in Hot : v \in idle
      BY DEF Hot
    <3>2. ASSUME NEW v \in Hot PROVE Position(idle, v) >= target[key[v]]
      <4>1. v \in VMs /\ v \in idle
        BY <3>1 DEF Base, IInv, Typed, TypeOK
      <4>2. target[key[v]] = 0
        BY <4>1, Alone DEF Capped, KeysKnown
      <4>3. {w \in idle : key[w] = key[v] /\ <<w, v>> \in newer} \in SUBSET idle
        OBVIOUS
      <4>4. Position(idle, v) \in Nat
        BY <4>3, FS_Subset, FS_CardinalityType DEF Position, Base, Floors, Ordered
      <4> QED
        BY <4>2, <4>4
    <3>3. PICK v \in Hot : \A w \in Hot : <<v, w>> \notin newer
      BY <3>1, Oldest DEF Base, Floors
    <3>4. v \in IdleVictims
      BY <3>2, <3>3 DEF IdleVictims
    <3> QED
      BY <1>1, <1>5, <3>4
  <2>2. bound = {}
    <3> SUFFICES ASSUME NEW v \in bound PROVE FALSE
      OBVIOUS
    <3>1. v \in VMs
      BY DEF Base, IInv, Typed, TypeOK
    <3>2. PICK t \in Threads : InRequest(t, v)
      BY <1>1, <1>5 DEF QuietBound
    <3>3. t \in Owners \/ t \in Workers
      BY Alone
    <3>4. CASE t \in Owners
      <4>1. t = o
        BY <3>4 DEF OneOwner
      <4> QED
        BY <1>1, <3>1, <3>2, <4>1 DEF InRequest, Clear
    <3>5. CASE t \in Workers
      <4>1. hold[t] # v
        BY <3>2, <3>5, Alone DEF Base, IInv, Custody, BoundIsRegistered
      <4>2. kill[t][v] = "wait"
        BY <3>2, <4>1 DEF InRequest
      <4> QED
        BY <3>1, <3>5, <4>2 DEF Capped, WorkersApart
    <3> QED
      BY <3>3, <3>4, <3>5
  <2>3. Ours \subseteq {}
    BY <1>1, <1>2, <2>1, <2>2, OursAre
  <2>4. Cardinality(Ours) = 0
    BY <2>3, FS_EmptySet
  <2> QED
    BY <1>3, <2>4 DEF Used, Capped, Slots
<1> QED
  BY <1>4, <1>5

\* What a step may do that starts no seed and ends none: only X starts to run.
Moves(X) ==
  /\ UNCHANGED seeding
  /\ \A w \in Workers : pc'[w] = pc[w] /\ hold'[w] = hold[w] /\ kill'[w] = kill[w]
  /\ \A v \in VMs \ X : sess'[v] \in {"up", "down"} => sess[v] \in {"up", "down"}
  /\ \A v \in VMs : key'[v] = key[v] \/ key'[v] \in Keys
  /\ \A v \in idle' : v \in idle \/ \E o \in Owners : v = hold[o]
  /\ \A v \in bound' : v \in bound \/ \E o \in Owners : v = hold[o]
  /\ \A o \in Owners :
       /\ \/ hold'[o] \in idle \cup {hold[o], None}
          \/ ~Referenced(hold'[o]) /\ key'[hold'[o]] \in Keys
       /\ pc'[o] = "seed" => hold'[o] \in bound'

\* Nor does an owner get to where it boots or thaws.
Plain == Moves({}) /\ \A o \in Owners : pc'[o] \in {"boot", "thaw"} => pc'[o] = pc[o]

LEMMA OwnerMoves ==
  ASSUME OneOwner, Base, NEW o \in Owners,
         \/ AcquireBegin(o) \/ AcquireMisses(o) \/ AcquireTakes(o)
         \/ ReclaimIdle(o) \/ ReclaimBound(o) \/ Ping(o) \/ NotBack(o) \/ Rebind(o)
         \/ FreshFails(o) \/ Bind(o) \/ UseBegin(o) \/ UseEnd(o) \/ UseFails(o)
         \/ Close(o) \/ CloseUnhooked(o) \/ Forget(o) \/ Reset(o)
         \/ ResetDiscards(o) \/ ResetFails(o) \/ Park(o)
  PROVE  Plain
<1>1. /\ \A a \in Owners : a = o
      /\ o \in Threads /\ o \notin Workers /\ Workers \subseteq Threads
      /\ pc \in [Threads -> OwnerPC \cup WorkerPC \cup {"closed"}] /\ DOMAIN hold = Threads
      /\ kill \in [Threads -> [VMs -> KillStage]]
  BY Alone DEF Base, IInv, Typed, TypeOK, OneOwner
<1> USE DEF Plain, Moves, Goto, Step, Queue, threadVars, poolVars, claimVars, hookVars,
    guestVars, sessionVars
<1>2. CASE AcquireBegin(o)
  BY <1>1, <1>2 DEF AcquireBegin
<1>3. CASE AcquireMisses(o)
  BY <1>1, <1>3 DEF AcquireMisses
<1>4. CASE AcquireTakes(o)
  BY <1>1, <1>4 DEF AcquireTakes, Taken
<1>5. CASE ReclaimIdle(o)
  BY <1>1, <1>5 DEF ReclaimIdle
<1>6. CASE ReclaimBound(o)
  BY <1>1, <1>6 DEF ReclaimBound
<1>7. CASE Ping(o)
  BY <1>1, <1>7 DEF Ping
<1>8. CASE NotBack(o)
  BY <1>1, <1>8 DEF NotBack
<1>9. CASE Rebind(o)
  <2>1. pc' = [pc EXCEPT ![o] = "held"]
    <3>1. want[o].key \in Keys
      BY <1>9, StarterInStarts DEF StarterIn, Base, IInv
    <3> QED
      BY <1>9, <3>1, NoRefillStarts DEF Rebind
  <2> QED
    BY <1>1, <1>9, <2>1 DEF Rebind
<1>10. CASE FreshFails(o)
  BY <1>1, <1>10 DEF FreshFails
<1>11. CASE Bind(o)
  BY <1>1, <1>11 DEF Bind
<1>12. CASE UseBegin(o)
  BY <1>1, <1>12 DEF UseBegin
<1>13. CASE UseEnd(o)
  BY <1>1, <1>13 DEF UseEnd
<1>14. CASE UseFails(o)
  BY <1>1, <1>14 DEF UseFails
<1>15. CASE Close(o)
  BY <1>1, <1>15 DEF Close
<1>16. CASE CloseUnhooked(o)
  BY <1>1, <1>16 DEF CloseUnhooked
<1>17. CASE Forget(o)
  BY <1>1, <1>17 DEF Forget
<1>18. CASE Reset(o)
  BY <1>1, <1>18 DEF Reset
<1>19. CASE ResetDiscards(o)
  BY <1>1, <1>19 DEF ResetDiscards
<1>20. CASE ResetFails(o)
  BY <1>1, <1>20 DEF ResetFails
<1>21. CASE Park(o)
  BY <1>1, <1>21 DEF Park
<1> QED
  BY <1>2, <1>3, <1>4, <1>5, <1>6, <1>7, <1>8, <1>9, <1>10, <1>11, <1>12, <1>13, <1>14,
     <1>15, <1>16, <1>17, <1>18, <1>19, <1>20, <1>21

LEMMA OwnTeardownMoves ==
  ASSUME OneOwner, Base, NEW o \in Owners, NEW v \in VMs, Teardown(o, v)
  PROVE  Plain
<1>1. /\ \A a \in Owners : a = o
      /\ o \in Threads /\ o \notin Workers /\ Workers \subseteq Threads
      /\ kill \in [Threads -> [VMs -> KillStage]]
      /\ sess \in [VMs -> {"up", "down", "frozen", "gone"}]
  BY Alone DEF Base, IInv, Typed, TypeOK, OneOwner
<1>2. kill[o][v] # "no"
  BY DEF Teardown, TeardownUnbind, TeardownUnhook, TeardownClose, TeardownDone
<1>3. pc[o] # "seed"
  BY <1>2 DEF Base, IInv, Accounted, DoneBeforeWork, Clear
<1> USE DEF Plain, Moves, Step, threadVars, poolVars, claimVars, hookVars, guestVars,
    sessionVars
<1>4. CASE TeardownUnbind(o, v)
  BY <1>1, <1>3, <1>4 DEF TeardownUnbind
<1>5. CASE TeardownUnhook(o, v)
  BY <1>1, <1>3, <1>5 DEF TeardownUnhook
<1>6. CASE TeardownClose(o, v)
  BY <1>1, <1>3, <1>6 DEF TeardownClose
<1>7. CASE TeardownDone(o, v)
  BY <1>1, <1>3, <1>7 DEF TeardownDone
<1> QED
  BY <1>4, <1>5, <1>6, <1>7 DEF Teardown

LEMMA RoomyMoves ==
  ASSUME OneOwner, Base, NEW o \in Owners, Roomy(o)
  PROVE  Moves({})
<1>1. /\ \A a \in Owners : a = o
      /\ o \in Threads /\ o \notin Workers /\ Workers \subseteq Threads /\ DOMAIN pc = Threads
  BY Alone DEF Base, IInv, Typed, TypeOK, OneOwner
<1>2. want[o].key \in Keys
  BY StarterInStarts DEF StarterIn, Base, IInv
<1>3. pc' = [pc EXCEPT ![o] = "boot"] \/ pc' = [pc EXCEPT ![o] = "thaw"]
  BY <1>2, NoRefillStarts DEF Roomy, Goto
<1> QED
  BY <1>1, <1>3
     DEF Roomy, Moves, poolVars, claimVars, hookVars, guestVars, sessionVars

LEMMA BootMoves ==
  ASSUME OneOwner, Base, NEW o \in Owners, Fresh(o)
  PROVE  \E v \in VMs : Moves({v}) /\ pc[o] = "boot" /\ pc'[o] \notin {"boot", "thaw"}
<1>1. /\ \A a \in Owners : a = o
      /\ o \in Threads /\ o \notin Workers /\ Workers \subseteq Threads
      /\ DOMAIN hold = Threads /\ DOMAIN sess = VMs /\ DOMAIN key = VMs
      /\ \A x \in idle : x \in VMs
  BY Alone DEF Base, IInv, Typed, TypeOK, OneOwner
<1>2. PICK v \in VMs : /\ FreshTakes(o, v) /\ UNCHANGED seeding
                       /\ key' = [key EXCEPT ![v] = want[o].key]
  <2>1. PICK v \in VMs : /\ Booted(v, want[o].key, o)
                         /\ hold' = [hold EXCEPT ![o] = v]
    BY DEF Fresh
  <2>2. PICK u \in VMs : FreshTakes(o, u)
    BY FreshDoes DEF Base, IInv
  <2>3. u = v
    BY <1>1, <2>1, <2>2 DEF FreshTakes
  <2> QED
    BY <2>1, <2>2, <2>3 DEF Fresh, Booted, claimVars
<1>3. want[o].key \in Keys
  BY <1>2 DEF FreshTakes, Base, IInv, Typed, HoldsWhere
<1>4. Moves({v})
  BY <1>1, <1>2, <1>3 DEF FreshTakes, Moves
<1> QED
  BY <1>2, <1>4 DEF FreshTakes

LEMMA ThawMoves ==
  ASSUME OneOwner, Base, NEW o \in Owners, Thaw(o)
  PROVE  Moves({hold[o]}) /\ pc[o] = "thaw" /\ pc'[o] \notin {"boot", "thaw"}
<1>1. /\ \A a \in Owners : a = o
      /\ o \in Threads /\ o \notin Workers /\ Workers \subseteq Threads /\ DOMAIN pc = Threads
      /\ DOMAIN sess = VMs
  BY Alone DEF Base, IInv, Typed, TypeOK, OneOwner
<1> QED
  BY <1>1
     DEF Thaw, Goto, Moves, poolVars, claimVars, hookVars, guestVars

LEMMA StillMoves ==
  ASSUME OneOwner, Base, SeedIsBound, UNCHANGED vars \/ \E v \in VMs : GuestDies(v)
  PROVE  Plain
<1>1. DOMAIN sess = VMs
  BY DEF Base, IInv, Typed, TypeOK
<1>2. /\ UNCHANGED <<threadVars, kill, poolVars, claimVars, key>>
      /\ \A v \in VMs : sess'[v] \in {"up", "down"} => sess[v] \in {"up", "down"}
  BY <1>1 DEF GuestDies, vars, hookVars, sessionVars
<1> QED
  BY <1>2 DEF SeedIsBound, Plain, Moves, threadVars, poolVars, claimVars

\* What such a step keeps.
LEMMA MovesKeep ==
  ASSUME OneOwner, Base, Capped, NEW X, Moves(X)
  PROVE  /\ NoRefills' /\ WorkersApart' /\ SeedIsBound' /\ KeysKnown'
         /\ IsFiniteSet(bound') /\ Ours' \subseteq Ours \cup X
<1>1. NoRefills'
  BY DEF Capped, NoRefills, Moves
<1>2. \A w \in Workers : w \in Threads
  BY Alone
<1>3. WorkersApart'
  <2> SUFFICES ASSUME NEW w \in Workers, NEW v \in VMs, kill'[w][v] # "no"
               PROVE  /\ kill'[w][v] = "wait" /\ pc'[w] = "sdone"
                      /\ v \notin idle' \cup bound' /\ \A o \in Owners : hold'[o] # v
                      /\ \A u \in VMs : kill'[w][u] # "no" => u = v
    BY DEF WorkersApart
  <2>1. /\ kill[w][v] # "no" /\ kill'[w] = kill[w] /\ pc'[w] = pc[w]
    BY DEF Moves
  <2>2. /\ kill[w][v] = "wait" /\ pc[w] = "sdone"
        /\ v \notin idle \cup bound /\ \A o \in Owners : hold[o] # v
        /\ \A u \in VMs : kill[w][u] # "no" => u = v
    BY <2>1 DEF Capped, WorkersApart
  <2>3. v \notin idle' \cup bound'
    BY <2>2 DEF Moves
  <2>4. ASSUME NEW o \in Owners PROVE hold'[o] # v
    <3>1. Referenced(v)
      BY <1>2, <2>1 DEF Referenced
    <3>2. v # None
      BY Alone
    <3> QED
      BY <2>2, <3>1, <3>2 DEF Moves
  <2> QED
    BY <2>1, <2>2, <2>3, <2>4
<1>4. SeedIsBound'
  BY DEF SeedIsBound, Moves
<1>5. KeysKnown'
  <2> SUFFICES ASSUME NEW v \in VMs, v \in idle' \/ \E t \in Threads : hold'[t] = v
               PROVE  key'[v] \in Keys
    BY DEF KeysKnown
  <2>1. \A t \in Threads : t \in Owners \/ t \in Workers
    BY Alone
  <2>2. Owners \subseteq Threads /\ None \notin VMs
    BY Alone
  <2>3. CASE v \in idle \/ \E t \in Threads : hold[t] = v
    BY <2>3 DEF Capped, KeysKnown, Moves
  <2>4. CASE v \in idle'
    BY <2>2, <2>3, <2>4 DEF Moves
  <2>5. ASSUME NEW t \in Threads, hold'[t] = v PROVE key'[v] \in Keys
    <3>1. CASE t \in Workers
      BY <2>3, <2>5, <3>1 DEF Moves
    <3>2. CASE t \in Owners
      BY <2>2, <2>3, <2>5, <3>2 DEF Moves
    <3> QED
      BY <2>1, <3>1, <3>2
  <2> QED
    BY <2>4, <2>5
<1>6. IsFiniteSet(bound')
  <2>1. CASE Owners = {}
    <3>1. bound' \subseteq bound
      BY <2>1 DEF Moves
    <3> QED
      BY <3>1, FS_Subset DEF Capped, Slots
  <2>2. ASSUME NEW o \in Owners PROVE IsFiniteSet(bound')
    <3>1. bound' \subseteq bound \cup {hold[o]}
      BY DEF Moves, OneOwner
    <3>2. IsFiniteSet(bound \cup {hold[o]})
      BY FS_AddElement DEF Capped, Slots
    <3> QED
      BY <3>1, <3>2, FS_Subset
  <2> QED
    BY <2>1, <2>2
<1>7. Ours' \subseteq Ours \cup X
  BY DEF Ours, Running, Moves
<1> QED
  BY <1>1, <1>3, <1>4, <1>5, <1>6, <1>7

\* What a worker's step keeps: it gives no VM away that runs.
WorkerKeeps ==
  /\ NoRefills' /\ WorkersApart' /\ SeedIsBound' /\ KeysKnown' /\ UNCHANGED bound
  /\ \A o \in Owners : pc'[o] = pc[o]
  /\ Ours' \subseteq Ours /\ seeding' \subseteq seeding

LEMMA WorkerMoves ==
  ASSUME OneOwner, Base, Capped, NEW w \in Workers,
         WorkerStep(w) \/ \E v \in VMs : Teardown(w, v)
  PROVE  WorkerKeeps
<1>1. /\ pc \in [Threads -> OwnerPC \cup WorkerPC \cup {"closed"}] /\ DOMAIN hold = Threads
      /\ kill \in [Threads -> [VMs -> KillStage]]
      /\ DOMAIN sess = VMs /\ DOMAIN key = VMs /\ idle \subseteq VMs
      /\ hold[w] = None \/ hold[w] \in VMs
      /\ w \in Threads /\ w \notin Owners /\ Workers \subseteq Threads /\ None \notin VMs
  BY Alone DEF Base, IInv, Typed, TypeOK
<1>2. /\ NoRefills /\ WorkersApart /\ SeedIsBound /\ KeysKnown
      /\ pc[w] \in SeedPC \cup {"out"}
  BY DEF Capped, NoRefills
<1>3. /\ pc[w] = "sboot" => hold[w] = None
      /\ pc[w] \in {"sfreeze", "spublish"} => hold[w] \in VMs
  BY DEF Base, IInv, Typed, HoldsWhere, WorkerHolding
<1>4. hold[w] # None => /\ hold[w] \notin idle \cup bound
                        /\ \A t \in Threads : t # w => hold[t] # hold[w]
  BY <1>1 DEF Base, IInv, Custody, SoleCustody, BoundIsRegistered
<1>5. CASE SeedBoot(w)
  <2>1. PICK v \in VMs :
          /\ ~Referenced(v) /\ sess' = [sess EXCEPT ![v] = "up"]
          /\ key' = [key EXCEPT ![v] = job[w]] /\ hold' = [hold EXCEPT ![w] = v]
    BY <1>5 DEF SeedBoot, Booted
  <2>2. /\ pc[w] = "sboot" /\ pc' = [pc EXCEPT ![w] = "sfreeze"] /\ job[w] \in Keys
        /\ UNCHANGED <<kill, idle, bound, seeding>>
    BY <1>5 DEF SeedBoot, Goto, poolVars, claimVars, Base, IInv, Typed, HoldsWhere
  <2>3. v \notin idle /\ \A t \in Threads : hold[t] # v
    BY <2>1 DEF Referenced
  <2>4. NoRefills' /\ WorkersApart' /\ SeedIsBound'
    BY <1>1, <1>2, <2>1, <2>2 DEF NoRefills, WorkersApart, SeedIsBound, SeedPC
  <2>5. KeysKnown'
    BY <1>1, <1>2, <2>1, <2>2, <2>3 DEF KeysKnown
  <2>6. Ours' \subseteq Ours
    BY <1>1, <1>3, <2>1, <2>2 DEF Ours, Running
  <2> QED
    BY <1>1, <2>2, <2>4, <2>5, <2>6 DEF WorkerKeeps
<1>6. CASE SeedFreeze(w)
  <2>1. /\ pc[w] = "sfreeze" /\ pc' = [pc EXCEPT ![w] = "spublish"]
        /\ sess' = [sess EXCEPT ![hold[w]] = "frozen"]
        /\ UNCHANGED <<hold, key, kill, idle, bound, seeding>>
    BY <1>6 DEF SeedFreeze, Goto, poolVars, claimVars, hookVars
  <2>2. NoRefills' /\ WorkersApart' /\ SeedIsBound' /\ KeysKnown'
    BY <1>1, <1>2, <2>1 DEF NoRefills, WorkersApart, SeedIsBound, KeysKnown, SeedPC
  <2>3. Ours' \subseteq Ours
    BY <1>1, <2>1 DEF Ours, Running
  <2> QED
    BY <1>1, <2>1, <2>2, <2>3 DEF WorkerKeeps
<1>7. CASE SeedPublish(w)
  <2>1. /\ pc[w] = "spublish" /\ pc' = [pc EXCEPT ![w] = "sdone"]
        /\ sess' = [sess EXCEPT ![hold[w]] = "gone"] /\ hold' = [hold EXCEPT ![w] = None]
        /\ UNCHANGED <<key, kill, idle, bound, seeding>>
    BY <1>7 DEF SeedPublish, Goto, poolVars, claimVars
  <2>2. NoRefills' /\ WorkersApart' /\ SeedIsBound' /\ KeysKnown'
    BY <1>1, <1>2, <2>1 DEF NoRefills, WorkersApart, SeedIsBound, KeysKnown, SeedPC
  <2>3. Ours' \subseteq Ours
    BY <1>1, <2>1 DEF Ours, Running
  <2> QED
    BY <1>1, <2>1, <2>2, <2>3 DEF WorkerKeeps
<1>8. CASE SeedDone(w)
  <2>1. /\ pc[w] = "sdone" /\ pc' = [pc EXCEPT ![w] = "out"] /\ Clear(w)
        /\ seeding' \subseteq seeding
        /\ UNCHANGED <<hold, sess, key, kill, idle, bound>>
    BY <1>8 DEF SeedDone, Goto, poolVars, sessionVars, hookVars
  <2>2. NoRefills' /\ WorkersApart' /\ SeedIsBound' /\ KeysKnown'
    BY <1>1, <1>2, <2>1 DEF NoRefills, WorkersApart, SeedIsBound, KeysKnown, Clear
  <2>3. Ours' \subseteq Ours
    BY <2>1 DEF Ours, Running
  <2> QED
    BY <1>1, <2>1, <2>2, <2>3 DEF WorkerKeeps
<1>9. CASE BootFails(w)
  <2>1. /\ pc[w] = "sboot" /\ pc' = [pc EXCEPT ![w] = "sdone"]
        /\ UNCHANGED <<hold, sess, key, kill, idle, bound, seeding>>
    BY <1>2, <1>9 DEF BootFails, Goto, SeedPC, poolVars, claimVars, sessionVars,
       hookVars
  <2>2. NoRefills' /\ WorkersApart' /\ SeedIsBound' /\ KeysKnown'
    BY <1>1, <1>2, <2>1 DEF NoRefills, WorkersApart, SeedIsBound, KeysKnown, SeedPC
  <2>3. Ours' \subseteq Ours
    BY <2>1 DEF Ours, Running
  <2> QED
    BY <1>1, <2>1, <2>2, <2>3 DEF WorkerKeeps
<1>10. CASE FreezeFails(w)
  <2>1. /\ pc[w] = "sfreeze" /\ pc' = [pc EXCEPT ![w] = "sdone"]
        /\ Step(w, hold[w], "wait") /\ hold' = [hold EXCEPT ![w] = None]
        /\ UNCHANGED <<sess, key, idle, bound, seeding>>
    BY <1>2, <1>10 DEF FreezeFails, Goto, SeedPC, poolVars, claimVars
  <2>2. \A x \in Workers, v \in VMs :
          kill'[x][v] = IF x = w /\ v = hold[w] THEN "wait" ELSE kill[x][v]
    BY <1>1, <2>1 DEF Step
  <2>3. \A v \in VMs : kill[w][v] = "no"
    BY <1>2, <2>1 DEF WorkersApart
  <2>4. WorkersApart'
    <3> SUFFICES ASSUME NEW x \in Workers, NEW v \in VMs, kill'[x][v] # "no"
                 PROVE  /\ kill'[x][v] = "wait" /\ pc'[x] = "sdone"
                        /\ v \notin idle' \cup bound' /\ \A o \in Owners : hold'[o] # v
                        /\ \A u \in VMs : kill'[x][u] # "no" => u = v
      BY DEF WorkersApart
    <3>1. CASE x = w
      <4>1. v = hold[w] /\ kill'[x][v] = "wait" /\ \A u \in VMs : kill'[x][u] # "no" => u = v
        BY <2>2, <2>3, <3>1
      <4>2. \A o \in Owners : o \in Threads /\ o # w
        BY <1>1, Alone
      <4> QED
        BY <1>1, <1>3, <1>4, <2>1, <3>1, <4>1, <4>2
    <3>2. CASE x # w
      <4>1. kill[x][v] # "no" /\ \A u \in VMs : kill'[x][u] = kill[x][u]
        BY <2>2, <3>2
      <4>2. pc'[x] = pc[x] /\ \A o \in Owners : hold'[o] = hold[o]
        BY <1>1, <2>1, <3>2
      <4> QED
        BY <1>2, <2>1, <4>1, <4>2 DEF WorkersApart
    <3> QED
      BY <3>1, <3>2
  <2>5. NoRefills' /\ SeedIsBound' /\ KeysKnown'
    BY <1>1, <1>2, <2>1 DEF NoRefills, SeedIsBound, KeysKnown, SeedPC
  <2>6. Ours' \subseteq Ours
    <3>1. \A v \in Ours' : v # hold[w]
      BY <1>1, <1>3, <2>1, <2>2 DEF Ours, Running
    <3> QED
      BY <1>1, <2>1, <2>2, <3>1 DEF Ours, Running
  <2> QED
    BY <1>1, <2>1, <2>4, <2>5, <2>6 DEF WorkerKeeps
<1>11. ASSUME NEW v \in VMs, Teardown(w, v) PROVE WorkerKeeps
  <2>1. kill[w][v] # "no"
    BY <1>11
       DEF Teardown, TeardownUnbind, TeardownUnhook, TeardownClose, TeardownDone
  <2>2. kill[w][v] = "wait"
    BY <1>2, <2>1 DEF WorkersApart
  <2>3. TeardownDone(w, v)
    BY <1>11, <2>2 DEF Teardown, TeardownUnbind, TeardownUnhook, TeardownClose
  <2>4. /\ Step(w, v, "no") /\ sess' = [sess EXCEPT ![v] = "gone"]
        /\ UNCHANGED <<pc, hold, key, idle, bound, seeding>>
    BY <2>3 DEF TeardownDone, threadVars, poolVars, claimVars, hookVars
  <2>5. \A x \in Workers, u \in VMs :
          kill'[x][u] = IF x = w /\ u = v THEN "no" ELSE kill[x][u]
    BY <1>1, <2>4 DEF Step
  <2>6. NoRefills' /\ WorkersApart' /\ SeedIsBound' /\ KeysKnown'
    BY <1>2, <2>4, <2>5 DEF NoRefills, WorkersApart, SeedIsBound, KeysKnown
  <2>7. Ours' \subseteq Ours
    BY <1>1, <2>4, <2>5 DEF Ours, Running
  <2> QED
    BY <2>4, <2>6, <2>7 DEF WorkerKeeps
<1> QED
  BY <1>2, <1>5, <1>6, <1>7, <1>8, <1>9, <1>10, <1>11
     DEF WorkerStep, RefillCheck, RefillBoot, RefillFreeze, RefillPark, RefillDone,
         SeedPC

\* Fewer VMs and fewer seeds are no more.
LEMMA FewerUsed ==
  ASSUME Slots, Ours' \subseteq Ours, seeding' \subseteq seeding
  PROVE  /\ IsFiniteSet(seeding') /\ IsFiniteSet(Ours')
         /\ Cardinality(seeding') <= Cardinality(seeding) /\ Used' <= Used
         /\ Cardinality(seeding') \in Nat /\ Cardinality(seeding) \in Nat
         /\ Used' \in Nat /\ Used \in Nat
<1>1. /\ IsFiniteSet(seeding') /\ IsFiniteSet(Ours')
      /\ Cardinality(seeding') <= Cardinality(seeding)
      /\ Cardinality(Ours') <= Cardinality(Ours)
  BY FS_Subset DEF Slots
<1>2. /\ Cardinality(seeding') \in Nat /\ Cardinality(seeding) \in Nat
      /\ Cardinality(Ours') \in Nat /\ Cardinality(Ours) \in Nat
  BY <1>1, FS_CardinalityType DEF Slots
<1>3. Used' = Cardinality(Ours') + Cardinality(seeding')
  BY DEF Used
<1> QED
  BY <1>1, <1>2, <1>3 DEF Used

\* A session that starts to run takes the slot _make_room found for it.
LEMMA SlotTaken ==
  ASSUME OneOwner, Base, Slots, NEW o \in Owners, pc[o] \in {"boot", "thaw"},
         pc'[o] \notin {"boot", "thaw"}, UNCHANGED seeding, IsFiniteSet(bound'),
         NEW x, Ours' \subseteq Ours \cup {x}
  PROVE  Slots'
<1>1. /\ IsFiniteSet(Ours \cup {x})
      /\ Cardinality(Ours \cup {x}) <= Cardinality(Ours) + 1
  <2>1. IsFiniteSet(Ours)
    BY DEF Slots
  <2>2. Cardinality(Ours) \in Nat
    BY <2>1, FS_CardinalityType
  <2>3. /\ IsFiniteSet(Ours \cup {x})
        /\ Cardinality(Ours \cup {x})
             = IF x \in Ours THEN Cardinality(Ours) ELSE Cardinality(Ours) + 1
    BY <2>1, FS_AddElement, Zenon
  <2> QED
    BY <2>2, <2>3
<1>2. IsFiniteSet(Ours') /\ Cardinality(Ours') <= Cardinality(Ours \cup {x})
  BY <1>1, FS_Subset
<1>3. /\ Cardinality(Ours') \in Nat /\ Cardinality(Ours \cup {x}) \in Nat
      /\ Cardinality(Ours) \in Nat /\ Cardinality(seeding) \in Nat
      /\ MaxTotal # None => MaxTotal \in Nat
  BY <1>1, <1>2, FS_CardinalityType, Alone DEF Slots
<1>4. Used' = Cardinality(Ours') + Cardinality(seeding)
  BY DEF Used
<1>5. MaxTotal # None => Used < MaxTotal /\ Cardinality(seeding) < MaxTotal
  BY DEF Slots
<1>6. MaxTotal # None => Used' <= MaxTotal
  BY <1>1, <1>2, <1>3, <1>4, <1>5 DEF Used
<1>7. \A a \in Owners : pc'[a] \notin {"boot", "thaw"}
  BY DEF OneOwner
<1> QED
  BY <1>2, <1>5, <1>6, <1>7 DEF Slots

\* A seed takes its slot when the VM of its cold boot is in _bound.
LEMMA SeedTakes ==
  ASSUME OneOwner, Base, Capped, NEW o \in Owners, Seed(o)
  PROVE  Capped'
<1>1. /\ pc[o] = "seed" /\ hold[o] \in bound
      /\ UNCHANGED <<hold, kill, idle, bound, sess, key>>
  BY DEF Seed, Capped, SeedIsBound, poolVars, sessionVars, hookVars
<1>2. Clear(o)
  BY <1>1 DEF Base, IInv, Accounted, DoneBeforeWork
<1>3. /\ Cardinality(Ours) <= Cardinality(bound) + Cardinality(Hot)
      /\ Cardinality(Ours) \in Nat /\ Cardinality(bound) \in Nat /\ Cardinality(Hot) \in Nat
      /\ Cardinality(seeding) \in Nat
  BY <1>1, <1>2, OursCounted DEF Capped
<1>4. Ours' = Ours
  BY <1>1 DEF Ours, Running
<1>5. /\ DOMAIN pc = Threads /\ o \in Threads /\ o \notin Workers /\ Workers \subseteq Threads
      /\ \A a \in Owners : a = o
      /\ MaxTotal # None => MaxTotal \in Nat
  BY Alone DEF Base, IInv, Typed, TypeOK, OneOwner
<1>6. KeysKnown'
  BY <1>1 DEF Capped, KeysKnown
<1> DEFINE k == want[o].key
           Wanted == k \notin golden /\ k \notin seeding /\ ~AtCapacity
<1>7. CASE Wanted
  <2>1. PICK w \in Workers \ {o} :
          /\ pc[w] = "out"
          /\ pc' = [pc EXCEPT ![o] = "held", ![w] = "sboot"]
          /\ seeding' = seeding \cup {k}
    BY <1>7 DEF Seed, SeedStart
  <2>2. /\ pc'[o] = "held" /\ \A x \in Workers : pc'[x] = IF x = w THEN "sboot" ELSE pc[x]
    BY <1>5, <2>1
  <2>3. NoRefills' /\ WorkersApart' /\ SeedIsBound'
    BY <1>1, <1>5, <2>1, <2>2 DEF Capped, NoRefills, WorkersApart, SeedIsBound, SeedPC
  <2>4. IsFiniteSet(seeding') /\ Cardinality(seeding') = Cardinality(seeding) + 1
    BY <1>7, <2>1, FS_AddElement DEF Capped, Slots
  <2>5. Cardinality(bound) # 0
    BY <1>1, FS_EmptySet DEF Capped, Slots
  <2>6. MaxTotal # None
        => Cardinality(bound) + Cardinality(seeding) + Cardinality(Hot) < MaxTotal
    BY <1>3, <1>5, <1>7 DEF AtCapacity, Live
  <2>7. Used' = Cardinality(Ours) + Cardinality(seeding) + 1
    BY <1>3, <1>4, <2>4 DEF Used
  <2>8. MaxTotal # None => Cardinality(seeding') < MaxTotal /\ Used' <= MaxTotal
    BY <1>3, <1>5, <2>4, <2>5, <2>6, <2>7
  <2>9. Slots'
    <3>1. \A x \in Owners : pc'[x] \notin {"boot", "thaw"}
      BY <1>5, <2>2
    <3>2. IsFiniteSet(bound') /\ IsFiniteSet(Ours')
      BY <1>1, <1>4 DEF Capped, Slots
    <3> QED
      BY <2>4, <2>8, <3>1, <3>2 DEF Slots
  <2> QED
    BY <1>6, <2>3, <2>9 DEF Capped
<1>8. CASE ~Wanted
  <2>1. pc' = [pc EXCEPT ![o] = "held"] /\ UNCHANGED seeding
    BY <1>8 DEF Seed, SeedStart, Goto
  <2>2. NoRefills' /\ WorkersApart' /\ SeedIsBound'
    BY <1>1, <1>5, <2>1 DEF Capped, NoRefills, WorkersApart, SeedIsBound
  <2>3. Used' = Used
    BY <1>4, <2>1 DEF Used
  <2>4. Slots'
    BY <1>1, <1>4, <1>5, <2>1, <2>3 DEF Capped, Slots
  <2> QED
    BY <1>6, <2>2, <2>4 DEF Capped
<1> QED
  BY <1>7, <1>8

LEMMA CappedStep ==
  ASSUME OneOwner, Base, Capped, [Next]_vars
  PROVE  Capped'
<1>1. Slots /\ (MaxTotal # None => MaxTotal \in Nat)
  BY Alone DEF Capped
<1>2. CASE Plain
  <2>1. /\ NoRefills' /\ WorkersApart' /\ SeedIsBound' /\ KeysKnown'
        /\ IsFiniteSet(bound') /\ Ours' \subseteq Ours /\ UNCHANGED seeding
    BY <1>2, MovesKeep DEF Plain, Moves
  <2>2. /\ IsFiniteSet(seeding') /\ IsFiniteSet(Ours')
        /\ Cardinality(seeding') <= Cardinality(seeding) /\ Used' <= Used
        /\ Cardinality(seeding') \in Nat /\ Cardinality(seeding) \in Nat
        /\ Used' \in Nat /\ Used \in Nat
    BY <1>1, <2>1, FewerUsed
  <2>3. Slots'
    BY <1>1, <1>2, <2>1, <2>2 DEF Slots, Plain
  <2> QED
    BY <2>1, <2>3 DEF Capped
<1>3. CASE WorkerKeeps
  <2>1. /\ NoRefills' /\ WorkersApart' /\ SeedIsBound' /\ KeysKnown' /\ UNCHANGED bound
        /\ \A o \in Owners : pc'[o] = pc[o]
        /\ Ours' \subseteq Ours /\ seeding' \subseteq seeding
    BY <1>3 DEF WorkerKeeps
  <2>2. /\ IsFiniteSet(seeding') /\ IsFiniteSet(Ours')
        /\ Cardinality(seeding') <= Cardinality(seeding) /\ Used' <= Used
        /\ Cardinality(seeding') \in Nat /\ Cardinality(seeding) \in Nat
        /\ Used' \in Nat /\ Used \in Nat
    BY <1>1, <2>1, FewerUsed
  <2>3. Slots'
    BY <1>1, <2>1, <2>2 DEF Slots
  <2> QED
    BY <2>1, <2>3 DEF Capped
<1>4. ASSUME NEW o \in Owners, Roomy(o) PROVE Capped'
  <2>1. /\ NoRefills' /\ WorkersApart' /\ SeedIsBound' /\ KeysKnown'
        /\ IsFiniteSet(bound') /\ Ours' \subseteq Ours /\ UNCHANGED seeding
    BY <1>4, RoomyMoves, MovesKeep DEF Moves
  <2>2. /\ IsFiniteSet(seeding') /\ IsFiniteSet(Ours')
        /\ Cardinality(seeding') <= Cardinality(seeding) /\ Used' <= Used
        /\ Cardinality(seeding') \in Nat /\ Cardinality(seeding) \in Nat
        /\ Used' \in Nat /\ Used \in Nat
    BY <1>1, <2>1, FewerUsed
  <2>3. MaxTotal # None => Used' < MaxTotal
    BY <1>1, <1>4, <2>2, RoomIsMade
  <2>4. Slots'
    BY <1>1, <2>1, <2>2, <2>3 DEF Slots
  <2> QED
    BY <2>1, <2>4 DEF Capped
<1>5. ASSUME NEW o \in Owners, Fresh(o) \/ Thaw(o) PROVE Capped'
  <2>1. PICK x : Moves({x})
    BY <1>5, BootMoves, ThawMoves
  <2>2. pc[o] \in {"boot", "thaw"} /\ pc'[o] \notin {"boot", "thaw"}
    BY <1>5, BootMoves, ThawMoves
  <2>3. /\ NoRefills' /\ WorkersApart' /\ SeedIsBound' /\ KeysKnown'
        /\ IsFiniteSet(bound') /\ Ours' \subseteq Ours \cup {x} /\ UNCHANGED seeding
    BY <2>1, MovesKeep DEF Moves
  <2>4. Slots'
    BY <1>1, <2>2, <2>3, SlotTaken
  <2> QED
    BY <2>3, <2>4 DEF Capped
<1>6. ASSUME NEW o \in Owners, NEW k \in Keys, Prewarm(o, k) \/ SeedCall(o, k) PROVE FALSE
  BY <1>6, Alone DEF Prewarm, SeedCall, OneOwner
<1>7. ASSUME NEW o \in Owners, OwnerStep(o) \/ OwnerCall(o) PROVE Capped'
  BY <1>2, <1>4, <1>5, <1>6, <1>7, OwnerMoves, SeedTakes DEF OwnerStep, OwnerCall
<1>8. ASSUME NEW t \in Threads, NEW v \in VMs, Teardown(t, v) PROVE Capped'
  <2>1. t \in Owners \/ t \in Workers
    BY Alone
  <2> QED
    BY <1>2, <1>3, <1>8, <2>1, OwnTeardownMoves, WorkerMoves
<1>9. ASSUME NEW w \in Workers, WorkerStep(w) PROVE Capped'
  BY <1>3, <1>9, WorkerMoves
<1>10. CASE UNCHANGED vars \/ \E v \in VMs : GuestDies(v)
  BY <1>2, <1>10, StillMoves DEF Capped
<1>11. Closers = {}
  BY DEF OneOwner
<1> QED
  BY <1>7, <1>8, <1>9, <1>10, <1>11 DEF Next

\* The workers' VMs are no more than the seeds.
LEMMA RunningCounted ==
  ASSUME OneOwner, Base, Capped
  PROVE  IsFiniteSet(Running) /\ Cardinality(Running) <= Used
<1> DEFINE Has(w, v) == hold[w] = v \/ kill[w][v] # "no"
           Theirs == {v \in Running : \E w \in Workers : Has(w, v)}
           Of(v)  == CHOOSE w \in Workers : Has(w, v)
           f      == [v \in Theirs |-> job[Of(v)]]
<1>1. ASSUME NEW w \in Workers, NEW v \in VMs, Has(w, v)
      PROVE  Seeds(w) /\ job[w] \in seeding
  <2>1. pc[w] # "out"
    BY <1>1, Alone DEF Base, IInv, Typed, HoldsWhere, WorkerHolding, Capped,
       WorkersApart
  <2>2. Seeds(w)
    BY <2>1 DEF Seeds, Capped, NoRefills
  <2>3. job[w] \in Keys
    BY <2>1 DEF Base, IInv, Typed, HoldsWhere
  <2> QED
    BY <2>2, <2>3 DEF Base, Claims
<1>2. ASSUME NEW w \in Workers, NEW u \in VMs, NEW v \in VMs, Has(w, u), Has(w, v)
      PROVE  u = v
  <2>1. ASSUME NEW x \in VMs, kill[w][x] # "no" PROVE hold[w] = None
    BY <2>1 DEF Base, IInv, Typed, HoldsWhere, WorkerHolding, Capped, WorkersApart
  <2>2. CASE hold[w] = None
    BY <1>2, <2>2, Alone DEF Capped, WorkersApart
  <2>3. CASE hold[w] # None
    BY <1>2, <2>1, <2>3
  <2> QED
    BY <2>2, <2>3
<1>3. \A v \in Theirs : v \in VMs /\ Of(v) \in Workers /\ Has(Of(v), v)
  BY DEF Running
<1>4. \A v \in Theirs : f[v] = job[Of(v)] /\ Seeds(Of(v)) /\ job[Of(v)] \in seeding
  BY <1>1, <1>3
<1> HIDE DEF Has, Of, f
<1>5. \A u, v \in Theirs : f[u] = f[v] => u = v
  BY <1>2, <1>3, <1>4 DEF Base, Claims
<1>6. f \in Injection(Theirs, seeding)
  <2>1. f \in [Theirs -> seeding]
    BY <1>4 DEF f
  <2> QED
    BY <1>5, <2>1 DEF Injection, IsInjective
<1>7. IsFiniteSet(Theirs) /\ Cardinality(Theirs) <= Cardinality(seeding)
  <2> HIDE DEF Theirs
  <2> QED
    BY <1>6, FS_Injection DEF Capped, Slots
<1>8. Running = Ours \cup Theirs
  BY DEF Ours, Has
<1> HIDE DEF Theirs
<1>9. /\ IsFiniteSet(Running)
      /\ Cardinality(Running)
           = Cardinality(Ours) + Cardinality(Theirs) - Cardinality(Ours \cap Theirs)
  BY <1>7, <1>8, FS_Union DEF Capped, Slots
<1>10. /\ Cardinality(Ours) \in Nat /\ Cardinality(Theirs) \in Nat
       /\ Cardinality(Ours \cap Theirs) \in Nat /\ Cardinality(seeding) \in Nat
  <2>1. IsFiniteSet(Ours \cap Theirs)
    BY <1>7, FS_Subset
  <2> QED
    BY <1>7, <2>1, FS_CardinalityType DEF Capped, Slots
<1> QED
  BY <1>7, <1>9, <1>10 DEF Used

\* max_total bounds the guests that run, whatever fails and whoever dies: a seed has its
\* slot from before it boots, and an acquire boots only where _make_room found one.
THEOREM CapHolds == OneOwner /\ Spec => []WithinCap
<1> SUFFICES ASSUME OneOwner PROVE Spec => []WithinCap
  OBVIOUS
<1>1. Init => Base /\ Capped
  BY BaseInit, CappedInit
<1>2. Base /\ Capped /\ [Next]_vars => Base' /\ Capped'
  BY BaseStep, CappedStep
<1>3. Base /\ Capped => WithinCap
  <2> SUFFICES ASSUME Base, Capped, MaxTotal # None PROVE Cardinality(Running) <= MaxTotal
    BY DEF WithinCap
  <2>1. Cardinality(Running) <= Used /\ Cardinality(Running) \in Nat
    BY RunningCounted, FS_CardinalityType
  <2>2. Used <= MaxTotal /\ MaxTotal \in Nat
    BY Alone DEF Capped, Slots
  <2>3. Used \in Nat
    BY FewerUsed, FS_CardinalityType DEF Capped, Slots, Used
  <2> QED
    BY <2>1, <2>2, <2>3
<1> QED
  BY <1>1, <1>2, <1>3, PTL DEF Spec

=============================================================================
