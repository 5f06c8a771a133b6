---------------------------- MODULE VmPoolProofs ----------------------------
(***************************************************************************)
(* Proofs about VmPool, for any number of threads, VMs, keys and tags, any *)
(* cap and any rung: the types, and who has a VM in hand.                  *)
(***************************************************************************)
EXTENDS VmPoolInv, FiniteSetTheorems, WellFoundedInduction, TLAPS

\* What a step that may start a background worker does to the threads.
Started(t, label, k) ==
  /\ pc' \in [Threads -> OwnerPC \cup WorkerPC \cup {"closed"}]
  /\ job' \in [Workers -> Keys \cup {None}]
  /\ filling' \subseteq Keys /\ seeding' \subseteq Keys
  /\ pc'[t] = label
  /\ \A u \in (Owners \cup Closers) \ {t} : pc'[u] = pc[u]
  /\ \A w \in Workers : \/ pc'[w] = pc[w] /\ job'[w] = job[w]
                        \/ /\ pc[w] = "out" /\ pc'[w] \in {"check", "sboot"}
                           /\ job'[w] = k

LEMMA RefillStarted ==
  ASSUME TypeOK, NEW t \in Owners, NEW label \in OwnerPC, NEW k \in Keys, NEW level,
         MaybeRefill(t, label, k, level), UNCHANGED seeding
  PROVE  Started(t, label, k)
<1> DEFINE Wanted == Cardinality(Bucket(k)) < level /\ k \notin filling
<1>1. /\ pc \in [Threads -> OwnerPC \cup WorkerPC \cup {"closed"}]
      /\ job \in [Workers -> Keys \cup {None}]
      /\ filling \subseteq Keys /\ seeding \subseteq Keys
  BY DEF TypeOK
<1>2. Owners \cap Workers = {} /\ Closers \cap (Owners \cup Workers) = {}
  BY ThreadsAreApart DEF ThreadsAssumption
<1>3. CASE Wanted
  <2>1. PICK w \in Workers \ {t} :
          /\ pc[w] = "out" /\ Clear(w)
          /\ pc' = [pc EXCEPT ![t] = label, ![w] = "check"]
          /\ job' = [job EXCEPT ![w] = k]
          /\ filling' = filling \cup {k}
    BY <1>3 DEF MaybeRefill
  <2>2. "check" \in WorkerPC
    BY DEF WorkerPC
  <2> QED
    BY <1>1, <1>2, <2>1, <2>2 DEF Threads, Started
<1>4. CASE ~Wanted
  <2>1. pc' = [pc EXCEPT ![t] = label] /\ UNCHANGED <<job, filling>>
    BY <1>4 DEF MaybeRefill, Goto
  <2> QED
    BY <1>1, <1>2, <2>1 DEF Threads, Started
<1> QED
  BY <1>3, <1>4

LEMMA SeedStarted ==
  ASSUME TypeOK, NEW t \in Owners, NEW label \in OwnerPC, NEW k \in Keys,
         SeedStart(t, label, k), UNCHANGED filling
  PROVE  Started(t, label, k)
<1> DEFINE Wanted == k \notin golden /\ k \notin seeding /\ ~AtCapacity
<1>1. /\ pc \in [Threads -> OwnerPC \cup WorkerPC \cup {"closed"}]
      /\ job \in [Workers -> Keys \cup {None}]
      /\ filling \subseteq Keys /\ seeding \subseteq Keys
  BY DEF TypeOK
<1>2. Owners \cap Workers = {} /\ Closers \cap (Owners \cup Workers) = {}
  BY ThreadsAreApart DEF ThreadsAssumption
<1>3. CASE Wanted
  <2>1. PICK w \in Workers \ {t} :
          /\ pc[w] = "out" /\ Clear(w)
          /\ pc' = [pc EXCEPT ![t] = label, ![w] = "sboot"]
          /\ job' = [job EXCEPT ![w] = k]
          /\ seeding' = seeding \cup {k}
    BY <1>3 DEF SeedStart
  <2>2. "sboot" \in WorkerPC
    BY DEF WorkerPC
  <2> QED
    BY <1>1, <1>2, <2>1, <2>2 DEF Threads, Started
<1>4. CASE ~Wanted
  <2>1. pc' = [pc EXCEPT ![t] = label] /\ UNCHANGED <<job, seeding>>
    BY <1>4 DEF SeedStart, Goto
  <2> QED
    BY <1>1, <1>2, <2>1 DEF Threads, Started
<1> QED
  BY <1>3, <1>4

\* The owner's five ways to start one, seen from the outside.
Starter(o, k) == Prewarm(o, k) \/ SeedCall(o, k)
StarterIn(o)  == Roomy(o) \/ Rebind(o) \/ Seed(o)

LEMMA StarterStarts ==
  ASSUME Typed, NEW o \in Owners, NEW k \in Keys, Starter(o, k)
  PROVE  pc[o] = "out" /\ Started(o, "out", k)
<1>1. TypeOK /\ "out" \in OwnerPC
  BY DEF Typed, OwnerPC
<1>2. CASE Prewarm(o, k)
  BY <1>1, <1>2, RefillStarted DEF Prewarm
<1>3. CASE SeedCall(o, k)
  BY <1>1, <1>3, SeedStarted DEF SeedCall
<1> QED
  BY <1>2, <1>3 DEF Starter

LEMMA StarterInStarts ==
  ASSUME Typed, NEW o \in Owners, StarterIn(o)
  PROVE  /\ want[o].key \in Keys
         /\ \/ pc[o] = "room" /\ hold[o] = None /\ Started(o, "boot", want[o].key)
            \/ pc[o] = "room" /\ hold[o] # None /\ Started(o, "thaw", want[o].key)
            \/ pc[o] \in {"rebind", "seed"} /\ Started(o, "held", want[o].key)
<1>1. TypeOK /\ {"boot", "thaw", "held"} \subseteq OwnerPC
  BY DEF Typed, OwnerPC
<1>2. want[o].key \in Keys
  BY DEF Typed, HoldsWhere, StarterIn, Roomy, Rebind, Seed
<1>3. CASE Roomy(o) /\ hold[o] = None
  BY <1>1, <1>2, <1>3, RefillStarted DEF Roomy
<1>4. CASE Roomy(o) /\ hold[o] # None
  <2>1. pc' = [pc EXCEPT ![o] = "thaw"] /\ UNCHANGED <<job, filling, seeding>>
    BY <1>4 DEF Roomy, Goto
  <2>2. /\ pc \in [Threads -> OwnerPC \cup WorkerPC \cup {"closed"}]
        /\ job \in [Workers -> Keys \cup {None}]
        /\ filling \subseteq Keys /\ seeding \subseteq Keys
    BY <1>1 DEF TypeOK
  <2>3. Owners \cap Workers = {} /\ Closers \cap (Owners \cup Workers) = {}
    BY ThreadsAreApart DEF ThreadsAssumption
  <2>4. Started(o, "thaw", want[o].key)
    BY <1>1, <2>1, <2>2, <2>3 DEF Threads, Started
  <2> QED
    BY <1>2, <1>4, <2>4 DEF Roomy
<1>5. CASE Rebind(o)
  BY <1>1, <1>2, <1>5, RefillStarted DEF Rebind
<1>6. CASE Seed(o)
  BY <1>1, <1>2, <1>6, SeedStarted DEF Seed
<1> QED
  BY <1>3, <1>4, <1>5, <1>6 DEF StarterIn

LEMMA TypedInit == Init => Typed
BY ThreadsAreApart DEF ThreadsAssumption, Init, Typed, TypeOK, HoldsWhere, Threads,
     OwnerPC, WorkerPC, OwnerHolding, WorkerHolding, KillStage, Trees

LEMMA TypeStep == Typed /\ [Next]_vars => TypeOK'
<1> SUFFICES ASSUME Typed, [Next]_vars PROVE TypeOK'
  OBVIOUS
<1> USE DEF Threads, Typed, TypeOK, HoldsWhere, OwnerPC, WorkerPC, OwnerHolding,
   WorkerHolding, KillStage, Trees, threadVars, poolVars, claimVars, hookVars,
   guestVars, sessionVars, Goto, Step
<1>1. ASSUME NEW t \in Threads, NEW v \in VMs,
            TeardownUnbind(t, v)
     PROVE  TypeOK'
  BY <1>1 DEF TeardownUnbind
<1>2. ASSUME NEW t \in Threads, NEW v \in VMs,
            TeardownUnhook(t, v)
     PROVE  TypeOK'
  BY <1>2 DEF TeardownUnhook
<1>3. ASSUME NEW t \in Threads, NEW v \in VMs, TeardownClose(t, v) PROVE TypeOK'
  BY <1>3 DEF TeardownClose
<1>4. ASSUME NEW t \in Threads, NEW v \in VMs, TeardownDone(t, v) PROVE TypeOK'
  BY <1>4 DEF TeardownDone
<1>5. ASSUME NEW w \in Workers, RefillCheck(w) PROVE TypeOK'
  BY <1>5 DEF RefillCheck
<1>6. ASSUME NEW w \in Workers, RefillBoot(w) PROVE TypeOK'
  BY <1>6 DEF RefillBoot, Booted, Referenced
<1>7. ASSUME NEW w \in Workers, RefillFreeze(w) PROVE TypeOK'
  BY <1>7 DEF RefillFreeze
<1>8. ASSUME NEW w \in Workers, RefillPark(w) PROVE TypeOK'
  BY <1>8 DEF RefillPark
<1>9. ASSUME NEW w \in Workers, RefillDone(w) PROVE TypeOK'
  BY <1>9 DEF RefillDone
<1>10. ASSUME NEW w \in Workers, SeedBoot(w) PROVE TypeOK'
  BY <1>10 DEF SeedBoot, Booted, Referenced
<1>11. ASSUME NEW w \in Workers, SeedFreeze(w) PROVE TypeOK'
  BY <1>11 DEF SeedFreeze
<1>12. ASSUME NEW w \in Workers, SeedPublish(w) PROVE TypeOK'
  BY <1>12 DEF SeedPublish
<1>13. ASSUME NEW w \in Workers, SeedDone(w) PROVE TypeOK'
  BY <1>13 DEF SeedDone
<1>14. ASSUME NEW w \in Workers, BootFails(w) PROVE TypeOK'
  BY <1>14 DEF BootFails
<1>15. ASSUME NEW w \in Workers, FreezeFails(w) PROVE TypeOK'
  BY <1>15 DEF FreezeFails
<1>16. ASSUME NEW o \in Owners, AcquireBegin(o) PROVE TypeOK'
  BY <1>16 DEF AcquireBegin
<1>17. ASSUME NEW o \in Owners, AcquireMisses(o) PROVE TypeOK'
  BY <1>17 DEF AcquireMisses, Queue, Unordered
<1>18. ASSUME NEW o \in Owners, AcquireTakes(o) PROVE TypeOK'
  BY <1>18 DEF AcquireTakes, Queue, Unordered, Taken, Expired
<1>19. ASSUME NEW o \in Owners, ReclaimIdle(o) PROVE TypeOK'
  <2>1. newer' \subseteq newer /\ idle' \subseteq idle
    BY <1>19 DEF ReclaimIdle, Unordered
  <2>2. kill' \in [Threads -> [VMs -> KillStage]]
    BY <1>19 DEF ReclaimIdle, IdleVictims, Hot
  <2> QED
    BY <1>19, <2>1, <2>2 DEF ReclaimIdle
<1>20. ASSUME NEW o \in Owners, ReclaimBound(o) PROVE TypeOK'
  BY <1>20 DEF ReclaimBound, QuietBound
<1>21. ASSUME NEW o \in Owners, Roomy(o) PROVE TypeOK'
  BY <1>21, StarterInStarts DEF StarterIn, Started, Roomy
<1>22. ASSUME NEW o \in Owners, Ping(o) PROVE TypeOK'
  BY <1>22 DEF Ping
<1>23. ASSUME NEW o \in Owners, Thaw(o) PROVE TypeOK'
  BY <1>23 DEF Thaw
<1>24. ASSUME NEW o \in Owners, NotBack(o) PROVE TypeOK'
  BY <1>24 DEF NotBack
<1>25. ASSUME NEW o \in Owners, Rebind(o) PROVE TypeOK'
  <2>1. Started(o, "held", want[o].key) /\ hold[o] \in VMs
    BY <1>25, StarterInStarts DEF StarterIn, Rebind
  <2>2. /\ bind' \in [VMs -> Owners \cup {None}]
        /\ closed' \in [VMs -> BOOLEAN] /\ lost' \in [VMs -> BOOLEAN]
        /\ bound' \subseteq VMs
    BY <1>25, <2>1 DEF Rebind
  <2> QED
    BY <1>25, <2>1, <2>2 DEF Rebind, Started
<1>26. ASSUME NEW o \in Owners, Fresh(o) PROVE TypeOK'
  BY <1>26 DEF Fresh, Booted, Referenced
<1>27. ASSUME NEW o \in Owners, FreshFails(o) PROVE TypeOK'
  BY <1>27 DEF FreshFails
<1>28. ASSUME NEW o \in Owners, Bind(o) PROVE TypeOK'
  BY <1>28 DEF Bind
<1>29. ASSUME NEW o \in Owners, Seed(o) PROVE TypeOK'
  BY <1>29, StarterInStarts DEF StarterIn, Started, Seed
<1>30. ASSUME NEW o \in Owners, UseBegin(o) PROVE TypeOK'
  BY <1>30 DEF UseBegin
<1>31. ASSUME NEW o \in Owners, UseEnd(o) PROVE TypeOK'
  BY <1>31 DEF UseEnd
<1>32. ASSUME NEW o \in Owners, UseFails(o) PROVE TypeOK'
  BY <1>32 DEF UseFails
<1>33. ASSUME NEW o \in Owners, Close(o) PROVE TypeOK'
  BY <1>33 DEF Close, Stamps
<1>34. ASSUME NEW o \in Owners, CloseUnhooked(o) PROVE TypeOK'
  BY <1>34 DEF CloseUnhooked, Stamps
<1>35. ASSUME NEW o \in Owners, Forget(o) PROVE TypeOK'
  BY <1>35 DEF Forget
<1>36. ASSUME NEW o \in Owners, Reset(o) PROVE TypeOK'
  BY <1>36 DEF Reset
<1>37. ASSUME NEW o \in Owners, ResetDiscards(o) PROVE TypeOK'
  BY <1>37 DEF ResetDiscards
<1>38. ASSUME NEW o \in Owners, ResetFails(o) PROVE TypeOK'
  BY <1>38 DEF ResetFails
<1>39. ASSUME NEW o \in Owners, Park(o) PROVE TypeOK'
  BY <1>39 DEF Park, Queue
<1>40. ASSUME NEW o \in Owners, NEW k \in Keys, Prewarm(o, k) PROVE TypeOK'
  <2>1. Started(o, "out", k)
    BY <1>40, StarterStarts DEF Starter
  <2>2. target' \in [Keys -> Nat]
    BY <1>40, ParametersAreTyped DEF Prewarm, ParametersAssumption
  <2> QED
    BY <1>40, <2>1, <2>2 DEF Prewarm, Started
<1>41. ASSUME NEW o \in Owners, NEW k \in Keys, SeedCall(o, k) PROVE TypeOK'
  BY <1>41, StarterStarts DEF Starter, Started, SeedCall
<1>42. ASSUME NEW c \in Closers, PoolClose(c) PROVE TypeOK'
  BY <1>42 DEF PoolClose
<1>43. ASSUME NEW v \in VMs, GuestDies(v) PROVE TypeOK'
  BY <1>43 DEF GuestDies
<1>44. CASE UNCHANGED vars
  BY <1>44 DEF vars
<1> HIDE DEF Threads, Typed, TypeOK, HoldsWhere, OwnerPC, WorkerPC,
   OwnerHolding, WorkerHolding, KillStage, Trees, threadVars, poolVars,
   claimVars, hookVars, guestVars, sessionVars, Goto, Step
<1> QED
  BY <1>1, <1>2, <1>3, <1>4, <1>5, <1>6, <1>7, <1>8, <1>9, <1>10, <1>11, <1>12,
     <1>13, <1>14, <1>15, <1>16, <1>17, <1>18, <1>19, <1>20, <1>21, <1>22,
     <1>23, <1>24, <1>25, <1>26, <1>27, <1>28, <1>29, <1>30, <1>31, <1>32,
     <1>33, <1>34, <1>35, <1>36, <1>37, <1>38, <1>39, <1>40, <1>41, <1>42,
     <1>43, <1>44 DEF Next, OwnerStep, WorkerStep, OwnerCall, Teardown

LEMMA StartedHolds ==
  ASSUME Typed, NEW o \in Owners, NEW label \in {"out", "boot", "thaw", "held"},
         NEW k \in Keys, Started(o, label, k), UNCHANGED <<hold, want>>,
         label \in {"thaw", "held"} => hold[o] \in VMs,
         hold[o] # None => label \in {"thaw", "held"},
         label # "out" => want[o].key \in Keys
  PROVE  HoldsWhere'
<1>1. /\ \A u \in Owners : u # o => pc'[u] = pc[u]
      /\ pc'[o] = label
      /\ \A c \in Closers : c # o => pc'[c] = pc[c]
  BY DEF Started
<1>2. o \notin Closers
  BY ThreadsAreApart DEF ThreadsAssumption
<1>3. \A w \in Workers : \/ pc'[w] = pc[w] /\ job'[w] = job[w]
                         \/ /\ pc[w] = "out" /\ pc'[w] \in {"check", "sboot"}
                            /\ job'[w] = k
  BY DEF Started
<1> QED
  BY <1>1, <1>2, <1>3 DEF Typed, HoldsWhere, OwnerPC, WorkerPC, OwnerHolding, WorkerHolding

LEMMA HoldsStep == Typed /\ [Next]_vars => HoldsWhere'
<1> SUFFICES ASSUME Typed, [Next]_vars PROVE HoldsWhere'
  OBVIOUS
<1> USE ThreadsAreApart DEF ThreadsAssumption, Threads, Typed, TypeOK,
   HoldsWhere, OwnerPC, WorkerPC, OwnerHolding, WorkerHolding, threadVars,
   poolVars, claimVars, hookVars, guestVars, sessionVars, Goto, Step
<1>1. ASSUME NEW t \in Threads, NEW v \in VMs,
            TeardownUnbind(t, v)
     PROVE  HoldsWhere'
  BY <1>1 DEF TeardownUnbind
<1>2. ASSUME NEW t \in Threads, NEW v \in VMs,
            TeardownUnhook(t, v)
     PROVE  HoldsWhere'
  BY <1>2 DEF TeardownUnhook
<1>3. ASSUME NEW t \in Threads, NEW v \in VMs,
            TeardownClose(t, v)
     PROVE  HoldsWhere'
  BY <1>3 DEF TeardownClose
<1>4. ASSUME NEW t \in Threads, NEW v \in VMs,
            TeardownDone(t, v)
     PROVE  HoldsWhere'
  BY <1>4 DEF TeardownDone
<1>5. ASSUME NEW w \in Workers, RefillCheck(w) PROVE HoldsWhere'
  BY <1>5 DEF RefillCheck
<1>6. ASSUME NEW w \in Workers, RefillBoot(w) PROVE HoldsWhere'
  BY <1>6 DEF RefillBoot, Booted, Referenced
<1>7. ASSUME NEW w \in Workers, RefillFreeze(w) PROVE HoldsWhere'
  BY <1>7 DEF RefillFreeze
<1>8. ASSUME NEW w \in Workers, RefillPark(w) PROVE HoldsWhere'
  BY <1>8 DEF RefillPark
<1>9. ASSUME NEW w \in Workers, RefillDone(w) PROVE HoldsWhere'
  BY <1>9 DEF RefillDone
<1>10. ASSUME NEW w \in Workers, SeedBoot(w) PROVE HoldsWhere'
  BY <1>10 DEF SeedBoot, Booted, Referenced
<1>11. ASSUME NEW w \in Workers, SeedFreeze(w) PROVE HoldsWhere'
  BY <1>11 DEF SeedFreeze
<1>12. ASSUME NEW w \in Workers, SeedPublish(w) PROVE HoldsWhere'
  BY <1>12 DEF SeedPublish
<1>13. ASSUME NEW w \in Workers, SeedDone(w) PROVE HoldsWhere'
  BY <1>13 DEF SeedDone
<1>14. ASSUME NEW w \in Workers, BootFails(w) PROVE HoldsWhere'
  BY <1>14 DEF BootFails
<1>15. ASSUME NEW w \in Workers, FreezeFails(w) PROVE HoldsWhere'
  BY <1>15 DEF FreezeFails
<1>16. ASSUME NEW o \in Owners, AcquireBegin(o) PROVE HoldsWhere'
  BY <1>16 DEF AcquireBegin
<1>17. ASSUME NEW o \in Owners, AcquireMisses(o) PROVE HoldsWhere'
  BY <1>17 DEF AcquireMisses, Queue, Expired, LostBound
<1>18. ASSUME NEW o \in Owners, AcquireTakes(o) PROVE HoldsWhere'
  BY <1>18 DEF AcquireTakes, Queue, Taken, Expired
<1>19. ASSUME NEW o \in Owners, ReclaimIdle(o) PROVE HoldsWhere'
  BY <1>19 DEF ReclaimIdle, IdleVictims, Hot
<1>20. ASSUME NEW o \in Owners, ReclaimBound(o) PROVE HoldsWhere'
  BY <1>20 DEF ReclaimBound, QuietBound
<1>21. ASSUME NEW o \in Owners, Roomy(o) PROVE HoldsWhere'
  <2>1. pc[o] = "room" /\ hold[o] \in VMs \cup {None} /\ UNCHANGED <<hold, want>>
    BY <1>21 DEF Roomy
  <2>2. /\ want[o].key \in Keys /\ UNCHANGED <<hold, want>>
        /\ \/ hold[o] = None /\ Started(o, "boot", want[o].key)
           \/ hold[o] \in VMs /\ Started(o, "thaw", want[o].key)
    BY <1>21, <2>1, StarterInStarts DEF StarterIn
  <2> QED
    BY <2>2, StartedHolds
<1>22. ASSUME NEW o \in Owners, Ping(o) PROVE HoldsWhere'
  BY <1>22 DEF Ping
<1>23. ASSUME NEW o \in Owners, Thaw(o) PROVE HoldsWhere'
  BY <1>23 DEF Thaw
<1>24. ASSUME NEW o \in Owners, NotBack(o) PROVE HoldsWhere'
  BY <1>24 DEF NotBack
<1>25. ASSUME NEW o \in Owners, Rebind(o) PROVE HoldsWhere'
  <2>1. /\ want[o].key \in Keys /\ UNCHANGED <<hold, want>>
        /\ hold[o] \in VMs /\ Started(o, "held", want[o].key)
    BY <1>25, StarterInStarts DEF StarterIn, Rebind
  <2> QED
    BY <2>1, StartedHolds
<1>26. ASSUME NEW o \in Owners, Fresh(o) PROVE HoldsWhere'
  BY <1>26 DEF Fresh, Booted, Referenced
<1>27. ASSUME NEW o \in Owners, FreshFails(o) PROVE HoldsWhere'
  BY <1>27 DEF FreshFails
<1>28. ASSUME NEW o \in Owners, Bind(o) PROVE HoldsWhere'
  BY <1>28 DEF Bind
<1>29. ASSUME NEW o \in Owners, Seed(o) PROVE HoldsWhere'
  <2>1. /\ want[o].key \in Keys /\ UNCHANGED <<hold, want>>
        /\ hold[o] \in VMs /\ Started(o, "held", want[o].key)
    BY <1>29, StarterInStarts DEF StarterIn, Seed
  <2> QED
    BY <2>1, StartedHolds
<1>30. ASSUME NEW o \in Owners, UseBegin(o) PROVE HoldsWhere'
  BY <1>30 DEF UseBegin
<1>31. ASSUME NEW o \in Owners, UseEnd(o) PROVE HoldsWhere'
  BY <1>31 DEF UseEnd
<1>32. ASSUME NEW o \in Owners, UseFails(o) PROVE HoldsWhere'
  BY <1>32 DEF UseFails
<1>33. ASSUME NEW o \in Owners, Close(o) PROVE HoldsWhere'
  BY <1>33 DEF Close, Stamps
<1>34. ASSUME NEW o \in Owners, CloseUnhooked(o) PROVE HoldsWhere'
  BY <1>34 DEF CloseUnhooked, Stamps
<1>35. ASSUME NEW o \in Owners, Forget(o) PROVE HoldsWhere'
  BY <1>35 DEF Forget
<1>36. ASSUME NEW o \in Owners, Reset(o) PROVE HoldsWhere'
  BY <1>36 DEF Reset
<1>37. ASSUME NEW o \in Owners, ResetDiscards(o) PROVE HoldsWhere'
  BY <1>37 DEF ResetDiscards
<1>38. ASSUME NEW o \in Owners, ResetFails(o) PROVE HoldsWhere'
  BY <1>38 DEF ResetFails
<1>39. ASSUME NEW o \in Owners, Park(o) PROVE HoldsWhere'
  BY <1>39 DEF Park, Queue
<1>40. ASSUME NEW o \in Owners, NEW k \in Keys, Prewarm(o, k) PROVE HoldsWhere'
  <2>1. Started(o, "out", k) /\ pc[o] = "out" /\ UNCHANGED <<hold, want>>
    BY <1>40, StarterStarts DEF Starter, Prewarm
  <2> QED
    BY <2>1, StartedHolds
<1>41. ASSUME NEW o \in Owners, NEW k \in Keys, SeedCall(o, k) PROVE HoldsWhere'
  <2>1. Started(o, "out", k) /\ pc[o] = "out" /\ UNCHANGED <<hold, want>>
    BY <1>41, StarterStarts DEF Starter, SeedCall
  <2> QED
    BY <2>1, StartedHolds
<1>42. ASSUME NEW c \in Closers, PoolClose(c) PROVE HoldsWhere'
  BY <1>42 DEF PoolClose
<1>43. ASSUME NEW v \in VMs, GuestDies(v) PROVE HoldsWhere'
  BY <1>43 DEF GuestDies
<1>44. CASE UNCHANGED vars
  BY <1>44 DEF vars
<1> HIDE DEF ThreadsAssumption, Threads, Typed, TypeOK, HoldsWhere, OwnerPC,
   WorkerPC, OwnerHolding, WorkerHolding, threadVars, poolVars, claimVars,
   hookVars, guestVars, sessionVars, Goto, Step
<1> QED
  BY <1>1, <1>2, <1>3, <1>4, <1>5, <1>6, <1>7, <1>8, <1>9, <1>10, <1>11, <1>12,
     <1>13, <1>14, <1>15, <1>16, <1>17, <1>18, <1>19, <1>20, <1>21, <1>22,
     <1>23, <1>24, <1>25, <1>26, <1>27, <1>28, <1>29, <1>30, <1>31, <1>32,
     <1>33, <1>34, <1>35, <1>36, <1>37, <1>38, <1>39, <1>40, <1>41, <1>42,
     <1>43, <1>44 DEF Next, OwnerStep, WorkerStep, OwnerCall, Teardown

LEMMA TypedStep == Typed /\ [Next]_vars => Typed'
BY TypeStep, HoldsStep DEF Typed

\* Every variable keeps its type, and where a thread stands tells what it holds.
THEOREM TypeCorrect == Spec => []TypeOK
<1>1. Init => Typed
  BY TypedInit
<1>2. Typed /\ [Next]_vars => Typed'
  BY TypedStep
<1>3. Typed => TypeOK
  BY DEF Typed
<1> QED
  BY <1>1, <1>2, <1>3, PTL DEF Spec

-----------------------------------------------------------------------------
(* Who has a VM in hand.                                                   *)

LEMMA CustodyInit == Init => Custody
BY DEF Init, Custody, SoleCustody, BoundIsRegistered

LEMMA SoleCustodyStep == Typed /\ Custody /\ [Next]_vars => SoleCustody'
<1> SUFFICES ASSUME Typed, Custody, [Next]_vars PROVE SoleCustody'
  OBVIOUS
<1> USE ThreadsAreApart DEF ThreadsAssumption, Threads, Typed, TypeOK,
   HoldsWhere, Custody, SoleCustody, BoundIsRegistered, Registered, OwnerPC,
   WorkerPC, OwnerHolding, WorkerHolding, threadVars, poolVars, claimVars,
   hookVars, guestVars, sessionVars, Goto, Step
<1>1. ASSUME NEW t \in Threads, NEW v \in VMs,
            TeardownUnhook(t, v) \/ TeardownClose(t, v) \/ TeardownDone(t, v)
     PROVE  SoleCustody'
  BY <1>1 DEF TeardownUnhook, TeardownClose, TeardownDone
<1>2. ASSUME NEW t \in Threads, NEW v \in VMs,
            TeardownUnbind(t, v)
     PROVE  SoleCustody'
  BY <1>2 DEF TeardownUnbind
<1>3. ASSUME NEW w \in Workers,
            RefillCheck(w) \/ RefillFreeze(w) \/ RefillDone(w) \/ SeedFreeze(w)
              \/ SeedDone(w) \/ BootFails(w)
     PROVE  SoleCustody'
  BY <1>3 DEF RefillCheck, RefillFreeze, RefillDone, SeedFreeze, SeedDone,
     BootFails
<1>4. ASSUME NEW w \in Workers, RefillBoot(w) PROVE SoleCustody'
  BY <1>4 DEF RefillBoot, Booted, Referenced
<1>5. ASSUME NEW w \in Workers, RefillPark(w) PROVE SoleCustody'
  BY <1>5 DEF RefillPark
<1>6. ASSUME NEW w \in Workers, SeedBoot(w) PROVE SoleCustody'
  BY <1>6 DEF SeedBoot, Booted, Referenced
<1>7. ASSUME NEW w \in Workers, SeedPublish(w) PROVE SoleCustody'
  BY <1>7 DEF SeedPublish
<1>8. ASSUME NEW w \in Workers, FreezeFails(w) PROVE SoleCustody'
  BY <1>8 DEF FreezeFails
<1>9. ASSUME NEW o \in Owners,
            AcquireBegin(o) \/ Ping(o) \/ Thaw(o) \/ FreshFails(o)
     PROVE  SoleCustody'
  BY <1>9 DEF AcquireBegin, Ping, Thaw, FreshFails
<1>10. ASSUME NEW o \in Owners,
            UseBegin(o) \/ UseEnd(o) \/ UseFails(o) \/ Reset(o)
     PROVE  SoleCustody'
  BY <1>10 DEF UseBegin, UseEnd, UseFails, Reset
<1>11. ASSUME NEW o \in Owners, AcquireMisses(o) PROVE SoleCustody'
  BY <1>11 DEF AcquireMisses, Queue, Expired, LostBound
<1>12. ASSUME NEW o \in Owners, AcquireTakes(o) PROVE SoleCustody'
  BY <1>12 DEF AcquireTakes, Queue, Expired, Taken, LostBound
<1>13. ASSUME NEW o \in Owners, ReclaimIdle(o) PROVE SoleCustody'
  BY <1>13 DEF ReclaimIdle, IdleVictims, Hot
<1>14. ASSUME NEW o \in Owners, ReclaimBound(o) PROVE SoleCustody'
  BY <1>14 DEF ReclaimBound, QuietBound
<1>15. ASSUME NEW o \in Owners, Roomy(o) PROVE SoleCustody'
  BY <1>15, StarterInStarts DEF StarterIn, Started, Roomy
<1>16. ASSUME NEW o \in Owners, NotBack(o) PROVE SoleCustody'
  BY <1>16 DEF NotBack
<1>17. ASSUME NEW o \in Owners, Rebind(o) PROVE SoleCustody'
  BY <1>17, StarterInStarts DEF StarterIn, Started, Rebind
<1>18. ASSUME NEW o \in Owners, Fresh(o) PROVE SoleCustody'
  BY <1>18 DEF Fresh, Booted, Referenced
<1>19. ASSUME NEW o \in Owners, Bind(o) PROVE SoleCustody'
  BY <1>19 DEF Bind
<1>20. ASSUME NEW o \in Owners, Seed(o) PROVE SoleCustody'
  BY <1>20, StarterInStarts DEF StarterIn, Started, Seed
<1>21. ASSUME NEW o \in Owners, Close(o) PROVE SoleCustody'
  BY <1>21 DEF Close, Stamps
<1>22. ASSUME NEW o \in Owners, CloseUnhooked(o) PROVE SoleCustody'
  BY <1>22 DEF CloseUnhooked, Stamps
<1>23. ASSUME NEW o \in Owners, Forget(o) PROVE SoleCustody'
  BY <1>23 DEF Forget
<1>24. ASSUME NEW o \in Owners, ResetDiscards(o) PROVE SoleCustody'
  BY <1>24 DEF ResetDiscards
<1>25. ASSUME NEW o \in Owners, ResetFails(o) PROVE SoleCustody'
  BY <1>25 DEF ResetFails
<1>26. ASSUME NEW o \in Owners, Park(o) PROVE SoleCustody'
  <2>1. /\ idle' \subseteq idle \cup {hold[o]} /\ bound' = bound
        /\ hold' = [hold EXCEPT ![o] = None] /\ pc[o] = "park"
    BY <1>26 DEF Park
  <2>2. hold[o] \in VMs \ bound
    BY <2>1
  <2> QED
    BY <2>1, <2>2
<1>27. ASSUME NEW o \in Owners, NEW k \in Keys,
            Prewarm(o, k) \/ SeedCall(o, k)
     PROVE  SoleCustody'
  BY <1>27, StarterStarts DEF Starter, Started, Prewarm, SeedCall
<1>28. ASSUME NEW c \in Closers, PoolClose(c) PROVE SoleCustody'
  BY <1>28 DEF PoolClose
<1>29. ASSUME NEW v \in VMs, GuestDies(v) PROVE SoleCustody'
  BY <1>29 DEF GuestDies
<1>30. CASE UNCHANGED vars
  BY <1>30 DEF vars
<1> HIDE DEF ThreadsAssumption, Threads, Typed, TypeOK, HoldsWhere, Custody,
   SoleCustody, BoundIsRegistered, Registered, OwnerPC, WorkerPC, OwnerHolding,
   WorkerHolding, threadVars, poolVars, claimVars, hookVars, guestVars,
   sessionVars, Goto, Step
<1> QED
  BY <1>1, <1>2, <1>3, <1>4, <1>5, <1>6, <1>7, <1>8, <1>9, <1>10, <1>11, <1>12,
     <1>13, <1>14, <1>15, <1>16, <1>17, <1>18, <1>19, <1>20, <1>21, <1>22,
     <1>23, <1>24, <1>25, <1>26, <1>27, <1>28, <1>29, <1>30 DEF Next, OwnerStep,
     WorkerStep, OwnerCall, Teardown

LEMMA RegisteredStep == Typed /\ Custody /\ [Next]_vars => BoundIsRegistered'
<1> SUFFICES ASSUME Typed, Custody, [Next]_vars PROVE BoundIsRegistered'
  OBVIOUS
<1> USE ThreadsAreApart DEF ThreadsAssumption, Threads, Typed, TypeOK,
   HoldsWhere, Custody, SoleCustody, BoundIsRegistered, Registered, OwnerPC,
   WorkerPC, OwnerHolding, WorkerHolding, threadVars, poolVars, claimVars,
   hookVars, guestVars, sessionVars, Goto, Step
<1>1. ASSUME NEW t \in Threads, NEW v \in VMs,
            TeardownUnhook(t, v) \/ TeardownClose(t, v) \/ TeardownDone(t, v)
     PROVE  BoundIsRegistered'
  BY <1>1 DEF TeardownUnhook, TeardownClose, TeardownDone
<1>2. ASSUME NEW t \in Threads, NEW v \in VMs,
            TeardownUnbind(t, v)
     PROVE  BoundIsRegistered'
  BY <1>2 DEF TeardownUnbind
<1>3. ASSUME NEW w \in Workers, RefillCheck(w) PROVE BoundIsRegistered'
  BY <1>3 DEF RefillCheck
<1>4. ASSUME NEW w \in Workers, RefillBoot(w) PROVE BoundIsRegistered'
  BY <1>4 DEF RefillBoot, Booted, Referenced
<1>5. ASSUME NEW w \in Workers, RefillFreeze(w) PROVE BoundIsRegistered'
  BY <1>5 DEF RefillFreeze
<1>6. ASSUME NEW w \in Workers, RefillPark(w) PROVE BoundIsRegistered'
  BY <1>6 DEF RefillPark
<1>7. ASSUME NEW w \in Workers, RefillDone(w) PROVE BoundIsRegistered'
  BY <1>7 DEF RefillDone
<1>8. ASSUME NEW w \in Workers, SeedBoot(w) PROVE BoundIsRegistered'
  BY <1>8 DEF SeedBoot, Booted, Referenced
<1>9. ASSUME NEW w \in Workers, SeedFreeze(w) PROVE BoundIsRegistered'
  BY <1>9 DEF SeedFreeze
<1>10. ASSUME NEW w \in Workers, SeedPublish(w) PROVE BoundIsRegistered'
  BY <1>10 DEF SeedPublish
<1>11. ASSUME NEW w \in Workers, SeedDone(w) PROVE BoundIsRegistered'
  BY <1>11 DEF SeedDone
<1>12. ASSUME NEW w \in Workers, BootFails(w) PROVE BoundIsRegistered'
  BY <1>12 DEF BootFails
<1>13. ASSUME NEW w \in Workers, FreezeFails(w) PROVE BoundIsRegistered'
  BY <1>13 DEF FreezeFails
<1>14. ASSUME NEW o \in Owners, AcquireBegin(o) PROVE BoundIsRegistered'
  BY <1>14 DEF AcquireBegin
<1>15. ASSUME NEW o \in Owners, AcquireMisses(o) PROVE BoundIsRegistered'
  BY <1>15 DEF AcquireMisses, Queue, Expired, LostBound
<1>16. ASSUME NEW o \in Owners, AcquireTakes(o) PROVE BoundIsRegistered'
  BY <1>16 DEF AcquireTakes, Queue, Expired, Taken, LostBound
<1>17. ASSUME NEW o \in Owners, ReclaimIdle(o) PROVE BoundIsRegistered'
  BY <1>17 DEF ReclaimIdle, IdleVictims, Hot
<1>18. ASSUME NEW o \in Owners, ReclaimBound(o) PROVE BoundIsRegistered'
  BY <1>18 DEF ReclaimBound, QuietBound
<1>19. ASSUME NEW o \in Owners, Roomy(o) PROVE BoundIsRegistered'
  <2>1. /\ UNCHANGED <<hold, bound>> /\ pc[o] = "room"
    BY <1>19 DEF Roomy
  <2>2. \A u \in Owners : u # o => pc'[u] = pc[u]
    BY <1>19, StarterInStarts DEF StarterIn, Started
  <2> QED
    BY <2>1, <2>2
<1>20. ASSUME NEW o \in Owners, Ping(o) PROVE BoundIsRegistered'
  BY <1>20 DEF Ping
<1>21. ASSUME NEW o \in Owners, Thaw(o) PROVE BoundIsRegistered'
  BY <1>21 DEF Thaw
<1>22. ASSUME NEW o \in Owners, NotBack(o) PROVE BoundIsRegistered'
  BY <1>22 DEF NotBack
<1>23. ASSUME NEW o \in Owners, Rebind(o) PROVE BoundIsRegistered'
  <2>1. /\ UNCHANGED hold /\ bound' = bound \cup {hold[o]} /\ hold[o] \in VMs
        /\ pc[o] = "rebind"
    BY <1>23 DEF Rebind
  <2>2. Started(o, "held", want[o].key)
    BY <1>23, <2>1, StarterInStarts DEF StarterIn
  <2>3. pc'[o] = "held" /\ \A u \in Owners : u # o => pc'[u] = pc[u]
    BY <2>2 DEF Started
  <2>4. \A t \in Threads : hold[t] = hold[o] => t = o
    BY <2>1
  <2> QED
    BY <2>1, <2>3, <2>4
<1>24. ASSUME NEW o \in Owners, Fresh(o) PROVE BoundIsRegistered'
  BY <1>24 DEF Fresh, Booted, Referenced
<1>25. ASSUME NEW o \in Owners, FreshFails(o) PROVE BoundIsRegistered'
  BY <1>25 DEF FreshFails
<1>26. ASSUME NEW o \in Owners, Bind(o) PROVE BoundIsRegistered'
  BY <1>26 DEF Bind
<1>27. ASSUME NEW o \in Owners, Seed(o) PROVE BoundIsRegistered'
  BY <1>27, StarterInStarts DEF StarterIn, Started, Seed
<1>28. ASSUME NEW o \in Owners, UseBegin(o) PROVE BoundIsRegistered'
  BY <1>28 DEF UseBegin
<1>29. ASSUME NEW o \in Owners, UseEnd(o) PROVE BoundIsRegistered'
  BY <1>29 DEF UseEnd
<1>30. ASSUME NEW o \in Owners, UseFails(o) PROVE BoundIsRegistered'
  BY <1>30 DEF UseFails
<1>31. ASSUME NEW o \in Owners, Close(o) PROVE BoundIsRegistered'
  BY <1>31 DEF Close, Stamps
<1>32. ASSUME NEW o \in Owners, CloseUnhooked(o) PROVE BoundIsRegistered'
  BY <1>32 DEF CloseUnhooked, Stamps
<1>33. ASSUME NEW o \in Owners, Forget(o) PROVE BoundIsRegistered'
  BY <1>33 DEF Forget
<1>34. ASSUME NEW o \in Owners, Reset(o) PROVE BoundIsRegistered'
  BY <1>34 DEF Reset
<1>35. ASSUME NEW o \in Owners, ResetDiscards(o) PROVE BoundIsRegistered'
  BY <1>35 DEF ResetDiscards
<1>36. ASSUME NEW o \in Owners, ResetFails(o) PROVE BoundIsRegistered'
  BY <1>36 DEF ResetFails
<1>37. ASSUME NEW o \in Owners, Park(o) PROVE BoundIsRegistered'
  BY <1>37 DEF Park, Queue
<1>38. ASSUME NEW o \in Owners, NEW k \in Keys,
            Prewarm(o, k)
     PROVE  BoundIsRegistered'
  <2>1. /\ UNCHANGED <<hold, bound>> /\ pc[o] = "out"
    BY <1>38 DEF Prewarm
  <2>2. \A u \in Owners : u # o => pc'[u] = pc[u]
    BY <1>38, StarterStarts DEF Starter, Started
  <2> QED
    BY <2>1, <2>2
<1>39. ASSUME NEW o \in Owners, NEW k \in Keys,
            SeedCall(o, k)
     PROVE  BoundIsRegistered'
  <2>1. /\ UNCHANGED <<hold, bound>> /\ pc[o] = "out"
    BY <1>39 DEF SeedCall
  <2>2. \A u \in Owners : u # o => pc'[u] = pc[u]
    BY <1>39, StarterStarts DEF Starter, Started
  <2> QED
    BY <2>1, <2>2
<1>40. ASSUME NEW c \in Closers, PoolClose(c) PROVE BoundIsRegistered'
  BY <1>40 DEF PoolClose
<1>41. ASSUME NEW v \in VMs, GuestDies(v) PROVE BoundIsRegistered'
  BY <1>41 DEF GuestDies
<1>42. CASE UNCHANGED vars
  BY <1>42 DEF vars
<1> HIDE DEF ThreadsAssumption, Threads, Typed, TypeOK, HoldsWhere, Custody,
   SoleCustody, BoundIsRegistered, Registered, OwnerPC, WorkerPC, OwnerHolding,
   WorkerHolding, threadVars, poolVars, claimVars, hookVars, guestVars,
   sessionVars, Goto, Step
<1> QED
  BY <1>1, <1>2, <1>3, <1>4, <1>5, <1>6, <1>7, <1>8, <1>9, <1>10, <1>11, <1>12,
     <1>13, <1>14, <1>15, <1>16, <1>17, <1>18, <1>19, <1>20, <1>21, <1>22,
     <1>23, <1>24, <1>25, <1>26, <1>27, <1>28, <1>29, <1>30, <1>31, <1>32,
     <1>33, <1>34, <1>35, <1>36, <1>37, <1>38, <1>39, <1>40, <1>41, <1>42 DEF
     Next, OwnerStep, WorkerStep, OwnerCall, Teardown

LEMMA CustodyStep == Typed /\ Custody /\ [Next]_vars => Custody'
BY SoleCustodyStep, RegisteredStep DEF Custody

\* One VM serves one session, whatever reclaims, failed resets and closes overlap.
THEOREM CustodyCorrect == Spec => []SoleCustody
<1>1. Init => Typed /\ Custody
  BY TypedInit, CustodyInit
<1>2. Typed /\ Custody /\ [Next]_vars => Typed' /\ Custody'
  BY TypedStep, CustodyStep
<1>3. Typed /\ Custody => SoleCustody
  BY DEF Custody
<1> QED
  BY <1>1, <1>2, <1>3, PTL DEF Spec

-----------------------------------------------------------------------------
(* One worker per claim.                                                   *)

\* The workers' own claims, whatever a thread that is none of them does.
FillPC == WorkerPC \ (SeedPC \cup {"out"})
Seeds(w) == pc[w] \in SeedPC
Fills(w) == pc[w] \in FillPC

\* OneWorkerPerClaim, worker by worker.
Claims ==
  /\ \A w, x \in Workers : job[w] = job[x] /\ Seeds(w) /\ Seeds(x) => w = x
  /\ \A w, x \in Workers : job[w] = job[x] /\ Fills(w) /\ Fills(x) => w = x
  /\ \A k \in Keys : k \in seeding <=> \E w \in Workers : job[w] = k /\ Seeds(w)
  /\ \A k \in Keys : k \in filling <=> \E w \in Workers : job[w] = k /\ Fills(w)

LEMMA ClaimsAre ==
  ASSUME Typed
  PROVE  Claims <=> OneWorkerPerClaim
<1>1. \A w \in Workers : /\ pc[w] # "out" <=> Seeds(w) \/ Fills(w)
                         /\ ~(Seeds(w) /\ Fills(w))
                         /\ Seeds(w) \/ Fills(w) => job[w] \in Keys
  BY DEF Typed, HoldsWhere, Seeds, Fills, FillPC, SeedPC, WorkerPC
<1>2. filling \subseteq Keys /\ seeding \subseteq Keys
  BY DEF Typed, TypeOK
<1>3. ASSUME Claims PROVE OneWorkerPerClaim
  <2>1. ASSUME NEW w \in Workers, NEW x \in Workers, pc[w] # "out", pc[x] # "out",
               job[w] = job[x], (pc[w] \in SeedPC) = (pc[x] \in SeedPC)
        PROVE  w = x
    <3>1. CASE pc[w] \in SeedPC
      BY <1>3, <2>1, <3>1 DEF Claims, Seeds
    <3>2. CASE pc[w] \notin SeedPC
      BY <1>1, <1>3, <2>1, <3>2 DEF Claims, Seeds
    <3> QED
      BY <3>1, <3>2
  <2>2. \A k : k \in seeding <=> \E w \in Workers : job[w] = k /\ Seeds(w)
    BY <1>1, <1>2, <1>3 DEF Claims
  <2>3. \A k : k \in filling <=> \E w \in Workers : job[w] = k /\ Fills(w)
    BY <1>1, <1>2, <1>3 DEF Claims
  <2>4. seeding = {job[w] : w \in {x \in Workers : pc[x] \in SeedPC}}
    BY <2>2 DEF Seeds
  <2>5. filling = {job[w] : w \in {x \in Workers : pc[x] \in FillPC}}
    BY <2>3 DEF Fills
  <2> QED
    BY <2>1, <2>4, <2>5 DEF OneWorkerPerClaim, FillPC
<1>4. ASSUME OneWorkerPerClaim PROVE Claims
  <2>1. \A w, x \in Workers : job[w] = job[x] /\ Seeds(w) /\ Seeds(x) => w = x
    BY <1>1, <1>4 DEF OneWorkerPerClaim, Seeds
  <2>2. \A w, x \in Workers : job[w] = job[x] /\ Fills(w) /\ Fills(x) => w = x
    BY <1>1, <1>4 DEF OneWorkerPerClaim, Seeds
  <2>3. \A k : k \in seeding <=> \E w \in Workers : job[w] = k /\ Seeds(w)
    BY <1>4 DEF OneWorkerPerClaim, Seeds
  <2>4. \A k : k \in filling <=> \E w \in Workers : job[w] = k /\ Fills(w)
    BY <1>4 DEF OneWorkerPerClaim, Fills, FillPC
  <2> QED
    BY <2>1, <2>2, <2>3, <2>4 DEF Claims
<1> QED
  BY <1>3, <1>4

\* A worker on its way through its job keeps the claim.
LEMMA ClaimsKept ==
  ASSUME Claims, UNCHANGED <<job, filling, seeding>>,
         \A w \in Workers : (Seeds(w)' <=> Seeds(w)) /\ (Fills(w)' <=> Fills(w))
  PROVE  Claims'
BY DEF Claims

\* An idle worker takes up a claim that nobody has.
LEMMA RefillClaims ==
  ASSUME Typed, Claims, NEW t \in Owners, NEW label, NEW k \in Keys, NEW level,
         MaybeRefill(t, label, k, level), UNCHANGED seeding
  PROVE  Claims'
<1> DEFINE Wanted == Cardinality(Bucket(k)) < level /\ k \notin filling
<1>1. /\ DOMAIN pc = Threads /\ DOMAIN job = Workers /\ Workers \subseteq Threads
      /\ Owners \cap Workers = {}
  BY ThreadsAreApart DEF ThreadsAssumption, Typed, TypeOK, Threads
<1>2. CASE Wanted
  <2>1. PICK w \in Workers \ {t} :
          /\ pc[w] = "out"
          /\ pc' = [pc EXCEPT ![t] = label, ![w] = "check"]
          /\ job' = [job EXCEPT ![w] = k]
          /\ filling' = filling \cup {k}
    BY <1>2 DEF MaybeRefill
  <2>2. \A x \in Workers : /\ pc'[x] = IF x = w THEN "check" ELSE pc[x]
                           /\ job'[x] = IF x = w THEN k ELSE job[x]
    BY <1>1, <2>1
  <2>3. ~Seeds(w) /\ ~Fills(w) /\ ~Seeds(w)' /\ Fills(w)'
    <3>1. pc[w] = "out" /\ pc'[w] = "check"
      BY <2>1, <2>2
    <3> QED
      BY <3>1 DEF Seeds, Fills, FillPC, SeedPC, WorkerPC
  <2>4. \A x \in Workers : x # w => /\ Seeds(x)' <=> Seeds(x)
                                    /\ Fills(x)' <=> Fills(x)
    BY <2>2 DEF Seeds, Fills
  <2>5. \A x \in Workers : Fills(x) => job[x] # k
    BY <1>2 DEF Claims
  <2>6. \A x, y \in Workers : (job[x] = job[y] /\ Seeds(x) /\ Seeds(y) => x = y)'
    BY <2>2, <2>3, <2>4 DEF Claims
  <2>7. \A x, y \in Workers : (job[x] = job[y] /\ Fills(x) /\ Fills(y) => x = y)'
    BY <2>2, <2>3, <2>4, <2>5 DEF Claims
  <2>8. \A n \in Keys : (n \in seeding <=> \E x \in Workers : job[x] = n /\ Seeds(x))'
    BY <2>2, <2>3, <2>4 DEF Claims
  <2>9. \A n \in Keys : (n \in filling <=> \E x \in Workers : job[x] = n /\ Fills(x))'
    BY <2>1, <2>2, <2>3, <2>4 DEF Claims
  <2> QED
    BY <2>6, <2>7, <2>8, <2>9 DEF Claims
<1>3. CASE ~Wanted
  <2>1. pc' = [pc EXCEPT ![t] = label] /\ UNCHANGED <<job, filling>>
    BY <1>3 DEF MaybeRefill, Goto
  <2> QED
    BY <1>1, <2>1, ClaimsKept DEF Seeds, Fills
<1> QED
  BY <1>2, <1>3

LEMMA SeedClaims ==
  ASSUME Typed, Claims, NEW t \in Owners, NEW label, NEW k \in Keys,
         SeedStart(t, label, k), UNCHANGED filling
  PROVE  Claims'
<1> DEFINE Wanted == k \notin golden /\ k \notin seeding /\ ~AtCapacity
<1>1. /\ DOMAIN pc = Threads /\ DOMAIN job = Workers /\ Workers \subseteq Threads
      /\ Owners \cap Workers = {}
  BY ThreadsAreApart DEF ThreadsAssumption, Typed, TypeOK, Threads
<1>2. CASE Wanted
  <2>1. PICK w \in Workers \ {t} :
          /\ pc[w] = "out"
          /\ pc' = [pc EXCEPT ![t] = label, ![w] = "sboot"]
          /\ job' = [job EXCEPT ![w] = k]
          /\ seeding' = seeding \cup {k}
    BY <1>2 DEF SeedStart
  <2>2. \A x \in Workers : /\ pc'[x] = IF x = w THEN "sboot" ELSE pc[x]
                           /\ job'[x] = IF x = w THEN k ELSE job[x]
    BY <1>1, <2>1
  <2>3. ~Seeds(w) /\ ~Fills(w) /\ Seeds(w)' /\ ~Fills(w)'
    <3>1. pc[w] = "out" /\ pc'[w] = "sboot"
      BY <2>1, <2>2
    <3> QED
      BY <3>1 DEF Seeds, Fills, FillPC, SeedPC, WorkerPC
  <2>4. \A x \in Workers : x # w => /\ Seeds(x)' <=> Seeds(x)
                                    /\ Fills(x)' <=> Fills(x)
    BY <2>2 DEF Seeds, Fills
  <2>5. \A x \in Workers : Seeds(x) => job[x] # k
    BY <1>2 DEF Claims
  <2>6. \A x, y \in Workers : (job[x] = job[y] /\ Seeds(x) /\ Seeds(y) => x = y)'
    BY <2>2, <2>3, <2>4, <2>5 DEF Claims
  <2>7. \A x, y \in Workers : (job[x] = job[y] /\ Fills(x) /\ Fills(y) => x = y)'
    BY <2>2, <2>3, <2>4 DEF Claims
  <2>8. \A n \in Keys : (n \in seeding <=> \E x \in Workers : job[x] = n /\ Seeds(x))'
    BY <2>1, <2>2, <2>3, <2>4 DEF Claims
  <2>9. \A n \in Keys : (n \in filling <=> \E x \in Workers : job[x] = n /\ Fills(x))'
    BY <2>2, <2>3, <2>4 DEF Claims
  <2> QED
    BY <2>6, <2>7, <2>8, <2>9 DEF Claims
<1>3. CASE ~Wanted
  <2>1. pc' = [pc EXCEPT ![t] = label] /\ UNCHANGED <<job, seeding>>
    BY <1>3 DEF SeedStart, Goto
  <2> QED
    BY <1>1, <2>1, ClaimsKept DEF Seeds, Fills
<1> QED
  BY <1>2, <1>3

LEMMA ClaimsStep == Typed /\ Claims /\ [Next]_vars => Claims'
<1> SUFFICES ASSUME Typed, Claims, [Next]_vars PROVE Claims'
  OBVIOUS
<1>1. /\ DOMAIN pc = Threads /\ DOMAIN job = Workers /\ Workers \subseteq Threads
      /\ Owners \cap Workers = {} /\ Closers \cap Workers = {}
  BY ThreadsAreApart DEF ThreadsAssumption, Typed, TypeOK, Threads
<1>2. ASSUME NEW t \in Threads, NEW v \in VMs, Teardown(t, v) PROVE Claims'
  <2>1. UNCHANGED <<pc, job, filling, seeding>>
    BY <1>2 DEF Teardown, TeardownUnbind, TeardownUnhook, TeardownClose, TeardownDone,
         threadVars, claimVars
  <2> QED
    BY <2>1, ClaimsKept DEF Seeds, Fills
<1>3. ASSUME NEW w \in Workers,
             RefillCheck(w) \/ RefillBoot(w) \/ RefillFreeze(w) \/ RefillPark(w)
               \/ SeedBoot(w) \/ SeedFreeze(w) \/ SeedPublish(w) \/ BootFails(w)
               \/ FreezeFails(w)
      PROVE  Claims'
  <2>1. UNCHANGED <<job, filling, seeding>> /\ \A x \in Workers : x # w => pc'[x] = pc[x]
    BY <1>1, <1>3
       DEF RefillCheck, RefillBoot, RefillFreeze, RefillPark, SeedBoot, SeedFreeze,
           SeedPublish, BootFails, FreezeFails, Goto, claimVars
  <2>2. (Seeds(w)' <=> Seeds(w)) /\ (Fills(w)' <=> Fills(w))
    BY <1>1, <1>3
       DEF RefillCheck, RefillBoot, RefillFreeze, RefillPark, SeedBoot, SeedFreeze,
           SeedPublish, BootFails, FreezeFails, Goto, Seeds, Fills, FillPC, SeedPC, WorkerPC
  <2> QED
    BY <2>1, <2>2, ClaimsKept DEF Seeds, Fills
<1>4. ASSUME NEW w \in Workers, RefillDone(w) PROVE Claims'
  <2>1. /\ Fills(w) /\ ~Seeds(w) /\ filling' = filling \ {job[w]}
        /\ UNCHANGED <<job, seeding>>
        /\ \A x \in Workers : pc'[x] = IF x = w THEN "out" ELSE pc[x]
    BY <1>1, <1>4 DEF RefillDone, Goto, Seeds, Fills, FillPC, SeedPC, WorkerPC
  <2>2. ~Fills(w)' /\ ~Seeds(w)'
    BY <2>1 DEF Seeds, Fills, FillPC, SeedPC
  <2>3. \A x \in Workers : x # w => /\ Seeds(x)' <=> Seeds(x)
                                    /\ Fills(x)' <=> Fills(x)
    BY <2>1 DEF Seeds, Fills
  <2> QED
    BY <2>1, <2>2, <2>3 DEF Claims
<1>5. ASSUME NEW w \in Workers, SeedDone(w) PROVE Claims'
  <2>1. /\ Seeds(w) /\ ~Fills(w) /\ seeding' = seeding \ {job[w]}
        /\ UNCHANGED <<job, filling>>
        /\ \A x \in Workers : pc'[x] = IF x = w THEN "out" ELSE pc[x]
    BY <1>1, <1>5 DEF SeedDone, Goto, Seeds, Fills, FillPC, SeedPC, WorkerPC
  <2>2. ~Fills(w)' /\ ~Seeds(w)'
    BY <2>1 DEF Seeds, Fills, FillPC, SeedPC
  <2>3. \A x \in Workers : x # w => /\ Seeds(x)' <=> Seeds(x)
                                    /\ Fills(x)' <=> Fills(x)
    BY <2>1 DEF Seeds, Fills
  <2> QED
    BY <2>1, <2>2, <2>3 DEF Claims
<1>6. ASSUME NEW o \in Owners,
             AcquireBegin(o) \/ AcquireMisses(o) \/ AcquireTakes(o) \/ ReclaimIdle(o)
               \/ ReclaimBound(o) \/ Ping(o) \/ Thaw(o) \/ NotBack(o) \/ Fresh(o)
               \/ FreshFails(o) \/ Bind(o) \/ UseBegin(o) \/ UseEnd(o) \/ UseFails(o)
               \/ Close(o) \/ CloseUnhooked(o) \/ Forget(o) \/ Reset(o)
               \/ ResetDiscards(o) \/ ResetFails(o) \/ Park(o)
      PROVE  Claims'
  <2>1. UNCHANGED <<job, filling, seeding>> /\ \A x \in Workers : pc'[x] = pc[x]
    BY <1>1, <1>6
       DEF AcquireBegin, AcquireMisses, AcquireTakes, ReclaimIdle, ReclaimBound, Ping,
           Thaw, NotBack, Fresh, FreshFails, Bind, UseBegin, UseEnd, UseFails, Close,
           CloseUnhooked, Forget, Reset, ResetDiscards, ResetFails, Park, Goto,
           threadVars, claimVars
  <2> QED
    BY <2>1, ClaimsKept DEF Seeds, Fills
<1>7. ASSUME NEW o \in Owners, Roomy(o) \/ Rebind(o) \/ Seed(o) PROVE Claims'
  <2>1. want[o].key \in Keys
    BY <1>7, StarterInStarts DEF StarterIn
  <2>2. CASE Roomy(o) /\ hold[o] # None
    <3>1. pc' = [pc EXCEPT ![o] = "thaw"] /\ UNCHANGED <<job, filling, seeding>>
      BY <2>2 DEF Roomy, Goto
    <3> QED
      BY <1>1, <3>1, ClaimsKept DEF Seeds, Fills
  <2>3. CASE Roomy(o) /\ hold[o] = None
    BY <2>1, <2>3, RefillClaims DEF Roomy
  <2>4. CASE Rebind(o)
    BY <2>1, <2>4, RefillClaims DEF Rebind
  <2>5. CASE Seed(o)
    BY <2>1, <2>5, SeedClaims DEF Seed
  <2> QED
    BY <1>7, <2>2, <2>3, <2>4, <2>5
<1>8. ASSUME NEW o \in Owners, NEW k \in Keys, Prewarm(o, k) PROVE Claims'
  BY <1>8, RefillClaims DEF Prewarm
<1>9. ASSUME NEW o \in Owners, NEW k \in Keys, SeedCall(o, k) PROVE Claims'
  BY <1>9, SeedClaims DEF SeedCall
<1>10. ASSUME NEW c \in Closers, PoolClose(c) PROVE Claims'
  <2>1. UNCHANGED <<job, filling, seeding>> /\ \A x \in Workers : pc'[x] = pc[x]
    BY <1>1, <1>10 DEF PoolClose, Goto, claimVars
  <2> QED
    BY <2>1, ClaimsKept DEF Seeds, Fills
<1>11. ASSUME NEW v \in VMs, GuestDies(v) PROVE Claims'
  <2>1. UNCHANGED <<pc, job, filling, seeding>>
    BY <1>11 DEF GuestDies, threadVars, claimVars
  <2> QED
    BY <2>1, ClaimsKept DEF Seeds, Fills
<1>12. CASE UNCHANGED vars
  <2>1. UNCHANGED <<pc, job, filling, seeding>>
    BY <1>12 DEF vars, threadVars, claimVars
  <2> QED
    BY <2>1, ClaimsKept DEF Seeds, Fills
<1> QED
  BY <1>2, <1>3, <1>4, <1>5, <1>6, <1>7, <1>8, <1>9, <1>10, <1>11, <1>12
     DEF Next, OwnerStep, WorkerStep, OwnerCall

\* Every claim on a key's background work is one running worker's, and every running
\* worker has one, so that a burst of misses starts one boot, whatever fails.
THEOREM ClaimsCorrect == Spec => []OneWorkerPerClaim
<1>1. Init => Typed /\ Claims
  <2>1. Init => Claims
    BY DEF Init, Claims, Threads, Seeds, Fills, FillPC, SeedPC
  <2> QED
    BY <2>1, TypedInit
<1>2. Typed /\ Claims /\ [Next]_vars => Typed' /\ Claims'
  BY TypedStep, ClaimsStep
<1>3. Typed /\ Claims => OneWorkerPerClaim
  BY ClaimsAre
<1> QED
  BY <1>1, <1>2, <1>3, PTL DEF Spec

-----------------------------------------------------------------------------
(* The warm floor.                                                         *)

\* The order in which the VMs of S were parked.
Ordered(S, R) ==
  /\ IsFiniteSet(S) /\ R \subseteq S \X S
  /\ \A v \in S : <<v, v>> \notin R
  /\ \A u, v, w \in S : <<u, v>> \in R /\ <<v, w>> \in R => <<u, w>> \in R

Levels == \A k \in Keys : target[k] = 0 \/ target[k] \in WarmLevels

\* A release that parks is one the rung parks at all.
ParksHot == \A o \in Owners : pc[o] = "park" /\ Cloning => MaxAffinity > 0

Floors == Ordered(idle, newer) /\ Levels /\ ParksHot

\* What a rung that clones has to allow for: a warm level within the affinity limit,
\* which cuts a bucket whatever its level is, or no parks on release at all.
AffinityHoldsLevels == Cloning /\ MaxAffinity > 0 => \A n \in WarmLevels : n <= MaxAffinity

\* A set of numbers has a least one.
LEMMA NatLeast ==
  ASSUME NEW T, T \subseteq Nat, T # {}
  PROVE  \E m \in T : \A n \in T : m <= n
<1>1. PICK m \in T : \A n \in T : ~(n < m)
  <2>1. \E m \in T : \A n \in T : ~(<<n, m>> \in OpToRel(<, Nat))
    BY WFMin, NatLessThanWellFounded, Zenon
  <2>2. \A m, n \in Nat : n < m => <<n, m>> \in OpToRel(<, Nat)
    BY Zenon DEF OpToRel
  <2> QED
    BY <2>1, <2>2, Zenon
<1> QED
  BY <1>1

\* Of the m newest there are at least m.
Rank(B, R, v) == Cardinality({w \in B : <<w, v>> \in R})

LEMMA Newest ==
  ASSUME NEW B, NEW R, NEW m \in Nat, IsFiniteSet(B), m <= Cardinality(B),
         \A v \in B : <<v, v>> \notin R,
         \A u, v, w \in B : <<u, v>> \in R /\ <<v, w>> \in R => <<u, w>> \in R
  PROVE  Cardinality({v \in B : Rank(B, R, v) < m}) >= m
<1> DEFINE Before(v) == {w \in B : <<w, v>> \in R}
           First     == {v \in B : Rank(B, R, v) < m}
<1>1. /\ \A v : Rank(B, R, v) = Cardinality(Before(v)) /\ Before(v) \subseteq B
      /\ \A v, w : w \in Before(v) <=> w \in B /\ <<w, v>> \in R
  BY DEF Rank
<1>2. /\ First \subseteq B
      /\ \A v \in B : v \in First <=> Rank(B, R, v) < m
  OBVIOUS
<1> SUFFICES Cardinality(First) >= m
  OBVIOUS
<1> HIDE DEF Before, First
<1>3. \A v : IsFiniteSet(Before(v)) /\ Rank(B, R, v) \in Nat
  BY <1>1, FS_Subset, FS_CardinalityType
<1>4. IsFiniteSet(First) /\ Cardinality(First) \in Nat
  BY <1>2, FS_Subset, FS_CardinalityType
<1>5. CASE First = B
  BY <1>5
<1>6. CASE First # B
  <2> DEFINE Ranks == {Rank(B, R, v) : v \in B \ First}
  <2>1. Ranks # {} /\ Ranks \subseteq Nat
    BY <1>2, <1>3, <1>6
  <2>2. PICK r \in Ranks : \A n \in Ranks : r <= n
    BY <2>1, NatLeast
  <2>3. PICK x \in B \ First : r = Rank(B, R, x)
    BY <2>2
  <2>4. \A w \in B \ First : Rank(B, R, x) <= Rank(B, R, w)
    BY <2>2, <2>3
  <2>5. Rank(B, R, x) >= m
    BY <1>2, <1>3, <2>3
  <2>6. Before(x) \subseteq First
    <3>1. SUFFICES ASSUME NEW w \in Before(x), w \notin First PROVE FALSE
      OBVIOUS
    <3>2. w \in B \ First /\ <<w, x>> \in R
      BY <1>1, <3>1
    <3>3. Rank(B, R, x) <= Rank(B, R, w)
      BY <2>4, <3>2
    <3>4. Before(w) \subseteq Before(x) /\ Before(w) # Before(x)
      BY <1>1, <2>3, <3>1, <3>2
    <3>5. /\ Cardinality(Before(w)) <= Cardinality(Before(x))
          /\ Cardinality(Before(w)) # Cardinality(Before(x))
      BY <1>3, <3>4, FS_Subset
    <3> QED
      BY <1>1, <1>3, <3>3, <3>5
  <2>7. Cardinality(Before(x)) <= Cardinality(First)
    BY <1>4, <2>6, FS_Subset
  <2> QED
    BY <1>1, <1>3, <1>4, <2>5, <2>7
<1> QED
  BY <1>5, <1>6

\* The order survives a removal, and a park in front.
LEMMA OrderCut ==
  ASSUME NEW S, NEW R, Ordered(S, R), NEW T, T \subseteq S, NEW Q,
         Q = {p \in R : p[1] \in T /\ p[2] \in T}
  PROVE  Ordered(T, Q)
<1>1. IsFiniteSet(T)
  BY FS_Subset DEF Ordered
<1>2. \A u, v : <<u, v>> \in Q <=> <<u, v>> \in R /\ u \in T /\ v \in T
  OBVIOUS
<1>3. Q \subseteq T \X T
  BY DEF Ordered
<1> QED
  BY <1>1, <1>2, <1>3 DEF Ordered

LEMMA OrderGrows ==
  ASSUME NEW S, NEW R, Ordered(S, R), NEW v, v \notin S
  PROVE  Ordered(S \cup {v}, R \cup ({v} \X S))
<1> DEFINE T == S \cup {v}
           Q == R \cup ({v} \X S)
<1>1. IsFiniteSet(T)
  BY FS_AddElement DEF Ordered
<1>2. Q \subseteq T \X T
  BY DEF Ordered
<1>3. \A a, b : <<a, b>> \in Q <=> <<a, b>> \in R \/ (a = v /\ b \in S)
  OBVIOUS
<1>4. \A a, b : <<a, b>> \in R => a \in S /\ b \in S
  BY DEF Ordered
<1>5. \A a \in T : <<a, a>> \notin Q
  BY <1>3, <1>4 DEF Ordered
<1>6. ASSUME NEW a \in T, NEW b \in T, NEW c \in T, <<a, b>> \in Q, <<b, c>> \in Q
      PROVE  <<a, c>> \in Q
  BY <1>3, <1>4, <1>6 DEF Ordered
<1> QED
  BY <1>1, <1>2, <1>5, <1>6 DEF Ordered


\* A step that leaves the parked VMs alone, and gives nobody one of them.
Untaken == \A o \in Owners : hold'[o] = hold[o] \/ hold'[o] \notin idle
Still == /\ UNCHANGED <<idle, newer>> /\ Untaken
         /\ \A v \in idle : key'[v] = key[v]

\* The steps that park VMs or take them out.
ParkSteps == \/ \E w \in Workers : RefillPark(w)
          \/ \E o \in Owners : Park(o)
UnparkSteps == \/ \E o \in Owners : AcquireMisses(o) \/ AcquireTakes(o) \/ ReclaimIdle(o)
           \/ \E c \in Closers : PoolClose(c)

LEMMA StillOrMoves ==
  ASSUME Typed, [Next]_vars
  PROVE  Still \/ ParkSteps \/ UnparkSteps
<1>1. /\ DOMAIN hold = Threads /\ DOMAIN key = VMs /\ Owners \cup Workers \subseteq Threads
      /\ Owners \cap Workers = {} /\ idle \subseteq VMs /\ None \notin VMs
  BY ThreadsAreApart DEF ThreadsAssumption, Typed, TypeOK, Threads
<1>2. ASSUME NEW t \in Threads, NEW v \in VMs, Teardown(t, v) PROVE Still
  BY <1>2 DEF Still, Untaken, Teardown, TeardownUnbind, TeardownUnhook, TeardownClose,
     TeardownDone, threadVars, poolVars, hookVars, sessionVars
<1>3. ASSUME NEW w \in Workers, RefillBoot(w) \/ SeedBoot(w) PROVE Still
  <2>1. PICK v \in VMs : /\ Booted(v, job[w], None)
                         /\ hold' = [hold EXCEPT ![w] = v]
    BY <1>3 DEF RefillBoot, SeedBoot
  <2>2. v \notin idle /\ key' = [key EXCEPT ![v] = job[w]]
    BY <2>1 DEF Booted, Referenced
  <2>3. UNCHANGED <<idle, newer>>
    BY <1>3 DEF RefillBoot, SeedBoot, poolVars
  <2> QED
    BY <1>1, <2>1, <2>2, <2>3 DEF Still, Untaken
<1>4. ASSUME NEW w \in Workers,
             RefillCheck(w) \/ RefillFreeze(w) \/ RefillDone(w)
               \/ SeedFreeze(w) \/ SeedPublish(w) \/ SeedDone(w) \/ BootFails(w)
               \/ FreezeFails(w)
      PROVE  Still
  <2>1. UNCHANGED <<idle, newer, key>>
    BY <1>4 DEF RefillCheck, RefillFreeze, RefillDone, SeedFreeze, SeedPublish, SeedDone,
       BootFails, FreezeFails, poolVars, hookVars, sessionVars
  <2>2. hold' = hold \/ hold' = [hold EXCEPT ![w] = None]
    BY <1>4 DEF RefillCheck, RefillFreeze, RefillDone, SeedFreeze, SeedPublish, SeedDone,
       BootFails, FreezeFails
  <2> QED
    BY <1>1, <2>1, <2>2 DEF Still, Untaken
<1>5. ASSUME NEW o \in Owners, Fresh(o) PROVE Still
  <2>1. PICK v \in VMs : /\ Booted(v, want[o].key, o)
                         /\ hold' = [hold EXCEPT ![o] = v]
    BY <1>5 DEF Fresh
  <2>2. v \notin idle /\ key' = [key EXCEPT ![v] = want[o].key]
    BY <2>1 DEF Booted, Referenced
  <2>3. UNCHANGED <<idle, newer>>
    BY <1>5 DEF Fresh, poolVars
  <2> QED
    BY <1>1, <2>1, <2>2, <2>3 DEF Still, Untaken
<1>6. ASSUME NEW o \in Owners,
             \/ AcquireBegin(o) \/ ReclaimBound(o) \/ Roomy(o) \/ Ping(o) \/ Thaw(o)
             \/ NotBack(o) \/ Rebind(o) \/ FreshFails(o) \/ Bind(o) \/ Seed(o)
             \/ UseBegin(o) \/ UseEnd(o) \/ UseFails(o)
             \/ Close(o) \/ CloseUnhooked(o) \/ Forget(o) \/ Reset(o)
             \/ ResetDiscards(o) \/ ResetFails(o)
             \/ \E k \in Keys : Prewarm(o, k) \/ SeedCall(o, k)
      PROVE  Still
  <2>1. UNCHANGED <<idle, newer, key>>
    BY <1>6 DEF AcquireBegin, ReclaimBound, Roomy, Ping, Thaw, NotBack, Rebind, FreshFails,
       Bind, Seed, UseBegin, UseEnd, UseFails, Close, CloseUnhooked, Forget, Reset,
       ResetDiscards, ResetFails, Prewarm, SeedCall, poolVars, hookVars, sessionVars
  <2>2. hold' = hold \/ hold' = [hold EXCEPT ![o] = None]
    BY <1>6 DEF AcquireBegin, ReclaimBound, Roomy, Ping, Thaw, NotBack, Rebind, FreshFails,
       Bind, Seed, UseBegin, UseEnd, UseFails, Close, CloseUnhooked, Forget, Reset,
       ResetDiscards, ResetFails, Prewarm, SeedCall, threadVars
  <2> QED
    BY <1>1, <2>1, <2>2 DEF Still, Untaken
<1>7. ASSUME NEW v \in VMs, GuestDies(v) PROVE Still
  BY <1>7 DEF GuestDies, threadVars, poolVars, hookVars, Still, Untaken
<1>8. CASE UNCHANGED vars
  BY <1>8 DEF vars, threadVars, poolVars, hookVars, sessionVars, Still, Untaken
<1> QED
  BY <1>2, <1>3, <1>4, <1>5, <1>6, <1>7, <1>8
     DEF Next, OwnerStep, WorkerStep, OwnerCall, ParkSteps, UnparkSteps

LEMMA LevelsStep ==
  ASSUME Typed, Levels, [Next]_vars
  PROVE  Levels'
<1>1. ASSUME NEW o \in Owners, NEW k \in Keys, Prewarm(o, k) PROVE Levels'
  BY <1>1 DEF Prewarm, Levels, Typed, TypeOK
<1>2. CASE UNCHANGED target
  BY <1>2 DEF Levels
<1>3. ASSUME NEW t \in Threads, NEW v \in VMs, Teardown(t, v) PROVE UNCHANGED target
  BY <1>3 DEF Teardown, TeardownUnbind, TeardownUnhook, TeardownClose, TeardownDone,
     claimVars
<1>4. ASSUME NEW w \in Workers, WorkerStep(w) PROVE UNCHANGED target
  BY <1>4 DEF WorkerStep, RefillCheck, RefillBoot, RefillFreeze, RefillPark, RefillDone,
     SeedBoot, SeedFreeze, SeedPublish, SeedDone, BootFails, FreezeFails, claimVars
<1>5. ASSUME NEW o \in Owners, OwnerStep(o) PROVE UNCHANGED target
  BY <1>5 DEF OwnerStep, AcquireMisses, AcquireTakes, ReclaimIdle, ReclaimBound, Roomy,
     Ping, Thaw, NotBack, Rebind, Fresh, FreshFails, Bind, Seed, UseEnd, UseFails,
     Reset, ResetDiscards, ResetFails, Park, claimVars
<1>6. ASSUME NEW o \in Owners,
             \/ AcquireBegin(o) \/ UseBegin(o) \/ Close(o) \/ CloseUnhooked(o) \/ Forget(o)
             \/ \E k \in Keys : SeedCall(o, k)
      PROVE  UNCHANGED target
  BY <1>6 DEF AcquireBegin, UseBegin, Close, CloseUnhooked, Forget, SeedCall, claimVars
<1>7. ASSUME NEW c \in Closers, PoolClose(c) PROVE UNCHANGED target
  BY <1>7 DEF PoolClose, claimVars
<1>8. ASSUME NEW v \in VMs, GuestDies(v) PROVE UNCHANGED target
  BY <1>8 DEF GuestDies, claimVars
<1>9. CASE UNCHANGED vars
  BY <1>2, <1>9 DEF vars, claimVars
<1> QED
  BY <1>1, <1>2, <1>3, <1>4, <1>5, <1>6, <1>7, <1>8, <1>9 DEF Next, OwnerCall

LEMMA ParksHotStep ==
  ASSUME Typed, ParksHot, [Next]_vars
  PROVE  ParksHot'
<1> SUFFICES ASSUME NEW p \in Owners, Cloning
             PROVE  pc'[p] = "park" => pc[p] = "park" \/ MaxAffinity > 0
  BY DEF ParksHot
<1>1. /\ DOMAIN pc = Threads /\ Owners \cup Workers \cup Closers \subseteq Threads
      /\ Owners \cap Workers = {} /\ Closers \cap Owners = {}
  BY ThreadsAreApart DEF ThreadsAssumption, Typed, TypeOK, Threads
<1>2. ASSUME NEW o \in Owners, Reset(o) PROVE MaxAffinity > 0
  BY <1>2 DEF Reset, Parks
<1>3. ASSUME NEW t \in Threads, NEW label, Goto(t, label), t = p => label # "park"
      PROVE  pc'[p] = "park" => pc[p] = "park"
  BY <1>1, <1>3 DEF Goto
<1>4. ASSUME NEW o \in Owners,
             \/ AcquireBegin(o) \/ AcquireMisses(o) \/ AcquireTakes(o) \/ Ping(o) \/ Thaw(o)
             \/ NotBack(o) \/ Fresh(o) \/ FreshFails(o) \/ Bind(o)
             \/ UseBegin(o) \/ UseEnd(o) \/ UseFails(o)
             \/ Close(o) \/ CloseUnhooked(o) \/ Forget(o)
             \/ ResetDiscards(o) \/ ResetFails(o) \/ Park(o)
      PROVE  \E label \in OwnerPC \ {"park"} : Goto(o, label)
  <2>1. CASE \/ AcquireBegin(o) \/ AcquireMisses(o) \/ Ping(o) \/ Thaw(o) \/ NotBack(o)
             \/ FreshFails(o) \/ UseBegin(o) \/ UseEnd(o) \/ UseFails(o)
    BY <2>1 DEF AcquireBegin, AcquireMisses, Ping, Thaw, NotBack, FreshFails, UseBegin,
       UseEnd, UseFails, OwnerPC
  <2>2. CASE \/ Close(o) \/ CloseUnhooked(o) \/ Forget(o)
             \/ ResetDiscards(o) \/ ResetFails(o) \/ Park(o)
    BY <2>2 DEF Close, CloseUnhooked, Forget, ResetDiscards, ResetFails, Park, OwnerPC
  <2>3. CASE AcquireTakes(o)
    <3>1. Goto(o, "room") \/ Goto(o, "ping")
      BY <2>3 DEF AcquireTakes
    <3> QED
      BY <3>1 DEF OwnerPC
  <2>4. CASE Fresh(o)
    <3>1. Goto(o, "bind") \/ Goto(o, "bindcold")
      BY <2>4 DEF Fresh
    <3> QED
      BY <3>1 DEF OwnerPC
  <2>5. CASE Bind(o)
    <3>1. Goto(o, "seed") \/ Goto(o, "held")
      BY <2>5 DEF Bind
    <3> QED
      BY <3>1 DEF OwnerPC
  <2> QED
    BY <1>4, <2>1, <2>2, <2>3, <2>4, <2>5
<1>5. ASSUME NEW o \in Owners, ReclaimIdle(o) \/ ReclaimBound(o)
      PROVE  UNCHANGED pc
  BY <1>5 DEF ReclaimIdle, ReclaimBound, threadVars
<1>6. ASSUME NEW o \in Owners, NEW k \in Keys, Prewarm(o, k) \/ SeedCall(o, k)
      PROVE  pc'[p] = "park" => pc[p] = "park"
  <2>1. Started(o, "out", k)
    BY <1>6, StarterStarts DEF Starter
  <2> QED
    BY <2>1 DEF Started
<1>7. ASSUME NEW o \in Owners, Roomy(o) \/ Rebind(o) \/ Seed(o)
      PROVE  pc'[p] = "park" => pc[p] = "park"
  <2>1. \E label \in {"boot", "thaw", "held"} : Started(o, label, want[o].key)
    BY <1>7, StarterInStarts DEF StarterIn
  <2> QED
    BY <2>1 DEF Started
<1>8. ASSUME NEW w \in Workers, WorkerStep(w)
      PROVE  \E label : Goto(w, label)
  BY <1>8 DEF WorkerStep, RefillCheck, RefillBoot, RefillFreeze, RefillPark, RefillDone,
     SeedBoot, SeedFreeze, SeedPublish, SeedDone, BootFails, FreezeFails
<1>9. ASSUME NEW c \in Closers, PoolClose(c) PROVE Goto(c, "closed")
  BY <1>9 DEF PoolClose
<1>10. ASSUME \/ \E t \in Threads, v \in VMs : Teardown(t, v)
              \/ \E v \in VMs : GuestDies(v)
              \/ UNCHANGED vars
       PROVE  UNCHANGED pc
  BY <1>10 DEF Teardown, TeardownUnbind, TeardownUnhook, TeardownClose, TeardownDone,
     GuestDies, vars, threadVars
<1>11. ASSUME NEW o \in Owners, OwnerStep(o) \/ OwnerCall(o)
       PROVE  pc'[p] = "park" => pc[p] = "park" \/ MaxAffinity > 0
  BY <1>1, <1>2, <1>3, <1>4, <1>5, <1>6, <1>7, <1>11 DEF OwnerStep, OwnerCall
<1> QED
  BY <1>1, <1>3, <1>8, <1>9, <1>10, <1>11 DEF Next

LEMMA OrderStep ==
  ASSUME Typed, Custody, Ordered(idle, newer), [Next]_vars
  PROVE  Ordered(idle, newer)'
<1>1. /\ idle \subseteq VMs /\ None \notin VMs /\ newer \subseteq idle \X idle
      /\ Owners \cup Workers \subseteq Threads
  BY ThreadsAreApart DEF ThreadsAssumption, Typed, TypeOK, Threads, Ordered
<1>2. \A t \in Threads : hold[t] \notin idle
  BY <1>1 DEF Custody, SoleCustody
<1>3. CASE Still
  BY <1>3 DEF Still, Ordered
<1>4. ASSUME NEW T, idle' = idle \ T, newer' = Unordered(T) PROVE Ordered(idle', newer')
  <2>1. newer' = {p \in newer : p[1] \in idle' /\ p[2] \in idle'}
    BY <1>1, <1>4 DEF Unordered
  <2> QED
    BY <1>4, <2>1, OrderCut
<1>5. ASSUME NEW o \in Owners, AcquireMisses(o) \/ AcquireTakes(o) \/ ReclaimIdle(o)
      PROVE  Ordered(idle', newer')
  <2>1. CASE AcquireMisses(o)
    <3>1. PICK old \in Cutoffs : /\ idle' = idle \ Expired(old)
                                 /\ newer' = Unordered(Expired(old))
      BY <2>1 DEF AcquireMisses
    <3> QED
      BY <1>4, <3>1
  <2>2. CASE AcquireTakes(o)
    <3>1. PICK old \in Cutoffs : \E v \in Taken(o, idle \ Expired(old)) :
            /\ idle' = (idle \ Expired(old)) \ {v}
            /\ newer' = Unordered(Expired(old) \cup {v})
      BY <2>2 DEF AcquireTakes
    <3>2. PICK v : /\ idle' = (idle \ Expired(old)) \ {v}
                   /\ newer' = Unordered(Expired(old) \cup {v})
      BY <3>1
    <3>3. idle' = idle \ (Expired(old) \cup {v})
      BY <3>2
    <3> QED
      BY <1>4, <3>2, <3>3
  <2>3. CASE ReclaimIdle(o)
    <3>1. PICK v : idle' = idle \ {v} /\ newer' = Unordered({v})
      BY <2>3 DEF ReclaimIdle
    <3> QED
      BY <1>4, <3>1
  <2> QED
    BY <1>5, <2>1, <2>2, <2>3
<1>6. ASSUME NEW c \in Closers, PoolClose(c) PROVE Ordered(idle', newer')
  BY <1>6, FS_EmptySet DEF PoolClose, Ordered
<1>7. ASSUME NEW w \in Workers, RefillPark(w) PROVE Ordered(idle', newer')
  BY <1>1, <1>2, <1>7, OrderGrows DEF RefillPark
<1>8. ASSUME NEW o \in Owners, Park(o) PROVE Ordered(idle', newer')
  <2> DEFINE Cut(old) ==
        LET kept == idle \ Expired(old)
        IN  Expired(old)
              \cup ({w \in kept : /\ key[w] = key[hold[o]]
                                  /\ Position(kept, w) + 1 >= Limit(key[hold[o]])}
                    \cup (IF Limit(key[hold[o]]) = 0 THEN {hold[o]} ELSE {}))
  <2>0. PICK old \in Cutoffs :
          /\ idle' = (idle \cup {hold[o]}) \ Cut(old)
          /\ newer' = {p \in newer \cup ({hold[o]} \X idle) :
                         p[1] \notin Cut(old) /\ p[2] \notin Cut(old)}
    BY <1>8 DEF Park
  <2> HIDE DEF Cut
  <2>1. PICK cut : /\ idle' = (idle \cup {hold[o]}) \ cut
                   /\ newer' = {p \in newer \cup ({hold[o]} \X idle) :
                                  p[1] \notin cut /\ p[2] \notin cut}
    BY <2>0
  <2> DEFINE S == idle \cup {hold[o]}
             R == newer \cup ({hold[o]} \X idle)
  <2>2. Ordered(S, R)
    BY <1>1, <1>2, OrderGrows
  <2>3. R \subseteq S \X S
    BY <1>1
  <2>4. newer' = {p \in R : p[1] \in idle' /\ p[2] \in idle'} /\ idle' \subseteq S
    BY <2>1, <2>3
  <2> HIDE DEF S, R
  <2>5. Ordered(idle', {p \in R : p[1] \in idle' /\ p[2] \in idle'})
    BY <2>2, <2>4, OrderCut, Zenon
  <2> QED
    BY <2>4, <2>5
<1> QED
  BY <1>3, <1>5, <1>6, <1>7, <1>8, StillOrMoves DEF ParkSteps, UnparkSteps


Least(m, n) == IF m < n THEN m ELSE n
Low(k) == Least(Cardinality(Bucket(k)), target[k])
Takes(k) == {o \in Owners : hold[o] # hold'[o] /\ hold'[o] \in Bucket(k)}
KeepsLevel(k) == Cardinality(Bucket(k)') + Cardinality(Takes(k)) >= Low(k)

\* The m newest of a bucket of S, or of a part of it that is left, are m or all.
LEMMA NewestInBucket ==
  ASSUME NEW S, S \subseteq idle, Ordered(idle, newer), NEW k, NEW m \in Nat
  PROVE  LET B == {v \in S : key[v] = k}
             N == {v \in B : Position(S, v) < m}
         IN  /\ IsFiniteSet(B) /\ IsFiniteSet(N)
             /\ Cardinality(N) \in Nat /\ Cardinality(B) \in Nat
             /\ Cardinality(N) >= Least(Cardinality(B), m)
<1> DEFINE B == {v \in S : key[v] = k}
           N == {v \in B : Position(S, v) < m}
           n == Least(Cardinality(B), m)
<1>1. IsFiniteSet(S)
  BY FS_Subset DEF Ordered
<1>2. IsFiniteSet(B) /\ B \subseteq S
  BY <1>1, FS_Subset
<1>3. IsFiniteSet(N) /\ N \subseteq B
  BY <1>2, FS_Subset
<1>4. Cardinality(B) \in Nat /\ Cardinality(N) \in Nat
  BY <1>2, <1>3, FS_CardinalityType
<1>5. n \in Nat /\ n <= Cardinality(B) /\ n <= m
  BY <1>4 DEF Least
<1>6. /\ \A v \in B : <<v, v>> \notin newer
      /\ \A u, v, w \in B : <<u, v>> \in newer /\ <<v, w>> \in newer => <<u, w>> \in newer
  BY DEF Ordered
<1>7. ASSUME NEW v \in B PROVE Rank(B, newer, v) = Position(S, v)
  <2>1. {w \in B : <<w, v>> \in newer} = {w \in S : key[w] = key[v] /\ <<w, v>> \in newer}
    BY <1>7
  <2> QED
    BY <2>1 DEF Rank, Position
<1>8. ASSUME NEW v \in B PROVE Position(S, v) \in Nat
  <2>1. {w \in S : key[w] = key[v] /\ <<w, v>> \in newer} \in SUBSET S
    OBVIOUS
  <2> QED
    BY <1>1, <2>1, FS_Subset, FS_CardinalityType DEF Position
<1> DEFINE F == {v \in B : Rank(B, newer, v) < n}
<1>9. Cardinality(F) >= n
  <2> HIDE DEF B, n
  <2> QED
    BY <1>2, <1>5, <1>6, Newest
<1>10. F \subseteq N
  BY <1>5, <1>7, <1>8
<1>11. Cardinality(F) <= Cardinality(N) /\ Cardinality(F) \in Nat
  BY <1>3, <1>10, FS_Subset, FS_CardinalityType
<1> HIDE DEF F, N, B, n
<1>12. Cardinality(N) >= n
  BY <1>4, <1>5, <1>9, <1>11
<1> QED
  BY <1>2, <1>3, <1>4, <1>12 DEF n, N, B

\* Expiry leaves a bucket its warm level, or all it had.
LEMMA ExpiryKeeps ==
  ASSUME Typed, Ordered(idle, newer), NEW old \in Cutoffs, NEW k \in Keys
  PROVE  LET B == {v \in idle \ Expired(old) : key[v] = k}
         IN  IsFiniteSet(B) /\ Cardinality(B) \in Nat /\ Cardinality(B) >= Low(k)
<1> DEFINE B == {v \in idle \ Expired(old) : key[v] = k}
           N == {v \in {v \in idle : key[v] = k} : Position(idle, v) < target[k]}
<1>1. target[k] \in Nat
  BY DEF Typed, TypeOK
<1>2. /\ IsFiniteSet(N) /\ Cardinality(N) \in Nat /\ Cardinality(Bucket(k)) \in Nat
      /\ IsFiniteSet(Bucket(k))
      /\ Cardinality(N) >= Low(k)
  BY <1>1, NewestInBucket DEF Low, Bucket
<1>3. B \subseteq Bucket(k) /\ N \subseteq B
  <2>1. ASSUME NEW v \in N PROVE v \notin Expired(old)
    <3>1. {w \in idle : key[w] = key[v] /\ <<w, v>> \in newer} \in SUBSET idle
      OBVIOUS
    <3>2. Position(idle, v) \in Nat
      BY <3>1, FS_Subset, FS_CardinalityType DEF Position, Ordered
    <3> QED
      BY <1>1, <2>1, <3>2 DEF Expired
  <2> QED
    BY <2>1 DEF Bucket
<1>4. IsFiniteSet(B)
  BY <1>2, <1>3, FS_Subset
<1>5. Cardinality(N) <= Cardinality(B) /\ Cardinality(B) \in Nat
  BY <1>3, <1>4, FS_Subset, FS_CardinalityType
<1>6. Low(k) \in Nat
  BY <1>1, <1>2 DEF Low, Least
<1> HIDE DEF B, N
<1>7. Cardinality(B) >= Low(k)
  BY <1>2, <1>5, <1>6
<1> QED
  BY <1>4, <1>5, <1>7 DEF B

LEMMA FloorStep ==
  ASSUME Typed, Custody, Floors, AffinityHoldsLevels, [Next]_vars, NEW k \in Keys
  PROVE  KeepsLevel(k) \/ \E c \in Closers : pc[c] # pc'[c]
<1>1. /\ idle \subseteq VMs /\ None \notin VMs /\ DOMAIN hold = Threads /\ DOMAIN pc = Threads
      /\ Owners \cup Workers \cup Closers \subseteq Threads /\ Owners \cap Workers = {}
      /\ target[k] \in Nat
  BY ThreadsAreApart DEF ThreadsAssumption, Typed, TypeOK, Threads
<1>2. \A t \in Threads : hold[t] \notin idle
  BY <1>1 DEF Custody, SoleCustody
<1>3. Ordered(idle, newer) /\ Ordered(idle, newer)' /\ Levels
  BY OrderStep DEF Floors
<1>4. /\ IsFiniteSet(Bucket(k)) /\ Cardinality(Bucket(k)) \in Nat /\ Low(k) \in Nat
      /\ IsFiniteSet(Bucket(k)') /\ Cardinality(Bucket(k)') \in Nat
      /\ Low(k) <= Cardinality(Bucket(k)) /\ Low(k) <= target[k]
  <2>1. IsFiniteSet(Bucket(k)) /\ IsFiniteSet(Bucket(k)')
    BY <1>3, FS_Subset DEF Ordered, Bucket
  <2>2. Cardinality(Bucket(k)) \in Nat /\ Cardinality(Bucket(k)') \in Nat
    BY <2>1, FS_CardinalityType
  <2> QED
    BY <1>1, <2>1, <2>2 DEF Low, Least
<1>5. Untaken => Cardinality(Takes(k)) = 0
  <2>1. ASSUME Untaken PROVE Takes(k) = {}
    BY <2>1 DEF Untaken, Takes, Bucket
  <2> QED
    BY <2>1, FS_EmptySet
<1>6. ASSUME NEW B, B \subseteq Bucket(k)', Cardinality(B) >= Low(k), Cardinality(B) \in Nat,
             Untaken
      PROVE  KeepsLevel(k)
  BY <1>4, <1>5, <1>6, FS_Subset DEF KeepsLevel
<1>7. CASE Still
  <2>1. Bucket(k) \subseteq Bucket(k)' /\ Untaken
    BY <1>7 DEF Still, Bucket
  <2> QED
    BY <1>4, <1>6, <2>1
<1>8. ASSUME NEW o \in Owners, AcquireMisses(o) PROVE KeepsLevel(k)
  <2>1. PICK old \in Cutoffs : idle' = idle \ Expired(old)
    BY <1>8 DEF AcquireMisses
  <2>2. UNCHANGED <<hold, key>>
    BY <1>8 DEF AcquireMisses, sessionVars, hookVars
  <2>3. Bucket(k)' = {v \in idle \ Expired(old) : key[v] = k} /\ Untaken
    BY <2>1, <2>2 DEF Bucket, Untaken
  <2> QED
    BY <1>3, <1>6, <2>3, ExpiryKeeps
<1>9. ASSUME NEW o \in Owners, AcquireTakes(o) PROVE KeepsLevel(k)
  <2>1. PICK old \in Cutoffs : \E v \in Taken(o, idle \ Expired(old)) :
          /\ idle' = (idle \ Expired(old)) \ {v}
          /\ hold' = [hold EXCEPT ![o] = v]
    BY <1>9 DEF AcquireTakes
  <2>2. PICK v \in idle \ Expired(old) : /\ idle' = (idle \ Expired(old)) \ {v}
                                        /\ hold' = [hold EXCEPT ![o] = v]
    BY <2>1 DEF Taken
  <2>3. UNCHANGED key
    BY <1>9 DEF AcquireTakes, sessionVars, hookVars
  <2> DEFINE B == {u \in idle \ Expired(old) : key[u] = k}
  <2>4. Bucket(k)' = B \ {v}
    BY <2>2, <2>3 DEF Bucket
  <2>5. /\ IsFiniteSet(B) /\ Cardinality(B) \in Nat /\ Cardinality(B) >= Low(k)
    BY <1>3, ExpiryKeeps
  <2>6. Takes(k) = IF key[v] = k THEN {o} ELSE {}
    BY <1>1, <1>2, <2>2 DEF Takes, Bucket
  <2>7. CASE key[v] = k
    <3>1. v \in B
      BY <2>7
    <3>2. Cardinality(Bucket(k)') = Cardinality(B) - 1
      <4> HIDE DEF B
      <4> QED
        BY <2>4, <2>5, <3>1, FS_RemoveElement
    <3>3. Cardinality(Takes(k)) = 1
      BY <2>6, <2>7, FS_Singleton
    <3> HIDE DEF B
    <3> QED
      BY <1>4, <2>5, <3>2, <3>3 DEF KeepsLevel
  <2>8. CASE key[v] # k
    <3>1. Bucket(k)' = B
      BY <2>4, <2>8
    <3>2. Cardinality(Takes(k)) = 0
      BY <2>6, <2>8, FS_EmptySet
    <3> HIDE DEF B
    <3> QED
      BY <1>4, <2>5, <3>1, <3>2 DEF KeepsLevel
  <2> QED
    BY <2>7, <2>8
<1>10. ASSUME NEW o \in Owners, ReclaimIdle(o) PROVE KeepsLevel(k)
  <2>1. PICK v \in IdleVictims : idle' = idle \ {v}
    BY <1>10 DEF ReclaimIdle
  <2>2. UNCHANGED <<hold, key>> /\ Untaken
    BY <1>10 DEF ReclaimIdle, sessionVars, hookVars, threadVars, Untaken
  <2>3. v \in idle /\ Position(idle, v) >= target[key[v]]
    BY <2>1 DEF IdleVictims, Hot
  <2>4. Bucket(k)' = Bucket(k) \ {v}
    BY <2>1, <2>2 DEF Bucket
  <2>5. CASE key[v] # k
    BY <1>4, <1>6, <2>2, <2>4, <2>5 DEF Bucket
  <2>6. CASE key[v] = k
    <3> DEFINE N == {w \in idle : key[w] = key[v] /\ <<w, v>> \in newer}
    <3>1. N \subseteq Bucket(k)'
      BY <1>3, <2>3, <2>4, <2>6 DEF Bucket, Ordered
    <3>2. Cardinality(N) <= Cardinality(Bucket(k)') /\ Cardinality(N) >= target[k]
      BY <1>4, <2>3, <2>6, <3>1, FS_Subset DEF Position
    <3>3. Cardinality(N) \in Nat
      BY <1>4, <3>1, FS_Subset, FS_CardinalityType
    <3> HIDE DEF N
    <3> QED
      BY <1>1, <1>4, <1>6, <2>2, <3>1, <3>2, <3>3
  <2> QED
    BY <2>5, <2>6
<1>11. ASSUME NEW c \in Closers, PoolClose(c) PROVE \E x \in Closers : pc[x] # pc'[x]
  BY <1>1, <1>11 DEF PoolClose, Goto
<1>12. ASSUME NEW w \in Workers, RefillPark(w) PROVE KeepsLevel(k)
  <2>1. idle \subseteq idle' /\ UNCHANGED key
    BY <1>12 DEF RefillPark
  <2>2. Untaken
    BY <1>1, <1>12 DEF RefillPark, Untaken
  <2>3. Bucket(k) \subseteq Bucket(k)'
    BY <2>1 DEF Bucket
  <2> QED
    BY <1>4, <1>6, <2>2, <2>3
<1>13. ASSUME NEW o \in Owners, Park(o) PROVE KeepsLevel(k)
  <2> DEFINE v == hold[o]
             L == Limit(key[v])
             Stay(old) == idle \ Expired(old)
             Over(old)  == {w \in Stay(old) : key[w] = key[v]
                                               /\ Position(Stay(old), w) + 1 >= L}
  <2>1. PICK old \in Cutoffs :
          idle' = (idle \cup {v}) \ (Expired(old) \cup (Over(old) \cup IF L = 0 THEN {v} ELSE {}))
    BY <1>13 DEF Park
  <2>2. UNCHANGED key /\ Untaken
    <3>1. hold' = [hold EXCEPT ![o] = None] /\ UNCHANGED key
      BY <1>13 DEF Park, sessionVars, hookVars
    <3> QED
      BY <1>1, <3>1 DEF Untaken
  <2>3. v \notin idle /\ Expired(old) \subseteq idle
    BY <1>1, <1>2 DEF Expired, Cutoffs
  <2> DEFINE S == Stay(old)
             K == {w \in S : key[w] = k}
  <2>4. IsFiniteSet(K) /\ Cardinality(K) \in Nat /\ Cardinality(K) >= Low(k)
    BY <1>3, ExpiryKeeps
  <2>5. CASE key[v] # k
    <3>1. K \subseteq Bucket(k)'
      BY <2>1, <2>2, <2>3, <2>5 DEF Bucket
    <3> HIDE DEF K
    <3> QED
      BY <1>6, <2>2, <2>4, <3>1
  <2>6. CASE key[v] = k
    <3>0. Cloning => MaxAffinity > 0
      BY <1>13 DEF Park, Floors, ParksHot
    <3>1. L \in Nat /\ target[k] <= L
      BY <1>1, <1>3, <2>6, <3>0, ParametersAreTyped
         DEF ParametersAssumption, AffinityHoldsLevels, Levels, Limit
    <3>2. CASE L = 0
      BY <1>1, <1>4, <1>6, <2>2, <3>1, <3>2, FS_EmptySet
    <3>3. CASE L # 0
      <4> DEFINE N == {w \in K : Position(S, w) < L - 1}
      <4>1. L - 1 \in Nat
        BY <3>1, <3>3
      <4>2. /\ IsFiniteSet(N) /\ Cardinality(N) \in Nat
            /\ Cardinality(N) >= Least(Cardinality(K), L - 1)
        <5>1. S \subseteq idle
          OBVIOUS
        <5> HIDE DEF S, L
        <5> QED
          BY <1>3, <4>1, <5>1, NewestInBucket
      <4>3. ASSUME NEW w \in N PROVE w \in Bucket(k)' /\ w # v
        <5>1. {x \in S : key[x] = key[w] /\ <<x, w>> \in newer} \in SUBSET idle
          OBVIOUS
        <5>2. Position(S, w) \in Nat
          BY <1>3, <5>1, FS_Subset, FS_CardinalityType DEF Position, Ordered
        <5>3. w \in idle /\ w \notin Expired(old) /\ key[w] = k /\ w \notin Over(old)
          BY <3>1, <4>3, <5>2
        <5> QED
          BY <2>1, <2>2, <2>3, <3>3, <5>3 DEF Bucket
      <4>4. v \in Bucket(k)'
        BY <2>1, <2>2, <2>3, <2>6, <3>3 DEF Bucket
      <4>5. Cardinality(N \cup {v}) = Cardinality(N) + 1
        <5> HIDE DEF N, v
        <5> QED
          BY <4>2, <4>3, FS_AddElement
      <4>6. N \cup {v} \subseteq Bucket(k)'
        BY <4>3, <4>4
      <4>7. Cardinality(N \cup {v}) >= Low(k) /\ Cardinality(N \cup {v}) \in Nat
        <5> HIDE DEF N, v, K, L
        <5> QED
          BY <1>1, <1>4, <2>4, <3>1, <3>3, <4>2, <4>5 DEF Least
      <4> HIDE DEF N, v
      <4> QED
        BY <1>6, <2>2, <4>6, <4>7
    <3> QED
      BY <3>2, <3>3
  <2> QED
    BY <2>5, <2>6
<1> QED
  BY <1>7, <1>8, <1>9, <1>10, <1>11, <1>12, <1>13, StillOrMoves DEF ParkSteps, UnparkSteps


\* Expiry, reclaim and overflow keep each warm level, as far as it had been filled:
\* only an acquire takes a bucket below it, by its own VM, and the close of the pool.
THEOREM FloorHolds == AffinityHoldsLevels /\ Spec => FloorKept
<1> SUFFICES ASSUME AffinityHoldsLevels PROVE Spec => FloorKept
  OBVIOUS
<1> DEFINE Inv == Typed /\ Custody /\ Floors
<1>1. Init => Inv
  BY TypedInit, CustodyInit, FS_EmptySet DEF Init, Floors, Ordered, Levels, ParksHot,
     Threads
<1>2. Inv /\ [Next]_vars => Inv'
  BY TypedStep, CustodyStep, LevelsStep, OrderStep, ParksHotStep DEF Floors
<1>3. Inv /\ [Next]_vars
      => [\A k \in Keys :
            LET n == Cardinality(Bucket(k))
                low == IF n < target[k] THEN n ELSE target[k]
                takes == {o \in Owners : hold[o] # hold'[o] /\ hold'[o] \in Bucket(k)}
            IN \/ Cardinality(Bucket(k)') + Cardinality(takes) >= low
               \/ \E c \in Closers : pc[c] # pc'[c]]_vars
  BY FloorStep DEF KeepsLevel, Low, Takes, Least
<1> QED
  BY <1>1, <1>2, <1>3, PTL DEF Spec, FloorKept

=============================================================================
