-------------------------- MODULE VmPoolWireProofs --------------------------
(***************************************************************************)
(* Proofs about VmPool: who may tear a VM down, and from that, that a wire *)
(* has one speaker and that a lost session is not handed out.              *)
(***************************************************************************)
EXTENDS VmPoolProofs

\* What the types and the custody of VMs say of a thread's hands.
LEMMA Holders ==
  ASSUME Typed, Custody
  PROVE  /\ Owners \subseteq Threads /\ Workers \subseteq Threads
         /\ Owners \cap Workers = {} /\ None \notin VMs
         /\ idle \subseteq VMs /\ bound \subseteq VMs
         /\ hold \in [Threads -> VMs \cup {None}] /\ DOMAIN pc = Threads
         /\ \A t, u \in Threads : hold[t] # None /\ hold[t] = hold[u] => t = u
         /\ \A t \in Threads : hold[t] \notin idle
         /\ \A t \in Threads : hold[t] \in bound => t \in Owners /\ pc[t] \in Registered
<1>1. None \notin VMs /\ Owners \cap Workers = {}
  BY ThreadsAreApart DEF ThreadsAssumption
<1> QED
  BY <1>1 DEF Threads, Typed, TypeOK, Custody, SoleCustody, BoundIsRegistered

LEMMA Stores ==
  ASSUME Typed
  PROVE  /\ kill \in [Threads -> [VMs -> KillStage]]
         /\ lost \in [VMs -> BOOLEAN] /\ pooled \in [VMs -> BOOLEAN]
         /\ sess \in [VMs -> {"up", "down", "frozen", "gone"}]
BY DEF Typed, TypeOK

LEMMA StepKill ==
  ASSUME TypeOK, NEW t \in Threads, NEW v \in VMs, Step(t, v, "queued")
  PROVE  \E S \in SUBSET VMs :
           /\ \A w \in VMs : w \in S <=> w = v
           /\ \A u \in Threads, w \in VMs :
                kill'[u][w] = IF u = t /\ w \in S THEN "queued" ELSE kill[u][w]
<1>1. \A u \in Threads, w \in VMs :
        kill'[u][w] = IF u = t /\ w \in {v} THEN "queued" ELSE kill[u][w]
  BY DEF TypeOK, Step
<1>2. {v} \in SUBSET VMs /\ \A w \in VMs : w \in {v} <=> w = v
  OBVIOUS
<1> QED
  BY <1>1, <1>2

LEMMA QueueKill ==
  ASSUME TypeOK, NEW t \in Threads, NEW S, kill' = Queue(t, S)
  PROVE  \A u \in Threads, w \in VMs :
           kill'[u][w] = IF u = t /\ w \in S THEN "queued" ELSE kill[u][w]
BY DEF TypeOK, Queue

\* A thread may queue what is parked or in its own hands, and forgets it at once.
LEMMA QueueAlone ==
  ASSUME Typed, AloneWhenDoomed, NEW t \in Threads, NEW S, UNCHANGED <<sess, lost>>,
         \A u \in Threads, w \in VMs :
           kill'[u][w] = IF u = t /\ w \in S THEN "queued" ELSE kill[u][w],
         \A v \in VMs : v \in S /\ Usable(v) =>
           /\ v \in idle \/ hold[t] = v
           /\ v \notin idle' \cup bound' /\ \A u \in Threads : hold'[u] # v,
         \A v \in VMs : v \in idle' => v \in idle \/ hold[t] = v,
         bound' \subseteq bound,
         \A u \in Threads : hold'[u] \in {hold[u], None} \cup idle
  PROVE  AloneWhenDoomed'
<1> SUFFICES ASSUME NEW x \in Threads, NEW v \in VMs, Usable(v),
                    kill'[x][v] \in {"queued", "unhook", "close", "wait"}
             PROVE  /\ v \notin idle' \cup bound'
                    /\ \A u \in Threads :
                         /\ hold'[u] # v
                         /\ u # x => kill'[u][v] \in {"no", "reclaimed", "abort"}
  BY DEF AloneWhenDoomed, Usable
<1>1. kill \in [Threads -> [VMs -> KillStage]] /\ v # None
  BY ThreadsAreApart DEF Typed, TypeOK, ThreadsAssumption
<1>2. CASE x = t /\ v \in S
  <2>1. \A u \in Threads : kill[u][v] \notin {"queued", "unhook", "close", "wait"}
    BY <1>2 DEF AloneWhenDoomed
  <2>2. \A u \in Threads : kill[u][v] \in {"no", "reclaimed", "abort"}
    BY <1>1, <2>1 DEF KillStage
  <2> QED
    BY <1>2, <2>2
<1>3. CASE ~(x = t /\ v \in S)
  <2>1. kill[x][v] \in {"queued", "unhook", "close", "wait"}
    BY <1>3
  <2>2. /\ v \notin idle \cup bound
        /\ \A u \in Threads :
             hold[u] # v /\ (u # x => kill[u][v] \in {"no", "reclaimed", "abort"})
    BY <2>1 DEF AloneWhenDoomed
  <2>3. v \notin S
    BY <2>2
  <2> QED
    BY <1>1, <2>2, <2>3
<1> QED
  BY <1>2, <1>3

LEMMA QueueUndisturbed ==
  ASSUME WorkersUndisturbed, SoleCustody, BoundIsRegistered, NEW t \in Owners, NEW S,
         \A u \in Threads, w \in VMs :
           kill'[u][w] = IF u = t /\ w \in S THEN "queued" ELSE kill[u][w],
         \A v \in VMs : v \in S => v \in idle \cup bound \/ hold[t] = v,
         \A w \in Workers : hold'[w] = hold[w]
  PROVE  WorkersUndisturbed'
<1>1. Owners \cap Workers = {} /\ None \notin VMs
  BY ThreadsAreApart DEF ThreadsAssumption
<1> SUFFICES ASSUME NEW u \in Threads, NEW w \in Workers, NEW v \in VMs,
                    kill'[u][v] # "no", hold[w] = v
             PROVE  FALSE
  BY DEF WorkersUndisturbed
<1>2. w \in Threads /\ t \in Threads /\ t # w
  BY <1>1 DEF Threads
<1>3. v \notin idle \cup bound /\ hold[t] # v
  BY <1>1, <1>2 DEF SoleCustody, BoundIsRegistered
<1> QED
  BY <1>3 DEF WorkersUndisturbed

\* A step that starts a worker moves nobody else that has a VM in hand.
LEMMA StartedKeeps ==
  ASSUME Typed, NEW o \in Owners, NEW label, NEW k, Started(o, label, k)
  PROVE  \A u \in Threads : u # o /\ hold[u] # None => pc'[u] = pc[u]
BY DEF Started, Typed, HoldsWhere, Threads, WorkerHolding

\* A rebind clears the latch of no session that was lost and could still answer.
LEMMA RebindFinds ==
  ASSUME Typed, Custody, Doom, NEW o \in Owners, Rebind(o)
  PROVE  /\ hold[o] \in VMs /\ pc[o] = "rebind" /\ bound' = bound \cup {hold[o]}
         /\ \A v \in VMs : Usable(v)' <=> Usable(v)
         /\ UNCHANGED <<hold, kill, idle, sess, pooled>>
         /\ Started(o, "held", want[o].key)
         /\ \A v \in VMs : lost'[v] => lost[v]
<1>1. /\ hold[o] \in VMs /\ pc[o] = "rebind" /\ bound' = bound \cup {hold[o]}
      /\ lost' = [lost EXCEPT ![hold[o]] = FALSE]
      /\ UNCHANGED <<hold, kill, idle, sess, pooled>>
  BY DEF Rebind, Typed, HoldsWhere, OwnerHolding, hookVars
<1>2. Started(o, "held", want[o].key)
  BY <1>1, StarterInStarts DEF StarterIn
<1>3. lost[hold[o]] => sess[hold[o]] \notin {"up", "frozen"}
  BY <1>1 DEF Doom, LostStaysOut, Threads
<1>4. lost \in [VMs -> BOOLEAN]
  BY DEF Typed, TypeOK
<1> QED
  BY <1>1, <1>2, <1>3, <1>4 DEF Usable

\* What an acquire expires and reaps, whether it then finds a parked VM or not.
LEMMA MissQueues ==
  ASSUME NEW o \in Owners, AcquireMisses(o)
  PROVE  /\ \E cut \in SUBSET idle, S \in SUBSET (idle \cup bound) :
              S \subseteq cut \cup LostBound /\ kill' = Queue(o, S) /\ idle' = idle \ cut
         /\ bound' = bound \ LostBound /\ UNCHANGED <<hold, sess, lost>>
         /\ \A v \in LostBound : ~Usable(v)
<1>1. PICK old \in Cutoffs : /\ kill' = Queue(o, Expired(old) \cup LostBound)
                             /\ idle' = idle \ Expired(old)
  BY DEF AcquireMisses
<1>2. Expired(old) \subseteq idle /\ LostBound \subseteq bound
  BY DEF Expired, Cutoffs, LostBound
<1>3. bound' = bound \ LostBound /\ UNCHANGED <<hold, sess, lost>>
  BY DEF AcquireMisses, sessionVars
<1>4. \A v \in LostBound : ~Usable(v)
  BY DEF LostBound, Usable
<1> DEFINE S == Expired(old) \cup LostBound
<1>5. S \in SUBSET (idle \cup bound) /\ kill' = Queue(o, S)
  BY <1>1, <1>2
<1> QED
  BY <1>1, <1>2, <1>3, <1>4, <1>5

LEMMA TakeQueues ==
  ASSUME NEW o \in Owners, AcquireTakes(o)
  PROVE  /\ \E cut \in SUBSET idle, S \in SUBSET (idle \cup bound), x \in idle :
              /\ S \subseteq cut \cup LostBound /\ x \notin cut /\ kill' = Queue(o, S)
              /\ idle' = (idle \ cut) \ {x} /\ hold' = [hold EXCEPT ![o] = x]
         /\ bound' = bound \ LostBound /\ UNCHANGED <<sess, lost>>
         /\ \A v \in LostBound : ~Usable(v)
<1>1. PICK old \in Cutoffs, x \in idle :
        /\ kill' = Queue(o, Expired(old) \cup LostBound) /\ x \notin Expired(old)
        /\ idle' = (idle \ Expired(old)) \ {x} /\ hold' = [hold EXCEPT ![o] = x]
  BY DEF AcquireTakes, Taken
<1>2. Expired(old) \subseteq idle /\ LostBound \subseteq bound
  BY DEF Expired, Cutoffs, LostBound
<1>3. bound' = bound \ LostBound /\ UNCHANGED <<sess, lost>>
  BY DEF AcquireTakes, sessionVars
<1>4. \A v \in LostBound : ~Usable(v)
  BY DEF LostBound, Usable
<1> DEFINE S == Expired(old) \cup LostBound
<1>5. S \in SUBSET (idle \cup bound) /\ kill' = Queue(o, S)
  BY <1>1, <1>2
<1> QED
  BY <1>1, <1>2, <1>3, <1>4, <1>5

\* A release parks its VM and cuts some of the bucket, that VM perhaps.
LEMMA ParkCuts ==
  ASSUME NEW o \in Owners, Park(o)
  PROVE  \E cut \in SUBSET (idle \cup {hold[o]}) :
           kill' = Queue(o, cut) /\ idle' = (idle \cup {hold[o]}) \ cut
<1>1. PICK old \in Cutoffs :
        LET v        == hold[o]
            kept     == idle \ Expired(old)
            overflow == {w \in kept : key[w] = key[v]
                                      /\ Position(kept, w) + 1 >= Limit(key[v])}
                        \cup (IF Limit(key[v]) = 0 THEN {v} ELSE {})
            cut      == Expired(old) \cup overflow
        IN idle' = (idle \cup {v}) \ cut /\ kill' = Queue(o, cut)
  BY DEF Park
<1>2. Expired(old) \subseteq idle
  BY DEF Expired, Cutoffs
<1> DEFINE kept == idle \ Expired(old)
           over == {w \in kept : key[w] = key[hold[o]]
                                 /\ Position(kept, w) + 1 >= Limit(key[hold[o]])}
           self == IF Limit(key[hold[o]]) = 0 THEN {hold[o]} ELSE {}
           cut  == Expired(old) \cup (over \cup self)
<1>3. cut \subseteq idle \cup {hold[o]}
  BY <1>2
<1>4. kill' = Queue(o, cut) /\ idle' = (idle \cup {hold[o]}) \ cut
  BY <1>1
<1> HIDE DEF cut
<1> QED
  BY <1>3, <1>4

LEMMA AloneWhenDoomedStep == Typed /\ Custody /\ Doom /\ [Next]_vars => AloneWhenDoomed'
<1> SUFFICES ASSUME Typed, Custody, Doom, [Next]_vars PROVE AloneWhenDoomed'
  OBVIOUS
<1>1. ASSUME NEW o \in Owners, AcquireMisses(o) PROVE AloneWhenDoomed'
  <2>1. PICK cut \in SUBSET idle, S \in SUBSET (idle \cup bound) :
          S \subseteq cut \cup LostBound /\ kill' = Queue(o, S) /\ idle' = idle \ cut
    BY <1>1, MissQueues
  <2>2. /\ bound' = bound \ LostBound /\ UNCHANGED <<hold, sess, lost>>
        /\ \A v \in LostBound : ~Usable(v)
    BY <1>1, MissQueues
  <2>3. \A u \in Threads, v \in VMs : kill'[u][v] =
          IF u = o /\ v \in S THEN "queued" ELSE kill[u][v]
    BY <2>1, QueueKill, Holders DEF Typed
  <2>4. \A v \in cut : /\ v \in idle /\ v \notin idle' \cup bound'
                       /\ \A u \in Threads : hold'[u] # v
    BY <2>1, <2>2, Holders DEF Custody, SoleCustody
  <2>5. \A u \in Threads : hold'[u] \in {hold[u], None} \cup idle
    BY <2>2
  <2>6. \A v \in VMs : v \in S /\ Usable(v) =>
          /\ v \in idle \/ hold[o] = v
          /\ v \notin idle' \cup bound' /\ \A u \in Threads : hold'[u] # v
    BY <2>1, <2>2, <2>4
  <2>7. UNCHANGED <<sess, lost>> /\ idle' \subseteq idle /\ bound' \subseteq bound
    BY <2>1, <2>2
  <2> QED
    BY <2>3, <2>5, <2>6, <2>7, QueueAlone, Holders DEF Doom
<1>2. ASSUME NEW o \in Owners, AcquireTakes(o) PROVE AloneWhenDoomed'
  <2>1. PICK cut \in SUBSET idle, S \in SUBSET (idle \cup bound), x \in idle :
          /\ S \subseteq cut \cup LostBound /\ x \notin cut /\ kill' = Queue(o, S)
          /\ idle' = (idle \ cut) \ {x} /\ hold' = [hold EXCEPT ![o] = x]
    BY <1>2, TakeQueues
  <2>2. /\ bound' = bound \ LostBound /\ UNCHANGED <<sess, lost>>
        /\ \A v \in LostBound : ~Usable(v)
    BY <1>2, TakeQueues
  <2>3. \A u \in Threads, v \in VMs : kill'[u][v] =
          IF u = o /\ v \in S THEN "queued" ELSE kill[u][v]
    BY <2>1, QueueKill, Holders DEF Typed
  <2>4. \A v \in cut : /\ v \in idle /\ v \notin idle' \cup bound'
                       /\ \A u \in Threads : hold'[u] # v
    BY <2>1, <2>2, Holders DEF Custody, SoleCustody
  <2>5. \A u \in Threads : hold'[u] \in {hold[u], None} \cup idle
    BY <2>1, <2>2, Holders
  <2>6. \A v \in VMs : v \in S /\ Usable(v) =>
          /\ v \in idle \/ hold[o] = v
          /\ v \notin idle' \cup bound' /\ \A u \in Threads : hold'[u] # v
    BY <2>1, <2>2, <2>4
  <2>7. UNCHANGED <<sess, lost>> /\ idle' \subseteq idle /\ bound' \subseteq bound
    BY <2>1, <2>2
  <2> QED
    BY <2>3, <2>5, <2>6, <2>7, QueueAlone, Holders DEF Doom
<1>3. ASSUME NEW o \in Owners, NotBack(o) PROVE AloneWhenDoomed'
  <2>1. /\ Step(o, hold[o], "queued") /\ hold' = [hold EXCEPT ![o] = None]
        /\ hold[o] \in VMs /\ pc[o] \in {"ping", "thaw"}
        /\ UNCHANGED <<idle, bound, sess>>
        /\ UNCHANGED lost \/ lost' = [lost EXCEPT ![hold[o]] = TRUE]
    BY <1>3 DEF NotBack, poolVars, sessionVars, hookVars, Goto, Typed, HoldsWhere, OwnerHolding, WorkerHolding
  <2>2. PICK S \in SUBSET VMs : /\ \A v \in VMs : v \in S <=> v = hold[o]
                                /\ \A u \in Threads, v \in VMs : kill'[u][v] =
                                     IF u = o /\ v \in S THEN "queued" ELSE kill[u][v]
    BY <2>1, StepKill, Holders DEF Typed
  <2>3. /\ hold[o] \notin idle \cup bound
        /\ \A u \in Threads : hold'[u] # hold[o] /\ hold'[u] \in {hold[u], None}
    BY <2>1, Holders DEF Registered
  <2>4. CASE UNCHANGED lost
    BY <2>1, <2>2, <2>3, <2>4, QueueAlone, Holders DEF Doom
  <2>5. CASE lost' = [lost EXCEPT ![hold[o]] = TRUE]
    <3>1. \A v \in VMs : Usable(v)' => Usable(v) /\ v # hold[o]
      BY <2>1, <2>5, Stores DEF Usable
    <3> QED
      BY <2>1, <2>2, <2>3, <3>1, Holders DEF Doom, AloneWhenDoomed
  <2> QED
    BY <2>1, <2>4, <2>5
<1>4. ASSUME NEW o \in Owners, Rebind(o) PROVE AloneWhenDoomed'
  <2>1. /\ hold[o] \in VMs /\ bound' = bound \cup {hold[o]}
        /\ \A v \in VMs : Usable(v)' <=> Usable(v)
        /\ UNCHANGED <<hold, kill, idle>>
    BY <1>4, RebindFinds
  <2> QED
    BY <2>1, Holders DEF Doom, AloneWhenDoomed
<1>5. ASSUME NEW o \in Owners, Fresh(o) PROVE AloneWhenDoomed'
  <2>1. PICK v \in VMs : Booted(v, want[o].key, o) /\ hold' = [hold EXCEPT ![o] = v]
    BY <1>5 DEF Fresh
  <2>2. /\ UNCHANGED <<kill, idle, bound>> /\ v \notin idle \cup bound
        /\ \A t \in Threads : hold[t] # v /\ kill[t][v] = "no"
        /\ \A w \in VMs : w # v => (Usable(w)' <=> Usable(w))
    BY <1>5, <2>1, Stores DEF Fresh, Booted, Referenced, Usable, poolVars
  <2> QED
    BY <2>1, <2>2, Holders DEF Doom, AloneWhenDoomed
<1>6. ASSUME NEW o \in Owners, Bind(o) PROVE AloneWhenDoomed'
  <2>1. /\ hold[o] \in VMs /\ bound' = bound \cup {hold[o]}
        /\ UNCHANGED <<hold, kill, idle, sess, lost>>
    BY <1>6 DEF Bind, poolVars, sessionVars, hookVars, Goto, Typed, HoldsWhere, OwnerHolding, WorkerHolding
  <2> QED
    BY <2>1, Holders DEF Doom, AloneWhenDoomed, Usable
<1>7. ASSUME NEW o \in Owners, ResetDiscards(o) PROVE AloneWhenDoomed'
  <2>1. /\ Step(o, hold[o], "queued") /\ hold' = [hold EXCEPT ![o] = None]
        /\ hold[o] \in VMs /\ pc[o] = "reset" /\ UNCHANGED <<idle, bound, sess, lost>>
    BY <1>7 DEF ResetDiscards, poolVars, sessionVars, hookVars, Goto, Typed, HoldsWhere, OwnerHolding, WorkerHolding
  <2>2. PICK S \in SUBSET VMs : /\ \A v \in VMs : v \in S <=> v = hold[o]
                                /\ \A u \in Threads, v \in VMs : kill'[u][v] =
                                     IF u = o /\ v \in S THEN "queued" ELSE kill[u][v]
    BY <2>1, StepKill, Holders DEF Typed
  <2>3. /\ hold[o] \notin idle \cup bound
        /\ \A u \in Threads : hold'[u] # hold[o] /\ hold'[u] \in {hold[u], None}
    BY <2>1, Holders DEF Registered
  <2> QED
    BY <2>1, <2>2, <2>3, QueueAlone, Holders DEF Doom
<1>8. ASSUME NEW o \in Owners, Park(o) PROVE AloneWhenDoomed'
  <2>1. PICK cut \in SUBSET (idle \cup {hold[o]}) :
          kill' = Queue(o, cut) /\ idle' = (idle \cup {hold[o]}) \ cut
    BY <1>8, ParkCuts
  <2>2. /\ hold' = [hold EXCEPT ![o] = None] /\ hold[o] \in VMs /\ pc[o] = "park"
        /\ UNCHANGED <<bound, sess, lost>>
    BY <1>8 DEF Park, poolVars, sessionVars, hookVars, Goto, Typed, HoldsWhere, OwnerHolding, WorkerHolding
  <2>3. \A u \in Threads, v \in VMs : kill'[u][v] =
          IF u = o /\ v \in cut THEN "queued" ELSE kill[u][v]
    BY <2>1, QueueKill, Holders DEF Typed
  <2>4. /\ hold[o] \notin idle \cup bound
        /\ \A u \in Threads : hold'[u] # hold[o] /\ hold'[u] \in {hold[u], None}
    BY <2>2, Holders DEF Registered
  <2>5. \A v \in cut : v \notin idle' \cup bound' /\ \A u \in Threads : hold'[u] # v
    BY <2>1, <2>2, <2>4, Holders DEF Custody, SoleCustody
  <2> QED
    BY <2>1, <2>2, <2>3, <2>4, <2>5, QueueAlone, Holders DEF Doom
<1> USE ThreadsAreApart DEF ThreadsAssumption, Threads, Typed, TypeOK,
   HoldsWhere, Custody, SoleCustody, BoundIsRegistered, Registered, OwnerPC,
   WorkerPC, OwnerHolding, WorkerHolding, KillStage, Doom, AloneWhenDoomed,
   WorkersUndisturbed, AbortsAreLive, FrozenWhere, UsableIsPooled, LostStaysOut,
   Usable, threadVars, poolVars, claimVars, hookVars, guestVars, sessionVars,
   Goto, Step
<1>9. ASSUME NEW t \in Threads, NEW v \in VMs,
            TeardownUnbind(t, v)
     PROVE  AloneWhenDoomed'
  BY <1>9 DEF TeardownUnbind
<1>10. ASSUME NEW t \in Threads, NEW v \in VMs,
            TeardownUnhook(t, v)
     PROVE  AloneWhenDoomed'
  BY <1>10 DEF TeardownUnhook
<1>11. ASSUME NEW t \in Threads, NEW v \in VMs,
            TeardownClose(t, v)
     PROVE  AloneWhenDoomed'
  BY <1>11 DEF TeardownClose
<1>12. ASSUME NEW t \in Threads, NEW v \in VMs,
            TeardownDone(t, v)
     PROVE  AloneWhenDoomed'
  BY <1>12 DEF TeardownDone, Answers
<1>13. ASSUME NEW w \in Workers,
            RefillCheck(w) \/ RefillDone(w) \/ SeedDone(w) \/ BootFails(w)
     PROVE  AloneWhenDoomed'
  BY <1>13 DEF RefillCheck, RefillDone, SeedDone, BootFails
<1>14. ASSUME NEW w \in Workers, RefillBoot(w) PROVE AloneWhenDoomed'
  BY <1>14 DEF RefillBoot, Booted, Referenced
<1>15. ASSUME NEW w \in Workers, RefillFreeze(w) PROVE AloneWhenDoomed'
  BY <1>15 DEF RefillFreeze, Answers
<1>16. ASSUME NEW w \in Workers, RefillPark(w) PROVE AloneWhenDoomed'
  BY <1>16 DEF RefillPark
<1>17. ASSUME NEW w \in Workers, SeedBoot(w) PROVE AloneWhenDoomed'
  BY <1>17 DEF SeedBoot, Booted, Referenced
<1>18. ASSUME NEW w \in Workers, SeedFreeze(w) PROVE AloneWhenDoomed'
  BY <1>18 DEF SeedFreeze, Answers
<1>19. ASSUME NEW w \in Workers, SeedPublish(w) PROVE AloneWhenDoomed'
  BY <1>19 DEF SeedPublish
<1>20. ASSUME NEW w \in Workers, FreezeFails(w) PROVE AloneWhenDoomed'
  BY <1>20 DEF FreezeFails, Answers
<1>21. ASSUME NEW o \in Owners,
            AcquireBegin(o) \/ Roomy(o) \/ Ping(o) \/ FreshFails(o)
     PROVE  AloneWhenDoomed'
  BY <1>21 DEF AcquireBegin, Roomy, Ping, Answers, FreshFails
<1>22. ASSUME NEW o \in Owners,
            Seed(o) \/ UseBegin(o) \/ UseEnd(o) \/ Reset(o)
     PROVE  AloneWhenDoomed'
  BY <1>22 DEF Seed, UseBegin, UseEnd, Answers, Reset
<1>23. ASSUME NEW o \in Owners, ReclaimIdle(o) PROVE AloneWhenDoomed'
  BY <1>23 DEF ReclaimIdle, IdleVictims, Hot
<1>24. ASSUME NEW o \in Owners, ReclaimBound(o) PROVE AloneWhenDoomed'
  BY <1>24 DEF ReclaimBound, QuietBound
<1>25. ASSUME NEW o \in Owners, Thaw(o) PROVE AloneWhenDoomed'
  BY <1>25 DEF Thaw
<1>26. ASSUME NEW o \in Owners, UseFails(o) PROVE AloneWhenDoomed'
  BY <1>26 DEF UseFails, Answers
<1>27. ASSUME NEW o \in Owners, Close(o) PROVE AloneWhenDoomed'
  BY <1>27 DEF Close, Stamps
<1>28. ASSUME NEW o \in Owners, CloseUnhooked(o) PROVE AloneWhenDoomed'
  BY <1>28 DEF CloseUnhooked, Stamps
<1>29. ASSUME NEW o \in Owners, Forget(o) PROVE AloneWhenDoomed'
  BY <1>29 DEF Forget
<1>30. ASSUME NEW o \in Owners, ResetFails(o) PROVE AloneWhenDoomed'
  BY <1>30 DEF ResetFails, Answers
<1>31. ASSUME NEW o \in Owners, NEW k \in Keys,
            Prewarm(o, k) \/ SeedCall(o, k)
     PROVE  AloneWhenDoomed'
  BY <1>31 DEF Prewarm, SeedCall
<1>32. ASSUME NEW c \in Closers, PoolClose(c) PROVE AloneWhenDoomed'
  BY <1>32 DEF PoolClose
<1>33. ASSUME NEW v \in VMs, GuestDies(v) PROVE AloneWhenDoomed'
  BY <1>33 DEF GuestDies
<1>34. CASE UNCHANGED vars
  BY <1>34 DEF vars
<1> HIDE DEF ThreadsAssumption, Threads, Typed, TypeOK, HoldsWhere, Custody,
   SoleCustody, BoundIsRegistered, Registered, OwnerPC, WorkerPC, OwnerHolding,
   WorkerHolding, KillStage, Doom, AloneWhenDoomed, WorkersUndisturbed,
   AbortsAreLive, FrozenWhere, UsableIsPooled, LostStaysOut, Usable, threadVars,
   poolVars, claimVars, hookVars, guestVars, sessionVars, Goto, Step
<1> QED
  BY <1>1, <1>2, <1>3, <1>4, <1>5, <1>6, <1>7, <1>8, <1>9, <1>10, <1>11, <1>12,
     <1>13, <1>14, <1>15, <1>16, <1>17, <1>18, <1>19, <1>20, <1>21, <1>22,
     <1>23, <1>24, <1>25, <1>26, <1>27, <1>28, <1>29, <1>30, <1>31, <1>32,
     <1>33, <1>34 DEF Next, OwnerStep, WorkerStep, OwnerCall, Teardown

LEMMA WorkersUndisturbedStep == Typed /\ Custody /\ Doom /\ [Next]_vars => WorkersUndisturbed'
<1> SUFFICES ASSUME Typed, Custody, Doom, [Next]_vars PROVE WorkersUndisturbed'
  OBVIOUS
<1>1. ASSUME NEW o \in Owners, AcquireMisses(o) PROVE WorkersUndisturbed'
  <2>1. PICK cut \in SUBSET idle, S \in SUBSET (idle \cup bound) :
          S \subseteq cut \cup LostBound /\ kill' = Queue(o, S) /\ idle' = idle \ cut
    BY <1>1, MissQueues
  <2>2. /\ bound' = bound \ LostBound /\ UNCHANGED <<hold, sess, lost>>
        /\ \A v \in LostBound : ~Usable(v)
    BY <1>1, MissQueues
  <2>3. \A u \in Threads, v \in VMs : kill'[u][v] =
          IF u = o /\ v \in S THEN "queued" ELSE kill[u][v]
    BY <2>1, QueueKill, Holders DEF Typed
  <2> QED
    BY <2>2, <2>3, QueueUndisturbed DEF Doom, Custody
<1>2. ASSUME NEW o \in Owners, AcquireTakes(o) PROVE WorkersUndisturbed'
  <2>1. PICK cut \in SUBSET idle, S \in SUBSET (idle \cup bound), x \in idle :
          /\ S \subseteq cut \cup LostBound /\ x \notin cut /\ kill' = Queue(o, S)
          /\ idle' = (idle \ cut) \ {x} /\ hold' = [hold EXCEPT ![o] = x]
    BY <1>2, TakeQueues
  <2>2. /\ bound' = bound \ LostBound /\ UNCHANGED <<sess, lost>>
        /\ \A v \in LostBound : ~Usable(v)
    BY <1>2, TakeQueues
  <2>3. \A u \in Threads, v \in VMs : kill'[u][v] =
          IF u = o /\ v \in S THEN "queued" ELSE kill[u][v]
    BY <2>1, QueueKill, Holders DEF Typed
  <2> QED
    BY <2>1, <2>2, <2>3, QueueUndisturbed, Holders DEF Doom, Custody
<1>3. ASSUME NEW o \in Owners, Park(o) PROVE WorkersUndisturbed'
  <2>1. PICK cut \in SUBSET (idle \cup {hold[o]}) :
          kill' = Queue(o, cut) /\ idle' = (idle \cup {hold[o]}) \ cut
    BY <1>3, ParkCuts
  <2>2. /\ hold' = [hold EXCEPT ![o] = None] /\ hold[o] \in VMs /\ pc[o] = "park"
        /\ UNCHANGED <<bound, sess, lost>>
    BY <1>3 DEF Park, poolVars, sessionVars, hookVars, Goto, Typed, HoldsWhere, OwnerHolding, WorkerHolding
  <2>3. \A u \in Threads, v \in VMs : kill'[u][v] =
          IF u = o /\ v \in cut THEN "queued" ELSE kill[u][v]
    BY <2>1, QueueKill, Holders DEF Typed
  <2> QED
    BY <2>1, <2>2, <2>3, QueueUndisturbed, Holders DEF Doom, Custody
<1> USE ThreadsAreApart DEF ThreadsAssumption, Threads, Typed, TypeOK,
   HoldsWhere, Custody, SoleCustody, BoundIsRegistered, Registered, OwnerPC,
   WorkerPC, OwnerHolding, WorkerHolding, KillStage, Doom, AloneWhenDoomed,
   WorkersUndisturbed, AbortsAreLive, FrozenWhere, UsableIsPooled, LostStaysOut,
   Usable, threadVars, poolVars, claimVars, hookVars, guestVars, sessionVars,
   Goto, Step
<1>4. ASSUME NEW t \in Threads, NEW v \in VMs,
            TeardownUnbind(t, v)
     PROVE  WorkersUndisturbed'
  BY <1>4 DEF TeardownUnbind
<1>5. ASSUME NEW t \in Threads, NEW v \in VMs,
            TeardownUnhook(t, v)
     PROVE  WorkersUndisturbed'
  BY <1>5 DEF TeardownUnhook
<1>6. ASSUME NEW t \in Threads, NEW v \in VMs,
            TeardownClose(t, v)
     PROVE  WorkersUndisturbed'
  BY <1>6 DEF TeardownClose
<1>7. ASSUME NEW t \in Threads, NEW v \in VMs,
            TeardownDone(t, v)
     PROVE  WorkersUndisturbed'
  BY <1>7 DEF TeardownDone
<1>8. ASSUME NEW w \in Workers,
            RefillCheck(w) \/ RefillDone(w) \/ SeedDone(w) \/ BootFails(w)
     PROVE  WorkersUndisturbed'
  BY <1>8 DEF RefillCheck, RefillDone, SeedDone, BootFails
<1>9. ASSUME NEW w \in Workers, RefillBoot(w) PROVE WorkersUndisturbed'
  BY <1>9 DEF RefillBoot, Booted, Referenced
<1>10. ASSUME NEW w \in Workers, RefillFreeze(w) PROVE WorkersUndisturbed'
  BY <1>10 DEF RefillFreeze
<1>11. ASSUME NEW w \in Workers, RefillPark(w) PROVE WorkersUndisturbed'
  BY <1>11 DEF RefillPark
<1>12. ASSUME NEW w \in Workers, SeedBoot(w) PROVE WorkersUndisturbed'
  BY <1>12 DEF SeedBoot, Booted, Referenced
<1>13. ASSUME NEW w \in Workers, SeedFreeze(w) PROVE WorkersUndisturbed'
  BY <1>13 DEF SeedFreeze
<1>14. ASSUME NEW w \in Workers, SeedPublish(w) PROVE WorkersUndisturbed'
  BY <1>14 DEF SeedPublish
<1>15. ASSUME NEW w \in Workers, FreezeFails(w) PROVE WorkersUndisturbed'
  BY <1>15 DEF FreezeFails
<1>16. ASSUME NEW o \in Owners,
            AcquireBegin(o) \/ Roomy(o) \/ Ping(o) \/ FreshFails(o)
     PROVE  WorkersUndisturbed'
  BY <1>16 DEF AcquireBegin, Roomy, Ping, FreshFails
<1>17. ASSUME NEW o \in Owners,
            Seed(o) \/ UseBegin(o) \/ UseEnd(o) \/ Reset(o)
     PROVE  WorkersUndisturbed'
  BY <1>17 DEF Seed, UseBegin, UseEnd, Reset
<1>18. ASSUME NEW o \in Owners, ReclaimIdle(o) PROVE WorkersUndisturbed'
  BY <1>18 DEF ReclaimIdle, IdleVictims, Hot
<1>19. ASSUME NEW o \in Owners, ReclaimBound(o) PROVE WorkersUndisturbed'
  BY <1>19 DEF ReclaimBound, QuietBound
<1>20. ASSUME NEW o \in Owners, Thaw(o) PROVE WorkersUndisturbed'
  BY <1>20 DEF Thaw
<1>21. ASSUME NEW o \in Owners, NotBack(o) PROVE WorkersUndisturbed'
  BY <1>21 DEF NotBack
<1>22. ASSUME NEW o \in Owners, Rebind(o) PROVE WorkersUndisturbed'
  BY <1>22 DEF Rebind
<1>23. ASSUME NEW o \in Owners, Fresh(o) PROVE WorkersUndisturbed'
  BY <1>23 DEF Fresh, Booted, Referenced
<1>24. ASSUME NEW o \in Owners, Bind(o) PROVE WorkersUndisturbed'
  BY <1>24 DEF Bind
<1>25. ASSUME NEW o \in Owners, UseFails(o) PROVE WorkersUndisturbed'
  BY <1>25 DEF UseFails
<1>26. ASSUME NEW o \in Owners, Close(o) PROVE WorkersUndisturbed'
  BY <1>26 DEF Close, Stamps
<1>27. ASSUME NEW o \in Owners, CloseUnhooked(o) PROVE WorkersUndisturbed'
  BY <1>27 DEF CloseUnhooked, Stamps
<1>28. ASSUME NEW o \in Owners, Forget(o) PROVE WorkersUndisturbed'
  BY <1>28 DEF Forget
<1>29. ASSUME NEW o \in Owners, ResetDiscards(o) PROVE WorkersUndisturbed'
  BY <1>29 DEF ResetDiscards
<1>30. ASSUME NEW o \in Owners, ResetFails(o) PROVE WorkersUndisturbed'
  BY <1>30 DEF ResetFails
<1>31. ASSUME NEW o \in Owners, NEW k \in Keys,
            Prewarm(o, k) \/ SeedCall(o, k)
     PROVE  WorkersUndisturbed'
  BY <1>31 DEF Prewarm, SeedCall
<1>32. ASSUME NEW c \in Closers, PoolClose(c) PROVE WorkersUndisturbed'
  BY <1>32 DEF PoolClose
<1>33. ASSUME NEW v \in VMs, GuestDies(v) PROVE WorkersUndisturbed'
  BY <1>33 DEF GuestDies
<1>34. CASE UNCHANGED vars
  BY <1>34 DEF vars
<1> HIDE DEF ThreadsAssumption, Threads, Typed, TypeOK, HoldsWhere, Custody,
   SoleCustody, BoundIsRegistered, Registered, OwnerPC, WorkerPC, OwnerHolding,
   WorkerHolding, KillStage, Doom, AloneWhenDoomed, WorkersUndisturbed,
   AbortsAreLive, FrozenWhere, UsableIsPooled, LostStaysOut, Usable, threadVars,
   poolVars, claimVars, hookVars, guestVars, sessionVars, Goto, Step
<1> QED
  BY <1>1, <1>2, <1>3, <1>4, <1>5, <1>6, <1>7, <1>8, <1>9, <1>10, <1>11, <1>12,
     <1>13, <1>14, <1>15, <1>16, <1>17, <1>18, <1>19, <1>20, <1>21, <1>22,
     <1>23, <1>24, <1>25, <1>26, <1>27, <1>28, <1>29, <1>30, <1>31, <1>32,
     <1>33, <1>34 DEF Next, OwnerStep, WorkerStep, OwnerCall, Teardown

LEMMA AbortsAreLiveStep == Typed /\ Custody /\ Doom /\ [Next]_vars => AbortsAreLive'
<1> SUFFICES ASSUME Typed, Custody, Doom, [Next]_vars PROVE AbortsAreLive'
  OBVIOUS
<1> USE ThreadsAreApart DEF ThreadsAssumption, Threads, Typed, TypeOK,
   HoldsWhere, Custody, SoleCustody, BoundIsRegistered, Registered, OwnerPC,
   WorkerPC, OwnerHolding, WorkerHolding, KillStage, Doom, AloneWhenDoomed,
   WorkersUndisturbed, AbortsAreLive, FrozenWhere, UsableIsPooled, LostStaysOut,
   Usable, threadVars, poolVars, claimVars, hookVars, guestVars, sessionVars,
   Goto, Step
<1>1. ASSUME NEW t \in Threads, NEW v \in VMs,
            TeardownUnbind(t, v)
     PROVE  AbortsAreLive'
  BY <1>1 DEF TeardownUnbind
<1>2. ASSUME NEW t \in Threads, NEW v \in VMs,
            TeardownUnhook(t, v)
     PROVE  AbortsAreLive'
  BY <1>2 DEF TeardownUnhook
<1>3. ASSUME NEW t \in Threads, NEW v \in VMs,
            TeardownClose(t, v)
     PROVE  AbortsAreLive'
  BY <1>3 DEF TeardownClose
<1>4. ASSUME NEW t \in Threads, NEW v \in VMs,
            TeardownDone(t, v)
     PROVE  AbortsAreLive'
  BY <1>4 DEF TeardownDone
<1>5. ASSUME NEW w \in Workers,
            RefillCheck(w) \/ RefillDone(w) \/ SeedDone(w) \/ BootFails(w)
     PROVE  AbortsAreLive'
  BY <1>5 DEF RefillCheck, RefillDone, SeedDone, BootFails
<1>6. ASSUME NEW w \in Workers, RefillBoot(w) PROVE AbortsAreLive'
  BY <1>6 DEF RefillBoot, Booted, Referenced
<1>7. ASSUME NEW w \in Workers, RefillFreeze(w) PROVE AbortsAreLive'
  BY <1>7 DEF RefillFreeze
<1>8. ASSUME NEW w \in Workers, RefillPark(w) PROVE AbortsAreLive'
  BY <1>8 DEF RefillPark
<1>9. ASSUME NEW w \in Workers, SeedBoot(w) PROVE AbortsAreLive'
  BY <1>9 DEF SeedBoot, Booted, Referenced
<1>10. ASSUME NEW w \in Workers, SeedFreeze(w) PROVE AbortsAreLive'
  BY <1>10 DEF SeedFreeze
<1>11. ASSUME NEW w \in Workers, SeedPublish(w) PROVE AbortsAreLive'
  BY <1>11 DEF SeedPublish
<1>12. ASSUME NEW w \in Workers, FreezeFails(w) PROVE AbortsAreLive'
  BY <1>12 DEF FreezeFails
<1>13. ASSUME NEW o \in Owners,
            AcquireBegin(o) \/ Roomy(o) \/ Ping(o) \/ FreshFails(o)
     PROVE  AbortsAreLive'
  BY <1>13 DEF AcquireBegin, Roomy, Ping, FreshFails
<1>14. ASSUME NEW o \in Owners,
            Seed(o) \/ UseBegin(o) \/ UseEnd(o) \/ Reset(o)
     PROVE  AbortsAreLive'
  BY <1>14 DEF Seed, UseBegin, UseEnd, Reset
<1>15. ASSUME NEW o \in Owners, AcquireMisses(o) PROVE AbortsAreLive'
  BY <1>15 DEF AcquireMisses, Queue, Expired, LostBound
<1>16. ASSUME NEW o \in Owners, AcquireTakes(o) PROVE AbortsAreLive'
  BY <1>16 DEF AcquireTakes, Queue, Expired, Taken, LostBound
<1>17. ASSUME NEW o \in Owners, ReclaimIdle(o) PROVE AbortsAreLive'
  BY <1>17 DEF ReclaimIdle, IdleVictims, Hot
<1>18. ASSUME NEW o \in Owners, ReclaimBound(o) PROVE AbortsAreLive'
  BY <1>18 DEF ReclaimBound, QuietBound
<1>19. ASSUME NEW o \in Owners, Thaw(o) PROVE AbortsAreLive'
  BY <1>19 DEF Thaw
<1>20. ASSUME NEW o \in Owners, NotBack(o) PROVE AbortsAreLive'
  BY <1>20 DEF NotBack
<1>21. ASSUME NEW o \in Owners, Rebind(o) PROVE AbortsAreLive'
  BY <1>21 DEF Rebind
<1>22. ASSUME NEW o \in Owners, Fresh(o) PROVE AbortsAreLive'
  BY <1>22 DEF Fresh, Booted, Referenced
<1>23. ASSUME NEW o \in Owners, Bind(o) PROVE AbortsAreLive'
  BY <1>23 DEF Bind
<1>24. ASSUME NEW o \in Owners, UseFails(o) PROVE AbortsAreLive'
  BY <1>24 DEF UseFails
<1>25. ASSUME NEW o \in Owners, Close(o) PROVE AbortsAreLive'
  BY <1>25 DEF Close, Stamps
<1>26. ASSUME NEW o \in Owners, CloseUnhooked(o) PROVE AbortsAreLive'
  BY <1>26 DEF CloseUnhooked, Stamps
<1>27. ASSUME NEW o \in Owners, Forget(o) PROVE AbortsAreLive'
  BY <1>27 DEF Forget
<1>28. ASSUME NEW o \in Owners, ResetDiscards(o) PROVE AbortsAreLive'
  BY <1>28 DEF ResetDiscards
<1>29. ASSUME NEW o \in Owners, ResetFails(o) PROVE AbortsAreLive'
  BY <1>29 DEF ResetFails
<1>30. ASSUME NEW o \in Owners, Park(o) PROVE AbortsAreLive'
  BY <1>30 DEF Park, Queue
<1>31. ASSUME NEW o \in Owners, NEW k \in Keys,
            Prewarm(o, k) \/ SeedCall(o, k)
     PROVE  AbortsAreLive'
  BY <1>31 DEF Prewarm, SeedCall
<1>32. ASSUME NEW c \in Closers, PoolClose(c) PROVE AbortsAreLive'
  BY <1>32 DEF PoolClose
<1>33. ASSUME NEW v \in VMs, GuestDies(v) PROVE AbortsAreLive'
  BY <1>33 DEF GuestDies
<1>34. CASE UNCHANGED vars
  BY <1>34 DEF vars
<1> HIDE DEF ThreadsAssumption, Threads, Typed, TypeOK, HoldsWhere, Custody,
   SoleCustody, BoundIsRegistered, Registered, OwnerPC, WorkerPC, OwnerHolding,
   WorkerHolding, KillStage, Doom, AloneWhenDoomed, WorkersUndisturbed,
   AbortsAreLive, FrozenWhere, UsableIsPooled, LostStaysOut, Usable, threadVars,
   poolVars, claimVars, hookVars, guestVars, sessionVars, Goto, Step
<1> QED
  BY <1>1, <1>2, <1>3, <1>4, <1>5, <1>6, <1>7, <1>8, <1>9, <1>10, <1>11, <1>12,
     <1>13, <1>14, <1>15, <1>16, <1>17, <1>18, <1>19, <1>20, <1>21, <1>22,
     <1>23, <1>24, <1>25, <1>26, <1>27, <1>28, <1>29, <1>30, <1>31, <1>32,
     <1>33, <1>34 DEF Next, OwnerStep, WorkerStep, OwnerCall, Teardown

LEMMA FrozenWhereStep == Typed /\ Custody /\ Doom /\ [Next]_vars => FrozenWhere'
<1> SUFFICES ASSUME Typed, Custody, Doom, [Next]_vars PROVE FrozenWhere'
  OBVIOUS
<1>1. ASSUME NEW t \in Threads, NEW v \in VMs,
            TeardownClose(t, v)
     PROVE  FrozenWhere'
  <2>1. /\ kill[t][v] = "close" /\ UNCHANGED <<pc, hold, bound>>
        /\ \A w \in VMs : sess'[w] = IF w = v /\ sess'[w] = "gone" THEN "gone" ELSE sess[w]
    BY <1>1, Stores DEF TeardownClose, threadVars, poolVars, sessionVars, hookVars, Goto
  <2>2. \A o \in Owners : pc[o] \in {"room", "thaw"} /\ hold[o] # None =>
          hold[o] \in VMs /\ (Usable(hold[o]) => hold[o] # v)
    BY <2>1, Holders DEF Doom, AloneWhenDoomed
  <2>3. \A o \in Owners : pc[o] \in {"room", "thaw"} /\ hold[o] # None => Usable(hold[o])
    BY <2>2, Holders DEF Doom, FrozenWhere, LostStaysOut, Usable
  <2> QED
    BY <2>1, <2>2, <2>3 DEF Doom, FrozenWhere
<1>2. ASSUME NEW t \in Threads, NEW v \in VMs,
            TeardownDone(t, v)
     PROVE  FrozenWhere'
  <2>1. /\ kill[t][v] = "wait" /\ UNCHANGED <<pc, hold, bound>>
        /\ \A w \in VMs : sess'[w] = IF w = v /\ sess'[w] = "gone" THEN "gone" ELSE sess[w]
    BY <1>2, Stores DEF TeardownDone, threadVars, poolVars, sessionVars, hookVars, Goto
  <2>2. \A o \in Owners : pc[o] \in {"room", "thaw"} /\ hold[o] # None =>
          hold[o] \in VMs /\ (Usable(hold[o]) => hold[o] # v)
    BY <2>1, Holders DEF Doom, AloneWhenDoomed
  <2>3. \A o \in Owners : pc[o] \in {"room", "thaw"} /\ hold[o] # None => Usable(hold[o])
    BY <2>2, Holders DEF Doom, FrozenWhere, LostStaysOut, Usable
  <2> QED
    BY <2>1, <2>2, <2>3 DEF Doom, FrozenWhere
<1>3. ASSUME NEW w \in Workers, RefillFreeze(w) PROVE FrozenWhere'
  <2>1. /\ hold[w] \in VMs /\ pc[w] = "ffreeze" /\ pc' = [pc EXCEPT ![w] = "fpark"]
        /\ sess' = [sess EXCEPT ![hold[w]] = "frozen"] /\ UNCHANGED <<hold, bound>>
    BY <1>3 DEF RefillFreeze, poolVars, sessionVars, hookVars, Goto, Typed, HoldsWhere, OwnerHolding, WorkerHolding
  <2>2. hold[w] \notin bound /\ \A t \in Threads : hold[t] = hold[w] => t = w
    BY <2>1, Holders
  <2>3. \A v \in VMs : sess'[v] = IF v = hold[w] THEN "frozen" ELSE sess[v]
    BY <2>1, Stores
  <2>4. \A t \in Threads : pc'[t] = IF t = w THEN "fpark" ELSE pc[t]
    BY <2>1, Holders
  <2> QED
    BY <2>1, <2>2, <2>3, <2>4, Holders DEF Doom, FrozenWhere
<1>4. ASSUME NEW w \in Workers, SeedFreeze(w) PROVE FrozenWhere'
  <2>1. /\ hold[w] \in VMs /\ pc[w] = "sfreeze" /\ pc' = [pc EXCEPT ![w] = "spublish"]
        /\ sess' = [sess EXCEPT ![hold[w]] = "frozen"] /\ UNCHANGED <<hold, bound>>
    BY <1>4 DEF SeedFreeze, poolVars, sessionVars, hookVars, Goto, Typed, HoldsWhere, OwnerHolding, WorkerHolding
  <2>2. hold[w] \notin bound /\ \A t \in Threads : hold[t] = hold[w] => t = w
    BY <2>1, Holders
  <2>3. \A v \in VMs : sess'[v] = IF v = hold[w] THEN "frozen" ELSE sess[v]
    BY <2>1, Stores
  <2>4. \A t \in Threads : pc'[t] = IF t = w THEN "spublish" ELSE pc[t]
    BY <2>1, Holders
  <2> QED
    BY <2>1, <2>2, <2>3, <2>4, Holders DEF Doom, FrozenWhere
<1>5. ASSUME NEW w \in Workers, BootFails(w) PROVE FrozenWhere'
  <2>1. /\ hold[w] = None /\ UNCHANGED <<hold, bound, idle, sess, lost>>
        /\ \A u \in Threads : u # w => pc'[u] = pc[u]
    BY <1>5, Holders DEF BootFails, poolVars, sessionVars, hookVars, Goto, Typed, HoldsWhere, OwnerHolding, WorkerHolding
  <2> QED
    BY <2>1, Holders DEF Doom, FrozenWhere
<1>6. ASSUME NEW o \in Owners, Roomy(o) PROVE FrozenWhere'
  <2>1. pc[o] = "room" /\ UNCHANGED <<hold, bound, idle, sess, lost>>
    BY <1>6 DEF Roomy, poolVars, sessionVars, hookVars, Goto
  <2>2. \/ hold[o] = None /\ Started(o, "boot", want[o].key)
        \/ hold[o] # None /\ Started(o, "thaw", want[o].key)
    BY <1>6, <2>1, StarterInStarts DEF StarterIn, Typed, HoldsWhere
  <2>3. /\ (pc'[o] = "boot" /\ hold[o] = None) \/ pc'[o] = "thaw"
        /\ \A u \in Threads : u # o /\ hold[u] # None => pc'[u] = pc[u]
    BY <2>2, StartedKeeps DEF Started
  <2> QED
    BY <2>1, <2>3, Holders DEF Doom, FrozenWhere
<1>7. ASSUME NEW o \in Owners, Rebind(o) PROVE FrozenWhere'
  <2>1. /\ hold[o] \in VMs /\ pc[o] = "rebind" /\ bound' = bound \cup {hold[o]}
        /\ UNCHANGED <<hold, idle, sess>> /\ Started(o, "held", want[o].key)
        /\ \A v \in VMs : lost'[v] => lost[v]
    BY <1>7, RebindFinds
  <2>2. pc'[o] = "held" /\ \A u \in Threads : u # o /\ hold[u] # None => pc'[u] = pc[u]
    BY <2>1, StartedKeeps DEF Started
  <2>3. \A u \in Threads : hold[u] = hold[o] => u = o
    BY <2>1, Holders
  <2> QED
    BY <2>1, <2>2, <2>3, Holders DEF Doom, FrozenWhere
<1>8. ASSUME NEW o \in Owners, Bind(o) PROVE FrozenWhere'
  <2>1. /\ hold[o] \in VMs /\ pc[o] \in {"bind", "bindcold"} /\ bound' = bound \cup {hold[o]}
        /\ pc'[o] \in {"seed", "held"} /\ \A u \in Threads : u # o => pc'[u] = pc[u]
        /\ UNCHANGED <<hold, sess>>
    BY <1>8, Holders DEF Bind, poolVars, sessionVars, hookVars, Goto, Typed, HoldsWhere, OwnerHolding, WorkerHolding
  <2> QED
    BY <2>1, Holders DEF Doom, FrozenWhere
<1>9. ASSUME NEW o \in Owners, Seed(o) PROVE FrozenWhere'
  <2>1. pc[o] = "seed" /\ hold[o] \in VMs /\ UNCHANGED <<hold, bound, idle, sess, lost>>
    BY <1>9 DEF Seed, poolVars, sessionVars, hookVars, Goto, Typed, HoldsWhere, OwnerHolding, WorkerHolding
  <2>2. Started(o, "held", want[o].key)
    BY <1>9, <2>1, StarterInStarts DEF StarterIn, Typed, HoldsWhere
  <2>3. pc'[o] = "held" /\ \A u \in Threads : u # o /\ hold[u] # None => pc'[u] = pc[u]
    BY <2>2, StartedKeeps DEF Started
  <2> QED
    BY <2>1, <2>3, Holders DEF Doom, FrozenWhere
<1>10. ASSUME NEW o \in Owners, NEW k \in Keys, Prewarm(o, k) PROVE FrozenWhere'
  <2>1. /\ hold[o] = None /\ UNCHANGED <<hold, bound, idle, sess, lost>>
        /\ Started(o, "out", k)
    BY <1>10, StarterStarts DEF Starter, Prewarm, Typed, HoldsWhere, OwnerHolding, poolVars, sessionVars, hookVars, Goto
  <2>2. pc'[o] = "out" /\ \A u \in Threads : u # o /\ hold[u] # None => pc'[u] = pc[u]
    BY <2>1, StartedKeeps DEF Started
  <2> QED
    BY <2>1, <2>2, Holders DEF Doom, FrozenWhere
<1>11. ASSUME NEW o \in Owners, NEW k \in Keys,
            SeedCall(o, k)
     PROVE  FrozenWhere'
  <2>1. /\ hold[o] = None /\ UNCHANGED <<hold, bound, idle, sess, lost>>
        /\ Started(o, "out", k)
    BY <1>11, StarterStarts DEF Starter, SeedCall, Typed, HoldsWhere, OwnerHolding, poolVars, sessionVars, hookVars, Goto
  <2>2. pc'[o] = "out" /\ \A u \in Threads : u # o /\ hold[u] # None => pc'[u] = pc[u]
    BY <2>1, StartedKeeps DEF Started
  <2> QED
    BY <2>1, <2>2, Holders DEF Doom, FrozenWhere
<1> USE ThreadsAreApart DEF ThreadsAssumption, Threads, Typed, TypeOK,
   HoldsWhere, Custody, SoleCustody, BoundIsRegistered, Registered, OwnerPC,
   WorkerPC, OwnerHolding, WorkerHolding, KillStage, Doom, AloneWhenDoomed,
   WorkersUndisturbed, AbortsAreLive, FrozenWhere, UsableIsPooled, LostStaysOut,
   Usable, threadVars, poolVars, claimVars, hookVars, guestVars, sessionVars,
   Goto, Step
<1>12. ASSUME NEW t \in Threads, NEW v \in VMs,
            TeardownUnbind(t, v)
     PROVE  FrozenWhere'
  BY <1>12 DEF TeardownUnbind
<1>13. ASSUME NEW t \in Threads, NEW v \in VMs,
            TeardownUnhook(t, v)
     PROVE  FrozenWhere'
  BY <1>13 DEF TeardownUnhook
<1>14. ASSUME NEW w \in Workers, RefillCheck(w) PROVE FrozenWhere'
  BY <1>14 DEF RefillCheck
<1>15. ASSUME NEW w \in Workers, RefillBoot(w) PROVE FrozenWhere'
  BY <1>15 DEF RefillBoot, Booted, Referenced
<1>16. ASSUME NEW w \in Workers, RefillPark(w) PROVE FrozenWhere'
  BY <1>16 DEF RefillPark
<1>17. ASSUME NEW w \in Workers, RefillDone(w) PROVE FrozenWhere'
  BY <1>17 DEF RefillDone
<1>18. ASSUME NEW w \in Workers, SeedBoot(w) PROVE FrozenWhere'
  BY <1>18 DEF SeedBoot, Booted, Referenced
<1>19. ASSUME NEW w \in Workers, SeedPublish(w) PROVE FrozenWhere'
  BY <1>19 DEF SeedPublish
<1>20. ASSUME NEW w \in Workers, SeedDone(w) PROVE FrozenWhere'
  BY <1>20 DEF SeedDone
<1>21. ASSUME NEW w \in Workers, FreezeFails(w) PROVE FrozenWhere'
  BY <1>21 DEF FreezeFails
<1>22. ASSUME NEW o \in Owners, AcquireBegin(o) PROVE FrozenWhere'
  BY <1>22 DEF AcquireBegin
<1>23. ASSUME NEW o \in Owners, AcquireMisses(o) PROVE FrozenWhere'
  BY <1>23 DEF AcquireMisses, Queue, Expired, LostBound
<1>24. ASSUME NEW o \in Owners, AcquireTakes(o) PROVE FrozenWhere'
  BY <1>24 DEF AcquireTakes, Queue, Expired, Taken, LostBound
<1>25. ASSUME NEW o \in Owners, ReclaimIdle(o) PROVE FrozenWhere'
  BY <1>25 DEF ReclaimIdle, IdleVictims, Hot
<1>26. ASSUME NEW o \in Owners, ReclaimBound(o) PROVE FrozenWhere'
  BY <1>26 DEF ReclaimBound, QuietBound
<1>27. ASSUME NEW o \in Owners, Ping(o) PROVE FrozenWhere'
  BY <1>27 DEF Ping
<1>28. ASSUME NEW o \in Owners, Thaw(o) PROVE FrozenWhere'
  BY <1>28 DEF Thaw
<1>29. ASSUME NEW o \in Owners, NotBack(o) PROVE FrozenWhere'
  BY <1>29 DEF NotBack
<1>30. ASSUME NEW o \in Owners, Fresh(o) PROVE FrozenWhere'
  BY <1>30 DEF Fresh, Booted, Referenced
<1>31. ASSUME NEW o \in Owners, FreshFails(o) PROVE FrozenWhere'
  BY <1>31 DEF FreshFails
<1>32. ASSUME NEW o \in Owners, UseBegin(o) PROVE FrozenWhere'
  BY <1>32 DEF UseBegin
<1>33. ASSUME NEW o \in Owners, UseEnd(o) PROVE FrozenWhere'
  BY <1>33 DEF UseEnd
<1>34. ASSUME NEW o \in Owners, UseFails(o) PROVE FrozenWhere'
  BY <1>34 DEF UseFails
<1>35. ASSUME NEW o \in Owners, Close(o) PROVE FrozenWhere'
  BY <1>35 DEF Close, Stamps
<1>36. ASSUME NEW o \in Owners, CloseUnhooked(o) PROVE FrozenWhere'
  BY <1>36 DEF CloseUnhooked, Stamps
<1>37. ASSUME NEW o \in Owners, Forget(o) PROVE FrozenWhere'
  BY <1>37 DEF Forget
<1>38. ASSUME NEW o \in Owners, Reset(o) PROVE FrozenWhere'
  BY <1>38 DEF Reset
<1>39. ASSUME NEW o \in Owners, ResetDiscards(o) PROVE FrozenWhere'
  BY <1>39 DEF ResetDiscards
<1>40. ASSUME NEW o \in Owners, ResetFails(o) PROVE FrozenWhere'
  BY <1>40 DEF ResetFails
<1>41. ASSUME NEW o \in Owners, Park(o) PROVE FrozenWhere'
  BY <1>41 DEF Park, Queue
<1>42. ASSUME NEW c \in Closers, PoolClose(c) PROVE FrozenWhere'
  BY <1>42 DEF PoolClose
<1>43. ASSUME NEW v \in VMs, GuestDies(v) PROVE FrozenWhere'
  BY <1>43 DEF GuestDies
<1>44. CASE UNCHANGED vars
  BY <1>44 DEF vars
<1> HIDE DEF ThreadsAssumption, Threads, Typed, TypeOK, HoldsWhere, Custody,
   SoleCustody, BoundIsRegistered, Registered, OwnerPC, WorkerPC, OwnerHolding,
   WorkerHolding, KillStage, Doom, AloneWhenDoomed, WorkersUndisturbed,
   AbortsAreLive, FrozenWhere, UsableIsPooled, LostStaysOut, Usable, threadVars,
   poolVars, claimVars, hookVars, guestVars, sessionVars, Goto, Step
<1> QED
  BY <1>1, <1>2, <1>3, <1>4, <1>5, <1>6, <1>7, <1>8, <1>9, <1>10, <1>11, <1>12,
     <1>13, <1>14, <1>15, <1>16, <1>17, <1>18, <1>19, <1>20, <1>21, <1>22,
     <1>23, <1>24, <1>25, <1>26, <1>27, <1>28, <1>29, <1>30, <1>31, <1>32,
     <1>33, <1>34, <1>35, <1>36, <1>37, <1>38, <1>39, <1>40, <1>41, <1>42,
     <1>43, <1>44 DEF Next, OwnerStep, WorkerStep, OwnerCall, Teardown

LEMMA UsableIsPooledStep == Typed /\ Custody /\ Doom /\ [Next]_vars => UsableIsPooled'
<1> SUFFICES ASSUME Typed, Custody, Doom, [Next]_vars PROVE UsableIsPooled'
  OBVIOUS
<1>1. ASSUME NEW t \in Threads, NEW v \in VMs,
            TeardownUnhook(t, v)
     PROVE  UsableIsPooled'
  <2>1. /\ UNCHANGED <<idle, hold, lost>> /\ pooled' = [pooled EXCEPT ![v] = FALSE]
        /\ kill[t][v] \in {"unhook", "abort"}
        /\ kill[t][v] = "abort" => sess'[v] # "up"
        /\ \A w \in VMs : Usable(w)' => Usable(w)
    BY <1>1, Stores DEF TeardownUnhook, Usable, poolVars, threadVars, poolVars, sessionVars, hookVars, Goto
  <2>2. Usable(v)' => v \notin idle /\ \A u \in Threads : hold[u] # v
    <3>1. CASE kill[t][v] = "unhook"
      BY <2>1, <3>1 DEF Doom, AloneWhenDoomed
    <3>2. CASE kill[t][v] = "abort"
      BY <1>1, <2>1, <3>2 DEF TeardownUnhook, Usable, Doom, AbortsAreLive
    <3> QED
      BY <2>1, <3>1, <3>2
  <2> QED
    BY <2>1, <2>2, Stores, Holders DEF Doom, UsableIsPooled
<1>2. ASSUME NEW o \in Owners, Rebind(o) PROVE UsableIsPooled'
  <2>1. /\ UNCHANGED <<hold, idle, pooled>> /\ \A v \in VMs : Usable(v)' <=> Usable(v)
    BY <1>2, RebindFinds
  <2> QED
    BY <2>1 DEF Doom, UsableIsPooled
<1> USE ThreadsAreApart DEF ThreadsAssumption, Threads, Typed, TypeOK,
   HoldsWhere, Custody, SoleCustody, BoundIsRegistered, Registered, OwnerPC,
   WorkerPC, OwnerHolding, WorkerHolding, KillStage, Doom, AloneWhenDoomed,
   WorkersUndisturbed, AbortsAreLive, FrozenWhere, UsableIsPooled, LostStaysOut,
   Usable, threadVars, poolVars, claimVars, hookVars, guestVars, sessionVars,
   Goto, Step
<1>3. ASSUME NEW t \in Threads, NEW v \in VMs,
            TeardownUnbind(t, v)
     PROVE  UsableIsPooled'
  BY <1>3 DEF TeardownUnbind
<1>4. ASSUME NEW t \in Threads, NEW v \in VMs,
            TeardownClose(t, v)
     PROVE  UsableIsPooled'
  BY <1>4 DEF TeardownClose
<1>5. ASSUME NEW t \in Threads, NEW v \in VMs,
            TeardownDone(t, v)
     PROVE  UsableIsPooled'
  BY <1>5 DEF TeardownDone, Answers
<1>6. ASSUME NEW w \in Workers,
            RefillCheck(w) \/ RefillDone(w) \/ SeedDone(w) \/ BootFails(w)
     PROVE  UsableIsPooled'
  BY <1>6 DEF RefillCheck, RefillDone, SeedDone, BootFails
<1>7. ASSUME NEW w \in Workers, RefillBoot(w) PROVE UsableIsPooled'
  BY <1>7 DEF RefillBoot, Booted, Referenced
<1>8. ASSUME NEW w \in Workers, RefillFreeze(w) PROVE UsableIsPooled'
  BY <1>8 DEF RefillFreeze, Answers
<1>9. ASSUME NEW w \in Workers, RefillPark(w) PROVE UsableIsPooled'
  BY <1>9 DEF RefillPark
<1>10. ASSUME NEW w \in Workers, SeedBoot(w) PROVE UsableIsPooled'
  BY <1>10 DEF SeedBoot, Booted, Referenced
<1>11. ASSUME NEW w \in Workers, SeedFreeze(w) PROVE UsableIsPooled'
  BY <1>11 DEF SeedFreeze, Answers
<1>12. ASSUME NEW w \in Workers, SeedPublish(w) PROVE UsableIsPooled'
  BY <1>12 DEF SeedPublish
<1>13. ASSUME NEW w \in Workers, FreezeFails(w) PROVE UsableIsPooled'
  BY <1>13 DEF FreezeFails, Answers
<1>14. ASSUME NEW o \in Owners,
            AcquireBegin(o) \/ Roomy(o) \/ Ping(o) \/ FreshFails(o)
     PROVE  UsableIsPooled'
  BY <1>14 DEF AcquireBegin, Roomy, Ping, Answers, FreshFails
<1>15. ASSUME NEW o \in Owners,
            Seed(o) \/ UseBegin(o) \/ UseEnd(o) \/ Reset(o)
     PROVE  UsableIsPooled'
  BY <1>15 DEF Seed, UseBegin, UseEnd, Answers, Reset
<1>16. ASSUME NEW o \in Owners, AcquireMisses(o) PROVE UsableIsPooled'
  BY <1>16 DEF AcquireMisses, Queue, Expired, LostBound
<1>17. ASSUME NEW o \in Owners, AcquireTakes(o) PROVE UsableIsPooled'
  BY <1>17 DEF AcquireTakes, Queue, Expired, Taken, LostBound
<1>18. ASSUME NEW o \in Owners, ReclaimIdle(o) PROVE UsableIsPooled'
  BY <1>18 DEF ReclaimIdle, IdleVictims, Hot
<1>19. ASSUME NEW o \in Owners, ReclaimBound(o) PROVE UsableIsPooled'
  BY <1>19 DEF ReclaimBound, QuietBound
<1>20. ASSUME NEW o \in Owners, Thaw(o) PROVE UsableIsPooled'
  BY <1>20 DEF Thaw
<1>21. ASSUME NEW o \in Owners, NotBack(o) PROVE UsableIsPooled'
  BY <1>21 DEF NotBack, Answers
<1>22. ASSUME NEW o \in Owners, Fresh(o) PROVE UsableIsPooled'
  BY <1>22 DEF Fresh, Booted, Referenced
<1>23. ASSUME NEW o \in Owners, Bind(o) PROVE UsableIsPooled'
  BY <1>23 DEF Bind
<1>24. ASSUME NEW o \in Owners, UseFails(o) PROVE UsableIsPooled'
  BY <1>24 DEF UseFails, Answers
<1>25. ASSUME NEW o \in Owners, Close(o) PROVE UsableIsPooled'
  BY <1>25 DEF Close, Stamps
<1>26. ASSUME NEW o \in Owners, CloseUnhooked(o) PROVE UsableIsPooled'
  BY <1>26 DEF CloseUnhooked, Stamps
<1>27. ASSUME NEW o \in Owners, Forget(o) PROVE UsableIsPooled'
  BY <1>27 DEF Forget
<1>28. ASSUME NEW o \in Owners, ResetDiscards(o) PROVE UsableIsPooled'
  BY <1>28 DEF ResetDiscards, Answers
<1>29. ASSUME NEW o \in Owners, ResetFails(o) PROVE UsableIsPooled'
  BY <1>29 DEF ResetFails, Answers
<1>30. ASSUME NEW o \in Owners, Park(o) PROVE UsableIsPooled'
  BY <1>30 DEF Park, Queue
<1>31. ASSUME NEW o \in Owners, NEW k \in Keys,
            Prewarm(o, k) \/ SeedCall(o, k)
     PROVE  UsableIsPooled'
  BY <1>31 DEF Prewarm, SeedCall
<1>32. ASSUME NEW c \in Closers, PoolClose(c) PROVE UsableIsPooled'
  BY <1>32 DEF PoolClose
<1>33. ASSUME NEW v \in VMs, GuestDies(v) PROVE UsableIsPooled'
  BY <1>33 DEF GuestDies
<1>34. CASE UNCHANGED vars
  BY <1>34 DEF vars
<1> HIDE DEF ThreadsAssumption, Threads, Typed, TypeOK, HoldsWhere, Custody,
   SoleCustody, BoundIsRegistered, Registered, OwnerPC, WorkerPC, OwnerHolding,
   WorkerHolding, KillStage, Doom, AloneWhenDoomed, WorkersUndisturbed,
   AbortsAreLive, FrozenWhere, UsableIsPooled, LostStaysOut, Usable, threadVars,
   poolVars, claimVars, hookVars, guestVars, sessionVars, Goto, Step
<1> QED
  BY <1>1, <1>2, <1>3, <1>4, <1>5, <1>6, <1>7, <1>8, <1>9, <1>10, <1>11, <1>12,
     <1>13, <1>14, <1>15, <1>16, <1>17, <1>18, <1>19, <1>20, <1>21, <1>22,
     <1>23, <1>24, <1>25, <1>26, <1>27, <1>28, <1>29, <1>30, <1>31, <1>32,
     <1>33, <1>34 DEF Next, OwnerStep, WorkerStep, OwnerCall, Teardown

LEMMA LostStaysOutStep == Typed /\ Custody /\ Doom /\ [Next]_vars => LostStaysOut'
<1> SUFFICES ASSUME Typed, Custody, Doom, [Next]_vars PROVE LostStaysOut'
  OBVIOUS
<1>1. ASSUME NEW w \in Workers, BootFails(w) PROVE LostStaysOut'
  <2>1. /\ hold[w] = None /\ UNCHANGED <<hold, bound, idle, sess, lost>>
        /\ \A u \in Threads : u # w => pc'[u] = pc[u]
    BY <1>1, Holders DEF BootFails, poolVars, sessionVars, hookVars, Goto, Typed, HoldsWhere, OwnerHolding, WorkerHolding
  <2> QED
    BY <2>1, Holders DEF Doom, LostStaysOut
<1>2. ASSUME NEW o \in Owners, Roomy(o) PROVE LostStaysOut'
  <2>1. pc[o] = "room" /\ UNCHANGED <<hold, bound, idle, sess, lost>>
    BY <1>2 DEF Roomy, poolVars, sessionVars, hookVars, Goto
  <2>2. \/ hold[o] = None /\ Started(o, "boot", want[o].key)
        \/ hold[o] # None /\ Started(o, "thaw", want[o].key)
    BY <1>2, <2>1, StarterInStarts DEF StarterIn, Typed, HoldsWhere
  <2>3. /\ (pc'[o] = "boot" /\ hold[o] = None) \/ pc'[o] = "thaw"
        /\ \A u \in Threads : u # o /\ hold[u] # None => pc'[u] = pc[u]
    BY <2>2, StartedKeeps DEF Started
  <2> QED
    BY <2>1, <2>3, Holders DEF Doom, LostStaysOut
<1>3. ASSUME NEW o \in Owners, Rebind(o) PROVE LostStaysOut'
  <2>1. /\ hold[o] \in VMs /\ pc[o] = "rebind" /\ bound' = bound \cup {hold[o]}
        /\ UNCHANGED <<hold, idle, sess>> /\ Started(o, "held", want[o].key)
        /\ \A v \in VMs : lost'[v] => lost[v]
    BY <1>3, RebindFinds
  <2>2. pc'[o] = "held" /\ \A u \in Threads : u # o /\ hold[u] # None => pc'[u] = pc[u]
    BY <2>1, StartedKeeps DEF Started
  <2>3. \A u \in Threads : hold[u] = hold[o] => u = o
    BY <2>1, Holders
  <2> QED
    BY <2>1, <2>2, <2>3, Holders DEF Doom, LostStaysOut
<1>4. ASSUME NEW o \in Owners, Seed(o) PROVE LostStaysOut'
  <2>1. pc[o] = "seed" /\ hold[o] \in VMs /\ UNCHANGED <<hold, bound, idle, sess, lost>>
    BY <1>4 DEF Seed, poolVars, sessionVars, hookVars, Goto, Typed, HoldsWhere, OwnerHolding, WorkerHolding
  <2>2. Started(o, "held", want[o].key)
    BY <1>4, <2>1, StarterInStarts DEF StarterIn, Typed, HoldsWhere
  <2>3. pc'[o] = "held" /\ \A u \in Threads : u # o /\ hold[u] # None => pc'[u] = pc[u]
    BY <2>2, StartedKeeps DEF Started
  <2> QED
    BY <2>1, <2>3, Holders DEF Doom, LostStaysOut
<1>5. ASSUME NEW o \in Owners, UseFails(o) PROVE LostStaysOut'
  <2>1. /\ hold[o] \in VMs /\ pc[o] = "busy" /\ pc' = [pc EXCEPT ![o] = "held"]
        /\ lost' = [lost EXCEPT ![hold[o]] = TRUE] /\ UNCHANGED <<hold, idle, sess>>
    BY <1>5 DEF UseFails, poolVars, sessionVars, hookVars, Goto, Typed, HoldsWhere, OwnerHolding, WorkerHolding
  <2>2. hold[o] \notin idle /\ \A u \in Threads : hold[u] = hold[o] => u = o
    BY <2>1, Holders
  <2>3. \A v \in VMs : lost'[v] = IF v = hold[o] THEN TRUE ELSE lost[v]
    BY <2>1, Stores
  <2>4. \A u \in Threads : pc'[u] = IF u = o THEN "held" ELSE pc[u]
    BY <2>1, Holders
  <2> QED
    BY <2>1, <2>2, <2>3, <2>4 DEF Doom, LostStaysOut
<1>6. ASSUME NEW o \in Owners, Park(o) PROVE LostStaysOut'
  <2>1. /\ idle' \subseteq idle \cup {hold[o]} /\ UNCHANGED <<sess, lost>>
        /\ hold' = [hold EXCEPT ![o] = None] /\ hold[o] \in VMs /\ pc[o] = "park"
        /\ pc' = [pc EXCEPT ![o] = "out"]
    BY <1>6, ParkCuts DEF Park, poolVars, sessionVars, hookVars, Goto, Typed, HoldsWhere, OwnerHolding, WorkerHolding
  <2> QED
    BY <2>1, Holders DEF Doom, LostStaysOut
<1>7. ASSUME NEW o \in Owners, NEW k \in Keys, Prewarm(o, k) PROVE LostStaysOut'
  <2>1. /\ hold[o] = None /\ UNCHANGED <<hold, bound, idle, sess, lost>>
        /\ Started(o, "out", k)
    BY <1>7, StarterStarts DEF Starter, Prewarm, Typed, HoldsWhere, OwnerHolding, poolVars, sessionVars, hookVars, Goto
  <2>2. pc'[o] = "out" /\ \A u \in Threads : u # o /\ hold[u] # None => pc'[u] = pc[u]
    BY <2>1, StartedKeeps DEF Started
  <2> QED
    BY <2>1, <2>2, Holders DEF Doom, LostStaysOut
<1>8. ASSUME NEW o \in Owners, NEW k \in Keys,
            SeedCall(o, k)
     PROVE  LostStaysOut'
  <2>1. /\ hold[o] = None /\ UNCHANGED <<hold, bound, idle, sess, lost>>
        /\ Started(o, "out", k)
    BY <1>8, StarterStarts DEF Starter, SeedCall, Typed, HoldsWhere, OwnerHolding, poolVars, sessionVars, hookVars, Goto
  <2>2. pc'[o] = "out" /\ \A u \in Threads : u # o /\ hold[u] # None => pc'[u] = pc[u]
    BY <2>1, StartedKeeps DEF Started
  <2> QED
    BY <2>1, <2>2, Holders DEF Doom, LostStaysOut
<1> USE ThreadsAreApart DEF ThreadsAssumption, Threads, Typed, TypeOK,
   HoldsWhere, Custody, SoleCustody, BoundIsRegistered, Registered, OwnerPC,
   WorkerPC, OwnerHolding, WorkerHolding, KillStage, Doom, AloneWhenDoomed,
   WorkersUndisturbed, AbortsAreLive, FrozenWhere, UsableIsPooled, LostStaysOut,
   Usable, threadVars, poolVars, claimVars, hookVars, guestVars, sessionVars,
   Goto, Step
<1>9. ASSUME NEW t \in Threads, NEW v \in VMs,
            TeardownUnbind(t, v)
     PROVE  LostStaysOut'
  BY <1>9 DEF TeardownUnbind
<1>10. ASSUME NEW t \in Threads, NEW v \in VMs,
            TeardownUnhook(t, v)
     PROVE  LostStaysOut'
  BY <1>10 DEF TeardownUnhook
<1>11. ASSUME NEW t \in Threads, NEW v \in VMs,
            TeardownClose(t, v)
     PROVE  LostStaysOut'
  BY <1>11 DEF TeardownClose
<1>12. ASSUME NEW t \in Threads, NEW v \in VMs,
            TeardownDone(t, v)
     PROVE  LostStaysOut'
  BY <1>12 DEF TeardownDone, Answers
<1>13. ASSUME NEW w \in Workers, RefillCheck(w) PROVE LostStaysOut'
  BY <1>13 DEF RefillCheck
<1>14. ASSUME NEW w \in Workers, RefillBoot(w) PROVE LostStaysOut'
  BY <1>14 DEF RefillBoot, Booted, Referenced
<1>15. ASSUME NEW w \in Workers, RefillFreeze(w) PROVE LostStaysOut'
  BY <1>15 DEF RefillFreeze, Answers
<1>16. ASSUME NEW w \in Workers, RefillPark(w) PROVE LostStaysOut'
  BY <1>16 DEF RefillPark
<1>17. ASSUME NEW w \in Workers, RefillDone(w) PROVE LostStaysOut'
  BY <1>17 DEF RefillDone
<1>18. ASSUME NEW w \in Workers, SeedBoot(w) PROVE LostStaysOut'
  BY <1>18 DEF SeedBoot, Booted, Referenced
<1>19. ASSUME NEW w \in Workers, SeedFreeze(w) PROVE LostStaysOut'
  BY <1>19 DEF SeedFreeze, Answers
<1>20. ASSUME NEW w \in Workers, SeedPublish(w) PROVE LostStaysOut'
  BY <1>20 DEF SeedPublish
<1>21. ASSUME NEW w \in Workers, SeedDone(w) PROVE LostStaysOut'
  BY <1>21 DEF SeedDone
<1>22. ASSUME NEW w \in Workers, FreezeFails(w) PROVE LostStaysOut'
  BY <1>22 DEF FreezeFails, Answers
<1>23. ASSUME NEW o \in Owners, AcquireBegin(o) PROVE LostStaysOut'
  BY <1>23 DEF AcquireBegin
<1>24. ASSUME NEW o \in Owners, AcquireMisses(o) PROVE LostStaysOut'
  BY <1>24 DEF AcquireMisses, Queue, Expired, LostBound
<1>25. ASSUME NEW o \in Owners, AcquireTakes(o) PROVE LostStaysOut'
  BY <1>25 DEF AcquireTakes, Queue, Expired, Taken, LostBound
<1>26. ASSUME NEW o \in Owners, ReclaimIdle(o) PROVE LostStaysOut'
  BY <1>26 DEF ReclaimIdle, IdleVictims, Hot
<1>27. ASSUME NEW o \in Owners, ReclaimBound(o) PROVE LostStaysOut'
  BY <1>27 DEF ReclaimBound, QuietBound
<1>28. ASSUME NEW o \in Owners, Ping(o) PROVE LostStaysOut'
  BY <1>28 DEF Ping, Answers
<1>29. ASSUME NEW o \in Owners, Thaw(o) PROVE LostStaysOut'
  BY <1>29 DEF Thaw
<1>30. ASSUME NEW o \in Owners, NotBack(o) PROVE LostStaysOut'
  BY <1>30 DEF NotBack, Answers
<1>31. ASSUME NEW o \in Owners, Fresh(o) PROVE LostStaysOut'
  BY <1>31 DEF Fresh, Booted, Referenced
<1>32. ASSUME NEW o \in Owners, FreshFails(o) PROVE LostStaysOut'
  BY <1>32 DEF FreshFails
<1>33. ASSUME NEW o \in Owners, Bind(o) PROVE LostStaysOut'
  BY <1>33 DEF Bind
<1>34. ASSUME NEW o \in Owners, UseBegin(o) PROVE LostStaysOut'
  BY <1>34 DEF UseBegin
<1>35. ASSUME NEW o \in Owners, UseEnd(o) PROVE LostStaysOut'
  BY <1>35 DEF UseEnd, Answers
<1>36. ASSUME NEW o \in Owners, Close(o) PROVE LostStaysOut'
  BY <1>36 DEF Close, Stamps
<1>37. ASSUME NEW o \in Owners, CloseUnhooked(o) PROVE LostStaysOut'
  BY <1>37 DEF CloseUnhooked, Stamps
<1>38. ASSUME NEW o \in Owners, Forget(o) PROVE LostStaysOut'
  BY <1>38 DEF Forget
<1>39. ASSUME NEW o \in Owners, Reset(o) PROVE LostStaysOut'
  BY <1>39 DEF Reset, Answers
<1>40. ASSUME NEW o \in Owners, ResetDiscards(o) PROVE LostStaysOut'
  BY <1>40 DEF ResetDiscards, Answers
<1>41. ASSUME NEW o \in Owners, ResetFails(o) PROVE LostStaysOut'
  BY <1>41 DEF ResetFails, Answers
<1>42. ASSUME NEW c \in Closers, PoolClose(c) PROVE LostStaysOut'
  BY <1>42 DEF PoolClose
<1>43. ASSUME NEW v \in VMs, GuestDies(v) PROVE LostStaysOut'
  BY <1>43 DEF GuestDies
<1>44. CASE UNCHANGED vars
  BY <1>44 DEF vars
<1> HIDE DEF ThreadsAssumption, Threads, Typed, TypeOK, HoldsWhere, Custody,
   SoleCustody, BoundIsRegistered, Registered, OwnerPC, WorkerPC, OwnerHolding,
   WorkerHolding, KillStage, Doom, AloneWhenDoomed, WorkersUndisturbed,
   AbortsAreLive, FrozenWhere, UsableIsPooled, LostStaysOut, Usable, threadVars,
   poolVars, claimVars, hookVars, guestVars, sessionVars, Goto, Step
<1> QED
  BY <1>1, <1>2, <1>3, <1>4, <1>5, <1>6, <1>7, <1>8, <1>9, <1>10, <1>11, <1>12,
     <1>13, <1>14, <1>15, <1>16, <1>17, <1>18, <1>19, <1>20, <1>21, <1>22,
     <1>23, <1>24, <1>25, <1>26, <1>27, <1>28, <1>29, <1>30, <1>31, <1>32,
     <1>33, <1>34, <1>35, <1>36, <1>37, <1>38, <1>39, <1>40, <1>41, <1>42,
     <1>43, <1>44 DEF Next, OwnerStep, WorkerStep, OwnerCall, Teardown

LEMMA DoomInit == Init => Doom
BY ThreadsAreApart
   DEF Init, Doom, AloneWhenDoomed, WorkersUndisturbed, AbortsAreLive, FrozenWhere,
       UsableIsPooled, LostStaysOut, Usable, Threads, ThreadsAssumption

LEMMA DoomStep == Typed /\ Custody /\ Doom /\ [Next]_vars => Doom'
BY AloneWhenDoomedStep, WorkersUndisturbedStep, AbortsAreLiveStep, FrozenWhereStep,
   UsableIsPooledStep, LostStaysOutStep DEF Doom

\* A thread inside a request has the VM in hand, or tears it down without an abort.
LEMMA OneSpeaker ==
  ASSUME Typed, Custody, Doom, NEW v \in VMs, Answers(v), NEW t \in Threads,
         NEW u \in Threads, InRequest(t, v), InRequest(u, v)
  PROVE  t = u
<1>1. Usable(v) /\ v # None
  BY Holders DEF Answers, Usable
<1>2. ASSUME NEW x \in Threads, kill[x][v] = "wait", NEW y \in Threads, InRequest(y, v)
      PROVE  x = y
  BY <1>1, <1>2 DEF InRequest, Doom, AloneWhenDoomed
<1>3. CASE kill[t][v] = "wait" \/ kill[u][v] = "wait"
  BY <1>2, <1>3
<1>4. CASE hold[t] = v /\ hold[u] = v
  BY <1>1, <1>4, Holders
<1> QED
  BY <1>3, <1>4 DEF InRequest

LEMMA WireInvariant == Spec => [](Typed /\ Custody /\ Doom)
<1>1. Init => Typed /\ Custody /\ Doom
  BY TypedInit, CustodyInit, DoomInit
<1>2. Typed /\ Custody /\ Doom /\ [Next]_vars => Typed' /\ Custody' /\ Doom'
  BY TypedStep, CustodyStep, DoomStep
<1> QED
  BY <1>1, <1>2, PTL DEF Spec

\* The wire of a guest that answers has one speaker, however _teardown, _make_room,
\* release and VmPool.close() overlap: a reclaimer shuts the channel before its own
\* request, and a teardown that does not has the VM to itself.
THEOREM WireCorrect == Spec => []NoCrossTalk
<1>1. Typed /\ Custody /\ Doom => NoCrossTalk
  BY OneSpeaker DEF NoCrossTalk
<1> QED
  BY <1>1, WireInvariant, PTL

\* The latch that _request sets outlives every release, park and rebind, for as long
\* as the guest behind it could answer.
THEOREM LostCorrect == Spec => []LostStaysOut
<1>1. Typed /\ Custody /\ Doom => LostStaysOut
  BY DEF Doom
<1> QED
  BY <1>1, WireInvariant, PTL
=============================================================================
