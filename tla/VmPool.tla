------------------------------- MODULE VmPool -------------------------------
(***************************************************************************)
(* dud.backends.pool.VmPool: idle microVMs kept for reuse, handed from one *)
(* session owner to the next.                                              *)
(*                                                                         *)
(* Every lock section of the pool is one action, and so is every request   *)
(* that can fail; between them any other thread may run.  The threads are  *)
(* the owners (acquire, use, close), the daemon threads that refill a warm *)
(* level or build a golden snapshot, and whoever calls VmPool.close().     *)
(*                                                                         *)
(* A VM here is a session object (VmSession) together with its guest.  An  *)
(* object nobody refers to is garbage, and its identity may be used again  *)
(* for the next boot.                                                      *)
(***************************************************************************)
EXTENDS Naturals, FiniteSets

CONSTANTS
  Owners,       \* threads that acquire, use and close sessions
  Workers,      \* daemon threads: refills and background seeds
  Closers,      \* threads that call VmPool.close()
  VMs,          \* identities of session objects
  Keys,         \* boot fingerprints
  States,       \* content identities a release may stamp (park_state)
  None,         \* Python's None
  Cloning,      \* the rung has freeze(): firecracker, not vfkit
  MaxTotal,     \* max_total, or None
  MaxIdle,      \* max_idle
  MaxAffinity,  \* max_affinity
  AutoSeed,     \* auto_seed
  WarmLevels,   \* the levels prewarm() may be asked for
  Ttl,          \* parked VMs may grow older than the ttl
  Faults        \* guests may die or answer late, boots and thaws may fail

ThreadsAssumption ==
  /\ Owners \cap Workers = {}
  /\ Closers \cap (Owners \cup Workers) = {}
  /\ None \notin Owners \cup VMs \cup States

ParametersAssumption ==
  /\ {Cloning, AutoSeed, Ttl, Faults} \subseteq BOOLEAN
  /\ MaxTotal = None \/ MaxTotal \in Nat
  /\ {MaxIdle, MaxAffinity} \subseteq Nat
  /\ WarmLevels \subseteq Nat

ASSUME ThreadsAreApart == ThreadsAssumption
ASSUME ParametersAreTyped == ParametersAssumption

Threads == Owners \cup Workers \cup Closers

VARIABLES
  pc,       \* where each thread stands
  hold,     \* the session each thread works with, if any
  want,     \* the acquire each owner is in: its key and its state tag
  job,      \* the key each worker was started for
  kill,     \* how far each thread is with tearing down each VM
  idle,     \* _idle: the parked VMs
  newer,    \* the order inside _idle: <<v, w>> when v was parked after w
  bound,    \* _bound
  filling,  \* _filling
  seeding,  \* _seeding
  target,   \* _targets: the warm level of each key, 0 when it has none
  sess,     \* the guest: up, down (its channel is dead), frozen, or gone
  pooled,   \* session._pool is not None
  closed,   \* session._closed
  lost,     \* session._lost is set
  key,      \* the fingerprint of session._pool_kwargs
  tag,      \* the tag a VM is released and parked under
  env,      \* an owner's processes and environment are still in the guest
  tree,     \* what the guest's workspace holds
  bind,     \* whose cache, host objects and allowlist answer the guest
  golden    \* the keys with a usable golden snapshot

threadVars  == <<pc, hold, want, job>>
poolVars    == <<idle, newer, bound>>
claimVars   == <<filling, seeding, target>>
hookVars    == <<pooled, closed, key, tag, bind>>
guestVars   == <<env, tree>>
sessionVars == <<sess, lost, hookVars, guestVars>>
vars == <<threadVars, kill, poolVars, claimVars, sessionVars, golden>>

OwnerPC  == {"out", "acquire", "room", "ping", "thaw", "rebind", "boot",
             "bind", "bindcold", "seed", "held", "busy", "reset", "park"}
WorkerPC == {"out", "check", "fboot", "ffreeze", "fpark", "fdone",
             "sboot", "sfreeze", "spublish", "sdone"}
SeedPC == {"sboot", "sfreeze", "spublish", "sdone"}

(* "queued" and "reclaimed" wait for _teardown, the latter with had_owner; *)
(* "unhook" and "abort" have left _bound; "close" is about to call         *)
(* session.close(), and "wait" is inside it.                               *)
KillStage == {"no", "queued", "reclaimed", "unhook", "abort", "close", "wait"}

Trees == States \cup {"wiped", "other"}

Init ==
  /\ pc = [t \in Threads |-> "out"]
  /\ hold = [t \in Threads |-> None]
  /\ want = [o \in Owners |-> [key |-> None, state |-> None]]
  /\ job = [w \in Workers |-> None]
  /\ kill = [t \in Threads |-> [v \in VMs |-> "no"]]
  /\ idle = {} /\ newer = {} /\ bound = {}
  /\ filling = {} /\ seeding = {}
  /\ target = [k \in Keys |-> 0]
  /\ sess = [v \in VMs |-> "gone"]
  /\ pooled = [v \in VMs |-> FALSE]
  /\ closed = [v \in VMs |-> FALSE]
  /\ lost = [v \in VMs |-> FALSE]
  /\ key = [v \in VMs |-> None]
  /\ tag = [v \in VMs |-> None]
  /\ env = [v \in VMs |-> FALSE]
  /\ tree = [v \in VMs |-> "wiped"]
  /\ bind = [v \in VMs |-> None]
  /\ golden = {}

-----------------------------------------------------------------------------
(* Parked VMs, capacity, and who refers to a session.                      *)

Bucket(k) == {v \in idle : key[v] = k}

\* Where v stands in its bucket of S, the newest first.
Position(S, v) == Cardinality({w \in S : key[w] = key[v] /\ <<w, v>> \in newer})

\* A cutoff in time leaves behind, with every VM, all that were parked earlier.
Cutoffs == {old \in SUBSET idle :
              /\ Ttl \/ old = {}
              /\ \A v \in old, w \in idle : <<v, w>> \in newer => w \in old}

\* Mutant: the ttl spares no warm level.
ExpiredNoFloor(old) == old

\* _expire_locked: a targeted key keeps its newest target[k] whatever their age.
Expired(old) == {v \in old : Position(idle, v) >= target[key[v]]}

Unordered(S) == {p \in newer : p[1] \notin S /\ p[2] \notin S}

LostBound == {v \in bound : lost[v]}

Hot == {v \in idle : sess[v] # "frozen"}

\* Mutant: a seed counts only once its VM is bound or parked.
LiveNoSeeds == Cardinality(bound) + Cardinality(Hot)

\* _live_locked and _at_capacity_locked.
Live == Cardinality(bound) + Cardinality(seeding) + Cardinality(Hot)
AtCapacity == MaxTotal # None /\ Live >= MaxTotal

\* The count _refill makes for itself before it boots.
RefillAtCapacity ==
  MaxTotal # None /\ Cardinality(bound) + Cardinality(Hot) >= MaxTotal

Referenced(v) ==
  \/ v \in idle \cup bound
  \/ \E t \in Threads : hold[t] = v \/ kill[t][v] # "no"

\* A thread goes on with its own work once its teardowns are done.
Clear(t) == \A v \in VMs : kill[t][v] = "no"

\* Thread t is inside Channel.request on v (session._in_flight counts it).
InRequest(t, v) ==
  \/ hold[t] = v /\ Clear(t) /\ pc[t] \in {"ping", "busy", "reset"}
  \/ kill[t][v] = "wait"

\* What _request lets through: not a lost session, nor one whose wire is dead.
Answers(v) == sess[v] = "up" /\ ~lost[v]

Queue(t, S) == [kill EXCEPT ![t] = [v \in VMs |-> IF v \in S THEN "queued" ELSE @[v]]]

\* VmSession.__init__: a new object, its own fields set, its guest serving.
Booted(v, k, o) ==
  /\ ~Referenced(v)
  /\ sess' = [sess EXCEPT ![v] = "up"]
  /\ closed' = [closed EXCEPT ![v] = FALSE]
  /\ lost' = [lost EXCEPT ![v] = FALSE]
  /\ key' = [key EXCEPT ![v] = k]
  /\ tag' = [tag EXCEPT ![v] = None]
  /\ env' = [env EXCEPT ![v] = FALSE]
  /\ tree' = [tree EXCEPT ![v] = "wiped"]
  /\ bind' = [bind EXCEPT ![v] = o]

-----------------------------------------------------------------------------
(* VmPool._teardown, run by any thread for the VMs it has picked.          *)

Between(t) == \A v \in VMs : kill[t][v] \in {"no", "queued", "reclaimed"}

Step(t, v, stage) == kill' = [kill EXCEPT ![t][v] = stage]

\* Mutant: had_owner only inferred, after _make_room has dropped the victim.
TeardownUnbindInferred(t, v) ==
  /\ Between(t)
  /\ kill[t][v] \in {"queued", "reclaimed"}
  /\ Step(t, v, IF v \in bound THEN "abort" ELSE "unhook")
  /\ bound' = bound \ {v}
  /\ UNCHANGED <<threadVars, idle, newer, claimVars, sessionVars, golden>>

\* The lock section: an owner is inferred from _bound, or told by the caller.
TeardownUnbind(t, v) ==
  /\ Between(t)
  /\ kill[t][v] \in {"queued", "reclaimed"}
  /\ Step(t, v, IF v \in bound \/ kill[t][v] = "reclaimed" THEN "abort" ELSE "unhook")
  /\ bound' = bound \ {v}
  /\ UNCHANGED <<threadVars, idle, newer, claimVars, sessionVars, golden>>

\* Mutant: the latch that the park's own close() set stays.
TeardownUnhookLatched(t, v) ==
  /\ kill[t][v] \in {"unhook", "abort"}
  /\ sess' = IF kill[t][v] = "abort" /\ sess[v] = "up"
             THEN [sess EXCEPT ![v] = "down"] ELSE sess
  /\ pooled' = [pooled EXCEPT ![v] = FALSE]
  /\ Step(t, v, "close")
  /\ UNCHANGED <<threadVars, poolVars, claimVars, lost, closed, key, tag, bind,
                 guestVars, golden>>

\* _abort_channel where there was an owner, then the pool hook and the latch.
TeardownUnhook(t, v) ==
  /\ kill[t][v] \in {"unhook", "abort"}
  /\ sess' = IF kill[t][v] = "abort" /\ sess[v] = "up"
             THEN [sess EXCEPT ![v] = "down"] ELSE sess
  /\ pooled' = [pooled EXCEPT ![v] = FALSE]
  /\ closed' = [closed EXCEPT ![v] = FALSE]
  /\ Step(t, v, "close")
  /\ UNCHANGED <<threadVars, poolVars, claimVars, lost, key, tag, bind,
                 guestVars, golden>>

\* session.close(), with no pool by now: nothing if it was closed meanwhile, the
\* files of a frozen park, or a shutdown request and a wait for the VMM.
TeardownClose(t, v) ==
  /\ kill[t][v] = "close"
  /\ closed' = [closed EXCEPT ![v] = TRUE]
  /\ Step(t, v, IF closed[v] \/ sess[v] = "frozen" THEN "no" ELSE "wait")
  /\ sess' = IF sess[v] = "frozen" /\ ~closed[v]
             THEN [sess EXCEPT ![v] = "gone"] ELSE sess
  /\ UNCHANGED <<threadVars, poolVars, claimVars, lost, pooled, key, tag, bind,
                 guestVars, golden>>

\* The VMM is gone whether or not the guest answered the shutdown.
TeardownDone(t, v) ==
  /\ kill[t][v] = "wait"
  /\ sess' = [sess EXCEPT ![v] = "gone"]
  /\ \/ Answers(v) /\ UNCHANGED lost
     \/ (~Answers(v) \/ Faults) /\ lost' = [lost EXCEPT ![v] = TRUE]
  /\ Step(t, v, "no")
  /\ UNCHANGED <<threadVars, poolVars, claimVars, hookVars, guestVars, golden>>

Teardown(t, v) ==
  \/ TeardownUnbind(t, v)
  \/ TeardownUnhook(t, v)
  \/ TeardownClose(t, v)
  \/ TeardownDone(t, v)

-----------------------------------------------------------------------------
(* Background work: claims, refills, seeds.                                *)

Goto(t, label) == pc' = [pc EXCEPT ![t] = label]

\* _maybe_refill, run by thread t on its way to label: one refill per key.
MaybeRefill(t, label, k, level) ==
  IF Cardinality(Bucket(k)) < level /\ k \notin filling
  THEN \E w \in Workers \ {t} :
         /\ pc[w] = "out" /\ Clear(w)
         /\ pc' = [pc EXCEPT ![t] = label, ![w] = "check"]
         /\ job' = [job EXCEPT ![w] = k]
         /\ filling' = filling \cup {k}
  ELSE Goto(t, label) /\ UNCHANGED <<job, filling>>

\* prewarm(n): a new target, and a refill if the bucket is below it.
Prewarm(o, k) ==
  /\ pc[o] = "out" /\ Clear(o)
  /\ \E n \in WarmLevels \ {target[k]} :
       target' = [target EXCEPT ![k] = n] /\ MaybeRefill(o, "out", k, n)
  /\ UNCHANGED <<hold, want, kill, poolVars, seeding, sessionVars, golden>>

\* _refill, top of the loop.
RefillCheck(w) ==
  /\ pc[w] = "check"
  /\ Goto(w, IF Cardinality(Bucket(job[w])) >= target[job[w]] \/ RefillAtCapacity
             THEN "fdone" ELSE "fboot")
  /\ UNCHANGED <<hold, want, job, kill, poolVars, claimVars, sessionVars, golden>>

RefillBoot(w) ==
  /\ pc[w] = "fboot"
  /\ \E v \in VMs :
       /\ Booted(v, job[w], None)
       /\ pooled' = [pooled EXCEPT ![v] = FALSE]
       /\ hold' = [hold EXCEPT ![w] = v]
  /\ Goto(w, IF Cloning THEN "ffreeze" ELSE "fpark")
  /\ UNCHANGED <<want, job, kill, poolVars, claimVars, golden>>

\* Mutant: a boot that fails leaves without the finally clause.
BootFailsNoFinally(w) ==
  /\ Faults
  /\ pc[w] \in {"fboot", "sboot"}
  /\ Goto(w, "out")
  /\ UNCHANGED <<hold, want, job, kill, poolVars, claimVars, sessionVars, golden>>

\* No kernel, no KVM: refill and seed give up, through their finally clause.
BootFails(w) ==
  /\ Faults
  /\ \/ pc[w] = "fboot" /\ Goto(w, "fdone")
     \/ pc[w] = "sboot" /\ Goto(w, "sdone")
  /\ UNCHANGED <<hold, want, job, kill, poolVars, claimVars, sessionVars, golden>>

\* Freeze, then leave the snapshot behind as the golden one (best effort).
RefillFreeze(w) ==
  /\ pc[w] = "ffreeze"
  /\ Answers(hold[w])
  /\ sess' = [sess EXCEPT ![hold[w]] = "frozen"]
  /\ golden' \in {golden \cup {job[w]}} \cup (IF Faults THEN {golden} ELSE {})
  /\ Goto(w, "fpark")
  /\ UNCHANGED <<hold, want, job, kill, poolVars, claimVars, lost, hookVars, guestVars>>

\* A VM that will not freeze is given up with close(): it has no pool.
FreezeFails(w) ==
  /\ \/ pc[w] = "ffreeze" /\ Goto(w, "fdone")
     \/ pc[w] = "sfreeze" /\ Goto(w, "sdone")
  /\ ~Answers(hold[w]) \/ Faults
  /\ closed' = [closed EXCEPT ![hold[w]] = TRUE]
  /\ Step(w, hold[w], "wait")
  /\ hold' = [hold EXCEPT ![w] = None]
  /\ UNCHANGED <<want, job, poolVars, claimVars, sess, lost, pooled, key, tag, bind,
                 guestVars, golden>>

RefillPark(w) ==
  /\ pc[w] = "fpark"
  /\ pooled' = [pooled EXCEPT ![hold[w]] = TRUE]
  /\ idle' = idle \cup {hold[w]}
  /\ newer' = newer \cup ({hold[w]} \X idle)
  /\ hold' = [hold EXCEPT ![w] = None]
  /\ Goto(w, "check")
  /\ UNCHANGED <<want, job, kill, bound, claimVars, sess, lost, closed, key,
                 tag, bind, guestVars, golden>>

\* The finally clause.
RefillDone(w) ==
  /\ pc[w] = "fdone" /\ Clear(w)
  /\ filling' = filling \ {job[w]}
  /\ Goto(w, "out")
  /\ UNCHANGED <<hold, want, job, kill, poolVars, seeding, target, sessionVars,
                 golden>>

\* seed(), run by owner t on its way to label: the slot is claimed, under the
\* cap and once per key, before the VM that fills it exists.
SeedStart(t, label, k) ==
  IF k \notin golden /\ k \notin seeding /\ ~AtCapacity
  THEN \E w \in Workers \ {t} :
         /\ pc[w] = "out" /\ Clear(w)
         /\ pc' = [pc EXCEPT ![t] = label, ![w] = "sboot"]
         /\ job' = [job EXCEPT ![w] = k]
         /\ seeding' = seeding \cup {k}
  ELSE Goto(t, label) /\ UNCHANGED <<job, seeding>>

SeedBoot(w) ==
  /\ pc[w] = "sboot"
  /\ \E v \in VMs :
       /\ Booted(v, job[w], None)
       /\ pooled' = [pooled EXCEPT ![v] = FALSE]
       /\ hold' = [hold EXCEPT ![w] = v]
  /\ Goto(w, "sfreeze")
  /\ UNCHANGED <<want, job, kill, poolVars, claimVars, golden>>

SeedFreeze(w) ==
  /\ pc[w] = "sfreeze"
  /\ Answers(hold[w])
  /\ sess' = [sess EXCEPT ![hold[w]] = "frozen"]
  /\ Goto(w, "spublish")
  /\ UNCHANGED <<hold, want, job, kill, poolVars, claimVars, lost, hookVars, guestVars,
                 golden>>

\* _seed_golden, then close(): disposal of a frozen VM removes its rundir.
SeedPublish(w) ==
  /\ pc[w] = "spublish"
  /\ golden' \in {golden \cup {job[w]}} \cup (IF Faults THEN {golden} ELSE {})
  /\ sess' = [sess EXCEPT ![hold[w]] = "gone"]
  /\ closed' = [closed EXCEPT ![hold[w]] = TRUE]
  /\ hold' = [hold EXCEPT ![w] = None]
  /\ Goto(w, "sdone")
  /\ UNCHANGED <<want, job, kill, poolVars, claimVars, lost, pooled, key, tag,
                 bind, guestVars>>

\* Mutant: no finally clause releases the slot.
SeedDoneKeepsSlot(w) ==
  /\ pc[w] = "sdone" /\ Clear(w)
  /\ Goto(w, "out")
  /\ UNCHANGED <<hold, want, job, kill, poolVars, claimVars, sessionVars, golden>>

SeedDone(w) ==
  /\ pc[w] = "sdone" /\ Clear(w)
  /\ seeding' = seeding \ {job[w]}
  /\ Goto(w, "out")
  /\ UNCHANGED <<hold, want, job, kill, poolVars, filling, target, sessionVars,
                 golden>>

-----------------------------------------------------------------------------
(* acquire().                                                              *)

AcquireBegin(o) ==
  /\ pc[o] = "out" /\ Clear(o)
  /\ \E k \in Keys, s \in States \cup {None} :
       want' = [want EXCEPT ![o] = [key |-> k, state |-> s]]
  /\ Goto(o, "acquire")
  /\ UNCHANGED <<hold, job, kill, poolVars, claimVars, sessionVars, golden>>

\* The parked VM acquire takes from S: the newest with the tag, else the newest.
Taken(o, S) ==
  LET bucket == {v \in S : key[v] = want[o].key}
      tagged == {v \in bucket : want[o].state # None /\ tag[v] = want[o].state}
      from   == IF tagged # {} THEN tagged ELSE bucket
  IN  {v \in from : \A w \in from : <<w, v>> \notin newer}

\* The lock section at the top of the loop: expire, reap, and take a parked VM.
AcquireMisses(o) ==
  /\ pc[o] = "acquire" /\ Clear(o)
  /\ \E old \in Cutoffs :
       /\ Taken(o, idle \ Expired(old)) = {}
       /\ kill' = Queue(o, Expired(old) \cup LostBound)
       /\ idle' = idle \ Expired(old)
       /\ newer' = Unordered(Expired(old))
  /\ bound' = bound \ LostBound
  /\ Goto(o, "room")
  /\ UNCHANGED <<hold, want, job, claimVars, sessionVars, golden>>

\* Mutant: the parked VM is looked up, not popped.
AcquirePeeks(o) ==
  /\ pc[o] = "acquire" /\ Clear(o)
  /\ \E old \in Cutoffs : \E v \in Taken(o, idle \ Expired(old)) :
       /\ kill' = Queue(o, Expired(old) \cup LostBound)
       /\ idle' = idle \ Expired(old)
       /\ newer' = Unordered(Expired(old))
       /\ hold' = [hold EXCEPT ![o] = v]
       /\ Goto(o, IF sess[v] = "frozen" THEN "room" ELSE "ping")
  /\ bound' = bound \ LostBound
  /\ UNCHANGED <<want, job, claimVars, sessionVars, golden>>

AcquireTakes(o) ==
  /\ pc[o] = "acquire" /\ Clear(o)
  /\ \E old \in Cutoffs : \E v \in Taken(o, idle \ Expired(old)) :
       /\ kill' = Queue(o, Expired(old) \cup LostBound)
       /\ idle' = (idle \ Expired(old)) \ {v}
       /\ newer' = Unordered(Expired(old) \cup {v})
       /\ hold' = [hold EXCEPT ![o] = v]
       /\ Goto(o, IF sess[v] = "frozen" THEN "room" ELSE "ping")
  /\ bound' = bound \ LostBound
  /\ UNCHANGED <<want, job, claimVars, sessionVars, golden>>

\* _make_room's victims among the parked: beyond the warm floor, running, and
\* parked before any other such VM.
IdleVictims ==
  LET spare == {v \in Hot : Position(idle, v) >= target[key[v]]}
  IN  {v \in spare : \A w \in spare : <<v, w>> \notin newer}

\* Bound VMs not mid-request.  The code takes the least recently used.
QuietBound == {v \in bound : \A t \in Threads : ~InRequest(t, v)}

\* One turn of _make_room's loop that finds a victim: a parked VM if there is one,
\* else a bound one, whose owner will find its session lost.
ReclaimIdle(o) ==
  /\ pc[o] = "room" /\ Clear(o)
  /\ AtCapacity
  /\ \E v \in IdleVictims :
       /\ idle' = idle \ {v} /\ newer' = Unordered({v})
       /\ Step(o, v, "queued")
  /\ UNCHANGED <<threadVars, bound, claimVars, sessionVars, golden>>

ReclaimBound(o) ==
  /\ pc[o] = "room" /\ Clear(o)
  /\ AtCapacity /\ IdleVictims = {}
  /\ \E v \in QuietBound :
       /\ bound' = bound \ {v}
       /\ Step(o, v, "reclaimed")
  /\ UNCHANGED <<threadVars, idle, newer, claimVars, sessionVars, golden>>

\* _make_room returns: below the cap, or every VM is mid-request.
Roomy(o) ==
  /\ pc[o] = "room" /\ Clear(o)
  /\ AtCapacity => IdleVictims \cup QuietBound = {}
  /\ IF hold[o] = None
     THEN MaybeRefill(o, "boot", want[o].key, target[want[o].key])
     ELSE Goto(o, "thaw") /\ UNCHANGED <<job, filling>>
  /\ UNCHANGED <<hold, want, kill, poolVars, seeding, target, sessionVars, golden>>

Ping(o) ==
  /\ pc[o] = "ping" /\ Clear(o)
  /\ Answers(hold[o])
  /\ Goto(o, "rebind")
  /\ UNCHANGED <<hold, want, job, kill, poolVars, claimVars, sessionVars, golden>>

Thaw(o) ==
  /\ pc[o] = "thaw"
  /\ sess' = [sess EXCEPT ![hold[o]] = "up"]
  /\ Goto(o, "rebind")
  /\ UNCHANGED <<hold, want, job, kill, poolVars, claimVars, lost, hookVars, guestVars,
                 golden>>

\* A parked VM that does not come back is torn down, and acquire starts over.
NotBack(o) ==
  /\ \/ /\ pc[o] = "ping" /\ Clear(o)
        /\ ~Answers(hold[o]) \/ Faults
        /\ lost' = [lost EXCEPT ![hold[o]] = TRUE]
     \/ /\ pc[o] = "thaw" /\ Faults
        /\ UNCHANGED lost
  /\ Step(o, hold[o], "queued")
  /\ hold' = [hold EXCEPT ![o] = None]
  /\ Goto(o, "acquire")
  /\ UNCHANGED <<want, job, poolVars, claimVars, sess, hookVars, guestVars, golden>>

\* Mutant: any park counts as the tree that was asked for.
ResumedAlways(o) == want[o].state # None

\* The park's tag is what was asked for: resumed=True, the caller skips its push.
Resumed(o) == want[o].state # None /\ tag[hold[o]] = want[o].state

\* Mutant: the last owner's cache, host objects and allowlist stay.
RebindKeepsBinding(o) ==
  /\ pc[o] = "rebind"
  /\ MaybeRefill(o, "held", want[o].key, target[want[o].key])
  /\ closed' = [closed EXCEPT ![hold[o]] = FALSE]
  /\ lost' = [lost EXCEPT ![hold[o]] = FALSE]
  /\ bound' = bound \cup {hold[o]}
  /\ UNCHANGED <<hold, want, kill, idle, newer, seeding, target, sess, pooled,
                 key, tag, bind, guestVars, golden>>

\* _maybe_refill, _rebind and the registration in _bound.
Rebind(o) ==
  /\ pc[o] = "rebind"
  /\ MaybeRefill(o, "held", want[o].key, target[want[o].key])
  /\ bind' = [bind EXCEPT ![hold[o]] = o]
  /\ closed' = [closed EXCEPT ![hold[o]] = FALSE]
  /\ lost' = [lost EXCEPT ![hold[o]] = FALSE]
  /\ bound' = bound \cup {hold[o]}
  /\ UNCHANGED <<hold, want, kill, idle, newer, seeding, target, sess, pooled,
                 key, tag, guestVars, golden>>

\* _fresh: a clone of the golden snapshot if there is one; a snapshot that will
\* not restore is discarded, and the caller gets a cold boot, or its failure.
Fresh(o) ==
  /\ pc[o] = "boot"
  /\ \E v \in VMs :
       /\ Booted(v, want[o].key, o)
       /\ pooled' = [pooled EXCEPT ![v] = TRUE]
       /\ hold' = [hold EXCEPT ![o] = v]
  /\ \/ /\ want[o].key \in golden \/ ~Cloning
        /\ Goto(o, "bind")
        /\ UNCHANGED golden
     \/ /\ Cloning /\ (want[o].key \notin golden \/ Faults)
        /\ Goto(o, "bindcold")
        /\ golden' = golden \ {want[o].key}
  /\ UNCHANGED <<want, job, kill, poolVars, claimVars>>

FreshFails(o) ==
  /\ pc[o] = "boot" /\ Faults
  /\ Goto(o, "out")
  /\ golden' \in {golden, golden \ {want[o].key}}
  /\ UNCHANGED <<hold, want, job, kill, poolVars, claimVars, sessionVars>>

Bind(o) ==
  /\ pc[o] \in {"bind", "bindcold"}
  /\ bound' = bound \cup {hold[o]}
  /\ Goto(o, IF pc[o] = "bindcold" /\ AutoSeed THEN "seed" ELSE "held")
  /\ UNCHANGED <<hold, want, job, kill, idle, newer, claimVars, sessionVars, golden>>

\* A cold boot leaves a template behind it, once its own VM is counted.
Seed(o) ==
  /\ pc[o] = "seed"
  /\ SeedStart(o, "held", want[o].key)
  /\ UNCHANGED <<hold, want, kill, poolVars, filling, target, sessionVars, golden>>

\* seed() called by name, as the consumers do that turn auto_seed off.
SeedCall(o, k) ==
  /\ pc[o] = "out" /\ Clear(o)
  /\ Cloning /\ ~AutoSeed
  /\ k \notin golden \cup seeding /\ ~AtCapacity
  /\ SeedStart(o, "out", k)
  /\ UNCHANGED <<hold, want, kill, poolVars, filling, target, sessionVars, golden>>

-----------------------------------------------------------------------------
(* The owner's session: requests, and close() which releases to the pool.  *)

\* _request refuses a session already lost; otherwise it is in flight.
UseBegin(o) ==
  /\ pc[o] = "held" /\ ~lost[hold[o]]
  /\ Goto(o, "busy")
  /\ UNCHANGED <<hold, want, job, kill, poolVars, claimVars, sessionVars, golden>>

\* An answer leaves the owner's work in the guest.
UseEnd(o) ==
  /\ pc[o] = "busy"
  /\ Answers(hold[o])
  /\ env' = [env EXCEPT ![hold[o]] = TRUE]
  /\ \E c \in States \cup {"other"} : tree' = [tree EXCEPT ![hold[o]] = c]
  /\ Goto(o, "held")
  /\ UNCHANGED <<hold, want, job, kill, poolVars, claimVars, sess, lost, hookVars, golden>>

\* A wire that failed, or no answer in time: SessionLost, and the latch.
UseFails(o) ==
  /\ pc[o] = "busy"
  /\ ~Answers(hold[o]) \/ Faults
  /\ lost' = [lost EXCEPT ![hold[o]] = TRUE]
  /\ Goto(o, "held")
  /\ UNCHANGED <<hold, want, job, kill, poolVars, claimVars, sess, hookVars, guestVars,
                 golden>>

\* Mutant: park_state is stamped with whatever the tree holds.
CloseStampsAny(o) ==
  /\ pc[o] = "held" /\ pooled[hold[o]] /\ ~closed[hold[o]]
  /\ tag' = [tag EXCEPT ![hold[o]] = tree[hold[o]]]
  /\ closed' = [closed EXCEPT ![hold[o]] = TRUE]
  /\ bound' = bound \ {hold[o]}
  /\ Goto(o, "reset")
  /\ UNCHANGED <<hold, want, job, kill, idle, newer, claimVars, sess, lost, pooled,
                 key, bind, guestVars, golden>>

\* close(park_state): an owner stamps the identity of what the tree holds.
Stamps(v) == {[tag EXCEPT ![v] = s] : s \in {None} \cup ({tree[v]} \cap States)}

\* An open, pooled session is released: release() begins by leaving _bound.
Close(o) ==
  /\ pc[o] = "held" /\ pooled[hold[o]] /\ ~closed[hold[o]]
  /\ tag' \in Stamps(hold[o])
  /\ closed' = [closed EXCEPT ![hold[o]] = TRUE]
  /\ bound' = bound \ {hold[o]}
  /\ Goto(o, "reset")
  /\ UNCHANGED <<hold, want, job, kill, idle, newer, claimVars, sess, lost, pooled,
                 key, bind, guestVars, golden>>

\* One that a teardown took off its hook: nothing to do, or a shutdown of its own.
CloseUnhooked(o) ==
  /\ pc[o] = "held" /\ (~pooled[hold[o]] \/ closed[hold[o]])
  /\ tag' \in Stamps(hold[o])
  /\ closed' = [closed EXCEPT ![hold[o]] = TRUE]
  /\ Step(o, hold[o], IF closed[hold[o]] THEN "no" ELSE "wait")
  /\ hold' = [hold EXCEPT ![o] = None]
  /\ Goto(o, "out")
  /\ UNCHANGED <<want, job, poolVars, claimVars, sess, lost, pooled, key, bind,
                 guestVars, golden>>

\* An owner that was told SessionLost may drop the handle without close().
Forget(o) ==
  /\ pc[o] = "held" /\ lost[hold[o]]
  /\ hold' = [hold EXCEPT ![o] = None]
  /\ Goto(o, "out")
  /\ UNCHANGED <<want, job, kill, poolVars, claimVars, sessionVars, golden>>

\* A cloning rung parks only a tagged VM, and only with affinity on.
Parks(v) == Cloning => tag[v] # None /\ MaxAffinity > 0

\* Mutant: the tree is kept whether or not a tag says what it is.
ResetKeepsTree(o) ==
  /\ pc[o] = "reset" /\ Answers(hold[o]) /\ Parks(hold[o])
  /\ env' = [env EXCEPT ![hold[o]] = FALSE]
  /\ Goto(o, "park")
  /\ UNCHANGED <<hold, want, job, kill, poolVars, claimVars, sess, lost, hookVars,
                 tree, golden>>

\* reset_guest: kill sweep and environment always, the tree unless tagged.
Reset(o) ==
  /\ pc[o] = "reset"
  /\ Answers(hold[o]) /\ Parks(hold[o])
  /\ env' = [env EXCEPT ![hold[o]] = FALSE]
  /\ tree' = [tree EXCEPT ![hold[o]] = IF tag[hold[o]] = None THEN "wiped" ELSE @]
  /\ Goto(o, "park")
  /\ UNCHANGED <<hold, want, job, kill, poolVars, claimVars, sess, lost, hookVars, golden>>

\* Where the rung would rather clone than park, a reset VM is torn down.
ResetDiscards(o) ==
  /\ pc[o] = "reset"
  /\ Answers(hold[o]) /\ ~Parks(hold[o])
  /\ env' = [env EXCEPT ![hold[o]] = FALSE]
  /\ tree' = [tree EXCEPT ![hold[o]] = IF tag[hold[o]] = None THEN "wiped" ELSE @]
  /\ Step(o, hold[o], "queued")
  /\ hold' = [hold EXCEPT ![o] = None]
  /\ Goto(o, "out")
  /\ UNCHANGED <<want, job, poolVars, claimVars, sess, lost, hookVars, golden>>

\* Mutant: a failed reset is logged, and the VM parked all the same.
ResetFailsAndParks(o) ==
  /\ pc[o] = "reset"
  /\ ~Answers(hold[o]) \/ Faults
  /\ lost' = [lost EXCEPT ![hold[o]] = TRUE]
  /\ Goto(o, "park")
  /\ UNCHANGED <<hold, want, job, kill, poolVars, claimVars, sess, hookVars, guestVars,
                 golden>>

\* A guest that will not reset is not reusable.
ResetFails(o) ==
  /\ pc[o] = "reset"
  /\ ~Answers(hold[o]) \/ Faults
  /\ lost' = [lost EXCEPT ![hold[o]] = TRUE]
  /\ Step(o, hold[o], "queued")
  /\ hold' = [hold EXCEPT ![o] = None]
  /\ Goto(o, "out")
  /\ UNCHANGED <<want, job, poolVars, claimVars, sess, hookVars, guestVars, golden>>

\* How many VMs a bucket keeps when a release parks one more in it.
Limit(k) == IF Cloning THEN MaxAffinity
            ELSE IF MaxIdle >= target[k] THEN MaxIdle ELSE target[k]

\* The lock section that parks v in front of its bucket and cuts the overflow.
Park(o) ==
  /\ pc[o] = "park"
  /\ \E old \in Cutoffs :
       LET v        == hold[o]
           kept     == idle \ Expired(old)
           overflow == {w \in kept : key[w] = key[v]
                                     /\ Position(kept, w) + 1 >= Limit(key[v])}
                       \cup (IF Limit(key[v]) = 0 THEN {v} ELSE {})
           cut      == Expired(old) \cup overflow
       IN /\ idle' = (idle \cup {v}) \ cut
          /\ newer' = {p \in newer \cup ({v} \X idle) :
                         p[1] \notin cut /\ p[2] \notin cut}
          /\ kill' = Queue(o, cut)
  /\ hold' = [hold EXCEPT ![o] = None]
  /\ Goto(o, "out")
  /\ UNCHANGED <<want, job, bound, claimVars, sessionVars, golden>>

-----------------------------------------------------------------------------
(* VmPool.close(), guests that die, and the whole.                         *)

\* Mutant: a bound session is torn down as if nobody were blocked on it.
PoolCloseQuietly(c) ==
  /\ pc[c] = "out"
  /\ kill' = Queue(c, idle \cup bound)
  /\ idle' = {} /\ newer' = {} /\ bound' = {}
  /\ Goto(c, "closed")
  /\ UNCHANGED <<hold, want, job, claimVars, sessionVars, golden>>

PoolClose(c) ==
  /\ pc[c] = "out"
  /\ kill' = [kill EXCEPT ![c] = [v \in VMs |-> IF v \in idle THEN "queued"
                                         ELSE IF v \in bound THEN "reclaimed" ELSE "no"]]
  /\ idle' = {} /\ newer' = {} /\ bound' = {}
  /\ Goto(c, "closed")
  /\ UNCHANGED <<hold, want, job, claimVars, sessionVars, golden>>

GuestDies(v) ==
  /\ Faults
  /\ sess[v] = "up"
  /\ sess' = [sess EXCEPT ![v] = "down"]
  /\ UNCHANGED <<threadVars, kill, poolVars, claimVars, lost, hookVars, guestVars,
                 golden>>

\* What a thread does on its own once started: no caller decides it.
OwnerStep(o) ==
  \/ AcquireMisses(o) \/ AcquireTakes(o) \/ ReclaimIdle(o) \/ ReclaimBound(o) \/ Roomy(o)
  \/ Ping(o) \/ Thaw(o) \/ NotBack(o) \/ Rebind(o)
  \/ Fresh(o) \/ FreshFails(o) \/ Bind(o) \/ Seed(o)
  \/ UseEnd(o) \/ UseFails(o) \/ Reset(o) \/ ResetDiscards(o) \/ ResetFails(o)
  \/ Park(o)

WorkerStep(w) ==
  \/ RefillCheck(w) \/ RefillBoot(w) \/ RefillFreeze(w) \/ RefillPark(w)
  \/ RefillDone(w) \/ SeedBoot(w) \/ SeedFreeze(w) \/ SeedPublish(w) \/ SeedDone(w)
  \/ BootFails(w) \/ FreezeFails(w)

\* What a caller may do, and need not.
OwnerCall(o) ==
  \/ AcquireBegin(o) \/ UseBegin(o) \/ Close(o) \/ CloseUnhooked(o) \/ Forget(o)
  \/ \E k \in Keys : Prewarm(o, k) \/ SeedCall(o, k)

Next ==
  \/ \E o \in Owners : OwnerStep(o) \/ OwnerCall(o)
  \/ \E w \in Workers : WorkerStep(w)
  \/ \E t \in Threads, v \in VMs : Teardown(t, v)
  \/ \E c \in Closers : PoolClose(c)
  \/ \E v \in VMs : GuestDies(v)

Spec == Init /\ [][Next]_vars

\* Threads run, and every request ends: by an answer, by an error, or at its
\* deadline.
Fairness ==
  /\ \A o \in Owners : WF_vars(OwnerStep(o))
  /\ \A w \in Workers : WF_vars(WorkerStep(w))
  /\ \A t \in Threads : WF_vars(\E v \in VMs : Teardown(t, v))

FairSpec == Spec /\ Fairness
-----------------------------------------------------------------------------
(* Properties.                                                             *)

\* Every variable of the pool keeps its type.
TypeOK ==
  /\ pc \in [Threads -> OwnerPC \cup WorkerPC \cup {"closed"}]
  /\ hold \in [Threads -> VMs \cup {None}]
  /\ want \in [Owners -> [key : Keys \cup {None}, state : States \cup {None}]]
  /\ job \in [Workers -> Keys \cup {None}]
  /\ kill \in [Threads -> [VMs -> KillStage]]
  /\ idle \subseteq VMs /\ newer \subseteq VMs \X VMs /\ bound \subseteq VMs
  /\ filling \subseteq Keys /\ seeding \subseteq Keys /\ golden \subseteq Keys
  /\ target \in [Keys -> Nat]
  /\ sess \in [VMs -> {"up", "down", "frozen", "gone"}]
  /\ pooled \in [VMs -> BOOLEAN] /\ closed \in [VMs -> BOOLEAN]
  /\ lost \in [VMs -> BOOLEAN] /\ env \in [VMs -> BOOLEAN]
  /\ key \in [VMs -> Keys \cup {None}]
  /\ tag \in [VMs -> States \cup {None}]
  /\ tree \in [VMs -> Trees]
  /\ bind \in [VMs -> Owners \cup {None}]

\* One VM serves one session: no two threads work with the same VM, no parked
\* VM is still in somebody's hands, and a bound one is in exactly its owner's,
\* whatever reclaims, failed resets and closes of the pool overlap.
SoleCustody ==
  /\ \A t, u \in Threads : hold[t] # None /\ hold[t] = hold[u] => t = u
  /\ \A v \in idle : v \notin bound /\ \A t \in Threads : hold[t] # v

\* A wire has one speaker: while a guest is up, no two threads are inside
\* Channel.request on it, so that no reader takes a frame meant for another.
\* _abort_channel before the reclaimer's own shutdown request is what keeps it.
NoCrossTalk ==
  \A v \in VMs : Answers(v) =>
    \A t, u \in Threads : InRequest(t, v) /\ InRequest(u, v) => t = u

\* A VM waits for its next owner reset: none of the last one's processes or
\* environment, and no workspace but the one its tag names.
ParkedIsReset ==
  \A v \in idle : ~env[v] /\ tree[v] = IF tag[v] = None THEN "wiped" ELSE tag[v]

\* An owner's session answers the guest with that owner's cache, host objects
\* and allowlist, from the moment it has the session to the moment it parks.
BoundToHolder ==
  \A o \in Owners : hold[o] # None /\ pc[o] \in {"held", "busy", "reset", "park"}
                     => bind[hold[o]] = o

\* A session that was lost is never handed out again on a live wire: latched, it
\* is neither parked nor about to be rebound unless its guest is dead for good.
LostStaysOut ==
  \A v \in VMs : lost[v] /\ sess[v] \in {"up", "frozen"} =>
    v \notin idle /\ \A t \in Threads : hold[t] = v => pc[t] \in {"held", "reset"}

\* No guest runs that nothing will ever tear down: it is parked, bound, or in
\* the hands of a thread that works with it or is tearing it down.
NoLeak == \A v \in VMs : sess[v] # "gone" => Referenced(v)

\* A claim on a key's background work belongs to one running worker, so that a
\* burst of misses starts one boot, and no claim outlives its worker.
OneWorkerPerClaim ==
  /\ \A w, x \in Workers :
       /\ pc[w] # "out" /\ pc[x] # "out" /\ job[w] = job[x]
       /\ (pc[w] \in SeedPC) = (pc[x] \in SeedPC)
       => w = x
  /\ seeding = {job[w] : w \in {x \in Workers : pc[x] \in SeedPC}}
  /\ filling = {job[w] : w \in {x \in Workers : pc[x] \in WorkerPC \ (SeedPC \cup {"out"})}}

\* An owner gets a clean guest, and one told resumed=True gets its own tree.
CleanHandoff ==
  [][\A o \in Owners :
       pc[o] = "rebind" /\ pc'[o] = "held"
       => /\ ~env[hold[o]]
          /\ Resumed(o) => tree[hold[o]] = want[o].state]_vars

\* Expiry, reclaim and overflow never take a warmed key below its level: only an
\* acquire does, by the one VM it takes, and the close of the pool.
FloorKept ==
  [][\A k \in Keys :
       LET n == Cardinality(Bucket(k))
           low == IF n < target[k] THEN n ELSE target[k]
           takes == {o \in Owners : hold[o] # hold'[o] /\ hold'[o] \in Bucket(k)}
       IN \/ Cardinality(Bucket(k)') + Cardinality(takes) >= low
          \/ \E c \in Closers : pc[c] # pc'[c]]_vars

\* With one owner, max_total bounds the guests that really run: a background
\* seed takes a slot like any other VM, from before it boots.
Running == {v \in VMs : sess[v] \in {"up", "down"}}
WithinCap == MaxTotal # None => Cardinality(Running) <= MaxTotal

\* A refill boots nothing past the cap that _make_room and seed() enforce.
RefillSeesTheCap ==
  [][\A w \in Workers : pc[w] = "check" /\ pc'[w] = "fboot" => ~AtCapacity]_vars

\* A warm level drained by an acquire is refilled: with nothing under way, no
\* key is below the level prewarm was asked to hold.
Quiescent == \A t \in Threads : pc[t] \in {"out", "held", "closed"} /\ Clear(t)
WarmAtRest == Quiescent => \A k \in Keys : Cardinality(Bucket(k)) >= target[k]

\* close() of the pool leaves nothing behind: when it is done and the owners are
\* too, no VM runs or is parked.
NothingAfterClose ==
  /\ \E c \in Closers : pc[c] = "closed"
  /\ Quiescent /\ \A o \in Owners : pc[o] = "out"
  => idle = {}

\* "acquire never blocks": an owner that has the pool to itself but for seeds gets
\* a session or an exception, however often a park or a reclaim sends it back.
AcquireReturns ==
  \A o \in Owners : pc[o] = "acquire" ~> pc[o] \in {"held", "out"}

\* A background seed gives its slot under max_total back, whatever became of it.
SeedsEnd == \A k \in Keys : k \in seeding ~> k \notin seeding
=============================================================================
