------------------------------ MODULE VmPoolInv ------------------------------
(***************************************************************************)
(* The inductive invariant behind the safety properties of VmPool, in      *)
(* named parts, each inductive together with the ones before it.  Custody  *)
(* says who may hold a VM, Doom who may tear it down, Accounted that its   *)
(* end is always somebody's work, Contents what is inside a guest at each  *)
(* step of a release.                                                      *)
(***************************************************************************)
EXTENDS VmPool

OwnerHolding  == {"ping", "thaw", "rebind", "bind", "bindcold", "seed", "held",
                  "busy", "reset", "park"}
WorkerHolding == {"ffreeze", "fpark", "sfreeze", "spublish"}
Registered    == {"seed", "held", "busy"}

\* Where a thread stands tells what it has in hand and what it works for.
HoldsWhere ==
  /\ \A o \in Owners : /\ pc[o] \in OwnerPC
                       /\ pc[o] \in OwnerHolding => hold[o] \in VMs
                       /\ hold[o] # None => pc[o] \in OwnerHolding \cup {"room"}
                       /\ pc[o] # "out" => want[o].key \in Keys
  /\ \A w \in Workers : /\ pc[w] \in WorkerPC
                        /\ pc[w] \in WorkerHolding => hold[w] \in VMs
                        /\ hold[w] # None => pc[w] \in WorkerHolding
                        /\ pc[w] # "out" => job[w] \in Keys
  /\ \A c \in Closers : pc[c] \in {"out", "closed"} /\ hold[c] = None

Typed == TypeOK /\ HoldsWhere

\* A VM in _bound is past its registration and before its release.
BoundIsRegistered ==
  \A v \in bound, t \in Threads : hold[t] = v => t \in Owners /\ pc[t] \in Registered

Custody == SoleCustody /\ BoundIsRegistered

-----------------------------------------------------------------------------
(* Who may tear a VM down.                                                 *)

Usable(v) == sess[v] \in {"up", "frozen"} /\ ~lost[v]

\* A teardown that does not abort the channel first has the VM to itself, unless
\* the VM is of no use to anybody; a reclaim of it may be pending, its abort first.
AloneWhenDoomed ==
  \A t \in Threads, v \in VMs :
    Usable(v) /\ kill[t][v] \in {"queued", "unhook", "close", "wait"} =>
      /\ v \notin idle \cup bound
      /\ \A u \in Threads : /\ hold[u] # v
                            /\ u # t => kill[u][v] \in {"no", "reclaimed", "abort"}

\* A worker's own VM is in nobody else's hands.
WorkersUndisturbed ==
  \A t \in Threads, w \in Workers, v \in VMs : kill[t][v] # "no" => hold[w] # v

\* What had an owner is not a snapshot on disk: the abort always finds a channel.
AbortsAreLive ==
  \A t \in Threads, v \in VMs : kill[t][v] \in {"reclaimed", "abort"} => sess[v] # "frozen"

\* A frozen VM is a worker's, parked, being thawed, or on its way out.
FrozenWhere ==
  /\ \A v \in VMs : sess[v] = "frozen" =>
       /\ v \notin bound
       /\ \A t \in Threads : hold[t] = v => pc[t] \in {"fpark", "spublish", "room", "thaw"}
  /\ \A o \in Owners : pc[o] \in {"room", "thaw"} /\ hold[o] # None => sess[hold[o]] = "frozen"

\* Only a torn wire leaves an owner, or the park, with a session off the pool's hook.
UsableIsPooled ==
  \A v \in VMs : Usable(v) /\ (v \in idle \/ \E o \in Owners : hold[o] = v) => pooled[v]

Doom == /\ AloneWhenDoomed /\ WorkersUndisturbed /\ AbortsAreLive
        /\ FrozenWhere /\ UsableIsPooled /\ LostStaysOut

-----------------------------------------------------------------------------
(* What _closed can be trusted for, and where a VM's way ends.             *)

\* A thread has no teardown under way when it works with a session, nor a closer
\* before it begins: what it queues next overwrites nothing.
DoneBeforeWork ==
  /\ \A o \in Owners : pc[o] \notin {"out", "acquire", "room", "ping"} => Clear(o)
  /\ \A c \in Closers : pc[c] = "out" => Clear(c)

\* Once closed and off the hook, a VM is gone or somebody is in close().
ClosedIsEnding ==
  \A v \in VMs : closed[v] /\ ~pooled[v] =>
    sess[v] = "gone" \/ \E t \in Threads : kill[t][v] = "wait"

UnhookedFirst ==
  \A t \in Threads, v \in VMs : kill[t][v] \in {"close", "wait"} => ~pooled[v]

\* An owner that uses its VM finds the latch set only where a teardown was there.
OpenWhileUsed ==
  /\ \A o \in Owners : pc[o] \in {"bind", "bindcold", "seed", "held", "busy"} /\ closed[hold[o]]
                       => ~pooled[hold[o]]
  /\ \A w \in Workers : hold[w] # None => ~pooled[hold[w]] /\ ~closed[hold[w]]

\* An owner's registered VM is in _bound, or its end has begun.
RegisteredIsBound ==
  \A o \in Owners : pc[o] \in Registered =>
    \/ hold[o] \in bound
    \/ sess[hold[o]] = "gone"
    \/ \E t \in Threads : kill[t][hold[o]] # "no"

Accounted == /\ DoneBeforeWork /\ ClosedIsEnding /\ UnhookedFirst /\ OpenWhileUsed
             /\ RegisteredIsBound /\ NoLeak

-----------------------------------------------------------------------------
(* What a guest holds while it is parked, and on its way there.            *)

Clean(v) == ~env[v] /\ tree[v] = IF tag[v] = None THEN "wiped" ELSE tag[v]

CleanAt == {"room", "ping", "thaw", "rebind", "park"}

\* A worker's VM was never anybody's.
WorkersClean == \A w \in Workers : hold[w] # None => Clean(hold[w]) /\ tag[hold[w]] = None

\* An owner's is clean before it is bound and after its reset; in between, a stamp
\* says what the tree holds.
OwnersClean ==
  \A o \in Owners : hold[o] # None =>
    /\ pc[o] \in CleanAt => Clean(hold[o])
    /\ pc[o] = "reset" /\ tag[hold[o]] # None => tree[hold[o]] = tag[hold[o]]

Contents == ParkedIsReset /\ WorkersClean /\ OwnersClean

\* A session answers for its owner from its boot, before acquire hands it out.
OnBehalf == Registered \cup {"bind", "bindcold", "reset", "park"}
BindsFor ==
  \A o \in Owners : hold[o] # None /\ pc[o] \in OnBehalf => bind[hold[o]] = o

\* The whole: who holds a VM, who may end it, that somebody will, what is in it, and
\* whom it answers for.
IInv == Typed /\ Custody /\ Doom /\ Accounted /\ Contents /\ BindsFor
=============================================================================
