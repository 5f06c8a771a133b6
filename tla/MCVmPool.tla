------------------------------ MODULE MCVmPool ------------------------------
(***************************************************************************)
(* VmPool on small instances; each .cfg gives one rung, one cap and one    *)
(* set of faults.  Symmetry and View only spare TLC equivalent states.     *)
(***************************************************************************)
EXTENDS VmPoolInv, TLC

Symmetry == Permutations(VMs) \cup Permutations(Owners) \cup Permutations(Workers)

Acquiring == {"acquire", "room", "ping", "thaw", "rebind", "boot", "seed"}

Tagged == {"ping", "room", "thaw", "rebind", "reset", "park"}

\* Two states differ only if something may still read the difference: a request
\* that was served, a job that ended and an object nobody refers to are over.
View ==
  << pc, hold, kill, idle, newer, bound, filling, seeding, target, golden, sess,
     [o \in Owners |-> IF pc[o] \in Acquiring THEN want[o] ELSE None],
     [w \in Workers |-> IF pc[w] # "out" THEN job[w] ELSE None],
     [v \in VMs |-> IF Referenced(v)
                    THEN <<pooled[v], closed[v], lost[v], key[v]>> ELSE None],
     [v \in VMs |-> IF v \in idle \/ \E o \in Owners : hold[o] = v /\ pc[o] \in Tagged
                    THEN tag[v] ELSE None],
     [v \in VMs |-> IF Referenced(v) /\ sess[v] = "up"
                    THEN <<env[v], tree[v], bind[v]>> ELSE None] >>
=============================================================================
