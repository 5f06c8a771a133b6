-------------------------------- MODULE CacheTxn --------------------------------
(***************************************************************************)
(* What dud.guest.runner.CacheView promises the code of an exec: the       *)
(* host's cache as a dictionary of its own, each key as it was when the    *)
(* code first looked, whose changes reach the host all together if the     *)
(* exec succeeds and not at all otherwise, however often and wherever the  *)
(* code was run.                                                           *)
(***************************************************************************)
CONSTANTS
  Keys, Vals,
  None,     \* no such key
  Unseen    \* the code has not come to the key

VARIABLES
  store,    \* the host's cache
  view,     \* each key, as the code has it
  base      \* each key, as the code first saw it

vars == <<store, view, base>>

Blank == [k \in Keys |-> Unseen]

Init == store \in [Keys -> Vals \cup {None}] /\ view = Blank /\ base = Blank

\* The code runs, perhaps once more.
Begin == view' = Blank /\ base' = Blank /\ UNCHANGED store

See(k) ==
  /\ view[k] = Unseen
  /\ view' = [view EXCEPT ![k] = store[k]]
  /\ base' = [base EXCEPT ![k] = store[k]]
  /\ UNCHANGED store

\* The code writes a key, changes its value in place, or deletes what is there.
Change(k) ==
  /\ \E v \in Vals \cup {None} :
       /\ v = None => view[k] \in Vals \/ (view[k] = Unseen /\ store[k] # None)
       /\ view' = [view EXCEPT ![k] = v]
  /\ base' = base \/ (view[k] = Unseen /\ base' = [base EXCEPT ![k] = store[k]])
  /\ UNCHANGED store

\* The host's own code stores something while an exec runs.
HostStores(k) ==
  /\ \E v \in Vals \cup {None} : store' = [store EXCEPT ![k] = v]
  /\ UNCHANGED <<view, base>>

\* A key that is back to what it was may be left alone.
Commit ==
  /\ \A k \in Keys :
       store'[k] \in IF view[k] = Unseen THEN {store[k]}
                     ELSE IF view[k] = base[k] THEN {store[k], view[k]} ELSE {view[k]}
  /\ DOMAIN store' = Keys
  /\ view' = Blank /\ base' = Blank

Next ==
  \/ Begin \/ Commit
  \/ \E k \in Keys : See(k) \/ Change(k) \/ HostStores(k)

Spec == Init /\ [][Next]_vars
=================================================================================
