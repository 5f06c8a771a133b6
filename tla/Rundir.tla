-------------------------------- MODULE Rundir --------------------------------
(***************************************************************************)
(* One VM session's run directory, its VMM and its guest, from the first   *)
(* boot through freezes and thaws to the close (backends/vm.py and         *)
(* backends/firecracker.py), while other hosts start and sweep stale       *)
(* directories (sweep_stale_rundirs).  The host process may die between    *)
(* any two steps; nothing of it stays but the directory and the VMM.       *)
(*                                                                         *)
(* Hosts that sweep are nobody's session here: each starts, looks at this  *)
(* directory file by file, and may start again as another process.         *)
(***************************************************************************)
EXTENDS Naturals, FiniteSets

CONSTANTS
  Sweepers,   \* hosts that start and sweep next to ours
  Rungs,      \* freezes: the rung has snapshots and an API (firecracker), or it has
              \* neither (vfkit); restores: the session starts from a golden snapshot
  Faults      \* guests die, API calls and requests fail

ASSUME RundirParameters ==
  /\ Rungs \subseteq [freezes : BOOLEAN, restores : BOOLEAN]
  /\ \A r \in Rungs : r.restores => r.freezes
  /\ Faults \in BOOLEAN

VARIABLES
  rung,     \* which it is; never changes
  pc,       \* where the host's session stands
  frozen,   \* VmSession.frozen
  srv,      \* the listener is open
  wire,     \* the guest's connection: none, queued in the listener, open
  vmm,      \* the VMM: none, idle (no guest yet), its guest dials, up, paused
  files,    \* the directory
  at,       \* at[s]: where a sweep stands
  crossed   \* history: sweeps during whose look the host changed a marker

hostVars == <<rung, pc, frozen>>
linkVars == <<srv, wire>>
sweepVars == <<at, crossed>>
vars == <<hostVars, linkVars, vmm, files, sweepVars>>

-----------------------------------------------------------------------------
(* The directory: which markers it has, whether the recorded pid is that   *)
(* of the present VMM, and what there is of a snapshot.                    *)

NoDir == [there |-> FALSE, pid |-> "no", freezing |-> FALSE, frozen |-> FALSE,
          snap |-> "none", old |-> FALSE]

Alive == pc \notin {"dead", "unborn"}

Looking == {s \in Sweepers : at[s] # "out"}

\* The markers are what a sweep reads while the host writes them; where there is
\* no directory, the write fails.
MarksAnywhere(changed) ==
  /\ files' = changed
  /\ crossed' = crossed \cup Looking
Marks(changed) ==
  /\ files.there
  /\ files' = changed
  /\ crossed' = crossed \cup Looking

Goto(there) == pc' = there

-----------------------------------------------------------------------------
(* The constructor and thaw: bind, spawn, record, configure, accept, greet *)

\* mkdtemp, after the sweep of this host's own.
MakeDir ==
  /\ pc = "unborn"
  /\ Goto("bind")
  /\ files' = [NoDir EXCEPT !.there = TRUE]
  /\ UNCHANGED <<rung, frozen, linkVars, vmm, sweepVars>>

\* The listener is there before the guest can dial.
Bind ==
  /\ pc = "bind" /\ files.there
  /\ Goto("spawn")
  /\ srv' = TRUE
  /\ UNCHANGED <<rung, frozen, wire, vmm, files, sweepVars>>

\* The scratch clone, the bind or the VMM's log fails, before the try block.
BindFails ==
  /\ pc = "bind" /\ (Faults \/ ~files.there)
  /\ Goto(IF frozen THEN "raised" ELSE "lost")
  /\ UNCHANGED <<rung, frozen, linkVars, vmm, files, sweepVars>>

\* Popen. A VMM without an API has its machine on the command line; with one it
\* waits to be told. A pid read before names a VMM that is gone.
Spawn ==
  /\ pc = "spawn"
  /\ Goto("pid")
  /\ vmm' = IF rung.freezes THEN "idle" ELSE "dial"
  /\ files' = [files EXCEPT !.pid = IF @ = "no" THEN "no" ELSE "old"]
  /\ at' = [s \in Sweepers |-> IF at[s] = "psCurrent" THEN "psGone" ELSE at[s]]
  /\ UNCHANGED <<rung, frozen, linkVars, crossed>>

WritePid ==
  /\ pc = "pid" /\ files.there
  /\ Goto("configure")
  /\ files' = [files EXCEPT !.pid = "current"]
  /\ UNCHANGED <<rung, frozen, linkVars, vmm, sweepVars>>

\* InstanceStart, or snapshot/load with resume_vm: the guest runs, and dials.
\* What it loads is the directory's snapshot, or a golden one.
Configure ==
  /\ pc = "configure" /\ vmm # "none"
  /\ frozen => files.snap = "whole"
  /\ Goto("accept")
  /\ vmm' = IF vmm = "idle" THEN "dial" ELSE vmm
  /\ UNCHANGED <<rung, frozen, linkVars, files, sweepVars>>

Accept ==
  /\ pc = "accept" /\ wire = "queued"
  /\ Goto("hello")
  /\ wire' = "open"
  /\ UNCHANGED <<rung, frozen, srv, vmm, files, sweepVars>>

\* _teardown_vm ends the VMM that the session has on record: what a spawn that
\* also configures would not have yet.
TeardownVmUnrecorded == vmm' = IF pc = "configure" THEN vmm ELSE "none"
TeardownVm == vmm' = "none"

\* The try block fails, accept for want of a guest in time.  A boot takes its
\* directory with it (_abandon); a thaw leaves the park as it was, and raises.
TryFails ==
  /\ \/ pc \in {"configure", "accept"}
     \/ pc \in {"spawn", "pid"} /\ ~frozen
  /\ Faults \/ vmm = "none" \/ ~files.there
  /\ TeardownVm
  /\ srv' = FALSE /\ wire' = "none"
  /\ IF frozen THEN Goto("raised") /\ UNCHANGED files
               ELSE Goto("out") /\ files' = NoDir
  /\ UNCHANGED <<rung, frozen, sweepVars>>

\* In thaw, Popen and the pid file come before the try block: a VMM that runs by
\* then is left to its own devices.
ThawStrands ==
  /\ pc \in {"spawn", "pid"} /\ frozen
  /\ Faults \/ ~files.there
  /\ Goto(IF pc = "spawn" THEN "raised" ELSE "stranded")
  /\ UNCHANGED <<rung, frozen, linkVars, vmm, files, sweepVars>>

\* hello_recv; a thaw then calls itself thawed.
Hello ==
  /\ pc = "hello" /\ vmm = "up"
  /\ Goto(IF frozen THEN "unmark" ELSE IF rung.restores THEN "restored" ELSE "held")
  /\ frozen' = FALSE
  /\ UNCHANGED <<rung, linkVars, vmm, files, sweepVars>>

\* The frozen marker goes last: until here the park is still whole.
Unmark ==
  /\ pc = "unmark"
  /\ Goto("resync")
  /\ IF files.there THEN Marks([files EXCEPT !.frozen = FALSE])
                    ELSE UNCHANGED <<files, crossed>>
  /\ UNCHANGED <<rung, frozen, linkVars, vmm, at>>

Resync ==
  /\ pc \in {"restored", "resync"} /\ vmm = "up"
  /\ Goto("held")
  /\ UNCHANGED <<rung, frozen, linkVars, vmm, files, sweepVars>>

\* The greeting or the resync fails, outside the try block. Out of a constructor
\* the half-built session is nobody's; out of thaw its owner has it still.
GreetFails ==
  /\ pc \in {"hello", "restored", "resync"}
  /\ Faults \/ vmm = "none"
  /\ Goto(IF pc = "resync" \/ frozen THEN "raised" ELSE "lost")
  /\ UNCHANGED <<rung, frozen, linkVars, vmm, files, sweepVars>>

\* What nobody refers to is collected, and its sockets with it.
Collected ==
  /\ pc \in {"lost", "out", "stray"} /\ (srv \/ wire # "none")
  /\ srv' = FALSE /\ wire' = "none"
  /\ UNCHANGED <<hostVars, vmm, files, sweepVars>>

-----------------------------------------------------------------------------
(* freeze                                                                  *)

\* The listener closes first: the guest's redials must bounce.
CloseListener ==
  /\ pc = "held" /\ rung.freezes
  /\ Goto("ask")
  /\ srv' = FALSE
  /\ UNCHANGED <<rung, frozen, wire, vmm, files, sweepVars>>

\* The guest acknowledges, lets go of its channel and redials (init.py).
FreezeVerb ==
  /\ pc = "ask" /\ vmm = "up"
  /\ Goto("mark")
  /\ wire' = "none" /\ vmm' = "dial"
  /\ UNCHANGED <<rung, frozen, srv, files, sweepVars>>

MarkFreezing ==
  /\ pc = "mark"
  /\ Goto("pause")
  /\ Marks([files EXCEPT !.freezing = TRUE])
  /\ UNCHANGED <<rung, frozen, linkVars, vmm, at>>

\* From here the guest sees no EOF.  The last snapshot is unlinked, the new one
\* is being written.
Pause ==
  /\ pc = "pause" /\ vmm = "dial" /\ files.there
  /\ Goto("snapshot")
  /\ vmm' = "paused"
  /\ files' = [files EXCEPT !.snap = "part"]
  /\ UNCHANGED <<rung, frozen, linkVars, sweepVars>>

Snapshot ==
  /\ pc = "snapshot" /\ vmm = "paused" /\ files.there
  /\ Goto("publish")
  /\ files' = [files EXCEPT !.snap = "whole"]
  /\ UNCHANGED <<rung, frozen, linkVars, vmm, sweepVars>>

\* The marker of a park that is not written yet.
PublishFrozenEarly ==
  /\ pc = "snapshot"
  /\ Goto("kill")
  /\ Marks([files EXCEPT !.frozen = TRUE])
  /\ UNCHANGED <<rung, frozen, linkVars, vmm, at>>

PublishFrozen ==
  /\ pc = "publish"
  /\ Goto("kill")
  /\ Marks([files EXCEPT !.frozen = TRUE])
  /\ UNCHANGED <<rung, frozen, linkVars, vmm, at>>

KillVmm ==
  /\ pc = "kill"
  /\ Goto("unfreezing")
  /\ TeardownVm
  /\ UNCHANGED <<rung, frozen, linkVars, files, sweepVars>>

FreezeDone ==
  /\ pc = "unfreezing"
  /\ Goto("parked")
  /\ frozen' = TRUE
  /\ IF files.there THEN Marks([files EXCEPT !.freezing = FALSE])
                    ELSE UNCHANGED <<files, crossed>>
  /\ UNCHANGED <<rung, linkVars, vmm, at>>

\* The verb, a marker, the API or the guest fails: freeze raises as it stands.
FreezeFails ==
  /\ pc \in {"ask", "mark", "pause", "snapshot", "publish"}
  /\ Faults \/ vmm = "none" \/ ~files.there
  /\ Goto("raised")
  /\ UNCHANGED <<rung, frozen, linkVars, vmm, files, sweepVars>>

\* thaw unlinks the dead VMM's sockets and binds anew.
Thaw ==
  /\ pc = "parked"
  /\ Goto("bind")
  /\ UNCHANGED <<rung, frozen, linkVars, vmm, files, sweepVars>>

-----------------------------------------------------------------------------
(* close, and the end of the host                                          *)

\* A park dies with its directory; close looks no further, though a thaw may have
\* left a listener, a channel and a VMM.
CloseFrozen ==
  /\ pc \in {"parked", "raised", "stranded"} /\ frozen
  /\ Goto(IF pc = "stranded" THEN "stray" ELSE "out")
  /\ files' = NoDir
  /\ UNCHANGED <<rung, frozen, linkVars, vmm, sweepVars>>

\* The shutdown verb, answered or not, and then the channel closes: either way
\* the guest is told.
CloseAsks ==
  /\ pc \in {"held", "raised"} /\ ~frozen
  /\ Goto("closing")
  /\ wire' = "none"
  /\ UNCHANGED <<rung, frozen, srv, vmm, files, sweepVars>>

\* The VMM has gone in time, or is killed.
CloseWaits ==
  /\ pc = "closing"
  /\ Goto("remove")
  /\ TeardownVm
  /\ UNCHANGED <<rung, frozen, linkVars, files, sweepVars>>

CloseRemoves ==
  /\ pc = "remove"
  /\ Goto("out")
  /\ srv' = FALSE
  /\ files' = NoDir
  /\ UNCHANGED <<rung, frozen, wire, vmm, sweepVars>>

\* The host process dies, or exits without a close; the kernel closes its sockets.
HostDies ==
  /\ pc \notin {"unborn", "dead", "out"}
  /\ Goto("dead")
  /\ srv' = FALSE /\ wire' = "none"
  /\ UNCHANGED <<rung, frozen, vmm, files, sweepVars>>

-----------------------------------------------------------------------------
(* The guest (guest/init.py)                                               *)

Dials ==
  /\ vmm = "dial" /\ srv /\ wire = "none"
  /\ vmm' = "up" /\ wire' = "queued"
  /\ UNCHANGED <<hostVars, srv, files, sweepVars>>

\* The deadline of the dial passes, and init powers off.
GivesUp ==
  /\ vmm = "dial"
  /\ vmm' = "none"
  /\ UNCHANGED <<hostVars, linkVars, files, sweepVars>>

\* EOF, or the shutdown verb: serve returns and init powers off.
SeesEof ==
  /\ vmm = "up" /\ wire = "none"
  /\ vmm' = "none"
  /\ UNCHANGED <<hostVars, linkVars, files, sweepVars>>

VmmDies ==
  /\ Faults /\ vmm # "none"
  /\ vmm' = "none"
  /\ UNCHANGED <<hostVars, linkVars, files, sweepVars>>

-----------------------------------------------------------------------------
(* sweep_stale_rundirs by another host, one look at a time                 *)

Step(s, to) ==
  /\ at' = [at EXCEPT ![s] = to]
  /\ crossed' = IF to = "out" THEN crossed \ {s} ELSE crossed
  /\ UNCHANGED <<hostVars, linkVars>>

\* The glob lists the directory.
Finds(s) ==
  /\ at[s] = "out" /\ files.there
  /\ Step(s, "freezing") /\ UNCHANGED <<vmm, files>>

LooksFreezing(s) ==
  /\ at[s] = "freezing"
  /\ Step(s, IF files.freezing THEN "readFreezing" ELSE "frozen")
  /\ UNCHANGED <<vmm, files>>

\* A marker that went between exists() and read_text() has no owner.
ReadsFreezing(s) ==
  /\ at[s] = "readFreezing"
  /\ Step(s, IF ~files.freezing THEN "remove" ELSE IF Alive THEN "out" ELSE "slay")
  /\ UNCHANGED <<vmm, files>>

\* The VMM on record dies if it still serves this directory.
SlaysNobody(s) == at[s] = "slay" /\ Step(s, "remove") /\ UNCHANGED <<vmm, files>>
Slays(s) ==
  /\ at[s] = "slay"
  /\ Step(s, "remove")
  /\ vmm' = "none"
  /\ UNCHANGED files

LooksFrozen(s) ==
  /\ at[s] = "frozen"
  /\ Step(s, IF files.frozen THEN "readFrozen" ELSE "pid")
  /\ UNCHANGED <<vmm, files>>

ReadsFrozenOwnerless(s) ==
  /\ at[s] = "readFrozen"
  /\ Step(s, "remove")
  /\ UNCHANGED <<vmm, files>>
ReadsFrozen(s) ==
  /\ at[s] = "readFrozen"
  /\ Step(s, IF files.frozen /\ Alive THEN "out" ELSE "remove")
  /\ UNCHANGED <<vmm, files>>

\* No pid to read: only a directory that is ten minutes old goes.
ReadsPid(s) ==
  /\ at[s] = "pid"
  /\ Step(s, CASE files.pid = "current" -> "psCurrent"
               [] files.pid = "old" -> "psGone"
               [] files.pid = "no" -> IF files.old THEN "remove" ELSE "out")
  /\ UNCHANGED <<vmm, files>>

AsksPs(s) ==
  /\ at[s] \in {"psCurrent", "psGone"}
  /\ Step(s, IF at[s] = "psCurrent" /\ vmm # "none" THEN "out" ELSE "remove")
  /\ UNCHANGED <<vmm, files>>

Removes(s) ==
  /\ at[s] = "remove"
  /\ Step(s, "out")
  /\ files' = NoDir
  /\ UNCHANGED vmm

\* Ten minutes pass; no boot takes that long to its pid file.
Ages ==
  /\ files.there /\ files.pid = "no" /\ ~files.old
  /\ pc \in {"dead", "lost"}
  /\ files' = [files EXCEPT !.old = TRUE]
  /\ UNCHANGED <<hostVars, linkVars, vmm, sweepVars>>

-----------------------------------------------------------------------------

Init ==
  /\ rung \in Rungs
  /\ pc = "unborn" /\ frozen = FALSE
  /\ srv = FALSE /\ wire = "none" /\ vmm = "none"
  /\ files = NoDir
  /\ at = [s \in Sweepers |-> "out"] /\ crossed = {}

Session ==
  \/ MakeDir \/ Bind \/ BindFails \/ Spawn \/ WritePid \/ Configure \/ Accept
  \/ TryFails \/ ThawStrands \/ Hello \/ Unmark \/ Resync \/ GreetFails \/ Collected
  \/ CloseListener \/ FreezeVerb \/ MarkFreezing \/ Pause \/ Snapshot
  \/ PublishFrozen \/ KillVmm \/ FreezeDone \/ FreezeFails \/ Thaw
  \/ CloseFrozen \/ CloseAsks \/ CloseWaits \/ CloseRemoves

Guest == Dials \/ GivesUp \/ SeesEof

Sweep(s) ==
  \/ Finds(s) \/ LooksFreezing(s) \/ ReadsFreezing(s) \/ Slays(s)
  \/ LooksFrozen(s) \/ ReadsFrozen(s) \/ ReadsPid(s) \/ AsksPs(s) \/ Removes(s)

Next ==
  \/ Session \/ HostDies \/ Guest \/ VmmDies \/ Ages
  \/ \E s \in Sweepers : Sweep(s)

Spec == Init /\ [][Next]_vars

\* Clocks run, guests and sweeps go on, dropped objects are collected, and there
\* is always another host to start.  Our own host owes nobody a step.
FairSpec ==
  /\ Spec
  /\ WF_vars(GivesUp) /\ WF_vars(SeesEof) /\ WF_vars(Ages) /\ WF_vars(Collected)
  /\ \A s \in Sweepers : WF_vars(Sweep(s))

-----------------------------------------------------------------------------
(* Properties                                                              *)

HostPC ==
  {"unborn", "bind", "spawn", "pid", "configure", "accept", "hello", "restored", "held",
   "ask", "mark", "pause", "snapshot", "publish", "kill", "unfreezing", "parked",
   "unmark", "resync", "raised", "stranded", "lost", "closing", "remove",
   "out", "stray", "dead"}

SweepPC == {"out", "freezing", "readFreezing", "slay", "frozen", "readFrozen",
            "pid", "psCurrent", "psGone", "remove"}

\* Every variable has its type, and a directory that was removed holds nothing:
\* no marker is written beside it or survives it.
TypeOK ==
  /\ rung \in Rungs /\ pc \in HostPC /\ frozen \in BOOLEAN
  /\ srv \in BOOLEAN /\ wire \in {"none", "queued", "open"}
  /\ vmm \in {"none", "idle", "dial", "up", "paused"}
  /\ files \in [there : BOOLEAN, pid : {"no", "old", "current"}, freezing : BOOLEAN,
                frozen : BOOLEAN, snap : {"none", "part", "whole"}, old : BOOLEAN]
  /\ files.there \/ files = NoDir
  /\ at \in [Sweepers -> SweepPC] /\ crossed \subseteq Looking

\* A sweep leaves the directory of a live host alone as long as there is a VMM or
\* a park in it, unless the host changed one of the markers while the sweep was
\* looking from one to the next (vm.py 140-210).
Spared ==
  [][\A s \in Sweepers :
       at[s] = "remove" /\ at'[s] = "out" /\ files.there /\ Alive
       /\ (vmm # "none" \/ frozen)
       => s \in crossed]_vars

\* The frozen marker says that the snapshot is all there, at each of the steps a
\* host may die between, and a session that is parked has its marker, no other,
\* and no VMM (firecracker.py 274-307, 352-374).
FrozenIsWhole ==
  /\ files.frozen => files.snap = "whole"
  /\ pc = "parked" /\ files.there => files.frozen /\ ~files.freezing /\ vmm = "none"

\* A constructor that failed in its try block and a close, from whatever state,
\* leave no directory, no listener, and no VMM but one whose guest is about to see
\* EOF (vm.py 408-414, 495-534, 570-608).  Only a session that was thawed in vain may
\* leave a channel to a guest that is up, until the session is collected.
LeavesNothing ==
  pc = "out" =>
    /\ ~files.there /\ vmm \in {"none", "up"}
    /\ frozen \/ (~srv /\ (vmm = "up" => wire = "none"))

\* When a host has died at any step, or a constructor has failed past its try
\* block, the VMM ends, a paused one by a sweep, and a sweep removes the
\* directory (vm.py 124-210, init.py 196-228); after a close the VMM ends, too.  Two cases are beyond the code: a
\* VMM that had not been told what to run, and a sweep that the host crossed as
\* it died, which may take the freezing marker away with the directory.
Reaped ==
  /\ pc \in {"dead", "lost", "out"} /\ crossed = {}
  /\ vmm # "idle" /\ (vmm = "paused" => files.there)
  ~> ~files.there /\ vmm = "none"

\* "Processes can't dangle": with its host dead, every VMM ends.
NoDangling == pc = "dead" ~> vmm = "none"
=============================================================================
