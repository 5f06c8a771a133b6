# dud in TLA+

dud runs untrusted code for a host program in disposable microVMs. A *session*
is a Python object in the host with a guest behind it; the two talk over one
byte stream. This directory holds TLA+ modules of the parts of dud whose
correctness depends on the order in which things happen, the TLC configurations
that check them, and theorems proved with TLAPS.

Paths are relative to the repository; definitions keep the source's names where
TLA+ allows it, and `PROJECT.json` maps every definition to the lines it models.

## The system

| Component | State | Operations | What is hard | What makes it correct |
|---|---|---|---|---|
| `dud/backends/pool.py` `VmPool` | `_idle`, `_bound`, `_targets`, `_filling`, `_seeding` under one lock | acquire, release, prewarm, seed, close, and two kinds of daemon thread | everything that blocks (boot, ping, thaw, reset, shutdown) runs outside the lock; a reclaim takes a VM from an owner that may call it at any moment | one VM serves one session; a wire has one speaker; a parked VM is reset; caps and warm levels; nothing leaks |
| `dud/backends/base.py` `HostSession` | `_lost`, `_closed`, `_in_flight`, cache, emits, bindings | `_request`, verbs, `cancel`, `_handle` | a wire that failed still has a guest on it | lost is terminal; the guest is answered from the right owner's bindings |
| `dud/backends/vm.py`, `firecracker.py`, `vfkit.py` | the VMM process, the rundir and its markers, `_pool`, `frozen` | boot, close, freeze, thaw, sweep of other hosts' rundirs | a host that dies between two markers; a sweep of a directory in use | no VMM without a rundir that names it; no rundir of a live VM removed |
| `dud/backends/golden.py`, `dud/atomic.py` | snapshot directories shared by all hosts | publish, verify, discard | concurrent publishers and readers | all parts or none; never bits of another image |
| `dud/proto.py` `Channel` | `_next_id`, `awaiting`, `serving`, `_cancelled`, the frames on the wire | request, serve, cancel | both ends ask while they serve; another thread cancels | frames fit, answers match, a cancel hits its request or nothing |
| `dud/guest/supervisor.py` | template process, failure count, stage, shell state | exec_python, exec_shell, reset_guest, resync, relays | a fork from a process that may be dying, an exec that crashes, times out or is cancelled while it relays | one result an exec; a crash on a warm worker costs one retry; a hostile template is replaced |
| `dud/guest/runner.py` `CacheView`, `template.py` | local writes, fetched bytes, deletes | get, set, delete, flush | in-place changes found only at flush; applied only if the exec was ok | an exec's cache changes happen all at once or not at all |
| `dud/guest/shell.py`, `emit.py`, `hostcall.py` | pipes, buffers, a file lock | the pump, emits, host calls | partial reads, a killed caller, a reader that never reads | one answer a call, the right one; no stall past the deadline |
| `dud/guest/staging.py`, `diffscan.py` | lower and upper trees | push, diff, rebase, reset | whiteouts, opaque directories, replaced kinds | the overlay's diff is what a scan would report |
| `dud/guest/init.py` | mounts, the redial loop | boot, redial | a bounded redial against a thaw that is late | a guest nobody dials dies |
| `dud/images/*`, `kernels.py`, `values.py`, `results.py`, `errors.py`, `backends/subprocess.py` | files, conversions | builds, encodings | I/O and formats | not modelled |

The pool calls sessions, sessions call the channel, the channel carries requests
both ways: verbs from the host (exec, push, diff, reset, freeze, shutdown), and
cache reads, emits and host calls from the guest. `session.close()` is two
operations: with a pool behind it, it calls `VmPool.release`; otherwise it stops
the VM. That double role, and the fact that a pool may take a VM back from an
owner, is where most of the hazards in `PROJECT.json` are.

## The modules

| Module | What it is |
|---|---|
| `VmPool` | the pool, its sessions and as much of each guest as outlives a hand-over |
| `VmPoolInv` | the inductive invariant of `VmPool`, in named parts |
| `VmPoolProofs` | `TypeCorrect`, `CustodyCorrect`, `ClaimsCorrect`, `FloorHolds` |
| `VmPoolWireProofs` | `WireCorrect`, `LostCorrect` |
| `VmPoolCareProofs` | `PoolInvariant`, `LeakFree`, `ParkedCorrect`, `BindingCorrect`, `HandoffCorrect`, `CapHolds` |
| `MCVmPool` | symmetry and view for TLC |
| `Channel` | both ends of `dud.proto.Channel`, with `cancel()` |
| `Rpc` | what the channel promises: requests, answers, cancels, no wires |
| `ChannelProofs` | how requests nest, `ChannelNests`, and five theorems from it, `ChannelKeepsPromise` among them |
| `MCChannel` | the instance of `Channel` for TLC |
| `ShellExec` | one `exec_shell`: the script, its emits and host calls, the pump |
| `ShellExecProofs` | `ShellTyped`, `PairIsWhole`, `OwnAnswerComesBack`, `EmitsComeThrough` |
| `MCShellExec` | the instance of `ShellExec` for TLC |
| `GuestExec` | `exec_python`: supervisor, template, runner and cache view |
| `CacheTxn` | what the cache view promises: one transaction an exec |
| `GuestExecProofs` | `CacheIsTransactional`, `ListingCorrect`, `TypesCorrect`, `TemplateStrikesOut`, `KillsReach`, `RetryIsSafe` |
| `MCGuestExec` | the instances of `GuestExec` for TLC |
| `Rundir` | a session's directory and VMM, its host's death, other hosts' sweeps |
| `RundirProofs` | `TypesHold`, `MarkerTellsTheTruth`, `ClosedIsClean`, `SweepsSpare` |
| `MCRundir` | the instances of `Rundir` for TLC |
| `Trees` | workspace trees, what code does to them, the index and the diff of two |
| `ScanStage` | staging with two plain trees; also what any staging promises |
| `OverlayStage` | staging with an overlay: harvest and replay |
| `OverlayProofs` | `LayersStand`, `OverlayIsStaging`, `HarvestMatchesScan` |
| `MCOverlayStage` | the instances of `OverlayStage` for TLC |

### VmPool

The threads are `Owners` (they acquire, use and close), `Workers` (the daemon
threads of `_refill` and `_seed`) and `Closers` (callers of `VmPool.close()`).
`pc[t]` is where a thread stands between two critical sections or two calls that
block, `hold[t]` the session it has in its local variable. Each section under
`_lock` is one action, each blocking call is one action or a begin and an end,
and any other thread may run in between. So `release` is `Close` (stamp the tag,
leave `_bound`), `Reset` or `ResetFails` or `ResetDiscards`, and `Park`;
`acquire` is `AcquireBegin`, `AcquireTakes` or `AcquireMisses`, `ReclaimIdle` /
`ReclaimBound` / `Roomy` (`_make_room`, again and again), `Ping` or `Thaw`,
`NotBack`, `Rebind`, or `Fresh`, `Bind` and `Seed`.

A thread often picks a VM under the lock and tears it down later, so `kill[t][v]`
says how far thread `t` is with ending `v`: picked (`queued`, or `reclaimed` when
it knows that the VM had an owner), unregistered (`unhook`, `abort`), off the
pool's hook (`close`), inside `session.close()` (`wait`). Several threads may be
at it for one VM at once, and the model lets them.

`sess[v]` is the guest: up, down (its channel is dead), frozen, gone. `lost`,
`closed` and `pooled` are the session's `_lost`, `_closed` and `_pool`. `env` and
`tree` are what an owner leaves behind in a guest; `bind` says whose cache and
host objects answer it. `newer` is the order of the buckets of `_idle`.

Abstractions: a fingerprint is a key and all keys may have golden snapshots; time
is a choice of which parked VMs are past the ttl, older ones first; the victim of
`_make_room` among quiet bound VMs is any of them, where the code takes the least
recently used (so every behaviour of the code is one of the model); `close()`
tears the VMs it took down in any order; `seed()` by a caller is only offered
when `auto_seed` is off, where it differs from the automatic one. An object
nobody refers to may be reused for the next boot; the size of `VMs` then bounds
the objects alive at once.

### Channel

Each end has a stack of what it is in the middle of: frames of `request()` and of
`_serve_one()`. The host's owner may start a request when its stack is empty, a
handler may start one inside (the guest's relays; on the host, a host object that
calls back into its session, when `Reentrant`). `Publish` and `SendRequest` are
the two halves of the section under `_send_lock`: publishing the id and writing
the frame, during which nobody else writes but anybody may read the id.
`cancel()` is `CancelReads`, without the lock, then `CancelSends`. `wire[e]` are
the frames on the way to `e`, in order. Every request of the host is an exec
here; a handler may end at any moment, and one that was cancelled may say so.

A lost session is terminal (`_request` refuses everything after), and the model
stops there. Framing, the hello and the seconds of a deadline are abstracted: a
deadline may pass whenever the host waits. `serve()` ended by the shutdown and
freeze verbs is in `Rundir`.

`Rpc` is the abstract specification: requests that get made, sent, served,
answered and returned, each end's own innermost first, and cut short only if
somebody cancelled them by name. `Channel!KeepsPromise` is the refinement.

### ShellExec

One script in the guest. It, or what it leaves behind (`daemon`), starts
`dud-hostcall` commands (`Locks`, `Asks`, `Reads`, `HungUp`) and `dud-emit`
commands (`Begins`, `Sends`), and may kill any of them (`Kill`): an flock dies
with its holder, a frame half written or an answer not read stays in the pipe.
A frame is two pieces for that reason. The pump is one thread: `pc` is where it
stands in `_pump`, `TopStops`, `TopExits` and `Select` are one pass up to
`select()`, then the emits are read and relayed line by line (`ReadEmits`,
`Dispatch`, `EmitsRead`), then the host calls (`Answer`, `Responds` or
`RespondDrops`, `CallsRead`). A relay is a request on the channel of `Channel`
and may read the host's cancel there (`Relays`). At the end come the drain of the
emits and `_replay`. Half-written emits, malformed requests and stale answers go
through `Of`, which says whom a line is from, if it is a frame at all.

Abstractions: the transcript, the frame caps, values and the contents of cwd and
env are left out; a deadline has passed or not, so that the time a relay gives
back is a deadline that passes later; `Starts` bounds the commands of one script.
Pipes to the supervisor do not fill: a writer that blocks is one that has not
written its second piece yet. A second request in one read, which gets a deadline
without the relay of the first, is a listed hazard.

### GuestExec and CacheTxn

The host asks for an exec (`Python`), the supervisor gets a runner for it, forked
by the template (`Asks`, `TemplateForks`, `GotPid`, `Trouble`) or spawned, and
pumps: `Stops` (deadline or cancel), `FindsItDead`, `TakesResult`,
`TakesRequest` and `Relays`. `Reap` is the `finally` of `_exec_once` with the
circuit breaker (`NotesOutcome`) and the second chance of `do_exec_python`
(`Retries`); `Answer` is the host's `python()`, which applies the cache changes
of a result that is ok. The template warms up, closes its socket or dies when the
supervisor is at a point where it would look; `Ping` and `Refreshes` (resync,
`reset_guest`) look between execs. The runner sets its process group (`SetsGroup`),
serves, and its code does what it likes with the cache view (`CodeAsks`,
`CodePuts`, `CodeMutates`, `CodeDeletes`), with files (`WritesFile`) and with its
own process (`RunnerFails`: it crashes, or closes its socket and lives on).

`CacheTxn` is the promise: the code has the cache as a dictionary of its own,
fixed at its first look at each key, and all of its changes reach the host or
none. `OneTransaction` is the refinement, with the view computed from `local`,
`deleted` and `missing`.

Abstractions: a value is its pickle; inputs, outputs, hooks and limits are left
out; a cap is a flush that fails; a relay is a request on `Channel` that may
bring a cancel. An exception reaches the supervisor as the name of its class,
which user code chooses, so that code may report `RunnerCrash` or `Timeout`; both
count for the breaker, and a reported `RunnerCrash` is retried
(`supervisor.py` 609, 677). `OverlayStage`'s read-only remount is the constant
`Overlay`: with `ScanStage` the retry's "state can't have moved" does not hold.

### Rundir

`pc` is where the session's host stands between two steps that another process
can see: the constructor (`MakeDir`, `Bind`, `Spawn`, `WritePid`, `Configure`,
`Accept`, `Hello`, `Resync`), freeze (`CloseListener`, `FreezeVerb`,
`MarkFreezing`, `Pause`, `Snapshot`, `PublishFrozen`, `KillVmm`, `FreezeDone`),
thaw, which goes through the same steps with `frozen` set and then `Unmark`, and
close. `BindFails`, `TryFails`, `ThawStrands`, `GreetFails` and `FreezeFails` are
the ways out of each `try` block or past it, and `HostDies` may come anywhere.
`files` is the directory: markers, whether the recorded pid is the present VMM's,
what there is of a snapshot. `vmm` is the VMM process and its guest, which dials,
gives up, sees EOF or dies. `at[s]` is where another host stands in
`sweep_stale_rundirs`, one look at a file at a time; `crossed` are the sweeps
during whose look the host changed a marker.

Abstractions: pids of dead owners are not reused (the argv check is for VMM pids);
a boot gets to its pid file within the ten minutes a sweep allows; a sweep that
has begun ends; `rmtree` is one step; a session whose freeze or thaw raised is
only closed afterwards. Scratch volumes, golden stores and command lines are left
out; a session that restores from a golden snapshot is one that is told to load it.

### Trees, ScanStage, OverlayStage

`Trees` gives the workspace: files with content and mode, directories, links that
all point to one path, and `index_tree` and `scan_diff` over two trees.
`ScanStage` is staging with a work tree and a baseline, which is also the abstract
specification. `OverlayStage` has a snapshot and an upper directory, the kernel's
part of which (what each change leaves in the upper: whiteouts, opaque
directories, copies up, opaque optionally where the kernel may) is external.
`Writes` and `Deletes` are `harvest`, rule by rule, with its lookups through the
snapshot's links; `Replayed` is `replay`, a recursive function over a walk in depth.
`Walks` are all of those: a directory comes before what is in it, its subtree comes in
one piece, and siblings come as `os.scandir` lists them, in any order; a rebase takes
any.
`ImplementsScan` says that the merged view and the snapshot behave as the two
trees of `ScanStage`; `Parity` that harvest reports the diff of those two.

Abstractions: one link target and no chains; no mtimes (a copy is the same if
its bytes are); a push goes to empty trees, since it clears them first; names of
directories never look like compiled code. The fallback from overlay to scan, the
read-only remount and tar are left out.

## The runs

| Run | Instance | Shows |
|---|---|---|
| `pool_reclaim` | 2 owners, 3 VMs, `max_total` 1, one tag, no snapshots, ttl, faults | types, custody, one speaker a wire, the lost latch, what a parked VM holds, bindings, `resumed` |
| `pool_cloning` | 1 owner, 1 worker, 1 closer, 3 VMs, snapshots, affinity 1, warm level 1, ttl, faults | no leak, the warm floor, and the whole inductive invariant |
| `pool_cap` | 1 owner, 3 workers, 4 VMs, 2 keys, `max_total` 2, `auto_seed` | the cap counts seeds; one worker a claim |
| `pool_live` | 1 owner, 1 worker, 2 VMs, `auto_seed`, faults, fairness | acquire returns; seeds give their slot back |
| `channel` | 3 requests an end, nesting 4 deep, 2 cancels, re-entrance, faults, fairness | frames fit, no mutual wait, the books, cancels end, `Rpc` |
| `shell` | any 2 of 2 host calls and 2 emits, an answer pipe of 2 pieces, kills, deadline, cancel, fairness | own answers, emits in order and complete, no wait without end, state taken whole |
| `exec` | 2 execs, 2 keys, 2 values, 3 operations, 1 store by the host, faults | `CacheTxn`, listings, the breaker, safe retries, no runner left |
| `rundir` | vfkit, firecracker, golden; 2 sweeping hosts; faults, host death, fairness | true markers, nothing left behind, sweeps that spare, everything reaped |
| `overlay` | 5 paths, 3 deep, 1 content, 2 modes, ignored names or none | harvest reports what a scan would; `ScanStage` |
| `exec_readonly`, `rundir_dangling`, `overlay_link` | small | three disagreements with the repository's own words, below |

Bounds. The pool's properties are about one VM and the threads that touch it:
two owners under a cap of one give every reclaim against every step of a use, a
release and another reclaim; a third VM is the one that is booted while the first
two are being ended. One tag and "no tag" tell affinity from hygiene, a warm level
of one tells the floor from nothing, three workers on two keys are a refill and a
seed a key with one to spare. `MaxId` 3 and `MaxDepth` 4 in the channel let each
end call back twice inside a call and still have a later request for a late cancel
to hit. Two commands in the shell are one that is killed and one that comes after
it, or two that compete; the answer pipe is full with one unread answer. Two execs
with a retry each give the breaker its two strikes and a third run; three
operations read a key, change it and touch another, or delete it and set it again.
Two sweeps are one that removes what another is looking at. Three levels of paths
give a whiteout under a copied-up directory under an opaque one, and a name below
the link's target is what a lookup through the link finds; the two directories side by
side give a rebase its two walks. Symmetry and the view
of `MCVmPool` are not used in runs with liveness properties, and the view drops
only what no later step reads.

`CHECK_DEADLOCK FALSE`: callers may stop calling, and the models then rest. The
overlay runs never rest and are checked for deadlock.

Fairness. Threads run, and a request ends by an answer, an error or its deadline,
so an owner inside the pool's code, a worker and a teardown are weakly fair; calls
by owners, faults and ttl are not. In the channel either end reads and writes what
it can; the only handlers that are sure to end are the host's and an exec that was
cancelled, which the supervisor kills (`supervisor.py` 698-715); a cancel that has
read an id goes on to send, and a guest that died is noticed. `CancelEnds` is
checked with exec code that never ends by itself. In the shell the supervisor
runs, and so does a command that has begun; the script may do nothing for ever and
no deadline is counted on, so the exec's end comes from the script's or a cancel.
In `Rundir` the session's own host owes nobody a step; a guest's dial has a
deadline and EOF wakes it, ten minutes pass, dropped objects are collected, and
sweeps go on and are started again, since each new host sweeps once.

## What was found

Shown by a run that expects the violation:

1. `staging.py` 210: `harvest` looks an upper file up through the links of the
   snapshot. Where the snapshot has a link to a directory and the guest put a real
   directory with a copy of a file in its place, the copy is compared with the file
   behind the link and its write is left out of the diff for good (`overlay_link`).
   `Parity` holds but for that case and for ignored names that change their kind.
2. `vm.py` 206: a firecracker whose host dies between `Popen` and the call that
   starts a guest never ends: there is no guest to see EOF, and a sweep takes the
   live pid for a running VM (`rundir_dangling`). `Reaped` holds otherwise, for
   sweeps that the host did not cross as it died.
3. `runner.py` 202: a read-only cache view ships in-place changes, and the host
   applies them (`exec_readonly`).

Stated in the modules but run by no configuration of this directory (small
instances of the same modules break each of them):

4. `pool.py` 561: a refill counts the live VMs itself and forgets the seeds that
   `_live_locked` counts, and boots past `max_total` next to one
   (`RefillSeesTheCap` of `VmPool`).
5. `pool.py` 534: an acquire that drains a level while its refill is between its
   last look and the release of its claim starts no other; the level stays low
   until the next acquire (`WarmAtRest`).
6. `pool.py` 662: a release that left `_bound` before `close()` took it parks its
   VM in the closed pool, which the docstring of `close()` says it prevents
   (`NothingAfterClose`).
7. `proto.py` 327: a cancel that names an outer exec while an exec nested in it is
   served is dropped, though `cancel()` returned True and its request has not been
   answered (`CancelTakesHold` of `Channel`).
8. `hostcall.py` 145: the lock of a `dud-hostcall` that is killed is free while its
   answer is still on the way; the next caller reads it as its own (`OwnAnswer` of
   `ShellExec`). `OwnAnswerUnlessKilled` holds otherwise.

What the models show and no line of the repository denies. In the pool: on a
cloning rung the affinity limit, not the warm level, cuts a bucket
(`pool.py` 666-671), so `FloorKept` is claimed for warm levels within that limit,
or a limit of zero, with which such a rung parks nothing on release; `_rebind` clears
the latch of a session that was lost and whose guest is dead for good
(`pool.py` 716-721), so `LostStaysOut` speaks of guests that could still answer;
with two owners under a cap of one an acquire can lose every race for a park
for ever, so `AcquireReturns` is claimed for one. In the shell: an answer that
nobody reads keeps the pump from seeing a cancel or the script's exit until the
deadline (`shell.py` 425-453), which `CancelStops` and `EndsWithScript` except; a
script that another process kills between the two writes of its trap has its cwd
taken without its env (`shell.py` 678), which `PairOrNothing` excepts. In the
supervisor: a forked child that is killed before it has called `setsid` survives
(`supervisor.py` 786-798), which `NothingOutlives` excepts; a template that closed
its socket but has not died yet is switched off and not restarted (279-285); code
may name its exception `RunnerCrash` and be run twice.

Around the run directory: a sweep that finds `freezing` or `frozen` by `exists()`
and reads it after the host has removed it takes the directory for ownerless and
removes it under a live session, and one that looks for `frozen` before a freeze
and for the VMM after it removes the park (`Spared` excepts sweeps that a marker
change crossed); a sweep crossed as the host dies may take the freezing marker
from a paused VMM, which then stays (`Reaped` excepts it). A thaw whose `Popen`
or pid file fails leaves an idle VMM that close does not look for (`stray`); a
constructor whose greeting fails leaves its directory to the next host's sweep;
after a thaw whose greeting failed, close removes the directory and leaves the
channel and a running guest to Python's collector, past a reference cycle
(`vm.py` 570-579). By reading only: `golden.py`'s `os.replace` onto a directory
that is not empty fails, so that the first publisher wins and the loser's staging
directory stays.

## What is proved

Each theorem holds for every value of the constants that satisfies the named
assumptions of its module; nothing is assumed finite. Each proof has one step for
an action and cites the parts of an invariant that the action can disturb.

`VmPool` (`ThreadsAssumption`, `ParametersAssumption`: threads are told apart,
`None` is not a name, settings are numbers or flags):

- `TypeCorrect`: `Spec => []TypeOK`. Not inductive alone: what a step stores
  comes from a local variable of its thread, so the invariant is `Typed`, types
  and `HoldsWhere` (where a thread stands tells whether it has a session).
- `CustodyCorrect`: `Spec => []SoleCustody`, from `Custody`, which adds
  `BoundIsRegistered`: a VM in `_bound` is held only by an owner past its
  registration. Without it a release of a VM that is also bound elsewhere could
  park it twice.
- `WireCorrect`: `Spec => []NoCrossTalk`, and `LostCorrect`:
  `Spec => []LostStaysOut`, from `Doom`. Its heart is `AloneWhenDoomed`: a
  teardown that does not first shut down the channel is the only one that has the
  VM, unless the VM is of no use to anybody; a reclaim of it may be pending, but
  that one aborts the wire before it speaks. `FrozenWhere`, `AbortsAreLive`,
  `UsableIsPooled` and `WorkersUndisturbed` say where a VM may be when a teardown
  reaches it. `_abort_channel`, the explicit `had_owner`, and the order of
  unregistering and unhooking in `_teardown` are what each step needs.
- `LeakFree`: `Spec => []NoLeak`, from `Accounted`. That somebody will end each VM
  rests on the `closed` latch and on the order in a teardown: a VM that was closed
  and is off the pool's hook is gone or somebody waits for its end
  (`ClosedIsEnding`); a VM is off the hook before its close begins
  (`UnhookedFirst`); an owner's registered VM is in `_bound` or its end has begun
  (`RegisteredIsBound`); and a thread has no teardown of its own left when it begins
  to work with a session (`DoneBeforeWork`), so that what it queues next replaces
  nothing that is still owed.
- `ParkedCorrect`: `Spec => []ParkedIsReset`, and `HandoffCorrect`:
  `Spec => CleanHandoff`, from `Contents`, which follows the guest's contents from
  a worker's boot to the park, to the owner's hands, and through its release.
- `BindingCorrect`: `Spec => []BoundToHolder`, from `BindsFor`.
- `ClaimsCorrect`: `Spec => []OneWorkerPerClaim`, which is inductive with the types.
- `PoolInvariant`: `Spec => []IInv`, all of the above but `ClaimsCorrect` as one
  formula.
- `FloorHolds`: `AffinityHoldsLevels /\ Spec => FloorKept`, under the hypothesis that
  a cloning rung whose affinity limit is positive has no warm level above it; TLC
  finds the floor broken without it (limit 1, level 2). The invariant is `Floors`:
  `newer` is a strict order of the parked VMs, a warm level is one that was asked for,
  and a release parks only where the rung parks at all. What a bucket keeps is what
  `Newest` says of any finite ordered set: its m newest members are at least m, or
  all. Each step that takes VMs out takes only those with enough newer ones ahead.
- `CapHolds`: `OneOwner /\ Spec => []WithinCap`. `OneOwner` says one owner, a pool that
  is not closed, no warm levels, a cloning rung that seeds by itself, and a cap above
  zero; TLC finds the cap exceeded when any one of them is dropped. A slot belongs to a VM
  that runs and is no worker's, or to a seed, whose VM counts under its claim
  (`Slots`). What `_make_room` returned with is still free when the boot begins, since
  only the owner starts seeds and nothing refills. Seeds alone never fill the cap,
  because a cold boot's own VM is bound before it starts one (`SeedIsBound`), so an
  owner that needs a slot can always get one.

`Channel` (`ChannelParameters`: the bounds are numbers), any number of requests and
any depth. The invariant `ChannelInv` says how the two ends' stacks fit: the frames of
an end alternate between asking and serving (`Alternates`), at each depth one end asks
what the other serves, under one id (`Paired`), and one end at a time is at work: both
are equally deep with nothing but cancels on the wire, or one is a request ahead
which is being made, on its way, or answered (`Turn`). Ids only grow (`Ordered`),
each frame keeps the id its book had before it (`Books`), and only a request that
was named can be cut short (`CutsAreNamed`).

- `ChannelNests`: `Spec => []ChannelInv`. `ChannelTyped`: `Spec => []TypeOK`.
- `FramesAlwaysFit`: `Spec => []FramesFit`, and `NoMutualWait`:
  `Spec => []NeverBothWait`, both read off `Turn`.
- `BooksAlwaysMatch`: `Spec => []BooksMatch`: the innermost request of an end is its
  top frame or the one below, so that the single `outer` of a frame is enough to
  put `awaiting` and `serving` back after any unwinding.
- `ChannelKeepsPromise`: `Spec => KeepsPromise`, the refinement of `Rpc`: `Ordered`
  makes a request's id its name, and `Turn` says which of its stages the two
  stacks and the wire stand for.

`GuestExec` (`ExecParameters`: `None` and `Unseen` are no values and no messages):

- `CacheIsTransactional`: `Spec => OneTransaction`, the refinement of `CacheTxn`
  step by step. The invariant `ViewInv` has four parts: types; `Books` (what was
  fetched is what the code saw first; deleted and missing keys have no value);
  `InTransit` (nothing moves in the view while its message is on the way: a key
  that is asked for is still unseen when the answer comes, and what was flushed is
  still the view when the host applies it); `Placed` (where a runner may be).
  `Relays` is a first look, `Reap` and a runner's end begin anew, `Answer` commits.
- `ListingCorrect`: `Spec => []ListingAgrees`, from `Listing`: a key the view knows
  to be missing has no value and is not deleted, and a runner that has a listing has
  no message on its way up that could change what the listing says.
- `TypesCorrect`: `Spec => []TypeOK`, from `Bounded`: an exec gets two runs and
  spends them, which is what bounds the runners that are left behind.
- `TemplateStrikesOut`: `Spec => []TwoStrikes`, since a failure in a row is one on
  the books (`Counted`). `KillsReach`: `Spec => NothingOutlives`. `RetryIsSafe`:
  `Spec => RetryOnUnmoved`, under the assumption `Overlay`; both from `Forking`.

`ShellExec` (`ShellParameters`: calls, emits and `None` are told apart, the bounds are
positive), any number of commands and any size of the answer pipe:

- `ShellTyped`: `Spec => []TypeOK`. That a buffer with a newline has a first line is
  a lemma of its own, from the well-ordering of the numbers.
- `PairIsWhole`: `Spec => []PairOrNothing`, from `Pairing`: how far the trap has
  written goes by how far the script has come, and only a script that came to its
  own end is replayed.
- `OwnAnswerComesBack`: `Spec => []OwnAnswerUnlessKilled`, from `OneExchange`: only
  the call that has `hostcall.lock` has anything on the wires, and its round trip is
  at one of four points (`Writing`, `Asked`, `Answered`, `Dropped`). This is what
  lets frames do without ids; a call that is killed in the middle breaks it, which
  is why the property excludes that.
- `EmitsComeThrough`: `Spec => []EmitsDelivered`, from `Delivery`, which looks at the
  emit pipe and the pump's buffer as one stream of halves of frames. `Framed`: the
  holder of `emit.lock` has the last half, and any other first half is followed by its
  second, or its writer is dead. `Ledger`: only done commands have sent, what is heard
  was sent, and nothing is sent or heard twice. `InOrder`: the stream and what was
  heard keep the order of the sends. `Covered`: the records that were lost are no more
  than the dead writers whose half is no longer in the stream. `Drains`: what the drain
  has not read yet was sent after the script was over. `Covered` counts halves, not
  writers: the half that will spoil a record may still be on the pipe.

`Rundir` (`RundirParameters`: a rung that restores also freezes), any number of
sweeping hosts:

- `MarkerTellsTheTruth`, `ClosedIsClean`, `SweepsSpare` and `TypesHold` from one
  invariant in five parts: types; `Markers` (flag, marker and snapshot change
  together but for named steps in between); `Machine` (no guest dials between the
  freeze verb and the spawn of a thaw); `Pids` (an old pid is on record only while
  a thaw is under way); `Sweeps` (what a sweep that was not crossed knows of the
  directory is true). `SweepsSpare` needs them all: a sweep that found no marker
  and a dead pid is right only because a thaw keeps its frozen marker until after
  the greeting, and because each change of a marker crosses the sweep.

`OverlayStage` (`TreeParameters`: finitely many paths, sequences of names, each with its
parents; `IgnoringNames`), paths of any depth and number. The invariant is `Layered`:
types; the snapshot is a tree; an upper entry stands under directories of the upper
(`Stands`); a directory that was copied up hides no file or link of the snapshot
(`Copied`). `Copied` is what makes the two layers agree: without it a plain
directory in the upper would merge with a file below it.

- `LayersStand`: `Spec => []Layered`, by each operation of the stage and each change of
  the guest. `PutShows` says what the merged view shows after any change of the upper
  at one path, whatever was there.
- `OverlayIsStaging`: `Spec => ImplementsScan`, the refinement of `ScanStage`. A change
  in the guest is one of the work tree; a reset and a push begin `Afresh`. For a rebase,
  `WalkStep` says that after any part of a walk the tree is what the guest would see
  if the upper held only the entries met so far, and `ReplayedIsMerged` that the
  recursive function therefore ends with the merged view, along every walk: the least
  step at which it would not is none.
- `HarvestMatchesScan`: `Spec => []Parity`. Where the upper has an entry, a lookup in the
  snapshot goes through no link unless one was replaced (`LookupsAreDirect`), so the
  writes match. What is gone was hidden by an entry in its own place or by one above;
  the topmost of those (`Topmost`) is the one that harvest asks for it, as a whiteout, an
  opaque directory, a link or a file in a directory's place (`GoneAreDeletes`), and no
  rule names a file that is still there (`DeletesAreGone`). The two exceptions are the
  property's own: `overlay_link` shows the first to be real.

Each invariant was checked by TLC on the run's instance before it was proved;
`pool_cloning` checks the pool's as one formula. Every invariant, every action
property and every refinement that a passing run checks is also a theorem. Only
model-checked is liveness (`AcquireReturns`, `SeedsEnd`, `CancelEnds`, `Reaped`,
`EveryCallEnds`, `EndsWithScript`, `CancelStops`), which rests on fairness and on
`ENABLED`: both are beyond the prover.

## What is left

Next in order: a module for the store of golden snapshots and for scratch promotion,
which covers the publish that a dying host leaves half done.

Not modelled: image building, kernels and registries (downloads and file formats,
content-addressed and published by rename); `values.py`, `results.py` and rendering
(conversions without state); the subprocess rung (a session over a socketpair with
nothing concurrent of its own); mounts and devices at boot; the command lines and
API payloads of the VMMs; byte framing. A model of any of these would restate the
code.
