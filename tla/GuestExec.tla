------------------------------- MODULE GuestExec -------------------------------
(***************************************************************************)
(* exec_python: the host asks, the supervisor runs the code in a runner    *)
(* of its own, forked from a warm template or spawned, and pumps between   *)
(* the runner and the host until there is a result (guest/supervisor.py,   *)
(* template.py); in the runner the code has a view of the host's cache     *)
(* (runner.py), whose changes the host applies with the result (base.py).  *)
(*                                                                         *)
(* A value is its pickle.  Output, inputs, outputs and their caps are left *)
(* out; a cap on the cache's writes is a flush that may fail.              *)
(***************************************************************************)
EXTENDS Naturals, FiniteSets

CONSTANTS
  Keys, Vals,   \* of the cache
  None, Unseen,
  Execs,        \* bound: how many execs the host asks for
  Ops,          \* bound: what the code does in all
  HostPuts,     \* bound: what the host's own code stores in the cache meanwhile
  Kinds,        \* what it asks: fs_readonly, cache_readonly
  Overlay,      \* fs_readonly is a real remount (OverlayStage, not ScanStage)
  Faults        \* processes die on their own, the template does not answer in time

ASSUME ExecParameters ==
  /\ None \notin Vals /\ Unseen \notin Vals \cup {None}
  /\ None \notin {"get", "keys", "call", "ok", "Error", "Timeout", "Cancelled", "RunnerCrash"}
  /\ Kinds \subseteq [fs : BOOLEAN, ro : BOOLEAN]
  /\ {Execs, Ops, HostPuts} \subseteq Nat /\ {Overlay, Faults} \subseteq BOOLEAN

VARIABLES
  cache,    \* HostSession.cache
  call,     \* the exec in flight: fs_readonly and cache_readonly
  execs, puts,
  pc,       \* where the supervisor stands
  noted,    \* it has read a cancel
  forked,   \* this run is on a forked worker
  result,   \* what the run came to: ok, or an error's etype
  tmpl,     \* the template: _template is set, _template_ready, the process, its R sent
  fails,    \* _worker_failures
  run,      \* the runner
  sent,     \* it has been sent the request
  mail,     \* its message on the exec socket
  ops,
  local, fetched, deleted, missing,    \* its CacheView
  todo,     \* what its request upstream is for
  flushed,  \* what it has shipped: cache_writes and cache_deletes
  base,     \* history: each key as the code first saw it
  listed,   \* history: the keys the code was just told
  answered, \* history: this run's code has come to its end
  moved,    \* history: code has changed the workspace in this exec
  streak,   \* history: failures in a row of the present template's workers
  astray    \* history: runners that have a request and that no kill will reach

hostVars == <<cache, call, execs, puts>>
tmplVars == <<tmpl, fails, streak>>
viewVars == <<local, fetched, deleted, missing, base, listed, flushed>>
runVars  == <<run, sent, mail, ops, todo, answered, moved>>
vars == <<hostVars, pc, noted, forked, result, tmplVars, viewVars, runVars, astray>>

Nothing == [k \in Keys |-> None]
Blank == [k \in Keys |-> Unseen]

Off == [held |-> FALSE, ready |-> FALSE, proc |-> "none", warm |-> FALSE]
Started == [held |-> TRUE, ready |-> FALSE, proc |-> "importing", warm |-> FALSE]

Init ==
  /\ cache \in [Keys -> Vals \cup {None}]
  /\ call = None /\ execs = 0 /\ puts = 0
  /\ pc = "idle" /\ noted = FALSE /\ forked = FALSE /\ result = None
  /\ tmpl = Started /\ fails = 0 /\ streak = 0
  /\ run = "none" /\ sent = FALSE /\ mail = None /\ ops = 0 /\ todo = None
  /\ local = Nothing /\ fetched = Nothing /\ deleted = {} /\ missing = {}
  /\ base = Blank /\ listed = None /\ flushed = None
  /\ answered = FALSE /\ moved = FALSE /\ astray = 0

-----------------------------------------------------------------------------
(* The template.                                                           *)

\* _drop_template and _start_template; a start that fails leaves none.
Restarts == {Started} \cup (IF Faults THEN {Off} ELSE {})

\* _worker_state: what it makes of the template.
WorkerState ==
  IF ~tmpl.held THEN {tmpl}
  ELSE IF tmpl.proc = "dead" THEN Restarts
  ELSE IF tmpl.ready THEN {tmpl}
  ELSE IF tmpl.warm THEN {[tmpl EXCEPT !.ready = TRUE]}
  ELSE IF tmpl.proc = "closing" THEN {Off}
  ELSE {tmpl}

Replaced == tmpl' \in Restarts /\ streak' = 0

\* What becomes of it matters, and happens here, where the supervisor may look.
Watched == pc \in {"idle", "fork", "asked"} /\ (pc = "idle" => execs < Execs)

Warms ==
  /\ Watched /\ tmpl.proc = "importing"
  /\ tmpl' = [tmpl EXCEPT !.proc = "parked", !.warm = TRUE]
  /\ UNCHANGED <<hostVars, pc, noted, forked, result, fails, streak, viewVars, runVars,
                 astray>>

\* Its socket closes before its parent can see it dead.
TemplateDies ==
  /\ Watched /\ Faults
  /\ \E next \in {"closing", "dead"} :
       /\ tmpl.proc \in IF next = "dead" THEN {"closing"} ELSE {"importing", "parked"}
       /\ tmpl' = [tmpl EXCEPT !.proc = next]
  /\ UNCHANGED <<hostVars, pc, noted, forked, result, fails, streak, viewVars, runVars,
                 astray>>

\* ping reports the state of the template, and asking may change it.
Ping ==
  /\ pc = "idle" /\ execs < Execs
  /\ tmpl' \in WorkerState
  /\ streak' = IF tmpl' = tmpl \/ tmpl'.ready THEN streak ELSE 0
  /\ UNCHANGED <<hostVars, pc, noted, forked, result, fails, viewVars, runVars, astray>>

\* The resync after a thaw, and reset_guest, which kills every other process first.
Refreshes ==
  /\ pc = "idle" /\ execs < Execs
  /\ Replaced /\ fails' = 0
  /\ astray' \in {astray, 0}
  /\ UNCHANGED <<hostVars, pc, noted, forked, result, viewVars, runVars>>

-----------------------------------------------------------------------------
(* The supervisor.                                                         *)

Python(kind) ==
  /\ pc = "idle" /\ execs < Execs
  /\ call' = kind /\ execs' = execs + 1
  /\ pc' = IF kind.fs THEN "fork" ELSE "spawn"
  /\ UNCHANGED <<cache, puts, noted, forked, result, tmplVars, viewVars, runVars, astray>>

\* Whatever shares the session with this call, a host object among them; the host looks
\* at its cache when it answers a request and when it takes the result.
HostPut(k) ==
  /\ pc \in {"relay", "answer"} /\ puts < HostPuts
  /\ \E v \in (Vals \cup {None}) \ {cache[k]} : cache' = [cache EXCEPT ![k] = v]
  /\ puts' = puts + 1 /\ listed' = None
  /\ UNCHANGED <<call, execs, pc, noted, forked, result, tmplVars, local, fetched,
                 deleted, missing, base, flushed, runVars, astray>>

Asks ==
  /\ pc = "fork"
  /\ tmpl' \in WorkerState
  /\ streak' = IF tmpl' = tmpl \/ tmpl'.ready THEN streak ELSE 0
  /\ pc' = IF tmpl'.ready THEN "asked" ELSE "spawn"
  /\ UNCHANGED <<hostVars, noted, forked, result, fails, viewVars, runVars, astray>>

\* A CacheView goes with its runner.
Forgets ==
  /\ local' = Nothing /\ fetched' = Nothing /\ deleted' = {} /\ missing' = {}
  /\ base' = Blank /\ listed' = None /\ flushed' = None

\* A runner before it has taken its request.
NewRun(state) ==
  /\ run' = state /\ sent' = FALSE /\ mail' = None /\ answered' = FALSE

TemplateForks ==
  /\ pc = "asked" /\ tmpl.proc = "parked" /\ run = "none"
  /\ NewRun("fresh")
  /\ UNCHANGED <<hostVars, pc, noted, forked, result, tmplVars, viewVars, ops, todo, moved, astray>>

GotPid ==
  /\ pc = "asked" /\ run # "none"
  /\ forked' = TRUE /\ pc' = "send"
  /\ UNCHANGED <<hostVars, noted, result, tmplVars, viewVars, runVars, astray>>

\* Any trouble on the control channel: what was forked finds its socket closed.
Trouble ==
  /\ pc = "asked" /\ Faults
  /\ Replaced
  /\ run' = "none" /\ pc' = "spawn"
  /\ UNCHANGED <<hostVars, noted, forked, result, fails, viewVars, sent, mail, ops, todo,
                 answered, moved, astray>>

Spawn ==
  /\ pc = "spawn"
  /\ NewRun("up") /\ forked' = FALSE /\ pc' = "send"
  /\ UNCHANGED <<hostVars, noted, result, tmplVars, viewVars, ops, todo, moved, astray>>

Ends(etype) == result' = etype /\ pc' = "reap"

Send ==
  /\ pc = "send"
  /\ \/ run = "dead" /\ Ends("RunnerCrash") /\ UNCHANGED sent
     \/ run # "dead" /\ sent' = TRUE /\ pc' = "pump" /\ UNCHANGED result
  /\ UNCHANGED <<hostVars, noted, forked, tmplVars, viewVars, run, mail, ops, todo,
                 answered, moved, astray>>

Killed == IF run = "fresh" THEN run ELSE "dead"    \* killpg, once it has a group

\* _pump_runner at the top of its loop: the deadline has passed, or a cancel was read,
\* before the last select or in it.
Stops ==
  /\ pc = "pump"
  /\ run' = Killed
  /\ \/ ~noted /\ Ends("Timeout")
     \/ Ends("Cancelled")
  /\ UNCHANGED <<hostVars, noted, forked, tmplVars, viewVars, sent, mail, ops, todo, answered,
                 moved, astray>>

FindsItDead ==
  /\ pc = "pump" /\ ~noted /\ run \in {"dead", "mute"} /\ mail = None
  /\ Ends("RunnerCrash")
  /\ UNCHANGED <<hostVars, noted, forked, tmplVars, viewVars, runVars, astray>>

TakesResult ==
  /\ pc = "pump" /\ ~noted /\ mail \notin {None, "get", "keys", "call"}
  /\ Ends(mail) /\ mail' = None
  /\ UNCHANGED <<hostVars, noted, forked, tmplVars, viewVars, run, sent, ops, todo,
                 answered, moved, astray>>

TakesRequest ==
  /\ pc = "pump" /\ ~noted /\ mail \in {"get", "keys", "call"}
  /\ pc' = "relay"
  /\ UNCHANGED <<hostVars, noted, forked, result, tmplVars, viewVars, runVars, astray>>

\* The answer to cache.get: what it found is kept, and so is that it found nothing.
Fetched(k) ==
  /\ base' = [base EXCEPT ![k] = cache[k]]
  /\ fetched' = [fetched EXCEPT ![k] = cache[k]]
  /\ local' = [local EXCEPT ![k] = IF todo.del THEN None ELSE cache[k]]
  /\ missing' = IF cache[k] = None THEN missing \cup {k} ELSE missing
  /\ deleted' = IF cache[k] # None /\ todo.del THEN deleted \cup {k} ELSE deleted
  /\ UNCHANGED listed

\* Mutant: a key the code has deleted is listed as long as the host has it.
ListedRaw == {k \in Keys : cache[k] # None \/ local[k] # None}

Listed == {k \in Keys : cache[k] # None \/ local[k] # None} \ deleted

Relays ==
  /\ pc = "relay"
  /\ noted' \in BOOLEAN
  /\ mail' = None /\ todo' = None
  /\ IF run \in {"dead", "mute"}
     THEN Ends("RunnerCrash") /\ UNCHANGED <<run, viewVars>>
     ELSE /\ run' = "code" /\ pc' = "pump" /\ UNCHANGED <<result, flushed>>
          /\ \/ mail = "get" /\ Fetched(todo.key)
             \/ /\ mail = "keys" /\ listed' = Listed
                /\ UNCHANGED <<local, fetched, deleted, missing, base>>
             \/ mail = "call" /\ UNCHANGED <<local, fetched, deleted, missing, base, listed>>
  /\ UNCHANGED <<hostVars, forked, tmplVars, sent, ops, answered, moved, astray>>

\* Mutant: a worker is left for its template to reap.
KilledIfSpawned == IF forked THEN run ELSE "dead"

ReapKills == Killed

\* Mutant: a worker that hangs is the exec's own fault.
FailedCrashed == result = "RunnerCrash"

Failed == result \in {"Timeout", "RunnerCrash"}

\* Mutant: one failure more before the template goes.
StrikesThree == 3

Strikes == 2    \* _WORKER_FAILURE_LIMIT

\* _note_worker_outcome.
NotesOutcome ==
  \/ /\ Failed /\ fails + 1 < Strikes
     /\ fails' = fails + 1 /\ UNCHANGED tmpl
     /\ streak' = IF answered THEN 0 ELSE streak + 1
  \/ /\ Failed /\ fails + 1 >= Strikes
     /\ fails' = 0 /\ Replaced
  \/ /\ ~Failed
     /\ fails' = 0 /\ UNCHANGED tmpl
     /\ streak' = IF ~answered /\ result = "Timeout" THEN streak + 1 ELSE 0

\* Mutant: whatever crashes is run once more.
RetriesAll == result = "RunnerCrash"

Retries == forked /\ result = "RunnerCrash"

\* _exec_once's finally clause, and do_exec_python's second chance.
Reap ==
  /\ pc = "reap"
  /\ run' = "none" /\ mail' = None /\ todo' = None
  /\ sent' = FALSE /\ answered' = FALSE /\ forked' = FALSE
  /\ astray' = IF ReapKills # "dead" /\ sent THEN astray + 1 ELSE astray
  /\ IF result = "ok" THEN UNCHANGED viewVars ELSE Forgets
  /\ IF forked THEN NotesOutcome ELSE UNCHANGED tmplVars
  /\ IF Retries THEN pc' = "spawn" /\ result' = None ELSE pc' = "answer" /\ UNCHANGED result
  /\ UNCHANGED <<hostVars, noted, ops, moved>>

\* The host's python(): the changes are applied if the exec was ok.
Answer ==
  /\ pc = "answer"
  /\ cache' = IF result # "ok" THEN cache
              ELSE [k \in Keys |-> IF k \in flushed.deletes THEN None
                                   ELSE IF flushed.writes[k] # None THEN flushed.writes[k]
                                   ELSE cache[k]]
  /\ pc' = "idle" /\ call' = None /\ result' = None
  /\ noted' = FALSE /\ moved' = FALSE
  /\ Forgets
  /\ UNCHANGED <<execs, puts, forked, tmplVars, run, sent, mail, ops, todo, answered,
                 astray>>

-----------------------------------------------------------------------------
(* The runner and the code it runs.                                        *)

SetsGroup ==
  /\ run = "fresh"
  /\ run' = "up"
  /\ UNCHANGED <<hostVars, pc, noted, forked, result, tmplVars, viewVars, sent, mail, ops,
                 todo, answered, moved, astray>>

Serves ==
  /\ run = "up" /\ sent
  /\ run' = "code"
  /\ UNCHANGED <<hostVars, pc, noted, forked, result, tmplVars, viewVars, sent, mail, ops,
                 todo, answered, moved, astray>>

View(k) ==
  IF local[k] # None THEN local[k] ELSE IF k \in deleted \cup missing THEN None ELSE Unseen

DoesOne == run = "code" /\ ops < Ops /\ ops' = ops + 1 /\ listed' = None

\* A round trip to the host, for a key or for anything else.
RoundTrip(verb, what) ==
  /\ DoesOne
  /\ run' = "wait" /\ mail' = verb /\ todo' = what
  /\ UNCHANGED <<hostVars, pc, noted, forked, result, tmplVars, local, fetched, deleted,
                 missing, base, flushed, sent, answered, moved, astray>>

CodeAsks ==
  \/ RoundTrip("keys", None) \/ RoundTrip("call", None)
  \/ \E k \in Keys, del \in BOOLEAN :
       /\ run = "code" /\ View(k) = Unseen /\ (del => ~call.ro)
       /\ RoundTrip("get", [key |-> k, del |-> del])

\* Mutant: a key that was deleted and set again stays deleted.
UndeletedNever(k) == deleted

Undeleted(k) == deleted \ {k}

CodePuts(k, v) ==
  /\ DoesOne /\ ~call.ro
  /\ local' = [local EXCEPT ![k] = v]
  /\ deleted' = Undeleted(k) /\ missing' = missing \ {k}
  /\ UNCHANGED <<hostVars, pc, noted, forked, result, tmplVars, fetched, base, flushed, run,
                 sent, mail, todo, answered, moved, astray>>

\* cache["x"].append(...): the view is not asked.
CodeMutates(k, v) ==
  /\ DoesOne /\ local[k] \notin {None, v}
  /\ local' = [local EXCEPT ![k] = v]
  /\ UNCHANGED <<hostVars, pc, noted, forked, result, tmplVars, fetched, deleted, missing,
                 base, flushed, run, sent, mail, todo, answered, moved, astray>>

CodeDeletes(k) ==
  /\ DoesOne /\ ~call.ro /\ local[k] # None
  /\ local' = [local EXCEPT ![k] = None]
  /\ deleted' = deleted \cup {k}
  /\ UNCHANGED <<hostVars, pc, noted, forked, result, tmplVars, fetched, missing, base,
                 flushed, run, sent, mail, todo, answered, moved, astray>>

\* A file in the workspace, by the code or by a stray runner.
Guarded == pc # "idle" /\ call.fs /\ Overlay

WritesFile ==
  /\ \/ run = "code" /\ UNCHANGED astray
     \/ astray > 0 /\ astray' = astray - 1
  /\ ~Guarded
  /\ moved' = (moved \/ pc # "idle")
  /\ UNCHANGED <<hostVars, pc, noted, forked, result, tmplVars, viewVars, run, sent, mail,
                 ops, todo, answered>>

\* flush(): what was read comes back if it is another pickle now.
Flushes ==
  /\ mail' = "ok"
  /\ flushed' = [writes |-> [k \in Keys |-> IF local[k] = fetched[k] THEN None ELSE local[k]],
                 deletes |-> deleted]
  /\ listed' = None
  /\ UNCHANGED <<local, fetched, deleted, missing, base>>

\* An exception is reported by the name of its class, whatever that is; so is a flush
\* that fails.
CodeEnds ==
  /\ run = "code"
  /\ run' = "done" /\ answered' = TRUE
  /\ Flushes \/ (mail' \in {"Error", "Timeout", "RunnerCrash"} /\ Forgets)
  /\ UNCHANGED <<hostVars, pc, noted, forked, result, tmplVars, sent, ops, todo, moved, astray>>

\* It is killed or exits, or closes its socket and lives on.
RunnerFails ==
  /\ \/ run = "code" /\ run' = "mute" /\ Forgets
     \/ Faults /\ run \in {"fresh", "up", "code", "wait"} /\ run' = "dead" /\ Forgets
     \/ Faults /\ run = "done" /\ run' = "dead" /\ UNCHANGED viewVars
  /\ UNCHANGED <<hostVars, pc, noted, forked, result, tmplVars, sent, mail, ops, todo, answered,
                 moved, astray>>

-----------------------------------------------------------------------------

Supervisor ==
  \/ Asks \/ TemplateForks \/ GotPid \/ Trouble \/ Spawn \/ Send \/ Stops
  \/ FindsItDead \/ TakesResult \/ TakesRequest \/ Relays \/ Reap \/ Answer

Runner ==
  \/ SetsGroup \/ Serves \/ CodeAsks \/ CodeEnds \/ RunnerFails \/ WritesFile
  \/ \E k \in Keys : CodeDeletes(k) \/ \E v \in Vals : CodePuts(k, v) \/ CodeMutates(k, v)

Next ==
  \/ Supervisor \/ Runner
  \/ Warms \/ TemplateDies \/ Ping \/ Refreshes
  \/ \E kind \in Kinds : Python(kind)
  \/ \E k \in Keys : HostPut(k)

Spec == Init /\ [][Next]_vars

-----------------------------------------------------------------------------
(* Properties.                                                             *)

\* Every variable is of its type.
TypeOK ==
  /\ cache \in [Keys -> Vals \cup {None}]
  /\ call \in Kinds \cup {None}
  /\ execs \in 0..Execs /\ puts \in 0..HostPuts /\ ops \in 0..Ops
  /\ {noted, forked, sent, answered, moved} \subseteq BOOLEAN
  /\ pc \in {"idle", "fork", "asked", "spawn", "send", "pump", "relay", "reap", "answer"}
  /\ result \in {None, "ok", "Error", "Timeout", "Cancelled", "RunnerCrash"}
  /\ tmpl \in [held : BOOLEAN, ready : BOOLEAN, warm : BOOLEAN,
               proc : {"none", "importing", "parked", "closing", "dead"}]
  /\ fails \in 0..1 /\ streak \in 0..2 /\ astray \in 0..(2 * Execs)
  /\ run \in {"none", "fresh", "up", "code", "wait", "mute", "done", "dead"}
  /\ mail \in {None, "get", "keys", "call", "ok", "Error", "Timeout", "RunnerCrash"}
  /\ local \in [Keys -> Vals \cup {None}] /\ fetched \in [Keys -> Vals \cup {None}]
  /\ base \in [Keys -> Vals \cup {None, Unseen}]
  /\ deleted \subseteq Keys /\ missing \subseteq Keys
  /\ todo = None \/ todo \in [key : Keys, del : BOOLEAN]
  /\ listed = None \/ listed \subseteq Keys
  /\ flushed = None \/ flushed \in [writes : [Keys -> Vals \cup {None}], deletes : SUBSET Keys]

\* The code sees one dictionary, from its first look at each key, and the host takes
\* all of its changes or none: none of a run that failed, was cancelled, or was only
\* the first of two.
Txn == INSTANCE CacheTxn WITH store <- cache, view <- [k \in Keys |-> View(k)]
OneTransaction == Txn!Spec

\* The keys the code is told are those that its view has.
ListingAgrees ==
  listed # None =>
    \A k \in Keys :
      k \in listed <=> View(k) \in Vals \/ (View(k) = Unseen /\ cache[k] # None)
                       \/ (k \in missing /\ cache[k] # None)

\* No runner outlives its run, whatever its code has done to its socket, unless it was
\* forked a moment ago and had no process group yet that could be killed.
NothingOutlives ==
  [][pc = "reap" /\ pc' # "reap" /\ astray' # astray => forked /\ run = "fresh"]_vars

\* Two workers in a row that never answer cost the template its place.
TwoStrikes == streak < 2

\* Code runs a second time only if the first time left the workspace as it was: "state
\* can't have moved".
RetryOnUnmoved == [][pc = "reap" /\ pc' = "spawn" => ~moved]_vars

\* "Writes and deletes raise": the cache after a read-only exec is as it was.
ReadonlyKeepsCache == [][pc = "answer" /\ call.ro => cache' = cache]_vars
=================================================================================
