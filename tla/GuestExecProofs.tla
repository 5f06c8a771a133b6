--------------------------- MODULE GuestExecProofs ---------------------------
(***************************************************************************)
(* What holds of GuestExec for any keys and values, any number of execs    *)
(* and operations: the cache is one transaction, a worker's two failures   *)
(* end its template, nothing but a runner without a group outlives its     *)
(* run, and a retry finds the workspace as the first try did.              *)
(***************************************************************************)
EXTENDS GuestExec, TLAPS

\* What the refinement needs of the types.
ViewTypes ==
  /\ cache \in [Keys -> Vals \cup {None}]
  /\ local \in [Keys -> Vals \cup {None}]
  /\ fetched \in [Keys -> Vals \cup {None}]
  /\ base \in [Keys -> Vals \cup {None, Unseen}]
  /\ deleted \subseteq Keys /\ missing \subseteq Keys

\* What the view keeps of a key agrees with what the code saw first: deleted and
\* missing keys have no value, and what was fetched is the first value, still
\* there, changed or deleted.
KeyBooks(k) ==
  /\ k \in deleted => local[k] = None
  /\ k \in missing => base[k] = None
  /\ fetched[k] # None => base[k] = fetched[k] /\ (local[k] = None => k \in deleted)

Books == \A k \in Keys : KeyBooks(k)

\* What flush() ships of the view as it stands.
Shipped ==
  [writes |-> [k \in Keys |-> IF local[k] = fetched[k] THEN None ELSE local[k]],
   deletes |-> deleted]

\* Nothing moves in the view while its message is on the way: a key that is asked for
\* is still unseen when the answer comes, and what was shipped is still the view's
\* when the host applies it.
InTransit ==
  /\ mail \in {"get", "keys", "call"} => run \in {"wait", "dead"}
  /\ mail = "ok" => run \in {"done", "dead"}
  /\ mail = "get" => todo \in [key : Keys, del : BOOLEAN] /\ View(todo.key) = Unseen
  /\ result # None => pc \in {"reap", "answer"}
  /\ result = "ok" => run \in {"done", "dead", "none"}
  /\ mail = "ok" \/ result = "ok" => flushed = Shipped

\* A runner has nothing to say before it has its request, and is gone once it is reaped.
Placed ==
  /\ pc \in {"idle", "fork", "spawn", "answer"} => run = "none"
  /\ pc \notin {"pump", "relay", "reap"} =>
       run \in {"none", "fresh", "up", "dead"} /\ mail = None /\ ~sent

ViewInv == Placed /\ ViewTypes /\ Books /\ InTransit

-----------------------------------------------------------------------------

\* Steps leave a runner where it belongs.
LEMMA PlacedStep ==
  ASSUME Placed, [Next]_vars
  PROVE  Placed'
<1> USE DEF Placed, hostVars, tmplVars, viewVars, runVars
<1>1. CASE Asks
  BY <1>1 DEF Asks
<1>2. CASE TemplateForks
  BY <1>2 DEF TemplateForks, NewRun
<1>3. CASE GotPid
  BY <1>3 DEF GotPid
<1>4. CASE Trouble
  BY <1>4 DEF Trouble
<1>5. CASE Spawn
  BY <1>5 DEF Spawn, NewRun
<1>6. CASE Send
  BY <1>6 DEF Send, Ends
<1>7. CASE Stops
  BY <1>7 DEF Stops, Ends, Killed
<1>8. CASE FindsItDead
  BY <1>8 DEF FindsItDead, Ends
<1>9. CASE TakesResult
  BY <1>9 DEF TakesResult, Ends
<1>10. CASE TakesRequest
  BY <1>10 DEF TakesRequest
<1>11. CASE Relays
  BY <1>11 DEF Relays, Fetched, Ends, Forgets
<1>12. CASE Reap
  BY <1>12 DEF Reap, Forgets, Retries
<1>13. CASE Answer
  BY <1>13 DEF Answer, Forgets
<1>14. CASE SetsGroup
  BY <1>14 DEF SetsGroup
<1>15. CASE Serves
  BY <1>15 DEF Serves
<1>16. CASE CodeAsks
  BY <1>16 DEF CodeAsks, RoundTrip, DoesOne
<1>17. CASE CodeEnds
  BY <1>17 DEF CodeEnds, Flushes, Forgets
<1>18. CASE RunnerFails
  BY <1>18 DEF RunnerFails, Forgets
<1>19. CASE WritesFile
  BY <1>19 DEF WritesFile
<1>20. CASE Warms
  BY <1>20 DEF Warms
<1>21. CASE TemplateDies
  BY <1>21 DEF TemplateDies
<1>22. CASE Ping
  BY <1>22 DEF Ping
<1>23. CASE Refreshes
  BY <1>23 DEF Refreshes
<1>24. CASE \E kind \in Kinds : Python(kind)
  BY <1>24 DEF Python
<1>25. CASE \E k \in Keys : HostPut(k)
  BY <1>25 DEF HostPut
<1>26. CASE \E k \in Keys : CodeDeletes(k)
  BY <1>26 DEF CodeDeletes, DoesOne
<1>27. CASE \E k \in Keys, v \in Vals : CodePuts(k, v)
  BY <1>27 DEF CodePuts, DoesOne, Undeleted
<1>28. CASE \E k \in Keys, v \in Vals : CodeMutates(k, v)
  BY <1>28 DEF CodeMutates, DoesOne
<1>29. CASE UNCHANGED vars
  BY <1>29 DEF vars
<1> QED
  BY <1>1, <1>2, <1>3, <1>4, <1>5, <1>6, <1>7, <1>8, <1>9, <1>10, <1>11, <1>12, <1>13,
       <1>14, <1>15, <1>16, <1>17, <1>18, <1>19, <1>20, <1>21, <1>22, <1>23, <1>24,
       <1>25, <1>26, <1>27, <1>28, <1>29 DEF Next, Supervisor, Runner

\* Steps keep the types.
LEMMA TypesStep ==
  ASSUME ViewTypes, Books, InTransit, [Next]_vars
  PROVE  ViewTypes'
<1> USE ExecParameters DEF ViewTypes, InTransit, hostVars, tmplVars, viewVars,
     runVars, Nothing, Blank
<1>1. CASE Asks
  BY <1>1 DEF Asks
<1>2. CASE TemplateForks
  BY <1>2 DEF TemplateForks, NewRun
<1>3. CASE GotPid
  BY <1>3 DEF GotPid
<1>4. CASE Trouble
  BY <1>4 DEF Trouble
<1>5. CASE Spawn
  BY <1>5 DEF Spawn, NewRun
<1>6. CASE Send
  BY <1>6 DEF Send, Ends
<1>7. CASE Stops
  BY <1>7 DEF Stops, Ends, Killed
<1>8. CASE FindsItDead
  BY <1>8 DEF FindsItDead, Ends
<1>9. CASE TakesResult
  BY <1>9 DEF TakesResult, Ends
<1>10. CASE TakesRequest
  BY <1>10 DEF TakesRequest
<1>11. CASE Relays
  BY <1>11 DEF Relays, Fetched, Ends, Forgets
<1>12. CASE Reap
  BY <1>12 DEF Reap, Forgets, Retries
<1>13. CASE Answer
  <2>1. local' = Nothing /\ fetched' = Nothing /\ base' = Blank /\ deleted' = {} /\
       missing' = {}
    BY <1>13 DEF Answer, Forgets
  <2>2. CASE result # "ok"
    BY <1>13, <2>1, <2>2 DEF Answer
  <2>3. CASE result = "ok"
    <3>1. flushed = Shipped
      BY <2>3
    <3>2. cache' = [k \in Keys |-> IF k \in Shipped.deletes THEN None
                                   ELSE IF Shipped.writes[k] # None THEN
                                        Shipped.writes[k]
                                   ELSE cache[k]]
      BY <1>13, <2>3, <3>1 DEF Answer
    <3>3. cache' \in [Keys -> Vals \cup {None}]
      BY <3>2 DEF Shipped
    <3> QED
      BY <2>1, <3>3
  <2> QED
    BY <2>2, <2>3
<1>14. CASE SetsGroup
  BY <1>14 DEF SetsGroup
<1>15. CASE Serves
  BY <1>15 DEF Serves
<1>16. CASE CodeAsks
  BY <1>16 DEF CodeAsks, RoundTrip, DoesOne
<1>17. CASE CodeEnds
  BY <1>17 DEF CodeEnds, Flushes, Forgets
<1>18. CASE RunnerFails
  BY <1>18 DEF RunnerFails, Forgets
<1>19. CASE WritesFile
  BY <1>19 DEF WritesFile
<1>20. CASE Warms
  BY <1>20 DEF Warms
<1>21. CASE TemplateDies
  BY <1>21 DEF TemplateDies
<1>22. CASE Ping
  BY <1>22 DEF Ping
<1>23. CASE Refreshes
  BY <1>23 DEF Refreshes
<1>24. CASE \E kind \in Kinds : Python(kind)
  BY <1>24 DEF Python
<1>25. CASE \E k \in Keys : HostPut(k)
  BY <1>25 DEF HostPut
<1>26. CASE \E k \in Keys : CodeDeletes(k)
  BY <1>26 DEF CodeDeletes, DoesOne
<1>27. CASE \E k \in Keys, v \in Vals : CodePuts(k, v)
  BY <1>27 DEF CodePuts, DoesOne, Undeleted
<1>28. CASE \E k \in Keys, v \in Vals : CodeMutates(k, v)
  BY <1>28 DEF CodeMutates, DoesOne
<1>29. CASE UNCHANGED vars
  BY <1>29 DEF vars
<1> QED
  BY <1>1, <1>2, <1>3, <1>4, <1>5, <1>6, <1>7, <1>8, <1>9, <1>10, <1>11, <1>12, <1>13,
       <1>14, <1>15, <1>16, <1>17, <1>18, <1>19, <1>20, <1>21, <1>22, <1>23, <1>24,
       <1>25, <1>26, <1>27, <1>28, <1>29 DEF Next, Supervisor, Runner

\* Steps keep the books.
LEMMA BooksStep ==
  ASSUME ViewTypes, Books, InTransit, [Next]_vars
  PROVE  Books'
<1> USE ExecParameters DEF ViewTypes, Books, KeyBooks, InTransit, View, hostVars,
     tmplVars, viewVars, runVars, Nothing, Blank
<1>1. CASE Asks
  BY <1>1 DEF Asks
<1>2. CASE TemplateForks
  BY <1>2 DEF TemplateForks, NewRun
<1>3. CASE GotPid
  BY <1>3 DEF GotPid
<1>4. CASE Trouble
  BY <1>4 DEF Trouble
<1>5. CASE Spawn
  BY <1>5 DEF Spawn, NewRun
<1>6. CASE Send
  BY <1>6 DEF Send, Ends
<1>7. CASE Stops
  BY <1>7 DEF Stops, Ends, Killed
<1>8. CASE FindsItDead
  BY <1>8 DEF FindsItDead, Ends
<1>9. CASE TakesResult
  BY <1>9 DEF TakesResult, Ends
<1>10. CASE TakesRequest
  BY <1>10 DEF TakesRequest
<1>11. CASE Relays
  BY <1>11 DEF Relays, Fetched, Ends, Forgets
<1>12. CASE Reap
  BY <1>12 DEF Reap, Forgets, Retries
<1>13. CASE Answer
  BY <1>13 DEF Answer, Forgets
<1>14. CASE SetsGroup
  BY <1>14 DEF SetsGroup
<1>15. CASE Serves
  BY <1>15 DEF Serves
<1>16. CASE CodeAsks
  BY <1>16 DEF CodeAsks, RoundTrip, DoesOne
<1>17. CASE CodeEnds
  BY <1>17 DEF CodeEnds, Flushes, Forgets
<1>18. CASE RunnerFails
  BY <1>18 DEF RunnerFails, Forgets
<1>19. CASE WritesFile
  BY <1>19 DEF WritesFile
<1>20. CASE Warms
  BY <1>20 DEF Warms
<1>21. CASE TemplateDies
  BY <1>21 DEF TemplateDies
<1>22. CASE Ping
  BY <1>22 DEF Ping
<1>23. CASE Refreshes
  BY <1>23 DEF Refreshes
<1>24. CASE \E kind \in Kinds : Python(kind)
  BY <1>24 DEF Python
<1>25. CASE \E k \in Keys : HostPut(k)
  BY <1>25 DEF HostPut
<1>26. CASE \E k \in Keys : CodeDeletes(k)
  BY <1>26 DEF CodeDeletes, DoesOne
<1>27. CASE \E k \in Keys, v \in Vals : CodePuts(k, v)
  BY <1>27 DEF CodePuts, DoesOne, Undeleted
<1>28. CASE \E k \in Keys, v \in Vals : CodeMutates(k, v)
  BY <1>28 DEF CodeMutates, DoesOne
<1>29. CASE UNCHANGED vars
  BY <1>29 DEF vars
<1> QED
  BY <1>1, <1>2, <1>3, <1>4, <1>5, <1>6, <1>7, <1>8, <1>9, <1>10, <1>11, <1>12, <1>13,
       <1>14, <1>15, <1>16, <1>17, <1>18, <1>19, <1>20, <1>21, <1>22, <1>23, <1>24,
       <1>25, <1>26, <1>27, <1>28, <1>29 DEF Next, Supervisor, Runner

\* Steps leave alone what is under way.
LEMMA TransitStep ==
  ASSUME ViewTypes, Books, Placed, InTransit, [Next]_vars
  PROVE  InTransit'
<1> USE ExecParameters DEF ViewTypes, Placed, InTransit, Shipped, View, hostVars,
     tmplVars, viewVars, runVars, Nothing, Blank
<1>1. CASE Asks
  BY <1>1 DEF Asks
<1>2. CASE TemplateForks
  BY <1>2 DEF TemplateForks, NewRun
<1>3. CASE GotPid
  BY <1>3 DEF GotPid
<1>4. CASE Trouble
  BY <1>4 DEF Trouble
<1>5. CASE Spawn
  BY <1>5 DEF Spawn, NewRun
<1>6. CASE Send
  BY <1>6 DEF Send, Ends
<1>7. CASE Stops
  BY <1>7 DEF Stops, Ends, Killed
<1>8. CASE FindsItDead
  BY <1>8 DEF FindsItDead, Ends
<1>9. CASE TakesResult
  BY <1>9 DEF TakesResult, Ends
<1>10. CASE TakesRequest
  BY <1>10 DEF TakesRequest
<1>11. CASE Relays
  BY <1>11 DEF Relays, Fetched, Ends, Forgets
<1>12. CASE Reap
  <2>1. run' = "none" /\ mail' = None /\ pc' \in {"spawn", "answer"}
        /\ (result' = None \/ (result' = result /\ pc' = "answer"))
    BY <1>12 DEF Reap
  <2>2. result = "ok" => UNCHANGED viewVars
    BY <1>12 DEF Reap
  <2> QED
    BY <2>1, <2>2
<1>13. CASE Answer
  BY <1>13 DEF Answer, Forgets
<1>14. CASE SetsGroup
  BY <1>14 DEF SetsGroup
<1>15. CASE Serves
  BY <1>15 DEF Serves
<1>16. CASE CodeAsks
  BY <1>16 DEF CodeAsks, RoundTrip, DoesOne
<1>17. CASE CodeEnds
  BY <1>17 DEF CodeEnds, Flushes, Forgets
<1>18. CASE RunnerFails
  BY <1>18 DEF RunnerFails, Forgets
<1>19. CASE WritesFile
  BY <1>19 DEF WritesFile
<1>20. CASE Warms
  BY <1>20 DEF Warms
<1>21. CASE TemplateDies
  BY <1>21 DEF TemplateDies
<1>22. CASE Ping
  BY <1>22 DEF Ping
<1>23. CASE Refreshes
  BY <1>23 DEF Refreshes
<1>24. CASE \E kind \in Kinds : Python(kind)
  BY <1>24 DEF Python
<1>25. CASE \E k \in Keys : HostPut(k)
  BY <1>25 DEF HostPut
<1>26. CASE \E k \in Keys : CodeDeletes(k)
  BY <1>26 DEF CodeDeletes, DoesOne
<1>27. CASE \E k \in Keys, v \in Vals : CodePuts(k, v)
  BY <1>27 DEF CodePuts, DoesOne, Undeleted
<1>28. CASE \E k \in Keys, v \in Vals : CodeMutates(k, v)
  BY <1>28 DEF CodeMutates, DoesOne
<1>29. CASE UNCHANGED vars
  BY <1>29 DEF vars
<1> QED
  BY <1>1, <1>2, <1>3, <1>4, <1>5, <1>6, <1>7, <1>8, <1>9, <1>10, <1>11, <1>12, <1>13,
       <1>14, <1>15, <1>16, <1>17, <1>18, <1>19, <1>20, <1>21, <1>22, <1>23, <1>24,
       <1>25, <1>26, <1>27, <1>28, <1>29 DEF Next, Supervisor, Runner

\* Initially the view is blank.
LEMMA InitView == Init => ViewInv
BY ExecParameters
DEF Init, ViewInv, Placed, ViewTypes, Books, KeyBooks, InTransit, Nothing, Blank

\* The four parts together.
LEMMA ViewStep == ViewInv /\ [Next]_vars => ViewInv'
BY PlacedStep, TypesStep, BooksStep, TransitStep DEF ViewInv

\* The invariant holds in every reachable state.
LEMMA ViewInvariant == Spec => []ViewInv
BY InitView, ViewStep, PTL DEF Spec

-----------------------------------------------------------------------------
(* The transaction.                                                        *)

\* The initial view is blank.
LEMMA TxnInit == Init => Txn!Init
BY DEF Init, Txn!Init, Txn!Blank, View, Nothing, Blank

\* The view and the cache are the transaction's variables, and nothing else matters.
LEMMA Stutters ==
  ASSUME UNCHANGED <<cache, local, deleted, missing, base>>
  PROVE  UNCHANGED Txn!vars
BY DEF Txn!vars, View

\* A view that goes with its runner is a transaction begun anew.
LEMMA Begins ==
  ASSUME Forgets
  PROVE  [k \in Keys |-> View(k)]' = Txn!Blank /\ base' = Txn!Blank
BY DEF Forgets, Nothing, Blank, View, Txn!Blank

\* So is it where the cache stays.
LEMMA BeginsAnew ==
  ASSUME Forgets, UNCHANGED cache
  PROVE  Txn!Next
BY Begins DEF Txn!Next, Txn!Begin

\* A step that touches one key of the view.
LEMMA OneKey ==
  ASSUME NEW k \in Keys, \A other \in Keys \ {k} : View(other)' = View(other)
  PROVE  [other \in Keys |-> View(other)]'
           = [[other \in Keys |-> View(other)] EXCEPT ![k] = View(k)']
OBVIOUS

\* The answer to a miss is the first look at the key, or, for `del`, the first look and
\* the delete.
LEMMA FetchSees ==
  ASSUME ViewInv, NEW k \in Keys, View(k) = Unseen, Fetched(k), UNCHANGED cache
  PROVE  Txn!Next
<1> USE ExecParameters DEF ViewInv, ViewTypes
<1>1. \A other \in Keys \ {k} : View(other)' = View(other)
  BY DEF Fetched, View
<1>2. [other \in Keys |-> View(other)]'
        = [[other \in Keys |-> View(other)] EXCEPT ![k] = View(k)']
  BY <1>1, OneKey
<1>3. base' = [base EXCEPT ![k] = cache[k]]
  BY DEF Fetched
<1>4. local[k] = None /\ k \notin deleted \cup missing
  BY DEF View
<1>5. CASE todo.del /\ cache[k] # None
  <2>1. View(k)' = None
    BY <1>4, <1>5 DEF Fetched, View
  <2>2. Txn!Change(k)
    BY <1>2, <1>3, <1>5, <2>1 DEF Txn!Change
  <2> QED
    BY <2>2 DEF Txn!Next
<1>6. CASE ~(todo.del /\ cache[k] # None)
  <2>1. local'[k] = cache[k]
    BY <1>4, <1>6 DEF Fetched
  <2>2. View(k)' = cache[k]
    <3>1. CASE cache[k] = None
      BY <1>4, <2>1, <3>1 DEF Fetched, View
    <3>2. CASE cache[k] # None
      BY <2>1, <3>2 DEF View
    <3> QED
      BY <3>1, <3>2
  <2>3. Txn!See(k)
    BY <1>2, <1>3, <2>2 DEF Txn!See
  <2> QED
    BY <2>3 DEF Txn!Next
<1> QED
  BY <1>5, <1>6

\* A write, an in-place change and a delete change the one key.
LEMMA OpsChange ==
  ASSUME ViewInv, NEW k \in Keys,
         \/ \E v \in Vals : CodePuts(k, v) \/ CodeMutates(k, v)
         \/ CodeDeletes(k)
  PROVE  Txn!Next
<1> USE ExecParameters DEF ViewInv, ViewTypes, viewVars, hostVars
<1>1. UNCHANGED <<cache, base>> /\ \A other \in Keys \ {k} : View(other)' = View(other)
  BY DEF CodePuts, CodeMutates, CodeDeletes, Undeleted, View
<1>2. [other \in Keys |-> View(other)]'
        = [[other \in Keys |-> View(other)] EXCEPT ![k] = View(k)']
  BY <1>1, OneKey
<1>3. ASSUME NEW v \in Vals, CodePuts(k, v) \/ CodeMutates(k, v)
      PROVE  Txn!Change(k)
  <2>1. View(k)' = v /\ v # None
    BY <1>3 DEF CodePuts, CodeMutates, View
  <2> QED
    BY <1>1, <1>2, <2>1 DEF Txn!Change
<1>4. ASSUME CodeDeletes(k)
      PROVE  Txn!Change(k)
  <2>1. View(k)' = None /\ View(k) \in Vals
    BY <1>4 DEF CodeDeletes, View
  <2> QED
    BY <1>1, <1>2, <2>1 DEF Txn!Change
<1> QED
  BY <1>3, <1>4 DEF Txn!Next

\* What the host applies is what the view holds, and only where the code changed it.
LEMMA AnswerCommits ==
  ASSUME ViewInv, Answer
  PROVE  Txn!Next
<1> USE ExecParameters DEF ViewInv, ViewTypes
<1>1. Forgets
  BY DEF Answer
<1>2. CASE result # "ok"
  BY <1>1, <1>2, BeginsAnew DEF Answer
<1>3. CASE result = "ok"
  <2>1. flushed = Shipped
    BY <1>3 DEF InTransit
  <2>2. cache' = [k \in Keys |-> IF k \in Shipped.deletes THEN None
                                 ELSE IF Shipped.writes[k] # None THEN Shipped.writes[k]
                                 ELSE cache[k]]
    BY <1>3, <2>1 DEF Answer
  <2>3. ASSUME NEW k \in Keys
        PROVE  cache'[k] \in IF View(k) = Unseen THEN {cache[k]}
                             ELSE IF View(k) = base[k] THEN {cache[k], View(k)} ELSE {View(k)}
    <3>1. KeyBooks(k)
      BY DEF Books
    <3>2. CASE k \in deleted
      <4>1. cache'[k] = None /\ View(k) = None
        BY <2>2, <3>1, <3>2 DEF Shipped, KeyBooks, View
      <4> QED
        BY <4>1
    <3>3. CASE k \notin deleted /\ local[k] = fetched[k]
      <4>1. cache'[k] = cache[k]
        BY <2>2, <3>3 DEF Shipped
      <4>2. View(k) \in {Unseen, base[k]}
        BY <3>1, <3>3 DEF KeyBooks, View
      <4> QED
        BY <4>1, <4>2
    <3>4. CASE k \notin deleted /\ local[k] # fetched[k]
      <4>1. local[k] # None
        BY <3>1, <3>4 DEF KeyBooks
      <4>2. cache'[k] = local[k] /\ View(k) = local[k]
        BY <2>2, <3>4, <4>1 DEF Shipped, View
      <4> QED
        BY <4>1, <4>2
    <3> QED
      BY <3>2, <3>3, <3>4
  <2>4. DOMAIN cache' = Keys
    BY <2>2
  <2>5. Txn!Commit
    BY <1>1, <2>3, <2>4, Begins DEF Txn!Commit
  <2> QED
    BY <2>5 DEF Txn!Next
<1> QED
  BY <1>2, <1>3

\* The host's own code stores a value.
LEMMA PutStores ==
  ASSUME ViewInv, NEW k \in Keys, HostPut(k)
  PROVE  Txn!Next
<1> USE ExecParameters DEF ViewInv, ViewTypes
<1>1. UNCHANGED <<local, deleted, missing, base>>
  BY DEF HostPut
<1>2. [other \in Keys |-> View(other)]' = [other \in Keys |-> View(other)]
  BY <1>1 DEF View
<1>3. Txn!HostStores(k)
  BY <1>1, <1>2 DEF HostPut, Txn!HostStores
<1> QED
  BY <1>3 DEF Txn!Next

\* Every step is a step of the transaction or a stutter.
LEMMA TxnStep ==
  ASSUME ViewInv, [Next]_vars
  PROVE  [Txn!Next]_(Txn!vars)
<1> USE DEF hostVars, tmplVars, viewVars, runVars
<1>1. CASE Asks
  BY <1>1, Stutters DEF Asks
<1>2. CASE TemplateForks
  BY <1>2, Stutters DEF TemplateForks, NewRun
<1>3. CASE GotPid
  BY <1>3, Stutters DEF GotPid
<1>4. CASE Trouble
  BY <1>4, Stutters DEF Trouble
<1>5. CASE Spawn
  BY <1>5, Stutters DEF Spawn, NewRun
<1>6. CASE Send
  BY <1>6, Stutters DEF Send, Ends
<1>7. CASE Stops
  BY <1>7, Stutters DEF Stops, Ends, Killed
<1>8. CASE FindsItDead
  BY <1>8, Stutters DEF FindsItDead, Ends
<1>9. CASE TakesResult
  BY <1>9, Stutters DEF TakesResult, Ends
<1>10. CASE TakesRequest
  BY <1>10, Stutters DEF TakesRequest
<1>11. CASE Relays
  <2>1. CASE run \in {"dead", "mute"}
    BY <1>11, <2>1, Stutters DEF Relays
  <2>2. CASE run \notin {"dead", "mute"} /\ mail = "get"
    <3>1. Fetched(todo.key) /\ UNCHANGED cache
      BY <1>11, <2>2 DEF Relays
    <3>2. todo.key \in Keys /\ View(todo.key) = Unseen
      BY <2>2 DEF ViewInv, InTransit
    <3> QED
      BY <3>1, <3>2, FetchSees
  <2>3. CASE run \notin {"dead", "mute"} /\ mail # "get"
    BY <1>11, <2>3, Stutters DEF Relays
  <2> QED
    BY <2>1, <2>2, <2>3
<1>12. CASE Reap
  <2>1. CASE result = "ok"
    BY <1>12, <2>1, Stutters DEF Reap
  <2>2. CASE result # "ok"
    BY <1>12, <2>2, BeginsAnew DEF Reap
  <2> QED
    BY <2>1, <2>2
<1>13. CASE Answer
  BY <1>13, AnswerCommits
<1>14. CASE SetsGroup
  BY <1>14, Stutters DEF SetsGroup
<1>15. CASE Serves
  BY <1>15, Stutters DEF Serves
<1>16. CASE CodeAsks
  BY <1>16, Stutters DEF CodeAsks, RoundTrip, DoesOne
<1>17. CASE CodeEnds
  <2>1. CASE Flushes
    BY <1>17, <2>1, Stutters DEF CodeEnds, Flushes
  <2>2. CASE Forgets
    BY <1>17, <2>2, BeginsAnew DEF CodeEnds
  <2> QED
    BY <1>17, <2>1, <2>2 DEF CodeEnds
<1>18. CASE RunnerFails
  <2>1. CASE Forgets
    BY <1>18, <2>1, BeginsAnew DEF RunnerFails
  <2>2. CASE UNCHANGED viewVars
    BY <1>18, <2>2, Stutters DEF RunnerFails
  <2> QED
    BY <1>18, <2>1, <2>2 DEF RunnerFails
<1>19. CASE WritesFile
  BY <1>19, Stutters DEF WritesFile
<1>20. CASE Warms
  BY <1>20, Stutters DEF Warms
<1>21. CASE TemplateDies
  BY <1>21, Stutters DEF TemplateDies
<1>22. CASE Ping
  BY <1>22, Stutters DEF Ping
<1>23. CASE Refreshes
  BY <1>23, Stutters DEF Refreshes
<1>24. CASE \E kind \in Kinds : Python(kind)
  BY <1>24, Stutters DEF Python
<1>25. CASE \E k \in Keys : HostPut(k)
  BY <1>25, PutStores
<1>26. CASE \E k \in Keys : CodeDeletes(k)
  BY <1>26, OpsChange
<1>27. CASE \E k \in Keys, v \in Vals : CodePuts(k, v)
  BY <1>27, OpsChange
<1>28. CASE \E k \in Keys, v \in Vals : CodeMutates(k, v)
  BY <1>28, OpsChange
<1>29. CASE UNCHANGED vars
  BY <1>29, Stutters DEF vars
<1> QED
  BY <1>1, <1>2, <1>3, <1>4, <1>5, <1>6, <1>7, <1>8, <1>9, <1>10, <1>11, <1>12, <1>13,
       <1>14, <1>15, <1>16, <1>17, <1>18, <1>19, <1>20, <1>21, <1>22, <1>23, <1>24,
       <1>25, <1>26, <1>27, <1>28, <1>29 DEF Next, Supervisor, Runner

\* The code of an exec has the cache as a dictionary of its own, and the host takes
\* all of its changes or none: what a first try did before a retry, a crash, a timeout
\* or a cancel never reaches the cache.
THEOREM CacheIsTransactional == Spec => OneTransaction
BY TxnInit, TxnStep, ViewInvariant, PTL DEF Spec, OneTransaction, Txn!Spec

-----------------------------------------------------------------------------
(* The template's two strikes.                                             *)

\* A failure in a row is one on the books.
Counted == fails \in 0..1 /\ streak \in 0..1 /\ streak <= fails

\* No failures yet.
LEMMA InitCounted == Init => Counted
BY DEF Init, Counted

\* A failure is counted, and a template that is replaced starts without any.
LEMMA CountedStep ==
  ASSUME Counted, [Next]_vars
  PROVE  Counted'
<1> USE DEF Counted, hostVars, tmplVars, viewVars, runVars
<1>1. CASE Asks
  BY <1>1 DEF Asks
<1>2. CASE TemplateForks
  BY <1>2 DEF TemplateForks, NewRun
<1>3. CASE GotPid
  BY <1>3 DEF GotPid
<1>4. CASE Trouble
  BY <1>4 DEF Trouble, Replaced
<1>5. CASE Spawn
  BY <1>5 DEF Spawn, NewRun
<1>6. CASE Send
  BY <1>6 DEF Send, Ends
<1>7. CASE Stops
  BY <1>7 DEF Stops, Ends, Killed
<1>8. CASE FindsItDead
  BY <1>8 DEF FindsItDead, Ends
<1>9. CASE TakesResult
  BY <1>9 DEF TakesResult, Ends
<1>10. CASE TakesRequest
  BY <1>10 DEF TakesRequest
<1>11. CASE Relays
  BY <1>11 DEF Relays, Fetched, Ends, Forgets
<1>12. CASE Reap
  BY <1>12 DEF Reap, Forgets, Retries, NotesOutcome, Replaced, Failed, Strikes
<1>13. CASE Answer
  BY <1>13 DEF Answer, Forgets
<1>14. CASE SetsGroup
  BY <1>14 DEF SetsGroup
<1>15. CASE Serves
  BY <1>15 DEF Serves
<1>16. CASE CodeAsks
  BY <1>16 DEF CodeAsks, RoundTrip, DoesOne
<1>17. CASE CodeEnds
  BY <1>17 DEF CodeEnds, Flushes, Forgets
<1>18. CASE RunnerFails
  BY <1>18 DEF RunnerFails, Forgets
<1>19. CASE WritesFile
  BY <1>19 DEF WritesFile
<1>20. CASE Warms
  BY <1>20 DEF Warms
<1>21. CASE TemplateDies
  BY <1>21 DEF TemplateDies
<1>22. CASE Ping
  BY <1>22 DEF Ping
<1>23. CASE Refreshes
  BY <1>23 DEF Refreshes, Replaced
<1>24. CASE \E kind \in Kinds : Python(kind)
  BY <1>24 DEF Python
<1>25. CASE \E k \in Keys : HostPut(k)
  BY <1>25 DEF HostPut
<1>26. CASE \E k \in Keys : CodeDeletes(k)
  BY <1>26 DEF CodeDeletes, DoesOne
<1>27. CASE \E k \in Keys, v \in Vals : CodePuts(k, v)
  BY <1>27 DEF CodePuts, DoesOne, Undeleted
<1>28. CASE \E k \in Keys, v \in Vals : CodeMutates(k, v)
  BY <1>28 DEF CodeMutates, DoesOne
<1>29. CASE UNCHANGED vars
  BY <1>29 DEF vars
<1> QED
  BY <1>1, <1>2, <1>3, <1>4, <1>5, <1>6, <1>7, <1>8, <1>9, <1>10, <1>11, <1>12, <1>13,
       <1>14, <1>15, <1>16, <1>17, <1>18, <1>19, <1>20, <1>21, <1>22, <1>23, <1>24,
       <1>25, <1>26, <1>27, <1>28, <1>29 DEF Next, Supervisor, Runner

\* Two workers in a row that crash or hang before they have answered are the end of
\* their template, whatever comes between.
THEOREM TemplateStrikesOut == Spec => []TwoStrikes
<1>1. Spec => []Counted
  BY InitCounted, CountedStep, PTL DEF Spec
<1>2. Counted => TwoStrikes
  BY DEF Counted, TwoStrikes
<1> QED
  BY <1>1, <1>2, PTL

-----------------------------------------------------------------------------
(* Which runners escape, and what a retry finds.                           *)

\* A runner without a group of its own was forked for this run; code runs forked only
\* where the file system is read-only, and where that is a remount nothing moves.
Forking ==
  /\ pc \in {"idle", "fork", "asked", "spawn", "send", "pump", "relay", "reap", "answer"}
  /\ pc \in {"fork", "asked"} \/ forked => call.fs
  /\ forked => pc \in {"send", "pump", "relay", "reap"}
  /\ pc \in {"idle", "fork", "spawn", "answer"} => run = "none"
  /\ run = "fresh" => pc = "asked" \/ forked
  /\ pc = "idle" => ~moved
  /\ Overlay /\ forked => ~moved
  /\ Overlay /\ pc \in {"fork", "asked"} => ~moved

\* Nothing runs yet.
LEMMA InitForking == Init => Forking
BY DEF Init, Forking

\* A fork happens for a read-only exec, and no step of such an exec moves a file.
LEMMA ForkingStep ==
  ASSUME Forking, [Next]_vars
  PROVE  Forking'
<1> USE DEF Forking, hostVars, tmplVars, viewVars, runVars
<1>1. CASE Asks
  BY <1>1 DEF Asks
<1>2. CASE TemplateForks
  BY <1>2 DEF TemplateForks, NewRun
<1>3. CASE GotPid
  BY <1>3 DEF GotPid
<1>4. CASE Trouble
  BY <1>4 DEF Trouble
<1>5. CASE Spawn
  BY <1>5 DEF Spawn, NewRun
<1>6. CASE Send
  BY <1>6 DEF Send, Ends
<1>7. CASE Stops
  BY <1>7 DEF Stops, Ends, Killed
<1>8. CASE FindsItDead
  BY <1>8 DEF FindsItDead, Ends
<1>9. CASE TakesResult
  BY <1>9 DEF TakesResult, Ends
<1>10. CASE TakesRequest
  BY <1>10 DEF TakesRequest
<1>11. CASE Relays
  BY <1>11 DEF Relays, Fetched, Ends, Forgets
<1>12. CASE Reap
  BY <1>12 DEF Reap, Forgets, Retries
<1>13. CASE Answer
  BY <1>13 DEF Answer, Forgets
<1>14. CASE SetsGroup
  BY <1>14 DEF SetsGroup
<1>15. CASE Serves
  BY <1>15 DEF Serves
<1>16. CASE CodeAsks
  BY <1>16 DEF CodeAsks, RoundTrip, DoesOne
<1>17. CASE CodeEnds
  BY <1>17 DEF CodeEnds, Flushes, Forgets
<1>18. CASE RunnerFails
  BY <1>18 DEF RunnerFails, Forgets
<1>19. CASE WritesFile
  BY <1>19 DEF WritesFile, Guarded
<1>20. CASE Warms
  BY <1>20 DEF Warms
<1>21. CASE TemplateDies
  BY <1>21 DEF TemplateDies
<1>22. CASE Ping
  BY <1>22 DEF Ping
<1>23. CASE Refreshes
  BY <1>23 DEF Refreshes
<1>24. CASE \E kind \in Kinds : Python(kind)
  BY <1>24 DEF Python
<1>25. CASE \E k \in Keys : HostPut(k)
  BY <1>25 DEF HostPut
<1>26. CASE \E k \in Keys : CodeDeletes(k)
  BY <1>26 DEF CodeDeletes, DoesOne
<1>27. CASE \E k \in Keys, v \in Vals : CodePuts(k, v)
  BY <1>27 DEF CodePuts, DoesOne, Undeleted
<1>28. CASE \E k \in Keys, v \in Vals : CodeMutates(k, v)
  BY <1>28 DEF CodeMutates, DoesOne
<1>29. CASE UNCHANGED vars
  BY <1>29 DEF vars
<1> QED
  BY <1>1, <1>2, <1>3, <1>4, <1>5, <1>6, <1>7, <1>8, <1>9, <1>10, <1>11, <1>12, <1>13,
       <1>14, <1>15, <1>16, <1>17, <1>18, <1>19, <1>20, <1>21, <1>22, <1>23, <1>24,
       <1>25, <1>26, <1>27, <1>28, <1>29 DEF Next, Supervisor, Runner

\* The invariant holds in every reachable state.
LEMMA ForkingInvariant == Spec => []Forking
BY InitForking, ForkingStep, PTL DEF Spec

\* Only Reap ends a run.
LEMMA ReapEnds ==
  ASSUME pc = "reap", pc' # "reap", [Next]_vars
  PROVE  Reap
<1> USE DEF hostVars, tmplVars, viewVars, runVars
<1>1. CASE Asks
  BY <1>1 DEF Asks
<1>2. CASE TemplateForks
  BY <1>2 DEF TemplateForks, NewRun
<1>3. CASE GotPid
  BY <1>3 DEF GotPid
<1>4. CASE Trouble
  BY <1>4 DEF Trouble
<1>5. CASE Spawn
  BY <1>5 DEF Spawn, NewRun
<1>6. CASE Send
  BY <1>6 DEF Send, Ends
<1>7. CASE Stops
  BY <1>7 DEF Stops, Ends, Killed
<1>8. CASE FindsItDead
  BY <1>8 DEF FindsItDead, Ends
<1>9. CASE TakesResult
  BY <1>9 DEF TakesResult, Ends
<1>10. CASE TakesRequest
  BY <1>10 DEF TakesRequest
<1>11. CASE Relays
  BY <1>11 DEF Relays, Fetched, Ends, Forgets
<1>12. CASE Reap
  BY <1>12 DEF Reap, Forgets, Retries
<1>13. CASE Answer
  BY <1>13 DEF Answer, Forgets
<1>14. CASE SetsGroup
  BY <1>14 DEF SetsGroup
<1>15. CASE Serves
  BY <1>15 DEF Serves
<1>16. CASE CodeAsks
  BY <1>16 DEF CodeAsks, RoundTrip, DoesOne
<1>17. CASE CodeEnds
  BY <1>17 DEF CodeEnds, Flushes, Forgets
<1>18. CASE RunnerFails
  BY <1>18 DEF RunnerFails, Forgets
<1>19. CASE WritesFile
  BY <1>19 DEF WritesFile
<1>20. CASE Warms
  BY <1>20 DEF Warms
<1>21. CASE TemplateDies
  BY <1>21 DEF TemplateDies
<1>22. CASE Ping
  BY <1>22 DEF Ping
<1>23. CASE Refreshes
  BY <1>23 DEF Refreshes
<1>24. CASE \E kind \in Kinds : Python(kind)
  BY <1>24 DEF Python
<1>25. CASE \E k \in Keys : HostPut(k)
  BY <1>25 DEF HostPut
<1>26. CASE \E k \in Keys : CodeDeletes(k)
  BY <1>26 DEF CodeDeletes, DoesOne
<1>27. CASE \E k \in Keys, v \in Vals : CodePuts(k, v)
  BY <1>27 DEF CodePuts, DoesOne, Undeleted
<1>28. CASE \E k \in Keys, v \in Vals : CodeMutates(k, v)
  BY <1>28 DEF CodeMutates, DoesOne
<1>29. CASE UNCHANGED vars
  BY <1>29 DEF vars
<1> QED
  BY <1>1, <1>2, <1>3, <1>4, <1>5, <1>6, <1>7, <1>8, <1>9, <1>10, <1>11, <1>12, <1>13,
       <1>14, <1>15, <1>16, <1>17, <1>18, <1>19, <1>20, <1>21, <1>22, <1>23, <1>24,
       <1>25, <1>26, <1>27, <1>28, <1>29 DEF Next, Supervisor, Runner

\* Of a run that is over there is no process left but one that was forked and had not
\* yet left its template's process group when the kill was sent.
THEOREM KillsReach == Spec => NothingOutlives
<1>1. ASSUME Forking, [Next]_vars, pc = "reap", pc' # "reap", astray' # astray
      PROVE  forked /\ run = "fresh"
  <2>1. Reap
    BY <1>1, ReapEnds
  <2> QED
    BY <1>1, <2>1 DEF Reap, ReapKills, Killed, Forking
<1> QED
  BY <1>1, ForkingInvariant, PTL DEF Spec, NothingOutlives

\* Where read-only is a remount, code that runs a second time finds the files as it
\* found them the first time.
THEOREM RetryIsSafe == ASSUME Overlay PROVE Spec => RetryOnUnmoved
<1>1. ASSUME Forking, [Next]_vars, pc = "reap", pc' = "spawn"
      PROVE  ~moved
  <2>1. Reap
    BY <1>1, ReapEnds
  <2>2. forked
    BY <1>1, <2>1 DEF Reap, Retries
  <2> QED
    BY <1>1, <2>2 DEF Forking
<1> QED
  BY <1>1, ForkingInvariant, PTL DEF Spec, RetryOnUnmoved

-----------------------------------------------------------------------------
(* What the code is told of the keys.                                      *)

\* A key that the host did not have is neither in the view nor deleted, and there is no
\* listing while a message is on its way up: nothing the answer changes was told.
Listing ==
  /\ \A k \in missing : local[k] = None /\ k \notin deleted
  /\ mail \in {"get", "keys", "call"} \/ run = "wait" => listed = None
  /\ ListingAgrees

\* Nothing is listed yet.
LEMMA InitListing == Init => Listing
BY DEF Init, Listing, ListingAgrees

\* What list() answers is what the view has and what the host has beside it.
LEMMA ListsTheView ==
  ASSUME ViewTypes, Books, Listing, NEW k \in Keys
  PROVE  k \in Listed <=> View(k) \in Vals \/ (View(k) = Unseen /\ cache[k] # None)
                          \/ (k \in missing /\ cache[k] # None)
<1> USE ExecParameters DEF ViewTypes, Listing
<1>1. CASE local[k] # None
  BY <1>1 DEF Listed, View, Books, KeyBooks
<1>2. CASE local[k] = None /\ k \in deleted \cup missing
  BY <1>2 DEF Listed, View
<1>3. CASE local[k] = None /\ k \notin deleted \cup missing
  BY <1>3 DEF Listed, View
<1> QED
  BY <1>1, <1>2, <1>3

\* Whatever changes the view or the host's cache takes the listing back.
LEMMA ListingStep ==
  ASSUME ViewInv, Listing, [Next]_vars
  PROVE  Listing'
<1> USE ExecParameters DEF ViewInv, ViewTypes, Listing, ListingAgrees, View, hostVars,
     tmplVars, viewVars, runVars, Nothing, Blank
<1>1. CASE Asks
  BY <1>1 DEF Asks
<1>2. CASE TemplateForks
  BY <1>2 DEF TemplateForks, NewRun
<1>3. CASE GotPid
  BY <1>3 DEF GotPid
<1>4. CASE Trouble
  BY <1>4 DEF Trouble
<1>5. CASE Spawn
  BY <1>5 DEF Spawn, NewRun
<1>6. CASE Send
  BY <1>6 DEF Send, Ends
<1>7. CASE Stops
  BY <1>7 DEF Stops, Ends, Killed
<1>8. CASE FindsItDead
  BY <1>8 DEF FindsItDead, Ends
<1>9. CASE TakesResult
  BY <1>9 DEF TakesResult, Ends
<1>10. CASE TakesRequest
  BY <1>10 DEF TakesRequest
<1>11. CASE Relays
  <2>1. CASE run \in {"dead", "mute"}
    BY <1>11, <2>1 DEF Relays, Ends
  <2>2. CASE run \notin {"dead", "mute"} /\ mail = "get"
    <3>1. Fetched(todo.key) /\ listed' = None /\ mail' = None /\ run' = "code"
      BY <1>11, <2>2 DEF Relays, Fetched
    <3>2. todo.key \in Keys /\ View(todo.key) = Unseen
      BY <2>2 DEF InTransit
    <3>3. \A k \in missing' : local'[k] = None /\ k \notin deleted'
      BY <3>1, <3>2 DEF Fetched
    <3> QED
      BY <3>1, <3>3
  <2>3. CASE run \notin {"dead", "mute"} /\ mail = "keys"
    <3>1. /\ listed' = Listed /\ mail' = None /\ run' = "code"
          /\ UNCHANGED <<local, deleted, missing, cache>>
      BY <1>11, <2>3 DEF Relays
    <3>2. \A k \in Keys : View(k)' = View(k)
      BY <3>1
    <3> QED
      BY <3>1, <3>2, ListsTheView
  <2>4. CASE run \notin {"dead", "mute"} /\ mail = "call"
    BY <1>11, <2>4 DEF Relays
  <2> QED
    BY <1>11, <2>1, <2>2, <2>3, <2>4 DEF Relays
<1>12. CASE Reap
  <2>1. mail' = None /\ run' = "none"
    BY <1>12 DEF Reap
  <2>2. UNCHANGED cache /\ (UNCHANGED viewVars \/ Forgets)
    BY <1>12 DEF Reap
  <2> QED
    BY <2>1, <2>2 DEF Forgets
<1>13. CASE Answer
  BY <1>13 DEF Answer, Forgets
<1>14. CASE SetsGroup
  BY <1>14 DEF SetsGroup
<1>15. CASE Serves
  BY <1>15 DEF Serves
<1>16. CASE CodeAsks
  BY <1>16 DEF CodeAsks, RoundTrip, DoesOne
<1>17. CASE CodeEnds
  BY <1>17 DEF CodeEnds, Flushes, Forgets
<1>18. CASE RunnerFails
  BY <1>18 DEF RunnerFails, Forgets
<1>19. CASE WritesFile
  BY <1>19 DEF WritesFile
<1>20. CASE Warms
  BY <1>20 DEF Warms
<1>21. CASE TemplateDies
  BY <1>21 DEF TemplateDies
<1>22. CASE Ping
  BY <1>22 DEF Ping
<1>23. CASE Refreshes
  BY <1>23 DEF Refreshes
<1>24. CASE \E kind \in Kinds : Python(kind)
  BY <1>24 DEF Python
<1>25. CASE \E k \in Keys : HostPut(k)
  BY <1>25 DEF HostPut
<1>26. CASE \E k \in Keys : CodeDeletes(k)
  BY <1>26 DEF CodeDeletes, DoesOne
<1>27. CASE \E k \in Keys, v \in Vals : CodePuts(k, v)
  BY <1>27 DEF CodePuts, DoesOne, Undeleted
<1>28. CASE \E k \in Keys, v \in Vals : CodeMutates(k, v)
  BY <1>28 DEF CodeMutates, DoesOne
<1>29. CASE UNCHANGED vars
  BY <1>29 DEF vars
<1> QED
  BY <1>1, <1>2, <1>3, <1>4, <1>5, <1>6, <1>7, <1>8, <1>9, <1>10, <1>11, <1>12, <1>13,
       <1>14, <1>15, <1>16, <1>17, <1>18, <1>19, <1>20, <1>21, <1>22, <1>23, <1>24,
       <1>25, <1>26, <1>27, <1>28, <1>29 DEF Next, Supervisor, Runner

\* A view asked for its keys names those it would answer for, and no key the code has
\* deleted.
THEOREM ListingCorrect == Spec => []ListingAgrees
<1>1. Spec => []Listing
  BY InitListing, ListingStep, ViewInvariant, PTL DEF Spec
<1>2. Listing => ListingAgrees
  BY DEF Listing
<1> QED
  BY <1>1, <1>2, PTL

-----------------------------------------------------------------------------
(* Types.                                                                  *)

\* How many runners the exec can still leave behind: one of each run it has left.
Budget ==
  CASE pc \in {"idle", "answer"} -> 0
    [] pc \in {"fork", "asked"} \/ forked -> 2
    [] OTHER -> 1

\* The types that ViewTypes, Counted and Forking do not name.
RestTyped ==
  /\ call \in Kinds \cup {None}
  /\ execs \in 0..Execs /\ puts \in 0..HostPuts /\ ops \in 0..Ops
  /\ result \in {None, "ok", "Error", "Timeout", "Cancelled", "RunnerCrash"}
  /\ run \in {"none", "fresh", "up", "code", "wait", "mute", "done", "dead"}
  /\ mail \in {None, "get", "keys", "call", "ok", "Error", "Timeout", "RunnerCrash"}
  /\ todo = None \/ todo \in [key : Keys, del : BOOLEAN]
  /\ listed = None \/ listed \subseteq Keys
  /\ flushed = None
       \/ flushed \in [writes : [Keys -> Vals \cup {None}], deletes : SUBSET Keys]

Template ==
  tmpl \in [held : BOOLEAN, ready : BOOLEAN, warm : BOOLEAN,
            proc : {"none", "importing", "parked", "closing", "dead"}]

Flags ==
  /\ noted \in BOOLEAN /\ forked \in BOOLEAN /\ sent \in BOOLEAN
  /\ answered \in BOOLEAN /\ moved \in BOOLEAN

Bounded == astray \in Nat /\ astray + Budget <= 2 * execs

\* All types hold at first.
LEMMA InitTypes == Init => RestTyped /\ Flags /\ Template /\ Bounded
<1> SUFFICES ASSUME Init PROVE RestTyped /\ Flags /\ Template /\ Bounded
  OBVIOUS
<1>1. RestTyped
  BY ExecParameters DEF Init, RestTyped
<1>2. Flags
  BY DEF Init, Flags
<1>3. Template
  BY DEF Init, Template, Started
<1>4. Bounded
  BY DEF Init, Bounded, Budget
<1> QED
  BY <1>1, <1>2, <1>3, <1>4

\* A template that is started again is of its type.
LEMMA RestartsTyped ==
  ASSUME tmpl' \in Restarts
  PROVE  Template'
<1>1. CASE tmpl' = Started
  BY <1>1 DEF Template, Started
<1>2. CASE tmpl' = Off
  BY <1>2 DEF Template, Off
<1> QED
  BY <1>1, <1>2 DEF Restarts

\* So is one the supervisor has looked at.
LEMMA LookedAtTyped ==
  ASSUME Template, tmpl' \in WorkerState
  PROVE  Template'
<1>1. CASE tmpl' \in Restarts
  BY <1>1, RestartsTyped
<1>2. CASE tmpl' = tmpl
  BY <1>2 DEF Template
<1>3. CASE tmpl' = [tmpl EXCEPT !.ready = TRUE]
  BY <1>3 DEF Template
<1>4. CASE tmpl' = Off
  BY <1>4 DEF Template, Off
<1> QED
  BY <1>1, <1>2, <1>3, <1>4 DEF WorkerState

\* Steps keep the other types.
LEMMA RestStep ==
  ASSUME RestTyped, ViewTypes, [Next]_vars
  PROVE  RestTyped'
<1> USE ExecParameters DEF RestTyped, ViewTypes, hostVars, tmplVars, viewVars, runVars
<1>1. CASE Asks
  BY <1>1 DEF Asks
<1>2. CASE TemplateForks
  BY <1>2 DEF TemplateForks, NewRun
<1>3. CASE GotPid
  BY <1>3 DEF GotPid
<1>4. CASE Trouble
  BY <1>4 DEF Trouble
<1>5. CASE Spawn
  BY <1>5 DEF Spawn, NewRun
<1>6. CASE Send
  BY <1>6 DEF Send, Ends
<1>7. CASE Stops
  BY <1>7 DEF Stops, Ends, Killed
<1>8. CASE FindsItDead
  BY <1>8 DEF FindsItDead, Ends
<1>9. CASE TakesResult
  BY <1>9 DEF TakesResult, Ends
<1>10. CASE TakesRequest
  BY <1>10 DEF TakesRequest
<1>11. CASE Relays
  <2>1. listed' \in {listed, None, Listed}
    BY <1>11 DEF Relays, Fetched
  <2>2. Listed \subseteq Keys
    BY DEF Listed
  <2>3. UNCHANGED flushed
    BY <1>11 DEF Relays
  <2>4. /\ mail' = None /\ todo' = None
        /\ run' = run \/ run' = "code"
        /\ result' = result \/ result' = "RunnerCrash"
        /\ UNCHANGED <<call, execs, puts, ops>>
    BY <1>11 DEF Relays, Ends
  <2> QED
    BY <2>1, <2>2, <2>3, <2>4
<1>12. CASE Reap
  BY <1>12 DEF Reap, Forgets, Retries
<1>13. CASE Answer
  BY <1>13 DEF Answer, Forgets
<1>14. CASE SetsGroup
  BY <1>14 DEF SetsGroup
<1>15. CASE Serves
  BY <1>15 DEF Serves
<1>16. CASE CodeAsks
  BY <1>16 DEF CodeAsks, RoundTrip, DoesOne
<1>17. CASE CodeEnds
  BY <1>17 DEF CodeEnds, Flushes, Forgets
<1>18. CASE RunnerFails
  BY <1>18 DEF RunnerFails, Forgets
<1>19. CASE WritesFile
  BY <1>19 DEF WritesFile
<1>20. CASE Warms
  BY <1>20 DEF Warms
<1>21. CASE TemplateDies
  BY <1>21 DEF TemplateDies
<1>22. CASE Ping
  BY <1>22 DEF Ping
<1>23. CASE Refreshes
  BY <1>23 DEF Refreshes
<1>24. CASE \E kind \in Kinds : Python(kind)
  BY <1>24 DEF Python
<1>25. CASE \E k \in Keys : HostPut(k)
  BY <1>25 DEF HostPut
<1>26. CASE \E k \in Keys : CodeDeletes(k)
  BY <1>26 DEF CodeDeletes, DoesOne
<1>27. CASE \E k \in Keys, v \in Vals : CodePuts(k, v)
  BY <1>27 DEF CodePuts, DoesOne, Undeleted
<1>28. CASE \E k \in Keys, v \in Vals : CodeMutates(k, v)
  BY <1>28 DEF CodeMutates, DoesOne
<1>29. CASE UNCHANGED vars
  BY <1>29 DEF vars
<1> QED
  BY <1>1, <1>2, <1>3, <1>4, <1>5, <1>6, <1>7, <1>8, <1>9, <1>10, <1>11, <1>12, <1>13,
       <1>14, <1>15, <1>16, <1>17, <1>18, <1>19, <1>20, <1>21, <1>22, <1>23, <1>24,
       <1>25, <1>26, <1>27, <1>28, <1>29 DEF Next, Supervisor, Runner

\* Steps keep the flags.
LEMMA FlagsStep ==
  ASSUME Flags, [Next]_vars
  PROVE  Flags'
<1> USE DEF Flags, hostVars, tmplVars, viewVars, runVars
<1>1. CASE Asks
  BY <1>1 DEF Asks
<1>2. CASE TemplateForks
  BY <1>2 DEF TemplateForks, NewRun
<1>3. CASE GotPid
  BY <1>3 DEF GotPid
<1>4. CASE Trouble
  BY <1>4 DEF Trouble
<1>5. CASE Spawn
  BY <1>5 DEF Spawn, NewRun
<1>6. CASE Send
  BY <1>6 DEF Send, Ends
<1>7. CASE Stops
  BY <1>7 DEF Stops, Ends, Killed
<1>8. CASE FindsItDead
  BY <1>8 DEF FindsItDead, Ends
<1>9. CASE TakesResult
  BY <1>9 DEF TakesResult, Ends
<1>10. CASE TakesRequest
  BY <1>10 DEF TakesRequest
<1>11. CASE Relays
  BY <1>11 DEF Relays, Fetched, Ends, Forgets
<1>12. CASE Reap
  BY <1>12 DEF Reap, Forgets, Retries
<1>13. CASE Answer
  BY <1>13 DEF Answer, Forgets
<1>14. CASE SetsGroup
  BY <1>14 DEF SetsGroup
<1>15. CASE Serves
  BY <1>15 DEF Serves
<1>16. CASE CodeAsks
  BY <1>16 DEF CodeAsks, RoundTrip, DoesOne
<1>17. CASE CodeEnds
  BY <1>17 DEF CodeEnds, Flushes, Forgets
<1>18. CASE RunnerFails
  BY <1>18 DEF RunnerFails, Forgets
<1>19. CASE WritesFile
  BY <1>19 DEF WritesFile
<1>20. CASE Warms
  BY <1>20 DEF Warms
<1>21. CASE TemplateDies
  BY <1>21 DEF TemplateDies
<1>22. CASE Ping
  BY <1>22 DEF Ping
<1>23. CASE Refreshes
  BY <1>23 DEF Refreshes
<1>24. CASE \E kind \in Kinds : Python(kind)
  BY <1>24 DEF Python
<1>25. CASE \E k \in Keys : HostPut(k)
  BY <1>25 DEF HostPut
<1>26. CASE \E k \in Keys : CodeDeletes(k)
  BY <1>26 DEF CodeDeletes, DoesOne
<1>27. CASE \E k \in Keys, v \in Vals : CodePuts(k, v)
  BY <1>27 DEF CodePuts, DoesOne, Undeleted
<1>28. CASE \E k \in Keys, v \in Vals : CodeMutates(k, v)
  BY <1>28 DEF CodeMutates, DoesOne
<1>29. CASE UNCHANGED vars
  BY <1>29 DEF vars
<1> QED
  BY <1>1, <1>2, <1>3, <1>4, <1>5, <1>6, <1>7, <1>8, <1>9, <1>10, <1>11, <1>12, <1>13,
       <1>14, <1>15, <1>16, <1>17, <1>18, <1>19, <1>20, <1>21, <1>22, <1>23, <1>24,
       <1>25, <1>26, <1>27, <1>28, <1>29 DEF Next, Supervisor, Runner

\* Steps keep the template's type.
LEMMA TemplateStep ==
  ASSUME Template, [Next]_vars
  PROVE  Template'
<1> USE DEF Template, hostVars, tmplVars, viewVars, runVars
<1>1. CASE Asks
  BY <1>1, LookedAtTyped DEF Asks
<1>2. CASE TemplateForks
  BY <1>2 DEF TemplateForks, NewRun
<1>3. CASE GotPid
  BY <1>3 DEF GotPid
<1>4. CASE Trouble
  BY <1>4, RestartsTyped DEF Trouble, Replaced
<1>5. CASE Spawn
  BY <1>5 DEF Spawn, NewRun
<1>6. CASE Send
  BY <1>6 DEF Send, Ends
<1>7. CASE Stops
  BY <1>7 DEF Stops, Ends, Killed
<1>8. CASE FindsItDead
  BY <1>8 DEF FindsItDead, Ends
<1>9. CASE TakesResult
  BY <1>9 DEF TakesResult, Ends
<1>10. CASE TakesRequest
  BY <1>10 DEF TakesRequest
<1>11. CASE Relays
  BY <1>11 DEF Relays, Fetched, Ends, Forgets
<1>12. CASE Reap
  BY <1>12, RestartsTyped DEF Reap, NotesOutcome, Replaced
<1>13. CASE Answer
  BY <1>13 DEF Answer, Forgets
<1>14. CASE SetsGroup
  BY <1>14 DEF SetsGroup
<1>15. CASE Serves
  BY <1>15 DEF Serves
<1>16. CASE CodeAsks
  BY <1>16 DEF CodeAsks, RoundTrip, DoesOne
<1>17. CASE CodeEnds
  BY <1>17 DEF CodeEnds, Flushes, Forgets
<1>18. CASE RunnerFails
  BY <1>18 DEF RunnerFails, Forgets
<1>19. CASE WritesFile
  BY <1>19 DEF WritesFile
<1>20. CASE Warms
  BY <1>20 DEF Warms
<1>21. CASE TemplateDies
  BY <1>21 DEF TemplateDies
<1>22. CASE Ping
  BY <1>22, LookedAtTyped DEF Ping
<1>23. CASE Refreshes
  BY <1>23, RestartsTyped DEF Refreshes, Replaced
<1>24. CASE \E kind \in Kinds : Python(kind)
  BY <1>24 DEF Python
<1>25. CASE \E k \in Keys : HostPut(k)
  BY <1>25 DEF HostPut
<1>26. CASE \E k \in Keys : CodeDeletes(k)
  BY <1>26 DEF CodeDeletes, DoesOne
<1>27. CASE \E k \in Keys, v \in Vals : CodePuts(k, v)
  BY <1>27 DEF CodePuts, DoesOne, Undeleted
<1>28. CASE \E k \in Keys, v \in Vals : CodeMutates(k, v)
  BY <1>28 DEF CodeMutates, DoesOne
<1>29. CASE UNCHANGED vars
  BY <1>29 DEF vars
<1> QED
  BY <1>1, <1>2, <1>3, <1>4, <1>5, <1>6, <1>7, <1>8, <1>9, <1>10, <1>11, <1>12, <1>13,
       <1>14, <1>15, <1>16, <1>17, <1>18, <1>19, <1>20, <1>21, <1>22, <1>23, <1>24,
       <1>25, <1>26, <1>27, <1>28, <1>29 DEF Next, Supervisor, Runner

\* A runner is left behind at the cost of its run.
LEMMA BoundedStep ==
  ASSUME RestTyped, Forking, Bounded, [Next]_vars
  PROVE  Bounded'
<1> USE ExecParameters DEF RestTyped, Forking, Bounded, Budget, hostVars, tmplVars, viewVars,
     runVars
<1>1. CASE Asks
  BY <1>1 DEF Asks
<1>2. CASE TemplateForks
  BY <1>2 DEF TemplateForks, NewRun
<1>3. CASE GotPid
  BY <1>3 DEF GotPid
<1>4. CASE Trouble
  BY <1>4 DEF Trouble
<1>5. CASE Spawn
  BY <1>5 DEF Spawn, NewRun
<1>6. CASE Send
  BY <1>6 DEF Send, Ends
<1>7. CASE Stops
  BY <1>7 DEF Stops, Ends, Killed
<1>8. CASE FindsItDead
  BY <1>8 DEF FindsItDead, Ends
<1>9. CASE TakesResult
  BY <1>9 DEF TakesResult, Ends
<1>10. CASE TakesRequest
  BY <1>10 DEF TakesRequest
<1>11. CASE Relays
  BY <1>11 DEF Relays, Fetched, Ends, Forgets
<1>12. CASE Reap
  BY <1>12 DEF Reap, Forgets, Retries
<1>13. CASE Answer
  BY <1>13 DEF Answer, Forgets
<1>14. CASE SetsGroup
  BY <1>14 DEF SetsGroup
<1>15. CASE Serves
  BY <1>15 DEF Serves
<1>16. CASE CodeAsks
  BY <1>16 DEF CodeAsks, RoundTrip, DoesOne
<1>17. CASE CodeEnds
  BY <1>17 DEF CodeEnds, Flushes, Forgets
<1>18. CASE RunnerFails
  BY <1>18 DEF RunnerFails, Forgets
<1>19. CASE WritesFile
  BY <1>19 DEF WritesFile
<1>20. CASE Warms
  BY <1>20 DEF Warms
<1>21. CASE TemplateDies
  BY <1>21 DEF TemplateDies
<1>22. CASE Ping
  BY <1>22 DEF Ping
<1>23. CASE Refreshes
  BY <1>23 DEF Refreshes
<1>24. CASE \E kind \in Kinds : Python(kind)
  BY <1>24 DEF Python
<1>25. CASE \E k \in Keys : HostPut(k)
  BY <1>25 DEF HostPut
<1>26. CASE \E k \in Keys : CodeDeletes(k)
  BY <1>26 DEF CodeDeletes, DoesOne
<1>27. CASE \E k \in Keys, v \in Vals : CodePuts(k, v)
  BY <1>27 DEF CodePuts, DoesOne, Undeleted
<1>28. CASE \E k \in Keys, v \in Vals : CodeMutates(k, v)
  BY <1>28 DEF CodeMutates, DoesOne
<1>29. CASE UNCHANGED vars
  BY <1>29 DEF vars
<1> QED
  BY <1>1, <1>2, <1>3, <1>4, <1>5, <1>6, <1>7, <1>8, <1>9, <1>10, <1>11, <1>12, <1>13,
       <1>14, <1>15, <1>16, <1>17, <1>18, <1>19, <1>20, <1>21, <1>22, <1>23, <1>24,
       <1>25, <1>26, <1>27, <1>28, <1>29 DEF Next, Supervisor, Runner

\* Every variable keeps its type, and two runs an exec bound the strays.
THEOREM TypesCorrect == Spec => []TypeOK
<1>1. Spec => [](RestTyped /\ Flags /\ Template /\ Bounded)
  BY InitTypes, RestStep, FlagsStep, TemplateStep, BoundedStep, ViewInvariant, ForkingInvariant, PTL
  DEF Spec, ViewInv
<1>2. Spec => []Counted
  BY InitCounted, CountedStep, PTL DEF Spec
<1>3. RestTyped /\ Flags /\ Template /\ Bounded /\ Counted /\ ViewInv /\ Forking => TypeOK
  BY ExecParameters
  DEF RestTyped, Flags, Template, Bounded, Budget, Counted, ViewInv, ViewTypes, Forking, TypeOK
<1> QED
  BY <1>1, <1>2, <1>3, ViewInvariant, ForkingInvariant, PTL

=============================================================================
