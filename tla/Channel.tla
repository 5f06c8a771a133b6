-------------------------------- MODULE Channel --------------------------------
(***************************************************************************)
(* dud.proto.Channel between a session (backends/base.py) and the guest's  *)
(* supervisor.  Both ends are synchronous: an end that awaits an answer    *)
(* serves the peer's requests meanwhile, and a handler may ask back, so    *)
(* the requests of both ends nest.  cancel() is the one thing another      *)
(* thread does, and the one frame nobody answers.                          *)
(*                                                                         *)
(* The supervisor is in serve() when it has nothing in hand.  A session    *)
(* that is lost is terminal by contract, and the model stops there.        *)
(***************************************************************************)
EXTENDS Naturals, Sequences, SequencesExt

CONSTANTS
  Cancellers,  \* calls to session.cancel(), each from a thread of its own
  MaxId,       \* bound: requests an end makes
  MaxDepth,    \* bound: how deep requests nest at one end
  Reentrant,   \* a host object may call back into its own session
  Faults       \* the guest may die, a deadline may pass

ASSUME ChannelParameters ==
  MaxId \in Nat /\ MaxDepth \in Nat /\ {Reentrant, Faults} \subseteq BOOLEAN

Ends == {"host", "guest"}
Peer(e) == IF e = "host" THEN "guest" ELSE "host"
Ids == 0..MaxId    \* 0 stands for Python's None

VARIABLES
  lastId,     \* _next_id
  awaiting,   \* awaiting
  serving,    \* serving
  cut,        \* _cancelled
  stack,      \* each end's frames of request() and _serve_one(), innermost last
  sending,    \* a request is published and not yet sent: it holds _send_lock
  wire,       \* the frames on the way to each end
  target,     \* the id each canceller has read, 0 before it has
  lost,       \* session._lost is set
  gone,       \* the guest is dead
  named,      \* history: the host requests that a cancel() has read
  cutShort    \* the requests whose caller was told that they were cancelled

chanVars == <<lastId, awaiting, serving, cut, stack, sending>>
vars == <<chanVars, wire, target, lost, gone, named, cutShort>>

Request(i, outer) == [op |-> "request", id |-> i, outer |-> outer, cut |-> FALSE]
Serve(i, outer, c) == [op |-> "serve", id |-> i, outer |-> outer, cut |-> c]
Activities == [op : {"request", "serve"}, id : Ids \ {0}, outer : Ids, cut : BOOLEAN]

Frame(kind, i, c) == [kind |-> kind, id |-> i, cut |-> c]
Frames == [kind : {"req", "answer", "cancel"}, id : Ids \ {0}, cut : BOOLEAN]

Init ==
  /\ lastId = [e \in Ends |-> 0]
  /\ awaiting = [e \in Ends |-> 0]
  /\ serving = [e \in Ends |-> 0]
  /\ cut = [e \in Ends |-> FALSE]
  /\ stack = [e \in Ends |-> <<>>]
  /\ sending = [e \in Ends |-> FALSE]
  /\ wire = [e \in Ends |-> <<>>]
  /\ target = [c \in Cancellers |-> 0]
  /\ lost = FALSE /\ gone = FALSE
  /\ named = {} /\ cutShort = {}

Top(e) == Last(stack[e])
InHandler(e) == stack[e] # <<>> /\ Top(e).op = "serve"
InRequest(e) == stack[e] # <<>> /\ Top(e).op = "request" /\ ~sending[e]
InLoop(e)    == e = "guest" /\ stack[e] = <<>>

Runs(e) == ~lost /\ (e = "guest" => ~gone)

Arrived(e, kind) == wire[e] # <<>> /\ Head(wire[e]).kind = kind
Read(e) == wire' = [wire EXCEPT ![e] = Tail(@)]
Write(e, f) == wire' = [wire EXCEPT ![Peer(e)] = Append(@, f)]

-----------------------------------------------------------------------------
(* request().                                                              *)

\* Who may start one: the session's owner, or a handler.
MayAsk(e) ==
  \/ e = "host" /\ stack[e] = <<>>
  \/ InHandler(e) /\ (e = "guest" \/ Reentrant)

\* The id is published under the send lock, before the frame goes out.
Publish(e) ==
  /\ Runs(e) /\ MayAsk(e)
  /\ lastId[e] < MaxId /\ Len(stack[e]) < MaxDepth
  /\ lastId' = [lastId EXCEPT ![e] = @ + 1]
  /\ awaiting' = [awaiting EXCEPT ![e] = lastId[e] + 1]
  /\ stack' = [stack EXCEPT ![e] = Append(@, Request(lastId[e] + 1, awaiting[e]))]
  /\ sending' = [sending EXCEPT ![e] = TRUE]
  /\ UNCHANGED <<serving, cut, wire, target, lost, gone, named, cutShort>>

SendRequest(e) ==
  /\ Runs(e) /\ sending[e]
  /\ Write(e, Frame("req", Top(e).id, FALSE))
  /\ sending' = [sending EXCEPT ![e] = FALSE]
  /\ UNCHANGED <<lastId, awaiting, serving, cut, stack, target, lost, gone, named,
                 cutShort>>

\* The body cannot be encoded, or is over the cap: nothing goes out, the caller gets
\* the exception, and the finally clause unwinds.
SendRefused(e) ==
  /\ Runs(e) /\ sending[e]
  /\ sending' = [sending EXCEPT ![e] = FALSE]
  /\ awaiting' = [awaiting EXCEPT ![e] = Top(e).outer]
  /\ stack' = [stack EXCEPT ![e] = Front(@)]
  /\ UNCHANGED <<lastId, serving, cut, wire, target, lost, gone, named, cutShort>>

\* Mutant: no finally clause puts the outer request back.
AnsweredForgets(e) ==
  /\ Runs(e) /\ InRequest(e)
  /\ Arrived(e, "answer") /\ Head(wire[e]).id = Top(e).id
  /\ Read(e)
  /\ awaiting' = [awaiting EXCEPT ![e] = 0]
  /\ stack' = [stack EXCEPT ![e] = Front(@)]
  /\ cutShort' = IF Head(wire[e]).cut THEN cutShort \cup {<<e, Top(e).id>>} ELSE cutShort
  /\ UNCHANGED <<lastId, serving, cut, sending, target, lost, gone, named>>

\* The answer to the innermost request; any other would be a ProtocolError.
Answered(e) ==
  /\ Runs(e) /\ InRequest(e)
  /\ Arrived(e, "answer") /\ Head(wire[e]).id = Top(e).id
  /\ Read(e)
  /\ awaiting' = [awaiting EXCEPT ![e] = Top(e).outer]
  /\ stack' = [stack EXCEPT ![e] = Front(@)]
  /\ cutShort' = IF Head(wire[e]).cut THEN cutShort \cup {<<e, Top(e).id>>} ELSE cutShort
  /\ UNCHANGED <<lastId, serving, cut, sending, target, lost, gone, named>>

-----------------------------------------------------------------------------
(* _serve_one(), from serve() or from inside request().                    *)

\* Mutant: the flag of the request served before stays.
ServesKeepsFlag(e) ==
  /\ Runs(e) /\ (InRequest(e) \/ InLoop(e))
  /\ Arrived(e, "req")
  /\ Read(e)
  /\ stack' = [stack EXCEPT ![e] = Append(@, Serve(Head(wire[e]).id, serving[e], cut[e]))]
  /\ serving' = [serving EXCEPT ![e] = Head(wire[e]).id]
  /\ UNCHANGED <<lastId, awaiting, cut, sending, target, lost, gone, named, cutShort>>

Serves(e) ==
  /\ Runs(e) /\ (InRequest(e) \/ InLoop(e))
  /\ Arrived(e, "req")
  /\ Read(e)
  /\ stack' = [stack EXCEPT ![e] = Append(@, Serve(Head(wire[e]).id, serving[e], cut[e]))]
  /\ serving' = [serving EXCEPT ![e] = Head(wire[e]).id]
  /\ cut' = [cut EXCEPT ![e] = FALSE]
  /\ UNCHANGED <<lastId, awaiting, sending, target, lost, gone, named, cutShort>>

\* The handler returns or raises, and the peer is answered either way.  An exec
\* that was cancelled says so, unless it had ended already.
FinishWith(e, f) ==
  /\ Runs(e) /\ InHandler(e)
  /\ Write(e, f)
  /\ stack' = [stack EXCEPT ![e] = Front(@)]
  /\ serving' = [serving EXCEPT ![e] = Top(e).outer]
  /\ cut' = [cut EXCEPT ![e] = Top(e).cut]
  /\ UNCHANGED <<lastId, awaiting, sending, target, lost, gone, named, cutShort>>

\* Mutant: a handler's exception unwinds without an answer.
FinishQuietly(e) ==
  \/ \E c \in {FALSE, cut[e]} : FinishWith(e, Frame("answer", Top(e).id, c))
  \/ /\ Runs(e) /\ InHandler(e)
     /\ stack' = [stack EXCEPT ![e] = Front(@)]
     /\ serving' = [serving EXCEPT ![e] = Top(e).outer]
     /\ cut' = [cut EXCEPT ![e] = Top(e).cut]
     /\ UNCHANGED <<lastId, awaiting, sending, wire, target, lost, gone, named, cutShort>>

\* Mutant: a request that was served inside another is answered under the outer id.
FinishNamesOuter(e) ==
  \E c \in {FALSE, cut[e]} : FinishWith(e, Frame("answer", Top(e).outer, c))

\* Mutant: the answer went out, and an exception after it sends another.
FinishTwice(e) ==
  \E c \in {FALSE, cut[e]} :
    LET f == Frame("answer", Top(e).id, c)
    IN  /\ Runs(e) /\ InHandler(e)
        /\ \E n \in 1..2 :
             wire' = [wire EXCEPT ![Peer(e)] = @ \o SubSeq(<<f, f>>, 1, n)]
        /\ stack' = [stack EXCEPT ![e] = Front(@)]
        /\ serving' = [serving EXCEPT ![e] = Top(e).outer]
        /\ cut' = [cut EXCEPT ![e] = Top(e).cut]
        /\ UNCHANGED <<lastId, awaiting, sending, target, lost, gone, named, cutShort>>

Finish(e) == \E c \in {FALSE, cut[e]} : FinishWith(e, Frame("answer", Top(e).id, c))

-----------------------------------------------------------------------------
(* Cancel.                                                                 *)

\* cancel() reads the awaited id without the lock; with none it returns False.
CancelReads(c) ==
  /\ ~lost /\ target[c] = 0
  /\ awaiting["host"] # 0
  /\ target' = [target EXCEPT ![c] = awaiting["host"]]
  /\ named' = named \cup {awaiting["host"]}
  /\ UNCHANGED <<chanVars, wire, lost, gone, cutShort>>

\* Mutant: the frame is written without the send lock.
CancelSendsUnlocked(c) ==
  /\ ~lost /\ target[c] # 0 /\ target[c] \in named
  /\ Write("host", Frame("cancel", target[c], FALSE))
  /\ target' = [target EXCEPT ![c] = MaxId + 1]
  /\ UNCHANGED <<chanVars, lost, gone, named, cutShort>>

\* Then it sends, under the lock a request is sent under.
CancelSends(c) ==
  /\ ~lost /\ target[c] # 0 /\ target[c] \in named
  /\ ~sending["host"]
  /\ Write("host", Frame("cancel", target[c], FALSE))
  /\ target' = [target EXCEPT ![c] = MaxId + 1]
  /\ UNCHANGED <<chanVars, lost, gone, named, cutShort>>

\* Mutant: any cancel is taken to be for the request in hand.
NoteAny(e, i) == cut' = [cut EXCEPT ![e] = serving[e] # 0]

\* _note_cancel: one that names another request is dropped.
Note(e, i) == cut' = [cut EXCEPT ![e] = @ \/ (serving[e] # 0 /\ serving[e] = i)]

\* Read by request() while it relays for the request in hand, or by the handler.
NotesCancel(e) ==
  /\ Runs(e) /\ (InRequest(e) \/ InHandler(e))
  /\ Arrived(e, "cancel")
  /\ Read(e)
  /\ Note(e, Head(wire[e]).id)
  /\ UNCHANGED <<lastId, awaiting, serving, stack, sending, target, lost, gone, named,
                 cutShort>>

\* serve() drops one that comes when its request was answered.
DropsCancel(e) ==
  /\ Runs(e) /\ InLoop(e)
  /\ Arrived(e, "cancel")
  /\ Read(e)
  /\ UNCHANGED <<chanVars, target, lost, gone, named, cutShort>>

-----------------------------------------------------------------------------
(* Loss, and the whole.                                                    *)

GuestDies ==
  /\ Faults /\ ~gone /\ ~lost
  /\ gone' = TRUE
  /\ UNCHANGED <<chanVars, wire, target, lost, named, cutShort>>

\* The deadline passes, or the wire is dead: SessionLost, once and for all.
Loses ==
  /\ ~lost /\ stack["host"] # <<>> /\ Top("host").op = "request"
  /\ gone \/ Faults
  /\ lost' = TRUE
  /\ UNCHANGED <<chanVars, wire, target, gone, named, cutShort>>

Step(e) ==
  \/ SendRequest(e) \/ Answered(e) \/ Serves(e) \/ NotesCancel(e) \/ DropsCancel(e)

Next ==
  \/ \E e \in Ends : Publish(e) \/ SendRefused(e) \/ Finish(e) \/ Step(e)
  \/ \E c \in Cancellers : CancelReads(c) \/ CancelSends(c)
  \/ GuestDies
  \/ Loses

Spec == Init /\ [][Next]_vars

\* Either end reads and writes what it can, and a cancel() under way goes on.  Of
\* handlers only two kinds are sure to end: a host object, and an exec that was
\* cancelled, which the guest kills.  A dead guest is noticed.
Fairness ==
  /\ \A e \in Ends : WF_vars(Step(e))
  /\ WF_vars(Finish("host"))
  /\ WF_vars(cut["guest"] /\ Finish("guest"))
  /\ \A c \in Cancellers : WF_vars(CancelSends(c))
  /\ WF_vars(gone /\ Loses)

FairSpec == Spec /\ Fairness
-----------------------------------------------------------------------------
(* Properties.                                                             *)

\* Every book, frame and flag of the channel is of its type; no answer is unnamed.
TypeOK ==
  /\ lastId \in [Ends -> Ids] /\ awaiting \in [Ends -> Ids] /\ serving \in [Ends -> Ids]
  /\ cut \in [Ends -> BOOLEAN] /\ sending \in [Ends -> BOOLEAN]
  /\ \A e \in Ends : stack[e] \in Seq(Activities) /\ wire[e] \in Seq(Frames)
  /\ target \in [Cancellers -> 0..(MaxId + 1)]
  /\ lost \in BOOLEAN /\ gone \in BOOLEAN
  /\ named \subseteq Ids \ {0} /\ cutShort \subseteq Ends \X Ids

\* No ProtocolError among correct ends: request() meets a request, a cancel or the
\* answer to its innermost request, serve() a request or a cancel, and a handler that
\* looks at the channel (read_cancel) nothing but a cancel.
FramesFit ==
  \A e \in Ends : wire[e] # <<>> =>
    LET f == Head(wire[e])
    IN  /\ InRequest(e) /\ f.kind = "answer" => f.id = Top(e).id
        /\ InLoop(e) => f.kind # "answer"
        /\ InHandler(e) => f.kind = "cancel"

\* The two ends never both wait for the other: whatever nested, was refused, raised
\* or was cancelled, someone is still about to answer.
Waits(e) ==
  /\ InRequest(e) \/ InLoop(e)
  /\ \A n \in 1..Len(wire[e]) : wire[e][n].kind = "cancel"
NeverBothWait == ~(\A e \in Ends : Waits(e))

\* However requests nested and ended, awaiting is the innermost request of this end
\* and serving the innermost of the peer's: what cancel() and _note_cancel go by.
Innermost(e, op) ==
  LET S == {n \in 1..Len(stack[e]) : stack[e][n].op = op}
  IN  IF S = {} THEN 0 ELSE stack[e][CHOOSE n \in S : \A m \in S : m <= n].id
BooksMatch ==
  \A e \in Ends : /\ awaiting[e] = Innermost(e, "request")
                  /\ serving[e] = Innermost(e, "serve")

\* A cancel() ends the exec it found, whatever its code does, unless a host object
\* has called back into the session since.
OpenAt(e, i) == \E n \in 1..Len(stack[e]) : stack[e][n].op = "request" /\ stack[e][n].id = i
ServedAt(e, i) == \E n \in 1..Len(stack[e]) : stack[e][n].op = "serve" /\ stack[e][n].id = i
CancelEnds ==
  \A i \in 1..MaxId :
    i \in named ~> ~OpenAt("host", i) \/ lost \/ lastId["host"] # i

\* "Stop the exec in flight, from any thread ... a cancel that loses the race with its
\* answer does nothing": one that comes before its request is answered does something,
\* the guest's frame that serves the request learns of it.
Learnt(i) ==
  \/ serving["guest"] = i /\ cut["guest"]
  \/ \E n \in 1..Len(stack["guest"]) :
       LET f == stack["guest"][n] IN f.op = "serve" /\ f.outer = i /\ f.cut
CancelTakesHold ==
  [][\A i \in 1..MaxId :
       wire["guest"] # <<>> /\ Head(wire["guest"]) = Frame("cancel", i, FALSE)
       /\ wire'["guest"] = Tail(wire["guest"]) /\ ServedAt("guest", i) => Learnt(i)']_vars

\* How far a request has got, for the promise in Rpc.
InWire(e, kind, i) == \E n \in 1..Len(wire[e]) : wire[e][n].kind = kind /\ wire[e][n].id = i
StageOf(r) ==
  IF r[2] > lastId[r[1]] THEN "new"
  ELSE IF ~OpenAt(r[1], r[2]) THEN "done"
  ELSE IF sending[r[1]] /\ r[2] = lastId[r[1]] THEN "made"
  ELSE IF InWire(r[1], "answer", r[2]) THEN "answered"
  ELSE IF ServedAt(Peer(r[1]), r[2]) THEN "served"
  ELSE "asked"

Abstract == INSTANCE Rpc WITH
  stage <- [r \in Ends \X (1..MaxId) |-> StageOf(r)],
  named <- {<<"host", i>> : i \in named}

\* The channel keeps what Rpc promises.
KeepsPromise == Abstract!Spec
================================================================================
