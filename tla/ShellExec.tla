------------------------------- MODULE ShellExec -------------------------------
(***************************************************************************)
(* One exec_shell in the guest (guest/shell.py): the script, the dud-emit  *)
(* and dud-hostcall commands it starts, and the supervisor's pump, which   *)
(* reads their pipes, relays to the host, and ends when the script does,   *)
(* at the deadline, or when the host cancels.                              *)
(*                                                                         *)
(* A frame is two pieces, the second with the newline: a writer may be     *)
(* killed between them, and a pipe may hold one without the other.  The    *)
(* script's output, which nothing else depends on, is left out.            *)
(***************************************************************************)
EXTENDS Naturals, Sequences, FiniteSets, SequencesExt

CONSTANTS
  Calls,    \* dud-hostcall commands the script may start
  Emits,    \* dud-emit commands
  None,
  Starts,   \* bound: commands it starts in all
  RespCap,  \* bound: pieces the answer pipe holds before it is full
  Kills,    \* the script may kill a command it started (timeout 1 dud-hostcall ...)
  Stops     \* the deadline may pass and the host may cancel

ASSUME ShellParameters ==
  /\ Calls \cap Emits = {} /\ None \notin Calls \cup Emits
  /\ {Starts, RespCap} \subseteq Nat \ {0} /\ {Kills, Stops} \subseteq BOOLEAN

VARIABLES
  script,   \* "runs", "trap", "over", "died" (by its own hand), "shot" (by the pump)
  wrote,    \* what its EXIT trap has written: 1 is cwd, 2 cwd and env
  daemon,   \* it left a process that holds its pipes
  cmd,      \* how far each command is
  got,      \* whose answer each call printed
  hlock, elock,        \* who holds hostcall.lock and emit.lock
  reqs, resps, recs,   \* the pipes
  rbuf,                \* what each call has read of its answer
  hbuf, ebuf,          \* _Hostcalls._buf, _Emits._buf
  pc,       \* where the pump stands
  ready,    \* what select() said
  out,      \* what _respond has yet to write
  took,     \* the drain has read once
  late,     \* the deadline has passed
  asked, noted,        \* the host's cancel: sent, and read
  stopped,  \* what _pump returns: "no" yet, "exit" (None), "timeout", "cancel"
  state,    \* what the session took of that
  heard,    \* history: the records the host was sent
  sent,     \* history: the records written whole, in order
  intime    \* history: those written before the script was over

procVars == <<script, wrote, daemon, cmd, got, hlock, elock, rbuf, sent>>
pumpVars == <<hbuf, ebuf, pc, ready, out, took, noted, stopped, state, heard>>
vars == <<procVars, pumpVars, reqs, resps, recs, late, asked, intime>>

Piece(p, end) == [of |-> p, end |-> end]
Pieces == [of : Calls \cup Emits \cup {None}, end : BOOLEAN]
Whole(p) == <<Piece(p, FALSE), Piece(p, TRUE)>>

\* The first line of a buffer, and the rest: partition(b"\n").
LineEnd(buf) == CHOOSE n \in 1..Len(buf) : buf[n].end /\ \A m \in 1..(n - 1) : ~buf[m].end
HasLine(buf) == \E n \in 1..Len(buf) : buf[n].end
Line(buf) == SubSeq(buf, 1, LineEnd(buf))
Rest(buf) == SubSeq(buf, LineEnd(buf) + 1, Len(buf))

\* Whom a line is from; a frame that was cut is not JSON.
Of(line) == IF line = Whole(line[1].of) THEN line[1].of ELSE None

Init ==
  /\ script = "runs" /\ wrote = 0 /\ daemon = FALSE
  /\ cmd = [p \in Calls \cup Emits |-> "new"]
  /\ got = [c \in Calls |-> None]
  /\ hlock = None /\ elock = None
  /\ reqs = <<>> /\ resps = <<>> /\ recs = <<>>
  /\ rbuf = [c \in Calls |-> <<>>]
  /\ hbuf = <<>> /\ ebuf = <<>>
  /\ pc = "top" /\ ready = {} /\ out = <<>> /\ took = FALSE
  /\ late = FALSE /\ asked = FALSE /\ noted = FALSE
  /\ stopped = "no" /\ state = 0
  /\ heard = <<>> /\ sent = <<>> /\ intime = {}

Active == {p \in Calls \cup Emits : cmd[p] \in {"writing", "waiting"}}
Ended == pc = "ended"    \* run_shell has closed its ends of the pipes
Gone == script \in {"over", "died"}

\* Somebody is left who may start a command, or kill one.
Lively == ~Ended /\ (script \in {"runs", "trap"} \/ daemon)
MayStart == Lively /\ Cardinality({p \in Calls \cup Emits : cmd[p] # "new"}) < Starts

-----------------------------------------------------------------------------
(* dud-hostcall: under the lock, one frame out and one frame in.           *)

Locks(c) ==
  /\ MayStart /\ cmd[c] = "new" /\ hlock = None
  /\ hlock' = c
  /\ cmd' = [cmd EXCEPT ![c] = "writing"]
  /\ reqs' = Append(reqs, Piece(c, FALSE))
  /\ UNCHANGED <<pumpVars, script, wrote, daemon, got, elock, rbuf, sent, resps, recs, late,
                 asked, intime>>

\* Mutant: the answer is read after the lock is given back.
UnlocksToRead == hlock' = None

LockedToRead == UNCHANGED hlock

Asks(c) ==
  /\ cmd[c] = "writing" /\ ~Ended
  /\ reqs' = Append(reqs, Piece(c, TRUE))
  /\ cmd' = [cmd EXCEPT ![c] = "waiting"]
  /\ LockedToRead
  /\ UNCHANGED <<pumpVars, script, wrote, daemon, got, elock, rbuf, sent, resps, recs,
                 late, asked, intime>>

\* _read_response: the first line, and what was read past it is dropped.
Reads(c) ==
  /\ cmd[c] = "waiting" /\ resps # <<>>
  /\ resps' = <<>>
  /\ LET buf == rbuf[c] \o resps
     IN IF HasLine(buf)
        THEN /\ got' = [got EXCEPT ![c] = IF Of(Line(buf)) = None THEN "garbled"
                                          ELSE Of(Line(buf))]
             /\ cmd' = [cmd EXCEPT ![c] = "done"]
             /\ hlock' = IF hlock = c THEN None ELSE hlock
             /\ rbuf' = [rbuf EXCEPT ![c] = <<>>]
        ELSE /\ rbuf' = [rbuf EXCEPT ![c] = buf]
             /\ UNCHANGED <<got, cmd, hlock>>
  /\ UNCHANGED <<pumpVars, script, wrote, daemon, elock, sent, reqs, recs, late, asked, intime>>

\* The supervisor's ends are closed: a broken pipe, or an end of file.
HungUp(c) ==
  /\ Ended /\ (cmd[c] = "writing" \/ (cmd[c] = "waiting" /\ resps = <<>>))
  /\ got' = [got EXCEPT ![c] = "eof"]
  /\ cmd' = [cmd EXCEPT ![c] = "done"]
  /\ hlock' = IF hlock = c THEN None ELSE hlock
  /\ rbuf' = [rbuf EXCEPT ![c] = <<>>]
  /\ UNCHANGED <<pumpVars, script, wrote, daemon, elock, sent, reqs, resps, recs, late,
                 asked, intime>>

-----------------------------------------------------------------------------
(* dud-emit, and the script that starts and kills commands.                *)

Begins(e) ==
  /\ MayStart /\ cmd[e] = "new" /\ elock = None
  /\ elock' = e
  /\ cmd' = [cmd EXCEPT ![e] = "writing"]
  /\ recs' = Append(recs, Piece(e, FALSE))
  /\ UNCHANGED <<pumpVars, script, wrote, daemon, got, hlock, rbuf, sent, reqs, resps, late,
                 asked, intime>>

Sends(e) ==
  /\ cmd[e] = "writing"
  /\ elock' = None
  /\ cmd' = [cmd EXCEPT ![e] = "done"]
  /\ IF Ended THEN UNCHANGED <<recs, sent>>
     ELSE recs' = Append(recs, Piece(e, TRUE)) /\ sent' = Append(sent, e)
  /\ UNCHANGED <<pumpVars, script, wrote, daemon, got, hlock, rbuf, reqs, resps, late, asked,
                 intime>>

\* The locks of the dead are free.
Bury(S) ==
  /\ cmd' = [p \in Calls \cup Emits |-> IF p \in S THEN "dead" ELSE cmd[p]]
  /\ hlock' = IF hlock \in S THEN None ELSE hlock
  /\ elock' = IF elock \in S THEN None ELSE elock

Kill(p) ==
  /\ Kills /\ Lively /\ p \in Active
  /\ Bury({p})
  /\ UNCHANGED <<pumpVars, script, wrote, daemon, got, rbuf, sent, reqs, resps, recs, late, asked,
                 intime>>

TrapBegins ==
  /\ script = "runs"
  /\ script' = "trap" /\ wrote' = 1
  /\ UNCHANGED <<pumpVars, daemon, cmd, got, hlock, elock, rbuf, sent, reqs, resps, recs,
                 late, asked, intime>>

\* bash is gone, at the end of its trap or killed; what it started need not be.
Exits ==
  /\ \/ script = "trap" /\ script' = "over" /\ wrote' = 2
     \/ Kills /\ script \in {"runs", "trap"} /\ script' = "died" /\ UNCHANGED wrote
  /\ daemon' \in BOOLEAN
  /\ intime' = ToSet(sent)
  /\ UNCHANGED <<pumpVars, cmd, got, hlock, elock, rbuf, sent, reqs, resps, recs, late,
                 asked>>

-----------------------------------------------------------------------------
(* _pump.                                                                  *)

DeadlinePasses ==
  /\ Stops /\ ~late /\ ~Ended
  /\ late' = TRUE
  /\ UNCHANGED <<procVars, pumpVars, reqs, resps, recs, asked, intime>>

HostCancels ==
  /\ Stops /\ ~asked /\ ~Ended
  /\ asked' = TRUE
  /\ UNCHANGED <<procVars, pumpVars, reqs, resps, recs, late, intime>>

\* Mutant: a cancel that was read is not looked at.
StoppingLate == late

Stopping == late \/ noted

\* The script's group is killed; a process that left the group is not.
TopStops ==
  /\ pc = "top" /\ Stopping
  /\ pc' = "drain" /\ took' = FALSE
  /\ stopped' = IF noted THEN "cancel" ELSE "timeout"
  /\ IF Gone THEN UNCHANGED <<script, intime>>
     ELSE script' = "shot" /\ intime' = ToSet(sent)
  /\ daemon' \in BOOLEAN
  /\ Gone /\ daemon' => daemon
  /\ \E S \in SUBSET Active : Bury(S)
  /\ UNCHANGED <<wrote, got, rbuf, sent, hbuf, ebuf, ready, out, noted, state, heard,
                 reqs, resps, recs, late, asked>>

\* Before the read, not after it: a survivor that writes without pause hides nothing.
TopExits ==
  /\ pc = "top" /\ ~Stopping /\ Gone
  /\ pc' = "drain" /\ took' = FALSE
  /\ stopped' = "exit"
  /\ UNCHANGED <<procVars, hbuf, ebuf, ready, out, noted, state, heard, reqs, resps, recs,
                 late, asked, intime>>

\* select(), and interrupt.read() if the host has sent its cancel.
Select ==
  /\ pc = "top" /\ ~Stopping /\ ~Gone
  /\ (asked /\ ~noted) \/ recs # <<>> \/ reqs # <<>>
  /\ ready' = {x \in {"emits", "calls"} : IF x = "emits" THEN recs # <<>> ELSE reqs # <<>>}
  /\ noted' = asked
  /\ pc' = "emits"
  /\ UNCHANGED <<procVars, hbuf, ebuf, out, took, stopped, state, heard, reqs, resps, recs,
                 late, asked, intime>>

ReadEmits ==
  /\ pc = "emits" /\ "emits" \in ready
  /\ ebuf' = ebuf \o recs /\ recs' = <<>>
  /\ ready' = ready \ {"emits"}
  /\ UNCHANGED <<procVars, hbuf, pc, out, took, noted, stopped, state, heard, reqs, resps,
                 late, asked, intime>>

\* A request to the host: what it reads for the answer may be the cancel.
Relays == noted' \in {noted, asked}

\* One line of _Emits._flush: a record goes to the host, anything else is dropped.
Dispatch ==
  /\ pc \in {"emits", "drain"} /\ HasLine(ebuf)
  /\ ebuf' = Rest(ebuf)
  /\ IF Of(Line(ebuf)) = None THEN UNCHANGED <<heard, noted>>
     ELSE heard' = Append(heard, Of(Line(ebuf))) /\ Relays
  /\ UNCHANGED <<procVars, hbuf, pc, ready, out, took, stopped, state, reqs, resps,
                 recs, late, asked, intime>>

EmitsRead ==
  /\ pc = "emits" /\ "emits" \notin ready /\ ~HasLine(ebuf)
  /\ IF "calls" \in ready
     THEN pc' = "calls" /\ hbuf' = hbuf \o reqs /\ reqs' = <<>>
     ELSE pc' = "top" /\ UNCHANGED <<hbuf, reqs>>
  /\ ready' = {}
  /\ UNCHANGED <<procVars, ebuf, out, took, noted, stopped, state, heard, resps, recs,
                 late, asked, intime>>

\* Mutant: a malformed frame is dropped without an answer.
ReplyIfSound(line) == IF Of(line) = None THEN <<>> ELSE Whole(Of(line))

Reply(line) == Whole(Of(line))

\* One line of _Hostcalls._flush: relayed and answered, by an error if need be.
Answer ==
  /\ pc = "calls" /\ HasLine(hbuf)
  /\ hbuf' = Rest(hbuf)
  /\ out' = Reply(Line(hbuf))
  /\ pc' = "respond"
  /\ IF Of(Line(hbuf)) = None THEN UNCHANGED noted ELSE Relays
  /\ UNCHANGED <<procVars, ebuf, ready, took, stopped, state, heard, reqs, resps,
                 recs, late, asked, intime>>

CallsRead ==
  /\ pc = "calls" /\ ~HasLine(hbuf)
  /\ pc' = "top"
  /\ UNCHANGED <<procVars, hbuf, ebuf, ready, out, took, noted, stopped, state, heard, reqs,
                 resps, recs, late, asked, intime>>

\* Mutant: a pipe without a reader is not told from a full one.
ReaderUnseen == FALSE

\* Nobody is left that holds the reading end.
ReaderGone == Gone /\ ~daemon /\ Active = {}

\* Mutant: there is always room.
RoomUnseen == TRUE

Room == out # <<>> => Len(resps) < RespCap

Responds ==
  /\ pc = "respond" /\ ~late /\ ~ReaderGone
  /\ Room
  /\ IF out = <<>> THEN pc' = "calls" /\ UNCHANGED <<out, resps>>
     ELSE /\ resps' = Append(resps, Head(out))
          /\ out' = Tail(out)
          /\ UNCHANGED pc
  /\ UNCHANGED <<procVars, hbuf, ebuf, ready, took, noted, stopped, state, heard, reqs, recs,
                 late, asked, intime>>

\* The deadline, or no reader: what is left of the answer is dropped.
RespondDrops ==
  /\ pc = "respond"
  /\ late \/ ReaderGone
  /\ out' = <<>>
  /\ pc' = "calls"
  /\ UNCHANGED <<procVars, hbuf, ebuf, ready, took, noted, stopped, state, heard, reqs,
                 resps, recs, late, asked, intime>>

-----------------------------------------------------------------------------
(* The drain of the emits, the replay, and the whole.                      *)

Drain ==
  /\ pc = "drain" /\ recs # <<>> /\ ~HasLine(ebuf)
  /\ ebuf' = ebuf \o recs /\ recs' = <<>>
  /\ took' = TRUE
  /\ UNCHANGED <<procVars, hbuf, pc, ready, out, noted, stopped, state, heard, reqs, resps,
                 late, asked, intime>>

\* Mutant: what the trap of a script that was shot has written is taken.
ReplayAll == state' = wrote

\* _replay, which a script that was shot does not get.
Replay == state' = IF stopped = "exit" THEN wrote ELSE 0

\* run_shell returns: what was in the pipes to the supervisor is gone with them.
Closes == reqs' = <<>> /\ recs' = <<>> /\ hbuf' = <<>> /\ ebuf' = <<>>

\* Mutant: the emits that are still in the pipe are left there.
DrainedUnseen == TRUE

\* Nothing came within the budget, or it is spent.
Drained == recs = <<>> \/ took

DrainEnds ==
  /\ pc = "drain" /\ ~HasLine(ebuf)
  /\ Drained
  /\ pc' = "ended"
  /\ Replay /\ Closes
  /\ UNCHANGED <<procVars, ready, out, took, noted, stopped, heard, resps, late, asked, intime>>

Pump ==
  \/ TopStops \/ TopExits \/ Select \/ ReadEmits \/ Dispatch \/ EmitsRead
  \/ Answer \/ CallsRead \/ Responds \/ RespondDrops \/ Drain \/ DrainEnds

Command(p) ==
  \/ p \in Calls /\ (Asks(p) \/ Reads(p) \/ HungUp(p))
  \/ p \in Emits /\ Sends(p)

Next ==
  \/ Pump
  \/ \E p \in Calls \cup Emits : Command(p) \/ Kill(p)
  \/ \E c \in Calls : Locks(c)
  \/ \E e \in Emits : Begins(e)
  \/ TrapBegins \/ Exits \/ DeadlinePasses \/ HostCancels

Spec == Init /\ [][Next]_vars

\* The supervisor runs, and so does a command that has begun; the script is free to
\* do nothing, and no deadline is counted on.
Fairness == WF_vars(Pump) /\ \A p \in Calls \cup Emits : WF_vars(Command(p))

FairSpec == Spec /\ Fairness
-----------------------------------------------------------------------------
(* Properties.                                                             *)

\* Every variable is of its type.
TypeOK ==
  /\ script \in {"runs", "trap", "over", "died", "shot"} /\ wrote \in 0..2
  /\ daemon \in BOOLEAN
  /\ cmd \in [Calls \cup Emits -> {"new", "writing", "waiting", "done", "dead"}]
  /\ got \in [Calls -> Calls \cup {None, "garbled", "eof"}]
  /\ hlock \in Calls \cup {None} /\ elock \in Emits \cup {None}
  /\ {reqs, resps, recs, hbuf, ebuf, out} \subseteq Seq(Pieces)
  /\ rbuf \in [Calls -> Seq(Pieces)] /\ ready \subseteq {"emits", "calls"}
  /\ pc \in {"top", "emits", "calls", "respond", "drain", "ended"}
  /\ {took, late, asked, noted} \subseteq BOOLEAN
  /\ stopped \in {"no", "exit", "timeout", "cancel"} /\ state \in 0..2
  /\ {heard, sent} \subseteq Seq(Emits) /\ intime \subseteq Emits
  /\ Len(resps) <= RespCap

\* "At most one request is outstanding per exec and frames need no ids": no call prints
\* the answer to what another one asked.
OwnAnswer == \A c \in Calls : got[c] \notin Calls \ {c}

\* As long as no command was killed in the middle of its round trip, a call prints its
\* own answer, or says that the exec has ended.
OwnAnswerUnlessKilled ==
  (\A c \in Calls : cmd[c] # "dead") => \A c \in Calls : got[c] \in {None, c, "eof"}

\* The host hears records in the order in which they were sent, none twice; each that
\* was sent before the script was over, unless a writer that was killed left half of
\* one before it.
EmitsDelivered ==
  /\ IsInjective(heard)
  /\ \A i, j \in 1..Len(heard) : i < j =>
       \E m, n \in 1..Len(sent) : m < n /\ sent[m] = heard[i] /\ sent[n] = heard[j]
  /\ Ended => Cardinality(intime \ ToSet(heard)) <= Cardinality({e \in Emits : cmd[e] = "dead"})

\* The session takes cwd and env of a script, or neither: never a cwd with no env, unless
\* the script was killed between the two by another hand than the supervisor's.
PairOrNothing == state = 1 => script = "died"

\* "A caller can never block forever waiting for an answer that is not coming",
\* though others were killed and left half a frame, or an answer nobody read.
EveryCallEnds == \A c \in Calls : cmd[c] = "waiting" ~> cmd[c] # "waiting"

\* The exec ends with the script, and nothing that survives it or that it left in the
\* pipes holds it up but an answer that a survivor could still read.
EndsWithScript == Gone ~> Ended \/ [](pc = "respond" /\ daemon)

\* A cancel stops the exec, unless an answer nobody reads has the supervisor wait for
\* the deadline.
CancelStops == asked ~> Ended \/ [](pc = "respond")
================================================================================
