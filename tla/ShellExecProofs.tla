---------------------------- MODULE ShellExecProofs ----------------------------
(***************************************************************************)
(* What holds of ShellExec for any commands, any number of them started,   *)
(* and any size of the answer pipe: types, the pairing of cwd and env,     *)
(* that a call prints the answer to its own request, and that emits come   *)
(* through.                                                                *)
(***************************************************************************)
EXTENDS ShellExec, SequenceTheorems, FiniteSetTheorems, WellFoundedInduction, TLAPS

-----------------------------------------------------------------------------
(* The invariants.                                                         *)

\* What travels on the pipes of the host calls, and on that of the emits.
CallPieces == [of : Calls \cup {None}, end : BOOLEAN]
EmitPieces == [of : Emits \cup {None}, end : BOOLEAN]

ProcTypes ==
  /\ script \in {"runs", "trap", "over", "died", "shot"} /\ wrote \in 0..2
  /\ cmd \in [Calls \cup Emits -> {"new", "writing", "waiting", "done", "dead"}]
  /\ hlock \in Calls \cup {None} /\ elock \in Emits \cup {None}

PumpTypes ==
  /\ pc \in {"top", "emits", "calls", "respond", "drain", "ended"}
  /\ ready \subseteq {"emits", "calls"}
  /\ stopped \in {"no", "exit", "timeout", "cancel"} /\ state \in 0..2

FlagTypes ==
  /\ daemon \in BOOLEAN /\ took \in BOOLEAN /\ late \in BOOLEAN
  /\ asked \in BOOLEAN /\ noted \in BOOLEAN

CallTypes ==
  /\ got \in [Calls -> Calls \cup {None, "garbled", "eof"}]
  /\ rbuf \in [Calls -> Seq(CallPieces)]
  /\ reqs \in Seq(CallPieces) /\ hbuf \in Seq(CallPieces)
  /\ resps \in Seq(CallPieces) /\ out \in Seq(CallPieces)

EmitTypes ==
  /\ recs \in Seq(EmitPieces) /\ ebuf \in Seq(EmitPieces)
  /\ heard \in Seq(Emits) /\ sent \in Seq(Emits) /\ intime \subseteq Emits

Fits == Len(resps) <= RespCap

Typed == ProcTypes /\ PumpTypes /\ FlagTypes /\ CallTypes /\ EmitTypes /\ Fits

\* What the trap has written goes by how far the script has come, and is taken of a
\* script that came to its own end.
Pairing ==
  /\ script = "runs" => wrote = 0
  /\ script = "over" => wrote = 2
  /\ stopped = "exit" => Gone
  /\ state = 1 => script = "died"

\* A request that the supervisor has not relayed, and an answer the call has not printed.
Request == hbuf \o reqs
ReplyTo(c) == rbuf[c] \o (resps \o out)

\* How far the round trip of the call that has the lock is: it writes, has asked, is
\* answered, or its answer, or its request, was dropped.
Writing(c) ==
  /\ cmd[c] = "writing" /\ ReplyTo(c) = <<>>
  /\ Request = IF Ended THEN <<>> ELSE <<Piece(c, FALSE)>>
Asked(c)    == cmd[c] = "waiting" /\ Request = Whole(c) /\ ReplyTo(c) = <<>>
Answered(c) == cmd[c] = "waiting" /\ Request = <<>> /\ ReplyTo(c) = Whole(c)
Dropped(c)  ==
  cmd[c] = "waiting" /\ Request = <<>> /\ out = <<>> /\ ReplyTo(c) \in {<<>>, <<Piece(c, FALSE)>>}

NoneKilled == \A c \in Calls : cmd[c] # "dead"

\* Only the call that has the lock has anything on the wires.
Exchange ==
  /\ \A c \in Calls : /\ cmd[c] \in {"writing", "waiting"} <=> hlock = c
                      /\ hlock # c => rbuf[c] = <<>>
                      /\ got[c] \in {None, c, "eof"}
  /\ hlock = None => Request = <<>> /\ resps \o out = <<>>
  /\ \A c \in Calls : hlock = c => Writing(c) \/ Asked(c) \/ Answered(c) \/ Dropped(c)

OneExchange ==
  /\ NoneKilled => Exchange
  /\ out # <<>> => pc = "respond"
  /\ Ended => Request = <<>>

\* The records on their way, oldest first: what the pump has read, then the pipe.
Stream == ebuf \o recs
InStream(e) == \E n \in 1..Len(Stream) : Stream[n] = Piece(e, TRUE)
HalfInStream(e) == \E n \in 1..Len(Stream) : Stream[n] = Piece(e, FALSE)

Started == {p \in Calls \cup Emits : cmd[p] # "new"}

\* A record is sent once, by a command that is then done, and heard only if it was sent.
Ledger ==
  /\ IsFiniteSet(Started)
  /\ \A e \in Emits : cmd[e] = "writing" <=> elock = e
  /\ \A e \in ToSet(sent) : cmd[e] = "done"
  /\ IsInjective(sent) /\ IsInjective(heard)
  /\ ToSet(heard) \subseteq ToSet(sent) /\ intime \subseteq ToSet(sent)

\* Who has emit.lock has written the last half of the stream, and each half before it is
\* followed by its other half unless its writer is dead.
Framed ==
  /\ Ended => Stream = <<>>
  /\ ~Ended /\ elock # None => Stream # <<>> /\ Stream[Len(Stream)] = Piece(elock, FALSE)
  /\ \A n \in 1..Len(Stream) :
       /\ Stream[n].of \in Emits /\ cmd[Stream[n].of] # "new"
       /\ IF Stream[n].end
          THEN /\ n > 1 /\ Stream[n - 1] = Piece(Stream[n].of, FALSE)
               /\ Stream[n].of \in ToSet(sent) \ ToSet(heard)
          ELSE \/ n < Len(Stream) /\ Stream[n + 1] = Piece(Stream[n].of, TRUE)
               \/ cmd[Stream[n].of] = "dead"
               \/ n = Len(Stream) /\ elock = Stream[n].of
  /\ \A m, n \in 1..Len(Stream) : Stream[m] = Stream[n] => m = n

\* In a sequence a is before b.
Before(s, a, b) == \E m, n \in 1..Len(s) : m < n /\ s[m] = a /\ s[n] = b

InOrder ==
  /\ \A i, j \in 1..Len(heard) : i < j => Before(sent, heard[i], heard[j])
  /\ \A i \in 1..Len(heard), n \in 1..Len(Stream) :
       Stream[n].end => Before(sent, heard[i], Stream[n].of)
  /\ \A m, n \in 1..Len(Stream) :
       m < n /\ Stream[m].end /\ Stream[n].end => Before(sent, Stream[m].of, Stream[n].of)

\* Records that were dropped, and dead writers whose half is no longer in the stream.
Lost == {e \in ToSet(sent) \ ToSet(heard) : ~InStream(e)}
Dead == {e \in Emits : cmd[e] = "dead"}
Spent == {e \in Dead : ~HalfInStream(e)}

\* A record is dropped only for a half before it, which is dropped with it.
Covered ==
  IF Ended THEN Cardinality(intime \ ToSet(heard)) <= Cardinality(Dead)
  ELSE Cardinality(Lost) <= Cardinality(Spent)

\* The drain knows all that was sent in time, and its second read nothing of it.
Drains ==
  /\ pc \in {"drain", "ended"} => script \in {"over", "died", "shot"}
  /\ pc = "drain" /\ took => \A n \in 1..Len(recs) : recs[n].end => recs[n].of \notin intime

-----------------------------------------------------------------------------
(* Lines of a buffer.                                                      *)

\* A set of numbers has a least one.
LEMMA NatLeast ==
  ASSUME NEW T, T \subseteq Nat, T # {}
  PROVE  \E m \in T : \A n \in T : m <= n
<1>1. PICK m \in T : \A n \in T : ~(n < m)
  <2>1. \E m \in T : \A n \in T : ~(<<n, m>> \in OpToRel(<, Nat))
    BY WFMin, NatLessThanWellFounded, Zenon
  <2>2. \A m, n \in Nat : n < m => <<n, m>> \in OpToRel(<, Nat)
    BY Zenon DEF OpToRel
  <2> QED
    BY <2>1, <2>2, Zenon
<1> QED
  BY <1>1

\* partition() finds the first newline.
LEMMA LineEnds ==
  ASSUME NEW S, NEW buf \in Seq(S), HasLine(buf)
  PROVE  /\ LineEnd(buf) \in 1..Len(buf) /\ buf[LineEnd(buf)].end
         /\ \A m \in 1..(LineEnd(buf) - 1) : ~buf[m].end
<1> DEFINE T == {n \in 1..Len(buf) : buf[n].end}
<1>1. PICK n \in T : \A m \in T : n <= m
  <2>1. T \subseteq Nat /\ T # {}
    BY DEF HasLine
  <2> QED
    BY <2>1, NatLeast
<1>2. n \in 1..Len(buf) /\ buf[n].end /\ \A m \in 1..(n - 1) : ~buf[m].end
  BY <1>1
<1> QED
  BY <1>2 DEF LineEnd

\* The line and the rest are made of what the buffer is made of.
LEMMA LineTyped ==
  ASSUME NEW S, NEW buf \in Seq(S), HasLine(buf)
  PROVE  Line(buf) \in Seq(S) /\ Line(buf) # <<>> /\ Rest(buf) \in Seq(S)
<1>1. LineEnd(buf) \in 1..Len(buf)
  BY LineEnds
<1>2. Line(buf) \in Seq(S) /\ Len(Line(buf)) = LineEnd(buf)
  BY <1>1 DEF Line
<1>3. Rest(buf) \in Seq(S)
  BY <1>1 DEF Rest
<1> QED
  BY <1>1, <1>2, <1>3

\* A line is from somebody who writes to the pipe, or from nobody.
LEMMA OfTyped ==
  ASSUME NEW P, NEW line \in Seq([of : P \cup {None}, end : BOOLEAN]), line # <<>>
  PROVE  Of(line) \in P \cup {None}
<1>1. line[1] \in [of : P \cup {None}, end : BOOLEAN]
  <2>1. Len(line) \in Nat \ {0}
    BY EmptySeq
  <2>2. 1 \in 1..Len(line)
    BY <2>1
  <2> QED
    BY <2>2, ElementOfSeq
<1> QED
  BY <1>1 DEF Of

\* A whole frame is one line.
LEMMA WholeIsLine ==
  ASSUME NEW p
  PROVE  /\ HasLine(Whole(p)) /\ Line(Whole(p)) = Whole(p) /\ Rest(Whole(p)) = <<>>
         /\ Of(Whole(p)) = p
<1> DEFINE w == Whole(p)
<1>1. /\ w \in Seq([of : {p}, end : BOOLEAN]) /\ Len(w) = 2
      /\ w[1] = Piece(p, FALSE) /\ w[2] = Piece(p, TRUE)
  BY DEF Whole, Piece
<1>2. ~w[1].end /\ w[2].end /\ w[1].of = p
  BY <1>1 DEF Piece
<1> HIDE DEF w
<1>3. HasLine(w)
  <2>1. 2 \in 1..Len(w)
    BY <1>1
  <2> QED
    BY <1>2, <2>1, Zenon DEF HasLine
<1>4. LineEnd(w) = 2
  <2>1. LineEnd(w) \in 1..Len(w) /\ w[LineEnd(w)].end
    BY <1>1, <1>3, LineEnds
  <2>2. LineEnd(w) # 1
    BY <1>2, <2>1
  <2> QED
    BY <1>1, <2>1, <2>2
<1>5. SubSeq(w, 1, 2) = w /\ SubSeq(w, 3, 2) = <<>>
  BY <1>1, SubSeqFull, SubSeqEmpty
<1>6. Line(w) = w /\ Rest(w) = <<>>
  BY <1>1, <1>4, <1>5 DEF Line, Rest
<1>7. Of(w) = p
  BY <1>2 DEF Of, w
<1> QED
  BY <1>3, <1>6, <1>7 DEF w

\* The first piece alone is none.
LEMMA HalfIsNoLine ==
  ASSUME NEW p
  PROVE  ~HasLine(<<Piece(p, FALSE)>>) /\ ~HasLine(<<>>)
BY DEF HasLine, Piece

-----------------------------------------------------------------------------
(* Types.                                                                  *)

\* Steps keep the types of the processes.
LEMMA ProcStep ==
  ASSUME ProcTypes, [Next]_vars
  PROVE  ProcTypes'
<1> USE ShellParameters DEF ProcTypes, procVars, pumpVars
<1>1. CASE TopStops
  BY <1>1 DEF TopStops, Bury
<1>2. CASE TopExits
  BY <1>2 DEF TopExits
<1>3. CASE Select
  BY <1>3 DEF Select
<1>4. CASE ReadEmits
  BY <1>4 DEF ReadEmits
<1>5. CASE Dispatch
  BY <1>5 DEF Dispatch, Relays
<1>6. CASE EmitsRead
  BY <1>6 DEF EmitsRead
<1>7. CASE Answer
  BY <1>7 DEF Answer, Relays
<1>8. CASE CallsRead
  BY <1>8 DEF CallsRead
<1>9. CASE Responds
  BY <1>9 DEF Responds
<1>10. CASE RespondDrops
  BY <1>10 DEF RespondDrops
<1>11. CASE Drain
  BY <1>11 DEF Drain
<1>12. CASE DrainEnds
  BY <1>12 DEF DrainEnds, Replay, Closes
<1>13. CASE \E c \in Calls : Asks(c)
  BY <1>13 DEF Asks, LockedToRead
<1>14. CASE \E c \in Calls : Reads(c)
  BY <1>14 DEF Reads
<1>15. CASE \E c \in Calls : HungUp(c)
  BY <1>15 DEF HungUp
<1>16. CASE \E e \in Emits : Sends(e)
  BY <1>16 DEF Sends
<1>17. CASE \E p \in Calls \cup Emits : Kill(p)
  BY <1>17 DEF Kill, Bury
<1>18. CASE \E c \in Calls : Locks(c)
  BY <1>18 DEF Locks
<1>19. CASE \E e \in Emits : Begins(e)
  BY <1>19 DEF Begins
<1>20. CASE TrapBegins
  BY <1>20 DEF TrapBegins
<1>21. CASE Exits
  BY <1>21 DEF Exits
<1>22. CASE DeadlinePasses
  BY <1>22 DEF DeadlinePasses
<1>23. CASE HostCancels
  BY <1>23 DEF HostCancels
<1>24. CASE UNCHANGED vars
  BY <1>24 DEF vars
<1> QED
  BY <1>1, <1>2, <1>3, <1>4, <1>5, <1>6, <1>7, <1>8, <1>9, <1>10, <1>11, <1>12, <1>13,
       <1>14, <1>15, <1>16, <1>17, <1>18, <1>19, <1>20, <1>21, <1>22, <1>23, <1>24
  DEF Next, Pump, Command

\* Steps keep the types of the pump.
LEMMA PumpStep ==
  ASSUME ProcTypes, PumpTypes, [Next]_vars
  PROVE  PumpTypes'
<1> USE DEF ProcTypes, PumpTypes, procVars, pumpVars
<1>1. CASE TopStops
  BY <1>1 DEF TopStops, Bury
<1>2. CASE TopExits
  BY <1>2 DEF TopExits
<1>3. CASE Select
  BY <1>3 DEF Select
<1>4. CASE ReadEmits
  BY <1>4 DEF ReadEmits
<1>5. CASE Dispatch
  BY <1>5 DEF Dispatch, Relays
<1>6. CASE EmitsRead
  BY <1>6 DEF EmitsRead
<1>7. CASE Answer
  BY <1>7 DEF Answer, Relays
<1>8. CASE CallsRead
  BY <1>8 DEF CallsRead
<1>9. CASE Responds
  BY <1>9 DEF Responds
<1>10. CASE RespondDrops
  BY <1>10 DEF RespondDrops
<1>11. CASE Drain
  BY <1>11 DEF Drain
<1>12. CASE DrainEnds
  BY <1>12 DEF DrainEnds, Replay, Closes
<1>13. CASE \E c \in Calls : Asks(c)
  BY <1>13 DEF Asks, LockedToRead
<1>14. CASE \E c \in Calls : Reads(c)
  BY <1>14 DEF Reads
<1>15. CASE \E c \in Calls : HungUp(c)
  BY <1>15 DEF HungUp
<1>16. CASE \E e \in Emits : Sends(e)
  BY <1>16 DEF Sends
<1>17. CASE \E p \in Calls \cup Emits : Kill(p)
  BY <1>17 DEF Kill, Bury
<1>18. CASE \E c \in Calls : Locks(c)
  BY <1>18 DEF Locks
<1>19. CASE \E e \in Emits : Begins(e)
  BY <1>19 DEF Begins
<1>20. CASE TrapBegins
  BY <1>20 DEF TrapBegins
<1>21. CASE Exits
  BY <1>21 DEF Exits
<1>22. CASE DeadlinePasses
  BY <1>22 DEF DeadlinePasses
<1>23. CASE HostCancels
  BY <1>23 DEF HostCancels
<1>24. CASE UNCHANGED vars
  BY <1>24 DEF vars
<1> QED
  BY <1>1, <1>2, <1>3, <1>4, <1>5, <1>6, <1>7, <1>8, <1>9, <1>10, <1>11, <1>12, <1>13,
       <1>14, <1>15, <1>16, <1>17, <1>18, <1>19, <1>20, <1>21, <1>22, <1>23, <1>24
  DEF Next, Pump, Command

\* Steps keep the types of the flags.
LEMMA FlagStep ==
  ASSUME FlagTypes, [Next]_vars
  PROVE  FlagTypes'
<1> USE DEF FlagTypes, procVars, pumpVars
<1>1. CASE TopStops
  BY <1>1 DEF TopStops, Bury
<1>2. CASE TopExits
  BY <1>2 DEF TopExits
<1>3. CASE Select
  BY <1>3 DEF Select
<1>4. CASE ReadEmits
  BY <1>4 DEF ReadEmits
<1>5. CASE Dispatch
  BY <1>5 DEF Dispatch, Relays
<1>6. CASE EmitsRead
  BY <1>6 DEF EmitsRead
<1>7. CASE Answer
  BY <1>7 DEF Answer, Relays
<1>8. CASE CallsRead
  BY <1>8 DEF CallsRead
<1>9. CASE Responds
  BY <1>9 DEF Responds
<1>10. CASE RespondDrops
  BY <1>10 DEF RespondDrops
<1>11. CASE Drain
  BY <1>11 DEF Drain
<1>12. CASE DrainEnds
  BY <1>12 DEF DrainEnds, Replay, Closes
<1>13. CASE \E c \in Calls : Asks(c)
  BY <1>13 DEF Asks, LockedToRead
<1>14. CASE \E c \in Calls : Reads(c)
  BY <1>14 DEF Reads
<1>15. CASE \E c \in Calls : HungUp(c)
  BY <1>15 DEF HungUp
<1>16. CASE \E e \in Emits : Sends(e)
  BY <1>16 DEF Sends
<1>17. CASE \E p \in Calls \cup Emits : Kill(p)
  BY <1>17 DEF Kill, Bury
<1>18. CASE \E c \in Calls : Locks(c)
  BY <1>18 DEF Locks
<1>19. CASE \E e \in Emits : Begins(e)
  BY <1>19 DEF Begins
<1>20. CASE TrapBegins
  BY <1>20 DEF TrapBegins
<1>21. CASE Exits
  BY <1>21 DEF Exits
<1>22. CASE DeadlinePasses
  BY <1>22 DEF DeadlinePasses
<1>23. CASE HostCancels
  BY <1>23 DEF HostCancels
<1>24. CASE UNCHANGED vars
  BY <1>24 DEF vars
<1> QED
  BY <1>1, <1>2, <1>3, <1>4, <1>5, <1>6, <1>7, <1>8, <1>9, <1>10, <1>11, <1>12, <1>13,
       <1>14, <1>15, <1>16, <1>17, <1>18, <1>19, <1>20, <1>21, <1>22, <1>23, <1>24
  DEF Next, Pump, Command

\* Steps keep the types of the calls and of their pipes.
LEMMA CallStep ==
  ASSUME CallTypes, PumpTypes, [Next]_vars
  PROVE  CallTypes'
<1> USE ShellParameters DEF CallTypes, PumpTypes, procVars, pumpVars
<1>1. CASE TopStops
  BY <1>1 DEF TopStops, Bury
<1>2. CASE TopExits
  BY <1>2 DEF TopExits
<1>3. CASE Select
  BY <1>3 DEF Select
<1>4. CASE ReadEmits
  BY <1>4 DEF ReadEmits
<1>5. CASE Dispatch
  BY <1>5 DEF Dispatch, Relays
<1>6. CASE EmitsRead
  <2>1. hbuf \o reqs \in Seq(CallPieces) /\ <<>> \in Seq(CallPieces)
    BY ConcatProperties, EmptySeq
  <2>2. hbuf' \in Seq(CallPieces)
    BY <1>6, <2>1 DEF EmitsRead
  <2>3. reqs' \in Seq(CallPieces)
    BY <1>6, <2>1 DEF EmitsRead
  <2>4. UNCHANGED <<rbuf, got, resps, out>>
    BY <1>6 DEF EmitsRead
  <2> QED
    BY <2>2, <2>3, <2>4
<1>7. CASE Answer
  <2>1. Line(hbuf) \in Seq(CallPieces) /\ Line(hbuf) # <<>> /\ Rest(hbuf) \in Seq(CallPieces)
    BY <1>7, LineTyped DEF Answer
  <2>2. Of(Line(hbuf)) \in Calls \cup {None}
    BY <2>1, OfTyped DEF CallPieces
  <2>3. Whole(Of(Line(hbuf))) \in Seq(CallPieces)
    BY <2>2 DEF Whole, Piece, CallPieces
  <2> QED
    BY <1>7, <2>1, <2>3 DEF Answer, Reply
<1>8. CASE CallsRead
  BY <1>8 DEF CallsRead
<1>9. CASE Responds
  <2>1. CASE out = <<>>
    BY <1>9, <2>1 DEF Responds
  <2>2. CASE out # <<>>
    <3>1. Append(resps, Head(out)) \in Seq(CallPieces) /\ Tail(out) \in Seq(CallPieces)
      BY <2>2, HeadTailProperties, AppendProperties
    <3>2. /\ resps' = Append(resps, Head(out)) /\ out' = Tail(out)
          /\ UNCHANGED <<reqs, hbuf, rbuf, got>>
      BY <1>9, <2>2 DEF Responds
    <3> QED
      BY <3>1, <3>2
  <2> QED
    BY <2>1, <2>2
<1>10. CASE RespondDrops
  BY <1>10 DEF RespondDrops
<1>11. CASE Drain
  BY <1>11 DEF Drain
<1>12. CASE DrainEnds
  BY <1>12 DEF DrainEnds, Replay, Closes
<1>13. CASE \E c \in Calls : Asks(c)
  <2> PICK c \in Calls : Asks(c)
    BY <1>13
  <2>1. Append(reqs, Piece(c, TRUE)) \in Seq(CallPieces)
    BY AppendProperties DEF Piece, CallPieces
  <2> QED
    BY <2>1 DEF Asks
<1>14. CASE \E c \in Calls : Reads(c)
  <2> PICK c \in Calls : Reads(c)
    BY <1>14
  <2> DEFINE buf == rbuf[c] \o resps
  <2>1. buf \in Seq(CallPieces)
    OBVIOUS
  <2>2. CASE HasLine(buf)
    <3>1. Line(buf) \in Seq(CallPieces) /\ Line(buf) # <<>>
      BY <2>1, <2>2, LineTyped
    <3>2. Of(Line(buf)) \in Calls \cup {None}
      BY <3>1, OfTyped DEF CallPieces
    <3>3. /\ got' = [got EXCEPT ![c] = IF Of(Line(buf)) = None THEN "garbled"
                                       ELSE Of(Line(buf))]
          /\ rbuf' = [rbuf EXCEPT ![c] = <<>>]
      BY <2>2 DEF Reads
    <3>4. got' \in [Calls -> Calls \cup {None, "garbled", "eof"}]
      BY <3>2, <3>3
    <3>5. rbuf' \in [Calls -> Seq(CallPieces)]
      BY <3>3
    <3> QED
      BY <3>4, <3>5 DEF Reads
  <2>3. CASE ~HasLine(buf)
    <3>1. rbuf' = [rbuf EXCEPT ![c] = buf]
      BY <2>3 DEF Reads
    <3>2. rbuf' \in [Calls -> Seq(CallPieces)]
      BY <2>1, <3>1
    <3> QED
      BY <2>3, <3>2 DEF Reads
  <2> QED
    BY <2>2, <2>3
<1>15. CASE \E c \in Calls : HungUp(c)
  BY <1>15 DEF HungUp
<1>16. CASE \E e \in Emits : Sends(e)
  BY <1>16 DEF Sends
<1>17. CASE \E p \in Calls \cup Emits : Kill(p)
  BY <1>17 DEF Kill, Bury
<1>18. CASE \E c \in Calls : Locks(c)
  <2> PICK c \in Calls : Locks(c)
    BY <1>18
  <2>1. Append(reqs, Piece(c, FALSE)) \in Seq(CallPieces)
    BY AppendProperties DEF Piece, CallPieces
  <2> QED
    BY <2>1 DEF Locks
<1>19. CASE \E e \in Emits : Begins(e)
  BY <1>19 DEF Begins
<1>20. CASE TrapBegins
  BY <1>20 DEF TrapBegins
<1>21. CASE Exits
  BY <1>21 DEF Exits
<1>22. CASE DeadlinePasses
  BY <1>22 DEF DeadlinePasses
<1>23. CASE HostCancels
  BY <1>23 DEF HostCancels
<1>24. CASE UNCHANGED vars
  BY <1>24 DEF vars
<1> QED
  BY <1>1, <1>2, <1>3, <1>4, <1>5, <1>6, <1>7, <1>8, <1>9, <1>10, <1>11, <1>12, <1>13,
       <1>14, <1>15, <1>16, <1>17, <1>18, <1>19, <1>20, <1>21, <1>22, <1>23, <1>24
  DEF Next, Pump, Command

\* Steps keep the types of the emits and of their pipe.
LEMMA EmitStep ==
  ASSUME EmitTypes, [Next]_vars
  PROVE  EmitTypes'
<1> USE ShellParameters DEF EmitTypes, procVars, pumpVars
<1>1. CASE TopStops
  <2>1. ToSet(sent) \subseteq Emits
    BY DEF ToSet
  <2> QED
    BY <1>1, <2>1 DEF TopStops
<1>2. CASE TopExits
  BY <1>2 DEF TopExits
<1>3. CASE Select
  BY <1>3 DEF Select
<1>4. CASE ReadEmits
  BY <1>4 DEF ReadEmits
<1>5. CASE Dispatch
  <2>1. Line(ebuf) \in Seq(EmitPieces) /\ Line(ebuf) # <<>> /\ Rest(ebuf) \in Seq(EmitPieces)
    BY <1>5, LineTyped DEF Dispatch
  <2>2. Of(Line(ebuf)) \in Emits \cup {None}
    BY <2>1, OfTyped DEF EmitPieces
  <2>3. heard' \in Seq(Emits)
    <3>1. CASE Of(Line(ebuf)) = None
      BY <1>5, <3>1 DEF Dispatch
    <3>2. CASE Of(Line(ebuf)) \in Emits
      <4>1. heard' = Append(heard, Of(Line(ebuf)))
        BY <1>5, <3>2 DEF Dispatch
      <4> QED
        BY <3>2, <4>1, AppendProperties
    <3> QED
      BY <2>2, <3>1, <3>2
  <2>4. ebuf' = Rest(ebuf) /\ UNCHANGED <<recs, sent, intime>>
    BY <1>5 DEF Dispatch
  <2> QED
    BY <2>1, <2>3, <2>4
<1>6. CASE EmitsRead
  BY <1>6 DEF EmitsRead
<1>7. CASE Answer
  BY <1>7 DEF Answer, Relays
<1>8. CASE CallsRead
  BY <1>8 DEF CallsRead
<1>9. CASE Responds
  BY <1>9 DEF Responds
<1>10. CASE RespondDrops
  BY <1>10 DEF RespondDrops
<1>11. CASE Drain
  BY <1>11 DEF Drain
<1>12. CASE DrainEnds
  BY <1>12 DEF DrainEnds, Replay, Closes
<1>13. CASE \E c \in Calls : Asks(c)
  BY <1>13 DEF Asks, LockedToRead
<1>14. CASE \E c \in Calls : Reads(c)
  BY <1>14 DEF Reads
<1>15. CASE \E c \in Calls : HungUp(c)
  BY <1>15 DEF HungUp
<1>16. CASE \E e \in Emits : Sends(e)
  <2> PICK e \in Emits : Sends(e)
    BY <1>16
  <2>1. Append(recs, Piece(e, TRUE)) \in Seq(EmitPieces) /\ Append(sent, e) \in Seq(Emits)
    BY AppendProperties DEF Piece, EmitPieces
  <2> QED
    BY <2>1 DEF Sends
<1>17. CASE \E p \in Calls \cup Emits : Kill(p)
  BY <1>17 DEF Kill, Bury
<1>18. CASE \E c \in Calls : Locks(c)
  BY <1>18 DEF Locks
<1>19. CASE \E e \in Emits : Begins(e)
  <2> PICK e \in Emits : Begins(e)
    BY <1>19
  <2>1. Append(recs, Piece(e, FALSE)) \in Seq(EmitPieces)
    BY AppendProperties DEF Piece, EmitPieces
  <2> QED
    BY <2>1 DEF Begins
<1>20. CASE TrapBegins
  BY <1>20 DEF TrapBegins
<1>21. CASE Exits
  <2>1. ToSet(sent) \subseteq Emits
    BY DEF ToSet
  <2> QED
    BY <1>21, <2>1 DEF Exits
<1>22. CASE DeadlinePasses
  BY <1>22 DEF DeadlinePasses
<1>23. CASE HostCancels
  BY <1>23 DEF HostCancels
<1>24. CASE UNCHANGED vars
  BY <1>24 DEF vars
<1> QED
  BY <1>1, <1>2, <1>3, <1>4, <1>5, <1>6, <1>7, <1>8, <1>9, <1>10, <1>11, <1>12, <1>13,
       <1>14, <1>15, <1>16, <1>17, <1>18, <1>19, <1>20, <1>21, <1>22, <1>23, <1>24
  DEF Next, Pump, Command

\* Nothing is written into a full pipe.
LEMMA FitsStep ==
  ASSUME CallTypes, Fits, [Next]_vars
  PROVE  Fits'
<1> USE ShellParameters DEF CallTypes, Fits, procVars, pumpVars
<1>1. CASE TopStops
  BY <1>1 DEF TopStops, Bury
<1>2. CASE TopExits
  BY <1>2 DEF TopExits
<1>3. CASE Select
  BY <1>3 DEF Select
<1>4. CASE ReadEmits
  BY <1>4 DEF ReadEmits
<1>5. CASE Dispatch
  BY <1>5 DEF Dispatch, Relays
<1>6. CASE EmitsRead
  BY <1>6 DEF EmitsRead
<1>7. CASE Answer
  BY <1>7 DEF Answer, Relays
<1>8. CASE CallsRead
  BY <1>8 DEF CallsRead
<1>9. CASE Responds
  BY <1>9 DEF Responds, Room
<1>10. CASE RespondDrops
  BY <1>10 DEF RespondDrops
<1>11. CASE Drain
  BY <1>11 DEF Drain
<1>12. CASE DrainEnds
  BY <1>12 DEF DrainEnds, Replay, Closes
<1>13. CASE \E c \in Calls : Asks(c)
  BY <1>13 DEF Asks, LockedToRead
<1>14. CASE \E c \in Calls : Reads(c)
  BY <1>14 DEF Reads
<1>15. CASE \E c \in Calls : HungUp(c)
  BY <1>15 DEF HungUp
<1>16. CASE \E e \in Emits : Sends(e)
  BY <1>16 DEF Sends
<1>17. CASE \E p \in Calls \cup Emits : Kill(p)
  BY <1>17 DEF Kill, Bury
<1>18. CASE \E c \in Calls : Locks(c)
  BY <1>18 DEF Locks
<1>19. CASE \E e \in Emits : Begins(e)
  BY <1>19 DEF Begins
<1>20. CASE TrapBegins
  BY <1>20 DEF TrapBegins
<1>21. CASE Exits
  BY <1>21 DEF Exits
<1>22. CASE DeadlinePasses
  BY <1>22 DEF DeadlinePasses
<1>23. CASE HostCancels
  BY <1>23 DEF HostCancels
<1>24. CASE UNCHANGED vars
  BY <1>24 DEF vars
<1> QED
  BY <1>1, <1>2, <1>3, <1>4, <1>5, <1>6, <1>7, <1>8, <1>9, <1>10, <1>11, <1>12, <1>13,
       <1>14, <1>15, <1>16, <1>17, <1>18, <1>19, <1>20, <1>21, <1>22, <1>23, <1>24
  DEF Next, Pump, Command

\* All types hold at first.
LEMMA InitTyped == Init => Typed
<1> SUFFICES ASSUME Init PROVE Typed
  OBVIOUS
<1>1. ProcTypes /\ PumpTypes
  BY DEF Init, ProcTypes, PumpTypes
<1>2. FlagTypes
  BY DEF Init, FlagTypes
<1>3. CallTypes /\ Fits
  BY ShellParameters DEF Init, CallTypes, Fits
<1>4. EmitTypes
  BY DEF Init, EmitTypes
<1> QED
  BY <1>1, <1>2, <1>3, <1>4 DEF Typed

LEMMA TypedStep == Typed /\ [Next]_vars => Typed'
BY ProcStep, PumpStep, FlagStep, CallStep, EmitStep, FitsStep DEF Typed

\* Types hold in every reachable state.
LEMMA TypedInvariant == Spec => []Typed
BY InitTyped, TypedStep, PTL DEF Spec

\* Every variable keeps its type: the answer pipe stays within its capacity, what is on
\* a pipe is from those who write to it, and no line is read of a buffer without one.
THEOREM ShellTyped == Spec => []TypeOK
<1>1. ASSUME Typed PROVE TypeOK
  <2>1. Seq(CallPieces) \subseteq Seq(Pieces) /\ Seq(EmitPieces) \subseteq Seq(Pieces)
    <3>1. CallPieces \subseteq Pieces /\ EmitPieces \subseteq Pieces
      BY DEF CallPieces, EmitPieces, Pieces
    <3> QED
      BY <3>1
  <2>2. {reqs, resps, recs, hbuf, ebuf, out} \subseteq Seq(Pieces)
    BY <1>1, <2>1 DEF Typed, CallTypes, EmitTypes
  <2>3. rbuf \in [Calls -> Seq(Pieces)]
    BY <1>1, <2>1 DEF Typed, CallTypes
  <2>4. {took, late, asked, noted} \subseteq BOOLEAN
    BY <1>1 DEF Typed, FlagTypes
  <2> QED
    BY <1>1, <2>2, <2>3, <2>4
    DEF Typed, ProcTypes, PumpTypes, FlagTypes, CallTypes, EmitTypes, Fits, TypeOK
<1> QED
  BY <1>1, TypedInvariant, PTL

-----------------------------------------------------------------------------
(* The pairing of cwd and env.                                             *)

LEMMA InitPairing == Init => Pairing
BY DEF Init, Pairing, Gone

\* A script that has come to its end stays there, and so does what it wrote.
LEMMA PairingStep ==
  ASSUME ProcTypes, PumpTypes, Pairing, [Next]_vars
  PROVE  Pairing'
<1> USE DEF ProcTypes, PumpTypes, Pairing, Gone, procVars, pumpVars
<1>1. CASE TopStops
  BY <1>1 DEF TopStops, Bury
<1>2. CASE TopExits
  BY <1>2 DEF TopExits
<1>3. CASE Select
  BY <1>3 DEF Select
<1>4. CASE ReadEmits
  BY <1>4 DEF ReadEmits
<1>5. CASE Dispatch
  BY <1>5 DEF Dispatch, Relays
<1>6. CASE EmitsRead
  BY <1>6 DEF EmitsRead
<1>7. CASE Answer
  BY <1>7 DEF Answer, Relays
<1>8. CASE CallsRead
  BY <1>8 DEF CallsRead
<1>9. CASE Responds
  BY <1>9 DEF Responds
<1>10. CASE RespondDrops
  BY <1>10 DEF RespondDrops
<1>11. CASE Drain
  BY <1>11 DEF Drain
<1>12. CASE DrainEnds
  BY <1>12 DEF DrainEnds, Replay, Closes
<1>13. CASE \E c \in Calls : Asks(c)
  BY <1>13 DEF Asks, LockedToRead
<1>14. CASE \E c \in Calls : Reads(c)
  BY <1>14 DEF Reads
<1>15. CASE \E c \in Calls : HungUp(c)
  BY <1>15 DEF HungUp
<1>16. CASE \E e \in Emits : Sends(e)
  BY <1>16 DEF Sends
<1>17. CASE \E p \in Calls \cup Emits : Kill(p)
  BY <1>17 DEF Kill, Bury
<1>18. CASE \E c \in Calls : Locks(c)
  BY <1>18 DEF Locks
<1>19. CASE \E e \in Emits : Begins(e)
  BY <1>19 DEF Begins
<1>20. CASE TrapBegins
  BY <1>20 DEF TrapBegins
<1>21. CASE Exits
  BY <1>21 DEF Exits
<1>22. CASE DeadlinePasses
  BY <1>22 DEF DeadlinePasses
<1>23. CASE HostCancels
  BY <1>23 DEF HostCancels
<1>24. CASE UNCHANGED vars
  BY <1>24 DEF vars
<1> QED
  BY <1>1, <1>2, <1>3, <1>4, <1>5, <1>6, <1>7, <1>8, <1>9, <1>10, <1>11, <1>12, <1>13,
       <1>14, <1>15, <1>16, <1>17, <1>18, <1>19, <1>20, <1>21, <1>22, <1>23, <1>24
  DEF Next, Pump, Command

\* The session never takes a cwd without its env of a script but one that was killed in
\* its trap by another hand than the supervisor's.
THEOREM PairIsWhole == Spec => []PairOrNothing
<1>1. Spec => []Pairing
  BY InitPairing, PairingStep, TypedInvariant, PTL DEF Spec, Typed
<1>2. Pairing => PairOrNothing
  BY DEF Pairing, PairOrNothing
<1> QED
  BY <1>1, <1>2, PTL

-----------------------------------------------------------------------------
(* A call's own answer.                                                    *)

LEMMA InitExchange == Init => OneExchange
<1> SUFFICES ASSUME Init PROVE OneExchange
  OBVIOUS
<1>1. /\ hbuf = <<>> /\ reqs = <<>> /\ resps = <<>> /\ out = <<>> /\ hlock = None /\ pc = "top"
      /\ \A c \in Calls : cmd[c] = "new" /\ got[c] = None /\ rbuf[c] = <<>>
  BY DEF Init
<1>2. Request = <<>> /\ resps \o out = <<>>
  BY <1>1 DEF Request
<1> QED
  BY <1>1, <1>2, ShellParameters DEF OneExchange, Exchange

\* What a step does not touch stays as it is.
LEMMA ExchangeStays ==
  ASSUME OneExchange, UNCHANGED <<got, hlock, rbuf, reqs, hbuf, resps, out>>,
         \A c \in Calls : cmd'[c] = cmd[c],
         Ended' <=> Ended, out # <<>> => pc' = "respond"
  PROVE  OneExchange'
BY DEF OneExchange, NoneKilled, Exchange, Writing, Asked, Answered, Dropped, Request, ReplyTo

\* Nor does the exchange notice where on its way a piece is.
LEMMA ExchangeMoves ==
  ASSUME OneExchange, UNCHANGED <<cmd, got, hlock>>, Ended' <=> Ended,
         Request' = Request, (resps \o out)' = resps \o out,
         \A c \in Calls : ReplyTo(c)' = ReplyTo(c) /\ (hlock # c => rbuf'[c] = rbuf[c]),
         out = <<>> => out' = <<>>, out' # <<>> => pc' = "respond"
  PROVE  OneExchange'
BY DEF OneExchange, NoneKilled, Exchange, Writing, Asked, Answered, Dropped

\* Nothing is split in two nothings.
LEMMA NothingSplits ==
  ASSUME NEW s \in Seq(CallPieces), NEW t \in Seq(CallPieces), s \o t = <<>>
  PROVE  s = <<>> /\ t = <<>>
BY ConcatEqualIffEmpty

\* A frame is cut before, after, or between its pieces.
LEMMA WholeSplits ==
  ASSUME NEW s \in Seq(CallPieces), NEW t \in Seq(CallPieces), NEW p, s \o t = Whole(p)
  PROVE  \/ s = <<>>
         \/ s = <<Piece(p, FALSE)>>
         \/ s = Whole(p) /\ t = <<>>
<1>1. Len(s) \in Nat /\ Len(t) \in Nat /\ Len(s) + Len(t) = 2
  <2>1. Len(Whole(p)) = 2
    BY DEF Whole
  <2> QED
    BY <2>1, LenProperties, ConcatProperties
<1>2. CASE Len(s) = 0
  BY <1>2, EmptySeq
<1>3. CASE Len(s) = 1
  <2>1. s[1] = (s \o t)[1]
    <3>1. 1 \in 1..(Len(s) + Len(t)) /\ 1 <= Len(s)
      BY <1>1, <1>3
    <3> QED
      BY <3>1, ConcatProperties
  <2>2. s[1] = Piece(p, FALSE)
    BY <2>1 DEF Whole
  <2>3. s[1] \in CallPieces
    BY <1>3, ElementOfSeq
  <2>4. <<s[1]>> \in Seq(CallPieces) /\ Len(<<s[1]>>) = 1 /\ <<s[1]>>[1] = s[1]
    BY <2>3
  <2>5. s = <<s[1]>>
    BY <1>3, <2>4, SeqEqual
  <2> QED
    BY <2>2, <2>5
<1>4. CASE Len(s) = 2
  <2>1. t = <<>>
    BY <1>1, <1>4, EmptySeq
  <2> QED
    BY <2>1, ConcatEmptySeq
<1>5. Len(s) \in {0, 1, 2}
  <2> DEFINE m == Len(s)
             n == Len(t)
  <2>1. m \in Nat /\ n \in Nat /\ m + n = 2
    BY <1>1
  <2> HIDE DEF m, n
  <2>2. m = 0 \/ m = 1 \/ m = 2
    BY <2>1
  <2> QED
    BY <2>2 DEF m
<1> QED
  BY <1>2, <1>3, <1>4, <1>5

\* Half a frame is cut before or after.
LEMMA HalfSplits ==
  ASSUME NEW s \in Seq(CallPieces), NEW t \in Seq(CallPieces), NEW p,
         s \o t = <<Piece(p, FALSE)>>
  PROVE  s = <<>> \/ s = <<Piece(p, FALSE)>>
<1>1. Len(s) \in Nat /\ Len(t) \in Nat /\ Len(s) + Len(t) = 1
  <2>1. Len(<<Piece(p, FALSE)>>) = 1
    OBVIOUS
  <2> QED
    BY <2>1, LenProperties, ConcatProperties
<1>2. CASE Len(s) = 0
  BY <1>2, EmptySeq
<1>3. CASE Len(s) = 1
  <2>1. t = <<>>
    BY <1>1, <1>3, EmptySeq
  <2> QED
    BY <2>1, ConcatEmptySeq
<1>4. Len(s) \in {0, 1}
  <2> DEFINE m == Len(s)
             n == Len(t)
  <2>1. m \in Nat /\ n \in Nat /\ m + n = 1
    BY <1>1
  <2> HIDE DEF m, n
  <2>2. m = 0 \/ m = 1
    BY <2>1
  <2> QED
    BY <2>2 DEF m
<1> QED
  BY <1>2, <1>3, <1>4

\* A buffer with a line, of what is at most one frame, is that frame.
LEMMA LineIsWhole ==
  ASSUME NEW s \in Seq(CallPieces), NEW t \in Seq(CallPieces), NEW p, HasLine(s),
         s \o t \in {<<>>, <<Piece(p, FALSE)>>, Whole(p)}
  PROVE  s = Whole(p) /\ t = <<>> /\ s \o t = Whole(p)
<1>1. s # <<>> /\ s # <<Piece(p, FALSE)>>
  BY HalfIsNoLine
<1> QED
  BY <1>1, NothingSplits, HalfSplits, WholeSplits

\* The call that has the lock, if any, is where the exchange is.
LEMMA Holder ==
  ASSUME Exchange, NEW c \in Calls, cmd[c] \in {"writing", "waiting"}
  PROVE  hlock = c /\ (Writing(c) \/ Asked(c) \/ Answered(c) \/ Dropped(c))
BY DEF Exchange

\* A call takes the lock on an idle line.
LEMMA LocksExchange ==
  ASSUME Typed, OneExchange, NEW c \in Calls, Locks(c), NoneKilled'
  PROVE  Exchange'
<1> USE DEF Typed, ProcTypes, CallTypes
<1>1. NoneKilled
  BY DEF Locks, NoneKilled
<1>2. Exchange /\ hlock = None
  BY <1>1 DEF OneExchange, Locks
<1>3. hbuf = <<>> /\ reqs = <<>> /\ resps = <<>> /\ out = <<>>
  BY <1>2, NothingSplits DEF Exchange, Request
<1>4. \A d \in Calls : d # None /\ rbuf[d] = <<>>
  BY <1>2, ShellParameters DEF Exchange
<1>5. /\ hlock' = c /\ cmd' = [cmd EXCEPT ![c] = "writing"] /\ ~Ended'
      /\ hbuf' = <<>> /\ reqs' = <<Piece(c, FALSE)>> /\ resps' = <<>> /\ out' = <<>>
      /\ UNCHANGED <<rbuf, got>>
  BY <1>3 DEF Locks, MayStart, Lively, Ended, pumpVars
<1>6. Request' = <<Piece(c, FALSE)>> /\ ReplyTo(c)' = <<>>
  BY <1>4, <1>5 DEF Request, ReplyTo
<1>7. Writing(c)'
  BY <1>5, <1>6 DEF Writing
<1>8. \A d \in Calls : /\ cmd'[d] \in {"writing", "waiting"} <=> hlock' = d
                       /\ hlock' # d => rbuf'[d] = <<>>
                       /\ got'[d] \in {None, d, "eof"}
  BY <1>2, <1>4, <1>5 DEF Exchange
<1> QED
  BY <1>4, <1>5, <1>7, <1>8 DEF Exchange

\* Two pieces make a frame.
LEMMA TwoPieces ==
  ASSUME NEW x \in CallPieces, NEW y \in CallPieces
  PROVE  Append(<<x>>, y) = <<x, y>>
<1>1. <<x>> \in Seq(CallPieces) /\ Len(<<x>>) = 1 /\ <<x>>[1] = x
  OBVIOUS
<1>2. <<x, y>> \in Seq(CallPieces) /\ Len(<<x, y>>) = 2 /\ <<x, y>>[1] = x /\ <<x, y>>[2] = y
  OBVIOUS
<1> DEFINE l == Append(<<x>>, y)
<1>3. l \in Seq(CallPieces) /\ Len(l) = 2 /\ l[1] = x /\ l[2] = y
  BY <1>1, AppendProperties
<1> HIDE DEF l
<1>4. \A i \in 1..2 : l[i] = <<x, y>>[i]
  BY <1>2, <1>3
<1>5. l = <<x, y>>
  BY <1>2, <1>3, <1>4, SeqEqual
<1> QED
  BY <1>5 DEF l

\* What is put at the end of the pipe is put at the end of all.
LEMMA AppendsLast ==
  ASSUME NEW s \in Seq(CallPieces), NEW t \in Seq(CallPieces), NEW x \in CallPieces
  PROVE  s \o Append(t, x) = Append(s \o t, x)
<1>1. <<x>> \in Seq(CallPieces)
  OBVIOUS
<1>2. Append(t, x) = t \o <<x>>
  BY AppendIsConcat
<1>3. s \o t \in Seq(CallPieces)
  BY ConcatProperties
<1>4. Append(s \o t, x) = (s \o t) \o <<x>>
  BY <1>3, AppendIsConcat
<1>5. s \o (t \o <<x>>) = (s \o t) \o <<x>>
  BY <1>1, ConcatAssociative
<1> QED
  BY <1>2, <1>4, <1>5

\* What the call has read comes before what is still in the pipe.
LEMMA ReplyReads ==
  ASSUME CallTypes, NEW c \in Calls
  PROVE  /\ rbuf[c] \in Seq(CallPieces) /\ rbuf[c] \o resps \in Seq(CallPieces)
         /\ resps \o out \in Seq(CallPieces)
         /\ ReplyTo(c) = (rbuf[c] \o resps) \o out
<1>1. rbuf[c] \in Seq(CallPieces) /\ resps \in Seq(CallPieces) /\ out \in Seq(CallPieces)
  BY DEF CallTypes
<1>2. (rbuf[c] \o resps) \o out = rbuf[c] \o (resps \o out)
  <2>1. ASSUME NEW s \in Seq(CallPieces), NEW t \in Seq(CallPieces), NEW u \in Seq(CallPieces)
        PROVE  (s \o t) \o u = s \o (t \o u)
    BY ConcatAssociative
  <2> QED
    BY <1>1, <2>1
<1> QED
  BY <1>1, <1>2, ConcatProperties DEF ReplyTo

\* It finishes its request.
LEMMA AsksExchange ==
  ASSUME Typed, OneExchange, NEW c \in Calls, Asks(c), NoneKilled'
  PROVE  Exchange'
<1> USE DEF Typed, ProcTypes, CallTypes
<1>1. NoneKilled
  BY DEF Asks, NoneKilled
<1>2. Exchange /\ hlock = c /\ Writing(c) /\ ~Ended
  BY <1>1, Holder DEF OneExchange, Asks, Asked, Answered, Dropped
<1>3. /\ reqs' = Append(reqs, Piece(c, TRUE)) /\ cmd' = [cmd EXCEPT ![c] = "waiting"]
      /\ UNCHANGED <<hlock, hbuf, resps, out, rbuf, got>>
  BY DEF Asks, LockedToRead, pumpVars
<1>4. hbuf \o reqs = <<Piece(c, FALSE)>>
  BY <1>2 DEF Writing, Request
<1>5. hbuf \o Append(reqs, Piece(c, TRUE)) = Whole(c)
  <2>1. Piece(c, TRUE) \in CallPieces
    BY DEF Piece, CallPieces
  <2>2. hbuf \o Append(reqs, Piece(c, TRUE)) = Append(hbuf \o reqs, Piece(c, TRUE))
    BY <2>1, AppendsLast
  <2>3. Append(<<Piece(c, FALSE)>>, Piece(c, TRUE)) = Whole(c)
    <3>1. Piece(c, FALSE) \in CallPieces
      BY DEF Piece, CallPieces
    <3> QED
      BY <2>1, <3>1, TwoPieces DEF Whole
  <2> QED
    BY <1>4, <2>2, <2>3
<1>6. Request' = Whole(c) /\ ReplyTo(c)' = <<>>
  BY <1>2, <1>3, <1>5 DEF Request, ReplyTo, Writing
<1>7. Asked(c)'
  BY <1>3, <1>6 DEF Asked
<1>8. \A d \in Calls : /\ cmd'[d] \in {"writing", "waiting"} <=> hlock' = d
                       /\ hlock' # d => rbuf'[d] = <<>>
                       /\ got'[d] \in {None, d, "eof"}
  BY <1>2, <1>3 DEF Exchange
<1> QED
  BY <1>2, <1>3, <1>7, <1>8, ShellParameters DEF Exchange

\* It gives the lock back when the line is idle again.
LEMMA DoneExchange ==
  ASSUME Typed, Exchange, NEW c \in Calls, hlock = c, hlock' = None,
         cmd' = [cmd EXCEPT ![c] = "done"], rbuf' = [rbuf EXCEPT ![c] = <<>>],
         Request' = <<>>, (resps \o out)' = <<>>,
         NEW g \in {c, "eof"}, got' = [got EXCEPT ![c] = g]
  PROVE  Exchange'
<1> USE DEF Typed, ProcTypes, CallTypes
<1>1. \A d \in Calls : /\ cmd'[d] \in {"writing", "waiting"} <=> hlock' = d
                       /\ hlock' # d => rbuf'[d] = <<>>
                       /\ got'[d] \in {None, d, "eof"}
  BY ShellParameters DEF Exchange
<1> QED
  BY <1>1, ShellParameters DEF Exchange

\* It reads what has come of its answer.
LEMMA ReadsExchange ==
  ASSUME Typed, OneExchange, NEW c \in Calls, Reads(c)
  PROVE  OneExchange'
<1> USE DEF Typed, ProcTypes, CallTypes
<1> DEFINE buf == rbuf[c] \o resps
<1>1. /\ cmd[c] = "waiting" /\ resps # <<>> /\ resps' = <<>>
      /\ UNCHANGED <<pc, hbuf, reqs, out>>
  BY DEF Reads, pumpVars
<1>2. rbuf[c] \in Seq(CallPieces) /\ buf \in Seq(CallPieces) /\ ReplyTo(c) = buf \o out
  BY ReplyReads
<1>3. \A d \in Calls : cmd'[d] = "dead" <=> cmd[d] = "dead"
  BY DEF Reads
<1>4. ASSUME NoneKilled PROVE Exchange'
  <2>1. Exchange /\ hlock = c /\ (Asked(c) \/ Answered(c) \/ Dropped(c))
    BY <1>1, <1>4, Holder DEF OneExchange, Writing
  <2>2. ReplyTo(c) \in {<<>>, <<Piece(c, FALSE)>>, Whole(c)}
    BY <2>1 DEF Asked, Answered, Dropped
  <2>3. ~Asked(c)
    <3>1. ASSUME buf \o out = <<>> PROVE FALSE
      <4>1. buf = <<>>
        BY <1>2, <3>1, NothingSplits
      <4>2. resps = <<>>
        BY <1>2, <4>1, NothingSplits
      <4> QED
        BY <1>1, <4>2
    <3> QED
      BY <1>2, <3>1 DEF Asked
  <2>4. CASE HasLine(buf)
    <3>1. buf = Whole(c) /\ out = <<>>
      <4>1. buf \o out \in {<<>>, <<Piece(c, FALSE)>>, Whole(c)}
        BY <1>2, <2>2
      <4> HIDE DEF buf
      <4> QED
        BY <1>2, <2>4, <4>1, LineIsWhole
    <3>2. Line(buf) = Whole(c) /\ Of(Line(buf)) = c /\ c # None
      BY <3>1, WholeIsLine, ShellParameters
    <3>3. /\ got' = [got EXCEPT ![c] = c] /\ cmd' = [cmd EXCEPT ![c] = "done"]
          /\ hlock' = None /\ rbuf' = [rbuf EXCEPT ![c] = <<>>]
      BY <2>1, <2>4, <3>2 DEF Reads
    <3>4. Request' = <<>>
      BY <1>1, <2>1, <2>3 DEF Answered, Dropped, Request
    <3>5. (resps \o out)' = <<>>
      BY <1>1, <3>1
    <3> HIDE DEF buf
    <3> QED
      BY <2>1, <3>3, <3>4, <3>5, DoneExchange
  <2>5. CASE ~HasLine(buf)
    <3>1. rbuf' = [rbuf EXCEPT ![c] = buf] /\ UNCHANGED <<got, cmd, hlock>>
      BY <2>5 DEF Reads
    <3>2. ReplyTo(c)' = buf \o out
      BY <1>1, <3>1 DEF ReplyTo
    <3>3. Request' = Request
      BY <1>1 DEF Request
    <3>4. Answered(c)' \/ Dropped(c)'
      BY <1>1, <1>2, <2>1, <2>3, <3>1, <3>2, <3>3 DEF Answered, Dropped
    <3>5. \A d \in Calls : d # c => rbuf'[d] = rbuf[d]
      BY <3>1
    <3> QED
      BY <2>1, <3>1, <3>4, <3>5, ShellParameters DEF Exchange
  <2> QED
    BY <2>4, <2>5
<1> QED
  BY <1>1, <1>3, <1>4 DEF OneExchange, NoneKilled, Ended, Request

\* It finds the supervisor gone.
LEMMA HungUpExchange ==
  ASSUME Typed, OneExchange, NEW c \in Calls, HungUp(c)
  PROVE  OneExchange'
<1> USE DEF Typed, ProcTypes, CallTypes
<1>1. /\ Ended /\ out = <<>> /\ Request = <<>> /\ cmd[c] \in {"writing", "waiting"}
      /\ cmd[c] = "waiting" => resps = <<>>
      /\ UNCHANGED <<pc, hbuf, reqs, resps, out>>
  BY DEF HungUp, OneExchange, Ended, pumpVars
<1>2. \A d \in Calls : cmd'[d] = "dead" <=> cmd[d] = "dead"
  BY <1>1 DEF HungUp
<1>3. ASSUME NoneKilled PROVE Exchange'
  <2>1. Exchange /\ hlock = c /\ (Writing(c) \/ cmd[c] = "waiting")
    BY <1>1, <1>3, Holder DEF OneExchange, Asked, Answered, Dropped
  <2>2. resps = <<>>
    <3>1. CASE Writing(c)
      <4>1. rbuf[c] \in Seq(CallPieces) /\ resps \o out \in Seq(CallPieces)
        BY ConcatProperties
      <4>2. resps \o out = <<>>
        BY <3>1, <4>1, NothingSplits DEF Writing, ReplyTo
      <4> QED
        BY <4>2, NothingSplits
    <3> QED
      BY <1>1, <2>1, <3>1
  <2>3. /\ got' = [got EXCEPT ![c] = "eof"] /\ cmd' = [cmd EXCEPT ![c] = "done"]
        /\ hlock' = None /\ rbuf' = [rbuf EXCEPT ![c] = <<>>]
    BY <2>1 DEF HungUp
  <2>4. Request' = <<>> /\ (resps \o out)' = <<>>
    BY <1>1, <2>2 DEF Request
  <2> QED
    BY <2>1, <2>3, <2>4, DoneExchange
<1> QED
  BY <1>1, <1>2, <1>3 DEF OneExchange, NoneKilled, Ended, Request

\* The supervisor answers the request that it has whole.
LEMMA AnswerExchange ==
  ASSUME Typed, OneExchange, Answer
  PROVE  OneExchange'
<1> USE DEF Typed, ProcTypes, CallTypes
<1>1. /\ pc = "calls" /\ HasLine(hbuf) /\ hbuf' = Rest(hbuf) /\ out' = Whole(Of(Line(hbuf)))
      /\ pc' = "respond" /\ UNCHANGED <<cmd, got, hlock, rbuf, reqs, resps>>
  BY DEF Answer, Reply, procVars
<1>2. ASSUME NoneKilled PROVE Exchange'
  <2>1. Exchange
    BY <1>2 DEF OneExchange
  <2>2. hbuf # <<>>
    BY <1>1, HalfIsNoLine
  <2>3. Request # <<>>
    BY <2>2, NothingSplits DEF Request
  <2>4. PICK c \in Calls : hlock = c
    BY <2>1, <2>3 DEF Exchange
  <2>5. Writing(c) \/ Asked(c)
    BY <2>1, <2>3, <2>4 DEF Exchange, Answered, Dropped
  <2>6. Request \in {<<Piece(c, FALSE)>>, Whole(c)}
    BY <2>3, <2>5 DEF Writing, Asked
  <2>7. hbuf = Whole(c) /\ reqs = <<>> /\ Request = Whole(c)
    BY <1>1, <2>6, LineIsWhole DEF Request
  <2>8. Asked(c)
    <3>1. Whole(c) # <<Piece(c, FALSE)>> /\ Whole(c) # <<>>
      BY DEF Whole
    <3> QED
      BY <2>5, <2>7, <3>1 DEF Writing
  <2>9. hbuf' = <<>> /\ out' = Whole(c)
    BY <1>1, <2>7, WholeIsLine
  <2>10. rbuf[c] = <<>> /\ resps = <<>>
    <3>1. rbuf[c] \in Seq(CallPieces) /\ resps \o out \in Seq(CallPieces)
      BY ConcatProperties
    <3>2. rbuf[c] = <<>> /\ resps \o out = <<>>
      BY <2>8, <3>1, NothingSplits DEF Asked, ReplyTo
    <3> QED
      BY <3>2, NothingSplits
  <2>11. Whole(c) \in Seq(CallPieces)
    BY DEF Whole, Piece, CallPieces
  <2>12. ReplyTo(c)' = Whole(c) /\ Request' = <<>>
    BY <1>1, <2>7, <2>9, <2>10, <2>11, ConcatEmptySeq DEF ReplyTo, Request
  <2>13. Answered(c)'
    BY <1>1, <2>8, <2>12 DEF Answered, Asked
  <2> QED
    BY <1>1, <2>1, <2>4, <2>13, ShellParameters DEF Exchange
<1> QED
  BY <1>1, <1>2 DEF OneExchange, NoneKilled, Ended

\* A piece that moves from the head of one to the end of the other changes no order.
LEMMA HeadMoves ==
  ASSUME NEW s \in Seq(CallPieces), NEW t \in Seq(CallPieces), t # <<>>
  PROVE  Append(s, Head(t)) \o Tail(t) = s \o t
<1> DEFINE l == Append(s, Head(t)) \o Tail(t)
           r == s \o t
<1>1. /\ Head(t) \in CallPieces /\ Tail(t) \in Seq(CallPieces) /\ Len(Tail(t)) = Len(t) - 1
      /\ \A i \in 1..Len(Tail(t)) : Tail(t)[i] = t[i + 1]
  BY HeadTailProperties
<1>2. Len(s) \in Nat /\ Len(t) \in Nat \ {0} /\ Head(t) = t[1]
  BY EmptySeq, LenProperties
<1>3. /\ Append(s, Head(t)) \in Seq(CallPieces) /\ Len(Append(s, Head(t))) = Len(s) + 1
      /\ \A i \in 1..Len(s) : Append(s, Head(t))[i] = s[i]
      /\ Append(s, Head(t))[Len(s) + 1] = t[1]
  BY <1>1, <1>2, AppendProperties
<1>4. /\ l \in Seq(CallPieces) /\ Len(l) = Len(s) + Len(t)
      /\ \A i \in 1..(Len(s) + Len(t)) :
           l[i] = IF i <= Len(s) + 1 THEN Append(s, Head(t))[i] ELSE Tail(t)[i - (Len(s) + 1)]
  <2> HIDE DEF l
  <2>1. /\ l \in Seq(CallPieces) /\ Len(l) = Len(Append(s, Head(t))) + Len(Tail(t))
        /\ \A i \in 1..(Len(Append(s, Head(t))) + Len(Tail(t))) :
             l[i] = IF i <= Len(Append(s, Head(t))) THEN Append(s, Head(t))[i]
                    ELSE Tail(t)[i - Len(Append(s, Head(t)))]
    BY <1>1, <1>3, ConcatProperties DEF l
  <2> QED
    BY <1>1, <1>2, <1>3, <2>1
<1>5. /\ r \in Seq(CallPieces) /\ Len(r) = Len(s) + Len(t)
      /\ \A i \in 1..(Len(s) + Len(t)) : r[i] = IF i <= Len(s) THEN s[i] ELSE t[i - Len(s)]
  BY ConcatProperties
<1>6. ASSUME NEW i \in 1..(Len(s) + Len(t)) PROVE l[i] = r[i]
  <2> HIDE DEF l, r
  <2>1. CASE i <= Len(s)
    BY <1>2, <1>3, <1>4, <1>5, <2>1
  <2>2. CASE i = Len(s) + 1
    BY <1>2, <1>3, <1>4, <1>5, <2>2
  <2>3. CASE i > Len(s) + 1
    <3>1. i - (Len(s) + 1) \in 1..Len(Tail(t)) /\ (i - (Len(s) + 1)) + 1 = i - Len(s)
      BY <1>1, <1>2, <2>3
    <3>2. Tail(t)[i - (Len(s) + 1)] = t[i - Len(s)]
      BY <1>1, <3>1
    <3>3. l[i] = Tail(t)[i - (Len(s) + 1)] /\ r[i] = t[i - Len(s)]
      BY <1>2, <1>4, <1>5, <2>3
    <3> QED
      BY <3>2, <3>3
  <2> QED
    BY <1>2, <2>1, <2>2, <2>3
<1> HIDE DEF l, r
<1>7. l = r
  BY <1>4, <1>5, <1>6, SeqEqual
<1> QED
  BY <1>7 DEF l, r

\* It writes a piece of the answer.
LEMMA RespondsExchange ==
  ASSUME Typed, OneExchange, Responds
  PROVE  OneExchange'
<1> USE DEF Typed, CallTypes
<1>1. UNCHANGED <<cmd, got, hlock, rbuf, hbuf, reqs>> /\ pc = "respond"
  BY DEF Responds, procVars
<1>2. CASE out = <<>>
  <2>1. UNCHANGED <<out, resps>> /\ pc' = "calls"
    BY <1>2 DEF Responds
  <2> QED
    BY <1>1, <1>2, <2>1, ExchangeStays DEF Ended
<1>3. CASE out # <<>>
  <2>1. resps' = Append(resps, Head(out)) /\ out' = Tail(out) /\ pc' = "respond"
    BY <1>1, <1>3 DEF Responds
  <2>2. Append(resps, Head(out)) \o Tail(out) = resps \o out
    BY <1>3, HeadMoves
  <2>3. (resps \o out)' = resps \o out
    BY <2>1, <2>2
  <2>4. Request' = Request /\ \A c \in Calls : ReplyTo(c)' = ReplyTo(c)
    BY <1>1, <2>3 DEF Request, ReplyTo
  <2> QED
    BY <1>1, <1>3, <2>1, <2>3, <2>4, ExchangeMoves DEF Ended
<1> QED
  BY <1>2, <1>3

\* It drops what is left of the answer.
LEMMA DropsExchange ==
  ASSUME Typed, OneExchange, RespondDrops
  PROVE  OneExchange'
<1> USE DEF Typed, ProcTypes, CallTypes
<1>1. UNCHANGED <<cmd, got, hlock, rbuf, hbuf, reqs, resps>> /\ out' = <<>>
      /\ pc = "respond" /\ pc' = "calls"
  BY DEF RespondDrops, procVars
<1>2. CASE out = <<>>
  BY <1>1, <1>2, ExchangeStays DEF Ended
<1>3. CASE out # <<>>
  <2>1. ASSUME NoneKilled PROVE Exchange'
    <3>1. Exchange
      BY <2>1 DEF OneExchange
    <3>2. resps \o out # <<>>
      BY <1>3, NothingSplits
    <3>3. PICK c \in Calls : hlock = c
      BY <3>1, <3>2 DEF Exchange
    <3>4. /\ rbuf[c] \in Seq(CallPieces) /\ rbuf[c] \o resps \in Seq(CallPieces)
          /\ ReplyTo(c) = (rbuf[c] \o resps) \o out
      BY ReplyReads
    <3>5. ReplyTo(c) # <<>>
      BY <1>3, <3>4, NothingSplits
    <3>6. Answered(c)
      BY <1>3, <3>1, <3>3, <3>5 DEF Exchange, Writing, Asked, Dropped
    <3>7. rbuf[c] \o resps \in {<<>>, <<Piece(c, FALSE)>>}
      BY <1>3, <3>4, <3>6, WholeSplits DEF Answered
    <3>8. ReplyTo(c)' = rbuf[c] \o resps /\ Request' = Request
      BY <1>1, ConcatEmptySeq DEF ReplyTo, Request
    <3>9. Dropped(c)'
      BY <1>1, <3>6, <3>7, <3>8 DEF Answered, Dropped
    <3> QED
      BY <1>1, <3>1, <3>3, <3>9, ShellParameters DEF Exchange
  <2> QED
    BY <1>1, <2>1 DEF OneExchange, NoneKilled, Ended
<1> QED
  BY <1>2, <1>3

\* It goes, and what it had not relayed with it.
LEMMA EndExchange ==
  ASSUME Typed, OneExchange, DrainEnds
  PROVE  OneExchange'
<1> USE DEF Typed, CallTypes
<1>1. /\ UNCHANGED <<cmd, got, hlock, rbuf, resps, out>> /\ hbuf' = <<>> /\ reqs' = <<>>
      /\ pc' = "ended" /\ out = <<>> /\ ~Ended /\ Ended'
  BY DEF DrainEnds, Closes, procVars, OneExchange, Ended
<1>2. Request' = <<>> /\ \A c \in Calls : ReplyTo(c)' = ReplyTo(c)
  BY <1>1 DEF Request, ReplyTo
<1>3. ASSUME NoneKilled PROVE Exchange'
  <2>1. Exchange
    BY <1>3 DEF OneExchange
  <2>2. \A c \in Calls : /\ Writing(c) => Writing(c)'
                         /\ Asked(c) => Dropped(c)'
                         /\ Answered(c) => Answered(c)'
                         /\ Dropped(c) => Dropped(c)'
    BY <1>1, <1>2 DEF Writing, Asked, Answered, Dropped
  <2> QED
    BY <1>1, <1>2, <2>1, <2>2 DEF Exchange
<1> QED
  BY <1>1, <1>2, <1>3 DEF OneExchange, NoneKilled

\* Each step keeps the exchange in its place.
LEMMA ExchangeStep ==
  ASSUME Typed, OneExchange, [Next]_vars
  PROVE  OneExchange'
<1> USE DEF procVars, pumpVars
<1>1. CASE TopStops
  <2> PICK S \in SUBSET Active : Bury(S)
    BY <1>1 DEF TopStops
  <2>1. /\ UNCHANGED <<got, rbuf, reqs, hbuf, resps, out>>
        /\ pc = "top" /\ pc' = "drain" /\ out = <<>>
    BY <1>1 DEF TopStops, OneExchange
  <2>2. CASE S \cap Calls = {}
    <3>1. UNCHANGED hlock /\ \A c \in Calls : cmd'[c] = cmd[c]
      BY <2>2, ShellParameters DEF Bury, Typed, ProcTypes
    <3> QED
      BY <2>1, <3>1, ExchangeStays DEF Ended
  <2>3. CASE S \cap Calls # {}
    <3>1. ~NoneKilled'
      BY <2>3 DEF Bury, NoneKilled
    <3> QED
      BY <2>1, <3>1 DEF OneExchange, Ended
  <2> QED
    BY <2>2, <2>3
<1>2. CASE TopExits
  BY <1>2, ExchangeStays DEF TopExits, Ended, OneExchange
<1>3. CASE Select
  BY <1>3, ExchangeStays DEF Select, Ended, OneExchange
<1>4. CASE ReadEmits
  BY <1>4, ExchangeStays DEF ReadEmits, Ended, OneExchange
<1>5. CASE Dispatch
  BY <1>5, ExchangeStays DEF Dispatch, Relays, Ended, OneExchange
<1>6. CASE EmitsRead
  <2>1. /\ UNCHANGED <<cmd, got, hlock, rbuf, resps, out>> /\ out = <<>> /\ ~Ended /\ ~Ended'
        /\ (UNCHANGED <<hbuf, reqs>>) \/ (hbuf' = hbuf \o reqs /\ reqs' = <<>>)
    BY <1>6 DEF EmitsRead, OneExchange, Ended
  <2>2. Request' = Request
    <3>1. hbuf \o reqs \in Seq(CallPieces)
      BY ConcatProperties DEF Typed, CallTypes
    <3> QED
      BY <2>1, <3>1, ConcatEmptySeq DEF Request
  <2>3. (resps \o out)' = resps \o out /\ \A c \in Calls : ReplyTo(c)' = ReplyTo(c)
    BY <2>1 DEF ReplyTo
  <2> QED
    BY <2>1, <2>2, <2>3, ExchangeMoves
<1>7. CASE Answer
  BY <1>7, AnswerExchange
<1>8. CASE CallsRead
  BY <1>8, ExchangeStays DEF CallsRead, Ended, OneExchange
<1>9. CASE Responds
  BY <1>9, RespondsExchange
<1>10. CASE RespondDrops
  BY <1>10, DropsExchange
<1>11. CASE Drain
  BY <1>11, ExchangeStays DEF Drain, Ended, OneExchange
<1>12. CASE DrainEnds
  BY <1>12, EndExchange
<1>13. CASE \E c \in Calls : Asks(c)
  <2> PICK c \in Calls : Asks(c)
    BY <1>13
  <2>1. ~Ended' /\ UNCHANGED <<out, pc>>
    BY DEF Asks, Ended
  <2> QED
    BY <2>1, AsksExchange DEF OneExchange
<1>14. CASE \E c \in Calls : Reads(c)
  BY <1>14, ReadsExchange
<1>15. CASE \E c \in Calls : HungUp(c)
  BY <1>15, HungUpExchange
<1>16. CASE \E e \in Emits : Sends(e)
  <2> PICK e \in Emits : Sends(e)
    BY <1>16
  <2>1. UNCHANGED <<got, hlock, rbuf, reqs, hbuf, resps, out, pc>>
    BY DEF Sends
  <2>2. \A c \in Calls : cmd'[c] = cmd[c]
    BY ShellParameters DEF Sends, Typed, ProcTypes
  <2> QED
    BY <2>1, <2>2, ExchangeStays DEF Ended, OneExchange
<1>17. CASE \E p \in Calls \cup Emits : Kill(p)
  <2> PICK p \in Calls \cup Emits : Kill(p)
    BY <1>17
  <2>1. UNCHANGED <<got, rbuf, reqs, hbuf, resps, out, pc>> /\ Bury({p})
    BY DEF Kill
  <2>2. CASE p \in Emits
    <3>1. UNCHANGED hlock /\ \A c \in Calls : cmd'[c] = cmd[c]
      BY <2>1, <2>2, ShellParameters DEF Bury, Typed, ProcTypes
    <3> QED
      BY <2>1, <3>1, ExchangeStays DEF Ended, OneExchange
  <2>3. CASE p \in Calls
    <3>1. ~NoneKilled'
      BY <2>1, <2>3 DEF Bury, NoneKilled
    <3>2. Request' = Request
      BY <2>1 DEF Request
    <3> QED
      BY <2>1, <3>1, <3>2 DEF OneExchange, Ended
  <2> QED
    BY <2>2, <2>3
<1>18. CASE \E c \in Calls : Locks(c)
  <2> PICK c \in Calls : Locks(c)
    BY <1>18
  <2>1. ~Ended' /\ UNCHANGED <<out, pc>>
    BY DEF Locks, MayStart, Lively, Ended
  <2> QED
    BY <2>1, LocksExchange DEF OneExchange
<1>19. CASE \E e \in Emits : Begins(e)
  <2> PICK e \in Emits : Begins(e)
    BY <1>19
  <2>1. UNCHANGED <<got, hlock, rbuf, reqs, hbuf, resps, out, pc>>
    BY DEF Begins
  <2>2. \A c \in Calls : cmd'[c] = cmd[c]
    BY ShellParameters DEF Begins, Typed, ProcTypes
  <2> QED
    BY <2>1, <2>2, ExchangeStays DEF Ended, OneExchange
<1>20. CASE TrapBegins
  BY <1>20, ExchangeStays DEF TrapBegins, Ended, OneExchange
<1>21. CASE Exits
  BY <1>21, ExchangeStays DEF Exits, Ended, OneExchange
<1>22. CASE DeadlinePasses
  BY <1>22, ExchangeStays DEF DeadlinePasses, Ended, OneExchange
<1>23. CASE HostCancels
  BY <1>23, ExchangeStays DEF HostCancels, Ended, OneExchange
<1>24. CASE UNCHANGED vars
  BY <1>24, ExchangeStays DEF vars, Ended, OneExchange
<1> QED
  BY <1>1, <1>2, <1>3, <1>4, <1>5, <1>6, <1>7, <1>8, <1>9, <1>10, <1>11, <1>12, <1>13,
       <1>14, <1>15, <1>16, <1>17, <1>18, <1>19, <1>20, <1>21, <1>22, <1>23, <1>24
  DEF Next, Pump, Command

\* One request is outstanding at most, and frames need no ids: as long as no call was
\* killed in its round trip, each prints its own answer, or that the exec has ended.
THEOREM OwnAnswerComesBack == Spec => []OwnAnswerUnlessKilled
<1>1. Spec => []OneExchange
  BY InitExchange, ExchangeStep, TypedInvariant, PTL DEF Spec
<1>2. OneExchange => OwnAnswerUnlessKilled
  BY DEF OneExchange, NoneKilled, Exchange, OwnAnswerUnlessKilled
<1> QED
  BY <1>1, <1>2, PTL

-----------------------------------------------------------------------------
(* The stream of the emits.                                                *)

\* What is in a sequence, and what one more element adds.
LEMMA InSet ==
  ASSUME NEW S, NEW s \in Seq(S)
  PROVE  /\ ToSet(s) \subseteq S
         /\ \A x : x \in ToSet(s) <=> \E i \in 1..Len(s) : s[i] = x
BY LenProperties DEF ToSet

LEMMA InSetAppend ==
  ASSUME NEW S, NEW s \in Seq(S), NEW e \in S
  PROVE  ToSet(Append(s, e)) = ToSet(s) \cup {e}
<1> DEFINE t == Append(s, e)
<1>1. /\ t \in Seq(S) /\ Len(t) = Len(s) + 1 /\ t[Len(s) + 1] = e
      /\ \A i \in 1..Len(s) : t[i] = s[i]
  BY AppendProperties
<1>2. Len(s) \in Nat
  BY LenProperties
<1> HIDE DEF t
<1>3. \A x : x \in ToSet(t) <=> \E i \in 1..Len(t) : t[i] = x
  BY <1>1, InSet
<1>4. \A x : x \in ToSet(s) <=> \E i \in 1..Len(s) : s[i] = x
  BY InSet
<1>5. ASSUME NEW x PROVE x \in ToSet(t) <=> x \in ToSet(s) \/ x = e
  <2>1. ASSUME x \in ToSet(t) PROVE x \in ToSet(s) \/ x = e
    <3>1. PICK i \in 1..Len(t) : t[i] = x
      BY <1>3, <2>1
    <3>2. CASE i = Len(s) + 1
      BY <1>1, <3>1, <3>2
    <3>3. CASE i # Len(s) + 1
      <4>1. i \in 1..Len(s)
        BY <1>1, <1>2, <3>1, <3>3
      <4> QED
        BY <1>1, <1>4, <3>1, <4>1
    <3> QED
      BY <3>2, <3>3
  <2>2. ASSUME x \in ToSet(s) PROVE x \in ToSet(t)
    <3>1. PICK i \in 1..Len(s) : s[i] = x
      BY <1>4, <2>2
    <3>2. i \in 1..Len(t) /\ t[i] = x
      BY <1>1, <1>2, <3>1
    <3> QED
      BY <1>3, <3>2
  <2>3. ASSUME x = e PROVE x \in ToSet(t)
    <3>1. Len(s) + 1 \in 1..Len(t)
      BY <1>1, <1>2
    <3> QED
      BY <1>1, <1>3, <2>3, <3>1
  <2> QED
    BY <2>1, <2>2, <2>3
<1> QED
  BY <1>5 DEF t

\* A sequence stays injective with a new element.
LEMMA InjectiveAppend ==
  ASSUME NEW S, NEW s \in Seq(S), NEW e \in S, IsInjective(s), e \notin ToSet(s)
  PROVE  IsInjective(Append(s, e))
<1> DEFINE t == Append(s, e)
<1>1. /\ t \in Seq(S) /\ Len(t) = Len(s) + 1 /\ t[Len(s) + 1] = e
      /\ \A i \in 1..Len(s) : t[i] = s[i]
  BY AppendProperties
<1>2. Len(s) \in Nat /\ DOMAIN s = 1..Len(s) /\ DOMAIN t = 1..Len(t)
  BY <1>1, LenProperties
<1> HIDE DEF t
<1>3. \A i \in 1..Len(s) : s[i] # e
  BY InSet
<1>4. \A i, j \in 1..Len(s) : s[i] = s[j] => i = j
  BY <1>2 DEF IsInjective
<1>5. ASSUME NEW i \in 1..Len(t), NEW j \in 1..Len(t), t[i] = t[j] PROVE i = j
  <2>1. (i \in 1..Len(s) \/ i = Len(s) + 1) /\ (j \in 1..Len(s) \/ j = Len(s) + 1)
    BY <1>1, <1>2
  <2> QED
    BY <1>1, <1>3, <1>4, <1>5, <2>1
<1>6. IsInjective(t)
  BY <1>2, <1>5 DEF IsInjective
<1> QED
  BY <1>6 DEF t

\* The stream is made of pieces, and a piece is its writer and its half.
LEMMA StreamTyped ==
  ASSUME EmitTypes
  PROVE  /\ Stream \in Seq(EmitPieces) /\ Len(Stream) \in Nat
         /\ Len(Stream) = Len(ebuf) + Len(recs)
         /\ \A n \in 1..Len(Stream) : /\ Stream[n] \in EmitPieces
                                      /\ Stream[n] = Piece(Stream[n].of, Stream[n].end)
         /\ \A n \in 1..Len(ebuf) : n \in 1..Len(Stream) /\ Stream[n] = ebuf[n]
<1>1. /\ Stream \in Seq(EmitPieces) /\ Len(Stream) = Len(ebuf) + Len(recs)
      /\ \A i \in 1..(Len(ebuf) + Len(recs)) :
           Stream[i] = IF i <= Len(ebuf) THEN ebuf[i] ELSE recs[i - Len(ebuf)]
  BY ConcatProperties DEF EmitTypes, Stream
<1>2. Len(Stream) \in Nat /\ Len(ebuf) \in Nat /\ Len(recs) \in Nat
  BY <1>1, LenProperties DEF EmitTypes
<1>3. \A n \in 1..Len(Stream) : Stream[n] \in EmitPieces
  BY <1>1, ElementOfSeq
<1>4. \A x \in EmitPieces : x = Piece(x.of, x.end)
  BY DEF EmitPieces, Piece
<1>5. \A n \in 1..Len(ebuf) : n \in 1..Len(Stream) /\ Stream[n] = ebuf[n]
  BY <1>1, <1>2
<1> QED
  BY <1>1, <1>2, <1>3, <1>4, <1>5

\* A piece that is written is the last.
LEMMA Pushes ==
  ASSUME EmitTypes, NEW e \in Emits, NEW b \in BOOLEAN,
         UNCHANGED ebuf, recs' = Append(recs, Piece(e, b))
  PROVE  /\ Len(Stream') = Len(Stream) + 1 /\ Stream'[Len(Stream) + 1] = Piece(e, b)
         /\ \A n \in 1..Len(Stream) : Stream'[n] = Stream[n]
<1>1. Piece(e, b) \in EmitPieces
  BY DEF Piece, EmitPieces
<1>2. recs \in Seq(EmitPieces) /\ ebuf \in Seq(EmitPieces)
  BY DEF EmitTypes
<1> DEFINE more == Append(recs, Piece(e, b))
<1>3. /\ more \in Seq(EmitPieces) /\ Len(more) = Len(recs) + 1
      /\ more[Len(recs) + 1] = Piece(e, b) /\ \A i \in 1..Len(recs) : more[i] = recs[i]
  BY <1>1, <1>2, AppendProperties
<1>4. Stream' = ebuf \o more
  BY DEF Stream
<1> HIDE DEF more
<1>5. /\ Len(ebuf \o more) = Len(ebuf) + Len(more)
      /\ \A i \in 1..(Len(ebuf) + Len(more)) :
           (ebuf \o more)[i] = IF i <= Len(ebuf) THEN ebuf[i] ELSE more[i - Len(ebuf)]
  BY <1>2, <1>3, ConcatProperties
<1>6. /\ Len(Stream) = Len(ebuf) + Len(recs)
      /\ \A i \in 1..(Len(ebuf) + Len(recs)) :
           Stream[i] = IF i <= Len(ebuf) THEN ebuf[i] ELSE recs[i - Len(ebuf)]
  BY <1>2, ConcatProperties DEF Stream
<1>7. Len(ebuf) \in Nat /\ Len(recs) \in Nat
  BY <1>2, LenProperties
<1> HIDE DEF Stream
<1>8. Len(Stream') = Len(Stream) + 1
  BY <1>3, <1>4, <1>5, <1>6, <1>7
<1>9. Stream'[Len(Stream) + 1] = Piece(e, b)
  <2>1. /\ Len(Stream) + 1 \in 1..(Len(ebuf) + Len(more)) /\ ~(Len(Stream) + 1 <= Len(ebuf))
        /\ Len(Stream) + 1 - Len(ebuf) = Len(recs) + 1
    BY <1>3, <1>6, <1>7
  <2> QED
    BY <1>3, <1>4, <1>5, <2>1
<1>10. ASSUME NEW n \in 1..Len(Stream) PROVE Stream'[n] = Stream[n]
  <2>1. n \in 1..(Len(ebuf) + Len(more)) /\ n \in 1..(Len(ebuf) + Len(recs))
    BY <1>3, <1>6, <1>7
  <2>2. CASE n <= Len(ebuf)
    BY <1>4, <1>5, <1>6, <2>1, <2>2
  <2>3. CASE ~(n <= Len(ebuf))
    <3>1. n - Len(ebuf) \in 1..Len(recs)
      BY <1>7, <2>1, <2>3
    <3>2. more[n - Len(ebuf)] = recs[n - Len(ebuf)]
      BY <1>3, <3>1
    <3> QED
      BY <1>4, <1>5, <1>6, <2>1, <2>3, <3>2
  <2> QED
    BY <2>2, <2>3
<1> QED
  BY <1>8, <1>9, <1>10

\* What is read of the pipe stays where it is in the stream.
LEMMA ReadsOn ==
  ASSUME EmitTypes, ebuf' = ebuf \o recs, recs' = <<>>
  PROVE  Stream' = Stream
<1>1. ebuf \o recs \in Seq(EmitPieces)
  BY StreamTyped DEF Stream
<1>2. (ebuf \o recs) \o <<>> = ebuf \o recs
  BY <1>1, ConcatEmptySeq
<1> QED
  BY <1>2 DEF Stream

\* A line that is dispatched is the head of the stream.
LEMMA Advances ==
  ASSUME EmitTypes, Dispatch
  PROVE  LET L == LineEnd(ebuf)
         IN /\ L \in 1..Len(ebuf) /\ L \in 1..Len(Stream)
            /\ Stream[L].end /\ \A m \in 1..(L - 1) : ~Stream[m].end
            /\ Len(Stream') = Len(Stream) - L
            /\ \A n \in 1..(Len(Stream) - L) : Stream'[n] = Stream[n + L]
<1> DEFINE L == LineEnd(ebuf)
           rest == Rest(ebuf)
<1>1. ebuf \in Seq(EmitPieces) /\ recs \in Seq(EmitPieces) /\ HasLine(ebuf)
  BY DEF EmitTypes, Dispatch
<1>2. L \in 1..Len(ebuf) /\ ebuf[L].end /\ \A m \in 1..(L - 1) : ~ebuf[m].end
  BY <1>1, LineEnds
<1>3. Len(ebuf) \in Nat /\ Len(recs) \in Nat /\ Len(Stream) = Len(ebuf) + Len(recs)
  BY <1>1, LenProperties, StreamTyped
<1>4. /\ rest \in Seq(EmitPieces) /\ Len(rest) = Len(ebuf) - L
      /\ \A i \in 1..(Len(ebuf) - L) : rest[i] = ebuf[i + L]
  <2>1. L \in Nat /\ L + 1 \in Int /\ Len(ebuf) \in Int
    BY <1>2, <1>3
  <2>2. \A i \in (L + 1)..Len(ebuf) : ebuf[i] \in EmitPieces
    BY <1>1, <1>2, <1>3, ElementOfSeq
  <2>3. rest = SubSeq(ebuf, L + 1, Len(ebuf))
    BY DEF Rest
  <2> HIDE DEF L, rest
  <2>4. /\ rest \in Seq(EmitPieces)
        /\ Len(rest) = IF L + 1 <= Len(ebuf) THEN Len(ebuf) - (L + 1) + 1 ELSE 0
        /\ \A i \in 1..(Len(ebuf) - (L + 1) + 1) : rest[i] = ebuf[(L + 1) + i - 1]
    BY <2>1, <2>2, <2>3, SubSeqProperties
  <2>5. Len(rest) = Len(ebuf) - L
    BY <1>2, <1>3, <2>1, <2>4
  <2>6. ASSUME NEW i \in 1..(Len(ebuf) - L) PROVE rest[i] = ebuf[i + L]
    <3>1. i \in 1..(Len(ebuf) - (L + 1) + 1) /\ (L + 1) + i - 1 = i + L
      BY <1>3, <2>1
    <3> QED
      BY <2>4, <3>1
  <2> QED
    BY <2>4, <2>5, <2>6
<1>5. Stream' = rest \o recs
  BY DEF Dispatch, Stream
<1>6. /\ Len(Stream') = Len(rest) + Len(recs)
      /\ \A i \in 1..(Len(rest) + Len(recs)) :
           Stream'[i] = IF i <= Len(rest) THEN rest[i] ELSE recs[i - Len(rest)]
  BY <1>1, <1>4, <1>5, ConcatProperties
<1>7. \A i \in 1..(Len(ebuf) + Len(recs)) :
        Stream[i] = IF i <= Len(ebuf) THEN ebuf[i] ELSE recs[i - Len(ebuf)]
  BY <1>1, ConcatProperties DEF Stream
<1> HIDE DEF L, rest
<1>8. Len(Stream') = Len(Stream) - L
  BY <1>2, <1>3, <1>4, <1>6
<1>9. ASSUME NEW n \in 1..(Len(Stream) - L) PROVE Stream'[n] = Stream[n + L]
  <2>1. n \in 1..(Len(rest) + Len(recs)) /\ n + L \in 1..(Len(ebuf) + Len(recs))
    BY <1>2, <1>3, <1>4
  <2>2. CASE n <= Len(rest)
    BY <1>2, <1>3, <1>4, <1>6, <1>7, <2>1, <2>2
  <2>3. CASE ~(n <= Len(rest))
    <3>1. ~(n + L <= Len(ebuf)) /\ n - Len(rest) = n + L - Len(ebuf)
      BY <1>2, <1>3, <1>4, <2>1, <2>3
    <3>2. Stream'[n] = recs[n - Len(rest)]
      BY <1>6, <2>1, <2>3
    <3>3. PICK k \in 1..(Len(ebuf) + Len(recs)) : k = n + L
      BY <2>1
    <3>4. Stream[k] = recs[k - Len(ebuf)]
      BY <1>7, <3>1, <3>3
    <3>5. n - Len(rest) = k - Len(ebuf)
      BY <1>2, <1>3, <3>1, <3>3
    <3> QED
      BY <3>2, <3>3, <3>4, <3>5
  <2> QED
    BY <2>2, <2>3
<1>10. L \in 1..Len(Stream) /\ Stream[L].end /\ \A m \in 1..(L - 1) : ~Stream[m].end
  <2>1. \A n \in 1..Len(ebuf) : n \in 1..Len(Stream) /\ Stream[n] = ebuf[n]
    BY StreamTyped
  <2>2. \A m \in 1..(L - 1) : m \in 1..Len(ebuf)
    BY <1>2, <1>3
  <2> QED
    BY <1>2, <2>1, <2>2
<1> QED
  BY <1>2, <1>8, <1>9, <1>10 DEF L

-----------------------------------------------------------------------------
(* Emits reach the host.                                                   *)

\* A step that leaves the emits alone.
EmitsStay ==
  /\ UNCHANGED <<sent, heard, elock>> /\ Stream' = Stream /\ (Ended' <=> Ended)
  /\ \A e \in Emits : cmd'[e] = cmd[e]

\* A step that kills commands.
EmitsDie ==
  /\ UNCHANGED <<sent, heard>> /\ Stream' = Stream /\ ~Ended /\ ~Ended'
  /\ \E S \in SUBSET Active : Bury(S)

\* What a step may do to the emits.
LEMMA EmitKinds ==
  ASSUME Typed, [Next]_vars
  PROVE  \/ EmitsStay \/ EmitsDie \/ Dispatch \/ DrainEnds
         \/ \E e \in Emits : Begins(e) \/ Sends(e)
<1> USE DEF procVars, pumpVars
<1>1. CASE TopStops
  BY <1>1 DEF TopStops, EmitsDie, Stream, Ended
<1>2. CASE TopExits
  BY <1>2 DEF TopExits, EmitsStay, Stream, Ended
<1>3. CASE Select
  BY <1>3 DEF Select, EmitsStay, Stream, Ended
<1>4. CASE ReadEmits
  BY <1>4, ReadsOn DEF ReadEmits, EmitsStay, Ended, Typed
<1>5. CASE Dispatch
  BY <1>5
<1>6. CASE EmitsRead
  BY <1>6 DEF EmitsRead, EmitsStay, Stream, Ended
<1>7. CASE Answer
  BY <1>7 DEF Answer, EmitsStay, Stream, Ended
<1>8. CASE CallsRead
  BY <1>8 DEF CallsRead, EmitsStay, Stream, Ended
<1>9. CASE Responds
  BY <1>9 DEF Responds, EmitsStay, Stream, Ended
<1>10. CASE RespondDrops
  BY <1>10 DEF RespondDrops, EmitsStay, Stream, Ended
<1>11. CASE Drain
  BY <1>11, ReadsOn DEF Drain, EmitsStay, Ended, Typed
<1>12. CASE DrainEnds
  BY <1>12
<1>13. CASE \E c \in Calls : Asks(c) \/ Reads(c) \/ HungUp(c) \/ Locks(c)
  <2>1. UNCHANGED <<sent, heard, elock, ebuf, recs, pc>>
    BY <1>13 DEF Asks, Reads, HungUp, Locks
  <2>2. \A e \in Emits : cmd'[e] = cmd[e]
    BY <1>13, ShellParameters DEF Asks, Reads, HungUp, Locks, Typed, ProcTypes
  <2> QED
    BY <2>1, <2>2 DEF EmitsStay, Stream, Ended
<1>14. CASE \E e \in Emits : Begins(e) \/ Sends(e)
  BY <1>14
<1>15. CASE \E p \in Calls \cup Emits : Kill(p)
  <2> PICK p \in Calls \cup Emits : Kill(p)
    BY <1>15
  <2>1. {p} \in SUBSET Active /\ Bury({p})
    BY DEF Kill
  <2> QED
    BY <2>1 DEF Kill, Lively, EmitsDie, Stream, Ended
<1>16. CASE TrapBegins
  BY <1>16 DEF TrapBegins, EmitsStay, Stream, Ended
<1>17. CASE Exits
  BY <1>17 DEF Exits, EmitsStay, Stream, Ended
<1>18. CASE DeadlinePasses
  BY <1>18 DEF DeadlinePasses, EmitsStay, Stream, Ended
<1>19. CASE HostCancels
  BY <1>19 DEF HostCancels, EmitsStay, Stream, Ended
<1>20. CASE UNCHANGED vars
  BY <1>20 DEF vars, EmitsStay, Stream, Ended
<1> QED
  BY <1>1, <1>2, <1>3, <1>4, <1>5, <1>6, <1>7, <1>8, <1>9, <1>10, <1>11, <1>12, <1>13,
       <1>14, <1>15, <1>16, <1>17, <1>18, <1>19, <1>20
  DEF Next, Pump, Command

\* The line that is dispatched is a record, or it begins with the half of a dead writer.
LEMMA LineTells ==
  ASSUME EmitTypes, Framed, Dispatch
  PROVE  LET L == LineEnd(ebuf)
         IN \/ L = 2 /\ Of(Line(ebuf)) = Stream[L].of
            \/ /\ L > 2 /\ Of(Line(ebuf)) = None
               /\ Stream[L - 2].of \in Emits /\ cmd[Stream[L - 2].of] = "dead"
               /\ Stream[L - 2] = Piece(Stream[L - 2].of, FALSE)
<1> DEFINE L == LineEnd(ebuf)
           line == Line(ebuf)
<1>1. /\ L \in 1..Len(ebuf) /\ L \in 1..Len(Stream)
      /\ Stream[L].end /\ \A m \in 1..(L - 1) : ~Stream[m].end
  BY Advances
<1>2. ebuf \in Seq(EmitPieces) /\ Len(ebuf) \in Nat /\ Len(Stream) \in Nat
  BY StreamTyped, LenProperties DEF EmitTypes
<1>3. L > 1 /\ Stream[L - 1] = Piece(Stream[L].of, FALSE)
  BY <1>1 DEF Framed
<1>4. /\ Len(line) = L /\ line \in Seq(EmitPieces)
      /\ \A i \in 1..L : line[i] = Stream[i]
  <2>1. \A i \in 1..L : ebuf[i] \in EmitPieces /\ Stream[i] = ebuf[i]
    BY <1>1, <1>2, StreamTyped, ElementOfSeq
  <2>2. /\ SubSeq(ebuf, 1, L) \in Seq(EmitPieces)
        /\ Len(SubSeq(ebuf, 1, L)) = IF 1 <= L THEN L - 1 + 1 ELSE 0
        /\ \A i \in 1..(L - 1 + 1) : SubSeq(ebuf, 1, L)[i] = ebuf[1 + i - 1]
    <3>1. 1 \in Int /\ L \in Int
      BY <1>1, <1>2
    <3> QED
      BY <2>1, <3>1, SubSeqProperties
  <2> HIDE DEF L
  <2>3. Len(SubSeq(ebuf, 1, L)) = L
    BY <1>1, <1>2, <2>2
  <2>4. ASSUME NEW i \in 1..L PROVE SubSeq(ebuf, 1, L)[i] = Stream[i]
    <3>1. i \in 1..(L - 1 + 1) /\ 1 + i - 1 = i
      BY <1>1, <1>2
    <3> QED
      BY <2>1, <2>2, <3>1
  <2> QED
    BY <2>2, <2>3, <2>4 DEF Line, L
<1> HIDE DEF L, line
<1>5. CASE L = 2
  <2>1. /\ line[1] = Piece(Stream[L].of, FALSE) /\ line[2] = Piece(Stream[L].of, TRUE)
    <3>1. Stream[L] = Piece(Stream[L].of, Stream[L].end) /\ Stream[L].end = TRUE
      <4>1. Stream[L] \in EmitPieces /\ Stream[L] = Piece(Stream[L].of, Stream[L].end)
        BY <1>1, StreamTyped
      <4> QED
        BY <1>1, <4>1 DEF EmitPieces
    <3>2. 1 \in 1..L /\ 2 \in 1..L /\ L - 1 = 1
      BY <1>5
    <3> QED
      BY <1>3, <1>4, <1>5, <3>1, <3>2
  <2> DEFINE p == Stream[L].of
  <2>2. p \in Emits
    BY <1>1 DEF Framed
  <2> HIDE DEF p
  <2>3. line = Whole(p)
    <3>1. /\ Whole(p) \in Seq(EmitPieces) /\ Len(Whole(p)) = 2
          /\ Whole(p)[1] = Piece(p, FALSE) /\ Whole(p)[2] = Piece(p, TRUE)
      BY <2>2 DEF Whole, Piece, EmitPieces
    <3>2. Len(line) = Len(Whole(p)) /\ \A i \in 1..Len(line) : line[i] = Whole(p)[i]
      <4>1. Len(line) = 2 /\ \A i \in 1..2 : i = 1 \/ i = 2
        BY <1>4, <1>5
      <4> QED
        BY <2>1, <3>1, <4>1 DEF p
    <3> QED
      BY <1>4, <3>1, <3>2, SeqEqual
  <2>4. Of(line) = p
    BY <2>3, WholeIsLine
  <2> QED
    BY <1>5, <2>4 DEF p, L, line
<1>6. CASE L # 2
  <2>1. L > 2 /\ L - 2 \in 1..Len(Stream) /\ L - 2 \in 1..(L - 1) /\ L - 2 # Len(Stream)
        /\ (L - 2) + 1 = L - 1 /\ L - 1 \in 1..(L - 1)
    BY <1>1, <1>2, <1>3, <1>6
  <2>2. ~Stream[L - 2].end /\ ~Stream[L - 1].end
    BY <1>1, <2>1
  <2>3. Stream[(L - 2) + 1] # Piece(Stream[L - 2].of, TRUE)
    BY <2>1, <2>2 DEF Piece
  <2>4. Stream[L - 2].of \in Emits /\ cmd[Stream[L - 2].of] = "dead"
    BY <2>1, <2>2, <2>3 DEF Framed
  <2>5. Stream[L - 2] = Piece(Stream[L - 2].of, FALSE)
    <3>1. Stream[L - 2] \in EmitPieces
          /\ Stream[L - 2] = Piece(Stream[L - 2].of, Stream[L - 2].end)
      BY <2>1, StreamTyped
    <3>2. Stream[L - 2].end = FALSE
      BY <2>2, <3>1 DEF EmitPieces
    <3> QED
      BY <3>1, <3>2
  <2>6. Of(line) = None
    <3>1. Len(line) # 2
      BY <1>4, <1>6
    <3>2. Len(Whole(line[1].of)) = 2
      BY DEF Whole
    <3> QED
      BY <3>1, <3>2 DEF Of
  <2> QED
    BY <2>1, <2>4, <2>5, <2>6 DEF L, line
<1> QED
  BY <1>5, <1>6

LEMMA InitEmits == Init => Ledger /\ Framed /\ InOrder /\ Covered /\ Drains
<1> SUFFICES ASSUME Init PROVE Ledger /\ Framed /\ InOrder /\ Covered /\ Drains
  OBVIOUS
<1>1. Stream = <<>> /\ ToSet(sent) = {} /\ ToSet(heard) = {} /\ ~Ended
  BY DEF Init, Stream, ToSet, Ended
<1>2. Ledger
  <2>1. Started = {}
    BY DEF Init, Started
  <2>2. \A e \in Emits : cmd[e] # "writing" /\ elock # e
    BY ShellParameters DEF Init
  <2>3. IsInjective(sent) /\ IsInjective(heard) /\ intime = {}
    BY DEF Init, IsInjective
  <2> QED
    BY <1>1, <2>1, <2>2, <2>3, FS_EmptySet DEF Ledger
<1>3. Framed
  BY <1>1 DEF Init, Framed
<1>4. InOrder
  BY <1>1 DEF Init, InOrder
<1>5. Covered
  <2>1. Lost = {} /\ Spent = {}
    BY <1>1 DEF Init, Lost, Spent, Dead
  <2> QED
    BY <1>1, <2>1, FS_EmptySet DEF Covered
<1>6. Drains
  BY DEF Init, Drains
<1> QED
  BY <1>2, <1>3, <1>4, <1>5, <1>6

\* One command is started at a time.
LEMMA StartsOne ==
  ASSUME Typed, [Next]_vars
  PROVE  \E p : Started' \subseteq Started \cup {p}
<1> USE DEF Typed, ProcTypes, Started, procVars, pumpVars
<1>1. CASE TopStops
  BY <1>1 DEF TopStops, Bury, Active
<1>2. CASE TopExits
  BY <1>2 DEF TopExits
<1>3. CASE Select
  BY <1>3 DEF Select
<1>4. CASE ReadEmits
  BY <1>4 DEF ReadEmits
<1>5. CASE Dispatch
  BY <1>5 DEF Dispatch, Relays
<1>6. CASE EmitsRead
  BY <1>6 DEF EmitsRead
<1>7. CASE Answer
  BY <1>7 DEF Answer, Relays
<1>8. CASE CallsRead
  BY <1>8 DEF CallsRead
<1>9. CASE Responds
  BY <1>9 DEF Responds
<1>10. CASE RespondDrops
  BY <1>10 DEF RespondDrops
<1>11. CASE Drain
  BY <1>11 DEF Drain
<1>12. CASE DrainEnds
  BY <1>12 DEF DrainEnds, Replay, Closes
<1>13. CASE \E c \in Calls : Asks(c)
  BY <1>13 DEF Asks, LockedToRead
<1>14. CASE \E c \in Calls : Reads(c)
  BY <1>14 DEF Reads
<1>15. CASE \E c \in Calls : HungUp(c)
  BY <1>15 DEF HungUp
<1>16. CASE \E e \in Emits : Sends(e)
  BY <1>16 DEF Sends
<1>17. CASE \E p \in Calls \cup Emits : Kill(p)
  BY <1>17 DEF Kill, Bury, Active
<1>18. CASE \E c \in Calls : Locks(c)
  <2> PICK c \in Calls : Locks(c)
    BY <1>18
  <2>1. Started' \subseteq Started \cup {c}
    BY DEF Locks, Started
  <2> QED
    BY <2>1
<1>19. CASE \E e \in Emits : Begins(e)
  <2> PICK e \in Emits : Begins(e)
    BY <1>19
  <2>1. Started' \subseteq Started \cup {e}
    BY DEF Begins, Started
  <2> QED
    BY <2>1
<1>20. CASE TrapBegins
  BY <1>20 DEF TrapBegins
<1>21. CASE Exits
  BY <1>21 DEF Exits
<1>22. CASE DeadlinePasses
  BY <1>22 DEF DeadlinePasses
<1>23. CASE HostCancels
  BY <1>23 DEF HostCancels
<1>24. CASE UNCHANGED vars
  BY <1>24 DEF vars
<1> QED
  BY <1>1, <1>2, <1>3, <1>4, <1>5, <1>6, <1>7, <1>8, <1>9, <1>10, <1>11, <1>12, <1>13,
       <1>14, <1>15, <1>16, <1>17, <1>18, <1>19, <1>20, <1>21, <1>22, <1>23, <1>24
  DEF Next, Pump, Command

\* What was sent in time is settled when the script ends.
LEMMA IntimeStep ==
  ASSUME [Next]_vars
  PROVE  intime' \in {intime, ToSet(sent)}
<1> USE DEF procVars, pumpVars
<1>1. CASE TopStops
  BY <1>1 DEF TopStops
<1>2. CASE TopExits
  BY <1>2 DEF TopExits
<1>3. CASE Select
  BY <1>3 DEF Select
<1>4. CASE ReadEmits
  BY <1>4 DEF ReadEmits
<1>5. CASE Dispatch
  BY <1>5 DEF Dispatch
<1>6. CASE EmitsRead
  BY <1>6 DEF EmitsRead
<1>7. CASE Answer
  BY <1>7 DEF Answer
<1>8. CASE CallsRead
  BY <1>8 DEF CallsRead
<1>9. CASE Responds
  BY <1>9 DEF Responds
<1>10. CASE RespondDrops
  BY <1>10 DEF RespondDrops
<1>11. CASE Drain
  BY <1>11 DEF Drain
<1>12. CASE DrainEnds
  BY <1>12 DEF DrainEnds
<1>13. CASE \E c \in Calls : Asks(c)
  BY <1>13 DEF Asks
<1>14. CASE \E c \in Calls : Reads(c)
  BY <1>14 DEF Reads
<1>15. CASE \E c \in Calls : HungUp(c)
  BY <1>15 DEF HungUp
<1>16. CASE \E e \in Emits : Sends(e)
  BY <1>16 DEF Sends
<1>17. CASE \E p \in Calls \cup Emits : Kill(p)
  BY <1>17 DEF Kill
<1>18. CASE \E c \in Calls : Locks(c)
  BY <1>18 DEF Locks
<1>19. CASE \E e \in Emits : Begins(e)
  BY <1>19 DEF Begins
<1>20. CASE TrapBegins
  BY <1>20 DEF TrapBegins
<1>21. CASE Exits
  BY <1>21 DEF Exits
<1>22. CASE DeadlinePasses
  BY <1>22 DEF DeadlinePasses
<1>23. CASE HostCancels
  BY <1>23 DEF HostCancels
<1>24. CASE UNCHANGED vars
  BY <1>24 DEF vars
<1> QED
  BY <1>1, <1>2, <1>3, <1>4, <1>5, <1>6, <1>7, <1>8, <1>9, <1>10, <1>11, <1>12, <1>13,
       <1>14, <1>15, <1>16, <1>17, <1>18, <1>19, <1>20, <1>21, <1>22, <1>23, <1>24
  DEF Next, Pump, Command

\* When the pump drains, the script is over.
LEMMA AfterScript ==
  ASSUME Drains, pc \in {"drain", "ended"}, [Next]_vars
  PROVE  UNCHANGED <<intime, script>> /\ pc' \in {"drain", "ended"}
<1> USE DEF Drains, procVars, pumpVars
<1>1. CASE TopStops
  BY <1>1 DEF TopStops, Bury
<1>2. CASE TopExits
  BY <1>2 DEF TopExits
<1>3. CASE Select
  BY <1>3 DEF Select
<1>4. CASE ReadEmits
  BY <1>4 DEF ReadEmits
<1>5. CASE Dispatch
  BY <1>5 DEF Dispatch, Relays
<1>6. CASE EmitsRead
  BY <1>6 DEF EmitsRead
<1>7. CASE Answer
  BY <1>7 DEF Answer, Relays
<1>8. CASE CallsRead
  BY <1>8 DEF CallsRead
<1>9. CASE Responds
  BY <1>9 DEF Responds
<1>10. CASE RespondDrops
  BY <1>10 DEF RespondDrops
<1>11. CASE Drain
  BY <1>11 DEF Drain
<1>12. CASE DrainEnds
  BY <1>12 DEF DrainEnds, Replay, Closes
<1>13. CASE \E c \in Calls : Asks(c)
  BY <1>13 DEF Asks, LockedToRead
<1>14. CASE \E c \in Calls : Reads(c)
  BY <1>14 DEF Reads
<1>15. CASE \E c \in Calls : HungUp(c)
  BY <1>15 DEF HungUp
<1>16. CASE \E e \in Emits : Sends(e)
  BY <1>16 DEF Sends
<1>17. CASE \E p \in Calls \cup Emits : Kill(p)
  BY <1>17 DEF Kill, Bury
<1>18. CASE \E c \in Calls : Locks(c)
  BY <1>18 DEF Locks
<1>19. CASE \E e \in Emits : Begins(e)
  BY <1>19 DEF Begins
<1>20. CASE TrapBegins
  BY <1>20 DEF TrapBegins
<1>21. CASE Exits
  BY <1>21 DEF Exits
<1>22. CASE DeadlinePasses
  BY <1>22 DEF DeadlinePasses
<1>23. CASE HostCancels
  BY <1>23 DEF HostCancels
<1>24. CASE UNCHANGED vars
  BY <1>24 DEF vars
<1> QED
  BY <1>1, <1>2, <1>3, <1>4, <1>5, <1>6, <1>7, <1>8, <1>9, <1>10, <1>11, <1>12, <1>13,
       <1>14, <1>15, <1>16, <1>17, <1>18, <1>19, <1>20, <1>21, <1>22, <1>23, <1>24
  DEF Next, Pump, Command

\* The books are kept by every step.
LEMMA LedgerStep ==
  ASSUME Typed, Ledger, Framed, [Next]_vars
  PROVE  Ledger'
<1> USE DEF Typed
<1>1. IsFiniteSet(Started')
  <2>1. PICK p : Started' \subseteq Started \cup {p}
    BY StartsOne
  <2>2. IsFiniteSet(Started \cup {p})
    BY FS_AddElement DEF Ledger
  <2> QED
    BY <2>1, <2>2, FS_Subset
<1>2. sent \in Seq(Emits) /\ heard \in Seq(Emits)
  BY DEF EmitTypes
<1>3. ToSet(sent) \subseteq ToSet(sent)' => intime' \subseteq ToSet(sent)'
  BY IntimeStep DEF Ledger
<1>4. CASE EmitsStay
  <2>1. ToSet(sent)' = ToSet(sent) /\ ToSet(heard)' = ToSet(heard) /\ ToSet(sent) \subseteq Emits
    BY <1>2, <1>4, InSet DEF EmitsStay
  <2> QED
    BY <1>1, <1>3, <1>4, <2>1 DEF EmitsStay, Ledger
<1>5. CASE EmitsDie
  <2>1. ToSet(sent)' = ToSet(sent) /\ ToSet(heard)' = ToSet(heard) /\ ToSet(sent) \subseteq Emits
    BY <1>2, <1>5, InSet DEF EmitsDie
  <2> PICK S \in SUBSET Active : Bury(S)
    BY <1>5 DEF EmitsDie
  <2>2. \A e \in Emits : cmd'[e] = "writing" <=> elock' = e
    BY ShellParameters DEF Ledger, Bury
  <2>3. \A e \in ToSet(sent)' : cmd'[e] = "done"
    BY <2>1 DEF Ledger, Bury, Active
  <2> QED
    BY <1>1, <1>3, <1>5, <2>1, <2>2, <2>3 DEF EmitsDie, Ledger
<1>6. CASE Dispatch
  <2>1. UNCHANGED <<sent, cmd, elock>>
    BY <1>6 DEF Dispatch, procVars
  <2>2. IsInjective(heard') /\ ToSet(heard') \subseteq ToSet(sent)
    <3>1. CASE UNCHANGED heard
      BY <3>1 DEF Ledger
    <3>2. CASE ~UNCHANGED heard
      <4> DEFINE e == Of(Line(ebuf))
      <4>1. e # None /\ heard' = Append(heard, e)
        BY <1>6, <3>2 DEF Dispatch
      <4>2. e \in Emits /\ e \in ToSet(sent) \ ToSet(heard)
        <5>1. LineEnd(ebuf) \in 1..Len(Stream) /\ Stream[LineEnd(ebuf)].end
          BY <1>6, Advances
        <5>2. e = Stream[LineEnd(ebuf)].of
          BY <1>6, <4>1, LineTells
        <5> QED
          BY <5>1, <5>2 DEF Framed
      <4> HIDE DEF e
      <4> QED
        BY <1>2, <4>1, <4>2, InjectiveAppend, InSetAppend DEF Ledger
    <3> QED
      BY <3>1, <3>2
  <2>3. ToSet(sent)' = ToSet(sent) /\ ToSet(heard)' = ToSet(heard')
    BY <2>1
  <2> QED
    BY <1>1, <1>3, <2>1, <2>2, <2>3 DEF Ledger
<1>7. CASE DrainEnds
  <2>1. UNCHANGED <<sent, heard, cmd, elock>>
    BY <1>7 DEF DrainEnds, procVars
  <2>2. ToSet(sent)' = ToSet(sent) /\ ToSet(heard)' = ToSet(heard)
    BY <2>1
  <2> QED
    BY <1>1, <1>3, <2>1, <2>2 DEF Ledger
<1>8. ASSUME NEW e \in Emits, Begins(e) PROVE Ledger'
  <2>1. UNCHANGED <<sent, heard>>
    BY <1>8 DEF Begins, pumpVars
  <2>2. ToSet(sent)' = ToSet(sent) /\ ToSet(heard)' = ToSet(heard) /\ ToSet(sent) \subseteq Emits
    BY <1>2, <2>1, InSet
  <2>3. \A x \in Emits : cmd'[x] = "writing" <=> elock' = x
    BY <1>8, ShellParameters DEF Ledger, Begins, ProcTypes
  <2>4. \A x \in ToSet(sent)' : cmd'[x] = "done"
    BY <1>8, <2>2 DEF Ledger, Begins, ProcTypes
  <2> QED
    BY <1>1, <1>3, <2>1, <2>2, <2>3, <2>4 DEF Ledger
<1>9. ASSUME NEW e \in Emits, Sends(e) PROVE Ledger'
  <2>1. UNCHANGED heard /\ (UNCHANGED sent \/ sent' = Append(sent, e))
    BY <1>9 DEF Sends, pumpVars
  <2>2. e \notin ToSet(sent)
    BY <1>9 DEF Sends, Ledger
  <2>3. /\ IsInjective(sent') /\ ToSet(sent) \subseteq ToSet(sent')
        /\ ToSet(sent') \subseteq ToSet(sent) \cup {e}
    <3>1. CASE UNCHANGED sent
      BY <3>1 DEF Ledger
    <3>2. CASE sent' = Append(sent, e)
      <4>1. IsInjective(Append(sent, e)) /\ ToSet(Append(sent, e)) = ToSet(sent) \cup {e}
        BY <1>2, <2>2, InSetAppend, InjectiveAppend DEF Ledger
      <4> QED
        BY <3>2, <4>1
    <3> QED
      BY <2>1, <3>1, <3>2
  <2>4. ToSet(sent)' = ToSet(sent') /\ ToSet(heard)' = ToSet(heard) /\ ToSet(sent) \subseteq Emits
    BY <1>2, <2>1, InSet
  <2>5. \A x \in Emits : cmd'[x] = "writing" <=> elock' = x
    BY <1>9, ShellParameters DEF Ledger, Sends, ProcTypes
  <2>6. \A x \in ToSet(sent') : cmd'[x] = "done"
    BY <1>9, <2>3, <2>4 DEF Ledger, Sends, ProcTypes
  <2> QED
    BY <1>1, <1>3, <2>1, <2>3, <2>4, <2>5, <2>6 DEF Ledger
<1> QED
  BY <1>4, <1>5, <1>6, <1>7, <1>8, <1>9, EmitKinds

\* What a place of the stream shows: the writer, and what comes before or after it.
Placed(n) ==
  /\ Stream[n].of \in Emits /\ cmd[Stream[n].of] # "new"
  /\ Stream[n].end => /\ n > 1 /\ Stream[n - 1] = Piece(Stream[n].of, FALSE)
                      /\ Stream[n].of \in ToSet(sent) \ ToSet(heard)
  /\ ~Stream[n].end => \/ n < Len(Stream) /\ Stream[n + 1] = Piece(Stream[n].of, TRUE)
                       \/ cmd[Stream[n].of] = "dead"
                       \/ n = Len(Stream) /\ elock = Stream[n].of

LEMMA FramedIsPlaced ==
  Framed <=>
    /\ Ended => Stream = <<>>
    /\ ~Ended /\ elock # None => Stream # <<>> /\ Stream[Len(Stream)] = Piece(elock, FALSE)
    /\ \A n \in 1..Len(Stream) : Placed(n)
    /\ \A m, n \in 1..Len(Stream) : Stream[m] = Stream[n] => m = n
BY DEF Framed, Placed

\* A writer that dies leaves its half the last of the stream, or followed by another's.
LEMMA DieFramed ==
  ASSUME Typed, Framed, EmitsDie
  PROVE  Framed'
<1> PICK S \in SUBSET Active : Bury(S)
  BY DEF EmitsDie
<1>1. ToSet(sent)' = ToSet(sent) /\ ToSet(heard)' = ToSet(heard)
  BY DEF EmitsDie
<1>2. Stream' = Stream /\ ~Ended /\ ~Ended' /\ elock' \in {elock, None}
  BY DEF EmitsDie, Bury
<1>3. \A e \in Emits : /\ cmd[e] # "new" => cmd'[e] # "new"
                       /\ cmd[e] = "dead" => cmd'[e] = "dead"
                       /\ elock = e => elock' = e \/ cmd'[e] = "dead"
  BY DEF Bury
<1>4. ASSUME NEW n \in 1..Len(Stream) PROVE Placed(n)'
  BY <1>1, <1>2, <1>3 DEF Framed, Placed
<1>5. Ended' => Stream' = <<>>
  BY <1>2
<1>6. ~Ended' /\ elock' # None => Stream' # <<>> /\ Stream'[Len(Stream')] = Piece(elock', FALSE)
  BY <1>2 DEF Framed
<1>7. \A m, n \in 1..Len(Stream') : Stream'[m] = Stream'[n] => m = n
  BY <1>2 DEF Framed
<1>8. \A n \in 1..Len(Stream') : Placed(n)'
  BY <1>2, <1>4
<1> QED
  BY <1>5, <1>6, <1>7, <1>8 DEF Framed, Placed

\* A writer that begins finds the lock free, and its half is the last.
LEMMA BeginsFramed ==
  ASSUME Typed, Ledger, Framed, NEW e \in Emits, Begins(e)
  PROVE  Framed'
<1> USE DEF Typed
<1>1. /\ Len(Stream') = Len(Stream) + 1 /\ Stream'[Len(Stream) + 1] = Piece(e, FALSE)
      /\ \A n \in 1..Len(Stream) : Stream'[n] = Stream[n]
  BY Pushes DEF Begins, pumpVars
<1>2. Len(Stream) \in Nat
  BY StreamTyped
<1>3. /\ ~Ended /\ ~Ended' /\ elock = None /\ elock' = e /\ cmd[e] = "new"
      /\ cmd'[e] = "writing" /\ \A x \in Emits : x # e => cmd'[x] = cmd[x]
  BY DEF Begins, MayStart, Lively, Ended, pumpVars, ProcTypes
<1>4. ToSet(sent)' = ToSet(sent) /\ ToSet(heard)' = ToSet(heard)
  BY DEF Begins, pumpVars
<1>5. \A n \in 1..Len(Stream) : Stream[n].of # e
  BY <1>3 DEF Framed
<1>6. Piece(e, FALSE).of = e /\ Piece(e, FALSE).end = FALSE
  BY DEF Piece
<1>7. ASSUME NEW n \in 1..Len(Stream') PROVE Placed(n)'
  <2>1. CASE n = Len(Stream) + 1
    BY <1>1, <1>3, <1>6, <2>1 DEF Placed
  <2>2. CASE n # Len(Stream) + 1
    <3>1. n \in 1..Len(Stream) /\ n < Len(Stream') /\ n < Len(Stream) + 1
      BY <1>1, <1>2, <2>2
    <3>2. Stream'[n] = Stream[n] /\ Placed(n) /\ Stream[n].of # e
      BY <1>1, <1>5, <3>1 DEF Framed, Placed
    <3>3. n > 1 => n - 1 \in 1..Len(Stream)
      BY <1>2, <3>1
    <3>4. n > 1 => Stream'[n - 1] = Stream[n - 1]
      BY <1>1, <3>3
    <3>5. n < Len(Stream) => n + 1 \in 1..Len(Stream)
      BY <1>2, <3>1
    <3>6. n < Len(Stream) => Stream'[n + 1] = Stream[n + 1]
      BY <1>1, <3>5
    <3>7. elock # Stream[n].of
      BY <1>3, <3>2, ShellParameters DEF Placed
    <3> QED
      BY <1>3, <1>4, <3>1, <3>2, <3>4, <3>6, <3>7 DEF Placed
  <2> QED
    BY <2>1, <2>2
<1>8. ASSUME NEW m \in 1..Len(Stream'), NEW n \in 1..Len(Stream'), Stream'[m] = Stream'[n]
      PROVE  m = n
  <2>1. /\ m \in 1..Len(Stream) \/ m = Len(Stream) + 1
        /\ n \in 1..Len(Stream) \/ n = Len(Stream) + 1
    BY <1>1, <1>2
  <2>2. \A i, j \in 1..Len(Stream) : Stream[i] = Stream[j] => i = j
    BY DEF Framed
  <2> QED
    BY <1>1, <1>5, <1>6, <1>8, <2>1, <2>2
<1>9. Stream' # <<>> /\ Stream'[Len(Stream')] = Piece(elock', FALSE)
  BY <1>1, <1>2, <1>3, EmptySeq
<1> QED
  BY <1>3, <1>7, <1>8, <1>9 DEF Framed, Placed

\* A writer that ends finds its half the last, and has not sent yet.
LEMMA SendsFramed ==
  ASSUME Typed, Ledger, Framed, NEW e \in Emits, Sends(e), ~Ended
  PROVE  Framed'
<1> USE DEF Typed
<1>1. /\ Len(Stream') = Len(Stream) + 1 /\ Stream'[Len(Stream) + 1] = Piece(e, TRUE)
      /\ \A n \in 1..Len(Stream) : Stream'[n] = Stream[n]
  BY Pushes DEF Sends, pumpVars
<1>2. Len(Stream) \in Nat
  BY StreamTyped
<1>3. /\ ~Ended' /\ elock = e /\ elock' = None /\ cmd[e] = "writing" /\ cmd'[e] = "done"
      /\ \A x \in Emits : x # e => cmd'[x] = cmd[x]
  BY DEF Sends, Ended, pumpVars, ProcTypes, Ledger
<1>4. ToSet(sent)' = ToSet(sent) \cup {e} /\ ToSet(heard)' = ToSet(heard)
  <2>1. sent' = Append(sent, e) /\ UNCHANGED heard
    BY DEF Sends, pumpVars
  <2> QED
    BY <2>1, InSetAppend DEF EmitTypes
<1>5. e \notin ToSet(sent) /\ e \notin ToSet(heard)
  BY <1>3 DEF Ledger
<1>6. Piece(e, TRUE).of = e /\ Piece(e, TRUE).end = TRUE /\ Piece(e, FALSE).of = e
  BY DEF Piece
<1>7. Len(Stream) \in 1..Len(Stream) /\ Stream[Len(Stream)] = Piece(e, FALSE)
  <2>1. Stream # <<>> /\ Stream[Len(Stream)] = Piece(e, FALSE)
    BY <1>3, ShellParameters DEF Framed
  <2>2. Len(Stream) # 0
    BY <2>1, StreamTyped, EmptySeq
  <2> QED
    BY <1>2, <2>1, <2>2
<1>8. ASSUME NEW n \in 1..Len(Stream') PROVE Placed(n)'
  <2>1. CASE n = Len(Stream) + 1
    <3>1. n > 1 /\ n - 1 = Len(Stream)
      BY <1>2, <1>7, <2>1
    <3> QED
      BY <1>1, <1>3, <1>4, <1>5, <1>6, <1>7, <2>1, <3>1 DEF Placed
  <2>2. CASE n # Len(Stream) + 1
    <3>1. n \in 1..Len(Stream) /\ n < Len(Stream')
      BY <1>1, <1>2, <2>2
    <3>2. Stream'[n] = Stream[n] /\ Placed(n)
      BY <1>1, <3>1 DEF Framed, Placed
    <3>3. n > 1 => n - 1 \in 1..Len(Stream)
      BY <1>2, <3>1
    <3>4. n > 1 => Stream'[n - 1] = Stream[n - 1]
      BY <1>1, <3>3
    <3>5. n < Len(Stream) => n + 1 \in 1..Len(Stream)
      BY <1>2, <3>1
    <3>6. n < Len(Stream) => Stream'[n + 1] = Stream[n + 1]
      BY <1>1, <3>5
    <3>7. n = Len(Stream) => Stream'[n + 1] = Piece(Stream[n].of, TRUE)
      BY <1>1, <1>6, <1>7
    <3>8. cmd'[Stream[n].of] # "new"
      BY <1>3, <3>2 DEF Placed
    <3>9. cmd[Stream[n].of] = "dead" => cmd'[Stream[n].of] = "dead"
      BY <1>3, <3>2 DEF Placed
    <3> QED
      BY <1>4, <1>5, <3>1, <3>2, <3>4, <3>6, <3>7, <3>8, <3>9 DEF Placed
  <2> QED
    BY <2>1, <2>2
<1>9. ASSUME NEW m \in 1..Len(Stream'), NEW n \in 1..Len(Stream'), Stream'[m] = Stream'[n]
      PROVE  m = n
  <2>1. /\ m \in 1..Len(Stream) \/ m = Len(Stream) + 1
        /\ n \in 1..Len(Stream) \/ n = Len(Stream) + 1
    BY <1>1, <1>2
  <2>2. \A i, j \in 1..Len(Stream) : Stream[i] = Stream[j] => i = j
    BY DEF Framed
  <2>3. \A i \in 1..Len(Stream) : Stream[i] # Piece(e, TRUE)
    BY <1>5, <1>6 DEF Framed
  <2> QED
    BY <1>1, <1>9, <2>1, <2>2, <2>3
<1> QED
  BY <1>3, <1>8, <1>9 DEF Framed, Placed

\* The head of the stream goes.
LEMMA DispatchFramed ==
  ASSUME Typed, Ledger, Framed, Dispatch
  PROVE  Framed'
<1> USE DEF Typed
<1> DEFINE L == LineEnd(ebuf)
<1>1. /\ L \in 1..Len(Stream) /\ Stream[L].end
      /\ Len(Stream') = Len(Stream) - L
      /\ \A n \in 1..(Len(Stream) - L) : Stream'[n] = Stream[n + L]
  BY Advances
<1>2. Len(Stream) \in Nat
  BY StreamTyped
<1>3. UNCHANGED <<cmd, elock, sent>> /\ ~Ended /\ ~Ended'
  BY DEF Dispatch, procVars, Ended
<1>4. ToSet(sent)' = ToSet(sent) /\ ToSet(heard)' \subseteq ToSet(heard) \cup {Stream[L].of}
  <2>1. CASE UNCHANGED heard
    BY <1>3, <2>1
  <2>2. CASE ~UNCHANGED heard
    <3> DEFINE e == Of(Line(ebuf))
    <3>1. e # None /\ heard' = Append(heard, e)
      BY <2>2 DEF Dispatch
    <3>2. e = Stream[L].of
      BY <3>1, LineTells
    <3> HIDE DEF e
    <3>3. e \in Emits /\ heard \in Seq(Emits)
      <4> HIDE DEF L
      <4>1. Stream[L].of \in Emits
        BY <1>1 DEF Framed
      <4> QED
        BY <3>2, <4>1 DEF EmitTypes
    <3>4. ToSet(Append(heard, e)) = ToSet(heard) \cup {e}
      BY <3>3, InSetAppend
    <3> QED
      BY <1>3, <3>1, <3>2, <3>4
  <2> QED
    BY <2>1, <2>2
<1> HIDE DEF L
<1>5. \A m, n \in 1..Len(Stream) : Stream[m] = Stream[n] => m = n
  BY DEF Framed
<1>6. ASSUME NEW n \in 1..Len(Stream') PROVE Placed(n)'
  <2>1. n + L \in 1..Len(Stream) /\ n \in 1..(Len(Stream) - L) /\ n + L # L
    BY <1>1, <1>2
  <2>2. Stream'[n] = Stream[n + L] /\ Placed(n + L)
    BY <1>1, <2>1 DEF Framed, Placed
  <2>3. ASSUME Stream[n + L].end
        PROVE  n > 1 /\ Stream'[n - 1] = Stream[(n + L) - 1]
    <3>1. n # 1
      <4>1. CASE n = 1
        <5>1. (n + L) - 1 = L
          BY <1>1, <1>2, <4>1
        <5>2. Stream[L] = Piece(Stream[n + L].of, FALSE)
          BY <2>2, <2>3, <5>1 DEF Placed
        <5> QED
          BY <1>1, <5>2 DEF Piece
      <4> QED
        BY <4>1
    <3>2. n > 1 /\ n - 1 \in 1..(Len(Stream) - L) /\ (n - 1) + L = (n + L) - 1
      BY <1>1, <1>2, <2>1, <3>1
    <3> QED
      BY <1>1, <3>2
  <2>4. ASSUME Stream[n + L].end
        PROVE  Stream[n + L].of # Stream[L].of
    <3>1. /\ Stream[L] = Piece(Stream[L].of, Stream[L].end) /\ Stream[L].end \in BOOLEAN
          /\ Stream[n + L] = Piece(Stream[n + L].of, Stream[n + L].end)
          /\ Stream[n + L].end \in BOOLEAN
      BY <1>1, <2>1, StreamTyped DEF EmitPieces
    <3>2. Stream[n + L] # Stream[L]
      BY <1>1, <1>5, <2>1
    <3> QED
      BY <1>1, <2>4, <3>1, <3>2
  <2>5. ASSUME n + L < Len(Stream)
        PROVE  n < Len(Stream') /\ Stream'[n + 1] = Stream[(n + L) + 1]
    <3>1. n < Len(Stream') /\ n + 1 \in 1..(Len(Stream) - L) /\ (n + 1) + L = (n + L) + 1
      BY <1>1, <1>2, <2>1, <2>5
    <3> QED
      BY <1>1, <3>1
  <2>6. n + L = Len(Stream) => n = Len(Stream')
    <3>1. L \in Nat /\ n \in Nat /\ Len(Stream') = Len(Stream) - L
      BY <1>1, <1>2, <2>1
    <3> QED
      BY <1>2, <3>1
  <2> QED
    BY <1>3, <1>4, <2>2, <2>3, <2>4, <2>5, <2>6 DEF Placed
<1>7. ASSUME NEW m \in 1..Len(Stream'), NEW n \in 1..Len(Stream'), Stream'[m] = Stream'[n]
      PROVE  m = n
  <2>1. m + L \in 1..Len(Stream) /\ n + L \in 1..Len(Stream)
    BY <1>1, <1>2
  <2>2. Stream[m + L] = Stream[n + L]
    BY <1>1, <1>7
  <2>3. m + L = n + L
    BY <1>5, <2>1, <2>2
  <2> QED
    BY <1>1, <1>2, <2>3
<1>8. elock' # None => Stream' # <<>> /\ Stream'[Len(Stream')] = Piece(elock', FALSE)
  <2> SUFFICES ASSUME elock # None
               PROVE  Stream' # <<>> /\ Stream'[Len(Stream')] = Piece(elock, FALSE)
    BY <1>3
  <2>1. Stream[Len(Stream)] = Piece(elock, FALSE)
    BY <1>3 DEF Framed
  <2>2. L # Len(Stream)
    BY <1>1, <2>1 DEF Piece
  <2>3. Len(Stream') \in 1..(Len(Stream) - L) /\ Len(Stream') + L = Len(Stream)
    BY <1>1, <1>2, <2>2
  <2>4. Stream' # <<>>
    BY <2>3, EmptySeq
  <2> QED
    BY <1>1, <2>1, <2>3, <2>4
<1> QED
  BY <1>3, <1>6, <1>7, <1>8 DEF Framed, Placed

\* The stream stays framed.
LEMMA FramedStep ==
  ASSUME Typed, Ledger, Framed, [Next]_vars
  PROVE  Framed'
<1>1. CASE EmitsStay
  <2>1. UNCHANGED <<sent, heard, elock>> /\ Stream' = Stream /\ (Ended' <=> Ended)
    BY <1>1 DEF EmitsStay
  <2>2. \A n \in 1..Len(Stream') : Placed(n)'
    BY <1>1 DEF EmitsStay, Framed, Placed
  <2>3. \A m, n \in 1..Len(Stream') : Stream'[m] = Stream'[n] => m = n
    BY <2>1 DEF Framed
  <2>4. /\ Ended' => Stream' = <<>>
        /\ ~Ended' /\ elock' # None => /\ Stream' # <<>>
                                       /\ Stream'[Len(Stream')] = Piece(elock', FALSE)
    BY <2>1 DEF Framed
  <2> QED
    BY <2>2, <2>3, <2>4 DEF Framed, Placed
<1>2. CASE EmitsDie
  BY <1>2, DieFramed
<1>3. CASE Dispatch
  BY <1>3, DispatchFramed
<1>4. CASE DrainEnds
  <2>1. ebuf' = <<>> /\ recs' = <<>> /\ Ended'
    BY <1>4 DEF DrainEnds, Closes, Ended
  <2>2. Stream' = <<>>
    BY <2>1 DEF Stream
  <2> QED
    BY <2>1, <2>2 DEF Framed
<1>5. ASSUME NEW e \in Emits, Begins(e) PROVE Framed'
  BY <1>5, BeginsFramed
<1>6. ASSUME NEW e \in Emits, Sends(e) PROVE Framed'
  <2>1. CASE Ended
    <3>1. Ended' /\ UNCHANGED <<ebuf, recs>>
      BY <1>6, <2>1 DEF Sends, pumpVars, Ended
    <3>2. Stream' = <<>>
      BY <2>1, <3>1 DEF Stream, Framed
    <3> QED
      BY <3>1, <3>2 DEF Framed
  <2> QED
    BY <1>6, <2>1, SendsFramed
<1> QED
  BY <1>1, <1>2, <1>3, <1>4, <1>5, <1>6, EmitKinds

\* What is sent comes after all that was.
LEMMA SentLast ==
  ASSUME NEW S, NEW s \in Seq(S), NEW e \in S
  PROVE  /\ \A a, b : Before(s, a, b) => Before(Append(s, e), a, b)
         /\ \A a \in ToSet(s) : Before(Append(s, e), a, e)
<1> DEFINE t == Append(s, e)
<1>1. /\ t \in Seq(S) /\ Len(t) = Len(s) + 1 /\ t[Len(s) + 1] = e
      /\ \A i \in 1..Len(s) : t[i] = s[i]
  BY AppendProperties
<1>2. Len(s) \in Nat
  BY LenProperties
<1> HIDE DEF t
<1>3. ASSUME NEW a, NEW b, Before(s, a, b) PROVE Before(t, a, b)
  <2>1. PICK m \in 1..Len(s), n \in 1..Len(s) : m < n /\ s[m] = a /\ s[n] = b
    BY <1>3 DEF Before
  <2>2. m \in 1..Len(t) /\ n \in 1..Len(t) /\ t[m] = a /\ t[n] = b
    BY <1>1, <1>2, <2>1
  <2> QED
    BY <2>1, <2>2 DEF Before
<1>4. ASSUME NEW a \in ToSet(s) PROVE Before(t, a, e)
  <2>1. PICK m \in 1..Len(s) : s[m] = a
    BY InSet
  <2>2. /\ m \in 1..Len(t) /\ Len(s) + 1 \in 1..Len(t) /\ m < Len(s) + 1
        /\ t[m] = a /\ t[Len(s) + 1] = e
    BY <1>1, <1>2, <2>1
  <2> QED
    BY <2>2 DEF Before
<1> QED
  BY <1>3, <1>4 DEF t

\* What was heard and what is on its way come in the order of the sends.
LEMMA OrderStep ==
  ASSUME Typed, Ledger, Framed, InOrder, [Next]_vars
  PROVE  InOrder'
<1> USE DEF Typed
<1>1. Len(Stream) \in Nat /\ Len(heard) \in Nat /\ heard \in Seq(Emits) /\ sent \in Seq(Emits)
  BY StreamTyped, LenProperties DEF EmitTypes
<1>2. CASE Stream' = Stream /\ UNCHANGED <<sent, heard>>
  BY <1>2 DEF InOrder
<1>3. CASE Dispatch
  <2> DEFINE L == LineEnd(ebuf)
             e == Of(Line(ebuf))
  <2>1. /\ L \in 1..Len(Stream) /\ Stream[L].end
        /\ Len(Stream') = Len(Stream) - L
        /\ \A n \in 1..(Len(Stream) - L) : Stream'[n] = Stream[n + L]
    BY <1>3, Advances
  <2>2. UNCHANGED sent
    BY <1>3 DEF Dispatch, procVars
  <2>3. \/ UNCHANGED heard
        \/ e = Stream[L].of /\ heard' = Append(heard, e)
    BY <1>3, LineTells DEF Dispatch
  <2> HIDE DEF L, e
  <2>4. ASSUME NEW n \in 1..Len(Stream')
        PROVE  n + L \in 1..Len(Stream) /\ L < n + L /\ Stream'[n] = Stream[n + L]
    BY <1>1, <2>1
  <2>5. ASSUME NEW m \in 1..Len(Stream'), NEW n \in 1..Len(Stream'),
               m < n, Stream'[m].end, Stream'[n].end
        PROVE  Before(sent, Stream'[m].of, Stream'[n].of)
    <3>1. m + L < n + L
      BY <1>1, <2>1, <2>5
    <3>2. /\ m + L \in 1..Len(Stream) /\ n + L \in 1..Len(Stream)
          /\ Stream'[m] = Stream[m + L] /\ Stream'[n] = Stream[n + L]
      BY <2>4
    <3> QED
      BY <2>5, <3>1, <3>2 DEF InOrder
  <2>6. CASE UNCHANGED heard
    <3>1. ASSUME NEW i \in 1..Len(heard), NEW n \in 1..Len(Stream'), Stream'[n].end
          PROVE  Before(sent, heard[i], Stream'[n].of)
      BY <2>4, <3>1 DEF InOrder
    <3> QED
      BY <2>2, <2>5, <2>6, <3>1 DEF InOrder
  <2>7. CASE e = Stream[L].of /\ heard' = Append(heard, e)
    <3>1. e \in Emits
      BY <2>1, <2>7 DEF Framed
    <3>2. /\ Len(heard') = Len(heard) + 1 /\ heard'[Len(heard) + 1] = Stream[L].of
          /\ \A i \in 1..Len(heard) : heard'[i] = heard[i]
      BY <1>1, <2>7, <3>1, AppendProperties
    <3>3. \A i \in 1..Len(heard') : i \in 1..Len(heard) \/ i = Len(heard) + 1
      BY <1>1, <3>2
    <3>4. ASSUME NEW i \in 1..Len(heard'), NEW n \in 1..Len(Stream'), Stream'[n].end
          PROVE  Before(sent, heard'[i], Stream'[n].of)
      <4>1. CASE i \in 1..Len(heard)
        BY <2>4, <3>2, <3>4, <4>1 DEF InOrder
      <4>2. CASE i = Len(heard) + 1
        BY <2>1, <2>4, <3>2, <3>4, <4>2 DEF InOrder
      <4> QED
        BY <3>3, <4>1, <4>2
    <3>5. ASSUME NEW i \in 1..Len(heard'), NEW j \in 1..Len(heard'), i < j
          PROVE  Before(sent, heard'[i], heard'[j])
      <4>1. i \in 1..Len(heard)
        BY <1>1, <3>2, <3>5
      <4>2. CASE j \in 1..Len(heard)
        BY <3>2, <3>5, <4>1, <4>2 DEF InOrder
      <4>3. CASE j = Len(heard) + 1
        BY <2>1, <3>2, <4>1, <4>3 DEF InOrder
      <4> QED
        BY <3>3, <4>2, <4>3
    <3> QED
      BY <2>2, <2>5, <3>4, <3>5 DEF InOrder
  <2> QED
    BY <2>3, <2>6, <2>7
<1>4. CASE DrainEnds
  <2>1. UNCHANGED <<sent, heard>> /\ Stream' = <<>>
    BY <1>4 DEF DrainEnds, Closes, Stream, procVars
  <2> QED
    BY <2>1 DEF InOrder
<1>5. ASSUME NEW e \in Emits, Begins(e) PROVE InOrder'
  <2>1. /\ Len(Stream') = Len(Stream) + 1 /\ Stream'[Len(Stream) + 1] = Piece(e, FALSE)
        /\ \A n \in 1..Len(Stream) : Stream'[n] = Stream[n]
    BY <1>5, Pushes DEF Begins, pumpVars
  <2>2. UNCHANGED <<sent, heard>>
    BY <1>5 DEF Begins, pumpVars
  <2>3. ASSUME NEW n \in 1..Len(Stream'), Stream'[n].end
        PROVE  n \in 1..Len(Stream) /\ Stream'[n] = Stream[n]
    <3>1. n # Len(Stream) + 1
      BY <2>1, <2>3 DEF Piece
    <3>2. n \in 1..Len(Stream)
      BY <1>1, <2>1, <3>1
    <3> QED
      BY <2>1, <3>2
  <2> QED
    BY <2>2, <2>3 DEF InOrder
<1>6. ASSUME NEW e \in Emits, Sends(e), ~Ended PROVE InOrder'
  <2>1. /\ Len(Stream') = Len(Stream) + 1 /\ Stream'[Len(Stream) + 1] = Piece(e, TRUE)
        /\ \A n \in 1..Len(Stream) : Stream'[n] = Stream[n]
    BY <1>6, Pushes DEF Sends, pumpVars
  <2>2. UNCHANGED heard /\ sent' = Append(sent, e)
    BY <1>6 DEF Sends, pumpVars
  <2>3. /\ \A a, b : Before(sent, a, b) => Before(sent', a, b)
        /\ \A a \in ToSet(sent) : Before(sent', a, e)
    BY <1>1, <2>2, SentLast
  <2>4. \A i \in 1..Len(heard) : heard[i] \in ToSet(sent)
    BY <1>1, InSet DEF Ledger
  <2>5. Piece(e, TRUE).of = e
    BY DEF Piece
  <2>6. ASSUME NEW n \in 1..Len(Stream')
        PROVE  \/ n \in 1..Len(Stream) /\ Stream'[n] = Stream[n]
               \/ n = Len(Stream) + 1
    BY <1>1, <2>1
  <2>7. ASSUME NEW i \in 1..Len(heard), NEW n \in 1..Len(Stream'), Stream'[n].end
        PROVE  Before(sent', heard[i], Stream'[n].of)
    <3>1. CASE n = Len(Stream) + 1
      BY <2>1, <2>3, <2>4, <2>5, <3>1
    <3>2. CASE n \in 1..Len(Stream) /\ Stream'[n] = Stream[n]
      BY <2>3, <2>7, <3>2 DEF InOrder
    <3> QED
      BY <2>6, <3>1, <3>2
  <2>8. ASSUME NEW m \in 1..Len(Stream'), NEW n \in 1..Len(Stream'),
               m < n, Stream'[m].end, Stream'[n].end
        PROVE  Before(sent', Stream'[m].of, Stream'[n].of)
    <3>1. m \in 1..Len(Stream) /\ Stream'[m] = Stream[m]
      BY <1>1, <2>1, <2>8
    <3>2. CASE n = Len(Stream) + 1
      <4>1. Stream[m].of \in ToSet(sent)
        BY <2>8, <3>1 DEF Framed
      <4> QED
        BY <2>1, <2>3, <2>5, <3>1, <3>2, <4>1
    <3>3. CASE n \in 1..Len(Stream) /\ Stream'[n] = Stream[n]
      BY <2>3, <2>8, <3>1, <3>3 DEF InOrder
    <3> QED
      BY <2>6, <3>2, <3>3
  <2>9. \A i, j \in 1..Len(heard) : i < j => Before(sent', heard[i], heard[j])
    BY <2>3 DEF InOrder
  <2> QED
    BY <2>2, <2>7, <2>8, <2>9 DEF InOrder
<1>7. ASSUME NEW e \in Emits, Sends(e), Ended PROVE InOrder'
  <2>1. UNCHANGED <<sent, heard, ebuf, recs>>
    BY <1>7 DEF Sends, pumpVars
  <2> QED
    BY <1>2, <2>1 DEF Stream
<1> QED
  BY <1>2, <1>3, <1>4, <1>5, <1>6, <1>7, EmitKinds DEF EmitsStay, EmitsDie

\* What is in a pipe was there, or is new.
LEMMA PipeGrows ==
  ASSUME NEW S, NEW r \in Seq(S), NEW p \in S
  PROVE  \A n \in 1..Len(Append(r, p)) :
           (\E i \in 1..Len(r) : Append(r, p)[n] = r[i]) \/ Append(r, p)[n] = p
<1> DEFINE t == Append(r, p)
<1>1. /\ Len(t) = Len(r) + 1 /\ t[Len(r) + 1] = p
      /\ \A i \in 1..Len(r) : t[i] = r[i]
  BY AppendProperties
<1>2. Len(r) \in Nat
  BY LenProperties
<1> HIDE DEF t
<1>3. \A n \in 1..Len(t) : n \in 1..Len(r) \/ n = Len(r) + 1
  BY <1>1, <1>2
<1>4. \A n \in 1..Len(t) : (\E i \in 1..Len(r) : t[n] = r[i]) \/ t[n] = p
  BY <1>1, <1>3
<1> QED
  BY <1>4 DEF t

\* What the drain has not read is not of the script's time.
LEMMA DrainsStep ==
  ASSUME Typed, Ledger, Drains, [Next]_vars
  PROVE  Drains'
<1> USE DEF Typed, EmitTypes, Drains, Gone, procVars, pumpVars
<1>1. CASE TopStops
  BY <1>1 DEF TopStops, Bury
<1>2. CASE TopExits
  BY <1>2 DEF TopExits
<1>3. CASE Select
  BY <1>3 DEF Select
<1>4. CASE ReadEmits
  BY <1>4 DEF ReadEmits
<1>5. CASE Dispatch
  BY <1>5 DEF Dispatch, Relays
<1>6. CASE EmitsRead
  BY <1>6 DEF EmitsRead
<1>7. CASE Answer
  BY <1>7 DEF Answer, Relays
<1>8. CASE CallsRead
  BY <1>8 DEF CallsRead
<1>9. CASE Responds
  BY <1>9 DEF Responds
<1>10. CASE RespondDrops
  BY <1>10 DEF RespondDrops
<1>11. CASE Drain
  BY <1>11 DEF Drain
<1>12. CASE DrainEnds
  BY <1>12 DEF DrainEnds, Replay, Closes
<1>13. CASE \E c \in Calls : Asks(c)
  BY <1>13 DEF Asks, LockedToRead
<1>14. CASE \E c \in Calls : Reads(c)
  BY <1>14 DEF Reads
<1>15. CASE \E c \in Calls : HungUp(c)
  BY <1>15 DEF HungUp
<1>16. CASE \E e \in Emits : Sends(e)
  <2> PICK e \in Emits : Sends(e)
    BY <1>16
  <2>1. UNCHANGED <<pc, script, intime, took>>
    BY DEF Sends
  <2>2. CASE Ended
    BY <2>1, <2>2 DEF Ended
  <2>3. CASE ~Ended
    <3>1. recs' = Append(recs, Piece(e, TRUE)) /\ e \notin intime
      BY <2>3 DEF Sends, Ledger
    <3>2. Piece(e, TRUE) \in EmitPieces /\ Piece(e, TRUE).of = e
      BY DEF Piece, EmitPieces
    <3>3. recs \in Seq(EmitPieces)
      OBVIOUS
    <3> HIDE DEF Typed, EmitTypes, Drains
    <3>4. \A n \in 1..Len(recs') : (\E i \in 1..Len(recs) : recs'[n] = recs[i])
                                    \/ recs'[n] = Piece(e, TRUE)
      <4>1. \A n \in 1..Len(Append(recs, Piece(e, TRUE))) :
              (\E i \in 1..Len(recs) : Append(recs, Piece(e, TRUE))[n] = recs[i])
              \/ Append(recs, Piece(e, TRUE))[n] = Piece(e, TRUE)
        BY <3>2, <3>3, PipeGrows, Zenon
      <4> QED
        BY <3>1, <4>1
    <3> QED
      BY <2>1, <3>1, <3>2, <3>4 DEF Drains
  <2> QED
    BY <2>2, <2>3
<1>17. CASE \E p \in Calls \cup Emits : Kill(p)
  BY <1>17 DEF Kill, Bury
<1>18. CASE \E c \in Calls : Locks(c)
  BY <1>18 DEF Locks
<1>19. CASE \E e \in Emits : Begins(e)
  <2> PICK e \in Emits : Begins(e)
    BY <1>19
  <2>1. UNCHANGED <<pc, script, intime, took>> /\ recs' = Append(recs, Piece(e, FALSE))
    BY DEF Begins
  <2>2. Piece(e, FALSE) \in EmitPieces /\ ~Piece(e, FALSE).end
    BY DEF Piece, EmitPieces
  <2>3. recs \in Seq(EmitPieces)
    OBVIOUS
  <2> HIDE DEF Typed, EmitTypes, Drains
  <2>4. \A n \in 1..Len(recs') : (\E i \in 1..Len(recs) : recs'[n] = recs[i])
                                  \/ recs'[n] = Piece(e, FALSE)
    <3>1. \A n \in 1..Len(Append(recs, Piece(e, FALSE))) :
            (\E i \in 1..Len(recs) : Append(recs, Piece(e, FALSE))[n] = recs[i])
            \/ Append(recs, Piece(e, FALSE))[n] = Piece(e, FALSE)
      <4>1. Piece(e, FALSE) \in EmitPieces
        BY <2>2
      <4> QED
        BY <2>3, <4>1, PipeGrows, Zenon
    <3> QED
      BY <2>1, <3>1
  <2> QED
    BY <2>1, <2>2, <2>4 DEF Drains
<1>20. CASE TrapBegins
  BY <1>20 DEF TrapBegins
<1>21. CASE Exits
  BY <1>21 DEF Exits
<1>22. CASE DeadlinePasses
  BY <1>22 DEF DeadlinePasses
<1>23. CASE HostCancels
  BY <1>23 DEF HostCancels
<1>24. CASE UNCHANGED vars
  BY <1>24 DEF vars
<1> QED
  BY <1>1, <1>2, <1>3, <1>4, <1>5, <1>6, <1>7, <1>8, <1>9, <1>10, <1>11, <1>12, <1>13,
       <1>14, <1>15, <1>16, <1>17, <1>18, <1>19, <1>20, <1>21, <1>22, <1>23, <1>24
  DEF Next, Pump, Command

\* Fewer on one side, more on the other.
LEMMA FewerStill ==
  ASSUME NEW A, NEW B, NEW C, NEW D, IsFiniteSet(A), IsFiniteSet(D), C \subseteq A, B \subseteq D,
         Cardinality(A) <= Cardinality(B)
  PROVE  Cardinality(C) <= Cardinality(D)
<1>1. IsFiniteSet(B) /\ IsFiniteSet(C)
  BY FS_Subset
<1>2. Cardinality(C) <= Cardinality(A) /\ Cardinality(B) <= Cardinality(D)
  BY FS_Subset
<1> QED
  BY <1>1, <1>2, FS_CardinalityType

\* Who is lost has sent, and who is spent has died.
LEMMA FiniteBooks ==
  ASSUME Typed, Ledger
  PROVE  IsFiniteSet(Lost) /\ IsFiniteSet(Dead) /\ IsFiniteSet(Spent)
<1>1. ToSet(sent) \subseteq Emits
  BY InSet DEF Typed, EmitTypes
<1>2. Lost \subseteq Started /\ Dead \subseteq Started /\ Spent \subseteq Started
  BY <1>1 DEF Lost, Dead, Spent, Started, Ledger
<1> QED
  BY <1>2, FS_Subset DEF Ledger

\* A record that is dropped pays for it with the half before it.
LEMMA DispatchCovered ==
  ASSUME Typed, Ledger, Framed, Covered, Dispatch, IsFiniteSet(Spent')
  PROVE  Covered'
<1> USE DEF Typed
<1> DEFINE L == LineEnd(ebuf)
           q == Stream[L].of
<1>1. /\ L \in 1..Len(Stream) /\ Stream[L].end /\ \A m \in 1..(L - 1) : ~Stream[m].end
      /\ Len(Stream') = Len(Stream) - L
      /\ \A n \in 1..(Len(Stream) - L) : Stream'[n] = Stream[n + L]
  BY Advances
<1>2. /\ UNCHANGED <<sent, cmd>> /\ ~Ended /\ ~Ended'
      /\ Len(Stream) \in Nat /\ heard \in Seq(Emits)
  BY StreamTyped DEF Dispatch, Ended, procVars, EmitTypes
<1>3. \/ heard' = Append(heard, q)
      \/ /\ UNCHANGED heard
         /\ L > 2 /\ Stream[L - 2].of \in Emits /\ cmd[Stream[L - 2].of] = "dead"
         /\ Stream[L - 2] = Piece(Stream[L - 2].of, FALSE)
  <2>1. q \in Emits
    <3> HIDE DEF L
    <3> QED
      BY <1>1 DEF Framed
  <2>2. q # None
    BY <2>1, ShellParameters
  <2> QED
    BY <2>2, LineTells DEF Dispatch
<1> HIDE DEF L
<1>4. q \in Emits /\ q \in ToSet(sent)
  BY <1>1 DEF Framed
<1>5. ASSUME NEW n \in 1..Len(Stream')
      PROVE  n + L \in 1..Len(Stream) /\ L < n + L /\ Stream'[n] = Stream[n + L]
  BY <1>1, <1>2
<1>6. ASSUME NEW x, InStream(x), x # q PROVE InStream(x)'
  <2>1. PICK n \in 1..Len(Stream) : Stream[n] = Piece(x, TRUE)
    BY <1>6 DEF InStream
  <2>2. Stream[n].end /\ Stream[n].of = x
    BY <2>1 DEF Piece
  <2>3. ~(n \in 1..(L - 1)) /\ n # L
    BY <1>1, <1>6, <2>2
  <2>4. n - L \in 1..(Len(Stream) - L) /\ n - L \in 1..Len(Stream') /\ (n - L) + L = n
    BY <1>1, <1>2, <2>3
  <2>5. Stream'[n - L] = Piece(x, TRUE)
    BY <1>1, <2>1, <2>4
  <2> QED
    BY <2>4, <2>5 DEF InStream
<1>7. ASSUME NEW x, HalfInStream(x)' PROVE HalfInStream(x)
  <2>1. PICK n \in 1..Len(Stream') : Stream'[n] = Piece(x, FALSE)
    BY <1>7 DEF HalfInStream
  <2> QED
    BY <1>5, <2>1 DEF HalfInStream
<1>8. Spent \subseteq Spent'
  BY <1>2, <1>7 DEF Spent, Dead
<1>9. IsFiniteSet(Lost) /\ IsFiniteSet(Spent)
  BY FiniteBooks
<1>10. Cardinality(Lost) <= Cardinality(Spent)
  BY <1>2 DEF Covered
<1>11. PICK lost1, spent1 : lost1 = Lost' /\ spent1 = Spent'
  OBVIOUS
<1>12. CASE heard' = Append(heard, q)
  <2>1. ToSet(heard') = ToSet(heard) \cup {q}
    BY <1>2, <1>4, <1>12, InSetAppend
  <2>2. Lost' \subseteq Lost
    BY <1>2, <1>6, <2>1 DEF Lost
  <2>3. Cardinality(lost1) <= Cardinality(spent1)
    BY <1>8, <1>9, <1>10, <1>11, <2>2, FewerStill
  <2> QED
    BY <1>2, <1>11, <2>3 DEF Covered
<1>13. CASE /\ UNCHANGED heard
            /\ L > 2 /\ Stream[L - 2].of \in Emits /\ cmd[Stream[L - 2].of] = "dead"
            /\ Stream[L - 2] = Piece(Stream[L - 2].of, FALSE)
  <2> DEFINE d == Stream[L - 2].of
  <2>1. Lost' \subseteq Lost \cup {q}
    BY <1>2, <1>6, <1>13 DEF Lost
  <2>2. L - 2 \in 1..Len(Stream)
    BY <1>1, <1>2, <1>13
  <2>3. HalfInStream(d)
    BY <1>13, <2>2 DEF HalfInStream
  <2>4. ASSUME NEW n \in 1..Len(Stream'), Stream'[n] = Stream[L - 2] PROVE FALSE
    <3>1. n + L \in 1..Len(Stream) /\ L < n + L /\ Stream[n + L] = Stream[L - 2]
      BY <1>5, <2>4
    <3>2. n + L = L - 2
      BY <2>2, <3>1 DEF Framed
    <3> QED
      BY <1>1, <1>2, <3>1, <3>2
  <2>5. PICK c : c = d
    OBVIOUS
  <2> HIDE DEF d
  <2>6. c \in Emits /\ cmd'[c] = "dead" /\ ~HalfInStream(c)' /\ c \notin Spent
    <3>1. ~HalfInStream(c)'
      BY <1>13, <2>4, <2>5 DEF HalfInStream, d
    <3> QED
      BY <1>2, <1>13, <2>3, <2>5, <3>1 DEF Spent, d
  <2>7. Spent \cup {c} \subseteq Spent'
    BY <1>8, <2>6 DEF Spent, Dead
  <2>8. IsFiniteSet(Lost \cup {q}) /\ Cardinality(Lost \cup {q}) <= Cardinality(Lost) + 1
    <3> HIDE DEF q
    <3>1. Cardinality(Lost) \in Nat
      BY <1>9, FS_CardinalityType
    <3>2. /\ IsFiniteSet(Lost \cup {q})
          /\ Cardinality(Lost \cup {q}) = IF q \in Lost THEN Cardinality(Lost)
                                         ELSE Cardinality(Lost) + 1
      BY <1>9, FS_AddElement
    <3> QED
      BY <3>1, <3>2
  <2>9. Cardinality(Spent \cup {c}) = Cardinality(Spent) + 1
    BY <1>9, <2>6, FS_AddElement
  <2>10. Cardinality(Lost \cup {q}) <= Cardinality(Spent \cup {c})
    <3>1. Cardinality(Lost \cup {q}) \in Nat
      BY <2>8, FS_CardinalityType
    <3> QED
      BY <1>9, <1>10, <2>8, <2>9, <3>1, FS_CardinalityType
  <2>11. Cardinality(lost1) <= Cardinality(spent1)
    BY <1>11, <2>1, <2>7, <2>8, <2>10, FewerStill
  <2> QED
    BY <1>2, <1>11, <2>11 DEF Covered
<1> QED
  BY <1>3, <1>12, <1>13

\* At the end no record of the script's time is in the stream.
LEMMA EndCovered ==
  ASSUME Typed, Ledger, Framed, Covered, Drains, DrainEnds, UNCHANGED intime
  PROVE  Covered'
<1> USE DEF Typed
<1>1. /\ pc = "drain" /\ ~HasLine(ebuf) /\ (recs = <<>> \/ took)
      /\ UNCHANGED <<cmd, heard, sent>> /\ ~Ended /\ Ended'
  BY DEF DrainEnds, Drained, Ended, procVars
<1>2. ASSUME NEW x \in intime, InStream(x) PROVE FALSE
  <2>1. PICK n \in 1..Len(Stream) : Stream[n] = Piece(x, TRUE)
    BY <1>2 DEF InStream
  <2>2. Stream[n].end /\ Stream[n].of = x
    BY <2>1 DEF Piece
  <2>3. /\ Len(ebuf) \in Nat /\ Len(recs) \in Nat /\ Len(Stream) = Len(ebuf) + Len(recs)
        /\ Stream[n] = IF n <= Len(ebuf) THEN ebuf[n] ELSE recs[n - Len(ebuf)]
    <3>1. ebuf \in Seq(EmitPieces) /\ recs \in Seq(EmitPieces)
      BY DEF EmitTypes
    <3>2. /\ Len(Stream) = Len(ebuf) + Len(recs)
          /\ \A i \in 1..(Len(ebuf) + Len(recs)) :
               Stream[i] = IF i <= Len(ebuf) THEN ebuf[i] ELSE recs[i - Len(ebuf)]
      BY <3>1, ConcatProperties DEF Stream
    <3> QED
      BY <2>1, <3>1, <3>2, LenProperties
  <2>4. CASE n <= Len(ebuf)
    <3>1. n \in 1..Len(ebuf) /\ ebuf[n] = Stream[n]
      <4>1. n \in 1..Len(ebuf)
        BY <2>1, <2>3, <2>4
      <4>2. ebuf[n] = Stream[n]
        BY <2>3, <2>4
      <4> QED
        BY <4>1, <4>2
    <3> QED
      BY <1>1, <2>2, <3>1 DEF HasLine
  <2>5. CASE ~(n <= Len(ebuf))
    <3>1. n - Len(ebuf) \in 1..Len(recs) /\ recs[n - Len(ebuf)] = Stream[n]
      <4>1. n - Len(ebuf) \in 1..Len(recs)
        BY <2>1, <2>3, <2>5
      <4>2. recs[n - Len(ebuf)] = Stream[n]
        BY <2>3, <2>5
      <4> QED
        BY <4>1, <4>2
    <3>2. took
      BY <1>1, <2>3, <3>1, EmptySeq
    <3> QED
      BY <1>1, <2>2, <3>1, <3>2 DEF Drains
  <2> QED
    BY <2>4, <2>5
<1>3. intime \ ToSet(heard) \subseteq Lost
  BY <1>2 DEF Lost, Ledger
<1>4. Spent \subseteq Dead
  BY DEF Spent
<1>5. Cardinality(Lost) <= Cardinality(Spent)
  BY <1>1 DEF Covered
<1>6. Cardinality(intime \ ToSet(heard)) <= Cardinality(Dead)
  BY <1>3, <1>4, <1>5, FiniteBooks, FewerStill
<1>7. Dead' = Dead /\ ToSet(heard)' = ToSet(heard)
  BY <1>1 DEF Dead
<1> QED
  BY <1>1, <1>6, <1>7 DEF Covered

\* No more are lost than have died.
LEMMA CoveredStep ==
  ASSUME Typed, Ledger, Framed, Covered, Drains, [Next]_vars, Typed', Ledger'
  PROVE  Covered'
<1> USE DEF Typed
<1>1. IsFiniteSet(Lost) /\ IsFiniteSet(Spent')
  <2>1. IsFiniteSet(Spent')
    <3>1. Spent' \subseteq Started'
      BY DEF Spent, Dead, Started
    <3>2. PICK a, b : a = Spent' /\ b = Started'
      OBVIOUS
    <3>3. IsFiniteSet(b)
      BY <3>2 DEF Ledger
    <3>4. IsFiniteSet(a)
      BY <3>1, <3>2, <3>3, FS_Subset
    <3> QED
      BY <3>2, <3>4
  <2> QED
    BY <2>1, FiniteBooks
<1>2. ASSUME ~Ended, ~Ended', Lost' \subseteq Lost, Spent \subseteq Spent'
      PROVE  Covered'
  <2>1. PICK a, b : a = Lost' /\ b = Spent'
    OBVIOUS
  <2>2. Cardinality(a) <= Cardinality(b)
    BY <1>1, <1>2, <2>1, FewerStill DEF Covered
  <2> QED
    BY <1>2, <2>1, <2>2 DEF Covered
<1>3. ASSUME Ended, Ended', Dead' = Dead, UNCHANGED heard PROVE Covered'
  <2>1. UNCHANGED intime
    BY <1>3, AfterScript DEF Ended
  <2> QED
    BY <1>3, <2>1 DEF Covered
<1>4. CASE EmitsStay
  <2>1. /\ UNCHANGED <<sent, heard>> /\ (Ended' <=> Ended) /\ Dead' = Dead
        /\ \A x : (InStream(x)' <=> InStream(x)) /\ (HalfInStream(x)' <=> HalfInStream(x))
    BY <1>4 DEF EmitsStay, Dead, InStream, HalfInStream
  <2>2. Lost' = Lost /\ Spent' = Spent
    BY <2>1 DEF Lost, Spent
  <2> QED
    BY <1>2, <1>3, <2>1, <2>2
<1>5. CASE EmitsDie
  <2>1. /\ UNCHANGED <<sent, heard>> /\ ~Ended /\ ~Ended'
        /\ \A x : (InStream(x)' <=> InStream(x)) /\ (HalfInStream(x)' <=> HalfInStream(x))
    BY <1>5 DEF EmitsDie, InStream, HalfInStream
  <2>2. Dead \subseteq Dead'
    BY <1>5 DEF EmitsDie, Bury, Dead
  <2>3. Lost' = Lost /\ Spent \subseteq Spent'
    BY <2>1, <2>2 DEF Lost, Spent
  <2> QED
    BY <1>2, <2>1, <2>3
<1>6. CASE Dispatch
  BY <1>1, <1>6, DispatchCovered
<1>7. CASE DrainEnds
  BY <1>7, AfterScript, EndCovered DEF DrainEnds
<1>8. ASSUME NEW e \in Emits, Begins(e) PROVE Covered'
  <2>1. /\ Len(Stream') = Len(Stream) + 1 /\ Stream'[Len(Stream) + 1] = Piece(e, FALSE)
        /\ \A n \in 1..Len(Stream) : Stream'[n] = Stream[n]
    BY <1>8, Pushes DEF Begins, pumpVars
  <2>2. Len(Stream) \in Nat
    BY StreamTyped
  <2>3. /\ ~Ended /\ ~Ended' /\ UNCHANGED <<sent, heard>> /\ cmd[e] = "new"
        /\ \A x \in Emits : x # e => cmd'[x] = cmd[x]
    BY <1>8 DEF Begins, MayStart, Lively, Ended, pumpVars, ProcTypes
  <2>4. \A x : InStream(x) => InStream(x)'
    <3>1. \A n \in 1..Len(Stream) : n \in 1..Len(Stream')
      BY <2>1, <2>2
    <3> QED
      BY <2>1, <3>1 DEF InStream
  <2>5. ASSUME NEW x, x # e, HalfInStream(x)' PROVE HalfInStream(x)
    <3>1. PICK n \in 1..Len(Stream') : Stream'[n] = Piece(x, FALSE)
      BY <2>5 DEF HalfInStream
    <3>2. n # Len(Stream) + 1
      BY <2>1, <2>5, <3>1 DEF Piece
    <3>3. n \in 1..Len(Stream)
      BY <2>1, <2>2, <3>1, <3>2
    <3> QED
      BY <2>1, <3>1, <3>3 DEF HalfInStream
  <2>6. Lost' \subseteq Lost
    BY <2>3, <2>4 DEF Lost
  <2>7. Spent \subseteq Spent'
    BY <2>3, <2>5 DEF Spent, Dead
  <2> QED
    BY <1>2, <2>3, <2>6, <2>7
<1>9. ASSUME NEW e \in Emits, Sends(e), ~Ended PROVE Covered'
  <2>1. /\ Len(Stream') = Len(Stream) + 1 /\ Stream'[Len(Stream) + 1] = Piece(e, TRUE)
        /\ \A n \in 1..Len(Stream) : Stream'[n] = Stream[n]
    BY <1>9, Pushes DEF Sends, pumpVars
  <2>2. Len(Stream) \in Nat
    BY StreamTyped
  <2>3. /\ ~Ended' /\ UNCHANGED heard /\ ToSet(sent') = ToSet(sent) \cup {e}
        /\ cmd[e] = "writing" /\ \A x \in Emits : x # e => cmd'[x] = cmd[x]
    <3>1. sent' = Append(sent, e)
      BY <1>9 DEF Sends
    <3>2. ToSet(sent') = ToSet(sent) \cup {e}
      BY <3>1, InSetAppend DEF EmitTypes
    <3> QED
      BY <1>9, <3>2 DEF Sends, Ended, pumpVars, ProcTypes
  <2>4. InStream(e)' /\ \A x : InStream(x) => InStream(x)'
    <3>1. Len(Stream) + 1 \in 1..Len(Stream') /\ \A n \in 1..Len(Stream) : n \in 1..Len(Stream')
      BY <2>1, <2>2
    <3>2. InStream(e)'
      BY <2>1, <3>1 DEF InStream
    <3> QED
      BY <2>1, <3>1, <3>2 DEF InStream
  <2>5. ASSUME NEW x, HalfInStream(x)' PROVE HalfInStream(x)
    <3>1. PICK n \in 1..Len(Stream') : Stream'[n] = Piece(x, FALSE)
      BY <2>5 DEF HalfInStream
    <3>2. n # Len(Stream) + 1
      BY <2>1, <3>1 DEF Piece
    <3>3. n \in 1..Len(Stream)
      BY <2>1, <2>2, <3>1, <3>2
    <3> QED
      BY <2>1, <3>1, <3>3 DEF HalfInStream
  <2>6. Lost' \subseteq Lost
    BY <2>3, <2>4 DEF Lost
  <2>7. Spent \subseteq Spent'
    BY <2>3, <2>5 DEF Spent, Dead
  <2> QED
    BY <1>2, <1>9, <2>3, <2>6, <2>7
<1>10. ASSUME NEW e \in Emits, Sends(e), Ended PROVE Covered'
  <2>1. Ended' /\ UNCHANGED heard
    BY <1>10 DEF Sends, pumpVars, Ended
  <2>2. Dead' = Dead
    BY <1>10 DEF Sends, Dead, ProcTypes
  <2> QED
    BY <1>3, <1>10, <2>1, <2>2
<1> QED
  BY <1>4, <1>5, <1>6, <1>7, <1>8, <1>9, <1>10, EmitKinds

\* The books of the emits.
Delivery == Typed /\ Ledger /\ Framed /\ InOrder /\ Covered /\ Drains

LEMMA DeliveryStep ==
  ASSUME Delivery, [Next]_vars
  PROVE  Delivery'
<1>1. Typed' /\ Ledger'
  BY TypedStep, LedgerStep DEF Delivery
<1> QED
  BY <1>1, FramedStep, OrderStep, CoveredStep, DrainsStep DEF Delivery

\* The host hears records in the order of the sends, none twice, and all that were sent
\* before the script was over but one for each writer that was killed: emit.lock keeps
\* frames apart, half a frame spoils the next record and no other, and the drain reads on
\* until it has what was in the pipe.
THEOREM EmitsComeThrough == Spec => []EmitsDelivered
<1>1. Spec => []Delivery
  BY InitTyped, InitEmits, DeliveryStep, PTL DEF Spec, Delivery
<1>2. ASSUME Delivery PROVE EmitsDelivered
  BY <1>2 DEF Delivery, Ledger, InOrder, Before, Covered, Dead, EmitsDelivered
<1> QED
  BY <1>1, <1>2, PTL

================================================================================
