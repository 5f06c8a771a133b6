------------------------------ MODULE ChannelProofs ------------------------------
(***************************************************************************)
(* Proofs about Channel, for any number of requests, depth and cancels:    *)
(* how the requests of the two ends nest, and from that, that an end meets *)
(* only frames it can take, that somebody is always about to answer, what  *)
(* awaiting and serving stand for, and that the channel implements Rpc.    *)
(***************************************************************************)
EXTENDS Channel, SequenceTheorems, TLAPS

-----------------------------------------------------------------------------
(* The inductive invariant.                                                *)

Typed ==
  /\ TypeOK
  /\ stack \in [Ends -> Seq(Activities)]
  /\ wire \in [Ends -> Seq(Frames)]

Depth(e) == Len(stack[e])

\* An end's frames alternate: it serves in the middle of its requests, and asks in
\* the middle of what it serves.  The host begins with a request.
Alternates ==
  \A e \in Ends :
    /\ Depth(e) > 0 => stack[e][1].op = IF e = "host" THEN "request" ELSE "serve"
    /\ \A n \in 1..(Depth(e) - 1) : stack[e][n].op # stack[e][n + 1].op

\* The two stacks are one chain of calls: at each depth one end asks and the other
\* serves, under one id.
Paired ==
  \A e \in Ends : \A n \in 1..Depth(e) :
    n <= Depth(Peer(e)) => /\ stack[e][n].op # stack[Peer(e)][n].op
                           /\ stack[e][n].id = stack[Peer(e)][n].id

\* Apart from cancels, a wire is empty or carries one frame.
Bare(w) == \A n \in 1..Len(w) : w[n].kind = "cancel"
Carries(w, kind, i) ==
  \E m \in 1..Len(w) : /\ w[m].kind = kind /\ w[m].id = i
                       /\ \A n \in 1..Len(w) : n # m => w[n].kind = "cancel"

Quiet(e) == ~sending[e] /\ Bare(wire[e])
Level == Depth("host") = Depth("guest")
Ahead(e) == Depth(e) = Depth(Peer(e)) + 1 /\ Top(e).op = "request"

\* How far the request of the end that is ahead has got.
Making(e)    == sending[e] /\ Top(e).id = lastId[e] /\ Bare(wire[e]) /\ Bare(wire[Peer(e)])
Asked(e)     == ~sending[e] /\ Bare(wire[e]) /\ Carries(wire[Peer(e)], "req", Top(e).id)
AnsweredTo(e) == ~sending[e] /\ Carries(wire[e], "answer", Top(e).id) /\ Bare(wire[Peer(e)])

\* One end is at work: both are at one depth and one of them runs its code, or one
\* is a request ahead, which is being made, on its way, or answered.
Turn ==
  \/ Level /\ Quiet("host") /\ Quiet("guest")
  \/ \E e \in Ends : /\ Ahead(e) /\ ~sending[Peer(e)]
                     /\ Making(e) \/ Asked(e) \/ AnsweredTo(e)

\* Ids only grow, so that a request is told by its id.
Ordered ==
  \A e \in Ends : \A n \in 1..Depth(e) :
    stack[e][n].op = "request" =>
      /\ stack[e][n].id <= lastId[e]
      /\ \A m \in 1..(n - 1) : stack[e][m].op = "request" => stack[e][m].id < stack[e][n].id

Nesting == Alternates /\ Paired /\ Turn /\ Ordered

\* A frame keeps the id that its book had before it, and puts it back.
IdAt(e, n) == IF n = 0 THEN 0 ELSE stack[e][n].id
TopOf(e, op) ==
  IF Depth(e) = 0 THEN 0 ELSE IF Top(e).op = op THEN Depth(e) ELSE Depth(e) - 1
Book(e, op) == IdAt(e, TopOf(e, op))
Outers(e) == \A n \in 1..Depth(e) : stack[e][n].outer = IdAt(e, IF n <= 2 THEN 0 ELSE n - 2)
Books ==
  \A e \in Ends :
    Outers(e) /\ awaiting[e] = Book(e, "request") /\ serving[e] = Book(e, "serve")

\* A flag, a cancel and an answer that says so go back to a cancel() of the host.
FlagNamed(e) == cut[e] => e = "guest" /\ serving[e] \in named
CallNamed(e, f) == f.cut => e = "guest" /\ f.outer \in named
CallsNamed(e) == \A n \in 1..Depth(e) : CallNamed(e, stack[e][n])
FrameNamed(e, f) ==
  /\ f.kind = "cancel" => e = "guest" /\ f.id \in named
  /\ f.kind = "answer" /\ f.cut => e = "host" /\ f.id \in named
WireNamed(e) == \A n \in 1..Len(wire[e]) : FrameNamed(e, wire[e][n])
CutsAreNamed == \A e \in Ends : FlagNamed(e) /\ CallsNamed(e) /\ WireNamed(e)

ChannelInv == Typed /\ Nesting /\ Books /\ CutsAreNamed

-----------------------------------------------------------------------------
(* Sequences, records and ends.                                            *)

LEMMA Pushed ==
  ASSUME NEW S, NEW s \in Seq(S), NEW x \in S
  PROVE  /\ Append(s, x) \in Seq(S) /\ Len(Append(s, x)) = Len(s) + 1
         /\ \A n \in 1..Len(s) : Append(s, x)[n] = s[n]
         /\ Append(s, x)[Len(s) + 1] = x /\ Last(Append(s, x)) = x
         /\ Len(s) \in Nat /\ Append(s, x) # <<>>
BY DEF Last

LEMMA Popped ==
  ASSUME NEW S, NEW s \in Seq(S), s # <<>>
  PROVE  /\ Front(s) \in Seq(S) /\ Len(Front(s)) = Len(s) - 1
         /\ \A n \in 1..(Len(s) - 1) : Front(s)[n] = s[n]
         /\ Last(s) \in S /\ Last(s) = s[Len(s)] /\ Len(s) \in Nat \ {0}
<1>1. Len(s) \in Nat \ {0} /\ \A n \in 1..Len(s) : s[n] \in S
  OBVIOUS
<1>2. /\ SubSeq(s, 1, Len(s) - 1) \in Seq(S)
      /\ Len(SubSeq(s, 1, Len(s) - 1)) = Len(s) - 1
      /\ \A n \in 1..(Len(s) - 1) : SubSeq(s, 1, Len(s) - 1)[n] = s[n]
  <2> DEFINE m == Len(s) - 1
  <2>1. m \in Nat /\ \A i \in 1..m : s[i] \in S
    BY <1>1
  <2> HIDE DEF m
  <2>2. /\ SubSeq(s, 1, m) \in Seq(S)
        /\ Len(SubSeq(s, 1, m)) = IF 1 <= m THEN m - 1 + 1 ELSE 0
        /\ \A i \in 1..(m - 1 + 1) : SubSeq(s, 1, m)[i] = s[1 + i - 1]
    BY <2>1, SubSeqProperties
  <2>3. /\ Len(SubSeq(s, 1, m)) = m
        /\ \A n \in 1..m : SubSeq(s, 1, m)[n] = s[n]
    BY <2>1, <2>2
  <2> QED
    BY <2>2, <2>3 DEF m
<1> QED
  BY <1>1, <1>2 DEF Front, Last

LEMMA Shifted ==
  ASSUME NEW S, NEW s \in Seq(S), s # <<>>
  PROVE  /\ Tail(s) \in Seq(S) /\ Len(Tail(s)) = Len(s) - 1
         /\ \A n \in 1..(Len(s) - 1) : Tail(s)[n] = s[n + 1]
         /\ Head(s) = s[1] /\ Head(s) \in S /\ Len(s) \in Nat \ {0}
OBVIOUS

LEMMA Peers ==
  /\ \A e \in Ends : /\ Peer(e) \in Ends /\ Peer(e) # e /\ Peer(Peer(e)) = e
                     /\ \A d \in Ends : d = e \/ d = Peer(e)
  /\ "host" \in Ends /\ "guest" \in Ends
BY DEF Ends, Peer

LEMMA Records ==
  /\ \A i \in Ids \ {0}, o \in Ids :
       /\ Request(i, o) \in Activities
       /\ Request(i, o).op = "request" /\ Request(i, o).id = i /\ Request(i, o).outer = o
       /\ Request(i, o).cut = FALSE
  /\ \A i \in Ids \ {0}, o \in Ids, c \in BOOLEAN :
       /\ Serve(i, o, c) \in Activities
       /\ Serve(i, o, c).op = "serve" /\ Serve(i, o, c).id = i /\ Serve(i, o, c).outer = o
       /\ Serve(i, o, c).cut = c
  /\ \A k \in {"req", "answer", "cancel"}, i \in Ids \ {0}, c \in BOOLEAN :
       /\ Frame(k, i, c) \in Frames
       /\ Frame(k, i, c).kind = k /\ Frame(k, i, c).id = i /\ Frame(k, i, c).cut = c
BY DEF Request, Serve, Frame, Activities, Frames

LEMMA Fields ==
  /\ \A f \in Activities : /\ f.op \in {"request", "serve"} /\ f.id \in Ids \ {0}
                           /\ f.outer \in Ids /\ f.cut \in BOOLEAN
  /\ \A f \in Frames : /\ f.kind \in {"req", "answer", "cancel"} /\ f.id \in Ids \ {0}
                       /\ f.cut \in BOOLEAN
BY DEF Activities, Frames

LEMMA IdsAre == Ids \subseteq Nat /\ 0 \in Ids /\ \A i \in Ids : i < MaxId => i + 1 \in Ids \ {0}
BY ChannelParameters DEF Ids

\* What a wire carries, as frames come and go.
LEMMA BareSends ==
  ASSUME NEW w \in Seq(Frames), Bare(w), NEW f \in Frames
  PROVE  /\ f.kind = "cancel" => Bare(Append(w, f))
         /\ f.kind # "cancel" => Carries(Append(w, f), f.kind, f.id)
<1>1. /\ Len(Append(w, f)) = Len(w) + 1 /\ Len(w) \in Nat
      /\ \A n \in 1..Len(w) : Append(w, f)[n] = w[n]
      /\ Append(w, f)[Len(w) + 1] = f
  BY Pushed
<1>2. ASSUME f.kind = "cancel" PROVE Bare(Append(w, f))
  BY <1>1, <1>2 DEF Bare
<1>3. Carries(Append(w, f), f.kind, f.id)
  <2>1. \A n \in 1..Len(Append(w, f)) : n # Len(w) + 1 => Append(w, f)[n].kind = "cancel"
    BY <1>1 DEF Bare
  <2> QED
    BY <1>1, <2>1 DEF Carries
<1> QED
  BY <1>2, <1>3

LEMMA CarriesSends ==
  ASSUME NEW w \in Seq(Frames), NEW k, NEW i, Carries(w, k, i), NEW f \in Frames,
         f.kind = "cancel"
  PROVE  Carries(Append(w, f), k, i)
<1>1. /\ Len(Append(w, f)) = Len(w) + 1 /\ Len(w) \in Nat
      /\ \A n \in 1..Len(w) : Append(w, f)[n] = w[n]
      /\ Append(w, f)[Len(w) + 1] = f
  BY Pushed
<1>2. PICK m \in 1..Len(w) : /\ w[m].kind = k /\ w[m].id = i
                             /\ \A n \in 1..Len(w) : n # m => w[n].kind = "cancel"
  BY DEF Carries
<1>3. \A n \in 1..Len(Append(w, f)) : n # m => Append(w, f)[n].kind = "cancel"
  BY <1>1, <1>2
<1> QED
  BY <1>1, <1>2, <1>3 DEF Carries

LEMMA BareReads ==
  ASSUME NEW w \in Seq(Frames), w # <<>>, Bare(w)
  PROVE  Bare(Tail(w)) /\ Head(w).kind = "cancel"
<1>1. /\ Len(Tail(w)) = Len(w) - 1 /\ Head(w) = w[1] /\ Len(w) \in Nat \ {0}
      /\ \A n \in 1..(Len(w) - 1) : Tail(w)[n] = w[n + 1]
  BY Shifted
<1> QED
  BY <1>1 DEF Bare

LEMMA CarriesReads ==
  ASSUME NEW w \in Seq(Frames), w # <<>>, NEW k \in {"req", "answer"}, NEW i, Carries(w, k, i)
  PROVE  /\ Head(w).kind = "cancel" => Carries(Tail(w), k, i)
         /\ Head(w).kind # "cancel" => /\ Head(w).kind = k /\ Head(w).id = i
                                       /\ Bare(Tail(w))
<1>1. /\ Len(Tail(w)) = Len(w) - 1 /\ Head(w) = w[1] /\ Len(w) \in Nat \ {0}
      /\ \A n \in 1..(Len(w) - 1) : Tail(w)[n] = w[n + 1]
  BY Shifted
<1>2. PICK m \in 1..Len(w) : /\ w[m].kind = k /\ w[m].id = i
                             /\ \A n \in 1..Len(w) : n # m => w[n].kind = "cancel"
  BY DEF Carries
<1>3. CASE m = 1
  <2>1. \A n \in 1..Len(Tail(w)) : Tail(w)[n].kind = "cancel"
    BY <1>1, <1>2, <1>3
  <2> QED
    BY <1>1, <1>2, <1>3, <2>1 DEF Bare
<1>4. CASE m # 1
  <2>1. m - 1 \in 1..Len(Tail(w)) /\ Tail(w)[m - 1] = w[m]
    BY <1>1, <1>4
  <2>2. \A n \in 1..Len(Tail(w)) : n # m - 1 => Tail(w)[n].kind = "cancel"
    BY <1>1, <1>2, <1>4
  <2>3. Carries(Tail(w), k, i)
    BY <1>2, <2>1, <2>2 DEF Carries
  <2>4. Head(w).kind = "cancel"
    BY <1>1, <1>2, <1>4
  <2> QED
    BY <2>3, <2>4
<1> QED
  BY <1>3, <1>4

\* A wire with one frame has no other.
LEMMA CarriesOne ==
  ASSUME NEW w \in Seq(Frames), NEW k \in {"req", "answer"}, NEW i, Carries(w, k, i)
  PROVE  /\ w # <<>> /\ ~Bare(w)
         /\ \A n \in 1..Len(w) : w[n].kind # "cancel" => w[n].kind = k /\ w[n].id = i
BY DEF Carries, Bare

-----------------------------------------------------------------------------
(* Types.                                                                  *)

\* What the actions write, end by end.
LEMMA Types ==
  ASSUME Typed, NEW e \in Ends
  PROVE  /\ stack[e] \in Seq(Activities) /\ wire[e] \in Seq(Frames)
         /\ Depth(e) \in Nat
         /\ lastId[e] \in Ids /\ awaiting[e] \in Ids /\ serving[e] \in Ids
         /\ cut[e] \in BOOLEAN /\ sending[e] \in BOOLEAN
         /\ \A n \in 1..Depth(e) : stack[e][n] \in Activities
         /\ \A n \in 1..Len(wire[e]) : wire[e][n] \in Frames
         /\ stack[e] # <<>> => Top(e) = stack[e][Depth(e)] /\ Depth(e) > 0 /\ Top(e) \in Activities
         /\ stack[e] = <<>> <=> Depth(e) = 0
<1>1. stack[e] \in Seq(Activities) /\ wire[e] \in Seq(Frames)
  BY DEF Typed
<1>2. /\ lastId[e] \in Ids /\ awaiting[e] \in Ids /\ serving[e] \in Ids
      /\ cut[e] \in BOOLEAN /\ sending[e] \in BOOLEAN
  BY DEF Typed, TypeOK
<1> QED
  BY <1>1, <1>2, Popped DEF Depth, Top

LEMMA TypedInit == Init => Typed
<1> SUFFICES ASSUME Init PROVE Typed
  OBVIOUS
<1>1. \A S : <<>> \in Seq(S)
  OBVIOUS
<1>2. TypeOK
  <2>1. \A e \in Ends : stack[e] \in Seq(Activities) /\ wire[e] \in Seq(Frames)
    BY <1>1 DEF Init
  <2>2. target \in [Cancellers -> 0..(MaxId + 1)]
    BY ChannelParameters DEF Init
  <2> QED
    BY <2>1, <2>2, IdsAre DEF Init, TypeOK
<1>3. stack \in [Ends -> Seq(Activities)] /\ wire \in [Ends -> Seq(Frames)]
  BY <1>1 DEF Init
<1> QED
  BY <1>2, <1>3 DEF Typed

-----------------------------------------------------------------------------
(* What a step does to one end's stack or wire.                            *)

LEMMA Puts ==
  ASSUME Typed, NEW e \in Ends, NEW f \in Activities,
         stack' = [stack EXCEPT ![e] = Append(@, f)]
  PROVE  /\ stack' \in [Ends -> Seq(Activities)]
         /\ Depth(e)' = Depth(e) + 1 /\ stack'[e] # <<>> /\ Top(e)' = f
         /\ stack'[e][Depth(e) + 1] = f
         /\ \A n \in 1..Depth(e) : stack'[e][n] = stack[e][n]
         /\ stack'[Peer(e)] = stack[Peer(e)] /\ Depth(Peer(e))' = Depth(Peer(e))
<1>1. stack' \in [Ends -> Seq(Activities)] /\ stack'[e] = Append(stack[e], f)
  BY Types, Pushed DEF Typed
<1>2. stack'[Peer(e)] = stack[Peer(e)]
  BY Peers DEF Typed
<1>3. /\ Len(stack'[e]) = Len(stack[e]) + 1 /\ Last(stack'[e]) = f
      /\ stack'[e] # <<>> /\ stack'[e][Len(stack[e]) + 1] = f
      /\ \A n \in 1..Len(stack[e]) : stack'[e][n] = stack[e][n]
  BY <1>1, Types, Pushed
<1> QED
  BY <1>1, <1>2, <1>3 DEF Depth, Top

LEMMA Drops ==
  ASSUME Typed, NEW e \in Ends, stack[e] # <<>>, stack' = [stack EXCEPT ![e] = Front(@)]
  PROVE  /\ stack' \in [Ends -> Seq(Activities)]
         /\ Depth(e)' = Depth(e) - 1 /\ Depth(e) > 0
         /\ \A n \in 1..(Depth(e) - 1) : stack'[e][n] = stack[e][n]
         /\ stack'[Peer(e)] = stack[Peer(e)] /\ Depth(Peer(e))' = Depth(Peer(e))
<1>1. stack' \in [Ends -> Seq(Activities)] /\ stack'[e] = Front(stack[e])
  BY Types, Popped DEF Typed
<1>2. stack'[Peer(e)] = stack[Peer(e)]
  BY Peers DEF Typed
<1>3. /\ Len(stack'[e]) = Len(stack[e]) - 1 /\ Len(stack[e]) \in Nat \ {0}
      /\ \A n \in 1..(Len(stack[e]) - 1) : stack'[e][n] = stack[e][n]
  <2>1. /\ Len(Front(stack[e])) = Len(stack[e]) - 1 /\ Len(stack[e]) \in Nat \ {0}
        /\ \A n \in 1..(Len(stack[e]) - 1) : Front(stack[e])[n] = stack[e][n]
    BY Types, Popped
  <2> QED
    BY <1>1, <2>1
<1> QED
  BY <1>1, <1>2, <1>3 DEF Depth

LEMMA Takes ==
  ASSUME Typed, NEW e \in Ends, wire[e] # <<>>, Read(e)
  PROVE  /\ wire' \in [Ends -> Seq(Frames)]
         /\ wire'[e] = Tail(wire[e]) /\ wire'[Peer(e)] = wire[Peer(e)]
         /\ Head(wire[e]) \in Frames /\ Head(wire[e]) = wire[e][1] /\ Len(wire[e]) > 0
BY Types, Shifted, Peers DEF Typed, Read

LEMMA Gives ==
  ASSUME Typed, NEW e \in Ends, NEW f \in Frames, Write(e, f)
  PROVE  /\ wire' \in [Ends -> Seq(Frames)]
         /\ wire'[Peer(e)] = Append(wire[Peer(e)], f) /\ wire'[e] = wire[e]
<1>1. Peer(e) \in Ends /\ Peer(e) # e
  BY Peers
<1> QED
  BY <1>1, Types, Pushed DEF Typed, Write

-----------------------------------------------------------------------------
(* Where the ends stand.                                                   *)

LEMMA Standing ==
  ASSUME Typed, Alternates, Paired, Turn, NEW e \in Ends
  PROVE  /\ sending[e] => Ahead(e) /\ Making(e) /\ ~sending[Peer(e)]
         /\ InHandler(e) \/ MayAsk(e) =>
              Depth(e) = Depth(Peer(e)) /\ Quiet(e) /\ Quiet(Peer(e))
         /\ Arrived(e, "answer") => Ahead(e) /\ AnsweredTo(e) /\ ~sending[Peer(e)]
         /\ Arrived(e, "req") => Ahead(Peer(e)) /\ Asked(Peer(e)) /\ ~sending[e]
<1>1. \A d \in Ends : /\ Depth(d) \in Nat /\ wire[d] \in Seq(Frames)
                      /\ stack[d] # <<>> => Top(d) = stack[d][Depth(d)] /\ Depth(d) > 0
                      /\ stack[d] = <<>> <=> Depth(d) = 0
  BY Types
<1>2. \A d \in Ends : /\ Peer(d) \in Ends /\ Peer(d) # d /\ Peer(Peer(d)) = d
                      /\ d = e \/ d = Peer(e)
  BY Peers
<1>3. \/ Depth(e) = Depth(Peer(e)) /\ Quiet(e) /\ Quiet(Peer(e))
      \/ \E d \in {e, Peer(e)} : /\ Ahead(d) /\ ~sending[Peer(d)]
                                 /\ Making(d) \/ Asked(d) \/ AnsweredTo(d)
  BY <1>2 DEF Turn, Level, Ends, Peer
<1>4. sending[e] => Ahead(e) /\ Making(e) /\ ~sending[Peer(e)]
  BY <1>2, <1>3 DEF Quiet, Making, Asked, AnsweredTo
<1>5. InHandler(e) => Depth(e) = Depth(Peer(e)) /\ Quiet(e) /\ Quiet(Peer(e))
  <2>1. ASSUME InHandler(e) PROVE ~Ahead(e) /\ ~Ahead(Peer(e))
    <3>1. stack[e] # <<>> /\ Top(e) = stack[e][Depth(e)] /\ Top(e).op = "serve" /\ Depth(e) > 0
      BY <1>1, <2>1 DEF InHandler
    <3>2. ASSUME Ahead(Peer(e)) PROVE FALSE
      <4>1. /\ Depth(Peer(e)) = Depth(e) + 1 /\ Top(Peer(e)).op = "request"
            /\ Top(Peer(e)) = stack[Peer(e)][Depth(e) + 1]
        BY <1>1, <1>2, <3>2 DEF Ahead
      <4>2. stack[Peer(e)][Depth(e)].op # stack[Peer(e)][Depth(e) + 1].op
        BY <1>1, <1>2, <3>1, <4>1 DEF Alternates
      <4>3. stack[e][Depth(e)].op # stack[Peer(e)][Depth(e)].op
        BY <1>1, <1>2, <3>1, <4>1 DEF Paired
      <4>4. stack[Peer(e)][Depth(e)].op \in {"request", "serve"}
        BY <1>1, <1>2, <3>1, <4>1, Types, Fields
      <4> QED
        BY <3>1, <4>1, <4>2, <4>3, <4>4
    <3> QED
      BY <3>1, <3>2 DEF Ahead
  <2> QED
    BY <1>3, <2>1
<1>6. e = "host" /\ stack[e] = <<>> => Depth(e) = Depth(Peer(e)) /\ Quiet(e) /\ Quiet(Peer(e))
  <2>1. ASSUME e = "host", stack[e] = <<>> PROVE ~Ahead(e) /\ ~Ahead(Peer(e))
    <3>1. Depth(e) = 0 /\ ~Ahead(e)
      BY <1>1, <1>2, <2>1 DEF Ahead
    <3>2. ASSUME Ahead(Peer(e)) PROVE FALSE
      <4>1. Depth(Peer(e)) = 1 /\ Top(Peer(e)).op = "request" /\ Top(Peer(e)) = stack[Peer(e)][1]
        BY <1>1, <1>2, <3>1, <3>2 DEF Ahead
      <4>2. stack[Peer(e)][1].op = "serve"
        BY <1>2, <2>1, <4>1 DEF Alternates, Peer
      <4> QED
        BY <4>1, <4>2
    <3> QED
      BY <3>1, <3>2
  <2> QED
    BY <1>3, <2>1
<1>7. MayAsk(e) => Depth(e) = Depth(Peer(e)) /\ Quiet(e) /\ Quiet(Peer(e))
  BY <1>5, <1>6 DEF MayAsk
<1>8. ASSUME Arrived(e, "answer") \/ Arrived(e, "req") PROVE ~Bare(wire[e]) /\ wire[e] # <<>>
  BY <1>1, <1>8, BareReads DEF Arrived
<1>9. Arrived(e, "answer") => Ahead(e) /\ AnsweredTo(e) /\ ~sending[Peer(e)]
  <2> SUFFICES ASSUME Arrived(e, "answer") PROVE Ahead(e) /\ AnsweredTo(e) /\ ~sending[Peer(e)]
    OBVIOUS
  <2>1. \A i : ~Carries(wire[e], "req", i)
    BY <1>1, <1>8, CarriesReads DEF Arrived
  <2> QED
    BY <1>2, <1>3, <1>8, <2>1 DEF Quiet, Making, Asked, AnsweredTo
<1>10. Arrived(e, "req") => Ahead(Peer(e)) /\ Asked(Peer(e)) /\ ~sending[e]
  <2> SUFFICES ASSUME Arrived(e, "req") PROVE Ahead(Peer(e)) /\ Asked(Peer(e)) /\ ~sending[e]
    OBVIOUS
  <2>1. \A i : ~Carries(wire[e], "answer", i)
    BY <1>1, <1>8, CarriesReads DEF Arrived
  <2> QED
    BY <1>2, <1>3, <1>8, <2>1 DEF Quiet, Making, Asked, AnsweredTo
<1> QED
  BY <1>4, <1>5, <1>7, <1>9, <1>10

-----------------------------------------------------------------------------
(* Types, step by step.                                                    *)

LEMMA TypeStep == Typed /\ Nesting /\ [Next]_vars => Typed'
<1> SUFFICES ASSUME Typed, Nesting, [Next]_vars PROVE Typed'
  OBVIOUS
<1>1. \A e \in Ends :
        stack[e] # <<>> => /\ Top(e).id \in Ids \ {0} /\ Top(e).outer \in Ids
                           /\ Top(e).cut \in BOOLEAN
  BY Types, Fields
<1>2. \A e \in Ends : sending[e] => stack[e] # <<>>
  <2>1. \A e \in Ends : sending[e] => Depth(e) = Depth(Peer(e)) + 1 /\ Depth(Peer(e)) \in Nat
    BY Standing, Types, Peers DEF Nesting, Ahead
  <2> QED
    BY <2>1, Types
<1> USE DEF Typed, TypeOK
<1>3. ASSUME NEW e \in Ends, Publish(e) PROVE Typed'
  <2>1. lastId[e] + 1 \in Ids \ {0} /\ awaiting[e] \in Ids
    BY <1>3, IdsAre DEF Publish
  <2>2. Request(lastId[e] + 1, awaiting[e]) \in Activities
    BY <2>1, Records
  <2>3. stack' \in [Ends -> Seq(Activities)]
    BY <1>3, <2>2, Puts DEF Publish
  <2> QED
    BY <1>3, <2>1, <2>3 DEF Publish
<1>4. ASSUME NEW e \in Ends, SendRequest(e) PROVE Typed'
  <2>1. Frame("req", Top(e).id, FALSE) \in Frames
    BY <1>1, <1>2, <1>4, Records DEF SendRequest
  <2>2. wire' \in [Ends -> Seq(Frames)]
    BY <1>4, <2>1, Gives DEF SendRequest
  <2> QED
    BY <1>4, <2>2 DEF SendRequest
<1>5. ASSUME NEW e \in Ends, SendRefused(e) PROVE Typed'
  <2>1. stack' \in [Ends -> Seq(Activities)]
    BY <1>2, <1>5, Drops DEF SendRefused
  <2> QED
    BY <1>1, <1>2, <1>5, <2>1 DEF SendRefused
<1>6. ASSUME NEW e \in Ends, Answered(e) PROVE Typed'
  <2>1. stack[e] # <<>> /\ wire[e] # <<>>
    BY <1>6 DEF Answered, InRequest, Arrived
  <2>2. stack' \in [Ends -> Seq(Activities)]
    BY <1>6, <2>1, Drops DEF Answered
  <2>3. wire' \in [Ends -> Seq(Frames)]
    BY <1>6, <2>1, Takes DEF Answered
  <2>4. cutShort' \subseteq Ends \X Ids
    BY <1>1, <1>6, <2>1 DEF Answered
  <2> QED
    BY <1>1, <1>6, <2>1, <2>2, <2>3, <2>4 DEF Answered
<1>7. ASSUME NEW e \in Ends, Serves(e) PROVE Typed'
  <2>1. wire' \in [Ends -> Seq(Frames)] /\ Head(wire[e]).id \in Ids \ {0}
    BY <1>7, Takes, Fields DEF Serves, Arrived
  <2>2. Serve(Head(wire[e]).id, serving[e], cut[e]) \in Activities
    BY <2>1, Records
  <2>3. stack' \in [Ends -> Seq(Activities)]
    BY <1>7, <2>2, Puts DEF Serves
  <2> QED
    BY <1>7, <2>1, <2>3 DEF Serves
<1>8. ASSUME NEW e \in Ends, Finish(e) PROVE Typed'
  <2>1. PICK c \in {FALSE, cut[e]} : FinishWith(e, Frame("answer", Top(e).id, c))
    BY <1>8 DEF Finish
  <2>2. stack[e] # <<>>
    BY <2>1 DEF FinishWith, InHandler
  <2>3. Frame("answer", Top(e).id, c) \in Frames
    <3>1. c \in BOOLEAN /\ Top(e).id \in Ids \ {0}
      BY <1>1, <2>2
    <3> QED
      BY <3>1, Records
  <2>4. wire' \in [Ends -> Seq(Frames)]
    BY <2>1, <2>3, Gives DEF FinishWith
  <2>5. stack' \in [Ends -> Seq(Activities)]
    BY <2>1, <2>2, Drops DEF FinishWith
  <2> QED
    BY <1>1, <2>1, <2>2, <2>4, <2>5 DEF FinishWith
<1>9. ASSUME NEW e \in Ends, NotesCancel(e) PROVE Typed'
  <2>1. wire' \in [Ends -> Seq(Frames)]
    BY <1>9, Takes DEF NotesCancel, Arrived
  <2>2. cut' \in [Ends -> BOOLEAN]
    BY <1>9 DEF NotesCancel, Note
  <2> QED
    BY <1>9, <2>1, <2>2 DEF NotesCancel
<1>10. ASSUME NEW e \in Ends, DropsCancel(e) PROVE Typed'
  <2>1. wire' \in [Ends -> Seq(Frames)]
    BY <1>10, Takes DEF DropsCancel, Arrived
  <2> QED
    BY <1>10, <2>1 DEF DropsCancel, chanVars
<1>11. ASSUME NEW c \in Cancellers, CancelReads(c) PROVE Typed'
  <2>1. awaiting["host"] \in Ids \ {0} /\ Ids \subseteq 0..(MaxId + 1)
    BY <1>11, Peers, ChannelParameters DEF CancelReads, Ids
  <2> QED
    BY <1>11, <2>1 DEF CancelReads, chanVars
<1>12. ASSUME NEW c \in Cancellers, CancelSends(c) PROVE Typed'
  <2>1. Frame("cancel", target[c], FALSE) \in Frames
    BY <1>12, Records DEF CancelSends
  <2>2. wire' \in [Ends -> Seq(Frames)]
    BY <1>12, <2>1, Gives, Peers DEF CancelSends
  <2>3. MaxId + 1 \in 0..(MaxId + 1)
    BY ChannelParameters
  <2> QED
    BY <1>12, <2>2, <2>3 DEF CancelSends, chanVars
<1>13. CASE GuestDies
  BY <1>13 DEF GuestDies, chanVars
<1>14. CASE Loses
  BY <1>14 DEF Loses, chanVars
<1>15. CASE UNCHANGED vars
  BY <1>15 DEF vars, chanVars
<1> QED
  BY <1>3, <1>4, <1>5, <1>6, <1>7, <1>8, <1>9, <1>10, <1>11, <1>12, <1>13, <1>14, <1>15
     DEF Next, Step

-----------------------------------------------------------------------------
(* Nesting, step by step.                                                  *)

LEMMA PutNests ==
  ASSUME Typed, Alternates, Paired, NEW e \in Ends, NEW f \in Activities,
         Depth(e)' = Depth(e) + 1, stack'[e][Depth(e) + 1] = f,
         \A n \in 1..Depth(e) : stack'[e][n] = stack[e][n],
         stack'[Peer(e)] = stack[Peer(e)], Depth(Peer(e))' = Depth(Peer(e)),
         stack[e] = <<>> => f.op = IF e = "host" THEN "request" ELSE "serve",
         stack[e] # <<>> => Top(e).op # f.op,
         Depth(e) < Depth(Peer(e)) => /\ stack[Peer(e)][Depth(e) + 1].op # f.op
                                      /\ stack[Peer(e)][Depth(e) + 1].id = f.id
  PROVE  Alternates' /\ Paired'
<1>1. /\ Depth(e)' = Depth(e) + 1 /\ stack'[e][Depth(e) + 1] = f
      /\ \A n \in 1..Depth(e) : stack'[e][n] = stack[e][n]
      /\ stack'[Peer(e)] = stack[Peer(e)] /\ Depth(Peer(e))' = Depth(Peer(e))
  OBVIOUS
<1>2. /\ Peer(e) \in Ends /\ Peer(Peer(e)) = e /\ \A d \in Ends : d = e \/ d = Peer(e)
  BY Peers
<1>3. /\ Depth(e) \in Nat /\ Depth(Peer(e)) \in Nat
      /\ stack[e] # <<>> => Top(e) = stack[e][Depth(e)] /\ Depth(e) > 0
      /\ stack[e] = <<>> <=> Depth(e) = 0
  BY <1>2, Types
<1>4. Alternates'
  <2>1. Depth(e)' > 0 => stack'[e][1].op = IF e = "host" THEN "request" ELSE "serve"
    BY <1>1, <1>3 DEF Alternates
  <2>2. \A n \in 1..(Depth(e)' - 1) : stack'[e][n].op # stack'[e][n + 1].op
    <3>1. SUFFICES ASSUME NEW n \in 1..Depth(e) PROVE stack'[e][n].op # stack'[e][n + 1].op
      BY <1>1, <1>3
    <3>2. CASE n = Depth(e)
      BY <1>1, <1>3, <3>2
    <3>3. CASE n # Depth(e)
      <4>1. n \in 1..(Depth(e) - 1) /\ n + 1 \in 1..Depth(e)
        BY <1>3, <3>3
      <4> QED
        BY <1>1, <4>1 DEF Alternates
    <3> QED
      BY <3>2, <3>3
  <2>3. /\ Depth(Peer(e))' > 0 =>
             stack'[Peer(e)][1].op = IF Peer(e) = "host" THEN "request" ELSE "serve"
        /\ \A n \in 1..(Depth(Peer(e))' - 1) : stack'[Peer(e)][n].op # stack'[Peer(e)][n + 1].op
    BY <1>1, <1>2 DEF Alternates
  <2> QED
    BY <1>2, <2>1, <2>2, <2>3 DEF Alternates
<1>5. Paired'
  <2>1. ASSUME NEW n \in 1..Depth(e)', n <= Depth(Peer(e))'
        PROVE  /\ stack'[e][n].op # stack'[Peer(e)][n].op
               /\ stack'[e][n].id = stack'[Peer(e)][n].id
    <3>1. CASE n = Depth(e) + 1
      BY <1>1, <1>3, <2>1, <3>1
    <3>2. CASE n # Depth(e) + 1
      <4>1. n \in 1..Depth(e) /\ n <= Depth(Peer(e))
        BY <1>1, <1>3, <2>1, <3>2
      <4> QED
        BY <1>1, <4>1 DEF Paired
    <3> QED
      BY <3>1, <3>2
  <2>2. ASSUME NEW n \in 1..Depth(Peer(e))', n <= Depth(e)'
        PROVE  /\ stack'[Peer(e)][n].op # stack'[e][n].op
               /\ stack'[Peer(e)][n].id = stack'[e][n].id
    <3>1. n \in 1..Depth(e)' /\ n <= Depth(Peer(e))'
      BY <1>1, <1>3, <2>2
    <3> QED
      BY <2>1, <3>1
  <2> QED
    BY <1>2, <2>1, <2>2 DEF Paired
<1> QED
  BY <1>4, <1>5

LEMMA DropNests ==
  ASSUME Typed, Alternates, Paired, NEW e \in Ends, stack[e] # <<>>,
         stack' = [stack EXCEPT ![e] = Front(@)]
  PROVE  Alternates' /\ Paired'
<1>1. /\ Depth(e)' = Depth(e) - 1 /\ Depth(e) > 0
      /\ \A n \in 1..(Depth(e) - 1) : stack'[e][n] = stack[e][n]
      /\ stack'[Peer(e)] = stack[Peer(e)] /\ Depth(Peer(e))' = Depth(Peer(e))
  BY Drops
<1>2. /\ Peer(e) \in Ends /\ Peer(Peer(e)) = e /\ \A d \in Ends : d = e \/ d = Peer(e)
  BY Peers
<1>3. Depth(e) \in Nat /\ Depth(Peer(e)) \in Nat
  BY <1>2, Types
<1>4. Alternates'
  <2>1. /\ Depth(e)' > 0 => stack'[e][1].op = IF e = "host" THEN "request" ELSE "serve"
        /\ \A n \in 1..(Depth(e)' - 1) : stack'[e][n].op # stack'[e][n + 1].op
    BY <1>1, <1>3 DEF Alternates
  <2>2. /\ Depth(Peer(e))' > 0 =>
             stack'[Peer(e)][1].op = IF Peer(e) = "host" THEN "request" ELSE "serve"
        /\ \A n \in 1..(Depth(Peer(e))' - 1) : stack'[Peer(e)][n].op # stack'[Peer(e)][n + 1].op
    BY <1>1, <1>2 DEF Alternates
  <2> QED
    BY <1>2, <2>1, <2>2 DEF Alternates
<1>5. Paired'
  <2>1. ASSUME NEW n \in 1..Depth(e)', n <= Depth(Peer(e))'
        PROVE  /\ stack'[e][n].op # stack'[Peer(e)][n].op
               /\ stack'[e][n].id = stack'[Peer(e)][n].id
    <3>1. n \in 1..Depth(e) /\ n <= Depth(Peer(e)) /\ n \in 1..(Depth(e) - 1)
      BY <1>1, <1>3, <2>1
    <3> QED
      BY <1>1, <3>1 DEF Paired
  <2>2. ASSUME NEW n \in 1..Depth(Peer(e))', n <= Depth(e)'
        PROVE  /\ stack'[Peer(e)][n].op # stack'[e][n].op
               /\ stack'[Peer(e)][n].id = stack'[e][n].id
    <3>1. n \in 1..Depth(e)' /\ n <= Depth(Peer(e))'
      BY <1>1, <1>3, <2>2
    <3> QED
      BY <2>1, <3>1
  <2> QED
    BY <1>2, <2>1, <2>2 DEF Paired
<1> QED
  BY <1>4, <1>5

LEMMA LevelTurn ==
  ASSUME NEW e \in Ends, Depth(e)' = Depth(Peer(e))', Quiet(e)', Quiet(Peer(e))'
  PROVE  Turn'
BY DEF Turn, Level, Ends, Peer

\* Cancels come and go without a turn.
LEMMA CancelTurn ==
  ASSUME Typed, Turn, UNCHANGED <<stack, sending, lastId>>, NEW e \in Ends,
         wire'[Peer(e)] = wire[Peer(e)],
         Bare(wire[e]) => Bare(wire[e])',
         \A k \in {"req", "answer"}, i \in Nat : Carries(wire[e], k, i) => Carries(wire[e], k, i)'
  PROVE  Turn'
<1>1. \A d \in Ends : d = e \/ d = Peer(e)
  BY Peers
<1>2. \A d \in Ends : Bare(wire[d]) => Bare(wire'[d])
  BY <1>1
<1>3. \A d \in Ends, k \in {"req", "answer"}, i \in Nat :
        Carries(wire[d], k, i) => Carries(wire'[d], k, i)
  BY <1>1
<1>4. \A d \in Ends : Depth(d)' = Depth(d) /\ Top(d)' = Top(d)
  BY DEF Depth, Top
<1>5. CASE Level /\ Quiet("host") /\ Quiet("guest")
  BY <1>2, <1>4, <1>5, Peers DEF Turn, Level, Quiet
<1>6. ASSUME NEW d \in Ends, Ahead(d), ~sending[Peer(d)],
             Making(d) \/ Asked(d) \/ AnsweredTo(d)
      PROVE  Turn'
  <2>1. Peer(d) \in Ends /\ Depth(Peer(d)) \in Nat
    BY Peers, Types
  <2>2. Top(d).id \in Nat
    <3>1. Depth(d) # 0
      BY <1>6, <2>1 DEF Ahead
    <3>2. Top(d) \in Activities
      BY <3>1, Types
    <3> QED
      BY <3>2, Fields, IdsAre
  <2>3. Making(d) => Making(d)'
    BY <1>2, <1>4, <2>1 DEF Making
  <2>4. Asked(d) => Asked(d)'
    BY <1>2, <1>3, <1>4, <2>1, <2>2 DEF Asked
  <2>5. AnsweredTo(d) => AnsweredTo(d)'
    BY <1>2, <1>3, <1>4, <2>1, <2>2 DEF AnsweredTo
  <2>6. Ahead(d)' /\ ~sending'[Peer(d)]
    BY <1>4, <1>6, <2>1 DEF Ahead
  <2> QED
    BY <1>6, <2>3, <2>4, <2>5, <2>6 DEF Turn
<1> QED
  BY <1>5, <1>6 DEF Turn


\* Neither what an end serves nor what it is done with changes how its ids grow.
LEMMA OrderStays ==
  ASSUME Typed, Ordered, NEW e \in Ends, lastId' = lastId,
         stack'[Peer(e)] = stack[Peer(e)], Depth(Peer(e))' = Depth(Peer(e)),
         Depth(e)' \in Nat,
         \A n \in 1..Depth(e)' :
           stack'[e][n].op = "request" => n <= Depth(e) /\ stack'[e][n] = stack[e][n]
  PROVE  Ordered'
<1>1. \A d \in Ends : d = e \/ d = Peer(e)
  BY Peers
<1>2. Depth(e) \in Nat /\ Peer(e) \in Ends
  BY Types, Peers
<1>3. ASSUME NEW n \in 1..Depth(e)', stack'[e][n].op = "request"
      PROVE  /\ stack'[e][n].id <= lastId[e]
             /\ \A m \in 1..(n - 1) :
                  stack'[e][m].op = "request" => stack'[e][m].id < stack'[e][n].id
  <2>1. n \in 1..Depth(e) /\ stack'[e][n] = stack[e][n]
    BY <1>2, <1>3
  <2>2. \A m \in 1..(n - 1) : stack'[e][m].op = "request" => stack'[e][m] = stack[e][m]
    BY <1>3
  <2> QED
    BY <1>3, <2>1, <2>2 DEF Ordered
<1>4. \A n \in 1..Depth(Peer(e))' :
        stack'[Peer(e)][n].op = "request" =>
          /\ stack'[Peer(e)][n].id <= lastId[Peer(e)]
          /\ \A m \in 1..(n - 1) :
               stack'[Peer(e)][m].op = "request" => stack'[Peer(e)][m].id < stack'[Peer(e)][n].id
  BY <1>2 DEF Ordered
<1> QED
  BY <1>1, <1>3, <1>4 DEF Ordered

LEMMA NestingStep == Typed /\ Nesting /\ [Next]_vars => Nesting'
<1> SUFFICES ASSUME Typed, Nesting, [Next]_vars PROVE Nesting'
  OBVIOUS
<1> USE DEF Nesting
<1>1. \A d \in Ends : /\ Depth(d) \in Nat /\ wire[d] \in Seq(Frames) /\ lastId[d] \in Ids
                      /\ stack[d] # <<>> => Top(d) = stack[d][Depth(d)] /\ Depth(d) > 0
                      /\ stack[d] = <<>> <=> Depth(d) = 0
                      /\ awaiting[d] \in Ids /\ serving[d] \in Ids /\ cut[d] \in BOOLEAN
  BY Types
<1>2. \A d \in Ends : Peer(d) \in Ends /\ Peer(d) # d /\ Peer(Peer(d)) = d
  BY Peers
<1>3. \A d \in Ends : stack[d] # <<>> => Top(d).id \in Ids \ {0}
  BY Types, Fields
<1>4. ASSUME NEW e \in Ends, Publish(e) PROVE Nesting'
  <2> DEFINE f == Request(lastId[e] + 1, awaiting[e])
  <2>1. Depth(e) = Depth(Peer(e)) /\ Quiet(e) /\ Quiet(Peer(e))
    BY <1>4, Standing DEF Publish
  <2>2. /\ f \in Activities /\ f.op = "request" /\ f.id = lastId[e] + 1
    <3>1. lastId[e] + 1 \in Ids \ {0} /\ awaiting[e] \in Ids
      BY <1>1, <1>4, IdsAre DEF Publish
    <3> QED
      BY <3>1, Records
  <2>3. stack[e] = <<>> => e = "host"
    BY <1>4 DEF Publish, MayAsk, InHandler
  <2>4. stack[e] # <<>> => Top(e).op = "serve"
    BY <1>4 DEF Publish, MayAsk, InHandler
  <2>5. stack' = [stack EXCEPT ![e] = Append(@, f)]
    BY <1>4 DEF Publish
  <2> HIDE DEF f
  <2>6. /\ Depth(e)' = Depth(e) + 1 /\ stack'[e][Depth(e) + 1] = f /\ Top(e)' = f
        /\ \A n \in 1..Depth(e) : stack'[e][n] = stack[e][n]
        /\ stack'[Peer(e)] = stack[Peer(e)] /\ Depth(Peer(e))' = Depth(Peer(e))
    BY <2>2, <2>5, Puts
  <2>7. Alternates' /\ Paired'
    BY <1>1, <1>2, <2>1, <2>2, <2>3, <2>4, <2>6, PutNests
  <2>8. /\ lastId'[e] = lastId[e] + 1 /\ lastId'[Peer(e)] = lastId[Peer(e)]
        /\ sending'[e] /\ sending'[Peer(e)] = sending[Peer(e)] /\ wire' = wire
    BY <1>2, <1>4 DEF Publish, Typed, TypeOK
  <2>9. Turn'
    <3>1. Ahead(e)'
      BY <2>1, <2>2, <2>6 DEF Ahead
    <3>2. Making(e)' /\ ~sending'[Peer(e)]
      BY <2>1, <2>2, <2>6, <2>8 DEF Making, Quiet
    <3> QED
      BY <3>1, <3>2 DEF Turn
  <2>10. Ordered'
    <3>1. ASSUME NEW n \in 1..Depth(e)', stack'[e][n].op = "request"
          PROVE  /\ stack'[e][n].id <= lastId'[e]
                 /\ \A m \in 1..(n - 1) :
                      stack'[e][m].op = "request" => stack'[e][m].id < stack'[e][n].id
      <4>1. \A m \in 1..Depth(e) : stack[e][m].op = "request" => stack[e][m].id <= lastId[e]
        BY DEF Ordered
      <4>2. \A m \in 1..Depth(e) : stack[e][m].id \in Nat
        BY Types, Fields, IdsAre
      <4>3. lastId[e] \in Nat
        BY <1>1, IdsAre
      <4>4. CASE n = Depth(e) + 1
        <5>1. stack'[e][n].id = lastId[e] + 1
          BY <2>2, <2>6, <4>4
        <5>2. \A m \in 1..(n - 1) : m \in 1..Depth(e) /\ stack'[e][m] = stack[e][m]
          BY <1>1, <2>6, <4>4
        <5> QED
          BY <2>8, <4>1, <4>2, <4>3, <5>1, <5>2
      <4>5. CASE n # Depth(e) + 1
        <5>1. n \in 1..Depth(e)
          BY <1>1, <2>6, <4>5
        <5>2. \A m \in 1..(n - 1) : m \in 1..Depth(e)
          BY <1>1, <5>1
        <5>3. /\ stack[e][n].id <= lastId[e]
              /\ \A m \in 1..(n - 1) : stack[e][m].op = "request" => stack[e][m].id < stack[e][n].id
          BY <2>6, <3>1, <5>1 DEF Ordered
        <5> QED
          BY <2>6, <2>8, <4>2, <4>3, <5>1, <5>2, <5>3
      <4> QED
        BY <4>4, <4>5
    <3>2. \A n \in 1..Depth(Peer(e))' :
            stack'[Peer(e)][n].op = "request" =>
              /\ stack'[Peer(e)][n].id <= lastId'[Peer(e)]
              /\ \A m \in 1..(n - 1) :
                   stack'[Peer(e)][m].op = "request" =>
                     stack'[Peer(e)][m].id < stack'[Peer(e)][n].id
      BY <1>2, <2>6, <2>8 DEF Ordered
    <3> QED
      BY <3>1, <3>2, Peers DEF Ordered
  <2> QED
    BY <2>7, <2>9, <2>10
<1>5. ASSUME NEW e \in Ends, SendRequest(e) PROVE Nesting'
  <2>1. /\ stack' = stack /\ lastId' = lastId /\ sending[e]
        /\ Write(e, Frame("req", Top(e).id, FALSE))
    BY <1>5 DEF SendRequest
  <2>2. ~sending'[e] /\ sending'[Peer(e)] = sending[Peer(e)]
    BY <1>2, <1>5 DEF SendRequest, Typed, TypeOK
  <2>3. Ahead(e) /\ Making(e) /\ ~sending[Peer(e)]
    BY <2>1, Standing
  <2>4. Top(e).id \in Ids \ {0}
    <3>1. Depth(e) # 0
      BY <1>1, <1>2, <2>3 DEF Ahead
    <3> QED
      BY <1>1, <1>3, <3>1
  <2>5. /\ Frame("req", Top(e).id, FALSE) \in Frames
        /\ Frame("req", Top(e).id, FALSE).kind = "req"
        /\ Frame("req", Top(e).id, FALSE).id = Top(e).id
    BY <2>4 DEF Frame, Frames
  <2>6. /\ wire'[Peer(e)] = Append(wire[Peer(e)], Frame("req", Top(e).id, FALSE))
        /\ wire'[e] = wire[e]
    BY <2>1, <2>5, Gives
  <2>7. Carries(wire'[Peer(e)], "req", Top(e).id)
    BY <1>1, <1>2, <2>3, <2>5, <2>6, BareSends DEF Making
  <2>8. Bare(wire'[e])
    BY <2>3, <2>6 DEF Making
  <2>9. Turn'
    <3>1. Ahead(e)' /\ Top(e)' = Top(e)
      BY <2>1, <2>3 DEF Ahead, Depth, Top
    <3>2. Asked(e)'
      BY <2>2, <2>7, <2>8, <3>1 DEF Asked
    <3> QED
      BY <2>2, <2>3, <3>1, <3>2 DEF Turn
  <2> QED
    BY <2>1, <2>9 DEF Alternates, Paired, Ordered, Depth
<1>6. ASSUME NEW e \in Ends, SendRefused(e) PROVE Nesting'
  <2>1. /\ stack' = [stack EXCEPT ![e] = Front(@)] /\ lastId' = lastId /\ sending[e]
        /\ wire' = wire
    BY <1>6 DEF SendRefused
  <2>2. ~sending'[e] /\ sending'[Peer(e)] = sending[Peer(e)]
    BY <1>2, <1>6 DEF SendRefused, Typed, TypeOK
  <2>3. Ahead(e) /\ Making(e) /\ ~sending[Peer(e)]
    BY <2>1, Standing
  <2>4. stack[e] # <<>>
    BY <1>1, <1>2, <2>3 DEF Ahead
  <2>5. /\ Depth(e)' = Depth(e) - 1 /\ Depth(e) > 0
        /\ \A n \in 1..(Depth(e) - 1) : stack'[e][n] = stack[e][n]
        /\ stack'[Peer(e)] = stack[Peer(e)] /\ Depth(Peer(e))' = Depth(Peer(e))
    BY <2>1, <2>4, Drops
  <2>6. Alternates' /\ Paired'
    BY <2>1, <2>4, DropNests
  <2>7. Turn'
    <3>1. Depth(e)' = Depth(Peer(e))'
      BY <1>1, <1>2, <2>3, <2>5 DEF Ahead
    <3>2. Quiet(e)' /\ Quiet(Peer(e))'
      BY <2>1, <2>2, <2>3 DEF Quiet, Making
    <3> QED
      BY <3>1, <3>2, LevelTurn
  <2>8. Ordered'
    BY <1>1, <2>1, <2>5, OrderStays
  <2> QED
    BY <2>6, <2>7, <2>8
<1>7. ASSUME NEW e \in Ends, Answered(e) PROVE Nesting'
  <2>1. /\ stack' = [stack EXCEPT ![e] = Front(@)] /\ lastId' = lastId /\ sending' = sending
        /\ Arrived(e, "answer") /\ Read(e) /\ stack[e] # <<>> /\ wire[e] # <<>>
    BY <1>7 DEF Answered, InRequest, Arrived
  <2>2. Ahead(e) /\ AnsweredTo(e) /\ ~sending[Peer(e)]
    BY <2>1, Standing
  <2>3. /\ Depth(e)' = Depth(e) - 1 /\ Depth(e) > 0
        /\ \A n \in 1..(Depth(e) - 1) : stack'[e][n] = stack[e][n]
        /\ stack'[Peer(e)] = stack[Peer(e)] /\ Depth(Peer(e))' = Depth(Peer(e))
    BY <2>1, Drops
  <2>4. Alternates' /\ Paired'
    BY <2>1, DropNests
  <2>5. wire'[e] = Tail(wire[e]) /\ wire'[Peer(e)] = wire[Peer(e)]
    BY <2>1, Takes
  <2>6. Bare(Tail(wire[e]))
    BY <1>1, <2>1, <2>2, CarriesReads DEF AnsweredTo, Arrived
  <2>7. Turn'
    <3>1. Depth(e)' = Depth(Peer(e))'
      BY <1>1, <1>2, <2>2, <2>3 DEF Ahead
    <3>2. Quiet(e)' /\ Quiet(Peer(e))'
      BY <2>1, <2>2, <2>5, <2>6 DEF Quiet, AnsweredTo
    <3> QED
      BY <3>1, <3>2, LevelTurn
  <2>8. Ordered'
    BY <1>1, <2>1, <2>3, OrderStays
  <2> QED
    BY <2>4, <2>7, <2>8
<1>8. ASSUME NEW e \in Ends, Serves(e) PROVE Nesting'
  <2> DEFINE f == Serve(Head(wire[e]).id, serving[e], cut[e])
  <2>1. /\ lastId' = lastId /\ sending' = sending
        /\ Arrived(e, "req") /\ Read(e) /\ wire[e] # <<>>
        /\ stack' = [stack EXCEPT ![e] = Append(@, f)]
    BY <1>8 DEF Serves, Arrived
  <2>2. Ahead(Peer(e)) /\ Asked(Peer(e)) /\ ~sending[e]
    BY <2>1, Standing
  <2>3. wire'[e] = Tail(wire[e]) /\ wire'[Peer(e)] = wire[Peer(e)] /\ Head(wire[e]) \in Frames
    BY <2>1, Takes
  <2>4. Head(wire[e]).id = Top(Peer(e)).id /\ Bare(Tail(wire[e]))
    BY <1>1, <1>2, <2>1, <2>2, CarriesReads DEF Asked, Arrived
  <2>5. f \in Activities /\ f.op = "serve" /\ f.id = Top(Peer(e)).id
    <3>1. Head(wire[e]).id \in Ids \ {0} /\ serving[e] \in Ids /\ cut[e] \in BOOLEAN
      BY <1>1, <2>3, Fields
    <3> QED
      BY <2>4, <3>1, Records
  <2>6. stack[e] = <<>> => e = "guest"
    BY <1>8 DEF Serves, InRequest, InLoop
  <2>7. stack[e] # <<>> => Top(e).op = "request"
    BY <1>8 DEF Serves, InRequest, InLoop
  <2> HIDE DEF f
  <2>8. /\ Depth(e)' = Depth(e) + 1 /\ stack'[e][Depth(e) + 1] = f
        /\ \A n \in 1..Depth(e) : stack'[e][n] = stack[e][n]
        /\ stack'[Peer(e)] = stack[Peer(e)] /\ Depth(Peer(e))' = Depth(Peer(e))
    BY <2>1, <2>5, Puts
  <2>9. Depth(Peer(e)) = Depth(e) + 1 /\ Top(Peer(e)).op = "request"
    BY <1>2, <2>2 DEF Ahead
  <2>10. Top(Peer(e)) = stack[Peer(e)][Depth(e) + 1]
    BY <1>1, <1>2, <2>9
  <2>11. Alternates' /\ Paired'
    BY <2>5, <2>6, <2>7, <2>8, <2>9, <2>10, PutNests
  <2>12. Turn'
    <3>1. Depth(e)' = Depth(Peer(e))'
      BY <2>8, <2>9
    <3>2. Quiet(e)' /\ Quiet(Peer(e))'
      BY <1>2, <2>1, <2>2, <2>3, <2>4 DEF Quiet, Asked
    <3> QED
      BY <3>1, <3>2, LevelTurn
  <2>13. Ordered'
    <3>1. \A n \in 1..Depth(e)' :
            stack'[e][n].op = "request" => n <= Depth(e) /\ stack'[e][n] = stack[e][n]
      BY <1>1, <2>5, <2>8
    <3>2. Depth(e)' \in Nat
      BY <1>1, <2>8
    <3>3. lastId' = lastId
      BY <2>1
    <3> QED
      BY <2>8, <3>1, <3>2, <3>3, OrderStays
  <2> QED
    BY <2>11, <2>12, <2>13
<1>9. ASSUME NEW e \in Ends, Finish(e) PROVE Nesting'
  <2>1. PICK c \in {FALSE, cut[e]} : FinishWith(e, Frame("answer", Top(e).id, c))
    BY <1>9 DEF Finish
  <2> DEFINE f == Frame("answer", Top(e).id, c)
  <2>2. /\ stack' = [stack EXCEPT ![e] = Front(@)] /\ lastId' = lastId /\ sending' = sending
        /\ InHandler(e) /\ stack[e] # <<>> /\ Top(e).op = "serve"
        /\ Write(e, f)
    BY <2>1 DEF FinishWith, InHandler
  <2>3. f \in Frames /\ f.kind = "answer" /\ f.id = Top(e).id
    <3>1. c \in BOOLEAN
      BY <1>1
    <3> QED
      BY <1>3, <2>2, <3>1, Records
  <2> HIDE DEF f
  <2>4. Depth(e) = Depth(Peer(e)) /\ Quiet(e) /\ Quiet(Peer(e))
    BY <2>2, Standing
  <2>5. /\ Depth(e)' = Depth(e) - 1 /\ Depth(e) > 0
        /\ \A n \in 1..(Depth(e) - 1) : stack'[e][n] = stack[e][n]
        /\ stack'[Peer(e)] = stack[Peer(e)] /\ Depth(Peer(e))' = Depth(Peer(e))
    BY <2>2, Drops
  <2>6. Alternates' /\ Paired'
    BY <2>2, DropNests
  <2>7. wire'[Peer(e)] = Append(wire[Peer(e)], f) /\ wire'[e] = wire[e]
    BY <2>2, <2>3, Gives
  <2>8. Top(Peer(e)).op = "request" /\ Top(Peer(e)).id = Top(e).id
    <3>1. Depth(e) \in 1..Depth(e) /\ Depth(e) <= Depth(Peer(e))
      BY <1>1, <1>2, <2>4, <2>5
    <3>2. /\ stack[e][Depth(e)].op # stack[Peer(e)][Depth(e)].op
          /\ stack[e][Depth(e)].id = stack[Peer(e)][Depth(e)].id
      BY <3>1 DEF Paired
    <3>3. Top(e) = stack[e][Depth(e)] /\ Top(Peer(e)) = stack[Peer(e)][Depth(e)]
      BY <1>1, <1>2, <2>4, <2>5
    <3>4. Top(Peer(e)).op \in {"request", "serve"}
      BY <1>1, <1>2, <2>4, <2>5, Types, Fields
    <3> QED
      BY <2>2, <3>2, <3>3, <3>4
  <2>9. Turn'
    <3>1. Top(Peer(e))' = Top(Peer(e))
      BY <2>5 DEF Top
    <3>2. Ahead(Peer(e))'
      BY <1>1, <1>2, <2>4, <2>5, <2>8, <3>1 DEF Ahead
    <3>3. Carries(wire'[Peer(e)], "answer", Top(Peer(e)).id)
      BY <1>1, <1>2, <2>3, <2>4, <2>7, <2>8, BareSends DEF Quiet
    <3>4. AnsweredTo(Peer(e))'
      BY <1>2, <2>2, <2>4, <2>7, <3>1, <3>3 DEF AnsweredTo, Quiet
    <3> QED
      BY <1>2, <2>2, <2>4, <3>2, <3>4 DEF Turn, Quiet
  <2>10. Ordered'
    BY <1>1, <2>2, <2>5, OrderStays
  <2> QED
    BY <2>6, <2>9, <2>10
<1>10. ASSUME NEW e \in Ends, NotesCancel(e) \/ DropsCancel(e) PROVE Nesting'
  <2>1. /\ UNCHANGED <<stack, sending, lastId>> /\ Arrived(e, "cancel") /\ Read(e)
        /\ wire[e] # <<>>
    BY <1>10 DEF NotesCancel, DropsCancel, chanVars, Arrived
  <2>2. wire'[e] = Tail(wire[e]) /\ wire'[Peer(e)] = wire[Peer(e)]
    BY <2>1, Takes
  <2>3. Bare(wire[e]) => Bare(wire'[e])
    BY <1>1, <2>1, <2>2, BareReads
  <2>4. \A k \in {"req", "answer"}, i \in Nat : Carries(wire[e], k, i) => Carries(wire'[e], k, i)
    BY <1>1, <2>1, <2>2, CarriesReads DEF Arrived
  <2>5. Turn'
    BY <2>1, <2>2, <2>3, <2>4, CancelTurn
  <2> QED
    BY <2>1, <2>5 DEF Alternates, Paired, Ordered, Depth
<1>11. ASSUME NEW c \in Cancellers, CancelSends(c) PROVE Nesting'
  <2> DEFINE f == Frame("cancel", target[c], FALSE)
  <2>1. /\ UNCHANGED <<stack, sending, lastId>> /\ Write("host", f)
        /\ target[c] # 0 /\ target[c] \in named
    BY <1>11 DEF CancelSends, chanVars
  <2>2. f \in Frames /\ f.kind = "cancel"
    BY <2>1, Records DEF Typed, TypeOK
  <2> HIDE DEF f
  <2>3. "guest" \in Ends /\ "host" \in Ends /\ Peer("guest") = "host" /\ Peer("host") = "guest"
    BY DEF Ends, Peer
  <2>4. wire'["guest"] = Append(wire["guest"], f) /\ wire'["host"] = wire["host"]
    BY <2>1, <2>2, <2>3, Gives
  <2>5. Bare(wire["guest"]) => Bare(wire'["guest"])
    BY <1>1, <2>2, <2>3, <2>4, BareSends
  <2>6. \A k \in {"req", "answer"}, i \in Nat :
          Carries(wire["guest"], k, i) => Carries(wire'["guest"], k, i)
    BY <1>1, <2>2, <2>3, <2>4, CarriesSends
  <2>7. Turn'
    BY <2>1, <2>3, <2>4, <2>5, <2>6, CancelTurn
  <2> QED
    BY <2>1, <2>7 DEF Alternates, Paired, Ordered, Depth
<1>12. ASSUME UNCHANGED <<stack, sending, lastId, wire>> PROVE Nesting'
  BY <1>12 DEF Alternates, Paired, Ordered, Turn, Level, Quiet, Ahead, Making, Asked,
               AnsweredTo, Depth, Top
<1> QED
  <2>1. ASSUME NEW c \in Cancellers, CancelReads(c) PROVE Nesting'
    BY <1>12, <2>1 DEF CancelReads, chanVars
  <2>2. CASE GuestDies \/ Loses \/ UNCHANGED vars
    BY <1>12, <2>2 DEF GuestDies, Loses, chanVars, vars
  <2> QED
    BY <1>4, <1>5, <1>6, <1>7, <1>8, <1>9, <1>10, <1>11, <2>1, <2>2 DEF Next, Step

-----------------------------------------------------------------------------
(* The books, step by step.                                                *)

LEMMA PutBooks ==
  ASSUME Typed, NEW e \in Ends, NEW f \in Activities, Outers(e),
         Depth(e)' = Depth(e) + 1, stack'[e][Depth(e) + 1] = f, Top(e)' = f,
         \A n \in 1..Depth(e) : stack'[e][n] = stack[e][n],
         stack[e] # <<>> => Top(e).op # f.op,
         f.outer = Book(e, f.op)
  PROVE  /\ Outers(e)' /\ Book(e, f.op)' = f.id
         /\ \A op \in {"request", "serve"} : op # f.op => Book(e, op)' = Book(e, op)
<1>1. /\ Depth(e) \in Nat /\ f.op \in {"request", "serve"}
      /\ stack[e] = <<>> <=> Depth(e) = 0
      /\ stack[e] # <<>> => Top(e).op \in {"request", "serve"}
  BY Types, Fields
<1>2. TopOf(e, f.op) = IF Depth(e) = 0 THEN 0 ELSE Depth(e) - 1
  BY <1>1 DEF TopOf
<1>3. ASSUME NEW n \in 1..Depth(e)'
      PROVE  stack'[e][n].outer = IdAt(e, IF n <= 2 THEN 0 ELSE n - 2)'
  <2>1. CASE n = Depth(e) + 1
    BY <1>1, <1>2, <2>1 DEF Book, IdAt
  <2>2. CASE n # Depth(e) + 1
    <3>1. n \in 1..Depth(e)
      BY <1>1, <2>2
    <3>2. stack[e][n].outer = IdAt(e, IF n <= 2 THEN 0 ELSE n - 2)
      BY <3>1 DEF Outers
    <3> QED
      BY <1>1, <3>1, <3>2 DEF IdAt
  <2> QED
    BY <2>1, <2>2
<1>4. Book(e, f.op)' = f.id
  BY <1>1 DEF Book, IdAt, TopOf
<1>5. ASSUME NEW op \in {"request", "serve"}, op # f.op PROVE Book(e, op)' = Book(e, op)
  <2>1. TopOf(e, op)' = Depth(e)
    BY <1>1, <1>5 DEF TopOf
  <2>2. TopOf(e, op) = Depth(e)
    BY <1>1, <1>5 DEF TopOf
  <2> QED
    BY <1>1, <2>1, <2>2 DEF Book, IdAt
<1> QED
  BY <1>3, <1>4, <1>5 DEF Outers

LEMMA DropBooks ==
  ASSUME Typed, Alternates, NEW e \in Ends, Outers(e), stack[e] # <<>>,
         stack' \in [Ends -> Seq(Activities)],
         Depth(e)' = Depth(e) - 1,
         \A n \in 1..(Depth(e) - 1) : stack'[e][n] = stack[e][n],
         NEW op \in {"request", "serve"}
  PROVE  /\ Outers(e)'
         /\ Book(e, op)' = IF op = Top(e).op THEN Top(e).outer ELSE Book(e, op)
<1>1. /\ Depth(e) \in Nat \ {0} /\ Top(e) = stack[e][Depth(e)]
      /\ Top(e).op \in {"request", "serve"}
      /\ \A n \in 1..Depth(e) : stack[e][n].op \in {"request", "serve"}
  BY Types, Fields
<1>2. Depth(e)' > 0 => Top(e)' = stack[e][Depth(e) - 1] /\ Top(e)'.op # Top(e).op
  <2> SUFFICES ASSUME Depth(e)' > 0
               PROVE  Top(e)' = stack[e][Depth(e) - 1] /\ Top(e)'.op # Top(e).op
    OBVIOUS
  <2>1. Top(e)' = stack'[e][Depth(e)']
    <3>1. stack'[e] \in Seq(Activities) /\ stack'[e] # <<>>
      BY DEF Depth
    <3> QED
      BY <3>1, Popped DEF Top, Depth
  <2>2. Depth(e) - 1 \in 1..(Depth(e) - 1)
    BY <1>1
  <2>3. stack[e][Depth(e) - 1].op # stack[e][Depth(e) - 1 + 1].op
    BY <2>2 DEF Alternates
  <2> QED
    BY <1>1, <2>1, <2>2, <2>3
<1>3. Outers(e)'
  <2> SUFFICES ASSUME NEW n \in 1..Depth(e)'
               PROVE  stack'[e][n].outer = IdAt(e, IF n <= 2 THEN 0 ELSE n - 2)'
    BY DEF Outers
  <2>1. n \in 1..Depth(e) /\ n \in 1..(Depth(e) - 1)
    BY <1>1
  <2>2. stack[e][n].outer = IdAt(e, IF n <= 2 THEN 0 ELSE n - 2)
    BY <2>1 DEF Outers
  <2> QED
    BY <1>1, <2>1, <2>2 DEF IdAt
<1>4. CASE op = Top(e).op
  <2>1. Top(e).outer = IdAt(e, IF Depth(e) <= 2 THEN 0 ELSE Depth(e) - 2)
    BY <1>1 DEF Outers
  <2>2. Depth(e) <= 2 => Top(e).outer = 0
    BY <2>1 DEF IdAt
  <2>3. Depth(e) > 2 => Top(e).outer = stack[e][Depth(e) - 2].id
    BY <1>1, <2>1 DEF IdAt
  <2>4. TopOf(e, op)' = IF Depth(e) <= 2 THEN 0 ELSE Depth(e) - 2
    BY <1>1, <1>2, <1>4 DEF TopOf
  <2>5. Depth(e) > 2 => Depth(e) - 2 \in 1..(Depth(e) - 1)
    BY <1>1
  <2>6. Book(e, op)' = Top(e).outer
    BY <1>1, <2>2, <2>3, <2>4, <2>5 DEF Book, IdAt
  <2> QED
    BY <1>3, <1>4, <2>6
<1>5. CASE op # Top(e).op
  <2>1. TopOf(e, op)' = Depth(e) - 1
    BY <1>1, <1>2, <1>5 DEF TopOf
  <2>2. TopOf(e, op) = Depth(e) - 1
    BY <1>1, <1>5 DEF TopOf
  <2>3. Book(e, op)' = Book(e, op)
    BY <1>1, <2>1, <2>2 DEF Book, IdAt
  <2> QED
    BY <1>3, <1>5, <2>3
<1> QED
  BY <1>4, <1>5

LEMMA BooksStep == Typed /\ Nesting /\ Books /\ [Next]_vars => Books'
<1> SUFFICES ASSUME Typed, Nesting, Books, [Next]_vars PROVE Books'
  OBVIOUS
<1> USE DEF Nesting
<1>1. \A d \in Ends : /\ Depth(d) \in Nat /\ wire[d] \in Seq(Frames) /\ lastId[d] \in Ids
                      /\ stack[d] # <<>> => Top(d) = stack[d][Depth(d)] /\ Depth(d) > 0
                      /\ stack[d] = <<>> <=> Depth(d) = 0
                      /\ awaiting[d] \in Ids /\ serving[d] \in Ids /\ cut[d] \in BOOLEAN
  BY Types
<1>2. \A d \in Ends : Peer(d) \in Ends /\ Peer(d) # d /\ Peer(Peer(d)) = d
  BY Peers
<1>3. ASSUME NEW e \in Ends, stack'[Peer(e)] = stack[Peer(e)],
             Depth(Peer(e))' = Depth(Peer(e)),
             awaiting'[Peer(e)] = awaiting[Peer(e)], serving'[Peer(e)] = serving[Peer(e)],
             Outers(e)', awaiting'[e] = Book(e, "request")', serving'[e] = Book(e, "serve")'
      PROVE  Books'
  <2>1. /\ Outers(Peer(e))' = Outers(Peer(e))
        /\ \A op : Book(Peer(e), op)' = Book(Peer(e), op)
    BY <1>3 DEF Outers, Book, TopOf, IdAt, Top
  <2>2. /\ Outers(Peer(e))' /\ awaiting'[Peer(e)] = Book(Peer(e), "request")'
        /\ serving'[Peer(e)] = Book(Peer(e), "serve")'
    BY <1>2, <1>3, <2>1 DEF Books
  <2> QED
    BY <1>3, <2>2, Peers DEF Books
<1>4. ASSUME NEW e \in Ends, Publish(e) PROVE Books'
  <2> DEFINE f == Request(lastId[e] + 1, awaiting[e])
  <2>1. f \in Activities /\ f.op = "request" /\ f.id = lastId[e] + 1 /\ f.outer = awaiting[e]
    <3>1. lastId[e] + 1 \in Ids \ {0} /\ awaiting[e] \in Ids
      BY <1>1, <1>4, IdsAre DEF Publish
    <3> QED
      BY <3>1, Records
  <2>2. stack[e] # <<>> => Top(e).op = "serve"
    BY <1>4 DEF Publish, MayAsk, InHandler
  <2>3. stack' = [stack EXCEPT ![e] = Append(@, f)]
    BY <1>4 DEF Publish
  <2> HIDE DEF f
  <2>4. /\ Depth(e)' = Depth(e) + 1 /\ stack'[e][Depth(e) + 1] = f /\ Top(e)' = f
        /\ \A n \in 1..Depth(e) : stack'[e][n] = stack[e][n]
        /\ stack'[Peer(e)] = stack[Peer(e)] /\ Depth(Peer(e))' = Depth(Peer(e))
    BY <2>1, <2>3, Puts
  <2>5. Outers(e)' /\ Book(e, "request")' = f.id /\ Book(e, "serve")' = Book(e, "serve")
    BY <2>1, <2>2, <2>4, PutBooks DEF Books
  <2>6. /\ awaiting'[e] = lastId[e] + 1 /\ awaiting'[Peer(e)] = awaiting[Peer(e)]
        /\ serving' = serving
    BY <1>2, <1>4 DEF Publish, Typed, TypeOK
  <2> QED
    BY <1>3, <2>1, <2>4, <2>5, <2>6 DEF Books
<1>5. ASSUME NEW e \in Ends, stack[e] # <<>>, Top(e).op = "request",
             stack' = [stack EXCEPT ![e] = Front(@)],
             awaiting' = [awaiting EXCEPT ![e] = Top(e).outer], serving' = serving
      PROVE  Books'
  <2>1. /\ stack' \in [Ends -> Seq(Activities)] /\ Depth(e)' = Depth(e) - 1
        /\ \A n \in 1..(Depth(e) - 1) : stack'[e][n] = stack[e][n]
        /\ stack'[Peer(e)] = stack[Peer(e)] /\ Depth(Peer(e))' = Depth(Peer(e))
    BY <1>5, Drops
  <2>2. \A op \in {"request", "serve"} :
          /\ Outers(e)'
          /\ Book(e, op)' = IF op = Top(e).op THEN Top(e).outer ELSE Book(e, op)
    BY <1>5, <2>1, DropBooks DEF Books
  <2>3. awaiting'[e] = Top(e).outer /\ awaiting'[Peer(e)] = awaiting[Peer(e)]
    BY <1>2, <1>5 DEF Typed, TypeOK
  <2>4. /\ Outers(e)' /\ Book(e, "request")' = Top(e).outer
        /\ Book(e, "serve")' = Book(e, "serve")
    BY <1>5, <2>2
  <2> QED
    BY <1>3, <1>5, <2>1, <2>3, <2>4 DEF Books
<1>6. ASSUME NEW e \in Ends, SendRefused(e) PROVE Books'
  <2>1. stack[e] # <<>> /\ Top(e).op = "request"
    BY <1>1, <1>2, <1>6, Standing DEF SendRefused, Ahead
  <2> QED
    BY <1>5, <1>6, <2>1 DEF SendRefused
<1>7. ASSUME NEW e \in Ends, Answered(e) PROVE Books'
  BY <1>5, <1>7 DEF Answered, InRequest
<1>8. ASSUME NEW e \in Ends, Serves(e) PROVE Books'
  <2> DEFINE f == Serve(Head(wire[e]).id, serving[e], cut[e])
  <2>1. /\ f \in Activities /\ f.op = "serve" /\ f.id = Head(wire[e]).id
        /\ f.outer = serving[e]
    <3>1. Head(wire[e]).id \in Ids \ {0} /\ serving[e] \in Ids /\ cut[e] \in BOOLEAN
      BY <1>1, <1>8, Takes, Fields DEF Serves, Arrived
    <3> QED
      BY <3>1, Records
  <2>2. stack[e] # <<>> => Top(e).op = "request"
    BY <1>8 DEF Serves, InRequest, InLoop
  <2>3. stack' = [stack EXCEPT ![e] = Append(@, f)]
    BY <1>8 DEF Serves
  <2> HIDE DEF f
  <2>4. /\ Depth(e)' = Depth(e) + 1 /\ stack'[e][Depth(e) + 1] = f /\ Top(e)' = f
        /\ \A n \in 1..Depth(e) : stack'[e][n] = stack[e][n]
        /\ stack'[Peer(e)] = stack[Peer(e)] /\ Depth(Peer(e))' = Depth(Peer(e))
    BY <2>1, <2>3, Puts
  <2>5. Outers(e)' /\ Book(e, "serve")' = f.id /\ Book(e, "request")' = Book(e, "request")
    BY <2>1, <2>2, <2>4, PutBooks DEF Books
  <2>6. /\ serving'[e] = Head(wire[e]).id /\ serving'[Peer(e)] = serving[Peer(e)]
        /\ awaiting' = awaiting
    BY <1>2, <1>8 DEF Serves, Typed, TypeOK
  <2> QED
    BY <1>3, <2>1, <2>4, <2>5, <2>6 DEF Books
<1>9. ASSUME NEW e \in Ends, Finish(e) PROVE Books'
  <2>1. /\ stack[e] # <<>> /\ Top(e).op = "serve" /\ awaiting' = awaiting
        /\ stack' = [stack EXCEPT ![e] = Front(@)]
        /\ serving' = [serving EXCEPT ![e] = Top(e).outer]
    BY <1>9 DEF Finish, FinishWith, InHandler
  <2>2. /\ stack' \in [Ends -> Seq(Activities)] /\ Depth(e)' = Depth(e) - 1
        /\ \A n \in 1..(Depth(e) - 1) : stack'[e][n] = stack[e][n]
        /\ stack'[Peer(e)] = stack[Peer(e)] /\ Depth(Peer(e))' = Depth(Peer(e))
    BY <2>1, Drops
  <2>3. \A op \in {"request", "serve"} :
          /\ Outers(e)'
          /\ Book(e, op)' = IF op = Top(e).op THEN Top(e).outer ELSE Book(e, op)
    BY <2>1, <2>2, DropBooks DEF Books
  <2>4. serving'[e] = Top(e).outer /\ serving'[Peer(e)] = serving[Peer(e)]
    BY <1>2, <2>1 DEF Typed, TypeOK
  <2>5. /\ Outers(e)' /\ Book(e, "serve")' = Top(e).outer
        /\ Book(e, "request")' = Book(e, "request")
    BY <2>1, <2>3
  <2> QED
    BY <1>3, <2>1, <2>2, <2>4, <2>5 DEF Books
<1>10. ASSUME UNCHANGED <<stack, awaiting, serving>> PROVE Books'
  BY <1>10 DEF Books, Outers, Book, TopOf, IdAt, Top, Depth
<1>11. ASSUME NEW e \in Ends, SendRequest(e) \/ NotesCancel(e) \/ DropsCancel(e) PROVE Books'
  BY <1>10, <1>11 DEF SendRequest, NotesCancel, DropsCancel, chanVars
<1>12. ASSUME NEW c \in Cancellers, CancelReads(c) \/ CancelSends(c) PROVE Books'
  BY <1>10, <1>12 DEF CancelReads, CancelSends, chanVars
<1>13. CASE GuestDies \/ Loses \/ UNCHANGED vars
  BY <1>10, <1>13 DEF GuestDies, Loses, chanVars, vars
<1> QED
  BY <1>4, <1>6, <1>7, <1>8, <1>9, <1>11, <1>12, <1>13 DEF Next, Step

-----------------------------------------------------------------------------
(* What was cancelled, step by step.                                       *)

\* A part that a step leaves alone is named as before, and more names only help.
LEMMA NamedStays ==
  ASSUME NEW d \in Ends, named \subseteq named'
  PROVE  /\ FlagNamed(d) /\ cut'[d] = cut[d] /\ serving'[d] = serving[d] => FlagNamed(d)'
         /\ CallsNamed(d) /\ stack'[d] = stack[d] => CallsNamed(d)'
         /\ WireNamed(d) /\ wire'[d] = wire[d] => WireNamed(d)'
BY DEF FlagNamed, CallsNamed, CallNamed, WireNamed, FrameNamed, Depth

LEMMA PutNamed ==
  ASSUME Typed, NEW e \in Ends, NEW f \in Activities, named' = named, CallsNamed(e),
         CallNamed(e, f), stack' = [stack EXCEPT ![e] = Append(@, f)]
  PROVE  CallsNamed(e)'
<1>1. /\ Depth(e)' = Depth(e) + 1 /\ stack'[e][Depth(e) + 1] = f
      /\ \A n \in 1..Depth(e) : stack'[e][n] = stack[e][n]
  BY Puts
<1>2. Depth(e) \in Nat
  BY Types
<1>3. ASSUME NEW n \in 1..Depth(e)' PROVE CallNamed(e, stack'[e][n])
  <2>1. CASE n = Depth(e) + 1
    BY <1>1, <2>1
  <2>2. CASE n # Depth(e) + 1
    <3>1. n \in 1..Depth(e)
      BY <1>1, <1>2, <2>2
    <3> QED
      BY <1>1, <3>1 DEF CallsNamed
  <2> QED
    BY <2>1, <2>2
<1> QED
  BY <1>3 DEF CallsNamed, CallNamed

LEMMA DropNamed ==
  ASSUME Typed, NEW e \in Ends, named' = named, CallsNamed(e), stack[e] # <<>>,
         stack' = [stack EXCEPT ![e] = Front(@)]
  PROVE  CallsNamed(e)'
<1>1. /\ Depth(e)' = Depth(e) - 1 /\ Depth(e) > 0
      /\ \A n \in 1..(Depth(e) - 1) : stack'[e][n] = stack[e][n]
  BY Drops
<1>2. Depth(e) \in Nat
  BY Types
<1> QED
  BY <1>1, <1>2 DEF CallsNamed, CallNamed

LEMMA GiveNamed ==
  ASSUME Typed, NEW e \in Ends, NEW f \in Frames, named' = named, WireNamed(Peer(e)),
         WireNamed(e), FrameNamed(Peer(e), f), Write(e, f)
  PROVE  WireNamed(e)' /\ WireNamed(Peer(e))'
<1>1. /\ wire'[Peer(e)] = Append(wire[Peer(e)], f) /\ wire'[e] = wire[e]
  BY Gives
<1>2. wire[Peer(e)] \in Seq(Frames)
  BY Types, Peers
<1>3. /\ Len(wire'[Peer(e)]) = Len(wire[Peer(e)]) + 1 /\ Len(wire[Peer(e)]) \in Nat
      /\ \A n \in 1..Len(wire[Peer(e)]) : wire'[Peer(e)][n] = wire[Peer(e)][n]
      /\ wire'[Peer(e)][Len(wire[Peer(e)]) + 1] = f
  BY <1>1, <1>2, Pushed
<1>4. \A n \in 1..Len(wire'[Peer(e)]) : FrameNamed(Peer(e), wire'[Peer(e)][n])
  BY <1>3 DEF WireNamed
<1>5. WireNamed(Peer(e))'
  BY <1>4 DEF WireNamed, FrameNamed
<1> QED
  BY <1>1, <1>5 DEF WireNamed, FrameNamed

LEMMA TakeNamed ==
  ASSUME Typed, NEW e \in Ends, named' = named, WireNamed(Peer(e)), WireNamed(e),
         wire[e] # <<>>, Read(e)
  PROVE  WireNamed(e)' /\ WireNamed(Peer(e))' /\ FrameNamed(e, Head(wire[e]))
<1>1. /\ wire'[e] = Tail(wire[e]) /\ wire'[Peer(e)] = wire[Peer(e)]
      /\ wire[e] \in Seq(Frames)
  BY Takes, Types
<1>2. /\ Len(Tail(wire[e])) = Len(wire[e]) - 1 /\ Len(wire[e]) \in Nat \ {0}
      /\ \A n \in 1..(Len(wire[e]) - 1) : Tail(wire[e])[n] = wire[e][n + 1]
      /\ Head(wire[e]) = wire[e][1]
  BY <1>1, Shifted
<1>3. \A n \in 1..Len(wire'[e]) : FrameNamed(e, wire'[e][n])
  BY <1>1, <1>2 DEF WireNamed
<1>4. WireNamed(e)'
  BY <1>3 DEF WireNamed, FrameNamed
<1> QED
  BY <1>1, <1>2, <1>4 DEF WireNamed, FrameNamed

LEMMA CutsAreNamedStep ==
  Typed /\ Nesting /\ Books /\ CutsAreNamed /\ [Next]_vars => CutsAreNamed'
<1> SUFFICES ASSUME Typed, Nesting, Books, CutsAreNamed, [Next]_vars PROVE CutsAreNamed'
  OBVIOUS
<1> USE DEF Nesting
<1>1. \A d \in Ends : /\ Depth(d) \in Nat /\ lastId[d] \in Ids
                      /\ stack[d] # <<>> => Top(d) = stack[d][Depth(d)] /\ Depth(d) > 0
                      /\ stack[d] # <<>> => Top(d).id \in Ids \ {0}
                      /\ stack[d] = <<>> <=> Depth(d) = 0
                      /\ awaiting[d] \in Ids /\ serving[d] \in Ids /\ cut[d] \in BOOLEAN
  BY Types, Fields
<1>2. \A d \in Ends : Peer(d) \in Ends /\ Peer(d) # d /\ Peer(Peer(d)) = d
  BY Peers
<1>3. \A d \in Ends : FlagNamed(d) /\ CallsNamed(d) /\ WireNamed(d)
  BY DEF CutsAreNamed
<1>4. ASSUME NEW e \in Ends, named' = named, stack'[Peer(e)] = stack[Peer(e)],
             serving'[Peer(e)] = serving[Peer(e)], cut'[Peer(e)] = cut[Peer(e)],
             FlagNamed(e)', CallsNamed(e)', WireNamed(e)', WireNamed(Peer(e))'
      PROVE  CutsAreNamed'
  <2>1. FlagNamed(Peer(e))' /\ CallsNamed(Peer(e))'
    BY <1>2, <1>3, <1>4, NamedStays
  <2> QED
    BY <1>4, <2>1, Peers DEF CutsAreNamed
<1>5. ASSUME NEW e \in Ends, Publish(e) PROVE CutsAreNamed'
  <2> DEFINE f == Request(lastId[e] + 1, awaiting[e])
  <2>1. f \in Activities /\ ~f.cut
    <3>1. lastId[e] + 1 \in Ids \ {0} /\ awaiting[e] \in Ids
      BY <1>1, <1>5, IdsAre DEF Publish
    <3> QED
      BY <3>1, Records
  <2>2. /\ stack' = [stack EXCEPT ![e] = Append(@, f)]
        /\ UNCHANGED <<serving, cut, wire, named>>
    BY <1>5 DEF Publish
  <2> HIDE DEF f
  <2>3. CallsNamed(e)' /\ stack'[Peer(e)] = stack[Peer(e)]
    BY <1>3, <2>1, <2>2, PutNamed, Puts DEF CallNamed
  <2>4. FlagNamed(e)' /\ WireNamed(e)' /\ WireNamed(Peer(e))'
    BY <1>2, <1>3, <2>2, NamedStays
  <2> QED
    BY <1>4, <2>2, <2>3, <2>4
<1>6. ASSUME NEW e \in Ends, SendRequest(e) PROVE CutsAreNamed'
  <2>1. /\ UNCHANGED <<stack, serving, cut, named>> /\ sending[e]
        /\ Write(e, Frame("req", Top(e).id, FALSE))
    BY <1>6 DEF SendRequest
  <2>2. stack[e] # <<>>
    BY <1>1, <1>2, <2>1, Standing DEF Ahead
  <2>3. Top(e).id \in Ids \ {0}
    BY <1>1, <2>2
  <2>4. /\ Frame("req", Top(e).id, FALSE) \in Frames
        /\ FrameNamed(Peer(e), Frame("req", Top(e).id, FALSE))
    BY <2>3 DEF Frame, Frames, FrameNamed
  <2>5. WireNamed(e)' /\ WireNamed(Peer(e))'
    BY <1>2, <1>3, <2>1, <2>4, GiveNamed
  <2>6. FlagNamed(e)' /\ CallsNamed(e)'
    BY <1>3, <2>1, NamedStays
  <2> QED
    BY <1>4, <2>1, <2>5, <2>6
<1>7. ASSUME NEW e \in Ends, SendRefused(e) PROVE CutsAreNamed'
  <2>1. stack[e] # <<>>
    BY <1>1, <1>2, <1>7, Standing DEF SendRefused, Ahead
  <2>2. /\ stack' = [stack EXCEPT ![e] = Front(@)]
        /\ UNCHANGED <<serving, cut, wire, named>>
    BY <1>7 DEF SendRefused
  <2>3. CallsNamed(e)' /\ stack'[Peer(e)] = stack[Peer(e)]
    BY <1>3, <2>1, <2>2, DropNamed, Drops
  <2>4. FlagNamed(e)' /\ WireNamed(e)' /\ WireNamed(Peer(e))'
    BY <1>2, <1>3, <2>2, NamedStays
  <2> QED
    BY <1>4, <2>2, <2>3, <2>4
<1>8. ASSUME NEW e \in Ends, Answered(e) PROVE CutsAreNamed'
  <2>1. /\ stack' = [stack EXCEPT ![e] = Front(@)] /\ stack[e] # <<>>
        /\ Read(e) /\ wire[e] # <<>> /\ UNCHANGED <<serving, cut, named>>
    BY <1>8 DEF Answered, InRequest, Arrived
  <2>2. CallsNamed(e)' /\ stack'[Peer(e)] = stack[Peer(e)]
    BY <1>3, <2>1, DropNamed, Drops
  <2>3. WireNamed(e)' /\ WireNamed(Peer(e))'
    BY <1>2, <1>3, <2>1, TakeNamed
  <2>4. FlagNamed(e)'
    BY <1>3, <2>1, NamedStays
  <2> QED
    BY <1>4, <2>1, <2>2, <2>3, <2>4
<1>9. ASSUME NEW e \in Ends, Serves(e) PROVE CutsAreNamed'
  <2> DEFINE f == Serve(Head(wire[e]).id, serving[e], cut[e])
  <2>1. f \in Activities /\ f.cut = cut[e] /\ f.outer = serving[e]
    <3>1. Head(wire[e]).id \in Ids \ {0} /\ serving[e] \in Ids /\ cut[e] \in BOOLEAN
      BY <1>1, <1>9, Takes, Fields DEF Serves, Arrived
    <3> QED
      BY <3>1, Records
  <2>2. /\ stack' = [stack EXCEPT ![e] = Append(@, f)] /\ named' = named
        /\ Read(e) /\ wire[e] # <<>>
        /\ serving' = [serving EXCEPT ![e] = Head(wire[e]).id]
        /\ cut' = [cut EXCEPT ![e] = FALSE]
    BY <1>9 DEF Serves, Arrived
  <2> HIDE DEF f
  <2>3. CallNamed(e, f)
    BY <1>3, <2>1 DEF CallNamed, FlagNamed
  <2>4. CallsNamed(e)' /\ stack'[Peer(e)] = stack[Peer(e)]
    BY <1>3, <2>1, <2>2, <2>3, PutNamed, Puts
  <2>5. WireNamed(e)' /\ WireNamed(Peer(e))'
    BY <1>2, <1>3, <2>2, TakeNamed
  <2>6. /\ ~cut'[e] /\ cut'[Peer(e)] = cut[Peer(e)]
        /\ serving'[Peer(e)] = serving[Peer(e)]
    BY <1>2, <2>2 DEF Typed, TypeOK
  <2> QED
    BY <1>4, <2>2, <2>4, <2>5, <2>6 DEF FlagNamed
<1>10. ASSUME NEW e \in Ends, Finish(e) PROVE CutsAreNamed'
  <2>1. PICK c \in {FALSE, cut[e]} : FinishWith(e, Frame("answer", Top(e).id, c))
    BY <1>10 DEF Finish
  <2> DEFINE f == Frame("answer", Top(e).id, c)
  <2>2. /\ stack' = [stack EXCEPT ![e] = Front(@)] /\ stack[e] # <<>> /\ Top(e).op = "serve"
        /\ Write(e, f) /\ named' = named
        /\ serving' = [serving EXCEPT ![e] = Top(e).outer]
        /\ cut' = [cut EXCEPT ![e] = Top(e).cut]
    BY <2>1 DEF FinishWith, InHandler
  <2>3. f \in Frames /\ f.kind = "answer" /\ f.id = Top(e).id /\ f.cut = c
    <3>1. c \in BOOLEAN
      BY <1>1
    <3> QED
      BY <1>1, <2>2, <3>1, Records
  <2> HIDE DEF f
  <2>4. serving[e] = Top(e).id
    BY <1>1, <2>2 DEF Books, Book, TopOf, IdAt
  <2>5. FrameNamed(Peer(e), f)
    BY <1>3, <2>3, <2>4 DEF FrameNamed, FlagNamed, Peer
  <2>6. WireNamed(e)' /\ WireNamed(Peer(e))'
    BY <1>2, <1>3, <2>2, <2>3, <2>5, GiveNamed
  <2>7. CallsNamed(e)' /\ stack'[Peer(e)] = stack[Peer(e)]
    BY <1>3, <2>2, DropNamed, Drops
  <2>8. CallNamed(e, Top(e))
    BY <1>1, <1>3, <2>2 DEF CallsNamed
  <2>9. /\ cut'[e] = Top(e).cut /\ serving'[e] = Top(e).outer
        /\ cut'[Peer(e)] = cut[Peer(e)] /\ serving'[Peer(e)] = serving[Peer(e)]
    BY <1>2, <2>2 DEF Typed, TypeOK
  <2>10. FlagNamed(e)'
    BY <2>2, <2>8, <2>9 DEF FlagNamed, CallNamed
  <2> QED
    BY <1>4, <2>2, <2>6, <2>7, <2>9, <2>10
<1>11. ASSUME NEW e \in Ends, NotesCancel(e) PROVE CutsAreNamed'
  <2>1. /\ UNCHANGED <<stack, serving, named>> /\ Read(e) /\ wire[e] # <<>>
        /\ Head(wire[e]).kind = "cancel" /\ Note(e, Head(wire[e]).id)
    BY <1>11 DEF NotesCancel, Arrived
  <2>2. WireNamed(e)' /\ WireNamed(Peer(e))' /\ FrameNamed(e, Head(wire[e]))
    BY <1>2, <1>3, <2>1, TakeNamed
  <2>3. /\ cut'[e] => cut[e] \/ serving[e] = Head(wire[e]).id
        /\ cut'[Peer(e)] = cut[Peer(e)]
    BY <1>2, <2>1 DEF Note, Typed, TypeOK
  <2>4. FlagNamed(e)' /\ CallsNamed(e)'
    BY <1>3, <2>1, <2>2, <2>3, NamedStays DEF FlagNamed, FrameNamed
  <2> QED
    BY <1>4, <2>1, <2>2, <2>3, <2>4
<1>12. ASSUME NEW e \in Ends, DropsCancel(e) PROVE CutsAreNamed'
  <2>1. UNCHANGED <<stack, serving, cut, named>> /\ Read(e) /\ wire[e] # <<>>
    BY <1>12 DEF DropsCancel, Arrived, chanVars
  <2>2. WireNamed(e)' /\ WireNamed(Peer(e))'
    BY <1>2, <1>3, <2>1, TakeNamed
  <2>3. FlagNamed(e)' /\ CallsNamed(e)'
    BY <1>3, <2>1, NamedStays
  <2> QED
    BY <1>4, <2>1, <2>2, <2>3
<1>13. ASSUME NEW c \in Cancellers, CancelSends(c) PROVE CutsAreNamed'
  <2>1. /\ UNCHANGED <<stack, serving, cut, named>> /\ target[c] # 0 /\ target[c] \in named
        /\ Write("host", Frame("cancel", target[c], FALSE))
    BY <1>13 DEF CancelSends, chanVars
  <2>2. /\ Frame("cancel", target[c], FALSE) \in Frames
        /\ FrameNamed("guest", Frame("cancel", target[c], FALSE))
    BY <2>1 DEF Frame, Frames, FrameNamed, Typed, TypeOK
  <2>3. "host" \in Ends /\ Peer("host") = "guest"
    BY DEF Ends, Peer
  <2>4. WireNamed("host")' /\ WireNamed("guest")'
    BY <1>2, <1>3, <2>1, <2>2, <2>3, GiveNamed
  <2>5. FlagNamed("host")' /\ CallsNamed("host")'
    BY <1>3, <2>1, <2>3, NamedStays
  <2> QED
    BY <1>4, <2>1, <2>3, <2>4, <2>5
<1>14. ASSUME UNCHANGED <<stack, serving, cut, wire>>, named \subseteq named' PROVE CutsAreNamed'
  BY <1>3, <1>14, NamedStays DEF CutsAreNamed
<1>15. ASSUME NEW c \in Cancellers, CancelReads(c) PROVE CutsAreNamed'
  BY <1>14, <1>15 DEF CancelReads, chanVars
<1>16. CASE GuestDies \/ Loses \/ UNCHANGED vars
  BY <1>14, <1>16 DEF GuestDies, Loses, chanVars, vars
<1> QED
  BY <1>5, <1>6, <1>7, <1>8, <1>9, <1>10, <1>11, <1>12, <1>13, <1>15, <1>16 DEF Next, Step

-----------------------------------------------------------------------------
(* The invariant, and what it gives.                                       *)

LEMMA InvInit == Init => ChannelInv
<1> SUFFICES ASSUME Init PROVE ChannelInv
  OBVIOUS
<1>1. Typed
  BY TypedInit
<1>2. \A e \in Ends : /\ Depth(e) = 0 /\ Len(wire[e]) = 0 /\ ~sending[e] /\ ~cut[e]
                      /\ awaiting[e] = 0 /\ serving[e] = 0
  BY DEF Init, Depth
<1>3. Nesting
  BY <1>2, Peers DEF Nesting, Alternates, Paired, Turn, Level, Quiet, Bare, Ordered
<1>4. Books /\ CutsAreNamed
  BY <1>2 DEF Books, Outers, Book, TopOf, IdAt, CutsAreNamed, FlagNamed, CallsNamed, WireNamed
<1> QED
  BY <1>1, <1>3, <1>4 DEF ChannelInv

LEMMA InvStep == ChannelInv /\ [Next]_vars => ChannelInv'
BY TypeStep, NestingStep, BooksStep, CutsAreNamedStep DEF ChannelInv

\* Requests nest: the frames of the two ends are one chain of calls, one end at a
\* time is at work on it, and the books are what that chain says.
THEOREM ChannelNests == Spec => []ChannelInv
<1>1. Init => ChannelInv
  BY InvInit
<1>2. ChannelInv /\ [Next]_vars => ChannelInv'
  BY InvStep
<1> QED
  BY <1>1, <1>2, PTL DEF Spec

LEMMA FrameFits == Typed /\ Nesting => FramesFit
<1> SUFFICES ASSUME Typed, Nesting, NEW e \in Ends, wire[e] # <<>>
             PROVE  /\ InRequest(e) /\ Head(wire[e]).kind = "answer"
                         => Head(wire[e]).id = Top(e).id
                    /\ InLoop(e) => Head(wire[e]).kind # "answer"
                    /\ InHandler(e) => Head(wire[e]).kind = "cancel"
  BY DEF FramesFit
<1> USE DEF Nesting
<1>1. wire[e] \in Seq(Frames) /\ Depth(e) \in Nat /\ Depth(Peer(e)) \in Nat
  BY Types, Peers
<1>2. Head(wire[e]).kind = "answer" => Ahead(e) /\ AnsweredTo(e)
  BY Standing DEF Arrived
<1>3. Head(wire[e]).kind = "answer" => Head(wire[e]).id = Top(e).id
  BY <1>1, <1>2, CarriesReads DEF AnsweredTo
<1>4. Head(wire[e]).kind = "answer" => stack[e] # <<>>
  BY <1>1, <1>2, Types DEF Ahead
<1>5. InHandler(e) => Head(wire[e]).kind = "cancel"
  BY <1>1, Standing, BareReads DEF Quiet
<1> QED
  BY <1>3, <1>4, <1>5 DEF InLoop

LEMMA OneIsAtWork == Typed /\ Nesting => NeverBothWait
<1> SUFFICES ASSUME Typed, Nesting, \A e \in Ends : Waits(e) PROVE FALSE
  BY DEF NeverBothWait
<1> USE DEF Nesting
<1>1. \A e \in Ends : /\ Depth(e) \in Nat /\ wire[e] \in Seq(Frames)
                      /\ stack[e] # <<>> => Top(e) = stack[e][Depth(e)] /\ Depth(e) > 0
                      /\ stack[e] = <<>> <=> Depth(e) = 0
  BY Types
<1>2. \A e \in Ends : /\ Bare(wire[e])
                      /\ stack[e] # <<>> => Top(e).op = "request" /\ ~sending[e]
                      /\ stack[e] = <<>> => e = "guest"
  BY DEF Waits, Bare, InRequest, InLoop
<1>3. ASSUME Level PROVE FALSE
  <2> DEFINE n == Depth("host")
  <2>1. "host" \in Ends /\ "guest" \in Ends /\ Peer("host") = "guest"
    BY DEF Ends, Peer
  <2>2. n \in Nat \ {0} /\ Depth("guest") = n
    BY <1>1, <1>2, <1>3, <2>1 DEF Level
  <2>3. /\ stack["host"][n].op = "request" /\ stack["guest"][n].op = "request"
    BY <1>1, <1>2, <2>1, <2>2
  <2>4. stack["host"][n].op # stack["guest"][n].op
    BY <2>1, <2>2 DEF Paired
  <2> QED
    BY <2>3, <2>4
<1>4. ASSUME NEW e \in Ends, Ahead(e), Making(e) \/ Asked(e) \/ AnsweredTo(e) PROVE FALSE
  <2>1. Peer(e) \in Ends /\ Depth(Peer(e)) \in Nat
    BY <1>1, Peers
  <2>2. stack[e] # <<>>
    BY <1>1, <1>4, <2>1 DEF Ahead
  <2>3. ~Making(e)
    BY <1>2, <2>2 DEF Making
  <2>4. ~Asked(e) /\ ~AnsweredTo(e)
    BY <1>1, <1>2, <2>1, CarriesOne DEF Asked, AnsweredTo
  <2> QED
    BY <1>4, <2>3, <2>4
<1> QED
  BY <1>3, <1>4 DEF Turn

\* The innermost frame of a kind is the top one or the one under it.
LEMMA BookIsInnermost ==
  ASSUME Typed, Alternates, NEW e \in Ends, NEW op \in {"request", "serve"}
  PROVE  Innermost(e, op) = Book(e, op)
<1> DEFINE S == {n \in 1..Len(stack[e]) : stack[e][n].op = op}
           t == TopOf(e, op)
<1>1. /\ Depth(e) \in Nat /\ Depth(e) = Len(stack[e])
      /\ Depth(e) > 0 => Top(e) = stack[e][Depth(e)]
      /\ \A n \in 1..Depth(e) : stack[e][n].op \in {"request", "serve"}
  BY Types, Fields DEF Depth
<1>2. /\ t = 0 => S = {}
      /\ t # 0 => t \in S /\ \A m \in S : m <= t
  <2>1. CASE Depth(e) = 0
    BY <1>1, <2>1 DEF TopOf
  <2>2. CASE Depth(e) > 0 /\ Top(e).op = op
    BY <1>1, <2>2 DEF TopOf
  <2>3. CASE Depth(e) > 0 /\ Top(e).op # op
    <3>1. t = Depth(e) - 1 /\ Depth(e) \notin S
      BY <1>1, <2>3 DEF TopOf
    <3>2. \A m \in S : m <= t
      BY <1>1, <3>1
    <3>3. ASSUME t # 0 PROVE t \in S
      <4> DEFINE d == Depth(e) - 1
      <4>1. d # 0 /\ Depth(e) \in Nat
        BY <1>1, <3>1, <3>3
      <4>2. d \in 1..(Depth(e) - 1) /\ d + 1 = Depth(e)
        BY <2>3, <4>1
      <4>3. stack[e][d].op # stack[e][d + 1].op
        BY <4>2 DEF Alternates
      <4>4. d \in 1..Depth(e) /\ stack[e][d].op = op
        BY <1>1, <2>3, <4>2, <4>3
      <4> QED
        BY <1>1, <3>1, <4>4
    <3>4. t = 0 => S = {}
      BY <1>1, <2>3, <3>1
    <3> QED
      BY <3>2, <3>3, <3>4
  <2> QED
    BY <1>1, <2>1, <2>2, <2>3
<1> HIDE DEF t
<1>3. CASE t = 0
  BY <1>2, <1>3 DEF Innermost, Book, IdAt, t
<1>4. CASE t # 0
  <2> DEFINE c == CHOOSE n \in S : \A m \in S : m <= n
  <2>1. \A n \in S : (\A m \in S : m <= n) => n = t
    BY <1>1, <1>2, <1>4
  <2>2. c = t /\ S # {}
    BY <1>2, <1>4, <2>1
  <2>3. Innermost(e, op) = IF S = {} THEN 0 ELSE stack[e][c].id
    BY DEF Innermost
  <2> HIDE DEF S, c
  <2>4. Book(e, op) = IF t = 0 THEN 0 ELSE stack[e][t].id
    BY DEF Book, IdAt, t
  <2> QED
    BY <1>4, <2>2, <2>3, <2>4
<1> QED
  BY <1>3, <1>4

LEMMA BooksAgree == Typed /\ Nesting /\ Books => BooksMatch
BY BookIsInnermost DEF BooksMatch, Books, Nesting

\* Every book, frame and flag of the channel is of its type, whatever nests.
THEOREM ChannelTyped == Spec => []TypeOK
<1>1. ChannelInv => TypeOK
  BY DEF ChannelInv, Typed
<1> QED
  BY <1>1, ChannelNests, PTL

\* Correct ends never raise a ProtocolError: request(), serve() and a handler that
\* reads the channel each meet a frame that they can take.
THEOREM FramesAlwaysFit == Spec => []FramesFit
<1>1. ChannelInv => FramesFit
  BY FrameFits DEF ChannelInv
<1> QED
  BY <1>1, ChannelNests, PTL

\* The two ends never wait for each other, however deep they call back.
THEOREM NoMutualWait == Spec => []NeverBothWait
<1>1. ChannelInv => NeverBothWait
  BY OneIsAtWork DEF ChannelInv
<1> QED
  BY <1>1, ChannelNests, PTL

\* awaiting and serving name the innermost request of each side, after any unwinding.
THEOREM BooksAlwaysMatch == Spec => []BooksMatch
<1>1. ChannelInv => BooksMatch
  BY BooksAgree DEF ChannelInv
<1> QED
  BY <1>1, ChannelNests, PTL

-----------------------------------------------------------------------------
(* Rpc: which requests are open, served or answered, as calls come and go. *)

\* How the frames of an end name requests.
LEMMA PutOpens ==
  ASSUME Typed, NEW e \in Ends, NEW f \in Activities,
         stack' = [stack EXCEPT ![e] = Append(@, f)]
  PROVE  \A i : /\ OpenAt(e, i)' <=> OpenAt(e, i) \/ (f.op = "request" /\ f.id = i)
                /\ ServedAt(e, i)' <=> ServedAt(e, i) \/ (f.op = "serve" /\ f.id = i)
                /\ OpenAt(Peer(e), i)' <=> OpenAt(Peer(e), i)
                /\ ServedAt(Peer(e), i)' <=> ServedAt(Peer(e), i)
<1>1. /\ Depth(e)' = Depth(e) + 1 /\ stack'[e][Depth(e) + 1] = f
      /\ \A n \in 1..Depth(e) : stack'[e][n] = stack[e][n]
      /\ stack'[Peer(e)] = stack[Peer(e)] /\ Depth(Peer(e))' = Depth(Peer(e))
  BY Puts
<1>2. Depth(e) \in Nat
  BY Types
<1>3. \A op, i : (\E n \in 1..Depth(e)' : stack'[e][n].op = op /\ stack'[e][n].id = i)
                 <=> \/ \E n \in 1..Depth(e) : stack[e][n].op = op /\ stack[e][n].id = i
                     \/ f.op = op /\ f.id = i
  <2>1. \A n \in 1..Depth(e)' : n = Depth(e) + 1 \/ n \in 1..Depth(e)
    BY <1>1, <1>2
  <2>2. Depth(e) + 1 \in 1..Depth(e)' /\ \A n \in 1..Depth(e) : n \in 1..Depth(e)'
    BY <1>1, <1>2
  <2> QED
    BY <1>1, <2>1, <2>2
<1> QED
  BY <1>1, <1>3 DEF OpenAt, ServedAt, Depth

LEMMA DropOpens ==
  ASSUME Typed, NEW e \in Ends, stack[e] # <<>>, stack' = [stack EXCEPT ![e] = Front(@)],
         \A n \in 1..(Depth(e) - 1) :
           stack[e][n].op = Top(e).op => stack[e][n].id # Top(e).id
  PROVE  \A i : /\ OpenAt(e, i)' <=> OpenAt(e, i) /\ ~(Top(e).op = "request" /\ Top(e).id = i)
                /\ ServedAt(e, i)' <=> ServedAt(e, i) /\ ~(Top(e).op = "serve" /\ Top(e).id = i)
                /\ OpenAt(Peer(e), i)' <=> OpenAt(Peer(e), i)
                /\ ServedAt(Peer(e), i)' <=> ServedAt(Peer(e), i)
<1>1. /\ Depth(e)' = Depth(e) - 1 /\ Depth(e) > 0
      /\ \A n \in 1..(Depth(e) - 1) : stack'[e][n] = stack[e][n]
      /\ stack'[Peer(e)] = stack[Peer(e)] /\ Depth(Peer(e))' = Depth(Peer(e))
  BY Drops
<1>2. Depth(e) \in Nat /\ Top(e) = stack[e][Depth(e)]
  BY Types
<1>3. \A op, i : (\E n \in 1..Depth(e)' : stack'[e][n].op = op /\ stack'[e][n].id = i)
                 <=> /\ \E n \in 1..Depth(e) : stack[e][n].op = op /\ stack[e][n].id = i
                     /\ ~(Top(e).op = op /\ Top(e).id = i)
  <2>1. \A n \in 1..Depth(e) : n = Depth(e) \/ n \in 1..(Depth(e) - 1)
    BY <1>2
  <2>2. /\ \A n \in 1..(Depth(e) - 1) : n \in 1..Depth(e) /\ n \in 1..Depth(e)'
        /\ \A n \in 1..Depth(e)' : n \in 1..(Depth(e) - 1)
    BY <1>1, <1>2
  <2> QED
    BY <1>1, <1>2, <2>1, <2>2
<1>4. \A i : OpenAt(e, i)' <=> OpenAt(e, i) /\ ~(Top(e).op = "request" /\ Top(e).id = i)
  BY <1>3 DEF OpenAt, Depth
<1>5. \A i : ServedAt(e, i)' <=> ServedAt(e, i) /\ ~(Top(e).op = "serve" /\ Top(e).id = i)
  BY <1>3 DEF ServedAt, Depth
<1>6. \A i : /\ OpenAt(Peer(e), i)' <=> OpenAt(Peer(e), i)
             /\ ServedAt(Peer(e), i)' <=> ServedAt(Peer(e), i)
  BY <1>1 DEF OpenAt, ServedAt, Depth
<1> QED
  BY <1>4, <1>5, <1>6

LEMMA TakeInWire ==
  ASSUME Typed, NEW e \in Ends, wire[e] # <<>>, Read(e)
  PROVE  \A i : /\ InWire(e, "answer", i) <=>
                     \/ InWire(e, "answer", i)'
                     \/ Head(wire[e]).kind = "answer" /\ Head(wire[e]).id = i
                /\ InWire(Peer(e), "answer", i)' <=> InWire(Peer(e), "answer", i)
<1>1. /\ wire'[e] = Tail(wire[e]) /\ wire'[Peer(e)] = wire[Peer(e)]
      /\ wire[e] \in Seq(Frames)
  BY Takes, Types
<1>2. /\ Len(wire'[e]) = Len(wire[e]) - 1 /\ Len(wire[e]) \in Nat \ {0}
      /\ \A n \in 1..(Len(wire[e]) - 1) : wire'[e][n] = wire[e][n + 1]
      /\ Head(wire[e]) = wire[e][1]
  BY <1>1, Shifted
<1>3. ASSUME NEW i, InWire(e, "answer", i)
      PROVE  \/ InWire(e, "answer", i)'
             \/ Head(wire[e]).kind = "answer" /\ Head(wire[e]).id = i
  <2>1. PICK n \in 1..Len(wire[e]) : wire[e][n].kind = "answer" /\ wire[e][n].id = i
    BY <1>3 DEF InWire
  <2>2. CASE n = 1
    BY <1>2, <2>1, <2>2
  <2>3. CASE n # 1
    <3>1. n - 1 \in 1..Len(wire'[e]) /\ wire'[e][n - 1] = wire[e][n]
      BY <1>2, <2>3
    <3> QED
      BY <2>1, <3>1 DEF InWire
  <2> QED
    BY <2>2, <2>3
<1>4. ASSUME NEW i, InWire(e, "answer", i)' PROVE InWire(e, "answer", i)
  <2>1. PICK n \in 1..Len(wire'[e]) : wire'[e][n].kind = "answer" /\ wire'[e][n].id = i
    BY <1>4 DEF InWire
  <2>2. n + 1 \in 1..Len(wire[e]) /\ wire'[e][n] = wire[e][n + 1]
    BY <1>2
  <2> QED
    BY <2>1, <2>2 DEF InWire
<1>5. 1 \in 1..Len(wire[e])
  BY <1>2
<1> QED
  BY <1>1, <1>2, <1>3, <1>4, <1>5 DEF InWire

LEMMA GiveInWire ==
  ASSUME Typed, NEW e \in Ends, NEW f \in Frames, Write(e, f)
  PROVE  \A i : /\ InWire(Peer(e), "answer", i)' <=>
                     InWire(Peer(e), "answer", i) \/ (f.kind = "answer" /\ f.id = i)
                /\ InWire(e, "answer", i)' <=> InWire(e, "answer", i)
<1>1. /\ wire'[Peer(e)] = Append(wire[Peer(e)], f) /\ wire'[e] = wire[e]
      /\ wire[Peer(e)] \in Seq(Frames)
  BY Gives, Types, Peers
<1> DEFINE w == wire[Peer(e)]
<1>2. /\ Len(wire'[Peer(e)]) = Len(w) + 1 /\ Len(w) \in Nat
      /\ \A n \in 1..Len(w) : wire'[Peer(e)][n] = w[n]
      /\ wire'[Peer(e)][Len(w) + 1] = f
  BY <1>1, Pushed
<1>3. /\ \A n \in 1..Len(wire'[Peer(e)]) : n = Len(w) + 1 \/ n \in 1..Len(w)
      /\ Len(w) + 1 \in 1..Len(wire'[Peer(e)])
      /\ \A n \in 1..Len(w) : n \in 1..Len(wire'[Peer(e)])
  BY <1>2
<1> QED
  BY <1>1, <1>2, <1>3 DEF InWire

\* Of the frames of one kind, the top one has the highest id.
LEMMA TopIsLast ==
  ASSUME Typed, Nesting, NEW e \in Ends, stack[e] # <<>>,
         Top(e).op = "serve" => Depth(e) = Depth(Peer(e))
  PROVE  \A n \in 1..(Depth(e) - 1) :
           stack[e][n].op = Top(e).op => stack[e][n].id < Top(e).id
<1> USE DEF Nesting
<1>1. /\ Depth(e) \in Nat /\ Depth(e) > 0 /\ Top(e) = stack[e][Depth(e)]
      /\ \A n \in 1..Depth(e) : stack[e][n].op \in {"request", "serve"}
      /\ \A n \in 1..Depth(Peer(e)) : stack[Peer(e)][n].op \in {"request", "serve"}
  BY Types, Peers, Fields
<1>2. CASE Top(e).op = "request"
  BY <1>1, <1>2 DEF Ordered
<1>3. CASE Top(e).op = "serve"
  <2>1. \A n \in 1..Depth(e) : /\ stack[e][n].op # stack[Peer(e)][n].op
                               /\ stack[e][n].id = stack[Peer(e)][n].id
    BY <1>1, <1>3 DEF Paired
  <2>2. stack[Peer(e)][Depth(e)].op = "request"
    BY <1>1, <1>3, <2>1
  <2>3. \A m \in 1..(Depth(e) - 1) :
          stack[Peer(e)][m].op = "request" => stack[Peer(e)][m].id < stack[Peer(e)][Depth(e)].id
    BY <1>1, <1>3, <2>2, Peers DEF Ordered
  <2>4. ASSUME NEW n \in 1..(Depth(e) - 1), stack[e][n].op = "serve"
        PROVE  stack[e][n].id < Top(e).id
    <3>1. n \in 1..Depth(e) /\ Depth(e) \in 1..Depth(e)
      BY <1>1
    <3>2. stack[Peer(e)][n].op = "request"
      BY <1>1, <1>3, <2>1, <2>4, <3>1
    <3> QED
      BY <1>1, <2>1, <2>3, <3>1, <3>2
  <2> QED
    BY <1>3, <2>4
<1> QED
  BY <1>1, <1>2, <1>3

\* An open request is one of those made; a request on top is the last one open, and
\* the peer serves no later one.
LEMMA OpenIsMade ==
  ASSUME Typed, Nesting, NEW e \in Ends, NEW i, OpenAt(e, i)
  PROVE  i \in 1..MaxId /\ i <= lastId[e]
<1>1. PICK n \in 1..Len(stack[e]) : stack[e][n].op = "request" /\ stack[e][n].id = i
  BY DEF OpenAt
<1>2. i \in Ids \ {0}
  BY <1>1, Types, Fields DEF Depth
<1>3. i <= lastId[e]
  BY <1>1 DEF Nesting, Ordered, Depth
<1> QED
  BY <1>2, <1>3, ChannelParameters DEF Ids

LEMMA TopIsOpen ==
  ASSUME Typed, NEW e \in Ends, stack[e] # <<>>
  PROVE  /\ Top(e).op = "request" => OpenAt(e, Top(e).id)
         /\ Top(e).op = "serve" => ServedAt(e, Top(e).id)
<1>1. Top(e) = stack[e][Depth(e)] /\ Depth(e) \in 1..Depth(e)
  BY Types
<1> QED
  BY <1>1 DEF OpenAt, ServedAt, Depth

LEMMA NoLaterOpen ==
  ASSUME Typed, Nesting, NEW e \in Ends, stack[e] # <<>>, Top(e).op = "request"
  PROVE  \A i : OpenAt(e, i) => i <= Top(e).id
<1>1. Depth(e) \in Nat \ {0} /\ Top(e) = stack[e][Depth(e)] /\ Top(e).id \in Nat
  BY Types, Fields, IdsAre
<1>2. \A n \in 1..(Depth(e) - 1) : stack[e][n].op = "request" => stack[e][n].id < Top(e).id
  BY TopIsLast
<1>3. ASSUME NEW n \in 1..Depth(e), stack[e][n].op = "request" PROVE stack[e][n].id <= Top(e).id
  <2>1. n = Depth(e) \/ n \in 1..(Depth(e) - 1)
    BY <1>1
  <2>2. stack[e][n].id \in Nat
    BY Types, Fields, IdsAre
  <2> QED
    BY <1>1, <1>2, <1>3, <2>1, <2>2
<1> QED
  BY <1>3 DEF OpenAt, Depth

LEMMA NoLaterServed ==
  ASSUME Typed, Nesting, NEW e \in Ends, Depth(Peer(e)) <= Depth(e), stack[e] # <<>>,
         Top(e).op = "request"
  PROVE  \A i : ServedAt(Peer(e), i) =>
                  i <= Top(e).id /\ (Depth(Peer(e)) < Depth(e) => i < Top(e).id)
<1> USE DEF Nesting
<1>1. /\ Depth(e) \in Nat \ {0} /\ Top(e) = stack[e][Depth(e)] /\ Top(e).id \in Nat
      /\ Depth(Peer(e)) \in Nat /\ Peer(e) \in Ends
  BY Types, Fields, IdsAre, Peers
<1>2. \A n \in 1..(Depth(e) - 1) : stack[e][n].op = "request" => stack[e][n].id < Top(e).id
  BY TopIsLast
<1>3. ASSUME NEW n \in 1..Depth(Peer(e)), stack[Peer(e)][n].op = "serve"
      PROVE  /\ stack[Peer(e)][n].id <= Top(e).id
             /\ Depth(Peer(e)) < Depth(e) => stack[Peer(e)][n].id < Top(e).id
  <2>1. n \in 1..Depth(e)
    BY <1>1
  <2>2. /\ stack[e][n].op # stack[Peer(e)][n].op /\ stack[e][n].id = stack[Peer(e)][n].id
    BY <2>1 DEF Paired
  <2>3. stack[e][n].op = "request" /\ stack[e][n].id \in Nat
    BY <1>3, <2>1, <2>2, Types, Fields, IdsAre
  <2>4. CASE n = Depth(e)
    BY <1>1, <2>2, <2>4
  <2>5. CASE n # Depth(e)
    <3>1. n \in 1..(Depth(e) - 1)
      BY <1>1, <2>1, <2>5
    <3> QED
      BY <1>1, <1>2, <2>2, <2>3, <3>1
  <2> QED
    BY <2>4, <2>5
<1> QED
  BY <1>3 DEF ServedAt, Depth

-----------------------------------------------------------------------------
(* Rpc: how far each request has got.                                      *)

Asks == Ends \X (1..MaxId)
StageMap == [r \in Asks |-> StageOf(r)]
NamedAsks == {<<"host", i>> : i \in named}

LEMMA StageParts ==
  ASSUME NEW e \in Ends, NEW i \in 1..MaxId
  PROVE  /\ StageOf(<<e, i>>) =
              IF i > lastId[e] THEN "new"
              ELSE IF ~OpenAt(e, i) THEN "done"
              ELSE IF sending[e] /\ i = lastId[e] THEN "made"
              ELSE IF InWire(e, "answer", i) THEN "answered"
              ELSE IF ServedAt(Peer(e), i) THEN "served"
              ELSE "asked"
         /\ StageOf(<<e, i>>)' =
              IF i > lastId'[e] THEN "new"
              ELSE IF ~OpenAt(e, i)' THEN "done"
              ELSE IF sending'[e] /\ i = lastId'[e] THEN "made"
              ELSE IF InWire(e, "answer", i)' THEN "answered"
              ELSE IF ServedAt(Peer(e), i)' THEN "served"
              ELSE "asked"
BY DEF StageOf

LEMMA StageStays ==
  ASSUME NEW e \in Ends, NEW i \in 1..MaxId,
         i > lastId'[e] <=> i > lastId[e],
         OpenAt(e, i)' <=> OpenAt(e, i),
         (sending'[e] /\ i = lastId'[e]) <=> (sending[e] /\ i = lastId[e]),
         InWire(e, "answer", i)' <=> InWire(e, "answer", i),
         ServedAt(Peer(e), i)' <=> ServedAt(Peer(e), i)
  PROVE  StageOf(<<e, i>>)' = StageOf(<<e, i>>)
BY StageParts

LEMMA MapMoves ==
  ASSUME NEW e \in Ends, NEW i \in 1..MaxId, NEW from, NEW to,
         StageOf(<<e, i>>) = from, StageOf(<<e, i>>)' = to,
         \A d \in Ends, j \in 1..MaxId :
           d # e \/ j # i => StageOf(<<d, j>>)' = StageOf(<<d, j>>)
  PROVE  Abstract!Move(<<e, i>>, from, to) /\ <<e, i>> \in Abstract!Requests
<1>1. <<e, i>> \in Asks /\ Abstract!Requests = Asks
  BY DEF Asks, Abstract!Requests
<1>2. StageMap[<<e, i>>] = from
  BY <1>1 DEF StageMap
<1>3. ASSUME NEW q \in Asks, q # <<e, i>> PROVE StageOf(q)' = StageOf(q)
  <2>1. PICK d \in Ends, j \in 1..MaxId : q = <<d, j>>
    BY DEF Asks
  <2> QED
    BY <1>3, <2>1
<1>4. StageMap' = [StageMap EXCEPT ![<<e, i>>] = to]
  BY <1>1, <1>3 DEF StageMap
<1> QED
  BY <1>1, <1>2, <1>4 DEF Abstract!Move, StageMap, Asks

LEMMA MapStays ==
  ASSUME \A d \in Ends, j \in 1..MaxId : StageOf(<<d, j>>)' = StageOf(<<d, j>>)
  PROVE  StageMap' = StageMap
<1>1. ASSUME NEW q \in Asks PROVE StageOf(q)' = StageOf(q)
  <2>1. PICK d \in Ends, j \in 1..MaxId : q = <<d, j>>
    BY DEF Asks
  <2> QED
    BY <2>1
<1> QED
  BY <1>1 DEF StageMap

LEMMA MapInit == Init => Abstract!Init
<1> SUFFICES ASSUME Init PROVE Abstract!Init
  OBVIOUS
<1>1. \A d \in Ends, j \in 1..MaxId : StageOf(<<d, j>>) = "new"
  BY ChannelParameters DEF Init, StageOf
<1>2. \A q \in Ends \X (1..MaxId) : StageOf(q) = "new"
  <2> SUFFICES ASSUME NEW q \in Ends \X (1..MaxId) PROVE StageOf(q) = "new"
    OBVIOUS
  <2>1. PICK d \in Ends, j \in 1..MaxId : q = <<d, j>>
    OBVIOUS
  <2> QED
    BY <1>1, <2>1
<1>3. {<<"host", i>> : i \in named} = {} /\ cutShort = {} /\ lost = FALSE
  BY DEF Init
<1> QED
  BY <1>2, <1>3 DEF Abstract!Init, Abstract!Requests

\* What the channel's actions are to Rpc.
LEMMA MapStep == ChannelInv /\ [Next]_vars => [Abstract!Next]_(Abstract!vars)
<1> SUFFICES ASSUME ChannelInv, [Next]_vars PROVE [Abstract!Next]_(Abstract!vars)
  OBVIOUS
<1>1. Typed /\ Nesting /\ Books /\ CutsAreNamed /\ Alternates /\ Paired /\ Turn /\ Ordered
  BY DEF ChannelInv, Nesting
<1>2. \A d \in Ends : Peer(d) \in Ends /\ Peer(d) # d /\ Peer(Peer(d)) = d
  BY Peers
<1>3. \A d, q \in Ends : q = d \/ q = Peer(d)
  BY Peers
<1>4. \A d \in Ends : /\ Depth(d) \in Nat /\ wire[d] \in Seq(Frames)
                      /\ lastId[d] \in Nat /\ lastId[d] <= MaxId
                      /\ stack[d] # <<>> => Depth(d) > 0 /\ Top(d).id \in 1..MaxId
                      /\ stack[d] = <<>> <=> Depth(d) = 0
                      /\ awaiting[d] \in Ids /\ serving[d] \in Ids /\ cut[d] \in BOOLEAN
  <2>1. \A d \in Ends : stack[d] # <<>> => Top(d).id \in Ids \ {0}
    BY <1>1, Types, Fields
  <2>2. Ids = 0..MaxId /\ MaxId \in Nat
    BY ChannelParameters DEF Ids
  <2> QED
    BY <1>1, <2>1, <2>2, Types
\* A step that moves one request, one that names one, one that does neither.
<1>5. ASSUME UNCHANGED <<cutShort, named, lost>>,
             \A d \in Ends, j \in 1..MaxId : StageOf(<<d, j>>)' = StageOf(<<d, j>>)
      PROVE  [Abstract!Next]_(Abstract!vars)
  BY <1>5, MapStays DEF StageMap, Asks, Abstract!vars
<1>6. ASSUME NEW r \in Abstract!Requests, ~lost, lost' = lost,
             \/ Abstract!Make(r) \/ Abstract!Ask(r) \/ Abstract!Take(r)
             \/ Abstract!Answer(r) \/ Abstract!Return(r) \/ Abstract!Cancel(r)
      PROVE  [Abstract!Next]_(Abstract!vars)
  BY <1>6 DEF Abstract!Next
<1>7. ASSUME NEW e \in Ends, Publish(e) PROVE [Abstract!Next]_(Abstract!vars)
  <2>0. PICK i \in 1..MaxId : i = lastId[e] + 1
    BY <1>4, <1>7, ChannelParameters DEF Publish
  <2> USE <2>0
  <2> DEFINE f == Request(i, awaiting[e])
  <2>1. i \in 1..MaxId /\ i \in Ids \ {0}
    BY <1>4, <1>7, ChannelParameters DEF Publish, Ids
  <2>2. f \in Activities /\ f.op = "request" /\ f.id = i
    BY <1>4, <2>1, Records
  <2>3. /\ stack' = [stack EXCEPT ![e] = Append(@, f)] /\ ~lost
        /\ UNCHANGED <<wire, named, cutShort, lost>>
    BY <1>7 DEF Publish, Runs
  <2>4. /\ lastId'[e] = i /\ lastId'[Peer(e)] = lastId[Peer(e)]
        /\ sending'[e] /\ sending'[Peer(e)] = sending[Peer(e)]
    BY <1>1, <1>2, <1>7 DEF Publish, Typed, TypeOK
  <2>5. ~sending[e]
    BY <1>1, <1>7, Standing DEF Publish, Quiet
  <2> HIDE DEF f
  <2>6. \A j : /\ OpenAt(e, j)' <=> OpenAt(e, j) \/ i = j
               /\ ServedAt(e, j)' <=> ServedAt(e, j)
               /\ OpenAt(Peer(e), j)' <=> OpenAt(Peer(e), j)
               /\ ServedAt(Peer(e), j)' <=> ServedAt(Peer(e), j)
    BY <1>1, <2>2, <2>3, PutOpens
  <2>7. \A d, j : d \in Ends => (InWire(d, "answer", j)' <=> InWire(d, "answer", j))
    BY <2>3 DEF InWire
  <2>8. StageOf(<<e, i>>) = "new" /\ StageOf(<<e, i>>)' = "made"
    BY <1>4, <2>1, <2>4, <2>6, StageParts
  <2>9. \A d \in Ends, j \in 1..MaxId :
          d # e \/ j # i => StageOf(<<d, j>>)' = StageOf(<<d, j>>)
    <3>1. ASSUME NEW j \in 1..MaxId, j # i PROVE StageOf(<<e, j>>)' = StageOf(<<e, j>>)
      <4>1. j > lastId'[e] <=> j > lastId[e]
        BY <1>4, <2>4, <3>1
      <4> QED
        BY <2>4, <2>5, <2>6, <2>7, <3>1, <4>1, StageStays
    <3>2. ASSUME NEW j \in 1..MaxId PROVE StageOf(<<Peer(e), j>>)' = StageOf(<<Peer(e), j>>)
      BY <1>2, <2>4, <2>6, <2>7, StageStays
    <3> QED
      BY <1>3, <3>1, <3>2
  <2>10. Abstract!Move(<<e, i>>, "new", "made") /\ <<e, i>> \in Abstract!Requests
    BY <2>1, <2>8, <2>9, MapMoves
  <2>11. \A q \in Abstract!Requests : q[1] = e /\ q[2] < i => StageOf(q) # "new"
    <3> SUFFICES ASSUME NEW j \in 1..MaxId, j < i PROVE StageOf(<<e, j>>) # "new"
      BY DEF Abstract!Requests
    <3>1. ~(j > lastId[e])
      BY <1>4
    <3> QED
      BY <3>1, StageParts
  <2>12. Abstract!Make(<<e, i>>)
    BY <2>3, <2>10, <2>11 DEF Abstract!Make, Abstract!Requests
  <2> QED
    BY <1>6, <2>3, <2>10, <2>12
<1>8. ASSUME NEW e \in Ends, SendRequest(e) PROVE [Abstract!Next]_(Abstract!vars)
  <2>0. PICK i \in 1..MaxId : i = Top(e).id
    <3>1. stack[e] # <<>>
      BY <1>1, <1>2, <1>4, <1>8, Standing DEF SendRequest, Ahead
    <3> QED
      BY <1>4, <3>1
  <2> USE <2>0
  <2> DEFINE f == Frame("req", i, FALSE)
  <2>1. /\ UNCHANGED <<stack, lastId, named, cutShort, lost>> /\ ~lost /\ sending[e]
        /\ Write(e, f)
    BY <1>8 DEF SendRequest, Runs
  <2>2. ~sending'[e] /\ sending'[Peer(e)] = sending[Peer(e)]
    BY <1>1, <1>2, <1>8 DEF SendRequest, Typed, TypeOK
  <2>3. Ahead(e) /\ Making(e)
    BY <1>1, <2>1, Standing
  <2>4. /\ stack[e] # <<>> /\ Top(e).op = "request" /\ i = lastId[e]
        /\ Depth(Peer(e)) < Depth(e) /\ Depth(Peer(e)) <= Depth(e)
    BY <1>2, <1>4, <2>3 DEF Ahead, Making
  <2>5. i \in 1..MaxId /\ OpenAt(e, i) /\ ~ServedAt(Peer(e), i)
    <3>1. OpenAt(e, i)
      BY <1>1, <2>4, TopIsOpen
    <3>2. ~ServedAt(Peer(e), i)
      <4>1. ServedAt(Peer(e), i) => i < Top(e).id
        BY <1>1, <2>4, NoLaterServed
      <4> QED
        BY <4>1
    <3> QED
      BY <3>1, <3>2
  <2>6. f \in Frames /\ f.kind # "answer"
    <3>1. i \in Ids \ {0}
      BY <2>5, ChannelParameters DEF Ids
    <3> QED
      BY <3>1 DEF Frame, Frames
  <2> HIDE DEF f
  <2>7. \A d, j : d \in Ends => (InWire(d, "answer", j)' <=> InWire(d, "answer", j))
    BY <1>1, <1>3, <2>1, <2>6, GiveInWire
  <2>8. ~InWire(e, "answer", i)
    BY <2>3 DEF Making, Bare, InWire
  <2>9. \A d, j : d \in Ends => /\ OpenAt(d, j)' <=> OpenAt(d, j)
                                /\ ServedAt(d, j)' <=> ServedAt(d, j)
    BY <2>1 DEF OpenAt, ServedAt
  <2>10. StageOf(<<e, i>>) = "made" /\ StageOf(<<e, i>>)' = "asked"
    BY <1>2, <1>4, <2>1, <2>2, <2>4, <2>5, <2>7, <2>8, <2>9, StageParts
  <2>11. \A d \in Ends, j \in 1..MaxId :
           d # e \/ j # i => StageOf(<<d, j>>)' = StageOf(<<d, j>>)
    <3>1. ASSUME NEW j \in 1..MaxId, j # i PROVE StageOf(<<e, j>>)' = StageOf(<<e, j>>)
      BY <1>2, <2>1, <2>4, <2>7, <2>9, <3>1, StageStays
    <3>2. ASSUME NEW j \in 1..MaxId PROVE StageOf(<<Peer(e), j>>)' = StageOf(<<Peer(e), j>>)
      BY <1>2, <2>1, <2>2, <2>7, <2>9, StageStays
    <3> QED
      BY <1>3, <3>1, <3>2
  <2>12. Abstract!Move(<<e, i>>, "made", "asked") /\ <<e, i>> \in Abstract!Requests
    BY <2>5, <2>10, <2>11, MapMoves
  <2>13. Abstract!Ask(<<e, i>>)
    BY <2>1, <2>12 DEF Abstract!Ask
  <2> QED
    BY <1>6, <2>1, <2>12, <2>13
<1>9. ASSUME NEW e \in Ends, SendRefused(e) PROVE [Abstract!Next]_(Abstract!vars)
  <2>0. PICK i \in 1..MaxId : i = Top(e).id
    <3>1. stack[e] # <<>>
      BY <1>1, <1>2, <1>4, <1>9, Standing DEF SendRefused, Ahead
    <3> QED
      BY <1>4, <3>1
  <2> USE <2>0
  <2>1. /\ UNCHANGED <<wire, lastId, named, cutShort, lost>> /\ ~lost /\ sending[e]
        /\ stack' = [stack EXCEPT ![e] = Front(@)]
    BY <1>9 DEF SendRefused, Runs
  <2>2. ~sending'[e] /\ sending'[Peer(e)] = sending[Peer(e)]
    BY <1>1, <1>2, <1>9 DEF SendRefused, Typed, TypeOK
  <2>3. Ahead(e) /\ Making(e)
    BY <1>1, <2>1, Standing
  <2>4. stack[e] # <<>> /\ Top(e).op = "request" /\ i = lastId[e]
    BY <1>2, <1>4, <2>3 DEF Ahead, Making
  <2>5. i \in 1..MaxId /\ OpenAt(e, i)
    BY <1>1, <1>4, <2>4, TopIsOpen
  <2>6. \A n \in 1..(Depth(e) - 1) :
          stack[e][n].op = Top(e).op => stack[e][n].id # Top(e).id
    <3>1. \A n \in 1..(Depth(e) - 1) : n \in 1..Depth(e)
      BY <1>4
    <3>2. \A n \in 1..Depth(e) : stack[e][n].id \in Nat
      BY <1>1, Types, Fields, IdsAre
    <3>3. \A n \in 1..(Depth(e) - 1) :
            stack[e][n].op = Top(e).op => stack[e][n].id < Top(e).id
      BY <1>1, <2>4, <2>5, TopIsLast
    <3> QED
      BY <3>1, <3>2, <3>3
  <2>7. \A j : /\ OpenAt(e, j)' <=> OpenAt(e, j) /\ i # j
               /\ ServedAt(e, j)' <=> ServedAt(e, j)
               /\ OpenAt(Peer(e), j)' <=> OpenAt(Peer(e), j)
               /\ ServedAt(Peer(e), j)' <=> ServedAt(Peer(e), j)
    BY <1>1, <2>1, <2>4, <2>6, DropOpens
  <2>8. \A d, j : d \in Ends => (InWire(d, "answer", j)' <=> InWire(d, "answer", j))
    BY <2>1 DEF InWire
  <2>9. StageOf(<<e, i>>) = "made" /\ StageOf(<<e, i>>)' = "done"
    BY <1>4, <2>1, <2>4, <2>5, <2>7, StageParts
  <2>10. \A d \in Ends, j \in 1..MaxId :
           d # e \/ j # i => StageOf(<<d, j>>)' = StageOf(<<d, j>>)
    <3>1. ASSUME NEW j \in 1..MaxId, j # i PROVE StageOf(<<e, j>>)' = StageOf(<<e, j>>)
      BY <1>2, <2>1, <2>4, <2>7, <2>8, <3>1, StageStays
    <3>2. ASSUME NEW j \in 1..MaxId PROVE StageOf(<<Peer(e), j>>)' = StageOf(<<Peer(e), j>>)
      BY <1>2, <2>1, <2>2, <2>7, <2>8, StageStays
    <3> QED
      BY <1>3, <3>1, <3>2
  <2>11. Abstract!Move(<<e, i>>, "made", "done") /\ <<e, i>> \in Abstract!Requests
    BY <2>5, <2>9, <2>10, MapMoves
  <2>12. Abstract!Ask(<<e, i>>)
    BY <2>1, <2>11 DEF Abstract!Ask
  <2> QED
    BY <1>6, <2>1, <2>11, <2>12
<1>10. ASSUME NEW e \in Ends, Answered(e) PROVE [Abstract!Next]_(Abstract!vars)
  <2>0. PICK i \in 1..MaxId : i = Top(e).id
    BY <1>4, <1>10 DEF Answered, InRequest
  <2> USE <2>0
  <2>1. /\ UNCHANGED <<lastId, sending, named, lost>> /\ ~lost /\ ~sending[e]
        /\ stack' = [stack EXCEPT ![e] = Front(@)] /\ stack[e] # <<>> /\ Top(e).op = "request"
        /\ Read(e) /\ wire[e] # <<>> /\ Head(wire[e]).kind = "answer" /\ Head(wire[e]).id = i
        /\ cutShort' = IF Head(wire[e]).cut THEN cutShort \cup {<<e, i>>} ELSE cutShort
    BY <1>10 DEF Answered, Runs, InRequest, Arrived
  <2>2. i \in 1..MaxId /\ OpenAt(e, i) /\ i <= lastId[e]
    BY <1>1, <1>4, <2>1, TopIsOpen, OpenIsMade
  <2>3. \A n \in 1..(Depth(e) - 1) :
          stack[e][n].op = Top(e).op => stack[e][n].id # Top(e).id
    <3>1. \A n \in 1..(Depth(e) - 1) : n \in 1..Depth(e)
      BY <1>4
    <3>2. \A n \in 1..Depth(e) : stack[e][n].id \in Nat
      BY <1>1, Types, Fields, IdsAre
    <3>3. \A n \in 1..(Depth(e) - 1) :
            stack[e][n].op = Top(e).op => stack[e][n].id < Top(e).id
      BY <1>1, <2>1, <2>2, TopIsLast
    <3> QED
      BY <3>1, <3>2, <3>3
  <2>4. \A j : /\ OpenAt(e, j)' <=> OpenAt(e, j) /\ i # j
               /\ ServedAt(e, j)' <=> ServedAt(e, j)
               /\ OpenAt(Peer(e), j)' <=> OpenAt(Peer(e), j)
               /\ ServedAt(Peer(e), j)' <=> ServedAt(Peer(e), j)
    BY <1>1, <2>1, <2>3, DropOpens
  <2>5. \A j : /\ InWire(e, "answer", j) <=> InWire(e, "answer", j)' \/ i = j
               /\ InWire(Peer(e), "answer", j)' <=> InWire(Peer(e), "answer", j)
    BY <1>1, <2>1, TakeInWire
  <2>6. StageOf(<<e, i>>) = "answered" /\ StageOf(<<e, i>>)' = "done"
    BY <1>4, <2>1, <2>2, <2>4, <2>5, StageParts
  <2>7. \A d \in Ends, j \in 1..MaxId :
          d # e \/ j # i => StageOf(<<d, j>>)' = StageOf(<<d, j>>)
    <3>1. ASSUME NEW j \in 1..MaxId, j # i PROVE StageOf(<<e, j>>)' = StageOf(<<e, j>>)
      BY <1>2, <2>1, <2>4, <2>5, <3>1, StageStays
    <3>2. ASSUME NEW j \in 1..MaxId PROVE StageOf(<<Peer(e), j>>)' = StageOf(<<Peer(e), j>>)
      BY <1>2, <2>1, <2>4, <2>5, StageStays
    <3> QED
      BY <1>3, <3>1, <3>2
  <2>8. Abstract!Move(<<e, i>>, "answered", "done") /\ <<e, i>> \in Abstract!Requests
    BY <2>2, <2>6, <2>7, MapMoves
  <2>9. \A q \in Abstract!Later(<<e, i>>) : q \notin Abstract!Open
    <3> SUFFICES ASSUME NEW j \in 1..MaxId, j > i PROVE StageOf(<<e, j>>) \in {"new", "done"}
      BY DEF Abstract!Later, Abstract!Open, Abstract!Requests
    <3>1. ~OpenAt(e, j)
      BY <1>1, <2>1, <2>2, NoLaterOpen
    <3> QED
      BY <3>1, StageParts
  <2>10. Head(wire[e]).cut => <<e, i>> \in NamedAsks
    <3>1. FrameNamed(e, Head(wire[e]))
      <4>1. Head(wire[e]) = wire[e][1] /\ 1 \in 1..Len(wire[e])
        BY <1>4, <2>1
      <4> QED
        BY <1>1, <4>1 DEF CutsAreNamed, WireNamed
    <3> QED
      BY <2>1, <3>1 DEF FrameNamed, NamedAsks
  <2>11. Abstract!Return(<<e, i>>)
    BY <2>1, <2>8, <2>9, <2>10 DEF Abstract!Return, NamedAsks
  <2> QED
    BY <1>6, <2>1, <2>8, <2>11
<1>11. ASSUME NEW e \in Ends, Serves(e) PROVE [Abstract!Next]_(Abstract!vars)
  <2> DEFINE d == Peer(e)
             f == Serve(Head(wire[e]).id, serving[e], cut[e])
  <2>0. PICK i \in 1..MaxId : i = Top(d).id
    <3>1. stack[d] # <<>>
      BY <1>1, <1>2, <1>4, <1>11, Standing DEF Serves, Ahead
    <3> QED
      BY <1>2, <1>4, <3>1
  <2> USE <2>0
  <2>1. /\ UNCHANGED <<lastId, sending, named, cutShort, lost>> /\ ~lost
        /\ stack' = [stack EXCEPT ![e] = Append(@, f)]
        /\ Read(e) /\ wire[e] # <<>> /\ Head(wire[e]).kind = "req" /\ Arrived(e, "req")
    BY <1>11 DEF Serves, Runs, Arrived
  <2>2. Ahead(d) /\ Asked(d)
    BY <1>1, <2>1, Standing
  <2>3. Head(wire[e]).id = i
    BY <1>2, <1>4, <2>1, <2>2, CarriesReads DEF Asked
  <2>4. /\ d \in Ends /\ stack[d] # <<>> /\ Top(d).op = "request" /\ ~sending[d]
        /\ Peer(d) = e /\ Depth(Peer(d)) < Depth(d) /\ Depth(Peer(d)) <= Depth(d)
    BY <1>2, <1>4, <2>2 DEF Ahead, Asked
  <2> HIDE DEF d
  <2>5. i \in 1..MaxId /\ OpenAt(d, i) /\ i <= lastId[d] /\ ~ServedAt(Peer(d), i)
    BY <1>1, <1>4, <2>4, TopIsOpen, OpenIsMade, NoLaterServed
  <2>6. f \in Activities /\ f.op = "serve" /\ f.id = i
    <3>1. i \in Ids \ {0}
      BY <2>5, ChannelParameters DEF Ids
    <3>2. serving[e] \in Ids /\ cut[e] \in BOOLEAN
      BY <1>4
    <3>3. Head(wire[e]).id \in Ids \ {0}
      BY <2>3, <3>1
    <3>4. f \in Activities /\ f.op = "serve" /\ f.id = Head(wire[e]).id
      BY <3>2, <3>3, Records
    <3> QED
      BY <2>3, <3>4
  <2> HIDE DEF f
  <2>7. \A j : /\ OpenAt(e, j)' <=> OpenAt(e, j)
               /\ ServedAt(e, j)' <=> ServedAt(e, j) \/ i = j
               /\ OpenAt(d, j)' <=> OpenAt(d, j)
               /\ ServedAt(d, j)' <=> ServedAt(d, j)
    BY <1>1, <2>1, <2>6, PutOpens DEF d
  <2>8. \A j : /\ InWire(e, "answer", j)' <=> InWire(e, "answer", j)
               /\ InWire(d, "answer", j)' <=> InWire(d, "answer", j)
    BY <1>1, <2>1, TakeInWire DEF d
  <2>9. ~InWire(d, "answer", i)
    BY <2>2 DEF Asked, Bare, InWire
  <2>10. StageOf(<<d, i>>) = "asked" /\ StageOf(<<d, i>>)' = "served"
    BY <1>4, <2>1, <2>4, <2>5, <2>7, <2>8, <2>9, StageParts
  <2>11. \A q \in Ends, j \in 1..MaxId :
           q # d \/ j # i => StageOf(<<q, j>>)' = StageOf(<<q, j>>)
    <3>1. ASSUME NEW j \in 1..MaxId, j # i PROVE StageOf(<<d, j>>)' = StageOf(<<d, j>>)
      BY <2>1, <2>4, <2>7, <2>8, <3>1, StageStays
    <3>2. ASSUME NEW j \in 1..MaxId PROVE StageOf(<<e, j>>)' = StageOf(<<e, j>>)
      BY <2>1, <2>4, <2>7, <2>8, StageStays DEF d
    <3> QED
      BY <1>3, <2>4, <3>1, <3>2
  <2>12. Abstract!Move(<<d, i>>, "asked", "served") /\ <<d, i>> \in Abstract!Requests
    BY <2>4, <2>5, <2>10, <2>11, MapMoves
  <2>13. Abstract!Take(<<d, i>>)
    BY <2>1, <2>12 DEF Abstract!Take
  <2> QED
    BY <1>6, <2>1, <2>12, <2>13
<1>12. ASSUME NEW e \in Ends, Finish(e) PROVE [Abstract!Next]_(Abstract!vars)
  <2>1. PICK c \in {FALSE, cut[e]} : FinishWith(e, Frame("answer", Top(e).id, c))
    BY <1>12 DEF Finish
  <2>0. PICK i \in 1..MaxId : i = Top(e).id
    BY <1>4, <2>1 DEF FinishWith, InHandler
  <2> USE <2>0
  <2> DEFINE d == Peer(e)
             f == Frame("answer", Top(e).id, c)
  <2>2. /\ UNCHANGED <<lastId, sending, named, cutShort, lost>> /\ ~lost
        /\ stack' = [stack EXCEPT ![e] = Front(@)]
        /\ InHandler(e) /\ stack[e] # <<>> /\ Top(e).op = "serve"
        /\ Write(e, f)
    BY <2>1 DEF FinishWith, InHandler, Runs
  <2>3. f \in Frames /\ f.kind = "answer" /\ f.id = i /\ i \in 1..MaxId
    <3>1. c \in BOOLEAN
      BY <1>4
    <3>2. i \in Ids \ {0}
      BY ChannelParameters DEF Ids
    <3> QED
      BY <3>1, <3>2, Records
  <2> HIDE DEF f
  <2>4. Depth(e) = Depth(d) /\ Quiet(d)
    BY <1>1, <2>2, Standing
  <2>5. d \in Ends /\ Peer(d) = e
    BY <1>2
  <2>6. stack[d] # <<>> /\ Top(d).op = "request" /\ Top(d).id = i
    <3>1. Depth(e) \in 1..Depth(e) /\ Depth(e) <= Depth(d) /\ stack[d] # <<>>
      BY <1>4, <2>2, <2>4, <2>5
    <3>2. /\ stack[e][Depth(e)].op # stack[d][Depth(e)].op
          /\ stack[e][Depth(e)].id = stack[d][Depth(e)].id
      BY <1>1, <3>1 DEF Paired
    <3>3. Top(e) = stack[e][Depth(e)] /\ Top(d) = stack[d][Depth(e)]
      BY <1>1, <2>2, <2>4, <2>5, <3>1, Types
    <3>4. Top(d).op \in {"request", "serve"}
      BY <1>1, <2>5, <3>1, Types, Fields
    <3> QED
      BY <2>2, <3>1, <3>2, <3>3, <3>4
  <2> HIDE DEF d
  <2>7. OpenAt(d, i) /\ i <= lastId[d] /\ ServedAt(e, i)
    BY <1>1, <2>2, <2>5, <2>6, TopIsOpen, OpenIsMade
  <2>8. \A n \in 1..(Depth(e) - 1) :
          stack[e][n].op = Top(e).op => stack[e][n].id # Top(e).id
    <3>1. \A n \in 1..(Depth(e) - 1) : n \in 1..Depth(e)
      BY <1>4
    <3>2. \A n \in 1..Depth(e) : stack[e][n].id \in Nat
      BY <1>1, Types, Fields, IdsAre
    <3>3. \A n \in 1..(Depth(e) - 1) :
            stack[e][n].op = Top(e).op => stack[e][n].id < Top(e).id
      BY <1>1, <2>2, <2>4, TopIsLast DEF d
    <3> QED
      BY <2>3, <3>1, <3>2, <3>3
  <2>9. \A j : /\ OpenAt(e, j)' <=> OpenAt(e, j)
               /\ ServedAt(e, j)' <=> ServedAt(e, j) /\ i # j
               /\ OpenAt(d, j)' <=> OpenAt(d, j)
               /\ ServedAt(d, j)' <=> ServedAt(d, j)
    BY <1>1, <2>2, <2>8, DropOpens DEF d
  <2>10. \A j : /\ InWire(d, "answer", j)' <=> InWire(d, "answer", j) \/ i = j
                /\ InWire(e, "answer", j)' <=> InWire(e, "answer", j)
    BY <1>1, <2>2, <2>3, GiveInWire DEF d
  <2>11. ~InWire(d, "answer", i) /\ ~sending[d]
    BY <2>4 DEF Quiet, Bare, InWire
  <2>12. StageOf(<<d, i>>) = "served" /\ StageOf(<<d, i>>)' = "answered"
    BY <1>4, <2>2, <2>3, <2>5, <2>7, <2>9, <2>10, <2>11, StageParts
  <2>13. \A q \in Ends, j \in 1..MaxId :
           q # d \/ j # i => StageOf(<<q, j>>)' = StageOf(<<q, j>>)
    <3>1. ASSUME NEW j \in 1..MaxId, j # i PROVE StageOf(<<d, j>>)' = StageOf(<<d, j>>)
      BY <2>2, <2>5, <2>9, <2>10, <3>1, StageStays
    <3>2. ASSUME NEW j \in 1..MaxId PROVE StageOf(<<e, j>>)' = StageOf(<<e, j>>)
      BY <2>2, <2>9, <2>10, StageStays DEF d
    <3> QED
      BY <1>3, <2>5, <3>1, <3>2
  <2>14. Abstract!Move(<<d, i>>, "served", "answered") /\ <<d, i>> \in Abstract!Requests
    BY <2>3, <2>5, <2>12, <2>13, MapMoves
  <2>15. \A q \in Abstract!Later(<<d, i>>) : StageOf(q) # "served"
    <3> SUFFICES ASSUME NEW j \in 1..MaxId, j > i PROVE StageOf(<<d, j>>) # "served"
      BY DEF Abstract!Later, Abstract!Requests
    <3>1. Depth(Peer(d)) <= Depth(d)
      BY <1>4, <2>4, <2>5
    <3>2. ~ServedAt(e, j)
      BY <1>1, <2>3, <2>5, <2>6, <3>1, NoLaterServed
    <3> QED
      BY <2>5, <3>2, StageParts
  <2>16. Abstract!Answer(<<d, i>>)
    BY <2>2, <2>14, <2>15 DEF Abstract!Answer, Abstract!Later, Abstract!Requests
  <2> QED
    BY <1>6, <2>2, <2>14, <2>16
<1>13. ASSUME UNCHANGED <<stack, sending, lastId>>,
              \A d, j : d \in Ends => (InWire(d, "answer", j)' <=> InWire(d, "answer", j))
       PROVE  \A d \in Ends, j \in 1..MaxId : StageOf(<<d, j>>)' = StageOf(<<d, j>>)
  <2>1. \A d, j : d \in Ends => /\ OpenAt(d, j)' <=> OpenAt(d, j)
                                /\ ServedAt(d, j)' <=> ServedAt(d, j)
    BY <1>13 DEF OpenAt, ServedAt
  <2> SUFFICES ASSUME NEW d \in Ends, NEW j \in 1..MaxId
               PROVE  StageOf(<<d, j>>)' = StageOf(<<d, j>>)
    OBVIOUS
  <2> QED
    BY <1>2, <1>13, <2>1, StageStays
<1>14. ASSUME NEW e \in Ends, NotesCancel(e) \/ DropsCancel(e)
       PROVE  [Abstract!Next]_(Abstract!vars)
  <2>1. /\ UNCHANGED <<stack, sending, lastId, named, cutShort, lost>>
        /\ Read(e) /\ wire[e] # <<>> /\ Head(wire[e]).kind = "cancel"
    BY <1>14 DEF NotesCancel, DropsCancel, Arrived, chanVars
  <2>2. \A d, j : d \in Ends => (InWire(d, "answer", j)' <=> InWire(d, "answer", j))
    BY <1>1, <1>3, <2>1, TakeInWire
  <2> QED
    BY <1>5, <1>13, <2>1, <2>2
<1>15. ASSUME NEW c \in Cancellers, CancelSends(c) PROVE [Abstract!Next]_(Abstract!vars)
  <2> DEFINE f == Frame("cancel", target[c], FALSE)
  <2>1. /\ UNCHANGED <<stack, sending, lastId, named, cutShort, lost>>
        /\ Write("host", f) /\ target[c] \in named
    BY <1>15 DEF CancelSends, chanVars
  <2>2. f \in Frames /\ f.kind # "answer"
    BY <1>1, <2>1 DEF Frame, Frames, Typed, TypeOK
  <2> HIDE DEF f
  <2>3. \A d, j : d \in Ends => (InWire(d, "answer", j)' <=> InWire(d, "answer", j))
    BY <1>1, <1>3, <2>1, <2>2, GiveInWire, Peers
  <2> QED
    BY <1>5, <1>13, <2>1, <2>3
<1>16. ASSUME NEW c \in Cancellers, CancelReads(c) PROVE [Abstract!Next]_(Abstract!vars)
  <2>0. PICK i \in 1..MaxId : i = awaiting["host"]
    <3>1. awaiting["host"] \in Ids \ {0}
      BY <1>4, <1>16, Peers DEF CancelReads
    <3> QED
      BY <3>1, ChannelParameters DEF Ids
  <2> USE <2>0
  <2>1. /\ UNCHANGED <<stack, sending, lastId, wire, cutShort, lost>> /\ ~lost
        /\ i # 0 /\ named' = named \cup {i}
    BY <1>16 DEF CancelReads, chanVars
  <2>2. "host" \in Ends
    BY DEF Ends
  <2>3. OpenAt("host", i)
    <3> DEFINE n == TopOf("host", "request")
    <3>1. i = IdAt("host", n) /\ n # 0 /\ i = stack["host"][n].id
      BY <1>1, <2>1, <2>2 DEF Books, Book, IdAt
    <3>2. n \in 1..Depth("host")
      BY <1>4, <2>2, <3>1 DEF TopOf
    <3>3. stack["host"][n].op = "request"
      <4>1. /\ Top("host") = stack["host"][Depth("host")] /\ Depth("host") \in Nat \ {0}
            /\ \A m \in 1..Depth("host") : stack["host"][m].op \in {"request", "serve"}
        BY <1>1, <2>2, <3>2, Types, Fields
      <4>2. CASE Top("host").op = "request"
        BY <4>1, <4>2 DEF TopOf
      <4>3. CASE Top("host").op # "request"
        <5>1. n = Depth("host") - 1 /\ n + 1 = Depth("host") /\ n \in 1..(Depth("host") - 1)
          BY <3>2, <4>1, <4>3 DEF TopOf
        <5>2. stack["host"][n].op # stack["host"][n + 1].op
          BY <1>1, <2>2, <5>1 DEF Alternates
        <5> QED
          BY <3>2, <4>1, <4>3, <5>1, <5>2
      <4> QED
        BY <4>2, <4>3
    <3> QED
      BY <3>1, <3>2, <3>3 DEF OpenAt, Depth
  <2>4. i \in 1..MaxId /\ i <= lastId["host"]
    BY <1>1, <2>2, <2>3, OpenIsMade
  <2>5. StageOf(<<"host", i>>) \notin {"new", "done"}
    BY <1>4, <2>2, <2>3, <2>4, StageParts
  <2>6. <<"host", i>> \in Abstract!Requests /\ <<"host", i>> \in Abstract!Open
    BY <2>2, <2>4, <2>5 DEF Abstract!Requests, Abstract!Open
  <2>7. StageMap' = StageMap
    <3>1. \A d, j : d \in Ends => (InWire(d, "answer", j)' <=> InWire(d, "answer", j))
      BY <2>1 DEF InWire
    <3> QED
      BY <1>13, <2>1, <3>1, MapStays
  <2>8. NamedAsks' = NamedAsks \cup {<<"host", i>>}
    BY <2>1 DEF NamedAsks
  <2>9. Abstract!Cancel(<<"host", i>>)
    BY <2>1, <2>6, <2>7, <2>8 DEF Abstract!Cancel, StageMap, NamedAsks, Asks
  <2> QED
    BY <1>6, <2>1, <2>6, <2>9
<1>17. ASSUME UNCHANGED <<chanVars, wire, named, cutShort>>
       PROVE  /\ StageMap' = StageMap /\ NamedAsks' = NamedAsks /\ cutShort' = cutShort
  <2>1. \A d, j : d \in Ends => (InWire(d, "answer", j)' <=> InWire(d, "answer", j))
    BY <1>17 DEF InWire
  <2>2. UNCHANGED <<stack, sending, lastId>>
    BY <1>17 DEF chanVars
  <2> QED
    BY <1>13, <1>17, <2>1, <2>2, MapStays DEF NamedAsks
<1>18. ASSUME GuestDies \/ UNCHANGED vars PROVE [Abstract!Next]_(Abstract!vars)
  <2>1. UNCHANGED <<chanVars, wire, named, cutShort>> /\ lost' = lost
    BY <1>18 DEF GuestDies, vars
  <2> QED
    BY <1>17, <2>1 DEF StageMap, NamedAsks, Asks, Abstract!vars
<1>19. ASSUME Loses PROVE [Abstract!Next]_(Abstract!vars)
  <2>1. UNCHANGED <<chanVars, wire, named, cutShort>> /\ ~lost /\ lost' = TRUE
    BY <1>19 DEF Loses
  <2>2. Abstract!Lose
    BY <1>17, <2>1 DEF StageMap, NamedAsks, Asks, Abstract!Lose
  <2> QED
    BY <2>1, <2>2 DEF Abstract!Next
<1> QED
  BY <1>7, <1>8, <1>9, <1>10, <1>11, <1>12, <1>14, <1>15, <1>16, <1>18, <1>19 DEF Next, Step

\* The channel implements Rpc: a request is served once and answered once, innermost
\* first, and only one that a cancel() named comes back cut short.
THEOREM ChannelKeepsPromise == Spec => KeepsPromise
<1>1. Init => Abstract!Init
  BY MapInit
<1>2. ChannelInv /\ [Next]_vars => [Abstract!Next]_(Abstract!vars)
  BY MapStep
<1> QED
  BY <1>1, <1>2, ChannelNests, PTL DEF Spec, KeepsPromise, Abstract!Spec
================================================================================
