---------------------------------- MODULE Rpc ----------------------------------
(***************************************************************************)
(* What dud.proto promises its two ends, wires and nesting aside: either   *)
(* end may ask, a request is served once and answered once, each caller    *)
(* gets its answers innermost first, and only a request somebody named in  *)
(* a cancel comes back cut short.                                          *)
(***************************************************************************)
EXTENDS Naturals

CONSTANTS
  Ends,   \* the two ends of a channel
  MaxId   \* how many requests an end makes

VARIABLES
  stage,      \* how far each request has got
  named,      \* the requests that a cancel named while they were open
  cutShort,   \* the requests whose answer said so
  lost        \* the session is over

vars == <<stage, named, cutShort, lost>>

Requests == Ends \X (1..MaxId)
Stages == {"new", "made", "asked", "served", "answered", "done"}
Open == {r \in Requests : stage[r] \notin {"new", "done"}}

Init ==
  /\ stage = [r \in Requests |-> "new"]
  /\ named = {} /\ cutShort = {}
  /\ lost = FALSE

\* The requests that r's caller made after r.
Later(r) == {q \in Requests : q[1] = r[1] /\ q[2] > r[2]}

Move(r, from, to) == stage[r] = from /\ stage' = [stage EXCEPT ![r] = to]

Make(r) ==
  /\ Move(r, "new", "made")
  /\ \A q \in Requests : q[1] = r[1] /\ q[2] < r[2] => stage[q] # "new"
  /\ UNCHANGED <<named, cutShort>>

\* Sent, or found unfit to be.
Ask(r) ==
  /\ Move(r, "made", "asked") \/ Move(r, "made", "done")
  /\ UNCHANGED <<named, cutShort>>

Take(r) ==
  /\ Move(r, "asked", "served")
  /\ UNCHANGED <<named, cutShort>>

Answer(r) ==
  /\ Move(r, "served", "answered")
  /\ \A q \in Later(r) : stage[q] # "served"
  /\ UNCHANGED <<named, cutShort>>

Return(r) ==
  /\ Move(r, "answered", "done")
  /\ \A q \in Later(r) : q \notin Open
  /\ cutShort' \in {cutShort} \cup (IF r \in named THEN {cutShort \cup {r}} ELSE {})
  /\ UNCHANGED named

Cancel(r) ==
  /\ r \in Open
  /\ named' = named \cup {r}
  /\ UNCHANGED <<stage, cutShort>>

Lose == lost' = TRUE /\ UNCHANGED <<stage, named, cutShort>>

Next ==
  /\ ~lost
  /\ \/ /\ \E r \in Requests : Make(r) \/ Ask(r) \/ Take(r) \/ Answer(r) \/ Return(r) \/ Cancel(r)
        /\ UNCHANGED lost
     \/ Lose

Spec == Init /\ [][Next]_vars
================================================================================
