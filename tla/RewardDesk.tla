------------------------------- MODULE RewardDesk -------------------------------
(***************************************************************************)
(* What the reward schemes share: the day, and requests that read, decide  *)
(* and write later.  A request's reads up to its first write are one step; *)
(* each write, or transaction, is a step of its own.  The schemes share    *)
(* nothing but the balance they credit, so a behaviour exercises one.      *)
(***************************************************************************)
EXTENDS Integers, Sequences, FiniteSets, FiniteSetsExt, Functions

CONSTANTS
  Schemes,      \* the schemes explored
  MaxDay,       \* bound: the last day
  MaxRequests,  \* bound on the requests made
  MaxCalls      \* bound on the requests in flight together

ASSUME DeskAssumption ==
  MaxDay \in Nat /\ MaxRequests \in Nat /\ MaxCalls \in Nat \ {0}

VARIABLES
  scheme,     \* the scheme of this behaviour
  day,        \* the current day
  calls,      \* requests in flight, with what they have read
  made,       \* how many requests there were
  overlapped  \* whether something was written, or a day began, while a request was in flight

deskVars == <<scheme, day, calls, made, overlapped>>

DeskInit ==
  /\ scheme \in Schemes
  /\ day = 0
  /\ calls = {}
  /\ made = 0
  /\ overlapped = FALSE

\* A request that has read what it needs and writes later; call.made tells it from others.
Begin(call) ==
  /\ made < MaxRequests
  /\ Cardinality(calls) < MaxCalls
  /\ made' = made + 1
  /\ calls' = calls \cup {call}
  /\ UNCHANGED <<scheme, day, overlapped>>

Interferes(c) == overlapped' = (overlapped \/ calls # {c})
Move(c, pc) == calls' = (calls \ {c}) \cup {[c EXCEPT !.pc = pc]}
End(c) == calls' = calls \ {c}

\* A write of a request that goes on, or ends.
MoveOn(c, pc) == Move(c, pc) /\ Interferes(c) /\ UNCHANGED <<scheme, day, made>>
Finish(c) == End(c) /\ Interferes(c) /\ UNCHANGED <<scheme, day, made>>

\* A request that is over without having written anything.
Drop(c) == End(c) /\ UNCHANGED <<scheme, day, made, overlapped>>

\* A request that is one transaction or one statement.
AtOnce ==
  /\ made < MaxRequests
  /\ made' = made + 1
  /\ overlapped' = (overlapped \/ calls # {})
  /\ UNCHANGED <<scheme, day, calls>>

NewDay ==
  /\ day < MaxDay
  /\ day' = day + 1
  /\ overlapped' = (overlapped \/ calls # {})
  /\ UNCHANGED <<scheme, calls, made>>

================================================================================
