------------------------------ MODULE CachesProofs ------------------------------
(***************************************************************************)
(* Caches, for every number of readers, admins, attempts, processes,       *)
(* operations, changes and failures.                                       *)
(*                                                                         *)
(* ConfigNeverStale: the argument is a floor under what can still be       *)
(* served.  A revision is held by somebody only if it has been the current *)
(* one, and a revision that Redis has yet to install has been held by      *)
(* nobody.  So whenever a script changes the revision, no fill in flight   *)
(* is current and the floor may be raised to the updates committed so far. *)
(*                                                                         *)
(* FreshUnlessRaced: for the catalog as it is, whoever writes a table that *)
(* a view of KeptFresh reads drops the key of that view (DroppersAre); the *)
(* rest is what a GET may still hold while an operation is under way.      *)
(***************************************************************************)
EXTENDS Caches, TLAPS

Value == Nat \cup {None}
Script == [fill : BOOLEAN, rev : Nat, value : Nat]
Reading == [pc : {"idle", "snapshot", "load", "fill", "direct", "done", "failed"},
            attempt : Nat, rev : Nat, value : Value, base : Nat]
Patching == [pc : {"idle", "before", "commit", "bust", "after", "reload", "ok", "failed"},
             tries : Nat, version : Nat]

Typed ==
  /\ db \in Nat
  /\ cached \in Value
  /\ revision \in Nat
  /\ minted \in Nat
  /\ late \subseteq Script
  /\ read \in [Requests -> Reading]
  /\ patch \in [Admins -> Patching]
  /\ answered \in Nat
  /\ faults \in Nat

\* Whoever holds a revision holds one that was minted, and a revision that is
\* still to be installed is held by nobody.
Unseen(rev) ==
  /\ rev # revision
  /\ \A r \in Requests : read[r].rev # rev
  /\ \A s \in late : s.fill => s.rev # rev

Stamped ==
  /\ revision <= minted
  /\ \A r \in Requests : read[r].rev <= minted
  /\ \A s \in late : s.rev <= minted
  /\ \A s \in late : ~s.fill => (s.rev > 0 /\ s.value = 0 /\ Unseen(s.rev))

\* Nothing older than version v is in the cache or can still get into it.
Floor(v) ==
  /\ cached # None => cached >= v
  /\ \A r \in Requests :
       (read[r].pc = "fill" /\ read[r].rev = revision) => read[r].value >= v
  /\ \A s \in late : (s.fill /\ s.rev = revision) => s.value >= v

Fenced ==
  /\ answered <= db
  /\ \A a \in Admins : patch[a].version <= db
  /\ Floor(answered)
  /\ \A a \in Admins : patch[a].pc = "reload" => Floor(patch[a].version)

Served ==
  /\ \A r \in Requests : read[r].base <= answered
  /\ \A r \in Requests : read[r].pc = "fill" => read[r].value \in Nat
  /\ \A r \in Requests : read[r].pc = "done" =>
       (read[r].value \in Nat /\ read[r].value >= read[r].base)

Inv == Typed /\ Stamped /\ Fenced /\ Served

--------------------------------------------------------------------------------

USE SettingsAssumption

\* An idle call is a call of no consequence.
LEMMA NoReadTyped == NoRead \in Reading /\ NoRead.pc = "idle" /\ NoRead.rev = 0 /\ NoRead.base = 0
  <1>1. 0 \in Nat
    OBVIOUS
  <1>2. None \in Value
    BY Zenon DEF Value
  <1>3. NoRead \in Reading
    BY <1>1, <1>2, Zenon DEF NoRead, Reading
  <1> QED
    BY <1>3 DEF NoRead

LEMMA InitInv == SettingsInit => Inv
  <1> SUFFICES ASSUME SettingsInit PROVE Inv
    OBVIOUS
  <1> USE DEF SettingsInit
  <1>1. \A r \in Requests : read[r] = NoRead
    BY Zenon
  <1>2. Typed
    <2>1. read \in [Requests -> Reading]
      BY NoReadTyped, Zenon
    <2>2. patch \in [Admins -> Patching]
      BY DEF NoPatch, Patching
    <2>3. cached \in Value
      BY Zenon DEF Value
    <2> QED
      BY <2>1, <2>2, <2>3 DEF Typed
  <1>3. Stamped
    BY <1>1, NoReadTyped DEF Stamped
  <1>4. Fenced
    BY <1>1, NoReadTyped DEF Fenced, Floor, NoPatch
  <1>5. Served
    BY <1>1, NoReadTyped DEF Served
  <1> QED
    BY <1>2, <1>3, <1>4, <1>5 DEF Inv

\* What the start of a call makes of a request.
LEMMA Started ==
  ASSUME NEW b \in Nat
  PROVE  LET c == [NoRead EXCEPT !.pc = "snapshot", !.base = b]
         IN c \in Reading /\ c.pc = "snapshot" /\ c.rev = 0 /\ c.base = b
  BY NoReadTyped DEF NoRead, Reading

\* A call that starts holds no revision of importance.
LEMMA StartReadInv ==
  ASSUME Inv, NEW r \in Readers, StartRead(r)
  PROVE  Inv'
  <1>0. /\ r \in Requests
        /\ LET c == [NoRead EXCEPT !.pc = "snapshot", !.base = answered]
           IN c \in Reading /\ c.pc = "snapshot" /\ c.rev = 0 /\ c.base = answered
    BY Started DEF Requests, Inv, Typed
  <1>2. Typed'
    BY <1>0 DEF Inv, Typed, StartRead, redisVars
  <1>3. Stamped'
    BY <1>0 DEF Inv, Typed, Stamped, Unseen, Script, StartRead, redisVars
  <1>4. Fenced'
    BY <1>0 DEF Inv, Typed, Fenced, Floor, StartRead, redisVars
  <1>5. Served'
    BY <1>0 DEF Inv, Typed, Served, StartRead, redisVars
  <1> QED
    BY <1>2, <1>3, <1>4, <1>5 DEF Inv

\* A request is given value v, which may become the cached one if it is above
\* every floor.
LEMMA GivenInv ==
  ASSUME Inv, NEW r \in Requests, NEW v \in Nat, v >= read[r].base, Given(r, v),
         \/ UNCHANGED cached
         \/ cached' = v /\ \A w \in Nat : Floor(w) => v >= w,
         faults' \in Nat,
         UNCHANGED <<db, revision, late, minted, patch, answered>>
  PROVE  Inv'
  <1>1. v \in Value /\ read[r].base \in Nat
    BY DEF Inv, Typed, Reading, Value
  <1>0. /\ r \in Requests
        /\ LET c == [NoRead EXCEPT !.pc = "done", !.value = v, !.base = read[r].base]
           IN c \in Reading /\ c.pc = "done" /\ c.rev = 0 /\ c.value = v /\ c.base = read[r].base
    BY <1>1, NoReadTyped DEF NoRead, Reading
  <1>2. Typed'
    BY <1>0 DEF Inv, Typed, Given, Value
  <1>3. Stamped'
    BY <1>0 DEF Inv, Typed, Stamped, Unseen, Script, Given
  <1>4. Fenced'
    BY <1>0 DEF Inv, Typed, Fenced, Floor, Given, Patching
  <1>5. Served'
    BY <1>0 DEF Inv, Typed, Served, Given
  <1> QED
    BY <1>2, <1>3, <1>4, <1>5 DEF Inv

LEMMA SnapshotInv ==
  ASSUME Inv, NEW r \in Requests, Snapshot(r)
  PROVE  Inv'
  <1>1. CASE cached # None
    <2>1. cached \in Nat /\ cached >= read[r].base
      BY <1>1 DEF Inv, Typed, Fenced, Floor, Served, Reading, Value
    <2> QED
      BY <1>1, <2>1, GivenInv DEF Snapshot, redisVars, Inv, Typed
  <1>2. CASE cached = None
    <2>0. /\ read' = [read EXCEPT ![r].pc = "load", ![r].rev = revision]
          /\ UNCHANGED <<db, redisVars, minted, patch, answered, faults>>
      BY <1>2 DEF Snapshot
    <2>1. Typed'
      BY <2>0 DEF Inv, Typed, Reading, redisVars
    <2>2. Stamped'
      BY <2>0 DEF Inv, Typed, Stamped, Unseen, Reading, Script, redisVars
    <2>3. Fenced'
      BY <2>0 DEF Inv, Typed, Fenced, Floor, Reading, redisVars
    <2>4. Served'
      BY <2>0 DEF Inv, Typed, Served, Reading, redisVars
    <2> QED
      BY <2>1, <2>2, <2>3, <2>4 DEF Inv
  <1> QED
    BY <1>1, <1>2

LEMMA LoadInv ==
  ASSUME Inv, NEW r \in Requests, Load(r)
  PROVE  Inv'
  <1>1. Typed'
    BY DEF Inv, Typed, Load, Reading, redisVars, Value
  <1>2. Stamped'
    BY DEF Inv, Typed, Stamped, Unseen, Load, Reading, Script, redisVars
  <1>3. Fenced'
    BY DEF Inv, Typed, Fenced, Floor, Load, Reading, Patching, redisVars
  <1>4. Served'
    BY DEF Inv, Typed, Served, Load, Reading, redisVars
  <1> QED
    BY <1>1, <1>2, <1>3, <1>4 DEF Inv

LEMMA LoadDirectlyInv ==
  ASSUME Inv, NEW r \in Requests, LoadDirectly(r)
  PROVE  Inv'
  <1>1. db \in Nat /\ db >= read[r].base
    BY DEF Inv, Typed, Fenced, Served, Reading
  <1> QED
    BY <1>1, GivenInv DEF LoadDirectly, redisVars, Inv, Typed

\* A call goes back to the start, or gives up; it keeps its revision.
LEMMA MovesInv ==
  ASSUME Inv, NEW r \in Requests, NEW p \in {"snapshot", "direct", "failed"}, NEW n \in Nat,
         read' = [read EXCEPT ![r].pc = p, ![r].attempt = n],
         faults' \in Nat,
         late' = late \/ (read[r].pc = "fill" /\ late' = late \cup
                             {[fill |-> TRUE, rev |-> read[r].rev, value |-> read[r].value]}),
         UNCHANGED <<db, cached, revision, minted, patch, answered>>
  PROVE  Inv'
  <1>1. Typed'
    <2>1. read' \in [Requests -> Reading]
      BY DEF Inv, Typed, Reading
    <2>2. CASE late' = late
      BY <2>1, <2>2 DEF Inv, Typed
    <2>3. CASE late' # late
      <3>1. [fill |-> TRUE, rev |-> read[r].rev, value |-> read[r].value] \in Script
        BY <2>3 DEF Inv, Typed, Served, Reading, Script
      <3> QED
        BY <2>1, <2>3, <3>1 DEF Inv, Typed
    <2> QED
      BY <2>2, <2>3
  <1>2. Stamped'
    BY DEF Inv, Typed, Stamped, Unseen, Reading, Script
  <1>3. Fenced'
    BY DEF Inv, Typed, Fenced, Floor, Reading
  <1>4. Served'
    BY DEF Inv, Typed, Served, Reading
  <1> QED
    BY <1>1, <1>2, <1>3, <1>4 DEF Inv

LEMMA GoesTo ==
  ASSUME Inv, NEW r \in Requests, NEW p, Goto(r, p)
  PROVE  /\ read[r].attempt \in Nat
         /\ read' = [read EXCEPT ![r].pc = p, ![r].attempt = read[r].attempt]
  BY DEF Goto, Inv, Typed, Reading

LEMMA FillInv ==
  ASSUME Inv, NEW r \in Requests, Fill(r)
  PROVE  Inv'
  <1>0. faults' \in Nat /\ UNCHANGED <<db, revision, late, minted, patch, answered>>
    BY DEF Fill, Inv, Typed
  <1>1. CASE Current(read[r].rev)
    <2>1. /\ read[r].value \in Nat
          /\ read[r].value >= read[r].base
          /\ \A w \in Nat : Floor(w) => read[r].value >= w
      BY <1>1 DEF Fill, Current, Inv, Typed, Served, Fenced, Floor, Reading
    <2> QED
      BY <1>0, <1>1, <2>1, GivenInv DEF Fill
  <1>2. CASE ~Current(read[r].rev) /\ read[r].attempt + 1 < Attempts
    <2>1. read[r].attempt + 1 \in Nat
      BY DEF Inv, Typed, Reading
    <2>2. read' = [read EXCEPT ![r].pc = "snapshot", ![r].attempt = read[r].attempt + 1]
      BY <1>2 DEF Fill, Inv, Typed
    <2> QED
      BY <1>0, <1>2, <2>1, <2>2, MovesInv DEF Fill
  <1>3. CASE ~Current(read[r].rev) /\ ~(read[r].attempt + 1 < Attempts)
    <2>1. GiveUp(r) /\ UNCHANGED cached
      BY <1>3 DEF Fill
    <2> QED
      BY <1>0, <2>1, GoesTo, MovesInv DEF GiveUp
  <1> QED
    BY <1>1, <1>2, <1>3

LEMMA ReadTimesOutInv ==
  ASSUME Inv, NEW r \in Requests, ReadTimesOut(r)
  PROVE  Inv'
  <1>1. faults' \in Nat
    BY DEF ReadTimesOut, Fault, Inv, Typed
  <1>2. PICK p \in {"snapshot", "direct", "failed"} : Goto(r, p)
    BY DEF ReadTimesOut, GiveUp
  <1>3. read' = [read EXCEPT ![r].pc = p, ![r].attempt = read[r].attempt] /\ read[r].attempt \in Nat
    BY <1>2, GoesTo
  <1> QED
    BY <1>1, <1>3, MovesInv DEF ReadTimesOut

\* Without an answer of the database a call gives up, or is over.
LEMMA LoadFailsInv ==
  ASSUME Inv, NEW r \in Requests, LoadFails(r)
  PROVE  Inv'
  <1>1. faults' \in Nat /\ UNCHANGED <<db, redisVars, minted, patch, answered>>
    BY DEF LoadFails, Fault, Inv, Typed
  <1>2. CASE GiveUp(r)
    <2>1. PICK p \in {"snapshot", "direct", "failed"} : Goto(r, p)
      BY <1>2 DEF GiveUp
    <2>2. read' = [read EXCEPT ![r].pc = p, ![r].attempt = read[r].attempt] /\ read[r].attempt \in Nat
      BY <2>1, GoesTo
    <2> QED
      BY <1>1, <2>2, MovesInv DEF redisVars
  <1>3. CASE read' = [read EXCEPT ![r] = NoRead]
    <2>1. Typed'
      BY <1>1, <1>3, NoReadTyped DEF Inv, Typed, redisVars
    <2>2. Stamped'
      BY <1>1, <1>3, NoReadTyped DEF Inv, Typed, Stamped, Unseen, Script, redisVars
    <2>3. Fenced'
      BY <1>1, <1>3, NoReadTyped DEF Inv, Typed, Fenced, Floor, redisVars
    <2>4. Served'
      BY <1>1, <1>3, NoReadTyped DEF Inv, Typed, Served, redisVars
    <2> QED
      BY <2>1, <2>2, <2>3, <2>4 DEF Inv
  <1> QED
    BY <1>2, <1>3 DEF LoadFails

--------------------------------------------------------------------------------
(* PATCH /admin/config                                                      *)

\* A request is begun, or goes on to a step that says nothing of its version.
LEMMA StepsInv ==
  ASSUME Inv, NEW a \in Admins,
         \E p \in {"before", "after", "failed"}, n \in Nat :
           patch' = [patch EXCEPT ![a].pc = p, ![a].tries = n],
         minted' \in Nat, minted <= minted',
         \/ UNCHANGED late
         \/ /\ minted' > minted
            /\ late' = late \cup {[fill |-> FALSE, rev |-> minted', value |-> 0]},
         faults' \in Nat,
         UNCHANGED <<db, cached, revision, read, answered>>
  PROVE  Inv'
  <1>0. PICK p \in {"before", "after", "failed"}, n \in Nat :
          patch' = [patch EXCEPT ![a].pc = p, ![a].tries = n]
    OBVIOUS
  <1>1. Typed'
    <2>1. patch' \in [Admins -> Patching]
      BY <1>0 DEF Inv, Typed, Patching
    <2>2. [fill |-> FALSE, rev |-> minted', value |-> 0] \in Script
      BY DEF Script
    <2>3. late' \subseteq Script
      BY <2>2 DEF Inv, Typed
    <2> QED
      BY <2>1, <2>3 DEF Inv, Typed
  <1>2. Stamped'
    BY DEF Inv, Typed, Stamped, Unseen, Reading, Script
  <1>3. Fenced'
    BY <1>0 DEF Inv, Typed, Fenced, Floor, Reading, Patching
  <1>4. Served'
    BY DEF Inv, Typed, Served, Reading
  <1> QED
    BY <1>1, <1>2, <1>3, <1>4 DEF Inv

\* A request ends, its call is dropped, and an admin may have been told of the
\* updates that nothing in the cache or on its way there lacks.
LEMMA EndsInv ==
  ASSUME Inv, NEW a \in Admins, NEW p \in {"ok", "failed"},
         patch' = [patch EXCEPT ![a].pc = p],
         read' = [read EXCEPT ![a] = NoRead],
         answered' \in Nat, answered <= answered', answered' <= db, Floor(answered'),
         faults' \in Nat,
         UNCHANGED <<db, cached, revision, minted, late>>
  PROVE  Inv'
  <1>0. a \in Requests
    BY DEF Requests
  <1>1. Typed'
    BY <1>0, NoReadTyped DEF Inv, Typed, Patching
  <1>2. Stamped'
    BY <1>0, NoReadTyped DEF Inv, Typed, Stamped, Unseen, Reading, Script
  <1>3. Fenced'
    BY <1>0, NoReadTyped DEF Inv, Typed, Fenced, Floor, Reading, Patching
  <1>4. Served'
    BY <1>0, NoReadTyped DEF Inv, Typed, Served, Reading
  <1> QED
    BY <1>1, <1>2, <1>3, <1>4 DEF Inv

LEMMA StartPatchInv ==
  ASSUME Inv, NEW a \in Admins, StartPatch(a) \/ Bust(a)
  PROVE  Inv'
  <1>1. \E p \in {"before", "after", "failed"}, n \in Nat :
          patch' = [patch EXCEPT ![a].pc = p, ![a].tries = n]
    <2>1. patch[a].tries \in Nat /\ patch' \in [Admins -> Patching]
      BY DEF StartPatch, Bust, Inv, Typed, Patching
    <2>2. \/ patch' = [patch EXCEPT ![a].pc = "before", ![a].tries = patch[a].tries]
          \/ patch' = [patch EXCEPT ![a].pc = "after", ![a].tries = patch[a].tries]
      BY DEF StartPatch, Bust, Inv, Typed, Patching
    <2> QED
      BY <2>1, <2>2
  <1>2. /\ minted' \in Nat /\ minted <= minted' /\ faults' \in Nat
        /\ UNCHANGED <<db, cached, revision, late, read, answered>>
    BY DEF StartPatch, Bust, Inv, Typed, redisVars
  <1> QED
    BY <1>1, <1>2, StepsInv

LEMMA InvalidateTimesOutInv ==
  ASSUME Inv, NEW a \in Admins, InvalidateTimesOut(a)
  PROVE  Inv'
  <1>1. \E p \in {"before", "after", "failed"}, n \in Nat :
          patch' = [patch EXCEPT ![a].pc = p, ![a].tries = n]
    <2>1. patch[a].tries + 1 \in Nat
      BY DEF Inv, Typed, Patching
    <2>2. \E p \in {"before", "after", "failed"} :
            patch' = [patch EXCEPT ![a].pc = p, ![a].tries = patch[a].tries + 1]
      BY DEF InvalidateTimesOut, Inv, Typed, Patching
    <2> QED
      BY <2>1, <2>2
  <1>2. /\ minted' \in Nat /\ minted <= minted' /\ minted' > minted /\ faults' \in Nat
        /\ UNCHANGED <<db, cached, revision, read, answered>>
    BY DEF InvalidateTimesOut, Fault, Inv, Typed
  <1>3. UNCHANGED late \/ late' = late \cup {[fill |-> FALSE, rev |-> minted', value |-> 0]}
    BY DEF InvalidateTimesOut
  <1> QED
    BY <1>1, <1>2, <1>3, StepsInv

LEMMA CommitInv ==
  ASSUME Inv, NEW a \in Admins, Commit(a)
  PROVE  Inv'
  <1>1. Typed'
    <2>0. db' = db + 1 /\ patch' = [patch EXCEPT ![a].pc = "bust", ![a].version = db + 1]
      BY DEF Commit
    <2>1. db' \in Nat
      BY <2>0 DEF Inv, Typed
    <2>2. patch' \in [Admins -> Patching]
      <3> DEFINE c == [patch[a] EXCEPT !.pc = "bust", !.version = db + 1]
      <3>1. patch[a] \in Patching /\ db + 1 \in Nat
        BY DEF Inv, Typed
      <3>2. c \in Patching
        BY <3>1 DEF Patching
      <3>3. patch' = [patch EXCEPT ![a] = c]
        BY <2>0
      <3> HIDE DEF c
      <3> QED
        BY <3>2, <3>3 DEF Inv, Typed
    <2> QED
      BY <2>1, <2>2 DEF Inv, Typed, Commit, redisVars
  <1>2. Stamped'
    BY DEF Inv, Typed, Stamped, Unseen, Commit, redisVars
  <1>3. Fenced'
    BY DEF Inv, Typed, Fenced, Floor, Commit, Patching, redisVars
  <1>4. Served'
    BY DEF Inv, Typed, Served, Commit, redisVars
  <1> QED
    BY <1>1, <1>2, <1>3, <1>4 DEF Inv

\* The revision becomes one that nobody holds, and the cache is empty: nothing in
\* flight can be stored any more, so every floor holds.
LEMMA InstalledFloors ==
  ASSUME cached' = None,
         \A r \in Requests : read'[r].pc = "fill" => read'[r].rev # revision',
         \A s \in late' : s.fill => s.rev # revision'
  PROVE  \A v : Floor(v)'
  BY DEF Floor

LEMMA InvalidateInv ==
  ASSUME Inv, NEW a \in Admins, Invalidate(a)
  PROVE  Inv'
  <1>0. /\ a \in Requests
        /\ minted' = minted + 1 /\ revision' = minted + 1 /\ cached' = None
        /\ UNCHANGED <<db, late, answered, faults>>
    BY DEF Invalidate, Requests
  <1>1. PICK p \in {"commit", "reload"} : patch' = [patch EXCEPT ![a].pc = p, ![a].tries = 0]
    BY DEF Invalidate
  <1> DEFINE c == [NoRead EXCEPT !.pc = "snapshot", !.base = answered]
  <1>c. c \in Reading /\ c.pc = "snapshot" /\ c.rev = 0 /\ c.base = answered
    BY Started DEF Inv, Typed
  <1>r. read' = read \/ read' = [read EXCEPT ![a] = c]
    BY DEF Invalidate
  <1> HIDE DEF c
  <1>2. /\ read' \in [Requests -> Reading]
        /\ \A r \in Requests : read'[r] = read[r] \/ (r = a /\ read'[r] = c)
    BY <1>0, <1>c, <1>r DEF Inv, Typed
  <1>3. Typed'
    <2>2. patch' \in [Admins -> Patching]
      BY <1>1 DEF Inv, Typed, Patching
    <2> QED
      BY <1>0, <1>2, <2>2 DEF Inv, Typed, Value
  <1>4. Stamped'
    <2>1. \A r \in Requests : read'[r].rev <= minted /\ (read'[r].rev = read[r].rev \/ read'[r].rev = 0)
      BY <1>0, <1>c, <1>2 DEF Inv, Typed, Stamped, Reading
    <2> QED
      BY <1>0, <1>2, <2>1 DEF Inv, Typed, Stamped, Unseen, Reading, Script
  <1>5. Fenced'
    <2>1. \A r \in Requests : read'[r].rev # revision'
      BY <1>0, <1>c, <1>2 DEF Inv, Typed, Stamped, Reading
    <2>2. \A s \in late' : s.rev # revision'
      BY <1>0 DEF Inv, Typed, Stamped, Script
    <2>3. \A v : Floor(v)'
      BY <1>0, <2>1, <2>2, InstalledFloors
    <2> QED
      BY <1>0, <1>1, <2>3 DEF Inv, Typed, Fenced, Patching
  <1>6. Served'
    BY <1>0, <1>c, <1>2 DEF Inv, Typed, Served, Reading
  <1> QED
    BY <1>3, <1>4, <1>5, <1>6 DEF Inv

LEMMA AnswerInv ==
  ASSUME Inv, NEW a \in Admins, Answer(a)
  PROVE  Inv'
  <1>1. /\ answered \in Nat /\ patch[a].version \in Nat /\ faults' \in Nat
        /\ answered <= db /\ patch[a].version <= db
        /\ Floor(answered) /\ Floor(patch[a].version)
    BY DEF Answer, Inv, Typed, Fenced, Patching
  <1>2. PICK p \in {"ok", "failed"} : patch' = [patch EXCEPT ![a].pc = p]
    BY DEF Answer
  <1>3. answered' = answered \/ (answered' = patch[a].version /\ answered <= answered')
    BY <1>1 DEF Answer
  <1>4. /\ read' = [read EXCEPT ![a] = NoRead]
        /\ UNCHANGED <<db, cached, revision, minted, late>>
    BY DEF Answer, redisVars
  <1>5. answered' \in Nat /\ answered <= answered' /\ answered' <= db /\ Floor(answered')
    BY <1>1, <1>3
  <1> QED
    BY <1>1, <1>2, <1>4, <1>5, EndsInv

LEMMA PatchDiesInv ==
  ASSUME Inv, NEW a \in Admins, PatchDies(a)
  PROVE  Inv'
  <1>1. /\ answered \in Nat /\ answered <= db /\ Floor(answered) /\ faults' \in Nat
        /\ patch' = [patch EXCEPT ![a].pc = "failed"]
        /\ read' = [read EXCEPT ![a] = NoRead]
        /\ UNCHANGED <<db, cached, revision, minted, late>>
        /\ answered' = answered
    BY DEF PatchDies, Fault, Inv, Typed, Fenced, redisVars
  <1>2. answered' \in Nat /\ answered <= answered' /\ answered' <= db /\ Floor(answered')
    BY <1>1
  <1> QED
    BY <1>1, <1>2, EndsInv

--------------------------------------------------------------------------------
(* Redis                                                                    *)

LEMMA RunLateInv ==
  ASSUME Inv, NEW s \in late, RunLate(s)
  PROVE  Inv'
  <1>0. /\ s \in Script
        /\ late' = late \ {s}
        /\ UNCHANGED <<db, minted, read, patch, answered, faults>>
    BY DEF RunLate, Inv, Typed
  <1>1. CASE s.fill
    <2>1. /\ UNCHANGED revision
          /\ cached' = cached \/ (cached' = s.value /\ s.rev = revision)
      BY <1>1 DEF RunLate, Current
    <2>2. Typed'
      BY <1>0, <2>1 DEF Inv, Typed, Value, Script
    <2>3. Stamped'
      BY <1>0, <2>1 DEF Inv, Stamped, Unseen
    <2>4. Fenced'
      BY <1>0, <1>1, <2>1 DEF Inv, Fenced, Floor
    <2>5. Served'
      BY <1>0 DEF Inv, Served
    <2> QED
      BY <2>2, <2>3, <2>4, <2>5 DEF Inv
  <1>2. CASE ~s.fill
    <2>1. /\ revision' = s.rev
          /\ cached' = None
      BY <1>2 DEF RunLate
    <2>2. Typed'
      BY <1>0, <2>1 DEF Inv, Typed, Value, Script
    <2>3. Stamped'
      <3>1. \A t \in late' : ~t.fill => t.rev # s.rev
        <4> SUFFICES ASSUME NEW t \in late', ~t.fill, t.rev = s.rev PROVE FALSE
          OBVIOUS
        <4>1. t \in Script /\ t.value = 0 /\ s.value = 0 /\ t # s
          BY <1>0, <1>2 DEF Inv, Typed, Stamped
        <4> QED
          BY <1>0, <1>2, <4>1 DEF Script
      <3> QED
        BY <1>0, <2>1, <3>1 DEF Inv, Stamped, Unseen
    <2>4. Fenced'
      <3>1. \A v : Floor(v)'
        BY <1>0, <1>2, <2>1, InstalledFloors DEF Inv, Stamped, Unseen
      <3> QED
        BY <1>0, <3>1 DEF Inv, Fenced
    <2>5. Served'
      BY <1>0 DEF Inv, Served
    <2> QED
      BY <2>2, <2>3, <2>4, <2>5 DEF Inv
  <1> QED
    BY <1>1, <1>2

LEMMA ExpireInv ==
  ASSUME Inv, Expire
  PROVE  Inv'
  BY DEF Inv, Typed, Stamped, Unseen, Fenced, Floor, Served, Expire, Value

--------------------------------------------------------------------------------

LEMMA InvHolds == CachesSpec => []Inv
  <1>1. Inv /\ [SettingsNext]_settingsVars => Inv'
    <2> SUFFICES ASSUME Inv, [SettingsNext]_settingsVars PROVE Inv'
      OBVIOUS
    <2>1. CASE \E r \in Readers : StartRead(r)
      BY <2>1, StartReadInv
    <2>2. CASE \E r \in Requests : GetOrLoad(r)
      BY <2>2, SnapshotInv, LoadInv, FillInv, ReadTimesOutInv, LoadDirectlyInv, LoadFailsInv
         DEF GetOrLoad
    <2>3. CASE \E a \in Admins : UpdateConfig(a)
      BY <2>3, StartPatchInv, InvalidateInv, InvalidateTimesOutInv, CommitInv, AnswerInv,
         PatchDiesInv DEF UpdateConfig
    <2>4. CASE \E s \in late : RunLate(s)
      BY <2>4, RunLateInv
    <2>5. CASE Expire
      BY <2>5, ExpireInv
    <2>6. CASE UNCHANGED settingsVars
      BY <2>6 DEF settingsVars, redisVars, Inv, Typed, Stamped, Unseen, Fenced, Floor, Served
    <2> QED
      BY <2>1, <2>2, <2>3, <2>4, <2>5, <2>6 DEF SettingsNext
  <1>2. [CachesNext]_cachesVars => [SettingsNext]_settingsVars
    BY DEF CachesNext, cachesVars
  <1>3. CachesInit => SettingsInit
    BY DEF CachesInit
  <1> QED
    BY <1>1, <1>2, <1>3, InitInv, PTL DEF CachesSpec

\* However many requests, admins, lost answers and late scripts there are, nobody
\* is given a configuration older than one an admin had been told was in force.
THEOREM NeverStale == CachesSpec => []ConfigNeverStale
  <1>1. Inv => ConfigNeverStale
    BY DEF Inv, Served, ConfigNeverStale, Requests
  <1> QED
    BY <1>1, InvHolds, PTL

--------------------------------------------------------------------------------
(* The views                                                                *)

\* What is read for the keys of KeptFresh, by whichever view has the key.
KeptReads ==
  [wingoBets |-> {"WingoBet"}, k3Bets |-> {"K3Bet"}, fiveDBets |-> {"FiveDBet"}, motoBets |-> {"MotoBet"},
   trxWingoBets |-> {"TrxWingoBet"}, gameHistory |-> BetTables, userQueries |-> {"UserQuery"},
   userNotifications |-> {"Notification"}, adminNotifications |-> {"Notification"},
   vipRewardClaims |-> {"VipRewardClaim"}, commissionRates |-> {"CommissionRateConfig"},
   inoutGames |-> {"InoutGame"}, maintenance |-> {"Maintenance"},
   adminSalaryStats |-> {"SalaryRule", "SalaryPayment"}]
KeptKeys == {"wingoBets", "k3Bets", "fiveDBets", "motoBets", "trxWingoBets", "gameHistory", "userQueries",
  "userNotifications", "adminNotifications", "vipRewardClaims", "commissionRates", "inoutGames",
  "maintenance", "adminSalaryStats"}

LEMMA KeptKeysAre == \A v \in KeptFresh : v.key \in KeptKeys
BY DEF KeptKeys, KeptFresh, View,
  WingoBetsView, K3BetsView, FiveDBetsView, MotoBetsView, TrxBetsView, GameHistoryView, QueriesView,
  NotificationsView, AdminNotificationsView, VipClaimsView, CommissionRatesView,
  AdminCommissionRatesView, InoutGamesView, MaintenanceView, SalaryStatsView

LEMMA ReadersAre ==
  ASSUME NEW v \in Views, v.key \in KeptKeys
  PROVE  v.reads = KeptReads[v.key]
BY DEF KeptKeys, KeptReads, Views, View,
  WingoBetsView, K3BetsView, FiveDBetsView, MotoBetsView, TrxBetsView, GameHistoryView,
  WithdrawalsView, QueriesView, NotificationsView, VipRequirementsView, VipClaimsView,
  CommissionRatesView, CommissionBreakdownView, DailyCommissionView, RebateRatesView,
  RebateHistoryView, RebatePeopleView, RebateDayTotalsView, TeamOverviewView, TeamMembersView,
  AgencyHubView, SalaryReportView, SalaryDashboardView, SalaryHistoryView, InoutGamesView,
  MaintenanceView, UsersView, UserStatsView, YesterdayStatsView, TeamDayView, BonusHistoryView,
  BalanceHistoryView, CommissionHistoryView, DepositsView, AdminWithdrawalsView, AdminGameHistoryView,
  AdminRebateHistoryView, AdminCommissionRatesView, AdminNotificationsView, EarningsView,
  RecentWinsView, TopUsersView, AgentsView, AgentDetailsView, AgentPerformanceView, IpsView,
  IpStatisticsView, SubAdminsView, ProfitLossView, GameStatsView, SalaryStatsView, TopPerformanceView,
  OverviewView, IllegalBetsView, IllegalBetStatsView, GiftsView, AdminQueriesView

\* Whoever writes what is read for such a key drops it.
LEMMA DroppersAre ==
  ASSUME NEW w \in Writes, NEW k \in KeptKeys, w.writes \cap KeptReads[k] # {}
  PROVE  k \in w.drops
BY DEF KeptKeys, KeptReads, BetTables, GameCaches, SalaryKeys, Writes, Write,
  WingoBetting, K3Betting, FiveDBetting, MotoBetting, TrxBetting, InoutBetting, DepositRequest,
  GatewayDeposit, GatewayCallback, PayoutCallback, DepositTimeout, ManageDeposit, WithdrawRequest,
  RefundWithdrawal, ManageWithdrawal, NotificationCreate, NotificationUpdate, NotificationDelete,
  CommissionRateUpdate, ConfigUpdate, InoutGamesUpdate, VipRuleEdit, VipClaim, QueryCreate,
  QueryUpdate, GiftCreate, GiftUpdate, GiftRedeem, UserCreate, UserUpdate, BalanceUpdate, AgentCreate,
  SubAdminCreate, IpBlacklist, IpWhitelist, SalaryRuleCreate, SalaryRuleUpdate, SalaryRuleDelete,
  SalaryRun, AutoSalaryPay, RebateClose, PenaltyChange

SlotsEver == {<<>>} \cup {Slot(v, page) : v \in Views, page \in Pages}
Ttls == {0} \cup {v.ttl : v \in Views}
GetRow ==
  [pc : {"idle", "load", "put", "expire"}, slot : SlotsEver, ttl : Ttls, rows : Nat, raced : BOOLEAN]
OpRow == [pc : {"idle", "drop"}, drops : BOOLEAN]

ViewsTyped ==
  /\ key \in Keys
  /\ rows \in Nat
  /\ gets \in [Processes -> GetRow]
  /\ ops \in [Operations -> OpRow]
  /\ cacheFaults \in Nat

Quiet == \A o \in Operations : ops[o].pc # "drop"

\* Whoever is about to delete keys deletes this one; once nobody is, what was read
\* before the last change is marked, in Redis and in the hands of a GET.
KeptUp ==
  (cacheFaults = 0 /\ key \in KeptKeys) =>
    /\ \A o \in Operations : ops[o].pc = "drop" => ops[o].drops
    /\ Quiet =>
         /\ \A p \in Processes : gets[p].pc = "put" => gets[p].rows = rows \/ gets[p].raced
         /\ \A e \in entries : e.rows = rows \/ e.raced

ViewsInv == ViewsTyped /\ KeptUp

LEMMA ViewsStart == ViewsInit => ViewsInv
<1> SUFFICES ASSUME ViewsInit PROVE ViewsInv
  OBVIOUS
<1>1. NoGet \in GetRow /\ NoGet.pc = "idle"
  <2>1. FALSE \in BOOLEAN
    OBVIOUS
  <2> QED BY <2>1 DEF NoGet, GetRow, SlotsEver, Ttls
<1>2. NoOp \in OpRow /\ NoOp.pc = "idle"
  <2>1. FALSE \in BOOLEAN
    OBVIOUS
  <2> QED BY <2>1 DEF NoOp, OpRow
<1>3. ViewsTyped
  BY <1>1, <1>2 DEF ViewsInit, ViewsTyped
<1>4. KeptUp
  BY <1>1, <1>2 DEF ViewsInit, KeptUp
<1> QED BY <1>3, <1>4 DEF ViewsInv

LEMMA GetViews ==
  ASSUME ViewsInv, NEW p \in Processes, NEW v \in ViewsOf(key), NEW page \in Pages, Get(p, v, page)
  PROVE  ViewsInv'
<1>1. PICK new : new = [NoGet EXCEPT !.pc = "load", !.slot = Slot(v, page), !.ttl = v.ttl]
  OBVIOUS
<1>2. gets' = [gets EXCEPT ![p] = new] /\ UNCHANGED <<key, rows, entries, ops, cacheFaults>>
  BY <1>1 DEF Get
<1>3. new \in GetRow /\ new.pc = "load"
  <2>1. v \in Views /\ FALSE \in BOOLEAN
    BY DEF ViewsOf
  <2>2. PICK s : s = Slot(v, page)
    OBVIOUS
  <2>3. s \in SlotsEver /\ v.ttl \in Ttls
    BY <2>1, <2>2 DEF SlotsEver, Ttls
  <2>4. new = [pc |-> "load", slot |-> s, ttl |-> v.ttl, rows |-> 0, raced |-> FALSE]
    BY <1>1, <2>2 DEF NoGet
  <2> QED BY <2>1, <2>3, <2>4 DEF GetRow
<1>4. ViewsTyped'
  BY <1>2, <1>3 DEF ViewsInv, ViewsTyped
<1>5. KeptUp'
  BY <1>2, <1>3 DEF ViewsInv, ViewsTyped, KeptUp, Quiet
<1> QED BY <1>4, <1>5 DEF ViewsInv

LEMMA LoadViews ==
  ASSUME ViewsInv, NEW p \in Processes, LoadView(p)
  PROVE  ViewsInv'
<1>1. gets \in [Processes -> GetRow] /\ rows \in Nat
  BY DEF ViewsInv, ViewsTyped
<1>2. PICK new : new = [gets[p] EXCEPT !.pc = "put", !.rows = rows]
  OBVIOUS
<1>3. gets' = [gets EXCEPT ![p] = new] /\ UNCHANGED <<key, rows, entries, ops, cacheFaults>>
  BY <1>2, Zenon DEF LoadView
<1>4. new \in GetRow /\ new.rows = rows
  <2>1. gets[p] \in GetRow
    BY <1>1
  <2> QED BY <1>1, <1>2, <2>1 DEF GetRow
<1>5. gets' \in [Processes -> GetRow] /\ gets'[p].rows = rows /\ \A q \in Processes : q # p => gets'[q] = gets[q]
  BY <1>1, <1>3, <1>4
<1>6. ViewsTyped'
  BY <1>3, <1>5 DEF ViewsInv, ViewsTyped
<1>7. KeptUp'
  BY <1>3, <1>5 DEF ViewsInv, KeptUp, Quiet
<1> QED BY <1>6, <1>7 DEF ViewsInv

\* A failure: the rest is only about behaviours without one.
LEMMA Faulty ==
  ASSUME ViewsInv, NEW kind, CacheFault(kind), ViewsTyped'
  PROVE  ViewsInv'
BY DEF ViewsInv, ViewsTyped, CacheFault, KeptUp

LEMMA FailsOpen ==
  ASSUME ViewsInv, NEW p \in Processes, LoadFailsOpen(p)
  PROVE  ViewsInv'
<1>0. PICK new : new = [gets[p] EXCEPT !.pc = "put", !.rows = 0]
  OBVIOUS
<1>1. /\ gets' = [gets EXCEPT ![p] = new]
      /\ UNCHANGED <<key, rows, entries, ops>> /\ CacheFault("database") /\ cacheFaults' = cacheFaults + 1
  BY <1>0, Zenon DEF LoadFailsOpen, CacheFault
<1>2. gets' \in [Processes -> GetRow]
  <2>1. gets[p] \in GetRow /\ gets \in [Processes -> GetRow]
    BY DEF ViewsInv, ViewsTyped
  <2>2. new \in GetRow
    BY <1>0, <2>1 DEF GetRow
  <2> QED BY <1>1, <2>1, <2>2
<1>3. ViewsTyped'
  BY <1>1, <1>2 DEF ViewsInv, ViewsTyped
<1> QED BY <1>1, <1>3, Faulty

LEMMA Puts ==
  ASSUME ViewsInv, NEW p \in Processes, Put(p)
  PROVE  ViewsInv'
<1>1. UNCHANGED <<key, rows, ops, cacheFaults>> /\ gets[p].pc = "put"
  BY DEF Put
<1>2. NoGet \in GetRow /\ NoGet.pc = "idle"
  <2>1. FALSE \in BOOLEAN
    OBVIOUS
  <2> QED BY <2>1 DEF NoGet, GetRow, SlotsEver, Ttls
<1>3. gets \in [Processes -> GetRow]
  BY DEF ViewsInv, ViewsTyped
<1>4. \A e \in entries' : e \in entries \/ e = Entry(p)
  BY DEF Put
<1>5. /\ gets' \in [Processes -> GetRow] /\ gets'[p].pc # "put"
      /\ \A q \in Processes : q # p => gets'[q] = gets[q]
  <2>1. CASE gets' = [gets EXCEPT ![p] = NoGet]
    BY <1>2, <1>3, <2>1
  <2>2. CASE gets' = [gets EXCEPT ![p].pc = "expire"]
    BY <1>3, <2>2 DEF GetRow
  <2> QED BY <2>1, <2>2 DEF Put
<1>6. ViewsTyped'
  BY <1>1, <1>5 DEF ViewsInv, ViewsTyped
<1>7. KeptUp'
  BY <1>1, <1>4, <1>5 DEF ViewsInv, KeptUp, Quiet, Entry
<1> QED BY <1>6, <1>7 DEF ViewsInv

LEMMA EndOfGet ==
  ASSUME ViewsInv, NEW p \in Processes, SetExpiry(p) \/ PutFails(p)
  PROVE  ViewsInv'
<1>1. gets' = [gets EXCEPT ![p] = NoGet] /\ UNCHANGED <<key, rows, entries, ops>>
  BY DEF SetExpiry, PutFails
<1>2. NoGet \in GetRow /\ NoGet.pc = "idle"
  <2>1. FALSE \in BOOLEAN
    OBVIOUS
  <2> QED BY <2>1 DEF NoGet, GetRow, SlotsEver, Ttls
<1>3. cacheFaults' \in Nat
  BY DEF ViewsInv, ViewsTyped, SetExpiry, PutFails, CacheFault
<1>4. ViewsTyped'
  BY <1>1, <1>2, <1>3 DEF ViewsInv, ViewsTyped
<1>5. CASE SetExpiry(p)
  <2>1. cacheFaults' = cacheFaults
    BY <1>5 DEF SetExpiry
  <2>2. KeptUp'
    BY <1>1, <1>2, <2>1 DEF ViewsInv, ViewsTyped, KeptUp, Quiet
  <2> QED BY <1>4, <2>2 DEF ViewsInv
<1>6. CASE PutFails(p)
  BY <1>4, <1>6, Faulty DEF PutFails
<1> QED BY <1>5, <1>6

\* An operation that changes what a view of this kind shows will delete its key.
LEMMA Changes ==
  ASSUME ViewsInv, NEW o \in Operations, NEW w \in Writes, Change(o, w)
  PROVE  ViewsInv'
<1>0. (key \in w.drops) \in BOOLEAN
  <2>1. PICK S : S = w.drops
    OBVIOUS
  <2>2. PICK k : k = key
    OBVIOUS
  <2>3. (k \in S) \in BOOLEAN
    OBVIOUS
  <2> QED BY <2>1, <2>2, <2>3
<1>1. PICK drops \in BOOLEAN : drops = (key \in w.drops)
  BY <1>0, Zenon
<1>2. ops' = [ops EXCEPT ![o] = [pc |-> "drop", drops |-> drops]] /\ rows' = rows + 1
  BY <1>1, Zenon DEF Change
<1>3. UNCHANGED <<key, entries, gets, cacheFaults>>
  BY DEF Change
<1>4. ops' \in [Operations -> OpRow] /\ ops'[o].pc = "drop" /\ ops'[o].drops = drops
  BY <1>2 DEF ViewsInv, ViewsTyped, OpRow
<1>5. key \in KeptKeys => drops
  <2> SUFFICES ASSUME key \in KeptKeys PROVE key \in w.drops
    BY <1>1
  <2>1. PICK t \in w.writes : \E v \in ViewsOf(key) : t \in v.reads
    BY DEF Change
  <2>2. t \in KeptReads[key]
    BY <2>1, ReadersAre DEF ViewsOf
  <2> QED BY <2>1, <2>2, DroppersAre
<1>6. ViewsTyped'
  BY <1>2, <1>3, <1>4 DEF ViewsInv, ViewsTyped
<1>7. ~Quiet'
  BY <1>4 DEF Quiet
<1>8. KeptUp'
  BY <1>2, <1>3, <1>4, <1>5, <1>7 DEF ViewsInv, ViewsTyped, KeptUp
<1> QED BY <1>6, <1>8 DEF ViewsInv

LEMMA Drops ==
  ASSUME ViewsInv, NEW o \in Operations, Drop(o)
  PROVE  ViewsInv'
<1>1. /\ ops' = [ops EXCEPT ![o] = NoOp] /\ UNCHANGED <<key, rows, cacheFaults>> /\ ops[o].pc = "drop"
  BY DEF Drop
<1>2. NoOp \in OpRow /\ NoOp.pc = "idle"
  <2>1. FALSE \in BOOLEAN
    OBVIOUS
  <2> QED BY <2>1 DEF NoOp, OpRow
<1>3. ops' \in [Operations -> OpRow] /\ \A q \in Operations : ops'[q] = ops[q] \/ ops'[q].pc = "idle"
  BY <1>1, <1>2 DEF ViewsInv, ViewsTyped
<1>4. CASE ops[o].drops
  <2>1. /\ entries' = {}
        /\ gets' = [p \in Processes |-> [gets[p] EXCEPT !.raced = @ \/ gets[p].pc = "put"]]
    BY <1>4 DEF Drop
  <2>2. ASSUME NEW p \in Processes
        PROVE  gets'[p] \in GetRow /\ gets'[p].pc = gets[p].pc /\ (gets[p].pc = "put" => gets'[p].raced)
    <3>1. gets[p] \in GetRow
      BY DEF ViewsInv, ViewsTyped
    <3>2. PICK b \in BOOLEAN : b = (gets[p].raced \/ gets[p].pc = "put")
      OBVIOUS
    <3>3. gets'[p] = [gets[p] EXCEPT !.raced = b]
      BY <2>1, <3>2, Zenon
    <3>4. gets'[p] \in GetRow /\ gets'[p].pc = gets[p].pc /\ gets'[p].raced = b
      BY <3>1, <3>3 DEF GetRow
    <3> QED BY <3>2, <3>4
  <2>3. gets' \in [Processes -> GetRow]
    BY <2>1, <2>2
  <2>4. ViewsTyped'
    BY <1>1, <1>3, <2>3 DEF ViewsInv, ViewsTyped
  <2>5. KeptUp'
    BY <1>1, <1>3, <2>1, <2>2 DEF ViewsInv, KeptUp
  <2> QED BY <2>4, <2>5 DEF ViewsInv
<1>5. CASE ~ops[o].drops
  <2>1. UNCHANGED <<entries, gets>>
    BY <1>5 DEF Drop
  <2>2. ~(cacheFaults = 0 /\ key \in KeptKeys)
    BY <1>1, <1>5 DEF ViewsInv, KeptUp
  <2>3. ViewsTyped'
    BY <1>1, <1>3, <2>1 DEF ViewsInv, ViewsTyped
  <2> QED BY <1>1, <2>2, <2>3 DEF ViewsInv, KeptUp
<1> QED BY <1>4, <1>5

LEMMA DropsFail ==
  ASSUME ViewsInv, NEW o \in Operations, DropFails(o)
  PROVE  ViewsInv'
<1>1. ops' = [ops EXCEPT ![o] = NoOp] /\ UNCHANGED <<key, rows, gets>> /\ cacheFaults' = cacheFaults + 1
  BY DEF DropFails, CacheFault
<1>2. NoOp \in OpRow
  <2>1. FALSE \in BOOLEAN
    OBVIOUS
  <2> QED BY <2>1 DEF NoOp, OpRow
<1>3. ViewsTyped'
  BY <1>1, <1>2 DEF ViewsInv, ViewsTyped
<1> QED BY <1>3, Faulty DEF DropFails

LEMMA ViewsKeep == ViewsInv /\ [ViewsNext]_viewVars => ViewsInv'
<1> SUFFICES ASSUME ViewsInv, [ViewsNext]_viewVars PROVE ViewsInv'
  OBVIOUS
<1>1. ASSUME UNCHANGED <<key, rows, gets, ops, cacheFaults>>, entries' \subseteq entries PROVE ViewsInv'
  BY <1>1 DEF ViewsInv, ViewsTyped, KeptUp, Quiet
<1>2. ASSUME NEW p \in Processes, NEW v \in ViewsOf(key), NEW page \in Pages, Get(p, v, page) PROVE ViewsInv'
  BY <1>2, GetViews
<1>3. ASSUME NEW p \in Processes, LoadView(p) \/ LoadFailsOpen(p) \/ Put(p) \/ SetExpiry(p) \/ PutFails(p)
      PROVE  ViewsInv'
  BY <1>3, LoadViews, FailsOpen, Puts, EndOfGet
<1>4. ASSUME NEW p \in Processes, FailOpenEnds(p) PROVE ViewsInv'
  BY <1>1, <1>4 DEF FailOpenEnds
<1>5. KeyExpires => ViewsInv'
  BY <1>1 DEF KeyExpires
<1>6. ASSUME NEW o \in Operations, (\E w \in Writes : Change(o, w)) \/ Drop(o) \/ DropFails(o) PROVE ViewsInv'
  BY <1>6, Changes, Drops, DropsFail
<1>7. UNCHANGED viewVars => ViewsInv'
  BY <1>1 DEF viewVars
<1> QED BY <1>2, <1>3, <1>4, <1>5, <1>6, <1>7, Zenon DEF ViewsNext

LEMMA ViewsHold == CachesSpec => []ViewsInv
<1>1. CachesInit => ViewsInv
  BY ViewsStart DEF CachesInit
<1>2. [CachesNext]_cachesVars => [ViewsNext]_viewVars
  BY DEF CachesNext, cachesVars
<1> QED BY <1>1, <1>2, ViewsKeep, PTL DEF CachesSpec

\* For any processes, operations and changes: without a failure a view of KeptFresh is
\* older than the last operation only when a GET that had read the rows before the
\* operation put them after it.
THEOREM OnlyRacesAreStale == CachesSpec => []FreshUnlessRaced
<1>1. ViewsInv => FreshUnlessRaced
  <2>1. ASSUME key \in {v.key : v \in KeptFresh} PROVE key \in KeptKeys
    BY <2>1, KeptKeysAre
  <2> QED BY <2>1 DEF ViewsInv, KeptUp, Quiet, FreshUnlessRaced
<1> QED BY <1>1, ViewsHold, PTL

================================================================================
