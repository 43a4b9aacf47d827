----------------------------- MODULE SettingsCache ------------------------------
(***************************************************************************)
(* The system configuration: one row of the database, one key of Redis     *)
(* (SystemConfigCache), the requests that read it (SystemSettings.get) and *)
(* the admins that change it (PATCH /admin/config).                        *)
(*                                                                         *)
(* A value of the configuration is the number of updates it contains; the  *)
(* row exists, and the cache is not switched off (DISABLE_CACHE).  A       *)
(* script is run by Redis in one step; its caller may give up waiting for  *)
(* it, and Redis may then run it later or never.                           *)
(***************************************************************************)
EXTENDS Integers

CONSTANTS
  Readers,      \* calls of SystemSettings.get, one after the other
  Admins,       \* PATCH requests
  None,         \* no value
  Attempts,     \* attempts of getOrLoad and of invalidate
  FaultKinds, MaxFaults

Requests == Readers \cup Admins

ASSUME SettingsAssumption ==
  /\ Readers \cap Admins = {}
  /\ None \notin Nat
  /\ Attempts \in Nat \ {0}
  /\ MaxFaults \in Nat

VARIABLES
  db,           \* the row of the configuration
  cached,       \* the key system:config
  revision,     \* the key system:config:revision
  minted,       \* revisions made so far (crypto.randomUUID)
  late,         \* scripts whose callers have given up
  read,         \* the calls of getOrLoad
  patch,        \* the PATCH requests
  answered,     \* the last update an admin was told of (for properties)
  faults

redisVars == <<cached, revision, late>>
settingsVars == <<db, redisVars, minted, read, patch, answered, faults>>

NoRead == [pc |-> "idle", attempt |-> 0, rev |-> 0, value |-> None, base |-> 0]
NoPatch == [pc |-> "idle", tries |-> 0, version |-> 0]

SettingsInit ==
  /\ db = 0
  /\ cached = None
  /\ revision = 0
  /\ minted = 0
  /\ late = {}
  /\ read = [r \in Requests |-> NoRead]
  /\ patch = [a \in Admins |-> NoPatch]
  /\ answered = 0
  /\ faults = 0

Fault(kind) ==
  /\ kind \in FaultKinds
  /\ faults < MaxFaults
  /\ faults' = faults + 1

Goto(r, pc) == read' = [read EXCEPT ![r].pc = pc]
Given(r, v) ==
  read' = [read EXCEPT ![r] = [NoRead EXCEPT !.pc = "done", !.value = v, !.base = read[r].base]]

--------------------------------------------------------------------------------
(* SystemConfigCache.getOrLoad: Admins call it with required = true         *)

StartRead(r) ==
  /\ r \in Readers
  /\ read[r].pc \in {"idle", "done"}
  /\ read' = [read EXCEPT ![r] = [NoRead EXCEPT !.pc = "snapshot", !.base = answered]]
  /\ UNCHANGED <<db, redisVars, minted, patch, answered, faults>>

\* SNAPSHOT: the value, or the revision to fill it under.
Snapshot(r) ==
  /\ read[r].pc = "snapshot"
  /\ IF cached # None
     THEN Given(r, cached)
     ELSE read' = [read EXCEPT ![r].pc = "load", ![r].rev = revision]
  /\ UNCHANGED <<db, redisVars, minted, patch, answered, faults>>

Load(r) ==
  /\ read[r].pc = "load"
  /\ read' = [read EXCEPT ![r].pc = "fill", ![r].value = db]
  /\ UNCHANGED <<db, redisVars, minted, patch, answered, faults>>

\* What is read from the database when the cache does not help; an admin's
\* reload is an error instead.
GiveUp(r) == Goto(r, IF r \in Admins THEN "failed" ELSE "direct")

\* FILL stores a value only under the revision of its snapshot.
CurrentAlways(rev) == TRUE
Current(rev) == rev = revision

Fill(r) ==
  /\ read[r].pc = "fill"
  /\ IF Current(read[r].rev)
     THEN /\ cached' = read[r].value
          /\ Given(r, read[r].value)
     ELSE /\ UNCHANGED cached
          /\ IF read[r].attempt + 1 < Attempts
             THEN read' = [read EXCEPT ![r].pc = "snapshot", ![r].attempt = @ + 1]
             ELSE GiveUp(r)
  /\ UNCHANGED <<db, revision, late, minted, patch, answered, faults>>

\* Redis does not answer SNAPSHOT or FILL in time.
ReadTimesOut(r) ==
  /\ Fault("redis")
  /\ read[r].pc \in {"snapshot", "fill"}
  /\ GiveUp(r)
  /\ \/ UNCHANGED late
     \/ /\ read[r].pc = "fill"
        /\ late' = late \cup {[fill |-> TRUE, rev |-> read[r].rev, value |-> read[r].value]}
  /\ UNCHANGED <<db, cached, revision, minted, patch, answered>>

LoadDirectly(r) ==
  /\ read[r].pc = "direct"
  /\ Given(r, db)
  /\ UNCHANGED <<db, redisVars, minted, patch, answered, faults>>

\* The database does not answer.  A reader tries once more without the cache, and
\* without that is given no configuration: its caller falls back to its defaults.
LoadFails(r) ==
  /\ Fault("database")
  /\ \/ read[r].pc = "load" /\ GiveUp(r)
     \/ read[r].pc = "direct" /\ read' = [read EXCEPT ![r] = NoRead]
  /\ UNCHANGED <<db, redisVars, minted, patch, answered>>

GetOrLoad(r) ==
  Snapshot(r) \/ Load(r) \/ Fill(r) \/ ReadTimesOut(r) \/ LoadDirectly(r) \/ LoadFails(r)

--------------------------------------------------------------------------------
(* PATCH /admin/config                                                      *)

StartPatch(a) ==
  /\ patch[a].pc = "idle"
  /\ patch' = [patch EXCEPT ![a].pc = "before"]
  /\ UNCHANGED <<db, redisVars, minted, read, answered, faults>>

\* SystemConfigCache.invalidate, before the row is written and after it; every
\* attempt has a revision of its own.
Invalidate(a) ==
  /\ patch[a].pc \in {"before", "after"}
  /\ minted' = minted + 1
  /\ revision' = minted'
  /\ cached' = None
  /\ patch' = [patch EXCEPT ![a].pc = IF @ = "before" THEN "commit" ELSE "reload",
                            ![a].tries = 0]
  /\ IF patch[a].pc = "after"
     THEN read' = [read EXCEPT ![a] = [NoRead EXCEPT !.pc = "snapshot", !.base = answered]]
     ELSE UNCHANGED read
  /\ UNCHANGED <<db, late, answered, faults>>

InvalidateTimesOut(a) ==
  /\ Fault("redis")
  /\ patch[a].pc \in {"before", "after"}
  /\ minted' = minted + 1
  /\ \/ UNCHANGED late
     \/ late' = late \cup {[fill |-> FALSE, rev |-> minted', value |-> 0]}
  /\ patch' = [patch EXCEPT ![a].tries = @ + 1,
                            ![a].pc = IF patch[a].tries + 1 < Attempts THEN @ ELSE "failed"]
  /\ UNCHANGED <<db, cached, revision, read, answered>>

\* config.update changes the columns that are given and leaves the others.
Commit(a) ==
  /\ patch[a].pc = "commit"
  /\ db' = db + 1
  /\ patch' = [patch EXCEPT ![a].pc = "bust", ![a].version = db']
  /\ UNCHANGED <<redisVars, minted, read, answered, faults>>

\* invalidateMaintenanceCache (MaintenanceGate).
Bust(a) ==
  /\ patch[a].pc = "bust"
  /\ patch' = [patch EXCEPT ![a].pc = "after"]
  /\ UNCHANGED <<db, redisVars, minted, read, answered, faults>>

\* The answer: success once the reload has ended well.
Answer(a) ==
  /\ patch[a].pc = "reload"
  /\ \/ /\ read[a].pc = "done"
        /\ patch' = [patch EXCEPT ![a].pc = "ok"]
        /\ answered' = IF patch[a].version > answered THEN patch[a].version ELSE answered
     \/ /\ read[a].pc = "failed"
        /\ patch' = [patch EXCEPT ![a].pc = "failed"]
        /\ UNCHANGED answered
  /\ read' = [read EXCEPT ![a] = NoRead]
  /\ UNCHANGED <<db, redisVars, minted, faults>>

\* The process of the API dies with the request.
PatchDies(a) ==
  /\ Fault("crash")
  /\ patch[a].pc \notin {"idle", "ok", "failed"}
  /\ patch' = [patch EXCEPT ![a].pc = "failed"]
  /\ read' = [read EXCEPT ![a] = NoRead]
  /\ UNCHANGED <<db, redisVars, minted, answered>>

UpdateConfig(a) ==
  \/ StartPatch(a) \/ Invalidate(a) \/ InvalidateTimesOut(a) \/ Commit(a) \/ Bust(a)
  \/ Answer(a) \/ PatchDies(a)

--------------------------------------------------------------------------------
(* Redis                                                                    *)

\* A script runs although its caller has given up.
RunLate(s) ==
  /\ s \in late
  /\ late' = late \ {s}
  /\ IF s.fill
     THEN /\ cached' = IF Current(s.rev) THEN s.value ELSE cached
          /\ UNCHANGED revision
     ELSE cached' = None /\ revision' = s.rev
  /\ UNCHANGED <<db, minted, read, patch, answered, faults>>

\* FILL sets the value with EX: it expires.
Expire ==
  /\ cached # None
  /\ cached' = None
  /\ UNCHANGED <<db, revision, late, minted, read, patch, answered, faults>>

SettingsNext ==
  \/ \E r \in Readers : StartRead(r)
  \/ \E r \in Requests : GetOrLoad(r)
  \/ \E a \in Admins : UpdateConfig(a)
  \/ \E s \in late : RunLate(s)
  \/ Expire

SettingsSpec == SettingsInit /\ [][SettingsNext]_settingsVars

--------------------------------------------------------------------------------

\* No reader is given a configuration without an update whose admin had been told
\* of its success before the reader asked: slow fills, fills and invalidations that
\* Redis runs late, concurrent admins and crashes of the API notwithstanding.
ConfigNeverStale ==
  \A r \in Readers : read[r].pc = "done" => read[r].value >= read[r].base

================================================================================
