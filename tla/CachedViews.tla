------------------------------ MODULE CachedViews --------------------------------
(***************************************************************************)
(* One key of the best-effort cache (Cache.get/set/hget/hset/del) with the *)
(* GET handlers that share it and the operations that change what they     *)
(* show.  The rows they read are a number, how often they have changed.    *)
(*                                                                         *)
(* A handler gets, loads, puts; a hash is put and given its expiry in two  *)
(* calls.  An operation changes the rows, then deletes the keys it knows.  *)
(* Nothing orders the one against the other.                               *)
(***************************************************************************)
EXTENDS CacheCatalog, FiniteSets

CONSTANTS
  Processes,    \* replicas of the API, each with one GET at a time
  Operations,   \* operations under way at a time
  MaxChanges,   \* changes of the rows (bound)
  Pages,        \* fields of a hash that are asked for
  CacheFaults, MaxCacheFaults

ASSUME ViewsAssumption == Pages # {} /\ MaxChanges \in Nat /\ MaxCacheFaults \in Nat

VARIABLES
  key,          \* the key looked at
  rows,         \* the changes of the rows its views read
  entries,      \* [slot, rows, raced]: what Redis holds under the key
  expires,      \* whether the key has an expiry
  gets,         \* the GET of each process
  ops,          \* the operations
  failOpen,     \* processes that let everybody in for a while (failOpenUntil)
  cacheFaults

viewVars == <<key, rows, entries, expires, gets, ops, failOpen, cacheFaults>>

ViewsOf(k) == {v \in Views : v.key = k}
Slot(v, p) == IF v.store = "value" THEN <<"value">> ELSE <<v.part, p>>
Slots == UNION {{Slot(v, p) : p \in Pages} : v \in ViewsOf(key)}

NoGet == [pc |-> "idle", slot |-> <<>>, ttl |-> 0, rows |-> 0, raced |-> FALSE]
NoOp == [pc |-> "idle", drops |-> FALSE]

ViewsInit ==
  /\ key \in Keys
  /\ rows = 0
  /\ entries = {}
  /\ expires = FALSE
  /\ gets = [p \in Processes |-> NoGet]
  /\ ops = [o \in Operations |-> NoOp]
  /\ failOpen = {}
  /\ cacheFaults = 0

CacheFault(kind) ==
  /\ kind \in CacheFaults
  /\ cacheFaults < MaxCacheFaults
  /\ cacheFaults' = cacheFaults + 1

At(slot) == {e \in entries : e.slot = slot}
Holds(store) == IF store = "value" THEN At(<<"value">>) # {} ELSE entries # {} /\ At(<<"value">>) = {}

--------------------------------------------------------------------------------
(* A GET handler                                                            *)

\* A miss, or an error of Redis, which Cache.get answers like a miss.  A process whose
\* circuit is open (60 s after a timeout) neither gets nor puts: its GETs, and hits,
\* change nothing.
Get(p, v, page) ==
  /\ gets[p].pc = "idle"
  /\ v.key = key
  /\ p \notin failOpen
  /\ At(Slot(v, page)) = {}
  /\ gets' = [gets EXCEPT ![p] = [NoGet EXCEPT !.pc = "load", !.slot = Slot(v, page), !.ttl = v.ttl]]
  /\ UNCHANGED <<key, rows, entries, expires, ops, failOpen, cacheFaults>>

LoadView(p) ==
  /\ gets[p].pc = "load"
  /\ gets' = [gets EXCEPT ![p] = [@ EXCEPT !.pc = "put", !.rows = rows]]
  /\ UNCHANGED <<key, rows, entries, expires, ops, failOpen, cacheFaults>>

\* The gate fails open when the database does not answer, here and, for a while, in
\* Redis: like the state of no change, maintenance off.
LoadFailsOpen(p) ==
  /\ CacheFault("database")
  /\ key = MaintenanceView.key
  /\ gets[p].pc = "load"
  /\ gets' = [gets EXCEPT ![p] = [@ EXCEPT !.pc = "put", !.rows = 0]]
  /\ failOpen' = failOpen \cup {p}
  /\ UNCHANGED <<key, rows, entries, expires, ops>>

FailOpenEnds(p) ==
  /\ p \in failOpen
  /\ failOpen' = failOpen \ {p}
  /\ UNCHANGED <<key, rows, entries, expires, gets, ops, cacheFaults>>

Entry(p) == [slot |-> gets[p].slot, rows |-> gets[p].rows, raced |-> gets[p].raced]

\* SET replaces whatever the key holds and expires; HSET fails on a key that is no
\* hash (AgentDetailsView and AgentPerformanceView share one) and keeps its expiry.
Put(p) ==
  /\ gets[p].pc = "put"
  /\ IF gets[p].slot = <<"value">>
     THEN /\ entries' = {Entry(p)}
          /\ expires' = (gets[p].ttl > 0)
          /\ gets' = [gets EXCEPT ![p] = NoGet]
     ELSE /\ UNCHANGED expires
          /\ IF Holds("value")
             THEN /\ UNCHANGED entries
                  /\ gets' = [gets EXCEPT ![p] = NoGet]
             ELSE /\ entries' = (entries \ At(gets[p].slot)) \cup {Entry(p)}
                  /\ gets' = [gets EXCEPT ![p].pc = "expire"]
  /\ UNCHANGED <<key, rows, ops, failOpen, cacheFaults>>

\* EXPIRE after HSET, when the caller gave a ttl.
SetExpiry(p) ==
  /\ gets[p].pc = "expire"
  /\ expires' = (expires \/ (entries # {} /\ gets[p].ttl > 0))
  /\ gets' = [gets EXCEPT ![p] = NoGet]
  /\ UNCHANGED <<key, rows, entries, ops, failOpen, cacheFaults>>

\* Redis does not answer in 200 ms or the process dies: nothing is put, or a hash is
\* left without its EXPIRE.
PutFails(p) ==
  /\ CacheFault("redis")
  /\ gets[p].pc \in {"put", "expire"}
  /\ gets' = [gets EXCEPT ![p] = NoGet]
  /\ UNCHANGED <<key, rows, entries, expires, ops, failOpen>>

\* EX and EXPIRE run out.
KeyExpires ==
  /\ expires
  /\ entries' = {}
  /\ expires' = FALSE
  /\ UNCHANGED <<key, rows, gets, ops, failOpen, cacheFaults>>

--------------------------------------------------------------------------------
(* An operation                                                             *)

Change(o, w) ==
  /\ ops[o].pc = "idle"
  /\ rows < MaxChanges
  /\ w.writes \cap UNION {v.reads : v \in ViewsOf(key)} # {}
  /\ rows' = rows + 1
  /\ ops' = [ops EXCEPT ![o] = [pc |-> "drop", drops |-> key \in w.drops]]
  /\ UNCHANGED <<key, entries, expires, gets, failOpen, cacheFaults>>

\* Cache.del of the keys the operation knows; PATCH /admin/config lets its own
\* process look at the gate again (clearMaintenanceFailOpen).
Drop(o) ==
  /\ ops[o].pc = "drop"
  /\ ops' = [ops EXCEPT ![o] = NoOp]
  /\ IF ops[o].drops
     THEN /\ entries' = {}
          /\ expires' = FALSE
          /\ gets' = [p \in Processes |-> [gets[p] EXCEPT !.raced = @ \/ gets[p].pc = "put"]]
          /\ \/ UNCHANGED failOpen
             \/ \E p \in failOpen : failOpen' = failOpen \ {p}
     ELSE UNCHANGED <<entries, expires, gets, failOpen>>
  /\ UNCHANGED <<key, rows, cacheFaults>>

\* Redis fails, which Cache.del only logs, or the process dies before it.
DropFails(o) ==
  /\ CacheFault("redis")
  /\ ops[o].pc = "drop"
  /\ ops' = [ops EXCEPT ![o] = NoOp]
  /\ UNCHANGED <<key, rows, entries, expires, gets, failOpen>>

ViewsNext ==
  \/ \E p \in Processes :
       \/ \E v \in ViewsOf(key), page \in Pages : Get(p, v, page)
       \/ LoadView(p) \/ LoadFailsOpen(p) \/ FailOpenEnds(p)
       \/ Put(p) \/ SetExpiry(p) \/ PutFails(p)
  \/ KeyExpires
  \/ \E o \in Operations : (\E w \in Writes : Change(o, w)) \/ Drop(o) \/ DropFails(o)

ViewsSpec == ViewsInit /\ [][ViewsNext]_viewVars

\* Calls are answered or time out, expiries run out, an operation under way ends.
ViewsFairness ==
  /\ \A p \in Processes :
       /\ WF_viewVars(LoadView(p) \/ Put(p) \/ SetExpiry(p))
       /\ WF_viewVars(FailOpenEnds(p))
  /\ WF_viewVars(KeyExpires)
  /\ \A o \in Operations : WF_viewVars(Drop(o))

--------------------------------------------------------------------------------

\* The views that are to be fresh after an operation: every operation that changes
\* what they show drops their key, wherever in the repository it is.
KeptFresh == {
  WingoBetsView, K3BetsView, FiveDBetsView, MotoBetsView, TrxBetsView, GameHistoryView,
  QueriesView, NotificationsView, AdminNotificationsView, VipClaimsView, CommissionRatesView,
  AdminCommissionRatesView, InoutGamesView, MaintenanceView, SalaryStatsView}

\* Without a failure such a view is older than the last operation only when a GET
\* that had read the rows before the operation put them after it ("place->reload
\* race", wingo/bets.ts): an operation that forgets a key would be another reason.
FreshUnlessRaced ==
  (cacheFaults = 0 /\ key \in {v.key : v \in KeptFresh} /\ \A o \in Operations : ops[o].pc # "drop")
    => \A e \in entries : e.rows = rows \/ e.raced

\* What a process answers now: the gate of a process that fails open is open.
Answers(p) == IF p \in failOpen THEN {0} ELSE {e.rows : e \in entries} \cup {rows}

\* Every view catches up with the rows in the end on every process, raced, failed or
\* never dropped, but for a hash that was left without its expiry.
ViewsCatchUp ==
  <>[](\/ \A p \in Processes : Answers(p) = {rows}
       \/ (key \in {v.key : v \in {w \in Views : w.store = "hash"}} /\ cacheFaults > 0 /\ ~expires))

================================================================================
