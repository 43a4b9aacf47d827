--------------------------------- MODULE Caches ----------------------------------
(***************************************************************************)
(* The two ways the system caches: the fenced configuration (SettingsCache)*)
(* and the best-effort views (CachedViews).  They share a Redis and        *)
(* nothing in it, so that a behaviour is about one of them (subject).      *)
(***************************************************************************)
EXTENDS SettingsCache, CachedViews

VARIABLE subject

cachesVars == <<settingsVars, viewVars, subject>>

CachesInit ==
  /\ SettingsInit
  /\ ViewsInit
  /\ \/ subject = "settings" /\ key = MaintenanceView.key
     \/ subject = "views"

CachesNext ==
  \/ subject = "settings" /\ SettingsNext /\ UNCHANGED <<viewVars, subject>>
  \/ subject = "views" /\ ViewsNext /\ UNCHANGED <<settingsVars, subject>>

CachesSpec == CachesInit /\ [][CachesNext]_cachesVars /\ ViewsFairness

================================================================================
