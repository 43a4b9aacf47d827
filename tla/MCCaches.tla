-------------------------------- MODULE MCCaches ---------------------------------
(* One reader and two admins of the configuration; two replicas and two         *)
(* operations for each of the other keys.                                        *)
EXTENDS Caches
================================================================================
