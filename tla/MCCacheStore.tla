---------------------------- MODULE MCCacheStore ----------------------------
(***************************************************************************)
(* Two sessions' commands that write one file each, two quarantines and a  *)
(* restore.                                                                *)
(***************************************************************************)
EXTENDS CacheStore

=============================================================================
