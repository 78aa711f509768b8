------------------------- MODULE MCCacheInvalidation -------------------------
(***************************************************************************)
(* The invalidation on its own, with two administrators who edit at the    *)
(* same time.                                                              *)
(***************************************************************************)
EXTENDS CacheInvalidation
=============================================================================
