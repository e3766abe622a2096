------------------------------ MODULE MCFetch ------------------------------
(* Two fetches, one of which may find the other's connection in the pool.  *)
EXTENDS Fetch

CONSTANTS f, g

MCFetches == {f, g}
=============================================================================
