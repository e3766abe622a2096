----------------------------- MODULE MCWorkers -----------------------------
(* Two workers and two thread numbers, and enough runs that the number of   *)
(* a joined thread is handed on.                                           *)
EXTENDS Workers

CONSTANTS v, w

MCHandles == {v, w}
MCTids == {1, 2}
=============================================================================
