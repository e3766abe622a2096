----------------------------- MODULE MCTimers ------------------------------
(* Timers with two numbers, so that one is handed on while a batch that     *)
(* names the other is dispatched.                                          *)
EXTENDS Timers

MCFds == {3, 4}

Timeout(ms)  == [timeout |-> ms, repeat |-> ms, once |-> TRUE]
Interval(ms) == [timeout |-> ms, repeat |-> ms, once |-> FALSE]

MCKinds ==
  {Timeout(0), Timeout(1), Interval(1),
   [timeout |-> 1, repeat |-> 2, once |-> FALSE]}
=============================================================================
