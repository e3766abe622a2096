----------------------------- MODULE HandleLoop -----------------------------
(***************************************************************************)
(* What lib/loop.js promises a program, said in the program's own terms:   *)
(* handles, no descriptor numbers, no tables, no count and no kernel.      *)
(*                                                                         *)
(* poll() collects a round of events, each for a watched handle and at     *)
(* most one for each, runs the immediates it owes, delivers the events to  *)
(* the handles they are for, and starts over; it ends by itself only when  *)
(* nothing is watched and no immediate is queued.  EventLoop implements    *)
(* this.  What a program forfeits by a liberty is said where it matters:   *)
(* Deliver, Crash, CloseAgain and Return.                                  *)
(***************************************************************************)
EXTENDS Integers, Sequences

CONSTANTS Handles, Nil

VARIABLES
  open,         \* handles that are open
  watched,      \* those among them the loop watches
  due,          \* events of this round still to be delivered
  queued,       \* immediates queued
  owed,         \* those of them this round still has to run
  running,      \* the handle whose callback or error handler runs
  pc, program   \* as in EventLoop

vars == <<open, watched, due, queued, owed, running, pc, program>>

Executing == pc \in {"main", "immediate", "event", "error"}

Init ==
  /\ open = {} /\ watched = {}
  /\ due = <<>>
  /\ queued = 0 /\ owed = 0
  /\ running = Nil
  /\ pc = "main"
  /\ program \in SUBSET {"closes_others", "closes_twice", "opens_on_error"}

-----------------------------------------------------------------------------
(* The program. *)

Open(h) ==
  /\ Executing
  /\ pc = "error" => "opens_on_error" \in program
  /\ h \notin open
  /\ open' = open \cup {h}
  /\ UNCHANGED <<watched, due, queued, owed, running, pc, program>>

Watch(h) ==
  /\ Executing
  /\ h \in open
  /\ watched' = watched \cup {h}
  /\ UNCHANGED <<open, due, queued, owed, running, pc, program>>

Ends(h) ==
  /\ Executing
  /\ h \in open
  /\ open' = open \ {h}
  /\ watched' = watched \ {h}
  /\ UNCHANGED <<due, queued, owed, running, pc, program>>

\* The main program closes what it likes, a callback its own handle.
Close(h) ==
  /\ pc = "main" \/ h = running \/ "closes_others" \in program
  /\ Ends(h)

\* A close that is repeated may end any handle.
CloseAgain(h) == "closes_twice" \in program /\ Ends(h)

SetImmediate ==
  /\ Executing
  /\ queued' = queued + 1
  /\ UNCHANGED <<open, watched, due, owed, running, pc, program>>

\* After an error the handle is not watched any more.  A program whose error
\* handlers open something, or whose callbacks close others, may lose
\* another one instead, or none.
Return ==
  /\ \/ pc = "main" /\ pc' = "poll" /\ UNCHANGED watched
     \/ pc \in {"immediate", "event"} /\ pc' = "drain" /\ UNCHANGED watched
     \/ /\ pc = "error" /\ pc' = "drain"
        /\ \E h \in Handles \cup {Nil} :
             /\ program \cap {"closes_others", "opens_on_error"} = {}
                  => h = running
             /\ watched' = watched \ {h}
  /\ running' = Nil
  /\ UNCHANGED <<open, due, queued, owed, program>>

Throw ==
  /\ pc \in {"event", "error"}
  /\ pc' = "threw"
  /\ UNCHANGED <<open, watched, due, queued, owed, running, program>>

-----------------------------------------------------------------------------
(* The loop. *)

Exit ==
  /\ pc = "poll"
  /\ watched = {} /\ queued = 0
  /\ pc' = "exited"
  /\ UNCHANGED <<open, watched, due, queued, owed, running, program>>

\* A signal ends the loop early, but never one that has immediates to run.
Interrupted ==
  /\ pc = "poll"
  /\ watched # {} /\ queued = 0
  /\ pc' = "exited"
  /\ UNCHANGED <<open, watched, due, queued, owed, running, program>>

Rounds ==
  {s \in Seq([to : watched, failed : BOOLEAN]) :
     \A i, j \in 1..Len(s) : i # j => s[i].to # s[j].to}

Collect ==
  /\ pc = "poll"
  /\ due' \in Rounds
  /\ due' # <<>> \/ queued > 0
  /\ owed' = queued
  /\ pc' = "drain"
  /\ UNCHANGED <<open, watched, queued, running, program>>

RunImmediate ==
  /\ pc = "drain"
  /\ owed > 0
  /\ owed' = owed - 1
  /\ queued' = queued - 1
  /\ pc' = "immediate"
  /\ UNCHANGED <<open, watched, due, running, program>>

\* An event reaches the handle it was collected for, which is still watched.
\* Where callbacks close others it reaches some watched handle, or ends the
\* process.
Deliver ==
  /\ pc = "drain"
  /\ owed = 0
  /\ due # <<>>
  /\ due' = Tail(due)
  /\ running' \in watched
  /\ running' = Head(due).to \/ "closes_others" \in program
  /\ pc' = IF Head(due).failed THEN "error" ELSE "event"
  /\ UNCHANGED <<open, watched, queued, owed, program>>

Crash ==
  /\ "closes_others" \in program
  /\ pc = "drain"
  /\ owed = 0
  /\ due # <<>>
  /\ due' = Tail(due)
  /\ running' = Nil
  /\ pc' = "crashed"
  /\ UNCHANGED <<open, watched, queued, owed, program>>

RoundOver ==
  /\ pc = "drain"
  /\ owed = 0
  /\ due = <<>>
  /\ pc' = "poll"
  /\ UNCHANGED <<open, watched, due, queued, owed, running, program>>

Next ==
  \/ \E h \in Handles : Open(h) \/ Watch(h) \/ Close(h) \/ CloseAgain(h)
  \/ SetImmediate
  \/ Return
  \/ Throw
  \/ Exit
  \/ Interrupted
  \/ Collect
  \/ RunImmediate
  \/ Deliver
  \/ Crash
  \/ RoundOver

Spec == Init /\ [][Next]_vars
=============================================================================
