------------------------------ MODULE Workers ------------------------------
(***************************************************************************)
(* Workers: an isolate in a thread.  A Worker of lib/worker.js holds the   *)
(* memory of an isolate_context (lo.h), which the thread reads when it     *)
(* starts and writes its result to when it ends, and the number pthread    *)
(* gave the thread.  Nothing of that is counted or locked: what keeps the  *)
(* context alive while a thread uses it, and joins each thread once, is    *)
(* the order in which the program calls the methods.                       *)
(*                                                                         *)
(* As with descriptors, pthread hands the number of a joined thread to the *)
(* next one, and a Worker remembers its number after the join.             *)
(***************************************************************************)
EXTENDS Naturals, FiniteSets

CONSTANTS
  Handles,   \* Worker objects
  Tids,      \* thread numbers, 0 is none
  MaxRuns,   \* bound: threads started in one behaviour
  Nil

ASSUME WorkersAssumption ==
  /\ Tids \subseteq Nat \ {0}
  /\ MaxRuns \in Nat
  /\ Nil \notin Handles

VARIABLES
  context,      \* the memory of a context: "zeroed", "created", "freed"
  rc,           \* context.rc, as the run that wrote it
  initialized,  \* #initialized
  tid,          \* this.tid
  thread,       \* what runs under a number, until it is joined
  joining,      \* the worker in whose waitfor the program is blocked
  runs,         \* runs so far, a number for each
  program,      \* which liberties this program takes
  (* history *)
  lastRun,      \* the last run of a worker
  settled,      \* the program was told that a worker's run is over
  wild          \* a context was used after it was freed

ctxVars == <<context, rc, initialized, wild>>
vars == <<ctxVars, tid, thread, joining, runs, program, lastRun, settled>>

(***************************************************************************)
(* Liberties.  frees_early: free() before the run is known to be over.     *)
(* restarts: start() likewise.  joins_twice: waitfor() or poll() after the *)
(* run is known to be over.  stops: stop(), which cancels the thread.      *)
(* reuses_freed: create() or free() of a worker that was freed already;    *)
(* nothing in either method stands against it.                             *)
(***************************************************************************)
Liberties == {"frees_early", "restarts", "joins_twice", "stops", "reuses_freed"}

Thread == [run : 1..MaxRuns, worker : Handles,
           at : {"starting", "running", "ended"}, cancelled : BOOLEAN]
NoThread == [run |-> 0, worker |-> Nil, at |-> "none", cancelled |-> FALSE]

Init ==
  /\ context = [w \in Handles |-> "zeroed"]
  /\ rc = [w \in Handles |-> 0]
  /\ initialized = [w \in Handles |-> FALSE]
  /\ tid = [w \in Handles |-> 0]
  /\ thread = [t \in Tids |-> NoThread]
  /\ joining = Nil
  /\ runs = 0
  /\ program \in SUBSET Liberties
  /\ lastRun = [w \in Handles |-> 0]
  /\ settled = [w \in Handles |-> TRUE]
  /\ wild = FALSE

-----------------------------------------------------------------------------
(* The program, on one thread; waitfor blocks it. *)

\* create(): lo_create_isolate_context copies the strings into the memory,
\* in whatever state that is: of a context created before it leaks the
\* copies, a freed one it writes to, and start() takes the worker again.
Create(w) ==
  /\ joining = Nil
  /\ context[w] = "freed" => "reuses_freed" \in program
  /\ context' = [context EXCEPT ![w] = IF @ = "freed" THEN "freed" ELSE "created"]
  /\ initialized' = [initialized EXCEPT ![w] = TRUE]
  /\ wild' = (wild \/ context[w] = "freed")
  /\ UNCHANGED <<rc, tid, thread, joining, runs, program, lastRun, settled>>

\* Slip: a start() that remembers the first number only
StartKeepsTid(w) ==
  /\ joining = Nil
  /\ initialized[w]
  /\ ~settled[w] => "restarts" \in program
  /\ runs < MaxRuns
  /\ \E t \in Tids :
       /\ thread[t] = NoThread
       /\ thread' = [thread EXCEPT ![t] = [run |-> runs + 1, worker |-> w,
                                           at |-> "starting", cancelled |-> FALSE]]
       /\ tid' = IF tid[w] = 0 THEN [tid EXCEPT ![w] = t] ELSE tid
  /\ runs' = runs + 1
  /\ lastRun' = [lastRun EXCEPT ![w] = runs + 1]
  /\ settled' = [settled EXCEPT ![w] = FALSE]
  /\ UNCHANGED <<ctxVars, joining, program>>

\* start(): pthread_create gives any number no thread has.
Start(w) ==
  /\ joining = Nil
  /\ initialized[w]
  /\ ~settled[w] => "restarts" \in program
  /\ runs < MaxRuns
  /\ \E t \in Tids :
       /\ thread[t] = NoThread
       /\ thread' = [thread EXCEPT ![t] = [run |-> runs + 1, worker |-> w,
                                           at |-> "starting", cancelled |-> FALSE]]
       /\ tid' = [tid EXCEPT ![w] = t]
  /\ runs' = runs + 1
  /\ lastRun' = [lastRun EXCEPT ![w] = runs + 1]
  /\ settled' = [settled EXCEPT ![w] = FALSE]
  /\ UNCHANGED <<ctxVars, joining, program>>

\* waitfor() and poll() return at once without a run, and so they do after
\* free(), which resets #initialized.
MayJoin(w) ==
  /\ joining = Nil
  /\ initialized[w] /\ tid[w] # 0
  /\ settled[w] => "joins_twice" \in program

WaitFor(w) ==
  /\ MayJoin(w)
  /\ joining' = w
  /\ UNCHANGED <<ctxVars, tid, thread, runs, program, lastRun, settled>>

\* pthread_join returns when the thread has ended, whoever's it is.  Of a
\* number no thread has, it returns an error.
Joins(w) ==
  /\ thread[tid[w]].at \in {"ended", "none"}
  /\ thread' = [thread EXCEPT ![tid[w]] = NoThread]
  /\ settled' = [settled EXCEPT ![w] = TRUE]
  /\ UNCHANGED <<ctxVars, tid, runs, program, lastRun>>

\* Slip: a waitfor() that waits for its own thread to be there again
JoinReturnsOwn ==
  /\ joining # Nil
  /\ thread[tid[joining]].worker = joining
  /\ Joins(joining)
  /\ joining' = Nil

JoinReturns ==
  /\ joining # Nil
  /\ Joins(joining)
  /\ joining' = Nil

\* Slip: a poll() with its comparison the other way round
PollInverted(w) ==
  /\ MayJoin(w)
  /\ thread[tid[w]].at \in {"starting", "running"}
  /\ settled' = [settled EXCEPT ![w] = TRUE]
  /\ UNCHANGED <<ctxVars, tid, thread, joining, runs, program, lastRun>>

\* poll(): pthread_tryjoin_np, false when it did join, true when EBUSY.
Poll(w) ==
  /\ MayJoin(w)
  /\ Joins(w)
  /\ UNCHANGED joining

\* Slip: a free() that leaves #initialized set
FreeKeepsInitialized(w) ==
  /\ joining = Nil
  /\ context[w] = "freed" => "reuses_freed" \in program
  /\ ~settled[w] => "frees_early" \in program
  /\ context' = [context EXCEPT ![w] = "freed"]
  /\ wild' = (wild \/ context[w] = "freed")
  /\ UNCHANGED <<rc, initialized, tid, thread, joining, runs, program, lastRun,
                 settled>>

\* free(): lo_destroy_isolate_context and free of the memory.  Nothing is
\* asked of the thread, and not whether the context was created (of a zeroed
\* one it frees null pointers) or freed before.
Free(w) ==
  /\ joining = Nil
  /\ context[w] = "freed" => "reuses_freed" \in program
  /\ ~settled[w] => "frees_early" \in program
  /\ context' = [context EXCEPT ![w] = "freed"]
  /\ initialized' = [initialized EXCEPT ![w] = FALSE]
  /\ wild' = (wild \/ context[w] = "freed")
  /\ UNCHANGED <<rc, tid, thread, joining, runs, program, lastRun, settled>>

\* stop(): pthread_cancel of the number, whoever's thread has it by now.
\* With no thread there it cancels nothing.
Stop(w) ==
  /\ joining = Nil
  /\ "stops" \in program
  /\ tid[w] # 0
  /\ thread[tid[w]] # NoThread
  /\ thread' = [thread EXCEPT ![tid[w]].cancelled = TRUE]
  /\ UNCHANGED <<ctxVars, tid, joining, runs, program, lastRun, settled>>

-----------------------------------------------------------------------------
(* The threads: lo_start_isolate. *)

ThreadStep(t, at) ==
  /\ thread' = [thread EXCEPT ![t].at = at]
  /\ wild' = (wild \/ context[thread[t].worker] = "freed")
  /\ UNCHANGED <<context, initialized, tid, joining, runs, program, lastRun,
                 settled>>

\* The arguments are read from the context.
Begin(t) ==
  /\ thread[t].at = "starting"
  /\ ThreadStep(t, "running")
  /\ UNCHANGED rc

\* ctx->rc = lo_create_isolate(...)
End(t) ==
  /\ thread[t].at = "running"
  /\ ThreadStep(t, "ended")
  /\ rc' = [rc EXCEPT ![thread[t].worker] = thread[t].run]

\* A cancelled thread ends at the next cancellation point, if it comes to
\* one, and writes nothing.
Cancelled(t) ==
  /\ thread[t].cancelled /\ thread[t].at \in {"starting", "running"}
  /\ thread' = [thread EXCEPT ![t].at = "ended"]
  /\ UNCHANGED <<ctxVars, tid, joining, runs, program, lastRun, settled>>

-----------------------------------------------------------------------------

Threads == \E t \in Tids : Begin(t) \/ End(t) \/ Cancelled(t)

\* The program may call nothing, and a script may take its time.
Idle == UNCHANGED vars

Next ==
  \/ \E w \in Handles : Create(w) \/ Start(w) \/ WaitFor(w) \/ Poll(w) \/ Free(w)
                        \/ Stop(w)
  \/ JoinReturns
  \/ Threads
  \/ Idle

Spec == Init /\ [][Next]_vars

\* Threads run and their scripts end.
FairSpec == Spec /\ WF_vars(Threads) /\ WF_vars(JoinReturns)

-----------------------------------------------------------------------------
(* Properties. *)

TypeOK ==
  /\ context \in [Handles -> {"zeroed", "created", "freed"}]
  /\ rc \in [Handles -> 0..MaxRuns]
  /\ initialized \in [Handles -> BOOLEAN]
  /\ \A w \in Handles :
       initialized[w] =>
         /\ context[w] # "zeroed"
         /\ context[w] = "created" \/ "reuses_freed" \in program
  /\ tid \in [Handles -> Tids \cup {0}]
  /\ thread \in [Tids -> Thread \cup {NoThread}]
  /\ joining \in Handles \cup {Nil}
  /\ runs \in 0..MaxRuns
  /\ program \in SUBSET Liberties
  /\ lastRun \in [Handles -> 0..MaxRuns]
  /\ settled \in [Handles -> BOOLEAN]
  /\ wild \in BOOLEAN

\* A program that frees, and restarts, only workers whose run it knows to be
\* over, and neither creates nor frees again what it freed, never touches a
\* freed context, from a thread or itself.  It may start(), waitfor(), poll()
\* and stop() a freed worker, create() one repeatedly before, free() one it
\* never created, and join twice and thereby take other workers' threads.
NoUseAfterFree ==
  {"frees_early", "restarts", "reuses_freed"} \cap program = {} => ~wild

\* A program that asks only once whether a run is over is told the truth:
\* what waitfor() or poll() joined was the worker's own last run, whose
\* number cannot have passed to another thread, and unless it was stopped
\* its result is in the context, if that was not freed.
TellsTheTruth ==
  {"joins_twice", "restarts"} \cap program = {} =>
    \A w \in Handles :
      settled[w] =>
        /\ \A t \in Tids : thread[t].worker # w
        /\ "stops" \notin program /\ context[w] # "freed" => rc[w] = lastRun[w]

\* No number is lost: a program that neither restarts a run nor joins twice
\* has exactly the threads it has still to ask for, each under the number
\* its worker remembers.
ThreadsAccounted ==
  {"joins_twice", "restarts"} \cap program = {} =>
    {t \in Tids : thread[t] # NoThread} = {tid[w] : w \in {v \in Handles : ~settled[v]}}

\* waitfor() returns, whichever thread it waits for by then.
WaitReturns == joining # Nil ~> joining = Nil
=============================================================================
