--------------------------- MODULE WorkersProofs ---------------------------
(***************************************************************************)
(* Proofs about Workers for any workers, thread numbers and runs, and for  *)
(* every program.                                                          *)
(*                                                                         *)
(* What keeps a context alive, and a number from being joined for another, *)
(* is how three things agree: the thread under a number, the number its    *)
(* worker remembers, and what the program has been told of the run.  How   *)
(* much of that holds depends on the liberties a program takes.            *)
(***************************************************************************)
EXTENDS Workers, TLAPS

(* A worker whose run the program does not know to be over was started,    *)
(* and waitfor blocks on a number.                                         *)
NumbersInv ==
  /\ \A w \in Handles : ~settled[w] => tid[w] # 0
  /\ joining # Nil => tid[joining] # 0
  /\ joining # Nil /\ "joins_twice" \notin program => ~settled[joining]

(* Such a program leaves a context alone once it freed it, and frees it     *)
(* only when the run is over.                                              *)
Careful == {"frees_early", "reuses_freed"} \cap program = {}

(* Without restarts a thread that uses its context is the one its worker   *)
(* remembers, and the program does not think it over.                      *)
AliveInv ==
  "restarts" \notin program =>
    \A t \in Tids :
      thread[t].at \in {"starting", "running"} =>
        /\ tid[thread[t].worker] = t
        /\ ~settled[thread[t].worker]
        /\ Careful => context[thread[t].worker] = "created"

(* If each run is joined once as well, threads and unsettled workers       *)
(* correspond one to one.                                                  *)
MatchInv ==
  {"joins_twice", "restarts"} \cap program = {} =>
    /\ \A t \in Tids :
         thread[t] # NoThread =>
           /\ tid[thread[t].worker] = t
           /\ ~settled[thread[t].worker]
           /\ thread[t].run = lastRun[thread[t].worker]
    /\ \A w \in Handles :
         ~settled[w] => thread[tid[w]] # NoThread /\ thread[tid[w]].worker = w

(* Only a stopped thread ends without its result.                          *)
ResultInv ==
  {"joins_twice", "restarts", "stops"} \cap program = {} =>
    /\ \A t \in Tids : ~thread[t].cancelled
    /\ \A t \in Tids : thread[t].at = "ended" => rc[thread[t].worker] = thread[t].run
    /\ \A w \in Handles : settled[w] => rc[w] = lastRun[w]

IInv ==
  /\ TypeOK
  /\ NumbersInv
  /\ AliveInv
  /\ MatchInv
  /\ ResultInv
  /\ NoUseAfterFree

-----------------------------------------------------------------------------
(* Types: the threads are the only data with structure. *)

\* What stands under a number is a thread, unless nothing does.
LEMMA ThreadFacts ==
  ASSUME TypeOK, NEW t \in Tids
  PROVE  /\ thread[t] = NoThread <=> thread[t].at = "none"
         /\ thread[t] # NoThread => thread[t] \in Thread /\ thread[t].worker \in Handles
         /\ thread[t] = NoThread =>
              thread[t].worker = Nil /\ ~thread[t].cancelled
         /\ t # 0
<1>1. thread[t] \in Thread \cup {NoThread} /\ t # 0
  BY WorkersAssumption DEF TypeOK, WorkersAssumption
<1>2. NoThread.at = "none" /\ NoThread.worker = Nil /\ ~NoThread.cancelled
  BY DEF NoThread
<1>3. ASSUME thread[t] \in Thread
      PROVE  thread[t].at # "none" /\ thread[t].worker \in Handles
  BY <1>3 DEF Thread
<1> QED
  BY <1>1, <1>2, <1>3

\* The constructor establishes the invariant.
LEMMA InitOK == Init => IInv
<1> SUFFICES ASSUME Init PROVE IInv
  OBVIOUS
<1>0. \A t \in Tids : thread[t] = NoThread
  BY DEF Init
<1>1. TypeOK
  <2>1. /\ 0 \in 0..MaxRuns
        /\ thread \in [Tids -> Thread \cup {NoThread}]
    BY WorkersAssumption DEF Init, WorkersAssumption
  <2>2. /\ \A w \in Handles : ~initialized[w]
        /\ initialized \in [Handles -> BOOLEAN]
        /\ settled \in [Handles -> BOOLEAN]
    BY DEF Init
  <2>3. /\ context \in [Handles -> {"zeroed", "created", "freed"}]
        /\ tid \in [Handles -> Tids \cup {0}]
        /\ rc \in [Handles -> 0..MaxRuns]
        /\ lastRun \in [Handles -> 0..MaxRuns]
        /\ runs \in 0..MaxRuns
    BY <2>1 DEF Init
  <2> QED
    BY <2>1, <2>2, <2>3 DEF Init, TypeOK
<1>2. NumbersInv /\ NoUseAfterFree
  BY DEF Init, NumbersInv, NoUseAfterFree
<1>3. AliveInv /\ MatchInv /\ ResultInv
  BY <1>0 DEF Init, AliveInv, MatchInv, ResultInv, NoThread
<1> QED
  BY <1>1, <1>2, <1>3 DEF IInv

-----------------------------------------------------------------------------
(* The methods. *)

\* create() only makes a context usable.
LEMMA CreateOK ==
  ASSUME IInv, NEW w \in Handles, Create(w)
  PROVE  IInv'
<1>1. TypeOK'
  BY DEF IInv, TypeOK, Create
<1>2. NumbersInv' /\ MatchInv' /\ ResultInv' /\ NoUseAfterFree'
  BY DEF IInv, Create, NumbersInv, MatchInv, ResultInv, NoUseAfterFree
<1>3. AliveInv'
  <2> SUFFICES ASSUME "restarts" \notin program, NEW t \in Tids,
                      thread[t].at \in {"starting", "running"}
               PROVE  /\ tid[thread[t].worker] = t
                      /\ ~settled[thread[t].worker]
                      /\ Careful => context'[thread[t].worker] = "created"
    BY DEF AliveInv, Careful, Create
  <2>1. TypeOK /\ thread[t].worker \in Handles
    BY ThreadFacts DEF IInv
  <2>2. context[thread[t].worker] = "created" => context'[thread[t].worker] = "created"
    BY <2>1 DEF Create, TypeOK
  <2> QED
    BY <2>2 DEF IInv, AliveInv
<1> QED
  BY <1>1, <1>2, <1>3 DEF IInv

\* start() takes a number no thread has, and without restarts its worker
\* has no thread that runs.
LEMMA StartOK ==
  ASSUME IInv, NEW w \in Handles, Start(w)
  PROVE  IInv'
<1>0. PICK t \in Tids :
        /\ thread[t] = NoThread
        /\ thread' = [thread EXCEPT ![t] = [run |-> runs + 1, worker |-> w,
                                            at |-> "starting", cancelled |-> FALSE]]
        /\ tid' = [tid EXCEPT ![w] = t]
  BY DEF Start
<1>t. TypeOK /\ t # 0 /\ (Careful => context[w] = "created")
  BY WorkersAssumption DEF IInv, TypeOK, Start, Careful, WorkersAssumption
<1>n. /\ thread'[t].worker = w /\ thread'[t].at = "starting"
      /\ thread'[t].run = runs + 1 /\ ~thread'[t].cancelled
      /\ thread'[t] # NoThread
      /\ \A u \in Tids : u # t => thread'[u] = thread[u]
  BY <1>0, <1>t DEF TypeOK, NoThread
<1>s. /\ settled' = [settled EXCEPT ![w] = FALSE]
      /\ lastRun' = [lastRun EXCEPT ![w] = runs + 1]
      /\ "restarts" \notin program => settled[w]
      /\ joining = Nil /\ joining' = Nil
      /\ context' = context /\ rc' = rc /\ program' = program /\ wild' = wild
  BY DEF Start, ctxVars
<1>1. TypeOK'
  <2>1. runs + 1 \in 1..MaxRuns /\ runs' = runs + 1
    BY <1>t, WorkersAssumption DEF TypeOK, Start, WorkersAssumption
  <2>2. thread' \in [Tids -> Thread \cup {NoThread}]
    BY <1>0, <1>t, <2>1 DEF TypeOK, Thread
  <2> QED
    BY <1>0, <1>t, <2>1, <2>2 DEF TypeOK, Start, ctxVars
<1>2. NumbersInv'
  BY <1>0, <1>t, <1>s DEF IInv, TypeOK, NumbersInv
<1>3. AliveInv'
  <2> SUFFICES ASSUME "restarts" \notin program, NEW u \in Tids,
                      thread'[u].at \in {"starting", "running"}
               PROVE  /\ tid'[thread'[u].worker] = u
                      /\ ~settled'[thread'[u].worker]
                      /\ Careful => context'[thread'[u].worker] = "created"
    BY <1>s DEF AliveInv, Careful
  <2>1. CASE u = t
    BY <1>0, <1>t, <1>n, <1>s, <2>1 DEF TypeOK
  <2>2. CASE u # t
    <3>1. thread[u].worker \in Handles /\ thread'[u] = thread[u]
      BY <1>t, <1>n, <2>2, ThreadFacts
    <3>2. thread[u].worker # w
      BY <1>s, <3>1 DEF IInv, AliveInv
    <3> QED
      BY <1>0, <1>t, <1>s, <3>1, <3>2 DEF IInv, AliveInv, TypeOK
  <2> QED
    BY <2>1, <2>2
<1>4. MatchInv'
  <2> SUFFICES ASSUME {"joins_twice", "restarts"} \cap program = {}
               PROVE  MatchInv'
    BY <1>s DEF MatchInv
  <2>0. "restarts" \notin program
    OBVIOUS
  <2>1. ASSUME NEW u \in Tids, thread'[u] # NoThread
        PROVE  /\ tid'[thread'[u].worker] = u
               /\ ~settled'[thread'[u].worker]
               /\ thread'[u].run = lastRun'[thread'[u].worker]
    <3>1. CASE u = t
      BY <1>0, <1>t, <1>n, <1>s, <3>1 DEF TypeOK
    <3>2. CASE u # t
      <4>1. thread[u].worker \in Handles /\ thread'[u] = thread[u]
        BY <1>t, <1>n, <2>1, <3>2, ThreadFacts
      <4>2. thread[u].worker # w
        BY <1>s, <2>0, <2>1, <4>1 DEF IInv, MatchInv
      <4> QED
        BY <1>0, <1>t, <1>s, <2>1, <4>1, <4>2 DEF IInv, MatchInv, TypeOK
    <3> QED
      BY <3>1, <3>2
  <2>2. ASSUME NEW v \in Handles, ~settled'[v]
        PROVE  thread'[tid'[v]] # NoThread /\ thread'[tid'[v]].worker = v
    <3>1. CASE v = w
      BY <1>0, <1>t, <1>n, <3>1 DEF TypeOK
    <3>2. CASE v # w
      <4>1. ~settled[v] /\ tid'[v] = tid[v] /\ tid[v] \in Tids
        BY <1>0, <1>t, <1>s, <2>2, <3>2 DEF IInv, NumbersInv, TypeOK
      <4>2. thread[tid[v]] # NoThread /\ thread[tid[v]].worker = v
        BY <4>1 DEF IInv, MatchInv
      <4> QED
        BY <1>0, <1>n, <4>1, <4>2
    <3> QED
      BY <3>1, <3>2
  <2> QED
    BY <2>1, <2>2 DEF MatchInv
<1>5. ResultInv'
  BY <1>t, <1>n, <1>s DEF IInv, ResultInv, TypeOK
<1>6. NoUseAfterFree'
  BY <1>s DEF IInv, NoUseAfterFree
<1> QED
  BY <1>1, <1>2, <1>3, <1>4, <1>5, <1>6 DEF IInv

\* waitfor(), up to pthread_join
LEMMA WaitForOK ==
  ASSUME IInv, NEW w \in Handles, WaitFor(w)
  PROVE  IInv'
<1>1. TypeOK'
  BY DEF IInv, TypeOK, WaitFor, ctxVars
<1>2. NumbersInv'
  BY DEF IInv, NumbersInv, WaitFor, MayJoin, ctxVars
<1>3. AliveInv' /\ MatchInv' /\ ResultInv' /\ NoUseAfterFree'
  BY DEF IInv, WaitFor, ctxVars, AliveInv, Careful, MatchInv, ResultInv,
         NoUseAfterFree
<1> QED
  BY <1>1, <1>2, <1>3 DEF IInv

\* pthread_join: whoever's thread it took, the worker it was asked for has
\* none that runs, and if runs are joined once it was the worker's own.
LEMMA JoinsOK ==
  ASSUME IInv, NEW w \in Handles, Joins(w), tid[w] # 0,
         "joins_twice" \notin program => ~settled[w], joining' = Nil
  PROVE  IInv'
<1>0. TypeOK /\ tid[w] \in Tids
  BY DEF IInv, TypeOK
<1>j. /\ thread[tid[w]].at \in {"ended", "none"}
      /\ thread' = [thread EXCEPT ![tid[w]] = NoThread]
      /\ settled' = [settled EXCEPT ![w] = TRUE]
      /\ context' = context /\ rc' = rc /\ initialized' = initialized
      /\ tid' = tid /\ runs' = runs
      /\ program' = program /\ lastRun' = lastRun /\ wild' = wild
  BY DEF Joins, ctxVars
<1>n. /\ thread'[tid[w]] = NoThread
      /\ \A u \in Tids : u # tid[w] => thread'[u] = thread[u]
  BY <1>0, <1>j DEF TypeOK
<1>1. TypeOK'
  BY <1>0, <1>j DEF TypeOK
<1>2. NumbersInv'
  BY <1>0, <1>j DEF IInv, NumbersInv, TypeOK
<1>3. AliveInv'
  <2> SUFFICES ASSUME "restarts" \notin program, NEW u \in Tids,
                      thread'[u].at \in {"starting", "running"}
               PROVE  /\ tid[thread'[u].worker] = u
                      /\ ~settled'[thread'[u].worker]
                      /\ Careful => context[thread'[u].worker] = "created"
    BY <1>j DEF AliveInv, Careful
  <2>1. u # tid[w] /\ thread'[u] = thread[u]
    BY <1>n DEF NoThread
  <2>2. thread[u].worker \in Handles
    BY <1>0, <2>1, ThreadFacts
  <2>3. thread[u].worker # w
    BY <2>1 DEF IInv, AliveInv
  <2> QED
    BY <1>0, <1>j, <2>1, <2>2, <2>3 DEF IInv, AliveInv, TypeOK
<1>4. MatchInv'
  <2> SUFFICES ASSUME {"joins_twice", "restarts"} \cap program = {}
               PROVE  MatchInv'
    BY <1>j DEF MatchInv
  <2>0. ~settled[w] /\ thread[tid[w]].worker = w
    BY DEF IInv, MatchInv
  <2>1. ASSUME NEW u \in Tids, thread'[u] # NoThread
        PROVE  /\ tid[thread'[u].worker] = u
               /\ ~settled'[thread'[u].worker]
               /\ thread'[u].run = lastRun[thread'[u].worker]
    <3>1. u # tid[w] /\ thread'[u] = thread[u]
      BY <1>n, <2>1
    <3>2. thread[u].worker \in Handles
      BY <1>0, <2>1, <3>1, ThreadFacts
    <3>3. thread[u].worker # w
      BY <2>1, <3>1 DEF IInv, MatchInv
    <3> QED
      BY <1>0, <1>j, <2>1, <3>1, <3>2, <3>3 DEF IInv, MatchInv, TypeOK
  <2>2. ASSUME NEW v \in Handles, ~settled'[v]
        PROVE  thread'[tid[v]] # NoThread /\ thread'[tid[v]].worker = v
    <3>1. v # w /\ ~settled[v] /\ tid[v] \in Tids
      BY <1>0, <1>j, <2>2 DEF IInv, NumbersInv, TypeOK
    <3>2. thread[tid[v]] # NoThread /\ thread[tid[v]].worker = v
      BY <3>1 DEF IInv, MatchInv
    <3>3. tid[v] # tid[w]
      BY <2>0, <3>1, <3>2
    <3> QED
      BY <1>n, <3>1, <3>2, <3>3
  <2> QED
    BY <1>j, <2>1, <2>2 DEF MatchInv
<1>5. ResultInv'
  <2> SUFFICES ASSUME {"joins_twice", "restarts", "stops"} \cap program = {}
               PROVE  ResultInv'
    BY <1>j DEF ResultInv
  <2>1. \A t \in Tids : ~thread'[t].cancelled
    BY <1>n DEF IInv, ResultInv, NoThread
  <2>2. \A t \in Tids : thread'[t].at = "ended" => rc[thread'[t].worker] = thread'[t].run
    BY <1>n DEF IInv, ResultInv, NoThread
  <2>3. rc[w] = lastRun[w]
    <3>1. /\ thread[tid[w]] # NoThread /\ thread[tid[w]].worker = w
          /\ thread[tid[w]].run = lastRun[w]
      BY <1>0 DEF IInv, MatchInv
    <3>2. thread[tid[w]].at = "ended"
      BY <1>0, <1>j, <3>1, ThreadFacts
    <3> QED
      BY <1>0, <3>1, <3>2 DEF IInv, ResultInv
  <2>4. \A v \in Handles : settled'[v] => rc[v] = lastRun[v]
    BY <1>0, <1>j, <2>3 DEF IInv, ResultInv, TypeOK
  <2> QED
    BY <1>j, <2>1, <2>2, <2>4 DEF ResultInv
<1>6. NoUseAfterFree'
  BY <1>j DEF IInv, NoUseAfterFree
<1> QED
  BY <1>1, <1>2, <1>3, <1>4, <1>5, <1>6 DEF IInv

\* free(): without frees_early no thread uses the context.
LEMMA FreeOK ==
  ASSUME IInv, NEW w \in Handles, Free(w)
  PROVE  IInv'
<1>1. TypeOK'
  BY DEF IInv, TypeOK, Free
<1>2. NumbersInv' /\ MatchInv' /\ ResultInv' /\ NoUseAfterFree'
  BY DEF IInv, Free, NumbersInv, MatchInv, ResultInv, NoUseAfterFree
<1>3. AliveInv'
  <2> SUFFICES ASSUME "restarts" \notin program, NEW t \in Tids,
                      thread[t].at \in {"starting", "running"}
               PROVE  /\ tid[thread[t].worker] = t
                      /\ ~settled[thread[t].worker]
                      /\ Careful => context'[thread[t].worker] = "created"
    BY DEF AliveInv, Careful, Free
  <2>1. /\ TypeOK /\ thread[t].worker \in Handles
        /\ tid[thread[t].worker] = t /\ ~settled[thread[t].worker]
    BY ThreadFacts DEF IInv, AliveInv
  <2>2. Careful => thread[t].worker # w
    BY <2>1 DEF Careful, Free
  <2> QED
    BY <2>1, <2>2 DEF IInv, AliveInv, TypeOK, Free
<1> QED
  BY <1>1, <1>2, <1>3 DEF IInv

-----------------------------------------------------------------------------
(* Steps that change one thread in place. *)

\* Whatever else such a step does, the agreement stands if the thread stays
\* its worker's and does not come to life.
LEMMA InPlace ==
  ASSUME IInv, NEW t \in Tids, thread[t] # NoThread,
         NEW th \in Thread, thread' = [thread EXCEPT ![t] = th],
         th.worker = thread[t].worker, th.run = thread[t].run,
         thread[t].at = "ended" => th.at = "ended",
         UNCHANGED <<context, initialized, tid, joining, runs, program,
                     lastRun, settled>>,
         rc' \in [Handles -> 0..MaxRuns], wild' \in BOOLEAN
  PROVE  TypeOK' /\ NumbersInv' /\ AliveInv' /\ MatchInv'
<1>0. TypeOK
  BY DEF IInv
<1>n. /\ thread'[t] = th
      /\ th # NoThread /\ th.at \in {"starting", "running", "ended"}
      /\ thread[t].at \in {"starting", "running", "ended"}
      /\ \A u \in Tids : u # t => thread'[u] = thread[u]
  BY <1>0, ThreadFacts, WorkersAssumption
     DEF TypeOK, Thread, NoThread, WorkersAssumption
<1>1. TypeOK'
  BY <1>0 DEF TypeOK
<1>2. NumbersInv'
  BY DEF IInv, NumbersInv
<1>3. AliveInv'
  BY <1>n DEF IInv, AliveInv, Careful
<1>4. MatchInv'
  <2> SUFFICES ASSUME {"joins_twice", "restarts"} \cap program = {}
               PROVE  MatchInv'
    BY DEF MatchInv
  <2>1. \A u \in Tids :
          /\ thread'[u] # NoThread => thread[u] # NoThread
          /\ thread'[u].worker = thread[u].worker
          /\ thread'[u].run = thread[u].run
    BY <1>n
  <2>2. \A v \in Handles : ~settled[v] => tid[v] \in Tids
    BY <1>0 DEF IInv, NumbersInv, TypeOK
  <2>3. \A u \in Tids : thread[u] # NoThread => thread'[u] # NoThread
    BY <1>n
  <2> QED
    BY <2>1, <2>2, <2>3 DEF IInv, MatchInv
<1> QED
  BY <1>1, <1>2, <1>3, <1>4

\* stop()
LEMMA StopOK ==
  ASSUME IInv, NEW w \in Handles, Stop(w)
  PROVE  IInv'
<1>0. TypeOK /\ tid[w] \in Tids /\ thread[tid[w]] # NoThread
  BY DEF IInv, TypeOK, NumbersInv, Stop
<1> DEFINE th == [thread[tid[w]] EXCEPT !.cancelled = TRUE]
<1>1. thread[tid[w]] \in Thread
  BY <1>0, ThreadFacts
<1>2. /\ th \in Thread /\ th.worker = thread[tid[w]].worker
      /\ th.run = thread[tid[w]].run /\ th.at = thread[tid[w]].at
  BY <1>1 DEF Thread
<1>3. thread' = [thread EXCEPT ![tid[w]] = th]
  BY DEF Stop
<1>4. TypeOK' /\ NumbersInv' /\ AliveInv' /\ MatchInv'
  <2>1. /\ UNCHANGED <<context, initialized, tid, joining, runs, program,
                       lastRun, settled>>
        /\ rc' \in [Handles -> 0..MaxRuns] /\ wild' \in BOOLEAN
    BY <1>0 DEF Stop, ctxVars, TypeOK
  <2> HIDE DEF th
  <2> QED
    BY <1>0, <1>2, <1>3, <2>1, InPlace
<1>5. ResultInv' /\ NoUseAfterFree'
  BY DEF IInv, Stop, ctxVars, ResultInv, NoUseAfterFree
<1> QED
  BY <1>4, <1>5 DEF IInv

\* What Begin and End share: a context is not touched after it was freed,
\* unless the program frees early or restarts.
LEMMA ThreadStepOK ==
  ASSUME IInv, NEW t \in Tids, NEW at \in {"running", "ended"},
         thread[t].at \in {"starting", "running"}, ThreadStep(t, at),
         rc' \in [Handles -> 0..MaxRuns]
  PROVE  /\ TypeOK' /\ NumbersInv' /\ AliveInv' /\ MatchInv' /\ NoUseAfterFree'
         /\ thread[t] \in Thread /\ thread[t].worker \in Handles
         /\ thread'[t].worker = thread[t].worker
         /\ thread'[t].run = thread[t].run /\ thread'[t].at = at
         /\ thread'[t].cancelled = thread[t].cancelled
         /\ \A u \in Tids : u # t => thread'[u] = thread[u]
<1>0. TypeOK /\ thread[t] # NoThread /\ thread[t] \in Thread /\ thread[t].worker \in Handles
  BY ThreadFacts DEF IInv
<1> DEFINE th == [thread[t] EXCEPT !.at = at]
<1>1. /\ th \in Thread /\ th.worker = thread[t].worker
      /\ th.run = thread[t].run /\ th.at = at
      /\ th.cancelled = thread[t].cancelled
  BY <1>0 DEF Thread
<1>2. thread' = [thread EXCEPT ![t] = th]
  BY DEF ThreadStep
<1>3. /\ UNCHANGED <<context, initialized, tid, joining, runs, program,
                     lastRun, settled>>
      /\ wild' = (wild \/ context[thread[t].worker] = "freed")
  BY DEF ThreadStep
<1>w. wild' \in BOOLEAN
  BY <1>3 DEF TypeOK
<1>4. NoUseAfterFree'
  <2> SUFFICES ASSUME {"frees_early", "restarts", "reuses_freed"} \cap program = {}
               PROVE  ~wild'
    BY <1>3 DEF NoUseAfterFree
  <2>1. ~wild
    BY DEF IInv, NoUseAfterFree
  <2>2. context[thread[t].worker] = "created"
    BY DEF IInv, AliveInv, Careful
  <2> QED
    BY <1>3, <2>1, <2>2
<1>n. thread'[t] = th /\ \A u \in Tids : u # t => thread'[u] = thread[u]
  BY <1>0, <1>2 DEF TypeOK
<1>5. TypeOK' /\ NumbersInv' /\ AliveInv' /\ MatchInv'
  <2> HIDE DEF th
  <2> QED
    BY <1>0, <1>1, <1>2, <1>3, <1>w, InPlace
<1> QED
  BY <1>0, <1>1, <1>4, <1>5, <1>n

\* The thread begins.
LEMMA BeginOK ==
  ASSUME IInv, NEW t \in Tids, Begin(t)
  PROVE  IInv'
<1>1. rc' = rc /\ rc' \in [Handles -> 0..MaxRuns]
  BY DEF IInv, TypeOK, Begin
<1>2. /\ TypeOK' /\ NumbersInv' /\ AliveInv' /\ MatchInv' /\ NoUseAfterFree'
      /\ thread'[t].at = "running"
      /\ thread'[t].cancelled = thread[t].cancelled
      /\ \A u \in Tids : u # t => thread'[u] = thread[u]
  BY <1>1, ThreadStepOK DEF Begin
<1>3. ResultInv'
  BY <1>1, <1>2 DEF IInv, ResultInv, Begin, ThreadStep
<1> QED
  BY <1>2, <1>3 DEF IInv

\* The thread ends, with its result written for the run it is.
LEMMA EndOK ==
  ASSUME IInv, NEW t \in Tids, End(t)
  PROVE  IInv'
<1>0. TypeOK /\ thread[t] \in Thread /\ thread[t].worker \in Handles
  BY ThreadFacts DEF IInv, End
<1>1. /\ rc' = [rc EXCEPT ![thread[t].worker] = thread[t].run]
      /\ rc' \in [Handles -> 0..MaxRuns]
  BY <1>0, WorkersAssumption DEF TypeOK, End, Thread, WorkersAssumption
<1>2. /\ TypeOK' /\ NumbersInv' /\ AliveInv' /\ MatchInv' /\ NoUseAfterFree'
      /\ thread'[t].worker = thread[t].worker
      /\ thread'[t].run = thread[t].run /\ thread'[t].at = "ended"
      /\ thread'[t].cancelled = thread[t].cancelled
      /\ \A u \in Tids : u # t => thread'[u] = thread[u]
  BY <1>1, ThreadStepOK DEF End
<1>3. ResultInv'
  <2> SUFFICES ASSUME {"joins_twice", "restarts", "stops"} \cap program = {}
               PROVE  ResultInv'
    BY DEF ResultInv, End, ThreadStep
  <2>0. /\ ~settled[thread[t].worker] /\ settled' = settled /\ lastRun' = lastRun
        /\ thread[t] # NoThread
    BY <1>0, ThreadFacts DEF IInv, AliveInv, End, ThreadStep
  <2>1. \A u \in Tids : ~thread'[u].cancelled
    BY <1>2 DEF IInv, ResultInv
  <2>2. ASSUME NEW u \in Tids, thread'[u].at = "ended"
        PROVE  rc'[thread'[u].worker] = thread'[u].run
    <3>1. CASE u = t
      BY <1>0, <1>1, <1>2, <3>1 DEF TypeOK
    <3>2. CASE u # t
      <4>1. thread'[u] = thread[u] /\ thread[u].worker \in Handles /\ thread[u] # NoThread
        BY <1>0, <1>2, <2>2, <3>2, ThreadFacts
      <4>2. thread[u].worker # thread[t].worker
        BY <2>0, <3>2, <4>1 DEF IInv, MatchInv
      <4> QED
        BY <1>0, <1>1, <2>2, <4>1, <4>2 DEF IInv, ResultInv, TypeOK
    <3> QED
      BY <3>1, <3>2
  <2>3. \A v \in Handles : settled'[v] => rc'[v] = lastRun'[v]
    BY <1>0, <1>1, <2>0 DEF IInv, ResultInv, TypeOK
  <2> QED
    BY <2>1, <2>2, <2>3 DEF ResultInv
<1> QED
  BY <1>2, <1>3 DEF IInv

\* A cancelled thread ends.
LEMMA CancelledOK ==
  ASSUME IInv, NEW t \in Tids, Cancelled(t)
  PROVE  IInv'
<1>0. TypeOK /\ thread[t] # NoThread /\ thread[t] \in Thread
  BY ThreadFacts DEF IInv, Cancelled
<1> DEFINE th == [thread[t] EXCEPT !.at = "ended"]
<1>1. /\ th \in Thread /\ th.worker = thread[t].worker
      /\ th.run = thread[t].run /\ th.at = "ended"
  BY <1>0 DEF Thread
<1>2. thread' = [thread EXCEPT ![t] = th]
  BY DEF Cancelled
<1>3. /\ UNCHANGED <<context, initialized, tid, joining, runs, program,
                     lastRun, settled>>
      /\ rc' \in [Handles -> 0..MaxRuns] /\ wild' \in BOOLEAN
  BY <1>0 DEF Cancelled, ctxVars, TypeOK
<1>4. TypeOK' /\ NumbersInv' /\ AliveInv' /\ MatchInv'
  <2> HIDE DEF th
  <2> QED
    BY <1>0, <1>1, <1>2, <1>3, InPlace
<1>5. ResultInv'
  BY DEF IInv, ResultInv, Cancelled, ctxVars
<1>6. NoUseAfterFree'
  BY DEF IInv, NoUseAfterFree, Cancelled, ctxVars
<1> QED
  BY <1>4, <1>5, <1>6 DEF IInv

-----------------------------------------------------------------------------

\* Every step keeps the invariant.
LEMMA StepOK == IInv /\ [Next]_vars => IInv'
<1> SUFFICES ASSUME IInv, [Next]_vars PROVE IInv'
  OBVIOUS
<1>1. ASSUME NEW w \in Handles, Create(w) PROVE IInv'
  BY <1>1, CreateOK
<1>2. ASSUME NEW w \in Handles, Start(w) PROVE IInv'
  BY <1>2, StartOK
<1>3. ASSUME NEW w \in Handles, WaitFor(w) PROVE IInv'
  BY <1>3, WaitForOK
<1>4. ASSUME NEW w \in Handles, Poll(w) PROVE IInv'
  BY <1>4, JoinsOK DEF Poll, MayJoin
<1>5. ASSUME NEW w \in Handles, Free(w) PROVE IInv'
  BY <1>5, FreeOK
<1>6. ASSUME NEW w \in Handles, Stop(w) PROVE IInv'
  BY <1>6, StopOK
<1>7. ASSUME JoinReturns PROVE IInv'
  BY <1>7, JoinsOK DEF JoinReturns, IInv, TypeOK, NumbersInv
<1>8. ASSUME NEW t \in Tids, Begin(t) PROVE IInv'
  BY <1>8, BeginOK
<1>9. ASSUME NEW t \in Tids, End(t) PROVE IInv'
  BY <1>9, EndOK
<1>10. ASSUME NEW t \in Tids, Cancelled(t) PROVE IInv'
  BY <1>10, CancelledOK
<1>11. ASSUME UNCHANGED vars PROVE IInv'
  BY <1>11 DEF vars, ctxVars, IInv, TypeOK, NumbersInv, AliveInv, Careful,
               MatchInv, ResultInv, NoUseAfterFree
<1> QED
  BY <1>1, <1>2, <1>3, <1>4, <1>5, <1>6, <1>7, <1>8, <1>9, <1>10, <1>11
     DEF Next, Threads, Idle

\* The invariant holds throughout.
THEOREM Invariance == Spec => []IInv
<1> QED
  BY InitOK, StepOK, PTL DEF Spec

\* The variables have their types.
THEOREM TypesHold == Spec => []TypeOK
<1>1. IInv => TypeOK
  BY DEF IInv
<1> QED
  BY <1>1, Invariance, PTL

\* A program that frees, and restarts, only workers whose run it knows to
\* be over, and neither creates nor frees again what it freed, never touches
\* a freed context, from a thread or itself.
THEOREM ContextsOutliveThreads == Spec => []NoUseAfterFree
<1>1. IInv => NoUseAfterFree
  BY DEF IInv
<1> QED
  BY <1>1, Invariance, PTL

\* waitfor() and poll() tell a program that asks once per run the truth.
THEOREM JoinsTellTheTruth == Spec => []TellsTheTruth
<1>1. IInv => TellsTheTruth
  <2> SUFFICES ASSUME IInv, {"joins_twice", "restarts"} \cap program = {},
                      NEW w \in Handles, settled[w]
               PROVE  /\ \A t \in Tids : thread[t].worker # w
                      /\ "stops" \notin program /\ context[w] # "freed" =>
                           rc[w] = lastRun[w]
    BY DEF TellsTheTruth
  <2>1. ASSUME NEW t \in Tids PROVE thread[t].worker # w
    <3>1. CASE thread[t] = NoThread
      BY <3>1, WorkersAssumption DEF NoThread, WorkersAssumption
    <3>2. CASE thread[t] # NoThread
      BY <3>2 DEF IInv, MatchInv
    <3> QED
      BY <3>1, <3>2
  <2>2. "stops" \notin program => rc[w] = lastRun[w]
    BY DEF IInv, ResultInv
  <2> QED
    BY <2>1, <2>2
<1> QED
  BY <1>1, Invariance, PTL

\* The threads of such a program are exactly those it has still to ask for.
THEOREM NoThreadIsLost == Spec => []ThreadsAccounted
<1>1. IInv => ThreadsAccounted
  <2> SUFFICES ASSUME IInv, {"joins_twice", "restarts"} \cap program = {}
               PROVE  {t \in Tids : thread[t] # NoThread}
                        = {tid[w] : w \in {v \in Handles : ~settled[v]}}
    BY DEF ThreadsAccounted
  <2>1. ASSUME NEW t \in Tids, thread[t] # NoThread
        PROVE  t \in {tid[w] : w \in {v \in Handles : ~settled[v]}}
    <3>1. thread[t].worker \in Handles
      BY <2>1, ThreadFacts DEF IInv
    <3> QED
      BY <2>1, <3>1 DEF IInv, MatchInv
  <2>2. ASSUME NEW w \in Handles, ~settled[w]
        PROVE  tid[w] \in {t \in Tids : thread[t] # NoThread}
    BY <2>2 DEF IInv, MatchInv, NumbersInv, TypeOK
  <2> QED
    BY <2>1, <2>2
<1> QED
  BY <1>1, Invariance, PTL
=============================================================================
