---------------------------- MODULE ModuleLoader ----------------------------
(***************************************************************************)
(* ES module loading: on_module_load, load_and_evaluate and                *)
(* on_module_instantiate of main.js, and EvaluateModule of lo.cc with the  *)
(* part of V8's module evaluation it drives.                               *)
(*                                                                         *)
(* Every import() of a specifier joins the load of it in moduleLoads or    *)
(* starts one.  A load is a coroutine: between two of its awaits nothing   *)
(* else runs, at an await anything may.  evaluateModule runs whole graphs  *)
(* of module bodies without returning to the microtask queue; here that    *)
(* takes several steps, during which "evaluating" keeps all else out.      *)
(*                                                                         *)
(* Sources come from core.loader, an asynchronous hook, when it serves a   *)
(* specifier (Hooked), else from a builtin or a file (Local).  The         *)
(* synchronous path of on_module_instantiate never calls that hook.        *)
(* Modules are sound and complete source: a compile error acts like a      *)
(* failed fetch.  Static imports are taken to be acyclic.                  *)
(***************************************************************************)
EXTENDS Integers, Sequences, FiniteSets

CONSTANTS
  Modules,      \* specifiers
  Nil,
  Requests,     \* the static imports of each, in order
  Dynamic,      \* those each body imports with import(), not awaiting them
  Hooked, Local,
  MayAwait, MayThrow,   \* modules that may have a top-level await, may throw
  MaxImports    \* bound: import() calls of the program

ASSUME LoaderAssumption ==
  /\ IsFiniteSet(Modules) /\ Nil \notin Modules
  /\ Requests \in [Modules -> Seq(Modules)]
  /\ Dynamic \in [Modules -> SUBSET Modules]
  /\ Hooked \cup Local \cup MayAwait \cup MayThrow \subseteq Modules
  /\ MaxImports \in Nat

VARIABLES
  status,       \* module records in moduleCache, as V8 sees them: Statuses
  evaluated,    \* those with mod.evaluated set
  load,         \* moduleLoads, and where each load is: Stops
  evaluating,   \* the module evaluateModule was called with, or Nil
  promised,     \* those V8 has the promise of such a call for
  imports,      \* the import() calls of the program
  pc,           \* "up", "died" (unhandled rejection), "aborted"
  compiles, runs,       \* history: loadModule calls, bodies started
  owed,         \* history: the fetch whose failure ended the last load
  tla, throwing, tolerant       \* the program, fixed at the start

cacheVars == <<status, evaluated, compiles>>
program == <<tla, throwing, tolerant>>
vars == <<cacheVars, load, evaluating, promised, imports, pc, runs, owed, program>>

\* none: not in moduleCache; new: compiled; async: waits for an asynchronous
\* dependency; tla: in its own top-level await; done; errored
Statuses == {"none", "new", "async", "tla", "done", "errored"}

\* Where a load is suspended: in load_source of "want", the next request
\* being number "next"; in "await null"; in evaluateModule; in the await of
\* its promise; or settled: fulfilled, rejected because a source could not
\* be had, or because the module's code threw.
Stops == {"idle", "fetch", "null", "evaluate", "running", "ok", "failed", "threw"}

Idle == [at |-> "idle", want |-> Nil, next |-> 0]
At(stop) == [Idle EXCEPT !.at = stop]

Cached == {m \in Modules : status[m] # "none"}
RequestSet(m) == {Requests[m][i] : i \in 1..Len(Requests[m])}

Closed(S) == \A x \in S : RequestSet(x) \subseteq S

\* A module and what it statically imports, transitively: what is in every
\* set of modules that has it and the imports of its members.
Reach ==
  [m \in Modules |->
     {x \in Modules : \A S \in SUBSET Modules : m \in S /\ Closed(S) => x \in S}]

Running == pc = "up" /\ evaluating = Nil

Init ==
  /\ status = [m \in Modules |-> "none"]
  /\ evaluated = {}
  /\ load = [m \in Modules |-> Idle]
  /\ evaluating = Nil
  /\ promised = {}
  /\ imports = <<>>
  /\ pc = "up"
  /\ compiles = [m \in Modules |-> 0]
  /\ runs = [m \in Modules |-> 0]
  /\ owed = [m \in Modules |-> Nil]
  /\ tla \in SUBSET MayAwait
  /\ throwing \in SUBSET MayThrow
  /\ tolerant \in BOOLEAN   \* globalThis.onUnhandledRejection was replaced

-----------------------------------------------------------------------------
(* Sources and the module cache. *)

\* loadModule, then moduleCache.set: a new record, whatever was there
Compile(S) ==
  /\ status' = [m \in Modules |-> IF m \in S THEN "new" ELSE status[m]]
  /\ compiles' = [m \in Modules |-> IF m \in S THEN compiles[m] + 1 ELSE compiles[m]]
  /\ evaluated' = evaluated \ S

\* Without a hook load_source reads the file before its first await.  When
\* that fails its promise rejects with no handler attached, and
\* on_unhandled_rejection ends the process.  With one it awaits the hook
\* first, whether that serves the specifier or not, and a failure is handled.
Fatal(x) == Hooked = {} /\ x \notin Local /\ ~tolerant

\* Slip: load_and_evaluate without its "await null"
StartedAtOnce(S) ==
  [m \in Modules |->
     IF m \notin S \/ load[m].at # "idle" THEN load[m]
     ELSE IF m \in Cached THEN At("evaluate")
     ELSE [at |-> "fetch", want |-> m, next |-> 1]]

\* on_module_load for each of S: join the load or start one
Started(S) ==
  [m \in Modules |->
     IF m \notin S \/ load[m].at # "idle" THEN load[m]
     ELSE IF m \in Cached THEN At("null")
     ELSE [at |-> "fetch", want |-> m, next |-> 1]]

StartIsFatal(S) ==
  \E m \in S : load[m].at = "idle" /\ m \notin Cached /\ Fatal(m)

-----------------------------------------------------------------------------
(* import() and the coroutine of a load. *)

Import(m) ==
  /\ Running
  /\ Len(imports) < MaxImports
  /\ imports' = Append(imports,
       [of |-> m,
        state |-> IF load[m].at \in {"ok", "failed", "threw"} THEN load[m].at
                  ELSE "waiting"])
  /\ load' = Started({m})
  /\ pc' = IF StartIsFatal({m}) THEN "died" ELSE pc
  /\ UNCHANGED <<cacheVars, evaluating, runs, owed, promised, program>>

\* The load settles, and with it every import that waits for it.
Settle(m, how) ==
  /\ load' = [load EXCEPT ![m] = At(how)]
  /\ imports' = [i \in 1..Len(imports) |->
       IF imports[i].of = m /\ imports[i].state = "waiting"
         THEN [imports[i] EXCEPT !.state = how] ELSE imports[i]]

\* Slip: a source that arrived is compiled without looking again
FetchedUnchecked(m) == {load[m].want}

\* What is compiled when a source arrives: nothing if a static import has
\* loaded the module meanwhile.
Fetched(m) == {load[m].want} \ Cached

\* The source load m waits for arrives.  If it is m's own and m is new, the
\* requests of m that are not cached are fetched one by one; when none is
\* left, or m was there already, m is evaluated.
FetchSucceeds(m) ==
  LET x == load[m].want
      cached == Cached \cup {x}
      wanted == {i \in load[m].next..Len(Requests[m]) : Requests[m][i] \notin cached}
  IN  /\ Running
      /\ load[m].at = "fetch"
      /\ x \in Hooked \cup Local
      /\ Compile(Fetched(m))
      /\ owed' = [owed EXCEPT ![m] = IF @ = x THEN Nil ELSE @]
      /\ \/ /\ ~(x = m /\ m \in Cached)
            /\ \E i \in wanted :
                 /\ \A k \in wanted : i <= k
                 /\ load' = [load EXCEPT ![m] = [at |-> "fetch",
                                                 want |-> Requests[m][i],
                                                 next |-> i + 1]]
                 /\ pc' = IF Fatal(Requests[m][i]) THEN "died" ELSE pc
            /\ UNCHANGED evaluating
         \/ /\ wanted = {} \/ (x = m /\ m \in Cached)
            /\ load' = [load EXCEPT ![m] = At("evaluate")]
            /\ evaluating' = m
            /\ UNCHANGED pc
      /\ UNCHANGED <<imports, runs, promised, program>>

\* Slip: the failure is caught and the promise forgotten
FetchFailsSilently(m) ==
  LET x == load[m].want
  IN  /\ Running
      /\ load[m].at = "fetch"
      /\ x \in Hooked \/ x \notin Local
      /\ load' = [load EXCEPT ![m] = Idle]
      /\ owed' = [owed EXCEPT ![m] = x]
      /\ UNCHANGED <<cacheVars, imports, evaluating, pc, runs, promised,
                     program>>

\* core.loader rejects, or there is no such file
FetchFails(m) ==
  LET x == load[m].want
  IN  /\ Running
      /\ load[m].at = "fetch"
      /\ x \in Hooked \/ x \notin Local
      /\ Settle(m, "failed")
      /\ owed' = [owed EXCEPT ![m] = x]
      /\ UNCHANGED <<cacheVars, evaluating, pc, runs, promised, program>>

\* await null, of a load that found its module cached.  Only a load sets
\* mod.evaluated and such a load is kept, so that the first branch waits for
\* a caller that does not exist.
ResumeCached(m) ==
  /\ Running
  /\ load[m].at = "null"
  /\ \/ /\ m \in evaluated
        /\ Settle(m, "ok")
        /\ UNCHANGED evaluating
     \/ /\ m \notin evaluated
        /\ load' = [load EXCEPT ![m] = At("evaluate")]
        /\ evaluating' = m
        /\ UNCHANGED imports
  /\ UNCHANGED <<cacheVars, pc, runs, owed, promised, program>>

\* The promise of the module's evaluation has settled.
Resume(m) ==
  /\ Running
  /\ load[m].at = "running"
  /\ \/ /\ status[m] = "done"
        /\ evaluated' = evaluated \cup {m}
        /\ Settle(m, "ok")
     \/ /\ status[m] = "errored"
        /\ Settle(m, "threw")
        /\ UNCHANGED evaluated
  /\ UNCHANGED <<status, compiles, evaluating, pc, runs, owed, promised,
                 program>>

\* load.catch(() => moduleLoads.delete(specifier))
ForgetLoad(m) ==
  /\ Running
  /\ load[m].at \in {"failed", "threw"}
  /\ load' = [load EXCEPT ![m] = Idle]
  /\ UNCHANGED <<cacheVars, evaluating, imports, pc, runs, owed, promised,
                 program>>

-----------------------------------------------------------------------------
(* evaluateModule: instantiation, then evaluation. *)

\* What instantiation still has to resolve: imports that are not cached
Unresolved(m) ==
  (UNION {RequestSet(x) : x \in Reach[m] \cap Cached}) \ Cached

\* on_module_instantiate loads synchronously.  When that throws, lo.cc takes
\* the value of an empty result, which aborts the process.
Instantiate(x) ==
  /\ pc = "up" /\ evaluating # Nil
  /\ status[evaluating] = "new"
  /\ x \in Unresolved(evaluating)
  /\ \/ x \in Local /\ Compile({x}) /\ UNCHANGED pc
     \/ x \notin Local /\ pc' = "aborted" /\ UNCHANGED cacheVars
  /\ UNCHANGED <<load, evaluating, imports, runs, owed, promised, program>>

\* The body of n starts: its import() calls start loads, and it ends in
\* "done", in its top-level await or in an exception.
RunBody(n) ==
  /\ runs' = [runs EXCEPT ![n] = @ + 1]
  /\ load' = Started(Dynamic[n])
  /\ status' = [status EXCEPT ![n] = IF n \in tla THEN "tla"
                                     ELSE IF n \in throwing THEN "errored"
                                     ELSE "done"]

Among(n, s) == \E x \in RequestSet(n) : status[x] = s

\* Evaluation goes depth first, so a module comes after its imports; the
\* order of unrelated modules is left open.
EvaluateNext(n) ==
  /\ pc = "up" /\ evaluating # Nil
  /\ status[evaluating] = "new" /\ Unresolved(evaluating) = {}
  /\ \A x \in Reach[evaluating] : status[x] # "errored"
  /\ n \in Reach[evaluating] /\ status[n] = "new"
  /\ ~Among(n, "new")
  /\ \/ /\ Among(n, "async") \/ Among(n, "tla")
        /\ status' = [status EXCEPT ![n] = "async"]
        /\ UNCHANGED <<load, pc, runs>>
     \/ /\ ~Among(n, "async") /\ ~Among(n, "tla")
        /\ RunBody(n)
        /\ pc' = IF StartIsFatal(Dynamic[n]) \/ (status'[n] = "errored" /\ ~tolerant)
                  THEN "died" ELSE pc
  /\ UNCHANGED <<evaluated, compiles, evaluating, imports, owed, promised,
                 program>>

\* Slip: the namespace of an errored module is handed out
EvaluateFailsOnce ==
  /\ pc = "up" /\ evaluating # Nil
  /\ status[evaluating] \in {"new", "errored"}
  /\ Unresolved(evaluating) = {}
  /\ \E x \in Reach[evaluating] : status[x] = "errored"
  /\ status' = [status EXCEPT ![evaluating] = "errored"]
  /\ Settle(evaluating, IF status[evaluating] = "new" THEN "threw" ELSE "ok")
  /\ evaluating' = Nil
  /\ promised' = promised \cup {evaluating}
  /\ UNCHANGED <<evaluated, compiles, pc, runs, owed, program>>

\* An error in it or below it fails the module being evaluated.  If it was
\* evaluated before, V8 returns the promise it has, which is handled.  Else
\* it makes one, of an evaluation that fails now or, for a module that failed
\* as another's dependency, of the error it keeps; that is rejected before
\* anything can have a handler on it.
EvaluateFails ==
  /\ pc = "up" /\ evaluating # Nil
  /\ status[evaluating] \in {"new", "errored"}
  /\ Unresolved(evaluating) = {}
  /\ \E x \in Reach[evaluating] : status[x] = "errored"
  /\ status' = [status EXCEPT ![evaluating] = "errored"]
  /\ pc' = IF ~tolerant /\ evaluating \notin promised THEN "died" ELSE pc
  /\ Settle(evaluating, "threw")
  /\ evaluating' = Nil
  /\ promised' = promised \cup {evaluating}
  /\ UNCHANGED <<evaluated, compiles, runs, owed, program>>

\* Slip: evaluateModule's promise is not awaited
EvaluateReturnsUnawaited ==
  /\ pc = "up" /\ evaluating # Nil
  /\ status[evaluating] \in {"async", "tla", "done"}
  /\ Settle(evaluating, "ok")
  /\ evaluated' = evaluated \cup {evaluating}
  /\ evaluating' = Nil
  /\ promised' = promised \cup {evaluating}
  /\ UNCHANGED <<status, compiles, pc, runs, owed, program>>

\* evaluateModule returns the namespace or a promise of it.
EvaluateReturns ==
  /\ pc = "up" /\ evaluating # Nil
  /\ status[evaluating] \in {"async", "tla", "done"}
  /\ load' = [load EXCEPT ![evaluating] = At("running")]
  /\ evaluating' = Nil
  /\ promised' = promised \cup {evaluating}
  /\ UNCHANGED <<cacheVars, imports, pc, runs, owed, program>>

-----------------------------------------------------------------------------
(* V8 finishes asynchronous modules from the microtask queue. *)

AwaitEnds(n) ==
  /\ Running
  /\ status[n] = "tla"
  /\ status' = [status EXCEPT ![n] = IF n \in throwing THEN "errored" ELSE "done"]
  /\ UNCHANGED <<evaluated, compiles, load, evaluating, imports, pc, runs, owed,
                 promised, program>>

RunsAfterImports(n) ==
  /\ Running
  /\ status[n] = "async"
  /\ \A x \in RequestSet(n) : status[x] = "done"
  /\ RunBody(n)
  /\ pc' = IF StartIsFatal(Dynamic[n]) THEN "died" ELSE pc
  /\ UNCHANGED <<evaluated, compiles, evaluating, imports, owed, promised,
                 program>>

FailsWithImport(n) ==
  /\ Running
  /\ status[n] = "async"
  /\ Among(n, "errored")
  /\ status' = [status EXCEPT ![n] = "errored"]
  /\ UNCHANGED <<evaluated, compiles, load, evaluating, imports, pc, runs, owed,
                 promised, program>>

Terminated == pc # "up" /\ UNCHANGED vars

\* Nothing is left to do, as far as modules go.
Quiet ==
  /\ Running
  /\ \A m \in Modules : load[m].at \in {"idle", "ok"}
  /\ UNCHANGED vars

LoadStep(m) ==
  \/ FetchSucceeds(m)
  \/ FetchFails(m)
  \/ ResumeCached(m)
  \/ Resume(m)
  \/ ForgetLoad(m)

Evaluation ==
  \/ \E x \in Modules : Instantiate(x) \/ EvaluateNext(x)
  \/ EvaluateFails
  \/ EvaluateReturns

AsyncStep(n) == AwaitEnds(n) \/ RunsAfterImports(n) \/ FailsWithImport(n)

Next ==
  \/ \E m \in Modules : Import(m) \/ LoadStep(m) \/ AsyncStep(m)
  \/ Evaluation
  \/ Quiet
  \/ Terminated

Spec == Init /\ [][Next]_vars

\* Microtasks run, fetches end and what a module awaits comes.
Fairness ==
  /\ WF_vars(Evaluation)
  /\ \A m \in Modules : WF_vars(LoadStep(m)) /\ WF_vars(AsyncStep(m))

FairSpec == Spec /\ Fairness

-----------------------------------------------------------------------------
(* Properties. *)

\* Also: a load has a source to wait for exactly when it is in load_source,
\* and mod.evaluated is set only for a module that has run to its end.
TypeOK ==
  /\ status \in [Modules -> Statuses]
  /\ evaluated \subseteq {m \in Modules : status[m] = "done"}
  /\ load \in [Modules -> [at : Stops, want : Modules \cup {Nil}, next : Nat]]
  /\ \A m \in Modules : (load[m].at = "fetch") = (load[m].want # Nil)
  /\ evaluating \in Modules \cup {Nil} /\ promised \subseteq Modules
  /\ imports \in Seq([of : Modules, state : {"waiting", "ok", "failed", "threw"}])
  /\ pc \in {"up", "died", "aborted"}
  /\ compiles \in [Modules -> Nat] /\ runs \in [Modules -> Nat]
  /\ owed \in [Modules -> Modules \cup {Nil}]
  /\ tla \subseteq MayAwait /\ throwing \subseteq MayThrow /\ tolerant \in BOOLEAN

\* main.js:234-235: "the module is compiled and run once".  There is one
\* instance of a module however it is reached: by concurrent imports, by
\* loads that fetch the same request, by the synchronous path while a load
\* of it is in flight, or again after an error.
OneInstance == \A m \in Modules : compiles[m] <= 1 /\ runs[m] <= 1

\* evaluateModule is never entered while it runs, which V8 would not
\* survive: a module that imports itself, or one that imports it, waits.
NoReentrantEvaluation ==
  \A m \in Modules : load[m].at = "evaluate" => evaluating = m

\* When import() resolves, the module and everything it statically imports
\* has run to its end, top-level awaits included.
ImportsSeeFinishedModules ==
  \A i \in 1..Len(imports) : imports[i].state = "ok" =>
    \A x \in Reach[imports[i].of] : status[x] = "done"

\* Importers of one module agree about its code: if it threw for one of
\* them, it resolved for none, before or after.
ImportersAgree ==
  \A i, j \in 1..Len(imports) :
    imports[i].of = imports[j].of =>
      ~(imports[i].state = "threw" /\ imports[j].state = "ok")

Waits(i) == i <= Len(imports) /\ imports[i].state = "waiting"

\* Every import() settles, provided fetches end and awaited things come.
ImportsSettle ==
  \A i \in 1..MaxImports : Waits(i) ~> ~Waits(i) \/ pc # "up"

\* main.js:235-236: "A failed load is dropped from moduleLoads, so a later
\* import retries a failed fetch".  A load never evaluates its module while
\* the source whose fetch failed in the load before has not been had.
FailedFetchRetried ==
  evaluating # Nil => owed[evaluating] \in Cached \cup {Nil}
=============================================================================
