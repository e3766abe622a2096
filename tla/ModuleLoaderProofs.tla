------------------------- MODULE ModuleLoaderProofs -------------------------
(***************************************************************************)
(* Proofs about ModuleLoader for any module graph without static cycles,   *)
(* any division of the modules between hook, builtins and files, and any   *)
(* number of imports.                                                      *)
(*                                                                         *)
(* The properties rest on how far a module record can move.  A record is   *)
(* made once, because whoever makes one has just seen that there is none;  *)
(* its body runs once, because only a record that has not run may start;   *)
(* and once it is done or errored it stays so, which is why importers at   *)
(* different times agree.                                                  *)
(***************************************************************************)
EXTENDS ModuleLoader, SequenceTheorems, TLAPS

Settled == {"ok", "failed", "threw"}
LoadType == [at : Stops, want : Modules \cup {Nil}, next : Nat]
ImportType == [of : Modules, state : {"waiting"} \cup Settled]

(* A load in load_source knows what it waits for, and counts requests      *)
(* from one.  Only the module being evaluated has a load in evaluation.    *)
LoadInv ==
  \A m \in Modules :
    /\ load[m].at = "fetch" => load[m].next > 0
    /\ load[m].at = "evaluate" => evaluating = m

(* A record for every compilation and a body for every start.              *)
CountInv ==
  \A m \in Modules :
    /\ compiles[m] = IF status[m] = "none" THEN 0 ELSE 1
    /\ runs[m] <= 1
    /\ status[m] \in {"none", "new", "async"} => runs[m] = 0

(* A body starts after those it imports have ended.                        *)
GraphInv ==
  \A m \in Modules :
    status[m] \in {"tla", "done"} => \A x \in RequestSet(m) : status[x] = "done"

(* What a load settled with is what became of its module, and what an      *)
(* import settled with is what its load did.                               *)
OutcomeInv ==
  /\ \A m \in Modules : /\ load[m].at = "ok" => status[m] = "done"
                        /\ load[m].at = "threw" => status[m] = "errored"
  /\ \A i \in 1..Len(imports) :
       /\ imports[i].state = "ok" => status[imports[i].of] = "done"
       /\ imports[i].state = "threw" => status[imports[i].of] = "errored"

IInv == TypeOK /\ LoadInv /\ CountInv /\ GraphInv /\ OutcomeInv

-----------------------------------------------------------------------------
(* Graphs. *)

LEMMA RequestsAreModules ==
  ASSUME NEW m \in Modules
  PROVE  /\ RequestSet(m) \subseteq Modules
         /\ Len(Requests[m]) \in Nat
         /\ \A i \in 1..Len(Requests[m]) : Requests[m][i] \in Modules
  BY LoaderAssumption DEF LoaderAssumption, RequestSet

\* A module reaches what it imports, and no more than any set of modules
\* that is closed under imports.
LEMMA ReachIsLeast ==
  ASSUME NEW m \in Modules, NEW S \in SUBSET Modules, m \in S, Closed(S)
  PROVE  Reach[m] \subseteq S
  BY DEF Reach

LEMMA ReachIsClosed ==
  ASSUME NEW m \in Modules, NEW n \in Reach[m]
  PROVE  n \in Modules /\ RequestSet(n) \subseteq Reach[m]
<1>1. n \in Modules
  BY DEF Reach
<1>2. ASSUME NEW x \in RequestSet(n), NEW S \in SUBSET Modules, m \in S, Closed(S)
      PROVE  x \in S
  <2>1. n \in S
    BY <1>2 DEF Reach
  <2> QED
    BY <2>1, <1>2 DEF Closed
<1> QED
  BY <1>1, <1>2, RequestsAreModules DEF Reach

-----------------------------------------------------------------------------
(* Records and loads. *)

\* How a record may move in one step: the end of a module is its end, and a
\* module whose body has started has its imports behind it.
Moves ==
  /\ status' \in [Modules -> Statuses]
  /\ \A m \in Modules :
       /\ status[m] \in {"done", "errored"} => status'[m] = status[m]
       /\ status'[m] \in {"tla", "done"} /\ status'[m] # status[m]
            => \/ status[m] = "tla"
               \/ \A x \in RequestSet(m) : status[x] = "done"

LEMMA ImportsTyped ==
  ASSUME TypeOK
  PROVE  /\ imports \in Seq(ImportType) /\ Len(imports) \in Nat
         /\ \A i \in 1..Len(imports) : imports[i] \in ImportType
<1>1. imports \in Seq(ImportType)
  BY DEF TypeOK, ImportType, Settled
<1> QED
  BY <1>1

\* Then the invariants of graph and outcome are kept, where loads and imports
\* settle as their modules do.
LEMMA MovesKeepGraph ==
  ASSUME TypeOK, GraphInv, Moves PROVE GraphInv'
  BY RequestsAreModules DEF TypeOK, GraphInv, Moves

LEMMA MovesKeepOutcomes ==
  ASSUME TypeOK, OutcomeInv, Moves,
         \A m \in Modules :
           \/ load'[m] = load[m]
           \/ load'[m].at \notin {"ok", "threw"},
         imports' = imports
  PROVE  OutcomeInv'
<1>1. \A i \in 1..Len(imports) : imports[i].of \in Modules
  BY ImportsTyped DEF ImportType
<1>2. \A m \in Modules : /\ load'[m].at = "ok" => status'[m] = "done"
                         /\ load'[m].at = "threw" => status'[m] = "errored"
  BY DEF OutcomeInv, Moves
<1>3. \A i \in 1..Len(imports) :
        /\ imports[i].state = "ok" => status'[imports[i].of] = "done"
        /\ imports[i].state = "threw" => status'[imports[i].of] = "errored"
  BY <1>1 DEF OutcomeInv, Moves
<1> QED
  BY <1>2, <1>3 DEF OutcomeInv

\* load.catch and the promise of a load: the outcome is the module's.
LEMMA SettleKeepsOutcomes ==
  ASSUME IInv, Moves, NEW m \in Modules, NEW how \in Settled,
         Settle(m, how),
         how = "ok" => status'[m] = "done",
         how = "threw" => status'[m] = "errored"
  PROVE  /\ OutcomeInv'
         /\ load' \in [Modules -> LoadType]
         /\ \A k \in Modules : load'[k] = IF k = m THEN At(how) ELSE load[k]
         /\ imports' \in Seq(ImportType)
<1>1. /\ imports \in Seq(ImportType) /\ Len(imports) \in Nat
      /\ \A i \in 1..Len(imports) : /\ imports[i] \in ImportType
                                    /\ imports[i].of \in Modules
      /\ load \in [Modules -> LoadType]
  BY ImportsTyped DEF IInv, TypeOK, ImportType, LoadType
<1>2. At(how) = [at |-> how, want |-> Nil, next |-> 0] /\ At(how) \in LoadType
  BY DEF At, Idle, LoadType, Settled, Stops
<1>3. /\ load' \in [Modules -> LoadType]
      /\ \A k \in Modules : load'[k] = IF k = m THEN At(how) ELSE load[k]
  BY <1>1, <1>2 DEF Settle
<1> DEFINE settles(i) == imports[i].of = m /\ imports[i].state = "waiting"
<1>4. \A i \in 1..Len(imports) :
        [imports[i] EXCEPT !.state = how] =
          [of |-> imports[i].of, state |-> how]
  BY <1>1 DEF ImportType
<1>5. /\ Len(imports') = Len(imports)
      /\ \A i \in 1..Len(imports) :
           imports'[i] = IF settles(i) THEN [of |-> imports[i].of, state |-> how]
                         ELSE imports[i]
      /\ imports' = [i \in 1..Len(imports) |-> imports'[i]]
  BY <1>1, <1>4 DEF Settle
<1>6. \A i \in 1..Len(imports) : imports'[i] \in ImportType
  BY <1>1, <1>5 DEF ImportType, Settled
<1>7. imports' \in Seq(ImportType)
  BY <1>1, <1>5, <1>6
<1>8. \A k \in Modules : /\ load'[k].at = "ok" => status'[k] = "done"
                         /\ load'[k].at = "threw" => status'[k] = "errored"
  BY <1>2, <1>3 DEF IInv, OutcomeInv, Moves
<1>9. \A i \in 1..Len(imports) :
        /\ imports'[i].state = "ok" => status'[imports'[i].of] = "done"
        /\ imports'[i].state = "threw" => status'[imports'[i].of] = "errored"
  BY <1>1, <1>5 DEF IInv, OutcomeInv, Moves
<1> QED
  BY <1>3, <1>5, <1>7, <1>8, <1>9 DEF OutcomeInv

\* loadModule of modules that have no record: one record more for each.
LEMMA CompileOK ==
  ASSUME TypeOK, CountInv, NEW S \in SUBSET Modules, S \cap Cached = {},
         Compile(S), runs' = runs
  PROVE  /\ Moves
         /\ CountInv'
         /\ evaluated' \subseteq {m \in Modules : status'[m] = "done"}
         /\ compiles' \in [Modules -> Nat]
<1>1. \A m \in S : status[m] = "none"
  BY DEF Cached
<1>2. /\ status' \in [Modules -> Statuses] /\ compiles' \in [Modules -> Nat]
      /\ \A m \in Modules : status'[m] = IF m \in S THEN "new" ELSE status[m]
      /\ \A m \in Modules :
           compiles'[m] = IF m \in S THEN compiles[m] + 1 ELSE compiles[m]
  BY DEF Compile, TypeOK, Statuses
<1>3. Moves
  BY <1>1, <1>2 DEF Moves
<1>4. CountInv'
  BY <1>1, <1>2 DEF CountInv
<1>5. evaluated' \subseteq {m \in Modules : status'[m] = "done"}
  BY <1>2 DEF Compile, TypeOK
<1> QED
  BY <1>2, <1>3, <1>4, <1>5

(* What TypeOK and LoadInv say of the loads alone. *)
LoadsOK ==
  /\ load \in [Modules -> LoadType]
  /\ \A m \in Modules : (load[m].at = "fetch") = (load[m].want # Nil)
  /\ LoadInv

LEMMA LoadsFromIInv == IInv => LoadsOK
  BY DEF IInv, TypeOK, LoadsOK, LoadType

\* on_module_load starts a load only where there is none.
LEMMA StartedOK ==
  ASSUME LoadsOK, NEW S \in SUBSET Modules, load' = Started(S),
         evaluating' = evaluating
  PROVE  /\ LoadsOK'
         /\ \A m \in Modules : load'[m] = load[m] \/ load'[m].at \notin {"ok", "threw"}
<1> DEFINE fresh(m) == [at |-> "fetch", want |-> m, next |-> 1]
<1>1. /\ Nil \notin Modules
      /\ At("null") = [at |-> "null", want |-> Nil, next |-> 0]
  BY LoaderAssumption DEF LoaderAssumption, At, Idle
<1>2. \A m \in Modules : fresh(m) \in LoadType /\ At("null") \in LoadType
  BY <1>1 DEF LoadType, Stops
<1>3. \A m \in Modules : load'[m] \in {load[m], At("null"), fresh(m)}
  BY DEF Started
<1>4. load' \in [Modules -> LoadType]
  BY <1>2 DEF Started, LoadsOK
<1>5. \A m \in Modules : /\ (load'[m].at = "fetch") = (load'[m].want # Nil)
                         /\ load'[m].at = "fetch" => load'[m].next > 0
                         /\ load'[m].at = "evaluate" => evaluating' = m
                         /\ load'[m] = load[m] \/ load'[m].at \notin {"ok", "threw"}
  BY <1>1, <1>3 DEF LoadsOK, LoadInv
<1> QED
  BY <1>4, <1>5 DEF LoadsOK, LoadInv

\* A load that moves on by itself.
LEMMA LoadMovesOK ==
  ASSUME LoadsOK, NEW m \in Modules, NEW l \in LoadType,
         load' = [load EXCEPT ![m] = l],
         (l.at = "fetch") = (l.want # Nil),
         l.at = "fetch" => l.next > 0,
         l.at = "evaluate" => evaluating' = m,
         evaluating' = evaluating \/ evaluating \in {Nil, m}
  PROVE  LoadsOK'
<1>1. Nil \notin Modules
  BY LoaderAssumption DEF LoaderAssumption
<1>2. /\ load' \in [Modules -> LoadType]
      /\ \A k \in Modules : load'[k] = IF k = m THEN l ELSE load[k]
  BY DEF LoadsOK
<1> QED
  BY <1>1, <1>2 DEF LoadsOK, LoadInv

LEMMA AtTyped ==
  ASSUME NEW stop \in Stops
  PROVE  /\ At(stop) = [at |-> stop, want |-> Nil, next |-> 0]
         /\ At(stop) \in LoadType
  BY DEF At, Idle, LoadType, Stops

-----------------------------------------------------------------------------
(* import() and the loads. *)

LEMMA InitIInv == Init => IInv
<1> SUFFICES ASSUME Init PROVE IInv
  OBVIOUS
<1>1. TypeOK
  BY DEF Init, TypeOK, Statuses, Stops, Idle
<1> QED
  BY <1>1 DEF Init, IInv, LoadInv, CountInv, GraphInv, OutcomeInv, Idle

LEMMA ImportKeepsIInv ==
  ASSUME IInv, NEW m \in Modules, Import(m) PROVE IInv'
<1> USE DEF Import, cacheVars, program
<1>1. /\ LoadsOK'
      /\ \A k \in Modules : load'[k] = load[k] \/ load'[k].at \notin {"ok", "threw"}
  BY StartedOK, LoadsFromIInv
<1> DEFINE new == [of |-> m,
                   state |-> IF load[m].at \in {"ok", "failed", "threw"}
                             THEN load[m].at ELSE "waiting"]
<1>2. new \in ImportType
  BY DEF ImportType, Settled
<1>3. /\ imports \in Seq(ImportType) /\ Len(imports) \in Nat
      /\ \A i \in 1..Len(imports) : imports[i].of \in Modules
  BY ImportsTyped DEF IInv, ImportType
<1>4. /\ imports' \in Seq(ImportType) /\ Len(imports') = Len(imports) + 1
      /\ \A i \in 1..Len(imports) : imports'[i] = imports[i]
      /\ imports'[Len(imports) + 1] = new
  BY <1>2, <1>3
<1>5. TypeOK'
  BY <1>1, <1>4 DEF IInv, TypeOK, LoadsOK, LoadType, ImportType, Settled
<1>6. OutcomeInv'
  <2>1. \A k \in Modules : /\ load'[k].at = "ok" => status[k] = "done"
                           /\ load'[k].at = "threw" => status[k] = "errored"
    BY <1>1 DEF IInv, OutcomeInv
  <2>2. /\ new.state = "ok" => status[new.of] = "done"
        /\ new.state = "threw" => status[new.of] = "errored"
    BY DEF IInv, OutcomeInv
  <2>3. \A i \in 1..Len(imports') :
          /\ imports'[i].state = "ok" => status[imports'[i].of] = "done"
          /\ imports'[i].state = "threw" => status[imports'[i].of] = "errored"
    BY <1>3, <1>4, <2>2 DEF IInv, OutcomeInv
  <2> QED
    BY <2>1, <2>3 DEF OutcomeInv
<1> QED
  BY <1>1, <1>5, <1>6 DEF IInv, LoadsOK, CountInv, GraphInv

LEMMA FetchSucceedsKeepsIInv ==
  ASSUME IInv, NEW m \in Modules, FetchSucceeds(m) PROVE IInv'
<1> USE DEF program
<1> DEFINE x == load[m].want
<1>0. Nil \notin Modules
  BY LoaderAssumption DEF LoaderAssumption
<1>1. /\ evaluating = Nil /\ load[m].at = "fetch" /\ x \in Modules
      /\ load[m].next \in Nat \ {0}
  BY DEF FetchSucceeds, Running, IInv, TypeOK, LoadInv
<1>2. /\ Moves /\ CountInv'
      /\ evaluated' \subseteq {k \in Modules : status'[k] = "done"}
      /\ compiles' \in [Modules -> Nat]
  <2>1. Fetched(m) \subseteq Modules /\ Fetched(m) \cap Cached = {}
    BY <1>1 DEF Fetched
  <2> QED
    BY <2>1, CompileOK DEF FetchSucceeds, IInv
<1>3. /\ LoadsOK'
      /\ evaluating' \in {Nil, m}
      /\ pc' \in {pc, "died"}
      /\ \A k \in Modules : load'[k] = load[k] \/ load'[k].at \notin {"ok", "threw"}
  <2>1. ASSUME NEW i \in load[m].next..Len(Requests[m]),
               load' = [load EXCEPT ![m] = [at |-> "fetch", want |-> Requests[m][i],
                                            next |-> i + 1]],
               evaluating' = evaluating
        PROVE  /\ LoadsOK'
               /\ \A k \in Modules : load'[k] = load[k]
                                       \/ load'[k].at \notin {"ok", "threw"}
    <3> DEFINE l == [at |-> "fetch", want |-> Requests[m][i], next |-> i + 1]
    <3>1. /\ i \in 1..Len(Requests[m]) /\ i + 1 \in Nat /\ i + 1 > 0
          /\ Requests[m][i] \in Modules
      BY <1>1, RequestsAreModules
    <3>2. l \in LoadType
      BY <3>1 DEF LoadType, Stops
    <3>3. LoadsOK'
      BY <1>0, <2>1, <3>1, <3>2, LoadsFromIInv, LoadMovesOK
    <3> QED
      BY <2>1, <3>3, LoadsFromIInv DEF LoadsOK
  <2>2. ASSUME load' = [load EXCEPT ![m] = At("evaluate")], evaluating' = m
        PROVE  /\ LoadsOK'
               /\ \A k \in Modules : load'[k] = load[k]
                                       \/ load'[k].at \notin {"ok", "threw"}
    <3>1. "evaluate" \in Stops
      BY DEF Stops
    <3>2. LoadsOK'
      BY <1>1, <2>2, <3>1, AtTyped, LoadsFromIInv, LoadMovesOK
    <3> QED
      BY <2>2, <3>1, <3>2, AtTyped, LoadsFromIInv DEF LoadsOK
  <2> QED
    BY <1>1, <2>1, <2>2 DEF FetchSucceeds
<1>4. imports' = imports /\ runs' = runs /\ program' = program
  BY DEF FetchSucceeds
<1>5. TypeOK'
  BY <1>1, <1>2, <1>3, <1>4 DEF IInv, TypeOK, LoadsOK, LoadType, Moves,
     FetchSucceeds
<1>6. GraphInv' /\ OutcomeInv'
  BY <1>2, <1>3, <1>4, MovesKeepGraph, MovesKeepOutcomes DEF IInv
<1> QED
  BY <1>2, <1>3, <1>5, <1>6 DEF IInv, LoadsOK

\* What a step that settles load m shows, whatever else it does.
LEMMA SettleKeepsLoads ==
  ASSUME IInv, NEW m \in Modules, NEW how \in Settled, Settle(m, how),
         evaluating' = evaluating \/ evaluating = m
  PROVE  LoadsOK'
<1>1. how \in Stops \ {"fetch", "evaluate"}
  BY DEF Settled, Stops
<1>2. load' = [load EXCEPT ![m] = At(how)]
  BY DEF Settle
<1> QED
  BY <1>1, <1>2, AtTyped, LoadsFromIInv, LoadMovesOK

LEMMA StandStill ==
  ASSUME TypeOK, status' = status PROVE Moves
  BY DEF TypeOK, Moves

LEMMA FetchFailsKeepsIInv ==
  ASSUME IInv, NEW m \in Modules, FetchFails(m) PROVE IInv'
<1> USE DEF program, cacheVars, FetchFails
<1>1. Moves
  BY StandStill DEF IInv
<1>2. OutcomeInv' /\ imports' \in Seq(ImportType)
  BY <1>1, SettleKeepsOutcomes DEF Settled
<1>3. LoadsOK'
  BY SettleKeepsLoads DEF Settled
<1>4. load[m].want \in Modules
  BY DEF IInv, TypeOK
<1>5. TypeOK'
  BY <1>2, <1>3, <1>4 DEF IInv, TypeOK, LoadsOK, LoadType, ImportType, Settled
<1> QED
  BY <1>2, <1>3, <1>5 DEF IInv, LoadsOK, CountInv, GraphInv

LEMMA ResumeCachedKeepsIInv ==
  ASSUME IInv, NEW m \in Modules, ResumeCached(m) PROVE IInv'
<1> USE DEF program, cacheVars
<1>1. Moves
  BY StandStill DEF IInv, ResumeCached
<1>2. CASE m \in evaluated /\ Settle(m, "ok") /\ evaluating' = evaluating
  <2>1. status'[m] = "done"
    BY <1>2 DEF IInv, TypeOK, ResumeCached
  <2>2. OutcomeInv' /\ imports' \in Seq(ImportType)
    BY <1>1, <1>2, <2>1, SettleKeepsOutcomes DEF Settled
  <2>3. LoadsOK'
    BY <1>2, SettleKeepsLoads DEF Settled
  <2>4. TypeOK'
    BY <1>2, <2>2, <2>3 DEF IInv, TypeOK, LoadsOK, LoadType, ImportType, Settled,
       ResumeCached
  <2> QED
    BY <2>2, <2>3, <2>4 DEF IInv, LoadsOK, CountInv, GraphInv, ResumeCached
<1>3. CASE load' = [load EXCEPT ![m] = At("evaluate")] /\ evaluating' = m
           /\ imports' = imports
  <2>1. evaluating = Nil /\ "evaluate" \in Stops
    BY DEF ResumeCached, Running, Stops
  <2>2. LoadsOK'
    BY <1>3, <2>1, AtTyped, LoadsFromIInv, LoadMovesOK
  <2>3. OutcomeInv'
    <3>1. \A k \in Modules : load'[k] = load[k] \/ load'[k].at \notin {"ok", "threw"}
      BY <1>3, <2>1, AtTyped, LoadsFromIInv DEF LoadsOK
    <3> QED
      BY <1>1, <1>3, <3>1, MovesKeepOutcomes DEF IInv
  <2>4. TypeOK'
    BY <1>3, <2>2 DEF IInv, TypeOK, LoadsOK, LoadType, ResumeCached
  <2> QED
    BY <2>2, <2>3, <2>4 DEF IInv, LoadsOK, CountInv, GraphInv, ResumeCached
<1> QED
  BY <1>2, <1>3 DEF ResumeCached

LEMMA ResumeKeepsIInv ==
  ASSUME IInv, NEW m \in Modules, Resume(m) PROVE IInv'
<1> USE DEF program, Resume
<1>1. Moves
  BY StandStill DEF IInv
<1>2. PICK how \in {"ok", "threw"} :
        /\ Settle(m, how)
        /\ how = "ok" => status[m] = "done"
        /\ how = "threw" => status[m] = "errored"
  OBVIOUS
<1>3. OutcomeInv' /\ imports' \in Seq(ImportType)
  BY <1>1, <1>2, SettleKeepsOutcomes DEF Settled
<1>4. LoadsOK'
  BY <1>2, SettleKeepsLoads DEF Settled
<1>5. TypeOK'
  BY <1>3, <1>4 DEF IInv, TypeOK, LoadsOK, LoadType, ImportType, Settled
<1> QED
  BY <1>3, <1>4, <1>5 DEF IInv, LoadsOK, CountInv, GraphInv

LEMMA ForgetLoadKeepsIInv ==
  ASSUME IInv, NEW m \in Modules, ForgetLoad(m) PROVE IInv'
<1> USE DEF program, cacheVars, ForgetLoad
<1>1. /\ load' = [load EXCEPT ![m] = At("idle")]
      /\ "idle" \in Stops
  BY DEF At, Idle, Stops
<1>2. LoadsOK'
  BY <1>1, AtTyped, LoadsFromIInv, LoadMovesOK
<1>3. OutcomeInv'
  <2>1. \A k \in Modules : load'[k] = load[k] \/ load'[k].at \notin {"ok", "threw"}
    BY <1>1, AtTyped, LoadsFromIInv DEF LoadsOK
  <2> QED
    BY <2>1, StandStill, MovesKeepOutcomes DEF IInv
<1>4. TypeOK'
  BY <1>2 DEF IInv, TypeOK, LoadsOK, LoadType
<1> QED
  BY <1>2, <1>3, <1>4 DEF IInv, LoadsOK, CountInv, GraphInv

-----------------------------------------------------------------------------
(* Evaluation. *)

LEMMA InstantiateKeepsIInv ==
  ASSUME IInv, NEW x \in Modules, Instantiate(x) PROVE IInv'
<1> USE DEF program, cacheVars, Instantiate
<1>1. {x} \cap Cached = {} /\ {x} \in SUBSET Modules
  BY DEF Unresolved
<1>2. CASE Compile({x}) /\ pc' = pc
  <2>1. /\ Moves /\ CountInv'
        /\ evaluated' \subseteq {k \in Modules : status'[k] = "done"}
        /\ compiles' \in [Modules -> Nat]
    BY <1>1, <1>2, CompileOK DEF IInv
  <2>2. GraphInv' /\ OutcomeInv'
    BY <2>1, MovesKeepGraph, MovesKeepOutcomes DEF IInv
  <2>3. TypeOK'
    BY <1>2, <2>1 DEF IInv, TypeOK, Moves
  <2> QED
    BY <2>1, <2>2, <2>3 DEF IInv, LoadInv
<1>3. CASE UNCHANGED cacheVars /\ pc' = "aborted"
  BY <1>3 DEF IInv, TypeOK, LoadInv, CountInv, GraphInv, OutcomeInv
<1> QED
  BY <1>2, <1>3

\* The body of a module whose record has not run, and whose imports have all
\* ended, starts.
LEMMA RunBodyKeepsIInv ==
  ASSUME IInv, NEW n \in Modules, RunBody(n),
         status[n] \in {"new", "async"},
         \A x \in RequestSet(n) : status[x] = "done",
         pc' \in {pc, "died"},
         UNCHANGED <<evaluated, compiles, evaluating, imports, owed, promised, program>>
  PROVE  IInv'
<1> USE DEF program
<1>1. /\ runs' \in [Modules -> Nat]
      /\ \A m \in Modules : runs'[m] = IF m = n THEN runs[m] + 1 ELSE runs[m]
  BY DEF RunBody, IInv, TypeOK
<1>2. /\ status' \in [Modules -> Statuses]
      /\ \A m \in Modules : m # n => status'[m] = status[m]
      /\ status'[n] \in {"tla", "errored", "done"}
  BY DEF RunBody, IInv, TypeOK, Statuses
<1>3. Moves
  BY <1>2 DEF Moves
<1>4. Dynamic[n] \in SUBSET Modules
  BY LoaderAssumption DEF LoaderAssumption
<1>5. /\ LoadsOK'
      /\ \A m \in Modules : load'[m] = load[m] \/ load'[m].at \notin {"ok", "threw"}
  BY <1>4, StartedOK, LoadsFromIInv DEF RunBody
<1>6. GraphInv' /\ OutcomeInv'
  BY <1>3, <1>5, MovesKeepGraph, MovesKeepOutcomes DEF IInv
<1>7. CountInv'
  BY <1>1, <1>2 DEF IInv, CountInv, TypeOK
<1>8. TypeOK'
  BY <1>1, <1>2, <1>5 DEF IInv, TypeOK, LoadsOK, LoadType
<1> QED
  BY <1>5, <1>6, <1>7, <1>8 DEF IInv, LoadsOK

\* A record moves on without its body being started.
LEMMA StatusKeepsIInv ==
  ASSUME IInv, NEW n \in Modules, NEW s \in Statuses \ {"none"},
         status' = [status EXCEPT ![n] = s],
         status[n] \notin {"none", "done", "errored"},
         s \in {"new", "async"} => status[n] \in {"new", "async"},
         s \in {"tla", "done"} => status[n] = "tla",
         pc' \in {pc, "died"},
         UNCHANGED <<evaluated, compiles, load, evaluating, imports, runs, owed,
                     promised, program>>
  PROVE  IInv'
<1> USE DEF program
<1>1. /\ status' \in [Modules -> Statuses]
      /\ \A m \in Modules : status'[m] = IF m = n THEN s ELSE status[m]
  BY DEF IInv, TypeOK
<1>2. Moves
  BY <1>1 DEF Moves
<1>3. GraphInv' /\ OutcomeInv'
  BY <1>2, MovesKeepGraph, MovesKeepOutcomes DEF IInv
<1>4. CountInv'
  BY <1>1 DEF IInv, CountInv
<1>5. TypeOK'
  BY <1>1 DEF IInv, TypeOK
<1> QED
  BY <1>3, <1>4, <1>5 DEF IInv, LoadInv

LEMMA EvaluateNextKeepsIInv ==
  ASSUME IInv, NEW n \in Modules, EvaluateNext(n) PROVE IInv'
<1>1. /\ evaluating \in Modules /\ n \in Reach[evaluating]
      /\ status[n] = "new"
  BY DEF EvaluateNext, IInv, TypeOK
<1>2. CASE /\ status' = [status EXCEPT ![n] = "async"]
           /\ UNCHANGED <<load, pc, runs>>
  BY <1>1, <1>2, StatusKeepsIInv DEF EvaluateNext, Statuses
<1>3. CASE /\ ~Among(n, "async") /\ ~Among(n, "tla")
           /\ RunBody(n)
           /\ pc' = IF StartIsFatal(Dynamic[n])
                       \/ (status'[n] = "errored" /\ ~tolerant)
                      THEN "died" ELSE pc
  <2>1. \A x \in RequestSet(n) :
          /\ x \in Modules
          /\ status[x] \notin {"new", "async", "tla", "errored"}
    BY <1>1, <1>3, ReachIsClosed, RequestsAreModules DEF EvaluateNext, Among
  <2>2. \A x \in RequestSet(n) : x \in Cached
    BY <1>1, <2>1 DEF EvaluateNext, Unresolved, Cached
  <2>3. \A x \in RequestSet(n) : status[x] = "done"
    BY <2>1, <2>2 DEF IInv, TypeOK, Statuses, Cached
  <2> QED
    BY <1>1, <1>3, <2>3, RunBodyKeepsIInv DEF EvaluateNext
<1> QED
  BY <1>2, <1>3 DEF EvaluateNext

LEMMA EvaluateFailsKeepsIInv ==
  ASSUME IInv, EvaluateFails PROVE IInv'
<1> USE DEF program
<1> DEFINE m == evaluating
<1>1. m \in Modules /\ status[m] \in {"new", "errored"}
  BY DEF EvaluateFails, IInv, TypeOK
<1>2. /\ status' \in [Modules -> Statuses]
      /\ \A k \in Modules : status'[k] = IF k = m THEN "errored" ELSE status[k]
  BY DEF EvaluateFails, IInv, TypeOK, Statuses
<1>3. Moves
  BY <1>1, <1>2 DEF Moves
<1>4. OutcomeInv' /\ imports' \in Seq(ImportType)
  BY <1>1, <1>2, <1>3, SettleKeepsOutcomes DEF EvaluateFails, Settled
<1>5. LoadsOK'
  BY <1>1, SettleKeepsLoads DEF EvaluateFails, Settled
<1>6. GraphInv'
  BY <1>3, MovesKeepGraph DEF IInv
<1>7. CountInv'
  BY <1>1, <1>2 DEF EvaluateFails, IInv, CountInv
<1>8. TypeOK'
  BY <1>1, <1>2, <1>4, <1>5 DEF EvaluateFails, IInv, TypeOK, LoadsOK, LoadType,
     ImportType, Settled
<1> QED
  BY <1>4, <1>5, <1>6, <1>7, <1>8 DEF IInv, LoadsOK

LEMMA EvaluateReturnsKeepsIInv ==
  ASSUME IInv, EvaluateReturns PROVE IInv'
<1> USE DEF program, cacheVars, EvaluateReturns
<1>1. evaluating \in Modules /\ "running" \in Stops
  BY DEF IInv, TypeOK, Stops
<1>2. LoadsOK'
  BY <1>1, AtTyped, LoadsFromIInv, LoadMovesOK
<1>3. OutcomeInv'
  <2>1. \A k \in Modules : load'[k] = load[k] \/ load'[k].at \notin {"ok", "threw"}
    BY <1>1, AtTyped, LoadsFromIInv DEF LoadsOK
  <2> QED
    BY <2>1, StandStill, MovesKeepOutcomes DEF IInv
<1>4. TypeOK'
  BY <1>2 DEF IInv, TypeOK, LoadsOK, LoadType
<1> QED
  BY <1>2, <1>3, <1>4 DEF IInv, LoadsOK, CountInv, GraphInv

LEMMA AsyncKeepsIInv ==
  ASSUME IInv, NEW n \in Modules, AsyncStep(n) PROVE IInv'
<1>1. CASE AwaitEnds(n)
  <2>1. PICK s \in {"errored", "done"} : status' = [status EXCEPT ![n] = s]
    BY <1>1 DEF AwaitEnds
  <2> QED
    BY <1>1, <2>1, StatusKeepsIInv DEF AwaitEnds, Statuses
<1>2. CASE RunsAfterImports(n)
  BY <1>2, RunBodyKeepsIInv DEF RunsAfterImports
<1>3. CASE FailsWithImport(n)
  BY <1>3, StatusKeepsIInv DEF FailsWithImport, Statuses
<1> QED
  BY <1>1, <1>2, <1>3 DEF AsyncStep

LEMMA NextKeepsIInv == IInv /\ [Next]_vars => IInv'
<1> SUFFICES ASSUME IInv, [Next]_vars PROVE IInv'
  OBVIOUS
<1>1. ASSUME NEW m \in Modules, Import(m) \/ LoadStep(m) \/ AsyncStep(m)
      PROVE  IInv'
  BY <1>1, ImportKeepsIInv, FetchSucceedsKeepsIInv, FetchFailsKeepsIInv,
     ResumeCachedKeepsIInv, ResumeKeepsIInv, ForgetLoadKeepsIInv,
     AsyncKeepsIInv DEF LoadStep
<1>2. CASE Evaluation
  BY <1>2, InstantiateKeepsIInv, EvaluateNextKeepsIInv,
     EvaluateFailsKeepsIInv, EvaluateReturnsKeepsIInv DEF Evaluation
<1>3. CASE Quiet \/ Terminated \/ UNCHANGED vars
  BY <1>3 DEF Quiet, Terminated, vars, cacheVars, program, IInv, TypeOK,
     LoadInv, CountInv, GraphInv, OutcomeInv
<1> QED
  BY <1>1, <1>2, <1>3 DEF Next

-----------------------------------------------------------------------------
(* The theorems. *)

\* IInv is an invariant of the loader.
THEOREM Invariance == Spec => []IInv
  BY InitIInv, NextKeepsIInv, PTL DEF Spec

\* Every variable keeps its type, a load waits for a source exactly while it
\* is in load_source, and mod.evaluated is set of finished modules only.
THEOREM TypesHold == Spec => []TypeOK
<1>1. IInv => TypeOK
  BY DEF IInv
<1> QED
  BY <1>1, Invariance, PTL

\* However it is reached, a module is compiled once and its body runs once
\* (main.js:234-235).
THEOREM ModulesAreSingle == Spec => []OneInstance
<1>1. IInv => OneInstance
  BY DEF IInv, CountInv, OneInstance
<1> QED
  BY <1>1, Invariance, PTL

\* evaluateModule is never entered while it runs.
THEOREM EvaluationIsNotReentered == Spec => []NoReentrantEvaluation
<1>1. IInv => NoReentrantEvaluation
  BY DEF IInv, LoadInv, NoReentrantEvaluation
<1> QED
  BY <1>1, Invariance, PTL

\* When import() resolves, the whole graph below the module has run to its
\* end.
THEOREM ImportsFindWholeGraphs == Spec => []ImportsSeeFinishedModules
<1>1. IInv => ImportsSeeFinishedModules
  <2> SUFFICES ASSUME IInv, NEW i \in 1..Len(imports), imports[i].state = "ok"
               PROVE  \A x \in Reach[imports[i].of] : status[x] = "done"
    BY DEF ImportsSeeFinishedModules
  <2> DEFINE ended == {m \in Modules : status[m] = "done"}
  <2>1. imports[i].of \in Modules
    BY ImportsTyped DEF IInv, ImportType
  <2>2. imports[i].of \in ended
    BY <2>1 DEF IInv, OutcomeInv
  <2>3. Closed(ended)
    BY RequestsAreModules DEF Closed, IInv, GraphInv
  <2>4. Reach[imports[i].of] \subseteq ended
    BY <2>1, <2>2, <2>3, ReachIsLeast
  <2> QED
    BY <2>4
<1> QED
  BY <1>1, Invariance, PTL

\* No two importers of a module disagree about whether it threw.
THEOREM ImportersAlwaysAgree == Spec => []ImportersAgree
<1>1. IInv => ImportersAgree
  BY DEF IInv, OutcomeInv, ImportersAgree
<1> QED
  BY <1>1, Invariance, PTL
=============================================================================
