------------------------------ MODULE Timers -------------------------------
(***************************************************************************)
(* The timers of lib/timer.js, setTimeout and its relatives, and the two   *)
(* nested while loops of main.js that a program lives under.  The event    *)
(* loop is EventLoop's; here the only descriptors are timerfds.            *)
(*                                                                         *)
(* Time is relative: a timer knows how far its next expiration is, and a   *)
(* Tick brings every one of them nearer, whatever the thread is doing.     *)
(*                                                                         *)
(* handleCommand starts the program and returns at its first await.  Then  *)
(* the outer loop runs, inside a microtask, so that no other microtask     *)
(* runs before it has ended; what the callbacks resolved comes afterwards. *)
(* When handleCommand itself has finished, its "then" runs the inner loop, *)
(* and again what that resolved comes afterwards, with no loop behind it.  *)
(***************************************************************************)
EXTENDS Integers, FiniteSets, Sequences

CONSTANTS
  Fds,        \* descriptor numbers the process may use
  MaxTimers,  \* bound: timers created in one behaviour
  Kinds,      \* the timers a program asks for, see Kind
  Nil

Timers == 1..MaxTimers
Tasks  == {"main", "helper"}

\* The arguments of new Timer(loop, timeout, callback, repeat) in
\* milliseconds, and whether it is setTimeout that calls it.  setTimeout and
\* setInterval leave repeat to its default, timeout.
Kind == [timeout : Nat, repeat : Nat, once : BOOLEAN]

ASSUME TimersAssumption ==
  /\ Fds \subseteq Nat /\ IsFiniteSet(Fds)
  /\ MaxTimers \in Nat
  /\ Kinds \subseteq Kind
  /\ Nil \notin Fds \cup Timers /\ Nil # {"in"}

VARIABLES
  files, interest, callbacks, errors, size, batch, completions, pc, event,
  self, fdOf, program,   \* as in EventLoop, with timers for handles
  (* timerfd *)
  left,      \* time to the next expiration, 0 when disarmed
  every,     \* it_interval
  unread,    \* the counter that read(2) returns and resets is not 0
  (* the program *)
  once,      \* the timers made by setTimeout
  rang,      \* timers whose callback was called
  stage,     \* how far global_main is
  command,   \* "eval", or a "script" to import
  task,      \* the state of each asynchronous function of the program
  awaits,    \* the timer whose callback resolves what a task waits for
  (* history *)
  expired,   \* timers that expired since their callback was last called
  cleared,   \* timers the program cleared
  born       \* the stage in which a timer was created

loopVars  == <<files, interest, callbacks, errors, size, batch, completions, pc,
               event, self>>
timerVars == <<left, every, unread, expired>>
progVars  == <<fdOf, once, rang, task, awaits, cleared, born>>
vars == <<loopVars, timerVars, progVars, stage, command, program>>

Ready == [t \in Timers |-> IF unread[t] THEN {"in"} ELSE {}]

Loop == INSTANCE EventLoop WITH
  Handles <- Timers, Masks <- {{"in"}}, Conditions <- {"in"},
  MaxEvents <- Cardinality(Fds), MaxImmediates <- 0, ready <- Ready,
  immediates <- <<>>, immLeft <- 0, cutoff <- 0, nextTicket <- 0,
  enrolled <- {}

Created(t) == fdOf[t] # Nil
IsOpen(t)  == Created(t) /\ files[fdOf[t]] = t
Over       == stage \in {"exited", "failed"}

\* A task runs: since it was "called", or "resumed" by what it awaited.
Runs(k) == task[k] \in {"called", "resumed"} /\ ~Over
Busy    == \E k \in Tasks : Runs(k)

\* JavaScript of the program is running: a task, or a timer's callback.
InCallback == pc = "callback" /\ ~Over
Running    == Busy \/ InCallback

\* The program has put a function of its own, one that returns, in the place
\* of onUnhandledRejection, which ends the process.
Tolerant == "tolerates" \in program

Init ==
  /\ files = [fd \in Fds |-> Nil]
  /\ interest = [fd \in Fds |-> Nil]
  /\ callbacks = [fd \in Fds |-> Nil]
  /\ errors = [fd \in Fds |-> Nil]
  /\ size = 0 /\ completions = 0
  /\ batch = <<>>
  /\ pc = "main" /\ event = Loop!NoEvent /\ self = Nil
  /\ fdOf = [t \in Timers |-> Nil]
  /\ program \in SUBSET {"closes_others", "closes_twice", "tolerates"}
  /\ left = [t \in Timers |-> 0] /\ every = [t \in Timers |-> 0]
  /\ unread = [t \in Timers |-> FALSE]
  /\ once = {} /\ rang = {} /\ expired = {} /\ cleared = {}
  /\ born = [t \in Timers |-> Nil]
  /\ stage = "outer"
  /\ command \in {"eval", "script"}
  /\ task = [k \in Tasks |->
               IF k = "main" /\ command = "eval" THEN "called" ELSE "new"]
  /\ awaits = [k \in Tasks |-> Nil]

-----------------------------------------------------------------------------
(* The kernel: one millisecond passes. *)

Tick ==
  /\ ~Over
  /\ \E t \in Timers : left[t] > 0
  /\ left' = [t \in Timers |-> IF left[t] = 1 THEN every[t]
                               ELSE IF left[t] = 0 THEN 0 ELSE left[t] - 1]
  /\ unread' = [t \in Timers |-> unread[t] \/ left[t] = 1]
  /\ expired' = expired \cup {t \in Timers : left[t] = 1}
  /\ UNCHANGED <<loopVars, progVars, every, stage, command, program>>

-----------------------------------------------------------------------------
(* UnixTimer, and the functions main.js makes of it. *)

\* Slip: close() that forgets loop.remove
CloseNumberOnly(fd) ==
  /\ files' = [files EXCEPT ![fd] = Nil]
  /\ left' = [t \in Timers |-> IF files[fd] = t THEN 0 ELSE left[t]]
  /\ every' = [t \in Timers |-> IF files[fd] = t THEN 0 ELSE every[t]]
  /\ UNCHANGED <<interest, callbacks, errors, size>>

\* close(): loop.remove and close of the number the object remembers, which
\* disarms the timer that has the number now.
CloseNumber(fd) ==
  /\ Loop!LoopRemove(fd)
  /\ files' = [files EXCEPT ![fd] = Nil]
  /\ left' = [t \in Timers |-> IF files[fd] = t THEN 0 ELSE left[t]]
  /\ every' = [t \in Timers |-> IF files[fd] = t THEN 0 ELSE every[t]]

\* new Timer.  timer() takes the two times the other way round: the first
\* expiration is after "repeat" and the others are "timeout" apart.  An
\* it_value of 0 disarms, whatever the interval.
NewTimer(kind) ==
  /\ Running
  /\ \E t \in Timers, fd \in Fds :
       /\ ~Created(t) /\ \A u \in Timers : u < t => Created(u)
       /\ Loop!LowestFree(fd)
       /\ files' = [files EXCEPT ![fd] = t]
       /\ fdOf' = [fdOf EXCEPT ![t] = fd]
       /\ left' = [left EXCEPT ![t] = kind.repeat]
       /\ every' = [every EXCEPT ![t] = kind.timeout]
       /\ Loop!LoopAdd(fd, t, {"in"})
       /\ once' = IF kind.once THEN once \cup {t} ELSE once
       /\ born' = [born EXCEPT ![t] = stage]
  /\ UNCHANGED <<batch, completions, pc, event, self, unread, expired, rang,
                 task, awaits, cleared, stage, command, program>>

\* clearTimeout, clearInterval
Clear(t) ==
  /\ Running
  /\ Created(t)
  /\ pc = "callback" /\ t # self => "closes_others" \in program
  /\ ~IsOpen(t) => "closes_twice" \in program
  /\ CloseNumber(fdOf[t])
  /\ unread' = [u \in Timers |-> unread[u] /\ files[fdOf[t]] # u]
  /\ cleared' = cleared \cup {t}
  /\ UNCHANGED <<batch, completions, pc, event, self, expired, fdOf,
                 once, rang, task, awaits, born, stage, command, program>>

\* Slip: a closure that does not read its counter
EnterCallbackUnread ==
  /\ pc = "event"
  /\ pc' = "callback"
  /\ expired' = expired \ {self}
  /\ rang' = rang \cup {self}
  /\ IF self \in once
       THEN CloseNumber(fdOf[self])
       ELSE UNCHANGED <<files, interest, callbacks, errors, size, left, every>>
  /\ UNCHANGED <<unread, batch, completions, event, self, fdOf, once,
                 task, awaits, cleared, born, stage, command, program>>

\* The closure that UnixTimer registers: it reads the counter, whatever
\* read(2) says, and calls the callback; that of setTimeout closes the timer
\* before it calls the function.
EnterCallback ==
  /\ pc = "event"
  /\ pc' = "callback"
  /\ unread' = [unread EXCEPT ![self] = FALSE]
  /\ expired' = expired \ {self}
  /\ rang' = rang \cup {self}
  /\ IF self \in once
       THEN CloseNumber(fdOf[self])
       ELSE UNCHANGED <<files, interest, callbacks, errors, size, left, every>>
  /\ UNCHANGED <<batch, completions, event, self, fdOf, once, task,
                 awaits, cleared, born, stage, command, program>>

Return ==
  /\ InCallback
  /\ pc' = "drain"
  /\ self' = Nil
  /\ event' = Loop!NoEvent
  /\ UNCHANGED <<files, interest, callbacks, errors, size, batch, completions,
                 timerVars, progVars, stage, command, program>>

\* The function throws, or is not a function: out of poll().
Throw ==
  /\ InCallback
  /\ pc' = "threw"
  /\ UNCHANGED <<files, interest, callbacks, errors, size, batch, completions,
                 event, self, timerVars, progVars, stage, command, program>>

-----------------------------------------------------------------------------
(* The asynchronous functions of the program: what handleCommand awaits    *)
(* ("main") and one that it calls without awaiting it ("helper").          *)

TaskStep == UNCHANGED <<loopVars, timerVars, fdOf, once, rang, cleared, born,
                        stage, command, program>>

\* await new Promise(resolve => { the callback of t calls resolve }); one
\* that is resolved already is not told apart from going on.
Await(k, t) ==
  /\ Runs(k) /\ Created(t) /\ t \notin rang
  /\ task' = [task EXCEPT ![k] = "waiting"]
  /\ awaits' = [awaits EXCEPT ![k] = t]
  /\ TaskStep

\* main calls the helper, which runs to its first await within the call.
Fork(t) ==
  /\ Runs("main") /\ task["helper"] = "new"
  /\ Created(t) /\ t \notin rang
  /\ task' = [task EXCEPT !["helper"] = "waiting"]
  /\ awaits' = [awaits EXCEPT !["helper"] = t]
  /\ TaskStep

Finish(k) ==
  /\ Runs(k)
  /\ task' = [task EXCEPT ![k] = "done"]
  /\ UNCHANGED awaits
  /\ TaskStep

\* Slip: a promise whose rejection waits for the handler it will be given
RejectLater ==
  /\ Runs("main")
  /\ task' = [task EXCEPT !["main"] = "rejected"]
  /\ UNCHANGED awaits
  /\ TaskStep

\* main fails, for example at setTimeout with no delay, a RangeError of
\* BigInt.  What rejects is then the promise that handleCommand awaits, or
\* handleCommand's own, and the catch of global_main ends the process in a
\* microtask.  But nothing handles a promise that rejects before main has
\* come to an await, unless it is the throw of a script's main that is not
\* async: of that V8 tells PromiseRejectCallback at once.
Reject ==
  /\ Runs("main")
  /\ task' = [task EXCEPT !["main"] = "rejected"]
  /\ \/ /\ task["main"] = "resumed" \/ command = "script" \/ Tolerant
        /\ UNCHANGED stage
     \/ /\ task["main"] = "called" /\ ~Tolerant
        /\ stage' = "failed"
  /\ UNCHANGED <<loopVars, timerVars, fdOf, once, rang, cleared, born, awaits,
                 command, program>>

\* Any other promise is rejected that nothing handles: by a helper, or in a
\* callback.  A tolerant program does not notice.
UnhandledRejection ==
  /\ Running /\ ~Tolerant
  /\ stage' = "failed"
  /\ UNCHANGED <<loopVars, timerVars, progVars, command, program>>

Resumable(k) == task[k] = "waiting" /\ awaits[k] \in rang

-----------------------------------------------------------------------------
(* Slips of global_main: one mistake each, used by no specification. *)

\* global_main without the loop of its "then"
RunInnerLoopNever ==
  /\ stage = "micro" /\ ~Busy /\ task["main"] = "done"
  /\ stage' = "late"
  /\ UNCHANGED <<loopVars, timerVars, progVars, command, program>>

\* A "then" that calls exit() after its loop
ExitAtOnce ==
  /\ stage \in {"micro", "late"} /\ pc = "main" /\ ~Busy
  /\ stage = "micro" => task["main"] = "waiting"
  /\ stage' = "exited"
  /\ UNCHANGED <<loopVars, timerVars, progVars, command, program>>

-----------------------------------------------------------------------------
(* global_main.  The order of microtasks is left open. *)

\* handleCommand has come to its first await, or to its end.
RunOuterLoop ==
  /\ stage = "outer" /\ pc = "main" /\ ~Busy
  /\ pc' = "poll"
  /\ UNCHANGED <<files, interest, callbacks, errors, size, batch, completions,
                 event, self, timerVars, progVars, stage, command, program>>

LoopEnds ==
  /\ pc = "exited"
  /\ pc' = "main"
  /\ stage' = IF stage = "outer" THEN "micro" ELSE "late"
  /\ UNCHANGED <<files, interest, callbacks, errors, size, batch, completions,
                 event, self, timerVars, progVars, command, program>>

\* await import(filePath) goes on, and calls main.
StartScript ==
  /\ stage = "micro" /\ task["main"] = "new"
  /\ task' = [task EXCEPT !["main"] = "called"]
  /\ UNCHANGED awaits
  /\ TaskStep

Resume(k) ==
  /\ stage \in {"micro", "late"} /\ pc = "main" /\ ~Busy
  /\ Resumable(k)
  /\ task' = [task EXCEPT ![k] = "resumed"]
  /\ awaits' = [awaits EXCEPT ![k] = Nil]
  /\ TaskStep

\* .then(() => { while (loop.poll() > 0) {} })
RunInnerLoop ==
  /\ stage = "micro" /\ ~Busy /\ task["main"] = "done"
  /\ stage' = "inner" /\ pc' = "poll"
  /\ UNCHANGED <<files, interest, callbacks, errors, size, batch, completions,
                 event, self, timerVars, progVars, command, program>>

\* The two catch handlers end the process.
Die ==
  /\ \/ pc \in {"threw", "crashed"}
     \/ stage = "micro" /\ ~Busy /\ task["main"] = "rejected"
  /\ ~Over
  /\ stage' = "failed"
  /\ UNCHANGED <<loopVars, timerVars, progVars, command, program>>

\* No microtask is left; V8 returns to lo.cc and the process ends.
Exit ==
  /\ stage \in {"micro", "late"} /\ pc = "main" /\ ~Busy
  /\ \A k \in Tasks : ~Resumable(k)
  /\ stage = "micro" => task["main"] = "waiting"
  /\ stage' = "exited"
  /\ UNCHANGED <<loopVars, timerVars, progVars, command, program>>

-----------------------------------------------------------------------------

Poll ==
  /\ UNCHANGED <<timerVars, progVars, stage, command, program>>
  /\ Loop!PollNothing \/ Loop!PollWait \/ Loop!DispatchEvent \/ Loop!PollReturn

Program ==
  \/ \E kind \in Kinds : NewTimer(kind)
  \/ \E t \in Timers : Clear(t) \/ Fork(t)
  \/ \E k \in Tasks, t \in Timers : Await(k, t)
  \/ Throw \/ UnhandledRejection

Main ==
  \/ RunOuterLoop \/ LoopEnds \/ StartScript \/ RunInnerLoop \/ Die \/ Exit
  \/ \E k \in Tasks : Resume(k)

\* The end, or poll() waits for timers of 0 ms, which no one armed.
Stopped ==
  /\ \/ Over
     \/ /\ pc = "poll" /\ size > 0 /\ Loop!Deliverable = {}
        /\ \A t \in Timers : left[t] = 0
  /\ UNCHANGED vars

TaskEnds == Reject \/ \E k \in Tasks : Finish(k)

Next ==
  \/ Tick \/ Poll \/ EnterCallback \/ Return \/ TaskEnds
  \/ Program \/ Main \/ Stopped

Spec == Init /\ [][Next]_vars

\* Time passes, the thread runs, and the program's functions return.
Fairness ==
  /\ WF_vars(Tick) /\ WF_vars(Poll) /\ WF_vars(EnterCallback)
  /\ WF_vars(Return) /\ WF_vars(Main) /\ WF_vars(TaskEnds)

FairSpec == Spec /\ Fairness

-----------------------------------------------------------------------------
(* Properties. *)

TypeOK ==
  /\ files \in [Fds -> Timers \cup {Nil}]
  /\ interest \in [Fds -> {{"in"}, Nil}]
  /\ callbacks \in [Fds -> Timers \cup {Nil}] /\ errors = callbacks
  /\ size \in 0..Cardinality(Fds)
  /\ batch \in Seq(Loop!Event)
  /\ pc \in {"main", "poll", "drain", "event", "callback", "exited", "threw",
             "crashed"}
  /\ self \in Timers \cup {Nil}
  /\ fdOf \in [Timers -> Fds \cup {Nil}]
  /\ left \in [Timers -> Nat] /\ every \in [Timers -> Nat]
  /\ unread \in [Timers -> BOOLEAN]
  /\ once \cup rang \cup expired \cup cleared \subseteq Timers
  /\ stage \in {"outer", "micro", "inner", "late", "exited", "failed"}
  /\ task \in [Tasks -> {"new", "called", "resumed", "waiting", "done", "rejected"}]
  /\ awaits \in [Tasks -> Timers \cup {Nil}]

\* A callback is called only for an expiration of its own timer since it was
\* last called: none comes early, for another timer that had its number, or
\* twice for one expiration, and none finds its entry gone.  This is the
\* promise of lib/timer.js to programs whose callbacks clear only their own
\* timer; a clear of another that is due in the same batch breaks it.
CallbacksEarned ==
  [][("closes_others" \notin program /\ pc' # pc) =>
       /\ pc' # "crashed"
       /\ pc' = "callback" => self \in expired]_vars

\* A timer lives as long as it should: it is open and registered from its
\* creation until it is cleared or, made by setTimeout, has called its
\* function; then it holds neither a number nor a registration.  For a
\* program that clears a timer twice only the second half is promised: the
\* number may have passed to another timer, which loses it.
LiveTimersHeld ==
  \A t \in Timers :
    LET spent == t \in cleared \/ t \in once \cap rang IN
    /\ Created(t) /\ ~spent /\ "closes_twice" \notin program
         => IsOpen(t) /\ callbacks[fdOf[t]] = t
    /\ spent => \A fd \in Fds : t \notin {files[fd], callbacks[fd]}

\* What an exit without error abandons.  A timer is abandoned only if it was
\* created where no loop came after it: by a microtask that ran after the
\* last loop.  That is after the inner one, or after the outer one if main
\* then waits, for main to finish is what starts the inner loop.
ExitLosesOnlyLateTimers ==
  stage = "exited" =>
    \A t \in Timers :
      IsOpen(t) => \/ born[t] = "late"
                   \/ born[t] = "micro" /\ task["main"] = "waiting"

\* Every expiration is answered, by the callback, a close or the end of the
\* process: no timer starves behind intervals that are always due, although
\* time goes on while callbacks run.
ExpirationsAnswered ==
  \A t \in Timers :
    unread[t] ~> ~unread[t] \/ Over

\* What settles the program.  No loop runs on behind a main that has failed,
\* unless the program tolerates unhandled rejections.  If the timers run out
\* the process ends, whatever its tasks wait for, and before it does a task
\* whose await was resolved goes on and a main that failed ends it with its
\* error.  With one interval left running none of these last is promised,
\* because no microtask runs between two polls; nor with a timer of 0 ms that
\* can never ring.
SettledWhenTimersRunOut ==
  /\ [](task["main"] = "rejected" /\ pc # "main" => Tolerant)
  /\ <>[](size = 0) =>
       /\ <>Over
       /\ \A k \in Tasks :
            Resumable(k) ~> task[k] # "waiting" \/ stage = "failed"
       /\ task["main"] = "rejected" ~> stage = "failed"
=============================================================================
