----------------------------- MODULE EventLoop -----------------------------
(***************************************************************************)
(* The epoll event loop of lib/loop.js (class UnixLoop) together with the  *)
(* two things it lives between: the kernel's descriptor table and epoll    *)
(* interest list below it, and the JavaScript program whose callbacks it   *)
(* runs above it.                                                          *)
(*                                                                         *)
(* A handle is what the program holds: a socket, a listener or a timer.    *)
(* The loop itself never sees handles.  It keys its tables by descriptor   *)
(* number, and the kernel hands a closed number out again to the next      *)
(* open.  Everything difficult in this module comes from that: a batch of  *)
(* events is a list of numbers collected before the first callback of the  *)
(* batch runs, and used after it.                                          *)
(*                                                                         *)
(* JavaScript runs to completion, so a callback is a sequence of program   *)
(* actions between its start and its Return (or Throw), and only the       *)
(* kernel interleaves with it.                                             *)
(***************************************************************************)
EXTENDS Integers, Sequences, FiniteSets

CONSTANTS
  Fds,          \* descriptor numbers the process may use
  Handles,      \* the objects a program opens, each at most once
  Nil,
  Masks,        \* interest masks a program asks for, subsets of {"in", "out"}
  Conditions,   \* conditions the kernel reports, may include "hup"
  MaxEvents,    \* capacity of the buffer passed to epoll_wait
  MaxImmediates \* bound: setImmediate calls in one behaviour

ASSUME LoopAssumption ==
  /\ Fds \subseteq Nat
  /\ IsFiniteSet(Fds)
  /\ Nil \notin Fds
  /\ Nil \notin Handles
  /\ Nil \notin Masks
  /\ Masks \subseteq SUBSET {"in", "out"}
  /\ Conditions \subseteq {"in", "out", "hup"}
  /\ MaxEvents \in Nat \ {0}
  /\ MaxImmediates \in Nat

VARIABLES
  (* kernel *)
  files,        \* descriptor table: the handle a number denotes now
  interest,     \* epoll interest list: the mask registered for a number
  ready,        \* conditions that hold on a handle's file
  (* the UnixLoop object *)
  callbacks,    \* this.callbacks
  errors,       \* this.errors
  size,         \* this.#size
  immediates,   \* this.immediates, as the ticket numbers of the functions
  immLeft,      \* local imm_len of poll()
  batch,        \* events poll() has still to dispatch
  completions,  \* local completions of poll(), then its return value
  (* the program *)
  pc,           \* what the thread is doing
  event,        \* the event being dispatched
  self,         \* the handle whose closure is running
  fdOf,         \* the fd property of a handle object; close() leaves it set
  nextTicket,   \* tickets given to setImmediate so far
  cutoff,       \* history: nextTicket when poll() read immediates.length
  enrolled,     \* history: handles the program added and has not taken out
  program       \* which liberties this program takes, fixed at the start

kernelVars == <<files, interest, ready>>
tableVars  == <<callbacks, errors, size>>
pollVars   == <<immLeft, batch, completions, event, self, cutoff>>
vars == <<kernelVars, tableVars, immediates, pollVars, pc, fdOf, nextTicket,
          enrolled, program>>

(***************************************************************************)
(* Liberties.  closes_others: a callback may close a handle other than the *)
(* one it runs for (the relay in runtime/proxy.js closes a pair,           *)
(* clearTimeout closes any timer), and so may an immediate.  closes_twice: *)
(* close() is called on a handle already closed (clearTimeout after the    *)
(* timeout fired).  opens_on_error: an error handler opens something new.  *)
(***************************************************************************)
Liberties == {"closes_others", "closes_twice", "opens_on_error"}

Event   == [fd : Fds, mask : SUBSET {"in", "out", "hup"}, for : Handles]
NoEvent == [fd |-> Nil, mask |-> {}, for |-> Nil]

Running == pc \in {"main", "immediate", "event", "error"}

Registered == {fd \in Fds : callbacks[fd] # Nil}

Init ==
  /\ files = [fd \in Fds |-> Nil]
  /\ interest = [fd \in Fds |-> Nil]
  /\ ready = [h \in Handles |-> {}]
  /\ callbacks = [fd \in Fds |-> Nil]
  /\ errors = [fd \in Fds |-> Nil]
  /\ size = 0
  /\ immediates = <<>>
  /\ immLeft = 0
  /\ batch = <<>>
  /\ completions = 0
  /\ pc = "main"
  /\ event = NoEvent
  /\ self = Nil
  /\ fdOf = [h \in Handles |-> Nil]
  /\ nextTicket = 0
  /\ cutoff = 0
  /\ enrolled = {}
  /\ program \in SUBSET Liberties

-----------------------------------------------------------------------------
(* The kernel. *)

Free(fd) == fd \in Fds /\ files[fd] = Nil

\* open(2), socket(2), timerfd_create(2): the lowest free number
LowestFree(fd) == Free(fd) /\ \A g \in Fds : Free(g) => fd <= g

\* Some condition of an open file comes to hold.
BecomeReady(h) ==
  /\ fdOf[h] # Nil /\ files[fdOf[h]] = h
  /\ \E c \in Conditions \ ready[h] :
       ready' = [ready EXCEPT ![h] = @ \cup {c}]
  /\ UNCHANGED <<files, interest, tableVars, immediates, pollVars, pc, fdOf,
                 nextTicket, enrolled, program>>

\* EPOLLERR and EPOLLHUP ("hup") are reported whatever the mask asks for.
Pending(fd) ==
  IF interest[fd] = Nil \/ files[fd] = Nil THEN {}
  ELSE ready[files[fd]] \cap (interest[fd] \cup {"hup"})

Deliverable == {fd \in Fds : Pending(fd) # {}}

EventOf(fd) == [fd |-> fd, mask |-> Pending(fd), for |-> files[fd]]

\* What one epoll_wait may put in the buffer: as many of the deliverable
\* descriptors as fit, each once, in any order.
Batches ==
  LET n == IF Cardinality(Deliverable) < MaxEvents
             THEN Cardinality(Deliverable) ELSE MaxEvents
  IN  {[i \in 1..n |-> EventOf(s[i])] :
         s \in {t \in [1..n -> Deliverable] :
                  \A i, j \in 1..n : i # j => t[i] # t[j]}}

-----------------------------------------------------------------------------
(* Slips: definitions below with one mistake each, the kind an edit of the *)
(* code could make.  No specification uses them; the properties must       *)
(* notice every one of them.                                               *)

\* remove without its test of the callback table
LoopRemoveUnguarded(fd) ==
  /\ callbacks' = [callbacks EXCEPT ![fd] = Nil]
  /\ errors' = [errors EXCEPT ![fd] = Nil]
  /\ size' = size - 1
  /\ interest' = [interest EXCEPT ![fd] = Nil]

\* remove that forgets the error handler
LoopRemoveKeepsError(fd) ==
  /\ callbacks' = [callbacks EXCEPT ![fd] = Nil]
  /\ size' = IF callbacks[fd] = Nil THEN size ELSE size - 1
  /\ interest' = [interest EXCEPT ![fd] = Nil]
  /\ UNCHANGED errors

\* remove that leaves the number to epoll
LoopRemoveKeepsInterest(fd) ==
  /\ callbacks' = [callbacks EXCEPT ![fd] = Nil]
  /\ errors' = [errors EXCEPT ![fd] = Nil]
  /\ size' = IF callbacks[fd] = Nil THEN size ELSE size - 1
  /\ UNCHANGED interest

\* setImmediate that puts the function in front
SetImmediateInFront ==
  /\ Running
  /\ nextTicket < MaxImmediates
  /\ nextTicket' = nextTicket + 1
  /\ immediates' = <<nextTicket + 1>> \o immediates
  /\ UNCHANGED <<kernelVars, tableVars, pollVars, pc, fdOf, enrolled, program>>

\* poll() that does not count the immediates it ran
PollWaitUncounted ==
  /\ pc = "poll"
  /\ size # 0 \/ immediates # <<>>
  /\ immediates = <<>> => Deliverable # {}
  /\ batch' \in Batches
  /\ immLeft' = Len(immediates)
  /\ completions' = Len(batch')
  /\ cutoff' = nextTicket
  /\ pc' = "drain"
  /\ UNCHANGED <<kernelVars, tableVars, immediates, event, self, fdOf,
                 nextTicket, enrolled, program>>

\* poll() that runs immediates until none is queued
RunImmediateToExhaustion ==
  /\ pc = "drain"
  /\ immediates # <<>>
  /\ immLeft' = immLeft - 1
  /\ immediates' = Tail(immediates)
  /\ pc' = "immediate"
  /\ UNCHANGED <<kernelVars, tableVars, batch, completions, event, self, cutoff,
                 fdOf, nextTicket, enrolled, program>>

-----------------------------------------------------------------------------
(* The operations of UnixLoop, as changes of its tables and of the         *)
(* interest list.                                                          *)

\* add: EPOLL_CTL_ADD fails with EEXIST on a number already registered, and
\* then nothing else happens.
LoopAdd(fd, h, m) ==
  \/ /\ interest[fd] # Nil
     /\ UNCHANGED <<interest, tableVars>>
  \/ /\ interest[fd] = Nil
     /\ interest' = [interest EXCEPT ![fd] = m]
     /\ callbacks' = [callbacks EXCEPT ![fd] = h]
     /\ errors' = [errors EXCEPT ![fd] = h]
     /\ size' = size + 1

\* modify: the tables are written before the system call and whatever it
\* returns; EPOLL_CTL_MOD fails with ENOENT on a number not registered.
LoopModify(fd, h, m) ==
  /\ callbacks' = [callbacks EXCEPT ![fd] = h]
  /\ errors' = [errors EXCEPT ![fd] = h]
  /\ interest' = IF interest[fd] = Nil THEN interest
                 ELSE [interest EXCEPT ![fd] = m]
  /\ size' = size

\* remove: guarded by the callback table, not by the kernel.
LoopRemove(fd) ==
  \/ /\ callbacks[fd] = Nil
     /\ UNCHANGED <<interest, tableVars>>
  \/ /\ callbacks[fd] # Nil
     /\ callbacks' = [callbacks EXCEPT ![fd] = Nil]
     /\ errors' = [errors EXCEPT ![fd] = Nil]
     /\ size' = size - 1
     /\ interest' = [interest EXCEPT ![fd] = Nil]

\* Slip: the error branch of poll() without its "continue"
ReturnFallsThrough ==
  /\ \/ /\ pc = "main"
        /\ pc' = "poll"
        /\ UNCHANGED <<interest, tableVars, enrolled>>
     \/ /\ pc \in {"immediate", "event"}
        /\ pc' = "drain"
        /\ UNCHANGED <<interest, tableVars, enrolled>>
     \/ /\ pc = "error"
        /\ pc' = "crashed"
        /\ LoopRemove(event.fd)
        /\ enrolled' = enrolled \ {event.for}
  /\ self' = Nil
  /\ event' = NoEvent
  /\ UNCHANGED <<files, ready, immediates, immLeft, batch, completions, cutoff,
                 fdOf, nextTicket, program>>

\* Slip: poll() removes the number after every event
ReturnRemoves ==
  /\ pc \in {"main", "immediate", "event", "error"}
  /\ pc' = IF pc = "main" THEN "poll" ELSE "drain"
  /\ IF pc \in {"event", "error"} THEN LoopRemove(event.fd)
     ELSE UNCHANGED <<interest, tableVars>>
  /\ enrolled' = IF pc = "error" THEN enrolled \ {event.for} ELSE enrolled
  /\ self' = Nil
  /\ event' = NoEvent
  /\ UNCHANGED <<files, ready, immediates, immLeft, batch, completions, cutoff,
                 fdOf, nextTicket, program>>

-----------------------------------------------------------------------------
(* The program: what the code running between two returns to the loop may  *)
(* do.                                                                     *)

Open(h) ==
  /\ Running
  /\ fdOf[h] = Nil
  /\ pc = "error" => "opens_on_error" \in program
  /\ \E fd \in Fds :
       /\ LowestFree(fd)
       /\ files' = [files EXCEPT ![fd] = h]
       /\ fdOf' = [fdOf EXCEPT ![h] = fd]
  /\ UNCHANGED <<interest, ready, tableVars, immediates, pollVars, pc,
                 nextTicket, enrolled, program>>

IsOpen(h) == fdOf[h] # Nil /\ files[fdOf[h]] = h

Add(h, m) ==
  /\ Running
  /\ IsOpen(h)
  /\ LoopAdd(fdOf[h], h, m)
  /\ enrolled' = enrolled \cup {h}
  /\ UNCHANGED <<files, ready, immediates, pollVars, pc, fdOf, nextTicket,
                 program>>

\* Every caller in the repository modifies a handle it has added and holds
\* open, and for such a handle epoll_ctl succeeds.  A program that did not
\* would have the tables changed by a call that then fails; the one caller
\* that gets there asserts on the result and dies (Fetch!OnConnectedFails).
Modify(h, m) ==
  /\ Running
  /\ h \in enrolled
  /\ IsOpen(h)
  /\ interest[fdOf[h]] # Nil
  /\ LoopModify(fdOf[h], h, m)
  /\ UNCHANGED <<files, ready, immediates, pollVars, pc, fdOf, nextTicket,
                 enrolled, program>>

\* remove(fd) then close(fd), the pair every owner uses to end a handle
\* (UnixTimer.close, close_conn, close_socket).  The fd property survives,
\* so a second call works on whatever holds the number by then.
Close(h) ==
  /\ Running
  /\ fdOf[h] # Nil
  /\ pc # "main" /\ h # self => "closes_others" \in program
  /\ ~IsOpen(h) => "closes_twice" \in program
  /\ LoopRemove(fdOf[h])
  /\ files' = [files EXCEPT ![fdOf[h]] = Nil]
  /\ ready' = IF files[fdOf[h]] = Nil THEN ready
              ELSE [ready EXCEPT ![files[fdOf[h]]] = {}]
  /\ enrolled' = enrolled \ {h}
  /\ UNCHANGED <<immediates, pollVars, pc, fdOf, nextTicket, program>>

SetImmediate ==
  /\ Running
  /\ nextTicket < MaxImmediates
  /\ nextTicket' = nextTicket + 1
  /\ immediates' = Append(immediates, nextTicket + 1)
  /\ UNCHANGED <<kernelVars, tableVars, pollVars, pc, fdOf, enrolled, program>>

\* The callback reads its file empty; one that does not is called again.
Consume ==
  /\ pc = "event"
  /\ ready[self] \cap {"in", "out"} # {}
  /\ ready' = [ready EXCEPT ![self] = @ \ {"in", "out"}]
  /\ UNCHANGED <<files, interest, tableVars, immediates, pollVars, pc, fdOf,
                 nextTicket, enrolled, program>>

Return ==
  /\ \/ /\ pc = "main"
        /\ pc' = "poll"
        /\ UNCHANGED <<interest, tableVars, enrolled>>
     \/ /\ pc \in {"immediate", "event"}
        /\ pc' = "drain"
        /\ UNCHANGED <<interest, tableVars, enrolled>>
     \/ /\ pc = "error"             \* poll() removes the number afterwards
        /\ pc' = "drain"
        /\ LoopRemove(event.fd)
        /\ enrolled' = enrolled \ {event.for}
  /\ self' = Nil
  /\ event' = NoEvent
  /\ UNCHANGED <<files, ready, immediates, immLeft, batch, completions, cutoff,
                 fdOf, nextTicket, program>>

\* An exception of an immediate is swallowed, so it is a Return; one of a
\* callback or an error handler leaves poll() and ends the while loop.
Throw ==
  /\ pc \in {"event", "error"}
  /\ pc' = "threw"
  /\ UNCHANGED <<kernelVars, tableVars, immediates, pollVars, fdOf, nextTicket,
                 enrolled, program>>

-----------------------------------------------------------------------------
(* while (loop.poll() > 0) {} *)

\* poll() finds nothing to wait for and returns 0.
PollNothing ==
  /\ pc = "poll"
  /\ size = 0 /\ immediates = <<>>
  /\ completions' = 0
  /\ pc' = "exited"
  /\ UNCHANGED <<kernelVars, tableVars, immediates, immLeft, batch, event, self,
                 cutoff, fdOf, nextTicket, enrolled, program>>

\* epoll_wait returns.  With immediates queued the timeout is 0, so it
\* returns even when nothing is deliverable; without, it blocks.
PollWait ==
  /\ pc = "poll"
  /\ size # 0 \/ immediates # <<>>
  /\ immediates = <<>> => Deliverable # {}
  /\ batch' \in Batches
  /\ immLeft' = Len(immediates)
  /\ completions' = Len(batch') + Len(immediates)
  /\ cutoff' = nextTicket
  /\ pc' = "drain"
  /\ UNCHANGED <<kernelVars, tableVars, immediates, event, self, fdOf,
                 nextTicket, enrolled, program>>

\* A blocked epoll_wait is interrupted by a signal: -1, and the while loop
\* ends.
PollInterrupted ==
  /\ pc = "poll"
  /\ size # 0 /\ immediates = <<>>
  /\ completions' = -1
  /\ pc' = "exited"
  /\ UNCHANGED <<kernelVars, tableVars, immediates, immLeft, batch, event, self,
                 cutoff, fdOf, nextTicket, enrolled, program>>

\* while (imm_len--) this.immediates.shift()()
RunImmediate ==
  /\ pc = "drain"
  /\ immLeft > 0
  /\ immLeft' = immLeft - 1
  /\ immediates' = Tail(immediates)
  /\ pc' = "immediate"
  /\ UNCHANGED <<kernelVars, tableVars, batch, completions, event, self, cutoff,
                 fdOf, nextTicket, enrolled, program>>

\* The table the loop looks the event's number up in.
Table(e) == IF "hup" \in e.mask THEN errors ELSE callbacks

\* Calling an undefined entry is a TypeError out of poll(): "crashed".
DispatchEvent ==
  /\ pc = "drain"
  /\ immLeft = 0
  /\ batch # <<>>
  /\ event' = Head(batch)
  /\ batch' = Tail(batch)
  /\ self' = Table(Head(batch))[Head(batch).fd]
  /\ \/ /\ self' = Nil
        /\ pc' = "crashed"
     \/ /\ self' # Nil
        /\ pc' = IF "hup" \in Head(batch).mask THEN "error" ELSE "event"
  /\ UNCHANGED <<kernelVars, tableVars, immediates, immLeft, completions, cutoff,
                 fdOf, nextTicket, enrolled, program>>

PollReturn ==
  /\ pc = "drain"
  /\ immLeft = 0
  /\ batch = <<>>
  /\ pc' = IF completions > 0 THEN "poll" ELSE "exited"
  /\ completions' = 0
  /\ cutoff' = 0
  /\ UNCHANGED <<kernelVars, tableVars, immediates, immLeft, batch, event, self,
                 fdOf, nextTicket, enrolled, program>>

Terminated ==
  /\ pc \in {"exited", "threw", "crashed"}
  /\ UNCHANGED vars

Kernel == \E h \in Handles : BecomeReady(h)

Program ==
  \/ \E h \in Handles : Open(h) \/ Close(h)
  \/ \E h \in Handles, m \in Masks : Add(h, m) \/ Modify(h, m)
  \/ SetImmediate
  \/ Consume
  \/ Return
  \/ Throw

Poll ==
  \/ PollNothing
  \/ PollWait
  \/ RunImmediate
  \/ DispatchEvent
  \/ PollReturn

Next == Kernel \/ Program \/ Poll \/ PollInterrupted \/ Terminated

Spec == Init /\ [][Next]_vars

\* Scheduling the process justifies: the thread runs whenever it can, and a
\* callback returns.  Nothing is assumed of the kernel, of signals or of the
\* other things a program may do.
Fairness == WF_vars(Poll) /\ WF_vars(Return)

FairSpec == Spec /\ Fairness

-----------------------------------------------------------------------------
(* Properties. *)

TypeOK ==
  /\ files \in [Fds -> Handles \cup {Nil}]
  /\ interest \in [Fds -> Masks \cup {Nil}]
  /\ ready \in [Handles -> SUBSET Conditions]
  /\ callbacks \in [Fds -> Handles \cup {Nil}]
  /\ errors \in [Fds -> Handles \cup {Nil}]
  /\ size \in Int
  /\ immediates \in Seq(Nat)
  /\ immLeft \in Nat
  /\ batch \in Seq(Event)
  /\ completions \in Int
  /\ pc \in {"main", "poll", "drain", "immediate", "event", "error",
             "exited", "threw", "crashed"}
  /\ event \in Event \cup {NoEvent}
  /\ self \in Handles \cup {Nil}
  /\ fdOf \in [Handles -> Fds \cup {Nil}]
  /\ nextTicket \in Nat
  /\ cutoff \in Nat
  /\ enrolled \subseteq Handles
  /\ program \in SUBSET Liberties

\* poll() decides from #size whether there is anything to wait for, so #size
\* must count the registered numbers exactly: one too few and the process
\* exits with work left, one too many and it never exits.  Whatever order
\* adds, failed adds, removes, error events and foreign closes come in.
SizeCountsRegistrations == size = Cardinality(Registered)

\* The two tables of the loop, the interest list of the kernel and the
\* descriptor table agree: epoll watches exactly the numbers the loop has
\* callbacks for, each is open, and its closures are those of the handle
\* that owns the number now, not of one that owned it before.
TablesAgree ==
  \A fd \in Fds :
    /\ (callbacks[fd] = Nil) = (interest[fd] = Nil)
    /\ errors[fd] = callbacks[fd]
    /\ callbacks[fd] \in {Nil, files[fd]}

\* When the while loop ends because poll() returned 0, nothing is
\* registered and no immediate is queued: no program is abandoned.
ExitsOnlyWhenIdle ==
  pc = "exited" /\ completions = 0 => Registered = {} /\ immediates = <<>>

\* An immediate queued while poll() runs, by a callback or by another
\* immediate, waits for the next poll(): it never runs in the one it was
\* queued in, so immediates that requeue themselves cannot starve I/O.
ImmediatesDeferred ==
  [][pc = "drain" /\ pc' = "immediate" => Head(immediates) <= cutoff]_vars

\* poll() owes exactly the immediates it found, in the order they were
\* queued: none is skipped or run twice.
ImmediatesInOrder ==
  /\ \A i \in 1..Len(immediates) :
       immediates[i] = nextTicket - Len(immediates) + i
  /\ immLeft <= Len(immediates)

\* A program whose callbacks close only the handle they run for is safe from
\* the batch: no event of it finds its callback gone, and each reaches the
\* handle it was reported for, although descriptor numbers are reused.
EventsReachTheirHandle ==
  "closes_others" \notin program =>
    /\ pc # "crashed"
    /\ pc \in {"event", "error"} => self = event.for

\* A program that takes no liberty keeps every registration it made, until
\* it closes the handle or the loop reports an error on it.
RegistrationsKept ==
  program = {} =>
    \A h \in enrolled : IsOpen(h) /\ callbacks[fdOf[h]] = h

\* What test/timer.js:13-15 asserts after "while (loop.poll() > 0) {}":
\* loop.size === 0.  poll() also returns -1, when epoll_wait is interrupted,
\* and then the while loop ends with everything still registered.
SizeZeroAfterLoop == pc = "exited" => size = 0

\* Handles as HandleLoop knows them, and the batch as events for handles.
OpenHandles == {h \in Handles : IsOpen(h)}
Watched == {callbacks[fd] : fd \in Registered}
Due == [i \in 1..Len(batch) |->
          [to |-> batch[i].for, failed |-> "hup" \in batch[i].mask]]

H == INSTANCE HandleLoop WITH open <- OpenHandles, watched <- Watched,
       due <- Due, queued <- Len(immediates), owed <- immLeft,
       running <- self

\* The loop with its tables of numbers, its count and its batch of numbers
\* keeps the promise of HandleLoop, which knows handles only: what it
\* watches, delivers, forgets and waits for is what the program asked for,
\* except as far as the program's own liberties say.
ImplementsHandleLoop == H!Spec

\* Every immediate runs, unless an exception ended the loop first.
ImmediatesRun ==
  \A t \in 1..MaxImmediates :
    (t \in {immediates[i] : i \in 1..Len(immediates)})
      ~> \/ t \notin {immediates[i] : i \in 1..Len(immediates)}
         \/ pc \in {"threw", "crashed"}
=============================================================================
