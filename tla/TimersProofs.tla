---------------------------- MODULE TimersProofs ----------------------------
(***************************************************************************)
(* Proofs about Timers for any descriptor numbers, number of timers and    *)
(* kinds of timers, and for every program.                                 *)
(*                                                                         *)
(* Here the tables of the loop are the descriptor table, because a timer   *)
(* is opened and added, removed and closed in one operation.  The rest is  *)
(* about time: which number a batch still names while callbacks close and  *)
(* create timers, and which stage a timer that is still open is from.      *)
(***************************************************************************)
EXTENDS Timers, FiniteSetTheorems, SequenceTheorems, TLAPS

OpenFds == {fd \in Fds : files[fd] # Nil}

(* The loop's tables, its count and the interest list follow files.        *)
TablesOK ==
  /\ files \in [Fds -> Timers \cup {Nil}]
  /\ callbacks = files /\ errors = files
  /\ interest = [fd \in Fds |-> IF files[fd] = Nil THEN Nil ELSE {"in"}]
  /\ size = Cardinality(OpenFds)

ClockOK ==
  /\ left \in [Timers -> Nat] /\ every \in [Timers -> Nat]
  /\ unread \in [Timers -> BOOLEAN]
  /\ expired \subseteq Timers
  /\ \A t \in Timers : unread[t] => t \in expired

TasksOK ==
  /\ task \in [Tasks -> {"new", "called", "resumed", "waiting", "done", "rejected"}]
  /\ awaits \in [Tasks -> Timers \cup {Nil}]

(* A timer has the number it remembers or none, and a past only if it was  *)
(* created.                                                                *)
NumbersInv ==
  /\ fdOf \in [Timers -> Fds \cup {Nil}]
  /\ \A fd \in Fds : files[fd] # Nil => fdOf[files[fd]] = fd
  /\ once \cup rang \cup cleared \subseteq {t \in Timers : Created(t)}

(* What each value of pc says about poll() and the program.                *)
ControlInv ==
  /\ pc \in {"main", "poll", "drain", "event", "callback", "exited", "threw",
             "crashed"}
  /\ stage \in {"outer", "micro", "inner", "late", "exited", "failed"}
  /\ self \in Timers \cup {Nil}
  /\ Busy => pc = "main"
  /\ stage \in {"micro", "late", "exited"} => pc = "main"
  /\ pc \in {"main", "poll", "exited"} => batch = <<>>
  /\ pc \in {"drain", "event", "callback"} => completions > 0
  /\ pc \in {"event", "callback"} => self \in Timers /\ Created(self)
  /\ pc = "event" => files[fdOf[self]] = self
  /\ completions \in Nat

(* While a batch is dispatched, a program whose callbacks close only their *)
(* own timer leaves each number in it with the timer it was collected for. *)
BatchInv ==
  /\ batch \in Seq(Loop!Event)
  /\ \A i \in 1..Len(batch) : "hup" \notin batch[i].mask
  /\ "closes_others" \notin program =>
       /\ pc # "crashed"
       /\ pc \in {"event", "callback"} =>
            \A i \in 1..Len(batch) : batch[i].fd # fdOf[self]
       /\ pc = "event" => self \in expired
       /\ \A i \in 1..Len(batch) : /\ files[batch[i].fd] = batch[i].for
                                   /\ batch[i].for \in expired
       /\ \A i, j \in 1..Len(batch) : i # j => batch[i].fd # batch[j].fd

(* A loop that has ended leaves no timer, so that what is open afterwards  *)
(* was created in the stage that follows it.                               *)
StageInv ==
  /\ pc = "exited" => OpenFds = {}
  /\ stage = "micro" => \A t \in Timers : IsOpen(t) => born[t] = "micro"
  /\ stage = "late" => \A t \in Timers : IsOpen(t) => born[t] = "late"
  /\ born \in [Timers -> {"outer", "micro", "inner", "late", "exited", "failed", Nil}]

IInv ==
  /\ TablesOK
  /\ ClockOK
  /\ TasksOK
  /\ NumbersInv
  /\ ControlInv
  /\ BatchInv
  /\ StageInv
  /\ LiveTimersHeld
  /\ ExitLosesOnlyLateTimers

-----------------------------------------------------------------------------
(* Tables. *)

LEMMA Constants ==
  /\ IsFiniteSet(Fds) /\ Fds \subseteq Nat
  /\ Nil \notin Fds /\ Nil \notin Timers /\ Nil # {"in"}
  /\ Timers \subseteq Nat
  BY TimersAssumption DEF TimersAssumption, Timers

LEMMA OpenFdsFinite ==
  /\ IsFiniteSet(OpenFds)
  /\ Cardinality(OpenFds) \in 0..Cardinality(Fds)
  /\ Cardinality(OpenFds) = 0 <=> OpenFds = {}
<1>1. OpenFds \subseteq Fds
  BY DEF OpenFds
<1>2. /\ IsFiniteSet(OpenFds)
      /\ Cardinality(OpenFds) <= Cardinality(Fds)
  BY <1>1, Constants, FS_Subset
<1>3. Cardinality(OpenFds) \in Nat /\ Cardinality(Fds) \in Nat
  BY <1>2, Constants, FS_CardinalityType
<1> QED
  BY <1>2, <1>3, FS_EmptySet

\* The types that TypeOK asks of the tables.
LEMMA TablesTyped ==
  ASSUME TablesOK
  PROVE  /\ interest \in [Fds -> {{"in"}, Nil}]
         /\ callbacks \in [Fds -> Timers \cup {Nil}]
         /\ size \in 0..Cardinality(Fds)
  BY OpenFdsFinite DEF TablesOK

\* Nothing happens to the tables when nothing happens to the numbers.
LEMMA TablesUnchanged ==
  ASSUME TablesOK, UNCHANGED <<files, interest, callbacks, errors, size>>
  PROVE  TablesOK' /\ OpenFds' = OpenFds
  BY DEF TablesOK, OpenFds

\* loop.add of a number that was free until it was opened.
LEMMA AddOK ==
  ASSUME TablesOK, NEW fd \in Fds, NEW t \in Timers, files[fd] = Nil,
         files' = [files EXCEPT ![fd] = t], Loop!LoopAdd(fd, t, {"in"})
  PROVE  TablesOK'
<1>1. interest[fd] = Nil
  BY DEF TablesOK
<1>2. /\ interest' = [interest EXCEPT ![fd] = {"in"}]
      /\ callbacks' = [callbacks EXCEPT ![fd] = t]
      /\ errors' = [errors EXCEPT ![fd] = t]
      /\ size' = size + 1
  BY <1>1 DEF Loop!LoopAdd
<1>3. OpenFds' = OpenFds \cup {fd} /\ fd \notin OpenFds
  BY Constants DEF OpenFds, TablesOK
<1>4. size' = Cardinality(OpenFds')
  BY <1>2, <1>3, OpenFdsFinite, FS_AddElement DEF TablesOK
<1>5. interest' = [g \in Fds |-> IF files'[g] = Nil THEN Nil ELSE {"in"}]
  BY <1>2, Constants DEF TablesOK
<1> QED
  BY <1>2, <1>4, <1>5 DEF TablesOK

\* close(), whether or not the number is anybody's.
LEMMA CloseOK ==
  ASSUME TablesOK, ClockOK, NEW fd \in Fds, CloseNumber(fd)
  PROVE  /\ TablesOK'
         /\ files' = [files EXCEPT ![fd] = Nil]
         /\ left' \in [Timers -> Nat] /\ every' \in [Timers -> Nat]
<1>1. files' = [files EXCEPT ![fd] = Nil]
  BY DEF CloseNumber
<1>2. left' \in [Timers -> Nat] /\ every' \in [Timers -> Nat]
  BY DEF CloseNumber, ClockOK
<1>3. CASE files[fd] = Nil
  <2>1. files' = files
    BY <1>1, <1>3 DEF TablesOK
  <2>2. UNCHANGED <<interest, callbacks, errors, size>>
    BY <1>3 DEF CloseNumber, Loop!LoopRemove, Loop!tableVars, TablesOK
  <2> QED
    BY <1>1, <1>2, <2>1, <2>2, TablesUnchanged
<1>4. CASE files[fd] # Nil
  <2>1. /\ callbacks' = [callbacks EXCEPT ![fd] = Nil]
        /\ errors' = [errors EXCEPT ![fd] = Nil]
        /\ size' = size - 1
        /\ interest' = [interest EXCEPT ![fd] = Nil]
    BY <1>4 DEF CloseNumber, Loop!LoopRemove, TablesOK
  <2>2. OpenFds' = OpenFds \ {fd} /\ fd \in OpenFds
    BY <1>1, <1>4 DEF OpenFds, TablesOK
  <2>3. size' = Cardinality(OpenFds')
    BY <2>1, <2>2, OpenFdsFinite, FS_RemoveElement DEF TablesOK
  <2>4. interest' = [g \in Fds |-> IF files'[g] = Nil THEN Nil ELSE {"in"}]
    BY <1>1, <2>1 DEF TablesOK
  <2>5. files' \in [Fds -> Timers \cup {Nil}]
    BY <1>1 DEF TablesOK
  <2> QED
    BY <1>1, <1>2, <2>1, <2>3, <2>4, <2>5 DEF TablesOK
<1> QED
  BY <1>3, <1>4

-----------------------------------------------------------------------------
(* IInv is inductive. *)

LEMMA InitIInv == Init => IInv
<1> SUFFICES ASSUME Init PROVE IInv
  OBVIOUS
<1>1. OpenFds = {}
  BY DEF Init, OpenFds
<1>2. TablesOK
  BY <1>1, OpenFdsFinite DEF Init, TablesOK
<1>3. ControlInv
  BY DEF Init, ControlInv, Tasks, Busy, Runs, Over
<1>4. BatchInv
  BY DEF Init, BatchInv
<1>5. \A t \in Timers : ~Created(t)
  BY DEF Init, Created
<1>6. LiveTimersHeld
  BY <1>2, <1>5, Constants DEF Init, LiveTimersHeld, TablesOK
<1> QED
  BY <1>1, <1>2, <1>3, <1>4, <1>5, <1>6 DEF Init, IInv, ClockOK, TasksOK,
     NumbersInv, StageInv, ExitLosesOnlyLateTimers, IsOpen, Tasks

\* The instance of EventLoop counts as FiniteSets does.
LEMMA LoopCardinality == \A S : Loop!Cardinality(S) = Cardinality(S)
  BY DEF Loop!Cardinality, Cardinality

\* What epoll_wait hands over: well-formed events, each for an open timer
\* that has expired, no number twice, and at least one if any is deliverable.
LEMMA BatchesOK ==
  ASSUME TablesOK, ClockOK, NEW s \in Loop!Batches
  PROVE  /\ s \in Seq(Loop!Event)
         /\ \A i \in 1..Len(s) : /\ files[s[i].fd] = s[i].for
                                 /\ s[i].for \in expired
                                 /\ "hup" \notin s[i].mask
         /\ \A i, j \in 1..Len(s) : i # j => s[i].fd # s[j].fd
         /\ Loop!Deliverable # {} => Len(s) > 0
<1> DEFINE n == IF Cardinality(Loop!Deliverable) < Cardinality(Fds)
                  THEN Cardinality(Loop!Deliverable) ELSE Cardinality(Fds)
<1>1. /\ Loop!Deliverable \subseteq Fds
      /\ IsFiniteSet(Loop!Deliverable)
  BY Constants, FS_Subset DEF Loop!Deliverable
<1>2. n \in Nat /\ (Loop!Deliverable # {} => n > 0)
  BY <1>1, Constants, FS_CardinalityType, FS_EmptySet
<1>3. PICK t \in [1..n -> Loop!Deliverable] :
        /\ \A i, j \in 1..n : i # j => t[i] # t[j]
        /\ s = [i \in 1..n |-> Loop!EventOf(t[i])]
  BY LoopCardinality DEF Loop!Batches
<1>4. ASSUME NEW fd \in Loop!Deliverable
      PROVE  /\ Loop!EventOf(fd) \in Loop!Event
             /\ Loop!EventOf(fd).fd = fd
             /\ files[fd] = Loop!EventOf(fd).for
             /\ Loop!EventOf(fd).for \in expired
             /\ "hup" \notin Loop!EventOf(fd).mask
  <2>1. fd \in Fds /\ files[fd] \in Timers
    BY DEF Loop!Deliverable, Loop!Pending, TablesOK
  <2>2. Loop!Pending(fd) \subseteq Ready[files[fd]] /\ Loop!Pending(fd) # {}
    BY <2>1 DEF Loop!Deliverable, Loop!Pending
  <2>3. unread[files[fd]] /\ Loop!Pending(fd) \subseteq {"in"}
    BY <2>1, <2>2 DEF Ready
  <2> QED
    BY <2>1, <2>3 DEF Loop!EventOf, Loop!Event, ClockOK
<1>5. Len(s) = n /\ s \in Seq(Loop!Event)
  BY <1>2, <1>3, <1>4
<1> QED
  BY <1>2, <1>3, <1>4, <1>5

LEMMA BatchTyped ==
  ASSUME BatchInv
  PROVE  \A i \in 1..Len(batch) : /\ batch[i].fd \in Fds
                                  /\ batch[i].for \in Timers
                                  /\ batch[i] \in Loop!Event
<1>1. batch \in Seq(Loop!Event)
  BY DEF BatchInv
<1>2. \A i \in 1..Len(batch) : batch[i] \in Loop!Event
  BY <1>1
<1> QED
  BY <1>2 DEF Loop!Event

\* A step of the thread that leaves tables, clock and batch as they are
\* keeps what is said about them.
LEMMA NoTimerTouched ==
  ASSUME IInv, UNCHANGED <<files, interest, callbacks, errors, size>>,
         UNCHANGED <<timerVars, fdOf, once, rang, cleared, born, program>>
  PROVE  /\ TablesOK' /\ ClockOK' /\ NumbersInv' /\ LiveTimersHeld'
         /\ OpenFds' = OpenFds
         /\ \A t \in Timers : IsOpen(t)' = IsOpen(t)
<1>1. TablesOK' /\ OpenFds' = OpenFds
  BY TablesUnchanged DEF IInv
<1>2. ClockOK' /\ NumbersInv' /\ LiveTimersHeld'
  BY DEF IInv, ClockOK, timerVars, NumbersInv, LiveTimersHeld, Created, IsOpen
<1> QED
  BY <1>1, <1>2 DEF IsOpen, Created

LEMMA TickKeepsIInv == ASSUME IInv, Tick PROVE IInv'
<1> USE DEF loopVars, progVars
<1>1. TablesOK' /\ OpenFds' = OpenFds
  BY TablesUnchanged DEF IInv, Tick
<1>2. ClockOK'
  BY DEF IInv, ClockOK, Tick
<1>3. NumbersInv' /\ LiveTimersHeld' /\ TasksOK'
  BY DEF IInv, Tick, NumbersInv, LiveTimersHeld, Created, IsOpen, TasksOK
<1>4. ControlInv'
  BY DEF IInv, Tick, ControlInv, Busy, Runs, Over, Created
<1>5. BatchInv'
  BY BatchTyped DEF IInv, Tick, BatchInv
<1>6. StageInv' /\ ExitLosesOnlyLateTimers'
  BY <1>1 DEF IInv, Tick, StageInv, ExitLosesOnlyLateTimers, IsOpen, Created
<1> QED
  BY <1>1, <1>2, <1>3, <1>4, <1>5, <1>6 DEF IInv

LEMMA PollKeepsIInv == ASSUME IInv, Poll PROVE IInv'
<1> USE DEF Loop!kernelVars, Loop!tableVars
<1>1. UNCHANGED <<files, interest, callbacks, errors, size>>
  BY DEF Poll, Loop!PollNothing, Loop!PollWait, Loop!DispatchEvent,
         Loop!PollReturn
<1>2. UNCHANGED <<timerVars, progVars, stage, program>>
  BY DEF Poll
<1>3. /\ TablesOK' /\ ClockOK' /\ NumbersInv' /\ LiveTimersHeld'
      /\ OpenFds' = OpenFds
      /\ \A t \in Timers : IsOpen(t)' = IsOpen(t)
  BY <1>1, <1>2, NoTimerTouched DEF progVars
<1>4. TasksOK' /\ ExitLosesOnlyLateTimers'
  BY <1>2, <1>3 DEF IInv, progVars, TasksOK, ExitLosesOnlyLateTimers
<1>5. ControlInv' /\ BatchInv' /\ StageInv'
  <2> USE <1>2 DEF progVars, Busy, Runs, Over, Created
  <2>1. CASE Loop!PollNothing
    <3>1. OpenFds = {}
      BY <2>1, OpenFdsFinite DEF Loop!PollNothing, IInv, TablesOK
    <3>2. ControlInv'
      BY <2>1 DEF Loop!PollNothing, IInv, ControlInv
    <3>3. BatchInv'
      BY <2>1, <1>1 DEF Loop!PollNothing, IInv, BatchInv, ControlInv, timerVars
    <3> QED
      BY <1>3, <2>1, <3>1, <3>2, <3>3 DEF Loop!PollNothing, IInv, StageInv,
         ControlInv
  <2>2. CASE Loop!PollWait
    <3>1. /\ batch' \in Seq(Loop!Event)
          /\ \A i \in 1..Len(batch') : /\ files[batch'[i].fd] = batch'[i].for
                                       /\ batch'[i].for \in expired
                                       /\ "hup" \notin batch'[i].mask
          /\ \A i, j \in 1..Len(batch') : i # j => batch'[i].fd # batch'[j].fd
          /\ Len(batch') > 0
      BY <2>2, BatchesOK DEF Loop!PollWait, IInv
    <3>2. completions' \in Nat /\ completions' > 0
      BY <2>2, <3>1 DEF Loop!PollWait
    <3>3. ControlInv'
      BY <2>2, <3>2 DEF Loop!PollWait, IInv, ControlInv
    <3>4. BatchInv'
      BY <2>2, <3>1, <1>1 DEF Loop!PollWait, BatchInv, timerVars
    <3> QED
      BY <1>3, <2>2, <3>3, <3>4 DEF Loop!PollWait, IInv, StageInv, ControlInv
  <2>3. CASE Loop!DispatchEvent
    <3> DEFINE e == Head(batch)
    <3>1. batch \in Seq(Loop!Event) /\ batch # <<>>
      BY <2>3 DEF Loop!DispatchEvent, IInv, BatchInv
    <3>2. /\ e = batch[1] /\ 1 \in 1..Len(batch)
          /\ batch' = Tail(batch) /\ batch' \in Seq(Loop!Event)
          /\ Len(batch') = Len(batch) - 1 /\ Len(batch) \in Nat
          /\ \A i \in 1..Len(batch') : /\ batch'[i] = batch[i + 1]
                                       /\ i + 1 \in 1..Len(batch)
      BY <2>3, <3>1 DEF Loop!DispatchEvent
    <3>3. e.fd \in Fds /\ e.for \in Timers /\ "hup" \notin e.mask
      BY <3>2, BatchTyped DEF IInv, BatchInv
    <3>4. self' = files[e.fd]
      BY <2>3, <3>3 DEF Loop!DispatchEvent, Loop!Table, IInv, TablesOK
    <3>5. self' # Nil => self' \in Timers /\ fdOf[self'] = e.fd
      BY <3>3, <3>4 DEF IInv, TablesOK, NumbersInv
    <3>6. ControlInv'
      BY <2>3, <3>3, <3>4, <3>5, <1>1, Constants
         DEF Loop!DispatchEvent, IInv, ControlInv
    <3>7. BatchInv'
      <4>1. \A i \in 1..Len(batch') : "hup" \notin batch'[i].mask
        BY <3>2 DEF IInv, BatchInv
      <4>2. ASSUME "closes_others" \notin program
            PROVE  /\ self' = e.for /\ self' # Nil /\ self' \in expired
                   /\ \A i \in 1..Len(batch') : batch'[i].fd # e.fd
                   /\ \A i, j \in 1..Len(batch') :
                        i # j => batch'[i].fd # batch'[j].fd
                   /\ \A i \in 1..Len(batch') :
                        /\ files[batch'[i].fd] = batch'[i].for
                        /\ batch'[i].for \in expired
        BY <4>2, <3>2, <3>3, <3>4, Constants DEF IInv, BatchInv
      <4> QED
        BY <2>3, <3>2, <3>3, <3>5, <4>1, <4>2, <1>1
           DEF Loop!DispatchEvent, BatchInv, timerVars
    <3> QED
      BY <1>3, <2>3, <3>6, <3>7 DEF Loop!DispatchEvent, IInv, StageInv,
         ControlInv
  <2>4. CASE Loop!PollReturn
    <3>1. pc' = "poll" /\ batch = <<>> /\ completions' = 0
      BY <2>4 DEF Loop!PollReturn, IInv, ControlInv
    <3>2. ControlInv'
      BY <2>4, <3>1 DEF Loop!PollReturn, IInv, ControlInv
    <3>3. BatchInv'
      BY <2>4, <3>1, <1>1 DEF Loop!PollReturn, IInv, BatchInv, timerVars
    <3> QED
      BY <1>3, <3>1, <3>2, <3>3 DEF IInv, StageInv
  <2> QED
    BY <2>1, <2>2, <2>3, <2>4 DEF Poll
<1> QED
  BY <1>3, <1>4, <1>5 DEF IInv

LEMMA NewTimerKeepsIInv ==
  ASSUME IInv, NEW kind \in Kinds, NewTimer(kind) PROVE IInv'
<1>1. PICK t \in Timers, fd \in Fds :
        /\ ~Created(t)
        /\ files[fd] = Nil
        /\ files' = [files EXCEPT ![fd] = t]
        /\ fdOf' = [fdOf EXCEPT ![t] = fd]
        /\ left' = [left EXCEPT ![t] = kind.repeat]
        /\ every' = [every EXCEPT ![t] = kind.timeout]
        /\ Loop!LoopAdd(fd, t, {"in"})
        /\ once' = IF kind.once THEN once \cup {t} ELSE once
        /\ born' = [born EXCEPT ![t] = stage]
  BY DEF NewTimer, Loop!LowestFree, Loop!Free
<1>2. /\ Running
      /\ UNCHANGED <<batch, completions, pc, event, self, unread, expired, rang,
                     task, awaits, cleared, stage, command, program>>
  BY DEF NewTimer
<1>3. TablesOK'
  BY <1>1, AddOK DEF IInv
<1>4. kind.repeat \in Nat /\ kind.timeout \in Nat
  BY TimersAssumption DEF TimersAssumption, Kind
<1>5. ClockOK' /\ TasksOK'
  BY <1>1, <1>2, <1>4 DEF IInv, ClockOK, TasksOK
<1>6. /\ fdOf' \in [Timers -> Fds \cup {Nil}]
      /\ fdOf'[t] = fd
      /\ \A u \in Timers : u # t => fdOf'[u] = fdOf[u]
      /\ \A u \in Timers : Created(u) => u # t /\ Created(u)'
      /\ Created(t)'
  BY <1>1, Constants DEF IInv, NumbersInv, Created
<1>7. /\ files'[fd] = t
      /\ \A g \in Fds : g # fd => files'[g] = files[g]
      /\ \A g \in Fds : files[g] # t
      /\ \A u \in Timers : Created(u) => fdOf[u] \in Fds
  BY <1>1, Constants DEF IInv, TablesOK, NumbersInv, Created
<1>8. NumbersInv'
  <2>1. ASSUME NEW g \in Fds, files'[g] # Nil PROVE fdOf'[files'[g]] = g
    BY <2>1, <1>6, <1>7 DEF IInv, NumbersInv, TablesOK
  <2>2. once' \cup rang' \cup cleared' \subseteq {u \in Timers : Created(u)'}
    BY <1>1, <1>2, <1>6 DEF IInv, NumbersInv
  <2> QED
    BY <1>6, <2>1, <2>2 DEF NumbersInv, Created
<1>9. ControlInv'
  BY <1>2, <1>6, <1>7 DEF IInv, ControlInv, Busy, Runs, Over, Running, InCallback, Created
<1>10. \A u \in Timers : u # t => IsOpen(u)' = IsOpen(u)
  BY <1>1, <1>6, <1>7, Constants DEF IsOpen, Created
<1>11. BatchInv'
  <2>1. batch' = batch /\ self' = self /\ pc' = pc
    BY <1>2
  <2>2. pc = "callback" => fdOf'[self] = fdOf[self]
    BY <1>6 DEF IInv, ControlInv
  <2>3. ASSUME NEW i \in 1..Len(batch), "closes_others" \notin program
        PROVE  files'[batch[i].fd] = batch[i].for
    BY <2>3, <1>1, <1>7, BatchTyped, Constants DEF IInv, BatchInv
  <2>4. pc # "event"
    BY <1>2 DEF IInv, ControlInv, Running, InCallback, Busy, Runs, Over
  <2> QED
    BY <1>2, <2>2, <2>3, <2>4 DEF IInv, BatchInv
<1>12. StageInv'
  <2>1. pc # "exited"
    BY <1>2 DEF IInv, ControlInv, Running, InCallback, Busy, Runs, Over
  <2>2. born' \in [Timers -> {"outer", "micro", "inner", "late", "exited",
                              "failed", Nil}]
    BY <1>1 DEF IInv, StageInv, ControlInv
  <2>3. born'[t] = stage /\ \A u \in Timers : u # t => born'[u] = born[u]
    BY <1>1 DEF IInv, StageInv
  <2> QED
    BY <1>2, <1>10, <2>1, <2>2, <2>3 DEF IInv, StageInv
<1>13. LiveTimersHeld'
  <2>1. t \notin cleared /\ t \notin rang
    BY <1>1 DEF IInv, NumbersInv
  <2>2. ASSUME NEW u \in Timers, u # t
        PROVE  /\ u \in cleared' \/ u \in once' \cap rang'
                    <=> u \in cleared \/ u \in once \cap rang
               /\ Created(u)' = Created(u) /\ IsOpen(u)' = IsOpen(u)
               /\ \A g \in Fds : u = files'[g] <=> u = files[g] /\ g # fd
               /\ files[fd] # u
    BY <2>2, <1>1, <1>2, <1>6, <1>7, <1>10, Constants DEF Created
  <2>3. IsOpen(t)' /\ files'[fdOf'[t]] = t
    BY <1>6, <1>7 DEF IsOpen, Created
  <2>4. \A u \in Timers : IsOpen(u)' => files'[fdOf'[u]] = u
    BY DEF IsOpen
  <2>5. callbacks' = files'
    BY <1>3 DEF TablesOK
  <2> QED
    BY <1>2, <2>1, <2>2, <2>3, <2>4, <2>5 DEF IInv, LiveTimersHeld, TablesOK
<1>14. ExitLosesOnlyLateTimers'
  BY <1>2 DEF IInv, ControlInv, Running, InCallback, Busy, Runs, Over, ExitLosesOnlyLateTimers
<1> QED
  BY <1>3, <1>5, <1>8, <1>9, <1>11, <1>12, <1>13, <1>14 DEF IInv

\* What a close of timer t's number, open or not, does to the timers.
LEMMA CloseTimerOK ==
  ASSUME IInv, NEW t \in Timers, Created(t), CloseNumber(fdOf[t]), fdOf' = fdOf,
         IsOpen(t) \/ "closes_twice" \in program
  PROVE  /\ \A u \in Timers : IsOpen(u)' => IsOpen(u)
         /\ OpenFds' \subseteq OpenFds
         /\ \A g \in Fds : g # fdOf[t] => files'[g] = files[g]
         /\ \A g \in Fds : files'[g] # t
         /\ \A g \in Fds : files'[g] \in {files[g], Nil}
         /\ \A u \in Timers :
              IsOpen(u) /\ u # t /\ "closes_twice" \notin program => IsOpen(u)'
<1>1. fdOf[t] \in Fds /\ fdOf \in [Timers -> Fds \cup {Nil}]
  BY DEF IInv, NumbersInv, Created
<1>2. files' = [files EXCEPT ![fdOf[t]] = Nil]
  BY <1>1, CloseOK DEF IInv
<1>3. \A g \in Fds : files[g] = t => g = fdOf[t]
  BY Constants DEF IInv, NumbersInv
<1> QED
  BY <1>1, <1>2, <1>3, Constants DEF IInv, TablesOK, IsOpen, Created, OpenFds

LEMMA ClearKeepsIInv ==
  ASSUME IInv, NEW t \in Timers, Clear(t) PROVE IInv'
<1>1. /\ Running /\ Created(t) /\ CloseNumber(fdOf[t])
      /\ pc = "callback" /\ t # self => "closes_others" \in program
      /\ ~IsOpen(t) => "closes_twice" \in program
      /\ unread' = [u \in Timers |-> unread[u] /\ files[fdOf[t]] # u]
      /\ cleared' = cleared \cup {t}
      /\ UNCHANGED <<batch, completions, pc, event, self, expired, fdOf, once,
                     rang, task, awaits, born, stage, command, program>>
  BY DEF Clear
<1>2. fdOf[t] \in Fds
  BY <1>1 DEF IInv, NumbersInv, Created
<1>3. TablesOK' /\ left' \in [Timers -> Nat] /\ every' \in [Timers -> Nat]
  BY <1>1, <1>2, CloseOK DEF IInv
<1>4. ClockOK' /\ TasksOK'
  BY <1>1, <1>3 DEF IInv, ClockOK, TasksOK
<1>5. /\ \A u \in Timers : IsOpen(u)' => IsOpen(u)
      /\ OpenFds' \subseteq OpenFds
      /\ \A g \in Fds : g # fdOf[t] => files'[g] = files[g]
      /\ \A g \in Fds : files'[g] # t
      /\ \A g \in Fds : files'[g] \in {files[g], Nil}
      /\ \A u \in Timers :
           IsOpen(u) /\ u # t /\ "closes_twice" \notin program => IsOpen(u)'
  BY <1>1, CloseTimerOK
<1>6. NumbersInv'
  BY <1>1, <1>5 DEF IInv, NumbersInv, Created
<1>7. pc \in {"main", "callback"}
  BY <1>1 DEF Running, InCallback, Busy, Runs, Over, IInv, ControlInv
<1>8. ControlInv'
  BY <1>1, <1>7 DEF IInv, ControlInv, Busy, Runs, Over, Created
<1>9. BatchInv'
  <2>1. CASE pc = "main"
    BY <2>1, <1>1 DEF IInv, BatchInv, ControlInv
  <2>2. CASE pc = "callback"
    <3>1. ASSUME "closes_others" \notin program, NEW i \in 1..Len(batch)
          PROVE  files'[batch[i].fd] = files[batch[i].fd]
      BY <3>1, <2>2, <1>1, <1>5, BatchTyped DEF IInv, BatchInv
    <3> QED
      BY <2>2, <3>1, <1>1 DEF IInv, BatchInv
  <2> QED
    BY <1>7, <2>1, <2>2
<1>10. StageInv'
  BY <1>1, <1>5, <1>7 DEF IInv, StageInv
<1>11. LiveTimersHeld'
  <2>1. callbacks' = files' /\ callbacks = files
    BY <1>3 DEF IInv, TablesOK
  <2>2. \A u \in Timers : Created(u)' = Created(u)
    BY <1>1 DEF Created
  <2>3. ASSUME NEW u \in Timers, Created(u), u # t, u \notin cleared,
               ~(u \in once /\ u \in rang), "closes_twice" \notin program
        PROVE  IsOpen(u)' /\ callbacks'[fdOf'[u]] = u
    <3>1. IsOpen(u)
      BY <2>3 DEF IInv, LiveTimersHeld
    <3>2. IsOpen(u)'
      BY <3>1, <2>3, <1>5
    <3> QED
      BY <3>2, <2>1 DEF IsOpen
  <2>4. ASSUME NEW u \in Timers, NEW g \in Fds,
               u \in cleared' \/ u \in once \cap rang
        PROVE  files'[g] # u
    <3>1. CASE u = t
      BY <3>1, <1>5
    <3>2. CASE u # t
      <4>1. files[g] # u
        BY <2>4, <3>2, <1>1 DEF IInv, LiveTimersHeld
      <4> QED
        BY <4>1, <1>5, Constants
    <3> QED
      BY <3>1, <3>2
  <2> QED
    BY <1>1, <2>1, <2>2, <2>3, <2>4 DEF LiveTimersHeld
<1>12. ExitLosesOnlyLateTimers'
  BY <1>1, <1>5 DEF IInv, ExitLosesOnlyLateTimers
<1> QED
  BY <1>3, <1>4, <1>6, <1>8, <1>9, <1>10, <1>11, <1>12 DEF IInv

LEMMA EnterCallbackKeepsIInv ==
  ASSUME IInv, EnterCallback PROVE IInv'
<1>1. /\ pc = "event" /\ pc' = "callback"
      /\ unread' = [unread EXCEPT ![self] = FALSE]
      /\ expired' = expired \ {self}
      /\ rang' = rang \cup {self}
      /\ UNCHANGED <<batch, completions, event, self, fdOf, once, task, awaits,
                     cleared, born, stage, command, program>>
      /\ \/ self \in once /\ CloseNumber(fdOf[self])
         \/ self \notin once
            /\ UNCHANGED <<files, interest, callbacks, errors, size, left, every>>
  BY DEF EnterCallback
<1>2. self \in Timers /\ Created(self) /\ IsOpen(self) /\ fdOf[self] \in Fds
  BY <1>1 DEF IInv, ControlInv, IsOpen, Created, NumbersInv
<1>3. /\ TablesOK' /\ left' \in [Timers -> Nat] /\ every' \in [Timers -> Nat]
      /\ \A u \in Timers : IsOpen(u)' => IsOpen(u)
      /\ OpenFds' \subseteq OpenFds
      /\ \A g \in Fds : g # fdOf[self] => files'[g] = files[g]
      /\ self \in once => \A g \in Fds : files'[g] # self
      /\ self \notin once => files' = files
      /\ \A g \in Fds : files'[g] \in {files[g], Nil}
      /\ \A u \in Timers :
           IsOpen(u) /\ u # self /\ "closes_twice" \notin program => IsOpen(u)'
  <2>1. CASE self \in once /\ CloseNumber(fdOf[self])
    BY <2>1, <1>1, <1>2, CloseOK, CloseTimerOK DEF IInv
  <2>2. CASE self \notin once
             /\ UNCHANGED <<files, interest, callbacks, errors, size, left, every>>
    <3>1. \A u \in Timers : IsOpen(u)' = IsOpen(u)
      BY <1>1, <2>2 DEF IsOpen, Created
    <3> QED
      BY <2>2, <3>1, TablesUnchanged DEF IInv, ClockOK
  <2> QED
    BY <1>1, <2>1, <2>2
<1>4. ClockOK' /\ TasksOK'
  BY <1>1, <1>2, <1>3 DEF IInv, ClockOK, TasksOK
<1>5. NumbersInv'
  BY <1>1, <1>2, <1>3 DEF IInv, NumbersInv, Created
<1>6. ControlInv'
  BY <1>1, <1>2 DEF IInv, ControlInv, Busy, Runs, Over, Created
<1>7. BatchInv'
  <2>1. ASSUME "closes_others" \notin program, NEW i \in 1..Len(batch)
        PROVE  /\ files'[batch[i].fd] = batch[i].for
               /\ batch[i].for \in expired'
    <3>1. /\ batch[i].fd \in Fds /\ batch[i].fd # fdOf[self]
          /\ files[batch[i].fd] = batch[i].for /\ batch[i].for \in expired
      BY <2>1, <1>1, BatchTyped DEF IInv, BatchInv
    <3>2. batch[i].for # self
      BY <3>1, <1>2, Constants DEF IInv, NumbersInv
    <3> QED
      BY <3>1, <3>2, <1>1, <1>3
  <2> QED
    BY <2>1, <1>1 DEF IInv, BatchInv
<1>8. StageInv' /\ ExitLosesOnlyLateTimers'
  BY <1>1, <1>3 DEF IInv, StageInv, ControlInv, ExitLosesOnlyLateTimers
<1>9. LiveTimersHeld'
  <2>1. callbacks' = files' /\ callbacks = files
    BY <1>3 DEF IInv, TablesOK
  <2>2. \A u \in Timers : Created(u)' = Created(u)
    BY <1>1 DEF Created
  <2>3. ASSUME NEW u \in Timers, Created(u), u \notin cleared,
               ~(u \in once /\ u \in rang'), "closes_twice" \notin program
        PROVE  IsOpen(u)' /\ callbacks'[fdOf'[u]] = u
    <3>1. IsOpen(u)
      BY <2>3, <1>1 DEF IInv, LiveTimersHeld
    <3>2. IsOpen(u)'
      <4>1. CASE u # self
        BY <4>1, <3>1, <2>3, <1>3
      <4>2. CASE u = self
        BY <4>2, <2>3, <1>1, <1>2, <1>3 DEF IsOpen, Created
      <4> QED
        BY <4>1, <4>2
    <3> QED
      BY <3>2, <2>1 DEF IsOpen
  <2>4. ASSUME NEW u \in Timers, NEW g \in Fds,
               u \in cleared \/ u \in once \cap rang'
        PROVE  files'[g] # u
    <3>1. CASE u = self /\ u \in once
      BY <3>1, <1>3
    <3>2. CASE ~(u = self /\ u \in once)
      <4>1. files[g] # u
        BY <2>4, <3>2, <1>1 DEF IInv, LiveTimersHeld
      <4> QED
        BY <4>1, <1>3, Constants
    <3> QED
      BY <3>1, <3>2
  <2> QED
    BY <1>1, <2>1, <2>2, <2>3, <2>4 DEF LiveTimersHeld
<1> QED
  BY <1>3, <1>4, <1>5, <1>6, <1>7, <1>8, <1>9 DEF IInv

\* The steps that move the thread or a task and touch no timer: they keep
\* the batch, or there is none.
LEMMA ThreadStepKeepsIInv ==
  ASSUME IInv, UNCHANGED <<files, interest, callbacks, errors, size>>,
         UNCHANGED <<timerVars, fdOf, once, rang, cleared, born, program>>,
         UNCHANGED <<batch, completions>>,
         TasksOK', ControlInv',
         pc' \in {"event", "callback"} => pc' = pc /\ self' = self,
         pc' = "crashed" => pc = "crashed",
         pc' = "exited" => pc = "exited",
         stage' \in {"micro", "late"} => stage' = stage \/ OpenFds = {},
         ExitLosesOnlyLateTimers'
  PROVE  IInv'
<1>1. /\ TablesOK' /\ ClockOK' /\ NumbersInv' /\ LiveTimersHeld'
      /\ OpenFds' = OpenFds
      /\ \A t \in Timers : IsOpen(t)' = IsOpen(t)
  BY NoTimerTouched
<1>2. BatchInv'
  BY DEF IInv, BatchInv, timerVars
<1>3. OpenFds = {} => \A t \in Timers : ~IsOpen(t)
  BY Constants DEF IsOpen, Created, OpenFds, IInv, NumbersInv
<1>4. StageInv'
  BY <1>1, <1>3 DEF IInv, StageInv
<1> QED
  BY <1>1, <1>2, <1>4 DEF IInv

LEMMA ReturnsKeepIInv == ASSUME IInv, Return \/ Throw PROVE IInv'
<1> USE DEF progVars
<1>1. TasksOK' /\ ControlInv'
  BY DEF Return, Throw, InCallback, IInv, TasksOK, ControlInv, Busy, Runs,
         Over, Created
<1>2. ExitLosesOnlyLateTimers'
  BY DEF Return, Throw, InCallback, IInv, ControlInv, ExitLosesOnlyLateTimers
<1> QED
  BY <1>1, <1>2, ThreadStepKeepsIInv DEF Return, Throw

LEMMA TasksKeepIInv ==
  ASSUME IInv, NEW k \in Tasks,
         \/ \E t \in Timers : Await(k, t) \/ Fork(t)
         \/ Finish(k) \/ StartScript \/ Resume(k)
  PROVE  IInv'
<1>1. TaskStep
  BY DEF Await, Fork, Finish, StartScript, Resume
<1>2. pc = "main" /\ stage # "exited"
  BY DEF Await, Fork, Finish, StartScript, Resume, IInv, ControlInv, Busy, Runs, Over,
         Tasks
<1>3. TasksOK'
  BY DEF Await, Fork, Finish, StartScript, Resume, IInv, TasksOK, Tasks
<1>4. ControlInv'
  BY <1>1, <1>2 DEF TaskStep, loopVars, IInv, ControlInv, Created
<1>5. ExitLosesOnlyLateTimers'
  BY <1>1, <1>2 DEF TaskStep, ExitLosesOnlyLateTimers
<1> QED
  BY <1>1, <1>2, <1>3, <1>4, <1>5, ThreadStepKeepsIInv
     DEF TaskStep, loopVars

\* A rejection that nothing handles, of main or of another promise, ends the
\* process where it stands.
LEMMA RejectionsKeepIInv ==
  ASSUME IInv, Reject \/ UnhandledRejection PROVE IInv'
<1> USE DEF progVars, loopVars
<1>1. /\ UNCHANGED <<loopVars, timerVars, fdOf, once, rang, cleared, born,
                     program>>
      /\ stage' \in {stage, "failed"}
      /\ pc \in {"main", "callback"}
  BY DEF Reject, UnhandledRejection, Running, InCallback, Busy, Tasks, IInv,
         ControlInv
<1>2. stage # "exited"
  BY DEF Reject, UnhandledRejection, Running, InCallback, Busy, Runs, Over
<1>3. TasksOK'
  BY DEF Reject, UnhandledRejection, IInv, TasksOK, Tasks
<1>4. ControlInv'
  <2>1. Busy' => pc = "main"
    BY DEF Reject, UnhandledRejection, Busy, Runs, Over, Tasks, IInv, ControlInv
  <2> QED
    BY <1>1, <1>2, <2>1 DEF IInv, ControlInv, Created
<1>5. ExitLosesOnlyLateTimers'
  BY <1>1, <1>2 DEF ExitLosesOnlyLateTimers
<1> QED
  BY <1>1, <1>3, <1>4, <1>5, ThreadStepKeepsIInv

LEMMA MainKeepsIInv ==
  ASSUME IInv, RunOuterLoop \/ LoopEnds \/ RunInnerLoop \/ Die \/ Exit
  PROVE  IInv'
<1> USE DEF progVars, loopVars
<1>1. TasksOK'
  BY DEF RunOuterLoop, LoopEnds, RunInnerLoop, Die, Exit, IInv, TasksOK
<1>2. ControlInv'
  BY DEF RunOuterLoop, LoopEnds, RunInnerLoop, Die, Exit, IInv, ControlInv,
         Busy, Runs, Over, Created, Over
<1>3. ExitLosesOnlyLateTimers'
  <2>1. CASE Exit
    BY <2>1 DEF Exit, IInv, StageInv, ExitLosesOnlyLateTimers, IsOpen,
       Created
  <2>2. CASE RunOuterLoop \/ LoopEnds \/ RunInnerLoop \/ Die
    BY <2>2 DEF RunOuterLoop, LoopEnds, RunInnerLoop, Die,
       ExitLosesOnlyLateTimers
  <2> QED
    BY <2>1, <2>2
<1>4. stage' \in {"micro", "late"} => stage' = stage \/ OpenFds = {}
  BY DEF RunOuterLoop, LoopEnds, RunInnerLoop, Die, Exit, IInv, StageInv
<1> QED
  BY <1>1, <1>2, <1>3, <1>4, ThreadStepKeepsIInv
     DEF RunOuterLoop, LoopEnds, RunInnerLoop, Die, Exit

LEMMA NextKeepsIInv == IInv /\ [Next]_vars => IInv'
<1> SUFFICES ASSUME IInv, [Next]_vars PROVE IInv'
  OBVIOUS
<1>1. CASE Tick
  BY <1>1, TickKeepsIInv
<1>2. CASE Poll
  BY <1>2, PollKeepsIInv
<1>3. CASE EnterCallback
  BY <1>3, EnterCallbackKeepsIInv
<1>4. CASE Return \/ Throw
  BY <1>4, ReturnsKeepIInv
<1>5. CASE \E k \in Tasks :
             \/ \E t \in Timers : Await(k, t) \/ Fork(t)
             \/ Finish(k) \/ StartScript \/ Resume(k)
  BY <1>5, TasksKeepIInv
<1>6. ASSUME NEW kind \in Kinds, NewTimer(kind) PROVE IInv'
  BY <1>6, NewTimerKeepsIInv
<1>7. ASSUME NEW t \in Timers, Clear(t) PROVE IInv'
  BY <1>7, ClearKeepsIInv
<1>8. CASE RunOuterLoop \/ LoopEnds \/ RunInnerLoop \/ Die \/ Exit
  BY <1>8, MainKeepsIInv
<1>9. CASE UNCHANGED vars
  <2>1. /\ UNCHANGED <<loopVars, timerVars, progVars, stage, program>>
    BY <1>9 DEF vars
  <2> QED
    BY <2>1 DEF loopVars, timerVars, progVars, IInv, TablesOK, OpenFds,
       ClockOK, TasksOK, NumbersInv, Created, ControlInv, Busy, Runs, Over, BatchInv,
       StageInv, IsOpen, LiveTimersHeld, ExitLosesOnlyLateTimers
<1>10. "main" \in Tasks
  BY DEF Tasks
<1>11. CASE Reject \/ UnhandledRejection
  BY <1>11, RejectionsKeepIInv
<1> QED
  BY <1>1, <1>2, <1>3, <1>4, <1>5, <1>6, <1>7, <1>8, <1>9, <1>10,
     <1>11 DEF Next, TaskEnds, Program, Main, Stopped

THEOREM Invariance == Spec => []IInv
  BY InitIInv, NextKeepsIInv, PTL DEF Spec

-----------------------------------------------------------------------------
(* The properties. *)

\* The tables of the loop, the timerfds and the stages of global_main stay
\* what they are declared to be.
THEOREM TypesHold == Spec => []TypeOK
<1>1. IInv => TypeOK
  <2> SUFFICES ASSUME IInv PROVE TypeOK
    OBVIOUS
  <2>1. once \cup rang \cup expired \cup cleared \subseteq Timers
    BY DEF IInv, NumbersInv, ClockOK
  <2> QED
    BY <2>1, TablesTyped DEF IInv, TypeOK, TablesOK, ClockOK, TasksOK,
       NumbersInv, ControlInv, BatchInv
<1> QED
  BY <1>1, Invariance, PTL

\* lib/timer.js and setTimeout: a timer is open and registered until it is
\* cleared or has called its function, and then holds nothing.
THEOREM TimersLiveAsLongAsTheyShould == Spec => []LiveTimersHeld
<1>1. IInv => LiveTimersHeld
  BY DEF IInv
<1> QED
  BY <1>1, Invariance, PTL

\* global_main: an exit abandons only timers that were created where no loop
\* came after them.
THEOREM ExitsLoseLittle == Spec => []ExitLosesOnlyLateTimers
<1>1. IInv => ExitLosesOnlyLateTimers
  BY DEF IInv
<1> QED
  BY <1>1, Invariance, PTL

\* The closure of UnixTimer: a callback is called only for an expiration of
\* its own timer since it was last called.
THEOREM CallbacksAreEarned == Spec => CallbacksEarned
<1> DEFINE Earned == "closes_others" \notin program /\ pc' # pc =>
                       /\ pc' # "crashed"
                       /\ pc' = "callback" => self \in expired
<1>1. IInv /\ IInv' /\ [Next]_vars => [Earned]_vars
  <2> SUFFICES ASSUME IInv, IInv', Next, "closes_others" \notin program,
                      pc' # pc
               PROVE  /\ pc' # "crashed"
                      /\ pc' = "callback" => self \in expired
    OBVIOUS
  <2>1. program' = program
    BY DEF Next, Tick, Poll, EnterCallback, Return, TaskEnds, Finish, Reject,
       UnhandledRejection, TaskStep, Program,
       NewTimer, Clear, Fork, Await, Throw, Main, RunOuterLoop, LoopEnds,
       StartScript, RunInnerLoop, Die, Exit, Resume, Stopped, vars
  <2>2. pc' # "crashed"
    BY <2>1 DEF IInv, BatchInv
  <2>3. ASSUME pc' = "callback" PROVE EnterCallback
    <3>1. ~Poll
      BY <2>3 DEF Poll, Loop!PollNothing, Loop!PollWait, Loop!DispatchEvent,
         Loop!PollReturn
    <3> QED
      BY <2>3, <3>1 DEF Next, Tick, Return, TaskEnds, Finish, Reject,
         UnhandledRejection, TaskStep, Program,
         NewTimer, Clear, Fork, Await, Throw, Main, RunOuterLoop, LoopEnds,
         StartScript, RunInnerLoop, Die, Exit, Resume, Stopped, vars, loopVars
  <2>4. EnterCallback => self \in expired
    BY DEF EnterCallback, IInv, BatchInv
  <2> QED
    BY <2>2, <2>3, <2>4
<1> QED
  BY <1>1, Invariance, PTL DEF Spec, CallbacksEarned
=============================================================================
