-------------------------- MODULE HandleLoopProofs --------------------------
(***************************************************************************)
(* EventLoop implements HandleLoop, for any number of descriptors, handles *)
(* and events and for every program.                                       *)
(*                                                                         *)
(* What makes the step from numbers to handles possible is that at any     *)
(* time a number belongs to one handle and a handle to one number          *)
(* (NumbersInv), and that a registered number's callback is its owner's    *)
(* (TablesAgree): to remove a number from the tables is then to remove one *)
(* handle from Watched, and to close it one from OpenHandles.              *)
(***************************************************************************)
EXTENDS EventLoopProofs

(* The variables of EventLoop HandleLoop's state is computed from.         *)
seen == <<files, callbacks, batch, immediates, immLeft, self, fdOf, pc,
          program>>

\* A step that leaves all of them alone is a stuttering step of HandleLoop.
LEMMA SeenUnchanged ==
  ASSUME UNCHANGED seen PROVE UNCHANGED H!vars
  BY DEF seen, H!vars, OpenHandles, IsOpen, Watched, Registered, Due

LEMMA NilIsNothing == Nil \notin Handles /\ Nil \notin Fds
  BY LoopAssumption DEF LoopAssumption

\* Of a registered number the callback, the owner and the owner's number.
LEMMA RegisteredNumber ==
  ASSUME IInv, NEW fd \in Fds, callbacks[fd] # Nil
  PROVE  /\ callbacks[fd] \in Handles
         /\ files[fd] = callbacks[fd]
         /\ fdOf[callbacks[fd]] = fd
  BY DEF IInv, TypeOK, TablesAgree, NumbersInv

\* Whether a handle is watched is whether its own number is registered.
LEMMA WatchedByOwnNumber ==
  ASSUME IInv
  PROVE  \A h \in Handles :
           h \in Watched <=> /\ fdOf[h] \in Fds
                             /\ callbacks[fdOf[h]] = h
  BY RegisteredNumber, NilIsNothing DEF Watched, Registered

\* Clearing one entry of the callback table forgets one handle.
LEMMA ClearForgets ==
  ASSUME IInv, NEW fd \in Fds,
         callbacks' = [callbacks EXCEPT ![fd] = Nil]
  PROVE  Watched' = Watched \ {callbacks[fd]}
<1>1. callbacks \in [Fds -> Handles \cup {Nil}]
  BY DEF IInv, TypeOK
<1>2. \A g \in Fds : callbacks[g] # Nil =>
        (callbacks'[g] # Nil /\ callbacks'[g] = callbacks[g]) <=> g # fd
  BY <1>1
<1>3. \A g \in Fds : callbacks'[g] # Nil =>
        callbacks[g] # Nil /\ callbacks'[g] = callbacks[g] /\ g # fd
  BY <1>1
<1>4. \A g \in Fds : callbacks[g] # Nil /\ g # fd => callbacks[g] # callbacks[fd]
  BY RegisteredNumber
<1>5. Watched' \subseteq Watched \ {callbacks[fd]}
  BY <1>3, <1>4 DEF Watched, Registered
<1>6. Watched \ {callbacks[fd]} \subseteq Watched'
  BY <1>2 DEF Watched, Registered
<1> QED
  BY <1>5, <1>6


\* Closing a number, whoever it belongs to, ends one handle.
LEMMA CloseEnds ==
  ASSUME IInv, NEW fd \in Fds,
         callbacks' = [callbacks EXCEPT ![fd] = Nil],
         files' = [files EXCEPT ![fd] = Nil],
         fdOf' = fdOf
  PROVE  /\ Watched' = Watched \ {files[fd]}
         /\ OpenHandles' = OpenHandles \ {files[fd]}
<1>1. callbacks[fd] = Nil => files[fd] \notin Watched
  <2> SUFFICES ASSUME callbacks[fd] = Nil, files[fd] \in Watched PROVE FALSE
    OBVIOUS
  <2>1. PICK g \in Fds : callbacks[g] # Nil /\ callbacks[g] = files[fd]
    BY DEF Watched, Registered
  <2>2. files[fd] \in Handles /\ fdOf[files[fd]] = g
    BY <2>1, RegisteredNumber
  <2>3. fdOf[files[fd]] = fd
    BY <2>2, NilIsNothing DEF IInv, NumbersInv
  <2> QED
    BY <2>1, <2>2, <2>3
<1>2. callbacks[fd] # Nil => files[fd] = callbacks[fd]
  BY RegisteredNumber
<1>3. Watched' = Watched \ {callbacks[fd]}
  BY ClearForgets
<1>4. Nil \notin Watched
  BY DEF Watched, Registered
<1>5. Watched' = Watched \ {files[fd]}
  BY <1>1, <1>2, <1>3, <1>4
<1>6. \A h \in Handles : IsOpen(h)' <=> IsOpen(h) /\ fdOf[h] # fd
  BY NilIsNothing DEF IsOpen, IInv, TypeOK
<1>7. \A h \in Handles : IsOpen(h) => (fdOf[h] = fd <=> h = files[fd])
  BY NilIsNothing DEF IsOpen, IInv, TypeOK, NumbersInv
<1>8. OpenHandles' = OpenHandles \ {files[fd]}
  BY <1>6, <1>7 DEF OpenHandles
<1> QED
  BY <1>5, <1>8

-----------------------------------------------------------------------------
(* The program's actions. *)

\* Readiness, interest masks and reads are below what HandleLoop sees.
LEMMA UnseenSteps ==
  ASSUME IInv, Kernel \/ Consume \/ Terminated \/ UNCHANGED vars
  PROVE  UNCHANGED H!vars
<1>1. UNCHANGED seen
  BY DEF seen, Kernel, BecomeReady, Consume, Terminated, vars, kernelVars,
         tableVars, pollVars
<1> QED
  BY <1>1, SeenUnchanged

LEMMA ModifyIsUnseen ==
  ASSUME IInv, NEW h \in Handles, NEW m \in Masks, Modify(h, m)
  PROVE  UNCHANGED H!vars
<1>1. fdOf[h] \in Fds /\ files[fdOf[h]] = h
  BY DEF Modify, IsOpen, IInv, TypeOK
<1>2. callbacks' = callbacks
  BY <1>1, LoopModifyOK, TablesFromIInv DEF Modify
<1>3. UNCHANGED seen
  BY <1>2 DEF seen, Modify, pollVars
<1> QED
  BY <1>3, SeenUnchanged

LEMMA OpenRefines ==
  ASSUME IInv, NEW h \in Handles, Open(h) PROVE H!Open(h)
<1>1. PICK fd \in Fds : /\ files[fd] = Nil
                        /\ files' = [files EXCEPT ![fd] = h]
                        /\ fdOf' = [fdOf EXCEPT ![h] = fd]
  BY DEF Open, LowestFree, Free
<1>2. h \notin OpenHandles
  BY DEF OpenHandles, IsOpen, Open
<1>3. \A k \in Handles : IsOpen(k)' <=> IsOpen(k) \/ k = h
  BY <1>1, NilIsNothing DEF IsOpen, IInv, TypeOK, NumbersInv, Open
<1>4. OpenHandles' = OpenHandles \cup {h}
  BY <1>3 DEF OpenHandles
<1> QED
  BY <1>2, <1>4 DEF Open, H!Open, H!Executing, Running, Watched, Registered,
     Due, tableVars, pollVars

LEMMA AddRefines ==
  ASSUME IInv, NEW h \in Handles, NEW m \in Masks, Add(h, m)
  PROVE  H!Watch(h)
<1>1. fdOf[h] \in Fds /\ files[fdOf[h]] = h
  BY DEF Add, IsOpen, IInv, TypeOK
<1>2. \A fd \in Fds : callbacks'[fd] = IF fd = fdOf[h] THEN h ELSE callbacks[fd]
  BY <1>1, NilIsNothing DEF Add, LoopAdd, IInv, TypeOK, TablesAgree, tableVars
<1>3. callbacks[fdOf[h]] \in {Nil, h}
  BY <1>1 DEF IInv, TablesAgree
<1>4. Watched' = Watched \cup {h}
  BY <1>1, <1>2, <1>3, NilIsNothing DEF Watched, Registered
<1>5. h \in OpenHandles /\ OpenHandles' = OpenHandles
  BY DEF Add, OpenHandles, IsOpen
<1> QED
  BY <1>4, <1>5 DEF Add, H!Watch, H!Executing, Running, Due, pollVars

\* A close of a handle that is not open closes another one, or nothing.
LEMMA CloseRefines ==
  ASSUME IInv, NEW h \in Handles, Close(h)
  PROVE  \/ \E g \in Handles : H!Close(g) \/ H!CloseAgain(g)
         \/ UNCHANGED H!vars
<1> DEFINE g == files[fdOf[h]]
<1>1. /\ fdOf[h] \in Fds
      /\ files' = [files EXCEPT ![fdOf[h]] = Nil]
      /\ g \in Handles \cup {Nil}
  BY DEF Close, IInv, TypeOK
<1>2. callbacks' = [callbacks EXCEPT ![fdOf[h]] = Nil]
  BY <1>1, LoopRemoveOK, TablesFromIInv DEF Close
<1>3. Watched' = Watched \ {g} /\ OpenHandles' = OpenHandles \ {g}
  BY <1>1, <1>2, CloseEnds DEF Close
<1>4. UNCHANGED <<Due, Len(immediates), immLeft, self, pc, program>>
  BY DEF Close, Due, pollVars
<1>5. CASE g = Nil
  <2>1. Watched' = Watched /\ OpenHandles' = OpenHandles
    BY <1>3, <1>5, NilIsNothing DEF Watched, Registered, OpenHandles
  <2> QED
    BY <2>1, <1>4 DEF H!vars
<1>6. CASE g \in Handles
  <2>1. fdOf[g] = fdOf[h]
    BY <1>1, <1>6, NilIsNothing DEF IInv, NumbersInv
  <2>2. g \in OpenHandles
    BY <1>1, <1>6, <2>1, NilIsNothing DEF OpenHandles, IsOpen
  <2>3. H!Ends(g)
    BY <1>3, <1>4, <2>2 DEF H!Ends, H!Executing, Running, Close
  <2>4. CASE g = h
    BY <2>3, <2>4 DEF Close, H!Close
  <2>5. CASE g # h
    BY <1>6, <2>3, <2>5 DEF Close, IsOpen, H!CloseAgain
  <2> QED
    BY <1>6, <2>4, <2>5 DEF H!Close
<1> QED
  BY <1>1, <1>5, <1>6

LEMMA SetImmediateRefines ==
  ASSUME IInv, SetImmediate PROVE H!SetImmediate
<1>1. Len(immediates') = Len(immediates) + 1
  BY DEF SetImmediate, IInv, TypeOK
<1> QED
  BY <1>1 DEF SetImmediate, H!SetImmediate, H!Executing, Running, OpenHandles,
     IsOpen, Watched, Registered, Due, kernelVars, tableVars, pollVars

LEMMA ReturnRefines ==
  ASSUME IInv, Return PROVE H!Return
<1>1. UNCHANGED <<OpenHandles, Due, Len(immediates), immLeft, program>>
  BY DEF Return, OpenHandles, IsOpen, Due
<1>2. CASE pc # "error"
  <2>1. UNCHANGED Watched
    BY <1>2 DEF Return, Watched, Registered, tableVars
  <2> QED
    BY <1>1, <1>2, <2>1 DEF Return, H!Return
<1>3. CASE pc = "error"
  <2>1. event.fd \in Fds /\ event.for \in Handles /\ self \in Handles
    BY <1>3 DEF IInv, ControlInv, Event
  <2>2. callbacks' = [callbacks EXCEPT ![event.fd] = Nil]
    BY <1>3, <2>1, LoopRemoveOK, TablesFromIInv DEF Return
  <2>3. Watched' = Watched \ {callbacks[event.fd]}
    BY <2>1, <2>2, ClearForgets
  <2>4. Nil \notin Watched
    BY DEF Watched, Registered
  <2>5. callbacks[event.fd] \in Handles \cup {Nil}
    BY <2>1 DEF IInv, TypeOK
  <2>6. \E h \in Handles \cup {Nil} :
          /\ program \cap {"closes_others", "opens_on_error"} = {} => h = self
          /\ Watched' = Watched \ {h}
    <3>1. CASE program \cap {"closes_others", "opens_on_error"} = {}
      <4>1. self = event.for /\ fdOf[self] = event.fd
        BY <1>3, <3>1 DEF IInv, BatchInv
      <4>2. callbacks[event.fd] \in {Nil, self}
        BY <1>3, <2>1, <3>1, <4>1 DEF IInv, ErrorInv, TablesAgree
      <4>3. callbacks[event.fd] = Nil => self \notin Watched
        BY <2>1, <4>1, WatchedByOwnNumber, NilIsNothing
      <4> QED
        BY <2>1, <2>3, <2>4, <4>2, <4>3
    <3>2. CASE ~(program \cap {"closes_others", "opens_on_error"} = {})
      BY <2>3, <2>5, <3>2
    <3> QED
      BY <3>1, <3>2
  <2> QED
    BY <1>1, <1>3, <2>6 DEF Return, H!Return
<1> QED
  BY <1>2, <1>3

LEMMA ThrowRefines ==
  ASSUME IInv, Throw PROVE H!Throw
  BY DEF Throw, H!Throw, OpenHandles, IsOpen, Watched, Registered, Due,
     kernelVars, tableVars, pollVars

-----------------------------------------------------------------------------
(* The steps of poll(). *)

\* #size is zero when no handle is watched, and only then.
LEMMA SizeIsWatched ==
  ASSUME IInv PROVE size = 0 <=> Watched = {}
<1>1. size = 0 <=> Registered = {}
  BY RegisteredFinite, FS_EmptySet DEF IInv, SizeCountsRegistrations
<1>2. Registered = {} <=> Watched = {}
  BY DEF Watched, Registered
<1> QED
  BY <1>1, <1>2

LEMMA NothingQueued ==
  ASSUME IInv PROVE immediates = <<>> <=> Len(immediates) = 0
  BY DEF IInv, TypeOK

LEMMA ExitRefines ==
  ASSUME IInv, PollNothing \/ PollInterrupted
  PROVE  H!Exit \/ H!Interrupted
  BY SizeIsWatched, NothingQueued DEF PollNothing, PollInterrupted, H!Exit,
     H!Interrupted, OpenHandles, IsOpen, Watched, Registered, Due, kernelVars,
     tableVars

LEMMA DueTyped ==
  ASSUME IInv
  PROVE  /\ Due \in Seq([to : Handles, failed : BOOLEAN])
         /\ Len(Due) = Len(batch)
         /\ Due = <<>> <=> batch = <<>>
<1>1. batch \in Seq(Event) /\ Len(batch) \in Nat
  BY DEF IInv, TypeOK
<1> QED
  BY <1>1, BatchTyped DEF Due

LEMMA PollWaitRefines ==
  ASSUME IInv, PollWait PROVE H!Collect
<1>1. /\ batch' \in Seq(Event)
      /\ \A i \in 1..Len(batch') : /\ callbacks[batch'[i].fd] = batch'[i].for
                                   /\ files[batch'[i].fd] = batch'[i].for
      /\ \A i, j \in 1..Len(batch') : i # j => batch'[i].fd # batch'[j].fd
      /\ Deliverable # {} => Len(batch') > 0
  BY BatchesOK, TablesFromIInv DEF IInv, TypeOK, PollWait
<1>2. \A i \in 1..Len(batch') : batch'[i] \in Event
  BY <1>1
<1>3. \A i \in 1..Len(batch') : /\ batch'[i].fd \in Fds
                                /\ batch'[i].for \in Handles
  BY <1>2 DEF Event
<1>4. \A i \in 1..Len(batch') : /\ batch'[i].for \in Watched
                                /\ fdOf[batch'[i].for] = batch'[i].fd
  BY <1>1, <1>3, RegisteredNumber, NilIsNothing DEF Watched, Registered
<1>5. Len(batch') \in Nat
  BY <1>1
<1>6. /\ Due' \in Seq([to : Watched, failed : BOOLEAN])
      /\ Len(Due') = Len(batch')
      /\ \A i \in 1..Len(batch') : Due'[i].to = batch'[i].for
  BY <1>4, <1>5 DEF Due
<1>7. Due' \in H!Rounds
  BY <1>1, <1>4, <1>6 DEF H!Rounds
<1>8. Due' # <<>> \/ Len(immediates) > 0
  <2>1. CASE immediates = <<>>
    <3>1. Len(batch') > 0
      BY <1>1, <2>1 DEF PollWait
    <3> QED
      BY <1>5, <1>6, <3>1
  <2>2. CASE immediates # <<>>
    BY <2>2 DEF IInv, TypeOK
  <2> QED
    BY <2>1, <2>2
<1> QED
  BY <1>7, <1>8 DEF PollWait, H!Collect, OpenHandles, IsOpen, Watched,
     Registered, kernelVars, tableVars

LEMMA RunImmediateRefines ==
  ASSUME IInv, RunImmediate PROVE H!RunImmediate
<1>1. immediates # <<>>
  BY DEF RunImmediate, IInv, TypeOK, QueueInv, ImmediatesInOrder
<1>2. Len(immediates') = Len(immediates) - 1
  BY <1>1 DEF RunImmediate, IInv, TypeOK
<1> QED
  BY <1>2 DEF RunImmediate, H!RunImmediate, OpenHandles, IsOpen, Watched,
     Registered, Due, kernelVars, tableVars

LEMMA DispatchRefines ==
  ASSUME IInv, DispatchEvent PROVE H!Deliver \/ H!Crash
<1> DEFINE e == Head(batch)
<1>1. batch \in Seq(Event) /\ batch # <<>> /\ batch' = Tail(batch)
  BY DEF DispatchEvent, IInv, TypeOK
<1>2. e = batch[1] /\ Len(batch) \in Nat \ {0}
  BY <1>1
<1>3. e \in Event /\ e.fd \in Fds
  <2>1. e \in Event
    BY <1>1
  <2> QED
    BY <2>1 DEF Event
<1>4. self' = callbacks[e.fd]
  BY <1>3 DEF DispatchEvent, Table, IInv, TablesAgree
<1>5. self' # Nil => self' \in Watched
  BY <1>3, <1>4 DEF Watched, Registered
<1> DEFINE Entries == [to : Handles, failed : BOOLEAN]
<1>6. /\ Due # <<>>
      /\ Head(Due).to = e.for
      /\ Head(Due).failed = ("hup" \in e.mask)
      /\ Due' = Tail(Due)
  <2>1. Due # <<>> /\ Due \in Seq(Entries) /\ Len(Due) = Len(batch)
    BY <1>1, DueTyped
  <2>2. Head(Due) = Due[1]
    BY <2>1
  <2>3. Due[1] = [to |-> e.for, failed |-> "hup" \in e.mask]
    BY <1>2 DEF Due
  <2>4. /\ Len(batch') = Len(batch) - 1
        /\ \A i \in 1..Len(batch') : /\ batch'[i] = batch[i + 1]
                                     /\ batch'[i].for \in Handles
    BY <1>1, BatchTyped
  <2>5. /\ Tail(Due) \in Seq(Entries)
        /\ Len(Tail(Due)) = Len(batch) - 1
        /\ \A i \in 1..(Len(batch) - 1) : Tail(Due)[i] = Due[i + 1]
    BY <2>1
  <2>6. /\ Due' \in Seq(Entries)
        /\ Len(Due') = Len(batch) - 1
    BY <1>2, <2>4 DEF Due
  <2>7. \A i \in 1..(Len(batch) - 1) : Due'[i] = Due[i + 1]
    BY <1>2, <2>4 DEF Due
  <2>8. Due' = Tail(Due)
    BY <2>5, <2>6, <2>7, SeqEqual
  <2> QED
    BY <2>1, <2>2, <2>3, <2>8
<1>7. "closes_others" \notin program => self' = e.for /\ self' # Nil
  <2>1. "closes_others" \notin program => pc' # "crashed" /\ self' = event'.for
    BY DispatchKeepsIInv DEF IInv, BatchInv, DispatchEvent
  <2> QED
    BY <2>1 DEF DispatchEvent
<1>8. UNCHANGED <<OpenHandles, Watched, Len(immediates), immLeft, program>>
  BY DEF DispatchEvent, OpenHandles, IsOpen, Watched, Registered, kernelVars,
         tableVars
<1>9. CASE self' = Nil
  BY <1>6, <1>7, <1>8, <1>9 DEF DispatchEvent, H!Crash
<1>10. CASE self' # Nil
  <2>1. pc' = IF Head(Due).failed THEN "error" ELSE "event"
    BY <1>6, <1>10 DEF DispatchEvent
  <2> QED
    BY <1>5, <1>6, <1>7, <1>8, <1>10, <2>1 DEF DispatchEvent, H!Deliver
<1> QED
  BY <1>9, <1>10

\* A poll() that has dispatched something is followed by another.
LEMMA PollReturnRefines ==
  ASSUME IInv, PollReturn PROVE H!RoundOver
<1>1. pc' = "poll"
  BY DEF PollReturn, IInv, ControlInv
<1>2. Due = <<>> /\ Due' = Due
  BY DueTyped DEF PollReturn, Due
<1> QED
  BY <1>1, <1>2 DEF PollReturn, H!RoundOver, OpenHandles, IsOpen, Watched,
     Registered, kernelVars, tableVars

-----------------------------------------------------------------------------
(* The theorem. *)

LEMMA InitRefines == Init => H!Init
<1> SUFFICES ASSUME Init PROVE H!Init
  OBVIOUS
<1>1. Watched = {} /\ OpenHandles = {}
  BY DEF Init, Watched, Registered, OpenHandles, IsOpen
<1>2. Due = <<>> /\ Len(immediates) = 0
  BY DEF Init, Due
<1> QED
  BY <1>1, <1>2 DEF Init, H!Init, Liberties

LEMMA NextRefines == IInv /\ [Next]_vars => [H!Next]_H!vars
<1> SUFFICES ASSUME IInv, [Next]_vars PROVE H!Next \/ UNCHANGED H!vars
  OBVIOUS
<1>1. CASE Kernel \/ Terminated \/ UNCHANGED vars
  BY <1>1, UnseenSteps
<1>2. CASE Program
  <2>1. CASE \E h \in Handles : Open(h) \/ Close(h)
    BY <2>1, OpenRefines, CloseRefines DEF H!Next
  <2>2. CASE \E h \in Handles, m \in Masks : Add(h, m) \/ Modify(h, m)
    BY <2>2, AddRefines, ModifyIsUnseen DEF H!Next
  <2>3. CASE SetImmediate \/ Return \/ Throw
    BY <2>3, SetImmediateRefines, ReturnRefines, ThrowRefines DEF H!Next
  <2>4. CASE Consume
    BY <2>4, UnseenSteps
  <2> QED
    BY <1>2, <2>1, <2>2, <2>3, <2>4 DEF Program
<1>3. CASE Poll \/ PollInterrupted
  <2>1. CASE PollNothing \/ PollInterrupted
    BY <2>1, ExitRefines DEF H!Next
  <2>2. CASE PollWait \/ RunImmediate
    BY <2>2, PollWaitRefines, RunImmediateRefines DEF H!Next
  <2>3. CASE DispatchEvent \/ PollReturn
    BY <2>3, DispatchRefines, PollReturnRefines DEF H!Next
  <2> QED
    BY <1>3, <2>1, <2>2, <2>3 DEF Poll
<1> QED
  BY <1>1, <1>2, <1>3 DEF Next

\* lib/loop.js keeps the promise of HandleLoop to every program: with the
\* tables of numbers hidden, each of its steps is one of HandleLoop's or
\* none.
THEOREM LoopImplementsHandleLoop == Spec => ImplementsHandleLoop
  BY InitRefines, NextRefines, InductiveInvariant, PTL
     DEF Spec, ImplementsHandleLoop, H!Spec
=============================================================================
