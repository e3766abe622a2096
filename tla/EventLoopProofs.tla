-------------------------- MODULE EventLoopProofs --------------------------
(***************************************************************************)
(* Proofs about EventLoop for any number of descriptors, handles, events   *)
(* per wait and immediates, and for every program.                         *)
(*                                                                         *)
(* The safety properties of EventLoop are not inductive one by one.        *)
(* Whether an event reaches its handle depends on the loop's tables        *)
(* agreeing with the descriptor table, on which numbers can still be in    *)
(* the batch while a callback runs, and on which handle that callback may  *)
(* close.  IInv collects these facts; each property follows from it.       *)
(***************************************************************************)
EXTENDS EventLoop, FiniteSetTheorems, SequenceTheorems, TLAPS

(* The loop's tables with the kernel's, as the three operations of         *)
(* UnixLoop see them.                                                      *)
TablesOK ==
  /\ files \in [Fds -> Handles \cup {Nil}]
  /\ interest \in [Fds -> Masks \cup {Nil}]
  /\ callbacks \in [Fds -> Handles \cup {Nil}]
  /\ errors \in [Fds -> Handles \cup {Nil}]
  /\ size \in Int
  /\ TablesAgree
  /\ SizeCountsRegistrations

(* What each value of pc says about the locals of poll().                  *)
ControlInv ==
  /\ pc \in {"main", "poll"} => batch = <<>> /\ immLeft = 0
  /\ pc \in {"main", "poll", "drain", "immediate", "exited"} => self = Nil
  /\ pc \in {"event", "error"} =>
       immLeft = 0 /\ event \in Event /\ self \in Handles
  /\ pc \in {"drain", "immediate", "event", "error"} => completions > 0

(* The queue of immediates is a run of consecutive tickets, of which       *)
(* poll() owes those given out before it started.                          *)
QueueInv ==
  /\ ImmediatesInOrder
  /\ pc \in {"drain", "immediate", "event", "error"} =>
       cutoff = nextTicket - Len(immediates) + immLeft

(* An open number knows its handle, and the handle its number.             *)
NumbersInv == \A fd \in Fds : files[fd] # Nil => fdOf[files[fd]] = fd

(* What closes_others would break: while a batch is dispatched, every      *)
(* number still in it keeps the callback of the handle it was collected    *)
(* for, and the running callback belongs to a number no longer in it.      *)
BatchInv ==
  "closes_others" \notin program =>
    /\ pc # "crashed"
    /\ pc \in {"event", "error"} =>
         /\ self = event.for
         /\ fdOf[self] = event.fd
         /\ \A i \in 1..Len(batch) : batch[i].fd # event.fd
    /\ \A i \in 1..Len(batch) : callbacks[batch[i].fd] = batch[i].for
    /\ \A i, j \in 1..Len(batch) : i # j => batch[i].fd # batch[j].fd

(* What opens_on_error would break: the number an error handler runs for   *)
(* is not handed out again before poll() removes it.                       *)
ErrorInv ==
  program \cap {"closes_others", "opens_on_error"} = {} /\ pc = "error"
    => files[event.fd] \in {Nil, event.for}

IInv ==
  /\ TypeOK
  /\ TablesAgree
  /\ SizeCountsRegistrations
  /\ ExitsOnlyWhenIdle
  /\ ControlInv
  /\ QueueInv
  /\ NumbersInv
  /\ BatchInv
  /\ ErrorInv
  /\ RegistrationsKept

-----------------------------------------------------------------------------
(* The operations on the tables. *)

\* The numbers the loop counts are finitely many.
LEMMA RegisteredFinite == IsFiniteSet(Registered)
  BY LoopAssumption, FS_Subset DEF LoopAssumption, Registered

\* loop.add on an open number of handle h, whether or not the number is
\* already registered, keeps the tables in agreement and counted.
LEMMA LoopAddOK ==
  ASSUME TablesOK, NEW fd \in Fds, NEW h \in Handles, NEW m \in Masks,
         files[fd] = h, files' = files, LoopAdd(fd, h, m)
  PROVE  TablesOK'
<1>0. /\ Nil \notin Handles /\ Nil \notin Masks
      /\ IsFiniteSet(Registered)
  BY LoopAssumption, RegisteredFinite DEF LoopAssumption
<1>1. CASE interest[fd] # Nil /\ UNCHANGED <<interest, tableVars>>
  BY <1>1 DEF TablesOK, TablesAgree, SizeCountsRegistrations, Registered,
              tableVars
<1>2. CASE /\ interest[fd] = Nil
           /\ interest' = [interest EXCEPT ![fd] = m]
           /\ callbacks' = [callbacks EXCEPT ![fd] = h]
           /\ errors' = [errors EXCEPT ![fd] = h]
           /\ size' = size + 1
  <2>1. fd \notin Registered
    BY <1>2 DEF TablesOK, TablesAgree, Registered
  <2>2. Registered' = Registered \cup {fd}
    BY <1>0, <1>2 DEF TablesOK, Registered
  <2>3. Cardinality(Registered') = Cardinality(Registered) + 1
    BY <1>0, <2>1, <2>2, FS_AddElement
  <2>4. SizeCountsRegistrations'
    BY <1>2, <2>3 DEF TablesOK, SizeCountsRegistrations
  <2>5. TablesAgree'
    BY <1>0, <1>2 DEF TablesOK, TablesAgree
  <2> QED
    BY <1>2, <2>4, <2>5 DEF TablesOK
<1> QED
  BY <1>1, <1>2 DEF LoopAdd

\* loop.modify on a registered number of the handle that registered it.
LEMMA LoopModifyOK ==
  ASSUME TablesOK, NEW fd \in Fds, NEW h \in Handles, NEW m \in Masks,
         files[fd] = h, interest[fd] # Nil, files' = files,
         LoopModify(fd, h, m)
  PROVE  TablesOK' /\ callbacks' = callbacks
<1>0. Nil \notin Handles /\ Nil \notin Masks
  BY LoopAssumption DEF LoopAssumption
<1>1. callbacks[fd] = h /\ errors[fd] = h
  BY DEF TablesOK, TablesAgree
<1>2. callbacks' = callbacks /\ errors' = errors /\ size' = size
  BY <1>1 DEF LoopModify, TablesOK
<1>3. interest' = [interest EXCEPT ![fd] = m]
  BY DEF LoopModify
<1>4. Registered' = Registered
  BY <1>2 DEF Registered
<1>5. SizeCountsRegistrations'
  BY <1>2, <1>4 DEF SizeCountsRegistrations, TablesOK
<1>6. TablesAgree'
  BY <1>0, <1>2, <1>3 DEF TablesAgree, TablesOK
<1> QED
  BY <1>2, <1>3, <1>5, <1>6 DEF TablesOK

\* loop.remove, with or without the close(fd) that usually follows it.
LEMMA LoopRemoveOK ==
  ASSUME TablesOK, NEW fd \in Fds, LoopRemove(fd),
         files' \in {files, [files EXCEPT ![fd] = Nil]}
  PROVE  TablesOK' /\ callbacks' = [callbacks EXCEPT ![fd] = Nil]
<1>0. IsFiniteSet(Registered)
  BY RegisteredFinite
<1>1. CASE callbacks[fd] = Nil /\ UNCHANGED <<interest, tableVars>>
  BY <1>1 DEF TablesOK, TablesAgree, SizeCountsRegistrations, Registered,
              tableVars
<1>2. CASE /\ callbacks[fd] # Nil
           /\ callbacks' = [callbacks EXCEPT ![fd] = Nil]
           /\ errors' = [errors EXCEPT ![fd] = Nil]
           /\ size' = size - 1
           /\ interest' = [interest EXCEPT ![fd] = Nil]
  <2>1. Registered' = Registered \ {fd}
    BY <1>2 DEF TablesOK, Registered
  <2>2. fd \in Registered
    BY <1>2 DEF Registered
  <2>3. Cardinality(Registered') = Cardinality(Registered) - 1
    BY <1>0, <2>1, <2>2, FS_RemoveElement
  <2>4. SizeCountsRegistrations'
    BY <1>2, <2>3 DEF TablesOK, SizeCountsRegistrations
  <2>5. TablesAgree'
    BY <1>2 DEF TablesOK, TablesAgree
  <2> QED
    BY <1>2, <2>4, <2>5 DEF TablesOK
<1> QED
  BY <1>1, <1>2 DEF LoopRemove

\* A step that leaves the tables alone, and may only open a free number.
LEMMA TablesUnchanged ==
  ASSUME TablesOK, UNCHANGED <<interest, tableVars>>,
         NEW fd \in Fds, NEW h \in Handles,
         \/ files' = files
         \/ files[fd] = Nil /\ files' = [files EXCEPT ![fd] = h]
  PROVE  TablesOK'
<1>1. Nil \notin Handles
  BY LoopAssumption DEF LoopAssumption
<1>2. Registered' = Registered
  BY DEF Registered, tableVars
<1>3. SizeCountsRegistrations'
  BY <1>2 DEF SizeCountsRegistrations, TablesOK, tableVars
<1>4. TablesAgree'
  BY <1>1 DEF TablesAgree, TablesOK, tableVars
<1> QED
  BY <1>3, <1>4 DEF TablesOK, tableVars

\* What epoll_wait hands over: well-formed events, each for a registered
\* number, no number twice, and at least one if anything is deliverable.
LEMMA BatchesOK ==
  ASSUME TablesOK, ready \in [Handles -> SUBSET Conditions],
         NEW s \in Batches
  PROVE  /\ s \in Seq(Event)
         /\ \A i \in 1..Len(s) : /\ callbacks[s[i].fd] = s[i].for
                                 /\ files[s[i].fd] = s[i].for
         /\ \A i, j \in 1..Len(s) : i # j => s[i].fd # s[j].fd
         /\ Deliverable # {} => Len(s) > 0
<1> DEFINE n == IF Cardinality(Deliverable) < MaxEvents
                  THEN Cardinality(Deliverable) ELSE MaxEvents
<1>1. IsFiniteSet(Deliverable)
  BY LoopAssumption, FS_Subset DEF LoopAssumption, Deliverable
<1>2. n \in Nat /\ (Deliverable # {} => n > 0)
  BY <1>1, LoopAssumption, FS_CardinalityType, FS_EmptySet DEF LoopAssumption
<1>3. PICK t \in [1..n -> Deliverable] :
        /\ \A i, j \in 1..n : i # j => t[i] # t[j]
        /\ s = [i \in 1..n |-> EventOf(t[i])]
  BY DEF Batches
<1>4. ASSUME NEW fd \in Deliverable
      PROVE  /\ fd \in Fds
             /\ EventOf(fd) \in Event
             /\ EventOf(fd).fd = fd
             /\ callbacks[fd] = EventOf(fd).for
             /\ files[fd] = EventOf(fd).for
  <2>1. fd \in Fds /\ interest[fd] # Nil /\ files[fd] # Nil
    BY DEF Deliverable, Pending
  <2>2. Pending(fd) \in SUBSET {"in", "out", "hup"}
    BY <2>1, LoopAssumption DEF Pending, LoopAssumption, TablesOK
  <2>3. callbacks[fd] = files[fd] /\ files[fd] \in Handles
    BY <2>1 DEF TablesOK, TablesAgree
  <2> QED
    BY <2>1, <2>2, <2>3 DEF EventOf, Event
<1>5. Len(s) = n /\ s \in Seq(Event)
  BY <1>2, <1>3, <1>4
<1> QED
  BY <1>2, <1>3, <1>4, <1>5

-----------------------------------------------------------------------------
(* IInv is inductive. *)

LEMMA InitIInv == Init => IInv
<1> SUFFICES ASSUME Init PROVE IInv
  OBVIOUS
<1>1. Registered = {}
  BY DEF Init, Registered
<1>2. SizeCountsRegistrations
  BY <1>1, FS_EmptySet DEF Init, SizeCountsRegistrations
<1>3. TypeOK
  BY DEF Init, TypeOK, NoEvent
<1> QED
  BY <1>2, <1>3 DEF Init, IInv, TablesAgree, ExitsOnlyWhenIdle, ControlInv,
     QueueInv, ImmediatesInOrder, NumbersInv, BatchInv, ErrorInv,
     RegistrationsKept

LEMMA BatchTyped ==
  ASSUME IInv
  PROVE  \A i \in 1..Len(batch) : /\ batch[i] \in Event
                                  /\ batch[i].fd \in Fds
                                  /\ batch[i].for \in Handles
<1>1. batch \in Seq(Event)
  BY DEF IInv, TypeOK
<1>2. \A i \in 1..Len(batch) : batch[i] \in Event
  BY <1>1
<1> QED
  BY <1>2 DEF Event

LEMMA TablesFromIInv == IInv => TablesOK
  BY DEF IInv, TypeOK, TablesOK

\* Steps of the kernel: a condition comes to hold on an open file.
LEMMA KernelKeepsIInv ==
  ASSUME IInv, NEW h \in Handles, BecomeReady(h) PROVE IInv'
<1> USE DEF BecomeReady, kernelVars, tableVars, pollVars
<1>1. TypeOK'
  BY DEF IInv, TypeOK
<1>2. Registered' = Registered
  BY DEF Registered
<1>3. SizeCountsRegistrations' /\ ExitsOnlyWhenIdle'
  BY <1>2 DEF IInv, SizeCountsRegistrations, ExitsOnlyWhenIdle
<1> QED
  BY <1>1, <1>3 DEF IInv, TablesAgree, ControlInv, QueueInv,
     ImmediatesInOrder, NumbersInv, BatchInv, ErrorInv, RegistrationsKept,
     IsOpen

LEMMA OpenKeepsIInv ==
  ASSUME IInv, NEW h \in Handles, Open(h) PROVE IInv'
<1> USE DEF kernelVars, tableVars, pollVars
<1>0. Nil \notin Handles /\ Nil \notin Fds
  BY LoopAssumption DEF LoopAssumption
<1>1. PICK fd \in Fds : /\ files[fd] = Nil
                        /\ files' = [files EXCEPT ![fd] = h]
                        /\ fdOf' = [fdOf EXCEPT ![h] = fd]
  BY DEF Open, LowestFree, Free
<1>2. /\ TablesOK'
      /\ callbacks' = callbacks
  BY <1>1, TablesUnchanged, TablesFromIInv DEF Open
<1>3. TypeOK'
  BY <1>1 DEF IInv, TypeOK, Open
<1>4. NumbersInv'
  BY <1>0, <1>1 DEF IInv, NumbersInv, TypeOK, Open
<1>5. ExitsOnlyWhenIdle' /\ ControlInv' /\ QueueInv'
  BY DEF Open, Running, IInv, ExitsOnlyWhenIdle, ControlInv, QueueInv,
         ImmediatesInOrder
<1>6. BatchInv'
  <2>1. ASSUME "closes_others" \notin program, pc \in {"event", "error"}
        PROVE  fdOf'[self] = fdOf[self]
    <3>1. fdOf[self] \in Fds
      BY <2>1 DEF IInv, BatchInv, ControlInv, Event
    <3>2. self # h
      BY <1>0, <3>1 DEF Open
    <3> QED
      BY <1>1, <3>2, <2>1 DEF IInv, TypeOK, ControlInv
  <2> QED
    BY <2>1 DEF IInv, BatchInv, Open
<1>7. ErrorInv'
  BY DEF Open, ErrorInv, IInv
<1>8. RegistrationsKept'
  BY <1>0, <1>1 DEF IInv, TypeOK, RegistrationsKept, IsOpen, Open
<1> QED
  BY <1>2, <1>3, <1>4, <1>5, <1>6, <1>7, <1>8 DEF IInv, TablesOK

LEMMA AddKeepsIInv ==
  ASSUME IInv, NEW h \in Handles, NEW m \in Masks, Add(h, m) PROVE IInv'
<1> USE DEF pollVars
<1>0. Nil \notin Handles /\ Nil \notin Fds
  BY LoopAssumption DEF LoopAssumption
<1>1. fdOf[h] \in Fds /\ files[fdOf[h]] = h
  BY DEF Add, IsOpen, IInv, TypeOK
<1>2. TablesOK'
  BY <1>1, LoopAddOK, TablesFromIInv DEF Add
<1>3. /\ \A fd \in Fds : callbacks[fd] # Nil => callbacks'[fd] = callbacks[fd]
      /\ callbacks'[fdOf[h]] = h
  BY <1>0, <1>1 DEF Add, LoopAdd, IInv, TypeOK, TablesAgree, tableVars
<1>4. TypeOK'
  BY <1>2 DEF Add, IInv, TypeOK, TablesOK
<1>5. ExitsOnlyWhenIdle' /\ ControlInv' /\ QueueInv' /\ NumbersInv'
  BY DEF Add, Running, IInv, ExitsOnlyWhenIdle, ControlInv, QueueInv,
         ImmediatesInOrder, NumbersInv
<1>6. BatchInv'
  <2>1. \A i \in 1..Len(batch) : batch[i].fd \in Fds /\ batch[i].for # Nil
    BY <1>0, BatchTyped
  <2> QED
    BY <1>3, <2>1 DEF IInv, BatchInv, Add
<1>7. ErrorInv'
  BY DEF Add, ErrorInv, IInv
<1>8. RegistrationsKept'
  <2>1. ASSUME program = {}, NEW k \in enrolled
        PROVE  /\ IsOpen(k) /\ fdOf[k] \in Fds
               /\ callbacks[fdOf[k]] = k /\ k # Nil
    BY <1>0, <2>1 DEF IInv, RegistrationsKept, TypeOK, IsOpen
  <2> QED
    BY <1>1, <1>3, <2>1 DEF RegistrationsKept, IsOpen, Add
<1> QED
  BY <1>2, <1>4, <1>5, <1>6, <1>7, <1>8 DEF IInv, TablesOK

LEMMA ModifyKeepsIInv ==
  ASSUME IInv, NEW h \in Handles, NEW m \in Masks, Modify(h, m) PROVE IInv'
<1> USE DEF pollVars
<1>0. Nil \notin Fds
  BY LoopAssumption DEF LoopAssumption
<1>1. fdOf[h] \in Fds /\ files[fdOf[h]] = h
  BY DEF Modify, IsOpen, IInv, TypeOK
<1>2. TablesOK' /\ callbacks' = callbacks
  BY <1>1, LoopModifyOK, TablesFromIInv DEF Modify
<1>3. TypeOK'
  BY <1>2 DEF Modify, IInv, TypeOK, TablesOK
<1> QED
  BY <1>2, <1>3 DEF Modify, Running, IInv, TablesOK, ExitsOnlyWhenIdle,
     ControlInv, QueueInv, ImmediatesInOrder, NumbersInv, BatchInv, ErrorInv,
     RegistrationsKept, IsOpen

\* A handle may be closed by the callback that runs for it, by another one,
\* or again after its number has passed to a new owner.
LEMMA CloseKeepsIInv ==
  ASSUME IInv, NEW h \in Handles, Close(h) PROVE IInv'
<1> USE DEF pollVars
<1>0. Nil \notin Handles /\ Nil \notin Fds
  BY LoopAssumption DEF LoopAssumption
<1>1. /\ fdOf[h] \in Fds
      /\ files' = [files EXCEPT ![fdOf[h]] = Nil]
  BY DEF Close, IInv, TypeOK
<1>2. TablesOK' /\ callbacks' = [callbacks EXCEPT ![fdOf[h]] = Nil]
  BY <1>1, LoopRemoveOK, TablesFromIInv DEF Close
<1>3. TypeOK'
  BY <1>1, <1>2 DEF Close, IInv, TypeOK, TablesOK
<1>4. NumbersInv'
  BY <1>1 DEF Close, IInv, NumbersInv, TypeOK
<1>5. ExitsOnlyWhenIdle' /\ ControlInv' /\ QueueInv'
  BY DEF Close, Running, IInv, ExitsOnlyWhenIdle, ControlInv, QueueInv,
         ImmediatesInOrder
<1>6. BatchInv'
  <2> SUFFICES ASSUME "closes_others" \notin program PROVE BatchInv'
    BY DEF BatchInv, Close
  <2>1. pc = "main" \/ h = self
    BY DEF Close
  <2>2. CASE pc = "main"
    BY <2>2 DEF Close, BatchInv, IInv, ControlInv
  <2>3. CASE pc # "main" /\ h = self
    <3>1. pc \in {"event", "error"}
      BY <2>3, <1>0 DEF Close, Running, IInv, ControlInv
    <3>2. \A i \in 1..Len(batch) : batch[i].fd # fdOf[h]
      BY <2>3, <3>1 DEF IInv, BatchInv
    <3>3. \A i \in 1..Len(batch) :
            callbacks'[batch[i].fd] = callbacks[batch[i].fd]
      BY <1>2, <3>2, BatchTyped DEF IInv, TypeOK
    <3> QED
      BY <3>1, <3>3 DEF Close, IInv, BatchInv
  <2> QED
    BY <2>1, <2>2, <2>3
<1>7. ErrorInv'
  BY <1>1 DEF Close, ErrorInv, IInv, TypeOK
<1>8. RegistrationsKept'
  <2> SUFFICES ASSUME program = {}, NEW k \in enrolled, k # h
               PROVE  (IsOpen(k) /\ callbacks[fdOf[k]] = k)'
    BY DEF RegistrationsKept, Close
  <2>1. IsOpen(k) /\ callbacks[fdOf[k]] = k /\ fdOf[k] \in Fds
    BY DEF IInv, RegistrationsKept, IsOpen, TypeOK
  <2>2. files[fdOf[h]] = h
    BY DEF Close, IsOpen
  <2>3. fdOf[k] # fdOf[h]
    BY <2>1, <2>2 DEF IsOpen
  <2> QED
    BY <1>1, <1>2, <2>1, <2>3 DEF Close, IsOpen, IInv, TypeOK
<1> QED
  BY <1>2, <1>3, <1>4, <1>5, <1>6, <1>7, <1>8 DEF IInv, TablesOK

LEMMA SetImmediateKeepsIInv ==
  ASSUME IInv, SetImmediate PROVE IInv'
<1> USE DEF SetImmediate, kernelVars, tableVars, pollVars
<1>1. TypeOK'
  BY DEF IInv, TypeOK
<1>2. Registered' = Registered
  BY DEF Registered
<1>3. SizeCountsRegistrations' /\ ExitsOnlyWhenIdle'
  BY <1>2 DEF IInv, SizeCountsRegistrations, ExitsOnlyWhenIdle, Running
<1>4. QueueInv'
  <2>1. /\ Len(immediates') = Len(immediates) + 1
        /\ \A i \in 1..Len(immediates) : immediates'[i] = immediates[i]
        /\ immediates'[Len(immediates) + 1] = nextTicket + 1
        /\ Len(immediates) \in Nat /\ nextTicket \in Nat
    BY DEF IInv, TypeOK
  <2>2. /\ \A i \in 1..Len(immediates) :
             immediates[i] = nextTicket - Len(immediates) + i
        /\ immLeft <= Len(immediates) /\ immLeft \in Nat
        /\ pc \in {"drain", "immediate", "event", "error"} =>
             cutoff = nextTicket - Len(immediates) + immLeft
    BY DEF IInv, TypeOK, QueueInv, ImmediatesInOrder
  <2>3. \A i \in 1..Len(immediates') :
          immediates'[i] = nextTicket' - Len(immediates') + i
    BY <2>1, <2>2
  <2> QED
    BY <2>1, <2>2, <2>3 DEF QueueInv, ImmediatesInOrder
<1> QED
  BY <1>1, <1>3, <1>4 DEF IInv, TablesAgree, ControlInv, NumbersInv, BatchInv,
     ErrorInv, RegistrationsKept, IsOpen

LEMMA ConsumeKeepsIInv ==
  ASSUME IInv, Consume PROVE IInv'
<1> USE DEF Consume, tableVars, pollVars
<1>1. TypeOK'
  BY DEF IInv, TypeOK
<1>2. Registered' = Registered
  BY DEF Registered
<1>3. SizeCountsRegistrations' /\ ExitsOnlyWhenIdle'
  BY <1>2 DEF IInv, SizeCountsRegistrations, ExitsOnlyWhenIdle
<1> QED
  BY <1>1, <1>3 DEF IInv, TablesAgree, ControlInv, QueueInv,
     ImmediatesInOrder, NumbersInv, BatchInv, ErrorInv, RegistrationsKept,
     IsOpen

\* A return from an error handler removes the number of the event.
LEMMA ReturnKeepsIInv ==
  ASSUME IInv, Return PROVE IInv'
<1>0. Nil \notin Handles /\ Nil \notin Fds
  BY LoopAssumption DEF LoopAssumption
<1>1. CASE pc # "error"
  <2>1. /\ pc \in {"main", "immediate", "event"}
        /\ pc' = IF pc = "main" THEN "poll" ELSE "drain"
        /\ UNCHANGED <<interest, tableVars, enrolled>>
    BY <1>1 DEF Return
  <2> USE <2>1 DEF Return, tableVars
  <2>2. TypeOK'
    BY DEF IInv, TypeOK, NoEvent
  <2>3. Registered' = Registered
    BY DEF Registered
  <2>4. SizeCountsRegistrations' /\ ExitsOnlyWhenIdle'
    BY <2>3 DEF IInv, SizeCountsRegistrations, ExitsOnlyWhenIdle
  <2> QED
    BY <2>2, <2>4 DEF IInv, TablesAgree, ControlInv, QueueInv,
       ImmediatesInOrder, NumbersInv, BatchInv, ErrorInv, RegistrationsKept,
       IsOpen
<1>2. CASE pc = "error"
  <2>1. event \in Event /\ event.fd \in Fds /\ event.for \in Handles
    BY <1>2 DEF IInv, ControlInv, Event
  <2>2. TablesOK' /\ callbacks' = [callbacks EXCEPT ![event.fd] = Nil]
    BY <1>2, <2>1, LoopRemoveOK, TablesFromIInv DEF Return
  <2>3. pc' = "drain" /\ enrolled' = enrolled \ {event.for}
    BY <1>2 DEF Return
  <2> USE DEF Return
  <2>4. TypeOK'
    BY <2>2, <2>3 DEF IInv, TypeOK, TablesOK, NoEvent
  <2>5. ExitsOnlyWhenIdle' /\ ControlInv' /\ QueueInv' /\ NumbersInv' /\ ErrorInv'
    BY <1>2, <2>3 DEF IInv, ExitsOnlyWhenIdle, ControlInv, QueueInv,
       ImmediatesInOrder, NumbersInv, ErrorInv
  <2>6. BatchInv'
    <3>1. ASSUME "closes_others" \notin program, NEW i \in 1..Len(batch)
          PROVE  callbacks'[batch[i].fd] = callbacks[batch[i].fd]
      BY <1>2, <2>1, <2>2, <3>1, BatchTyped DEF IInv, BatchInv, TypeOK
    <3> QED
      BY <2>3, <3>1 DEF IInv, BatchInv
  <2>7. RegistrationsKept'
    <3> SUFFICES ASSUME program = {}, NEW k \in enrolled, k # event.for
                 PROVE  (IsOpen(k) /\ callbacks[fdOf[k]] = k)'
      BY <2>3 DEF RegistrationsKept
    <3>1. /\ k \in Handles /\ IsOpen(k)
          /\ callbacks[fdOf[k]] = k /\ fdOf[k] \in Fds
      BY DEF IInv, RegistrationsKept, IsOpen, TypeOK
    <3>2. fdOf[k] # event.fd
      BY <1>0, <1>2, <3>1 DEF IInv, ErrorInv, IsOpen
    <3> QED
      BY <2>2, <3>1, <3>2 DEF IsOpen, IInv, TypeOK
  <2> QED
    BY <2>2, <2>4, <2>5, <2>6, <2>7 DEF IInv, TablesOK
<1> QED
  BY <1>1, <1>2

\* The three ways poll() ends without looking at an event, an exception, and
\* the return of a poll() that dispatched something.
LEMMA LeavingKeepsIInv ==
  ASSUME IInv,
         Throw \/ PollNothing \/ PollInterrupted \/ PollReturn \/ Terminated
  PROVE  IInv'
<1> USE DEF kernelVars, tableVars, pollVars
<1>1. UNCHANGED <<kernelVars, tableVars, immediates, immLeft, batch, event,
                  self, fdOf, nextTicket, enrolled, program>>
  BY DEF Throw, PollNothing, PollInterrupted, PollReturn, Terminated, vars
<1>2. /\ Registered' = Registered
      /\ IsFiniteSet(Registered)
  BY <1>1, RegisteredFinite DEF Registered
<1>3. SizeCountsRegistrations'
  BY <1>1, <1>2 DEF IInv, SizeCountsRegistrations
<1>4. TypeOK'
  BY <1>1 DEF IInv, TypeOK, Throw, PollNothing, PollInterrupted, PollReturn,
     Terminated, vars
<1>5. ExitsOnlyWhenIdle'
  <2>1. CASE PollNothing
    <3>1. Registered = {}
      BY <2>1, <1>2, FS_EmptySet DEF PollNothing, IInv, SizeCountsRegistrations
    <3> QED
      BY <2>1, <1>2, <3>1 DEF ExitsOnlyWhenIdle, PollNothing
  <2>2. CASE Throw \/ PollInterrupted \/ Terminated
    BY <2>2, <1>2 DEF IInv, ExitsOnlyWhenIdle, Throw, PollInterrupted,
       Terminated, vars
  <2>3. CASE PollReturn
    BY <2>3 DEF ExitsOnlyWhenIdle, PollReturn, IInv, ControlInv
  <2> QED
    BY <2>1, <2>2, <2>3
<1>6. ControlInv' /\ QueueInv' /\ BatchInv' /\ ErrorInv'
  BY <1>1 DEF IInv, TypeOK, ControlInv, QueueInv, ImmediatesInOrder, BatchInv,
     ErrorInv, Throw, PollNothing, PollInterrupted, PollReturn, Terminated,
     vars
<1> QED
  BY <1>1, <1>3, <1>4, <1>5, <1>6 DEF IInv, TablesAgree, NumbersInv,
     RegistrationsKept, IsOpen

\* epoll_wait: the batch that starts is consistent with the tables.
LEMMA PollWaitKeepsIInv ==
  ASSUME IInv, PollWait PROVE IInv'
<1> USE DEF PollWait, kernelVars, tableVars
<1>1. /\ batch' \in Seq(Event)
      /\ \A i \in 1..Len(batch') : callbacks[batch'[i].fd] = batch'[i].for
      /\ \A i, j \in 1..Len(batch') : i # j => batch'[i].fd # batch'[j].fd
      /\ Deliverable # {} => Len(batch') > 0
  BY BatchesOK, TablesFromIInv DEF IInv, TypeOK
<1>2. completions' > 0 /\ completions' \in Int
  BY <1>1 DEF IInv, TypeOK
<1>3. TypeOK'
  BY <1>1, <1>2 DEF IInv, TypeOK
<1>4. Registered' = Registered
  BY DEF Registered
<1>5. SizeCountsRegistrations' /\ ExitsOnlyWhenIdle'
  BY <1>4 DEF IInv, SizeCountsRegistrations, ExitsOnlyWhenIdle
<1>6. QueueInv'
  BY DEF IInv, TypeOK, QueueInv, ImmediatesInOrder
<1> QED
  BY <1>1, <1>2, <1>3, <1>5, <1>6 DEF IInv, TablesAgree, ControlInv,
     NumbersInv, BatchInv, ErrorInv, RegistrationsKept, IsOpen

LEMMA RunImmediateKeepsIInv ==
  ASSUME IInv, RunImmediate PROVE IInv'
<1> USE DEF RunImmediate, kernelVars, tableVars
<1>1. /\ immediates # <<>> /\ immediates \in Seq(Nat)
      /\ immLeft \in Nat /\ Len(immediates) \in Nat /\ nextTicket \in Nat
  BY DEF IInv, TypeOK, QueueInv, ImmediatesInOrder
<1>2. /\ immediates' \in Seq(Nat)
      /\ Len(immediates') = Len(immediates) - 1
      /\ \A i \in 1..Len(immediates') : immediates'[i] = immediates[i + 1]
  BY <1>1
<1>3. TypeOK'
  BY <1>1, <1>2 DEF IInv, TypeOK
<1>4. QueueInv'
  <2>1. /\ \A i \in 1..Len(immediates) :
             immediates[i] = nextTicket - Len(immediates) + i
        /\ immLeft <= Len(immediates)
        /\ pc = "drain" => cutoff = nextTicket - Len(immediates) + immLeft
    BY DEF IInv, QueueInv, ImmediatesInOrder
  <2>2. \A i \in 1..Len(immediates') :
          immediates'[i] = nextTicket - Len(immediates') + i
    BY <1>1, <1>2, <2>1
  <2>3. /\ immLeft' <= Len(immediates')
        /\ cutoff = nextTicket - Len(immediates') + immLeft'
    BY <1>1, <1>2, <2>1
  <2> QED
    BY <2>2, <2>3 DEF QueueInv, ImmediatesInOrder
<1>5. Registered' = Registered
  BY DEF Registered
<1>6. SizeCountsRegistrations' /\ ExitsOnlyWhenIdle'
  BY <1>5 DEF IInv, SizeCountsRegistrations, ExitsOnlyWhenIdle
<1> QED
  BY <1>3, <1>4, <1>6 DEF IInv, TablesAgree, ControlInv, NumbersInv, BatchInv,
     ErrorInv, RegistrationsKept, IsOpen

LEMMA DispatchKeepsIInv ==
  ASSUME IInv, DispatchEvent PROVE IInv'
<1> USE DEF DispatchEvent, kernelVars, tableVars
<1>0. Nil \notin Handles
  BY LoopAssumption DEF LoopAssumption
<1>1. batch \in Seq(Event) /\ batch # <<>>
  BY DEF IInv, TypeOK
<1>2. /\ event' = batch[1] /\ event' \in Event /\ event'.fd \in Fds
      /\ event'.for \in Handles
  <2>1. batch[1] \in Event /\ Head(batch) = batch[1]
    BY <1>1
  <2>2. batch[1].fd \in Fds /\ batch[1].for \in Handles
    BY <2>1 DEF Event
  <2> QED
    BY <2>1, <2>2
<1>3. /\ batch' \in Seq(Event)
      /\ Len(batch') = Len(batch) - 1 /\ Len(batch) \in Nat
      /\ \A i \in 1..Len(batch') : batch'[i] = batch[i + 1]
  BY <1>1
<1>4. self' = callbacks[event'.fd] /\ self' \in Handles \cup {Nil}
  BY <1>2 DEF Table, IInv, TablesAgree, TypeOK
<1>5. TypeOK'
  BY <1>2, <1>3, <1>4 DEF IInv, TypeOK
<1>6. Registered' = Registered
  BY DEF Registered
<1>7. SizeCountsRegistrations' /\ ExitsOnlyWhenIdle'
  BY <1>6 DEF IInv, SizeCountsRegistrations, ExitsOnlyWhenIdle
<1>8. BatchInv'
  <2> SUFFICES ASSUME "closes_others" \notin program PROVE BatchInv'
    BY DEF BatchInv
  <2>1. /\ \A i \in 1..Len(batch) : callbacks[batch[i].fd] = batch[i].for
        /\ \A i, j \in 1..Len(batch) : i # j => batch[i].fd # batch[j].fd
    BY DEF IInv, BatchInv
  <2>2. self' = event'.for /\ pc' # "crashed"
    BY <1>0, <1>1, <1>2, <1>4, <2>1
  <2>3. fdOf[self'] = event'.fd
    BY <1>0, <1>2, <1>4, <2>2 DEF IInv, NumbersInv, TablesAgree
  <2>4. /\ \A i \in 1..Len(batch') : batch'[i].fd # event'.fd
        /\ \A i \in 1..Len(batch') : callbacks[batch'[i].fd] = batch'[i].for
        /\ \A i, j \in 1..Len(batch') : i # j => batch'[i].fd # batch'[j].fd
    BY <1>2, <1>3, <2>1
  <2> QED
    BY <2>2, <2>3, <2>4 DEF BatchInv
<1>9. ErrorInv'
  <2> SUFFICES ASSUME program \cap {"closes_others", "opens_on_error"} = {},
                      pc' = "error"
               PROVE  files[event'.fd] \in {Nil, event'.for}
    BY DEF ErrorInv
  <2>1. callbacks[event'.fd] = event'.for
    BY <1>1, <1>2 DEF IInv, BatchInv
  <2> QED
    BY <1>0, <1>2, <2>1 DEF IInv, TablesAgree
<1> QED
  BY <1>2, <1>4, <1>5, <1>7, <1>8, <1>9 DEF IInv, TablesAgree, ControlInv,
     QueueInv, ImmediatesInOrder, NumbersInv, RegistrationsKept, IsOpen

LEMMA NextKeepsIInv == IInv /\ [Next]_vars => IInv'
<1> SUFFICES ASSUME IInv, [Next]_vars PROVE IInv'
  OBVIOUS
<1>1. CASE Kernel
  BY <1>1, KernelKeepsIInv DEF Kernel
<1>2. CASE Program
  <2>1. CASE \E h \in Handles : Open(h) \/ Close(h)
    BY <2>1, OpenKeepsIInv, CloseKeepsIInv
  <2>2. CASE \E h \in Handles, m \in Masks : Add(h, m) \/ Modify(h, m)
    BY <2>2, AddKeepsIInv, ModifyKeepsIInv
  <2>3. CASE SetImmediate \/ Consume \/ Return \/ Throw
    BY <2>3, SetImmediateKeepsIInv, ConsumeKeepsIInv, ReturnKeepsIInv,
       LeavingKeepsIInv
  <2> QED
    BY <1>2, <2>1, <2>2, <2>3 DEF Program
<1>3. CASE Poll
  BY <1>3, LeavingKeepsIInv, PollWaitKeepsIInv, RunImmediateKeepsIInv,
     DispatchKeepsIInv DEF Poll
<1>4. CASE PollInterrupted
  BY <1>4, LeavingKeepsIInv
<1>5. CASE Terminated \/ UNCHANGED vars
  <2>1. UNCHANGED vars
    BY <1>5 DEF Terminated
  <2>2. Registered' = Registered
    BY <2>1 DEF vars, tableVars, Registered
  <2> QED
    BY <2>1, <2>2 DEF vars, kernelVars, tableVars, pollVars, IInv, TypeOK,
       TablesAgree, SizeCountsRegistrations, ExitsOnlyWhenIdle, ControlInv,
       QueueInv, ImmediatesInOrder, NumbersInv, BatchInv, ErrorInv,
       RegistrationsKept, IsOpen
<1> QED
  BY <1>1, <1>2, <1>3, <1>4, <1>5 DEF Next

-----------------------------------------------------------------------------
(* The theorems. *)

THEOREM InductiveInvariant == Spec => []IInv
  BY InitIInv, NextKeepsIInv, PTL DEF Spec

\* Every variable keeps its type; in particular imm_len, which counts down to
\* zero, never passes it.
THEOREM TypeCorrect == Spec => []TypeOK
<1>1. IInv => TypeOK
  BY DEF IInv
<1> QED
  BY <1>1, InductiveInvariant, PTL

\* #size counts the registered numbers, for every program (lib/loop.js add,
\* remove, poll).
THEOREM SizeCorrect == Spec => []SizeCountsRegistrations
<1>1. IInv => SizeCountsRegistrations
  BY DEF IInv
<1> QED
  BY <1>1, InductiveInvariant, PTL

\* The loop's tables, epoll's interest list and the descriptor table agree,
\* for every program.
THEOREM TablesCorrect == Spec => []TablesAgree
<1>1. IInv => TablesAgree
  BY DEF IInv
<1> QED
  BY <1>1, InductiveInvariant, PTL

\* while (loop.poll() > 0) never ends on a 0 with something left to do.
THEOREM ExitCorrect == Spec => []ExitsOnlyWhenIdle
<1>1. IInv => ExitsOnlyWhenIdle
  BY DEF IInv
<1> QED
  BY <1>1, InductiveInvariant, PTL

\* A program whose callbacks close only their own handle never makes poll()
\* call a callback that is gone or one that belongs to another handle.
THEOREM DispatchCorrect == Spec => []EventsReachTheirHandle
<1>1. IInv => EventsReachTheirHandle
  BY DEF IInv, BatchInv, EventsReachTheirHandle
<1> QED
  BY <1>1, InductiveInvariant, PTL

\* A program that takes no liberty loses no registration.
THEOREM RegistrationCorrect == Spec => []RegistrationsKept
<1>1. IInv => RegistrationsKept
  BY DEF IInv
<1> QED
  BY <1>1, InductiveInvariant, PTL

\* poll() owes exactly the immediates it found, in order.
THEOREM QueueCorrect == Spec => []ImmediatesInOrder
<1>1. IInv => ImmediatesInOrder
  BY DEF IInv, QueueInv
<1> QED
  BY <1>1, InductiveInvariant, PTL

\* An immediate never runs in the poll() it was queued in.
THEOREM DeferralCorrect == Spec => ImmediatesDeferred
<1>1. ASSUME IInv, [Next]_vars
      PROVE  [pc = "drain" /\ pc' = "immediate" =>
                Head(immediates) <= cutoff]_vars
  <2> SUFFICES ASSUME Next, pc = "drain", pc' = "immediate"
               PROVE  Head(immediates) <= cutoff
    BY <1>1
  <2>1. RunImmediate
    BY DEF Next, Kernel, BecomeReady, Program, Open, Close, Add, Modify,
       SetImmediate, Consume, Return, Throw, Running, Poll, PollNothing,
       PollWait, PollInterrupted, DispatchEvent, PollReturn, Terminated, vars
  <2>2. /\ immLeft > 0 /\ immLeft \in Nat /\ nextTicket \in Nat
        /\ immediates \in Seq(Nat) /\ Len(immediates) >= immLeft
    BY <1>1, <2>1 DEF RunImmediate, IInv, TypeOK, QueueInv, ImmediatesInOrder
  <2>3. /\ Head(immediates) = nextTicket - Len(immediates) + 1
        /\ cutoff = nextTicket - Len(immediates) + immLeft
    BY <1>1, <2>2 DEF IInv, QueueInv, ImmediatesInOrder
  <2> QED
    BY <2>2, <2>3
<1> QED
  BY <1>1, InductiveInvariant, PTL DEF Spec, ImmediatesDeferred
=============================================================================
